------------------------- MODULE BuildAttemptsProofs -------------------------
(* Theorems about BuildAttempts for every attempt limit, every set of package  *)
(* contents and every number of commands and kills.                            *)
EXTENDS BuildAttempts, TLAPS, FiniteSetTheorems, WellFoundedInduction

-----------------------------------------------------------------------------
(* The largest of a set of attempts is one of them: a strictly smaller set of  *)
(* larger attempts can be taken only finitely often.                           *)
LEMMA MaxIsMember ==
    ASSUME NEW S \in SUBSET Attempts, S # {}
    PROVE  Max(S) \in S /\ \A n \in S : Max(S) >= n
<1> DEFINE Above(n) == {m \in S : m > n}
           Tails == {Above(n) : n \in S}
<1>1. IsFiniteSet(S)
  <2>1. IsFiniteSet(Attempts)
    BY FS_Interval, BuildAssumption DEF Attempts
  <2> QED BY <2>1, FS_Subset
<1>2. Tails \subseteq FiniteSubsetsOf(S) /\ Tails # {}
  <2>1. ASSUME NEW n \in S PROVE Above(n) \in SUBSET S /\ IsFiniteSet(Above(n))
    <3>1. Above(n) \in SUBSET S
      OBVIOUS
    <3> QED BY <3>1, <1>1, FS_Subset
  <2> QED BY <2>1 DEF FiniteSubsetsOf
<1>3. PICK least \in Tails : \A t \in Tails : ~(<<t, least>> \in StrictSubsetOrdering(S))
  <2> HIDE DEF Tails
  <2> QED BY <1>2, FS_StrictSubsetOrderingWellFounded, WFMin
<1>4. PICK n \in S : least = Above(n)
  OBVIOUS
<1>5. \A m \in S : n >= m
  <2> SUFFICES ASSUME NEW m \in S, ~(n >= m) PROVE FALSE
    OBVIOUS
  <2>1. \A k \in S : k \in Nat
    BY BuildAssumption DEF Attempts
  <2>2. m > n /\ \A k \in S : k > m => k > n
    BY <2>1
  <2>3. Above(m) \subseteq Above(n) /\ m \in Above(n) /\ m \notin Above(m)
    BY <2>1, <2>2
  <2>4. <<Above(m), Above(n)>> \in StrictSubsetOrdering(S)
    BY <2>3 DEF StrictSubsetOrdering
  <2> QED BY <1>3, <1>4, <2>4
<1> QED BY <1>5 DEF Max

LEMMA LatestType ==
    /\ Latest \in 0..AttemptLimit /\ LatestDirectory \in 0..AttemptLimit
    /\ Latest # 0 => Latest \in Attempts
<1>1. Reported \in SUBSET Attempts /\ Present \in SUBSET Attempts
  BY DEF Reported, Present
<1>2. Reported # {} => Latest \in Attempts
  BY <1>1, MaxIsMember DEF Latest
<1>3. Present # {} => LatestDirectory \in Attempts
  BY <1>1, MaxIsMember DEF LatestDirectory
<1>4. /\ Reported = {} => Latest = 0
      /\ Present = {} => LatestDirectory = 0
  BY DEF Latest, LatestDirectory
<1> QED BY <1>2, <1>3, <1>4, BuildAssumption DEF Attempts

-----------------------------------------------------------------------------
(* Types *)

(* While an attempt is made, its number is one of the attempts.                *)
Attempting == pc \in {"input", "work", "written"} => attempt \in Attempts

TypeInv == TypeOK /\ Attempting

LEMMA TypeInit == Init => TypeInv
<1>1. FreshManifest(1) \in Manifests
  BY BuildAssumption DEF FreshManifest, Manifests, Inputs, NoArchive
<1>2. ASSUME Init PROVE TypeOK
  <2>1. inputs \in Inputs /\ manifest \in Manifests /\ commands \in 1..MaxCommands
    BY <1>1, <1>2, BuildAssumption DEF Init, Inputs
  <2>2. /\ attempts \in [Attempts -> Directories] /\ scratch \in SUBSET Attempts
        /\ archive \in [Attempts -> Results \cup {None}] /\ package \in Packages
    BY <1>2 DEF Init, Directories, NoArchive, Packages, Contents
  <2>3. ending \in Reports /\ attempt \in 0..AttemptLimit /\ kills \in 0..MaxKills
    BY <1>2, BuildAssumption DEF Init, NoResult, Reports, Statuses, Reasons
  <2> QED BY <1>2, <2>1, <2>2, <2>3 DEF Init, TypeOK, Labels, Outcomes
<1>3. Init => Attempting
  BY DEF Init, Attempting
<1> QED BY <1>2, <1>3 DEF TypeInv

(* The manifest after it was brought up to date.                               *)
LEMMA SyncedFields ==
    ASSUME TypeOK
    PROVE  /\ Synced = [inputs |-> manifest.inputs,
                        content |-> IF package.content = "empty" THEN manifest.content
                                    ELSE package.content,
                        litter |-> manifest.litter \/ package.litter,
                        archive |-> archive,
                        scratch |-> manifest.scratch \cup scratch]
           /\ Synced \in Manifests
<1> DEFINE content == IF package.content = "empty" THEN manifest.content ELSE package.content
           litter == manifest.litter \/ package.litter
           kept == manifest.scratch \cup scratch
<1>1. /\ manifest.inputs \in Inputs /\ content \in Contents \cup {None} /\ litter \in BOOLEAN
      /\ archive \in [Attempts -> Results \cup {None}] /\ kept \in SUBSET Attempts
  <2>1. manifest \in Manifests /\ package.content \in Contents /\ package.litter \in BOOLEAN
    BY DEF TypeOK, Packages
  <2>2. manifest.content \in Contents \cup {None} /\ manifest.litter \in BOOLEAN
        /\ manifest.inputs \in Inputs /\ manifest.scratch \in SUBSET Attempts
    BY <2>1 DEF Manifests
  <2>3. litter \in BOOLEAN
    BY <2>1, <2>2
  <2> QED BY <2>1, <2>2, <2>3 DEF TypeOK
<1>2. Synced = [manifest EXCEPT !.content = content, !.litter = litter, !.archive = archive,
                                !.scratch = kept]
  BY DEF Synced, TypeOK, Manifests
<1> HIDE DEF content, litter, kept
<1>3. Synced = [inputs |-> manifest.inputs, content |-> content, litter |-> litter,
                archive |-> archive, scratch |-> kept]
  BY <1>2 DEF TypeOK, Manifests
<1>4. Synced \in Manifests
  BY <1>1, <1>3 DEF Manifests
<1> QED BY <1>3, <1>4 DEF content, litter, kept

LEMMA VerdictType == ASSUME TypeOK, NEW n \in 0..AttemptLimit PROVE Verdict(n) \in Results
<1> DEFINE safe == RecordsMatch /\ package.content \notin Unsafe
           passed == safe /\ package.content \in Sound /\ n \in Attempts /\ attempts[n] = "success"
<1>1. (~safe) \in BOOLEAN /\ passed \in BOOLEAN
  OBVIOUS
<1>2. Verdict(n) = [attempt |-> n, package |-> package, security |-> ~safe, passed |-> passed]
  BY DEF Verdict
<1> HIDE DEF safe, passed
<1> QED BY <1>1, <1>2 DEF TypeOK, Results

LEMMA AddType == ASSUME TypeOK, AddVerified PROVE entry' \in Entries \cup {None}
<1>1. CASE Admitted /\ entry = None
  <2>1. result \in Results
    BY <1>1 DEF Admitted, GateOpen, TypeOK
  <2> QED BY <1>1, <2>1 DEF AddVerified, NewEntry, Entries, TypeOK
<1> QED BY <1>1 DEF AddVerified, TypeOK

LEMMA BeginType ==
    ASSUME TypeOK, NEW n \in Nat, BeginAttempt(n)
    PROVE  /\ UNCHANGED <<inputs, manifest, scratch, archive, package, result>>
           /\ attempts' \in [Attempts -> Directories] /\ attempt' \in 0..AttemptLimit
           /\ pc' \in Labels /\ ending' \in Reports /\ outcome' \in Outcomes
BY BuildAssumption DEF BeginAttempt, TypeOK, Directories, Labels, End, Reports, Statuses, Reasons,
   Outcomes, files

(* Every step keeps the types; the commands first, then the rounds.            *)
LEMMA CommandType == ASSUME TypeOK, Command PROVE TypeOK'
<1>1. CASE Overwrite
  <2>1. commands + 1 \in 1..MaxCommands /\ FreshManifest(commands + 1) \in Manifests
    BY <1>1, BuildAssumption DEF Overwrite, Start, TypeOK, FreshManifest, Manifests, Inputs,
       NoArchive, Contents
  <2> QED BY <1>1, <2>1 DEF Overwrite, Start, TypeOK, Inputs, Labels, Outcomes
<1>2. ASSUME NEW cmd \in {"build", "verify", "registry", "report"}, Refuse(cmd) PROVE TypeOK'
  BY <1>2, BuildAssumption DEF Refuse, Start, TypeOK, Outcomes, files, history
<1>3. CASE Resume
  BY <1>2, <1>3, BuildAssumption DEF Resume, Start, TypeOK, Labels, Outcomes, files, history
<1>4. CASE VerifyByHand
  <2>1. CASE Refuse("verify")
    BY <1>2, <2>1
  <2>2. CASE ~Refuse("verify")
    <3>1. /\ manifest' = Synced /\ attempt' \in {LatestDirectory} \cup Present
          /\ Start("verify") /\ pc' = "verify" /\ outcome' = "none" /\ touched' = TRUE
          /\ UNCHANGED <<inputs, attempts, scratch, archive, package, result, entry, report,
                         ending, spare, unsynced, kills>>
      BY <1>4, <2>2 DEF VerifyByHand
    <3>2. attempt' \in 0..AttemptLimit
      BY <3>1, LatestType, BuildAssumption DEF Present, Attempts
    <3>3. manifest' \in Manifests
      BY <3>1, SyncedFields
    <3> QED BY <3>1, <3>2, <3>3, BuildAssumption DEF Start, TypeOK, Labels, Outcomes
  <2> QED BY <2>1, <2>2
<1>5. CASE RegisterByHand
  <2>1. CASE Refuse("registry")
    BY <1>2, <2>1
  <2>2. CASE ~Refuse("registry")
    <3>1. AddVerified
      BY <1>5, <2>2 DEF RegisterByHand
    <3>2. ending' \in Reports /\ pc' \in Labels /\ outcome' \in Outcomes
      BY <1>5, <2>2 DEF RegisterByHand, TypeOK, Reports, Statuses, Reasons, Labels, Outcomes
    <3> QED BY <1>5, <2>2, <3>1, <3>2, AddType, BuildAssumption
            DEF RegisterByHand, Start, TypeOK, files, history
  <2> QED BY <2>1, <2>2
<1>6. CASE RefreshReport
  <2>1. CASE Refuse("report")
    BY <1>2, <2>1
  <2>2. CASE ~Refuse("report")
    BY <1>6, <2>2, BuildAssumption DEF RefreshReport, Start, TypeOK, Reports, Statuses, Reasons,
       Outcomes, files, history
  <2> QED BY <2>1, <2>2
<1>7. CASE ListApproved
  BY <1>7, BuildAssumption DEF ListApproved, Start, TypeOK, Labels, Outcomes, files, history
<1> QED BY <1>1, <1>3, <1>4, <1>5, <1>6, <1>7 DEF Command

LEMMA StepType == ASSUME TypeInv, Step PROVE TypeOK'
<1> USE DEF TypeInv
<1>1. CASE RewriteContract \/ RelockContract
  <2>1. CASE RewriteContract
    <3>1. inputs' \in Inputs
      BY <2>1 DEF RewriteContract, TypeOK, Inputs
    <3>2. pc' \in Labels
      BY <2>1 DEF RewriteContract, Labels
    <3> QED BY <2>1, <3>1, <3>2 DEF RewriteContract, TypeOK, volatile, history
  <2>2. CASE RelockContract
    <3>1. manifest' \in Manifests
      BY <2>2 DEF RelockContract, TypeOK, Manifests
    <3>2. pc' \in Labels
      BY <2>2 DEF RelockContract, Labels
    <3> QED BY <2>2, <3>1, <3>2 DEF RelockContract, TypeOK, volatile, history
  <2> QED BY <1>1, <2>1, <2>2
<1>2. CASE TakeRoute
  BY <1>2 DEF TakeRoute, TypeOK, Reports, Statuses, Reasons, Labels, Outcomes, files, volatile,
     history
<1>3. CASE Register
  <2>1. AddVerified
    BY <1>3 DEF Register
  <2> QED BY <1>3, <2>1, AddType DEF Register, End, TypeOK, Reports, Statuses, Reasons, Labels,
     files, history
<1>4. CASE FirstAttempt \/ NextAttempt
  <2>1. PICK n \in Nat : BeginAttempt(n)
    BY <1>4, LatestType, BuildAssumption DEF FirstAttempt, NextAttempt, NextAttemptId
  <2> QED BY <1>4, <2>1, BeginType DEF FirstAttempt, NextAttempt, TypeOK, history
<1>5. CASE VerifyLatest
  BY <1>5, LatestType DEF VerifyLatest, TypeOK, Labels, files, history
<1>6. CASE GiveUp
  BY <1>6 DEF GiveUp, End, TypeOK, Reports, Statuses, Reasons, Labels, files, history
<1>7. CASE WriteInputManifest \/ WriteReport
  BY <1>7 DEF WriteInputManifest, WriteReport, TypeOK, Directories, Exits, Labels, volatile, history
<1>8. CASE Work
  <2>1. package' \in Packages /\ scratch' \in SUBSET Attempts
    <3>1. CASE UNCHANGED <<package, scratch>>
      BY <3>1 DEF TypeOK
    <3>2. CASE ~UNCHANGED <<package, scratch>>
      <4>1. PICK content \in Contents, litter \in {package.litter, TRUE} :
                package' = [content |-> content, litter |-> litter]
        BY <1>8, <3>2 DEF Work
      <4>2. litter \in BOOLEAN
        BY DEF TypeOK, Packages
      <4>3. attempt \in Attempts
        BY <1>8 DEF Work, Attempting
      <4>4. package' \in Packages
        BY <4>1, <4>2 DEF Packages
      <4>5. scratch' \in {scratch, scratch \cup {attempt}}
        BY <1>8, <3>2 DEF Work
      <4>6. scratch \in SUBSET Attempts
        BY DEF TypeOK
      <4> HIDE DEF TypeInv
      <4> QED BY <4>3, <4>4, <4>5, <4>6
    <3> QED BY <3>1, <3>2
  <2> QED BY <1>8, <2>1 DEF Work, TypeOK, Labels, volatile
<1>9. CASE Sync
  BY <1>9, SyncedFields DEF Sync, TypeOK, Labels, Outcomes, volatile, history
<1>10. CASE Verify
  <2>1. result' \in Results
    BY <1>10, VerdictType DEF Verify, TypeOK
  <2> QED BY <1>10, <2>1 DEF Verify, TypeOK, Labels, Outcomes, volatile, history
<1>11. CASE Archive
  BY <1>11 DEF Archive, TypeOK, Labels, volatile, history
<1>12. CASE EmitReport
  BY <1>12 DEF EmitReport, TypeOK, Labels, Outcomes, files, volatile, history
<1>13. CASE RemoveTransient
  <2>1. package' \in Packages
    BY <1>13 DEF RemoveTransient, TypeOK, Packages
  <2> QED BY <1>13, <2>1 DEF RemoveTransient, TypeOK, Labels, Outcomes, volatile
<1> QED BY <1>1, <1>2, <1>3, <1>4, <1>5, <1>6, <1>7, <1>8, <1>9, <1>10, <1>11, <1>12, <1>13
        DEF Step

LEMMA AttemptingStep == ASSUME TypeInv, [Next]_vars PROVE Attempting'
<1> USE DEF Attempting
<1>1. CASE FirstAttempt \/ NextAttempt
  <2>1. PICK n \in Nat \ {0} : BeginAttempt(n)
    BY <1>1, LatestType, BuildAssumption DEF FirstAttempt, NextAttempt, NextAttemptId, TypeInv
  <2>2. pc' = "input" => attempt' \in Attempts
    BY <2>1, BuildAssumption DEF BeginAttempt, End, Attempts
  <2>3. pc' \in {"input", "emit", "idle"}
    BY <2>1 DEF BeginAttempt, End
  <2> QED BY <2>2, <2>3
<1>2. CASE WriteInputManifest \/ Work
  BY <1>2 DEF WriteInputManifest, Work, volatile, TypeInv
<1>3. ASSUME Step, ~(FirstAttempt \/ NextAttempt \/ WriteInputManifest \/ Work)
      PROVE  pc' \notin {"input", "work", "written"}
  BY <1>3 DEF Step, RewriteContract, RelockContract, TakeRoute, Register, End, VerifyLatest, GiveUp,
     WriteReport, Sync, Verify, Archive, EmitReport, RemoveTransient
<1>4. CASE Command
  BY <1>4 DEF Command, Overwrite, Resume, VerifyByHand, RegisterByHand, RefreshReport,
     ListApproved, Refuse, Start
<1>5. CASE Kill
  BY <1>5 DEF Kill
<1>6. CASE UNCHANGED vars
  BY <1>6 DEF vars, TypeInv
<1> QED BY <1>1, <1>2, <1>3, <1>4, <1>5, <1>6 DEF Next

LEMMA TypeStep == TypeInv /\ [Next]_vars => TypeInv'
<1> SUFFICES ASSUME TypeInv, [Next]_vars PROVE TypeOK'
  BY AttemptingStep DEF TypeInv
<1> USE DEF TypeInv
<1>1. CASE Kill
  BY <1>1, BuildAssumption DEF Kill, TypeOK, Labels, Outcomes, files, volatile
<1>2. CASE UNCHANGED vars
  BY <1>2 DEF vars, TypeOK
<1> QED BY <1>1, <1>2, StepType, CommandType DEF Next

(* Every file of a job workspace and of the loop is of its kind.               *)
THEOREM TypeCorrect == Spec => []TypeOK
<1>1. TypeInv => TypeOK
  BY DEF TypeInv
<1> QED BY <1>1, TypeInit, TypeStep, PTL DEF Spec

-----------------------------------------------------------------------------
(* What is registered is sound *)

PassedIsSound ==
    result # None /\ result.passed =>
        result.package.content \in Sound /\ result.attempt \in Attempts

(* The directory of the attempt that is made has no execution report yet, so   *)
(* the reports that are there are never written over.                          *)
DirectoryOpen ==
    /\ pc = "input" => attempts[attempt] = "made"
    /\ pc \in {"work", "written"} => attempts[attempt] = "open"

EntrySound ==
    entry # None =>
        /\ entry.package.content \in Sound
        /\ entry.result # None /\ entry.result.passed /\ entry.result.package = entry.package
        /\ entry.result.attempt \in Attempts
        /\ attempts[entry.result.attempt] = "success"

SoundInv == PassedIsSound /\ DirectoryOpen /\ EntrySound

LEMMA SoundInit == Init => SoundInv
BY DEF Init, SoundInv, PassedIsSound, DirectoryOpen, EntrySound

LEMMA PassedStep == ASSUME SoundInv, [Next]_vars PROVE PassedIsSound'
<1>1. CASE Verify
  BY <1>1 DEF Verify, Verdict, PassedIsSound
<1>2. CASE UNCHANGED result
  BY <1>2 DEF SoundInv, PassedIsSound
<1>3. ASSUME Step, ~Verify PROVE UNCHANGED result
  BY <1>3 DEF Step, RewriteContract, RelockContract, TakeRoute, Register, FirstAttempt, VerifyLatest,
     GiveUp, NextAttempt, BeginAttempt, End, WriteInputManifest, Work, WriteReport, Sync, Archive,
     EmitReport, RemoveTransient, files
<1>4. ASSUME Command \/ Kill PROVE UNCHANGED result
  BY <1>4 DEF Command, Overwrite, Resume, VerifyByHand, RegisterByHand, RefreshReport, ListApproved,
     Refuse, Kill, files
<1> QED BY <1>1, <1>2, <1>3, <1>4 DEF Next, vars

(* An attempt directory changes while an attempt is begun, opened or reported; *)
(* a success is never among the directories that change.                       *)
LEMMA DirectoryStep ==
    ASSUME TypeInv, SoundInv, [Next]_vars
    PROVE  /\ DirectoryOpen'
           /\ \A n \in Attempts : attempts[n] = "success" => attempts'[n] = "success"
<1> DEFINE Kept == \A n \in Attempts : attempts[n] = "success" => attempts'[n] = "success"
<1>1. attempts \in [Attempts -> Directories]
  BY DEF TypeInv, TypeOK
<1>2. CASE FirstAttempt \/ NextAttempt
  <2>1. PICK n \in Nat \ {0} : BeginAttempt(n)
    BY <1>2, LatestType, BuildAssumption DEF FirstAttempt, NextAttempt, NextAttemptId
  <2>2. CASE n <= AttemptLimit /\ attempts[n] \in {"absent", "made"}
    <3>1. n \in Attempts
      BY <2>2, BuildAssumption DEF Attempts
    <3>2. attempts' = [attempts EXCEPT ![n] = "made"] /\ attempt' = n /\ pc' = "input"
      BY <2>1, <2>2, BuildAssumption DEF BeginAttempt, End
    <3> QED BY <1>1, <2>2, <3>1, <3>2 DEF DirectoryOpen
  <2>3. CASE ~(n <= AttemptLimit /\ attempts[n] \in {"absent", "made"})
    BY <2>1, <2>3, BuildAssumption DEF BeginAttempt, End, files, DirectoryOpen
  <2> QED BY <2>2, <2>3
<1>3. CASE WriteInputManifest
  <2>1. attempt \in Attempts /\ attempts[attempt] = "made"
    BY <1>3 DEF WriteInputManifest, TypeInv, Attempting, SoundInv, DirectoryOpen
  <2> QED BY <1>1, <1>3, <2>1 DEF WriteInputManifest, volatile, DirectoryOpen
<1>4. CASE WriteReport
  <2>1. attempt \in Attempts /\ attempts[attempt] = "open"
    BY <1>4 DEF WriteReport, TypeInv, Attempting, SoundInv, DirectoryOpen
  <2> QED BY <1>1, <1>4, <2>1 DEF WriteReport, DirectoryOpen
<1>5. CASE Work
  BY <1>5 DEF Work, volatile, SoundInv, DirectoryOpen
<1>6. ASSUME Step, ~(FirstAttempt \/ NextAttempt \/ WriteInputManifest \/ WriteReport \/ Work)
      PROVE  UNCHANGED attempts /\ pc' \notin {"input", "work", "written"}
  BY <1>6 DEF Step, RewriteContract, RelockContract, TakeRoute, Register, VerifyLatest,
     GiveUp, End, Sync, Verify, Archive, EmitReport, RemoveTransient, files
<1>7. ASSUME Command \/ Kill
      PROVE  UNCHANGED attempts /\ pc' \notin {"input", "work", "written"}
  BY <1>7 DEF Command, Overwrite, Resume, VerifyByHand, RegisterByHand, RefreshReport, ListApproved,
     Refuse, Start, Kill, files
<1>8. CASE UNCHANGED vars
  BY <1>8 DEF vars, SoundInv, DirectoryOpen
<1> QED BY <1>2, <1>3, <1>4, <1>5, <1>6, <1>7, <1>8 DEF Next, DirectoryOpen

(* The entry is written where the registry's gate is open, and never again.    *)
LEMMA EntryWritten ==
    ASSUME TypeInv, [Next]_vars
    PROVE  \/ UNCHANGED entry
           \/ /\ entry = None /\ GateOpen /\ entry' = NewEntry
              /\ UNCHANGED files
<1>1. CASE Register
  BY <1>1 DEF Register, AddVerified, Admitted, End
<1>2. CASE RegisterByHand
  BY <1>2 DEF RegisterByHand, Refuse, AddVerified, Admitted
<1>3. ASSUME Step \/ Command \/ Kill, ~Register, ~RegisterByHand PROVE UNCHANGED entry
  BY <1>3 DEF Step, RewriteContract, RelockContract, TakeRoute, FirstAttempt, VerifyLatest,
     GiveUp, NextAttempt, WriteInputManifest, Work, WriteReport, Sync, Verify, Archive, EmitReport,
     RemoveTransient, Command, Overwrite, Resume, VerifyByHand, RefreshReport, ListApproved, Refuse,
     Kill
<1> QED BY <1>1, <1>2, <1>3 DEF Next, vars

LEMMA EntryStep == ASSUME TypeInv, SoundInv, [Next]_vars PROVE EntrySound'
<1>1. CASE UNCHANGED entry
  BY <1>1, DirectoryStep DEF SoundInv, EntrySound
<1>2. CASE /\ entry = None /\ GateOpen /\ entry' = NewEntry /\ UNCHANGED files
  <2>1. result \in Results /\ result # None
    BY <1>2 DEF GateOpen, TypeInv, TypeOK
  <2>2. result.package.content \in Sound /\ result.attempt \in Attempts
    BY <1>2 DEF GateOpen, SoundInv, PassedIsSound
  <2> QED BY <1>2, <2>1, <2>2 DEF GateOpen, NewEntry, EntrySound, files
<1> QED BY <1>1, <1>2, EntryWritten

LEMMA SoundStep == TypeInv /\ SoundInv /\ [Next]_vars => SoundInv'
BY PassedStep, DirectoryStep, EntryStep DEF SoundInv

(* What the registry holds of a job passed the static checks, and the attempt  *)
(* its provenance names ended in success: killed, resumed, verified by hand or *)
(* overwritten as often as one likes, no attempt directory with a success is   *)
(* ever used again.                                                            *)
THEOREM RegisteredIsSound == Spec => []OnlySoundRegistered
<1>1. SoundInv => OnlySoundRegistered
  BY DEF SoundInv, EntrySound, OnlySoundRegistered
<1> QED BY <1>1, TypeInit, TypeStep, SoundInit, SoundStep, PTL DEF Spec

-----------------------------------------------------------------------------
(* A registered job stays registered *)

(* Until someone changes the workspace by hand, a result that passed is of the *)
(* latest attempt, no new attempt is made, and the loop verifies the latest.   *)
PassedIsLatest ==
    ~touched /\ result # None /\ result.passed =>
        result.attempt = Latest /\ pc \notin {"input", "work", "written"}

LatestIsVerified == ~touched /\ pc = "verify" => attempt = Latest

(* A job that is registered has nothing left to do but to say so.              *)
EntryStays ==
    entry # None /\ ~touched =>
        /\ RegisteredStays
        /\ pc \in {"idle", "route", "decide", "emit", "remove"}

NotBuiltYet == pc \in {"limit", "relock"} => entry = None \/ touched

StayInv == PassedIsLatest /\ LatestIsVerified /\ EntryStays /\ NotBuiltYet

LEMMA StayInit == Init => StayInv
BY DEF Init, StayInv, PassedIsLatest, LatestIsVerified, EntryStays, NotBuiltYet

(* A workspace once touched stays so.                                          *)
LEMMA TouchedStays == ASSUME [Next]_vars PROVE touched => touched'
<1>1. ASSUME Step PROVE touched => touched'
  BY <1>1 DEF Step, RewriteContract, RelockContract, TakeRoute, Register, FirstAttempt, VerifyLatest,
     GiveUp, NextAttempt, WriteInputManifest, Work, WriteReport, Sync, Verify, Archive, EmitReport,
     RemoveTransient, history
<1>2. ASSUME Command \/ Kill PROVE touched => touched'
  BY <1>2 DEF Command, Overwrite, Resume, VerifyByHand, RegisterByHand, RefreshReport, ListApproved,
     Refuse, Kill, history
<1> QED BY <1>1, <1>2 DEF Next, vars

LEMMA SameReports == ASSUME UNCHANGED attempts PROVE Latest' = Latest
BY DEF Latest, Reported

(* While a job is registered and untouched its evidence still opens the gate,  *)
(* and the loop finds its result verified.                                     *)
LEMMA StillAdmitted ==
    ASSUME SoundInv, StayInv, entry # None, ~touched
    PROVE  Admitted /\ Verified /\ Judged
<1>1. /\ RecordsMatch /\ entry.package = package /\ entry.result = result
      /\ entry.manifest = manifest
  BY DEF StayInv, EntryStays, RegisteredStays
<1>2. /\ result # None /\ result.passed /\ result.package = package
      /\ attempts[result.attempt] = "success"
  BY <1>1 DEF SoundInv, EntrySound
<1>3. Admitted
  BY <1>1, <1>2 DEF Admitted, GateOpen
<1>4. result.attempt = Latest
  BY <1>2 DEF StayInv, PassedIsLatest
<1> QED BY <1>2, <1>3, <1>4 DEF Verified, Judged

(* An attempt is begun only where the loop does not find its result verified.  *)
LEMMA NoAttemptAfterPass ==
    ASSUME StayInv, ~touched, FirstAttempt \/ NextAttempt \/ GiveUp \/ VerifyLatest
    PROVE  result = None \/ ~result.passed
<1>1. SUFFICES ASSUME result # None, result.passed PROVE FALSE
  OBVIOUS
<1>2. Verified /\ Judged
  BY <1>1 DEF StayInv, PassedIsLatest, Verified, Judged
<1> QED BY <1>2 DEF FirstAttempt, NextAttempt, GiveUp, VerifyLatest, LatestFailed

LEMMA PassedIsLatestStep ==
    ASSUME TypeInv, SoundInv, StayInv, [Next]_vars PROVE PassedIsLatest' /\ LatestIsVerified'
<1> SUFFICES ASSUME ~touched' PROVE PassedIsLatest' /\ LatestIsVerified'
  BY DEF PassedIsLatest, LatestIsVerified
<1> ~touched
  BY TouchedStays
<1>1. CASE FirstAttempt \/ NextAttempt
  <2>1. result' = result
    <3>1. PICK n \in Nat : BeginAttempt(n)
      BY <1>1, LatestType, BuildAssumption DEF FirstAttempt, NextAttempt, NextAttemptId
    <3> QED BY <3>1 DEF BeginAttempt, End, files
  <2>2. pc' # "verify"
    BY <1>1 DEF FirstAttempt, NextAttempt, BeginAttempt, End
  <2> QED BY <1>1, <2>1, <2>2, NoAttemptAfterPass DEF PassedIsLatest, LatestIsVerified
<1>2. CASE VerifyLatest
  <2>1. UNCHANGED <<attempts, result>> /\ attempt' = Latest /\ pc' = "verify"
    BY <1>2 DEF VerifyLatest, files
  <2> QED BY <1>2, <2>1, SameReports, NoAttemptAfterPass DEF PassedIsLatest, LatestIsVerified
<1>3. CASE WriteInputManifest \/ Work \/ WriteReport
  <2>1. result = None \/ ~result.passed
    BY <1>3 DEF WriteInputManifest, Work, WriteReport, StayInv, PassedIsLatest
  <2> QED BY <1>3, <2>1 DEF WriteInputManifest, Work, WriteReport, PassedIsLatest,
          LatestIsVerified
<1>4. CASE Verify
  <2>1. UNCHANGED attempts /\ result'.attempt = attempt /\ pc' \in {"archive", "idle"}
    BY <1>4 DEF Verify, Verdict
  <2>2. attempt = Latest
    BY <1>4 DEF Verify, StayInv, LatestIsVerified
  <2> QED BY <2>1, <2>2, SameReports DEF PassedIsLatest, LatestIsVerified
<1>5. ASSUME Step, ~(FirstAttempt \/ NextAttempt \/ VerifyLatest \/ WriteInputManifest
                     \/ Work \/ WriteReport \/ Verify)
      PROVE  /\ UNCHANGED <<attempts, result>>
             /\ pc' \notin {"input", "work", "written", "verify"}
  BY <1>5 DEF Step, RewriteContract, RelockContract, TakeRoute, Register, GiveUp, End, Sync,
     Archive, EmitReport, RemoveTransient, files
<1>6. ASSUME Command \/ Kill
      PROVE  /\ UNCHANGED <<attempts, result>>
             /\ pc' \notin {"input", "work", "written", "verify"}
  BY <1>6 DEF Command, Overwrite, Resume, VerifyByHand, RegisterByHand, RefreshReport, ListApproved,
     Refuse, Start, Kill, files
<1>7. CASE UNCHANGED vars
  BY <1>7, SameReports DEF vars, StayInv, PassedIsLatest, LatestIsVerified
<1> QED BY <1>1, <1>2, <1>3, <1>4, <1>5, <1>6, <1>7, SameReports
        DEF Next, StayInv, PassedIsLatest, LatestIsVerified

LEMMA NotBuiltStep ==
    ASSUME StayInv, [Next]_vars, TypeInv PROVE NotBuiltYet'
<1> SUFFICES ASSUME ~touched', pc' \in {"limit", "relock"} PROVE entry' = None
  BY DEF NotBuiltYet
<1>1. CASE RewriteContract
  BY <1>1, TouchedStays DEF RewriteContract, StayInv, NotBuiltYet
<1>2. ASSUME Step, ~RewriteContract PROVE FALSE
  BY <1>2 DEF Step, RelockContract, TakeRoute, Register, FirstAttempt, VerifyLatest, GiveUp,
     NextAttempt, BeginAttempt, End, WriteInputManifest, Work, WriteReport, Sync, Verify, Archive,
     EmitReport, RemoveTransient
<1>3. ASSUME Command \/ Kill PROVE FALSE
  BY <1>3 DEF Command, Overwrite, Resume, VerifyByHand, RegisterByHand, RefreshReport, ListApproved,
     Refuse, Start, Kill
<1>4. CASE UNCHANGED vars
  BY <1>4 DEF vars, StayInv, NotBuiltYet
<1> QED BY <1>1, <1>2, <1>3, <1>4 DEF Next

(* What RegisteredStays says of files that do not change.                      *)
LEMMA StaysUnchanged ==
    ASSUME StayInv, entry # None, ~touched, UNCHANGED files, UNCHANGED entry,
           pc' \in {"idle", "route", "decide", "emit", "remove"},
           ~(pc' = "emit" /\ ending'.status = "fail_closed")
    PROVE  EntryStays'
<1>1. /\ RecordsMatch /\ entry.package = package /\ entry.result = result
      /\ entry.manifest = manifest
  BY DEF StayInv, EntryStays, RegisteredStays
<1>2. RecordsMatch' /\ UNCHANGED <<package, result, manifest>>
  BY <1>1 DEF files, RecordsMatch, Locked
<1> QED BY <1>1, <1>2 DEF EntryStays, RegisteredStays

LEMMA EntryStaysStep ==
    ASSUME TypeInv, SoundInv, StayInv, [Next]_vars PROVE EntryStays'
<1> SUFFICES ASSUME ~touched', entry' # None PROVE EntryStays'
  BY DEF EntryStays
<1> ~touched
  BY TouchedStays
<1> DEFINE Quiet == {"idle", "route", "decide", "emit", "remove"}
           Failing == pc = "emit" /\ ending.status = "fail_closed"
<1>1. CASE entry = None
  <2>1. GateOpen /\ entry' = NewEntry /\ UNCHANGED files
    BY <1>1, EntryWritten
  <2>2. pc' = "emit" /\ ending'.status = "registered"
    <3>1. CASE Register
      BY <1>1, <3>1 DEF Register, AddVerified, End
    <3>2. CASE RegisterByHand
      BY <1>1, <3>2 DEF RegisterByHand, AddVerified, Refuse
    <3>3. ASSUME Step \/ Command \/ Kill, ~Register, ~RegisterByHand PROVE UNCHANGED entry
      BY <3>3 DEF Step, RewriteContract, RelockContract, TakeRoute, FirstAttempt, VerifyLatest,
         GiveUp, NextAttempt, WriteInputManifest, Work, WriteReport, Sync, Verify, Archive,
         EmitReport, RemoveTransient, Command, Overwrite, Resume, VerifyByHand, RefreshReport,
         ListApproved, Refuse, Kill
    <3> QED BY <1>1, <3>1, <3>2, <3>3 DEF Next, vars
  <2>3. RecordsMatch' /\ UNCHANGED <<package, result, manifest>>
    BY <2>1 DEF files, GateOpen, RecordsMatch, Locked
  <2> QED BY <2>1, <2>2, <2>3 DEF NewEntry, EntryStays, RegisteredStays
<1>2. CASE entry # None
  <2>1. Admitted /\ Verified /\ Judged /\ pc \in Quiet /\ ~Failing
    BY <1>2, StillAdmitted DEF StayInv, EntryStays, RegisteredStays
  <2>2. UNCHANGED entry
    BY <1>2, EntryWritten
  <2>3. CASE RemoveTransient
    <3>1. UNCHANGED <<inputs, manifest, attempts, archive, result, scratch>> /\ pc' = "idle"
      BY <2>3 DEF RemoveTransient
    <3>2. package' = package
      <4>1. package = [content |-> package.content, litter |-> package.litter]
        BY DEF TypeInv, TypeOK, Packages
      <4>2. package' = [content |-> package.content, litter |-> package.litter /\ spare]
        BY <2>3, <4>1 DEF RemoveTransient
      <4>3. package'.litter = package.litter
        BY <2>3 DEF RemoveTransient
      <4> QED BY <4>1, <4>2, <4>3
    <3> QED BY <1>2, <2>2, <3>1, <3>2, StaysUnchanged DEF files
  <2>4. CASE Register
    BY <1>2, <2>1, <2>2, <2>4, StaysUnchanged DEF Register, End
  <2>5. CASE TakeRoute \/ EmitReport
    BY <1>2, <2>2, <2>5, StaysUnchanged DEF TakeRoute, EmitReport
  <2>6. ASSUME Step, ~RemoveTransient, ~Register, ~TakeRoute, ~EmitReport PROVE FALSE
    BY <2>1, <2>6 DEF Step, RewriteContract, RelockContract, FirstAttempt, VerifyLatest,
       GiveUp, NextAttempt, LatestFailed, WriteInputManifest, Work, WriteReport, Sync, Verify,
       Archive
  <2>7. CASE Command
    <3>1. ~Overwrite /\ (VerifyByHand => Refuse("verify"))
      BY DEF Overwrite, VerifyByHand
    <3>2. CASE RegisterByHand
      BY <1>2, <2>2, <3>2, StaysUnchanged DEF RegisterByHand, Refuse, Start
    <3>3. CASE Resume \/ RefreshReport \/ ListApproved \/ Refuse("verify")
      BY <1>2, <2>2, <3>3, StaysUnchanged DEF Resume, RefreshReport, ListApproved, Refuse, Start
    <3> QED BY <2>7, <3>1, <3>2, <3>3 DEF Command
  <2>8. CASE Kill
    BY <1>2, <2>2, <2>8, StaysUnchanged DEF Kill
  <2>9. CASE UNCHANGED vars
    BY <1>2, <2>1, <2>9, StaysUnchanged DEF vars, files
  <2> QED BY <2>3, <2>4, <2>5, <2>6, <2>7, <2>8, <2>9 DEF Next
<1> QED BY <1>1, <1>2

LEMMA StayStep == TypeInv /\ SoundInv /\ StayInv /\ [Next]_vars => StayInv'
BY PassedIsLatestStep, NotBuiltStep, EntryStaysStep DEF StayInv

(* Interrupted and resumed as often as one likes, a registered job keeps       *)
(* matching its entry and is never reported as failed, unless someone          *)
(* verified, overwrote or cleaned it by hand.                                  *)
THEOREM RegistrationIsKept == Spec => []RegisteredStays
<1>1. StayInv => RegisteredStays
  BY DEF StayInv, EntryStays, RegisteredStays
<1> QED BY <1>1, TypeInit, TypeStep, SoundInit, SoundStep, StayInit, StayStep, PTL DEF Spec

-----------------------------------------------------------------------------
(* Security verdicts *)

(* Where no command was killed half-way and none touched the workspace, the    *)
(* locked inputs match from when they are locked again, and what the manifest  *)
(* records matches except between the worker's writes and the next sync.       *)
RecordsAreKept ==
    ~touched /\ ~unsynced =>
        /\ pc # "relock" => Locked
        /\ pc \notin {"written", "sync"} =>
              /\ manifest.content \in {None, package.content}
              /\ \A n \in Attempts : manifest.archive[n] \in {None, archive[n]}
        /\ manifest.litter => package.litter
        /\ manifest.scratch \subseteq scratch
        /\ package.content = "empty" => manifest.content \in {None, "empty"}

LEMMA RecordsInit == Init => RecordsAreKept /\ SecurityVerdictsAreEarned
BY DEF Init, RecordsAreKept, SecurityVerdictsAreEarned, FreshManifest, Locked, NoArchive

LEMMA UnsyncedStays == ASSUME [Next]_vars PROVE unsynced => unsynced'
<1>1. ASSUME Step PROVE unsynced => unsynced'
  BY <1>1 DEF Step, RewriteContract, RelockContract, TakeRoute, Register, FirstAttempt, VerifyLatest,
     GiveUp, NextAttempt, WriteInputManifest, Work, WriteReport, Sync, Verify, Archive, EmitReport,
     RemoveTransient, history
<1>2. ASSUME Command \/ Kill PROVE unsynced => unsynced'
  BY <1>2 DEF Command, Overwrite, Resume, VerifyByHand, RegisterByHand, RefreshReport, ListApproved,
     Refuse, Kill, history
<1> QED BY <1>1, <1>2 DEF Next, vars

LEMMA RecordsStep ==
    ASSUME TypeInv, RecordsAreKept, [Next]_vars PROVE RecordsAreKept'
<1> SUFFICES ASSUME ~touched', ~unsynced' PROVE RecordsAreKept'
  BY DEF RecordsAreKept
<1> ~touched /\ ~unsynced
  BY TouchedStays, UnsyncedStays
<1> DEFINE Matching == /\ manifest.content \in {None, package.content}
                       /\ \A n \in Attempts : manifest.archive[n] \in {None, archive[n]}
           Growing == /\ manifest.litter => package.litter
                      /\ manifest.scratch \subseteq scratch
                      /\ package.content = "empty" => manifest.content \in {None, "empty"}
<1>1. /\ pc # "relock" => Locked
      /\ pc \notin {"written", "sync"} => Matching
      /\ Growing
  BY DEF RecordsAreKept
<1>2. ASSUME UNCHANGED <<inputs, manifest, package, archive, scratch>>,
             pc # "relock", pc \notin {"written", "sync"} \/ pc' \in {"written", "sync"}
      PROVE  RecordsAreKept'
  BY <1>1, <1>2 DEF RecordsAreKept, Locked
<1>3. CASE RewriteContract
  BY <1>1, <1>3 DEF RewriteContract, RecordsAreKept
<1>4. CASE RelockContract
  <2>1. manifest' = [inputs |-> inputs, content |-> manifest.content, litter |-> manifest.litter,
                     archive |-> manifest.archive, scratch |-> manifest.scratch]
    BY <1>4 DEF RelockContract, TypeInv, TypeOK, Manifests
  <2> QED BY <1>1, <1>4, <2>1 DEF RelockContract, RecordsAreKept, Locked
<1>5. CASE Work
  <2>1. Locked' /\ UNCHANGED <<manifest, archive>> /\ pc' = "written"
    BY <1>1, <1>5 DEF Work, Locked
  <2>2. CASE UNCHANGED <<package, scratch>>
    BY <1>1, <2>1, <2>2 DEF RecordsAreKept
  <2>3. CASE ~UNCHANGED <<package, scratch>>
    <3>1. PICK content \in Contents \ {"empty"}, litter \in {package.litter, TRUE} :
            package' = [content |-> content, litter |-> litter]
      BY <1>5, <2>3 DEF Work
    <3>2. scratch \subseteq scratch'
      BY <1>5, <2>3 DEF Work
    <3> QED BY <1>1, <2>1, <3>1, <3>2 DEF RecordsAreKept
  <2> QED BY <2>2, <2>3
<1>6. CASE Sync
  <2>1. UNCHANGED <<inputs, package, archive, scratch>> /\ manifest' = Synced /\ Locked
    BY <1>1, <1>6 DEF Sync
  <2>2. /\ manifest'.inputs = manifest.inputs
        /\ manifest'.content = IF package.content = "empty" THEN manifest.content
                               ELSE package.content
        /\ manifest'.litter = (manifest.litter \/ package.litter)
        /\ manifest'.archive = archive /\ manifest'.scratch = manifest.scratch \cup scratch
    BY <2>1, SyncedFields DEF TypeInv
  <2>3. Locked' /\ Matching' /\ Growing'
    BY <1>1, <2>1, <2>2 DEF Locked
  <2> QED BY <2>3 DEF RecordsAreKept
<1>7. CASE Archive
  BY <1>1, <1>7 DEF Archive, RecordsAreKept, Locked
<1>8. CASE WriteReport
  BY <1>2, <1>8 DEF WriteReport
<1>9. CASE RemoveTransient
  <2>1. scratch' = {} /\ scratch = {} /\ package'.litter = package.litter
        /\ UNCHANGED <<inputs, manifest, archive>>
    BY <1>9 DEF RemoveTransient
  <2>2. package'.content = package.content
    BY <1>9 DEF RemoveTransient, TypeInv, TypeOK, Packages
  <2> QED BY <1>1, <1>9, <2>1, <2>2 DEF RemoveTransient, RecordsAreKept, Locked
<1>10. ASSUME Step, ~(RewriteContract \/ RelockContract \/ Work \/ WriteReport \/ Sync
                      \/ Archive \/ RemoveTransient)
       PROVE  /\ UNCHANGED <<inputs, manifest, package, archive, scratch>>
              /\ pc \notin {"relock", "written", "sync"}
  BY <1>10 DEF Step, TakeRoute, Register, FirstAttempt, VerifyLatest, GiveUp, NextAttempt,
     BeginAttempt, End, WriteInputManifest, Verify, EmitReport, files
<1>11. CASE Command
  <2>1. /\ UNCHANGED <<inputs, manifest, package, archive, scratch>>
        /\ pc \notin {"relock", "written", "sync"}
    BY <1>11 DEF Command, Overwrite, Resume, VerifyByHand, RegisterByHand, RefreshReport,
       ListApproved, Refuse, Start, files
  <2> QED BY <1>2, <2>1
<1>12. CASE Kill
  <2>1. RecordsMatch /\ UNCHANGED <<inputs, manifest, package, archive, scratch>>
    BY <1>12 DEF Kill, files
  <2> QED BY <1>1, <2>1 DEF RecordsMatch, RecordsAreKept, Locked
<1>13. CASE UNCHANGED vars
  BY <1>1, <1>13 DEF vars, RecordsAreKept, Locked
<1> QED BY <1>2, <1>3, <1>4, <1>5, <1>6, <1>7, <1>8, <1>9, <1>10, <1>11, <1>12, <1>13 DEF Next

LEMMA SecurityStep ==
    ASSUME TypeInv, RecordsAreKept, SecurityVerdictsAreEarned, [Next]_vars
    PROVE  SecurityVerdictsAreEarned'
<1>1. CASE Verify
  <2>1. result'.security = ~(RecordsMatch /\ package.content \notin Unsafe)
        /\ result'.package = package /\ UNCHANGED <<touched, unsynced>>
    BY <1>1 DEF Verify, Verdict, history
  <2>2. ~touched /\ ~unsynced => RecordsMatch
    BY <1>1 DEF Verify, RecordsAreKept, RecordsMatch
  <2> QED BY <2>1, <2>2 DEF SecurityVerdictsAreEarned
<1>2. CASE UNCHANGED result
  BY <1>2, TouchedStays, UnsyncedStays DEF SecurityVerdictsAreEarned
<1>3. ASSUME Step, ~Verify PROVE UNCHANGED result
  BY <1>3 DEF Step, RewriteContract, RelockContract, TakeRoute, Register, FirstAttempt, VerifyLatest,
     GiveUp, NextAttempt, BeginAttempt, End, WriteInputManifest, Work, WriteReport, Sync, Archive,
     EmitReport, RemoveTransient, files
<1>4. ASSUME Command \/ Kill PROVE UNCHANGED result
  BY <1>4 DEF Command, Overwrite, Resume, VerifyByHand, RegisterByHand, RefreshReport, ListApproved,
     Refuse, Kill, files
<1> QED BY <1>1, <1>2, <1>3, <1>4 DEF Next, vars

(* A worker's package is called a security failure only when it is unsafe,     *)
(* unless a command was killed between a file and its record or the workspace  *)
(* was changed by hand.                                                        *)
THEOREM SecurityIsEarned == Spec => []SecurityVerdictsAreEarned
<1>1. TypeInv /\ RecordsAreKept /\ [Next]_vars => RecordsAreKept'
  BY RecordsStep
<1>2. TypeInv /\ RecordsAreKept /\ SecurityVerdictsAreEarned /\ [Next]_vars
        => SecurityVerdictsAreEarned'
  BY SecurityStep
<1> QED BY <1>1, <1>2, TypeInit, TypeStep, RecordsInit, PTL DEF Spec
-----------------------------------------------------------------------------
(* The registry the build uses *)

(* The job's entry as the contract of the registry describes it: one version,  *)
(* which nothing here rejects, quarantines or links.                           *)
Assets ==
    IF entry = None THEN {}
    ELSE {[key |-> "version", job |-> "job", package |-> entry.package,
           result |-> [package |-> entry.result.package,
                       status |-> IF entry.result.passed THEN "passed" ELSE "failed"],
           approval |-> "approved", quarantine |-> "none", linked |-> FALSE]}

(* What an entry may record here: a result that passed on its own package.     *)
PassedEvidence ==
    {[package |-> p, result |-> [package |-> p, status |-> "passed"]] : p \in Packages}

Contract == INSTANCE RegistryContract
            WITH Keys <- {"version"}, Jobs <- {"job"}, Evidence <- PassedEvidence,
                 assets <- Assets

(* Killed and resumed, by hand or by the loop, the build uses the registry as  *)
(* its contract expects of a caller: the version appears once and whole,       *)
(* backed by a result that passed on its own package, and stays as it is       *)
(* (LocalSkillRegistry.add_verified, as _run_build_loop and register_offline   *)
(* call it).                                                                   *)
THEOREM BuildKeepsContract == Spec => Contract!Spec
<1>1. Init => Contract!Init
  BY DEF Init, Contract!Init, Assets
<1>2. TypeInv /\ [Next]_vars => [Contract!Next]_Assets
  <2> SUFFICES ASSUME TypeInv, [Next]_vars PROVE Contract!Next \/ UNCHANGED Assets
    OBVIOUS
  <2>1. CASE UNCHANGED entry
    BY <2>1 DEF Assets
  <2>2. CASE entry = None /\ GateOpen /\ entry' = NewEntry
    <3>1. CASE NewEntry = None
      BY <2>2, <3>1 DEF Assets
    <3>2. CASE NewEntry # None
      <4>1. SUFFICES ASSUME NEW p, p = package PROVE Contract!Next
        OBVIOUS
      <4> DEFINE new == [key |-> "version", job |-> "job", package |-> p,
                         result |-> [package |-> p, status |-> "passed"],
                         approval |-> "approved", quarantine |-> "none", linked |-> FALSE]
      <4>2. p \in Packages
        BY <4>1 DEF TypeInv, TypeOK
      <4>3. /\ entry'.package = p /\ entry'.result.package = p
            /\ (IF entry'.result.passed THEN "passed" ELSE "failed") = "passed"
        BY <2>2, <4>1 DEF NewEntry, GateOpen
      <4>4. Assets = {} /\ Assets' = {new}
        BY <2>2, <3>2, <4>3 DEF Assets
      <4>5. \E evidence \in PassedEvidence, linked \in BOOLEAN :
               new = Contract!NewEntry("version", "job", evidence, linked)
        <5>1. [package |-> p, result |-> [package |-> p, status |-> "passed"]] \in PassedEvidence
          BY <4>2 DEF PassedEvidence
        <5> QED BY <5>1 DEF Contract!NewEntry
      <4>6. new.key = "version" /\ new.job = "job"
        OBVIOUS
      <4> HIDE DEF new
      <4>7. Contract!Register(new)
        BY <4>4, <4>5, <4>6 DEF Contract!Register
      <4>8. new \in Assets' \ Assets
        BY <4>4
      <4> QED BY <4>7, <4>8 DEF Contract!Next
    <3> QED BY <3>1, <3>2
  <2> QED BY <2>1, <2>2, EntryWritten
<1> QED BY <1>1, <1>2, TypeInit, TypeStep, PTL DEF Spec, Contract!Spec

-----------------------------------------------------------------------------
(* How much a command has left to do *)

(* The steps from a label of a build to its end when no attempt is made and    *)
(* the latest one is judged; and from a label of another command to its end.   *)
BuildStages == [label \in Labels |->
    CASE label = "limit" -> 9 [] label = "relock" -> 8 [] label = "route" -> 7
      [] label = "archive" -> 8 [] label = "sync" -> 7 [] label = "decide" -> 6
      [] label = "verify" -> 5 [] label = "input" -> 5 [] label = "work" -> 4
      [] label = "written" -> 3 [] label = "emit" -> 1 [] label = "remove" -> 0
      [] label = "idle" -> 0]

HandStages == [label \in Labels |->
    IF label = "verify" THEN 3
    ELSE IF label = "archive" THEN 2
    ELSE IF label \in {"sync", "emit", "remove"} THEN 1 ELSE 0]

(* A round of the loop either uses up an attempt or judges the latest one.     *)
Remaining ==
    IF pc = "idle" THEN 0
    ELSE IF command = "build"
    THEN 12 * (AttemptLimit - Latest) + (IF Judged THEN 0 ELSE 6) + BuildStages[pc]
    ELSE HandStages[pc]

(* The attempt a build makes is later than any that was reported, the one it   *)
(* verifies is the latest and not judged yet, and only a build gets to the     *)
(* other places of the loop.                                                   *)
RoundInv ==
    /\ pc \in {"input", "work", "written"} => attempt > Latest
    /\ pc = "verify" /\ command = "build" => attempt = Latest /\ Latest # 0 /\ ~Judged
    /\ pc \in {"limit", "relock", "route", "decide", "input", "work", "written"} =>
          command = "build"
    /\ pc = "remove" => command = "cleanup"

LEMMA RoundInit == Init => RoundInv
BY DEF Init, RoundInv

(* The directories that are reported, and the latest of them.                  *)
LEMMA LatestIs ==
    /\ \A n \in Reported : n <= Latest
    /\ Latest <= LatestDirectory
    /\ Latest \in Nat /\ LatestDirectory \in Nat /\ Latest <= AttemptLimit
<1>1. Reported \in SUBSET Attempts /\ Present \in SUBSET Attempts /\ Reported \subseteq Present
  BY DEF Reported, Present, Exits
<1>2. Attempts \subseteq Nat /\ AttemptLimit \in Nat
  BY BuildAssumption DEF Attempts
<1>3. Latest \in 0..AttemptLimit /\ LatestDirectory \in 0..AttemptLimit
  BY LatestType
<1>4. \A n \in Reported : n <= Latest
  <2> SUFFICES ASSUME NEW n \in Reported PROVE n <= Latest
    OBVIOUS
  <2>1. Latest = Max(Reported) /\ Max(Reported) >= n
    BY <1>1, MaxIsMember DEF Latest
  <2> QED BY <1>1, <1>2, <1>3, <2>1
<1>5. Latest <= LatestDirectory
  <2>1. CASE Reported = {}
    BY <1>2, <1>3, <2>1 DEF Latest
  <2>2. CASE Reported # {}
    <3>1. Latest \in Present
      BY <1>1, <2>2, MaxIsMember DEF Latest
    <3>2. LatestDirectory = Max(Present) /\ Max(Present) >= Latest
      BY <1>1, <3>1, MaxIsMember DEF LatestDirectory
    <3> QED BY <1>2, <1>3, <3>2
  <2> QED BY <2>1, <2>2
<1> QED BY <1>2, <1>3, <1>4, <1>5

(* Work on a directory after the latest one that is reported leaves the latest *)
(* as it is until it is reported itself.                                       *)
LEMMA LatestStays ==
    ASSUME TypeOK, NEW n \in Attempts, n > Latest, NEW d, d \notin Exits,
           attempts' = [attempts EXCEPT ![n] = d]
    PROVE  Latest' = Latest
<1>1. attempts \in [Attempts -> Directories] /\ Attempts \subseteq Nat
  BY BuildAssumption DEF TypeOK, Attempts
<1>2. n \notin Reported
  BY <1>1, LatestIs
<1>3. Reported' = Reported
  BY <1>1, <1>2 DEF Reported
<1> QED BY <1>3 DEF Latest

LEMMA LatestRises ==
    ASSUME TypeOK, NEW n \in Attempts, NEW d \in Exits, n > Latest,
           attempts' = [attempts EXCEPT ![n] = d]
    PROVE  Latest' \in 0..AttemptLimit /\ Latest' > Latest
<1>1. attempts \in [Attempts -> Directories] /\ Attempts \subseteq Nat /\ AttemptLimit \in Nat
  BY BuildAssumption DEF TypeOK, Attempts
<1>2. n \in Reported' /\ Reported' \in SUBSET Attempts
  BY <1>1 DEF Reported
<1>3. Max(Reported') \in Attempts /\ Max(Reported') >= n
  <2>1. \A S \in SUBSET Attempts : S # {} => Max(S) \in S /\ \A m \in S : Max(S) >= m
    BY MaxIsMember
  <2> QED BY <1>2, <2>1
<1>4. Latest' = Max(Reported')
  BY <1>2 DEF Latest
<1> QED BY <1>1, <1>3, <1>4, LatestIs DEF Attempts

(* Every step of a command takes it nearer to its end, and a kill ends it.     *)
RunsDown ==
    [][(Step => Remaining' < Remaining) /\ (Kill => Remaining' = 0)]_vars

RemainingBounded == Remaining \in 0..(12 * AttemptLimit + 15)

(* What an attempt that is begun changes.                                      *)
LEMMA Begins ==
    ASSUME TypeInv, FirstAttempt \/ NextAttempt
    PROVE  /\ pc = "decide" /\ UNCHANGED <<result, command>>
           /\ Latest' = Latest
           /\ \/ pc' \in {"emit", "idle"}
              \/ pc' = "input" /\ attempt' \in Nat /\ attempt' > Latest
<1>1. PICK n \in Nat : n > Latest /\ BeginAttempt(n)
  BY LatestIs DEF FirstAttempt, NextAttempt, NextAttemptId
<1>2. pc = "decide" /\ UNCHANGED command
  BY DEF FirstAttempt, NextAttempt
<1>3. CASE n <= AttemptLimit /\ attempts[n] \in {"absent", "made"}
  <2>1. n \in Attempts
    BY <1>1, <1>3, LatestIs, BuildAssumption DEF Attempts
  <2>2. /\ attempts' = [attempts EXCEPT ![n] = "made"] /\ attempt' = n /\ pc' = "input"
        /\ UNCHANGED result
    BY <1>1, <1>3, BuildAssumption DEF BeginAttempt
  <2>3. Latest' = Latest
    BY <1>1, <2>1, <2>2, LatestStays DEF TypeInv, Exits
  <2> QED BY <1>1, <1>2, <2>2, <2>3
<1>4. CASE ~(n <= AttemptLimit /\ attempts[n] \in {"absent", "made"})
  <2>1. UNCHANGED files /\ pc' \in {"emit", "idle"}
    BY <1>1, <1>4, BuildAssumption DEF BeginAttempt, End
  <2> QED BY <1>2, <2>1, SameReports DEF files
<1> QED BY <1>3, <1>4

LEMMA RoundStep == ASSUME TypeInv, RoundInv, [Next]_vars PROVE RoundInv'
<1>0. Latest \in Nat /\ AttemptLimit \in Nat
  BY LatestIs, BuildAssumption
<1>1. CASE FirstAttempt \/ NextAttempt
  BY <1>1, Begins DEF RoundInv
<1>2. CASE VerifyLatest
  <2>1. /\ attempt' = Latest /\ Latest' = Latest /\ Latest # 0 /\ ~Judged /\ pc' = "verify"
        /\ UNCHANGED <<result, command>>
    BY <1>2, SameReports DEF VerifyLatest, files
  <2>2. ~Judged'
    BY <2>1 DEF Judged
  <2> QED BY <2>1, <2>2 DEF RoundInv
<1>3. CASE WriteInputManifest
  <2>1. attempt \in Attempts /\ attempt > Latest /\ command = "build"
    BY <1>3 DEF WriteInputManifest, TypeInv, Attempting, RoundInv
  <2>2. /\ attempts' = [attempts EXCEPT ![attempt] = "open"] /\ pc' = "work"
        /\ UNCHANGED <<attempt, command>>
    BY <1>3 DEF WriteInputManifest, volatile
  <2>3. Latest' = Latest
    BY <2>1, <2>2, LatestStays DEF TypeInv, Exits
  <2> QED BY <2>1, <2>2, <2>3 DEF RoundInv
<1>4. CASE Work
  <2>1. Latest' = Latest /\ UNCHANGED <<attempt, command>> /\ pc = "work" /\ pc' = "written"
    BY <1>4, SameReports DEF Work, volatile
  <2> QED BY <2>1 DEF RoundInv
<1>5. ASSUME Step, ~(FirstAttempt \/ NextAttempt \/ VerifyLatest \/ WriteInputManifest \/ Work)
      PROVE  RoundInv'
  <2>1. pc' \notin {"input", "work", "written", "verify", "remove"} /\ UNCHANGED command
    BY <1>5 DEF Step, RewriteContract, RelockContract, TakeRoute, Register, GiveUp, End,
       WriteReport, Sync, Verify, Archive, EmitReport, RemoveTransient, volatile
  <2>2. pc' \in {"limit", "relock", "route", "decide"} => command = "build"
    BY <1>5 DEF Step, RewriteContract, RelockContract, TakeRoute, Register, GiveUp, End,
       WriteReport, Sync, Verify, Archive, EmitReport, RemoveTransient, RoundInv
  <2> QED BY <2>1, <2>2 DEF RoundInv
<1>6. CASE Command
  BY <1>6 DEF Command, Overwrite, Resume, VerifyByHand, RegisterByHand, RefreshReport,
     ListApproved, Refuse, Start, RoundInv
<1>7. CASE Kill
  BY <1>7 DEF Kill, RoundInv
<1>8. CASE UNCHANGED vars
  BY <1>8, SameReports DEF vars, RoundInv, Judged
<1> QED BY <1>1, <1>2, <1>3, <1>4, <1>5, <1>6, <1>7, <1>8 DEF Next

LEMMA StagesAre ==
    /\ BuildStages["limit"] = 9 /\ BuildStages["relock"] = 8 /\ BuildStages["route"] = 7
    /\ BuildStages["archive"] = 8 /\ BuildStages["sync"] = 7 /\ BuildStages["decide"] = 6
    /\ BuildStages["verify"] = 5 /\ BuildStages["input"] = 5 /\ BuildStages["work"] = 4
    /\ BuildStages["written"] = 3 /\ BuildStages["emit"] = 1 /\ BuildStages["remove"] = 0
    /\ BuildStages["idle"] = 0
    /\ HandStages["verify"] = 3 /\ HandStages["archive"] = 2 /\ HandStages["sync"] = 1
    /\ HandStages["emit"] = 1 /\ HandStages["remove"] = 1
    /\ \A label \in Labels : HandStages[label] \in 0..3
<1>1. \A label \in Labels : BuildStages[label] =
        CASE label = "limit" -> 9 [] label = "relock" -> 8 [] label = "route" -> 7
          [] label = "archive" -> 8 [] label = "sync" -> 7 [] label = "decide" -> 6
          [] label = "verify" -> 5 [] label = "input" -> 5 [] label = "work" -> 4
          [] label = "written" -> 3 [] label = "emit" -> 1 [] label = "remove" -> 0
          [] label = "idle" -> 0
  BY DEF BuildStages
<1>2. \A label \in Labels : HandStages[label] =
        IF label = "verify" THEN 3
        ELSE IF label = "archive" THEN 2
        ELSE IF label \in {"sync", "emit", "remove"} THEN 1 ELSE 0
  BY DEF HandStages
<1> QED BY <1>1, <1>2 DEF Labels

LEMMA RemainingIsBounded == TypeInv => RemainingBounded
<1> SUFFICES ASSUME TypeInv PROVE Remaining \in 0..(12 * AttemptLimit + 15)
  BY DEF RemainingBounded
<1>1. Latest \in 0..AttemptLimit /\ AttemptLimit \in Nat /\ pc \in Labels
  BY LatestType, BuildAssumption DEF TypeInv, TypeOK
<1>2. BuildStages[pc] \in 0..9 /\ HandStages[pc] \in 0..3
  BY <1>1, StagesAre DEF Labels
<1> QED BY <1>1, <1>2 DEF Remaining

(* What a round has left once it has got to a later place of the same command, *)
(* with the same latest attempt, judged as it was or judged by now.            *)
LEMMA RunDownMoves ==
    ASSUME TypeInv, command = "build", command' = "build", Latest' = Latest, pc # "idle",
           pc' \in Labels, Judged => Judged', BuildStages[pc'] < BuildStages[pc]
    PROVE  Remaining' < Remaining
<1>1. Latest \in 0..AttemptLimit /\ AttemptLimit \in Nat /\ pc \in Labels
  BY LatestType, BuildAssumption DEF TypeInv, TypeOK
<1>2. BuildStages[pc] \in 0..9 /\ BuildStages[pc'] \in 0..9
  BY <1>1, StagesAre DEF Labels
<1> DEFINE rest == 12 * (AttemptLimit - Latest)
<1>3. rest \in Nat
  BY <1>1
<1>4. Remaining = rest + (IF Judged THEN 0 ELSE 6) + BuildStages[pc]
  BY DEF Remaining
<1>5. Remaining' = IF pc' = "idle" THEN 0
                   ELSE rest + (IF Judged' THEN 0 ELSE 6) + BuildStages[pc']
  BY DEF Remaining
<1> HIDE DEF rest
<1> QED BY <1>2, <1>3, <1>4, <1>5

LEMMA RunDownEnds ==
    ASSUME TypeInv, RoundInv, pc # "idle", pc' = "idle" PROVE Remaining' < Remaining
<1>1. Latest \in 0..AttemptLimit /\ AttemptLimit \in Nat /\ pc \in Labels
  BY LatestType, BuildAssumption DEF TypeInv, TypeOK
<1>2. command = "build" => BuildStages[pc] \in 1..9
  BY <1>1, StagesAre DEF Labels, RoundInv
<1>3. command # "build" => HandStages[pc] \in 1..3
  BY <1>1, StagesAre DEF Labels, RoundInv
<1> QED BY <1>1, <1>2, <1>3 DEF Remaining

LEMMA StepRunsDown == ASSUME TypeInv, RoundInv, Step PROVE Remaining' < Remaining
<1>0. /\ Latest \in 0..AttemptLimit /\ AttemptLimit \in Nat
      /\ pc \in {"limit", "relock", "route", "decide", "input", "work", "written"}
            => command = "build"
  BY LatestType, BuildAssumption DEF RoundInv
<1>1. CASE RewriteContract \/ RelockContract
  <2>1. /\ Latest' = Latest /\ UNCHANGED <<command, attempts, result>>
        /\ (pc = "limit" /\ pc' = "relock") \/ (pc = "relock" /\ pc' = "route")
    BY <1>1, SameReports DEF RewriteContract, RelockContract, volatile
  <2>2. Judged' = Judged
    BY <2>1 DEF Judged
  <2> QED BY <1>0, <2>1, <2>2, RunDownMoves, StagesAre DEF Labels
<1>2. CASE TakeRoute \/ Register \/ GiveUp
  <2>1. /\ Latest' = Latest /\ UNCHANGED <<command, attempts, result>>
        /\ \/ pc = "route" /\ pc' \in {"decide", "idle"}
           \/ pc = "decide" /\ pc' = "emit"
    BY <1>2, SameReports DEF TakeRoute, Register, GiveUp, End, files, volatile
  <2>2. Judged' = Judged
    BY <2>1 DEF Judged
  <2> QED BY <1>0, <2>1, <2>2, RunDownMoves, RunDownEnds, StagesAre DEF Labels
<1>3. CASE FirstAttempt \/ NextAttempt
  <2>1. Judged' = Judged
    BY <1>3, Begins DEF Judged
  <2> QED BY <1>0, <1>3, <2>1, Begins, RunDownMoves, RunDownEnds, StagesAre DEF Labels
<1>4. CASE VerifyLatest
  <2>1. /\ Latest' = Latest /\ UNCHANGED <<command, attempts, result>>
        /\ pc = "decide" /\ pc' = "verify"
    BY <1>4, SameReports DEF VerifyLatest, files
  <2>2. Judged' = Judged
    BY <2>1 DEF Judged
  <2> QED BY <1>0, <2>1, <2>2, RunDownMoves, StagesAre DEF Labels
<1>5. CASE WriteInputManifest
  <2>1. attempt \in Attempts /\ attempt > Latest
    BY <1>5 DEF WriteInputManifest, TypeInv, Attempting, RoundInv
  <2>2. /\ attempts' = [attempts EXCEPT ![attempt] = "open"] /\ pc = "input" /\ pc' = "work"
        /\ UNCHANGED <<result, command>>
    BY <1>5 DEF WriteInputManifest, volatile
  <2>3. Latest' = Latest
    BY <2>1, <2>2, LatestStays DEF TypeInv, Exits
  <2>4. Judged' = Judged
    BY <2>2, <2>3 DEF Judged
  <2> QED BY <1>0, <2>2, <2>3, <2>4, RunDownMoves, StagesAre DEF Labels
<1>6. CASE Work
  <2>1. /\ Latest' = Latest /\ UNCHANGED <<command, attempts, result>>
        /\ pc = "work" /\ pc' = "written"
    BY <1>6, SameReports DEF Work, volatile
  <2>2. Judged' = Judged
    BY <2>1 DEF Judged
  <2> QED BY <1>0, <2>1, <2>2, RunDownMoves, StagesAre DEF Labels
<1>7. CASE WriteReport
  <2>1. attempt \in Attempts /\ attempt > Latest
    BY <1>7 DEF WriteReport, TypeInv, Attempting, RoundInv
  <2>2. PICK exit \in Exits : attempts' = [attempts EXCEPT ![attempt] = exit]
    BY <1>7 DEF WriteReport
  <2>3. Latest' \in 0..AttemptLimit /\ Latest' > Latest
    BY <2>1, <2>2, LatestRises DEF TypeInv
  <2>4. pc = "written" /\ pc' = "sync" /\ command = "build" /\ command' = "build"
    BY <1>0, <1>7 DEF WriteReport, volatile
  <2>5. Remaining = 12 * (AttemptLimit - Latest) + (IF Judged THEN 0 ELSE 6) + 3
    BY <2>4, StagesAre DEF Remaining
  <2>6. Remaining' = 12 * (AttemptLimit - Latest') + (IF Judged' THEN 0 ELSE 6) + 7
    BY <2>4, StagesAre DEF Remaining
  <2>7. ASSUME NEW l \in 0..AttemptLimit, NEW m \in 0..AttemptLimit, m > l,
               NEW x \in {0, 6}, NEW y \in {0, 6}
        PROVE  12 * (AttemptLimit - m) + y + 7 < 12 * (AttemptLimit - l) + x + 3
    BY <1>0, <2>7
  <2>8. (IF Judged THEN 0 ELSE 6) \in {0, 6} /\ (IF Judged' THEN 0 ELSE 6) \in {0, 6}
    OBVIOUS
  <2> QED BY <1>0, <2>3, <2>5, <2>6, <2>7, <2>8
<1>8. CASE Sync
  <2>1. /\ Latest' = Latest /\ UNCHANGED <<command, attempts, result>> /\ pc = "sync"
        /\ (command = "build" /\ pc' = "decide") \/ pc' = "idle"
    BY <1>8, SameReports DEF Sync, volatile, history
  <2>2. Judged' = Judged
    BY <2>1 DEF Judged
  <2> QED BY <1>0, <2>1, <2>2, RunDownMoves, RunDownEnds, StagesAre DEF Labels
<1>9. CASE Verify
  <2>1. /\ Latest' = Latest /\ UNCHANGED <<command, attempts, attempt>> /\ pc = "verify"
        /\ result' = Verdict(attempt)
        /\ (attempt # 0 /\ pc' = "archive") \/ (attempt = 0 /\ pc' = "idle")
    BY <1>9, SameReports DEF Verify, volatile
  <2>2. CASE command # "build"
    BY <2>1, <2>2, StagesAre DEF Remaining
  <2>3. CASE command = "build"
    <3>1. attempt = Latest /\ Latest # 0 /\ ~Judged
      BY <2>1, <2>3 DEF RoundInv
    <3>2. result'.attempt = Latest' /\ result' \in Results
      BY <2>1, <3>1, VerdictType DEF Verdict, TypeInv, TypeOK
    <3>3. Remaining = 12 * (AttemptLimit - Latest) + 6 + 5
      BY <2>1, <2>3, <3>1, StagesAre DEF Remaining
    <3>4. Judged'
      BY <3>2, NoneIsNoResult DEF Judged
    <3>5. Remaining' = 12 * (AttemptLimit - Latest) + 0 + 8
      BY <2>1, <2>3, <3>1, <3>4, StagesAre DEF Remaining
    <3> QED BY <1>0, <3>3, <3>5
  <2> QED BY <2>2, <2>3
<1>10. CASE Archive
  <2>1. /\ Latest' = Latest /\ UNCHANGED <<command, attempts, result>>
        /\ pc = "archive" /\ pc' = "sync"
    BY <1>10, SameReports DEF Archive, volatile
  <2>2. Judged' = Judged
    BY <2>1 DEF Judged
  <2>3. CASE command # "build"
    BY <2>1, <2>3, StagesAre DEF Remaining
  <2> QED BY <2>1, <2>2, <2>3, RunDownMoves, StagesAre DEF Labels
<1>11. CASE EmitReport \/ RemoveTransient
  BY <1>11, RunDownEnds DEF EmitReport, RemoveTransient
<1> QED BY <1>1, <1>2, <1>3, <1>4, <1>5, <1>6, <1>7, <1>8, <1>9, <1>10, <1>11 DEF Step

(* A command of its own accord makes at most 12 * AttemptLimit + 15 steps,     *)
(* whatever earlier commands left in the workspace: every step takes it nearer *)
(* to its end, since each round of the loop reports an attempt or judges the   *)
(* latest one (the while True of _run_build_loop has no other bound than this).*)
(* With the fairness of the specification this is why CommandsEnd holds.       *)
THEOREM CommandsRunDown == Spec => RunsDown /\ []RemainingBounded
<1> DEFINE Inv == TypeInv /\ RoundInv
<1>1. Inv /\ [Next]_vars => Inv'
  BY TypeStep, RoundStep
<1>2. Init => Inv
  BY TypeInit, RoundInit
<1>3. Inv /\ [Next]_vars =>
         [(Step => Remaining' < Remaining) /\ (Kill => Remaining' = 0)]_vars
  <2>1. Kill => Remaining' = 0
    BY DEF Kill, Remaining
  <2> QED BY <2>1, StepRunsDown
<1>4. Inv => RemainingBounded
  BY RemainingIsBounded
<1> QED BY <1>1, <1>2, <1>3, <1>4, PTL DEF Spec, RunsDown
=============================================================================
