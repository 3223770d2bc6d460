---------------------------- MODULE BuildAttempts ----------------------------
(* The offline build of one job: commands of the skillfoundry program that run *)
(* one after another on a job workspace, any of them killed at any point.  The *)
(* build loop keeps nothing in memory between its rounds: it finds out where   *)
(* it is from the attempt directories, the verification result and the         *)
(* registry, which earlier commands and killed builds also wrote.              *)
EXTENDS Naturals, FiniteSets, FiniteSetsExt

CONSTANTS
    Sound, Unsound, Unsafe,  \* package contents, by what the static checks say
    AttemptLimit,            \* attempt_limit of the build contract
    MaxCommands,             \* bound: commands started on the job
    MaxKills,                \* bound: commands killed half-way
    None                     \* no such file

ASSUME BuildAssumption ==
    /\ AttemptLimit \in Nat \ {0}
    /\ MaxCommands \in Nat \ {0} /\ MaxKills \in Nat
    /\ "empty" \notin Sound \cup Unsafe
    /\ Sound \cap (Unsound \cup Unsafe) = {}

Attempts == 1..AttemptLimit
Contents == {"empty"} \cup Sound \cup Unsound \cup Unsafe

(* A package is what its files say and whether transient files lie among them. *)
Packages == [content : Contents, litter : BOOLEAN]

(* An attempt directory: absent, made but empty, left with an input manifest,  *)
(* or holding an execution report with the exit status the adapter gave it.    *)
Exits == {"success", "failure", "timeout", "rejected"}
Directories == {"absent", "made", "open"} \cup Exits

(* The attempt a result speaks of is 0 where there was none to speak of.       *)
Results == [attempt : 0..AttemptLimit, package : Packages,
            security : BOOLEAN, passed : BOOLEAN]

ASSUME NoneIsNoResult == None \notin Results

(* The locked inputs: the request they were written for, and whether the build *)
(* contract already carries the limits asked for.                              *)
Inputs == [request : 1..MaxCommands, limited : BOOLEAN]

(* What artifact_manifest.json has recorded: the locked inputs, the package,   *)
(* the archived results and the transient files of the attempts.               *)
Manifests == [inputs : Inputs, content : Contents \cup {None}, litter : BOOLEAN,
              archive : [Attempts -> Results \cup {None}],
              scratch : SUBSET Attempts]

Entries == [package : Packages, result : Results,
            manifest : Manifests]

Statuses == {"registered", "fail_closed", "rejected", "reused",
             "human_review_required", "verified"}
Reasons == {"none", "registry_gate", "attempt_limit", "security"}
Reports == [status : Statuses, reason : Reasons]

Labels == {"idle", "limit", "relock", "route", "decide", "input", "work", "written", "sync",
           "verify", "archive", "emit", "remove"}
Outcomes == {"none", "reported", "verified", "cleaned", "killed", "stuck", "refused"}

VARIABLES
    inputs,    \* build_contract, skill_spec, verification_spec and worker_input
    manifest,  \* artifact_manifest.json
    attempts,  \* attempts/<n>/
    scratch,   \* attempts whose directory holds transient files
    archive,   \* attempts/<n>/verification_result.json
    package,   \* package/
    result,    \* verifier/verification_result.json
    entry,     \* the job's version in the registry
    report,    \* final_report.json
    pc, command, attempt, ending, spare, outcome,  \* of the command that runs
    touched,   \* history: a command other than build changed evidence of the entry
    unsynced,  \* history: a command was killed between a write and its record
    commands, kills

files == <<inputs, manifest, attempts, scratch, archive, package, result>>
volatile == <<command, attempt, ending, spare>>
history == <<touched, unsynced>>
vars == <<inputs, manifest, attempts, scratch, archive, package, result, entry, report,
          pc, command, attempt, ending, spare, outcome, touched, unsynced,
          commands, kills>>

NoArchive == [n \in Attempts |-> None]
NoResult == [status |-> "fail_closed", reason |-> "none"]

FreshManifest(request) ==
    [inputs |-> [request |-> request, limited |-> FALSE], content |-> None,
     litter |-> FALSE, archive |-> NoArchive, scratch |-> {}]

TypeOK ==
    /\ inputs \in Inputs /\ manifest \in Manifests
    /\ attempts \in [Attempts -> Directories] /\ scratch \in SUBSET Attempts
    /\ archive \in [Attempts -> Results \cup {None}]
    /\ package \in Packages /\ result \in Results \cup {None}
    /\ entry \in Entries \cup {None} /\ report \in Reports \cup {None}
    /\ pc \in Labels /\ command \in {"build", "verify", "registry", "report", "cleanup"}
    /\ attempt \in 0..AttemptLimit /\ ending \in Reports
    /\ spare \in BOOLEAN /\ outcome \in Outcomes
    /\ touched \in BOOLEAN /\ unsynced \in BOOLEAN
    /\ commands \in 1..MaxCommands /\ kills \in 0..MaxKills

(* The first build has initialised the workspace.                              *)
Init ==
    /\ inputs = [request |-> 1, limited |-> FALSE]
    /\ manifest = FreshManifest(1)
    /\ attempts = [n \in Attempts |-> "absent"]
    /\ scratch = {} /\ archive = NoArchive
    /\ package = [content |-> "empty", litter |-> FALSE]
    /\ result = None /\ entry = None /\ report = None
    /\ pc = "limit" /\ command = "build" /\ attempt = 0 /\ ending = NoResult
    /\ spare = FALSE /\ outcome = "none"
    /\ touched = FALSE /\ unsynced = FALSE
    /\ commands = 1 /\ kills = 0

-----------------------------------------------------------------------------
(* What the files say. *)

Locked == manifest.inputs = inputs

RecordsMatch ==
    /\ Locked
    /\ manifest.content \in {None, package.content}
    /\ manifest.litter => package.litter
    /\ \A n \in Attempts : manifest.archive[n] \in {None, archive[n]}
    /\ manifest.scratch \subseteq scratch

(* Records are added and replaced, never dropped.                              *)
Synced ==
    [manifest EXCEPT
        !.content = IF package.content = "empty" THEN @ ELSE package.content,
        !.litter = @ \/ package.litter,
        !.archive = archive,
        !.scratch = @ \cup scratch]

Reported == {n \in Attempts : attempts[n] \in Exits}
Latest == IF Reported = {} THEN 0 ELSE Max(Reported)

Present == {n \in Attempts : attempts[n] # "absent"}
LatestDirectory == IF Present = {} THEN 0 ELSE Max(Present)

NextAttemptId == LatestDirectory + 1

(* Mutant: only a result that passed counts.                                   *)
JudgedIfPassed == result # None /\ result.attempt = Latest /\ result.passed

Judged == result # None /\ result.attempt = Latest

(* Mutant: the static checks are advisory.                                     *)
VerdictWithoutChecks(n) ==
    LET safe == RecordsMatch /\ package.content \notin Unsafe
    IN  [attempt |-> n, package |-> package, security |-> ~safe,
         passed |-> safe /\ n \in Attempts /\ attempts[n] = "success"]

(* Verifier.verify of attempt n.                                               *)
Verdict(n) ==
    LET safe == RecordsMatch /\ package.content \notin Unsafe
    IN  [attempt |-> n, package |-> package, security |-> ~safe,
         passed |-> /\ safe /\ package.content \in Sound
                    /\ n \in Attempts /\ attempts[n] = "success"]

-----------------------------------------------------------------------------
(* Registration. *)

GateOpen ==
    /\ result # None /\ result.passed
    /\ result.package = package
    /\ RecordsMatch
    /\ attempts[result.attempt] = "success"

NewEntry == [package |-> package, result |-> result,
             manifest |-> manifest]

(* Mutant: a version that is registered is always refused.                     *)
AdmittedOnce == GateOpen /\ entry = None

(* The duplicate policy is idempotent: the same asset again is no error.       *)
Admitted ==
    /\ GateOpen
    /\ entry # None => /\ entry.package = package /\ entry.result = result
                       /\ entry.manifest = manifest

(* _add_entry leaves an entry that is there alone.                             *)
AddVerified ==
    entry' = IF Admitted /\ entry = None THEN NewEntry ELSE entry

-----------------------------------------------------------------------------
(* Commands start. *)

Start(cmd) ==
    /\ pc = "idle" /\ commands < MaxCommands
    /\ commands' = commands + 1
    /\ command' = cmd

(* build --overwrite for a new request: the inputs and the manifest are        *)
(* written anew, everything else in the workspace stays.                       *)
Overwrite ==
    /\ Start("build")
    /\ inputs' = [request |-> commands + 1, limited |-> FALSE]
    /\ manifest' = FreshManifest(commands + 1)
    /\ pc' = "limit" /\ outcome' = "none" /\ touched' = TRUE
    /\ UNCHANGED <<attempts, scratch, archive, package, result, entry, report,
                   attempt, ending, spare, unsynced, kills>>

RewriteContract ==
    /\ pc = "limit"
    /\ inputs' = [inputs EXCEPT !.limited = TRUE]
    /\ pc' = "relock"
    /\ UNCHANGED <<manifest, attempts, scratch, archive, package, result, entry, report,
                   outcome, commands, kills>> /\ UNCHANGED <<volatile, history>>

RelockContract ==
    /\ pc = "relock"
    /\ manifest' = [manifest EXCEPT !.inputs = inputs]
    /\ pc' = "route"
    /\ UNCHANGED <<inputs, attempts, scratch, archive, package, result, entry, report,
                   outcome, commands, kills>> /\ UNCHANGED <<volatile, history>>

(* A requirement that is unsafe, unclear or asks for reuse is not built.       *)
TakeRoute ==
    /\ pc = "route"
    /\ \/ pc' = "decide" /\ UNCHANGED <<report, outcome>>
       \/ /\ \E status \in {"rejected", "human_review_required", "reused"} :
                report' = [status |-> status, reason |-> "none"]
          /\ pc' = "idle" /\ outcome' = "reported"
    /\ UNCHANGED <<files, entry, commands, kills>> /\ UNCHANGED <<volatile, history>>

(* A workspace whose locked inputs do not match is not loaded.                 *)
Refuse(cmd) ==
    /\ Start(cmd) /\ ~Locked
    /\ outcome' = "refused"
    /\ UNCHANGED <<files, entry, report, pc, attempt, ending, spare, kills>>
    /\ UNCHANGED history

Resume ==
    \/ /\ Start("build") /\ Locked
       /\ pc' = "route" /\ outcome' = "none"
       /\ UNCHANGED <<files, entry, report, attempt, ending, spare, kills>>
       /\ UNCHANGED history
    \/ Refuse("build")

(* verify [--attempt-id n]: record what is there, then verify that attempt.    *)
VerifyByHand ==
    \/ /\ Start("verify") /\ Locked
       /\ attempt' \in {LatestDirectory} \cup Present
       /\ manifest' = Synced
       /\ pc' = "verify" /\ outcome' = "none"
       /\ touched' = TRUE
       /\ UNCHANGED <<inputs, attempts, scratch, archive, package, result, entry, report,
                      ending, spare, unsynced, kills>>
    \/ Refuse("verify")

(* registry add: registration and report in one command.                       *)
RegisterByHand ==
    \/ /\ Start("registry") /\ Locked
       /\ AddVerified
       /\ IF Admitted
          THEN /\ ending' = [status |-> "registered", reason |-> "none"]
               /\ pc' = "emit" /\ outcome' = "none"
          ELSE UNCHANGED <<ending, pc>> /\ outcome' = "refused"
       /\ UNCHANGED <<files, report, attempt, spare, kills>> /\ UNCHANGED history
    \/ Refuse("registry")

(* report --refresh keeps a terminal status and infers one otherwise.          *)
RefreshReport ==
    \/ /\ Start("report") /\ Locked
       /\ report' = IF report # None /\ report.status # "verified" THEN report
                    ELSE [status |-> IF result # None /\ result.passed
                                     THEN "verified" ELSE "fail_closed",
                          reason |-> "none"]
       /\ outcome' = "reported"
       /\ UNCHANGED <<files, entry, pc, attempt, ending, spare, kills>>
       /\ UNCHANGED history
    \/ Refuse("report")

(* Mutant: the entries are kept in place of what they spare.                   *)
ListEntry ==
    /\ Start("cleanup")
    /\ spare' = entry
    /\ pc' = "remove" /\ outcome' = "none"
    /\ UNCHANGED <<files, entry, report, attempt, ending, kills>> /\ UNCHANGED history

(* ops cleanup --apply lists the approved packages, whose files are spared,    *)
(* and then removes the transient files it finds.                              *)
ListApproved ==
    /\ Start("cleanup")
    /\ spare' = (entry # None)
    /\ pc' = "remove" /\ outcome' = "none"
    /\ UNCHANGED <<files, entry, report, attempt, ending, kills>> /\ UNCHANGED history

RemoveTransient ==
    /\ pc = "remove"
    /\ package' = [package EXCEPT !.litter = @ /\ spare]
    /\ scratch' = {}
    /\ touched' = (touched \/ scratch # {} \/ package'.litter # package.litter)
    /\ pc' = "idle" /\ outcome' = "cleaned"
    /\ UNCHANGED <<inputs, manifest, attempts, archive, result, entry, report,
                   unsynced, commands, kills>> /\ UNCHANGED volatile

-----------------------------------------------------------------------------
(* A round of the build loop. *)

End(status, reason) ==
    /\ ending' = [status |-> status, reason |-> reason]
    /\ pc' = "emit"
    /\ UNCHANGED <<files, attempt, outcome>>

Verified == result # None /\ result.passed /\ result.attempt = Latest

Register ==
    /\ pc = "decide" /\ Verified
    /\ AddVerified
    /\ IF Admitted THEN End("registered", "none") ELSE End("fail_closed", "registry_gate")
    /\ UNCHANGED <<report, command, spare, commands, kills>> /\ UNCHANGED history

(* WorkerAdapter.invoke begins: the limit, the directory, the input manifest.  *)
BeginAttempt(n) ==
    \/ n > AttemptLimit /\ End("fail_closed", "attempt_limit")
    \/ /\ n <= AttemptLimit
       /\ attempts[n] \in {"absent", "made"}
       /\ attempts' = [attempts EXCEPT ![n] = "made"]
       /\ attempt' = n
       /\ pc' = "input"
       /\ UNCHANGED <<inputs, manifest, scratch, archive, package, result, ending, outcome>>
    \/ /\ n <= AttemptLimit
       /\ attempts[n] \notin {"absent", "made"}
       /\ pc' = "idle" /\ outcome' = "stuck"
       /\ UNCHANGED <<files, attempt, ending>>

FirstAttempt ==
    /\ pc = "decide" /\ ~Verified /\ Latest = 0
    /\ BeginAttempt(1)
    /\ UNCHANGED <<entry, report, command, spare, commands, kills>> /\ UNCHANGED history

VerifyLatest ==
    /\ pc = "decide" /\ Latest # 0
    /\ attempts[Latest] = "success" /\ ~Judged
    /\ attempt' = Latest
    /\ pc' = "verify"
    /\ UNCHANGED <<files, entry, report, command, ending, spare, outcome, commands, kills>>
    /\ UNCHANGED history

(* The latest attempt failed, or succeeded and its package did not.            *)
LatestFailed ==
    /\ Latest # 0 /\ ~Verified
    /\ attempts[Latest] = "success" => Judged

Unsafely == IF attempts[Latest] = "success" THEN result.security
            ELSE attempts[Latest] = "rejected"

GiveUp ==
    /\ pc = "decide" /\ LatestFailed
    /\ \/ Unsafely /\ End("fail_closed", "security")
       \/ ~Unsafely /\ Latest >= AttemptLimit /\ End("fail_closed", "attempt_limit")
    /\ UNCHANGED <<entry, report, command, spare, commands, kills>> /\ UNCHANGED history

NextAttempt ==
    /\ pc = "decide" /\ LatestFailed /\ ~Unsafely /\ Latest < AttemptLimit
    /\ BeginAttempt(NextAttemptId)
    /\ UNCHANGED <<entry, report, command, spare, commands, kills>> /\ UNCHANGED history

WriteInputManifest ==
    /\ pc = "input"
    /\ attempts' = [attempts EXCEPT ![attempt] = "open"]
    /\ pc' = "work"
    /\ UNCHANGED <<inputs, manifest, scratch, archive, package, result, entry, report,
                   outcome, commands, kills>> /\ UNCHANGED <<volatile, history>>

(* The worker may write in package/ and in its attempt's directory.            *)
Work ==
    /\ pc = "work"
    /\ \/ UNCHANGED <<package, scratch>>
       \/ /\ \E content \in Contents \ {"empty"}, litter \in {package.litter, TRUE} :
                package' = [content |-> content, litter |-> litter]
          /\ scratch' \in {scratch, scratch \cup {attempt}}
    /\ pc' = "written"
    /\ UNCHANGED <<inputs, manifest, attempts, archive, result, entry, report,
                   outcome, touched, unsynced, commands, kills>> /\ UNCHANGED volatile

(* Mutant: what the attempt wrote is not recorded.                             *)
WriteReportOnly ==
    /\ pc = "written"
    /\ \E exit \in Exits : attempts' = [attempts EXCEPT ![attempt] = exit]
    /\ pc' = "decide"
    /\ UNCHANGED <<inputs, manifest, scratch, archive, package, result, entry, report,
                   outcome, commands, kills>> /\ UNCHANGED <<volatile, history>>

(* The adapter's classification of the run, whatever the worker wrote.         *)
WriteReport ==
    /\ pc = "written"
    /\ \E exit \in Exits : attempts' = [attempts EXCEPT ![attempt] = exit]
    /\ pc' = "sync"
    /\ UNCHANGED <<inputs, manifest, scratch, archive, package, result, entry, report,
                   outcome, commands, kills>> /\ UNCHANGED <<volatile, history>>

Sync ==
    /\ pc = "sync"
    /\ manifest' = Synced
    /\ IF command = "build" THEN pc' = "decide" /\ UNCHANGED outcome
                            ELSE pc' = "idle" /\ outcome' = "verified"
    /\ UNCHANGED <<inputs, attempts, scratch, archive, package, result, entry, report,
                   commands, kills>> /\ UNCHANGED <<volatile, history>>

Verify ==
    /\ pc = "verify"
    /\ result' = Verdict(attempt)
    /\ IF attempt # 0 THEN pc' = "archive" /\ UNCHANGED outcome
                      ELSE pc' = "idle" /\ outcome' = "verified"
    /\ UNCHANGED <<inputs, manifest, attempts, scratch, archive, package, entry, report,
                   commands, kills>> /\ UNCHANGED <<volatile, history>>

Archive ==
    /\ pc = "archive"
    /\ archive' = [archive EXCEPT ![attempt] = result]
    /\ pc' = "sync"
    /\ UNCHANGED <<inputs, manifest, attempts, scratch, package, result, entry, report,
                   outcome, commands, kills>> /\ UNCHANGED <<volatile, history>>

EmitReport ==
    /\ pc = "emit"
    /\ report' = ending
    /\ pc' = "idle" /\ outcome' = "reported"
    /\ UNCHANGED <<files, entry, commands, kills>> /\ UNCHANGED <<volatile, history>>

-----------------------------------------------------------------------------
Kill ==
    /\ pc # "idle" /\ kills < MaxKills
    /\ kills' = kills + 1
    /\ unsynced' = (unsynced \/ ~RecordsMatch)
    /\ pc' = "idle" /\ outcome' = "killed"
    /\ UNCHANGED <<files, entry, report, touched, commands>> /\ UNCHANGED volatile

Step ==
    \/ RewriteContract \/ RelockContract \/ TakeRoute
    \/ Register \/ FirstAttempt \/ VerifyLatest \/ GiveUp \/ NextAttempt
    \/ WriteInputManifest \/ Work \/ WriteReport \/ Sync \/ Verify \/ Archive
    \/ EmitReport \/ RemoveTransient

Command ==
    \/ Overwrite \/ Resume \/ VerifyByHand \/ RegisterByHand \/ RefreshReport
    \/ ListApproved

Next == Step \/ Command \/ Kill

(* A command that runs is not suspended; nobody has to start or kill one.      *)
Spec == Init /\ [][Next]_vars /\ WF_vars(Step)

-----------------------------------------------------------------------------
(* Properties *)

(* What the registry holds of a job passed the checks, and the attempt its     *)
(* provenance names ended in success, whatever was killed and resumed.         *)
OnlySoundRegistered ==
    entry # None => /\ entry.package.content \in Sound
                    /\ attempts[entry.result.attempt] = "success"

(* A worker's package is called a security failure only when it is unsafe,     *)
(* when a command left a file and its record apart, or when files a record     *)
(* names were removed.                                                         *)
SecurityVerdictsAreEarned ==
    result # None /\ result.security =>
        result.package.content \in Unsafe \/ unsynced \/ touched

(* Interrupted and resumed as often as one likes, a job in the registry is not *)
(* reported as failed and its entry keeps matching the workspace, unless       *)
(* someone verified, overwrote or cleaned it by hand.                          *)
RegisteredStays ==
    entry # None /\ ~touched =>
        /\ RecordsMatch
        /\ entry.package = package /\ entry.result = result /\ entry.manifest = manifest
        /\ ~(pc = "emit" /\ ending.status = "fail_closed")

(* A command that is not killed ends.                                          *)
CommandsEnd == pc # "idle" ~> pc = "idle"
=============================================================================
