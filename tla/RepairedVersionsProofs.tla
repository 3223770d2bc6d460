----------------------- MODULE RepairedVersionsProofs -----------------------
(* Theorems about RepairedVersions, and through it about AcceptanceCoverage   *)
(* and QualityLab, for every set of packages, of acceptance criteria and of   *)
(* callers, and whatever may happen how often.                                *)
EXTENDS RepairedVersions, FiniteSetTheorems, WellFoundedInduction, TLAPS

-----------------------------------------------------------------------------
(* Types *)

LEMMA SpendType ==
    ASSUME left \in [Work -> Nat], NEW what \in Work, Spend(what)
    PROVE  left' \in [Work -> Nat]
BY DEF Spend

LEMMA InitType == Init => TypeOK
<1> SUFFICES ASSUME Init PROVE TypeOK
  OBVIOUS
<1>1. QualityTypeOK
  BY QualityAssumption DEF Init, QualityInit, QualityTypeOK
<1>2. AcceptanceTypeOK
  BY DEF Init, AcceptanceInit, AcceptanceTypeOK
<1>3. store \in [Versions -> Entries \cup {None}]
  BY VersionsAssumption DEF Init, VersionsInit, Entries
<1> QED BY <1>1, <1>2, <1>3 DEF Init, VersionsInit, TypeOK

(* The files of the QA lab and of the coverage evaluation.                    *)
LEMMA VerdictType ==
    ASSUME NEW p \in Packages PROVE VerdictOn(p) \in Results
<1>1. (Named \subseteq p.checks /\ p.whole) \in BOOLEAN
  OBVIOUS
<1>2. Named \cap p.checks \in SUBSET Names
  BY QualityAssumption
<1> QED BY <1>1, <1>2 DEF VerdictOn, Results

LEMMA QualityType ==
    ASSUME QualityTypeOK, Rewrite \/ QualityStep PROVE QualityTypeOK'
<1> USE DEF QualityTypeOK
<1>1. CASE Rewrite
  <2>1. lab' \in Labs \cup {None}
    BY <1>1 DEF Rewrite, Labs
  <2> QED BY <1>1, <2>1, SpendType DEF Rewrite, Work
<1>2. CASE Verify
  BY <1>2, SpendType, VerdictType DEF Verify, Work
<1>3. CASE BeginQA
  BY <1>3, SpendType DEF BeginQA, Work, Labs
<1>4. CASE ReadVerdict
  BY <1>4 DEF ReadVerdict, At, Labs, HardChecks
<1>5. CASE ReadText
  <2>1. TextFailures(package) \subseteq HardChecks
    BY DEF TextFailures
  <2> QED BY <1>5, <2>1 DEF ReadText, At, Labs
<1>6. CASE SmokeScripts
  BY <1>6 DEF SmokeScripts, At, Labs, HardChecks
<1>7. CASE WriteReport
  <2>1. PICK signal \in Judges :
          report' = [package |-> lab.package, result |-> lab.result,
                     failed |-> lab.failed, passed |-> lab.failed = {},
                     signal |-> signal, calm |-> lab.calm]
    BY <1>7 DEF WriteReport
  <2>2. (lab.failed = {}) \in BOOLEAN /\ signal \in {"none", "approves", "rejects"}
    BY QualityAssumption
  <2>3. report' \in Reports
    BY <1>7, <2>1, <2>2 DEF WriteReport, At, Labs, Reports
  <2> QED BY <1>7, <2>3 DEF WriteReport
<1>8. CASE KillLab
  BY <1>8 DEF KillLab
<1> QED BY <1>1, <1>2, <1>3, <1>4, <1>5, <1>6, <1>7, <1>8 DEF QualityStep

LEMMA AcceptanceType ==
    ASSUME QualityTypeOK, AcceptanceTypeOK, AcceptanceStep, UNCHANGED qualityVars
    PROVE  QualityTypeOK' /\ AcceptanceTypeOK'
<1> USE DEF AcceptanceTypeOK
<1>1. criteria \subseteq Criterion
  BY AcceptanceAssumption
<1>2. CASE ReviseCriteria
  BY <1>2, SpendType DEF ReviseCriteria, Work, QualityTypeOK, qualityVars
<1>3. CASE Review
  <2>1. PICK ids \in SUBSET {c.id : c \in {d \in criteria : RequestsManual(d)}}, yes \in BOOLEAN :
          /\ record' = [approved |-> yes, covers |-> ids, criteria |-> criteria]
          /\ approvals' = IF yes
                          THEN approvals \cup {<<c, criteria>> : c \in {d \in criteria : d.id \in ids}}
                          ELSE approvals
    BY <1>3 DEF Review
  <2>2. ids \subseteq Names
    BY <1>1 DEF Criterion
  <2>3. record' \in Records
    BY <2>1, <2>2 DEF Records
  <2>4. approvals' \subseteq Criterion \X CriteriaSets
    BY <1>1, <2>1
  <2> QED BY <1>3, <2>3, <2>4, SpendType DEF Review, Work, QualityTypeOK, qualityVars
<1>4. CASE PlanCoverage
  BY <1>4, SpendType DEF PlanCoverage, Work, QualityTypeOK, qualityVars, Evaluations
<1>5. CASE EvaluateCoverage
  <2> DEFINE unmet == {c.id : c \in {d \in Musts(ev.criteria) : ~Met(d, Seen(ev.criteria), package)}}
  <2>1. ev.criteria \in CriteriaSets
    BY <1>5 DEF EvaluateCoverage, Evaluations
  <2>2. unmet \subseteq Names /\ (unmet = {}) \in BOOLEAN
    BY <2>1, AcceptanceAssumption DEF Musts, Criterion
  <2>3. coverage' = [criteria |-> ev.criteria, result |-> verifier,
                     report |-> report, record |-> record, package |-> package,
                     unmet |-> unmet, passed |-> unmet = {}]
    BY <1>5 DEF EvaluateCoverage
  <2> HIDE DEF unmet
  <2>4. coverage' \in Coverages
    BY <2>1, <2>2, <2>3 DEF Coverages, QualityTypeOK
  <2> QED BY <1>5, <2>4 DEF EvaluateCoverage, QualityTypeOK, qualityVars
<1>6. CASE KillEvaluation
  BY <1>6 DEF KillEvaluation, QualityTypeOK, qualityVars
<1> QED BY <1>2, <1>3, <1>4, <1>5, <1>6 DEF AcceptanceStep

(* A call has read what it needs by the place it is at.                       *)
CallReady(k) ==
    /\ k.at \in {"qa", "add", "load", "augment", "report"} => k.result \in Results
    /\ k.at \in {"add", "load", "augment", "report"} => k.report \in Reports
    /\ k.at \in {"load", "augment", "report"} =>
          k.entry \in Entries /\ k.entry.version = k.version
    /\ k.at \in {"augment", "report"} =>
          k.entry.link = [feedback |-> k.feedback, source |-> k.source.version,
                          result |-> k.result, report |-> k.report]

CallsReady == \A c \in Callers : call[c] # None => CallReady(call[c])

TypeInv == TypeOK /\ CallsReady

(* One call changes; the others stay.                                         *)
LEMMA CallChanges ==
    ASSUME TypeInv, NEW c \in Callers, NEW k \in Calls \cup {None},
           k # None => CallReady(k), call' = [call EXCEPT ![c] = k]
    PROVE  call' \in [Callers -> Calls \cup {None}] /\ CallsReady'
BY DEF TypeInv, TypeOK, CallsReady, CallReady

LEMMA NewCallType ==
    ASSUME TypeInv, NEW c \in Callers, NEW f \in Feedbacks, NEW source \in OnFile,
           NEW version \in Versions, NEW planned \in BOOLEAN, NEW held \in Plans \cup {None},
           NEW at \in {"record", "preflight"},
           NewCall(c, at, f, source, version, planned, held)
    PROVE  call' \in [Callers -> Calls \cup {None}] /\ CallsReady'
<1> DEFINE k == [at |-> at, feedback |-> f, source |-> source, version |-> version,
                 planned |-> planned, plan |-> held, result |-> None, report |-> None,
                 entry |-> None, calm |-> TRUE, loaded |-> NotLoaded]
<1>1. source \in Entries
  BY DEF OnFile, Registered, TypeInv, TypeOK
<1>2. NotLoaded \in [Versions -> Entries \cup {None}]
  BY DEF NotLoaded
<1>3. k \in Calls
  BY <1>1, <1>2 DEF Calls
<1>4. CallReady(k)
  BY DEF CallReady
<1>5. call' = [call EXCEPT ![c] = k]
  BY DEF NewCall
<1> HIDE DEF k
<1> QED BY <1>3, <1>4, <1>5, CallChanges

LEMMA AskedType ==
    ASSUME TypeInv, NEW source \in OnFile PROVE Asked(source) \subseteq Versions
<1>1. source \in Entries
  BY DEF OnFile, Registered, TypeInv, TypeOK
<1> QED BY <1>1, VersionsAssumption DEF Asked, Entries

LEMMA PlanForType ==
    ASSUME NEW f \in Feedbacks, NEW source \in Entries, NEW version \in Versions
    PROVE  PlanFor(f, source, version) \in Plans
BY DEF PlanFor, Plans, Entries

(* A call that moves on keeps what it has read.                               *)
LEMMA BusyCall ==
    ASSUME TypeInv, NEW c \in Callers, NEW at, Busy(c, at)
    PROVE  call[c] \in Calls /\ call[c].at = at /\ CallReady(call[c])
BY DEF TypeInv, TypeOK, CallsReady, Busy

LEMMA GoType ==
    ASSUME TypeInv, NEW c \in Callers, NEW from, Busy(c, from), NEW at,
           <<from, at>> \in {<<"record", "plan">>, <<"preflight", "verifier">>}, Go(c, at)
    PROVE  call' \in [Callers -> Calls \cup {None}] /\ CallsReady'
<1> DEFINE k == [call[c] EXCEPT !.at = at]
<1>1. call[c] \in Calls /\ call[c].at = from /\ CallReady(call[c])
  BY BusyCall
<1>2. k \in Calls /\ CallReady(k)
  BY <1>1 DEF Calls, CallReady
<1>3. call' = [call EXCEPT ![c] = k]
  BY <1>1 DEF Go, TypeInv, TypeOK
<1> HIDE DEF k
<1> QED BY <1>2, <1>3, CallChanges

LEMMA RaiseType ==
    ASSUME TypeInv, NEW c \in Callers, Raise(c)
    PROVE  call' \in [Callers -> Calls \cup {None}] /\ CallsReady'
BY CallChanges DEF Raise

LEMMA ManageType ==
    ASSUME TypeInv, NEW c \in Callers, Manage(c), UNCHANGED <<qualityVars, acceptanceVars>>
    PROVE  TypeInv'
<1> DEFINE CallOK == call' \in [Callers -> Calls \cup {None}] /\ CallsReady'
           FilesOK == /\ store' \in [Versions -> Entries \cup {None}] /\ lost' \subseteq Versions
                      /\ feedback' \in Feedbacks \cup {None} /\ plan' \in Plans \cup {None}
                      /\ change' \in Changes \cup {None} /\ left' \in [Work -> Nat]
<1> SUFFICES CallOK /\ FilesOK
  BY DEF TypeInv, TypeOK, QualityTypeOK, AcceptanceTypeOK, qualityVars, acceptanceVars
<1>0. /\ store \in [Versions -> Entries \cup {None}] /\ lost \subseteq Versions
      /\ feedback \in Feedbacks \cup {None} /\ plan \in Plans \cup {None}
      /\ change \in Changes \cup {None} /\ left \in [Work -> Nat]
      /\ verifier \in Results \cup {None} /\ report \in Reports \cup {None}
      /\ package \in Packages
      /\ call \in [Callers -> Calls \cup {None}]
  BY DEF TypeInv, TypeOK, QualityTypeOK
<1>1. CASE PlanRepair(c)
  <2>1. FilesOK
    BY <1>0, <1>1, SpendType DEF PlanRepair, Work
  <2>2. PICK f \in Feedbacks, source \in OnFile : \E version \in Asked(source) :
          NewCall(c, "record", f, source, version, TRUE, None)
    BY <1>1 DEF PlanRepair
  <2> QED BY <2>1, <2>2, AskedType, NewCallType
<1>2. CASE WriteFeedback(c)
  BY <1>0, <1>2, BusyCall, GoType DEF WriteFeedback, Calls
<1>3. CASE WritePlan(c)
  <2> DEFINE k == call[c]
             made == PlanFor(k.feedback, k.source, k.version)
  <2>1. k \in Calls
    BY <1>3, BusyCall DEF WritePlan
  <2>2. made \in Plans
    BY <2>1, PlanForType DEF Calls
  <2>3. FilesOK
    BY <1>0, <1>3, <2>2 DEF WritePlan
  <2>4. CASE k.planned
    <3>1. call' = [call EXCEPT ![c] = None]
      BY <1>3, <2>4 DEF WritePlan
    <3> QED BY <2>3, <3>1, CallChanges
  <2>5. CASE ~k.planned
    <3>1. call' = [call EXCEPT ![c] = [k EXCEPT !.at = "preflight", !.plan = made]]
      BY <1>3, <2>5 DEF WritePlan
    <3>2. [k EXCEPT !.at = "preflight", !.plan = made] \in Calls
      BY <2>1, <2>2 DEF Calls
    <3>3. CallReady([k EXCEPT !.at = "preflight", !.plan = made])
      BY <2>1 DEF CallReady, Calls
    <3> QED BY <2>3, <3>1, <3>2, <3>3, CallChanges
  <2> QED BY <2>4, <2>5
<1>4. CASE Register(c)
  <2>1. FilesOK
    BY <1>0, <1>4, SpendType DEF Register, Work
  <2>2. PICK f \in Feedbacks, source \in OnFile : \E version \in Asked(source) :
          \E held \in Held(f, source, version) :
             \/ NewCall(c, "preflight", f, source, version, FALSE, held)
             \/ NewCall(c, "record", f, source, version, FALSE, None)
    BY <1>4 DEF Register
  <2>3. PICK version \in Asked(source) : \E held \in Held(f, source, version) :
             \/ NewCall(c, "preflight", f, source, version, FALSE, held)
             \/ NewCall(c, "record", f, source, version, FALSE, None)
    BY <2>2
  <2>4. version \in Versions /\ source \in Entries
    BY AskedType DEF OnFile, Registered, TypeInv, TypeOK
  <2>5. Held(f, source, version) \subseteq Plans \cup {None}
    BY <1>0, <2>4, PlanForType DEF Held
  <2> QED BY <2>1, <2>3, <2>4, <2>5, NewCallType
<1>5. CASE Preflight(c)
  BY <1>0, <1>5, GoType, RaiseType DEF Preflight
<1>6. CASE ReadVerifierGate(c)
  <2> DEFINE k == [call[c] EXCEPT !.at = "qa", !.result = verifier]
  <2>1. CASE VerifierGate
    <3>1. verifier \in Results /\ call[c] \in Calls
      BY <1>0, <1>6, <2>1, BusyCall DEF VerifierGate, ReadVerifierGate
    <3>2. k \in Calls /\ CallReady(k)
      BY <3>1 DEF Calls, CallReady
    <3>3. call' = [call EXCEPT ![c] = k]
      BY <1>0, <1>6, <2>1 DEF ReadVerifierGate
    <3> HIDE DEF k
    <3> QED BY <1>0, <1>6, <3>2, <3>3, CallChanges DEF ReadVerifierGate
  <2> QED BY <1>0, <1>6, <2>1, RaiseType DEF ReadVerifierGate
<1>7. CASE ReadQAGate(c)
  <2> DEFINE k == [call[c] EXCEPT !.at = "add", !.report = report]
  <2>1. CASE QAGate(call[c].result)
    <3>1. report \in Reports /\ call[c] \in Calls /\ call[c].at = "qa" /\ CallReady(call[c])
      BY <1>0, <1>7, <2>1, BusyCall DEF QAGate, ReadQAGate
    <3>2. k \in Calls /\ CallReady(k)
      BY <3>1 DEF Calls, CallReady
    <3>3. call' = [call EXCEPT ![c] = k]
      BY <1>0, <1>7, <2>1 DEF ReadQAGate
    <3> HIDE DEF k
    <3> QED BY <1>0, <1>7, <3>2, <3>3, CallChanges DEF ReadQAGate
  <2> QED BY <1>0, <1>7, <2>1, RaiseType DEF ReadQAGate
<1>8. CASE AddVerified(c)
  <2> DEFINE new == [version |-> call[c].version, package |-> package,
                     source |-> call[c].source.version, link |-> None, calm |-> call[c].calm]
             k == [call[c] EXCEPT !.at = "load", !.entry = new]
  <2>1. CASE RegistryAdmits /\ Free(call[c].version)
    <3>1. call[c] \in Calls /\ call[c].at = "add" /\ CallReady(call[c])
      BY <1>8, BusyCall DEF AddVerified
    <3>2. new \in Entries /\ new.version = call[c].version
      BY <1>0, <3>1 DEF Calls, Entries
    <3>3. store' = [store EXCEPT ![call[c].version] = new] /\ call' = [call EXCEPT ![c] = k]
      BY <1>0, <1>8, <2>1 DEF AddVerified
    <3> HIDE DEF new
    <3>4. k \in Calls /\ CallReady(k)
      BY <3>1, <3>2 DEF Calls, CallReady
    <3>5. store' \in [Versions -> Entries \cup {None}]
      BY <1>0, <3>2, <3>3
    <3> HIDE DEF k
    <3> QED BY <1>0, <1>8, <3>3, <3>4, <3>5, CallChanges DEF AddVerified
  <2> QED BY <1>0, <1>8, <2>1, RaiseType DEF AddVerified
<1>9. CASE LoadEntries(c)
  <2> DEFINE linked == Linked(call[c])
             k == [call[c] EXCEPT !.at = "augment", !.loaded = store, !.entry = linked]
  <2>1. CASE store[call[c].version] # None
    <3>1. call[c] \in Calls /\ call[c].at = "load" /\ CallReady(call[c])
      BY <1>9, BusyCall DEF LoadEntries
    <3>2. /\ call[c].entry \in Entries /\ call[c].entry.version = call[c].version
          /\ call[c].result \in Results /\ call[c].report \in Reports
      BY <3>1 DEF CallReady
    <3>3. /\ linked \in Entries /\ linked.version = call[c].version
          /\ linked.link = [feedback |-> call[c].feedback, source |-> call[c].source.version,
                            result |-> call[c].result, report |-> call[c].report]
      BY <3>1, <3>2 DEF Linked, Entries, Links, Calls
    <3>4. call' = [call EXCEPT ![c] = k]
      BY <1>0, <1>9, <2>1 DEF LoadEntries
    <3> HIDE DEF linked
    <3>5. k \in Calls /\ CallReady(k)
      BY <1>0, <3>1, <3>2, <3>3 DEF Calls, CallReady
    <3> HIDE DEF k
    <3> QED BY <1>0, <1>9, <3>4, <3>5, CallChanges DEF LoadEntries
  <2> QED BY <1>0, <1>9, <2>1, RaiseType DEF LoadEntries
<1>10. CASE Augment(c)
  <2> DEFINE k == [call[c] EXCEPT !.at = "report", !.loaded = NotLoaded]
  <2>1. call[c] \in Calls /\ call[c].at = "augment" /\ CallReady(call[c])
    BY <1>10, BusyCall DEF Augment
  <2>2. k \in Calls /\ CallReady(k)
    BY <2>1 DEF Calls, CallReady, NotLoaded
  <2>3. call' = [call EXCEPT ![c] = k]
    BY <1>0, <1>10 DEF Augment
  <2>4. store' \in [Versions -> Entries \cup {None}]
    BY <1>10, <2>1 DEF Augment, Calls, CallReady
  <2> HIDE DEF k
  <2> QED BY <1>0, <1>10, <2>2, <2>3, <2>4, CallChanges DEF Augment
<1>11. CASE ReportChange(c)
  <2>1. call[c] \in Calls /\ call[c].at = "report" /\ CallReady(call[c])
    BY <1>11, BusyCall DEF ReportChange
  <2>2. change' \in Changes
    BY <1>11, <2>1 DEF ReportChange, Calls, CallReady, Changes, Entries
  <2> QED BY <1>0, <1>11, <2>2, RaiseType DEF ReportChange
<1>12. CASE Kill(c)
  BY <1>0, <1>12, SpendType, RaiseType DEF Kill, Work
<1> QED BY <1>1, <1>2, <1>3, <1>4, <1>5, <1>6, <1>7, <1>8, <1>9, <1>10, <1>11, <1>12 DEF Manage

LEMMA DisturbType ==
    ASSUME TypeInv, Disturb PROVE call' \in [Callers -> Calls \cup {None}] /\ CallsReady'
<1>1. ASSUME NEW c \in Callers
      PROVE  /\ call'[c] \in Calls \cup {None}
             /\ call'[c] # None => CallReady(call'[c])
  <2>1. CASE call[c] # None /\ call'[c] = [call[c] EXCEPT !.calm = FALSE]
    <3>1. call[c] \in Calls /\ CallReady(call[c])
      BY <2>1 DEF TypeInv, TypeOK, CallsReady
    <3> QED BY <2>1, <3>1 DEF Calls, CallReady
  <2>2. CASE call'[c] = call[c]
    BY <2>2 DEF TypeInv, TypeOK, CallsReady
  <2> QED BY <2>1, <2>2 DEF Disturb
<1>2. call' = [c \in Callers |-> call'[c]]
  BY DEF Disturb
<1> QED BY <1>1, <1>2 DEF CallsReady, CallReady

LEMMA TypeStep == TypeInv /\ [Next]_vars => TypeInv'
<1> SUFFICES ASSUME TypeInv, [Next]_vars PROVE TypeInv'
  OBVIOUS
<1>1. ASSUME NEW c \in Callers, Manage(c), UNCHANGED <<qualityVars, acceptanceVars>>
      PROVE  TypeInv'
  BY <1>1, ManageType
<1>2. ASSUME Rewrite \/ QualityStep, Disturb, Untouched, UNCHANGED acceptanceVars PROVE TypeInv'
  BY <1>2, QualityType, DisturbType
     DEF TypeInv, TypeOK, Untouched, acceptanceVars, AcceptanceTypeOK
<1>3. ASSUME AcceptanceStep, UNCHANGED <<qualityVars, versionVars>> PROVE TypeInv'
  BY <1>3, AcceptanceType DEF TypeInv, TypeOK, versionVars, CallsReady, CallReady
<1>4. CASE UNCHANGED vars
  BY <1>4 DEF vars, qualityVars, acceptanceVars, versionVars, TypeInv, TypeOK, QualityTypeOK,
     AcceptanceTypeOK, CallsReady, CallReady
<1> QED BY <1>1, <1>2, <1>3, <1>4 DEF Next

LEMMA TypeInit == Init => TypeInv
BY InitType DEF Init, VersionsInit, TypeInv, CallsReady

(* Every file of the repair workspace, every registry entry and every call is *)
(* of its kind.                                                               *)
THEOREM TypeCorrect == Spec => []TypeOK
<1>1. TypeInv => TypeOK
  BY DEF TypeInv
<1> QED BY <1>1, TypeInit, TypeStep, PTL DEF Spec

-----------------------------------------------------------------------------
(* The plan of a criterion *)

(* A criterion gets the first kind of evidence that fits it.                  *)
LEMMA FirstThatFits ==
    ASSUME NEW c, NEW i \in 1..6, Fits(Modes[i], c), \A j \in 1..(i - 1) : ~Fits(Modes[j], c)
    PROVE  Mode(c) = Modes[i]
<1>1. DOMAIN Modes = 1..6
  BY DEF Modes
<1>2. ASSUME NEW k \in 1..6, Fits(Modes[k], c), \A j \in 1..(k - 1) : ~Fits(Modes[j], c)
      PROVE  k = i
  <2>1. ~(i < k) /\ ~(k < i)
    BY <1>2
  <2> QED BY <2>1
<1>3. (CHOOSE k \in DOMAIN Modes : Fits(Modes[k], c) /\ \A j \in 1..(k - 1) : ~Fits(Modes[j], c)) = i
  BY <1>1, <1>2
<1> QED BY <1>1, <1>3 DEF Mode

LEMMA ModeOf ==
    ASSUME NEW c
    PROVE  /\ RequestsManual(c) => Mode(c) = "manual_authority"
           /\ ~RequestsManual(c) =>
                /\ c.status = "uncovered" \/ OpinionOnly(c) => Mode(c) = "uncovered"
                /\ c.status # "uncovered" /\ ~OpinionOnly(c) =>
                     /\ CheckOf(c) # None => Mode(c) = "verifier_check"
                     /\ CheckOf(c) = None /\ c.fixture = None /\ c.evidence # {} =>
                          /\ c.kind = "qa_report" => Mode(c) = "qa_report_check"
                          /\ c.kind \in {"file", "command"} => Mode(c) = "required_evidence"
<1>1. /\ Modes[1] = "manual_authority" /\ Modes[2] = "uncovered" /\ Modes[3] = "verifier_check"
      /\ Modes[4] = "fixture" /\ Modes[5] = "qa_report_check" /\ Modes[6] = "required_evidence"
  BY DEF Modes
<1>2. /\ Fits(Modes[1], c) <=> RequestsManual(c)
      /\ Fits(Modes[2], c) <=> (c.status = "uncovered" \/ OpinionOnly(c))
      /\ Fits(Modes[3], c) <=> CheckOf(c) # None
      /\ Fits(Modes[4], c) <=> c.fixture # None
      /\ Fits(Modes[5], c) <=> (c.kind = "qa_report" /\ c.evidence # {})
      /\ Fits(Modes[6], c) <=> (c.kind \in {"file", "command"} /\ c.evidence # {})
  BY <1>1 DEF Fits
<1>3. CASE RequestsManual(c)
  BY <1>1, <1>2, <1>3, FirstThatFits, 1 \in 1..6
<1>4. CASE ~RequestsManual(c) /\ (c.status = "uncovered" \/ OpinionOnly(c))
  BY <1>1, <1>2, <1>4, FirstThatFits, 2 \in 1..6, \A j \in 1..(2 - 1) : j = 1
<1>5. CASE ~RequestsManual(c) /\ c.status # "uncovered" /\ ~OpinionOnly(c)
  <2>1. CASE CheckOf(c) # None
    BY <1>1, <1>2, <1>5, <2>1, FirstThatFits, 3 \in 1..6, \A j \in 1..(3 - 1) : j \in {1, 2}
  <2>2. CASE CheckOf(c) = None /\ c.fixture = None /\ c.evidence # {} /\ c.kind = "qa_report"
    BY <1>1, <1>2, <1>5, <2>2, FirstThatFits, 5 \in 1..6, \A j \in 1..(5 - 1) : j \in {1, 2, 3, 4}
  <2>3. CASE CheckOf(c) = None /\ c.fixture = None /\ c.evidence # {} /\ c.kind \in {"file", "command"}
    BY <1>1, <1>2, <1>5, <2>3, FirstThatFits, 6 \in 1..6,
       \A j \in 1..(6 - 1) : j \in {1, 2, 3, 4, 5}
  <2> QED BY <1>5, <2>1, <2>2, <2>3
<1> QED BY <1>3, <1>4, <1>5

-----------------------------------------------------------------------------
(* What the evidence files say *)

(* The verifier's file is what it would say of the package it names.          *)
VerdictTrue == verifier # None => verifier.package \in Packages /\ verifier = VerdictOn(verifier.package)

(* What the lab has found by the place it is at, of the package it hashed,    *)
(* where nobody rewrote the package meanwhile.                                *)
LabSound ==
    lab # None =>
        /\ lab.calm => lab.package = package
        /\ lab.at \in {"text", "scripts", "judge"} /\ "verifier_passed" \notin lab.failed =>
              VerdictStands(lab.result, lab.package) /\ lab.result = VerdictOn(lab.package)
        /\ lab.at \in {"scripts", "judge"} /\ lab.calm =>
              lab.text = lab.package /\ TextFailures(lab.package) \subseteq lab.failed
        /\ lab.at = "judge" /\ lab.calm /\ "script_smoke" \notin lab.failed =>
              ScriptsPass(lab.package, lab.package)

ReportSound(r) ==
    /\ r.calm => TextFailures(r.package) \subseteq r.failed
    /\ r.passed => r.result = VerdictOn(r.package) /\ r.result.passed
    /\ r.passed /\ r.calm => PassesQA(r.package)

(* Whoever is named as covered by a record was answered for by a person.      *)
RecordTrue ==
    record # None /\ record.approved =>
        \A c \in record.criteria : c.id \in record.covers => <<c, record.criteria>> \in approvals

EvidenceInv ==
    /\ VerdictTrue /\ LabSound /\ (report # None => ReportSound(report))
    /\ RecordTrue /\ CoverageIsEarned

LEMMA EvidenceInit == Init => EvidenceInv
BY DEF Init, QualityInit, AcceptanceInit, EvidenceInv, VerdictTrue, LabSound, RecordTrue,
   CoverageIsEarned

(* Verifier and lab                                                           *)
LEMMA QualityEvidence ==
    ASSUME TypeInv, EvidenceInv, Rewrite \/ QualityStep, UNCHANGED acceptanceVars
    PROVE  EvidenceInv'
<1>1. QualityTypeOK
  BY DEF TypeInv, TypeOK
<1>2. RecordTrue' /\ CoverageIsEarned'
  BY DEF EvidenceInv, RecordTrue, CoverageIsEarned, acceptanceVars
<1>3. CASE Rewrite
  BY <1>1, <1>2, <1>3 DEF Rewrite, EvidenceInv, VerdictTrue, LabSound, ReportSound, QualityTypeOK,
     Labs
<1>4. CASE Verify
  <2>1. VerdictTrue'
    BY <1>1, <1>4 DEF Verify, VerdictTrue, VerdictOn, QualityTypeOK
  <2> QED BY <1>2, <1>4, <2>1 DEF Verify, EvidenceInv, LabSound, ReportSound
<1>5. CASE BeginQA
  BY <1>2, <1>5 DEF BeginQA, EvidenceInv, VerdictTrue, LabSound, ReportSound
<1>6. CASE ReadVerdict
  <2>1. lab \in Labs /\ lab.at = "verdict"
    BY <1>1, <1>6 DEF ReadVerdict, At, QualityTypeOK
  <2>2. /\ lab'.at = "text" /\ lab'.result = verifier /\ lab'.package = lab.package
        /\ lab'.calm = lab.calm
        /\ "verifier_passed" \notin lab'.failed => VerdictStands(verifier, lab.package)
    BY <1>6, <2>1 DEF ReadVerdict, Labs
  <2>3. VerdictStands(verifier, lab.package) => verifier = VerdictOn(lab.package)
    BY DEF VerdictStands, EvidenceInv, VerdictTrue
  <2>4. LabSound'
    BY <1>6, <2>2, <2>3 DEF ReadVerdict, At, EvidenceInv, LabSound
  <2> QED BY <1>2, <1>6, <2>4 DEF ReadVerdict, EvidenceInv, VerdictTrue, ReportSound
<1>7. CASE ReadText
  <2>1. lab \in Labs /\ lab.at = "text"
    BY <1>1, <1>7 DEF ReadText, At, QualityTypeOK
  <2>2. /\ lab'.at = "scripts" /\ lab'.result = lab.result /\ lab'.package = lab.package
        /\ lab'.calm = lab.calm /\ lab'.text = package
        /\ lab'.failed = lab.failed \cup TextFailures(package)
    BY <1>7, <2>1 DEF ReadText, Labs
  <2>3. LabSound'
    BY <1>7, <2>1, <2>2 DEF ReadText, At, EvidenceInv, LabSound
  <2> QED BY <1>2, <1>7, <2>3 DEF ReadText, EvidenceInv, VerdictTrue, ReportSound
<1>8. CASE SmokeScripts
  <2>1. lab \in Labs /\ lab.at = "scripts" /\ lab # None
    BY <1>1, <1>8 DEF SmokeScripts, At, QualityTypeOK
  <2>2. /\ lab'.at = "judge" /\ lab'.result = lab.result /\ lab'.package = lab.package
        /\ lab'.calm = lab.calm /\ lab'.text = lab.text /\ lab.failed \subseteq lab'.failed
        /\ "script_smoke" \notin lab'.failed => ScriptsPass(lab.text, package)
    BY <1>8, <2>1 DEF SmokeScripts, Labs
  <2>3. LabSound'
    BY <1>8, <2>1, <2>2 DEF SmokeScripts, EvidenceInv, LabSound
  <2> QED BY <1>2, <1>8, <2>3 DEF SmokeScripts, EvidenceInv, VerdictTrue, ReportSound
<1>9. CASE WriteReport
  <2>1. PICK signal \in Judges :
          report' = [package |-> lab.package, result |-> lab.result,
                     failed |-> lab.failed, passed |-> lab.failed = {},
                     signal |-> signal, calm |-> lab.calm]
    BY <1>9 DEF WriteReport
  <2>2. lab # None /\ lab.at = "judge"
    BY <1>9 DEF WriteReport, At
  <2>3. lab.failed = {} =>
          /\ VerdictStands(lab.result, lab.package) /\ lab.result = VerdictOn(lab.package)
          /\ lab.calm => TextFailures(lab.package) = {} /\ ScriptsPass(lab.package, lab.package)
    BY <2>2 DEF EvidenceInv, LabSound
  <2>4. ReportSound(report')
    <3>1. lab.calm => TextFailures(lab.package) \subseteq lab.failed
      BY <2>2 DEF EvidenceInv, LabSound
    <3>2. report'.passed <=> lab.failed = {}
      BY <2>1
    <3>3. lab.failed = {} =>
            /\ lab.result = VerdictOn(lab.package) /\ lab.result.passed
            /\ lab.calm => PassesQA(lab.package)
      BY <2>3 DEF VerdictStands, PassesQA
    <3>4. /\ report'.package = lab.package /\ report'.result = lab.result
          /\ report'.failed = lab.failed /\ report'.calm = lab.calm
      BY <2>1
    <3> QED BY <3>1, <3>2, <3>3, <3>4 DEF ReportSound
  <2> QED BY <1>2, <1>9, <2>4 DEF WriteReport, EvidenceInv, VerdictTrue, LabSound, ReportSound
<1>10. CASE KillLab
  BY <1>2, <1>10 DEF KillLab, EvidenceInv, VerdictTrue, LabSound, ReportSound
<1> QED BY <1>3, <1>4, <1>5, <1>6, <1>7, <1>8, <1>9, <1>10 DEF QualityStep

-----------------------------------------------------------------------------
(* A criterion that is met *)

LEMMA MetHolds ==
    ASSUME TypeInv, EvidenceInv, NEW set \in CriteriaSets, NEW c \in Musts(set),
           Met(c, Seen(set), package)
    PROVE  IF RequestsManual(c)
           THEN <<c, set>> \in approvals
           ELSE /\ ~OpinionOnly(c) /\ c.status # "uncovered"
                /\ (/\ verifier # None => verifier.package = package
                    /\ report # None => report.calm /\ report.package = package)
                       => Holds(c, package)
<1>1. c \in Criterion /\ c \in set
  BY AcceptanceAssumption DEF Musts
<1>2. CASE RequestsManual(c)
  <2>1. ManuallyMet(c, Seen(set))
    BY <1>2, ModeOf DEF Met
  <2>2. record # None /\ record.approved /\ c.id \in record.covers /\ record.criteria = set
    BY <2>1 DEF ManuallyMet, Seen
  <2> QED BY <1>1, <1>2, <2>2 DEF EvidenceInv, RecordTrue
<1>3. CASE ~RequestsManual(c)
  <2>1. ~OpinionOnly(c) /\ c.status # "uncovered"
    BY <1>3, ModeOf DEF Met
  <2>2. ASSUME verifier # None => verifier.package = package,
               report # None => report.calm /\ report.package = package
        PROVE  Holds(c, package)
    <3>1. ASSUME c.kind = "qa_report", c.check = None, c.fixture = None
          PROVE  c.evidence \cap TextFailures(package) = {}
      <4>1. CASE c.evidence = {}
        BY <4>1
      <4>2. CASE c.evidence # {}
        <5>1. CheckOf(c) = None
          BY <3>1 DEF CheckOf
        <5>2. Mode(c) = "qa_report_check"
          BY <1>3, <2>1, <3>1, <4>2, <5>1, ModeOf
        <5>3. report # None /\ c.evidence \subseteq HardChecks \ report.failed
          BY <5>2 DEF Met, QAMet, Seen
        <5>4. TextFailures(package) \subseteq report.failed
          BY <2>2, <5>3 DEF EvidenceInv, ReportSound
        <5> QED BY <5>3, <5>4
      <4> QED BY <4>1, <4>2
    <3>2. ASSUME CheckOf(c) \in Named PROVE CheckOf(c) \in package.checks
      <4>1. Mode(c) = "verifier_check"
        BY <1>3, <2>1, <3>2, ModeOf, QualityAssumption
      <4>2. verifier # None /\ CheckOf(c) \in verifier.passing
        BY <3>2, <4>1 DEF Met, VerifierMet, Seen
      <4>3. verifier.passing = Named \cap package.checks
        BY <2>2, <4>2 DEF EvidenceInv, VerdictTrue, VerdictOn
      <4> QED BY <4>2, <4>3
    <3>3. ASSUME c.kind \in {"file", "command"}, c.check = None, c.fixture = None
          PROVE  c.evidence \subseteq package.files
      <4>1. CASE c.evidence = {}
        BY <4>1
      <4>2. CASE c.evidence # {}
        <5>1. CheckOf(c) = None
          BY <3>3 DEF CheckOf
        <5>2. Mode(c) = "required_evidence"
          BY <1>3, <2>1, <3>3, <4>2, <5>1, ModeOf
        <5> QED BY <5>2 DEF Met, FilesMet
      <4> QED BY <4>1, <4>2
    <3> QED BY <3>1, <3>2, <3>3 DEF Holds
  <2> QED BY <1>3, <2>1, <2>2
<1> QED BY <1>2, <1>3

LEMMA AcceptanceEvidence ==
    ASSUME TypeInv, EvidenceInv, AcceptanceStep, UNCHANGED qualityVars
    PROVE  EvidenceInv'
<1>1. VerdictTrue' /\ LabSound' /\ (report # None => ReportSound(report))'
  BY DEF EvidenceInv, VerdictTrue, LabSound, ReportSound, qualityVars
<1>2. CASE ReviseCriteria \/ PlanCoverage \/ KillEvaluation
  BY <1>1, <1>2 DEF ReviseCriteria, PlanCoverage, KillEvaluation, EvidenceInv, RecordTrue,
     CoverageIsEarned
<1>3. CASE Review
  <2>1. PICK ids \in SUBSET {c.id : c \in {d \in criteria : RequestsManual(d)}}, yes \in BOOLEAN :
          /\ record' = [approved |-> yes, covers |-> ids, criteria |-> criteria]
          /\ approvals' = IF yes
                          THEN approvals \cup {<<c, criteria>> : c \in {d \in criteria : d.id \in ids}}
                          ELSE approvals
    BY <1>3 DEF Review
  <2>2. RecordTrue' /\ approvals \subseteq approvals'
    BY <2>1 DEF RecordTrue
  <2>3. CoverageIsEarned'
    BY <1>3, <2>2 DEF Review, EvidenceInv, CoverageIsEarned
  <2> QED BY <1>1, <2>2, <2>3 DEF EvidenceInv
<1>4. CASE EvaluateCoverage
  <2> DEFINE set == ev.criteria
             unmet == {c.id : c \in {d \in Musts(set) : ~Met(d, Seen(set), package)}}
  <2>1. set \in CriteriaSets
    BY <1>4 DEF EvaluateCoverage, Evaluations, TypeInv, TypeOK, AcceptanceTypeOK
  <2>2. /\ coverage' = [criteria |-> set, result |-> verifier,
                        report |-> report, record |-> record, package |-> package,
                        unmet |-> unmet, passed |-> unmet = {}]
        /\ UNCHANGED <<record, approvals>>
    BY <1>4 DEF EvaluateCoverage
  <2>3. RecordTrue'
    BY <2>2 DEF EvidenceInv, RecordTrue
  <2>4. CoverageIsEarned'
    <3> SUFFICES ASSUME unmet = {}, NEW c \in Musts(set)
                 PROVE  IF RequestsManual(c)
                        THEN <<c, set>> \in approvals
                        ELSE /\ ~OpinionOnly(c) /\ c.status # "uncovered"
                             /\ Fresh(coverage') => Holds(c, package)
      BY <2>2 DEF CoverageIsEarned
    <3>1. Met(c, Seen(set), package)
      OBVIOUS
    <3>2. Fresh(coverage') => /\ verifier # None => verifier.package = package
                              /\ report # None => report.calm /\ report.package = package
      BY <2>2 DEF Fresh
    <3> QED BY <2>1, <3>1, <3>2, MetHolds
  <2> QED BY <1>1, <2>3, <2>4 DEF EvidenceInv
<1> QED BY <1>2, <1>3, <1>4 DEF AcceptanceStep

LEMMA EvidenceStep == TypeInv /\ EvidenceInv /\ [Next]_vars => EvidenceInv'
<1> SUFFICES ASSUME TypeInv, EvidenceInv, [Next]_vars PROVE EvidenceInv'
  OBVIOUS
<1>1. CASE UNCHANGED <<qualityVars, acceptanceVars>>
  BY <1>1 DEF qualityVars, acceptanceVars, EvidenceInv, VerdictTrue, LabSound, ReportSound,
     RecordTrue, CoverageIsEarned
<1> QED BY <1>1, QualityEvidence, AcceptanceEvidence DEF Next, vars

(* A coverage result that passes is earned, whatever the criteria are and     *)
(* whatever was rewritten, verified, judged, reviewed and revised in between: *)
(* no must criterion rests on an opinion, a person answered for those left to *)
(* one, and the others hold of the package the evidence was about.            *)
THEOREM PassingCoverageIsEarned == Spec => []CoverageIsEarned
<1>1. EvidenceInv => CoverageIsEarned
  BY DEF EvidenceInv
<1> QED BY <1>1, TypeInit, TypeStep, EvidenceInit, EvidenceStep, PTL DEF Spec

-----------------------------------------------------------------------------
(* What repaired versions went through *)

EntryGood(e) ==
    e.link # None /\ e.calm /\ e.link.report.calm =>
        /\ e.package = e.link.report.package
        /\ VerdictOn(e.package).passed /\ PassesQA(e.package)

StoreGood == \A v \in Versions : store[v] # None => EntryGood(store[v])

(* What a call holds of the gates, by the place it is at: the verifier's      *)
(* result is the one on file as long as the workspace is calm, the QA report  *)
(* passed for that result, and the entry is of the report's package.          *)
GateCall(k, onFile) ==
    /\ k.at \in {"qa", "add"} /\ k.calm => k.result = onFile
    /\ k.at \in {"add", "load", "augment"} =>
          ReportSound(k.report) /\ k.report.passed /\ k.report.result = k.result
    /\ k.at = "load" /\ k.entry.calm => k.entry.package = k.report.package
    /\ k.at = "augment" =>
          /\ EntryGood(k.entry)
          /\ \A v \in Versions : k.loaded[v] # None => EntryGood(k.loaded[v])

GateCalls == \A c \in Callers : call[c] # None => GateCall(call[c], verifier)

GatesInv == StoreGood /\ GateCalls

LEMMA GatesInit == Init => GatesInv
BY DEF Init, VersionsInit, GatesInv, StoreGood, GateCalls, EntryGood

LEMMA GateChanges ==
    ASSUME TypeInv, GatesInv, NEW c \in Callers, NEW k, call' = [call EXCEPT ![c] = k],
           k # None => GateCall(k, verifier), UNCHANGED verifier
    PROVE  GateCalls'
<1> SUFFICES ASSUME NEW d \in Callers, call'[d] # None PROVE GateCall(call'[d], verifier')
  BY DEF GateCalls
<1>1. call'[d] = IF d = c THEN k ELSE call[d]
  BY DEF TypeInv, TypeOK
<1> QED BY <1>1 DEF GatesInv, GateCalls

LEMMA GatesManage ==
    ASSUME TypeInv, EvidenceInv, GatesInv, NEW c \in Callers, Manage(c),
           UNCHANGED <<qualityVars, acceptanceVars>>
    PROVE  GatesInv'
<1>0. UNCHANGED verifier /\ call \in [Callers -> Calls \cup {None}]
      /\ store \in [Versions -> Entries \cup {None}]
  BY DEF qualityVars, TypeInv, TypeOK
<1>1. ASSUME UNCHANGED store PROVE StoreGood'
  BY <1>1 DEF GatesInv, StoreGood
<1>2. ASSUME Raise(c) PROVE GateCalls'
  BY <1>0, <1>2, GateChanges DEF Raise
<1>3. ASSUME NEW k \in Calls, k.at \in {"record", "plan", "preflight", "verifier"},
             call' = [call EXCEPT ![c] = k]
      PROVE  GateCalls'
  BY <1>0, <1>3, GateChanges DEF GateCall
<1>4. ASSUME NEW f, NEW source, NEW version, NEW planned, NEW held, NEW at,
             at \in {"record", "preflight"}, NewCall(c, at, f, source, version, planned, held)
      PROVE  GateCalls'
  <2> DEFINE k == [at |-> at, feedback |-> f, source |-> source, version |-> version,
                   planned |-> planned, plan |-> held, result |-> None, report |-> None,
                   entry |-> None, calm |-> TRUE, loaded |-> NotLoaded]
  <2>1. call' = [call EXCEPT ![c] = k] /\ GateCall(k, verifier)
    BY <1>4 DEF NewCall, GateCall
  <2> HIDE DEF k
  <2> QED BY <1>0, <2>1, GateChanges
<1>5. CASE PlanRepair(c) \/ Register(c)
  BY <1>1, <1>4, <1>5 DEF PlanRepair, Register, GatesInv
<1>6. CASE WriteFeedback(c) \/ WritePlan(c) \/ Preflight(c)
  <2>1. PICK at \in {"record", "plan", "preflight"} : Busy(c, at)
    BY <1>6 DEF WriteFeedback, WritePlan, Preflight
  <2>2. call[c] \in Calls
    BY <2>1, BusyCall
  <2>3. \A to \in {"plan", "verifier"} :
          [call[c] EXCEPT !.at = to] \in Calls /\ [call[c] EXCEPT !.at = to].at = to
    BY <2>2 DEF Calls
  <2>4. ASSUME NEW to \in {"plan", "verifier"}, Go(c, to) PROVE GateCalls'
    <3>1. call' = [call EXCEPT ![c] = [call[c] EXCEPT !.at = to]]
      BY <2>4, <1>0 DEF Go
    <3> QED BY <1>3, <2>3, <3>1
  <2>5. CASE WritePlan(c)
    <3> DEFINE made == PlanFor(call[c].feedback, call[c].source, call[c].version)
               k == [call[c] EXCEPT !.at = "preflight", !.plan = made]
    <3>1. made \in Plans
      BY <2>2, PlanForType DEF Calls
    <3>2. k \in Calls /\ k.at = "preflight"
      BY <2>2, <3>1 DEF Calls
    <3>3. call' = [call EXCEPT ![c] = k] \/ Raise(c)
      BY <2>5 DEF WritePlan, Raise
    <3> HIDE DEF k
    <3> QED BY <1>1, <1>2, <1>3, <2>5, <3>2, <3>3 DEF WritePlan, GatesInv
  <2> QED BY <1>1, <1>2, <1>6, <2>4, <2>5 DEF WriteFeedback, Preflight, GatesInv
<1>7. CASE ReadVerifierGate(c)
  <2> DEFINE k == [call[c] EXCEPT !.at = "qa", !.result = verifier]
  <2>1. call[c] \in Calls
    BY <1>7, BusyCall DEF ReadVerifierGate
  <2>2. GateCall(k, verifier)
    BY <2>1 DEF Calls, GateCall
  <2>3. call' = [call EXCEPT ![c] = k] \/ Raise(c)
    BY <1>0, <1>7 DEF ReadVerifierGate
  <2> HIDE DEF k
  <2> QED BY <1>0, <1>1, <1>2, <1>7, <2>2, <2>3, GateChanges DEF ReadVerifierGate, GatesInv
<1>8. CASE ReadQAGate(c)
  <2> DEFINE k == [call[c] EXCEPT !.at = "add", !.report = report]
  <2>1. call[c] \in Calls /\ call[c].at = "qa" /\ call[c] # None
    BY <1>8, BusyCall DEF ReadQAGate, Busy
  <2>2. CASE QAGate(call[c].result)
    <3>1. ReportSound(report) /\ report.passed /\ report.result = call[c].result
      BY <2>2 DEF QAGate, EvidenceInv
    <3>2. call[c].calm => call[c].result = verifier
      BY <2>1 DEF GatesInv, GateCalls, GateCall
    <3>3. /\ k.at = "add" /\ k.report = report /\ k.result = call[c].result
          /\ k.calm = call[c].calm
      BY <2>1 DEF Calls
    <3>4. call' = [call EXCEPT ![c] = k]
      BY <1>0, <1>8, <2>2 DEF ReadQAGate
    <3> HIDE DEF k
    <3>5. GateCall(k, verifier)
      BY <3>1, <3>2, <3>3 DEF GateCall
    <3> QED BY <1>0, <1>1, <1>8, <3>4, <3>5, GateChanges DEF ReadQAGate, GatesInv
  <2> QED BY <1>1, <1>2, <1>8, <2>2 DEF ReadQAGate, GatesInv
<1>9. CASE AddVerified(c)
  <2> DEFINE new == [version |-> call[c].version, package |-> package,
                     source |-> call[c].source.version, link |-> None, calm |-> call[c].calm]
             k == [call[c] EXCEPT !.at = "load", !.entry = new]
  <2>1. CASE RegistryAdmits /\ Free(call[c].version)
    <3>1. call[c] \in Calls /\ call[c].at = "add" /\ call[c] # None
      BY <1>9, BusyCall DEF AddVerified, Busy
    <3>2. /\ ReportSound(call[c].report) /\ call[c].report.passed
          /\ call[c].report.result = call[c].result
          /\ call[c].calm => call[c].result = verifier
      BY <3>1 DEF GatesInv, GateCalls, GateCall
    <3>3. call[c].calm => package = call[c].report.package
      BY <2>1, <3>2 DEF RegistryAdmits, ReportSound, VerdictOn
    <3>4. /\ k.at = "load" /\ k.entry = new /\ k.report = call[c].report
          /\ k.result = call[c].result
      BY <3>1 DEF Calls
    <3>5. store' = [store EXCEPT ![call[c].version] = new] /\ call' = [call EXCEPT ![c] = k]
      BY <1>0, <1>9, <2>1 DEF AddVerified
    <3> HIDE DEF k
    <3>6. GateCall(k, verifier)
      BY <3>2, <3>3, <3>4 DEF GateCall
    <3>7. EntryGood(new)
      BY DEF EntryGood
    <3> HIDE DEF new
    <3>8. StoreGood'
      BY <1>0, <3>5, <3>7 DEF GatesInv, StoreGood
    <3> QED BY <1>0, <3>5, <3>6, <3>8, GateChanges DEF GatesInv
  <2> QED BY <1>1, <1>2, <1>9, <2>1 DEF AddVerified, GatesInv
<1>10. CASE LoadEntries(c)
  <2> DEFINE linked == Linked(call[c])
             k == [call[c] EXCEPT !.at = "augment", !.loaded = store, !.entry = linked]
  <2>1. CASE store[call[c].version] # None
    <3>1. call[c] \in Calls /\ call[c].at = "load" /\ CallReady(call[c]) /\ call[c] # None
      BY <1>10, BusyCall DEF LoadEntries, Busy
    <3>2. /\ ReportSound(call[c].report) /\ call[c].report.passed
          /\ call[c].report.result = call[c].result
          /\ call[c].entry.calm => call[c].entry.package = call[c].report.package
      BY <3>1 DEF GatesInv, GateCalls, GateCall
    <3>3. /\ linked.package = call[c].entry.package /\ linked.calm = call[c].entry.calm
          /\ linked.link.report = call[c].report
      BY <3>1 DEF Linked, CallReady, Entries
    <3>4. EntryGood(linked)
      BY <3>2, <3>3 DEF EntryGood, ReportSound
    <3>5. /\ k.at = "augment" /\ k.entry = linked /\ k.loaded = store
          /\ k.report = call[c].report /\ k.result = call[c].result
      BY <3>1 DEF Calls
    <3>6. call' = [call EXCEPT ![c] = k]
      BY <1>0, <1>10, <2>1 DEF LoadEntries
    <3> HIDE DEF k, linked
    <3>7. GateCall(k, verifier)
      BY <3>2, <3>4, <3>5 DEF GateCall, GatesInv, StoreGood
    <3> QED BY <1>0, <1>1, <1>10, <3>6, <3>7, GateChanges DEF LoadEntries, GatesInv
  <2> QED BY <1>1, <1>2, <1>10, <2>1 DEF LoadEntries, GatesInv
<1>11. CASE Augment(c)
  <2> DEFINE k == [call[c] EXCEPT !.at = "report", !.loaded = NotLoaded]
  <2>1. call[c] \in Calls /\ call[c].at = "augment" /\ call[c] # None
    BY <1>11, BusyCall DEF Augment, Busy
  <2>2. GateCall(call[c], verifier)
    BY <2>1 DEF GatesInv, GateCalls
  <2>3. call' = [call EXCEPT ![c] = k] /\ store' = [call[c].loaded EXCEPT ![call[c].version] = call[c].entry]
    BY <1>0, <1>11 DEF Augment
  <2>4. StoreGood'
    BY <2>1, <2>2, <2>3 DEF StoreGood, GateCall, Calls
  <2>5. GateCall(k, verifier)
    BY <2>1 DEF GateCall, Calls
  <2> HIDE DEF k
  <2> QED BY <1>0, <2>3, <2>4, <2>5, GateChanges DEF GatesInv
<1>12. CASE ReportChange(c) \/ Kill(c)
  BY <1>1, <1>2, <1>12 DEF ReportChange, Kill, GatesInv
<1> QED BY <1>5, <1>6, <1>7, <1>8, <1>9, <1>10, <1>11, <1>12 DEF Manage

(* Who writes to the workspace disturbs the registrations that read it.       *)
LEMMA GatesDisturbed ==
    ASSUME TypeInv, GatesInv, Disturb, UNCHANGED store PROVE GatesInv'
<1>1. StoreGood'
  BY DEF GatesInv, StoreGood
<1>2. ASSUME NEW c \in Callers, call'[c] # None PROVE GateCall(call'[c], verifier')
  <2>1. CASE call'[c] = call[c]
             /\ (UNCHANGED verifier \/ call[c].at \notin {"qa", "add"})
    BY <1>2, <2>1 DEF GatesInv, GateCalls, GateCall
  <2>2. CASE call[c] # None /\ call'[c] = [call[c] EXCEPT !.calm = FALSE]
    <3>1. call[c] \in Calls /\ GateCall(call[c], verifier)
      BY <2>2 DEF TypeInv, TypeOK, GatesInv, GateCalls
    <3> QED BY <2>2, <3>1 DEF Calls, GateCall
  <2> QED BY <1>2, <2>1, <2>2 DEF Disturb
<1> QED BY <1>1, <1>2 DEF GatesInv, GateCalls

LEMMA GatesStep == TypeInv /\ EvidenceInv /\ GatesInv /\ [Next]_vars => GatesInv'
<1> SUFFICES ASSUME TypeInv, EvidenceInv, GatesInv, [Next]_vars PROVE GatesInv'
  OBVIOUS
<1>1. CASE UNCHANGED <<qualityVars, versionVars>>
  BY <1>1 DEF qualityVars, versionVars, GatesInv, StoreGood, GateCalls, GateCall
<1> QED BY <1>1, GatesManage, GatesDisturbed DEF Next, vars, Untouched

(* A repaired version whose workspace nobody rewrote under the lab or between *)
(* the gates and the registration passes the verifier and all checks of the   *)
(* QA lab, as it was registered, and so does every copy another manager wrote *)
(* back from a list it had loaded.                                            *)
THEOREM RepairsPassedTheGates == Spec => []RepairedPassedGates
<1>1. GatesInv => RepairedPassedGates
  BY DEF GatesInv, StoreGood, EntryGood, RepairedPassedGates, Registered
<1> QED BY <1>1, TypeInit, TypeStep, EvidenceInit, EvidenceStep, GatesInit, GatesStep, PTL DEF Spec

-----------------------------------------------------------------------------
(* What was reported stays registered *)

(* A caller that has added version v and not yet reported it.                 *)
Registering(c, v) ==
    call[c] # None /\ call[c].at \in {"load", "augment", "report"} /\ call[c].version = v

OneRegisters ==
    \A v \in Versions \ lost : \A c, d \in Callers :
        Registering(c, v) /\ Registering(d, v) => c = d

RegisteringKept ==
    \A c \in Callers, v \in Versions \ lost :
        Registering(c, v) =>
            /\ store[v] # None
            /\ call[c].at = "report" => store[v] = call[c].entry

ReportKept ==
    change # None /\ change.entry.version \notin lost =>
        /\ change.entry \in Entries
        /\ store[change.entry.version] = change.entry
        /\ change.entry.link = [feedback |-> change.feedback, source |-> change.source,
                                result |-> change.result, report |-> change.report]
        /\ \A c \in Callers : ~Registering(c, change.entry.version)

ReportInv == OneRegisters /\ RegisteringKept /\ ReportKept

LEMMA ReportInit == Init => ReportInv
BY DEF Init, VersionsInit, ReportInv, OneRegisters, RegisteringKept, ReportKept, Registering

(* A step after which fewer are registering, and what they hold is the same.  *)
LEMMA ReportStable ==
    ASSUME ReportInv, UNCHANGED <<store, lost, change>>,
           \A c \in Callers, v \in Versions : Registering(c, v)' =>
              Registering(c, v) /\ (call'[c].at = "report" =>
                                      call[c].at = "report" /\ call'[c].entry = call[c].entry)
    PROVE  ReportInv'
<1>1. OneRegisters'
  BY DEF ReportInv, OneRegisters
<1>2. RegisteringKept'
  BY DEF ReportInv, RegisteringKept
<1>3. ReportKept'
  BY DEF ReportInv, ReportKept, Entries
<1> QED BY <1>1, <1>2, <1>3 DEF ReportInv

(* One call changes and is not registering after.                             *)
LEMMA ReportOther ==
    ASSUME TypeInv, ReportInv, UNCHANGED <<store, lost, change>>, NEW c \in Callers, NEW k,
           call' = [call EXCEPT ![c] = k],
           k # None => k.at \notin {"load", "augment", "report"}
    PROVE  ReportInv'
<1>1. \A d \in Callers : call'[d] = IF d = c THEN k ELSE call[d]
  BY DEF TypeInv, TypeOK
<1>2. \A d \in Callers, v \in Versions : Registering(d, v)' => d # c /\ Registering(d, v)
  BY <1>1 DEF Registering
<1> QED BY <1>1, <1>2, ReportStable

LEMMA ReportManage ==
    ASSUME TypeInv, ReportInv, NEW c \in Callers, Manage(c) PROVE ReportInv'
<1>0. /\ call \in [Callers -> Calls \cup {None}]
      /\ store \in [Versions -> Entries \cup {None}] /\ lost \subseteq Versions
  BY DEF TypeInv, TypeOK
<1>1. ASSUME Raise(c), UNCHANGED <<store, lost, change>> PROVE ReportInv'
  BY <1>1, ReportOther DEF Raise
<1>2. CASE PlanRepair(c) \/ Register(c)
  <2>1. ASSUME NEW f, NEW source, NEW version, NEW planned, NEW held, NEW at,
               at \in {"record", "preflight"}, NewCall(c, at, f, source, version, planned, held),
               UNCHANGED <<store, lost, change>>
        PROVE  ReportInv'
    BY <2>1, ReportOther DEF NewCall
  <2> QED BY <1>2, <2>1 DEF PlanRepair, Register
<1>3. CASE WriteFeedback(c) \/ WritePlan(c) \/ Preflight(c) \/ ReadVerifierGate(c) \/ ReadQAGate(c)
  <2>1. PICK at \in {"record", "plan", "preflight", "verifier", "qa"} : Busy(c, at)
    BY <1>3 DEF WriteFeedback, WritePlan, Preflight, ReadVerifierGate, ReadQAGate
  <2>2. call[c] \in Calls
    BY <2>1, BusyCall
  <2>3. ASSUME NEW to \in {"plan", "verifier"}, Go(c, to), UNCHANGED <<store, lost, change>>
        PROVE  ReportInv'
    <3>1. call' = [call EXCEPT ![c] = [call[c] EXCEPT !.at = to]]
      BY <2>3, <1>0 DEF Go
    <3>2. [call[c] EXCEPT !.at = to].at = to
      BY <2>2 DEF Calls
    <3> QED BY <2>3, <3>1, <3>2, ReportOther
  <2>4. CASE WritePlan(c)
    <3> DEFINE made == PlanFor(call[c].feedback, call[c].source, call[c].version)
               k == [call[c] EXCEPT !.at = "preflight", !.plan = made]
    <3>1. k.at = "preflight"
      BY <2>2 DEF Calls
    <3>2. call' = [call EXCEPT ![c] = k] \/ Raise(c)
      BY <2>4 DEF WritePlan, Raise
    <3> HIDE DEF k
    <3> QED BY <1>1, <2>4, <3>1, <3>2, ReportOther DEF WritePlan
  <2>5. CASE ReadVerifierGate(c)
    <3> DEFINE k == [call[c] EXCEPT !.at = "qa", !.result = verifier]
    <3>1. k.at = "qa"
      BY <2>2 DEF Calls
    <3>2. call' = [call EXCEPT ![c] = k] \/ Raise(c)
      BY <1>0, <2>5 DEF ReadVerifierGate
    <3> HIDE DEF k
    <3> QED BY <1>1, <2>5, <3>1, <3>2, ReportOther DEF ReadVerifierGate
  <2>6. CASE ReadQAGate(c)
    <3> DEFINE k == [call[c] EXCEPT !.at = "add", !.report = report]
    <3>1. k.at = "add"
      BY <2>2 DEF Calls
    <3>2. call' = [call EXCEPT ![c] = k] \/ Raise(c)
      BY <1>0, <2>6 DEF ReadQAGate
    <3> HIDE DEF k
    <3> QED BY <1>1, <2>6, <3>1, <3>2, ReportOther DEF ReadQAGate
  <2> QED BY <1>1, <1>3, <2>3, <2>4, <2>5, <2>6 DEF WriteFeedback, Preflight
<1>4. CASE AddVerified(c)
  <2> DEFINE new == [version |-> call[c].version, package |-> package,
                     source |-> call[c].source.version, link |-> None, calm |-> call[c].calm]
             k == [call[c] EXCEPT !.at = "load", !.entry = new]
             w == call[c].version
  <2>1. CASE RegistryAdmits /\ Free(w)
    <3>1. call[c] \in Calls /\ call[c].at = "add"
      BY <1>4, BusyCall DEF AddVerified
    <3>2. new \in Entries
      BY <3>1 DEF Calls, Entries, TypeInv, TypeOK, QualityTypeOK
    <3>3. /\ store' = [store EXCEPT ![w] = new] /\ call' = [call EXCEPT ![c] = k]
          /\ UNCHANGED <<lost, change>> /\ store[w] = None /\ w \in Versions
      BY <1>0, <1>4, <2>1, <3>1 DEF AddVerified, Free, Calls
    <3>4. k.at = "load" /\ k.version = w
      BY <3>1 DEF Calls
    <3> HIDE DEF k, new
    <3>5. \A d \in Callers : call'[d] = IF d = c THEN k ELSE call[d]
      BY <1>0, <3>3
    <3>6. w \notin lost => \A d \in Callers : ~Registering(d, w)
      BY <3>3 DEF ReportInv, RegisteringKept
    <3>7. \A d \in Callers, v \in Versions :
            Registering(d, v)' <=> (d # c /\ Registering(d, v)) \/ (d = c /\ v = w /\ k # None)
      BY <3>1, <3>4, <3>5 DEF Registering
    <3>8. OneRegisters'
      BY <3>3, <3>6, <3>7 DEF ReportInv, OneRegisters
    <3>9. RegisteringKept'
      <4> SUFFICES ASSUME NEW d \in Callers, NEW v \in Versions \ lost, Registering(d, v)'
                   PROVE  store'[v] # None /\ (call'[d].at = "report" => store'[v] = call'[d].entry)
        BY <3>3 DEF RegisteringKept
      <4>1. CASE d = c
        BY <1>0, <3>2, <3>3, <3>4, <3>5, <3>7, <4>1, NoneIsNoEntry
      <4>2. CASE d # c
        <5>1. Registering(d, v) /\ v # w /\ call'[d] = call[d]
          BY <3>5, <3>6, <3>7, <4>2
        <5> QED BY <1>0, <3>3, <5>1 DEF ReportInv, RegisteringKept
      <4> QED BY <4>1, <4>2
    <3>10. ReportKept'
      <4> SUFFICES ASSUME change # None, change.entry.version \notin lost
                   PROVE  ReportKept'
        BY <3>3 DEF ReportKept
      <4>1. change.entry \in Entries /\ store[change.entry.version] = change.entry
        BY DEF ReportInv, ReportKept
      <4>2. change.entry.version \in Versions /\ change.entry.version # w
        BY <3>3, <4>1, NoneIsNoEntry DEF Entries
      <4> QED BY <1>0, <3>3, <3>7, <4>1, <4>2 DEF ReportInv, ReportKept
    <3> QED BY <3>8, <3>9, <3>10 DEF ReportInv
  <2> QED BY <1>1, <1>4, <2>1 DEF AddVerified
<1>5. CASE LoadEntries(c)
  <2> DEFINE linked == Linked(call[c])
             k == [call[c] EXCEPT !.at = "augment", !.loaded = store, !.entry = linked]
  <2>1. CASE store[call[c].version] # None
    <3>1. call[c] \in Calls /\ call[c].at = "load" /\ call[c] # None
      BY <1>5, BusyCall DEF LoadEntries, Busy
    <3>2. call' = [call EXCEPT ![c] = k] /\ UNCHANGED <<store, lost, change>>
      BY <1>0, <1>5, <2>1 DEF LoadEntries
    <3>3. k.at = "augment" /\ k.version = call[c].version
      BY <3>1 DEF Calls
    <3> HIDE DEF k
    <3>4. \A d \in Callers : call'[d] = IF d = c THEN k ELSE call[d]
      BY <1>0, <3>2
    <3> QED BY <3>1, <3>2, <3>3, <3>4, ReportStable DEF Registering
  <2> QED BY <1>1, <1>5, <2>1 DEF LoadEntries
<1>6. CASE Augment(c)
  <2> DEFINE k == [call[c] EXCEPT !.at = "report", !.loaded = NotLoaded]
             w == call[c].version
  <2>1. call[c] \in Calls /\ call[c].at = "augment" /\ call[c] # None /\ CallReady(call[c])
    BY <1>6, BusyCall DEF Augment, Busy
  <2>2. /\ w \in Versions /\ call[c].entry \in Entries
        /\ call[c].loaded \in [Versions -> Entries \cup {None}]
    BY <2>1 DEF Calls, CallReady
  <2>3. /\ call' = [call EXCEPT ![c] = k]
        /\ store' = [call[c].loaded EXCEPT ![w] = call[c].entry]
        /\ lost' = lost \cup {v \in Versions \ {w} : store[v] # call[c].loaded[v]}
        /\ UNCHANGED change
    BY <1>0, <1>6 DEF Augment
  <2>4. k.at = "report" /\ k.version = w /\ k.entry = call[c].entry
    BY <2>1 DEF Calls
  <2> HIDE DEF k
  <2>5. \A d \in Callers : call'[d] = IF d = c THEN k ELSE call[d]
    BY <1>0, <2>3
  <2>6. \A d \in Callers, v \in Versions : Registering(d, v)' => Registering(d, v)
    BY <2>1, <2>4, <2>5 DEF Registering
  <2>7. /\ lost \subseteq lost' /\ store'[w] = call[c].entry
        /\ \A v \in Versions \ lost' : v # w => store'[v] = store[v]
    BY <2>2, <2>3
  <2>8. Registering(c, w)
    BY <2>1 DEF Registering
  <2>9. OneRegisters'
    BY <2>6, <2>7 DEF ReportInv, OneRegisters
  <2>10. RegisteringKept'
    <3> SUFFICES ASSUME NEW d \in Callers, NEW v \in Versions \ lost', Registering(d, v)'
                 PROVE  store'[v] # None /\ (call'[d].at = "report" => store'[v] = call'[d].entry)
      BY DEF RegisteringKept
    <3>1. Registering(d, v) /\ v \in Versions \ lost
      BY <2>6, <2>7
    <3>2. CASE v = w
      <4>1. d = c
        BY <2>8, <3>1, <3>2 DEF ReportInv, OneRegisters
      <4> QED BY <2>2, <2>4, <2>5, <2>7, <3>2, <4>1, NoneIsNoEntry
    <3>3. CASE v # w
      <4>1. d # c
        BY <3>1, <3>3 DEF Registering
      <4> QED BY <2>5, <2>7, <3>1, <3>3, <4>1 DEF ReportInv, RegisteringKept
    <3> QED BY <3>2, <3>3
  <2>11. ReportKept'
    <3> SUFFICES ASSUME change # None, change.entry.version \notin lost'
                 PROVE  ReportKept'
      BY <2>3 DEF ReportKept
    <3>1. /\ change.entry \in Entries /\ store[change.entry.version] = change.entry
          /\ \A d \in Callers : ~Registering(d, change.entry.version)
      BY <2>7 DEF ReportInv, ReportKept
    <3>2. change.entry.version \in Versions /\ change.entry.version # w
      BY <2>8, <3>1 DEF Entries
    <3> QED BY <2>3, <2>6, <2>7, <3>1, <3>2 DEF ReportInv, ReportKept
  <2> QED BY <2>9, <2>10, <2>11 DEF ReportInv
<1>7. CASE ReportChange(c)
  <2> SUFFICES ASSUME NEW k, k = call[c], NEW w, w = call[c].version PROVE ReportInv'
    OBVIOUS
  <2>1. k \in Calls /\ k.at = "report" /\ k # None /\ CallReady(k)
    BY <1>7, BusyCall DEF ReportChange, Busy
  <2>2. /\ k.entry \in Entries /\ k.entry.version = w /\ w \in Versions
        /\ k.entry.link = [feedback |-> k.feedback, source |-> k.source.version,
                           result |-> k.result, report |-> k.report]
    BY <2>1 DEF CallReady, Calls
  <2>3. /\ change' = [entry |-> k.entry, source |-> k.source.version, feedback |-> k.feedback,
                      result |-> k.result, report |-> k.report]
        /\ call' = [call EXCEPT ![c] = None] /\ UNCHANGED <<store, lost>>
    BY <1>7 DEF ReportChange, Raise
  <2>4. \A d \in Callers : call'[d] = IF d = c THEN None ELSE call[d]
    BY <1>0, <2>3
  <2>5. \A d \in Callers, v \in Versions : Registering(d, v)' => d # c /\ Registering(d, v)
    BY <2>4 DEF Registering
  <2>6. Registering(c, w)
    BY <2>1 DEF Registering
  <2>7. OneRegisters' /\ RegisteringKept'
    BY <2>3, <2>4, <2>5 DEF ReportInv, OneRegisters, RegisteringKept
  <2>8. ReportKept'
    <3> SUFFICES ASSUME w \notin lost PROVE ReportKept'
      BY <2>2, <2>3 DEF ReportKept
    <3>1. store[w] = k.entry
      BY <2>1, <2>2, <2>6 DEF ReportInv, RegisteringKept
    <3>2. \A d \in Callers : ~Registering(d, w)'
      BY <2>2, <2>5, <2>6 DEF ReportInv, OneRegisters
    <3>3. change'.entry = k.entry /\ change'.entry.version = w
      BY <2>2, <2>3
    <3> QED BY <2>2, <2>3, <3>1, <3>2, <3>3 DEF ReportKept
  <2> QED BY <2>7, <2>8 DEF ReportInv
<1>8. CASE Kill(c)
  BY <1>1, <1>8 DEF Kill
<1> QED BY <1>2, <1>3, <1>4, <1>5, <1>6, <1>7, <1>8 DEF Manage

LEMMA ReportStep == TypeInv /\ ReportInv /\ [Next]_vars => ReportInv'
<1> SUFFICES ASSUME TypeInv, ReportInv, [Next]_vars PROVE ReportInv'
  OBVIOUS
<1>1. CASE UNCHANGED versionVars
  BY <1>1, ReportStable DEF versionVars, Registering
<1>2. CASE Disturb /\ Untouched
  <2>1. ASSUME NEW c \in Callers, NEW v \in Versions, Registering(c, v)'
        PROVE  /\ Registering(c, v)
               /\ call'[c].at = "report" => call[c].at = "report" /\ call'[c].entry = call[c].entry
    <3>1. CASE call'[c] = call[c]
      BY <2>1, <3>1 DEF Registering
    <3>2. CASE call[c] # None /\ call'[c] = [call[c] EXCEPT !.calm = FALSE]
      <4>1. call[c] \in Calls
        BY <3>2 DEF TypeInv, TypeOK
      <4> QED BY <2>1, <3>2, <4>1 DEF Registering, Calls
    <3> QED BY <1>2, <3>1, <3>2 DEF Disturb
  <2> QED BY <1>2, <2>1, ReportStable DEF Untouched
<1> QED BY <1>1, <1>2, ReportManage DEF Next, vars

(* A version change report on file speaks of an entry that is in the registry *)
(* with the package, the feedback and the gates the report names, unless a    *)
(* list another manager had loaded before was written over it.                *)
THEOREM ReportsAreRegistered == Spec => []ReportedIsRegistered
<1>1. ReportInv => ReportedIsRegistered
  BY NoneIsNoEntry DEF ReportInv, ReportKept, ReportedIsRegistered
<1> QED BY <1>1, TypeInit, TypeStep, ReportInit, ReportStep, PTL DEF Spec

-----------------------------------------------------------------------------
(* The descent of the versions *)

(* Until an entry is lost, a registered version names a registered one as its *)
(* source, no set of versions is closed under "source of", and a link names   *)
(* the version its feedback complained of.                                    *)
Sourced ==
    \A v \in Registered :
        store[v].version = v /\ store[v].source \in Registered \cup {None}

Rooted == \A S \in SUBSET Registered : S # {} => \E v \in S : store[v].source \notin S

LinksAgree ==
    \A v \in Registered :
        store[v].link # None => AboutOf[store[v].link.feedback] = store[v].source

(* What a call holds of the version it repairs, and of the entry it added.    *)
Descends(k) ==
    /\ k.source.version \in Registered
    /\ k.at \in {"verifier", "qa", "add", "load", "augment", "report"} =>
          AboutOf[k.feedback] = k.source.version
    /\ k.at \in {"load", "augment", "report"} =>
          k.entry.source = k.source.version /\ store[k.version].source = k.source.version

CallsDescend == \A c \in Callers : call[c] # None => Descends(call[c])

Lineage == Sourced /\ Rooted /\ LinksAgree /\ CallsDescend

LineageInv == lost = {} => Lineage

LEMMA LineageInit == Init => LineageInv
<1> SUFFICES ASSUME Init PROVE Lineage
  BY DEF LineageInv
<1>1. /\ store = [v \in Versions |->
            IF v = Original
            THEN [version |-> v, package |-> Built, source |-> None, link |-> None, calm |-> TRUE]
            ELSE None]
      /\ call = [c \in Callers |-> None]
  BY DEF Init, VersionsInit
<1>2. \A v \in Registered : v = Original /\ store[v].version = v /\ store[v].source = None
                            /\ store[v].link = None
  BY <1>1 DEF Registered
<1>3. Rooted
  BY <1>2, VersionsAssumption DEF Rooted, Registered
<1> QED BY <1>1, <1>2, <1>3 DEF Lineage, Sourced, LinksAgree, CallsDescend

(* A step of one call that leaves the registry alone.                         *)
LEMMA LineageCall ==
    ASSUME TypeInv, Lineage, UNCHANGED store, NEW c \in Callers, NEW k,
           call' = [call EXCEPT ![c] = k], k # None => Descends(k)
    PROVE  Lineage'
<1>1. Registered' = Registered
  BY DEF Registered
<1>2. \A d \in Callers : call'[d] = IF d = c THEN k ELSE call[d]
  BY DEF TypeInv, TypeOK
<1>3. CallsDescend'
  BY <1>1, <1>2 DEF Lineage, CallsDescend, Descends
<1> QED BY <1>1, <1>3 DEF Lineage, Sourced, Rooted, LinksAgree

(* A version that was free descends from one that was registered.             *)
LEMMA RootedGrows ==
    ASSUME store \in [Versions -> Entries \cup {None}], Sourced, Rooted,
           NEW w \in Versions, store[w] = None, NEW new \in Entries, new.source \in Registered,
           store' = [store EXCEPT ![w] = new]
    PROVE  Rooted'
<1>1. /\ Registered' = Registered \cup {w} /\ w \notin Registered
      /\ \A v \in Registered : store'[v] = store[v]
      /\ store'[w] = new
  BY NoneIsNoEntry DEF Registered
<1>2. w # None
  BY VersionsAssumption
<1> SUFFICES ASSUME NEW S \in SUBSET (Registered \cup {w}), S # {}
             PROVE  \E v \in S : store'[v].source \notin S
  BY <1>1 DEF Rooted
<1>3. CASE S \ {w} = {}
  <2>1. S = {w} /\ new.source # w
    BY <1>1, <1>3
  <2> QED BY <1>1, <2>1
<1>4. CASE S \ {w} # {}
  <2>1. PICK v \in S \ {w} : store[v].source \notin S \ {w}
    BY <1>4 DEF Rooted
  <2>2. v \in Registered /\ store[v].source # w
    BY <1>1, <1>2 DEF Sourced
  <2> QED BY <1>1, <2>1, <2>2
<1> QED BY <1>3, <1>4

(* The steps of a call before it has registered anything.                     *)
LEMMA LineagePlan ==
    ASSUME TypeInv, Lineage, NEW c \in Callers,
           PlanRepair(c) \/ WriteFeedback(c) \/ WritePlan(c) \/ Register(c)
           \/ Preflight(c) \/ ReadVerifierGate(c) \/ ReadQAGate(c)
    PROVE  Lineage'
<1>0. call \in [Callers -> Calls \cup {None}]
  BY DEF TypeInv, TypeOK
<1>1. ASSUME Raise(c), UNCHANGED store PROVE Lineage'
  BY <1>1, LineageCall DEF Raise
<1>2. CASE PlanRepair(c) \/ Register(c)
  <2>1. ASSUME NEW f, NEW source \in OnFile, NEW version, NEW planned, NEW held, NEW at,
               at \in {"record", "preflight"}, NewCall(c, at, f, source, version, planned, held),
               UNCHANGED store
        PROVE  Lineage'
    <3> DEFINE k == [at |-> at, feedback |-> f, source |-> source, version |-> version,
                     planned |-> planned, plan |-> held, result |-> None, report |-> None,
                     entry |-> None, calm |-> TRUE, loaded |-> NotLoaded]
    <3>1. source.version \in Registered
      BY DEF OnFile, Lineage, Sourced
    <3>2. Descends(k)
      BY <2>1, <3>1 DEF Descends
    <3>3. call' = [call EXCEPT ![c] = k]
      BY <2>1 DEF NewCall
    <3> HIDE DEF k
    <3> QED BY <2>1, <3>2, <3>3, LineageCall
  <2> QED BY <1>2, <2>1 DEF PlanRepair, Register
<1>3. CASE WriteFeedback(c) \/ WritePlan(c) \/ Preflight(c) \/ ReadVerifierGate(c) \/ ReadQAGate(c)
  <2>1. PICK at \in {"record", "plan", "preflight", "verifier", "qa"} : Busy(c, at)
    BY <1>3 DEF WriteFeedback, WritePlan, Preflight, ReadVerifierGate, ReadQAGate
  <2>2. call[c] \in Calls /\ Descends(call[c]) /\ call[c].at = at
    BY <2>1, BusyCall DEF Busy, Lineage, CallsDescend
  <2>3. CASE WriteFeedback(c)
    <3> DEFINE k == [call[c] EXCEPT !.at = "plan"]
    <3>1. Descends(k)
      BY <2>2 DEF Calls, Descends
    <3>2. call' = [call EXCEPT ![c] = k] /\ UNCHANGED store
      BY <1>0, <2>3 DEF WriteFeedback, Go
    <3> HIDE DEF k
    <3> QED BY <3>1, <3>2, LineageCall
  <2>4. CASE WritePlan(c)
    <3> DEFINE made == PlanFor(call[c].feedback, call[c].source, call[c].version)
               k == [call[c] EXCEPT !.at = "preflight", !.plan = made]
    <3>1. Descends(k)
      BY <2>2 DEF Calls, Descends
    <3>2. call' = [call EXCEPT ![c] = k] \/ Raise(c)
      BY <2>4 DEF WritePlan, Raise
    <3> HIDE DEF k
    <3> QED BY <1>1, <2>4, <3>1, <3>2, LineageCall DEF WritePlan
  <2>5. CASE Preflight(c)
    <3> DEFINE k == [call[c] EXCEPT !.at = "verifier"]
    <3>1. CASE PlanAgrees(call[c]) /\ Go(c, "verifier")
      <4>1. Descends(k)
        BY <2>2, <3>1 DEF Calls, Descends, PlanAgrees, Matches
      <4>2. call' = [call EXCEPT ![c] = k]
        BY <1>0, <3>1 DEF Go
      <4> HIDE DEF k
      <4> QED BY <2>5, <4>1, <4>2, LineageCall DEF Preflight
    <3> QED BY <1>1, <2>5, <3>1 DEF Preflight
  <2>6. CASE ReadVerifierGate(c)
    <3> DEFINE k == [call[c] EXCEPT !.at = "qa", !.result = verifier]
    <3>1. call[c].at = "verifier"
      BY <2>6, BusyCall DEF ReadVerifierGate
    <3>2. Descends(k)
      BY <2>2, <3>1 DEF Calls, Descends
    <3>3. call' = [call EXCEPT ![c] = k] \/ Raise(c)
      BY <1>0, <2>6 DEF ReadVerifierGate
    <3> HIDE DEF k
    <3> QED BY <1>1, <2>6, <3>2, <3>3, LineageCall DEF ReadVerifierGate
  <2>7. CASE ReadQAGate(c)
    <3> DEFINE k == [call[c] EXCEPT !.at = "add", !.report = report]
    <3>1. call[c].at = "qa"
      BY <2>7, BusyCall DEF ReadQAGate
    <3>2. Descends(k)
      BY <2>2, <3>1 DEF Calls, Descends
    <3>3. call' = [call EXCEPT ![c] = k] \/ Raise(c)
      BY <1>0, <2>7 DEF ReadQAGate
    <3> HIDE DEF k
    <3> QED BY <1>1, <2>7, <3>2, <3>3, LineageCall DEF ReadQAGate
  <2> QED BY <1>3, <2>3, <2>4, <2>5, <2>6, <2>7
<1> QED BY <1>2, <1>3

LEMMA LineageAdd ==
    ASSUME TypeInv, ReportInv, lost = {}, Lineage, NEW c \in Callers, AddVerified(c)
    PROVE  Lineage'
<1>0. /\ call \in [Callers -> Calls \cup {None}] /\ package \in Packages
      /\ store \in [Versions -> Entries \cup {None}]
  BY DEF TypeInv, TypeOK, QualityTypeOK
<1> DEFINE w == call[c].version
           new == [version |-> call[c].version, package |-> package,
                   source |-> call[c].source.version, link |-> None, calm |-> call[c].calm]
           k == [call[c] EXCEPT !.at = "load", !.entry = new]
<1>1. CASE RegistryAdmits /\ Free(w)
  <2>1. call[c] \in Calls /\ call[c].at = "add" /\ Descends(call[c])
    BY <1>1, BusyCall DEF AddVerified, Busy, Lineage, CallsDescend
  <2>2. /\ w \in Versions /\ store[w] = None
        /\ store' = [store EXCEPT ![w] = new] /\ call' = [call EXCEPT ![c] = k]
    BY <1>0, <1>1, <2>1 DEF AddVerified, Free, Calls
  <2>3. /\ new \in Entries /\ new.version = w /\ new.link = None
        /\ new.source = call[c].source.version
    BY <1>0, <2>1 DEF Calls, Entries
  <2>4. /\ k.at = "load" /\ k.version = w /\ k.source = call[c].source
        /\ k.feedback = call[c].feedback /\ k.entry = new
    BY <2>1 DEF Calls
  <2> HIDE DEF new, k, w
  <2>5. /\ Registered' = Registered \cup {w} /\ w \notin Registered
        /\ \A v \in Registered : store'[v] = store[v]
        /\ store'[w] = new
    BY <1>0, <2>2, <2>3, NoneIsNoEntry DEF Registered
  <2>6. new.source \in Registered
    BY <2>1, <2>3 DEF Descends
  <2>7. Rooted'
    BY <1>0, <2>2, <2>3, <2>6, RootedGrows DEF Lineage
  <2>8. Sourced' /\ LinksAgree'
    BY <2>3, <2>5, <2>6 DEF Lineage, Sourced, LinksAgree
  <2>9. CallsDescend'
    <3> SUFFICES ASSUME NEW d \in Callers, call'[d] # None
                 PROVE  Descends(call[d])'
      BY DEF CallsDescend
    <3>1. CASE d = c
      <4>1. call'[d] = k
        BY <1>0, <2>2, <3>1
      <4> QED BY <2>1, <2>3, <2>4, <2>5, <4>1 DEF Descends
    <3>2. CASE d # c
      <4>1. call'[d] = call[d] /\ call[d] # None /\ Descends(call[d]) /\ call[d] \in Calls
        BY <1>0, <2>2, <3>2 DEF Lineage, CallsDescend
      <4>2. call[d].version # w \/ call[d].at \notin {"load", "augment", "report"}
        BY <2>2, <4>1 DEF ReportInv, RegisteringKept, Registering
      <4> QED BY <2>2, <2>5, <4>1, <4>2 DEF Descends, Calls
    <3> QED BY <3>1, <3>2
  <2> QED BY <2>7, <2>8, <2>9 DEF Lineage
<1>2. CASE Raise(c) /\ UNCHANGED store
  BY <1>2, LineageCall DEF Raise
<1> QED BY <1>1, <1>2 DEF AddVerified

(* The entry loaded or written back is the one the call has added.            *)
LEMMA LineageLink ==
    ASSUME TypeInv, ReportInv, lost = {}, lost' = {}, Lineage, NEW c \in Callers,
           LoadEntries(c) \/ Augment(c)
    PROVE  Lineage'
<1>0. /\ call \in [Callers -> Calls \cup {None}]
      /\ store \in [Versions -> Entries \cup {None}]
  BY DEF TypeInv, TypeOK
<1>1. CASE LoadEntries(c)
  <2> DEFINE linked == Linked(call[c])
             k == [call[c] EXCEPT !.at = "augment", !.loaded = store, !.entry = linked]
  <2>1. /\ call[c] \in Calls /\ call[c].at = "load" /\ CallReady(call[c])
        /\ Descends(call[c])
    BY <1>1, BusyCall DEF LoadEntries, Busy, Lineage, CallsDescend
  <2>2. linked.source = call[c].entry.source
    BY <2>1 DEF Linked, CallReady, Entries
  <2> HIDE DEF linked
  <2>3. Descends(k)
    BY <2>1, <2>2 DEF Calls, Descends
  <2>4. (call' = [call EXCEPT ![c] = k] \/ Raise(c)) /\ UNCHANGED store
    BY <1>0, <1>1 DEF LoadEntries, linked
  <2> HIDE DEF k
  <2> QED BY <2>3, <2>4, LineageCall DEF Raise
<1>2. CASE Augment(c)
  <2> DEFINE k == [call[c] EXCEPT !.at = "report", !.loaded = NotLoaded]
             w == call[c].version
             e == call[c].entry
  <2>1. /\ call[c] \in Calls /\ call[c] # None /\ call[c].at = "augment" /\ CallReady(call[c])
        /\ Descends(call[c])
    BY <1>2, BusyCall DEF Augment, Busy, Lineage, CallsDescend
  <2>2. /\ w \in Versions /\ e \in Entries /\ e.version = w
        /\ e.link.feedback = call[c].feedback
        /\ e.source = call[c].source.version /\ store[w].source = call[c].source.version
        /\ AboutOf[call[c].feedback] = call[c].source.version
        /\ call[c].loaded \in [Versions -> Entries \cup {None}]
    BY <2>1 DEF CallReady, Calls, Descends
  <2>3. store[w] # None
    BY <2>1, <2>2 DEF ReportInv, RegisteringKept, Registering
  <2>4. /\ call' = [call EXCEPT ![c] = k]
        /\ store' = [call[c].loaded EXCEPT ![w] = e]
        /\ {v \in Versions \ {w} : store[v] # call[c].loaded[v]} = {}
    BY <1>0, <1>2 DEF Augment
  <2>5. k.version = w /\ k.source = call[c].source /\ k.feedback = call[c].feedback /\ k.entry = e
    BY <2>1 DEF Calls
  <2> HIDE DEF e, k, w
  <2>6. /\ store'[w] = e /\ w \in Registered
        /\ \A v \in Versions \ {w} : store'[v] = store[v]
    BY <2>2, <2>3, <2>4 DEF Registered
  <2>7. Registered' = Registered /\ \A v \in Registered : store'[v].source = store[v].source
    BY <2>2, <2>6, NoneIsNoEntry DEF Registered
  <2>8. Rooted'
    BY <2>7 DEF Lineage, Rooted
  <2>9. Sourced' /\ LinksAgree'
    BY <2>2, <2>6, <2>7 DEF Lineage, Sourced, LinksAgree, Registered
  <2>10. CallsDescend'
    <3> SUFFICES ASSUME NEW d \in Callers, call'[d] # None
                 PROVE  Descends(call[d])'
      BY DEF CallsDescend
    <3>1. CASE d = c
      <4>1. call'[d] = k
        BY <1>0, <2>4, <3>1
      <4> QED BY <2>1, <2>2, <2>5, <2>6, <2>7, <4>1 DEF Descends
    <3>2. CASE d # c
      <4>1. call'[d] = call[d] /\ Descends(call[d]) /\ call[d] \in Calls
        BY <1>0, <2>4, <3>2 DEF Lineage, CallsDescend
      <4> QED BY <2>2, <2>6, <2>7, <4>1 DEF Descends, Calls
    <3> QED BY <3>1, <3>2
  <2> QED BY <2>8, <2>9, <2>10 DEF Lineage
<1> QED BY <1>1, <1>2

LEMMA LineageStep == TypeInv /\ ReportInv /\ LineageInv /\ [Next]_vars => LineageInv'
<1> SUFFICES ASSUME TypeInv, ReportInv, LineageInv, [Next]_vars, lost' = {} PROVE Lineage'
  BY DEF LineageInv
<1>1. CASE UNCHANGED versionVars
  BY <1>1 DEF versionVars, LineageInv, Lineage, Sourced, Rooted, LinksAgree, CallsDescend,
              Descends, Registered
<1>2. CASE Disturb /\ Untouched
  <2>1. Lineage /\ UNCHANGED store /\ Registered' = Registered
    BY <1>2 DEF Untouched, LineageInv, Registered
  <2>2. ASSUME NEW c \in Callers, call'[c] # None PROVE Descends(call[c])'
    <3>1. CASE call'[c] = call[c]
      BY <2>1, <2>2, <3>1 DEF Lineage, CallsDescend, Descends
    <3>2. CASE call[c] # None /\ call'[c] = [call[c] EXCEPT !.calm = FALSE]
      <4>1. call[c] \in Calls /\ Descends(call[c])
        BY <2>1, <3>2 DEF TypeInv, TypeOK, Lineage, CallsDescend
      <4> QED BY <2>1, <3>2, <4>1 DEF Descends, Calls
    <3> QED BY <1>2, <3>1, <3>2 DEF Disturb
  <2> QED BY <2>1, <2>2 DEF Lineage, Sourced, Rooted, LinksAgree, CallsDescend
<1>3. ASSUME NEW c \in Callers, Manage(c) PROVE Lineage'
  <2>1. CASE Augment(c)
    <3>1. lost = {}
      BY <2>1 DEF Augment
    <3> QED BY <2>1, <3>1, LineageLink DEF LineageInv
  <2>2. CASE ~Augment(c)
    <3>1. lost = {}
      BY <1>3, <2>2 DEF Manage, PlanRepair, WriteFeedback, WritePlan, Register, Preflight,
           ReadVerifierGate, ReadQAGate, AddVerified, LoadEntries, ReportChange, Kill
    <3>2. CASE ReportChange(c) \/ Kill(c)
      BY <3>1, <3>2, LineageCall DEF ReportChange, Kill, Raise, LineageInv
    <3> QED BY <1>3, <2>2, <3>1, <3>2, LineagePlan, LineageAdd, LineageLink DEF Manage, LineageInv
  <2> QED BY <2>1, <2>2
<1> QED BY <1>1, <1>2, <1>3 DEF Next, vars

(* Every non-empty set of natural numbers has a least element: the induction  *)
(* on numbers that the steps from a version to its sources need.              *)
LEMMA LeastNumber ==
    ASSUME NEW T, T \subseteq Nat, T # {}
    PROVE  \E n \in T : \A m \in T : n <= m
<1> DEFINE R == OpToRel(<, Nat)
<1>1. PICK n \in T : \A m \in T : ~ (<<m, n>> \in R)
  BY NatLessThanWellFounded, WFMin
<1>2. \A m \in T : <<m, n>> \in R <=> m < n
  BY DEF OpToRel
<1> HIDE DEF R
<1>3. \A m \in T : m \in Nat /\ n \in Nat /\ ~(m < n)
  BY <1>1, <1>2
<1> QED BY <1>3

(* h follows the sources from version v for m steps.                          *)
After(u) == IF u = None THEN None ELSE store[u].source

Follows(h, v, m) == h = [n \in 0..m |-> IF n = 0 THEN v ELSE After(h[n - 1])]

LEMMA FollowsExists ==
    ASSUME NEW v, NEW m \in Nat PROVE \E h : Follows(h, v, m)
<1> DEFINE T == {i \in Nat : ~ \E h : Follows(h, v, i)}
<1> SUFFICES ASSUME T # {} PROVE FALSE
  OBVIOUS
<1>1. PICK i \in T : \A j \in T : i <= j
  BY LeastNumber
<1>2. CASE i = 0
  <2> DEFINE h == [n \in 0..0 |-> v]
  <2>1. \A n \in 0..0 : n = 0
    OBVIOUS
  <2>2. h = [n \in 0..0 |-> IF n = 0 THEN v ELSE After(h[n - 1])]
    BY <2>1
  <2>3. Follows(h, v, 0)
    BY <2>2 DEF Follows
  <2> QED BY <1>2, <2>3
<1>3. CASE i # 0
  <2>1. i \in Nat /\ i - 1 \in Nat /\ i - 1 \notin T
    BY <1>1, <1>3
  <2>2. PICK h : Follows(h, v, i - 1)
    BY <2>1
  <2>3. \A n \in 0..(i - 1) : h[n] = IF n = 0 THEN v ELSE After(h[n - 1])
    BY <2>2 DEF Follows
  <2> DEFINE g == [n \in 0..i |-> IF n = i THEN After(h[i - 1]) ELSE h[n]]
  <2>4. ASSUME NEW n \in 0..i PROVE g[n] = IF n = 0 THEN v ELSE After(g[n - 1])
    <3>1. CASE n = i
      <4>1. g[i] = After(h[i - 1]) /\ g[i - 1] = h[i - 1]
        BY <1>3, <2>1
      <4> QED BY <1>3, <3>1, <4>1
    <3>2. CASE n # i
      <4>1. n \in 0..(i - 1) /\ g[n] = h[n]
        BY <2>1, <3>2
      <4>2. n # 0 => g[n - 1] = h[n - 1]
        BY <2>1, <3>2
      <4> QED BY <2>3, <4>1, <4>2
    <3> QED BY <3>1, <3>2
  <2>5. g = [n \in 0..i |-> IF n = 0 THEN v ELSE After(g[n - 1])]
    <3>1. g = [n \in 0..i |-> g[n]]
      OBVIOUS
    <3> HIDE DEF g
    <3> QED BY <2>4, <3>1
  <2>6. Follows(g, v, i)
    BY <2>5 DEF Follows
  <2> HIDE DEF g
  <2> QED BY <1>1, <2>6
<1> QED BY <1>2, <1>3

LEMMA AncestorsAre ==
    ASSUME NEW v, Cardinality(Versions) \in Nat
    PROVE  \E h : /\ Follows(h, v, Cardinality(Versions))
                  /\ Ancestors(v) = {h[n] : n \in 0..Cardinality(Versions)}
<1> DEFINE step[n \in 0..Cardinality(Versions)] ==
             IF n = 0 THEN v
             ELSE IF step[n - 1] = None THEN None ELSE store[step[n - 1]].source
<1>1. \E h : h = [n \in 0..Cardinality(Versions) |->
                   IF n = 0 THEN v
                   ELSE IF h[n - 1] = None THEN None ELSE store[h[n - 1]].source]
  <2>1. PICK h : Follows(h, v, Cardinality(Versions))
    BY FollowsExists
  <2>2. h = [n \in 0..Cardinality(Versions) |->
               IF n = 0 THEN v
               ELSE IF h[n - 1] = None THEN None ELSE store[h[n - 1]].source]
    BY <2>1 DEF Follows, After
  <2> QED BY <2>2
<1>2. step = [n \in 0..Cardinality(Versions) |->
                IF n = 0 THEN v
                ELSE IF step[n - 1] = None THEN None ELSE store[step[n - 1]].source]
  BY <1>1
<1>3. Ancestors(v) = {step[n] : n \in DOMAIN step}
  BY Zenon DEF Ancestors
<1> HIDE DEF step
<1>4. DOMAIN step = 0..Cardinality(Versions)
  BY <1>2
<1>5. Follows(step, v, Cardinality(Versions))
  BY <1>2 DEF Follows, After
<1> QED BY <1>3, <1>4, <1>5

(* Versions that each name a registered source, none of them in a circle,     *)
(* lead back to the one without a source.                                     *)
LEMMA LeadsBack ==
    ASSUME IsFiniteSet(Versions), Sourced, Rooted, NEW v \in Registered
    PROVE  None \in Ancestors(v)
<1> DEFINE N == Cardinality(Versions)
<1>0. N \in Nat
  BY FS_CardinalityType
<1>1. PICK h : Follows(h, v, N) /\ Ancestors(v) = {h[n] : n \in 0..N}
  BY <1>0, AncestorsAre
<1> HIDE DEF N
<1>2. h[0] = v /\ DOMAIN h = 0..N /\ h = [n \in 0..N |-> h[n]]
  BY <1>0, <1>1 DEF Follows
<1>3. \A n \in 0..N : n # 0 => h[n] = After(h[n - 1])
  BY <1>0, <1>1 DEF Follows
<1> SUFFICES ASSUME \A n \in 0..N : h[n] # None PROVE FALSE
  BY <1>1
<1>4. \A n \in 0..N : h[n] \in Registered
  <2> DEFINE T == {n \in 0..N : h[n] \notin Registered}
  <2> SUFFICES ASSUME T # {} PROVE FALSE
    OBVIOUS
  <2>0. T \subseteq Nat
    BY <1>0
  <2>1. PICK n \in T : \A m \in T : n <= m
    <3> HIDE DEF T
    <3> QED BY <2>0, LeastNumber
  <2>2. n \in 0..N /\ n # 0
    BY <1>2, <2>1
  <2>3. n - 1 \in 0..N /\ h[n - 1] \in Registered
    BY <1>0, <2>1, <2>2
  <2>4. h[n] = store[h[n - 1]].source
    BY <1>3, <2>2, <2>3 DEF After
  <2> QED BY <2>1, <2>2, <2>3, <2>4 DEF Sourced
<1>5. PICK i \in 0..N, j \in 0..N : i < j /\ h[i] = h[j]
  <2>1. IsFiniteSet(0..N) /\ Cardinality(0..N) = N + 1
    BY <1>0, FS_Interval
  <2>2. h \in [0..N -> Versions]
    BY <1>2, <1>4 DEF Registered
  <2>3. N < N + 1 /\ Cardinality(Versions) = N
    BY <1>0 DEF N
  <2>4. PICK x \in 0..N, y \in 0..N : x # y /\ h[x] = h[y]
    <3>1. Cardinality(Versions) < Cardinality(0..N)
      BY <2>1, <2>3
    <3> DEFINE D == 0..N
    <3> HIDE DEF D
    <3>2. /\ IsFiniteSet(D) /\ Cardinality(Versions) < Cardinality(D) /\ h \in [D -> Versions]
      BY <2>1, <2>2, <3>1 DEF D
    <3>3. \E x, y \in D : x # y /\ h[x] = h[y]
      BY <3>2, FS_PigeonHole
    <3> QED BY <3>3 DEF D
  <2>5. x < y \/ y < x
    BY <1>0, <2>4
  <2> QED BY <2>4, <2>5
<1> DEFINE S == {h[n] : n \in i..(j - 1)}
<1>6. S \subseteq Registered /\ h[i] \in S
  BY <1>0, <1>4, <1>5
<1>7. PICK u \in S : store[u].source \notin S
  BY <1>6 DEF Rooted
<1>8. PICK n \in i..(j - 1) : u = h[n]
  BY <1>7
<1>9. n + 1 \in 0..N /\ n \in 0..N /\ n + 1 # 0 /\ (n + 1) - 1 = n
  BY <1>0, <1>5, <1>8
<1>10. h[n + 1] = store[u].source
  BY <1>3, <1>8, <1>9 DEF After
<1>11. n + 1 = j \/ n + 1 \in i..(j - 1)
  BY <1>0, <1>5, <1>8
<1> QED BY <1>5, <1>6, <1>7, <1>10, <1>11

(* Until an entry is lost, every registered version descends from the one     *)
(* built without a feedback, in as many steps as there are versions at most,  *)
(* and a link names the version its feedback complained of, for any number of *)
(* managers that plan, register and are killed between any two steps.         *)
THEOREM LineagesAreSound ==
    ASSUME IsFiniteSet(Versions) PROVE Spec => []LineageIsSound
<1>1. TypeInv /\ LineageInv => LineageIsSound
  <2> SUFFICES ASSUME TypeInv, Lineage, NEW v \in Registered
               PROVE  /\ None \in Ancestors(v)
                      /\ store[v].link # None =>
                            /\ AboutOf[store[v].link.feedback] = store[v].source
                            /\ store[v].source \in Registered
    BY DEF LineageInv, LineageIsSound
  <2>1. None \in Ancestors(v)
    BY LeadsBack DEF Lineage
  <2>2. ASSUME store[v].link # None
        PROVE  /\ AboutOf[store[v].link.feedback] = store[v].source
               /\ store[v].source \in Registered
    <3>1. store[v] \in Entries
      BY DEF TypeInv, TypeOK, Registered
    <3>2. AboutOf[store[v].link.feedback] \in Versions
      BY <2>2, <3>1, VersionsAssumption DEF Entries, Links
    <3> QED BY <2>2, <3>2, VersionsAssumption DEF Lineage, Sourced, LinksAgree
  <2> QED BY <2>1, <2>2
<1> QED BY <1>1, TypeInit, TypeStep, ReportInit, ReportStep, LineageInit, LineageStep, PTL DEF Spec

-----------------------------------------------------------------------------
(* What the managers do to the entries on file *)

(* An entry a call has added and not yet linked is on file as it was added.    *)
AddedIsOnFile ==
    \A c \in Callers, v \in Versions \ lost :
        Registering(c, v) /\ call[c].at \in {"load", "augment"} =>
            store[v] = [call[c].entry EXCEPT !.link = None]

(* An entry on file stays as it is but for one thing: it is linked to its      *)
(* feedback, once; the exception are the entries an older list is written over.*)
EntriesStay ==
    [][\A v \in Registered \ lost' :
          \/ store'[v] = store[v]
          \/ /\ store[v].link = None /\ store'[v] # None
             /\ store'[v] = [store[v] EXCEPT !.link = store'[v].link]]_vars

LEMMA AddedInit == Init => AddedIsOnFile
BY DEF Init, VersionsInit, AddedIsOnFile, Registering

(* A step that changes no entry and adds none.                                 *)
LEMMA AddedStable ==
    ASSUME AddedIsOnFile, UNCHANGED <<store, lost>>,
           \A c \in Callers, v \in Versions : Registering(c, v)' /\ call'[c].at # "report" =>
              /\ Registering(c, v) /\ call[c].at # "report"
              /\ [call'[c].entry EXCEPT !.link = None] = [call[c].entry EXCEPT !.link = None]
    PROVE  AddedIsOnFile'
<1> SUFFICES ASSUME NEW c \in Callers, NEW v \in Versions \ lost,
                    Registering(c, v)', call'[c].at \in {"load", "augment"}
             PROVE  store[v] = [call'[c].entry EXCEPT !.link = None]
  BY DEF AddedIsOnFile
<1>1. /\ Registering(c, v) /\ call[c].at # "report"
      /\ [call'[c].entry EXCEPT !.link = None] = [call[c].entry EXCEPT !.link = None]
  OBVIOUS
<1> QED BY <1>1 DEF AddedIsOnFile, Registering

(* What each step of a manager does to the entries, and to what it has added.  *)
OnlyLinked(v) ==
    \/ store'[v] = store[v]
    \/ /\ store[v].link = None /\ store'[v] # None
       /\ store'[v] = [store[v] EXCEPT !.link = store'[v].link]

LEMMA AddedAdd ==
    ASSUME TypeInv, ReportInv, AddedIsOnFile, NEW c \in Callers, AddVerified(c)
    PROVE  AddedIsOnFile' /\ \A v \in Registered : OnlyLinked(v)
<1>0. /\ call \in [Callers -> Calls \cup {None}] /\ package \in Packages
      /\ store \in [Versions -> Entries \cup {None}]
  BY DEF TypeInv, TypeOK, QualityTypeOK
<1> DEFINE w == call[c].version
           new == [version |-> call[c].version, package |-> package,
                   source |-> call[c].source.version, link |-> None, calm |-> call[c].calm]
           k == [call[c] EXCEPT !.at = "load", !.entry = new]
<1>1. CASE RegistryAdmits /\ Free(w)
  <2>1. call[c] \in Calls /\ call[c].at = "add"
    BY <1>1, BusyCall DEF AddVerified
  <2>2. /\ w \in Versions /\ store[w] = None /\ UNCHANGED lost
        /\ store' = [store EXCEPT ![w] = new] /\ call' = [call EXCEPT ![c] = k]
    BY <1>0, <1>1, <2>1 DEF AddVerified, Free, Calls
  <2>3. new = [new EXCEPT !.link = None] /\ k.version = w /\ k.entry = new
    BY <2>1 DEF Calls
  <2> HIDE DEF new, k, w
  <2>4. /\ \A d \in Callers : call'[d] = IF d = c THEN k ELSE call[d]
        /\ \A v \in Versions : store'[v] = IF v = w THEN new ELSE store[v]
    BY <1>0, <2>2
  <2>5. ASSUME NEW d \in Callers, NEW v \in Versions \ lost, Registering(d, v)',
               call'[d].at \in {"load", "augment"}
        PROVE  store'[v] = [call'[d].entry EXCEPT !.link = None]
    <3>1. CASE d = c
      <4>1. v = w
        BY <2>3, <2>4, <2>5, <3>1 DEF Registering
      <4> QED BY <2>3, <2>4, <3>1, <4>1
    <3>2. CASE d # c
      <4>1. Registering(d, v) /\ call'[d] = call[d]
        BY <2>4, <2>5, <3>2 DEF Registering
      <4>2. store[v] # None /\ v # w
        BY <2>2, <4>1 DEF ReportInv, RegisteringKept
      <4> QED BY <2>4, <2>5, <4>1, <4>2 DEF AddedIsOnFile
    <3> QED BY <3>1, <3>2
  <2>6. AddedIsOnFile'
    BY <2>2, <2>5 DEF AddedIsOnFile
  <2> QED BY <2>2, <2>4, <2>6 DEF Registered, OnlyLinked
<1>2. CASE Raise(c) /\ UNCHANGED <<store, lost>>
  <2>1. \A d \in Callers : call'[d] = IF d = c THEN None ELSE call[d]
    BY <1>0, <1>2 DEF Raise
  <2>2. AddedIsOnFile'
    BY <1>2, <2>1, AddedStable DEF Registering
  <2> QED BY <1>2, <2>2 DEF OnlyLinked
<1> QED BY <1>1, <1>2 DEF AddVerified

LEMMA AddedAugment ==
    ASSUME TypeInv, ReportInv, AddedIsOnFile, NEW c \in Callers, Augment(c)
    PROVE  AddedIsOnFile' /\ \A v \in Registered \ lost' : OnlyLinked(v)
<1>0. /\ call \in [Callers -> Calls \cup {None}]
      /\ store \in [Versions -> Entries \cup {None}]
  BY DEF TypeInv, TypeOK
<1> DEFINE k == [call[c] EXCEPT !.at = "report", !.loaded = NotLoaded]
           w == call[c].version
           e == call[c].entry
           loaded == call[c].loaded
<1>1. call[c] \in Calls /\ call[c] # None /\ call[c].at = "augment" /\ CallReady(call[c])
  BY BusyCall DEF Augment, Busy
<1>2. /\ w \in Versions /\ e \in Entries /\ e # None
      /\ loaded \in [Versions -> Entries \cup {None}] /\ k.at = "report"
  BY <1>1, NoneIsNoEntry DEF CallReady, Calls
<1>3. /\ call' = [call EXCEPT ![c] = k]
      /\ store' = [loaded EXCEPT ![w] = e]
      /\ lost' = lost \cup {v \in Versions \ {w} : store[v] # loaded[v]}
  BY <1>0 DEF Augment
<1>4. Registering(c, w)
  BY <1>1 DEF Registering
<1>5. w \notin lost => store[w] = [e EXCEPT !.link = None]
  BY <1>1, <1>2, <1>4 DEF AddedIsOnFile
<1> HIDE DEF k, w, e, loaded
<1>6. /\ \A d \in Callers : call'[d] = IF d = c THEN k ELSE call[d]
      /\ store'[w] = e
      /\ \A v \in Versions \ lost' : v # w => store'[v] = store[v]
      /\ lost \subseteq lost'
  BY <1>0, <1>2, <1>3
<1>7. ASSUME NEW d \in Callers, NEW v \in Versions \ lost', Registering(d, v)',
             call'[d].at \in {"load", "augment"}
      PROVE  store'[v] = [call'[d].entry EXCEPT !.link = None]
  <2>1. d # c
    BY <1>2, <1>6, <1>7
  <2>2. Registering(d, v) /\ call'[d] = call[d] /\ v \in Versions \ lost
    BY <1>6, <1>7, <2>1 DEF Registering
  <2>3. v # w
    BY <1>4, <2>1, <2>2 DEF ReportInv, OneRegisters
  <2> QED BY <1>6, <1>7, <2>2, <2>3 DEF AddedIsOnFile
<1>8. AddedIsOnFile'
  BY <1>7 DEF AddedIsOnFile
<1>9. ASSUME NEW v \in Registered \ lost' PROVE OnlyLinked(v)
  <2>1. CASE v # w
    BY <1>6, <1>9, <2>1 DEF OnlyLinked, Registered
  <2>2. CASE v = w
    <3>1. store[w] = [e EXCEPT !.link = None]
      BY <1>5, <1>6, <1>9, <2>2
    <3>2. store[w].link = None /\ e = [store[w] EXCEPT !.link = e.link]
      BY <1>2, <3>1 DEF Entries
    <3> QED BY <1>2, <1>6, <2>2, <3>2 DEF OnlyLinked
  <2> QED BY <2>1, <2>2
<1> QED BY <1>8, <1>9

LEMMA AddedStep ==
    TypeInv /\ ReportInv /\ AddedIsOnFile /\ [Next]_vars =>
        AddedIsOnFile' /\ \A v \in Registered \ lost' : OnlyLinked(v)
<1> SUFFICES ASSUME TypeInv, ReportInv, AddedIsOnFile, [Next]_vars
             PROVE  AddedIsOnFile' /\ \A v \in Registered \ lost' : OnlyLinked(v)
  OBVIOUS
<1>0. call \in [Callers -> Calls \cup {None}]
  BY DEF TypeInv, TypeOK
<1>1. CASE UNCHANGED versionVars
  <2>1. AddedIsOnFile'
    BY <1>1, AddedStable DEF versionVars, Registering
  <2> QED BY <1>1, <2>1 DEF versionVars, OnlyLinked
<1>2. CASE Disturb /\ Untouched
  <2>1. ASSUME NEW c \in Callers, NEW v \in Versions, Registering(c, v)'
        PROVE  Registering(c, v) /\ call'[c] = call[c]
    <3>1. CASE call'[c] = call[c]
      BY <2>1, <3>1 DEF Registering
    <3>2. CASE /\ call[c] # None /\ call[c].at \in {"qa", "add"}
               /\ call'[c] = [call[c] EXCEPT !.calm = FALSE]
      <4>1. call'[c].at = call[c].at
        BY <1>0, <3>2 DEF Calls
      <4> QED BY <2>1, <3>2, <4>1 DEF Registering
    <3> QED BY <1>2, <3>1, <3>2 DEF Disturb
  <2>2. AddedIsOnFile'
    BY <1>2, <2>1, AddedStable DEF Untouched
  <2> QED BY <1>2, <2>2 DEF Untouched, OnlyLinked
<1>3. ASSUME NEW c \in Callers, Manage(c), ~AddVerified(c), ~Augment(c)
      PROVE  AddedIsOnFile' /\ \A v \in Registered \ lost' : OnlyLinked(v)
  <2>0. UNCHANGED <<store, lost>>
    BY <1>3 DEF Manage, PlanRepair, WriteFeedback, WritePlan, Register, Preflight,
       ReadVerifierGate, ReadQAGate, LoadEntries, ReportChange, Kill
  <2>1. ASSUME NEW k, call' = [call EXCEPT ![c] = k],
               k # None => k.at \notin {"load", "augment", "report"}
        PROVE  AddedIsOnFile'
    <3>1. \A d \in Callers : call'[d] = IF d = c THEN k ELSE call[d]
      BY <1>0, <2>1
    <3>2. \A d \in Callers, v \in Versions :
             Registering(d, v)' => Registering(d, v) /\ call'[d] = call[d]
      BY <2>1, <3>1 DEF Registering
    <3> QED BY <2>0, <3>2, AddedStable
  <2>2. Raise(c) => AddedIsOnFile'
    BY <2>1 DEF Raise
  <2>3. CASE PlanRepair(c) \/ Register(c)
    <3>1. ASSUME NEW f, NEW source, NEW version, NEW planned, NEW held,
                 NEW at \in {"record", "preflight"}, NewCall(c, at, f, source, version, planned, held)
          PROVE  AddedIsOnFile'
      <4> DEFINE k == [at |-> at, feedback |-> f, source |-> source, version |-> version,
                       planned |-> planned, plan |-> held, result |-> None, report |-> None,
                       entry |-> None, calm |-> TRUE, loaded |-> NotLoaded]
      <4>1. call' = [call EXCEPT ![c] = k] /\ k.at \in {"record", "preflight"}
        BY <3>1 DEF NewCall
      <4> HIDE DEF k
      <4> QED BY <2>1, <4>1
    <3> QED BY <2>0, <2>3, <3>1 DEF PlanRepair, Register, OnlyLinked
  <2>5. CASE WriteFeedback(c) \/ WritePlan(c) \/ Preflight(c)
    <3>1. PICK at : Busy(c, at)
      BY <2>5 DEF WriteFeedback, WritePlan, Preflight
    <3>2. call[c] \in Calls
      BY <3>1, BusyCall
    <3> DEFINE Reaches(k) == call' = [call EXCEPT ![c] = k]
                             /\ k.at \in {"plan", "preflight", "verifier"}
    <3>3. Raise(c) \/ \E k : Reaches(k)
      <4>1. CASE WriteFeedback(c)
        <5>1. Reaches([call[c] EXCEPT !.at = "plan"])
          BY <1>0, <3>2, <4>1 DEF WriteFeedback, Go, Calls
        <5> QED BY <5>1
      <4>2. CASE WritePlan(c)
        <5>1. Raise(c) \/ Reaches([call[c] EXCEPT !.at = "preflight", !.plan = plan'])
          BY <1>0, <3>2, <4>2 DEF WritePlan, Raise, Calls
        <5> QED BY <5>1
      <4>3. CASE Preflight(c)
        <5>1. Raise(c) \/ Reaches([call[c] EXCEPT !.at = "verifier"])
          BY <1>0, <3>2, <4>3 DEF Preflight, Go, Calls
        <5> QED BY <5>1
      <4> QED BY <2>5, <4>1, <4>2, <4>3
    <3> QED BY <2>0, <2>1, <2>2, <3>3 DEF OnlyLinked
  <2>6. CASE ReadVerifierGate(c) \/ ReadQAGate(c)
    <3>1. PICK at : Busy(c, at)
      BY <2>6 DEF ReadVerifierGate, ReadQAGate
    <3>2. call[c] \in Calls
      BY <3>1, BusyCall
    <3>3. Raise(c) \/ \E k : call' = [call EXCEPT ![c] = k] /\ k.at \in {"qa", "add"}
      <4>1. CASE ReadVerifierGate(c)
        BY <1>0, <3>2, <4>1 DEF ReadVerifierGate, Calls
      <4>2. CASE ReadQAGate(c)
        BY <1>0, <3>2, <4>2 DEF ReadQAGate, Calls
      <4> QED BY <2>6, <4>1, <4>2
    <3> QED BY <2>0, <2>1, <2>2, <3>3 DEF OnlyLinked
  <2>7. CASE LoadEntries(c)
    <3> DEFINE linked == Linked(call[c])
               k == [call[c] EXCEPT !.at = "augment", !.loaded = store, !.entry = linked]
    <3>1. call[c] \in Calls /\ call[c].at = "load" /\ CallReady(call[c])
      BY <2>7, BusyCall DEF LoadEntries
    <3>2. /\ k.version = call[c].version /\ k.entry = linked /\ k.at = "augment"
          /\ [linked EXCEPT !.link = None] = [call[c].entry EXCEPT !.link = None]
      <4>1. call[c].entry \in Entries
        BY <3>1 DEF CallReady
      <4>2. [linked EXCEPT !.link = None] = [call[c].entry EXCEPT !.link = None]
        BY <4>1 DEF Linked, Entries
      <4> HIDE DEF linked
      <4> QED BY <3>1, <4>2 DEF Calls
    <3>3. call' = [call EXCEPT ![c] = k] \/ Raise(c)
      BY <1>0, <2>7 DEF LoadEntries
    <3> HIDE DEF linked, k
    <3>4. CASE call' = [call EXCEPT ![c] = k]
      <4>1. \A d \in Callers : call'[d] = IF d = c THEN k ELSE call[d]
        BY <1>0, <3>4
      <4>2. call[c] # None
        BY <2>7 DEF LoadEntries, Busy
      <4>3. ASSUME NEW d \in Callers, NEW v \in Versions, Registering(d, v)',
                   call'[d].at # "report"
            PROVE  /\ Registering(d, v) /\ call[d].at # "report"
                   /\ [call'[d].entry EXCEPT !.link = None] = [call[d].entry EXCEPT !.link = None]
        <5>1. CASE d = c
          BY <3>1, <3>2, <4>1, <4>2, <4>3, <5>1 DEF Registering
        <5>2. CASE d # c
          BY <4>1, <4>3, <5>2 DEF Registering
        <5> QED BY <5>1, <5>2
      <4> QED BY <2>0, <4>3, AddedStable DEF OnlyLinked
    <3> QED BY <2>0, <2>2, <3>3, <3>4 DEF OnlyLinked
  <2>8. CASE ReportChange(c) \/ Kill(c)
    BY <2>0, <2>2, <2>8 DEF ReportChange, Kill, OnlyLinked
  <2> QED BY <1>3, <2>3, <2>5, <2>6, <2>7, <2>8 DEF Manage
<1>4. ASSUME NEW c \in Callers, Manage(c)
      PROVE  AddedIsOnFile' /\ \A v \in Registered \ lost' : OnlyLinked(v)
  BY <1>3, <1>4, AddedAdd, AddedAugment
<1> QED BY <1>1, <1>2, <1>4 DEF Next, vars

(* The registration of a repaired version is three steps of which only the     *)
(* first holds the registry's lock (register_repaired_version).  Wherever a    *)
(* manager is killed and whichever others run, an entry on file changes only   *)
(* by the link to its feedback, once, unless an older list is written over it. *)
THEOREM EntriesOnlyGainLinks == Spec => EntriesStay
<1>1. TypeInv /\ ReportInv /\ AddedIsOnFile /\ [Next]_vars =>
         [\A v \in Registered \ lost' :
             \/ store'[v] = store[v]
             \/ /\ store[v].link = None /\ store'[v] # None
                /\ store'[v] = [store[v] EXCEPT !.link = store'[v].link]]_vars
  BY AddedStep DEF OnlyLinked
<1>2. TypeInv /\ ReportInv /\ AddedIsOnFile /\ [Next]_vars => AddedIsOnFile'
  BY AddedStep
<1> QED BY <1>1, <1>2, TypeInit, TypeStep, ReportInit, ReportStep, AddedInit, PTL
        DEF Spec, EntriesStay
=============================================================================
