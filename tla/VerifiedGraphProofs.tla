------------------------- MODULE VerifiedGraphProofs -------------------------
(* Theorems about VerifiedGraph for every set of requests and of package       *)
(* contents, and every number of builds, decisions and restarts.               *)
EXTENDS VerifiedGraph, TLAPS

(* What a file of the evidence says of the packages it names, whoever wrote    *)
(* it and whatever was written after.  Each is a claim about one file: builds  *)
(* replace the files one by one, so nothing relates two files that are on disk *)
(* at one time.                                                                *)

VerdictSound ==
    verifier # None /\ verifier.passed => verifier.package \notin Unsound

CoverageSound ==
    coverage # None /\ coverage.passed =>
        \/ coverage.package \in Sound
        \/ coverage.package \in Manual /\ coverage.record # None

BridgeSound ==
    bridge # None /\ bridge.status = "passed" =>
        bridge.cov.of = bridge.of /\ bridge.cov.package = bridge.package

JudgedInv ==
    /\ VerdictSound /\ CoverageSound /\ BridgeSound
    /\ DOMAIN entries = Versions /\ RegisteredIsJudged

LEMMA JudgedInit == Init => JudgedInv
BY DEF Init, JudgedInv, VerdictSound, CoverageSound, BridgeSound, RegisteredIsJudged

(* The three claims rest on the writers of the three files.                    *)
LEMMA VerdictStep ==
    ASSUME JudgedInv, [Next]_vars PROVE VerdictSound'
<1>1. ASSUME NEW c \in Callers, GraphAttempt(c) PROVE VerdictSound'
  BY <1>1 DEF GraphAttempt, Placeholder, JudgedInv, VerdictSound
<1>2. ASSUME NEW c \in Callers, Verify(c) PROVE VerdictSound'
  BY <1>2 DEF Verify, JudgedInv, VerdictSound
<1>3. CASE UNCHANGED verifier
  BY <1>3 DEF JudgedInv, VerdictSound
<1>4. ASSUME NEW c \in Callers, Step(c) PROVE VerdictSound'
  BY <1>1, <1>2, <1>3, <1>4 DEF Step, Work, ForgeUnitAttempt, Cover, Bridge, Record, Route,
     ForgeUnitFailed, Gate, Add, Report, Approve, Review, Persist, Answer, Decide, UpdateState,
     Zip, files
<1> QED
  BY <1>3, <1>4 DEF Next, vars, Start, ReadReview, CheckDownload, Restart, files

LEMMA CoverageStep ==
    ASSUME JudgedInv, [Next]_vars PROVE CoverageSound'
<1>1. ASSUME NEW c \in Callers, GraphAttempt(c) PROVE CoverageSound'
  BY <1>1 DEF GraphAttempt, JudgedInv, CoverageSound
<1>2. ASSUME NEW c \in Callers, Cover(c) PROVE CoverageSound'
  BY <1>2 DEF Cover, Acceptable, JudgedInv, CoverageSound
<1>3. CASE UNCHANGED coverage
  BY <1>3 DEF JudgedInv, CoverageSound
<1>4. ASSUME NEW c \in Callers, Step(c) PROVE CoverageSound'
  BY <1>1, <1>2, <1>3, <1>4 DEF Step, Work, ForgeUnitAttempt, Verify, Bridge, Record, Route,
     ForgeUnitFailed, Gate, Add, Report, Approve, Review, Persist, Answer, Decide, UpdateState,
     Zip, files
<1> QED
  BY <1>3, <1>4 DEF Next, vars, Start, ReadReview, CheckDownload, Restart, files

LEMMA BridgeStep ==
    ASSUME JudgedInv, [Next]_vars PROVE BridgeSound'
<1>1. ASSUME NEW c \in Callers, Bridge(c) PROVE BridgeSound'
  <2>1. PICK status \in IF Fresh THEN Statuses \ {"failed"} ELSE {"failed"} :
          bridge' = [run |-> job[c].run, attempt |-> job[c].count, of |-> verifier,
                     cov |-> coverage, package |-> package, status |-> status]
    BY <1>1 DEF Bridge
  <2>2. status = "passed" => Fresh
    BY <2>1
  <2> QED BY <2>1, <2>2 DEF Fresh, BridgeSound
<1>2. CASE UNCHANGED bridge
  BY <1>2 DEF JudgedInv, BridgeSound
<1>3. ASSUME NEW c \in Callers, Step(c) PROVE BridgeSound'
  BY <1>1, <1>2, <1>3 DEF Step, Work, GraphAttempt, ForgeUnitAttempt, Verify, Cover, Record,
     Route, ForgeUnitFailed, Gate, Add, Report, Approve, Review, Persist, Answer, Decide,
     UpdateState, Zip, files
<1> QED
  BY <1>2, <1>3 DEF Next, vars, Start, ReadReview, CheckDownload, Restart, files

(* Only Add writes an entry, and what it compares ties the three files it      *)
(* reads to one another and to the package.                                    *)
LEMMA EntriesStep ==
    ASSUME JudgedInv, [Next]_vars PROVE DOMAIN entries' = Versions /\ RegisteredIsJudged'
<1> DEFINE Kept == DOMAIN entries' = Versions /\ RegisteredIsJudged'
<1>1. CASE UNCHANGED entries
  BY <1>1 DEF JudgedInv, RegisteredIsJudged
<1>2. ASSUME NEW c \in Callers, Add(c) PROVE Kept
  <2> DEFINE version == Version(job[c].mode)
  <2>1. CASE Admissible /\ entries[version] = None
    <3>1. entries' = [entries EXCEPT ![version] = NewEntry]
      BY <1>2, <2>1 DEF Add
    <3>2. NewEntry.package \notin Unsound
      BY <2>1 DEF NewEntry, Admissible, JudgedInv, VerdictSound
    <3>3. coverage.of = verifier /\ coverage.package = package
      BY <2>1 DEF Admissible, JudgedInv, BridgeSound
    <3>4. package \in Manual => coverage.record # None
      BY <2>1, <3>3, GraphAssumption DEF Admissible, JudgedInv, CoverageSound
    <3>5. NewEntry.verifier.passed /\ NewEntry.verifier.package = NewEntry.package
      BY <2>1 DEF NewEntry, Admissible
    <3> QED BY <3>1, <3>2, <3>3, <3>4, <3>5 DEF NewEntry, JudgedInv, RegisteredIsJudged
  <2>2. CASE ~(Admissible /\ entries[version] = None)
    <3>1. UNCHANGED entries
      BY <1>2, <2>2 DEF Add
    <3> QED BY <1>1, <3>1
  <2> QED BY <2>1, <2>2
<1>3. ASSUME NEW c \in Callers, Step(c) PROVE Kept
  BY <1>1, <1>2, <1>3 DEF Step, Work, GraphAttempt, ForgeUnitAttempt, Verify, Cover, Bridge,
     Record, Route, ForgeUnitFailed, Gate, Report, Approve, Review, Persist, Answer, Decide,
     UpdateState, Zip
<1> QED
  BY <1>1, <1>3 DEF Next, vars, Start, ReadReview, CheckDownload, Restart

LEMMA JudgedStep == JudgedInv /\ [Next]_vars => JudgedInv'
BY VerdictStep, CoverageStep, BridgeStep, EntriesStep DEF JudgedInv

(* However many builds of a job overtake one another between the files of      *)
(* their evidence, every entry of the registry has one package from end to     *)
(* end: the verifier passed it, the coverage was computed on it from that      *)
(* verdict, and a person accepted it where it needs one.                       *)
THEOREM OvertakenBuildsRegisterJudged == Spec => []RegisteredIsJudged
<1>1. JudgedInv => RegisteredIsJudged
  BY DEF JudgedInv
<1> QED BY <1>1, JudgedInit, JudgedStep, PTL DEF Spec

-----------------------------------------------------------------------------
(* Decisions *)

(* A state keeps its fields, and a decision in it is about its own request.    *)
FitsRequest(s) == s.decision # 0 /\ s.request # 0 => s.decision = s.request

StateOK(s) ==
    /\ s = [run |-> s.run, outcome |-> s.outcome, decision |-> s.decision, request |-> s.request]
    /\ FitsRequest(s)

(* A request that answers a review carries the state it will write.            *)
Deciding(c) == pc[c] \in {"decide", "update"}
Decides == \A c \in Callers : Deciding(c) => StateOK(job[c].seen)

Programs == DOMAIN pc = Callers /\ DOMAIN job = Callers

DecisionInv == Programs /\ Decides /\ (state # None => StateOK(state))

LEMMA DecisionInit == Init => DecisionInv
BY DEF Init, DecisionInv, Programs, Decides, Deciding

(* The other steps of a request go where nothing is decided.                   *)
LEMMA NotDeciding ==
    ASSUME DecisionInv, NEW c \in Callers, UNCHANGED state,
           DOMAIN pc' = Callers, DOMAIN job' = Callers, ~Deciding(c)',
           \A d \in Callers \ {c} : pc'[d] = pc[d] /\ job'[d] = job[d]
    PROVE  DecisionInv'
BY DEF DecisionInv, Programs, Decides, Deciding

LEMMA DecisionStep == DecisionInv /\ [Next]_vars => DecisionInv'
<1> SUFFICES ASSUME DecisionInv, [Next]_vars PROVE DecisionInv'
  OBVIOUS
<1> USE DEF Go, Note, Raise, Again
<1>0. DOMAIN pc = Callers /\ DOMAIN job = Callers
  BY DEF DecisionInv, Programs
<1>1. CASE UNCHANGED vars
  BY <1>1 DEF vars, DecisionInv, Programs, Decides, Deciding
<1>2. CASE Restart
  BY <1>2 DEF Restart, files, review, DecisionInv, Programs, Decides, Deciding
<1>3. ASSUME NEW c \in Callers, NEW mode \in Modes, NEW limit \in Attempts, Start(c, mode, limit)
      PROVE  DecisionInv'
  BY <1>0, <1>3, NotDeciding DEF Start, review, Deciding
<1>4. ASSUME NEW c \in Callers, ReadReview(c) PROVE DecisionInv'
  <2> DEFINE s == [state EXCEPT !.decision = request]
  <2>1. state # None /\ state.request \in {0, request}
    BY <1>4 DEF ReadReview, Reviewable
  <2>2. s = [run |-> state.run, outcome |-> state.outcome, decision |-> request,
             request |-> state.request]
    BY <2>1 DEF DecisionInv, StateOK
  <2>3. StateOK(s)
    BY <2>1, <2>2 DEF StateOK, FitsRequest
  <2>4. job'[c].seen = s /\ state' = state
    BY <1>0, <1>4 DEF ReadReview, NoJob, review
  <2>5. /\ DOMAIN pc' = Callers /\ DOMAIN job' = Callers
        /\ \A d \in Callers \ {c} : pc'[d] = pc[d] /\ job'[d] = job[d]
    BY <1>0, <1>4 DEF ReadReview
  <2> HIDE DEF s
  <2> QED BY <2>3, <2>4, <2>5 DEF DecisionInv, Programs, Decides, Deciding
<1>5. ASSUME NEW c \in Callers, CheckDownload(c) PROVE DecisionInv'
  BY <1>0, <1>5, NotDeciding DEF CheckDownload, review, Deciding
<1>6. ASSUME NEW c \in Callers, Step(c) PROVE DecisionInv'
  <2>1. CASE Decide(c)
    <3>1. Deciding(c) /\ UNCHANGED <<state, job>> /\ DOMAIN pc' = Callers
      BY <1>0, <2>1 DEF Decide, Serving, Deciding
    <3>2. \A d \in Callers : Deciding(d)' => Deciding(d)
      BY <1>0, <2>1 DEF Decide, Serving, Deciding
    <3> QED BY <1>0, <3>1, <3>2 DEF DecisionInv, Programs, Decides
  <2>2. CASE UpdateState(c)
    <3>1. state' = job[c].seen /\ Deciding(c) /\ pc' = [pc EXCEPT ![c] = "idle"]
          /\ job' = [job EXCEPT ![c] = NoJob]
      BY <2>2 DEF UpdateState, Serving, Deciding
    <3>2. StateOK(state')
      BY <3>1 DEF DecisionInv, Decides
    <3> QED BY <1>0, <3>1, <3>2 DEF DecisionInv, Programs, Decides, Deciding
  <2>3. CASE Persist(c)
    <3>1. StateOK(state')
      BY <2>3 DEF Persist, StateOK, FitsRequest
    <3> QED BY <1>0, <2>3, <3>1 DEF Persist, DecisionInv, Programs, Decides, Deciding
  <2>4. CASE Work(c) \/ GraphAttempt(c) \/ ForgeUnitAttempt(c)
    BY <1>0, <2>4, NotDeciding DEF Work, GraphAttempt, ForgeUnitAttempt, review, Deciding
  <2>5. CASE Verify(c) \/ Cover(c)
    BY <1>0, <2>5, NotDeciding DEF Verify, Cover, review, Deciding
  <2>6. CASE Bridge(c)
    BY <1>0, <2>6, NotDeciding DEF Bridge, review, Deciding
  <2>7. CASE Record(c) \/ Gate(c)
    BY <1>0, <2>7, NotDeciding DEF Record, Gate, review, Deciding
  <2>8. CASE Route(c)
    BY <1>0, <2>8, NotDeciding DEF Route, review, Deciding
  <2>9. CASE ForgeUnitFailed(c)
    BY <1>0, <2>9, NotDeciding DEF ForgeUnitFailed, review, Deciding
  <2>10. CASE Add(c) \/ Report(c)
    BY <1>0, <2>10, NotDeciding DEF Add, Report, review, Deciding
  <2>11. CASE Approve(c) \/ Review(c)
    BY <1>0, <2>11, NotDeciding DEF Approve, Review, review, Deciding
  <2>12. CASE Answer(c) \/ Zip(c)
    BY <1>0, <2>12, NotDeciding DEF Answer, Zip, review, Deciding
  <2> QED BY <1>6, <2>1, <2>2, <2>3, <2>4, <2>5, <2>6, <2>7, <2>8, <2>9, <2>10, <2>11, <2>12
          DEF Step
<1> QED BY <1>1, <1>2, <1>3, <1>4, <1>5, <1>6 DEF Next

(* A decision in a state that asked for a review answers the request of that   *)
(* state, however many builds and reviews overtake one another: the state is   *)
(* written back whole, as it was read when the decision was about it.          *)
THEOREM DecisionsFitRequests == Spec => []DecisionFitsRequest
<1>1. DecisionInv => DecisionFitsRequest
  BY DEF DecisionInv, StateOK, FitsRequest, DecisionFitsRequest
<1> QED BY <1>1, DecisionInit, DecisionStep, PTL DEF Spec

-----------------------------------------------------------------------------
(* Downloads *)

(* A request that is about to zip the package has verified it, unless a worker *)
(* has rewritten it since.                                                     *)
ZipOK(c) == pc[c] = "zip" => c \in moved \/ package = job[c].seen.package

ServedInv == Programs /\ (\A c \in Callers : ZipOK(c)) /\ ServedIsRegistered

LEMMA ServedInit == Init => ServedInv
BY DEF Init, ServedInv, Programs, ZipOK, ServedIsRegistered

(* The other steps of a request neither rewrite the package nor begin to serve *)
(* it.                                                                         *)
LEMMA NotZipping ==
    ASSUME ServedInv, NEW c \in Callers, UNCHANGED <<package, moved, served>>,
           DOMAIN pc' = Callers, DOMAIN job' = Callers, pc'[c] # "zip",
           \A d \in Callers \ {c} : pc'[d] = pc[d] /\ job'[d] = job[d]
    PROVE  ServedInv'
BY DEF ServedInv, Programs, ZipOK, ServedIsRegistered

LEMMA ServedStep == ServedInv /\ [Next]_vars => ServedInv'
<1> SUFFICES ASSUME ServedInv, [Next]_vars PROVE ServedInv'
  OBVIOUS
<1> USE DEF Go, Note, Raise, Again
<1>0. DOMAIN pc = Callers /\ DOMAIN job = Callers
  BY DEF ServedInv, Programs
<1>1. CASE UNCHANGED vars
  BY <1>1 DEF vars, ServedInv, Programs, ZipOK, ServedIsRegistered
<1>2. CASE Restart
  BY <1>2 DEF Restart, files, review, ServedInv, Programs, ZipOK, ServedIsRegistered
<1>3. ASSUME NEW c \in Callers, NEW mode \in Modes, NEW limit \in Attempts, Start(c, mode, limit)
      PROVE  ServedInv'
  BY <1>0, <1>3, NotZipping DEF Start, files
<1>4. ASSUME NEW c \in Callers, ReadReview(c) PROVE ServedInv'
  BY <1>0, <1>4, NotZipping DEF ReadReview, files
<1>5. ASSUME NEW c \in Callers, CheckDownload(c) PROVE ServedInv'
  <2> DEFINE entry == entries[report.version]
  <2>1. entry.package = package
    BY <1>5 DEF CheckDownload, Approved, VerifyEntry
  <2>2. job'[c].seen = entry
    BY <1>0, <1>5 DEF CheckDownload, NoJob
  <2>3. /\ UNCHANGED <<package, served>> /\ moved' = moved \ {c}
        /\ DOMAIN pc' = Callers /\ DOMAIN job' = Callers
        /\ \A d \in Callers \ {c} : pc'[d] = pc[d] /\ job'[d] = job[d]
    BY <1>0, <1>5 DEF CheckDownload, files
  <2> HIDE DEF entry
  <2> QED BY <2>1, <2>2, <2>3 DEF ServedInv, Programs, ZipOK, ServedIsRegistered
<1>6. ASSUME NEW c \in Callers, Step(c) PROVE ServedInv'
  <2>1. CASE Work(c)
    <3>1. /\ moved' = {d \in Callers : pc[d] = "zip"} \cup moved /\ served' = served
          /\ pc' = [pc EXCEPT ![c] = "attempt"] /\ DOMAIN job' = Callers
      BY <1>0, <2>1 DEF Work
    <3>2. ASSUME NEW d \in Callers PROVE ZipOK(d)'
      BY <1>0, <3>1 DEF ZipOK
    <3> QED BY <1>0, <3>1, <3>2 DEF ServedInv, Programs, ServedIsRegistered
  <2>2. CASE Zip(c)
    <3>1. /\ served' = [package |-> package, entry |-> job[c].seen, overtaken |-> c \in moved]
          /\ pc[c] = "zip" /\ package' = package /\ moved' = moved \ {c}
          /\ pc' = [pc EXCEPT ![c] = "idle"] /\ job' = [job EXCEPT ![c] = NoJob]
      BY <2>2 DEF Zip, Serving, files
    <3>2. ServedIsRegistered'
      BY <3>1 DEF ServedInv, ZipOK, ServedIsRegistered
    <3> QED BY <1>0, <3>1, <3>2 DEF ServedInv, Programs, ZipOK
  <2>3. CASE GraphAttempt(c) \/ ForgeUnitAttempt(c)
    BY <1>0, <2>3, NotZipping DEF GraphAttempt, ForgeUnitAttempt
  <2>4. CASE Verify(c) \/ Cover(c)
    BY <1>0, <2>4, NotZipping DEF Verify, Cover
  <2>5. CASE Bridge(c)
    BY <1>0, <2>5, NotZipping DEF Bridge
  <2>6. CASE Record(c) \/ Gate(c)
    BY <1>0, <2>6, NotZipping DEF Record, Gate, files
  <2>7. CASE Route(c)
    BY <1>0, <2>7, NotZipping DEF Route, files
  <2>8. CASE ForgeUnitFailed(c)
    BY <1>0, <2>8, NotZipping DEF ForgeUnitFailed, files
  <2>9. CASE Add(c) \/ Report(c)
    BY <1>0, <2>9, NotZipping DEF Add, Report, files
  <2>10. CASE Approve(c) \/ Review(c)
    BY <1>0, <2>10, NotZipping DEF Approve, Review, files
  <2>11. CASE Persist(c) \/ Answer(c)
    BY <1>0, <2>11, NotZipping DEF Persist, Answer, files
  <2>12. CASE Decide(c) \/ UpdateState(c)
    BY <1>0, <2>12, NotZipping DEF Decide, UpdateState, files
  <2> QED BY <1>6, <2>1, <2>2, <2>3, <2>4, <2>5, <2>6, <2>7, <2>8, <2>9, <2>10, <2>11, <2>12
          DEF Step
<1> QED BY <1>1, <1>2, <1>3, <1>4, <1>5, <1>6 DEF Next

(* A download that no worker overtook is the package of the entry verified for *)
(* it, for every number of builds and downloads at once.                       *)
THEOREM DownloadsAreRegistered == Spec => []ServedIsRegistered
<1>1. ServedInv => ServedIsRegistered
  BY DEF ServedInv
<1> QED BY <1>1, ServedInit, ServedStep, PTL DEF Spec

-----------------------------------------------------------------------------
(* The kinds of the files *)

(* What a request relies on at a label of its program: the files earlier steps *)
(* of some run have written, which are replaced but never removed, and what    *)
(* the request itself has read.                                                *)
Building == Labels \ {"idle", "decide", "update", "zip"}

LabelOK(c) ==
    /\ job[c].mode = "repair" => job[c].limit >= 2
    /\ pc[c] \in Building => job[c].run \in Runs
    /\ pc[c] \in {"cover", "bridge", "record"} => verifier \in Verdicts
    /\ pc[c] = "gate" \/ (pc[c] = "route" /\ Graph(c)) => runtime \in Runtimes
    /\ pc[c] \in {"record", "gate", "approve"} => Graph(c)
    /\ Graph(c) /\ pc[c] \in {"add", "report", "approve"} => job[c].seen \in Runtimes
    /\ pc[c] = "report" => entries[Version(job[c].mode)] \in Entries
    /\ pc[c] \in {"decide", "update"} => job[c].seen \in States
    /\ pc[c] = "decide" => calls >= 1
    /\ pc[c] = "zip" => job[c].seen \in Entries

KindInv == TypeOK /\ \A c \in Callers : LabelOK(c)

(* Files that are there stay: a step replaces them by files of their kind.     *)
Stays ==
    /\ verifier \in Verdicts => verifier' \in Verdicts
    /\ runtime \in Runtimes => runtime' \in Runtimes
    /\ \A v \in Versions : entries[v] \in Entries => entries'[v] \in Entries
    /\ calls >= 1 => calls' >= 1

(* A step of one request keeps the kinds when its own job and files do.        *)
LEMMA KindThread ==
    ASSUME KindInv, TypeOK', Stays, NEW c \in Callers, LabelOK(c)',
           \A d \in Callers \ {c} : pc'[d] = pc[d] /\ job'[d] = job[d]
    PROVE  KindInv'
<1>1. ASSUME NEW d \in Callers \ {c} PROVE LabelOK(d)'
  <2>1. pc'[d] = pc[d] /\ job'[d] = job[d] /\ LabelOK(d)
    BY DEF KindInv
  <2>2. Version(job[d].mode) \in Versions
    BY DEF Version, Versions
  <2> QED BY <2>1, <2>2 DEF LabelOK, Stays, Graph
<1> QED BY <1>1 DEF KindInv

LEMMA KindInit == Init => KindInv
<1> SUFFICES ASSUME Init PROVE KindInv
  OBVIOUS
<1>1. Nothing \in Evidence
  BY DEF Nothing, Evidence
<1>2. NoJob \in Jobs
  BY <1>1, GraphAssumption DEF NoJob, Jobs, Modes, Attempts, GraphAssumption
<1>3. attempts \in [Attempts -> Reports]
  BY GraphAssumption DEF Init, Reports, GraphAssumption
<1>4. manifest \in Manifests
  BY <1>3 DEF Init, Manifests
<1>5. package \in Contents
  BY DEF Init, Contents
<1>6. TypeOK
  BY <1>2, <1>3, <1>4, <1>5, GraphAssumption DEF Init, TypeOK, Labels, GraphAssumption
<1>7. ASSUME NEW c \in Callers PROVE LabelOK(c)
  BY DEF Init, LabelOK, NoJob, Building
<1> QED BY <1>6, <1>7 DEF KindInv

(* Each constructor makes a file of its kind.                                  *)
LEMMA ReportType ==
    ASSUME NEW run \in 0..MaxBuilds, NEW worked \in BOOLEAN
    PROVE  [run |-> run, worked |-> worked] \in Reports
BY DEF Reports

LEMMA VerdictType ==
    ASSUME NEW n \in 0..AttemptLimit, NEW run \in 0..MaxBuilds, NEW p \in Contents,
           NEW passed \in BOOLEAN
    PROVE  [attempt |-> n, run |-> run, package |-> p, passed |-> passed] \in Verdicts
BY DEF Verdicts

LEMMA CoverageType ==
    ASSUME NEW run \in Runs, NEW n \in Attempts, NEW v \in Verdicts, NEW p \in Contents,
           NEW r \in Acceptances \cup {None}, NEW passed \in BOOLEAN
    PROVE  [run |-> run, attempt |-> n, of |-> v, package |-> p, record |-> r,
            passed |-> passed] \in Coverages
BY DEF Coverages

LEMMA BridgeType ==
    ASSUME NEW run \in Runs, NEW n \in Attempts, NEW v \in Verdicts,
           NEW k \in Coverages \cup {None}, NEW p \in Contents, NEW status \in Statuses
    PROVE  [run |-> run, attempt |-> n, of |-> v, cov |-> k, package |-> p,
            status |-> status] \in Bridges
BY DEF Bridges

LEMMA EvidenceType ==
    ASSUME NEW v \in Verdicts \cup {None}, NEW k \in Coverages \cup {None},
           NEW b \in Bridges \cup {None}
    PROVE  [verifier |-> v, coverage |-> k, bridge |-> b] \in Evidence
BY DEF Evidence

LEMMA EvidenceNoted ==
    ASSUME NEW e \in Evidence
    PROVE  /\ \A v \in Verdicts : [e EXCEPT !.verifier = v] \in Evidence
           /\ \A k \in Coverages : [e EXCEPT !.coverage = k] \in Evidence
           /\ \A b \in Bridges : [e EXCEPT !.bridge = b] \in Evidence
BY DEF Evidence

LEMMA ManifestType ==
    ASSUME NEW p \in Contents, NEW v \in Verdicts \cup {None}, NEW k \in Coverages \cup {None},
           NEW a \in [Attempts -> Reports]
    PROVE  [package |-> p, verifier |-> v, coverage |-> k, attempts |-> a] \in Manifests
BY DEF Manifests

LEMMA ManifestNoted ==
    ASSUME NEW m \in Manifests
    PROVE  /\ \A v \in Verdicts : [m EXCEPT !.verifier = v] \in Manifests
           /\ \A k \in Coverages : [m EXCEPT !.coverage = k] \in Manifests
BY DEF Manifests

LEMMA EntryType ==
    ASSUME TypeOK, verifier # None, coverage # None, bridge # None
    PROVE  NewEntry \in Entries
BY DEF TypeOK, NewEntry, Entries

(* What a request notes in its job.                                            *)
LEMMA JobNoted ==
    ASSUME NEW j \in Jobs
    PROVE  /\ \A ok \in BOOLEAN : [j EXCEPT !.worked = ok] \in Jobs
           /\ \A e \in Evidence : [j EXCEPT !.own = e] \in Jobs
           /\ \A s \in Runtimes \cup States \cup Entries : [j EXCEPT !.seen = s] \in Jobs
           /\ \A n \in Attempts : [j EXCEPT !.count = n] \in Jobs
BY DEF Jobs

(* A step that leaves the files and the registry alone keeps the kinds when    *)
(* the job and the label of its request still fit.                             *)
LEMMA KindMoves ==
    ASSUME KindInv, NEW c \in Callers, NEW label \in Labels, NEW j \in Jobs,
           pc' = [pc EXCEPT ![c] = label], job' \in {job, [job EXCEPT ![c] = j]},
           UNCHANGED <<package, attempts, verifier, coverage, bridge, runtime, manifest, report,
                       entries, state, accepted>>,
           request' \in 0..MaxBuilds,
           told' \in [mode : Modes, outcome : Outcomes, version : Versions] \cup {None},
           served' \in [package : Contents, entry : Entries, overtaken : BOOLEAN] \cup {None},
           moved' \subseteq Callers, builds' \in 0..MaxBuilds, calls' \in 0..MaxCalls,
           kills' = kills, calls' >= calls, LabelOK(c)'
    PROVE  KindInv'
<1>1. pc \in [Callers -> Labels] /\ job \in [Callers -> Jobs] /\ calls \in Nat /\ TypeOK
  BY GraphAssumption DEF KindInv, TypeOK, GraphAssumption
<1>2. pc' \in [Callers -> Labels] /\ job' \in [Callers -> Jobs]
  BY <1>1
<1>3. TypeOK'
  BY <1>1, <1>2 DEF TypeOK
<1>4. Stays
  BY <1>1, GraphAssumption DEF Stays, GraphAssumption
<1>5. \A d \in Callers \ {c} : pc'[d] = pc[d] /\ job'[d] = job[d]
  BY <1>1
<1> QED BY <1>3, <1>4, <1>5, KindThread

LEMMA NoJobType == NoJob \in Jobs
BY GraphAssumption DEF NoJob, Nothing, Jobs, Evidence, Modes, Attempts, GraphAssumption

LEMMA KindStart ==
    ASSUME KindInv, NEW c \in Callers, NEW mode \in Modes, NEW limit \in Attempts,
           Start(c, mode, limit)
    PROVE  KindInv'
<1> DEFINE j == [NoJob EXCEPT !.mode = mode, !.run = builds + 1, !.limit = limit]
<1>0. TypeOK /\ builds \in Nat /\ MaxBuilds \in Nat /\ calls \in Nat /\ MaxCalls \in Nat
  BY GraphAssumption DEF KindInv, TypeOK, GraphAssumption
<1>1. builds + 1 \in Runs /\ builds + 1 \in 0..MaxBuilds
  BY <1>0 DEF Start, Runs
<1>2. /\ j \in Jobs /\ j.mode = mode /\ j.run = builds + 1 /\ j.limit = limit
  BY <1>1, NoJobType DEF NoJob, Jobs
<1>3. /\ pc' = [pc EXCEPT ![c] = "work"] /\ job' = [job EXCEPT ![c] = j]
      /\ builds' = builds + 1 /\ (mode = "repair" => limit >= 2)
      /\ UNCHANGED <<files, report, entries, review, told, served, moved, calls, kills>>
  BY DEF Start, Go, Note
<1> HIDE DEF j
<1>4. pc'[c] = "work" /\ job'[c] = j
  BY <1>0, <1>3 DEF TypeOK
<1>5. LabelOK(c)'
  BY <1>1, <1>2, <1>3, <1>4 DEF LabelOK
<1>6. /\ UNCHANGED <<package, attempts, verifier, coverage, bridge, runtime, manifest, report,
                     entries, state, accepted>>
      /\ request' = request /\ told' = told /\ served' = served /\ moved' = moved
      /\ calls' = calls /\ kills' = kills
  BY <1>3 DEF files, review
<1>7. "work" \in Labels /\ calls' >= calls
  BY <1>0, <1>6 DEF Labels
<1> QED BY <1>0, <1>1, <1>2, <1>3, <1>5, <1>6, <1>7, KindMoves DEF TypeOK

LEMMA KindWork ==
    ASSUME KindInv, NEW c \in Callers, Work(c)
    PROVE  KindInv'
<1>0. TypeOK /\ job[c] \in Jobs /\ LabelOK(c) /\ pc[c] = "work"
  BY DEF KindInv, TypeOK, Work, Serving
<1>1. PICK content \in Contents, ok \in BOOLEAN :
         package' = content /\ job' = [job EXCEPT ![c] = [job[c] EXCEPT !.worked = ok]]
  BY DEF Work, Note
<1>2. /\ [job[c] EXCEPT !.worked = ok] \in Jobs
      /\ pc' = [pc EXCEPT ![c] = "attempt"] /\ moved' \subseteq Callers
      /\ UNCHANGED <<attempts, verifier, coverage, bridge, runtime, manifest, report, entries,
                     review, told, served, bounds>>
  BY <1>0, JobNoted DEF Work, Go, TypeOK
<1>3. /\ job'[c] = [job[c] EXCEPT !.worked = ok] /\ pc'[c] = "attempt"
      /\ \A d \in Callers \ {c} : pc'[d] = pc[d] /\ job'[d] = job[d]
  BY <1>0, <1>1, <1>2 DEF TypeOK
<1>4. job'[c].mode = job[c].mode /\ job'[c].limit = job[c].limit /\ job'[c].run = job[c].run
  BY <1>0, <1>3 DEF Jobs
<1>5. LabelOK(c)'
  BY <1>0, <1>3, <1>4 DEF LabelOK, Building, Labels
<1>6. TypeOK'
  BY <1>0, <1>1, <1>2 DEF TypeOK, review, bounds, Labels
<1>7. Stays
  BY <1>2 DEF Stays, bounds
<1> QED BY <1>3, <1>5, <1>6, <1>7, KindThread

(* What an execution report leaves in the attempts.                            *)
LEMMA AttemptedType ==
    ASSUME KindInv, NEW c \in Callers, pc[c] \in Building, Attempted(c)
    PROVE  attempts' \in [Attempts -> Reports]
<1>1. job[c] \in Jobs /\ attempts \in [Attempts -> Reports]
  BY DEF KindInv, TypeOK
<1>2. job[c].run \in 0..MaxBuilds /\ job[c].worked \in BOOLEAN /\ job[c].count \in Attempts
  BY <1>1 DEF Jobs
<1> QED BY <1>1, <1>2, ReportType DEF Attempted

LEMMA KindGraphAttempt ==
    ASSUME KindInv, NEW c \in Callers, GraphAttempt(c)
    PROVE  KindInv'
<1>0. TypeOK /\ job[c] \in Jobs /\ LabelOK(c) /\ pc[c] = "attempt" /\ pc[c] \in Building
  BY DEF KindInv, TypeOK, GraphAttempt, Serving, Building, Labels
<1>1. attempts' \in [Attempts -> Reports]
  BY <1>0, AttemptedType DEF GraphAttempt
<1>2. Placeholder(job[c].run) \in Verdicts
  <2>1. job[c].run \in 0..MaxBuilds /\ package \in Contents /\ 0 \in 0..AttemptLimit
    BY <1>0, GraphAssumption DEF TypeOK, Jobs, GraphAssumption
  <2> QED BY <2>1, VerdictType DEF Placeholder
<1>3. /\ verifier' \in {verifier, Placeholder(job[c].run)} /\ coverage' \in {coverage, None}
      /\ \/ pc' = [pc EXCEPT ![c] = "verify"] /\ job' = job
         \/ pc' = [pc EXCEPT ![c] = "idle"] /\ job' = [job EXCEPT ![c] = NoJob]
      /\ UNCHANGED <<package, bridge, runtime, manifest, report, entries, review, told, served,
                     moved, bounds>>
  BY DEF GraphAttempt, Go, Note, Raise
<1>4. TypeOK'
  BY <1>0, <1>1, <1>2, <1>3, NoJobType DEF TypeOK, review, bounds, Labels
<1>5. Stays
  BY <1>2, <1>3 DEF Stays, bounds
<1>6. \A d \in Callers \ {c} : pc'[d] = pc[d] /\ job'[d] = job[d]
  BY <1>0, <1>3 DEF TypeOK
<1>7. LabelOK(c)'
  BY <1>0, <1>3 DEF LabelOK, TypeOK, Building, NoJob
<1> QED BY <1>4, <1>5, <1>6, <1>7, KindThread

LEMMA KindForgeUnitAttempt ==
    ASSUME KindInv, NEW c \in Callers, ForgeUnitAttempt(c)
    PROVE  KindInv'
<1>0. TypeOK /\ job[c] \in Jobs /\ LabelOK(c) /\ pc[c] = "attempt" /\ pc[c] \in Building
  BY DEF KindInv, TypeOK, ForgeUnitAttempt, Serving, Building, Labels
<1>1. attempts' \in [Attempts -> Reports]
  BY <1>0, AttemptedType DEF ForgeUnitAttempt, TypeOK
<1>2. manifest' \in Manifests
  <2> DEFINE a == [manifest.attempts EXCEPT ![job[c].count] = attempts'[job[c].count]]
  <2>1. CASE UNCHANGED manifest
    BY <1>0, <2>1 DEF TypeOK
  <2>2. CASE manifest' = [package |-> package, verifier |-> Known(manifest.verifier, verifier),
                          coverage |-> Known(manifest.coverage, coverage), attempts |-> a]
    <3>1. /\ manifest.attempts \in [Attempts -> Reports] /\ job[c].count \in Attempts
          /\ manifest.verifier \in Verdicts \cup {None}
          /\ manifest.coverage \in Coverages \cup {None}
      BY <1>0 DEF TypeOK, Manifests, Jobs
    <3>2. a \in [Attempts -> Reports]
      BY <1>1, <3>1
    <3>3. /\ Known(manifest.verifier, verifier) \in Verdicts \cup {None}
          /\ Known(manifest.coverage, coverage) \in Coverages \cup {None}
          /\ package \in Contents
      BY <1>0, <3>1 DEF TypeOK, Known
    <3> HIDE DEF a
    <3> QED BY <2>2, <3>2, <3>3, ManifestType
  <2> QED BY <2>1, <2>2 DEF ForgeUnitAttempt
<1>3. /\ \/ pc' = [pc EXCEPT ![c] = "verify"] /\ job' = job
         \/ pc' = [pc EXCEPT ![c] = "idle"] /\ job' = [job EXCEPT ![c] = NoJob]
      /\ UNCHANGED <<package, verifier, coverage, bridge, runtime, report, entries, review, told,
                     served, moved, bounds>>
  BY DEF ForgeUnitAttempt, Go, Note, Raise
<1>4. TypeOK'
  BY <1>0, <1>1, <1>2, <1>3, NoJobType DEF TypeOK, review, bounds, Labels
<1>5. Stays
  BY <1>3 DEF Stays, bounds
<1>6. \A d \in Callers \ {c} : pc'[d] = pc[d] /\ job'[d] = job[d]
  BY <1>0, <1>3 DEF TypeOK
<1>7. LabelOK(c)'
  BY <1>0, <1>3 DEF LabelOK, TypeOK, Building, NoJob
<1> QED BY <1>4, <1>5, <1>6, <1>7, KindThread

LEMMA KindVerify ==
    ASSUME KindInv, NEW c \in Callers, Verify(c)
    PROVE  KindInv'
<1> DEFINE n == job[c].count
           passed == attempts[n].worked /\ package \notin Unsound /\ RecordsMatch
           own == [job[c].own EXCEPT !.verifier = verifier']
           j == [job[c] EXCEPT !.own = own]
<1>0. TypeOK /\ job[c] \in Jobs /\ LabelOK(c) /\ pc[c] = "verify" /\ pc[c] \in Building
  BY DEF KindInv, TypeOK, Verify, Serving, Building, Labels
<1>1. verifier' \in Verdicts
  <2>1. n \in Attempts /\ n \in 0..AttemptLimit
    BY <1>0, GraphAssumption DEF Jobs, Attempts, GraphAssumption
  <2>2. attempts[n].run \in 0..MaxBuilds /\ attempts[n].worked \in BOOLEAN
    BY <1>0, <2>1 DEF TypeOK, Reports
  <2>3. passed \in BOOLEAN /\ package \in Contents
    BY <1>0, <2>2 DEF TypeOK
  <2>4. verifier' = [attempt |-> n, run |-> attempts[n].run, package |-> package, passed |-> passed]
    BY DEF Verify
  <2> HIDE DEF n, passed
  <2> QED BY <2>1, <2>2, <2>3, <2>4, VerdictType
<1>2. manifest' \in Manifests
  BY <1>0, <1>1, ManifestNoted DEF Verify, TypeOK
<1>3. own \in Evidence /\ j \in Jobs
  BY <1>0, <1>1, EvidenceNoted, JobNoted DEF Jobs
<1>4. /\ pc' \in {[pc EXCEPT ![c] = "cover"], [pc EXCEPT ![c] = "route"]}
      /\ Graph(c) => pc' = [pc EXCEPT ![c] = "cover"]
      /\ job' = [job EXCEPT ![c] = j]
      /\ UNCHANGED <<package, attempts, coverage, bridge, runtime, report, entries, review, told,
                     served, moved, bounds>>
  BY DEF Verify, Go, Note
<1>5. j.mode = job[c].mode /\ j.limit = job[c].limit /\ j.run = job[c].run
  BY <1>0 DEF Jobs
<1> HIDE DEF own, j
<1>6. TypeOK'
  BY <1>0, <1>1, <1>2, <1>3, <1>4 DEF TypeOK, review, bounds, Labels
<1>7. Stays
  BY <1>1, <1>4 DEF Stays, bounds
<1>8. /\ \A d \in Callers \ {c} : pc'[d] = pc[d] /\ job'[d] = job[d]
      /\ job'[c] = j /\ pc'[c] \in {"cover", "route"} /\ (Graph(c) => pc'[c] = "cover")
  BY <1>0, <1>4 DEF TypeOK
<1>9. LabelOK(c)'
  BY <1>0, <1>1, <1>5, <1>8 DEF LabelOK, Building, Labels, Graph
<1> QED BY <1>6, <1>7, <1>8, <1>9, KindThread

LEMMA KindCover ==
    ASSUME KindInv, NEW c \in Callers, Cover(c)
    PROVE  KindInv'
<1> DEFINE own == [job[c].own EXCEPT !.coverage = coverage']
           j == [job[c] EXCEPT !.own = own]
<1>0. TypeOK /\ job[c] \in Jobs /\ LabelOK(c) /\ pc[c] = "cover" /\ pc[c] \in Building
  BY DEF KindInv, TypeOK, Cover, Serving, Building, Labels
<1>1. coverage' \in Coverages
  <2>1. /\ job[c].run \in Runs /\ job[c].count \in Attempts /\ verifier \in Verdicts
        /\ package \in Contents /\ accepted \in Acceptances \cup {None} /\ Acceptable \in BOOLEAN
    BY <1>0 DEF LabelOK, TypeOK, Jobs, Acceptable
  <2> QED BY <2>1, CoverageType DEF Cover
<1>2. manifest' \in Manifests
  BY <1>0, <1>1, ManifestNoted DEF Cover, TypeOK
<1>3. own \in Evidence /\ j \in Jobs
  BY <1>0, <1>1, EvidenceNoted, JobNoted DEF Jobs
<1>4. /\ \/ pc' = [pc EXCEPT ![c] = "bridge"] /\ job' = [job EXCEPT ![c] = j]
         \/ pc' = [pc EXCEPT ![c] = "idle"] /\ job' = [job EXCEPT ![c] = NoJob]
      /\ UNCHANGED <<package, attempts, verifier, bridge, runtime, report, entries, review, told,
                     served, moved, bounds>>
  BY DEF Cover, Go, Note, Raise
<1>5. j.mode = job[c].mode /\ j.limit = job[c].limit /\ j.run = job[c].run
  BY <1>0 DEF Jobs
<1> HIDE DEF own, j
<1>6. TypeOK'
  BY <1>0, <1>1, <1>2, <1>3, <1>4, NoJobType DEF TypeOK, review, bounds, Labels
<1>7. Stays
  BY <1>4 DEF Stays, bounds
<1>8. /\ \A d \in Callers \ {c} : pc'[d] = pc[d] /\ job'[d] = job[d]
      /\ \/ job'[c] = j /\ pc'[c] = "bridge"
         \/ job'[c] = NoJob /\ pc'[c] = "idle"
  BY <1>0, <1>4 DEF TypeOK
<1>9. LabelOK(c)'
  BY <1>0, <1>4, <1>5, <1>8 DEF LabelOK, Building, NoJob
<1> QED BY <1>6, <1>7, <1>8, <1>9, KindThread

LEMMA KindBridge ==
    ASSUME KindInv, NEW c \in Callers, Bridge(c)
    PROVE  KindInv'
<1> DEFINE own == [job[c].own EXCEPT !.bridge = bridge']
           j == [job[c] EXCEPT !.own = own]
<1>0. TypeOK /\ job[c] \in Jobs /\ LabelOK(c) /\ pc[c] = "bridge" /\ pc[c] \in Building
  BY DEF KindInv, TypeOK, Bridge, Serving, Building, Labels
<1>1. PICK status \in IF Fresh THEN Statuses \ {"failed"} ELSE {"failed"} :
         /\ bridge' = [run |-> job[c].run, attempt |-> job[c].count, of |-> verifier,
                       cov |-> coverage, package |-> package, status |-> status]
         /\ \/ pc' = [pc EXCEPT ![c] = "record"] /\ job' = [job EXCEPT ![c] = j] /\ Graph(c)
            \/ pc' = [pc EXCEPT ![c] = "add"] /\ job' = job /\ ~Graph(c)
            \/ pc' = [pc EXCEPT ![c] = "idle"] /\ job' = [job EXCEPT ![c] = NoJob]
  BY DEF Bridge, Go, Note, Raise
<1>2. bridge' \in Bridges
  <2>1. /\ job[c].run \in Runs /\ job[c].count \in Attempts /\ verifier \in Verdicts
        /\ package \in Contents /\ coverage \in Coverages \cup {None}
    BY <1>0 DEF LabelOK, TypeOK, Jobs
  <2>2. status \in Statuses
    BY DEF Statuses
  <2> QED BY <1>1, <2>1, <2>2, BridgeType
<1>3. own \in Evidence /\ j \in Jobs
  BY <1>0, <1>2, EvidenceNoted, JobNoted DEF Jobs
<1>4. UNCHANGED <<package, attempts, verifier, coverage, runtime, manifest, report, entries,
                  review, told, served, moved, bounds>>
  BY DEF Bridge
<1>5. j.mode = job[c].mode /\ j.limit = job[c].limit /\ j.run = job[c].run
  BY <1>0 DEF Jobs
<1> HIDE DEF own, j
<1>6. TypeOK'
  BY <1>0, <1>1, <1>2, <1>3, <1>4, NoJobType DEF TypeOK, review, bounds, Labels
<1>7. Stays
  BY <1>4 DEF Stays, bounds
<1>8. /\ \A d \in Callers \ {c} : pc'[d] = pc[d] /\ job'[d] = job[d]
      /\ \/ job'[c] = j /\ pc'[c] = "record" /\ Graph(c)
         \/ job'[c] = job[c] /\ pc'[c] = "add" /\ ~Graph(c)
         \/ job'[c] = NoJob /\ pc'[c] = "idle"
  BY <1>0, <1>1 DEF TypeOK
<1>9. LabelOK(c)'
  BY <1>0, <1>4, <1>5, <1>8 DEF LabelOK, Building, Labels, NoJob, Graph
<1> QED BY <1>6, <1>7, <1>8, <1>9, KindThread

LEMMA KindRecord ==
    ASSUME KindInv, NEW c \in Callers, Record(c)
    PROVE  KindInv'
<1>0. TypeOK /\ job[c] \in Jobs /\ LabelOK(c) /\ pc[c] = "record" /\ pc[c] \in Building
  BY DEF KindInv, TypeOK, Record, Serving, Building, Labels
<1> DEFINE result == [own |-> job[c].own, found |-> Found, approved |-> FALSE]
<1>1. result \in Runtimes
  <2>1. Found \in Evidence /\ job[c].own \in Evidence
    BY <1>0, EvidenceType DEF Found, TypeOK, Jobs
  <2> QED BY <2>1 DEF Runtimes
<1>2. /\ \/ /\ pc' = [pc EXCEPT ![c] = "route"] /\ job' = job /\ runtime' = result
         \/ /\ pc' = [pc EXCEPT ![c] = "idle"] /\ job' = [job EXCEPT ![c] = NoJob]
            /\ runtime' = runtime
      /\ UNCHANGED <<package, attempts, verifier, coverage, bridge, manifest, report, entries,
                     review, told, served, moved, bounds>>
  BY DEF Record, Go, Note, Raise
<1> HIDE DEF result
<1>3. TypeOK'
  BY <1>0, <1>1, <1>2, NoJobType DEF TypeOK, review, bounds, Labels
<1>4. Stays
  BY <1>1, <1>2 DEF Stays, bounds
<1>5. /\ \A d \in Callers \ {c} : pc'[d] = pc[d] /\ job'[d] = job[d]
      /\ \/ job'[c] = job[c] /\ pc'[c] = "route" /\ runtime' \in Runtimes
         \/ job'[c] = NoJob /\ pc'[c] = "idle"
  BY <1>0, <1>1, <1>2 DEF TypeOK
<1>6. LabelOK(c)'
  BY <1>0, <1>5 DEF LabelOK, Building, Labels, NoJob
<1> QED BY <1>3, <1>4, <1>5, <1>6, KindThread

(* What a step leaves as it is when it only routes its request.                *)
Routed(c) ==
    /\ UNCHANGED <<package, attempts, verifier, coverage, bridge, runtime, manifest, report,
                   entries, state, accepted, told, served, moved, builds, calls, kills>>
    /\ request' \in 0..MaxBuilds

(* A request that ends, repairs or goes on with the job it has.                *)
LEMMA KindRouted ==
    ASSUME KindInv, NEW c \in Callers, Routed(c), pc[c] \in Building,
           \/ pc' = [pc EXCEPT ![c] = "idle"] /\ job' = [job EXCEPT ![c] = NoJob]
           \/ Again(c) /\ job[c].count < job[c].limit
           \/ \E label \in {"gate", "review", "persist", "answer"} :
                 /\ pc' = [pc EXCEPT ![c] = label] /\ job' = job
                 /\ label = "gate" => Graph(c) /\ runtime \in Runtimes
    PROVE  KindInv'
<1>0. /\ TypeOK /\ job[c] \in Jobs /\ LabelOK(c) /\ calls \in 0..MaxCalls /\ MaxCalls \in Nat
      /\ pc \in [Callers -> Labels] /\ job \in [Callers -> Jobs]
  BY GraphAssumption DEF KindInv, TypeOK, GraphAssumption
<1>1. /\ UNCHANGED <<package, attempts, verifier, coverage, bridge, runtime, manifest, report,
                     entries, state, accepted>>
      /\ request' \in 0..MaxBuilds /\ kills' = kills /\ calls' >= calls
      /\ told' \in [mode : Modes, outcome : Outcomes, version : Versions] \cup {None}
      /\ served' \in [package : Contents, entry : Entries, overtaken : BOOLEAN] \cup {None}
      /\ moved' \subseteq Callers /\ builds' \in 0..MaxBuilds /\ calls' \in 0..MaxCalls
  BY <1>0 DEF Routed, TypeOK
<1>2. CASE pc' = [pc EXCEPT ![c] = "idle"] /\ job' = [job EXCEPT ![c] = NoJob]
  <2>1. LabelOK(c)'
    BY <1>0, <1>2 DEF LabelOK, NoJob, Building
  <2> QED BY <1>1, <1>2, <2>1, NoJobType, KindMoves DEF Labels
<1>3. CASE Again(c) /\ job[c].count < job[c].limit
  <2> DEFINE j == [job[c] EXCEPT !.count = job[c].count + 1]
  <2>1. job[c].count + 1 \in Attempts
    BY <1>0, <1>3, GraphAssumption DEF Jobs, Attempts, GraphAssumption
  <2>2. j \in Jobs /\ j.mode = job[c].mode /\ j.limit = job[c].limit /\ j.run = job[c].run
    BY <1>0, <2>1, JobNoted DEF Jobs
  <2>3. pc' = [pc EXCEPT ![c] = "work"] /\ job' = [job EXCEPT ![c] = j]
    BY <1>3 DEF Again, Go, Note
  <2> HIDE DEF j
  <2>4. pc'[c] = "work" /\ job'[c] = j
    BY <1>0, <2>3
  <2>5. LabelOK(c)'
    BY <1>0, <2>2, <2>4 DEF LabelOK
  <2> QED BY <1>1, <2>2, <2>3, <2>5, KindMoves DEF Labels
<1>4. ASSUME NEW label \in {"gate", "review", "persist", "answer"},
             pc' = [pc EXCEPT ![c] = label], job' = job,
             label = "gate" => Graph(c) /\ runtime \in Runtimes
      PROVE  KindInv'
  <2>1. LabelOK(c)'
    BY <1>0, <1>1, <1>4 DEF LabelOK, Graph, Building
  <2> QED BY <1>0, <1>1, <1>4, <2>1, KindMoves DEF Labels
<1> QED BY <1>2, <1>3, <1>4

LEMMA KindRoute ==
    ASSUME KindInv, NEW c \in Callers, Route(c)
    PROVE  KindInv'
<1>1. /\ Routed(c) /\ pc[c] \in Building
      /\ pc[c] = "route" /\ Graph(c)
  BY DEF Route, Routed, files, review, bounds, Serving, Building, Labels, KindInv, TypeOK
<1>2. runtime \in Runtimes /\ job[c].count \in Nat /\ job[c].limit \in Nat
  BY <1>1 DEF KindInv, LabelOK, TypeOK, Jobs, Attempts
<1>3. \/ Again(c) /\ job[c].count < job[c].limit
      \/ \E label \in {"gate", "review", "persist", "answer"} :
            pc' = [pc EXCEPT ![c] = label] /\ job' = job
  BY <1>2 DEF Route, Go, Exhausted
<1> QED BY <1>1, <1>2, <1>3, KindRouted

LEMMA KindForgeUnitFailed ==
    ASSUME KindInv, NEW c \in Callers, ForgeUnitFailed(c)
    PROVE  KindInv'
<1>0. TypeOK /\ job[c] \in Jobs /\ LabelOK(c)
  BY DEF KindInv, TypeOK
<1>1. Routed(c) /\ pc[c] \in Building
  BY <1>0 DEF ForgeUnitFailed, Routed, files, bounds, Serving, Building, Labels, TypeOK, Jobs
<1>2. job[c].mode = "repair" /\ job[c].count = 1 => job[c].count < job[c].limit
  BY <1>0 DEF LabelOK, Jobs, Attempts
<1>3. \/ Again(c) /\ job[c].count < job[c].limit
      \/ pc' = [pc EXCEPT ![c] = "idle"] /\ job' = [job EXCEPT ![c] = NoJob]
  BY <1>2 DEF ForgeUnitFailed, Raise, Go, Note
<1> QED BY <1>1, <1>3, KindRouted

LEMMA KindGate ==
    ASSUME KindInv, NEW c \in Callers, Gate(c)
    PROVE  KindInv'
<1> DEFINE j == [job[c] EXCEPT !.seen = runtime]
<1>0. /\ TypeOK /\ job[c] \in Jobs /\ LabelOK(c) /\ calls \in 0..MaxCalls /\ MaxCalls \in Nat
      /\ pc[c] = "gate" /\ pc[c] \in Building
      /\ pc \in [Callers -> Labels] /\ job \in [Callers -> Jobs]
  BY GraphAssumption DEF KindInv, TypeOK, GraphAssumption, Gate, Serving, Building, Labels
<1>1. runtime \in Runtimes /\ Graph(c) /\ runtime.approved \in BOOLEAN
  BY <1>0 DEF LabelOK, Runtimes
<1>2. Routed(c)
  BY <1>0 DEF Gate, Routed, files, review, bounds, TypeOK
<1>3. \/ pc' \in {[pc EXCEPT ![c] = "approve"], [pc EXCEPT ![c] = "add"]}
         /\ job' = [job EXCEPT ![c] = j]
      \/ pc' = [pc EXCEPT ![c] = "idle"] /\ job' = [job EXCEPT ![c] = NoJob]
  BY <1>1 DEF Gate, Go, Note, Raise
<1>4. j \in Jobs /\ j.mode = job[c].mode /\ j.limit = job[c].limit /\ j.run = job[c].run
      /\ j.seen = runtime
  BY <1>0, <1>1, JobNoted DEF Jobs
<1> HIDE DEF j
<1>5. CASE pc' = [pc EXCEPT ![c] = "idle"] /\ job' = [job EXCEPT ![c] = NoJob]
  BY <1>0, <1>2, <1>5, KindRouted
<1>6. ASSUME NEW label \in {"approve", "add"}, pc' = [pc EXCEPT ![c] = label],
             job' = [job EXCEPT ![c] = j]
      PROVE  KindInv'
  <2>1. pc'[c] = label /\ job'[c] = j
    BY <1>0, <1>6
  <2>2. LabelOK(c)'
    BY <1>0, <1>1, <1>4, <2>1 DEF LabelOK, Graph
  <2>3. /\ UNCHANGED <<package, attempts, verifier, coverage, bridge, runtime, manifest, report,
                       entries, state, accepted>>
        /\ request' \in 0..MaxBuilds /\ kills' = kills /\ calls' >= calls
        /\ told' \in [mode : Modes, outcome : Outcomes, version : Versions] \cup {None}
        /\ served' \in [package : Contents, entry : Entries, overtaken : BOOLEAN] \cup {None}
        /\ moved' \subseteq Callers /\ builds' \in 0..MaxBuilds /\ calls' \in 0..MaxCalls
    BY <1>0, <1>2 DEF Routed, TypeOK
  <2> QED BY <1>4, <1>6, <2>2, <2>3, KindMoves DEF Labels
<1> QED BY <1>3, <1>5, <1>6

LEMMA KindAdd ==
    ASSUME KindInv, NEW c \in Callers, Add(c)
    PROVE  KindInv'
<1> DEFINE version == Version(job[c].mode)
<1>0. TypeOK /\ job[c] \in Jobs /\ LabelOK(c) /\ pc[c] = "add" /\ version \in Versions
  BY DEF KindInv, TypeOK, Add, Serving, Version, Versions
<1>1. /\ \/ /\ pc' = [pc EXCEPT ![c] = "report"] /\ job' = job /\ Admissible
            /\ entries' = IF entries[version] # None THEN entries
                          ELSE [entries EXCEPT ![version] = NewEntry]
         \/ /\ pc' = [pc EXCEPT ![c] = "idle"] /\ job' = [job EXCEPT ![c] = NoJob]
            /\ entries' = entries
      /\ UNCHANGED <<files, report, review, told, served, moved, bounds>>
  BY DEF Add, Go, Note, Raise
<1>2. Admissible => NewEntry \in Entries
  BY <1>0, EntryType DEF Admissible
<1> HIDE DEF version
<1>3. entries' \in [Versions -> Entries \cup {None}]
  BY <1>0, <1>1, <1>2 DEF TypeOK
<1>4. TypeOK'
  BY <1>0, <1>1, <1>3, NoJobType DEF TypeOK, files, review, bounds, Labels
<1>5. Stays
  BY <1>0, <1>1, <1>2 DEF Stays, TypeOK, files, bounds
<1>6. /\ \A d \in Callers \ {c} : pc'[d] = pc[d] /\ job'[d] = job[d]
      /\ \/ job'[c] = job[c] /\ pc'[c] = "report" /\ entries'[version] \in Entries
         \/ job'[c] = NoJob /\ pc'[c] = "idle"
  BY <1>0, <1>1, <1>2 DEF TypeOK
<1>7. LabelOK(c)'
  BY <1>0, <1>6 DEF LabelOK, Building, Labels, NoJob, Graph, version
<1> QED BY <1>4, <1>5, <1>6, <1>7, KindThread

LEMMA KindReport ==
    ASSUME KindInv, NEW c \in Callers, Report(c)
    PROVE  KindInv'
<1> DEFINE version == Version(job[c].mode)
<1>0. /\ TypeOK /\ job[c] \in Jobs /\ LabelOK(c) /\ pc[c] = "report" /\ version \in Versions
      /\ entries[version] \in Entries
  BY DEF KindInv, TypeOK, Report, Serving, Version, Versions, LabelOK
<1>1. /\ \/ /\ \/ pc' = [pc EXCEPT ![c] = "approve"] /\ Graph(c)
               \/ pc' = [pc EXCEPT ![c] = "answer"] /\ ~Graph(c)
            /\ job' = job
            /\ report' = [version |-> version, package |-> entries[version].package]
         \/ /\ pc' = [pc EXCEPT ![c] = "idle"] /\ job' = [job EXCEPT ![c] = NoJob]
            /\ report' = report
      /\ UNCHANGED <<files, entries, review, told, served, moved, bounds>>
  BY DEF Report, Go, Note, Raise
<1>2. [version |-> version, package |-> entries[version].package]
        \in [version : Versions, package : Contents]
  BY <1>0 DEF Entries
<1> HIDE DEF version
<1>3. TypeOK'
  BY <1>0, <1>1, <1>2, NoJobType DEF TypeOK, files, review, bounds, Labels
<1>4. Stays
  BY <1>1 DEF Stays, files, bounds
<1>5. /\ \A d \in Callers \ {c} : pc'[d] = pc[d] /\ job'[d] = job[d]
      /\ \/ job'[c] = job[c] /\ pc'[c] = "approve" /\ Graph(c)
         \/ job'[c] = job[c] /\ pc'[c] = "answer" /\ ~Graph(c)
         \/ job'[c] = NoJob /\ pc'[c] = "idle"
  BY <1>0, <1>1 DEF TypeOK
<1>6. LabelOK(c)'
  BY <1>0, <1>5 DEF LabelOK, Building, Labels, NoJob, Graph
<1> QED BY <1>3, <1>4, <1>5, <1>6, KindThread

LEMMA KindApprove ==
    ASSUME KindInv, NEW c \in Callers, Approve(c)
    PROVE  KindInv'
<1>0. /\ TypeOK /\ job[c] \in Jobs /\ LabelOK(c) /\ pc[c] = "approve"
      /\ job[c].seen \in Runtimes /\ job[c].run \in Runs
  BY DEF KindInv, TypeOK, Approve, Serving, LabelOK, Building, Labels
<1>1. [job[c].seen EXCEPT !.approved = TRUE] \in Runtimes
  BY <1>0 DEF Runtimes
<1>2. /\ runtime' \in {runtime, [job[c].seen EXCEPT !.approved = TRUE]}
      /\ \/ pc' = [pc EXCEPT ![c] = "persist"] /\ job' = job
         \/ pc' = [pc EXCEPT ![c] = "idle"] /\ job' = [job EXCEPT ![c] = NoJob]
      /\ UNCHANGED <<package, attempts, verifier, coverage, bridge, manifest, report, entries,
                     review, told, served, moved, bounds>>
  BY DEF Approve, Go, Note, Raise
<1>3. TypeOK'
  <2>1. pc' \in [Callers -> Labels] /\ job' \in [Callers -> Jobs]
    BY <1>0, <1>2, NoJobType DEF TypeOK, Labels
  <2>2. runtime' \in Runtimes \cup {None}
    BY <1>0, <1>1, <1>2 DEF TypeOK
  <2> QED BY <1>0, <1>2, <2>1, <2>2 DEF TypeOK, review, bounds
<1>4. Stays
  BY <1>1, <1>2 DEF Stays, bounds
<1>5. /\ \A d \in Callers \ {c} : pc'[d] = pc[d] /\ job'[d] = job[d]
      /\ \/ job'[c] = job[c] /\ pc'[c] = "persist"
         \/ job'[c] = NoJob /\ pc'[c] = "idle"
  BY <1>0, <1>2 DEF TypeOK
<1>6. LabelOK(c)'
  BY <1>0, <1>5 DEF LabelOK, Building, NoJob
<1> QED BY <1>3, <1>4, <1>5, <1>6, KindThread

LEMMA KindReview ==
    ASSUME KindInv, NEW c \in Callers, Review(c)
    PROVE  KindInv'
<1>1. TypeOK /\ job[c] \in Jobs
  BY DEF KindInv, TypeOK
<1>2. Routed(c) /\ pc[c] \in Building
  BY <1>1 DEF Review, Routed, files, bounds, Serving, Building, Labels, Jobs
<1>3. pc' = [pc EXCEPT ![c] = "persist"] /\ job' = job
  BY DEF Review, Go
<1> QED BY <1>2, <1>3, KindRouted

LEMMA OutcomeType == \A c : Outcome(c) \in Outcomes
BY DEF Outcome, Outcomes

LEMMA KindPersist ==
    ASSUME KindInv, NEW c \in Callers, Persist(c)
    PROVE  KindInv'
<1>0. /\ TypeOK /\ job[c] \in Jobs /\ LabelOK(c) /\ pc[c] = "persist" /\ job[c].run \in Runs
      /\ job[c].run \in 0..MaxBuilds
  BY DEF KindInv, TypeOK, Persist, Serving, LabelOK, Building, Labels, Jobs
<1>1. state' \in States
  <2>1. /\ IF Outcome(c) = "review" THEN job[c].run \in 0..MaxBuilds ELSE 0 \in 0..MaxBuilds
        /\ 0 \in 0..MaxBuilds
    BY <1>0, GraphAssumption DEF GraphAssumption
  <2> QED BY <1>0, <2>1, OutcomeType DEF Persist, States
<1>2. /\ pc' = [pc EXCEPT ![c] = "answer"] /\ job' = job
      /\ UNCHANGED <<files, report, entries, request, accepted, told, served, moved, bounds>>
  BY DEF Persist, Go
<1>3. TypeOK'
  BY <1>0, <1>1, <1>2 DEF TypeOK, files, bounds, Labels
<1>4. Stays
  BY <1>2 DEF Stays, files, bounds
<1>5. /\ \A d \in Callers \ {c} : pc'[d] = pc[d] /\ job'[d] = job[d]
      /\ job'[c] = job[c] /\ pc'[c] = "answer"
  BY <1>0, <1>2 DEF TypeOK
<1>6. LabelOK(c)'
  BY <1>0, <1>5 DEF LabelOK
<1> QED BY <1>3, <1>4, <1>5, <1>6, KindThread

(* A request that ends leaves nothing to rely on.                              *)
LEMMA KindEnds ==
    ASSUME KindInv, NEW c \in Callers, Raise(c),
           UNCHANGED <<files, report, entries, request, accepted, bounds>>,
           state' \in States \cup {None},
           told' \in [mode : Modes, outcome : Outcomes, version : Versions] \cup {None},
           served' \in [package : Contents, entry : Entries, overtaken : BOOLEAN] \cup {None},
           moved' \subseteq Callers
    PROVE  KindInv'
<1>0. TypeOK
  BY DEF KindInv
<1>1. pc' = [pc EXCEPT ![c] = "idle"] /\ job' = [job EXCEPT ![c] = NoJob]
  BY DEF Raise, Go, Note
<1>2. TypeOK'
  BY <1>0, <1>1, NoJobType DEF TypeOK, files, bounds, Labels
<1>3. Stays
  BY DEF Stays, files, bounds
<1>4. /\ \A d \in Callers \ {c} : pc'[d] = pc[d] /\ job'[d] = job[d]
      /\ job'[c] = NoJob /\ pc'[c] = "idle"
  BY <1>0, <1>1 DEF TypeOK
<1>5. LabelOK(c)'
  BY <1>4 DEF LabelOK, Building, NoJob
<1> QED BY <1>2, <1>3, <1>4, <1>5, KindThread

LEMMA KindAnswer ==
    ASSUME KindInv, NEW c \in Callers, Answer(c)
    PROVE  KindInv'
<1>0. TypeOK /\ job[c] \in Jobs
  BY DEF KindInv, TypeOK
<1>1. told' \in [mode : Modes, outcome : Outcomes, version : Versions] \cup {None}
  <2>1. CASE report = None
    BY <2>1 DEF Answer
  <2>2. CASE report # None
    <3>1. report.version \in Versions /\ job[c].mode \in Modes
      BY <1>0, <2>2 DEF TypeOK, Jobs
    <3>2. (IF Graph(c) THEN Outcome(c) ELSE "registered") \in Outcomes
      BY OutcomeType DEF Outcomes
    <3> QED BY <2>2, <3>1, <3>2 DEF Answer
  <2> QED BY <2>1, <2>2
<1> QED BY <1>0, <1>1, KindEnds DEF Answer, TypeOK, review

LEMMA KindReadReview ==
    ASSUME KindInv, NEW c \in Callers, ReadReview(c)
    PROVE  KindInv'
<1> DEFINE s == [state EXCEPT !.decision = request]
           j == [NoJob EXCEPT !.seen = s]
<1>0. /\ TypeOK /\ calls \in Nat /\ MaxCalls \in Nat
  BY GraphAssumption DEF KindInv, TypeOK, GraphAssumption
<1>1. s \in States
  BY <1>0 DEF ReadReview, Reviewable, TypeOK, States
<1>2. /\ pc' = [pc EXCEPT ![c] = "decide"] /\ job' = [job EXCEPT ![c] = j]
      /\ calls' = calls + 1 /\ calls < MaxCalls
      /\ UNCHANGED <<files, report, entries, review, told, served, moved, builds, kills>>
  BY DEF ReadReview, Go, Note
<1> HIDE DEF s
<1>3. j \in Jobs /\ j.seen = s /\ j.mode = "graph"
  BY <1>1, NoJobType, JobNoted DEF NoJob
<1> HIDE DEF j
<1>4. pc'[c] = "decide" /\ job'[c] = j
  BY <1>0, <1>2 DEF TypeOK
<1>5. LabelOK(c)'
  BY <1>0, <1>1, <1>2, <1>3, <1>4 DEF LabelOK, Building
<1>6. /\ UNCHANGED <<package, attempts, verifier, coverage, bridge, runtime, manifest, report,
                     entries, state, accepted>>
      /\ request' = request /\ told' = told /\ served' = served /\ moved' = moved
      /\ builds' = builds /\ kills' = kills
  BY <1>2 DEF files, review
<1>7. "decide" \in Labels /\ calls' >= calls /\ calls' \in 0..MaxCalls
  BY <1>0, <1>2 DEF Labels
<1> QED BY <1>0, <1>2, <1>3, <1>5, <1>6, <1>7, KindMoves DEF TypeOK

LEMMA KindDecide ==
    ASSUME KindInv, NEW c \in Callers, Decide(c)
    PROVE  KindInv'
<1>0. /\ TypeOK /\ LabelOK(c) /\ pc[c] = "decide" /\ calls \in 1..MaxCalls
  BY GraphAssumption DEF KindInv, TypeOK, LabelOK, Decide, Serving, GraphAssumption
<1>1. accepted' \in Acceptances \cup {None}
  BY <1>0 DEF Decide, Acceptances, TypeOK
<1>2. /\ pc' = [pc EXCEPT ![c] = "update"] /\ job' = job
      /\ UNCHANGED <<files, report, entries, state, request, told, served, moved, bounds>>
  BY DEF Decide, Go
<1>3. TypeOK'
  BY <1>0, <1>1, <1>2 DEF TypeOK, files, bounds, Labels
<1>4. Stays
  BY <1>2 DEF Stays, files, bounds
<1>5. /\ \A d \in Callers \ {c} : pc'[d] = pc[d] /\ job'[d] = job[d]
      /\ job'[c] = job[c] /\ pc'[c] = "update"
  BY <1>0, <1>2 DEF TypeOK
<1>6. LabelOK(c)'
  BY <1>0, <1>5 DEF LabelOK, Building
<1> QED BY <1>3, <1>4, <1>5, <1>6, KindThread

LEMMA KindUpdateState ==
    ASSUME KindInv, NEW c \in Callers, UpdateState(c)
    PROVE  KindInv'
<1>1. TypeOK /\ job[c].seen \in States
  BY DEF KindInv, LabelOK, UpdateState, Serving
<1> QED BY <1>1, KindEnds DEF UpdateState, TypeOK

LEMMA KindCheckDownload ==
    ASSUME KindInv, NEW c \in Callers, CheckDownload(c)
    PROVE  KindInv'
<1> DEFINE e == entries[report.version]
           j == [NoJob EXCEPT !.seen = e]
<1>0. /\ TypeOK /\ calls \in Nat /\ MaxCalls \in Nat
  BY GraphAssumption DEF KindInv, TypeOK, GraphAssumption
<1>1. e \in Entries
  <2>1. report.version \in Versions /\ e # None
    BY <1>0 DEF CheckDownload, Approved, VerifyEntry, TypeOK
  <2> QED BY <1>0, <2>1 DEF TypeOK
<1>2. /\ pc' = [pc EXCEPT ![c] = "zip"] /\ job' = [job EXCEPT ![c] = j]
      /\ calls' = calls + 1 /\ calls < MaxCalls /\ moved' = moved \ {c}
      /\ UNCHANGED <<files, report, entries, review, told, served, builds, kills>>
  BY DEF CheckDownload, Go, Note
<1> HIDE DEF e
<1>3. j \in Jobs /\ j.seen = e /\ j.mode = "graph"
  BY <1>1, NoJobType, JobNoted DEF NoJob
<1> HIDE DEF j
<1>4. pc'[c] = "zip" /\ job'[c] = j
  BY <1>0, <1>2 DEF TypeOK
<1>5. LabelOK(c)'
  BY <1>1, <1>3, <1>4 DEF LabelOK, Building
<1>6. /\ UNCHANGED <<package, attempts, verifier, coverage, bridge, runtime, manifest, report,
                     entries, state, accepted>>
      /\ request' = request /\ told' = told /\ served' = served
      /\ builds' = builds /\ kills' = kills
  BY <1>2 DEF files, review
<1>7. /\ "zip" \in Labels /\ calls' >= calls /\ calls' \in 0..MaxCalls
      /\ moved' \subseteq Callers
  BY <1>0, <1>2 DEF Labels, TypeOK
<1> QED BY <1>0, <1>2, <1>3, <1>5, <1>6, <1>7, KindMoves DEF TypeOK

LEMMA KindZip ==
    ASSUME KindInv, NEW c \in Callers, Zip(c)
    PROVE  KindInv'
<1>0. TypeOK /\ job[c].seen \in Entries /\ (c \in moved) \in BOOLEAN /\ package \in Contents
  BY DEF KindInv, LabelOK, Zip, Serving, TypeOK
<1>1. served' \in [package : Contents, entry : Entries, overtaken : BOOLEAN]
  BY <1>0 DEF Zip
<1>2. moved' \subseteq Callers
  BY <1>0 DEF Zip, TypeOK
<1> QED BY <1>0, <1>1, <1>2, KindEnds DEF Zip, TypeOK, review

LEMMA KindRestart == KindInv /\ Restart => KindInv'
<1> SUFFICES ASSUME KindInv, Restart PROVE KindInv'
  OBVIOUS
<1>1. TypeOK'
  BY NoJobType, GraphAssumption DEF KindInv, TypeOK, Restart, files, review, Labels, GraphAssumption
<1>2. ASSUME NEW c \in Callers PROVE LabelOK(c)'
  BY <1>2 DEF Restart, LabelOK, NoJob, Building
<1> QED BY <1>1, <1>2 DEF KindInv

LEMMA KindStep == KindInv /\ [Next]_vars => KindInv'
<1> SUFFICES ASSUME KindInv, [Next]_vars PROVE KindInv'
  OBVIOUS
<1>1. CASE UNCHANGED vars
  BY <1>1 DEF vars, KindInv, TypeOK, LabelOK, Graph
<1>2. ASSUME NEW c \in Callers, Step(c) PROVE KindInv'
  BY <1>2, KindWork, KindGraphAttempt, KindForgeUnitAttempt, KindVerify, KindCover, KindBridge,
     KindRecord, KindRoute, KindForgeUnitFailed, KindGate, KindAdd, KindReport, KindApprove,
     KindReview, KindPersist, KindAnswer, KindDecide, KindUpdateState, KindZip DEF Step
<1> QED
  BY <1>1, <1>2, KindStart, KindReadReview, KindCheckDownload, KindRestart DEF Next

(* Every file is of its kind, every attempt a run makes is one its limit       *)
(* allows, and a request never acts on a file that is not there: what an       *)
(* earlier step of some run wrote is replaced, never removed, while requests   *)
(* that rely on it are served (build_verified_goal_node and the nodes after    *)
(* it).                                                                        *)
THEOREM FilesAreOfTheirKind == Spec => []TypeOK
<1>1. KindInv => TypeOK
  BY DEF KindInv
<1> QED BY <1>1, KindInit, KindStep, PTL DEF Spec

-----------------------------------------------------------------------------
(* The registry the builds use *)

(* The entries of the job as the contract of the registry describes them: the  *)
(* version is the key, and nothing here rejects, quarantines or links one.     *)
Asset(v) ==
    [key |-> v, job |-> "job", package |-> entries[v].package,
     result |-> [package |-> entries[v].verifier.package,
                 status |-> IF entries[v].verifier.passed THEN "passed" ELSE "failed"],
     approval |-> "approved", quarantine |-> "none", linked |-> FALSE]

Assets == {Asset(v) : v \in {w \in Versions : entries[w] # None}}

(* What an entry may record here: a result that passed on its own package.     *)
PassedEvidence ==
    {[package |-> p, result |-> [package |-> p, status |-> "passed"]] : p \in Contents}

Contract == INSTANCE RegistryContract
            WITH Keys <- Versions, Jobs <- {"job"}, Evidence <- PassedEvidence,
                 assets <- Assets

(* Only add_verified touches the registry, and it adds under a free version.   *)
LEMMA AddRegisters ==
    ASSUME TypeOK, NEW c \in Callers, Add(c) PROVE Contract!Next \/ UNCHANGED Assets
<1> SUFFICES ASSUME NEW v, v = Version(job[c].mode)
             PROVE  Contract!Next \/ UNCHANGED Assets
  OBVIOUS
<1> SUFFICES ASSUME NEW p, p = package PROVE Contract!Next \/ UNCHANGED Assets
  OBVIOUS
<1> DEFINE new == [key |-> v, job |-> "job", package |-> p,
                   result |-> [package |-> p, status |-> "passed"],
                   approval |-> "approved", quarantine |-> "none", linked |-> FALSE]
<1>0. v \in Versions /\ p \in Contents /\ entries \in [Versions -> Entries \cup {None}]
  BY DEF TypeOK, Version, Versions
<1>1. CASE UNCHANGED entries
  BY <1>1 DEF Assets, Asset
<1>2. CASE Admissible /\ entries[v] = None /\ entries' = [entries EXCEPT ![v] = NewEntry]
  <2>1. NewEntry # None
    BY <1>2, EntryType, NoneIsNoEntry DEF Admissible
  <2>2. NewEntry.package = p /\ NewEntry.verifier = verifier
    BY DEF NewEntry
  <2>3. verifier.package = p /\ verifier.passed
    BY <1>2 DEF Admissible
  <2>4. /\ entries'[v] = NewEntry /\ \A w \in Versions \ {v} : entries'[w] = entries[w]
        /\ {w \in Versions : entries'[w] # None} = {w \in Versions : entries[w] # None} \cup {v}
    BY <1>0, <1>2, <2>1
  <2>5. Assets' = Assets \cup {new}
    <3>1. Asset(v)' = new
      <4>1. entries'[v].package = p /\ entries'[v].verifier = verifier
        BY <2>2, <2>4
      <4>2. (IF entries'[v].verifier.passed THEN "passed" ELSE "failed") = "passed"
        BY <2>3, <4>1
      <4>3. entries'[v].verifier.package = p
        BY <2>3, <4>1
      <4> QED BY <4>1, <4>2, <4>3 DEF Asset
    <3>2. \A w \in Versions \ {v} : Asset(w)' = Asset(w)
      BY <2>4 DEF Asset
    <3> DEFINE S == {w \in Versions : entries[w] # None}
    <3>3. S \subseteq Versions \ {v} /\ {w \in Versions : entries'[w] # None} = S \cup {v}
      BY <1>2, <2>4
    <3>4. Assets = {Asset(w) : w \in S} /\ Assets' = {Asset(w)' : w \in S \cup {v}}
      BY <3>3 DEF Assets
    <3> HIDE DEF S, new
    <3>5. \A w \in S : Asset(w)' = Asset(w)
      BY <3>2, <3>3
    <3>6. \A a : a \in Assets' <=> a \in Assets \/ a = new
      BY <3>1, <3>4, <3>5
    <3> QED BY <3>6
  <2> HIDE DEF new
  <2>6. \A a \in Assets : a.key # new.key
    BY <1>2 DEF Assets, Asset, new
  <2>7. new.key = v /\ new.job = "job"
    BY DEF new
  <2>8. \E evidence \in PassedEvidence, linked \in BOOLEAN :
           new = Contract!NewEntry(new.key, new.job, evidence, linked)
    <3>1. [package |-> p, result |-> [package |-> p, status |-> "passed"]] \in PassedEvidence
      BY <1>0 DEF PassedEvidence
    <3> QED BY <3>1, <2>7 DEF new, Contract!NewEntry
  <2>9. Contract!Register(new)
    BY <1>0, <2>5, <2>6, <2>7, <2>8 DEF Contract!Register
  <2>10. new \in Assets' \ Assets
    BY <2>5, <2>6
  <2> QED BY <2>9, <2>10 DEF Contract!Next
<1> QED BY <1>1, <1>2 DEF Add

(* To the registry, any number of overtaking builds are what its contract      *)
(* expects of a caller: an entry appears whole, under a version that had none, *)
(* backed by a verification that passed on its own package, and then stays as  *)
(* it is (LocalSkillRegistry.add_verified, as _build_verified_entry and the    *)
(* ForgeUnit bridge call it).                                                  *)
THEOREM BuildsKeepContract == Spec => Contract!Spec
<1>1. Init => Contract!Init
  BY DEF Init, Contract!Init, Assets
<1>2. KindInv /\ [Next]_vars => [Contract!Next]_Assets
  <2> SUFFICES ASSUME KindInv, [Next]_vars PROVE Contract!Next \/ UNCHANGED Assets
    OBVIOUS
  <2>1. CASE UNCHANGED entries
    BY <2>1 DEF Assets, Asset
  <2>2. ASSUME NEW c \in Callers, Step(c) PROVE Contract!Next \/ UNCHANGED Assets
    BY <2>1, <2>2, AddRegisters DEF KindInv, Step, Work, GraphAttempt, ForgeUnitAttempt, Verify,
       Cover, Bridge, Record, Route, ForgeUnitFailed, Gate, Report, Approve, Review, Persist,
       Answer, Decide, UpdateState, Zip
  <2> QED
    BY <2>1, <2>2 DEF Next, vars, Start, ReadReview, CheckDownload, Restart
<1> QED BY <1>1, <1>2, KindInit, KindStep, PTL DEF Spec, Contract!Spec

-----------------------------------------------------------------------------
(* How much a request has left to do *)

(* The steps from a label of a request to its end when it repairs nothing.     *)
Stages == [label \in Labels |->
    CASE label = "work" -> 17 [] label = "attempt" -> 16 [] label = "verify" -> 15
      [] label = "cover" -> 14 [] label = "bridge" -> 13 [] label = "record" -> 12
      [] label = "route" -> 11 [] label = "gate" -> 10 [] label = "add" -> 9
      [] label = "report" -> 8 [] label = "approve" -> 7 [] label = "review" -> 6
      [] label = "persist" -> 5 [] label = "answer" -> 4 [] label = "decide" -> 3
      [] label = "update" -> 2 [] label = "zip" -> 1 [] label = "idle" -> 0]

Remaining(c) ==
    IF Serving(c, "idle") THEN 0 ELSE 7 * (job[c].limit - job[c].count) + Stages[pc[c]]

(* A run never counts more attempts than its limit.                            *)
WithinLimit == \A c \in Callers : job[c].count <= job[c].limit

LEMMA LimitStep == KindInv /\ WithinLimit /\ [Next]_vars => WithinLimit'
<1> SUFFICES ASSUME KindInv, WithinLimit, [Next]_vars PROVE WithinLimit'
  OBVIOUS
<1>0. pc \in [Callers -> Labels] /\ job \in [Callers -> Jobs] /\ AttemptLimit \in Nat
  BY GraphAssumption DEF KindInv, TypeOK, GraphAssumption
<1>1. NoJob.count <= NoJob.limit
  BY DEF NoJob
<1>2. ASSUME NEW c \in Callers, NEW j, j.count <= j.limit, job' = [job EXCEPT ![c] = j]
      PROVE  WithinLimit'
  BY <1>0, <1>2 DEF WithinLimit
<1>3. CASE UNCHANGED job
  BY <1>3 DEF WithinLimit
<1>4. ASSUME NEW c \in Callers, Raise(c) PROVE WithinLimit'
  BY <1>1, <1>2, <1>4 DEF Raise, Note
<1>5. ASSUME NEW c \in Callers PROVE /\ job[c] \in Jobs /\ job[c].count <= job[c].limit
                                     /\ job[c].count \in Nat /\ job[c].limit \in Nat
  BY <1>0 DEF Jobs, Attempts, WithinLimit
<1>6. ASSUME NEW c \in Callers, Step(c) PROVE WithinLimit'
  <2>0. job[c] \in Jobs
    BY <1>5
  <2>1. \A x : [job[c] EXCEPT !.worked = x].count <= [job[c] EXCEPT !.worked = x].limit
    BY <1>5 DEF Jobs
  <2>2. \A x : [job[c] EXCEPT !.own = x].count <= [job[c] EXCEPT !.own = x].limit
    BY <1>5 DEF Jobs
  <2>3. \A x : [job[c] EXCEPT !.seen = x].count <= [job[c] EXCEPT !.seen = x].limit
    BY <1>5 DEF Jobs
  <2>4. CASE Work(c)
    BY <2>1, <2>4, <1>2 DEF Work, Note
  <2>5. CASE Verify(c)
    BY <2>5, <1>2, <1>5 DEF Verify, Note, Jobs
  <2>6. CASE Cover(c)
    BY <2>6, <1>2, <1>4, <1>5 DEF Cover, Note, Jobs
  <2>7. CASE Bridge(c)
    BY <2>7, <1>2, <1>3, <1>4, <1>5 DEF Bridge, Note, Jobs
  <2>8. CASE Gate(c)
    BY <2>8, <2>3, <1>2, <1>4 DEF Gate, Note
  <2>9. CASE Again(c) /\ job[c].count < job[c].limit
    <3>1. [job[c] EXCEPT !.count = @ + 1].count <= [job[c] EXCEPT !.count = @ + 1].limit
      BY <2>9, <1>5 DEF Jobs
    <3> QED BY <2>9, <3>1, <1>2 DEF Again, Note
  <2>10. CASE Route(c)
    BY <2>9, <2>10, <1>3, <1>5 DEF Route, Exhausted
  <2>11. CASE ForgeUnitFailed(c)
    BY <2>9, <2>11, <1>4, <1>5 DEF ForgeUnitFailed, KindInv, LabelOK
  <2> QED
    BY <1>3, <1>4, <1>6, <2>4, <2>5, <2>6, <2>7, <2>8, <2>10, <2>11
       DEF Step, GraphAttempt, ForgeUnitAttempt, Record, Add, Report, Approve, Review, Persist,
           Answer, Decide, UpdateState, Zip
<1>7. ASSUME NEW c \in Callers, NEW mode, NEW limit \in Attempts, Start(c, mode, limit)
      PROVE  WithinLimit'
  <2>1. 1 <= limit
    BY <1>0 DEF Attempts
  <2> QED BY <1>2, <1>7, <2>1 DEF Start, Note, NoJob
<1>8. ASSUME NEW c \in Callers, ReadReview(c) \/ CheckDownload(c) PROVE WithinLimit'
  BY <1>2, <1>8 DEF ReadReview, CheckDownload, Note, NoJob
<1>9. CASE Restart
  BY <1>1, <1>9 DEF Restart, WithinLimit
<1> QED BY <1>3, <1>6, <1>7, <1>8, <1>9 DEF Next, vars

LEMMA LimitInit == Init => WithinLimit
<1> SUFFICES ASSUME Init PROVE WithinLimit
  OBVIOUS
<1>1. job = [c \in Callers |-> NoJob]
  BY DEF Init
<1>2. NoJob.count <= NoJob.limit
  BY DEF NoJob
<1> QED BY <1>1, <1>2 DEF WithinLimit

LEMMA StagesAre ==
    /\ Stages["work"] = 17 /\ Stages["attempt"] = 16 /\ Stages["verify"] = 15
    /\ Stages["cover"] = 14 /\ Stages["bridge"] = 13 /\ Stages["record"] = 12
    /\ Stages["route"] = 11 /\ Stages["gate"] = 10 /\ Stages["add"] = 9
    /\ Stages["report"] = 8 /\ Stages["approve"] = 7 /\ Stages["review"] = 6
    /\ Stages["persist"] = 5 /\ Stages["answer"] = 4 /\ Stages["decide"] = 3
    /\ Stages["update"] = 2 /\ Stages["zip"] = 1 /\ Stages["idle"] = 0
<1>1. \A label \in Labels : Stages[label] =
        CASE label = "work" -> 17 [] label = "attempt" -> 16 [] label = "verify" -> 15
          [] label = "cover" -> 14 [] label = "bridge" -> 13 [] label = "record" -> 12
          [] label = "route" -> 11 [] label = "gate" -> 10 [] label = "add" -> 9
          [] label = "report" -> 8 [] label = "approve" -> 7 [] label = "review" -> 6
          [] label = "persist" -> 5 [] label = "answer" -> 4 [] label = "decide" -> 3
          [] label = "update" -> 2 [] label = "zip" -> 1 [] label = "idle" -> 0
  BY DEF Stages
<1> QED BY <1>1 DEF Labels

LEMMA RemainingIsNat ==
    ASSUME KindInv, WithinLimit, NEW c \in Callers
    PROVE  /\ Remaining(c) \in Nat
           /\ pc[c] # "idle" => Remaining(c) > 0
           /\ job[c].count \in Nat /\ job[c].limit \in Nat /\ job[c].limit - job[c].count \in Nat
           /\ pc[c] \in Labels
<1>1. /\ pc[c] \in Labels /\ job[c].count \in Nat /\ job[c].limit \in Nat
      /\ job[c].count <= job[c].limit
  BY GraphAssumption DEF KindInv, TypeOK, WithinLimit, Jobs, Attempts, GraphAssumption
<1>2. job[c].limit - job[c].count \in Nat
  BY <1>1
<1>3. Stages[pc[c]] \in Nat /\ (pc[c] # "idle" => Stages[pc[c]] > 0)
  BY <1>1, StagesAre DEF Labels
<1> QED BY <1>1, <1>2, <1>3 DEF Remaining, Serving

(* A step ends the request, takes it to a later label, or begins a repair.     *)
LEMMA RunDownEnds ==
    ASSUME KindInv, WithinLimit, NEW c \in Callers, pc[c] # "idle", pc'[c] = "idle"
    PROVE  Remaining(c)' < Remaining(c)
<1>1. Remaining(c)' = 0
  BY DEF Remaining, Serving
<1> QED BY <1>1, RemainingIsNat

LEMMA RunDownMoves ==
    ASSUME KindInv, WithinLimit, NEW c \in Callers, pc[c] # "idle", pc'[c] \in Labels,
           Stages[pc'[c]] < Stages[pc[c]],
           job'[c].count = job[c].count, job'[c].limit = job[c].limit
    PROVE  Remaining(c)' < Remaining(c)
<1>1. Stages[pc[c]] \in Nat /\ Stages[pc'[c]] \in Nat
  BY RemainingIsNat, StagesAre DEF Labels
<1>2. CASE pc'[c] = "idle"
  BY <1>2, RunDownEnds
<1>3. CASE pc'[c] # "idle"
  BY <1>1, <1>3, RemainingIsNat DEF Remaining, Serving
<1> QED BY <1>2, <1>3

LEMMA RunDownRepairs ==
    ASSUME KindInv, WithinLimit, NEW c \in Callers, pc[c] = "route", Again(c)
    PROVE  Remaining(c)' < Remaining(c)
<1>1. pc \in [Callers -> Labels] /\ job \in [Callers -> Jobs]
  BY DEF KindInv, TypeOK
<1>2. /\ pc'[c] = "work" /\ job'[c].count = job[c].count + 1
      /\ job'[c].limit = job[c].limit
  BY <1>1 DEF Again, Go, Note, Jobs
<1>3. /\ Remaining(c) = 7 * (job[c].limit - job[c].count) + 11
      /\ Remaining(c)' = 7 * (job[c].limit - (job[c].count + 1)) + 17
  BY <1>2, StagesAre DEF Remaining, Serving
<1> QED BY <1>3, RemainingIsNat

LEMMA StepRunsDown ==
    ASSUME KindInv, WithinLimit, NEW c \in Callers, Step(c)
    PROVE  Remaining(c)' < Remaining(c)
<1>0. pc \in [Callers -> Labels] /\ job \in [Callers -> Jobs]
  BY DEF KindInv, TypeOK
<1>1. ASSUME Raise(c), ~Serving(c, "idle") PROVE Remaining(c)' < Remaining(c)
  BY <1>0, <1>1, RunDownEnds DEF Raise, Go, Serving
<1>2. ASSUME NEW label \in Labels, Go(c, label), pc[c] # "idle",
             Stages[label] < Stages[pc[c]],
             job'[c].count = job[c].count /\ job'[c].limit = job[c].limit
      PROVE  Remaining(c)' < Remaining(c)
  BY <1>0, <1>2, RunDownMoves DEF Go
<1> DEFINE Kept == job'[c].count = job[c].count /\ job'[c].limit = job[c].limit
<1>3. UNCHANGED job => Kept
  OBVIOUS
<1>4. ASSUME NEW j, Note(c, j), j.count = job[c].count, j.limit = job[c].limit PROVE Kept
  BY <1>0, <1>4 DEF Note
<1>. job[c] \in Jobs
  BY <1>0
<1> HIDE DEF Kept
<1>5. CASE Work(c)
  <2>1. PICK ok \in BOOLEAN : Note(c, [job[c] EXCEPT !.worked = ok])
    BY <1>5 DEF Work
  <2>2. Kept
    BY <1>4, <2>1 DEF Jobs
  <2> QED BY <1>2, <1>5, <2>2, StagesAre DEF Work, Serving, Kept, Labels
<1>6. CASE GraphAttempt(c) \/ ForgeUnitAttempt(c)
  BY <1>1, <1>2, <1>3, <1>6, StagesAre DEF GraphAttempt, ForgeUnitAttempt, Serving, Kept, Labels
<1>7. CASE Verify(c)
  <2>1. PICK v : Note(c, [job[c] EXCEPT !.own.verifier = v])
    BY <1>7 DEF Verify
  <2>2. Kept
    BY <1>4, <2>1 DEF Jobs
  <2>3. PICK label \in {"cover", "route"} : Go(c, label)
    BY <1>7 DEF Verify
  <2> QED BY <1>2, <1>7, <2>2, <2>3, StagesAre DEF Verify, Serving, Kept, Labels
<1>8. CASE Cover(c)
  <2>1. \/ Go(c, "bridge") /\ \E k : Note(c, [job[c] EXCEPT !.own.coverage = k])
        \/ Raise(c)
    BY <1>8 DEF Cover
  <2>2. (\E k : Note(c, [job[c] EXCEPT !.own.coverage = k])) => Kept
    BY <1>4 DEF Jobs
  <2>3. (Go(c, "bridge") /\ Kept) \/ Raise(c)
    BY <2>1, <2>2
  <2>4. pc[c] = "cover"
    BY <1>8 DEF Cover, Serving
  <2> QED BY <1>1, <1>2, <2>3, <2>4, StagesAre DEF Serving, Kept, Labels
<1>9. CASE Bridge(c)
  <2>1. \/ Go(c, "record") /\ \E b : Note(c, [job[c] EXCEPT !.own.bridge = b])
        \/ Go(c, "add") /\ UNCHANGED job
        \/ Raise(c)
    BY <1>9 DEF Bridge
  <2>2. (\E b : Note(c, [job[c] EXCEPT !.own.bridge = b])) => Kept
    BY <1>4 DEF Jobs
  <2>3. ((Go(c, "record") \/ Go(c, "add")) /\ Kept) \/ Raise(c)
    BY <1>3, <2>1, <2>2
  <2>4. pc[c] = "bridge"
    BY <1>9 DEF Bridge, Serving
  <2> QED BY <1>1, <1>2, <2>3, <2>4, StagesAre DEF Serving, Kept, Labels
<1>10. CASE Record(c) \/ Add(c) \/ Report(c)
  BY <1>1, <1>2, <1>3, <1>10, StagesAre DEF Record, Add, Report, Serving, Kept, Labels
<1>11. CASE Route(c)
  BY <1>2, <1>3, <1>11, RunDownRepairs, StagesAre DEF Route, Serving, Kept, Labels
<1>12. CASE ForgeUnitFailed(c)
  BY <1>1, <1>12, RunDownRepairs DEF ForgeUnitFailed, Serving
<1>13. CASE Gate(c)
  <2>1. \/ /\ \/ Go(c, "approve")
              \/ Go(c, "add")
           /\ \E r : Note(c, [job[c] EXCEPT !.seen = r])
        \/ Raise(c)
    BY <1>13 DEF Gate
  <2>2. (\E r : Note(c, [job[c] EXCEPT !.seen = r])) => Kept
    BY <1>4 DEF Jobs
  <2>3. ((Go(c, "approve") \/ Go(c, "add")) /\ Kept) \/ Raise(c)
    BY <2>1, <2>2
  <2>4. pc[c] = "gate"
    BY <1>13 DEF Gate, Serving
  <2> QED BY <1>1, <1>2, <2>3, <2>4, StagesAre DEF Serving, Kept, Labels
<1>14. CASE Approve(c) \/ Review(c) \/ Persist(c) \/ Decide(c)
  BY <1>1, <1>2, <1>3, <1>14, StagesAre DEF Approve, Review, Persist, Decide, Serving, Kept, Labels
<1>15. CASE Answer(c) \/ UpdateState(c) \/ Zip(c)
  BY <1>1, <1>15 DEF Answer, UpdateState, Zip, Serving
<1> QED
  BY <1>5, <1>6, <1>7, <1>8, <1>9, <1>10, <1>11, <1>12, <1>13, <1>14, <1>15 DEF Step

(* The steps of a request move its own program only.                           *)
LEMMA OthersStay ==
    ASSUME KindInv, NEW c \in Callers, NEW d \in Callers \ {c}, Step(d)
    PROVE  pc'[c] = pc[c] /\ job'[c] = job[c]
<1>0. pc \in [Callers -> Labels] /\ job \in [Callers -> Jobs]
  BY DEF KindInv, TypeOK
<1>1. ASSUME NEW label, Go(d, label) PROVE pc'[c] = pc[c]
  BY <1>0, <1>1 DEF Go
<1>2. ASSUME NEW j, Note(d, j) PROVE job'[c] = job[c]
  BY <1>0, <1>2 DEF Note
<1>3. Raise(d) => pc'[c] = pc[c] /\ job'[c] = job[c]
  BY <1>1, <1>2 DEF Raise
<1>4. Again(d) => pc'[c] = pc[c] /\ job'[c] = job[c]
  BY <1>1, <1>2 DEF Again
<1>5. CASE Work(d) \/ GraphAttempt(d) \/ ForgeUnitAttempt(d) \/ Verify(d) \/ Cover(d) \/ Bridge(d)
           \/ Record(d)
  BY <1>1, <1>2, <1>3, <1>5 DEF Work, GraphAttempt, ForgeUnitAttempt, Verify, Cover, Bridge, Record
<1>6. CASE Route(d) \/ ForgeUnitFailed(d) \/ Gate(d) \/ Add(d) \/ Report(d) \/ Approve(d)
  BY <1>1, <1>2, <1>3, <1>4, <1>6 DEF Route, ForgeUnitFailed, Gate, Add, Report, Approve
<1>7. CASE Review(d) \/ Persist(d) \/ Answer(d) \/ Decide(d) \/ UpdateState(d) \/ Zip(d)
  BY <1>1, <1>3, <1>7 DEF Review, Persist, Answer, Decide, UpdateState, Zip
<1> QED BY <1>5, <1>6, <1>7 DEF Step

(* Every step of a request that is being served brings it nearer to its end,   *)
(* and no step of another takes it further away: whatever others do to the     *)
(* files it acts on, a request takes at most 7 steps for each repair its limit *)
(* allows and 17 besides (route_after_verification, decide_failure_route).     *)
(* With the fairness of RequestsEnd this is what ends it.                      *)
RunsDown ==
    [][\A c \in Callers :
          /\ Step(c) => Remaining(c)' < Remaining(c)
          /\ ~Serving(c, "idle") => Remaining(c)' <= Remaining(c)]_vars

RemainingBounded ==
    \A c \in Callers : Remaining(c) \in 0..(7 * (job[c].limit - 1) + 17)

THEOREM RequestsRunDown == Spec => RunsDown /\ []RemainingBounded
<1> DEFINE Inv == KindInv /\ WithinLimit
<1>1. Inv /\ [Next]_vars => Inv'
  BY KindStep, LimitStep
<1>2. Init => Inv
  BY KindInit, LimitInit
<1> DEFINE Measured == \A c \in Callers : Remaining(c) \in Nat
<1>3. Inv => Measured
  BY RemainingIsNat
<1>4. Inv' => Measured'
  <2> HIDE DEF Inv, Measured
  <2> QED BY <1>3, PTL
<1>5. ASSUME Inv, [Next]_vars, NEW c \in Callers
      PROVE  /\ Step(c) => Remaining(c)' < Remaining(c)
             /\ ~Serving(c, "idle") => Remaining(c)' <= Remaining(c)
  <2>1. Step(c) => Remaining(c)' < Remaining(c)
    BY <1>5, StepRunsDown
  <2>2. ASSUME ~Serving(c, "idle") PROVE Remaining(c)' <= Remaining(c)
    <3>0. Remaining(c) \in Nat /\ Remaining(c)' \in Nat
      BY <1>1, <1>3, <1>4, <1>5
    <3>1. pc \in [Callers -> Labels] /\ job \in [Callers -> Jobs]
      BY <1>5 DEF KindInv, TypeOK
    <3>2. CASE pc'[c] = pc[c] /\ job'[c] = job[c]
      BY <3>0, <3>2 DEF Remaining, Serving
    <3>3. CASE Restart
      BY <3>0, <3>3 DEF Restart, Remaining, Serving
    <3>4. ASSUME NEW d \in Callers, Step(d) PROVE Remaining(c)' <= Remaining(c)
      BY <1>5, <2>1, <3>0, <3>2, <3>4, OthersStay
    <3>5. ASSUME NEW d \in Callers, NEW mode, NEW limit, Start(d, mode, limit)
          PROVE  pc'[c] = pc[c] /\ job'[c] = job[c]
      BY <2>2, <3>1, <3>5 DEF Start, Serving, Go, Note
    <3>6. ASSUME NEW d \in Callers, ReadReview(d) \/ CheckDownload(d)
          PROVE  pc'[c] = pc[c] /\ job'[c] = job[c]
      BY <2>2, <3>1, <3>6 DEF ReadReview, CheckDownload, Serving, Go, Note
    <3> QED BY <1>5, <3>2, <3>3, <3>4, <3>5, <3>6 DEF Next, vars
  <2> QED BY <2>1, <2>2
<1>6. Inv => RemainingBounded
  <2> SUFFICES ASSUME Inv, NEW c \in Callers
               PROVE  Remaining(c) \in 0..(7 * (job[c].limit - 1) + 17)
    BY DEF RemainingBounded
  <2>1. /\ job[c].count \in Nat /\ job[c].limit \in Nat /\ job[c].count >= 1
        /\ job[c].count <= job[c].limit /\ pc[c] \in Labels
    BY GraphAssumption DEF KindInv, TypeOK, WithinLimit, Jobs, Attempts, GraphAssumption
  <2>2. Stages[pc[c]] \in 0..17
    BY <2>1, StagesAre DEF Labels
  <2> QED BY <2>1, <2>2 DEF Remaining
<1>7. Inv /\ [Next]_vars =>
         [\A c \in Callers :
            /\ Step(c) => Remaining(c)' < Remaining(c)
            /\ ~Serving(c, "idle") => Remaining(c)' <= Remaining(c)]_vars
  BY <1>5
<1> QED BY <1>1, <1>2, <1>6, <1>7, PTL DEF Spec, RunsDown
=============================================================================
