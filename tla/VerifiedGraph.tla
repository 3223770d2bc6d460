---------------------------- MODULE VerifiedGraph ----------------------------
(* Builds of one frozen Front Desk job through the API: the verified graph     *)
(* (build, verify, repair, human review, registry gate), the ForgeUnit product *)
(* graph that shares its files, the human review workbench and the download of *)
(* the approved package.  The API server answers each request in a thread of   *)
(* its own and nothing locks the job directory, so builds overtake one another *)
(* between any two files they write.                                           *)
(*                                                                             *)
(* A file is identified by what makes its bytes: equal records are equal       *)
(* hashes.                                                                     *)
EXTENDS Naturals

CONSTANTS
    Callers,                 \* requests that may be served at one time
    Sound, Manual, Unsound,  \* package contents; Manual needs a person to accept it
    AttemptLimit,            \* bound: largest attempt_limit asked for
    MaxBuilds,               \* bound: build requests
    MaxCalls,                \* bound: review decisions and downloads
    MaxKills,                \* bound: restarts of the server
    None                     \* no such file

ASSUME GraphAssumption ==
    /\ AttemptLimit \in Nat \ {0}
    /\ MaxBuilds \in Nat /\ MaxCalls \in Nat /\ MaxKills \in Nat
    /\ Sound \cap (Manual \cup Unsound) = {} /\ Manual \cap Unsound = {}

Contents == Sound \cup Manual \cup Unsound
Attempts == 1..AttemptLimit
Runs == 1..MaxBuilds
Modes == {"graph", "command", "repair"}
Versions == {"graph", "forgeunit"}
Version(mode) == IF mode = "graph" THEN "graph" ELSE "forgeunit"

(* attempts/<n>/: the run that wrote its execution report, and its exit status *)
Reports == [run : 0..MaxBuilds, worked : BOOLEAN]

(* verifier/verification_result.json is determined by the attempt it judges;   *)
(* the one a build writes before its worker is judged speaks of no attempt.    *)
Verdicts == [attempt : 0..AttemptLimit, run : 0..MaxBuilds, package : Contents, passed : BOOLEAN]

(* qa/manual_acceptance_record.json; shown is what the package was when it was *)
(* given, which the file does not say.                                         *)
Acceptances == [call : 1..MaxCalls, shown : Contents]

Coverages == [run : Runs, attempt : Attempts, of : Verdicts, package : Contents,
              record : Acceptances \cup {None}, passed : BOOLEAN]

Statuses == {"passed", "failed", "review_required", "unsupported"}
Bridges == [run : Runs, attempt : Attempts, of : Verdicts, cov : Coverages \cup {None},
            package : Contents, status : Statuses]

Evidence == [verifier : Verdicts \cup {None}, coverage : Coverages \cup {None},
             bridge : Bridges \cup {None}]

(* contextforge/verified_goal_runtime_result.json: what the build node judged  *)
(* itself, and the files it then found.                                        *)
Runtimes == [own : Evidence, found : Evidence, approved : BOOLEAN]

(* The records that ForgeUnit builds add to artifact_manifest.json.            *)
Manifests == [package : Contents \cup {None}, verifier : Verdicts \cup {None},
              coverage : Coverages \cup {None}, attempts : [Attempts -> Reports]]

Outcomes == {"registered", "review", "redesign"}

(* contextforge/graph_v2_state.json: the run that wrote it and how it ended;   *)
(* the run whose request it has the hash of and whose request was decided, 0   *)
(* for none.                                                                   *)
States == [run : Runs, outcome : Outcomes, request : 0..MaxBuilds, decision : 0..MaxBuilds]

Entries == [package : Contents, verifier : Verdicts, coverage : Coverages,
            bridge : Bridges, manifest : Manifests]

ASSUME NoneIsNoEntry == None \notin Entries

Labels == {"idle", "work", "attempt", "verify", "cover", "bridge", "record", "route", "gate",
           "add", "report", "approve", "review", "persist", "answer", "decide", "update", "zip"}

VARIABLES
    package, attempts, verifier, coverage, bridge, runtime, manifest, report,
    entries,   \* the registry: the job's entry of each version
    state,     \* contextforge/graph_v2_state.json
    request,   \* human_review/request.json: the run that wrote it
    accepted,  \* qa/manual_acceptance_record.json
    pc, job,   \* of each request being served
    told,      \* the last build answer
    served,    \* the last package downloaded
    moved,     \* history: downloads overtaken by a worker
    builds, calls, kills

files == <<package, attempts, verifier, coverage, bridge, runtime, manifest>>
review == <<state, request, accepted>>
bounds == <<builds, calls, kills>>
vars == <<package, attempts, verifier, coverage, bridge, runtime, manifest, report, entries,
          state, request, accepted, pc, job, told, served, moved, builds, calls, kills>>

Nothing == [verifier |-> None, coverage |-> None, bridge |-> None]
NoJob == [mode |-> "graph", run |-> 0, count |-> 1, limit |-> 1, worked |-> FALSE,
          own |-> Nothing, seen |-> None]

Placeholder(run) == [attempt |-> 0, run |-> run, package |-> package, passed |-> FALSE]

(* The job is frozen: its locked inputs are there, and nothing was built.      *)
Init ==
    /\ package \in Unsound /\ attempts = [n \in Attempts |-> [run |-> 0, worked |-> FALSE]]
    /\ verifier = None /\ coverage = None /\ bridge = None /\ runtime = None /\ report = None
    /\ manifest = [package |-> None, verifier |-> None, coverage |-> None, attempts |-> attempts]
    /\ entries = [v \in Versions |-> None]
    /\ state = None /\ request = 0 /\ accepted = None
    /\ pc = [c \in Callers |-> "idle"] /\ job = [c \in Callers |-> NoJob]
    /\ told = None /\ served = None /\ moved = {}
    /\ builds = 0 /\ calls = 0 /\ kills = 0

-----------------------------------------------------------------------------
(* What the files say. *)

(* Every record of the manifest is still true of the file it names.            *)
RecordsMatch ==
    /\ manifest.package \in {None, package}
    /\ manifest.verifier \in {None, verifier}
    /\ manifest.coverage \in {None, coverage}
    /\ \A n \in Attempts : manifest.attempts[n].run = 0 \/ manifest.attempts[n] = attempts[n]

Acceptable == package \in Sound \/ (package \in Manual /\ accepted # None)

Fresh ==
    /\ verifier # None /\ verifier.passed /\ verifier.package = package
    /\ coverage # None /\ coverage.passed
    /\ coverage.of = verifier /\ coverage.package = package

(* Mutant: the package is not compared with the one that was verified.         *)
AdmissibleAnyPackage ==
    /\ verifier.passed /\ verifier.attempt # 0 /\ attempts[verifier.attempt].worked
    /\ RecordsMatch /\ coverage # None /\ coverage.passed
    /\ bridge # None /\ bridge.status = "passed" /\ bridge.of = verifier /\ bridge.cov = coverage

(* The registry's own conditions on the evidence, read anew.                   *)
Admissible ==
    /\ verifier # None /\ verifier.passed /\ verifier.package = package
    /\ verifier.attempt # 0 /\ attempts[verifier.attempt] = [run |-> verifier.run, worked |-> TRUE]
    /\ RecordsMatch
    /\ coverage # None /\ coverage.passed
    /\ bridge # None /\ bridge.status = "passed" /\ bridge.package = package
    /\ bridge.of = verifier /\ bridge.cov = coverage

NewEntry == [package |-> package, verifier |-> verifier, coverage |-> coverage,
             bridge |-> bridge, manifest |-> manifest]

SameAsset(e) == e.package = package /\ e.verifier = verifier /\ e.manifest = manifest

(* verify_entry: everything the entry was registered on is still in place.     *)
VerifyEntry(e) ==
    /\ e # None
    /\ e.package = package /\ e.verifier = verifier /\ e.manifest = manifest
    /\ attempts[e.verifier.attempt] = [run |-> e.verifier.run, worked |-> TRUE]
    /\ RecordsMatch
    /\ e.coverage = coverage /\ e.bridge = bridge
    /\ package \in Manual => accepted = coverage.record

Found == [verifier |-> verifier, coverage |-> coverage, bridge |-> bridge]

(* What the identifiers inside a result are computed from.                     *)
VerdictId(v) == <<v.attempt, v.package, v.passed>>
CoverageId(k) == <<VerdictId(k.of), k.package, k.record, k.passed>>
BridgeId(b) == <<b.run, b.attempt>>

(* What the gate checks before it writes to the registry.                      *)
Preflight(r) ==
    /\ r.own.bridge.status = "passed" /\ r.own.verifier.passed /\ r.own.coverage.passed
    /\ r.found = Found
    /\ VerdictId(r.own.verifier) = VerdictId(verifier)
    /\ CoverageId(r.own.coverage) = CoverageId(coverage)
    /\ BridgeId(r.own.bridge) = BridgeId(bridge)
    /\ coverage.package = verifier.package
    /\ bridge.status = "passed" /\ bridge.package = verifier.package
    /\ bridge.of = verifier /\ bridge.cov = coverage

Known(old, file) == IF file = None THEN old ELSE file

-----------------------------------------------------------------------------
(* Every action of a request moves its program counter and keeps its job.      *)
Go(c, label) == pc' = [pc EXCEPT ![c] = label]
Note(c, j) == job' = [job EXCEPT ![c] = j]
Serving(c, label) == pc[c] = label
Graph(c) == job[c].mode = "graph"

(* An exception answers 500: nothing more is written.                          *)
Raise(c) == Go(c, "idle") /\ Note(c, NoJob)

Start(c, mode, limit) ==
    /\ Serving(c, "idle") /\ builds < MaxBuilds
    /\ mode = "repair" => limit >= 2
    /\ Go(c, "work")
    /\ Note(c, [NoJob EXCEPT !.mode = mode, !.run = builds + 1, !.limit = limit])
    /\ builds' = builds + 1
    /\ UNCHANGED <<files, report, entries, review, told, served, moved, calls, kills>>

(* The worker rewrites package/, whether or not it completes.                  *)
Work(c) ==
    /\ Serving(c, "work")
    /\ \E content \in Contents, ok \in BOOLEAN :
          package' = content /\ Note(c, [job[c] EXCEPT !.worked = ok])
    /\ moved' = {d \in Callers : pc[d] = "zip"} \cup moved
    /\ Go(c, "attempt")
    /\ UNCHANGED <<attempts, verifier, coverage, bridge, runtime, manifest, report, entries,
                   review, told, served, bounds>>

Attempted(c) ==
    attempts' = [attempts EXCEPT ![job[c].count] = [run |-> job[c].run, worked |-> job[c].worked]]

(* The first build of a graph run overwrites the verifier's result with a      *)
(* failed one and removes the coverage before anything is judged; a repair     *)
(* leaves them.  A repair worker that failed ends the run.                     *)
GraphAttempt(c) ==
    /\ Serving(c, "attempt") /\ Graph(c)
    /\ Attempted(c)
    /\ IF job[c].count = 1
       THEN /\ verifier' = Placeholder(job[c].run) /\ coverage' = None
            /\ Go(c, "verify") /\ UNCHANGED job
       ELSE /\ UNCHANGED <<verifier, coverage>>
            /\ IF job[c].worked THEN Go(c, "verify") /\ UNCHANGED job ELSE Raise(c)
    /\ UNCHANGED <<package, bridge, runtime, manifest, report, entries, review, told, served,
                   moved, bounds>>

(* ForgeUnit takes over a completed worker run only, and brings the manifest   *)
(* up to date with the files it finds.                                         *)
ForgeUnitAttempt(c) ==
    /\ Serving(c, "attempt") /\ ~Graph(c)
    /\ IF job[c].worked
       THEN /\ Attempted(c)
            /\ manifest' = [package |-> package, verifier |-> Known(manifest.verifier, verifier),
                            coverage |-> Known(manifest.coverage, coverage),
                            attempts |-> [manifest.attempts EXCEPT
                                             ![job[c].count] = attempts'[job[c].count]]]
            /\ Go(c, "verify") /\ UNCHANGED job
       ELSE Raise(c) /\ UNCHANGED <<attempts, manifest>>
    /\ UNCHANGED <<package, verifier, coverage, bridge, runtime, report, entries, review, told,
                   served, moved, bounds>>

Verify(c) ==
    LET n == job[c].count
        passed == attempts[n].worked /\ package \notin Unsound /\ RecordsMatch
    IN  /\ Serving(c, "verify")
        /\ verifier' = [attempt |-> n, run |-> attempts[n].run, package |-> package,
                        passed |-> passed]
        /\ manifest' = IF Graph(c) THEN manifest ELSE [manifest EXCEPT !.verifier = verifier']
        /\ Note(c, [job[c] EXCEPT !.own.verifier = verifier'])
        /\ Go(c, IF Graph(c) \/ passed THEN "cover" ELSE "route")
        /\ UNCHANGED <<package, attempts, coverage, bridge, runtime, report, entries, review,
                       told, served, moved, bounds>>

Cover(c) ==
    /\ Serving(c, "cover")
    /\ coverage' = [run |-> job[c].run, attempt |-> job[c].count, of |-> verifier,
                    package |-> package, record |-> accepted, passed |-> Acceptable]
    /\ IF Graph(c) \/ Acceptable
       THEN Go(c, "bridge") /\ Note(c, [job[c] EXCEPT !.own.coverage = coverage'])
       ELSE Raise(c)
    /\ manifest' = IF ~Graph(c) /\ Acceptable
                   THEN [manifest EXCEPT !.coverage = coverage'] ELSE manifest
    /\ UNCHANGED <<package, attempts, verifier, bridge, runtime, report, entries, review, told,
                   served, moved, bounds>>

(* The verification gate of the contract, run by ContextForge, may still ask   *)
(* for a person or find that it cannot decide.                                 *)
Bridge(c) ==
    /\ Serving(c, "bridge")
    /\ \E status \in IF Fresh THEN Statuses \ {"failed"} ELSE {"failed"} :
          /\ bridge' = [run |-> job[c].run, attempt |-> job[c].count, of |-> verifier,
                        cov |-> coverage, package |-> package, status |-> status]
          /\ IF Graph(c) THEN Go(c, "record") /\ Note(c, [job[c] EXCEPT !.own.bridge = bridge'])
             ELSE IF status = "passed" THEN Go(c, "add") /\ UNCHANGED job
             ELSE Raise(c)
    /\ UNCHANGED <<package, attempts, verifier, coverage, runtime, manifest, report, entries,
                   review, told, served, moved, bounds>>

(* The build node records what it judged beside the files it finds; it stops   *)
(* if one is gone.                                                             *)
Record(c) ==
    /\ Serving(c, "record")
    /\ IF coverage = None THEN Raise(c) /\ UNCHANGED runtime
       ELSE /\ runtime' = [own |-> job[c].own, found |-> Found, approved |-> FALSE]
            /\ Go(c, "route") /\ UNCHANGED job
    /\ UNCHANGED <<package, attempts, verifier, coverage, bridge, manifest, report, entries,
                   review, told, served, moved, bounds>>

(* Mutant: one attempt more than asked for.                                    *)
ExhaustedLate(c) == job[c].count > job[c].limit

Exhausted(c) == job[c].count >= job[c].limit

(* Mutant: a repair is not counted as an attempt.                              *)
AgainUncounted(c) == Go(c, "work") /\ UNCHANGED job

Again(c) == Go(c, "work") /\ Note(c, [job[c] EXCEPT !.count = @ + 1])

(* The bridge's status as the run itself saw it decides, not what is on file.  *)
Route(c) ==
    /\ Serving(c, "route") /\ Graph(c)
    /\ LET status == job[c].own.bridge.status
       IN  \/ status = "passed" /\ Go(c, "gate") /\ UNCHANGED job
           \/ status = "failed" /\ ~Exhausted(c) /\ Again(c)
           \/ status = "failed" /\ Exhausted(c) /\ Go(c, "review") /\ UNCHANGED job
           \/ status = "review_required" /\ Go(c, "review") /\ UNCHANGED job
           \/ status = "unsupported" /\ Go(c, "persist") /\ UNCHANGED job
    /\ UNCHANGED <<files, report, entries, review, told, served, moved, bounds>>

(* A ForgeUnit run that failed verification repairs once if it was given a     *)
(* repair command.  Otherwise its graph plans a repair or asks for a review,   *)
(* over the request on file, and the product graph then refuses the result.    *)
ForgeUnitFailed(c) ==
    /\ Serving(c, "route") /\ ~Graph(c)
    /\ IF job[c].mode = "repair" /\ job[c].count = 1 THEN Again(c) ELSE Raise(c)
    /\ request' = IF job[c].mode = "command" /\ Exhausted(c) THEN job[c].run ELSE request
    /\ UNCHANGED <<files, report, entries, state, accepted, told, served, moved, bounds>>

(* The gate reads the runtime result anew: a result another run has already    *)
(* had approved is taken as it is, any other is checked against the files.     *)
Gate(c) ==
    /\ Serving(c, "gate")
    /\ CASE runtime.approved ->
              IF report # None /\ report.version = "graph" /\ entries["graph"] # None
              THEN Go(c, "approve") /\ Note(c, [job[c] EXCEPT !.seen = runtime]) ELSE Raise(c)
         [] ~runtime.approved /\ Preflight(runtime) ->
              Go(c, "add") /\ Note(c, [job[c] EXCEPT !.seen = runtime])
         [] OTHER -> Raise(c)
    /\ UNCHANGED <<files, report, entries, review, told, served, moved, bounds>>

(* add_verified, idempotent: the same asset again answers with its entry.      *)
Add(c) ==
    LET version == Version(job[c].mode)
    IN  /\ Serving(c, "add")
        /\ IF Admissible /\ (entries[version] # None => SameAsset(entries[version]))
           THEN /\ entries' = IF entries[version] # None THEN entries
                              ELSE [entries EXCEPT ![version] = NewEntry]
                /\ Go(c, "report") /\ UNCHANGED job
           ELSE Raise(c) /\ UNCHANGED entries
        /\ UNCHANGED <<files, report, review, told, served, moved, bounds>>

(* final_report.json; ForgeUnit verifies its entry first, the graph after.     *)
Report(c) ==
    LET version == Version(job[c].mode)
    IN  /\ Serving(c, "report")
        /\ IF Graph(c) \/ VerifyEntry(entries[version])
           THEN /\ report' = [version |-> version, package |-> entries[version].package]
                /\ Go(c, IF Graph(c) THEN "approve" ELSE "answer") /\ UNCHANGED job
           ELSE Raise(c) /\ UNCHANGED report
        /\ UNCHANGED <<files, entries, review, told, served, moved, bounds>>

(* The verification on file is the one the runtime result speaks of, and the   *)
(* entry in the registry is still one of these files.                          *)
StillCurrent(r) ==
    /\ bridge = r.found.bridge /\ BridgeId(bridge) = BridgeId(r.own.bridge)
    /\ bridge.of = verifier /\ bridge.cov = coverage
    /\ VerifyEntry(entries["graph"])

(* The runtime result read at the gate is written back, approved, over what is *)
(* on file by now; only then is the evidence checked once more.  One that was  *)
(* already approved is not written.                                            *)
Approve(c) ==
    /\ Serving(c, "approve")
    /\ runtime' = IF job[c].seen.approved THEN runtime ELSE [job[c].seen EXCEPT !.approved = TRUE]
    /\ IF StillCurrent(job[c].seen)
       THEN Go(c, "persist") /\ UNCHANGED job ELSE Raise(c)
    /\ UNCHANGED <<package, attempts, verifier, coverage, bridge, manifest, report, entries,
                   review, told, served, moved, bounds>>

Review(c) ==
    /\ Serving(c, "review")
    /\ request' = job[c].run /\ Go(c, "persist")
    /\ UNCHANGED <<files, report, entries, state, accepted, job, told, served, moved, bounds>>

Outcome(c) ==
    CASE job[c].own.bridge.status = "passed" -> "registered"
      [] job[c].own.bridge.status = "unsupported" -> "redesign"
      [] OTHER -> "review"

(* The graph's state is written at its end only; a review keeps the hash of    *)
(* its request, a redesign has none.                                           *)
Persist(c) ==
    /\ Serving(c, "persist")
    /\ state' = [run |-> job[c].run, outcome |-> Outcome(c), decision |-> 0,
                 request |-> IF Outcome(c) = "review" THEN job[c].run ELSE 0]
    /\ Go(c, "answer")
    /\ UNCHANGED <<files, report, entries, request, accepted, job, told, served, moved, bounds>>

(* A graph build is answered with the final report on file, whichever run      *)
(* wrote it.                                                                   *)
Answer(c) ==
    /\ Serving(c, "answer")
    /\ told' = IF report = None THEN None
               ELSE [mode |-> job[c].mode, outcome |-> IF Graph(c) THEN Outcome(c) ELSE "registered",
                     version |-> report.version]
    /\ Raise(c)
    /\ UNCHANGED <<files, report, entries, review, served, moved, bounds>>

-----------------------------------------------------------------------------
(* The human review workbench and the download. *)

(* Mutant: any request on file will do.                                        *)
ReviewableUnhashed == state # None /\ state.outcome # "registered" /\ request # 0

(* The state on file must wait for a person, and the request must be the one   *)
(* whose hash the state has, if it has one.                                    *)
Reviewable ==
    /\ state # None /\ state.outcome # "registered"
    /\ request # 0 /\ state.request \in {0, request}

ReadReview(c) ==
    /\ Serving(c, "idle") /\ calls < MaxCalls /\ Reviewable
    /\ calls' = calls + 1
    /\ Go(c, "decide")
    /\ Note(c, [NoJob EXCEPT !.seen = [state EXCEPT !.decision = request]])
    /\ UNCHANGED <<files, report, entries, review, told, served, moved, builds, kills>>

(* A decision with covered criteria is a manual acceptance; the others only    *)
(* say what is to be done next.                                                *)
Decide(c) ==
    /\ Serving(c, "decide")
    /\ \/ accepted' = [call |-> calls, shown |-> package]
       \/ UNCHANGED accepted
    /\ Go(c, "update")
    /\ UNCHANGED <<files, report, entries, state, request, job, told, served, moved, bounds>>

(* The state read before is written back with the decision.                    *)
UpdateState(c) ==
    /\ Serving(c, "update")
    /\ state' = job[c].seen
    /\ Raise(c)
    /\ UNCHANGED <<files, report, entries, request, accepted, told, served, moved, bounds>>

(* Mutant: the registry entry is not verified again.                           *)
ApprovedByReport ==
    /\ report # None
    /\ entries[report.version] # None
    /\ entries[report.version].package = report.package

Approved ==
    /\ report # None
    /\ VerifyEntry(entries[report.version]) /\ entries[report.version].package = report.package

CheckDownload(c) ==
    /\ Serving(c, "idle") /\ calls < MaxCalls /\ Approved
    /\ calls' = calls + 1 /\ moved' = moved \ {c}
    /\ Go(c, "zip") /\ Note(c, [NoJob EXCEPT !.seen = entries[report.version]])
    /\ UNCHANGED <<files, report, entries, review, told, served, builds, kills>>

Zip(c) ==
    /\ Serving(c, "zip")
    /\ served' = [package |-> package, entry |-> job[c].seen, overtaken |-> c \in moved]
    /\ moved' = moved \ {c}
    /\ Raise(c)
    /\ UNCHANGED <<files, report, entries, review, told, bounds>>

(* The server dies and is started again: the requests are gone.                *)
Restart ==
    /\ kills < MaxKills /\ \E c \in Callers : ~Serving(c, "idle")
    /\ pc' = [c \in Callers |-> "idle"] /\ job' = [c \in Callers |-> NoJob] /\ moved' = {}
    /\ kills' = kills + 1
    /\ UNCHANGED <<files, report, entries, review, told, served, builds, calls>>

Step(c) ==
    \/ Work(c) \/ GraphAttempt(c) \/ ForgeUnitAttempt(c) \/ Verify(c) \/ Cover(c)
    \/ Bridge(c) \/ Record(c) \/ Route(c) \/ ForgeUnitFailed(c) \/ Gate(c) \/ Add(c)
    \/ Report(c) \/ Approve(c) \/ Review(c) \/ Persist(c) \/ Answer(c)
    \/ Decide(c) \/ UpdateState(c) \/ Zip(c)

Next ==
    \/ \E c \in Callers, mode \in Modes, limit \in Attempts : Start(c, mode, limit)
    \/ \E c \in Callers : ReadReview(c) \/ CheckDownload(c) \/ Step(c)
    \/ Restart

(* Each request has a thread, which runs while the server does.                *)
Spec == Init /\ [][Next]_vars /\ \A c \in Callers : WF_vars(Step(c))

-----------------------------------------------------------------------------
(* Properties. *)

Jobs == [mode : Modes, run : 0..MaxBuilds, count : Attempts, limit : Attempts,
         worked : BOOLEAN, own : Evidence,
         seen : Runtimes \cup States \cup Entries \cup {None}]

(* The attempts a run makes are the ones its limit allows, and every file is   *)
(* of its kind.                                                                *)
TypeOK ==
    /\ package \in Contents /\ attempts \in [Attempts -> Reports]
    /\ verifier \in Verdicts \cup {None} /\ coverage \in Coverages \cup {None}
    /\ bridge \in Bridges \cup {None} /\ runtime \in Runtimes \cup {None}
    /\ manifest \in Manifests
    /\ report \in [version : Versions, package : Contents] \cup {None}
    /\ entries \in [Versions -> Entries \cup {None}]
    /\ state \in States \cup {None} /\ request \in 0..MaxBuilds
    /\ accepted \in Acceptances \cup {None}
    /\ pc \in [Callers -> Labels] /\ job \in [Callers -> Jobs]
    /\ told \in [mode : Modes, outcome : Outcomes, version : Versions] \cup {None}
    /\ served \in [package : Contents, entry : Entries, overtaken : BOOLEAN] \cup {None}
    /\ moved \subseteq Callers
    /\ builds \in 0..MaxBuilds /\ calls \in 0..MaxCalls /\ kills \in 0..MaxKills

(* An entry of the registry has one package from end to end: the verifier      *)
(* passed it, the coverage was computed on it from that verdict, and where the *)
(* package needs a person, one had accepted it (build_verified_registry_gate_  *)
(* node, _build_verified_entry).  This is so however builds overtake one       *)
(* another between the files of their evidence.                                *)
RegisteredIsJudged ==
    \A v \in Versions : entries[v] # None =>
        LET e == entries[v]
        IN  /\ e.package \notin Unsound
            /\ e.package \in Manual => e.coverage.record # None
            /\ e.verifier.passed /\ e.verifier.package = e.package
            /\ e.coverage.of = e.verifier /\ e.coverage.package = e.package

(* A decision recorded in a state that asked for a review answers the request  *)
(* of that state, though another build may have replaced the request meanwhile *)
(* (record_human_review_decision).                                             *)
DecisionFitsRequest ==
    state # None => (state.decision # 0 /\ state.request # 0 => state.decision = state.request)

(* A download that no worker overtook is the package of the entry that was     *)
(* verified for it (download_approved_package).                                *)
ServedIsRegistered ==
    served # None => (served.overtaken \/ served.package = served.entry.package)

(* Every request is answered: repairs are counted whatever the files say, so   *)
(* no build goes round for ever (route_after_verification).                    *)
RequestsEnd == \A c \in Callers : []<>Serving(c, "idle")
=============================================================================
