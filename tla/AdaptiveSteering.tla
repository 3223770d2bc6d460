-------------------------- MODULE AdaptiveSteering --------------------------
(* The adaptive build of one job: a graph whose nodes propose a next step, run *)
(* the worker on it, observe the package with the gates the job calls for,     *)
(* correct the state estimate and route.  The graph state lives in memory, the *)
(* artifacts live in the job's workspace, so a build that failed or was killed *)
(* leaves its artifacts to the build that is started next.                     *)
EXTENDS Integers

CONSTANTS
    Builds,         \* the contents of a package whose bundle is valid
    MaxIterations,  \* AdaptiveGraphConfig.max_iterations
    Threshold,      \* AdaptiveGraphConfig.repeated_failure_threshold
    MaxRuns,        \* bound: builds started on the job
    MaxKills,       \* bound: builds killed half-way
    None            \* no such file yet

ASSUME SteeringAssumption ==
    /\ MaxIterations \in Nat \ {0}
    /\ Threshold \in Nat \ {0}
    /\ MaxRuns \in Nat
    /\ MaxKills \in Nat
    /\ Builds \cap {"empty", "entrypoint_only", "bad_bundle"} = {}

(* What the gates tell apart of a package: no files, no bundle manifest, a      *)
(* manifest that is invalid or whose checks fail, or a valid bundle.            *)
Packages == {"empty", "entrypoint_only", "bad_bundle"} \cup Builds

HasSkill(p) == p # "empty"
HasManifest(p) == p \notin {"empty", "entrypoint_only"}
BundlePasses(p) == p # "bad_bundle"
BundleValid(p) == p \in Builds

Iterations == 1..MaxIterations
Routes == {"continue", "repair", "review_required", "closure"}
Results == {"passed", "failed", "review_required"}
Contracts == {"none", "build", "repair", "product_repair"}
Labels == {"idle", "propose", "execute", "report", "bundle", "verify", "coverage",
           "grade", "correct", "append"}
Outcomes == Routes \cup {"none", "killed", "refused"}

(* Which of the optional inputs the workspace holds, and the kind of worker:   *)
(* the command worker runs verifier and coverage inside its own work unit.     *)
Jobs == {j \in [matrix : BOOLEAN, full : BOOLEAN, criteria : BOOLEAN, command : BOOLEAN] :
            j.criteria => j.full}

VerifierFile == [package : Packages, passed : BOOLEAN]
CoverageFile == [package : Packages, verifier : VerifierFile, passed : BOOLEAN]
Packet == [iteration : Iterations, repair : BOOLEAN]

ASSUME NoneIsNoFile == None \notin VerifierFile \cup CoverageFile

VARIABLES
    job,            \* the inputs of the build
    package,        \* package/
    bundle,         \* bundle_verification_result.json, by the package it judged
    verifier,       \* verification_result.json
    coverage,       \* acceptance_coverage_result.json
    packet,         \* product_repair_packet.json and the iteration that wrote it
    contract,       \* next_step_contract_<iteration>.json of the current iteration
    result,         \* work_unit_result.json of the current iteration
    reports,        \* attempts/<iteration>/execution_report.json
    observations,   \* observation_report_<iteration>.json
    corrections,    \* state_correction_<iteration>.json
    ledger,         \* decision_ledger.json
    torn,           \* it was cut off half-way and cannot be read
    estimate,       \* the iteration of capability_state.json
    pc,             \* the node the build is in
    iteration,      \* adaptive_latest_iteration and attempt_count
    failures,       \* adaptive_failure_count
    route,          \* adaptive_latest_route
    failed,         \* the observation being made has failures
    closable,       \* it found a valid manifest and a passing bundle
    outcome,        \* how the last build ended
    by,             \* history: the build that recorded an iteration's decision
    runs, kills

evidence == <<package, bundle, verifier, coverage, packet>>
decisions == <<ledger, torn, by>>
artifacts == <<contract, result, reports, observations, corrections, decisions, estimate>>
graph == <<pc, iteration, failures, route, failed, closable, outcome>>
bounds == <<runs, kills>>
vars == <<job, package, bundle, verifier, coverage, packet, contract, result,
          reports, observations, corrections, ledger, torn, by, estimate, pc,
          iteration, failures, route, failed, closable, outcome, runs, kills>>

EvidenceOK ==
    /\ job \in Jobs
    /\ package \in Packages
    /\ bundle \in Packages \cup {None}
    /\ verifier \in VerifierFile \cup {None}
    /\ coverage \in CoverageFile \cup {None}
    /\ packet \in Packet \cup {None}

ArtifactsOK ==
    /\ contract \in Contracts
    /\ result \in Results
    /\ reports \in [Iterations -> {"none", "completed", "failed"}]
    /\ observations \in [Iterations -> {"none", "clean", "failed"}]
    /\ corrections \in [Iterations -> Routes \cup {"none"}]
    /\ ledger \in [Iterations -> Routes \cup {"none"}] /\ torn \in BOOLEAN
    /\ by \in [Iterations -> 0..MaxRuns]
    /\ estimate \in 0..MaxIterations

GraphOK ==
    /\ pc \in Labels
    /\ iteration \in 0..MaxIterations
    /\ pc \notin {"idle", "propose"} => iteration > 0
    /\ pc = "propose" => iteration < MaxIterations
    /\ failures \in 0..MaxIterations
    /\ route \in Routes
    /\ failed \in BOOLEAN /\ closable \in BOOLEAN
    /\ outcome \in Outcomes
    /\ runs \in 0..MaxRuns /\ kills \in 0..MaxKills

(* The node a build is in bounds its iteration.                                *)
TypeOK == EvidenceOK /\ ArtifactsOK /\ GraphOK

EmptyLedger == [i \in Iterations |-> "none"]

Init ==
    /\ job \in Jobs
    /\ package = "empty"
    /\ bundle = None /\ verifier = None /\ coverage = None /\ packet = None
    /\ contract = "none" /\ result = "passed"
    /\ reports = [i \in Iterations |-> "none"]
    /\ observations = [i \in Iterations |-> "none"]
    /\ corrections = [i \in Iterations |-> "none"]
    /\ ledger = EmptyLedger /\ torn = FALSE /\ by = [i \in Iterations |-> 0]
    /\ estimate = 0
    /\ pc = "idle" /\ iteration = 0 /\ failures = 0 /\ route = "continue"
    /\ failed = FALSE /\ closable = FALSE
    /\ outcome = "none"
    /\ runs = 0 /\ kills = 0

-----------------------------------------------------------------------------
(* A build *)

(* The workspace is reused and the ledger an earlier build left is kept.       *)
Start ==
    /\ pc = "idle"
    /\ runs < MaxRuns
    /\ runs' = runs + 1
    /\ pc' = "propose"
    /\ iteration' = 0 /\ failures' = 0 /\ route' = "continue"
    /\ failed' = FALSE /\ closable' = FALSE
    /\ estimate' = 0
    /\ outcome' = "none"
    /\ UNCHANGED <<job, evidence, contract, result, reports, observations,
                   corrections, decisions, kills>>

(* A repair follows the product repair packet when there is one that asks for  *)
(* a repair, whichever observation it comes from.                              *)
ProposedContract ==
    IF route # "repair" THEN "build"
    ELSE IF packet # None /\ packet.repair THEN "product_repair" ELSE "repair"

Propose ==
    /\ pc = "propose"
    /\ iteration' = iteration + 1
    /\ contract' = ProposedContract
    /\ route' = "continue"
    /\ pc' = "execute"
    /\ UNCHANGED <<job, evidence, result, reports, observations, corrections,
                   decisions, estimate, failures, failed, closable, outcome,
                   bounds>>

(* A worker that only reports about itself; "failed" is any result that lists  *)
(* failures.                                                                   *)
PlainWork ==
    /\ ~job.command
    /\ package' \in Packages
    /\ result' \in Results
    /\ UNCHANGED <<bundle, verifier, coverage, reports>>

(* What the command worker has on file as far as it came: the attempt bridged  *)
(* with a successful report, the package verified, its coverage evaluated.     *)
Stages == 0..(IF job.criteria THEN 3 ELSE 2)

CommandReaches(n) ==
    \E verified, covered \in BOOLEAN :
        /\ package' \in IF n = 0 THEN Packages ELSE Packages \ {"empty"}
        /\ verified => BundlePasses(package')
        /\ reports' = IF n < 1 THEN reports ELSE [reports EXCEPT ![iteration] = "completed"]
        /\ bundle' = IF n < 2 THEN bundle ELSE package'
        /\ verifier' = IF n < 2 THEN verifier
                       ELSE [package |-> package', passed |-> verified]
        /\ coverage' = IF n < 3 THEN coverage
                       ELSE [package |-> package', verifier |-> verifier', passed |-> covered]

(* It fails by what the gates find or by an exception of any step.             *)
CommandWork ==
    /\ job.command
    /\ \E n \in Stages :
          /\ CommandReaches(n)
          /\ \/ result' = "failed"
             \/ /\ n >= 2 /\ verifier'.passed
                /\ job.criteria => n = 3 /\ coverage'.passed
                /\ result' = "passed"

Execute ==
    /\ pc = "execute"
    /\ PlainWork \/ CommandWork
    /\ pc' = "report"
    /\ UNCHANGED <<job, packet, contract, observations, corrections, decisions,
                   estimate, iteration, failures, route, failed, closable,
                   outcome, bounds>>

(* An execution report that is already there is kept.                          *)
WriteReport ==
    /\ pc = "report"
    /\ reports' = IF job.full /\ reports[iteration] = "none"
                  THEN [reports EXCEPT ![iteration] =
                            IF result = "failed" THEN "failed" ELSE "completed"]
                  ELSE reports
    /\ pc' = "bundle"
    /\ UNCHANGED <<job, evidence, contract, result, observations, corrections,
                   decisions, estimate, iteration, failures, route, failed,
                   closable, outcome, bounds>>

(* The observation starts with the bundle; a missing manifest is no failure.   *)
VerifyBundle ==
    /\ pc = "bundle"
    /\ bundle' = package
    /\ failed' = (result # "passed" \/ ~BundlePasses(package))
    /\ closable' = BundleValid(package)
    /\ pc' = "verify"
    /\ UNCHANGED <<job, package, verifier, coverage, packet, artifacts,
                   iteration, failures, route, outcome, bounds>>

VerifierDue == job.full /\ ~job.matrix /\ HasSkill(package) /\ closable

(* Mutant: a verifier that raises is not counted as a failure.                 *)
RunVerifierLeniently ==
    /\ pc = "verify"
    /\ \/ /\ VerifierDue
          /\ \E passed \in BOOLEAN :
                /\ passed => BundlePasses(package) /\ reports[iteration] = "completed"
                /\ verifier' = [package |-> package, passed |-> passed]
                /\ failed' = (failed \/ ~passed)
          /\ bundle' = package
       \/ UNCHANGED <<bundle, verifier, failed>>
    /\ pc' = "coverage"
    /\ UNCHANGED <<job, package, coverage, packet, artifacts, iteration,
                   failures, route, closable, outcome, bounds>>

(* It may also raise, which is a failure that leaves the old result in place.  *)
RunVerifier ==
    /\ pc = "verify"
    /\ \/ /\ VerifierDue
          /\ \E passed \in BOOLEAN :
                /\ passed => BundlePasses(package) /\ reports[iteration] = "completed"
                /\ verifier' = [package |-> package, passed |-> passed]
                /\ failed' = (failed \/ ~passed)
          /\ bundle' = package
       \/ /\ VerifierDue
          /\ failed' = TRUE
          /\ UNCHANGED <<bundle, verifier>>
       \/ /\ ~VerifierDue
          /\ UNCHANGED <<bundle, verifier, failed>>
    /\ pc' = "coverage"
    /\ UNCHANGED <<job, package, coverage, packet, artifacts, iteration,
                   failures, route, closable, outcome, bounds>>

CoverageDue == job.criteria /\ verifier # None

EvaluateCoverage ==
    /\ pc = "coverage"
    /\ \/ /\ CoverageDue
          /\ \E passed \in BOOLEAN :
                /\ coverage' = [package |-> package, verifier |-> verifier, passed |-> passed]
                /\ failed' = (failed \/ ~passed)
       \/ /\ CoverageDue
          /\ failed' = TRUE
          /\ UNCHANGED coverage
       \/ /\ ~CoverageDue
          /\ UNCHANGED <<coverage, failed>>
    /\ pc' = "grade"
    /\ UNCHANGED <<job, package, bundle, verifier, packet, artifacts, iteration,
                   failures, route, closable, outcome, bounds>>

(* The product gate runs the package's own commands, which may write there,    *)
(* and leaves a repair packet, unless it raises.  A reviewer's findings can ask *)
(* for a repair of what the gate passes.                                       *)
Graded(passed) ==
    /\ job.matrix
    /\ package' \in Packages
    /\ \E repair \in BOOLEAN :
          /\ ~passed => repair
          /\ packet' = [iteration |-> iteration, repair |-> repair]
    /\ failed' = (failed \/ ~passed)

GradeRaises ==
    /\ job.matrix
    /\ package' \in Packages
    /\ failed' = TRUE
    /\ UNCHANGED packet

NotGraded ==
    /\ ~job.matrix
    /\ UNCHANGED <<package, packet, failed>>

(* The observation report is written last.                                     *)
Observe ==
    /\ pc = "grade"
    /\ (\E passed \in BOOLEAN : Graded(passed)) \/ GradeRaises \/ NotGraded
    /\ observations' = [observations EXCEPT ![iteration] =
                            IF failed' THEN "failed" ELSE "clean"]
    /\ pc' = "correct"
    /\ UNCHANGED <<job, bundle, verifier, coverage, contract, result, reports,
                   corrections, decisions, estimate, iteration, failures, route,
                   closable, outcome, bounds>>

(* Mutant: a clean observation does not reset the count.                       *)
FailureCountKept == IF observations[iteration] = "failed" THEN failures + 1 ELSE failures

FailureCount == IF observations[iteration] = "failed" THEN failures + 1 ELSE 0

ReadyToClose == HasSkill(package) /\ HasManifest(package) /\ closable

Decision ==
    IF FailureCount >= Threshold THEN "review_required"
    ELSE IF FailureCount > 0 THEN "repair"
    ELSE IF ReadyToClose THEN "closure" ELSE "continue"

(* The estimate and the correction are on file before the ledger is tried.     *)
Correct ==
    /\ pc = "correct"
    /\ route' = Decision
    /\ failures' = FailureCount
    /\ estimate' = iteration
    /\ corrections' = [corrections EXCEPT ![iteration] = Decision]
    /\ pc' = "append"
    /\ UNCHANGED <<job, evidence, contract, result, reports, observations,
                   decisions, iteration, failed, closable, outcome, bounds>>

(* Mutant: one iteration too many.                                             *)
LoopsOnceMore == route \in {"continue", "repair"} /\ iteration <= MaxIterations

Loops == route \in {"continue", "repair"} /\ iteration < MaxIterations

(* Mutant: a decision id the ledger holds is not refused.                      *)
DecisionFitsAnyId == ~torn

(* A decision id is the iteration's; the ledger must be readable and not hold  *)
(* it yet.                                                                     *)
DecisionFits == ~torn /\ ledger[iteration] = "none"

RecordDecision ==
    /\ DecisionFits
    /\ ledger' = [ledger EXCEPT ![iteration] = route]
    /\ by' = [by EXCEPT ![iteration] = runs]
    /\ UNCHANGED torn

AppendDecision ==
    /\ pc = "append"
    /\ RecordDecision
    /\ pc' = IF Loops THEN "propose" ELSE "idle"
    /\ outcome' = IF Loops THEN outcome ELSE route
    /\ UNCHANGED <<job, evidence, contract, result, reports, observations,
                   corrections, estimate, iteration, failures, route, failed,
                   closable, bounds>>

(* Mutant: a decision the ledger holds already is passed over.                 *)
AppendSkipped ==
    /\ pc = "append"
    /\ ~DecisionFits
    /\ pc' = IF Loops THEN "propose" ELSE "idle"
    /\ outcome' = IF Loops THEN outcome ELSE route
    /\ UNCHANGED <<job, evidence, artifacts, iteration, failures, route, failed,
                   closable, bounds>>

(* The ledger takes no such decision: the node raises.                         *)
AppendRefused ==
    /\ pc = "append"
    /\ ~DecisionFits
    /\ pc' = "idle"
    /\ outcome' = "refused"
    /\ UNCHANGED <<job, evidence, artifacts, iteration, failures, route, failed,
                   closable, bounds>>

(* What a worker or a product gate cut short may have left.                    *)
CutShort ==
    \/ /\ pc = "execute" /\ job.command
       /\ \E n \in Stages : CommandReaches(n)
    \/ /\ (pc = "execute" /\ ~job.command) \/ (pc = "grade" /\ job.matrix)
       /\ package' \in Packages
       /\ UNCHANGED <<bundle, verifier, coverage, reports>>
    \/ /\ pc # "execute"
       /\ UNCHANGED <<package, bundle, verifier, coverage, reports>>

(* The ledger is written in place, so that a write cut short loses all of it:  *)
(* the first build's empty ledger, or the one with a decision appended.  What  *)
(* is lost is not written again.                                               *)
TearLedger ==
    /\ \/ pc = "append" /\ DecisionFits
       \/ pc = "propose" /\ iteration = 0 /\ runs = 1
    /\ ledger' = EmptyLedger
    /\ torn' = TRUE
    /\ UNCHANGED by

(* The process dies, or a node raises.                                         *)
Kill ==
    /\ pc # "idle"
    /\ kills < MaxKills
    /\ kills' = kills + 1
    /\ CutShort
    /\ \/ UNCHANGED decisions
       \/ pc = "append" /\ RecordDecision
       \/ TearLedger
    /\ pc' = "idle"
    /\ outcome' = "killed"
    /\ UNCHANGED <<job, packet, contract, result, observations, corrections,
                   estimate, iteration, failures, route, failed, closable,
                   runs>>

Node ==
    \/ Propose \/ Execute \/ WriteReport \/ VerifyBundle \/ RunVerifier
    \/ EvaluateCoverage \/ Observe \/ Correct \/ AppendDecision \/ AppendRefused

Next == Start \/ Node \/ Kill

Spec == Init /\ [][Next]_vars

-----------------------------------------------------------------------------
(* Properties *)

Failed(i) == observations[i] = "failed"

LastFailed(n) == n >= Threshold /\ \A i \in (n - Threshold + 1)..n : Failed(i)

(* A build that ran its course ended in review exactly when the observations   *)
(* on file of its last iterations, as many as the threshold says, all failed:  *)
(* no build gives up early, and none goes on, closes or ends unreviewed after  *)
(* that many failures in a row.                                                *)
ReviewAfterRepeatedFailure ==
    outcome \in Routes => (outcome = "review_required" <=> LastFailed(iteration))

(* A build that closed did so on a clean observation of the package as it is:  *)
(* the bundle result is about a valid bundle, and where no product matrix      *)
(* takes the verifier's place, verification and coverage passed for this very  *)
(* package and for each other, whatever earlier iterations or builds left.     *)
ClosureOnEvidence ==
    outcome = "closure" =>
        /\ observations[iteration] = "clean"
        /\ BundleValid(bundle)
        /\ ~job.matrix => bundle = package
        /\ job.full /\ ~job.matrix =>
              verifier # None /\ verifier.passed /\ verifier.package = package
        /\ job.criteria /\ ~job.matrix =>
              coverage # None /\ coverage.passed /\ coverage.verifier = verifier

(* The ledger tells of one build, from its first decision on: although every   *)
(* build of a job starts from iteration one again with the same decision ids,  *)
(* and may die around its writes, no decision stands beside one of another     *)
(* build, none is missing before it and none follows one that ends a build;    *)
(* and a build that finished finds the ledger its own.                         *)
LedgerIsOneBuilds ==
    /\ \A i \in Iterations : ledger[i] # "none" =>
          /\ by[i] = by[1]
          /\ \A j \in 1..(i - 1) : ledger[j] \in {"continue", "repair"}
    /\ outcome \in Routes => by[1] = runs

(* A finished build is the one the artifacts tell of: its last decision, its   *)
(* correction and the state estimate agree.                                    *)
ArtifactsAgree ==
    outcome \in Routes =>
        /\ estimate = iteration
        /\ ledger[iteration] = outcome /\ corrections[iteration] = outcome
        /\ \A i \in 1..iteration : ledger[i] = corrections[i]
=============================================================================
