----------------------- MODULE AdaptiveSteeringProofs -----------------------
(* Theorems about AdaptiveSteering for every set of package contents, every    *)
(* iteration budget, every failure threshold and any number of builds and      *)
(* kills.                                                                      *)
EXTENDS AdaptiveSteering, TLAPS

USE DEF evidence, decisions, artifacts, graph, bounds

-----------------------------------------------------------------------------
(* Types *)

(* The failures counted are failures of earlier iterations, until the          *)
(* correction counts the one of this iteration too.                            *)
CountBounded ==
    /\ failures <= iteration
    /\ pc \notin {"idle", "propose", "append"} => failures < iteration

TypeInv == EvidenceOK /\ ArtifactsOK /\ GraphOK /\ CountBounded

LEMMA TypeInit == Init => TypeInv
<1> SUFFICES ASSUME Init PROVE TypeInv
  OBVIOUS
<1> USE DEF Init
<1>1. EvidenceOK
  BY DEF EvidenceOK, Packages
<1>2. ArtifactsOK
  <2>1. 0 \in 0..MaxRuns /\ 0 \in 0..MaxIterations
    BY SteeringAssumption
  <2> QED BY <2>1 DEF ArtifactsOK, Contracts, Results, EmptyLedger
<1>3. pc \in Labels /\ route \in Routes /\ outcome \in Outcomes
      /\ failed \in BOOLEAN /\ closable \in BOOLEAN
  BY DEF Labels, Routes, Outcomes
<1>4. 0 \in 0..MaxIterations /\ 0 \in 0..MaxRuns /\ 0 \in 0..MaxKills
  BY SteeringAssumption
<1>5. GraphOK /\ CountBounded
  BY <1>3, <1>4, SteeringAssumption DEF GraphOK, CountBounded
<1> QED BY <1>1, <1>2, <1>5 DEF TypeInv

LEMMA IterationInRange ==
    ASSUME GraphOK, pc \notin {"idle", "propose"} PROVE iteration \in Iterations
BY SteeringAssumption DEF GraphOK, Iterations

(* What the command worker leaves at any of its stages is well typed.          *)
LEMMA CommandType ==
    ASSUME EvidenceOK, ArtifactsOK, UNCHANGED <<job, packet>>,
           NEW n \in Stages, CommandReaches(n)
    PROVE  EvidenceOK' /\ reports' \in [Iterations -> {"none", "completed", "failed"}]
<1>1. PICK verified \in BOOLEAN, covered \in BOOLEAN :
        /\ package' \in Packages
        /\ reports' = IF n < 1 THEN reports ELSE [reports EXCEPT ![iteration] = "completed"]
        /\ bundle' = IF n < 2 THEN bundle ELSE package'
        /\ verifier' = IF n < 2 THEN verifier
                       ELSE [package |-> package', passed |-> verified]
        /\ coverage' = IF n < 3 THEN coverage
                       ELSE [package |-> package', verifier |-> verifier', passed |-> covered]
  BY DEF CommandReaches
<1>2. n < 2 => n < 3
  BY DEF Stages
<1>3. verifier' \in VerifierFile \cup {None}
  BY <1>1 DEF EvidenceOK, VerifierFile
<1>4. coverage' \in CoverageFile \cup {None}
  BY <1>1, <1>2 DEF EvidenceOK, VerifierFile, CoverageFile
<1>5. reports' \in [Iterations -> {"none", "completed", "failed"}]
  BY <1>1 DEF ArtifactsOK
<1> QED BY <1>1, <1>3, <1>4, <1>5 DEF EvidenceOK

LEMMA EvidenceStep == TypeInv /\ [Next]_vars => EvidenceOK'
<1> SUFFICES ASSUME TypeInv, [Next]_vars PROVE EvidenceOK'
  OBVIOUS
<1> USE DEF TypeInv
<1>1. CASE UNCHANGED evidence /\ job' = job
  BY <1>1 DEF EvidenceOK
<1>2. CASE Execute
  <2>1. CASE PlainWork
    BY <1>2, <2>1 DEF EvidenceOK, Execute, PlainWork
  <2>2. CASE CommandWork
    BY <1>2, <2>2, CommandType DEF Execute, CommandWork
  <2> QED BY <1>2, <2>1, <2>2 DEF Execute
<1>3. CASE VerifyBundle
  BY <1>3 DEF EvidenceOK, VerifyBundle
<1>4. CASE RunVerifier
  BY <1>4 DEF EvidenceOK, RunVerifier, VerifierFile
<1>5. CASE EvaluateCoverage
  BY <1>5 DEF EvidenceOK, EvaluateCoverage, CoverageDue, CoverageFile
<1>6. CASE Observe
  <2>1. iteration \in Iterations
    BY <1>6, IterationInRange DEF Observe
  <2> QED BY <1>6, <2>1 DEF EvidenceOK, Observe, Graded, GradeRaises, NotGraded, Packet
<1>7. CASE Kill
  <2>1. CASE pc = "execute" /\ \E n \in Stages : CommandReaches(n)
    BY <1>7, <2>1, CommandType DEF Kill
  <2>2. CASE ~(pc = "execute" /\ \E n \in Stages : CommandReaches(n))
    BY <1>7, <2>2 DEF Kill, CutShort, EvidenceOK
  <2> QED BY <2>1, <2>2
<1> QED BY <1>1, <1>2, <1>3, <1>4, <1>5, <1>6, <1>7 DEF Next, Node, Start, Propose,
           WriteReport, Correct, AppendDecision, AppendRefused, vars

(* An append, a kill and a torn write leave a well-typed ledger.               *)
DecisionsOK ==
    /\ ledger \in [Iterations -> Routes \cup {"none"}] /\ torn \in BOOLEAN
    /\ by \in [Iterations -> 0..MaxRuns]

LEMMA DecisionTypes ==
    ASSUME ArtifactsOK, GraphOK, UNCHANGED decisions \/ RecordDecision \/ TearLedger
    PROVE  DecisionsOK'
BY DEF ArtifactsOK, GraphOK, DecisionsOK, RecordDecision, TearLedger, EmptyLedger

LEMMA ArtifactsStep == TypeInv /\ [Next]_vars => ArtifactsOK'
<1> SUFFICES ASSUME TypeInv, [Next]_vars PROVE ArtifactsOK'
  OBVIOUS
<1> USE DEF TypeInv
<1>1. CASE UNCHANGED artifacts
  BY <1>1 DEF ArtifactsOK
<1>2. CASE Start
  BY <1>2, SteeringAssumption DEF ArtifactsOK, Start
<1>3. CASE Propose
  BY <1>3 DEF ArtifactsOK, Propose, ProposedContract, Contracts
<1>4. CASE Execute
  <2>1. CASE PlainWork
    BY <1>4, <2>1 DEF ArtifactsOK, Execute, PlainWork
  <2>2. CASE CommandWork
    <3>1. PICK n \in Stages : CommandReaches(n) /\ result' \in {"failed", "passed"}
      BY <2>2 DEF CommandWork
    <3>2. reports' \in [Iterations -> {"none", "completed", "failed"}]
      BY <1>4, <3>1, CommandType DEF Execute
    <3> QED BY <1>4, <3>1, <3>2 DEF ArtifactsOK, Execute, Results
  <2> QED BY <1>4, <2>1, <2>2 DEF Execute
<1>5. CASE WriteReport
  BY <1>5 DEF ArtifactsOK, WriteReport
<1>6. CASE Observe
  BY <1>6 DEF ArtifactsOK, Observe
<1>7. CASE Correct
  BY <1>7 DEF ArtifactsOK, GraphOK, Correct, Decision, Routes
<1>8. CASE AppendDecision
  BY <1>8, DecisionTypes DEF ArtifactsOK, DecisionsOK, AppendDecision
<1>9. CASE Kill
  <2>0. DecisionsOK'
    BY <1>9, DecisionTypes DEF Kill
  <2>1. CASE pc = "execute" /\ \E n \in Stages : CommandReaches(n)
    <3>1. reports' \in [Iterations -> {"none", "completed", "failed"}]
      BY <1>9, <2>1, CommandType DEF Kill
    <3> QED BY <1>9, <2>0, <3>1 DEF Kill, ArtifactsOK, DecisionsOK
  <2>2. CASE ~(pc = "execute" /\ \E n \in Stages : CommandReaches(n))
    BY <1>9, <2>0, <2>2 DEF Kill, CutShort, ArtifactsOK, DecisionsOK
  <2> QED BY <2>1, <2>2
<1> QED BY <1>1, <1>2, <1>3, <1>4, <1>5, <1>6, <1>7, <1>8, <1>9 DEF Next, Node,
           VerifyBundle, RunVerifier, EvaluateCoverage, AppendRefused, vars

LEMMA GraphStep == TypeInv /\ [Next]_vars => GraphOK' /\ CountBounded'
<1> SUFFICES ASSUME TypeInv, [Next]_vars PROVE GraphOK' /\ CountBounded'
  OBVIOUS
<1> USE SteeringAssumption DEF TypeInv, GraphOK, CountBounded, Labels
<1>1. CASE Start
  <2>1. pc' \in Labels /\ route' \in Routes /\ outcome' \in Outcomes
        /\ failed' \in BOOLEAN /\ closable' \in BOOLEAN
    BY <1>1 DEF Start, Routes, Outcomes
  <2>2. runs' \in 0..MaxRuns /\ 0 \in 0..MaxIterations /\ 0 < MaxIterations
    BY <1>1 DEF Start
  <2> QED BY <1>1, <2>1, <2>2 DEF Start
<1>2. CASE Propose
  BY <1>2 DEF Propose, Routes
<1>3. CASE Execute \/ WriteReport
  BY <1>3 DEF Execute, WriteReport
<1>4. CASE VerifyBundle
  BY <1>4 DEF VerifyBundle, BundlePasses, BundleValid
<1>5. CASE RunVerifier
  BY <1>5 DEF RunVerifier
<1>6. CASE EvaluateCoverage
  BY <1>6 DEF EvaluateCoverage
<1>7. CASE Observe
  BY <1>7 DEF Observe, Graded, GradeRaises, NotGraded
<1>8. CASE Correct
  <2>1. FailureCount \in 0..MaxIterations /\ FailureCount <= iteration
    BY <1>8 DEF Correct, FailureCount
  <2>2. Decision \in Routes
    BY DEF Decision, Routes
  <2> QED BY <1>8, <2>1, <2>2 DEF Correct
<1>9. CASE AppendDecision
  BY <1>9 DEF AppendDecision, Loops, Outcomes
<1>10. CASE AppendRefused
  BY <1>10 DEF AppendRefused, Outcomes
<1>11. CASE Kill
  BY <1>11 DEF Kill, Outcomes
<1>12. CASE UNCHANGED vars
  BY <1>12 DEF vars
<1> QED BY <1>1, <1>2, <1>3, <1>4, <1>5, <1>6, <1>7, <1>8, <1>9, <1>10, <1>11,
           <1>12 DEF Next, Node

LEMMA TypeStep == TypeInv /\ [Next]_vars => TypeInv'
BY EvidenceStep, ArtifactsStep, GraphStep DEF TypeInv

(* Every state of every build is well typed: the node a build is in bounds its *)
(* iteration, so that no build works on an iteration beyond its budget.        *)
THEOREM TypeCorrect == Spec => []TypeOK
<1>1. TypeInv => TypeOK
  BY DEF TypeInv, TypeOK
<1> QED BY <1>1, TypeInit, TypeStep, PTL DEF Spec

-----------------------------------------------------------------------------
(* The failure count *)

(* The iterations whose observation the count has taken in.                    *)
Counted ==
    IF pc \in {"execute", "report", "bundle", "verify", "coverage", "grade", "correct"}
    THEN iteration - 1 ELSE iteration

(* The count is the length of the run of failures the observations end in, and *)
(* the route that ends a build is review exactly when it reached the threshold.*)
CountsTrailing ==
    \/ pc # "idle"
    \/ outcome \in Routes
    => /\ \A i \in (Counted - failures + 1)..Counted : Failed(i)
       /\ failures < Counted => ~Failed(Counted - failures)

RouteFollowsCount ==
    pc = "append" \/ outcome \in Routes =>
        (route = "review_required" <=> failures >= Threshold)

OutcomeIsRoute ==
    outcome \in Routes => pc = "idle" /\ outcome = route /\ iteration \in Iterations

CountInv == CountsTrailing /\ RouteFollowsCount /\ OutcomeIsRoute

LEMMA CountInit == Init => CountInv
BY DEF Init, CountInv, CountsTrailing, RouteFollowsCount, OutcomeIsRoute, Routes

(* A step inside an iteration that leaves what CountInv reads as it is.        *)
LEMMA CountStable ==
    ASSUME CountInv, UNCHANGED <<iteration, failures, observations, route>>,
           outcome' = outcome,
           pc \in {"execute", "report", "bundle", "verify", "coverage"},
           pc' \in {"report", "bundle", "verify", "coverage", "grade"}
    PROVE  CountInv'
BY DEF CountInv, CountsTrailing, RouteFollowsCount, OutcomeIsRoute, Counted, Failed

LEMMA CountStep == TypeInv /\ CountInv /\ [Next]_vars => CountInv'
<1> SUFFICES ASSUME TypeInv, CountInv, [Next]_vars PROVE CountInv'
  OBVIOUS
<1> USE DEF TypeInv
<1>0. /\ iteration \in Nat /\ failures \in Nat /\ failures <= iteration
      /\ pc \notin {"idle", "propose", "append"} => failures < iteration
      /\ Threshold \in Nat \ {0}
  BY SteeringAssumption DEF GraphOK, CountBounded
<1>1. CASE Start
  BY <1>0, <1>1 DEF Start, CountInv, CountsTrailing, RouteFollowsCount, OutcomeIsRoute,
     Counted, Routes
<1>2. CASE Propose
  <2>1. Counted' = Counted /\ UNCHANGED <<failures, observations>>
    BY <1>0, <1>2 DEF Propose, Counted
  <2>2. CountsTrailing'
    BY <1>2, <2>1 DEF Propose, CountInv, CountsTrailing, Failed
  <2> QED BY <1>2, <2>2 DEF Propose, CountInv, RouteFollowsCount, OutcomeIsRoute
<1>3. CASE Execute
  BY <1>3, CountStable DEF Execute
<1>4. CASE WriteReport
  BY <1>4, CountStable DEF WriteReport
<1>5. CASE VerifyBundle
  BY <1>5, CountStable DEF VerifyBundle
<1>6. CASE RunVerifier
  BY <1>6, CountStable DEF RunVerifier
<1>7. CASE EvaluateCoverage
  BY <1>7, CountStable DEF EvaluateCoverage
<1>8. CASE Observe
  <2>1. /\ Counted = iteration - 1 /\ Counted' = Counted
        /\ UNCHANGED <<failures, iteration>> /\ pc' = "correct"
    BY <1>8 DEF Observe, Counted
  <2>2. \A i \in Int : i # iteration => (Failed(i) <=> Failed(i)')
    <3>1. observations' = [observations EXCEPT ![iteration] =
                                IF failed' THEN "failed" ELSE "clean"]
      BY <1>8 DEF Observe
    <3>2. CASE iteration \in Iterations
      <4> SUFFICES ASSUME NEW i \in Int, i # iteration
                   PROVE  observations'[i] = observations[i]
        BY DEF Failed
      <4>1. CASE i \in Iterations
        BY <3>1, <4>1 DEF ArtifactsOK
      <4>2. CASE i \notin Iterations
        BY <3>1, <4>2 DEF ArtifactsOK
      <4> QED BY <4>1, <4>2
    <3> QED BY <3>2, <1>8, IterationInRange DEF Observe
  <2>3. CountsTrailing'
    BY <1>0, <1>8, <2>1, <2>2 DEF Observe, CountInv, CountsTrailing
  <2> QED BY <1>8, <2>3 DEF Observe, CountInv, RouteFollowsCount, OutcomeIsRoute
<1>9. CASE Correct
  <2>1. /\ Counted = iteration - 1 /\ Counted' = iteration /\ pc' = "append"
        /\ UNCHANGED <<observations, iteration, outcome>>
        /\ failures' = FailureCount /\ route' = Decision
    BY <1>9 DEF Correct, Counted
  <2>2. CountsTrailing'
    <3>1. /\ \A i \in (iteration - failures)..(iteration - 1) : Failed(i)
          /\ failures < iteration - 1 => ~Failed(iteration - 1 - failures)
      BY <1>0, <1>9, <2>1 DEF Correct, CountInv, CountsTrailing
    <3>2. CASE Failed(iteration)
      <4>1. failures' = failures + 1
        BY <2>1, <3>2 DEF FailureCount, Failed
      <4>2. \A i \in (iteration - failures)..iteration : Failed(i)
        BY <1>0, <3>1, <3>2
      <4> QED BY <1>0, <2>1, <3>1, <4>1, <4>2 DEF CountsTrailing, Failed
    <3>3. CASE ~Failed(iteration)
      BY <1>0, <2>1, <3>3 DEF FailureCount, CountsTrailing, Failed
    <3> QED BY <3>2, <3>3
  <2>3. RouteFollowsCount'
    BY <1>0, <2>1 DEF RouteFollowsCount, Decision, FailureCount
  <2> QED BY <1>9, <2>1, <2>2, <2>3 DEF Correct, CountInv, OutcomeIsRoute
<1>10. CASE AppendDecision
  <2>1. Counted = iteration /\ Counted' = iteration
    BY <1>10 DEF AppendDecision, Counted
  <2>2. CountsTrailing'
    BY <1>10, <2>1 DEF AppendDecision, CountInv, CountsTrailing, Failed
  <2>3. outcome \notin Routes
    BY <1>10 DEF AppendDecision, CountInv, OutcomeIsRoute
  <2>4. RouteFollowsCount'
    BY <1>10 DEF AppendDecision, CountInv, RouteFollowsCount
  <2>5. OutcomeIsRoute'
    BY <1>10, <2>3, IterationInRange DEF AppendDecision, OutcomeIsRoute
  <2> QED BY <2>2, <2>4, <2>5 DEF CountInv
<1>11. CASE AppendRefused \/ Kill
  BY <1>11 DEF AppendRefused, Kill, CountInv, CountsTrailing, RouteFollowsCount,
     OutcomeIsRoute, Routes
<1>12. CASE UNCHANGED vars
  BY <1>12 DEF vars, CountInv, CountsTrailing, RouteFollowsCount, OutcomeIsRoute, Counted,
     Failed
<1> QED BY <1>1, <1>2, <1>3, <1>4, <1>5, <1>6, <1>7, <1>8, <1>9, <1>10, <1>11,
           <1>12 DEF Next, Node

(* A build that ran its course ended in review exactly when its last           *)
(* observations, as many as the threshold says, all failed, whatever the       *)
(* budgets and whatever earlier builds of the job left behind.                 *)
THEOREM RepeatedFailureIsReviewed == Spec => []ReviewAfterRepeatedFailure
<1>1. TypeInv /\ CountInv => ReviewAfterRepeatedFailure
  <2> SUFFICES ASSUME TypeInv, CountInv, outcome \in Routes
               PROVE  outcome = "review_required" <=> LastFailed(iteration)
    BY DEF ReviewAfterRepeatedFailure
  <2>1. /\ iteration \in Nat /\ failures \in Nat /\ failures <= iteration
        /\ Threshold \in Nat \ {0}
    BY SteeringAssumption DEF TypeInv, GraphOK, CountBounded
  <2>2. /\ outcome = "review_required" <=> failures >= Threshold
        /\ Counted = iteration
    BY DEF CountInv, RouteFollowsCount, OutcomeIsRoute, Counted
  <2>3. /\ \A i \in (iteration - failures + 1)..iteration : Failed(i)
        /\ failures < iteration => ~Failed(iteration - failures)
    BY <2>2 DEF CountInv, CountsTrailing
  <2>4. CASE failures >= Threshold
    BY <2>1, <2>2, <2>3, <2>4 DEF LastFailed
  <2>5. CASE failures < Threshold
    <3> SUFFICES ASSUME LastFailed(iteration) PROVE FALSE
      BY <2>1, <2>2, <2>5
    <3>1. iteration - failures \in (iteration - Threshold + 1)..iteration
      BY <2>1, <2>5
    <3> QED BY <2>1, <2>3, <2>5, <3>1 DEF LastFailed
  <2> QED BY <2>1, <2>4, <2>5
<1>2. Init => TypeInv /\ CountInv
  BY TypeInit, CountInit
<1>3. TypeInv /\ CountInv /\ [Next]_vars => (TypeInv /\ CountInv)'
  BY TypeStep, CountStep
<1> QED BY <1>1, <1>2, <1>3, PTL DEF Spec

-----------------------------------------------------------------------------
(* The evidence *)

Verified ==
    job.full /\ ~job.matrix =>
        verifier # None /\ verifier.passed /\ verifier.package = package

Covered ==
    job.criteria /\ ~job.matrix =>
        coverage # None /\ coverage.passed /\ coverage.verifier = verifier

(* The observation is over and nothing has been built since.                   *)
Observed == pc \in {"correct", "append"} \/ outcome = "closure"

Clean == observations[iteration] = "clean"

(* While an observation is made its verdicts are about the package as it is.   *)
Observing ==
    /\ pc \in {"verify", "coverage", "grade"} =>
          bundle = package /\ (closable => BundleValid(bundle))
    /\ pc \in {"coverage", "grade"} /\ closable /\ ~failed => Verified
    /\ pc = "grade" /\ closable /\ ~failed => Covered

(* Once it is made they still are, unless the product gate rewrote the package.*)
Judged ==
    Observed =>
        /\ ~job.matrix => bundle = package
        /\ closable => BundleValid(bundle)
        /\ closable /\ Clean => Verified /\ Covered

ClosesWhenClean ==
    (pc = "append" /\ route = "closure") \/ outcome = "closure" => Clean /\ closable

ObservationOnFile == pc = "correct" => observations[iteration] # "none"

EvidenceInv == Observing /\ Judged /\ ClosesWhenClean /\ ObservationOnFile

LEMMA EvidenceInit == Init => EvidenceInv
BY DEF Init, EvidenceInv, Observing, Judged, ClosesWhenClean, Observed, ObservationOnFile

LEMMA EvidenceKept == TypeInv /\ CountInv /\ EvidenceInv /\ [Next]_vars => EvidenceInv'
<1> SUFFICES ASSUME TypeInv, CountInv, EvidenceInv, [Next]_vars PROVE EvidenceInv'
  OBVIOUS
<1> USE DEF TypeInv, EvidenceInv
<1>0. pc # "idle" => outcome # "closure"
  BY DEF CountInv, OutcomeIsRoute, Routes
<1>1. CASE Start \/ Propose \/ Execute \/ WriteReport \/ AppendRefused \/ Kill
  <2>1. pc' \in {"idle", "propose", "execute", "report", "bundle"}
        /\ outcome' # "closure"
    BY <1>0, <1>1 DEF Start, Propose, Execute, WriteReport, AppendRefused, Kill
  <2> QED BY <2>1 DEF Observing, Judged, ClosesWhenClean, ObservationOnFile, Observed
<1>2. CASE VerifyBundle
  <2>1. /\ pc' = "verify" /\ outcome' # "closure" /\ bundle' = package'
        /\ closable' = BundleValid(bundle')
    BY <1>0, <1>2 DEF VerifyBundle
  <2> QED BY <2>1 DEF Observing, Judged, ClosesWhenClean, ObservationOnFile, Observed
<1>3. CASE RunVerifier
  <2>1. /\ pc = "verify" /\ pc' = "coverage" /\ outcome' # "closure"
        /\ bundle = package /\ (closable => BundleValid(bundle))
        /\ UNCHANGED <<job, package, closable>>
    BY <1>0, <1>3 DEF RunVerifier, Observing
  <2>2. bundle' = package'
    BY <1>3, <2>1 DEF RunVerifier
  <2>3. ASSUME closable', ~failed' PROVE Verified'
    <3>1. HasSkill(package)
      BY <2>1, <2>3, SteeringAssumption DEF BundleValid, HasSkill
    <3>2. ~VerifierDue => ~(job.full /\ ~job.matrix)
      BY <2>1, <2>3, <3>1 DEF VerifierDue
    <3>3. CASE ~VerifierDue
      BY <2>1, <3>2, <3>3 DEF Verified
    <3>4. CASE VerifierDue
      <4>1. PICK passed \in BOOLEAN :
              /\ verifier' = [package |-> package, passed |-> passed]
              /\ failed' = (failed \/ ~passed)
        BY <1>3, <2>3, <3>4 DEF RunVerifier
      <4>2. verifier' \in VerifierFile /\ verifier'.passed /\ verifier'.package = package
        BY <2>3, <4>1 DEF EvidenceOK, VerifierFile
      <4> QED BY <2>1, <4>2, NoneIsNoFile DEF Verified
    <3> QED BY <3>3, <3>4
  <2> QED BY <2>1, <2>2, <2>3 DEF Observing, Judged, ClosesWhenClean, ObservationOnFile, Observed
<1>4. CASE EvaluateCoverage
  <2>1. /\ pc = "coverage" /\ pc' = "grade" /\ outcome' # "closure"
        /\ bundle = package /\ (closable => BundleValid(bundle))
        /\ UNCHANGED <<job, package, bundle, verifier, closable>>
    BY <1>0, <1>4 DEF EvaluateCoverage, Observing
  <2>2. closable /\ ~failed' => Verified
    <3>1. ~failed' => ~failed
      BY <1>4 DEF EvaluateCoverage
    <3> QED BY <2>1, <3>1 DEF Observing
  <2>3. ASSUME closable, ~failed', job.criteria, ~job.matrix
        PROVE  coverage' # None /\ coverage'.passed /\ coverage'.verifier = verifier
    <3>1. CoverageDue
      BY <2>2, <2>3 DEF CoverageDue, Verified, EvidenceOK, Jobs
    <3>2. PICK passed \in BOOLEAN :
            /\ coverage' = [package |-> package, verifier |-> verifier, passed |-> passed]
            /\ failed' = (failed \/ ~passed)
      BY <1>4, <2>3, <3>1 DEF EvaluateCoverage
    <3>3. coverage' \in CoverageFile /\ coverage'.passed /\ coverage'.verifier = verifier
      BY <2>3, <3>1, <3>2 DEF EvidenceOK, CoverageDue, CoverageFile
    <3> QED BY <3>3, NoneIsNoFile
  <2> QED BY <2>1, <2>2, <2>3 DEF Observing, Judged, ClosesWhenClean, ObservationOnFile, Observed,
             Verified, Covered
<1>5. CASE Observe
  <2>1. /\ pc = "grade" /\ pc' = "correct" /\ outcome' # "closure"
        /\ UNCHANGED <<job, bundle, verifier, coverage, closable, iteration>>
        /\ ~job.matrix => package' = package
        /\ ~failed' => ~failed
    BY <1>0, <1>5 DEF Observe, Graded, GradeRaises, NotGraded
  <2>2. (Clean' => ~failed') /\ observations'[iteration] # "none"
    BY <1>5, IterationInRange DEF Observe, Clean, ArtifactsOK
  <2> QED BY <2>1, <2>2 DEF Observing, Judged, ClosesWhenClean, ObservationOnFile, Observed, Verified,
             Covered
<1>6. CASE Correct
  <2>1. /\ pc = "correct" /\ pc' = "append" /\ outcome' # "closure"
        /\ route' = Decision /\ UNCHANGED <<evidence, job, closable, observations, iteration>>
    BY <1>0, <1>6 DEF Correct
  <2>2. Decision = "closure" => closable /\ Clean
    <3>1. observations[iteration] \in {"none", "clean", "failed"} /\ failures \in Nat
      BY <2>1, IterationInRange DEF ArtifactsOK, GraphOK
    <3>2. Decision = "closure" => closable /\ ~Failed(iteration)
      BY <3>1 DEF Decision, FailureCount, ReadyToClose, Failed
    <3>3. observations[iteration] # "none"
      BY <2>1 DEF ObservationOnFile
    <3> QED BY <3>1, <3>2, <3>3 DEF Clean, Failed
  <2> QED BY <2>1, <2>2 DEF Observing, Judged, ClosesWhenClean, ObservationOnFile, Observed, Clean,
             Verified, Covered
<1>7. CASE AppendDecision
  <2>1. /\ pc = "append" /\ pc' \in {"idle", "propose"}
        /\ outcome' = "closure" => route = "closure"
        /\ UNCHANGED <<evidence, job, closable, observations, iteration, route>>
    BY <1>0, <1>7 DEF AppendDecision
  <2> QED BY <2>1 DEF Observing, Judged, ClosesWhenClean, ObservationOnFile, Observed, Clean, Verified,
             Covered
<1>8. CASE UNCHANGED vars
  BY <1>8 DEF vars, Observing, Judged, ClosesWhenClean, ObservationOnFile, Observed, Clean, Verified,
     Covered
<1> QED BY <1>1, <1>2, <1>3, <1>4, <1>5, <1>6, <1>7, <1>8 DEF Next, Node

(* A build closes only on a clean observation of the package as it is: valid   *)
(* bundle and, where no product matrix replaces them, verification and         *)
(* coverage passed for this package, whatever is left of earlier work.         *)
THEOREM ClosureRestsOnEvidence == Spec => []ClosureOnEvidence
<1>1. EvidenceInv /\ CountInv /\ TypeInv => ClosureOnEvidence
  BY DEF EvidenceInv, Judged, ClosesWhenClean, Observed, Clean, Verified, Covered,
     ClosureOnEvidence
<1>2. Init => TypeInv /\ CountInv /\ EvidenceInv
  BY TypeInit, CountInit, EvidenceInit
<1>3. TypeInv /\ CountInv /\ EvidenceInv /\ [Next]_vars
        => (TypeInv /\ CountInv /\ EvidenceInv)'
  BY TypeStep, CountStep, EvidenceKept
<1> QED BY <1>1, <1>2, <1>3, PTL DEF Spec

-----------------------------------------------------------------------------
(* The artifacts *)

(* The iterations whose decision this build has recorded.                      *)
Settled ==
    IF pc \in {"idle", "propose"} THEN iteration ELSE iteration - 1

Recorded ==
    /\ pc # "idle" \/ outcome \in Routes =>
          \A i \in 1..Settled : ledger[i] = corrections[i]
    /\ pc = "append" => estimate = iteration /\ corrections[iteration] = route
    /\ outcome \in Routes => estimate = iteration /\ corrections[iteration] = outcome

LEMMA RecordedInit == Init => Recorded
BY DEF Init, Recorded, Routes

LEMMA RecordedStep == TypeInv /\ CountInv /\ Recorded /\ [Next]_vars => Recorded'
<1> SUFFICES ASSUME TypeInv, CountInv, Recorded, [Next]_vars PROVE Recorded'
  OBVIOUS
<1> USE DEF TypeInv
<1>0. /\ iteration \in Nat
      /\ pc # "idle" => outcome \notin Routes
      /\ pc \notin {"idle", "propose"} => iteration \in Iterations
  BY IterationInRange DEF GraphOK, CountInv, OutcomeIsRoute
<1>1. CASE Start
  BY <1>1 DEF Start, Recorded, Settled, Routes
<1>2. CASE Propose
  <2>1. /\ pc' = "execute" /\ pc = "propose" /\ Settled' = Settled
        /\ UNCHANGED <<ledger, corrections, outcome>>
    BY <1>0, <1>2 DEF Propose, Settled
  <2> QED BY <1>0, <2>1 DEF Recorded
<1>3. CASE Execute \/ WriteReport \/ VerifyBundle \/ RunVerifier \/ EvaluateCoverage
          \/ Observe
  <2>1. /\ pc' \in {"report", "bundle", "verify", "coverage", "grade", "correct"}
        /\ pc \in {"execute", "report", "bundle", "verify", "coverage", "grade"}
        /\ UNCHANGED <<ledger, corrections, outcome, iteration>>
    BY <1>3 DEF Execute, WriteReport, VerifyBundle, RunVerifier, EvaluateCoverage, Observe
  <2> QED BY <1>0, <2>1 DEF Recorded, Settled
<1>4. CASE Correct
  <2>1. /\ pc = "correct" /\ pc' = "append" /\ estimate' = iteration
        /\ route' = Decision
        /\ corrections' = [corrections EXCEPT ![iteration] = Decision]
        /\ UNCHANGED <<ledger, outcome, iteration>>
    BY <1>4 DEF Correct
  <2>2. Settled = iteration - 1 /\ Settled' = iteration - 1
    BY <2>1 DEF Settled
  <2>3. \A i \in 1..Settled : corrections'[i] = corrections[i]
    BY <1>0, <2>1, <2>2 DEF ArtifactsOK, Iterations
  <2>4. corrections'[iteration] = route'
    BY <1>0, <2>1 DEF ArtifactsOK
  <2> QED BY <1>0, <2>1, <2>2, <2>3, <2>4 DEF Recorded
<1>5. CASE AppendDecision
  <2>1. /\ pc = "append" /\ ledger' = [ledger EXCEPT ![iteration] = route]
        /\ pc' \in {"idle", "propose"}
        /\ outcome' \in Routes => outcome' = route
        /\ UNCHANGED <<estimate, corrections, iteration, route>>
    BY <1>0, <1>5 DEF AppendDecision, RecordDecision
  <2>2. Settled = iteration - 1 /\ Settled' = iteration
    BY <2>1 DEF Settled
  <2>3. \A i \in 1..(iteration - 1) : ledger'[i] = corrections'[i]
    BY <1>0, <2>1, <2>2 DEF Recorded, ArtifactsOK, Iterations
  <2>4. ledger'[iteration] = corrections'[iteration]
    BY <1>0, <2>1 DEF Recorded, ArtifactsOK
  <2>5. \A i \in 1..iteration : ledger'[i] = corrections'[i]
    BY <1>0, <2>3, <2>4
  <2> QED BY <2>1, <2>2, <2>5 DEF Recorded
<1>6. CASE AppendRefused \/ Kill
  BY <1>6 DEF AppendRefused, Kill, Recorded, Routes
<1>7. CASE UNCHANGED vars
  BY <1>7 DEF vars, Recorded, Settled
<1> QED BY <1>1, <1>2, <1>3, <1>4, <1>5, <1>6, <1>7 DEF Next, Node

(* The artifacts of a finished build tell of that build and of no other: its   *)
(* estimate, its corrections and the ledger agree to the last decision,        *)
(* whatever the builds before it left in the workspace.                        *)
THEOREM FinishedBuildsAgree == Spec => []ArtifactsAgree
<1>1. TypeInv /\ CountInv /\ Recorded => ArtifactsAgree
  <2> SUFFICES ASSUME TypeInv, CountInv, Recorded, outcome \in Routes
               PROVE  /\ estimate = iteration
                      /\ ledger[iteration] = outcome /\ corrections[iteration] = outcome
                      /\ \A i \in 1..iteration : ledger[i] = corrections[i]
    BY DEF ArtifactsAgree
  <2>1. pc = "idle" /\ iteration \in Iterations
    BY DEF CountInv, OutcomeIsRoute
  <2>2. \A i \in 1..iteration : ledger[i] = corrections[i]
    BY <2>1 DEF Recorded, Settled
  <2>3. iteration \in 1..iteration
    BY <2>1, SteeringAssumption DEF Iterations
  <2> QED BY <2>2, <2>3 DEF Recorded
<1>2. Init => TypeInv /\ CountInv /\ Recorded
  BY TypeInit, CountInit, RecordedInit
<1>3. TypeInv /\ CountInv /\ Recorded /\ [Next]_vars => (TypeInv /\ CountInv /\ Recorded)'
  BY TypeStep, CountStep, RecordedStep
<1> QED BY <1>1, <1>2, <1>3, PTL DEF Spec

-----------------------------------------------------------------------------
(* The ledger *)

GoesOn == {"continue", "repair"}

(* Every decision on file is of one build, follows all before it, and those    *)
(* were to go on.                                                              *)
OneBuild ==
    \A i \in Iterations : ledger[i] # "none" =>
        /\ by[i] = by[1]
        /\ \A j \in 1..(i - 1) : ledger[j] \in GoesOn

(* A build at work has recorded a decision of each iteration it settled.       *)
Recording ==
    pc # "idle" => \A i \in 1..Settled : ledger[i] \in GoesOn /\ by[i] = runs

LedgerInv ==
    /\ OneBuild /\ Recording
    /\ outcome \in Routes => pc = "idle" /\ by[1] = runs

LEMMA LedgerInit == Init => LedgerInv
BY DEF Init, LedgerInv, OneBuild, Recording, EmptyLedger, Routes

(* The decision of the iteration at work continues the build's own record.     *)
LEMMA RecordsOn ==
    ASSUME TypeInv, LedgerInv, pc = "append", RecordDecision, UNCHANGED runs
    PROVE  /\ OneBuild' /\ by'[1] = runs
           /\ iteration \in Iterations /\ ledger'[iteration] = route
           /\ \A i \in 1..(iteration - 1) : ledger'[i] \in GoesOn
           /\ \A i \in 1..iteration : by'[i] = runs
<1>1. iteration \in Iterations /\ 1 \in Iterations
  BY IterationInRange, SteeringAssumption DEF TypeInv, Iterations
<1>2. /\ ledger[iteration] = "none"
      /\ ledger' = [ledger EXCEPT ![iteration] = route]
      /\ by' = [by EXCEPT ![iteration] = runs]
      /\ ledger \in [Iterations -> Routes \cup {"none"}] /\ by \in [Iterations -> 0..MaxRuns]
  BY DEF RecordDecision, DecisionFits, TypeInv, ArtifactsOK
<1>3. \A i \in 1..(iteration - 1) : ledger[i] \in GoesOn /\ by[i] = runs
  BY DEF LedgerInv, Recording, Settled
<1>4. \A i \in Iterations : i > iteration => ledger[i] = "none"
  <2> SUFFICES ASSUME NEW i \in Iterations, i > iteration, ledger[i] # "none" PROVE FALSE
    OBVIOUS
  <2>1. iteration \in 1..(i - 1)
    BY <1>1, SteeringAssumption DEF Iterations
  <2> QED BY <1>2, <2>1 DEF LedgerInv, OneBuild, GoesOn
<1>5. \A i \in 1..iteration : i \in Iterations /\ (i # iteration => i \in 1..(iteration - 1))
  BY <1>1, SteeringAssumption DEF Iterations
<1>6. \A i \in 1..iteration : by'[i] = runs
  BY <1>1, <1>2, <1>3, <1>5
<1>7. ledger'[iteration] = route
  BY <1>1, <1>2
<1>8. \A i \in 1..(iteration - 1) : ledger'[i] \in GoesOn
  BY <1>1, <1>2, <1>3, SteeringAssumption DEF Iterations
<1>9. by'[1] = runs
  BY <1>1, <1>6, SteeringAssumption DEF Iterations
<1>10. ASSUME NEW i \in Iterations, ledger'[i] # "none"
       PROVE  by'[i] = by'[1] /\ \A j \in 1..(i - 1) : ledger'[j] \in GoesOn
  <2>1. i \in 1..iteration
    BY <1>1, <1>2, <1>4, <1>10, SteeringAssumption DEF Iterations
  <2>2. \A j \in 1..(i - 1) : j \in 1..(iteration - 1)
    BY <1>1, <2>1, SteeringAssumption DEF Iterations
  <2> QED BY <1>6, <1>8, <1>9, <2>1, <2>2
<1> QED BY <1>1, <1>6, <1>7, <1>8, <1>9, <1>10 DEF OneBuild

LEMMA LedgerStep == TypeInv /\ LedgerInv /\ [Next]_vars => LedgerInv'
<1> SUFFICES ASSUME TypeInv, LedgerInv, [Next]_vars PROVE LedgerInv'
  OBVIOUS
<1>0. /\ iteration \in Nat
      /\ pc # "idle" => outcome \notin Routes
      /\ pc \notin {"idle", "propose"} => iteration \in Iterations
  BY IterationInRange DEF TypeInv, GraphOK, LedgerInv
<1>1. CASE Start
  BY <1>1 DEF Start, LedgerInv, OneBuild, Recording, Settled, Routes
<1>2. CASE Propose \/ Execute \/ WriteReport \/ VerifyBundle \/ RunVerifier
          \/ EvaluateCoverage \/ Observe \/ Correct
  <2>1. /\ pc # "idle" /\ pc' # "idle" /\ UNCHANGED <<ledger, by, outcome, runs>>
        /\ Settled' = Settled
    BY <1>0, <1>2 DEF Propose, Execute, WriteReport, VerifyBundle, RunVerifier,
       EvaluateCoverage, Observe, Correct, Settled
  <2> QED BY <1>0, <2>1 DEF LedgerInv, OneBuild, Recording
<1>3. CASE AppendDecision
  <2>1. /\ pc = "append" /\ RecordDecision /\ UNCHANGED <<runs, iteration>>
        /\ pc' = "idle" \/ (pc' = "propose" /\ route \in GoesOn /\ outcome' = outcome)
    BY <1>3 DEF AppendDecision, Loops, GoesOn
  <2>2. /\ OneBuild' /\ by'[1] = runs
        /\ iteration \in Iterations /\ ledger'[iteration] = route
        /\ \A i \in 1..(iteration - 1) : ledger'[i] \in GoesOn
        /\ \A i \in 1..iteration : by'[i] = runs
    BY <2>1, RecordsOn
  <2>3. ASSUME pc' = "propose"
        PROVE  \A i \in 1..Settled' : ledger'[i] \in GoesOn /\ by'[i] = runs'
    BY <1>0, <2>1, <2>2, <2>3 DEF Settled
  <2> QED BY <1>0, <2>1, <2>2, <2>3 DEF LedgerInv, Recording
<1>4. CASE AppendRefused
  BY <1>4 DEF AppendRefused, LedgerInv, OneBuild, Recording, Routes
<1>5. CASE Kill
  <2>1. pc' = "idle" /\ outcome' \notin Routes /\ UNCHANGED runs
    BY <1>5 DEF Kill, Routes
  <2>2. CASE UNCHANGED decisions
    BY <2>1, <2>2 DEF LedgerInv, OneBuild, Recording
  <2>3. CASE pc = "append" /\ RecordDecision
    BY <2>1, <2>3, RecordsOn DEF LedgerInv, Recording
  <2>4. CASE TearLedger
    BY <2>1, <2>4 DEF TearLedger, EmptyLedger, LedgerInv, OneBuild, Recording
  <2> QED BY <1>5, <2>2, <2>3, <2>4 DEF Kill
<1>6. CASE UNCHANGED vars
  BY <1>6 DEF vars, LedgerInv, OneBuild, Recording, Settled
<1> QED BY <1>1, <1>2, <1>3, <1>4, <1>5, <1>6 DEF Next, Node

(* Whatever builds start on a job, and wherever they die: what the ledger      *)
(* holds is the unbroken record of one of them, and a build that finished      *)
(* finds its own (append_decision_record, DecisionLedger.validate).            *)
THEOREM LedgerTellsOfOneBuild == Spec => []LedgerIsOneBuilds
<1>1. LedgerInv => LedgerIsOneBuilds
  BY DEF LedgerInv, OneBuild, GoesOn, LedgerIsOneBuilds
<1>2. Init => TypeInv /\ LedgerInv
  BY TypeInit, LedgerInit
<1>3. TypeInv /\ LedgerInv /\ [Next]_vars => (TypeInv /\ LedgerInv)'
  BY TypeStep, LedgerStep
<1> QED BY <1>1, <1>2, <1>3, PTL DEF Spec
=============================================================================
