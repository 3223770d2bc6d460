----------------------------- MODULE ProductBuild -----------------------------
(* The builds of one job by the sidecar worker, with the product gate in the   *)
(* loop: a step is proposed, the worker waits for its sidecar, the package is  *)
(* observed and graded, and the decision repeats, closes or gives up; a build  *)
(* that closed is verified and registered.  A build may die at any step, with  *)
(* its sidecar or without it, and the job be built again.                      *)
EXTENDS ProductGrade

CONSTANTS
    Threshold,  \* AdaptiveGraphConfig.repeated_failure_threshold
    MaxKills    \* bound: builds that die

ASSUME ProductBuildAssumption == Threshold \in Nat /\ MaxKills \in Nat

VARIABLES
    pc,         \* where the build is
    run,        \* the builds started so far: the last is the one that runs
    iteration,  \* adaptive_latest_iteration
    route,      \* adaptive_latest_route
    failures,   \* adaptive_failure_count
    contract,   \* which kind of step was proposed, and its expected outputs
    failed,     \* the observation has failures
    closable,   \* it found a valid bundle
    ledger,     \* the iterations decision_ledger.json takes no decision of
    outcome,    \* how the last build ended
    raised,     \* history: the gate of the last observation raised
    moved,      \* history: package/ changed since the gate read it
    kills

memory == <<iteration, route, failures, contract, failed, closable, raised>>
vars == <<worker, product, pc, run, memory, ledger, outcome, moved, kills>>

Outcomes == {"none", "killed", "refused", "review_required", "continue", "repair",
             "unverified", "registered"}

TypeOK ==
    /\ WorkerOK /\ ProductOK
    /\ pc \in {"idle", "propose", "work", "scan", "commands", "report", "plan", "correct",
               "close"}
    /\ run \in 0..MaxRuns /\ iteration \in 0..MaxIterations
    /\ route \in {"continue", "repair", "review_required", "closure"}
    /\ failures \in 0..MaxIterations
    /\ contract \in [kind : {"build", "repair", "product"}, targets : SUBSET (Refs \cup Notes)]
    /\ failed \in BOOLEAN /\ closable \in BOOLEAN
    /\ ledger \subseteq Iterations /\ outcome \in Outcomes
    /\ raised \in BOOLEAN /\ moved \in BOOLEAN /\ kills \in 0..MaxKills
    /\ (scan # None) <=> (pc \in {"commands", "report", "plan"})
    /\ call # None => pc = "work"

Fresh == [kind |-> "build", targets |-> {}]

Init ==
    /\ WorkerInit /\ ProductInit
    /\ pc = "idle" /\ run = 0 /\ iteration = 0 /\ route = "continue" /\ failures = 0
    /\ contract = Fresh /\ failed = FALSE /\ closable = FALSE /\ raised = FALSE
    /\ ledger = {} /\ outcome = "none" /\ moved = FALSE /\ kills = 0

-----------------------------------------------------------------------------
(* A workspace is prepared before it is built in.                              *)
CompileMatrix ==
    /\ run = 0
    /\ Compile
    /\ UNCHANGED <<worker, pc, run, memory, ledger, outcome, moved, kills>>

Start ==
    /\ pc = "idle" /\ run < MaxRuns
    /\ run' = run + 1
    /\ pc' = "propose" /\ outcome' = "none" /\ moved' = FALSE
    /\ UNCHANGED <<worker, product, memory, ledger, kills>>

(* What a build has in memory ends with it.                                    *)
End(o) ==
    /\ pc' = "idle" /\ outcome' = o
    /\ iteration' = 0 /\ route' = "continue" /\ failures' = 0 /\ contract' = Fresh
    /\ failed' = FALSE /\ closable' = FALSE /\ raised' = FALSE

Goes(label) == pc' = label /\ UNCHANGED outcome

(* A repair is the product's if the packet on file asks for one.               *)
Proposed ==
    IF route = "repair"
    THEN IF RepairRequired(packet)
         THEN {[kind |-> "product", targets |-> {"skill", "repair_evidence"}]}
         ELSE [kind : {"repair"},
               targets : {{"repair_evidence"} \cup more : more \in SUBSET {"skill", "manifest"}}]
    ELSE {[kind |-> "build",
           targets |-> IF files["skill"] = None THEN {"skill"}
                       ELSE IF files["manifest"] = None THEN {"manifest"}
                       ELSE {"closure_evidence"}]}

Propose ==
    /\ pc = "propose"
    /\ iteration' = iteration + 1
    /\ contract' \in Proposed
    /\ route' = "continue"
    /\ Goes("work")
    /\ Invoke(run, iteration', contract'.targets)
    /\ UNCHANGED <<product, run, failures, failed, closable, raised, ledger, moved, kills>>

Wait ==
    /\ pc = "work"
    /\ TimeOut \/ Return
    /\ UNCHANGED <<product, pc, run, memory, ledger, outcome, moved, kills>>

(* The canonical manifest is of a prompt, names SKILL.md and declares no more. *)
BundleValid == files["manifest"] \notin {None, Torn} /\ files["skill"] # None

(* The gates of AdaptiveSteering may fail as well: of a product, coverage, if  *)
(* an earlier build has left a verification.                                   *)
Observe ==
    /\ pc = "work" /\ call # None /\ call.phase = "answered"
    /\ \E other \in {FALSE} \cup {o \in {TRUE} : matrix = None \/ ledger # {}} :
          failed' = \/ call.result.status = "failed"
                    \/ files["manifest"] # None /\ ~BundleValid
                    \/ other
    /\ closable' = BundleValid
    /\ call' = None /\ contract' = Fresh
    /\ Goes(IF matrix = None THEN "correct" ELSE "scan")
    /\ UNCHANGED <<files, evidence, outputs, agents, product, run, iteration, route, failures,
                   raised, ledger, moved, kills>>

ReadPackage ==
    /\ pc = "scan"
    /\ Scan
    /\ Goes("commands")
    /\ raised' = FALSE /\ moved' = FALSE
    /\ UNCHANGED <<worker, run, iteration, route, failures, contract, failed, closable,
                   ledger, kills>>

Command ==
    /\ pc = "commands"
    /\ RunCommand
    /\ moved' = (moved \/ files' # files)
    /\ UNCHANGED <<pc, run, memory, ledger, outcome, kills>>

RuntimeChecked ==
    /\ pc = "commands"
    /\ WriteRuntime
    /\ Goes("report")
    /\ UNCHANGED <<worker, run, memory, ledger, moved, kills>>

Report ==
    /\ pc = "report"
    /\ WriteReport
    /\ Goes("plan")
    /\ UNCHANGED <<worker, run, memory, ledger, moved, kills>>

(* A product that is not of the grade is a failure of the observation.         *)
Plan ==
    /\ pc = "plan"
    /\ PlanRepair
    /\ failed' = (failed \/ ~Grade(report))
    /\ Goes("correct")
    /\ UNCHANGED <<worker, run, iteration, route, failures, contract, closable, raised,
                   ledger, moved, kills>>

(* Mutant: a gate that raises is passed over.                                  *)
RaiseIgnored ==
    /\ pc \in {"commands", "report"} \/ (pc = "plan" /\ reviewer)
    /\ Raise
    /\ raised' = TRUE
    /\ Goes("correct")
    /\ UNCHANGED <<worker, run, iteration, route, failures, contract, failed, closable,
                   ledger, moved, kills>>

(* At a command, a file it cannot hash or, with the new report on file, a      *)
(* reviewer's report that cannot be read or is of another job.                 *)
GateRaises ==
    /\ pc \in {"commands", "report"} \/ (pc = "plan" /\ reviewer)
    /\ Raise
    /\ raised' = TRUE /\ failed' = TRUE
    /\ Goes("correct")
    /\ UNCHANGED <<worker, run, iteration, route, failures, contract, closable, ledger,
                   moved, kills>>

FailureCount == IF failed THEN failures + 1 ELSE 0

Decision ==
    IF FailureCount >= Threshold THEN "review_required"
    ELSE IF failed THEN "repair"
    ELSE IF closable /\ files["skill"] # None /\ files["manifest"] # None THEN "closure"
    ELSE "continue"

(* Another round, if there is one left to make.                                *)
Follow ==
    /\ route' = Decision /\ failures' = FailureCount
    /\ Goes(IF Decision = "closure" THEN "close" ELSE "propose")
    /\ UNCHANGED <<iteration, contract, failed, closable, raised>>

(* The ledger refuses an iteration an earlier build decided.                   *)
Correct ==
    /\ pc = "correct"
    /\ ledger' = ledger \cup {iteration}
    /\ \/ iteration \in ledger /\ End("refused")
       \/ /\ iteration \notin ledger
          /\ \/ Decision = "closure"
             \/ Decision \in {"continue", "repair"} /\ iteration < MaxIterations
          /\ Follow
       \/ /\ iteration \notin ledger
          /\ \/ Decision = "review_required"
             \/ Decision \in {"continue", "repair"} /\ iteration = MaxIterations
          /\ End(Decision)
    /\ UNCHANGED <<worker, product, run, moved, kills>>

(* The output is read again, the execution report is made from it, and the     *)
(* verifier, which wants it completed, and the registry judge the package.     *)
Close ==
    /\ pc = "close"
    /\ \/ End("unverified")
       \/ /\ outputs[iteration] # None /\ outputs[iteration].status = "completed"
          /\ BundleValid
          /\ End("registered")
    /\ UNCHANGED <<worker, product, run, ledger, moved, kills>>

(* The ledger is written in place: cut short it takes no decision any more,    *)
(* and one that got its decision takes none of the next build's first step.    *)
CutLedger ==
    \/ ledger' = ledger
    \/ pc = "correct" /\ ledger' = Iterations

(* The process dies, and perhaps the sidecar with it.                          *)
Kill ==
    /\ pc # "idle" /\ kills < MaxKills
    /\ kills' = kills + 1
    /\ IF pc = "work" THEN Abandon(run) ELSE UNCHANGED worker
    /\ CutLedger
    /\ scan' = None /\ End("killed")
    /\ UNCHANGED <<matrix, reviewer, runtime, report, packet, run, moved>>

Sidecar ==
    /\ \E r \in Runs : Agent(r)
    /\ moved' = (moved \/ files' # files)
    /\ UNCHANGED <<product, pc, run, memory, ledger, outcome, kills>>

Build ==
    \/ Propose \/ Wait \/ Observe \/ ReadPackage \/ Command \/ RuntimeChecked \/ Report
    \/ Plan \/ GateRaises \/ Correct \/ Close

Next == CompileMatrix \/ Start \/ Build \/ Kill \/ Sidecar

(* A build goes on as long as it lives; nothing makes a sidecar do so.         *)
Spec == Init /\ [][Next]_vars /\ WF_vars(Build)

-----------------------------------------------------------------------------
(* A product that is registered is of the grade its matrix asks for: the       *)
(* report on file found nothing, every required command ran and passed, and,   *)
(* unless a command or an earlier build's sidecar wrote after the gate had     *)
(* read, the report is of the package that was registered and its files show   *)
(* every item that is looked for, whatever earlier builds, gates that raised   *)
(* and attempts cut short left there (ProductGradeGate.evaluate).              *)
RegisteredIsGraded ==
    (outcome = "registered" /\ matrix # None) =>
        /\ report # None /\ Grade(report)
        /\ Required # {} => runtime # None /\ runtime.checked = Required /\ runtime.passed
        /\ ~moved => /\ report.package = files
                     /\ \A item \in matrix \cap ScannedItems : Shown(files, item)

(* A work unit that is to repair the product repairs what the last observation *)
(* found: the packet it was proposed from is of the report on file and of the  *)
(* reviewer's findings, and not one that an earlier step or build left; a gate *)
(* that raised is the exception (_build_product_repair_next_step_contract).    *)
RepairAnswersGate ==
    (pc = "work" /\ contract.kind = "product" /\ ~raised) =>
        /\ packet.findings = report.findings \cup ReviewFindings
        /\ packet.findings # {}
        /\ matrix # None

(* Every build ends, though its sidecar may hang: the adapter's time-out is    *)
(* what ends the wait (SubprocessPiWorkerCommandRunner.run).                   *)
BuildsEnd == pc # "idle" ~> pc = "idle"
=============================================================================
