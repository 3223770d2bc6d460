-------------------------- MODULE ProductBuildProofs --------------------------
(* Theorems about ProductBuild for every job and every text an agent may       *)
(* write, and every number of builds, work units and kills.                    *)
EXTENDS ProductBuild, TLAPS, FiniteSetTheorems

-----------------------------------------------------------------------------
(* Type correctness *)

(* A live model is asked again only while it has writes left.                  *)
WritesLeft ==
    \A r \in Runs : Busy(r, "tools") /\ agents[r].provider = "live"
                        => agents[r].writes < MaxWrites

WorkerInv == WorkerOK /\ files \in Package /\ WritesLeft

(* A build counts at most one failure for each work unit it has decided.       *)
Counting ==
    /\ pc # "idle" => run \in Runs
    /\ pc = "idle" => iteration = 0 /\ failures = 0
    /\ pc = "propose" => failures <= iteration /\ iteration < MaxIterations
    /\ pc \in {"work", "scan", "commands", "report", "plan", "correct"} => failures < iteration
    /\ pc = "close" => iteration \in Iterations
    /\ pc = "plan" => report # None

TypeInv == TypeOK /\ WorkerInv /\ Counting

LEMMA TypeInit == Init => TypeInv
<1> SUFFICES ASSUME Init PROVE TypeInv
  OBVIOUS
<1> USE WorkerAssumption DEF Init, WorkerInit, ProductInit
<1>1. files \in Package /\ WritesLeft
  BY DEF Package, WritesLeft, Busy, Running
<1>2. WorkerOK
  <2>1. \A ref \in Refs : files[ref] \in Contents(ref)
    BY DEF Contents
  <2> QED BY <2>1 DEF WorkerOK
<1>3. ProductOK
  BY DEF ProductOK
<1>4. Counting
  BY DEF Counting
<1>5. contract \in [kind : {"build", "repair", "product"}, targets : SUBSET (Refs \cup Notes)]
  BY DEF Fresh
<1>6. /\ run \in 0..MaxRuns /\ iteration \in 0..MaxIterations /\ failures \in 0..MaxIterations
      /\ kills \in 0..MaxKills
  BY ProductBuildAssumption
<1> QED BY <1>1, <1>2, <1>3, <1>4, <1>5, <1>6 DEF TypeInv, TypeOK, WorkerInv, Outcomes

(* Writing a text that its file may hold keeps the package one.                *)
LEMMA FileTyped ==
    ASSUME WorkerInv, NEW ref \in Refs, NEW text \in Written[ref] \cup {t \in {Torn} : ref \in Cut},
           files' = [files EXCEPT ![ref] = text]
    PROVE  /\ files' \in Package /\ DOMAIN files' = Refs
           /\ \A f \in Refs : files'[f] \in Contents(f)
<1>1. text \in Contents(ref) /\ text \in (UNION {Written[f] : f \in Refs}) \cup {Torn, None}
  BY DEF Contents
<1>2. files' \in Package
  BY <1>1 DEF WorkerInv, Package
<1>3. ASSUME NEW f \in Refs PROVE files'[f] \in Contents(f)
  BY <1>1, <1>3 DEF WorkerInv, WorkerOK, Package
<1> QED BY <1>2, <1>3 DEF Package

LEMMA AgentTyped ==
    ASSUME WorkerInv, NEW r \in Runs, NEW a \in Agents, Become(r, a),
           a.phase = "tools" /\ a.provider = "live" => a.writes < MaxWrites
    PROVE  agents' \in [Runs -> Agents \cup {None}] /\ WritesLeft'
BY DEF WorkerInv, WorkerOK, WritesLeft, Busy, Become

LEMMA AgentGone ==
    ASSUME WorkerInv, NEW r \in Runs, Become(r, None)
    PROVE  agents' \in [Runs -> Agents \cup {None}] /\ WritesLeft'
BY DEF WorkerInv, WorkerOK, WritesLeft, Busy, Become

LEMMA StopTyped ==
    ASSUME WorkerInv, WorkerAssumption, NEW r \in Runs, Running(r),
           NEW phase \in {"exited", "crashed"}, Stop(r, phase)
    PROVE  agents' \in [Runs -> Agents \cup {None}] /\ WritesLeft'
<1> DEFINE a == [agents[r] EXCEPT !.phase = phase, !.targets = {}, !.planned = {},
                                  !.refused = FALSE, !.writes = 0]
<1>1. agents[r] \in Agents
  BY DEF WorkerInv, WorkerOK, Running
<1>2. a \in Agents /\ a.phase = phase
  <2> DEFINE b == [agents[r] EXCEPT !.phase = phase, !.targets = {}, !.planned = {}]
  <2>1. b \in Agents /\ b.phase = phase
    BY <1>1 DEF Agents
  <2> DEFINE d == [b EXCEPT !.refused = FALSE]
  <2>2. a = [d EXCEPT !.writes = 0]
    OBVIOUS
  <2> HIDE DEF a, b
  <2>3. d \in Agents /\ d.phase = phase
    BY <2>1 DEF Agents
  <2>4. 0 \in 0..MaxWrites
    BY WorkerAssumption
  <2> HIDE DEF d
  <2> QED BY <2>2, <2>3, <2>4 DEF Agents
<1>3. CASE call = None \/ call.run # r
  BY <1>3, AgentGone DEF Stop
<1>4. CASE ~(call = None \/ call.run # r)
  <2>1. Become(r, a)
    BY <1>4 DEF Stop
  <2> HIDE DEF a
  <2> QED BY <1>2, <2>1, AgentTyped
<1> QED BY <1>3, <1>4

(* The sidecar of a build keeps files, evidence, outputs and agents typed.     *)
LEMMA AgentType ==
    ASSUME WorkerInv, NEW r \in Runs, Agent(r) PROVE WorkerInv'
<1> USE WorkerAssumption
<1> DEFINE a == agents[r]
<1>0. Running(r) => a \in Agents
  BY DEF WorkerInv, WorkerOK, Running
<1>1. CASE Ask(r)
  <2>0. a \in Agents
    BY <1>0, <1>1 DEF Ask, Busy, Running
  <2>1. CASE MayCall(a) /\ Phase(r, "tools")
    <3> DEFINE b == [a EXCEPT !.phase = "tools"]
    <3>1. b \in Agents /\ (b.provider = "live" => b.writes < MaxWrites)
      BY <2>0, <2>1 DEF Agents, MayCall
    <3>2. Become(r, b)
      BY <2>1 DEF Phase
    <3> HIDE DEF b
    <3>3. agents' \in [Runs -> Agents \cup {None}] /\ WritesLeft'
      BY <3>1, <3>2, AgentTyped
    <3> QED BY <1>1, <3>3 DEF Ask, WorkerInv, WorkerOK, Contents
  <2>2. CASE Phase(r, "collect")
    <3> DEFINE b == [a EXCEPT !.phase = "collect"]
    <3>1. b \in Agents /\ b.phase = "collect"
      BY <2>0 DEF Agents
    <3>2. Become(r, b)
      BY <2>2 DEF Phase
    <3> HIDE DEF b
    <3>3. agents' \in [Runs -> Agents \cup {None}] /\ WritesLeft'
      BY <3>1, <3>2, AgentTyped
    <3> QED BY <1>1, <3>3 DEF Ask, WorkerInv, WorkerOK, Contents
  <2> QED BY <1>1, <2>1, <2>2 DEF Ask
<1>2. CASE WriteFile(r)
  <2>0. a \in Agents /\ a.phase = "tools" /\ (a.provider = "live" => a.writes < MaxWrites)
    BY <1>0, <1>2 DEF WriteFile, Busy, Running, WorkerInv, WritesLeft
  <2>1. PICK ref \in Writable(a) :
          /\ Write(a.iteration, ref)
          /\ IF a.provider = "live" THEN Called(r, [a EXCEPT !.writes = @ + 1])
             ELSE Called(r, [a EXCEPT !.planned = @ \ {ref}])
    BY <1>2 DEF WriteFile
  <2>2. agents' \in [Runs -> Agents \cup {None}] /\ WritesLeft'
    <3>1. CASE a.provider = "live"
      <4> DEFINE b == [a EXCEPT !.writes = @ + 1]
                 d == [b EXCEPT !.phase = "ask"]
      <4>0. a.writes + 1 \in 0..MaxWrites
        BY <2>0, <3>1 DEF Agents
      <4>1. b \in Agents /\ d \in Agents /\ d.phase = "ask"
        BY <2>0, <4>0 DEF Agents
      <4>2. Become(r, d) \/ (b.writes < MaxWrites /\ Become(r, b))
        BY <2>1, <3>1 DEF Called
      <4> HIDE DEF b, d
      <4> QED BY <4>1, <4>2, AgentTyped
    <3>2. CASE a.provider # "live"
      <4> DEFINE b == [a EXCEPT !.planned = @ \ {ref}]
                 d == [b EXCEPT !.phase = "ask"]
      <4>1. b.provider # "live" /\ d \in Agents /\ d.phase = "ask"
        BY <2>0, <3>2 DEF Agents
      <4>2. Become(r, d)
        BY <2>1, <3>2, <4>1 DEF Called
      <4> HIDE DEF b, d
      <4> QED BY <4>1, <4>2, AgentTyped
    <3> QED BY <3>1, <3>2
  <2>3. /\ files' \in Package /\ DOMAIN files' = Refs
        /\ \A f \in Refs : files'[f] \in Contents(f)
    BY <2>1, FileTyped DEF Write, WorkerInv, WorkerOK, Contents
  <2>4. evidence' \in [Iterations -> SUBSET Notes]
    BY <2>1 DEF Write, WorkerInv, WorkerOK
  <2> QED BY <1>2, <2>2, <2>3, <2>4 DEF WriteFile, WorkerInv, WorkerOK
<1>3. CASE RefuseCall(r)
  <2>0. a \in Agents /\ a.phase = "tools" /\ a.provider = "live" /\ a.writes < MaxWrites
    BY <1>0, <1>3 DEF RefuseCall, Busy, Running, WorkerInv, WritesLeft
  <2> DEFINE b == [a EXCEPT !.refused = TRUE]
             d == [b EXCEPT !.phase = "ask"]
  <2>1. b \in Agents /\ d \in Agents /\ d.phase = "ask" /\ b.writes < MaxWrites
    BY <2>0 DEF Agents
  <2>2. Become(r, d) \/ Become(r, b)
    BY <1>3 DEF RefuseCall, Called
  <2> HIDE DEF b, d
  <2>3. agents' \in [Runs -> Agents \cup {None}] /\ WritesLeft'
    BY <2>1, <2>2, AgentTyped
  <2> QED BY <1>3, <2>3 DEF RefuseCall, WorkerInv, WorkerOK, Contents
<1>4. CASE Finish(r)
  <2>1. Running(r) /\ Stop(r, "exited")
    BY <1>4 DEF Finish, Busy, Running
  <2>2. agents' \in [Runs -> Agents \cup {None}] /\ WritesLeft'
    BY <2>1, StopTyped
  <2>3. [run |-> r, status |-> Status(a)] \in Outputs
    BY DEF Outputs, Status
  <2>4. outputs' \in [Iterations -> Outputs \cup {None}]
    BY <1>4, <2>3 DEF Finish, WorkerInv, WorkerOK
  <2> QED BY <1>4, <2>2, <2>4 DEF Finish, WorkerInv, WorkerOK, Contents
<1>5. CASE Crash(r)
  <2>1. agents' \in [Runs -> Agents \cup {None}] /\ WritesLeft'
    BY <1>5, StopTyped DEF Crash
  <2> QED BY <1>5, <2>1 DEF Crash, WorkerInv, WorkerOK, Contents
<1> QED BY <1>1, <1>2, <1>3, <1>4, <1>5 DEF Agent

(* So do the adapter's own steps.                                              *)
LEMMA InvokeType ==
    ASSUME WorkerInv, NEW r \in Runs, NEW i \in Iterations,
           NEW targets \in SUBSET (Refs \cup Notes), Invoke(r, i, targets)
    PROVE  WorkerInv' /\ call'.run = r
<1> USE WorkerAssumption
<1>1. PICK provider \in Providers :
          Become(r, [iteration |-> i, targets |-> targets,
                     planned |-> IF provider = "faux" THEN targets ELSE {},
                     refused |-> FALSE, writes |-> 0, provider |-> provider, phase |-> "ask"])
  BY DEF Invoke
<1> DEFINE a == [iteration |-> i, targets |-> targets,
                 planned |-> IF provider = "faux" THEN targets ELSE {},
                 refused |-> FALSE, writes |-> 0, provider |-> provider, phase |-> "ask"]
<1>2. a \in Agents /\ a.phase = "ask" /\ Become(r, a)
  BY <1>1 DEF Agents
<1> HIDE DEF a
<1>3. agents' \in [Runs -> Agents \cup {None}] /\ WritesLeft'
  BY <1>2, AgentTyped
<1>4. call' \in Calls /\ call'.run = r
  BY DEF Invoke, Calls
<1> QED BY <1>3, <1>4 DEF Invoke, WorkerInv, WorkerOK, Contents

LEMMA AnswerTyped ==
    ASSUME WorkerInv, Waiting, NEW result \in Outputs \cup {None}, Answer(result)
    PROVE  call' \in Calls
BY DEF WorkerInv, WorkerOK, Waiting, Answer, Calls

LEMMA FailTyped ==
    ASSUME WorkerInv, Waiting, Fail
    PROVE  call' \in Calls /\ outputs' \in [Iterations -> Outputs \cup {None}]
<1>1. call \in Calls
  BY DEF WorkerInv, WorkerOK, Waiting
<1>2. Failure \in Outputs
  BY <1>1 DEF Failure, Outputs, Calls
<1> QED BY <1>2, AnswerTyped DEF Fail, WorkerInv, WorkerOK

LEMMA TearTyped ==
    ASSUME WorkerInv, NEW r \in Runs, MayTear(r)
    PROVE  /\ files' \in Package /\ DOMAIN files' = Refs
           /\ \A f \in Refs : files'[f] \in Contents(f)
<1>1. CASE UNCHANGED files
  BY <1>1 DEF WorkerInv, WorkerOK, Contents
<1>2. CASE Busy(r, "tools")
             /\ \E ref \in Writable(agents[r]) \cap Cut : files' = [files EXCEPT ![ref] = Torn]
  <2>1. PICK ref \in Writable(agents[r]) \cap Cut : files' = [files EXCEPT ![ref] = Torn]
    BY <1>2
  <2>2. CASE ref \in Refs
    BY <2>1, <2>2, FileTyped
  <2>3. CASE ref \notin Refs
    <3>1. files' = files
      BY <2>1, <2>3 DEF WorkerInv, Package
    <3> QED BY <1>1, <3>1
  <2> QED BY <2>2, <2>3
<1> QED BY <1>1, <1>2 DEF MayTear

LEMMA WaitType ==
    ASSUME WorkerInv, TimeOut \/ Return
    PROVE  WorkerInv' /\ call # None /\ call' \in Calls
<1>0. call # None /\ call \in Calls /\ call.run \in Runs
  BY DEF TimeOut, Return, Waiting, WorkerInv, WorkerOK, Calls
<1>1. CASE TimeOut
  <2>1. Become(call.run, None)
    BY <1>1 DEF TimeOut
  <2>2. agents' \in [Runs -> Agents \cup {None}] /\ WritesLeft'
    BY <1>0, <2>1, AgentGone
  <2>3. /\ files' \in Package /\ DOMAIN files' = Refs
        /\ \A f \in Refs : files'[f] \in Contents(f)
    BY <1>0, <1>1, TearTyped DEF TimeOut
  <2>4. call' \in Calls /\ outputs' \in [Iterations -> Outputs \cup {None}]
    BY <1>1, FailTyped DEF TimeOut
  <2> QED BY <1>0, <1>1, <2>2, <2>3, <2>4 DEF TimeOut, WorkerInv, WorkerOK
<1>2. CASE Return
  <2>1. Waiting /\ Become(call.run, None)
    BY <1>2 DEF Return
  <2>2. agents' \in [Runs -> Agents \cup {None}] /\ WritesLeft'
    BY <1>0, <2>1, AgentGone
  <2>3. CASE outputs[call.iteration] # None /\ Answer(outputs[call.iteration]) /\ UNCHANGED outputs
    <3>1. outputs[call.iteration] \in Outputs
      BY <1>0, <2>3 DEF WorkerInv, WorkerOK, Calls
    <3>2. call' \in Calls
      BY <2>1, <2>3, <3>1, AnswerTyped
    <3> QED BY <1>0, <1>2, <2>2, <2>3, <3>2 DEF Return, WorkerInv, WorkerOK, Contents
  <2>4. CASE Fail
    <3>1. call' \in Calls /\ outputs' \in [Iterations -> Outputs \cup {None}]
      BY <2>1, <2>4, FailTyped
    <3> QED BY <1>0, <1>2, <2>2, <3>1 DEF Return, WorkerInv, WorkerOK, Contents
  <2> QED BY <1>2, <2>3, <2>4 DEF Return
<1> QED BY <1>1, <1>2

LEMMA AbandonType ==
    ASSUME WorkerInv, NEW r \in Runs, Abandon(r) PROVE WorkerInv'
<1>1. CASE MayTear(r) /\ Become(r, None)
  <2>1. agents' \in [Runs -> Agents \cup {None}] /\ WritesLeft'
    BY <1>1, AgentGone
  <2>2. /\ files' \in Package /\ DOMAIN files' = Refs
        /\ \A f \in Refs : files'[f] \in Contents(f)
    BY <1>1, TearTyped
  <2> QED BY <2>1, <2>2 DEF Abandon, WorkerInv, WorkerOK
<1>2. CASE UNCHANGED <<files, agents>>
  BY <1>2 DEF Abandon, WorkerInv, WorkerOK, WritesLeft, Busy, Contents
<1>3. CASE Become(r, None) /\ UNCHANGED files
  <2>1. agents' \in [Runs -> Agents \cup {None}] /\ WritesLeft'
    BY <1>3, AgentGone
  <2> QED BY <1>3, <2>1 DEF Abandon, WorkerInv, WorkerOK, Contents
<1> QED BY <1>1, <1>2, <1>3 DEF Abandon

-----------------------------------------------------------------------------
(* A matrix has items of the compiler only, whichever profiles are selected.   *)
LEMMA ItemsTyped == ASSUME NEW p PROVE Items(p) \subseteq AllItems
BY DEF Items, AllItems, ScannedItems, RuntimeItems, ServiceItems

LEMMA CompileType ==
    ASSUME ProductOK, ProductAssumption, Compile PROVE ProductOK'
BY ItemsTyped DEF Compile, ProductOK, ProductAssumption

LEMMA ScanType ==
    ASSUME ProductOK, files \in Package, Scan PROVE ProductOK' /\ scan' \in Scans
BY DEF Scan, ProductOK, Scans, Required

LEMMA CommandType ==
    ASSUME ProductOK, WorkerInv, ProductAssumption, RunCommand
    PROVE  ProductOK' /\ scan' \in Scans /\ WorkerInv'
<1>1. scan \in Scans
  BY SMTT(30) DEF RunCommand, ProductOK
<1>2. PICK bad \in BOOLEAN :
        scan' = [scan EXCEPT !.todo = @ \ {CHOOSE item \in @ : TRUE}, !.failed = @ \/ bad]
  BY DEF RunCommand
<1>3. scan' \in Scans
  BY <1>1, <1>2 DEF Scans
<1>4. /\ files' \in Package /\ DOMAIN files' = Refs
      /\ \A f \in Refs : files'[f] \in Contents(f)
  <2>1. CASE UNCHANGED files
    BY <2>1 DEF WorkerInv, WorkerOK, Contents
  <2>2. CASE \E ref \in Touched : \E text \in Written[ref] : files' = [files EXCEPT ![ref] = text]
    BY <2>2, FileTyped DEF ProductAssumption
  <2> QED BY <2>1, <2>2 DEF RunCommand
<1> QED BY <1>3, <1>4 DEF RunCommand, ProductOK, WorkerInv, WorkerOK, WritesLeft, Busy

LEMMA RuntimeType ==
    ASSUME ProductOK, WriteRuntime PROVE ProductOK'
<1>1. scan \in Scans
  BY DEF WriteRuntime, ProductOK
<1>2. Required \in SUBSET RuntimeItems /\ Checked \in SUBSET RuntimeItems
  BY DEF Required, Checked
<1>3. RuntimePassed \in BOOLEAN
  BY <1>1 DEF RuntimePassed, Scans
<1>4. [checked |-> Checked, missing |-> Required \ Checked, passed |-> RuntimePassed] \in Results
  BY <1>2, <1>3 DEF Results
<1> QED BY <1>4 DEF WriteRuntime, ProductOK

LEMMA ReportType ==
    ASSUME ProductOK, files \in Package, WriteReport PROVE ProductOK' /\ report' \in Reports
<1>1. GateFindings \in SUBSET Findings
  BY DEF GateFindings, MatrixFindings, Findings
<1> QED BY <1>1 DEF WriteReport, ProductOK, Reports

LEMMA PlanType ==
    ASSUME ProductOK, report \in Reports, PlanRepair PROVE ProductOK'
BY DEF PlanRepair, ProductOK, Packets, Reports, ReviewFindings, Findings

-----------------------------------------------------------------------------
(* The actions of a build. *)

(* What a build has in memory ends with it.                                    *)
LEMMA EndType ==
    ASSUME NEW o \in Outcomes, End(o)
    PROVE  /\ pc' = "idle" /\ outcome' \in Outcomes
           /\ iteration' = 0 /\ failures' = 0 /\ route' = "continue"
           /\ contract' \in [kind : {"build", "repair", "product"},
                            targets : SUBSET (Refs \cup Notes)]
           /\ failed' \in BOOLEAN /\ closable' \in BOOLEAN /\ raised' \in BOOLEAN
           /\ iteration' \in 0..MaxIterations /\ failures' \in 0..MaxIterations
<1>1. 0 \in 0..MaxIterations
  BY WorkerAssumption
<1>2. Fresh \in [kind : {"build", "repair", "product"}, targets : SUBSET (Refs \cup Notes)]
  BY DEF Fresh
<1> QED BY <1>1, <1>2 DEF End

LEMMA WorkerKept == ASSUME WorkerInv, UNCHANGED worker PROVE WorkerInv'
BY DEF worker, WorkerInv, WorkerOK, WritesLeft, Busy, Contents

LEMMA ProductKept == ASSUME ProductOK, UNCHANGED product PROVE ProductOK'
BY DEF product, ProductOK

LEMMA ProposeType == ASSUME TypeInv, Propose PROVE TypeInv'
<1> USE WorkerAssumption
<1>1. /\ run \in Runs /\ iteration' \in Iterations /\ failures < iteration'
      /\ iteration' \in 0..MaxIterations
  BY DEF Propose, TypeInv, TypeOK, Counting, Iterations, Runs
<1>2. contract' \in [kind : {"build", "repair", "product"}, targets : SUBSET (Refs \cup Notes)]
  <2>1. contract' \in Proposed
    BY DEF Propose
  <2>2. CASE route = "repair" /\ RepairRequired(packet)
    BY <2>1, <2>2 DEF Proposed, Refs, Notes
  <2>3. CASE route = "repair" /\ ~RepairRequired(packet)
    <3>1. PICK more \in SUBSET {"skill", "manifest"} :
            contract' \in [kind : {"repair"}, targets : {{"repair_evidence"} \cup more}]
      BY <2>1, <2>3 DEF Proposed
    <3>2. {"repair_evidence"} \cup more \in SUBSET (Refs \cup Notes)
      BY DEF Refs, Notes
    <3> QED BY <3>1, <3>2
  <2>4. CASE route # "repair"
    BY <2>1, <2>4 DEF Proposed, Refs, Notes
  <2> QED BY <2>2, <2>3, <2>4
<1>3. contract'.targets \in SUBSET (Refs \cup Notes)
  BY <1>2
<1>4. WorkerInv' /\ ProductOK'
  BY <1>1, <1>3, InvokeType, ProductKept DEF Propose, TypeInv, TypeOK
<1>5. scan' = scan /\ scan = None
  BY DEF Propose, product, TypeInv, TypeOK
<1> QED BY <1>1, <1>2, <1>4, <1>5 DEF Propose, Goes, product, TypeInv, TypeOK, Counting, WorkerInv

LEMMA WaitStepType == ASSUME TypeInv, Wait PROVE TypeInv'
<1>1. WorkerInv' /\ ProductOK'
  BY WaitType, ProductKept DEF Wait, TypeInv, TypeOK
<1> QED BY <1>1 DEF Wait, memory, product, TypeInv, TypeOK, Counting, WorkerInv

LEMMA ObserveType == ASSUME TypeInv, Observe PROVE TypeInv'
<1>1. WorkerInv'
  BY DEF Observe, TypeInv, WorkerInv, WorkerOK, WritesLeft, Busy, Contents
<1>2. ProductOK'
  BY ProductKept DEF Observe, TypeInv, TypeOK
<1>3. failed' \in BOOLEAN /\ closable' \in BOOLEAN
  BY DEF Observe, BundleValid
<1>4. contract' \in [kind : {"build", "repair", "product"}, targets : SUBSET (Refs \cup Notes)]
  BY DEF Observe, Fresh
<1> QED BY <1>1, <1>2, <1>3, <1>4 DEF Observe, Goes, product, TypeInv, TypeOK, Counting, WorkerInv

LEMMA GateType ==
    ASSUME TypeInv, ReadPackage \/ Command \/ RuntimeChecked \/ Report \/ Plan \/ GateRaises
    PROVE  TypeInv'
<1> USE NoneIsNoResult
<1>1. CASE ReadPackage
  <2>1. WorkerInv' /\ ProductOK' /\ scan' \in Scans
    BY <1>1, WorkerKept, ScanType DEF ReadPackage, TypeInv, TypeOK, WorkerInv
  <2> QED BY <1>1, <2>1, ZenonT(30)
          DEF ReadPackage, Goes, worker, TypeInv, TypeOK, Counting, WorkerInv
<1>2. CASE Command
  <2>1. WorkerInv' /\ ProductOK' /\ scan' \in Scans
    BY <1>2, ProductAssumption, CommandType DEF Command, TypeInv, TypeOK
  <2>2. moved' \in BOOLEAN /\ UNCHANGED call
    BY <1>2 DEF Command, RunCommand, TypeInv, TypeOK
  <2> QED BY <1>2, <2>1, <2>2 DEF Command, memory, TypeInv, TypeOK, Counting, WorkerInv
<1>3. CASE RuntimeChecked
  <2>1. WorkerInv' /\ ProductOK' /\ UNCHANGED scan /\ scan # None
    BY <1>3, WorkerKept, RuntimeType DEF RuntimeChecked, WriteRuntime, TypeInv, TypeOK
  <2> QED BY <1>3, <2>1
          DEF RuntimeChecked, Goes, memory, worker, TypeInv, TypeOK, Counting, WorkerInv
<1>4. CASE Report
  <2>1. WorkerInv' /\ ProductOK' /\ UNCHANGED scan /\ scan # None /\ report' \in Reports
    BY <1>4, WorkerKept, ReportType DEF Report, WriteReport, TypeInv, TypeOK, WorkerInv
  <2> QED BY <1>4, <2>1 DEF Report, Goes, memory, worker, TypeInv, TypeOK, Counting, WorkerInv
<1>5. CASE Plan
  <2>1. report \in Reports
    BY <1>5 DEF Plan, TypeInv, TypeOK, ProductOK, Counting
  <2>2. WorkerInv' /\ ProductOK' /\ scan' = None
    BY <1>5, <2>1, WorkerKept, PlanType DEF Plan, PlanRepair, TypeInv, TypeOK
  <2>3. failed' \in BOOLEAN
    BY <1>5 DEF Plan
  <2> QED BY <1>5, <2>2, <2>3 DEF Plan, Goes, worker, TypeInv, TypeOK, Counting, WorkerInv
<1>6. CASE GateRaises
  <2>1. WorkerInv' /\ ProductOK' /\ scan' = None
    BY <1>6, WorkerKept DEF GateRaises, Raise, TypeInv, TypeOK, ProductOK
  <2> QED BY <1>6, <2>1 DEF GateRaises, Goes, worker, TypeInv, TypeOK, Counting, WorkerInv
<1> QED BY <1>1, <1>2, <1>3, <1>4, <1>5, <1>6

LEMMA CorrectType == ASSUME TypeInv, Correct PROVE TypeInv'
<1> USE WorkerAssumption, ProductBuildAssumption
<1>1. WorkerInv' /\ ProductOK'
  BY WorkerKept, ProductKept DEF Correct, TypeInv, TypeOK
<1>2. /\ iteration \in Iterations /\ failures \in Nat /\ failures < iteration
      /\ FailureCount \in 0..iteration
      /\ pc = "correct" /\ scan = None /\ call = None
  BY DEF Correct, TypeInv, TypeOK, Counting, FailureCount, Iterations
<1>3. Decision \in {"continue", "repair", "review_required", "closure"}
  BY DEF Decision
<1>4. ledger' \subseteq Iterations
  BY <1>2 DEF Correct, TypeInv, TypeOK
<1>5. CASE \E o \in {"refused", "review_required", "continue", "repair"} : End(o)
  <2>1. PICK o \in Outcomes : End(o)
    BY <1>5 DEF Outcomes
  <2> QED BY <1>1, <1>2, <1>4, <2>1, EndType
          DEF Correct, worker, product, TypeInv, TypeOK, Counting, WorkerInv
<1>6. CASE Follow /\ (Decision = "closure" \/ iteration < MaxIterations)
  <2>1. failures' \in 0..MaxIterations /\ failures' <= iteration
    BY <1>2, <1>6 DEF Follow, Iterations
  <2> QED BY <1>1, <1>2, <1>3, <1>4, <1>6, <2>1
          DEF Correct, Follow, Goes, worker, product, TypeInv, TypeOK, Counting, WorkerInv
<1>7. End("refused") \/ (Follow /\ (Decision = "closure" \/ iteration < MaxIterations))
      \/ (End(Decision) /\ Decision \in {"review_required", "continue", "repair"})
  BY DEF Correct
<1> QED BY <1>5, <1>6, <1>7

LEMMA TypeStep == TypeInv /\ [Next]_vars => TypeInv'
<1> SUFFICES ASSUME TypeInv, [Next]_vars PROVE TypeInv'
  OBVIOUS
<1> USE WorkerAssumption, ProductAssumption, ProductBuildAssumption
<1>1. CASE UNCHANGED vars
  <2>1. WorkerInv' /\ ProductOK'
    BY <1>1, WorkerKept, ProductKept DEF vars, TypeInv, TypeOK
  <2> QED BY <1>1, <2>1 DEF vars, memory, worker, product, TypeInv, TypeOK, Counting, WorkerInv
<1>2. CASE CompileMatrix
  <2>1. WorkerInv' /\ ProductOK'
    BY <1>2, WorkerKept, CompileType DEF CompileMatrix, TypeInv, TypeOK
  <2> QED BY <1>2, <2>1
          DEF CompileMatrix, Compile, memory, worker, TypeInv, TypeOK, Counting, WorkerInv
<1>3. CASE Start
  <2>1. WorkerInv' /\ ProductOK' /\ run' \in Runs /\ run' \in 0..MaxRuns
    BY <1>3, WorkerKept, ProductKept DEF Start, TypeInv, TypeOK, Runs
  <2>2. Counting'
    BY <1>3, <2>1 DEF Start, memory, product, TypeInv, TypeOK, Counting
  <2>3. outcome' \in Outcomes
    BY <1>3 DEF Start, Outcomes
  <2> QED BY <1>3, <2>1, <2>2, <2>3
          DEF Start, memory, worker, product, TypeInv, TypeOK, WorkerInv
<1>4. CASE Build
  <2>1. CASE Close
    <3>1. WorkerInv' /\ ProductOK'
      BY <2>1, WorkerKept, ProductKept DEF Close, TypeInv, TypeOK
    <3>2. PICK o \in Outcomes : End(o)
      BY <2>1 DEF Close, Outcomes
    <3> QED BY <2>1, <3>1, <3>2, EndType
            DEF Close, worker, product, TypeInv, TypeOK, Counting, WorkerInv
  <2> QED BY <1>4, <2>1, ProposeType, WaitStepType, ObserveType, GateType, CorrectType DEF Build
<1>5. CASE Kill
  <2>1. WorkerInv'
    <3>1. CASE pc = "work"
      BY <1>5, <3>1, AbandonType DEF Kill, TypeInv, Counting
    <3>2. CASE pc # "work"
      BY <1>5, <3>2, WorkerKept DEF Kill, TypeInv
    <3> QED BY <3>1, <3>2
  <2>2. ProductOK' /\ kills' \in 0..MaxKills
    BY <1>5 DEF Kill, TypeInv, TypeOK, ProductOK
  <2>3. call' = None /\ scan' = None
    BY <1>5 DEF Kill, Abandon, worker, TypeInv, TypeOK
  <2>4. End("killed") /\ "killed" \in Outcomes
    BY <1>5 DEF Kill, Outcomes
  <2>5. ledger' \subseteq Iterations
    BY <1>5 DEF Kill, CutLedger, TypeInv, TypeOK
  <2> QED BY <1>5, <2>1, <2>2, <2>3, <2>4, <2>5, EndType
          DEF Kill, TypeInv, TypeOK, Counting, WorkerInv
<1>6. CASE Sidecar
  <2>1. PICK r \in Runs : Agent(r)
    BY <1>6 DEF Sidecar
  <2>2. WorkerInv' /\ ProductOK'
    BY <1>6, <2>1, AgentType, ProductKept DEF Sidecar, TypeInv, TypeOK
  <2>3. moved' \in BOOLEAN
    BY <1>6 DEF Sidecar, TypeInv, TypeOK
  <2>4. UNCHANGED call
    BY <2>1 DEF Agent, Ask, WriteFile, RefuseCall, Finish, Crash
  <2> QED BY <1>6, <2>2, <2>3, <2>4
          DEF Sidecar, memory, product, TypeInv, TypeOK, Counting, WorkerInv
<1> QED BY <1>1, <1>2, <1>3, <1>4, <1>5, <1>6 DEF Next

(* No sidecar, adapter, gate or build writes what the others could not read,   *)
(* and no agent or build exceeds its budget, however many were killed.         *)
THEOREM TypeCorrect == Spec => []TypeOK
<1>1. TypeInv => TypeOK
  BY DEF TypeInv
<1> QED BY <1>1, TypeInit, TypeStep, PTL DEF Spec

-----------------------------------------------------------------------------
(* The work unit a build waits for *)

(* The sidecar that runs for the build works on what the build asked for.      *)
WorksOnCall ==
    Running(call.run) => /\ agents[call.run].iteration = call.iteration
                         /\ agents[call.run].targets = call.targets

(* Unless another was running when it was started, it is the only one.         *)
Alone == ~call.shared => \A o \in Runs : Running(o) => o = call.run

Produced == \A ref \in call.targets : Exists(call.iteration, ref)

(* So the output it left when it exited is its own, and says what there is.    *)
OwnOutput ==
    (~call.shared /\ Waiting /\ Busy(call.run, "exited") /\ outputs[call.iteration] # None) =>
        /\ outputs[call.iteration].run = call.run
        /\ outputs[call.iteration].status = "completed" => Produced

OwnResult ==
    (call.result # None /\ call.result.status = "completed" /\ ~call.shared) =>
        call.result.run = call.run /\ Produced

OwnInv == call # None => WorksOnCall /\ Alone /\ OwnOutput /\ OwnResult

(* A file that is there stays, whatever is written.                            *)
LEMMA FileStays ==
    ASSUME TypeInv, NEW ref, NEW text, text # None, files' = [files EXCEPT ![ref] = text],
           NEW f \in Refs, files[f] # None
    PROVE  files'[f] # None
BY DEF TypeInv, TypeOK, WorkerOK, WorkerInv, Package

LEMMA TearStays ==
    ASSUME TypeInv, NEW r \in Runs, MayTear(r), NEW f \in Refs, files[f] # None
    PROVE  files'[f] # None
BY FileStays, WorkerAssumption DEF MayTear

LEMMA WriteStays ==
    ASSUME TypeInv, NEW i, NEW w, Write(i, w), NEW j, NEW ref, Exists(j, ref),
           evidence \in [Iterations -> SUBSET Notes]
    PROVE  Exists(j, ref)'
<1>1. CASE /\ w \in Refs /\ UNCHANGED evidence
           /\ \E text \in Written[w] : files' = [files EXCEPT ![w] = text]
  <2>1. PICK text \in Written[w] : files' = [files EXCEPT ![w] = text]
    BY <1>1
  <2>2. text # None
    BY <1>1, WorkerAssumption
  <2> QED BY <1>1, <2>1, <2>2, FileStays DEF Exists
<1>2. CASE evidence' = [evidence EXCEPT ![i] = @ \cup {w}] /\ UNCHANGED files
  BY <1>2 DEF Exists
<1> QED BY <1>1, <1>2 DEF Write

(* A step of an agent that leaves it running, or ends another's.               *)
LEMMA OwnAgent == ASSUME TypeInv, OwnInv, NEW r \in Runs, Agent(r) PROVE OwnInv'
<1> SUFFICES ASSUME call # None PROVE (WorksOnCall /\ Alone /\ OwnOutput /\ OwnResult)'
  BY DEF Agent, Ask, WriteFile, RefuseCall, Finish, Crash, OwnInv
<1>0. /\ call' = call /\ call \in Calls /\ call.run \in Runs
      /\ agents \in [Runs -> Agents \cup {None}] /\ evidence \in [Iterations -> SUBSET Notes]
      /\ outputs \in [Iterations -> Outputs \cup {None}]
      /\ WorksOnCall /\ Alone /\ OwnOutput /\ OwnResult
  BY DEF Agent, Ask, WriteFile, RefuseCall, Finish, Crash, TypeInv, TypeOK, WorkerOK, Calls, OwnInv
<1>1. Running(r)
  BY DEF Agent, Ask, WriteFile, RefuseCall, Finish, Crash, Busy, Running
<1> DEFINE a == agents[r]
<1>2. a \in Agents
  BY <1>0, <1>1 DEF Running
<1>3. ASSUME UNCHANGED outputs,
             \E b : /\ Become(r, b) /\ b.iteration = a.iteration /\ b.targets = a.targets
                    /\ b.phase # "exited",
             \A ref : Exists(call.iteration, ref) => Exists(call.iteration, ref)'
      PROVE  (WorksOnCall /\ Alone /\ OwnOutput /\ OwnResult)'
  <2>1. PICK b : /\ Become(r, b) /\ b.iteration = a.iteration /\ b.targets = a.targets
                 /\ b.phase # "exited"
    BY <1>3
  <2>2. agents'[r] = b /\ \A o \in Runs \ {r} : agents'[o] = agents[o]
    BY <1>0, <2>1 DEF Become
  <2>3. WorksOnCall' /\ Alone'
    BY <1>0, <1>1, <2>1, <2>2 DEF WorksOnCall, Alone, Running
  <2>4. Produced => Produced'
    BY <1>0, <1>3 DEF Produced
  <2>5. OwnOutput'
    BY <1>0, <1>3, <2>1, <2>2, <2>4 DEF OwnOutput, Waiting, Busy
  <2>6. OwnResult'
    BY <1>0, <2>4 DEF OwnResult
  <2> QED BY <2>3, <2>5, <2>6
<1>4. CASE Ask(r)
  <2>1. \E b : /\ Become(r, b) /\ b.iteration = a.iteration /\ b.targets = a.targets
               /\ b.phase # "exited"
    <3>1. PICK phase \in {"tools", "collect"} : Become(r, [a EXCEPT !.phase = phase])
      BY <1>4 DEF Ask, Phase
    <3> QED BY <1>2, <3>1 DEF Agents
  <2> QED BY <1>3, <1>4, <2>1 DEF Ask, Exists
<1>5. CASE WriteFile(r)
  <2>1. PICK ref \in Writable(a) :
          /\ Write(a.iteration, ref)
          /\ IF a.provider = "live" THEN Called(r, [a EXCEPT !.writes = @ + 1])
             ELSE Called(r, [a EXCEPT !.planned = @ \ {ref}])
    BY <1>5 DEF WriteFile
  <2>2. a.phase = "tools"
    BY <1>5 DEF WriteFile, Busy
  <2>3. ASSUME NEW d, d \in {[a EXCEPT !.writes = @ + 1], [a EXCEPT !.planned = @ \ {ref}]}
        PROVE  /\ d.iteration = a.iteration /\ d.targets = a.targets /\ d.phase = "tools"
               /\ [d EXCEPT !.phase = "ask"].iteration = a.iteration
               /\ [d EXCEPT !.phase = "ask"].targets = a.targets
               /\ [d EXCEPT !.phase = "ask"].phase = "ask"
    BY <1>2, <2>2, <2>3 DEF Agents
  <2>4. PICK d \in {[a EXCEPT !.writes = @ + 1], [a EXCEPT !.planned = @ \ {ref}]} : Called(r, d)
    BY <2>1
  <2>5. \E b : /\ Become(r, b) /\ b.iteration = a.iteration /\ b.targets = a.targets
               /\ b.phase # "exited"
    BY <2>3, <2>4 DEF Called
  <2> QED BY <1>0, <1>3, <1>5, <2>1, <2>5, WriteStays DEF WriteFile
<1>6. CASE RefuseCall(r)
  <2> DEFINE d == [a EXCEPT !.refused = TRUE]
  <2>1. /\ d.iteration = a.iteration /\ d.targets = a.targets /\ d.phase = "tools"
        /\ [d EXCEPT !.phase = "ask"].iteration = a.iteration
        /\ [d EXCEPT !.phase = "ask"].targets = a.targets
        /\ [d EXCEPT !.phase = "ask"].phase = "ask"
    BY <1>2, <1>6 DEF Agents, RefuseCall, Busy
  <2>2. Called(r, d)
    BY <1>6 DEF RefuseCall
  <2> HIDE DEF d
  <2>3. \E b : /\ Become(r, b) /\ b.iteration = a.iteration /\ b.targets = a.targets
               /\ b.phase # "exited"
    BY <2>1, <2>2 DEF Called
  <2> QED BY <1>3, <1>6, <2>3 DEF RefuseCall, Exists
<1>7. CASE Finish(r) \/ Crash(r)
  <2>1. PICK phase \in {"exited", "crashed"} : Stop(r, phase)
    BY <1>7 DEF Finish, Crash
  <2>2. ~Running(r)' /\ \A o \in Runs \ {r} : agents'[o] = agents[o]
    <3> DEFINE b == [a EXCEPT !.phase = phase, !.targets = {}, !.planned = {},
                              !.refused = FALSE, !.writes = 0]
    <3>1. b.phase = phase
      BY <1>2 DEF Agents
    <3>2. agents' = [agents EXCEPT ![r] = IF call = None \/ call.run # r THEN None ELSE b]
      BY <2>1 DEF Stop, Become
    <3> HIDE DEF b
    <3> QED BY <1>0, <3>1, <3>2 DEF Running
  <2>3. UNCHANGED <<files, evidence>>
    BY <1>7 DEF Finish, Crash
  <2>4. WorksOnCall' /\ Alone'
    BY <1>0, <2>2 DEF WorksOnCall, Alone, Running
  <2>5. Produced' = Produced /\ (Waiting' <=> Waiting) /\ OwnResult'
    BY <1>0, <2>3 DEF Produced, Waiting, Exists, OwnResult
  <2>6. OwnOutput'
    <3>1. CASE r # call.run
      BY <1>0, <1>1, <3>1 DEF OwnOutput, Alone
    <3>2. CASE r = call.run /\ Finish(r)
      <4>1. outputs'[call.iteration] = [run |-> r, status |-> Status(a)]
        BY <1>0, <1>1, <3>2 DEF Finish, WorksOnCall, Calls
      <4>2. Status(a) = "completed" => Produced
        BY <1>0, <1>1, <3>2 DEF Status, MissingTargets, Produced, WorksOnCall
      <4> QED BY <1>0, <2>5, <3>2, <4>1, <4>2 DEF OwnOutput
    <3>3. CASE r = call.run /\ Crash(r)
      <4>1. ~Busy(r, "exited")'
        <5> DEFINE b == [a EXCEPT !.phase = "crashed", !.targets = {}, !.planned = {},
                                  !.refused = FALSE, !.writes = 0]
        <5>1. b.phase = "crashed"
          BY <1>2 DEF Agents
        <5>2. agents' = [agents EXCEPT ![r] = b]
          BY <3>3 DEF Crash, Stop, Become
        <5> HIDE DEF b
        <5> QED BY <1>0, <5>1, <5>2 DEF Busy
      <4> QED BY <1>0, <3>3, <4>1 DEF OwnOutput
    <3> QED BY <1>7, <3>1, <3>2, <3>3
  <2> QED BY <2>4, <2>5, <2>6
<1> QED BY <1>4, <1>5, <1>6, <1>7 DEF Agent

LEMMA OwnWait == ASSUME TypeInv, OwnInv, TimeOut \/ Return PROVE OwnInv'
<1>0. /\ call # None /\ call \in Calls /\ call.run \in Runs
      /\ agents \in [Runs -> Agents \cup {None}] /\ evidence' = evidence
      /\ WorksOnCall /\ Alone /\ OwnOutput /\ OwnResult /\ Waiting
  BY DEF TimeOut, Return, Waiting, TypeInv, TypeOK, WorkerOK, Calls, OwnInv
<1>1. agents' = [agents EXCEPT ![call.run] = None]
  BY DEF TimeOut, Return, Become
<1>2. PICK result : Answer(result)
  BY DEF TimeOut, Return, Fail
<1>3. call' = [call EXCEPT !.phase = "answered", !.result = result]
  BY <1>2 DEF Answer
<1>4. /\ call'.run = call.run /\ call'.targets = call.targets /\ call'.iteration = call.iteration
      /\ call'.shared = call.shared /\ call'.phase = "answered" /\ call'.result = result
  BY <1>0, <1>3 DEF Calls
<1>5. WorksOnCall' /\ Alone' /\ OwnOutput'
  BY <1>0, <1>1, <1>4 DEF WorksOnCall, Alone, OwnOutput, Running, Waiting
<1>6. CASE Fail
  <2>1. call'.result.status = "failed"
    BY <1>0, <1>6 DEF Fail, Answer, Failure, Calls
  <2> QED BY <1>5, <2>1 DEF OwnInv, OwnResult
<1>7. CASE Return /\ ~Fail
  <2>1. /\ Busy(call.run, "exited") /\ outputs[call.iteration] # None
        /\ Answer(outputs[call.iteration]) /\ UNCHANGED files
    BY <1>7 DEF Return
  <2>2. call'.result = outputs[call.iteration]
    BY <1>0, <2>1 DEF Answer, Calls
  <2>3. Produced' = Produced
    BY <1>0, <1>4, <2>1 DEF Produced, Exists
  <2> QED BY <1>0, <1>4, <1>5, <2>1, <2>2, <2>3 DEF OwnInv, OwnOutput, OwnResult
<1> QED BY <1>6, <1>7 DEF TimeOut

LEMMA OwnPropose == ASSUME TypeInv, OwnInv, Propose PROVE OwnInv'
<1> DEFINE r == run
           i == iteration'
           targets == contract'.targets
<1>1. r \in Runs /\ agents \in [Runs -> Agents \cup {None}] /\ Invoke(r, i, targets)
  BY DEF Propose, TypeInv, TypeOK, WorkerOK, Counting
<1>2. call' = [run |-> r, iteration |-> i, targets |-> targets, phase |-> "waiting",
               result |-> None, shared |-> \E o \in Runs : Running(o)]
  BY <1>1 DEF Invoke
<1>3. PICK a : Become(r, a) /\ a.iteration = i /\ a.targets = targets /\ a.phase = "ask"
  BY <1>1 DEF Invoke
<1>4. agents'[r] = a /\ \A o \in Runs \ {r} : agents'[o] = agents[o]
  BY <1>1, <1>3 DEF Become
<1> HIDE DEF r, i, targets
<1>5. /\ call'.run = r /\ call'.iteration = i /\ call'.targets = targets /\ call'.result = None
      /\ call'.shared = (\E o \in Runs : Running(o))
  BY <1>2
<1>6. WorksOnCall'
  BY <1>3, <1>4, <1>5 DEF WorksOnCall
<1>7. Alone'
  BY <1>4, <1>5 DEF Alone, Running
<1>8. OwnOutput' /\ OwnResult'
  BY <1>3, <1>4, <1>5 DEF OwnOutput, OwnResult, Busy
<1> QED BY <1>6, <1>7, <1>8 DEF OwnInv

LEMMA OwnStep == TypeInv /\ OwnInv /\ [Next]_vars => OwnInv'
<1> SUFFICES ASSUME TypeInv, OwnInv, [Next]_vars PROVE OwnInv'
  OBVIOUS
<1>1. CASE UNCHANGED worker
  BY <1>1 DEF worker, OwnInv, WorksOnCall, Alone, OwnOutput, OwnResult, Produced, Exists, Waiting,
     Busy, Running
<1>2. CASE call' = None
  BY <1>2 DEF OwnInv
<1>3. CASE Kill
  BY <1>1, <1>2, <1>3 DEF Kill, Abandon
<1>4. CASE Sidecar
  BY <1>4, OwnAgent DEF Sidecar
<1>5. CASE Build
  <2>1. CASE Wait
    BY <2>1, OwnWait DEF Wait
  <2>2. CASE Observe
    BY <1>2, <2>2 DEF Observe
  <2>3. CASE Command
    BY <1>2, <2>3 DEF Command, RunCommand, TypeInv, TypeOK
  <2> QED BY <1>1, <1>5, <2>1, <2>2, <2>3, OwnPropose
          DEF Build, ReadPackage, RuntimeChecked, Report, Plan, GateRaises, Correct, Close
<1>6. CASE CompileMatrix \/ Start \/ UNCHANGED vars
  BY <1>1, <1>6 DEF CompileMatrix, Start, vars
<1> QED BY <1>3, <1>4, <1>5, <1>6 DEF Next

(* A work unit reported completed was completed by the sidecar started for it, *)
(* with every file in place: unless an agent that an earlier build left behind *)
(* runs beside it, the directory's old output is never taken for its own.      *)
THEOREM CompletedUnitsAreOwn == Spec => []CompletedIsOwn
<1>1. Init => OwnInv
  BY DEF Init, WorkerInit, OwnInv
<1>2. OwnInv => CompletedIsOwn
  BY DEF OwnInv, OwnResult, Produced, CompletedIsOwn
<1>3. TypeInv /\ OwnInv /\ [Next]_vars => TypeInv' /\ OwnInv'
  BY TypeStep, OwnStep
<1> QED BY <1>1, <1>2, <1>3, TypeInit, PTL DEF Spec

-----------------------------------------------------------------------------
(* The product gate *)

(* What a registration claims of the reports on file.                          *)
Graded ==
    /\ report # None /\ Grade(report)
    /\ Required # {} => runtime # None /\ runtime.checked = Required /\ runtime.passed
    /\ ~moved => /\ report.package = files
                 /\ \A item \in matrix \cap ScannedItems : Shown(files, item)

(* Only a build that is over has an outcome, and before the first one there is *)
(* none.                                                                       *)
Outcome == /\ pc # "idle" => outcome = "none"
           /\ run = 0 => pc = "idle" /\ outcome = "none"

(* What the gate has read and written since it read the package.               *)
Evaluating ==
    /\ pc \in {"commands", "report", "plan"} => (~moved => scan.package = files)
    /\ pc \in {"report", "plan"} /\ Required # {} =>
          runtime # None /\ runtime.checked = Checked /\ runtime.passed = RuntimePassed
    /\ pc = "plan" => /\ report.findings = GateFindings
                      /\ ~moved => report.package = files

GradedWhenPassed ==
    (((pc = "correct" /\ ~failed) \/ pc = "close" \/ outcome = "registered") /\ matrix # None)
        => Graded

GateInv == Outcome /\ Evaluating /\ GradedWhenPassed

(* A step that leaves the gate's files alone and says when it moves package/.  *)
LEMMA GateKept ==
    ASSUME GateInv, UNCHANGED <<product, pc, run, failed, outcome>>,
           ~moved' => ~moved /\ files' = files
    PROVE  GateInv'
<1>1. Graded => Graded'
  BY DEF Graded, Grade, Required, MatrixReadable, product, Shown
<1>2. Evaluating'
  BY DEF GateInv, Evaluating, product, Required, MatrixReadable, Checked, PlanOf, RuntimePassed,
     GateFindings, MatrixFindings, Shown
<1> QED BY <1>1, <1>2 DEF GateInv, Outcome, GradedWhenPassed, product

(* A report without findings has found everything it looked for.               *)
LEMMA PassedIsGraded ==
    ASSUME GateInv, TypeInv, pc = "plan", Grade(report)
    PROVE  Graded
<1>1. GateFindings = {} /\ report # None
  BY DEF GateInv, Evaluating, Grade, TypeInv, Counting
<1>2. MatrixFindings = {}
  BY <1>1 DEF GateFindings
<1>3. \A item \in matrix \cap ScannedItems : Shown(scan.package, item)
  BY <1>2 DEF MatrixFindings
<1>4. Required # {} => RuntimePassed
  BY <1>2 DEF MatrixFindings
<1>5. Required # {} => runtime # None /\ runtime.checked = Required /\ runtime.passed
  BY <1>4 DEF GateInv, Evaluating, RuntimePassed
<1>6. ~moved => scan.package = files /\ report.package = files
  BY DEF GateInv, Evaluating
<1> QED BY <1>1, <1>3, <1>5, <1>6 DEF Graded

LEMMA GateStep == TypeInv /\ GateInv /\ [Next]_vars => GateInv'
<1> SUFFICES ASSUME TypeInv, GateInv, [Next]_vars PROVE GateInv'
  OBVIOUS
<1> USE NoneIsNoResult
<1>0. Outcome /\ run \in Nat
  BY DEF GateInv, TypeInv, TypeOK
<1>1. CASE UNCHANGED vars
  BY <1>1, GateKept DEF vars, memory, worker
<1>2. CASE CompileMatrix
  BY <1>0, <1>2
     DEF CompileMatrix, Compile, memory, GateInv, Outcome, Evaluating, GradedWhenPassed
<1>3. CASE Start
  BY <1>0, <1>3 DEF Start, GateInv, Outcome, Evaluating, GradedWhenPassed
<1>4. CASE Kill
  BY <1>0, <1>4 DEF Kill, End, GateInv, Outcome, Evaluating, GradedWhenPassed
<1>5. CASE Sidecar
  <2>1. ~moved' => ~moved /\ files' = files
    BY <1>5 DEF Sidecar
  <2> QED BY <1>5, <2>1, GateKept DEF Sidecar, memory
<1>6. CASE Build
  <2>0. pc # "idle" /\ outcome = "none" /\ run # 0
    BY <1>0, <1>6 DEF Build, Propose, Wait, Observe, ReadPackage, Command, RuntimeChecked, Report,
       Plan, GateRaises, Correct, Close, Outcome
  <2>1. CASE Propose \/ Wait
    BY <2>0, <2>1 DEF Propose, Wait, Goes, memory, GateInv, Outcome, Evaluating, GradedWhenPassed
  <2>2. CASE Observe
    BY <2>0, <2>2 DEF Observe, Goes, product, GateInv, Outcome, Evaluating, GradedWhenPassed
  <2>3. CASE ReadPackage
    BY <2>0, <2>3 DEF ReadPackage, Scan, Goes, worker, GateInv, Outcome, Evaluating,
       GradedWhenPassed
  <2>4. CASE Command
    <3>1. scan \in Scans /\ scan'.package = scan.package
      BY <2>4 DEF Command, RunCommand, TypeInv, TypeOK, ProductOK, Scans
    <3>2. ~moved' => ~moved /\ files' = files
      BY <2>4 DEF Command
    <3> QED BY <2>0, <2>4, <3>1, <3>2
            DEF Command, memory, GateInv, Outcome, Evaluating, GradedWhenPassed
  <2>5. CASE RuntimeChecked
    <3>1. UNCHANGED <<scan, matrix, files, moved>>
      BY <2>5 DEF RuntimeChecked, WriteRuntime, worker
    <3>2. Required' = Required /\ Checked' = Checked /\ RuntimePassed' = RuntimePassed
      BY <3>1 DEF Required, MatrixReadable, Checked, PlanOf, RuntimePassed
    <3>3. Required # {} =>
            runtime' # None /\ runtime'.checked = Checked /\ runtime'.passed = RuntimePassed
      <4>1. ProductOK'
        BY <2>5, TypeStep DEF TypeInv, TypeOK, Next, Build
      <4>2. Required # {} => runtime' = [checked |-> Checked, missing |-> Required \ Checked,
                                         passed |-> RuntimePassed]
        BY <2>5 DEF RuntimeChecked, WriteRuntime
      <4>3. scan \in Scans /\ RuntimePassed \in BOOLEAN
        BY <2>5 DEF RuntimeChecked, WriteRuntime, TypeInv, TypeOK, ProductOK, RuntimePassed, Scans
      <4>4. Checked \in SUBSET RuntimeItems /\ Required \in SUBSET RuntimeItems
        BY DEF Checked, Required
      <4> QED BY <4>2, <4>3, <4>4 DEF Results
    <3> QED BY <2>0, <2>5, <3>1, <3>2, <3>3
            DEF RuntimeChecked, Goes, memory, GateInv, Outcome, Evaluating, GradedWhenPassed
  <2>6. CASE Report
    <3>1. /\ UNCHANGED <<scan, matrix, runtime, files, moved>>
          /\ report' = [package |-> files, findings |-> GateFindings]
      BY <2>6 DEF Report, WriteReport, worker
    <3>2. /\ Required' = Required /\ Checked' = Checked /\ RuntimePassed' = RuntimePassed
          /\ GateFindings' = GateFindings
      BY <3>1 DEF Required, MatrixReadable, Checked, PlanOf, RuntimePassed, GateFindings,
         MatrixFindings, Shown
    <3> QED BY <2>0, <2>6, <3>1, <3>2
            DEF Report, Goes, memory, GateInv, Outcome, Evaluating, GradedWhenPassed
  <2>7. CASE Plan
    <3>1. UNCHANGED <<matrix, runtime, report, files, moved>>
      BY <2>7 DEF Plan, PlanRepair, worker
    <3>2. Graded => Graded'
      BY <3>1 DEF Graded, Grade, Required, MatrixReadable, Shown
    <3>3. ~failed' => Graded
      BY <2>7, PassedIsGraded DEF Plan
    <3> QED BY <2>0, <2>7, <3>2, <3>3
            DEF Plan, Goes, GateInv, Outcome, Evaluating, GradedWhenPassed
  <2>8. CASE GateRaises
    BY <2>0, <2>8 DEF GateRaises, Goes, GateInv, Outcome, Evaluating, GradedWhenPassed
  <2>9. CASE Correct \/ Close
    <3>1. UNCHANGED <<matrix, runtime, report, files, moved>>
      BY <2>9 DEF Correct, Close, worker, product
    <3>2. Graded => Graded'
      BY <3>1 DEF Graded, Grade, Required, MatrixReadable, Shown
    <3>3. CASE Correct
      <4>1. Decision = "closure" => ~failed
        BY DEF Decision, FailureCount
      <4> QED BY <2>0, <3>1, <3>2, <3>3, <4>1
              DEF Correct, Follow, End, Goes, GateInv, Outcome, Evaluating, GradedWhenPassed,
                  Decision
    <3>4. CASE Close
      BY <2>0, <3>1, <3>2, <3>4 DEF Close, End, GateInv, Outcome, Evaluating, GradedWhenPassed
    <3> QED BY <2>9, <3>3, <3>4
  <2> QED BY <1>6, <2>1, <2>2, <2>3, <2>4, <2>5, <2>6, <2>7, <2>8, <2>9 DEF Build
<1> QED BY <1>1, <1>2, <1>3, <1>4, <1>5, <1>6 DEF Next

(* A product that is registered is of the grade its matrix asks for, whatever  *)
(* earlier builds, raised gates and killed agents left on file.                *)
THEOREM RegisteredProductsAreGraded == Spec => []RegisteredIsGraded
<1>1. Init => GateInv
  BY DEF Init, GateInv, Outcome, Evaluating, GradedWhenPassed
<1>2. GateInv => RegisteredIsGraded
  BY DEF GateInv, GradedWhenPassed, Graded, RegisteredIsGraded
<1>3. TypeInv /\ GateInv /\ [Next]_vars => TypeInv' /\ GateInv'
  BY TypeStep, GateStep
<1> QED BY <1>1, <1>2, <1>3, TypeInit, PTL DEF Spec

-----------------------------------------------------------------------------
(* The repair packet *)

Answers == packet.findings = report.findings \cup ReviewFindings

(* The gate runs for a matrix only, and a packet is of what it found last as   *)
(* long as a repair can be proposed from it.                                   *)
PacketInv ==
    /\ run = 0 => pc = "idle" /\ packet = None
    /\ matrix = None => packet = None
    /\ pc \in {"scan", "commands", "report", "plan"} => matrix # None
    /\ pc = "idle" => route = "continue"
    /\ ~raised /\ matrix # None /\ (pc = "correct" \/ (pc = "propose" /\ route = "repair"))
          => Answers
    /\ RepairAnswersGate

LEMMA PacketStep == TypeInv /\ PacketInv /\ [Next]_vars => PacketInv'
<1> SUFFICES ASSUME TypeInv, PacketInv, [Next]_vars PROVE PacketInv'
  OBVIOUS
<1> USE DEF PacketInv, RepairAnswersGate, Answers, ReviewFindings
<1>0. run \in Nat
  BY DEF TypeInv, TypeOK
<1>1. CASE UNCHANGED vars
  BY <1>1 DEF vars, memory, product
<1>2. CASE CompileMatrix
  BY <1>2 DEF CompileMatrix, Compile, memory
<1>3. CASE Start
  BY <1>0, <1>3 DEF Start, memory, product
<1>4. CASE Kill
  BY <1>4 DEF Kill, End
<1>5. CASE Sidecar
  BY <1>5 DEF Sidecar, memory, product
<1>6. CASE Build
  <2>1. CASE Propose
    <3>1. contract'.kind = "product" => route = "repair" /\ RepairRequired(packet)
      BY <2>1 DEF Propose, Proposed
    <3> QED BY <2>1, <3>1 DEF Propose, Goes, product, RepairRequired
  <2>2. CASE Wait
    BY <2>2 DEF Wait, memory, product
  <2>3. CASE Observe
    BY <2>3 DEF Observe, Goes, product
  <2>4. CASE ReadPackage
    BY <2>4 DEF ReadPackage, Scan, Goes
  <2>5. CASE Command
    BY <2>5 DEF Command, RunCommand, memory
  <2>6. CASE RuntimeChecked
    BY <2>6 DEF RuntimeChecked, WriteRuntime, Goes, memory
  <2>7. CASE Report
    BY <2>7 DEF Report, WriteReport, Goes, memory
  <2>8. CASE Plan
    BY <2>8 DEF Plan, PlanRepair, Goes
  <2>9. CASE GateRaises
    BY <2>9 DEF GateRaises, Raise, Goes
  <2>10. CASE Correct
    <3>1. /\ packet' = packet /\ report' = report /\ reviewer' = reviewer /\ matrix' = matrix
          /\ run' = run /\ pc = "correct"
      BY <2>10 DEF Correct, product
    <3>2. CASE pc' = "idle" /\ route' = "continue"
      BY <3>1, <3>2
    <3>3. CASE pc' \in {"close", "propose"} /\ raised' = raised
      BY <3>1, <3>3
    <3>4. \/ pc' = "idle" /\ route' = "continue"
          \/ pc' \in {"close", "propose"} /\ raised' = raised
      BY <2>10 DEF Correct, Follow, End, Goes
    <3> QED BY <3>2, <3>3, <3>4
  <2>11. CASE Close
    BY <2>11 DEF Close, End, product
  <2> QED BY <1>6, <2>1, <2>2, <2>3, <2>4, <2>5, <2>6, <2>7, <2>8, <2>9, <2>10, <2>11 DEF Build
<1> QED BY <1>1, <1>2, <1>3, <1>4, <1>5, <1>6 DEF Next

(* A work unit that is to repair the product answers what the last observation *)
(* found, unless the gate raised.                                              *)
THEOREM RepairsAnswerTheGate == Spec => []RepairAnswersGate
<1>1. Init => PacketInv
  BY DEF Init, ProductInit, PacketInv, RepairAnswersGate
<1>2. PacketInv => RepairAnswersGate
  BY DEF PacketInv
<1>3. TypeInv /\ PacketInv /\ [Next]_vars => TypeInv' /\ PacketInv'
  BY TypeStep, PacketStep
<1> QED BY <1>1, <1>2, <1>3, TypeInit, PTL DEF Spec

-----------------------------------------------------------------------------
(* How much a build has left to do *)

(* The most steps a round of the build loop takes of its own accord.           *)
Round == Cardinality(RuntimeItems) + 8

(* The steps from a place in a round to its decision, and one more.            *)
Stage ==
    CASE pc = "work" -> IF call # None /\ call.phase = "waiting" THEN Round ELSE Round - 1
      [] pc = "scan" -> Round - 2
      [] pc = "commands" -> 5 + Cardinality(scan.todo)
      [] pc = "report" -> 4
      [] pc = "plan" -> 3
      [] pc = "correct" -> 2
      [] pc \in {"propose", "close"} -> 1
      [] pc = "idle" -> 0

Remaining == IF pc = "idle" THEN 0 ELSE Round * (MaxIterations - iteration) + Stage

(* Every step of a build takes it nearer to its end, a kill ends it, and what  *)
(* the sidecars do meanwhile gives it nothing more to do.                      *)
RunsDown ==
    [][/\ Build => Remaining' < Remaining
       /\ Kill => Remaining' = 0
       /\ Sidecar \/ CompileMatrix => Remaining' = Remaining]_vars

RemainingBounded == Remaining \in 0..(Round * MaxIterations + 1)

LEMMA RoundIs ==
    /\ Round = 10
    /\ \A todo \in SUBSET RuntimeItems : IsFiniteSet(todo) /\ Cardinality(todo) \in 0..2
<1> DEFINE a == "runtime_duplicates"
           b == "runtime_other"
<1>1. IsFiniteSet({a}) /\ Cardinality({a}) = 1
  BY FS_Singleton
<1>2. RuntimeItems = {a} \cup {b} /\ b \notin {a}
  BY DEF RuntimeItems
<1>3. IsFiniteSet(RuntimeItems) /\ Cardinality(RuntimeItems) = 2
  <2> HIDE DEF a, b
  <2> QED BY <1>1, <1>2, FS_AddElement
<1>4. ASSUME NEW todo \in SUBSET RuntimeItems
      PROVE  IsFiniteSet(todo) /\ Cardinality(todo) \in 0..2
  <2>1. IsFiniteSet(todo) /\ Cardinality(todo) <= 2
    BY <1>3, FS_Subset
  <2>2. Cardinality(todo) \in Nat
    BY <2>1, FS_CardinalityType
  <2> QED BY <2>1, <2>2
<1> QED BY <1>3, <1>4 DEF Round

(* What the stages of a build are where its state is of its types.             *)
Staged ==
    /\ pc = "work" => Stage = IF call # None /\ call.phase = "waiting" THEN 10 ELSE 9
    /\ pc = "scan" => Stage = 8
    /\ pc = "commands" => /\ scan \in Scans /\ IsFiniteSet(scan.todo)
                          /\ Cardinality(scan.todo) \in 0..2
                          /\ Stage = 5 + Cardinality(scan.todo)
    /\ pc = "report" => Stage = 4
    /\ pc = "plan" => Stage = 3
    /\ pc = "correct" => Stage = 2
    /\ pc \in {"propose", "close"} => Stage = 1
    /\ pc = "idle" => Stage = 0

LEMMA StageIs == TypeInv => Staged
<1> SUFFICES ASSUME TypeInv PROVE Staged
  OBVIOUS
<1>1. pc = "commands" => scan \in Scans /\ scan.todo \in SUBSET RuntimeItems
  BY NoneIsNoResult DEF TypeInv, TypeOK, ProductOK, Scans
<1>2. pc = "commands" => IsFiniteSet(scan.todo) /\ Cardinality(scan.todo) \in 0..2
  BY <1>1, RoundIs
<1> QED BY <1>1, <1>2, RoundIs DEF Staged, Stage

Measured ==
    /\ MaxIterations \in Nat /\ iteration \in 0..MaxIterations
    /\ pc # "idle" => Stage \in 1..10
    /\ pc = "propose" => iteration < MaxIterations
    /\ pc \notin {"idle", "propose"} => iteration \in 1..MaxIterations
    /\ Remaining = IF pc = "idle" THEN 0 ELSE 10 * (MaxIterations - iteration) + Stage
    /\ Remaining \in 0..(10 * MaxIterations + 1)

LEMMA RemainingIs == TypeInv => Measured
<1> SUFFICES ASSUME TypeInv PROVE Measured
  OBVIOUS
<1>1. MaxIterations \in Nat /\ iteration \in 0..MaxIterations /\ failures \in Nat
  BY WorkerAssumption DEF TypeInv, TypeOK
<1>2. pc \in {"idle", "propose", "work", "scan", "commands", "report", "plan",
              "correct", "close"}
  BY DEF TypeInv, TypeOK
<1>3. /\ pc = "propose" => iteration < MaxIterations
      /\ pc \in {"work", "scan", "commands", "report", "plan", "correct"} => iteration > 0
  BY <1>1 DEF TypeInv, Counting
<1>4. /\ pc # "idle" => Stage \in 1..10
      /\ pc \in {"propose", "close"} => Stage = 1
  BY <1>2, StageIs DEF Staged
<1>5. pc \notin {"idle", "propose"} => iteration \in 1..MaxIterations
  BY <1>1, <1>2, <1>3 DEF TypeInv, Counting, Iterations
<1>6. Remaining = IF pc = "idle" THEN 0 ELSE 10 * (MaxIterations - iteration) + Stage
  BY RoundIs DEF Remaining
<1>7. Remaining \in 0..(10 * MaxIterations + 1)
  <2> HIDE DEF Stage
  <2>1. CASE pc = "idle"
    BY <1>1, <1>6, <2>1
  <2>2. CASE pc = "propose"
    BY <1>1, <1>4, <1>6, <2>2
  <2>3. CASE pc \notin {"idle", "propose"}
    BY <1>1, <1>4, <1>5, <1>6, <2>3
  <2> QED BY <2>1, <2>2, <2>3
<1> QED BY <1>1, <1>3, <1>4, <1>5, <1>6, <1>7 DEF Measured

(* A step ends the build, takes it to a later stage of its round, or begins a  *)
(* round it has not made.                                                      *)
LEMMA StepRunsDown == TypeInv /\ [Next]_vars /\ Build => Remaining' < Remaining
<1> SUFFICES ASSUME TypeInv, [Next]_vars, Build PROVE Remaining' < Remaining
  OBVIOUS
<1>1. /\ Measured /\ Staged
      /\ Measured' /\ Staged'
  <2>1. TypeInv'
    BY TypeStep
  <2>2. TypeInv' => Measured' /\ Staged'
    BY RemainingIs, StageIs, PTL
  <2> QED BY <2>1, <2>2, RemainingIs, StageIs
<1> USE DEF Goes
<1>2. ASSUME pc # "idle", pc' = "idle" PROVE Remaining' < Remaining
  <2>1. Remaining' = 0
    BY <1>2 DEF Remaining
  <2>2. Remaining = 10 * (MaxIterations - iteration) + Stage
    BY <1>1, <1>2 DEF Measured
  <2> QED BY <1>1, <1>2, <2>1, <2>2 DEF Measured
<1>3. ASSUME pc # "idle", pc' # "idle", iteration' = iteration, Stage' < Stage
      PROVE  Remaining' < Remaining
  BY <1>1, <1>3 DEF Measured
<1>4. CASE Propose
  <2>1. pc = "propose" /\ pc' = "work" /\ iteration' = iteration + 1
    BY <1>4 DEF Propose
  <2>2. Stage = 1 /\ Stage' <= 10
    BY <1>1, <2>1 DEF Staged
  <2> QED BY <1>1, <2>1, <2>2 DEF Measured
<1>5. CASE Wait
  <2>1. /\ pc = "work" /\ pc' = "work" /\ iteration' = iteration /\ Waiting
        /\ \E result : call' = [call EXCEPT !.phase = "answered", !.result = result]
    BY <1>5 DEF Wait, memory, TimeOut, Return, Fail, Answer
  <2>2. call'.phase = "answered"
    <3>1. call \in Calls
      BY <2>1 DEF Waiting, TypeInv, TypeOK, WorkerOK
    <3> QED BY <2>1, <3>1 DEF Calls
  <2>3. Stage = 10 /\ Stage' = 9
    BY <1>1, <2>1, <2>2 DEF Staged, Waiting
  <2> QED BY <1>3, <2>1, <2>3
<1>6. CASE Observe
  <2>1. /\ pc = "work" /\ pc' \in {"correct", "scan"} /\ iteration' = iteration
        /\ call.phase = "answered"
    BY <1>6 DEF Observe
  <2>2. Stage = 9 /\ Stage' \in {2, 8}
    BY <1>1, <2>1 DEF Staged
  <2> QED BY <1>3, <2>1, <2>2
<1>7. CASE ReadPackage
  <2>1. pc = "scan" /\ pc' = "commands" /\ iteration' = iteration
    BY <1>7 DEF ReadPackage
  <2>2. Stage = 8 /\ Stage' <= 7
    BY <1>1, <2>1 DEF Staged
  <2> QED BY <1>1, <1>3, <2>1, <2>2 DEF Measured
<1>8. CASE Command
  <2>1. pc = "commands" /\ pc' = "commands" /\ iteration' = iteration
    BY <1>8 DEF Command, memory
  <2>2. scan.todo # {} /\ scan'.todo = scan.todo \ {CHOOSE item \in scan.todo : TRUE}
    <3>1. scan \in Scans
      BY <1>1, <2>1 DEF Staged
    <3> QED BY <1>8, <3>1 DEF Command, RunCommand, Scans
  <2>3. Cardinality(scan'.todo) = Cardinality(scan.todo) - 1
    <3>1. IsFiniteSet(scan.todo) /\ (CHOOSE item \in scan.todo : TRUE) \in scan.todo
      BY <1>1, <2>1, <2>2 DEF Staged
    <3> QED BY <2>2, <3>1, FS_RemoveElement
  <2>4. Stage' < Stage
    BY <1>1, <2>1, <2>3 DEF Staged
  <2> QED BY <1>3, <2>1, <2>4
<1>9. CASE RuntimeChecked
  <2>1. pc = "commands" /\ pc' = "report" /\ iteration' = iteration
    BY <1>9 DEF RuntimeChecked, memory
  <2>2. Stage >= 5 /\ Stage' = 4
    BY <1>1, <2>1 DEF Staged
  <2> QED BY <1>1, <1>3, <2>1, <2>2 DEF Measured
<1>10. CASE Report \/ Plan \/ GateRaises
  <2>1. /\ iteration' = iteration
        /\ \/ pc = "report" /\ pc' = "plan"
           \/ pc \in {"plan", "report", "commands"} /\ pc' = "correct"
    BY <1>10 DEF Report, Plan, GateRaises, memory
  <2>2. Stage' < Stage
    BY <1>1, <2>1 DEF Staged
  <2> QED BY <1>3, <2>1, <2>2
<1>11. CASE Correct
  <2>1. pc = "correct" /\ (pc' = "idle" \/ (iteration' = iteration /\ pc' \in {"propose", "close"}))
    BY <1>11 DEF Correct, End, Follow
  <2>2. pc' # "idle" => Stage' < Stage
    BY <1>1, <2>1 DEF Staged
  <2> QED BY <1>2, <1>3, <2>1, <2>2
<1>12. CASE Close
  BY <1>2, <1>12 DEF Close, End
<1> QED BY <1>4, <1>5, <1>6, <1>7, <1>8, <1>9, <1>10, <1>11, <1>12 DEF Build

(* A build makes at most 10 * MaxIterations + 1 steps of its own accord, and   *)
(* what its sidecar or an earlier build's does meanwhile gives it no more to   *)
(* do: a round waits for one answer, which the time-out gives if the sidecar   *)
(* does not, and runs each command of the plan once (compile_adaptive_graph).  *)
(* With the fairness of the specification this is why BuildsEnd holds.         *)
THEOREM BuildsRunDown == Spec => RunsDown /\ []RemainingBounded
<1> DEFINE Step == /\ Build => Remaining' < Remaining
                   /\ Kill => Remaining' = 0
                   /\ Sidecar \/ CompileMatrix => Remaining' = Remaining
<1>1. TypeInv => RemainingBounded
  BY RemainingIs, RoundIs DEF Measured, RemainingBounded
<1>2. TypeInv /\ [Next]_vars => [Step]_vars
  <2> SUFFICES ASSUME TypeInv, [Next]_vars PROVE Step
    OBVIOUS
  <2>1. Kill => Remaining' = 0
    BY DEF Kill, End, Remaining
  <2>2. ASSUME Sidecar PROVE Remaining' = Remaining
    <3>1. UNCHANGED <<pc, iteration, call, scan>>
      BY <2>2 DEF Sidecar, memory, product, Agent, Ask, WriteFile, RefuseCall, Finish, Crash
    <3> QED BY <3>1 DEF Remaining, Stage
  <2>3. ASSUME CompileMatrix PROVE Remaining' = Remaining
    <3>1. UNCHANGED <<pc, iteration, call, scan>>
      BY <2>3 DEF CompileMatrix, Compile, memory, worker
    <3> QED BY <3>1 DEF Remaining, Stage
  <2> QED BY <2>1, <2>2, <2>3, StepRunsDown
<1> QED BY <1>1, <1>2, TypeInit, TypeStep, PTL DEF Spec, RunsDown
=============================================================================
