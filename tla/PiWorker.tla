------------------------------- MODULE PiWorker -------------------------------
(* The worker boundary of an adaptive build: the adapter that starts a sidecar *)
(* process for one work unit and normalises what it leaves, and the sidecar,   *)
(* an agent that asks a model, lets it write files through one tool, and at    *)
(* its end says what there is.  A killed build may leave its sidecar running.  *)
EXTENDS Naturals, FiniteSets

CONSTANTS
    Written,        \* what an agent may write to a package file: [Refs -> sets]
    Providers,      \* subset of {"faux", "live"}
    MaxIterations,  \* bound: work units of a build
    MaxRuns,        \* bound: builds of the job
    MaxWrites,      \* bound: files one agent writes
    Cut,            \* bound: the files a killed agent may leave half-written
    Torn,           \* a file cut off while it was written
    None            \* no such file

VARIABLES
    files,     \* package/, by file
    evidence,  \* adaptive/attempts/<iteration>/: the evidence files in it
    outputs,   \* pi_worker_output.json of an iteration
    agents,    \* the sidecar of each build, until it is waited for
    call       \* the work unit the build waits for

worker == <<files, evidence, outputs, agents, call>>

Refs == {"skill", "manifest", "source", "plan"}
Notes == {"repair_evidence", "closure_evidence"}
Runs == 1..MaxRuns
Iterations == 1..MaxIterations

(* An agent cannot write that a file is not there.                             *)
ASSUME WorkerAssumption ==
    /\ MaxIterations \in Nat \ {0} /\ MaxRuns \in Nat /\ MaxWrites \in Nat
    /\ Providers \subseteq {"faux", "live"}
    /\ \A ref \in Refs : None \notin Written[ref]
    /\ Torn # None

Contents(ref) == Written[ref] \cup {t \in {Torn} : ref \in Cut} \cup {None}
Outputs == [run : Runs, status : {"completed", "failed"}]

(* An agent works on what its input file said when it was started; the offline *)
(* provider's calls are planned from it.                                       *)
Agents == [iteration : Iterations, targets : SUBSET (Refs \cup Notes),
           planned : SUBSET (Refs \cup Notes), refused : BOOLEAN,
           writes : 0..MaxWrites, provider : Providers,
           phase : {"ask", "tools", "collect", "exited", "crashed"}]
Calls == [run : Runs, iteration : Iterations, targets : SUBSET (Refs \cup Notes),
          phase : {"waiting", "answered"}, result : Outputs \cup {None},
          shared : BOOLEAN]   \* history: another build's agent was running

WorkerOK ==
    /\ \A ref \in Refs : files[ref] \in Contents(ref)
    /\ DOMAIN files = Refs
    /\ evidence \in [Iterations -> SUBSET Notes]
    /\ outputs \in [Iterations -> Outputs \cup {None}]
    /\ agents \in [Runs -> Agents \cup {None}]
    /\ call \in Calls \cup {None}

WorkerInit ==
    /\ files = [ref \in Refs |-> None] /\ evidence = [i \in Iterations |-> {}]
    /\ outputs = [i \in Iterations |-> None] /\ agents = [r \in Runs |-> None] /\ call = None

-----------------------------------------------------------------------------
(* The sidecar of build r. *)

Running(r) == agents[r] # None /\ agents[r].phase \in {"ask", "tools", "collect"}
Busy(r, phase) == agents[r] # None /\ agents[r].phase = phase
Become(r, a) == agents' = [agents EXCEPT ![r] = a]
Phase(r, phase) == Become(r, [agents[r] EXCEPT !.phase = phase])
(* Nobody waits for the sidecar of a build that died.                          *)
Stop(r, phase) ==
    Become(r, IF call = None \/ call.run # r THEN None
              ELSE [agents[r] EXCEPT !.phase = phase, !.targets = {}, !.planned = {},
                                     !.refused = FALSE, !.writes = 0])

(* A file that is there counts as produced, whoever wrote it.                  *)
Exists(i, ref) == IF ref \in Refs THEN files[ref] # None ELSE ref \in evidence[i]
MissingTargets(a) == {ref \in a.targets : ~Exists(a.iteration, ref)}

(* A live model is made to call the writing tool while a target is missing,    *)
(* and forbidden to call any once none is, or once a call was refused.  The    *)
(* offline provider calls it once for every target.                            *)
MayCall(a) ==
    IF a.provider = "faux" THEN a.planned # {}
    ELSE a.writes < MaxWrites /\ MissingTargets(a) # {} /\ ~a.refused

(* A live model may still answer in words, and a failing request ends the      *)
(* conversation.                                                               *)
Ask(r) ==
    /\ Busy(r, "ask")
    /\ \/ MayCall(agents[r]) /\ Phase(r, "tools")
       \/ /\ agents[r].provider = "live" \/ ~MayCall(agents[r])
          /\ Phase(r, "collect")
    /\ UNCHANGED <<files, evidence, outputs, call>>

(* One answer can hold several calls, which run one after the other.           *)
Called(r, a) ==
    \/ Become(r, [a EXCEPT !.phase = "ask"])
    \/ a.provider = "live" /\ a.writes < MaxWrites /\ Become(r, a)

(* The scope is package/ and the directory of the attempt.                     *)
Writable(a) == IF a.provider = "faux" THEN a.planned ELSE Refs \cup (a.targets \cap Notes)

(* Mutant: the text of a bundle manifest is the model's.                       *)
WriteVerbatim(i, ref) ==
    \/ /\ ref \in Refs
       /\ \E text \in UNION {Written[f] : f \in Refs} : files' = [files EXCEPT ![ref] = text]
       /\ UNCHANGED evidence
    \/ /\ ref \in Notes /\ evidence' = [evidence EXCEPT ![i] = @ \cup {ref}]
       /\ UNCHANGED files

(* The bundle manifest is the canonical one whatever the model wrote.          *)
Write(i, ref) ==
    \/ /\ ref \in Refs /\ \E text \in Written[ref] : files' = [files EXCEPT ![ref] = text]
       /\ UNCHANGED evidence
    \/ /\ ref \in Notes /\ evidence' = [evidence EXCEPT ![i] = @ \cup {ref}]
       /\ UNCHANGED files

WriteFile(r) ==
    /\ Busy(r, "tools")
    /\ \E ref \in Writable(agents[r]) :
          /\ Write(agents[r].iteration, ref)
          /\ IF agents[r].provider = "live" THEN Called(r, [agents[r] EXCEPT !.writes = @ + 1])
             ELSE Called(r, [agents[r] EXCEPT !.planned = @ \ {ref}])
    /\ UNCHANGED <<outputs, call>>

(* A path outside the scope, a directory or a link.                            *)
RefuseCall(r) ==
    /\ Busy(r, "tools") /\ agents[r].provider = "live"
    /\ Called(r, [agents[r] EXCEPT !.refused = TRUE])
    /\ UNCHANGED <<files, evidence, outputs, call>>

Status(a) == IF MissingTargets(a) = {} THEN "completed" ELSE "failed"

(* Session and metrics first, the output last.                                 *)
Finish(r) ==
    /\ Busy(r, "collect")
    /\ outputs' = [outputs EXCEPT ![agents[r].iteration] =
                      [run |-> r, status |-> Status(agents[r])]]
    /\ Stop(r, "exited")
    /\ UNCHANGED <<files, evidence, call>>

(* An exception nothing catches.                                               *)
Crash(r) ==
    /\ Running(r) /\ Stop(r, "crashed")
    /\ UNCHANGED <<files, evidence, outputs, call>>

Agent(r) == Ask(r) \/ WriteFile(r) \/ RefuseCall(r) \/ Finish(r) \/ Crash(r)

-----------------------------------------------------------------------------
(* The adapter. *)

(* The attempt's directory is the iteration's: an output is there already if   *)
(* an earlier build came as far.                                               *)
Invoke(r, iteration, targets) ==
    /\ call = None
    /\ \E provider \in Providers :
          Become(r, [iteration |-> iteration, targets |-> targets,
                     planned |-> IF provider = "faux" THEN targets ELSE {},
                     refused |-> FALSE, writes |-> 0, provider |-> provider, phase |-> "ask"])
    /\ call' = [run |-> r, iteration |-> iteration, targets |-> targets, phase |-> "waiting",
                result |-> None, shared |-> \E o \in Runs : Running(o)]
    /\ UNCHANGED <<files, evidence, outputs>>

Waiting == call # None /\ call.phase = "waiting"
Answer(result) == call' = [call EXCEPT !.phase = "answered", !.result = result]
Failure == [run |-> call.run, status |-> "failed"]

(* A failure of the adapter's own replaces the output.                         *)
Fail ==
    /\ outputs' = [outputs EXCEPT ![call.iteration] = Failure]
    /\ Answer(Failure)

(* The child is killed, perhaps in the middle of a file.                       *)
MayTear(r) ==
    \/ UNCHANGED files
    \/ /\ Busy(r, "tools")
       /\ \E ref \in Writable(agents[r]) \cap Cut : files' = [files EXCEPT ![ref] = Torn]

(* Mutant: the adapter waits for as long as it takes.                          *)
TimeOutNever ==
    /\ Waiting /\ Running(call.run) /\ FALSE
    /\ UNCHANGED worker

TimeOut ==
    /\ Waiting /\ Running(call.run)
    /\ MayTear(call.run) /\ Become(call.run, None) /\ Fail
    /\ UNCHANGED evidence

(* An output that another agent is writing may be read half-written.           *)
Readable == \A r \in Runs : Busy(r, "collect") => agents[r].iteration # call.iteration

(* Mutant: the exit status is not looked at.                                   *)
ReturnUnchecked ==
    /\ Waiting /\ ~Running(call.run)
    /\ \/ outputs[call.iteration] # None /\ Answer(outputs[call.iteration]) /\ UNCHANGED outputs
       \/ outputs[call.iteration] = None /\ Fail
    /\ Become(call.run, None)
    /\ UNCHANGED <<files, evidence>>

Return ==
    /\ Waiting /\ ~Running(call.run)
    /\ \/ /\ Busy(call.run, "exited") /\ outputs[call.iteration] # None
          /\ Answer(outputs[call.iteration]) /\ UNCHANGED outputs
       \/ /\ Busy(call.run, "crashed") \/ outputs[call.iteration] = None \/ ~Readable
          /\ Fail
    /\ Become(call.run, None)
    /\ UNCHANGED <<files, evidence>>

(* The build dies; its child need not.                                         *)
Abandon(r) ==
    /\ call' = None
    /\ IF Running(r) THEN \/ MayTear(r) /\ Become(r, None)
                          \/ UNCHANGED <<files, agents>>
       ELSE Become(r, None) /\ UNCHANGED files
    /\ UNCHANGED <<evidence, outputs>>

-----------------------------------------------------------------------------
(* A work unit that is reported completed was completed by the sidecar started *)
(* for it, with every file it was asked for in place, although the directory   *)
(* may hold the output of an earlier build's attempt; the exception is an      *)
(* agent that an earlier build left running (PiWorker.invoke).                 *)
CompletedIsOwn ==
    (call # None /\ call.result # None /\ call.result.status = "completed" /\ ~call.shared) =>
        /\ call.result.run = call.run
        /\ \A ref \in call.targets : Exists(call.iteration, ref)

=============================================================================
