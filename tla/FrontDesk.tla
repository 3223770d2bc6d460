----------------------------- MODULE FrontDesk -----------------------------
(* One Front Desk job of skillfoundry: the conversation, plan, review and      *)
(* freeze files below its workspace, and the HTTP handlers that change them.   *)
(* The server answers every request on a thread of its own and no lock guards  *)
(* a job, so a handler reads state.json when it starts, runs a round that may  *)
(* take minutes, and writes state.json when it ends.  Every artifact write     *)
(* also reads the artifact manifest, writes it back and checks the hashes of   *)
(* the locked builder inputs.                                                  *)
(* Contents are numbers: planning round n of the job writes drafts n and plan  *)
(* n, 0 is the content the workspace was initialised with.                     *)
EXTENDS Naturals

CONSTANTS
    Threads,            \* the request threads of the server
    LiveModel,          \* a model client is configured (else the deterministic planner)
    MaxRounds,          \* FrontDeskConfig.max_clarification_rounds
    MaxCoreNeedRounds,  \* FrontDeskConfig.max_core_need_rounds
    MaxRevisions,       \* FrontDeskConfig.max_plan_revision_rounds
    InputCount,         \* the builder inputs a freeze writes (six in the code)
    MaxCalls,           \* bound: requests in a behaviour, builds aside
    MaxRestarts         \* bound: server deaths in the middle of a request

ASSUME FrontDeskAssumption ==
    /\ LiveModel \in BOOLEAN
    /\ MaxRounds \in Nat \ {0}
    /\ MaxCoreNeedRounds \in Nat \ {0}
    /\ MaxRevisions \in Nat
    /\ InputCount \in Nat \ {0}
    /\ MaxCalls \in Nat
    /\ MaxRestarts \in Nat

Contents == 0..MaxCalls
Rounds == 0..MaxRounds

(* The builder inputs in the order a freeze writes them, each the content of   *)
(* the drafts it was written from.                                             *)
Inputs == 1..InputCount
BuilderInputs == [Inputs -> Contents]
FromDrafts(n) == [i \in Inputs |-> n]

Readiness == {"new_conversation", "needs_clarification", "awaiting_plan_review",
              "plan_revision_requested", "plan_approved", "frozen",
              "human_review_required", "rejected", "failed"}

TerminalReadiness == {"frozen", "human_review_required", "rejected", "failed"}

(* FrontDeskState; next_action follows from the readiness.  report and review  *)
(* are the indexes in latest_elicitation_report_ref and latest_plan_review_ref.*)
State == [readiness : Readiness, round : Rounds, revisions : 0..(MaxRevisions + 1),
          report : Rounds, review : Rounds]

Decisions == {"approve", "request_revision", "reject", "human_review"}

(* plan_review_<round>.json, a PlanReviewRecord; plan is its source_hash.      *)
Review == [round : Rounds, decision : Decisions, plan : Contents]

(* The artifact_hashes of freeze_manifest.json.                                *)
Manifest == [turns : 0..(2 * MaxCalls), draft : Contents, plan : Contents,
             round : Rounds, review : SUBSET Review, root : BuilderInputs]

Labels == {"idle", "upsert", "read_state", "append_revision", "save_review",
           "begin", "elicit", "write_plan", "await_review", "fail_plan",
           "audit", "gate", "write_root", "hash_root", "lock", "seal", "freeze",
           "ask", "fail_freeze", "save"}

(* Between the first write to the builder inputs and their new hashes.         *)
Replacing == {"write_root", "hash_root", "lock"}

VARIABLES
    state,      \* frontdesk/state.json
    turns,      \* the turns in conversation.jsonl
    draft,      \* draft_skill_spec.yaml and acceptance_criteria.yaml
    plan,       \* solution_plan.json, by its hash
    reviews,    \* the plan review records on file, one per round
    root,       \* the builder inputs: skill_spec.yaml and its companions
    locked,     \* their hashes in artifact_manifest.json
    manifest,   \* freeze_manifest.json
    made,       \* planning rounds that wrote drafts
    pc,         \* where each thread is in its request
    st,         \* the FrontDeskState object the thread carries
    mine,       \* the content the thread is writing
    file,       \* the builder inputs it has written, or hashed, so far
    seen,       \* the locked hashes the thread read, or took for a freeze
    cont,       \* where the thread goes after the manifest upsert
    approved,   \* history: the plans a user approved
    gated,      \* history: what passed the freeze gate
    built,      \* history: what passed the build gate
    overlap,    \* history: two freezes were replacing the builder inputs at once
    cut,        \* history: a freeze that failed left them unlike their hashes
    calls, restarts

files == <<turns, draft, plan, reviews, root, locked, manifest, made>>
history == <<approved, gated, built, overlap, cut>>
bounds == <<calls, restarts>>
vars == <<state, turns, draft, plan, reviews, root, locked, manifest, made,
          pc, st, mine, file, seen, cont, approved, gated, built, overlap, cut,
          calls, restarts>>

NoManifest == [turns |-> 0, draft |-> 0, plan |-> 0, round |-> 0, review |-> {},
               root |-> FromDrafts(0)]
NewState == [readiness |-> "new_conversation", round |-> 0, revisions |-> 0,
             report |-> 0, review |-> 0]
Done == [ok |-> "idle", tampered |-> "idle"]

TypeOK ==
    /\ state \in State
    /\ turns \in 0..(2 * MaxCalls)
    /\ draft \in Contents /\ plan \in Contents
    /\ reviews \subseteq Review
    /\ root \in BuilderInputs /\ locked \in BuilderInputs
    /\ manifest \in Manifest
    /\ made \in 0..calls
    /\ pc \in [Threads -> Labels]
    /\ st \in [Threads -> State]
    /\ mine \in [Threads -> Contents]
    /\ file \in [Threads -> 0..InputCount]
    /\ seen \in [Threads -> BuilderInputs]
    /\ cont \in [Threads -> [ok : Labels, tampered : Labels]]
    /\ approved \subseteq Contents
    /\ gated \subseteq [plan : Contents, draft : Contents]
    /\ built \subseteq [plan : Contents, root : BuilderInputs]
    /\ overlap \in BOOLEAN /\ cut \in BOOLEAN
    /\ calls \in 0..MaxCalls
    /\ restarts \in 0..MaxRestarts

Init ==
    /\ state = NewState
    /\ turns = 0
    /\ draft = 0 /\ plan = 0
    /\ reviews = {}
    /\ root = FromDrafts(0) /\ locked = FromDrafts(0)
    /\ manifest = NoManifest
    /\ made = 0
    /\ pc = [t \in Threads |-> "idle"]
    /\ st = [t \in Threads |-> NewState]
    /\ mine = [t \in Threads |-> 0]
    /\ file = [t \in Threads |-> 0]
    /\ seen = [t \in Threads |-> FromDrafts(0)]
    /\ cont = [t \in Threads |-> Done]
    /\ approved = {} /\ gated = {} /\ built = {}
    /\ overlap = FALSE /\ cut = FALSE
    /\ calls = 0
    /\ restarts = 0

-----------------------------------------------------------------------------
(* Helpers *)

AtLeast(a, b) == IF a >= b THEN a ELSE b
AtMost(a, b) == IF a <= b THEN a ELSE b

Goto(t, label) ==
    /\ pc' = [pc EXCEPT ![t] = label]
    /\ UNCHANGED <<seen, cont>>

Carry(t, s) == st' = [st EXCEPT ![t] = s]

LockedInputsMatch == root = locked

(* The file is on disk and the thread has read the artifact manifest; the next *)
(* step writes the manifest back and checks the locked inputs.                 *)
ThenUpsert(t, ok, tampered) ==
    /\ pc' = [pc EXCEPT ![t] = "upsert"]
    /\ seen' = [seen EXCEPT ![t] = locked]
    /\ cont' = [cont EXCEPT ![t] = [ok |-> ok, tampered |-> tampered]]

(* A successor FrontDeskState.                                                 *)
Moved(s, readiness, round, report) ==
    [readiness |-> readiness, round |-> round, revisions |-> s.revisions,
     report |-> report, review |-> s.review]

Reviewed(s, readiness, revisions, review) ==
    [readiness |-> readiness, round |-> s.round, revisions |-> revisions,
     report |-> s.report, review |-> review]

(* The round a review, an audit and a freeze speak of.                         *)
ReportRound(s) == IF s.report # 0 THEN s.report ELSE AtLeast(1, s.round)

(* The report a round that fails after elicitation leaves in the state.        *)
FailedReport(s, round) == IF LiveModel THEN round ELSE s.report

ReviewsOf(round) == {r \in reviews : r.round = round}

(* Mutant: the source_hash is not compared.                                    *)
AnyApproval(round) == \E r \in ReviewsOf(round) : r.decision = "approve"

(* The review of the round approves the plan that is on file now.              *)
ReviewApproves(round) ==
    \E r \in ReviewsOf(round) : r.decision = "approve" /\ r.plan = plan

(* The artifact hashes a freeze takes, and the build gate takes again.         *)
HashesNow(round) ==
    [turns |-> turns, draft |-> draft, plan |-> plan, round |-> round,
     review |-> ReviewsOf(round), root |-> root]

(* Mutant: one round too many.                                                 *)
ClarifyOnceMore(s, round, limit) ==
    Moved(s, IF round > limit THEN "human_review_required" ELSE "needs_clarification",
          round, round)

ClarifyOrEscalate(s, round, limit) ==
    Moved(s, IF round >= limit THEN "human_review_required" ELSE "needs_clarification",
          round, round)

-----------------------------------------------------------------------------
(* Requests *)

Request(t) ==
    /\ pc[t] = "idle"
    /\ calls < MaxCalls
    /\ calls' = calls + 1
    /\ UNCHANGED restarts

(* POST /frontdesk/jobs: the job directory must not exist yet.                 *)
Create(t) ==
    /\ Request(t)
    /\ turns = 0
    /\ turns' = 1
    /\ Carry(t, NewState)
    /\ ThenUpsert(t, "begin", "idle")
    /\ UNCHANGED <<state, draft, plan, reviews, root, locked, manifest, made,
                   mine, file, history>>

(* POST messages: the turn is appended whatever state the job is in.           *)
Message(t) ==
    /\ Request(t)
    /\ turns > 0
    /\ turns' = turns + 1
    /\ ThenUpsert(t, "read_state", "idle")
    /\ UNCHANGED <<state, draft, plan, reviews, root, locked, manifest, made,
                   st, mine, file, history>>

ReadState(t) ==
    /\ pc[t] = "read_state"
    /\ Carry(t, state)
    /\ Goto(t, "begin")
    /\ UNCHANGED <<state, files, mine, file, history, bounds>>

(* POST plan-review: the record names the plan file as it is now.              *)
ReviewPlan(t, decision) ==
    LET round == ReportRound(state)
        count == state.revisions + 1
        over == count > MaxRevisions
    IN
    /\ Request(t)
    /\ state.readiness \in {"awaiting_plan_review", "plan_revision_requested"}
    /\ reviews' = (reviews \ ReviewsOf(round))
                  \cup {[round |-> round, decision |-> decision, plan |-> plan]}
    /\ \/ /\ decision = "approve"
          /\ approved' = approved \cup {plan}
          /\ Carry(t, Reviewed(state, "plan_approved", state.revisions, round))
          /\ ThenUpsert(t, "save_review", "idle")
       \/ /\ decision = "reject"
          /\ UNCHANGED approved
          /\ Carry(t, Reviewed(state, "rejected", state.revisions, round))
          /\ ThenUpsert(t, "save", "idle")
       \/ /\ decision = "human_review"
          /\ UNCHANGED approved
          /\ Carry(t, Reviewed(state, "human_review_required", state.revisions, round))
          /\ ThenUpsert(t, "save", "idle")
       \/ /\ decision = "request_revision" /\ over
          /\ UNCHANGED approved
          /\ Carry(t, Reviewed(state, "human_review_required", count, round))
          /\ ThenUpsert(t, "save", "idle")
       \/ /\ decision = "request_revision" /\ ~over
          /\ UNCHANGED approved
          /\ Carry(t, Reviewed(state, "plan_revision_requested", count, round))
          /\ ThenUpsert(t, "append_revision", "idle")
    /\ UNCHANGED <<state, turns, draft, plan, root, locked, manifest, made,
                   mine, file, gated, built, overlap, cut>>

AppendRevision(t) ==
    /\ pc[t] = "append_revision"
    /\ turns' = turns + 1
    /\ ThenUpsert(t, "save_review", "idle")
    /\ UNCHANGED <<state, draft, plan, reviews, root, locked, manifest, made,
                   st, mine, file, history, bounds>>

SaveReview(t) ==
    /\ pc[t] = "save_review"
    /\ state' = st[t]
    /\ ThenUpsert(t, "begin", "idle")
    /\ UNCHANGED <<files, st, mine, file, history, bounds>>

(* POST retry: no turn is appended; a failed job elicits again.                *)
Retry(t) ==
    /\ Request(t)
    /\ state.readiness \notin {"new_conversation", "frozen", "human_review_required", "rejected"}
    /\ \/ /\ state.readiness = "failed"
          /\ state.report # 0
          /\ Carry(t, Moved(state, "needs_clarification", state.report, state.report))
       \/ /\ state.readiness # "failed"
          /\ Carry(t, state)
    /\ Goto(t, "begin")
    /\ UNCHANGED <<state, files, mine, file, history>>

(* The freeze manifest still describes the files it was written for.           *)
ManifestHolds == manifest = HashesNow(manifest.round)

BuildGate ==
    /\ state.readiness = "frozen"
    /\ LockedInputsMatch
    /\ ManifestHolds

(* POST build by the default path: a refused request changes nothing, and one  *)
(* that is accepted none of the job's files, so that builds need no bound.     *)
Build(t) ==
    /\ pc[t] = "idle"
    /\ BuildGate
    /\ built' = built \cup {[plan |-> plan, root |-> root]}
    /\ UNCHANGED <<state, files, pc, st, mine, file, seen, cont, approved,
                   gated, overlap, cut, bounds>>

-----------------------------------------------------------------------------
(* A round *)

(* Mutant: no round is refused for its number.                                 *)
BeginUnbounded(t) ==
    LET s == st[t] IN
    /\ pc[t] = "begin"
    /\ Goto(t, IF s.readiness \in TerminalReadiness THEN "save"
               ELSE IF s.readiness = "plan_approved" THEN "audit" ELSE "elicit")
    /\ UNCHANGED <<state, files, st, mine, file, history, bounds>>

Begin(t) ==
    LET s == st[t] IN
    /\ pc[t] = "begin"
    /\ \/ /\ s.readiness \in TerminalReadiness
          /\ Goto(t, "save") /\ UNCHANGED st
       \/ /\ s.readiness = "plan_approved"
          /\ Goto(t, "audit") /\ UNCHANGED st
       \/ /\ s.readiness \notin TerminalReadiness \cup {"plan_approved"}
          /\ s.round >= MaxRounds
          /\ Carry(t, Moved(s, "human_review_required", s.round, s.report))
          /\ Goto(t, "save")
       \/ /\ s.readiness \notin TerminalReadiness \cup {"plan_approved"}
          /\ s.round < MaxRounds
          /\ Goto(t, "elicit") /\ UNCHANGED st
    /\ UNCHANGED <<state, files, mine, file, history, bounds>>

(* The elicitor raised or gave no usable answer; it cannot work on tampered    *)
(* inputs.                                                                     *)
ElicitFails(t) ==
    /\ pc[t] = "elicit"
    /\ Carry(t, Moved(st[t], "failed", st[t].round + 1, st[t].report))
    /\ Goto(t, "save")
    /\ UNCHANGED <<state, files, mine, file, history, bounds>>

(* The provider timed out: the round is not counted.                           *)
ElicitTimesOut(t) ==
    /\ pc[t] = "elicit"
    /\ LiveModel
    /\ Carry(t, Moved(st[t], "needs_clarification", st[t].round, st[t].report))
    /\ Goto(t, "save")
    /\ UNCHANGED <<state, files, mine, file, history, bounds>>

WriteDrafts(t) ==
    /\ made' = made + 1
    /\ draft' = made + 1

(* The elicitor has questions; it may bring drafts with them.                  *)
ElicitAsks(t) ==
    LET round == st[t].round + 1 IN
    /\ pc[t] = "elicit"
    /\ LiveModel
    /\ LockedInputsMatch
    /\ Carry(t, ClarifyOrEscalate(st[t], round, AtMost(MaxRounds, MaxCoreNeedRounds)))
    /\ \/ WriteDrafts(t)
       \/ UNCHANGED <<made, draft>>
    /\ ThenUpsert(t, "save", "save")
    /\ UNCHANGED <<state, turns, plan, reviews, root, locked, manifest, mine,
                   file, history, bounds>>

(* The elicitor is ready: drafts first, the plan in a later step.              *)
ElicitPlans(t) ==
    /\ pc[t] = "elicit"
    /\ LockedInputsMatch
    /\ WriteDrafts(t)
    /\ mine' = [mine EXCEPT ![t] = made + 1]
    /\ ThenUpsert(t, "write_plan", "fail_plan")
    /\ UNCHANGED <<state, turns, plan, reviews, root, locked, manifest, st,
                   file, history, bounds>>

WritePlan(t) ==
    /\ pc[t] = "write_plan"
    /\ plan' = mine[t]
    /\ ThenUpsert(t, "await_review", "fail_plan")
    /\ UNCHANGED <<state, turns, draft, reviews, root, locked, manifest, made,
                   st, mine, file, history, bounds>>

AwaitReview(t) ==
    LET round == st[t].round + 1 IN
    /\ pc[t] = "await_review"
    /\ Carry(t, Moved(st[t], "awaiting_plan_review", round, round))
    /\ Goto(t, "save")
    /\ UNCHANGED <<state, files, mine, file, history, bounds>>

(* Mutant: a failed planning round leaves the job as it found it.              *)
PlanFailsQuietly(t) ==
    /\ pc[t] \in {"write_plan", "await_review", "fail_plan"}
    /\ Goto(t, "save")
    /\ UNCHANGED <<state, files, st, mine, file, history, bounds>>

(* An exception around the plan files, or tampered inputs after the model call.*)
PlanFails(t) ==
    LET round == st[t].round + 1 IN
    /\ pc[t] \in {"write_plan", "await_review", "fail_plan"}
    /\ Carry(t, Moved(st[t], "failed", round, FailedReport(st[t], round)))
    /\ Goto(t, "save")
    /\ UNCHANGED <<state, files, mine, file, history, bounds>>

-----------------------------------------------------------------------------
(* Audit and freeze *)

AuditFails(t) ==
    LET round == ReportRound(st[t]) IN
    /\ pc[t] = "audit"
    /\ Carry(t, Moved(st[t], "failed", round, st[t].report))
    /\ Goto(t, "save")
    /\ UNCHANGED <<state, files, mine, file, history, bounds>>

AuditPasses(t) ==
    /\ pc[t] = "audit"
    /\ LockedInputsMatch
    /\ ReviewApproves(st[t].review)
    /\ ThenUpsert(t, "gate", "idle")
    /\ UNCHANGED <<state, files, st, mine, file, history, bounds>>

(* The gate reads drafts, plan and review; without a blocker it freezes.       *)
GateFreezes(t) ==
    /\ pc[t] = "gate"
    /\ ReviewApproves(ReportRound(st[t]))
    /\ mine' = [mine EXCEPT ![t] = draft]
    /\ file' = [file EXCEPT ![t] = 0]
    /\ gated' = gated \cup {[plan |-> plan, draft |-> draft]}
    /\ overlap' = (overlap \/ \E u \in Threads \ {t} : pc[u] \in Replacing)
    /\ Goto(t, "write_root")
    /\ UNCHANGED <<state, files, st, approved, built, cut, bounds>>

(* A blocker: of the reports, the risk policy, the criteria or the approval.   *)
GateBlocks(t, readiness) ==
    LET round == ReportRound(st[t]) IN
    /\ pc[t] = "gate"
    /\ Carry(t, Moved(st[t], readiness, round, round))
    /\ ThenUpsert(t, "save", "fail_freeze")
    /\ UNCHANGED <<state, files, mine, file, history, bounds>>

(* A blocker, or a failed freeze, that only the user can answer.               *)
GateAsks(t) ==
    LET round == ReportRound(st[t]) IN
    /\ pc[t] \in {"gate", "ask"}
    /\ Carry(t, ClarifyOrEscalate(st[t], round, MaxRounds))
    /\ ThenUpsert(t, "save", "fail_freeze")
    /\ UNCHANGED <<state, files, mine, file, history, bounds>>

(* The thread goes on to the next builder input, after the last one to label.  *)
NextInput(t, label) ==
    \/ /\ file[t] + 1 < InputCount
       /\ file' = [file EXCEPT ![t] = file[t] + 1]
       /\ UNCHANGED pc
    \/ /\ file[t] + 1 = InputCount
       /\ file' = [file EXCEPT ![t] = 0]
       /\ pc' = [pc EXCEPT ![t] = label]

(* Mutant: the drafts are read again instead of the ones the gate evaluated.   *)
WriteRootRereading(t) ==
    /\ pc[t] = "write_root"
    /\ root' = [root EXCEPT ![file[t] + 1] = draft]
    /\ NextInput(t, "hash_root")
    /\ UNCHANGED <<state, turns, draft, plan, reviews, locked, manifest, made,
                   st, mine, seen, cont, history, bounds>>

(* The builder inputs are written one after another, without a lock.           *)
WriteRoot(t) ==
    /\ pc[t] = "write_root"
    /\ root' = [root EXCEPT ![file[t] + 1] = mine[t]]
    /\ NextInput(t, "hash_root")
    /\ UNCHANGED <<state, turns, draft, plan, reviews, locked, manifest, made,
                   st, mine, seen, cont, history, bounds>>

(* Their new records take the hashes of the files as they are now.             *)
HashRoot(t) ==
    /\ pc[t] = "hash_root"
    /\ seen' = [seen EXCEPT ![t] = [seen[t] EXCEPT ![file[t] + 1] = root[file[t] + 1]]]
    /\ NextInput(t, "lock")
    /\ UNCHANGED <<state, files, st, mine, cont, history, bounds>>

(* Mutant: existing locked records keep their hash.                            *)
LockNewRecordsOnly(t) ==
    /\ pc[t] = "lock"
    /\ Goto(t, "seal")
    /\ UNCHANGED <<state, files, st, mine, file, history, bounds>>

(* The manifest is written with the new records.                               *)
Lock(t) ==
    /\ pc[t] = "lock"
    /\ locked' = seen[t]
    /\ Goto(t, "seal")
    /\ UNCHANGED <<state, turns, draft, plan, reviews, root, manifest, made, st,
                   mine, file, history, bounds>>

Seal(t) ==
    /\ pc[t] = "seal"
    /\ \/ /\ ~LockedInputsMatch
          /\ Goto(t, "ask")
          /\ UNCHANGED manifest
       \/ /\ LockedInputsMatch
          /\ manifest' = HashesNow(ReportRound(st[t]))
          /\ ThenUpsert(t, "freeze", "ask")
    /\ UNCHANGED <<state, turns, draft, plan, reviews, root, locked, made, st,
                   mine, file, history, bounds>>

(* freeze_write_failed: the gate catches the exception and the request goes on *)
(* with the builder inputs as they are.                                        *)
FreezeWriteFails(t) ==
    /\ \/ /\ pc[t] \in Replacing
          /\ cut' = (cut \/ ~LockedInputsMatch)
          /\ UNCHANGED manifest
       \/ /\ pc[t] = "seal"
          /\ manifest' \in {manifest, HashesNow(ReportRound(st[t]))}
          /\ UNCHANGED cut
    /\ Goto(t, "ask")
    /\ UNCHANGED <<state, turns, draft, plan, reviews, root, locked, made, st,
                   mine, file, approved, gated, built, overlap, bounds>>

Freeze(t) ==
    LET round == ReportRound(st[t]) IN
    /\ pc[t] = "freeze"
    /\ Carry(t, Moved(st[t], "frozen", round, round))
    /\ ThenUpsert(t, "save", "fail_freeze")
    /\ UNCHANGED <<state, files, mine, file, history, bounds>>

-----------------------------------------------------------------------------
(* The end of a request *)

(* _upsert_manifest_record: the whole manifest is written as it was read.      *)
Upsert(t) ==
    /\ pc[t] = "upsert"
    /\ locked' = seen[t]
    /\ Goto(t, IF root = seen[t] THEN cont[t].ok ELSE cont[t].tampered)
    /\ UNCHANGED <<state, turns, draft, plan, reviews, root, manifest, made, st,
                   mine, file, history, bounds>>

(* The gate could not write its result.                                        *)
FreezeFails(t) ==
    /\ pc[t] = "fail_freeze"
    /\ Carry(t, Moved(st[t], "failed", st[t].round, st[t].report))
    /\ Goto(t, "save")
    /\ UNCHANGED <<state, files, mine, file, history, bounds>>

Save(t) ==
    /\ pc[t] = "save"
    /\ state' = st[t]
    /\ ThenUpsert(t, "idle", "idle")
    /\ UNCHANGED <<files, st, mine, file, history, bounds>>

(* The server dies and starts again: the files are what is left.               *)
Restart ==
    /\ restarts < MaxRestarts
    /\ restarts' = restarts + 1
    /\ \E t \in Threads : pc[t] # "idle"
    /\ pc' = [t \in Threads |-> "idle"]
    /\ UNCHANGED <<state, files, st, mine, file, seen, cont, history, calls>>

Round(t) ==
    \/ Begin(t)
    \/ ElicitFails(t)
    \/ ElicitTimesOut(t)
    \/ ElicitAsks(t)
    \/ ElicitPlans(t)
    \/ WritePlan(t)
    \/ AwaitReview(t)
    \/ PlanFails(t)
    \/ AuditFails(t)
    \/ AuditPasses(t)
    \/ GateFreezes(t)
    \/ \E readiness \in {"human_review_required", "rejected"} : GateBlocks(t, readiness)
    \/ GateAsks(t)
    \/ WriteRoot(t)
    \/ HashRoot(t)
    \/ Lock(t)
    \/ Seal(t)
    \/ FreezeWriteFails(t)
    \/ Freeze(t)
    \/ Upsert(t)
    \/ FreezeFails(t)
    \/ Save(t)

Handle(t) ==
    \/ Create(t)
    \/ Message(t)
    \/ ReadState(t)
    \/ \E decision \in Decisions : ReviewPlan(t, decision)
    \/ AppendRevision(t)
    \/ SaveReview(t)
    \/ Retry(t)
    \/ Build(t)

Next == Restart \/ \E t \in Threads : Handle(t) \/ Round(t)

Spec == Init /\ [][Next]_vars

-----------------------------------------------------------------------------
(* Properties *)

(* A job that passed the freeze gate had its plan approved: the gate and the   *)
(* auditor compare the review's source_hash with solution_plan.json, so no     *)
(* interleaving of requests and no restart freezes a plan nobody approved.     *)
FreezeRestsOnApproval == \A g \in gated : g.plan \in approved

(* What reaches the builder passed the freeze gate, whatever other requests    *)
(* rewrite between the gate, the locked inputs, the manifest and state.json:   *)
(* every builder input was written from drafts the gate evaluated, and all of  *)
(* them from the same drafts unless two freezes replaced them at once.         *)
BuiltInputsWereGated ==
    \A b \in built :
       /\ \A i \in Inputs : \E g \in gated : b.root[i] = g.draft
       /\ overlap \/ \E g \in gated : b.root = FromDrafts(g.draft)

(* The builder gets the inputs of the plan the user approved: the drafts that  *)
(* plan was written with, and that plan itself beside them.                    *)
BuildsFollowApprovedPlan ==
    \A b \in built : b.plan \in approved /\ b.root = FromDrafts(b.plan)

(* A frozen job's builder inputs match their recorded hashes, and any job's do *)
(* outside a freeze unless one failed among the writes: then the job stays     *)
(* unfrozen, and every later write of it fails.                                *)
LockedInputsHold ==
    /\ state.readiness = "frozen" => LockedInputsMatch
    /\ LockedInputsMatch \/ cut \/ \E t \in Threads : pc[t] \in Replacing

(* A job that used up its clarification rounds or plan revisions is with a     *)
(* human: run_round, the freeze gate and the plan review each count for        *)
(* themselves, and retry turns the count back to the latest report.            *)
EscalatesOnBudget ==
    /\ state.revisions > MaxRevisions => state.readiness = "human_review_required"
    /\ state.readiness = "needs_clarification" => state.round < MaxRounds
=============================================================================
