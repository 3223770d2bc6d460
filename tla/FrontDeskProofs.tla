-------------------------- MODULE FrontDeskProofs --------------------------
(* What the freeze gate guarantees for any number of request threads, whatever *)
(* the limits of a job and however often the server dies.                      *)
EXTENDS FrontDesk, FiniteSetTheorems, TLAPS

-----------------------------------------------------------------------------
(* A freeze rests on an approval *)

(* The approvals on file were given: by the user, of that plan.                *)
ReviewsTestify == \A r \in reviews : r.decision = "approve" => r.plan \in approved

ApprovalInv == ReviewsTestify /\ FreezeRestsOnApproval

(* Steps that leave reviews and the freeze record alone preserve ApprovalInv.  *)
LEMMA ApprovalStable ==
    ASSUME ApprovalInv, UNCHANGED <<reviews, approved, gated>>
    PROVE  ApprovalInv'
BY DEF ApprovalInv, ReviewsTestify, FreezeRestsOnApproval

(* A review adds a record that names the plan it approves as approved.         *)
LEMMA ApprovalReview ==
    ASSUME ApprovalInv, NEW t \in Threads, NEW decision \in Decisions,
           ReviewPlan(t, decision)
    PROVE  ApprovalInv'
<1> DEFINE round == ReportRound(state)
<1>1. reviews' = (reviews \ ReviewsOf(round))
                 \cup {[round |-> round, decision |-> decision, plan |-> plan]}
      /\ UNCHANGED gated
  BY DEF ReviewPlan
<1>2. approved \subseteq approved'
  BY DEF ReviewPlan
<1>3. decision = "approve" => plan \in approved'
  BY DEF ReviewPlan
<1>4. ReviewsTestify'
  <2> SUFFICES ASSUME NEW r \in reviews', r.decision = "approve"
               PROVE  r.plan \in approved'
    BY DEF ReviewsTestify
  <2>1. CASE r \in reviews
    BY <2>1, <1>2 DEF ApprovalInv, ReviewsTestify
  <2>2. CASE r = [round |-> round, decision |-> decision, plan |-> plan]
    BY <2>2, <1>3
  <2> QED
    BY <2>1, <2>2, <1>1
<1>5. FreezeRestsOnApproval'
  BY <1>1, <1>2 DEF ApprovalInv, FreezeRestsOnApproval
<1> QED
  BY <1>4, <1>5 DEF ApprovalInv

(* The gate passes a plan only with a review that approves it.                 *)
LEMMA ApprovalGate ==
    ASSUME ApprovalInv, NEW t \in Threads, GateFreezes(t)
    PROVE  ApprovalInv'
<1>1. PICK r \in reviews : r.decision = "approve" /\ r.plan = plan
  BY DEF GateFreezes, ReviewApproves, ReviewsOf
<1>2. plan \in approved
  BY <1>1 DEF ApprovalInv, ReviewsTestify
<1>3. /\ UNCHANGED <<reviews, approved>>
      /\ gated' = gated \cup {[plan |-> plan, draft |-> draft]}
  BY DEF GateFreezes, files
<1> QED
  BY <1>2, <1>3 DEF ApprovalInv, ReviewsTestify, FreezeRestsOnApproval

LEMMA ApprovalStep == ApprovalInv /\ [Next]_vars => ApprovalInv'
<1> SUFFICES ASSUME ApprovalInv, [Next]_vars
             PROVE  ApprovalInv'
  OBVIOUS
<1> USE DEF files, history
<1>1. CASE UNCHANGED vars
  BY <1>1, ApprovalStable DEF vars
<1>2. CASE Restart
  BY <1>2, ApprovalStable DEF Restart
<1>3. ASSUME NEW t \in Threads, Handle(t) PROVE ApprovalInv'
  <2>1. CASE Create(t)
    BY <2>1, ApprovalStable DEF Create
  <2>2. CASE Message(t)
    BY <2>2, ApprovalStable DEF Message
  <2>3. CASE ReadState(t)
    BY <2>3, ApprovalStable DEF ReadState
  <2>4. ASSUME NEW decision \in Decisions, ReviewPlan(t, decision) PROVE ApprovalInv'
    BY <2>4, ApprovalReview
  <2>5. CASE AppendRevision(t)
    BY <2>5, ApprovalStable DEF AppendRevision
  <2>6. CASE SaveReview(t)
    BY <2>6, ApprovalStable DEF SaveReview
  <2>7. CASE Retry(t)
    BY <2>7, ApprovalStable DEF Retry
  <2>8. CASE Build(t)
    BY <2>8, ApprovalStable DEF Build
  <2> QED
    BY <1>3, <2>1, <2>2, <2>3, <2>4, <2>5, <2>6, <2>7, <2>8 DEF Handle
<1>4. ASSUME NEW t \in Threads, Round(t) PROVE ApprovalInv'
  <2>1. CASE GateFreezes(t)
    BY <2>1, ApprovalGate
  <2>2. CASE ~GateFreezes(t)
    <3>1. UNCHANGED <<reviews, approved, gated>>
      BY <1>4, <2>2 DEF Round, Begin, ElicitFails, ElicitTimesOut, ElicitAsks,
         ElicitPlans, WritePlan, AwaitReview, PlanFails, AuditFails, AuditPasses,
         GateBlocks, GateAsks, WriteRoot, HashRoot, NextInput, Lock, Seal, FreezeWriteFails, Freeze,
     Upsert, FreezeFails, Save
    <3> QED
      BY <3>1, ApprovalStable
  <2> QED
    BY <2>1, <2>2
<1> QED
  BY <1>1, <1>2, <1>3, <1>4 DEF Next

(* No interleaving of requests and no restart lets the freeze gate pass a plan *)
(* that no user approved (_evaluate_plan_review_approval).                     *)
THEOREM FreezesAreApproved == Spec => []FreezeRestsOnApproval
<1>1. Init => ApprovalInv
  BY DEF Init, ApprovalInv, ReviewsTestify, FreezeRestsOnApproval
<1>2. ApprovalInv => FreezeRestsOnApproval
  BY DEF ApprovalInv
<1> QED
  BY <1>1, <1>2, ApprovalStep, PTL DEF Spec

-----------------------------------------------------------------------------
(* What is built passed the gate *)

(* The shape of what threads carry; the rounds of a job are not bounded here.  *)
JobState == [readiness : Readiness, round : Nat, revisions : Nat, report : Nat,
             review : Nat]
OkLabels == {"idle", "begin", "read_state", "append_revision", "save_review",
             "write_plan", "await_review", "gate", "freeze", "save"}
TamperedLabels == {"idle", "ask", "fail_plan", "fail_freeze", "save"}

Shape ==
    /\ state \in JobState
    /\ draft \in Nat /\ made \in Nat
    /\ pc \in [Threads -> Labels]
    /\ st \in [Threads -> JobState]
    /\ mine \in [Threads -> Nat]
    /\ cont \in [Threads -> [ok : OkLabels, tampered : TamperedLabels]]
    /\ root \in [Inputs -> Nat] /\ locked \in [Inputs -> Nat]
    /\ seen \in [Threads -> [Inputs -> Nat]]
    /\ file \in [Threads -> 0..InputCount]

(* The thread writes or hashes one more builder input, perhaps the last one.   *)
LEMMA NextInputFacts ==
    ASSUME FrontDeskAssumption, file \in [Threads -> 0..InputCount],
           NEW t \in Threads, NEW label, NextInput(t, label)
    PROVE  /\ file[t] + 1 \in Inputs /\ file[t] \in Nat
           /\ \/ /\ pc' = pc /\ file' = [file EXCEPT ![t] = file[t] + 1]
              \/ /\ file[t] + 1 = InputCount /\ file' = [file EXCEPT ![t] = 0]
                 /\ pc' = [pc EXCEPT ![t] = label]
<1>1. file[t] \in Nat /\ InputCount \in Nat \ {0} /\ file[t] + 1 <= InputCount
  BY DEF NextInput, FrontDeskAssumption
<1>2. file[t] + 1 \in Inputs
  BY <1>1 DEF Inputs
<1> QED BY <1>1, <1>2 DEF NextInput

LEMMA ShapeBegin ==
    ASSUME Shape, NEW t \in Threads, Begin(t) PROVE Shape'
<1>1. UNCHANGED <<state, draft, made, mine, file, cont, seen, root, locked>>
  BY DEF Begin, Goto, files
<1>2. \E label \in {"save", "audit", "elicit"} : pc' = [pc EXCEPT ![t] = label]
  BY DEF Begin, Goto
<1>3. pc' \in [Threads -> Labels]
  BY <1>2 DEF Shape, Labels
<1>4. \/ UNCHANGED st
      \/ st' = [st EXCEPT ![t] = Moved(st[t], "human_review_required",
                                       st[t].round, st[t].report)]
  BY DEF Begin, Carry
<1>5. Moved(st[t], "human_review_required", st[t].round, st[t].report) \in JobState
  BY DEF Shape, Moved, JobState, Readiness
<1>6. st' \in [Threads -> JobState]
  BY <1>4, <1>5 DEF Shape
<1> QED BY <1>1, <1>3, <1>6 DEF Shape

LEMMA ShapeReplaces ==
    ASSUME FrontDeskAssumption, Shape, NEW t \in Threads, WriteRoot(t) \/ HashRoot(t)
    PROVE  Shape'
<1>1. PICK label \in {"hash_root", "lock"} : NextInput(t, label)
  BY DEF WriteRoot, HashRoot
<1>2. /\ file[t] + 1 \in Inputs
      /\ \/ /\ pc' = pc /\ file' = [file EXCEPT ![t] = file[t] + 1]
         \/ /\ file[t] + 1 = InputCount /\ file' = [file EXCEPT ![t] = 0]
            /\ pc' = [pc EXCEPT ![t] = label]
  BY <1>1, NextInputFacts DEF Shape
<1>3. file[t] + 1 \in 0..InputCount /\ 0 \in 0..InputCount
  BY <1>2 DEF Inputs, FrontDeskAssumption
<1>4. file' \in [Threads -> 0..InputCount]
  BY <1>2, <1>3 DEF Shape
<1>5. label \in Labels
  BY DEF Labels
<1>6. pc' \in [Threads -> Labels]
  BY <1>2, <1>5 DEF Shape
<1>7. root' \in [Inputs -> Nat]
  BY <1>2 DEF WriteRoot, HashRoot, files, Shape
<1>8. seen' \in [Threads -> [Inputs -> Nat]]
  <2>1. root[file[t] + 1] \in Nat /\ seen[t] \in [Inputs -> Nat]
    BY <1>2 DEF Shape
  <2>2. [seen[t] EXCEPT ![file[t] + 1] = root[file[t] + 1]] \in [Inputs -> Nat]
    BY <2>1
  <2> QED BY <2>2 DEF WriteRoot, HashRoot, Shape
<1>9. UNCHANGED <<state, draft, made, mine, st, cont, locked>>
  BY DEF WriteRoot, HashRoot, files
<1> QED BY <1>4, <1>6, <1>7, <1>8, <1>9 DEF Shape

LEMMA ShapeSeal ==
    ASSUME Shape, NEW t \in Threads, Seal(t) PROVE Shape'
<1>1. UNCHANGED <<state, draft, made, mine, file, st, root, locked>>
  BY DEF Seal
<1>2. Goto(t, "ask") \/ ThenUpsert(t, "freeze", "ask")
  BY DEF Seal
<1>3. pc' \in [Threads -> Labels]
  BY <1>2 DEF Goto, ThenUpsert, Shape, Labels
<1>4. seen' \in [Threads -> [Inputs -> Nat]]
  BY <1>2 DEF Goto, ThenUpsert, Shape
<1>5. cont' \in [Threads -> [ok : OkLabels, tampered : TamperedLabels]]
  <2>1. [ok |-> "freeze", tampered |-> "ask"] \in [ok : OkLabels, tampered : TamperedLabels]
    BY DEF OkLabels, TamperedLabels
  <2> QED BY <1>2, <2>1 DEF Goto, ThenUpsert, Shape
<1> QED BY <1>1, <1>3, <1>4, <1>5 DEF Shape

LEMMA ShapeStep == FrontDeskAssumption /\ Shape /\ [Next]_vars => Shape'
<1> SUFFICES ASSUME FrontDeskAssumption, Shape, [Next]_vars
             PROVE  Shape'
  OBVIOUS
<1> USE DEF Shape, JobState, Readiness, OkLabels, TamperedLabels, Labels, files,
            history, bounds, Carry, Goto, ThenUpsert, Moved, Reviewed, Done, NewState
<1>1. CASE UNCHANGED vars
  BY <1>1 DEF vars
<1>2. CASE Restart
  BY <1>2 DEF Restart
<1>3. ASSUME NEW t \in Threads, Handle(t) PROVE Shape'
  <2>1. CASE Create(t)
    BY <2>1 DEF Create, Request
  <2>2. CASE Message(t)
    BY <2>2 DEF Message, Request
  <2>3. CASE ReadState(t)
    BY <2>3 DEF ReadState, Request
  <2>4. ASSUME NEW decision \in Decisions, ReviewPlan(t, decision) PROVE Shape'
    <3> DEFINE round == ReportRound(state)
               count == state.revisions + 1
    <3>1. round \in Nat /\ count \in Nat /\ state.revisions \in Nat
      BY DEF ReportRound, AtLeast
    <3>2. UNCHANGED <<state, draft, made, mine, file, root, locked>>
      BY <2>4 DEF ReviewPlan
    <3>3. \E s \in {Reviewed(state, readiness, n, round) :
                     readiness \in Readiness, n \in {state.revisions, count}} :
             Carry(t, s)
      BY <2>4 DEF ReviewPlan
    <3>4. st' \in [Threads -> JobState]
      BY <3>1, <3>3
    <3>5. \E ok \in OkLabels : ThenUpsert(t, ok, "idle")
      BY <2>4 DEF ReviewPlan
    <3>6. /\ pc' \in [Threads -> Labels]
          /\ cont' \in [Threads -> [ok : OkLabels, tampered : TamperedLabels]]
          /\ seen' \in [Threads -> [Inputs -> Nat]]
      BY <3>5
    <3> QED
      BY <3>2, <3>4, <3>6
  <2>5. CASE AppendRevision(t)
    BY <2>5 DEF AppendRevision, Request
  <2>6. CASE SaveReview(t)
    BY <2>6 DEF SaveReview, Request
  <2>7. CASE Retry(t)
    BY <2>7 DEF Retry, Request
  <2>8. CASE Build(t)
    BY <2>8 DEF Build, Request
  <2> QED
    BY <1>3, <2>1, <2>2, <2>3, <2>4, <2>5, <2>6, <2>7, <2>8 DEF Handle
<1>4. ASSUME NEW t \in Threads, Round(t) PROVE Shape'
  <2>1. CASE Begin(t)
    BY <2>1, ShapeBegin
  <2>2. CASE ElicitFails(t)
    BY <2>2 DEF ElicitFails
  <2>3. CASE ElicitTimesOut(t)
    BY <2>3 DEF ElicitTimesOut
  <2>4. CASE ElicitAsks(t)
    BY <2>4 DEF ElicitAsks, ClarifyOrEscalate, WriteDrafts
  <2>5. CASE ElicitPlans(t)
    BY <2>5 DEF ElicitPlans, WriteDrafts
  <2>6. CASE WritePlan(t)
    BY <2>6 DEF WritePlan
  <2>7. CASE AwaitReview(t)
    BY <2>7 DEF AwaitReview
  <2>8. CASE PlanFails(t)
    BY <2>8 DEF PlanFails, FailedReport
  <2>9. CASE AuditFails(t)
    BY <2>9 DEF AuditFails, ReportRound, AtLeast
  <2>10. CASE AuditPasses(t)
    BY <2>10 DEF AuditPasses
  <2>11. CASE GateFreezes(t)
    BY <2>11 DEF GateFreezes
  <2>12. ASSUME NEW readiness \in {"human_review_required", "rejected"},
                GateBlocks(t, readiness)
         PROVE  Shape'
    BY <2>12 DEF GateBlocks, ReportRound, AtLeast
  <2>13. CASE GateAsks(t)
    BY <2>13 DEF GateAsks, ClarifyOrEscalate, ReportRound, AtLeast
  <2>14. CASE WriteRoot(t) \/ HashRoot(t)
    BY <2>14, ShapeReplaces
  <2>15. CASE Lock(t)
    BY <2>15 DEF Lock
  <2>16. CASE Seal(t)
    BY <2>16, ShapeSeal
  <2>21. CASE FreezeWriteFails(t)
    BY <2>21 DEF FreezeWriteFails
  <2>17. CASE Freeze(t)
    BY <2>17 DEF Freeze, ReportRound, AtLeast
  <2>18. CASE Upsert(t)
    BY <2>18 DEF Upsert
  <2>19. CASE FreezeFails(t)
    BY <2>19 DEF FreezeFails
  <2>20. CASE Save(t)
    BY <2>20 DEF Save
  <2> QED
    BY <1>4, <2>1, <2>2, <2>3, <2>4, <2>5, <2>6, <2>7, <2>8, <2>9, <2>10,
       <2>11, <2>12, <2>13, <2>14, <2>15, <2>16, <2>17, <2>18, <2>19, <2>20, <2>21
    DEF Round
<1> QED
  BY <1>1, <1>2, <1>3, <1>4 DEF Next

(* Drafts n passed the gate; every builder input was written from such drafts. *)
PassedGate(n) == \E g \in gated : g.draft = n
HasGatedRoot == \A i \in Inputs : PassedGate(root[i])

(* The thread is past writing the builder inputs of a freeze, or believes the  *)
(* job frozen.                                                                 *)
Freezing(t) ==
    \/ pc[t] \in {"hash_root", "lock", "seal", "freeze"}
    \/ cont[t].ok = "freeze"
    \/ st[t].readiness = "frozen"

(* What a thread writes to the builder inputs passed the gate.                 *)
WritersGated ==
    \A t \in Threads : pc[t] = "write_root" =>
       PassedGate(mine[t]) /\ \A i \in 1..file[t] : PassedGate(root[i])

FrozenRootGated ==
    (\E t \in Threads : Freezing(t)) \/ state.readiness = "frozen" => HasGatedRoot

BuiltInputsPassed == \A b \in built : \A i \in Inputs : PassedGate(b.root[i])

GatedInv == Shape /\ WritersGated /\ FrozenRootGated /\ BuiltInputsPassed

(* A step of one thread that leaves the builder inputs and the builds alone    *)
(* and brings no thread closer to a freeze preserves GatedInv.                 *)
LEMMA GatedStable ==
    ASSUME GatedInv, Shape', NEW t \in Threads,
           UNCHANGED <<root, built>>, gated \subseteq gated',
           \A u \in Threads \ {t} : /\ pc'[u] = pc[u] /\ st'[u] = st[u]
                                    /\ cont'[u] = cont[u] /\ mine'[u] = mine[u]
                                    /\ file'[u] = file[u],
           pc'[t] # "write_root",
           Freezing(t)' => Freezing(t) \/ state.readiness = "frozen",
           state'.readiness = "frozen" => Freezing(t) \/ state.readiness = "frozen"
    PROVE  GatedInv'
<1>0. \A n : PassedGate(n) => PassedGate(n)'
  BY DEF PassedGate
<1>1. WritersGated'
  BY <1>0 DEF GatedInv, WritersGated
<1>2. FrozenRootGated'
  <2> SUFFICES ASSUME (\E u \in Threads : Freezing(u)') \/ state'.readiness = "frozen"
               PROVE  HasGatedRoot'
    BY DEF FrozenRootGated
  <2>1. (\E u \in Threads : Freezing(u)) \/ state.readiness = "frozen"
    BY DEF Freezing
  <2> QED
    BY <2>1, <1>0 DEF GatedInv, FrozenRootGated, HasGatedRoot
<1>3. BuiltInputsPassed'
  BY <1>0 DEF GatedInv, BuiltInputsPassed
<1> QED
  BY <1>1, <1>2, <1>3 DEF GatedInv

LEMMA GatedStep == FrontDeskAssumption /\ GatedInv /\ [Next]_vars => GatedInv'
<1> SUFFICES ASSUME FrontDeskAssumption, GatedInv, [Next]_vars
             PROVE  GatedInv'
  OBVIOUS
<1>0. Shape /\ Shape'
  BY ShapeStep DEF GatedInv
<1> USE DEF files, history, Goto, Carry, ThenUpsert
<1>1. CASE UNCHANGED vars
  BY <1>1, <1>0 DEF vars, GatedInv, WritersGated, FrozenRootGated, HasGatedRoot,
     Freezing, PassedGate, BuiltInputsPassed
<1>2. CASE Restart
  BY <1>2, <1>0 DEF Restart, Shape, GatedInv, WritersGated, FrozenRootGated,
     HasGatedRoot, Freezing, PassedGate, BuiltInputsPassed
<1>3. ASSUME NEW t \in Threads, Handle(t) PROVE GatedInv'
  <2>1. CASE Create(t)
    <3>1. /\ UNCHANGED <<root, built>> /\ gated \subseteq gated'
          /\ \A u \in Threads \ {t} : /\ pc'[u] = pc[u] /\ st'[u] = st[u]
                                      /\ cont'[u] = cont[u] /\ mine'[u] = mine[u]
                                      /\ file'[u] = file[u]
      BY <2>1, <1>0 DEF Create, Request, NewState, Shape
    <3>2. /\ pc'[t] # "write_root"
          /\ Freezing(t)' => Freezing(t) \/ state.readiness = "frozen"
          /\ state'.readiness = "frozen" => Freezing(t) \/ state.readiness = "frozen"
      BY <2>1, <1>0 DEF Create, Request, NewState, Shape, JobState, OkLabels, Freezing
    <3> QED
      BY <3>1, <3>2, <1>0, GatedStable
  <2>2. CASE Message(t)
    <3>1. /\ UNCHANGED <<root, built>> /\ gated \subseteq gated'
          /\ \A u \in Threads \ {t} : /\ pc'[u] = pc[u] /\ st'[u] = st[u]
                                      /\ cont'[u] = cont[u] /\ mine'[u] = mine[u]
                                      /\ file'[u] = file[u]
      BY <2>2, <1>0 DEF Message, Request, Shape
    <3>2. /\ pc'[t] # "write_root"
          /\ Freezing(t)' => Freezing(t) \/ state.readiness = "frozen"
          /\ state'.readiness = "frozen" => Freezing(t) \/ state.readiness = "frozen"
      BY <2>2, <1>0 DEF Message, Request, Shape, JobState, OkLabels, Freezing
    <3> QED
      BY <3>1, <3>2, <1>0, GatedStable
  <2>3. CASE ReadState(t)
    <3>1. /\ UNCHANGED <<root, built>> /\ gated \subseteq gated'
          /\ \A u \in Threads \ {t} : /\ pc'[u] = pc[u] /\ st'[u] = st[u]
                                      /\ cont'[u] = cont[u] /\ mine'[u] = mine[u]
                                      /\ file'[u] = file[u]
      BY <2>3, <1>0 DEF ReadState, Shape
    <3>2. /\ pc'[t] # "write_root"
          /\ Freezing(t)' => Freezing(t) \/ state.readiness = "frozen"
          /\ state'.readiness = "frozen" => Freezing(t) \/ state.readiness = "frozen"
      BY <2>3, <1>0 DEF ReadState, Shape, JobState, OkLabels, Freezing
    <3> QED
      BY <3>1, <3>2, <1>0, GatedStable
  <2>4. ASSUME NEW decision \in Decisions, ReviewPlan(t, decision) PROVE GatedInv'
    <3>1. /\ UNCHANGED <<root, built>> /\ gated \subseteq gated'
          /\ \A u \in Threads \ {t} : /\ pc'[u] = pc[u] /\ st'[u] = st[u]
                                      /\ cont'[u] = cont[u] /\ mine'[u] = mine[u]
                                      /\ file'[u] = file[u]
      BY <2>4, <1>0 DEF ReviewPlan, Request, Reviewed, Shape
    <3>2. /\ pc'[t] # "write_root"
          /\ Freezing(t)' => Freezing(t) \/ state.readiness = "frozen"
          /\ state'.readiness = "frozen" => Freezing(t) \/ state.readiness = "frozen"
      BY <2>4, <1>0 DEF ReviewPlan, Request, Reviewed, Shape, JobState, OkLabels, Freezing
    <3> QED
      BY <3>1, <3>2, <1>0, GatedStable
  <2>5. CASE AppendRevision(t)
    <3>1. /\ UNCHANGED <<root, built>> /\ gated \subseteq gated'
          /\ \A u \in Threads \ {t} : /\ pc'[u] = pc[u] /\ st'[u] = st[u]
                                      /\ cont'[u] = cont[u] /\ mine'[u] = mine[u]
                                      /\ file'[u] = file[u]
      BY <2>5, <1>0 DEF AppendRevision, Shape
    <3>2. /\ pc'[t] # "write_root"
          /\ Freezing(t)' => Freezing(t) \/ state.readiness = "frozen"
          /\ state'.readiness = "frozen" => Freezing(t) \/ state.readiness = "frozen"
      BY <2>5, <1>0 DEF AppendRevision, Shape, JobState, OkLabels, Freezing
    <3> QED
      BY <3>1, <3>2, <1>0, GatedStable
  <2>6. CASE SaveReview(t)
    <3>1. /\ UNCHANGED <<root, built>> /\ gated \subseteq gated'
          /\ \A u \in Threads \ {t} : /\ pc'[u] = pc[u] /\ st'[u] = st[u]
                                      /\ cont'[u] = cont[u] /\ mine'[u] = mine[u]
                                      /\ file'[u] = file[u]
      BY <2>6, <1>0 DEF SaveReview, Shape
    <3>2. /\ pc'[t] # "write_root"
          /\ Freezing(t)' => Freezing(t) \/ state.readiness = "frozen"
          /\ state'.readiness = "frozen" => Freezing(t) \/ state.readiness = "frozen"
      BY <2>6, <1>0 DEF SaveReview, Shape, JobState, OkLabels, Freezing
    <3> QED
      BY <3>1, <3>2, <1>0, GatedStable
  <2>7. CASE Retry(t)
    <3>1. /\ UNCHANGED <<root, built>> /\ gated \subseteq gated'
          /\ \A u \in Threads \ {t} : /\ pc'[u] = pc[u] /\ st'[u] = st[u]
                                      /\ cont'[u] = cont[u] /\ mine'[u] = mine[u]
                                      /\ file'[u] = file[u]
      BY <2>7, <1>0 DEF Retry, Request, Moved, Shape
    <3>2. /\ pc'[t] # "write_root"
          /\ Freezing(t)' => Freezing(t) \/ state.readiness = "frozen"
          /\ state'.readiness = "frozen" => Freezing(t) \/ state.readiness = "frozen"
      BY <2>7, <1>0 DEF Retry, Request, Moved, Shape, JobState, OkLabels, Freezing
    <3> QED
      BY <3>1, <3>2, <1>0, GatedStable
  <2>8. CASE Build(t)
    <3>1. HasGatedRoot
      BY <2>8 DEF Build, BuildGate, GatedInv, FrozenRootGated
    <3>2. /\ UNCHANGED <<state, pc, st, mine, file, cont, root, gated>>
          /\ built' = built \cup {[plan |-> plan, root |-> root]}
      BY <2>8 DEF Build
    <3>3. BuiltInputsPassed'
      BY <3>1, <3>2 DEF GatedInv, BuiltInputsPassed, HasGatedRoot, PassedGate
    <3> QED
      BY <3>2, <3>3, <1>0 DEF GatedInv, WritersGated, FrozenRootGated, HasGatedRoot,
         PassedGate, Freezing
  <2> QED
    BY <1>3, <2>1, <2>2, <2>3, <2>4, <2>5, <2>6, <2>7, <2>8 DEF Handle
<1>4. ASSUME NEW t \in Threads, Round(t) PROVE GatedInv'
  <2>1. CASE Begin(t)
    <3>1. /\ UNCHANGED <<root, built>> /\ gated \subseteq gated'
          /\ \A u \in Threads \ {t} : /\ pc'[u] = pc[u] /\ st'[u] = st[u]
                                      /\ cont'[u] = cont[u] /\ mine'[u] = mine[u]
                                      /\ file'[u] = file[u]
      BY <2>1, <1>0 DEF Begin, Moved, Shape
    <3>2. /\ pc'[t] # "write_root"
          /\ Freezing(t)' => Freezing(t) \/ state.readiness = "frozen"
          /\ state'.readiness = "frozen" => Freezing(t) \/ state.readiness = "frozen"
      BY <2>1, <1>0 DEF Begin, Moved, Shape, JobState, OkLabels, Freezing
    <3> QED
      BY <3>1, <3>2, <1>0, GatedStable
  <2>2. CASE ElicitFails(t)
    <3>1. /\ UNCHANGED <<root, built>> /\ gated \subseteq gated'
          /\ \A u \in Threads \ {t} : /\ pc'[u] = pc[u] /\ st'[u] = st[u]
                                      /\ cont'[u] = cont[u] /\ mine'[u] = mine[u]
                                      /\ file'[u] = file[u]
      BY <2>2, <1>0 DEF ElicitFails, Moved, Shape
    <3>2. /\ pc'[t] # "write_root"
          /\ Freezing(t)' => Freezing(t) \/ state.readiness = "frozen"
          /\ state'.readiness = "frozen" => Freezing(t) \/ state.readiness = "frozen"
      BY <2>2, <1>0 DEF ElicitFails, Moved, Shape, JobState, OkLabels, Freezing
    <3> QED
      BY <3>1, <3>2, <1>0, GatedStable
  <2>3. CASE ElicitTimesOut(t)
    <3>1. /\ UNCHANGED <<root, built>> /\ gated \subseteq gated'
          /\ \A u \in Threads \ {t} : /\ pc'[u] = pc[u] /\ st'[u] = st[u]
                                      /\ cont'[u] = cont[u] /\ mine'[u] = mine[u]
                                      /\ file'[u] = file[u]
      BY <2>3, <1>0 DEF ElicitTimesOut, Moved, Shape
    <3>2. /\ pc'[t] # "write_root"
          /\ Freezing(t)' => Freezing(t) \/ state.readiness = "frozen"
          /\ state'.readiness = "frozen" => Freezing(t) \/ state.readiness = "frozen"
      BY <2>3, <1>0 DEF ElicitTimesOut, Moved, Shape, JobState, OkLabels, Freezing
    <3> QED
      BY <3>1, <3>2, <1>0, GatedStable
  <2>4. CASE ElicitAsks(t)
    <3>1. /\ UNCHANGED <<root, built>> /\ gated \subseteq gated'
          /\ \A u \in Threads \ {t} : /\ pc'[u] = pc[u] /\ st'[u] = st[u]
                                      /\ cont'[u] = cont[u] /\ mine'[u] = mine[u]
                                      /\ file'[u] = file[u]
      BY <2>4, <1>0 DEF ElicitAsks, Moved, ClarifyOrEscalate, WriteDrafts, Shape
    <3>2. /\ pc'[t] # "write_root"
          /\ Freezing(t)' => Freezing(t) \/ state.readiness = "frozen"
          /\ state'.readiness = "frozen" => Freezing(t) \/ state.readiness = "frozen"
      BY <2>4, <1>0 DEF ElicitAsks, Moved, ClarifyOrEscalate, WriteDrafts, Shape, JobState, OkLabels, Freezing
    <3> QED
      BY <3>1, <3>2, <1>0, GatedStable
  <2>5. CASE ElicitPlans(t)
    <3>1. /\ UNCHANGED <<root, built>> /\ gated \subseteq gated'
          /\ \A u \in Threads \ {t} : /\ pc'[u] = pc[u] /\ st'[u] = st[u]
                                      /\ cont'[u] = cont[u] /\ mine'[u] = mine[u]
                                      /\ file'[u] = file[u]
      BY <2>5, <1>0 DEF ElicitPlans, WriteDrafts, Shape
    <3>2. /\ pc'[t] # "write_root"
          /\ Freezing(t)' => Freezing(t) \/ state.readiness = "frozen"
          /\ state'.readiness = "frozen" => Freezing(t) \/ state.readiness = "frozen"
      BY <2>5, <1>0 DEF ElicitPlans, WriteDrafts, Shape, JobState, OkLabels, Freezing
    <3> QED
      BY <3>1, <3>2, <1>0, GatedStable
  <2>6. CASE WritePlan(t)
    <3>1. /\ UNCHANGED <<root, built>> /\ gated \subseteq gated'
          /\ \A u \in Threads \ {t} : /\ pc'[u] = pc[u] /\ st'[u] = st[u]
                                      /\ cont'[u] = cont[u] /\ mine'[u] = mine[u]
                                      /\ file'[u] = file[u]
      BY <2>6, <1>0 DEF WritePlan, Shape
    <3>2. /\ pc'[t] # "write_root"
          /\ Freezing(t)' => Freezing(t) \/ state.readiness = "frozen"
          /\ state'.readiness = "frozen" => Freezing(t) \/ state.readiness = "frozen"
      BY <2>6, <1>0 DEF WritePlan, Shape, JobState, OkLabels, Freezing
    <3> QED
      BY <3>1, <3>2, <1>0, GatedStable
  <2>7. CASE AwaitReview(t)
    <3>1. /\ UNCHANGED <<root, built>> /\ gated \subseteq gated'
          /\ \A u \in Threads \ {t} : /\ pc'[u] = pc[u] /\ st'[u] = st[u]
                                      /\ cont'[u] = cont[u] /\ mine'[u] = mine[u]
                                      /\ file'[u] = file[u]
      BY <2>7, <1>0 DEF AwaitReview, Moved, Shape
    <3>2. /\ pc'[t] # "write_root"
          /\ Freezing(t)' => Freezing(t) \/ state.readiness = "frozen"
          /\ state'.readiness = "frozen" => Freezing(t) \/ state.readiness = "frozen"
      BY <2>7, <1>0 DEF AwaitReview, Moved, Shape, JobState, OkLabels, Freezing
    <3> QED
      BY <3>1, <3>2, <1>0, GatedStable
  <2>8. CASE PlanFails(t)
    <3>1. /\ UNCHANGED <<root, built>> /\ gated \subseteq gated'
          /\ \A u \in Threads \ {t} : /\ pc'[u] = pc[u] /\ st'[u] = st[u]
                                      /\ cont'[u] = cont[u] /\ mine'[u] = mine[u]
                                      /\ file'[u] = file[u]
      BY <2>8, <1>0 DEF PlanFails, Moved, Shape
    <3>2. /\ pc'[t] # "write_root"
          /\ Freezing(t)' => Freezing(t) \/ state.readiness = "frozen"
          /\ state'.readiness = "frozen" => Freezing(t) \/ state.readiness = "frozen"
      BY <2>8, <1>0 DEF PlanFails, Moved, Shape, JobState, OkLabels, Freezing
    <3> QED
      BY <3>1, <3>2, <1>0, GatedStable
  <2>9. CASE AuditFails(t)
    <3>1. /\ UNCHANGED <<root, built>> /\ gated \subseteq gated'
          /\ \A u \in Threads \ {t} : /\ pc'[u] = pc[u] /\ st'[u] = st[u]
                                      /\ cont'[u] = cont[u] /\ mine'[u] = mine[u]
                                      /\ file'[u] = file[u]
      BY <2>9, <1>0 DEF AuditFails, Moved, Shape
    <3>2. /\ pc'[t] # "write_root"
          /\ Freezing(t)' => Freezing(t) \/ state.readiness = "frozen"
          /\ state'.readiness = "frozen" => Freezing(t) \/ state.readiness = "frozen"
      BY <2>9, <1>0 DEF AuditFails, Moved, Shape, JobState, OkLabels, Freezing
    <3> QED
      BY <3>1, <3>2, <1>0, GatedStable
  <2>10. CASE AuditPasses(t)
    <3>1. /\ UNCHANGED <<root, built>> /\ gated \subseteq gated'
          /\ \A u \in Threads \ {t} : /\ pc'[u] = pc[u] /\ st'[u] = st[u]
                                      /\ cont'[u] = cont[u] /\ mine'[u] = mine[u]
                                      /\ file'[u] = file[u]
      BY <2>10, <1>0 DEF AuditPasses, Shape
    <3>2. /\ pc'[t] # "write_root"
          /\ Freezing(t)' => Freezing(t) \/ state.readiness = "frozen"
          /\ state'.readiness = "frozen" => Freezing(t) \/ state.readiness = "frozen"
      BY <2>10, <1>0 DEF AuditPasses, Shape, JobState, OkLabels, Freezing
    <3> QED
      BY <3>1, <3>2, <1>0, GatedStable
  <2>11. CASE GateFreezes(t)
    <3>1. /\ UNCHANGED <<state, st, cont, root, built>>
          /\ pc' = [pc EXCEPT ![t] = "write_root"]
          /\ mine' = [mine EXCEPT ![t] = draft]
          /\ file' = [file EXCEPT ![t] = 0]
          /\ gated' = gated \cup {[plan |-> plan, draft |-> draft]}
      BY <2>11 DEF GateFreezes
    <3>2. \A n : PassedGate(n) => PassedGate(n)'
      BY <3>1 DEF PassedGate
    <3>3. PassedGate(draft)'
      <4>1. [plan |-> plan, draft |-> draft] \in gated' /\ draft' = draft
        BY <2>11, <3>1 DEF GateFreezes
      <4> QED BY <4>1 DEF PassedGate
    <3>4. ASSUME NEW u \in Threads, pc'[u] = "write_root"
          PROVE  PassedGate(mine[u])' /\ \A i \in 1..file'[u] : PassedGate(root[i])'
      <4>1. CASE u = t
        <5>1. mine'[u] = draft /\ file'[u] = 0 /\ draft' = draft
          BY <2>11, <3>1, <4>1, <1>0 DEF Shape, GateFreezes
        <5> QED
          BY <5>1, <3>3
      <4>2. CASE u # t
        <5>1. pc[u] = "write_root" /\ mine'[u] = mine[u] /\ file'[u] = file[u]
          BY <3>1, <3>4, <4>2, <1>0 DEF Shape
        <5> QED
          BY <5>1, <3>1, <3>2 DEF GatedInv, WritersGated
      <4> QED
        BY <4>1, <4>2
    <3>5. FrozenRootGated'
      BY <3>1, <3>2, <1>0 DEF Shape, GatedInv, FrozenRootGated, HasGatedRoot, Freezing
    <3>6. BuiltInputsPassed'
      BY <3>1, <3>2 DEF GatedInv, BuiltInputsPassed
    <3> QED
      BY <3>4, <3>5, <3>6, <1>0 DEF GatedInv, WritersGated
  <2>12. ASSUME NEW readiness \in {"human_review_required", "rejected"},
                GateBlocks(t, readiness)
         PROVE  GatedInv'
    <3>1. /\ UNCHANGED <<root, built>> /\ gated \subseteq gated'
          /\ \A u \in Threads \ {t} : /\ pc'[u] = pc[u] /\ st'[u] = st[u]
                                      /\ cont'[u] = cont[u] /\ mine'[u] = mine[u]
                                      /\ file'[u] = file[u]
      BY <2>12, <1>0 DEF GateBlocks, Moved, Shape
    <3>2. /\ pc'[t] # "write_root"
          /\ Freezing(t)' => Freezing(t) \/ state.readiness = "frozen"
          /\ state'.readiness = "frozen" => Freezing(t) \/ state.readiness = "frozen"
      BY <2>12, <1>0 DEF GateBlocks, Moved, Shape, JobState, OkLabels, Freezing
    <3> QED
      BY <3>1, <3>2, <1>0, GatedStable
  <2>13. CASE GateAsks(t)
    <3>1. /\ UNCHANGED <<root, built>> /\ gated \subseteq gated'
          /\ \A u \in Threads \ {t} : /\ pc'[u] = pc[u] /\ st'[u] = st[u]
                                      /\ cont'[u] = cont[u] /\ mine'[u] = mine[u]
                                      /\ file'[u] = file[u]
      BY <2>13, <1>0 DEF GateAsks, Moved, ClarifyOrEscalate, Shape
    <3>2. /\ pc'[t] # "write_root"
          /\ Freezing(t)' => Freezing(t) \/ state.readiness = "frozen"
          /\ state'.readiness = "frozen" => Freezing(t) \/ state.readiness = "frozen"
      BY <2>13, <1>0 DEF GateAsks, Moved, ClarifyOrEscalate, Shape, JobState, OkLabels, Freezing
    <3> QED
      BY <3>1, <3>2, <1>0, GatedStable
  <2>14. CASE WriteRoot(t)
    <3> DEFINE k == file[t] + 1
    <3>1. /\ UNCHANGED <<state, mine, st, cont, gated, built>>
          /\ pc[t] = "write_root"
          /\ root' = [root EXCEPT ![k] = mine[t]]
          /\ NextInput(t, "hash_root")
      BY <2>14 DEF WriteRoot
    <3>2. /\ k \in Inputs /\ file[t] \in Nat
          /\ \/ /\ pc' = pc /\ file' = [file EXCEPT ![t] = k]
             \/ /\ k = InputCount /\ file' = [file EXCEPT ![t] = 0]
                /\ pc' = [pc EXCEPT ![t] = "hash_root"]
      BY <3>1, <1>0, NextInputFacts DEF Shape
    <3>3. PassedGate(mine[t]) /\ \A i \in 1..file[t] : PassedGate(root[i])
      BY <3>1 DEF GatedInv, WritersGated
    <3>4. \A n : PassedGate(n) <=> PassedGate(n)'
      BY <3>1 DEF PassedGate
    <3>5. \A i \in Inputs : root'[i] = IF i = k THEN mine[t] ELSE root[i]
      BY <3>1, <1>0 DEF Shape
    <3>6. \A i \in Inputs : PassedGate(root[i]) => PassedGate(root'[i])
      BY <3>3, <3>5
    <3>7. \A i \in 1..k : PassedGate(root'[i])
      <4>1. \A i \in 1..k : i \in Inputs /\ (i = k \/ i \in 1..file[t])
        BY <3>2 DEF Inputs, FrontDeskAssumption
      <4> QED BY <4>1, <3>3, <3>5
    <3>8. WritersGated'
      <4> SUFFICES ASSUME NEW u \in Threads, pc'[u] = "write_root"
                   PROVE  PassedGate(mine[u])' /\ \A i \in 1..file'[u] : PassedGate(root[i])'
        BY DEF WritersGated
      <4>1. CASE u = t
        <5>1. file'[t] = k /\ mine'[t] = mine[t]
          BY <3>1, <3>2, <3>4, <4>1, <1>0 DEF Shape
        <5> QED BY <5>1, <4>1, <3>3, <3>4, <3>7
      <4>2. CASE u # t
        <5>1. pc[u] = "write_root" /\ file'[u] = file[u] /\ mine'[u] = mine[u]
          BY <3>1, <3>2, <4>2, <1>0 DEF Shape
        <5>2. PassedGate(mine[u]) /\ \A i \in 1..file[u] : PassedGate(root[i])
          BY <5>1 DEF GatedInv, WritersGated
        <5>3. 1..file[u] \subseteq Inputs
          <6>1. file[u] \in 0..InputCount /\ InputCount \in Nat
            BY <1>0 DEF Shape, FrontDeskAssumption
          <6> QED BY <6>1 DEF Inputs
        <5>4. \A i \in 1..file[u] : PassedGate(root'[i])
          BY <5>2, <5>3, <3>6
        <5> QED BY <5>1, <5>2, <5>4, <3>4
      <4> QED BY <4>1, <4>2
    <3>9. FrozenRootGated'
      <4>1. HasGatedRoot => HasGatedRoot'
        BY <3>4, <3>6 DEF HasGatedRoot
      <4>2. CASE pc' = pc
        BY <4>1, <4>2, <3>1 DEF GatedInv, FrozenRootGated, Freezing
      <4>3. CASE k = InputCount
        BY <4>3, <3>4, <3>7 DEF FrozenRootGated, HasGatedRoot, Inputs
      <4> QED BY <4>2, <4>3, <3>2
    <3>10. BuiltInputsPassed'
      BY <3>1 DEF GatedInv, BuiltInputsPassed, PassedGate
    <3> QED
      BY <3>8, <3>9, <3>10, <1>0 DEF GatedInv
  <2>21. CASE HashRoot(t)
    <3>1. /\ UNCHANGED <<state, root, st, mine, cont, gated, built>>
          /\ pc[t] = "hash_root"
          /\ NextInput(t, "lock")
      BY <2>21 DEF HashRoot
    <3>2. /\ \A u \in Threads \ {t} : pc'[u] = pc[u] /\ file'[u] = file[u]
          /\ pc'[t] \in {"hash_root", "lock"}
      BY <3>1, <1>0 DEF NextInput, Shape
    <3>3. Freezing(t)
      BY <3>1 DEF Freezing
    <3> QED
      BY <3>1, <3>2, <3>3, <1>0, GatedStable
  <2>22. CASE FreezeWriteFails(t)
    <3>1. /\ UNCHANGED <<root, built>> /\ gated \subseteq gated'
          /\ \A u \in Threads \ {t} : /\ pc'[u] = pc[u] /\ st'[u] = st[u]
                                      /\ cont'[u] = cont[u] /\ mine'[u] = mine[u]
                                      /\ file'[u] = file[u]
      BY <2>22, <1>0 DEF FreezeWriteFails, Shape
    <3>2. /\ pc'[t] # "write_root"
          /\ Freezing(t)' => Freezing(t) \/ state.readiness = "frozen"
          /\ state'.readiness = "frozen" => Freezing(t) \/ state.readiness = "frozen"
      BY <2>22, <1>0 DEF FreezeWriteFails, Shape, JobState, OkLabels, Freezing
    <3> QED
      BY <3>1, <3>2, <1>0, GatedStable
  <2>15. CASE Lock(t)
    <3>1. /\ UNCHANGED <<root, built>> /\ gated \subseteq gated'
          /\ \A u \in Threads \ {t} : /\ pc'[u] = pc[u] /\ st'[u] = st[u]
                                      /\ cont'[u] = cont[u] /\ mine'[u] = mine[u]
                                      /\ file'[u] = file[u]
      BY <2>15, <1>0 DEF Lock, Shape
    <3>2. /\ pc'[t] # "write_root"
          /\ Freezing(t)' => Freezing(t) \/ state.readiness = "frozen"
          /\ state'.readiness = "frozen" => Freezing(t) \/ state.readiness = "frozen"
      BY <2>15, <1>0 DEF Lock, Shape, JobState, OkLabels, Freezing
    <3> QED
      BY <3>1, <3>2, <1>0, GatedStable
  <2>16. CASE Seal(t)
    <3>1. /\ UNCHANGED <<root, built>> /\ gated \subseteq gated'
          /\ \A u \in Threads \ {t} : /\ pc'[u] = pc[u] /\ st'[u] = st[u]
                                      /\ cont'[u] = cont[u] /\ mine'[u] = mine[u]
                                      /\ file'[u] = file[u]
      BY <2>16, <1>0 DEF Seal, Shape
    <3>2. /\ pc'[t] # "write_root"
          /\ Freezing(t)' => Freezing(t) \/ state.readiness = "frozen"
          /\ state'.readiness = "frozen" => Freezing(t) \/ state.readiness = "frozen"
      BY <2>16, <1>0 DEF Seal, Shape, JobState, OkLabels, Freezing
    <3> QED
      BY <3>1, <3>2, <1>0, GatedStable
  <2>17. CASE Freeze(t)
    <3>1. /\ UNCHANGED <<root, built>> /\ gated \subseteq gated'
          /\ \A u \in Threads \ {t} : /\ pc'[u] = pc[u] /\ st'[u] = st[u]
                                      /\ cont'[u] = cont[u] /\ mine'[u] = mine[u]
                                      /\ file'[u] = file[u]
      BY <2>17, <1>0 DEF Freeze, Moved, Shape
    <3>2. /\ pc'[t] # "write_root"
          /\ Freezing(t)' => Freezing(t) \/ state.readiness = "frozen"
          /\ state'.readiness = "frozen" => Freezing(t) \/ state.readiness = "frozen"
      BY <2>17, <1>0 DEF Freeze, Moved, Shape, JobState, OkLabels, Freezing
    <3> QED
      BY <3>1, <3>2, <1>0, GatedStable
  <2>18. CASE Upsert(t)
    <3>1. /\ UNCHANGED <<root, built>> /\ gated \subseteq gated'
          /\ \A u \in Threads \ {t} : /\ pc'[u] = pc[u] /\ st'[u] = st[u]
                                      /\ cont'[u] = cont[u] /\ mine'[u] = mine[u]
                                      /\ file'[u] = file[u]
      BY <2>18, <1>0 DEF Upsert, TamperedLabels, Shape
    <3>2. /\ pc'[t] # "write_root"
          /\ Freezing(t)' => Freezing(t) \/ state.readiness = "frozen"
          /\ state'.readiness = "frozen" => Freezing(t) \/ state.readiness = "frozen"
      BY <2>18, <1>0 DEF Upsert, TamperedLabels, Shape, JobState, OkLabels, Freezing
    <3> QED
      BY <3>1, <3>2, <1>0, GatedStable
  <2>19. CASE FreezeFails(t)
    <3>1. /\ UNCHANGED <<root, built>> /\ gated \subseteq gated'
          /\ \A u \in Threads \ {t} : /\ pc'[u] = pc[u] /\ st'[u] = st[u]
                                      /\ cont'[u] = cont[u] /\ mine'[u] = mine[u]
                                      /\ file'[u] = file[u]
      BY <2>19, <1>0 DEF FreezeFails, Moved, Shape
    <3>2. /\ pc'[t] # "write_root"
          /\ Freezing(t)' => Freezing(t) \/ state.readiness = "frozen"
          /\ state'.readiness = "frozen" => Freezing(t) \/ state.readiness = "frozen"
      BY <2>19, <1>0 DEF FreezeFails, Moved, Shape, JobState, OkLabels, Freezing
    <3> QED
      BY <3>1, <3>2, <1>0, GatedStable
  <2>20. CASE Save(t)
    <3>1. /\ UNCHANGED <<root, built>> /\ gated \subseteq gated'
          /\ \A u \in Threads \ {t} : /\ pc'[u] = pc[u] /\ st'[u] = st[u]
                                      /\ cont'[u] = cont[u] /\ mine'[u] = mine[u]
                                      /\ file'[u] = file[u]
      BY <2>20, <1>0 DEF Save, Shape
    <3>2. /\ pc'[t] # "write_root"
          /\ Freezing(t)' => Freezing(t) \/ state.readiness = "frozen"
          /\ state'.readiness = "frozen" => Freezing(t) \/ state.readiness = "frozen"
      BY <2>20, <1>0 DEF Save, Shape, JobState, OkLabels, Freezing
    <3> QED
      BY <3>1, <3>2, <1>0, GatedStable
  <2> QED
    BY <1>4, <2>1, <2>2, <2>3, <2>4, <2>5, <2>6, <2>7, <2>8, <2>9, <2>10,
       <2>11, <2>12, <2>13, <2>14, <2>15, <2>16, <2>17, <2>18, <2>19, <2>20, <2>21,
       <2>22 DEF Round
<1> QED
  BY <1>1, <1>2, <1>3, <1>4 DEF Next

(* Unless two freezes were at work at once, only one of them replaces the      *)
(* builder inputs; what it has written and hashed so far is one gate's drafts, *)
(* and recorded hashes, and those a thread is to write back, are of one freeze.*)
Uniform(f) == \A i, j \in Inputs : f[i] = f[j]

Written(t, n) ==
    /\ pc[t] = "write_root" => \A i \in 1..file[t] : root[i] = n
    /\ pc[t] \in {"hash_root", "lock"} => \A i \in Inputs : root[i] = n
    /\ pc[t] = "hash_root" => \A i \in 1..file[t] : seen[t][i] = n
    /\ pc[t] = "lock" => \A i \in Inputs : seen[t][i] = n

SoleFreeze ==
    /\ \A t, u \in Threads : pc[t] \in Replacing /\ pc[u] \in Replacing => t = u
    /\ \A t \in Threads : Written(t, mine[t])
    /\ Uniform(locked)
    /\ \A t \in Threads : pc[t] = "upsert" => Uniform(seen[t])

BuiltTogether == \A b \in built : \E g \in gated : b.root = FromDrafts(g.draft)

SoleInv == GatedInv /\ (overlap \/ (SoleFreeze /\ BuiltTogether))

(* A step of a thread that is not replacing the builder inputs afterwards      *)
(* leaves the one freeze as it is; it writes back the hashes it has read.      *)
LEMMA SoleStable ==
    ASSUME SoleFreeze, Shape, NEW t \in Threads, UNCHANGED root,
           \/ UNCHANGED locked
           \/ pc[t] \in {"upsert", "lock"} /\ locked' = seen[t],
           \A u \in Threads \ {t} : /\ pc'[u] = pc[u] /\ mine'[u] = mine[u]
                                    /\ file'[u] = file[u] /\ seen'[u] = seen[u],
           pc'[t] \notin Replacing,
           pc'[t] = "upsert" => seen'[t] = locked
    PROVE  SoleFreeze'
<1>1. \A u, v \in Threads : pc'[u] \in Replacing /\ pc'[v] \in Replacing => u = v
  BY DEF SoleFreeze
<1>2. \A u \in Threads : Written(u, mine[u])'
  BY DEF SoleFreeze, Written, Replacing
<1>3. Uniform(locked)'
  BY DEF SoleFreeze, Written, Uniform
<1>4. \A u \in Threads : pc'[u] = "upsert" => Uniform(seen[u])'
  BY DEF SoleFreeze, Uniform
<1> QED
  BY <1>1, <1>2, <1>3, <1>4 DEF SoleFreeze

(* A freeze writes its drafts to the next builder input.                       *)
LEMMA WritesOn ==
    ASSUME FrontDeskAssumption, Shape, NEW t \in Threads, Written(t, mine[t]), WriteRoot(t)
    PROVE  /\ UNCHANGED <<mine, seen, locked>>
           /\ pc[t] = "write_root" /\ pc'[t] \in {"write_root", "hash_root"}
           /\ \A u \in Threads \ {t} : pc'[u] = pc[u]
           /\ Written(t, mine[t])'
<1> DEFINE k == file[t] + 1
<1>1. /\ UNCHANGED <<mine, seen, locked>>
      /\ pc[t] = "write_root"
      /\ root' = [root EXCEPT ![k] = mine[t]]
      /\ NextInput(t, "hash_root")
  BY DEF WriteRoot
<1>2. /\ k \in Inputs /\ file[t] \in Nat
      /\ \/ /\ pc' = pc /\ file' = [file EXCEPT ![t] = k]
         \/ /\ k = InputCount /\ file' = [file EXCEPT ![t] = 0]
            /\ pc' = [pc EXCEPT ![t] = "hash_root"]
  BY <1>1, NextInputFacts DEF Shape
<1>3. pc'[t] \in {"write_root", "hash_root"} /\ \A u \in Threads \ {t} : pc'[u] = pc[u]
  BY <1>1, <1>2 DEF Shape
<1>4. \A i \in 1..k : i \in Inputs /\ root'[i] = mine[t]
  <2>1. \A i \in Inputs : root'[i] = IF i = k THEN mine[t] ELSE root[i]
    BY <1>1 DEF Shape
  <2>2. \A i \in 1..file[t] : root[i] = mine[t]
    BY <1>1 DEF Written
  <2>3. \A i \in 1..k : i \in Inputs /\ (i = k \/ i \in 1..file[t])
    BY <1>2 DEF Inputs, FrontDeskAssumption
  <2> QED BY <2>1, <2>2, <2>3
<1>5. Written(t, mine[t])'
  <2>1. CASE pc' = pc /\ file' = [file EXCEPT ![t] = k]
    BY <2>1, <1>1, <1>4 DEF Written, Shape
  <2>2. CASE /\ k = InputCount /\ file' = [file EXCEPT ![t] = 0]
             /\ pc' = [pc EXCEPT ![t] = "hash_root"]
    <3>1. file'[t] = 0 /\ pc'[t] = "hash_root"
      BY <2>2 DEF Shape
    <3>2. \A i \in Inputs : root'[i] = mine[t]
      BY <2>2, <1>4 DEF Inputs
    <3> QED BY <3>1, <3>2, <1>1 DEF Written
  <2> QED BY <2>1, <2>2, <1>2
<1> QED BY <1>1, <1>3, <1>5

(* It hashes its own drafts.                                                   *)
LEMMA HashesOn ==
    ASSUME FrontDeskAssumption, Shape, NEW t \in Threads, Written(t, mine[t]), HashRoot(t)
    PROVE  /\ UNCHANGED <<mine, root, locked>>
           /\ pc[t] = "hash_root" /\ pc'[t] \in {"hash_root", "lock"}
           /\ \A u \in Threads \ {t} : pc'[u] = pc[u] /\ seen'[u] = seen[u]
           /\ Written(t, mine[t])'
<1> DEFINE k == file[t] + 1
<1>1. /\ UNCHANGED <<mine, root, locked>>
      /\ pc[t] = "hash_root"
      /\ seen' = [seen EXCEPT ![t] = [seen[t] EXCEPT ![k] = root[k]]]
      /\ NextInput(t, "lock")
  BY DEF HashRoot, files
<1>2. /\ k \in Inputs /\ file[t] \in Nat
      /\ \/ /\ pc' = pc /\ file' = [file EXCEPT ![t] = k]
         \/ /\ k = InputCount /\ file' = [file EXCEPT ![t] = 0]
            /\ pc' = [pc EXCEPT ![t] = "lock"]
  BY <1>1, NextInputFacts DEF Shape
<1>3. /\ pc'[t] \in {"hash_root", "lock"}
      /\ \A u \in Threads \ {t} : pc'[u] = pc[u] /\ seen'[u] = seen[u]
  BY <1>1, <1>2 DEF Shape
<1>4. \A i \in 1..k : i \in Inputs /\ seen'[t][i] = mine[t]
  <2>1. \A i \in Inputs : seen'[t][i] = IF i = k THEN root[k] ELSE seen[t][i]
    BY <1>1 DEF Shape
  <2>2. /\ \A i \in 1..file[t] : seen[t][i] = mine[t]
        /\ root[k] = mine[t]
    BY <1>1, <1>2 DEF Written
  <2>3. \A i \in 1..k : i \in Inputs /\ (i = k \/ i \in 1..file[t])
    BY <1>2 DEF Inputs, FrontDeskAssumption
  <2> QED BY <2>1, <2>2, <2>3
<1>5. Written(t, mine[t])'
  <2>0. \A i \in Inputs : root[i] = mine[t]
    BY <1>1 DEF Written
  <2>1. CASE pc' = pc /\ file' = [file EXCEPT ![t] = k]
    BY <2>0, <2>1, <1>1, <1>4 DEF Written, Shape
  <2>2. CASE /\ k = InputCount /\ file' = [file EXCEPT ![t] = 0]
             /\ pc' = [pc EXCEPT ![t] = "lock"]
    <3>1. pc'[t] = "lock"
      BY <2>2 DEF Shape
    <3>2. \A i \in Inputs : seen'[t][i] = mine[t]
      BY <2>2, <1>4 DEF Inputs
    <3> QED BY <2>0, <3>1, <3>2, <1>1 DEF Written
  <2> QED BY <2>1, <2>2, <1>2
<1> QED BY <1>1, <1>3, <1>5

(* The one freeze stays the only one while it writes and hashes.               *)
LEMMA SoleReplaces ==
    ASSUME FrontDeskAssumption, SoleFreeze, Shape, NEW t \in Threads,
           WriteRoot(t) \/ HashRoot(t)
    PROVE  SoleFreeze'
<1>1. /\ pc[t] \in Replacing /\ pc'[t] \in Replacing /\ Written(t, mine[t])'
      /\ UNCHANGED locked
      /\ \A u \in Threads \ {t} : pc'[u] = pc[u] /\ seen'[u] = seen[u]
  BY WritesOn, HashesOn DEF SoleFreeze, Replacing
<1>2. \A u \in Threads \ {t} : pc[u] \notin Replacing
  BY <1>1 DEF SoleFreeze
<1>3. \A u \in Threads : Written(u, mine[u])'
  BY <1>1, <1>2 DEF Written, Replacing
<1> QED
  BY <1>1, <1>2, <1>3 DEF SoleFreeze, Uniform, Replacing

(* A freeze that finds no other at work is the only one.                       *)
LEMMA SoleFreezes ==
    ASSUME SoleFreeze, Shape, NEW t \in Threads, GateFreezes(t), ~overlap'
    PROVE  SoleFreeze'
<1>1. /\ \A u \in Threads \ {t} : pc[u] \notin Replacing
      /\ pc' = [pc EXCEPT ![t] = "write_root"]
      /\ file' = [file EXCEPT ![t] = 0]
      /\ UNCHANGED <<root, locked, seen>>
  BY DEF GateFreezes, Goto, files
<1>2. \A u \in Threads \ {t} : pc'[u] \notin Replacing /\ pc'[u] = pc[u]
  BY <1>1 DEF Shape
<1>3. pc'[t] = "write_root" /\ file'[t] = 0
  BY <1>1 DEF Shape
<1>4. \A u \in Threads : Written(u, mine[u])'
  <2>1. Written(t, mine[t])'
    BY <1>3 DEF Written
  <2> QED BY <2>1, <1>2 DEF Written, Replacing
<1> QED
  BY <1>1, <1>2, <1>3, <1>4 DEF SoleFreeze, Uniform

(* What passes the build gate is what one freeze wrote and hashed.             *)
LEMMA SoleBuilds ==
    ASSUME FrontDeskAssumption, GatedInv, SoleFreeze, BuiltTogether,
           NEW t \in Threads, Build(t)
    PROVE  BuiltTogether'
<1>1. /\ state.readiness = "frozen" /\ root = locked
      /\ built' = built \cup {[plan |-> plan, root |-> root]}
      /\ gated' = gated
  BY DEF Build, BuildGate, LockedInputsMatch
<1>2. 1 \in Inputs
  BY DEF Inputs, FrontDeskAssumption
<1>3. PICK g \in gated : g.draft = root[1]
  BY <1>1, <1>2 DEF GatedInv, FrozenRootGated, HasGatedRoot, PassedGate
<1>4. \A i \in Inputs : root[i] = g.draft
  BY <1>1, <1>2, <1>3 DEF SoleFreeze, Uniform
<1>5. root = [i \in Inputs |-> g.draft]
  BY <1>4 DEF GatedInv, Shape
<1>6. root = FromDrafts(g.draft)
  BY <1>5 DEF FromDrafts
<1>7. \A b \in built' : b \in built \/ b.root = FromDrafts(g.draft)
  BY <1>1, <1>6
<1> QED
  BY <1>1, <1>7 DEF BuiltTogether

LEMMA SoleStep == FrontDeskAssumption /\ SoleInv /\ [Next]_vars => SoleInv'
<1> SUFFICES ASSUME FrontDeskAssumption, SoleInv, [Next]_vars
             PROVE  SoleInv'
  OBVIOUS
<1>0. GatedInv /\ GatedInv' /\ Shape /\ Shape'
  BY GatedStep DEF SoleInv, GatedInv
<1>1. CASE UNCHANGED vars
  BY <1>0, <1>1 DEF vars, SoleInv, SoleFreeze, Written, Uniform, BuiltTogether
<1>2. overlap => overlap'
  <2>1. CASE UNCHANGED vars \/ Restart
    BY <2>1 DEF vars, Restart, history
  <2>2. ASSUME NEW t \in Threads, Handle(t) PROVE overlap' = overlap
    BY <2>2 DEF Handle, Create, Message, ReadState, ReviewPlan, AppendRevision, SaveReview,
       Retry, Build, history
  <2>3. ASSUME NEW t \in Threads, Round(t), ~GateFreezes(t) PROVE overlap' = overlap
    BY <2>3 DEF Round, Begin, ElicitFails, ElicitTimesOut, ElicitAsks, ElicitPlans,
       WritePlan, AwaitReview, PlanFails, AuditFails, AuditPasses, GateBlocks, GateAsks,
       WriteRoot, HashRoot, Lock, Seal, FreezeWriteFails, Freeze, Upsert, FreezeFails,
       Save, history
  <2>4. ASSUME NEW t \in Threads, GateFreezes(t) PROVE overlap => overlap'
    BY <2>4 DEF GateFreezes
  <2> QED BY <2>1, <2>2, <2>3, <2>4 DEF Next
<1> SUFFICES ASSUME ~overlap, ~overlap', Next PROVE SoleFreeze' /\ BuiltTogether'
  BY <1>0, <1>1, <1>2 DEF SoleInv
<1>3. SoleFreeze /\ BuiltTogether
  BY DEF SoleInv
<1>4. ASSUME gated \subseteq gated', built' = built PROVE BuiltTogether'
  BY <1>3, <1>4 DEF BuiltTogether
<1> USE DEF files, history, Goto, Carry, ThenUpsert
<1>5. CASE Restart
  <2>1. UNCHANGED <<gated, built>>
    BY <1>5 DEF Restart
  <2>2. SoleFreeze'
    BY <1>3, <1>5 DEF Restart, SoleFreeze, Written, Uniform, Replacing
  <2> QED BY <1>4, <2>1, <2>2
<1>6. ASSUME NEW t \in Threads, Handle(t) PROVE SoleFreeze' /\ BuiltTogether'
  <2>1. CASE Build(t)
    <3>1. UNCHANGED <<root, locked, pc, mine, file, seen>>
      BY <2>1 DEF Build
    <3>2. SoleFreeze'
      BY <1>3, <3>1 DEF SoleFreeze, Written, Uniform
    <3> QED BY <1>0, <1>3, <2>1, <3>2, SoleBuilds
  <2>2. CASE ~Build(t)
    <3>1. /\ UNCHANGED <<root, locked, gated, built>>
          /\ \A u \in Threads \ {t} : /\ pc'[u] = pc[u] /\ mine'[u] = mine[u]
                                      /\ file'[u] = file[u] /\ seen'[u] = seen[u]
          /\ pc'[t] \in {"upsert", "begin"}
          /\ pc'[t] = "upsert" => seen'[t] = locked
      BY <1>0, <1>6, <2>2 DEF Shape, Handle, Create, Message, ReadState, ReviewPlan,
         AppendRevision, SaveReview, Retry
    <3> QED BY <1>0, <1>3, <1>4, <3>1, SoleStable DEF Replacing
  <2> QED BY <2>1, <2>2
<1>7. ASSUME NEW t \in Threads, Round(t) PROVE SoleFreeze' /\ BuiltTogether'
  <2>1. gated \subseteq gated' /\ built' = built
    BY <1>7 DEF Round, Begin, ElicitFails, ElicitTimesOut, ElicitAsks, ElicitPlans,
       WritePlan, AwaitReview, PlanFails, AuditFails, AuditPasses, GateFreezes, GateBlocks,
       GateAsks, WriteRoot, HashRoot, Lock, Seal, FreezeWriteFails, Freeze, Upsert,
       FreezeFails, Save
  <2>2. CASE GateFreezes(t)
    BY <1>0, <1>3, <1>4, <2>1, <2>2, SoleFreezes
  <2>3. CASE WriteRoot(t) \/ HashRoot(t)
    BY <1>0, <1>3, <1>4, <2>1, <2>3, SoleReplaces
  <2>4. CASE Upsert(t) \/ Lock(t)
    <3>1. /\ UNCHANGED root /\ pc[t] \in {"upsert", "lock"} /\ locked' = seen[t]
          /\ \A u \in Threads \ {t} : /\ pc'[u] = pc[u] /\ mine'[u] = mine[u]
                                      /\ file'[u] = file[u] /\ seen'[u] = seen[u]
          /\ pc'[t] \in OkLabels \cup TamperedLabels \cup {"seal"}
      BY <1>0, <2>4 DEF Shape, Upsert, Lock
    <3> QED
      BY <1>0, <1>3, <1>4, <2>1, <3>1, SoleStable DEF Replacing, OkLabels, TamperedLabels
  <2>5. CASE ~(GateFreezes(t) \/ WriteRoot(t) \/ HashRoot(t) \/ Upsert(t) \/ Lock(t))
    <3>1. /\ UNCHANGED <<root, locked>>
          /\ \A u \in Threads \ {t} : /\ pc'[u] = pc[u] /\ mine'[u] = mine[u]
                                      /\ file'[u] = file[u] /\ seen'[u] = seen[u]
          /\ pc'[t] \notin Replacing
          /\ pc'[t] = "upsert" => seen'[t] = locked
      BY <1>0, <1>7, <2>5 DEF Shape, Replacing, Round, Begin, ElicitFails, ElicitTimesOut,
         ElicitAsks, ElicitPlans, WritePlan, AwaitReview, PlanFails, AuditFails, AuditPasses,
         GateBlocks, GateAsks, Seal, FreezeWriteFails, Freeze, FreezeFails, Save
    <3> QED BY <1>0, <1>3, <1>4, <2>1, <3>1, SoleStable
  <2> QED BY <2>2, <2>3, <2>4, <2>5
<1> QED
  BY <1>5, <1>6, <1>7 DEF Next

(* What passes the build gate passed the freeze gate, although other requests  *)
(* may rewrite drafts, builder inputs, manifest and state.json in between: each *)
(* builder input is of drafts some freeze gate evaluated, and unless two       *)
(* freezes wrote them at once they are of the same drafts                      *)
(* (_write_frozen_inputs_and_manifest, _require_frozen_route_to_build).        *)
THEOREM BuildsAreGated == Spec => []BuiltInputsWereGated
<1>1. Init => SoleInv
  <2> SUFFICES ASSUME Init PROVE SoleInv
    OBVIOUS
  <2>1. Shape
    BY FrontDeskAssumption DEF Init, Shape, JobState, Readiness, Labels, OkLabels,
       TamperedLabels, NewState, Done, FromDrafts, FrontDeskAssumption
  <2>2. WritersGated /\ FrozenRootGated /\ BuiltInputsPassed
    BY DEF Init, NewState, Done, WritersGated, FrozenRootGated, Freezing, BuiltInputsPassed
  <2>3. SoleFreeze /\ BuiltTogether
    BY DEF Init, SoleFreeze, Written, Uniform, Replacing, FromDrafts, BuiltTogether
  <2> QED BY <2>1, <2>2, <2>3 DEF SoleInv, GatedInv
<1>2. SoleInv => BuiltInputsWereGated
  BY DEF SoleInv, GatedInv, BuiltInputsPassed, PassedGate, BuiltTogether, BuiltInputsWereGated
<1>3. SoleInv /\ [Next]_vars => SoleInv'
  BY FrontDeskAssumption, SoleStep
<1> QED
  BY <1>1, <1>2, <1>3, PTL DEF Spec

-----------------------------------------------------------------------------
(* The budgets of a job *)

WithinRevisions(s) == s.revisions > MaxRevisions => s.readiness = "human_review_required"
WithinRounds(s) == s.readiness = "needs_clarification" => s.round < MaxRounds

(* Labels a thread reaches only with revisions to spare, those from which it    *)
(* stores what it carries, and those of a round that is still to be counted.   *)
Spending == {"elicit", "write_plan", "await_review", "fail_plan", "audit", "gate",
             "write_root", "hash_root", "lock", "seal", "freeze", "ask", "fail_freeze"}
Storing == {"save", "save_review", "append_revision"}
Planning == {"elicit", "write_plan", "await_review", "fail_plan"}

(* What a thread that goes to a label carries.                                 *)
Fits(label, s) ==
    /\ label \in Planning => s.round < MaxRounds
    /\ label \in Spending => s.revisions <= MaxRevisions
    /\ label \in Storing \cup {"begin"} => WithinRevisions(s)
    /\ label \in Storing => WithinRounds(s)

ThreadFits(t) ==
    /\ Fits(pc[t], st[t])
    /\ pc[t] = "upsert" => Fits(cont[t].ok, st[t]) /\ Fits(cont[t].tampered, st[t])

BudgetInv == /\ Shape
             /\ WithinRevisions(state) /\ WithinRounds(state)
             /\ \A t \in Threads : ThreadFits(t)

(* A step of one thread preserves BudgetInv when what the thread carries then  *)
(* fits where it goes, and what it stores is within the budgets.               *)
LEMMA BudgetThread ==
    ASSUME BudgetInv, Shape', NEW t \in Threads,
           state' = state \/ (WithinRevisions(state') /\ WithinRounds(state')),
           \A u \in Threads \ {t} : /\ pc'[u] = pc[u] /\ st'[u] = st[u]
                                    /\ cont'[u] = cont[u],
           Fits(pc'[t], st'[t]),
           pc'[t] = "upsert" => Fits(cont'[t].ok, st'[t]) /\ Fits(cont'[t].tampered, st'[t])
    PROVE  BudgetInv'
<1>1. ASSUME NEW u \in Threads PROVE ThreadFits(u)'
  <2>1. CASE u = t
    BY <2>1 DEF ThreadFits, Fits, WithinRevisions, WithinRounds
  <2>2. CASE u # t
    BY <2>2 DEF BudgetInv, ThreadFits, Fits, WithinRevisions, WithinRounds
  <2> QED BY <2>1, <2>2
<1>2. WithinRevisions(state)' /\ WithinRounds(state)'
  BY DEF BudgetInv, WithinRevisions, WithinRounds
<1> QED BY <1>1, <1>2 DEF BudgetInv

LEMMA BudgetStep == FrontDeskAssumption /\ BudgetInv /\ [Next]_vars => BudgetInv'
<1> SUFFICES ASSUME FrontDeskAssumption, BudgetInv, [Next]_vars PROVE BudgetInv'
  OBVIOUS
<1>0. Shape /\ Shape'
  BY ShapeStep DEF BudgetInv
<1> USE DEF Fits, WithinRevisions, WithinRounds, Spending, Storing, Planning, files, history,
            bounds, Carry, Goto, ThenUpsert, Moved, Reviewed, Done
<1>1. CASE UNCHANGED vars
  BY <1>0, <1>1 DEF vars, BudgetInv, ThreadFits
<1>2. CASE Restart
  BY <1>0, <1>2 DEF Restart, BudgetInv, ThreadFits
<1>3. ASSUME NEW t \in Threads, Handle(t) \/ Round(t) PROVE BudgetInv'
  <2>0. /\ WithinRevisions(state) /\ WithinRounds(state) /\ ThreadFits(t)
        /\ pc \in [Threads -> Labels] /\ st \in [Threads -> JobState]
        /\ cont \in [Threads -> [ok : OkLabels, tampered : TamperedLabels]]
        /\ state \in JobState
        /\ MaxRounds \in Nat /\ MaxRevisions \in Nat /\ MaxCoreNeedRounds \in Nat
    BY <1>0 DEF BudgetInv, Shape, FrontDeskAssumption
  <2>1. CASE Create(t)
    BY <1>0, <2>0, <2>1, BudgetThread DEF Create, Request, NewState
  <2>2. CASE Message(t)
    BY <1>0, <2>0, <2>2, BudgetThread DEF Message, Request
  <2>3. CASE ReadState(t)
    BY <1>0, <2>0, <2>3, BudgetThread DEF ReadState
  <2>4. ASSUME NEW decision \in Decisions, ReviewPlan(t, decision) PROVE BudgetInv'
    <3> DEFINE count == state.revisions + 1
    <3>1. state' = state /\ st[t]' = st'[t]
      BY <2>4 DEF ReviewPlan
    <3>2. \A u \in Threads \ {t} : pc'[u] = pc[u] /\ st'[u] = st[u] /\ cont'[u] = cont[u]
      BY <2>0, <2>4 DEF ReviewPlan
    <3>3. pc'[t] = "upsert" /\ Fits(cont'[t].tampered, st'[t])
      BY <2>0, <2>4 DEF ReviewPlan
    <3>4. Fits(cont'[t].ok, st'[t])
      <4>0. /\ state.revisions \in Nat /\ state.round \in Nat
            /\ state.readiness \in {"awaiting_plan_review", "plan_revision_requested"}
            /\ state.revisions <= MaxRevisions
        BY <2>0, <2>4 DEF ReviewPlan, JobState
      <4>1. CASE decision = "approve"
        BY <2>0, <2>4, <4>0, <4>1 DEF ReviewPlan
      <4>2. CASE decision \in {"reject", "human_review"}
        BY <2>0, <2>4, <4>0, <4>2 DEF ReviewPlan
      <4>3. CASE decision = "request_revision" /\ count > MaxRevisions
        BY <2>0, <2>4, <4>0, <4>3 DEF ReviewPlan
      <4>4. CASE decision = "request_revision" /\ ~(count > MaxRevisions)
        BY <2>0, <2>4, <4>0, <4>4 DEF ReviewPlan
      <4> QED BY <2>4, <4>1, <4>2, <4>3, <4>4 DEF ReviewPlan
    <3> QED BY <1>0, <3>1, <3>2, <3>3, <3>4, BudgetThread
  <2>5. CASE AppendRevision(t)
    BY <1>0, <2>0, <2>5, BudgetThread DEF AppendRevision, ThreadFits
  <2>6. CASE SaveReview(t)
    BY <1>0, <2>0, <2>6, BudgetThread DEF SaveReview, ThreadFits
  <2>7. CASE Retry(t)
    BY <1>0, <2>0, <2>7, BudgetThread DEF Retry, Request, JobState
  <2>8. CASE Build(t)
    BY <1>0, <2>0, <2>8, BudgetThread, SMTT(30) DEF Build, Request, ThreadFits
  <2>9. CASE Begin(t)
    BY <1>0, <2>0, <2>9, BudgetThread DEF Begin, ThreadFits, TerminalReadiness, JobState
  <2>10. CASE ElicitFails(t) \/ ElicitTimesOut(t)
    BY <1>0, <2>0, <2>10, BudgetThread DEF ElicitFails, ElicitTimesOut, ThreadFits, JobState
  <2>11. CASE ElicitAsks(t)
    BY <1>0, <2>0, <2>11, BudgetThread DEF ElicitAsks, ClarifyOrEscalate, AtMost, ThreadFits, JobState
  <2>12. CASE ElicitPlans(t) \/ WritePlan(t)
    BY <1>0, <2>0, <2>12, BudgetThread DEF ElicitPlans, WritePlan, ThreadFits
  <2>13. CASE AwaitReview(t) \/ PlanFails(t)
    BY <1>0, <2>0, <2>13, BudgetThread DEF AwaitReview, PlanFails, ThreadFits, JobState
  <2>14. CASE AuditFails(t) \/ AuditPasses(t)
    BY <1>0, <2>0, <2>14, BudgetThread DEF AuditFails, AuditPasses, ThreadFits, JobState
  <2>15. CASE GateFreezes(t)
    BY <1>0, <2>0, <2>15, BudgetThread DEF GateFreezes, ThreadFits
  <2>16. ASSUME NEW readiness \in {"human_review_required", "rejected"},
                GateBlocks(t, readiness)
         PROVE  BudgetInv'
    BY <1>0, <2>0, <2>16, BudgetThread DEF GateBlocks, ThreadFits, JobState
  <2>17. CASE GateAsks(t)
    BY <1>0, <2>0, <2>17, BudgetThread DEF GateAsks, ClarifyOrEscalate, ReportRound, AtLeast,
       ThreadFits, JobState
  <2>18. CASE WriteRoot(t) \/ HashRoot(t) \/ Lock(t) \/ Seal(t) \/ FreezeWriteFails(t)
    <3>1. CASE WriteRoot(t) \/ HashRoot(t)
      BY <1>0, <2>0, <3>1, BudgetThread DEF WriteRoot, HashRoot, NextInput, ThreadFits
    <3>2. CASE Lock(t) \/ Seal(t)
      BY <1>0, <2>0, <3>2, BudgetThread DEF Lock, Seal, ThreadFits
    <3>3. CASE FreezeWriteFails(t)
      BY <1>0, <2>0, <3>3, BudgetThread DEF FreezeWriteFails, Replacing, ThreadFits
    <3> QED BY <2>18, <3>1, <3>2, <3>3
  <2>19. CASE Freeze(t) \/ FreezeFails(t)
    BY <1>0, <2>0, <2>19, BudgetThread DEF Freeze, FreezeFails, ThreadFits, JobState
  <2>20. CASE Upsert(t)
    BY <1>0, <2>0, <2>20, BudgetThread DEF Upsert, ThreadFits, OkLabels, TamperedLabels
  <2>21. CASE Save(t)
    BY <1>0, <2>0, <2>21, BudgetThread DEF Save, ThreadFits
  <2> QED
    BY <1>3, <2>1, <2>2, <2>3, <2>4, <2>5, <2>6, <2>7, <2>8, <2>9, <2>10, <2>11, <2>12,
       <2>13, <2>14, <2>15, <2>16, <2>17, <2>18, <2>19, <2>20, <2>21 DEF Handle, Round
<1> QED
  BY <1>1, <1>2, <1>3 DEF Next

(* Whatever requests interleave and whenever the server dies, the state on     *)
(* file never shows a job that used up its rounds or revisions as still asking *)
(* the user (run_round, _state_from_freeze_result and review_frontdesk_plan    *)
(* count for themselves).                                                      *)
THEOREM BudgetsEscalate == Spec => []EscalatesOnBudget
<1>1. Init => BudgetInv
  BY FrontDeskAssumption DEF Init, BudgetInv, Shape, JobState, Labels, OkLabels, TamperedLabels,
     Readiness, Done, NewState, FromDrafts, FrontDeskAssumption, ThreadFits, Fits, WithinRevisions,
     WithinRounds, Spending, Storing, Planning
<1>2. BudgetInv => EscalatesOnBudget
  BY DEF BudgetInv, EscalatesOnBudget, WithinRevisions, WithinRounds
<1> QED
  BY <1>1, <1>2, BudgetStep, FrontDeskAssumption, PTL DEF Spec
-----------------------------------------------------------------------------
(* The types, and the requests that still owe a planning round or a turn *)

(* Where a thread is, seen past a manifest upsert that finds the locked inputs *)
(* intact.                                                                     *)
At(t) == IF pc[t] = "upsert" THEN cont[t].ok ELSE pc[t]

(* A request writes drafts at most once, and only from these labels; a plan    *)
(* review that asks for a revision still has a turn to append.                 *)
BeforeDrafts == {"read_state", "append_revision", "save_review", "begin", "elicit"}
MayDraft == {t \in Threads : At(t) \in BeforeDrafts}
MayTurn == {t \in Threads : At(t) = "append_revision"}

(* Every request pays for the drafts and the turn it may still write.          *)
Counted ==
    /\ IsFiniteSet(MayDraft) /\ made + Cardinality(MayDraft) <= calls
    /\ IsFiniteSet(MayTurn) /\ turns + Cardinality(MayTurn) <= calls

TypeInv == TypeOK /\ BudgetInv /\ Counted

Owes(condition) == IF condition THEN 1 ELSE 0

(* The size of a set after one thread changed its membership.                  *)
LEMMA OneMember ==
    ASSUME NEW S, NEW T, NEW t, IsFiniteSet(S), S \ {t} = T \ {t}
    PROVE  /\ IsFiniteSet(T)
           /\ Cardinality(S) \in Nat /\ Cardinality(T) \in Nat
           /\ Cardinality(T) + Owes(t \in S) = Cardinality(S) + Owes(t \in T)
<1> DEFINE R == S \ {t}
<1>1. /\ IsFiniteSet(R) /\ Cardinality(S) \in Nat
      /\ Cardinality(R) = IF t \in S THEN Cardinality(S) - 1 ELSE Cardinality(S)
  BY FS_RemoveElement, FS_CardinalityType
<1>2. CASE t \in T
  <2>1. T = R \cup {t} /\ t \notin R
    BY <1>2
  <2>2. IsFiniteSet(T) /\ Cardinality(T) = Cardinality(R) + 1
    BY <1>1, <2>1, FS_AddElement
  <2> QED BY <1>1, <1>2, <2>2, FS_CardinalityType DEF Owes
<1>3. CASE t \notin T
  <2>1. T = R
    BY <1>3
  <2> QED BY <1>1, <1>3, <2>1, FS_CardinalityType DEF Owes
<1> QED BY <1>2, <1>3

(* A step of one thread keeps the count when it adds no more to drafts and     *)
(* turns than it settles, and a new request may open one of each.              *)
LEMMA CountedThread ==
    ASSUME TypeInv, NEW t \in Threads, pc' \in [Threads -> Labels],
           \A u \in Threads \ {t} : pc'[u] = pc[u] /\ cont'[u] = cont[u],
           made' \in Nat, turns' \in Nat, calls' \in Nat,
           made' + calls + Owes(At(t) \in BeforeDrafts)'
             <= made + calls' + Owes(At(t) \in BeforeDrafts),
           turns' + calls + Owes(At(t) = "append_revision")'
             <= turns + calls' + Owes(At(t) = "append_revision")
    PROVE  Counted'
<1>0. made \in Nat /\ turns \in Nat /\ calls \in Nat
  BY FrontDeskAssumption DEF TypeInv, TypeOK, FrontDeskAssumption
<1>1. \A u \in Threads \ {t} : At(u)' = At(u)
  BY DEF At
<1>2. MayDraft \ {t} = MayDraft' \ {t} /\ MayTurn \ {t} = MayTurn' \ {t}
  BY <1>1 DEF MayDraft, MayTurn
<1>3. /\ Owes(t \in MayDraft) = Owes(At(t) \in BeforeDrafts)
      /\ Owes(t \in MayDraft') = Owes(At(t) \in BeforeDrafts)'
      /\ Owes(t \in MayTurn) = Owes(At(t) = "append_revision")
      /\ Owes(t \in MayTurn') = Owes(At(t) = "append_revision")'
      /\ Owes(t \in MayDraft) \in Nat /\ Owes(t \in MayDraft') \in Nat
      /\ Owes(t \in MayTurn) \in Nat /\ Owes(t \in MayTurn') \in Nat
  BY DEF MayDraft, MayTurn, Owes
<1>4. /\ IsFiniteSet(MayDraft')
      /\ Cardinality(MayDraft) \in Nat /\ Cardinality(MayDraft') \in Nat
      /\ Cardinality(MayDraft') + Owes(t \in MayDraft)
           = Cardinality(MayDraft) + Owes(t \in MayDraft')
  BY <1>2, OneMember DEF TypeInv, Counted
<1>5. /\ IsFiniteSet(MayTurn')
      /\ Cardinality(MayTurn) \in Nat /\ Cardinality(MayTurn') \in Nat
      /\ Cardinality(MayTurn') + Owes(t \in MayTurn)
           = Cardinality(MayTurn) + Owes(t \in MayTurn')
  BY <1>2, OneMember DEF TypeInv, Counted
<1>6. made' + Cardinality(MayDraft') <= calls'
  BY <1>0, <1>3, <1>4 DEF TypeInv, Counted
<1>7. turns' + Cardinality(MayTurn') <= calls'
  BY <1>0, <1>3, <1>5 DEF TypeInv, Counted
<1> QED BY <1>4, <1>5, <1>6, <1>7 DEF Counted

(* A thread that has yet to plan leaves room for one more planning round, and  *)
(* one that appends a turn for one more turn.                                  *)
LEMMA RoomLeft ==
    ASSUME TypeInv, NEW t \in Threads
    PROVE  /\ made \in Nat /\ turns \in Nat /\ calls \in Nat /\ MaxCalls \in Nat
           /\ made <= calls /\ turns <= calls /\ calls <= MaxCalls
           /\ At(t) \in BeforeDrafts => made < calls
           /\ At(t) = "append_revision" => turns < calls
<1>1. /\ made \in Nat /\ turns \in Nat /\ calls \in Nat /\ MaxCalls \in Nat
      /\ calls <= MaxCalls
  BY FrontDeskAssumption DEF TypeInv, TypeOK, FrontDeskAssumption
<1>2. /\ Cardinality(MayDraft) \in Nat /\ Cardinality(MayTurn) \in Nat
      /\ At(t) \in BeforeDrafts => Cardinality(MayDraft) # 0
      /\ At(t) = "append_revision" => Cardinality(MayTurn) # 0
  BY FS_CardinalityType, FS_EmptySet DEF TypeInv, Counted, MayDraft, MayTurn
<1> QED BY <1>1, <1>2 DEF TypeInv, Counted

(* What a round or a review moves the job to stays within its limits.          *)
LEMMA MovedType ==
    ASSUME NEW s \in State, NEW readiness \in Readiness, NEW round \in Rounds,
           NEW report \in Rounds
    PROVE  Moved(s, readiness, round, report) \in State
BY DEF State, Moved

LEMMA ReviewedType ==
    ASSUME NEW s \in State, NEW readiness \in Readiness,
           NEW revisions \in 0..(MaxRevisions + 1), NEW review \in Rounds
    PROVE  Reviewed(s, readiness, revisions, review) \in State
BY DEF State, Reviewed

LEMMA ReportRoundType ==
    ASSUME FrontDeskAssumption, NEW s \in State
    PROVE  ReportRound(s) \in Rounds
BY DEF FrontDeskAssumption, State, Rounds, ReportRound, AtLeast

LEMMA ClarifyType ==
    ASSUME NEW s \in State, NEW round \in Rounds, NEW limit
    PROVE  ClarifyOrEscalate(s, round, limit) \in State
BY MovedType DEF ClarifyOrEscalate, Readiness

(* The next round of a thread that may still plan is one of the job's rounds.  *)
LEMMA NextRoundType ==
    ASSUME FrontDeskAssumption, TypeOK, NEW t \in Threads, st[t].round < MaxRounds
    PROVE  st[t].round + 1 \in Rounds
BY DEF FrontDeskAssumption, TypeOK, State, Rounds

(* Requests and reviews keep the types.                                        *)
LEMMA HandleTypes ==
    ASSUME FrontDeskAssumption, TypeInv, Shape', NEW t \in Threads, Handle(t)
    PROVE  TypeOK'
<1>0. /\ TypeOK /\ MaxCalls \in Nat /\ calls \in Nat /\ turns \in Nat
      /\ made <= calls /\ turns <= calls /\ calls <= MaxCalls
      /\ At(t) = "append_revision" => turns < calls
      /\ pc' \in [Threads -> Labels]
      /\ cont' \in [Threads -> [ok : Labels, tampered : Labels]]
  BY RoomLeft DEF TypeInv, Shape, OkLabels, TamperedLabels, Labels
<1> USE DEF Carry, Goto, ThenUpsert, Request, files, history, bounds, Contents
<1>1. CASE Create(t)
  <2>1. NewState \in State
    BY DEF TypeInv, FrontDeskAssumption, NewState, State, Readiness, Rounds
  <2> QED BY <1>0, <1>1, <2>1 DEF Create, TypeOK
<1>2. CASE Message(t)
  BY <1>0, <1>2 DEF Message, TypeOK
<1>3. CASE ReadState(t)
  BY <1>0, <1>3 DEF ReadState, TypeOK
<1>4. ASSUME NEW decision \in Decisions, ReviewPlan(t, decision) PROVE TypeOK'
  <2> DEFINE round == ReportRound(state)
             count == state.revisions + 1
             record == [round |-> round, decision |-> decision, plan |-> plan]
  <2>1. round \in Rounds /\ record \in Review
    BY <1>0, ReportRoundType DEF TypeOK, Review
  <2>2. state.revisions \in 0..(MaxRevisions + 1) /\ count \in 0..(MaxRevisions + 1)
    <3>1. state.readiness # "human_review_required"
      BY <1>4 DEF ReviewPlan
    <3>2. state.revisions <= MaxRevisions /\ state.revisions \in Nat /\ MaxRevisions \in Nat
      BY <3>1, <1>0 DEF TypeInv, BudgetInv, WithinRevisions, TypeOK, State, FrontDeskAssumption
    <3> QED BY <3>2
  <2>3. st' \in [Threads -> State]
    <3>1. \E readiness \in Readiness, n \in 0..(MaxRevisions + 1) :
             st' = [st EXCEPT ![t] = Reviewed(state, readiness, n, round)]
      BY <1>4, <2>2 DEF ReviewPlan, Readiness
    <3>2. PICK readiness \in Readiness, n \in 0..(MaxRevisions + 1) :
             st' = [st EXCEPT ![t] = Reviewed(state, readiness, n, round)]
      BY <3>1
    <3>3. Reviewed(state, readiness, n, round) \in State
      BY <1>0, <2>1, ReviewedType DEF TypeOK
    <3> QED BY <1>0, <3>2, <3>3 DEF TypeOK
  <2>4. /\ reviews' = (reviews \ ReviewsOf(round)) \cup {record}
        /\ approved' \in {approved, approved \cup {plan}}
        /\ calls' = calls + 1 /\ calls < MaxCalls
        /\ seen' = [seen EXCEPT ![t] = locked]
        /\ UNCHANGED <<state, turns, draft, plan, root, locked, manifest, made, mine,
                       file, gated, built, overlap, cut, restarts>>
    BY <1>4 DEF ReviewPlan
  <2> HIDE DEF round, record
  <2>5. reviews' \subseteq Review /\ approved' \subseteq Contents
    BY <1>0, <2>1, <2>4 DEF TypeOK
  <2> QED BY <1>0, <2>3, <2>4, <2>5 DEF TypeOK
<1>5. CASE AppendRevision(t)
  <2>1. At(t) = "append_revision"
    BY <1>5 DEF AppendRevision, At
  <2> QED BY <1>0, <1>5, <2>1 DEF AppendRevision, TypeOK
<1>6. CASE SaveReview(t)
  BY <1>0, <1>6 DEF SaveReview, TypeOK
<1>7. CASE Retry(t)
  <2>1. "needs_clarification" \in Readiness /\ state.report \in Rounds
    BY <1>0 DEF TypeOK, State, Readiness
  <2>2. Moved(state, "needs_clarification", state.report, state.report) \in State
    BY <1>0, <2>1, MovedType DEF TypeOK
  <2> QED BY <1>0, <1>7, <2>2 DEF Retry, TypeOK
<1>8. CASE Build(t)
  BY <1>0, <1>8 DEF Build, TypeOK
<1> QED
  BY <1>1, <1>2, <1>3, <1>4, <1>5, <1>6, <1>7, <1>8 DEF Handle

(* A step of a round that carries a job within its limits and writes none of   *)
(* the files keeps the types.                                                  *)
LEMMA CarryTypes ==
    ASSUME TypeOK, Shape', NEW t \in Threads, NEW s \in State,
           st' = st \/ st' = [st EXCEPT ![t] = s],
           seen' = seen \/ seen' = [seen EXCEPT ![t] = locked],
           UNCHANGED <<state, files, mine, file, history, bounds>>
    PROVE  TypeOK'
<1>1. st' \in [Threads -> State] /\ seen' \in [Threads -> BuilderInputs]
  BY DEF TypeOK
<1>2. /\ pc' \in [Threads -> Labels]
      /\ cont' \in [Threads -> [ok : Labels, tampered : Labels]]
  BY DEF Shape, OkLabels, TamperedLabels, Labels
<1> QED BY <1>1, <1>2 DEF TypeOK, files, history, bounds

(* The steps of a round keep the types.                                        *)
LEMMA RoundTypes ==
    ASSUME FrontDeskAssumption, TypeInv, Shape', NEW t \in Threads, Round(t)
    PROVE  TypeOK'
<1> DEFINE s == st[t]
           round == ReportRound(s)
<1>0. /\ TypeOK /\ MaxCalls \in Nat /\ calls \in Nat /\ made \in Nat
      /\ made <= calls /\ calls <= MaxCalls
      /\ pc[t] = "elicit" => made < calls
      /\ s \in State /\ s.round \in Rounds /\ s.report \in Rounds
      /\ round \in Rounds
      /\ pc' \in [Threads -> Labels]
      /\ cont' \in [Threads -> [ok : Labels, tampered : Labels]]
  <2>1. TypeOK /\ s \in State
    BY DEF TypeInv, TypeOK
  <2>2. pc[t] = "elicit" => At(t) \in BeforeDrafts
    BY DEF At, BeforeDrafts
  <2> QED BY <2>1, <2>2, RoomLeft, ReportRoundType DEF TypeInv, Shape, OkLabels, TamperedLabels, Labels, State

<1>00. s.round < MaxRounds => s.round + 1 \in Rounds
  BY <1>0, NextRoundType
<1> USE DEF Carry, Goto, ThenUpsert
<1>1. CASE Begin(t)
  <2>1. Moved(s, "human_review_required", s.round, s.report) \in State
    BY <1>0, MovedType DEF Readiness
  <2>2. /\ \/ UNCHANGED st
           \/ st' = [st EXCEPT ![t] = Moved(s, "human_review_required", s.round, s.report)]
        /\ UNCHANGED seen
    BY <1>1 DEF Begin
  <2> QED BY <1>0, <1>1, <2>1, <2>2, CarryTypes DEF Begin
<1>2. CASE ElicitFails(t)
  <2>1. s.round < MaxRounds
    BY <1>2 DEF ElicitFails, TypeInv, BudgetInv, ThreadFits, Fits, Planning
  <2>2. Moved(s, "failed", s.round + 1, s.report) \in State
    BY <1>0, <1>00, <2>1, MovedType DEF Readiness
  <2> QED BY <1>0, <1>2, <2>2, CarryTypes DEF ElicitFails
<1>3. CASE ElicitTimesOut(t)
  <2>1. Moved(s, "needs_clarification", s.round, s.report) \in State
    BY <1>0, MovedType DEF Readiness
  <2> QED BY <1>0, <1>3, <2>1, CarryTypes DEF ElicitTimesOut
<1>4. CASE ElicitAsks(t)
  <2> DEFINE limit == AtMost(MaxRounds, MaxCoreNeedRounds)
  <2>1. s.round < MaxRounds
    BY <1>4 DEF ElicitAsks, TypeInv, BudgetInv, ThreadFits, Fits, Planning
  <2>2. ClarifyOrEscalate(s, s.round + 1, limit) \in State
    BY <1>0, <1>00, <2>1, ClarifyType
  <2>3. /\ st' = [st EXCEPT ![t] = ClarifyOrEscalate(s, s.round + 1, limit)]
        /\ seen' = [seen EXCEPT ![t] = locked]
        /\ made' \in {made, made + 1} /\ draft' \in {draft, made + 1}
        /\ pc[t] = "elicit"
        /\ UNCHANGED <<state, turns, plan, reviews, root, locked, manifest, mine,
                       file, history, bounds>>
    BY <1>4 DEF ElicitAsks, WriteDrafts
  <2>4. st' \in [Threads -> State]
    BY <1>0, <2>2, <2>3 DEF TypeOK
  <2> QED BY <1>0, <2>3, <2>4 DEF TypeOK, Contents, history, bounds
<1>5. CASE ElicitPlans(t)
  BY <1>0, <1>5 DEF ElicitPlans, WriteDrafts, TypeOK, Contents, history, bounds
<1>6. CASE WritePlan(t)
  BY <1>0, <1>6 DEF WritePlan, TypeOK, history, bounds
<1>7. CASE AwaitReview(t)
  <2>1. s.round < MaxRounds
    BY <1>7 DEF AwaitReview, TypeInv, BudgetInv, ThreadFits, Fits, Planning
  <2>2. Moved(s, "awaiting_plan_review", s.round + 1, s.round + 1) \in State
    BY <1>0, <1>00, <2>1, MovedType DEF Readiness
  <2> QED BY <1>0, <1>7, <2>2, CarryTypes DEF AwaitReview
<1>8. CASE PlanFails(t)
  <2>1. s.round < MaxRounds
    BY <1>8 DEF PlanFails, TypeInv, BudgetInv, ThreadFits, Fits, Planning
  <2>2. Moved(s, "failed", s.round + 1, FailedReport(s, s.round + 1)) \in State
    BY <1>0, <1>00, <2>1, MovedType DEF Readiness, FailedReport
  <2> QED BY <1>0, <1>8, <2>2, CarryTypes DEF PlanFails
<1>9. CASE AuditFails(t)
  <2>1. Moved(s, "failed", round, s.report) \in State
    BY <1>0, MovedType DEF Readiness
  <2> QED BY <1>0, <1>9, <2>1, CarryTypes DEF AuditFails
<1>10. CASE AuditPasses(t)
  BY <1>0, <1>10, CarryTypes DEF AuditPasses
<1>11. CASE GateFreezes(t)
  BY <1>0, <1>11 DEF GateFreezes, TypeOK, files, bounds, FrontDeskAssumption
<1>12. ASSUME NEW readiness \in {"human_review_required", "rejected"},
              GateBlocks(t, readiness)
       PROVE  TypeOK'
  <2>1. Moved(s, readiness, round, round) \in State
    BY <1>0, MovedType DEF Readiness
  <2> QED BY <1>0, <1>12, <2>1, CarryTypes DEF GateBlocks
<1>13. CASE GateAsks(t)
  <2>1. ClarifyOrEscalate(s, round, MaxRounds) \in State
    BY <1>0, ClarifyType
  <2> QED BY <1>0, <1>13, <2>1, CarryTypes DEF GateAsks
<1>14. CASE WriteRoot(t) \/ HashRoot(t)
  <2>1. file[t] + 1 \in Inputs /\ file' \in [Threads -> 0..InputCount]
    BY <1>0, <1>14, NextInputFacts DEF WriteRoot, HashRoot, TypeOK, Shape
  <2>2. root' \in BuilderInputs
    BY <1>0, <1>14 DEF WriteRoot, HashRoot, files, TypeOK, BuilderInputs
  <2>3. seen' \in [Threads -> BuilderInputs]
    <3>1. root[file[t] + 1] \in Contents /\ seen[t] \in BuilderInputs
      BY <1>0, <2>1 DEF TypeOK, BuilderInputs
    <3>2. [seen[t] EXCEPT ![file[t] + 1] = root[file[t] + 1]] \in BuilderInputs
      BY <3>1 DEF BuilderInputs
    <3> QED BY <1>0, <1>14, <3>2 DEF WriteRoot, HashRoot, TypeOK
  <2>4. UNCHANGED <<state, turns, draft, plan, reviews, locked, manifest, made, st, mine,
                    cont, history, bounds>>
    BY <1>14 DEF WriteRoot, HashRoot, files
  <2> QED BY <1>0, <2>1, <2>2, <2>3, <2>4 DEF TypeOK, history, bounds
<1>15. CASE Lock(t)
  BY <1>0, <1>15 DEF Lock, TypeOK, history, bounds
<1>16. CASE Seal(t)
  <2>1. HashesNow(round) \in Manifest
    BY <1>0 DEF HashesNow, Manifest, TypeOK, ReviewsOf
  <2>2. manifest' \in {manifest, HashesNow(round)} /\ seen' \in {seen, [seen EXCEPT ![t] = locked]}
    BY <1>16 DEF Seal
  <2>3. manifest' \in Manifest /\ seen' \in [Threads -> BuilderInputs]
    BY <1>0, <2>1, <2>2 DEF TypeOK
  <2>4. UNCHANGED <<state, turns, draft, plan, reviews, root, locked, made, st, mine,
                    file, history, bounds>>
    BY <1>16 DEF Seal
  <2> QED BY <1>0, <2>3, <2>4 DEF TypeOK, history, bounds
<1>21. CASE FreezeWriteFails(t)
  <2>1. HashesNow(round) \in Manifest
    BY <1>0 DEF HashesNow, Manifest, TypeOK, ReviewsOf
  <2>2. manifest' \in Manifest /\ cut' \in BOOLEAN
    BY <1>0, <1>21, <2>1 DEF FreezeWriteFails, TypeOK
  <2>3. UNCHANGED <<state, turns, draft, plan, reviews, root, locked, made, st, mine,
                    file, seen, approved, gated, built, overlap, bounds>>
    BY <1>21 DEF FreezeWriteFails
  <2> QED BY <1>0, <2>2, <2>3 DEF TypeOK, bounds
<1>17. CASE Freeze(t)
  <2>1. Moved(s, "frozen", round, round) \in State
    BY <1>0, MovedType DEF Readiness
  <2> QED BY <1>0, <1>17, <2>1, CarryTypes DEF Freeze
<1>18. CASE Upsert(t)
  BY <1>0, <1>18 DEF Upsert, TypeOK, history, bounds
<1>19. CASE FreezeFails(t)
  <2>1. Moved(s, "failed", s.round, s.report) \in State
    BY <1>0, MovedType DEF Readiness
  <2> QED BY <1>0, <1>19, <2>1, CarryTypes DEF FreezeFails
<1>20. CASE Save(t)
  BY <1>0, <1>20 DEF Save, TypeOK, files, history, bounds
<1> QED
  BY <1>1, <1>2, <1>3, <1>4, <1>5, <1>6, <1>7, <1>8, <1>9, <1>10, <1>11, <1>12, <1>13,
     <1>14, <1>15, <1>16, <1>17, <1>18, <1>19, <1>20, <1>21 DEF Round

(* A step that counts nothing and opens nothing keeps the count.               *)
LEMMA CountedStays ==
    ASSUME TypeInv, NEW t \in Threads, pc' \in [Threads -> Labels],
           \A u \in Threads \ {t} : pc'[u] = pc[u] /\ cont'[u] = cont[u],
           UNCHANGED <<made, turns, calls>>,
           At(t)' \notin BeforeDrafts
    PROVE  Counted'
<1>1. made \in Nat /\ turns \in Nat /\ calls \in Nat
  BY RoomLeft
<1>2. At(t)' # "append_revision"
  BY DEF BeforeDrafts
<1>3. /\ Owes(At(t) \in BeforeDrafts)' = 0 /\ Owes(At(t) \in BeforeDrafts) \in Nat
      /\ Owes(At(t) = "append_revision")' = 0 /\ Owes(At(t) = "append_revision") \in Nat
  BY <1>2 DEF Owes
<1> QED BY <1>1, <1>3, CountedThread

LEMMA CountedStep ==
    ASSUME FrontDeskAssumption, TypeInv, TypeOK', Shape', [Next]_vars
    PROVE  Counted'
<1> USE DEF Goto, ThenUpsert, Request, files, history, bounds
<1>0. /\ made \in Nat /\ turns \in Nat /\ calls \in Nat
      /\ made' \in Nat /\ turns' \in Nat /\ calls' \in Nat
      /\ pc \in [Threads -> Labels] /\ pc' \in [Threads -> Labels]
      /\ cont \in [Threads -> [ok : Labels, tampered : Labels]]
      /\ cont \in [Threads -> [ok : OkLabels, tampered : TamperedLabels]]
  BY DEF TypeInv, TypeOK, FrontDeskAssumption, BudgetInv, Shape
<1>1. CASE UNCHANGED vars
  BY <1>1 DEF vars, TypeInv, Counted, MayDraft, MayTurn, At
<1>2. CASE Restart
  <2>1. MayDraft' = {} /\ MayTurn' = {}
    BY <1>2 DEF Restart, MayDraft, MayTurn, At, BeforeDrafts
  <2>2. UNCHANGED <<made, turns, calls>>
    BY <1>2 DEF Restart
  <2>3. Cardinality(MayDraft) \in Nat /\ Cardinality(MayTurn) \in Nat
    BY FS_CardinalityType DEF TypeInv, Counted
  <2> QED BY <1>0, <2>1, <2>2, <2>3, FS_EmptySet DEF TypeInv, Counted
<1>3. ASSUME NEW t \in Threads, Handle(t) PROVE Counted'
  <2>1. CASE Create(t)
    BY <1>0, <2>1, CountedThread DEF Create, Owes, At, BeforeDrafts
  <2>2. CASE Message(t)
    BY <1>0, <2>2, CountedThread DEF Message, Owes, At, BeforeDrafts
  <2>3. CASE ReadState(t)
    BY <1>0, <2>3, CountedThread DEF ReadState, Owes, At, BeforeDrafts
  <2>4. ASSUME NEW decision \in Decisions, ReviewPlan(t, decision) PROVE Counted'
    <3>1. /\ UNCHANGED <<made, turns>> /\ calls' = calls + 1
          /\ pc[t] = "idle"
          /\ \E ok \in Labels : ThenUpsert(t, ok, "idle")
      BY <2>4 DEF ReviewPlan, Labels
    <3> QED BY <1>0, <3>1, CountedThread DEF Owes, At, BeforeDrafts
  <2>5. CASE AppendRevision(t)
    BY <1>0, <2>5, CountedThread DEF AppendRevision, Owes, At, BeforeDrafts
  <2>6. CASE SaveReview(t)
    BY <1>0, <2>6, CountedThread DEF SaveReview, Owes, At, BeforeDrafts
  <2>7. CASE Retry(t)
    BY <1>0, <2>7, CountedThread DEF Retry, Owes, At, BeforeDrafts
  <2>8. CASE Build(t)
    BY <1>0, <2>8, CountedThread DEF Build, Owes, At, BeforeDrafts
  <2> QED
    BY <1>3, <2>1, <2>2, <2>3, <2>4, <2>5, <2>6, <2>7, <2>8 DEF Handle
<1>4. ASSUME NEW t \in Threads, Round(t) PROVE Counted'
  <2>1. CASE Begin(t)
    BY <1>0, <2>1, CountedThread DEF Begin, Owes, At, BeforeDrafts
  <2>2. CASE ElicitFails(t) \/ ElicitTimesOut(t)
    BY <1>0, <2>2, CountedThread DEF ElicitFails, ElicitTimesOut, Owes, At, BeforeDrafts
  <2>3. CASE ElicitAsks(t)
    <3>1. /\ made' \in {made, made + 1} /\ turns' = turns /\ calls' = calls
          /\ pc[t] = "elicit" /\ ThenUpsert(t, "save", "save")
      BY <2>3 DEF ElicitAsks, WriteDrafts
    <3>2. /\ Owes(At(t) \in BeforeDrafts) = 1 /\ Owes(At(t) \in BeforeDrafts)' = 0
          /\ Owes(At(t) = "append_revision") = 0 /\ Owes(At(t) = "append_revision")' = 0
      BY <1>0, <3>1 DEF Owes, At, BeforeDrafts
    <3>3. \A u \in Threads \ {t} : pc'[u] = pc[u] /\ cont'[u] = cont[u]
      BY <1>0, <3>1
    <3> QED BY <1>0, <3>1, <3>2, <3>3, CountedThread
  <2>4. CASE ElicitPlans(t)
    BY <1>0, <2>4, CountedThread DEF ElicitPlans, WriteDrafts, Owes, At, BeforeDrafts
  <2>5. ASSUME UNCHANGED <<made, turns, calls>>,
               NEW label \in Labels \ (BeforeDrafts \cup {"upsert"}), Goto(t, label)
        PROVE  Counted'
    BY <1>0, <2>5, CountedStays DEF At
  <2>6. ASSUME UNCHANGED <<made, turns, calls>>,
               NEW label \in OkLabels \ BeforeDrafts, NEW tampered \in TamperedLabels,
               ThenUpsert(t, label, tampered)
        PROVE  Counted'
    BY <1>0, <2>6, CountedStays DEF At
  <2> USE DEF Labels, OkLabels, TamperedLabels, BeforeDrafts
  <2> HIDE DEF Goto, ThenUpsert
  <2>7. CASE WritePlan(t) \/ AwaitReview(t) \/ PlanFails(t)
    BY <2>5, <2>6, <2>7 DEF WritePlan, AwaitReview, PlanFails
  <2>8. CASE AuditFails(t) \/ AuditPasses(t) \/ GateFreezes(t)
    BY <2>5, <2>6, <2>8 DEF AuditFails, AuditPasses, GateFreezes
  <2>9. CASE GateAsks(t) \/ \E readiness \in {"human_review_required", "rejected"} :
                                GateBlocks(t, readiness)
    BY <2>5, <2>6, <2>9 DEF GateAsks, GateBlocks
  <2>10. CASE Lock(t) \/ Seal(t) \/ FreezeWriteFails(t) \/ Freeze(t)
    BY <2>5, <2>6, <2>10 DEF Lock, Seal, FreezeWriteFails, Freeze
  <2>13. CASE WriteRoot(t) \/ HashRoot(t)
    <3>1. /\ UNCHANGED <<made, turns, calls, cont>>
          /\ pc[t] \in {"write_root", "hash_root"}
          /\ pc' \in {pc, [pc EXCEPT ![t] = "hash_root"], [pc EXCEPT ![t] = "lock"]}
      BY <2>13 DEF WriteRoot, HashRoot, NextInput
    <3> QED BY <1>0, <3>1, CountedStays DEF At
  <2>11. CASE Upsert(t)
    BY <1>0, <2>11, CountedThread DEF Upsert, Goto, Owes, At
  <2>12. CASE FreezeFails(t) \/ Save(t)
    BY <2>5, <2>6, <2>12 DEF FreezeFails, Save
  <2> QED
    BY <1>4, <2>1, <2>2, <2>3, <2>4, <2>5, <2>6, <2>7, <2>8, <2>9, <2>10, <2>11, <2>12,
       <2>13 DEF Round
<1> QED
  BY <1>1, <1>2, <1>3, <1>4 DEF Next

LEMMA TypeStep == FrontDeskAssumption /\ TypeInv /\ [Next]_vars => TypeInv'
<1> SUFFICES ASSUME FrontDeskAssumption, TypeInv, [Next]_vars PROVE TypeInv'
  OBVIOUS
<1>0. Shape' /\ BudgetInv'
  BY BudgetStep DEF TypeInv, BudgetInv
<1>1. CASE UNCHANGED vars
  <2>1. TypeOK'
    BY <1>1 DEF vars, TypeInv, TypeOK
  <2> QED BY <1>0, <2>1, CountedStep DEF TypeInv
<1>2. CASE Restart
  <2>1. /\ pc' \in [Threads -> Labels] /\ restarts' \in 0..MaxRestarts
        /\ UNCHANGED <<state, turns, draft, plan, reviews, root, locked, manifest, made,
                       st, mine, file, seen, cont, approved, gated, built, overlap, cut,
                       calls>>
    BY <1>2 DEF Restart, TypeInv, TypeOK, files, history, Labels, FrontDeskAssumption
  <2>2. TypeOK'
    BY <2>1 DEF TypeInv, TypeOK
  <2> QED BY <1>0, <2>2, CountedStep DEF TypeInv
<1>3. TypeOK'
  BY <1>0, <1>1, <1>2, HandleTypes, RoundTypes DEF Next, TypeInv
<1> QED BY <1>0, <1>3, CountedStep DEF TypeInv

LEMMA TypeInit == Init => TypeInv
<1> SUFFICES ASSUME Init PROVE TypeInv
  OBVIOUS
<1>1. TypeOK
  <2>1. FromDrafts(0) \in BuilderInputs /\ 0 \in Contents /\ 0 \in 0..InputCount
    BY FrontDeskAssumption DEF FromDrafts, BuilderInputs, Contents, FrontDeskAssumption
  <2>2. NoManifest \in Manifest /\ NewState \in State
    BY <2>1, FrontDeskAssumption DEF NoManifest, Manifest, NewState, State, Readiness, Rounds,
       FrontDeskAssumption
  <2>3. calls = 0 /\ calls \in 0..MaxCalls /\ restarts \in 0..MaxRestarts /\ made \in 0..calls
        /\ turns \in 0..(2 * MaxCalls)
    BY FrontDeskAssumption DEF Init, FrontDeskAssumption
  <2>4. cont \in [Threads -> [ok : Labels, tampered : Labels]] /\ pc \in [Threads -> Labels]
    BY DEF Init, Done, Labels
  <2> QED BY <2>1, <2>2, <2>3, <2>4 DEF Init, TypeOK
<1>2. BudgetInv
  BY FrontDeskAssumption DEF Init, BudgetInv, Shape, JobState, Labels, OkLabels,
     TamperedLabels, Readiness, Done, NewState, FromDrafts, FrontDeskAssumption, ThreadFits, Fits,
     WithinRevisions, WithinRounds, Spending, Storing, Planning
<1>3. MayDraft = {} /\ MayTurn = {} /\ made = 0 /\ turns = 0 /\ calls = 0
  BY DEF Init, MayDraft, MayTurn, At, BeforeDrafts
<1>4. Counted
  BY <1>3, FS_EmptySet DEF Counted
<1> QED BY <1>1, <1>2, <1>4 DEF TypeInv

(* Whatever the number of threads and wherever the server dies, the files hold *)
(* what the schemas allow: no job counts past its limits, and a request writes *)
(* drafts at most once and appends at most one turn (run_round,                *)
(* review_frontdesk_plan).                                                     *)
THEOREM FilesAreTyped == Spec => []TypeOK
<1>1. TypeInv => TypeOK
  BY DEF TypeInv
<1> QED
  BY <1>1, TypeInit, TypeStep, FrontDeskAssumption, PTL DEF Spec

-----------------------------------------------------------------------------
(* Requests that do not overlap *)

(* At most one request of the job is being answered and the server has not     *)
(* died in one.                                                                *)
Undisturbed ==
    /\ restarts = 0
    /\ \A t, u \in Threads : pc[t] # "idle" /\ pc[u] # "idle" => t = u

(* What the job's files hold when its readiness says so.                       *)
Agrees(s) ==
    /\ s.readiness \in {"awaiting_plan_review", "plan_revision_requested", "plan_approved"}
         => draft = plan
    /\ s.readiness = "frozen" =>
         root = FromDrafts(plan) /\ plan \in approved /\ LockedInputsMatch

Rest == {"idle", "read_state"}

(* What holds while a thread is at a label of its request.                     *)
Holds(t) ==
    /\ pc[t] # "idle" => turns > 0
    /\ pc[t] = "upsert" =>
         /\ seen[t] = locked
         /\ cont[t].tampered \in Rest => Agrees(state)
         /\ cont[t].tampered = "save" => cont[t].ok = "save"
    /\ At(t) \in {"append_revision", "save_review", "begin", "save"} => Agrees(st[t])
    /\ At(t) \in {"append_revision", "save_review"}
         => st[t].readiness # "frozen" /\ draft = plan
    /\ At(t) \in {"audit", "gate", "await_review", "seal", "freeze"} \cup Replacing
         => draft = plan
    /\ At(t) \in {"write_plan"} \cup Replacing => mine[t] = draft
    /\ At(t) \in {"seal", "freeze"} \cup Replacing => plan \in approved
    /\ Written(t, mine[t])
    /\ At(t) \in {"seal", "freeze"} => root = FromDrafts(draft)
    /\ pc[t] = "freeze" => LockedInputsMatch

(* A thread that answers a request for a frozen job only stores it again.      *)
KeepsFrozen(t) ==
    At(t) \in Rest \/ (At(t) \in {"begin", "save"} /\ st[t].readiness = "frozen")

CallerInv ==
    /\ LockedInputsMatch \/ cut \/ \E t \in Threads : pc[t] \in Replacing
    /\ \A t \in Threads : Holds(t)
    /\ (\A t \in Threads : At(t) \in Rest) => Agrees(state)
    /\ state.readiness # "new_conversation" => turns > 0
    /\ state.readiness = "frozen" =>
          /\ root = FromDrafts(plan) /\ plan \in approved /\ LockedInputsMatch
          /\ \A t \in Threads : KeepsFrozen(t)
    /\ BuildsFollowApprovedPlan

(* A step of the one busy thread preserves CallerInv when the files agree with *)
(* the label it goes to and with the state on file.                            *)
LEMMA CallerThread ==
    ASSUME CallerInv, NEW t \in Threads,
           \A u \in Threads \ {t} : pc'[u] = "idle",
           (LockedInputsMatch \/ cut)' \/ pc'[t] \in Replacing,
           Holds(t)',
           At(t)' \in Rest => Agrees(state)',
           state'.readiness # "new_conversation" => turns' > 0,
           state'.readiness = "frozen" =>
              /\ (root = FromDrafts(plan) /\ LockedInputsMatch)'
              /\ plan' \in approved' /\ KeepsFrozen(t)',
           UNCHANGED built, approved \subseteq approved'
    PROVE  CallerInv'
<1>1. \A u \in Threads \ {t} : At(u)' = "idle"
  BY DEF At
<1>2. (LockedInputsMatch \/ cut \/ \E u \in Threads : pc[u] \in Replacing)'
  OBVIOUS
<1>3. \A u \in Threads : Holds(u)'
  BY <1>1 DEF Holds, Written, Replacing
<1>4. \A u \in Threads \ {t} : KeepsFrozen(u)'
  BY <1>1 DEF KeepsFrozen, Rest
<1>5. BuildsFollowApprovedPlan'
  BY DEF CallerInv, BuildsFollowApprovedPlan
<1> QED BY <1>2, <1>3, <1>4, <1>5 DEF CallerInv

(* What the one busy thread finds.                                             *)
LEMMA CallerFacts ==
    ASSUME CallerInv, Undisturbed, NEW t \in Threads, pc[t] # "idle"
    PROVE  /\ Holds(t)
           /\ \A u \in Threads \ {t} : pc[u] = "idle"
           /\ pc[t] \notin Replacing => root = locked \/ cut
           /\ At(t) \in Rest => Agrees(state)
           /\ state.readiness # "new_conversation" => turns > 0
           /\ state.readiness = "frozen" =>
                 /\ root = FromDrafts(plan) /\ root = locked
                 /\ plan \in approved /\ KeepsFrozen(t)
<1>1. \A u \in Threads \ {t} : pc[u] = "idle"
  BY DEF Undisturbed
<1>2. \A u \in Threads \ {t} : At(u) = "idle"
  BY <1>1 DEF At
<1>3. pc[t] \notin Replacing => root = locked \/ cut
  BY <1>1 DEF CallerInv, LockedInputsMatch, Replacing
<1> QED BY <1>1, <1>2, <1>3 DEF CallerInv, Rest, LockedInputsMatch

(* A request that opens finds the job at rest.                                 *)
LEMMA CallerOpens ==
    ASSUME CallerInv, Undisturbed', NEW t \in Threads, pc[t] = "idle",
           pc'[t] # "idle", \A u \in Threads \ {t} : pc'[u] = pc[u]
    PROVE  /\ \A u \in Threads \ {t} : pc'[u] = "idle"
           /\ (root = locked \/ cut) /\ Agrees(state)
           /\ state.readiness # "new_conversation" => turns > 0
           /\ state.readiness = "frozen" =>
                 root = FromDrafts(plan) /\ root = locked /\ plan \in approved
<1>1. \A u \in Threads \ {t} : pc'[u] = "idle"
  BY DEF Undisturbed
<1>2. \A u \in Threads : At(u) = "idle" /\ pc[u] = "idle"
  BY <1>1 DEF At
<1> QED BY <1>1, <1>2 DEF CallerInv, LockedInputsMatch, Rest, Replacing

(* The types the steps below rely on.                                          *)
Carried ==
    /\ pc \in [Threads -> Labels]
    /\ cont \in [Threads -> [ok : OkLabels, tampered : TamperedLabels]]
    /\ st \in [Threads -> State] /\ state \in State
    /\ mine \in [Threads -> Contents] /\ seen \in [Threads -> BuilderInputs]
    /\ root \in BuilderInputs
    /\ file \in [Threads -> 0..InputCount]
    /\ turns \in Nat

LEMMA CarriedType == FrontDeskAssumption /\ TypeInv => Carried
BY RoomLeft DEF FrontDeskAssumption, TypeInv, TypeOK, BudgetInv, Shape, Carried

LEMMA CallerHandle ==
    ASSUME TypeInv, CallerInv, Undisturbed, Undisturbed',
           NEW t \in Threads, Handle(t)
    PROVE  CallerInv'
<1> USE DEF Carry, Goto, ThenUpsert, Request, files, history, bounds, LockedInputsMatch,
            Rest, KeepsFrozen, Agrees, At, Replacing
<1>0. Carried
  BY CarriedType, FrontDeskAssumption
<1>1. CASE Create(t)
  <2>1. /\ pc[t] = "idle" /\ pc'[t] = "upsert" /\ cont'[t] = [ok |-> "begin", tampered |-> "idle"]
        /\ seen'[t] = locked /\ st'[t] = NewState
        /\ turns = 0 /\ turns' = 1
        /\ \A u \in Threads \ {t} : pc'[u] = pc[u]
        /\ UNCHANGED <<state, draft, plan, root, locked, approved, built, cut>>
    BY <1>0, <1>1 DEF Create, Carried
  <2>2. /\ \A u \in Threads \ {t} : pc'[u] = "idle"
        /\ (root = locked \/ cut) /\ state.readiness = "new_conversation"
    BY <2>1, CallerOpens
  <2> QED BY <2>1, <2>2, CallerThread DEF Holds, Written, NewState
<1>2. CASE Message(t)
  <2>1. /\ pc[t] = "idle" /\ pc'[t] = "upsert" /\ cont'[t] = [ok |-> "read_state", tampered |-> "idle"]
        /\ seen'[t] = locked /\ turns' = turns + 1 /\ turns \in Nat
        /\ \A u \in Threads \ {t} : pc'[u] = pc[u]
        /\ UNCHANGED <<state, draft, plan, root, locked, approved, built, cut>>
    BY <1>0, <1>2 DEF Message, Carried
  <2>2. /\ \A u \in Threads \ {t} : pc'[u] = "idle"
        /\ (root = locked \/ cut) /\ Agrees(state)
    BY <2>1, CallerOpens
  <2> QED BY <2>1, <2>2, CallerThread DEF Holds, Written
<1>3. CASE ReadState(t)
  <2>1. /\ pc[t] = "read_state" /\ pc'[t] = "begin" /\ st'[t] = state
        /\ \A u \in Threads \ {t} : pc'[u] = pc[u]
        /\ UNCHANGED <<state, turns, draft, plan, root, locked, approved, built, cut>>
    BY <1>0, <1>3 DEF ReadState, Carried
  <2>2. /\ \A u \in Threads \ {t} : pc'[u] = "idle"
        /\ Holds(t) /\ (root = locked \/ cut) /\ Agrees(state)
    BY <2>1, CallerFacts
  <2> QED BY <2>1, <2>2, CallerThread DEF Holds, Written
<1>4. ASSUME NEW decision \in Decisions, ReviewPlan(t, decision) PROVE CallerInv'
  <2>1. /\ pc[t] = "idle" /\ pc'[t] = "upsert" /\ seen'[t] = locked
        /\ \A u \in Threads \ {t} : pc'[u] = pc[u]
        /\ state.readiness \in {"awaiting_plan_review", "plan_revision_requested"}
        /\ approved \subseteq approved'
        /\ UNCHANGED <<state, turns, draft, plan, root, locked, built, cut>>
    BY <1>0, <1>4 DEF ReviewPlan, Carried
  <2>2. /\ cont'[t].ok \in {"save_review", "append_revision", "save"}
        /\ cont'[t].tampered = "idle"
        /\ st'[t].readiness \in {"plan_approved", "rejected", "human_review_required",
                                 "plan_revision_requested"}
    BY <1>0, <1>4 DEF ReviewPlan, Carried, Reviewed
  <2>3. /\ \A u \in Threads \ {t} : pc'[u] = "idle"
        /\ (root = locked \/ cut) /\ draft = plan /\ turns > 0 /\ Agrees(state)
    BY <2>1, CallerOpens
  <2> QED BY <2>1, <2>2, <2>3, CallerThread DEF Holds, Written
<1>5. CASE AppendRevision(t)
  <2>1. /\ pc[t] = "append_revision" /\ pc'[t] = "upsert" /\ cont'[t] = [ok |-> "save_review", tampered |-> "idle"]
        /\ seen'[t] = locked /\ turns' = turns + 1 /\ turns \in Nat /\ st'[t] = st[t]
        /\ \A u \in Threads \ {t} : pc'[u] = pc[u]
        /\ UNCHANGED <<state, draft, plan, root, locked, approved, built, cut>>
    BY <1>0, <1>5 DEF AppendRevision, Carried
  <2>2. /\ \A u \in Threads \ {t} : pc'[u] = "idle"
        /\ Holds(t) /\ (root = locked \/ cut) /\ state.readiness # "frozen"
    BY <2>1, CallerFacts
  <2> QED BY <2>1, <2>2, CallerThread DEF Holds, Written
<1>6. CASE SaveReview(t)
  <2>1. /\ pc[t] = "save_review" /\ pc'[t] = "upsert" /\ cont'[t] = [ok |-> "begin", tampered |-> "idle"]
        /\ seen'[t] = locked /\ st'[t] = st[t] /\ state' = st[t]
        /\ \A u \in Threads \ {t} : pc'[u] = pc[u]
        /\ UNCHANGED <<turns, draft, plan, root, locked, approved, built, cut>>
    BY <1>0, <1>6 DEF SaveReview, Carried
  <2>2. /\ \A u \in Threads \ {t} : pc'[u] = "idle"
        /\ Holds(t) /\ (root = locked \/ cut)
    BY <2>1, CallerFacts
  <2> QED BY <2>1, <2>2, CallerThread DEF Holds, Written
<1>7. CASE Retry(t)
  <2>1. /\ pc[t] = "idle" /\ pc'[t] = "begin" /\ state.readiness # "frozen"
        /\ state.readiness # "new_conversation"
        /\ st'[t] = state \/ st'[t].readiness = "needs_clarification"
        /\ \A u \in Threads \ {t} : pc'[u] = pc[u]
        /\ UNCHANGED <<state, turns, draft, plan, root, locked, approved, built, cut>>
    BY <1>0, <1>7 DEF Retry, Moved, Carried
  <2>2. /\ \A u \in Threads \ {t} : pc'[u] = "idle"
        /\ (root = locked \/ cut) /\ Agrees(state) /\ turns > 0
    BY <2>1, CallerOpens
  <2> QED BY <2>1, <2>2, CallerThread DEF Holds, Written
<1>8. CASE Build(t)
  <2>1. /\ state.readiness = "frozen"
        /\ built' = built \cup {[plan |-> plan, root |-> root]}
        /\ UNCHANGED <<state, turns, draft, plan, root, locked, pc, st, mine, file, seen,
                       cont, approved, cut>>
    BY <1>8 DEF Build, BuildGate
  <2>2. root = FromDrafts(plan) /\ plan \in approved
    BY <2>1 DEF CallerInv
  <2>3. BuildsFollowApprovedPlan'
    BY <2>1, <2>2 DEF CallerInv, BuildsFollowApprovedPlan
  <2> QED BY <2>1, <2>3 DEF CallerInv, Holds, Written
<1> QED
  BY <1>1, <1>2, <1>3, <1>4, <1>5, <1>6, <1>7, <1>8 DEF Handle

LEMMA CallerRound ==
    ASSUME TypeInv, ApprovalInv, CallerInv, Undisturbed, NEW t \in Threads, Round(t)
    PROVE  CallerInv'
<1> DEFINE round == ReportRound(st[t])
<1> USE DEF Carry, Goto, ThenUpsert, files, history, bounds, LockedInputsMatch, Rest,
            KeepsFrozen, Agrees, At, Replacing
<1>0. Carried
  BY CarriedType, FrontDeskAssumption
<1>1. pc[t] \notin Rest
  BY DEF Round, Begin, ElicitFails, ElicitTimesOut, ElicitAsks, ElicitPlans, WritePlan,
     AwaitReview, PlanFails, AuditFails, AuditPasses, GateFreezes, GateBlocks, GateAsks,
     WriteRoot, HashRoot, NextInput, Lock, Seal, FreezeWriteFails, Freeze,
     Upsert, FreezeFails, Save
<1>2. /\ Holds(t)
      /\ \A u \in Threads \ {t} : pc[u] = "idle"
      /\ pc[t] \notin Replacing => root = locked \/ cut
      /\ At(t) \in Rest => Agrees(state)
      /\ state.readiness # "new_conversation" => turns > 0
      /\ state.readiness = "frozen" =>
            /\ root = FromDrafts(plan) /\ root = locked
            /\ plan \in approved /\ KeepsFrozen(t)
  BY <1>1, CallerFacts
<1>3. UNCHANGED <<turns, approved, built>> /\ (UNCHANGED state \/ state' = st[t])
  BY DEF Round, Begin, ElicitFails, ElicitTimesOut, ElicitAsks, ElicitPlans, WritePlan,
     AwaitReview, PlanFails, AuditFails, AuditPasses, GateFreezes, GateBlocks, GateAsks,
     WriteRoot, HashRoot, NextInput, Lock, Seal, FreezeWriteFails, Freeze,
     Upsert, FreezeFails, Save
<1>4. \A u \in Threads \ {t} : pc'[u] = "idle"
  BY <1>0, <1>2 DEF Carried, Round, Begin, ElicitFails, ElicitTimesOut, ElicitAsks,
     ElicitPlans, WritePlan, AwaitReview, PlanFails, AuditFails, AuditPasses, GateFreezes,
     GateBlocks, GateAsks, WriteRoot, HashRoot, NextInput, Lock, Seal, FreezeWriteFails, Freeze,
     Upsert, FreezeFails, Save
<1>5. CASE Begin(t)
  BY <1>0, <1>2, <1>3, <1>4, <1>5, CallerThread DEF Carried, Begin, Moved, TerminalReadiness, Holds, Written
<1>6. CASE ElicitFails(t) \/ ElicitTimesOut(t)
  BY <1>0, <1>2, <1>3, <1>4, <1>6, CallerThread DEF Carried, ElicitFails, ElicitTimesOut, Moved, Holds, Written
<1>7. CASE ElicitAsks(t)
  BY <1>0, <1>2, <1>3, <1>4, <1>7, CallerThread
  DEF Carried, ElicitAsks, ClarifyOrEscalate, WriteDrafts, Moved, Holds, Written
<1>8. CASE ElicitPlans(t)
  BY <1>0, <1>2, <1>3, <1>4, <1>8, CallerThread DEF Carried, ElicitPlans, WriteDrafts, Holds, Written
<1>9. CASE WritePlan(t)
  BY <1>0, <1>2, <1>3, <1>4, <1>9, CallerThread DEF Carried, WritePlan, Holds, Written
<1>10. CASE AwaitReview(t)
  BY <1>0, <1>2, <1>3, <1>4, <1>10, CallerThread DEF Carried, AwaitReview, Moved, Holds, Written
<1>11. CASE PlanFails(t)
  BY <1>0, <1>2, <1>3, <1>4, <1>11, CallerThread DEF Carried, PlanFails, Moved, Holds, Written
<1>12. CASE AuditFails(t) \/ AuditPasses(t)
  BY <1>0, <1>2, <1>3, <1>4, <1>12, CallerThread DEF Carried, AuditFails, AuditPasses, Moved, Holds, Written
<1>13. CASE GateFreezes(t)
  <2>1. PICK r \in reviews : r.decision = "approve" /\ r.plan = plan
    BY <1>13 DEF GateFreezes, ReviewApproves, ReviewsOf
  <2>2. plan \in approved
    BY <2>1 DEF ApprovalInv, ReviewsTestify
  <2> QED
    BY <1>0, <1>2, <1>3, <1>4, <1>13, <2>2, CallerThread DEF Carried, GateFreezes, Holds, Written
<1>14. ASSUME NEW readiness \in {"human_review_required", "rejected"},
              GateBlocks(t, readiness)
       PROVE  CallerInv'
  BY <1>0, <1>2, <1>3, <1>4, <1>14, CallerThread DEF Carried, GateBlocks, Moved, Holds, Written
<1>15. CASE GateAsks(t)
  BY <1>0, <1>2, <1>3, <1>4, <1>15, CallerThread
  DEF Carried, GateAsks, ClarifyOrEscalate, Moved, Holds, Written
<1>16. CASE WriteRoot(t) \/ HashRoot(t)
  <2>1. /\ pc[t] \in Replacing /\ pc'[t] \in Replacing /\ Written(t, mine[t])'
        /\ UNCHANGED <<mine, draft, plan, state>>
    BY <1>2, <1>16, WritesOn, HashesOn, FrontDeskAssumption
    DEF Holds, WriteRoot, HashRoot, TypeInv, BudgetInv
  <2>2. state.readiness # "frozen"
    BY <1>2, <2>1
  <2> QED BY <1>2, <1>3, <1>4, <2>1, <2>2, CallerThread DEF Holds
<1>17. CASE Lock(t)
  <2>1. /\ pc[t] = "lock" /\ pc'[t] = "seal" /\ locked' = seen[t]
        /\ UNCHANGED <<state, draft, plan, root, st, mine>>
    BY <1>0, <1>17 DEF Carried, Lock
  <2>2. /\ \A i \in Inputs : root[i] = draft /\ seen[t][i] = draft
        /\ draft = plan /\ plan \in approved
    BY <1>2, <2>1 DEF Holds, Written
  <2>3. root = FromDrafts(draft) /\ seen[t] = root
    BY <1>0, <2>2 DEF Carried, BuilderInputs, FromDrafts
  <2> QED BY <1>2, <1>3, <1>4, <2>1, <2>2, <2>3, CallerThread DEF Holds, Written
<1>18. CASE Seal(t)
  BY <1>0, <1>2, <1>3, <1>4, <1>18, CallerThread DEF Carried, Seal, Holds, Written
<1>19. CASE Freeze(t)
  BY <1>0, <1>2, <1>3, <1>4, <1>19, CallerThread DEF Carried, Freeze, Moved, Holds, Written
<1>20. CASE Upsert(t)
  <2>1. /\ pc[t] = "upsert" /\ locked' = seen[t] /\ seen[t] = locked
        /\ pc'[t] = IF root = locked THEN cont[t].ok ELSE cont[t].tampered
        /\ UNCHANGED <<state, turns, draft, plan, root, st, mine, seen, cont, approved,
                       built, cut>>
    BY <1>0, <1>2, <1>20 DEF Carried, Upsert, Holds
  <2>2. cont[t].ok \in OkLabels /\ cont[t].tampered \in TamperedLabels
    BY <1>0 DEF Carried
  <2>3. CASE root = locked
    BY <1>2, <1>3, <1>4, <2>1, <2>2, <2>3, CallerThread DEF OkLabels, Holds, Written
  <2>4. CASE root # locked
    <3>1. cut /\ state.readiness # "frozen"
      BY <1>2, <2>1, <2>4
    <3> QED
      BY <1>2, <1>3, <1>4, <2>1, <2>2, <2>4, <3>1, CallerThread
      DEF TamperedLabels, OkLabels, Holds, Written
  <2> QED BY <2>3, <2>4
<1>21. CASE FreezeFails(t)
  BY <1>0, <1>2, <1>3, <1>4, <1>21, CallerThread DEF Carried, FreezeFails, Moved, Holds, Written
<1>22. CASE Save(t)
  BY <1>0, <1>2, <1>3, <1>4, <1>22, CallerThread DEF Carried, Save, Holds, Written
<1>23. CASE FreezeWriteFails(t)
  BY <1>0, <1>2, <1>3, <1>4, <1>23, CallerThread DEF Carried, FreezeWriteFails, Holds, Written
<1> QED
  BY <1>5, <1>6, <1>7, <1>8, <1>9, <1>10, <1>11, <1>12, <1>13, <1>14, <1>15, <1>16, <1>17,
     <1>18, <1>19, <1>20, <1>21, <1>22, <1>23 DEF Round

LEMMA CallerStep ==
    TypeInv /\ ApprovalInv /\ CallerInv /\ Undisturbed /\ Undisturbed' /\ [Next]_vars
      => CallerInv'
<1> SUFFICES ASSUME TypeInv, ApprovalInv, CallerInv, Undisturbed, Undisturbed', [Next]_vars
             PROVE  CallerInv'
  OBVIOUS
<1>1. CASE UNCHANGED vars
  BY <1>1 DEF vars, CallerInv, LockedInputsMatch, Holds, Written, At, Agrees, Rest,
     KeepsFrozen, BuildsFollowApprovedPlan
<1>2. ~Restart
  BY DEF Restart, Undisturbed
<1> QED BY <1>1, <1>2, CallerHandle, CallerRound DEF Next

LEMMA CallerInit == Init => TypeInv /\ ApprovalInv /\ CallerInv
<1> SUFFICES ASSUME Init PROVE TypeInv /\ ApprovalInv /\ CallerInv
  OBVIOUS
<1>1. TypeInv
  BY TypeInit
<1>2. ApprovalInv
  BY DEF Init, ApprovalInv, ReviewsTestify, FreezeRestsOnApproval
<1>3. CallerInv
  BY DEF Init, NewState, CallerInv, LockedInputsMatch, Holds, Written, At, Agrees, Rest,
     Replacing, BuildsFollowApprovedPlan
<1> QED BY <1>1, <1>2, <1>3

LEMMA CallerHolds == Spec /\ []Undisturbed => []CallerInv
BY CallerInit, CallerStep, ApprovalStep, TypeStep, FrontDeskAssumption, PTL DEF Spec

(* As long as the requests of a job do not overlap and the server does not die *)
(* in one, what is built is the approved plan and the drafts it was written    *)
(* with: the freeze writes the drafts that belong to the plan the review       *)
(* approved (_write_frozen_inputs_and_manifest).  A second caller or a restart *)
(* between drafts and plan breaks this, see the hazards.                       *)
THEOREM BuildsAreApproved == Spec /\ []Undisturbed => []BuildsFollowApprovedPlan
<1>1. CallerInv => BuildsFollowApprovedPlan
  BY DEF CallerInv
<1> QED BY <1>1, CallerHolds, PTL

(* Under the same condition the builder inputs of a frozen job match their     *)
(* recorded hashes, and any job's differ from them only while a freeze writes  *)
(* them or after one failed among those writes                                 *)
(* (_write_frozen_inputs_and_manifest, freeze_write_failed).                   *)
THEOREM LockedInputsAreKept == Spec /\ []Undisturbed => []LockedInputsHold
<1>1. CallerInv => LockedInputsHold
  BY DEF CallerInv, LockedInputsHold
<1> QED BY <1>1, CallerHolds, PTL

(* A server with one request thread that never dies is undisturbed.            *)
THEOREM OneCallerBuildsApproved ==
    ASSUME \A t, u \in Threads : t = u, MaxRestarts = 0
    PROVE  Spec => [](BuildsFollowApprovedPlan /\ LockedInputsHold)
<1>1. TypeOK => Undisturbed
  BY DEF TypeOK, Undisturbed
<1> QED BY <1>1, FilesAreTyped, BuildsAreApproved, LockedInputsAreKept, PTL
=============================================================================
