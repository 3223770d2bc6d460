--------------------------- MODULE RegistryProofs ---------------------------
(* Theorems about Registry for every set of processes, keys, jobs, packages   *)
(* and every bound.                                                           *)
EXTENDS Registry, TLAPS

(* A marked entry is an entry with the same identity.                         *)
LEMMA MarkedEntry ==
    ASSUME NEW e \in Entry, NEW kind
    PROVE  /\ Marked(e, kind) \in Entry
           /\ Marked(e, kind).key = e.key
           /\ Marked(e, kind).job = e.job
           /\ Marked(e, kind).package = e.package
           /\ Marked(e, kind).result = e.result
BY DEF Marked, Entry

(* A request names a key, and an addition names a job.                        *)
LEMMA RequestFields ==
    ASSUME NEW r \in Request
    PROVE  /\ r.key \in Keys
           /\ r.kind \in AddKinds \cup MarkKinds
           /\ r.kind \in AddKinds => r.job \in Jobs
           /\ r.kind \in AddKinds => LastWriteOf(r) \in Request
           /\ LastWriteOf(r).key = r.key
           /\ LastWriteOf(r).kind = "add"
BY DEF Request, AddKinds, MarkKinds, LastWriteOf

(* Leaving a call keeps the types of the caller's variables.                  *)
LEMMA LeaveType ==
    ASSUME TypeOK, NEW p \in Procs, Leave(p)
    PROVE  /\ pc' \in [Procs -> Labels]
           /\ request' \in [Procs -> Request \cup {None}]
           /\ draft' \in [Procs -> Entry \cup {None}]
           /\ loaded' \in [Procs -> SUBSET Entry]
           /\ tmp' \in [Procs -> SUBSET Entry]
BY DEF TypeOK, Leave, Goto, Labels

-----------------------------------------------------------------------------
(* Type correctness needs to know what a caller holds at each label.          *)

CallerOK ==
    \A p \in Procs :
        /\ pc[p] # "idle" => request[p] # None
        /\ pc[p] \in {"read_result", "hash_package", "hash_result", "check_package",
                      "check_hash", "check_result", "augment"}
              => request[p].kind \in AddKinds
        /\ pc[p] \in {"hash_package", "hash_result", "check_package", "check_hash",
                      "check_result", "write", "replace", "return", "augment"}
              => draft[p] # None /\ draft[p].key = request[p].key
        /\ pc[p] \in {"acquire", "load", "decide"} /\ request[p].kind \in AddKinds
              => draft[p] # None /\ draft[p].key = request[p].key
        /\ pc[p] = "check_reuse" => request[p].kind \in MarkKinds

TypeInv == TypeOK /\ CallerOK

THEOREM TypeInit == Init => TypeInv
BY RegistryAssumption DEF Init, TypeInv, TypeOK, CallerOK, Labels, Entry, Result, Promise

(* One step of the environment or of one caller keeps the invariant.          *)
THEOREM TypeStep == TypeInv /\ [Next]_vars => TypeInv'
<1> SUFFICES ASSUME TypeInv, [Next]_vars PROVE TypeInv'
  OBVIOUS
<1> USE RegistryAssumption DEF TypeInv, AddKinds, MarkKinds
<1>left. ASSUME NEW p \in Procs, Leave(p) PROVE CallerOK'
  BY <1>left DEF Leave, Goto, CallerOK, TypeOK
<1>1. ASSUME NEW p \in Procs, Call(p) PROVE TypeInv'
  <2>1. PICK r \in Request :
            /\ request' = [request EXCEPT ![p] = r]
            /\ Goto(p, IF r.kind \in AddKinds THEN "read_result" ELSE "acquire")
    BY <1>1 DEF Call
  <2>2. r # None
    OBVIOUS
  <2>3. TypeOK'
    BY <1>1, <2>1 DEF Call, TypeOK, Goto, Labels
  <2>4. CallerOK'
    BY <1>1, <2>1, <2>2 DEF Call, TypeOK, Goto, CallerOK, Labels
  <2> QED BY <2>3, <2>4
<1>2. ASSUME NEW p \in Procs, ReadResult(p) PROVE TypeInv'
  <2> DEFINE w == workspace[request[p].job]
             e == [key |-> request[p].key, job |-> request[p].job,
                   package |-> w.result.package, result |-> w.result,
                   approval |-> "approved", quarantine |-> "none",
                   linked |-> FALSE]
  <2>1. CASE Leave(p)
    BY <1>2, <2>1, <1>left, LeaveType DEF ReadResult, TypeOK
  <2>2. CASE ~Leave(p)
    <3>1. draft' = [draft EXCEPT ![p] = e] /\ Goto(p, "hash_package")
          /\ UNCHANGED <<request, loaded, tmp>>
      BY <1>2, <2>2 DEF ReadResult
    <3>2. request[p] \in Request /\ request[p].kind \in AddKinds
      BY <1>2 DEF ReadResult, CallerOK, TypeOK
    <3>3. e \in Entry
      BY <3>2, RequestFields DEF Entry, TypeOK, Result
    <3>4. TypeOK'
      BY <1>2, <3>1, <3>3 DEF ReadResult, TypeOK, Goto, Labels
    <3>5. e # None /\ e.key = request[p].key
      BY <3>3
    <3> HIDE DEF e
    <3>6. CallerOK'
      BY <1>2, <3>1, <3>2, <3>5 DEF ReadResult, TypeOK, Goto, CallerOK
    <3> QED BY <3>4, <3>6
  <2> QED BY <2>1, <2>2
<1>3. ASSUME NEW p \in Procs, HashPackage(p) PROVE TypeInv'
  <2>1. CASE Leave(p)
    BY <1>3, <2>1, <1>left, LeaveType DEF HashPackage, TypeOK
  <2>2. CASE ~Leave(p)
    BY <1>3, <2>2 DEF HashPackage, TypeOK, CallerOK, Goto, Labels
  <2> QED BY <2>1, <2>2
<1>3a. ASSUME NEW p \in Procs, HashResult(p) PROVE TypeInv'
  <2>1. /\ draft' = [draft EXCEPT ![p].result = workspace[request[p].job].result]
        /\ Goto(p, "check_package")
        /\ UNCHANGED <<request, loaded, tmp>>
    BY <1>3a DEF HashResult
  <2>2. /\ request[p] \in Request
        /\ request[p].kind \in AddKinds
        /\ draft[p] \in Entry
        /\ draft[p].key = request[p].key
    BY <1>3a DEF HashResult, CallerOK, TypeOK
  <2>3. /\ draft'[p] \in Entry
        /\ draft'[p].key = request[p].key
        /\ draft' \in [Procs -> Entry \cup {None}]
        /\ \A q \in Procs : q # p => draft'[q] = draft[q]
    BY <2>1, <2>2, RequestFields, SMTT(30) DEF TypeOK, Entry
  <2>4. TypeOK'
    BY <1>3a, <2>1, <2>3 DEF HashResult, TypeOK, Goto, Labels
  <2>5. CallerOK'
    BY <1>3a, <2>1, <2>2, <2>3 DEF HashResult, TypeOK, Goto, CallerOK
  <2> QED BY <2>4, <2>5
<1>4. ASSUME NEW p \in Procs, CheckPackage(p) \/ CheckHash(p) \/ CheckResult(p)
      PROVE  TypeInv'
  <2>1. CASE Leave(p)
    BY <1>4, <2>1, <1>left, LeaveType DEF CheckPackage, CheckHash, CheckResult, TypeOK
  <2>2. CASE ~Leave(p)
    BY <1>4, <2>2
       DEF CheckPackage, CheckHash, CheckResult, TypeOK, CallerOK, Goto, Labels
  <2> QED BY <2>1, <2>2
<1>5. ASSUME NEW p \in Procs, Acquire(p) PROVE TypeInv'
  BY <1>5 DEF Acquire, TypeOK, CallerOK, Goto, Labels
<1>6. ASSUME NEW p \in Procs, Load(p) PROVE TypeInv'
  BY <1>6 DEF Load, TypeOK, CallerOK, Goto, Labels
<1>7. ASSUME NEW p \in Procs, FindDuplicate(p) PROVE TypeInv'
  <2>1. CASE Leave(p)
    BY <1>7, <2>1, <1>left, LeaveType DEF FindDuplicate, TypeOK
  <2>2. CASE ~Leave(p)
    <3>1. PICK e \in WithKey(loaded[p], request[p].key) :
              /\ draft' = [draft EXCEPT ![p] = e]
              /\ Goto(p, "return")
              /\ UNCHANGED <<request, loaded, tmp>>
      BY <1>7, <2>2 DEF FindDuplicate
    <3>2. e \in Entry /\ e.key = request[p].key /\ e # None
      BY <3>1 DEF WithKey, TypeOK
    <3>3. TypeOK'
      BY <1>7, <3>1, <3>2 DEF FindDuplicate, TypeOK, Goto, Labels
    <3>4. CallerOK'
      BY <1>7, <3>1, <3>2 DEF FindDuplicate, TypeOK, CallerOK, Goto
    <3> QED BY <3>3, <3>4
  <2> QED BY <2>1, <2>2
<1>8. ASSUME NEW p \in Procs, Append(p) PROVE TypeInv'
  <2>1. draft[p] \in Entry
    BY <1>8 DEF Append, CallerOK, TypeOK
  <2>2. TypeOK'
    BY <1>8, <2>1 DEF Append, TypeOK, Goto, Labels
  <2>3. CallerOK'
    BY <1>8 DEF Append, TypeOK, CallerOK, Goto
  <2> QED BY <2>2, <2>3
<1>9. ASSUME NEW p \in Procs, MarkEntry(p) PROVE TypeInv'
  <2>1. PICK e \in WithKey(loaded[p], request[p].key) :
            /\ loaded' = [loaded EXCEPT ![p] = (@ \ {e}) \cup {Marked(e, request[p].kind)}]
            /\ draft' = [draft EXCEPT ![p] = Marked(e, request[p].kind)]
    BY <1>9 DEF MarkEntry
  <2> DEFINE m == Marked(e, request[p].kind)
  <2>2. e \in Entry /\ e.key = request[p].key
    BY <2>1 DEF WithKey, TypeOK
  <2>3. m \in Entry /\ m.key = request[p].key /\ m # None
    BY <2>2, MarkedEntry
  <2> HIDE DEF m
  <2>4. TypeOK'
    BY <1>9, <2>1, <2>3 DEF MarkEntry, TypeOK, Goto, Labels, m
  <2>5. CallerOK'
    BY <1>9, <2>1, <2>3 DEF MarkEntry, TypeOK, CallerOK, Goto, m
  <2> QED BY <2>4, <2>5
<1>10. ASSUME NEW p \in Procs, EntryNotFound(p) PROVE TypeInv'
  BY <1>10, <1>left, LeaveType DEF EntryNotFound, TypeOK
<1>11. ASSUME NEW p \in Procs, AcquireToWrite(p) PROVE TypeInv'
  BY <1>11 DEF AcquireToWrite, TypeOK, CallerOK
<1>12. ASSUME NEW p \in Procs, WriteTmp(p) PROVE TypeInv'
  BY <1>12 DEF WriteTmp, TypeOK, CallerOK, Goto, Labels
<1>13. ASSUME NEW p \in Procs, Replace(p) PROVE TypeInv'
  BY <1>13 DEF Replace, TypeOK, CallerOK, Goto, Labels
<1>promised. ASSUME NEW p \in Procs, pc[p] \in {"return", "check_reuse"}
             PROVE  request[p].kind \in AddKinds \/ pc[p] = "check_reuse"
                       \/ request[p].kind \in MarkKinds
  BY <1>promised, RequestFields DEF CallerOK, TypeOK
<1>14. ASSUME NEW p \in Procs, Return(p) PROVE TypeInv'
  <2>1. request[p] \in Request /\ draft[p] \in Entry
    BY <1>14 DEF Return, CallerOK, TypeOK
  <2>2. CASE ~Leave(p)
    BY <1>14, <2>1, <2>2 DEF Return, TypeOK, CallerOK, Goto, Labels
  <2>3. CASE Leave(p)
    <3>1. Promised(p) \in Promise
      BY <2>1, RequestFields DEF Promised, Promise, Entry
    <3>2. promises' \subseteq Promise
      BY <1>14, <3>1 DEF Return, TypeOK
    <3> QED BY <1>14, <2>3, <3>2, <1>left, LeaveType DEF Return, TypeOK
  <2> QED BY <2>2, <2>3
<1>15. ASSUME NEW p \in Procs, Augment(p) PROVE TypeInv'
  <2>1. CASE Leave(p)
    BY <1>15, <2>1, <1>left, LeaveType DEF Augment, TypeOK
  <2>2. CASE ~Leave(p)
    <3> DEFINE u == [draft[p] EXCEPT !.linked = TRUE]
    <3>1. /\ draft[p] \in Entry /\ draft[p].key = request[p].key
          /\ request[p] \in Request /\ request[p].kind \in AddKinds
      BY <1>15 DEF Augment, CallerOK, TypeOK
    <3>2. u \in Entry /\ u.key = request[p].key /\ u # None
      BY <3>1 DEF Entry
    <3>3. /\ LastWriteOf(request[p]) \in Request
          /\ LastWriteOf(request[p]).kind = "add"
          /\ LastWriteOf(request[p]).key = request[p].key
          /\ LastWriteOf(request[p]) # None
      BY <3>1, RequestFields
    <3> HIDE DEF u
    <3>4. /\ loaded' = [loaded EXCEPT ![p] = {e \in store : e.key # draft[p].key} \cup {u}]
          /\ draft' = [draft EXCEPT ![p] = u]
          /\ request' = [request EXCEPT ![p] = LastWriteOf(request[p])]
          /\ Goto(p, "write")
          /\ UNCHANGED tmp
      BY <1>15, <2>2 DEF Augment, u
    <3>5. TypeOK'
      BY <1>15, <3>2, <3>3, <3>4 DEF Augment, TypeOK, Goto, Labels
    <3>6. CallerOK'
      BY <1>15, <3>2, <3>3, <3>4 DEF Augment, TypeOK, CallerOK, Goto
    <3> QED BY <3>5, <3>6
  <2> QED BY <2>1, <2>2
<1>16. ASSUME NEW p \in Procs, CheckReuse(p) PROVE TypeInv'
  <2>1. request[p] \in Request /\ request[p].kind \in MarkKinds
    BY <1>16 DEF CheckReuse, CallerOK, TypeOK
  <2>2. Promised(p) \in Promise
    BY <2>1, RequestFields DEF Promised, Promise
  <2>3. promises' \subseteq Promise
    BY <1>16, <2>2 DEF CheckReuse, TypeOK
  <2> QED BY <1>16, <2>3, <1>left, LeaveType DEF CheckReuse, TypeOK
<1>17. ASSUME NEW p \in Procs, Abort(p) PROVE TypeInv'
  BY <1>17, <1>left, LeaveType DEF Abort, TypeOK
<1>18. ASSUME NEW j \in Jobs, RewritePackage(j) PROVE TypeInv'
  BY <1>18 DEF RewritePackage, TypeOK, CallerOK
<1>19. ASSUME NEW j \in Jobs, RunVerifier(j) PROVE TypeInv'
  <2>1. \A p \in Between(j) : draft[p] \in Entry
    BY DEF Between, CallerOK, TypeOK
  <2>2. replaced' \subseteq Jobs \X Result
    BY <1>19, <2>1 DEF RunVerifier, TypeOK, Entry
  <2>3. CallerOK'
    BY <1>19 DEF RunVerifier, CallerOK
  <2>4. TypeOK'
    BY <1>19, <2>2 DEF RunVerifier, TypeOK, Result
  <2> QED BY <2>3, <2>4
<1>20. CASE UNCHANGED vars
  BY <1>20 DEF vars, TypeOK, CallerOK
<1> QED
  BY <1>1, <1>2, <1>3, <1>3a, <1>4, <1>5, <1>6, <1>7, <1>8, <1>9, <1>10, <1>11,
     <1>12, <1>13, <1>14, <1>15, <1>16, <1>17, <1>18, <1>19, <1>20 DEF Next, Step

(* Every variable keeps its type in every behaviour.                          *)
THEOREM TypeCorrect == Spec => []TypeOK
<1>1. Spec => []TypeInv
  BY TypeInit, TypeStep, PTL DEF Spec
<1> QED
  BY <1>1, PTL DEF TypeInv
-----------------------------------------------------------------------------
(* The invariant behind the two safety properties of the file: every list a   *)
(* caller holds has distinct keys, and every entry anyone holds was passed.   *)

Distinct(entries) == \A e, f \in entries : e.key = f.key => e = f

DistinctKeys ==
    /\ Distinct(store)
    /\ \A p \in Procs : Distinct(loaded[p]) /\ Distinct(tmp[p])

Backed(e) == <<e.job, e.package>> \in passedOn

AllBacked ==
    /\ \A e \in store : Backed(e)
    /\ \A p \in Procs : \A e \in loaded[p] \cup tmp[p] : Backed(e)
    /\ \A p \in Procs : draft[p] # None => Backed(draft[p])
    /\ \A j \in Jobs : workspace[j].result.status = "passed"
                          => <<j, workspace[j].result.package>> \in passedOn

(* From the hash of the result on, the file still holds it or a verifier run  *)
(* is known to have replaced it; once it was parsed, the entry stays certified*)
(* but for such a run.                                                        *)
Replaced(e) == <<e.job, e.result>> \in replaced

Sure(e) == Replaced(e) \/ Certified(e)

OnFile(e) == workspace[e.job].result = e.result \/ Replaced(e)

AllCertified ==
    /\ \A e \in store : Sure(e)
    /\ \A p \in Procs : \A e \in loaded[p] \cup tmp[p] : Sure(e)
    /\ \A p \in Procs :
          /\ pc[p] = "check_result" => OnFile(draft[p])
          /\ pc[p] \in {"write", "replace", "return", "augment"} => Sure(draft[p])
          /\ pc[p] \in {"acquire", "load", "decide"} /\ request[p].kind \in AddKinds
                => Sure(draft[p])

FileInv == TypeInv /\ DistinctKeys /\ AllBacked /\ AllCertified

THEOREM FileInit == Init => FileInv
<1> SUFFICES ASSUME Init PROVE FileInv
  OBVIOUS
<1>1. TypeInv
  BY TypeInit
<1>2. DistinctKeys
  BY DEF Init, DistinctKeys, Distinct
<1>3. \A j \in Jobs : workspace[j].result.status = "missing"
  BY DEF Init
<1>4. AllBacked
  BY <1>3 DEF Init, AllBacked
<1>5. AllCertified
  BY DEF Init, AllCertified
<1> QED BY <1>1, <1>2, <1>4, <1>5 DEF FileInv

(* Leaving a call forgets the lists the caller held.                          *)
LEMMA LeaveForgets ==
    ASSUME TypeOK, NEW p \in Procs, Leave(p)
    PROVE  /\ draft'[p] = None /\ loaded'[p] = {} /\ tmp'[p] = {}
           /\ \A q \in Procs : q # p => /\ draft'[q] = draft[q]
                                       /\ loaded'[q] = loaded[q]
                                       /\ tmp'[q] = tmp[q]
BY DEF TypeOK, Leave

LEMMA CertifiedStep == TypeInv /\ AllCertified /\ [Next]_vars => AllCertified'
<1> SUFFICES ASSUME TypeInv, AllCertified, [Next]_vars PROVE AllCertified'
  OBVIOUS
<1> USE RegistryAssumption DEF TypeInv
<1>out. ASSUME NEW p \in Procs, NEW l, Goto(p, l),
               l \notin {"check_result", "write", "replace", "return", "augment",
                         "acquire", "load", "decide"},
               \A q \in Procs : q # p => draft'[q] = draft[q] /\ request'[q] = request[q],
               \A q \in Procs : loaded'[q] \in {loaded[q], {}} /\ tmp'[q] \in {tmp[q], {}},
               UNCHANGED <<store, workspace, replaced>>
        PROVE  AllCertified'
  <2>1. pc'[p] = l /\ \A q \in Procs : q # p => pc'[q] = pc[q]
    BY <1>out DEF Goto, TypeOK
  <2> QED BY <1>out, <2>1 DEF AllCertified, Sure, Replaced, OnFile, Certified
<1>left. ASSUME NEW p \in Procs, Leave(p), UNCHANGED <<store, workspace, replaced>>
         PROVE  AllCertified'
  <2>1. \A q \in Procs : loaded'[q] \in {loaded[q], {}} /\ tmp'[q] \in {tmp[q], {}}
    BY <1>left, LeaveForgets
  <2> QED BY <1>left, <2>1, <1>out DEF Leave, TypeOK
<1>goto. ASSUME NEW p \in Procs, NEW l, Goto(p, l),
                l \in {"write", "replace", "return", "augment", "acquire", "load", "decide"},
                Sure(draft'[p]) \/ (request[p].kind \notin AddKinds /\ l \in {"load", "decide"}),
                request' = request,
                \A q \in Procs : q # p => draft'[q] = draft[q],
                UNCHANGED <<store, loaded, tmp, workspace, replaced>>
         PROVE  AllCertified'
  <2>1. pc'[p] = l /\ \A q \in Procs : q # p => pc'[q] = pc[q]
    BY <1>goto DEF Goto, TypeOK
  <2> QED BY <1>goto, <2>1 DEF AllCertified, Sure, Replaced, OnFile, Certified
<1>1. ASSUME NEW p \in Procs, Call(p) PROVE AllCertified'
  <2>1. PICK r \in Request :
            /\ request' = [request EXCEPT ![p] = r]
            /\ Goto(p, IF r.kind \in AddKinds THEN "read_result" ELSE "acquire")
    BY <1>1 DEF Call
  <2>2. /\ request'[p] = r
        /\ \A q \in Procs : q # p => request'[q] = request[q] /\ pc'[q] = pc[q]
        /\ pc'[p] = (IF r.kind \in AddKinds THEN "read_result" ELSE "acquire")
    BY <2>1 DEF Goto, TypeOK
  <2> QED BY <1>1, <2>2 DEF Call, AllCertified, Sure, Replaced, OnFile, Certified
<1>2. ASSUME NEW p \in Procs, ReadResult(p) PROVE AllCertified'
  <2>1. CASE Leave(p)
    BY <1>2, <2>1, <1>left DEF ReadResult
  <2>2. CASE ~Leave(p)
    <3>1. /\ Goto(p, "hash_package")
          /\ UNCHANGED <<store, request, loaded, tmp, workspace, replaced>>
          /\ \A q \in Procs : q # p => draft'[q] = draft[q]
      BY <1>2, <2>2 DEF ReadResult, TypeOK
    <3> QED BY <3>1, <1>out
  <2> QED BY <2>1, <2>2
<1>3. ASSUME NEW p \in Procs, HashPackage(p) \/ CheckPackage(p) PROVE AllCertified'
  BY <1>3, <1>left, <1>out DEF HashPackage, CheckPackage
<1>3a. ASSUME NEW p \in Procs, HashResult(p) PROVE AllCertified'
  <2>1. /\ Goto(p, "check_package")
        /\ UNCHANGED <<store, request, loaded, tmp, workspace, replaced>>
        /\ \A q \in Procs : q # p => draft'[q] = draft[q]
    BY <1>3a DEF HashResult, TypeOK
  <2> QED BY <2>1, <1>out
<1>4a. ASSUME NEW p \in Procs, CheckHash(p) PROVE AllCertified'
  <2>1. CASE Leave(p)
    BY <1>4a, <2>1, <1>left DEF CheckHash
  <2>2. CASE ~Leave(p)
    <3>1. /\ pc'[p] = "check_result" /\ OnFile(draft[p])
          /\ \A q \in Procs : q # p => pc'[q] = pc[q]
      BY <1>4a, <2>2 DEF CheckHash, OnFile, Goto, TypeOK
    <3> QED BY <1>4a, <2>2, <3>1
            DEF CheckHash, AllCertified, Sure, Replaced, OnFile, Certified
  <2> QED BY <2>1, <2>2
<1>4. ASSUME NEW p \in Procs, CheckResult(p) PROVE AllCertified'
  <2>1. CASE Leave(p)
    BY <1>4, <2>1, <1>left DEF CheckResult
  <2>2. CASE ~Leave(p)
    <3>1. draft[p] \in Entry /\ OnFile(draft[p])
      BY <1>4 DEF CheckResult, CallerOK, TypeOK, AllCertified
    <3>2. ResultSupports(draft[p], workspace[draft[p].job].result)
      BY <1>4, <2>2 DEF CheckResult
    <3>3. Sure(draft[p])
      BY <3>1, <3>2 DEF ResultSupports, OnFile, Sure, Replaced, Certified, Entry, Result
    <3>4. Sure(draft'[p])
      BY <1>4, <2>2, <3>3 DEF CheckResult, Sure, Replaced, Certified
    <3> QED BY <1>4, <2>2, <3>4, <1>goto DEF CheckResult
  <2> QED BY <2>1, <2>2
<1>5. ASSUME NEW p \in Procs, Acquire(p) PROVE AllCertified'
  BY <1>5, <1>goto DEF Acquire, AllCertified
<1>6. ASSUME NEW p \in Procs, Load(p) PROVE AllCertified'
  <2>1. /\ pc'[p] = "decide" /\ loaded'[p] = store
        /\ \A q \in Procs : q # p => pc'[q] = pc[q] /\ loaded'[q] = loaded[q]
    BY <1>6 DEF Load, Goto, TypeOK
  <2> QED BY <1>6, <2>1 DEF Load, AllCertified, Sure, Replaced, OnFile, Certified
<1>7. ASSUME NEW p \in Procs, FindDuplicate(p) PROVE AllCertified'
  <2>1. CASE Leave(p)
    BY <1>7, <2>1, <1>left DEF FindDuplicate
  <2>2. CASE ~Leave(p)
    <3>1. PICK e \in WithKey(loaded[p], request[p].key) :
              /\ draft' = [draft EXCEPT ![p] = e]
              /\ Goto(p, "return")
              /\ UNCHANGED <<store, request, loaded, tmp, workspace, replaced>>
      BY <1>7, <2>2 DEF FindDuplicate
    <3>2. Sure(e)
      BY <3>1 DEF WithKey, AllCertified
    <3>3. draft'[p] = e /\ \A q \in Procs : q # p => draft'[q] = draft[q]
      BY <3>1 DEF TypeOK
    <3> QED BY <3>1, <3>2, <3>3, <1>goto DEF Sure, Replaced, Certified
  <2> QED BY <2>1, <2>2
<1>8. ASSUME NEW p \in Procs, Append(p) PROVE AllCertified'
  <2>1. Sure(draft[p])
    BY <1>8 DEF Append, AllCertified
  <2>2. /\ loaded'[p] = loaded[p] \cup {draft[p]}
        /\ pc'[p] = "write"
        /\ \A q \in Procs : q # p => loaded'[q] = loaded[q] /\ pc'[q] = pc[q]
    BY <1>8 DEF Append, Goto, TypeOK
  <2> QED BY <1>8, <2>1, <2>2 DEF Append, AllCertified, Sure, Replaced, OnFile, Certified
<1>9. ASSUME NEW p \in Procs, MarkEntry(p) PROVE AllCertified'
  <2>1. PICK e \in WithKey(loaded[p], request[p].key) :
            /\ loaded' = [loaded EXCEPT ![p] = (@ \ {e}) \cup {Marked(e, request[p].kind)}]
            /\ draft' = [draft EXCEPT ![p] = Marked(e, request[p].kind)]
    BY <1>9 DEF MarkEntry
  <2> DEFINE m == Marked(e, request[p].kind)
  <2>2. e \in Entry /\ Sure(e)
    BY <2>1 DEF WithKey, TypeOK, AllCertified
  <2>3. Sure(m)
    BY <2>2, MarkedEntry DEF Sure, Replaced, Certified
  <2>4. /\ loaded'[p] = (loaded[p] \ {e}) \cup {m} /\ draft'[p] = m /\ pc'[p] = "write"
        /\ \A q \in Procs : q # p => /\ loaded'[q] = loaded[q] /\ draft'[q] = draft[q]
                                    /\ pc'[q] = pc[q]
        /\ UNCHANGED <<store, request, tmp, workspace, replaced>>
    BY <1>9, <2>1 DEF MarkEntry, Goto, TypeOK
  <2> HIDE DEF m
  <2> QED BY <2>3, <2>4 DEF AllCertified, Sure, Replaced, OnFile, Certified
<1>10. ASSUME NEW p \in Procs, EntryNotFound(p) \/ CheckReuse(p) \/ Abort(p)
       PROVE  AllCertified'
  BY <1>10, <1>left DEF EntryNotFound, CheckReuse, Abort
<1>11. ASSUME NEW p \in Procs, AcquireToWrite(p) PROVE AllCertified'
  BY <1>11 DEF AcquireToWrite, AllCertified, Sure, Replaced, OnFile, Certified
<1>12. ASSUME NEW p \in Procs, WriteTmp(p) PROVE AllCertified'
  <2>1. /\ pc'[p] = "replace" /\ tmp'[p] = loaded[p] /\ pc[p] = "write"
        /\ \A q \in Procs : q # p => pc'[q] = pc[q] /\ tmp'[q] = tmp[q]
    BY <1>12 DEF WriteTmp, Goto, TypeOK
  <2> QED BY <1>12, <2>1 DEF WriteTmp, AllCertified, Sure, Replaced, OnFile, Certified
<1>13. ASSUME NEW p \in Procs, Replace(p) PROVE AllCertified'
  <2>1. /\ pc'[p] = "return" /\ store' = tmp[p] /\ pc[p] = "replace"
        /\ \A q \in Procs : q # p => pc'[q] = pc[q]
    BY <1>13 DEF Replace, Goto, TypeOK
  <2> QED BY <1>13, <2>1 DEF Replace, AllCertified, Sure, Replaced, OnFile, Certified
<1>14. ASSUME NEW p \in Procs, Return(p) PROVE AllCertified'
  <2>1. Sure(draft[p])
    BY <1>14 DEF Return, AllCertified
  <2> QED BY <1>14, <2>1, <1>left, <1>goto, <1>out DEF Return
<1>15. ASSUME NEW p \in Procs, Augment(p) PROVE AllCertified'
  <2>1. CASE Leave(p)
    BY <1>15, <2>1, <1>left DEF Augment
  <2>2. CASE ~Leave(p)
    <3> DEFINE u == [draft[p] EXCEPT !.linked = TRUE]
    <3>1. draft[p] \in Entry /\ Sure(draft[p])
      BY <1>15 DEF Augment, CallerOK, TypeOK, AllCertified
    <3>2. Sure(u)
      BY <3>1 DEF Entry, Sure, Replaced, Certified
    <3> HIDE DEF u
    <3>3. /\ loaded' = [loaded EXCEPT ![p] = {e \in store : e.key # draft[p].key} \cup {u}]
          /\ draft' = [draft EXCEPT ![p] = u]
          /\ \E x : request' = [request EXCEPT ![p] = x]
          /\ Goto(p, "write")
          /\ UNCHANGED <<store, tmp, workspace, replaced>>
      BY <1>15, <2>2 DEF Augment, u
    <3>4. /\ loaded'[p] = {e \in store : e.key # draft[p].key} \cup {u}
          /\ draft'[p] = u
          /\ pc'[p] = "write"
          /\ \A q \in Procs : q # p => /\ loaded'[q] = loaded[q] /\ draft'[q] = draft[q]
                                      /\ request'[q] = request[q] /\ pc'[q] = pc[q]
      BY <3>3 DEF Goto, TypeOK
    <3> QED BY <3>2, <3>3, <3>4 DEF AllCertified, Sure, Replaced, OnFile, Certified
  <2> QED BY <2>1, <2>2
<1>16. ASSUME NEW j \in Jobs, RewritePackage(j) PROVE AllCertified'
  <2>1. \A i \in Jobs : workspace'[i].result = workspace[i].result
    BY <1>16 DEF RewritePackage, TypeOK
  <2>2. \A p \in Procs : pc[p] = "check_result" => draft[p].job \in Jobs
    BY DEF CallerOK, TypeOK, Entry
  <2> QED BY <1>16, <2>1, <2>2
          DEF RewritePackage, AllCertified, Sure, Replaced, OnFile, Certified
<1>16a. ASSUME NEW j \in Jobs, RunVerifier(j) PROVE AllCertified'
  <2>1. /\ replaced \subseteq replaced'
        /\ \A p \in Procs : pc[p] = "check_result" /\ draft[p].job = j
              => <<draft[p].job, draft[p].result>> \in replaced'
        /\ \A i \in Jobs \ {j} : workspace'[i] = workspace[i]
        /\ UNCHANGED <<store, pc, request, draft, loaded, tmp>>
    BY <1>16a DEF RunVerifier, Between, TypeOK
  <2>2. \A p \in Procs : pc[p] = "check_result" => draft[p].job \in Jobs
    BY DEF CallerOK, TypeOK, Entry
  <2>3. \A e : Sure(e) => Sure(e)'
    BY <2>1 DEF Sure, Replaced, Certified
  <2>4. \A p \in Procs : pc'[p] = "check_result" => OnFile(draft[p])'
    BY <2>1, <2>2 DEF AllCertified, OnFile, Replaced
  <2> QED BY <2>1, <2>3, <2>4 DEF AllCertified
<1>17. CASE UNCHANGED vars
  BY <1>17 DEF vars, AllCertified, Sure, Replaced, OnFile, Certified
<1> QED
  BY <1>1, <1>2, <1>3, <1>3a, <1>4, <1>4a, <1>5, <1>6, <1>7, <1>8, <1>9, <1>10, <1>11,
     <1>12, <1>13, <1>14, <1>15, <1>16, <1>16a, <1>17 DEF Next, Step

THEOREM FileStep == FileInv /\ [Next]_vars => FileInv'
<1> SUFFICES ASSUME FileInv, [Next]_vars PROVE DistinctKeys' /\ AllBacked'
  BY TypeStep, CertifiedStep DEF FileInv
<1> USE RegistryAssumption DEF FileInv, TypeInv
<1>left. ASSUME NEW p \in Procs, Leave(p), UNCHANGED <<store, workspace, passedOn>>
         PROVE  DistinctKeys' /\ AllBacked'
  BY <1>left, LeaveForgets DEF DistinctKeys, Distinct, AllBacked, Backed
<1>same. ASSUME UNCHANGED <<store, workspace, passedOn, draft, loaded, tmp>>
         PROVE  DistinctKeys' /\ AllBacked'
  BY <1>same DEF DistinctKeys, Distinct, AllBacked, Backed
<1>1. ASSUME NEW p \in Procs, Call(p) PROVE DistinctKeys' /\ AllBacked'
  BY <1>1, <1>same DEF Call
<1>2. ASSUME NEW p \in Procs, ReadResult(p) PROVE DistinctKeys' /\ AllBacked'
  <2>1. CASE Leave(p)
    BY <1>2, <2>1, <1>left DEF ReadResult
  <2>2. CASE ~Leave(p)
    <3>1. /\ workspace[request[p].job].result.status = "passed"
          /\ draft'[p].job = request[p].job
          /\ draft'[p].package = workspace[request[p].job].result.package
          /\ \A q \in Procs : q # p => draft'[q] = draft[q]
          /\ UNCHANGED <<store, loaded, tmp, workspace, passedOn>>
      BY <1>2, <2>2 DEF ReadResult, TypeOK
    <3>2. request[p].job \in Jobs
      BY <1>2, RequestFields DEF ReadResult, CallerOK, TypeOK
    <3>3. DistinctKeys'
      BY <3>1 DEF DistinctKeys, Distinct
    <3>4. AllBacked'
      BY <3>1, <3>2 DEF AllBacked, Backed
    <3> QED BY <3>3, <3>4
  <2> QED BY <2>1, <2>2
<1>3. ASSUME NEW p \in Procs, HashResult(p) PROVE DistinctKeys' /\ AllBacked'
  <2>1. draft[p] \in Entry /\ draft[p] # None
    BY <1>3 DEF HashResult, CallerOK, TypeOK
  <2>2. /\ draft' = [draft EXCEPT ![p].result = workspace[request[p].job].result]
        /\ UNCHANGED <<store, loaded, tmp, workspace, passedOn>>
    BY <1>3 DEF HashResult
  <2>3. /\ draft'[p].job = draft[p].job /\ draft'[p].package = draft[p].package
        /\ \A q \in Procs : q # p => draft'[q] = draft[q]
    BY <2>1, <2>2 DEF TypeOK, Entry
  <2>4. DistinctKeys'
    BY <2>2 DEF DistinctKeys, Distinct
  <2>5. AllBacked'
    BY <2>1, <2>2, <2>3 DEF AllBacked, Backed
  <2> QED BY <2>4, <2>5
<1>4. ASSUME NEW p \in Procs,
             HashPackage(p) \/ CheckPackage(p) \/ CheckHash(p) \/ CheckResult(p)
      PROVE  DistinctKeys' /\ AllBacked'
  BY <1>4, <1>left, <1>same DEF HashPackage, CheckPackage, CheckHash, CheckResult
<1>5. ASSUME NEW p \in Procs, Acquire(p) \/ AcquireToWrite(p)
      PROVE  DistinctKeys' /\ AllBacked'
  BY <1>5, <1>same DEF Acquire, AcquireToWrite
<1>6. ASSUME NEW p \in Procs, Load(p) PROVE DistinctKeys' /\ AllBacked'
  BY <1>6 DEF Load, TypeOK, DistinctKeys, Distinct, AllBacked, Backed
<1>7. ASSUME NEW p \in Procs, FindDuplicate(p) PROVE DistinctKeys' /\ AllBacked'
  <2>1. CASE Leave(p)
    BY <1>7, <2>1, <1>left DEF FindDuplicate
  <2>2. CASE ~Leave(p)
    <3>1. PICK e \in WithKey(loaded[p], request[p].key) :
              /\ draft' = [draft EXCEPT ![p] = e]
              /\ UNCHANGED <<store, loaded, tmp, workspace, passedOn>>
      BY <1>7, <2>2 DEF FindDuplicate
    <3>2. Backed(e)
      BY <3>1 DEF WithKey, AllBacked
    <3> QED BY <3>1, <3>2 DEF TypeOK, DistinctKeys, Distinct, AllBacked, Backed
  <2> QED BY <2>1, <2>2
<1>8. ASSUME NEW p \in Procs, Append(p) PROVE DistinctKeys' /\ AllBacked'
  <2>1. draft[p] # None /\ draft[p].key = request[p].key
    BY <1>8 DEF Append, CallerOK
  <2>2. /\ loaded'[p] = loaded[p] \cup {draft[p]}
        /\ \A q \in Procs : q # p => loaded'[q] = loaded[q]
        /\ \A e \in loaded[p] : e.key # draft[p].key
        /\ UNCHANGED <<store, draft, tmp, workspace, passedOn>>
    BY <1>8, <2>1 DEF Append, TypeOK, WithKey
  <2>3. DistinctKeys'
    BY <2>2 DEF DistinctKeys, Distinct
  <2>4. AllBacked'
    BY <2>1, <2>2 DEF AllBacked, Backed
  <2> QED BY <2>3, <2>4
<1>9. ASSUME NEW p \in Procs, MarkEntry(p) PROVE DistinctKeys' /\ AllBacked'
  <2>1. PICK e \in WithKey(loaded[p], request[p].key) :
            /\ loaded' = [loaded EXCEPT ![p] = (@ \ {e}) \cup {Marked(e, request[p].kind)}]
            /\ draft' = [draft EXCEPT ![p] = Marked(e, request[p].kind)]
    BY <1>9 DEF MarkEntry
  <2> DEFINE m == Marked(e, request[p].kind)
  <2>2. e \in Entry /\ e \in loaded[p]
    BY <2>1 DEF WithKey, TypeOK
  <2>3. m.key = e.key /\ m.job = e.job /\ m.package = e.package
    BY <2>2, MarkedEntry
  <2>4. /\ loaded'[p] = (loaded[p] \ {e}) \cup {m}
        /\ draft'[p] = m
        /\ \A q \in Procs : q # p => loaded'[q] = loaded[q] /\ draft'[q] = draft[q]
        /\ UNCHANGED <<store, tmp, workspace, passedOn>>
    BY <1>9, <2>1 DEF MarkEntry, TypeOK
  <2> HIDE DEF m
  <2>5. DistinctKeys'
    BY <2>2, <2>3, <2>4 DEF DistinctKeys, Distinct
  <2>6. AllBacked'
    BY <2>2, <2>3, <2>4 DEF AllBacked, Backed
  <2> QED BY <2>5, <2>6
<1>10. ASSUME NEW p \in Procs, EntryNotFound(p) PROVE DistinctKeys' /\ AllBacked'
  BY <1>10, <1>left DEF EntryNotFound
<1>11. ASSUME NEW p \in Procs, WriteTmp(p) PROVE DistinctKeys' /\ AllBacked'
  BY <1>11 DEF WriteTmp, TypeOK, DistinctKeys, Distinct, AllBacked, Backed
<1>12. ASSUME NEW p \in Procs, Replace(p) PROVE DistinctKeys' /\ AllBacked'
  BY <1>12 DEF Replace, DistinctKeys, Distinct, AllBacked, Backed
<1>13. ASSUME NEW p \in Procs, Return(p) PROVE DistinctKeys' /\ AllBacked'
  BY <1>13, <1>left, <1>same DEF Return
<1>14. ASSUME NEW p \in Procs, Augment(p) PROVE DistinctKeys' /\ AllBacked'
  <2>1. CASE Leave(p)
    BY <1>14, <2>1, <1>left DEF Augment
  <2>2. CASE ~Leave(p)
    <3> DEFINE u == [draft[p] EXCEPT !.linked = TRUE]
    <3>1. draft[p] \in Entry /\ draft[p] # None
      BY <1>14 DEF Augment, CallerOK, TypeOK
    <3>2. u.key = draft[p].key /\ u.job = draft[p].job /\ u.package = draft[p].package
      BY <3>1 DEF Entry
    <3> HIDE DEF u
    <3>3. /\ loaded' = [loaded EXCEPT ![p] = {e \in store : e.key # draft[p].key} \cup {u}]
          /\ draft' = [draft EXCEPT ![p] = u]
          /\ UNCHANGED <<store, tmp, workspace, passedOn>>
      BY <1>14, <2>2 DEF Augment, u
    <3>4. /\ loaded'[p] = {e \in store : e.key # draft[p].key} \cup {u}
          /\ draft'[p] = u
          /\ \A q \in Procs : q # p => loaded'[q] = loaded[q] /\ draft'[q] = draft[q]
      BY <3>3 DEF TypeOK
    <3>5. DistinctKeys'
      BY <3>2, <3>3, <3>4 DEF DistinctKeys, Distinct
    <3>6. AllBacked'
      BY <3>1, <3>2, <3>3, <3>4 DEF AllBacked, Backed
    <3> QED BY <3>5, <3>6
  <2> QED BY <2>1, <2>2
<1>15. ASSUME NEW p \in Procs, CheckReuse(p) PROVE DistinctKeys' /\ AllBacked'
  BY <1>15, <1>left DEF CheckReuse
<1>16. ASSUME NEW p \in Procs, Abort(p) PROVE DistinctKeys' /\ AllBacked'
  BY <1>16, <1>left DEF Abort
<1>17. ASSUME NEW j \in Jobs, RewritePackage(j) PROVE DistinctKeys' /\ AllBacked'
  <2>1. /\ \A i \in Jobs : workspace'[i].result = workspace[i].result
        /\ UNCHANGED <<store, draft, loaded, tmp, passedOn>>
    BY <1>17 DEF RewritePackage, TypeOK
  <2> QED BY <2>1 DEF DistinctKeys, Distinct, AllBacked, Backed
<1>18. ASSUME NEW j \in Jobs, RunVerifier(j) PROVE DistinctKeys' /\ AllBacked'
  <2>1. PICK outcome \in {"passed", "failed"} :
          /\ workspace' = [workspace EXCEPT ![j].result =
                [package |-> workspace[j].package, status |-> outcome]]
          /\ passedOn' = IF outcome = "passed"
                         THEN passedOn \cup {<<j, workspace[j].package>>}
                         ELSE passedOn
    BY <1>18 DEF RunVerifier
  <2>2. /\ workspace'[j].result = [package |-> workspace[j].package, status |-> outcome]
        /\ \A i \in Jobs : i # j => workspace'[i] = workspace[i]
    BY <2>1 DEF TypeOK
  <2>3. passedOn \subseteq passedOn'
    BY <2>1
  <2>4. \A i \in Jobs : workspace'[i].result.status = "passed"
                          => <<i, workspace'[i].result.package>> \in passedOn'
    BY <2>1, <2>2, <2>3 DEF AllBacked
  <2> QED BY <1>18, <2>3, <2>4 DEF RunVerifier, DistinctKeys, Distinct, AllBacked, Backed
<1>19. CASE UNCHANGED vars
  BY <1>19, <1>same DEF vars
<1> QED
  BY <1>1, <1>2, <1>3, <1>4, <1>5, <1>6, <1>7, <1>8, <1>9, <1>10, <1>11, <1>12,
     <1>13, <1>14, <1>15, <1>16, <1>17, <1>18, <1>19 DEF Next, Step

(* No file ever holds two entries of one version, whatever the callers do:    *)
(* the unlocked read of the feedback manager can lose an update, it cannot    *)
(* duplicate a key.                                                           *)
THEOREM UniqueVersions == Spec => []OneEntryPerKey
<1>1. FileInv => OneEntryPerKey
  BY DEF FileInv, DistinctKeys, Distinct, OneEntryPerKey
<1> QED
  BY <1>1, FileInit, FileStep, PTL DEF Spec

(* Every registered package is one the verifier passed for its job, although  *)
(* the workspace is read without a lock and may change at any point; and the  *)
(* result recorded for it is a passed one of that package, unless a verifier  *)
(* run replaced that result between the hash and the parse of verify_entry.   *)
THEOREM OnlyVerifiedRegistered == Spec => []OnlyPassedPackages
<1>1. FileInv => OnlyPassedPackages
  BY DEF FileInv, AllBacked, Backed, AllCertified, Sure, Replaced, OnlyPassedPackages
<1> QED
  BY <1>1, FileInit, FileStep, PTL DEF Spec

-----------------------------------------------------------------------------
(* Without the feedback manager's registration, whose write is the only one   *)
(* that does not read the file under the lock, the registry is atomic and     *)
(* keeps every promise.                                                       *)

NoFeedback == "register_repaired" \notin Kinds

(* One atomic change of the file, as the contract allows it.                  *)
Appends(S, T) ==
    \E e \in Entry :
        /\ \A a \in S : a.key # e.key
        /\ e.approval = "approved"
        /\ e.quarantine = "none"
        /\ T = S \cup {e}

Marks(S, T) ==
    \E a \in S :
        \/ T = (S \ {a}) \cup {[a EXCEPT !.approval = "rejected"]}
        \/ T = (S \ {a}) \cup {[a EXCEPT !.quarantine = "quarantined"]}

Change(S, T) == Appends(S, T) \/ Marks(S, T)

(* Whoever is between the locked read and the rename holds the lock, and what *)
(* it is about to publish is one change of what the file still holds.         *)
LockedSection ==
    \A p \in Procs :
        /\ pc[p] \in {"load", "decide", "write", "replace"} => lock = p
        /\ pc[p] = "decide" => loaded[p] = store
        /\ pc[p] = "write" => Change(store, loaded[p])
        /\ pc[p] = "replace" => Change(store, tmp[p])

(* An entry on its way to the file is approved and in force.                  *)
Fresh(e) == e.approval = "approved" /\ e.quarantine = "none"

FreshDrafts ==
    \A p \in Procs :
        /\ pc[p] \in {"hash_package", "hash_result", "check_package", "check_hash",
                      "check_result"}
              => Fresh(draft[p])
        /\ pc[p] \in {"acquire", "load", "decide"} /\ request[p].kind \in AddKinds
              => Fresh(draft[p])

PlainCalls ==
    \A p \in Procs :
        /\ pc[p] # "augment"
        /\ pc[p] # "idle" => request[p].kind # "register_repaired"

AtomicInv == TypeInv /\ PlainCalls /\ LockedSection /\ FreshDrafts

LEMMA AtomicInit == Init => AtomicInv
<1> SUFFICES ASSUME Init PROVE AtomicInv
  OBVIOUS
<1>1. TypeInv
  BY TypeInit
<1>2. \A p \in Procs : pc[p] = "idle"
  BY DEF Init
<1> QED
  BY <1>1, <1>2 DEF AtomicInv, PlainCalls, LockedSection, FreshDrafts

LEMMA PlainStep == NoFeedback /\ TypeInv /\ PlainCalls /\ [Next]_vars => PlainCalls'
<1> SUFFICES ASSUME NoFeedback, TypeInv, PlainCalls, [Next]_vars PROVE PlainCalls'
  OBVIOUS
<1> USE DEF TypeInv
<1>left. ASSUME NEW p \in Procs, Leave(p) PROVE PlainCalls'
  BY <1>left DEF Leave, Goto, PlainCalls, TypeOK
<1>goto. ASSUME NEW p \in Procs, NEW l, l # "augment", Goto(p, l), UNCHANGED request,
                pc[p] # "idle"
         PROVE  PlainCalls'
  BY <1>goto DEF Goto, PlainCalls, TypeOK
<1>1. ASSUME NEW p \in Procs, Call(p) PROVE PlainCalls'
  <2>1. PICK r \in Request :
            /\ r.kind \in Kinds
            /\ request' = [request EXCEPT ![p] = r]
            /\ Goto(p, IF r.kind \in AddKinds THEN "read_result" ELSE "acquire")
    BY <1>1 DEF Call
  <2> QED BY <2>1 DEF NoFeedback, PlainCalls, Goto, TypeOK
<1>2. ASSUME NEW p \in Procs, ReadResult(p) PROVE PlainCalls'
  BY <1>2, <1>left, <1>goto DEF ReadResult
<1>3. ASSUME NEW p \in Procs, HashPackage(p) \/ HashResult(p) PROVE PlainCalls'
  BY <1>3, <1>left, <1>goto DEF HashPackage, HashResult
<1>4. ASSUME NEW p \in Procs, CheckPackage(p) \/ CheckHash(p) \/ CheckResult(p)
      PROVE  PlainCalls'
  BY <1>4, <1>left, <1>goto DEF CheckPackage, CheckHash, CheckResult
<1>5. ASSUME NEW p \in Procs, Acquire(p) PROVE PlainCalls'
  BY <1>5, <1>goto DEF Acquire
<1>6. ASSUME NEW p \in Procs, Load(p) PROVE PlainCalls'
  BY <1>6, <1>goto DEF Load
<1>7. ASSUME NEW p \in Procs, FindDuplicate(p) PROVE PlainCalls'
  BY <1>7, <1>left, <1>goto DEF FindDuplicate
<1>8. ASSUME NEW p \in Procs, Append(p) PROVE PlainCalls'
  BY <1>8, <1>goto DEF Append
<1>9. ASSUME NEW p \in Procs, MarkEntry(p) PROVE PlainCalls'
  BY <1>9, <1>goto DEF MarkEntry
<1>10. ASSUME NEW p \in Procs, EntryNotFound(p) \/ CheckReuse(p) \/ Abort(p)
       PROVE  PlainCalls'
  BY <1>10, <1>left DEF EntryNotFound, CheckReuse, Abort
<1>11. ASSUME NEW p \in Procs, AcquireToWrite(p) PROVE PlainCalls'
  BY <1>11 DEF AcquireToWrite, PlainCalls
<1>12. ASSUME NEW p \in Procs, WriteTmp(p) PROVE PlainCalls'
  BY <1>12, <1>goto DEF WriteTmp
<1>13. ASSUME NEW p \in Procs, Replace(p) PROVE PlainCalls'
  BY <1>13, <1>goto DEF Replace
<1>14. ASSUME NEW p \in Procs, Return(p) PROVE PlainCalls'
  <2>1. request[p].kind # "register_repaired"
    BY <1>14 DEF Return, PlainCalls
  <2> QED BY <1>14, <2>1, <1>left, <1>goto DEF Return
<1>15. ASSUME NEW p \in Procs, Augment(p) PROVE PlainCalls'
  BY <1>15 DEF Augment, PlainCalls
<1>16. ASSUME NEW j \in Jobs, RewritePackage(j) \/ RunVerifier(j) PROVE PlainCalls'
  BY <1>16 DEF RewritePackage, RunVerifier, PlainCalls
<1>17. CASE UNCHANGED vars
  BY <1>17 DEF vars, PlainCalls
<1> QED
  BY <1>1, <1>2, <1>3, <1>4, <1>5, <1>6, <1>7, <1>8, <1>9, <1>10, <1>11, <1>12,
     <1>13, <1>14, <1>15, <1>16, <1>17 DEF Next, Step

LEMMA LockedStep ==
    TypeInv /\ PlainCalls /\ LockedSection /\ FreshDrafts /\ [Next]_vars => LockedSection'
<1> SUFFICES ASSUME TypeInv, PlainCalls, LockedSection, FreshDrafts, [Next]_vars
             PROVE  LockedSection'
  OBVIOUS
<1> USE RegistryAssumption DEF TypeInv
<1>out. ASSUME NEW p \in Procs, NEW l,
               Goto(p, l), l \notin {"load", "decide", "write", "replace"},
               \A q \in Procs : q # p => /\ loaded'[q] = loaded[q] /\ tmp'[q] = tmp[q]
                                       /\ (lock = q => lock' = q),
               UNCHANGED store
        PROVE  LockedSection'
  BY <1>out DEF Goto, LockedSection, TypeOK
<1>left. ASSUME NEW p \in Procs, Leave(p), UNCHANGED store,
                \A q \in Procs : q # p /\ lock = q => lock' = q
         PROVE  LockedSection'
  BY <1>left, <1>out, LeaveForgets DEF Leave
<1>1. ASSUME NEW p \in Procs, Call(p) PROVE LockedSection'
  <2>1. PICK r \in Request : Goto(p, IF r.kind \in AddKinds THEN "read_result" ELSE "acquire")
    BY <1>1 DEF Call
  <2> QED BY <1>1, <2>1, <1>out DEF Call
<1>2. ASSUME NEW p \in Procs, ReadResult(p) PROVE LockedSection'
  BY <1>2, <1>left, <1>out DEF ReadResult
<1>3. ASSUME NEW p \in Procs, HashPackage(p) \/ HashResult(p) PROVE LockedSection'
  BY <1>3, <1>left, <1>out DEF HashPackage, HashResult
<1>4. ASSUME NEW p \in Procs, CheckPackage(p) \/ CheckHash(p) \/ CheckResult(p)
      PROVE  LockedSection'
  BY <1>4, <1>left, <1>out DEF CheckPackage, CheckHash, CheckResult
<1>5. ASSUME NEW p \in Procs, Acquire(p) PROVE LockedSection'
  BY <1>5 DEF Acquire, Goto, LockedSection, TypeOK
<1>6. ASSUME NEW p \in Procs, Load(p) PROVE LockedSection'
  BY <1>6 DEF Load, Goto, LockedSection, TypeOK
<1>held. ASSUME NEW p \in Procs, pc[p] \in {"load", "decide", "write", "replace"}
         PROVE  lock = p /\ \A q \in Procs : lock = q => q = p
  BY <1>held DEF LockedSection
<1>7. ASSUME NEW p \in Procs, FindDuplicate(p) PROVE LockedSection'
  <2>1. \A q \in Procs : q # p => lock # q
    BY <1>7, <1>held DEF FindDuplicate
  <2> QED BY <1>7, <2>1, <1>left, <1>out DEF FindDuplicate
<1>8. ASSUME NEW p \in Procs, Append(p) PROVE LockedSection'
  <2>1. /\ draft[p] \in Entry
        /\ draft[p].key = request[p].key
        /\ Fresh(draft[p])
        /\ loaded[p] = store
    BY <1>8 DEF Append, CallerOK, TypeOK, FreshDrafts, LockedSection
  <2>2. \A a \in store : a.key # draft[p].key
    BY <1>8, <2>1 DEF Append, WithKey
  <2>3. Appends(store, store \cup {draft[p]})
    BY <2>1, <2>2 DEF Appends, Fresh
  <2>4. loaded'[p] = store \cup {draft[p]}
    BY <1>8, <2>1 DEF Append, TypeOK
  <2>5. \A q \in Procs : q # p => pc'[q] \notin {"load", "decide", "write", "replace"}
    BY <1>8, <1>held DEF Append, Goto, TypeOK
  <2>6. pc'[p] = "write" /\ lock' = p /\ store' = store
    BY <1>8, <1>held DEF Append, Goto, TypeOK
  <2>7. Change(store', loaded'[p])
    BY <2>3, <2>4, <2>6 DEF Change
  <2> QED BY <2>5, <2>6, <2>7 DEF LockedSection
<1>9. ASSUME NEW p \in Procs, MarkEntry(p) PROVE LockedSection'
  <2>1. PICK e \in WithKey(loaded[p], request[p].key) :
            loaded' = [loaded EXCEPT ![p] = (@ \ {e}) \cup {Marked(e, request[p].kind)}]
    BY <1>9 DEF MarkEntry
  <2>2. loaded[p] = store /\ e \in store
    BY <1>9, <2>1 DEF MarkEntry, LockedSection, WithKey
  <2>3. Marks(store, (store \ {e}) \cup {Marked(e, request[p].kind)})
    BY <2>2 DEF Marks, Marked
  <2>4. loaded'[p] = (store \ {e}) \cup {Marked(e, request[p].kind)}
    BY <2>1, <2>2 DEF TypeOK
  <2>5. \A q \in Procs : q # p => pc'[q] \notin {"load", "decide", "write", "replace"}
    BY <1>9, <1>held DEF MarkEntry, Goto, TypeOK
  <2>6. pc'[p] = "write" /\ lock' = p /\ store' = store
    BY <1>9, <1>held DEF MarkEntry, Goto, TypeOK
  <2>7. Change(store', loaded'[p])
    BY <2>3, <2>4, <2>6 DEF Change
  <2> QED BY <2>5, <2>6, <2>7 DEF LockedSection
<1>10. ASSUME NEW p \in Procs, EntryNotFound(p) PROVE LockedSection'
  <2>1. \A q \in Procs : q # p => lock # q
    BY <1>10, <1>held DEF EntryNotFound
  <2> QED BY <1>10, <2>1, <1>left DEF EntryNotFound
<1>11. ASSUME NEW p \in Procs, AcquireToWrite(p) PROVE LockedSection'
  BY <1>11 DEF AcquireToWrite, LockedSection
<1>12. ASSUME NEW p \in Procs, WriteTmp(p) PROVE LockedSection'
  <2>1. \A q \in Procs : q # p => pc'[q] \notin {"load", "decide", "write", "replace"}
    BY <1>12, <1>held DEF WriteTmp, Goto, TypeOK
  <2>2. pc'[p] = "replace" /\ lock' = p /\ store' = store /\ tmp'[p] = loaded[p]
    BY <1>12 DEF WriteTmp, Goto, TypeOK
  <2>3. Change(store', tmp'[p])
    BY <1>12, <2>2 DEF WriteTmp, LockedSection
  <2> QED BY <2>1, <2>2, <2>3 DEF LockedSection
<1>13. ASSUME NEW p \in Procs, Replace(p) PROVE LockedSection'
  BY <1>13, <1>held DEF Replace, Goto, LockedSection, TypeOK
<1>14. ASSUME NEW p \in Procs, Return(p) PROVE LockedSection'
  BY <1>14, <1>left, <1>out DEF Return
<1>15. ASSUME NEW p \in Procs, Augment(p) PROVE LockedSection'
  BY <1>15 DEF Augment, PlainCalls
<1>16. ASSUME NEW p \in Procs, CheckReuse(p) PROVE LockedSection'
  BY <1>16, <1>left DEF CheckReuse
<1>17. ASSUME NEW p \in Procs, Abort(p) PROVE LockedSection'
  BY <1>17, <1>left DEF Abort
<1>18. ASSUME NEW j \in Jobs, RewritePackage(j) \/ RunVerifier(j) PROVE LockedSection'
  BY <1>18 DEF RewritePackage, RunVerifier, LockedSection
<1>19. CASE UNCHANGED vars
  BY <1>19 DEF vars, LockedSection
<1> QED
  BY <1>1, <1>2, <1>3, <1>4, <1>5, <1>6, <1>7, <1>8, <1>9, <1>10, <1>11, <1>12,
     <1>13, <1>14, <1>15, <1>16, <1>17, <1>18, <1>19 DEF Next, Step

LEMMA FreshStep ==
    TypeInv /\ PlainCalls /\ FreshDrafts /\ [Next]_vars => FreshDrafts'
<1> SUFFICES ASSUME TypeInv, PlainCalls, FreshDrafts, [Next]_vars PROVE FreshDrafts'
  OBVIOUS
<1> USE RegistryAssumption DEF TypeInv
<1>out. ASSUME NEW p \in Procs, NEW l, Goto(p, l),
               l \notin {"hash_package", "hash_result", "check_package", "check_hash",
                         "check_result", "acquire", "load", "decide"},
               \A q \in Procs : q # p => draft'[q] = draft[q] /\ request'[q] = request[q]
        PROVE  FreshDrafts'
  BY <1>out DEF Goto, FreshDrafts, TypeOK
<1>left. ASSUME NEW p \in Procs, Leave(p) PROVE FreshDrafts'
  BY <1>left, <1>out DEF Leave, TypeOK
<1>1. ASSUME NEW p \in Procs, Call(p) PROVE FreshDrafts'
  <2>1. PICK r \in Request :
            /\ request' = [request EXCEPT ![p] = r]
            /\ Goto(p, IF r.kind \in AddKinds THEN "read_result" ELSE "acquire")
    BY <1>1 DEF Call
  <2> QED BY <1>1, <2>1 DEF Call, Goto, FreshDrafts, TypeOK
<1>2. ASSUME NEW p \in Procs, ReadResult(p) PROVE FreshDrafts'
  <2>1. CASE Leave(p)
    BY <2>1, <1>left
  <2>2. CASE ~Leave(p)
    <3>1. /\ Goto(p, "hash_package") /\ Fresh(draft'[p]) /\ request' = request
          /\ \A q \in Procs : q # p => draft'[q] = draft[q]
      BY <1>2, <2>2 DEF ReadResult, TypeOK, Fresh
    <3> QED BY <3>1 DEF Goto, FreshDrafts, TypeOK
  <2> QED BY <2>1, <2>2
<1>3. ASSUME NEW p \in Procs,
             HashPackage(p) \/ CheckPackage(p) \/ CheckHash(p) \/ CheckResult(p)
      PROVE  FreshDrafts'
  <2>1. CASE Leave(p)
    BY <2>1, <1>left
  <2>2. CASE ~Leave(p)
    BY <1>3, <2>2
       DEF HashPackage, CheckPackage, CheckHash, CheckResult, Goto, FreshDrafts, TypeOK
  <2> QED BY <2>1, <2>2
<1>4. ASSUME NEW p \in Procs, HashResult(p) PROVE FreshDrafts'
  <2>1. draft[p] \in Entry /\ Fresh(draft[p])
    BY <1>4 DEF HashResult, CallerOK, TypeOK, FreshDrafts
  <2>2. /\ draft' = [draft EXCEPT ![p].result = workspace[request[p].job].result]
        /\ Goto(p, "check_package") /\ request' = request
    BY <1>4 DEF HashResult
  <2>3. /\ Fresh(draft'[p])
        /\ \A q \in Procs : q # p => draft'[q] = draft[q]
    BY <2>1, <2>2 DEF TypeOK, Entry, Fresh
  <2> QED BY <2>2, <2>3 DEF Goto, FreshDrafts, TypeOK
<1>5. ASSUME NEW p \in Procs, Acquire(p) \/ Load(p) PROVE FreshDrafts'
  BY <1>5 DEF Acquire, Load, Goto, FreshDrafts, TypeOK
<1>6. ASSUME NEW p \in Procs, FindDuplicate(p) PROVE FreshDrafts'
  <2>1. CASE Leave(p)
    BY <2>1, <1>left
  <2>2. CASE ~Leave(p)
    <3>1. PICK e \in WithKey(loaded[p], request[p].key) :
              /\ draft' = [draft EXCEPT ![p] = e]
              /\ Goto(p, "return") /\ request' = request
      BY <1>6, <2>2 DEF FindDuplicate
    <3> QED BY <3>1, <1>out DEF TypeOK
  <2> QED BY <2>1, <2>2
<1>7. ASSUME NEW p \in Procs, Append(p) PROVE FreshDrafts'
  BY <1>7, <1>out DEF Append
<1>8. ASSUME NEW p \in Procs, MarkEntry(p) PROVE FreshDrafts'
  <2>1. PICK e \in WithKey(loaded[p], request[p].key) :
            draft' = [draft EXCEPT ![p] = Marked(e, request[p].kind)]
    BY <1>8 DEF MarkEntry
  <2> QED BY <1>8, <2>1, <1>out DEF MarkEntry, TypeOK
<1>9. ASSUME NEW p \in Procs, EntryNotFound(p) \/ CheckReuse(p) \/ Abort(p)
      PROVE  FreshDrafts'
  BY <1>9, <1>left DEF EntryNotFound, CheckReuse, Abort
<1>10. ASSUME NEW p \in Procs, AcquireToWrite(p) PROVE FreshDrafts'
  BY <1>10 DEF AcquireToWrite, FreshDrafts
<1>11. ASSUME NEW p \in Procs, WriteTmp(p) \/ Replace(p) PROVE FreshDrafts'
  BY <1>11, <1>out DEF WriteTmp, Replace
<1>12. ASSUME NEW p \in Procs, Return(p) PROVE FreshDrafts'
  BY <1>12, <1>left, <1>out DEF Return
<1>13. ASSUME NEW p \in Procs, Augment(p) PROVE FreshDrafts'
  BY <1>13 DEF Augment, PlainCalls
<1>14. ASSUME NEW j \in Jobs, RewritePackage(j) \/ RunVerifier(j) PROVE FreshDrafts'
  BY <1>14 DEF RewritePackage, RunVerifier, FreshDrafts
<1>15. CASE UNCHANGED vars
  BY <1>15 DEF vars, FreshDrafts
<1> QED
  BY <1>1, <1>2, <1>3, <1>4, <1>5, <1>6, <1>7, <1>8, <1>9, <1>10, <1>11, <1>12,
     <1>13, <1>14, <1>15 DEF Next, Step

LEMMA AtomicStep == NoFeedback /\ AtomicInv /\ [Next]_vars => AtomicInv'
BY TypeStep, PlainStep, LockedStep, FreshStep DEF AtomicInv

(* Every step of the registry that changes the file changes it as the         *)
(* contract does: the rename is the linearisation point.                      *)
LEMMA ContractStep == AtomicInv /\ [Next]_vars => [Contract!Next]_store
<1> SUFFICES ASSUME AtomicInv, [Next]_vars, store' # store PROVE Contract!Next
  BY SMTT(30) DEF Contract!Next
<1>1. PICK p \in Procs : Replace(p)
  BY DEF Next, Step, vars, Call, ReadResult, HashPackage, HashResult,
         CheckPackage, CheckHash, CheckResult, Acquire, Load,
         FindDuplicate, Append, MarkEntry, EntryNotFound, AcquireToWrite, WriteTmp,
         Return, Augment, CheckReuse, Abort, RewritePackage, RunVerifier
<1>2. Change(store, store')
  BY <1>1 DEF Replace, AtomicInv, LockedSection
<1>3. CASE Appends(store, store')
  <2>1. PICK e \in Entry :
            /\ \A a \in store : a.key # e.key
            /\ e.approval = "approved"
            /\ e.quarantine = "none"
            /\ store' = store \cup {e}
    BY <1>3 DEF Appends
  <2> DEFINE evidence == [package |-> e.package, result |-> e.result]
  <2>2. e.key \in Keys /\ e.job \in Jobs /\ e.linked \in BOOLEAN
        /\ evidence \in [package : Packages, result : Result]
    BY DEF Entry
  <2>3. e = Contract!NewEntry(e.key, e.job, evidence, e.linked)
    BY <2>1 DEF Contract!NewEntry, Entry
  <2> HIDE DEF evidence
  <2>4. Contract!Register(e)
    BY <2>1, <2>2, <2>3 DEF Contract!Register
  <2>5. e \in store' \ store
    BY <2>1
  <2> QED BY <2>4, <2>5 DEF Contract!Next
<1>4. CASE Marks(store, store')
  BY <1>4 DEF Marks, Contract!Next, Contract!RejectAsset, Contract!QuarantineAsset
<1> QED BY <1>2, <1>3, <1>4 DEF Change

(* The registry implements the atomic registry, for any number of processes   *)
(* killed at any point, as long as the feedback manager registers nothing.    *)
THEOREM RegistryIsAtomic == ASSUME NoFeedback PROVE Spec => ImplementsContract
<1>1. Init => Contract!Init
  BY DEF Init, Contract!Init
<1>2. Init => AtomicInv
  BY AtomicInit
<1>3. AtomicInv /\ [Next]_vars => AtomicInv'
  BY AtomicStep
<1> QED
  BY <1>1, <1>2, <1>3, ContractStep, PTL DEF Spec, ImplementsContract, Contract!Spec

-----------------------------------------------------------------------------
(* Promises: from the change a caller prepares, through the rename, to the    *)
(* return that tells the caller, some entry of the key bears what the call    *)
(* will promise; later changes of others never take it away.                  *)

Meets(e, r) ==
    /\ r.kind = "reject" => e.approval = "rejected"
    /\ r.kind \in {"quarantine", "quarantine_version"} => e.quarantine = "quarantined"

PendingOf(p) ==
    /\ pc[p] = "write" => draft[p] \in loaded[p] /\ Meets(draft[p], request[p])
    /\ pc[p] = "replace" => draft[p] \in tmp[p] /\ Meets(draft[p], request[p])
    /\ pc[p] = "return" =>
          \E e \in store : /\ e.key = request[p].key
                          /\ e.package = draft[p].package
                          /\ Meets(e, request[p])
    /\ pc[p] = "check_reuse" =>
          /\ request[p].kind = "quarantine_version"
          /\ \E e \in store : e.key = request[p].key /\ e.quarantine = "quarantined"

Pending == \A p \in Procs : PendingOf(p)

(* An entry stands for an earlier one of its key.                             *)
Upholds(f, e) ==
    /\ f.key = e.key
    /\ f.package = e.package
    /\ e.approval = "rejected" => f.approval = "rejected"
    /\ e.quarantine = "quarantined" => f.quarantine = "quarantined"

LEMMA ChangeUpholds ==
    ASSUME NEW S \in SUBSET Entry, NEW T, Change(S, T)
    PROVE  \A e \in S : \E f \in T : Upholds(f, e)
<1>1. CASE Appends(S, T)
  BY <1>1 DEF Appends, Upholds
<1>2. CASE Marks(S, T)
  <2>1. PICK a \in S, k \in {"reject", "quarantine"} : T = (S \ {a}) \cup {Marked(a, k)}
    BY <1>2 DEF Marks, Marked
  <2>2. a \in Entry
    OBVIOUS
  <2>3. Upholds(Marked(a, k), a)
    BY <2>2 DEF Upholds, Marked, Entry
  <2>4. \A e \in S : Upholds(e, e)
    BY DEF Upholds
  <2> QED BY <2>1, <2>3, <2>4
<1> QED BY <1>1, <1>2 DEF Change

LEMMA StoreUpholds ==
    AtomicInv /\ [Next]_vars => \A e \in store : \E f \in store' : Upholds(f, e)
<1> SUFFICES ASSUME AtomicInv, [Next]_vars
             PROVE  \A e \in store : \E f \in store' : Upholds(f, e)
  OBVIOUS
<1>1. CASE store' = store
  BY <1>1 DEF Upholds
<1>2. CASE \E p \in Procs : Replace(p)
  <2>1. Change(store, store')
    BY <1>2, SMTT(30) DEF Replace, AtomicInv, LockedSection
  <2> QED BY <2>1, ChangeUpholds DEF AtomicInv, TypeInv, TypeOK
<1>3. store' = store \/ \E p \in Procs : Replace(p)
  BY DEF Next, Step, vars, Call, ReadResult, HashPackage, HashResult,
         CheckPackage, CheckHash, CheckResult, Acquire, Load,
         FindDuplicate, Append, MarkEntry, EntryNotFound, AcquireToWrite, WriteTmp,
         Return, Augment, CheckReuse, Abort, RewritePackage, RunVerifier
<1> QED BY <1>1, <1>2, <1>3

LEMMA PromisedFields ==
    ASSUME NEW p \in Procs, request[p] \in Request
    PROVE  /\ Promised(p).key = request[p].key
           /\ Promised(p).mark = "registered" => Promised(p).package = draft[p].package
           /\ Promised(p).mark = "rejected" => request[p].kind = "reject"
           /\ Promised(p).mark = "quarantined" =>
                 request[p].kind \in {"quarantine", "quarantine_version"}
<1>1. CASE request[p].kind \in AddKinds
  <2>1. Promised(p) = [key |-> request[p].key, mark |-> "registered",
                       package |-> draft[p].package]
    BY <1>1 DEF Promised, AddKinds
  <2> QED BY <2>1
<1>2. CASE request[p].kind = "reject"
  <2>1. Promised(p) = [key |-> request[p].key, mark |-> "rejected"]
    BY <1>2 DEF Promised, AddKinds
  <2> QED BY <2>1, <1>2
<1>3. CASE request[p].kind \in {"quarantine", "quarantine_version"}
  <2>1. Promised(p) = [key |-> request[p].key, mark |-> "quarantined"]
    BY <1>3 DEF Promised, AddKinds
  <2> QED BY <2>1, <1>3
<1> QED BY <1>1, <1>2, <1>3, RequestFields DEF AddKinds, MarkKinds

LEMMA PendingStep == NoFeedback /\ AtomicInv /\ Pending /\ [Next]_vars => Pending'
<1> SUFFICES ASSUME NoFeedback, AtomicInv, Pending, [Next]_vars PROVE Pending'
  OBVIOUS
<1> USE DEF AtomicInv, TypeInv
<1>up. \A e \in store : \E f \in store' : Upholds(f, e)
  BY StoreUpholds
<1>other. ASSUME NEW q \in Procs,
                 pc'[q] = pc[q], request'[q] = request[q], draft'[q] = draft[q],
                 loaded'[q] = loaded[q], tmp'[q] = tmp[q]
          PROVE  PendingOf(q)'
  BY <1>other, <1>up DEF Pending, PendingOf, Meets, Upholds
<1>out. ASSUME NEW p \in Procs, NEW l, Goto(p, l),
               l \notin {"write", "replace", "return", "check_reuse"},
               \A q \in Procs : q # p => /\ request'[q] = request[q]
                                       /\ draft'[q] = draft[q]
                                       /\ loaded'[q] = loaded[q]
                                       /\ tmp'[q] = tmp[q]
        PROVE  Pending'
  <2>1. pc'[p] = l /\ \A q \in Procs : q # p => pc'[q] = pc[q]
    BY <1>out DEF Goto, TypeOK
  <2>2. PendingOf(p)'
    BY <1>out, <2>1 DEF PendingOf
  <2> QED BY <1>out, <2>1, <2>2, <1>other DEF Pending
<1>left. ASSUME NEW p \in Procs, Leave(p) PROVE Pending'
  BY <1>left, <1>out DEF Leave, TypeOK
<1>1. ASSUME NEW p \in Procs, Call(p) PROVE Pending'
  <2>1. PICK r \in Request :
            /\ request' = [request EXCEPT ![p] = r]
            /\ Goto(p, IF r.kind \in AddKinds THEN "read_result" ELSE "acquire")
    BY <1>1 DEF Call
  <2> QED BY <1>1, <2>1, <1>out DEF Call, TypeOK
<1>2. ASSUME NEW p \in Procs, ReadResult(p) PROVE Pending'
  <2>1. CASE Leave(p)
    BY <2>1, <1>left
  <2>2. CASE ~Leave(p)
    <3>1. /\ Goto(p, "hash_package")
          /\ UNCHANGED <<request, loaded, tmp>>
          /\ \A q \in Procs : q # p => draft'[q] = draft[q]
      BY <1>2, <2>2 DEF ReadResult, TypeOK
    <3> QED BY <3>1, <1>out
  <2> QED BY <2>1, <2>2
<1>3. ASSUME NEW p \in Procs, HashResult(p) PROVE Pending'
  <2>1. /\ Goto(p, "check_package")
        /\ UNCHANGED <<request, loaded, tmp>>
        /\ \A q \in Procs : q # p => draft'[q] = draft[q]
    BY <1>3 DEF HashResult, TypeOK
  <2> QED BY <2>1, <1>out
<1>4. ASSUME NEW p \in Procs,
             HashPackage(p) \/ CheckPackage(p) \/ CheckHash(p) \/ CheckResult(p)
      PROVE  Pending'
  BY <1>4, <1>left, <1>out DEF HashPackage, CheckPackage, CheckHash, CheckResult
<1>5. ASSUME NEW p \in Procs, Acquire(p) PROVE Pending'
  BY <1>5, <1>out DEF Acquire
<1>6. ASSUME NEW p \in Procs, Load(p) PROVE Pending'
  <2>1. \A q \in Procs : q # p => loaded'[q] = loaded[q]
    BY <1>6 DEF Load, TypeOK
  <2> QED BY <1>6, <2>1, <1>out DEF Load
<1>7. ASSUME NEW p \in Procs, FindDuplicate(p) PROVE Pending'
  <2>1. CASE Leave(p)
    BY <2>1, <1>left
  <2>2. CASE ~Leave(p)
    <3>1. PICK e \in WithKey(loaded[p], request[p].key) :
              /\ draft' = [draft EXCEPT ![p] = e]
              /\ Goto(p, "return")
              /\ UNCHANGED <<request, loaded, tmp>>
      BY <1>7, <2>2 DEF FindDuplicate
    <3>2. e \in store' /\ e.key = request[p].key
      BY <1>7, <3>1 DEF FindDuplicate, LockedSection, WithKey
    <3>3. Meets(e, request[p])
      BY <1>7 DEF FindDuplicate, Meets, AddKinds
    <3>4. /\ pc'[p] = "return" /\ draft'[p] = e /\ request'[p] = request[p]
          /\ \A q \in Procs : q # p => pc'[q] = pc[q] /\ draft'[q] = draft[q]
      BY <3>1 DEF Goto, TypeOK
    <3>5. PendingOf(p)'
      BY <3>2, <3>3, <3>4 DEF PendingOf
    <3> QED BY <3>1, <3>4, <3>5, <1>other DEF Pending
  <2> QED BY <2>1, <2>2
<1>8. ASSUME NEW p \in Procs, Append(p) PROVE Pending'
  <2>1. /\ pc'[p] = "write" /\ draft'[p] \in loaded'[p]
        /\ UNCHANGED <<request, draft, tmp>>
        /\ \A q \in Procs : q # p => pc'[q] = pc[q] /\ loaded'[q] = loaded[q]
    BY <1>8 DEF Append, Goto, TypeOK
  <2>2. Meets(draft'[p], request'[p])
    BY <1>8, <2>1 DEF Append, Meets, AddKinds
  <2>3. PendingOf(p)'
    BY <2>1, <2>2 DEF PendingOf
  <2> QED BY <2>1, <2>3, <1>other DEF Pending
<1>9. ASSUME NEW p \in Procs, MarkEntry(p) PROVE Pending'
  <2>1. PICK e \in WithKey(loaded[p], request[p].key) :
            /\ loaded' = [loaded EXCEPT ![p] = (@ \ {e}) \cup {Marked(e, request[p].kind)}]
            /\ draft' = [draft EXCEPT ![p] = Marked(e, request[p].kind)]
    BY <1>9 DEF MarkEntry
  <2>2. e \in Entry
    BY <2>1 DEF WithKey, TypeOK
  <2>3. Meets(Marked(e, request[p].kind), request[p])
    BY <1>9, <2>2 DEF MarkEntry, Meets, Marked, MarkKinds, Entry
  <2>4. /\ draft'[p] = Marked(e, request[p].kind) /\ draft'[p] \in loaded'[p]
        /\ \A q \in Procs : q # p => draft'[q] = draft[q] /\ loaded'[q] = loaded[q]
    BY <2>1 DEF TypeOK
  <2>5. /\ pc'[p] = "write" /\ UNCHANGED <<request, tmp>>
        /\ \A q \in Procs : q # p => pc'[q] = pc[q]
    BY <1>9 DEF MarkEntry, Goto, TypeOK
  <2>6. PendingOf(p)'
    BY <2>3, <2>4, <2>5 DEF PendingOf
  <2> QED BY <2>4, <2>5, <2>6, <1>other DEF Pending
<1>10. ASSUME NEW p \in Procs, EntryNotFound(p) \/ CheckReuse(p) \/ Abort(p)
       PROVE  Pending'
  BY <1>10, <1>left DEF EntryNotFound, CheckReuse, Abort
<1>11. ASSUME NEW p \in Procs, AcquireToWrite(p) PROVE Pending'
  BY <1>11, <1>other DEF AcquireToWrite, Pending
<1>12. ASSUME NEW p \in Procs, WriteTmp(p) PROVE Pending'
  <2>1. /\ pc'[p] = "replace" /\ tmp'[p] = loaded[p]
        /\ UNCHANGED <<request, draft, loaded>>
        /\ \A q \in Procs : q # p => pc'[q] = pc[q] /\ tmp'[q] = tmp[q]
    BY <1>12 DEF WriteTmp, Goto, TypeOK
  <2>2. PendingOf(p)'
    BY <1>12, <2>1 DEF WriteTmp, Pending, PendingOf
  <2> QED BY <2>1, <2>2, <1>other DEF Pending
<1>13. ASSUME NEW p \in Procs, Replace(p) PROVE Pending'
  <2>1. /\ pc'[p] = "return" /\ store' = tmp[p]
        /\ UNCHANGED <<request, draft, loaded, tmp>>
        /\ \A q \in Procs : q # p => pc'[q] = pc[q]
    BY <1>13 DEF Replace, Goto, TypeOK
  <2>2. draft[p] \in store' /\ Meets(draft[p], request[p])
    BY <1>13, <2>1 DEF Replace, Pending, PendingOf
  <2>3. draft[p].key = request[p].key
    BY <1>13 DEF Replace, CallerOK
  <2>4. PendingOf(p)'
    BY <2>1, <2>2, <2>3 DEF PendingOf
  <2> QED BY <2>1, <2>4, <1>other DEF Pending
<1>14. ASSUME NEW p \in Procs, Return(p) PROVE Pending'
  <2>1. CASE Leave(p)
    BY <2>1, <1>left
  <2>2. CASE ~Leave(p)
    <3>1. /\ request[p].kind = "quarantine_version" /\ Goto(p, "check_reuse")
          /\ UNCHANGED <<request, draft, loaded, tmp, store>>
      BY <1>14, <2>2 DEF Return, PlainCalls
    <3>2. /\ pc'[p] = "check_reuse"
          /\ \A q \in Procs : q # p => pc'[q] = pc[q]
      BY <3>1 DEF Goto, TypeOK
    <3>3. \E e \in store : e.key = request[p].key /\ e.quarantine = "quarantined"
      BY <1>14, <3>1 DEF Return, Pending, PendingOf, Meets
    <3>4. PendingOf(p)'
      BY <3>1, <3>2, <3>3 DEF PendingOf
    <3> QED BY <3>1, <3>2, <3>4, <1>other DEF Pending
  <2> QED BY <2>1, <2>2
<1>15. ASSUME NEW p \in Procs, Augment(p) PROVE Pending'
  BY <1>15 DEF Augment, PlainCalls
<1>16. ASSUME NEW j \in Jobs, RewritePackage(j) \/ RunVerifier(j) PROVE Pending'
  BY <1>16, <1>other DEF RewritePackage, RunVerifier, Pending
<1>17. CASE UNCHANGED vars
  BY <1>17, <1>other DEF vars, Pending
<1> QED
  BY <1>1, <1>2, <1>3, <1>4, <1>5, <1>6, <1>7, <1>8, <1>9, <1>10, <1>11, <1>12,
     <1>13, <1>14, <1>15, <1>16, <1>17 DEF Next, Step

(* What a call promises when it returns, the file holds.                      *)
LEMMA KeptStep == AtomicInv /\ Pending /\ PromisesKept /\ [Next]_vars => PromisesKept'
<1> SUFFICES ASSUME AtomicInv, Pending, PromisesKept, [Next]_vars,
                    NEW r \in promises'
             PROVE  \E e \in store' : e.key = r.key /\ Keeps(e, r)
  BY DEF PromisesKept, WithKey
<1> USE DEF AtomicInv, TypeInv
<1>1. CASE r \in promises
  <2>1. PICK e \in store : e.key = r.key /\ Keeps(e, r)
    BY <1>1 DEF PromisesKept, WithKey
  <2>2. PICK f \in store' : Upholds(f, e)
    BY StoreUpholds
  <2> QED BY <2>1, <2>2 DEF Upholds, Keeps
<1>2. CASE r \notin promises
  <2>1. PICK p \in Procs : Return(p) \/ CheckReuse(p)
    BY <1>2 DEF Next, Step, vars, Call, ReadResult, HashPackage, HashResult,
         CheckPackage, CheckHash, CheckResult, Acquire,
         Load, FindDuplicate, Append, MarkEntry, EntryNotFound, AcquireToWrite, WriteTmp,
         Replace, Augment, Abort, RewritePackage, RunVerifier
  <2>2. r = Promised(p) /\ store' = store /\ request[p] \in Request
    BY <1>2, <2>1 DEF Return, CheckReuse, CallerOK, TypeOK
  <2>3. CASE Return(p)
    <3>1. PICK e \in store : /\ e.key = request[p].key
                             /\ e.package = draft[p].package
                             /\ Meets(e, request[p])
      BY <2>3 DEF Return, Pending, PendingOf
    <3>2. Keeps(e, Promised(p)) /\ Promised(p).key = request[p].key
      BY <2>2, <3>1, PromisedFields DEF Keeps, Meets
    <3> QED BY <2>2, <3>1, <3>2
  <2>4. CASE CheckReuse(p)
    <3>1. request[p].kind = "quarantine_version"
      BY <2>4 DEF CheckReuse, Pending, PendingOf
    <3>2. PICK e \in store : e.key = request[p].key /\ e.quarantine = "quarantined"
      BY <2>4 DEF CheckReuse, Pending, PendingOf
    <3>3. Promised(p) = [key |-> request[p].key, mark |-> "quarantined"]
      BY <3>1 DEF Promised, AddKinds
    <3> QED BY <2>2, <3>2, <3>3 DEF Keeps
  <2> QED BY <2>1, <2>3, <2>4, SMTT(30)
<1> QED BY <1>1, <1>2

(* Every registration, rejection and quarantine a caller was told of stays in *)
(* force, for any number of processes killed at any point, as long as the     *)
(* feedback manager registers nothing.                                        *)
THEOREM PromisesAreKept == ASSUME NoFeedback PROVE Spec => []PromisesKept
<1>1. Init => AtomicInv /\ Pending /\ PromisesKept
  BY AtomicInit DEF Init, Pending, PendingOf, PromisesKept
<1>2. AtomicInv /\ Pending /\ PromisesKept /\ [Next]_vars
         => AtomicInv' /\ Pending' /\ PromisesKept'
  BY AtomicStep, PendingStep, KeptStep
<1> QED BY <1>1, <1>2, PTL DEF Spec

(* quarantine_version never finds the version it quarantined still on offer:  *)
(* a quarantine it read back is the only entry of its key.                    *)
THEOREM QuarantineExcludes == ASSUME NoFeedback PROVE Spec => []NoReuseLeak
<1>1. Init => AtomicInv /\ FileInv /\ Pending
  BY AtomicInit, FileInit DEF Init, Pending, PendingOf
<1>2. AtomicInv /\ FileInv /\ Pending /\ [Next]_vars => AtomicInv' /\ FileInv' /\ Pending'
  BY AtomicStep, FileStep, PendingStep
<1>3. FileInv /\ Pending => NoReuseLeak
  BY DEF FileInv, DistinctKeys, Distinct, Pending, PendingOf, NoReuseLeak, Leaked,
         ReuseCandidates, WithKey
<1> QED BY <1>1, <1>2, <1>3, PTL DEF Spec
-----------------------------------------------------------------------------
(* Why calls end: nobody waits for a lock that is not given back, and a call   *)
(* takes a bounded number of steps, the feedback manager's included.           *)

(* The lock is held by the caller that is between load and rename, or in the   *)
(* write that takes the lock itself, and by nobody else.                       *)
LockHeld ==
    \A p \in Procs :
        /\ pc[p] \in {"load", "decide", "replace"} => lock = p
        /\ lock = p => pc[p] \in {"load", "decide", "write", "replace"}

(* Only the feedback manager links, and once.                                  *)
LinksOnce == \A p \in Procs : pc[p] = "augment" => request[p].kind = "register_repaired"

LEMMA HeldStep == TypeInv /\ LockHeld /\ [Next]_vars => LockHeld'
<1> SUFFICES ASSUME TypeInv, LockHeld, [Next]_vars PROVE LockHeld'
  OBVIOUS
<1> USE RegistryAssumption
<1>0. pc \in [Procs -> Labels]
  BY DEF TypeInv, TypeOK
<1>out. ASSUME NEW p \in Procs, NEW l, Goto(p, l), UNCHANGED lock,
               pc[p] \notin {"load", "decide", "write", "replace"},
               l \notin {"load", "decide", "replace"}
        PROVE  LockHeld'
  BY <1>0, <1>out DEF LockHeld, Goto
<1>in. ASSUME NEW p \in Procs, NEW l, Goto(p, l), lock = p, UNCHANGED lock,
              l \in {"load", "decide", "write", "replace"}
       PROVE  LockHeld'
  BY <1>0, <1>in DEF LockHeld, Goto
<1>free. ASSUME NEW p \in Procs, NEW l, Goto(p, l), lock \in {None, p}, lock' = None,
                l \notin {"load", "decide", "replace"}
         PROVE  LockHeld'
  BY <1>0, <1>free DEF LockHeld, Goto
<1>1. ASSUME NEW p \in Procs, Call(p) PROVE LockHeld'
  BY <1>1, <1>out DEF Call
<1>2. ASSUME NEW p \in Procs,
             \/ ReadResult(p) \/ HashPackage(p) \/ HashResult(p)
             \/ CheckPackage(p) \/ CheckHash(p) \/ CheckResult(p)
             \/ Return(p) \/ CheckReuse(p)
      PROVE  LockHeld'
  BY <1>2, <1>out DEF ReadResult, HashPackage, HashResult, CheckPackage,
     CheckHash, CheckResult, Return, CheckReuse, Leave
<1>3. ASSUME NEW p \in Procs, Augment(p) PROVE LockHeld'
  BY <1>3, <1>out DEF Augment, Leave
<1>4. ASSUME NEW p \in Procs, Acquire(p) PROVE LockHeld'
  BY <1>0, <1>4 DEF Acquire, LockHeld, Goto
<1>5. ASSUME NEW p \in Procs, AcquireToWrite(p) PROVE LockHeld'
  BY <1>5 DEF AcquireToWrite, LockHeld
<1>6. ASSUME NEW p \in Procs, Load(p) \/ Append(p) \/ MarkEntry(p) PROVE LockHeld'
  <2>1. lock = p /\ UNCHANGED lock
    BY <1>6 DEF Load, Append, MarkEntry, LockHeld
  <2> QED BY <1>6, <2>1, <1>in DEF Load, Append, MarkEntry
<1>7. ASSUME NEW p \in Procs, WriteTmp(p) PROVE LockHeld'
  BY <1>7, <1>in DEF WriteTmp
<1>8. ASSUME NEW p \in Procs, FindDuplicate(p) \/ EntryNotFound(p) \/ Replace(p)
      PROVE  LockHeld'
  <2>1. lock = p
    BY <1>8 DEF FindDuplicate, EntryNotFound, Replace, LockHeld
  <2> QED BY <1>8, <2>1, <1>free DEF FindDuplicate, EntryNotFound, Replace, Leave
<1>9. ASSUME NEW p \in Procs, Abort(p) PROVE LockHeld'
  BY <1>0, <1>9 DEF Abort, Leave, Goto, LockHeld
<1>10. ASSUME NEW j \in Jobs, RewritePackage(j) \/ RunVerifier(j) PROVE LockHeld'
  BY <1>10 DEF RewritePackage, RunVerifier, LockHeld
<1>11. CASE UNCHANGED vars
  BY <1>11 DEF vars, LockHeld
<1> QED
  BY <1>1, <1>2, <1>3, <1>4, <1>5, <1>6, <1>7, <1>8, <1>9, <1>10, <1>11 DEF Next, Step

LEMMA LinksStep == TypeInv /\ LinksOnce /\ [Next]_vars => LinksOnce'
<1> SUFFICES ASSUME TypeInv, LinksOnce, [Next]_vars PROVE LinksOnce'
  OBVIOUS
<1>0. pc \in [Procs -> Labels] /\ request \in [Procs -> Request \cup {None}]
  BY DEF TypeInv, TypeOK
<1>goto. ASSUME NEW p \in Procs, NEW l, Goto(p, l), l # "augment",
                \A q \in Procs \ {p} : request'[q] = request[q]
         PROVE  LinksOnce'
  BY <1>0, <1>goto DEF LinksOnce, Goto
<1>left. ASSUME NEW p \in Procs, Leave(p) PROVE LinksOnce'
  BY <1>0, <1>left, <1>goto DEF Leave
<1>1. ASSUME NEW p \in Procs, Call(p) PROVE LinksOnce'
  BY <1>0, <1>1, <1>goto DEF Call
<1>2. ASSUME NEW p \in Procs,
             \/ ReadResult(p) \/ HashPackage(p) \/ HashResult(p)
             \/ CheckPackage(p) \/ CheckHash(p) \/ CheckResult(p)
      PROVE  LinksOnce'
  BY <1>2, <1>left, <1>goto
     DEF ReadResult, HashPackage, HashResult, CheckPackage, CheckHash, CheckResult
<1>3. ASSUME NEW p \in Procs,
             \/ Acquire(p) \/ Load(p) \/ Append(p) \/ MarkEntry(p) \/ WriteTmp(p) \/ Replace(p)
      PROVE  LinksOnce'
  BY <1>3, <1>goto DEF Acquire, Load, Append, MarkEntry, WriteTmp, Replace
<1>4. ASSUME NEW p \in Procs,
             FindDuplicate(p) \/ EntryNotFound(p) \/ CheckReuse(p) \/ Abort(p)
      PROVE  LinksOnce'
  BY <1>4, <1>left, <1>goto DEF FindDuplicate, EntryNotFound, CheckReuse, Abort
<1>5. ASSUME NEW p \in Procs, Return(p) PROVE LinksOnce'
  <2>1. CASE request[p].kind = "register_repaired" /\ Goto(p, "augment") /\ request' = request
    BY <1>0, <2>1 DEF LinksOnce, Goto
  <2> QED BY <1>5, <2>1, <1>left, <1>goto DEF Return
<1>6. ASSUME NEW p \in Procs, Augment(p) PROVE LinksOnce'
  <2>1. \A q \in Procs \ {p} : request'[q] = request[q]
    BY <1>0, <1>6 DEF Augment, Leave
  <2> QED BY <1>6, <2>1, <1>left, <1>goto DEF Augment
<1>7. (\E p \in Procs : AcquireToWrite(p)) \/ (\E j \in Jobs : RewritePackage(j) \/ RunVerifier(j))
      => LinksOnce'
  BY DEF AcquireToWrite, RewritePackage, RunVerifier, LinksOnce
<1>8. CASE UNCHANGED vars
  BY <1>8 DEF vars, LinksOnce
<1> QED BY <1>1, <1>2, <1>3, <1>4, <1>5, <1>6, <1>7, <1>8 DEF Next, Step

LEMMA HeldInit == Init => LockHeld /\ LinksOnce
BY RegistryAssumption DEF Init, LockHeld, LinksOnce

(* A caller that does not wait for the lock has a next step.                   *)
Ready(p) ==
    \/ pc[p] \in {"read_result", "hash_package", "hash_result", "check_package",
                  "check_hash", "check_result", "load", "replace", "return",
                  "augment", "check_reuse"}
    \/ pc[p] = "decide" /\ request[p].kind \in AddKinds \cup MarkKinds
    \/ pc[p] = "acquire" /\ lock = None
    \/ pc[p] = "write" /\ lock \in {None, p}

SomeoneIsReady == (\E p \in Procs : pc[p] # "idle") => \E p \in Procs : Ready(p)

(* Callers never wait for one another in a circle, nor for a process that is   *)
(* gone: whoever has the lock can go on, although _write_entries takes it a    *)
(* second time inside _locked_file and a holder may be killed.                 *)
THEOREM NobodyWaitsForever == Spec => []SomeoneIsReady
<1>1. TypeInv /\ LockHeld => SomeoneIsReady
  <2> SUFFICES ASSUME TypeInv, LockHeld, NEW p \in Procs, pc[p] # "idle"
               PROVE  \E q \in Procs : Ready(q)
    BY DEF SomeoneIsReady
  <2>0. \A q \in Procs : pc[q] # "idle" => request[q].kind \in AddKinds \cup MarkKinds
    BY RequestFields DEF TypeInv, TypeOK, CallerOK
  <2>1. pc[p] \in Labels /\ lock \in Procs \cup {None}
    BY DEF TypeInv, TypeOK
  <2>2. CASE lock = None
    BY <2>0, <2>1, <2>2 DEF Ready, Labels
  <2>3. CASE lock # None
    <3>1. lock \in Procs /\ pc[lock] \in {"load", "decide", "write", "replace"}
      BY <2>1, <2>3 DEF LockHeld
    <3> QED BY <2>0, <3>1 DEF Ready
  <2> QED BY <2>2, <2>3
<1> QED BY <1>1, TypeInit, TypeStep, HeldInit, HeldStep, PTL DEF Spec

(* The steps a call has left: the way to the return, again from the load of    *)
(* the feedback manager on when it has the entry to link.                      *)
Places == [label \in Labels |->
    CASE label = "read_result" -> 14 [] label = "hash_package" -> 13
      [] label = "hash_result" -> 12 [] label = "check_package" -> 11
      [] label = "check_hash" -> 10 [] label = "check_result" -> 9
      [] label = "acquire" -> 8 [] label = "load" -> 7
      [] label = "decide" -> 6 [] label = "write" -> 4 [] label = "replace" -> 3
      [] label = "return" -> 2 [] label \in {"augment", "check_reuse"} -> 1
      [] label = "idle" -> 0]

Relock(p) == IF pc[p] = "write" /\ lock # p THEN 1 ELSE 0
Linking(r) == IF r.kind = "register_repaired" THEN 5 ELSE 0

Remaining(p) ==
    IF pc[p] = "idle" THEN 0 ELSE Places[pc[p]] + Relock(p) + Linking(request[p])

RunsDown ==
    [][\A p \in Procs :
          /\ Step(p) => Remaining(p)' < Remaining(p)
          /\ pc[p] # "idle" => Remaining(p)' <= Remaining(p)]_vars

RemainingBounded == \A p \in Procs : Remaining(p) \in 0..19

LEMMA RemainingIs ==
    ASSUME TypeInv PROVE RemainingBounded
<1> SUFFICES ASSUME NEW p \in Procs PROVE Remaining(p) \in 0..19
  BY DEF RemainingBounded
<1>1. pc[p] \in Labels
  BY DEF TypeInv, TypeOK
<1>2. Places[pc[p]] \in 0..14 /\ (pc[p] = "write" => Places[pc[p]] = 4)
  BY <1>1 DEF Places, Labels
<1> QED BY <1>2 DEF Remaining, Relock, Linking

(* A call that leaves has no step left.                                        *)
LEMMA LeaveEnds ==
    ASSUME TypeInv, NEW p \in Procs, Leave(p), pc[p] # "idle"
    PROVE  Remaining(p)' < Remaining(p)
<1>1. pc[p] \in Labels /\ pc'[p] = "idle"
  BY DEF TypeInv, TypeOK, Leave, Goto
<1>2. Places[pc[p]] \in 1..14
  BY <1>1 DEF Places, Labels
<1> QED BY <1>1, <1>2 DEF Remaining, Relock, Linking

LEMMA CallStepRunsDown ==
    ASSUME TypeInv, LockHeld, LinksOnce, NEW p \in Procs, Step(p)
    PROVE  Remaining(p)' < Remaining(p)
<1>0. pc \in [Procs -> Labels] /\ request \in [Procs -> Request \cup {None}] /\ None \notin Procs
  BY RegistryAssumption DEF TypeInv, TypeOK
<1>values. /\ Places["read_result"] = 14 /\ Places["hash_package"] = 13
           /\ Places["hash_result"] = 12 /\ Places["check_package"] = 11
           /\ Places["check_hash"] = 10 /\ Places["check_result"] = 9
           /\ Places["acquire"] = 8 /\ Places["load"] = 7
           /\ Places["decide"] = 6 /\ Places["write"] = 4 /\ Places["replace"] = 3
           /\ Places["return"] = 2 /\ Places["augment"] = 1 /\ Places["check_reuse"] = 1
  BY DEF Places, Labels
<1>goto. ASSUME NEW l \in Labels \ {"idle", "write"}, Goto(p, l), request' = request,
                pc[p] # "idle", Places[l] < Places[pc[p]]
         PROVE  Remaining(p)' < Remaining(p)
  <2>1. pc'[p] = l /\ Places[l] \in Nat /\ Places[pc[p]] \in Nat
    BY <1>0, <1>goto DEF Goto, Places, Labels
  <2> QED BY <1>goto, <2>1 DEF Remaining, Relock, Linking
<1>1. CASE ReadResult(p)
  BY <1>1, <1>goto, <1>values, LeaveEnds DEF ReadResult, Labels
<1>2. CASE HashPackage(p)
  BY <1>2, <1>goto, <1>values, LeaveEnds DEF HashPackage, Labels
<1>2a. CASE HashResult(p)
  BY <1>2a, <1>goto, <1>values DEF HashResult, Labels
<1>3. CASE CheckPackage(p)
  BY <1>3, <1>goto, <1>values, LeaveEnds DEF CheckPackage, Labels
<1>3a. CASE CheckHash(p)
  BY <1>3a, <1>goto, <1>values, LeaveEnds DEF CheckHash, Labels
<1>3b. CASE CheckResult(p)
  BY <1>3b, <1>goto, <1>values, LeaveEnds DEF CheckResult, Labels
<1>4. CASE Acquire(p)
  BY <1>4, <1>goto, <1>values DEF Acquire, Labels
<1>5. CASE Load(p)
  BY <1>5, <1>goto, <1>values DEF Load, Labels
<1>6. CASE FindDuplicate(p)
  BY <1>6, <1>goto, <1>values, LeaveEnds DEF FindDuplicate, Labels
<1>7. CASE Append(p) \/ MarkEntry(p)
  <2>1. lock = p /\ pc[p] = "decide" /\ pc'[p] = "write" /\ UNCHANGED <<lock, request>>
    BY <1>0, <1>7 DEF Append, MarkEntry, LockHeld, Goto
  <2> QED BY <1>values, <2>1 DEF Remaining, Relock, Linking
<1>8. CASE EntryNotFound(p)
  BY <1>8, LeaveEnds DEF EntryNotFound
<1>9. CASE AcquireToWrite(p)
  BY <1>0, <1>values, <1>9 DEF AcquireToWrite, Remaining, Relock, Linking
<1>10. CASE WriteTmp(p)
  BY <1>10, <1>goto, <1>values DEF WriteTmp, Labels
<1>11. CASE Replace(p)
  BY <1>11, <1>goto, <1>values DEF Replace, Labels
<1>12. CASE Return(p)
  <2>1. CASE Leave(p)
    BY <1>12, <2>1, LeaveEnds DEF Return
  <2>2. CASE request[p].kind = "quarantine_version" /\ Goto(p, "check_reuse") /\ request' = request
    BY <1>12, <2>2, <1>goto, <1>values DEF Return, Labels
  <2>3. CASE request[p].kind = "register_repaired" /\ Goto(p, "augment") /\ request' = request
    BY <1>12, <2>3, <1>goto, <1>values DEF Return, Labels
  <2> QED BY <1>12, <2>1, <2>2, <2>3 DEF Return
<1>13. CASE Augment(p)
  <2>1. CASE Leave(p)
    BY <1>13, <2>1, LeaveEnds DEF Augment
  <2>2. CASE ~Leave(p)
    <3>1. /\ request' = [request EXCEPT ![p] = LastWriteOf(request[p])] /\ pc'[p] = "write"
          /\ pc[p] = "augment"
      BY <1>0, <1>13, <2>2 DEF Augment, Goto
    <3>2. request'[p].kind = "add"
      BY <1>0, <3>1 DEF LastWriteOf
    <3>3. request[p].kind = "register_repaired"
      BY <3>1 DEF LinksOnce
    <3> QED BY <1>values, <3>1, <3>2, <3>3 DEF Remaining, Relock, Linking
  <2> QED BY <2>1, <2>2
<1>14. CASE CheckReuse(p)
  BY <1>14, LeaveEnds DEF CheckReuse
<1> QED
  BY <1>1, <1>2, <1>2a, <1>3, <1>3a, <1>3b, <1>4, <1>5, <1>6, <1>7, <1>8, <1>9,
     <1>10, <1>11, <1>12, <1>13, <1>14 DEF Step

(* What others do, and an abort, leaves a call no more to do.                  *)
LEMMA OthersStep ==
    ASSUME TypeInv, LockHeld, NEW p \in Procs, pc[p] # "idle", [Next]_vars, ~Step(p)
    PROVE  Remaining(p)' <= Remaining(p)
<1>0. pc \in [Procs -> Labels] /\ request \in [Procs -> Request \cup {None}] /\ None \notin Procs
  BY RegistryAssumption DEF TypeInv, TypeOK
<1>nat. Remaining(p) \in Nat
  BY RemainingIs DEF RemainingBounded
<1>stays. ASSUME pc'[p] = pc[p], request'[p] = request[p], lock = p => lock' = p
          PROVE  Remaining(p)' <= Remaining(p)
  <2>1. Places[pc[p]] \in Nat
    BY <1>0 DEF Places, Labels
  <2> QED BY <1>stays, <2>1 DEF Remaining, Relock, Linking
<1>1. CASE UNCHANGED vars
  BY <1>1, <1>stays DEF vars
<1>2. ASSUME NEW j \in Jobs, RewritePackage(j) \/ RunVerifier(j)
      PROVE  Remaining(p)' <= Remaining(p)
  BY <1>2, <1>stays DEF RewritePackage, RunVerifier
<1>3. ASSUME NEW q \in Procs, Call(q) PROVE Remaining(p)' <= Remaining(p)
  <2>1. q # p
    BY <1>3 DEF Call
  <2> QED BY <1>0, <1>3, <2>1, <1>stays DEF Call, Goto
<1>4. ASSUME NEW q \in Procs, Step(q) PROVE Remaining(p)' <= Remaining(p)
  <2>0. q # p
    BY <1>4
  <2>1. pc'[p] = pc[p] /\ request'[p] = request[p]
    <3>1. CASE \/ ReadResult(q) \/ HashPackage(q) \/ HashResult(q)
               \/ CheckPackage(q) \/ CheckHash(q) \/ CheckResult(q)
      BY <1>0, <2>0, <3>1 DEF ReadResult, HashPackage, HashResult, CheckPackage,
                                  CheckHash, CheckResult, Leave, Goto
    <3>2. CASE \/ Acquire(q) \/ Load(q) \/ Append(q) \/ MarkEntry(q) \/ WriteTmp(q) \/ Replace(q)
               \/ AcquireToWrite(q)
      BY <1>0, <2>0, <3>2
         DEF Acquire, Load, Append, MarkEntry, WriteTmp, Replace, AcquireToWrite, Goto
    <3>3. CASE FindDuplicate(q) \/ EntryNotFound(q) \/ CheckReuse(q)
      BY <1>0, <2>0, <3>3 DEF FindDuplicate, EntryNotFound, CheckReuse, Leave, Goto
    <3>4. CASE Return(q) \/ Augment(q)
      BY <1>0, <2>0, <3>4 DEF Return, Augment, Leave, Goto
    <3> QED BY <1>4, <3>1, <3>2, <3>3, <3>4 DEF Step
  <2>2. lock = p => lock' = p
    <3>1. CASE FindDuplicate(q) \/ EntryNotFound(q) \/ Replace(q)
      BY <2>0, <3>1 DEF FindDuplicate, EntryNotFound, Replace, LockHeld
    <3>2. CASE Acquire(q) \/ AcquireToWrite(q)
      BY <1>0, <3>2 DEF Acquire, AcquireToWrite
    <3>3. CASE ~(FindDuplicate(q) \/ EntryNotFound(q) \/ Replace(q) \/ Acquire(q) \/ AcquireToWrite(q))
      BY <1>4, <3>3 DEF Step, ReadResult, HashPackage, HashResult, CheckPackage,
                        CheckHash, CheckResult, Load, Append, MarkEntry,
                        WriteTmp, Return, Augment, CheckReuse
    <3> QED BY <3>1, <3>2, <3>3
  <2> QED BY <2>1, <2>2, <1>stays
<1>5. ASSUME NEW q \in Procs, Abort(q) PROVE Remaining(p)' <= Remaining(p)
  <2>1. CASE q = p
    <3>1. Remaining(p)' = 0
      BY <1>0, <1>5, <2>1 DEF Abort, Leave, Goto, Remaining
    <3> QED BY <1>nat, <3>1
  <2>2. CASE q # p
    BY <1>0, <1>5, <2>2, <1>stays DEF Abort, Leave, Goto
  <2> QED BY <2>1, <2>2
<1> QED BY <1>1, <1>2, <1>3, <1>4, <1>5 DEF Next

(* A call makes at most 19 steps of its own accord, whatever the others do to  *)
(* the file and the workspaces meanwhile and however often it has to wait for  *)
(* the lock: add_verified, quarantine and reject run once, and                 *)
(* register_repaired_version writes the file a second time, not a third.  With *)
(* NobodyWaitsForever and the fairness of the callers this is why CallsEnd     *)
(* holds.                                                                      *)
THEOREM CallsRunDown == Spec => RunsDown /\ []RemainingBounded
<1> DEFINE Inv == TypeInv /\ LockHeld /\ LinksOnce
           Down == \A p \in Procs :
                      /\ Step(p) => Remaining(p)' < Remaining(p)
                      /\ pc[p] # "idle" => Remaining(p)' <= Remaining(p)
<1>1. Init => Inv
  BY TypeInit, HeldInit
<1>2. Inv /\ [Next]_vars => Inv'
  BY TypeStep, HeldStep, LinksStep
<1>3. Inv => RemainingBounded
  BY RemainingIs
<1>4. Inv' => RemainingBounded'
  <2> HIDE DEF Inv
  <2> QED BY <1>3, PTL
<1>5. Inv /\ [Next]_vars => [Down]_vars
  <2> SUFFICES ASSUME Inv, [Next]_vars, NEW p \in Procs
               PROVE  /\ Step(p) => Remaining(p)' < Remaining(p)
                      /\ pc[p] # "idle" => Remaining(p)' <= Remaining(p)
    OBVIOUS
  <2>1. Remaining(p) \in 0..19 /\ Remaining(p)' \in 0..19
    BY <1>2, <1>3, <1>4 DEF RemainingBounded
  <2>2. Step(p) => Remaining(p)' < Remaining(p)
    BY CallStepRunsDown
  <2> HIDE DEF Inv
  <2>3. CASE Step(p)
    BY <2>1, <2>2, <2>3
  <2>4. CASE ~Step(p)
    BY <2>4, OthersStep DEF Inv
  <2> QED BY <2>3, <2>4
<1> HIDE DEF Inv, Down
<1>6. Spec => []Inv
  BY <1>1, <1>2, PTL DEF Spec
<1>7. Spec => [][Down]_vars
  BY <1>5, <1>6, PTL DEF Spec
<1> QED BY <1>3, <1>6, <1>7, PTL DEF RunsDown, Down
=============================================================================
