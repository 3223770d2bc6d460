------------------------------ MODULE Registry ------------------------------
(* The skill registry of skillfoundry/registry.py: one JSON file shared by     *)
(* every thread and process that opens a LocalSkillRegistry on its path.       *)
(* Registration reads the job workspace without a lock, then appends to the    *)
(* file under a thread lock plus flock; quarantine and reject are              *)
(* read-modify-writes under that lock; readers take none.  The feedback        *)
(* manager of skillfoundry/feedback.py is the one other writer: it loads the   *)
(* file without the lock and writes it back with it.                           *)
EXTENDS Naturals

CONSTANTS
    Procs,        \* the threads and processes that call the registry
    Keys,         \* the <<skill_id, version>> pairs they use
    Jobs,         \* the job workspaces packages are registered from
    Packages,     \* the contents a package directory can have (its hash)
    Kinds,        \* the operations callers run, a subset of AllKinds
    MaxRuns,      \* bound: verifier runs in a behaviour
    MaxRequests,  \* bound: calls made in a behaviour
    MaxAborts,    \* bound: calls killed or stopped by an I/O error
    None          \* no process, no entry, no request

AllKinds == {"add", "register_repaired", "quarantine", "reject", "quarantine_version"}

(* verifier/verification_result.json: the package it speaks of, its outcome.  *)
Result == [package : Packages, status : {"missing", "failed", "passed"}]

(* A RegistryEntry; linked: provenance carries the feedback_versioning block. *)
Entry == [key : Keys, job : Jobs, package : Packages, result : Result,
          approval : {"approved", "rejected"},
          quarantine : {"none", "quarantined"}, linked : BOOLEAN]

AddKinds == {"add", "register_repaired"}
MarkKinds == {"quarantine", "reject", "quarantine_version"}

Request ==
    [kind : AddKinds, key : Keys, job : Jobs, policy : {"reject", "idempotent"}]
    \cup [kind : MarkKinds, key : Keys]

(* What a call that returned normally told its caller.                        *)
Promise ==
    [key : Keys, mark : {"registered"}, package : Packages]
    \cup [key : Keys, mark : {"quarantined", "rejected"}]

ASSUME RegistryAssumption ==
    /\ Kinds \subseteq AllKinds
    /\ MaxRuns \in Nat
    /\ MaxRequests \in Nat
    /\ MaxAborts \in Nat
    /\ None \notin Procs
    /\ None \notin Entry
    /\ None \notin Request

VARIABLES
    store,      \* the entries in the registry file
    lock,       \* who holds the registry lock
    pc,         \* where each caller is in its call
    request,    \* the call each caller is making
    draft,      \* the entry object the caller has built or was given
    loaded,     \* the entry list the caller read from the file
    tmp,        \* the caller's temporary file
    workspace,  \* job -> package directory and verifier result
    promises,   \* history: what returned calls told their callers
    passedOn,   \* history: the <<job, package>> pairs the verifier passed
    replaced,   \* history: the <<job, result>> pairs a verifier run replaced
                \*   while a caller had hashed but not yet parsed them
    runs, started, aborts

vars == <<store, lock, pc, request, draft, loaded, tmp, workspace, promises,
          passedOn, replaced, runs, started, aborts>>

Labels == {"idle", "read_result", "hash_package", "hash_result", "check_package",
           "check_hash", "check_result", "acquire", "load", "decide", "write",
           "replace", "return", "augment", "check_reuse"}

TypeOK ==
    /\ store \subseteq Entry
    /\ lock \in Procs \cup {None}
    /\ pc \in [Procs -> Labels]
    /\ request \in [Procs -> Request \cup {None}]
    /\ draft \in [Procs -> Entry \cup {None}]
    /\ loaded \in [Procs -> SUBSET Entry]
    /\ tmp \in [Procs -> SUBSET Entry]
    /\ workspace \in [Jobs -> [package : Packages, result : Result]]
    /\ promises \subseteq Promise
    /\ passedOn \subseteq Jobs \X Packages
    /\ replaced \subseteq Jobs \X Result
    /\ runs \in 0..MaxRuns
    /\ started \in 0..MaxRequests
    /\ aborts \in 0..MaxAborts

Init ==
    /\ store = {}
    /\ lock = None
    /\ pc = [p \in Procs |-> "idle"]
    /\ request = [p \in Procs |-> None]
    /\ draft = [p \in Procs |-> None]
    /\ loaded = [p \in Procs |-> {}]
    /\ tmp = [p \in Procs |-> {}]
    /\ workspace \in [Jobs -> [package : Packages,
                               result : [package : Packages, status : {"missing"}]]]
    /\ promises = {}
    /\ passedOn = {}
    /\ replaced = {}
    /\ runs = 0
    /\ started = 0
    /\ aborts = 0

-----------------------------------------------------------------------------
(* Helpers *)

Goto(p, label) == pc' = [pc EXCEPT ![p] = label]

(* The call ends: it returned, raised, or its process died.                   *)
Leave(p) ==
    /\ Goto(p, "idle")
    /\ request' = [request EXCEPT ![p] = None]
    /\ draft' = [draft EXCEPT ![p] = None]
    /\ loaded' = [loaded EXCEPT ![p] = {}]
    /\ tmp' = [tmp EXCEPT ![p] = {}]

WithKey(entries, key) == {e \in entries : e.key = key}

(* The recorded hashes agree; review status, timestamps and approval are not  *)
(* compared.                                                                  *)
SameAsset(old, new) ==
    /\ old.key = new.key
    /\ old.job = new.job
    /\ old.package = new.package
    /\ old.result = new.result

(* Mutants: a rejection lands in the wrong field; the last status wins.       *)
MarkedInOneField(e, kind) ==
    [e EXCEPT !.quarantine = IF kind = "reject" THEN "rejected" ELSE "quarantined"]

MarkedLastWins(e, kind) ==
    IF kind = "reject"
    THEN [e EXCEPT !.approval = "rejected", !.quarantine = "none"]
    ELSE [e EXCEPT !.quarantine = "quarantined"]

Marked(e, kind) ==
    IF kind = "reject"
    THEN [e EXCEPT !.approval = "rejected"]
    ELSE [e EXCEPT !.quarantine = "quarantined"]

(* Mutant: reuse looks at the approval only.                                  *)
ReuseCandidatesApproved(entries) == {e \in entries : e.approval = "approved"}

ReuseCandidates(entries) ==
    {e \in entries : e.approval = "approved" /\ e.quarantine # "quarantined"}

-----------------------------------------------------------------------------
(* The job workspace, as the registry sees it change.                         *)

(* A worker attempt rewrites the package; the old verifier result stays.      *)
RewritePackage(j) ==
    /\ \E content \in Packages \ {workspace[j].package} :
          workspace' = [workspace EXCEPT ![j].package = content]
    /\ UNCHANGED <<store, lock, pc, request, draft, loaded, tmp, promises,
                   passedOn, replaced, runs, started, aborts>>

(* The callers inside verify_entry between the hash of j's result and its    *)
(* parse: what they read next is another file.                               *)
Between(j) == {p \in Procs : pc[p] = "check_result" /\ draft[p].job = j}

RunVerifier(j) ==
    /\ runs < MaxRuns
    /\ \E outcome \in {"passed", "failed"} :
          /\ workspace' = [workspace EXCEPT ![j].result =
                [package |-> workspace[j].package, status |-> outcome]]
          /\ passedOn' = IF outcome = "passed"
                         THEN passedOn \cup {<<j, workspace[j].package>>}
                         ELSE passedOn
    /\ replaced' = replaced \cup {<<j, draft[p].result>> : p \in Between(j)}
    /\ runs' = runs + 1
    /\ UNCHANGED <<store, lock, pc, request, draft, loaded, tmp, promises,
                   started, aborts>>

-----------------------------------------------------------------------------
(* One action per step of a call.                                             *)

Call(p) ==
    /\ pc[p] = "idle"
    /\ started < MaxRequests
    /\ \E r \in Request :
          /\ r.kind \in Kinds
          /\ request' = [request EXCEPT ![p] = r]
          /\ Goto(p, IF r.kind \in AddKinds THEN "read_result" ELSE "acquire")
    /\ started' = started + 1
    /\ UNCHANGED <<store, lock, draft, loaded, tmp, workspace, promises,
                   passedOn, replaced, runs, aborts>>

(* The gate refuses a workspace whose verifier result is missing or failed.   *)
ReadResult(p) ==
    LET w == workspace[request[p].job] IN
    /\ pc[p] = "read_result"
    /\ \/ /\ w.result.status = "passed"
          /\ draft' = [draft EXCEPT ![p] =
                [key |-> request[p].key, job |-> request[p].job,
                 package |-> w.result.package, result |-> w.result,
                 approval |-> "approved", quarantine |-> "none",
                 linked |-> FALSE]]
          /\ Goto(p, "hash_package")
          /\ UNCHANGED <<request, loaded, tmp>>
       \/ w.result.status # "passed" /\ Leave(p)
    /\ UNCHANGED <<store, lock, workspace, promises, passedOn, replaced, runs,
                   started, aborts>>

(* The package must hash to what that result recorded.                        *)
HashPackage(p) ==
    /\ pc[p] = "hash_package"
    /\ \/ /\ workspace[request[p].job].package = draft[p].package
          /\ Goto(p, "hash_result")
          /\ UNCHANGED <<request, draft, loaded, tmp>>
       \/ workspace[request[p].job].package # draft[p].package /\ Leave(p)
    /\ UNCHANGED <<store, lock, workspace, promises, passedOn, replaced, runs,
                   started, aborts>>

(* The result file is hashed only now, after it was parsed.                   *)
HashResult(p) ==
    /\ pc[p] = "hash_result"
    /\ draft' = [draft EXCEPT ![p].result = workspace[request[p].job].result]
    /\ Goto(p, "check_package")
    /\ UNCHANGED <<store, lock, request, loaded, tmp, workspace, promises,
                   passedOn, replaced, runs, started, aborts>>

(* verify_entry reads the package, the hash of the result file and the result *)
(* one after another.  It collects failures and add_verified raises on any,   *)
(* so the first of them decides.                                              *)
CheckPackage(p) ==
    LET holds == workspace[draft[p].job].package = draft[p].package IN
    /\ pc[p] = "check_package"
    /\ \/ /\ holds
          /\ Goto(p, "check_hash")
          /\ UNCHANGED <<request, draft, loaded, tmp>>
       \/ ~holds /\ Leave(p)
    /\ UNCHANGED <<store, lock, workspace, promises, passedOn, replaced, runs,
                   started, aborts>>

CheckHash(p) ==
    LET holds == workspace[draft[p].job].result = draft[p].result IN
    /\ pc[p] = "check_hash"
    /\ \/ /\ holds
          /\ Goto(p, "check_result")
          /\ UNCHANGED <<request, draft, loaded, tmp>>
       \/ ~holds /\ Leave(p)
    /\ UNCHANGED <<store, lock, workspace, promises, passedOn, replaced, runs,
                   started, aborts>>

(* Mutant: the status of the result is not looked at again.                   *)
ResultSupportsAnyStatus(e, result) == result.package = e.package

(* The result as it is on file when it is parsed, whatever was hashed.        *)
ResultSupports(e, result) == result.status = "passed" /\ result.package = e.package

CheckResult(p) ==
    LET holds == ResultSupports(draft[p], workspace[draft[p].job].result) IN
    /\ pc[p] = "check_result"
    /\ \/ /\ holds
          /\ Goto(p, "acquire")
          /\ UNCHANGED <<request, draft, loaded, tmp>>
       \/ ~holds /\ Leave(p)
    /\ UNCHANGED <<store, lock, workspace, promises, passedOn, replaced, runs,
                   started, aborts>>

(* Mutant: a thread lock alone, which other processes do not see.             *)
AcquireThreadOnly(p) ==
    /\ pc[p] = "acquire"
    /\ lock' = p
    /\ Goto(p, "load")
    /\ UNCHANGED <<store, request, draft, loaded, tmp, workspace, promises,
                   passedOn, replaced, runs, started, aborts>>

Acquire(p) ==
    /\ pc[p] = "acquire"
    /\ lock = None
    /\ lock' = p
    /\ Goto(p, "load")
    /\ UNCHANGED <<store, request, draft, loaded, tmp, workspace, promises,
                   passedOn, replaced, runs, started, aborts>>

Load(p) ==
    /\ pc[p] = "load"
    /\ loaded' = [loaded EXCEPT ![p] = store]
    /\ Goto(p, "decide")
    /\ UNCHANGED <<store, lock, request, draft, tmp, workspace, promises,
                   passedOn, replaced, runs, started, aborts>>

(* The key is taken: the idempotent policy returns the stored entry of the    *)
(* same asset whatever its status, everything else is a duplicate error.      *)
FindDuplicate(p) ==
    /\ pc[p] = "decide"
    /\ request[p].kind \in AddKinds
    /\ \E e \in WithKey(loaded[p], request[p].key) :
          \/ /\ request[p].policy = "idempotent"
             /\ SameAsset(e, draft[p])
             /\ draft' = [draft EXCEPT ![p] = e]
             /\ Goto(p, "return")
             /\ UNCHANGED <<request, loaded, tmp>>
          \/ /\ ~(request[p].policy = "idempotent" /\ SameAsset(e, draft[p]))
             /\ Leave(p)
    /\ lock' = None
    /\ UNCHANGED <<store, workspace, promises, passedOn, replaced, runs,
                   started, aborts>>

(* Mutant: the duplicate check compares whole assets, not keys.               *)
AppendNewAsset(p) ==
    /\ pc[p] = "decide"
    /\ request[p].kind \in AddKinds
    /\ \A e \in WithKey(loaded[p], request[p].key) : ~SameAsset(e, draft[p])
    /\ loaded' = [loaded EXCEPT ![p] = @ \cup {draft[p]}]
    /\ Goto(p, "write")
    /\ UNCHANGED <<store, lock, request, draft, tmp, workspace, promises,
                   passedOn, replaced, runs, started, aborts>>

Append(p) ==
    /\ pc[p] = "decide"
    /\ request[p].kind \in AddKinds
    /\ WithKey(loaded[p], request[p].key) = {}
    /\ loaded' = [loaded EXCEPT ![p] = @ \cup {draft[p]}]
    /\ Goto(p, "write")
    /\ UNCHANGED <<store, lock, request, draft, tmp, workspace, promises,
                   passedOn, replaced, runs, started, aborts>>

MarkEntry(p) ==
    /\ pc[p] = "decide"
    /\ request[p].kind \in MarkKinds
    /\ \E e \in WithKey(loaded[p], request[p].key) :
          LET updated == Marked(e, request[p].kind) IN
          /\ loaded' = [loaded EXCEPT ![p] = (@ \ {e}) \cup {updated}]
          /\ draft' = [draft EXCEPT ![p] = updated]
    /\ Goto(p, "write")
    /\ UNCHANGED <<store, lock, request, tmp, workspace, promises, passedOn,
                   replaced, runs, started, aborts>>

EntryNotFound(p) ==
    /\ pc[p] = "decide"
    /\ request[p].kind \in MarkKinds
    /\ WithKey(loaded[p], request[p].key) = {}
    /\ lock' = None
    /\ Leave(p)
    /\ UNCHANGED <<store, workspace, promises, passedOn, replaced, runs,
                   started, aborts>>

(* _write_entries takes the lock itself when its caller does not hold it.     *)
AcquireToWrite(p) ==
    /\ pc[p] = "write"
    /\ lock = None
    /\ lock' = p
    /\ UNCHANGED <<store, pc, request, draft, loaded, tmp, workspace, promises,
                   passedOn, replaced, runs, started, aborts>>

WriteTmp(p) ==
    /\ pc[p] = "write"
    /\ lock = p
    /\ tmp' = [tmp EXCEPT ![p] = loaded[p]]
    /\ Goto(p, "replace")
    /\ UNCHANGED <<store, lock, request, draft, loaded, workspace, promises,
                   passedOn, replaced, runs, started, aborts>>

(* The rename publishes the file; leaving the with block frees the lock.      *)
Replace(p) ==
    /\ pc[p] = "replace"
    /\ store' = tmp[p]
    /\ lock' = None
    /\ Goto(p, "return")
    /\ UNCHANGED <<request, draft, loaded, tmp, workspace, promises, passedOn,
                   replaced, runs, started, aborts>>

Promised(p) ==
    CASE request[p].kind \in AddKinds ->
            [key |-> request[p].key, mark |-> "registered", package |-> draft[p].package]
      [] request[p].kind = "reject" -> [key |-> request[p].key, mark |-> "rejected"]
      [] OTHER -> [key |-> request[p].key, mark |-> "quarantined"]

Return(p) ==
    /\ pc[p] = "return"
    /\ \/ /\ request[p].kind = "register_repaired"
          /\ Goto(p, "augment")
          /\ UNCHANGED <<request, draft, loaded, tmp, promises>>
       \/ /\ request[p].kind = "quarantine_version"
          /\ Goto(p, "check_reuse")
          /\ UNCHANGED <<request, draft, loaded, tmp, promises>>
       \/ /\ request[p].kind \notin {"register_repaired", "quarantine_version"}
          /\ promises' = promises \cup {Promised(p)}
          /\ Leave(p)
    /\ UNCHANGED <<store, lock, workspace, passedOn, replaced, runs, started,
                   aborts>>

(* The write that follows is the last thing the call does.                    *)
LastWriteOf(r) == [kind |-> "add", key |-> r.key, job |-> r.job, policy |-> r.policy]

(* _augment_registry_provenance loads the file without the lock and replaces  *)
(* the entry by a copy of the one add_verified returned, feedback block added.*)
Augment(p) ==
    LET updated == [draft[p] EXCEPT !.linked = TRUE]
        others == {e \in store : e.key # draft[p].key}
    IN
    /\ pc[p] = "augment"
    /\ \/ /\ WithKey(store, draft[p].key) # {}
          /\ loaded' = [loaded EXCEPT ![p] = others \cup {updated}]
          /\ draft' = [draft EXCEPT ![p] = updated]
          /\ request' = [request EXCEPT ![p] = LastWriteOf(@)]
          /\ Goto(p, "write")
          /\ UNCHANGED tmp
       \/ WithKey(store, draft[p].key) = {} /\ Leave(p)
    /\ UNCHANGED <<store, lock, workspace, promises, passedOn, replaced, runs,
                   started, aborts>>

Leaked(key) == WithKey(ReuseCandidates(store), key) # {}

(* quarantine_version looks the entry up again and raises when it is offered. *)
CheckReuse(p) ==
    /\ pc[p] = "check_reuse"
    /\ promises' = IF Leaked(request[p].key) THEN promises
                   ELSE promises \cup {Promised(p)}
    /\ Leave(p)
    /\ UNCHANGED <<store, lock, workspace, passedOn, replaced, runs, started,
                   aborts>>

(* Mutant: the lock is a file that a killed process leaves behind.            *)
AbortKeepsLock(p) ==
    /\ pc[p] # "idle"
    /\ aborts < MaxAborts
    /\ aborts' = aborts + 1
    /\ Leave(p)
    /\ UNCHANGED <<store, lock, workspace, promises, passedOn, replaced, runs,
                   started>>

(* The process is killed or a file operation fails: the kernel or the finally *)
(* clause frees the lock, the temporary file is left behind unread.           *)
Abort(p) ==
    /\ pc[p] # "idle"
    /\ aborts < MaxAborts
    /\ aborts' = aborts + 1
    /\ lock' = IF lock = p THEN None ELSE lock
    /\ Leave(p)
    /\ UNCHANGED <<store, workspace, promises, passedOn, replaced, runs,
                   started>>

Step(p) ==
    \/ ReadResult(p) \/ HashPackage(p) \/ HashResult(p)
    \/ CheckPackage(p) \/ CheckHash(p) \/ CheckResult(p)
    \/ Acquire(p) \/ Load(p) \/ FindDuplicate(p) \/ Append(p)
    \/ MarkEntry(p) \/ EntryNotFound(p)
    \/ AcquireToWrite(p) \/ WriteTmp(p) \/ Replace(p)
    \/ Return(p) \/ Augment(p) \/ CheckReuse(p)

Next ==
    \/ \E p \in Procs : Call(p) \/ Step(p) \/ Abort(p)
    \/ \E j \in Jobs : RewritePackage(j) \/ RunVerifier(j)

Spec == Init /\ [][Next]_vars

(* A running call keeps being scheduled; nobody has to call, crash or rewrite.*)
FairSpec == Spec /\ \A p \in Procs : WF_vars(Step(p))

-----------------------------------------------------------------------------
(* Properties *)

(* The file never holds two entries for one <<skill_id, version>>: lookups    *)
(* return the first match, so a second entry would hide behind it.            *)
OneEntryPerKey == \A e, f \in store : e.key = f.key => e = f

(* Only verifier-passed assets are registered: whatever becomes of the        *)
(* workspace between the unlocked reads and the locked append, the package an *)
(* entry records was passed for that job.  The result it records, a file      *)
(* hashed after it was parsed and parsed again after it was hashed, is a      *)
(* passed one of that package, unless the verifier replaced that very result  *)
(* between the hash and the parse of some call's verify_entry.                *)
Certified(e) == e.result = [package |-> e.package, status |-> "passed"]

OnlyPassedPackages ==
    \A e \in store :
        /\ <<e.job, e.package>> \in passedOn
        /\ <<e.job, e.result>> \notin replaced => Certified(e)

Keeps(e, r) ==
    /\ r.mark = "registered" => e.package = r.package
    /\ r.mark = "quarantined" => e.quarantine = "quarantined"
    /\ r.mark = "rejected" => e.approval = "rejected"

(* A call that returned keeps its word: a registration stays in the file with *)
(* its package, a quarantine and a rejection stay in force, whatever other    *)
(* callers do at the same time and wherever they are killed.                  *)
PromisesKept ==
    \A r \in promises : \E e \in WithKey(store, r.key) : Keeps(e, r)

(* The quarantines among them, on their own.                                  *)
QuarantinesKept ==
    \A r \in promises : r.mark = "quarantined" =>
        WithKey(ReuseCandidates(store), r.key) = {}

(* quarantine_version never has to raise its own error, that the version it   *)
(* just quarantined is still offered for reuse.                               *)
NoReuseLeak == \A p \in Procs : pc[p] = "check_reuse" => ~Leaked(request[p].key)

(* Every call comes to an end, although the writer may ask for a lock its own *)
(* thread holds and a holder may be killed.                                   *)
CallsEnd == \A p \in Procs : pc[p] # "idle" ~> pc[p] = "idle"

(* One handler per write; the file changes by whole calls: seen from outside, *)
(* the registry is the atomic one.                                            *)
Contract == INSTANCE RegistryContract
                WITH assets <- store, Evidence <- [package : Packages, result : Result]

ImplementsContract == Contract!Spec
=============================================================================
