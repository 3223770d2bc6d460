-------------------------- MODULE RegistryContract --------------------------
(* What the skill registry promises whoever shares its file: entries appear   *)
(* one at a time under a fresh key, never disappear, never change identity,   *)
(* and only ever gain a rejection, a quarantine or neither.  A promise to     *)
(* measure steps by: Register relates the file before to the file after.      *)
CONSTANTS
    Keys, Jobs,
    Evidence   \* the packages with the verifier results an entry may record

VARIABLE assets   \* the registered entries

Init == assets = {}

(* A new entry is approved and in force.                                      *)
NewEntry(key, job, evidence, linked) ==
    [key |-> key, job |-> job, package |-> evidence.package,
     result |-> evidence.result,
     approval |-> "approved", quarantine |-> "none", linked |-> linked]

Register(e) ==
    /\ e.key \in Keys /\ e.job \in Jobs
    /\ \E evidence \in Evidence, linked \in BOOLEAN :
          e = NewEntry(e.key, e.job, evidence, linked)
    /\ \A a \in assets : a.key # e.key
    /\ assets' = assets \cup {e}

RejectAsset(a) == assets' = (assets \ {a}) \cup {[a EXCEPT !.approval = "rejected"]}

QuarantineAsset(a) ==
    assets' = (assets \ {a}) \cup {[a EXCEPT !.quarantine = "quarantined"]}

Next ==
    \/ \E e \in assets' \ assets : Register(e)
    \/ \E a \in assets : RejectAsset(a) \/ QuarantineAsset(a)

Spec == Init /\ [][Next]_assets
=============================================================================
