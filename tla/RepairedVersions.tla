--------------------------- MODULE RepairedVersions ---------------------------
(* Feedback-driven versions, skillfoundry/feedback.py: a repair is planned    *)
(* from a feedback, rebuilt, verified, judged by the QA lab and covered in    *)
(* its own job workspace, and registered as a new version of the asset the    *)
(* feedback was about.  The registry's locking and the marks put on entries   *)
(* are Registry's subject; here add_verified is one step.                     *)
EXTENDS AcceptanceCoverage

CONSTANTS
    Callers,     \* processes that use a SkillVersionManager
    Versions,    \* the versions of the asset
    Original,    \* the version built without a feedback
    Wanted,      \* the versions callers ask for by number
    Suggested,   \* version -> the next version number
    Feedbacks,   \* feedback records
    Built,       \* the package of the original version
    AboutOf      \* feedback -> the version it complains of

ASSUME VersionsAssumption ==
    /\ Original \in Versions
    /\ Wanted \subseteq Versions
    /\ Suggested \in [Versions -> Versions]
    /\ AboutOf \in [Feedbacks -> Versions]
    /\ None \notin Callers \cup Versions \cup Feedbacks
    /\ Built \in Packages

VARIABLES
    store,     \* version -> its registry entry
    lost,      \* history: versions whose entry a stale list overwrote
    feedback,  \* feedback_record.json of the repair job
    plan,      \* feedback_repair_plan.json of the repair job
    change,    \* versioning/version_change_report.json
    call       \* caller -> the call it is making

versionVars == <<store, lost, feedback, plan, change, call>>
vars == <<qualityVars, acceptanceVars, versionVars, left>>

-----------------------------------------------------------------------------

Plans == [feedback : Feedbacks, source : Versions, version : Versions,
          package : Packages]

(* The feedback_versioning block of an entry's provenance.                    *)
Links == [feedback : Feedbacks, source : Versions, result : Results,
          report : Reports]

(* calm is an observation: nobody wrote to the repair workspace between the   *)
(* gates' reads and the registration.                                         *)
Entries == [version : Versions, package : Packages, source : Versions \cup {None},
            link : Links \cup {None}, calm : BOOLEAN]

ASSUME NoneIsNoEntry == None \notin Entries

Changes == [entry : Entries, source : Versions, feedback : Feedbacks,
            result : Results, report : Reports]

Calls == [at : {"record", "plan", "preflight", "verifier", "qa", "add",
                "load", "augment", "report"},
          feedback : Feedbacks, source : Entries, version : Versions,
          planned : BOOLEAN, plan : Plans \cup {None},
          result : Results \cup {None}, report : Reports \cup {None},
          entry : Entries \cup {None}, calm : BOOLEAN,
          loaded : [Versions -> Entries \cup {None}]]

NotLoaded == [v \in Versions |-> None]

Registered == {v \in Versions : store[v] # None}
OnFile == {store[v] : v \in Registered}

Go(c, at) == call' = [call EXCEPT ![c].at = at]
Raise(c) == call' = [call EXCEPT ![c] = None]
Busy(c, at) == call[c] # None /\ call[c].at = at

(* Writing to the workspace is seen by the registrations that read it.        *)
Disturb ==
    call' = [c \in Callers |->
        IF <<package, verifier, report>>' # <<package, verifier, report>>
           /\ call[c] # None /\ call[c].at \in {"qa", "add"}
        THEN [call[c] EXCEPT !.calm = FALSE]
        ELSE call[c]]

VersionsInit ==
    /\ store = [v \in Versions |->
          IF v = Original
          THEN [version |-> v, package |-> Built, source |-> None, link |-> None,
                calm |-> TRUE]
          ELSE None]
    /\ lost = {}
    /\ feedback = None /\ plan = None /\ change = None
    /\ call = [c \in Callers |-> None]

Init == QualityInit /\ AcceptanceInit /\ VersionsInit

-----------------------------------------------------------------------------
(* Planning.                                                                  *)

(* A feedback is accepted for the version it names only.                      *)
Matches(f, source) == AboutOf[f] = source.version

NewCall(c, at, f, source, version, planned, held) ==
    call' = [call EXCEPT ![c] =
        [at |-> at, feedback |-> f, source |-> source, version |-> version,
         planned |-> planned, plan |-> held, result |-> None, report |-> None,
         entry |-> None, calm |-> TRUE, loaded |-> NotLoaded]]

PlanFor(f, source, version) ==
    [feedback |-> f, source |-> source.version, version |-> version,
     package |-> source.package]

(* The version asked for, or the one suggested.                               *)
Asked(source) == Wanted \cup {Suggested[source.version]}

(* plan_repair_from_feedback                                                  *)
PlanRepair(c) ==
    /\ call[c] = None
    /\ Spend("plan")
    /\ \E f \in Feedbacks, source \in OnFile : \E version \in Asked(source) :
          /\ Matches(f, source)
          /\ version # source.version
          /\ NewCall(c, "record", f, source, version, TRUE, None)
    /\ UNCHANGED <<store, lost, feedback, plan, change>>

(* The two files are written one after the other, over those of a plan before.*)
WriteFeedback(c) ==
    /\ Busy(c, "record")
    /\ feedback' = call[c].feedback
    /\ Go(c, "plan")
    /\ UNCHANGED <<store, lost, plan, change, left>>

WritePlan(c) ==
    LET k == call[c] IN
    /\ Busy(c, "plan")
    /\ plan' = PlanFor(k.feedback, k.source, k.version)
    /\ call' = [call EXCEPT ![c] =
          IF k.planned THEN None ELSE [k EXCEPT !.at = "preflight", !.plan = plan']]
    /\ UNCHANGED <<store, lost, feedback, change, left>>

-----------------------------------------------------------------------------
(* Registering.                                                               *)

(* A plan the caller was handed by plan_repair_from_feedback, or the one on   *)
(* file whatever it is of.                                                    *)
Held(f, source, version) ==
    {plan} \cup {p \in {PlanFor(f, source, version)} : plan # None}

(* register_repaired_version; without a plan it makes one, which is refused   *)
(* for a feedback about another version.                                      *)
Register(c) ==
    /\ call[c] = None
    /\ Spend("register")
    /\ \E f \in Feedbacks, source \in OnFile : \E version \in Asked(source) :
          \E held \in Held(f, source, version) :
             \/ held # None /\ NewCall(c, "preflight", f, source, version, FALSE, held)
             \/ /\ held = None /\ Matches(f, source) /\ version # source.version
                /\ NewCall(c, "record", f, source, version, FALSE, None)
    /\ UNCHANGED <<store, lost, feedback, plan, change>>

PlanAgrees(k) ==
    /\ Matches(k.feedback, k.source)
    /\ k.version # k.source.version
    /\ k.plan.feedback = k.feedback
    /\ k.plan.source = k.source.version
    /\ k.plan.package = k.source.package
    /\ k.plan.version = k.version

VerifierGate == verifier # None /\ verifier.passed

(* Mutant: the report may be of another verifier result.                      *)
QAGateOfAny(result) == report # None /\ report.passed

QAGate(result) ==
    /\ report # None
    /\ report.passed
    /\ report.result = result

(* The gates are read here a first time.                                      *)
Preflight(c) ==
    /\ Busy(c, "preflight")
    /\ IF PlanAgrees(call[c]) /\ VerifierGate /\ QAGate(verifier)
       THEN Go(c, "verifier") ELSE Raise(c)
    /\ UNCHANGED <<store, lost, feedback, plan, change, left>>

ReadVerifierGate(c) ==
    /\ Busy(c, "verifier")
    /\ IF VerifierGate
       THEN call' = [call EXCEPT ![c].at = "qa", ![c].result = verifier]
       ELSE Raise(c)
    /\ UNCHANGED <<store, lost, feedback, plan, change, left>>

(* Mutant: the call keeps the result the report names in place of the report. *)
ReadQAGateResult(c) ==
    /\ Busy(c, "qa")
    /\ IF QAGate(call[c].result)
       THEN call' = [call EXCEPT ![c].at = "add", ![c].report = report.result]
       ELSE Raise(c)
    /\ UNCHANGED <<store, lost, feedback, plan, change, left>>

ReadQAGate(c) ==
    /\ Busy(c, "qa")
    /\ IF QAGate(call[c].result)
       THEN call' = [call EXCEPT ![c].at = "add", ![c].report = report]
       ELSE Raise(c)
    /\ UNCHANGED <<store, lost, feedback, plan, change, left>>

(* The must criteria a person answered for.                                   *)
LeftToPerson(set) == {d \in Musts(set) : RequestsManual(d)}

(* add_verified reads the workspace again for itself.                         *)
RegistryAdmits ==
    /\ VerifierGate
    /\ verifier.package = package
    /\ package.whole
    /\ criteria # {} =>
          /\ coverage # None
          /\ coverage.passed
          /\ LeftToPerson(coverage.criteria) # {} => record = coverage.record

(* Mutant: a version that is taken is written over.                           *)
FreeAlways(version) == TRUE

Free(version) == store[version] = None

AddVerified(c) ==
    /\ Busy(c, "add")
    /\ IF RegistryAdmits /\ Free(call[c].version)
       THEN LET entry == [version |-> call[c].version, package |-> package,
                          source |-> call[c].source.version, link |-> None,
                          calm |-> call[c].calm] IN
            /\ store' = [store EXCEPT ![call[c].version] = entry]
            /\ call' = [call EXCEPT ![c].at = "load", ![c].entry = entry]
       ELSE Raise(c) /\ UNCHANGED store
    /\ UNCHANGED <<lost, feedback, plan, change, left>>

(* _augment_registry_provenance loads the registry without its lock, puts a   *)
(* copy of the entry it was given, with the feedback block, in place of the   *)
(* one on file, and writes the list back: what others wrote since is lost.    *)
Linked(k) == [k.entry EXCEPT !.link = [feedback |-> k.feedback, source |-> k.source.version,
                                       result |-> k.result, report |-> k.report]]

LoadEntries(c) ==
    /\ Busy(c, "load")
    /\ IF store[call[c].version] = None
       THEN Raise(c)
       ELSE call' = [call EXCEPT ![c].at = "augment", ![c].loaded = store,
                                 ![c].entry = Linked(call[c])]
    /\ UNCHANGED <<store, lost, feedback, plan, change, left>>

(* Mutant: the block is added to the returned entry but never written.        *)
AugmentInMemory(c) ==
    /\ Busy(c, "augment")
    /\ Go(c, "report")
    /\ UNCHANGED <<store, lost, feedback, plan, change, left>>

Augment(c) ==
    LET k == call[c] IN
    /\ Busy(c, "augment")
    /\ store' = [k.loaded EXCEPT ![k.version] = k.entry]
    /\ lost' = lost \cup {v \in Versions \ {k.version} : store[v] # k.loaded[v]}
    /\ call' = [call EXCEPT ![c].at = "report", ![c].loaded = NotLoaded]
    /\ UNCHANGED <<feedback, plan, change, left>>

ReportChange(c) ==
    /\ Busy(c, "report")
    /\ LET k == call[c] IN
       change' = [entry |-> k.entry, source |-> k.source.version, feedback |-> k.feedback,
                  result |-> k.result, report |-> k.report]
    /\ Raise(c)
    /\ UNCHANGED <<store, lost, feedback, plan, left>>

-----------------------------------------------------------------------------
Kill(c) ==
    /\ call[c] # None
    /\ Spend("kill")
    /\ Raise(c)
    /\ UNCHANGED <<store, lost, feedback, plan, change>>

Manage(c) ==
    \/ PlanRepair(c) \/ WriteFeedback(c) \/ WritePlan(c) \/ Register(c)
    \/ Preflight(c) \/ ReadVerifierGate(c) \/ ReadQAGate(c) \/ AddVerified(c)
    \/ LoadEntries(c) \/ Augment(c) \/ ReportChange(c) \/ Kill(c)

Untouched == UNCHANGED <<store, lost, feedback, plan, change>>

Next ==
    \/ (\E c \in Callers : Manage(c)) /\ UNCHANGED <<qualityVars, acceptanceVars>>
    \/ Rewrite /\ Disturb /\ Untouched /\ UNCHANGED acceptanceVars
    \/ QualityStep /\ Disturb /\ Untouched /\ UNCHANGED acceptanceVars
    \/ AcceptanceStep /\ UNCHANGED <<qualityVars, versionVars>>

Spec == Init /\ [][Next]_vars

-----------------------------------------------------------------------------
(* Properties *)

TypeOK ==
    /\ QualityTypeOK
    /\ AcceptanceTypeOK
    /\ store \in [Versions -> Entries \cup {None}]
    /\ lost \subseteq Versions
    /\ feedback \in Feedbacks \cup {None}
    /\ plan \in Plans \cup {None}
    /\ change \in Changes \cup {None}
    /\ call \in [Callers -> Calls \cup {None}]

(* A repaired version passed the verifier and the QA lab, all seven hard      *)
(* checks, as the content that was registered (register_repaired_version):    *)
(* the gates are read from files of their own, the QA report may be of an     *)
(* earlier package and the registry compares only the verifier's result, yet  *)
(* the chain of hashes holds, when nobody rewrote the workspace under the lab *)
(* or between the gates and the registration.                                 *)
RepairedPassedGates ==
    \A v \in Registered :
        LET e == store[v] IN
        e.link # None /\ e.calm /\ e.link.report.calm =>
            /\ e.package = e.link.report.package
            /\ VerdictOn(e.package).passed
            /\ PassesQA(e.package)

(* A version change report on file is about a registered version: its entry   *)
(* is there with the package, the feedback and the gates the report names,    *)
(* wherever a call was killed and whatever was planned or registered since,   *)
(* unless another manager wrote a list it had loaded before (lost).           *)
ReportedIsRegistered ==
    change # None /\ change.entry.version \notin lost =>
        LET e == store[change.entry.version] IN
        /\ e # None
        /\ e = change.entry
        /\ e.link = [feedback |-> change.feedback, source |-> change.source,
                     result |-> change.result, report |-> change.report]

(* Every version descends from the original: a link names the version the     *)
(* feedback complained of, and following the sources never runs in a circle,  *)
(* although plans are overwritten and versions are asked for by number, as    *)
(* long as no entry was lost (_registration_preflight_failures,               *)
(* LocalSkillRegistry._add_entry).                                            *)
Ancestors(v) ==
    LET step[n \in 0..Cardinality(Versions)] ==
          IF n = 0 THEN v
          ELSE IF step[n - 1] = None THEN None ELSE store[step[n - 1]].source
    IN {step[n] : n \in DOMAIN step}

LineageIsSound ==
    lost = {} => \A v \in Registered :
        /\ None \in Ancestors(v)
        /\ store[v].link # None =>
              /\ AboutOf[store[v].link.feedback] = store[v].source
              /\ store[v].source \in Registered
=============================================================================
