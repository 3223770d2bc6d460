-------------------------- MODULE AcceptanceCoverage --------------------------
(* Acceptance criteria and their coverage, skillfoundry/acceptance.py: a plan *)
(* gives each criterion one kind of evidence, the evaluator looks for it in   *)
(* the QA report, the verifier's result, the reviewer's record and the        *)
(* package.                                                                   *)
EXTENDS QualityLab

CONSTANTS
    CriteriaSets,  \* what acceptance_criteria.yaml can hold; {} when it is absent
    Opinions,      \* the names of evidence that mention a model
    SyntheticIds,  \* checks judged from the package when the verifier ran none
    Needs          \* synthetic check -> the checks, files, statements it asks for

Criterion ==
    [id : Names, priority : {"must", "should"},
     method : {"static", "llm_judge", "human_review"},
     kind : {"verifier_check", "qa_report", "file", "command", "model_judge",
             "human_note"},
     status : {"planned", "uncovered", "manual_only"}, authority : BOOLEAN,
     check : Names \cup {None}, inferred : Names \cup {None},
     fixture : Names \cup {None}, evidence : SUBSET (Names \cup HardChecks)]

ASSUME AcceptanceAssumption ==
    /\ \A criteria \in CriteriaSets : criteria \subseteq Criterion
    /\ Opinions \subseteq Names
    /\ SyntheticIds \subseteq Names

VARIABLES
    criteria,   \* acceptance_criteria.yaml
    record,     \* qa/manual_acceptance_record.json
    coverage,   \* qa/acceptance_coverage_result.json
    ev,         \* the evaluation that is running
    approvals   \* history: <<criterion, criteria>> a reviewer approved

acceptanceVars == <<criteria, record, coverage, ev, approvals>>

Records == [approved : BOOLEAN, covers : SUBSET Names, criteria : CriteriaSets]

Coverages == [criteria : CriteriaSets, result : Results \cup {None},
              report : Reports \cup {None}, record : Records \cup {None},
              package : Packages, unmet : SUBSET Names, passed : BOOLEAN]

Evaluations == [criteria : CriteriaSets]

(* What an evaluation reads.                                                  *)
Seen(set) == [criteria |-> set, result |-> verifier, report |-> report, record |-> record]

-----------------------------------------------------------------------------
(* The plan: the first kind of evidence that fits a criterion.                *)

RequestsManual(c) ==
    c.status = "manual_only" \/ c.method = "human_review" \/ c.kind = "human_note"

OpinionOnly(c) ==
    /\ c.method = "llm_judge" /\ c.kind = "model_judge"
    /\ c.check = None /\ c.fixture = None
    /\ c.evidence \subseteq Opinions

(* The named check, else one the evidence names, else one its words suggest.  *)
CheckOf(c) ==
    IF c.check # None \/ c.kind # "verifier_check" THEN c.check
    ELSE IF c.evidence # {} THEN CHOOSE name \in c.evidence : TRUE
    ELSE c.inferred

(* In the order the planner tries them.                                       *)
Modes == <<"manual_authority", "uncovered", "verifier_check", "fixture",
           "qa_report_check", "required_evidence">>

Fits(mode, c) ==
    \/ mode = "manual_authority" /\ RequestsManual(c)
    \/ mode = "uncovered" /\ (c.status = "uncovered" \/ OpinionOnly(c))
    \/ mode = "verifier_check" /\ CheckOf(c) # None
    \/ mode = "fixture" /\ c.fixture # None
    \/ mode = "qa_report_check" /\ c.kind = "qa_report" /\ c.evidence # {}
    \/ mode = "required_evidence" /\ c.kind \in {"file", "command"} /\ c.evidence # {}

Mode(c) ==
    IF \E i \in DOMAIN Modes : Fits(Modes[i], c)
    THEN Modes[CHOOSE i \in DOMAIN Modes :
                  Fits(Modes[i], c) /\ \A j \in 1..(i - 1) : ~Fits(Modes[j], c)]
    ELSE "uncovered"

-----------------------------------------------------------------------------
(* The evaluation of one criterion against what was read.                     *)

(* Mutant: the record is not tied to the criteria it was given for.           *)
ManuallyMetEver(c, seen) ==
    /\ c.authority
    /\ seen.record # None
    /\ seen.record.approved
    /\ c.id \in seen.record.covers

ManuallyMet(c, seen) ==
    /\ c.authority
    /\ seen.record # None
    /\ seen.record.approved
    /\ c.id \in seen.record.covers
    /\ seen.record.criteria = seen.criteria

(* What a synthetic check asks for; alternatives for one thing are one name.  *)
ChecksPass(checks, result) == checks \subseteq result.passing
FilesPresent(refs, p) == refs \subseteq p.files
Stated(groups, p) == groups \subseteq p.states

(* Other checks are asked of the result, files and statements of the package. *)
SyntheticMet(check, result, p) ==
    /\ check \in SyntheticIds
    /\ ChecksPass(Needs[check].checks, result)
    /\ FilesPresent(Needs[check].files, p)
    /\ Stated(Needs[check].states, p)

VerifierMet(c, seen, p) ==
    /\ seen.result # None
    /\ IF CheckOf(c) \in Named
       THEN CheckOf(c) \in seen.result.passing
       ELSE SyntheticMet(CheckOf(c), seen.result, p)

QAMet(c, seen) ==
    /\ seen.report # None
    /\ c.evidence \subseteq HardChecks \ seen.report.failed

FilesMet(refs, p) == refs \subseteq p.files

Met(c, seen, p) ==
    CASE Mode(c) = "manual_authority" -> ManuallyMet(c, seen)
      [] Mode(c) = "verifier_check" -> VerifierMet(c, seen, p)
      [] Mode(c) = "qa_report_check" -> QAMet(c, seen)
      [] Mode(c) = "fixture" -> FilesMet({c.fixture}, p)
      [] Mode(c) = "required_evidence" -> FilesMet(c.evidence, p)
      [] OTHER -> FALSE

Musts(set) == {c \in set : c.priority = "must"}

-----------------------------------------------------------------------------
(* Steps.                                                                     *)

AcceptanceInit ==
    /\ criteria \in CriteriaSets
    /\ record = None /\ coverage = None /\ ev = None
    /\ approvals = {}

(* The criteria are frozen anew; the coverage of the old ones stays on file.  *)
ReviseCriteria ==
    /\ Spend("revision")
    /\ criteria' \in CriteriaSets \ {criteria}
    /\ UNCHANGED <<record, coverage, ev, approvals>>

(* A reviewer answers for the criteria in force.                              *)
Review ==
    /\ Spend("review")
    /\ criteria # {}
    /\ \E ids \in SUBSET {c.id : c \in {d \in criteria : RequestsManual(d)}},
          yes \in BOOLEAN :
          /\ record' = [approved |-> yes, covers |-> ids, criteria |-> criteria]
          /\ approvals' = IF yes
                          THEN approvals \cup {<<c, criteria>> : c \in {d \in criteria : d.id \in ids}}
                          ELSE approvals
    /\ UNCHANGED <<criteria, coverage, ev>>

(* The callers plan and evaluate in one go, with the plan they just made.     *)
PlanCoverage ==
    /\ ev = None
    /\ criteria # {}
    /\ Spend("evaluation")
    /\ ev' = [criteria |-> criteria]
    /\ UNCHANGED <<criteria, record, coverage, approvals>>

(* Reading the evidence, hashing the package and judging each item, one step. *)
EvaluateCoverage ==
    /\ ev # None
    /\ LET seen == Seen(ev.criteria)
           unmet == {c.id : c \in {d \in Musts(ev.criteria) : ~Met(d, seen, package)}}
       IN
       coverage' = [criteria |-> ev.criteria, result |-> verifier,
                    report |-> report, record |-> record, package |-> package,
                    unmet |-> unmet, passed |-> unmet = {}]
    /\ ev' = None
    /\ UNCHANGED <<criteria, record, approvals, left>>

KillEvaluation ==
    /\ ev # None
    /\ ev' = None
    /\ UNCHANGED <<criteria, record, coverage, approvals, left>>

AcceptanceStep ==
    \/ ReviseCriteria \/ Review \/ PlanCoverage
    \/ EvaluateCoverage \/ KillEvaluation

-----------------------------------------------------------------------------

AcceptanceTypeOK ==
    /\ criteria \in CriteriaSets
    /\ record \in Records \cup {None}
    /\ coverage \in Coverages \cup {None}
    /\ ev \in Evaluations \cup {None}
    /\ approvals \subseteq Criterion \X CriteriaSets

(* What a criterion asks for, of a package, whatever the files say: the       *)
(* verifier would pass its check, the lab its QA checks, the files are there. *)
Holds(c, p) ==
    /\ c.kind = "qa_report" /\ c.check = None /\ c.fixture = None =>
          c.evidence \cap TextFailures(p) = {}
    /\ CheckOf(c) \in Named => CheckOf(c) \in p.checks
    /\ c.kind \in {"file", "command"} /\ c.check = None /\ c.fixture = None =>
          c.evidence \subseteq p.files

(* The evidence a coverage result names speaks of the package it names.       *)
Fresh(k) ==
    /\ k.result # None => k.result.package = k.package
    /\ k.report # None => k.report.calm /\ k.report.package = k.package

(* A coverage result that passes is earned (AcceptanceCoverageEvaluator): no  *)
(* must criterion rests on a model's opinion or was marked uncovered, those   *)
(* left to a person were approved by one, for exactly these criteria, and the *)
(* others hold of the package whenever the evidence read was about it.        *)
CoverageIsEarned ==
    coverage # None /\ coverage.passed =>
        \A c \in Musts(coverage.criteria) :
            IF RequestsManual(c)
            THEN <<c, coverage.criteria>> \in approvals
            ELSE /\ ~OpinionOnly(c) /\ c.status # "uncovered"
                 /\ Fresh(coverage) => Holds(c, coverage.package)
=============================================================================
