------------------------------ MODULE QualityLab ------------------------------
(* The QA lab of skillfoundry/qa.py over one job workspace.  It hashes the    *)
(* package, reads the verifier's result, then SKILL.md, then the declared     *)
(* scripts, each at a moment of its own, and writes one report about all of   *)
(* them.  The locked inputs (skill_spec.yaml, verification_spec.yaml and the  *)
(* qa fixtures) do not change.                                                *)
EXTENDS Naturals, FiniteSets

CONSTANTS
    Packages,      \* the contents package/ can have, a subset of Content
    Items,         \* what the inputs ask SKILL.md to show
    SkillItems,    \* skill_spec.yaml: section -> the items it names
    FixtureItems,  \* qa/fixtures.json: the same; empty where it names none
    Names,         \* scripts, files, verifier checks, statements
    Named,         \* the checks the verifier runs
    Judges,        \* what an auxiliary judge may signal, "none" if there is none
    Budgets,       \* bounds: how often each of Work may happen
    None           \* no file, nothing running

(* What the model bounds.                                                     *)
Work == {"rewrite", "verify", "lab", "revision", "review", "evaluation",
         "plan", "register", "kill"}

ContractSections == {"trigger", "non_trigger", "inputs", "outputs"}

(* What the checks tell apart of package/: whole, no symlink or special file; *)
(* readable, titled and sections, the prose of SKILL.md; scripts its          *)
(* frontmatter lists and its text links to, and those that are there and safe.*)
Content ==
    [whole : BOOLEAN, readable : BOOLEAN, titled : BOOLEAN,
     frontmatter : {"none", "valid", "invalid"},
     sections : SUBSET ContractSections, actionable : SUBSET ContractSections,
     says : SUBSET Items, steps : Nat, constraints : Nat,
     listed : SUBSET Names, linked : SUBSET Names, safe : SUBSET Names,
     scriptsDir : BOOLEAN, checks : SUBSET Names, files : SUBSET Names,
     states : SUBSET Names]

ASSUME QualityAssumption ==
    /\ Packages \subseteq Content
    /\ \A p \in Packages :
          ~p.readable => p.sections = {} /\ p.steps = 0 /\ p.constraints = 0
    /\ SkillItems \in [ContractSections -> SUBSET Items]
    /\ FixtureItems \in [ContractSections -> SUBSET Items]
    /\ Named \subseteq Names /\ None \notin Names
    /\ Judges \subseteq {"none", "approves", "rejects"} /\ Judges # {}
    /\ Budgets \subseteq [Work -> Nat]

VARIABLES
    package,   \* the content of package/
    verifier,  \* verifier/verification_result.json
    report,    \* qa/quality_report.json
    lab,       \* the QA evaluation that is running
    left       \* how often each of Work may still happen

qualityVars == <<package, verifier, report, lab>>

-----------------------------------------------------------------------------
(* What the checks look for.                                                  *)

HardChecks == {"verifier_passed", "trigger_fixture_coverage",
               "non_trigger_fixture_coverage", "io_contract_coverage",
               "workflow_actionability", "safety_actionability", "script_smoke"}

(* A verification result; the same check of the same package is the same file.*)
Results == [package : Packages, passing : SUBSET Names, passed : BOOLEAN]

(* calm is an observation: nobody rewrote the package while the lab ran.      *)
Reports == [package : Packages, result : Results \cup {None},
            failed : SUBSET HardChecks, passed : BOOLEAN,
            signal : {"none", "approves", "rejects"}, calm : BOOLEAN]

Labs == [at : {"verdict", "text", "scripts", "judge"}, package : Packages,
         text : Packages, result : Results \cup {None},
         failed : SUBSET HardChecks, calm : BOOLEAN]

(* Items come from the fixtures where they name any, else from the SkillSpec. *)
Expected(section) ==
    IF FixtureItems[section] # {} THEN FixtureItems[section] ELSE SkillItems[section]

(* One line with enough words of its own speaks for every item of a section.  *)
Shown(section, item, p) ==
    section \in p.sections /\ (section \in p.actionable \/ item \in p.says)

ScenarioCovered(section, p) == \E item \in Expected(section) : Shown(section, item, p)

ContractCovered(p) ==
    \A section \in {"inputs", "outputs"} :
        /\ Expected(section) # {}
        /\ \A item \in Expected(section) : Shown(section, item, p)

WorkflowActionable(p) == p.steps >= 2

SafetyActionable(p) == p.constraints >= 1

(* A missing title is reported in place of a broken frontmatter.              *)
FrontmatterRefused(p) == p.titled /\ p.frontmatter = "invalid"

DeclaredScripts(p) == p.linked \cup IF p.frontmatter = "valid" THEN p.listed ELSE {}

(* The declarations of the text that was read against the scripts on disk.    *)
ScriptsPass(text, disk) ==
    /\ text.readable
    /\ ~FrontmatterRefused(text)
    /\ disk.scriptsDir
    /\ DeclaredScripts(text) \subseteq disk.safe

TextFailures(p) ==
    {check \in HardChecks :
        \/ check = "trigger_fixture_coverage" /\ ~ScenarioCovered("trigger", p)
        \/ check = "non_trigger_fixture_coverage" /\ ~ScenarioCovered("non_trigger", p)
        \/ check = "io_contract_coverage" /\ ~ContractCovered(p)
        \/ check = "workflow_actionability" /\ ~WorkflowActionable(p)
        \/ check = "safety_actionability" /\ ~SafetyActionable(p)}

VerdictStands(result, hashed) ==
    /\ result # None
    /\ result.passed
    /\ result.package = hashed
    /\ hashed.whole

(* Verifier.verify, for a package with these contents.                        *)
VerdictOn(p) ==
    [package |-> p, passing |-> Named \cap p.checks,
     passed |-> Named \subseteq p.checks /\ p.whole]

-----------------------------------------------------------------------------
(* Steps.                                                                     *)

QualityInit ==
    /\ package \in Packages
    /\ verifier = None
    /\ report = None
    /\ lab = None
    /\ left \in Budgets

Spend(what) == left[what] > 0 /\ left' = [left EXCEPT ![what] = @ - 1]

(* A repair attempt of the worker.                                            *)
Rewrite ==
    /\ Spend("rewrite")
    /\ package' \in Packages \ {package}
    /\ lab' = IF lab = None THEN None ELSE [lab EXCEPT !.calm = FALSE]
    /\ UNCHANGED <<verifier, report>>

Verify ==
    /\ Spend("verify")
    /\ verifier' = VerdictOn(package)
    /\ UNCHANGED <<package, report, lab>>

BeginQA ==
    /\ lab = None
    /\ Spend("lab")
    /\ lab' = [at |-> "verdict", package |-> package, text |-> package,
               result |-> None, failed |-> {}, calm |-> TRUE]
    /\ UNCHANGED <<package, verifier, report>>

At(stage) == lab # None /\ lab.at = stage

ReadVerdict ==
    /\ At("verdict")
    /\ lab' = [lab EXCEPT !.at = "text", !.result = verifier,
                  !.failed = IF VerdictStands(verifier, lab.package)
                             THEN {} ELSE {"verifier_passed"}]
    /\ UNCHANGED <<package, verifier, report, left>>

ReadText ==
    /\ At("text")
    /\ lab' = [lab EXCEPT !.at = "scripts", !.text = package,
                          !.failed = @ \cup TextFailures(package)]
    /\ UNCHANGED <<package, verifier, report, left>>

SmokeScripts ==
    /\ At("scripts")
    /\ lab' = [lab EXCEPT !.at = "judge",
                  !.failed = IF ScriptsPass(lab.text, package)
                             THEN @ ELSE @ \cup {"script_smoke"}]
    /\ UNCHANGED <<package, verifier, report, left>>

(* The judge sees the failed checks and is quoted; it decides nothing.        *)
WriteReport ==
    /\ At("judge")
    /\ \E signal \in Judges :
          report' = [package |-> lab.package, result |-> lab.result,
                     failed |-> lab.failed, passed |-> lab.failed = {},
                     signal |-> signal, calm |-> lab.calm]
    /\ lab' = None
    /\ UNCHANGED <<package, verifier, left>>

(* The lab's process is killed; the report of the run before it stays.        *)
KillLab ==
    /\ lab # None
    /\ lab' = None
    /\ UNCHANGED <<package, verifier, report, left>>

QualityStep ==
    \/ Verify \/ BeginQA \/ ReadVerdict \/ ReadText \/ SmokeScripts
    \/ WriteReport \/ KillLab

-----------------------------------------------------------------------------
(* What a sound package is, whoever reads it and when.                        *)

PassesQA(p) == p.whole /\ TextFailures(p) = {} /\ ScriptsPass(p, p)

QualityTypeOK ==
    /\ package \in Packages
    /\ verifier \in Results \cup {None}
    /\ report \in Reports \cup {None}
    /\ lab \in Labs \cup {None}
    /\ left \in [Work -> Nat]
=============================================================================
