-------------------------- MODULE MCRepairedVersions --------------------------
(* A small instance of RepairedVersions for TLC: three packages, of which one *)
(* is sound, three sets of criteria, three versions.                          *)
EXTENDS RepairedVersions, TLC

All == ContractSections

(* Sound; passes the verifier but misses a script and an expected output;     *)
(* shows everything but fails the verifier.                                   *)
Sound ==
    [whole |-> TRUE, readable |-> TRUE, titled |-> TRUE, frontmatter |-> "valid",
     sections |-> All, actionable |-> {"trigger", "inputs"},
     says |-> {"refuses", "report", "log"},
     steps |-> 2, constraints |-> 1, listed |-> {"script"}, linked |-> {},
     safe |-> {"script"}, scriptsDir |-> TRUE, checks |-> {"static"},
     files |-> {"guide"}, states |-> {"boundary"}]

Vague == [Sound EXCEPT !.says = {"refuses", "report"}, !.safe = {}]

Failing == [Sound EXCEPT !.checks = {}, !.states = {}]

MCPackages == {Sound, Vague, Failing}

MCItems == {"asked", "refuses", "data", "report", "log"}

MCSkillItems ==
    [s \in All |-> CASE s = "trigger" -> {"asked"} [] s = "non_trigger" -> {"refuses"}
                     [] s = "inputs" -> {"data"} [] OTHER -> {"report"}]

MCFixtureItems == [s \in All |-> IF s = "outputs" THEN {"report", "log"} ELSE {}]

MCNames == {"script", "static", "guide", "boundary", "person", "word", "opinion", "told"}

Plain == [id |-> "static", priority |-> "must", method |-> "static",
          kind |-> "verifier_check", status |-> "planned", authority |-> FALSE,
          check |-> None, inferred |-> "boundary", fixture |-> None, evidence |-> {}]

Judged == [Plain EXCEPT !.id = "told", !.kind = "qa_report",
                        !.evidence = {"script_smoke"}]

Person == [Plain EXCEPT !.id = "person", !.method = "human_review",
                        !.kind = "human_note", !.authority = TRUE]

Opinion == [Plain EXCEPT !.id = "opinion", !.method = "llm_judge",
                         !.kind = "model_judge", !.evidence = {"opinion"}]

Guide == [Plain EXCEPT !.id = "guide", !.kind = "file", !.evidence = {"guide"}]

MCCriteriaSets == {{Plain, Judged, Person}, {Person, Opinion}, {Guide}}

MCNeeds == [id \in {"boundary"} |->
    [checks |-> {"static"}, files |-> {"guide"}, states |-> {"boundary"}]]

(* Three courses: two repairs are registered; one is planned while another is *)
(* registered; criteria are revised, answered for and covered.                *)
TwoRepairs == [rewrite |-> 1, verify |-> 2, lab |-> 1, revision |-> 0, review |-> 0,
               evaluation |-> 1, plan |-> 0, register |-> 2, kill |-> 1]

PlanAndRepair == [TwoRepairs EXCEPT !.verify = 1, !.plan = 1, !.register = 1, !.kill = 0]

Reviews == [rewrite |-> 1, verify |-> 1, lab |-> 1, revision |-> 1, review |-> 1,
            evaluation |-> 1, plan |-> 0, register |-> 0, kill |-> 0]

MCBudgets == {TwoRepairs, PlanAndRepair, Reviews}

MCSuggested == [v \in Versions |-> IF v = "1.0.0" THEN "1.0.1" ELSE "1.0.2"]

MCAboutOf == [f \in Feedbacks |-> IF f = "f1" THEN "1.0.0" ELSE "1.0.1"]

Symmetry == Permutations(Callers)
=============================================================================
