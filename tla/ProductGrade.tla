----------------------------- MODULE ProductGrade -----------------------------
(* Product grade: the compiler that turns the frozen request of a job into a   *)
(* matrix of acceptance items, the gate that judges package/ against it, which *)
(* runs the commands the package itself declares, and the planner that turns   *)
(* the findings into the repair packet the next work unit is proposed from.    *)
EXTENDS PiWorker

CONSTANTS
    Jobs,       \* bound: what a frozen request signals and if a reviewer has findings
    Touched,    \* bound: the files a command of the package writes
    Marks,      \* [texts and Torn -> the evidence a scan finds in that file]
    Commands    \* [plans -> the runtime items their commands are for]

VARIABLES
    matrix,    \* product_acceptance_matrix.json
    reviewer,  \* product_reviewer_report.json has findings, or cannot be read
    scan,      \* the gate at work: what it read and found so far
    runtime,   \* product_runtime_check_result.json
    report,    \* product_grade_report.json
    packet     \* product_repair_packet.json

product == <<matrix, reviewer, scan, runtime, report, packet>>

Signals == {"runtime_helper", "local_file_safety", "structured_input", "privacy_boundary",
            "reference_heavy", "data_conversion", "domain_knowledge", "mcp", "service",
            "network"}

(* A job is to be a skill, and more as its request asks for.                   *)
Profiles(s) ==
    LET named == {<<"runtime_helper", "runtime_helper_skill">>,
                  <<"local_file_safety", "local_file_safety_skill">>,
                  <<"structured_input", "structured_input_skill">>,
                  <<"reference_heavy", "reference_heavy_skill">>,
                  <<"data_conversion", "data_conversion_skill">>,
                  <<"mcp", "mcp_connector_skill">>,
                  <<"service", "service_bundle_skill">>}
        selected == {n[2] : n \in {m \in named : m[1] \in s}}
                    \cup {p \in {"knowledge_db_skill"} :
                             "reference_heavy" \in s
                             /\ s \cap {"data_conversion", "domain_knowledge"} # {}}
                    \cup {p \in {"toolchain_skill"} :
                             "runtime_helper" \in s
                             /\ s \cap {"data_conversion", "service", "mcp"} # {}}
    IN {"codex_skill"} \cup IF selected = {} THEN {"prompt_only_skill"} ELSE selected

(* The items, those that share one check as one.                               *)
RuntimeItems == {"runtime_duplicates", "runtime_other"}
ServiceItems == {"service_startup", "service_healthcheck", "service_shutdown"}

Items(p) ==
    UNION {IF {"runtime_helper_skill", "local_file_safety_skill"} \subseteq p
              THEN RuntimeItems ELSE {},
           IF "structured_input_skill" \in p THEN {"typed_parser", "structured_other"} ELSE {},
           {"codex_docs"},
           IF "reference_heavy_skill" \in p THEN {"source_inventory"} ELSE {},
           IF "data_conversion_skill" \in p THEN {"conversion_provenance"} ELSE {},
           IF "knowledge_db_skill" \in p THEN {"citation_mapping"} ELSE {},
           IF "service_bundle_skill" \in p THEN ServiceItems ELSE {}}

(* Items the gate looks for in the text of the package's files.                *)
ScannedItems == {"typed_parser", "source_inventory", "conversion_provenance",
                 "citation_mapping"} \cup ServiceItems

AllItems == RuntimeItems \cup ScannedItems \cup {"structured_other", "codex_docs"}
Unreadable == {"unreadable"}

Findings == ScannedItems \cup {"matrix", "runtime", "runtime_duplicates", "reviewer"}

Package == [Refs -> (UNION {Written[ref] : ref \in Refs}) \cup {Torn, None}]
Scans == [package : Package, todo : SUBSET RuntimeItems, failed : BOOLEAN]
Results == [checked : SUBSET RuntimeItems, missing : SUBSET RuntimeItems, passed : BOOLEAN]
Reports == [package : Package, findings : SUBSET Findings]
Packets == [findings : SUBSET Findings]

ASSUME ProductAssumption ==
    /\ Touched \subseteq Refs
    /\ \A job \in Jobs : job.request \subseteq Signals /\ job.reviewed \in BOOLEAN

(* No file can be mistaken for a file that is not there.                       *)
ASSUME NoneIsNoResult ==
    None \notin Scans /\ None \notin Results /\ None \notin Reports

ProductOK ==
    /\ matrix = None \/ matrix = Unreadable \/ matrix \subseteq AllItems
    /\ reviewer \in BOOLEAN
    /\ scan = None \/ scan \in Scans
    /\ runtime = None \/ runtime \in Results
    /\ report = None \/ report \in Reports
    /\ packet = None \/ packet \in Packets

ProductInit ==
    /\ matrix = None /\ reviewer = FALSE
    /\ scan = None /\ runtime = None /\ report = None /\ packet = None

-----------------------------------------------------------------------------
MatrixReadable == matrix \notin {None, Unreadable}

(* The compiler, which a job may do without.  Written in place, a file of a    *)
(* compiler that dies cannot be read.  To compile again changes nothing.  A    *)
(* reviewer's report is an input like the request: nothing here writes it.     *)
Compile ==
    /\ ~MatrixReadable
    /\ \E job \in Jobs :
          /\ matrix' \in {Items(Profiles(job.request)), Unreadable}
          /\ reviewer' = job.reviewed
    /\ UNCHANGED <<scan, runtime, report, packet>>

-----------------------------------------------------------------------------
(* The gate. *)

Required == IF MatrixReadable THEN matrix \cap RuntimeItems ELSE {}

(* A plan that is not there or cannot be read has no commands.                 *)
PlanOf(package) ==
    IF package["plan"] \in {None, Torn} THEN {} ELSE Commands[package["plan"]]

(* The files are read before any command of theirs has run; the plan, after.   *)
Scan ==
    /\ scan' = [package |-> files, todo |-> Required \cap PlanOf(files), failed |-> FALSE]
    /\ UNCHANGED <<matrix, reviewer, runtime, report, packet>>

(* In the plan's order, a command passes, fails, cannot be started or runs out *)
(* of time, and may write in the package it runs in.                           *)
RunCommand ==
    /\ scan # None
    /\ scan.todo # {}
    /\ \E failed \in BOOLEAN :
          scan' = [scan EXCEPT !.todo = @ \ {CHOOSE item \in @ : TRUE}, !.failed = @ \/ failed]
    /\ \/ UNCHANGED files
       \/ \E ref \in Touched : \E text \in Written[ref] : files' = [files EXCEPT ![ref] = text]
    /\ UNCHANGED <<evidence, outputs, agents, call>>
    /\ UNCHANGED <<matrix, reviewer, runtime, report, packet>>

Checked == Required \cap PlanOf(scan.package)
RuntimePassed == Checked = Required /\ ~scan.failed

WriteRuntime ==
    /\ scan # None /\ scan.todo = {}
    /\ runtime' = IF Required = {} THEN runtime
                  ELSE [checked |-> Checked, missing |-> Required \ Checked,
                        passed |-> RuntimePassed]
    /\ UNCHANGED <<matrix, reviewer, scan, report, packet>>

(* A typed parser counts in a source directory only.                           *)
Shown(package, item) ==
    \E ref \in Refs \ {"plan", "manifest"} :
        /\ package[ref] # None
        /\ item \in Marks[package[ref]]
        /\ item = "typed_parser" => ref = "source"

(* Commands that pass stand for the duplicate fixtures, and items of other     *)
(* kinds are not looked at.                                                    *)
MatrixFindings ==
    {item \in matrix \cap ScannedItems : ~Shown(scan.package, item)}
    \cup {f \in {"runtime"} : Required # {} /\ ~RuntimePassed}
    \cup {f \in {"runtime_duplicates"} :
             f \in Required /\ ~RuntimePassed /\ ~Shown(scan.package, f)}

GateFindings == IF MatrixReadable THEN MatrixFindings ELSE {"matrix"}
Grade(r) == r.findings = {}

(* The hash is of the package the commands have left.                          *)
WriteReport ==
    /\ scan # None /\ scan.todo = {}
    /\ report' = [package |-> files, findings |-> GateFindings]
    /\ UNCHANGED <<matrix, reviewer, scan, runtime, packet>>

ReviewFindings == IF reviewer THEN {"reviewer"} ELSE {}

(* Mutant: no packet is planned for a package of the grade.                    *)
PlanRepairOfFailed ==
    /\ packet' = IF Grade(report) THEN packet
                 ELSE [findings |-> report.findings \cup ReviewFindings]
    /\ scan' = None
    /\ UNCHANGED <<matrix, reviewer, runtime, report>>

PlanRepair ==
    /\ packet' = [findings |-> report.findings \cup ReviewFindings]
    /\ scan' = None
    /\ UNCHANGED <<matrix, reviewer, runtime, report>>

RepairRequired(p) == p # None /\ p.findings # {}

(* A command whose directory is not there, or whose output is no text, raises, *)
(* and so does a file in the package that cannot be read: what is on file of   *)
(* earlier evaluations stays.                                                  *)
Raise ==
    /\ scan # None
    /\ scan' = None
    /\ UNCHANGED <<matrix, reviewer, runtime, report, packet>>
=============================================================================
