---------------------------- MODULE EvidenceChain ----------------------------
(* The evidence files of one job workspace and the gates that write and read  *)
(* them: Verifier, AcceptanceCoverageEvaluator, the ContextForge bridge,      *)
(* ProductGradeGate, and the registry's evidence checks.  Every gate is a     *)
(* public entry point run by several pipelines in orders of their own, and a  *)
(* worker may rewrite the package between any two of them; each gate must     *)
(* recognise what the others left stale.                                      *)
EXTENDS Naturals

CONSTANTS
    Packages,     \* the contents the package directory can have
    HasCriteria,  \* whether the workspace has an acceptance_criteria.yaml
    MaxWrites,    \* bound: evidence files written in a behaviour
    None          \* no file

ASSUME EvidenceAssumption ==
    /\ HasCriteria \in BOOLEAN
    /\ MaxWrites \in Nat

VARIABLES
    package,     \* the content of package/
    verifier,    \* verifier/verification_result.json
    coverage,    \* qa/acceptance_coverage_result.json
    bridge,      \* the ContextForge verification result
    grade,       \* qa/product_grade_report.json
    entries,     \* what the registry recorded of each registration
    last,        \* the outcome of the last registration call
    coveredOn,   \* history: contents whose acceptance coverage passed
    clock        \* evidence files written so far

vars == <<package, verifier, coverage, bridge, grade, entries, last, coveredOn, clock>>

-----------------------------------------------------------------------------
(* Hashes.  Two functions hash a package directory: the verifier, the bridge  *)
(* and the registry hash a list with an object per file and directory, the    *)
(* product grade gate a map from file to hash.                                *)
ListHash(content) == <<"list", content>>
TreeHash(content) == <<"map", content>>

GradeHash(content) == TreeHash(content)

(* A file is known by its hash.  A verification result is stamped with the    *)
(* worker's report time, so the same check of the same package rewrites the   *)
(* same file; the other results are stamped with the time they are written.   *)
VerifierFile == [package : {ListHash(c) : c \in Packages}, passed : BOOLEAN]

CoverageFile == [at : 1..MaxWrites, package : {ListHash(c) : c \in Packages},
                 verifier : VerifierFile \cup {None}, passed : BOOLEAN]

BridgeFile == [at : 1..MaxWrites, package : {ListHash(c) : c \in Packages},
               verifier : VerifierFile \cup {None},
               coverage : CoverageFile \cup {None}, passed : BOOLEAN]

GradeFile == [package : {GradeHash(c) : c \in Packages}, passed : BOOLEAN]

(* Provenance of a registry entry: the files whose hashes it records.         *)
Entry == [content : Packages, verifier : VerifierFile,
          coverage : CoverageFile \cup {None}, bridge : BridgeFile \cup {None},
          grade : GradeFile \cup {None}, promoted : BOOLEAN]

Outcomes == {"none", "registered", "refused", "promoted", "promotion_refused"}

TypeOK ==
    /\ package \in Packages
    /\ verifier \in VerifierFile \cup {None}
    /\ coverage \in CoverageFile \cup {None}
    /\ bridge \in BridgeFile \cup {None}
    /\ grade \in GradeFile \cup {None}
    /\ entries \subseteq Entry
    /\ last \in Outcomes
    /\ coveredOn \subseteq Packages
    /\ clock \in 0..MaxWrites

Init ==
    /\ package \in Packages
    /\ verifier = None /\ coverage = None /\ bridge = None /\ grade = None
    /\ entries = {}
    /\ last = "none"
    /\ coveredOn = {}
    /\ clock = 0

Tick == clock < MaxWrites /\ clock' = clock + 1 /\ last' = "none"

-----------------------------------------------------------------------------
(* The gates. *)

RewritePackage ==
    /\ Tick
    /\ package' \in Packages \ {package}
    /\ UNCHANGED <<verifier, coverage, bridge, grade, entries, coveredOn>>

(* Mutant: the verifier hashes the package with the other function.           *)
VerifyWithTreeHash ==
    /\ Tick
    /\ \E passed \in BOOLEAN :
          verifier' = [package |-> TreeHash(package), passed |-> passed]
    /\ UNCHANGED <<package, coverage, bridge, grade, entries, coveredOn>>

Verify ==
    /\ Tick
    /\ \E passed \in BOOLEAN :
          verifier' = [package |-> ListHash(package), passed |-> passed]
    /\ UNCHANGED <<package, coverage, bridge, grade, entries, coveredOn>>

VerifiedNow == verifier # None /\ verifier.package = ListHash(package)

(* The evaluator takes the verification result as it finds it.                *)
EvaluateCoverage ==
    /\ HasCriteria
    /\ Tick
    /\ \E passed \in BOOLEAN :
          /\ coverage' = [at |-> clock', package |-> ListHash(package),
                          verifier |-> verifier, passed |-> passed]
          /\ coveredOn' = IF passed /\ VerifiedNow THEN coveredOn \cup {package}
                          ELSE coveredOn
    /\ UNCHANGED <<package, verifier, bridge, grade, entries>>

(* Mutant: present coverage only has to have passed.                          *)
CoverageFreshPassedOnly(required) ==
    IF coverage = None THEN ~required ELSE coverage.passed

(* Absent coverage is acceptable only where it is not required; present       *)
(* coverage must speak of the verification result and the package there are.  *)
CoverageFresh(required) ==
    IF coverage = None THEN ~required
    ELSE /\ coverage.passed
         /\ coverage.verifier = verifier
         /\ coverage.package = verifier.package
         /\ coverage.package = ListHash(package)

Bridge ==
    /\ Tick
    /\ \E required, othersPass \in BOOLEAN :
          bridge' = [at |-> clock', package |-> ListHash(package),
                     verifier |-> verifier, coverage |-> coverage,
                     passed |-> /\ VerifiedNow /\ verifier.passed
                                /\ CoverageFresh(required)
                                /\ othersPass]
    /\ UNCHANGED <<package, verifier, coverage, grade, entries, coveredOn>>

(* The gate runs the package's own commands inside the package directory,     *)
(* which may write there, and hashes the package afterwards.                  *)
GradeProduct ==
    /\ Tick
    /\ package' \in Packages
    /\ \E passed \in BOOLEAN :
          grade' = [package |-> GradeHash(package'), passed |-> passed]
    /\ UNCHANGED <<verifier, coverage, bridge, entries, coveredOn>>

-----------------------------------------------------------------------------
(* Registration: what LocalSkillRegistry makes of the evidence. *)

CoverageRecorded == IF HasCriteria THEN coverage ELSE None

CoverageAccepted == HasCriteria => coverage # None /\ coverage.passed

(* The bridge result is current: it names the verification result, package    *)
(* and coverage files the registry sees.                                      *)
BridgeAccepted ==
    /\ bridge # None
    /\ bridge.passed
    /\ bridge.verifier = verifier
    /\ bridge.package = ListHash(package)
    /\ CoverageRecorded # None => bridge.coverage = CoverageRecorded

GradeAccepted(required) ==
    /\ grade # None
    /\ grade.package = ListHash(package)
    /\ required => grade.passed

Accepted(requireBridge, requireGrade) ==
    /\ VerifiedNow /\ verifier.passed
    /\ CoverageAccepted
    /\ requireBridge => BridgeAccepted
    /\ requireGrade => GradeAccepted(TRUE)

(* Evidence that was not required is recorded when it is acceptable and left  *)
(* out without a word when it is not.                                         *)
Register(requireBridge, requireGrade) ==
    /\ \/ /\ Accepted(requireBridge, requireGrade)
          /\ entries' = entries \cup
                {[content |-> package, verifier |-> verifier,
                  coverage |-> CoverageRecorded,
                  bridge |-> IF BridgeAccepted THEN bridge ELSE None,
                  grade |-> IF GradeAccepted(requireGrade) THEN grade ELSE None,
                  promoted |-> requireGrade]}
          /\ last' = IF requireGrade THEN "promoted" ELSE "registered"
       \/ /\ ~Accepted(requireBridge, requireGrade)
          /\ last' = IF requireGrade THEN "promotion_refused" ELSE "refused"
          /\ UNCHANGED entries
    /\ UNCHANGED <<package, verifier, coverage, bridge, grade, coveredOn, clock>>

Next ==
    \/ RewritePackage \/ Verify \/ EvaluateCoverage \/ Bridge \/ GradeProduct
    \/ \E requireBridge, requireGrade \in BOOLEAN : Register(requireBridge, requireGrade)

Spec == Init /\ [][Next]_vars

-----------------------------------------------------------------------------
(* Properties *)

(* Where acceptance criteria exist, an entry that records a bridge result     *)
(* rests on one consistent chain: coverage, verification result and bridge    *)
(* speak of the registered package and of each other, and coverage passed on  *)
(* that package, whichever gate ran last and whatever was rewritten between.  *)
BridgedChainIsSound ==
    \A e \in entries : e.bridge # None /\ HasCriteria =>
        /\ e.coverage # None
        /\ e.coverage.package = ListHash(e.content)
        /\ e.coverage.verifier = e.verifier
        /\ e.bridge.verifier = e.verifier
        /\ e.content \in coveredOn
=============================================================================
