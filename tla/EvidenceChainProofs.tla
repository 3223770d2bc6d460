------------------------- MODULE EvidenceChainProofs -------------------------
(* Theorems about EvidenceChain for every set of package contents and every   *)
(* number of rewrites and gate runs.                                          *)
EXTENDS EvidenceChain, TLAPS

(* Different contents have different hashes.                                  *)
LEMMA ListHashInjective ==
    ASSUME NEW c, NEW d, ListHash(c) = ListHash(d) PROVE c = d
BY DEF ListHash

-----------------------------------------------------------------------------
(* Types *)

LEMMA TypeStep == EvidenceAssumption /\ TypeOK /\ [Next]_vars => TypeOK'
<1> SUFFICES ASSUME EvidenceAssumption, TypeOK, [Next]_vars PROVE TypeOK'
  OBVIOUS
<1>1. ASSUME Tick
      PROVE  clock' \in 1..MaxWrites /\ clock' \in 0..MaxWrites /\ last' \in Outcomes
  BY <1>1 DEF Tick, TypeOK, EvidenceAssumption, Outcomes
<1>2. CASE RewritePackage
  BY <1>1, <1>2 DEF RewritePackage, TypeOK
<1>3. CASE Verify
  <2>1. verifier' \in VerifierFile
    BY <1>3 DEF Verify, VerifierFile, TypeOK
  <2> QED BY <1>1, <1>3, <2>1 DEF Verify, TypeOK
<1>4. CASE EvaluateCoverage
  <2>1. coverage' \in CoverageFile /\ coveredOn' \subseteq Packages
    BY <1>1, <1>4 DEF EvaluateCoverage, CoverageFile, TypeOK
  <2> QED BY <1>1, <1>4, <2>1 DEF EvaluateCoverage, TypeOK
<1>5. CASE Bridge
  <2>1. PICK required \in BOOLEAN, othersPass \in BOOLEAN :
          bridge' = [at |-> clock', package |-> ListHash(package),
                     verifier |-> verifier, coverage |-> coverage,
                     passed |-> /\ VerifiedNow /\ verifier.passed
                                /\ CoverageFresh(required)
                                /\ othersPass]
    BY <1>5 DEF Bridge
  <2>2. (VerifiedNow /\ verifier.passed /\ CoverageFresh(required) /\ othersPass) \in BOOLEAN
    OBVIOUS
  <2>3. bridge' \in BridgeFile
    BY <1>1, <1>5, <2>1, <2>2 DEF Bridge, BridgeFile, TypeOK
  <2> QED BY <1>1, <1>5, <2>3 DEF Bridge, TypeOK
<1>6. CASE GradeProduct
  <2>1. grade' \in GradeFile
    BY <1>6 DEF GradeProduct, GradeFile
  <2> QED BY <1>1, <1>6, <2>1 DEF GradeProduct, TypeOK
<1>7. ASSUME NEW rb \in BOOLEAN, NEW rg \in BOOLEAN, Register(rb, rg) PROVE TypeOK'
  <2> DEFINE e == [content |-> package, verifier |-> verifier,
                   coverage |-> CoverageRecorded,
                   bridge |-> IF BridgeAccepted THEN bridge ELSE None,
                   grade |-> IF GradeAccepted(rg) THEN grade ELSE None,
                   promoted |-> rg]
  <2>1. ASSUME Accepted(rb, rg) PROVE e \in Entry
    <3>1. verifier \in VerifierFile
      BY <2>1 DEF Accepted, VerifiedNow, TypeOK
    <3>2. CoverageRecorded \in CoverageFile \cup {None}
      BY DEF CoverageRecorded, TypeOK
    <3> QED BY <3>1, <3>2 DEF Entry, TypeOK
  <2>2. entries' \subseteq Entry
    BY <1>7, <2>1 DEF Register, TypeOK
  <2>3. last' \in Outcomes
    BY <1>7 DEF Register, Outcomes
  <2> QED BY <1>7, <2>2, <2>3 DEF Register, TypeOK
<1>8. CASE UNCHANGED vars
  BY <1>8 DEF vars, TypeOK
<1> QED BY <1>2, <1>3, <1>4, <1>5, <1>6, <1>7, <1>8 DEF Next

(* Every evidence file and registry entry has the shape its reader expects,    *)
(* for every set of packages: what is recorded as evidence of an entry is a    *)
(* file a gate wrote, and the verification result is never absent.             *)
THEOREM TypeCorrect == Spec => []TypeOK
<1>1. Init => TypeOK
  BY EvidenceAssumption DEF Init, TypeOK, EvidenceAssumption, Outcomes
<1> QED BY <1>1, TypeStep, EvidenceAssumption, PTL DEF Spec

-----------------------------------------------------------------------------
(* The invariant: a passing coverage file that names a verification of its    *)
(* own package testifies for that package, and a passing bridge file with     *)
(* coverage testifies for the whole chain as it was when it ran.              *)

CoverageTestifies ==
    coverage # None /\ coverage.passed
    /\ coverage.verifier # None /\ coverage.verifier.package = coverage.package
        => \A c \in Packages : coverage.package = ListHash(c) => c \in coveredOn

BridgeTestifies ==
    bridge # None /\ bridge.passed /\ bridge.coverage # None =>
        /\ bridge.coverage.verifier = bridge.verifier
        /\ bridge.coverage.package = bridge.package
        /\ \A c \in Packages : bridge.package = ListHash(c) => c \in coveredOn

ChainInv == /\ package \in Packages
            /\ CoverageTestifies /\ BridgeTestifies /\ BridgedChainIsSound

LEMMA ChainInit == Init => ChainInv
BY DEF Init, ChainInv, CoverageTestifies, BridgeTestifies, BridgedChainIsSound

LEMMA ChainStep == ChainInv /\ [Next]_vars => ChainInv'
<1> SUFFICES ASSUME ChainInv, [Next]_vars PROVE ChainInv'
  OBVIOUS
<1> USE DEF ChainInv
<1>1. ASSUME RewritePackage \/ Verify \/ GradeProduct PROVE ChainInv'
  BY <1>1 DEF RewritePackage, Verify, GradeProduct, CoverageTestifies, BridgeTestifies,
              BridgedChainIsSound
<1>2. ASSUME EvaluateCoverage PROVE ChainInv'
  <2>1. PICK passed \in BOOLEAN :
          /\ coverage' = [at |-> clock', package |-> ListHash(package),
                          verifier |-> verifier, passed |-> passed]
          /\ coveredOn' = IF passed /\ VerifiedNow THEN coveredOn \cup {package}
                          ELSE coveredOn
    BY <1>2 DEF EvaluateCoverage
  <2>2. coveredOn \subseteq coveredOn' /\ UNCHANGED <<package, verifier, bridge, entries>>
    BY <1>2, <2>1 DEF EvaluateCoverage
  <2>3. CoverageTestifies'
    <3> SUFFICES ASSUME passed, verifier # None, verifier.package = ListHash(package),
                        NEW c \in Packages, ListHash(package) = ListHash(c)
                 PROVE  c \in coveredOn'
      BY <2>1, <2>2 DEF CoverageTestifies
    <3>1. VerifiedNow
      BY DEF VerifiedNow
    <3> QED BY <2>1, <3>1, ListHashInjective
  <2>4. BridgeTestifies' /\ BridgedChainIsSound'
    BY <2>2 DEF BridgeTestifies, BridgedChainIsSound
  <2> QED BY <2>2, <2>3, <2>4
<1>3. ASSUME Bridge PROVE ChainInv'
  <2>1. PICK required \in BOOLEAN, othersPass \in BOOLEAN :
          bridge' = [at |-> clock', package |-> ListHash(package),
                     verifier |-> verifier, coverage |-> coverage,
                     passed |-> /\ VerifiedNow /\ verifier.passed
                                /\ CoverageFresh(required)
                                /\ othersPass]
    BY <1>3 DEF Bridge
  <2>2. UNCHANGED <<package, verifier, coverage, entries, coveredOn>>
    BY <1>3 DEF Bridge
  <2>3. BridgeTestifies'
    <3> SUFFICES ASSUME bridge'.passed, coverage # None
                 PROVE  /\ coverage.verifier = verifier
                        /\ coverage.package = ListHash(package)
                        /\ \A c \in Packages : ListHash(package) = ListHash(c) => c \in coveredOn
      BY <2>1, <2>2 DEF BridgeTestifies
    <3>1. VerifiedNow /\ CoverageFresh(required)
      BY <2>1
    <3>2. /\ coverage.passed /\ coverage.verifier = verifier
          /\ coverage.package = verifier.package /\ coverage.package = ListHash(package)
      BY <3>1 DEF CoverageFresh
    <3>3. verifier # None
      BY <3>1 DEF VerifiedNow
    <3> QED BY <3>2, <3>3 DEF CoverageTestifies
  <2>4. CoverageTestifies' /\ BridgedChainIsSound'
    BY <2>2 DEF CoverageTestifies, BridgedChainIsSound
  <2> QED BY <2>2, <2>3, <2>4
<1>4. ASSUME NEW rb \in BOOLEAN, NEW rg \in BOOLEAN, Register(rb, rg) PROVE ChainInv'
  <2>1. CoverageTestifies' /\ BridgeTestifies'
    BY <1>4 DEF Register, CoverageTestifies, BridgeTestifies
  <2>2. BridgedChainIsSound'
    <3>1. CASE entries' = entries
      BY <1>4, <3>1 DEF Register, BridgedChainIsSound
    <3>2. CASE entries' # entries
      <4> DEFINE e == [content |-> package, verifier |-> verifier,
                       coverage |-> CoverageRecorded,
                       bridge |-> IF BridgeAccepted THEN bridge ELSE None,
                       grade |-> IF GradeAccepted(rg) THEN grade ELSE None,
                       promoted |-> rg]
      <4>1. Accepted(rb, rg) /\ entries' = entries \cup {e} /\ coveredOn' = coveredOn
        BY <1>4, <3>2 DEF Register
      <4>2. ASSUME e.bridge # None, HasCriteria
            PROVE  /\ e.coverage # None
                   /\ e.coverage.package = ListHash(e.content)
                   /\ e.coverage.verifier = e.verifier
                   /\ e.bridge.verifier = e.verifier
                   /\ e.content \in coveredOn
        <5>1. BridgeAccepted /\ e.bridge = bridge
          BY <4>2
        <5>2. coverage # None /\ CoverageRecorded = coverage
          BY <4>1, <4>2 DEF Accepted, CoverageAccepted, CoverageRecorded
        <5>3. bridge.coverage = coverage /\ bridge.verifier = verifier
              /\ bridge.package = ListHash(package) /\ bridge # None /\ bridge.passed
          BY <5>1, <5>2 DEF BridgeAccepted
        <5>4. /\ coverage.verifier = verifier /\ coverage.package = ListHash(package)
              /\ package \in coveredOn
          BY <5>2, <5>3 DEF BridgeTestifies
        <5> QED BY <5>1, <5>2, <5>3, <5>4
      <4> QED BY <4>1, <4>2 DEF BridgedChainIsSound
    <3> QED BY <3>1, <3>2
  <2> QED BY <1>4, <2>1, <2>2 DEF Register
<1>5. CASE UNCHANGED vars
  BY <1>5 DEF vars, CoverageTestifies, BridgeTestifies, BridgedChainIsSound
<1> QED BY <1>1, <1>2, <1>3, <1>4, <1>5 DEF Next

(* Where acceptance criteria exist, every entry that records a   *)
(* ContextForge bridge result rests on coverage and verification of the very  *)
(* package it registers, whatever order the gates and the workers ran in.     *)
THEOREM BridgedEntriesAreCovered == Spec => []BridgedChainIsSound
<1>1. ChainInv => BridgedChainIsSound
  BY DEF ChainInv
<1> QED BY <1>1, ChainInit, ChainStep, PTL DEF Spec
=============================================================================
