SPECIFICATION Spec
CONSTANTS
  None = None
  Packages <- MCPackages
  Items <- MCItems
  SkillItems <- MCSkillItems
  FixtureItems <- MCFixtureItems
  Names <- MCNames
  Named = {"static"}
  Judges = {"approves"}
  Budgets <- MCBudgets
  CriteriaSets <- MCCriteriaSets
  Opinions = {"opinion"}
  SyntheticIds = {"boundary"}
  Needs <- MCNeeds
  Callers = {c1, c2}
  Versions = {"1.0.0", "1.0.1", "1.0.2"}
  Original = "1.0.0"
  Wanted = {"1.0.0"}
  Suggested <- MCSuggested
  Feedbacks = {"f1", "f2"}
  AboutOf <- MCAboutOf
  Built <- Sound
SYMMETRY Symmetry
CHECK_DEADLOCK FALSE
INVARIANTS
  TypeOK
  RepairedPassedGates
  ReportedIsRegistered
  LineageIsSound
  CoverageIsEarned
