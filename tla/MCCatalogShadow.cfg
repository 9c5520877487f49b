SPECIFICATION Spec
CONSTANTS
  Names <- MCNames
  Texts <- MCTexts
  Empty = Empty
  Absent = Absent
  Installed <- MCInstalled
  Tools <- MCTools
  Unnamed = Unnamed
  Slug <- MCSlug
  Registries <- MCRegistries
  EvalDirs <- MCEvalDirs
  Thresholds <- MCThresholds
  MaxSkills = 2
  MaxCases = 2
  MaxCalls = 1
CHECK_DEADLOCK FALSE
INVARIANTS
  FlatFirst
