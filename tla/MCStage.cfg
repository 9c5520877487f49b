SPECIFICATION Spec
CONSTANTS
  Lines <- MCLines
  Vocabulary <- MCVocabulary
  Questions <- MCQuestions
  ContentMax = 6
  ToolMax = 2
  SubjectMax = 2
  PatternMax = 2
  Width = 4
  MaxFaults = 2
INVARIANTS
  TypeOK
  DefiniteIsRight
  AnsweredWithinLimits
  ReviewRight
  
