SPECIFICATION FairSpec
CONSTANTS
  Files <- MCFiles
  Inputs <- MCInputs
  Dollar = "$"
  Augmented = "S'"
  MaxReductions = 30
  MaxWord = 5
INVARIANTS
  MergeOnlyReduceReduce
  StackSpellsPath
  AcceptsLanguage
  ErrorAtFirstBadToken
PROPERTIES
  ImplementsDerivation
  ParsingEnds
CHECK_DEADLOCK FALSE
