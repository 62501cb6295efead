SPECIFICATION FairSpec
CONSTANTS
  Alphabet <- MCAlphabet
  SpecLists <- MCSpecLists
  Inputs <- MCInputs
  MaxSymbols = 4
  MaxWord = 4
  MaxInput = 4
INVARIANTS FragmentsSealed RejectsMalformed AcceptsSpecified
PROPERTIES Terminates ImplementsMaximalMunch
CHECK_DEADLOCK FALSE
