SPECIFICATION FairSpec
CONSTANTS
  Keys = {1, 2, 3}
  Values = {10, 20}
  NoValue = NoValue
  NoKey = NoKey
  Bits = 4
  Hashes <- MCHashes
  ProbeLength = 2
  InitialLog = 1
INVARIANT TablesOK
PROPERTIES ImplementsMap PutReturns
