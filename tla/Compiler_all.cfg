SPECIFICATION CompilerSpec
CONSTANT Programs <- MCCompiled
INVARIANTS
  PrintsMeaning
  ObjectsIntact
  ExecutableIsCurrent
  OrderDoesNotMatter
  InferredIsDerivable
