SPECIFICATION CompilerSpec
CONSTANT Programs <- MCOrders
INVARIANT DeclaredAnywhere
