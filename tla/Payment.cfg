CONSTANT Order = 2
CONSTANT Cashier = 1
CONSTANT Wallets = {2, 3}
CONSTANT Amounts = {1, 2}
CONSTANT Depth = 4
CONSTANT MaxClear = 1
CONSTANT MaxInputs = 2
CONSTANT MaxOutputs = 2
CONSTANT Schedules <- MCSchedules
SPECIFICATION Spec
INVARIANT VerifiesIffBalanced
INVARIANT NoteOpensOutput
INVARIANT RootIsReference
INVARIANT WitnessFollows
INVARIANT PathProves
CHECK_DEADLOCK FALSE
