CONSTANT Constants <- MCConstants
CONSTANT Sources <- MCSources
CONSTANT P = 3
CONSTANT Bits = 2
CONSTANT MaxAttempts = 2
SPECIFICATION Spec
INVARIANT RunsAsWritten
INVARIANT VerifiesIffEquationsHold
CHECK_DEADLOCK FALSE
