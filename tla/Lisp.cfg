CONSTANT P = 13
CONSTANT Bits = 4
CONSTANT Prelude <- Library
CONSTANT Files <- Shelf
SPECIFICATION Spec
INVARIANT Kept
INVARIANT Lexical
INVARIANT CurveGadgets
INVARIANT ProofsDecide
CHECK_DEADLOCK FALSE
