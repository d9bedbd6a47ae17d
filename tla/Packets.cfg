CONSTANT quick = quick
CONSTANT slow = slow
CONSTANT Free = Free
CONSTANT Base = 256
CONSTANT MaxSent = 4
CONSTANT Kept = {0, 2, 6, 9, 12}
CONSTANT Tasks <- TwoTasks
CONSTANT Outbox <- TwoBoxes
SPECIFICATION FairSpec
INVARIANT InOrder
INVARIANT OneBadPerCut
INVARIANT NumbersExact
PROPERTY SentArrives
CHECK_DEADLOCK FALSE
