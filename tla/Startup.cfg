CONSTANT a = a
CONSTANT b = b
CONSTANT Seeds <- TwoSeeds
CONSTANT Answers <- Lists
CONSTANT MaxChannels = 3
CONSTANT MaxStops = 1
SPECIFICATION FairStart
INVARIANT StartsIfAnswered
INVARIANT DuplicatesNeedARace
INVARIANT EachOnceInOrder
PROPERTY PublishedIsSetUp
PROPERTY ErrorReachesSession
PROPERTY ImplementsNode
CHECK_DEADLOCK FALSE
