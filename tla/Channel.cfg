CONSTANTS
  p1 = p1
  r1 = r1
  r2 = r2
  w1 = w1
  w2 = w2
  addr = addr
  ping = ping
  Err = Err
  Callers <- OneCaller
  Readers <- TwoReaders
  Watchers <- OneWatcher
  Commands <- TwoCommands
  CommandOf <- SameCommand
  MaxMessages = 1
  MaxStops = 2
SPECIFICATION FairSpec
PROPERTY ReadersReleased
PROPERTY ReceiveTaskEnds

INVARIANT Delivery
INVARIANT PanicHasCause
CHECK_DEADLOCK FALSE
