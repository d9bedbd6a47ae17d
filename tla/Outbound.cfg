CONSTANTS
  s1 = s1
  s2 = s2
  a1 = a1
  a2 = a2
  c1 = c1
  c2 = c2
  NoAddr = NoAddr
  NoChan = NoChan
  Slots <- TwoSlots
  Addrs <- TwoAddrs
  Chans <- TwoChans
  OwnAddr = a2
  SeedHosts <- OneAddr
SPECIFICATION OutboundFairSpec
INVARIANT NoLostWakeup
PROPERTY SlotRecovers
PROPERTY FirstStopReachesAll
PROPERTY ListeningRemoverRemoves
PROPERTY ImplementsLock
