CONSTANT Nonces = {n1, n2}
CONSTANT MaxStray = 1
SPECIFICATION PingFairSpec
INVARIANT NoFalseAlarm
PROPERTY HeartbeatGoesOn
CHECK_DEADLOCK FALSE
