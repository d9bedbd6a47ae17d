CONSTANT wallet = wallet
CONSTANT pair = pair
CONSTANT eager = eager
CONSTANT one = one
CONSTANT two = two
CONSTANT Nobody = Nobody
CONSTANT Base = 256
CONSTANT Cap = 1
CONSTANT Clients <- AllClients
CONSTANT Patient <- Wallets
CONSTANT Workers <- TwoWorkers
CONSTANT Script <- Messages
SPECIFICATION FairSpec
INVARIANT OwnReplies
PROPERTY Resolved
CHECK_DEADLOCK FALSE
