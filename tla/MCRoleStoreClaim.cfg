SPECIFICATION Spec
CONSTANTS
    o = o a = a b = b c = c v = v f = f
    NoOwner = NoOwner
    Peers <- MCPeers
    Scopes <- MCScopes
    Chain <- MCChain
    Inbound <- MCDelegated
    Local = b
    Budget = 2
    MaxRounds = 8
    MaxClock = 0
    Faults = {"claim"}
INVARIANTS CacheFollowsOwner
CHECK_DEADLOCK FALSE
