SPECIFICATION Spec
CONSTANTS
    o = o a = a b = b c = c v = v f = f
    NoOwner = NoOwner
    Peers <- MCPeers
    Scopes <- MCScopes
    Chain <- MCChain
    Inbound <- MCInbound
    Local = b
    Budget = 2
    MaxRounds = 8
    MaxClock = 1
    Faults = {}
INVARIANTS AllAdmittedAdmissible
CHECK_DEADLOCK FALSE
