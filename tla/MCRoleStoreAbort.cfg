SPECIFICATION Spec
CONSTANTS
    o = o a = a b = b c = c v = v f = f
    NoOwner = NoOwner
    Peers <- MCPeers
    Scopes <- MCScopes
    Chain <- MCChain
    Inbound <- MCDelegated
    Local = b
    Budget = 1
    MaxRounds = 1
    MaxClock = 1
    Faults = {"crash", "abort", "drop", "claim"}
PROPERTIES LiveVersionsAdvance NeverReplayed
