SPECIFICATION Spec
CONSTANTS
    o = o a = a b = b c = c v = v f = f
    NoOwner = NoOwner
    Peers <- MCPeers
    Scopes <- MCScopes
    Chain <- MCChain
    OwnerDid = o
    Statements <- MCStatements
INVARIANTS TypeOK BoundSuffices LoopComputesLeast
CHECK_DEADLOCK FALSE
