SPECIFICATION Spec
CONSTANTS
    o = o a = a b = b f = f x = x p = p q = q n = n r = r m = m k = k
    NoOwner = NoOwner
    NoRef = NoRef
    Null = Null
    Peers <- MCPeers
    Scopes <- MCScopes
    Chain <- MCChain
    DidRank <- MCDidRank
    Fractals = {f}
    Petals = {p}
    Nodes = {n}
    Readings = {r}
    Rows <- MCMerge
    RoleStates <- MCWriters
    Local = o
    VerseCap = 2
    AuthorCap = 2
    Foreign = {}
    Commands = {"delete", "default", "edit"}
    Ahead = {2}
    MaxHlc = 2
    Watched = {n}
    MaxFailures = 1
INVARIANTS TypeOK QueueSound NodeOrderFree
