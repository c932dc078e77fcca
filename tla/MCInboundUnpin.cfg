SPECIFICATION Spec
CONSTANTS
    o = o a = a b = b f = f x = x p = p q = q n = n r = r m = m k = k
    NoOwner = NoOwner
    NoRef = NoRef
    Null = Null
    Peers <- MCPeers
    Scopes <- MCScopes
    Chain <- MCChain
    DidRank <- MCDidRank
    Fractals = {f}
    Petals = {p}
    Nodes = {n}
    Readings = {r}
    Rows <- MCOpenVisit
    RoleStates <- MCUnpin
    Local = o
    VerseCap = 5
    AuthorCap = 3
    Foreign = {}
    Commands = {}
    Ahead = {}
    MaxHlc = 0
    Watched = {}
    MaxFailures = 0
INVARIANTS NoneWaitsInVain
CHECK_DEADLOCK FALSE
