SPECIFICATION Spec
CONSTANTS
    o = o a = a b = b f = f x = x p = p q = q n = n r = r m = m k = k
    NoOwner = NoOwner
    NoRef = NoRef
    Null = Null
    Peers <- MCPeers
    Scopes <- MCScopes
    Chain <- MCChain
    DidRank <- MCDidRank
    Fractals = {f, x}
    Petals = {p, q, r}
    Nodes = {n, m}
    Readings = {}
    Rows <- MCMoves
    RoleStates <- MCSplitRoles
    Local = o
    VerseCap = 2
    AuthorCap = 1
    Foreign = {x, q, m}
    Commands = {"role", "delete"}
    Ahead = {}
    MaxHlc = 0
    Watched = {}
    MaxFailures = 0
PROPERTIES WritersHadTheRole ForeignRowsUntouched QueueHoldsLatest TombstonesStay
