\* Two requests that each nest a second transaction: two connections, one IO
\* thread.
SPECIFICATION FairSpec
CONSTANTS
    Requests = {r1, r2}
    Connections = {k1, k2}
    Nobody = nobody
    Options = {rw}
    IOThreads = 1
    MaxScopes = 2
    Budget <- Budgets
    MaxDepth = 2
    Cancellable = {}
PROPERTIES
    PoolRecovers
