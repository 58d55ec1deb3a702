\* One request that is cancelled while it waits for its connection.
SPECIFICATION Spec
CONSTANTS
    Requests = {r1}
    Connections = {k1}
    Nobody = nobody
    Options = {rw}
    IOThreads = 1
    MaxScopes = 1
    Budget <- Budgets
    MaxDepth = 1
    Cancellable = {r1}
INVARIANTS
    EndedRequestsHoldNothing
