\* Transactions of two requests that compete for two connections over one IO
\* thread.  The one that may be cancelled opens three scopes, nested up to three
\* deep; the other opens two.
SPECIFICATION Spec
CONSTANTS
    Requests = {r1, r2}
    Connections = {k1, k2}
    Nobody = nobody
    Options = {rw, ro}
    IOThreads = 1
    MaxScopes = 3
    Budget <- Budgets
    MaxDepth = 3
    Cancellable = {r1}
SYMMETRY Interchangeable
INVARIANTS
    DatabaseInv
    ConnectionsAccountedFor
    OptionsAreHonoured
    CommittedByTheOutermostScope
PROPERTIES
    TransactionsAreUnits
