\* Two requests, two rows, two columns, two transactions.
SPECIFICATION FairSpec
CONSTANTS
    Requests = {r1, r2}
    Ids = {i1, i2}
    Columns = {f1, f2}
    Nobody = nobody
    Nothing = nothing
    MaxTransactions = 2
    MaxCalls = 2
INVARIANTS
    RecordsInv
    NothingForgotten
    NobodyIsStuck
PROPERTIES
    UpdatesKeepTheRest
    DeletedStaysDeleted
    TransactionsEnd
