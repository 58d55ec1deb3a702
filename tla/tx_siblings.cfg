\* A block with two siblings, safety and liveness; statements fail, hooks throw,
\* the scope is cancelled, the connection breaks, exceptions are swallowed.
SPECIFICATION FairSpec
CONSTANTS
    Owner = owner
    Children = {c1, c2}
    Nobody = nobody
    Writes = {w1, w2}
    Swallows = {c1, c2}
    FailingHooks = {"beforeCommit", "afterCommit", "afterRollback", "afterCompletion"}
    Faults = {"sql", "link", "cancel"}
INVARIANTS
    IInv
    SuccessIsDurable
    RollbackHooksOnlyAfterRollback
    CommitHooksOnlyAfterCommit
    EndIsRecorded
PROPERTIES
    EscapeOnlyInWindow
    QuietAfterReturn
    ConnectionIsEvicted
