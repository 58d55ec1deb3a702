\* A sequential block, as every action under src/ is, with every fault.
SPECIFICATION FairSpec
CONSTANTS
    Owner = owner
    Children = {}
    Nobody = nobody
    Writes = {w1, w2, w3}
    Swallows = {}
    FailingHooks = {"beforeCommit", "afterCommit", "afterRollback", "afterCompletion"}
    Faults = {"sql", "link", "cancel"}
PROPERTIES
    ImplementsUnitOfWork
