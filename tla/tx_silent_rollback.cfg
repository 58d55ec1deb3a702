\* A sequential block that catches the exception of a failed statement.
SPECIFICATION Spec
CONSTANTS
    Owner = owner
    Children = {}
    Nobody = nobody
    Writes = {w1, w2}
    Swallows = {owner}
    FailingHooks = {}
    Faults = {"sql"}
INVARIANTS
    OkMeansCommitted
