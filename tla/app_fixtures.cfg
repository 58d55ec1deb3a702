\* The fixtures are loaded twice.
SPECIFICATION Spec
CONSTANTS
    Requests = {r1}
    PoolSizes = {3}
    WarmUpSize = 2
    OtherUsers = 2
    MaxRuns = 2
    MaxOutages = 0
INVARIANTS
    FixturesStartFresh
