\* Three processes, one of them at most with a pool too small to warm up, one
\* outage, two logins each.
SPECIFICATION FairSpec
CONSTANTS
    Requests = {r1, r2}
    PoolSizes = {1, 3}
    WarmUpSize = 2
    OtherUsers = 2
    MaxRuns = 3
    MaxOutages = 1
INVARIANTS
    LifecycleInv
    FixturesAreAtomic
    StartFailsForAReason
    ConnectionsAreGivenBack
    AnswersHaveACause
PROPERTIES
    EveryRunSettles
