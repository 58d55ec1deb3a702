\* Two applications that share two threads, and two calls.
SPECIFICATION FairSpec
CONSTANTS
    Apps = {a1, a2}
    Threads = {t1, t2}
    Calls = {c1, c2}
    Nobody = nobody
INVARIANTS
    PipelineInv
    ResolvesOwnKoin
    ThreadsAreRestored
    StatusTellsTheEffect
    DocumentationIsTrue
PROPERTIES
    CallsEnd
