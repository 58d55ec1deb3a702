\* One sibling and no fault at all: the block just throws.
SPECIFICATION Spec
CONSTANTS
    Owner = owner
    Children = {c1}
    Nobody = nobody
    Writes = {w1}
    Swallows = {}
    FailingHooks = {}
    Faults = {}
INVARIANTS
    RolledBackLeavesNothing
