\* Any three requests, one of which may break, with answers that get lost.  One
\* of them does not accept JSON: its answer says nothing of what it did.
\* Addresses do not interact: there is one, in every kind of spelling.
SPECIFICATION Spec
CONSTANTS
    Requests = {r1, r2, r3}
    Nobody = nobody
    Addresses = {a}
    Spellings = {lower, upper, padded, hidden}
    Padded = {padded}
    Hidden = {hidden}
    Passwords = {p1, p2}
    Picky = {r3}
    MaxFaults = 1
SYMMETRY Interchangeable
INVARIANTS
    AccountsInv
    AnswersAreTrue
    InternalErrorsHaveACause
    OnlyUsersList
    DuplicatesNeedOverlap
    DuplicatesLockOut
PROPERTIES
    ImplementsDirectory
