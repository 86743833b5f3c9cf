\* Two requests at a time over a window of at most three events, one to a page.
SPECIFICATION FairSpec
CONSTANTS
    r1 = r1
    r2 = r2
    Requests = {r1, r2}
    Nobody = Nobody
    MaxEvents = 3
    PageSize = 1
    MaxPages = 3
INVARIANTS
    TypeOK
PROPERTIES
    ExpiryHeals
    DriftBounded
    Answered
