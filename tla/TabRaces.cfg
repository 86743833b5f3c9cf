\* One key, two requests in flight.
SPECIFICATION FairSpec
CONSTANTS
    k1 = k1
    k2 = k2
    Keys = {k1}
    MaxCalls = 2
    NoView = NoView
INVARIANTS
    TypeOK
    OneSaveAtATime
PROPERTIES
    EditsAccountedFor
    Usable
