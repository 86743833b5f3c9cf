\* Any lists of up to MaxEntries entries, and the operations on entries.
SPECIFICATION Spec
CONSTANTS
    a = a
    h1 = h1
    h2 = h2
    k1 = k1
    k2 = k2
    NoName = NoName
    NoKey = NoKey
    Hosts = {h1, h2}
    Labels <- MCLabels
    Keys = {k1, k2}
    Shapes <- MCShapes
    MaxEntries = 4
INVARIANTS
    TypeOK
    GroupsApart
    GroupsAreAccounts
PROPERTIES
    SaveFoundsNoSite
    DeleteTakesOneSite
    EggIsNamed
