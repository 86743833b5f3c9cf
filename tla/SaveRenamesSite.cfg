\* A save gives a site that only codex or claude serves an openai entry.
SPECIFICATION Spec
CONSTANTS
    a = a
    h1 = h1
    h2 = h2
    k1 = k1
    k2 = k2
    NoName = NoName
    NoKey = NoKey
    Hosts = {h1, h2}
    Labels <- MCLabels
    Keys = {k1, k2}
    Shapes <- MCShapes
    MaxEntries = 3
PROPERTIES
    SaveKeepsIds
