\* One account in two channels, two models, lists of up to three entries that
\* may repeat a name, two providers of the account in one channel.
SPECIFICATION Spec
CONSTANTS
    s1 = s1
    other = other
    m1 = m1
    m2 = m2
    n1 = n1
    f1 = f1
    f2 = f2
    NoAlias = NoAlias
    NoFields = NoFields
    NoEntry = NoEntry
    NoCopy = NoCopy
    Absent = Absent
    NoProvider = NoProvider
    Foreign = other
    Sites = {s1}
    Upstreams = {m1, m2}
    Aliases = {n1}
    Protocol <- MCProtocol
    Clean <- MCClean
    NChannels = 2
    Fields = {f1, f2}
    Priorities = {0, 1}
    Rank <- MCRank
    Starts <- MCStarts
    Drafts <- MCDrafts
    Answers <- MCAnswers
    EditModels <- MCEdits
    MaxEdits = 1
INVARIANTS
    TypeOK
PROPERTIES
    UntoldUntouched
    RestoredWhole
    SaveIsFixpoint
    EmptyDraftReproduces
    ImplementsSets
