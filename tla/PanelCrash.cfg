\* A site with two models that stops listing one; CPA calls fail and the
\* process may die anywhere.
SPECIFICATION HSpec
CONSTANTS
    u1 = u1
    u2 = u2
    auto = auto
    s1 = s1
    k1 = k1
    m1 = m1
    m2 = m2
    n1 = n1
    NoProc = NoProc
    NoAlias = NoAlias
    Absent = Absent
    NoProvider = NoProvider
    NoEntry = NoEntry
    Unread = Unread
    NoConfig = NoConfig
    Scheduler = auto
    Users = {u1}
    Sites = {s1}
    KeylessSites = {}
    Upstreams = {m1, m2}
    Names <- MCNames2
    Clean <- MCClean2
    Protocol <- MCProtocol2
    Channels = {1}
    Kinds = {"catalog", "save", "refresh"}
    Drafts <- DraftsHide1
    SettingsChoices <- MCSettings
    ProbeChoices <- MCProbes2
    EditSlots = {Absent}
    EditSites = {}
    Retain = 1
    MaxSurplus = 1
    InitialConfig <- Start
    EditsInFlight = FALSE
    PutMayFail = TRUE
    GetMayFail = TRUE
    MayCrash = TRUE
INVARIANTS
    SaveConverges
PROPERTIES
    NoDelistedWrite
