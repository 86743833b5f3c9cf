\* Two lists, renames and protocol routing, the scheduled run.
SPECIFICATION Spec
CONSTANTS
    u1 = u1
    u2 = u2
    auto = auto
    s1 = s1
    k1 = k1
    m1 = m1
    m2 = m2
    n1 = n1
    NoProc = NoProc
    NoAlias = NoAlias
    Absent = Absent
    NoProvider = NoProvider
    NoEntry = NoEntry
    Unread = Unread
    NoConfig = NoConfig
    Scheduler = auto
    Users = {u1}
    Sites = {s1}
    KeylessSites = {}
    Upstreams = {m1}
    Names <- MCNames1
    Clean <- MCClean1
    Protocol <- MCProtocol1
    Channels = {1, 2}
    Kinds = {"catalog", "save", "settings", "auto"}
    Drafts <- DraftsNames1
    SettingsChoices <- MCRouting
    ProbeChoices <- MCProbes
    EditSlots = {Absent, NoAlias, n1}
    EditSites = {}
    Retain = 1
    MaxSurplus = 1
    InitialConfig <- Start
    EditsInFlight = FALSE
    PutMayFail = FALSE
    GetMayFail = FALSE
    MayCrash = FALSE
INVARIANTS
    SaveConverges
PROPERTIES
    NoBlindOverwrite
