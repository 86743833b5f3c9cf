\* Rollback, deletion, eggs and the sweep; writes fail and the process may die.
SPECIFICATION Spec
CONSTANTS
    u1 = u1
    u2 = u2
    auto = auto
    s1 = s1
    k1 = k1
    m1 = m1
    m2 = m2
    n1 = n1
    NoProc = NoProc
    NoAlias = NoAlias
    Absent = Absent
    NoProvider = NoProvider
    NoEntry = NoEntry
    Unread = Unread
    NoConfig = NoConfig
    Scheduler = auto
    Users = {u1}
    Sites = {s1, k1}
    KeylessSites = {k1}
    Upstreams = {m1}
    Names <- MCNames1
    Clean <- MCClean1
    Protocol <- MCProtocolA
    Channels = {1, 2}
    Kinds = {"catalog", "save", "refresh", "refreshSite", "rollback", "delete", "egg"}
    Drafts <- DraftsHide1
    SettingsChoices <- MCSettings
    ProbeChoices <- MCProbes
    EditSlots = {Absent}
    EditSites = {}
    Retain = 1
    MaxSurplus = 1
    InitialConfig <- Start
    EditsInFlight = FALSE
    PutMayFail = TRUE
    GetMayFail = FALSE
    MayCrash = TRUE
INVARIANTS
    CoveredWrites
