\* One model, one list: every mark, a whitelist, probes, the scheduled run.
SPECIFICATION HSpec
CONSTANTS
    u1 = u1
    u2 = u2
    auto = auto
    s1 = s1
    k1 = k1
    m1 = m1
    m2 = m2
    n1 = n1
    NoProc = NoProc
    NoAlias = NoAlias
    Absent = Absent
    NoProvider = NoProvider
    NoEntry = NoEntry
    Unread = Unread
    NoConfig = NoConfig
    Scheduler = auto
    Users = {u1}
    Sites = {s1}
    KeylessSites = {}
    Upstreams = {m1}
    Names <- MCNames1
    Clean <- MCClean1
    Protocol <- MCProtocolA
    Channels = {1}
    Kinds = {"catalog", "save", "refresh", "settings", "auto"}
    Drafts <- DraftsMarks1
    SettingsChoices <- MCSettings
    ProbeChoices <- MCProbes
    EditSlots = {Absent, NoAlias}
    EditSites = {s1}
    Retain = 1
    MaxSurplus = 1
    InitialConfig <- Start
    EditsInFlight = FALSE
    PutMayFail = FALSE
    GetMayFail = FALSE
    MayCrash = FALSE
INVARIANTS
    TypeOK
    WithheldSurvives
    NoResurrection
    ConflictIsReal
