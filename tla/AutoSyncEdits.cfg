\* Two tabs edit the schedule while the loop reads, waits, fails and stops.
SPECIFICATION FairSpec
CONSTANTS
    u1 = u1
    u2 = u2
    off = off
    hourly = hourly
    daily = daily
    NoConfig = NoConfig
    Users = {u1, u2}
    Configs = {off, hourly, daily}
    Enabled = {hourly, daily}
    ReadMayFail = TRUE
    MayStop = TRUE
PROPERTIES
    RunsAsConfigured
    StopReturns
    EditTakesEffect
    ScheduledRuns
