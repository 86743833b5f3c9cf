------------------------------ MODULE AutoSync ------------------------------
(***************************************************************************)
(* The scheduler of the background sync (internal/api/auto_sync.go): one   *)
(* goroutine that reads its configuration, publishes the time of the next  *)
(* run, waits for it or for a settings edit, and runs; the handlers that   *)
(* store an edit and wake it; and its shutdown.  One action per critical   *)
(* section of autoMu, statement of the store, or channel operation.        *)
(*                                                                         *)
(* A timestamp is abstracted to whether autoNextRun holds the one the loop *)
(* published last: setAutoSyncState writes nothing else but "".  A run is  *)
(* one step here; Panel models what happens inside it.                     *)
(***************************************************************************)
CONSTANTS
    Users,        \* browser tabs, each with one PUT at a time
    Configs,      \* the configurations Validate accepts
    Enabled,      \* those that switch the sync on
    NoConfig,     \* what the loop holds after a failed read
    ReadMayFail,  \* BOOLEAN: the store may fail to give the configuration
    MayStop       \* BOOLEAN: StopAutoSync is called

ASSUME AutoSyncAssumption ==
    /\ Enabled \subseteq Configs
    /\ NoConfig \notin Configs
    /\ ReadMayFail \in BOOLEAN /\ MayStop \in BOOLEAN

VARIABLES
    config,       \* auto_sync_config in the store
    autoStarted, autoRunning,
    scheduled,    \* autoNextRun is the timestamp published last, not ""
    autoWake,     \* the channel of capacity one holds a token
    cancelled,    \* the context of the loop is cancelled
    loop,         \* where the goroutine is
    cfg,          \* the configuration it read last
    put, body,    \* where each PUT handler is, and what it stores
    early,        \* PUTs already under way when the loop began its wait
    stop          \* where StopAutoSync is

state == <<autoStarted, autoRunning, scheduled>>
vars  == <<config, autoStarted, autoRunning, scheduled, autoWake, cancelled,
           loop, cfg, put, body, early, stop>>

LoopLabels == {"read", "publish", "wait", "woken", "check", "due", "run",
               "ran", "exit"}
PutLabels  == {"idle", "store", "clear", "wake", "send"}
StopLabels == {"idle", "cancel", "join", "stopped"}

\* The process starts with whatever configuration an earlier one stored.
Init ==
    /\ config \in Configs
    /\ autoStarted = TRUE /\ autoRunning = FALSE /\ scheduled = FALSE
    /\ autoWake = FALSE /\ cancelled = FALSE
    /\ loop = "read" /\ cfg = NoConfig
    /\ put = [u \in Users |-> "idle"]
    /\ body = [u \in Users |-> config]
    /\ early = {}
    /\ stop = "idle"

-----------------------------------------------------------------------------
\* autoSyncLoop.

SetState(running, next) ==
    /\ autoRunning' = running
    /\ scheduled' = next
    /\ UNCHANGED autoStarted

Timed == cfg \notin Configs \ Enabled

Read ==
    /\ loop = "read"
    /\ cfg' = config
    /\ loop' = "publish"
    /\ UNCHANGED <<config, state, autoWake, cancelled, put, body, early, stop>>

ReadFails ==
    /\ ReadMayFail
    /\ loop = "read"
    /\ cfg' = NoConfig
    /\ loop' = "publish"
    /\ UNCHANGED <<config, state, autoWake, cancelled, put, body, early, stop>>

\* Publish the next run, or none, and begin to wait: for the delay, a minute
\* after a failed read, or for an edit alone.
Publish ==
    /\ loop = "publish"
    /\ SetState(FALSE, cfg \in Enabled)
    /\ early' = {u \in Users : put[u] # "idle"}
    /\ loop' = "wait"
    /\ UNCHANGED <<config, autoWake, cancelled, cfg, put, body, stop>>

WaitCancelled ==
    /\ loop = "wait" /\ cancelled
    /\ loop' = "exit"
    /\ UNCHANGED <<config, state, autoWake, cancelled, cfg, put, body, early, stop>>

WaitWoken ==
    /\ loop = "wait" /\ autoWake
    /\ autoWake' = FALSE
    /\ loop' = IF Timed THEN "woken" ELSE "read"
    /\ UNCHANGED <<config, state, cancelled, cfg, put, body, early, stop>>

\* Mutant: the timer branch clears the timestamp as the wake branch does.
TimerFiresCleared ==
    /\ loop = "wait" /\ Timed
    /\ ~autoWake /\ ~cancelled /\ early = {}
    /\ SetState(FALSE, FALSE)
    /\ loop' = IF cfg \in Enabled THEN "check" ELSE "read"
    /\ UNCHANGED <<config, autoWake, cancelled, cfg, put, body, early, stop>>

\* The timer is never the first to be ready: it takes a minute at least, in
\* which a token or a cancellation ends the wait, and every PUT under way
\* when the wait began returns.
TimerFires ==
    /\ loop = "wait" /\ Timed
    /\ ~autoWake /\ ~cancelled /\ early = {}
    /\ loop' = IF cfg \in Enabled THEN "check" ELSE "read"
    /\ UNCHANGED <<config, state, autoWake, cancelled, cfg, put, body, early, stop>>

Woken ==
    /\ loop = "woken"
    /\ SetState(FALSE, FALSE)
    /\ loop' = IF cfg \in Enabled THEN "check" ELSE "read"
    /\ UNCHANGED <<config, autoWake, cancelled, cfg, put, body, early, stop>>

\* stillScheduled.
Check ==
    /\ loop = "check"
    /\ loop' = IF scheduled THEN "due" ELSE "read"
    /\ UNCHANGED <<config, state, autoWake, cancelled, cfg, put, body, early, stop>>

BeginRun ==
    /\ loop = "due"
    /\ SetState(TRUE, FALSE)
    /\ loop' = "run"
    /\ UNCHANGED <<config, autoWake, cancelled, cfg, put, body, early, stop>>

Run ==
    /\ loop = "run"
    /\ loop' = "ran"
    /\ UNCHANGED <<config, state, autoWake, cancelled, cfg, put, body, early, stop>>

EndRun ==
    /\ loop = "ran"
    /\ SetState(FALSE, FALSE)
    /\ loop' = "read"
    /\ UNCHANGED <<config, autoWake, cancelled, cfg, put, body, early, stop>>

Loop ==
    \/ Read \/ ReadFails \/ Publish
    \/ WaitCancelled \/ WaitWoken \/ TimerFires
    \/ Woken \/ Check \/ BeginRun \/ Run \/ EndRun

-----------------------------------------------------------------------------
\* PUT /api/auto-sync.

PutTo(u, l) == put' = [put EXCEPT ![u] = l]

Return(u) ==
    /\ PutTo(u, "idle")
    /\ early' = early \ {u}

Arrive(u) ==
    /\ put[u] = "idle"
    /\ \E c \in Configs : body' = [body EXCEPT ![u] = c]
    /\ PutTo(u, "store")
    /\ UNCHANGED <<config, state, autoWake, cancelled, loop, cfg, early, stop>>

Store(u) ==
    /\ put[u] = "store"
    /\ config' = body[u]
    /\ PutTo(u, "clear")
    /\ UNCHANGED <<state, autoWake, cancelled, loop, cfg, body, early, stop>>

\* Mutant: an edit leaves the published timestamp alone.
ClearNothing(u) ==
    /\ put[u] = "clear"
    /\ PutTo(u, "wake")
    /\ UNCHANGED <<config, state, autoWake, cancelled, loop, cfg, body, early, stop>>

Clear(u) ==
    /\ put[u] = "clear"
    /\ scheduled' = (scheduled /\ autoRunning)
    /\ PutTo(u, "wake")
    /\ UNCHANGED <<config, autoStarted, autoRunning, autoWake, cancelled, loop,
                   cfg, body, early, stop>>

Wake(u) ==
    /\ put[u] = "wake"
    /\ IF autoStarted THEN PutTo(u, "send") /\ UNCHANGED early ELSE Return(u)
    /\ UNCHANGED <<config, state, autoWake, cancelled, loop, cfg, body, stop>>

\* Mutant: the channel has no buffer, so only a waiting loop hears of the edit.
SendUnbuffered(u) ==
    /\ put[u] = "send"
    /\ autoWake' = (autoWake \/ loop = "wait")
    /\ Return(u)
    /\ UNCHANGED <<config, state, cancelled, loop, cfg, body, stop>>

Send(u) ==
    /\ put[u] = "send"
    /\ autoWake' = TRUE
    /\ Return(u)
    /\ UNCHANGED <<config, state, cancelled, loop, cfg, body, stop>>

Handle(u) == Store(u) \/ Clear(u) \/ Wake(u) \/ Send(u)

-----------------------------------------------------------------------------
\* StopAutoSync.  The process calls it once; a second call would find
\* autoStarted down, return at once and change nothing, also while the first
\* one still waits.

StopBegins ==
    /\ MayStop
    /\ stop = "idle" /\ autoStarted
    /\ autoStarted' = FALSE
    /\ stop' = "cancel"
    /\ UNCHANGED <<config, autoRunning, scheduled, autoWake, cancelled, loop,
                   cfg, put, body, early>>

\* Mutant: only autoStarted tells the goroutine to end.
CancelSkipped ==
    /\ stop = "cancel"
    /\ stop' = "join"
    /\ UNCHANGED <<config, state, autoWake, cancelled, loop, cfg, put, body, early>>

Cancel ==
    /\ stop = "cancel"
    /\ cancelled' = TRUE
    /\ stop' = "join"
    /\ UNCHANGED <<config, state, autoWake, loop, cfg, put, body, early>>

StopEnds ==
    /\ stop = "join" /\ loop = "exit"
    /\ SetState(FALSE, FALSE)
    /\ stop' = "stopped"
    /\ UNCHANGED <<config, autoWake, cancelled, loop, cfg, put, body, early>>

Stop == Cancel \/ StopEnds

-----------------------------------------------------------------------------
Next ==
    \/ Loop
    \/ \E u \in Users : Arrive(u) \/ Handle(u)
    \/ StopBegins \/ Stop

Spec == Init /\ [][Next]_vars

\* Time passes, handlers and runs come to their end (Panel: Answered), and
\* the store does not fail forever.
FairSpec ==
    /\ Spec
    /\ WF_vars(Loop) /\ SF_vars(Read)
    /\ WF_vars(Stop)
    /\ \A u \in Users : WF_vars(Handle(u))

-----------------------------------------------------------------------------
\* Properties.

\* Every variable has its type.
TypeOK ==
    /\ config \in Configs
    /\ autoStarted \in BOOLEAN /\ autoRunning \in BOOLEAN
    /\ scheduled \in BOOLEAN /\ autoWake \in BOOLEAN /\ cancelled \in BOOLEAN
    /\ loop \in LoopLabels
    /\ cfg \in Configs \cup {NoConfig}
    /\ put \in [Users -> PutLabels]
    /\ body \in [Users -> Configs]
    /\ early \in SUBSET Users
    /\ stop \in StopLabels

\* A run is let through only under the configuration the store holds, unless
\* the PUT that changed it has not come to clear the timestamp yet, or the
\* scheduler is being shut down ("Only run if the scheduled time really
\* arrived; otherwise reload the edited configuration immediately").
RunsAsConfigured ==
    [][loop = "check" /\ loop' = "due" =>
          \/ cfg = config
          \/ \E u \in Users : put[u] = "clear"
          \/ ~autoStarted]_vars

\* StopAutoSync returns, whatever edits are under way; it does so only behind
\* the end of the loop.
StopReturns == stop = "cancel" ~> stop = "stopped"

\* No edit is lost: the loop reads every configuration that stays in the
\* store, however the wake-up meets its own steps.
EditTakesEffect ==
    \A c \in Configs :
        config = c ~> (cfg = c \/ config # c \/ ~autoStarted)

\* An enabled sync nobody edits any more runs again and again.
ScheduledRuns ==
    <>[](config \in Enabled /\ autoStarted /\ \A u \in Users : put[u] = "idle")
        => []<>(loop = "run")
=============================================================================
