-------------------------------- MODULE Panel --------------------------------
(***************************************************************************)
(* The panel server (internal/api over internal/store and internal/cpa):   *)
(* the requests of its users and the scheduled run, interleaved with each  *)
(* other, with edits made to CPA by someone else, with failing calls and   *)
(* with a crash of the process.  One action per call that leaves the       *)
(* process: a GET or a PUT of one CPA list, a statement or transaction of  *)
(* the store.  What the code computes between two such calls belongs to    *)
(* the action of the first.                                                *)
(***************************************************************************)
EXTENDS CatalogOps, Sequences

CONSTANTS
    Users,             \* browser tabs, each with one request at a time
    Scheduler,         \* the goroutine of the scheduled sync
    NoProc,            \* nobody holds the mutex
    Kinds,             \* the requests a run of the model uses
    Drafts,            \* sets of operations a user may save
    SettingsChoices,   \* settings a user may store
    ProbeChoices,      \* non-empty lists a site may answer with
    EditSlots,         \* what an external edit may write in a slot,
    EditSites,         \*   and the sites one may add or remove
    Retain,            \* SNAPSHOT_RETAIN
    MaxSurplus,        \* bound: snapshots above Retain a crash may leave
    InitialConfig,     \* CPA when the panel first starts
    EditsInFlight,     \* BOOLEAN: CPA is edited while a request runs
    PutMayFail, GetMayFail, MayCrash,   \* BOOLEAN
    Unread, NoConfig

Procs == Users \cup {Scheduler}

AllKinds == {"catalog", "save", "refresh", "refreshSite", "settings",
             "rollback", "delete", "egg", "auto"}

ASSUME PanelAssumption ==
    /\ Scheduler \notin Users
    /\ NoProc \notin Procs
    /\ Kinds \subseteq AllKinds
    /\ Drafts \subseteq SUBSET Op
    /\ SettingsChoices \subseteq Settings
    /\ ProbeChoices \subseteq SUBSET Upstreams
    /\ EditSlots \subseteq Slot /\ EditSites \subseteq Sites
    /\ Retain \in Nat \ {0} /\ MaxSurplus \in Nat
    /\ InitialConfig \in Config
    /\ EditsInFlight \in BOOLEAN /\ PutMayFail \in BOOLEAN
    /\ GetMayFail \in BOOLEAN /\ MayCrash \in BOOLEAN
    /\ Unread \notin Listing
    /\ NoConfig \notin Config

VARIABLES
    cpa,          \* the three lists CPA holds
    catalog,      \* model_catalog
    settings, exclusions, disabled, keeps,
    snapshots,    \* config_snapshots, oldest first
    mu,           \* Server.mu
    pc,           \* where each process is
    req,          \* the request it serves
    st,           \* the locals of the handler
    view          \* the configuration behind the view each user looks at

store == <<catalog, settings, exclusions, disabled, keeps, snapshots>>
vars  == <<cpa, catalog, settings, exclusions, disabled, keeps, snapshots,
           mu, pc, req, st, view>>

Labels == {"idle", "lock", "payload", "eggprobe", "get", "base", "check",
           "conflict", "ops", "plan", "probe", "merge", "backup", "trim",
           "put", "exclusions", "disabled", "keeps", "whitelist", "version",
           "route", "respond"}

Request == [kind : AllKinds, fp : Config \cup {NoConfig}, ops : SUBSET Op,
            site : Sites, rules : Settings, payload : Config \cup {NoConfig}]

Phases == {"first", "reload", "save", "final"}

Locals == [phase : Phases,
           snap  : [Channels -> Listing \cup {Unread}],   \* st.Snapshot
           cat   : Catalog,                               \* st.Catalog
           marks : Marks,
           left  : SUBSET Op,          \* operations still to apply
           found : [Sites -> SUBSET Upstreams],
           out   : Config,             \* lists to send
           todo  : SUBSET Channels]    \* and where

Nothing   == [r \in Refs |-> NoEntry]
AllRules  == [whitelist |-> Upstreams, version |-> {}, route |-> FALSE]
NoMarks   == [rules |-> AllRules, excl |-> {}, dis |-> {}, keep |-> {}]
NoListing == [s \in Sites |-> NoProvider]
Blank     == [phase |-> "first", snap |-> [c \in Channels |-> Unread],
              cat |-> Nothing, marks |-> NoMarks, left |-> {},
              found |-> [s \in Sites |-> {}],
              out |-> [c \in Channels |-> NoListing], todo |-> {}]
NoRequest == [kind |-> "catalog", fp |-> NoConfig, ops |-> {},
              site |-> CHOOSE s \in Sites : TRUE, rules |-> AllRules,
              payload |-> NoConfig]

Init ==
    /\ cpa = InitialConfig
    /\ catalog = Nothing
    /\ settings = AllRules
    /\ exclusions = {} /\ disabled = {} /\ keeps = {}
    /\ snapshots = <<>>
    /\ mu = NoProc
    /\ pc = [p \in Procs |-> "idle"]
    /\ req = [p \in Procs |-> NoRequest]
    /\ st = [p \in Procs |-> Blank]
    /\ view = [p \in Procs |-> NoConfig]

-----------------------------------------------------------------------------
Goto(p, l) == pc' = [pc EXCEPT ![p] = l]

\* Return from the handler: the deferred Unlock runs on every path.
Leave(p) ==
    /\ Goto(p, "idle")
    /\ mu' = NoProc
    /\ req' = [req EXCEPT ![p] = NoRequest]
    /\ st' = [st EXCEPT ![p] = Blank]

\* Begin a load: the next GETs fill snap again.
StartRead(p, s, phase) ==
    st' = [st EXCEPT ![p] = [s EXCEPT !.phase = phase,
                                      !.snap = Blank.snap,
                                      !.cat = Blank.cat,
                                      !.marks = Blank.marks,
                                      !.out = Blank.out,
                                      !.todo = {}]]

StoredMarks == [rules |-> settings, excl |-> exclusions,
                dis |-> disabled, keep |-> keeps]

\* A user sends the fingerprint of the view on screen; the scheduler fills
\* its own in after the refresh.
Ask(p, k) ==
    LET r == [NoRequest EXCEPT !.kind = k]
    IN  CASE k = "save" -> {[r EXCEPT !.fp = view[p], !.ops = d] : d \in Drafts}
          [] k = "settings" -> {[r EXCEPT !.rules = x] : x \in SettingsChoices}
          [] k = "rollback" -> {[r EXCEPT !.payload = snapshots[i]] :
                                   i \in DOMAIN snapshots}
          [] k \in {"refreshSite", "delete", "egg"} ->
               {[r EXCEPT !.site = s] : s \in Sites \ KeylessSites}
          [] OTHER -> {r}

\* The lists of keyless providers a sweep takes out.
Swept(snap) ==
    [c \in Channels |-> [s \in Sites |->
        IF s \in KeylessSites THEN NoProvider ELSE snap[c][s]]]

WithoutSite(snap, site) ==
    [c \in Channels |-> [snap[c] EXCEPT ![site] = NoProvider]]

WithEgg(snap, site, names) ==
    [snap EXCEPT ![1][site] =
        [u \in Upstreams |-> IF u \in names THEN NoAlias ELSE Absent]]

Differ(a, b) == {c \in Channels : a[c] # b[c]}

InRange(payload) == \E i \in DOMAIN snapshots : snapshots[i] = payload

-----------------------------------------------------------------------------
\* Arrival and the mutex.

Arrive(p) ==
    /\ pc[p] = "idle"
    /\ \E k \in Kinds :
         /\ (k = "auto") <=> (p = Scheduler)
         /\ k = "save" => view[p] # NoConfig
         /\ \E r \in Ask(p, k) : req' = [req EXCEPT ![p] = r]
    /\ Goto(p, "lock")
    /\ UNCHANGED <<cpa, store, mu, st, view>>

\* Mutant: the scheduled run, or a handler, does not take the mutex.
LockIgnored(p) ==
    /\ pc[p] = "lock"
    /\ mu' = p
    /\ Goto(p, CASE req[p].kind = "rollback" -> "payload"
                 [] req[p].kind = "egg"      -> "eggprobe"
                 [] OTHER                    -> "get")
    /\ UNCHANGED <<cpa, store, req, st, view>>

Lock(p) ==
    /\ pc[p] = "lock" /\ mu = NoProc
    /\ mu' = p
    /\ Goto(p, CASE req[p].kind = "rollback" -> "payload"
                 [] req[p].kind = "egg"      -> "eggprobe"
                 [] OTHER                    -> "get")
    /\ UNCHANGED <<cpa, store, req, st, view>>

-----------------------------------------------------------------------------
\* load: three GETs, one after the other, then the store.

GetChannel(p) ==
    /\ pc[p] = "get"
    /\ LET s    == st[p]
           left == {c \in Channels : s.snap[c] = Unread}
           c    == First(left)
       IN  /\ st' = [st EXCEPT ![p].snap[c] = cpa[c]]
           /\ Goto(p, IF left # {c} THEN "get"
                      ELSE IF req[p].kind = "rollback" /\ s.phase = "first"
                           THEN "backup" ELSE "base")
    /\ UNCHANGED <<cpa, store, mu, req, view>>

\* Mutant: an error path returns without unlocking.
GetFailsLocked(p) ==
    /\ GetMayFail
    /\ pc[p] = "get"
    /\ Goto(p, "idle")
    /\ req' = [req EXCEPT ![p] = NoRequest]
    /\ st' = [st EXCEPT ![p] = Blank]
    /\ UNCHANGED <<cpa, store, mu, view>>

\* A GET fails: the handler answers with an error, and after a write with
\* the view it had before.  Either way the user's fingerprint stays.
GetFails(p) ==
    /\ GetMayFail
    /\ pc[p] = "get"
    /\ Leave(p)
    /\ UNCHANGED <<cpa, store, view>>

AfterLoad(p) ==
    LET k == req[p].kind
    IN  IF st[p].phase = "first"
        THEN CASE k = "save"     -> "check"
               [] k \in {"refresh", "refreshSite", "auto"} -> "probe"
               [] k = "settings" -> "whitelist"
               [] k \in {"delete", "egg"} -> "plan"
               [] OTHER          -> "respond"
        ELSE CASE st[p].phase = "reload" -> "merge"
               [] st[p].phase = "save"   -> "check"
               [] OTHER                  -> "respond"

\* loadBase and compute: reconcile, run the filters, prune, persist.  A
\* settings PUT runs them under the settings it is about to store.
LoadBase(p) ==
    /\ pc[p] = "base"
    /\ LET marks == IF req[p].kind = "settings"
                    THEN [StoredMarks EXCEPT !.rules = req[p].rules]
                    ELSE StoredMarks
           cat   == Prune(Reconcile(catalog, st[p].snap), marks)
       IN  /\ st' = [st EXCEPT ![p].cat = cat, ![p].marks = marks,
                               ![p].left = req[p].ops]
           /\ catalog' = cat
    /\ Goto(p, AfterLoad(p))
    /\ UNCHANGED <<cpa, settings, exclusions, disabled, keeps, snapshots,
                   mu, req, view>>

\* Mutant: a save answers with the fingerprint it was sent.
RespondOld(p) ==
    /\ pc[p] = "respond"
    /\ view' = [view EXCEPT ![p] =
            IF req[p].kind = "save" THEN req[p].fp
            ELSE IF p = Scheduler THEN NoConfig ELSE st[p].snap]
    /\ Leave(p)
    /\ UNCHANGED <<cpa, store>>

\* The answer carries a new view and its fingerprint.
Respond(p) ==
    /\ pc[p] = "respond"
    /\ view' = [view EXCEPT ![p] = IF p = Scheduler THEN NoConfig ELSE st[p].snap]
    /\ Leave(p)
    /\ UNCHANGED <<cpa, store>>

-----------------------------------------------------------------------------
\* saveLocked.

CheckFingerprint(p) ==
    /\ pc[p] = "check"
    /\ Goto(p, IF req[p].fp = st[p].snap THEN "ops" ELSE "conflict")
    /\ UNCHANGED <<cpa, store, mu, req, st, view>>

Conflict(p) ==
    /\ pc[p] = "conflict"
    /\ Leave(p)
    /\ UNCHANGED <<cpa, store, view>>

ApplyOp(p) ==
    /\ pc[p] = "ops"
    /\ \E op \in st[p].left :
         st' = [st EXCEPT ![p].cat   = OpOnCatalog(@, op),
                          ![p].marks = OpOnMarks(st[p].cat, @, op),
                          ![p].left  = @ \ {op}]
    /\ UNCHANGED <<cpa, store, mu, pc, req, view>>

\* The catalog is persisted, pruned, before CPA is touched.
WriteCatalog(p) ==
    /\ pc[p] = "ops" /\ st[p].left = {}
    /\ LET s    == st[p]
           cat  == Prune(MarkWithheld(s.cat, s.marks), s.marks)
           out  == BuildWrite(s.cat, s.marks, s.snap)
           todo == Differ(out, s.snap)
       IN  /\ catalog' = cat
           /\ st' = [st EXCEPT ![p].cat = cat, ![p].out = out, ![p].todo = todo]
           /\ Goto(p, IF todo = {} THEN "exclusions" ELSE "backup")
    /\ UNCHANGED <<cpa, settings, exclusions, disabled, keeps, snapshots,
                   mu, req, view>>

SetExclusions(p) ==
    /\ pc[p] = "exclusions"
    /\ exclusions' = st[p].marks.excl
    /\ Goto(p, "disabled")
    /\ UNCHANGED <<cpa, catalog, settings, disabled, keeps, snapshots,
                   mu, req, st, view>>

SetDisabled(p) ==
    /\ pc[p] = "disabled"
    /\ disabled' = st[p].marks.dis
    /\ Goto(p, "keeps")
    /\ UNCHANGED <<cpa, catalog, settings, exclusions, keeps, snapshots,
                   mu, req, st, view>>

SetKeeps(p) ==
    /\ pc[p] = "keeps"
    /\ keeps' = st[p].marks.keep
    /\ Goto(p, "get")
    /\ StartRead(p, st[p], "final")
    /\ UNCHANGED <<cpa, catalog, settings, exclusions, disabled, snapshots,
                   mu, req, view>>

-----------------------------------------------------------------------------
\* Every write to CPA: a snapshot, retention, then one PUT per list.

AddSnapshot(p) ==
    /\ pc[p] = "backup"
    /\ snapshots' = Append(snapshots, st[p].snap)
    /\ Goto(p, "trim")
    /\ UNCHANGED <<cpa, catalog, settings, exclusions, disabled, keeps,
                   mu, req, st, view>>

\* Mutant: retention keeps the oldest snapshots.
PruneNewest(p) ==
    /\ pc[p] = "trim"
    /\ snapshots' = IF Len(snapshots) <= Retain THEN snapshots
                    ELSE SubSeq(snapshots, 1, Retain)
    /\ Goto(p, "put")
    /\ UNCHANGED <<cpa, catalog, settings, exclusions, disabled, keeps,
                   mu, req, st, view>>

PruneSnapshots(p) ==
    /\ pc[p] = "trim"
    /\ LET n == Len(snapshots)
       IN  snapshots' = IF n <= Retain THEN snapshots
                        ELSE SubSeq(snapshots, n - Retain + 1, n)
    /\ Goto(p, "put")
    /\ UNCHANGED <<cpa, catalog, settings, exclusions, disabled, keeps,
                   mu, req, st, view>>

AfterPut(p) ==
    IF req[p].kind \in {"save", "auto"} THEN "exclusions" ELSE "get"

PutChannel(p) ==
    /\ pc[p] = "put" /\ st[p].todo # {}
    /\ LET c == First(st[p].todo)
       IN  /\ cpa' = [cpa EXCEPT ![c] = st[p].out[c]]
           /\ st' = [st EXCEPT ![p].todo = @ \ {c}]
    /\ UNCHANGED <<store, mu, pc, req, view>>

PutsDone(p) ==
    /\ pc[p] = "put" /\ st[p].todo = {}
    /\ Goto(p, AfterPut(p))
    /\ IF req[p].kind \in {"save", "auto"} THEN UNCHANGED st
       ELSE StartRead(p, st[p], IF req[p].kind = "refresh" THEN "reload" ELSE "final")
    /\ UNCHANGED <<cpa, store, mu, req, view>>

\* A PUT fails, before CPA applied it or (a timeout) after.
PutFails(p) ==
    /\ PutMayFail
    /\ pc[p] = "put" /\ st[p].todo # {}
    /\ LET c == First(st[p].todo)
       IN  cpa' \in {cpa, [cpa EXCEPT ![c] = st[p].out[c]]}
    /\ Leave(p)
    /\ UNCHANGED <<store, view>>

-----------------------------------------------------------------------------
\* refreshLocked and refreshSite.

\* Every site asked answers with one of ProbeChoices, or with nothing.
Asked(p) ==
    {x \in Sites : /\ Known(st[p].snap, x)
                   /\ req[p].kind = "refreshSite" => x = req[p].site}

Probe(p) ==
    /\ pc[p] = "probe"
    /\ req[p].kind = "refreshSite" => Known(st[p].snap, req[p].site)
    /\ LET s     == st[p]
           asked == Asked(p)
           sweep == req[p].kind = "refresh" /\ Swept(s.snap) # s.snap
       IN  \E answer \in [asked -> ProbeChoices \cup {{}}] :
             /\ st' = [st EXCEPT
                  ![p].found = [x \in Sites |-> IF x \in asked THEN answer[x] ELSE {}],
                  ![p].out   = IF sweep THEN Swept(s.snap) ELSE @,
                  ![p].todo  = IF sweep THEN Differ(Swept(s.snap), s.snap) ELSE @]
             /\ Goto(p, IF sweep THEN "backup" ELSE "merge")
    /\ UNCHANGED <<cpa, store, mu, req, view>>

\* refreshSite: the site is unknown (404) or its probe fails (502).
ProbeFails(p) ==
    /\ pc[p] = "probe" /\ req[p].kind = "refreshSite"
    /\ Leave(p)
    /\ UNCHANGED <<cpa, store, view>>

\* Fold the answers in, prune, persist.  The scheduler goes on to save with
\* the fingerprint of this refresh and every suggestion it shows.
Merge(p) ==
    /\ pc[p] = "merge"
    /\ LET s      == st[p]
           merged == MergeDiscovered(s.cat, s.snap, s.found)
           cat    == Prune(merged, s.marks)
       IN  /\ catalog' = cat
           /\ IF p = Scheduler
              THEN /\ req' = [req EXCEPT ![p].fp = s.snap,
                                         ![p].ops = Suggestions(merged)]
                   /\ StartRead(p, [s EXCEPT !.found = Blank.found], "save")
                   /\ Goto(p, "get")
              ELSE /\ st' = [st EXCEPT ![p].cat = cat]
                   /\ Goto(p, "respond")
                   /\ UNCHANGED req
    /\ UNCHANGED <<cpa, settings, exclusions, disabled, keeps, snapshots,
                   mu, view>>

-----------------------------------------------------------------------------
\* handleSettings after its load: one key of the settings table at a time.

SetWhitelist(p) ==
    /\ pc[p] = "whitelist"
    /\ settings' = [settings EXCEPT !.whitelist = req[p].rules.whitelist]
    /\ Goto(p, "version")
    /\ UNCHANGED <<cpa, catalog, exclusions, disabled, keeps, snapshots,
                   mu, req, st, view>>

\* Mutant: the version filter is stored from the wrong field.
SetVersionFromWhitelist(p) ==
    /\ pc[p] = "version"
    /\ settings' = [settings EXCEPT !.version = req[p].rules.whitelist]
    /\ Goto(p, "route")
    /\ UNCHANGED <<cpa, catalog, exclusions, disabled, keeps, snapshots,
                   mu, req, st, view>>

SetVersionFilter(p) ==
    /\ pc[p] = "version"
    /\ settings' = [settings EXCEPT !.version = req[p].rules.version]
    /\ Goto(p, "route")
    /\ UNCHANGED <<cpa, catalog, exclusions, disabled, keeps, snapshots,
                   mu, req, st, view>>

SetRouteByProtocol(p) ==
    /\ pc[p] = "route"
    /\ settings' = [settings EXCEPT !.route = req[p].rules.route]
    /\ Goto(p, "respond")
    /\ UNCHANGED <<cpa, catalog, exclusions, disabled, keeps, snapshots,
                   mu, req, st, view>>

-----------------------------------------------------------------------------
\* Rollback, site deletion, egg.

\* The chosen snapshot is read, or retention has dropped it meanwhile: 404.
ReadSnapshot(p) ==
    /\ pc[p] = "payload"
    /\ IF InRange(req[p].payload)
       THEN /\ st' = [st EXCEPT ![p].out = req[p].payload, ![p].todo = Channels]
            /\ Goto(p, "get")
            /\ UNCHANGED <<mu, req>>
       ELSE Leave(p)
    /\ UNCHANGED <<cpa, store, view>>

\* The egg is probed before anything is read or written.
ProbeEgg(p) ==
    /\ pc[p] = "eggprobe"
    /\ \/ /\ \E names \in ProbeChoices :
               st' = [st EXCEPT ![p].found[req[p].site] = names]
          /\ Goto(p, "get")
          /\ UNCHANGED <<mu, req>>
       \/ Leave(p)
    /\ UNCHANGED <<cpa, store, view>>

\* A site to delete must be known, the name of an egg must be free.
Plan(p) ==
    /\ pc[p] = "plan"
    /\ LET s    == st[p]
           site == req[p].site
           out  == IF req[p].kind = "delete" THEN WithoutSite(s.snap, site)
                   ELSE WithEgg(s.snap, site, s.found[site])
       IN  IF Known(s.snap, site) <=> (req[p].kind = "delete")
           THEN /\ st' = [st EXCEPT ![p].out = out,
                                    ![p].todo = Differ(out, s.snap)]
                /\ Goto(p, "backup")
                /\ UNCHANGED <<mu, req>>
           ELSE Leave(p)
    /\ UNCHANGED <<cpa, store, view>>

-----------------------------------------------------------------------------
\* The environment.

\* Someone edits CPA: one slot of a provider, a whole site, a new one.
EditSlot(c, s, u, x) ==
    /\ cpa[c][s] # NoProvider /\ cpa[c][s][u] # x
    /\ cpa' = [cpa EXCEPT ![c][s][u] = x]

EditSite(s) ==
    cpa' = IF cpa[1][s] = NoProvider
           THEN [cpa EXCEPT ![1][s] = [u \in Upstreams |-> Absent]]
           ELSE WithoutSite(cpa, s)

ExternalEdit ==
    /\ EditsInFlight \/ mu = NoProc
    /\ \/ \E c \in Channels, s \in Sites, u \in Upstreams, x \in EditSlots :
            EditSlot(c, s, u, x)
       \/ \E s \in EditSites : EditSite(s)
    /\ UNCHANGED <<store, mu, pc, req, st, view>>

\* The process dies and restarts: the store and the browsers' views survive.
Crash ==
    /\ MayCrash
    /\ \E p \in Procs : pc[p] # "idle"
    /\ Len(snapshots) <= Retain + MaxSurplus
    /\ mu' = NoProc
    /\ pc' = [p \in Procs |-> "idle"]
    /\ req' = [p \in Procs |-> NoRequest]
    /\ st' = [p \in Procs |-> Blank]
    /\ UNCHANGED <<cpa, store, view>>

-----------------------------------------------------------------------------
\* What the process itself does next, once it holds the mutex.
Step(p) ==
    \/ GetChannel(p) \/ GetFails(p) \/ LoadBase(p) \/ Respond(p)
    \/ CheckFingerprint(p) \/ Conflict(p) \/ ApplyOp(p) \/ WriteCatalog(p)
    \/ SetExclusions(p) \/ SetDisabled(p) \/ SetKeeps(p)
    \/ AddSnapshot(p) \/ PruneSnapshots(p) \/ PutChannel(p) \/ PutsDone(p)
    \/ PutFails(p) \/ Probe(p) \/ ProbeFails(p) \/ Merge(p)
    \/ SetWhitelist(p) \/ SetVersionFilter(p) \/ SetRouteByProtocol(p)
    \/ ReadSnapshot(p) \/ ProbeEgg(p) \/ Plan(p)

Next ==
    \/ \E p \in Procs : Arrive(p) \/ Lock(p) \/ Step(p)
    \/ ExternalEdit
    \/ Crash

Spec == Init /\ [][Next]_vars

\* Handlers run on, every CPA and store call returns (the client's 60 s
\* timeout), and sync.Mutex hands itself to every waiter.
FairSpec == Spec /\ \A p \in Procs : WF_vars(Step(p)) /\ SF_vars(Lock(p))

-----------------------------------------------------------------------------
\* Properties.

\* Every variable has its type.
TypeOK ==
    /\ cpa \in Config
    /\ catalog \in Catalog
    /\ settings \in Settings
    /\ exclusions \in SUBSET Refs
    /\ disabled \in SUBSET Refs
    /\ keeps \in SUBSET Refs
    /\ snapshots \in Seq(Config)
    /\ mu \in Procs \cup {NoProc}
    /\ pc \in [Procs -> Labels]
    /\ req \in [Procs -> Request]
    /\ st \in [Procs -> Locals]
    /\ view \in [Procs -> Config \cup {NoConfig}]

\* While a handler is sending lists to CPA, one retained snapshot still holds
\* what every list not sent yet holds in CPA, and what every list already
\* sent held when the handler read it: whatever happens next, a rollback to
\* it undoes the whole write.  (AddSnapshot and PruneSnapshots come before
\* the first PUT on every path that writes.)
CoveredWrites ==
    \A p \in Procs : pc[p] = "put" =>
        \E i \in DOMAIN snapshots : \A c \in Channels :
            snapshots[i][c] = IF c \in st[p].todo THEN cpa[c] ELSE st[p].snap[c]

\* A PUT replaces a list the handler has seen as it is: nothing written to
\* CPA by someone else is overwritten unread.
NoBlindOverwrite ==
    [][\A p \in Procs : PutChannel(p) =>
          LET c == First(st[p].todo) IN cpa[c] = st[p].snap[c]]_vars

\* The three sets of the store are rewritten whole by every save.  Still, a
\* step changes the mark of a model only for the process that holds the
\* mutex and whose draft names that model: concurrent saves never undo each
\* other.
IntentIsolated ==
    [][\A r \in Refs :
          \/ /\ (r \in exclusions) <=> (r \in exclusions')
             /\ (r \in disabled) <=> (r \in disabled')
             /\ (r \in keeps) <=> (r \in keeps')
          \/ \E p \in Procs : mu = p /\ \E op \in req[p].ops : op.ref = r]_vars

\* A save or a scheduled run that is about to answer leaves nothing behind:
\* the view has no pending work and an empty save on top of it would write
\* nothing ("One save has to converge").
SaveConverges ==
    \A p \in Procs :
        pc[p] = "respond" /\ req[p].kind \in {"save", "auto"} =>
            /\ Settled(st[p].cat, st[p].marks)
            /\ BuildWrite(st[p].cat, st[p].marks, st[p].snap) = st[p].snap

\* Every request is answered, whoever else wants the mutex.
Answered == \A p \in Procs : pc[p] # "idle" ~> pc[p] = "idle"
=============================================================================
