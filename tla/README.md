# cpa-model-panel in TLA+

cpa-model-panel is a web panel in front of CPA, a proxy whose configuration is
three lists of providers (`openai-compatibility`, `codex-api-key`,
`claude-api-key`), each provider with its models. The panel reads the lists,
hides and renames models by rules and by hand, and writes whole lists back. It
keeps a cache of the models, three sets of marks, its settings and a ring of
snapshots in SQLite. The modules here model that program: the operations on
its catalog, its request handlers and their interleavings, what a save writes
entry by entry, how it tells the sites in the lists apart, the scheduler of its
background sync, the browser tab in front of it, and the client of the service
it takes its statistics from.

## Inventory

| Part | State it keeps | Operations | What is hard about it |
|---|---|---|---|
| Catalog core, `internal/catalog` | the cached entries (present, pending, withheld, gone, an alias per channel) | Reconcile, Compute, ApplyOps, MergeDiscovered, BuildWrite, Prune | the four flags encode who removed a model and whether it may come back; one save has to converge |
| API server, `internal/api` | `Server.mu` | catalog, save, refresh (with the keyless sweep), refresh of one site, settings, rollback, site deletion, egg (a temporary site) | read–compute–write over CPA and the store with calls that fail or a process that dies in between; CPA changes under it |
| Store, `internal/store` | catalog cache, exclusions, disabled, keeps, settings, snapshots, site health, temporary sites, scheduler log | one statement or transaction each | no transaction spans two of them |
| CPA client, `internal/cpa` | – | GET and PUT of one list, discovery | a list is replaced whole; three lists are not read at one instant |
| Scheduler, `internal/api/auto_sync.go` | `autoRunning`, `autoNextRun`, a channel of one token | read, publish, wait, run; settings PUT; stop | lost wake-ups; a timer racing an edit or the shutdown |
| Site resolution, `internal/catalog/site.go` | the site of every provider | BuildSites | duplicates are numbered by position; codex and claude providers are attached by URL, key, host |
| Names and rules, `internal/clean` | – | Clean, Evaluate, Classify | – |
| Legacy migration, `internal/store/legacy.go` | a done flag | once, at the first load | runs with whatever sites CPA has at that moment |
| Write preview, `internal/catalog/diff.go` | – | Diff | it is what the user agrees to, and is computed apart from the write |
| Keeper statistics, `internal/keeper`, `web/src/state/useStats.ts` | a session, the mutex around it; the hook's flags | get with one retry, page by page; poll, mount, unmount | the session ends at any time, the window moves between two pages, an answer comes after its page has gone |
| Frontend, `web/src/state` | view, draft, flags, the dialog | load, preview, save, refresh, focus, sign in and out | requests overlap, fail, and are answered in any order |
| Dry run, `cmd/dryrun` | – | BuildWrite on a copy | – |

The parts meet in the server: every handler that touches CPA takes `mu`, loads
(three GETs, then the cached catalog, the settings and the marks), reconciles
the cache with what CPA holds, runs the filter pipeline, prunes and persists
the cache, does its own work and, when it wrote, loads again. The scheduler's
run takes the same mutex and chains a refresh and a save. Browsers and the
store survive a crash of the process; nothing else does. `PROJECT.json` lists
every component with its status, and every hazard with the properties that
watch it.

What makes the panel correct, in a sentence each: it forgets no model it took
out of CPA itself; it puts back no model someone else, or the model's own site,
took away; concurrent tabs do not undo each other; every write can be undone by
a rollback; a save leaves nothing for the next one; it refuses a save for a
reason; it always answers; its preview names everything a save changes; the
scheduler neither loses an edit nor acts on one that has been replaced; and a
tab drops no edit its user has not given up.

## Modules

| Module | Models | |
|---|---|---|
| `CatalogOps` | `internal/catalog`, the pure half | one operator per function of the code |
| `Panel` | the handlers over the store and CPA | state machine, EXTENDS `CatalogOps` |
| `PanelHistory` | – | history variables over `Panel` and the properties that need them |
| `AtomicSaves` | what saving a draft promises | abstract specification |
| `PanelAtomic` | `Panel` seen as `AtomicSaves` | refinement mapping |
| `WriteBack` | `internal/catalog` again, over ordered lists; the preview | state machine |
| `CatalogSets` | the life of the catalog, one handler a step, lists as sets | abstract specification, EXTENDS `CatalogOps` |
| `WriteBackSets` | `WriteBack` seen as `CatalogSets` | refinement mapping |
| `AutoSync` | the scheduler loop, its settings PUT and its shutdown | state machine |
| `SiteList` | which entries of CPA's lists make a site, and what adds and removes entries | state machine |
| `Tab` | one browser tab: view, draft, requests in flight | state machine |
| `Keeper` | statistics: hook, handler, client, session | state machine |
| `PanelProofs`, `HistoryProofs`, `PanelAtomicProofs`, `WriteBackProofs`, `SiteListProofs`, `AutoSyncProofs`, `TabProofs`, `KeeperProofs` | – | theorems |
| `MCPanel`, `MCHistory`, `MCAutoSync`, `MCSiteList`, `MCWriteBack`, `MCTab`, `MCKeeper` | – | instances for TLC |

`Panel` is the middle of the project. Above it, `AtomicSaves` says what its
users may count on, and `Tab` takes a server of that kind for granted. Below it,
`WriteBack` and `SiteList` look closer at two things `Panel` abstracts, the
lists and the sites in them; that `Panel` may take a list for a set of names is
proved (`WriteBackSets`). `AutoSync` calls the run that `Panel` has as one of
its requests. `Keeper` shares nothing with the rest.

### CatalogOps and Panel

`cpa` is the configuration CPA holds: per channel and site a provider, a
function from upstream names to the alias (or `NoAlias`, or `Absent`).
`catalog` is the table `model_catalog`, `settings` the keys of the settings
table, `exclusions`, `disabled` and `keeps` the mark tables, `snapshots` the
table `config_snapshots`, oldest first. `mu` is `Server.mu`. A process is a tab
or the scheduler goroutine; `pc` is where its handler is, `req` its request,
`st` the handler's locals (`st.snap` is `st.Snapshot`, and so on), `view` the
configuration whose fingerprint the tab would send. Fingerprints are modelled
by the configuration they are taken of.

One action is one call out of the process – a GET or PUT of one list, one
statement or transaction of the store – together with the computation up to the
next such call. A save is therefore
`Lock; GetChannel…; LoadBase; CheckFingerprint; ApplyOp…; WriteCatalog;
AddSnapshot; PruneSnapshots; PutChannel…; PutsDone; SetExclusions; SetDisabled;
SetKeeps; GetChannel…; LoadBase; Respond`, with `Conflict`, `GetFails` and
`PutFails` on the way, as in `saveLocked`. A refresh goes through `Probe` and
`Merge`, with a write in between when it sweeps; the scheduled run (kind
`"auto"`) goes on from `Merge` to a save with the fingerprint of that refresh
and a rename for every suggestion. `ExternalEdit` is someone else's change to
CPA; `Crash` is a killed process, restarted.

Abstractions. The order of a list, keys, headers, priorities and repeated
entries are left out (`WriteBack` has them). A site is named by its openai provider (how sites are told
apart is `SiteList`'s subject); a provider whose
site has none, or that has no key, is outside the panel's list and copied
through. Cleaning, the version rule and the protocol regexes are functions and
sets given per instance, so the settings of cleaning and protocol do not change
in a run; the whitelist, the version rule and routing do. A probe that fails and
one that lists nothing are the same (the code treats them alike). Errors of
SQLite, invalid regexes, site health, temporary sites, the naming and priority
of an egg, and the dry run of a save (a load that writes what every load
writes) are left out. Draft operations carry one target each, and a draft is a
set, carried out in every order.

### PanelHistory

Five history variables follow the steps of `Panel` without changing them: what
the panel owes (took out of CPA itself and must be able to give back), what it
placed, what others erased after it was seen or placed, what its site no longer
lists, and which views are older than somebody else's change. A load that does
not find a site drops the entries of its models, the tombstones of `MergeDiscovered`
among them, so what a site last listed is forgotten with the site: after a
rollback to a snapshot that lacks the site's openai entry, and another that has it,
the site's models are new to the panel. (The proof of `NoDelistedWrite` met this;
the instances have too few lists for it.)

### AtomicSaves and PanelAtomic

`AtomicSaves` is what a save promises about the marks: a user asks for a draft;
it is carried out once, whole, on the three sets of marks at the same instant,
or refused without a trace; nobody else changes a mark. A draft that both sets
and clears a mark may leave it either way. `PanelAtomic` maps the panel to it.
The three tables are written by three statements, so `MarksAtOnce` counts a set
the holder of the mutex has still to write as written, which puts the instant
at `SetExclusions`; a tab waits for its draft (`Waiting`) until then, or until
its request ends without it. That nothing of a half-written state is ever seen
is then the refinement `SavesAreAtomic`: another handler that read a table in
between, or a save that wrote a set computed from an older one, would be a step
`AtomicSaves` does not have.

### WriteBack

`cpa` is, per channel, the sequence of its providers, each the sequence of its
models with name, alias and the other fields (`raw`). `cached` is
`model_catalog` with the copies of every model (`Entry.Occurrences`), one to a
list: of several the code never looks past the first (`occurrence`). Their
places are not stored (`Forget`; the code's `-1` is 0). `Reconcile`, `Prune`,
`Discovered` (MergeDiscovered), the draft operations, `Targets`, `OrderOf`,
`Written`, `Created` and `BuildWrite` are the functions of the code. The code
sorts a list by old place or `appendOrder` + index in the catalog; here a list
is the listing of its models by ascending `OrderOf` (`InOrder`), and `Rank` is
that index. `Told` is Diff. `held`
is an observer: the copies of a model when the panel last saw it in CPA.

Here a handler is one step, since interleaving is `Panel`'s subject, and
whichever mark or rule hides a model, it is in `hidden`. Provider keys and
headers, which the write copies, and the choice between several hidden reasons
are left out.

### CatalogSets and WriteBackSets

`CatalogOps`, and with it `Panel`, has a list as a set of names, each with one
alias, and an entry without fields or places. `CatalogSets` is the system of
`WriteBack` – load, save, probe, routing, edits – put together from those
operators. `WriteBackSets` maps the lists to sets as the code reads them: of
several copies of a model in a list the first (`AsOcc`), of several providers of
a site the last (`AsConfig`); fields, places and priorities are not seen. Of a
draft `CatalogSets` takes a set of operations, any of which may be the last on
its model, as `WriteBack` does. `ImplementsSets` then says that neither the place
of a model in its list, nor a second copy of it there, nor a second provider of
its site decides what is written, kept, hidden or forgotten: the two models of
`internal/catalog` agree, and the operators `Panel` is built from do not owe
their results to the form they give to lists. `CatalogOps` names a site by its provider in the first
list (openai), so the mapping is for sites that have one there
(`SetsAssumption`); the others are `SaveRenamesSite`.

### Tab

`useCatalog`, `useDraft` and the buttons of `App` and `Header`. A key is
whatever a draft can override, with two values; `Changed` is `changedKeys`, and
`BuildOps` sends what differs from the view. A request is sent, served by the
server or lost (before or after it took effect), and answered; requests overlap
and are answered in any order. `FlagsAfter`, the view, the draft and the dialog
are set by `Answer` as the `finally` and `then` branches do. A 401 may come with
any failure and signs the tab out, the draft staying in memory. The server is
`AtomicSaves`' kind, a save being refused when its base is not what CPA holds;
others change it at any time. `untouched` is an observer: the edits that were
open when a request was sent and that the user has left alone.

### Keeper

Requests for statistics take the client's mutex page by page (`Enter`), log in
when they must, ask, and on a refused session log in and ask once more
(`Refused`, `GiveUp`). Keeper's window is `first..last`, the events being
numbered in the order they arrive; it lists them newest or oldest first. The
hook has its `loading` and the `inFlight` reference, a request whose page has
gone is no longer `mine`, and `OtherTab` sends requests from elsewhere. Keeper
answers, refuses, ends the session or does not answer, as it likes. What is
counted per site and model is a function of the events read, so the model keeps
how often each was read.

### AutoSync

One action per critical section of `autoMu`, statement of the store or channel
operation. `autoNextRun` is only ever compared with the timestamp the loop
published last, so it is a Boolean, `scheduled`. `early` carries the one thing
the model says about time: the delay is at least a minute (`Validate` keeps the
jitter below the interval), so a PUT under way when the wait began has returned
when the timer fires, and a token or a cancellation already there ends the wait
first. `Run` is one step; what happens in it is `Panel`'s. Each start begins
with whatever configuration the store holds, which is how a crash enters.
`StopAutoSync` has one caller, `main`; a second one would return at once while
the first still waits, and what is said of its return is said of the first.

### SiteList

`cpa` is again what CPA holds, now as three sequences of entries, an entry being
its name, its keys and its base URL. A codex or claude entry has one field for a
key, an openai entry a list of keys (`Fits`); that no site unites two accounts
relies on it. `BuildSites` is the function of that name:
`WalkList` goes through a list, `Place` gives each entry to a site, `Resolve` is
`resolveSite` with its three indexes (read off the entries that founded sites,
since those are what the code indexes), `Add` is the closure `add`, and `NameId`
and `HostId` are the two ways to an id. `Save` adds the entries `place` creates,
for any set of sites in need (`Creatable`); `Delete` and `SweepKeylessSites` stop
after any list, as they do when a PUT fails; `Egg` and `ExternalEdit` add and remove
entries. The interleaving of handlers, which take the mutex, is `Panel`'s; here a
handler is one step. Models, headers, priorities and the order of the columns
are left out; a URL is a host with or without `/v1`.

The code's ids are strings of one namespace. So a name with a number added
(`Numbered`, the code's `name + " #2"`) is an id like any name, and may be a name
of `Labels` too: of two entries "a" and one "a #2" the last may find its name
taken. The ids that are made of a URL or a host are kept apart from names, as if
nobody gave an entry a name that begins with `url:` or `host:`, and the 32-bit
fingerprint in the id of a second account on a host is taken to tell keys apart.

Three properties speak of tidy lists: every entry has keys, none of them twice,
and no account – what shared keys hold together – has two entries in one list
(`GroupsAreAccounts`, `SaveFoundsNoSite`, `DeleteTakesOneSite`). In
them sites and accounts are the same thing. (The index of keys counts a key that
an entry repeats twice, takes it for one that two entries share and no longer
knows the account by it.) Out of them the panel still never unites two
accounts (`GroupsApart`), but it may hide an entry or split an account, and
duplicate names are numbered by position. The run covers tidy and untidy lists alike,
and `EggIsNamed` is asked of both: the name an egg is noted under is the id of its
site, unless an entry of that name has no key, and so is not on screen, or the
name looks like a number of a name that some entries share.

## Runs

| Run | Asks |
|---|---|
| `PanelFilters` | On one model with every mark, a whitelist that opens and closes, probes and the scheduled run: does the panel forget a model it owes (`WithheldSurvives`), bring back one that was erased (`NoResurrection`), refuse a save without cause (`ConflictIsReal`)? Also `TypeOK`. |
| `PanelRouting` | With two lists, renames and routing switched on and off: does each save converge (`SaveConverges`), is every list a PUT replaces one its handler has seen as it is (`NoBlindOverwrite`)? |
| `PanelTabs` | Two tabs, two models, drafts of two operations, the scheduled run, failing reads: does one save undo another's marks (`IntentIsolated`), do the saves implement the atomic ones (`SavesAreAtomic`), does every request end (`Answered`)? |
| `PanelSites` | Rollback, deletion, eggs and the sweep among saves over two lists, with failing PUTs and crashes: is every write in flight covered by a retained snapshot (`CoveredWrites`)? |
| `PanelCrash` | Failing GETs and PUTs and a crash anywhere, with a site that stops listing a model: do later saves still converge, and does a delisted model stay out (`NoDelistedWrite`)? |
| `AutoSyncEdits` | Two tabs edit the schedule, the store fails to answer, the scheduler is stopped: `EditTakesEffect`, `RunsAsConfigured`, `ScheduledRuns`, `StopReturns`. |
| `SiteAccounts` | Over all lists within the bound and everything that adds or removes entries: are accounts kept apart (`GroupsApart`), are sites accounts (`GroupsAreAccounts`), are created entries read back into their site (`SaveFoundsNoSite`), does a deletion, cut short or not, take one site's entries only, and all of them if its PUTs succeed (`DeleteTakesOneSite`), when does an egg get the id it is noted under (`EggIsNamed`)? Also `TypeOK`. |
| `WriteBack` | Over ordered lists with repeated entries and copies in two lists: does a save change nothing its preview does not name (`UntoldUntouched`), bring back whole what was hidden (`RestoredWhole`), leave nothing for a second save (`SaveIsFixpoint`), and reproduce CPA when there is nothing to do (`EmptyDraftReproduces`)? Do all handlers do to the sets of names what `CatalogOps` says (`ImplementsSets`)? Also `TypeOK`: no place of an old list is stored. |
| `TabRaces` | Two requests of a tab, overlapping, answered in any order, lost or refused: is there ever a second save on its way (`OneSaveAtATime`), is an edit dropped that its user has not given up (`EditsAccountedFor`), do the buttons come back (`Usable`)? Also `TypeOK`. |
| `KeeperSession` | Two requests page through a moving window under one session: does an expired session heal (`ExpiryHeals`), is the miscount bounded by what moved (`DriftBounded`), is every request answered (`Answered`)? Also `TypeOK`: the hook's flags say that one request is on its way. |

`NoBlindOverwrite` and the history properties hold while others leave CPA alone
during a request (`EditsInFlight` = FALSE; edits between requests are always
there) and, for the three of `PanelFilters`, while CPA's calls succeed.
`SavesAreAtomic` holds while the process is not killed. What happens otherwise
is shown by the next runs or told under "Known disagreements".

Two runs are expected to fail; each shows a disagreement between the code and
what it says of itself.

| Run | Shows |
|---|---|
| `RestoreLostOnFailedPut` | A save that restores a model prunes it from the cache before the PUT; when the PUT fails the model is nowhere. |
| `SaveRenamesSite` | A save that gives a site its first openai entry changes the id of the site, and its cached models and marks stay behind under the old one. |

Every passing property has a mutant in `PROJECT.json`, an operator of the same
module that changes one definition the way a plausible bug would; TLC finds the
property violated under each.

### Bounds

* `Panel`: one account of one site (two, where one is keyless), one or two
  upstream names, one or two channels, drafts of at most one operation (two in
  `PanelTabs`), `Retain` = 1 snapshot, and `MaxSurplus` = 1 snapshot more than
  that left by a crash between the insert and the retention. One model is enough
  for the life cycle of an entry, because no operator lets one model's entry
  depend on another's except through its provider; two are used where that or
  the separation of marks matters. Two channels are the least with a move. A
  process may make any number of requests.
* `SiteList` (93,428 states): two keys, two hosts, a label and the same with a number
  (two entries of the first and an egg of the second meet the one way numbers and
  names can), and `MaxEntries` = 4, which makes
  room for two accounts with entries in two lists each, or three entries that
  compete for one account and a stranger; a save, an egg and an edit add shapes
  of their own.
* `WriteBack` (8,700 states): one account in two lists with a provider of
  nobody's beside it, or in one list with two providers, two models, whose catalog
  order is not that of the lists, copies with different fields, and `MaxEdits` = 1
  edit by someone else, which is what repeats an entry, also under another alias.
  Handlers are unbounded. A second edit only repeats an entry again or empties the
  list.
* `Tab` (140,244 states): one key and `MaxCalls` = 2 requests in flight. Keys do
  not interact except in `Dirty`, which one key sets and clears; two requests
  are the least that race.
* `Keeper` (119,120 states): two requests, `MaxEvents` = 3, one event to a page,
  `MaxPages` = 3: a window may fill all the pages that are ever read, and it
  empties or grows while it is read.

## Known disagreements

Met while modelling, besides the two runs above. The first eight were seen as
counterexamples of TLC and are left as definitions or constants to try again.

* *Edits in flight.* An edit made between a handler's GETs and its PUTs is
  overwritten unread, and `fingerprint.go:14` says the fingerprint is "never a
  missed one". With `EditsInFlight` = TRUE in `PanelRouting.cfg`,
  `NoBlindOverwrite` is violated. CPA has no conditional PUT; the window can be
  made smaller, not closed. The deletion, egg and sweep handlers compare no
  fingerprint at all.
* *Pending entries resurrected.* When the load that closes a save fails
  (`save.go:187`), the entry just written is still `pending` in the cache. If
  someone else then deletes the model, Prune keeps the entry and the next save
  puts it back; `raw.go:210` says it "must not be resurrected". With
  `GetMayFail` = TRUE in `PanelFilters.cfg`, `NoResurrection` is violated.
* *A conflict of one's own.* When that load fails, the answer carries the view
  and the fingerprint of before the save (`save.go:189`), and the next save of
  the tab is refused although nobody else changed anything; `fingerprint.go:13`
  says "never a false alarm". With the same change `ConflictIsReal` is violated.
* *A model without a place.* A site whose entry in a list was replaced by a
  second one without a key has no credentials to create entries elsewhere
  (`site.go:103`, `writeback.go:142`), and models routed there are dropped,
  the very failure `writeback.go:48` speaks of. `HasPlace` in `SiteList`.
* *An empty draft and repeated entries.* A model listed twice under two aliases
  is written once, under one, although `writeback.go:43` promises that an empty
  draft reproduces CPA byte for byte; the preview, which folds a list into a map
  and keeps the last, names no change when the last one wins.
  `EmptyDraftReproducesAll` in `WriteBack`.
* *An edit during the reload on focus.* `useCatalog.ts:65` skips the reload
  "while a draft is open"; a draft opened while the reload runs is reset by its
  answer. `ReloadKeepsEdits` in `Tab`.
* *An edit during the preview.* "Ask the server what it would do, show it, then
  let the user commit" (`useCatalog.ts:89`): the matrix can be edited while the
  preview is computed, `save` builds its operations from the draft of its own
  moment, and so the dialog's button sends an edit that the dialog does not show.
  `PreviewIsCurrent` in `Tab`.
* *An egg noted under another site's id.* `eggs.go:94` compares the name of an egg
  with the names on screen, and `eggs.go:134` keys `temp_sites`, a table of site
  ids, by it. With two entries "a" an egg may be called "a #2", the id of the
  second "a"; its own site becomes "a #2 #2", and the second "a" is shown as
  temporary. The same happens with the name of an entry without a key, which is
  not on screen. `EggIsAlwaysNamed` in `SiteList`; `EggIsNamed` says that there
  is no third way.
* The second copy of a restored model gets the other fields of the first one:
  a copy is not put "back exactly where it came from" (`types.go:11`) once its
  place is forgotten. `RestoredWhole` says what holds.
* The preview lists models only; a draft that changes nothing but priorities
  previews as no change. A priority asked for a provider that the same save
  creates is dropped.
* Rule 1 of `src/README.md` (models always go back to their own list) describes
  `RouteByProtocol` off, which is not the default, and its order of
  identification is not the one of `resolveSite`.
* A temporary mark outlives its egg when the egg is removed elsewhere: a later
  site of that name is shown as temporary. A crash between the PUT and
  `AddTempSite` leaves an egg unmarked.

## Fairness

Liveness needs it, and nothing else does. `Panel`: a handler's own steps are
weakly fair – every CPA call returns, by the client's 60 s timeout at the
latest – and `Lock` is strongly fair, because `sync.Mutex`
hands itself to a waiter that has starved for a millisecond. Arrivals, edits and
crashes are not fair. `AutoSync`: the loop, the PUT handlers and the shutdown are
weakly fair (time passes and a run ends, which is `Answered`), and the read of
the configuration is strongly fair: the store may fail, not forever. That a
user sends an edit or that anybody stops the scheduler is not assumed.
`ScheduledRuns` speaks of behaviours in which the edits cease, since every edit
starts the wait anew and a steady stream of them would postpone the run for
good. `Tab`: a request that was sent is served or its connection breaks, and an
answer that arrived is handled by its promise; nothing is assumed of the user.
`Keeper`: a call ends at the latest with the client's 30 s timeout, and the
mutex is strongly fair as above; polls, other tabs and Keeper's events are not
fair.

## Theorems

All for arbitrary finite or infinite sets of sites, names, users and
configurations within the named assumptions of the modules
(`CatalogAssumption`, `SentinelAssumption`, `EntryAssumption`,
`PanelAssumption`, `WriteBackAssumption`, `SetsAssumption`, `SiteAssumption`,
`AutoSyncAssumption`, `TabAssumption`, `KeeperAssumption`). A theorem about `Panel` that needs more – that nobody edits
CPA while a handler runs, that calls succeed, that the process is not killed –
says so in its statement. Those are needed: "Known disagreements" tells what
happens without them.

* `TypeCorrect` (`PanelProofs`): `TypeOK`, with `SnapRead`: past its reads a
  handler holds a whole configuration. `SnapRead` is what makes `TypeOK`
  inductive, as a snapshot or a PUT would otherwise store an unread list. One
  lemma per operator of `CatalogOps` gives its type, one per group of actions
  preserves the invariant.
* `IntentSafe` (`PanelProofs`): `IntentIsolated`. The invariant has three parts:
  whoever is past `Lock` is alone there (`Exclusive`); a handler of a kind is
  only where that kind goes, so only saves reach the mark tables (`Roles`); and
  the marks a save carries agree with the store on every model its draft does
  not name (`Intent`). The last is the heart: it holds from the load on because
  nobody else can write the tables, and each operation moves one model only.
* `WritesCovered` and `NothingOverwrittenUnread` (`PanelProofs`), both under
  `~EditsInFlight`: `CoveredWrites` and `NoBlindOverwrite`. The invariant
  (`Fresh`) says that from the first GET to the last PUT the lists the holder of
  the mutex has read, and has not yet replaced, are those of CPA, and that from
  the insert on the newest snapshot holds what it read. Retention keeps the
  newest (`NewestStays`), whatever `Retain` ≥ 1 is.
* `SavesRefineAtomic` (`PanelAtomicProofs`), under `~MayCrash`: the
  specification implies `SavesAreAtomic`, step by step. The invariant adds to
  `Exclusive` and `Roles` that the marks a save holds are the stored ones with
  the part of its draft that it has gone through carried out on them, and the
  rest still to do (`Progress`), and that the scheduled run's draft renames and
  touches no mark (`OnlyRenames`). So `SetExclusions` is `Atomic!Save` with the
  models the load knew, and every other step of a handler changes neither
  `MarksAtOnce` nor a draft waited for, or ends the wait of one user
  (`Atomic!Refuse`), or begins it (`Atomic!Ask`). A kill between the three
  statements leaves a draft half carried out, for good: hence the assumption.
* `OneSaveConverges` (`PanelProofs`), under `~EditsInFlight`: `SaveConverges`.
  The heart is a fact about the operators (`Settles`): what `BuildWrite` makes of
  a catalog, loaded again with the cache the save leaves, has nothing to add, to
  remove or to move, and is written as it is. The invariant carries it from the
  write to the answer (`Converging`): the lists still to send are those that
  differ, the marks held are those the store is being given, and the last load
  reads what the puts left. It needs that catalogs are sound – an entry has a
  place, and one that is gone does not wait to be written (`CatalogsSound`) – and
  which requests reach which steps in which round of reading (`Paths`). Failing
  calls and kills are allowed for: a save cut off does not answer.
* `DelistedStaysOut` (`HistoryProofs`), under `~EditsInFlight`: `NoDelistedWrite`.
  A delisted model is a tombstone in the cache as long as CPA holds it
  (`Buried`), every handler past its load holds that tombstone, or no entry, and
  a save's lists have the model only where CPA has it already (`BuriedIn`).
* `WithheldStays` (`HistoryProofs`), under `~EditsInFlight`, `~PutMayFail` and
  `~MayCrash`: `WithheldSurvives`. An owed model is withheld in the cache, or the
  write that gives it back is on its way (`Remembered`), and what a handler holds
  differs from the cache by aliases only (`Alike`). `RestoreLostOnFailedPut` shows
  what a failing PUT does.
* `ErasedStaysOut` (`HistoryProofs`), where in addition GETs succeed:
  `NoResurrection`. Between saves an entry that CPA held, or a save put there, is
  neither pending nor withheld (`CleanInv`), so the load after the deletion drops
  it.
* `ConflictsAreReal` (`HistoryProofs`), under the same: `ConflictIsReal`. A view
  nobody else has made stale is what CPA holds, until its own save begins to
  write (`Seen`).
* `SiteListProofs`, for lists of any length. `BuildSites` is a walk, and its
  invariant is proved entry by entry (`WalkInv`): each site has an entry, a site
  agrees with its founder, and one that is named by its host and has no key yet is
  either keyless or the only one its host leads to (`OpenSite`), which is the case
  that could have united two accounts. From it `TypeCorrect` (`TypeOK`) and
  `AccountsApart` (`GroupsApart`). In tidy lists the sites known half-way are the
  accounts as far as the entries read so far show them (`Divided`), and each has
  one founder that shares a key with all its entries (`Headed`); hence
  `SitesAreAccounts` (`GroupsAreAccounts`), `DeletionIsExact`
  (`DeleteTakesOneSite`: where each entry comes from, `Comes`, keeps lists tidy and
  accounts whole) and, since the new entries of a save have the site's
  first key and one home (`Home`), `SaveIsReadBack` (`SaveFoundsNoSite`).
  `EggHasItsName` (`EggIsNamed`) knows the id of each site the openai list founds:
  its entry's name or URL, or a number, and then some entries share a name
  (`Named`); and it follows those sites through the other two lists (`Stays`).
* `RunsUnderStoredConfig` (`AutoSyncProofs`): `RunsAsConfigured`. When the loop
  holds an outdated configuration, someone is still to tell it: before the wait a
  token or a PUT under way; in the wait, with the timestamp up, a token, a PUT
  before its clear or an early one before its send; at the check a PUT before
  its clear.
* `OneSaveOnly` and `EditsKept` (`TabProofs`): `OneSaveAtATime` and
  `EditsAccountedFor`, with `TabTypeCorrect`. A save on its way holds the
  `saving` flag up (`Guarded`), and the flag goes down only with the one save
  there is. An edit left alone since a save was sent is in that save's
  operations, then in its answer, unless the model is gone; a reload nobody
  asked for is sent only when there is no edit (`Carried`).
* `ExpiryHealed` (`KeeperProofs`): `ExpiryHeals`, with `KeeperTypeCorrect`, which
  holds the one-request rule of the hook. Only the holder of the mutex is inside
  `get` (`InTurn`), so the session a second attempt asks under is the one its
  own login opened (`Sessions`), and if Keeper refuses it, it has ended since.
* `DriftLimited` (`KeeperProofs`): `DriftBounded`, for windows of any size, any
  number of pages and requests. After each page there is an event that parts what
  has been read from what has not. Newest first, all from it on have been read, and
  those read again are no more than arrivals have pushed down (`NewestAt`); oldest
  first, nothing from it on has been read, and those skipped are no more than
  departures have pulled up (`OldestAt`). Each page moves it by at most a page.

* `WriteBackProofs`, for lists of any length, with entries and providers repeated
  at will. A list that `InOrder` makes is characterised by what is in it and by
  its places (`ListedByPlace`); from that, what a save leaves of each provider, of
  each model and of each copy (`RebuiltFacts`, `SentModels`, `SentCopies`). Then:
  * `WriteBackTyped`: `TypeOK`; a stored entry always has a copy, and never a place.
  * `WriteBackRestores`: `RestoredWhole`. The invariant (`Remembers`) says that the
    stored entry of a model is in the lists of the copies the panel last saw, with
    the fields of one of them; a load, a probe or a save that leaves it out hands
    it on, and a save that brings it back writes from it.
  * `WriteBackFixpoint`: `SaveIsFixpoint`. The models that a second save places are
    those the first one placed (`SamePlaces`: the protocol goes by an alias that is
    the same in every copy by then), each is where its place says (`Repeats`), so
    every list is written as it is (`SentBack`). It needs no invariant beyond
    `TypeOK`: one save mends whatever it finds.
  * `WriteBackReproduces`: `EmptyDraftReproduces`. Untouched models are placed just
    where they are (`UntouchedPlaces`), and sorting by old place returns the list
    (`WrittenBack`).
  * `WriteBackUntold`: `UntoldUntouched`. A name the preview keeps silent about was
    in place and stays so, ahead of and behind the same silent names
    (`StaysInPlace`), with one alias and its own fields (`KeptSame`).
  * `WriteBackRefinesSets`: the specification implies `ImplementsSets`, step by
    step. One lemma per operator says that the function on lists, seen through the
    mapping, is the one on sets (`SeenReconcile`, `SeenPrune`, `SeenDiscovered`,
    `SeenRenamed`, `SeenHides`, `SeenTargets`, `SeenPlaced`, `SeenBuildWrite`), and
    one per handler puts them together. The invariant is `TypeOK` and `Homed`: a
    site that has providers keeps one in the first list, whatever is saved or
    edited.

The state invariants of the proofs were checked by TLC on the instances above as
well, except for `PagingInv`, which names a place among all the integers, and the
invariants of the walk of `SiteListProofs`, which speak of what is known half-way.

Induction over the length of a list or a walk is done with sets: a least
counterexample among the natural numbers (`LeastNat`, `Inductive`), since the
library's induction theorems take an operator, which the provers here cannot
instantiate.

Model-checked only: liveness (`Answered`, `Usable`, `StopReturns`,
`EditTakesEffect`, `ScheduledRuns`), which needs ENABLED of the fair actions and is
out of the prover's reach. Every invariant and every action property that a passing
run checks, and both refinements, of `AtomicSaves` and of `CatalogSets`, are
theorems.

## Not modelled

* The legacy migration (`store/legacy.go`): it runs once, over tables of a schema
  the repository no longer writes. Rows whose provider CPA does not have at that
  moment are dropped.
* Site health and temporary marks (`store/sites.go`): shown beside a site, they
  decide a label and the priority proposed for the next egg and never what is
  written. When the id noted for an egg is its site's is `EggIsNamed`.
* Endpoints, parsing and the worker pool of discovery (`cpa/discover.go`): a site
  answers with a list or with nothing. The log of the scheduler's runs: written
  after a run and read by a page.
* String work: cleaning, the version rule and protocol regexes (`internal/clean`)
  are arbitrary functions on names, which is all the rest relies on.
* The wire codec of CPA's lists, which copies fields it does not know.
* Errors of SQLite, the login, the environment, static files, the dry run and the
  rendering of pages: I/O without control of their own.
