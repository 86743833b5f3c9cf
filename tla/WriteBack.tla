------------------------------ MODULE WriteBack ------------------------------
(***************************************************************************)
(* What a save writes, entry by entry (internal/catalog): the order of a   *)
(* list, repeated entries, the alias and the other fields of every copy,   *)
(* the priority of a provider, and the preview of it all.                  *)
(*                                                                         *)
(* Panel interleaves the steps of the handlers over a channel list seen as *)
(* a set; here a handler is one step and a list is a list.  A model that a *)
(* mark or a rule hides is in hidden, whichever of them hides it.  A       *)
(* provider belongs to a site, or to Foreign when the panel shows no site  *)
(* for it; which one it belongs to is the subject of SiteList.             *)
(***************************************************************************)
EXTENDS Integers, SequencesExt

CONSTANTS
    Sites, Foreign,
    Upstreams,
    NoAlias, Aliases,
    Protocol,        \* the list the protocol of a canonical name goes to
    Clean,           \* the canonical name of an upstream name with no alias
    NChannels,       \* CPA lists in use, in the order the code walks them
    Fields, NoFields,   \* whatever else a model entry holds
    Priorities,
    Rank,            \* where the catalog sorts an entry
    Starts,          \* configurations CPA may start with
    Drafts,          \* sets of operations a save may carry
    Answers,         \* lists a site may answer a probe with
    EditModels,      \* entries someone else may add to a list
    MaxEdits,        \* bound: edits someone else makes to CPA
    NoCopy, NoEntry

Channels == 1..NChannels
Refs     == Sites \X Upstreams
Alias    == Aliases \cup {NoAlias}

Model    == [name : Upstreams, alias : Alias, raw : Fields \cup {NoFields}]
Provider == [owner : Sites \cup {Foreign}, prio : Priorities, models : Seq(Model)]

\* The copy of a model in a list; at is its place, 0 once that is forgotten.
Copy == [alias : Alias, raw : Fields \cup {NoFields}, at : Nat]

\* Of several copies in a list only the first is ever looked at (occurrence).
Entry == [present : BOOLEAN, pending : BOOLEAN, withheld : BOOLEAN,
          gone : BOOLEAN, occ : [Channels -> Copy \cup {NoCopy}]]

IsOp(op) ==
    \/ op \in [kind : {"hide", "show"}, ref : Refs]
    \/ /\ op \in [kind : {"rename"}, ref : Refs, to : Upstreams \cup Aliases]
       /\ op.to \in Aliases \cup {op.ref[2]}
    \/ op \in [kind : {"priority"}, site : Sites, ch : Channels, to : Priorities]

ASSUME WriteBackAssumption ==
    /\ NChannels \in 1..3
    /\ IsFiniteSet(Sites) /\ IsFiniteSet(Upstreams)
    /\ Foreign \notin Sites /\ NoAlias \notin Aliases /\ NoFields \notin Fields
    /\ NoCopy \notin Copy /\ NoEntry \notin Entry
    /\ Clean \in [Upstreams -> Upstreams \cup Aliases]
    /\ Protocol \in [Upstreams \cup Aliases -> Channels]
    /\ Rank \in [Refs -> Nat]
    /\ \A q, r \in Refs : Rank[q] = Rank[r] => q = r
    /\ 0 \in Priorities
    /\ Starts \subseteq [Channels -> Seq(Provider)]
    /\ \A d \in Drafts : \A op \in d : IsOp(op)
    /\ \A names \in Answers : names \subseteq Upstreams
    /\ EditModels \subseteq Model
    /\ MaxEdits \in Nat

VARIABLES
    cpa,       \* [Channels -> Seq(Provider)]
    cached,    \* model_catalog
    hidden,    \* the models a mark or a rule keeps out
    route,     \* RouteByProtocol
    held,      \* observer: the copies of a model the panel last saw in CPA
    edits      \* how many edits someone else has made

vars == <<cpa, cached, hidden, route, held, edits>>

-----------------------------------------------------------------------------
\* Reading a snapshot.

Lowest(S) == CHOOSE c \in S : \A d \in S : c <= d

\* Of several providers of one site in a list the last one counts.
IndexOf(cfg, c, s) ==
    LET mine == {i \in DOMAIN cfg[c] : cfg[c][i].owner = s}
    IN  IF mine = {} THEN 0 ELSE CHOOSE i \in mine : \A j \in mine : j <= i

ModelsOf(cfg, c, s) ==
    IF IndexOf(cfg, c, s) = 0 THEN <<>> ELSE cfg[c][IndexOf(cfg, c, s)].models

Known(cfg, s) == \E c \in Channels : IndexOf(cfg, c, s) # 0

Places(list, u) == {i \in DOMAIN list : list[i].name = u}

Copies(cfg, r) ==
    [c \in Channels |->
        LET list == ModelsOf(cfg, c, r[1])
            at   == Places(list, r[2])
        IN  IF at = {} THEN NoCopy
            ELSE [alias |-> list[Lowest(at)].alias, raw |-> list[Lowest(at)].raw,
                  at |-> Lowest(at)]]

InLists(occ) == {c \in Channels : occ[c] # NoCopy}

Holds(cfg, r) == InLists(Copies(cfg, r)) # {}

Reconcile(cat, cfg) ==
    [r \in Refs |->
        LET e == cat[r]
        IN  IF Holds(cfg, r)
            THEN [present |-> TRUE, pending |-> FALSE, withheld |-> FALSE,
                  gone |-> e # NoEntry /\ e.gone, occ |-> Copies(cfg, r)]
            ELSE IF e = NoEntry \/ ~Known(cfg, r[1])
            THEN NoEntry
            ELSE [e EXCEPT !.present = FALSE]]

Prune(cat, hid) ==
    [r \in Refs |->
        LET e == cat[r]
        IN  IF /\ e # NoEntry
               /\ \/ e.present \/ e.pending \/ e.withheld
                  \/ ~e.gone /\ r \in hid
            THEN e
            ELSE NoEntry]

Placeless(occ) ==
    [c \in Channels |-> IF occ[c] = NoCopy THEN NoCopy ELSE [occ[c] EXCEPT !.at = 0]]

\* Mutant: the places are stored too.
ForgetNothing(cat) == cat

\* The store keeps an entry without the places of its copies.
Forget(cat) ==
    [r \in Refs |->
        LET e == cat[r]
        IN  IF e = NoEntry THEN NoEntry
            ELSE [e EXCEPT !.occ = Placeless(@)]]

Loaded(cat, cfg, hid) == Prune(Reconcile(cat, cfg), hid)

-----------------------------------------------------------------------------
\* One entry.

AliasOf(e) ==
    LET named == {c \in InLists(e.occ) : e.occ[c].alias # NoAlias}
    IN  IF named = {} THEN NoAlias ELSE e.occ[Lowest(named)].alias

AnyCopy(e) == e.occ[Lowest(InLists(e.occ))]

\* Mutant: the protocol goes by the alias of the first copy alone.
CanonicalOfFirst(r, e) ==
    IF AnyCopy(e).alias = NoAlias THEN Clean[r[2]] ELSE AnyCopy(e).alias

Canonical(r, e) == IF AliasOf(e) = NoAlias THEN Clean[r[2]] ELSE AliasOf(e)

Targets(r, e, rt) == IF rt THEN {Protocol[Canonical(r, e)]} ELSE InLists(e.occ)

\* Still where the snapshot has it in list c.
InPlace(e, c) == e.occ[c] # NoCopy /\ e.occ[c].at > 0

-----------------------------------------------------------------------------
\* A draft: [kind : {"hide", "show"}, ref], [kind : {"rename"}, ref, to] and
\* [kind : {"priority"}, site, ch, to].

OpsOf(d, kind) == {op \in d : op.kind = kind}

OnModels(cat, d, kind) == {op.ref : op \in {o \in OpsOf(d, kind) : cat[o.ref] # NoEntry}}

HiddenAfter(cat, hid, d) ==
    (hid \cup OnModels(cat, d, "hide")) \ OnModels(cat, d, "show")

Aliased(occ, to) ==
    [c \in Channels |-> IF occ[c] = NoCopy THEN NoCopy ELSE [occ[c] EXCEPT !.alias = to]]

Renamed(cat, d) ==
    [r \in Refs |->
        LET e     == cat[r]
            asked == {op \in OpsOf(d, "rename") : op.ref = r}
        IN  IF asked = {} \/ e = NoEntry THEN e
            ELSE LET to   == (CHOOSE op \in asked : TRUE).to
                     next == IF to = r[2] THEN NoAlias ELSE to
                 IN  [e EXCEPT !.occ = Aliased(@, next)]]

PriorityAfter(d, s, c, old) ==
    LET asked == {op \in OpsOf(d, "priority") : op.site = s /\ op.ch = c}
    IN  IF asked = {} THEN old ELSE (CHOOSE op \in asked : TRUE).to

-----------------------------------------------------------------------------
\* The write.

Placed(cat, hid, rt, s, c) ==
    {u \in Upstreams :
        LET r == <<s, u>>
            e == cat[r]
        IN  /\ r \notin hid
            /\ e # NoEntry /\ ~e.gone
            /\ c \in Targets(r, e, rt)}

\* Mutant: a model that is not in place is written with nothing but its name.
FieldsOfNone(e, c) == IF InPlace(e, c) THEN e.occ[c].raw ELSE NoFields

\* Mutant: every copy gets the fields of the first.
FieldsOfFirst(e, c) == AnyCopy(e).raw

FieldsFor(e, c) == IF InPlace(e, c) THEN e.occ[c].raw ELSE AnyCopy(e).raw

\* Beyond every place in the list (2^30 in the code).
AppendOrder(cfg, r, c) == Len(ModelsOf(cfg, c, r[1])) + 1

\* Mutant: a list is written in the order of the catalog.
OrderByRank(cfg, r, e, c) == Rank[r]

\* What is in place keeps its place; the rest follows in catalog order.
OrderOf(cfg, r, e, c) ==
    IF InPlace(e, c) THEN e.occ[c].at ELSE AppendOrder(cfg, r, c) + Rank[r]

Slot(r, e, c) == [name |-> r[2], alias |-> AliasOf(e), raw |-> FieldsFor(e, c)]

\* A listing of S by ascending key.
InOrder(S, key) ==
    CHOOSE q \in [1..Cardinality(S) -> S] :
        \A i, j \in 1..Cardinality(S) : i < j => key[q[i]] < key[q[j]]

Written(cat, hid, rt, cfg, s, c) ==
    LET placed == Placed(cat, hid, rt, s, c)
        list   == InOrder(placed, [u \in placed |->
                                      OrderOf(cfg, <<s, u>>, cat[<<s, u>>], c)])
    IN  [i \in DOMAIN list |-> Slot(<<s, list[i]>>, cat[<<s, list[i]>>], c)]

FirstRank(cat, hid, rt, s, c) ==
    Lowest({Rank[<<s, u>>] : u \in Placed(cat, hid, rt, s, c)})

\* Providers the write adds to list c, in the order the catalog asks for them.
Created(cat, hid, rt, cfg, c) ==
    LET sites == {s \in Sites : /\ Known(cfg, s) /\ IndexOf(cfg, c, s) = 0
                                /\ Placed(cat, hid, rt, s, c) # {}}
        order == InOrder(sites, [s \in sites |-> FirstRank(cat, hid, rt, s, c)])
    IN  [i \in DOMAIN order |->
            [owner |-> order[i], prio |-> 0,
             models |-> Written(cat, hid, rt, cfg, order[i], c)]]

\* Providers no site owns, and those another of the same site stands for, are
\* copied through.
BuildWrite(cat, hid, rt, cfg, d) ==
    [c \in Channels |->
        [i \in DOMAIN cfg[c] |->
            LET p == cfg[c][i]
            IN  IF p.owner \in Sites /\ i = IndexOf(cfg, c, p.owner)
                THEN [p EXCEPT !.models = Written(cat, hid, rt, cfg, p.owner, c),
                               !.prio = PriorityAfter(d, p.owner, c, p.prio)]
                ELSE p]
        \o Created(cat, hid, rt, cfg, c)]

MarkWithheld(cat, hid) ==
    [r \in Refs |->
        LET e == cat[r]
        IN  IF e = NoEntry THEN NoEntry
            ELSE [e EXCEPT !.withheld = ~e.gone /\ r \in hid]]

-----------------------------------------------------------------------------
\* The preview (Diff): per provider, names added, removed and renamed.  Of
\* repeated entries the last one counts.

NamesIn(list) == {list[i].name : i \in DOMAIN list}

NameOf(list, u) ==
    list[CHOOSE i \in DOMAIN list :
            /\ list[i].name = u
            /\ \A j \in DOMAIN list : j > i => list[j].name # u].alias

Before(cfg, c, i) == IF i \in DOMAIN cfg[c] THEN cfg[c][i].models ELSE <<>>

Added(cfg, out, c, i)   == NamesIn(out[c][i].models) \ NamesIn(Before(cfg, c, i))
Removed(cfg, out, c, i) == NamesIn(Before(cfg, c, i)) \ NamesIn(out[c][i].models)
Renames(cfg, out, c, i) ==
    {u \in NamesIn(Before(cfg, c, i)) \cap NamesIn(out[c][i].models) :
        NameOf(Before(cfg, c, i), u) # NameOf(out[c][i].models, u)}

Told(cfg, out, c, i) ==
    Added(cfg, out, c, i) \cup Removed(cfg, out, c, i) \cup Renames(cfg, out, c, i)

-----------------------------------------------------------------------------
\* The panel, one handler at a time.

Nowhere == [c \in Channels |-> NoCopy]

Init ==
    /\ cpa \in Starts
    /\ cached = [r \in Refs |-> NoEntry]
    /\ hidden = {}
    /\ route \in BOOLEAN
    /\ held = [r \in Refs |-> Nowhere]
    /\ edits = 0

\* The panel remembers a model from the load that sees it to the one that
\* finds it neither in CPA nor worth keeping.
Remember(loaded, now) ==
    held' = [r \in Refs |->
                IF loaded[r] = NoEntry THEN Nowhere
                ELSE IF Holds(now, r) THEN Copies(now, r)
                ELSE IF Holds(cpa, r) THEN Copies(cpa, r)
                ELSE held[r]]

Load ==
    LET cat == Loaded(cached, cpa, hidden)
    IN  /\ cached' = Forget(cat)
        /\ Remember(cat, cpa)
        /\ UNCHANGED <<cpa, hidden, route, edits>>

\* saveLocked: load, draft, write, and the load that answers.
Save(d) ==
    LET cat  == Loaded(cached, cpa, hidden)
        hid  == HiddenAfter(cat, hidden, d)
        next == Renamed(cat, d)
        out  == BuildWrite(next, hid, route, cpa, d)
        kept == Forget(Prune(MarkWithheld(next, hid), hid))
    IN  /\ UNCHANGED <<route, edits>>
        /\ hidden' = hid
        /\ cpa' = out
        /\ cached' = Forget(Loaded(kept, cpa', hid))
        /\ Remember(cat, cpa')

\* A probe of one site (MergeDiscovered); an empty answer says nothing.
NewList(cfg, r) ==
    LET c == Protocol[Clean[r[2]]]
    IN  IF IndexOf(cfg, c, r[1]) # 0 THEN c
        ELSE Lowest({k \in Channels : IndexOf(cfg, k, r[1]) # 0})

Discovered(cat, cfg, s, names) ==
    [r \in Refs |->
        IF r[1] # s THEN cat[r]
        ELSE IF cat[r] # NoEntry
        THEN [cat[r] EXCEPT !.gone = r[2] \notin names,
                            !.pending = @ /\ r[2] \in names]
        ELSE IF r[2] \in names
        THEN [present |-> FALSE, pending |-> TRUE, withheld |-> FALSE,
              gone |-> FALSE,
              occ |-> [Nowhere EXCEPT ![NewList(cfg, r)] =
                           [alias |-> NoAlias, raw |-> NoFields, at |-> 0]]]
        ELSE NoEntry]

Refresh(s, names) ==
    LET cat == Loaded(cached, cpa, hidden)
    IN  /\ Known(cpa, s) /\ names # {}
        /\ cached' = Forget(Prune(Discovered(cat, cpa, s, names), hidden))
        /\ Remember(cat, cpa)
        /\ UNCHANGED <<cpa, hidden, route, edits>>

\* The settings page loads under the settings it stores.
SetRouteByProtocol ==
    LET cat == Loaded(cached, cpa, hidden)
    IN  /\ route' = ~route
        /\ cached' = Forget(cat)
        /\ Remember(cat, cpa)
        /\ UNCHANGED <<cpa, hidden, edits>>

\* Someone edits the providers of a site: a model appended or taken out.
AddModel(c, i, m) == cpa' = [cpa EXCEPT ![c][i].models = Append(@, m)]

DropModel(c, i, k) == cpa' = [cpa EXCEPT ![c][i].models = RemoveAt(@, k)]

Edit ==
    /\ edits < MaxEdits
    /\ edits' = edits + 1
    /\ \E c \in Channels : \E i \in {k \in DOMAIN cpa[c] : cpa[c][k].owner \in Sites} :
          \/ \E m \in EditModels : AddModel(c, i, m)
          \/ \E k \in DOMAIN cpa[c][i].models : DropModel(c, i, k)
    /\ UNCHANGED <<cached, hidden, route, held>>

Next ==
    \/ Load
    \/ \E d \in Drafts : Save(d)
    \/ \E s \in Sites, names \in Answers : Refresh(s, names)
    \/ SetRouteByProtocol
    \/ Edit

Spec == Init /\ [][Next]_vars

-----------------------------------------------------------------------------
\* Properties.

\* Every variable has its type; a stored entry has a copy, and no place in a
\* list that may have changed since.
TypeOK ==
    /\ cpa \in [Channels -> Seq(Provider)]
    /\ cached \in [Refs -> Entry \cup {NoEntry}]
    /\ \A r \in Refs : cached[r] # NoEntry =>
          LET occ == cached[r].occ
          IN  InLists(occ) # {} /\ \A c \in InLists(occ) : occ[c].at = 0
    /\ hidden \in SUBSET Refs
    /\ route \in BOOLEAN
    /\ held \in [Refs -> [Channels -> Copy \cup {NoCopy}]]
    /\ edits \in 0..MaxEdits

Once(list) == \A i, j \in DOMAIN list : list[i].name = list[j].name => i = j

\* The entries of a list that are not in names, with those behind them.
Kept(list, names) ==
    LET quiet == {i \in DOMAIN list : list[i].name \notin names}
        pairs == {q \in quiet \X quiet : q[1] <= q[2]}
    IN  {<<list[q[1]], list[q[2]]>> : q \in pairs}

Saved == \E d \in Drafts : Save(d)

\* A save leaves every model its preview does not name as it was, in a list
\* that names no model twice: same alias, same fields, none behind another it
\* was ahead of; and it gives a provider another priority only where the
\* draft asks for one.  (BuildWrite rebuilds every list from the cache.)
UntoldUntouched ==
    [][Saved =>
        \A c \in Channels : \A i \in DOMAIN cpa[c] :
            LET was  == cpa[c][i]
                now  == cpa'[c][i]
                told == Told(cpa, cpa', c, i)
            IN  /\ Once(was.models) =>
                       /\ Once(now.models)
                       /\ Kept(was.models, told) = Kept(now.models, told)
                /\ now.prio # was.prio =>
                       \E d \in Drafts : /\ Save(d)
                                         /\ \E op \in OpsOf(d, "priority") :
                                               op.site = was.owner /\ op.ch = c]_vars

RawOf(occ) == {occ[c].raw : c \in InLists(occ)}

\* A model the panel took out of CPA comes back, however many loads, saves,
\* probes and changes of routing later, with the fields of one of the copies
\* it had; and into the same lists while routing is off.  (The catalog entry
\* is all that is left of it.)
RestoredWhole ==
    [][Saved =>
        \A r \in Refs : ~Holds(cpa, r) /\ Holds(cpa', r) /\ held[r] # Nowhere =>
            LET back == Copies(cpa', r)
            IN  /\ RawOf(back) \subseteq RawOf(held[r])
                /\ ~route => InLists(back) = InLists(held[r])]_vars

\* One save is enough: whatever CPA held, repeated entries and copies under
\* several aliases included, a second save with nothing in it would send back
\* exactly what the first one left.
SaveIsFixpoint ==
    [][Saved =>
        BuildWrite(Loaded(cached', cpa', hidden'), hidden', route', cpa', {}) = cpa']_vars

\* Nothing is hidden, discovered or tombstoned.
Untouched ==
    LET cat == Loaded(cached, cpa, hidden)
    IN  \A r \in Refs : cat[r] # NoEntry =>
            cat[r].present /\ ~cat[r].gone /\ r \notin hidden

OneName(r) ==
    \A c, k \in Channels :
        LET here  == ModelsOf(cpa, c, r[1])
            there == ModelsOf(cpa, k, r[1])
        IN  \A i \in Places(here, r[2]), j \in Places(there, r[2]) :
                here[i].alias = there[j].alias /\ (c = k => i = j)

\* With routing off and no entry touched, a save of an empty draft sends every
\* list back as it was, provided that CPA holds each model under one name,
\* once in a list.
EmptyDraftReproduces ==
    [][~route /\ (\A r \in Refs : OneName(r)) /\ Untouched /\ Save({})
       => cpa' = cpa]_vars

\* Comment of BuildWrite: "every model goes back into the provider, channel
\* and position it was read from, so an empty draft reproduces CPA byte for
\* byte" when routing is off.  This does not hold when a model is listed twice;
\* see README, "Known disagreements".
EmptyDraftReproducesAll == [][~route /\ Untouched /\ Save({}) => cpa' = cpa]_vars
=============================================================================
