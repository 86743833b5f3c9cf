----------------------------- MODULE CatalogOps -----------------------------
(***************************************************************************)
(* The pure half of the panel (internal/catalog): how the cached catalog   *)
(* is reconciled with what CPA holds, which models a filter hides, how a   *)
(* draft and a probe change the catalog, and what a save writes back.      *)
(*                                                                         *)
(* Data abstraction.  A model is a pair <<site, upstream name>>.  A        *)
(* provider is the function from upstream names to the alias CPA holds,    *)
(* Absent where it does not list the model; a channel list maps each site  *)
(* to its provider.  Order within a list, keys, headers and priorities     *)
(* are left out.  Channel 1 is openai-compatibility, 2 codex-api-key and   *)
(* 3 claude-api-key.  A site is named by its openai provider: providers of *)
(* a site without one, and every provider of KeylessSites, are not in the  *)
(* panel's site list and are copied through.                               *)
(***************************************************************************)
EXTENDS Integers

CONSTANTS
    Sites,          \* providers' owners
    KeylessSites,   \* those whose providers CPA holds without an api key
    Names,          \* model names, upstream ones and aliases
    Upstreams,      \* the names sites serve
    Channels,       \* the CPA lists in use
    Clean,          \* clean.Rules.Clean, total: "" is replaced by the name
    Protocol,       \* the channel the protocol regexes name for a model name
    NoAlias, Absent, NoProvider, NoEntry

ASSUME CatalogAssumption ==
    /\ Sites # {} /\ KeylessSites \subseteq Sites
    /\ Upstreams \subseteq Names
    /\ Channels \subseteq 1..3 /\ 1 \in Channels
    /\ Clean \in [Names -> Names]
    /\ Protocol \in [Names -> Channels]
    /\ NoAlias \notin Names
    /\ Absent \notin Names \cup {NoAlias}

Alias     == Names \cup {NoAlias}
Slot      == Alias \cup {Absent}
Provider  == [Upstreams -> Slot]

ASSUME SentinelAssumption == NoProvider \notin Provider

Listing   == [Sites -> Provider \cup {NoProvider}]
Config    == [Channels -> Listing]
Refs      == Sites \X Upstreams

Entry == [present : BOOLEAN, pending : BOOLEAN, withheld : BOOLEAN,
          gone : BOOLEAN, occ : [Channels -> Slot]]

ASSUME EntryAssumption == NoEntry \notin Entry

Catalog == [Refs -> Entry \cup {NoEntry}]

\* The patterns of the settings page, by what they decide: which upstream
\* names the whitelist lets through, which (name, alias) pairs the version
\* rule retires, and whether a save routes by protocol.
Settings == [whitelist : SUBSET Upstreams,
             version   : SUBSET (Upstreams \X Alias),
             route     : BOOLEAN]

\* The settings and the three sets of the store, as one load reads them.
Marks == [rules : Settings, excl : SUBSET Refs,
          dis : SUBSET Refs, keep : SUBSET Refs]

OpKinds == {"rename", "exclude", "include", "keep", "unkeep",
            "disable", "enable"}
Op == [kind : OpKinds, ref : Refs, to : Alias]

First(S) == CHOOSE c \in S : \A d \in S : c <= d

-----------------------------------------------------------------------------
\* What a CPA snapshot says.

Known(snap, s) == s \notin KeylessSites /\ snap[1][s] # NoProvider

Lists(snap, c, r) ==
    snap[c][r[1]] # NoProvider /\ snap[c][r[1]][r[2]] # Absent

Holds(snap, r) == \E c \in Channels : Lists(snap, c, r)

Live(snap, r) == Known(snap, r[1]) /\ Holds(snap, r)

LiveEntry(snap, r, wasGone) ==
    [present |-> TRUE, pending |-> FALSE, withheld |-> FALSE,
     gone |-> wasGone,
     occ |-> [c \in Channels |->
                IF Lists(snap, c, r) THEN snap[c][r[1]][r[2]] ELSE Absent]]

\* Mutant: what CPA no longer holds stays present.
ReconcileStale(cached, snap) ==
    [r \in Refs |->
        IF Live(snap, r)
        THEN LiveEntry(snap, r, cached[r] # NoEntry /\ cached[r].gone)
        ELSE IF cached[r] = NoEntry \/ ~Known(snap, r[1])
        THEN NoEntry
        ELSE cached[r]]

\* CPA decides everything about a model it holds except that it is gone;
\* what it does not hold survives, absent, while its site exists.
Reconcile(cached, snap) ==
    [r \in Refs |->
        IF Live(snap, r)
        THEN LiveEntry(snap, r, cached[r] # NoEntry /\ cached[r].gone)
        ELSE IF cached[r] = NoEntry \/ ~Known(snap, r[1])
        THEN NoEntry
        ELSE [cached[r] EXCEPT !.present = FALSE]]

-----------------------------------------------------------------------------
\* The filter pipeline.

AliasOf(e) ==
    LET named == {c \in Channels : e.occ[c] \in Names}
    IN  IF named = {} THEN NoAlias ELSE e.occ[First(named)]

Canonical(r, e) == IF AliasOf(e) = NoAlias THEN Clean[r[2]] ELSE AliasOf(e)

Effective(r, e) == IF AliasOf(e) = NoAlias THEN r[2] ELSE AliasOf(e)

Suggested(r, e) ==
    IF Clean[r[2]] = Effective(r, e) \/ Clean[Effective(r, e)] = Effective(r, e)
    THEN NoAlias
    ELSE Clean[r[2]]

RuledOut(r, e, rules) ==
    \/ r[2] \notin rules.whitelist
    \/ <<r[2], AliasOf(e)>> \in rules.version

Hidden(r, e, m) ==
    \/ r \in m.excl
    \/ r \in m.dis
    \/ r \notin m.keep /\ RuledOut(r, e, m.rules)

\* Mutant: only what a filter hides right now survives.
PruneUnlessHidden(cat, m) ==
    [r \in Refs |->
        IF /\ cat[r] # NoEntry
           /\ \/ cat[r].present \/ cat[r].pending
              \/ ~cat[r].gone /\ Hidden(r, cat[r], m)
        THEN cat[r]
        ELSE NoEntry]

Prune(cat, m) ==
    [r \in Refs |->
        IF /\ cat[r] # NoEntry
           /\ \/ cat[r].present \/ cat[r].pending \/ cat[r].withheld
              \/ ~cat[r].gone /\ Hidden(r, cat[r], m)
        THEN cat[r]
        ELSE NoEntry]

-----------------------------------------------------------------------------
\* A probe: found[s] is the list site s answered with, {} when it failed or
\* answered nothing, which the code treats alike.

TargetChannel(snap, r) ==
    LET c == Protocol[Clean[r[2]]]
    IN  IF snap[c][r[1]] # NoProvider THEN c ELSE 1

NewEntry(snap, r) ==
    [present |-> FALSE, pending |-> TRUE, withheld |-> FALSE, gone |-> FALSE,
     occ |-> [c \in Channels |->
                IF c = TargetChannel(snap, r) THEN NoAlias ELSE Absent]]

MergeDiscovered(cat, snap, found) ==
    [r \in Refs |->
        IF ~Known(snap, r[1]) \/ found[r[1]] = {}
        THEN cat[r]
        ELSE IF cat[r] # NoEntry
        THEN [cat[r] EXCEPT !.gone = r[2] \notin found[r[1]],
                            !.pending = @ /\ r[2] \in found[r[1]]]
        ELSE IF r[2] \in found[r[1]] THEN NewEntry(snap, r) ELSE NoEntry]

\* What the scheduler accepts: every suggestion in the view, as renames.
Suggestions(cat) ==
    {[kind |-> "rename", ref |-> r, to |-> Suggested(r, cat[r])] :
        r \in {q \in Refs : /\ cat[q] # NoEntry
                            /\ ~cat[q].gone
                            /\ Suggested(q, cat[q]) # NoAlias}}

-----------------------------------------------------------------------------
\* One draft operation on one model.  An operation on a model the catalog
\* does not have is skipped.

Rename(cat, op) ==
    LET next == IF op.to = op.ref[2] THEN NoAlias ELSE op.to
    IN  [cat EXCEPT ![op.ref].occ =
            [c \in Channels |-> IF @[c] = Absent THEN Absent ELSE next]]

OpOnCatalog(cat, op) ==
    IF cat[op.ref] # NoEntry /\ op.kind = "rename" THEN Rename(cat, op) ELSE cat

OpOnMarks(cat, m, op) ==
    IF cat[op.ref] = NoEntry THEN m
    ELSE [m EXCEPT
        !.excl = IF op.kind = "exclude" THEN @ \cup {op.ref}
                 ELSE IF op.kind \in {"include", "keep"} THEN @ \ {op.ref}
                 ELSE @,
        !.keep = IF op.kind = "keep" THEN @ \cup {op.ref}
                 ELSE IF op.kind = "unkeep" THEN @ \ {op.ref} ELSE @,
        !.dis  = IF op.kind = "disable" THEN @ \cup {op.ref}
                 ELSE IF op.kind = "enable" THEN @ \ {op.ref} ELSE @]

-----------------------------------------------------------------------------
\* The write-back.

Targets(r, e, m) ==
    IF m.rules.route THEN {Protocol[Canonical(r, e)]}
    ELSE {c \in Channels : e.occ[c] # Absent}

\* Mutant: tombstones are written like any other entry.
PlacedWithGone(cat, m, s, c) ==
    {u \in Upstreams :
        LET r == <<s, u>>
        IN  /\ cat[r] # NoEntry
            /\ ~Hidden(r, cat[r], m)
            /\ c \in Targets(r, cat[r], m)}

\* The models of site s that a save puts in channel c.
Placed(cat, m, s, c) ==
    {u \in Upstreams :
        LET r == <<s, u>>
        IN  /\ cat[r] # NoEntry
            /\ ~cat[r].gone
            /\ ~Hidden(r, cat[r], m)
            /\ c \in Targets(r, cat[r], m)}

\* Mutant: a model routed to a channel its site has no provider in is dropped.
BuildWriteNoCreate(cat, m, snap) ==
    [c \in Channels |-> [s \in Sites |->
        IF ~Known(snap, s) \/ snap[c][s] = NoProvider
        THEN snap[c][s]
        ELSE [u \in Upstreams |->
                IF u \in Placed(cat, m, s, c) THEN AliasOf(cat[<<s, u>>])
                ELSE Absent]]]

\* The three lists a save sends back.  A provider is created where the site
\* has none in the channel one of its models goes to.
BuildWrite(cat, m, snap) ==
    [c \in Channels |-> [s \in Sites |->
        IF ~Known(snap, s) \/ (snap[c][s] = NoProvider /\ Placed(cat, m, s, c) = {})
        THEN snap[c][s]
        ELSE [u \in Upstreams |->
                IF u \in Placed(cat, m, s, c) THEN AliasOf(cat[<<s, u>>])
                ELSE Absent]]]

\* The same write records on each entry whether it leaves the model out.
MarkWithheld(cat, m) ==
    [r \in Refs |->
        IF cat[r] = NoEntry THEN NoEntry
        ELSE [cat[r] EXCEPT
                !.withheld = ~cat[r].gone /\ Hidden(r, cat[r], m)]]

\* The view has nothing to add, to remove or to move, and nothing visible is
\* pending.
Settled(cat, m) ==
    \A r \in Refs : cat[r] # NoEntry =>
        LET e == cat[r]
        IN  /\ e.pending => Hidden(r, e, m)
            /\ e.gone => ~e.present
            /\ ~e.gone => (e.present <=> ~Hidden(r, e, m))
            /\ ~e.gone /\ e.present /\ m.rules.route =>
                  {c \in Channels : e.occ[c] # Absent} = Targets(r, e, m)
=============================================================================
