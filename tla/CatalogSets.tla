---------------------------- MODULE CatalogSets ----------------------------
(***************************************************************************)
(* The life of the catalog when a list is a set of names with aliases and  *)
(* a handler is one step: what WriteBack, which knows the order and the    *)
(* repetitions in a list, comes down to, in the operators of CatalogOps,   *)
(* whose interleavings are the subject of Panel.  A draft is a set of      *)
(* operations; of two on one model either may be the last.                 *)
(***************************************************************************)
EXTENDS CatalogOps

CONSTANTS
    Drafts,     \* sets of operations a save may carry
    Answers     \* lists a site may answer a probe with

VARIABLES
    cpa,        \* [Channels -> Listing]
    cached,     \* model_catalog
    hidden,     \* the models that are kept out
    route       \* RouteByProtocol

vars == <<cpa, cached, hidden, route>>

\* What keeps a model out is a mark, here; no rule does.
MarksOf(hid, rt) ==
    [rules |-> [whitelist |-> Upstreams, version |-> {}, route |-> rt],
     excl |-> hid, dis |-> {}, keep |-> {}]

Reloaded(cat, snap, m) == Prune(Reconcile(cat, snap), m)

Ready == Reloaded(cached, cpa, MarksOf(hidden, route))

OpsOn(d, kinds, r) == {op \in d : op.kind \in kinds /\ op.ref = r}

\* What a draft may make of an entry, and of the catalog.
Outcomes(cat, d, r) ==
    IF OpsOn(d, {"rename"}, r) = {} THEN {cat[r]}
    ELSE {OpOnCatalog(cat, op)[r] : op \in OpsOn(d, {"rename"}, r)}

Drafted(cat, d) ==
    {next \in [Refs -> UNION {Outcomes(cat, d, r) : r \in Refs}] :
        \A r \in Refs : next[r] \in Outcomes(cat, d, r)}

\* What it may make of the marks: what it does not name stays.
Marked(cat, d, m, hid) ==
    \A r \in Refs :
        LET asked == OpsOn(d, {"exclude", "include"}, r)
        IN  IF asked = {} THEN r \in hid <=> r \in m.excl
            ELSE \E op \in asked : r \in hid <=> r \in OpOnMarks(cat, m, op).excl

-----------------------------------------------------------------------------
Init ==
    /\ cpa \in Config
    /\ cached = [r \in Refs |-> NoEntry]
    /\ hidden = {}
    /\ route \in BOOLEAN

Load ==
    /\ UNCHANGED <<hidden, route, cpa>>
    /\ cached' = Ready

Save(d) ==
    /\ UNCHANGED route
    /\ hidden' \in SUBSET Refs
    /\ Marked(Ready, d, MarksOf(hidden, route), hidden')
    /\ \E next \in Drafted(Ready, d) :
          LET m == MarksOf(hidden', route)
          IN  /\ cpa' = BuildWrite(next, m, cpa)
              /\ cached' = Reloaded(Prune(MarkWithheld(next, m), m), cpa', m)

Refresh(s, names) ==
    /\ UNCHANGED <<hidden, route, cpa>>
    /\ Known(cpa, s) /\ names # {}
    /\ cached' = Prune(MergeDiscovered(Ready, cpa,
                           [q \in Sites |-> IF q = s THEN names ELSE {}]),
                       MarksOf(hidden, route))

SetRouteByProtocol ==
    /\ route' = ~route
    /\ cached' = Ready
    /\ UNCHANGED <<hidden, cpa>>

\* Someone edits a provider.
Edit ==
    /\ UNCHANGED <<hidden, route, cached>>
    /\ \E c \in Channels, s \in Sites :
          /\ cpa[c][s] # NoProvider
          /\ cpa'[c][s] \in Provider
          /\ cpa' = [cpa EXCEPT ![c][s] = cpa'[c][s]]

Next ==
    \/ SetRouteByProtocol
    \/ Edit
    \/ Load
    \/ \E s \in Sites, names \in Answers : Refresh(s, names)
    \/ \E d \in Drafts : Save(d)

Spec == Init /\ [][Next]_vars
=============================================================================
