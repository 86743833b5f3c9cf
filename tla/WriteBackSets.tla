--------------------------- MODULE WriteBackSets ---------------------------
(***************************************************************************)
(* The lists of WriteBack seen as sets: which models a site has in a list, *)
(* and under which alias.                                                  *)
(***************************************************************************)
EXTENDS WriteBack

CONSTANTS Absent, NoProvider

Names == Upstreams \cup Aliases

\* Of several copies in a list the first counts.
AsOcc(occ) == [c \in Channels |-> IF occ[c] = NoCopy THEN Absent ELSE occ[c].alias]

AsEntry(e) ==
    IF e = NoEntry THEN NoEntry
    ELSE [present |-> e.present, pending |-> e.pending, withheld |-> e.withheld,
          gone |-> e.gone, occ |-> AsOcc(e.occ)]

AsCatalog(cat) == [r \in Refs |-> AsEntry(cat[r])]

\* Of several providers of a site in a list the last counts.
AsConfig(cfg) ==
    [c \in Channels |-> [s \in Sites |->
        IF IndexOf(cfg, c, s) = 0 THEN NoProvider
        ELSE [u \in Upstreams |-> AsOcc(Copies(cfg, <<s, u>>))[c]]]]

AsOp(op) ==
    [kind |-> IF op.kind = "hide" THEN "exclude"
              ELSE IF op.kind = "show" THEN "include" ELSE "rename",
     ref  |-> op.ref,
     to   |-> IF op.kind = "rename" THEN op.to ELSE NoAlias]

\* Priorities are no part of the catalog.
AsDraft(d) == {AsOp(op) : op \in {o \in d : o.kind # "priority"}}

Sets == INSTANCE CatalogSets WITH
            KeylessSites <- {},
            Clean        <- [n \in Names |-> IF n \in Upstreams THEN Clean[n] ELSE n],
            Drafts       <- {AsDraft(d) : d \in Drafts},
            cpa          <- AsConfig(cpa),
            cached       <- AsCatalog(cached)

\* CatalogOps names a site by its provider in the first list, so a site that
\* has providers has one there.
ASSUME SetsAssumption ==
    /\ NoAlias \notin Names /\ Absent \notin Names \cup {NoAlias}
    /\ NoProvider \notin Sets!Provider /\ NoEntry \notin Sets!Entry
    /\ \A cfg \in Starts, s \in Sites : Known(cfg, s) => IndexOf(cfg, 1, s) # 0

\* What the handlers do to lists with an order and repetitions is what the
\* operators of CatalogOps say of sets of names: neither the place of a model
\* in its list, nor a second copy of it there, nor a second provider of its
\* site decides what is written, kept, hidden or forgotten.
ImplementsSets == Sets!Spec
=============================================================================
