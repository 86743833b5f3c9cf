---------------------------- MODULE PanelHistory ----------------------------
(***************************************************************************)
(* Panel with history variables: what the panel owes its users and what    *)
(* must not come back, each derived from the steps of Panel alone.         *)
(***************************************************************************)
EXTENDS Panel

VARIABLES
    owed,      \* models the panel itself took out of CPA and must give back
    placed,    \* models CPA holds since a save of the panel wrote them
    erased,    \* models deleted in CPA by someone else after the panel had
               \*   seen them there or put them there
    delisted,  \* models the last answer of their site left out
    stale      \* views older than a change made by another writer

history == <<owed, placed, erased, delisted, stale>>
hvars   == <<vars, history>>

\* The process whose save is sending its lists.
Saving(p) == pc[p] = "put" /\ req[p].kind \in {"save", "auto"}
SaveStep  == \E p \in Procs : Saving(p)
Appears(r) == Holds(cpa', r) /\ ~Holds(cpa, r)

RecordOwed ==
    owed' = {r \in Refs :
        /\ r \in owed \/ (catalog'[r] # NoEntry /\ catalog'[r].withheld)
        /\ ~Holds(cpa', r)
        /\ Known(cpa', r[1])
        /\ ~(catalog'[r] # NoEntry /\ catalog'[r].gone)}

RecordPlaced ==
    placed' = {r \in Refs : Holds(cpa', r) /\ (r \in placed \/ SaveStep)}

\* The load that finds a deletion keeps the model because a rule hides it.
ExplainedByRule(r) ==
    \E p \in Procs : /\ pc[p] = "base" /\ pc'[p] # "base"
                     /\ catalog'[r] # NoEntry
                     /\ Hidden(r, catalog'[r], st'[p].marks)

\* A probe lists a model the catalog no longer has.
Rediscovered(r) ==
    /\ \E p \in Procs : pc[p] = "merge" /\ pc'[p] # "merge"
    /\ catalog[r] = NoEntry /\ catalog'[r] # NoEntry

RecordErased ==
    erased' = {r \in Refs :
        /\ \/ r \in erased
           \/ /\ ExternalEdit
              /\ Live(cpa, r) /\ ~Holds(cpa', r)
              /\ \/ r \in placed
                 \/ catalog[r] # NoEntry /\ catalog[r].present
        /\ Appears(r) => SaveStep
        /\ ~ExplainedByRule(r)
        /\ ~Rediscovered(r)}

\* A load forgets a site it does not find, and what that site last listed
\* with it: the models of a site that comes back are new to the panel.
RecordDelisted ==
    LET merging(r) == \E p \in Procs : /\ pc[p] = "merge" /\ Merge(p)
                                       /\ Known(st[p].snap, r[1])
                                       /\ st[p].found[r[1]] # {}
        listed(r)  == \E p \in Procs : /\ pc[p] = "merge"
                                       /\ r[2] \in st[p].found[r[1]]
        dropped(r) == \E p \in Procs : /\ pc[p] = "base" /\ pc'[p] # "base"
                                       /\ ~Known(st[p].snap, r[1])
    IN  delisted' = {r \in Refs :
            /\ IF merging(r) THEN ~listed(r) ELSE r \in delisted /\ ~dropped(r)
            /\ Appears(r) => SaveStep}

RecordStale ==
    stale' = [p \in Procs |->
        IF pc[p] = "respond" /\ pc'[p] = "idle" THEN FALSE
        ELSE stale[p] \/ (cpa' # cpa /\ pc[p] # "put")]

Record ==
    RecordOwed /\ RecordPlaced /\ RecordErased /\ RecordDelisted /\ RecordStale

HInit ==
    /\ Init
    /\ owed = {} /\ placed = {} /\ erased = {} /\ delisted = {}
    /\ stale = [p \in Procs |-> FALSE]

HNext == Next /\ Record

HSpec == HInit /\ [][HNext]_hvars

-----------------------------------------------------------------------------
\* Whenever no request runs, a model the panel filtered out of CPA is still
\* in the catalog cache or back in CPA, so that relaxing the rule or "restore"
\* brings it back (README, iron rule 2; the comments on Entry.Present and
\* Entry.Withheld).
WithheldSurvives ==
    mu = NoProc => \A r \in owed : catalog[r] # NoEntry

\* A model the panel has seen in CPA, or put there, and someone else deleted
\* there is not put back by a save (README, iron rule 2; the comment on Prune).
NoResurrection == \A r \in erased : ~Holds(cpa, r)

\* A model its site stopped listing is not put back by a save (the comments
\* on Entry.Gone and in BuildWrite).
NoDelistedWrite == [][\A r \in delisted : ~(SaveStep /\ Appears(r))]_hvars

\* A save is refused only when someone other than its own user changed CPA
\* after the view it was made on ("never a false alarm").
ConflictIsReal == \A p \in Procs : pc[p] = "conflict" => stale[p]
=============================================================================
