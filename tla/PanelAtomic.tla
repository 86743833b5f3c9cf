---------------------------- MODULE PanelAtomic ----------------------------
(***************************************************************************)
(* The panel's saves, three statements on three tables, seen as the atomic *)
(* saves of AtomicSaves.  A draft is carried out when SetExclusions runs;  *)
(* the two tables the save has not rewritten yet count as rewritten.       *)
(***************************************************************************)
EXTENDS Panel

\* The handler in the mutex has still to store this set.
Owes(labels) == mu # NoProc /\ pc[mu] \in labels

MarksAtOnce ==
    [excl |-> exclusions,
     dis  |-> IF Owes({"disabled"}) THEN st[mu].marks.dis ELSE disabled,
     keep |-> IF Owes({"disabled", "keeps"}) THEN st[mu].marks.keep ELSE keeps]

\* A save that has not reached its first mark.
Waiting(u) ==
    /\ pc[u] \notin {"idle", "disabled", "keeps", "respond"}
    /\ req[u].kind = "save" /\ st[u].phase # "final"

DraftOf(u) == IF Waiting(u) THEN req[u].ops ELSE {}

Atomic == INSTANCE AtomicSaves WITH
              marks <- MarksAtOnce, asked <- [u \in Users |-> DraftOf(u)]

\* Whatever other tabs, refreshes and scheduled runs do in between, and
\* whichever CPA call fails, the marks change as if each draft were carried
\* out whole at one instant, once, or not at all (saveLocked stores them one
\* set at a time, from what its own load read; the process is not killed).
SavesAreAtomic == Atomic!Spec
=============================================================================
