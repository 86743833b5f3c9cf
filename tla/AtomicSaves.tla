---------------------------- MODULE AtomicSaves ----------------------------
(***************************************************************************)
(* What saving a draft promises.  A user asks for a draft; it is carried   *)
(* out once, whole, on the three sets of marks at the same instant, or it  *)
(* is refused and leaves no trace.  Nobody else changes a mark.            *)
(***************************************************************************)
CONSTANTS Users, Refs, Drafts

VARIABLES
    marks,    \* [excl, dis, keep : SUBSET Refs]
    asked     \* the draft each user waits for, {} when none

NoMarksAtAll == [excl |-> {}, dis |-> {}, keep |-> {}]

\* The models the operations of these kinds name, of those the panel knows.
Named(draft, kinds, known) ==
    {r \in known : \E op \in draft : op.ref = r /\ op.kind \in kinds}

\* A draft that both sets and clears a mark may leave it either way.
Follows(new, old, on, off) ==
    \A r \in Refs :
        /\ r \in on \ off => r \in new
        /\ r \in off \ on => r \notin new
        /\ r \notin on \cup off => (r \in new <=> r \in old)

\* An operation on a model the panel does not know is skipped.
CarriedOut(draft, known, old, new) ==
    /\ Follows(new.excl, old.excl, Named(draft, {"exclude"}, known),
                                   Named(draft, {"include", "keep"}, known))
    /\ Follows(new.dis, old.dis, Named(draft, {"disable"}, known),
                                 Named(draft, {"enable"}, known))
    /\ Follows(new.keep, old.keep, Named(draft, {"keep"}, known),
                                   Named(draft, {"unkeep"}, known))

Init ==
    /\ marks = NoMarksAtAll
    /\ asked = [u \in Users |-> {}]

Ask(u) ==
    /\ asked[u] = {}
    /\ \E d \in Drafts : asked' = [asked EXCEPT ![u] = d]
    /\ UNCHANGED marks

Save(u) ==
    /\ \E known \in SUBSET Refs : CarriedOut(asked[u], known, marks, marks')
    /\ asked' = [asked EXCEPT ![u] = {}]

Refuse(u) ==
    /\ asked' = [asked EXCEPT ![u] = {}]
    /\ UNCHANGED marks

Next == \E u \in Users : Ask(u) \/ Save(u) \/ Refuse(u)

Spec == Init /\ [][Next]_<<marks, asked>>
=============================================================================
