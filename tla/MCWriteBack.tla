---------------------------- MODULE MCWriteBack ----------------------------
(***************************************************************************)
(* Instances of WriteBack for TLC: one account in two channels, with a     *)
(* provider of nobody's beside it.                                         *)
(***************************************************************************)
EXTENDS WriteBackSets, TLC

CONSTANTS s1, other, m1, m2, n1, f1, f2

Ref1 == <<s1, m1>>
Ref2 == <<s1, m2>>

MCClean    == (m1 :> m1) @@ (m2 :> m2)
\* The alias belongs to the second list, everything else to the first.
MCProtocol == (m1 :> 1) @@ (m2 :> 1) @@ (n1 :> 2)
\* The catalog sorts m2 ahead of m1.
MCRank     == (Ref1 :> 2) @@ (Ref2 :> 1)

M(u, a, f) == [name |-> u, alias |-> a, raw |-> f]
P(s, list) == [owner |-> s, prio |-> 0, models |-> list]

MCList == <<M(m1, NoAlias, f1), M(m2, NoAlias, f1)>>

\* Both models in the first list; m1 in the second too, beside a provider of
\* nobody's, or there is no provider in the second and two in the first.
MCStarts ==
    {<< <<P(s1, MCList)>>,
        <<P(other, <<M(m1, n1, f1)>>), P(s1, <<M(m1, NoAlias, f2)>>)>> >>,
     << <<P(s1, <<M(m1, n1, f2)>>), P(s1, MCList)>>, <<>> >>}

MCDrafts ==
    {{}, {[kind |-> "hide", ref |-> Ref1]},
     {[kind |-> "show", ref |-> Ref1],
      [kind |-> "priority", site |-> s1, ch |-> 1, to |-> 1]},
     {[kind |-> "rename", ref |-> Ref1, to |-> n1]}}
MCEdits   == {M(m1, n1, f2), M(m2, NoAlias, f2)}
MCAnswers == {{m2}, {m1, m2}}
=============================================================================
