------------------------------ MODULE MCPanel ------------------------------
(***************************************************************************)
(* Instances of Panel for TLC: one account with up to two models and two   *)
(* channels.                                                               *)
(***************************************************************************)
EXTENDS PanelAtomic, TLC

CONSTANTS u1, u2,      \* users
          auto,        \* the scheduler
          s1, k1,      \* a site, a keyless one
          m1, m2,      \* upstream names
          n1           \* what cleaning m1 gives

Ref1 == <<s1, m1>>
Ref2 == <<s1, m2>>

MCNames1    == {m1, n1}
MCNames2    == {m1, m2}
MCClean1    == (m1 :> n1) @@ (n1 :> n1)
MCClean2    == (m1 :> m1) @@ (m2 :> m2)
\* The clean name belongs to codex, everything else to openai.
MCProtocol1 == (m1 :> 1) @@ (n1 :> 2)
MCProtocolA == (m1 :> 1) @@ (n1 :> 1)
MCProtocol2 == (m1 :> 1) @@ (m2 :> 1)

OpOn(k, r) == [kind |-> k, ref |-> r, to |-> NoAlias]
RenameTo(r, a) == [kind |-> "rename", ref |-> r, to |-> a]

Strict == [AllRules EXCEPT !.whitelist = {}]
Routed == [AllRules EXCEPT !.route = TRUE]

\* CPA at the start: site s1 lists every model in openai, and k1, where the
\* instance has it, is a keyless leftover in every channel.
Start ==
    [c \in Channels |-> [s \in Sites |->
        IF s \in KeylessSites \/ c = 1
        THEN [u \in Upstreams |-> IF s \in KeylessSites THEN Absent ELSE NoAlias]
        ELSE NoProvider]]

DraftsHide1 == {{}} \cup {{OpOn(k, Ref1)} : k \in {"exclude", "include"}}
DraftsMarks1 == {{}} \cup {{OpOn(k, Ref1)} :
                    k \in {"exclude", "include", "keep", "unkeep", "disable", "enable"}}
DraftsNames1 == {{}, {RenameTo(Ref1, n1)}, {RenameTo(Ref1, m1)}}
DraftsTwo   == {{OpOn("exclude", Ref1), OpOn("disable", Ref1)},
                {OpOn("disable", Ref2), OpOn("keep", Ref2)}}
MCSettings == {AllRules, Strict}
MCRouting  == {AllRules, Routed}
MCProbes   == {{m1}}
MCProbes2  == {{m2}, {m1, m2}}
=============================================================================
