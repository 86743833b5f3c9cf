----------------------------- MODULE MCSiteList -----------------------------
(***************************************************************************)
(* An instance of SiteList for TLC: a label and the same with a number,    *)
(* two keys; an openai entry has up to two keys, the others at most one.   *)
(***************************************************************************)
EXTENDS SiteList

CONSTANTS a, h1, h2, k1, k2

Plain == [v1 |-> TRUE, host |-> h1]
Bare  == [v1 |-> FALSE, host |-> h1]
Other == [v1 |-> TRUE, host |-> h2]

MCLabels == {a, Numbered(a, 2)}

\* Every list has entries with each key and with none; an openai entry and
\* an egg may lie on a second host.
Keyings == {<<>>, <<k1>>, <<k2>>}

MCShapes == <<
    [name : {a}, url : {Plain}, keys : Keyings \cup {<<k1, k2>>}]
        \cup [name : {a}, url : {Other}, keys : {<<k2>>}]
        \cup [name : {NoName}, url : {Plain}, keys : {<<k1>>}],
    [name : {NoName}, url : {Plain}, keys : Keyings],
    [name : {NoName}, url : {Bare}, keys : Keyings] >>
=============================================================================
