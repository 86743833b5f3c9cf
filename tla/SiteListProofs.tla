--------------------------- MODULE SiteListProofs ---------------------------
(***************************************************************************)
(* Theorems about SiteList, for lists of any length over any hosts, names  *)
(* and keys: what BuildSites finds never unites two accounts, and what the *)
(* panel sends to CPA has the form of CPA's entries.                       *)
(***************************************************************************)
EXTENDS SiteList, SequenceTheorems, FiniteSetTheorems, WellFoundedInduction, TLAPS

-----------------------------------------------------------------------------
\* Induction.

\* Among natural numbers there is a least one.
LEMMA LeastNat ==
    ASSUME NEW T \in SUBSET Nat, T # {}
    PROVE  Least(T) \in T /\ \A n \in T : Least(T) <= n
<1> DEFINE R == OpToRel(<, Nat)
<1>1. IsWellFoundedOn(R, Nat)
  BY NatLessThanWellFounded
<1>2. PICK m \in T : \A n \in T : <<n, m>> \notin R
  <2> HIDE DEF R
  <2> QED BY <1>1, WFMin
<1>3. ASSUME NEW n \in T PROVE m <= n
  <2>1. m \in Nat /\ n \in Nat /\ ~(n < m)
    BY <1>2 DEF OpToRel
  <2> QED BY <2>1
<1> QED BY <1>3 DEF Least

\* What holds of 0 and passes from each number to the next holds of all.
LEMMA Inductive ==
    ASSUME NEW A, 0 \in A, \A n \in Nat : n \in A => n + 1 \in A
    PROVE  \A n \in Nat : n \in A
<1> DEFINE T == Nat \ A
           m == Least(T)
<1> SUFFICES ASSUME T # {} PROVE FALSE
  OBVIOUS
<1>1. m \in T /\ \A n \in T : m <= n
  BY LeastNat
<1> HIDE DEF m
<1>2. m \in Nat /\ m \notin A /\ m # 0 /\ m - 1 \in Nat
  BY <1>1
<1>3. m - 1 \in A
  BY <1>1, <1>2
<1>4. (m - 1) + 1 \in A
  BY <1>2, <1>3
<1> QED BY <1>2, <1>4

-----------------------------------------------------------------------------
\* The walk, one entry after the other.

Steps(before, c, list, known, m) ==
    known = [n \in 0..m |->
                IF n = 0 THEN before ELSE Place(known[n - 1], c, n, list[n])]

\* WalkList has a function of what is known after each entry.
LEMMA WalkSteps ==
    ASSUME NEW before, NEW c, NEW list, Len(list) \in Nat
    PROVE  \E known : /\ Steps(before, c, list, known, Len(list))
                      /\ WalkList(before, c, list) = known[Len(list)]
<1> DEFINE A == {m \in Nat : \E known : Steps(before, c, list, known, m)}
<1>1. 0 \in A
  <2> DEFINE g == [n \in 0..0 |-> before]
  <2>1. Steps(before, c, list, g, 0)
    BY DEF Steps
  <2> QED BY <2>1
<1>2. ASSUME NEW m \in Nat, m \in A PROVE m + 1 \in A
  <2>1. PICK g : Steps(before, c, list, g, m)
    BY <1>2
  <2> DEFINE h == [n \in 0..(m + 1) |->
                      IF n = m + 1 THEN Place(g[m], c, m + 1, list[m + 1]) ELSE g[n]]
  <2>2. ASSUME NEW n \in 0..(m + 1)
        PROVE  h[n] = IF n = 0 THEN before ELSE Place(h[n - 1], c, n, list[n])
    <3>1. CASE n = m + 1
      BY <3>1
    <3>2. CASE n # m + 1
      <4>1. n \in 0..m /\ h[n] = g[n] /\ (n # 0 => h[n - 1] = g[n - 1])
        BY <3>2
      <4>2. g[n] = IF n = 0 THEN before ELSE Place(g[n - 1], c, n, list[n])
        <5> HIDE DEF h
        <5> QED BY <2>1, <4>1 DEF Steps
      <4> HIDE DEF h
      <4> QED BY <4>1, <4>2
    <3> QED BY <3>1, <3>2
  <2>3. h = [n \in 0..(m + 1) |-> h[n]]
    OBVIOUS
  <2> HIDE DEF h
  <2>4. Steps(before, c, list, h, m + 1)
    BY <2>2, <2>3 DEF Steps
  <2> QED BY <2>4
<1>3. Len(list) \in A
  <2> HIDE DEF A
  <2> QED BY <1>1, <1>2, Inductive
<1>4. \E known : known = [n \in 0..Len(list) |->
                            IF n = 0 THEN before ELSE Place(known[n - 1], c, n, list[n])]
  BY <1>3 DEF Steps
<1> QED BY <1>4 DEF WalkList, Steps

-----------------------------------------------------------------------------
\* What is known half-way.

Id == ({"url"} \X Url) \cup ({"name"} \X (Name \cup (Name \X Nat)))
        \cup ({"host"} \X Hosts) \cup ({"host"} \X Hosts \X Keys)

Site    == [id : Id, name : Name, key : Keys \cup {NoKey}, at : [Channels -> Nat]]
Founder == [site : Nat, list : Channels, entry : Entry]
Acc     == [sites : Seq(Site), founders : Seq(Founder)]

IsLists(lists) ==
    /\ lists \in [Channels -> Seq(Entry)]
    /\ \A c \in Channels : \A n \in DOMAIN lists[c] : Fits(c, lists[c][n])

EntryOf(lists, s, d) == lists[d][s.at[d]]

\* The site has an entry, and none that is not there.
InLists(lists, s) ==
    /\ \A d \in Channels : s.at[d] <= Len(lists[d])
    /\ \E d \in Channels : s.at[d] # 0

\* Every entry of the site is of its account.
Apart(lists, s) ==
    \A d \in Channels : s.at[d] # 0 =>
        LET e == EntryOf(lists, s, d)
        IN  \/ e.keys = <<>>
            \/ s.key \in ToSet(e.keys)
            \/ (s.at[1] # 0 /\ Share(e, EntryOf(lists, s, 1)))

Keyless(lists, s) ==
    \A d \in Channels : s.at[d] # 0 => EntryOf(lists, s, d).keys = <<>>

\* A key in the id of a site is the key of the site.
GoodSite(lists, s) ==
    /\ InLists(lists, s)
    /\ s.key # NoKey => Apart(lists, s)
    /\ \A h \in Hosts, k \in Keys : s.id = <<"host", h, k>> => s.key = k

\* What the founder of a site tells of it.
Founds(lists, f, s) ==
    /\ f.list = 1 => /\ s.id[1] # "host" /\ s.at[1] # 0
                     /\ EntryOf(lists, s, 1) = f.entry
                     /\ s.key = FirstKey(f.entry)
    /\ f.list # 1 => /\ Len(f.entry.keys) <= 1
                     /\ f.entry.keys # <<>> => s.key = FirstKey(f.entry)
    /\ s.id[1] = "host" => f.entry.url.host = s.id[2]

\* A site named by its host alone that has no key yet: whatever comes from its
\* host joins it, or it has no entry with a key.
OpenSite(lists, acc, i) ==
    \A h \in Hosts :
        acc.sites[i].id = <<"host", h>> /\ acc.sites[i].key = NoKey =>
            \/ Keyless(lists, acc.sites[i])
            \/ \E j \in DOMAIN acc.founders :
                    ByHost(acc, h) = {j} /\ acc.founders[j].site = i

WalkInv(lists, acc) ==
    /\ acc \in Acc
    /\ \A i \in DOMAIN acc.sites : GoodSite(lists, acc.sites[i]) /\ OpenSite(lists, acc, i)
    /\ \A j \in DOMAIN acc.founders :
            /\ acc.founders[j].site \in DOMAIN acc.sites
            /\ Founds(lists, acc.founders[j], acc.sites[acc.founders[j].site])

NoHosts(acc) == \A i \in DOMAIN acc.sites : acc.sites[i].id[1] # "host"

\* Nothing is known at first.
LEMMA StartInv == \A lists : WalkInv(lists, Start) /\ NoHosts(Start)
<1>1. <<>> \in Seq(Site) /\ <<>> \in Seq(Founder)
  OBVIOUS
<1>2. Start.sites = <<>> /\ Start.founders = <<>> /\ Start \in Acc
  BY <1>1 DEF Start, Acc
<1> QED BY <1>2 DEF WalkInv, NoHosts

\* One site is founded or changed, and perhaps a founder added to it.
LEMMA GrowInv ==
    ASSUME NEW lists, NEW acc, WalkInv(lists, acc), NEW next \in Acc,
           NEW i \in DOMAIN next.sites,
           \A q \in DOMAIN next.sites :
                q # i => q \in DOMAIN acc.sites /\ next.sites[q] = acc.sites[q],
           DOMAIN acc.sites \subseteq DOMAIN next.sites,
           GoodSite(lists, next.sites[i]), OpenSite(lists, next, i),
           DOMAIN acc.founders \subseteq DOMAIN next.founders,
           \A j \in DOMAIN acc.founders :
                /\ next.founders[j] = acc.founders[j]
                /\ acc.founders[j].site = i => Founds(lists, acc.founders[j], next.sites[i]),
           \A j \in DOMAIN next.founders : j \notin DOMAIN acc.founders =>
                /\ next.founders[j].site = i
                /\ Founds(lists, next.founders[j], next.sites[i])
                /\ \A q \in DOMAIN acc.sites :
                        /\ q # i /\ acc.sites[q].key = NoKey
                        /\ acc.sites[q].id = <<"host", next.founders[j].entry.url.host>>
                        => Keyless(lists, acc.sites[q])
    PROVE  WalkInv(lists, next)
<1>1. ASSUME NEW q \in DOMAIN next.sites
      PROVE  GoodSite(lists, next.sites[q])
  BY <1>1 DEF WalkInv
<1>2. ASSUME NEW j \in DOMAIN next.founders
      PROVE  /\ next.founders[j].site \in DOMAIN next.sites
             /\ Founds(lists, next.founders[j], next.sites[next.founders[j].site])
  BY <1>2 DEF WalkInv
<1>3. ASSUME NEW q \in DOMAIN next.sites, q # i
      PROVE  OpenSite(lists, next, q)
  <2> SUFFICES ASSUME NEW h \in Hosts,
                      acc.sites[q].id = <<"host", h>>, acc.sites[q].key = NoKey,
                      ~Keyless(lists, acc.sites[q])
               PROVE  \E j \in DOMAIN next.founders :
                          ByHost(next, h) = {j} /\ next.founders[j].site = q
    BY <1>3 DEF OpenSite
  <2>1. q \in DOMAIN acc.sites /\ OpenSite(lists, acc, q)
    BY <1>3 DEF WalkInv
  <2>2. PICK j \in DOMAIN acc.founders : ByHost(acc, h) = {j} /\ acc.founders[j].site = q
    BY <2>1 DEF OpenSite
  <2>3. \A k \in DOMAIN next.founders :
            k \notin DOMAIN acc.founders => next.founders[k].entry.url.host # h
    BY <1>3, <2>1
  <2>4. ByHost(next, h) = {j}
    BY <2>2, <2>3 DEF ByHost
  <2> QED BY <2>2, <2>4
<1> QED BY <1>1, <1>2, <1>3 DEF WalkInv

-----------------------------------------------------------------------------
\* Joining a site.

\* An entry and its first key; outside the openai list that is its only one.
LEMMA KeysOf ==
    ASSUME NEW p \in Entry
    PROVE  /\ Len(p.keys) \in Nat /\ p.keys \in Seq(Keys) /\ ToSet(p.keys) \in SUBSET Keys
           /\ p.keys = <<>> => FirstKey(p) = NoKey /\ ToSet(p.keys) = {}
           /\ p.keys # <<>> => /\ FirstKey(p) \in Keys /\ FirstKey(p) # NoKey
                               /\ FirstKey(p) \in ToSet(p.keys)
                               /\ Len(p.keys) <= 1 => ToSet(p.keys) = {FirstKey(p)}
<1>1. p.keys \in Seq(Keys) /\ Len(p.keys) \in Nat /\ DOMAIN p.keys = 1..Len(p.keys)
  BY DEF Entry
<1>2. ToSet(p.keys) = {p.keys[n] : n \in 1..Len(p.keys)}
  BY <1>1 DEF ToSet
<1>3. \A n \in 1..Len(p.keys) : p.keys[n] \in Keys
  BY <1>1
<1>4. CASE p.keys = <<>>
  BY <1>1, <1>2, <1>4 DEF FirstKey
<1>5. CASE p.keys # <<>>
  <2>1. Len(p.keys) >= 1
    BY <1>1, <1>5
  <2>2. FirstKey(p) = p.keys[1]
    BY <1>5 DEF FirstKey
  <2>3. Len(p.keys) <= 1 => 1..Len(p.keys) = {1}
    BY <1>1, <2>1
  <2> QED BY <1>1, <1>2, <1>3, <1>5, <2>1, <2>2, <2>3, SiteAssumption
<1> QED BY <1>4, <1>5

\* One of a set's elements, of a set with one element.
LEMMA OneOf ==
    ASSUME NEW S
    PROVE  /\ S # {} => The(S) \in S
           /\ Sole(S) => S # {}
           /\ IsFiniteSet(S) => (Sole(S) <=> S = {The(S)})
<1>1. S # {} => The(S) \in S
  BY DEF The
<1>2. Cardinality({}) = 0
  BY FS_EmptySet
<1>3. IsFiniteSet(S) => (Cardinality(S) = 1 <=> \E x : S = {x})
  BY FS_Singleton
<1> QED BY <1>1, <1>2, <1>3 DEF Sole

\* A host has finitely many founders.
LEMMA HostFinite ==
    ASSUME NEW acc \in Acc, NEW h
    PROVE  IsFiniteSet(ByHost(acc, h)) /\ \A u : IsFiniteSet(ByUrl(acc, u))
<1>1. DOMAIN acc.founders = 1..Len(acc.founders) /\ Len(acc.founders) \in Nat
  BY DEF Acc
<1>2. IsFiniteSet(DOMAIN acc.founders)
  BY <1>1, FS_Interval
<1> QED BY <1>2, FS_Subset DEF ByHost, ByUrl

\* A founder of the site an entry joins shares a key with the entry, or has its
\* address while the keys do not disagree.
Leads(acc, p, i, j) ==
    /\ acc.founders[j].site = i
    /\ \/ \E k \in ToSet(p.keys) : k \in ToSet(acc.founders[j].entry.keys)
       \/ /\ KeysAgree(acc.sites[i], p)
          /\ \/ acc.founders[j].list = 1
             \/ ByHost(acc, p.url.host) = {j}

LEMMA ResolveLeads ==
    ASSUME NEW acc \in Acc, NEW p \in Entry, NEW i \in Resolve(acc, p)
    PROVE  \E j \in DOMAIN acc.founders : Leads(acc, p, i, j)
<1> DEFINE known == {n \in DOMAIN p.keys : Sole(ByKey(acc, p.keys[n]))}
           url   == ByUrl(acc, p.url)
           host  == ByHost(acc, p.url.host)
           near  == IF Sole(url) THEN url ELSE host
<1>1. CASE known # {}
  <2> DEFINE n == Least(known)
             k == p.keys[n]
             x == The(ByKey(acc, k))
  <2>1. known \in SUBSET Nat
    BY DEF Entry
  <2>2. n \in DOMAIN p.keys /\ Sole(ByKey(acc, k))
    <3> HIDE DEF n
    <3>1. n \in known
      <4> HIDE DEF known
      <4> QED BY <1>1, <2>1, LeastNat DEF n
    <3> QED BY <3>1
  <2>3. k \in ToSet(p.keys)
    BY <2>2 DEF ToSet
  <2>4. i = acc.founders[x[1]].site
    BY <1>1 DEF Resolve
  <2> HIDE DEF n, k, known
  <2>5. x \in ByKey(acc, k)
    <3> DEFINE S == ByKey(acc, k)
    <3>1. Sole(S)
      BY <2>2 DEF k
    <3> HIDE DEF S
    <3>2. The(S) \in S
      BY <3>1, OneOf
    <3> QED BY <3>2 DEF S
  <2> HIDE DEF x
  <2>6. PICK j \in DOMAIN acc.founders :
            x \in {<<j, m>> : m \in {m \in DOMAIN acc.founders[j].entry.keys :
                                        acc.founders[j].entry.keys[m] = k}}
    BY <2>5 DEF ByKey
  <2>7. x[1] = j /\ k \in ToSet(acc.founders[j].entry.keys)
    BY <2>6 DEF ToSet
  <2> QED BY <2>3, <2>4, <2>7 DEF Leads
<1>2. CASE known = {}
  <2>1. PICK j \in near : /\ Sole(near) /\ i = acc.founders[j].site
                          /\ KeysAgree(acc.sites[acc.founders[j].site], p)
    BY <1>2 DEF Resolve
  <2>2. CASE Sole(url)
    <3>1. j \in DOMAIN acc.founders /\ acc.founders[j].list = 1
      BY <2>1, <2>2 DEF ByUrl
    <3> QED BY <2>1, <3>1 DEF Leads
  <2>3. CASE ~Sole(url)
    <3>1. j \in host /\ Sole(host)
      BY <2>1, <2>3
    <3>2. host = {j} /\ j \in DOMAIN acc.founders
      <4>1. IsFiniteSet(host) /\ host \subseteq DOMAIN acc.founders
        BY HostFinite DEF ByHost
      <4> HIDE DEF host
      <4>2. host = {The(host)}
        BY <3>1, <4>1, OneOf
      <4> QED BY <3>1, <4>1, <4>2
    <3> QED BY <2>1, <3>2 DEF Leads
  <2> QED BY <2>2, <2>3
<1> QED BY <1>1, <1>2

\* An entry whose host leads to one site without a key joins some site.
LEMMA OpenJoined ==
    ASSUME NEW acc \in Acc, NEW p \in Entry,
           NEW j \in DOMAIN acc.founders, ByHost(acc, p.url.host) = {j},
           acc.sites[acc.founders[j].site].key = NoKey
    PROVE  Resolve(acc, p) # {}
<1> DEFINE known == {n \in DOMAIN p.keys : Sole(ByKey(acc, p.keys[n]))}
           url   == ByUrl(acc, p.url)
           host  == ByHost(acc, p.url.host)
           near  == IF Sole(url) THEN url ELSE host
<1>1. url \in SUBSET {j}
  BY DEF ByUrl, ByHost
<1>2. Sole({j})
  BY FS_Singleton DEF Sole
<1>3. near = {j} /\ Sole(near)
  <2>1. Sole(url) => url = {j}
    BY <1>1, OneOf
  <2> QED BY <1>2, <2>1
<1>4. j \in {q \in near : Sole(near) /\ KeysAgree(acc.sites[acc.founders[q].site], p)}
  <2> HIDE DEF near
  <2>1. KeysAgree(acc.sites[acc.founders[j].site], p)
    BY DEF KeysAgree
  <2> QED BY <1>3, <2>1
<1> HIDE DEF near
<1>5. Resolve(acc, p) = IF known # {}
                        THEN {acc.founders[The(ByKey(acc, p.keys[Least(known)]))[1]].site}
                        ELSE {acc.founders[q].site : q \in {q \in near :
                                Sole(near) /\ KeysAgree(acc.sites[acc.founders[q].site], p)}}
  BY DEF Resolve, near
<1>6. acc.founders[j].site \in {acc.founders[q].site : q \in {q \in near :
            Sole(near) /\ KeysAgree(acc.sites[acc.founders[q].site], p)}}
  BY <1>4
<1> HIDE DEF known
<1> QED BY <1>5, <1>6

\* An entry that joins a site keeps what is known in order.
LEMMA JoinInv ==
    ASSUME NEW lists, IsLists(lists), NEW acc, WalkInv(lists, acc),
           NEW c \in Channels, c # 1, NEW n \in 1..Len(lists[c]),
           NEW i \in Resolve(acc, lists[c][n])
    PROVE  LET next == [acc EXCEPT !.sites[i].at[c] = n]
           IN  WalkInv(lists, next)
<1> DEFINE p == lists[c][n]
           s == acc.sites[i]
           t == [s EXCEPT !.at = [s.at EXCEPT ![c] = n]]
           next == [acc EXCEPT !.sites = [acc.sites EXCEPT ![i] = t]]
<1>0. acc \in Acc
  BY DEF WalkInv
<1>1. /\ lists \in [Channels -> Seq(Entry)] /\ p \in Entry /\ Len(p.keys) <= 1
      /\ Len(lists[c]) \in Nat /\ n \in Nat \ {0} /\ n <= Len(lists[c])
      /\ 1 \in Channels
  <2>1. lists[c] \in Seq(Entry)
    BY DEF IsLists
  <2>2. n \in DOMAIN lists[c] /\ Len(lists[c]) \in Nat
    BY <2>1
  <2>3. Fits(c, p)
    BY <2>2 DEF IsLists
  <2> QED BY <2>2, <2>3 DEF Fits, IsLists, Channels
<1>2. PICK j \in DOMAIN acc.founders : Leads(acc, p, i, j)
  BY <1>0, <1>1, ResolveLeads
<1>3. i \in DOMAIN acc.sites /\ Founds(lists, acc.founders[j], s)
  BY <1>2 DEF WalkInv, Leads
<1>4. s \in Site /\ GoodSite(lists, s) /\ OpenSite(lists, acc, i)
  <2>1. acc.sites \in Seq(Site)
    BY <1>0 DEF Acc
  <2> QED BY <1>3, <2>1 DEF WalkInv
<1>5. /\ t \in Site /\ t.id = s.id /\ t.name = s.name /\ t.key = s.key
      /\ t.at[c] = n /\ \A d \in Channels : d # c => t.at[d] = s.at[d]
  BY <1>1, <1>4 DEF Site
<1> HIDE DEF p
<1>6. /\ next \in Acc /\ next.founders = acc.founders
      /\ DOMAIN next.sites = DOMAIN acc.sites
      /\ next.sites[i] = t /\ \A q \in DOMAIN acc.sites : q # i => next.sites[q] = acc.sites[q]
  <2> HIDE DEF t
  <2>1. /\ acc.sites \in Seq(Site) /\ i \in 1..Len(acc.sites)
        /\ DOMAIN acc.sites = 1..Len(acc.sites)
    BY <1>0, <1>3 DEF Acc
  <2> DEFINE sites == [acc.sites EXCEPT ![i] = t]
  <2>2. /\ sites \in Seq(Site) /\ Len(sites) = Len(acc.sites)
        /\ \A q \in 1..Len(acc.sites) : sites[q] = IF q = i THEN t ELSE acc.sites[q]
    BY <1>5, <2>1, ExceptSeq
  <2>3. DOMAIN sites = 1..Len(sites)
    BY <2>1, <2>2
  <2>4. next.sites = sites /\ next.founders = acc.founders /\ next \in Acc
    BY <1>0, <2>2 DEF Acc
  <2> HIDE DEF sites, next
  <2> QED BY <2>1, <2>2, <2>3, <2>4
<1>7. next = [acc EXCEPT !.sites[i].at[c] = n]
  BY <1>0, <1>3, <1>4 DEF Acc, Site
<1> HIDE DEF next, t
<1>8. \A d \in Channels : d # c => EntryOf(lists, t, d) = EntryOf(lists, s, d)
  BY <1>5 DEF EntryOf
<1>9. EntryOf(lists, t, c) = p
  BY <1>5 DEF EntryOf, p
<1>10. ASSUME NEW f, Founds(lists, f, s) PROVE Founds(lists, f, t)
  BY <1>1, <1>5, <1>8, <1>10 DEF Founds
<1>11. t.key # NoKey => \/ p.keys = <<>>
                         \/ t.key \in ToSet(p.keys)
                         \/ (t.at[1] # 0 /\ Share(p, EntryOf(lists, t, 1)))
  <2> SUFFICES ASSUME t.key # NoKey, p.keys # <<>>, t.key \notin ToSet(p.keys)
               PROVE  t.at[1] # 0 /\ Share(p, EntryOf(lists, t, 1))
    OBVIOUS
  <2> DEFINE f == acc.founders[j]
  <2>1. ~KeysAgree(s, p)
    BY <1>5 DEF KeysAgree
  <2>2. PICK k \in ToSet(p.keys) : k \in ToSet(f.entry.keys)
    BY <1>2, <2>1 DEF Leads
  <2>3. f \in Founder
    BY <1>0 DEF Acc
  <2>4. f.entry \in Entry /\ f.list \in Channels
    BY <2>3 DEF Founder
  <2>5. Founds(lists, f, t)
    BY <1>3, <1>10
  <2> HIDE DEF f
  <2>6. CASE f.list = 1
    BY <2>2, <2>5, <2>6 DEF Founds, Share
  <2>7. CASE f.list # 1
    <3>1. t.key = k
      BY <2>2, <2>4, <2>5, <2>7, KeysOf DEF Founds
    <3> QED BY <2>2, <3>1
  <2> QED BY <2>6, <2>7
<1>12. GoodSite(lists, t)
  <2>1. InLists(lists, t)
    <3>1. \A d \in Channels : t.at[d] <= Len(lists[d])
      BY <1>1, <1>4, <1>5 DEF GoodSite, InLists
    <3>2. t.at[c] # 0
      BY <1>1, <1>5
    <3> QED BY <3>1, <3>2 DEF InLists
  <2>2. ASSUME t.key # NoKey PROVE Apart(lists, t)
    <3> SUFFICES ASSUME NEW d \in Channels, t.at[d] # 0
                 PROVE  LET e == EntryOf(lists, t, d)
                        IN  \/ e.keys = <<>>
                            \/ t.key \in ToSet(e.keys)
                            \/ (t.at[1] # 0 /\ Share(e, EntryOf(lists, t, 1)))
      BY DEF Apart
    <3>1. CASE d = c
      BY <1>9, <1>11, <2>2, <3>1
    <3>2. CASE d # c
      <4>1. s.key # NoKey /\ s.at[d] # 0 /\ s.at[1] = t.at[1] /\ s.key = t.key
        BY <1>1, <1>5, <2>2, <3>2
      <4>2. EntryOf(lists, t, d) = EntryOf(lists, s, d) /\ EntryOf(lists, t, 1) = EntryOf(lists, s, 1)
        BY <1>1, <1>8, <3>2
      <4> QED BY <1>4, <4>1, <4>2 DEF GoodSite, Apart
    <3> QED BY <3>1, <3>2
  <2>3. \A h \in Hosts, k \in Keys : t.id = <<"host", h, k>> => t.key = k
    BY <1>4, <1>5 DEF GoodSite
  <2> QED BY <2>1, <2>2, <2>3 DEF GoodSite
<1>13. OpenSite(lists, next, i)
  <2> SUFFICES ASSUME NEW h \in Hosts, s.id = <<"host", h>>, s.key = NoKey
               PROVE  ByHost(next, h) = {j} /\ next.founders[j].site = i
    BY <1>2, <1>5, <1>6 DEF OpenSite
  <2> DEFINE f == acc.founders[j]
  <2>1. f \in Founder /\ f.site = i /\ Founds(lists, f, s)
    BY <1>0, <1>2, <1>3 DEF Acc, Leads
  <2>2. f.entry \in Entry /\ f.list # 1 /\ f.entry.url.host = h
    BY <2>1 DEF Founder, Founds
  <2>3. f.entry.keys = <<>>
    BY <2>1, <2>2, KeysOf DEF Founds
  <2>4. ToSet(f.entry.keys) = {}
    BY <2>2, <2>3, KeysOf
  <2>5. ByHost(acc, p.url.host) = {j}
    BY <1>2, <2>2, <2>4 DEF Leads
  <2>6. p.url.host = h
    BY <2>2, <2>5 DEF ByHost
  <2>7. ByHost(next, h) = ByHost(acc, h)
    BY <1>6 DEF ByHost
  <2> QED BY <1>6, <2>1, <2>5, <2>6, <2>7
<1>14. \A q \in DOMAIN acc.founders :
            acc.founders[q].site = i => Founds(lists, acc.founders[q], t)
  BY <1>10 DEF WalkInv
<1>15. WalkInv(lists, next)
  BY <1>3, <1>6, <1>12, <1>13, <1>14, GrowInv
<1> QED BY <1>7, <1>15

\* The id an entry is given if nobody has it.
FirstId(p) == IF p.name = NoName THEN <<"url", p.url>> ELSE <<"name", p.name>>

\* An entry of the openai list always founds a site of its own.
LEMMA NameFree ==
    ASSUME NEW acc \in Acc, NEW p \in Entry
    PROVE  /\ NameId(acc, p) \in Id /\ NameId(acc, p)[1] # "host"
           /\ Positions(acc, NameId(acc, p)) = {}
           /\ Positions(acc, FirstId(p)) = {} => NameId(acc, p) = FirstId(p)
           /\ Positions(acc, FirstId(p)) # {} =>
                \E k \in 2..(Len(acc.sites) + 2) : NameId(acc, p) = <<"name", Numbered(p.name, k)>>
<1> DEFINE L == Len(acc.sites)
           Taken(k) == Positions(acc, <<"name", Numbered(p.name, k)>>)
           free == {k \in 2..(L + 2) : Taken(k) = {}}
           first == FirstId(p)
<1>1. L \in Nat /\ DOMAIN acc.sites = 1..L /\ p.name \in Name /\ p.url \in Url
  BY DEF Acc, Entry
<1>2. free # {}
  <2> SUFFICES ASSUME free = {} PROVE FALSE
    OBVIOUS
  <2> DEFINE f == [k \in 2..(L + 2) |-> The(Taken(k))]
  <2>1. ASSUME NEW k \in 2..(L + 2)
        PROVE  f[k] \in 1..L /\ acc.sites[f[k]].id = <<"name", Numbered(p.name, k)>>
    <3>1. Taken(k) # {}
      OBVIOUS
    <3>2. f[k] = The(Taken(k))
      OBVIOUS
    <3> DEFINE S == Taken(k)
    <3>3. \A x \in S : x \in 1..L /\ acc.sites[x].id = <<"name", Numbered(p.name, k)>>
      BY <1>1 DEF Positions
    <3> HIDE DEF f, S
    <3>4. The(S) \in S
      BY <3>1, OneOf DEF S
    <3> QED BY <3>2, <3>3, <3>4 DEF S
  <2>2. f \in [2..(L + 2) -> 1..L]
    <3>1. f = [k \in 2..(L + 2) |-> f[k]]
      OBVIOUS
    <3> HIDE DEF f
    <3> QED BY <2>1, <3>1
  <2> HIDE DEF f, L, Taken, free
  <2>3. IsFiniteSet(1..L) /\ Cardinality(1..L) = L
    BY <1>1, FS_Interval
  <2>4. IsFiniteSet(2..(L + 2)) /\ Cardinality(2..(L + 2)) = L + 1
    <3> DEFINE M == L + 2
    <3>1. M \in Int /\ 2 \in Int /\ ~(2 > M) /\ M - 2 + 1 = L + 1
      BY <1>1
    <3> HIDE DEF M
    <3>2. IsFiniteSet(2..M) /\ Cardinality(2..M) = M - 2 + 1
      BY <3>1, FS_Interval
    <3> QED BY <3>1, <3>2 DEF M
  <2>9. IsFiniteSet(1..L) /\ IsFiniteSet(2..(L + 2)) /\ Cardinality(1..L) < Cardinality(2..(L + 2))
    BY <1>1, <2>3, <2>4
  <2>5. PICK x, y \in 2..(L + 2) : x # y /\ f[x] = f[y]
    <3> DEFINE S == 2..(L + 2)
               T == 1..L
    <3>1. /\ IsFiniteSet(S) /\ IsFiniteSet(T) /\ Cardinality(T) < Cardinality(S)
          /\ f \in [S -> T]
      BY <2>2, <2>9
    <3> HIDE DEF S, T
    <3>2. \E x, y \in S : x # y /\ f[x] = f[y]
      BY <3>1, FS_PigeonHole
    <3> QED BY <3>2 DEF S
  <2>6. <<"name", Numbered(p.name, x)>> = <<"name", Numbered(p.name, y)>>
    BY <2>1, <2>5
  <2> QED BY <2>5, <2>6 DEF Numbered
<1>3. Least(free) \in free
  <2>1. free \in SUBSET Nat
    BY <1>1
  <2> HIDE DEF free
  <2> QED BY <1>2, <2>1, LeastNat
<1>4. Least(free) \in Nat /\ Positions(acc, <<"name", Numbered(p.name, Least(free))>>) = {}
  <2> DEFINE n == Least(free)
  <2> HIDE DEF n
  <2>1. n \in free
    BY <1>3 DEF n
  <2>2. n \in Nat /\ Taken(n) = {}
    BY <1>1, <2>1
  <2> QED BY <2>2 DEF n
<1>5. NameId(acc, p) = IF Positions(acc, first) = {} THEN first
                       ELSE <<"name", Numbered(p.name, Least(free))>>
  BY DEF NameId, FirstId
<1>6. first \in Id /\ first[1] # "host"
  BY <1>1 DEF Id, FirstId
<1>8. Least(free) \in 2..(L + 2)
  <2>1. free \subseteq 2..(L + 2)
    OBVIOUS
  <2> HIDE DEF free
  <2> QED BY <1>3, <2>1
<1> HIDE DEF first, free
<1>7. <<"name", Numbered(p.name, Least(free))>> \in Id /\ <<"name", Numbered(p.name, Least(free))>>[1] # "host"
  BY <1>1, <1>4 DEF Id, Numbered
<1> QED BY <1>4, <1>5, <1>6, <1>7, <1>8 DEF first, L

\* An entry of the lists.
LEMMA ListEntry ==
    ASSUME NEW lists, IsLists(lists), NEW c \in Channels, NEW n \in 1..Len(lists[c])
    PROVE  /\ lists[c][n] \in Entry /\ Len(lists[c]) \in Nat /\ lists[c] \in Seq(Entry)
           /\ n \in Nat \ {0} /\ n <= Len(lists[c]) /\ 1 \in Channels
           /\ c # 1 => Len(lists[c][n].keys) <= 1
<1>1. lists[c] \in Seq(Entry)
  BY DEF IsLists
<1>2. n \in DOMAIN lists[c] /\ Len(lists[c]) \in Nat
  BY <1>1
<1>3. Fits(c, lists[c][n])
  BY <1>2 DEF IsLists
<1> QED BY <1>1, <1>2, <1>3 DEF Fits, Channels

\* A site open to the host of an entry that joins no site has no entry with a key.
LEMMA OthersKeyless ==
    ASSUME NEW lists, NEW acc, WalkInv(lists, acc), NEW p \in Entry, Resolve(acc, p) = {},
           NEW q \in DOMAIN acc.sites, acc.sites[q].key = NoKey,
           acc.sites[q].id = <<"host", p.url.host>>
    PROVE  Keyless(lists, acc.sites[q])
<1>1. acc \in Acc /\ OpenSite(lists, acc, q)
  BY DEF WalkInv
<1>2. p.url.host \in Hosts
  BY DEF Entry, Url
<1>3. SUFFICES ASSUME NEW j \in DOMAIN acc.founders,
                      ByHost(acc, p.url.host) = {j}, acc.founders[j].site = q
               PROVE  FALSE
  BY <1>1, <1>2 DEF OpenSite
<1> QED BY <1>1, <1>3, OpenJoined

\* A site founded by an entry keeps what is known in order.
LEMMA AddNewInv ==
    ASSUME NEW lists, IsLists(lists), NEW acc, WalkInv(lists, acc),
           NEW c \in Channels, NEW n \in 1..Len(lists[c]),
           NEW id \in Id, NEW name \in Name, Positions(acc, id) = {},
           c = 1 => id[1] # "host" /\ NoHosts(acc),
           c # 1 => /\ Resolve(acc, lists[c][n]) = {}
                    /\ id \in {<<"host", lists[c][n].url.host>>,
                               <<"host", lists[c][n].url.host, FirstKey(lists[c][n])>>}
    PROVE  LET next == Add(acc, id, name, c, n, lists[c][n])
           IN  WalkInv(lists, next) /\ (c = 1 => NoHosts(next))
<1> DEFINE p == lists[c][n]
           t == [id |-> id, name |-> name, key |-> FirstKey(p),
                 at |-> [d \in Channels |-> IF d = c THEN n ELSE 0]]
           i == Len(acc.sites) + 1
           f == [site |-> i, list |-> c, entry |-> p]
           sites == Append(acc.sites, t)
           founders == Append(acc.founders, f)
           next == [sites |-> sites, founders |-> founders]
<1>0. /\ acc \in Acc /\ acc.sites \in Seq(Site) /\ acc.founders \in Seq(Founder)
      /\ Len(acc.sites) \in Nat /\ Len(acc.founders) \in Nat
      /\ DOMAIN acc.sites = 1..Len(acc.sites) /\ DOMAIN acc.founders = 1..Len(acc.founders)
  BY DEF WalkInv, Acc
<1>1. /\ p \in Entry /\ n \in Nat \ {0} /\ n <= Len(lists[c]) /\ Len(lists[c]) \in Nat
      /\ c # 1 => Len(p.keys) <= 1
      /\ \A d \in Channels : Len(lists[d]) \in Nat
  <2>1. \A d \in Channels : Len(lists[d]) \in Nat
    BY DEF IsLists
  <2> QED BY <2>1, ListEntry
<1>2. FirstKey(p) \in Keys \cup {NoKey}
  BY <1>1, KeysOf
<1>3. /\ t \in Site /\ t.id = id /\ t.key = FirstKey(p) /\ t.at[c] = n
      /\ \A d \in Channels : d # c => t.at[d] = 0
  BY <1>1, <1>2 DEF Site
<1>4. f \in Founder /\ f.site = i /\ f.list = c /\ f.entry = p
  BY <1>0, <1>1 DEF Founder
<1>5. next = Add(acc, id, name, c, n, p)
  <2>1. Len(sites) = i
    BY <1>0
  <2> QED BY <2>1 DEF Add
<1> HIDE DEF p, t, f
<1>6. /\ sites \in Seq(Site) /\ Len(sites) = i /\ DOMAIN sites = 1..i /\ sites[i] = t
      /\ \A q \in DOMAIN acc.sites : sites[q] = acc.sites[q]
  BY <1>0, <1>3
<1>7. /\ founders \in Seq(Founder) /\ DOMAIN founders = 1..(Len(acc.founders) + 1)
      /\ founders[Len(acc.founders) + 1] = f
      /\ \A q \in DOMAIN acc.founders : founders[q] = acc.founders[q]
  BY <1>0, <1>4
<1>8. next \in Acc /\ next.sites = sites /\ next.founders = founders
  BY <1>6, <1>7 DEF Acc
<1> HIDE DEF next, sites, founders
<1>9. EntryOf(lists, t, c) = p
  BY <1>3 DEF EntryOf, p
<1>10. GoodSite(lists, t)
  <2>1. InLists(lists, t)
    <3>1. \A d \in Channels : t.at[d] <= Len(lists[d])
      <4> SUFFICES ASSUME NEW d \in Channels PROVE t.at[d] <= Len(lists[d])
        OBVIOUS
      <4>1. CASE d = c
        BY <1>1, <1>3, <4>1
      <4>2. CASE d # c
        BY <1>1, <1>3, <4>2
      <4> QED BY <4>1, <4>2
    <3> QED BY <1>1, <1>3, <3>1 DEF InLists
  <2>2. Apart(lists, t)
    <3> SUFFICES ASSUME NEW d \in Channels, t.at[d] # 0
                 PROVE  LET e == EntryOf(lists, t, d)
                        IN  e.keys = <<>> \/ t.key \in ToSet(e.keys)
      BY DEF Apart
    <3>1. d = c
      BY <1>3
    <3> QED BY <1>1, <1>3, <1>9, <3>1, KeysOf
  <2>3. ASSUME NEW h \in Hosts, NEW k \in Keys, id = <<"host", h, k>> PROVE t.key = k
    <3>1. c # 1 /\ id = <<"host", p.url.host, FirstKey(p)>>
      BY <2>3 DEF p
    <3> QED BY <1>3, <2>3, <3>1
  <2> QED BY <1>3, <2>1, <2>2, <2>3 DEF GoodSite
<1>11. OpenSite(lists, next, i)
  <2> SUFFICES ASSUME t.key = NoKey PROVE Keyless(lists, t)
    BY <1>6, <1>8 DEF OpenSite
  <2>1. p.keys = <<>>
    BY <1>1, <1>3, KeysOf
  <2> QED BY <1>3, <1>9, <2>1 DEF Keyless
<1>12. Founds(lists, f, t)
  <2>1. id[1] = "host" => p.url.host = id[2]
    BY DEF p
  <2> QED BY <1>1, <1>3, <1>4, <1>9, <2>1 DEF Founds
<1>13. \A q \in DOMAIN acc.founders : acc.founders[q].site # i
  BY <1>0 DEF WalkInv
<1>14. ASSUME NEW q \in DOMAIN acc.sites, acc.sites[q].key = NoKey,
              acc.sites[q].id = <<"host", p.url.host>>
       PROVE  Keyless(lists, acc.sites[q])
  <2>1. c # 1
    BY <1>14 DEF NoHosts
  <2> QED BY <1>1, <1>14, <2>1, OthersKeyless DEF p
<1>15. WalkInv(lists, next)
  <2>1. \A q \in DOMAIN next.sites :
            q # i => q \in DOMAIN acc.sites /\ next.sites[q] = acc.sites[q]
    BY <1>0, <1>6, <1>8
  <2>2. /\ i \in DOMAIN next.sites /\ DOMAIN acc.sites \subseteq DOMAIN next.sites
        /\ next.sites[i] = t
    BY <1>0, <1>6, <1>8
  <2>3. DOMAIN acc.founders \subseteq DOMAIN next.founders
    BY <1>0, <1>7, <1>8
  <2>4. \A q \in DOMAIN acc.founders :
            /\ next.founders[q] = acc.founders[q]
            /\ acc.founders[q].site = i => Founds(lists, acc.founders[q], next.sites[i])
    BY <1>7, <1>8, <1>13
  <2>5. \A q \in DOMAIN next.founders : q \notin DOMAIN acc.founders => next.founders[q] = f
    BY <1>0, <1>7, <1>8
  <2> HIDE DEF i
  <2>6. \A j \in DOMAIN next.founders : j \notin DOMAIN acc.founders =>
            /\ next.founders[j].site = i
            /\ Founds(lists, next.founders[j], next.sites[i])
            /\ \A q \in DOMAIN acc.sites :
                    /\ q # i /\ acc.sites[q].key = NoKey
                    /\ acc.sites[q].id = <<"host", next.founders[j].entry.url.host>>
                    => Keyless(lists, acc.sites[q])
    BY <1>4, <1>12, <1>14, <2>2, <2>5
  <2> QED BY <1>8, <1>10, <1>11, <2>1, <2>2, <2>3, <2>4, <2>6, GrowInv
<1>16. c = 1 => NoHosts(next)
  BY <1>0, <1>3, <1>6, <1>8 DEF NoHosts
<1> QED BY <1>5, <1>15, <1>16 DEF p

\* An entry that comes to the id of a site agrees with that site's key.
LEMMA HostTaken ==
    ASSUME NEW lists, NEW acc, WalkInv(lists, acc), NEW p \in Entry,
           Positions(acc, HostId(acc, p)) # {}
    PROVE  LET i == The(Positions(acc, HostId(acc, p)))
               s == acc.sites[i]
           IN  /\ i \in DOMAIN acc.sites /\ s.id = HostId(acc, p)
               /\ \/ /\ s.id = <<"host", p.url.host>>
                     /\ s.key = NoKey \/ p.keys = <<>> \/ s.key \in ToSet(p.keys)
                  \/ /\ s.id = <<"host", p.url.host, FirstKey(p)>> /\ p.keys # <<>>
                     /\ s.key = FirstKey(p)
<1> DEFINE short == <<"host", p.url.host>>
           long == <<"host", p.url.host, FirstKey(p)>>
           id == HostId(acc, p)
           i == The(Positions(acc, id))
           s == acc.sites[i]
           place == The(Positions(acc, short))
<1>1. p.url.host \in Hosts
  BY DEF Entry, Url
<1>2. i \in DOMAIN acc.sites /\ s.id = id
  <2> DEFINE S == Positions(acc, id)
  <2>1. \A x \in S : x \in DOMAIN acc.sites /\ acc.sites[x].id = id
    BY DEF Positions
  <2>2. S # {}
    OBVIOUS
  <2> HIDE DEF S
  <2>3. The(S) \in S
    BY <2>2, OneOf
  <2>4. i = The(S)
    BY DEF S
  <2> HIDE DEF i, id
  <2> QED BY <2>1, <2>3, <2>4
<1>3. CASE Positions(acc, short) # {} /\ ~KeysAgree(acc.sites[place], p)
  <2>1. id = long
    BY <1>3 DEF HostId
  <2>2. p.keys # <<>>
    BY <1>3 DEF KeysAgree
  <2>3. FirstKey(p) \in Keys
    BY <2>2, KeysOf
  <2> HIDE DEF i, id
  <2>4. s.key = FirstKey(p)
    BY <1>1, <1>2, <2>1, <2>3 DEF WalkInv, GoodSite
  <2> QED BY <1>2, <2>1, <2>2, <2>4 DEF i, id
<1>4. CASE ~(Positions(acc, short) # {} /\ ~KeysAgree(acc.sites[place], p))
  <2>1. id = short
    BY <1>4 DEF HostId
  <2>2. Positions(acc, short) # {} /\ i = place
    BY <2>1
  <2>3. KeysAgree(s, p)
    BY <1>4, <2>2
  <2> HIDE DEF i, id
  <2> QED BY <1>2, <2>1, <2>3 DEF KeysAgree, i, id
<1> QED BY <1>3, <1>4

\* So does an entry that joins no site but has the id of one.
LEMMA AddOldInv ==
    ASSUME NEW lists, IsLists(lists), NEW acc, WalkInv(lists, acc),
           NEW c \in Channels, c # 1, NEW n \in 1..Len(lists[c]), NEW name,
           Resolve(acc, lists[c][n]) = {},
           Positions(acc, HostId(acc, lists[c][n])) # {}
    PROVE  WalkInv(lists, Add(acc, HostId(acc, lists[c][n]), name, c, n, lists[c][n]))
<1> DEFINE p == lists[c][n]
           short == <<"host", p.url.host>>
           long == <<"host", p.url.host, FirstKey(p)>>
           id == HostId(acc, p)
           i == The(Positions(acc, id))
           s == acc.sites[i]
           key == IF s.key = NoKey THEN FirstKey(p) ELSE s.key
           t == [s EXCEPT !.at = [s.at EXCEPT ![c] = n], !.key = key]
           f == [site |-> i, list |-> c, entry |-> p]
           sites == [acc.sites EXCEPT ![i] = t]
           founders == Append(acc.founders, f)
           next == [sites |-> sites, founders |-> founders]
<1>0. /\ acc \in Acc /\ acc.sites \in Seq(Site) /\ acc.founders \in Seq(Founder)
      /\ Len(acc.sites) \in Nat /\ Len(acc.founders) \in Nat
      /\ DOMAIN acc.sites = 1..Len(acc.sites) /\ DOMAIN acc.founders = 1..Len(acc.founders)
  BY DEF WalkInv, Acc
<1>1. /\ p \in Entry /\ n \in Nat \ {0} /\ n <= Len(lists[c]) /\ Len(lists[c]) \in Nat
      /\ Len(p.keys) <= 1 /\ 1 \in Channels
  BY ListEntry
<1>2. p.url.host \in Hosts
  BY <1>1 DEF Entry, Url
<1>3. /\ i \in DOMAIN acc.sites /\ s.id = id
      /\ \/ /\ s.id = short
            /\ s.key = NoKey \/ p.keys = <<>> \/ s.key \in ToSet(p.keys)
         \/ /\ s.id = long /\ p.keys # <<>>
            /\ s.key = FirstKey(p)
  BY <1>1, HostTaken
<1>4. s \in Site /\ GoodSite(lists, s) /\ OpenSite(lists, acc, i)
  <2> HIDE DEF i
  <2> QED BY <1>0, <1>3 DEF WalkInv
<1>5. Add(acc, id, name, c, n, p) = next
  <2> DEFINE taken == Positions(acc, id)
  <2>1. taken # {}
    OBVIOUS
  <2>2. [acc.sites EXCEPT ![i].at[c] = n, ![i].key = key] = sites
    <3> HIDE DEF i, key
    <3> QED BY <1>0, <1>3, <1>4 DEF Site
  <2> HIDE DEF taken, p, id
  <2> QED BY <2>1, <2>2 DEF Add, taken
<1>6. \/ /\ id = short
         /\ s.key = NoKey \/ p.keys = <<>> \/ s.key \in ToSet(p.keys)
      \/ /\ id = long /\ p.keys # <<>>
         /\ s.key = FirstKey(p)
  <2> HIDE DEF i, id
  <2> QED BY <1>3
<1> HIDE DEF id, i
<1>7. id[1] = "host" /\ id[2] = p.url.host
  BY <1>6
<1>8. s.key \in Keys \cup {NoKey} /\ FirstKey(p) \in Keys \cup {NoKey} /\ NoKey \notin Keys
  BY <1>1, <1>4, KeysOf, SiteAssumption DEF Site
<1>9. s.key = NoKey => id = short /\ Keyless(lists, s)
  <2> SUFFICES ASSUME s.key = NoKey PROVE id = short /\ Keyless(lists, s)
    OBVIOUS
  <2>1. id = short
    BY <1>1, <1>6, <1>8, KeysOf
  <2> QED BY <1>1, <1>3, <2>1, OthersKeyless
<1>10. /\ t \in Site /\ t.id = id /\ t.key = key /\ t.at[c] = n
       /\ \A d \in Channels : d # c => t.at[d] = s.at[d]
  BY <1>1, <1>3, <1>4, <1>8 DEF Site
<1>11. f \in Founder /\ f.site = i /\ f.list = c /\ f.entry = p
  BY <1>0, <1>1, <1>3 DEF Founder
<1> HIDE DEF p, t, f
<1>12. /\ sites \in Seq(Site) /\ Len(sites) = Len(acc.sites)
       /\ \A q \in DOMAIN acc.sites : sites[q] = IF q = i THEN t ELSE acc.sites[q]
  BY <1>0, <1>3, <1>10, ExceptSeq
<1>13. /\ founders \in Seq(Founder) /\ DOMAIN founders = 1..(Len(acc.founders) + 1)
       /\ founders[Len(acc.founders) + 1] = f
       /\ \A q \in DOMAIN acc.founders : founders[q] = acc.founders[q]
  BY <1>0, <1>11
<1>14. /\ next \in Acc /\ next.sites = sites /\ next.founders = founders
       /\ DOMAIN next.sites = DOMAIN acc.sites
  BY <1>0, <1>12, <1>13 DEF Acc
<1> HIDE DEF next, sites, founders
<1>15. /\ EntryOf(lists, t, c) = p
       /\ \A d \in Channels : d # c => EntryOf(lists, t, d) = EntryOf(lists, s, d)
  BY <1>10 DEF EntryOf, p
<1>16. GoodSite(lists, t)
  <2>1. InLists(lists, t)
    <3>1. \A d \in Channels : t.at[d] <= Len(lists[d])
      BY <1>1, <1>4, <1>10 DEF GoodSite, InLists
    <3>2. t.at[c] # 0
      BY <1>1, <1>10
    <3> QED BY <3>1, <3>2 DEF InLists
  <2>2. ASSUME t.key # NoKey PROVE Apart(lists, t)
    <3> SUFFICES ASSUME NEW d \in Channels, t.at[d] # 0
                 PROVE  LET e == EntryOf(lists, t, d)
                        IN  \/ e.keys = <<>>
                            \/ t.key \in ToSet(e.keys)
                            \/ (t.at[1] # 0 /\ Share(e, EntryOf(lists, t, 1)))
      BY DEF Apart
    <3>1. CASE d = c
      <4>1. p.keys = <<>> \/ t.key \in ToSet(p.keys)
        BY <1>1, <1>6, <1>10, KeysOf
      <4> QED BY <1>15, <3>1, <4>1
    <3>2. CASE d # c
      <4>1. s.at[d] # 0 /\ s.at[1] = t.at[1]
        BY <1>1, <1>10, <3>2
      <4>2. EntryOf(lists, t, d) = EntryOf(lists, s, d) /\ EntryOf(lists, t, 1) = EntryOf(lists, s, 1)
        BY <1>1, <1>15, <3>2
      <4>3. CASE s.key = NoKey
        BY <1>9, <4>1, <4>2, <4>3 DEF Keyless
      <4>4. CASE s.key # NoKey
        <5>1. t.key = s.key
          BY <1>10, <4>4
        <5> QED BY <1>4, <4>1, <4>2, <4>4, <5>1 DEF GoodSite, Apart
      <4> QED BY <4>3, <4>4
    <3> QED BY <3>1, <3>2
  <2>3. ASSUME NEW h \in Hosts, NEW k \in Keys, t.id = <<"host", h, k>> PROVE t.key = k
    <3>1. s.key = k
      BY <1>3, <1>4, <1>10, <2>3 DEF GoodSite
    <3> QED BY <1>8, <1>10, <3>1
  <2> QED BY <2>1, <2>2, <2>3 DEF GoodSite
<1>17. OpenSite(lists, next, i)
  <2> SUFFICES ASSUME t.key = NoKey PROVE Keyless(lists, t)
    BY <1>3, <1>12, <1>14 DEF OpenSite
  <2>1. s.key = NoKey /\ FirstKey(p) = NoKey
    BY <1>10
  <2>2. p.keys = <<>>
    BY <1>1, <2>1, KeysOf
  <2>3. ASSUME NEW d \in Channels, t.at[d] # 0 PROVE EntryOf(lists, t, d).keys = <<>>
    <3>1. CASE d = c
      BY <1>15, <2>2, <3>1
    <3>2. CASE d # c
      BY <1>9, <1>10, <1>15, <2>1, <2>3, <3>2 DEF Keyless
    <3> QED BY <3>1, <3>2
  <2> QED BY <2>3 DEF Keyless
<1>18. Founds(lists, f, t)
  <2>1. p.keys # <<>> => t.key = FirstKey(p)
    BY <1>1, <1>6, <1>10, KeysOf
  <2>2. p.url.host = t.id[2]
    BY <1>7, <1>10
  <2> QED BY <1>1, <1>11, <2>1, <2>2 DEF Founds
<1>19. ASSUME NEW g \in Founder, Founds(lists, g, s) PROVE Founds(lists, g, t)
  <2>1. g.list # 1 /\ Len(g.entry.keys) <= 1 /\ g.entry.url.host = t.id[2]
    BY <1>3, <1>7, <1>10, <1>19 DEF Founds
  <2>2. g.entry.keys # <<>> => t.key = FirstKey(g.entry)
    <3> SUFFICES ASSUME g.entry.keys # <<>> PROVE t.key = FirstKey(g.entry)
      OBVIOUS
    <3>1. s.key = FirstKey(g.entry)
      BY <1>19, <2>1 DEF Founds
    <3>2. g.entry \in Entry
      BY DEF Founder
    <3>3. s.key # NoKey
      BY <3>1, <3>2, KeysOf
    <3> QED BY <1>10, <3>1, <3>3
  <2> QED BY <2>1, <2>2 DEF Founds
<1>20. ASSUME NEW q \in DOMAIN acc.sites, acc.sites[q].key = NoKey,
              acc.sites[q].id = <<"host", p.url.host>>
       PROVE  Keyless(lists, acc.sites[q])
  BY <1>1, <1>20, OthersKeyless DEF p
<1>21. WalkInv(lists, next)
  <2>1. \A q \in DOMAIN next.sites :
            q # i => q \in DOMAIN acc.sites /\ next.sites[q] = acc.sites[q]
    BY <1>12, <1>14
  <2>2. /\ i \in DOMAIN next.sites /\ DOMAIN acc.sites \subseteq DOMAIN next.sites
        /\ next.sites[i] = t
    BY <1>3, <1>12, <1>14
  <2>3. DOMAIN acc.founders \subseteq DOMAIN next.founders
    BY <1>0, <1>13, <1>14
  <2>4. \A q \in DOMAIN acc.founders :
            /\ next.founders[q] = acc.founders[q]
            /\ acc.founders[q].site = i => Founds(lists, acc.founders[q], next.sites[i])
    <3> SUFFICES ASSUME NEW q \in DOMAIN acc.founders
                 PROVE  /\ next.founders[q] = acc.founders[q]
                        /\ acc.founders[q].site = i => Founds(lists, acc.founders[q], next.sites[i])
      OBVIOUS
    <3>1. acc.founders[q] \in Founder
      BY <1>0
    <3>2. acc.founders[q].site = i => Founds(lists, acc.founders[q], s)
      BY DEF WalkInv
    <3> QED BY <1>13, <1>14, <1>19, <2>2, <3>1, <3>2
  <2>5. \A q \in DOMAIN next.founders : q \notin DOMAIN acc.founders => next.founders[q] = f
    BY <1>0, <1>13, <1>14
  <2>6. \A j \in DOMAIN next.founders : j \notin DOMAIN acc.founders =>
            /\ next.founders[j].site = i
            /\ Founds(lists, next.founders[j], next.sites[i])
            /\ \A q \in DOMAIN acc.sites :
                    /\ q # i /\ acc.sites[q].key = NoKey
                    /\ acc.sites[q].id = <<"host", next.founders[j].entry.url.host>>
                    => Keyless(lists, acc.sites[q])
    BY <1>11, <1>18, <1>20, <2>2, <2>5
  <2> QED BY <1>14, <1>16, <1>17, <2>1, <2>2, <2>3, <2>4, <2>6, GrowInv
<1> QED BY <1>5, <1>21 DEF p, id

-----------------------------------------------------------------------------
\* The sites of lists.

\* The next entry keeps what is known in order.
LEMMA PlaceInv ==
    ASSUME NEW lists, IsLists(lists), NEW acc, WalkInv(lists, acc),
           NEW c \in Channels, NEW n \in 1..Len(lists[c]),
           c = 1 => NoHosts(acc)
    PROVE  LET next == Place(acc, c, n, lists[c][n])
           IN  WalkInv(lists, next) /\ (c = 1 => NoHosts(next))
<1> DEFINE p == lists[c][n]
           joined == Resolve(acc, p)
<1>1. p \in Entry /\ acc \in Acc
  BY ListEntry DEF WalkInv
<1>2. NameOf(p) \in Name
  BY <1>1 DEF NameOf, Entry, Url, Name
<1>3. CASE c = 1
  <2>1. Place(acc, c, n, p) = Add(acc, NameId(acc, p), NameOf(p), c, n, p)
    BY <1>3 DEF Place
  <2>2. NameId(acc, p) \in Id /\ NameId(acc, p)[1] # "host" /\ Positions(acc, NameId(acc, p)) = {}
    BY <1>1, NameFree
  <2> QED BY <1>2, <1>3, <2>1, <2>2, AddNewInv
<1>4. CASE c # 1 /\ joined # {}
  <2>1. The(joined) \in joined
    <3> HIDE DEF joined
    <3> QED BY <1>4, OneOf
  <2>2. Place(acc, c, n, p) = [acc EXCEPT !.sites[The(joined)].at[c] = n]
    BY <1>4 DEF Place
  <2> DEFINE i == The(joined)
  <2>3. i \in Resolve(acc, p)
    BY <2>1
  <2> HIDE DEF i
  <2>4. WalkInv(lists, [acc EXCEPT !.sites[i].at[c] = n])
    BY <1>4, <2>3, JoinInv
  <2> QED BY <1>4, <2>2, <2>4 DEF i
<1>5. CASE c # 1 /\ joined = {}
  <2> DEFINE id == HostId(acc, p)
  <2>1. Place(acc, c, n, p) = Add(acc, id, NameOf(p), c, n, p)
    BY <1>5 DEF Place
  <2>2. /\ id \in {<<"host", p.url.host>>, <<"host", p.url.host, FirstKey(p)>>}
        /\ id \in Id
    <3>1. p.url.host \in Hosts
      BY <1>1 DEF Entry, Url
    <3>2. p.keys # <<>> => FirstKey(p) \in Keys
      BY <1>1, KeysOf
    <3> QED BY <3>1, <3>2 DEF HostId, KeysAgree, Id
  <2>3. CASE Positions(acc, id) = {}
    <3> HIDE DEF id
    <3> QED BY <1>2, <1>5, <2>1, <2>2, <2>3, AddNewInv
  <2>4. CASE Positions(acc, id) # {}
    <3>1. WalkInv(lists, Add(acc, id, NameOf(p), c, n, p))
      BY <1>5, <2>4, AddOldInv
    <3> QED BY <1>5, <2>1, <3>1
  <2> QED BY <2>3, <2>4
<1> QED BY <1>3, <1>4, <1>5

\* So do all the entries of a list.
LEMMA WalkKeeps ==
    ASSUME NEW lists, IsLists(lists), NEW before, WalkInv(lists, before),
           NEW c \in Channels, c = 1 => NoHosts(before)
    PROVE  WalkInv(lists, WalkList(before, c, lists[c]))
<1> DEFINE L == Len(lists[c])
<1>1. L \in Nat
  BY DEF IsLists
<1>2. PICK known : /\ Steps(before, c, lists[c], known, L)
                   /\ WalkList(before, c, lists[c]) = known[L]
  BY <1>1, WalkSteps
<1> HIDE DEF L
<1> DEFINE Good(acc) == WalkInv(lists, acc) /\ (c = 1 => NoHosts(acc))
           A == {n \in Nat : n <= L => Good(known[n])}
<1>3. 0 \in A
  <2>1. known[0] = before
    BY <1>1, <1>2 DEF Steps
  <2> QED BY <2>1
<1>4. ASSUME NEW n \in Nat, n \in A PROVE n + 1 \in A
  <2> SUFFICES ASSUME n + 1 <= L PROVE Good(known[n + 1])
    OBVIOUS
  <2>1. Good(known[n])
    BY <1>1, <1>4
  <2>2. known[n + 1] = Place(known[n], c, n + 1, lists[c][n + 1])
    <3>1. n + 1 \in 0..L /\ n + 1 # 0 /\ (n + 1) - 1 = n
      BY <1>1
    <3>2. known[n + 1] = Place(known[(n + 1) - 1], c, n + 1, lists[c][n + 1])
      BY <1>2, <3>1 DEF Steps
    <3> QED BY <3>1, <3>2
  <2>3. n + 1 \in 1..Len(lists[c])
    BY <1>1 DEF L
  <2> QED BY <2>1, <2>2, <2>3, PlaceInv
<1>5. L \in A
  <2> HIDE DEF A
  <2> QED BY <1>1, <1>3, <1>4, Inductive
<1> QED BY <1>1, <1>2, <1>5

\* The sites are those known after the three lists, the keyless left out.
LEMMA Walked ==
    ASSUME NEW lists, IsLists(lists)
    PROVE  \E acc : /\ WalkInv(lists, acc)
                    /\ BuildSites(lists) =
                            {acc.sites[i] : i \in {i \in DOMAIN acc.sites : acc.sites[i].key # NoKey}}
<1> DEFINE openai == WalkList(Start, 1, lists[1])
           codex  == WalkList(openai, 2, lists[2])
           claude == WalkList(codex, 3, lists[3])
<1>1. 1 \in Channels /\ 2 \in Channels /\ 3 \in Channels
  BY DEF Channels
<1>2. WalkInv(lists, openai)
  BY <1>1, StartInv, WalkKeeps
<1>3. WalkInv(lists, codex)
  <2> HIDE DEF openai
  <2> QED BY <1>1, <1>2, WalkKeeps
<1>4. WalkInv(lists, claude)
  <2> HIDE DEF codex
  <2> QED BY <1>1, <1>3, WalkKeeps
<1> QED BY <1>4 DEF BuildSites

\* A site that is shown has a key and entries of its account.
LEMMA SitesAreGood ==
    ASSUME NEW lists, IsLists(lists), NEW s \in BuildSites(lists)
    PROVE  s \in Site /\ s.key # NoKey /\ s.key \in Keys /\ GoodSite(lists, s)
<1>1. PICK acc :
        /\ WalkInv(lists, acc)
        /\ BuildSites(lists) =
                {acc.sites[i] : i \in {i \in DOMAIN acc.sites : acc.sites[i].key # NoKey}}
  BY Walked
<1>2. PICK i \in DOMAIN acc.sites : s = acc.sites[i] /\ s.key # NoKey
  BY <1>1
<1>3. acc.sites \in Seq(Site)
  BY <1>1 DEF WalkInv, Acc
<1>4. s \in Site /\ GoodSite(lists, s)
  BY <1>1, <1>2, <1>3 DEF WalkInv
<1> QED BY <1>2, <1>4 DEF Site

\* Every site BuildSites finds in lists CPA may hold keeps the accounts apart.
LEMMA SitesApart ==
    ASSUME NEW lists, IsLists(lists), NEW s \in BuildSites(lists), NEW e \in Owned(s)
    PROVE  \/ At(lists, e).keys = <<>>
           \/ s.key \in ToSet(At(lists, e).keys)
           \/ (s.at[1] # 0 /\ Share(At(lists, e), lists[1][s.at[1]]))
<1>1. PICK d \in Channels : s.at[d] # 0 /\ e = <<d, s.at[d]>>
  BY DEF Owned
<1>2. At(lists, e) = EntryOf(lists, s, d)
  BY <1>1 DEF At, EntryOf
<1>3. Apart(lists, s)
  BY SitesAreGood DEF GoodSite
<1> QED BY <1>1, <1>2, <1>3 DEF Apart, EntryOf

-----------------------------------------------------------------------------
\* What the operations do to a list.

Fitting(c) == {p \in Entry : Fits(c, p)}

\* CPA's lists are sequences of the entries that fit them.
LEMMA ListsFit ==
    ASSUME NEW lists
    PROVE  IsLists(lists) <=> /\ lists = [c \in Channels |-> lists[c]]
                              /\ \A c \in Channels : lists[c] \in Seq(Fitting(c))
<1>1. ASSUME IsLists(lists), NEW c \in Channels PROVE lists[c] \in Seq(Fitting(c))
  <2>1. lists[c] \in Seq(Entry) /\ \A n \in DOMAIN lists[c] : Fits(c, lists[c][n])
    BY <1>1 DEF IsLists
  <2>2. /\ lists[c] = [n \in 1..Len(lists[c]) |-> lists[c][n]] /\ Len(lists[c]) \in Nat
        /\ \A n \in 1..Len(lists[c]) : lists[c][n] \in Fitting(c)
    BY <2>1 DEF Fitting
  <2>3. lists[c] \in [1..Len(lists[c]) -> Fitting(c)]
    BY <2>2
  <2> QED BY <2>2, <2>3, SeqDef
<1>2. ASSUME NEW c \in Channels, lists[c] \in Seq(Fitting(c))
      PROVE  lists[c] \in Seq(Entry) /\ \A n \in DOMAIN lists[c] : Fits(c, lists[c][n])
  <2>1. \A n \in DOMAIN lists[c] : lists[c][n] \in Fitting(c)
    BY <1>2
  <2>2. Fitting(c) \subseteq Entry
    BY DEF Fitting
  <2>3. lists[c] \in Seq(Entry)
    BY <1>2, <2>2, SeqMonotonic
  <2> QED BY <2>1, <2>3 DEF Fitting
<1>3. IsLists(lists) => lists = [c \in Channels |-> lists[c]]
  BY DEF IsLists
<1>4. (/\ lists = [c \in Channels |-> lists[c]]
       /\ \A c \in Channels : lists[c] \in Seq(Fitting(c))) => IsLists(lists)
  BY <1>2 DEF IsLists
<1> QED BY <1>1, <1>3, <1>4

\* A list without one of its entries.
LEMMA Removed ==
    ASSUME NEW S, NEW list \in Seq(S), NEW n \in 1..Len(list)
    PROVE  RemoveAt(list, n) \in Seq(S)
<1>1. Len(list) \in Nat /\ n \in Int /\ 1 <= n /\ n <= Len(list)
  OBVIOUS
<1>2. SubSeq(list, 1, n - 1) \in Seq(S)
  <2>1. \A i \in 1..(n - 1) : list[i] \in S
    BY <1>1
  <2> QED BY <1>1, <2>1, SubSeqProperties
<1>3. SubSeq(list, n + 1, Len(list)) \in Seq(S)
  <2>1. \A i \in (n + 1)..Len(list) : list[i] \in S
    BY <1>1
  <2> QED BY <1>1, <2>1, SubSeqProperties
<1> QED BY <1>2, <1>3, ConcatProperties DEF RemoveAt

Keeps(list, kept, m) ==
    kept = [n \in 0..m |-> IF n = 0 THEN <<>>
                           ELSE IF list[n].keys = <<>> THEN kept[n - 1]
                           ELSE Append(kept[n - 1], list[n])]

\* KeyedEntries has a function of what is kept after each entry.
LEMMA KeepSteps ==
    ASSUME NEW list, Len(list) \in Nat
    PROVE  \E kept : Keeps(list, kept, Len(list)) /\ KeyedEntries(list) = kept[Len(list)]
<1> DEFINE A == {m \in Nat : \E kept : Keeps(list, kept, m)}
<1>1. 0 \in A
  <2> DEFINE g == [n \in 0..0 |-> <<>>]
  <2>1. Keeps(list, g, 0)
    BY DEF Keeps
  <2> QED BY <2>1
<1>2. ASSUME NEW m \in Nat, m \in A PROVE m + 1 \in A
  <2>1. PICK g : Keeps(list, g, m)
    BY <1>2
  <2> DEFINE last == IF list[m + 1].keys = <<>> THEN g[m] ELSE Append(g[m], list[m + 1])
             h == [n \in 0..(m + 1) |-> IF n = m + 1 THEN last ELSE g[n]]
  <2>2. ASSUME NEW n \in 0..(m + 1)
        PROVE  h[n] = IF n = 0 THEN <<>>
                      ELSE IF list[n].keys = <<>> THEN h[n - 1]
                      ELSE Append(h[n - 1], list[n])
    <3>1. CASE n = m + 1
      <4>1. n # 0 /\ h[n] = last /\ h[n - 1] = g[m]
        BY <3>1
      <4> HIDE DEF h
      <4> QED BY <3>1, <4>1
    <3>2. CASE n # m + 1
      <4>1. n \in 0..m /\ h[n] = g[n] /\ (n # 0 => h[n - 1] = g[n - 1])
        BY <3>2
      <4>2. g[n] = IF n = 0 THEN <<>>
                   ELSE IF list[n].keys = <<>> THEN g[n - 1]
                   ELSE Append(g[n - 1], list[n])
        <5> HIDE DEF h
        <5> QED BY <2>1, <4>1 DEF Keeps
      <4> HIDE DEF h
      <4> QED BY <4>1, <4>2
    <3> QED BY <3>1, <3>2
  <2>3. h = [n \in 0..(m + 1) |-> h[n]]
    OBVIOUS
  <2> HIDE DEF h
  <2>4. Keeps(list, h, m + 1)
    BY <2>2, <2>3 DEF Keeps
  <2> QED BY <2>4
<1>3. Len(list) \in A
  <2> HIDE DEF A
  <2> QED BY <1>1, <1>2, Inductive
<1>4. \E kept : kept = [n \in 0..Len(list) |->
                            IF n = 0 THEN <<>>
                            ELSE IF list[n].keys = <<>> THEN kept[n - 1]
                            ELSE Append(kept[n - 1], list[n])]
  BY <1>3 DEF Keeps
<1> QED BY <1>4 DEF KeyedEntries, Keeps

\* The entries with a key of a list.
LEMMA KeyedFit ==
    ASSUME NEW S, NEW list \in Seq(S)
    PROVE  KeyedEntries(list) \in Seq(S)
<1> DEFINE L == Len(list)
<1>1. L \in Nat
  OBVIOUS
<1>2. PICK kept : Keeps(list, kept, L) /\ KeyedEntries(list) = kept[L]
  BY <1>1, KeepSteps
<1>3. \A n \in 1..L : list[n] \in S
  OBVIOUS
<1> HIDE DEF L
<1> DEFINE A == {n \in Nat : n <= L => kept[n] \in Seq(S)}
<1>4. 0 \in A
  <2>1. kept[0] = <<>>
    BY <1>1, <1>2 DEF Keeps
  <2>2. kept[0] \in Seq(S)
    BY <2>1, EmptySeq
  <2> QED BY <2>2
<1>5. ASSUME NEW n \in Nat, n \in A PROVE n + 1 \in A
  <2> SUFFICES ASSUME n + 1 <= L PROVE kept[n + 1] \in Seq(S)
    OBVIOUS
  <2>1. n + 1 \in 0..L /\ n + 1 # 0 /\ (n + 1) - 1 = n
    BY <1>1
  <2>2. kept[n + 1] = IF list[n + 1].keys = <<>> THEN kept[(n + 1) - 1]
                      ELSE Append(kept[(n + 1) - 1], list[n + 1])
    BY <1>2, <2>1 DEF Keeps
  <2>3. kept[n] \in Seq(S) /\ list[n + 1] \in S
    BY <1>1, <1>3, <1>5
  <2> DEFINE k == kept[n]
             e == list[n + 1]
  <2>4. k \in Seq(S) /\ e \in S /\ kept[n + 1] \in {k, Append(k, e)}
    BY <2>1, <2>2, <2>3
  <2> HIDE DEF k, e
  <2>5. Append(k, e) \in Seq(S)
    BY <2>4
  <2> QED BY <2>4, <2>5
<1>6. L \in A
  <2> HIDE DEF A
  <2> QED BY <1>1, <1>4, <1>5, Inductive
<1> QED BY <1>1, <1>2, <1>6

-----------------------------------------------------------------------------
\* The write-back's new entries.

\* A site's first entry is in the lists.
LEMMA SourceListed ==
    ASSUME NEW lists, IsLists(lists), NEW s \in BuildSites(lists)
    PROVE  Source(lists, s) \in Entry
<1> DEFINE C == {c \in Channels : s.at[c] # 0}
           c == Least(C)
<1>1. s \in Site /\ InLists(lists, s)
  BY SitesAreGood DEF GoodSite
<1>2. C \in SUBSET Nat /\ C # {}
  BY <1>1 DEF Channels, InLists
<1>3. c \in C
  <2> HIDE DEF C
  <2> QED BY <1>2, LeastNat
<1>4. Source(lists, s) = lists[c][s.at[c]]
  BY DEF Source
<1> HIDE DEF c
<1>5. c \in Channels /\ s.at[c] # 0 /\ s.at[c] \in Nat /\ s.at[c] <= Len(lists[c])
  BY <1>1, <1>3 DEF InLists, Site
<1>6. lists[c] \in Seq(Entry)
  BY <1>5 DEF IsLists
<1> QED BY <1>4, <1>5, <1>6

\* The entry made for a site that has a first key fits the list it is for.
LEMMA CreatedFits ==
    ASSUME NEW lists, IsLists(lists), NEW s \in BuildSites(lists), CanCreate(lists, s),
           NEW c \in Channels
    PROVE  NewProviderFor(lists, s, c) \in Fitting(c)
<1> DEFINE e == Source(lists, s)
           k == FirstKey(e)
           u == [e.url EXCEPT !.v1 = (c # 3)]
           name == IF c = 1 THEN s.name ELSE NoName
           new == [name |-> name, keys |-> <<k>>, url |-> u]
<1>1. e \in Entry /\ e.keys # <<>>
  BY SourceListed DEF CanCreate
<1>2. s \in Site
  BY SitesAreGood
<1>3. new = NewProviderFor(lists, s, c)
  BY DEF NewProviderFor
<1> HIDE DEF e
<1>4. k \in Keys
  BY <1>1, KeysOf
<1>5. u \in Url
  BY <1>1 DEF Entry, Url
<1>6. name \in Name
  BY <1>2 DEF Site, Name
<1> HIDE DEF k, u, name
<1>7. <<k>> \in Seq(Keys) /\ Len(<<k>>) = 1
  BY <1>4
<1>8. new \in Entry /\ new.keys = <<k>>
  BY <1>5, <1>6, <1>7 DEF Entry
<1> HIDE DEF new
<1>9. Len(new.keys) <= 1
  BY <1>7, <1>8
<1>10. new \in Fitting(c)
  BY <1>8, <1>9 DEF Fitting, Fits
<1> QED BY <1>3, <1>10

\* There are finitely many sites.
LEMMA SitesFinite ==
    ASSUME NEW lists, IsLists(lists)
    PROVE  IsFiniteSet(BuildSites(lists))
<1>1. PICK acc :
        /\ WalkInv(lists, acc)
        /\ BuildSites(lists) =
                {acc.sites[i] : i \in {i \in DOMAIN acc.sites : acc.sites[i].key # NoKey}}
  BY Walked
<1> DEFINE all == acc.sites
           I == {i \in DOMAIN all : all[i].key # NoKey}
           B == {all[i] : i \in I}
           f == [i \in I |-> all[i]]
<1>2. all \in Seq(Site)
  BY <1>1 DEF WalkInv, Acc
<1>3. B = BuildSites(lists)
  BY <1>1
<1> HIDE DEF all
<1>4. IsFiniteSet(1..Len(all)) /\ I \subseteq 1..Len(all)
  BY <1>2, FS_Interval
<1>5. IsFiniteSet(I)
  <2> HIDE DEF I
  <2> QED BY <1>4, FS_Subset
<1> HIDE DEF I
<1>6. f \in [I -> B] /\ \A x \in B : \E i \in I : f[i] = x
  OBVIOUS
<1> HIDE DEF f, B
<1>7. f \in Surjection(I, B)
  BY <1>6 DEF Surjection
<1>8. IsFiniteSet(B)
  BY <1>5, <1>7, FS_Surjection
<1> QED BY <1>3, <1>8

\* The elements of a finite set, one after the other.
LEMMA SetListed ==
    ASSUME NEW S, IsFiniteSet(S)
    PROVE  /\ SetToSeq(S) \in Seq(S)
           /\ DOMAIN SetToSeq(S) = 1..Len(SetToSeq(S))
           /\ \A i \in DOMAIN SetToSeq(S) : SetToSeq(S)[i] \in S
<1>1. PICK n \in Nat : ExistsBijection(1..n, S)
  BY FS_NatBijection
<1>2. Cardinality(S) = n
  BY <1>1, FS_CountingElements
<1>3. PICK f : f \in [1..n -> S] /\ IsInjective(f)
  BY <1>1 DEF ExistsBijection, Bijection, Injection
<1>4. SetToSeq(S) \in [1..n -> S]
  BY <1>2, <1>3 DEF SetToSeq
<1> DEFINE g == SetToSeq(S)
<1> HIDE DEF g
<1>5. g \in [1..n -> S]
  BY <1>4 DEF g
<1>6. g \in Seq(S)
  BY <1>5, SeqDef
<1>7. DOMAIN g = 1..Len(g) /\ \A i \in DOMAIN g : g[i] \in S
  BY <1>5, <1>6
<1> QED BY <1>6, <1>7 DEF g

-----------------------------------------------------------------------------
\* The entries of CPA's lists are of the form CPA keeps.

\* A save appends the entries it makes.
LEMMA SaveFits ==
    ASSUME IsLists(cpa), Save PROVE IsLists(cpa')
<1>1. PICK need \in SUBSET Creatable(cpa) :
        cpa' = [c \in Channels |->
                    LET homeless == SetToSeq({x \in need : x[2] = c})
                    IN  cpa[c] \o [i \in DOMAIN homeless |->
                                NewProviderFor(cpa, homeless[i][1], c)]]
  BY DEF Save
<1>2. IsFiniteSet(Channels)
  <2>1. \A n \in Nat : IsFiniteSet(1..n)
    BY FS_Interval
  <2> QED BY <2>1 DEF Channels
<1>3. IsFiniteSet(BuildSites(cpa) \X Channels)
  BY <1>2, SitesFinite, FS_Product
<1>4. IsFiniteSet(need)
  BY <1>1, <1>3, FS_Subset DEF Creatable
<1>5. ASSUME NEW c \in Channels PROVE cpa'[c] \in Seq(Fitting(c))
  <2> DEFINE S == {x \in need : x[2] = c}
             homeless == SetToSeq(S)
             made == [i \in DOMAIN homeless |-> NewProviderFor(cpa, homeless[i][1], c)]
  <2>1. IsFiniteSet(S)
    BY <1>4, FS_Subset
  <2>2. \A x \in S : NewProviderFor(cpa, x[1], c) \in Fitting(c)
    BY <1>1, CreatedFits DEF Creatable
  <2>3. cpa'[c] = cpa[c] \o made
    BY <1>1
  <2> HIDE DEF S
  <2>4. /\ homeless \in Seq(S) /\ DOMAIN homeless = 1..Len(homeless)
        /\ \A i \in DOMAIN homeless : homeless[i] \in S
    BY <2>1, SetListed
  <2>5. Len(homeless) \in Nat
    BY <2>4
  <2> HIDE DEF homeless
  <2>6. made \in [1..Len(homeless) -> Fitting(c)]
    BY <2>2, <2>4
  <2>7. made \in Seq(Fitting(c))
    BY <2>5, <2>6, SeqDef
  <2>8. cpa[c] \in Seq(Fitting(c))
    BY ListsFit
  <2> HIDE DEF made
  <2> QED BY <2>3, <2>7, <2>8, ConcatProperties
<1>6. cpa' = [c \in Channels |-> cpa'[c]]
  BY <1>1
<1> QED BY <1>5, <1>6, ListsFit

\* A deletion removes the entries of a site.
LEMMA DeleteFits ==
    ASSUME IsLists(cpa), NEW s \in BuildSites(cpa), NEW last \in Channels, DeleteSite(s, last)
    PROVE  IsLists(cpa')
<1>1. s \in Site /\ InLists(cpa, s)
  BY SitesAreGood DEF GoodSite
<1>2. ASSUME NEW c \in Channels PROVE cpa'[c] \in Seq(Fitting(c))
  <2>1. cpa[c] \in Seq(Fitting(c))
    BY ListsFit
  <2>2. CASE c > last \/ s.at[c] = 0
    BY <2>1, <2>2 DEF DeleteSite
  <2>3. CASE ~(c > last \/ s.at[c] = 0)
    <3>1. cpa'[c] = RemoveAt(cpa[c], s.at[c])
      BY <2>3 DEF DeleteSite
    <3>2. s.at[c] \in 1..Len(cpa[c])
      BY <1>1, <2>1, <2>3 DEF InLists, Site
    <3> QED BY <2>1, <3>1, <3>2, Removed
  <2> QED BY <2>2, <2>3
<1>3. cpa' = [c \in Channels |-> cpa'[c]]
  BY DEF DeleteSite
<1> QED BY <1>2, <1>3, ListsFit

\* A sweep keeps the entries that have a key.
LEMMA SweepFits ==
    ASSUME IsLists(cpa), SweepKeylessSites PROVE IsLists(cpa')
<1>1. PICK last \in Channels :
        cpa' = [c \in Channels |-> IF c > last THEN cpa[c] ELSE KeyedEntries(cpa[c])]
  BY DEF SweepKeylessSites
<1>2. ASSUME NEW c \in Channels PROVE cpa'[c] \in Seq(Fitting(c))
  <2>1. cpa[c] \in Seq(Fitting(c)) /\ KeyedEntries(cpa[c]) \in Seq(Fitting(c))
    BY ListsFit, KeyedFit
  <2> QED BY <1>1, <2>1
<1>3. cpa' = [c \in Channels |-> cpa'[c]]
  BY <1>1
<1> QED BY <1>2, <1>3, ListsFit

\* An entry more in one list.
LEMMA OneMore ==
    ASSUME NEW lists, IsLists(lists), NEW c \in Channels, NEW p \in Fitting(c)
    PROVE  IsLists([lists EXCEPT ![c] = Append(@, p)])
<1> DEFINE next == [lists EXCEPT ![c] = Append(@, p)]
<1>1. /\ lists = [d \in Channels |-> lists[d]]
      /\ \A d \in Channels : lists[d] \in Seq(Fitting(d))
  BY ListsFit
<1>2. next = [d \in Channels |-> IF d = c THEN Append(lists[c], p) ELSE lists[d]]
  BY <1>1
<1>3. Append(lists[c], p) \in Seq(Fitting(c))
  BY <1>1, AppendProperties
<1> HIDE DEF next
<1>4. \A d \in Channels : next[d] \in Seq(Fitting(d))
  BY <1>1, <1>2, <1>3
<1>5. next = [d \in Channels |-> next[d]]
  BY <1>2
<1>6. IsLists(next)
  BY <1>4, <1>5, ListsFit
<1> QED BY <1>6 DEF next

\* An egg is an entry of the openai list.
LEMMA EggFits ==
    ASSUME IsLists(cpa), Egg PROVE IsLists(cpa')
<1>1. PICK n \in Labels, h \in Hosts, k \in Keys : AddEgg(n, h, k)
  BY DEF Egg
<1> DEFINE p == [name |-> n, keys |-> <<k>>, url |-> [host |-> h, v1 |-> TRUE]]
<1>2. n \in Name /\ [host |-> h, v1 |-> TRUE] \in Url /\ <<k>> \in Seq(Keys)
  BY DEF Name, Url
<1>3. p \in Entry
  BY <1>2 DEF Entry
<1>4. cpa' = [cpa EXCEPT ![1] = Append(@, p)]
  BY <1>1 DEF AddEgg
<1> HIDE DEF p
<1>5. p \in Fitting(1) /\ 1 \in Channels
  BY <1>3 DEF Fitting, Fits, Channels
<1> QED BY <1>4, <1>5, OneMore

\* Others add an entry of a shape that fits, or remove one.
LEMMA EditFits ==
    ASSUME IsLists(cpa), ExternalEdit PROVE IsLists(cpa')
<1>1. PICK c \in Channels :
        \/ \E p \in Shapes[c] : cpa' = [cpa EXCEPT ![c] = Append(@, p)]
        \/ \E n \in DOMAIN cpa[c] : cpa' = [cpa EXCEPT ![c] = RemoveAt(@, n)]
  BY DEF ExternalEdit
<1>2. ASSUME NEW p \in Shapes[c], cpa' = [cpa EXCEPT ![c] = Append(@, p)]
      PROVE  IsLists(cpa')
  <2>1. p \in Fitting(c)
    BY SiteAssumption DEF Fitting, Fits
  <2> QED BY <1>2, <2>1, OneMore
<1>3. ASSUME NEW n \in DOMAIN cpa[c], cpa' = [cpa EXCEPT ![c] = RemoveAt(@, n)]
      PROVE  IsLists(cpa')
  <2>1. /\ cpa = [d \in Channels |-> cpa[d]]
        /\ \A d \in Channels : cpa[d] \in Seq(Fitting(d))
    BY ListsFit
  <2>2. n \in 1..Len(cpa[c])
    BY <2>1
  <2>3. RemoveAt(cpa[c], n) \in Seq(Fitting(c))
    BY <2>1, <2>2, Removed
  <2>4. cpa' = [d \in Channels |-> IF d = c THEN RemoveAt(cpa[c], n) ELSE cpa[d]]
    BY <1>3, <2>1
  <2>5. \A d \in Channels : cpa'[d] \in Seq(Fitting(d))
    BY <2>1, <2>3, <2>4
  <2>6. cpa' = [d \in Channels |-> cpa'[d]]
    BY <2>4
  <2> QED BY <2>5, <2>6, ListsFit
<1> QED BY <1>1, <1>2, <1>3

\* CPA is only ever sent entries of the form it keeps: whatever entry a new one
\* is copied from, it has a key, and no more keys than its list allows.
THEOREM TypeCorrect == Spec => []TypeOK
<1>1. Init => TypeOK
  <2> SUFFICES ASSUME Init PROVE TypeOK
    OBVIOUS
  <2>1. \A c \in Channels : cpa[c] = <<>>
    BY DEF Init
  <2>2. cpa \in [Channels -> Seq(Entry)]
    BY DEF Init
  <2> QED BY <2>1, <2>2 DEF TypeOK
<1>2. TypeOK /\ [Next]_cpa => TypeOK'
  <2> SUFFICES ASSUME IsLists(cpa), [Next]_cpa PROVE IsLists(cpa')
    BY DEF TypeOK, IsLists
  <2>1. CASE Save
    BY <2>1, SaveFits
  <2>2. CASE Delete
    BY <2>2, DeleteFits DEF Delete
  <2>3. CASE SweepKeylessSites
    BY <2>3, SweepFits
  <2>4. CASE Egg
    BY <2>4, EggFits
  <2>5. CASE ExternalEdit
    BY <2>5, EditFits
  <2>6. CASE UNCHANGED cpa
    BY <2>6 DEF IsLists
  <2> QED BY <2>1, <2>2, <2>3, <2>4, <2>5, <2>6 DEF Next
<1> QED BY <1>1, <1>2, PTL DEF Spec

\* A site never unites two accounts, whatever CPA's lists come to hold: every
\* entry it owns has no key, or the key the panel uses for the site, or one of
\* the site's openai entry.
THEOREM AccountsApart == Spec => []GroupsApart
<1>1. TypeOK => GroupsApart
  BY SitesApart DEF TypeOK, IsLists, GroupsApart
<1> QED BY <1>1, TypeCorrect, PTL

-----------------------------------------------------------------------------
\* The accounts of tidy lists.

LEMMA EntriesOf ==
    ASSUME NEW lists, IsLists(lists), NEW e \in Entries(lists)
    PROVE  /\ e = <<e[1], e[2]>> /\ e[1] \in Channels /\ e[2] \in 1..Len(lists[e[1]])
           /\ At(lists, e) \in Entry
           /\ e[1] # 1 => Len(At(lists, e).keys) <= 1
<1>1. PICK c \in Channels : e \in {c} \X DOMAIN lists[c]
  BY DEF Entries
<1>2. lists[c] \in Seq(Entry)
  BY DEF IsLists
<1>3. e = <<e[1], e[2]>> /\ e[1] = c /\ e[2] \in 1..Len(lists[c])
  BY <1>1, <1>2
<1> QED BY <1>3, ListEntry DEF At

\* Two entries are linked or not whichever of them comes first.
LEMMA LinkedBothWays ==
    ASSUME NEW lists, NEW e, NEW f, Linked(lists, e, f)
    PROVE  Linked(lists, f, e)
BY DEF Linked, Share

\* Entries that share a key are linked, and so are two that share one with a third.
LEMMA LinkedBy ==
    ASSUME NEW lists, NEW e \in Entries(lists), NEW f \in Entries(lists)
    PROVE  /\ Share(At(lists, e), At(lists, f)) => f \in Account(lists, e)
           /\ \A g \in Entries(lists) :
                Share(At(lists, e), At(lists, g)) /\ Share(At(lists, g), At(lists, f))
                    => f \in Account(lists, e)
BY DEF Account, Linked

\* The sites known so far are the accounts, as far as the entries read so far
\* show them.
Divided(lists, acc, done) ==
    /\ done \subseteq Entries(lists)
    /\ \A i \in DOMAIN acc.sites : \A e \in Owned(acc.sites[i]) :
            Owned(acc.sites[i]) = Account(lists, e) \cap done
    /\ \A i, j \in DOMAIN acc.sites :
            Owned(acc.sites[i]) \cap Owned(acc.sites[j]) # {} => i = j
    /\ \A e \in done : \E i \in DOMAIN acc.sites : e \in Owned(acc.sites[i])

\* A site has one founder, which holds a key of each of its entries; it is the
\* site's openai entry if there is one.
Headed(lists, acc) ==
    /\ \A i \in DOMAIN acc.sites :
            /\ acc.sites[i].key # NoKey
            /\ \E j \in DOMAIN acc.founders :
                    /\ acc.founders[j].site = i
                    /\ acc.sites[i].key \in ToSet(acc.founders[j].entry.keys)
    /\ \A j \in DOMAIN acc.founders :
            /\ \E f \in Owned(acc.sites[acc.founders[j].site]) :
                    At(lists, f) = acc.founders[j].entry
            /\ \A e \in Owned(acc.sites[acc.founders[j].site]) :
                    Share(At(lists, e), acc.founders[j].entry)
            /\ acc.founders[j].list # 1 => acc.sites[acc.founders[j].site].at[1] = 0
    /\ \A j, k \in DOMAIN acc.founders :
            acc.founders[j].site = acc.founders[k].site => j = k

Grouped(lists, acc, done) ==
    WalkInv(lists, acc) /\ Divided(lists, acc, done) /\ Headed(lists, acc)

OnlyKey(p, k) == ToSet(p.keys) = {k}

\* An entry that shares its only key with the founder of a site is linked to
\* the entries of that site, and to no other entry read so far.
LEMMA JoinsAccount ==
    ASSUME NEW lists, IsLists(lists), NEW acc, NEW done, Grouped(lists, acc, done),
           NEW j \in DOMAIN acc.founders, NEW e \in Entries(lists),
           NEW k, OnlyKey(At(lists, e), k),
           k \in ToSet(acc.founders[j].entry.keys)
    PROVE  \A y : y \in Owned(acc.sites[acc.founders[j].site])
                    <=> y \in Account(lists, e) /\ y \in done
<1> DEFINE i == acc.founders[j].site
           O == Owned(acc.sites[i])
<1>0. i \in DOMAIN acc.sites
  BY DEF Grouped, WalkInv
<1>1. PICK f \in O : At(lists, f) = acc.founders[j].entry
  BY DEF Grouped, Headed
<1>2. O = Account(lists, f) \cap done /\ O \subseteq Entries(lists)
  <2>1. O = Account(lists, f) \cap done /\ done \subseteq Entries(lists)
    BY <1>0, <1>1 DEF Grouped, Divided
  <2> QED BY <2>1
<1>3. Share(At(lists, e), At(lists, f)) /\ f \in Entries(lists)
  BY <1>1, <1>2 DEF Share, OnlyKey
<1>4. ASSUME NEW y \in O PROVE y \in Account(lists, e) \cap done
  <2>1. Share(At(lists, y), At(lists, f)) /\ y \in done /\ y \in Entries(lists)
    BY <1>0, <1>1, <1>2, <1>4 DEF Grouped, Headed
  <2>2. Share(At(lists, f), At(lists, y))
    BY <2>1 DEF Share, OnlyKey
  <2> QED BY <1>3, <2>1, <2>2, LinkedBy
<1>5. ASSUME NEW y \in done, y \in Account(lists, e) PROVE y \in O
  <2>1. y \in Entries(lists) /\ Linked(lists, e, y)
    BY <1>5 DEF Account
  <2>2. \A g : Share(At(lists, e), g) => Share(At(lists, f), g)
    BY <1>1 DEF Share, OnlyKey
  <2>3. Linked(lists, f, y)
    BY <2>1, <2>2 DEF Linked
  <2> QED BY <1>2, <1>5, <2>1, <2>3 DEF Account
<1> QED BY <1>4, <1>5

\* When all openai entries are read, an entry of another list linked to one read
\* before has its key from a founder.
LEMMA LinkedHasFounder ==
    ASSUME NEW lists, IsLists(lists), NEW acc, NEW done, Grouped(lists, acc, done),
           \A f \in Entries(lists) : f[1] = 1 => f \in done,
           NEW e \in Entries(lists), NEW k, OnlyKey(At(lists, e), k),
           NEW y \in done, y \in Account(lists, e)
    PROVE  \E j \in DOMAIN acc.founders : k \in ToSet(acc.founders[j].entry.keys)
<1>1. ASSUME NEW g \in done, k \in ToSet(At(lists, g).keys)
      PROVE  \E j \in DOMAIN acc.founders : k \in ToSet(acc.founders[j].entry.keys)
  <2>1. g \in Entries(lists)
    BY DEF Grouped, Divided
  <2>2. PICK i \in DOMAIN acc.sites : g \in Owned(acc.sites[i])
    BY DEF Grouped, Divided
  <2>3. PICK j \in DOMAIN acc.founders : acc.founders[j].site = i
    BY <2>2 DEF Grouped, Headed
  <2> DEFINE F == acc.founders[j]
  <2>4. Founds(lists, F, acc.sites[i]) /\ Share(At(lists, g), F.entry)
    BY <2>2, <2>3 DEF Grouped, WalkInv, Headed
  <2>5. CASE g[1] = 1
    <3>1. acc.sites[i].at[1] # 0 /\ g = <<1, acc.sites[i].at[1]>>
      BY <2>2, <2>5 DEF Owned
    <3>2. F.list = 1
      BY <2>3, <3>1 DEF Grouped, Headed
    <3>3. F.entry = At(lists, g)
      BY <2>4, <3>1, <3>2 DEF Founds, EntryOf, At
    <3> QED BY <1>1, <3>3
  <2>6. CASE g[1] # 1
    <3>1. At(lists, g) \in Entry /\ Len(At(lists, g).keys) <= 1
      BY <2>1, <2>6, EntriesOf
    <3>2. ToSet(At(lists, g).keys) = {k}
      BY <1>1, <3>1, KeysOf
    <3> QED BY <2>4, <3>2 DEF Share, OnlyKey
  <2> QED BY <2>5, <2>6
<1>2. y \in Entries(lists)
  BY DEF Account
<1>3. CASE Share(At(lists, e), At(lists, y))
  BY <1>1, <1>3 DEF Share, OnlyKey
<1>4. ASSUME NEW g \in Entries(lists),
             Share(At(lists, e), At(lists, g)), Share(At(lists, g), At(lists, y))
      PROVE  \E j \in DOMAIN acc.founders : k \in ToSet(acc.founders[j].entry.keys)
  <2>1. k \in ToSet(At(lists, g).keys)
    BY <1>4 DEF Share, OnlyKey
  <2>2. CASE g[1] = 1
    BY <1>1, <2>1, <2>2
  <2>3. CASE g[1] # 1
    <3>1. At(lists, g) \in Entry /\ Len(At(lists, g).keys) <= 1
      BY <2>3, EntriesOf
    <3>2. ToSet(At(lists, g).keys) = {k}
      BY <2>1, <3>1, KeysOf
    <3>3. k \in ToSet(At(lists, y).keys)
      BY <1>4, <3>2 DEF Share, OnlyKey
    <3> QED BY <1>1, <3>3
  <2> QED BY <2>2, <2>3
<1> QED BY <1>3, <1>4 DEF Account, Linked

Joined(acc, next, i, c, n) ==
    /\ next.founders = acc.founders /\ DOMAIN next.sites = DOMAIN acc.sites
    /\ \A q \in DOMAIN acc.sites : q # i => next.sites[q] = acc.sites[q]
    /\ next.sites[i].key = acc.sites[i].key /\ next.sites[i].at[c] = n
    /\ \A d \in Channels : d # c => next.sites[i].at[d] = acc.sites[i].at[d]

\* An entry that shares its key with a site's founder joins that site.
LEMMA JoinGroups ==
    ASSUME NEW lists, IsLists(lists), Tidy(lists),
           NEW acc, NEW done, Grouped(lists, acc, done),
           NEW c \in Channels, c # 1, NEW n \in 1..Len(lists[c]), <<c, n>> \notin done,
           NEW j \in DOMAIN acc.founders, NEW k, OnlyKey(lists[c][n], k),
           k \in ToSet(acc.founders[j].entry.keys),
           NEW i, i = acc.founders[j].site,
           NEW next, WalkInv(lists, next), Joined(acc, next, i, c, n)
    PROVE  Grouped(lists, next, done \cup {<<c, n>>})
<1> DEFINE e == <<c, n>>
           s == acc.sites[i]
           t == next.sites[i]
           O == Owned(s)
<1> USE DEF Joined
<1>1. /\ i \in DOMAIN acc.sites /\ done \subseteq Entries(lists)
      /\ \A q \in DOMAIN acc.sites : \A x \in Owned(acc.sites[q]) :
            Owned(acc.sites[q]) = Account(lists, x) \cap done
      /\ \A q, r \in DOMAIN acc.sites : Owned(acc.sites[q]) \cap Owned(acc.sites[r]) # {} => q = r
      /\ \A x \in done : \E q \in DOMAIN acc.sites : x \in Owned(acc.sites[q])
  BY DEF Grouped, WalkInv, Divided
<1>2. e \in Entries(lists) /\ At(lists, e) = lists[c][n] /\ n # 0 /\ 1 \in Channels
  <2>1. lists[c] \in Seq(Entry)
    BY DEF IsLists
  <2>2. e \in {c} \X DOMAIN lists[c]
    BY <2>1
  <2> QED BY <2>2, ListEntry DEF Entries, At
<1>3. e \in Account(lists, e)
  BY <1>2, LinkedBy DEF Share, OnlyKey
<1>4. Account(lists, e) \cap done = O
  <2> HIDE DEF e
  <2>1. OnlyKey(At(lists, e), k)
    BY <1>2
  <2>2. \A y : y \in Owned(acc.sites[acc.founders[j].site])
                <=> y \in Account(lists, e) /\ y \in done
    BY <1>2, <2>1, JoinsAccount
  <2> QED BY <2>2
<1>5. s.at[c] = 0
  <2> SUFFICES ASSUME s.at[c] # 0 PROVE FALSE
    OBVIOUS
  <2>1. <<c, s.at[c]>> \in O
    BY DEF Owned
  <2>2. <<c, s.at[c]>> = e
    BY <1>2, <1>3, <1>4, <2>1 DEF Tidy
  <2> QED BY <1>4, <2>1, <2>2
<1>6. Owned(t) = O \cup {e}
  <2>1. \A x : x \in Owned(t) <=> \E d \in Channels : t.at[d] # 0 /\ x = <<d, t.at[d]>>
    BY DEF Owned
  <2>2. \A x : x \in O <=> \E d \in Channels : s.at[d] # 0 /\ x = <<d, s.at[d]>>
    BY DEF Owned
  <2> HIDE DEF s, t, O
  <2>3. \A d \in Channels : d # c => t.at[d] = s.at[d]
    BY DEF s, t
  <2>4. t.at[c] = n
    BY DEF t
  <2>5. ASSUME NEW x \in Owned(t) PROVE x \in O \cup {e}
    <3>1. PICK d \in Channels : t.at[d] # 0 /\ x = <<d, t.at[d]>>
      BY <2>1, <2>5
    <3>2. CASE d = c
      BY <2>4, <3>1, <3>2
    <3>3. CASE d # c
      BY <2>2, <2>3, <3>1, <3>3
    <3> QED BY <3>2, <3>3
  <2>6. ASSUME NEW x \in O PROVE x \in Owned(t)
    <3>1. PICK d \in Channels : s.at[d] # 0 /\ x = <<d, s.at[d]>>
      BY <2>2, <2>6
    <3> QED BY <1>5, <2>1, <2>3, <3>1
  <2>7. e \in Owned(t)
    BY <1>2, <2>1, <2>4
  <2> QED BY <2>5, <2>6, <2>7
<1>7. \A q \in DOMAIN acc.sites : \A x \in Owned(acc.sites[q]) : x \in done
  <2> SUFFICES ASSUME NEW q \in DOMAIN acc.sites, NEW x \in Owned(acc.sites[q]) PROVE x \in done
    OBVIOUS
  <2>1. Owned(acc.sites[q]) = Account(lists, x) \cap done
    BY <1>1
  <2> QED BY <2>1
<1>8. \A q \in DOMAIN acc.sites :
        Owned(next.sites[q]) = IF q = i THEN O \cup {e} ELSE Owned(acc.sites[q])
  BY <1>6
<1> HIDE DEF e, s, t, O
<1>9. Divided(lists, next, done \cup {e})
  <2>1. ASSUME NEW q \in DOMAIN acc.sites, NEW x \in Owned(next.sites[q])
        PROVE  Owned(next.sites[q]) = Account(lists, x) \cap (done \cup {e})
    <3>1. CASE q = i /\ x = e
      BY <1>3, <1>4, <1>8, <3>1
    <3>2. CASE q = i /\ x # e
      <4>1. x \in O /\ x \in Account(lists, e)
        <5>1. x \in O
          BY <1>8, <2>1, <3>2
        <5> QED BY <1>4, <5>1
      <4>2. e \in Account(lists, x)
        BY <1>2, <4>1, LinkedBothWays DEF Account
      <4>3. O = Account(lists, x) \cap done
        BY <1>1, <4>1 DEF O, s
      <4> QED BY <1>8, <3>2, <4>2, <4>3
    <3>3. CASE q # i
      <4>1. x \in Owned(acc.sites[q]) /\ x \in done
        BY <1>7, <1>8, <2>1, <3>3
      <4>2. e \notin Account(lists, x)
        <5> SUFFICES ASSUME e \in Account(lists, x) PROVE FALSE
          OBVIOUS
        <5>1. x \in Account(lists, e)
          BY <1>1, <4>1, LinkedBothWays DEF Account
        <5>2. x \in O
          BY <1>4, <4>1, <5>1
        <5> QED BY <1>1, <3>3, <4>1, <5>2 DEF O, s
      <4>3. Owned(acc.sites[q]) = Account(lists, x) \cap done
        BY <1>1, <4>1
      <4> QED BY <1>8, <3>3, <4>2, <4>3
    <3> QED BY <3>1, <3>2, <3>3
  <2>2. ASSUME NEW q \in DOMAIN acc.sites, NEW r \in DOMAIN acc.sites,
               NEW x, x \in Owned(next.sites[q]), x \in Owned(next.sites[r])
        PROVE  q = r
    <3>1. e \notin done
      BY DEF e
    <3>2. x # e => x \in Owned(acc.sites[q]) /\ x \in Owned(acc.sites[r])
      BY <1>8, <2>2 DEF O, s
    <3>3. x = e => q = i /\ r = i
      BY <1>7, <1>8, <2>2, <3>1
    <3> QED BY <1>1, <3>2, <3>3
  <2>3. ASSUME NEW x \in done \cup {e} PROVE \E q \in DOMAIN acc.sites : x \in Owned(next.sites[q])
    <3>1. CASE x = e
      BY <1>1, <1>8, <3>1
    <3>2. CASE x \in done
      <4>1. PICK q \in DOMAIN acc.sites : x \in Owned(acc.sites[q])
        BY <1>1, <3>2
      <4>2. x \in Owned(next.sites[q])
        BY <1>8, <4>1 DEF O, s
      <4> QED BY <4>2
    <3> QED BY <2>3, <3>1, <3>2
  <2> QED BY <1>1, <1>2, <2>1, <2>2, <2>3 DEF Divided
<1>10. Headed(lists, next)
  <2> USE DEF Headed
  <2>1. Headed(lists, acc) /\ WalkInv(lists, acc)
    BY DEF Grouped
  <2>2. ASSUME NEW q \in DOMAIN next.sites
        PROVE  /\ next.sites[q].key # NoKey
               /\ \E m \in DOMAIN next.founders :
                    /\ next.founders[m].site = q
                    /\ next.sites[q].key \in ToSet(next.founders[m].entry.keys)
    <3>1. next.sites[q].key = acc.sites[q].key
      BY <2>2
    <3> QED BY <2>1, <2>2, <3>1
  <2>3. ASSUME NEW m \in DOMAIN next.founders
        PROVE  /\ \E f \in Owned(next.sites[next.founders[m].site]) :
                        At(lists, f) = next.founders[m].entry
               /\ \A x \in Owned(next.sites[next.founders[m].site]) :
                        Share(At(lists, x), next.founders[m].entry)
               /\ next.founders[m].list # 1 => next.sites[next.founders[m].site].at[1] = 0
    <3> DEFINE q == acc.founders[m].site
    <3>1. q \in DOMAIN acc.sites /\ m \in DOMAIN acc.founders
      BY <2>1, <2>3 DEF WalkInv
    <3>2. /\ \E f \in Owned(acc.sites[q]) : At(lists, f) = acc.founders[m].entry
          /\ \A x \in Owned(acc.sites[q]) : Share(At(lists, x), acc.founders[m].entry)
          /\ acc.founders[m].list # 1 => acc.sites[q].at[1] = 0
      BY <2>1, <3>1
    <3>3. q = i => m = j
      BY <2>1, <3>1
    <3>4. Share(At(lists, e), acc.founders[j].entry)
      BY <1>2 DEF Share, OnlyKey
    <3>5. next.sites[q].at[1] = acc.sites[q].at[1]
      BY <1>2, <3>1
    <3>6. Owned(next.sites[q]) = IF q = i THEN Owned(acc.sites[q]) \cup {e} ELSE Owned(acc.sites[q])
      BY <1>8, <3>1 DEF O, s
    <3> HIDE DEF q
    <3>7. next.founders[m] = acc.founders[m] /\ next.founders[m].site = q
      BY DEF q
    <3> QED BY <3>2, <3>3, <3>4, <3>5, <3>6, <3>7
  <2> QED BY <2>1, <2>2, <2>3
<1> QED BY <1>9, <1>10 DEF Grouped, e

\* An entry linked to none of those read so far founds a site.
LEMMA FoundGroups ==
    ASSUME NEW lists, IsLists(lists),
           NEW acc, NEW done, Grouped(lists, acc, done),
           NEW c \in Channels, NEW n \in 1..Len(lists[c]), <<c, n>> \notin done,
           lists[c][n].keys # <<>>,
           \A y \in done : y \notin Account(lists, <<c, n>>),
           NEW id, NEW name, Positions(acc, id) = {},
           WalkInv(lists, Add(acc, id, name, c, n, lists[c][n]))
    PROVE  Grouped(lists, Add(acc, id, name, c, n, lists[c][n]), done \cup {<<c, n>>})
<1> DEFINE e == <<c, n>>
           p == lists[c][n]
           t == [id |-> id, name |-> name, key |-> FirstKey(p),
                 at |-> [d \in Channels |-> IF d = c THEN n ELSE 0]]
           i == Len(acc.sites) + 1
           f == [site |-> i, list |-> c, entry |-> p]
           sites == Append(acc.sites, t)
           founders == Append(acc.founders, f)
           next == [sites |-> sites, founders |-> founders]
<1>0. /\ acc.sites \in Seq(Site) /\ acc.founders \in Seq(Founder)
      /\ Len(acc.sites) \in Nat /\ Len(acc.founders) \in Nat
      /\ DOMAIN acc.sites = 1..Len(acc.sites) /\ DOMAIN acc.founders = 1..Len(acc.founders)
      /\ \A j \in DOMAIN acc.founders : acc.founders[j].site \in DOMAIN acc.sites
  BY DEF Grouped, WalkInv, Acc
<1>1. p \in Entry /\ n \in Nat \ {0} /\ 1 \in Channels
  BY ListEntry
<1>2. next = Add(acc, id, name, c, n, p)
  <2>1. Len(sites) = i
    BY <1>0
  <2> QED BY <2>1 DEF Add
<1>3. FirstKey(p) # NoKey /\ FirstKey(p) \in ToSet(p.keys)
  BY <1>1, KeysOf
<1>4. t.key = FirstKey(p) /\ t.at[c] = n /\ \A d \in Channels : d # c => t.at[d] = 0
  OBVIOUS
<1>5. f.site = i /\ f.list = c /\ f.entry = p
  OBVIOUS
<1>6. e \in Entries(lists) /\ At(lists, e) = p
  <2>1. lists[c] \in Seq(Entry)
    BY DEF IsLists
  <2>2. e \in {c} \X DOMAIN lists[c]
    BY <2>1
  <2> QED BY <2>2 DEF Entries, At
<1> HIDE DEF t, f
<1>7. /\ DOMAIN sites = 1..i /\ sites[i] = t /\ i \in 1..i
      /\ \A q \in DOMAIN acc.sites : sites[q] = acc.sites[q] /\ q # i /\ q \in 1..i
      /\ \A q \in 1..i : q # i => q \in DOMAIN acc.sites
  BY <1>0
<1>8. /\ DOMAIN founders = 1..(Len(acc.founders) + 1)
      /\ founders[Len(acc.founders) + 1] = f
      /\ \A j \in DOMAIN acc.founders : founders[j] = acc.founders[j] /\ j \in DOMAIN founders
      /\ \A j \in DOMAIN founders : j \notin DOMAIN acc.founders => j = Len(acc.founders) + 1
  BY <1>0
<1>9. Owned(t) = {e}
  <2>1. \A x : x \in Owned(t) <=> \E d \in Channels : t.at[d] # 0 /\ x = <<d, t.at[d]>>
    BY DEF Owned
  <2>2. ASSUME NEW x \in Owned(t) PROVE x = e
    <3>1. PICK d \in Channels : t.at[d] # 0 /\ x = <<d, t.at[d]>>
      BY <2>1, <2>2
    <3> QED BY <1>4, <3>1
  <2>3. e \in Owned(t)
    BY <1>1, <1>4, <2>1
  <2> QED BY <2>2, <2>3
<1> HIDE DEF e, p
<1>10. e \in Account(lists, e) /\ Share(p, p)
  <2>1. Share(p, p)
    BY <1>3 DEF Share
  <2> QED BY <1>6, <2>1, LinkedBy
<1>11. next.sites = sites /\ next.founders = founders
  OBVIOUS
<1> HIDE DEF next, sites, founders, i
<1>12. /\ done \subseteq Entries(lists)
       /\ \A q \in DOMAIN acc.sites : \A x \in Owned(acc.sites[q]) :
            Owned(acc.sites[q]) = Account(lists, x) \cap done
       /\ \A q, r \in DOMAIN acc.sites : Owned(acc.sites[q]) \cap Owned(acc.sites[r]) # {} => q = r
       /\ \A x \in done : \E q \in DOMAIN acc.sites : x \in Owned(acc.sites[q])
  BY DEF Grouped, Divided
<1>13. ASSUME NEW q \in DOMAIN acc.sites, NEW x \in Owned(acc.sites[q]) PROVE x \in done
  <2>1. Owned(acc.sites[q]) = Account(lists, x) \cap done
    BY <1>12
  <2> QED BY <2>1
<1>14. e \notin done /\ \A y \in done : y \notin Account(lists, e)
  BY DEF e
<1>15. Divided(lists, next, done \cup {e})
  <2>1. ASSUME NEW q \in 1..i, NEW x \in Owned(sites[q])
        PROVE  Owned(sites[q]) = Account(lists, x) \cap (done \cup {e})
    <3>1. CASE q = i
      <4>1. x = e /\ Owned(sites[q]) = {e}
        BY <1>7, <1>9, <2>1, <3>1
      <4> QED BY <1>10, <1>14, <4>1
    <3>2. CASE q # i
      <4>1. q \in DOMAIN acc.sites /\ sites[q] = acc.sites[q] /\ x \in Owned(acc.sites[q])
        BY <1>7, <2>1, <3>2
      <4>2. e \notin Account(lists, x)
        <5> SUFFICES ASSUME e \in Account(lists, x) PROVE FALSE
          OBVIOUS
        <5>1. x \in done
          BY <1>13, <4>1
        <5>2. x \in Account(lists, e)
          BY <1>12, <5>1, LinkedBothWays DEF Account
        <5> QED BY <1>14, <5>1, <5>2
      <4>3. Owned(acc.sites[q]) = Account(lists, x) \cap done
        BY <1>12, <4>1
      <4> QED BY <4>1, <4>2, <4>3
    <3> QED BY <3>1, <3>2
  <2>2. ASSUME NEW q \in 1..i, NEW r \in 1..i,
               NEW x, x \in Owned(sites[q]), x \in Owned(sites[r])
        PROVE  q = r
    <3>1. CASE x = e
      <4>1. q = i /\ r = i
        BY <1>7, <1>13, <1>14, <2>2, <3>1
      <4> QED BY <4>1
    <3>2. CASE x # e
      <4>1. q # i /\ r # i
        BY <1>7, <1>9, <2>2, <3>2
      <4>2. q \in DOMAIN acc.sites /\ r \in DOMAIN acc.sites
        BY <1>7, <4>1
      <4>3. x \in Owned(acc.sites[q]) /\ x \in Owned(acc.sites[r])
        BY <1>7, <2>2, <4>2
      <4> QED BY <1>12, <4>2, <4>3
    <3> QED BY <3>1, <3>2
  <2>3. ASSUME NEW x \in done \cup {e} PROVE \E q \in 1..i : x \in Owned(sites[q])
    <3>1. CASE x = e
      BY <1>7, <1>9, <3>1
    <3>2. CASE x \in done
      <4>1. PICK q \in DOMAIN acc.sites : x \in Owned(acc.sites[q])
        BY <1>12, <3>2
      <4>2. x \in Owned(sites[q]) /\ q \in 1..i
        BY <1>7, <4>1
      <4> QED BY <4>2
    <3> QED BY <2>3, <3>1, <3>2
  <2> QED BY <1>6, <1>7, <1>11, <1>12, <2>1, <2>2, <2>3 DEF Divided
<1>16. Headed(lists, next)
  <2>1. /\ \A q \in DOMAIN acc.sites :
            /\ acc.sites[q].key # NoKey
            /\ \E j \in DOMAIN acc.founders :
                    /\ acc.founders[j].site = q
                    /\ acc.sites[q].key \in ToSet(acc.founders[j].entry.keys)
        /\ \A j \in DOMAIN acc.founders :
            /\ \E g \in Owned(acc.sites[acc.founders[j].site]) :
                    At(lists, g) = acc.founders[j].entry
            /\ \A x \in Owned(acc.sites[acc.founders[j].site]) :
                    Share(At(lists, x), acc.founders[j].entry)
            /\ acc.founders[j].list # 1 => acc.sites[acc.founders[j].site].at[1] = 0
        /\ \A j, k \in DOMAIN acc.founders :
            acc.founders[j].site = acc.founders[k].site => j = k
    BY DEF Grouped, Headed
  <2>2. ASSUME NEW q \in 1..i
        PROVE  /\ sites[q].key # NoKey
               /\ \E j \in DOMAIN founders :
                    /\ founders[j].site = q
                    /\ sites[q].key \in ToSet(founders[j].entry.keys)
    <3>1. CASE q = i
      <4>1. Len(acc.founders) + 1 \in DOMAIN founders
        BY <1>0, <1>8
      <4> QED BY <1>3, <1>4, <1>5, <1>7, <1>8, <3>1, <4>1
    <3>2. CASE q # i
      <4>1. q \in DOMAIN acc.sites /\ sites[q] = acc.sites[q]
        BY <1>7, <3>2
      <4> QED BY <1>8, <2>1, <4>1
    <3> QED BY <3>1, <3>2
  <2>3. ASSUME NEW j \in DOMAIN founders
        PROVE  /\ \E g \in Owned(sites[founders[j].site]) : At(lists, g) = founders[j].entry
               /\ \A x \in Owned(sites[founders[j].site]) :
                        Share(At(lists, x), founders[j].entry)
               /\ founders[j].list # 1 => sites[founders[j].site].at[1] = 0
    <3>1. CASE j \in DOMAIN acc.founders
      <4>1. founders[j] = acc.founders[j] /\ sites[acc.founders[j].site] = acc.sites[acc.founders[j].site]
        BY <1>0, <1>7, <1>8, <3>1
      <4> QED BY <2>1, <3>1, <4>1
    <3>2. CASE j \notin DOMAIN acc.founders
      <4>1. founders[j] = f /\ sites[founders[j].site] = t
        BY <1>5, <1>7, <1>8, <3>2
      <4> QED BY <1>1, <1>4, <1>5, <1>6, <1>9, <1>10, <4>1
    <3> QED BY <3>1, <3>2
  <2>4. ASSUME NEW j \in DOMAIN founders, NEW k \in DOMAIN founders,
               founders[j].site = founders[k].site
        PROVE  j = k
    <3>1. \A l \in DOMAIN founders :
            l \in DOMAIN acc.founders <=> founders[l].site # i
      BY <1>0, <1>5, <1>7, <1>8
    <3> QED BY <1>8, <2>1, <2>4, <3>1
  <2> QED BY <1>7, <1>11, <2>2, <2>3, <2>4 DEF Headed
<1> QED BY <1>2, <1>15, <1>16 DEF Grouped, e, p

\* The key of a founder leads to it.
LEMMA FounderResolves ==
    ASSUME NEW lists, Tidy(lists), NEW acc, NEW done, Grouped(lists, acc, done),
           NEW p \in Entry, NEW k, OnlyKey(p, k),
           NEW j \in DOMAIN acc.founders, k \in ToSet(acc.founders[j].entry.keys)
    PROVE  Resolve(acc, p) # {}
<1> DEFINE F(q) == acc.founders[q]
           known == {n \in DOMAIN p.keys : Sole(ByKey(acc, p.keys[n]))}
<1>1. PICK m \in DOMAIN F(j).entry.keys : F(j).entry.keys[m] = k
  BY DEF ToSet
<1>2. ASSUME NEW q \in DOMAIN acc.founders
      PROVE  /\ F(q).site \in DOMAIN acc.sites
             /\ \E f \in Owned(acc.sites[F(q).site]) : At(lists, f) = F(q).entry
  BY DEF Grouped, WalkInv, Headed
<1>3. PICK f \in Owned(acc.sites[F(j).site]) : At(lists, f) = F(j).entry
  BY <1>2
<1>4. /\ Owned(acc.sites[F(j).site]) = Account(lists, f) \cap done
      /\ done \subseteq Entries(lists) /\ f \in Entries(lists)
  <2>1. Owned(acc.sites[F(j).site]) = Account(lists, f) \cap done /\ done \subseteq Entries(lists)
    BY <1>2, <1>3 DEF Grouped, Divided
  <2> QED BY <1>3, <2>1
<1>5. ASSUME NEW q \in DOMAIN acc.founders, k \in ToSet(F(q).entry.keys) PROVE q = j
  <2>1. PICK g \in Owned(acc.sites[F(q).site]) : At(lists, g) = F(q).entry
    BY <1>2
  <2>2. g \in done /\ g \in Entries(lists)
    <3>1. Owned(acc.sites[F(q).site]) = Account(lists, g) \cap done
      BY <1>2, <2>1 DEF Grouped, Divided
    <3> QED BY <1>4, <2>1, <3>1
  <2>3. Share(At(lists, f), At(lists, g))
    BY <1>3, <1>5, <2>1 DEF Share
  <2>4. g \in Owned(acc.sites[F(j).site])
    BY <1>4, <2>2, <2>3, LinkedBy
  <2>5. F(q).site = F(j).site
    BY <1>2, <2>1, <2>4 DEF Grouped, Divided
  <2> QED BY <2>5 DEF Grouped, Headed
<1>6. ByKey(acc, k) = {<<j, m>>}
  <2>1. ASSUME NEW x \in ByKey(acc, k) PROVE x = <<j, m>>
    <3>1. PICK q \in DOMAIN acc.founders :
            x \in {<<q, l>> : l \in {l \in DOMAIN F(q).entry.keys : F(q).entry.keys[l] = k}}
      BY <2>1 DEF ByKey
    <3>2. PICK l \in DOMAIN F(q).entry.keys : F(q).entry.keys[l] = k /\ x = <<q, l>>
      BY <3>1
    <3>3. q = j
      BY <1>5, <3>2 DEF ToSet
    <3>4. IsInjective(F(j).entry.keys)
      BY <1>3, <1>4 DEF Tidy
    <3>5. l = m
      BY <1>1, <3>2, <3>3, <3>4 DEF IsInjective
    <3> QED BY <3>2, <3>3, <3>5
  <2>2. <<j, m>> \in ByKey(acc, k)
    BY <1>1 DEF ByKey
  <2> QED BY <2>1, <2>2
<1>7. Sole(ByKey(acc, k))
  BY <1>6, FS_Singleton DEF Sole
<1>8. known # {}
  <2>1. PICK n \in DOMAIN p.keys : p.keys[n] = k
    BY DEF OnlyKey, ToSet
  <2> QED BY <1>7, <2>1
<1> DEFINE i == F(The(ByKey(acc, p.keys[Least(known)]))[1]).site
<1>9. Resolve(acc, p) = {i}
  BY <1>8 DEF Resolve
<1> QED BY <1>9

\* The site an entry resolves to has a founder that holds the entry's key.
LEMMA ResolvedFounder ==
    ASSUME NEW lists, NEW acc, NEW done, Grouped(lists, acc, done),
           NEW p \in Entry, p.keys # <<>>, NEW k, OnlyKey(p, k), NEW i \in Resolve(acc, p)
    PROVE  \E j \in DOMAIN acc.founders :
                acc.founders[j].site = i /\ k \in ToSet(acc.founders[j].entry.keys)
<1>1. acc \in Acc
  BY DEF Grouped, WalkInv
<1>2. PICK j \in DOMAIN acc.founders : Leads(acc, p, i, j)
  BY <1>1, ResolveLeads
<1>3. CASE \E l \in ToSet(p.keys) : l \in ToSet(acc.founders[j].entry.keys)
  BY <1>2, <1>3 DEF Leads, OnlyKey
<1>4. CASE KeysAgree(acc.sites[i], p)
  <2>1. i \in DOMAIN acc.sites
    BY <1>2 DEF Leads, Grouped, WalkInv
  <2>2. acc.sites[i].key # NoKey
    BY <2>1 DEF Grouped, Headed
  <2>3. acc.sites[i].key = k
    BY <1>4, <2>2 DEF KeysAgree, OnlyKey
  <2> QED BY <2>1, <2>3 DEF Grouped, Headed
<1> QED BY <1>2, <1>3, <1>4 DEF Leads

\* The entries read before the n-th of list c, and that one.
Done(lists, c, n) == {e \in Entries(lists) : e[1] < c \/ (e[1] = c /\ e[2] <= n)}

\* The next entry of tidy lists goes where its account is.
LEMMA PlaceGroups ==
    ASSUME NEW lists, IsLists(lists), Tidy(lists), NEW acc,
           NEW c \in Channels, NEW n \in 1..Len(lists[c]),
           Grouped(lists, acc, Done(lists, c, n - 1)), c = 1 => NoHosts(acc)
    PROVE  Grouped(lists, Place(acc, c, n, lists[c][n]), Done(lists, c, n))
<1> DEFINE p == lists[c][n]
           e == <<c, n>>
           done == Done(lists, c, n - 1)
           next == Place(acc, c, n, p)
           joined == Resolve(acc, p)
<1>0. /\ WalkInv(lists, acc) /\ acc \in Acc /\ acc.sites \in Seq(Site)
      /\ WalkInv(lists, next)
  <2>1. WalkInv(lists, acc)
    BY DEF Grouped
  <2>2. acc \in Acc /\ acc.sites \in Seq(Site)
    BY <2>1 DEF WalkInv, Acc
  <2> QED BY <2>1, <2>2, PlaceInv
<1>1. p \in Entry /\ n \in Nat \ {0} /\ 1 \in Channels /\ (c # 1 => Len(p.keys) <= 1)
  BY ListEntry
<1>2. e \in Entries(lists) /\ At(lists, e) = p
  <2>1. lists[c] \in Seq(Entry)
    BY DEF IsLists
  <2>2. e \in {c} \X DOMAIN lists[c]
    BY <2>1
  <2> QED BY <2>2 DEF Entries, At
<1>3. Done(lists, c, n) = done \cup {e} /\ e \notin done
  <2>1. ASSUME NEW x \in Entries(lists)
        PROVE  x \in Done(lists, c, n) <=> x \in done \/ x = e
    <3>1. x = <<x[1], x[2]>> /\ x[2] \in Nat
      BY EntriesOf
    <3> QED BY <1>1, <3>1 DEF Done
  <2>2. e \notin done
    BY <1>1 DEF Done, Channels
  <2>3. \A x : x \in Done(lists, c, n) \/ x \in done => x \in Entries(lists)
    BY DEF Done
  <2> QED BY <1>2, <2>1, <2>2, <2>3
<1>4. p.keys # <<>>
  BY <1>2 DEF Tidy, Keyed
<1>5. e \in Account(lists, e)
  <2>1. Share(p, p)
    BY <1>1, <1>4, KeysOf DEF Share
  <2> QED BY <1>2, <2>1, LinkedBy
<1>6. CASE c = 1
  <2> DEFINE id == NameId(acc, p)
             name == NameOf(p)
  <2>1. next = Add(acc, id, name, c, n, p)
    BY <1>6 DEF Place
  <2>2. Positions(acc, id) = {}
    BY <1>0, <1>1, NameFree
  <2>3. ASSUME NEW y \in done PROVE y \notin Account(lists, e)
    <3>1. y[1] = 1
      <4>1. y \in Entries(lists) /\ (y[1] < 1 \/ y[1] = 1)
        BY <1>6, <2>3 DEF Done
      <4>2. y[1] \in 1..3
        BY <4>1, EntriesOf DEF Channels
      <4> QED BY <4>1, <4>2
    <3> QED BY <1>2, <1>3, <1>5, <1>6, <2>3, <3>1 DEF Tidy
  <2> HIDE DEF next, done, id, name
  <2>4. WalkInv(lists, Add(acc, id, name, c, n, p))
    BY <1>0, <2>1
  <2>5. Grouped(lists, Add(acc, id, name, c, n, p), done \cup {<<c, n>>})
    <3>1. Grouped(lists, acc, done)
      BY DEF done
    <3> QED BY <1>3, <1>4, <2>2, <2>3, <2>4, <3>1, FoundGroups
  <2> QED BY <1>3, <2>1, <2>5 DEF next
<1>7. CASE c # 1
  <2> DEFINE k == FirstKey(p)
  <2>1. OnlyKey(p, k) /\ k # NoKey
    BY <1>1, <1>4, <1>7, KeysOf DEF OnlyKey
  <2> HIDE DEF k
  <2>2. Grouped(lists, acc, done)
    OBVIOUS
  <2> HIDE DEF done
  <2>3. CASE joined # {}
    <3> DEFINE i == The(joined)
    <3>1. i \in Resolve(acc, p)
      <4> HIDE DEF joined
      <4>1. i \in joined
        BY <2>3, OneOf
      <4> QED BY <4>1 DEF joined
    <3>2. next = [acc EXCEPT !.sites[i].at[c] = n]
      BY <1>7, <2>3 DEF Place
    <3> HIDE DEF i
    <3>3. PICK j \in DOMAIN acc.founders :
                acc.founders[j].site = i /\ k \in ToSet(acc.founders[j].entry.keys)
      BY <1>1, <1>4, <2>1, <2>2, <3>1, ResolvedFounder
    <3>4. i \in DOMAIN acc.sites /\ acc.sites[i] \in Site
      BY <1>0, <3>3 DEF WalkInv
    <3>5. Joined(acc, next, i, c, n)
      BY <1>0, <3>2, <3>4 DEF Acc, Site, Joined
    <3> HIDE DEF next, p
    <3>6. OnlyKey(lists[c][n], k) /\ <<c, n>> \notin done
      BY <1>3, <2>1 DEF p
    <3>7. Grouped(lists, next, done \cup {<<c, n>>})
      BY <1>0, <1>7, <2>2, <3>3, <3>5, <3>6, JoinGroups
    <3> QED BY <1>3, <3>7 DEF next, p
  <2>4. CASE joined = {}
    <3> DEFINE id == HostId(acc, p)
               name == NameOf(p)
    <3>1. next = Add(acc, id, name, c, n, p)
      BY <1>7, <2>4 DEF Place
    <3>2. \A j \in DOMAIN acc.founders : k \notin ToSet(acc.founders[j].entry.keys)
      BY <1>1, <2>1, <2>2, <2>4, FounderResolves
    <3>3. Positions(acc, id) = {}
      <4> SUFFICES ASSUME Positions(acc, id) # {} PROVE FALSE
        OBVIOUS
      <4> DEFINE i == The(Positions(acc, id))
      <4>1. /\ i \in DOMAIN acc.sites
            /\ acc.sites[i].key = NoKey \/ p.keys = <<>> \/ acc.sites[i].key \in ToSet(p.keys)
                 \/ acc.sites[i].key = FirstKey(p)
        BY <1>0, <1>1, HostTaken
      <4> HIDE DEF i
      <4>2. acc.sites[i].key # NoKey
        BY <2>2, <4>1 DEF Grouped, Headed
      <4>3. acc.sites[i].key = k
        BY <1>4, <2>1, <4>1, <4>2 DEF OnlyKey, k
      <4> QED BY <2>2, <3>2, <4>1, <4>3 DEF Grouped, Headed
    <3>4. \A f \in Entries(lists) : f[1] = 1 => f \in done
      BY <1>7 DEF Done, done, Channels
    <3>5. ASSUME NEW y \in done PROVE y \notin Account(lists, e)
      <4> HIDE DEF e
      <4>1. OnlyKey(At(lists, e), k)
        BY <1>2, <2>1
      <4> QED BY <1>2, <2>2, <3>2, <3>4, <4>1, LinkedHasFounder
    <3> HIDE DEF next, id, name
    <3>6. WalkInv(lists, Add(acc, id, name, c, n, p))
      BY <1>0, <3>1
    <3>7. Grouped(lists, Add(acc, id, name, c, n, p), done \cup {<<c, n>>})
      BY <1>3, <1>4, <2>2, <3>3, <3>5, <3>6, FoundGroups
    <3> QED BY <1>3, <3>1, <3>7 DEF next
  <2> QED BY <2>3, <2>4
<1> QED BY <1>6, <1>7

\* So do all the entries of a tidy list.
LEMMA WalkGroups ==
    ASSUME NEW lists, IsLists(lists), Tidy(lists), NEW before, NEW c \in Channels,
           Grouped(lists, before, Done(lists, c, 0)), c = 1 => NoHosts(before)
    PROVE  Grouped(lists, WalkList(before, c, lists[c]), Done(lists, c, Len(lists[c])))
<1> DEFINE L == Len(lists[c])
<1>1. L \in Nat
  BY DEF IsLists
<1>2. PICK known : /\ Steps(before, c, lists[c], known, L)
                   /\ WalkList(before, c, lists[c]) = known[L]
  BY <1>1, WalkSteps
<1> HIDE DEF L
<1> DEFINE Good(acc, n) == Grouped(lists, acc, Done(lists, c, n)) /\ (c = 1 => NoHosts(acc))
           A == {n \in Nat : n <= L => Good(known[n], n)}
<1>3. 0 \in A
  <2>1. known[0] = before
    BY <1>1, <1>2 DEF Steps
  <2> QED BY <2>1
<1>4. ASSUME NEW n \in Nat, n \in A PROVE n + 1 \in A
  <2> SUFFICES ASSUME n + 1 <= L PROVE Good(known[n + 1], n + 1)
    OBVIOUS
  <2> DEFINE m == n + 1
  <2>1. m \in 1..L /\ m \in 0..L /\ m # 0 /\ m - 1 = n
    BY <1>1
  <2>2. Good(known[n], n)
    BY <1>1, <1>4
  <2>3. known[m] = Place(known[n], c, m, lists[c][m])
    <3>1. known[m] = Place(known[m - 1], c, m, lists[c][m])
      BY <1>2, <2>1 DEF Steps
    <3> QED BY <2>1, <3>1
  <2> HIDE DEF m
  <2>4. m \in 1..Len(lists[c]) /\ Grouped(lists, known[n], Done(lists, c, m - 1))
    BY <2>1, <2>2 DEF L
  <2>5. Grouped(lists, known[m], Done(lists, c, m))
    BY <2>2, <2>3, <2>4, PlaceGroups
  <2>6. c = 1 => NoHosts(known[m])
    <3>1. WalkInv(lists, known[n])
      BY <2>2 DEF Grouped
    <3> QED BY <2>2, <2>3, <2>4, <3>1, PlaceInv
  <2> QED BY <2>5, <2>6 DEF m
<1>5. L \in A
  <2> HIDE DEF A
  <2> QED BY <1>1, <1>3, <1>4, Inductive
<1> QED BY <1>1, <1>2, <1>5 DEF L

\* What is known at the end of tidy lists.
LEMMA TidyWalked ==
    ASSUME NEW lists, IsLists(lists), Tidy(lists)
    PROVE  \E acc : /\ Grouped(lists, acc, Entries(lists))
                    /\ BuildSites(lists) = {acc.sites[i] : i \in DOMAIN acc.sites}
<1> DEFINE openai == WalkList(Start, 1, lists[1])
           codex  == WalkList(openai, 2, lists[2])
           claude == WalkList(codex, 3, lists[3])
           End(c) == Done(lists, c, Len(lists[c]))
<1>1. 1 \in Channels /\ 2 \in Channels /\ 3 \in Channels
  BY DEF Channels
<1>2. /\ Done(lists, 1, 0) = {} /\ End(1) = Done(lists, 2, 0)
      /\ End(2) = Done(lists, 3, 0) /\ End(3) = Entries(lists)
  <2>1. ASSUME NEW e \in Entries(lists)
        PROVE  /\ e[1] \in {1, 2, 3} /\ e[2] \in Nat /\ e[2] > 0 /\ e[2] <= Len(lists[e[1]])
               /\ Len(lists[e[1]]) \in Nat
    <3>1. e[1] \in Channels /\ e[2] \in 1..Len(lists[e[1]])
      BY EntriesOf
    <3>2. lists[e[1]] \in Seq(Entry)
      BY <3>1 DEF IsLists
    <3> QED BY <3>1, <3>2 DEF Channels
  <2> QED BY <2>1 DEF Done
<1>3. Grouped(lists, Start, Done(lists, 1, 0)) /\ NoHosts(Start)
  <2>1. Start.sites = <<>> /\ Start.founders = <<>>
    BY DEF Start
  <2> QED BY <1>2, <2>1, StartInv DEF Grouped, Divided, Headed
<1> HIDE DEF End
<1>4. Grouped(lists, openai, Done(lists, 2, 0))
  BY <1>1, <1>2, <1>3, WalkGroups DEF End
<1>5. Grouped(lists, codex, Done(lists, 3, 0))
  <2> HIDE DEF openai
  <2> QED BY <1>1, <1>2, <1>4, WalkGroups DEF End
<1>6. Grouped(lists, claude, Entries(lists))
  <2> HIDE DEF codex
  <2> QED BY <1>1, <1>2, <1>5, WalkGroups DEF End
<1>7. BuildSites(lists) = {claude.sites[i] : i \in DOMAIN claude.sites}
  <2>1. BuildSites(lists) = {claude.sites[i] : i \in {i \in DOMAIN claude.sites : claude.sites[i].key # NoKey}}
    BY DEF BuildSites
  <2>2. \A i \in DOMAIN claude.sites : claude.sites[i].key # NoKey
    BY <1>6 DEF Grouped, Headed
  <2> QED BY <2>1, <2>2
<1> QED BY <1>6, <1>7

\* A site of tidy lists has the entries of the account of each of its entries,
\* and each entry is of a site.
LEMMA TidySites ==
    ASSUME NEW lists, IsLists(lists), Tidy(lists)
    PROVE  /\ \A s \in BuildSites(lists) :
                /\ Owned(s) # {}
                /\ \A e \in Owned(s) : e \in Entries(lists) /\ Owned(s) = Account(lists, e)
           /\ \A e \in Entries(lists) : \E s \in BuildSites(lists) : e \in Owned(s)
<1>1. PICK acc : /\ Grouped(lists, acc, Entries(lists))
                 /\ BuildSites(lists) = {acc.sites[i] : i \in DOMAIN acc.sites}
  BY TidyWalked
<1>2. ASSUME NEW s \in BuildSites(lists), NEW e \in Owned(s)
      PROVE  e \in Entries(lists) /\ Owned(s) = Account(lists, e)
  <2>1. PICK i \in DOMAIN acc.sites : s = acc.sites[i]
    BY <1>1
  <2>2. Owned(s) = Account(lists, e) \cap Entries(lists)
    BY <1>1, <1>2, <2>1 DEF Grouped, Divided
  <2>3. Account(lists, e) \subseteq Entries(lists)
    BY DEF Account
  <2> QED BY <1>2, <2>2, <2>3
<1>3. ASSUME NEW s \in BuildSites(lists) PROVE Owned(s) # {}
  <2>1. InLists(lists, s)
    BY SitesAreGood DEF GoodSite
  <2> QED BY <2>1 DEF InLists, Owned
<1>4. ASSUME NEW e \in Entries(lists) PROVE \E s \in BuildSites(lists) : e \in Owned(s)
  <2>1. PICK i \in DOMAIN acc.sites : e \in Owned(acc.sites[i])
    BY <1>1 DEF Grouped, Divided
  <2> QED BY <1>1, <2>1
<1> QED BY <1>2, <1>3, <1>4

\* In tidy lists of any length the sites are exactly the accounts: neither the
\* order in which the entries are read nor the fall-backs to address and host
\* split one or lose an entry.
THEOREM SitesAreAccounts == Spec => []GroupsAreAccounts
<1>1. TypeOK => GroupsAreAccounts
  <2> SUFFICES ASSUME IsLists(cpa), Tidy(cpa)
               PROVE  {Owned(s) : s \in BuildSites(cpa)} = {Account(cpa, e) : e \in Entries(cpa)}
    BY DEF TypeOK, IsLists, GroupsAreAccounts
  <2>1. ASSUME NEW s \in BuildSites(cpa) PROVE \E e \in Entries(cpa) : Owned(s) = Account(cpa, e)
    <3>1. PICK e : e \in Owned(s)
      BY TidySites
    <3> QED BY <3>1, TidySites
  <2>2. ASSUME NEW e \in Entries(cpa) PROVE \E s \in BuildSites(cpa) : Account(cpa, e) = Owned(s)
    <3>1. PICK s \in BuildSites(cpa) : e \in Owned(s)
      BY TidySites
    <3> QED BY <3>1, TidySites
  <2> QED BY <2>1, <2>2
<1> QED BY <1>1, TypeCorrect, PTL

-----------------------------------------------------------------------------
\* A deletion.

\* The sites of tidy lists have no entry in common.
LEMMA TidyApart ==
    ASSUME NEW lists, IsLists(lists), Tidy(lists),
           NEW s \in BuildSites(lists), NEW t \in BuildSites(lists),
           NEW e, e \in Owned(s), e \in Owned(t)
    PROVE  s = t
<1>1. PICK acc : /\ Grouped(lists, acc, Entries(lists))
                 /\ BuildSites(lists) = {acc.sites[i] : i \in DOMAIN acc.sites}
  BY TidyWalked
<1>2. PICK i \in DOMAIN acc.sites : s = acc.sites[i]
  BY <1>1
<1>3. PICK j \in DOMAIN acc.sites : t = acc.sites[j]
  BY <1>1
<1>4. Owned(acc.sites[i]) \cap Owned(acc.sites[j]) # {}
  BY <1>2, <1>3
<1> QED BY <1>1, <1>2, <1>3, <1>4 DEF Grouped, Divided

\* Where in a list the n-th entry was before the m-th was removed.
Back(m, n) == IF n < m THEN n ELSE n + 1

\* A list without its m-th entry.
LEMMA LeftIn ==
    ASSUME NEW S, NEW list \in Seq(S), NEW m \in 1..Len(list)
    PROVE  /\ DOMAIN RemoveAt(list, m) = 1..(Len(list) - 1)
           /\ \A n \in 1..(Len(list) - 1) :
                /\ Back(m, n) \in DOMAIN list /\ Back(m, n) # m
                /\ list[Back(m, n)] = RemoveAt(list, m)[n]
<1> DEFINE a == SubSeq(list, 1, m - 1)
           b == SubSeq(list, m + 1, Len(list))
<1>1. Len(list) \in Nat /\ m \in Int /\ 1 <= m /\ m <= Len(list) /\ DOMAIN list = 1..Len(list)
  OBVIOUS
<1>2. /\ a \in Seq(S) /\ Len(a) = m - 1
      /\ \A i \in 1..(m - 1) : a[i] = list[i]
  <2>1. \A i \in 1..(m - 1) : list[i] \in S
    BY <1>1
  <2>2. /\ a \in Seq(S) /\ Len(a) = (IF 1 <= m - 1 THEN (m - 1) - 1 + 1 ELSE 0)
        /\ \A i \in 1..((m - 1) - 1 + 1) : a[i] = list[1 + i - 1]
    BY <1>1, <2>1, SubSeqProperties
  <2> HIDE DEF a
  <2> QED BY <1>1, <2>2
<1>3. /\ b \in Seq(S) /\ Len(b) = Len(list) - m
      /\ \A i \in 1..(Len(list) - m) : b[i] = list[m + i]
  <2>1. \A i \in (m + 1)..Len(list) : list[i] \in S
    BY <1>1
  <2>2. /\ b \in Seq(S) /\ Len(b) = (IF m + 1 <= Len(list) THEN Len(list) - (m + 1) + 1 ELSE 0)
        /\ \A i \in 1..(Len(list) - (m + 1) + 1) : b[i] = list[(m + 1) + i - 1]
    BY <1>1, <2>1, SubSeqProperties
  <2> HIDE DEF b
  <2>3. Len(b) = Len(list) - m
    <3>1. CASE m + 1 <= Len(list)
      <4>1. Len(b) = Len(list) - (m + 1) + 1
        BY <2>2, <3>1
      <4> QED BY <1>1, <4>1
    <3>2. CASE ~(m + 1 <= Len(list))
      <4>1. Len(b) = 0
        BY <2>2, <3>2
      <4>2. ASSUME NEW k \in Nat, m <= k, ~(m + 1 <= k)
            PROVE  k - m = 0
        BY <1>1, <4>2
      <4>3. Len(list) - m = 0
        BY <1>1, <3>2, <4>2
      <4> QED BY <4>1, <4>3
    <3> QED BY <3>1, <3>2
  <2>4. ASSUME NEW i \in 1..(Len(list) - m) PROVE b[i] = list[m + i]
    <3>1. i \in 1..(Len(list) - (m + 1) + 1) /\ (m + 1) + i - 1 = m + i
      BY <1>1, <2>4
    <3>2. b[i] = list[(m + 1) + i - 1]
      BY <2>2, <3>1
    <3> QED BY <3>1, <3>2
  <2> QED BY <2>2, <2>3, <2>4
<1>4. RemoveAt(list, m) = a \o b
  BY DEF RemoveAt
<1> HIDE DEF a, b
<1>5. /\ a \o b \in Seq(S) /\ Len(a \o b) = Len(list) - 1
      /\ \A i \in 1..(Len(list) - 1) :
            (a \o b)[i] = IF i <= m - 1 THEN a[i] ELSE b[i - (m - 1)]
  <2>1. a \in Seq(S) /\ b \in Seq(S)
    BY <1>2, <1>3
  <2>2. /\ a \o b \in Seq(S) /\ Len(a \o b) = Len(a) + Len(b)
        /\ \A i \in 1..(Len(a) + Len(b)) :
              (a \o b)[i] = IF i <= Len(a) THEN a[i] ELSE b[i - Len(a)]
    BY <2>1, ConcatProperties
  <2>3. Len(a) = m - 1 /\ Len(b) = Len(list) - m
    BY <1>2, <1>3
  <2>4. Len(a) + Len(b) = Len(list) - 1
    BY <1>1, <2>3
  <2> DEFINE ab == a \o b
  <2>5. \A i \in 1..(Len(list) - 1) : ab[i] = IF i <= Len(a) THEN a[i] ELSE b[i - Len(a)]
    BY <2>2, <2>4
  <2> HIDE DEF ab
  <2>6. \A i \in 1..(Len(list) - 1) : ab[i] = IF i <= m - 1 THEN a[i] ELSE b[i - (m - 1)]
    BY <2>3, <2>5
  <2> QED BY <2>2, <2>4, <2>6 DEF ab
<1>6. DOMAIN RemoveAt(list, m) = 1..(Len(list) - 1)
  <2> DEFINE left == a \o b
  <2>1. left \in Seq(S) /\ Len(left) = Len(list) - 1 /\ RemoveAt(list, m) = left
    BY <1>4, <1>5
  <2> HIDE DEF left
  <2>2. DOMAIN left = 1..Len(left)
    BY <2>1
  <2> QED BY <2>1, <2>2
<1>7. ASSUME NEW n \in 1..(Len(list) - 1)
      PROVE  /\ Back(m, n) \in DOMAIN list /\ Back(m, n) # m
             /\ list[Back(m, n)] = RemoveAt(list, m)[n]
  <2>1. CASE n < m
    <3>1. (a \o b)[n] = list[n] /\ n \in 1..Len(list) /\ n # m
      BY <1>1, <1>2, <1>5, <2>1
    <3> QED BY <1>1, <1>4, <2>1, <3>1 DEF Back
  <2>2. CASE ~(n < m)
    <3> DEFINE i == n - (m - 1)
    <3>1. i \in 1..(Len(list) - m) /\ m + i = n + 1 /\ n + 1 \in 1..Len(list) /\ n + 1 # m
      BY <1>1, <2>2
    <3>2. (a \o b)[n] = b[i]
      BY <1>1, <1>5, <2>2
    <3> HIDE DEF i
    <3>3. b[i] = list[n + 1]
      BY <1>3, <3>1
    <3> QED BY <1>1, <1>4, <2>2, <3>1, <3>2, <3>3 DEF Back
  <2> QED BY <2>1, <2>2
<1> QED BY <1>6, <1>7

\* Where an entry was before a deletion.
Was(s, last, e) ==
    IF e[1] > last \/ s.at[e[1]] = 0 THEN e ELSE <<e[1], Back(s.at[e[1]], e[2])>>

\* Where each of the entries comes from: "from" tells it of the entries "next"
\* has, and nothing is missing but what the site s had.
Comes(lists, s, last, next, from) ==
    /\ \A e \in Entries(next) :
        /\ from[e] \in Entries(lists) /\ from[e][1] = e[1]
        /\ At(lists, from[e]) = At(next, e)
        /\ from[e] \in Owned(s) => e[1] > last
    /\ \A e, f \in Entries(next) : from[e] = from[f] => e = f
    /\ \A g \in Entries(lists) \ Owned(s) : \E e \in Entries(next) : from[e] = g

\* A deletion takes no entry but the site's, and all those of the lists it gets to.
LEMMA DeleteComes ==
    ASSUME IsLists(cpa), NEW s \in BuildSites(cpa), NEW last \in Channels, DeleteSite(s, last)
    PROVE  \E from : Comes(cpa, s, last, cpa', from)
<1> DEFINE from == [e \in Entries(cpa') |-> Was(s, last, e)]
<1>1. IsLists(cpa')
  BY DeleteFits
<1>2. s \in Site /\ InLists(cpa, s)
  BY SitesAreGood DEF GoodSite
<1>3. ASSUME NEW c \in Channels
      PROVE  /\ Len(cpa[c]) \in Nat /\ DOMAIN cpa[c] = 1..Len(cpa[c]) /\ cpa[c] \in Seq(Entry)
             /\ s.at[c] \in Nat /\ s.at[c] <= Len(cpa[c]) /\ c \in Int /\ last \in Int
  BY <1>2 DEF IsLists, InLists, Site, Channels
<1>4. ASSUME NEW c \in Channels, c > last \/ s.at[c] = 0
      PROVE  cpa'[c] = cpa[c]
  BY <1>4 DEF DeleteSite
<1>5. ASSUME NEW c \in Channels, ~(c > last \/ s.at[c] = 0)
      PROVE  /\ DOMAIN cpa'[c] = 1..(Len(cpa[c]) - 1)
             /\ \A n \in DOMAIN cpa'[c] :
                    /\ Back(s.at[c], n) \in DOMAIN cpa[c] /\ Back(s.at[c], n) # s.at[c]
                    /\ cpa[c][Back(s.at[c], n)] = cpa'[c][n]
  <2>1. cpa'[c] = RemoveAt(cpa[c], s.at[c])
    BY <1>5 DEF DeleteSite
  <2>2. s.at[c] \in 1..Len(cpa[c])
    BY <1>3, <1>5
  <2> QED BY <1>3, <2>1, <2>2, LeftIn
<1>6. ASSUME NEW e \in Entries(cpa')
      PROVE  /\ from[e] = Was(s, last, e)
             /\ e = <<e[1], e[2]>> /\ e[1] \in Channels /\ e[2] \in DOMAIN cpa'[e[1]]
             /\ from[e][1] = e[1] /\ from[e] = <<e[1], from[e][2]>>
             /\ from[e][2] \in DOMAIN cpa[e[1]]
             /\ cpa[e[1]][from[e][2]] = cpa'[e[1]][e[2]]
             /\ from[e][2] = s.at[e[1]] => e[1] > last
  <2>1. from[e] = Was(s, last, e)
    OBVIOUS
  <2>2. e = <<e[1], e[2]>> /\ e[1] \in Channels /\ e[2] \in DOMAIN cpa'[e[1]]
    <3>1. PICK c \in Channels : e \in {c} \X DOMAIN cpa'[c]
      BY DEF Entries
    <3> QED BY <3>1
  <2> HIDE DEF from
  <2>3. CASE e[1] > last \/ s.at[e[1]] = 0
    <3>1. from[e] = e
      BY <2>1, <2>3 DEF Was
    <3>2. cpa'[e[1]] = cpa[e[1]] /\ DOMAIN cpa[e[1]] = 1..Len(cpa[e[1]])
      BY <1>3, <1>4, <2>2, <2>3
    <3>3. e[2] # 0
      BY <1>3, <2>2, <3>2
    <3> QED BY <2>1, <2>2, <2>3, <3>1, <3>2, <3>3
  <2>4. CASE ~(e[1] > last \/ s.at[e[1]] = 0)
    <3>1. from[e] = <<e[1], Back(s.at[e[1]], e[2])>>
      BY <2>1, <2>4 DEF Was
    <3>2. /\ Back(s.at[e[1]], e[2]) \in DOMAIN cpa[e[1]] /\ Back(s.at[e[1]], e[2]) # s.at[e[1]]
          /\ cpa[e[1]][Back(s.at[e[1]], e[2])] = cpa'[e[1]][e[2]]
      BY <1>5, <2>2, <2>4
    <3> QED BY <2>1, <2>2, <3>1, <3>2
  <2> QED BY <2>3, <2>4
<1> HIDE DEF from
<1>7. ASSUME NEW e \in Entries(cpa')
      PROVE  /\ from[e] \in Entries(cpa) /\ from[e][1] = e[1]
             /\ At(cpa, from[e]) = At(cpa', e)
             /\ from[e] \in Owned(s) => e[1] > last
  <2>1. from[e] \in {e[1]} \X DOMAIN cpa[e[1]]
    BY <1>6
  <2>2. from[e] \in Entries(cpa)
    BY <1>6, <2>1 DEF Entries
  <2>3. from[e] \in Owned(s) => from[e][2] = s.at[e[1]]
    BY <1>6 DEF Owned
  <2> QED BY <1>6, <2>2, <2>3 DEF At
<1>8. ASSUME NEW e \in Entries(cpa'), NEW f \in Entries(cpa'), from[e] = from[f]
      PROVE  e = f
  <2>1. e[1] = f[1]
    BY <1>6, <1>8
  <2>2. CASE e[1] > last \/ s.at[e[1]] = 0
    BY <1>6, <1>8, <2>1, <2>2 DEF Was
  <2>3. CASE ~(e[1] > last \/ s.at[e[1]] = 0)
    <3> DEFINE x == Back(s.at[e[1]], e[2])
               y == Back(s.at[e[1]], f[2])
    <3>1. from[e] = <<e[1], x>>
      BY <1>6, <2>3 DEF Was
    <3>2. from[f] = <<e[1], y>>
      BY <1>6, <2>1, <2>3 DEF Was
    <3>3. x = y
      <4> HIDE DEF x, y
      <4>1. from[e][2] = x /\ from[f][2] = y
        BY <3>1, <3>2
      <4> QED BY <1>8, <4>1
    <3>4. e[2] \in Int /\ f[2] \in Int /\ s.at[e[1]] \in Int
      BY <1>3, <1>5, <1>6, <2>1, <2>3
    <3>5. e[2] = f[2]
      BY <3>3, <3>4 DEF Back
    <3> QED BY <1>6, <2>1, <3>5
  <2> QED BY <2>2, <2>3
<1>9. ASSUME NEW g \in Entries(cpa), g \notin Owned(s)
      PROVE  \E e \in Entries(cpa') : from[e] = g
  <2>0. PICK c \in Channels : g \in {c} \X DOMAIN cpa[c]
    BY DEF Entries
  <2>1. PICK l \in DOMAIN cpa[c] : g = <<c, l>>
    BY <2>0
  <2>2. CASE c > last \/ s.at[c] = 0
    <3>1. g \in {c} \X DOMAIN cpa'[c]
      BY <1>4, <2>1, <2>2
    <3>2. g \in Entries(cpa')
      BY <3>1 DEF Entries
    <3>3. from[g] = g
      BY <1>6, <2>1, <2>2, <3>2 DEF Was
    <3> QED BY <3>2, <3>3
  <2>3. CASE ~(c > last \/ s.at[c] = 0)
    <3> DEFINE n == IF l < s.at[c] THEN l ELSE l - 1
               e == <<c, n>>
    <3>1. l # s.at[c]
      BY <1>9, <2>1, <2>3 DEF Owned
    <3>2. n \in 1..(Len(cpa[c]) - 1) /\ Back(s.at[c], n) = l
      <4> DEFINE L == Len(cpa[c])
                 m == s.at[c]
      <4>1. L \in Nat /\ l \in 1..L /\ m \in Nat /\ m <= L /\ m # 0 /\ l # m
        BY <1>3, <2>1, <2>3, <3>1
      <4> HIDE DEF L, m
      <4>2. /\ (IF l < m THEN l ELSE l - 1) \in 1..(L - 1)
            /\ Back(m, IF l < m THEN l ELSE l - 1) = l
        BY <4>1 DEF Back
      <4> QED BY <4>2 DEF L, m
    <3> HIDE DEF n
    <3>3. e \in {c} \X DOMAIN cpa'[c] /\ e[1] = c /\ e[2] = n
      BY <1>5, <2>3, <3>2
    <3> HIDE DEF e
    <3>4. e \in Entries(cpa')
      BY <3>3 DEF Entries
    <3>5. from[e] = g
      BY <1>6, <2>1, <2>3, <3>2, <3>3, <3>4 DEF Was
    <3> QED BY <3>4, <3>5
  <2> QED BY <2>2, <2>3
<1> QED BY <1>7, <1>8, <1>9 DEF Comes

\* What is linked was linked before.
LEMMA ComesLinked ==
    ASSUME NEW lists, NEW s, NEW last, NEW next, NEW from, Comes(lists, s, last, next, from),
           NEW e \in Entries(next), NEW f \in Account(next, e)
    PROVE  f \in Entries(next) /\ from[f] \in Account(lists, from[e])
<1>1. f \in Entries(next) /\ Linked(next, e, f)
  BY DEF Account
<1>2. \A g \in Entries(next) : from[g] \in Entries(lists) /\ At(lists, from[g]) = At(next, g)
  BY DEF Comes
<1>3. Linked(lists, from[e], from[f])
  BY <1>1, <1>2 DEF Linked
<1> QED BY <1>1, <1>2, <1>3 DEF Account

\* Tidy lists are tidy without some of their entries.
LEMMA ComesTidy ==
    ASSUME NEW lists, Tidy(lists), NEW s, NEW last, NEW next, NEW from,
           Comes(lists, s, last, next, from)
    PROVE  Tidy(next)
<1>1. ASSUME NEW e \in Entries(next)
      PROVE  At(next, e).keys # <<>> /\ IsInjective(At(next, e).keys)
  <2>1. from[e] \in Entries(lists) /\ At(lists, from[e]) = At(next, e)
    BY DEF Comes
  <2>2. At(lists, from[e]).keys # <<>> /\ IsInjective(At(lists, from[e]).keys)
    BY <2>1 DEF Tidy, Keyed
  <2> QED BY <2>1, <2>2
<1>2. ASSUME NEW e \in Entries(next), NEW f \in Account(next, e), NEW g \in Account(next, e),
             f[1] = g[1]
      PROVE  f = g
  <2>1. /\ f \in Entries(next) /\ from[f] \in Account(lists, from[e])
        /\ g \in Entries(next) /\ from[g] \in Account(lists, from[e])
    BY ComesLinked
  <2>2. from[f][1] = from[g][1] /\ from[e] \in Entries(lists)
    BY <1>2, <2>1 DEF Comes
  <2>3. from[f] = from[g]
    BY <2>1, <2>2 DEF Tidy
  <2> QED BY <2>1, <2>3 DEF Comes
<1> QED BY <1>1, <1>2 DEF Tidy, Keyed

\* A site holds the entries of one site that was there before.
LEMMA ComesHeld ==
    ASSUME NEW lists, IsLists(lists), Tidy(lists), NEW next, IsLists(next), Tidy(next),
           NEW s, NEW last, NEW from, Comes(lists, s, last, next, from),
           NEW u \in BuildSites(next), NEW e \in Owned(u),
           NEW t \in BuildSites(lists), from[e] \in Owned(t)
    PROVE  Held(next, u) \subseteq Held(lists, t)
<1>1. e \in Entries(next) /\ Owned(u) = Account(next, e) /\ Owned(t) = Account(lists, from[e])
  BY TidySites
<1>2. ASSUME NEW f \in Owned(u)
      PROVE  <<f[1], At(next, f)>> \in Held(lists, t)
  <2>1. f \in Entries(next) /\ from[f] \in Owned(t)
    BY <1>1, <1>2, ComesLinked
  <2>2. from[f][1] = f[1] /\ At(lists, from[f]) = At(next, f)
    BY <2>1 DEF Comes
  <2>3. <<from[f][1], At(lists, from[f])>> \in Held(lists, t)
    BY <2>1 DEF Held
  <2> QED BY <2>2, <2>3
<1> QED BY <1>2 DEF Held

\* Another site than the one deleted holds what it held.
LEMMA ComesWhole ==
    ASSUME NEW lists, IsLists(lists), Tidy(lists), NEW next, IsLists(next), Tidy(next),
           NEW s \in BuildSites(lists), NEW last, NEW from, Comes(lists, s, last, next, from),
           NEW t \in BuildSites(lists), t # s
    PROVE  \E u \in BuildSites(next) : Held(next, u) = Held(lists, t)
<1>1. ASSUME NEW g \in Owned(t)
      PROVE  g \in Entries(lists) /\ \E e \in Entries(next) : from[e] = g
  <2>1. g \in Entries(lists)
    BY TidySites
  <2>2. g \notin Owned(s)
    BY TidyApart
  <2> QED BY <2>1, <2>2 DEF Comes
<1>2. PICK g : g \in Owned(t)
  BY TidySites
<1>3. PICK e \in Entries(next) : from[e] = g
  BY <1>1, <1>2
<1>4. PICK u \in BuildSites(next) : e \in Owned(u)
  BY TidySites
<1>5. Held(next, u) \subseteq Held(lists, t)
  BY <1>2, <1>3, <1>4, ComesHeld
<1>6. Owned(t) = Account(lists, g) /\ Owned(u) = Account(next, e) /\ g \in Entries(lists)
  BY <1>2, <1>4, TidySites
<1>7. ASSUME NEW h \in Owned(t)
      PROVE  <<h[1], At(lists, h)>> \in Held(next, u)
  <2>1. PICK f \in Entries(next) : from[f] = h
    BY <1>1, <1>7
  <2>2. h[1] = f[1] /\ At(lists, h) = At(next, f) /\ At(lists, g) = At(next, e)
    BY <1>3, <2>1 DEF Comes
  <2>3. Linked(lists, g, h)
    BY <1>6, <1>7 DEF Account
  <2>4. Linked(next, e, f)
    <3>1. CASE Share(At(lists, g), At(lists, h))
      BY <2>2, <3>1 DEF Linked
    <3>2. CASE ~Share(At(lists, g), At(lists, h))
      <4>1. PICK x \in Entries(lists) :
                Share(At(lists, g), At(lists, x)) /\ Share(At(lists, x), At(lists, h))
        BY <2>3, <3>2 DEF Linked
      <4>2. x \in Owned(t)
        BY <1>6, <4>1, LinkedBy
      <4>3. PICK y \in Entries(next) : from[y] = x
        BY <1>1, <4>2
      <4>4. At(lists, x) = At(next, y)
        BY <4>3 DEF Comes
      <4> QED BY <2>2, <4>1, <4>4 DEF Linked
    <3> QED BY <3>1, <3>2
  <2>5. f \in Owned(u)
    BY <1>6, <2>1, <2>4 DEF Account
  <2>6. <<f[1], At(next, f)>> \in Held(next, u)
    BY <2>5 DEF Held
  <2> QED BY <2>2, <2>6
<1>8. Held(lists, t) \subseteq Held(next, u)
  BY <1>7 DEF Held
<1>9. Held(next, u) = Held(lists, t)
  <2> DEFINE A == Held(next, u)
             B == Held(lists, t)
  <2>1. A \subseteq B /\ B \subseteq A
    BY <1>5, <1>8
  <2> HIDE DEF A, B
  <2>2. A = B
    BY <2>1
  <2> QED BY <2>2 DEF A, B
<1> QED BY <1>9

\* In tidy lists of any length a deletion, wherever a failing PUT ends it, takes
\* entries of its site only, and what it leaves of the site joins no other; if
\* every PUT succeeds nothing of the site is left.
THEOREM DeletionIsExact == Spec => DeleteTakesOneSite
<1>1. ASSUME IsLists(cpa), Tidy(cpa), NEW s \in BuildSites(cpa), NEW last \in Channels,
             DeleteSite(s, last)
      PROVE  /\ \A t \in BuildSites(cpa) \ {s} :
                    \E u \in BuildSites(cpa') : Held(cpa', u) = Held(cpa, t)
             /\ \A u \in BuildSites(cpa') :
                    \E t \in BuildSites(cpa) :
                        /\ Held(cpa', u) \subseteq Held(cpa, t)
                        /\ last = 3 => t # s
  <2>1. PICK from : Comes(cpa, s, last, cpa', from)
    BY <1>1, DeleteComes
  <2>2. IsLists(cpa') /\ Tidy(cpa')
    BY <1>1, <2>1, DeleteFits, ComesTidy
  <2>3. ASSUME NEW t \in BuildSites(cpa) \ {s}
        PROVE  \E u \in BuildSites(cpa') : Held(cpa', u) = Held(cpa, t)
    BY <1>1, <2>1, <2>2, ComesWhole
  <2>4. ASSUME NEW u \in BuildSites(cpa')
        PROVE  \E t \in BuildSites(cpa) :
                    Held(cpa', u) \subseteq Held(cpa, t) /\ (last = 3 => t # s)
    <3>1. PICK e : e \in Owned(u)
      BY <2>2, TidySites
    <3>2. e \in Entries(cpa')
      BY <2>2, <3>1, TidySites
    <3>3. from[e] \in Entries(cpa) /\ (from[e] \in Owned(s) => e[1] > last)
      BY <2>1, <3>2 DEF Comes
    <3>4. PICK t \in BuildSites(cpa) : from[e] \in Owned(t)
      BY <1>1, <3>3, TidySites
    <3>5. Held(cpa', u) \subseteq Held(cpa, t)
      BY <1>1, <2>1, <2>2, <3>1, <3>4, ComesHeld
    <3>6. e[1] \in 1..3
      BY <2>2, <3>2, EntriesOf DEF Channels
    <3> QED BY <3>3, <3>4, <3>5, <3>6
  <2> QED BY <2>3, <2>4
<1> DEFINE Exact ==
        Tidy(cpa) /\ Delete =>
            \A s \in BuildSites(cpa), last \in Channels : DeleteSite(s, last) =>
                /\ \A t \in BuildSites(cpa) \ {s} :
                        \E u \in BuildSites(cpa') : Held(cpa', u) = Held(cpa, t)
                /\ \A u \in BuildSites(cpa') :
                        \E t \in BuildSites(cpa) :
                            /\ Held(cpa', u) \subseteq Held(cpa, t)
                            /\ last = 3 => t # s
<1>2. TypeOK => Exact
  BY <1>1 DEF TypeOK, IsLists
<1>3. TypeOK /\ [Next]_cpa => [Exact]_cpa
  BY <1>2
<1> QED BY <1>3, TypeCorrect, PTL DEF Spec, DeleteTakesOneSite

-----------------------------------------------------------------------------
\* An egg.

\* The first entries of two lists are the same.
Begin(a, b, m) == \A n \in 1..m : a[n] = b[n]

\* A function of what is known after each entry is the only one.
LEMMA StepsAgree ==
    ASSUME NEW before, NEW c, NEW a, NEW b, NEW f, NEW g, NEW L \in Nat, NEW M \in Nat, L <= M,
           Steps(before, c, a, f, L), Steps(before, c, b, g, M),
           Begin(a, b, L)
    PROVE  f[L] = g[L]
<1> DEFINE A == {n \in Nat : n <= L => f[n] = g[n]}
<1>1. 0 \in A
  BY DEF Steps
<1>2. ASSUME NEW n \in Nat, n \in A PROVE n + 1 \in A
  <2> SUFFICES ASSUME n + 1 <= L PROVE f[n + 1] = g[n + 1]
    OBVIOUS
  <2> DEFINE m == n + 1
  <2>1. m \in 1..L /\ m \in 0..L /\ m \in 0..M /\ m # 0 /\ m - 1 = n /\ f[n] = g[n]
    BY <1>2
  <2> HIDE DEF m
  <2>2. f[m] = Place(f[m - 1], c, m, a[m])
    BY <2>1 DEF Steps
  <2>3. g[m] = Place(g[m - 1], c, m, b[m])
    BY <2>1 DEF Steps
  <2>4. a[m] = b[m]
    BY <2>1 DEF Begin
  <2> QED BY <2>1, <2>2, <2>3, <2>4 DEF m
<1>3. L \in A
  <2> HIDE DEF A
  <2> QED BY <1>1, <1>2, Inductive
<1> QED BY <1>3

\* An entry at the end of a list is placed last.
LEMMA WalkMore ==
    ASSUME NEW before, NEW c, NEW list \in Seq(Entry), NEW p \in Entry
    PROVE  WalkList(before, c, Append(list, p))
             = Place(WalkList(before, c, list), c, Len(list) + 1, p)
<1> DEFINE more == Append(list, p)
           L == Len(list)
<1>1. /\ L \in Nat /\ Len(more) = L + 1 /\ more[L + 1] = p
      /\ Begin(list, more, L)
  BY DEF Begin
<1> HIDE DEF more
<1>2. PICK f : Steps(before, c, list, f, L) /\ WalkList(before, c, list) = f[L]
  BY <1>1, WalkSteps
<1>3. PICK g : Steps(before, c, more, g, Len(more)) /\ WalkList(before, c, more) = g[Len(more)]
  BY <1>1, WalkSteps
<1> HIDE DEF L
<1> DEFINE M == L + 1
<1>4. M \in Nat /\ L <= M /\ M \in 0..M /\ M # 0 /\ M - 1 = L
  BY <1>1
<1>5. Steps(before, c, more, g, M) /\ WalkList(before, c, more) = g[M]
  BY <1>1, <1>3
<1> HIDE DEF M
<1>6. f[L] = g[L]
  BY <1>1, <1>2, <1>4, <1>5, StepsAgree
<1>7. g[M] = Place(g[M - 1], c, M, more[M])
  BY <1>4, <1>5 DEF Steps
<1> QED BY <1>1, <1>2, <1>4, <1>5, <1>6, <1>7 DEF M, L, more

\* A site has the id of its entry, or a number if some entries share a name.
NumberedBy(list, i, id) ==
    Repeats(list) /\ \E k \in 2..(i + 1) : id = <<"name", Numbered(list[i].name, k)>>

\* The sites of the first m entries of an openai list, one for each.
Named(list, m, acc) ==
    /\ Len(acc.sites) = m
    /\ \A i \in 1..m :
        /\ acc.sites[i].key = FirstKey(list[i]) /\ acc.sites[i].name = NameOf(list[i])
        /\ acc.sites[i].id = FirstId(list[i]) \/ NumberedBy(list, i, acc.sites[i].id)

\* What an entry of the openai list founds.
LEMMA FoundedLast ==
    ASSUME NEW acc \in Acc, NEW n \in Nat, NEW p \in Entry
    PROVE  LET next == Place(acc, 1, n, p)
               L    == Len(acc.sites)
           IN  /\ Len(next.sites) = L + 1
               /\ \A i \in 1..L : next.sites[i] = acc.sites[i]
               /\ next.sites[L + 1] = [id |-> NameId(acc, p), name |-> NameOf(p), key |-> FirstKey(p),
                                       at |-> [d \in Channels |-> IF d = 1 THEN n ELSE 0]]
<1> DEFINE t == [id |-> NameId(acc, p), name |-> NameOf(p), key |-> FirstKey(p),
                 at |-> [d \in Channels |-> IF d = 1 THEN n ELSE 0]]
<1>1. Positions(acc, NameId(acc, p)) = {}
  BY NameFree
<1>2. Place(acc, 1, n, p) = Add(acc, NameId(acc, p), NameOf(p), 1, n, p)
  BY DEF Place
<1>3. Place(acc, 1, n, p).sites = Append(acc.sites, t)
  BY <1>1, <1>2 DEF Add
<1>4. acc.sites \in Seq(Site)
  BY DEF Acc
<1> HIDE DEF t
<1>5. /\ Len(Append(acc.sites, t)) = Len(acc.sites) + 1
      /\ \A i \in 1..Len(acc.sites) : Append(acc.sites, t)[i] = acc.sites[i]
      /\ Append(acc.sites, t)[Len(acc.sites) + 1] = t
  BY <1>4
<1> QED BY <1>3, <1>5 DEF t

\* The next entry is given a number only if its name is not its own.
LEMMA PlaceNamed ==
    ASSUME NEW list \in Seq(Entry), NEW m \in Nat, m + 1 \in DOMAIN list,
           NEW acc \in Acc, Named(list, m, acc)
    PROVE  Named(list, m + 1, Place(acc, 1, m + 1, list[m + 1]))
<1> DEFINE n == m + 1
           p == list[n]
           next == Place(acc, 1, n, p)
<1>1. n \in Nat /\ n \in DOMAIN list /\ p \in Entry /\ m \in 0..Len(list) /\ n <= Len(list)
  OBVIOUS
<1>2. Len(acc.sites) = m /\ DOMAIN acc.sites = 1..m
  BY DEF Named, Acc
<1>3. /\ Len(next.sites) = n
      /\ \A i \in 1..m : next.sites[i] = acc.sites[i]
      /\ next.sites[n].id = NameId(acc, p) /\ next.sites[n].name = NameOf(p)
      /\ next.sites[n].key = FirstKey(p)
  <2> DEFINE t == [id |-> NameId(acc, p), name |-> NameOf(p), key |-> FirstKey(p),
                   at |-> [d \in Channels |-> IF d = 1 THEN n ELSE 0]]
  <2>1. t.id = NameId(acc, p) /\ t.name = NameOf(p) /\ t.key = FirstKey(p)
    OBVIOUS
  <2>2. /\ Len(next.sites) = m + 1
        /\ \A i \in 1..m : next.sites[i] = acc.sites[i]
        /\ next.sites[m + 1] = t
    <3> HIDE DEF t, n, p
    <3> QED BY <1>1, <1>2, FoundedLast DEF t
  <2> HIDE DEF t, next
  <2> QED BY <2>1, <2>2
<1> HIDE DEF next, p
<1>4. NameId(acc, p) = FirstId(p) \/ NumberedBy(list, n, NameId(acc, p))
  <2> SUFFICES ASSUME Positions(acc, FirstId(p)) # {}
               PROVE  NumberedBy(list, n, NameId(acc, p))
    BY <1>1, NameFree
  <2>1. PICK i \in 1..m : acc.sites[i].id = FirstId(p)
    BY <1>2 DEF Positions
  <2>2. i \in DOMAIN list /\ i # n /\ list[i] \in Entry
    BY <1>1, <2>1
  <2>3. Repeats(list)
    <3>1. acc.sites[i].id = FirstId(list[i]) \/ NumberedBy(list, i, acc.sites[i].id)
      BY DEF Named
    <3>2. CASE NumberedBy(list, i, acc.sites[i].id)
      BY <3>2 DEF NumberedBy
    <3>3. CASE FirstId(list[i]) = FirstId(p)
      <4>1. list[i].name = p.name
        BY <3>3 DEF FirstId
      <4> QED BY <1>1, <2>2, <4>1 DEF Repeats, p
    <3> QED BY <2>1, <3>1, <3>2, <3>3
  <2>4. \E k \in 2..(m + 2) : NameId(acc, p) = <<"name", Numbered(p.name, k)>>
    BY <1>1, <1>2, NameFree
  <2> QED BY <2>3, <2>4 DEF NumberedBy, p
<1>5. ASSUME NEW i \in 1..n
      PROVE  /\ next.sites[i].key = FirstKey(list[i]) /\ next.sites[i].name = NameOf(list[i])
             /\ next.sites[i].id = FirstId(list[i]) \/ NumberedBy(list, i, next.sites[i].id)
  <2>1. CASE i \in 1..m
    BY <1>3, <2>1 DEF Named
  <2>2. CASE i = n
    BY <1>3, <1>4, <2>2 DEF p
  <2> QED BY <2>1, <2>2
<1> QED BY <1>3, <1>5 DEF Named, next, p

\* The sites found before stay, with the id, the name and the openai entry.
Stays(acc, next) ==
    \A i \in DOMAIN acc.sites :
        /\ i \in DOMAIN next.sites
        /\ next.sites[i].id = acc.sites[i].id /\ next.sites[i].name = acc.sites[i].name
        /\ next.sites[i].at[1] = acc.sites[i].at[1]
        /\ acc.sites[i].key # NoKey => next.sites[i].key # NoKey

\* A codex or claude entry leaves every site its id, its name and its openai entry.
LEMMA PlaceStays ==
    ASSUME NEW acc \in Acc, NEW c \in Channels, c # 1, NEW n \in Nat, NEW p \in Entry
    PROVE  Stays(acc, Place(acc, c, n, p))
<1> DEFINE joined == Resolve(acc, p)
           id == HostId(acc, p)
           taken == Positions(acc, id)
<1>0. acc.sites \in Seq(Site) /\ Len(acc.sites) \in Nat /\ DOMAIN acc.sites = 1..Len(acc.sites)
  BY DEF Acc
<1>1. CASE joined # {}
  <2> DEFINE next == [acc EXCEPT !.sites[The(joined)].at[c] = n]
             x == The(joined)
  <2>1. Place(acc, c, n, p) = next
    BY <1>1 DEF Place
  <2>2. next.sites = [acc.sites EXCEPT ![x].at[c] = n]
    BY DEF Acc
  <2> HIDE DEF next, x
  <2>3. ASSUME NEW i \in DOMAIN acc.sites
        PROVE  /\ i \in DOMAIN next.sites
               /\ next.sites[i].id = acc.sites[i].id /\ next.sites[i].name = acc.sites[i].name
               /\ next.sites[i].at[1] = acc.sites[i].at[1]
               /\ next.sites[i].key = acc.sites[i].key
    <3>1. acc.sites[i] \in Site
      BY <1>0
    <3> QED BY <1>0, <2>2, <3>1 DEF Site
  <2> QED BY <2>1, <2>3 DEF Stays
<1>2. CASE joined = {} /\ taken = {}
  <2> DEFINE t == [id |-> id, name |-> NameOf(p), key |-> FirstKey(p),
                   at |-> [d \in Channels |-> IF d = c THEN n ELSE 0]]
  <2>1. Place(acc, c, n, p) = Add(acc, id, NameOf(p), c, n, p)
    BY <1>2 DEF Place
  <2>2. Place(acc, c, n, p).sites = Append(acc.sites, t)
    BY <1>2, <2>1 DEF Add
  <2> HIDE DEF t
  <2>3. \A i \in DOMAIN acc.sites :
            i \in DOMAIN Append(acc.sites, t) /\ Append(acc.sites, t)[i] = acc.sites[i]
    BY <1>0
  <2> QED BY <2>2, <2>3 DEF Stays
<1>3. CASE joined = {} /\ taken # {}
  <2> DEFINE x == The(taken)
             next == [acc.sites EXCEPT ![x].at[c] = n,
                                       ![x].key = IF @ = NoKey THEN FirstKey(p) ELSE @]
  <2>1. Place(acc, c, n, p) = Add(acc, id, NameOf(p), c, n, p)
    BY <1>3 DEF Place
  <2>2. Place(acc, c, n, p).sites = next
    BY <1>3, <2>1 DEF Add
  <2>3. ASSUME NEW i \in DOMAIN acc.sites
        PROVE  /\ i \in DOMAIN next
               /\ next[i].id = acc.sites[i].id /\ next[i].name = acc.sites[i].name
               /\ next[i].at[1] = acc.sites[i].at[1]
               /\ acc.sites[i].key # NoKey => next[i].key = acc.sites[i].key
    <3> HIDE DEF x
    <3>1. acc.sites[i] \in Site
      BY <1>0
    <3> QED BY <1>0, <3>1 DEF Site
  <2> HIDE DEF next
  <2> QED BY <2>2, <2>3 DEF Stays
<1> QED BY <1>1, <1>2, <1>3

\* So do all the entries of such a list.
LEMMA WalkStays ==
    ASSUME NEW lists, IsLists(lists), NEW before, WalkInv(lists, before),
           NEW c \in Channels, c # 1
    PROVE  Stays(before, WalkList(before, c, lists[c]))
<1> DEFINE L == Len(lists[c])
<1>1. L \in Nat
  BY DEF IsLists
<1>2. PICK known : /\ Steps(before, c, lists[c], known, L)
                   /\ WalkList(before, c, lists[c]) = known[L]
  BY <1>1, WalkSteps
<1> HIDE DEF L
<1> DEFINE A == {n \in Nat : n <= L => WalkInv(lists, known[n]) /\ Stays(before, known[n])}
<1>3. 0 \in A
  <2>1. known[0] = before
    BY <1>1, <1>2 DEF Steps
  <2> QED BY <2>1 DEF Stays
<1>4. ASSUME NEW n \in Nat, n \in A PROVE n + 1 \in A
  <2> SUFFICES ASSUME n + 1 <= L
               PROVE  WalkInv(lists, known[n + 1]) /\ Stays(before, known[n + 1])
    OBVIOUS
  <2> DEFINE m == n + 1
  <2>1. m \in 1..L /\ m \in 0..L /\ m # 0 /\ m - 1 = n /\ m \in Nat
    BY <1>1
  <2>2. WalkInv(lists, known[n]) /\ Stays(before, known[n])
    BY <1>1, <1>4
  <2> HIDE DEF m
  <2>3. known[m] = Place(known[n], c, m, lists[c][m])
    BY <1>2, <2>1 DEF Steps
  <2>4. m \in 1..Len(lists[c])
    BY <2>1 DEF L
  <2>5. WalkInv(lists, known[m])
    BY <2>2, <2>3, <2>4, PlaceInv
  <2>6. Stays(known[n], known[m])
    <3>1. known[n] \in Acc /\ lists[c][m] \in Entry
      BY <2>2, <2>4, ListEntry DEF WalkInv
    <3> QED BY <2>1, <2>3, <3>1, PlaceStays
  <2>7. Stays(before, known[m])
    BY <2>2, <2>6 DEF Stays
  <2> QED BY <2>5, <2>7 DEF m
<1>5. L \in A
  <2> HIDE DEF A
  <2> QED BY <1>1, <1>3, <1>4, Inductive
<1> QED BY <1>1, <1>2, <1>5

\* The sites the openai list founds are shown if they have a key, whatever
\* the other lists add to them.
LEMMA OpenaiShown ==
    ASSUME NEW lists, IsLists(lists), NEW i \in DOMAIN WalkList(Start, 1, lists[1]).sites,
           WalkList(Start, 1, lists[1]).sites[i].key # NoKey
    PROVE  \E t \in BuildSites(lists) :
              LET s == WalkList(Start, 1, lists[1]).sites[i]
              IN  t.id = s.id /\ t.name = s.name /\ t.at[1] = s.at[1]
<1> DEFINE openai == WalkList(Start, 1, lists[1])
           codex  == WalkList(openai, 2, lists[2])
           claude == WalkList(codex, 3, lists[3])
<1>1. 1 \in Channels /\ 2 \in Channels /\ 3 \in Channels
  BY DEF Channels
<1>2. WalkInv(lists, openai)
  BY <1>1, StartInv, WalkKeeps
<1>3. WalkInv(lists, codex) /\ Stays(openai, codex)
  <2> HIDE DEF openai
  <2> QED BY <1>1, <1>2, WalkKeeps, WalkStays
<1>4. Stays(codex, claude)
  <2> HIDE DEF codex
  <2> QED BY <1>1, <1>3, WalkStays
<1>5. BuildSites(lists) =
        {claude.sites[j] : j \in {j \in DOMAIN claude.sites : claude.sites[j].key # NoKey}}
  BY DEF BuildSites
<1> HIDE DEF claude, codex
<1>6. /\ i \in DOMAIN claude.sites /\ claude.sites[i].key # NoKey
      /\ claude.sites[i].id = openai.sites[i].id /\ claude.sites[i].name = openai.sites[i].name
      /\ claude.sites[i].at[1] = openai.sites[i].at[1]
  BY <1>3, <1>4 DEF Stays
<1> QED BY <1>5, <1>6

\* The openai list founds a site for each of its entries.
LEMMA OpenaiNamed ==
    ASSUME NEW lists, IsLists(lists)
    PROVE  /\ Named(lists[1], Len(lists[1]), WalkList(Start, 1, lists[1]))
           /\ WalkInv(lists, WalkList(Start, 1, lists[1]))
<1> DEFINE L == Len(lists[1])
<1>1. L \in Nat /\ 1 \in Channels /\ DOMAIN lists[1] = 1..L
  BY DEF IsLists, Channels
<1>2. PICK known : /\ Steps(Start, 1, lists[1], known, L)
                   /\ WalkList(Start, 1, lists[1]) = known[L]
  BY <1>1, WalkSteps
<1> HIDE DEF L
<1> DEFINE Good(n) == /\ WalkInv(lists, known[n]) /\ NoHosts(known[n])
                      /\ Named(lists[1], n, known[n])
           A == {n \in Nat : n <= L => Good(n)}
<1>3. 0 \in A
  <2>1. known[0] = Start
    BY <1>1, <1>2 DEF Steps
  <2>2. Start.sites = <<>>
    BY DEF Start
  <2> QED BY <2>1, <2>2, StartInv DEF Named
<1>4. ASSUME NEW n \in Nat, n \in A PROVE n + 1 \in A
  <2> SUFFICES ASSUME n + 1 <= L PROVE Good(n + 1)
    OBVIOUS
  <2> DEFINE m == n + 1
  <2>1. m \in 1..L /\ m \in 0..L /\ m # 0 /\ m - 1 = n /\ m \in Nat
    BY <1>1
  <2>2. WalkInv(lists, known[n]) /\ NoHosts(known[n]) /\ Named(lists[1], n, known[n])
    BY <1>1, <1>4
  <2> HIDE DEF m
  <2>3. known[m] = Place(known[n], 1, m, lists[1][m])
    BY <1>2, <2>1 DEF Steps
  <2>4. m \in 1..Len(lists[1])
    BY <2>1 DEF L
  <2>5. WalkInv(lists, known[m]) /\ NoHosts(known[m])
    BY <1>1, <2>2, <2>3, <2>4, PlaceInv
  <2>6. Named(lists[1], m, known[m])
    <3>1. known[n] \in Acc /\ lists[1] \in Seq(Entry) /\ m \in DOMAIN lists[1] /\ m = n + 1
      BY <1>1, <2>1, <2>2 DEF WalkInv, IsLists, m
    <3> QED BY <2>2, <2>3, <3>1, PlaceNamed
  <2> QED BY <2>5, <2>6 DEF m
<1>5. L \in A
  <2> HIDE DEF A
  <2> QED BY <1>1, <1>3, <1>4, Inductive
<1> QED BY <1>1, <1>2, <1>5 DEF L

\* An egg is noted under the id of the site that owns its entry, but for the
\* names told apart in EggIsNamed: the lists are of any length.
THEOREM EggHasItsName == Spec => EggIsNamed
<1>1. ASSUME IsLists(cpa), Egg, NEW n \in Labels, NEW h \in Hosts, NEW k \in Keys,
             AddEgg(n, h, k), ~Unseen(cpa[1], n),
             ~(Repeats(cpa[1]) /\ LooksNumbered(cpa[1], n))
      PROVE  LastGoesBy(cpa', n)
  <2> DEFINE p == [name |-> n, keys |-> <<k>>, url |-> [host |-> h, v1 |-> TRUE]]
             acc == WalkList(Start, 1, cpa[1])
             next == WalkList(Start, 1, cpa'[1])
             L == Len(cpa[1])
  <2>1. cpa[1] \in Seq(Entry) /\ cpa' = [cpa EXCEPT ![1] = Append(@, p)] /\ IsLists(cpa')
        /\ L \in Nat /\ DOMAIN cpa[1] = 1..L
    <3>1. cpa[1] \in Seq(Entry)
      BY <1>1 DEF IsLists, Channels
    <3>2. cpa' = [cpa EXCEPT ![1] = Append(@, p)]
      BY <1>1 DEF AddEgg
    <3>3. IsLists(cpa')
      BY <1>1, EggFits
    <3> QED BY <3>1, <3>2, <3>3
  <2>2. cpa'[1] = Append(cpa[1], p)
    BY <1>1, <2>1 DEF IsLists, Channels
  <2>3. p \in Entry /\ p.name = n /\ p.keys # <<>> /\ FirstKey(p) = k
    <3>1. n \in Name /\ [host |-> h, v1 |-> TRUE] \in Url /\ <<k>> \in Seq(Keys) /\ <<k>> # <<>>
      BY DEF Name, Url
    <3>2. <<k>>[1] = k
      OBVIOUS
    <3> QED BY <3>1, <3>2 DEF Entry, FirstKey
  <2>4. n \notin {s.name : s \in BuildSites(cpa)}
    <3>1. PICK m \in Labels \ {s.name : s \in BuildSites(cpa)}, i \in Hosts, j \in Keys : AddEgg(m, i, j)
      BY <1>1 DEF Egg
    <3> DEFINE q == [name |-> m, keys |-> <<j>>, url |-> [host |-> i, v1 |-> TRUE]]
    <3>2. cpa'[1] = Append(cpa[1], q)
      BY <1>1, <3>1 DEF IsLists, Channels, AddEgg
    <3>3. q.name = m
      OBVIOUS
    <3> HIDE DEF p, q
    <3>4. Append(cpa[1], p)[L + 1] = p /\ Append(cpa[1], q)[L + 1] = q
      BY <2>1
    <3> QED BY <2>2, <2>3, <3>1, <3>2, <3>3, <3>4
  <2> HIDE DEF p
  <2>5. Named(cpa[1], L, acc) /\ WalkInv(cpa, acc) /\ acc \in Acc
    <3>1. Named(cpa[1], L, acc) /\ WalkInv(cpa, acc)
      BY <1>1, OpenaiNamed
    <3> QED BY <3>1 DEF WalkInv
  <2>6. Positions(acc, <<"name", n>>) = {}
    <3> SUFFICES ASSUME NEW i \in DOMAIN acc.sites, acc.sites[i].id = <<"name", n>>
                 PROVE  FALSE
      BY DEF Positions
    <3>1. i \in 1..L /\ DOMAIN acc.sites = 1..L
      BY <2>5 DEF Named, Acc
    <3> HIDE DEF acc, L
    <3>2. /\ acc.sites[i].key = FirstKey(cpa[1][i]) /\ acc.sites[i].name = NameOf(cpa[1][i])
          /\ acc.sites[i].id = FirstId(cpa[1][i]) \/ NumberedBy(cpa[1], i, acc.sites[i].id)
      BY <2>5, <3>1 DEF Named
    <3>3. CASE FirstId(cpa[1][i]) = <<"name", n>>
      <4>1. cpa[1][i].name = n /\ n # NoName
        BY <3>3 DEF FirstId
      <4>2. cpa[1][i].keys # <<>> /\ cpa[1][i] \in Entry
        BY <1>1, <2>1, <3>1, <4>1 DEF Unseen
      <4>3. acc.sites[i].name = n
        BY <3>2, <4>1 DEF NameOf
      <4>4. acc.sites[i].key # NoKey
        BY <3>2, <4>2, KeysOf, SiteAssumption
      <4>5. \E t \in BuildSites(cpa) : t.name = n
        BY <1>1, <4>3, <4>4, OpenaiShown DEF acc
      <4> QED BY <2>4, <4>5
    <3>4. CASE NumberedBy(cpa[1], i, <<"name", n>>)
      <4>1. PICK j \in 2..(i + 1) : <<"name", n>> = <<"name", Numbered(cpa[1][i].name, j)>>
        BY <3>4 DEF NumberedBy
      <4>2. n = Numbered(cpa[1][i].name, j) /\ j \in 2..(L + 1) /\ i \in DOMAIN cpa[1]
        BY <2>1, <3>1, <4>1
      <4> QED BY <1>1, <3>4, <4>2 DEF NumberedBy, LooksNumbered, L
    <3> QED BY <3>2, <3>3, <3>4
  <2>7. NameId(acc, p) = <<"name", n>>
    <3>1. n # NoName
      BY SiteAssumption
    <3> QED BY <2>3, <2>6, <3>1 DEF NameId
  <2>8. next = Place(acc, 1, L + 1, p)
    BY <2>1, <2>2, <2>3, WalkMore
  <2> DEFINE i == Len(acc.sites) + 1
  <2>9. i \in DOMAIN next.sites /\ next.sites[i].id = <<"name", n>>
        /\ next.sites[i].key # NoKey /\ next.sites[i].at[1] = L + 1
    <3> DEFINE t == [id |-> NameId(acc, p), name |-> NameOf(p), key |-> FirstKey(p),
                     at |-> [d \in Channels |-> IF d = 1 THEN L + 1 ELSE 0]]
    <3>1. t.id = <<"name", n>> /\ t.key # NoKey /\ t.at[1] = L + 1
      BY <2>3, <2>7, SiteAssumption DEF Channels
    <3>2. L + 1 \in Nat
      BY <2>1
    <3>3. Len(next.sites) = i /\ next.sites[i] = t
      <4> DEFINE m == L + 1
      <4>1. m \in Nat /\ next = Place(acc, 1, m, p)
        BY <2>8, <3>2
      <4>2. t = [id |-> NameId(acc, p), name |-> NameOf(p), key |-> FirstKey(p),
                 at |-> [d \in Channels |-> IF d = 1 THEN m ELSE 0]]
        OBVIOUS
      <4> HIDE DEF acc, next, L, t, m
      <4>3. /\ Len(Place(acc, 1, m, p).sites) = Len(acc.sites) + 1
            /\ Place(acc, 1, m, p).sites[Len(acc.sites) + 1]
                 = [id |-> NameId(acc, p), name |-> NameOf(p), key |-> FirstKey(p),
                    at |-> [d \in Channels |-> IF d = 1 THEN m ELSE 0]]
        BY <2>3, <2>5, <4>1, FoundedLast
      <4> QED BY <4>1, <4>2, <4>3
    <3>4. next.sites \in Seq(Site)
      <4>1. WalkInv(cpa', next)
        <5>1. 1 \in Channels /\ IsLists(cpa') /\ WalkInv(cpa', Start) /\ NoHosts(Start)
          BY <2>1, StartInv DEF Channels
        <5> QED BY <5>1, WalkKeeps
      <4> QED BY <4>1 DEF WalkInv, Acc
    <3>5. i \in Nat \ {0}
      <4>1. Len(acc.sites) \in Nat
        BY <2>5 DEF Acc
      <4> QED BY <4>1
    <3> HIDE DEF next, i, t
    <3> QED BY <3>1, <3>3, <3>4, <3>5
  <2>10. Len(cpa'[1]) = L + 1
    BY <2>1, <2>2
  <2>11. \E t \in BuildSites(cpa') : t.id = next.sites[i].id /\ t.at[1] = next.sites[i].at[1]
    <3> HIDE DEF i
    <3> QED BY <2>1, <2>9, OpenaiShown
  <2> QED BY <2>9, <2>10, <2>11 DEF LastGoesBy
<1> DEFINE Noted ==
        Egg => \A n \in Labels, h \in Hosts, k \in Keys :
            AddEgg(n, h, k) =>
                \/ LastGoesBy(cpa', n)
                \/ Unseen(cpa[1], n)
                \/ Repeats(cpa[1]) /\ LooksNumbered(cpa[1], n)
<1>2. TypeOK => Noted
  BY <1>1 DEF TypeOK, IsLists
<1>3. TypeOK /\ [Next]_cpa => [Noted]_cpa
  BY <1>2
<1> QED BY <1>3, TypeCorrect, PTL DEF Spec, EggIsNamed

-----------------------------------------------------------------------------
\* A save in tidy lists.

\* A site has at most one entry in each list.
LEMMA OwnedOne ==
    ASSUME NEW s, NEW e, e \in Owned(s)
    PROVE  /\ e = <<e[1], s.at[e[1]]>> /\ e[1] \in Channels /\ s.at[e[1]] # 0
           /\ \A f : f \in Owned(s) /\ f[1] = e[1] => f = e
BY DEF Owned

\* In tidy lists the first entry of a site, from which new ones are copied,
\* shares a key with each of its entries.
LEMMA SourceShares ==
    ASSUME NEW lists, IsLists(lists), Tidy(lists), NEW s \in BuildSites(lists)
    PROVE  \E f : /\ f \in Owned(s) /\ f \in Entries(lists)
                  /\ At(lists, f) = Source(lists, s)
                  /\ \A e : e \in Owned(s) => Share(At(lists, e), At(lists, f))
<1> DEFINE C == {c \in Channels : s.at[c] # 0}
           c == Least(C)
           f == <<c, s.at[c]>>
<1>1. /\ Owned(s) # {}
      /\ \A e \in Owned(s) : e \in Entries(lists) /\ Owned(s) = Account(lists, e)
  BY TidySites
<1>2. C \in SUBSET Nat /\ C # {}
  BY <1>1 DEF Channels, Owned
<1>3. c \in C /\ \A d \in C : c <= d
  <2> HIDE DEF C
  <2> QED BY <1>2, LeastNat
<1>4. Source(lists, s) = lists[c][s.at[c]]
  BY DEF Source
<1> HIDE DEF c
<1>5. f \in Owned(s) /\ f \in Entries(lists) /\ At(lists, f) = Source(lists, s) /\ f[1] = c
  BY <1>1, <1>3, <1>4 DEF Owned, At
<1> HIDE DEF f
<1>6. ASSUME NEW e, e \in Owned(s) PROVE Share(At(lists, e), At(lists, f))
  <2>1. e \in Entries(lists) /\ Linked(lists, e, f)
    BY <1>1, <1>5, <1>6 DEF Account
  <2>2. e[1] \in C /\ c <= e[1]
    BY <1>3, <1>6 DEF Owned
  <2>3. CASE e = f
    <3>1. At(lists, f).keys # <<>> /\ At(lists, f) \in Entry
      BY <1>5, EntriesOf DEF Tidy, Keyed
    <3>2. FirstKey(At(lists, f)) \in ToSet(At(lists, f).keys)
      BY <3>1, KeysOf
    <3> QED BY <2>3, <3>2 DEF Share
  <2>4. CASE e # f
    <3>1. e[1] # c
      BY <1>5, <1>6, <2>4, OwnedOne
    <3>2. e[1] # 1
      <4>1. c \in Nat /\ e[1] \in Nat /\ c >= 1
        BY <1>2, <1>3, <2>2 DEF Channels
      <4> QED BY <2>2, <3>1, <4>1
    <3>3. At(lists, e) \in Entry /\ At(lists, e).keys # <<>> /\ Len(At(lists, e).keys) <= 1
      BY <2>1, <3>2, EntriesOf DEF Tidy, Keyed
    <3>4. PICK k : ToSet(At(lists, e).keys) = {k}
      BY <3>3, KeysOf
    <3>5. CASE ~Share(At(lists, e), At(lists, f))
      <4>1. PICK g \in Entries(lists) :
                Share(At(lists, e), At(lists, g)) /\ Share(At(lists, g), At(lists, f))
        BY <2>1, <3>5 DEF Linked
      <4>2. k \in ToSet(At(lists, g).keys)
        BY <3>4, <4>1 DEF Share
      <4>3. g \in Owned(s)
        <5>1. Share(At(lists, f), At(lists, g))
          BY <4>1 DEF Share
        <5>2. g \in Account(lists, f)
          BY <1>5, <5>1, LinkedBy
        <5> QED BY <1>1, <1>5, <5>2
      <4>4. g[1] # 1
        <5>1. g # f
          BY <3>5, <4>1
        <5>2. g[1] # c /\ g[1] \in C /\ c <= g[1]
          BY <1>3, <1>5, <4>3, <5>1, OwnedOne DEF Owned
        <5>3. c \in Nat /\ g[1] \in Nat /\ c >= 1
          BY <1>2, <1>3, <5>2 DEF Channels
        <5> QED BY <5>2, <5>3
      <4>5. At(lists, g) \in Entry /\ At(lists, g).keys # <<>> /\ Len(At(lists, g).keys) <= 1
        BY <4>1, <4>4, EntriesOf DEF Tidy, Keyed
      <4>6. PICK j : ToSet(At(lists, g).keys) = {j}
        BY <4>5, KeysOf
      <4>7. j = k /\ k \in ToSet(At(lists, f).keys)
        BY <4>1, <4>2, <4>6 DEF Share
      <4> QED BY <3>4, <3>5, <4>7 DEF Share
    <3> QED BY <3>5
  <2> QED BY <2>3, <2>4
<1> QED BY <1>5, <1>6

\* next has the entries of the lists where they were, and besides them some
\* that are made for sites: each for mine[e], which has no entry in that list
\* and gets no two of them there, and with the key of that site's first entry.
Made(lists, next, mine) ==
    /\ \A e \in Entries(lists) : e \in Entries(next) /\ At(next, e) = At(lists, e)
    /\ \A e \in Entries(next) \ Entries(lists) :
            /\ mine[e] \in BuildSites(lists) /\ mine[e].at[e[1]] = 0
            /\ Source(lists, mine[e]).keys # <<>>
            /\ At(next, e).keys = <<FirstKey(Source(lists, mine[e]))>>
    /\ \A e, f \in Entries(next) \ Entries(lists) :
            e[1] = f[1] /\ mine[e] = mine[f] => e = f

\* The entry is the site's, or made for it.
Home(lists, mine, e, s) == IF e \in Entries(lists) THEN e \in Owned(s) ELSE mine[e] = s

\* An entry of the lists or of those a save makes has one home.
LEMMA OneHome ==
    ASSUME NEW lists, IsLists(lists), Tidy(lists), NEW next, NEW mine,
           Made(lists, next, mine), NEW e \in Entries(next)
    PROVE  /\ \E s \in BuildSites(lists) : Home(lists, mine, e, s)
           /\ \A s, t \in BuildSites(lists) :
                Home(lists, mine, e, s) /\ Home(lists, mine, e, t) => s = t
<1>1. CASE e \in Entries(lists)
  BY <1>1, TidySites, TidyApart DEF Home
<1>2. CASE e \notin Entries(lists)
  BY <1>2 DEF Home, Made
<1> QED BY <1>1, <1>2

\* An entry with the key that new entries of a site get is that site's, or
\* made for it.
LEMMA KeyLeadsHome ==
    ASSUME NEW lists, IsLists(lists), Tidy(lists), NEW next, NEW mine,
           Made(lists, next, mine), NEW s \in BuildSites(lists),
           Source(lists, s).keys # <<>>,
           NEW e \in Entries(next), FirstKey(Source(lists, s)) \in ToSet(At(next, e).keys)
    PROVE  Home(lists, mine, e, s)
<1> DEFINE k == FirstKey(Source(lists, s))
<1>1. PICK f : /\ f \in Owned(s) /\ f \in Entries(lists) /\ At(lists, f) = Source(lists, s)
  BY SourceShares
<1>2. k \in ToSet(At(lists, f).keys)
  <2>1. Source(lists, s) \in Entry
    BY SourceListed
  <2> QED BY <1>1, <2>1, KeysOf
<1> HIDE DEF k
<1>3. CASE e \in Entries(lists)
  <2>1. At(next, e) = At(lists, e)
    BY <1>3 DEF Made
  <2>2. Share(At(lists, f), At(lists, e))
    BY <1>2, <2>1 DEF Share, k
  <2>3. e \in Account(lists, f)
    BY <1>1, <1>3, <2>2, LinkedBy
  <2> QED BY <1>1, <1>3, <2>3, TidySites DEF Home
<1>4. CASE e \notin Entries(lists)
  <2> DEFINE t == mine[e]
             j == FirstKey(Source(lists, t))
  <2>1. t \in BuildSites(lists) /\ At(next, e).keys = <<j>> /\ Source(lists, t).keys # <<>>
    BY <1>4 DEF Made
  <2> HIDE DEF t, j
  <2>2. ToSet(<<j>>) = {j}
    BY DEF ToSet
  <2>3. k = j
    BY <2>1, <2>2 DEF k
  <2>4. PICK g : /\ g \in Owned(t) /\ g \in Entries(lists) /\ At(lists, g) = Source(lists, t)
    BY <2>1, SourceShares
  <2>5. j \in ToSet(At(lists, g).keys)
    <3>1. Source(lists, t) \in Entry
      BY <2>1, SourceListed
    <3> QED BY <2>1, <2>4, <3>1, KeysOf DEF j
  <2>6. Share(At(lists, f), At(lists, g))
    BY <1>2, <2>3, <2>5 DEF Share
  <2>7. g \in Account(lists, f)
    BY <1>1, <2>4, <2>6, LinkedBy
  <2>8. g \in Owned(s)
    BY <1>1, <2>7, TidySites
  <2>9. s = t
    BY <2>1, <2>4, <2>8, TidyApart
  <2> QED BY <1>4, <2>9 DEF Home, t
<1> QED BY <1>3, <1>4

\* Entries that share a key have the same home.
LEMMA SharedHome ==
    ASSUME NEW lists, IsLists(lists), Tidy(lists), NEW next, NEW mine,
           Made(lists, next, mine), NEW e \in Entries(next), NEW f \in Entries(next),
           Share(At(next, e), At(next, f)),
           NEW s \in BuildSites(lists), Home(lists, mine, e, s)
    PROVE  Home(lists, mine, f, s)
<1>1. CASE e \notin Entries(lists)
  <2>1. mine[e] = s
    BY <1>1 DEF Home
  <2>2. /\ Source(lists, s).keys # <<>>
        /\ At(next, e).keys = <<FirstKey(Source(lists, s))>>
    BY <1>1, <2>1 DEF Made
  <2>3. FirstKey(Source(lists, s)) \in ToSet(At(next, f).keys)
    BY <2>2 DEF Share, ToSet
  <2> QED BY <2>2, <2>3, KeyLeadsHome
<1>2. CASE e \in Entries(lists) /\ f \in Entries(lists)
  <2>1. Share(At(lists, e), At(lists, f))
    BY <1>2 DEF Made
  <2>2. f \in Account(lists, e)
    BY <1>2, <2>1, LinkedBy
  <2>3. e \in Owned(s)
    BY <1>2 DEF Home
  <2> QED BY <1>2, <2>2, <2>3, TidySites DEF Home
<1>3. CASE e \in Entries(lists) /\ f \notin Entries(lists)
  <2> DEFINE t == mine[f]
  <2>1. /\ t \in BuildSites(lists) /\ Source(lists, t).keys # <<>>
        /\ At(next, f).keys = <<FirstKey(Source(lists, t))>>
    BY <1>3 DEF Made
  <2> HIDE DEF t
  <2>2. FirstKey(Source(lists, t)) \in ToSet(At(next, e).keys)
    BY <2>1 DEF Share, ToSet
  <2>3. Home(lists, mine, e, t)
    BY <2>1, <2>2, KeyLeadsHome
  <2>4. s = t
    BY <2>1, <2>3, OneHome
  <2> QED BY <1>3, <2>4 DEF Home, t
<1> QED BY <1>1, <1>2, <1>3

\* So have linked ones.
LEMMA LinkedHome ==
    ASSUME NEW lists, IsLists(lists), Tidy(lists), NEW next, NEW mine,
           Made(lists, next, mine), NEW e \in Entries(next), NEW f \in Account(next, e),
           NEW s \in BuildSites(lists), Home(lists, mine, e, s)
    PROVE  f \in Entries(next) /\ Home(lists, mine, f, s)
<1>1. f \in Entries(next) /\ Linked(next, e, f)
  BY DEF Account
<1>2. CASE Share(At(next, e), At(next, f))
  BY <1>1, <1>2, SharedHome
<1>3. CASE ~Share(At(next, e), At(next, f))
  <2>1. PICK g \in Entries(next) :
            Share(At(next, e), At(next, g)) /\ Share(At(next, g), At(next, f))
    BY <1>1, <1>3 DEF Linked
  <2>2. Home(lists, mine, g, s)
    BY <2>1, SharedHome
  <2> QED BY <1>1, <2>1, <2>2, SharedHome
<1> QED BY <1>2, <1>3

\* With the entries a save makes the lists are still tidy.
LEMMA MadeTidy ==
    ASSUME NEW lists, IsLists(lists), Tidy(lists), NEW next, NEW mine,
           Made(lists, next, mine)
    PROVE  Tidy(next)
<1>1. ASSUME NEW e \in Entries(next)
      PROVE  At(next, e).keys # <<>> /\ IsInjective(At(next, e).keys)
  <2>1. CASE e \in Entries(lists)
    BY <2>1 DEF Made, Tidy, Keyed
  <2>2. CASE e \notin Entries(lists)
    <3> DEFINE k == FirstKey(Source(lists, mine[e]))
    <3>1. At(next, e).keys = <<k>>
      BY <2>2 DEF Made
    <3> HIDE DEF k
    <3>2. <<k>> # <<>> /\ IsInjective(<<k>>)
      BY DEF IsInjective
    <3> QED BY <3>1, <3>2
  <2> QED BY <2>1, <2>2
<1>2. ASSUME NEW e \in Entries(next), NEW f \in Account(next, e), NEW g \in Account(next, e),
             f[1] = g[1]
      PROVE  f = g
  <2>1. PICK s \in BuildSites(lists) : Home(lists, mine, e, s)
    BY OneHome
  <2>2. /\ f \in Entries(next) /\ Home(lists, mine, f, s)
        /\ g \in Entries(next) /\ Home(lists, mine, g, s)
    BY <2>1, LinkedHome
  <2>3. CASE f \in Entries(lists) /\ g \in Entries(lists)
    BY <1>2, <2>2, <2>3, OwnedOne DEF Home
  <2>4. CASE f \in Entries(lists) /\ g \notin Entries(lists)
    <3>1. s.at[g[1]] = 0
      BY <2>2, <2>4 DEF Home, Made
    <3> QED BY <1>2, <2>2, <2>4, <3>1, OwnedOne DEF Home
  <2>5. CASE f \notin Entries(lists) /\ g \in Entries(lists)
    <3>1. s.at[f[1]] = 0
      BY <2>2, <2>5 DEF Home, Made
    <3> QED BY <1>2, <2>2, <2>5, <3>1, OwnedOne DEF Home
  <2>6. CASE f \notin Entries(lists) /\ g \notin Entries(lists)
    BY <1>2, <2>2, <2>6 DEF Home, Made
  <2> QED BY <2>3, <2>4, <2>5, <2>6
<1> QED BY <1>1, <1>2 DEF Tidy, Keyed

\* Linked entries stay linked.
LEMMA MadeLinked ==
    ASSUME NEW lists, NEW next, NEW mine, Made(lists, next, mine),
           NEW e \in Entries(lists), NEW f \in Account(lists, e)
    PROVE  f \in Account(next, e)
<1>1. f \in Entries(lists) /\ Linked(lists, e, f)
  BY DEF Account
<1>2. \A g \in Entries(lists) : g \in Entries(next) /\ At(next, g) = At(lists, g)
  BY DEF Made
<1>3. Linked(next, e, f)
  BY <1>1, <1>2 DEF Linked
<1> QED BY <1>1, <1>2, <1>3 DEF Account

\* Each site has what it had, and no other site has any of it.
LEMMA MadeGrows ==
    ASSUME NEW lists, IsLists(lists), Tidy(lists), NEW next, IsLists(next), NEW mine,
           Made(lists, next, mine)
    PROVE  /\ \A s \in BuildSites(lists) : \E t \in BuildSites(next) : Owned(s) \subseteq Owned(t)
           /\ \A s \in BuildSites(lists) : \A t, u \in BuildSites(next) :
                Owned(s) \subseteq Owned(t) /\ Owned(s) \subseteq Owned(u) => t = u
           /\ \A s, r \in BuildSites(lists) : \A t \in BuildSites(next) :
                Owned(s) \subseteq Owned(t) /\ Owned(r) \subseteq Owned(t) => s = r
           /\ \A t \in BuildSites(next) : \E s \in BuildSites(lists) : Owned(s) \subseteq Owned(t)
<1>1. Tidy(next)
  BY MadeTidy
<1>2. ASSUME NEW s \in BuildSites(lists)
      PROVE  \E e : e \in Owned(s) /\ e \in Entries(lists) /\ e \in Entries(next)
  BY TidySites DEF Made
<1>3. ASSUME NEW s \in BuildSites(lists), NEW e, e \in Owned(s),
             NEW t \in BuildSites(next), e \in Owned(t)
      PROVE  Owned(s) \subseteq Owned(t)
  <2> SUFFICES ASSUME NEW f \in Owned(s) PROVE f \in Owned(t)
    OBVIOUS
  <2>1. e \in Entries(lists) /\ Owned(s) = Account(lists, e)
    BY <1>3, TidySites
  <2>2. Owned(t) = Account(next, e)
    BY <1>1, <1>3, TidySites
  <2> QED BY <2>1, <2>2, MadeLinked
<1>4. ASSUME NEW s \in BuildSites(lists)
      PROVE  \E t \in BuildSites(next) : Owned(s) \subseteq Owned(t)
  <2>1. PICK e : e \in Owned(s) /\ e \in Entries(lists) /\ e \in Entries(next)
    BY <1>2
  <2>2. PICK t \in BuildSites(next) : e \in Owned(t)
    BY <1>1, <2>1, TidySites
  <2> QED BY <1>3, <2>1, <2>2
<1>5. ASSUME NEW s \in BuildSites(lists), NEW t \in BuildSites(next), NEW u \in BuildSites(next),
             Owned(s) \subseteq Owned(t), Owned(s) \subseteq Owned(u)
      PROVE  t = u
  <2>1. PICK e : e \in Owned(s)
    BY <1>2
  <2> QED BY <1>1, <1>5, <2>1, TidyApart
<1>6. ASSUME NEW s \in BuildSites(lists), NEW r \in BuildSites(lists), NEW t \in BuildSites(next),
             Owned(s) \subseteq Owned(t), Owned(r) \subseteq Owned(t)
      PROVE  s = r
  <2>1. PICK e : e \in Owned(s) /\ e \in Entries(lists) /\ e \in Entries(next)
    BY <1>2
  <2>2. PICK f : f \in Owned(r) /\ f \in Entries(lists) /\ f \in Entries(next)
    BY <1>2
  <2>3. f \in Account(next, e)
    BY <1>1, <1>6, <2>1, <2>2, TidySites
  <2>4. Home(lists, mine, e, s)
    BY <2>1 DEF Home
  <2>5. Home(lists, mine, f, s)
    BY <2>1, <2>3, <2>4, LinkedHome
  <2> QED BY <2>2, <2>5, TidyApart DEF Home
<1>7. ASSUME NEW t \in BuildSites(next)
      PROVE  \E s \in BuildSites(lists) : Owned(s) \subseteq Owned(t)
  <2>1. PICK e : e \in Owned(t) /\ e \in Entries(next) /\ Owned(t) = Account(next, e)
    BY <1>1, TidySites
  <2>2. PICK s \in BuildSites(lists) : Home(lists, mine, e, s)
    BY <2>1, OneHome
  <2>3. \E f : f \in Owned(s) /\ f \in Owned(t)
    <3>1. CASE e \in Entries(lists)
      BY <2>1, <2>2, <3>1 DEF Home
    <3>2. CASE e \notin Entries(lists)
      <4> DEFINE k == FirstKey(Source(lists, s))
      <4>1. Source(lists, s).keys # <<>> /\ At(next, e).keys = <<k>>
        BY <2>1, <2>2, <3>2 DEF Home, Made
      <4>2. PICK f : f \in Owned(s) /\ f \in Entries(lists) /\ At(lists, f) = Source(lists, s)
        BY SourceShares
      <4>3. k \in ToSet(At(lists, f).keys)
        <5>1. Source(lists, s) \in Entry
          BY SourceListed
        <5> QED BY <4>1, <4>2, <5>1, KeysOf
      <4>4. f \in Entries(next) /\ At(next, f) = At(lists, f)
        BY <4>2 DEF Made
      <4> HIDE DEF k
      <4>5. Share(At(next, e), At(next, f))
        BY <4>1, <4>3, <4>4 DEF Share, ToSet
      <4>6. f \in Account(next, e)
        BY <2>1, <4>4, <4>5, LinkedBy
      <4> QED BY <2>1, <4>2, <4>6
    <3> QED BY <3>1, <3>2
  <2> QED BY <1>3, <2>3
<1> QED BY <1>4, <1>5, <1>6, <1>7

\* So there are as many sites as before.
LEMMA MadeCounts ==
    ASSUME NEW lists, IsLists(lists), Tidy(lists), NEW next, IsLists(next), NEW mine,
           Made(lists, next, mine)
    PROVE  Cardinality(BuildSites(next)) = Cardinality(BuildSites(lists))
<1> DEFINE S == BuildSites(lists)
           T == BuildSites(next)
           f == [s \in S |-> CHOOSE t \in T : Owned(s) \subseteq Owned(t)]
<1>1. /\ \A s \in S : \E t \in T : Owned(s) \subseteq Owned(t)
      /\ \A s \in S : \A t, u \in T : Owned(s) \subseteq Owned(t) /\ Owned(s) \subseteq Owned(u) => t = u
      /\ \A s, r \in S : \A t \in T : Owned(s) \subseteq Owned(t) /\ Owned(r) \subseteq Owned(t) => s = r
      /\ \A t \in T : \E s \in S : Owned(s) \subseteq Owned(t)
  BY MadeGrows
<1>2. IsFiniteSet(S)
  BY SitesFinite
<1> HIDE DEF S, T
<1>3. \A s \in S : f[s] \in T /\ Owned(s) \subseteq Owned(f[s])
  BY <1>1
<1>4. f \in [S -> T]
  BY <1>3
<1> HIDE DEF f
<1>5. \A s, r \in S : f[s] = f[r] => s = r
  BY <1>1, <1>3
<1>6. \A t \in T : \E s \in S : f[s] = t
  BY <1>1, <1>3
<1>7. f \in Bijection(S, T)
  BY <1>4, <1>5, <1>6 DEF Bijection, Injection, Surjection, IsInjective
<1>8. ExistsBijection(S, T)
  BY <1>7 DEF ExistsBijection
<1> QED BY <1>2, <1>8, FS_Bijection DEF S, T

\* The listing of a finite set lists nothing twice.
LEMMA SetListedOnce ==
    ASSUME NEW S, IsFiniteSet(S), NEW i \in DOMAIN SetToSeq(S), NEW j \in DOMAIN SetToSeq(S),
           SetToSeq(S)[i] = SetToSeq(S)[j]
    PROVE  i = j
<1>1. PICK n \in Nat : ExistsBijection(1..n, S)
  BY FS_NatBijection
<1>2. Cardinality(S) = n
  BY <1>1, FS_CountingElements
<1>3. PICK f : f \in [1..n -> S] /\ IsInjective(f)
  BY <1>1 DEF ExistsBijection, Bijection, Injection
<1>4. SetToSeq(S) \in [1..n -> S] /\ IsInjective(SetToSeq(S))
  BY <1>2, <1>3 DEF SetToSeq
<1> DEFINE g == SetToSeq(S)
<1>5. IsInjective(g) /\ i \in DOMAIN g /\ j \in DOMAIN g /\ g[i] = g[j]
  BY <1>4
<1> HIDE DEF g
<1> QED BY <1>5 DEF IsInjective

\* For each site that needs one its entry, behind the entries of the list.
With(list, S, F) == list \o [i \in DOMAIN SetToSeq(S) |-> F[SetToSeq(S)[i]]]

\* Each of the entries is one.
Entering(S, F) == \A x \in S : F[x] \in Entry

\* One list of a save.
LEMMA ListGrows ==
    ASSUME NEW list \in Seq(Entry), NEW S, IsFiniteSet(S), NEW F, Entering(S, F),
           NEW next, next = With(list, S, F)
    PROVE  /\ \A n \in DOMAIN list : n \in DOMAIN next /\ next[n] = list[n]
           /\ \A n \in DOMAIN next \ DOMAIN list :
                /\ n - Len(list) \in DOMAIN SetToSeq(S)
                /\ SetToSeq(S)[n - Len(list)] \in S
                /\ next[n] = F[SetToSeq(S)[n - Len(list)]]
<1> DEFINE q == SetToSeq(S)
           made == [i \in DOMAIN q |-> F[q[i]]]
           L == Len(list)
<1>1. q \in Seq(S) /\ DOMAIN q = 1..Len(q) /\ \A i \in DOMAIN q : q[i] \in S
  BY SetListed
<1>2. next = list \o made
  BY DEF With
<1> HIDE DEF q
<1>3. Len(q) \in Nat
  BY <1>1
<1>4. /\ made \in [1..Len(q) -> Entry]
      /\ \A i \in 1..Len(q) : made[i] = F[q[i]]
  BY <1>1 DEF Entering
<1>5. made \in Seq(Entry) /\ Len(made) = Len(q)
  <2> HIDE DEF made
  <2> QED BY <1>3, <1>4, SeqDef
<1> HIDE DEF made
<1>6. /\ next \in Seq(Entry) /\ Len(next) = Len(list) + Len(made)
      /\ \A i \in 1..(Len(list) + Len(made)) :
            next[i] = IF i <= Len(list) THEN list[i] ELSE made[i - Len(list)]
  <2>1. /\ list \o made \in Seq(Entry) /\ Len(list \o made) = Len(list) + Len(made)
        /\ \A i \in 1..(Len(list) + Len(made)) :
              (list \o made)[i] = IF i <= Len(list) THEN list[i] ELSE made[i - Len(list)]
    BY <1>5, ConcatProperties
  <2> QED BY <1>2, <2>1
<1>7. L \in Nat /\ DOMAIN list = 1..L
  OBVIOUS
<1>8. DOMAIN next = 1..(L + Len(q))
  BY <1>5, <1>6
<1>9. \A i \in 1..(L + Len(q)) : next[i] = IF i <= L THEN list[i] ELSE made[i - L]
  BY <1>5, <1>6
<1> HIDE DEF L
<1>10. ASSUME NEW n \in 1..L PROVE n \in 1..(L + Len(q)) /\ next[n] = list[n]
  <2>1. n \in 1..(L + Len(q)) /\ n <= L
    BY <1>3, <1>7
  <2> QED BY <1>9, <2>1
<1>11. ASSUME NEW n \in 1..(L + Len(q)), n \notin 1..L
       PROVE  n - L \in 1..Len(q) /\ next[n] = F[q[n - L]]
  <2>1. n - L \in 1..Len(q) /\ ~(n <= L)
    BY <1>3, <1>7, <1>11
  <2>2. next[n] = made[n - L]
    BY <1>9, <2>1
  <2> QED BY <1>4, <2>1, <2>2
<1>12. ASSUME NEW n \in DOMAIN next \ DOMAIN list
       PROVE  n - L \in DOMAIN q /\ q[n - L] \in S /\ next[n] = F[q[n - L]]
  BY <1>1, <1>7, <1>8, <1>11
<1> QED BY <1>7, <1>8, <1>10, <1>12 DEF L, q

\* A save makes entries for sites that need them.
LEMMA SaveMakes ==
    ASSUME IsLists(cpa), Save
    PROVE  \E mine : Made(cpa, cpa', mine)
<1>1. PICK need \in SUBSET Creatable(cpa) :
        cpa' = [c \in Channels |->
                    LET homeless == SetToSeq({x \in need : x[2] = c})
                    IN  cpa[c] \o [i \in DOMAIN homeless |->
                                NewProviderFor(cpa, homeless[i][1], c)]]
  BY DEF Save
<1>2. IsFiniteSet(Channels)
  <2>1. \A n \in Nat : IsFiniteSet(1..n)
    BY FS_Interval
  <2> QED BY <2>1 DEF Channels
<1>3. IsFiniteSet(need)
  <2>1. IsFiniteSet(BuildSites(cpa) \X Channels)
    BY <1>2, SitesFinite, FS_Product
  <2> QED BY <1>1, <2>1, FS_Subset DEF Creatable
<1> DEFINE For(c) == {x \in need : x[2] = c}
           Nth(e) == SetToSeq(For(e[1]))[e[2] - Len(cpa[e[1]])]
           mine == [e \in Entries(cpa') |-> Nth(e)[1]]
<1>4. ASSUME NEW c \in Channels
      PROVE  /\ \A n \in DOMAIN cpa[c] : n \in DOMAIN cpa'[c] /\ cpa'[c][n] = cpa[c][n]
             /\ \A n \in DOMAIN cpa'[c] \ DOMAIN cpa[c] :
                    LET i == n - Len(cpa[c])
                        x == SetToSeq(For(c))[i]
                    IN  /\ i \in DOMAIN SetToSeq(For(c)) /\ x \in For(c)
                        /\ cpa'[c][n] = NewProviderFor(cpa, x[1], c)
  <2> DEFINE S == For(c)
             F == [x \in S |-> NewProviderFor(cpa, x[1], c)]
             q == SetToSeq(S)
  <2>1. IsFiniteSet(S)
    BY <1>3, FS_Subset
  <2>2. cpa'[c] = cpa[c] \o [i \in DOMAIN q |-> NewProviderFor(cpa, q[i][1], c)]
    BY <1>1
  <2>3. \A x \in S : F[x] = NewProviderFor(cpa, x[1], c) /\ F[x] \in Entry
    BY <1>1, CreatedFits DEF Creatable, Fitting
  <2> HIDE DEF S, F
  <2>4. \A i \in DOMAIN q : q[i] \in S
    BY <2>1, SetListed
  <2> HIDE DEF q
  <2>5. [i \in DOMAIN q |-> NewProviderFor(cpa, q[i][1], c)] = [i \in DOMAIN q |-> F[q[i]]]
    BY <2>3, <2>4
  <2>6. cpa'[c] = cpa[c] \o [i \in DOMAIN q |-> F[q[i]]] /\ cpa[c] \in Seq(Entry)
    BY <2>2, <2>5 DEF IsLists
  <2>7. /\ \A n \in DOMAIN cpa[c] : n \in DOMAIN cpa'[c] /\ cpa'[c][n] = cpa[c][n]
        /\ \A n \in DOMAIN cpa'[c] \ DOMAIN cpa[c] :
              /\ n - Len(cpa[c]) \in DOMAIN q
              /\ q[n - Len(cpa[c])] \in S
              /\ cpa'[c][n] = F[q[n - Len(cpa[c])]]
    <3> DEFINE a == cpa[c]
               b == cpa'[c]
    <3>1. a \in Seq(Entry) /\ IsFiniteSet(S) /\ Entering(S, F) /\ b = With(a, S, F)
      BY <2>1, <2>3, <2>6 DEF q, Entering, With
    <3> HIDE DEF a, b
    <3>2. /\ \A n \in DOMAIN a : n \in DOMAIN b /\ b[n] = a[n]
          /\ \A n \in DOMAIN b \ DOMAIN a :
                /\ n - Len(a) \in DOMAIN SetToSeq(S)
                /\ SetToSeq(S)[n - Len(a)] \in S
                /\ b[n] = F[SetToSeq(S)[n - Len(a)]]
      BY <3>1, ListGrows
    <3> QED BY <3>2 DEF a, b, q
  <2> QED BY <2>3, <2>7 DEF q, S
<1>5. ASSUME NEW e \in Entries(cpa)
      PROVE  e \in Entries(cpa') /\ At(cpa', e) = At(cpa, e)
  <2>1. PICK c \in Channels : e \in {c} \X DOMAIN cpa[c]
    BY DEF Entries
  <2>2. e[1] = c /\ e[2] \in DOMAIN cpa[c] /\ e = <<c, e[2]>>
    BY <2>1
  <2>3. e[2] \in DOMAIN cpa'[c] /\ cpa'[c][e[2]] = cpa[c][e[2]]
    BY <1>4, <2>2
  <2>4. e \in {c} \X DOMAIN cpa'[c]
    BY <2>2, <2>3
  <2> QED BY <2>2, <2>3, <2>4 DEF Entries, At
<1>6. ASSUME NEW e \in Entries(cpa') \ Entries(cpa)
      PROVE  /\ e[1] \in Channels /\ e = <<e[1], e[2]>>
             /\ e[2] - Len(cpa[e[1]]) \in DOMAIN SetToSeq(For(e[1]))
             /\ Nth(e) \in For(e[1]) /\ e[2] \in Nat /\ Len(cpa[e[1]]) \in Nat
             /\ At(cpa', e) = NewProviderFor(cpa, Nth(e)[1], e[1])
  <2>1. PICK c \in Channels : e \in {c} \X DOMAIN cpa'[c]
    BY DEF Entries
  <2>2. e[1] = c /\ e[2] \in DOMAIN cpa'[c] /\ e = <<c, e[2]>>
    BY <2>1
  <2>3. e[2] \notin DOMAIN cpa[c]
    <3>1. e \notin {c} \X DOMAIN cpa[c]
      BY <1>6 DEF Entries
    <3> QED BY <2>2, <3>1
  <2>4. cpa'[c] \in Seq(Entry) /\ cpa[c] \in Seq(Entry)
    BY SaveFits DEF IsLists
  <2>5. e[2] \in Nat /\ Len(cpa[c]) \in Nat
    BY <2>2, <2>4
  <2> HIDE DEF For
  <2> QED BY <1>4, <2>2, <2>3, <2>5 DEF At
<1>7. ASSUME NEW e \in Entries(cpa') \ Entries(cpa)
      PROVE  /\ mine[e] \in BuildSites(cpa) /\ mine[e].at[e[1]] = 0
             /\ Source(cpa, mine[e]).keys # <<>>
             /\ At(cpa', e).keys = <<FirstKey(Source(cpa, mine[e]))>>
  <2>1. Nth(e) \in need /\ Nth(e)[2] = e[1]
    BY <1>6
  <2>2. mine[e] = Nth(e)[1]
    OBVIOUS
  <2>3. At(cpa', e) = NewProviderFor(cpa, Nth(e)[1], e[1])
    BY <1>6
  <2> HIDE DEF Nth, mine
  <2>4. Nth(e) \in Creatable(cpa)
    BY <1>1, <2>1
  <2> QED BY <2>1, <2>2, <2>3, <2>4 DEF Creatable, CanCreate, NewProviderFor
<1>8. ASSUME NEW e \in Entries(cpa') \ Entries(cpa), NEW f \in Entries(cpa') \ Entries(cpa),
             e[1] = f[1], mine[e] = mine[f]
      PROVE  e = f
  <2> DEFINE c == e[1]
             i == e[2] - Len(cpa[c])
             j == f[2] - Len(cpa[c])
             S == For(c)
  <2>1. /\ i \in DOMAIN SetToSeq(S) /\ SetToSeq(S)[i] \in S
        /\ j \in DOMAIN SetToSeq(S) /\ SetToSeq(S)[j] \in S
        /\ SetToSeq(S)[i][1] = SetToSeq(S)[j][1]
    BY <1>6, <1>8
  <2>2. \A x \in S : x = <<x[1], x[2]>> /\ x[2] = c
    BY <1>1 DEF Creatable
  <2>3. IsFiniteSet(S)
    BY <1>3, FS_Subset
  <2>4. e = <<c, e[2]>> /\ f = <<c, f[2]>> /\ e[2] \in Nat /\ f[2] \in Nat /\ Len(cpa[c]) \in Nat
    <3> HIDE DEF For
    <3> QED BY <1>6, <1>8
  <2> HIDE DEF S
  <2>5. SetToSeq(S)[i] = SetToSeq(S)[j]
    BY <2>1, <2>2
  <2>6. i = j
    <3> HIDE DEF i, j
    <3> QED BY <2>1, <2>3, <2>5, SetListedOnce
  <2>7. e[2] = f[2]
    BY <2>4, <2>6
  <2> QED BY <2>4, <2>7
<1> HIDE DEF mine
<1>9. Made(cpa, cpa', mine)
  BY <1>5, <1>7, <1>8 DEF Made
<1> QED BY <1>9

\* In tidy lists the entries a save makes are read back into the sites they
\* were made for, and the lists stay tidy.
THEOREM SaveIsReadBack == Spec => SaveFoundsNoSite
<1>1. ASSUME IsLists(cpa), Tidy(cpa), Save
      PROVE  /\ Tidy(cpa')
             /\ Cardinality(BuildSites(cpa')) = Cardinality(BuildSites(cpa))
             /\ \A s \in BuildSites(cpa) : \E t \in BuildSites(cpa') : Owned(s) \subseteq Owned(t)
  <2>1. PICK mine : Made(cpa, cpa', mine)
    BY <1>1, SaveMakes
  <2>2. IsLists(cpa')
    BY <1>1, SaveFits
  <2> QED BY <1>1, <2>1, <2>2, MadeTidy, MadeCounts, MadeGrows
<1> DEFINE ReadBack ==
        Tidy(cpa) /\ Save =>
            /\ Tidy(cpa')
            /\ Cardinality(BuildSites(cpa')) = Cardinality(BuildSites(cpa))
            /\ \A s \in BuildSites(cpa) : \E t \in BuildSites(cpa') : Owned(s) \subseteq Owned(t)
<1>2. TypeOK /\ [Next]_cpa => [ReadBack]_cpa
  BY <1>1 DEF TypeOK, IsLists
<1> QED BY <1>2, TypeCorrect, PTL DEF Spec, SaveFoundsNoSite
=============================================================================
