--------------------------- MODULE WriteBackProofs ---------------------------
(***************************************************************************)
(* Theorems about WriteBack, for lists of any length, any sites, models,   *)
(* drafts and edits by others: what a save writes, entry by entry, and     *)
(* that all of it is what CatalogOps says of sets of names.                *)
(***************************************************************************)
EXTENDS WriteBackSets, SequenceTheorems, FiniteSetTheorems, WellFoundedInduction, TLAPS

-----------------------------------------------------------------------------
\* Numbers.

\* Among natural numbers there is a lowest one.
LEMMA LowestNat ==
    ASSUME NEW T \in SUBSET Nat, T # {}
    PROVE  Lowest(T) \in T /\ \A n \in T : Lowest(T) <= n
<1> DEFINE R == OpToRel(<, Nat)
<1>1. IsWellFoundedOn(R, Nat)
  BY NatLessThanWellFounded
<1>2. PICK m \in T : \A n \in T : <<n, m>> \notin R
  <2> HIDE DEF R
  <2> QED BY <1>1, WFMin
<1>3. ASSUME NEW n \in T PROVE m <= n
  <2>1. m \in Nat /\ n \in Nat /\ ~(n < m)
    BY <1>2 DEF OpToRel
  <2> QED BY <2>1
<1> QED BY <1>3 DEF Lowest

\* A channel, and the lowest of several.
LEMMA ChannelNat ==
    /\ Channels \in SUBSET Nat
    /\ \A T \in SUBSET Channels : T # {} => Lowest(T) \in T
<1>1. Channels \in SUBSET Nat
  BY WriteBackAssumption DEF Channels
<1> QED BY <1>1, LowestNat

\* What holds of 0 and passes from each number to the next holds of all.
LEMMA Inductive ==
    ASSUME NEW A, 0 \in A, \A n \in Nat : n \in A => n + 1 \in A
    PROVE  \A n \in Nat : n \in A
<1> DEFINE T == Nat \ A
           m == Lowest(T)
<1> SUFFICES ASSUME T # {} PROVE FALSE
  OBVIOUS
<1>1. m \in T /\ \A n \in T : m <= n
  BY LowestNat
<1> HIDE DEF m
<1>2. m \in Nat /\ m \notin A /\ m # 0 /\ m - 1 \in Nat
  BY <1>1
<1>3. m - 1 \in A
  BY <1>1, <1>2
<1>4. (m - 1) + 1 \in A
  BY <1>2, <1>3
<1> QED BY <1>2, <1>4

-----------------------------------------------------------------------------
\* Listings.

\* q lists the elements of T, n of them, by ascending key.
Ascending(q, n, T, key) ==
    /\ q \in [1..n -> T]
    /\ \A i, j \in 1..n : i < j => key[q[i]] < key[q[j]]

\* No two elements have the same key.
Keyed(S, key) ==
    /\ IsFiniteSet(S) /\ key \in [S -> Nat]
    /\ \A x, y \in S : key[x] = key[y] => x = y

\* A set has such a listing.
LEMMA ListingExists ==
    ASSUME NEW S, NEW key, Keyed(S, key)
    PROVE  \E q : Ascending(q, Cardinality(S), S, key)
<1> DEFINE A == {n \in Nat : \A T \in SUBSET S :
                    Cardinality(T) = n => \E q : Ascending(q, n, T, key)}
<1>1. 0 \in A
  <2> SUFFICES ASSUME NEW T \in SUBSET S PROVE \E q : Ascending(q, 0, T, key)
    OBVIOUS
  <2> DEFINE e == [i \in 1..0 |-> {}]
  <2>1. e \in [1..0 -> T] /\ \A i \in 1..0 : FALSE
    OBVIOUS
  <2> QED BY <2>1 DEF Ascending
<1>2. ASSUME NEW n \in Nat, n \in A PROVE n + 1 \in A
  <2> SUFFICES ASSUME NEW T \in SUBSET S, Cardinality(T) = n + 1
               PROVE  \E q : Ascending(q, n + 1, T, key)
    OBVIOUS
  <2> DEFINE keys == {key[x] : x \in T}
  <2>1. IsFiniteSet(T)
    BY FS_Subset DEF Keyed
  <2>2. T # {}
    BY FS_EmptySet
  <2>3. keys \in SUBSET Nat /\ keys # {}
    BY <2>2 DEF Keyed
  <2>4. PICK x \in T : \A y \in T : key[x] <= key[y]
    <3>1. Lowest(keys) \in keys /\ \A k \in keys : Lowest(keys) <= k
      <4> HIDE DEF keys
      <4> QED BY <2>3, LowestNat
    <3> QED BY <3>1
  <2> DEFINE U == T \ {x}
  <2>5. IsFiniteSet(U) /\ Cardinality(U) = n
    <3>1. Cardinality(U) = (n + 1) - 1
      BY <2>1, <2>4, FS_RemoveElement
    <3>2. IsFiniteSet(U)
      BY <2>1, FS_RemoveElement
    <3> QED BY <3>1, <3>2
  <2>6. PICK q : Ascending(q, n, U, key)
    BY <1>2, <2>5
  <2> DEFINE p == [i \in 1..(n + 1) |-> IF i = 1 THEN x ELSE q[i - 1]]
  <2>7. p \in [1..(n + 1) -> T]
    <3>1. \A i \in 1..(n + 1) : i # 1 => i - 1 \in 1..n
      OBVIOUS
    <3> QED BY <2>4, <2>6, <3>1 DEF Ascending
  <2>8. ASSUME NEW i \in 1..(n + 1), NEW j \in 1..(n + 1), i < j
        PROVE  key[p[i]] < key[p[j]]
    <3>1. j - 1 \in 1..n /\ j # 1 /\ p[j] = q[j - 1] /\ q[j - 1] \in U
      BY <2>6, <2>8 DEF Ascending
    <3>2. CASE i = 1
      <4>1. key[x] <= key[q[j - 1]] /\ key[x] # key[q[j - 1]]
            /\ key[x] \in Nat /\ key[q[j - 1]] \in Nat
        BY <2>4, <3>1 DEF Keyed
      <4>2. p[i] = x
        BY <3>2
      <4> HIDE DEF p
      <4> QED BY <3>1, <4>1, <4>2
    <3>3. CASE i # 1
      <4>1. i - 1 \in 1..n /\ i - 1 < j - 1 /\ p[i] = q[i - 1]
        BY <2>8, <3>3
      <4> HIDE DEF p
      <4> QED BY <2>6, <3>1, <4>1 DEF Ascending
    <3> QED BY <3>2, <3>3
  <2> HIDE DEF p
  <2> QED BY <2>7, <2>8 DEF Ascending
<1>3. Cardinality(S) \in A
  <2>1. Cardinality(S) \in Nat
    BY FS_CardinalityType DEF Keyed
  <2> HIDE DEF A
  <2> QED BY <1>1, <1>2, <2>1, Inductive
<1> QED BY <1>3

\* InOrder is one, and leaves nothing out.
LEMMA Listing ==
    ASSUME NEW S, NEW key, Keyed(S, key)
    PROVE  /\ Cardinality(S) \in Nat
           /\ Ascending(InOrder(S, key), Cardinality(S), S, key)
           /\ DOMAIN InOrder(S, key) = 1..Cardinality(S)
           /\ \A x \in S : \E i \in 1..Cardinality(S) : InOrder(S, key)[i] = x
           /\ \A i, j \in 1..Cardinality(S) : InOrder(S, key)[i] = InOrder(S, key)[j] => i = j
<1> DEFINE n == Cardinality(S)
           q == InOrder(S, key)
           D == 1..n
<1>1. n \in Nat /\ IsFiniteSet(S)
  BY FS_CardinalityType DEF Keyed
<1>2. Ascending(q, n, S, key)
  BY ListingExists DEF InOrder, Ascending
<1>3. IsFiniteSet(D) /\ Cardinality(D) = n
  <2>1. \A k \in Nat : IsFiniteSet(1..k) /\ Cardinality(1..k) = k
    <3> SUFFICES ASSUME NEW k \in Nat PROVE IsFiniteSet(1..k) /\ Cardinality(1..k) = k
      OBVIOUS
    <3>1. 1 \in Int /\ k \in Int
      OBVIOUS
    <3>2. IsFiniteSet(1..k) /\ Cardinality(1..k) = IF 1 > k THEN 0 ELSE k - 1 + 1
      BY <3>1, FS_Interval
    <3> QED BY <3>2
  <2> QED BY <1>1, <2>1
<1> HIDE DEF n, q
<1>4. ASSUME NEW i \in D, NEW j \in D, q[i] = q[j] PROVE i = j
  <2>1. i \in Nat /\ j \in Nat /\ ~(i < j) /\ ~(j < i)
    <3>1. i \in Nat /\ j \in Nat
      BY <1>1
    <3>2. key[q[i]] \in Nat /\ key[q[i]] = key[q[j]]
      BY <1>2, <1>4 DEF Ascending, Keyed
    <3>3. ~(key[q[i]] < key[q[j]]) /\ ~(key[q[j]] < key[q[i]])
      BY <3>2
    <3> QED BY <1>2, <3>1, <3>3 DEF Ascending
  <2> QED BY <2>1
<1>5. q \in [D -> S]
  BY <1>2 DEF Ascending
<1> HIDE DEF D
<1>6. q \in Injection(D, S)
  BY <1>4, <1>5 DEF Injection, IsInjective
<1>7. q \in Surjection(D, S)
  <2>1. Cardinality(D) = Cardinality(S)
    BY <1>3 DEF n
  <2>2. Cardinality(D) = Cardinality(S) <=> q \in Surjection(D, S)
    BY <1>1, <1>6, FS_Injection
  <2> QED BY <2>1, <2>2
<1>8. \A x \in S : \E i \in D : q[i] = x
  BY <1>7 DEF Surjection
<1> QED BY <1>1, <1>2, <1>4, <1>5, <1>8 DEF D, n, q

\* What is keyed by its place in a listing is listed so.
LEMMA ListedByPlace ==
    ASSUME NEW S, NEW key, Keyed(S, key), NEW m \in Nat, NEW w \in [1..m -> S],
           \A x \in S : \E i \in 1..m : w[i] = x,
           \A i \in 1..m : key[w[i]] = i
    PROVE  InOrder(S, key) = w
<1> DEFINE n == Cardinality(S)
           q == InOrder(S, key)
           D == 1..m
<1>1. n \in Nat /\ Ascending(q, n, S, key) /\ DOMAIN q = 1..n
      /\ \A x \in S : \E i \in 1..n : q[i] = x
  BY Listing
<1>2. n = m
  <2>1. \A i, j \in D : w[i] = w[j] => i = j
    <3>1. \A i \in D : key[w[i]] = i
      OBVIOUS
    <3> HIDE DEF D
    <3> QED BY <3>1
  <2>2. w \in [D -> S] /\ \A x \in S : \E i \in D : w[i] = x
    OBVIOUS
  <2>3. ExistsBijection(D, S)
    <3> HIDE DEF D
    <3>1. w \in Injection(D, S) /\ w \in Surjection(D, S)
      BY <2>1, <2>2 DEF Injection, Surjection, IsInjective
    <3> QED BY <3>1 DEF ExistsBijection, Bijection
  <2> QED BY <2>3, FS_CountingElements
<1> HIDE DEF n, q
<1> DEFINE f == [i \in D |-> key[q[i]]]
<1>3. f \in [D -> D]
  <2> SUFFICES ASSUME NEW i \in D PROVE key[q[i]] \in D
    OBVIOUS
  <2>1. q[i] \in S
    BY <1>1, <1>2 DEF Ascending
  <2> QED BY <2>1
<1>4. \A i, j \in D : i < j => f[i] < f[j]
  BY <1>1, <1>2 DEF Ascending
<1>5. \A k \in D : \E i \in D : f[i] = k
  <2> SUFFICES ASSUME NEW k \in D PROVE \E i \in D : key[q[i]] = k
    OBVIOUS
  <2>1. w[k] \in S /\ key[w[k]] = k
    OBVIOUS
  <2>2. PICK i \in 1..n : q[i] = w[k]
    BY <1>1, <2>1
  <2> QED BY <1>2, <2>1, <2>2
<1>6. \A i \in D : f[i] = i
  <2> HIDE DEF f
  <2> DEFINE Off == {i \in D : f[i] # i}
             l   == Lowest(Off)
  <2> SUFFICES ASSUME Off # {} PROVE FALSE
    OBVIOUS
  <2>1. l \in Off /\ \A i \in Off : l <= i
    <3>1. Off \in SUBSET Nat
      OBVIOUS
    <3> HIDE DEF Off
    <3> QED BY <3>1, LowestNat
  <2> HIDE DEF l
  <2>2. l \in D /\ f[l] # l /\ l \in Nat /\ f[l] \in D /\ f[l] \in Nat
    BY <1>3, <2>1
  <2>3. ASSUME NEW i \in D, i < l PROVE f[i] = i
    <3>1. i \notin Off
      BY <2>1, <2>2, <2>3
    <3> QED BY <3>1
  <2>4. ~(f[l] < l)
    <3> SUFFICES ASSUME f[l] < l PROVE FALSE
      OBVIOUS
    <3>1. f[f[l]] = f[l]
      BY <2>2, <2>3
    <3>2. f[f[l]] < f[l]
      BY <1>4, <2>2
    <3> QED BY <2>2, <3>1, <3>2
  <2>5. PICK j \in D : f[j] = l
    BY <1>5, <2>2
  <2>6. ~(j < l) /\ j # l /\ j \in Nat
    BY <2>2, <2>3, <2>5
  <2>7. f[l] < f[j]
    BY <1>4, <2>2, <2>6
  <2> QED BY <2>2, <2>4, <2>5, <2>7
<1>7. ASSUME NEW i \in D PROVE q[i] = w[i]
  <2>1. q[i] \in S /\ w[i] \in S /\ key[q[i]] = key[w[i]]
    <3>1. q[i] \in S
      BY <1>1, <1>2 DEF Ascending
    <3> QED BY <1>6, <3>1
  <2> QED BY <2>1 DEF Keyed
<1>8. q \in [D -> S]
  BY <1>1, <1>2 DEF Ascending
<1> QED BY <1>7, <1>8 DEF q

-----------------------------------------------------------------------------
\* Reading a snapshot.

IsCfg(cfg) == cfg \in [Channels -> Seq(Provider)]

\* The providers of a site in a list.
Mine(cfg, c, s) == {i \in DOMAIN cfg[c] : cfg[c][i].owner = s}

\* Of finitely many places there is a last one.
LEMMA LastPlace ==
    ASSUME NEW n \in Nat, NEW T \in SUBSET (1..n), T # {}
    PROVE  \E i \in T : \A j \in T : j <= i
<1> DEFINE B == {m \in Nat : \A j \in T : j <= m}
           b == Lowest(B)
<1>1. B \in SUBSET Nat /\ n \in B
  OBVIOUS
<1>2. b \in B /\ \A m \in B : b <= m
  <2> HIDE DEF B
  <2> QED BY <1>1, LowestNat
<1> HIDE DEF b
<1>3. SUFFICES ASSUME b \notin T PROVE FALSE
  BY <1>2
<1>4. \A j \in T : j <= b /\ j # b /\ j \in Nat
  BY <1>2, <1>3
<1>5. b \in Nat /\ b # 0
  <2>1. b \in Nat
    BY <1>2
  <2>2. PICK j \in T : j \in 1..n
    OBVIOUS
  <2> QED BY <1>4, <2>1, <2>2
<1>6. b - 1 \in Nat /\ \A j \in T : j <= b - 1
  BY <1>4, <1>5
<1>7. b - 1 \in B
  BY <1>6
<1>8. b <= b - 1
  BY <1>2, <1>7
<1> QED BY <1>5, <1>8

\* The provider that stands for a site in a list.
LEMMA IndexFacts ==
    ASSUME NEW cfg, IsCfg(cfg), NEW c \in Channels, NEW s
    PROVE  /\ IndexOf(cfg, c, s) = 0 => Mine(cfg, c, s) = {}
           /\ IndexOf(cfg, c, s) # 0 =>
                 /\ IndexOf(cfg, c, s) \in DOMAIN cfg[c]
                 /\ cfg[c][IndexOf(cfg, c, s)].owner = s
                 /\ \A j \in Mine(cfg, c, s) : j <= IndexOf(cfg, c, s)
<1>1. cfg[c] \in Seq(Provider) /\ DOMAIN cfg[c] = 1..Len(cfg[c]) /\ Len(cfg[c]) \in Nat
  BY DEF IsCfg
<1> DEFINE mine == Mine(cfg, c, s)
<1>2. CASE mine = {}
  BY <1>2 DEF IndexOf, Mine
<1>3. CASE mine # {}
  <2> DEFINE k == CHOOSE i \in mine : \A j \in mine : j <= i
  <2>1. mine \in SUBSET (1..Len(cfg[c]))
    BY <1>1 DEF Mine
  <2>2. IndexOf(cfg, c, s) = k
    BY <1>3 DEF IndexOf, Mine
  <2>3. \E i \in mine : \A j \in mine : j <= i
    <3> HIDE DEF mine
    <3> QED BY <1>1, <1>3, <2>1, LastPlace
  <2>4. k \in mine /\ \A j \in mine : j <= k
    BY <2>3
  <2>5. k # 0 /\ k \in DOMAIN cfg[c] /\ cfg[c][k].owner = s
    <3> HIDE DEF k
    <3>1. k \in DOMAIN cfg[c] /\ cfg[c][k].owner = s
      BY <2>4 DEF Mine
    <3> QED BY <1>1, <3>1
  <2> HIDE DEF k
  <2> QED BY <2>2, <2>4, <2>5
<1> QED BY <1>2, <1>3

\* It is the provider of that site with no other of the site behind it.
LEMMA IndexIs ==
    ASSUME NEW cfg, IsCfg(cfg), NEW c \in Channels, NEW s,
           NEW i \in DOMAIN cfg[c], cfg[c][i].owner = s,
           \A j \in DOMAIN cfg[c] : j > i => cfg[c][j].owner # s
    PROVE  IndexOf(cfg, c, s) = i
<1>1. DOMAIN cfg[c] = 1..Len(cfg[c]) /\ Len(cfg[c]) \in Nat
  BY DEF IsCfg
<1>2. i \in Mine(cfg, c, s)
  BY DEF Mine
<1> DEFINE k == IndexOf(cfg, c, s)
<1>3. k # 0 /\ k \in DOMAIN cfg[c] /\ cfg[c][k].owner = s /\ i <= k
  BY <1>2, IndexFacts
<1> HIDE DEF k
<1>4. ~(k > i)
  BY <1>3
<1>5. k = i
  BY <1>1, <1>3, <1>4
<1> QED BY <1>5 DEF k

\* Its list.
LEMMA ModelsFacts ==
    ASSUME NEW cfg, IsCfg(cfg), NEW c \in Channels, NEW s
    PROVE  /\ ModelsOf(cfg, c, s) \in Seq(Model)
           /\ Len(ModelsOf(cfg, c, s)) \in Nat
           /\ DOMAIN ModelsOf(cfg, c, s) = 1..Len(ModelsOf(cfg, c, s))
           /\ \A i \in DOMAIN ModelsOf(cfg, c, s) : ModelsOf(cfg, c, s)[i] \in Model
           /\ ModelsOf(cfg, c, s) # <<>> => Known(cfg, s)
<1> DEFINE k == IndexOf(cfg, c, s)
           list == ModelsOf(cfg, c, s)
<1>1. list \in Seq(Model)
  <2>1. CASE k = 0
    BY <2>1, EmptySeq DEF ModelsOf
  <2>2. CASE k # 0
    <3>1. k \in DOMAIN cfg[c] /\ cfg[c] \in Seq(Provider)
      BY <2>2, IndexFacts DEF IsCfg
    <3>2. cfg[c][k] \in Provider
      <4> HIDE DEF k
      <4> QED BY <3>1
    <3>3. list = cfg[c][k].models
      BY <2>2 DEF ModelsOf
    <3> HIDE DEF k, list
    <3> QED BY <3>2, <3>3 DEF Provider
  <2> QED BY <2>1, <2>2
<1>2. list # <<>> => Known(cfg, s)
  BY DEF ModelsOf, Known
<1>3. list \in Seq(Model) => /\ Len(list) \in Nat /\ DOMAIN list = 1..Len(list)
                             /\ \A i \in DOMAIN list : list[i] \in Model
  <2> HIDE DEF list
  <2> QED OBVIOUS
<1> QED BY <1>1, <1>2, <1>3

\* The places of a model in a list, and the first of them.
LEMMA PlacesFacts ==
    ASSUME NEW list \in Seq(Model), NEW u
    PROVE  /\ Places(list, u) \in SUBSET (1..Len(list))
           /\ Places(list, u) # {} =>
                 /\ Lowest(Places(list, u)) \in Places(list, u)
                 /\ Lowest(Places(list, u)) \in 1..Len(list)
                 /\ list[Lowest(Places(list, u))].name = u
                 /\ \A i \in Places(list, u) : Lowest(Places(list, u)) <= i
<1> DEFINE at == Places(list, u)
<1>1. at \in SUBSET (1..Len(list)) /\ Len(list) \in Nat /\ \A i \in at : list[i].name = u
  BY DEF Places
<1>2. at \in SUBSET Nat
  BY <1>1
<1> HIDE DEF at
<1>3. at # {} => Lowest(at) \in at /\ \A i \in at : Lowest(at) <= i
  BY <1>2, LowestNat
<1> QED BY <1>1, <1>3 DEF at

IsOcc(occ) == occ \in [Channels -> Copy \cup {NoCopy}]

\* The copies a snapshot has of a model.
LEMMA CopiesFacts ==
    ASSUME NEW cfg, IsCfg(cfg), NEW r, NEW c \in Channels
    PROVE  LET list == ModelsOf(cfg, c, r[1])
               at   == Places(list, r[2])
               copy == Copies(cfg, r)[c]
           IN  /\ at = {} => copy = NoCopy
               /\ at # {} => /\ copy # NoCopy /\ copy \in Copy
                             /\ copy.at = Lowest(at) /\ copy.at \in at
                             /\ copy.alias = list[copy.at].alias
                             /\ copy.raw = list[copy.at].raw
<1> DEFINE list == ModelsOf(cfg, c, r[1])
           at   == Places(list, r[2])
           l    == Lowest(at)
           copy == Copies(cfg, r)[c]
<1>1. copy = IF at = {} THEN NoCopy
             ELSE [alias |-> list[l].alias, raw |-> list[l].raw, at |-> l]
  BY DEF Copies
<1>2. CASE at = {}
  BY <1>1, <1>2
<1>3. CASE at # {}
  <2>1. list \in Seq(Model) /\ Len(list) \in Nat
    BY ModelsFacts
  <2>2. l \in at /\ l \in 1..Len(list)
    <3> HIDE DEF list
    <3> QED BY <1>3, <2>1, PlacesFacts
  <2>3. copy = [alias |-> list[l].alias, raw |-> list[l].raw, at |-> l]
    BY <1>1, <1>3
  <2> HIDE DEF list, l, copy
  <2>4. list[l] \in Model /\ l \in Nat
    BY <2>1, <2>2
  <2>5. copy \in Copy /\ copy.at = l /\ copy.alias = list[l].alias /\ copy.raw = list[l].raw
    BY <2>3, <2>4 DEF Copy, Model
  <2>6. copy # NoCopy
    BY <2>5, WriteBackAssumption
  <2> QED BY <1>3, <2>2, <2>5, <2>6 DEF l, copy, list
<1> QED BY <1>2, <1>3

LEMMA CopiesType ==
    ASSUME NEW cfg, IsCfg(cfg), NEW r
    PROVE  /\ IsOcc(Copies(cfg, r))
           /\ Holds(cfg, r) <=>
                 \E c \in Channels : Places(ModelsOf(cfg, c, r[1]), r[2]) # {}
           /\ Holds(cfg, r) => Known(cfg, r[1])
<1>1. \A c \in Channels : Copies(cfg, r)[c] \in Copy \cup {NoCopy}
  BY CopiesFacts
<1>2. IsOcc(Copies(cfg, r))
  BY <1>1 DEF IsOcc, Copies
<1>3. \A c \in Channels : Copies(cfg, r)[c] # NoCopy <=>
                             Places(ModelsOf(cfg, c, r[1]), r[2]) # {}
  BY CopiesFacts
<1>4. Holds(cfg, r) <=> \E c \in Channels : Places(ModelsOf(cfg, c, r[1]), r[2]) # {}
  BY <1>3 DEF Holds, InLists
<1>5. ASSUME NEW c \in Channels, Places(ModelsOf(cfg, c, r[1]), r[2]) # {}
      PROVE  Known(cfg, r[1])
  <2>1. ModelsOf(cfg, c, r[1]) # <<>>
    <3>1. DOMAIN <<>> = {}
      OBVIOUS
    <3> QED BY <1>5, <3>1 DEF Places
  <2> QED BY <2>1, ModelsFacts
<1> QED BY <1>2, <1>4, <1>5

-----------------------------------------------------------------------------
\* The catalog, entry by entry.

\* An entry has a copy in some list.
Sound(e) == e \in Entry /\ InLists(e.occ) # {}

IsCat(cat) == \A r \in Refs : cat[r] # NoEntry => Sound(cat[r])

\* No entry knows a place.
Stored(cat) == \A r \in Refs : cat[r] # NoEntry => \A c \in Channels : ~InPlace(cat[r], c)

\* The entries are of sites the snapshot has, and the places they know are
\* places of their model.
Fits(cat, cfg) ==
    \A r \in Refs : cat[r] # NoEntry =>
        /\ Known(cfg, r[1])
        /\ \A c \in Channels : InPlace(cat[r], c) =>
               cat[r].occ[c].at \in Places(ModelsOf(cfg, c, r[1]), r[2])

\* What an entry is.
LEMMA EntryFacts ==
    ASSUME NEW e \in Entry
    PROVE  /\ e # NoEntry
           /\ e.present \in BOOLEAN /\ e.pending \in BOOLEAN
           /\ e.withheld \in BOOLEAN /\ e.gone \in BOOLEAN
           /\ IsOcc(e.occ)
           /\ \A c \in Channels : e.occ[c] # NoCopy =>
                 /\ e.occ[c] \in Copy /\ e.occ[c].alias \in Alias
                 /\ e.occ[c].raw \in Fields \cup {NoFields} /\ e.occ[c].at \in Nat
<1>1. e # NoEntry
  BY WriteBackAssumption
<1>2. e.occ \in [Channels -> Copy \cup {NoCopy}]
  BY DEF Entry
<1>3. \A c \in Channels : e.occ[c] # NoCopy => e.occ[c] \in Copy
  BY <1>2
<1>4. \A p \in Copy : p.alias \in Alias /\ p.raw \in Fields \cup {NoFields} /\ p.at \in Nat
  BY DEF Copy
<1>5. e.present \in BOOLEAN /\ e.pending \in BOOLEAN
      /\ e.withheld \in BOOLEAN /\ e.gone \in BOOLEAN
  BY DEF Entry
<1> QED BY <1>1, <1>2, <1>3, <1>4, <1>5 DEF IsOcc

\* Forgetting the places changes nothing else.
LEMMA PlacelessFacts ==
    ASSUME NEW occ, IsOcc(occ)
    PROVE  /\ IsOcc(Placeless(occ))
           /\ InLists(Placeless(occ)) = InLists(occ)
           /\ \A c \in Channels :
                 /\ occ[c] = NoCopy => Placeless(occ)[c] = NoCopy
                 /\ occ[c] # NoCopy => /\ Placeless(occ)[c] # NoCopy
                                       /\ Placeless(occ)[c].at = 0
                                       /\ Placeless(occ)[c].alias = occ[c].alias
                                       /\ Placeless(occ)[c].raw = occ[c].raw
<1>1. ASSUME NEW c \in Channels, occ[c] # NoCopy
      PROVE  /\ Placeless(occ)[c] \in Copy /\ Placeless(occ)[c] # NoCopy
             /\ Placeless(occ)[c].at = 0
             /\ Placeless(occ)[c].alias = occ[c].alias
             /\ Placeless(occ)[c].raw = occ[c].raw
  <2>1. occ[c] \in Copy
    BY <1>1 DEF IsOcc
  <2>2. Placeless(occ)[c] = [occ[c] EXCEPT !.at = 0]
    BY <1>1 DEF Placeless
  <2> DEFINE p == occ[c]
             q == Placeless(occ)[c]
  <2>3. p \in Copy /\ q = [p EXCEPT !.at = 0]
    BY <2>1, <2>2
  <2> HIDE DEF p, q
  <2>4. q \in Copy /\ q.at = 0 /\ q.alias = p.alias /\ q.raw = p.raw
    BY <2>3 DEF Copy
  <2>5. q # NoCopy
    BY <2>4, WriteBackAssumption
  <2> QED BY <2>4, <2>5 DEF p, q
<1>2. \A c \in Channels : occ[c] = NoCopy => Placeless(occ)[c] = NoCopy
  BY DEF Placeless
<1>3. \A c \in Channels : Placeless(occ)[c] \in Copy \cup {NoCopy}
  BY <1>1, <1>2
<1>4. IsOcc(Placeless(occ))
  BY <1>3 DEF IsOcc, Placeless
<1>5. InLists(Placeless(occ)) = InLists(occ)
  BY <1>1, <1>2 DEF InLists
<1> QED BY <1>1, <1>2, <1>4, <1>5

\* Nor does giving all copies a name.
LEMMA AliasedFacts ==
    ASSUME NEW occ, IsOcc(occ), NEW a \in Alias
    PROVE  /\ IsOcc(Aliased(occ, a))
           /\ InLists(Aliased(occ, a)) = InLists(occ)
           /\ \A c \in Channels :
                 /\ occ[c] = NoCopy => Aliased(occ, a)[c] = NoCopy
                 /\ occ[c] # NoCopy => /\ Aliased(occ, a)[c] # NoCopy
                                       /\ Aliased(occ, a)[c].at = occ[c].at
                                       /\ Aliased(occ, a)[c].alias = a
                                       /\ Aliased(occ, a)[c].raw = occ[c].raw
<1>1. ASSUME NEW c \in Channels, occ[c] # NoCopy
      PROVE  /\ Aliased(occ, a)[c] \in Copy /\ Aliased(occ, a)[c] # NoCopy
             /\ Aliased(occ, a)[c].at = occ[c].at
             /\ Aliased(occ, a)[c].alias = a
             /\ Aliased(occ, a)[c].raw = occ[c].raw
  <2>1. occ[c] \in Copy
    BY <1>1 DEF IsOcc
  <2>2. Aliased(occ, a)[c] = [occ[c] EXCEPT !.alias = a]
    BY <1>1 DEF Aliased
  <2> DEFINE p == occ[c]
             q == Aliased(occ, a)[c]
  <2>3. p \in Copy /\ q = [p EXCEPT !.alias = a]
    BY <2>1, <2>2
  <2> HIDE DEF p, q
  <2>4. q \in Copy /\ q.at = p.at /\ q.alias = a /\ q.raw = p.raw
    BY <2>3 DEF Copy
  <2>5. q # NoCopy
    BY <2>4, WriteBackAssumption
  <2> QED BY <2>4, <2>5 DEF p, q
<1>2. \A c \in Channels : occ[c] = NoCopy => Aliased(occ, a)[c] = NoCopy
  BY DEF Aliased
<1>3. \A c \in Channels : Aliased(occ, a)[c] \in Copy \cup {NoCopy}
  BY <1>1, <1>2
<1>4. IsOcc(Aliased(occ, a))
  BY <1>3 DEF IsOcc, Aliased
<1>5. InLists(Aliased(occ, a)) = InLists(occ)
  BY <1>1, <1>2 DEF InLists
<1> QED BY <1>1, <1>2, <1>4, <1>5

\* The same entry in all but its copies.
AllBut(e, f) ==
    /\ f.present = e.present /\ f.pending = e.pending
    /\ f.withheld = e.withheld /\ f.gone = e.gone

\* An entry with other copies.
LEMMA WithCopies ==
    ASSUME NEW e \in Entry, NEW occ, IsOcc(occ)
    PROVE  LET f == [e EXCEPT !.occ = occ]
           IN  f \in Entry /\ f # NoEntry /\ f.occ = occ /\ AllBut(e, f)
<1> DEFINE f == [e EXCEPT !.occ = occ]
<1>1. f \in Entry /\ f.occ = occ /\ AllBut(e, f)
  BY DEF Entry, IsOcc, AllBut
<1>2. f # NoEntry
  BY <1>1, EntryFacts
<1> QED BY <1>1, <1>2

\* A stored entry.
LEMMA ForgetFacts ==
    ASSUME NEW cat, IsCat(cat), NEW r \in Refs
    PROVE  /\ cat[r] = NoEntry => Forget(cat)[r] = NoEntry
           /\ cat[r] # NoEntry =>
                 /\ Forget(cat)[r] \in Entry /\ Forget(cat)[r] # NoEntry
                 /\ AllBut(cat[r], Forget(cat)[r])
                 /\ Forget(cat)[r].occ = Placeless(cat[r].occ)
<1>1. CASE cat[r] = NoEntry
  BY <1>1 DEF Forget
<1>2. CASE cat[r] # NoEntry
  <2> DEFINE e == cat[r]
             f == Forget(cat)[r]
             p == Placeless(e.occ)
  <2>1. e \in Entry /\ IsOcc(e.occ)
    BY <1>2, EntryFacts DEF IsCat, Sound
  <2>2. IsOcc(p)
    BY <2>1, PlacelessFacts
  <2>3. f = [e EXCEPT !.occ = p]
    BY <1>2 DEF Forget
  <2>4. e # NoEntry
    BY <1>2
  <2> HIDE DEF e, f, p
  <2>5. f \in Entry /\ f # NoEntry /\ f.occ = p /\ AllBut(e, f)
    BY <2>1, <2>2, <2>3, WithCopies
  <2> QED BY <2>4, <2>5 DEF e, f, p
<1> QED BY <1>1, <1>2

\* The store holds entries, and no places.
LEMMA ForgetStores ==
    ASSUME NEW cat, IsCat(cat)
    PROVE  IsCat(Forget(cat)) /\ Stored(Forget(cat))
<1> SUFFICES ASSUME NEW r \in Refs, Forget(cat)[r] # NoEntry
             PROVE  /\ Sound(Forget(cat)[r])
                    /\ \A c \in Channels : ~InPlace(Forget(cat)[r], c)
  BY DEF IsCat, Stored
<1>1. cat[r] # NoEntry
  BY ForgetFacts
<1>2. Sound(cat[r]) /\ IsOcc(cat[r].occ)
  BY <1>1, EntryFacts DEF IsCat, Sound
<1>3. Forget(cat)[r] \in Entry /\ Forget(cat)[r].occ = Placeless(cat[r].occ)
  BY <1>1, ForgetFacts
<1>4. InLists(Placeless(cat[r].occ)) # {}
  BY <1>2, PlacelessFacts DEF Sound
<1>5. \A c \in Channels : Placeless(cat[r].occ)[c] # NoCopy =>
                             Placeless(cat[r].occ)[c].at = 0
  BY <1>2, PlacelessFacts
<1> QED BY <1>3, <1>4, <1>5 DEF Sound, InPlace

\* What a load finds for a model.
LEMMA LoadedFacts ==
    ASSUME NEW cat, IsCat(cat), NEW cfg, IsCfg(cfg), NEW hid, NEW r \in Refs
    PROVE  LET e == Loaded(cat, cfg, hid)[r]
           IN  /\ Holds(cfg, r) =>
                     /\ e # NoEntry /\ Sound(e) /\ e.present /\ ~e.pending /\ ~e.withheld
                     /\ e.gone <=> (cat[r] # NoEntry /\ cat[r].gone)
                     /\ e.occ = Copies(cfg, r)
               /\ ~Holds(cfg, r) /\ e # NoEntry =>
                     /\ cat[r] # NoEntry /\ Known(cfg, r[1])
                     /\ Sound(e) /\ e.occ = cat[r].occ
                     /\ e.pending = cat[r].pending /\ e.withheld = cat[r].withheld
                     /\ e.gone = cat[r].gone /\ ~e.present
<1> DEFINE e == Loaded(cat, cfg, hid)[r]
           f == Reconcile(cat, cfg)[r]
           o == cat[r]
<1>1. /\ e # NoEntry => e = f
      /\ f # NoEntry /\ f.present => e = f
  BY DEF Loaded, Prune
<1>2. CASE Holds(cfg, r)
  <2> DEFINE g == o # NoEntry /\ o.gone
             q == Copies(cfg, r)
  <2>1. f = [present |-> TRUE, pending |-> FALSE, withheld |-> FALSE, gone |-> g, occ |-> q]
    BY <1>2 DEF Reconcile
  <2>2. g \in BOOLEAN
    OBVIOUS
  <2>3. IsOcc(q) /\ InLists(q) # {}
    BY <1>2, CopiesType DEF Holds
  <2> HIDE DEF f, g, q
  <2>4. f \in Entry /\ f.present = TRUE /\ f.pending = FALSE /\ f.withheld = FALSE
        /\ f.gone = g /\ f.occ = q
    BY <2>1, <2>2, <2>3 DEF Entry, IsOcc
  <2>5. f # NoEntry /\ Sound(f)
    BY <2>3, <2>4, EntryFacts DEF Sound
  <2>6. e = f
    BY <1>1, <2>4, <2>5
  <2> HIDE DEF e
  <2>7. /\ e # NoEntry /\ Sound(e) /\ e.present /\ ~e.pending /\ ~e.withheld
        /\ e.gone = g /\ e.occ = q
    BY <2>4, <2>5, <2>6
  <2> QED BY <1>2, <2>7 DEF e, g, q
<1>3. CASE ~Holds(cfg, r) /\ e # NoEntry
  <2>1. e = f /\ f # NoEntry
    BY <1>1, <1>3
  <2>2. o # NoEntry /\ Known(cfg, r[1]) /\ f = [o EXCEPT !.present = FALSE]
    BY <1>3, <2>1 DEF Reconcile
  <2>3. Sound(o)
    BY <2>2 DEF IsCat
  <2>4. e = [o EXCEPT !.present = FALSE]
    BY <2>1, <2>2
  <2> HIDE DEF e, f, o
  <2>5. e \in Entry /\ e.occ = o.occ /\ e.pending = o.pending /\ e.withheld = o.withheld
        /\ e.gone = o.gone /\ ~e.present
    BY <2>3, <2>4 DEF Sound, Entry
  <2>6. Sound(e)
    BY <2>3, <2>5 DEF Sound
  <2> QED BY <1>3, <2>2, <2>5, <2>6 DEF e, o
<1> QED BY <1>2, <1>3

LEMMA LoadedFits ==
    ASSUME NEW cat, IsCat(cat), Stored(cat), NEW cfg, IsCfg(cfg), NEW hid
    PROVE  IsCat(Loaded(cat, cfg, hid)) /\ Fits(Loaded(cat, cfg, hid), cfg)
<1> DEFINE new == Loaded(cat, cfg, hid)
<1> SUFFICES ASSUME NEW r \in Refs, new[r] # NoEntry
             PROVE  /\ Sound(new[r]) /\ Known(cfg, r[1])
                    /\ \A c \in Channels : InPlace(new[r], c) =>
                         new[r].occ[c].at \in Places(ModelsOf(cfg, c, r[1]), r[2])
  BY DEF IsCat, Fits
<1>1. CASE Holds(cfg, r)
  <2>1. Sound(new[r]) /\ new[r].occ = Copies(cfg, r) /\ Known(cfg, r[1])
    BY <1>1, LoadedFacts, CopiesType
  <2>2. \A c \in Channels : Copies(cfg, r)[c] # NoCopy =>
            Copies(cfg, r)[c].at \in Places(ModelsOf(cfg, c, r[1]), r[2])
    BY CopiesFacts
  <2> HIDE DEF new
  <2> QED BY <2>1, <2>2 DEF InPlace
<1>2. CASE ~Holds(cfg, r)
  <2>1. Sound(new[r]) /\ Known(cfg, r[1]) /\ cat[r] # NoEntry /\ new[r].occ = cat[r].occ
    BY <1>2, LoadedFacts
  <2>2. \A c \in Channels : ~InPlace(cat[r], c)
    BY <2>1 DEF Stored
  <2> HIDE DEF new
  <2> QED BY <2>1, <2>2 DEF InPlace
<1> QED BY <1>1, <1>2

-----------------------------------------------------------------------------
\* Drafts.

IsDraft(d) == \A op \in d : IsOp(op)

\* What a rename leaves of an entry as it was: everything but the aliases.
Like(occ, new) ==
    /\ IsOcc(new) /\ InLists(new) = InLists(occ)
    /\ \A c \in Channels : occ[c] # NoCopy =>
          new[c] # NoCopy /\ new[c].at = occ[c].at /\ new[c].raw = occ[c].raw
    /\ \A c \in Channels : occ[c] = NoCopy => new[c] = NoCopy

LEMMA RenamedFacts ==
    ASSUME NEW cat, IsCat(cat), NEW d, IsDraft(d), NEW r \in Refs
    PROVE  /\ cat[r] = NoEntry => Renamed(cat, d)[r] = NoEntry
           /\ cat[r] # NoEntry =>
                 /\ Renamed(cat, d)[r] # NoEntry /\ Sound(Renamed(cat, d)[r])
                 /\ AllBut(cat[r], Renamed(cat, d)[r])
                 /\ Like(cat[r].occ, Renamed(cat, d)[r].occ)
<1> DEFINE asked == {op \in OpsOf(d, "rename") : op.ref = r}
           e     == cat[r]
           f     == Renamed(cat, d)[r]
<1>1. CASE e = NoEntry
  BY <1>1 DEF Renamed
<1>2. CASE e # NoEntry /\ asked = {}
  <2>1. f = e
    BY <1>2 DEF Renamed
  <2>2. Sound(e) /\ IsOcc(e.occ)
    BY <1>2, EntryFacts DEF IsCat, Sound
  <2> QED BY <1>2, <2>1, <2>2 DEF AllBut, Like
<1>3. CASE e # NoEntry /\ asked # {}
  <2> DEFINE op   == CHOOSE o \in asked : TRUE
             next == IF op.to = r[2] THEN NoAlias ELSE op.to
             p    == Aliased(e.occ, next)
  <2>1. op \in asked
    BY <1>3
  <2>2. next \in Alias
    <3> HIDE DEF asked
    <3>1. asked \subseteq {o \in d : o.kind = "rename" /\ o.ref = r}
      BY DEF asked, OpsOf
    <3>2. op \in d /\ op.kind = "rename" /\ op.ref = r
      BY <2>1, <3>1
    <3>3. IsOp(op)
      BY <3>2 DEF IsDraft
    <3> HIDE DEF op
    <3>4. op.to \in Aliases \cup {r[2]}
      BY <3>2, <3>3 DEF IsOp
    <3> QED BY <3>4 DEF Alias
  <2>3. f = [e EXCEPT !.occ = p]
    BY <1>3 DEF Renamed
  <2>4. e \in Entry /\ IsOcc(e.occ) /\ InLists(e.occ) # {}
    BY <1>3, EntryFacts DEF IsCat, Sound
  <2> HIDE DEF next, e, f
  <2>5. IsOcc(p) /\ Like(e.occ, p)
    BY <2>2, <2>4, AliasedFacts DEF Like
  <2> HIDE DEF p
  <2>6. f \in Entry /\ f # NoEntry /\ f.occ = p /\ AllBut(e, f)
    BY <2>3, <2>4, <2>5, WithCopies
  <2> QED BY <2>4, <2>5, <2>6, <1>3 DEF e, f, Sound, Like
<1> QED BY <1>1, <1>2, <1>3

LEMMA RenamedFits ==
    ASSUME NEW cat, IsCat(cat), NEW cfg, Fits(cat, cfg), NEW d, IsDraft(d)
    PROVE  IsCat(Renamed(cat, d)) /\ Fits(Renamed(cat, d), cfg)
<1> DEFINE new == Renamed(cat, d)
<1> SUFFICES ASSUME NEW r \in Refs, new[r] # NoEntry
             PROVE  /\ Sound(new[r]) /\ Known(cfg, r[1])
                    /\ \A c \in Channels : InPlace(new[r], c) =>
                         new[r].occ[c].at \in Places(ModelsOf(cfg, c, r[1]), r[2])
  BY DEF IsCat, Fits
<1>1. cat[r] # NoEntry /\ Sound(new[r]) /\ Like(cat[r].occ, new[r].occ)
  BY RenamedFacts
<1>2. /\ Known(cfg, r[1])
      /\ \A c \in Channels : InPlace(cat[r], c) =>
             cat[r].occ[c].at \in Places(ModelsOf(cfg, c, r[1]), r[2])
  BY <1>1 DEF Fits
<1> HIDE DEF new
<1> QED BY <1>1, <1>2 DEF Like, InPlace

\* A draft hides models of the panel.
LEMMA HiddenType ==
    ASSUME NEW cat, NEW hid \in SUBSET Refs, NEW d, IsDraft(d)
    PROVE  HiddenAfter(cat, hid, d) \in SUBSET Refs
<1>1. OnModels(cat, d, "hide") \subseteq Refs
  <2> SUFFICES ASSUME NEW op \in d, op.kind = "hide" PROVE op.ref \in Refs
    BY DEF OnModels, OpsOf
  <2>1. IsOp(op)
    BY DEF IsDraft
  <2> QED BY <2>1 DEF IsOp
<1> QED BY <1>1 DEF HiddenAfter

\* A provider has a priority.
LEMMA PriorityType ==
    ASSUME NEW d, IsDraft(d), NEW s, NEW c, NEW old \in Priorities
    PROVE  PriorityAfter(d, s, c, old) \in Priorities
<1> DEFINE asked == {op \in OpsOf(d, "priority") : op.site = s /\ op.ch = c}
           op    == CHOOSE o \in asked : TRUE
<1>1. CASE asked = {}
  BY <1>1 DEF PriorityAfter
<1>2. CASE asked # {}
  <2>1. op \in asked
    BY <1>2
  <2>2. asked \subseteq {o \in d : o.kind = "priority"}
    BY DEF OpsOf
  <2>3. PriorityAfter(d, s, c, old) = op.to
    BY <1>2 DEF PriorityAfter
  <2> HIDE DEF asked
  <2>4. op \in d /\ op.kind = "priority"
    BY <2>1, <2>2
  <2>5. IsOp(op)
    BY <2>4 DEF IsDraft
  <2> HIDE DEF op
  <2>6. op.to \in Priorities
    BY <2>4, <2>5 DEF IsOp
  <2> QED BY <2>3, <2>6
<1> QED BY <1>1, <1>2

\* What a save keeps of the catalog it wrote.
KeptOf(next, hid) == Forget(Prune(MarkWithheld(next, hid), hid))

LEMMA KeptFacts ==
    ASSUME NEW next, IsCat(next), NEW hid
    PROVE  /\ IsCat(KeptOf(next, hid)) /\ Stored(KeptOf(next, hid))
           /\ \A r \in Refs : KeptOf(next, hid)[r] # NoEntry =>
                 /\ next[r] # NoEntry
                 /\ KeptOf(next, hid)[r].gone = next[r].gone
                 /\ InLists(KeptOf(next, hid)[r].occ) = InLists(next[r].occ)
                 /\ \A c \in InLists(next[r].occ) :
                       KeptOf(next, hid)[r].occ[c].raw = next[r].occ[c].raw
<1> DEFINE marked == MarkWithheld(next, hid)
           pruned == Prune(marked, hid)
<1>1. ASSUME NEW r \in Refs, pruned[r] # NoEntry
      PROVE  /\ Sound(pruned[r]) /\ next[r] # NoEntry
             /\ pruned[r].gone = next[r].gone /\ pruned[r].occ = next[r].occ
  <2>1. pruned[r] = marked[r] /\ marked[r] # NoEntry
    BY <1>1 DEF Prune
  <2>2. next[r] # NoEntry
    BY <2>1 DEF MarkWithheld
  <2> DEFINE w == ~next[r].gone /\ r \in hid
             e == next[r]
             f == marked[r]
  <2>3. f = [e EXCEPT !.withheld = w]
    BY <2>2 DEF MarkWithheld
  <2>4. Sound(e) /\ w \in BOOLEAN
    BY <2>2 DEF IsCat
  <2> HIDE DEF w, e, f, marked, pruned
  <2>5. Sound(f) /\ f.gone = e.gone /\ f.occ = e.occ
    BY <2>3, <2>4 DEF Sound, Entry
  <2> QED BY <2>1, <2>2, <2>5 DEF e, f
<1> HIDE DEF pruned
<1>2. IsCat(pruned)
  BY <1>1 DEF IsCat
<1>3. IsCat(Forget(pruned)) /\ Stored(Forget(pruned))
  BY <1>2, ForgetStores
<1>4. ASSUME NEW r \in Refs, Forget(pruned)[r] # NoEntry
      PROVE  /\ next[r] # NoEntry /\ Forget(pruned)[r].gone = next[r].gone
             /\ InLists(Forget(pruned)[r].occ) = InLists(next[r].occ)
             /\ \A c \in InLists(next[r].occ) :
                   Forget(pruned)[r].occ[c].raw = next[r].occ[c].raw
  <2>1. pruned[r] # NoEntry
    BY <1>2, <1>4, ForgetFacts
  <2>2. /\ AllBut(pruned[r], Forget(pruned)[r])
        /\ Forget(pruned)[r].occ = Placeless(pruned[r].occ)
    BY <1>2, <2>1, ForgetFacts
  <2>3. Sound(pruned[r]) /\ IsOcc(pruned[r].occ)
    BY <1>1, <2>1, EntryFacts DEF Sound
  <2>4. /\ InLists(Placeless(pruned[r].occ)) = InLists(pruned[r].occ)
        /\ \A c \in InLists(pruned[r].occ) :
              Placeless(pruned[r].occ)[c].raw = pruned[r].occ[c].raw
    BY <2>3, PlacelessFacts DEF InLists
  <2> QED BY <1>1, <2>1, <2>2, <2>4 DEF AllBut
<1> QED BY <1>3, <1>4 DEF KeptOf, pruned

-----------------------------------------------------------------------------
\* What a list is written from.

\* The name and the fields an entry is written with.
LEMMA SlotFacts ==
    ASSUME NEW e, Sound(e), NEW c \in Channels
    PROVE  /\ AliasOf(e) \in Alias /\ FieldsFor(e, c) \in Fields \cup {NoFields}
           /\ AnyCopy(e).raw \in {e.occ[k].raw : k \in InLists(e.occ)}
<1> DEFINE all   == InLists(e.occ)
           named == {k \in all : e.occ[k].alias # NoAlias}
<1>1. \A k \in all : /\ k \in Channels /\ e.occ[k] # NoCopy
                     /\ e.occ[k].alias \in Alias /\ e.occ[k].raw \in Fields \cup {NoFields}
  BY EntryFacts DEF Sound, InLists
<1>2. all \in SUBSET Channels /\ named \in SUBSET Channels /\ all # {}
  BY DEF Sound, InLists
<1>3. Lowest(all) \in all
  <2> HIDE DEF all
  <2> QED BY <1>2, ChannelNat
<1>4. named # {} => Lowest(named) \in all
  <2>1. named # {} => Lowest(named) \in named
    <3> HIDE DEF named
    <3> QED BY <1>2, ChannelNat
  <2> QED BY <2>1
<1>5. AliasOf(e) = IF named = {} THEN NoAlias ELSE e.occ[Lowest(named)].alias
  BY DEF AliasOf
<1>6. AnyCopy(e) = e.occ[Lowest(all)]
  BY DEF AnyCopy
<1>7. AnyCopy(e).raw \in {e.occ[k].raw : k \in all}
  <2> HIDE DEF all
  <2> QED BY <1>3, <1>6
<1>8. FieldsFor(e, c) \in Fields \cup {NoFields}
  <2>1. InPlace(e, c) => c \in all
    BY DEF InPlace, InLists
  <2>2. FieldsFor(e, c) = IF InPlace(e, c) THEN e.occ[c].raw ELSE AnyCopy(e).raw
    BY DEF FieldsFor
  <2> HIDE DEF all
  <2> QED BY <1>1, <1>3, <1>6, <2>1, <2>2
<1>9. AliasOf(e) \in Alias
  <2>1. NoAlias \in Alias
    BY DEF Alias
  <2> HIDE DEF all, named
  <2> QED BY <1>1, <1>4, <1>5, <2>1
<1> QED BY <1>7, <1>8, <1>9

\* Where each model of a list goes.
Order(cat, hid, rt, cfg, s, c) ==
    [u \in Placed(cat, hid, rt, s, c) |-> OrderOf(cfg, <<s, u>>, cat[<<s, u>>], c)]

\* A catalog as a load of cfg or a draft on it leaves it.
Over(cat, cfg) == IsCfg(cfg) /\ IsCat(cat) /\ Fits(cat, cfg)

\* The place of a model that has one is its own; the others come behind.
LEMMA OrderFacts ==
    ASSUME NEW cat, NEW cfg, Over(cat, cfg), NEW s \in Sites, NEW u \in Upstreams,
           NEW c \in Channels, cat[<<s, u>>] # NoEntry
    PROVE  LET list  == ModelsOf(cfg, c, s)
               order == OrderOf(cfg, <<s, u>>, cat[<<s, u>>], c)
           IN  /\ order \in Nat
               /\ InPlace(cat[<<s, u>>], c) =>
                     /\ order = cat[<<s, u>>].occ[c].at
                     /\ order \in 1..Len(list) /\ list[order].name = u
               /\ ~InPlace(cat[<<s, u>>], c) =>
                     /\ order = Len(list) + 1 + Rank[<<s, u>>]
                     /\ order > Len(list)
<1> DEFINE r    == <<s, u>>
           e    == cat[r]
           list == ModelsOf(cfg, c, s)
<1>1. r \in Refs /\ r[1] = s /\ r[2] = u
  BY DEF Refs
<1>2. Len(list) \in Nat /\ DOMAIN list = 1..Len(list)
  BY ModelsFacts DEF Over
<1>3. Rank[r] \in Nat
  <2> HIDE DEF r
  <2> QED BY <1>1, WriteBackAssumption
<1>4. InPlace(e, c) => e.occ[c].at \in Places(list, u)
  <2>1. \A q \in Refs : cat[q] # NoEntry /\ InPlace(cat[q], c) =>
            cat[q].occ[c].at \in Places(ModelsOf(cfg, c, q[1]), q[2])
    BY DEF Over, Fits
  <2> QED BY <1>1, <2>1
<1>5. OrderOf(cfg, r, e, c) = IF InPlace(e, c) THEN e.occ[c].at ELSE Len(list) + 1 + Rank[r]
  BY <1>1 DEF OrderOf, AppendOrder
<1>6. \A i \in Places(list, u) : i \in 1..Len(list) /\ list[i].name = u
  BY <1>2 DEF Places
<1> DEFINE order == OrderOf(cfg, r, e, c)
<1>7. CASE InPlace(e, c)
  <2>1. order = e.occ[c].at /\ order \in Places(list, u)
    BY <1>4, <1>5, <1>7
  <2>2. order \in 1..Len(list) /\ list[order].name = u
    BY <1>6, <2>1
  <2>3. order \in Nat
    BY <1>2, <2>2
  <2> QED BY <1>7, <2>1, <2>2, <2>3
<1>8. CASE ~InPlace(e, c)
  <2>1. order = Len(list) + 1 + Rank[r]
    BY <1>5, <1>8
  <2>2. order \in Nat /\ order > Len(list)
    <3> DEFINE k == Rank[r]
               n == Len(list)
    <3>1. k \in Nat /\ n \in Nat /\ order = n + 1 + k
      BY <1>2, <1>3, <2>1
    <3> HIDE DEF k, n, order
    <3>2. order \in Nat /\ order > n
      BY <3>1
    <3> QED BY <3>2 DEF n
  <2> QED BY <1>8, <2>1, <2>2
<1> QED BY <1>7, <1>8

\* No two models go to one place.
LEMMA PlacedKeyed ==
    ASSUME NEW cat, NEW cfg, Over(cat, cfg), NEW hid, NEW rt,
           NEW s \in Sites, NEW c \in Channels
    PROVE  Keyed(Placed(cat, hid, rt, s, c), Order(cat, hid, rt, cfg, s, c))
<1> DEFINE P   == Placed(cat, hid, rt, s, c)
           key == Order(cat, hid, rt, cfg, s, c)
           list == ModelsOf(cfg, c, s)
<1>1. \A u \in P : u \in Upstreams /\ cat[<<s, u>>] # NoEntry
  BY DEF Placed
<1>2. IsFiniteSet(P)
  <2>1. P \in SUBSET Upstreams
    BY <1>1
  <2> HIDE DEF P
  <2> QED BY <2>1, FS_Subset, WriteBackAssumption
<1>3. \A u \in P : key[u] = OrderOf(cfg, <<s, u>>, cat[<<s, u>>], c)
  BY DEF Order
<1>4. key \in [P -> Nat]
  <2>1. \A u \in P : OrderOf(cfg, <<s, u>>, cat[<<s, u>>], c) \in Nat
    BY <1>1, OrderFacts
  <2> QED BY <2>1 DEF Order
<1>5. ASSUME NEW x \in P, NEW y \in P, key[x] = key[y] PROVE x = y
  <2> DEFINE k == key[x]
             n == Len(list)
             a == Rank[<<s, x>>]
             b == Rank[<<s, y>>]
  <2>1. n \in Nat
    BY ModelsFacts DEF Over
  <2>2. /\ InPlace(cat[<<s, x>>], c) => k \in 1..n /\ list[k].name = x
        /\ ~InPlace(cat[<<s, x>>], c) => k = n + 1 + a /\ k > n
    BY <1>1, <1>3, OrderFacts
  <2>3. /\ InPlace(cat[<<s, y>>], c) => k \in 1..n /\ list[k].name = y
        /\ ~InPlace(cat[<<s, y>>], c) => k = n + 1 + b /\ k > n
    BY <1>1, <1>3, <1>5, OrderFacts
  <2>4. a \in Nat /\ b \in Nat /\ (a = b => x = y)
    <3>1. <<s, x>> \in Refs /\ <<s, y>> \in Refs /\ (<<s, x>> = <<s, y>> => x = y)
      BY <1>1 DEF Refs
    <3> QED BY <3>1, WriteBackAssumption
  <2> HIDE DEF k, n, a, b
  <2>5. k \in 1..n => ~(k > n)
    BY <2>1
  <2>6. k = n + 1 + a /\ k = n + 1 + b => a = b
    BY <2>1, <2>4
  <2> QED BY <2>2, <2>3, <2>4, <2>5, <2>6
<1> QED BY <1>2, <1>4, <1>5 DEF Keyed

\* A list as it is written: every model that belongs there once, in order.
LEMMA WrittenFacts ==
    ASSUME NEW cat, NEW cfg, Over(cat, cfg), NEW hid, NEW rt,
           NEW s \in Sites, NEW c \in Channels
    PROVE  LET list == Written(cat, hid, rt, cfg, s, c)
               P    == Placed(cat, hid, rt, s, c)
           IN  /\ list \in Seq(Model) /\ Len(list) \in Nat /\ DOMAIN list = 1..Len(list)
               /\ \A i \in DOMAIN list :
                     /\ list[i].name \in P
                     /\ list[i] = Slot(<<s, list[i].name>>, cat[<<s, list[i].name>>], c)
               /\ \A u \in P : \E i \in DOMAIN list : list[i].name = u
               /\ Once(list)
               /\ \A i, j \in DOMAIN list : i < j =>
                     OrderOf(cfg, <<s, list[i].name>>, cat[<<s, list[i].name>>], c)
                       < OrderOf(cfg, <<s, list[j].name>>, cat[<<s, list[j].name>>], c)
<1> DEFINE P    == Placed(cat, hid, rt, s, c)
           key  == Order(cat, hid, rt, cfg, s, c)
           q    == InOrder(P, key)
           n    == Cardinality(P)
           list == Written(cat, hid, rt, cfg, s, c)
<1>1. /\ n \in Nat /\ Ascending(q, n, P, key) /\ DOMAIN q = 1..n
      /\ \A x \in P : \E i \in 1..n : q[i] = x
      /\ \A i, j \in 1..n : q[i] = q[j] => i = j
  <2>1. Keyed(P, key)
    BY PlacedKeyed
  <2> HIDE DEF P, key
  <2> QED BY <2>1, Listing
<1>2. list = [i \in 1..n |-> Slot(<<s, q[i]>>, cat[<<s, q[i]>>], c)]
  <2>1. list = [i \in DOMAIN q |-> Slot(<<s, q[i]>>, cat[<<s, q[i]>>], c)]
    BY DEF Written, Order
  <2> HIDE DEF q, n, list
  <2> QED BY <1>1, <2>1
<1>3. \A u \in P : /\ u \in Upstreams /\ cat[<<s, u>>] # NoEntry /\ Sound(cat[<<s, u>>])
                   /\ key[u] = OrderOf(cfg, <<s, u>>, cat[<<s, u>>], c)
  <2>1. \A u \in P : u \in Upstreams /\ cat[<<s, u>>] # NoEntry
    BY DEF Placed
  <2>2. \A u \in P : <<s, u>> \in Refs
    BY <2>1 DEF Refs
  <2> QED BY <2>1, <2>2 DEF Over, IsCat, Order
<1> HIDE DEF P, key, q, n, list
<1>4. \A i \in 1..n : q[i] \in P
  BY <1>1 DEF Ascending
<1>5. ASSUME NEW i \in 1..n
      PROVE  list[i] \in Model /\ list[i].name = q[i]
             /\ list[i] = Slot(<<s, q[i]>>, cat[<<s, q[i]>>], c)
  <2>1. list[i] = Slot(<<s, q[i]>>, cat[<<s, q[i]>>], c)
    BY <1>2
  <2>2. q[i] \in Upstreams /\ Sound(cat[<<s, q[i]>>])
    BY <1>3, <1>4
  <2>3. AliasOf(cat[<<s, q[i]>>]) \in Alias
        /\ FieldsFor(cat[<<s, q[i]>>], c) \in Fields \cup {NoFields}
    BY <2>2, SlotFacts
  <2> QED BY <2>1, <2>2, <2>3 DEF Slot, Model
<1>6. list \in [1..n -> Model]
  BY <1>2, <1>5
<1>7. list \in Seq(Model)
  BY <1>1, <1>6, SeqDef
<1>8. Len(list) = n /\ DOMAIN list = 1..n
  BY <1>1, <1>6, <1>7
<1>13. \A i \in DOMAIN list : list[i].name = q[i]
  BY <1>5, <1>8
<1>9. \A i \in DOMAIN list : /\ list[i].name \in P
                             /\ list[i] = Slot(<<s, list[i].name>>, cat[<<s, list[i].name>>], c)
  BY <1>4, <1>5, <1>8
<1>10. ASSUME NEW u \in P PROVE \E i \in DOMAIN list : list[i].name = u
  <2>1. PICK i \in 1..n : q[i] = u
    BY <1>1
  <2> QED BY <1>8, <1>13, <2>1
<1>11. Once(list)
  <2> SUFFICES ASSUME NEW i \in DOMAIN list, NEW j \in DOMAIN list,
                      list[i].name = list[j].name
               PROVE  i = j
    BY DEF Once
  <2>1. q[i] = q[j]
    BY <1>13
  <2> QED BY <1>1, <1>8, <2>1
<1>12. ASSUME NEW i \in DOMAIN list, NEW j \in DOMAIN list, i < j
       PROVE  OrderOf(cfg, <<s, list[i].name>>, cat[<<s, list[i].name>>], c)
                < OrderOf(cfg, <<s, list[j].name>>, cat[<<s, list[j].name>>], c)
  <2>1. key[q[i]] < key[q[j]]
    BY <1>1, <1>8, <1>12 DEF Ascending
  <2>2. list[i].name = q[i] /\ list[j].name = q[j] /\ q[i] \in P /\ q[j] \in P
    BY <1>4, <1>5, <1>8
  <2> QED BY <1>3, <2>1, <2>2
<1> QED BY <1>1, <1>7, <1>8, <1>9, <1>10, <1>11, <1>12 DEF list, P

-----------------------------------------------------------------------------
\* What is sent.

\* The sites a list has no provider for yet and needs one.
Wanting(cat, hid, rt, cfg, c) ==
    {s \in Sites : /\ Known(cfg, s) /\ IndexOf(cfg, c, s) = 0
                   /\ Placed(cat, hid, rt, s, c) # {}}

\* The order the catalog asks for them in.
Asking(cat, hid, rt, cfg, c) ==
    [s \in Wanting(cat, hid, rt, cfg, c) |-> FirstRank(cat, hid, rt, s, c)]

LEMMA WantingKeyed ==
    ASSUME NEW cat, NEW cfg, NEW hid, NEW rt, NEW c \in Channels
    PROVE  Keyed(Wanting(cat, hid, rt, cfg, c), Asking(cat, hid, rt, cfg, c))
<1> DEFINE S   == Wanting(cat, hid, rt, cfg, c)
           key == Asking(cat, hid, rt, cfg, c)
<1>1. IsFiniteSet(S)
  <2>1. S \in SUBSET Sites
    BY DEF Wanting
  <2> HIDE DEF S
  <2> QED BY <2>1, FS_Subset, WriteBackAssumption
<1>2. ASSUME NEW s \in S
      PROVE  \E u \in Upstreams : <<s, u>> \in Refs /\ key[s] = Rank[<<s, u>>]
  <2> DEFINE P     == Placed(cat, hid, rt, s, c)
             ranks == {Rank[<<s, u>>] : u \in P}
  <2>1. P # {} /\ s \in Sites /\ P \in SUBSET Upstreams
    BY <1>2 DEF Wanting, Placed
  <2>2. \A u \in P : <<s, u>> \in Refs
    BY <2>1 DEF Refs
  <2>3. ranks \in SUBSET Nat /\ ranks # {}
    <3> HIDE DEF P
    <3>1. \A u \in P : Rank[<<s, u>>] \in Nat
      BY <2>2, WriteBackAssumption
    <3> QED BY <2>1, <3>1
  <2>4. Lowest(ranks) \in ranks
    <3> HIDE DEF ranks
    <3> QED BY <2>3, LowestNat
  <2>5. key[s] = Lowest(ranks)
    BY DEF Asking, FirstRank
  <2> HIDE DEF P
  <2> QED BY <2>1, <2>2, <2>4, <2>5
<1>3. key \in [S -> Nat]
  <2>1. \A s \in S : key[s] \in Nat
    BY <1>2, WriteBackAssumption
  <2> QED BY <2>1 DEF Asking
<1>4. ASSUME NEW s \in S, NEW t \in S, key[s] = key[t] PROVE s = t
  <2>1. PICK u \in Upstreams : <<s, u>> \in Refs /\ key[s] = Rank[<<s, u>>]
    BY <1>2
  <2>2. PICK v \in Upstreams : <<t, v>> \in Refs /\ key[t] = Rank[<<t, v>>]
    BY <1>2
  <2>3. <<s, u>> = <<t, v>>
    BY <1>4, <2>1, <2>2, WriteBackAssumption
  <2> QED BY <2>3
<1> QED BY <1>1, <1>3, <1>4 DEF Keyed

\* The providers a write adds: one for each such site.
LEMMA CreatedFacts ==
    ASSUME NEW cat, NEW cfg, Over(cat, cfg), NEW hid, NEW rt, NEW c \in Channels
    PROVE  LET made == Created(cat, hid, rt, cfg, c)
               S    == Wanting(cat, hid, rt, cfg, c)
           IN  /\ made \in Seq(Provider) /\ Len(made) \in Nat /\ DOMAIN made = 1..Len(made)
               /\ \A i \in DOMAIN made :
                     /\ made[i].owner \in S
                     /\ made[i].models = Written(cat, hid, rt, cfg, made[i].owner, c)
               /\ \A s \in S : \E i \in DOMAIN made : made[i].owner = s
               /\ \A i, j \in DOMAIN made : made[i].owner = made[j].owner => i = j
<1> DEFINE S    == Wanting(cat, hid, rt, cfg, c)
           key  == Asking(cat, hid, rt, cfg, c)
           q    == InOrder(S, key)
           n    == Cardinality(S)
           made == Created(cat, hid, rt, cfg, c)
           W(s) == Written(cat, hid, rt, cfg, s, c)
<1>1. /\ n \in Nat /\ Ascending(q, n, S, key) /\ DOMAIN q = 1..n
      /\ \A x \in S : \E i \in 1..n : q[i] = x
      /\ \A i, j \in 1..n : q[i] = q[j] => i = j
  <2>1. Keyed(S, key)
    BY WantingKeyed
  <2> HIDE DEF S, key
  <2> QED BY <2>1, Listing
<1>2. made = [i \in 1..n |-> [owner |-> q[i], prio |-> 0, models |-> W(q[i])]]
  <2>1. made = [i \in DOMAIN q |-> [owner |-> q[i], prio |-> 0, models |-> W(q[i])]]
    BY DEF Created, Wanting, Asking
  <2> HIDE DEF q, n, made, W
  <2> QED BY <1>1, <2>1
<1>3. \A s \in S : s \in Sites /\ W(s) \in Seq(Model)
  <2>1. \A s \in S : s \in Sites
    BY DEF Wanting
  <2> QED BY <2>1, WrittenFacts
<1> HIDE DEF S, key, q, n, made
<1>4. \A i \in 1..n : q[i] \in S
  BY <1>1 DEF Ascending
<1>5. ASSUME NEW i \in 1..n
      PROVE  made[i] \in Provider /\ made[i].owner = q[i] /\ made[i].models = W(q[i])
  <2> DEFINE w == W(q[i])
  <2>1. made[i] = [owner |-> q[i], prio |-> 0, models |-> w]
    BY <1>2
  <2>2. q[i] \in Sites /\ w \in Seq(Model) /\ 0 \in Priorities
    BY <1>3, <1>4, WriteBackAssumption
  <2> HIDE DEF w
  <2>3. made[i] \in Provider /\ made[i].owner = q[i] /\ made[i].models = w
    BY <2>1, <2>2 DEF Provider
  <2> QED BY <2>3 DEF w
<1> HIDE DEF W
<1>6. made \in [1..n -> Provider]
  BY <1>2, <1>5
<1>7. made \in Seq(Provider)
  BY <1>1, <1>6, SeqDef
<1>8. Len(made) = n /\ DOMAIN made = 1..n
  BY <1>1, <1>6, <1>7
<1>9. \A i \in DOMAIN made : made[i].owner = q[i]
  BY <1>5, <1>8
<1>10. \A i \in DOMAIN made : made[i].owner \in S /\ made[i].models = W(made[i].owner)
  BY <1>4, <1>5, <1>8
<1>11. ASSUME NEW s \in S PROVE \E i \in DOMAIN made : made[i].owner = s
  <2>1. PICK i \in 1..n : q[i] = s
    BY <1>1
  <2> QED BY <1>8, <1>9, <2>1
<1>12. ASSUME NEW i \in DOMAIN made, NEW j \in DOMAIN made, made[i].owner = made[j].owner
       PROVE  i = j
  <2>1. q[i] = q[j]
    BY <1>9, <1>12
  <2> QED BY <1>1, <1>8, <2>1
<1> QED BY <1>1, <1>7, <1>8, <1>10, <1>11, <1>12 DEF S, made, W

\* The provider at place i of list c as it is sent: rebuilt if it stands for a
\* site, untouched if not.
Rebuilt(cat, hid, rt, cfg, d, c, i) ==
    LET p == cfg[c][i]
    IN  IF p.owner \in Sites /\ i = IndexOf(cfg, c, p.owner)
        THEN [p EXCEPT !.models = Written(cat, hid, rt, cfg, p.owner, c),
                       !.prio = PriorityAfter(d, p.owner, c, p.prio)]
        ELSE p

LEMMA RebuiltFacts ==
    ASSUME NEW cat, NEW cfg, Over(cat, cfg), NEW hid, NEW rt, NEW d, IsDraft(d),
           NEW c \in Channels, NEW i \in DOMAIN cfg[c]
    PROVE  LET p == cfg[c][i]
               q == Rebuilt(cat, hid, rt, cfg, d, c, i)
           IN  /\ p \in Provider /\ q \in Provider /\ q.owner = p.owner
               /\ p.owner \in Sites /\ i = IndexOf(cfg, c, p.owner) =>
                     /\ q.models = Written(cat, hid, rt, cfg, p.owner, c)
                     /\ q.prio = PriorityAfter(d, p.owner, c, p.prio)
               /\ ~(p.owner \in Sites /\ i = IndexOf(cfg, c, p.owner)) => q = p
<1> DEFINE p == cfg[c][i]
           q == Rebuilt(cat, hid, rt, cfg, d, c, i)
<1>1. p \in Provider
  <2>1. cfg[c] \in Seq(Provider)
    BY DEF Over, IsCfg
  <2> QED BY <2>1
<1>2. CASE ~(p.owner \in Sites /\ i = IndexOf(cfg, c, p.owner))
  <2>1. q = p
    BY <1>2 DEF Rebuilt
  <2> HIDE DEF p, q
  <2>2. p \in Provider /\ q \in Provider /\ q.owner = p.owner
    BY <1>1, <2>1
  <2> QED BY <1>2, <2>1, <2>2 DEF p, q
<1>3. CASE p.owner \in Sites /\ i = IndexOf(cfg, c, p.owner)
  <2> DEFINE w == Written(cat, hid, rt, cfg, p.owner, c)
             k == PriorityAfter(d, p.owner, c, p.prio)
  <2>1. w \in Seq(Model)
    BY <1>3, WrittenFacts
  <2>2. k \in Priorities
    <3>1. p.prio \in Priorities
      BY <1>1 DEF Provider
    <3> HIDE DEF p
    <3> QED BY <3>1, PriorityType
  <2>3. q = [p EXCEPT !.models = w, !.prio = k]
    BY <1>3 DEF Rebuilt
  <2> HIDE DEF p, q, w, k
  <2>4. q \in Provider /\ q.owner = p.owner /\ q.models = w /\ q.prio = k
    BY <1>1, <2>1, <2>2, <2>3 DEF Provider
  <2> QED BY <1>1, <1>3, <2>4 DEF p, q, w, k
<1> QED BY <1>2, <1>3

\* A list as it is sent.
LEMMA SentFacts ==
    ASSUME NEW cat, NEW cfg, Over(cat, cfg), NEW hid, NEW rt, NEW d, IsDraft(d),
           NEW c \in Channels
    PROVE  LET sent == BuildWrite(cat, hid, rt, cfg, d)[c]
               made == Created(cat, hid, rt, cfg, c)
               n    == Len(cfg[c])
           IN  /\ sent \in Seq(Provider) /\ DOMAIN sent = 1..Len(sent)
               /\ n \in Nat /\ DOMAIN cfg[c] = 1..n /\ Len(sent) = n + Len(made)
               /\ \A i \in 1..n : i \in DOMAIN sent
                                  /\ sent[i] = Rebuilt(cat, hid, rt, cfg, d, c, i)
               /\ \A j \in DOMAIN made : n + j \in DOMAIN sent /\ sent[n + j] = made[j]
               /\ \A i \in DOMAIN sent : i \notin 1..n => i - n \in DOMAIN made
<1> DEFINE sent == BuildWrite(cat, hid, rt, cfg, d)[c]
           made == Created(cat, hid, rt, cfg, c)
           n    == Len(cfg[c])
           m    == Len(made)
           old  == [i \in 1..n |-> Rebuilt(cat, hid, rt, cfg, d, c, i)]
<1>1. n \in Nat /\ DOMAIN cfg[c] = 1..n
  BY DEF Over, IsCfg
<1>2. made \in Seq(Provider) /\ m \in Nat /\ DOMAIN made = 1..m
  BY CreatedFacts
<1>3. sent = old \o made
  <2>1. sent = [i \in DOMAIN cfg[c] |-> Rebuilt(cat, hid, rt, cfg, d, c, i)] \o made
    BY DEF BuildWrite, Rebuilt
  <2> QED BY <1>1, <2>1
<1>4. \A i \in 1..n : Rebuilt(cat, hid, rt, cfg, d, c, i) \in Provider
  BY <1>1, RebuiltFacts
<1>5. old \in [1..n -> Provider]
  BY <1>4
<1>6. \A i \in 1..n : old[i] = Rebuilt(cat, hid, rt, cfg, d, c, i)
  OBVIOUS
<1> HIDE DEF sent, made, n, m, old
<1>7. old \in Seq(Provider)
  BY <1>1, <1>5, SeqDef
<1>8. Len(old) = n
  BY <1>1, <1>5, <1>7
<1>9. /\ old \o made \in Seq(Provider) /\ Len(old \o made) = Len(old) + Len(made)
      /\ \A i \in 1..Len(old) + Len(made) :
            (old \o made)[i] = IF i <= Len(old) THEN old[i] ELSE made[i - Len(old)]
  BY <1>2, <1>7, ConcatProperties
<1>10. sent \in Seq(Provider) /\ Len(sent) = n + m /\ DOMAIN sent = 1..(n + m)
  BY <1>1, <1>2, <1>3, <1>8, <1>9 DEF m
<1>11. \A i \in 1..(n + m) : sent[i] = IF i <= n THEN old[i] ELSE made[i - n]
  BY <1>3, <1>8, <1>9 DEF m
<1>12. ASSUME NEW i \in 1..n
       PROVE  i \in DOMAIN sent /\ sent[i] = Rebuilt(cat, hid, rt, cfg, d, c, i)
  <2>1. i \in 1..(n + m) /\ i <= n
    BY <1>1, <1>2
  <2> QED BY <1>6, <1>10, <1>11, <2>1
<1>13. ASSUME NEW j \in DOMAIN made
       PROVE  n + j \in DOMAIN sent /\ sent[n + j] = made[j]
  <2>1. j \in 1..m
    BY <1>2
  <2>2. n + j \in 1..(n + m) /\ ~(n + j <= n) /\ (n + j) - n = j
    BY <1>1, <1>2, <2>1
  <2>3. sent[n + j] = made[(n + j) - n]
    BY <1>11, <2>2
  <2> QED BY <1>10, <2>2, <2>3
<1>14. ASSUME NEW i \in DOMAIN sent, i \notin 1..n PROVE i - n \in DOMAIN made
  <2>1. i \in 1..(n + m)
    BY <1>10
  <2>2. i - n \in 1..m
    BY <1>1, <1>2, <1>14, <2>1
  <2> QED BY <1>2, <2>2
<1> QED BY <1>1, <1>10, <1>12, <1>13, <1>14 DEF sent, made, n, m

-----------------------------------------------------------------------------
\* What CPA holds once it is sent.

LEMMA SentType ==
    ASSUME NEW cat, NEW cfg, Over(cat, cfg), NEW hid, NEW rt, NEW d, IsDraft(d)
    PROVE  IsCfg(BuildWrite(cat, hid, rt, cfg, d))
<1> DEFINE out == BuildWrite(cat, hid, rt, cfg, d)
<1>1. \A c \in Channels : out[c] \in Seq(Provider)
  BY SentFacts
<1>2. out = [c \in Channels |-> out[c]]
  BY DEF BuildWrite
<1>3. IsCfg(out)
  <2> HIDE DEF out
  <2> QED BY <1>1, <1>2 DEF IsCfg
<1> QED BY <1>3

\* A list is empty if nothing is placed in it.
LEMMA NothingWritten ==
    ASSUME NEW cat, NEW cfg, Over(cat, cfg), NEW hid, NEW rt,
           NEW s \in Sites, NEW c \in Channels
    PROVE  Written(cat, hid, rt, cfg, s, c) = <<>> <=> Placed(cat, hid, rt, s, c) = {}
<1> DEFINE list == Written(cat, hid, rt, cfg, s, c)
           P    == Placed(cat, hid, rt, s, c)
<1>0. /\ list \in Seq(Model) /\ Len(list) \in Nat /\ DOMAIN list = 1..Len(list)
      /\ \A i \in DOMAIN list :
            /\ list[i].name \in P
            /\ list[i] = Slot(<<s, list[i].name>>, cat[<<s, list[i].name>>], c)
      /\ \A u \in P : \E i \in DOMAIN list : list[i].name = u
  BY WrittenFacts
<1>1. /\ list \in Seq(Model) /\ Len(list) \in Nat /\ DOMAIN list = 1..Len(list)
      /\ \A i \in DOMAIN list : list[i].name \in P
      /\ \A u \in P : \E i \in DOMAIN list : list[i].name = u
  <2> HIDE DEF list, P
  <2> QED BY <1>0
<1> HIDE DEF list, P
<1>2. CASE P = {}
  <2>1. 1..Len(list) = {}
    BY <1>1, <1>2
  <2>2. ~(1 <= Len(list))
    BY <1>1, <2>1
  <2>3. Len(list) = 0
    BY <1>1, <2>2
  <2> QED BY <1>1, <1>2, <2>3, EmptySeq DEF list, P
<1>3. CASE P # {}
  <2>1. DOMAIN list # {}
    BY <1>1, <1>3
  <2>2. DOMAIN <<>> = {}
    OBVIOUS
  <2> QED BY <1>3, <2>1, <2>2 DEF list, P
<1> QED BY <1>2, <1>3

\* The site's list in CPA is then the one that was written.
LEMMA SentModels ==
    ASSUME NEW cat, NEW cfg, Over(cat, cfg), NEW hid, NEW rt, NEW d, IsDraft(d),
           NEW c \in Channels, NEW s \in Sites
    PROVE  LET out == BuildWrite(cat, hid, rt, cfg, d)
           IN  /\ ModelsOf(out, c, s) = Written(cat, hid, rt, cfg, s, c)
               /\ IndexOf(cfg, c, s) # 0 => IndexOf(out, c, s) = IndexOf(cfg, c, s)
               /\ IndexOf(out, c, s) # 0 => Known(cfg, s)
               /\ IndexOf(out, c, s) = 0 => Written(cat, hid, rt, cfg, s, c) = <<>>
<1> DEFINE out  == BuildWrite(cat, hid, rt, cfg, d)
           sent == out[c]
           made == Created(cat, hid, rt, cfg, c)
           n    == Len(cfg[c])
           k    == IndexOf(cfg, c, s)
           w    == Written(cat, hid, rt, cfg, s, c)
           S    == Wanting(cat, hid, rt, cfg, c)
<1>1. IsCfg(out) /\ IsCfg(cfg)
  BY SentType DEF Over
<1>2. /\ sent \in Seq(Provider) /\ DOMAIN sent = 1..Len(sent)
      /\ n \in Nat /\ DOMAIN cfg[c] = 1..n /\ Len(sent) = n + Len(made)
      /\ \A i \in 1..n : i \in DOMAIN sent
                         /\ sent[i] = Rebuilt(cat, hid, rt, cfg, d, c, i)
      /\ \A j \in DOMAIN made : n + j \in DOMAIN sent /\ sent[n + j] = made[j]
      /\ \A i \in DOMAIN sent : i \notin 1..n => i - n \in DOMAIN made
  BY SentFacts
<1>3. /\ \A i \in DOMAIN made : /\ made[i].owner \in S
                                /\ made[i].models = Written(cat, hid, rt, cfg, made[i].owner, c)
      /\ \A t \in S : \E i \in DOMAIN made : made[i].owner = t
      /\ \A i, j \in DOMAIN made : made[i].owner = made[j].owner => i = j
      /\ DOMAIN made \subseteq Nat
  BY CreatedFacts
<1>4. \A i \in 1..n : sent[i].owner = cfg[c][i].owner
  BY <1>2, RebuiltFacts
<1>5. /\ k = 0 => Mine(cfg, c, s) = {}
      /\ k # 0 => /\ k \in 1..n /\ cfg[c][k].owner = s
                  /\ \A j \in Mine(cfg, c, s) : j <= k
  BY <1>1, <1>2, IndexFacts
<1>6. \A i \in 1..n : cfg[c][i].owner = s => i \in Mine(cfg, c, s)
  BY <1>2 DEF Mine
<1>7. \A i \in DOMAIN sent : i \notin 1..n => sent[i] = made[i - n] /\ i - n \in DOMAIN made
  <2> SUFFICES ASSUME NEW i \in DOMAIN sent, i \notin 1..n
               PROVE  sent[i] = made[i - n] /\ i - n \in DOMAIN made
    OBVIOUS
  <2>1. i - n \in DOMAIN made /\ sent[n + (i - n)] = made[i - n]
    BY <1>2
  <2>2. i \in Int
    BY <1>2
  <2>3. n + (i - n) = i
    BY <1>2, <2>2
  <2> QED BY <2>1, <2>3
<1>8. \A t \in S : IndexOf(cfg, c, t) = 0 /\ Known(cfg, t)
  BY DEF Wanting
<1>9. CASE k # 0
  <2>1. ASSUME NEW j \in DOMAIN sent, j > k PROVE sent[j].owner # s
    <3>1. CASE j \in 1..n
      <4>1. ~(j <= k)
        BY <1>5, <1>9, <2>1, <3>1
      <4> QED BY <1>4, <1>5, <1>6, <1>9, <3>1, <4>1
    <3>2. CASE j \notin 1..n
      <4>1. sent[j].owner \in S
        BY <1>3, <1>7, <3>2
      <4> QED BY <1>8, <1>9, <4>1
    <3> QED BY <3>1, <3>2
  <2>2. k \in DOMAIN sent /\ sent[k].owner = s
    BY <1>2, <1>4, <1>5, <1>9
  <2>3. IndexOf(out, c, s) = k
    <3> HIDE DEF k, out
    <3> QED BY <1>1, <2>1, <2>2, IndexIs
  <2>4. sent[k] = Rebuilt(cat, hid, rt, cfg, d, c, k)
    BY <1>2, <1>5, <1>9
  <2>5. cfg[c][k].owner = s /\ k \in DOMAIN cfg[c]
    BY <1>2, <1>5, <1>9
  <2>6. sent[k].models = w
    BY <2>4, <2>5, RebuiltFacts
  <2>7. ModelsOf(out, c, s) = sent[k].models
    BY <1>9, <2>3 DEF ModelsOf
  <2>8. Known(cfg, s)
    BY <1>9 DEF Known
  <2> QED BY <1>9, <2>3, <2>6, <2>7, <2>8
<1>10. CASE k = 0 /\ s \in S
  <2>1. PICK j \in DOMAIN made : made[j].owner = s
    BY <1>3, <1>10
  <2>2. n + j \in DOMAIN sent /\ sent[n + j] = made[j] /\ n + j # 0
    <3>1. n + j \in 1..Len(sent)
      BY <1>2
    <3> QED BY <1>2, <3>1
  <2>3. ASSUME NEW i \in DOMAIN sent, i > n + j PROVE sent[i].owner # s
    <3>1. j \in Nat /\ n \in Nat /\ i \in Int
      BY <1>2, <1>3
    <3>2. i \notin 1..n /\ i - n # j
      BY <2>3, <3>1
    <3>3. sent[i] = made[i - n] /\ i - n \in DOMAIN made
      BY <1>7, <3>2
    <3>4. made[i - n].owner # made[j].owner
      BY <1>3, <3>2, <3>3
    <3> QED BY <2>1, <3>3, <3>4
  <2>4. IndexOf(out, c, s) = n + j
    <3> HIDE DEF out, n, made
    <3>1. sent[n + j].owner = s
      BY <2>1, <2>2
    <3> QED BY <1>1, <2>2, <2>3, <3>1, IndexIs
  <2>5. ModelsOf(out, c, s) = sent[n + j].models
    BY <2>2, <2>4 DEF ModelsOf
  <2>6. made[j].models = w
    BY <1>3, <2>1
  <2>7. Known(cfg, s)
    BY <1>8, <1>10
  <2> QED BY <1>10, <2>2, <2>4, <2>5, <2>6, <2>7
<1>11. CASE k = 0 /\ s \notin S
  <2>1. \A i \in DOMAIN sent : sent[i].owner # s
    BY <1>3, <1>4, <1>5, <1>6, <1>7, <1>11
  <2>2. IndexOf(out, c, s) = 0
    <3>1. Mine(out, c, s) = {}
      BY <2>1 DEF Mine
    <3> HIDE DEF out
    <3> QED BY <1>1, <3>1, IndexFacts DEF Mine
  <2>3. Placed(cat, hid, rt, s, c) = {}
    <3>1. CASE Known(cfg, s)
      BY <1>11, <3>1 DEF Wanting
    <3>2. CASE ~Known(cfg, s)
      <4> SUFFICES ASSUME NEW u \in Upstreams, cat[<<s, u>>] # NoEntry PROVE FALSE
        BY DEF Placed
      <4>1. <<s, u>> \in Refs
        BY DEF Refs
      <4>2. Known(cfg, <<s, u>>[1])
        <5> DEFINE r == <<s, u>>
        <5>1. r \in Refs /\ cat[r] # NoEntry
          BY <4>1
        <5> HIDE DEF r
        <5>2. Known(cfg, r[1])
          BY <5>1 DEF Over, Fits
        <5> QED BY <5>2 DEF r
      <4> QED BY <3>2, <4>2
    <3> QED BY <3>1, <3>2
  <2>4. w = <<>>
    BY <2>3, NothingWritten
  <2>5. ModelsOf(out, c, s) = <<>>
    BY <2>2 DEF ModelsOf
  <2> QED BY <1>11, <2>2, <2>4, <2>5
<1> QED BY <1>9, <1>10, <1>11

\* A write neither brings a site nor takes one away.
LEMMA SentSites ==
    ASSUME NEW cat, NEW cfg, Over(cat, cfg), NEW hid, NEW rt, NEW d, IsDraft(d),
           NEW s \in Sites
    PROVE  Known(BuildWrite(cat, hid, rt, cfg, d), s) <=> Known(cfg, s)
<1>1. \A c \in Channels : IndexOf(cfg, c, s) # 0 =>
          IndexOf(BuildWrite(cat, hid, rt, cfg, d), c, s) # 0
  BY SentModels
<1>2. \A c \in Channels : IndexOf(BuildWrite(cat, hid, rt, cfg, d), c, s) # 0 =>
          Known(cfg, s)
  BY SentModels
<1> QED BY <1>1, <1>2 DEF Known

\* The copies of a model that was sent are the ones that were placed.
LEMMA SentCopies ==
    ASSUME NEW cat, NEW cfg, Over(cat, cfg), NEW hid, NEW rt, NEW d, IsDraft(d),
           NEW s \in Sites, NEW u \in Upstreams, NEW c \in Channels
    PROVE  LET r    == <<s, u>>
               list == Written(cat, hid, rt, cfg, s, c)
               copy == Copies(BuildWrite(cat, hid, rt, cfg, d), r)[c]
           IN  /\ copy # NoCopy <=> u \in Placed(cat, hid, rt, s, c)
               /\ copy # NoCopy =>
                     /\ copy.at \in DOMAIN list /\ copy.at > 0 /\ list[copy.at].name = u
                     /\ copy.alias = AliasOf(cat[r]) /\ copy.raw = FieldsFor(cat[r], c)
<1> DEFINE r    == <<s, u>>
           out  == BuildWrite(cat, hid, rt, cfg, d)
           list == Written(cat, hid, rt, cfg, s, c)
           at   == Places(list, u)
           copy == Copies(out, r)[c]
           P    == Placed(cat, hid, rt, s, c)
<1>1. ModelsOf(out, c, s) = list /\ IsCfg(out)
  BY SentModels, SentType
<1>2. /\ DOMAIN list = 1..Len(list) /\ Len(list) \in Nat
      /\ \A i \in DOMAIN list : /\ list[i].name \in P
                                /\ list[i] = Slot(<<s, list[i].name>>, cat[<<s, list[i].name>>], c)
      /\ \A v \in P : \E i \in DOMAIN list : list[i].name = v
  BY WrittenFacts
<1>3. /\ at = {} => copy = NoCopy
      /\ at # {} => /\ copy # NoCopy /\ copy.at \in at
                    /\ copy.alias = list[copy.at].alias
                    /\ copy.raw = list[copy.at].raw
  <2>1. r[1] = s /\ r[2] = u
    OBVIOUS
  <2> HIDE DEF out, r, list
  <2>2. LET l == ModelsOf(out, c, r[1])
            p == Places(l, r[2])
            k == Copies(out, r)[c]
        IN  /\ p = {} => k = NoCopy
            /\ p # {} => /\ k # NoCopy /\ k \in Copy
                         /\ k.at = Lowest(p) /\ k.at \in p
                         /\ k.alias = l[k.at].alias
                         /\ k.raw = l[k.at].raw
    BY <1>1, CopiesFacts
  <2> QED BY <1>1, <2>1, <2>2
<1> HIDE DEF list, copy, P
<1>4. \A i \in at : i \in DOMAIN list /\ list[i].name = u
  BY DEF Places
<1>5. \A i \in DOMAIN list : list[i].name = u => i \in at
  BY DEF Places
<1> HIDE DEF at
<1>6. at # {} <=> u \in P
  BY <1>2, <1>4, <1>5
<1>7. ASSUME at # {}
      PROVE  /\ copy.at \in DOMAIN list /\ copy.at > 0 /\ list[copy.at].name = u
             /\ copy.alias = AliasOf(cat[r]) /\ copy.raw = FieldsFor(cat[r], c)
  <2>1. copy.at \in DOMAIN list /\ list[copy.at].name = u
    BY <1>3, <1>4, <1>7
  <2>2. list[copy.at] = Slot(r, cat[r], c)
    BY <1>2, <2>1
  <2>3. list[copy.at].alias = AliasOf(cat[r]) /\ list[copy.at].raw = FieldsFor(cat[r], c)
    BY <2>2 DEF Slot
  <2>4. copy.at > 0
    BY <1>2, <2>1
  <2> QED BY <1>3, <1>7, <2>1, <2>3, <2>4
<1> QED BY <1>3, <1>6, <1>7 DEF copy, P, list

-----------------------------------------------------------------------------
\* One save.

\* What its load finds, what the draft makes of it and what it hides.
Ready      == Loaded(cached, cpa, hidden)
Planned(d) == Renamed(Ready, d)
Hid(d)     == HiddenAfter(Ready, hidden, d)
Sent(d)    == BuildWrite(Planned(d), Hid(d), route, cpa, d)
Kept1(d)   == KeptOf(Planned(d), Hid(d))

LEMMA TypeMeans ==
    ASSUME TypeOK
    PROVE  /\ IsCfg(cpa) /\ IsCat(cached) /\ Stored(cached)
           /\ hidden \in SUBSET Refs /\ route \in BOOLEAN
           /\ \A r \in Refs : IsOcc(held[r])
<1>1. IsCfg(cpa)
  BY DEF TypeOK, IsCfg
<1>2. ASSUME NEW r \in Refs, cached[r] # NoEntry
      PROVE  Sound(cached[r]) /\ \A c \in Channels : ~InPlace(cached[r], c)
  <2>1. cached[r] \in Entry /\ InLists(cached[r].occ) # {}
        /\ \A c \in InLists(cached[r].occ) : cached[r].occ[c].at = 0
    BY <1>2 DEF TypeOK
  <2> QED BY <2>1 DEF Sound, InPlace, InLists
<1>3. \A r \in Refs : IsOcc(held[r])
  BY DEF TypeOK, IsOcc
<1> QED BY <1>1, <1>2, <1>3 DEF IsCat, Stored, TypeOK

LEMMA ReadyFits ==
    ASSUME TypeOK PROVE IsCat(Ready) /\ Over(Ready, cpa)
BY TypeMeans, LoadedFits DEF Ready, Over

LEMMA DraftTypes == \A d \in Drafts : IsDraft(d)
BY WriteBackAssumption DEF IsDraft

LEMMA SaveFacts ==
    ASSUME TypeOK, NEW d \in Drafts, Save(d)
    PROVE  /\ Over(Planned(d), cpa) /\ IsDraft(d)
           /\ cpa' = Sent(d) /\ IsCfg(cpa')
           /\ hidden' = Hid(d) /\ hidden' \in SUBSET Refs
           /\ route' = route /\ edits' = edits
           /\ IsCat(Kept1(d)) /\ Stored(Kept1(d))
           /\ cached' = Forget(Loaded(Kept1(d), cpa', hidden'))
           /\ Remember(Ready, cpa')
<1>1. IsDraft(d)
  BY DraftTypes
<1>2. IsCat(Ready) /\ Over(Ready, cpa) /\ IsCfg(cpa) /\ hidden \in SUBSET Refs
  BY ReadyFits, TypeMeans
<1>3. IsCat(Planned(d)) /\ Fits(Planned(d), cpa)
  BY <1>1, <1>2, RenamedFits DEF Planned, Over
<1>4. Over(Planned(d), cpa)
  BY <1>2, <1>3 DEF Over
<1>5. Hid(d) \in SUBSET Refs
  BY <1>1, <1>2, HiddenType DEF Hid
<1>6. IsCfg(Sent(d))
  BY <1>1, <1>4, SentType DEF Sent
<1>7. IsCat(Kept1(d)) /\ Stored(Kept1(d))
  BY <1>3, KeptFacts DEF Kept1
<1>8. /\ cpa' = Sent(d) /\ hidden' = Hid(d) /\ route' = route /\ edits' = edits
      /\ cached' = Forget(Loaded(Kept1(d), Sent(d), Hid(d)))
      /\ Remember(Ready, Sent(d))
  <2>1. /\ cpa' = Sent(d) /\ hidden' = Hid(d) /\ route' = route /\ edits' = edits
        /\ cached' = Forget(Loaded(Kept1(d), cpa', Hid(d)))
        /\ Remember(Ready, cpa')
    BY DEF Save, Sent, Hid, Planned, Ready, Kept1, KeptOf
  <2> QED BY <2>1
<1> QED BY <1>1, <1>4, <1>5, <1>6, <1>7, <1>8

-----------------------------------------------------------------------------
\* Types.

\* What the store holds is of its type.
LEMMA StoredType ==
    ASSUME NEW cat, IsCat(cat), NEW new, new = Forget(cat)
    PROVE  /\ new \in [Refs -> Entry \cup {NoEntry}]
           /\ \A r \in Refs : new[r] # NoEntry =>
                 LET occ == new[r].occ
                 IN  InLists(occ) # {} /\ \A c \in InLists(occ) : occ[c].at = 0
<1>1. \A r \in Refs : new[r] \in Entry \cup {NoEntry}
  BY ForgetFacts
<1>2. new = [r \in Refs |-> new[r]]
  BY DEF Forget
<1>3. new \in [Refs -> Entry \cup {NoEntry}]
  BY <1>1, <1>2
<1>4. IsCat(new) /\ Stored(new)
  BY ForgetStores
<1>5. ASSUME NEW r \in Refs, new[r] # NoEntry
      PROVE  InLists(new[r].occ) # {} /\ \A c \in InLists(new[r].occ) : new[r].occ[c].at = 0
  <2>1. new[r] \in Entry /\ InLists(new[r].occ) # {} /\ \A c \in Channels : ~InPlace(new[r], c)
    BY <1>4, <1>5 DEF IsCat, Sound, Stored
  <2>2. \A c \in InLists(new[r].occ) : c \in Channels /\ new[r].occ[c] # NoCopy
                                       /\ new[r].occ[c].at \in Nat
    BY <2>1, EntryFacts DEF InLists
  <2>3. \A c \in InLists(new[r].occ) : ~(new[r].occ[c].at > 0)
    BY <2>1, <2>2 DEF InPlace
  <2>4. \A n \in Nat : ~(n > 0) => n = 0
    OBVIOUS
  <2> QED BY <2>1, <2>2, <2>3, <2>4
<1> QED BY <1>3, <1>5

LEMMA NowhereIsOcc == IsOcc(Nowhere) /\ InLists(Nowhere) = {}
BY DEF IsOcc, Nowhere, InLists

\* So is what the panel remembers.
LEMMA RememberType ==
    ASSUME TypeOK, NEW cat, NEW now, IsCfg(now), Remember(cat, now)
    PROVE  held' \in [Refs -> [Channels -> Copy \cup {NoCopy}]]
<1>1. \A r \in Refs : /\ IsOcc(Nowhere) /\ IsOcc(Copies(now, r))
                      /\ IsOcc(Copies(cpa, r)) /\ IsOcc(held[r])
  BY TypeMeans, CopiesType, NowhereIsOcc
<1>2. \A r \in Refs : IsOcc(held'[r])
  BY <1>1 DEF Remember
<1>3. held' = [r \in Refs |-> held'[r]]
  BY DEF Remember
<1> QED BY <1>2, <1>3 DEF IsOcc

\* A prune only drops entries.
LEMMA PruneCat ==
    ASSUME NEW cat, IsCat(cat), NEW hid
    PROVE  /\ IsCat(Prune(cat, hid))
           /\ \A r \in Refs : Prune(cat, hid)[r] # NoEntry => Prune(cat, hid)[r] = cat[r]
<1>1. \A r \in Refs : Prune(cat, hid)[r] # NoEntry => Prune(cat, hid)[r] = cat[r]
  BY DEF Prune
<1> QED BY <1>1 DEF IsCat

\* A probe leaves the copies of what the catalog has, and what it adds has one.
LEMMA ProbeFacts ==
    ASSUME TypeOK, NEW s \in Sites, NEW names, Known(cpa, s), NEW r \in Refs,
           Discovered(Ready, cpa, s, names)[r] # NoEntry
    PROVE  /\ Sound(Discovered(Ready, cpa, s, names)[r])
           /\ Ready[r] # NoEntry => Discovered(Ready, cpa, s, names)[r].occ = Ready[r].occ
<1> DEFINE e == Ready[r]
           f == Discovered(Ready, cpa, s, names)[r]
<1>1. e # NoEntry => Sound(e)
  BY ReadyFits DEF IsCat
<1>2. CASE r[1] # s
  <2>1. f = e
    BY <1>2 DEF Discovered
  <2> QED BY <1>1, <2>1
<1>3. CASE r[1] = s /\ e # NoEntry
  <2> DEFINE g == r[2] \notin names
             w == e.pending /\ r[2] \in names
  <2>1. f = [e EXCEPT !.gone = g, !.pending = w]
    BY <1>3 DEF Discovered
  <2>2. g \in BOOLEAN /\ w \in BOOLEAN /\ Sound(e)
    BY <1>1, <1>3
  <2> HIDE DEF e, f, g, w
  <2>3. f \in Entry /\ f.occ = e.occ
    BY <2>1, <2>2 DEF Sound, Entry
  <2>4. Sound(f)
    BY <2>2, <2>3 DEF Sound
  <2> QED BY <2>3, <2>4 DEF e, f
<1>4. CASE r[1] = s /\ e = NoEntry
  <2> DEFINE k   == NewList(cpa, r)
             new == [alias |-> NoAlias, raw |-> NoFields, at |-> 0]
             occ == [Nowhere EXCEPT ![k] = new]
  <2>1. f = [present |-> FALSE, pending |-> TRUE, withheld |-> FALSE,
             gone |-> FALSE, occ |-> occ]
    BY <1>4 DEF Discovered
  <2>2. k \in Channels
    <3> DEFINE p == Protocol[Clean[r[2]]]
               T == {c \in Channels : IndexOf(cpa, c, r[1]) # 0}
    <3>1. p \in Channels
      <4>1. r[2] \in Upstreams
        BY DEF Refs
      <4> QED BY <4>1, WriteBackAssumption
    <3>2. T \in SUBSET Channels /\ T # {}
      BY <1>4 DEF Known
    <3>3. Lowest(T) \in Channels
      <4> HIDE DEF T
      <4> QED BY <3>2, ChannelNat
    <3>4. k = IF IndexOf(cpa, p, r[1]) # 0 THEN p ELSE Lowest(T)
      BY DEF NewList
    <3> HIDE DEF p, T, k
    <3> QED BY <3>1, <3>3, <3>4
  <2>3. new \in Copy /\ new # NoCopy
    <3>1. new \in Copy
      BY DEF Copy, Alias
    <3> QED BY <3>1, WriteBackAssumption
  <2> HIDE DEF k, new
  <2>4. IsOcc(occ) /\ k \in InLists(occ)
    <3>1. Nowhere \in [Channels -> Copy \cup {NoCopy}]
      BY NowhereIsOcc DEF IsOcc
    <3>2. occ \in [Channels -> Copy \cup {NoCopy}] /\ occ[k] = new
      BY <2>2, <2>3, <3>1
    <3> HIDE DEF occ
    <3> QED BY <2>2, <2>3, <3>2 DEF IsOcc, InLists
  <2> HIDE DEF occ, f
  <2>5. f \in Entry /\ f.occ = occ
    BY <2>1, <2>4 DEF Entry, IsOcc
  <2>6. Sound(f)
    BY <2>4, <2>5 DEF Sound
  <2> QED BY <1>4, <2>6 DEF e, f
<1> QED BY <1>2, <1>3, <1>4

\* A list without one of its entries.
LEMMA Dropped ==
    ASSUME NEW S, NEW list \in Seq(S), NEW n \in DOMAIN list
    PROVE  RemoveAt(list, n) \in Seq(S)
<1>1. Len(list) \in Nat /\ n \in Int /\ 1 <= n /\ n <= Len(list)
  OBVIOUS
<1>2. SubSeq(list, 1, n - 1) \in Seq(S)
  <2>1. \A i \in 1..(n - 1) : list[i] \in S
    BY <1>1
  <2> QED BY <1>1, <2>1, SubSeqProperties
<1>3. SubSeq(list, n + 1, Len(list)) \in Seq(S)
  <2>1. \A i \in (n + 1)..Len(list) : list[i] \in S
    BY <1>1
  <2> QED BY <1>1, <2>1, SubSeqProperties
<1> QED BY <1>2, <1>3, ConcatProperties DEF RemoveAt

\* CPA with the models of one provider replaced.
LEMMA EditType ==
    ASSUME NEW cfg, IsCfg(cfg), NEW c \in Channels, NEW i \in DOMAIN cfg[c],
           NEW models \in Seq(Model)
    PROVE  IsCfg([cfg EXCEPT ![c][i].models = models])
<1> DEFINE p == [cfg[c][i] EXCEPT !.models = models]
           l == [cfg[c] EXCEPT ![i] = p]
<1>1. cfg \in [Channels -> Seq(Provider)] /\ cfg[c] \in Seq(Provider)
  BY DEF IsCfg
<1>2. p \in Provider
  <2>1. cfg[c][i] \in Provider
    BY <1>1
  <2> QED BY <2>1 DEF Provider
<1> HIDE DEF p
<1>3. l \in Seq(Provider)
  BY <1>1, <1>2
<1> HIDE DEF l
<1>4. [cfg EXCEPT ![c] = l] \in [Channels -> Seq(Provider)]
  BY <1>1, <1>3
<1>5. [cfg EXCEPT ![c][i].models = models] = [cfg EXCEPT ![c] = l]
  BY DEF l, p
<1> QED BY <1>4, <1>5 DEF IsCfg

\* The types hold at the start and through each handler.
LEMMA InitType == Init => TypeOK
<1> SUFFICES ASSUME Init PROVE TypeOK
  OBVIOUS
<1>1. cpa \in [Channels -> Seq(Provider)]
  BY WriteBackAssumption DEF Init
<1>2. /\ cached = [r \in Refs |-> NoEntry] /\ hidden = {} /\ route \in BOOLEAN
      /\ held = [r \in Refs |-> Nowhere] /\ edits = 0
  BY DEF Init
<1>3. held \in [Refs -> [Channels -> Copy \cup {NoCopy}]]
  BY <1>2, NowhereIsOcc DEF IsOcc
<1>4. edits \in 0..MaxEdits
  BY <1>2, WriteBackAssumption
<1> HIDE DEF Init
<1>5. cached \in [Refs -> Entry \cup {NoEntry}] /\ \A r \in Refs : cached[r] = NoEntry
  BY <1>2
<1> QED BY <1>1, <1>2, <1>3, <1>4, <1>5 DEF TypeOK

\* A handler that stores a catalog and remembers.
LEMMA StepType ==
    ASSUME TypeOK, NEW cat, IsCat(cat), cached' = Forget(cat),
           NEW seen, IsCfg(cpa'), Remember(seen, cpa'),
           hidden' \in SUBSET Refs, route' \in BOOLEAN, edits' = edits
    PROVE  TypeOK'
<1>1. /\ cached' \in [Refs -> Entry \cup {NoEntry}]
      /\ \A r \in Refs : cached'[r] # NoEntry =>
            LET occ == cached'[r].occ
            IN  InLists(occ) # {} /\ \A c \in InLists(occ) : occ[c].at = 0
  BY StoredType
<1>2. held' \in [Refs -> [Channels -> Copy \cup {NoCopy}]]
  BY RememberType
<1>3. edits' \in 0..MaxEdits
  BY DEF TypeOK
<1>4. cpa' \in [Channels -> Seq(Provider)]
  BY DEF IsCfg
<1> QED BY <1>1, <1>2, <1>3, <1>4 DEF TypeOK

LEMMA LoadType ==
    ASSUME TypeOK, cpa' = cpa, hidden' = hidden, edits' = edits, route' \in BOOLEAN,
           cached' = Forget(Ready), Remember(Ready, cpa)
    PROVE  TypeOK'
<1>1. IsCat(Ready) /\ IsCfg(cpa) /\ hidden \in SUBSET Refs
  BY ReadyFits, TypeMeans
<1>2. IsCfg(cpa') /\ Remember(Ready, cpa') /\ hidden' \in SUBSET Refs
  BY <1>1
<1> QED BY <1>1, <1>2, StepType

LEMMA SaveType ==
    ASSUME TypeOK, NEW d \in Drafts, Save(d) PROVE TypeOK'
<1>1. /\ IsCfg(cpa') /\ hidden' \in SUBSET Refs /\ route' = route /\ edits' = edits
      /\ IsCat(Kept1(d)) /\ Stored(Kept1(d))
      /\ cached' = Forget(Loaded(Kept1(d), cpa', hidden'))
      /\ Remember(Ready, cpa')
  BY SaveFacts
<1> HIDE DEF Save
<1>2. IsCat(Loaded(Kept1(d), cpa', hidden'))
  BY <1>1, LoadedFits
<1>3. route' \in BOOLEAN
  BY <1>1, TypeMeans
<1> QED BY <1>1, <1>2, <1>3, StepType

\* What a probe makes of the catalog.
Probed(s, names) == Prune(Discovered(Ready, cpa, s, names), hidden)

LEMMA ProbedFacts ==
    ASSUME TypeOK, NEW s \in Sites, NEW names, Known(cpa, s)
    PROVE  /\ IsCat(Probed(s, names))
           /\ \A r \in Refs : Probed(s, names)[r] # NoEntry /\ Ready[r] # NoEntry =>
                 Probed(s, names)[r].occ = Ready[r].occ
<1> DEFINE cat == Discovered(Ready, cpa, s, names)
<1>1. \A r \in Refs : cat[r] # NoEntry =>
        Sound(cat[r]) /\ (Ready[r] # NoEntry => cat[r].occ = Ready[r].occ)
  BY ProbeFacts
<1> HIDE DEF cat
<1>2. IsCat(cat)
  BY <1>1 DEF IsCat
<1>3. /\ IsCat(Prune(cat, hidden))
      /\ \A r \in Refs : Prune(cat, hidden)[r] # NoEntry => Prune(cat, hidden)[r] = cat[r]
  BY <1>2, PruneCat
<1>4. \A r \in Refs : Prune(cat, hidden)[r] # NoEntry /\ Ready[r] # NoEntry =>
        Prune(cat, hidden)[r].occ = Ready[r].occ
  BY <1>1, <1>3
<1> QED BY <1>3, <1>4 DEF Probed, cat

LEMMA RefreshType ==
    ASSUME TypeOK, NEW s \in Sites, NEW names, Refresh(s, names) PROVE TypeOK'
<1>1. /\ Known(cpa, s) /\ cached' = Forget(Probed(s, names)) /\ Remember(Ready, cpa)
      /\ cpa' = cpa /\ hidden' = hidden /\ route' = route /\ edits' = edits
  BY DEF Refresh, Probed, Ready
<1>2. IsCfg(cpa') /\ hidden' \in SUBSET Refs /\ route' \in BOOLEAN /\ Remember(Ready, cpa')
  BY <1>1, TypeMeans
<1>3. IsCat(Probed(s, names))
  BY <1>1, ProbedFacts
<1> QED BY <1>1, <1>2, <1>3, StepType

LEMMA EditKeepsType == ASSUME TypeOK, Edit PROVE TypeOK'
<1>1. IsCfg(cpa)
  BY TypeMeans
<1>2. PICK c \in Channels : \E i \in {k \in DOMAIN cpa[c] : cpa[c][k].owner \in Sites} :
        (\E m \in EditModels : AddModel(c, i, m))
        \/ (\E k \in DOMAIN cpa[c][i].models : DropModel(c, i, k))
  BY DEF Edit
<1>3. PICK i \in DOMAIN cpa[c] :
        (\E m \in EditModels : AddModel(c, i, m))
        \/ (\E k \in DOMAIN cpa[c][i].models : DropModel(c, i, k))
  BY <1>2
<1>4. cpa[c][i].models \in Seq(Model)
  <2>1. cpa[c] \in Seq(Provider)
    BY <1>1 DEF IsCfg
  <2>2. cpa[c][i] \in Provider
    BY <2>1
  <2> QED BY <2>2 DEF Provider
<1>5. IsCfg(cpa')
  <2>1. ASSUME NEW m \in EditModels, AddModel(c, i, m) PROVE IsCfg(cpa')
    <3>1. Append(cpa[c][i].models, m) \in Seq(Model)
      BY <1>4, WriteBackAssumption, AppendProperties
    <3>2. cpa' = [cpa EXCEPT ![c][i].models = Append(cpa[c][i].models, m)]
      BY <2>1 DEF AddModel
    <3> QED BY <1>1, <3>1, <3>2, EditType
  <2>2. ASSUME NEW k \in DOMAIN cpa[c][i].models, DropModel(c, i, k) PROVE IsCfg(cpa')
    <3>1. RemoveAt(cpa[c][i].models, k) \in Seq(Model)
      BY <1>4, Dropped
    <3>2. cpa' = [cpa EXCEPT ![c][i].models = RemoveAt(cpa[c][i].models, k)]
      BY <2>2 DEF DropModel
    <3> QED BY <1>1, <3>1, <3>2, EditType
  <2> QED BY <1>3, <2>1, <2>2
<1>6. edits' \in 0..MaxEdits
  <2>1. edits \in 0..MaxEdits /\ MaxEdits \in Nat
    BY WriteBackAssumption DEF TypeOK
  <2>2. edits < MaxEdits /\ edits' = edits + 1
    BY DEF Edit
  <2> QED BY <2>1, <2>2
<1>7. cached' = cached /\ hidden' = hidden /\ route' = route /\ held' = held
  BY DEF Edit
<1> QED BY <1>5, <1>6, <1>7 DEF TypeOK, IsCfg

LEMMA NextType == ASSUME TypeOK, [Next]_vars PROVE TypeOK'
<1>1. hidden \in SUBSET Refs /\ route \in BOOLEAN
  BY TypeMeans
<1>2. CASE Load
  BY <1>1, <1>2, LoadType DEF Load, Ready
<1>3. ASSUME NEW d \in Drafts, Save(d) PROVE TypeOK'
  BY <1>3, SaveType
<1>4. ASSUME NEW s \in Sites, NEW names \in Answers, Refresh(s, names) PROVE TypeOK'
  BY <1>4, RefreshType
<1>5. CASE SetRouteByProtocol
  <2>1. route' \in BOOLEAN
    BY <1>1, <1>5 DEF SetRouteByProtocol
  <2> QED BY <1>5, <2>1, LoadType DEF SetRouteByProtocol, Ready
<1>6. CASE Edit
  BY <1>6, EditKeepsType
<1>7. CASE UNCHANGED vars
  BY <1>7 DEF TypeOK, vars
<1> QED BY <1>2, <1>3, <1>4, <1>5, <1>6, <1>7 DEF Next

\* Whatever loads, saves, probes, switches of routing and edits come, every
\* variable has its type; in particular a stored entry has a copy and no place.
THEOREM WriteBackTyped == Spec => []TypeOK
<1>1. TypeOK /\ [Next]_vars => TypeOK'
  BY NextType
<1> QED BY InitType, <1>1, PTL DEF Spec

-----------------------------------------------------------------------------
\* What the panel remembers.

\* The same lists, with the same fields.
SameCopies(occ, old) ==
    /\ InLists(occ) = InLists(old)
    /\ \A c \in InLists(old) : occ[c].raw = old[c].raw

\* The stored entry of a model still has the copies last seen in CPA.
Remembers ==
    \A r \in Refs : cached[r] # NoEntry /\ held[r] # Nowhere =>
        SameCopies(cached[r].occ, held[r])

\* What a handler goes by: the copies in CPA, the remembered ones if none.
Seen(r) == IF Holds(cpa, r) THEN Copies(cpa, r) ELSE held[r]

LEMMA ReadyRemembers ==
    ASSUME TypeOK, Remembers, NEW r \in Refs, Ready[r] # NoEntry, Seen(r) # Nowhere
    PROVE  SameCopies(Ready[r].occ, Seen(r))
<1>1. IsCfg(cpa) /\ IsCat(cached)
  BY TypeMeans
<1> DEFINE e == Ready[r]
<1>2. /\ Holds(cpa, r) => e.occ = Copies(cpa, r)
      /\ ~Holds(cpa, r) => cached[r] # NoEntry /\ e.occ = cached[r].occ
  BY <1>1, LoadedFacts DEF Ready
<1> HIDE DEF e
<1>3. CASE Holds(cpa, r)
  BY <1>2, <1>3 DEF Seen, SameCopies, e
<1>4. CASE ~Holds(cpa, r)
  BY <1>2, <1>4 DEF Seen, Remembers, e
<1> QED BY <1>3, <1>4

\* A stored copy is the copy but for its place.
LEMMA StoredCopies ==
    ASSUME NEW cat, IsCat(cat), NEW r \in Refs, Forget(cat)[r] # NoEntry
    PROVE  cat[r] # NoEntry /\ SameCopies(Forget(cat)[r].occ, cat[r].occ)
<1>1. cat[r] # NoEntry
  BY ForgetFacts
<1>2. IsOcc(cat[r].occ) /\ Forget(cat)[r].occ = Placeless(cat[r].occ)
  BY <1>1, ForgetFacts, EntryFacts DEF IsCat, Sound
<1> DEFINE occ == cat[r].occ
           new == Forget(cat)[r].occ
<1> HIDE DEF occ, new
<1>3. IsOcc(occ) /\ new = Placeless(occ)
  BY <1>2 DEF occ, new
<1>4. /\ InLists(Placeless(occ)) = InLists(occ)
      /\ \A c \in Channels : occ[c] # NoCopy => Placeless(occ)[c].raw = occ[c].raw
  BY <1>3, PlacelessFacts
<1>5. SameCopies(new, occ)
  BY <1>3, <1>4 DEF SameCopies, InLists
<1> QED BY <1>1, <1>5 DEF occ, new

LEMMA SameCopiesTransitive ==
    ASSUME NEW x, NEW y, NEW z, SameCopies(x, y), SameCopies(y, z)
    PROVE  SameCopies(x, z)
BY DEF SameCopies

\* Neither a draft nor what a save keeps of its catalog changes the copies.
LEMMA PlannedCopies ==
    ASSUME TypeOK, NEW d, IsDraft(d), NEW r \in Refs
    PROVE  /\ Planned(d)[r] # NoEntry <=> Ready[r] # NoEntry
           /\ Planned(d)[r] # NoEntry => /\ SameCopies(Planned(d)[r].occ, Ready[r].occ)
                                         /\ Planned(d)[r].gone = Ready[r].gone
<1>1. IsCat(Ready)
  BY ReadyFits
<1>2. /\ Ready[r] = NoEntry => Planned(d)[r] = NoEntry
      /\ Ready[r] # NoEntry =>
            /\ Planned(d)[r] # NoEntry /\ AllBut(Ready[r], Planned(d)[r])
            /\ Like(Ready[r].occ, Planned(d)[r].occ)
  BY <1>1, RenamedFacts DEF Planned
<1>3. ASSUME Ready[r] # NoEntry PROVE SameCopies(Planned(d)[r].occ, Ready[r].occ)
  <2>1. Like(Ready[r].occ, Planned(d)[r].occ)
    BY <1>2, <1>3
  <2> QED BY <2>1 DEF Like, SameCopies, InLists
<1> QED BY <1>2, <1>3 DEF AllBut

LEMMA KeptCopies ==
    ASSUME TypeOK, NEW d \in Drafts, NEW r \in Refs, Kept1(d)[r] # NoEntry
    PROVE  /\ Ready[r] # NoEntry
           /\ SameCopies(Kept1(d)[r].occ, Ready[r].occ)
           /\ Kept1(d)[r].gone = Ready[r].gone
<1>1. IsDraft(d) /\ IsCat(Planned(d))
  <2>1. IsCat(Ready) /\ Over(Ready, cpa) /\ IsDraft(d)
    BY ReadyFits, DraftTypes
  <2> QED BY <2>1, RenamedFits DEF Planned, Over
<1>2. /\ Planned(d)[r] # NoEntry
      /\ Kept1(d)[r].gone = Planned(d)[r].gone
      /\ InLists(Kept1(d)[r].occ) = InLists(Planned(d)[r].occ)
      /\ \A c \in InLists(Planned(d)[r].occ) :
            Kept1(d)[r].occ[c].raw = Planned(d)[r].occ[c].raw
  BY <1>1, KeptFacts DEF Kept1
<1>3. SameCopies(Kept1(d)[r].occ, Planned(d)[r].occ)
  BY <1>2 DEF SameCopies
<1>4. /\ Ready[r] # NoEntry /\ SameCopies(Planned(d)[r].occ, Ready[r].occ)
      /\ Planned(d)[r].gone = Ready[r].gone
  BY <1>1, <1>2, PlannedCopies
<1> QED BY <1>2, <1>3, <1>4, SameCopiesTransitive

\* A catalog stored next to what the load that made it saw.
LEMMA StoreRemembers ==
    ASSUME TypeOK, Remembers, NEW cat, IsCat(cat), cached' = Forget(cat),
           IsCfg(cpa'), Remember(Ready, cpa'),
           \A r \in Refs : cat[r] # NoEntry /\ Ready[r] # NoEntry =>
               IF Holds(cpa', r) THEN cat[r].occ = Copies(cpa', r)
               ELSE SameCopies(cat[r].occ, Ready[r].occ)
    PROVE  Remembers'
<1> SUFFICES ASSUME NEW r \in Refs, cached'[r] # NoEntry, held'[r] # Nowhere
             PROVE  SameCopies(cached'[r].occ, held'[r])
  BY DEF Remembers
<1>1. cat[r] # NoEntry /\ SameCopies(cached'[r].occ, cat[r].occ)
  BY StoredCopies
<1>2. /\ Ready[r] # NoEntry
      /\ Holds(cpa', r) => held'[r] = Copies(cpa', r)
      /\ ~Holds(cpa', r) => held'[r] = Seen(r)
  BY DEF Remember, Seen
<1>3. CASE Holds(cpa', r)
  <2>1. cat[r].occ = held'[r]
    BY <1>1, <1>2, <1>3
  <2> QED BY <1>1, <2>1
<1>4. CASE ~Holds(cpa', r)
  <2>1. SameCopies(cat[r].occ, Ready[r].occ)
    BY <1>1, <1>2, <1>4
  <2>2. SameCopies(Ready[r].occ, Seen(r))
    BY <1>2, <1>4, ReadyRemembers
  <2>3. SameCopies(cached'[r].occ, Seen(r))
    BY <1>1, <2>1, <2>2, SameCopiesTransitive
  <2> QED BY <1>2, <1>4, <2>3
<1> QED BY <1>3, <1>4

LEMMA LoadRemembers ==
    ASSUME TypeOK, Remembers, cpa' = cpa, cached' = Forget(Ready), Remember(Ready, cpa)
    PROVE  Remembers'
<1>1. IsCat(Ready) /\ IsCfg(cpa) /\ IsCat(cached)
  BY ReadyFits, TypeMeans
<1>2. IsCfg(cpa') /\ Remember(Ready, cpa')
  BY <1>1
<1>3. ASSUME NEW r \in Refs, Ready[r] # NoEntry
      PROVE  IF Holds(cpa', r) THEN Ready[r].occ = Copies(cpa', r)
             ELSE SameCopies(Ready[r].occ, Ready[r].occ)
  <2>1. Holds(cpa, r) => Ready[r].occ = Copies(cpa, r)
    BY <1>1, LoadedFacts DEF Ready
  <2> QED BY <2>1 DEF SameCopies
<1> QED BY <1>1, <1>2, <1>3, StoreRemembers

LEMMA RefreshRemembers ==
    ASSUME TypeOK, Remembers, NEW s \in Sites, NEW names, Refresh(s, names)
    PROVE  Remembers'
<1>1. /\ Known(cpa, s) /\ cached' = Forget(Probed(s, names)) /\ Remember(Ready, cpa)
      /\ cpa' = cpa
  BY DEF Refresh, Probed, Ready
<1> HIDE DEF Refresh
<1>2. /\ IsCat(Probed(s, names))
      /\ \A r \in Refs : Probed(s, names)[r] # NoEntry /\ Ready[r] # NoEntry =>
            Probed(s, names)[r].occ = Ready[r].occ
  BY <1>1, ProbedFacts
<1>3. IsCfg(cpa) /\ IsCat(cached)
  BY TypeMeans
<1>4. ASSUME NEW r \in Refs, Probed(s, names)[r] # NoEntry, Ready[r] # NoEntry
      PROVE  IF Holds(cpa', r) THEN Probed(s, names)[r].occ = Copies(cpa', r)
             ELSE SameCopies(Probed(s, names)[r].occ, Ready[r].occ)
  <2>1. Holds(cpa, r) => Ready[r].occ = Copies(cpa, r)
    BY <1>3, LoadedFacts DEF Ready
  <2> QED BY <1>1, <1>2, <1>4, <2>1 DEF SameCopies
<1>5. IsCfg(cpa') /\ Remember(Ready, cpa')
  BY <1>1, <1>3
<1> QED BY <1>1, <1>2, <1>4, <1>5, StoreRemembers

LEMMA SaveRemembers ==
    ASSUME TypeOK, Remembers, NEW d \in Drafts, Save(d)
    PROVE  Remembers'
<1>1. /\ IsCfg(cpa') /\ IsCat(Kept1(d)) /\ Stored(Kept1(d))
      /\ cached' = Forget(Loaded(Kept1(d), cpa', hidden'))
      /\ Remember(Ready, cpa')
  BY SaveFacts
<1> DEFINE cat == Loaded(Kept1(d), cpa', hidden')
<1>2. IsCat(cat)
  BY <1>1, LoadedFits
<1>3. ASSUME NEW r \in Refs, cat[r] # NoEntry
      PROVE  IF Holds(cpa', r) THEN cat[r].occ = Copies(cpa', r)
             ELSE SameCopies(cat[r].occ, Ready[r].occ)
  <2>1. /\ Holds(cpa', r) => cat[r].occ = Copies(cpa', r)
        /\ ~Holds(cpa', r) => Kept1(d)[r] # NoEntry /\ cat[r].occ = Kept1(d)[r].occ
    BY <1>1, <1>3, LoadedFacts
  <2>2. Kept1(d)[r] # NoEntry => SameCopies(Kept1(d)[r].occ, Ready[r].occ)
    BY KeptCopies
  <2> QED BY <2>1, <2>2
<1> HIDE DEF cat, Save
<1>4. cached' = Forget(cat)
  BY <1>1 DEF cat
<1> QED BY <1>1, <1>2, <1>3, <1>4, StoreRemembers

LEMMA NextRemembers ==
    ASSUME TypeOK, Remembers, [Next]_vars PROVE Remembers'
<1>1. CASE Load
  BY <1>1, LoadRemembers DEF Load, Ready
<1>2. ASSUME NEW d \in Drafts, Save(d) PROVE Remembers'
  BY <1>2, SaveRemembers
<1>3. ASSUME NEW s \in Sites, NEW names \in Answers, Refresh(s, names) PROVE Remembers'
  BY <1>3, RefreshRemembers
<1>4. CASE SetRouteByProtocol
  BY <1>4, LoadRemembers DEF SetRouteByProtocol, Ready
<1>5. CASE Edit
  <2>1. cached' = cached /\ held' = held
    BY <1>5 DEF Edit
  <2> QED BY <2>1 DEF Remembers
<1>6. CASE UNCHANGED vars
  BY <1>6 DEF Remembers, vars
<1> QED BY <1>1, <1>2, <1>3, <1>4, <1>5, <1>6 DEF Next

\* The inductive invariant of what follows.
IInv == TypeOK /\ Remembers

LEMMA WriteBackInvariant == Spec => []IInv
<1>1. Init => IInv
  <2>1. Init => Remembers
    BY DEF Init, Remembers
  <2> QED BY <2>1, InitType DEF IInv
<1>2. IInv /\ [Next]_vars => IInv'
  BY NextType, NextRemembers DEF IInv
<1> QED BY <1>1, <1>2, PTL DEF Spec

-----------------------------------------------------------------------------
\* A model that comes back.

LEMMA SaveRestores ==
    ASSUME IInv, NEW d \in Drafts, Save(d), NEW r \in Refs,
           ~Holds(cpa, r), Holds(cpa', r), held[r] # Nowhere
    PROVE  LET back == Copies(cpa', r)
           IN  /\ RawOf(back) \subseteq RawOf(held[r])
               /\ ~route => InLists(back) = InLists(held[r])
<1> DEFINE back == Copies(cpa', r)
           e    == Planned(d)[r]
<1>1. PICK s \in Sites, u \in Upstreams : r = <<s, u>>
  BY DEF Refs
<1>2. TypeOK /\ Remembers
  BY DEF IInv
<1>3. Over(Planned(d), cpa) /\ IsDraft(d) /\ cpa' = Sent(d) /\ IsCfg(cpa')
  BY <1>2, SaveFacts
<1> HIDE DEF Save, IInv
<1>4. ASSUME NEW c \in Channels
      PROVE  /\ c \in InLists(back) <=> u \in Placed(Planned(d), Hid(d), route, s, c)
             /\ c \in InLists(back) => back[c].raw = FieldsFor(e, c)
  <2>1. LET list == Written(Planned(d), Hid(d), route, cpa, s, c)
            copy == Copies(BuildWrite(Planned(d), Hid(d), route, cpa, d), <<s, u>>)[c]
        IN  /\ copy # NoCopy <=> u \in Placed(Planned(d), Hid(d), route, s, c)
            /\ copy # NoCopy =>
                  /\ copy.at \in DOMAIN list /\ copy.at > 0 /\ list[copy.at].name = u
                  /\ copy.alias = AliasOf(Planned(d)[<<s, u>>])
                  /\ copy.raw = FieldsFor(Planned(d)[<<s, u>>], c)
    BY <1>3, SentCopies
  <2> QED BY <1>1, <1>3, <2>1 DEF InLists, Sent
<1>5. PICK k \in Channels : k \in InLists(back)
  BY DEF Holds, InLists
<1>6. e # NoEntry /\ ~e.gone /\ r \notin Hid(d)
  BY <1>1, <1>4, <1>5 DEF Placed
<1>7. Ready[r] # NoEntry /\ SameCopies(e.occ, Ready[r].occ)
  BY <1>2, <1>3, <1>6, PlannedCopies
<1>8. SameCopies(e.occ, held[r])
  <2>1. SameCopies(Ready[r].occ, held[r])
    BY <1>2, <1>7, ReadyRemembers DEF Seen
  <2> QED BY <1>7, <2>1, SameCopiesTransitive
<1>9. \A c \in Channels : ~InPlace(e, c)
  <2>1. IsCfg(cpa) /\ IsCat(cached) /\ Stored(cached) /\ IsCat(Ready)
    BY <1>2, TypeMeans, ReadyFits
  <2>2. cached[r] # NoEntry /\ Ready[r].occ = cached[r].occ
    BY <1>7, <2>1, LoadedFacts DEF Ready
  <2>3. \A c \in Channels : ~InPlace(Ready[r], c)
    BY <2>1, <2>2 DEF Stored, InPlace
  <2>4. Like(Ready[r].occ, e.occ)
    BY <1>3, <1>7, <2>1, RenamedFacts DEF Planned
  <2> HIDE DEF e
  <2> QED BY <2>3, <2>4 DEF Like, InPlace
<1>10. Sound(e)
  BY <1>3, <1>6 DEF Over, IsCat
<1>11. RawOf(back) \subseteq RawOf(held[r])
  <2> SUFFICES ASSUME NEW c \in InLists(back) PROVE back[c].raw \in RawOf(held[r])
    BY DEF RawOf
  <2>1. c \in Channels
    BY DEF InLists
  <2>2. back[c].raw = AnyCopy(e).raw
    BY <1>4, <1>9, <2>1 DEF FieldsFor
  <2>3. AnyCopy(e).raw \in {e.occ[j].raw : j \in InLists(e.occ)}
    BY <1>10, <2>1, SlotFacts
  <2> HIDE DEF back, e
  <2> QED BY <1>8, <2>2, <2>3 DEF SameCopies, RawOf
<1>12. ASSUME ~route PROVE InLists(back) = InLists(held[r])
  <2>1. \A c \in Channels : u \in Placed(Planned(d), Hid(d), route, s, c)
                              <=> c \in InLists(e.occ)
    BY <1>1, <1>6, <1>12 DEF Placed, Targets
  <2>2. InLists(back) \subseteq Channels /\ InLists(e.occ) \subseteq Channels
    BY DEF InLists
  <2> HIDE DEF back, e
  <2>3. InLists(back) = InLists(e.occ)
    BY <1>4, <2>1, <2>2
  <2> QED BY <1>8, <2>3 DEF SameCopies
<1> QED BY <1>11, <1>12

\* A model the panel took out of CPA comes back with the fields of a copy it
\* had, and into the same lists while routing is off, however many loads,
\* saves and probes passed since: the stored entry is the panel's memory of it.
THEOREM WriteBackRestores == Spec => RestoredWhole
<1>1. IInv /\ [Next]_vars =>
        [Saved =>
            \A r \in Refs : ~Holds(cpa, r) /\ Holds(cpa', r) /\ held[r] # Nowhere =>
                LET back == Copies(cpa', r)
                IN  /\ RawOf(back) \subseteq RawOf(held[r])
                    /\ ~route => InLists(back) = InLists(held[r])]_vars
  BY SaveRestores DEF Saved
<1> QED BY <1>1, WriteBackInvariant, PTL DEF Spec, RestoredWhole

-----------------------------------------------------------------------------
\* A second save.

\* What the load after a write of cat finds, as far as a second write goes by it.
Repeats(again, cat, out) ==
    /\ Over(again, out)
    /\ \A r \in Refs :
          /\ Holds(out, r) => /\ again[r] # NoEntry /\ again[r].occ = Copies(out, r)
                              /\ again[r].gone => cat[r] # NoEntry /\ cat[r].gone
          /\ ~Holds(out, r) /\ again[r] # NoEntry =>
                 cat[r] # NoEntry /\ again[r].gone = cat[r].gone

LEMMA SaveRepeats ==
    ASSUME TypeOK, NEW d \in Drafts, Save(d)
    PROVE  Repeats(Loaded(cached', cpa', hidden'), Planned(d), cpa')
<1> DEFINE mid   == Loaded(Kept1(d), cpa', hidden')
           again == Loaded(cached', cpa', hidden')
<1>1. /\ IsCfg(cpa') /\ IsCat(Kept1(d)) /\ Stored(Kept1(d))
      /\ cached' = Forget(mid)
  BY SaveFacts
<1>2. IsDraft(d) /\ Over(Planned(d), cpa)
  BY SaveFacts
<1> HIDE DEF Save
<1>3. IsCat(mid)
  BY <1>1, LoadedFits
<1>4. IsCat(cached') /\ Stored(cached')
  <2> HIDE DEF mid
  <2> QED BY <1>1, <1>3, ForgetStores
<1>5. Over(again, cpa')
  BY <1>1, <1>4, LoadedFits DEF Over
<1>6. ASSUME NEW r \in Refs
      PROVE  /\ Holds(cpa', r) => /\ again[r] # NoEntry /\ again[r].occ = Copies(cpa', r)
                                  /\ again[r].gone => Planned(d)[r] # NoEntry /\ Planned(d)[r].gone
             /\ ~Holds(cpa', r) /\ again[r] # NoEntry =>
                    Planned(d)[r] # NoEntry /\ again[r].gone = Planned(d)[r].gone
  <2>1. /\ Holds(cpa', r) => /\ again[r] # NoEntry /\ again[r].occ = Copies(cpa', r)
                             /\ again[r].gone <=> (cached'[r] # NoEntry /\ cached'[r].gone)
        /\ ~Holds(cpa', r) /\ again[r] # NoEntry =>
              cached'[r] # NoEntry /\ again[r].gone = cached'[r].gone
    BY <1>1, <1>4, LoadedFacts
  <2>2. /\ Holds(cpa', r) => mid[r].gone <=> (Kept1(d)[r] # NoEntry /\ Kept1(d)[r].gone)
        /\ ~Holds(cpa', r) /\ mid[r] # NoEntry =>
              Kept1(d)[r] # NoEntry /\ mid[r].gone = Kept1(d)[r].gone
    BY <1>1, LoadedFacts
  <2> HIDE DEF mid, again
  <2>3. cached'[r] # NoEntry => mid[r] # NoEntry /\ cached'[r].gone = mid[r].gone
    BY <1>1, <1>3, ForgetFacts DEF AllBut
  <2>4. Kept1(d)[r] # NoEntry => Planned(d)[r] # NoEntry /\ Kept1(d)[r].gone = Planned(d)[r].gone
    BY <1>2, KeptFacts DEF Kept1, Over
  <2> QED BY <2>1, <2>2, <2>3, <2>4
<1> QED BY <1>5, <1>6 DEF Repeats

\* An entry that is written is written somewhere.
LEMMA HasTarget ==
    ASSUME NEW r \in Refs, NEW e, Sound(e), NEW rt
    PROVE  \E c \in Channels : c \in Targets(r, e, rt)
<1>1. CASE rt
  <2>1. Protocol[Canonical(r, e)] \in Channels
    <3>1. AliasOf(e) \in Alias
      <4>1. 1 \in Channels
        BY WriteBackAssumption DEF Channels
      <4> QED BY <4>1, SlotFacts
    <3>2. Canonical(r, e) \in Upstreams \cup Aliases
      <4>1. r[2] \in Upstreams
        BY DEF Refs
      <4> QED BY <3>1, <4>1, WriteBackAssumption DEF Canonical, Alias
    <3> QED BY <3>2, WriteBackAssumption
  <2> QED BY <1>1, <2>1 DEF Targets
<1>2. CASE ~rt
  BY <1>2 DEF Targets, Sound, InLists
<1> QED BY <1>1, <1>2

\* Copies that all go by one name.
LEMMA OneAlias ==
    ASSUME NEW e, InLists(e.occ) # {}, NEW a,
           \A c \in InLists(e.occ) : e.occ[c].alias = a
    PROVE  AliasOf(e) = a
<1> DEFINE named == {c \in InLists(e.occ) : e.occ[c].alias # NoAlias}
<1>1. AliasOf(e) = IF named = {} THEN NoAlias ELSE e.occ[Lowest(named)].alias
  BY DEF AliasOf
<1>2. named \in SUBSET Channels /\ named \in SUBSET InLists(e.occ)
  BY DEF InLists
<1>3. named # {} => Lowest(named) \in named
  <2> HIDE DEF named
  <2> QED BY <1>2, ChannelNat
<1>4. CASE named = {}
  <2>1. PICK c \in InLists(e.occ) : e.occ[c].alias = a
    OBVIOUS
  <2>2. a = NoAlias
    BY <1>4, <2>1
  <2> HIDE DEF named
  <2> QED BY <1>1, <1>4, <2>2
<1>5. CASE named # {}
  <2> DEFINE k == Lowest(named)
  <2>1. k \in InLists(e.occ)
    BY <1>2, <1>3, <1>5
  <2>2. AliasOf(e) = e.occ[k].alias
    BY <1>1, <1>5
  <2> HIDE DEF k, named
  <2> QED BY <2>1, <2>2
<1> QED BY <1>4, <1>5

\* What a list has at the place of a model.
LEMMA WrittenSlot ==
    ASSUME NEW cat, NEW cfg, Over(cat, cfg), NEW hid, NEW rt,
           NEW s \in Sites, NEW c \in Channels,
           NEW i \in DOMAIN Written(cat, hid, rt, cfg, s, c),
           NEW u, Written(cat, hid, rt, cfg, s, c)[i].name = u
    PROVE  Written(cat, hid, rt, cfg, s, c)[i] = Slot(<<s, u>>, cat[<<s, u>>], c)
<1> DEFINE list == Written(cat, hid, rt, cfg, s, c)
           P    == Placed(cat, hid, rt, s, c)
<1>1. /\ DOMAIN list = 1..Len(list) /\ Len(list) \in Nat
      /\ \A k \in DOMAIN list : /\ list[k].name \in P
                                /\ list[k] = Slot(<<s, list[k].name>>, cat[<<s, list[k].name>>], c)
      /\ \A v \in P : \E k \in DOMAIN list : list[k].name = v
  BY WrittenFacts
<1> HIDE DEF list, P
<1>2. i \in DOMAIN list /\ list[i].name = u
  BY DEF list
<1>3. list[i] = Slot(<<s, u>>, cat[<<s, u>>], c)
  BY <1>1, <1>2
<1> QED BY <1>3 DEF list

\* A second write places every model where the first did, and as it did.
LEMMA SamePlaces ==
    ASSUME NEW cat, NEW cfg, Over(cat, cfg), NEW hid, NEW rt, rt \in BOOLEAN,
           NEW d, IsDraft(d),
           NEW out, out = BuildWrite(cat, hid, rt, cfg, d),
           NEW again, Repeats(again, cat, out),
           NEW s \in Sites, NEW u \in Upstreams, NEW c \in Channels
    PROVE  LET r    == <<s, u>>
               list == Written(cat, hid, rt, cfg, s, c)
           IN  /\ u \in Placed(again, hid, rt, s, c) <=> u \in Placed(cat, hid, rt, s, c)
               /\ u \in Placed(cat, hid, rt, s, c) =>
                     /\ again[r] # NoEntry /\ InPlace(again[r], c)
                     /\ again[r].occ[c].at \in DOMAIN list
                     /\ list[again[r].occ[c].at].name = u
                     /\ list[again[r].occ[c].at] = Slot(r, again[r], c)
<1> DEFINE r       == <<s, u>>
           list(k) == Written(cat, hid, rt, cfg, s, k)
           copy(k) == Copies(out, r)[k]
           In(k)   == u \in Placed(cat, hid, rt, s, k)
<1>1. r \in Refs
  BY DEF Refs
<1>2. ASSUME NEW k \in Channels
      PROVE  /\ copy(k) # NoCopy <=> In(k)
             /\ In(k) => /\ copy(k).at \in DOMAIN list(k) /\ copy(k).at > 0
                         /\ list(k)[copy(k).at].name = u
                         /\ copy(k).alias = AliasOf(cat[r]) /\ copy(k).raw = FieldsFor(cat[r], k)
  BY SentCopies
<1>3. Holds(out, r) <=> \E k \in Channels : In(k)
  BY <1>2 DEF Holds, InLists
<1>4. ASSUME In(c)
      PROVE  list(c)[copy(c).at] = Slot(r, cat[r], c)
  <2>1. copy(c).at \in DOMAIN list(c) /\ list(c)[copy(c).at].name = u
    BY <1>2, <1>4
  <2> DEFINE i == copy(c).at
  <2> HIDE DEF copy, In, i
  <2>2. i \in DOMAIN Written(cat, hid, rt, cfg, s, c) /\ Written(cat, hid, rt, cfg, s, c)[i].name = u
    BY <2>1 DEF i
  <2>3. Written(cat, hid, rt, cfg, s, c)[i] = Slot(<<s, u>>, cat[<<s, u>>], c)
    BY <2>2, WrittenSlot
  <2> QED BY <2>3 DEF i
<1>5. /\ Holds(out, r) => /\ again[r] # NoEntry /\ again[r].occ = Copies(out, r)
                          /\ again[r].gone => cat[r] # NoEntry /\ cat[r].gone
      /\ ~Holds(out, r) /\ again[r] # NoEntry =>
             cat[r] # NoEntry /\ again[r].gone = cat[r].gone
  BY <1>1 DEF Repeats
<1>6. \A k \in Channels :
        In(k) <=> /\ r \notin hid /\ cat[r] # NoEntry /\ ~cat[r].gone
                  /\ k \in Targets(r, cat[r], rt)
  BY DEF Placed
<1>7. \A k \in Channels :
        u \in Placed(again, hid, rt, s, k)
          <=> /\ r \notin hid /\ again[r] # NoEntry /\ ~again[r].gone
              /\ k \in Targets(r, again[r], rt)
  BY DEF Placed
<1> HIDE DEF r, list, copy, In
<1>8. CASE Holds(out, r)
  <2>1. PICK k \in Channels : In(k)
    BY <1>3, <1>8
  <2>2. r \notin hid /\ cat[r] # NoEntry /\ ~cat[r].gone /\ again[r] # NoEntry /\ ~again[r].gone
        /\ again[r].occ = Copies(out, r)
    BY <1>5, <1>6, <1>8, <2>1
  <2>3. \A j \in Channels : j \in InLists(again[r].occ) <=> In(j)
    BY <1>2, <2>2 DEF InLists, copy
  <2>4. AliasOf(again[r]) = AliasOf(cat[r])
    <3>1. InLists(again[r].occ) # {}
      BY <2>1, <2>3
    <3>2. ASSUME NEW j \in InLists(again[r].occ)
          PROVE  again[r].occ[j].alias = AliasOf(cat[r])
      <4>1. j \in Channels
        BY DEF InLists
      <4> QED BY <1>2, <2>2, <2>3, <4>1 DEF copy
    <3> QED BY <3>1, <3>2, OneAlias
  <2>5. \A j \in Channels : j \in Targets(r, again[r], rt) <=> j \in Targets(r, cat[r], rt)
    <3>1. CASE rt
      BY <2>4, <3>1 DEF Targets, Canonical
    <3>2. CASE ~rt
      <4>1. Targets(r, again[r], rt) = InLists(again[r].occ)
        BY <3>2 DEF Targets
      <4> QED BY <1>6, <2>2, <2>3, <4>1
    <3> QED BY <3>1, <3>2
  <2>6. u \in Placed(again, hid, rt, s, c) <=> In(c)
    BY <1>6, <1>7, <2>2, <2>5
  <2>7. ASSUME In(c)
        PROVE  /\ InPlace(again[r], c)
               /\ again[r].occ[c] = copy(c)
               /\ list(c)[copy(c).at] = Slot(r, again[r], c)
    <3>1. again[r].occ[c] = copy(c) /\ copy(c) # NoCopy
      BY <1>2, <2>2, <2>7 DEF copy
    <3>2. InPlace(again[r], c)
      BY <1>2, <2>7, <3>1 DEF InPlace
    <3>3. FieldsFor(again[r], c) = FieldsFor(cat[r], c)
      <4>1. FieldsFor(again[r], c) = copy(c).raw
        BY <3>1, <3>2 DEF FieldsFor
      <4> QED BY <1>2, <2>7, <4>1
    <3>4. Slot(r, again[r], c) = Slot(r, cat[r], c)
      BY <2>4, <3>3 DEF Slot
    <3> QED BY <1>4, <2>7, <3>1, <3>2, <3>4
  <2>8. In(c) => copy(c).at \in DOMAIN list(c) /\ list(c)[copy(c).at].name = u
    BY <1>2
  <2> QED BY <2>2, <2>6, <2>7, <2>8 DEF In, r, list
<1>9. CASE ~Holds(out, r)
  <2>1. ~In(c)
    BY <1>3, <1>9
  <2>2. ASSUME u \in Placed(again, hid, rt, s, c) PROVE FALSE
    <3>1. r \notin hid /\ again[r] # NoEntry /\ ~again[r].gone
      BY <1>7, <2>2
    <3>2. cat[r] # NoEntry /\ ~cat[r].gone
      BY <1>5, <1>9, <3>1
    <3>3. Sound(cat[r])
      BY <1>1, <3>2 DEF Over, IsCat
    <3>4. PICK k \in Channels : k \in Targets(r, cat[r], rt)
      BY <1>1, <3>3, HasTarget
    <3>5. In(k)
      BY <1>6, <3>1, <3>2, <3>4
    <3> QED BY <1>3, <1>9, <3>5
  <2> QED BY <2>1, <2>2 DEF In
<1> QED BY <1>8, <1>9

\* What a write writes, from any listing of what it places.
LEMMA WrittenFrom ==
    ASSUME NEW cat, NEW hid, NEW rt, NEW cfg, NEW s, NEW c, NEW m \in Nat, NEW w,
           DOMAIN w = 1..m,
           InOrder(Placed(cat, hid, rt, s, c), Order(cat, hid, rt, cfg, s, c)) = w
    PROVE  Written(cat, hid, rt, cfg, s, c)
             = [i \in 1..m |-> Slot(<<s, w[i]>>, cat[<<s, w[i]>>], c)]
BY DEF Written, Order

\* A list is what is written, if every place has its model and its fields.
LEMMA WrittenIs ==
    ASSUME NEW cat, NEW cfg, Over(cat, cfg), NEW hid, NEW rt,
           NEW s \in Sites, NEW c \in Channels, NEW list \in Seq(Model),
           \A u \in Placed(cat, hid, rt, s, c) : \E i \in 1..Len(list) : list[i].name = u,
           \A i \in 1..Len(list) : list[i].name \in Placed(cat, hid, rt, s, c),
           \A i \in 1..Len(list) :
               OrderOf(cfg, <<s, list[i].name>>, cat[<<s, list[i].name>>], c) = i,
           \A i \in 1..Len(list) :
               Slot(<<s, list[i].name>>, cat[<<s, list[i].name>>], c) = list[i]
    PROVE  Written(cat, hid, rt, cfg, s, c) = list
<1> DEFINE S   == Placed(cat, hid, rt, s, c)
           key == Order(cat, hid, rt, cfg, s, c)
           m   == Len(list)
           w   == [i \in 1..m |-> list[i].name]
<1>1. Keyed(S, key)
  BY PlacedKeyed
<1>2. \A u \in S : key[u] = OrderOf(cfg, <<s, u>>, cat[<<s, u>>], c)
  BY DEF Order
<1>3. m \in Nat /\ list = [i \in 1..m |-> list[i]]
  OBVIOUS
<1> HIDE DEF S, key, m
<1>4. w \in [1..m -> S] /\ \A i \in 1..m : w[i] = list[i].name
  BY DEF S, m
<1> HIDE DEF w
<1>5. InOrder(S, key) = w
  <2>1. \A x \in S : \E i \in 1..m : w[i] = x
    BY <1>4 DEF S, m
  <2>2. \A i \in 1..m : key[w[i]] = i
    BY <1>2, <1>4 DEF m
  <2>3. m \in Nat /\ w \in [1..m -> S]
    BY <1>3, <1>4
  <2> QED BY <1>1, <2>1, <2>2, <2>3, ListedByPlace
<1>6. Written(cat, hid, rt, cfg, s, c)
        = [i \in 1..m |-> Slot(<<s, w[i]>>, cat[<<s, w[i]>>], c)]
  BY <1>3, <1>4, <1>5, WrittenFrom DEF S, key
<1>7. \A i \in 1..m : Slot(<<s, w[i]>>, cat[<<s, w[i]>>], c) = list[i]
  BY <1>4 DEF m
<1> QED BY <1>3, <1>6, <1>7

LEMMA SameWritten ==
    ASSUME NEW cat, NEW cfg, Over(cat, cfg), NEW hid, NEW rt, rt \in BOOLEAN,
           NEW d, IsDraft(d),
           NEW out, out = BuildWrite(cat, hid, rt, cfg, d),
           NEW again, Repeats(again, cat, out),
           NEW s \in Sites, NEW c \in Channels
    PROVE  Written(again, hid, rt, out, s, c) = Written(cat, hid, rt, cfg, s, c)
<1> DEFINE list == Written(cat, hid, rt, cfg, s, c)
           P    == Placed(cat, hid, rt, s, c)
           S    == Placed(again, hid, rt, s, c)
           At(u) == again[<<s, u>>].occ[c].at
<1>1. Over(again, out)
  BY DEF Repeats
<1>2. /\ list \in Seq(Model) /\ Len(list) \in Nat /\ DOMAIN list = 1..Len(list)
      /\ \A i \in DOMAIN list : list[i].name \in P
      /\ \A u \in P : \E i \in DOMAIN list : list[i].name = u
      /\ Once(list)
  <2>1. /\ list \in Seq(Model) /\ Len(list) \in Nat /\ DOMAIN list = 1..Len(list)
        /\ \A i \in DOMAIN list :
              /\ list[i].name \in P
              /\ list[i] = Slot(<<s, list[i].name>>, cat[<<s, list[i].name>>], c)
        /\ \A u \in P : \E i \in DOMAIN list : list[i].name = u
        /\ Once(list)
        /\ \A i, j \in DOMAIN list : i < j =>
              OrderOf(cfg, <<s, list[i].name>>, cat[<<s, list[i].name>>], c)
                < OrderOf(cfg, <<s, list[j].name>>, cat[<<s, list[j].name>>], c)
    BY WrittenFacts
  <2> HIDE DEF list, P
  <2> QED BY <2>1
<1>3. P \subseteq Upstreams /\ S \subseteq Upstreams
  BY DEF Placed
<1>4. ASSUME NEW u \in Upstreams
      PROVE  /\ u \in S <=> u \in P
             /\ u \in P => /\ again[<<s, u>>] # NoEntry /\ InPlace(again[<<s, u>>], c)
                           /\ At(u) \in DOMAIN list /\ list[At(u)].name = u
                           /\ list[At(u)] = Slot(<<s, u>>, again[<<s, u>>], c)
  BY SamePlaces
<1>5. ASSUME NEW u \in S, InPlace(again[<<s, u>>], c)
      PROVE  OrderOf(out, <<s, u>>, again[<<s, u>>], c) = At(u)
  BY <1>5 DEF OrderOf
<1> HIDE DEF list, P, S, At
<1>6. S = P
  BY <1>3, <1>4
<1>7. ASSUME NEW i \in 1..Len(list)
      PROVE  /\ list[i].name \in S
             /\ OrderOf(out, <<s, list[i].name>>, again[<<s, list[i].name>>], c) = i
             /\ Slot(<<s, list[i].name>>, again[<<s, list[i].name>>], c) = list[i]
  <2> DEFINE u == list[i].name
  <2>1. u \in P /\ u \in S /\ u \in Upstreams
    BY <1>2, <1>3, <1>6
  <2> HIDE DEF u
  <2>2. /\ InPlace(again[<<s, u>>], c)
        /\ At(u) \in DOMAIN list /\ list[At(u)].name = u
        /\ list[At(u)] = Slot(<<s, u>>, again[<<s, u>>], c)
    BY <1>4, <2>1
  <2>3. At(u) = i
    BY <1>2, <2>2 DEF Once, u
  <2>4. OrderOf(out, <<s, u>>, again[<<s, u>>], c) = i
    BY <1>5, <2>1, <2>2, <2>3
  <2>5. Slot(<<s, u>>, again[<<s, u>>], c) = list[i]
    BY <2>2, <2>3
  <2> QED BY <2>1, <2>4, <2>5 DEF u
<1>8. \A u \in S : \E i \in 1..Len(list) : list[i].name = u
  BY <1>2, <1>6
<1>9. Written(again, hid, rt, out, s, c) = list
  <2>1. /\ \A i \in 1..Len(list) : list[i].name \in S
        /\ \A i \in 1..Len(list) :
              OrderOf(out, <<s, list[i].name>>, again[<<s, list[i].name>>], c) = i
        /\ \A i \in 1..Len(list) :
              Slot(<<s, list[i].name>>, again[<<s, list[i].name>>], c) = list[i]
    BY <1>7
  <2>2. list \in Seq(Model)
    BY <1>2
  <2> QED BY <1>1, <1>8, <2>1, <2>2, WrittenIs DEF S
<1> QED BY <1>9 DEF list

\* Two lists of one length with the same at every place are one.
LEMMA SameSeq ==
    ASSUME NEW A, NEW x \in Seq(A), NEW B, NEW y \in Seq(B), Len(x) = Len(y),
           \A i \in 1..Len(y) : x[i] = y[i]
    PROVE  x = y
<1>1. x = [i \in 1..Len(x) |-> x[i]] /\ y = [i \in 1..Len(y) |-> y[i]]
  OBVIOUS
<1> QED BY <1>1

\* A provider rebuilt with the models it has is the provider.
LEMMA Unchanged ==
    ASSUME NEW p \in Provider, NEW q,
           q = [p EXCEPT !.models = p.models, !.prio = p.prio]
    PROVE  q = p
BY DEF Provider

\* CPA is sent back as it is, if every list of a site is written as it is.
LEMMA SentBack ==
    ASSUME NEW cat, NEW cfg, Over(cat, cfg), NEW hid, NEW rt,
           \A s \in Sites, c \in Channels :
               Written(cat, hid, rt, cfg, s, c) = ModelsOf(cfg, c, s)
    PROVE  BuildWrite(cat, hid, rt, cfg, {}) = cfg
<1>1. IsDraft({}) /\ IsCfg(cfg)
  BY DEF IsDraft, Over
<1> SUFFICES ASSUME NEW c \in Channels
             PROVE  BuildWrite(cat, hid, rt, cfg, {})[c] = cfg[c]
  <2>1. cfg = [c \in Channels |-> cfg[c]]
    BY <1>1 DEF IsCfg
  <2>2. BuildWrite(cat, hid, rt, cfg, {})
          = [c \in Channels |-> BuildWrite(cat, hid, rt, cfg, {})[c]]
    BY DEF BuildWrite
  <2> QED BY <2>1, <2>2
<1> DEFINE sent == BuildWrite(cat, hid, rt, cfg, {})[c]
           made == Created(cat, hid, rt, cfg, c)
           n    == Len(cfg[c])
<1>2. /\ sent \in Seq(Provider) /\ DOMAIN sent = 1..Len(sent)
      /\ n \in Nat /\ DOMAIN cfg[c] = 1..n /\ Len(sent) = n + Len(made)
      /\ \A i \in 1..n : i \in DOMAIN sent
                         /\ sent[i] = Rebuilt(cat, hid, rt, cfg, {}, c, i)
      /\ \A j \in DOMAIN made : n + j \in DOMAIN sent /\ sent[n + j] = made[j]
      /\ \A i \in DOMAIN sent : i \notin 1..n => i - n \in DOMAIN made
  BY <1>1, SentFacts
<1>3. Len(made) = 0
  <2>1. ASSUME NEW s \in Wanting(cat, hid, rt, cfg, c) PROVE FALSE
    <3>1. s \in Sites /\ IndexOf(cfg, c, s) = 0 /\ Placed(cat, hid, rt, s, c) # {}
      BY <2>1 DEF Wanting
    <3>2. Written(cat, hid, rt, cfg, s, c) = <<>>
      BY <3>1 DEF ModelsOf
    <3> QED BY <3>1, <3>2, NothingWritten
  <2>2. /\ made \in Seq(Provider) /\ Len(made) \in Nat /\ DOMAIN made = 1..Len(made)
        /\ \A i \in DOMAIN made :
              /\ made[i].owner \in Wanting(cat, hid, rt, cfg, c)
              /\ made[i].models = Written(cat, hid, rt, cfg, made[i].owner, c)
        /\ \A s \in Wanting(cat, hid, rt, cfg, c) : \E i \in DOMAIN made : made[i].owner = s
        /\ \A i, j \in DOMAIN made : made[i].owner = made[j].owner => i = j
    BY CreatedFacts
  <2> HIDE DEF made
  <2>3. \A i \in DOMAIN made : FALSE
    BY <2>1, <2>2
  <2> QED BY <2>2, <2>3
<1>4. ASSUME NEW i \in 1..n PROVE sent[i] = cfg[c][i]
  <2> DEFINE p == cfg[c][i]
             q == Rebuilt(cat, hid, rt, cfg, {}, c, i)
  <2>1. p \in Provider
    <3>1. cfg[c] \in Seq(Provider)
      BY <1>1 DEF IsCfg
    <3> QED BY <1>2, <3>1
  <2>2. ASSUME p.owner \in Sites, i = IndexOf(cfg, c, p.owner)
        PROVE  q = [p EXCEPT !.models = p.models, !.prio = p.prio]
    <3>1. ModelsOf(cfg, c, p.owner) = p.models
      <4>1. i # 0
        OBVIOUS
      <4> QED BY <2>2, <4>1 DEF ModelsOf
    <3>2. Written(cat, hid, rt, cfg, p.owner, c) = ModelsOf(cfg, c, p.owner)
      BY <2>2
    <3>3. PriorityAfter({}, p.owner, c, p.prio) = p.prio
      BY DEF PriorityAfter, OpsOf
    <3>4. q = [p EXCEPT !.models = Written(cat, hid, rt, cfg, p.owner, c),
                        !.prio = PriorityAfter({}, p.owner, c, p.prio)]
      BY <2>2 DEF Rebuilt
    <3> HIDE DEF p, q
    <3> QED BY <3>1, <3>2, <3>3, <3>4
  <2>3. ~(p.owner \in Sites /\ i = IndexOf(cfg, c, p.owner)) => q = p
    BY DEF Rebuilt
  <2> HIDE DEF p, q
  <2>4. q = p
    BY <2>1, <2>2, <2>3, Unchanged
  <2> QED BY <1>2, <2>4 DEF p, q
<1>5. cfg[c] \in Seq(Provider)
  BY <1>1 DEF IsCfg
<1> HIDE DEF sent, made
<1>6. sent = cfg[c]
  <2>1. Len(sent) = n /\ sent \in Seq(Provider)
    BY <1>2, <1>3
  <2>2. \A i \in 1..Len(cfg[c]) : sent[i] = cfg[c][i]
    BY <1>4
  <2> QED BY <1>5, <2>1, <2>2, SameSeq
<1> QED BY <1>6 DEF sent

LEMMA SentTwice ==
    ASSUME NEW cat, NEW cfg, Over(cat, cfg), NEW hid, NEW rt, rt \in BOOLEAN,
           NEW d, IsDraft(d),
           NEW out, out = BuildWrite(cat, hid, rt, cfg, d),
           NEW again, Repeats(again, cat, out)
    PROVE  BuildWrite(again, hid, rt, out, {}) = out
<1>1. Over(again, out)
  BY DEF Repeats
<1>2. ASSUME NEW s \in Sites, NEW c \in Channels
      PROVE  Written(again, hid, rt, out, s, c) = ModelsOf(out, c, s)
  <2>1. Written(again, hid, rt, out, s, c) = Written(cat, hid, rt, cfg, s, c)
    BY SameWritten
  <2>2. ModelsOf(out, c, s) = Written(cat, hid, rt, cfg, s, c)
    BY SentModels
  <2> QED BY <2>1, <2>2
<1> QED BY <1>1, <1>2, SentBack

\* One save is enough: a second save with nothing in it would send back what
\* the first one left, whatever CPA held and whatever the draft asked for.
THEOREM WriteBackFixpoint == Spec => SaveIsFixpoint
<1>1. ASSUME TypeOK, Saved
      PROVE  BuildWrite(Loaded(cached', cpa', hidden'), hidden', route', cpa', {}) = cpa'
  <2>1. PICK d \in Drafts : Save(d)
    BY <1>1 DEF Saved
  <2>2. /\ Over(Planned(d), cpa) /\ IsDraft(d)
        /\ cpa' = BuildWrite(Planned(d), Hid(d), route, cpa, d)
        /\ hidden' = Hid(d) /\ route' = route
    BY <1>1, <2>1, SaveFacts DEF Sent
  <2>3. Repeats(Loaded(cached', cpa', hidden'), Planned(d), cpa')
    BY <1>1, <2>1, SaveRepeats
  <2>4. route \in BOOLEAN
    BY <1>1, TypeMeans
  <2> QED BY <2>2, <2>3, <2>4, SentTwice
<1>2. TypeOK /\ [Next]_vars =>
        [Saved => BuildWrite(Loaded(cached', cpa', hidden'), hidden', route', cpa', {})
                    = cpa']_vars
  BY <1>1
<1> QED BY <1>2, WriteBackTyped, PTL DEF Spec, SaveIsFixpoint

-----------------------------------------------------------------------------
\* A save that asks for nothing.

LEMMA NothingAsked ==
    ASSUME TypeOK, Save({})
    PROVE  cpa' = BuildWrite(Ready, hidden, route, cpa, {})
<1>1. cpa' = BuildWrite(Renamed(Ready, {}), HiddenAfter(Ready, hidden, {}), route, cpa, {})
  BY DEF Save, Ready
<1>2. Ready = [r \in Refs |-> Ready[r]]
  BY DEF Ready, Loaded, Prune
<1>3. Renamed(Ready, {}) = [r \in Refs |-> Ready[r]]
  BY DEF Renamed, OpsOf
<1>4. HiddenAfter(Ready, hidden, {}) = hidden
  BY DEF HiddenAfter, OnModels, OpsOf
<1> QED BY <1>1, <1>2, <1>3, <1>4

\* Where nothing was touched, what is written is what CPA holds.
LEMMA UntouchedPlaces ==
    ASSUME TypeOK, ~route, Untouched,
           NEW s \in Sites, NEW u \in Upstreams, NEW c \in Channels
    PROVE  LET r == <<s, u>>
           IN  /\ u \in Placed(Ready, hidden, route, s, c)
                    <=> Places(ModelsOf(cpa, c, s), u) # {}
               /\ u \in Placed(Ready, hidden, route, s, c) =>
                     Ready[r] # NoEntry /\ Ready[r].occ = Copies(cpa, r)
<1> DEFINE r  == <<s, u>>
           e  == Ready[r]
           at == Places(ModelsOf(cpa, c, s), u)
<1>1. r \in Refs /\ r[1] = s /\ r[2] = u
  BY DEF Refs
<1>2. IsCfg(cpa) /\ IsCat(cached)
  BY TypeMeans
<1>3. /\ Holds(cpa, r) => e # NoEntry /\ e.occ = Copies(cpa, r)
      /\ ~Holds(cpa, r) /\ e # NoEntry => ~e.present
  BY <1>1, <1>2, LoadedFacts DEF Ready
<1>4. e # NoEntry => e.present /\ ~e.gone /\ r \notin hidden
  BY <1>1 DEF Untouched, Ready
<1>5. u \in Placed(Ready, hidden, route, s, c) <=> e # NoEntry /\ c \in InLists(e.occ)
  <2>1. u \in Placed(Ready, hidden, route, s, c)
          <=> r \notin hidden /\ e # NoEntry /\ ~e.gone /\ c \in Targets(r, e, route)
    BY DEF Placed
  <2>2. Targets(r, e, route) = InLists(e.occ)
    BY DEF Targets
  <2> QED BY <1>4, <2>1, <2>2
<1>6. /\ Copies(cpa, r)[c] # NoCopy <=> at # {}
      /\ Copies(cpa, r)[c] # NoCopy => Holds(cpa, r)
  <2>1. LET l == ModelsOf(cpa, c, r[1])
            p == Places(l, r[2])
            k == Copies(cpa, r)[c]
        IN  /\ p = {} => k = NoCopy
            /\ p # {} => /\ k # NoCopy /\ k \in Copy
                         /\ k.at = Lowest(p) /\ k.at \in p
                         /\ k.alias = l[k.at].alias
                         /\ k.raw = l[k.at].raw
    BY <1>2, CopiesFacts
  <2>2. Copies(cpa, r)[c] # NoCopy <=> at # {}
    BY <1>1, <2>1
  <2> QED BY <2>2 DEF Holds, InLists
<1> HIDE DEF r, e, at
<1>7. u \in Placed(Ready, hidden, route, s, c) <=> at # {}
  BY <1>3, <1>4, <1>5, <1>6 DEF InLists
<1> QED BY <1>3, <1>4, <1>5, <1>7 DEF r, e, at

LEMMA WrittenBack ==
    ASSUME TypeOK, ~route, Untouched, \A r \in Refs : OneName(r),
           NEW s \in Sites, NEW c \in Channels
    PROVE  Written(Ready, hidden, route, cpa, s, c) = ModelsOf(cpa, c, s)
<1> DEFINE list == ModelsOf(cpa, c, s)
           P    == Placed(Ready, hidden, route, s, c)
<1>1. /\ IsCfg(cpa) /\ Over(Ready, cpa)
  BY TypeMeans, ReadyFits
<1>2. /\ list \in Seq(Model) /\ Len(list) \in Nat /\ DOMAIN list = 1..Len(list)
      /\ \A i \in DOMAIN list : list[i] \in Model
  BY <1>1, ModelsFacts
<1>3. ASSUME NEW i \in 1..Len(list)
      PROVE  /\ list[i].name \in P
             /\ OrderOf(cpa, <<s, list[i].name>>, Ready[<<s, list[i].name>>], c) = i
             /\ Slot(<<s, list[i].name>>, Ready[<<s, list[i].name>>], c) = list[i]
  <2> DEFINE u == list[i].name
             r == <<s, u>>
             e == Ready[r]
  <2>1. list[i] \in Model
    BY <1>2, <1>3
  <2>2. u \in Upstreams /\ r \in Refs /\ r[1] = s /\ r[2] = u
    BY <2>1 DEF Model, Refs
  <2>3. i \in Places(list, u)
    BY <1>2 DEF Places
  <2>4. u \in P /\ e # NoEntry /\ e.occ = Copies(cpa, r)
    BY <2>2, <2>3, UntouchedPlaces
  <2>5. ASSUME NEW k \in Channels, Copies(cpa, r)[k] # NoCopy
        PROVE  /\ Copies(cpa, r)[k].at \in Places(ModelsOf(cpa, k, s), u)
               /\ Copies(cpa, r)[k].alias = list[i].alias
               /\ Copies(cpa, r)[k].raw = ModelsOf(cpa, k, s)[Copies(cpa, r)[k].at].raw
    <3> DEFINE there == ModelsOf(cpa, k, s)
               j     == Copies(cpa, r)[k].at
    <3>1. LET l == ModelsOf(cpa, k, r[1])
              p == Places(l, r[2])
              q == Copies(cpa, r)[k]
          IN  /\ p = {} => q = NoCopy
              /\ p # {} => /\ q # NoCopy /\ q \in Copy
                           /\ q.at = Lowest(p) /\ q.at \in p
                           /\ q.alias = l[q.at].alias
                           /\ q.raw = l[q.at].raw
      BY <1>1, CopiesFacts
    <3>2. j \in Places(there, u) /\ Copies(cpa, r)[k].alias = there[j].alias
          /\ Copies(cpa, r)[k].raw = there[j].raw
      BY <2>2, <2>5, <3>1
    <3>3. OneName(r)
      BY <2>2
    <3>4. \A m \in Places(list, u), n \in Places(there, u) : list[m].alias = there[n].alias
      BY <2>2, <3>3 DEF OneName
    <3>5. list[i].alias = there[j].alias
      <4> HIDE DEF list, there, j, u
      <4> QED BY <2>3, <3>2, <3>4
    <3> QED BY <3>2, <3>5
  <2>6. Copies(cpa, r)[c] # NoCopy
    <3>1. LET l == ModelsOf(cpa, c, r[1])
              p == Places(l, r[2])
              q == Copies(cpa, r)[c]
          IN  /\ p = {} => q = NoCopy
              /\ p # {} => /\ q # NoCopy /\ q \in Copy
                           /\ q.at = Lowest(p) /\ q.at \in p
                           /\ q.alias = l[q.at].alias
                           /\ q.raw = l[q.at].raw
      BY <1>1, CopiesFacts
    <3> QED BY <2>2, <2>3, <3>1
  <2>7. Copies(cpa, r)[c].at = i
    <3> DEFINE j == Copies(cpa, r)[c].at
    <3>1. j \in Places(list, u)
      BY <2>5, <2>6
    <3>2. OneName(r)
      BY <2>2
    <3>3. \A m \in Places(list, u), n \in Places(list, u) : m = n
      BY <2>2, <3>2 DEF OneName
    <3> HIDE DEF list, j, u
    <3>4. j = i
      BY <2>3, <3>1, <3>3
    <3> QED BY <3>4 DEF j
  <2>8. Copies(cpa, r)[c].alias = list[i].alias /\ Copies(cpa, r)[c].raw = list[i].raw
    BY <2>5, <2>6, <2>7
  <2>9. InPlace(e, c)
    BY <2>4, <2>6, <2>7 DEF InPlace
  <2>10. AliasOf(e) = list[i].alias
    <3>1. InLists(e.occ) # {}
      BY <2>4, <2>6 DEF InLists
    <3>2. ASSUME NEW k \in InLists(e.occ) PROVE e.occ[k].alias = list[i].alias
      <4>1. k \in Channels /\ e.occ[k] # NoCopy
        BY DEF InLists
      <4> QED BY <2>4, <2>5, <4>1
    <3> HIDE DEF e, list
    <3> QED BY <3>1, <3>2, OneAlias
  <2>11. OrderOf(cpa, r, e, c) = i
    BY <2>4, <2>7, <2>9 DEF OrderOf
  <2>12. Slot(r, e, c) = list[i]
    <3>1. FieldsFor(e, c) = list[i].raw
      BY <2>4, <2>8, <2>9 DEF FieldsFor
    <3>2. Slot(r, e, c) = [name |-> u, alias |-> list[i].alias, raw |-> list[i].raw]
      BY <2>2, <2>10, <3>1 DEF Slot
    <3> HIDE DEF list, r, e
    <3> QED BY <2>1, <3>2 DEF u, Model
  <2> QED BY <2>4, <2>11, <2>12
<1>4. ASSUME NEW u \in P PROVE \E i \in 1..Len(list) : list[i].name = u
  <2>1. u \in Upstreams
    BY DEF Placed
  <2>2. Places(list, u) # {}
    BY <2>1, UntouchedPlaces
  <2> HIDE DEF list
  <2> QED BY <1>2, <2>2 DEF Places
<1> HIDE DEF list
<1>5. /\ \A i \in 1..Len(list) : list[i].name \in P
      /\ \A i \in 1..Len(list) :
            OrderOf(cpa, <<s, list[i].name>>, Ready[<<s, list[i].name>>], c) = i
      /\ \A i \in 1..Len(list) :
            Slot(<<s, list[i].name>>, Ready[<<s, list[i].name>>], c) = list[i]
  BY <1>3
<1>6. list \in Seq(Model) /\ \A u \in P : \E i \in 1..Len(list) : list[i].name = u
  BY <1>2, <1>4
<1>7. Written(Ready, hidden, route, cpa, s, c) = list
  BY <1>1, <1>5, <1>6, WrittenIs
<1> QED BY <1>7 DEF list

\* With routing off, where no entry was touched and CPA holds each model under
\* one name and once in a list, a save of an empty draft sends back exactly
\* what it read: BuildWrite rebuilds every list from the catalog.
THEOREM WriteBackReproduces == Spec => EmptyDraftReproduces
<1>1. ASSUME TypeOK, ~route, \A r \in Refs : OneName(r), Untouched, Save({})
      PROVE  cpa' = cpa
  <2>1. cpa' = BuildWrite(Ready, hidden, route, cpa, {})
    BY <1>1, NothingAsked
  <2>2. Over(Ready, cpa)
    BY <1>1, ReadyFits
  <2>3. \A s \in Sites, c \in Channels :
          Written(Ready, hidden, route, cpa, s, c) = ModelsOf(cpa, c, s)
    BY <1>1, WrittenBack
  <2> QED BY <2>1, <2>2, <2>3, SentBack
<1>2. TypeOK /\ [Next]_vars =>
        [~route /\ (\A r \in Refs : OneName(r)) /\ Untouched /\ Save({})
           => cpa' = cpa]_vars
  BY <1>1
<1> QED BY <1>2, WriteBackTyped, PTL DEF Spec, EmptyDraftReproduces

-----------------------------------------------------------------------------
\* What a preview does not tell.

\* Two lists keep the same entries in the same order.
LEMMA KeptSame ==
    ASSUME NEW old, NEW new, NEW told,
           \A i \in DOMAIN old : old[i].name \notin told =>
               \E j \in DOMAIN new : new[j] = old[i],
           \A j \in DOMAIN new : new[j].name \notin told =>
               \E i \in DOMAIN old : old[i] = new[j],
           \A i, k \in DOMAIN old, j, l \in DOMAIN new :
               old[i].name \notin told /\ old[k].name \notin told
               /\ old[i] = new[j] /\ old[k] = new[l] => (i <= k <=> j <= l)
    PROVE  Kept(old, told) = Kept(new, told)
<1> DEFINE Quiet(list) == {i \in DOMAIN list : list[i].name \notin told}
           Pairs(list) == {q \in Quiet(list) \X Quiet(list) : q[1] <= q[2]}
<1>1. \A list : Kept(list, told) = {<<list[q[1]], list[q[2]]>> : q \in Pairs(list)}
  BY DEF Kept
<1>2. ASSUME NEW x \in Kept(old, told) PROVE x \in Kept(new, told)
  <2>1. PICK q \in Pairs(old) : x = <<old[q[1]], old[q[2]]>>
    BY <1>1
  <2>2. PICK i \in Quiet(old), k \in Quiet(old) : q = <<i, k>> /\ i <= k
    BY <2>1
  <2>3. x = <<old[i], old[k]>>
    BY <2>1, <2>2
  <2>4. PICK j \in DOMAIN new : new[j] = old[i]
    BY <2>2
  <2>5. PICK l \in DOMAIN new : new[l] = old[k]
    BY <2>2
  <2>6. j <= l /\ j \in Quiet(new) /\ l \in Quiet(new)
    BY <2>2, <2>4, <2>5
  <2>7. <<j, l>> \in Pairs(new) /\ x = <<new[j], new[l]>>
    BY <2>3, <2>4, <2>5, <2>6
  <2>8. x = <<new[<<j, l>>[1]], new[<<j, l>>[2]]>>
    BY <2>7
  <2> HIDE DEF Pairs
  <2> QED BY <1>1, <2>7, <2>8
<1>3. ASSUME NEW x \in Kept(new, told) PROVE x \in Kept(old, told)
  <2>1. PICK q \in Pairs(new) : x = <<new[q[1]], new[q[2]]>>
    BY <1>1
  <2>2. PICK j \in Quiet(new), l \in Quiet(new) : q = <<j, l>> /\ j <= l
    BY <2>1
  <2>3. x = <<new[j], new[l]>>
    BY <2>1, <2>2
  <2>4. PICK i \in DOMAIN old : old[i] = new[j]
    BY <2>2
  <2>5. PICK k \in DOMAIN old : old[k] = new[l]
    BY <2>2
  <2>6. i <= k /\ i \in Quiet(old) /\ k \in Quiet(old)
    BY <2>2, <2>4, <2>5
  <2>7. <<i, k>> \in Pairs(old) /\ x = <<old[i], old[k]>>
    BY <2>3, <2>4, <2>5, <2>6
  <2>8. x = <<old[<<i, k>>[1]], old[<<i, k>>[2]]>>
    BY <2>7
  <2> HIDE DEF Pairs
  <2> QED BY <1>1, <2>7, <2>8
<1> QED BY <1>2, <1>3

\* The name a preview goes by is that of the entry, if there is one entry.
LEMMA NameOfOnce ==
    ASSUME NEW list \in Seq(Model), Once(list), NEW i \in DOMAIN list
    PROVE  NameOf(list, list[i].name) = list[i].alias
<1> DEFINE Final(k) == /\ list[k].name = list[i].name
                       /\ \A j \in DOMAIN list : j > k => list[j].name # list[i].name
           last == CHOOSE k \in DOMAIN list : Final(k)
<1>1. NameOf(list, list[i].name) = list[last].alias
  BY DEF NameOf
<1>2. \A j \in DOMAIN list : list[j].name = list[i].name => j = i
  BY DEF Once
<1>3. \A j \in DOMAIN list : j > i => j # i
  OBVIOUS
<1>4. Final(i)
  BY <1>2, <1>3
<1>5. last \in DOMAIN list /\ Final(last)
  <2> HIDE DEF Final
  <2> QED BY <1>4
<1>6. last = i
  <2> HIDE DEF last
  <2> QED BY <1>2, <1>5
<1> QED BY <1>1, <1>6

\* A model that is in a list before and after a write has the fields it had,
\* and goes where it was.
LEMMA StaysInPlace ==
    ASSUME TypeOK, NEW d, IsDraft(d), NEW s \in Sites, NEW c \in Channels,
           Once(ModelsOf(cpa, c, s)),
           NEW i \in DOMAIN ModelsOf(cpa, c, s),
           NEW u \in Upstreams, ModelsOf(cpa, c, s)[i].name = u,
           Planned(d)[<<s, u>>] # NoEntry
    PROVE  /\ FieldsFor(Planned(d)[<<s, u>>], c) = ModelsOf(cpa, c, s)[i].raw
           /\ OrderOf(cpa, <<s, u>>, Planned(d)[<<s, u>>], c) = i
<1> DEFINE list == ModelsOf(cpa, c, s)
           r    == <<s, u>>
           e    == Ready[r]
           f    == Planned(d)[r]
           copy == Copies(cpa, r)[c]
<1>1. r \in Refs /\ r[1] = s /\ r[2] = u
  BY DEF Refs
<1>2. IsCfg(cpa) /\ IsCat(cached) /\ IsCat(Ready)
  BY TypeMeans, ReadyFits
<1>3. list \in Seq(Model) /\ DOMAIN list = 1..Len(list)
  BY <1>2, ModelsFacts
<1>4. copy # NoCopy /\ copy.at = i /\ copy.raw = list[i].raw
  <2>1. LET l == ModelsOf(cpa, c, r[1])
            p == Places(l, r[2])
            q == Copies(cpa, r)[c]
        IN  /\ p = {} => q = NoCopy
            /\ p # {} => /\ q # NoCopy /\ q \in Copy
                         /\ q.at = Lowest(p) /\ q.at \in p
                         /\ q.alias = l[q.at].alias
                         /\ q.raw = l[q.at].raw
    BY <1>2, CopiesFacts
  <2>2. i \in Places(list, u)
    BY DEF Places
  <2>3. copy # NoCopy /\ copy.at \in Places(list, u) /\ copy.raw = list[copy.at].raw
    BY <1>1, <2>1, <2>2
  <2>4. \A j \in Places(list, u) : j = i
    BY <2>2 DEF Places, Once
  <2> HIDE DEF copy, list
  <2> QED BY <2>3, <2>4
<1>5. Holds(cpa, r)
  BY <1>4 DEF Holds, InLists
<1>6. e # NoEntry /\ e.occ = Copies(cpa, r)
  BY <1>1, <1>2, <1>5, LoadedFacts DEF Ready
<1>7. Like(e.occ, f.occ)
  BY <1>1, <1>2, <1>6, RenamedFacts DEF Planned
<1>8. f.occ[c] # NoCopy /\ f.occ[c].at = i /\ f.occ[c].raw = list[i].raw
  <2>1. e.occ[c] = copy
    BY <1>6
  <2> HIDE DEF e, f, copy, list
  <2> QED BY <1>4, <1>7, <2>1 DEF Like
<1>9. i > 0
  BY <1>3
<1> HIDE DEF f, list
<1>10. InPlace(f, c)
  BY <1>8, <1>9 DEF InPlace
<1>11. FieldsFor(f, c) = list[i].raw /\ OrderOf(cpa, r, f, c) = i
  BY <1>8, <1>10 DEF FieldsFor, OrderOf
<1> QED BY <1>11 DEF f, list

\* What Told means for a model it does not name.
LEMMA QuietFacts ==
    ASSUME NEW cfg, NEW out, NEW c, NEW i \in DOMAIN cfg[c],
           NEW u, u \notin Told(cfg, out, c, i)
    PROVE  LET old == cfg[c][i].models
               new == out[c][i].models
           IN  /\ u \in NamesIn(old) <=> u \in NamesIn(new)
               /\ u \in NamesIn(old) => NameOf(old, u) = NameOf(new, u)
BY DEF Told, Added, Removed, Renames, Before

LEMMA RebuiltKeeps ==
    ASSUME TypeOK, NEW d \in Drafts, Save(d), NEW s \in Sites, NEW c \in Channels,
           NEW told,
           LET old == ModelsOf(cpa, c, s)
               new == Written(Planned(d), Hid(d), route, cpa, s, c)
           IN  \A u : u \notin told =>
                  /\ u \in NamesIn(old) <=> u \in NamesIn(new)
                  /\ u \in NamesIn(old) => NameOf(old, u) = NameOf(new, u),
           Once(ModelsOf(cpa, c, s))
    PROVE  /\ Once(Written(Planned(d), Hid(d), route, cpa, s, c))
           /\ Kept(ModelsOf(cpa, c, s), told)
                = Kept(Written(Planned(d), Hid(d), route, cpa, s, c), told)
<1> DEFINE old == ModelsOf(cpa, c, s)
           new == Written(Planned(d), Hid(d), route, cpa, s, c)
           P   == Placed(Planned(d), Hid(d), route, s, c)
           Goes(u) == OrderOf(cpa, <<s, u>>, Planned(d)[<<s, u>>], c)
<1>1. IsDraft(d) /\ Over(Planned(d), cpa) /\ IsCfg(cpa)
  BY SaveFacts, TypeMeans
<1> HIDE DEF Save
<1>2. /\ old \in Seq(Model) /\ Len(old) \in Nat /\ DOMAIN old = 1..Len(old)
      /\ \A i \in DOMAIN old : old[i] \in Model
  BY <1>1, ModelsFacts
<1>3. /\ new \in Seq(Model) /\ Len(new) \in Nat /\ DOMAIN new = 1..Len(new)
      /\ \A i \in DOMAIN new : new[i].name \in P
                               /\ new[i] = Slot(<<s, new[i].name>>, Planned(d)[<<s, new[i].name>>], c)
      /\ \A u \in P : \E i \in DOMAIN new : new[i].name = u
      /\ Once(new)
      /\ \A i, j \in DOMAIN new : i < j =>
            OrderOf(cpa, <<s, new[i].name>>, Planned(d)[<<s, new[i].name>>], c)
              < OrderOf(cpa, <<s, new[j].name>>, Planned(d)[<<s, new[j].name>>], c)
  BY <1>1, WrittenFacts
<1>4. ASSUME NEW u \in P
      PROVE  u \in Upstreams /\ Planned(d)[<<s, u>>] # NoEntry
  BY DEF Placed
<1>5. ASSUME NEW i \in DOMAIN old, NEW j \in DOMAIN new, old[i].name = new[j].name
      PROVE  new[j].raw = old[i].raw /\ Goes(new[j].name) = i
  <2> DEFINE u == new[j].name
  <2>1. u \in P /\ new[j] = Slot(<<s, u>>, Planned(d)[<<s, u>>], c)
    BY <1>3
  <2>2. u \in Upstreams /\ Planned(d)[<<s, u>>] # NoEntry
    BY <1>4, <2>1
  <2>3. ModelsOf(cpa, c, s)[i].name = u
    BY <1>5
  <2> HIDE DEF u
  <2>4. /\ FieldsFor(Planned(d)[<<s, u>>], c) = ModelsOf(cpa, c, s)[i].raw
        /\ OrderOf(cpa, <<s, u>>, Planned(d)[<<s, u>>], c) = i
    BY <1>1, <2>2, <2>3, StaysInPlace
  <2>5. new[j].raw = FieldsFor(Planned(d)[<<s, u>>], c)
    <3> HIDE DEF new
    <3> QED BY <2>1 DEF Slot
  <2> QED BY <2>4, <2>5 DEF u
<1>6. \A i, j \in DOMAIN new : i < j => Goes(new[i].name) < Goes(new[j].name)
  BY <1>3
<1>7. Once(old)
  OBVIOUS
<1>8. ASSUME NEW u, u \notin told
      PROVE  /\ u \in NamesIn(old) <=> u \in NamesIn(new)
             /\ u \in NamesIn(old) => NameOf(old, u) = NameOf(new, u)
  BY <1>8
<1> HIDE DEF old, new, P, Goes
<1>9. ASSUME NEW i \in DOMAIN old, NEW j \in DOMAIN new,
             old[i].name = new[j].name, old[i].name \notin told
      PROVE  new[j] = old[i]
  <2>1. NameOf(old, old[i].name) = old[i].alias
    BY <1>2, <1>7, NameOfOnce
  <2>2. NameOf(new, new[j].name) = new[j].alias
    BY <1>3, NameOfOnce
  <2>3. old[i].name \in NamesIn(old)
    BY DEF NamesIn
  <2>4. new[j].alias = old[i].alias
    BY <1>8, <1>9, <2>1, <2>2, <2>3
  <2>5. new[j].raw = old[i].raw
    BY <1>5, <1>9
  <2>6. new[j] \in Model /\ old[i] \in Model
    BY <1>2, <1>3
  <2> QED BY <1>9, <2>4, <2>5, <2>6 DEF Model
<1>10. ASSUME NEW i \in DOMAIN old, old[i].name \notin told
       PROVE  \E j \in DOMAIN new : new[j] = old[i]
  <2>1. old[i].name \in NamesIn(new)
    BY <1>8, <1>10 DEF NamesIn
  <2>2. PICK j \in DOMAIN new : new[j].name = old[i].name
    BY <2>1 DEF NamesIn
  <2> QED BY <1>9, <1>10, <2>2
<1>11. ASSUME NEW j \in DOMAIN new, new[j].name \notin told
       PROVE  \E i \in DOMAIN old : old[i] = new[j]
  <2>1. new[j].name \in NamesIn(old)
    BY <1>8, <1>11 DEF NamesIn
  <2>2. PICK i \in DOMAIN old : old[i].name = new[j].name
    BY <2>1 DEF NamesIn
  <2> QED BY <1>9, <1>11, <2>2
<1>12. ASSUME NEW i \in DOMAIN old, NEW k \in DOMAIN old,
              NEW j \in DOMAIN new, NEW l \in DOMAIN new,
              old[i] = new[j], old[k] = new[l]
       PROVE  i <= k <=> j <= l
  <2>1. Goes(new[j].name) = i /\ Goes(new[l].name) = k
    BY <1>5, <1>12
  <2>2. i \in Nat /\ k \in Nat /\ j \in Nat /\ l \in Nat
    BY <1>2, <1>3
  <2>3. j < l => i < k
    BY <1>6, <2>1
  <2>4. l < j => k < i
    BY <1>6, <2>1
  <2>5. j = l => i = k
    BY <2>1
  <2> QED BY <2>2, <2>3, <2>4, <2>5
<1>13. Kept(old, told) = Kept(new, told)
  <2>1. \A i, k \in DOMAIN old, j, l \in DOMAIN new :
          old[i].name \notin told /\ old[k].name \notin told
          /\ old[i] = new[j] /\ old[k] = new[l] => (i <= k <=> j <= l)
    BY <1>12
  <2> QED BY <1>10, <1>11, <2>1, KeptSame
<1> QED BY <1>3, <1>13 DEF old, new

LEMMA SaveKeepsQuiet ==
    ASSUME TypeOK, NEW d \in Drafts, Save(d),
           NEW c \in Channels, NEW i \in DOMAIN cpa[c]
    PROVE  LET was  == cpa[c][i]
               now  == cpa'[c][i]
               told == Told(cpa, cpa', c, i)
           IN  /\ Once(was.models) =>
                      /\ Once(now.models)
                      /\ Kept(was.models, told) = Kept(now.models, told)
               /\ now.prio # was.prio =>
                      \E op \in OpsOf(d, "priority") : op.site = was.owner /\ op.ch = c
<1> DEFINE was  == cpa[c][i]
           now  == cpa'[c][i]
           told == Told(cpa, cpa', c, i)
           s    == was.owner
<1>1. /\ IsDraft(d) /\ Over(Planned(d), cpa)
      /\ cpa' = BuildWrite(Planned(d), Hid(d), route, cpa, d)
  BY SaveFacts DEF Sent
<1>2. now = Rebuilt(Planned(d), Hid(d), route, cpa, d, c, i)
  <2>1. cpa'[c][i] = BuildWrite(Planned(d), Hid(d), route, cpa, d)[c][i]
    BY <1>1
  <2>2. LET sent == BuildWrite(Planned(d), Hid(d), route, cpa, d)[c]
            made == Created(Planned(d), Hid(d), route, cpa, c)
            n    == Len(cpa[c])
        IN  /\ sent \in Seq(Provider) /\ DOMAIN sent = 1..Len(sent)
            /\ n \in Nat /\ DOMAIN cpa[c] = 1..n /\ Len(sent) = n + Len(made)
            /\ \A k \in 1..n : k \in DOMAIN sent
                               /\ sent[k] = Rebuilt(Planned(d), Hid(d), route, cpa, d, c, k)
            /\ \A j \in DOMAIN made : n + j \in DOMAIN sent /\ sent[n + j] = made[j]
            /\ \A k \in DOMAIN sent : k \notin 1..n => k - n \in DOMAIN made
    BY ONLY <1>1, SentFacts
  <2> QED BY <2>1, <2>2
<1>3. /\ s \in Sites /\ i = IndexOf(cpa, c, s) =>
            /\ now.models = Written(Planned(d), Hid(d), route, cpa, s, c)
            /\ now.prio = PriorityAfter(d, s, c, was.prio)
      /\ ~(s \in Sites /\ i = IndexOf(cpa, c, s)) => now = was
  <2>1. LET p == cpa[c][i]
            q == Rebuilt(Planned(d), Hid(d), route, cpa, d, c, i)
        IN  /\ p \in Provider /\ q \in Provider /\ q.owner = p.owner
            /\ p.owner \in Sites /\ i = IndexOf(cpa, c, p.owner) =>
                  /\ q.models = Written(Planned(d), Hid(d), route, cpa, p.owner, c)
                  /\ q.prio = PriorityAfter(d, p.owner, c, p.prio)
            /\ ~(p.owner \in Sites /\ i = IndexOf(cpa, c, p.owner)) => q = p
    BY <1>1, RebuiltFacts
  <2> HIDE DEF now
  <2> QED BY <1>2, <2>1
<1>4. CASE ~(s \in Sites /\ i = IndexOf(cpa, c, s))
  BY <1>3, <1>4
<1>5. CASE s \in Sites /\ i = IndexOf(cpa, c, s)
  <2>1. was.models = ModelsOf(cpa, c, s)
    <3>1. i # 0
      <4>1. IsCfg(cpa)
        BY TypeMeans
      <4>2. DOMAIN cpa[c] = 1..Len(cpa[c])
        BY <4>1 DEF IsCfg
      <4> QED BY <4>2
    <3> QED BY <1>5, <3>1 DEF ModelsOf
  <2>2. now.models = Written(Planned(d), Hid(d), route, cpa, s, c)
    BY <1>3, <1>5
  <2>3. \A u : u \notin told =>
          /\ u \in NamesIn(was.models) <=> u \in NamesIn(now.models)
          /\ u \in NamesIn(was.models) => NameOf(was.models, u) = NameOf(now.models, u)
    BY QuietFacts
  <2> HIDE DEF was, now, told, s
  <2>4. Once(was.models) =>
          /\ Once(now.models)
          /\ Kept(was.models, told) = Kept(now.models, told)
    BY <1>5, <2>1, <2>2, <2>3, RebuiltKeeps
  <2>5. ASSUME now.prio # was.prio
        PROVE  \E op \in OpsOf(d, "priority") : op.site = s /\ op.ch = c
    <3>1. PriorityAfter(d, s, c, was.prio) # was.prio
      BY <1>3, <1>5, <2>5
    <3> QED BY <3>1 DEF PriorityAfter
  <2> QED BY <2>4, <2>5 DEF was, now, told, s
<1> QED BY <1>4, <1>5

\* A save leaves every model its preview does not name as it was, and gives a
\* provider another priority only where the draft asks for one: the preview
\* (Diff) tells all that BuildWrite, which rebuilds every list from the
\* catalog, does to lists that name no model twice.
THEOREM WriteBackUntold == Spec => UntoldUntouched
<1> DEFINE Quiet ==
        \A c \in Channels : \A i \in DOMAIN cpa[c] :
            LET was  == cpa[c][i]
                now  == cpa'[c][i]
                told == Told(cpa, cpa', c, i)
            IN  /\ Once(was.models) =>
                       /\ Once(now.models)
                       /\ Kept(was.models, told) = Kept(now.models, told)
                /\ now.prio # was.prio =>
                       \E d \in Drafts : /\ Save(d)
                                         /\ \E op \in OpsOf(d, "priority") :
                                               op.site = was.owner /\ op.ch = c
<1>1. ASSUME TypeOK, Saved PROVE Quiet
  <2>1. PICK d \in Drafts : Save(d)
    BY <1>1 DEF Saved
  <2> SUFFICES ASSUME NEW c \in Channels, NEW i \in DOMAIN cpa[c]
               PROVE  LET was  == cpa[c][i]
                          now  == cpa'[c][i]
                          told == Told(cpa, cpa', c, i)
                      IN  /\ Once(was.models) =>
                                 /\ Once(now.models)
                                 /\ Kept(was.models, told) = Kept(now.models, told)
                          /\ now.prio # was.prio =>
                                 \E e \in Drafts : /\ Save(e)
                                                   /\ \E op \in OpsOf(e, "priority") :
                                                         op.site = was.owner /\ op.ch = c
    OBVIOUS
  <2>2. LET was  == cpa[c][i]
            now  == cpa'[c][i]
            told == Told(cpa, cpa', c, i)
        IN  /\ Once(was.models) =>
                   /\ Once(now.models)
                   /\ Kept(was.models, told) = Kept(now.models, told)
            /\ now.prio # was.prio =>
                   \E op \in OpsOf(d, "priority") : op.site = was.owner /\ op.ch = c
    BY <1>1, <2>1, SaveKeepsQuiet
  <2> QED BY <2>1, <2>2
<1>2. TypeOK /\ [Next]_vars => [Saved => Quiet]_vars
  BY <1>1
<1> QED BY <1>2, WriteBackTyped, PTL DEF Spec, UntoldUntouched

-----------------------------------------------------------------------------
\* The lists as sets.

LEMMA SetsFacts ==
    /\ NoAlias \notin Names /\ Absent \notin Alias
    /\ Alias \subseteq Names \cup {NoAlias}
    /\ \A a \in Alias : a \in Names <=> a # NoAlias
    /\ 1 \in Channels
<1>1. NoAlias \notin Names /\ Absent \notin Names \cup {NoAlias}
  BY SetsAssumption
<1>2. 1 \in Channels
  BY WriteBackAssumption DEF Channels
<1> QED BY <1>1, <1>2 DEF Alias, Names

\* The copies of a model, seen so.
LEMMA AsOccFacts ==
    ASSUME NEW occ, IsOcc(occ), NEW c \in Channels
    PROVE  /\ AsOcc(occ)[c] \in Alias \cup {Absent}
           /\ AsOcc(occ)[c] = Absent <=> occ[c] = NoCopy
           /\ occ[c] # NoCopy => AsOcc(occ)[c] = occ[c].alias /\ occ[c].alias \in Alias
<1>1. occ[c] \in Copy \cup {NoCopy}
  BY DEF IsOcc
<1>2. occ[c] # NoCopy => occ[c].alias \in Alias
  BY <1>1 DEF Copy
<1>3. Absent \notin Alias
  BY SetsFacts
<1> QED BY <1>2, <1>3 DEF AsOcc

\* Two that agree copy by copy are seen as one.
LEMMA AsOccSame ==
    ASSUME NEW occ, NEW new,
           \A c \in Channels : /\ occ[c] = NoCopy <=> new[c] = NoCopy
                               /\ occ[c] # NoCopy => new[c].alias = occ[c].alias
    PROVE  AsOcc(new) = AsOcc(occ)
BY DEF AsOcc

LEMMA AsEntryFacts ==
    ASSUME NEW e \in Entry
    PROVE  /\ e # NoEntry /\ AsEntry(e) \in Sets!Entry /\ AsEntry(e) # NoEntry
           /\ AsEntry(e) = [present |-> e.present, pending |-> e.pending,
                            withheld |-> e.withheld, gone |-> e.gone,
                            occ |-> AsOcc(e.occ)]
           /\ AllBut(e, AsEntry(e)) /\ AsEntry(e).occ = AsOcc(e.occ)
<1>1. /\ e # NoEntry
      /\ e.present \in BOOLEAN /\ e.pending \in BOOLEAN
      /\ e.withheld \in BOOLEAN /\ e.gone \in BOOLEAN
      /\ IsOcc(e.occ)
  BY EntryFacts
<1>2. AsEntry(e) = [present |-> e.present, pending |-> e.pending,
                    withheld |-> e.withheld, gone |-> e.gone,
                    occ |-> AsOcc(e.occ)]
  BY <1>1 DEF AsEntry
<1>3. AsOcc(e.occ) \in [Channels -> Sets!Slot]
  <2>1. \A c \in Channels : AsOcc(e.occ)[c] \in Alias \cup {Absent}
    BY <1>1, AsOccFacts
  <2>2. Alias \cup {Absent} \subseteq Sets!Slot
    BY SetsFacts DEF Sets!Slot, Sets!Alias
  <2>3. AsOcc(e.occ) = [c \in Channels |-> AsOcc(e.occ)[c]]
    BY DEF AsOcc
  <2> QED BY <2>1, <2>2, <2>3
<1>4. AsEntry(e) \in Sets!Entry
  BY <1>1, <1>2, <1>3 DEF Sets!Entry
<1>5. AllBut(e, AsEntry(e)) /\ AsEntry(e).occ = AsOcc(e.occ)
  BY <1>2 DEF AllBut
<1> QED BY <1>1, <1>2, <1>4, <1>5, SetsAssumption

\* Entries with the same fields are one.
LEMMA SameEntry ==
    ASSUME NEW e \in Sets!Entry, NEW f \in Sets!Entry, AllBut(e, f), f.occ = e.occ
    PROVE  e = f
BY DEF Sets!Entry, AllBut

\* An entry of a catalog, seen so.
LEMMA AsCatalogFacts ==
    ASSUME NEW cat, IsCat(cat), NEW r \in Refs
    PROVE  /\ AsCatalog(cat)[r] = AsEntry(cat[r])
           /\ AsCatalog(cat)[r] = NoEntry <=> cat[r] = NoEntry
           /\ cat[r] # NoEntry =>
                 /\ cat[r] \in Entry /\ AsCatalog(cat)[r] \in Sets!Entry
                 /\ AsCatalog(cat)[r].present = cat[r].present
                 /\ AsCatalog(cat)[r].pending = cat[r].pending
                 /\ AsCatalog(cat)[r].withheld = cat[r].withheld
                 /\ AsCatalog(cat)[r].gone = cat[r].gone
                 /\ AsCatalog(cat)[r].occ = AsOcc(cat[r].occ)
<1>1. AsCatalog(cat)[r] = AsEntry(cat[r])
  BY DEF AsCatalog
<1>2. cat[r] = NoEntry => AsEntry(cat[r]) = NoEntry
  BY DEF AsEntry
<1>3. ASSUME cat[r] # NoEntry
      PROVE  /\ cat[r] \in Entry
             /\ AsEntry(cat[r]) # NoEntry /\ AsEntry(cat[r]) \in Sets!Entry
             /\ AsEntry(cat[r]) = [present |-> cat[r].present, pending |-> cat[r].pending,
                            withheld |-> cat[r].withheld, gone |-> cat[r].gone,
                            occ |-> AsOcc(cat[r].occ)]
  <2>1. cat[r] \in Entry
    BY <1>3 DEF IsCat, Sound
  <2> QED BY <2>1, AsEntryFacts
<1> QED BY <1>1, <1>2, <1>3

\* Two entries are seen as one if they differ only in what is not seen.
LEMMA SeenSame ==
    ASSUME NEW e \in Entry, NEW f \in Entry, AllBut(e, f), AsOcc(f.occ) = AsOcc(e.occ)
    PROVE  AsEntry(f) = AsEntry(e)
BY AsEntryFacts DEF AllBut

\* What the store forgets is not seen.
LEMMA SeenForget ==
    ASSUME NEW cat, IsCat(cat)
    PROVE  AsCatalog(Forget(cat)) = AsCatalog(cat)
<1>1. ASSUME NEW r \in Refs PROVE AsEntry(Forget(cat)[r]) = AsEntry(cat[r])
  <2>1. CASE cat[r] = NoEntry
    BY <2>1, ForgetFacts
  <2>2. CASE cat[r] # NoEntry
    <3>1. /\ Forget(cat)[r] \in Entry /\ AllBut(cat[r], Forget(cat)[r])
          /\ Forget(cat)[r].occ = Placeless(cat[r].occ)
      BY <2>2, ForgetFacts
    <3>2. cat[r] \in Entry /\ IsOcc(cat[r].occ)
      BY <2>2, EntryFacts DEF IsCat, Sound
    <3>3. AsOcc(Forget(cat)[r].occ) = AsOcc(cat[r].occ)
      BY <3>1, <3>2, PlacelessFacts, AsOccSame
    <3> QED BY <3>1, <3>2, <3>3, SeenSame
  <2> QED BY <2>1, <2>2
<1> QED BY <1>1 DEF AsCatalog

\* Every site has a provider in the first list, if it has one at all.
Homed(cfg) == \A s \in Sites : Known(cfg, s) => IndexOf(cfg, 1, s) # 0

\* The providers of a snapshot, seen as functions.
LEMMA AsConfigFacts ==
    ASSUME NEW cfg, IsCfg(cfg), NEW c \in Channels, NEW s \in Sites
    PROVE  /\ AsConfig(cfg)[c][s] = NoProvider <=> IndexOf(cfg, c, s) = 0
           /\ IndexOf(cfg, c, s) # 0 =>
                 /\ AsConfig(cfg)[c][s] \in Sets!Provider
                 /\ AsConfig(cfg)[c][s] = [u \in Upstreams |-> AsOcc(Copies(cfg, <<s, u>>))[c]]
<1> DEFINE p == [u \in Upstreams |-> AsOcc(Copies(cfg, <<s, u>>))[c]]
<1>1. AsConfig(cfg)[c][s] = IF IndexOf(cfg, c, s) = 0 THEN NoProvider ELSE p
  BY DEF AsConfig
<1>2. p \in Sets!Provider
  <2>1. \A u \in Upstreams : AsOcc(Copies(cfg, <<s, u>>))[c] \in Alias \cup {Absent}
    BY CopiesType, AsOccFacts
  <2>2. Alias \cup {Absent} \subseteq Sets!Slot
    BY SetsFacts DEF Sets!Slot, Sets!Alias
  <2> QED BY <2>1, <2>2 DEF Sets!Provider
<1>3. p # NoProvider
  BY <1>2, SetsAssumption
<1> HIDE DEF p
<1>4. QED BY <1>1, <1>2, <1>3 DEF p

\* A list that has a copy of a model has a provider of its site.
LEMMA CopyOfProvider ==
    ASSUME NEW cfg, IsCfg(cfg), NEW c \in Channels, NEW r, Copies(cfg, r)[c] # NoCopy
    PROVE  IndexOf(cfg, c, r[1]) # 0
<1>1. LET list == ModelsOf(cfg, c, r[1])
          at   == Places(list, r[2])
          copy == Copies(cfg, r)[c]
      IN  /\ at = {} => copy = NoCopy
          /\ at # {} => /\ copy # NoCopy /\ copy \in Copy
                        /\ copy.at = Lowest(at) /\ copy.at \in at
                        /\ copy.alias = list[copy.at].alias
                        /\ copy.raw = list[copy.at].raw
  BY CopiesFacts
<1>2. Places(ModelsOf(cfg, c, r[1]), r[2]) # {}
  BY <1>1
<1>3. ModelsOf(cfg, c, r[1]) # <<>>
  <2>1. Places(<<>>, r[2]) = {}
    BY DEF Places
  <2> QED BY <1>2, <2>1
<1> QED BY <1>3 DEF ModelsOf

LEMMA SeenLists ==
    ASSUME NEW cfg, IsCfg(cfg), NEW r \in Refs, NEW c \in Channels
    PROVE  /\ Sets!Lists(AsConfig(cfg), c, r) <=> Copies(cfg, r)[c] # NoCopy
           /\ Sets!Lists(AsConfig(cfg), c, r) =>
                 AsConfig(cfg)[c][r[1]][r[2]] = AsOcc(Copies(cfg, r))[c]
<1> DEFINE p == AsConfig(cfg)[c][r[1]]
           n == IndexOf(cfg, c, r[1])
           a == AsOcc(Copies(cfg, r))[c]
<1>1. r[1] \in Sites /\ r[2] \in Upstreams /\ r = <<r[1], r[2]>>
  BY DEF Refs
<1>2. p = NoProvider <=> n = 0
  BY <1>1, AsConfigFacts
<1>3. n # 0 => p[r[2]] = a
  <2>1. n # 0 => p = [u \in Upstreams |-> AsOcc(Copies(cfg, <<r[1], u>>))[c]]
    BY <1>1, AsConfigFacts
  <2> HIDE DEF p, n
  <2>2. n # 0 => p[r[2]] = AsOcc(Copies(cfg, <<r[1], r[2]>>))[c]
    BY <1>1, <2>1
  <2> QED BY <1>1, <2>2
<1>4. a = Absent <=> Copies(cfg, r)[c] = NoCopy
  BY CopiesType, AsOccFacts
<1>5. Copies(cfg, r)[c] # NoCopy => n # 0
  BY CopyOfProvider
<1>6. Sets!Lists(AsConfig(cfg), c, r) <=> (p # NoProvider /\ p[r[2]] # Absent)
  BY DEF Sets!Lists
<1> HIDE DEF p, n, a
<1>7. QED BY <1>2, <1>3, <1>4, <1>5, <1>6 DEF p, n, a

LEMMA SeenKnown ==
    ASSUME NEW cfg, IsCfg(cfg), Homed(cfg), NEW s \in Sites
    PROVE  Sets!Known(AsConfig(cfg), s) <=> Known(cfg, s)
<1>1. 1 \in Channels
  BY SetsFacts
<1>2. AsConfig(cfg)[1][s] # NoProvider <=> IndexOf(cfg, 1, s) # 0
  <2>1. \A c \in Channels : AsConfig(cfg)[c][s] # NoProvider <=> IndexOf(cfg, c, s) # 0
    BY AsConfigFacts
  <2> QED BY <1>1, <2>1
<1>3. IndexOf(cfg, 1, s) # 0 <=> Known(cfg, s)
  BY <1>1 DEF Homed, Known
<1> QED BY <1>2, <1>3 DEF Sets!Known

LEMMA SeenLive ==
    ASSUME NEW cfg, IsCfg(cfg), Homed(cfg), NEW r \in Refs
    PROVE  Sets!Live(AsConfig(cfg), r) <=> Holds(cfg, r)
<1>1. \A c \in Channels : Sets!Lists(AsConfig(cfg), c, r) <=> Copies(cfg, r)[c] # NoCopy
  BY SeenLists
<1>2. Holds(cfg, r) <=> \E c \in Channels : Copies(cfg, r)[c] # NoCopy
  BY DEF Holds, InLists
<1>3. Holds(cfg, r) => Known(cfg, r[1])
  BY CopiesType
<1>4. r[1] \in Sites
  BY DEF Refs
<1>5. Sets!Known(AsConfig(cfg), r[1]) <=> Known(cfg, r[1])
  BY <1>4, SeenKnown
<1> QED BY <1>1, <1>2, <1>3, <1>5 DEF Sets!Live, Sets!Holds

\* A load.
LEMMA SeenReconcile ==
    ASSUME NEW cat, IsCat(cat), NEW cfg, IsCfg(cfg), Homed(cfg)
    PROVE  AsCatalog(Reconcile(cat, cfg)) = Sets!Reconcile(AsCatalog(cat), AsConfig(cfg))
<1> DEFINE out == Reconcile(cat, cfg)
           A   == AsCatalog(cat)
           S   == AsConfig(cfg)
<1>1. ASSUME NEW r \in Refs
      PROVE  AsEntry(out[r]) =
               IF Sets!Live(S, r)
               THEN Sets!LiveEntry(S, r, A[r] # NoEntry /\ A[r].gone)
               ELSE IF A[r] = NoEntry \/ ~Sets!Known(S, r[1]) THEN NoEntry
               ELSE [A[r] EXCEPT !.present = FALSE]
  <2>0. /\ A[r] = NoEntry <=> cat[r] = NoEntry
        /\ cat[r] # NoEntry => /\ cat[r] \in Entry
                               /\ A[r].gone = cat[r].gone
                               /\ A[r] = AsEntry(cat[r])
    BY AsCatalogFacts
  <2>1. Sets!Live(S, r) <=> Holds(cfg, r)
    BY SeenLive
  <2>2. Sets!Known(S, r[1]) <=> Known(cfg, r[1])
    BY SeenKnown DEF Refs
  <2>3. CASE Holds(cfg, r)
    <3> DEFINE g == cat[r] # NoEntry /\ cat[r].gone
               f == [present |-> TRUE, pending |-> FALSE, withheld |-> FALSE,
                     gone |-> g, occ |-> Copies(cfg, r)]
    <3>1. out[r] = f
      BY <2>3 DEF Reconcile
    <3>2. f \in Entry
      <4>1. g \in BOOLEAN
        OBVIOUS
      <4>2. Copies(cfg, r) \in [Channels -> Copy \cup {NoCopy}]
        BY CopiesType DEF IsOcc
      <4> HIDE DEF g
      <4> QED BY <4>1, <4>2 DEF Entry
    <3>3. AsEntry(f) = [present |-> TRUE, pending |-> FALSE, withheld |-> FALSE,
                        gone |-> g, occ |-> AsOcc(Copies(cfg, r))]
      <4> HIDE DEF g
      <4>1. f.present = TRUE /\ f.pending = FALSE /\ f.withheld = FALSE
            /\ f.gone = g /\ f.occ = Copies(cfg, r)
        OBVIOUS
      <4> HIDE DEF f
      <4> QED BY <3>2, <4>1, AsEntryFacts
    <3>4. g <=> (A[r] # NoEntry /\ A[r].gone)
      BY <2>0
    <3>5. AsOcc(Copies(cfg, r))
            = [c \in Channels |-> IF Sets!Lists(S, c, r) THEN S[c][r[1]][r[2]] ELSE Absent]
      <4>1. \A c \in Channels :
              AsOcc(Copies(cfg, r))[c]
                = IF Sets!Lists(S, c, r) THEN S[c][r[1]][r[2]] ELSE Absent
        BY SeenLists, CopiesType, AsOccFacts
      <4>2. AsOcc(Copies(cfg, r)) = [c \in Channels |-> AsOcc(Copies(cfg, r))[c]]
        BY DEF AsOcc
      <4> HIDE DEF S
      <4> QED BY <4>1, <4>2
    <3>6. Sets!LiveEntry(S, r, A[r] # NoEntry /\ A[r].gone)
            = [present |-> TRUE, pending |-> FALSE, withheld |-> FALSE,
               gone |-> g, occ |-> AsOcc(Copies(cfg, r))]
      <4> HIDE DEF S, A
      <4>1. (A[r] # NoEntry /\ A[r].gone) = g
        BY <3>4
      <4> QED BY <3>5, <4>1 DEF Sets!LiveEntry
    <3> QED BY <2>1, <2>3, <3>1, <3>3, <3>6
  <2>4. CASE ~Holds(cfg, r) /\ (cat[r] = NoEntry \/ ~Known(cfg, r[1]))
    <3>1. out[r] = NoEntry
      BY <2>4 DEF Reconcile
    <3> QED BY <2>0, <2>1, <2>2, <2>4, <3>1 DEF AsEntry
  <2>5. CASE ~Holds(cfg, r) /\ cat[r] # NoEntry /\ Known(cfg, r[1])
    <3> DEFINE e == cat[r]
               f == [e EXCEPT !.present = FALSE]
    <3>1. out[r] = f
      BY <2>5 DEF Reconcile
    <3>2. e \in Entry
      BY <2>0, <2>5
    <3>3. [A[r] EXCEPT !.present = FALSE] = AsEntry(f)
      <4> DEFINE a == A[r]
                 b == [a EXCEPT !.present = FALSE]
      <4>1. a \in Sets!Entry /\ AllBut(e, a) /\ a.occ = AsOcc(e.occ)
        BY <2>5, AsCatalogFacts DEF AllBut
      <4> HIDE DEF e, a
      <4>2. f \in Entry /\ f.present = FALSE /\ f.pending = e.pending
            /\ f.withheld = e.withheld /\ f.gone = e.gone /\ f.occ = e.occ
        BY <3>2 DEF Entry
      <4>3. b \in Sets!Entry /\ b.present = FALSE /\ b.pending = a.pending
            /\ b.withheld = a.withheld /\ b.gone = a.gone /\ b.occ = a.occ
        BY <4>1 DEF Sets!Entry
      <4> HIDE DEF f, b
      <4>4. /\ AsEntry(f) \in Sets!Entry
            /\ AllBut(f, AsEntry(f)) /\ AsEntry(f).occ = AsOcc(f.occ)
        BY <4>2, AsEntryFacts
      <4>5. AllBut(b, AsEntry(f)) /\ AsEntry(f).occ = b.occ
        BY <4>1, <4>2, <4>3, <4>4 DEF AllBut
      <4>6. b = AsEntry(f)
        BY <4>3, <4>4, <4>5, SameEntry
      <4> QED BY <4>6 DEF b, a
    <3> QED BY <2>0, <2>1, <2>2, <2>5, <3>1, <3>3
  <2> QED BY <2>3, <2>4, <2>5
<1>2. AsCatalog(out) = [r \in Refs |-> AsEntry(out[r])]
  BY DEF AsCatalog
<1>3. Sets!Refs = Refs
  BY DEF Sets!Refs, Refs
<1> QED BY <1>1, <1>2, <1>3 DEF Sets!Reconcile

\* What is hidden is what a mark hides.
LEMMA SeenHidden ==
    ASSUME NEW r \in Refs, NEW e, NEW hid, NEW rt
    PROVE  Sets!Hidden(r, e, Sets!MarksOf(hid, rt)) <=> r \in hid
<1>1. r[2] \in Upstreams
  BY DEF Refs
<1>2. ~Sets!RuledOut(r, e, Sets!MarksOf(hid, rt).rules)
  BY <1>1 DEF Sets!RuledOut, Sets!MarksOf
<1>3. /\ Sets!MarksOf(hid, rt).excl = hid /\ Sets!MarksOf(hid, rt).dis = {}
  BY DEF Sets!MarksOf
<1> QED BY <1>2, <1>3 DEF Sets!Hidden

LEMMA SetsRefs == Sets!Refs = Refs
BY DEF Sets!Refs, Refs

LEMMA SeenPrune ==
    ASSUME NEW cat, IsCat(cat), NEW hid, NEW rt
    PROVE  AsCatalog(Prune(cat, hid)) = Sets!Prune(AsCatalog(cat), Sets!MarksOf(hid, rt))
<1> DEFINE A == AsCatalog(cat)
           M == Sets!MarksOf(hid, rt)
<1>1. ASSUME NEW r \in Refs
      PROVE  AsEntry(Prune(cat, hid)[r]) =
               IF /\ A[r] # NoEntry
                  /\ \/ A[r].present \/ A[r].pending \/ A[r].withheld
                     \/ ~A[r].gone /\ Sets!Hidden(r, A[r], M)
               THEN A[r] ELSE NoEntry
  <2>1. /\ A[r] = AsEntry(cat[r])
        /\ A[r] = NoEntry <=> cat[r] = NoEntry
        /\ cat[r] # NoEntry => /\ A[r].present = cat[r].present
                               /\ A[r].pending = cat[r].pending
                               /\ A[r].withheld = cat[r].withheld
                               /\ A[r].gone = cat[r].gone
    BY AsCatalogFacts
  <2>2. Sets!Hidden(r, A[r], M) <=> r \in hid
    BY SeenHidden
  <2>3. Prune(cat, hid)[r] =
          IF /\ cat[r] # NoEntry
             /\ \/ cat[r].present \/ cat[r].pending \/ cat[r].withheld
                \/ ~cat[r].gone /\ r \in hid
          THEN cat[r] ELSE NoEntry
    BY DEF Prune
  <2>4. AsEntry(NoEntry) = NoEntry
    BY DEF AsEntry
  <2> HIDE DEF A, M
  <2> QED BY <2>1, <2>2, <2>3, <2>4
<1>2. AsCatalog(Prune(cat, hid)) = [r \in Refs |-> AsEntry(Prune(cat, hid)[r])]
  BY DEF AsCatalog
<1> QED BY <1>1, <1>2, SetsRefs DEF Sets!Prune

LEMMA SeenLoaded ==
    ASSUME NEW cat, IsCat(cat), NEW cfg, IsCfg(cfg), Homed(cfg), NEW hid, NEW rt,
           IsCat(Reconcile(cat, cfg))
    PROVE  AsCatalog(Loaded(cat, cfg, hid))
             = Sets!Reloaded(AsCatalog(cat), AsConfig(cfg), Sets!MarksOf(hid, rt))
<1>1. AsCatalog(Reconcile(cat, cfg)) = Sets!Reconcile(AsCatalog(cat), AsConfig(cfg))
  BY SeenReconcile
<1>2. AsCatalog(Prune(Reconcile(cat, cfg), hid))
        = Sets!Prune(AsCatalog(Reconcile(cat, cfg)), Sets!MarksOf(hid, rt))
  BY SeenPrune
<1> QED BY <1>1, <1>2 DEF Loaded, Sets!Reloaded

\* A catalog with other withheld flags.
LEMMA SeenWithheld ==
    ASSUME NEW cat, IsCat(cat), NEW hid, NEW rt
    PROVE  /\ IsCat(MarkWithheld(cat, hid))
           /\ AsCatalog(MarkWithheld(cat, hid))
                = Sets!MarkWithheld(AsCatalog(cat), Sets!MarksOf(hid, rt))
<1> DEFINE A == AsCatalog(cat)
           M == Sets!MarksOf(hid, rt)
           W == MarkWithheld(cat, hid)
<1>1. ASSUME NEW r \in Refs
      PROVE  /\ W[r] # NoEntry => Sound(W[r])
             /\ AsEntry(W[r]) =
                  IF A[r] = NoEntry THEN NoEntry
                  ELSE [A[r] EXCEPT !.withheld = ~A[r].gone /\ Sets!Hidden(r, A[r], M)]
  <2>1. CASE cat[r] = NoEntry
    <3>1. W[r] = NoEntry
      BY <2>1 DEF MarkWithheld
    <3>2. A[r] = NoEntry
      BY <2>1, AsCatalogFacts
    <3> QED BY <3>1, <3>2 DEF AsEntry
  <2>2. CASE cat[r] # NoEntry
    <3> DEFINE e == cat[r]
               a == A[r]
               x == ~e.gone /\ r \in hid
               y == ~a.gone /\ Sets!Hidden(r, a, M)
               f == [e EXCEPT !.withheld = x]
               b == [a EXCEPT !.withheld = y]
    <3>1. W[r] = f
      BY <2>2 DEF MarkWithheld
    <3>2. /\ a # NoEntry /\ a \in Sets!Entry /\ AllBut(e, a) /\ a.occ = AsOcc(e.occ)
          /\ e \in Entry /\ InLists(e.occ) # {}
      BY <2>2, AsCatalogFacts DEF AllBut, IsCat, Sound
    <3>3. x = y /\ x \in BOOLEAN /\ y \in BOOLEAN
      <4>1. Sets!Hidden(r, a, M) <=> r \in hid
        BY SeenHidden
      <4>2. a.gone = e.gone
        BY <3>2 DEF AllBut
      <4>3. x <=> y
        BY <4>1, <4>2
      <4> QED BY <4>3
    <3> HIDE DEF e, a, x, y, W
    <3>4. f \in Entry /\ f.present = e.present /\ f.pending = e.pending
          /\ f.withheld = x /\ f.gone = e.gone /\ f.occ = e.occ
      BY <3>2, <3>3 DEF Entry
    <3>5. b \in Sets!Entry /\ b.present = a.present /\ b.pending = a.pending
          /\ b.withheld = y /\ b.gone = a.gone /\ b.occ = a.occ
      BY <3>2, <3>3 DEF Sets!Entry
    <3> HIDE DEF f, b
    <3>6. /\ AsEntry(f) \in Sets!Entry
          /\ AllBut(f, AsEntry(f)) /\ AsEntry(f).occ = AsOcc(f.occ)
      BY <3>4, AsEntryFacts
    <3>7. AllBut(b, AsEntry(f)) /\ AsEntry(f).occ = b.occ
      BY <3>2, <3>3, <3>4, <3>5, <3>6 DEF AllBut
    <3>8. b = AsEntry(f)
      BY <3>5, <3>6, <3>7, SameEntry
    <3>9. Sound(f)
      BY <3>2, <3>4 DEF Sound
    <3> QED BY <3>1, <3>2, <3>8, <3>9 DEF a, b, y
  <2> QED BY <2>1, <2>2
<1>2. AsCatalog(W) = [r \in Refs |-> AsEntry(W[r])]
  BY DEF AsCatalog
<1>3. IsCat(W)
  BY <1>1 DEF IsCat
<1> HIDE DEF W
<1>4. AsCatalog(W) = Sets!MarkWithheld(A, M)
  BY <1>1, <1>2, SetsRefs DEF Sets!MarkWithheld
<1> QED BY <1>3, <1>4 DEF W

\* An operation on a model, seen so.
LEMMA SeenOp ==
    ASSUME NEW d, IsDraft(d), NEW op \in d, op.kind # "priority"
    PROVE  /\ op.kind \in {"hide", "show", "rename"}
           /\ op.ref \in Refs
           /\ AsOp(op) \in AsDraft(d)
           /\ AsOp(op).ref = op.ref
           /\ op.kind = "hide" <=> AsOp(op).kind = "exclude"
           /\ op.kind = "show" <=> AsOp(op).kind = "include"
           /\ op.kind = "rename" <=> AsOp(op).kind = "rename"
           /\ op.kind = "rename" => /\ AsOp(op).to = op.to
                                    /\ op.to \in Aliases \cup {op.ref[2]}
<1>1. IsOp(op)
  BY DEF IsDraft
<1>2. /\ op.kind \in {"hide", "show", "rename"} /\ op.ref \in Refs
      /\ op.kind = "rename" => op.to \in Aliases \cup {op.ref[2]}
  <2>1. CASE op \in [kind : {"hide", "show"}, ref : Refs]
    BY <2>1
  <2>2. CASE op \in [kind : {"rename"}, ref : Refs, to : Upstreams \cup Aliases]
             /\ op.to \in Aliases \cup {op.ref[2]}
    BY <2>2
  <2>3. ~(op \in [kind : {"priority"}, site : Sites, ch : Channels, to : Priorities])
    OBVIOUS
  <2> QED BY <1>1, <2>1, <2>2, <2>3 DEF IsOp
<1>3. AsOp(op) \in AsDraft(d)
  BY DEF AsDraft
<1>4. /\ AsOp(op).ref = op.ref
      /\ AsOp(op).kind = IF op.kind = "hide" THEN "exclude"
                         ELSE IF op.kind = "show" THEN "include" ELSE "rename"
      /\ op.kind = "rename" => AsOp(op).to = op.to
  BY DEF AsOp
<1> QED BY <1>2, <1>3, <1>4

LEMMA SeenDraft ==
    ASSUME NEW d, NEW a \in AsDraft(d)
    PROVE  \E op \in d : op.kind # "priority" /\ a = AsOp(op)
BY DEF AsDraft

\* The copies of a renamed model.
LEMMA SeenAliased ==
    ASSUME NEW occ, IsOcc(occ), NEW a \in Alias
    PROVE  AsOcc(Aliased(occ, a))
             = [c \in Channels |-> IF AsOcc(occ)[c] = Absent THEN Absent ELSE a]
<1>1. ASSUME NEW c \in Channels
      PROVE  AsOcc(Aliased(occ, a))[c] = IF AsOcc(occ)[c] = Absent THEN Absent ELSE a
  <2>1. AsOcc(occ)[c] = Absent <=> occ[c] = NoCopy
    BY AsOccFacts
  <2>2. /\ AsOcc(Aliased(occ, a))[c] = Absent <=> Aliased(occ, a)[c] = NoCopy
        /\ Aliased(occ, a)[c] # NoCopy => AsOcc(Aliased(occ, a))[c] = Aliased(occ, a)[c].alias
    BY AliasedFacts, AsOccFacts
  <2>3. /\ occ[c] = NoCopy => Aliased(occ, a)[c] = NoCopy
        /\ occ[c] # NoCopy => Aliased(occ, a)[c] # NoCopy /\ Aliased(occ, a)[c].alias = a
    BY AliasedFacts
  <2> QED BY <2>1, <2>2, <2>3
<1>2. AsOcc(Aliased(occ, a)) = [c \in Channels |-> AsOcc(Aliased(occ, a))[c]]
  BY DEF AsOcc
<1> QED BY <1>1, <1>2

\* What a draft makes of the catalog is one of the outcomes.
LEMMA SeenRenamed ==
    ASSUME NEW cat, IsCat(cat), NEW d, IsDraft(d)
    PROVE  AsCatalog(Renamed(cat, d)) \in Sets!Drafted(AsCatalog(cat), AsDraft(d))
<1> DEFINE A == AsCatalog(cat)
           D == AsDraft(d)
           N == Renamed(cat, d)
<1>1. ASSUME NEW r \in Refs
      PROVE  AsEntry(N[r]) \in Sets!Outcomes(A, D, r)
  <2> DEFINE asked == {op \in OpsOf(d, "rename") : op.ref = r}
             seen  == Sets!OpsOn(D, {"rename"}, r)
  <2>1. \A op \in asked : AsOp(op) \in seen
    BY SeenOp DEF OpsOf, Sets!OpsOn
  <2>2. \A a \in seen : \E op \in asked : a = AsOp(op)
    BY SeenOp, SeenDraft DEF OpsOf, Sets!OpsOn
  <2>3. A[r] = AsEntry(cat[r])
    BY AsCatalogFacts
  <2>4. CASE asked = {}
    <3>1. N[r] = cat[r]
      BY <2>4 DEF Renamed
    <3>2. seen = {}
      BY <2>2, <2>4
    <3> HIDE DEF seen, A, D, N
    <3>3. Sets!Outcomes(A, D, r) = {A[r]}
      BY <3>2 DEF Sets!Outcomes, seen
    <3> QED BY <2>3, <3>1, <3>3
  <2>5. CASE asked # {}
    <3> DEFINE op == CHOOSE o \in asked : TRUE
    <3>1. op \in asked
      BY <2>5
    <3>2. /\ AsOp(op) \in seen /\ op \in d /\ op.kind = "rename" /\ op.ref = r
      BY <2>1, <3>1 DEF OpsOf
    <3>3. AsOp(op).ref = r /\ AsOp(op).kind = "rename" /\ AsOp(op).to = op.to
          /\ op.to \in Aliases \cup {r[2]}
      BY <3>2, SeenOp
    <3>4. Sets!Outcomes(A, D, r) = {Sets!OpOnCatalog(A, a)[r] : a \in seen}
      <4>1. seen # {}
        BY <3>2
      <4> HIDE DEF op
      <4> QED BY <4>1 DEF Sets!Outcomes
    <3>5. AsEntry(N[r]) = Sets!OpOnCatalog(A, AsOp(op))[r]
      <4>1. CASE cat[r] = NoEntry
        <5>1. N[r] = NoEntry
          BY <4>1, RenamedFacts
        <5>2. A[r] = NoEntry
          BY <4>1, AsCatalogFacts
        <5>3. Sets!OpOnCatalog(A, AsOp(op)) = A
          <6> HIDE DEF op, A
          <6> QED BY <3>3, <5>2 DEF Sets!OpOnCatalog
        <5> QED BY <5>1, <5>2, <5>3 DEF AsEntry
      <4>2. CASE cat[r] # NoEntry
        <5> DEFINE to == IF op.to = r[2] THEN NoAlias ELSE op.to
                   e  == cat[r]
                   a  == A[r]
                   f  == [e EXCEPT !.occ = Aliased(@, to)]
                   o  == [c \in Channels |-> IF a.occ[c] = Absent THEN Absent ELSE to]
                   b  == [a EXCEPT !.occ = o]
        <5>1. N[r] = f
          BY <2>5, <4>2 DEF Renamed
        <5>2. /\ a # NoEntry /\ a \in Sets!Entry /\ AllBut(e, a) /\ a.occ = AsOcc(e.occ)
              /\ e \in Entry
          BY <4>2, AsCatalogFacts DEF AllBut
        <5>3. to \in Alias
          <6> HIDE DEF op
          <6> QED BY <3>3 DEF Alias
        <5>4. Sets!OpOnCatalog(A, AsOp(op))[r] = b
          <6>1. Sets!OpOnCatalog(A, AsOp(op)) = Sets!Rename(A, AsOp(op))
            <7> HIDE DEF op, A
            <7> QED BY <3>3, <5>2 DEF Sets!OpOnCatalog, a
          <6>2. r \in DOMAIN A
            BY DEF AsCatalog
          <6> HIDE DEF op, A
          <6>3. Sets!Rename(A, AsOp(op)) = [A EXCEPT ![r].occ = o]
            BY <3>3 DEF Sets!Rename, o, a, to
          <6>4. [A EXCEPT ![r].occ = o][r] = b
            BY <6>2 DEF b, a
          <6> QED BY <6>1, <6>3, <6>4
        <5> HIDE DEF e, a, to
        <5>5. IsOcc(e.occ) /\ IsOcc(Aliased(e.occ, to))
          BY <5>2, <5>3, EntryFacts, AliasedFacts
        <5>6. o = AsOcc(Aliased(e.occ, to))
          BY <5>2, <5>3, <5>5, SeenAliased
        <5>7. f \in Entry /\ f.occ = Aliased(e.occ, to) /\ AllBut(e, f)
          BY <5>2, <5>5, WithCopies
        <5>8. /\ AsEntry(f) \in Sets!Entry
              /\ AllBut(f, AsEntry(f)) /\ AsEntry(f).occ = o
          <6> HIDE DEF f, o
          <6> QED BY <5>6, <5>7, AsEntryFacts
        <5> HIDE DEF o
        <5>9. b \in Sets!Entry /\ AllBut(a, b) /\ b.occ = o
          <6>1. o \in [Channels -> Sets!Slot]
            BY <5>8 DEF Sets!Entry
          <6> QED BY <5>2, <6>1 DEF Sets!Entry, AllBut
        <5> HIDE DEF f, b
        <5>10. AsEntry(f) = b
          <6>1. AllBut(b, AsEntry(f))
            BY <5>2, <5>7, <5>8, <5>9 DEF AllBut
          <6> QED BY <5>8, <5>9, <6>1, SameEntry
        <5> QED BY <5>1, <5>4, <5>10
      <4> QED BY <4>1, <4>2
    <3> HIDE DEF op
    <3> QED BY <3>2, <3>4, <3>5
  <2> QED BY <2>4, <2>5
<1>2. AsCatalog(N) = [r \in Refs |-> AsEntry(N[r])]
  BY DEF AsCatalog
<1> HIDE DEF N, A, D
<1>3. AsCatalog(N) \in [Refs -> UNION {Sets!Outcomes(A, D, r) : r \in Refs}]
  BY <1>1, <1>2
<1>4. \A r \in Refs : AsCatalog(N)[r] \in Sets!Outcomes(A, D, r)
  BY <1>1, <1>2
<1>5. AsCatalog(N) \in Sets!Drafted(A, D)
  BY <1>3, <1>4, SetsRefs DEF Sets!Drafted
<1> QED BY <1>5 DEF N, A, D

\* What a draft hides is one of the outcomes.
LEMMA SeenHides ==
    ASSUME NEW cat, IsCat(cat), NEW d, IsDraft(d), NEW hid, NEW rt
    PROVE  Sets!Marked(AsCatalog(cat), AsDraft(d), Sets!MarksOf(hid, rt),
                       HiddenAfter(cat, hid, d))
<1> DEFINE A == AsCatalog(cat)
           D == AsDraft(d)
           M == Sets!MarksOf(hid, rt)
           H == HiddenAfter(cat, hid, d)
<1>0. M.excl = hid
  BY DEF Sets!MarksOf
<1>1. ASSUME NEW r \in Refs
      PROVE  LET asked == Sets!OpsOn(D, {"exclude", "include"}, r)
             IN  IF asked = {} THEN r \in H <=> r \in M.excl
                 ELSE \E op \in asked : r \in H <=> r \in Sets!OpOnMarks(A, M, op).excl
  <2> DEFINE asked == Sets!OpsOn(D, {"exclude", "include"}, r)
             hides == {op \in OpsOf(d, "hide") : op.ref = r}
             shows == {op \in OpsOf(d, "show") : op.ref = r}
  <2>1. A[r] = NoEntry <=> cat[r] = NoEntry
    BY AsCatalogFacts
  <2>2. r \in OnModels(cat, d, "hide") <=> hides # {} /\ cat[r] # NoEntry
    BY DEF OnModels
  <2>3. r \in OnModels(cat, d, "show") <=> shows # {} /\ cat[r] # NoEntry
    BY DEF OnModels
  <2>4. r \in H <=> /\ r \in hid \/ (hides # {} /\ cat[r] # NoEntry)
                    /\ ~(shows # {} /\ cat[r] # NoEntry)
    BY <2>2, <2>3 DEF HiddenAfter
  <2>5. \A op \in hides : AsOp(op) \in asked /\ AsOp(op).kind = "exclude" /\ AsOp(op).ref = r
    BY SeenOp DEF OpsOf, Sets!OpsOn
  <2>6. \A op \in shows : AsOp(op) \in asked /\ AsOp(op).kind = "include" /\ AsOp(op).ref = r
    BY SeenOp DEF OpsOf, Sets!OpsOn
  <2>7. asked # {} => hides # {} \/ shows # {}
    <3> SUFFICES ASSUME NEW a \in asked PROVE hides # {} \/ shows # {}
      OBVIOUS
    <3>1. PICK op \in d : op.kind # "priority" /\ a = AsOp(op)
      BY SeenDraft DEF Sets!OpsOn
    <3>2. a.kind \in {"exclude", "include"} /\ a.ref = r
      BY DEF Sets!OpsOn
    <3>3. op.kind = "hide" \/ op.kind = "show"
      BY <3>1, <3>2, SeenOp
    <3>4. op.ref = r
      BY <3>1, <3>2, SeenOp
    <3> QED BY <3>3, <3>4 DEF OpsOf
  <2>8. \A a : a.kind = "exclude" /\ a.ref = r =>
            Sets!OpOnMarks(A, M, a).excl = IF A[r] = NoEntry THEN hid ELSE hid \cup {r}
    BY DEF Sets!OpOnMarks, Sets!MarksOf
  <2>9. \A a : a.kind = "include" /\ a.ref = r =>
            Sets!OpOnMarks(A, M, a).excl = IF A[r] = NoEntry THEN hid ELSE hid \ {r}
    BY DEF Sets!OpOnMarks, Sets!MarksOf
  <2> HIDE DEF A, D, M, H, asked, hides, shows
  <2>10. CASE shows # {}
    BY <2>1, <2>4, <2>6, <2>9, <2>10 DEF asked
  <2>11. CASE shows = {} /\ hides # {}
    BY <2>1, <2>4, <2>5, <2>8, <2>11 DEF asked
  <2>12. CASE shows = {} /\ hides = {}
    BY <1>0, <2>4, <2>7, <2>12 DEF asked
  <2> QED BY <2>10, <2>11, <2>12
<1> HIDE DEF A, D, M, H
<1>2. Sets!Marked(A, D, M, H)
  BY <1>1, SetsRefs DEF Sets!Marked
<1> QED BY <1>2 DEF A, D, M, H

\* The list a new model is noted for.
LEMMA SeenNewList ==
    ASSUME NEW cfg, IsCfg(cfg), Homed(cfg), NEW r \in Refs, Known(cfg, r[1])
    PROVE  /\ NewList(cfg, r) \in Channels
           /\ Sets!TargetChannel(AsConfig(cfg), r) = NewList(cfg, r)
<1> DEFINE p == Protocol[Clean[r[2]]]
           T == {c \in Channels : IndexOf(cfg, c, r[1]) # 0}
<1>1. r[1] \in Sites /\ r[2] \in Upstreams /\ r[2] \in Names
  BY DEF Refs, Names
<1>2. p \in Channels
  BY <1>1, WriteBackAssumption
<1>3. 1 \in T
  BY <1>1, SetsFacts DEF Homed
<1>4. Lowest(T) = 1
  <2>1. T \in SUBSET Nat /\ \A n \in T : 1 <= n
    BY WriteBackAssumption DEF Channels
  <2> HIDE DEF T
  <2>2. Lowest(T) \in T /\ \A n \in T : Lowest(T) <= n
    BY <1>3, <2>1, LowestNat
  <2>3. Lowest(T) \in Nat /\ 1 <= Lowest(T) /\ Lowest(T) <= 1
    BY <1>3, <2>1, <2>2
  <2> QED BY <2>3
<1>5. NewList(cfg, r) = IF IndexOf(cfg, p, r[1]) # 0 THEN p ELSE 1
  BY <1>4 DEF NewList
<1>6. AsConfig(cfg)[p][r[1]] = NoProvider <=> IndexOf(cfg, p, r[1]) = 0
  BY <1>1, <1>2, AsConfigFacts
<1>7. [n \in Names |-> IF n \in Upstreams THEN Clean[n] ELSE n][r[2]] = Clean[r[2]]
  BY <1>1
<1>8. Sets!TargetChannel(AsConfig(cfg), r)
        = IF AsConfig(cfg)[p][r[1]] # NoProvider THEN p ELSE 1
  BY <1>7 DEF Sets!TargetChannel
<1>9. 1 \in Channels
  BY SetsFacts
<1> HIDE DEF p
<1> QED BY <1>2, <1>5, <1>6, <1>8, <1>9

LEMMA SeenNew ==
    ASSUME NEW cfg, IsCfg(cfg), Homed(cfg), NEW r \in Refs, Known(cfg, r[1])
    PROVE  AsEntry([present |-> FALSE, pending |-> TRUE, withheld |-> FALSE,
                    gone |-> FALSE,
                    occ |-> [Nowhere EXCEPT ![NewList(cfg, r)] =
                               [alias |-> NoAlias, raw |-> NoFields, at |-> 0]]])
             = Sets!NewEntry(AsConfig(cfg), r)
<1> DEFINE k   == NewList(cfg, r)
           new == [alias |-> NoAlias, raw |-> NoFields, at |-> 0]
           occ == [Nowhere EXCEPT ![k] = new]
           f   == [present |-> FALSE, pending |-> TRUE, withheld |-> FALSE,
                   gone |-> FALSE, occ |-> occ]
<1>1. k \in Channels /\ Sets!TargetChannel(AsConfig(cfg), r) = k
  BY SeenNewList
<1>2. new \in Copy /\ new # NoCopy /\ new.alias = NoAlias
  <2>1. new \in Copy
    BY DEF Copy, Alias
  <2> QED BY <2>1, WriteBackAssumption
<1> HIDE DEF k, new
<1>3. IsOcc(occ) /\ occ[k] = new /\ \A c \in Channels : c # k => occ[c] = NoCopy
  <2>1. Nowhere \in [Channels -> Copy \cup {NoCopy}] /\ \A c \in Channels : Nowhere[c] = NoCopy
    BY DEF Nowhere
  <2> QED BY <1>1, <1>2, <2>1 DEF IsOcc
<1> HIDE DEF occ
<1>4. AsOcc(occ) = [c \in Channels |-> IF c = k THEN NoAlias ELSE Absent]
  BY <1>1, <1>2, <1>3 DEF AsOcc
<1>5. f \in Entry /\ f.present = FALSE /\ f.pending = TRUE /\ f.withheld = FALSE
      /\ f.gone = FALSE /\ f.occ = occ
  BY <1>3 DEF Entry, IsOcc
<1> HIDE DEF f
<1>6. AsEntry(f) = [present |-> FALSE, pending |-> TRUE, withheld |-> FALSE,
                    gone |-> FALSE, occ |-> AsOcc(occ)]
  BY <1>5, AsEntryFacts
<1>7. Sets!NewEntry(AsConfig(cfg), r)
        = [present |-> FALSE, pending |-> TRUE, withheld |-> FALSE, gone |-> FALSE,
           occ |-> [c \in Channels |-> IF c = k THEN NoAlias ELSE Absent]]
  BY <1>1 DEF Sets!NewEntry
<1>8. AsEntry(f) = Sets!NewEntry(AsConfig(cfg), r)
  BY <1>4, <1>6, <1>7
<1> QED BY <1>8 DEF f, occ, new, k

\* A probe of one site.
LEMMA SeenDiscovered ==
    ASSUME NEW cat, IsCat(cat), NEW cfg, IsCfg(cfg), Homed(cfg),
           NEW s \in Sites, Known(cfg, s), NEW names, names # {}
    PROVE  AsCatalog(Discovered(cat, cfg, s, names))
             = Sets!MergeDiscovered(AsCatalog(cat), AsConfig(cfg),
                                    [q \in Sites |-> IF q = s THEN names ELSE {}])
<1> DEFINE A == AsCatalog(cat)
           S == AsConfig(cfg)
           found == [q \in Sites |-> IF q = s THEN names ELSE {}]
           N == Discovered(cat, cfg, s, names)
<1>1. ASSUME NEW r \in Refs
      PROVE  AsEntry(N[r]) =
               IF ~Sets!Known(S, r[1]) \/ found[r[1]] = {}
               THEN A[r]
               ELSE IF A[r] # NoEntry
               THEN [A[r] EXCEPT !.gone = r[2] \notin found[r[1]],
                                 !.pending = @ /\ r[2] \in found[r[1]]]
               ELSE IF r[2] \in found[r[1]] THEN Sets!NewEntry(S, r) ELSE NoEntry
  <2>1. r[1] \in Sites
    BY DEF Refs
  <2>2. found[r[1]] = IF r[1] = s THEN names ELSE {}
    BY <2>1
  <2>3. A[r] = AsEntry(cat[r]) /\ (A[r] = NoEntry <=> cat[r] = NoEntry)
    BY AsCatalogFacts
  <2>4. CASE r[1] # s
    <3>1. N[r] = cat[r]
      BY <2>4 DEF Discovered
    <3>2. found[r[1]] = {}
      BY <2>2, <2>4
    <3> HIDE DEF A, S, found, N
    <3> QED BY <2>3, <3>1, <3>2
  <2>5. CASE r[1] = s
    <3>1. Sets!Known(S, r[1])
      BY <2>1, <2>5, SeenKnown
    <3>2. found[r[1]] = names
      BY <2>2, <2>5
    <3>3. CASE cat[r] # NoEntry
      <4> DEFINE e == cat[r]
                 a == A[r]
                 g == r[2] \notin names
                 w == e.pending /\ r[2] \in names
                 v == a.pending /\ r[2] \in names
                 f == [e EXCEPT !.gone = g, !.pending = w]
                 b == [a EXCEPT !.gone = g, !.pending = v]
      <4>1. N[r] = f
        BY <2>5, <3>3 DEF Discovered
      <4>2. /\ a # NoEntry /\ a \in Sets!Entry /\ AllBut(e, a) /\ a.occ = AsOcc(e.occ)
            /\ e \in Entry
        BY <3>3, AsCatalogFacts DEF AllBut
      <4>3. g \in BOOLEAN /\ w \in BOOLEAN /\ w = v
        BY <4>2 DEF AllBut
      <4>4. [a EXCEPT !.gone = r[2] \notin found[r[1]],
                      !.pending = @ /\ r[2] \in found[r[1]]] = b
        <5> HIDE DEF a, found
        <5> QED BY <3>2
      <4> HIDE DEF e, a, g, w, v, found, S
      <4>5. f \in Entry /\ f.present = e.present /\ f.pending = w
            /\ f.withheld = e.withheld /\ f.gone = g /\ f.occ = e.occ
        BY <4>2, <4>3 DEF Entry
      <4>6. b \in Sets!Entry /\ b.present = a.present /\ b.pending = v
            /\ b.withheld = a.withheld /\ b.gone = g /\ b.occ = a.occ
        BY <4>2, <4>3 DEF Sets!Entry
      <4> HIDE DEF f, b
      <4>7. /\ AsEntry(f) \in Sets!Entry
            /\ AllBut(f, AsEntry(f)) /\ AsEntry(f).occ = AsOcc(f.occ)
        BY <4>5, AsEntryFacts
      <4>8. AllBut(b, AsEntry(f)) /\ AsEntry(f).occ = b.occ
        BY <4>2, <4>3, <4>5, <4>6, <4>7 DEF AllBut
      <4>9. b = AsEntry(f)
        BY <4>6, <4>7, <4>8, SameEntry
      <4>10. names # {} /\ A[r] # NoEntry /\ a = A[r]
        BY <2>3, <3>3 DEF a
      <4> HIDE DEF A, N
      <4> QED BY <3>1, <3>2, <4>1, <4>4, <4>9, <4>10
    <3>4. CASE cat[r] = NoEntry /\ r[2] \in names
      <4>1. N[r] = [present |-> FALSE, pending |-> TRUE, withheld |-> FALSE,
                    gone |-> FALSE,
                    occ |-> [Nowhere EXCEPT ![NewList(cfg, r)] =
                               [alias |-> NoAlias, raw |-> NoFields, at |-> 0]]]
        BY <2>5, <3>4 DEF Discovered
      <4>2. AsEntry(N[r]) = Sets!NewEntry(S, r)
        BY <2>5, <4>1, SeenNew
      <4> HIDE DEF A, S, found, N
      <4> QED BY <2>3, <3>1, <3>2, <3>4, <4>2
    <3>5. CASE cat[r] = NoEntry /\ r[2] \notin names
      <4>1. N[r] = NoEntry
        BY <2>5, <3>5 DEF Discovered
      <4>2. AsEntry(N[r]) = NoEntry
        BY <4>1 DEF AsEntry
      <4> HIDE DEF A, S, found, N
      <4> QED BY <2>3, <3>1, <3>2, <3>5, <4>2
    <3> QED BY <3>3, <3>4, <3>5
  <2> QED BY <2>4, <2>5
<1>2. AsCatalog(N) = [r \in Refs |-> AsEntry(N[r])]
  BY DEF AsCatalog
<1> HIDE DEF N, A, S, found
<1>3. AsCatalog(N) = Sets!MergeDiscovered(A, S, found)
  BY <1>1, <1>2, SetsRefs DEF Sets!MergeDiscovered
<1> QED BY <1>3 DEF N, A, S, found

\* The name an entry goes by.
LEMMA SeenAlias ==
    ASSUME NEW cat, IsCat(cat), NEW r \in Refs, cat[r] # NoEntry
    PROVE  /\ Sets!AliasOf(AsCatalog(cat)[r]) = AliasOf(cat[r])
           /\ AliasOf(cat[r]) \in Alias
<1> DEFINE e     == cat[r]
           a     == AsCatalog(cat)[r]
           named == {c \in InLists(e.occ) : e.occ[c].alias # NoAlias}
           seen  == {c \in Channels : a.occ[c] \in Names}
<1>1. a.occ = AsOcc(e.occ) /\ Sound(e) /\ IsOcc(e.occ)
  BY AsCatalogFacts, EntryFacts DEF IsCat, Sound
<1>2. \A c \in Channels : /\ a.occ[c] = Absent <=> e.occ[c] = NoCopy
                          /\ e.occ[c] # NoCopy => a.occ[c] = e.occ[c].alias
                                                  /\ e.occ[c].alias \in Alias
  <2> HIDE DEF e, a
  <2> QED BY <1>1, AsOccFacts
<1>3. \A c \in Channels : a.occ[c] \in Names <=>
          e.occ[c] # NoCopy /\ e.occ[c].alias # NoAlias
  <2>1. Absent \notin Names
    BY SetsAssumption
  <2> HIDE DEF e, a
  <2> QED BY <1>2, <2>1, SetsFacts
<1>4. named = seen
  <2> HIDE DEF e, a
  <2> QED BY <1>3 DEF InLists
<1>5. named # {} => Lowest(named) \in named
  <2>1. named \in SUBSET Channels
    BY DEF InLists
  <2> HIDE DEF named
  <2> QED BY <2>1, ChannelNat
<1>6. AliasOf(e) = IF named = {} THEN NoAlias ELSE e.occ[Lowest(named)].alias
  BY DEF AliasOf
<1>7. Sets!AliasOf(a) = IF seen = {} THEN NoAlias ELSE a.occ[Lowest(seen)]
  BY DEF Sets!AliasOf, Sets!First, Lowest
<1>8. \A c \in named : a.occ[c] = e.occ[c].alias
  BY <1>2 DEF InLists
<1>9. AliasOf(e) \in Alias
  <2>1. \E c : c \in Channels
    BY SetsFacts
  <2> HIDE DEF e
  <2> QED BY <1>1, <2>1, SlotFacts
<1> HIDE DEF e, a, named, seen
<1>10. Sets!AliasOf(a) = AliasOf(e)
  BY <1>4, <1>5, <1>6, <1>7, <1>8
<1> QED BY <1>9, <1>10 DEF a, e

\* Where it goes.
LEMMA SeenTargets ==
    ASSUME NEW cat, IsCat(cat), NEW r \in Refs, cat[r] # NoEntry,
           NEW hid, NEW rt \in BOOLEAN
    PROVE  Sets!Targets(r, AsCatalog(cat)[r], Sets!MarksOf(hid, rt)) = Targets(r, cat[r], rt)
<1> DEFINE e == cat[r]
           a == AsCatalog(cat)[r]
           M == Sets!MarksOf(hid, rt)
<1>1. M.rules.route = rt
  BY DEF Sets!MarksOf
<1>2. Sets!AliasOf(a) = AliasOf(e)
  BY SeenAlias
<1>3. r[2] \in Upstreams /\ r[2] \in Names
  BY DEF Refs, Names
<1>4. [n \in Names |-> IF n \in Upstreams THEN Clean[n] ELSE n][r[2]] = Clean[r[2]]
  BY <1>3
<1>5. Sets!Canonical(r, a) = Canonical(r, e)
  <2> HIDE DEF a, e
  <2> QED BY <1>2, <1>4 DEF Sets!Canonical, Canonical
<1>6. {c \in Channels : a.occ[c] # Absent} = InLists(e.occ)
  <2>1. a.occ = AsOcc(e.occ) /\ IsOcc(e.occ)
    BY AsCatalogFacts, EntryFacts
  <2>2. \A c \in Channels : a.occ[c] = Absent <=> e.occ[c] = NoCopy
    <3> HIDE DEF a, e
    <3> QED BY <2>1, AsOccFacts
  <2> HIDE DEF a, e
  <2> QED BY <2>2 DEF InLists
<1> HIDE DEF a, e, M
<1>7. Sets!Targets(r, a, M) = Targets(r, e, rt)
  BY <1>1, <1>5, <1>6 DEF Sets!Targets, Targets
<1> QED BY <1>7 DEF a, e, M

\* What is placed in a list.
LEMMA SeenPlaced ==
    ASSUME NEW cat, IsCat(cat), NEW hid, NEW rt \in BOOLEAN,
           NEW s \in Sites, NEW c \in Channels
    PROVE  Sets!Placed(AsCatalog(cat), Sets!MarksOf(hid, rt), s, c) = Placed(cat, hid, rt, s, c)
<1> DEFINE A == AsCatalog(cat)
           M == Sets!MarksOf(hid, rt)
<1>1. ASSUME NEW u \in Upstreams
      PROVE  LET r == <<s, u>>
             IN  (/\ A[r] # NoEntry /\ ~A[r].gone /\ ~Sets!Hidden(r, A[r], M)
                  /\ c \in Sets!Targets(r, A[r], M))
                 <=> (/\ r \notin hid /\ cat[r] # NoEntry /\ ~cat[r].gone
                      /\ c \in Targets(r, cat[r], rt))
  <2> DEFINE r == <<s, u>>
  <2>1. r \in Refs
    BY DEF Refs
  <2> HIDE DEF r
  <2>2. /\ A[r] = NoEntry <=> cat[r] = NoEntry
        /\ cat[r] # NoEntry => A[r].gone = cat[r].gone
    BY <2>1, AsCatalogFacts
  <2>3. Sets!Hidden(r, A[r], M) <=> r \in hid
    BY <2>1, SeenHidden
  <2>4. cat[r] # NoEntry => Sets!Targets(r, A[r], M) = Targets(r, cat[r], rt)
    BY <2>1, SeenTargets
  <2>5. (/\ A[r] # NoEntry /\ ~A[r].gone /\ ~Sets!Hidden(r, A[r], M)
         /\ c \in Sets!Targets(r, A[r], M))
        <=> (/\ r \notin hid /\ cat[r] # NoEntry /\ ~cat[r].gone
             /\ c \in Targets(r, cat[r], rt))
    <3> HIDE DEF A, M
    <3> QED BY <2>2, <2>3, <2>4
  <2> QED BY <2>5 DEF r
<1> HIDE DEF A, M
<1>2. Sets!Placed(A, M, s, c) = Placed(cat, hid, rt, s, c)
  BY <1>1 DEF Sets!Placed, Placed
<1> QED BY <1>2 DEF A, M

\* A provider is not made for nothing.
LEMMA NotCreated ==
    ASSUME NEW cat, NEW cfg, Over(cat, cfg), NEW hid, NEW rt, NEW d, IsDraft(d),
           NEW c \in Channels, NEW s \in Sites,
           IndexOf(cfg, c, s) = 0, Placed(cat, hid, rt, s, c) = {}
    PROVE  IndexOf(BuildWrite(cat, hid, rt, cfg, d), c, s) = 0
<1> DEFINE out  == BuildWrite(cat, hid, rt, cfg, d)
           sent == out[c]
           made == Created(cat, hid, rt, cfg, c)
           n    == Len(cfg[c])
           i    == IndexOf(out, c, s)
<1> SUFFICES ASSUME i # 0 PROVE FALSE
  OBVIOUS
<1>1. IsCfg(out) /\ IsCfg(cfg)
  BY SentType DEF Over
<1>2. i \in DOMAIN sent /\ sent[i].owner = s
  <2> HIDE DEF out
  <2> QED BY <1>1, IndexFacts
<1>3. /\ n \in Nat /\ DOMAIN cfg[c] = 1..n
      /\ \A j \in 1..n : sent[j] = Rebuilt(cat, hid, rt, cfg, d, c, j)
      /\ \A j \in DOMAIN made : sent[n + j] = made[j]
      /\ \A j \in DOMAIN sent : j \notin 1..n => j - n \in DOMAIN made
      /\ DOMAIN sent = 1..Len(sent)
  BY SentFacts
<1>4. CASE i \in 1..n
  <2>1. Rebuilt(cat, hid, rt, cfg, d, c, i).owner = cfg[c][i].owner
    <3> HIDE DEF i
    <3> QED BY <1>3, <1>4, RebuiltFacts
  <2>2. cfg[c][i].owner = s
    BY <1>2, <1>3, <1>4, <2>1
  <2>3. i \in Mine(cfg, c, s)
    BY <1>3, <1>4, <2>2 DEF Mine
  <2>4. Mine(cfg, c, s) = {}
    BY <1>1, IndexFacts
  <2> QED BY <2>3, <2>4
<1>5. CASE i \notin 1..n
  <2>1. i - n \in DOMAIN made /\ sent[n + (i - n)] = made[i - n]
    BY <1>2, <1>3, <1>5
  <2>2. n + (i - n) = i
    <3>1. i \in 1..Len(sent)
      BY <1>2, <1>3
    <3>2. i \in Int
      BY <3>1
    <3> HIDE DEF i, n
    <3> QED BY <1>3, <3>2
  <2>3. made[i - n].owner = s
    <3> HIDE DEF i, n, sent, made
    <3> QED BY <1>2, <2>1, <2>2
  <2>4. \A j \in DOMAIN made : made[j].owner \in Wanting(cat, hid, rt, cfg, c)
    BY CreatedFacts
  <2>5. s \in Wanting(cat, hid, rt, cfg, c)
    <3> HIDE DEF i, n, made
    <3> QED BY <2>1, <2>3, <2>4
  <2> QED BY <2>5 DEF Wanting
<1> QED BY <1>4, <1>5

\* The lists a save sends.
LEMMA SeenBuildWrite ==
    ASSUME NEW cat, NEW cfg, Over(cat, cfg), Homed(cfg), NEW hid, NEW rt \in BOOLEAN,
           NEW d, IsDraft(d)
    PROVE  AsConfig(BuildWrite(cat, hid, rt, cfg, d))
             = Sets!BuildWrite(AsCatalog(cat), Sets!MarksOf(hid, rt), AsConfig(cfg))
<1> DEFINE out == BuildWrite(cat, hid, rt, cfg, d)
           A   == AsCatalog(cat)
           M   == Sets!MarksOf(hid, rt)
           S   == AsConfig(cfg)
<1>1. IsCfg(cfg) /\ IsCat(cat) /\ IsCfg(out)
  BY SentType DEF Over
<1>2. ASSUME NEW c \in Channels, NEW s \in Sites
      PROVE  AsConfig(out)[c][s] =
               IF ~Sets!Known(S, s) \/ (S[c][s] = NoProvider /\ Sets!Placed(A, M, s, c) = {})
               THEN S[c][s]
               ELSE [u \in Upstreams |->
                       IF u \in Sets!Placed(A, M, s, c) THEN Sets!AliasOf(A[<<s, u>>])
                       ELSE Absent]
  <2> DEFINE P == Placed(cat, hid, rt, s, c)
  <2>1. Sets!Placed(A, M, s, c) = P
    BY <1>1, SeenPlaced
  <2>2. Sets!Known(S, s) <=> Known(cfg, s)
    BY <1>1, SeenKnown
  <2>3. S[c][s] = NoProvider <=> IndexOf(cfg, c, s) = 0
    BY <1>1, AsConfigFacts
  <2>4. /\ AsConfig(out)[c][s] = NoProvider <=> IndexOf(out, c, s) = 0
        /\ IndexOf(out, c, s) # 0 =>
              AsConfig(out)[c][s] = [u \in Upstreams |-> AsOcc(Copies(out, <<s, u>>))[c]]
    <3> HIDE DEF out
    <3> QED BY <1>1, AsConfigFacts
  <2>5. /\ IndexOf(cfg, c, s) # 0 => IndexOf(out, c, s) # 0
        /\ IndexOf(out, c, s) # 0 => Known(cfg, s)
        /\ IndexOf(out, c, s) = 0 => P = {}
    BY SentModels, NothingWritten
  <2>6. CASE IndexOf(out, c, s) = 0
    <3>1. IndexOf(cfg, c, s) = 0 /\ P = {}
      BY <2>5, <2>6
    <3>2. S[c][s] = NoProvider /\ AsConfig(out)[c][s] = NoProvider
      BY <2>3, <2>4, <2>6, <3>1
    <3> HIDE DEF out, A, M, S, P
    <3> QED BY <2>1, <3>1, <3>2
  <2>7. CASE IndexOf(out, c, s) # 0
    <3>1. Sets!Known(S, s)
      BY <2>2, <2>5, <2>7
    <3>2. ~(S[c][s] = NoProvider /\ P = {})
      BY <2>3, <2>7, NotCreated
    <3>3. ASSUME NEW u \in Upstreams
          PROVE  AsOcc(Copies(out, <<s, u>>))[c]
                   = IF u \in P THEN Sets!AliasOf(A[<<s, u>>]) ELSE Absent
      <4> DEFINE r == <<s, u>>
      <4>1. r \in Refs
        BY DEF Refs
      <4>2. LET copy == Copies(out, r)[c]
            IN  /\ copy # NoCopy <=> u \in P
                /\ copy # NoCopy => copy.alias = AliasOf(cat[r])
        BY SentCopies
      <4>3. u \in P => cat[r] # NoEntry
        BY DEF Placed
      <4>4. u \in P => Sets!AliasOf(A[r]) = AliasOf(cat[r])
        <5> HIDE DEF r, P
        <5> QED BY <1>1, <4>1, <4>3, SeenAlias
      <4>5. AsOcc(Copies(out, r))[c]
              = IF Copies(out, r)[c] = NoCopy THEN Absent ELSE Copies(out, r)[c].alias
        BY DEF AsOcc
      <4> HIDE DEF r, P, out, A
      <4>6. AsOcc(Copies(out, r))[c] = IF u \in P THEN Sets!AliasOf(A[r]) ELSE Absent
        BY <4>2, <4>4, <4>5
      <4> QED BY <4>6 DEF r
    <3> HIDE DEF out, A, M, S, P
    <3>4. AsConfig(out)[c][s]
            = [u \in Upstreams |-> IF u \in P THEN Sets!AliasOf(A[<<s, u>>]) ELSE Absent]
      BY <2>4, <2>7, <3>3
    <3> QED BY <2>1, <3>1, <3>2, <3>4
  <2> QED BY <2>6, <2>7
<1>3. AsConfig(out) = [c \in Channels |-> [s \in Sites |-> AsConfig(out)[c][s]]]
  BY DEF AsConfig
<1> HIDE DEF out, A, M, S
<1>4. AsConfig(out) = Sets!BuildWrite(A, M, S)
  BY <1>2, <1>3 DEF Sets!BuildWrite
<1> QED BY <1>4 DEF out, A, M, S

LEMMA SentHomed ==
    ASSUME NEW cat, NEW cfg, Over(cat, cfg), Homed(cfg), NEW hid, NEW rt,
           NEW d, IsDraft(d)
    PROVE  Homed(BuildWrite(cat, hid, rt, cfg, d))
<1>1. 1 \in Channels
  BY SetsFacts
<1>2. ASSUME NEW s \in Sites, Known(BuildWrite(cat, hid, rt, cfg, d), s)
      PROVE  IndexOf(BuildWrite(cat, hid, rt, cfg, d), 1, s) # 0
  <2>1. Known(cfg, s)
    BY <1>2, SentSites
  <2>2. IndexOf(cfg, 1, s) # 0
    BY <2>1 DEF Homed
  <2>3. \A c \in Channels : IndexOf(cfg, c, s) # 0 =>
            IndexOf(BuildWrite(cat, hid, rt, cfg, d), c, s) # 0
    BY SentModels
  <2> QED BY <1>1, <2>2, <2>3
<1> QED BY <1>2 DEF Homed

LEMMA ReconciledCat ==
    ASSUME NEW cat, IsCat(cat), NEW cfg, IsCfg(cfg)
    PROVE  IsCat(Reconcile(cat, cfg))
<1>1. ASSUME NEW r \in Refs, Reconcile(cat, cfg)[r] # NoEntry
      PROVE  Sound(Reconcile(cat, cfg)[r])
  <2>1. CASE Holds(cfg, r)
    <3> DEFINE g == cat[r] # NoEntry /\ cat[r].gone
               f == [present |-> TRUE, pending |-> FALSE, withheld |-> FALSE,
                     gone |-> g, occ |-> Copies(cfg, r)]
    <3>1. Reconcile(cat, cfg)[r] = f
      BY <2>1 DEF Reconcile
    <3>2. g \in BOOLEAN
      OBVIOUS
    <3>3. Copies(cfg, r) \in [Channels -> Copy \cup {NoCopy}] /\ InLists(Copies(cfg, r)) # {}
      BY <2>1, CopiesType DEF IsOcc, Holds
    <3> HIDE DEF g
    <3>4. f \in Entry /\ f.occ = Copies(cfg, r)
      BY <3>2, <3>3 DEF Entry
    <3> HIDE DEF f
    <3> QED BY <3>1, <3>3, <3>4 DEF Sound
  <2>2. CASE ~Holds(cfg, r)
    <3> DEFINE e == cat[r]
               f == [e EXCEPT !.present = FALSE]
    <3>1. Reconcile(cat, cfg)[r] = f /\ e # NoEntry
      BY <1>1, <2>2 DEF Reconcile
    <3>2. e \in Entry /\ InLists(e.occ) # {}
      BY <3>1 DEF IsCat, Sound
    <3> HIDE DEF e
    <3>3. f \in Entry /\ f.occ = e.occ
      BY <3>2 DEF Entry
    <3> HIDE DEF f
    <3> QED BY <3>1, <3>2, <3>3 DEF Sound
  <2> QED BY <2>1, <2>2
<1> QED BY <1>1 DEF IsCat

\* What is stored after a load.
LEMMA SeenLoad ==
    ASSUME NEW cat, IsCat(cat), NEW cfg, IsCfg(cfg), Homed(cfg), NEW hid, NEW rt,
           IsCat(Loaded(cat, cfg, hid))
    PROVE  AsCatalog(Forget(Loaded(cat, cfg, hid)))
             = Sets!Reloaded(AsCatalog(cat), AsConfig(cfg), Sets!MarksOf(hid, rt))
BY ReconciledCat, SeenLoaded, SeenForget

\* The steps.
LEMMA SeenReady ==
    ASSUME TypeOK, Homed(cpa)
    PROVE  AsCatalog(Ready) = Sets!Ready
<1>1. IsCfg(cpa) /\ IsCat(cached)
  BY TypeMeans
<1>2. IsCat(Reconcile(cached, cpa))
  BY <1>1, ReconciledCat
<1>3. AsCatalog(Loaded(cached, cpa, hidden))
        = Sets!Reloaded(AsCatalog(cached), AsConfig(cpa), Sets!MarksOf(hidden, route))
  BY <1>1, <1>2, SeenLoaded
<1> QED BY <1>3 DEF Ready, Sets!Ready

LEMMA SeenStored ==
    ASSUME TypeOK, Homed(cpa)
    PROVE  AsCatalog(Forget(Ready)) = Sets!Ready
BY ReadyFits, SeenReady, SeenForget

LEMMA SeenSave ==
    ASSUME TypeOK, Homed(cpa), NEW d \in Drafts, Save(d)
    PROVE  Homed(cpa') /\ Sets!Save(AsDraft(d))
<1> DEFINE next == Planned(d)
           hid  == Hid(d)
           m    == Sets!MarksOf(hid, route)
           kept == Prune(MarkWithheld(next, hid), hid)
<1>1. /\ Over(next, cpa) /\ IsDraft(d)
      /\ cpa' = Sent(d) /\ IsCfg(cpa')
      /\ hidden' = hid /\ hidden' \in SUBSET Refs /\ route' = route
      /\ IsCat(Kept1(d)) /\ Stored(Kept1(d))
      /\ cached' = Forget(Loaded(Kept1(d), cpa', hidden'))
  BY SaveFacts
<1>2. IsCat(Ready) /\ IsCat(next) /\ route \in BOOLEAN
  BY <1>1, ReadyFits, TypeMeans DEF Over
<1>3. Homed(Sent(d)) /\ AsConfig(Sent(d)) = Sets!BuildWrite(AsCatalog(next), m, AsConfig(cpa))
  BY <1>1, <1>2, SentHomed, SeenBuildWrite DEF Sent
<1>4. AsCatalog(next) \in Sets!Drafted(Sets!Ready, AsDraft(d))
  BY <1>1, <1>2, SeenRenamed, SeenReady DEF Planned
<1>5. Sets!Marked(Sets!Ready, AsDraft(d), Sets!MarksOf(hidden, route), hid)
  BY <1>1, <1>2, SeenHides, SeenReady DEF Hid
<1>6. AsCatalog(Kept1(d)) = Sets!Prune(Sets!MarkWithheld(AsCatalog(next), m), m)
  <2>1. /\ IsCat(MarkWithheld(next, hid))
        /\ AsCatalog(MarkWithheld(next, hid)) = Sets!MarkWithheld(AsCatalog(next), m)
    BY <1>2, SeenWithheld
  <2>2. AsCatalog(kept) = Sets!Prune(AsCatalog(MarkWithheld(next, hid)), m)
    BY <2>1, SeenPrune
  <2>3. IsCat(kept)
    BY <2>1, PruneCat
  <2>4. Kept1(d) = Forget(kept)
    BY DEF Kept1, KeptOf
  <2> QED BY <2>1, <2>2, <2>3, <2>4, SeenForget
<1>7. AsCatalog(cached') = Sets!Reloaded(AsCatalog(Kept1(d)), AsConfig(cpa'), m)
  <2>1. IsCat(Loaded(Kept1(d), cpa', hid))
    BY <1>1, LoadedFits
  <2>2. cached' = Forget(Loaded(Kept1(d), cpa', hid)) /\ Homed(cpa')
    BY <1>1, <1>3
  <2> QED BY <1>1, <2>1, <2>2, SeenLoad
<1>8. Sets!Refs = Refs
  BY SetsRefs
<1> HIDE DEF next, hid, m
<1>9. Sets!MarksOf(hidden', route) = m
  BY <1>1 DEF m
<1>10. AsConfig(cpa') = Sets!BuildWrite(AsCatalog(next), m, AsConfig(cpa))
  BY <1>1, <1>3
<1>11. AsCatalog(cached')
         = Sets!Reloaded(Sets!Prune(Sets!MarkWithheld(AsCatalog(next), m), m), AsConfig(cpa'), m)
  BY <1>6, <1>7
<1>12. Homed(cpa') /\ route' = route /\ hidden' \in SUBSET Sets!Refs
       /\ Sets!Marked(Sets!Ready, AsDraft(d), Sets!MarksOf(hidden, route), hidden')
  BY <1>1, <1>3, <1>5, <1>8
<1> QED BY <1>4, <1>9, <1>10, <1>11, <1>12 DEF Sets!Save

LEMMA SeenRefresh ==
    ASSUME TypeOK, Homed(cpa), NEW s \in Sites, NEW names, Refresh(s, names)
    PROVE  Sets!Refresh(s, names)
<1> DEFINE found == [q \in Sites |-> IF q = s THEN names ELSE {}]
           N     == Discovered(Ready, cpa, s, names)
           m     == Sets!MarksOf(hidden, route)
<1>1. /\ Known(cpa, s) /\ names # {}
      /\ cached' = Forget(Prune(N, hidden))
      /\ cpa' = cpa /\ hidden' = hidden /\ route' = route
  BY DEF Refresh, Ready
<1>2. IsCfg(cpa) /\ IsCat(Ready)
  BY TypeMeans, ReadyFits
<1>3. IsCat(N)
  BY <1>1, ProbeFacts DEF IsCat
<1>4. AsCatalog(N) = Sets!MergeDiscovered(Sets!Ready, AsConfig(cpa), found)
  BY <1>1, <1>2, SeenDiscovered, SeenReady
<1>5. IsCat(Prune(N, hidden)) /\ AsCatalog(Prune(N, hidden)) = Sets!Prune(AsCatalog(N), m)
  <2> HIDE DEF N, m
  <2>1. IsCat(Prune(N, hidden))
    BY <1>3, PruneCat
  <2>2. AsCatalog(Prune(N, hidden)) = Sets!Prune(AsCatalog(N), Sets!MarksOf(hidden, route))
    BY <1>3, SeenPrune
  <2> QED BY <2>1, <2>2 DEF m
<1>6. AsCatalog(Forget(Prune(N, hidden))) = AsCatalog(Prune(N, hidden))
  <2> HIDE DEF N
  <2> QED BY <1>5, SeenForget
<1>7. Sets!Known(AsConfig(cpa), s)
  BY <1>1, <1>2, SeenKnown
<1>8. AsCatalog(cached') = Sets!Prune(Sets!MergeDiscovered(Sets!Ready, AsConfig(cpa), found), m)
  BY <1>1, <1>4, <1>5, <1>6
<1>9. AsConfig(cpa') = AsConfig(cpa)
  BY <1>1
<1> QED BY <1>1, <1>7, <1>8, <1>9 DEF Sets!Refresh

\* Lists of the same owners have the same provider for a site, and the same
\* models in it if that provider is the same.
LEMMA SameOwners ==
    ASSUME NEW cfg, IsCfg(cfg), NEW out, IsCfg(out), NEW k \in Channels, NEW s,
           DOMAIN out[k] = DOMAIN cfg[k],
           \A j \in DOMAIN cfg[k] : out[k][j].owner = cfg[k][j].owner
    PROVE  /\ IndexOf(out, k, s) = IndexOf(cfg, k, s)
           /\ (\A j \in DOMAIN cfg[k] : cfg[k][j].owner = s => out[k][j] = cfg[k][j])
                => ModelsOf(out, k, s) = ModelsOf(cfg, k, s)
<1> DEFINE n == IndexOf(cfg, k, s)
<1>1. IndexOf(out, k, s) = n
  <2>1. CASE n = 0
    <3>1. Mine(cfg, k, s) = {}
      BY <2>1, IndexFacts
    <3>2. Mine(out, k, s) = {}
      BY <3>1 DEF Mine
    <3>3. IndexOf(out, k, s) # 0 => IndexOf(out, k, s) \in Mine(out, k, s)
      BY IndexFacts DEF Mine
    <3> QED BY <2>1, <3>2, <3>3
  <2>2. CASE n # 0
    <3>1. /\ n \in DOMAIN cfg[k] /\ cfg[k][n].owner = s
          /\ \A j \in Mine(cfg, k, s) : j <= n
      BY <2>2, IndexFacts
    <3> HIDE DEF n
    <3>2. n \in DOMAIN out[k] /\ out[k][n].owner = s
      BY <3>1
    <3>3. ASSUME NEW j \in DOMAIN out[k], j > n PROVE out[k][j].owner # s
      <4>1. cfg[k] \in Seq(Provider)
        BY DEF IsCfg
      <4>2. j \in Int /\ n \in Int
        BY <3>1, <3>3, <4>1
      <4>3. j \notin Mine(cfg, k, s)
        BY <3>1, <3>3, <4>2
      <4> QED BY <3>3, <4>3 DEF Mine
    <3> QED BY <3>2, <3>3, IndexIs
  <2> QED BY <2>1, <2>2
<1>2. n # 0 => n \in DOMAIN cfg[k] /\ cfg[k][n].owner = s
  BY IndexFacts
<1>3. ModelsOf(cfg, k, s) = IF n = 0 THEN <<>> ELSE cfg[k][n].models
  BY DEF ModelsOf
<1> HIDE DEF n
<1>4. ModelsOf(out, k, s) = IF n = 0 THEN <<>> ELSE out[k][n].models
  BY <1>1 DEF ModelsOf
<1> QED BY <1>1, <1>2, <1>3, <1>4 DEF n

\* A provider with other models: the other lists stay.
Edited(cfg, c, i, models) == [cfg EXCEPT ![c][i].models = models]

LEMMA EditedIndex ==
    ASSUME NEW cfg, IsCfg(cfg), NEW c \in Channels, NEW i \in DOMAIN cfg[c],
           NEW models \in Seq(Model),
           NEW k \in Channels, NEW s
    PROVE  LET out == Edited(cfg, c, i, models)
           IN  /\ IndexOf(out, k, s) = IndexOf(cfg, k, s)
               /\ k # c \/ s # cfg[c][i].owner => ModelsOf(out, k, s) = ModelsOf(cfg, k, s)
<1> DEFINE out == Edited(cfg, c, i, models)
<1>0. out = [cfg EXCEPT ![c][i].models = models]
  BY DEF Edited
<1>1. cfg \in [Channels -> Seq(Provider)] /\ cfg[c] \in Seq(Provider)
  BY DEF IsCfg
<1>2. /\ out[k] = IF k = c THEN [cfg[c] EXCEPT ![i].models = models] ELSE cfg[k]
      /\ DOMAIN out[k] = DOMAIN cfg[k]
  BY <1>0, <1>1
<1>3. \A j \in DOMAIN cfg[k] : /\ out[k][j].owner = cfg[k][j].owner
                               /\ k # c \/ j # i => out[k][j] = cfg[k][j]
  <2>1. CASE k # c
    BY <1>2, <2>1
  <2>2. CASE k = c
    <3>1. \A j \in DOMAIN cfg[c] : cfg[c][j] \in Provider
      BY <1>1
    <3>2. cfg[c][i] \in Provider
      BY <3>1
    <3>3. [cfg[c][i] EXCEPT !.models = models].owner = cfg[c][i].owner
      BY <3>2 DEF Provider
    <3>4. \A j \in DOMAIN cfg[c] :
            [cfg[c] EXCEPT ![i].models = models][j]
              = IF j = i THEN [cfg[c][i] EXCEPT !.models = models] ELSE cfg[c][j]
      OBVIOUS
    <3> QED BY <1>2, <2>2, <3>3, <3>4
  <2> QED BY <2>1, <2>2
<1>4. IsCfg(out)
  BY EditType DEF Edited
<1> HIDE DEF out
<1>5. /\ IndexOf(out, k, s) = IndexOf(cfg, k, s)
      /\ (\A j \in DOMAIN cfg[k] : cfg[k][j].owner = s => out[k][j] = cfg[k][j])
           => ModelsOf(out, k, s) = ModelsOf(cfg, k, s)
  <2>1. DOMAIN out[k] = DOMAIN cfg[k]
    BY <1>2
  <2>2. \A j \in DOMAIN cfg[k] : out[k][j].owner = cfg[k][j].owner
    BY <1>3
  <2> QED BY ONLY <1>4, <2>1, <2>2, IsCfg(cfg), k \in Channels, SameOwners
<1>6. k # c \/ s # cfg[c][i].owner =>
        \A j \in DOMAIN cfg[k] : cfg[k][j].owner = s => out[k][j] = cfg[k][j]
  BY <1>3
<1> QED BY <1>5, <1>6 DEF out

LEMMA SeenEdited ==
    ASSUME NEW cfg, IsCfg(cfg), NEW c \in Channels, NEW i \in DOMAIN cfg[c],
           cfg[c][i].owner \in Sites,
           NEW models \in Seq(Model)
    PROVE  LET s   == cfg[c][i].owner
               out == Edited(cfg, c, i, models)
           IN  /\ AsConfig(cfg)[c][s] # NoProvider
               /\ AsConfig(out)[c][s] \in Sets!Provider
               /\ AsConfig(out) = [AsConfig(cfg) EXCEPT ![c][s] = AsConfig(out)[c][s]]
               /\ Homed(cfg) => Homed(out)
<1> DEFINE s   == cfg[c][i].owner
           out == Edited(cfg, c, i, models)
<1>1. IsCfg(out)
  BY EditType DEF Edited
<1>2. ASSUME NEW k \in Channels, NEW q \in Sites
      PROVE  /\ IndexOf(out, k, q) = IndexOf(cfg, k, q)
             /\ k # c \/ q # s => ModelsOf(out, k, q) = ModelsOf(cfg, k, q)
  BY EditedIndex
<1>3. IndexOf(cfg, c, s) # 0
  <2>1. i \in Mine(cfg, c, s)
    BY DEF Mine
  <2> HIDE DEF s
  <2> QED BY <2>1, IndexFacts
<1>4. s \in Sites
  OBVIOUS
<1> HIDE DEF s, out
<1>5. AsConfig(cfg)[c][s] # NoProvider /\ AsConfig(out)[c][s] \in Sets!Provider
  BY <1>1, <1>2, <1>3, <1>4, AsConfigFacts
<1>6. ASSUME NEW k \in Channels, NEW q \in Sites, k # c \/ q # s
      PROVE  AsConfig(out)[k][q] = AsConfig(cfg)[k][q]
  <2>1. ModelsOf(out, k, q) = ModelsOf(cfg, k, q)
    BY <1>2, <1>6
  <2>2. \A u \in Upstreams : Copies(out, <<q, u>>)[k] = Copies(cfg, <<q, u>>)[k]
    BY <2>1 DEF Copies
  <2>3. \A u \in Upstreams : AsOcc(Copies(out, <<q, u>>))[k] = AsOcc(Copies(cfg, <<q, u>>))[k]
    BY <2>2 DEF AsOcc
  <2>4. IndexOf(out, k, q) = IndexOf(cfg, k, q)
    BY <1>2
  <2> QED BY <2>3, <2>4 DEF AsConfig
<1>7. AsConfig(out) = [AsConfig(cfg) EXCEPT ![c][s] = AsConfig(out)[c][s]]
  <2> DEFINE x == AsConfig(cfg)
             y == AsConfig(out)
  <2>1. /\ x = [k \in Channels |-> x[k]] /\ \A k \in Channels : x[k] = [q \in Sites |-> x[k][q]]
        /\ y = [k \in Channels |-> y[k]] /\ \A k \in Channels : y[k] = [q \in Sites |-> y[k][q]]
    BY DEF AsConfig
  <2>2. \A k \in Channels, q \in Sites : k # c \/ q # s => y[k][q] = x[k][q]
    BY <1>6
  <2> HIDE DEF x, y
  <2>3. \A k \in Channels : k # c => y[k] = x[k]
    BY <2>1, <2>2
  <2>4. y[c] = [x[c] EXCEPT ![s] = y[c][s]]
    BY <1>4, <2>1, <2>2
  <2>5. y = [x EXCEPT ![c] = y[c]]
    BY <2>1, <2>3
  <2>6. [x EXCEPT ![c][s] = y[c][s]] = [x EXCEPT ![c] = [x[c] EXCEPT ![s] = y[c][s]]]
    OBVIOUS
  <2> QED BY <2>4, <2>5, <2>6 DEF x, y
<1>8. Homed(cfg) => Homed(out)
  <2>1. 1 \in Channels
    BY SetsFacts
  <2> QED BY <1>2, <2>1 DEF Homed, Known
<1> QED BY <1>5, <1>7, <1>8 DEF s, out

LEMMA SeenEdit ==
    ASSUME TypeOK, Homed(cpa), Edit
    PROVE  Homed(cpa') /\ Sets!Edit
<1>1. IsCfg(cpa)
  BY TypeMeans
<1>2. PICK c \in Channels : \E i \in {k \in DOMAIN cpa[c] : cpa[c][k].owner \in Sites} :
        (\E m \in EditModels : AddModel(c, i, m))
        \/ (\E k \in DOMAIN cpa[c][i].models : DropModel(c, i, k))
  BY DEF Edit
<1>3. PICK i \in DOMAIN cpa[c] :
        /\ cpa[c][i].owner \in Sites
        /\ (\E m \in EditModels : AddModel(c, i, m))
           \/ (\E k \in DOMAIN cpa[c][i].models : DropModel(c, i, k))
  BY <1>2
<1>4. cpa[c][i].models \in Seq(Model)
  <2>1. cpa[c] \in Seq(Provider)
    BY <1>1 DEF IsCfg
  <2>2. cpa[c][i] \in Provider
    BY <2>1
  <2> QED BY <2>2 DEF Provider
<1>5. \E models \in Seq(Model) : cpa' = [cpa EXCEPT ![c][i].models = models]
  <2>1. ASSUME NEW m \in EditModels, AddModel(c, i, m)
        PROVE  \E models \in Seq(Model) : cpa' = [cpa EXCEPT ![c][i].models = models]
    <3>1. Append(cpa[c][i].models, m) \in Seq(Model)
      BY <1>4, WriteBackAssumption, AppendProperties
    <3>2. cpa' = [cpa EXCEPT ![c][i].models = Append(cpa[c][i].models, m)]
      BY <2>1 DEF AddModel
    <3> QED BY <3>1, <3>2
  <2>2. ASSUME NEW k \in DOMAIN cpa[c][i].models, DropModel(c, i, k)
        PROVE  \E models \in Seq(Model) : cpa' = [cpa EXCEPT ![c][i].models = models]
    <3>1. RemoveAt(cpa[c][i].models, k) \in Seq(Model)
      BY <1>4, Dropped
    <3>2. cpa' = [cpa EXCEPT ![c][i].models = RemoveAt(cpa[c][i].models, k)]
      BY <2>2 DEF DropModel
    <3> QED BY <3>1, <3>2
  <2> QED BY <1>3, <2>1, <2>2
<1>6. PICK models \in Seq(Model) : cpa' = [cpa EXCEPT ![c][i].models = models]
  BY <1>5
<1> DEFINE s == cpa[c][i].owner
<1>7. /\ AsConfig(cpa)[c][s] # NoProvider
      /\ AsConfig(cpa')[c][s] \in Sets!Provider
      /\ AsConfig(cpa') = [AsConfig(cpa) EXCEPT ![c][s] = AsConfig(cpa')[c][s]]
      /\ Homed(cpa')
  <2> DEFINE out == Edited(cpa, c, i, models)
  <2>1. /\ AsConfig(cpa)[c][s] # NoProvider
        /\ AsConfig(out)[c][s] \in Sets!Provider
        /\ AsConfig(out) = [AsConfig(cpa) EXCEPT ![c][s] = AsConfig(out)[c][s]]
        /\ Homed(cpa) => Homed(out)
    BY <1>1, <1>3, SeenEdited
  <2>2. cpa' = out
    BY <1>6 DEF Edited
  <2> HIDE DEF out, s
  <2> QED BY <2>1, <2>2
<1>8. cached' = cached /\ hidden' = hidden /\ route' = route
  BY DEF Edit
<1>9. s \in Sites
  BY <1>3
<1> HIDE DEF s
<1>10. Sets!Edit
  BY <1>7, <1>8, <1>9 DEF Sets!Edit
<1> QED BY <1>7, <1>10

\* The specification of CatalogSets, seen through the lists.
SetsVars == <<AsConfig(cpa), AsCatalog(cached), hidden, route>>

LEMMA SetsInit == Init => Homed(cpa) /\ Sets!Init
<1> SUFFICES ASSUME Init PROVE Homed(cpa) /\ Sets!Init
  OBVIOUS
<1>1. /\ cpa \in Starts /\ cached = [r \in Refs |-> NoEntry] /\ hidden = {} /\ route \in BOOLEAN
  BY DEF Init
<1>2. IsCfg(cpa)
  BY <1>1, WriteBackAssumption DEF IsCfg
<1>3. Homed(cpa)
  BY <1>1, SetsAssumption DEF Homed
<1>4. AsConfig(cpa) \in Sets!Config
  <2>1. \A c \in Channels, s \in Sites :
          AsConfig(cpa)[c][s] \in Sets!Provider \cup {NoProvider}
    BY <1>2, AsConfigFacts
  <2>2. AsConfig(cpa) = [c \in Channels |-> [s \in Sites |-> AsConfig(cpa)[c][s]]]
    BY DEF AsConfig
  <2> QED BY <2>1, <2>2 DEF Sets!Config, Sets!Listing
<1>5. AsCatalog(cached) = [r \in Sets!Refs |-> NoEntry]
  BY <1>1, SetsRefs DEF AsCatalog, AsEntry
<1> QED BY <1>1, <1>3, <1>4, <1>5 DEF Sets!Init

LEMMA SetsStep ==
    ASSUME TypeOK, Homed(cpa), [Next]_vars
    PROVE  Homed(cpa') /\ [Sets!Next]_SetsVars
<1>1. CASE Load
  <2>1. cached' = Forget(Ready) /\ cpa' = cpa /\ hidden' = hidden /\ route' = route
    BY <1>1 DEF Load, Ready
  <2>2. AsCatalog(cached') = Sets!Ready /\ AsConfig(cpa') = AsConfig(cpa)
    BY <2>1, SeenStored
  <2>3. Sets!Load
    BY <2>1, <2>2 DEF Sets!Load
  <2> QED BY <2>1, <2>3 DEF Sets!Next
<1>2. ASSUME NEW d \in Drafts, Save(d) PROVE Homed(cpa') /\ [Sets!Next]_SetsVars
  <2>1. Homed(cpa') /\ Sets!Save(AsDraft(d))
    BY <1>2, SeenSave
  <2>2. AsDraft(d) \in {AsDraft(e) : e \in Drafts}
    OBVIOUS
  <2> HIDE DEF Save
  <2> QED BY <2>1, <2>2 DEF Sets!Next
<1>3. ASSUME NEW s \in Sites, NEW names \in Answers, Refresh(s, names)
      PROVE  Homed(cpa') /\ [Sets!Next]_SetsVars
  <2>1. Sets!Refresh(s, names) /\ cpa' = cpa
    BY <1>3, SeenRefresh DEF Refresh
  <2> QED BY <2>1 DEF Sets!Next
<1>4. CASE SetRouteByProtocol
  <2>1. cached' = Forget(Ready) /\ cpa' = cpa /\ hidden' = hidden /\ route' = ~route
    BY <1>4 DEF SetRouteByProtocol, Ready
  <2>2. AsCatalog(cached') = Sets!Ready /\ AsConfig(cpa') = AsConfig(cpa)
    BY <2>1, SeenStored
  <2>3. Sets!SetRouteByProtocol
    BY <2>1, <2>2 DEF Sets!SetRouteByProtocol
  <2> QED BY <2>1, <2>3 DEF Sets!Next
<1>5. CASE Edit
  BY <1>5, SeenEdit DEF Sets!Next
<1>6. CASE UNCHANGED vars
  <2>1. cpa' = cpa /\ cached' = cached /\ hidden' = hidden /\ route' = route
    BY <1>6 DEF vars
  <2> QED BY <2>1 DEF SetsVars
<1> QED BY <1>1, <1>2, <1>3, <1>4, <1>5, <1>6 DEF Next

\* What the handlers do to lists, order and repetitions included, is what the
\* operators of CatalogOps, the ones Panel is built from, do to sets of names.
THEOREM WriteBackRefinesSets == Spec => ImplementsSets
<1> DEFINE H == Homed(cpa)
<1>1. Init => TypeOK /\ H /\ Sets!Init
  BY InitType, SetsInit
<1>2. TypeOK /\ H /\ [Next]_vars => TypeOK' /\ H' /\ [Sets!Next]_SetsVars
  BY NextType, SetsStep
<1> HIDE DEF H
<1> QED
  BY <1>1, <1>2, PTL DEF Spec, ImplementsSets, Sets!Spec, Sets!vars, SetsVars
=============================================================================
