------------------------------ MODULE SiteList ------------------------------
(***************************************************************************)
(* Which provider entries of CPA's three lists the panel takes for one     *)
(* site (internal/catalog/site.go), and the operations that add or remove  *)
(* whole entries: a save that needs a new one, the deletion of a site, the *)
(* keyless sweep and an egg.                                               *)
(*                                                                         *)
(* An entry is its name, its keys and its base URL; its models, headers    *)
(* and priority are left out, and so is the order of the sites.  A base    *)
(* URL is a host with or without "/v1".  Panel has the interleavings and   *)
(* failures of these handlers over sites that are given; here each handler *)
(* is one step.                                                            *)
(***************************************************************************)
EXTENDS Integers, SequencesExt

CONSTANTS
    Hosts,
    Labels,         \* names CPA's users give to entries; "x #2" is <<x, 2>>
    Keys,
    NoName, NoKey,
    Shapes,         \* per list, the entries others add to CPA
    MaxEntries      \* bound on the entries of all lists

Channels == 1..3    \* openai-compatibility, codex-api-key, claude-api-key
Url      == [host : Hosts, v1 : BOOLEAN]

\* A site without a name of its own goes by its host.
Name == Labels \cup Hosts \cup {NoName}

Entry == [name : Name, keys : Seq(Keys), url : Url]

\* The field api-key of a codex or claude entry holds one key; an openai entry
\* has a list of them.
Fits(c, p) == p \in Entry /\ (c # 1 => Len(p.keys) <= 1)

ASSUME SiteAssumption ==
    /\ Shapes \in [Channels -> SUBSET Entry]
    /\ \A c \in Channels : \A p \in Shapes[c] : Fits(c, p)
    /\ MaxEntries \in Nat
    /\ NoKey \notin Keys
    /\ NoName \notin Labels \cup Hosts

VARIABLE cpa        \* the three lists

FirstKey(p) == IF p.keys = <<>> THEN NoKey ELSE p.keys[1]

Share(p, q) == ToSet(p.keys) \cap ToSet(q.keys) # {}

Sole(S) == Cardinality(S) = 1

The(S) == CHOOSE x \in S : TRUE

Least(S) == CHOOSE n \in S : \A m \in S : n <= m

-----------------------------------------------------------------------------
\* BuildSites walks the lists once.  It keeps the sites found so far, and the
\* entries that founded them, which are what its three indexes lead to.
\* at[c] is the position of the site's entry in list c, 0 if it has none.

Start == [sites |-> <<>>, founders |-> <<>>]

ByUrl(acc, u) ==
    {i \in DOMAIN acc.founders :
        acc.founders[i].list = 1 /\ acc.founders[i].entry.url = u}

ByHost(acc, h) ==
    {i \in DOMAIN acc.founders : acc.founders[i].entry.url.host = h}

\* An index entry per occurrence: a key listed twice counts twice.
ByKey(acc, k) ==
    UNION {{<<i, j>> : j \in {j \in DOMAIN acc.founders[i].entry.keys :
                                acc.founders[i].entry.keys[j] = k}} :
            i \in DOMAIN acc.founders}

\* Mutant: a site with one key agrees with everybody.
KeysAgreeByDefault(site, p) == TRUE

KeysAgree(site, p) ==
    site.key = NoKey \/ p.keys = <<>> \/ site.key \in ToSet(p.keys)

\* Mutant: the base URL and the host only.
ResolveByAddress(acc, p) ==
    LET url   == ByUrl(acc, p.url)
        near  == IF Sole(url) THEN url ELSE ByHost(acc, p.url.host)
        At(i) == acc.founders[i].site
    IN  {At(i) : i \in {i \in near : Sole(near) /\ KeysAgree(acc.sites[At(i)], p)}}

\* The position of the site the entry belongs to, as a set of at most one.
Resolve(acc, p) ==
    LET known == {n \in DOMAIN p.keys : Sole(ByKey(acc, p.keys[n]))}
        url   == ByUrl(acc, p.url)
        near  == IF Sole(url) THEN url ELSE ByHost(acc, p.url.host)
        At(i) == acc.founders[i].site
    IN  IF known # {}
        THEN {At(The(ByKey(acc, p.keys[Least(known)]))[1])}
        ELSE {At(i) : i \in {i \in near : /\ Sole(near)
                                          /\ KeysAgree(acc.sites[At(i)], p)}}

Positions(acc, id) == {i \in DOMAIN acc.sites : acc.sites[i].id = id}

\* A new site, or a further entry of the site that has this id already.
Add(acc, id, name, c, n, p) ==
    LET taken == Positions(acc, id)
        sites == IF taken = {}
                 THEN Append(acc.sites,
                        [id |-> id, name |-> name, key |-> FirstKey(p),
                         at |-> [d \in Channels |-> IF d = c THEN n ELSE 0]])
                 ELSE [acc.sites EXCEPT
                        ![The(taken)].at[c] = n,
                        ![The(taken)].key =
                            IF @ = NoKey THEN FirstKey(p) ELSE @]
        pos   == IF taken = {} THEN Len(sites) ELSE The(taken)
    IN  [sites    |-> sites,
         founders |-> Append(acc.founders,
                        [site |-> pos, list |-> c, entry |-> p])]

\* name + " #" + k, which may be the name of another entry.
Numbered(name, k) == <<name, k>>

\* Entries of one name are numbered in the order of the list, past the ids that
\* are taken.  Names and numbered names are one kind of id; a name that begins
\* with "url:" or "host:", as the other two kinds do, is left out.
NameId(acc, p) ==
    LET first == IF p.name = NoName THEN <<"url", p.url>> ELSE <<"name", p.name>>
        free  == {k \in 2..(Len(acc.sites) + 2) :
                    Positions(acc, <<"name", Numbered(p.name, k)>>) = {}}
    IN  IF Positions(acc, first) = {}
        THEN first
        ELSE <<"name", Numbered(p.name, Least(free))>>

\* A host taken by another account is told apart by the key (by a 32-bit hash of
\* it, which is taken to tell keys apart).
HostId(acc, p) ==
    LET id    == <<"host", p.url.host>>
        taken == Positions(acc, id)
    IN  IF taken # {} /\ ~KeysAgree(acc.sites[The(taken)], p)
        THEN <<"host", p.url.host, FirstKey(p)>>
        ELSE id

NameOf(p) == IF p.name = NoName THEN p.url.host ELSE p.name

\* openai entries found the sites, codex and claude entries join one or
\* found their own.
Place(acc, c, n, p) ==
    LET joined == IF c = 1 THEN {} ELSE Resolve(acc, p)
        id     == IF c = 1 THEN NameId(acc, p) ELSE HostId(acc, p)
    IN  IF joined # {}
        THEN [acc EXCEPT !.sites[The(joined)].at[c] = n]
        ELSE Add(acc, id, NameOf(p), c, n, p)

\* What is known after list c, given what was known before it.
WalkList(before, c, list) ==
    LET known[n \in 0..Len(list)] ==
            IF n = 0 THEN before ELSE Place(known[n - 1], c, n, list[n])
    IN  known[Len(list)]

\* The sites of the lists, those without a key left out.
BuildSites(lists) ==
    LET openai == WalkList(Start, 1, lists[1])
        codex  == WalkList(openai, 2, lists[2])
        all    == WalkList(codex, 3, lists[3]).sites
    IN  {all[i] : i \in {i \in DOMAIN all : all[i].key # NoKey}}

-----------------------------------------------------------------------------
\* The write-back's new entry.

Source(lists, s) ==
    LET c == Least({c \in Channels : s.at[c] # 0})
    IN  lists[c][s.at[c]]

\* Mutant: an entry without a key is copied as well.
CanCreateAnyway(lists, s) == TRUE

CanCreate(lists, s) == Source(lists, s).keys # <<>>

\* Mutant: the address is copied, the key is not.
KeylessProviderFor(lists, s, c) ==
    [name |-> IF c = 1 THEN s.name ELSE NoName,
     keys |-> <<>>,
     url  |-> [Source(lists, s).url EXCEPT !.v1 = (c # 3)]]

\* The first key of the site's first entry; claude takes the bare origin.
NewProviderFor(lists, s, c) ==
    [name |-> IF c = 1 THEN s.name ELSE NoName,
     keys |-> <<FirstKey(Source(lists, s))>>,
     url  |-> [Source(lists, s).url EXCEPT !.v1 = (c # 3)]]

-----------------------------------------------------------------------------
Init == cpa = [c \in Channels |-> <<>>]

Entries(lists) == UNION {{c} \X DOMAIN lists[c] : c \in Channels}

Room(n) == Cardinality(Entries(cpa)) + n <= MaxEntries

\* Sites and lists in which these could be given an entry.
Creatable(lists) ==
    {x \in BuildSites(lists) \X Channels : x[1].at[x[2]] = 0 /\ CanCreate(lists, x[1])}

\* A save, routing by protocol, that needs a place for models of some sites
\* in lists where these have no entry.
Save ==
    \E need \in SUBSET Creatable(cpa) :
        /\ need # {}
        /\ Room(Cardinality(need))
        /\ cpa' = [c \in Channels |->
                    LET homeless == SetToSeq({x \in need : x[2] = c})
                    IN  cpa[c] \o [i \in DOMAIN homeless |->
                                NewProviderFor(cpa, homeless[i][1], c)]]

\* Mutant: only the entry that founded the site is removed.
DeleteFounder(s, last) ==
    LET c == Least({c \in Channels : s.at[c] # 0})
    IN  cpa' = [cpa EXCEPT ![c] = RemoveAt(@, s.at[c])]

\* A site leaves list after list; a PUT that fails ends that after "last".
DeleteSite(s, last) ==
    cpa' = [c \in Channels |->
                IF c > last \/ s.at[c] = 0 THEN cpa[c]
                ELSE RemoveAt(cpa[c], s.at[c])]

Delete == \E s \in BuildSites(cpa), last \in Channels : DeleteSite(s, last)

\* The entries of a list that have a key.
KeyedEntries(list) ==
    LET kept[n \in 0..Len(list)] ==
            IF n = 0 THEN <<>>
            ELSE IF list[n].keys = <<>> THEN kept[n - 1]
            ELSE Append(kept[n - 1], list[n])
    IN  kept[Len(list)]

\* A refresh removes the entries without a key, list after list.
SweepKeylessSites ==
    \E last \in Channels :
        cpa' = [c \in Channels |->
                    IF c > last THEN cpa[c] ELSE KeyedEntries(cpa[c])]

AddEgg(n, h, k) ==
    cpa' = [cpa EXCEPT ![1] = Append(@,
                [name |-> n, keys |-> <<k>>, url |-> [host |-> h, v1 |-> TRUE]])]

\* Mutant: the name of an egg is not checked.
EggUnchecked ==
    /\ Room(1)
    /\ \E n \in Labels, h \in Hosts, k \in Keys : AddEgg(n, h, k)

\* An egg is refused under a name the panel shows.
Egg ==
    /\ Room(1)
    /\ \E n \in Labels \ {s.name : s \in BuildSites(cpa)}, h \in Hosts, k \in Keys :
            AddEgg(n, h, k)

\* Somebody else adds or removes an entry.
ExternalEdit ==
    \E c \in Channels :
        \/ /\ Room(1)
           /\ \E p \in Shapes[c] : cpa' = [cpa EXCEPT ![c] = Append(@, p)]
        \/ \E n \in DOMAIN cpa[c] : cpa' = [cpa EXCEPT ![c] = RemoveAt(@, n)]

Next == Save \/ Delete \/ SweepKeylessSites \/ Egg \/ ExternalEdit

Spec == Init /\ [][Next]_cpa

-----------------------------------------------------------------------------
\* What a site is meant to be: the entries of one account, where an account
\* is what shared keys hold together.

At(lists, e) == lists[e[1]][e[2]]

Owned(s) == {<<c, s.at[c]>> : c \in {c \in Channels : s.at[c] # 0}}

Linked(lists, e, f) ==
    \/ Share(At(lists, e), At(lists, f))
    \/ \E g \in Entries(lists) :
            /\ Share(At(lists, e), At(lists, g))
            /\ Share(At(lists, g), At(lists, f))

Account(lists, e) == {f \in Entries(lists) : Linked(lists, e, f)}

Keyed(lists) == \A e \in Entries(lists) : At(lists, e).keys # <<>>

\* Every entry has keys, none of them twice, and no account has two entries in
\* one list.
Tidy(lists) ==
    /\ Keyed(lists)
    /\ \A e \in Entries(lists) : IsInjective(At(lists, e).keys)
    /\ \A e \in Entries(lists) : \A f, g \in Account(lists, e) :
            f[1] = g[1] => f = g

\* CPA is only ever sent entries of the form it keeps: none with a key that
\* is not one, whatever entry a new one is copied from.
TypeOK ==
    /\ cpa \in [Channels -> Seq(Entry)]
    /\ \A c \in Channels : \A n \in DOMAIN cpa[c] : Fits(c, cpa[c][n])

\* A site never unites two accounts: an entry it owns has no key, or has the
\* key the panel uses for the site, or shares one with the site's openai
\* entry.  This is the purpose of the guards of resolveSite and of the key in
\* a host's id ("Merging them would put two different accounts in one matrix
\* column"), and holds of any lists CPA may hold, keyless entries included.
GroupsApart ==
    \A s \in BuildSites(cpa) : \A e \in Owned(s) :
        \/ At(cpa, e).keys = <<>>
        \/ s.key \in ToSet(At(cpa, e).keys)
        \/ s.at[1] # 0 /\ Share(At(cpa, e), cpa[1][s.at[1]])

\* In tidy lists the sites are exactly the accounts: BuildSites, with its
\* order of lists, its indexes and its fall-backs, neither splits an account
\* nor loses an entry.
GroupsAreAccounts ==
    Tidy(cpa) => {Owned(s) : s \in BuildSites(cpa)}
                    = {Account(cpa, e) : e \in Entries(cpa)}

\* The entries a save creates are read back into the sites they were created
\* for: there is no site more, and each has what it had.  Otherwise every
\* further save would create them again.
SaveFoundsNoSite ==
    [][Tidy(cpa) /\ Save =>
        /\ Tidy(cpa')
        /\ Cardinality(BuildSites(cpa')) = Cardinality(BuildSites(cpa))
        /\ \A s \in BuildSites(cpa) : \E t \in BuildSites(cpa') :
                Owned(s) \subseteq Owned(t)]_cpa

\* The entries of a site, wherever they have moved to in the lists.
Held(lists, s) == {<<e[1], At(lists, e)>> : e \in Owned(s)}

\* A deletion takes entries of one site only, and when its PUTs succeed all of
\* them (deleteSite: "removes a site from every channel that holds it").  Cut
\* short by a PUT that fails it leaves every other site what it had, and what
\* remains of the site does not join another.
DeleteTakesOneSite ==
    [][Tidy(cpa) /\ Delete =>
        \A s \in BuildSites(cpa), last \in Channels : DeleteSite(s, last) =>
            /\ \A t \in BuildSites(cpa) \ {s} :
                    \E u \in BuildSites(cpa') : Held(cpa', u) = Held(cpa, t)
            /\ \A u \in BuildSites(cpa') :
                    \E t \in BuildSites(cpa) :
                        /\ Held(cpa', u) \subseteq Held(cpa, t)
                        /\ last = 3 => t # s]_cpa

\* The site of the last openai entry goes by this name.
LastGoesBy(lists, n) ==
    \E t \in BuildSites(lists) : t.id = <<"name", n>> /\ t.at[1] = Len(lists[1])

\* An entry of this name that the panel does not show, for want of a key.
Unseen(list, n) == \E i \in DOMAIN list : list[i].name = n /\ list[i].keys = <<>>

Repeats(list) == \E i, j \in DOMAIN list : i # j /\ list[i].name = list[j].name

\* The name is that of an entry with a number added.
LooksNumbered(list, n) ==
    \E i \in DOMAIN list, k \in 2..(Len(list) + 1) : n = Numbered(list[i].name, k)

\* The name under which an egg is noted as temporary is the id of the site that
\* owns the egg's entry, although only the names the panel shows are checked,
\* and not its ids: it fails only for the name of an entry without a key, or for
\* one like "x #2" while some entries share a name.
EggIsNamed ==
    [][Egg =>
        \A n \in Labels, h \in Hosts, k \in Keys :
            AddEgg(n, h, k) =>
                \/ LastGoesBy(cpa', n)
                \/ Unseen(cpa[1], n)
                \/ Repeats(cpa[1]) /\ LooksNumbered(cpa[1], n)]_cpa

\* AddTempSite is given the name of the new site, and temp_sites is keyed by the
\* ids of sites.  This does not hold, see README, "Known disagreements".
EggIsAlwaysNamed ==
    [][Egg =>
        \A n \in Labels, h \in Hosts, k \in Keys :
            AddEgg(n, h, k) => LastGoesBy(cpa', n)]_cpa

\* A save never takes away a site's id, under which the site's models are
\* cached and its exclusions stored: "the models a rule or a deletion hides
\* stay in the panel's cache" (README.md), and "ids are persisted".
SaveKeepsIds ==
    [][Save => {s.id : s \in BuildSites(cpa)}
                \subseteq {s.id : s \in BuildSites(cpa')}]_cpa

\* Wherever a save routes a model of a site, the site has an entry there or
\* can be given one; BuildWrite drops a model that has no place.  This does not
\* hold, see README, "Known disagreements".
HasPlace ==
    \A s \in BuildSites(cpa), c \in Channels :
        s.at[c] # 0 \/ CanCreate(cpa, s)

=============================================================================
