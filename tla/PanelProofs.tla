----------------------------- MODULE PanelProofs -----------------------------
(***************************************************************************)
(* Theorems about Panel, for every value of its constants: the types, and  *)
(* what the mutex and the order of the steps guarantee.  Saves do not undo *)
(* each other's marks, a write overwrites nothing unread, a retained       *)
(* snapshot covers it, and one save converges: what it writes is what a    *)
(* load of it would write again.                                           *)
(***************************************************************************)
EXTENDS Panel, SequenceTheorems, TLAPS

USE CatalogAssumption

-----------------------------------------------------------------------------
\* The operators of CatalogOps return what the variables hold.

\* The least element of a non-empty set of channels is one of them.
LEMMA FirstIsMember ==
    ASSUME NEW S \in SUBSET Channels, S # {}
    PROVE  First(S) \in S
<1>1. \E c \in S : \A d \in S : c <= d
  <2>1. \A d \in S : d \in 1..3
    BY CatalogAssumption
  <2>2. CASE 1 \in S
    BY <2>1, <2>2
  <2>3. CASE 1 \notin S /\ 2 \in S
    BY <2>1, <2>3
  <2>4. CASE 1 \notin S /\ 2 \notin S
    <3>1. \A d \in S : d = 3
      BY <2>1, <2>4
    <3>2. 3 \in S
      BY <3>1
    <3>3. \A d \in S : 3 <= d
      BY <3>1
    <3>4. QED
      BY <3>2, <3>3
  <2>5. QED
    BY <2>2, <2>3, <2>4
<1>2. QED
  BY <1>1 DEF First

\* The alias of an entry is an alias.
LEMMA AliasOfType ==
    ASSUME NEW e \in Entry
    PROVE  AliasOf(e) \in Alias
<1> DEFINE named == {c \in Channels : e.occ[c] \in Names}
<1>1. CASE named = {}
  BY <1>1 DEF AliasOf, Alias
<1>2. CASE named # {}
  <2>1. First(named) \in named
    BY <1>2, FirstIsMember
  <2>2. QED
    BY <1>2, <2>1 DEF AliasOf, Alias
<1>3. QED
  BY <1>1, <1>2

\* Reconciling a catalog with a configuration gives a catalog.
LEMMA ReconcileType ==
    ASSUME NEW cached \in Catalog, NEW snap \in Config
    PROVE  Reconcile(cached, snap) \in Catalog
<1> SUFFICES ASSUME NEW r \in Refs
             PROVE  Reconcile(cached, snap)[r] \in Entry \cup {NoEntry}
  BY DEF Reconcile, Catalog
<1>1. r[1] \in Sites /\ r[2] \in Upstreams
  BY DEF Refs
<1>2. ASSUME NEW b \in BOOLEAN
      PROVE  LiveEntry(snap, r, b) \in Entry
  <2>1. ASSUME NEW c \in Channels, Lists(snap, c, r)
        PROVE  snap[c][r[1]][r[2]] \in Slot
    <3>1. snap[c][r[1]] \in Provider
      BY <1>1, <2>1 DEF Lists, Config, Listing
    <3>2. QED
      BY <1>1, <3>1 DEF Provider
  <2>2. QED
    BY <2>1 DEF LiveEntry, Entry, Slot
<1>3. cached[r] # NoEntry => [cached[r] EXCEPT !.present = FALSE] \in Entry
  <2>1. cached[r] # NoEntry => cached[r] \in Entry
    BY DEF Catalog
  <2>2. QED
    BY <2>1 DEF Entry
<1>4. QED
  BY <1>2, <1>3 DEF Reconcile

\* Pruning a catalog gives a catalog.
LEMMA PruneType ==
    ASSUME NEW cat \in Catalog, NEW m
    PROVE  Prune(cat, m) \in Catalog
BY DEF Prune, Catalog

\* So does recording what a write leaves out.
LEMMA MarkWithheldType ==
    ASSUME NEW cat \in Catalog, NEW m \in Marks
    PROVE  MarkWithheld(cat, m) \in Catalog
<1> SUFFICES ASSUME NEW r \in Refs, cat[r] # NoEntry
             PROVE  [cat[r] EXCEPT !.withheld = ~cat[r].gone /\ Hidden(r, cat[r], m)]
                        \in Entry
  BY DEF MarkWithheld, Catalog
<1>1. cat[r] \in Entry
  BY DEF Catalog
<1>2. (~cat[r].gone /\ Hidden(r, cat[r], m)) \in BOOLEAN
  BY DEF Hidden
<1>3. QED
  BY <1>1, <1>2 DEF Entry

\* And folding a probe in.
LEMMA MergeType ==
    ASSUME NEW cat \in Catalog, NEW snap, NEW found
    PROVE  MergeDiscovered(cat, snap, found) \in Catalog
<1> SUFFICES ASSUME NEW r \in Refs
             PROVE  MergeDiscovered(cat, snap, found)[r] \in Entry \cup {NoEntry}
  BY DEF MergeDiscovered, Catalog
<1>1. NewEntry(snap, r) \in Entry
  BY DEF NewEntry, Entry, Slot, Alias
<1>2. ASSUME cat[r] # NoEntry
      PROVE  [cat[r] EXCEPT !.gone = r[2] \notin found[r[1]],
                            !.pending = @ /\ r[2] \in found[r[1]]] \in Entry
  <2>1. cat[r] \in Entry
    BY <1>2 DEF Catalog
  <2>2. (r[2] \notin found[r[1]]) \in BOOLEAN
    OBVIOUS
  <2>3. (cat[r].pending /\ r[2] \in found[r[1]]) \in BOOLEAN
    OBVIOUS
  <2>4. QED
    BY <2>1, <2>2, <2>3 DEF Entry
<1>3. QED
  BY <1>1, <1>2 DEF MergeDiscovered, Catalog

\* What the scheduler accepts are draft operations.
LEMMA SuggestionsType ==
    ASSUME NEW cat \in Catalog
    PROVE  Suggestions(cat) \in SUBSET Op
<1> SUFFICES ASSUME NEW r \in Refs, cat[r] # NoEntry
             PROVE  [kind |-> "rename", ref |-> r, to |-> Suggested(r, cat[r])] \in Op
  BY DEF Suggestions
<1>1. r[2] \in Names
  BY DEF Refs
<1>2. Suggested(r, cat[r]) \in Alias
  BY <1>1 DEF Suggested, Alias
<1>3. QED
  BY <1>2 DEF Op, OpKinds

\* An operation keeps the catalog a catalog and the marks marks.
LEMMA OpType ==
    ASSUME NEW cat \in Catalog, NEW m \in Marks, NEW op \in Op
    PROVE  OpOnCatalog(cat, op) \in Catalog /\ OpOnMarks(cat, m, op) \in Marks
<1> DEFINE next == IF op.to = op.ref[2] THEN NoAlias ELSE op.to
<1>1. op.ref \in Refs /\ op.to \in Alias /\ next \in Slot
  BY DEF Op, Slot, Alias
<1>2. ASSUME cat[op.ref] # NoEntry
      PROVE  Rename(cat, op) \in Catalog
  <2>1. cat[op.ref] \in Entry
    BY <1>1, <1>2 DEF Catalog
  <2>2. [c \in Channels |-> IF cat[op.ref].occ[c] = Absent THEN Absent ELSE next]
            \in [Channels -> Slot]
    BY <1>1 DEF Slot
  <2>3. [cat[op.ref] EXCEPT !.occ =
            [c \in Channels |-> IF cat[op.ref].occ[c] = Absent THEN Absent ELSE next]]
            \in Entry
    BY <2>1, <2>2 DEF Entry
  <2>4. QED
    BY <1>1, <2>3 DEF Rename, Catalog
<1>3. OpOnMarks(cat, m, op) \in Marks
  <2>1. m = [rules |-> m.rules, excl |-> m.excl, dis |-> m.dis, keep |-> m.keep]
    BY DEF Marks
  <2>2. OpOnMarks(cat, m, op).rules \in Settings
    BY DEF OpOnMarks, Marks
  <2>3. OpOnMarks(cat, m, op).excl \in SUBSET Refs
    BY <1>1 DEF OpOnMarks, Marks
  <2>4. OpOnMarks(cat, m, op).dis \in SUBSET Refs
    BY <1>1 DEF OpOnMarks, Marks
  <2>5. OpOnMarks(cat, m, op).keep \in SUBSET Refs
    BY <1>1 DEF OpOnMarks, Marks
  <2>6. OpOnMarks(cat, m, op) =
            [rules |-> OpOnMarks(cat, m, op).rules, excl |-> OpOnMarks(cat, m, op).excl,
             dis |-> OpOnMarks(cat, m, op).dis, keep |-> OpOnMarks(cat, m, op).keep]
    BY DEF OpOnMarks, Marks
  <2>7. QED
    BY <2>2, <2>3, <2>4, <2>5, <2>6 DEF Marks
<1>4. QED
  BY <1>2, <1>3 DEF OpOnCatalog

\* What a save, a sweep, a deletion and an egg send are configurations.
LEMMA WriteType ==
    ASSUME NEW snap \in Config, NEW cat \in Catalog, NEW m \in Marks,
           NEW s \in Sites, NEW names
    PROVE  /\ BuildWrite(cat, m, snap) \in Config
           /\ Swept(snap) \in Config
           /\ WithoutSite(snap, s) \in Config
           /\ WithEgg(snap, s, names) \in Config
<1>1. BuildWrite(cat, m, snap) \in Config
  <2>1. ASSUME NEW c \in Channels, NEW x \in Sites
        PROVE  [u \in Upstreams |->
                  IF u \in Placed(cat, m, x, c) THEN AliasOf(cat[<<x, u>>])
                  ELSE Absent] \in Provider
    <3>1. ASSUME NEW u \in Placed(cat, m, x, c)
          PROVE  AliasOf(cat[<<x, u>>]) \in Slot
      <4>1. cat[<<x, u>>] \in Entry
        BY DEF Placed, Catalog, Refs
      <4>2. QED
        BY <4>1, AliasOfType DEF Slot
    <3>2. QED
      BY <3>1 DEF Provider, Slot
  <2>2. QED
    BY <2>1 DEF BuildWrite, Config, Listing
<1>2. Swept(snap) \in Config
  BY DEF Swept, Config, Listing
<1>3. WithoutSite(snap, s) \in Config
  BY DEF WithoutSite, Config, Listing
<1>4. WithEgg(snap, s, names) \in Config
  <2>1. [u \in Upstreams |-> IF u \in names THEN NoAlias ELSE Absent] \in Provider
    BY DEF Provider, Slot, Alias
  <2>2. QED
    BY <2>1 DEF WithEgg, Config, Listing
<1>5. QED
  BY <1>1, <1>2, <1>3, <1>4

-----------------------------------------------------------------------------
\* Type correctness.

\* A configuration is known whole once every list has been read.
SnapRead ==
    \A p \in Procs :
        pc[p] \notin {"idle", "lock", "payload", "eggprobe", "get"}
            => st[p].snap \in Config

TypeInv == TypeOK /\ SnapRead

\* The values a process starts from have their types.
LEMMA StartType ==
    /\ Nothing \in Catalog /\ AllRules \in Settings /\ NoMarks \in Marks
    /\ NoListing \in Listing /\ Blank \in Locals /\ NoRequest \in Request
<1>1. Nothing \in Catalog
  BY DEF Nothing, Catalog
<1>2. AllRules \in Settings
  BY DEF AllRules, Settings
<1>3. NoMarks \in Marks
  BY <1>2 DEF NoMarks, Marks
<1>4. NoListing \in Listing
  BY DEF NoListing, Listing
<1>5. Blank \in Locals
  BY <1>1, <1>3, <1>4 DEF Blank, Locals, Phases, Config
<1>6. NoRequest \in Request
  BY <1>2 DEF NoRequest, Request, AllKinds
<1>7. QED
  BY <1>1, <1>2, <1>3, <1>4, <1>5, <1>6

\* The initial state has its type.
LEMMA InitType == Init => TypeInv
<1> SUFFICES ASSUME Init PROVE TypeInv
  OBVIOUS
<1>1. TypeOK
  BY StartType, PanelAssumption DEF Init, TypeOK, Labels
<1>2. SnapRead
  BY DEF Init, SnapRead
<1>3. QED
  BY <1>1, <1>2 DEF TypeInv

\* Leaving a handler keeps the types.
LEMMA LeaveType ==
    ASSUME TypeInv, NEW p \in Procs, Leave(p)
    PROVE  /\ mu' \in Procs \cup {NoProc}
           /\ pc' \in [Procs -> Labels]
           /\ req' \in [Procs -> Request]
           /\ st' \in [Procs -> Locals]
           /\ SnapRead'
<1>1. st' = [st EXCEPT ![p] = Blank] /\ st' \in [Procs -> Locals]
  BY StartType DEF Leave, TypeInv, TypeOK
<1>2. pc' = [pc EXCEPT ![p] = "idle"] /\ pc' \in [Procs -> Labels]
  BY DEF Leave, Goto, TypeInv, TypeOK, Labels
<1>3. req' \in [Procs -> Request]
  BY StartType DEF Leave, TypeInv, TypeOK
<1>4. SnapRead'
  BY <1>1, <1>2 DEF TypeInv, TypeOK, SnapRead
<1>5. QED
  BY <1>1, <1>2, <1>3, <1>4 DEF Leave

\* So does a step of p that moves it to a label l with locals s, when s has
\* its type and holds a configuration wherever l asks for one.
LEMMA MoveType ==
    ASSUME TypeInv, NEW p \in Procs, NEW l \in Labels, NEW s \in Locals,
           pc' = [pc EXCEPT ![p] = l], st' = [st EXCEPT ![p] = s],
           l \in {"idle", "lock", "payload", "eggprobe", "get"} \/ s.snap \in Config
    PROVE  /\ pc' \in [Procs -> Labels]
           /\ st' \in [Procs -> Locals]
           /\ SnapRead'
<1>1. pc' \in [Procs -> Labels] /\ st' \in [Procs -> Locals]
  BY DEF TypeInv, TypeOK
<1>2. SnapRead'
  BY DEF TypeInv, TypeOK, SnapRead
<1>3. QED
  BY <1>1, <1>2

\* And one that keeps its locals.
LEMMA GoType ==
    ASSUME TypeInv, NEW p \in Procs, NEW l \in Labels, Goto(p, l), st' = st,
           \/ l \in {"idle", "lock", "payload", "eggprobe", "get"}
           \/ pc[p] \notin {"idle", "lock", "payload", "eggprobe", "get"}
    PROVE  /\ pc' \in [Procs -> Labels]
           /\ st' \in [Procs -> Locals]
           /\ SnapRead'
<1>1. pc' = [pc EXCEPT ![p] = l] /\ pc' \in [Procs -> Labels]
  BY DEF TypeInv, TypeOK, Goto
<1>2. st' \in [Procs -> Locals]
  BY DEF TypeInv, TypeOK
<1>3. SnapRead'
  BY <1>1 DEF TypeInv, TypeOK, SnapRead
<1>4. QED
  BY <1>1, <1>2, <1>3

\* Each step of a process keeps the types: the three reads and the load.
LEMMA ReadStepsType ==
    ASSUME TypeInv, NEW p \in Procs,
           Arrive(p) \/ Lock(p) \/ GetChannel(p) \/ GetFails(p) \/ LoadBase(p)
    PROVE  TypeInv'
<1> USE DEF TypeInv
<1>1. CASE Arrive(p)
  <2>1. PICK k \in Kinds : \E r \in Ask(p, k) : req' = [req EXCEPT ![p] = r]
    BY <1>1 DEF Arrive
  <2>2. Ask(p, k) \subseteq Request
    <3>1. k \in AllKinds
      BY PanelAssumption
    <3>2. [NoRequest EXCEPT !.kind = k] \in Request
      BY <3>1, StartType DEF Request
    <3>3. ASSUME NEW d \in Drafts
          PROVE  [[NoRequest EXCEPT !.kind = k] EXCEPT !.fp = view[p], !.ops = d] \in Request
      <4>1. view[p] \in Config \cup {NoConfig} /\ d \in SUBSET Op
        BY <3>3, PanelAssumption DEF TypeOK
      <4>2. QED
        BY <3>2, <4>1 DEF Request
    <3>4. ASSUME NEW x \in SettingsChoices
          PROVE  [[NoRequest EXCEPT !.kind = k] EXCEPT !.rules = x] \in Request
      <4>1. x \in Settings
        BY PanelAssumption
      <4>2. QED
        BY <3>2, <4>1 DEF Request
    <3>5. ASSUME NEW i \in DOMAIN snapshots
          PROVE  [[NoRequest EXCEPT !.kind = k] EXCEPT !.payload = snapshots[i]] \in Request
      <4>1. snapshots[i] \in Config
        BY DEF TypeOK
      <4>2. QED
        BY <3>2, <4>1 DEF Request
    <3>6. ASSUME NEW x \in Sites
          PROVE  [[NoRequest EXCEPT !.kind = k] EXCEPT !.site = x] \in Request
      BY <3>2 DEF Request
    <3>7. QED
      BY <3>2, <3>3, <3>4, <3>5, <3>6 DEF Ask
  <2>3. req' \in [Procs -> Request]
    BY <2>1, <2>2 DEF TypeOK
  <2>4. "lock" \in Labels /\ Goto(p, "lock") /\ st' = st
    BY <1>1 DEF Arrive, Labels
  <2>5. pc' \in [Procs -> Labels] /\ st' \in [Procs -> Locals] /\ SnapRead'
    BY <2>4, GoType
  <2>6. QED
    BY <1>1, <2>3, <2>5 DEF Arrive, TypeOK, store
<1>2. CASE Lock(p)
  <2>1. PICK l \in {"payload", "eggprobe", "get"} : Goto(p, l)
    BY <1>2 DEF Lock
  <2>2. l \in Labels /\ st' = st
    BY <1>2 DEF Lock, Labels
  <2>3. pc' \in [Procs -> Labels] /\ st' \in [Procs -> Locals] /\ SnapRead'
    BY <2>1, <2>2, GoType
  <2>4. QED
    BY <1>2, <2>3 DEF Lock, TypeOK, store
<1>3. CASE GetChannel(p)
  <2> DEFINE s    == st[p]
             left == {c \in Channels : s.snap[c] = Unread}
             c    == First(left)
             snap == [s.snap EXCEPT ![c] = cpa[c]]
             t    == [s EXCEPT !.snap = snap]
  <2>1. s \in Locals /\ cpa \in Config
    BY DEF TypeOK
  <2>2. snap \in [Channels -> Listing \cup {Unread}]
    BY <2>1 DEF Locals, Config
  <2>3. t \in Locals
    BY <2>1, <2>2 DEF Locals
  <2>4. st' = [st EXCEPT ![p] = t]
    BY <1>3 DEF GetChannel
  <2>5. PICK l \in {"get", "backup", "base"} :
              pc' = [pc EXCEPT ![p] = l] /\ (l # "get" => left = {c})
    BY <1>3 DEF GetChannel, Goto
  <2>6. l # "get" => snap \in Config
    <3>1. SUFFICES ASSUME left = {c} PROVE snap \in Config
      BY <2>5
    <3>2. c \in Channels /\ cpa[c] \in Listing
      BY <2>1, <3>1 DEF Config
    <3>3. \A d \in Channels : d # c => s.snap[d] \in Listing
      BY <2>1, <3>1 DEF Locals
    <3>4. QED
      BY <2>1, <3>2, <3>3 DEF Config, Locals
  <2>7. l \in Labels
    BY DEF Labels
  <2>8. pc' \in [Procs -> Labels] /\ st' \in [Procs -> Locals] /\ SnapRead'
    <3>1. t.snap = snap
      BY <2>1 DEF Locals
    <3>2. pc' = [pc EXCEPT ![p] = l] /\ (l # "get" => t.snap \in Config)
      BY <2>5, <2>6, <3>1
    <3> HIDE DEF t, snap, c, left
    <3>3. QED
      BY <2>3, <2>4, <2>7, <3>2, MoveType
  <2>9. QED
    BY <1>3, <2>8 DEF GetChannel, TypeOK, store
<1>4. CASE GetFails(p)
  BY <1>4, LeaveType DEF GetFails, TypeOK, store
<1>5. CASE LoadBase(p)
  <2> DEFINE marks == IF req[p].kind = "settings"
                      THEN [StoredMarks EXCEPT !.rules = req[p].rules]
                      ELSE StoredMarks
             cat   == Prune(Reconcile(catalog, st[p].snap), marks)
             t     == [st[p] EXCEPT !.cat = cat, !.marks = marks, !.left = req[p].ops]
  <2>1. st[p] \in Locals /\ req[p] \in Request /\ st[p].snap \in Config
    BY <1>5 DEF TypeOK, LoadBase, SnapRead
  <2>2. StoredMarks \in Marks
    BY DEF TypeOK, StoredMarks, Marks
  <2>3. marks \in Marks
    <3>1. req[p].rules \in Settings
      BY <2>1 DEF Request
    <3>2. QED
      BY <2>2, <3>1 DEF Marks
  <2>4. cat \in Catalog
    BY <2>1, ReconcileType, PruneType DEF TypeOK
  <2>5. req[p].ops \in SUBSET Op
    BY <2>1 DEF Request
  <2>6. t \in Locals /\ t.snap \in Config
    BY <2>1, <2>3, <2>4, <2>5 DEF Locals
  <2>7. st' = [st EXCEPT ![p] = t] /\ catalog' = cat
    BY <1>5 DEF LoadBase
  <2>8. AfterLoad(p) \in Labels /\ pc' = [pc EXCEPT ![p] = AfterLoad(p)]
    BY <1>5 DEF LoadBase, AfterLoad, Labels, Goto
  <2>9. pc' \in [Procs -> Labels] /\ st' \in [Procs -> Locals] /\ SnapRead'
    BY <2>6, <2>7, <2>8, MoveType
  <2>10. QED
    BY <1>5, <2>4, <2>7, <2>9 DEF LoadBase, TypeOK
<1>6. QED
  BY <1>1, <1>2, <1>3, <1>4, <1>5

\* A load starts from locals of their type.
LEMMA StartReadType ==
    ASSUME TypeInv, NEW p \in Procs, NEW s \in Locals, NEW phase \in Phases,
           StartRead(p, s, phase), Goto(p, "get")
    PROVE  /\ pc' \in [Procs -> Labels]
           /\ st' \in [Procs -> Locals]
           /\ SnapRead'
<1> DEFINE t == [s EXCEPT !.phase = phase, !.snap = Blank.snap, !.cat = Blank.cat,
                          !.marks = Blank.marks, !.out = Blank.out, !.todo = {}]
<1>1. Blank \in Locals
  BY StartType
<1>2. t \in Locals
  BY <1>1 DEF Locals
<1>3. st' = [st EXCEPT ![p] = t] /\ pc' = [pc EXCEPT ![p] = "get"]
  BY DEF StartRead, Goto
<1>4. "get" \in Labels
  BY DEF Labels
<1> HIDE DEF t
<1>5. QED
  BY <1>2, <1>3, <1>4, MoveType

\* The steps of saveLocked and the answer.
LEMMA SaveStepsType ==
    ASSUME TypeInv, NEW p \in Procs,
           \/ Respond(p) \/ CheckFingerprint(p) \/ Conflict(p) \/ ApplyOp(p)
           \/ WriteCatalog(p) \/ SetExclusions(p) \/ SetDisabled(p) \/ SetKeeps(p)
    PROVE  TypeInv'
<1> USE DEF TypeInv
<1>0. st[p] \in Locals /\ req[p] \in Request
  BY DEF TypeOK
<1>1. CASE Respond(p)
  <2>1. st[p].snap \in Config
    BY <1>1 DEF Respond, SnapRead
  <2>2. view' \in [Procs -> Config \cup {NoConfig}]
    BY <1>1, <2>1 DEF Respond, TypeOK
  <2>3. QED
    BY <1>1, <2>2, LeaveType DEF Respond, TypeOK, store
<1>2. CASE CheckFingerprint(p)
  <2>1. PICK l \in {"ops", "conflict"} : Goto(p, l)
    BY <1>2 DEF CheckFingerprint
  <2>2. l \in Labels /\ st' = st /\ pc[p] = "check"
    BY <1>2 DEF CheckFingerprint, Labels
  <2>3. pc' \in [Procs -> Labels] /\ st' \in [Procs -> Locals] /\ SnapRead'
    BY <2>1, <2>2, GoType
  <2>4. QED
    BY <1>2, <2>3 DEF CheckFingerprint, TypeOK, store
<1>3. CASE Conflict(p)
  BY <1>3, LeaveType DEF Conflict, TypeOK, store
<1>4. CASE ApplyOp(p)
  <2>1. PICK op \in st[p].left :
            st' = [st EXCEPT ![p].cat   = OpOnCatalog(@, op),
                             ![p].marks = OpOnMarks(st[p].cat, @, op),
                             ![p].left  = @ \ {op}]
    BY <1>4 DEF ApplyOp
  <2> DEFINE cat   == OpOnCatalog(st[p].cat, op)
             marks == OpOnMarks(st[p].cat, st[p].marks, op)
             t     == [st[p] EXCEPT !.cat = cat, !.marks = marks, !.left = @ \ {op}]
  <2>2. op \in Op /\ st[p].cat \in Catalog /\ st[p].marks \in Marks
    BY <1>0 DEF Locals
  <2>3. cat \in Catalog /\ marks \in Marks
    BY <2>2, OpType
  <2>4. t \in Locals
    BY <1>0, <2>3 DEF Locals
  <2>5. st' = [st EXCEPT ![p] = t] /\ t.snap = st[p].snap
    BY <1>0, <2>1 DEF TypeOK, Locals
  <2> HIDE DEF t
  <2>6. st' \in [Procs -> Locals] /\ SnapRead'
    BY <1>4, <2>4, <2>5 DEF ApplyOp, SnapRead, TypeOK
  <2>7. QED
    BY <1>4, <2>6 DEF ApplyOp, TypeOK, store
<1>5. CASE WriteCatalog(p)
  <2> DEFINE s    == st[p]
             cat  == Prune(MarkWithheld(s.cat, s.marks), s.marks)
             out  == BuildWrite(s.cat, s.marks, s.snap)
             todo == Differ(out, s.snap)
             t    == [s EXCEPT !.cat = cat, !.out = out, !.todo = todo]
             l    == IF todo = {} THEN "exclusions" ELSE "backup"
  <2>1. s.cat \in Catalog /\ s.marks \in Marks /\ s.snap \in Config
    BY <1>0, <1>5 DEF WriteCatalog, SnapRead, Locals
  <2>2. cat \in Catalog
    BY <2>1, MarkWithheldType, PruneType
  <2>3. out \in Config
    BY <2>1, WriteType, CatalogAssumption
  <2>4. todo \in SUBSET Channels
    BY DEF Differ
  <2>5. t \in Locals /\ t.snap = s.snap
    BY <1>0, <2>2, <2>3, <2>4 DEF Locals
  <2>6. catalog' = cat /\ st' = [st EXCEPT ![p] = t] /\ pc' = [pc EXCEPT ![p] = l]
    BY <1>5 DEF WriteCatalog, Goto
  <2>7. l \in Labels
    BY DEF Labels
  <2> HIDE DEF t, cat, l
  <2>8. pc' \in [Procs -> Labels] /\ st' \in [Procs -> Locals] /\ SnapRead'
    BY <2>1, <2>5, <2>6, <2>7, MoveType
  <2>9. QED
    BY <1>5, <2>2, <2>6, <2>8 DEF WriteCatalog, TypeOK
<1>6. CASE SetExclusions(p)
  <2>1. exclusions' \in SUBSET Refs
    BY <1>0, <1>6 DEF SetExclusions, Locals, Marks
  <2>2. "disabled" \in Labels /\ Goto(p, "disabled") /\ st' = st /\ pc[p] = "exclusions"
    BY <1>6 DEF SetExclusions, Labels
  <2>3. pc' \in [Procs -> Labels] /\ st' \in [Procs -> Locals] /\ SnapRead'
    BY <2>2, GoType
  <2>4. QED
    BY <1>6, <2>1, <2>3 DEF SetExclusions, TypeOK
<1>7. CASE SetDisabled(p)
  <2>1. disabled' \in SUBSET Refs
    BY <1>0, <1>7 DEF SetDisabled, Locals, Marks
  <2>2. "keeps" \in Labels /\ Goto(p, "keeps") /\ st' = st /\ pc[p] = "disabled"
    BY <1>7 DEF SetDisabled, Labels
  <2>3. pc' \in [Procs -> Labels] /\ st' \in [Procs -> Locals] /\ SnapRead'
    BY <2>2, GoType
  <2>4. QED
    BY <1>7, <2>1, <2>3 DEF SetDisabled, TypeOK
<1>8. CASE SetKeeps(p)
  <2>1. keeps' \in SUBSET Refs
    BY <1>0, <1>8 DEF SetKeeps, Locals, Marks
  <2>2. "final" \in Phases
    BY DEF Phases
  <2>3. pc' \in [Procs -> Labels] /\ st' \in [Procs -> Locals] /\ SnapRead'
    BY <1>0, <1>8, <2>2, StartReadType DEF SetKeeps
  <2>4. QED
    BY <1>8, <2>1, <2>3 DEF SetKeeps, TypeOK
<1>9. QED
  BY <1>1, <1>2, <1>3, <1>4, <1>5, <1>6, <1>7, <1>8

\* The snapshot, retention and the PUTs.
LEMMA WriteStepsType ==
    ASSUME TypeInv, NEW p \in Procs,
           \/ AddSnapshot(p) \/ PruneSnapshots(p) \/ PutChannel(p) \/ PutsDone(p)
           \/ PutFails(p)
    PROVE  TypeInv'
<1> USE DEF TypeInv
<1>0. st[p] \in Locals /\ req[p] \in Request
  BY DEF TypeOK
<1>1. CASE AddSnapshot(p)
  <2>1. st[p].snap \in Config /\ snapshots \in Seq(Config)
    BY <1>1 DEF AddSnapshot, SnapRead, TypeOK
  <2>2. snapshots' \in Seq(Config)
    BY <1>1, <2>1 DEF AddSnapshot
  <2>3. "trim" \in Labels /\ Goto(p, "trim") /\ st' = st /\ pc[p] = "backup"
    BY <1>1 DEF AddSnapshot, Labels
  <2>4. pc' \in [Procs -> Labels] /\ st' \in [Procs -> Locals] /\ SnapRead'
    BY <2>3, GoType
  <2>5. QED
    BY <1>1, <2>2, <2>4 DEF AddSnapshot, TypeOK
<1>2. CASE PruneSnapshots(p)
  <2> DEFINE n == Len(snapshots)
  <2>1. snapshots \in Seq(Config) /\ n \in Nat /\ Retain \in Nat \ {0}
    BY PanelAssumption DEF TypeOK
  <2>2. n > Retain => SubSeq(snapshots, n - Retain + 1, n) \in Seq(Config)
    <3>1. SUFFICES ASSUME n > Retain
                   PROVE  SubSeq(snapshots, n - Retain + 1, n) \in Seq(Config)
      OBVIOUS
    <3> DEFINE m == n - Retain + 1
    <3>2. m \in Int /\ n \in Int
      BY <2>1
    <3>3. \A i \in m..n : snapshots[i] \in Config
      BY <2>1, <3>1
    <3> HIDE DEF m, n
    <3>4. SubSeq(snapshots, m, n) \in Seq(Config)
      BY <3>2, <3>3, SubSeqProperties
    <3>5. QED
      BY <3>4 DEF m
  <2>3. snapshots' \in Seq(Config)
    BY <1>2, <2>1, <2>2 DEF PruneSnapshots
  <2>4. "put" \in Labels /\ Goto(p, "put") /\ st' = st /\ pc[p] = "trim"
    BY <1>2 DEF PruneSnapshots, Labels
  <2>5. pc' \in [Procs -> Labels] /\ st' \in [Procs -> Locals] /\ SnapRead'
    BY <2>4, GoType
  <2>6. QED
    BY <1>2, <2>3, <2>5 DEF PruneSnapshots, TypeOK
<1>3. CASE PutChannel(p)
  <2> DEFINE c == First(st[p].todo)
             t == [st[p] EXCEPT !.todo = @ \ {c}]
  <2>1. c \in Channels
    BY <1>0, <1>3, FirstIsMember DEF PutChannel, Locals
  <2>2. cpa' \in Config
    <3>1. st[p].out[c] \in Listing /\ cpa \in Config
      BY <1>0, <2>1 DEF Locals, Config, TypeOK
    <3>2. cpa' = [cpa EXCEPT ![c] = st[p].out[c]]
      BY <1>3 DEF PutChannel
    <3> HIDE DEF c
    <3>3. QED
      BY <2>1, <3>1, <3>2 DEF Config
  <2>3. t \in Locals /\ t.snap = st[p].snap
    BY <1>0 DEF Locals
  <2>4. st' = [st EXCEPT ![p] = t]
    BY <1>3 DEF PutChannel
  <2> HIDE DEF t
  <2>5. st' \in [Procs -> Locals] /\ SnapRead'
    BY <1>3, <2>3, <2>4 DEF PutChannel, SnapRead, TypeOK
  <2>6. QED
    BY <1>3, <2>2, <2>5 DEF PutChannel, TypeOK, store
<1>4. CASE PutsDone(p)
  <2>1. CASE st' = st
    <3>1. PICK l \in {"exclusions", "get"} : Goto(p, l)
      BY <1>4 DEF PutsDone, AfterPut
    <3>2. l \in Labels /\ pc[p] = "put"
      BY <1>4 DEF PutsDone, Labels
    <3>3. pc' \in [Procs -> Labels] /\ st' \in [Procs -> Locals] /\ SnapRead'
      BY <2>1, <3>1, <3>2, GoType
    <3>4. QED
      BY <1>4, <3>3 DEF PutsDone, TypeOK, store
  <2>2. CASE st' # st
    <3>1. PICK phase \in {"reload", "final"} : StartRead(p, st[p], phase)
      BY <1>4, <2>2 DEF PutsDone
    <3>2. Goto(p, "get")
      BY <1>4, <2>2 DEF PutsDone, AfterPut
    <3>3. phase \in Phases
      BY DEF Phases
    <3>4. pc' \in [Procs -> Labels] /\ st' \in [Procs -> Locals] /\ SnapRead'
      BY <1>0, <3>1, <3>2, <3>3, StartReadType
    <3>5. QED
      BY <1>4, <3>4 DEF PutsDone, TypeOK, store
  <2>3. QED
    BY <2>1, <2>2
<1>5. CASE PutFails(p)
  <2> DEFINE c == First(st[p].todo)
  <2>1. c \in Channels
    BY <1>0, <1>5, FirstIsMember DEF PutFails, Locals
  <2>2. cpa' \in Config
    <3>1. st[p].out[c] \in Listing /\ cpa \in Config
      BY <1>0, <2>1 DEF Locals, Config, TypeOK
    <3>2. cpa' \in {cpa, [cpa EXCEPT ![c] = st[p].out[c]]}
      BY <1>5 DEF PutFails
    <3> HIDE DEF c
    <3>3. QED
      BY <2>1, <3>1, <3>2 DEF Config
  <2>3. QED
    BY <1>5, <2>2, LeaveType DEF PutFails, TypeOK, store
<1>6. QED
  BY <1>1, <1>2, <1>3, <1>4, <1>5

\* Probing and folding the answers in.
LEMMA ProbeStepsType ==
    ASSUME TypeInv, NEW p \in Procs, Probe(p) \/ ProbeFails(p) \/ Merge(p)
    PROVE  TypeInv'
<1> USE DEF TypeInv
<1>0. st[p] \in Locals /\ req[p] \in Request
  BY DEF TypeOK
<1>1. CASE Probe(p)
  <2> DEFINE s     == st[p]
             asked == Asked(p)
             sweep == req[p].kind = "refresh" /\ Swept(s.snap) # s.snap
  <2>1. PICK answer \in [asked -> ProbeChoices \cup {{}}] :
          /\ st' = [st EXCEPT
               ![p].found = [x \in Sites |-> IF x \in asked THEN answer[x] ELSE {}],
               ![p].out   = IF sweep THEN Swept(s.snap) ELSE @,
               ![p].todo  = IF sweep THEN Differ(Swept(s.snap), s.snap) ELSE @]
          /\ Goto(p, IF sweep THEN "backup" ELSE "merge")
    BY <1>1 DEF Probe
  <2> DEFINE found == [x \in Sites |-> IF x \in asked THEN answer[x] ELSE {}]
             out   == IF sweep THEN Swept(s.snap) ELSE s.out
             todo  == IF sweep THEN Differ(Swept(s.snap), s.snap) ELSE s.todo
             t     == [s EXCEPT !.found = found, !.out = out, !.todo = todo]
             l     == IF sweep THEN "backup" ELSE "merge"
  <2>2. s.snap \in Config
    BY <1>1 DEF Probe, SnapRead
  <2>3. found \in [Sites -> SUBSET Upstreams]
    <3>1. \A x \in asked : answer[x] \in ProbeChoices \cup {{}}
      OBVIOUS
    <3>2. \A x \in asked : answer[x] \in SUBSET Upstreams
      BY <3>1, PanelAssumption
    <3> HIDE DEF asked
    <3>3. QED
      BY <3>2
  <2>4. out \in Config /\ todo \in SUBSET Channels
    <3>1. Swept(s.snap) \in Config
      BY <2>2 DEF Swept, Config, Listing
    <3>2. QED
      BY <1>0, <3>1 DEF Locals, Differ
  <2>5. st' = [st EXCEPT ![p] = t] /\ pc' = [pc EXCEPT ![p] = l] /\ l \in Labels
    BY <2>1 DEF Goto, Labels
  <2> HIDE DEF found, out, todo, l
  <2>6. t \in Locals /\ t.snap = s.snap
    BY <1>0, <2>3, <2>4 DEF Locals
  <2> HIDE DEF t
  <2>7. pc' \in [Procs -> Labels] /\ st' \in [Procs -> Locals] /\ SnapRead'
    BY <2>2, <2>5, <2>6, MoveType
  <2>8. QED
    BY <1>1, <2>7 DEF Probe, TypeOK, store
<1>2. CASE ProbeFails(p)
  BY <1>2, LeaveType DEF ProbeFails, TypeOK, store
<1>3. CASE Merge(p)
  <2> DEFINE s      == st[p]
             merged == MergeDiscovered(s.cat, s.snap, s.found)
             cat    == Prune(merged, s.marks)
  <2>1. s.cat \in Catalog /\ s.snap \in Config
    BY <1>0, <1>3 DEF Merge, SnapRead, Locals
  <2>2. merged \in Catalog
    BY <2>1, MergeType
  <2>3. cat \in Catalog
    BY <2>2, PruneType
  <2>4. catalog' = cat
    BY <1>3 DEF Merge
  <2>5. CASE p = Scheduler
    <3> DEFINE t == [s EXCEPT !.found = Blank.found]
    <3>1. req' = [req EXCEPT ![p].fp = s.snap, ![p].ops = Suggestions(merged)]
      BY <1>3, <2>5 DEF Merge
    <3>2. Suggestions(merged) \in SUBSET Op
      BY <2>2, SuggestionsType
    <3>3. req' \in [Procs -> Request]
      <4>1. [req[p] EXCEPT !.fp = s.snap, !.ops = Suggestions(merged)] \in Request
        BY <1>0, <2>1, <3>2 DEF Request
      <4>2. req' = [req EXCEPT ![p] = [req[p] EXCEPT !.fp = s.snap,
                                                     !.ops = Suggestions(merged)]]
        BY <3>1
      <4>3. QED
        BY <4>1, <4>2 DEF TypeOK
    <3>4. t \in Locals /\ "save" \in Phases
      BY <1>0, StartType DEF Locals, Phases
    <3>5. StartRead(p, t, "save") /\ Goto(p, "get")
      BY <1>3, <2>5 DEF Merge
    <3> HIDE DEF t
    <3>6. pc' \in [Procs -> Labels] /\ st' \in [Procs -> Locals] /\ SnapRead'
      BY <3>4, <3>5, StartReadType
    <3> HIDE DEF cat
    <3>7. QED
      BY <1>3, <2>3, <2>4, <3>3, <3>6 DEF Merge, TypeOK
  <2>6. CASE p # Scheduler
    <3> DEFINE t == [s EXCEPT !.cat = cat]
    <3>1. st' = [st EXCEPT ![p] = t] /\ pc' = [pc EXCEPT ![p] = "respond"] /\ req' = req
      BY <1>3, <2>6 DEF Merge, Goto
    <3>2. t \in Locals /\ t.snap = s.snap /\ "respond" \in Labels
      BY <1>0, <2>3 DEF Locals, Labels
    <3> HIDE DEF t, cat
    <3>3. pc' \in [Procs -> Labels] /\ st' \in [Procs -> Locals] /\ SnapRead'
      BY <2>1, <3>1, <3>2, MoveType
    <3>4. QED
      BY <1>3, <2>3, <2>4, <3>1, <3>3 DEF Merge, TypeOK
  <2>7. QED
    BY <2>5, <2>6
<1>4. QED
  BY <1>1, <1>2, <1>3

\* The keys of the settings table.
LEMMA SettingsStepsType ==
    ASSUME TypeInv, NEW p \in Procs,
           SetWhitelist(p) \/ SetVersionFilter(p) \/ SetRouteByProtocol(p)
    PROVE  TypeInv'
<1> USE DEF TypeInv
<1>1. req[p].rules \in Settings /\ settings \in Settings
  BY DEF TypeOK, Request
<1>2. settings' \in Settings
  BY <1>1 DEF SetWhitelist, SetVersionFilter, SetRouteByProtocol, Settings
<1>3. PICK l \in {"version", "route", "respond"} : Goto(p, l)
  BY DEF SetWhitelist, SetVersionFilter, SetRouteByProtocol
<1>4. l \in Labels /\ st' = st /\ pc[p] \in {"whitelist", "version", "route"}
  BY DEF SetWhitelist, SetVersionFilter, SetRouteByProtocol, Labels
<1>5. pc' \in [Procs -> Labels] /\ st' \in [Procs -> Locals] /\ SnapRead'
  BY <1>3, <1>4, GoType
<1>6. QED
  BY <1>2, <1>5 DEF SetWhitelist, SetVersionFilter, SetRouteByProtocol, TypeOK

\* Rollback, deletion and egg.
LEMMA SiteStepsType ==
    ASSUME TypeInv, NEW p \in Procs, ReadSnapshot(p) \/ ProbeEgg(p) \/ Plan(p)
    PROVE  TypeInv'
<1> USE DEF TypeInv
<1>0. st[p] \in Locals /\ req[p] \in Request
  BY DEF TypeOK
<1>1. CASE Leave(p)
  BY <1>1, LeaveType DEF ReadSnapshot, ProbeEgg, Plan, TypeOK, store
<1>2. CASE ReadSnapshot(p) /\ ~Leave(p)
  <2> DEFINE t == [st[p] EXCEPT !.out = req[p].payload, !.todo = Channels]
  <2>1. req[p].payload \in Config
    <3>1. PICK i \in DOMAIN snapshots : snapshots[i] = req[p].payload
      BY <1>2 DEF ReadSnapshot, InRange
    <3>2. QED
      BY <3>1 DEF TypeOK
  <2>2. t \in Locals
    BY <1>0, <2>1 DEF Locals
  <2>3. st' = [st EXCEPT ![p] = t] /\ pc' = [pc EXCEPT ![p] = "get"] /\ "get" \in Labels
    BY <1>2 DEF ReadSnapshot, Goto, Labels
  <2> HIDE DEF t
  <2>4. pc' \in [Procs -> Labels] /\ st' \in [Procs -> Locals] /\ SnapRead'
    BY <2>2, <2>3, MoveType
  <2>5. QED
    BY <1>2, <2>4 DEF ReadSnapshot, TypeOK, store
<1>3. CASE ProbeEgg(p) /\ ~Leave(p)
  <2>1. PICK names \in ProbeChoices : st' = [st EXCEPT ![p].found[req[p].site] = names]
    BY <1>3 DEF ProbeEgg
  <2> DEFINE found == [st[p].found EXCEPT ![req[p].site] = names]
             t     == [st[p] EXCEPT !.found = found]
  <2>2. found \in [Sites -> SUBSET Upstreams]
    BY <1>0, PanelAssumption DEF Locals
  <2>3. t \in Locals
    BY <1>0, <2>2 DEF Locals
  <2>4. st' = [st EXCEPT ![p] = t]
    BY <2>1
  <2>5. pc' = [pc EXCEPT ![p] = "get"] /\ "get" \in Labels
    BY <1>3 DEF ProbeEgg, Goto, Labels
  <2> HIDE DEF t
  <2>6. pc' \in [Procs -> Labels] /\ st' \in [Procs -> Locals] /\ SnapRead'
    BY <2>3, <2>4, <2>5, MoveType
  <2>7. QED
    BY <1>3, <2>6 DEF ProbeEgg, TypeOK, store
<1>4. CASE Plan(p) /\ ~Leave(p)
  <2> DEFINE s    == st[p]
             site == req[p].site
             out  == IF req[p].kind = "delete" THEN WithoutSite(s.snap, site)
                     ELSE WithEgg(s.snap, site, s.found[site])
             t    == [s EXCEPT !.out = out, !.todo = Differ(out, s.snap)]
  <2>1. s.snap \in Config /\ site \in Sites
    BY <1>0, <1>4 DEF Plan, SnapRead, Request
  <2>2. out \in Config
    <3>1. WithoutSite(s.snap, site) \in Config
      BY <2>1 DEF WithoutSite, Config, Listing
    <3>2. WithEgg(s.snap, site, s.found[site]) \in Config
      <4>1. [u \in Upstreams |-> IF u \in s.found[site] THEN NoAlias ELSE Absent] \in Provider
        BY DEF Provider, Slot, Alias
      <4>2. QED
        BY <2>1, <4>1 DEF WithEgg, Config, Listing
    <3>3. QED
      BY <3>1, <3>2
  <2>3. Differ(out, s.snap) \in SUBSET Channels
    BY DEF Differ
  <2>4. st' = [st EXCEPT ![p] = t]
    BY <1>4 DEF Plan
  <2>5. pc' = [pc EXCEPT ![p] = "backup"] /\ "backup" \in Labels
    BY <1>4 DEF Plan, Goto, Labels
  <2> HIDE DEF out
  <2>6. t \in Locals /\ t.snap = s.snap
    BY <1>0, <2>2, <2>3 DEF Locals
  <2> HIDE DEF t
  <2>7. pc' \in [Procs -> Labels] /\ st' \in [Procs -> Locals] /\ SnapRead'
    BY <2>1, <2>4, <2>5, <2>6, MoveType
  <2>8. QED
    BY <1>4, <2>7 DEF Plan, TypeOK, store
<1>5. QED
  BY <1>1, <1>2, <1>3, <1>4

\* Edits from outside and a crash.
LEMMA EnvironmentType ==
    ASSUME TypeInv, ExternalEdit \/ Crash
    PROVE  TypeInv'
<1> USE DEF TypeInv
<1>1. CASE ExternalEdit
  <2>1. cpa \in Config
    BY DEF TypeOK
  <2>2. ASSUME NEW c \in Channels, NEW s \in Sites, NEW u \in Upstreams,
               NEW x \in EditSlots, EditSlot(c, s, u, x)
        PROVE  cpa' \in Config
    <3>1. x \in Slot /\ cpa[c][s] \in Provider
      BY <2>1, <2>2, PanelAssumption DEF EditSlot, Config, Listing
    <3>2. [cpa[c][s] EXCEPT ![u] = x] \in Provider
      BY <3>1 DEF Provider
    <3>3. [cpa[c] EXCEPT ![s] = [cpa[c][s] EXCEPT ![u] = x]] \in Listing
      BY <2>1, <3>2 DEF Config, Listing
    <3>4. cpa' = [cpa EXCEPT ![c] = [cpa[c] EXCEPT ![s] = [cpa[c][s] EXCEPT ![u] = x]]]
      BY <2>2 DEF EditSlot
    <3>5. QED
      BY <2>1, <3>3, <3>4 DEF Config
  <2>3. ASSUME NEW s \in EditSites, EditSite(s)
        PROVE  cpa' \in Config
    <3>1. s \in Sites
      BY PanelAssumption
    <3>2. [u \in Upstreams |-> Absent] \in Provider
      BY DEF Provider, Slot
    <3>3. [cpa[1] EXCEPT ![s] = [u \in Upstreams |-> Absent]] \in Listing
      BY <2>1, <3>2 DEF Config, Listing
    <3>4. [cpa EXCEPT ![1][s] = [u \in Upstreams |-> Absent]] \in Config
      BY <2>1, <3>3 DEF Config
    <3>5. WithoutSite(cpa, s) \in Config
      BY <2>1 DEF WithoutSite, Config, Listing
    <3>6. QED
      BY <2>3, <3>4, <3>5 DEF EditSite
  <2>4. cpa' \in Config
    BY <1>1, <2>2, <2>3 DEF ExternalEdit
  <2>5. SnapRead'
    BY <1>1 DEF ExternalEdit, SnapRead
  <2>6. QED
    BY <1>1, <2>4, <2>5 DEF ExternalEdit, TypeOK, store
<1>2. CASE Crash
  <2>1. pc' \in [Procs -> Labels] /\ req' \in [Procs -> Request] /\ st' \in [Procs -> Locals]
    BY <1>2, StartType DEF Crash, Labels
  <2>2. SnapRead'
    BY <1>2 DEF Crash, SnapRead
  <2>3. QED
    BY <1>2, <2>1, <2>2 DEF Crash, TypeOK, store
<1>3. QED
  BY <1>1, <1>2

\* No step loses a type.
LEMMA NextType ==
    ASSUME TypeInv, [Next]_vars
    PROVE  TypeInv'
<1>1. ASSUME NEW p \in Procs, Arrive(p) \/ Lock(p) \/ Step(p)
      PROVE  TypeInv'
  BY <1>1, ReadStepsType, SaveStepsType, WriteStepsType, ProbeStepsType,
     SettingsStepsType, SiteStepsType DEF Step
<1>2. CASE ExternalEdit \/ Crash
  BY <1>2, EnvironmentType
<1>3. CASE UNCHANGED vars
  BY <1>3 DEF vars, TypeInv, TypeOK, SnapRead
<1>4. QED
  BY <1>1, <1>2, <1>3 DEF Next

\* Every variable keeps its type in every behaviour, and no handler passes
\* on a configuration it has not read whole.
THEOREM TypeCorrect == Spec => [](TypeOK /\ SnapRead)
<1>1. Init => TypeInv
  BY InitType
<1>2. TypeInv /\ [Next]_vars => TypeInv'
  BY NextType
<1>3. QED
  BY <1>1, <1>2, PTL DEF Spec, TypeInv

-----------------------------------------------------------------------------
Outside == {"idle", "lock"}
Before  == {"idle", "lock", "payload", "eggprobe"}
Marking == {"check", "ops", "exclusions", "disabled", "keeps"}
Writing == {"backup", "trim", "put"}

\* A handler past its Lock is the one that holds the mutex.
Exclusive == \A p \in Procs : pc[p] \notin Outside => mu = p

\* Which requests reach which steps.
Role(p) ==
    /\ pc[p] # "idle" => (req[p].kind = "auto" <=> p = Scheduler)
    /\ st[p].phase = "save" => p = Scheduler
    /\ pc[p] \in Marking => req[p].kind \in {"save", "auto"}
    /\ pc[p] = "plan" => req[p].kind \notin {"save", "auto"}

Roles == \A p \in Procs : Role(p)

Touched(p, r) == \E op \in req[p].ops : op.ref = r

\* The marks a process holds differ from the stored ones only where its
\* draft says so.
Agree(p, r) ==
    /\ r \in st[p].marks.excl <=> r \in exclusions
    /\ r \in st[p].marks.dis <=> r \in disabled
    /\ r \in st[p].marks.keep <=> r \in keeps

Intent(p) ==
    pc[p] \in Marking \cup Writing /\ req[p].kind \in {"save", "auto"} =>
        /\ st[p].left \subseteq req[p].ops
        /\ \A r \in Refs : Touched(p, r) \/ Agree(p, r)

IntentKept == \A p \in Procs : Intent(p)

IntentInv == TypeInv /\ Exclusive /\ Roles /\ IntentKept

\* What a process has read is what CPA still holds, up to the lists it has
\* itself sent, and the newest snapshot is what it read.
Current(p) ==
    /\ pc[p] \in Before => st[p].snap = Blank.snap
    /\ pc[p] = "get" => \A c \in Channels : st[p].snap[c] \in {Unread, cpa[c]}
    /\ pc[p] \in {"base", "check", "ops", "plan", "probe", "merge", "whitelist",
                  "version", "route", "respond", "backup", "trim"}
           => st[p].snap = cpa
    /\ pc[p] = "put" => \A c \in st[p].todo : st[p].snap[c] = cpa[c]
    /\ pc[p] \in {"trim", "put"} =>
           /\ Len(snapshots) > 0
           /\ snapshots[Len(snapshots)] = st[p].snap

Fresh == \A p \in Procs : Current(p)

FreshInv == TypeInv /\ Exclusive /\ Fresh

-----------------------------------------------------------------------------
\* One process moves at a time, and only the one that holds the mutex.

\* Steps of one process leave the others where they are.
LEMMA Locality ==
    ASSUME TypeInv, NEW p \in Procs, NEW q \in Procs, q # p,
           Arrive(p) \/ Lock(p) \/ Step(p)
    PROVE  pc'[q] = pc[q] /\ req'[q] = req[q] /\ st'[q] = st[q]
<1> USE DEF Goto, Leave, StartRead
<1>0. pc \in [Procs -> Labels] /\ req \in [Procs -> Request] /\ st \in [Procs -> Locals]
  BY DEF TypeInv, TypeOK
<1>1. CASE Arrive(p) \/ Lock(p)
  BY <1>0, <1>1 DEF Arrive, Lock
<1>2. CASE GetChannel(p) \/ GetFails(p) \/ LoadBase(p) \/ Respond(p)
  BY <1>0, <1>2 DEF GetChannel, GetFails, LoadBase, Respond
<1>3. CASE CheckFingerprint(p) \/ Conflict(p) \/ ApplyOp(p) \/ WriteCatalog(p)
  BY <1>0, <1>3 DEF CheckFingerprint, Conflict, ApplyOp, WriteCatalog
<1>4. CASE SetExclusions(p) \/ SetDisabled(p) \/ SetKeeps(p)
  BY <1>0, <1>4 DEF SetExclusions, SetDisabled, SetKeeps
<1>5. CASE \/ AddSnapshot(p) \/ PruneSnapshots(p) \/ PutChannel(p) \/ PutsDone(p)
           \/ PutFails(p)
  BY <1>0, <1>5 DEF AddSnapshot, PruneSnapshots, PutChannel, PutsDone, PutFails
<1>6. CASE Probe(p) \/ ProbeFails(p) \/ Merge(p)
  BY <1>0, <1>6 DEF Probe, ProbeFails, Merge
<1>7. CASE SetWhitelist(p) \/ SetVersionFilter(p) \/ SetRouteByProtocol(p)
  BY <1>0, <1>7 DEF SetWhitelist, SetVersionFilter, SetRouteByProtocol
<1>8. CASE ReadSnapshot(p) \/ ProbeEgg(p) \/ Plan(p)
  BY <1>0, <1>8 DEF ReadSnapshot, ProbeEgg, Plan
<1>9. QED
  BY <1>1, <1>2, <1>3, <1>4, <1>5, <1>6, <1>7, <1>8 DEF Step

\* A handler runs inside the mutex until it leaves.
LEMMA Inside ==
    ASSUME TypeInv, NEW p \in Procs, Step(p)
    PROVE  /\ pc[p] \notin Outside
           /\ \/ mu' = mu /\ pc'[p] \notin Outside
              \/ mu' = NoProc /\ pc'[p] = "idle"
<1> USE DEF Goto, Leave, Outside
<1>0. pc \in [Procs -> Labels]
  BY DEF TypeInv, TypeOK
<1>1. CASE GetChannel(p) \/ GetFails(p) \/ LoadBase(p) \/ Respond(p)
  BY <1>0, <1>1 DEF GetChannel, GetFails, LoadBase, AfterLoad, Respond
<1>2. CASE CheckFingerprint(p) \/ Conflict(p) \/ ApplyOp(p) \/ WriteCatalog(p)
  BY <1>0, <1>2 DEF CheckFingerprint, Conflict, ApplyOp, WriteCatalog
<1>3. CASE SetExclusions(p) \/ SetDisabled(p) \/ SetKeeps(p)
  BY <1>0, <1>3 DEF SetExclusions, SetDisabled, SetKeeps
<1>4. CASE \/ AddSnapshot(p) \/ PruneSnapshots(p) \/ PutChannel(p) \/ PutsDone(p)
           \/ PutFails(p)
  BY <1>0, <1>4 DEF AddSnapshot, PruneSnapshots, PutChannel, PutsDone, AfterPut, PutFails
<1>5. CASE Probe(p) \/ ProbeFails(p) \/ Merge(p)
  BY <1>0, <1>5 DEF Probe, ProbeFails, Merge
<1>6. CASE SetWhitelist(p) \/ SetVersionFilter(p) \/ SetRouteByProtocol(p)
  BY <1>0, <1>6 DEF SetWhitelist, SetVersionFilter, SetRouteByProtocol
<1>7. CASE ReadSnapshot(p) \/ ProbeEgg(p) \/ Plan(p)
  BY <1>0, <1>7 DEF ReadSnapshot, ProbeEgg, Plan
<1>8. QED
  BY <1>1, <1>2, <1>3, <1>4, <1>5, <1>6, <1>7 DEF Step

\* While p is past its Lock everyone else is idle or waiting.
LEMMA Alone ==
    ASSUME Exclusive, NEW p \in Procs, NEW q \in Procs, q # p, pc[p] \notin Outside
    PROVE  pc[q] \in Outside
BY DEF Exclusive

\* The mutex is kept.
LEMMA ExclusiveKept ==
    ASSUME TypeInv, Exclusive, [Next]_vars
    PROVE  Exclusive'
<1>0. pc \in [Procs -> Labels]
  BY DEF TypeInv, TypeOK
<1>1. ASSUME NEW p \in Procs, Arrive(p)
      PROVE  Exclusive'
  BY <1>0, <1>1 DEF Arrive, Goto, Exclusive, Outside
<1>2. ASSUME NEW p \in Procs, Lock(p)
      PROVE  Exclusive'
  <2>1. ASSUME NEW q \in Procs, pc'[q] \notin Outside
        PROVE  mu' = q
    <3>1. CASE q = p
      BY <1>2, <3>1 DEF Lock
    <3>2. CASE q # p
      <4>1. pc'[q] = pc[q] /\ mu = NoProc
        BY <1>2, <3>2, Locality DEF Lock
      <4>2. QED
        BY <2>1, <4>1, PanelAssumption DEF Exclusive
    <3>3. QED
      BY <3>1, <3>2
  <2>2. QED
    BY <2>1 DEF Exclusive
<1>3. ASSUME NEW p \in Procs, Step(p)
      PROVE  Exclusive'
  <2>1. ASSUME NEW q \in Procs, pc'[q] \notin Outside
        PROVE  mu' = q
    <3>1. CASE q = p
      <4>1. mu' = mu /\ pc[p] \notin Outside
        BY <1>3, <2>1, <3>1, Inside DEF Outside
      <4>2. QED
        BY <3>1, <4>1 DEF Exclusive
    <3>2. CASE q # p
      <4>1. pc'[q] = pc[q] /\ pc[q] \in Outside
        BY <1>3, <3>2, Locality, Inside, Alone
      <4>2. QED
        BY <2>1, <4>1
    <3>3. QED
      BY <3>1, <3>2
  <2>2. QED
    BY <2>1 DEF Exclusive
<1>4. CASE ExternalEdit \/ UNCHANGED vars
  BY <1>4 DEF ExternalEdit, vars, Exclusive
<1>5. CASE Crash
  BY <1>5 DEF Crash, Exclusive, Outside
<1>6. QED
  BY <1>1, <1>2, <1>3, <1>4, <1>5 DEF Next

-----------------------------------------------------------------------------
\* Requests keep to their steps.

\* Only a request of a kind is asked for under that kind.
LEMMA AskKind ==
    ASSUME NEW p \in Procs, NEW k, NEW r \in Ask(p, k)
    PROVE  r.kind = k
BY DEF Ask, NoRequest

\* A probe changes neither the phase nor what was read.
LEMMA ProbeKeeps ==
    ASSUME TypeInv, NEW p \in Procs, Probe(p)
    PROVE  st'[p].phase = st[p].phase /\ st'[p].snap = st[p].snap
<1> DEFINE s     == st[p]
           asked == Asked(p)
           sweep == req[p].kind = "refresh" /\ Swept(s.snap) # s.snap
<1>1. PICK answer \in [asked -> ProbeChoices \cup {{}}] :
          st' = [st EXCEPT
               ![p].found = [x \in Sites |-> IF x \in asked THEN answer[x] ELSE {}],
               ![p].out   = IF sweep THEN Swept(s.snap) ELSE @,
               ![p].todo  = IF sweep THEN Differ(Swept(s.snap), s.snap) ELSE @]
  BY DEF Probe
<1> DEFINE found == [x \in Sites |-> IF x \in asked THEN answer[x] ELSE {}]
           out   == IF sweep THEN Swept(s.snap) ELSE s.out
           todo  == IF sweep THEN Differ(Swept(s.snap), s.snap) ELSE s.todo
<1>2. st' = [st EXCEPT ![p] = [s EXCEPT !.found = found, !.out = out, !.todo = todo]]
  BY <1>1
<1> HIDE DEF found, out, todo
<1>3. QED
  BY <1>2 DEF TypeInv, TypeOK, Locals

\* Every step leads a request to where its kind may go.
LEMMA RolesKept ==
    ASSUME TypeInv, Roles, [Next]_vars
    PROVE  Roles'
<1> USE DEF Goto, Marking
<1>0. /\ pc \in [Procs -> Labels] /\ req \in [Procs -> Request]
      /\ st \in [Procs -> Locals]
  BY DEF TypeInv, TypeOK
<1>1. ASSUME NEW p \in Procs, Arrive(p) \/ Lock(p) \/ Step(p)
      PROVE  Role(p)'
  <2>1. Role(p) /\ st[p] \in Locals /\ req[p] \in Request
    BY <1>0 DEF Roles
  <2>2. CASE Arrive(p)
    <3>1. PICK k \in Kinds : /\ (k = "auto") <=> (p = Scheduler)
                             /\ \E r \in Ask(p, k) : req' = [req EXCEPT ![p] = r]
      BY <2>2 DEF Arrive
    <3>2. req'[p].kind = k
      BY <1>0, <3>1, AskKind
    <3>3. pc'[p] = "lock" /\ st' = st
      BY <1>0, <2>2 DEF Arrive
    <3>4. QED
      BY <2>1, <3>1, <3>2, <3>3 DEF Role
  <2>3. CASE Lock(p)
    BY <1>0, <2>1, <2>3 DEF Lock, Role
  <2>4. CASE Leave(p)
    BY <1>0, <2>4 DEF Leave, Role, Blank
  <2>5. CASE GetChannel(p)
    BY <1>0, <2>1, <2>5 DEF GetChannel, Role, Locals
  <2>6. CASE LoadBase(p)
    <3>1. /\ pc' = [pc EXCEPT ![p] = AfterLoad(p)] /\ req' = req
          /\ pc[p] = "base" /\ st'[p].phase = st[p].phase
      BY <1>0, <2>6 DEF LoadBase, Locals
    <3>2. AfterLoad(p) \in Marking => req[p].kind \in {"save", "auto"}
      BY <2>1, <3>1 DEF AfterLoad, Role
    <3>3. AfterLoad(p) = "plan" => req[p].kind \notin {"save", "auto"}
      BY DEF AfterLoad
    <3>4. QED
      BY <1>0, <2>1, <3>1, <3>2, <3>3 DEF Role
  <2>7. CASE CheckFingerprint(p)
    BY <1>0, <2>1, <2>7 DEF CheckFingerprint, Role
  <2>8. CASE ApplyOp(p) \/ WriteCatalog(p)
    <3>1. /\ pc[p] = "ops" /\ pc'[p] \in {"ops", "exclusions", "backup"}
          /\ req' = req
      BY <1>0, <2>8 DEF ApplyOp, WriteCatalog
    <3>2. CASE ApplyOp(p)
      <4>1. PICK op \in st[p].left :
                st' = [st EXCEPT ![p].cat   = OpOnCatalog(@, op),
                                 ![p].marks = OpOnMarks(st[p].cat, @, op),
                                 ![p].left  = @ \ {op}]
        BY <3>2 DEF ApplyOp
      <4>2. st'[p].phase = st[p].phase
        BY <1>0, <2>1, <4>1 DEF Locals
      <4>3. QED
        BY <2>1, <3>1, <4>2 DEF Role
    <3>3. CASE WriteCatalog(p)
      <4>1. st'[p].phase = st[p].phase
        BY <1>0, <2>1, <3>3 DEF WriteCatalog, Locals
      <4>2. QED
        BY <2>1, <3>1, <4>1 DEF Role
    <3>4. QED
      BY <2>8, <3>2, <3>3
  <2>9. CASE SetExclusions(p) \/ SetDisabled(p) \/ SetKeeps(p)
    <3>1. CASE SetExclusions(p) \/ SetDisabled(p)
      BY <1>0, <2>1, <3>1 DEF SetExclusions, SetDisabled, Role
    <3>2. CASE SetKeeps(p)
      <4>1. pc'[p] = "get" /\ pc[p] = "keeps" /\ req' = req
        BY <1>0, <3>2 DEF SetKeeps
      <4>2. st'[p].phase = "final"
        BY <1>0, <2>1, <3>2 DEF SetKeeps, StartRead, Locals
      <4>3. QED
        BY <2>1, <4>1, <4>2 DEF Role
    <3>3. QED
      BY <2>9, <3>1, <3>2
  <2>10. CASE AddSnapshot(p) \/ PruneSnapshots(p) \/ PutChannel(p)
    BY <1>0, <2>1, <2>10 DEF AddSnapshot, PruneSnapshots, PutChannel, Role, Locals
  <2>11. CASE PutsDone(p)
    <3>1. /\ pc[p] = "put" /\ req' = req
          /\ pc'[p] = IF req[p].kind \in {"save", "auto"} THEN "exclusions" ELSE "get"
      BY <1>0, <2>11 DEF PutsDone, AfterPut
    <3>2. CASE st' = st
      BY <2>1, <3>1, <3>2 DEF Role
    <3>3. CASE st' # st
      <4>1. PICK phase \in {"reload", "final"} : StartRead(p, st[p], phase)
        BY <2>11, <3>3 DEF PutsDone
      <4>2. st'[p].phase = phase
        BY <1>0, <2>1, <4>1 DEF StartRead, Locals
      <4>3. QED
        BY <2>1, <3>1, <4>2 DEF Role
    <3>4. QED
      BY <3>2, <3>3
  <2>12. CASE Probe(p)
    <3>1. /\ pc[p] = "probe" /\ pc'[p] \in {"backup", "merge"} /\ req' = req
      BY <1>0, <2>12 DEF Probe
    <3>2. st'[p].phase = st[p].phase
      BY <2>12, ProbeKeeps
    <3>3. QED
      BY <2>1, <3>1, <3>2 DEF Role
  <2>13. CASE Merge(p)
    <3>1. CASE p = Scheduler
      <4>1. pc'[p] = "get" /\ req'[p].kind = req[p].kind /\ pc[p] # "idle"
        BY <1>0, <2>13, <3>1 DEF Merge, Request
      <4>2. QED
        BY <2>1, <3>1, <4>1 DEF Role
    <3>2. CASE p # Scheduler
      <4>1. pc'[p] = "respond" /\ req' = req /\ pc[p] # "idle"
        BY <1>0, <2>13, <3>2 DEF Merge
      <4>2. st'[p].phase = st[p].phase
        BY <1>0, <2>13, <3>2 DEF Merge, Locals
      <4>3. QED
        BY <2>1, <3>2, <4>1, <4>2 DEF Role
    <3>3. QED
      BY <3>1, <3>2
  <2>14. CASE SetWhitelist(p) \/ SetVersionFilter(p) \/ SetRouteByProtocol(p)
    BY <1>0, <2>1, <2>14 DEF SetWhitelist, SetVersionFilter, SetRouteByProtocol, Role
  <2>15. CASE ~Leave(p) /\ (ReadSnapshot(p) \/ ProbeEgg(p) \/ Plan(p))
    BY <1>0, <2>1, <2>15 DEF ReadSnapshot, ProbeEgg, Plan, Role, Locals
  <2>16. QED
    BY <1>1, <2>2, <2>3, <2>4, <2>5, <2>6, <2>7, <2>8, <2>9, <2>10, <2>11, <2>12,
       <2>13, <2>14, <2>15
       DEF Step, GetFails, Respond, Conflict, PutFails, ProbeFails
<1>2. ASSUME NEW p \in Procs, Arrive(p) \/ Lock(p) \/ Step(p)
      PROVE  Roles'
  <2>1. ASSUME NEW q \in Procs, q # p
        PROVE  Role(q)'
    BY <1>2, <2>1, Locality DEF Roles, Role
  <2>2. QED
    BY <1>1, <1>2, <2>1 DEF Roles
<1>3. CASE ExternalEdit \/ UNCHANGED vars
  BY <1>3 DEF ExternalEdit, vars, Roles, Role
<1>4. CASE Crash
  BY <1>4 DEF Crash, Blank, Roles, Role
<1>5. QED
  BY <1>2, <1>3, <1>4 DEF Next

-----------------------------------------------------------------------------
\* Saves do not undo each other.

\* An operation changes the marks of the model it names and of no other.
LEMMA OpMarksLocal ==
    ASSUME NEW cat, NEW m \in Marks, NEW op, NEW r, r # op.ref
    PROVE  LET n == OpOnMarks(cat, m, op)
           IN  /\ r \in n.excl <=> r \in m.excl
               /\ r \in n.dis <=> r \in m.dis
               /\ r \in n.keep <=> r \in m.keep
BY DEF OpOnMarks, Marks

\* A step of p keeps its own marks in agreement with the store.
LEMMA IntentStep ==
    ASSUME TypeInv, Roles, IntentKept, NEW p \in Procs, Step(p)
    PROVE  Intent(p)'
<1> USE DEF Goto, Marking, Writing
<1>0. /\ pc \in [Procs -> Labels] /\ req \in [Procs -> Request]
      /\ st \in [Procs -> Locals] /\ st[p] \in Locals /\ req[p] \in Request
  BY DEF TypeInv, TypeOK
<1>1. Role(p) /\ Intent(p)
  BY DEF Roles, IntentKept
<1>2. CASE Leave(p)
  BY <1>0, <1>2 DEF Leave, Intent
<1>3. CASE GetChannel(p)
  BY <1>0, <1>3 DEF GetChannel, Intent
<1>4. CASE LoadBase(p)
  <2>1. SUFFICES ASSUME pc'[p] \in Marking \cup Writing, req'[p].kind \in {"save", "auto"}
                 PROVE  /\ st'[p].left \subseteq req'[p].ops
                        /\ \A r \in Refs : Agree(p, r)'
    BY DEF Intent
  <2>2. /\ st' = [st EXCEPT ![p].cat = Prune(Reconcile(catalog, st[p].snap), StoredMarks),
                            ![p].marks = StoredMarks, ![p].left = req[p].ops]
        /\ req' = req /\ exclusions' = exclusions /\ disabled' = disabled /\ keeps' = keeps
    BY <1>4, <2>1 DEF LoadBase
  <2>3. st'[p].left = req[p].ops /\ st'[p].marks = StoredMarks
    BY <1>0, <2>2 DEF Locals
  <2>4. /\ st'[p].marks.excl = exclusions /\ st'[p].marks.dis = disabled
        /\ st'[p].marks.keep = keeps
    BY <2>3 DEF StoredMarks
  <2>5. req' = req /\ exclusions' = exclusions /\ disabled' = disabled /\ keeps' = keeps
    BY <2>2
  <2>6. \A r \in Refs : Agree(p, r)'
    BY <2>4, <2>5 DEF Agree
  <2>7. QED
    BY <2>3, <2>5, <2>6
<1>5. CASE CheckFingerprint(p)
  BY <1>0, <1>1, <1>5 DEF CheckFingerprint, Intent, Role, Touched, Agree, store
<1>6. CASE ApplyOp(p)
  <2>1. PICK op \in st[p].left :
            st' = [st EXCEPT ![p].cat   = OpOnCatalog(@, op),
                             ![p].marks = OpOnMarks(st[p].cat, @, op),
                             ![p].left  = @ \ {op}]
    BY <1>6 DEF ApplyOp
  <2>2. /\ st'[p].marks = OpOnMarks(st[p].cat, st[p].marks, op)
        /\ st'[p].left = st[p].left \ {op}
    BY <1>0, <2>1 DEF Locals
  <2>3. /\ pc[p] = "ops" /\ req' = req
        /\ exclusions' = exclusions /\ disabled' = disabled /\ keeps' = keeps
    BY <1>6 DEF ApplyOp, store
  <2>4. /\ st[p].left \subseteq req[p].ops
        /\ \A r \in Refs : Touched(p, r) \/ Agree(p, r)
    BY <1>1, <2>3 DEF Role, Intent
  <2>5. ASSUME NEW r \in Refs
        PROVE  (Touched(p, r) \/ Agree(p, r))'
    <3>1. CASE r = op.ref
      BY <2>3, <2>4, <3>1 DEF Touched
    <3>2. CASE r # op.ref
      <4>1. st[p].marks \in Marks
        BY <1>0 DEF Locals
      <4>2. Agree(p, r) => Agree(p, r)'
        BY <2>2, <2>3, <3>2, <4>1, OpMarksLocal DEF Agree
      <4>3. QED
        BY <2>3, <2>4, <4>2 DEF Touched
    <3>3. QED
      BY <3>1, <3>2
  <2>6. QED
    BY <2>2, <2>3, <2>4, <2>5 DEF Intent
<1>7. CASE WriteCatalog(p)
  <2>1. st'[p].marks = st[p].marks /\ st'[p].left = st[p].left
    BY <1>0, <1>7 DEF WriteCatalog, Locals
  <2>2. /\ pc[p] = "ops" /\ req' = req
        /\ exclusions' = exclusions /\ disabled' = disabled /\ keeps' = keeps
    BY <1>7 DEF WriteCatalog
  <2>3. QED
    BY <1>1, <2>1, <2>2 DEF Role, Intent, Touched, Agree
<1>8. CASE SetExclusions(p) \/ SetDisabled(p)
  BY <1>0, <1>1, <1>8 DEF SetExclusions, SetDisabled, Role, Intent, Touched, Agree
<1>9. CASE SetKeeps(p)
  BY <1>0, <1>9 DEF SetKeeps, Intent
<1>10. CASE AddSnapshot(p) \/ PruneSnapshots(p)
  BY <1>0, <1>1, <1>10 DEF AddSnapshot, PruneSnapshots, Intent, Touched, Agree
<1>11. CASE PutChannel(p)
  <2>1. st'[p].marks = st[p].marks /\ st'[p].left = st[p].left
    BY <1>0, <1>11 DEF PutChannel, Locals
  <2>2. QED
    BY <1>0, <1>1, <1>11, <2>1 DEF PutChannel, Intent, Touched, Agree, store
<1>12. CASE PutsDone(p)
  BY <1>0, <1>1, <1>12 DEF PutsDone, AfterPut, Intent, Touched, Agree, store
<1>13. CASE Probe(p)
  BY <1>0, <1>13 DEF Probe, Intent
<1>14. CASE Merge(p)
  BY <1>0, <1>14 DEF Merge, Intent
<1>15. CASE SetWhitelist(p) \/ SetVersionFilter(p) \/ SetRouteByProtocol(p)
  BY <1>0, <1>15 DEF SetWhitelist, SetVersionFilter, SetRouteByProtocol, Intent
<1>16. CASE ~Leave(p) /\ (ReadSnapshot(p) \/ ProbeEgg(p))
  BY <1>0, <1>16 DEF ReadSnapshot, ProbeEgg, Intent
<1>17. CASE ~Leave(p) /\ Plan(p)
  <2>1. pc[p] = "plan" /\ req' = req
    BY <1>17 DEF Plan
  <2>2. QED
    BY <1>1, <2>1 DEF Role, Intent
<1>18. QED
  BY <1>2, <1>3, <1>4, <1>5, <1>6, <1>7, <1>8, <1>9, <1>10, <1>11, <1>12, <1>13,
     <1>14, <1>15, <1>16, <1>17
     DEF Step, GetFails, Respond, Conflict, PutFails, ProbeFails

\* The marks stay in agreement whoever steps.
LEMMA IntentInvKept ==
    ASSUME IntentInv, [Next]_vars
    PROVE  IntentInv'
<1> USE DEF IntentInv
<1>1. TypeInv' /\ Exclusive' /\ Roles'
  BY NextType, ExclusiveKept, RolesKept
<1>2. ASSUME NEW p \in Procs, Step(p), NEW q \in Procs
      PROVE  Intent(q)'
  <2>1. CASE q = p
    BY <1>2, <2>1, IntentStep
  <2>2. CASE q # p
    <3>1. pc'[q] = pc[q] /\ pc[q] \in Outside
      BY <1>2, <2>2, Locality, Inside, Alone
    <3>2. QED
      BY <3>1 DEF Intent, Outside, Marking, Writing
  <2>3. QED
    BY <2>1, <2>2
<1>3. ASSUME NEW p \in Procs, Arrive(p) \/ Lock(p), NEW q \in Procs
      PROVE  Intent(q)'
  <2>1. CASE q = p
    BY <1>3, <2>1 DEF Arrive, Lock, Goto, TypeInv, TypeOK, Intent, Marking, Writing
  <2>2. CASE q # p
    <3>1. pc'[q] = pc[q] /\ req'[q] = req[q] /\ st'[q] = st[q]
      BY <1>3, <2>2, Locality
    <3>2. exclusions' = exclusions /\ disabled' = disabled /\ keeps' = keeps
      BY <1>3 DEF Arrive, Lock, store
    <3>3. QED
      BY <3>1, <3>2 DEF IntentKept, Intent, Touched, Agree
  <2>3. QED
    BY <2>1, <2>2
<1>4. ASSUME ExternalEdit \/ UNCHANGED vars
      PROVE  IntentKept'
  BY <1>4 DEF ExternalEdit, vars, store, IntentKept, Intent, Touched, Agree
<1>5. ASSUME Crash
      PROVE  IntentKept'
  BY <1>5 DEF Crash, IntentKept, Intent, Marking, Writing
<1>6. IntentKept'
  BY <1>2, <1>3, <1>4, <1>5 DEF Next, IntentKept
<1>7. QED
  BY <1>1, <1>6

\* A step changes the stored sets only to what the holder of the mutex holds.
LEMMA MarksWritten ==
    ASSUME TypeInv, [Next]_vars
    PROVE  \/ exclusions' = exclusions /\ disabled' = disabled /\ keeps' = keeps
           \/ \E p \in Procs :
                /\ \/ pc[p] = "exclusions" /\ exclusions' = st[p].marks.excl
                      /\ disabled' = disabled /\ keeps' = keeps
                   \/ pc[p] = "disabled" /\ disabled' = st[p].marks.dis
                      /\ exclusions' = exclusions /\ keeps' = keeps
                   \/ pc[p] = "keeps" /\ keeps' = st[p].marks.keep
                      /\ exclusions' = exclusions /\ disabled' = disabled
<1> USE DEF store
<1>1. ASSUME NEW p \in Procs, SetExclusions(p) \/ SetDisabled(p) \/ SetKeeps(p)
      PROVE  \/ pc[p] = "exclusions" /\ exclusions' = st[p].marks.excl
                /\ disabled' = disabled /\ keeps' = keeps
             \/ pc[p] = "disabled" /\ disabled' = st[p].marks.dis
                /\ exclusions' = exclusions /\ keeps' = keeps
             \/ pc[p] = "keeps" /\ keeps' = st[p].marks.keep
                /\ exclusions' = exclusions /\ disabled' = disabled
  BY <1>1 DEF SetExclusions, SetDisabled, SetKeeps
<1>2. ASSUME NEW p \in Procs, Arrive(p) \/ Lock(p) \/ Step(p),
             ~(SetExclusions(p) \/ SetDisabled(p) \/ SetKeeps(p))
      PROVE  exclusions' = exclusions /\ disabled' = disabled /\ keeps' = keeps
  <2>1. CASE \/ Arrive(p) \/ Lock(p) \/ GetChannel(p) \/ GetFails(p) \/ LoadBase(p)
             \/ Respond(p) \/ CheckFingerprint(p) \/ Conflict(p) \/ ApplyOp(p)
             \/ WriteCatalog(p)
    BY <2>1 DEF Arrive, Lock, GetChannel, GetFails, LoadBase, Respond, CheckFingerprint,
                Conflict, ApplyOp, WriteCatalog
  <2>2. CASE \/ AddSnapshot(p) \/ PruneSnapshots(p) \/ PutChannel(p) \/ PutsDone(p)
             \/ PutFails(p) \/ Probe(p) \/ ProbeFails(p) \/ Merge(p)
    BY <2>2 DEF AddSnapshot, PruneSnapshots, PutChannel, PutsDone, PutFails, Probe,
                ProbeFails, Merge
  <2>3. CASE \/ SetWhitelist(p) \/ SetVersionFilter(p) \/ SetRouteByProtocol(p)
             \/ ReadSnapshot(p) \/ ProbeEgg(p) \/ Plan(p)
    BY <2>3 DEF SetWhitelist, SetVersionFilter, SetRouteByProtocol, ReadSnapshot,
                ProbeEgg, Plan
  <2>4. QED
    BY <1>2, <2>1, <2>2, <2>3 DEF Step
<1>3. CASE ExternalEdit \/ Crash \/ UNCHANGED vars
  BY <1>3 DEF ExternalEdit, Crash, vars
<1>4. QED
  BY <1>1, <1>2, <1>3 DEF Next, Step

\* Concurrent saves never undo each other: a step changes the mark of a
\* model only for the process inside the mutex whose draft names that model.
THEOREM IntentSafe == Spec => IntentIsolated
<1> DEFINE Isolated ==
        \A r \in Refs :
          \/ /\ (r \in exclusions) <=> (r \in exclusions')
             /\ (r \in disabled) <=> (r \in disabled')
             /\ (r \in keeps) <=> (r \in keeps')
          \/ \E p \in Procs : mu = p /\ \E op \in req[p].ops : op.ref = r
<1>1. Init => IntentInv
  <2>1. Init => TypeInv
    BY InitType
  <2>2. Init => Exclusive /\ Roles /\ IntentKept
    BY DEF Init, Exclusive, Outside, Roles, Role, Blank, Marking, IntentKept, Intent,
           Writing
  <2>3. QED
    BY <2>1, <2>2 DEF IntentInv
<1>2. IntentInv /\ [Next]_vars => IntentInv'
  BY IntentInvKept
<1>3. IntentInv /\ [Next]_vars => Isolated
  <2> SUFFICES ASSUME IntentInv, [Next]_vars PROVE Isolated
    OBVIOUS
  <2>1. ASSUME NEW p \in Procs, NEW r \in Refs,
               pc[p] \in {"exclusions", "disabled", "keeps"}
        PROVE  \/ Agree(p, r)
               \/ mu = p /\ \E op \in req[p].ops : op.ref = r
    <3>1. mu = p /\ req[p].kind \in {"save", "auto"}
      BY <2>1 DEF IntentInv, Exclusive, Outside, Roles, Role, Marking
    <3>2. QED
      BY <2>1, <3>1 DEF IntentInv, IntentKept, Intent, Marking, Touched
  <2>2. QED
    BY <2>1, MarksWritten DEF IntentInv, Agree
<1>4. QED
  BY <1>1, <1>2, <1>3, PTL DEF Spec, IntentIsolated

-----------------------------------------------------------------------------
\* Without edits while a handler runs, what it read stays true.

\* A load that begins has read nothing.
LEMMA StartReadSnap ==
    ASSUME TypeInv, NEW p \in Procs, NEW s \in Locals, NEW phase, StartRead(p, s, phase)
    PROVE  st'[p].snap = Blank.snap
BY DEF StartRead, TypeInv, TypeOK, Locals

\* Retention keeps the newest snapshot.
LEMMA NewestStays ==
    ASSUME TypeInv, NEW p \in Procs, PruneSnapshots(p), Len(snapshots) > 0
    PROVE  /\ Len(snapshots') > 0
           /\ snapshots'[Len(snapshots')] = snapshots[Len(snapshots)]
<1> DEFINE n == Len(snapshots)
           m == n - Retain + 1
<1>1. snapshots \in Seq(Config) /\ n \in Nat /\ Retain \in Nat \ {0}
  BY PanelAssumption DEF TypeInv, TypeOK
<1>2. CASE n <= Retain
  BY <1>2 DEF PruneSnapshots
<1>3. CASE n > Retain
  <2>1. m \in Int /\ n \in Int /\ m <= n /\ n - m + 1 = Retain /\ m \in 1..n
    BY <1>1, <1>3
  <2>2. \A i \in m..n : snapshots[i] \in Config
    BY <1>1, <2>1
  <2>3. snapshots' = SubSeq(snapshots, m, n)
    BY <1>1, <1>3 DEF PruneSnapshots
  <2> HIDE DEF m, n
  <2>4. /\ Len(SubSeq(snapshots, m, n)) = Retain
        /\ \A i \in 1..Retain : SubSeq(snapshots, m, n)[i] = snapshots[m + i - 1]
    BY <2>1, <2>2, SubSeqProperties
  <2>5. SubSeq(snapshots, m, n)[Retain] = snapshots[n]
    <3>1. Retain \in 1..Retain /\ m + Retain - 1 = n
      BY <1>1, <2>1
    <3>2. QED
      BY <2>4, <3>1
  <2>6. QED
    BY <1>1, <2>3, <2>4, <2>5 DEF n
<1>4. QED
  BY <1>1, <1>2, <1>3

\* A step of p keeps what p read current.
LEMMA CurrentStep ==
    ASSUME TypeInv, Fresh, NEW p \in Procs, Step(p)
    PROVE  Current(p)'
<1> USE DEF Goto, Before
<1>0. /\ pc \in [Procs -> Labels] /\ req \in [Procs -> Request]
      /\ st \in [Procs -> Locals] /\ st[p] \in Locals /\ cpa \in Config
      /\ Blank \in Locals
  BY StartType DEF TypeInv, TypeOK
<1>1. Current(p)
  BY DEF Fresh
<1>2. CASE Leave(p)
  BY <1>0, <1>2 DEF Leave, Current
<1>3. CASE GetChannel(p)
  <2> DEFINE left == {c \in Channels : st[p].snap[c] = Unread}
             c    == First(left)
  <2>1. /\ pc[p] = "get" /\ cpa' = cpa
        /\ pc'[p] \in {"get", "backup", "base"} /\ (pc'[p] # "get" => left = {c})
    BY <1>0, <1>3 DEF GetChannel, store
  <2>2. st'[p].snap = [st[p].snap EXCEPT ![c] = cpa[c]]
    BY <1>0, <1>3 DEF GetChannel, Locals
  <2>3. st[p].snap \in [Channels -> Listing \cup {Unread}]
    BY <1>0 DEF Locals
  <2>4. \A d \in Channels : st[p].snap[d] \in {Unread, cpa[d]}
    BY <1>1, <2>1 DEF Current
  <2>5. left = {c} => st'[p].snap = cpa
    <3>1. SUFFICES ASSUME left = {c} PROVE st'[p].snap = cpa
      OBVIOUS
    <3>2. \A d \in Channels : d # c => st[p].snap[d] = cpa[d]
      BY <2>4, <3>1
    <3> HIDE DEF c
    <3>3. \A d \in Channels : st'[p].snap[d] = cpa[d]
      BY <2>2, <2>3, <3>2
    <3>4. st'[p].snap = [d \in Channels |-> st'[p].snap[d]]
      BY <2>2, <2>3
    <3>5. cpa = [d \in Channels |-> cpa[d]]
      BY <1>0 DEF Config
    <3>6. QED
      BY <3>3, <3>4, <3>5
  <2>6. \A d \in Channels : st'[p].snap[d] \in {Unread, cpa[d]}
    <3> HIDE DEF c
    <3>1. QED
      BY <2>2, <2>3, <2>4
  <2> HIDE DEF c, left
  <2>7. QED
    BY <2>1, <2>5, <2>6 DEF Current
<1>4. CASE LoadBase(p)
  <2>1. /\ pc[p] = "base" /\ cpa' = cpa
        /\ pc'[p] \in {"merge", "check", "respond", "probe", "whitelist", "plan"}
    BY <1>0, <1>4 DEF LoadBase, AfterLoad
  <2>2. st'[p].snap = st[p].snap
    BY <1>0, <1>4 DEF LoadBase, Locals
  <2>3. QED
    BY <1>1, <2>1, <2>2 DEF Current
<1>5. CASE CheckFingerprint(p)
  BY <1>0, <1>1, <1>5 DEF CheckFingerprint, Current, store
<1>6. CASE ApplyOp(p)
  <2>1. PICK op \in st[p].left :
            st' = [st EXCEPT ![p].cat   = OpOnCatalog(@, op),
                             ![p].marks = OpOnMarks(st[p].cat, @, op),
                             ![p].left  = @ \ {op}]
    BY <1>6 DEF ApplyOp
  <2>2. st'[p].snap = st[p].snap
    BY <1>0, <2>1 DEF Locals
  <2>3. pc[p] = "ops" /\ pc' = pc /\ cpa' = cpa
    BY <1>6 DEF ApplyOp
  <2>4. QED
    BY <1>1, <2>2, <2>3 DEF Current
<1>7. CASE WriteCatalog(p)
  <2>1. st'[p].snap = st[p].snap
    BY <1>0, <1>7 DEF WriteCatalog, Locals
  <2>2. pc[p] = "ops" /\ pc'[p] \in {"exclusions", "backup"} /\ cpa' = cpa
    BY <1>0, <1>7 DEF WriteCatalog
  <2>3. QED
    BY <1>1, <2>1, <2>2 DEF Current
<1>8. CASE SetExclusions(p) \/ SetDisabled(p)
  BY <1>0, <1>8 DEF SetExclusions, SetDisabled, Current
<1>9. CASE SetKeeps(p)
  <2>1. st'[p].snap = Blank.snap /\ pc'[p] = "get"
    BY <1>0, <1>9, StartReadSnap DEF SetKeeps
  <2>2. QED
    BY <2>1 DEF Current, Blank
<1>10. CASE AddSnapshot(p)
  <2>1. /\ pc[p] = "backup" /\ pc'[p] = "trim" /\ st' = st /\ cpa' = cpa
        /\ snapshots' = Append(snapshots, st[p].snap)
    BY <1>0, <1>10 DEF AddSnapshot
  <2>2. snapshots \in Seq(Config)
    BY DEF TypeInv, TypeOK
  <2>3. Len(snapshots') = Len(snapshots) + 1 /\ snapshots'[Len(snapshots) + 1] = st[p].snap
    BY <2>1, <2>2
  <2>4. Len(snapshots) \in Nat
    BY <2>2
  <2>5. QED
    BY <1>1, <2>1, <2>3, <2>4 DEF Current
<1>11. CASE PruneSnapshots(p)
  <2>1. /\ pc[p] = "trim" /\ pc'[p] = "put" /\ st' = st /\ cpa' = cpa
    BY <1>0, <1>11 DEF PruneSnapshots
  <2>2. Len(snapshots) > 0 /\ snapshots[Len(snapshots)] = st[p].snap /\ st[p].snap = cpa
    BY <1>1, <2>1 DEF Current
  <2>3. Len(snapshots') > 0 /\ snapshots'[Len(snapshots')] = st[p].snap
    BY <1>11, <2>2, NewestStays
  <2>4. QED
    BY <2>1, <2>2, <2>3 DEF Current
<1>12. CASE PutChannel(p)
  <2> DEFINE c == First(st[p].todo)
  <2>1. /\ pc[p] = "put" /\ pc' = pc /\ snapshots' = snapshots
        /\ cpa' = [cpa EXCEPT ![c] = st[p].out[c]]
    BY <1>12 DEF PutChannel, store
  <2>2. st'[p].snap = st[p].snap /\ st'[p].todo = st[p].todo \ {c}
    BY <1>0, <1>12 DEF PutChannel, Locals
  <2>3. st[p].todo \subseteq Channels
    BY <1>0 DEF Locals
  <2> HIDE DEF c
  <2>4. \A d \in st'[p].todo : st'[p].snap[d] = cpa'[d]
    BY <1>0, <1>1, <2>1, <2>2, <2>3 DEF Current, Config
  <2>5. QED
    BY <1>1, <2>1, <2>2, <2>4 DEF Current
<1>13. CASE PutsDone(p)
  <2>1. CASE req[p].kind \in {"save", "auto"}
    BY <1>0, <1>13, <2>1 DEF PutsDone, AfterPut, Current
  <2>2. CASE req[p].kind \notin {"save", "auto"}
    <3>1. PICK phase \in {"reload", "final"} : StartRead(p, st[p], phase)
      BY <1>13, <2>2 DEF PutsDone
    <3>2. st'[p].snap = Blank.snap /\ pc'[p] = "get"
      BY <1>0, <1>13, <2>2, <3>1, StartReadSnap DEF PutsDone, AfterPut
    <3>3. QED
      BY <3>2 DEF Current, Blank
  <2>3. QED
    BY <2>1, <2>2
<1>14. CASE Probe(p)
  <2>1. pc[p] = "probe" /\ pc'[p] \in {"backup", "merge"} /\ cpa' = cpa
    BY <1>0, <1>14 DEF Probe
  <2>2. st'[p].snap = st[p].snap
    BY <1>14, ProbeKeeps
  <2>3. QED
    BY <1>1, <2>1, <2>2 DEF Current
<1>15. CASE Merge(p)
  <2>1. CASE p = Scheduler
    <3> DEFINE t == [st[p] EXCEPT !.found = Blank.found]
    <3>1. t \in Locals
      BY <1>0 DEF Locals
    <3>2. StartRead(p, t, "save") /\ pc'[p] = "get"
      BY <1>0, <1>15, <2>1 DEF Merge
    <3> HIDE DEF t
    <3>3. st'[p].snap = Blank.snap
      BY <3>1, <3>2, StartReadSnap
    <3>4. QED
      BY <3>2, <3>3 DEF Current, Blank
  <2>2. CASE p # Scheduler
    <3>1. pc[p] = "merge" /\ pc'[p] = "respond" /\ cpa' = cpa
      BY <1>0, <1>15, <2>2 DEF Merge
    <3>2. st'[p].snap = st[p].snap
      BY <1>0, <1>15, <2>2 DEF Merge, Locals
    <3>3. QED
      BY <1>1, <3>1, <3>2 DEF Current
  <2>3. QED
    BY <2>1, <2>2
<1>16. CASE SetWhitelist(p) \/ SetVersionFilter(p) \/ SetRouteByProtocol(p)
  <2>1. /\ pc[p] \in {"whitelist", "version", "route"}
        /\ pc'[p] \in {"version", "route", "respond"} /\ st' = st /\ cpa' = cpa
    BY <1>0, <1>16 DEF SetWhitelist, SetVersionFilter, SetRouteByProtocol
  <2>2. QED
    BY <1>1, <2>1 DEF Current
<1>17. CASE ~Leave(p) /\ (ReadSnapshot(p) \/ ProbeEgg(p))
  <2>1. pc[p] \in {"payload", "eggprobe"} /\ pc'[p] = "get"
    BY <1>0, <1>17 DEF ReadSnapshot, ProbeEgg
  <2>2. st'[p].snap = st[p].snap
    BY <1>0, <1>17 DEF ReadSnapshot, ProbeEgg, Locals
  <2>3. QED
    BY <1>1, <2>1, <2>2 DEF Current, Blank
<1>18. CASE ~Leave(p) /\ Plan(p)
  <2>1. pc[p] = "plan" /\ pc'[p] = "backup" /\ cpa' = cpa
    BY <1>0, <1>18 DEF Plan
  <2>2. st'[p].snap = st[p].snap
    BY <1>0, <1>18 DEF Plan, Locals
  <2>3. QED
    BY <1>1, <2>1, <2>2 DEF Current
<1>19. QED
  BY <1>2, <1>3, <1>4, <1>5, <1>6, <1>7, <1>8, <1>9, <1>10, <1>11, <1>12, <1>13,
     <1>14, <1>15, <1>16, <1>17, <1>18
     DEF Step, GetFails, Respond, Conflict, PutFails, ProbeFails

\* And whoever steps.
LEMMA FreshInvKept ==
    ASSUME FreshInv, [Next]_vars, ~EditsInFlight
    PROVE  FreshInv'
<1> USE DEF FreshInv, Before
<1>1. TypeInv' /\ Exclusive'
  BY NextType, ExclusiveKept
<1>2. ASSUME NEW p \in Procs, Step(p), NEW q \in Procs
      PROVE  Current(q)'
  <2>1. CASE q = p
    BY <1>2, <2>1, CurrentStep
  <2>2. CASE q # p
    <3>1. pc'[q] = pc[q] /\ st'[q] = st[q] /\ pc[q] \in Outside
      BY <1>2, <2>2, Locality, Inside, Alone
    <3>2. QED
      BY <3>1 DEF Fresh, Current, Outside
  <2>3. QED
    BY <2>1, <2>2
<1>3. ASSUME NEW p \in Procs, Arrive(p) \/ Lock(p), NEW q \in Procs
      PROVE  Current(q)'
  <2>1. cpa' = cpa /\ snapshots' = snapshots /\ st' = st
    BY <1>3 DEF Arrive, Lock, store
  <2>2. CASE q = p
    <3>1. pc[p] \in {"idle", "lock"} /\ pc'[p] \in {"lock", "payload", "eggprobe", "get"}
      BY <1>3 DEF Arrive, Lock, Goto, TypeInv, TypeOK
    <3>2. st[p].snap = Blank.snap
      BY <3>1 DEF Fresh, Current
    <3>3. QED
      BY <2>1, <2>2, <3>1, <3>2 DEF Current, Blank
  <2>3. CASE q # p
    <3>1. pc'[q] = pc[q]
      BY <1>3, <2>3, Locality
    <3>2. QED
      BY <2>1, <3>1 DEF Fresh, Current
  <2>4. QED
    BY <2>2, <2>3
<1>4. ASSUME ExternalEdit
      PROVE  Fresh'
  <2>1. mu = NoProc /\ pc' = pc /\ st' = st
    BY <1>4 DEF ExternalEdit
  <2>2. \A p \in Procs : pc[p] \in Outside
    BY <2>1, PanelAssumption DEF Exclusive
  <2>3. QED
    BY <2>1, <2>2 DEF Fresh, Current, Outside
<1>5. ASSUME UNCHANGED vars
      PROVE  Fresh'
  BY <1>5 DEF vars, Fresh, Current
<1>6. ASSUME Crash
      PROVE  Fresh'
  BY <1>6 DEF Crash, Fresh, Current
<1>7. Fresh'
  BY <1>2, <1>3, <1>4, <1>5, <1>6 DEF Next, Fresh
<1>8. QED
  BY <1>1, <1>7

\* Nothing has been read when the panel starts.
LEMMA FreshInit == Init => FreshInv
<1>1. Init => TypeInv
  BY InitType
<1>2. Init => Exclusive /\ Fresh
  BY DEF Init, Exclusive, Outside, Fresh, Current, Before
<1>3. QED
  BY <1>1, <1>2 DEF FreshInv

\* While lists are being sent to CPA a retained snapshot covers the write,
\* provided nobody else edits CPA while a handler runs.
THEOREM WritesCovered ==
    ASSUME ~EditsInFlight
    PROVE  Spec => []CoveredWrites
<1>1. FreshInv /\ [Next]_vars => FreshInv'
  BY FreshInvKept
<1>2. FreshInv => CoveredWrites
  <2> SUFFICES ASSUME FreshInv, NEW p \in Procs, pc[p] = "put"
               PROVE  \E i \in DOMAIN snapshots : \A c \in Channels :
                         snapshots[i][c] = IF c \in st[p].todo THEN cpa[c]
                                           ELSE st[p].snap[c]
    BY DEF CoveredWrites
  <2>1. /\ Len(snapshots) > 0 /\ snapshots[Len(snapshots)] = st[p].snap
        /\ \A c \in st[p].todo : st[p].snap[c] = cpa[c]
    BY DEF FreshInv, Fresh, Current
  <2>2. Len(snapshots) \in DOMAIN snapshots
    BY <2>1 DEF FreshInv, TypeInv, TypeOK
  <2>3. QED
    BY <2>1, <2>2
<1>3. QED
  BY FreshInit, <1>1, <1>2, PTL DEF Spec

\* And under the same proviso every list that is overwritten is the one the
\* handler read.
THEOREM NothingOverwrittenUnread ==
    ASSUME ~EditsInFlight
    PROVE  Spec => NoBlindOverwrite
<1> DEFINE Seen ==
        \A p \in Procs : PutChannel(p) =>
            LET c == First(st[p].todo) IN cpa[c] = st[p].snap[c]
<1>1. FreshInv /\ [Next]_vars => FreshInv'
  BY FreshInvKept
<1>2. FreshInv => Seen
  <2> SUFFICES ASSUME FreshInv, NEW p \in Procs, PutChannel(p)
               PROVE  cpa[First(st[p].todo)] = st[p].snap[First(st[p].todo)]
    OBVIOUS
  <2>1. First(st[p].todo) \in st[p].todo
    BY FirstIsMember DEF PutChannel, FreshInv, TypeInv, TypeOK, Locals
  <2>2. pc[p] = "put"
    BY DEF PutChannel
  <2>3. QED
    BY <2>1, <2>2 DEF FreshInv, Fresh, Current
<1>3. QED
  BY FreshInit, <1>1, <1>2, PTL DEF Spec, NoBlindOverwrite

-----------------------------------------------------------------------------
\* One save converges.

\* An entry has a place in CPA, real or planned, and one that is gone does
\* not wait to be written.
SoundEntry(e) ==
    /\ \E c \in Channels : e.occ[c] # Absent
    /\ e.gone => ~e.pending

Sound(cat) == \A r \in Refs : cat[r] # NoEntry => SoundEntry(cat[r])

\* The catalog of a load that finds snap in CPA and cat in the cache.
Reloaded(cat, m, snap) == Prune(Reconcile(cat, snap), m)

\* A load of out would leave nothing to do.
Settles(cat, m, out) ==
    LET again == Reloaded(cat, m, out)
    IN  Settled(again, m) /\ BuildWrite(again, m, out) = out

-----------------------------------------------------------------------------
\* Every operator keeps a catalog sound.

\* An entry of a catalog is an entry.
LEMMA EntryOf ==
    ASSUME NEW cat \in Catalog, NEW r \in Refs, cat[r] # NoEntry
    PROVE  cat[r] \in Entry
BY DEF Catalog

\* An entry made from a CPA listing is an entry.
LEMMA LiveEntryType ==
    ASSUME NEW snap \in Config, NEW r \in Refs, NEW b \in BOOLEAN
    PROVE  LiveEntry(snap, r, b) \in Entry
<1>1. r[1] \in Sites /\ r[2] \in Upstreams
  BY DEF Refs
<1>2. ASSUME NEW c \in Channels, Lists(snap, c, r)
      PROVE  snap[c][r[1]][r[2]] \in Slot
  <2>1. snap[c][r[1]] \in Provider
    BY <1>1, <1>2 DEF Lists, Config, Listing
  <2>2. QED
    BY <1>1, <2>1 DEF Provider
<1>3. QED
  BY <1>2 DEF LiveEntry, Entry, Slot

\* What a load takes from CPA lies where CPA holds it.
LEMMA LiveEntrySound ==
    ASSUME NEW snap, NEW r, Holds(snap, r), NEW b
    PROVE  SoundEntry(LiveEntry(snap, r, b))
<1>1. PICK c \in Channels : Lists(snap, c, r)
  BY DEF Holds
<1>2. LiveEntry(snap, r, b).occ[c] # Absent
  BY <1>1 DEF LiveEntry, Lists
<1>3. LiveEntry(snap, r, b).pending = FALSE
  BY DEF LiveEntry
<1>4. QED
  BY <1>2, <1>3 DEF SoundEntry

\* Reconciling keeps a catalog sound, whatever CPA holds.
LEMMA ReconcileSound ==
    ASSUME NEW cached \in Catalog, NEW snap, Sound(cached)
    PROVE  Sound(Reconcile(cached, snap))
<1> SUFFICES ASSUME NEW r \in Refs, Reconcile(cached, snap)[r] # NoEntry
             PROVE  SoundEntry(Reconcile(cached, snap)[r])
  BY DEF Sound
<1>1. CASE Live(snap, r)
  <2>1. Holds(snap, r)
    BY <1>1 DEF Live
  <2>2. Reconcile(cached, snap)[r]
            = LiveEntry(snap, r, cached[r] # NoEntry /\ cached[r].gone)
    BY <1>1 DEF Reconcile
  <2>3. QED
    BY <2>1, <2>2, LiveEntrySound
<1>2. CASE ~Live(snap, r)
  <2>1. cached[r] # NoEntry /\ Reconcile(cached, snap)[r] = [cached[r] EXCEPT !.present = FALSE]
    BY <1>2 DEF Reconcile
  <2>2. cached[r] \in Entry /\ SoundEntry(cached[r])
    BY <2>1, EntryOf DEF Sound
  <2>3. QED
    BY <2>1, <2>2 DEF SoundEntry, Entry
<1>3. QED
  BY <1>1, <1>2

\* So does pruning, which only drops entries.
LEMMA PruneSound ==
    ASSUME NEW cat, NEW m, Sound(cat)
    PROVE  Sound(Prune(cat, m))
BY DEF Sound, Prune

\* So does recording what a write leaves out.
LEMMA MarkWithheldSound ==
    ASSUME NEW cat \in Catalog, NEW m, Sound(cat)
    PROVE  Sound(MarkWithheld(cat, m))
<1> SUFFICES ASSUME NEW r \in Refs, MarkWithheld(cat, m)[r] # NoEntry
             PROVE  SoundEntry(MarkWithheld(cat, m)[r])
  BY DEF Sound
<1>1. cat[r] # NoEntry
  BY DEF MarkWithheld
<1>2. cat[r] \in Entry /\ SoundEntry(cat[r])
  BY <1>1, EntryOf DEF Sound
<1>3. MarkWithheld(cat, m)[r]
          = [cat[r] EXCEPT !.withheld = ~cat[r].gone /\ Hidden(r, cat[r], m)]
  BY <1>1 DEF MarkWithheld
<1>4. QED
  BY <1>2, <1>3 DEF SoundEntry, Entry

\* So does a probe: what it adds is planned, what it drops waits no longer.
LEMMA MergeSound ==
    ASSUME NEW cat \in Catalog, NEW snap, NEW found, Sound(cat)
    PROVE  Sound(MergeDiscovered(cat, snap, found))
<1> DEFINE merged == MergeDiscovered(cat, snap, found)
<1> SUFFICES ASSUME NEW r \in Refs, merged[r] # NoEntry
             PROVE  SoundEntry(merged[r])
  BY DEF Sound
<1>1. CASE merged[r] = cat[r]
  BY <1>1 DEF Sound
<1>2. CASE cat[r] = NoEntry /\ merged[r] = NewEntry(snap, r)
  <2>1. TargetChannel(snap, r) \in Channels
    <3>1. Clean[r[2]] \in Names
      BY DEF Refs
    <3>2. QED
      BY <3>1 DEF TargetChannel
  <2>2. NewEntry(snap, r).occ[TargetChannel(snap, r)] = NoAlias /\ NoAlias # Absent
    BY <2>1 DEF NewEntry
  <2>3. NewEntry(snap, r).gone = FALSE
    BY DEF NewEntry
  <2>4. QED
    BY <1>2, <2>1, <2>2, <2>3 DEF SoundEntry
<1>3. CASE cat[r] # NoEntry /\ merged[r] # cat[r]
  <2>1. cat[r] \in Entry /\ SoundEntry(cat[r])
    BY <1>3, EntryOf DEF Sound
  <2>2. merged[r] = [cat[r] EXCEPT !.gone = r[2] \notin found[r[1]],
                                   !.pending = @ /\ r[2] \in found[r[1]]]
    BY <1>3 DEF MergeDiscovered
  <2>3. /\ merged[r].occ = cat[r].occ
        /\ merged[r].gone = (r[2] \notin found[r[1]])
        /\ merged[r].pending = (cat[r].pending /\ r[2] \in found[r[1]])
    BY <2>1, <2>2 DEF Entry
  <2>4. QED
    BY <2>1, <2>3 DEF SoundEntry
<1>4. QED
  BY <1>1, <1>2, <1>3 DEF MergeDiscovered

\* So does a rename: where an alias was, one is.
LEMMA OpSound ==
    ASSUME NEW cat \in Catalog, NEW op \in Op, Sound(cat)
    PROVE  Sound(OpOnCatalog(cat, op))
<1> SUFFICES ASSUME cat[op.ref] # NoEntry
             PROVE  Sound(Rename(cat, op))
  BY DEF OpOnCatalog
<1> DEFINE next == IF op.to = op.ref[2] THEN NoAlias ELSE op.to
           occ  == [c \in Channels |-> IF cat[op.ref].occ[c] = Absent THEN Absent ELSE next]
<1>1. op.ref \in Refs /\ next # Absent
  BY DEF Op, Alias
<1>2. cat[op.ref] \in Entry /\ SoundEntry(cat[op.ref])
  BY <1>1, EntryOf DEF Sound
<1>3. PICK c \in Channels : cat[op.ref].occ[c] # Absent
  BY <1>2 DEF SoundEntry
<1>4. occ[c] # Absent
  BY <1>1, <1>3
<1>5. Rename(cat, op) = [cat EXCEPT ![op.ref] = [cat[op.ref] EXCEPT !.occ = occ]]
  BY DEF Rename
<1> HIDE DEF occ, next
<1>6. SoundEntry([cat[op.ref] EXCEPT !.occ = occ])
  BY <1>2, <1>4 DEF SoundEntry, Entry
<1>7. QED
  BY <1>1, <1>5, <1>6 DEF Sound, Catalog

-----------------------------------------------------------------------------
\* What a save writes, read back.

\* A write leaves every site known or unknown as it was.
LEMMA WriteKnown ==
    ASSUME NEW cat \in Catalog, NEW m, NEW snap, NEW s \in Sites
    PROVE  Known(BuildWrite(cat, m, snap), s) <=> Known(snap, s)
<1> DEFINE out == BuildWrite(cat, m, snap)
           new == [u \in Upstreams |-> IF u \in Placed(cat, m, s, 1)
                                       THEN AliasOf(cat[<<s, u>>]) ELSE Absent]
<1>1. CASE ~Known(snap, s)
  <2>1. out[1][s] = snap[1][s]
    BY <1>1 DEF BuildWrite
  <2>2. QED
    BY <1>1, <2>1 DEF Known
<1>2. CASE Known(snap, s)
  <2>1. out[1][s] = new
    BY <1>2 DEF BuildWrite, Known
  <2>2. new \in Provider
    <3>1. ASSUME NEW u \in Placed(cat, m, s, 1)
          PROVE  AliasOf(cat[<<s, u>>]) \in Slot
      <4>1. cat[<<s, u>>] \in Entry
        BY DEF Placed, Catalog, Refs
      <4>2. QED
        BY <4>1, AliasOfType DEF Slot
    <3>2. QED
      BY <3>1 DEF Provider, Slot
  <2>3. QED
    BY <1>2, <2>1, <2>2, SentinelAssumption DEF Known
<1>3. QED
  BY <1>1, <1>2

\* On a known site it lists what is placed there, under its alias.
LEMMA WriteLists ==
    ASSUME NEW cat \in Catalog, NEW m, NEW snap, NEW c \in Channels,
           NEW r \in Refs, Known(snap, r[1])
    PROVE  LET out == BuildWrite(cat, m, snap)
           IN  /\ Lists(out, c, r) <=> r[2] \in Placed(cat, m, r[1], c)
               /\ r[2] \in Placed(cat, m, r[1], c)
                    => out[c][r[1]][r[2]] = AliasOf(cat[r])
<1>0. PICK s \in Sites, u \in Upstreams : r = <<s, u>>
  BY DEF Refs
<1> DEFINE out == BuildWrite(cat, m, snap)
           new == [v \in Upstreams |-> IF v \in Placed(cat, m, s, c)
                                       THEN AliasOf(cat[<<s, v>>]) ELSE Absent]
<1>1. CASE snap[c][s] = NoProvider /\ Placed(cat, m, s, c) = {}
  BY <1>0, <1>1 DEF BuildWrite, Lists
<1>2. CASE ~(snap[c][s] = NoProvider /\ Placed(cat, m, s, c) = {})
  <2>1. out[c][s] = new
    BY <1>0, <1>2 DEF BuildWrite
  <2>2. ASSUME NEW v \in Placed(cat, m, s, c)
        PROVE  AliasOf(cat[<<s, v>>]) \in Alias
    <3>1. cat[<<s, v>>] \in Entry
      BY DEF Placed, Catalog, Refs
    <3>2. QED
      BY <3>1, AliasOfType
  <2>3. Absent \notin Alias
    BY DEF Alias
  <2>4. new \in Provider
    BY <2>2 DEF Provider, Slot
  <2>5. new # NoProvider
    BY <2>4, SentinelAssumption
  <2>6. QED
    BY <1>0, <2>1, <2>2, <2>3, <2>5 DEF Lists
<1>3. QED
  BY <1>1, <1>2

\* A model a save writes: one it knows, not gone and not hidden.
Written(cat, m, r) == cat[r] # NoEntry /\ ~cat[r].gone /\ ~Hidden(r, cat[r], m)

\* A save has a channel for every entry.
LEMMA TargetsMeet ==
    ASSUME NEW r \in Refs, NEW e \in Entry, NEW m \in Marks, SoundEntry(e)
    PROVE  Targets(r, e, m) \subseteq Channels /\ Targets(r, e, m) # {}
<1>1. CASE m.rules.route
  <2>1. Canonical(r, e) \in Names
    BY AliasOfType DEF Canonical, Refs, Alias
  <2>2. QED
    BY <1>1, <2>1 DEF Targets
<1>2. CASE ~m.rules.route
  BY <1>2 DEF Targets, SoundEntry
<1>3. QED
  BY <1>1, <1>2

\* So what is written is held by CPA afterwards, and of known sites nothing
\* else is.
LEMMA WriteHolds ==
    ASSUME NEW cat \in Catalog, Sound(cat), NEW m \in Marks, NEW snap,
           NEW r \in Refs, Known(snap, r[1])
    PROVE  Holds(BuildWrite(cat, m, snap), r) <=> Written(cat, m, r)
<1> DEFINE out == BuildWrite(cat, m, snap)
<1>1. r = <<r[1], r[2]>> /\ r[2] \in Upstreams
  BY DEF Refs
<1>2. \A c \in Channels : Lists(out, c, r) <=> r[2] \in Placed(cat, m, r[1], c)
  BY WriteLists
<1>3. \A c : r[2] \in Placed(cat, m, r[1], c)
          <=> Written(cat, m, r) /\ c \in Targets(r, cat[r], m)
  BY <1>1 DEF Placed, Written
<1>4. Written(cat, m, r) => \E c \in Channels : c \in Targets(r, cat[r], m)
  <2>1. SUFFICES ASSUME Written(cat, m, r)
                 PROVE  \E c \in Channels : c \in Targets(r, cat[r], m)
    OBVIOUS
  <2>2. cat[r] \in Entry /\ SoundEntry(cat[r])
    BY <2>1, EntryOf DEF Sound, Written
  <2>3. QED
    BY <2>2, TargetsMeet
<1>5. QED
  BY <1>2, <1>3, <1>4 DEF Holds

\* Read back, an entry that was written keeps its alias and its channels.
LEMMA ReadBack ==
    ASSUME NEW cat \in Catalog, Sound(cat), NEW m \in Marks, NEW snap,
           NEW r \in Refs, Known(snap, r[1]), Written(cat, m, r), NEW b
    PROVE  LET e == LiveEntry(BuildWrite(cat, m, snap), r, b)
           IN  /\ AliasOf(e) = AliasOf(cat[r])
               /\ Targets(r, e, m) = Targets(r, cat[r], m)
               /\ {c \in Channels : e.occ[c] # Absent} = Targets(r, cat[r], m)
               /\ ~Hidden(r, e, m)
<1> DEFINE out   == BuildWrite(cat, m, snap)
           e     == LiveEntry(out, r, b)
           alias == AliasOf(cat[r])
           to    == Targets(r, cat[r], m)
<1>1. r[1] \in Sites /\ r[2] \in Upstreams /\ r = <<r[1], r[2]>>
  BY DEF Refs
<1>2. cat[r] \in Entry /\ SoundEntry(cat[r])
  BY EntryOf DEF Sound, Written
<1>3. to \subseteq Channels /\ to # {} /\ alias \in Alias
  BY <1>2, TargetsMeet, AliasOfType
<1>4. ASSUME NEW c \in Channels
      PROVE  e.occ[c] = IF c \in to THEN alias ELSE Absent
  <2>1. e.occ[c] = IF Lists(out, c, r) THEN out[c][r[1]][r[2]] ELSE Absent
    BY DEF LiveEntry
  <2>2. /\ Lists(out, c, r) <=> r[2] \in Placed(cat, m, r[1], c)
        /\ r[2] \in Placed(cat, m, r[1], c) => out[c][r[1]][r[2]] = alias
    BY WriteLists
  <2>3. r[2] \in Placed(cat, m, r[1], c) <=> c \in to
    BY <1>1 DEF Placed, Written
  <2>4. QED
    BY <2>1, <2>2, <2>3
<1>5. Absent \notin Alias /\ NoAlias \notin Names /\ Absent \notin Names
  BY DEF Alias
<1> HIDE DEF e, out, alias, to
<1>6. AliasOf(e) = alias
  <2> DEFINE named == {c \in Channels : e.occ[c] \in Names}
  <2>1. CASE alias = NoAlias
    <3>1. named = {}
      BY <1>4, <1>5, <2>1
    <3>2. QED
      BY <2>1, <3>1 DEF AliasOf
  <2>2. CASE alias \in Names
    <3>1. named = to
      BY <1>3, <1>4, <1>5, <2>2
    <3>2. First(named) \in named
      BY <1>3, <3>1, FirstIsMember
    <3>3. e.occ[First(named)] = alias
      BY <1>3, <1>4, <3>1, <3>2
    <3>4. QED
      BY <1>3, <3>1, <3>3 DEF AliasOf
  <2>3. QED
    BY <1>3, <2>1, <2>2 DEF Alias
<1>7. {c \in Channels : e.occ[c] # Absent} = to
  BY <1>3, <1>4, <1>5
<1>8. Canonical(r, e) = Canonical(r, cat[r])
  BY <1>6 DEF Canonical, alias
<1>9. Targets(r, e, m) = to
  BY <1>7, <1>8 DEF Targets, to
<1>10. ~Hidden(r, e, m)
  BY <1>6 DEF Hidden, RuledOut, Written, alias
<1>11. QED
  BY <1>6, <1>7, <1>9, <1>10 DEF e, out, alias, to

\* What the load after the write makes of each model: the written ones as
\* CPA holds them, of the others those a rule or a mark hides.
LEMMA WriteReloaded ==
    ASSUME NEW cat \in Catalog, Sound(cat), NEW m \in Marks, NEW snap \in Config,
           NEW r \in Refs
    PROVE  LET out   == BuildWrite(cat, m, snap)
               again == Reloaded(Prune(MarkWithheld(cat, m), m), m, out)
           IN  /\ Known(snap, r[1]) /\ Written(cat, m, r)
                    => again[r] = LiveEntry(out, r, FALSE)
               /\ ~(Known(snap, r[1]) /\ Written(cat, m, r)) /\ again[r] # NoEntry
                    => /\ again[r].gone = FALSE /\ again[r].present = FALSE
                       /\ Hidden(r, again[r], m)
<1> DEFINE out   == BuildWrite(cat, m, snap)
           left  == Prune(MarkWithheld(cat, m), m)
           rec   == Reconcile(left, out)
           again == Reloaded(left, m, out)
<1>1. r[1] \in Sites
  BY DEF Refs
<1>2. Live(out, r) <=> Known(snap, r[1]) /\ Written(cat, m, r)
  BY <1>1, WriteKnown, WriteHolds DEF Live
<1>3. left[r] # NoEntry =>
          /\ cat[r] # NoEntry
          /\ left[r] = [cat[r] EXCEPT !.withheld = ~cat[r].gone /\ Hidden(r, cat[r], m)]
  BY DEF MarkWithheld, Prune
<1>4. cat[r] # NoEntry => cat[r] \in Entry /\ SoundEntry(cat[r])
  BY EntryOf DEF Sound
<1>5. again[r] = IF /\ rec[r] # NoEntry
                    /\ \/ rec[r].present \/ rec[r].pending \/ rec[r].withheld
                       \/ ~rec[r].gone /\ Hidden(r, rec[r], m)
                 THEN rec[r] ELSE NoEntry
  BY DEF Reloaded, Prune
<1>6. CASE Known(snap, r[1]) /\ Written(cat, m, r)
  <2>1. ~(left[r] # NoEntry /\ left[r].gone)
    BY <1>3, <1>4, <1>6 DEF Written, Entry
  <2>2. rec[r] = LiveEntry(out, r, left[r] # NoEntry /\ left[r].gone)
    BY <1>2, <1>6 DEF Reconcile
  <2>3. (left[r] # NoEntry /\ left[r].gone) = FALSE
    BY <2>1
  <2>4. rec[r] = LiveEntry(out, r, FALSE)
    BY <2>2, <2>3
  <2> HIDE DEF rec, out, left
  <2>5. rec[r].present = TRUE
    BY <2>4 DEF LiveEntry
  <2>6. LiveEntry(out, r, FALSE) # NoEntry
    BY <1>1, WriteType, LiveEntryType, EntryAssumption DEF out
  <2>7. again[r] = LiveEntry(out, r, FALSE)
    BY <1>5, <2>4, <2>5, <2>6
  <2>8. QED
    BY <1>6, <2>7 DEF out, left
<1>7. CASE ~(Known(snap, r[1]) /\ Written(cat, m, r))
  <2>1. SUFFICES ASSUME again[r] # NoEntry
                 PROVE  /\ again[r].gone = FALSE /\ again[r].present = FALSE
                        /\ Hidden(r, again[r], m)
    BY <1>7
  <2>2. /\ left[r] # NoEntry /\ Known(out, r[1])
        /\ rec[r] = [left[r] EXCEPT !.present = FALSE]
    BY <1>2, <1>5, <1>7, <2>1 DEF Reconcile
  <2>3. cat[r] \in Entry /\ SoundEntry(cat[r])
    BY <1>3, <1>4, <2>2
  <2>4. Known(snap, r[1]) /\ ~Written(cat, m, r)
    BY <1>1, <1>7, <2>2, WriteKnown
  <2>5. /\ rec[r].occ = cat[r].occ /\ rec[r].gone = cat[r].gone
        /\ rec[r].present = FALSE /\ rec[r].pending = cat[r].pending
        /\ rec[r].withheld = (~cat[r].gone /\ Hidden(r, cat[r], m))
    BY <1>3, <2>2, <2>3 DEF Entry
  <2>6. Hidden(r, rec[r], m) <=> Hidden(r, cat[r], m)
    BY <2>5 DEF Hidden, RuledOut, AliasOf
  <2>7. again[r] = rec[r]
    BY <1>5, <2>1
  <2>8. cat[r].gone = FALSE
    BY <1>5, <2>1, <2>3, <2>5 DEF SoundEntry, Entry
  <2>9. QED
    BY <1>3, <2>2, <2>4, <2>5, <2>6, <2>7, <2>8 DEF Written
<1>8. QED
  BY <1>6, <1>7

\* A write settles: the load after it has nothing left to do.
LEMMA WriteSettles ==
    ASSUME NEW cat \in Catalog, Sound(cat), NEW m \in Marks, NEW snap \in Config
    PROVE  Settles(Prune(MarkWithheld(cat, m), m), m, BuildWrite(cat, m, snap))
<1> DEFINE out   == BuildWrite(cat, m, snap)
           again == Reloaded(Prune(MarkWithheld(cat, m), m), m, out)
           Kept(r) == Known(snap, r[1]) /\ Written(cat, m, r)
<1>1. \A r \in Refs :
          /\ Kept(r) => again[r] = LiveEntry(out, r, FALSE)
          /\ ~Kept(r) /\ again[r] # NoEntry
               => /\ again[r].gone = FALSE /\ again[r].present = FALSE
                  /\ Hidden(r, again[r], m)
  BY WriteReloaded
<1>2. \A r \in Refs : Kept(r) =>
          /\ again[r].present = TRUE /\ again[r].pending = FALSE /\ again[r].gone = FALSE
          /\ AliasOf(again[r]) = AliasOf(cat[r])
          /\ Targets(r, again[r], m) = Targets(r, cat[r], m)
          /\ {c \in Channels : again[r].occ[c] # Absent} = Targets(r, again[r], m)
          /\ ~Hidden(r, again[r], m)
  <2> SUFFICES ASSUME NEW r \in Refs, Kept(r)
               PROVE  LET e == LiveEntry(out, r, FALSE)
                      IN  /\ e.present = TRUE /\ e.pending = FALSE /\ e.gone = FALSE
                          /\ AliasOf(e) = AliasOf(cat[r])
                          /\ Targets(r, e, m) = Targets(r, cat[r], m)
                          /\ {c \in Channels : e.occ[c] # Absent} = Targets(r, e, m)
                          /\ ~Hidden(r, e, m)
    BY <1>1
  <2>1. LET e == LiveEntry(out, r, FALSE)
        IN  e.present = TRUE /\ e.pending = FALSE /\ e.gone = FALSE
    BY DEF LiveEntry
  <2> DEFINE e == LiveEntry(out, r, FALSE)
  <2>2. /\ AliasOf(e) = AliasOf(cat[r])
        /\ Targets(r, e, m) = Targets(r, cat[r], m)
        /\ {c \in Channels : e.occ[c] # Absent} = Targets(r, cat[r], m)
        /\ ~Hidden(r, e, m)
    BY ReadBack
  <2> HIDE DEF e
  <2>3. QED
    BY <2>1, <2>2 DEF e
<1> HIDE DEF again, out
<1>3. Settled(again, m)
  <2> SUFFICES ASSUME NEW r \in Refs, again[r] # NoEntry
               PROVE  LET e == again[r]
                      IN  /\ e.pending => Hidden(r, e, m)
                          /\ e.gone => ~e.present
                          /\ ~e.gone => (e.present <=> ~Hidden(r, e, m))
                          /\ ~e.gone /\ e.present /\ m.rules.route =>
                                {c \in Channels : e.occ[c] # Absent} = Targets(r, e, m)
    BY DEF Settled
  <2>1. QED
    BY <1>1, <1>2
<1>4. BuildWrite(again, m, out) = out
  <2>1. \A s \in Sites : Known(out, s) <=> Known(snap, s)
    BY WriteKnown DEF out
  <2>2. ASSUME NEW s \in Sites, NEW c \in Channels, Known(snap, s)
        PROVE  /\ Placed(again, m, s, c) = Placed(cat, m, s, c)
               /\ \A u \in Placed(cat, m, s, c) : AliasOf(again[<<s, u>>]) = AliasOf(cat[<<s, u>>])
    <3>1. ASSUME NEW u \in Upstreams
          PROVE  /\ u \in Placed(again, m, s, c) <=> u \in Placed(cat, m, s, c)
                 /\ u \in Placed(cat, m, s, c)
                      => AliasOf(again[<<s, u>>]) = AliasOf(cat[<<s, u>>])
      <4> DEFINE r == <<s, u>>
      <4>1. r \in Refs /\ r[1] = s
        BY DEF Refs
      <4>2. CASE Kept(r)
        <5>1. again[r] # NoEntry
          <6>1. again[r] = LiveEntry(out, r, FALSE)
            BY <1>1, <4>1, <4>2
          <6>2. LiveEntry(out, r, FALSE) \in Entry
            BY <4>1, WriteType, LiveEntryType DEF out
          <6>3. QED
            BY <6>1, <6>2, EntryAssumption
        <5>2. QED
          BY <1>2, <4>1, <4>2, <5>1 DEF Placed, Written
      <4>3. CASE ~Kept(r)
        BY <1>1, <2>2, <4>1, <4>3 DEF Placed, Written
      <4>4. QED
        BY <4>2, <4>3
    <3>2. QED
      BY <3>1 DEF Placed
  <2>3. ASSUME NEW c \in Channels, NEW s \in Sites
        PROVE  BuildWrite(again, m, out)[c][s] = out[c][s]
    <3>1. CASE ~Known(out, s) \/ (out[c][s] = NoProvider /\ Placed(again, m, s, c) = {})
      BY <3>1 DEF BuildWrite
    <3>2. CASE ~(~Known(out, s) \/ (out[c][s] = NoProvider /\ Placed(again, m, s, c) = {}))
      <4>1. BuildWrite(again, m, out)[c][s]
              = [u \in Upstreams |-> IF u \in Placed(again, m, s, c)
                                     THEN AliasOf(again[<<s, u>>]) ELSE Absent]
        BY <3>2 DEF BuildWrite
      <4>2. Known(snap, s)
        BY <2>1, <3>2
      <4>3. out[c][s] = [u \in Upstreams |-> IF u \in Placed(cat, m, s, c)
                                             THEN AliasOf(cat[<<s, u>>]) ELSE Absent]
        <5>1. ~(snap[c][s] = NoProvider /\ Placed(cat, m, s, c) = {})
          BY <2>2, <3>2, <4>2 DEF BuildWrite, out
        <5>2. QED
          BY <4>2, <5>1 DEF BuildWrite, out
      <4>4. QED
        BY <2>2, <4>1, <4>2, <4>3
    <3>3. QED
      BY <3>1, <3>2
  <2>4. out \in [Channels -> [Sites -> Provider \cup {NoProvider}]]
    <3>1. PICK s \in Sites : TRUE
      BY CatalogAssumption
    <3>2. QED
      BY <3>1, WriteType DEF out, Config, Listing
  <2>5. BuildWrite(again, m, out) = [c \in Channels |-> [s \in Sites |-> out[c][s]]]
    BY <2>3 DEF BuildWrite
  <2>6. QED
    BY <2>4, <2>5
<1>5. QED
  BY <1>3, <1>4 DEF Settles, again, out

-----------------------------------------------------------------------------
\* What each stage of a handler may count on.

Storing  == {"exclusions", "disabled", "keeps"}
FirstLap == Before \cup {"plan", "probe", "whitelist", "version", "route"}

\* The process serves a save: one a user asked for or one of the schedule.
Saves(p) == req[p].kind \in {"save", "auto"}

\* Which requests, and which rounds of reading, reach which steps.
Path(p) ==
    /\ pc[p] \in Outside => st[p] = Blank
    /\ pc[p] \in FirstLap => st[p].phase = "first"
    /\ pc[p] \in {"check", "conflict"} =>
           \/ st[p].phase = "first" /\ req[p].kind = "save"
           \/ st[p].phase = "save" /\ req[p].kind = "auto"
    /\ pc[p] \in {"probe", "merge"} => req[p].kind \in {"refresh", "refreshSite", "auto"}
    /\ pc[p] \in {"whitelist", "version", "route"} => req[p].kind = "settings"
    /\ st[p].phase = "reload" => req[p].kind = "refresh"

Paths == \A p \in Procs : Path(p)

\* Every catalog there is is sound.
CatalogsSound == Sound(catalog) /\ \A p \in Procs : Sound(st[p].cat)

\* From its write on, a save holds what settles; once CPA holds it too and
\* the store its marks, so does the rest of the world.
Converging(p) == Saves(p) =>
    /\ pc[p] \in Marking \cup Writing => st[p].marks.rules = settings
    /\ pc[p] \in Writing => \A c \in Channels \ st[p].todo : cpa[c] = st[p].out[c]
    /\ pc[p] \in Storing => cpa = st[p].out
    /\ pc[p] \in Writing \cup Storing =>
           /\ catalog = st[p].cat
           /\ Settles(st[p].cat, st[p].marks, st[p].out)
    /\ pc[p] \in {"disabled", "keeps"} => exclusions = st[p].marks.excl
    /\ pc[p] = "keeps" => disabled = st[p].marks.dis
    /\ pc[p] \in {"get", "base"} /\ st[p].phase = "final" =>
           Settles(catalog, StoredMarks, cpa)
    /\ pc[p] = "respond" =>
           /\ Settled(st[p].cat, st[p].marks)
           /\ BuildWrite(st[p].cat, st[p].marks, st[p].snap) = st[p].snap

ConvergeInv ==
    FreshInv /\ Roles /\ Paths /\ CatalogsSound /\ \A p \in Procs : Converging(p)

-----------------------------------------------------------------------------
\* What the larger steps leave in the locals of their handler.

\* A handler that reads again starts from an empty snapshot and catalog.
LEMMA StartReadLocals ==
    ASSUME TypeInv, NEW p \in Procs, NEW s \in Locals, NEW phase, StartRead(p, s, phase)
    PROVE  /\ st'[p].phase = phase /\ st'[p].snap = Blank.snap
           /\ st'[p].cat = Nothing /\ st'[p].found = s.found
BY DEF StartRead, TypeInv, TypeOK, Locals, Blank

\* A probe leaves the load alone.
LEMMA ProbeLocals ==
    ASSUME TypeInv, NEW p \in Procs, Probe(p)
    PROVE  /\ st'[p].phase = st[p].phase /\ st'[p].snap = st[p].snap
           /\ st'[p].cat = st[p].cat /\ st'[p].marks = st[p].marks
<1> DEFINE s     == st[p]
           asked == Asked(p)
           sweep == req[p].kind = "refresh" /\ Swept(s.snap) # s.snap
<1>1. PICK answer \in [asked -> ProbeChoices \cup {{}}] :
          st' = [st EXCEPT
               ![p].found = [x \in Sites |-> IF x \in asked THEN answer[x] ELSE {}],
               ![p].out   = IF sweep THEN Swept(s.snap) ELSE @,
               ![p].todo  = IF sweep THEN Differ(Swept(s.snap), s.snap) ELSE @]
  BY DEF Probe
<1> DEFINE found == [x \in Sites |-> IF x \in asked THEN answer[x] ELSE {}]
           out   == IF sweep THEN Swept(s.snap) ELSE s.out
           todo  == IF sweep THEN Differ(Swept(s.snap), s.snap) ELSE s.todo
<1>2. st' = [st EXCEPT ![p] = [s EXCEPT !.found = found, !.out = out, !.todo = todo]]
  BY <1>1
<1> HIDE DEF found, out, todo
<1>3. QED
  BY <1>2 DEF TypeInv, TypeOK, Locals

\* One operation of a draft, or of the schedule's suggestions.
LEMMA ApplyOpLocals ==
    ASSUME TypeInv, NEW p \in Procs, ApplyOp(p)
    PROVE  \E op \in st[p].left :
              /\ op \in Op
              /\ st'[p].cat = OpOnCatalog(st[p].cat, op)
              /\ st'[p].marks = OpOnMarks(st[p].cat, st[p].marks, op)
              /\ st'[p].left = st[p].left \ {op}
              /\ st'[p].phase = st[p].phase /\ st'[p].snap = st[p].snap
<1>0. st \in [Procs -> Locals] /\ st[p] \in Locals
  BY DEF TypeInv, TypeOK
<1>1. PICK op \in st[p].left :
          st' = [st EXCEPT ![p].cat   = OpOnCatalog(@, op),
                           ![p].marks = OpOnMarks(st[p].cat, @, op),
                           ![p].left  = @ \ {op}]
  BY DEF ApplyOp
<1>2. op \in Op
  BY <1>0 DEF Locals
<1>3. QED
  BY <1>0, <1>1, <1>2 DEF Locals

\* A load reconciles and prunes the cache, and stores what is left.
LEMMA LoadBaseLocals ==
    ASSUME TypeInv, NEW p \in Procs, LoadBase(p)
    PROVE  /\ pc[p] = "base" /\ pc'[p] = AfterLoad(p)
           /\ req' = req /\ cpa' = cpa /\ settings' = settings
           /\ exclusions' = exclusions /\ disabled' = disabled /\ keeps' = keeps
           /\ st'[p].phase = st[p].phase /\ st'[p].snap = st[p].snap
           /\ st'[p].marks \in Marks
           /\ req[p].kind # "settings" => st'[p].marks = StoredMarks
           /\ st'[p].cat = Reloaded(catalog, st'[p].marks, st[p].snap)
           /\ catalog' = st'[p].cat
<1> DEFINE marks == IF req[p].kind = "settings"
                    THEN [StoredMarks EXCEPT !.rules = req[p].rules] ELSE StoredMarks
           cat   == Prune(Reconcile(catalog, st[p].snap), marks)
<1>1. pc \in [Procs -> Labels] /\ st \in [Procs -> Locals] /\ st[p] \in Locals
  BY DEF TypeInv, TypeOK
<1>2. st' = [st EXCEPT ![p].cat = cat, ![p].marks = marks, ![p].left = req[p].ops]
  BY DEF LoadBase
<1>3. marks \in Marks
  <2>1. StoredMarks \in Marks
    BY DEF TypeInv, TypeOK, StoredMarks, Marks
  <2>2. req[p].rules \in Settings
    BY DEF TypeInv, TypeOK, Request
  <2>3. QED
    BY <2>1, <2>2 DEF Marks
<1>4. catalog' = cat /\ req' = req /\ cpa' = cpa /\ settings' = settings
      /\ exclusions' = exclusions /\ disabled' = disabled /\ keeps' = keeps
      /\ pc[p] = "base" /\ pc' = [pc EXCEPT ![p] = AfterLoad(p)]
  BY DEF LoadBase, Goto
<1>5. cat = Reloaded(catalog, marks, st[p].snap)
  BY DEF Reloaded
<1>6. req[p].kind # "settings" => marks = StoredMarks
  OBVIOUS
<1> HIDE DEF cat, marks
<1>7. /\ st'[p].cat = cat /\ st'[p].marks = marks
      /\ st'[p].phase = st[p].phase /\ st'[p].snap = st[p].snap
  BY <1>1, <1>2 DEF Locals
<1>8. QED
  BY <1>1, <1>3, <1>4, <1>5, <1>6, <1>7

\* The first step of a write stores the catalog and plans the PUTs.
LEMMA WriteCatalogLocals ==
    ASSUME TypeInv, NEW p \in Procs, WriteCatalog(p)
    PROVE  /\ pc[p] = "ops" /\ st[p].left = {}
           /\ pc'[p] = IF st'[p].todo = {} THEN "exclusions" ELSE "backup"
           /\ req' = req /\ cpa' = cpa /\ settings' = settings
           /\ exclusions' = exclusions /\ disabled' = disabled /\ keeps' = keeps
           /\ st'[p].phase = st[p].phase /\ st'[p].snap = st[p].snap
           /\ st'[p].marks = st[p].marks
           /\ st'[p].cat = Prune(MarkWithheld(st[p].cat, st[p].marks), st[p].marks)
           /\ st'[p].out = BuildWrite(st[p].cat, st[p].marks, st[p].snap)
           /\ st'[p].todo = Differ(st'[p].out, st[p].snap)
           /\ catalog' = st'[p].cat
<1> DEFINE s    == st[p]
           cat  == Prune(MarkWithheld(s.cat, s.marks), s.marks)
           out  == BuildWrite(s.cat, s.marks, s.snap)
           todo == Differ(out, s.snap)
<1>1. pc \in [Procs -> Labels] /\ st \in [Procs -> Locals] /\ s \in Locals
  BY DEF TypeInv, TypeOK
<1>2. /\ st' = [st EXCEPT ![p].cat = cat, ![p].out = out, ![p].todo = todo]
      /\ catalog' = cat /\ req' = req /\ cpa' = cpa /\ settings' = settings
      /\ exclusions' = exclusions /\ disabled' = disabled /\ keeps' = keeps
      /\ pc[p] = "ops" /\ s.left = {}
      /\ pc' = [pc EXCEPT ![p] = IF todo = {} THEN "exclusions" ELSE "backup"]
  BY DEF WriteCatalog, Goto
<1> HIDE DEF cat, out, todo
<1>3. /\ st'[p].cat = cat /\ st'[p].out = out /\ st'[p].todo = todo
      /\ st'[p].marks = s.marks /\ st'[p].phase = s.phase /\ st'[p].snap = s.snap
  BY <1>1, <1>2 DEF Locals
<1>4. QED
  BY <1>1, <1>2, <1>3 DEF cat, out, todo

\* A merge ends a refresh; the schedule goes on to save.
LEMMA MergeLocals ==
    ASSUME TypeInv, NEW p \in Procs, Merge(p)
    PROVE  LET s      == st[p]
               merged == MergeDiscovered(s.cat, s.snap, s.found)
           IN  /\ pc[p] = "merge" /\ catalog' = Prune(merged, s.marks)
               /\ cpa' = cpa /\ settings' = settings
               /\ exclusions' = exclusions /\ disabled' = disabled /\ keeps' = keeps
               /\ p = Scheduler =>
                     /\ pc'[p] = "get" /\ req'[p].kind = req[p].kind
                     /\ req'[p].fp = s.snap
                     /\ st'[p].phase = "save" /\ st'[p].cat = Nothing
               /\ p # Scheduler =>
                     /\ pc'[p] = "respond" /\ req' = req
                     /\ st'[p].phase = s.phase /\ st'[p].snap = s.snap
                     /\ st'[p].cat = Prune(merged, s.marks)
<1> DEFINE s      == st[p]
           merged == MergeDiscovered(s.cat, s.snap, s.found)
           cat    == Prune(merged, s.marks)
           ops    == Suggestions(merged)
           t      == [s EXCEPT !.found = Blank.found]
<1>1. /\ pc \in [Procs -> Labels] /\ st \in [Procs -> Locals] /\ s \in Locals
      /\ req \in [Procs -> Request] /\ req[p] \in Request
  BY DEF TypeInv, TypeOK
<1>2. /\ pc[p] = "merge" /\ catalog' = cat /\ cpa' = cpa /\ settings' = settings
      /\ exclusions' = exclusions /\ disabled' = disabled /\ keeps' = keeps
  BY DEF Merge
<1>3. p = Scheduler => /\ req' = [req EXCEPT ![p].fp = s.snap, ![p].ops = ops]
                       /\ StartRead(p, t, "save") /\ pc' = [pc EXCEPT ![p] = "get"]
  BY DEF Merge, Goto
<1>4. p # Scheduler => /\ st' = [st EXCEPT ![p].cat = cat]
                       /\ pc' = [pc EXCEPT ![p] = "respond"] /\ req' = req
  BY DEF Merge, Goto
<1>5. t \in Locals
  BY <1>1, StartType DEF Locals
<1> HIDE DEF cat, ops, t
<1>6. p = Scheduler => /\ st'[p].phase = "save" /\ st'[p].cat = Nothing
                       /\ req'[p].kind = req[p].kind /\ req'[p].fp = s.snap
                       /\ pc'[p] = "get"
  BY <1>1, <1>3, <1>5, StartReadLocals DEF Request
<1>7. p # Scheduler => /\ st'[p].phase = s.phase /\ st'[p].snap = s.snap
                       /\ st'[p].cat = cat /\ pc'[p] = "respond" /\ req' = req
  BY <1>1, <1>4 DEF Locals
<1>8. QED
  BY <1>2, <1>6, <1>7 DEF cat

-----------------------------------------------------------------------------
\* Requests keep to their paths.

\* A step keeps its process on its path.
LEMMA PathStep ==
    ASSUME TypeInv, Roles, NEW p \in Procs, Path(p), Step(p)
    PROVE  Path(p)'
<1> USE DEF Goto, Outside, Before, FirstLap, Saves
<1>0. /\ pc \in [Procs -> Labels] /\ req \in [Procs -> Request]
      /\ st \in [Procs -> Locals] /\ st[p] \in Locals
  BY DEF TypeInv, TypeOK
<1>1. Role(p)
  BY DEF Roles
<1>2. CASE Leave(p)
  BY <1>0, <1>2 DEF Leave, Path, Blank
<1>3. CASE GetChannel(p)
  <2>1. pc[p] = "get" /\ pc'[p] \in {"get", "backup", "base"} /\ req' = req
    BY <1>0, <1>3 DEF GetChannel
  <2>2. st'[p].phase = st[p].phase
    BY <1>0, <1>3 DEF GetChannel, Locals
  <2>3. QED
    BY <2>1, <2>2 DEF Path
<1>4. CASE LoadBase(p)
  <2>1. /\ pc[p] = "base" /\ pc'[p] = AfterLoad(p) /\ req' = req
        /\ st'[p].phase = st[p].phase /\ st[p].phase \in Phases
    BY <1>0, <1>4, LoadBaseLocals DEF Locals
  <2>2. /\ AfterLoad(p) \notin Outside \cup Before \cup {"conflict", "route", "version"}
        /\ AfterLoad(p) \in {"plan", "probe", "whitelist"} => st[p].phase = "first"
        /\ AfterLoad(p) = "check" => \/ st[p].phase = "first" /\ req[p].kind = "save"
                                     \/ st[p].phase = "save"
        /\ AfterLoad(p) = "probe" => req[p].kind \in {"refresh", "refreshSite", "auto"}
        /\ AfterLoad(p) = "whitelist" => req[p].kind = "settings"
        /\ AfterLoad(p) = "merge" => st[p].phase = "reload"
    BY DEF AfterLoad
  <2>3. st[p].phase = "save" => req[p].kind = "auto"
    BY <1>1, <2>1 DEF Role
  <2>4. QED
    BY <2>1, <2>2, <2>3 DEF Path
<1>5. CASE CheckFingerprint(p)
  BY <1>0, <1>5 DEF CheckFingerprint, Path
<1>6. CASE ApplyOp(p)
  <2>1. pc[p] = "ops" /\ pc' = pc /\ req' = req /\ st'[p].phase = st[p].phase
    BY <1>6, ApplyOpLocals DEF ApplyOp
  <2>2. QED
    BY <2>1 DEF Path
<1>7. CASE WriteCatalog(p)
  BY <1>7, WriteCatalogLocals DEF Path
<1>8. CASE SetExclusions(p) \/ SetDisabled(p)
  BY <1>0, <1>8 DEF SetExclusions, SetDisabled, Path
<1>9. CASE SetKeeps(p)
  <2>1. pc'[p] = "get" /\ req' = req /\ st'[p].phase = "final"
    BY <1>0, <1>9, StartReadLocals DEF SetKeeps
  <2>2. QED
    BY <2>1 DEF Path
<1>10. CASE AddSnapshot(p) \/ PruneSnapshots(p)
  BY <1>0, <1>10 DEF AddSnapshot, PruneSnapshots, Path
<1>11. CASE PutChannel(p)
  <2>1. st'[p].phase = st[p].phase /\ pc[p] = "put" /\ pc' = pc /\ req' = req
    BY <1>0, <1>11 DEF PutChannel, Locals
  <2>2. QED
    BY <2>1 DEF Path
<1>12. CASE PutsDone(p)
  <2>1. CASE req[p].kind \in {"save", "auto"}
    BY <1>0, <1>12, <2>1 DEF PutsDone, AfterPut, Path
  <2>2. CASE req[p].kind \notin {"save", "auto"}
    <3>1. PICK phase \in {"reload", "final"} :
              StartRead(p, st[p], phase) /\ (phase = "reload" => req[p].kind = "refresh")
      BY <1>12, <2>2 DEF PutsDone
    <3>2. pc'[p] = "get" /\ req' = req /\ st'[p].phase = phase
      BY <1>0, <1>12, <2>2, <3>1, StartReadLocals DEF PutsDone, AfterPut
    <3>3. QED
      BY <3>1, <3>2 DEF Path
  <2>3. QED
    BY <2>1, <2>2
<1>13. CASE Probe(p)
  <2>1. /\ pc[p] = "probe" /\ pc'[p] \in {"backup", "merge"} /\ req' = req
    BY <1>0, <1>13 DEF Probe
  <2>2. QED
    BY <1>13, <2>1, ProbeLocals DEF Path
<1>14. CASE Merge(p)
  BY <1>14, MergeLocals DEF Path
<1>15. CASE SetWhitelist(p) \/ SetVersionFilter(p) \/ SetRouteByProtocol(p)
  BY <1>0, <1>15 DEF SetWhitelist, SetVersionFilter, SetRouteByProtocol, Path
<1>16. CASE ~Leave(p) /\ (ReadSnapshot(p) \/ ProbeEgg(p) \/ Plan(p))
  <2>1. st'[p].phase = st[p].phase
    BY <1>0, <1>16 DEF ReadSnapshot, ProbeEgg, Plan, Locals
  <2>2. pc[p] \in {"payload", "eggprobe", "plan"} /\ pc'[p] \in {"get", "backup"} /\ req' = req
    BY <1>0, <1>16 DEF ReadSnapshot, ProbeEgg, Plan
  <2>3. QED
    BY <2>1, <2>2 DEF Path
<1>17. QED
  BY <1>2, <1>3, <1>4, <1>5, <1>6, <1>7, <1>8, <1>9, <1>10, <1>11, <1>12, <1>13,
     <1>14, <1>15, <1>16
     DEF Step, GetFails, Respond, Conflict, PutFails, ProbeFails

\* Whoever steps.
LEMMA PathsKept ==
    ASSUME TypeInv, Roles, Paths, [Next]_vars
    PROVE  Paths'
<1> USE DEF Paths
<1>1. ASSUME NEW p \in Procs, Step(p), NEW q \in Procs
      PROVE  Path(q)'
  <2>1. CASE q = p
    BY <1>1, <2>1, PathStep
  <2>2. CASE q # p
    BY <1>1, <2>2, Locality DEF Path, Saves
  <2>3. QED
    BY <2>1, <2>2
<1>2. ASSUME NEW p \in Procs, Arrive(p) \/ Lock(p), NEW q \in Procs
      PROVE  Path(q)'
  <2>1. CASE q = p
    <3>1. /\ pc[p] \in Outside /\ pc'[p] \in Before \cup {"get"} /\ st' = st
          /\ pc'[p] \in Outside \/ pc'[p] \in {"payload", "eggprobe", "get"}
      BY <1>2 DEF Arrive, Lock, Goto, TypeInv, TypeOK, Outside, Before
    <3>2. st[p] = Blank /\ Blank.phase = "first"
      BY <3>1 DEF Path, Blank
    <3>3. QED
      BY <2>1, <3>1, <3>2 DEF Path, Outside, Before, FirstLap
  <2>2. CASE q # p
    BY <1>2, <2>2, Locality DEF Path, Saves
  <2>3. QED
    BY <2>1, <2>2
<1>3. ASSUME ExternalEdit \/ UNCHANGED vars
      PROVE  Paths'
  BY <1>3 DEF ExternalEdit, vars, Path, Saves
<1>4. ASSUME Crash
      PROVE  Paths'
  BY <1>4 DEF Crash, Path, Blank
<1>5. QED
  BY <1>1, <1>2, <1>3, <1>4 DEF Next

-----------------------------------------------------------------------------
\* Catalogs stay sound.

\* An empty catalog is sound.
LEMMA NothingSound == Sound(Nothing) /\ Sound(Blank.cat)
BY DEF Sound, Nothing, Blank

\* A step leaves a sound catalog in the cache and in its process.
LEMMA SoundStep ==
    ASSUME TypeInv, CatalogsSound, NEW p \in Procs, Step(p)
    PROVE  Sound(catalog') /\ Sound(st'[p].cat)
<1> USE DEF Goto
<1>0. /\ st \in [Procs -> Locals] /\ st[p] \in Locals /\ catalog \in Catalog
      /\ st[p].cat \in Catalog
  BY DEF TypeInv, TypeOK, Locals
<1>1. Sound(catalog) /\ Sound(st[p].cat)
  BY DEF CatalogsSound
<1>2. CASE catalog' = catalog /\ st'[p].cat \in {st[p].cat, Nothing}
  BY <1>1, <1>2, NothingSound
<1>3. CASE LoadBase(p)
  <2>1. Sound(Reconcile(catalog, st[p].snap))
    BY <1>0, <1>1, ReconcileSound
  <2>2. Sound(Reloaded(catalog, st'[p].marks, st[p].snap))
    BY <2>1, PruneSound DEF Reloaded
  <2>3. QED
    BY <1>3, <2>2, LoadBaseLocals
<1>4. CASE ApplyOp(p)
  <2>1. catalog' = catalog
    BY <1>4 DEF ApplyOp, store
  <2>2. QED
    BY <1>0, <1>1, <1>4, <2>1, ApplyOpLocals, OpSound
<1>5. CASE WriteCatalog(p)
  <2>1. Sound(MarkWithheld(st[p].cat, st[p].marks))
    BY <1>0, <1>1, MarkWithheldSound
  <2>2. QED
    BY <1>5, <2>1, PruneSound, WriteCatalogLocals
<1>6. CASE Merge(p)
  <2>1. Sound(MergeDiscovered(st[p].cat, st[p].snap, st[p].found))
    BY <1>0, <1>1, MergeSound
  <2>2. Sound(Prune(MergeDiscovered(st[p].cat, st[p].snap, st[p].found), st[p].marks))
    BY <2>1, PruneSound
  <2>3. QED
    BY <1>6, <2>2, MergeLocals, NothingSound
<1>7. CASE Leave(p) /\ store' = store
  BY <1>0, <1>2, <1>7 DEF Leave, Blank, store
<1>8. CASE GetChannel(p) \/ CheckFingerprint(p)
  BY <1>0, <1>2, <1>8 DEF GetChannel, CheckFingerprint, Locals, store
<1>9. CASE SetExclusions(p) \/ SetDisabled(p) \/ AddSnapshot(p) \/ PruneSnapshots(p)
  BY <1>0, <1>2, <1>9 DEF SetExclusions, SetDisabled, AddSnapshot, PruneSnapshots
<1>10. CASE SetKeeps(p)
  <2>1. st'[p].cat = Nothing /\ catalog' = catalog
    BY <1>0, <1>10, StartReadLocals DEF SetKeeps
  <2>2. QED
    BY <1>2, <2>1
<1>11. CASE PutChannel(p)
  BY <1>0, <1>2, <1>11 DEF PutChannel, Locals, store
<1>12. CASE PutsDone(p)
  <2>1. CASE st' = st
    BY <1>2, <1>12, <2>1 DEF PutsDone, store
  <2>2. CASE st' # st
    <3>1. PICK phase \in {"reload", "final"} : StartRead(p, st[p], phase)
      BY <1>12, <2>2 DEF PutsDone
    <3>2. st'[p].cat = Nothing /\ catalog' = catalog
      BY <1>0, <1>12, <3>1, StartReadLocals DEF PutsDone, store
    <3>3. QED
      BY <1>2, <3>2
  <2>3. QED
    BY <2>1, <2>2
<1>13. CASE Probe(p)
  <2>1. st'[p].cat = st[p].cat /\ catalog' = catalog
    BY <1>13, ProbeLocals DEF Probe, store
  <2>2. QED
    BY <1>2, <2>1
<1>14. CASE SetWhitelist(p) \/ SetVersionFilter(p) \/ SetRouteByProtocol(p)
  BY <1>2, <1>14 DEF SetWhitelist, SetVersionFilter, SetRouteByProtocol
<1>15. CASE ~Leave(p) /\ (ReadSnapshot(p) \/ ProbeEgg(p) \/ Plan(p))
  <2>1. st'[p].cat = st[p].cat /\ catalog' = catalog
    BY <1>0, <1>15 DEF ReadSnapshot, ProbeEgg, Plan, Locals, store
  <2>2. QED
    BY <1>2, <2>1
<1>16. QED
  BY <1>3, <1>4, <1>5, <1>6, <1>7, <1>8, <1>9, <1>10, <1>11, <1>12, <1>13, <1>14, <1>15
     DEF Step, GetFails, Respond, Conflict, PutFails, ProbeFails, ReadSnapshot,
         ProbeEgg, Plan, store

\* And no other process's catalog changes.
LEMMA CatalogsSoundKept ==
    ASSUME TypeInv, CatalogsSound, [Next]_vars
    PROVE  CatalogsSound'
<1>1. ASSUME NEW p \in Procs, Step(p)
      PROVE  CatalogsSound'
  <2>1. Sound(catalog') /\ Sound(st'[p].cat)
    BY <1>1, SoundStep
  <2>2. \A q \in Procs : q # p => st'[q] = st[q]
    BY <1>1, Locality
  <2>3. QED
    BY <2>1, <2>2 DEF CatalogsSound
<1>2. ASSUME NEW p \in Procs, Arrive(p) \/ Lock(p)
      PROVE  CatalogsSound'
  BY <1>2 DEF Arrive, Lock, store, CatalogsSound
<1>3. ASSUME ExternalEdit \/ UNCHANGED vars
      PROVE  CatalogsSound'
  BY <1>3 DEF ExternalEdit, store, vars, CatalogsSound
<1>4. ASSUME Crash
      PROVE  CatalogsSound'
  BY <1>4, NothingSound DEF Crash, store, CatalogsSound
<1>5. QED
  BY <1>1, <1>2, <1>3, <1>4 DEF Next

-----------------------------------------------------------------------------
\* A save converges.

\* An operation leaves the settings of the load alone.
LEMMA OpRules ==
    ASSUME NEW cat, NEW m \in Marks, NEW op
    PROVE  OpOnMarks(cat, m, op).rules = m.rules
BY DEF OpOnMarks, Marks

\* Two configurations that differ nowhere are one.
LEMMA NoDiffer ==
    ASSUME NEW a \in Config, NEW b \in Config, \A c \in Channels : a[c] = b[c]
    PROVE  a = b
<1>1. a = [c \in Channels |-> a[c]] /\ b = [c \in Channels |-> b[c]]
  BY DEF Config
<1>2. [c \in Channels |-> a[c]] = [c \in Channels |-> b[c]]
  OBVIOUS
<1>3. QED
  BY <1>1, <1>2

\* A step of a save keeps its promises.
LEMMA ConvergingStep ==
    ASSUME ConvergeInv, NEW p \in Procs, Step(p)
    PROVE  Converging(p)'
<1> USE DEF Goto, Marking, Writing, Storing
<1>0. /\ pc \in [Procs -> Labels] /\ req \in [Procs -> Request]
      /\ st \in [Procs -> Locals] /\ st[p] \in Locals /\ cpa \in Config
      /\ st[p].out \in Config /\ st[p].todo \subseteq Channels
      /\ st[p].cat \in Catalog /\ st[p].marks \in Marks
  BY DEF ConvergeInv, FreshInv, TypeInv, TypeOK, Locals
<1>1. /\ TypeInv /\ Role(p) /\ Path(p) /\ Current(p) /\ Converging(p)
      /\ Sound(st[p].cat)
  BY DEF ConvergeInv, FreshInv, Roles, Paths, Fresh, CatalogsSound
<1>2. CASE Leave(p)
  BY <1>0, <1>2 DEF Leave, Converging
<1>3. CASE GetChannel(p)
  <2>1. /\ pc[p] = "get" /\ req' = req /\ cpa' = cpa /\ catalog' = catalog
        /\ StoredMarks' = StoredMarks
        /\ pc'[p] \in {"get", "backup", "base"} /\ (pc'[p] = "backup" => ~Saves(p))
    BY <1>0, <1>3 DEF GetChannel, store, StoredMarks, Saves
  <2>2. st'[p].phase = st[p].phase
    BY <1>0, <1>3 DEF GetChannel, Locals
  <2>3. QED
    BY <1>1, <2>1, <2>2 DEF Converging, Saves
<1>4. CASE LoadBase(p)
  <2>1. /\ pc[p] = "base" /\ pc'[p] = AfterLoad(p)
        /\ req' = req /\ cpa' = cpa /\ settings' = settings
        /\ st'[p].phase = st[p].phase /\ st'[p].snap = st[p].snap
        /\ req[p].kind # "settings" => st'[p].marks = StoredMarks
        /\ st'[p].cat = Reloaded(catalog, st'[p].marks, st[p].snap)
    BY <1>1, <1>4, LoadBaseLocals
  <2>2. SUFFICES ASSUME Saves(p) PROVE Converging(p)'
    BY <2>1 DEF Converging, Saves
  <2>3. st'[p].marks = StoredMarks /\ StoredMarks.rules = settings
    BY <2>1, <2>2 DEF Saves, StoredMarks
  <2>4. st[p].snap = cpa
    BY <1>1, <2>1 DEF Current
  <2>5. /\ AfterLoad(p) \in {"check", "probe", "plan", "merge", "respond", "whitelist"}
        /\ AfterLoad(p) = "respond" => st[p].phase = "final"
    <3>1. st[p].phase \in Phases
      BY <1>0 DEF Locals
    <3>2. QED
      BY <2>2, <3>1 DEF AfterLoad, Phases, Saves
  <2>6. CASE AfterLoad(p) = "respond"
    <3>1. Settles(catalog, StoredMarks, cpa)
      BY <1>1, <2>1, <2>2, <2>5, <2>6 DEF Converging
    <3>2. st'[p].cat = Reloaded(catalog, StoredMarks, cpa) /\ st'[p].snap = cpa
      BY <2>1, <2>3, <2>4
    <3>3. QED
      BY <2>1, <2>3, <2>6, <3>1, <3>2 DEF Converging, Settles
  <2>7. CASE AfterLoad(p) # "respond"
    BY <2>1, <2>3, <2>5, <2>7 DEF Converging
  <2>8. QED
    BY <2>6, <2>7
<1>5. CASE CheckFingerprint(p)
  BY <1>0, <1>1, <1>5 DEF CheckFingerprint, Converging, Saves, store
<1>6. CASE ApplyOp(p)
  <2>1. PICK op \in st[p].left : st'[p].marks = OpOnMarks(st[p].cat, st[p].marks, op)
    BY <1>1, <1>6, ApplyOpLocals
  <2>2. st'[p].marks.rules = st[p].marks.rules
    BY <1>0, <2>1, OpRules
  <2>3. pc[p] = "ops" /\ pc' = pc /\ req' = req /\ settings' = settings
    BY <1>6 DEF ApplyOp, store
  <2>4. QED
    BY <1>1, <2>2, <2>3 DEF Converging, Saves
<1>7. CASE WriteCatalog(p)
  <2>1. /\ pc[p] = "ops" /\ pc'[p] = IF st'[p].todo = {} THEN "exclusions" ELSE "backup"
        /\ req' = req /\ cpa' = cpa /\ settings' = settings
        /\ st'[p].marks = st[p].marks
        /\ st'[p].cat = Prune(MarkWithheld(st[p].cat, st[p].marks), st[p].marks)
        /\ st'[p].out = BuildWrite(st[p].cat, st[p].marks, st[p].snap)
        /\ st'[p].todo = Differ(st'[p].out, st[p].snap)
        /\ catalog' = st'[p].cat
    BY <1>1, <1>7, WriteCatalogLocals
  <2>2. st[p].snap = cpa
    BY <1>1, <2>1 DEF Current
  <2>3. Settles(st'[p].cat, st'[p].marks, st'[p].out)
    BY <1>0, <1>1, <2>1, <2>2, WriteSettles
  <2>4. \A c \in Channels \ st'[p].todo : cpa'[c] = st'[p].out[c]
    BY <2>1, <2>2 DEF Differ
  <2>5. st'[p].out \in Config
    <3>1. PICK s \in Sites : TRUE
      BY CatalogAssumption
    <3>2. BuildWrite(st[p].cat, st[p].marks, cpa) \in Config
      BY <1>0, <3>1, WriteType
    <3>3. QED
      BY <2>1, <2>2, <3>2
  <2>6. st'[p].todo = {} => cpa' = st'[p].out
    BY <1>0, <2>1, <2>4, <2>5, NoDiffer
  <2>7. QED
    BY <1>1, <2>1, <2>3, <2>4, <2>6 DEF Converging, Saves
<1>8. CASE SetExclusions(p)
  <2>1. /\ pc[p] = "exclusions" /\ pc'[p] = "disabled" /\ st' = st /\ req' = req
        /\ exclusions' = st[p].marks.excl /\ cpa' = cpa /\ catalog' = catalog
        /\ settings' = settings
    BY <1>0, <1>8 DEF SetExclusions
  <2>2. QED
    BY <1>1, <2>1 DEF Converging, Saves
<1>9. CASE SetDisabled(p)
  <2>1. /\ pc[p] = "disabled" /\ pc'[p] = "keeps" /\ st' = st /\ req' = req
        /\ disabled' = st[p].marks.dis /\ exclusions' = exclusions
        /\ cpa' = cpa /\ catalog' = catalog /\ settings' = settings
    BY <1>0, <1>9 DEF SetDisabled
  <2>2. QED
    BY <1>1, <2>1 DEF Converging, Saves
<1>10. CASE SetKeeps(p)
  <2>1. /\ pc[p] = "keeps" /\ pc'[p] = "get" /\ req' = req
        /\ keeps' = st[p].marks.keep /\ exclusions' = exclusions /\ disabled' = disabled
        /\ cpa' = cpa /\ catalog' = catalog /\ settings' = settings
    BY <1>0, <1>10 DEF SetKeeps
  <2>2. SUFFICES ASSUME Saves(p) PROVE Settles(catalog, StoredMarks', cpa)
    BY <2>1 DEF Converging, Saves
  <2>3. /\ exclusions = st[p].marks.excl /\ disabled = st[p].marks.dis
        /\ settings = st[p].marks.rules /\ catalog = st[p].cat /\ cpa = st[p].out
        /\ Settles(st[p].cat, st[p].marks, st[p].out)
    BY <1>1, <2>1, <2>2 DEF Converging
  <2>4. StoredMarks' = st[p].marks
    <3>1. StoredMarks' = [rules |-> st[p].marks.rules, excl |-> st[p].marks.excl,
                          dis |-> st[p].marks.dis, keep |-> st[p].marks.keep]
      BY <2>1, <2>3 DEF StoredMarks
    <3>2. QED
      BY <1>0, <3>1 DEF Marks
  <2>5. QED
    BY <2>3, <2>4
<1>11. CASE AddSnapshot(p) \/ PruneSnapshots(p)
  <2>1. /\ pc[p] \in {"backup", "trim"} /\ pc'[p] \in {"trim", "put"} /\ st' = st
        /\ req' = req /\ cpa' = cpa /\ catalog' = catalog /\ settings' = settings
    BY <1>0, <1>11 DEF AddSnapshot, PruneSnapshots
  <2>2. QED
    BY <1>1, <2>1 DEF Converging, Saves
<1>12. CASE PutChannel(p)
  <2> DEFINE c == First(st[p].todo)
  <2>1. /\ pc[p] = "put" /\ pc' = pc /\ req' = req /\ catalog' = catalog
        /\ settings' = settings /\ cpa' = [cpa EXCEPT ![c] = st[p].out[c]]
    BY <1>12 DEF PutChannel, store
  <2>2. /\ st'[p].todo = st[p].todo \ {c} /\ st'[p].out = st[p].out
        /\ st'[p].marks = st[p].marks /\ st'[p].cat = st[p].cat
    BY <1>0, <1>12 DEF PutChannel, Locals
  <2> HIDE DEF c
  <2>3. ASSUME Saves(p), NEW d \in Channels \ st'[p].todo
        PROVE  cpa'[d] = st'[p].out[d]
    <3>1. d = c \/ cpa[d] = st[p].out[d]
      BY <1>1, <2>1, <2>2, <2>3 DEF Converging
    <3>2. QED
      BY <1>0, <2>1, <2>2, <2>3, <3>1 DEF Config
  <2>4. QED
    BY <1>1, <2>1, <2>2, <2>3 DEF Converging, Saves
<1>13. CASE PutsDone(p)
  <2>1. CASE ~Saves(p)
    BY <1>13, <2>1 DEF PutsDone, Converging, Saves
  <2>2. CASE Saves(p)
    <3>1. /\ pc[p] = "put" /\ st[p].todo = {} /\ pc'[p] = "exclusions" /\ st' = st
          /\ req' = req /\ cpa' = cpa /\ catalog' = catalog /\ settings' = settings
      BY <1>0, <1>13, <2>2 DEF PutsDone, AfterPut, Saves, store
    <3>2. cpa = st[p].out
      BY <1>0, <1>1, <2>2, <3>1, NoDiffer DEF Converging
    <3>3. QED
      BY <1>1, <2>2, <3>1, <3>2 DEF Converging
  <2>3. QED
    BY <2>1, <2>2
<1>14. CASE Probe(p)
  <2>1. pc'[p] = "merge" \/ (pc'[p] = "backup" /\ req'[p].kind = "refresh")
    BY <1>0, <1>14 DEF Probe
  <2>2. QED
    BY <2>1 DEF Converging, Saves
<1>15. CASE Merge(p)
  <2>1. CASE p = Scheduler
    BY <1>1, <1>15, <2>1, MergeLocals DEF Converging
  <2>2. CASE p # Scheduler
    <3>1. pc[p] = "merge" /\ req' = req
      BY <1>1, <1>15, <2>2, MergeLocals
    <3>2. ~Saves(p)
      BY <1>1, <2>2, <3>1 DEF Path, Role, Saves
    <3>3. QED
      BY <3>1, <3>2 DEF Converging, Saves
  <2>3. QED
    BY <2>1, <2>2
<1>16. CASE SetWhitelist(p) \/ SetVersionFilter(p) \/ SetRouteByProtocol(p)
  <2>1. pc[p] \in {"whitelist", "version", "route"} /\ req' = req
    BY <1>16 DEF SetWhitelist, SetVersionFilter, SetRouteByProtocol
  <2>2. QED
    BY <1>1, <2>1 DEF Path, Converging, Saves
<1>17. CASE ~Leave(p) /\ (ReadSnapshot(p) \/ ProbeEgg(p))
  <2>1. pc[p] \in {"payload", "eggprobe"} /\ pc'[p] = "get"
    BY <1>0, <1>17 DEF ReadSnapshot, ProbeEgg
  <2>2. st'[p].phase = st[p].phase
    BY <1>0, <1>17 DEF ReadSnapshot, ProbeEgg, Locals
  <2>3. st[p].phase = "first"
    BY <1>1, <2>1 DEF Path, FirstLap, Before
  <2>4. QED
    BY <2>1, <2>2, <2>3 DEF Converging
<1>18. CASE ~Leave(p) /\ Plan(p)
  <2>1. pc[p] = "plan" /\ req' = req
    BY <1>18 DEF Plan
  <2>2. QED
    BY <1>1, <2>1 DEF Role, Converging, Saves
<1>19. QED
  BY <1>2, <1>3, <1>4, <1>5, <1>6, <1>7, <1>8, <1>9, <1>10, <1>11, <1>12, <1>13,
     <1>14, <1>15, <1>16, <1>17, <1>18
     DEF Step, GetFails, Respond, Conflict, PutFails, ProbeFails

\* Every step keeps the invariant, as long as nobody edits CPA while a handler
\* runs.
LEMMA ConvergeInvKept ==
    ASSUME ConvergeInv, [Next]_vars, ~EditsInFlight
    PROVE  ConvergeInv'
<1>0. /\ FreshInv /\ TypeInv /\ Exclusive /\ Roles /\ Paths /\ CatalogsSound
      /\ pc \in [Procs -> Labels]
  BY DEF ConvergeInv, FreshInv, TypeInv, TypeOK
<1>1. FreshInv' /\ Roles' /\ Paths' /\ CatalogsSound'
  BY <1>0, FreshInvKept, RolesKept, PathsKept, CatalogsSoundKept
<1>2. ASSUME NEW p \in Procs, Step(p), NEW q \in Procs
      PROVE  Converging(q)'
  <2>1. CASE q = p
    BY <1>2, <2>1, ConvergingStep
  <2>2. CASE q # p
    <3>1. pc'[q] = pc[q] /\ pc[q] \in Outside
      BY <1>0, <1>2, <2>2, Locality, Inside, Alone
    <3>2. QED
      BY <3>1 DEF Converging, Outside, Marking, Writing, Storing
  <2>3. QED
    BY <2>1, <2>2
<1>3. ASSUME NEW p \in Procs, Arrive(p) \/ Lock(p), NEW q \in Procs
      PROVE  Converging(q)'
  <2>1. CASE q = p
    <3>1. /\ pc[p] \in Outside
          /\ pc'[p] \in {"lock", "payload", "eggprobe", "get"} /\ st' = st
      BY <1>0, <1>3 DEF Arrive, Lock, Goto, Outside
    <3>2. st[p].phase = "first"
      BY <1>0, <3>1 DEF Paths, Path, Blank
    <3>3. QED
      BY <2>1, <3>1, <3>2 DEF Converging, Marking, Writing, Storing
  <2>2. CASE q # p
    <3>1. pc'[q] = pc[q] /\ req'[q] = req[q] /\ st'[q] = st[q]
      BY <1>0, <1>3, <2>2, Locality
    <3>2. /\ cpa' = cpa /\ catalog' = catalog /\ settings' = settings
          /\ exclusions' = exclusions /\ disabled' = disabled /\ keeps' = keeps
      BY <1>3 DEF Arrive, Lock, store
    <3>3. Converging(q)
      BY DEF ConvergeInv
    <3>4. StoredMarks' = StoredMarks /\ (Saves(q)' <=> Saves(q))
      BY <3>1, <3>2 DEF StoredMarks, Saves
    <3>5. QED
      BY <3>1, <3>2, <3>3, <3>4 DEF Converging
  <2>3. QED
    BY <2>1, <2>2
<1>4. ASSUME ExternalEdit, NEW q \in Procs
      PROVE  Converging(q)'
  <2>1. mu = NoProc /\ pc' = pc
    BY <1>4 DEF ExternalEdit
  <2>2. pc[q] \in Outside
    BY <1>0, <2>1, PanelAssumption DEF Exclusive
  <2>3. QED
    BY <2>1, <2>2 DEF Converging, Outside, Marking, Writing, Storing
<1>5. ASSUME Crash, NEW q \in Procs
      PROVE  Converging(q)'
  BY <1>5 DEF Crash, Converging, Marking, Writing, Storing
<1>6. ASSUME UNCHANGED vars, NEW q \in Procs
      PROVE  Converging(q)'
  <2>1. Converging(q)
    BY DEF ConvergeInv
  <2>2. QED
    BY <1>6, <2>1 DEF vars, Converging, Saves, StoredMarks
<1>7. QED
  BY <1>1, <1>2, <1>3, <1>4, <1>5, <1>6 DEF Next, ConvergeInv

\* Nothing is promised at the start.
LEMMA ConvergeInit == Init => ConvergeInv
<1> SUFFICES ASSUME Init PROVE ConvergeInv
  OBVIOUS
<1>1. FreshInv
  BY FreshInit
<1>2. Roles
  BY DEF Init, Roles, Role, Blank, Marking
<1>3. Paths
  BY DEF Init, Paths, Path, Blank
<1>4. CatalogsSound
  BY NothingSound DEF Init, CatalogsSound
<1>5. \A p \in Procs : Converging(p)
  BY DEF Init, Converging, Marking, Writing, Storing
<1>6. QED
  BY <1>1, <1>2, <1>3, <1>4, <1>5 DEF ConvergeInv

\* One save converges: what a save or a scheduled run answers with has
\* nothing left to add, to remove or to move, and saving it again would
\* write what CPA holds.  Failing calls and crashes are allowed for; edits
\* in CPA while a handler runs are not.
THEOREM OneSaveConverges ==
    ASSUME ~EditsInFlight
    PROVE  Spec => []SaveConverges
<1>1. ConvergeInv /\ [Next]_vars => ConvergeInv'
  BY ConvergeInvKept
<1>2. ConvergeInv => SaveConverges
  BY DEF ConvergeInv, Converging, Saves, SaveConverges
<1>3. QED
  BY ConvergeInit, <1>1, <1>2, PTL DEF Spec
=============================================================================
