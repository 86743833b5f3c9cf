---------------------------- MODULE HistoryProofs ----------------------------
(***************************************************************************)
(* What the panel owes its users and what must not come back, for every    *)
(* value of the constants: the properties of PanelHistory.                 *)
(***************************************************************************)
EXTENDS PanelProofs, PanelHistory

USE CatalogAssumption

-----------------------------------------------------------------------------
\* What the operators make of one entry.

\* A load drops the models of a site the panel does not know.
LEMMA ReloadUnknown ==
    ASSUME NEW cat, NEW m, NEW snap, NEW r \in Refs, ~Known(snap, r[1])
    PROVE  Reloaded(cat, m, snap)[r] = NoEntry
BY DEF Reloaded, Prune, Reconcile, Live

\* It keeps a model CPA holds, present and with nothing left to write, and
\* forgets only that it was absent.
LEMMA ReloadLive ==
    ASSUME NEW cat \in Catalog, NEW m, NEW snap \in Config, NEW r \in Refs,
           Live(snap, r)
    PROVE  LET e == Reloaded(cat, m, snap)[r]
           IN  /\ e # NoEntry
               /\ e.present /\ ~e.pending /\ ~e.withheld
               /\ e.gone <=> cat[r] # NoEntry /\ cat[r].gone
<1> DEFINE gone == cat[r] # NoEntry /\ cat[r].gone
           e    == LiveEntry(snap, r, gone)
<1>1. gone \in BOOLEAN
  BY DEF Catalog, Entry
<1>2. e # NoEntry
  BY <1>1, LiveEntryType, EntryAssumption
<1>3. e.present /\ ~e.pending /\ ~e.withheld /\ (e.gone <=> gone)
  BY DEF LiveEntry
<1>4. Reconcile(cat, snap)[r] = e
  BY DEF Reconcile
<1> HIDE DEF e
<1>5. Reloaded(cat, m, snap)[r] = e
  BY <1>2, <1>3, <1>4 DEF Reloaded, Prune
<1>6. QED
  BY <1>2, <1>3, <1>5

\* What CPA does not hold it keeps only with a reason, and only marks absent.
LEMMA ReloadAbsent ==
    ASSUME NEW cat \in Catalog, NEW m, NEW snap, NEW r \in Refs,
           Known(snap, r[1]), ~Holds(snap, r)
    PROVE  LET e == Reloaded(cat, m, snap)[r]
           IN  /\ e # NoEntry =>
                     /\ cat[r] # NoEntry /\ e = [cat[r] EXCEPT !.present = FALSE]
                     /\ e.pending \/ e.withheld \/ (~e.gone /\ Hidden(r, e, m))
               /\ cat[r] # NoEntry /\ cat[r].withheld => e # NoEntry
<1> DEFINE kept == [cat[r] EXCEPT !.present = FALSE]
<1>1. Reconcile(cat, snap)[r] = IF cat[r] = NoEntry THEN NoEntry ELSE kept
  BY DEF Reconcile, Live
<1>2. CASE cat[r] = NoEntry
  BY <1>1, <1>2 DEF Reloaded, Prune
<1>3. CASE cat[r] # NoEntry
  <2>1. cat[r] \in Entry
    BY <1>3, EntryOf
  <2>2. /\ kept \in Entry /\ kept.present = FALSE /\ kept.pending = cat[r].pending
        /\ kept.withheld = cat[r].withheld /\ kept.gone = cat[r].gone
    BY <2>1 DEF Entry
  <2>3. kept # NoEntry
    BY <2>2, EntryAssumption
  <2> DEFINE e   == Reloaded(cat, m, snap)[r]
             rec == Reconcile(cat, snap)
  <2>4. e = IF /\ rec[r] # NoEntry
               /\ \/ rec[r].present \/ rec[r].pending \/ rec[r].withheld
                  \/ ~rec[r].gone /\ Hidden(r, rec[r], m)
            THEN rec[r] ELSE NoEntry
    BY DEF Reloaded, Prune
  <2> HIDE DEF kept, e, rec
  <2>5. rec[r] = kept
    BY <1>1, <1>3 DEF rec
  <2>6. /\ e \in {kept, NoEntry}
        /\ e # NoEntry => kept.pending \/ kept.withheld \/ (~kept.gone /\ Hidden(r, kept, m))
        /\ kept.withheld => e = kept
    BY <2>2, <2>3, <2>4, <2>5
  <2>7. /\ e # NoEntry => e = kept /\ (e.pending \/ e.withheld \/ (~e.gone /\ Hidden(r, e, m)))
        /\ cat[r].withheld => e # NoEntry
    BY <2>2, <2>3, <2>6
  <2>8. QED
    BY <1>3, <2>7 DEF e, kept
<1>4. QED
  BY <1>2, <1>3

\* An operation of a draft changes nothing of an entry but its aliases.
LEMMA OpKeeps ==
    ASSUME NEW cat \in Catalog, NEW op \in Op, NEW r \in Refs
    PROVE  LET e == OpOnCatalog(cat, op)[r]
           IN  /\ e = NoEntry <=> cat[r] = NoEntry
               /\ cat[r] # NoEntry =>
                     /\ e.present <=> cat[r].present
                     /\ e.pending <=> cat[r].pending
                     /\ e.withheld <=> cat[r].withheld
                     /\ e.gone <=> cat[r].gone
<1> DEFINE next == IF op.to = op.ref[2] THEN NoAlias ELSE op.to
           occ  == [c \in Channels |-> IF cat[op.ref].occ[c] = Absent THEN Absent ELSE next]
<1>1. CASE OpOnCatalog(cat, op)[r] = cat[r]
  BY <1>1
<1>2. CASE OpOnCatalog(cat, op)[r] # cat[r]
  <2>1. cat[op.ref] # NoEntry /\ OpOnCatalog(cat, op) = Rename(cat, op)
    BY <1>2 DEF OpOnCatalog
  <2>2. Rename(cat, op) = [cat EXCEPT ![op.ref] = [cat[op.ref] EXCEPT !.occ = occ]]
    BY DEF Rename
  <2>3. next \in Slot
    BY DEF Op, Slot, Alias
  <2> HIDE DEF next
  <2>4. occ \in [Channels -> Slot]
    BY <2>3 DEF Slot
  <2> HIDE DEF occ
  <2>5. r = op.ref /\ OpOnCatalog(cat, op)[r] = [cat[r] EXCEPT !.occ = occ]
    BY <1>2, <2>1, <2>2 DEF Catalog
  <2>6. cat[r] \in Entry
    BY <2>1, <2>5, EntryOf
  <2>7. [cat[r] EXCEPT !.occ = occ] \in Entry
    BY <2>4, <2>6 DEF Entry
  <2>8. QED
    BY <2>1, <2>5, <2>6, <2>7, EntryAssumption DEF Entry
<1>3. QED
  BY <1>1, <1>2

\* A write keeps the entries it has a reason to keep: those CPA holds, and
\* those it leaves out of CPA itself.
LEMMA WriteKeeps ==
    ASSUME NEW cat \in Catalog, NEW m, NEW r \in Refs
    PROVE  LET e == Prune(MarkWithheld(cat, m), m)[r]
           IN  /\ e # NoEntry => cat[r] # NoEntry /\ (e.gone <=> cat[r].gone)
               /\ cat[r] # NoEntry /\ cat[r].present => e # NoEntry
               /\ cat[r] # NoEntry /\ ~cat[r].gone /\ Hidden(r, cat[r], m)
                    => e # NoEntry /\ e.withheld
<1> DEFINE held   == ~cat[r].gone /\ Hidden(r, cat[r], m)
           marked == [cat[r] EXCEPT !.withheld = held]
<1>1. CASE cat[r] = NoEntry
  BY <1>1 DEF MarkWithheld, Prune
<1>2. CASE cat[r] # NoEntry
  <2>1. cat[r] \in Entry
    BY <1>2, EntryOf
  <2>2. held \in BOOLEAN
    BY DEF Hidden, RuledOut
  <2>3. MarkWithheld(cat, m)[r] = marked
    BY <1>2 DEF MarkWithheld
  <2>4. /\ marked \in Entry /\ marked.withheld = held
        /\ marked.gone = cat[r].gone /\ marked.present = cat[r].present
    <3> HIDE DEF held
    <3>1. QED
      BY <2>1, <2>2 DEF Entry
  <2>5. marked # NoEntry
    BY <2>4, EntryAssumption
  <2> HIDE DEF marked
  <2>6. /\ Prune(MarkWithheld(cat, m), m)[r] \in {marked, NoEntry}
        /\ marked.present \/ marked.withheld
             => Prune(MarkWithheld(cat, m), m)[r] = marked
    BY <2>3, <2>5 DEF Prune
  <2>7. QED
    BY <1>2, <2>4, <2>5, <2>6
<1>3. QED
  BY <1>1, <1>2

\* A merge hears of a site: the panel knows it and it answered.
Heard(snap, found, r) == Known(snap, r[1]) /\ found[r[1]] # {}

\* A merge keeps what CPA holds and what the panel withholds; it adds what
\* was found and marks what was not.
LEMMA MergeKeeps ==
    ASSUME NEW cat \in Catalog, NEW m, NEW snap, NEW found, NEW r \in Refs
    PROVE  LET e == Prune(MergeDiscovered(cat, snap, found), m)[r]
           IN  /\ e # NoEntry /\ cat[r] = NoEntry
                    => Heard(snap, found, r) /\ r[2] \in found[r[1]] /\ ~e.present
               /\ e # NoEntry /\ cat[r] # NoEntry =>
                     /\ e.present <=> cat[r].present
                     /\ e.withheld <=> cat[r].withheld
                     /\ e.pending => cat[r].pending
                     /\ e.gone <=> IF Heard(snap, found, r)
                                    THEN r[2] \notin found[r[1]] ELSE cat[r].gone
               /\ cat[r] # NoEntry /\ (cat[r].present \/ cat[r].withheld)
                    => e # NoEntry
<1> DEFINE merged == MergeDiscovered(cat, snap, found)
           listed == r[2] \in found[r[1]]
           noted  == [cat[r] EXCEPT !.gone = r[2] \notin found[r[1]],
                                    !.pending = @ /\ r[2] \in found[r[1]]]
<1>1. /\ Prune(merged, m)[r] \in {merged[r], NoEntry}
      /\ merged[r] # NoEntry /\ (merged[r].present \/ merged[r].withheld)
           => Prune(merged, m)[r] = merged[r]
  BY DEF Prune
<1>2. CASE cat[r] = NoEntry
  <2>1. merged[r] # NoEntry =>
            /\ Heard(snap, found, r) /\ r[2] \in found[r[1]]
            /\ merged[r] = NewEntry(snap, r)
    BY <1>2 DEF MergeDiscovered, Heard
  <2>2. ~NewEntry(snap, r).present
    BY DEF NewEntry
  <2>3. QED
    BY <1>1, <1>2, <2>1, <2>2
<1>3. CASE cat[r] # NoEntry /\ ~Heard(snap, found, r)
  <2>1. merged[r] = cat[r]
    BY <1>3 DEF MergeDiscovered, Heard
  <2>2. QED
    BY <1>1, <1>3, <2>1
<1>4. CASE cat[r] # NoEntry /\ Heard(snap, found, r)
  <2>1. merged[r] = noted
    BY <1>4 DEF MergeDiscovered, Heard
  <2>2. cat[r] \in Entry
    BY <1>4, EntryOf
  <2>3. /\ noted \in Entry /\ noted.present = cat[r].present
        /\ noted.withheld = cat[r].withheld /\ noted.gone = (r[2] \notin found[r[1]])
        /\ noted.pending = (cat[r].pending /\ r[2] \in found[r[1]])
    BY <2>2 DEF Entry
  <2>4. noted # NoEntry
    BY <2>3, EntryAssumption
  <2> HIDE DEF noted, merged
  <2>5. QED
    BY <1>1, <1>4, <2>1, <2>3, <2>4 DEF merged
<1>5. QED
  BY <1>2, <1>3, <1>4

\* A write lists no model the catalog lacks or has as gone.
LEMMA WriteListsNone ==
    ASSUME NEW cat \in Catalog, NEW m, NEW snap, NEW r \in Refs, NEW c \in Channels,
           Known(snap, r[1]), cat[r] = NoEntry \/ cat[r].gone
    PROVE  ~Lists(BuildWrite(cat, m, snap), c, r)
<1>1. r = <<r[1], r[2]>>
  BY DEF Refs
<1>2. r[2] \notin Placed(cat, m, r[1], c)
  BY <1>1 DEF Placed
<1>3. QED
  BY <1>2, WriteLists

\* It sends the lists of a site the panel does not know back as they are.
LEMMA WriteListsUnknown ==
    ASSUME NEW cat, NEW m, NEW snap, NEW r \in Refs, NEW c \in Channels,
           ~Known(snap, r[1])
    PROVE  Lists(BuildWrite(cat, m, snap), c, r) <=> Lists(snap, c, r)
<1>1. r[1] \in Sites
  BY DEF Refs
<1>2. QED
  BY <1>1 DEF BuildWrite, Lists

-----------------------------------------------------------------------------
\* The steps that matter to the history, and the rest.

\* A handler that holds the catalog it loaded, before it writes it.
Holding == {"check", "ops", "probe", "merge"}

\* A step of p that changes neither CPA nor the cache, and takes neither a
\* catalog nor a plan that p did not have.
Quiet(p) ==
    /\ cpa' = cpa /\ catalog' = catalog
    /\ pc[p] \notin {"base", "merge"}
    /\ pc'[p] \in Holding => pc[p] \in Holding /\ st'[p].cat = st[p].cat
    /\ pc'[p] \in Writing /\ Saves(p)'
         => pc[p] \in Writing /\ Saves(p) /\ st'[p].out = st[p].out

\* All but six actions are quiet.
LEMMA QuietStep ==
    ASSUME TypeInv, Roles, Paths, NEW p \in Procs, Arrive(p) \/ Lock(p) \/ Step(p),
           ~LoadBase(p), ~ApplyOp(p), ~WriteCatalog(p), ~Merge(p), ~PutChannel(p),
           ~PutFails(p)
    PROVE  Quiet(p)
<1> USE DEF Goto, Holding, Writing, Saves, store
<1>0. /\ pc \in [Procs -> Labels] /\ req \in [Procs -> Request]
      /\ st \in [Procs -> Locals] /\ st[p] \in Locals /\ Role(p) /\ Path(p)
  BY DEF TypeInv, TypeOK, Roles, Paths
<1>1. CASE Arrive(p) \/ Lock(p)
  <2>1. /\ pc[p] \in {"idle", "lock"}
        /\ pc'[p] \in {"lock", "payload", "eggprobe", "get"}
        /\ cpa' = cpa /\ catalog' = catalog
    BY <1>0, <1>1 DEF Arrive, Lock
  <2>2. QED
    BY <2>1 DEF Quiet
<1>2. CASE GetChannel(p)
  <2>1. /\ pc[p] = "get" /\ pc'[p] \in {"get", "backup", "base"} /\ req' = req
        /\ pc'[p] = "backup" => ~Saves(p)
        /\ cpa' = cpa /\ catalog' = catalog
    BY <1>0, <1>2 DEF GetChannel
  <2>2. QED
    BY <2>1 DEF Quiet
<1>3. CASE GetFails(p) \/ Respond(p) \/ Conflict(p) \/ ProbeFails(p)
  <2>1. /\ pc[p] \in {"get", "respond", "conflict", "probe"} /\ pc'[p] = "idle"
        /\ cpa' = cpa /\ catalog' = catalog
    BY <1>0, <1>3 DEF GetFails, Respond, Conflict, ProbeFails, Leave
  <2>2. QED
    BY <2>1 DEF Quiet
<1>4. CASE CheckFingerprint(p)
  <2>1. /\ pc[p] = "check" /\ pc'[p] \in {"ops", "conflict"} /\ st' = st
        /\ cpa' = cpa /\ catalog' = catalog
    BY <1>0, <1>4 DEF CheckFingerprint
  <2>2. QED
    BY <2>1 DEF Quiet
<1>5. CASE SetExclusions(p) \/ SetDisabled(p) \/ SetKeeps(p)
  <2>1. /\ pc[p] \in {"exclusions", "disabled", "keeps"}
        /\ pc'[p] \in {"disabled", "keeps", "get"}
        /\ cpa' = cpa /\ catalog' = catalog
    BY <1>0, <1>5 DEF SetExclusions, SetDisabled, SetKeeps
  <2>2. QED
    BY <2>1 DEF Quiet
<1>6. CASE AddSnapshot(p) \/ PruneSnapshots(p)
  <2>1. /\ pc[p] \in {"backup", "trim"} /\ pc'[p] \in {"trim", "put"}
        /\ st' = st /\ req' = req /\ cpa' = cpa /\ catalog' = catalog
    BY <1>0, <1>6 DEF AddSnapshot, PruneSnapshots
  <2>2. QED
    BY <2>1 DEF Quiet
<1>7. CASE PutsDone(p)
  <2>1. /\ pc[p] = "put" /\ pc'[p] \in {"exclusions", "get"}
        /\ cpa' = cpa /\ catalog' = catalog
    BY <1>0, <1>7 DEF PutsDone, AfterPut
  <2>2. QED
    BY <2>1 DEF Quiet
<1>8. CASE Probe(p)
  <2>1. /\ pc[p] = "probe" /\ req' = req /\ cpa' = cpa /\ catalog' = catalog
        /\ pc'[p] \in {"backup", "merge"} /\ (pc'[p] = "backup" => ~Saves(p))
    BY <1>0, <1>8 DEF Probe
  <2>2. st'[p].cat = st[p].cat
    BY <1>8, ProbeLocals
  <2>3. QED
    BY <2>1, <2>2 DEF Quiet
<1>9. CASE SetWhitelist(p) \/ SetVersionFilter(p) \/ SetRouteByProtocol(p)
  <2>1. /\ pc[p] \in {"whitelist", "version", "route"}
        /\ pc'[p] \in {"version", "route", "respond"}
        /\ cpa' = cpa /\ catalog' = catalog
    BY <1>0, <1>9 DEF SetWhitelist, SetVersionFilter, SetRouteByProtocol
  <2>2. QED
    BY <2>1 DEF Quiet
<1>10. CASE ReadSnapshot(p) \/ ProbeEgg(p) \/ Plan(p)
  <2>1. /\ pc[p] \in {"payload", "eggprobe", "plan"}
        /\ pc'[p] \in {"idle", "get", "backup"}
        /\ pc'[p] = "backup" => pc[p] = "plan" /\ req' = req
        /\ cpa' = cpa /\ catalog' = catalog
    BY <1>0, <1>10 DEF ReadSnapshot, ProbeEgg, Plan, Leave
  <2>2. pc[p] = "plan" => ~Saves(p)
    BY <1>0 DEF Role
  <2>3. QED
    BY <2>1, <2>2 DEF Quiet
<1>11. QED
  BY <1>1, <1>2, <1>3, <1>4, <1>5, <1>6, <1>7, <1>8, <1>9, <1>10 DEF Step

\* Only sending, or someone else's edit, changes what CPA holds.
LEMMA WhoSends ==
    ASSUME TypeInv, Roles, Paths, [Next]_vars, cpa' # cpa
    PROVE  ExternalEdit \/ \E p \in Procs : PutChannel(p) \/ PutFails(p)
<1>1. ASSUME NEW p \in Procs, Arrive(p) \/ Lock(p) \/ Step(p),
             ~PutChannel(p), ~PutFails(p)
      PROVE  FALSE
  <2>1. ~LoadBase(p) /\ ~ApplyOp(p) /\ ~WriteCatalog(p) /\ ~Merge(p)
    BY DEF LoadBase, ApplyOp, WriteCatalog, Merge
  <2>2. QED
    BY <1>1, <2>1, QuietStep DEF Quiet
<1>2. ~Crash /\ ~UNCHANGED vars
  BY DEF Crash, vars
<1>3. QED
  BY <1>1, <1>2 DEF Next

\* Everyone else stays where it is, and out of its handler while p is in its.
LEMMA OthersWait ==
    ASSUME TypeInv, Exclusive, NEW p \in Procs, NEW q \in Procs, q # p,
           Arrive(p) \/ Lock(p) \/ Step(p)
    PROVE  /\ pc'[q] = pc[q] /\ req'[q] = req[q] /\ st'[q] = st[q]
           /\ Step(p) => pc[q] \in Outside
BY Locality, Inside, Alone

\* A handler holds every model CPA lists for the sites the panel knows.
Loaded(p) ==
    pc[p] \in Holding =>
        \A r \in Refs : Live(cpa, r) => st[p].cat[r] # NoEntry /\ st[p].cat[r].present

LoadInv == ConvergeInv /\ \A p \in Procs : Loaded(p)

\* What it holds does not lose one, and CPA does not change meanwhile.
LEMMA LoadInvKept ==
    ASSUME LoadInv, [Next]_vars, ~EditsInFlight
    PROVE  LoadInv'
<1> USE DEF Holding
<1>0. /\ ConvergeInv /\ TypeInv /\ Exclusive /\ Roles /\ Paths /\ Fresh
      /\ pc \in [Procs -> Labels] /\ cpa \in Config /\ catalog \in Catalog
      /\ \A p \in Procs : st[p].cat \in Catalog
  BY DEF LoadInv, ConvergeInv, FreshInv, TypeInv, TypeOK, Locals
<1>1. ConvergeInv'
  BY <1>0, ConvergeInvKept
<1>2. ASSUME NEW p \in Procs, Arrive(p) \/ Lock(p) \/ Step(p)
      PROVE  Loaded(p)'
  <2>1. Loaded(p)
    BY DEF LoadInv
  <2>2. CASE LoadBase(p)
    <3>1. st[p].snap = cpa /\ cpa' = cpa
      BY <1>0, <2>2, LoadBaseLocals DEF Fresh, Current
    <3>2. st'[p].cat = Reloaded(catalog, st'[p].marks, cpa)
      BY <1>0, <2>2, <3>1, LoadBaseLocals
    <3>3. ASSUME NEW r \in Refs, Live(cpa, r)
          PROVE  st'[p].cat[r] # NoEntry /\ st'[p].cat[r].present
      <4>1. LET e == Reloaded(catalog, st'[p].marks, cpa)[r]
            IN  e # NoEntry /\ e.present
        BY <1>0, <3>3, ReloadLive
      <4>2. QED
        BY <3>2, <4>1
    <3>4. QED
      BY <3>1, <3>3 DEF Loaded
  <2>3. CASE ApplyOp(p)
    <3>1. PICK op \in Op : st'[p].cat = OpOnCatalog(st[p].cat, op)
      BY <1>0, <2>3, ApplyOpLocals
    <3>2. pc[p] = "ops" /\ cpa' = cpa
      BY <2>3 DEF ApplyOp
    <3>3. \A r \in Refs : Live(cpa, r) => st'[p].cat[r] # NoEntry /\ st'[p].cat[r].present
      BY <1>0, <2>1, <3>1, <3>2, OpKeeps DEF Loaded
    <3>4. QED
      BY <3>2, <3>3 DEF Loaded
  <2>4. CASE WriteCatalog(p)
    BY <1>0, <2>4, WriteCatalogLocals DEF Loaded
  <2>5. CASE Merge(p)
    BY <1>0, <2>5, MergeLocals DEF Loaded
  <2>6. CASE PutChannel(p) \/ PutFails(p)
    BY <1>0, <2>6 DEF PutChannel, PutFails, Leave, Goto, Loaded
  <2>7. CASE Quiet(p)
    BY <2>1, <2>7 DEF Quiet, Loaded
  <2>8. QED
    BY <1>0, <1>2, <2>2, <2>3, <2>4, <2>5, <2>6, <2>7, QuietStep
<1>3. ASSUME NEW p \in Procs, Arrive(p) \/ Lock(p) \/ Step(p), NEW q \in Procs, q # p
      PROVE  Loaded(q)'
  <2>1. pc'[q] = pc[q] /\ st'[q] = st[q]
    BY <1>0, <1>3, OthersWait
  <2>2. CASE Step(p)
    BY <1>0, <1>3, <2>1, <2>2, OthersWait DEF Loaded, Outside
  <2>3. CASE Arrive(p) \/ Lock(p)
    <3>1. cpa' = cpa
      BY <2>3 DEF Arrive, Lock
    <3>2. QED
      BY <2>1, <3>1 DEF LoadInv, Loaded
  <2>4. QED
    BY <1>3, <2>2, <2>3
<1>4. ASSUME ExternalEdit, NEW p \in Procs
      PROVE  Loaded(p)'
  <2>1. pc' = pc /\ pc[p] \in Outside
    BY <1>0, <1>4, PanelAssumption DEF ExternalEdit, Exclusive
  <2>2. QED
    BY <2>1 DEF Loaded, Outside
<1>5. ASSUME Crash, NEW p \in Procs
      PROVE  Loaded(p)'
  BY <1>5 DEF Crash, Loaded
<1>6. ASSUME UNCHANGED vars
      PROVE  \A p \in Procs : Loaded(p)'
  BY <1>6 DEF vars, LoadInv, Loaded
<1>7. \A p \in Procs : Loaded(p)'
  BY <1>2, <1>3, <1>4, <1>5, <1>6 DEF Next
<1>8. QED
  BY <1>1, <1>7 DEF LoadInv

\* Nobody holds anything at the start.
LEMMA LoadInit == Init => LoadInv
BY ConvergeInit DEF Init, LoadInv, Loaded, Holding

-----------------------------------------------------------------------------
\* What a site stopped listing is not put back.

\* The cache does not offer the model.
Dead(cat, r) == cat[r] = NoEntry \/ cat[r].gone

\* A delisted model is remembered as gone for as long as CPA holds it.
Buried ==
    \A r \in delisted :
        /\ r \in Refs /\ Dead(catalog, r)
        /\ Holds(cpa, r) => catalog[r] # NoEntry

\* So does the handler that holds a catalog; and no save adds it to a list.
BuriedIn(p) ==
    /\ pc[p] \in Holding =>
           \A r \in delisted : Known(cpa, r[1]) /\ Dead(st[p].cat, r)
    /\ pc[p] \in Writing /\ Saves(p) =>
           \A r \in delisted, c \in Channels : Lists(st[p].out, c, r) => Lists(cpa, c, r)

BuryInv == LoadInv /\ Buried /\ \A p \in Procs : BuriedIn(p)

\* A merge is a step of the handler that probed.
LEMMA OneMerges ==
    ASSUME TypeInv, NEW p \in Procs, Arrive(p) \/ Lock(p) \/ Step(p),
           NEW q \in Procs, Merge(q)
    PROVE  q = p
<1>1. pc[q] = "merge" /\ pc'[q] # "merge"
  BY DEF Merge, Goto, TypeInv, TypeOK
<1>2. QED
  BY <1>1, Locality

\* Without a merge no model becomes delisted, and one appears only in a save.
LEMMA DelistedStays ==
    ASSUME RecordDelisted, NEW r \in delisted', \A q \in Procs : ~Merge(q)
    PROVE  /\ r \in delisted /\ (Appears(r) => SaveStep)
           /\ \A q \in Procs : pc[q] = "base" /\ pc'[q] # "base" => Known(st[q].snap, r[1])
BY DEF RecordDelisted

\* With it those are that the merge heard of and did not find.
LEMMA DelistedMerges ==
    ASSUME RecordDelisted, NEW r \in delisted', NEW p \in Procs, Merge(p),
           \A q \in Procs : pc[q] = "merge" => q = p
    PROVE  /\ r \in Refs
           /\ IF Heard(st[p].snap, st[p].found, r)
              THEN r[2] \notin st[p].found[r[1]] ELSE r \in delisted
BY DEF RecordDelisted, Heard, Merge

\* A list that is sent for a save lets no delisted model appear.
LEMMA SentBuried ==
    ASSUME BuryInv, NEW p \in Procs, pc[p] = "put", Saves(p), NEW c \in Channels,
           NEW r \in delisted, cpa' = [cpa EXCEPT ![c] = st[p].out[c]]
    PROVE  \A d \in Channels : Lists(cpa', d, r) => Lists(cpa, d, r)
<1>1. cpa \in Config
  BY DEF BuryInv, LoadInv, ConvergeInv, FreshInv, TypeInv, TypeOK
<1>2. \A d \in Channels : Lists(st[p].out, d, r) => Lists(cpa, d, r)
  BY DEF BuryInv, BuriedIn, Writing
<1>3. \A d \in Channels : cpa'[d] \in {cpa[d], st[p].out[d]}
  BY <1>1 DEF Config
<1>4. QED
  BY <1>2, <1>3 DEF Lists

\* A step of p keeps the delisted models buried, in the cache and with p.
LEMMA BuryStep ==
    ASSUME BuryInv, NEW p \in Procs, Arrive(p) \/ Lock(p) \/ Step(p), Record
    PROVE  Buried' /\ BuriedIn(p)'
<1> USE DEF Holding, Writing
<1>0. /\ TypeInv /\ Exclusive /\ Roles /\ Paths /\ RecordDelisted
      /\ pc \in [Procs -> Labels] /\ cpa \in Config /\ catalog \in Catalog
      /\ st[p] \in Locals /\ st[p].cat \in Catalog /\ Loaded(p)
      /\ Buried /\ BuriedIn(p) /\ Current(p) /\ \A r \in delisted : r \in Refs
  BY DEF BuryInv, LoadInv, ConvergeInv, FreshInv, TypeInv, TypeOK, Locals, Record, Fresh,
         Buried
<1>1. CASE Merge(p)
  <2> DEFINE s == st[p]
             e(r) == Prune(MergeDiscovered(s.cat, s.snap, s.found), s.marks)[r]
  <2>1. /\ pc[p] = "merge" /\ pc'[p] \in {"get", "respond"} /\ s.snap = cpa
        /\ cpa' = cpa /\ \A r : catalog'[r] = e(r)
    BY <1>0, <1>1, MergeLocals DEF Current
  <2>2. ASSUME NEW r \in delisted'
        PROVE  r \in Refs /\ Dead(catalog', r) /\ (Holds(cpa, r) => catalog'[r] # NoEntry)
    <3>1. \A q \in Procs : pc[q] = "merge" => q = p
      BY <1>0, <2>1, Alone DEF Outside
    <3>2. /\ r \in Refs
          /\ IF Heard(s.snap, s.found, r) THEN r[2] \notin s.found[r[1]] ELSE r \in delisted
      BY <1>0, <1>1, <3>1, DelistedMerges
    <3>3. r \in delisted => Known(cpa, r[1]) /\ Dead(s.cat, r)
      BY <1>0, <2>1 DEF BuriedIn
    <3>4. /\ e(r) # NoEntry /\ s.cat[r] = NoEntry
               => Heard(s.snap, s.found, r) /\ r[2] \in s.found[r[1]]
          /\ e(r) # NoEntry /\ s.cat[r] # NoEntry =>
               (e(r).gone <=> IF Heard(s.snap, s.found, r)
                              THEN r[2] \notin s.found[r[1]] ELSE s.cat[r].gone)
          /\ s.cat[r] # NoEntry /\ (s.cat[r].present \/ s.cat[r].withheld)
               => e(r) # NoEntry
      BY <1>0, <3>2, MergeKeeps
    <3> HIDE DEF e
    <3>5. Dead(catalog', r)
      <4>1. e(r) = NoEntry \/ e(r).gone
        BY <3>2, <3>3, <3>4 DEF Dead
      <4>2. QED
        BY <2>1, <4>1 DEF Dead
    <3>6. ASSUME Holds(cpa, r)
          PROVE  catalog'[r] # NoEntry
      <4>1. Live(cpa, r)
        BY <2>1, <3>2, <3>3, <3>6 DEF Live, Heard
      <4>2. s.cat[r] # NoEntry /\ s.cat[r].present
        BY <1>0, <2>1, <3>2, <4>1 DEF Loaded
      <4>3. QED
        BY <2>1, <3>4, <4>2
    <3>7. QED
      BY <3>2, <3>5, <3>6
  <2>3. QED
    BY <2>1, <2>2 DEF Buried, BuriedIn
<1>2. CASE ~Merge(p)
  <2>1. ASSUME NEW r \in delisted'
        PROVE  /\ r \in delisted /\ r \in Refs /\ (Appears(r) => SaveStep)
               /\ pc[p] = "base" /\ pc'[p] # "base" => Known(st[p].snap, r[1])
    <3>1. \A q \in Procs : ~Merge(q)
      BY <1>0, <1>2, OneMerges
    <3>2. QED
      BY <1>0, <3>1, DelistedStays
  <2>2. CASE LoadBase(p)
    <3>1. /\ pc[p] = "base" /\ pc'[p] \notin Writing \cup {"base"} /\ st[p].snap = cpa
          /\ cpa' = cpa /\ st'[p].cat = catalog'
          /\ catalog' = Reloaded(catalog, st'[p].marks, cpa)
      BY <1>0, <2>2, LoadBaseLocals DEF Current, AfterLoad
    <3>2. ASSUME NEW r \in delisted'
          PROVE  /\ r \in Refs /\ Known(cpa, r[1]) /\ Dead(catalog', r)
                 /\ Holds(cpa, r) => catalog'[r] # NoEntry
      <4>1. r \in delisted /\ r \in Refs /\ Known(cpa, r[1])
        BY <2>1, <3>1
      <4>2. Dead(catalog, r) /\ (Holds(cpa, r) => catalog[r] # NoEntry)
        BY <1>0, <4>1 DEF Buried
      <4>3. CASE Holds(cpa, r)
        <5>1. Live(cpa, r)
          BY <4>1, <4>3 DEF Live
        <5>2. LET e == Reloaded(catalog, st'[p].marks, cpa)[r]
              IN  e # NoEntry /\ (e.gone <=> catalog[r] # NoEntry /\ catalog[r].gone)
          BY <1>0, <4>1, <5>1, ReloadLive
        <5>3. catalog'[r] # NoEntry /\ catalog'[r].gone
          BY <3>1, <4>2, <4>3, <5>2 DEF Dead
        <5>4. QED
          BY <4>1, <5>3 DEF Dead
      <4>4. CASE ~Holds(cpa, r)
        <5>1. LET e == Reloaded(catalog, st'[p].marks, cpa)[r]
              IN  e # NoEntry => catalog[r] # NoEntry /\ e = [catalog[r] EXCEPT !.present = FALSE]
          BY <1>0, <4>1, <4>4, ReloadAbsent
        <5>2. ASSUME catalog'[r] # NoEntry
              PROVE  catalog'[r].gone
          <6>1. catalog[r] # NoEntry /\ catalog'[r] = [catalog[r] EXCEPT !.present = FALSE]
            BY <3>1, <5>1, <5>2
          <6>2. catalog[r] \in Entry /\ catalog[r].gone
            BY <1>0, <4>1, <4>2, <6>1, EntryOf DEF Dead
          <6>3. QED
            BY <6>1, <6>2 DEF Entry
        <5>3. QED
          BY <4>1, <4>4, <5>2 DEF Dead
      <4>5. QED
        BY <4>3, <4>4
    <3>3. QED
      BY <3>1, <3>2 DEF Buried, BuriedIn
  <2>3. CASE ApplyOp(p)
    <3>1. PICK op \in Op : st'[p].cat = OpOnCatalog(st[p].cat, op)
      BY <1>0, <2>3, ApplyOpLocals
    <3>2. pc[p] = "ops" /\ pc' = pc /\ cpa' = cpa /\ catalog' = catalog
      BY <2>3 DEF ApplyOp, store
    <3>3. ASSUME NEW r \in delisted'
          PROVE  Known(cpa, r[1]) /\ Dead(st'[p].cat, r)
      <4>1. r \in Refs /\ Known(cpa, r[1]) /\ Dead(st[p].cat, r)
        BY <1>0, <2>1, <3>2 DEF BuriedIn
      <4>2. LET e == OpOnCatalog(st[p].cat, op)[r]
            IN  /\ e = NoEntry <=> st[p].cat[r] = NoEntry
                /\ st[p].cat[r] # NoEntry => (e.gone <=> st[p].cat[r].gone)
        BY <1>0, <4>1, OpKeeps
      <4>3. QED
        BY <3>1, <4>1, <4>2 DEF Dead
    <3>4. QED
      BY <1>0, <2>1, <3>2, <3>3 DEF Buried, BuriedIn
  <2>4. CASE WriteCatalog(p)
    <3> DEFINE s == st[p]
               e(r) == Prune(MarkWithheld(s.cat, s.marks), s.marks)[r]
    <3>1. /\ pc[p] = "ops" /\ pc'[p] \in {"exclusions", "backup"} /\ s.snap = cpa
          /\ cpa' = cpa /\ st'[p].out = BuildWrite(s.cat, s.marks, cpa)
          /\ \A r : catalog'[r] = e(r)
      BY <1>0, <2>4, WriteCatalogLocals DEF Current
    <3>2. ASSUME NEW r \in delisted'
          PROVE  /\ r \in Refs /\ Dead(catalog', r) /\ (Holds(cpa, r) => catalog'[r] # NoEntry)
                 /\ \A c \in Channels : ~Lists(st'[p].out, c, r)
      <4>1. r \in Refs /\ Known(cpa, r[1]) /\ Dead(s.cat, r)
        BY <1>0, <2>1, <3>1 DEF BuriedIn
      <4>2. /\ e(r) # NoEntry => s.cat[r] # NoEntry /\ (e(r).gone <=> s.cat[r].gone)
            /\ s.cat[r] # NoEntry /\ s.cat[r].present => e(r) # NoEntry
        BY <1>0, <4>1, WriteKeeps
      <4> HIDE DEF e
      <4>3. Dead(catalog', r)
        BY <3>1, <4>1, <4>2 DEF Dead
      <4>4. Holds(cpa, r) => catalog'[r] # NoEntry
        BY <1>0, <3>1, <4>1, <4>2 DEF Loaded, Live
      <4>5. \A c \in Channels : ~Lists(st'[p].out, c, r)
        BY <1>0, <3>1, <4>1, WriteListsNone DEF Dead
      <4>6. QED
        BY <4>1, <4>3, <4>4, <4>5
    <3>3. QED
      BY <3>1, <3>2 DEF Buried, BuriedIn
  <2>5. CASE PutChannel(p) \/ PutFails(p)
    <3>1. /\ Step(p) /\ pc[p] = "put" /\ catalog' = catalog /\ cpa' \in Config
      BY <1>0, <2>5, NextType DEF Step, PutChannel, PutFails, store, Next, TypeInv, TypeOK
    <3>2. PICK c \in Channels : \/ cpa' = cpa
                                \/ cpa' = [cpa EXCEPT ![c] = st[p].out[c]]
      <4>1. First(st[p].todo) \in Channels
        BY <1>0, <2>5, FirstIsMember DEF PutChannel, PutFails, Locals
      <4>2. QED
        BY <2>5, <4>1 DEF PutChannel, PutFails
    <3>3. ASSUME Saves(p), NEW r \in delisted'
          PROVE  \A d \in Channels : Lists(cpa', d, r) => Lists(cpa, d, r)
      BY <2>1, <3>1, <3>2, <3>3, SentBuried
    <3>4. ASSUME NEW r \in delisted', Holds(cpa', r)
          PROVE  Holds(cpa, r)
      <4>1. CASE Saves(p)
        BY <3>3, <3>4, <4>1 DEF Holds
      <4>2. CASE ~Saves(p)
        <5>1. ~SaveStep
          BY <1>0, <3>1, <4>2, Alone DEF SaveStep, Saving, Saves, Outside
        <5>2. QED
          BY <2>1, <3>4, <5>1 DEF Appears
      <4>3. QED
        BY <4>1, <4>2
    <3>5. Buried'
      BY <1>0, <2>1, <3>1, <3>4 DEF Buried
    <3>6. BuriedIn(p)'
      <4>1. CASE PutFails(p)
        BY <1>0, <4>1 DEF PutFails, Leave, Goto, BuriedIn
      <4>2. CASE PutChannel(p)
        <5> DEFINE c0 == First(st[p].todo)
        <5>1. /\ pc' = pc /\ req' = req /\ st'[p].out = st[p].out
              /\ cpa' = [cpa EXCEPT ![c0] = st[p].out[c0]]
          BY <1>0, <4>2 DEF PutChannel, TypeInv, TypeOK, Locals
        <5> HIDE DEF c0
        <5>2. \A d \in Channels : cpa'[d] \in {cpa[d], st[p].out[d]}
          BY <1>0, <5>1 DEF Config
        <5>3. ASSUME Saves(p), NEW r \in delisted', NEW d \in Channels, Lists(st[p].out, d, r)
              PROVE  Lists(cpa', d, r)
          <6>1. Lists(cpa, d, r)
            BY <1>0, <2>1, <3>1, <5>3 DEF BuriedIn
          <6>2. QED
            BY <5>2, <5>3, <6>1 DEF Lists
        <5>4. QED
          BY <3>1, <5>1, <5>3 DEF BuriedIn, Saves
      <4>3. QED
        BY <2>5, <4>1, <4>2
    <3>7. QED
      BY <3>5, <3>6
  <2>6. CASE Quiet(p)
    <3>1. Buried'
      BY <1>0, <2>1, <2>6 DEF Buried, Quiet
    <3>2. BuriedIn(p)'
      BY <1>0, <2>1, <2>6 DEF BuriedIn, Quiet
    <3>3. QED
      BY <3>1, <3>2
  <2>7. QED
    BY <1>0, <1>2, <2>2, <2>3, <2>4, <2>5, <2>6, QuietStep
<1>3. QED
  BY <1>1, <1>2

\* And so does everyone else, as long as nobody edits CPA meanwhile.
LEMMA BuryInvKept ==
    ASSUME BuryInv, [HNext]_hvars, ~EditsInFlight
    PROVE  BuryInv'
<1>0. /\ LoadInv /\ TypeInv /\ Exclusive /\ Buried /\ \A p \in Procs : BuriedIn(p)
      /\ pc \in [Procs -> Labels]
  BY DEF BuryInv, LoadInv, ConvergeInv, FreshInv, TypeInv, TypeOK
<1>1. LoadInv'
  BY <1>0, LoadInvKept DEF HNext, hvars
<1>2. CASE UNCHANGED hvars
  BY <1>0, <1>1, <1>2 DEF hvars, vars, history, BuryInv, Buried, BuriedIn, Saves
<1>3. CASE HNext
  <2>1. Record /\ RecordDelisted
    BY <1>3 DEF HNext, Record
  <2>2. ASSUME NEW p \in Procs, Arrive(p) \/ Lock(p) \/ Step(p)
        PROVE  Buried' /\ \A q \in Procs : BuriedIn(q)'
    <3>1. Buried' /\ BuriedIn(p)'
      BY <2>1, <2>2, BuryStep
    <3>2. ASSUME NEW q \in Procs, q # p
          PROVE  BuriedIn(q)'
      <4>1. /\ pc'[q] = pc[q] /\ req'[q] = req[q] /\ st'[q] = st[q]
            /\ Step(p) => pc[q] \in Outside
        BY <1>0, <2>2, <3>2, OthersWait
      <4>2. CASE Step(p)
        BY <4>1, <4>2 DEF BuriedIn, Outside, Holding, Writing
      <4>3. CASE Arrive(p) \/ Lock(p)
        <5>1. cpa' = cpa /\ pc[p] # "merge"
          BY <4>3 DEF Arrive, Lock
        <5>2. \A x \in Procs : ~Merge(x)
          BY <1>0, <2>2, <5>1, OneMerges DEF Merge
        <5>3. \A r \in delisted' : r \in delisted
          BY <2>1, <5>2, DelistedStays
        <5>4. BuriedIn(q)
          BY <1>0
        <5>5. QED
          BY <4>1, <5>1, <5>3, <5>4 DEF BuriedIn, Saves
      <4>4. QED
        BY <2>2, <4>2, <4>3
    <3>3. QED
      BY <3>1, <3>2
  <2>3. ASSUME ExternalEdit
        PROVE  Buried' /\ \A q \in Procs : BuriedIn(q)'
    <3>1. pc' = pc /\ catalog' = catalog /\ mu = NoProc
      BY <2>3 DEF ExternalEdit, store
    <3>2. \A q \in Procs : pc[q] \in Outside
      BY <1>0, <3>1, PanelAssumption DEF Exclusive
    <3>3. ~SaveStep /\ \A q \in Procs : ~Merge(q)
      BY <3>2 DEF SaveStep, Saving, Merge, Outside
    <3>4. \A r \in delisted' : r \in delisted /\ (Holds(cpa', r) => Holds(cpa, r))
      BY <2>1, <3>3, DelistedStays DEF Appears
    <3>5. QED
      BY <1>0, <3>1, <3>2, <3>4 DEF Buried, BuriedIn, Outside, Holding, Writing
  <2>4. ASSUME Crash
        PROVE  Buried' /\ \A q \in Procs : BuriedIn(q)'
    <3>1. cpa' = cpa /\ catalog' = catalog /\ \A q \in Procs : pc'[q] = "idle"
      BY <2>4 DEF Crash, store
    <3>2. \A q \in Procs : ~Merge(q)
      <4>1. ASSUME NEW q \in Procs, Merge(q)
            PROVE  FALSE
        <5>1. pc'[q] \in {"get", "respond"}
          BY <1>0, <4>1, MergeLocals
        <5>2. QED
          BY <3>1, <5>1
      <4>2. QED
        BY <4>1
    <3>3. \A r \in delisted' : r \in delisted
      BY <2>1, <3>2, DelistedStays
    <3>4. QED
      BY <1>0, <3>1, <3>3 DEF Buried, BuriedIn, Holding, Writing
  <2>5. QED
    BY <1>1, <1>3, <2>2, <2>3, <2>4 DEF HNext, Next, BuryInv
<1>4. QED
  BY <1>2, <1>3

\* A model its site stopped listing is not put back by a save, provided
\* nobody else edits CPA while a handler runs.  Failing calls and crashes
\* are allowed for.
THEOREM DelistedStaysOut ==
    ASSUME ~EditsInFlight
    PROVE  HSpec => NoDelistedWrite
<1> DEFINE Out == \A r \in delisted : ~(SaveStep /\ Appears(r))
<1>1. HInit => BuryInv
  BY LoadInit DEF HInit, Init, BuryInv, Buried, BuriedIn, Holding, Writing
<1>2. BuryInv /\ [HNext]_hvars => BuryInv'
  BY BuryInvKept
<1>3. BuryInv /\ [HNext]_hvars => Out
  <2> SUFFICES ASSUME BuryInv, [HNext]_hvars, NEW r \in delisted, SaveStep, Appears(r)
               PROVE  FALSE
    OBVIOUS
  <2>1. /\ TypeInv /\ Exclusive /\ Roles /\ Paths /\ [Next]_vars
        /\ \A p \in Procs : st[p] \in Locals
    BY DEF BuryInv, LoadInv, ConvergeInv, FreshInv, HNext, hvars, TypeInv, TypeOK
  <2>2. cpa' # cpa
    BY DEF Appears
  <2>3. PICK q \in Procs : pc[q] = "put" /\ Saves(q)
    BY DEF SaveStep, Saving, Saves
  <2>4. ~ExternalEdit
    BY <2>1, <2>3, PanelAssumption DEF ExternalEdit, Exclusive, Outside
  <2>5. PICK p \in Procs : PutChannel(p) \/ PutFails(p)
    BY <2>1, <2>2, <2>4, WhoSends
  <2>6. pc[p] = "put" /\ Saves(p)
    BY <2>1, <2>3, <2>5, Alone DEF PutChannel, PutFails, Outside
  <2>7. PICK c \in Channels : cpa' = [cpa EXCEPT ![c] = st[p].out[c]]
    <3>1. First(st[p].todo) \in Channels
      BY <2>1, <2>5, FirstIsMember DEF PutChannel, PutFails, Locals
    <3>2. QED
      BY <2>2, <2>5, <3>1 DEF PutChannel, PutFails
  <2>8. \A d \in Channels : Lists(cpa', d, r) => Lists(cpa, d, r)
    BY <2>6, <2>7, SentBuried
  <2>9. QED
    BY <2>8 DEF Appears, Holds
<1>4. QED
  BY <1>1, <1>2, <1>3, PTL DEF HSpec, NoDelistedWrite

-----------------------------------------------------------------------------
\* A conflict is somebody else's change.

\* The request of p has not changed CPA.
Untouched(p) == st[p].phase = "first" /\ pc[p] \notin {"put"} \cup Storing

\* Unless CPA changed under it, the view a user looks at, and the
\* fingerprint of the save made on it, is what CPA holds; the schedule saves
\* on what its refresh has just read.
Seen(p) ==
    /\ Untouched(p) /\ ~stale[p] => view[p] \in {NoConfig, cpa}
    /\ Untouched(p) /\ ~stale[p] /\ pc[p] # "idle" /\ req[p].kind = "save"
         => req[p].fp = cpa
    /\ st[p].phase = "save" /\ pc[p] \in {"get", "base", "check"} => req[p].fp = cpa
    /\ pc[p] = "conflict" => stale[p]

SeenInv == ConvergeInv /\ \A p \in Procs : Seen(p)

\* A view grows stale when CPA changes, other than by the puts of its own
\* user, and is fresh again with the answer of a handler.
LEMMA StaleStep ==
    ASSUME RecordStale, NEW p \in Procs, ~(pc[p] = "respond" /\ pc'[p] = "idle")
    PROVE  /\ stale[p] => stale'[p]
           /\ cpa' # cpa /\ pc[p] # "put" => stale'[p]
BY DEF RecordStale

\* Only an answer changes a view.
LEMMA WhoShows ==
    ASSUME NEW p \in Procs, Arrive(p) \/ Lock(p) \/ Step(p), ~Respond(p)
    PROVE  view' = view
<1>1. CASE \/ Arrive(p) \/ Lock(p) \/ GetChannel(p) \/ GetFails(p) \/ LoadBase(p)
           \/ CheckFingerprint(p) \/ Conflict(p) \/ ApplyOp(p) \/ WriteCatalog(p)
  BY <1>1 DEF Arrive, Lock, GetChannel, GetFails, LoadBase, CheckFingerprint, Conflict,
              ApplyOp, WriteCatalog
<1>2. CASE \/ SetExclusions(p) \/ SetDisabled(p) \/ SetKeeps(p) \/ AddSnapshot(p)
           \/ PruneSnapshots(p) \/ PutChannel(p) \/ PutsDone(p) \/ PutFails(p)
  BY <1>2 DEF SetExclusions, SetDisabled, SetKeeps, AddSnapshot, PruneSnapshots,
              PutChannel, PutsDone, PutFails
<1>3. CASE \/ Probe(p) \/ ProbeFails(p) \/ Merge(p) \/ SetWhitelist(p)
           \/ SetVersionFilter(p) \/ SetRouteByProtocol(p) \/ ReadSnapshot(p)
           \/ ProbeEgg(p) \/ Plan(p)
  BY <1>3 DEF Probe, ProbeFails, Merge, SetWhitelist, SetVersionFilter,
              SetRouteByProtocol, ReadSnapshot, ProbeEgg, Plan
<1>4. QED
  BY <1>1, <1>2, <1>3 DEF Step

\* A step that goes on with the same request and leaves CPA and the view
\* alone.
LEMMA SeenGoesOn ==
    ASSUME NEW p \in Procs, Seen(p), stale[p] => stale'[p],
           cpa' = cpa, view' = view, req' = req, st'[p].phase = st[p].phase,
           pc[p] # "idle", pc'[p] # "conflict",
           pc[p] \in {"put"} \cup Storing => pc'[p] \in {"put"} \cup Storing,
           pc'[p] \in {"get", "base", "check"} /\ st[p].phase = "save"
             => pc[p] \in {"get", "base", "check"}
    PROVE  Seen(p)'
BY DEF Seen, Untouched

\* A request that ends before it has changed anything.
LEMMA SeenGivesUp ==
    ASSUME TypeInv, NEW p \in Procs, Seen(p), stale[p] => stale'[p],
           cpa' = cpa, view' = view, Leave(p), Untouched(p)
    PROVE  Seen(p)'
<1>1. pc'[p] = "idle" /\ st'[p].phase = "first"
  BY DEF TypeInv, TypeOK, Leave, Goto, Blank
<1>2. QED
  BY <1>1 DEF Seen, Untouched

\* A step of p.
LEMMA SeenStep ==
    ASSUME SeenInv, NEW p \in Procs, Arrive(p) \/ Lock(p) \/ Step(p), RecordStale,
           ~GetMayFail, ~PutMayFail
    PROVE  Seen(p)'
<1> USE DEF Goto, Storing
<1>0. /\ TypeInv /\ Roles /\ Role(p) /\ Path(p) /\ Current(p) /\ Seen(p)
      /\ pc \in [Procs -> Labels] /\ req \in [Procs -> Request] /\ req[p] \in Request
      /\ st \in [Procs -> Locals] /\ st[p] \in Locals
      /\ view \in [Procs -> Config \cup {NoConfig}]
  BY DEF SeenInv, ConvergeInv, FreshInv, TypeInv, TypeOK, Roles, Paths, Fresh
<1>1. pc[p] # "respond" =>
          /\ stale[p] => stale'[p]
          /\ cpa' # cpa /\ pc[p] # "put" => stale'[p]
  BY StaleStep
<1>2. CASE Arrive(p)
  <2>1. PICK k \in Kinds : /\ k = "save" => view[p] # NoConfig
                           /\ \E r \in Ask(p, k) : req' = [req EXCEPT ![p] = r]
    BY <1>2 DEF Arrive
  <2> PICK r \in Ask(p, k) : req' = [req EXCEPT ![p] = r]
    BY <2>1
  <2>2. r.kind = k /\ (k = "save" => r.fp = view[p])
    <3>1. r.kind = k
      BY AskKind
    <3>2. ASSUME k = "save"
          PROVE  r.fp = view[p]
      <4>1. Ask(p, k) = {[[NoRequest EXCEPT !.kind = k] EXCEPT !.fp = view[p], !.ops = d] :
                             d \in Drafts}
        BY <3>2 DEF Ask
      <4>2. PICK d \in Drafts :
                r = [[NoRequest EXCEPT !.kind = k] EXCEPT !.fp = view[p], !.ops = d]
        BY <4>1
      <4>3. QED
        BY <4>2 DEF NoRequest
    <3>3. QED
      BY <3>1, <3>2
  <2>3. /\ pc[p] = "idle" /\ pc'[p] = "lock" /\ req'[p] = r
        /\ st' = st /\ cpa' = cpa /\ view' = view
    BY <1>0, <1>2, <2>1 DEF Arrive
  <2>4. st[p].phase = "first"
    BY <1>0, <2>3 DEF Path, Outside, Blank
  <2>5. ~stale'[p] => view[p] \in {NoConfig, cpa}
    BY <1>0, <1>1, <2>3, <2>4 DEF Seen, Untouched
  <2>6. ~stale'[p] /\ k = "save" => r.fp = cpa
    BY <2>1, <2>2, <2>5
  <2>7. QED
    BY <2>2, <2>3, <2>4, <2>5, <2>6 DEF Seen, Untouched
<1>3. CASE Lock(p)
  <2>1. /\ pc[p] = "lock" /\ pc'[p] \in {"payload", "eggprobe", "get"}
        /\ req' = req /\ st' = st /\ cpa' = cpa /\ view' = view
    BY <1>0, <1>3 DEF Lock
  <2>2. st[p].phase = "first"
    BY <1>0, <2>1 DEF Path, Outside, Blank
  <2>3. QED
    BY <1>0, <1>1, <2>1, <2>2, SeenGoesOn
<1>4. CASE GetChannel(p)
  <2>1. /\ pc[p] = "get" /\ pc'[p] \in {"get", "backup", "base"}
        /\ req' = req /\ cpa' = cpa /\ view' = view
    BY <1>0, <1>4 DEF GetChannel
  <2>2. st'[p].phase = st[p].phase
    BY <1>0, <1>4 DEF GetChannel, Locals
  <2>3. QED
    BY <1>0, <1>1, <2>1, <2>2, SeenGoesOn
<1>5. CASE GetFails(p) \/ PutFails(p)
  BY <1>5 DEF GetFails, PutFails
<1>6. CASE LoadBase(p)
  <2>1. /\ pc[p] = "base" /\ pc'[p] # "conflict" /\ req' = req /\ cpa' = cpa
        /\ view' = view /\ st'[p].phase = st[p].phase
    BY <1>0, <1>6, LoadBaseLocals DEF AfterLoad, LoadBase
  <2>2. QED
    BY <1>0, <1>1, <2>1, SeenGoesOn
<1>7. CASE Respond(p)
  <2>1. /\ pc[p] = "respond" /\ pc'[p] = "idle" /\ st'[p].phase = "first" /\ cpa' = cpa
        /\ view'[p] \in {NoConfig, st[p].snap}
    BY <1>0, <1>7 DEF Respond, Leave, Blank
  <2>2. st[p].snap = cpa
    BY <1>0, <2>1 DEF Current
  <2>3. QED
    BY <2>1, <2>2 DEF Seen
<1>8. CASE CheckFingerprint(p)
  <2>1. /\ pc[p] = "check" /\ req' = req /\ cpa' = cpa /\ view' = view /\ st' = st
        /\ pc'[p] = IF req[p].fp = st[p].snap THEN "ops" ELSE "conflict"
    BY <1>0, <1>8 DEF CheckFingerprint
  <2>2. CASE req[p].fp = st[p].snap
    BY <1>0, <1>1, <2>1, <2>2, SeenGoesOn
  <2>3. CASE req[p].fp # st[p].snap
    <3>1. st[p].phase # "save" /\ req[p].fp # cpa
      BY <1>0, <2>1, <2>3 DEF Current, Seen
    <3>2. Untouched(p) /\ req[p].kind = "save"
      BY <1>0, <2>1, <3>1 DEF Path, Untouched
    <3>3. stale[p]
      BY <1>0, <2>1, <3>1, <3>2 DEF Seen
    <3>4. stale'[p]
      BY <1>1, <2>1, <3>3
    <3>5. QED
      BY <2>1, <2>3, <3>1, <3>4 DEF Seen
  <2>4. QED
    BY <2>2, <2>3
<1>9. CASE Conflict(p)
  <2>1. /\ pc[p] = "conflict" /\ pc'[p] = "idle" /\ st'[p].phase = "first"
    BY <1>0, <1>9 DEF Conflict, Leave, Blank
  <2>2. stale'[p]
    BY <1>0, <1>1, <2>1 DEF Seen
  <2>3. QED
    BY <2>1, <2>2 DEF Seen
<1>10. CASE ApplyOp(p)
  <2>1. /\ pc[p] = "ops" /\ pc' = pc /\ req' = req /\ cpa' = cpa /\ view' = view
        /\ st'[p].phase = st[p].phase
    BY <1>0, <1>10, ApplyOpLocals DEF ApplyOp
  <2>2. QED
    BY <1>0, <1>1, <2>1, SeenGoesOn
<1>11. CASE WriteCatalog(p)
  <2>1. /\ pc[p] = "ops" /\ pc'[p] \in {"exclusions", "backup"}
        /\ req' = req /\ cpa' = cpa /\ view' = view /\ st'[p].phase = st[p].phase
    BY <1>0, <1>11, WriteCatalogLocals DEF WriteCatalog
  <2>2. QED
    BY <1>0, <1>1, <2>1, SeenGoesOn
<1>12. CASE SetExclusions(p) \/ SetDisabled(p)
  <2>1. /\ pc[p] \in {"exclusions", "disabled"} /\ pc'[p] \in {"disabled", "keeps"}
        /\ req' = req /\ cpa' = cpa /\ view' = view /\ st' = st
    BY <1>0, <1>12 DEF SetExclusions, SetDisabled
  <2>2. QED
    BY <1>0, <1>1, <2>1, SeenGoesOn
<1>13. CASE SetKeeps(p)
  <2>1. pc'[p] = "get" /\ st'[p].phase = "final"
    BY <1>0, <1>13, StartReadLocals DEF SetKeeps
  <2>2. QED
    BY <2>1 DEF Seen, Untouched
<1>14. CASE AddSnapshot(p) \/ PruneSnapshots(p)
  <2>1. /\ pc[p] \in {"backup", "trim"} /\ pc'[p] \in {"trim", "put"}
        /\ req' = req /\ cpa' = cpa /\ view' = view /\ st' = st
    BY <1>0, <1>14 DEF AddSnapshot, PruneSnapshots
  <2>2. QED
    BY <1>0, <1>1, <2>1, SeenGoesOn
<1>15. CASE PutChannel(p)
  <2>1. pc'[p] = "put"
    BY <1>15 DEF PutChannel
  <2>2. QED
    BY <2>1 DEF Seen, Untouched
<1>16. CASE PutsDone(p)
  <2>1. CASE req[p].kind \in {"save", "auto"}
    <3>1. pc'[p] = "exclusions"
      BY <1>0, <1>16, <2>1 DEF PutsDone, AfterPut
    <3>2. QED
      BY <3>1 DEF Seen, Untouched
  <2>2. CASE req[p].kind \notin {"save", "auto"}
    <3>1. PICK phase \in {"reload", "final"} : StartRead(p, st[p], phase)
      BY <1>16, <2>2 DEF PutsDone
    <3>2. pc'[p] = "get" /\ st'[p].phase = phase
      BY <1>0, <1>16, <2>2, <3>1, StartReadLocals DEF PutsDone, AfterPut
    <3>3. QED
      BY <3>2 DEF Seen, Untouched
  <2>3. QED
    BY <2>1, <2>2
<1>17. CASE Probe(p)
  <2>1. /\ pc[p] = "probe" /\ pc'[p] \in {"backup", "merge"}
        /\ req' = req /\ cpa' = cpa /\ view' = view /\ st'[p].phase = st[p].phase
    BY <1>0, <1>17, ProbeLocals DEF Probe
  <2>2. QED
    BY <1>0, <1>1, <2>1, SeenGoesOn
<1>18. CASE Merge(p)
  <2>1. pc[p] = "merge" /\ st[p].snap = cpa /\ cpa' = cpa /\ view' = view
    BY <1>0, <1>18, MergeLocals DEF Current, Merge
  <2>2. CASE p = Scheduler
    <3>1. pc'[p] = "get" /\ st'[p].phase = "save" /\ req'[p].fp = st[p].snap
      BY <1>0, <1>18, <2>2, MergeLocals
    <3>2. QED
      BY <2>1, <3>1 DEF Seen, Untouched
  <2>3. CASE p # Scheduler
    <3>1. pc'[p] = "respond" /\ req' = req /\ st'[p].phase = st[p].phase
      BY <1>0, <1>18, <2>3, MergeLocals
    <3>2. QED
      BY <1>0, <1>1, <2>1, <3>1, SeenGoesOn
  <2>4. QED
    BY <2>2, <2>3
<1>19. CASE SetWhitelist(p) \/ SetVersionFilter(p) \/ SetRouteByProtocol(p)
  <2>1. /\ pc[p] \in {"whitelist", "version", "route"}
        /\ pc'[p] \in {"version", "route", "respond"}
        /\ req' = req /\ cpa' = cpa /\ view' = view /\ st' = st
    BY <1>0, <1>19 DEF SetWhitelist, SetVersionFilter, SetRouteByProtocol
  <2>2. QED
    BY <1>0, <1>1, <2>1, SeenGoesOn
<1>20. CASE ReadSnapshot(p) \/ ProbeEgg(p) \/ Plan(p) \/ ProbeFails(p)
  <2>1. /\ pc[p] \in {"payload", "eggprobe", "plan", "probe"}
        /\ cpa' = cpa /\ view' = view
    BY <1>20 DEF ReadSnapshot, ProbeEgg, Plan, ProbeFails
  <2>2. st[p].phase = "first" /\ Untouched(p)
    BY <1>0, <2>1 DEF Path, FirstLap, Before, Untouched
  <2>3. CASE Leave(p)
    BY <1>0, <1>1, <2>1, <2>2, <2>3, SeenGivesUp
  <2>4. CASE ~Leave(p)
    <3>1. pc'[p] \in {"get", "backup"} /\ req' = req
      BY <1>0, <1>20, <2>4 DEF ReadSnapshot, ProbeEgg, Plan, ProbeFails
    <3>2. st'[p].phase = st[p].phase
      BY <1>0, <1>20, <2>4 DEF ReadSnapshot, ProbeEgg, Plan, ProbeFails, Locals
    <3>3. QED
      BY <1>0, <1>1, <2>1, <2>2, <3>1, <3>2, SeenGoesOn
  <2>5. QED
    BY <2>3, <2>4
<1>21. QED
  BY <1>2, <1>3, <1>4, <1>5, <1>6, <1>7, <1>8, <1>9, <1>10, <1>11, <1>12, <1>13,
     <1>14, <1>15, <1>16, <1>17, <1>18, <1>19, <1>20 DEF Step

\* And of anyone else, when no call fails and the panel does not crash.
LEMMA SeenInvKept ==
    ASSUME SeenInv, [HNext]_hvars, ~EditsInFlight, ~GetMayFail, ~PutMayFail, ~MayCrash
    PROVE  SeenInv'
<1>0. /\ ConvergeInv /\ TypeInv /\ Exclusive /\ Paths /\ \A p \in Procs : Seen(p)
      /\ view \in [Procs -> Config \cup {NoConfig}]
  BY DEF SeenInv, ConvergeInv, FreshInv, TypeInv, TypeOK
<1>1. ConvergeInv'
  BY <1>0, ConvergeInvKept DEF HNext, hvars
<1>2. ASSUME NEW q \in Procs, pc[q] \in Outside, pc'[q] = pc[q], req'[q] = req[q],
             st'[q] = st[q], view'[q] = view[q], RecordStale
      PROVE  Seen(q)'
  <2>1. Seen(q) /\ st[q].phase = "first"
    BY <1>0, <1>2 DEF Paths, Path, Blank
  <2>2. ~stale'[q] => ~stale[q] /\ cpa' = cpa
    BY <1>2, StaleStep DEF Outside
  <2>3. pc[q] \notin {"get", "base", "check", "conflict"}
    BY <1>2 DEF Outside
  <2>4. QED
    BY <1>2, <2>1, <2>2, <2>3 DEF Seen, Untouched
<1>3. CASE UNCHANGED hvars
  BY <1>0, <1>1, <1>3 DEF hvars, vars, history, SeenInv, Seen, Untouched
<1>4. CASE HNext
  <2>1. RecordStale
    BY <1>4 DEF HNext, Record
  <2>2. ASSUME NEW p \in Procs, Arrive(p) \/ Lock(p) \/ Step(p), NEW q \in Procs
        PROVE  Seen(q)'
    <3>1. CASE q = p
      BY <2>1, <2>2, <3>1, SeenStep
    <3>2. CASE q # p
      <4>1. /\ pc'[q] = pc[q] /\ req'[q] = req[q] /\ st'[q] = st[q]
            /\ Step(p) => pc[q] \in Outside
        BY <1>0, <2>2, <3>2, OthersWait
      <4>2. view'[q] = view[q]
        BY <1>0, <2>2, <3>2, WhoShows DEF Respond
      <4>3. CASE Step(p)
        BY <1>2, <2>1, <4>1, <4>2, <4>3
      <4>4. CASE Arrive(p) \/ Lock(p)
        <5>1. cpa' = cpa /\ (stale[q] => stale'[q])
          BY <2>1, <4>1, <4>4, StaleStep DEF Arrive, Lock
        <5>2. Seen(q)
          BY <1>0
        <5>3. QED
          BY <4>1, <4>2, <5>1, <5>2 DEF Seen, Untouched
      <4>5. QED
        BY <2>2, <4>3, <4>4
    <3>3. QED
      BY <3>1, <3>2
  <2>3. ASSUME ExternalEdit, NEW q \in Procs
        PROVE  Seen(q)'
    <3>1. /\ pc' = pc /\ req' = req /\ st' = st /\ view' = view /\ mu = NoProc
      BY <2>3 DEF ExternalEdit
    <3>2. pc[q] \in Outside
      BY <1>0, <3>1, PanelAssumption DEF Exclusive
    <3>3. QED
      BY <1>2, <2>1, <3>1, <3>2
  <2>4. ~Crash
    BY DEF Crash
  <2>5. QED
    BY <1>1, <1>4, <2>2, <2>3, <2>4 DEF HNext, Next, SeenInv
<1>5. QED
  BY <1>3, <1>4

\* A save is refused only when someone else changed CPA after the view it
\* was made on, provided nobody edits CPA while a handler runs, no call to
\* CPA fails and the panel does not crash: a user whose own save was cut off
\* is refused on account of that save.
THEOREM ConflictsAreReal ==
    ASSUME ~EditsInFlight, ~GetMayFail, ~PutMayFail, ~MayCrash
    PROVE  HSpec => []ConflictIsReal
<1>1. HInit => SeenInv
  <2>1. Init => ConvergeInv
    BY ConvergeInit
  <2>2. HInit => \A p \in Procs : Seen(p)
    BY DEF HInit, Init, Seen
  <2>3. QED
    BY <2>1, <2>2 DEF HInit, SeenInv
<1>2. SeenInv /\ [HNext]_hvars => SeenInv'
  BY SeenInvKept
<1>3. SeenInv => ConflictIsReal
  BY DEF SeenInv, Seen, ConflictIsReal
<1>4. QED
  BY <1>1, <1>2, <1>3, PTL DEF HSpec

-----------------------------------------------------------------------------
\* What the panel withholds it can give back.

\* Two catalogs have the same models, in the same condition.
SameState(a, b) ==
    \A r \in Refs :
        /\ a[r] = NoEntry <=> b[r] = NoEntry
        /\ a[r] # NoEntry =>
              /\ a[r].present <=> b[r].present
              /\ a[r].pending <=> b[r].pending
              /\ a[r].withheld <=> b[r].withheld
              /\ a[r].gone <=> b[r].gone

\* Until it writes it, a handler's catalog differs from the cache by aliases.
Alike(p) == pc[p] \in Holding => SameState(st[p].cat, catalog)

HoldInv == LoadInv /\ \A p \in Procs : Alike(p)

\* A step keeps the catalog of its handler like the cache.
LEMMA HoldInvKept ==
    ASSUME HoldInv, [Next]_vars, ~EditsInFlight
    PROVE  HoldInv'
<1> USE DEF Holding
<1>0. /\ LoadInv /\ ConvergeInv /\ TypeInv /\ Exclusive /\ Roles /\ Paths
      /\ pc \in [Procs -> Labels] /\ \A p \in Procs : st[p].cat \in Catalog
  BY DEF HoldInv, LoadInv, ConvergeInv, FreshInv, TypeInv, TypeOK, Locals
<1>1. LoadInv'
  BY <1>0, LoadInvKept
<1>2. ASSUME NEW p \in Procs, Arrive(p) \/ Lock(p) \/ Step(p)
      PROVE  Alike(p)'
  <2>1. Alike(p)
    BY DEF HoldInv
  <2>2. CASE LoadBase(p)
    <3>1. st'[p].cat = catalog'
      BY <1>0, <2>2, LoadBaseLocals
    <3>2. QED
      BY <3>1 DEF Alike, SameState
  <2>3. CASE ApplyOp(p)
    <3>1. PICK op \in Op : st'[p].cat = OpOnCatalog(st[p].cat, op)
      BY <1>0, <2>3, ApplyOpLocals
    <3>2. pc[p] = "ops" /\ catalog' = catalog
      BY <2>3 DEF ApplyOp, store
    <3>3. SameState(OpOnCatalog(st[p].cat, op), catalog)
      BY <1>0, <2>1, <3>2, OpKeeps DEF Alike, SameState
    <3>4. QED
      BY <3>1, <3>2, <3>3 DEF Alike, SameState
  <2>4. CASE WriteCatalog(p)
    BY <1>0, <2>4, WriteCatalogLocals DEF Alike
  <2>5. CASE Merge(p)
    BY <1>0, <2>5, MergeLocals DEF Alike
  <2>6. CASE PutChannel(p) \/ PutFails(p)
    BY <1>0, <2>6 DEF PutChannel, PutFails, Leave, Goto, Alike
  <2>7. CASE Quiet(p)
    BY <2>1, <2>7 DEF Quiet, Alike, SameState
  <2>8. QED
    BY <1>0, <1>2, <2>2, <2>3, <2>4, <2>5, <2>6, <2>7, QuietStep
<1>3. ASSUME NEW p \in Procs, Arrive(p) \/ Lock(p) \/ Step(p), NEW q \in Procs, q # p
      PROVE  Alike(q)'
  <2>1. pc'[q] = pc[q] /\ st'[q] = st[q]
    BY <1>0, <1>3, OthersWait
  <2>2. CASE Step(p)
    BY <1>0, <1>3, <2>1, <2>2, OthersWait DEF Alike, Outside
  <2>3. CASE Arrive(p) \/ Lock(p)
    <3>1. catalog' = catalog
      BY <2>3 DEF Arrive, Lock, store
    <3>2. QED
      BY <2>1, <3>1 DEF HoldInv, Alike, SameState
  <2>4. QED
    BY <1>3, <2>2, <2>3
<1>4. ASSUME ExternalEdit \/ UNCHANGED vars, NEW p \in Procs
      PROVE  Alike(p)'
  <2>1. pc' = pc /\ st' = st /\ catalog' = catalog
    BY <1>4 DEF ExternalEdit, vars, store
  <2>2. QED
    BY <2>1 DEF HoldInv, Alike, SameState
<1>5. ASSUME Crash, NEW p \in Procs
      PROVE  Alike(p)'
  BY <1>5 DEF Crash, Alike
<1>6. \A p \in Procs : Alike(p)'
  BY <1>2, <1>3, <1>4, <1>5 DEF Next
<1>7. QED
  BY <1>1, <1>6 DEF HoldInv

\* Nobody holds anything at the start.
LEMMA HoldInit == Init => HoldInv
BY LoadInit DEF Init, HoldInv, Alike, Holding

\* A model is withheld in the cache, or the save that gives it back is on
\* its way.
Remembered(r) ==
    \/ catalog[r] # NoEntry /\ catalog[r].withheld
    \/ \E p \in Procs : pc[p] \in Writing /\ Saves(p) /\ Holds(st[p].out, r)

OwedInv ==
    /\ HoldInv
    /\ \A r \in owed : /\ r \in Refs /\ Known(cpa, r[1]) /\ ~Holds(cpa, r)
                       /\ catalog[r] # NoEntry => ~catalog[r].gone
                       /\ Remembered(r)

\* A write goes on, unless a list fails, until the last list is sent.
LEMMA WriteGoesOn ==
    ASSUME TypeInv, NEW p \in Procs, pc[p] \in Writing,
           Arrive(p) \/ Lock(p) \/ Step(p), ~PutFails(p)
    PROVE  \/ pc'[p] \in Writing /\ req'[p] = req[p] /\ st'[p].out = st[p].out
           \/ pc[p] = "put" /\ st[p].todo = {} /\ PutsDone(p)
<1> USE DEF Goto, Writing
<1>0. pc \in [Procs -> Labels] /\ st \in [Procs -> Locals] /\ st[p] \in Locals
  BY DEF TypeInv, TypeOK
<1>1. CASE AddSnapshot(p) \/ PruneSnapshots(p)
  BY <1>0, <1>1 DEF AddSnapshot, PruneSnapshots
<1>2. CASE PutChannel(p)
  BY <1>0, <1>2 DEF PutChannel, Locals
<1>3. CASE PutsDone(p)
  BY <1>3 DEF PutsDone
<1>4. CASE \/ Arrive(p) \/ Lock(p) \/ GetChannel(p) \/ GetFails(p) \/ LoadBase(p)
           \/ Respond(p) \/ CheckFingerprint(p) \/ Conflict(p) \/ ApplyOp(p)
           \/ WriteCatalog(p) \/ SetExclusions(p) \/ SetDisabled(p) \/ SetKeeps(p)
  BY <1>4 DEF Arrive, Lock, GetChannel, GetFails, LoadBase, Respond, CheckFingerprint,
              Conflict, ApplyOp, WriteCatalog, SetExclusions, SetDisabled, SetKeeps
<1>5. CASE \/ Probe(p) \/ ProbeFails(p) \/ Merge(p) \/ SetWhitelist(p)
           \/ SetVersionFilter(p) \/ SetRouteByProtocol(p) \/ ReadSnapshot(p)
           \/ ProbeEgg(p) \/ Plan(p)
  BY <1>5 DEF Probe, ProbeFails, Merge, SetWhitelist, SetVersionFilter,
              SetRouteByProtocol, ReadSnapshot, ProbeEgg, Plan
<1>6. QED
  BY <1>1, <1>2, <1>3, <1>4, <1>5 DEF Step

\* When a save has sent its last list CPA holds what it meant to send.
LEMMA AllSent ==
    ASSUME ConvergeInv, NEW p \in Procs, pc[p] = "put", Saves(p), st[p].todo = {}
    PROVE  cpa = st[p].out
<1>1. cpa \in Config /\ st[p].out \in Config
  BY DEF ConvergeInv, FreshInv, TypeInv, TypeOK, Locals
<1>2. \A c \in Channels : cpa[c] = st[p].out[c]
  BY DEF ConvergeInv, Converging, Writing
<1>3. QED
  BY <1>1, <1>2, NoDiffer

\* A save that does not hide a withheld model sends it back to CPA.
LEMMA WriteRemembers ==
    ASSUME HoldInv, NEW p \in Procs, WriteCatalog(p), NEW r \in Refs,
           Known(cpa, r[1]), ~Holds(cpa, r),
           catalog[r] # NoEntry, catalog[r].withheld, ~catalog[r].gone
    PROVE  Remembered(r)'
<1> DEFINE s == st[p]
           e == Prune(MarkWithheld(s.cat, s.marks), s.marks)[r]
<1>0. /\ ConvergeInv /\ TypeInv /\ cpa \in Config /\ Alike(p) /\ Current(p) /\ Role(p)
      /\ s \in Locals /\ s.cat \in Catalog /\ s.marks \in Marks /\ Sound(s.cat)
      /\ pc \in [Procs -> Labels]
  BY DEF HoldInv, LoadInv, ConvergeInv, FreshInv, TypeInv, TypeOK, Locals, Fresh, Roles,
         CatalogsSound
<1>1. /\ pc[p] = "ops" /\ s.snap = cpa /\ req' = req /\ Saves(p)
      /\ pc'[p] = IF st'[p].todo = {} THEN "exclusions" ELSE "backup"
      /\ st'[p].out = BuildWrite(s.cat, s.marks, cpa)
      /\ st'[p].todo = Differ(st'[p].out, cpa) /\ catalog'[r] = e
  BY <1>0, WriteCatalogLocals DEF Current, Role, Marking, Saves
<1>2. s.cat[r] # NoEntry /\ ~s.cat[r].gone
  BY <1>0, <1>1 DEF Alike, SameState, Holding
<1>3. CASE Hidden(r, s.cat[r], s.marks)
  <2>1. e # NoEntry /\ e.withheld
    BY <1>0, <1>2, <1>3, WriteKeeps
  <2>2. QED
    BY <1>1, <2>1 DEF Remembered
<1>4. CASE ~Hidden(r, s.cat[r], s.marks)
  <2>1. Written(s.cat, s.marks, r)
    BY <1>2, <1>4 DEF Written
  <2>2. Holds(st'[p].out, r)
    BY <1>0, <1>1, <2>1, WriteHolds
  <2>3. PICK c \in Channels : Lists(st'[p].out, c, r)
    BY <2>2 DEF Holds
  <2>4. c \in st'[p].todo
    BY <1>1, <2>3 DEF Differ, Holds, Lists
  <2>5. pc'[p] = "backup"
    BY <1>1, <2>4
  <2>6. QED
    BY <1>1, <2>2, <2>5 DEF Remembered, Writing, Saves
<1>5. QED
  BY <1>3, <1>4

\* A step of p forgets nothing the panel owes, unless a list it sends fails.
LEMMA OwedStep ==
    ASSUME OwedInv, NEW p \in Procs, Arrive(p) \/ Lock(p) \/ Step(p), RecordOwed,
           ~PutMayFail, NEW r \in owed'
    PROVE  Remembered(r)'
<1>0. /\ ConvergeInv /\ TypeInv /\ Exclusive /\ Roles /\ Paths /\ HoldInv
      /\ catalog \in Catalog /\ st[p].cat \in Catalog /\ Alike(p) /\ Current(p)
  BY DEF OwedInv, HoldInv, LoadInv, ConvergeInv, FreshInv, TypeInv, TypeOK, Locals, Fresh
<1>1. /\ r \in Refs /\ ~Holds(cpa', r)
      /\ r \in owed \/ (catalog'[r] # NoEntry /\ catalog'[r].withheld)
  BY DEF RecordOwed
<1>2. SUFFICES ASSUME r \in owed, ~(catalog'[r] # NoEntry /\ catalog'[r].withheld)
               PROVE  Remembered(r)'
  BY <1>1 DEF Remembered
<1>3. /\ Known(cpa, r[1]) /\ ~Holds(cpa, r) /\ Remembered(r)
      /\ catalog[r] # NoEntry => ~catalog[r].gone
  BY <1>2 DEF OwedInv
<1>4. CASE catalog[r] # NoEntry /\ catalog[r].withheld
  <2>1. CASE catalog' = catalog
    BY <1>2, <1>4, <2>1
  <2>2. CASE LoadBase(p)
    <3>1. catalog' = Reloaded(catalog, st'[p].marks, cpa)
      BY <1>0, <2>2, LoadBaseLocals DEF Current
    <3>2. LET e == Reloaded(catalog, st'[p].marks, cpa)[r]
          IN  /\ e # NoEntry => catalog[r] # NoEntry /\ e = [catalog[r] EXCEPT !.present = FALSE]
              /\ catalog[r] # NoEntry /\ catalog[r].withheld => e # NoEntry
      BY <1>0, <1>1, <1>3, ReloadAbsent
    <3>3. /\ catalog'[r] # NoEntry /\ catalog'[r] = [catalog[r] EXCEPT !.present = FALSE]
      BY <1>4, <3>1, <3>2
    <3>4. catalog[r] \in Entry
      BY <1>0, <1>1, <1>4, EntryOf
    <3>5. QED
      BY <1>2, <1>4, <3>3, <3>4 DEF Entry
  <2>3. CASE WriteCatalog(p)
    BY <1>0, <1>1, <1>3, <1>4, <2>3, WriteRemembers
  <2>4. CASE Merge(p)
    <3> DEFINE s == st[p]
               e == Prune(MergeDiscovered(s.cat, s.snap, s.found), s.marks)[r]
    <3>1. pc[p] = "merge" /\ catalog'[r] = e
      BY <1>0, <2>4, MergeLocals
    <3>2. s.cat[r] # NoEntry /\ s.cat[r].withheld
      BY <1>0, <1>1, <1>4, <3>1 DEF Alike, SameState, Holding
    <3>3. /\ e # NoEntry /\ s.cat[r] # NoEntry => (e.withheld <=> s.cat[r].withheld)
          /\ s.cat[r] # NoEntry /\ (s.cat[r].present \/ s.cat[r].withheld) => e # NoEntry
      BY <1>0, <1>1, MergeKeeps
    <3> HIDE DEF e
    <3>4. QED
      BY <1>2, <3>1, <3>2, <3>3
  <2>5. CASE ApplyOp(p) \/ PutChannel(p) \/ PutFails(p)
    BY <2>1, <2>5 DEF ApplyOp, PutChannel, PutFails, store
  <2>6. QED
    BY <1>0, <2>1, <2>2, <2>3, <2>4, <2>5, QuietStep DEF Quiet
<1>5. CASE \E q \in Procs : pc[q] \in Writing /\ Saves(q) /\ Holds(st[q].out, r)
  <2>1. PICK q \in Procs : pc[q] \in Writing /\ Saves(q) /\ Holds(st[q].out, r)
    BY <1>5
  <2>2. CASE q # p
    <3>1. pc'[q] = pc[q] /\ req'[q] = req[q] /\ st'[q] = st[q]
      BY <1>0, <2>2, OthersWait
    <3>2. QED
      BY <2>1, <3>1 DEF Remembered, Saves
  <2>3. CASE q = p
    <3>1. ~(pc[p] = "put" /\ st[p].todo = {})
      BY <1>0, <1>3, <2>1, <2>3, AllSent
    <3>2. pc'[p] \in Writing /\ req'[p] = req[p] /\ st'[p].out = st[p].out
      BY <1>0, <2>1, <2>3, <3>1, WriteGoesOn DEF PutFails
    <3>3. QED
      BY <2>1, <2>3, <3>2 DEF Remembered, Saves
  <2>4. QED
    BY <2>2, <2>3
<1>6. QED
  BY <1>3, <1>4, <1>5 DEF Remembered

\* Nor does anything else, as long as nobody edits CPA meanwhile.
LEMMA OwedInvKept ==
    ASSUME OwedInv, [HNext]_hvars, ~EditsInFlight, ~PutMayFail, ~MayCrash
    PROVE  OwedInv'
<1>0. HoldInv /\ TypeInv /\ \A r \in owed : Remembered(r)
  BY DEF OwedInv, HoldInv, LoadInv, ConvergeInv, FreshInv
<1>1. HoldInv'
  BY <1>0, HoldInvKept DEF HNext, hvars
<1>2. CASE UNCHANGED hvars
  BY <1>0, <1>1, <1>2 DEF hvars, vars, history, OwedInv, Remembered, Saves
<1>3. CASE HNext
  <2>1. RecordOwed
    BY <1>3 DEF HNext, Record
  <2>2. ASSUME NEW r \in owed'
        PROVE  Remembered(r)'
    <3>1. CASE \E p \in Procs : Arrive(p) \/ Lock(p) \/ Step(p)
      BY <2>1, <2>2, <3>1, OwedStep
    <3>2. CASE ExternalEdit
      <4>1. r \in owed \/ (catalog'[r] # NoEntry /\ catalog'[r].withheld)
        BY <2>1, <2>2 DEF RecordOwed
      <4>2. pc' = pc /\ req' = req /\ st' = st /\ catalog' = catalog
        BY <3>2 DEF ExternalEdit, store
      <4>3. QED
        BY <1>0, <4>1, <4>2 DEF Remembered, Saves
    <3>3. QED
      BY <1>3, <3>1, <3>2 DEF HNext, Next, Crash
  <2>3. QED
    BY <1>1, <2>1, <2>2 DEF OwedInv, RecordOwed
<1>4. QED
  BY <1>2, <1>3

\* Whenever no request runs, a model the panel filtered out of CPA is still
\* in the cache, or back in CPA, provided nobody edits CPA while a handler
\* runs, no PUT fails and the panel does not crash between the two halves of
\* a save.  A GET may fail.
THEOREM WithheldStays ==
    ASSUME ~EditsInFlight, ~PutMayFail, ~MayCrash
    PROVE  HSpec => []WithheldSurvives
<1>1. HInit => OwedInv
  BY HoldInit DEF HInit, OwedInv
<1>2. OwedInv /\ [HNext]_hvars => OwedInv'
  BY OwedInvKept
<1>3. OwedInv => WithheldSurvives
  <2> SUFFICES ASSUME OwedInv, mu = NoProc, NEW r \in owed
               PROVE  catalog[r] # NoEntry
    BY DEF WithheldSurvives
  <2>1. \A p \in Procs : pc[p] \in Outside
    BY PanelAssumption DEF OwedInv, HoldInv, LoadInv, ConvergeInv, FreshInv, Exclusive
  <2>2. QED
    BY <2>1 DEF OwedInv, Remembered, Outside, Writing
<1>4. QED
  BY <1>1, <1>2, <1>3, PTL DEF HSpec

-----------------------------------------------------------------------------
\* What someone deleted in CPA is not put back.

\* A save that has begun to write and has not loaded what it wrote.
Unsettled(p) ==
    /\ Saves(p)
    /\ \/ pc[p] \in Writing \cup Storing
       \/ st[p].phase = "final" /\ pc[p] \in {"get", "base"}

\* An entry that only CPA keeps in the cache.
Plain(e) == e.present /\ ~e.pending /\ ~e.withheld

\* Between saves the cache has what CPA held, or a save put there, as plain.
CleanInv ==
    (\A p \in Procs : ~Unsettled(p)) =>
        \A r \in Refs : catalog[r] # NoEntry /\ (catalog[r].present \/ r \in placed)
                           => Plain(catalog[r])

\* An erased model is out of CPA, and nothing but its past keeps it.
Erased ==
    \A r \in erased : /\ r \in Refs /\ ~Holds(cpa, r)
                      /\ catalog[r] = NoEntry \/ Plain(catalog[r])

\* A handler that loads forgets it, and so does not write it.
ErasedIn(p) ==
    /\ pc[p] \in Holding => \A r \in erased : catalog[r] = NoEntry
    /\ pc[p] \in Writing /\ Saves(p) => \A r \in erased : ~Holds(st[p].out, r)

EraseInv ==
    /\ HoldInv /\ CleanInv
    /\ \A r \in placed : Holds(cpa, r)
    /\ Erased /\ \A p \in Procs : ErasedIn(p)

\* A save that no call fails goes on until its last load.
LEMMA UnsettledStays ==
    ASSUME TypeInv, NEW p \in Procs, Unsettled(p),
           Arrive(p) \/ Lock(p) \/ Step(p), ~LoadBase(p), ~GetMayFail, ~PutMayFail
    PROVE  Unsettled(p)'
<1> USE DEF Goto, Writing, Storing, Saves
<1>0. pc \in [Procs -> Labels] /\ st \in [Procs -> Locals] /\ st[p] \in Locals
  BY DEF TypeInv, TypeOK
<1>1. CASE pc[p] \in Writing
  <2>1. \/ pc'[p] \in Writing /\ req'[p] = req[p]
        \/ pc[p] = "put" /\ PutsDone(p)
    BY <1>1, WriteGoesOn DEF PutFails
  <2>2. CASE PutsDone(p)
    BY <1>0, <2>2 DEF PutsDone, AfterPut, Unsettled
  <2>3. QED
    BY <2>1, <2>2 DEF Unsettled
<1>2. CASE SetExclusions(p) \/ SetDisabled(p)
  BY <1>0, <1>2 DEF SetExclusions, SetDisabled, Unsettled
<1>3. CASE SetKeeps(p)
  <2>1. pc'[p] = "get" /\ req' = req /\ st'[p].phase = "final"
    BY <1>0, <1>3, StartReadLocals DEF SetKeeps
  <2>2. QED
    BY <2>1 DEF Unsettled
<1>4. CASE GetChannel(p)
  <2>1. pc[p] = "get" /\ req' = req /\ pc'[p] \in {"get", "base"}
    BY <1>0, <1>4 DEF GetChannel, Unsettled
  <2>2. st'[p].phase = st[p].phase
    BY <1>0, <1>4 DEF GetChannel, Locals
  <2>3. QED
    BY <2>1, <2>2 DEF Unsettled
<1>5. CASE \/ Arrive(p) \/ Lock(p) \/ GetFails(p) \/ Respond(p) \/ CheckFingerprint(p)
           \/ Conflict(p) \/ ApplyOp(p) \/ WriteCatalog(p) \/ Probe(p) \/ ProbeFails(p)
           \/ Merge(p)
  BY <1>5 DEF Arrive, Lock, GetFails, Respond, CheckFingerprint, Conflict, ApplyOp,
              WriteCatalog, Probe, ProbeFails, Merge, Unsettled
<1>6. CASE \/ SetWhitelist(p) \/ SetVersionFilter(p) \/ SetRouteByProtocol(p)
           \/ ReadSnapshot(p) \/ ProbeEgg(p) \/ Plan(p)
  BY <1>6 DEF SetWhitelist, SetVersionFilter, SetRouteByProtocol, ReadSnapshot,
              ProbeEgg, Plan, Unsettled
<1>7. CASE AddSnapshot(p) \/ PruneSnapshots(p) \/ PutChannel(p) \/ PutsDone(p) \/ PutFails(p)
  BY <1>1, <1>7 DEF AddSnapshot, PruneSnapshots, PutChannel, PutsDone, PutFails
<1>8. QED
  BY <1>2, <1>3, <1>4, <1>5, <1>6, <1>7 DEF Step

\* A save that is sending is not settled; elsewhere nothing becomes placed.
LEMMA PlacedStays ==
    ASSUME RecordPlaced, \A q \in Procs : ~Unsettled(q), NEW r \in placed'
    PROVE  r \in placed
BY DEF RecordPlaced, SaveStep, Saving, Unsettled, Saves, Writing

\* A step of p leaves the cache plain where it has to be.
LEMMA CleanStep ==
    ASSUME HoldInv, CleanInv, \A r \in placed : Holds(cpa, r), RecordPlaced,
           NEW p \in Procs, Arrive(p) \/ Lock(p) \/ Step(p), ~GetMayFail, ~PutMayFail
    PROVE  CleanInv'
<1>0. /\ ConvergeInv /\ TypeInv /\ Exclusive /\ Roles /\ Paths
      /\ catalog \in Catalog /\ st[p].cat \in Catalog /\ cpa \in Config
      /\ Alike(p) /\ Current(p) /\ Loaded(p) /\ Role(p)
  BY DEF HoldInv, LoadInv, ConvergeInv, FreshInv, TypeInv, TypeOK, Locals, Fresh, Roles
<1>1. CASE LoadBase(p)
  <2>1. catalog' = Reloaded(catalog, st'[p].marks, cpa) /\ cpa' = cpa
    BY <1>0, <1>1, LoadBaseLocals DEF Current
  <2>2. ASSUME NEW r \in Refs, catalog'[r] # NoEntry, catalog'[r].present \/ r \in placed'
        PROVE  Plain(catalog'[r])
    <3> DEFINE e == Reloaded(catalog, st'[p].marks, cpa)[r]
    <3>1. catalog'[r] = e
      BY <2>1
    <3>2. CASE Live(cpa, r)
      <4>1. e.present /\ ~e.pending /\ ~e.withheld
        BY <1>0, <3>2, ReloadLive
      <4>2. QED
        BY <3>1, <4>1 DEF Plain
    <3>3. CASE ~Known(cpa, r[1])
      BY <2>2, <3>1, <3>3, ReloadUnknown
    <3>4. CASE Known(cpa, r[1]) /\ ~Holds(cpa, r)
      <4>1. e # NoEntry => catalog[r] # NoEntry /\ e = [catalog[r] EXCEPT !.present = FALSE]
        BY <1>0, <3>4, ReloadAbsent
      <4> HIDE DEF e
      <4>2. catalog[r] \in Entry /\ ~e.present
        <5>1. catalog[r] \in Entry
          BY <1>0, <2>2, <3>1, <4>1, EntryOf
        <5>2. QED
          BY <2>2, <3>1, <4>1, <5>1 DEF Entry
      <4>3. r \notin placed'
        BY <2>1, <3>4 DEF RecordPlaced
      <4>4. QED
        BY <2>2, <3>1, <4>2, <4>3
    <3>5. QED
      BY <3>2, <3>3, <3>4 DEF Live
  <2>3. QED
    BY <2>2 DEF CleanInv
<1>2. CASE WriteCatalog(p)
  <2>1. /\ pc[p] = "ops" /\ req' = req /\ pc'[p] \in {"exclusions", "backup"}
    BY <1>0, <1>2, WriteCatalogLocals
  <2>2. Unsettled(p)'
    BY <1>0, <2>1 DEF Unsettled, Role, Marking, Saves, Writing, Storing
  <2>3. QED
    BY <2>2 DEF CleanInv
<1>3. CASE Merge(p)
  <2> DEFINE s == st[p]
             e(r) == Prune(MergeDiscovered(s.cat, s.snap, s.found), s.marks)[r]
  <2>1. pc[p] = "merge" /\ s.snap = cpa /\ \A r : catalog'[r] = e(r)
    BY <1>0, <1>3, MergeLocals DEF Current
  <2>2. \A q \in Procs : ~Unsettled(q)
    BY <1>0, <2>1, Alone DEF Unsettled, Outside, Writing, Storing
  <2>3. ASSUME NEW r \in Refs, catalog'[r] # NoEntry, catalog'[r].present \/ r \in placed'
        PROVE  Plain(catalog'[r])
    <3>1. /\ e(r) # NoEntry /\ s.cat[r] = NoEntry
               => Heard(s.snap, s.found, r) /\ ~e(r).present
          /\ e(r) # NoEntry /\ s.cat[r] # NoEntry =>
               /\ e(r).present <=> s.cat[r].present
               /\ e(r).withheld <=> s.cat[r].withheld
               /\ e(r).pending => s.cat[r].pending
      BY <1>0, MergeKeeps
    <3> HIDE DEF e
    <3>2. r \in placed' => r \in placed /\ Holds(cpa, r)
      BY <2>2, PlacedStays
    <3>3. CASE s.cat[r] = NoEntry
      <4>1. r \in placed' /\ Known(cpa, r[1])
        BY <2>1, <2>3, <3>1, <3>3 DEF Heard
      <4>2. Live(cpa, r)
        BY <3>2, <4>1 DEF Live
      <4>3. QED
        BY <1>0, <2>1, <3>3, <4>2 DEF Loaded, Holding
    <3>4. CASE s.cat[r] # NoEntry
      <4>1. /\ catalog[r] # NoEntry
            /\ catalog[r].present <=> s.cat[r].present
            /\ catalog[r].pending <=> s.cat[r].pending
            /\ catalog[r].withheld <=> s.cat[r].withheld
        BY <1>0, <2>1, <3>4 DEF Alike, SameState, Holding
      <4>2. catalog[r].present \/ r \in placed
        BY <2>1, <2>3, <3>1, <3>2, <3>4, <4>1
      <4>3. Plain(catalog[r])
        BY <2>2, <4>1, <4>2 DEF CleanInv
      <4>4. QED
        BY <2>1, <2>3, <3>1, <3>4, <4>1, <4>3 DEF Plain
    <3>5. QED
      BY <3>3, <3>4
  <2>4. QED
    BY <2>3 DEF CleanInv
<1>4. CASE catalog' = catalog /\ ~LoadBase(p)
  <2>1. CASE \A q \in Procs : ~Unsettled(q)
    BY <1>4, <2>1, PlacedStays DEF CleanInv
  <2>2. CASE \E q \in Procs : Unsettled(q)
    <3>1. PICK q \in Procs : Unsettled(q)
      BY <2>2
    <3>2. CASE q = p
      BY <1>0, <1>4, <3>1, <3>2, UnsettledStays DEF CleanInv
    <3>3. CASE q # p
      <4>1. pc'[q] = pc[q] /\ req'[q] = req[q] /\ st'[q] = st[q]
        BY <1>0, <3>3, OthersWait
      <4>2. QED
        BY <3>1, <4>1 DEF CleanInv, Unsettled, Saves
    <3>4. QED
      BY <3>2, <3>3
  <2>3. QED
    BY <2>1, <2>2
<1>5. ApplyOp(p) \/ PutChannel(p) \/ PutFails(p) => catalog' = catalog
  BY DEF ApplyOp, PutChannel, PutFails, store
<1>6. QED
  BY <1>0, <1>1, <1>2, <1>3, <1>4, <1>5, QuietStep DEF Quiet

\* A step of a process erases nothing, and keeps as erased only what it
\* neither hides by a rule nor finds again.
LEMMA ErasedStays ==
    ASSUME TypeInv, Exclusive, ~EditsInFlight, RecordErased,
           NEW p \in Procs, Arrive(p) \/ Lock(p) \/ Step(p), NEW r \in erased'
    PROVE  /\ r \in erased /\ (Appears(r) => SaveStep)
           /\ ~ExplainedByRule(r) /\ ~Rediscovered(r)
<1>1. CASE ExternalEdit
  <2>1. mu = NoProc
    BY <1>1 DEF ExternalEdit
  <2>2. ~Step(p)
    BY <2>1, Inside, PanelAssumption DEF Exclusive
  <2>3. cpa' = cpa
    BY <2>2 DEF Arrive, Lock
  <2>4. QED
    BY <2>3 DEF RecordErased, Live
<1>2. CASE ~ExternalEdit
  BY <1>2 DEF RecordErased
<1>3. QED
  BY <1>1, <1>2

\* A step of p keeps the erased models out, in CPA, the cache and with p.
LEMMA EraseStep ==
    ASSUME EraseInv, ~EditsInFlight, ~PutMayFail, RecordErased,
           NEW p \in Procs, Arrive(p) \/ Lock(p) \/ Step(p)
    PROVE  Erased' /\ ErasedIn(p)'
<1> USE DEF Holding, Writing
<1>0. /\ TypeInv /\ Exclusive /\ Roles /\ Paths
      /\ pc \in [Procs -> Labels] /\ cpa \in Config /\ catalog \in Catalog
      /\ st[p] \in Locals /\ st[p].cat \in Catalog /\ Alike(p) /\ Current(p)
      /\ Erased /\ ErasedIn(p)
  BY DEF EraseInv, HoldInv, LoadInv, ConvergeInv, FreshInv, TypeInv, TypeOK, Locals, Fresh
<1>1. ASSUME NEW r \in erased'
      PROVE  /\ r \in erased /\ r \in Refs /\ ~Holds(cpa, r)
             /\ catalog[r] = NoEntry \/ Plain(catalog[r])
             /\ Appears(r) => SaveStep
             /\ ~ExplainedByRule(r) /\ ~Rediscovered(r)
  BY <1>0, ErasedStays DEF Erased
<1>2. CASE LoadBase(p)
  <2>1. /\ pc[p] = "base" /\ pc'[p] \notin Writing \cup {"base"} /\ cpa' = cpa
        /\ catalog' = Reloaded(catalog, st'[p].marks, cpa)
    BY <1>0, <1>2, LoadBaseLocals DEF Current, AfterLoad
  <2>2. ASSUME NEW r \in erased'
        PROVE  catalog'[r] = NoEntry
    <3> DEFINE e == Reloaded(catalog, st'[p].marks, cpa)[r]
    <3>1. catalog'[r] = e
      BY <2>1
    <3>2. CASE ~Known(cpa, r[1])
      BY <1>1, <3>1, <3>2, ReloadUnknown
    <3>3. CASE Known(cpa, r[1])
      <4>1. e # NoEntry => /\ catalog[r] # NoEntry /\ e = [catalog[r] EXCEPT !.present = FALSE]
                           /\ e.pending \/ e.withheld \/ (~e.gone /\ Hidden(r, e, st'[p].marks))
        BY <1>0, <1>1, <3>3, ReloadAbsent
      <4> HIDE DEF e
      <4>2. SUFFICES ASSUME e # NoEntry
                     PROVE  FALSE
        BY <3>1
      <4>3. catalog[r] \in Entry /\ Plain(catalog[r])
        BY <1>0, <1>1, <4>1, <4>2, EntryOf
      <4>4. ~e.pending /\ ~e.withheld
        BY <4>1, <4>2, <4>3 DEF Entry, Plain
      <4>5. Hidden(r, catalog'[r], st'[p].marks)
        BY <3>1, <4>1, <4>2, <4>4
      <4>6. ExplainedByRule(r)
        BY <2>1, <3>1, <4>2, <4>5 DEF ExplainedByRule
      <4>7. QED
        BY <1>1, <4>6
    <3>4. QED
      BY <3>2, <3>3
  <2>3. QED
    BY <1>1, <2>1, <2>2 DEF Erased, ErasedIn
<1>3. CASE WriteCatalog(p)
  <2> DEFINE s == st[p]
             e(r) == Prune(MarkWithheld(s.cat, s.marks), s.marks)[r]
  <2>1. /\ pc[p] = "ops" /\ pc'[p] \in {"exclusions", "backup"} /\ s.snap = cpa
        /\ cpa' = cpa /\ st'[p].out = BuildWrite(s.cat, s.marks, cpa)
        /\ \A r : catalog'[r] = e(r)
    BY <1>0, <1>3, WriteCatalogLocals DEF Current
  <2>2. ASSUME NEW r \in erased'
        PROVE  /\ catalog'[r] = NoEntry
               /\ \A c \in Channels : ~Lists(st'[p].out, c, r)
    <3>1. s.cat[r] = NoEntry
      BY <1>0, <1>1, <2>1 DEF ErasedIn, Alike, SameState
    <3>2. e(r) # NoEntry => s.cat[r] # NoEntry
      BY <1>0, <1>1, WriteKeeps
    <3> HIDE DEF e
    <3>3. \A c \in Channels : ~Lists(st'[p].out, c, r)
      <4>1. CASE Known(cpa, r[1])
        BY <1>0, <1>1, <2>1, <3>1, <4>1, WriteListsNone
      <4>2. CASE ~Known(cpa, r[1])
        BY <1>1, <2>1, <4>2, WriteListsUnknown DEF Holds
      <4>3. QED
        BY <4>1, <4>2
    <3>4. QED
      BY <2>1, <3>1, <3>2, <3>3
  <2>3. QED
    BY <1>1, <2>1, <2>2 DEF Erased, ErasedIn, Holds
<1>4. CASE Merge(p)
  <2>1. pc[p] = "merge" /\ pc'[p] \in {"get", "respond"} /\ cpa' = cpa
    BY <1>0, <1>4, MergeLocals
  <2>2. ASSUME NEW r \in erased'
        PROVE  catalog'[r] = NoEntry
    <3>1. catalog[r] = NoEntry
      BY <1>0, <1>1, <2>1 DEF ErasedIn
    <3>2. QED
      BY <1>1, <2>1, <3>1 DEF Rediscovered
  <2>3. QED
    BY <1>1, <2>1, <2>2 DEF Erased, ErasedIn
<1>5. CASE ApplyOp(p)
  <2>1. pc[p] = "ops" /\ pc' = pc /\ cpa' = cpa /\ catalog' = catalog
    BY <1>5 DEF ApplyOp, store
  <2>2. QED
    BY <1>0, <1>1, <2>1 DEF Erased, ErasedIn
<1>6. CASE PutChannel(p)
  <2> DEFINE c0 == First(st[p].todo)
  <2>1. /\ pc[p] = "put" /\ pc' = pc /\ req' = req /\ st'[p].out = st[p].out
        /\ catalog' = catalog /\ cpa' = [cpa EXCEPT ![c0] = st[p].out[c0]]
    BY <1>0, <1>6 DEF PutChannel, Locals, TypeInv, TypeOK, store
  <2> HIDE DEF c0
  <2>2. \A d \in Channels : cpa'[d] \in {cpa[d], st[p].out[d]}
    BY <1>0, <2>1 DEF Config
  <2>3. ASSUME NEW r \in erased'
        PROVE  ~Holds(cpa', r)
    <3>1. CASE Saves(p)
      <4>1. ~Holds(st[p].out, r)
        BY <1>0, <1>1, <2>1, <3>1 DEF ErasedIn
      <4>2. QED
        BY <1>1, <2>2, <4>1 DEF Holds, Lists
    <3>2. CASE ~Saves(p)
      <4>1. ~SaveStep
        BY <1>0, <2>1, <3>2, Alone DEF SaveStep, Saving, Saves, Outside
      <4>2. QED
        BY <1>1, <4>1 DEF Appears
    <3>3. QED
      BY <3>1, <3>2
  <2>4. QED
    BY <1>0, <1>1, <2>1, <2>3 DEF Erased, ErasedIn, Saves
<1>7. CASE Quiet(p)
  BY <1>0, <1>1, <1>7 DEF Erased, ErasedIn, Quiet
<1>8. QED
  BY <1>0, <1>2, <1>3, <1>4, <1>5, <1>6, <1>7, QuietStep DEF PutFails

\* And so does everyone else, as long as nobody edits CPA while a handler
\* runs.
LEMMA EraseInvKept ==
    ASSUME EraseInv, [HNext]_hvars,
           ~EditsInFlight, ~GetMayFail, ~PutMayFail, ~MayCrash
    PROVE  EraseInv'
<1>0. /\ HoldInv /\ TypeInv /\ Exclusive /\ CleanInv /\ Erased
      /\ \A r \in placed : Holds(cpa, r)
      /\ pc \in [Procs -> Labels] /\ \A p \in Procs : ErasedIn(p)
  BY DEF EraseInv, HoldInv, LoadInv, ConvergeInv, FreshInv, TypeInv, TypeOK
<1>1. HoldInv'
  BY <1>0, HoldInvKept DEF HNext, hvars
<1>2. CASE UNCHANGED hvars
  BY <1>0, <1>1, <1>2
     DEF hvars, vars, history, EraseInv, CleanInv, Unsettled, Erased, ErasedIn, Saves
<1>3. CASE HNext
  <2>1. RecordErased /\ RecordPlaced
    BY <1>3 DEF HNext, Record
  <2>2. \A r \in placed' : Holds(cpa', r)
    BY <2>1 DEF RecordPlaced
  <2>3. ASSUME NEW p \in Procs, Arrive(p) \/ Lock(p) \/ Step(p)
        PROVE  CleanInv' /\ Erased' /\ \A q \in Procs : ErasedIn(q)'
    <3>1. CleanInv'
      BY <1>0, <2>1, <2>3, CleanStep
    <3>2. Erased' /\ ErasedIn(p)'
      BY <2>1, <2>3, EraseStep
    <3>3. ASSUME NEW q \in Procs, q # p
          PROVE  ErasedIn(q)'
      <4>1. /\ pc'[q] = pc[q] /\ req'[q] = req[q] /\ st'[q] = st[q]
            /\ Step(p) => pc[q] \in Outside
        BY <1>0, <2>3, <3>3, OthersWait
      <4>2. CASE Step(p)
        BY <4>1, <4>2 DEF ErasedIn, Outside, Holding, Writing
      <4>3. CASE Arrive(p) \/ Lock(p)
        <5>1. catalog' = catalog /\ \A r \in erased' : r \in erased
          BY <1>0, <2>1, <2>3, <4>3, ErasedStays DEF Arrive, Lock, store
        <5>2. ErasedIn(q)
          BY <1>0
        <5>3. QED
          BY <4>1, <5>1, <5>2 DEF ErasedIn, Saves
      <4>4. QED
        BY <2>3, <4>2, <4>3
    <3>4. QED
      BY <3>1, <3>2, <3>3
  <2>4. ASSUME ExternalEdit
        PROVE  CleanInv' /\ Erased' /\ \A q \in Procs : ErasedIn(q)'
    <3>1. pc' = pc /\ catalog' = catalog /\ mu = NoProc
      BY <2>4 DEF ExternalEdit, store
    <3>2. \A q \in Procs : pc[q] \in Outside
      BY <1>0, <3>1, PanelAssumption DEF Exclusive
    <3>3. ~SaveStep /\ \A q \in Procs : ~Unsettled(q)
      BY <3>2 DEF SaveStep, Saving, Unsettled, Outside, Writing, Storing
    <3>4. \A r \in Refs : catalog[r] # NoEntry /\ (catalog[r].present \/ r \in placed)
                             => Plain(catalog[r])
      BY <1>0, <3>3 DEF CleanInv
    <3>5. CleanInv'
      BY <2>1, <3>1, <3>3, <3>4, PlacedStays DEF CleanInv
    <3>6. Erased'
      <4>1. ASSUME NEW r \in erased'
            PROVE  /\ r \in Refs /\ ~Holds(cpa', r)
                   /\ catalog[r] = NoEntry \/ Plain(catalog[r])
        <5>1. /\ r \in Refs /\ (Holds(cpa', r) => Holds(cpa, r))
              /\ \/ r \in erased
                 \/ /\ ~Holds(cpa', r)
                    /\ r \in placed \/ (catalog[r] # NoEntry /\ catalog[r].present)
          BY <2>1, <3>3 DEF RecordErased, Appears
        <5>2. QED
          BY <1>0, <3>4, <5>1 DEF Erased
      <4>2. QED
        BY <3>1, <4>1 DEF Erased
    <3>7. \A q \in Procs : ErasedIn(q)'
      BY <3>1, <3>2 DEF ErasedIn, Outside, Holding, Writing
    <3>8. QED
      BY <3>5, <3>6, <3>7
  <2>5. ~Crash
    BY DEF Crash
  <2>6. CleanInv' /\ Erased' /\ \A q \in Procs : ErasedIn(q)'
    BY <1>3, <2>3, <2>4, <2>5 DEF HNext, Next
  <2>7. QED
    BY <1>1, <2>2, <2>6 DEF EraseInv
<1>4. QED
  BY <1>2, <1>3

\* A model someone deleted in CPA is not put back by a save, provided nobody
\* edits CPA while a handler runs, no call to CPA fails and the panel does
\* not crash: a save that is cut off before its last load leaves the cache
\* with a model still to be written that CPA already holds, and a deletion
\* after that is undone by the next save.
THEOREM ErasedStaysOut ==
    ASSUME ~EditsInFlight, ~GetMayFail, ~PutMayFail, ~MayCrash
    PROVE  HSpec => []NoResurrection
<1>1. HInit => EraseInv
  <2>1. Init => HoldInv
    BY HoldInit
  <2>2. Init => \A r \in Refs : catalog[r] = NoEntry
    BY DEF Init, Nothing
  <2>3. Init => \A p \in Procs : pc[p] = "idle"
    BY DEF Init
  <2>4. QED
    BY <2>1, <2>2, <2>3
       DEF HInit, EraseInv, CleanInv, Erased, ErasedIn, Holding, Writing
<1>2. EraseInv /\ [HNext]_hvars => EraseInv'
  BY EraseInvKept
<1>3. EraseInv => NoResurrection
  BY DEF EraseInv, Erased, NoResurrection
<1>4. QED
  BY <1>1, <1>2, <1>3, PTL DEF HSpec
=============================================================================
