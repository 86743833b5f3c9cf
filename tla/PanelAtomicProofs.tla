-------------------------- MODULE PanelAtomicProofs --------------------------
(***************************************************************************)
(* The panel's saves, interleaved with everything else, implement the      *)
(* atomic saves of AtomicSaves, for every value of the constants, as long  *)
(* as the process is not killed.                                           *)
(***************************************************************************)
EXTENDS PanelProofs, PanelAtomic

StoredSets == [excl |-> exclusions, dis |-> disabled, keep |-> keeps]

KnownTo(p) == {r \in Refs : st[p].cat[r] # NoEntry}

Planned == {"backup", "trim", "put", "exclusions"}

\* How far the draft of a save has come in the marks its handler holds.
Progress(p) ==
    /\ pc[p] \in {"check", "ops"} =>
           /\ st[p].phase # "final"
           /\ st[p].left \subseteq req[p].ops
           /\ Atomic!CarriedOut(req[p].ops \ st[p].left, KnownTo(p),
                                StoredSets, st[p].marks)
    /\ pc[p] \in Planned /\ req[p].kind \in {"save", "auto"} =>
           /\ st[p].phase # "final"
           /\ \E known \in SUBSET Refs :
                 Atomic!CarriedOut(req[p].ops, known, StoredSets, st[p].marks)

\* The scheduled run only renames.
OnlyRenames == \A op \in req[Scheduler].ops : op.kind = "rename"

AtomicInv == TypeInv /\ Exclusive /\ Roles /\ OnlyRenames /\ \A p \in Procs : Progress(p)

-----------------------------------------------------------------------------
\* Carrying out a draft one operation at a time.

\* An empty draft asks for nothing.
LEMMA CarriedOutNone ==
    ASSUME NEW known, NEW old, NEW new,
           new.excl = old.excl, new.dis = old.dis, new.keep = old.keep
    PROVE  Atomic!CarriedOut({}, known, old, new)
BY DEF Atomic!CarriedOut, Atomic!Named, Atomic!Follows

\* What the code does for one operation carries out one more operation.
LEMMA CarriedOutOne ==
    ASSUME NEW draft, NEW op \in Op, NEW cat, NEW old, NEW m \in Marks,
           NEW known, known = {r \in Refs : cat[r] # NoEntry},
           Atomic!CarriedOut(draft, known, old, m)
    PROVE  Atomic!CarriedOut(draft \cup {op}, known, old, OpOnMarks(cat, m, op))
<1> DEFINE Names1(kinds) == Atomic!Named(draft, kinds, known)
           Names2(kinds) == Atomic!Named(draft \cup {op}, kinds, known)
           new == OpOnMarks(cat, m, op)
<1>0. op.ref \in Refs /\ op.kind \in OpKinds
  BY DEF Op
<1>1. \A kinds : Names2(kinds) = IF op.ref \in known /\ op.kind \in kinds
                                 THEN Names1(kinds) \cup {op.ref} ELSE Names1(kinds)
  BY DEF Atomic!Named
<1>2. /\ Atomic!Follows(m.excl, old.excl, Names1({"exclude"}), Names1({"include", "keep"}))
      /\ Atomic!Follows(m.dis, old.dis, Names1({"disable"}), Names1({"enable"}))
      /\ Atomic!Follows(m.keep, old.keep, Names1({"keep"}), Names1({"unkeep"}))
  BY DEF Atomic!CarriedOut
<1>3. CASE op.ref \notin known
  <2>1. new = m
    BY <1>0, <1>3 DEF OpOnMarks
  <2>2. \A kinds : Names2(kinds) = Names1(kinds)
    BY <1>1, <1>3
  <2> HIDE DEF Names1, Names2, new
  <2>3. QED
    BY <1>2, <2>1, <2>2 DEF Atomic!CarriedOut, Names2, new
<1>4. CASE op.ref \in known
  <2>1. /\ new.excl = IF op.kind = "exclude" THEN m.excl \cup {op.ref}
                      ELSE IF op.kind \in {"include", "keep"} THEN m.excl \ {op.ref}
                      ELSE m.excl
        /\ new.keep = IF op.kind = "keep" THEN m.keep \cup {op.ref}
                      ELSE IF op.kind = "unkeep" THEN m.keep \ {op.ref} ELSE m.keep
        /\ new.dis  = IF op.kind = "disable" THEN m.dis \cup {op.ref}
                      ELSE IF op.kind = "enable" THEN m.dis \ {op.ref} ELSE m.dis
    BY <1>4 DEF OpOnMarks, Marks
  <2>2. \A kinds : Names2(kinds) = IF op.kind \in kinds
                                   THEN Names1(kinds) \cup {op.ref} ELSE Names1(kinds)
    BY <1>1, <1>4
  <2> HIDE DEF Names1, Names2, new
  <2>3. Atomic!Follows(new.excl, old.excl, Names2({"exclude"}), Names2({"include", "keep"}))
    <3>1. CASE op.kind \in {"exclude"}
      <4>1. /\ new.excl = m.excl \cup {op.ref}
            /\ Names2({"exclude"}) = Names1({"exclude"}) \cup {op.ref}
            /\ Names2({"include", "keep"}) = Names1({"include", "keep"})
        BY <2>1, <2>2, <3>1
      <4>2. QED
        BY <1>2, <4>1 DEF Atomic!Follows
    <3>2. CASE op.kind \in {"include", "keep"}
      <4>1. /\ new.excl = m.excl \ {op.ref}
            /\ Names2({"exclude"}) = Names1({"exclude"})
            /\ Names2({"include", "keep"}) = Names1({"include", "keep"}) \cup {op.ref}
        BY <2>1, <2>2, <3>2
      <4>2. QED
        BY <1>2, <4>1 DEF Atomic!Follows
    <3>3. CASE op.kind \notin {"exclude"} \cup {"include", "keep"}
      <4>1. /\ new.excl = m.excl
            /\ Names2({"exclude"}) = Names1({"exclude"})
            /\ Names2({"include", "keep"}) = Names1({"include", "keep"})
        BY <2>1, <2>2, <3>3
      <4>2. QED
        BY <1>2, <4>1
    <3>4. QED
      BY <3>1, <3>2, <3>3
  <2>4. Atomic!Follows(new.dis, old.dis, Names2({"disable"}), Names2({"enable"}))
    <3>1. CASE op.kind \in {"disable"}
      <4>1. /\ new.dis = m.dis \cup {op.ref}
            /\ Names2({"disable"}) = Names1({"disable"}) \cup {op.ref}
            /\ Names2({"enable"}) = Names1({"enable"})
        BY <2>1, <2>2, <3>1
      <4>2. QED
        BY <1>2, <4>1 DEF Atomic!Follows
    <3>2. CASE op.kind \in {"enable"}
      <4>1. /\ new.dis = m.dis \ {op.ref}
            /\ Names2({"disable"}) = Names1({"disable"})
            /\ Names2({"enable"}) = Names1({"enable"}) \cup {op.ref}
        BY <2>1, <2>2, <3>2
      <4>2. QED
        BY <1>2, <4>1 DEF Atomic!Follows
    <3>3. CASE op.kind \notin {"disable"} \cup {"enable"}
      <4>1. /\ new.dis = m.dis
            /\ Names2({"disable"}) = Names1({"disable"})
            /\ Names2({"enable"}) = Names1({"enable"})
        BY <2>1, <2>2, <3>3
      <4>2. QED
        BY <1>2, <4>1
    <3>4. QED
      BY <3>1, <3>2, <3>3
  <2>5. Atomic!Follows(new.keep, old.keep, Names2({"keep"}), Names2({"unkeep"}))
    <3>1. CASE op.kind \in {"keep"}
      <4>1. /\ new.keep = m.keep \cup {op.ref}
            /\ Names2({"keep"}) = Names1({"keep"}) \cup {op.ref}
            /\ Names2({"unkeep"}) = Names1({"unkeep"})
        BY <2>1, <2>2, <3>1
      <4>2. QED
        BY <1>2, <4>1 DEF Atomic!Follows
    <3>2. CASE op.kind \in {"unkeep"}
      <4>1. /\ new.keep = m.keep \ {op.ref}
            /\ Names2({"keep"}) = Names1({"keep"})
            /\ Names2({"unkeep"}) = Names1({"unkeep"}) \cup {op.ref}
        BY <2>1, <2>2, <3>2
      <4>2. QED
        BY <1>2, <4>1 DEF Atomic!Follows
    <3>3. CASE op.kind \notin {"keep"} \cup {"unkeep"}
      <4>1. /\ new.keep = m.keep
            /\ Names2({"keep"}) = Names1({"keep"})
            /\ Names2({"unkeep"}) = Names1({"unkeep"})
        BY <2>1, <2>2, <3>3
      <4>2. QED
        BY <1>2, <4>1
    <3>4. QED
      BY <3>1, <3>2, <3>3
  <2>6. QED
    BY <2>3, <2>4, <2>5 DEF Atomic!CarriedOut, Names2, new
<1>5. QED
  BY <1>3, <1>4

\* An operation on the catalog takes no entry out and puts none in.
LEMMA OpKeepsKnown ==
    ASSUME NEW cat \in Catalog, NEW op \in Op, NEW r \in Refs
    PROVE  OpOnCatalog(cat, op)[r] # NoEntry <=> cat[r] # NoEntry
<1>1. CASE cat[op.ref] # NoEntry /\ op.kind = "rename" /\ r = op.ref
  <2>1. op.to \in Alias /\ cat[r] \in Entry
    BY <1>1 DEF Op, Catalog
  <2> DEFINE next == IF op.to = op.ref[2] THEN NoAlias ELSE op.to
             occ  == [c \in Channels |-> IF cat[r].occ[c] = Absent THEN Absent ELSE next]
  <2>2. occ \in [Channels -> Slot]
    BY <2>1 DEF Slot, Alias
  <2>3. OpOnCatalog(cat, op)[r] = [cat[r] EXCEPT !.occ = occ]
    BY <1>1 DEF OpOnCatalog, Rename, Catalog
  <2> HIDE DEF occ
  <2>4. [cat[r] EXCEPT !.occ = occ] \in Entry
    BY <2>1, <2>2 DEF Entry
  <2>5. QED
    BY <1>1, <2>3, <2>4, EntryAssumption
<1>2. CASE ~(cat[op.ref] # NoEntry /\ op.kind = "rename" /\ r = op.ref)
  BY <1>2 DEF OpOnCatalog, Rename, Catalog
<1>3. QED
  BY <1>1, <1>2

\* A draft of renames leaves the marks alone.
LEMMA RenamesMarkNothing ==
    ASSUME NEW draft, \A op \in draft : op.kind = "rename", NEW known,
           NEW old, NEW new,
           /\ old.excl \subseteq Refs /\ old.dis \subseteq Refs /\ old.keep \subseteq Refs
           /\ new.excl \subseteq Refs /\ new.dis \subseteq Refs /\ new.keep \subseteq Refs,
           Atomic!CarriedOut(draft, known, old, new)
    PROVE  new.excl = old.excl /\ new.dis = old.dis /\ new.keep = old.keep
<1>1. \A kinds \in {{"exclude"}, {"include", "keep"}, {"disable"}, {"enable"}, {"keep"}, {"unkeep"}} :
          Atomic!Named(draft, kinds, known) = {}
  BY DEF Atomic!Named
<1>2. QED
  BY <1>1 DEF Atomic!CarriedOut, Atomic!Follows

-----------------------------------------------------------------------------
\* The marks a save holds follow its draft.

\* Which operations are left, and what the marks are, after one of them.
LEMMA ApplyOpStep ==
    ASSUME TypeInv, NEW p \in Procs, ApplyOp(p)
    PROVE  \E op \in st[p].left :
               /\ st'[p].cat = OpOnCatalog(st[p].cat, op)
               /\ st'[p].marks = OpOnMarks(st[p].cat, st[p].marks, op)
               /\ st'[p].left = st[p].left \ {op}
               /\ st'[p].phase = st[p].phase
<1>1. PICK op \in st[p].left :
          st' = [st EXCEPT ![p].cat   = OpOnCatalog(@, op),
                           ![p].marks = OpOnMarks(st[p].cat, @, op),
                           ![p].left  = @ \ {op}]
  BY DEF ApplyOp
<1>2. st[p] \in Locals
  BY DEF TypeInv, TypeOK
<1>3. st' = [st EXCEPT ![p] = [st[p] EXCEPT !.cat = OpOnCatalog(st[p].cat, op),
                                            !.marks = OpOnMarks(st[p].cat, st[p].marks, op),
                                            !.left = st[p].left \ {op}]]
  BY <1>1
<1>4. QED
  BY <1>2, <1>3 DEF TypeInv, TypeOK, Locals

\* A step of p keeps its marks and what is left of its draft in step.
LEMMA ProgressStep ==
    ASSUME TypeInv, Roles, NEW p \in Procs, Progress(p), Step(p)
    PROVE  Progress(p)'
<1> USE DEF Goto, Planned
<1>0. /\ pc \in [Procs -> Labels] /\ req \in [Procs -> Request]
      /\ st \in [Procs -> Locals] /\ st[p] \in Locals /\ req[p] \in Request
  BY DEF TypeInv, TypeOK
<1>1. Role(p)
  BY DEF Roles
<1>2. CASE Leave(p)
  BY <1>0, <1>2 DEF Leave, Progress
<1>3. CASE GetChannel(p)
  <2>1. /\ pc'[p] \in {"get", "backup", "base"} /\ req' = req
        /\ pc'[p] = "backup" => req[p].kind = "rollback"
    BY <1>0, <1>3 DEF GetChannel
  <2>2. QED
    BY <2>1 DEF Progress
<1>4. CASE LoadBase(p)
  <2>1. SUFFICES ASSUME pc'[p] = "check"
                 PROVE  /\ st'[p].phase # "final"
                        /\ st'[p].left \subseteq req'[p].ops
                        /\ Atomic!CarriedOut(req'[p].ops \ st'[p].left, KnownTo(p)',
                                             StoredSets', st'[p].marks)
    <3>1. pc'[p] \in {"merge", "check", "respond", "probe", "whitelist", "plan"}
      BY <1>0, <1>4 DEF LoadBase, AfterLoad
    <3>2. QED
      BY <2>1, <3>1 DEF Progress
  <2>2. pc[p] = "base" /\ st[p].phase # "final" /\ req[p].kind # "settings"
    <3>1. pc[p] = "base" /\ AfterLoad(p) = "check"
      BY <1>0, <1>4, <2>1 DEF LoadBase
    <3>2. st[p].phase = "save" \/ (st[p].phase = "first" /\ req[p].kind = "save")
      <4>1. st[p].phase \in {"first", "reload", "save", "final"}
        BY <1>0 DEF Locals, Phases
      <4>2. st[p].phase \notin {"reload", "final"}
        BY <3>1 DEF AfterLoad
      <4>3. st[p].phase = "first" => req[p].kind = "save"
        BY <3>1 DEF AfterLoad
      <4>4. QED
        BY <4>1, <4>2, <4>3
    <3>3. st[p].phase = "save" => req[p].kind = "auto"
      BY <1>1, <3>1 DEF Role
    <3>4. QED
      BY <3>1, <3>2, <3>3
  <2>3. /\ st' = [st EXCEPT ![p] = [st[p] EXCEPT
                     !.cat = Prune(Reconcile(catalog, st[p].snap), StoredMarks),
                     !.marks = StoredMarks, !.left = req[p].ops]]
        /\ req' = req /\ exclusions' = exclusions /\ disabled' = disabled /\ keeps' = keeps
    BY <1>4, <2>2 DEF LoadBase
  <2>4. /\ st'[p].marks = StoredMarks /\ st'[p].left = req'[p].ops
        /\ st'[p].phase = st[p].phase
    BY <1>0, <2>3 DEF Locals
  <2>5. Atomic!CarriedOut({}, KnownTo(p)', StoredSets', st'[p].marks)
    BY <2>3, <2>4, CarriedOutNone DEF StoredSets, StoredMarks
  <2>6. req'[p].ops \ st'[p].left = {}
    BY <2>4
  <2>7. QED
    BY <2>2, <2>4, <2>5, <2>6
<1>5. CASE CheckFingerprint(p)
  BY <1>0, <1>5 DEF CheckFingerprint, Progress, KnownTo, StoredSets, store
<1>6. CASE ApplyOp(p)
  <2>1. /\ pc[p] = "ops" /\ pc' = pc /\ req' = req
        /\ exclusions' = exclusions /\ disabled' = disabled /\ keeps' = keeps
    BY <1>6 DEF ApplyOp, store
  <2>2. PICK op \in st[p].left :
            /\ st'[p].cat = OpOnCatalog(st[p].cat, op)
            /\ st'[p].marks = OpOnMarks(st[p].cat, st[p].marks, op)
            /\ st'[p].left = st[p].left \ {op}
            /\ st'[p].phase = st[p].phase
    BY <1>6, ApplyOpStep
  <2>3. op \in Op /\ st[p].cat \in Catalog /\ st[p].marks \in Marks
    BY <1>0 DEF Locals
  <2>4. /\ st[p].phase # "final" /\ st[p].left \subseteq req[p].ops
        /\ Atomic!CarriedOut(req[p].ops \ st[p].left, KnownTo(p), StoredSets, st[p].marks)
    BY <2>1 DEF Progress
  <2>5. KnownTo(p)' = KnownTo(p)
    BY <2>2, <2>3, OpKeepsKnown DEF KnownTo
  <2>6. Atomic!CarriedOut((req[p].ops \ st[p].left) \cup {op}, KnownTo(p), StoredSets,
                          OpOnMarks(st[p].cat, st[p].marks, op))
    BY <2>3, <2>4, CarriedOutOne DEF KnownTo
  <2>7. (req[p].ops \ st[p].left) \cup {op} = req[p].ops \ st'[p].left
    BY <2>2, <2>4
  <2>8. StoredSets' = StoredSets
    BY <2>1 DEF StoredSets
  <2>9. Atomic!CarriedOut(req[p].ops \ st'[p].left, KnownTo(p)', StoredSets', st'[p].marks)
    BY <2>2, <2>5, <2>6, <2>7, <2>8
  <2>10. QED
    BY <2>1, <2>2, <2>4, <2>9 DEF Progress
<1>7. CASE WriteCatalog(p)
  <2>1. /\ pc[p] = "ops" /\ pc'[p] \in {"exclusions", "backup"} /\ req' = req
        /\ st[p].left = {}
        /\ exclusions' = exclusions /\ disabled' = disabled /\ keeps' = keeps
    BY <1>0, <1>7 DEF WriteCatalog
  <2>2. st'[p].marks = st[p].marks /\ st'[p].phase = st[p].phase
    BY <1>0, <1>7 DEF WriteCatalog, Locals
  <2>3. /\ st[p].phase # "final"
        /\ Atomic!CarriedOut(req[p].ops \ st[p].left, KnownTo(p), StoredSets, st[p].marks)
    BY <2>1 DEF Progress
  <2>4. req[p].ops \ st[p].left = req[p].ops /\ StoredSets' = StoredSets
    BY <2>1 DEF StoredSets
  <2>5. KnownTo(p) \in SUBSET Refs
    BY DEF KnownTo
  <2>6. \E known \in SUBSET Refs :
            Atomic!CarriedOut(req'[p].ops, known, StoredSets', st'[p].marks)
    BY <2>1, <2>2, <2>3, <2>4, <2>5
  <2>7. QED
    BY <2>1, <2>2, <2>3, <2>6 DEF Progress
<1>8. CASE SetExclusions(p) \/ SetDisabled(p) \/ SetKeeps(p)
  <2>1. pc'[p] \in {"disabled", "keeps", "get"}
    BY <1>0, <1>8 DEF SetExclusions, SetDisabled, SetKeeps
  <2>2. QED
    BY <2>1 DEF Progress
<1>9. CASE AddSnapshot(p) \/ PruneSnapshots(p) \/ PutChannel(p)
  <2>1. /\ pc[p] \in Planned /\ pc'[p] \in Planned /\ req' = req
        /\ exclusions' = exclusions /\ disabled' = disabled /\ keeps' = keeps
    BY <1>0, <1>9 DEF AddSnapshot, PruneSnapshots, PutChannel, store
  <2>2. st'[p].marks = st[p].marks /\ st'[p].phase = st[p].phase
    BY <1>0, <1>9 DEF AddSnapshot, PruneSnapshots, PutChannel, Locals
  <2>3. StoredSets' = StoredSets
    BY <2>1 DEF StoredSets
  <2>4. QED
    BY <2>1, <2>2, <2>3 DEF Progress
<1>10. CASE PutsDone(p)
  <2>1. CASE req[p].kind \in {"save", "auto"}
    <3>1. /\ pc[p] = "put" /\ pc'[p] = "exclusions" /\ req' = req /\ st' = st
          /\ exclusions' = exclusions /\ disabled' = disabled /\ keeps' = keeps
      BY <1>0, <1>10, <2>1 DEF PutsDone, AfterPut, store
    <3>2. StoredSets' = StoredSets
      BY <3>1 DEF StoredSets
    <3>3. QED
      BY <3>1, <3>2 DEF Progress
  <2>2. CASE req[p].kind \notin {"save", "auto"}
    <3>1. pc'[p] = "get"
      BY <1>0, <1>10, <2>2 DEF PutsDone, AfterPut
    <3>2. QED
      BY <3>1 DEF Progress
  <2>3. QED
    BY <2>1, <2>2
<1>11. CASE Probe(p)
  <2>1. /\ pc'[p] \in {"backup", "merge"} /\ req' = req
        /\ pc'[p] = "backup" => req[p].kind = "refresh"
    BY <1>0, <1>11 DEF Probe
  <2>2. QED
    BY <2>1 DEF Progress
<1>12. CASE Merge(p)
  <2>1. pc'[p] \in {"get", "respond"}
    BY <1>0, <1>12 DEF Merge
  <2>2. QED
    BY <2>1 DEF Progress
<1>13. CASE SetWhitelist(p) \/ SetVersionFilter(p) \/ SetRouteByProtocol(p)
  <2>1. pc'[p] \in {"version", "route", "respond"}
    BY <1>0, <1>13 DEF SetWhitelist, SetVersionFilter, SetRouteByProtocol
  <2>2. QED
    BY <2>1 DEF Progress
<1>14. CASE ~Leave(p) /\ (ReadSnapshot(p) \/ ProbeEgg(p))
  <2>1. pc'[p] = "get"
    BY <1>0, <1>14 DEF ReadSnapshot, ProbeEgg
  <2>2. QED
    BY <2>1 DEF Progress
<1>15. CASE ~Leave(p) /\ Plan(p)
  <2>1. pc[p] = "plan" /\ pc'[p] = "backup" /\ req' = req
    BY <1>0, <1>15 DEF Plan
  <2>2. QED
    BY <1>1, <2>1 DEF Role, Progress
<1>16. QED
  BY <1>2, <1>3, <1>4, <1>5, <1>6, <1>7, <1>8, <1>9, <1>10, <1>11, <1>12, <1>13,
     <1>14, <1>15
     DEF Step, GetFails, Respond, Conflict, PutFails, ProbeFails

\* Only a user's draft says anything but rename.
LEMMA RenamesKept ==
    ASSUME TypeInv, OnlyRenames, [Next]_vars
    PROVE  OnlyRenames'
<1> USE DEF OnlyRenames
<1>0. req \in [Procs -> Request] /\ Scheduler \in Procs /\ Scheduler \notin Users
  BY PanelAssumption DEF TypeInv, TypeOK, Procs
<1>1. ASSUME NEW p \in Procs, p # Scheduler, Arrive(p) \/ Lock(p) \/ Step(p)
      PROVE  OnlyRenames'
  BY <1>0, <1>1, Locality
<1>2. ASSUME Arrive(Scheduler)
      PROVE  OnlyRenames'
  <2>1. PICK k \in Kinds : k = "auto" /\ \E r \in Ask(Scheduler, k) :
                               req' = [req EXCEPT ![Scheduler] = r]
    BY <1>2 DEF Arrive
  <2>2. Ask(Scheduler, k) = {[NoRequest EXCEPT !.kind = k]}
    BY <2>1 DEF Ask
  <2>3. req'[Scheduler].ops = {}
    BY <1>0, <2>1, <2>2 DEF NoRequest
  <2>4. QED
    BY <2>3
<1>3. ASSUME Merge(Scheduler)
      PROVE  OnlyRenames'
  <2>1. PICK merged : req'[Scheduler].ops = Suggestions(merged)
    BY <1>0, <1>3 DEF Merge, Request
  <2>2. QED
    BY <2>1 DEF Suggestions
<1>4. ASSUME Leave(Scheduler)
      PROVE  OnlyRenames'
  BY <1>0, <1>4 DEF Leave, NoRequest
<1>5. ASSUME Lock(Scheduler) \/ Step(Scheduler), ~Leave(Scheduler), ~Merge(Scheduler)
      PROVE  req' = req
  <2>1. CASE \/ Lock(Scheduler) \/ GetChannel(Scheduler) \/ LoadBase(Scheduler)
             \/ CheckFingerprint(Scheduler) \/ ApplyOp(Scheduler) \/ WriteCatalog(Scheduler)
             \/ SetExclusions(Scheduler) \/ SetDisabled(Scheduler) \/ SetKeeps(Scheduler)
    BY <2>1 DEF Lock, GetChannel, LoadBase, CheckFingerprint, ApplyOp, WriteCatalog,
                SetExclusions, SetDisabled, SetKeeps
  <2>2. CASE \/ AddSnapshot(Scheduler) \/ PruneSnapshots(Scheduler)
             \/ PutChannel(Scheduler) \/ PutsDone(Scheduler) \/ Probe(Scheduler)
    BY <2>2 DEF AddSnapshot, PruneSnapshots, PutChannel, PutsDone, Probe
  <2>3. CASE \/ SetWhitelist(Scheduler) \/ SetVersionFilter(Scheduler)
             \/ SetRouteByProtocol(Scheduler) \/ ReadSnapshot(Scheduler)
             \/ ProbeEgg(Scheduler) \/ Plan(Scheduler)
    BY <1>5, <2>3 DEF SetWhitelist, SetVersionFilter, SetRouteByProtocol, ReadSnapshot,
                      ProbeEgg, Plan
  <2>4. QED
    BY <1>5, <2>1, <2>2, <2>3
       DEF Step, GetFails, Respond, Conflict, PutFails, ProbeFails
<1>6. CASE ExternalEdit \/ UNCHANGED vars
  BY <1>6 DEF ExternalEdit, vars
<1>7. CASE Crash
  BY <1>0, <1>7 DEF Crash, NoRequest
<1>8. QED
  BY <1>1, <1>2, <1>3, <1>4, <1>5, <1>6, <1>7 DEF Next

\* All of it holds when the panel starts, and after every step.
LEMMA AtomicInvInit == Init => AtomicInv
<1>1. Init => TypeInv
  BY InitType
<1>2. Init => Exclusive /\ Roles
  BY DEF Init, Exclusive, Outside, Roles, Role, Blank, Marking
<1>3. Init => OnlyRenames
  BY PanelAssumption DEF Init, OnlyRenames, NoRequest, Procs
<1>4. Init => \A p \in Procs : Progress(p)
  BY DEF Init, Progress, Planned
<1>5. QED
  BY <1>1, <1>2, <1>3, <1>4 DEF AtomicInv

LEMMA AtomicInvKept ==
    ASSUME AtomicInv, [Next]_vars
    PROVE  AtomicInv'
<1> USE DEF AtomicInv
<1>1. TypeInv' /\ Exclusive' /\ Roles' /\ OnlyRenames'
  BY NextType, ExclusiveKept, RolesKept, RenamesKept
<1>2. ASSUME NEW p \in Procs, Step(p), NEW q \in Procs
      PROVE  Progress(q)'
  <2>1. CASE q = p
    BY <1>2, <2>1, ProgressStep
  <2>2. CASE q # p
    <3>1. pc'[q] = pc[q] /\ pc[q] \in Outside
      BY <1>2, <2>2, Locality, Inside, Alone
    <3>2. QED
      BY <3>1 DEF Progress, Outside, Planned
  <2>3. QED
    BY <2>1, <2>2
<1>3. ASSUME NEW p \in Procs, Arrive(p) \/ Lock(p), NEW q \in Procs
      PROVE  Progress(q)'
  <2>1. CASE q = p
    <3>1. pc'[p] \in {"lock", "payload", "eggprobe", "get"}
      BY <1>3 DEF Arrive, Lock, Goto, TypeInv, TypeOK
    <3>2. QED
      BY <2>1, <3>1 DEF Progress, Planned
  <2>2. CASE q # p
    <3>1. pc'[q] = pc[q] /\ req'[q] = req[q] /\ st'[q] = st[q]
      BY <1>3, <2>2, Locality
    <3>2. StoredSets' = StoredSets
      BY <1>3 DEF Arrive, Lock, store, StoredSets
    <3>3. KnownTo(q)' = KnownTo(q)
      BY <3>1 DEF KnownTo
    <3>4. Progress(q)
      OBVIOUS
    <3>5. QED
      BY <3>1, <3>2, <3>3, <3>4 DEF Progress
  <2>3. QED
    BY <2>1, <2>2
<1>4. ASSUME ExternalEdit \/ UNCHANGED vars, NEW q \in Procs
      PROVE  Progress(q)'
  <2>1. pc' = pc /\ req' = req /\ st' = st /\ StoredSets' = StoredSets
    BY <1>4 DEF ExternalEdit, vars, store, StoredSets
  <2>2. KnownTo(q)' = KnownTo(q)
    BY <2>1 DEF KnownTo
  <2>3. Progress(q)
    OBVIOUS
  <2>4. QED
    BY <2>1, <2>2, <2>3 DEF Progress
<1>5. ASSUME Crash, NEW q \in Procs
      PROVE  Progress(q)'
  BY <1>5 DEF Crash, Progress, Planned
<1>6. \A q \in Procs : Progress(q)'
  BY <1>2, <1>3, <1>4, <1>5 DEF Next
<1>7. QED
  BY <1>1, <1>6

-----------------------------------------------------------------------------
\* Every step is a step of the atomic saves, or none.

Moving(p) == Arrive(p) \/ Lock(p) \/ Step(p)

\* Only the three statements of a save touch the stored sets, and only they
\* run while a set is still to be stored.
LEMMA MarksUntouched ==
    ASSUME TypeInv, NEW p \in Procs, Step(p),
           ~(SetExclusions(p) \/ SetDisabled(p) \/ SetKeeps(p))
    PROVE  /\ exclusions' = exclusions /\ disabled' = disabled /\ keeps' = keeps
           /\ pc[p] \notin {"disabled", "keeps"} /\ pc'[p] \notin {"disabled", "keeps"}
<1> USE DEF Goto, Leave, store
<1>0. pc \in [Procs -> Labels]
  BY DEF TypeInv, TypeOK
<1>1. CASE GetChannel(p) \/ GetFails(p) \/ LoadBase(p) \/ Respond(p)
  BY <1>0, <1>1 DEF GetChannel, GetFails, LoadBase, AfterLoad, Respond
<1>2. CASE CheckFingerprint(p) \/ Conflict(p) \/ ApplyOp(p) \/ WriteCatalog(p)
  BY <1>0, <1>2 DEF CheckFingerprint, Conflict, ApplyOp, WriteCatalog
<1>3. CASE \/ AddSnapshot(p) \/ PruneSnapshots(p) \/ PutChannel(p) \/ PutsDone(p)
           \/ PutFails(p)
  BY <1>0, <1>3 DEF AddSnapshot, PruneSnapshots, PutChannel, PutsDone, AfterPut, PutFails
<1>4. CASE Probe(p) \/ ProbeFails(p) \/ Merge(p)
  BY <1>0, <1>4 DEF Probe, ProbeFails, Merge
<1>5. CASE SetWhitelist(p) \/ SetVersionFilter(p) \/ SetRouteByProtocol(p)
  BY <1>0, <1>5 DEF SetWhitelist, SetVersionFilter, SetRouteByProtocol
<1>6. CASE ReadSnapshot(p) \/ ProbeEgg(p) \/ Plan(p)
  BY <1>0, <1>6 DEF ReadSnapshot, ProbeEgg, Plan
<1>7. QED
  BY <1>1, <1>2, <1>3, <1>4, <1>5, <1>6 DEF Step

\* Counting what the holder of the mutex owes as stored, only its first
\* statement changes the marks.
LEMMA MarksMap ==
    ASSUME AtomicInv, NEW p \in Procs, Moving(p), ~SetExclusions(p)
    PROVE  MarksAtOnce' = MarksAtOnce
<1> USE DEF AtomicInv
<1>0. pc \in [Procs -> Labels] /\ NoProc \notin Procs /\ mu \in Procs \cup {NoProc}
  BY PanelAssumption DEF TypeInv, TypeOK
<1>1. CASE Arrive(p)
  <2>1. /\ pc[p] = "idle" /\ pc' = [pc EXCEPT ![p] = "lock"] /\ mu' = mu /\ st' = st
        /\ exclusions' = exclusions /\ disabled' = disabled /\ keeps' = keeps
    BY <1>1 DEF Arrive, Goto, store
  <2>2. \A labels \in {{"disabled"}, {"disabled", "keeps"}} : Owes(labels)' = Owes(labels)
    BY <1>0, <2>1 DEF Owes
  <2>3. QED
    BY <2>1, <2>2 DEF MarksAtOnce
<1>2. CASE Lock(p)
  <2>1. /\ mu = NoProc /\ mu' = p /\ pc'[p] \in {"payload", "eggprobe", "get"}
        /\ exclusions' = exclusions /\ disabled' = disabled /\ keeps' = keeps
    BY <1>0, <1>2 DEF Lock, Goto, store
  <2>2. \A labels \in {{"disabled"}, {"disabled", "keeps"}} :
            ~Owes(labels) /\ ~Owes(labels)'
    BY <2>1 DEF Owes
  <2>3. QED
    BY <2>1, <2>2 DEF MarksAtOnce
<1>3. CASE Step(p)
  <2>1. mu = p /\ (mu' = p \/ mu' = NoProc)
    BY <1>3, Inside DEF Exclusive
  <2>2. CASE SetDisabled(p)
    <3>1. /\ pc[p] = "disabled" /\ pc'[p] = "keeps" /\ mu' = p /\ st' = st
          /\ disabled' = st[p].marks.dis /\ exclusions' = exclusions /\ keeps' = keeps
      BY <1>0, <2>1, <2>2 DEF SetDisabled, Goto
    <3>2. /\ Owes({"disabled"}) /\ Owes({"disabled", "keeps"})
          /\ ~Owes({"disabled"})' /\ Owes({"disabled", "keeps"})'
      BY <1>0, <2>1, <3>1 DEF Owes
    <3>3. QED
      BY <2>1, <3>1, <3>2 DEF MarksAtOnce
  <2>3. CASE SetKeeps(p)
    <3>1. /\ pc[p] = "keeps" /\ pc'[p] = "get" /\ mu' = p
          /\ keeps' = st[p].marks.keep /\ exclusions' = exclusions /\ disabled' = disabled
      BY <1>0, <2>1, <2>3 DEF SetKeeps, Goto
    <3>2. /\ ~Owes({"disabled"}) /\ Owes({"disabled", "keeps"})
          /\ ~Owes({"disabled"})' /\ ~Owes({"disabled", "keeps"})'
      BY <1>0, <2>1, <3>1 DEF Owes
    <3>3. QED
      BY <2>1, <3>1, <3>2 DEF MarksAtOnce
  <2>4. CASE ~SetDisabled(p) /\ ~SetKeeps(p)
    <3>1. /\ exclusions' = exclusions /\ disabled' = disabled /\ keeps' = keeps
          /\ pc[p] \notin {"disabled", "keeps"} /\ pc'[p] \notin {"disabled", "keeps"}
      BY <1>3, <2>4, MarksUntouched
    <3>2. \A labels \in {{"disabled"}, {"disabled", "keeps"}} :
              ~Owes(labels) /\ ~Owes(labels)'
      BY <2>1, <3>1 DEF Owes
    <3>3. QED
      BY <3>1, <3>2 DEF MarksAtOnce
  <2>5. QED
    BY <2>2, <2>3, <2>4
<1>4. QED
  BY <1>1, <1>2, <1>3 DEF Moving

\* The draft of a tab changes only when the tab's own handler moves.
LEMMA OtherDrafts ==
    ASSUME TypeInv, NEW p \in Procs, Moving(p), NEW u \in Users, u # p
    PROVE  DraftOf(u)' = DraftOf(u)
<1>1. u \in Procs
  BY DEF Procs
<1>2. pc'[u] = pc[u] /\ req'[u] = req[u] /\ st'[u] = st[u]
  BY <1>1, Locality DEF Moving
<1>3. QED
  BY <1>2 DEF DraftOf, Waiting

\* A handler goes on holding the draft it came with, or drops it.
LEMMA OwnDraft ==
    ASSUME TypeInv, NEW p \in Users, Lock(p) \/ Step(p)
    PROVE  DraftOf(p)' \in {DraftOf(p), {}}
<1> USE DEF Goto
<1>0. /\ p \in Procs /\ p # Scheduler
      /\ pc \in [Procs -> Labels] /\ req \in [Procs -> Request]
      /\ st \in [Procs -> Locals] /\ st[p] \in Locals
  BY PanelAssumption DEF TypeInv, TypeOK, Procs
<1>1. SUFFICES ASSUME Waiting(p)'
               PROVE  Waiting(p) /\ req'[p].ops = req[p].ops
  BY DEF DraftOf
<1>2. /\ pc'[p] \notin {"idle", "disabled", "keeps", "respond"}
      /\ req'[p].kind = "save" /\ st'[p].phase # "final"
  BY <1>1 DEF Waiting
<1>3. ~Leave(p)
  BY <1>0, <1>2 DEF Leave
<1>4. SUFFICES /\ pc[p] \notin {"idle", "disabled", "keeps", "respond"}
               /\ req'[p] = req[p] /\ st'[p].phase = st[p].phase
  BY <1>2 DEF Waiting
<1>5. CASE Lock(p)
  BY <1>5 DEF Lock
<1>6. CASE GetChannel(p) \/ LoadBase(p)
  BY <1>0, <1>6 DEF GetChannel, LoadBase, Locals
<1>7. CASE CheckFingerprint(p)
  BY <1>7 DEF CheckFingerprint
<1>8. CASE ApplyOp(p)
  <2>1. st'[p].phase = st[p].phase
    BY <1>0, <1>8, ApplyOpStep
  <2>2. QED
    BY <1>8, <2>1 DEF ApplyOp
<1>9. CASE WriteCatalog(p)
  <2>1. st'[p].phase = st[p].phase
    BY <1>0, <1>9 DEF WriteCatalog, Locals
  <2>2. QED
    BY <1>9, <2>1 DEF WriteCatalog
<1>10. CASE SetExclusions(p) \/ SetDisabled(p)
  BY <1>0, <1>2, <1>10 DEF SetExclusions, SetDisabled
<1>11. CASE SetKeeps(p)
  <2>1. st'[p].phase = "final"
    BY <1>0, <1>11 DEF SetKeeps, StartRead, Locals
  <2>2. QED
    BY <1>2, <2>1
<1>12. CASE AddSnapshot(p) \/ PruneSnapshots(p) \/ PutChannel(p)
  BY <1>0, <1>12 DEF AddSnapshot, PruneSnapshots, PutChannel, Locals
<1>13. CASE PutsDone(p)
  BY <1>2, <1>13 DEF PutsDone
<1>14. CASE Probe(p)
  <2>1. st'[p].phase = st[p].phase
    BY <1>0, <1>14, ProbeKeeps
  <2>2. QED
    BY <1>14, <2>1 DEF Probe
<1>15. CASE Merge(p)
  BY <1>0, <1>2, <1>15 DEF Merge
<1>16. CASE SetWhitelist(p) \/ SetVersionFilter(p) \/ SetRouteByProtocol(p)
  BY <1>16 DEF SetWhitelist, SetVersionFilter, SetRouteByProtocol
<1>17. CASE ReadSnapshot(p) \/ ProbeEgg(p) \/ Plan(p)
  BY <1>0, <1>3, <1>17 DEF ReadSnapshot, ProbeEgg, Plan, Locals
<1>18. QED
  BY <1>3, <1>5, <1>6, <1>7, <1>8, <1>9, <1>10, <1>11, <1>12, <1>13, <1>14, <1>15,
     <1>16, <1>17
     DEF Step, GetFails, Respond, Conflict, PutFails, ProbeFails

\* A request that arrives asks for a draft, or for nothing the marks are for.
LEMMA ArriveMap ==
    ASSUME AtomicInv, NEW p \in Users, Arrive(p)
    PROVE  Atomic!Ask(p) \/ DraftOf(p)' = DraftOf(p)
<1>0. /\ p \in Procs
      /\ pc \in [Procs -> Labels] /\ req \in [Procs -> Request]
  BY DEF AtomicInv, TypeInv, TypeOK, Procs
<1>1. pc[p] = "idle" /\ DraftOf(p) = {}
  BY DEF Arrive, DraftOf, Waiting
<1>2. CASE DraftOf(p)' = {}
  BY <1>1, <1>2
<1>3. CASE DraftOf(p)' # {}
  <2>1. Waiting(p)' /\ DraftOf(p)' = req'[p].ops /\ req'[p].kind = "save"
    BY <1>3 DEF DraftOf, Waiting
  <2>2. PICK k \in Kinds : \E r \in Ask(p, k) : req' = [req EXCEPT ![p] = r]
    BY DEF Arrive
  <2>3. req'[p] \in Ask(p, k)
    BY <1>0, <2>2
  <2>4. k = "save"
    BY <1>0, <2>1, <2>3, AskKind
  <2>5. req'[p].ops \in Drafts
    BY <2>3, <2>4 DEF Ask, NoRequest
  <2>6. \A u \in Users : u # p => DraftOf(u)' = DraftOf(u)
    BY <1>0, OtherDrafts DEF AtomicInv, Moving
  <2>7. [u \in Users |-> DraftOf(u)'] = [[u \in Users |-> DraftOf(u)] EXCEPT ![p] = req'[p].ops]
    BY <2>1, <2>6
  <2>8. MarksAtOnce' = MarksAtOnce
    <3>1. ~SetExclusions(p)
      BY <1>1 DEF SetExclusions
    <3>2. QED
      BY <1>0, <3>1, MarksMap DEF Moving
  <2>9. QED
    BY <1>1, <2>5, <2>7, <2>8 DEF Atomic!Ask
<1>4. QED
  BY <1>2, <1>3

\* The first statement of a save carries its draft out.
LEMMA SaveMap ==
    ASSUME AtomicInv, NEW p \in Users, SetExclusions(p)
    PROVE  Atomic!Save(p)
<1> USE DEF AtomicInv
<1>0. /\ p \in Procs /\ p # Scheduler /\ NoProc \notin Procs
      /\ pc \in [Procs -> Labels]
  BY PanelAssumption DEF TypeInv, TypeOK, Procs
<1>1. /\ pc[p] = "exclusions" /\ pc'[p] = "disabled" /\ mu' = mu /\ st' = st
      /\ exclusions' = st[p].marks.excl /\ disabled' = disabled /\ keeps' = keeps
  BY <1>0 DEF SetExclusions, Goto
<1>2. mu = p
  BY <1>0, <1>1 DEF Exclusive, Outside
<1>3. req[p].kind = "save"
  BY <1>0, <1>1 DEF Roles, Role, Marking
<1>4. /\ st[p].phase # "final"
      /\ \E known \in SUBSET Refs :
            Atomic!CarriedOut(req[p].ops, known, StoredSets, st[p].marks)
  BY <1>0, <1>1, <1>3 DEF Progress, Planned
<1>5. DraftOf(p) = req[p].ops /\ DraftOf(p)' = {}
  BY <1>1, <1>3, <1>4 DEF DraftOf, Waiting
<1>6. /\ MarksAtOnce.excl = StoredSets.excl /\ MarksAtOnce.dis = StoredSets.dis
      /\ MarksAtOnce.keep = StoredSets.keep
  BY <1>1, <1>2 DEF MarksAtOnce, Owes, StoredSets
<1>7. /\ MarksAtOnce'.excl = st[p].marks.excl /\ MarksAtOnce'.dis = st[p].marks.dis
      /\ MarksAtOnce'.keep = st[p].marks.keep
  BY <1>0, <1>1, <1>2 DEF MarksAtOnce, Owes
<1>8. \E known \in SUBSET Refs :
          Atomic!CarriedOut(DraftOf(p), known, MarksAtOnce, MarksAtOnce')
  BY <1>4, <1>5, <1>6, <1>7 DEF Atomic!CarriedOut
<1>9. \A u \in Users : u # p => DraftOf(u)' = DraftOf(u)
  BY <1>0, OtherDrafts DEF Moving, Step
<1>10. [u \in Users |-> DraftOf(u)'] = [[u \in Users |-> DraftOf(u)] EXCEPT ![p] = {}]
  BY <1>5, <1>9
<1>11. [u \in Users |-> DraftOf(u)][p] = DraftOf(p)
  OBVIOUS
<1>12. QED
  BY <1>8, <1>10, <1>11 DEF Atomic!Save

\* That of the scheduled run changes nothing.
LEMMA SchedulerMap ==
    ASSUME AtomicInv, SetExclusions(Scheduler)
    PROVE  MarksAtOnce' = MarksAtOnce
<1> DEFINE p == Scheduler
<1> USE DEF AtomicInv
<1>0. p \in Procs /\ NoProc \notin Procs /\ pc \in [Procs -> Labels]
  BY PanelAssumption DEF TypeInv, TypeOK, Procs
<1>1. /\ pc[p] = "exclusions" /\ pc'[p] = "disabled" /\ mu' = mu /\ st' = st
      /\ exclusions' = st[p].marks.excl /\ disabled' = disabled /\ keeps' = keeps
  BY <1>0 DEF SetExclusions, Goto
<1>2. mu = p
  BY <1>0, <1>1 DEF Exclusive, Outside
<1>3. req[p].kind \in {"save", "auto"}
  BY <1>0, <1>1 DEF Roles, Role, Marking
<1>4. PICK known \in SUBSET Refs :
          Atomic!CarriedOut(req[p].ops, known, StoredSets, st[p].marks)
  BY <1>0, <1>1, <1>3 DEF Progress, Planned
<1>5. /\ StoredSets.excl \subseteq Refs /\ StoredSets.dis \subseteq Refs
      /\ StoredSets.keep \subseteq Refs
  BY DEF StoredSets, TypeInv, TypeOK
<1>6. /\ st[p].marks.excl \subseteq Refs /\ st[p].marks.dis \subseteq Refs
      /\ st[p].marks.keep \subseteq Refs
  BY <1>0 DEF TypeInv, TypeOK, Locals, Marks
<1>7. \A op \in req[p].ops : op.kind = "rename"
  BY DEF OnlyRenames
<1>8. /\ st[p].marks.excl = exclusions /\ st[p].marks.dis = disabled
      /\ st[p].marks.keep = keeps
  <2>1. /\ st[p].marks.excl = StoredSets.excl /\ st[p].marks.dis = StoredSets.dis
        /\ st[p].marks.keep = StoredSets.keep
    BY <1>4, <1>5, <1>6, <1>7, RenamesMarkNothing
  <2>2. QED
    BY <2>1 DEF StoredSets
<1>9. QED
  BY <1>0, <1>1, <1>2, <1>8 DEF MarksAtOnce, Owes

AtomicVars == <<MarksAtOnce, [u \in Users |-> DraftOf(u)]>>

\* Every step of the panel is a step of the atomic saves, or none.
LEMMA StepMap ==
    ASSUME AtomicInv, [Next]_vars, ~MayCrash
    PROVE  [Atomic!Next]_AtomicVars
<1> USE DEF AtomicInv, AtomicVars
<1>1. ASSUME NEW p \in Procs, Moving(p), ~SetExclusions(p)
      PROVE  [Atomic!Next]_AtomicVars
  <2>1. MarksAtOnce' = MarksAtOnce
    BY <1>1, MarksMap
  <2>2. \A u \in Users : u # p => DraftOf(u)' = DraftOf(u)
    BY <1>1, OtherDrafts
  <2>3. CASE p \notin Users \/ DraftOf(p)' = DraftOf(p)
    <3>1. [u \in Users |-> DraftOf(u)'] = [u \in Users |-> DraftOf(u)]
      BY <2>2, <2>3
    <3>2. QED
      BY <2>1, <3>1
  <2>4. CASE p \in Users /\ DraftOf(p)' # DraftOf(p)
    <3>1. CASE Arrive(p)
      BY <2>4, <3>1, ArriveMap DEF Atomic!Next
    <3>2. CASE Lock(p) \/ Step(p)
      <4>1. DraftOf(p)' = {}
        BY <2>4, <3>2, OwnDraft
      <4>2. [u \in Users |-> DraftOf(u)'] = [[u \in Users |-> DraftOf(u)] EXCEPT ![p] = {}]
        BY <2>2, <2>4, <4>1
      <4>3. Atomic!Refuse(p)
        BY <2>1, <4>2 DEF Atomic!Refuse
      <4>4. QED
        BY <2>4, <4>3 DEF Atomic!Next
    <3>3. QED
      BY <1>1, <3>1, <3>2 DEF Moving
  <2>5. QED
    BY <2>3, <2>4
<1>2. ASSUME NEW p \in Procs, SetExclusions(p)
      PROVE  [Atomic!Next]_AtomicVars
  <2>1. CASE p \in Users
    BY <1>2, <2>1, SaveMap DEF Atomic!Next
  <2>2. CASE p = Scheduler
    <3>1. MarksAtOnce' = MarksAtOnce
      BY <1>2, <2>2, SchedulerMap
    <3>2. \A u \in Users : DraftOf(u)' = DraftOf(u)
      BY <1>2, <2>2, OtherDrafts, PanelAssumption DEF Moving, Step
    <3>3. QED
      BY <3>1, <3>2
  <2>3. QED
    BY <2>1, <2>2 DEF Procs
<1>3. CASE ExternalEdit \/ UNCHANGED vars
  <2>1. /\ exclusions' = exclusions /\ disabled' = disabled /\ keeps' = keeps
        /\ mu' = mu /\ pc' = pc /\ req' = req /\ st' = st
    BY <1>3 DEF ExternalEdit, vars, store
  <2>2. MarksAtOnce' = MarksAtOnce
    BY <2>1 DEF MarksAtOnce, Owes
  <2>3. \A u \in Users : DraftOf(u)' = DraftOf(u)
    BY <2>1 DEF DraftOf, Waiting
  <2>4. QED
    BY <2>2, <2>3
<1>4. ~Crash
  BY DEF Crash
<1>5. QED
  BY <1>1, <1>2, <1>3, <1>4 DEF Next, Moving

\* Nobody has asked for anything when the panel starts.
LEMMA InitMap == Init => Atomic!Init
<1> SUFFICES ASSUME Init PROVE Atomic!Init
  OBVIOUS
<1>1. MarksAtOnce = Atomic!NoMarksAtAll
  BY DEF Init, MarksAtOnce, Owes, Atomic!NoMarksAtAll
<1>2. \A u \in Users : DraftOf(u) = {}
  BY DEF Init, DraftOf, Waiting, Procs
<1>3. QED
  BY <1>1, <1>2 DEF Atomic!Init

\* The panel implements the atomic saves unless its process is killed: each
\* draft is carried out whole, once, at one instant, or not at all, however
\* the requests of other tabs and the scheduled run are interleaved with it
\* and whichever call to CPA fails (saveLocked in raw.go and save.go).
THEOREM SavesRefineAtomic ==
    ASSUME ~MayCrash
    PROVE  Spec => SavesAreAtomic
<1>1. AtomicInv /\ [Next]_vars => [Atomic!Next]_AtomicVars
  BY StepMap
<1>2. AtomicInv /\ [Next]_vars => AtomicInv'
  BY AtomicInvKept
<1>3. QED
  BY AtomicInvInit, InitMap, <1>1, <1>2, PTL DEF Spec, SavesAreAtomic, Atomic!Spec, AtomicVars
=============================================================================
