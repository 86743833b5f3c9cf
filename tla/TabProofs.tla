----------------------------- MODULE TabProofs -----------------------------
(***************************************************************************)
(* What a tab guarantees for any keys and any number of requests in flight.*)
(*                                                                         *)
(* That there is one save at a time rests on the saving flag, which every  *)
(* save on its way holds up (Guarded).  That no edit is dropped rests on   *)
(* what a save still carries of the edits its user has left alone: first   *)
(* in its operations, then in its answer (Carried).                        *)
(***************************************************************************)
EXTENDS Tab, TLAPS

OnItsWay(i) == calls[i] # Free /\ calls[i].kind \in Saving

Guarded == \A i \in Slots : OnItsWay(i) => saving

\* What request c carries of an edit k its user has not touched since.
CarriedBy(c, k, v) ==
    /\ c.stage = "sent" => k \in DOMAIN c.ops /\ c.ops[k] = v
    /\ c.stage = "served" => c.answer[k] \in {v, "missing"}

Carried ==
    \A i \in Slots : calls[i] # Free =>
        /\ calls[i].kind = "load" => calls[i].untouched = {}
        /\ calls[i].stage = "served" /\ calls[i].kind # "preview" => calls[i].answer \in Shown
        /\ calls[i].kind = "save" =>
              \A k \in calls[i].untouched :
                  draft[k] # "none" => CarriedBy(calls[i], k, draft[k])

TabInv == TypeOK /\ OneSaveAtATime /\ Guarded /\ Carried

-----------------------------------------------------------------------------
\* Types.

\* What a save sends assigns values to keys.
LEMMA BuildOpsType == ASSUME TypeOK PROVE BuildOps \in Ops /\ Open \in SUBSET Keys
<1>1. Open \in SUBSET Keys
  BY DEF Open, Changed
<1>2. \A k \in Open : draft[k] \in Values
  BY DEF TypeOK, Open, Changed
<1>3. BuildOps \in [Open -> Values]
  BY <1>2 DEF BuildOps
<1> QED BY <1>1, <1>3 DEF Ops

\* No operations are operations, too.
LEMMA NoOpsType == NoOps \in Ops
<1>1. NoOps \in [{} -> Values]
  BY DEF NoOps
<1> QED BY <1>1 DEF Ops

\* A slot with a request is taken.
LEMMA CallIsNotFree == \A c \in Call : c # Free /\ c.stage # "free"
  BY DEF Call, Free

\* A request just sent, and the others as they were.
NewCall(kind) ==
    [stage |-> "sent", kind |-> kind,
     base |-> IF kind \in Saving THEN view ELSE NoView,
     ops |-> IF kind \in Saving THEN BuildOps ELSE NoOps,
     untouched |-> IF kind \in Asked THEN {} ELSE Open,
     answer |-> NoView]

\* Sending puts the request in a free slot.
LEMMA SendAdds ==
    ASSUME TypeOK, NEW kind \in Kinds, Send(kind)
    PROVE  /\ calls' \in [Slots -> Call \cup {Free}]
           /\ NewCall(kind) \in Call
           /\ \E i \in Slots : /\ calls[i] = Free
                               /\ calls' = [calls EXCEPT ![i] = NewCall(kind)]
<1>1. PICK i \in Slots : calls[i] = Free /\ calls' = [calls EXCEPT ![i] = NewCall(kind)]
  BY DEF Send, NewCall
<1>2. NewCall(kind) \in Call
  BY BuildOpsType, NoOpsType DEF NewCall, Call, TypeOK
<1> QED BY <1>1, <1>2 DEF TypeOK

\* A request that has been served, or refused or lost, and the others as they
\* were.
LEMMA Settled ==
    ASSUME TypeOK, NEW i \in Slots, calls[i] \in Call, Reply(i) \/ Refuse(i),
           value' \in Shown
    PROVE  /\ calls' \in [Slots -> Call \cup {Free}]
           /\ \A j \in Slots : j # i => calls'[j] = calls[j]
           /\ calls'[i].kind = calls[i].kind
           /\ calls'[i].untouched = calls[i].untouched
           /\ Reply(i) => /\ calls'[i].stage = "served"
                          /\ calls[i].kind # "preview" => calls'[i].answer = value'
           /\ Refuse(i) => calls'[i].stage = "failed"
<1> DEFINE became(stage, answer) ==
        [calls[i] EXCEPT !.stage = stage, !.base = NoView, !.ops = NoOps, !.answer = answer]
           reply == IF calls[i].kind = "preview" THEN NoView ELSE value'
<1>1. ASSUME NEW stage \in {"served", "failed"}, NEW answer \in Shown \cup {NoView}
      PROVE  /\ became(stage, answer) \in Call
             /\ became(stage, answer).kind = calls[i].kind
             /\ became(stage, answer).untouched = calls[i].untouched
             /\ became(stage, answer).stage = stage
             /\ became(stage, answer).answer = answer
  BY NoOpsType DEF Call
<1>2. reply \in Shown \cup {NoView}
  OBVIOUS
<1> HIDE DEF became, reply
<1>3. CASE Reply(i)
  <2>1. calls' = [calls EXCEPT ![i] = became("served", reply)]
    BY <1>3 DEF Reply, became, reply
  <2>2. calls'[i] = became("served", reply)
    BY <2>1 DEF TypeOK
  <2>3. became("served", reply) \in Call
    BY <1>1, <1>2
  <2>4. /\ calls'[i].kind = calls[i].kind /\ calls'[i].stage = "served"
        /\ calls'[i].untouched = calls[i].untouched /\ calls'[i].answer = reply
    BY <1>1, <1>2, <2>2
  <2>5. /\ calls' \in [Slots -> Call \cup {Free}]
        /\ \A j \in Slots : j # i => calls'[j] = calls[j]
    BY <2>1, <2>3 DEF TypeOK
  <2>6. ~Refuse(i)
    <3>1. Refuse(i) => calls' = [calls EXCEPT ![i] = became("failed", NoView)]
      BY DEF Refuse, became
    <3>2. Refuse(i) => calls'[i] = became("failed", NoView)
      BY <3>1 DEF TypeOK
    <3>3. Refuse(i) => calls'[i].stage = "failed"
      BY <1>1, <3>2
    <3> QED BY <2>4, <3>3
  <2> QED BY <2>4, <2>5, <2>6 DEF reply
<1>4. CASE Refuse(i) /\ ~Reply(i)
  <2>1. calls' = [calls EXCEPT ![i] = became("failed", NoView)]
    BY <1>4 DEF Refuse, became
  <2>2. calls'[i] = became("failed", NoView)
    BY <2>1 DEF TypeOK
  <2>3. became("failed", NoView) \in Call
    BY <1>1
  <2>4. /\ calls'[i].kind = calls[i].kind /\ calls'[i].stage = "failed"
        /\ calls'[i].untouched = calls[i].untouched
    BY <1>1, <2>2
  <2>5. /\ calls' \in [Slots -> Call \cup {Free}]
        /\ \A j \in Slots : j # i => calls'[j] = calls[j]
    BY <2>1, <2>3 DEF TypeOK
  <2> QED BY <1>4, <2>4, <2>5
<1> QED BY <1>3, <1>4

\* The types are right at first, and after every step.
LEMMA InitType == Init => TypeOK
  BY DEF Init, TypeOK, Shown, Values, Blank

\* A step keeps the types.
LEMMA StepType == TypeOK /\ [Next]_vars => TypeOK'
<1> SUFFICES ASSUME TypeOK, [Next]_vars PROVE TypeOK'
  OBVIOUS
<1>1. ASSUME NEW kind \in Kinds, Send(kind),
             UNCHANGED <<value, view, draft>>,
             authed' \in BOOLEAN, loading' \in BOOLEAN, saving' \in BOOLEAN,
             refreshing' \in BOOLEAN, preview' \in BOOLEAN
      PROVE  TypeOK'
  BY <1>1, SendAdds DEF TypeOK
<1>2. CASE SignIn
  BY <1>1, <1>2 DEF SignIn, TypeOK, Kinds
<1>3. CASE Focus
  BY <1>1, <1>3 DEF Focus, TypeOK, Kinds
<1>4. CASE Reload
  BY <1>1, <1>4 DEF Reload, TypeOK, Kinds
<1>5. CASE Refresh
  BY <1>1, <1>5 DEF Refresh, TypeOK, Kinds
<1>6. CASE RequestPreview
  BY <1>1, <1>6 DEF RequestPreview, TypeOK, Kinds
<1>7. CASE Confirm
  BY <1>1, <1>7 DEF Confirm, TypeOK, Kinds
<1>8. CASE PageRequest
  BY <1>1, <1>8 DEF PageRequest, TypeOK, Kinds, flags
<1>9. CASE SignOut \/ Cancel \/ Discard
  BY <1>9 DEF SignOut, Cancel, Discard, TypeOK, flags, Blank
<1>10. ASSUME NEW k \in Keys, NEW v \in Values, Edit(k, v) PROVE TypeOK'
  <2>1. calls' \in [Slots -> Call \cup {Free}]
    <3>1. \A i \in Slots : calls[i] # Free =>
              [calls[i] EXCEPT !.untouched = @ \ {k}] \in Call
      BY DEF TypeOK, Call
    <3> QED BY <1>10, <3>1 DEF Edit
  <2> QED BY <1>10, <2>1 DEF Edit, TypeOK, flags
<1>11. CASE Elsewhere
  BY <1>11 DEF Elsewhere, Disturbed, TypeOK, flags, Shown
<1>12. ASSUME NEW i \in Slots, Serve(i) \/ Lose(i) PROVE TypeOK'
  <2>1. calls[i] \in Call
    BY <1>12 DEF Serve, Lose, TypeOK
  <2>2. value' \in Shown
    <3>1. ASSUME value' = [k \in Keys |->
                     IF k \in DOMAIN calls[i].ops /\ value[k] # "missing"
                     THEN calls[i].ops[k] ELSE value[k]]
          PROVE  value' \in Shown
      <4>1. \A k \in DOMAIN calls[i].ops : calls[i].ops[k] \in Values
        BY <2>1 DEF Call, Ops
      <4> QED BY <3>1, <4>1 DEF TypeOK, Shown
    <3>2. Disturbed => value' \in Shown
      BY DEF Disturbed, TypeOK, Shown
    <3> QED BY <1>12, <3>1, <3>2 DEF Serve, Lose, Refuse, TypeOK
  <2>3. Reply(i) \/ Refuse(i) => calls' \in [Slots -> Call \cup {Free}]
    BY <2>1, <2>2, Settled
  <2>4. Reply(i) \/ Refuse(i)
    BY <1>12 DEF Serve, Lose
  <2> QED BY <1>12, <2>2, <2>3, <2>4 DEF Serve, Lose, TypeOK, flags
<1>13. ASSUME NEW i \in Slots, Answer(i) PROVE TypeOK'
  <2>1. calls[i] \in Call
    BY <1>13 DEF Answer, TypeOK
  <2>2. view' \in Shown \cup {NoView} /\ draft' \in [Keys -> Values \cup {"none"}]
    BY <1>13, <2>1 DEF Answer, Call, Blank, TypeOK
  <2>3. preview' \in BOOLEAN
    BY <1>13, <2>1 DEF Answer, TypeOK
  <2>4. authed' \in BOOLEAN
    BY <1>13 DEF Answer, TypeOK
  <2> QED BY <1>13, <2>2, <2>3, <2>4 DEF Answer, FlagsAfter, TypeOK
<1>14. CASE UNCHANGED vars
  BY <1>14 DEF vars, TypeOK
<1> QED BY <1>2, <1>3, <1>4, <1>5, <1>6, <1>7, <1>8, <1>9, <1>10, <1>11, <1>12,
           <1>13, <1>14 DEF Next

-----------------------------------------------------------------------------
\* One save at a time.

OneSave == OneSaveAtATime /\ Guarded

\* A step keeps it: a save starts only when the flag is down, which is when no
\* save is on its way, and the flag goes down only with the last one.
LEMMA StepOneSave == TypeOK /\ OneSave /\ [Next]_vars => OneSave'
<1> SUFFICES ASSUME TypeOK, OneSave, [Next]_vars PROVE OneSave'
  OBVIOUS
<1> USE DEF OneSave, OneSaveAtATime, Guarded, OnItsWay
\* A request of another kind is no save, and one of them begins with none.
<1>1. ASSUME NEW kind \in Kinds \ Saving, Send(kind), saving' = saving
      PROVE  OneSave'
  <2>1. PICK i \in Slots : /\ calls[i] = Free
                           /\ calls' = [calls EXCEPT ![i] = NewCall(kind)]
    BY <1>1, SendAdds
  <2>2. calls'[i] = NewCall(kind) /\ \A j \in Slots : j # i => calls'[j] = calls[j]
    BY <2>1 DEF TypeOK
  <2>3. NewCall(kind).kind \notin Saving
    BY <1>1 DEF NewCall
  <2>4. \A j \in Slots : OnItsWay(j)' => OnItsWay(j)
    BY <2>2, <2>3
  <2> QED BY <1>1, <2>4
<1>2. ASSUME NEW kind \in Saving, Send(kind), ~saving, saving'
      PROVE  OneSave'
  BY <1>2, SendAdds DEF NewCall, TypeOK, Saving, Kinds
<1>3. CASE SignIn
  BY <1>1, <1>3 DEF SignIn, Kinds, Saving
<1>4. CASE Focus
  BY <1>1, <1>4 DEF Focus, Kinds, Saving
<1>5. CASE Reload
  BY <1>1, <1>5 DEF Reload, Kinds, Saving
<1>6. CASE Refresh
  BY <1>1, <1>6 DEF Refresh, Kinds, Saving
<1>7. CASE RequestPreview
  BY <1>2, <1>7 DEF RequestPreview, Busy, Saving
<1>8. CASE Confirm
  BY <1>2, <1>8 DEF Confirm, Saving
<1>9. CASE PageRequest
  BY <1>1, <1>9 DEF PageRequest, Kinds, Saving, flags
<1>10. CASE SignOut \/ Cancel \/ Discard \/ Elsewhere \/ UNCHANGED vars
  BY <1>10 DEF SignOut, Cancel, Discard, Elsewhere, flags, vars
<1>11. ASSUME NEW k \in Keys, NEW v \in Values, Edit(k, v) PROVE OneSave'
  <2>1. \A i \in Slots : OnItsWay(i)' => OnItsWay(i)
    BY <1>11 DEF Edit, TypeOK, Call
  <2> QED BY <1>11, <2>1 DEF Edit, flags
<1>12. ASSUME NEW i \in Slots, Serve(i) \/ Lose(i) PROVE OneSave'
  <2>1. calls[i] \in Call
    BY <1>12 DEF Serve, Lose, TypeOK
  <2>2. Reply(i) \/ Refuse(i)
    BY <1>12 DEF Serve, Lose
  <2>3. \A j \in Slots : OnItsWay(j)' => OnItsWay(j)
    BY <2>1, <2>2, CallIsNotFree, Settled, StepType DEF TypeOK
  <2> QED BY <1>12, <2>3 DEF Serve, Lose, flags
<1>13. ASSUME NEW i \in Slots, Answer(i) PROVE OneSave'
  <2>1. \A j \in Slots : OnItsWay(j)' => j # i /\ OnItsWay(j)
    BY <1>13 DEF Answer, TypeOK
  <2>2. OnItsWay(i) => \A j \in Slots : ~OnItsWay(j)'
    BY <2>1
  <2>3. ~OnItsWay(i) => saving' = saving
    BY <1>13 DEF Answer, FlagsAfter, TypeOK
  <2> QED BY <2>1, <2>2, <2>3
<1> QED BY <1>3, <1>4, <1>5, <1>6, <1>7, <1>8, <1>9, <1>10, <1>11, <1>12, <1>13
           DEF Next

-----------------------------------------------------------------------------
\* What a save carries.

\* A step keeps it: what is sent is the draft, what is served is what was sent,
\* and an edit made in between is no longer counted as left alone.
LEMMA StepCarried == TypeOK /\ Carried /\ [Next]_vars => Carried'
<1> SUFFICES ASSUME TypeOK, Carried, [Next]_vars PROVE Carried'
  OBVIOUS
<1>1. ASSUME NEW kind \in Kinds, Send(kind), kind = "load" => ~Dirty,
             UNCHANGED draft
      PROVE  Carried'
  <2>1. PICK i \in Slots : /\ calls[i] = Free
                           /\ calls' = [calls EXCEPT ![i] = NewCall(kind)]
    BY <1>1, SendAdds
  <2>2. kind = "save" => \A k \in Open : CarriedBy(NewCall(kind), k, draft[k])
    BY DEF NewCall, CarriedBy, BuildOps, Saving
  <2>3. kind = "load" => NewCall(kind).untouched = {}
    BY <1>1 DEF NewCall, Asked, Dirty
  <2>4. /\ NewCall(kind).stage = "sent" /\ NewCall(kind).kind = kind
        /\ kind = "save" => NewCall(kind).untouched = Open
    BY DEF NewCall, Asked
  <2>5. calls'[i] = NewCall(kind) /\ \A j \in Slots : j # i => calls'[j] = calls[j]
    BY <2>1 DEF TypeOK
  <2> QED BY <1>1, <2>2, <2>3, <2>4, <2>5 DEF Carried
<1>2. CASE SignIn
  BY <1>1, <1>2 DEF SignIn, Kinds
<1>3. CASE Focus
  BY <1>1, <1>3 DEF Focus, Kinds
<1>4. CASE Reload
  BY <1>1, <1>4 DEF Reload, Kinds
<1>5. CASE Refresh
  BY <1>1, <1>5 DEF Refresh, Kinds
<1>6. CASE RequestPreview
  BY <1>1, <1>6 DEF RequestPreview, Kinds
<1>7. CASE Confirm
  BY <1>1, <1>7 DEF Confirm, Kinds
<1>8. CASE PageRequest
  BY <1>1, <1>8 DEF PageRequest, Kinds
<1>9. CASE SignOut \/ Cancel \/ Elsewhere \/ UNCHANGED vars
  BY <1>9 DEF SignOut, Cancel, Elsewhere, vars, Carried
\* An empty draft has no edit left to carry.
<1>10. CASE Discard
  BY <1>10 DEF Discard, Carried, Blank, TypeOK, Call
<1>11. ASSUME NEW k \in Keys, NEW v \in Values, Edit(k, v) PROVE Carried'
  <2>1. ASSUME NEW i \in Slots, calls'[i] # Free
        PROVE  /\ calls[i] \in Call
               /\ calls'[i] = [calls[i] EXCEPT !.untouched = @ \ {k}]
    BY <1>11, <2>1 DEF Edit, TypeOK
  <2>2. \A j \in Keys \ {k} : draft'[j] = draft[j]
    BY <1>11 DEF Edit, TypeOK
  <2>3. ASSUME NEW i \in Slots, calls'[i] # Free
        PROVE  /\ calls[i] # Free
               /\ calls'[i].stage = calls[i].stage /\ calls'[i].kind = calls[i].kind
               /\ calls'[i].ops = calls[i].ops /\ calls'[i].answer = calls[i].answer
               /\ calls'[i].untouched = calls[i].untouched \ {k}
               /\ calls[i].untouched \subseteq Keys
    BY <2>1, <2>3, CallIsNotFree DEF Call
  <2> QED BY <2>2, <2>3 DEF Carried, CarriedBy
<1>12. ASSUME NEW i \in Slots, Serve(i) \/ Lose(i) PROVE Carried'
  <2>1. calls[i] \in Call /\ calls[i] # Free
    BY <1>12 DEF Serve, Lose, TypeOK
  <2>2. draft' = draft
    BY <1>12 DEF Serve, Lose
  <2>0. value' \in Shown
    BY StepType DEF TypeOK
  <2>5. \A j \in Slots : j # i => calls'[j] = calls[j]
    BY <1>12, <2>0, <2>1, Settled DEF Serve, Lose
  <2>3. CASE Refuse(i)
    <3>1. /\ calls'[i].stage = "failed" /\ calls'[i].kind = calls[i].kind
          /\ calls'[i].untouched = calls[i].untouched
      BY <2>0, <2>1, <2>3, Settled
    <3> QED BY <2>1, <2>2, <2>5, <3>1 DEF Carried, CarriedBy
  <2>4. CASE Reply(i) /\ Serve(i) /\ ~Refuse(i)
    <3>1. /\ calls'[i].stage = "served" /\ calls'[i].kind = calls[i].kind
          /\ calls'[i].untouched = calls[i].untouched
          /\ calls[i].kind # "preview" => calls'[i].answer = value'
      BY <2>0, <2>1, <2>4, Settled
    <3>2. ASSUME calls[i].kind = "save", NEW k \in calls[i].untouched, draft[k] # "none"
          PROVE  value'[k] \in {draft[k], "missing"}
      <4>1. k \in Keys /\ calls[i].stage = "sent"
        BY <2>1, <2>4 DEF Serve, Call
      <4>2. k \in DOMAIN calls[i].ops /\ calls[i].ops[k] = draft[k]
        BY <2>1, <3>2, <4>1 DEF Carried, CarriedBy
      <4>3. value' = [j \in Keys |->
                         IF j \in DOMAIN calls[i].ops /\ value[j] # "missing"
                         THEN calls[i].ops[j] ELSE value[j]]
        BY <2>4, <3>2 DEF Serve, Saving, Loads
      <4> QED BY <4>1, <4>2, <4>3
    <3> QED BY <2>0, <2>1, <2>2, <2>5, <3>1, <3>2 DEF Carried, CarriedBy
  <2> QED BY <1>12, <2>3, <2>4 DEF Serve, Lose
<1>13. ASSUME NEW i \in Slots, Answer(i) PROVE Carried'
  <2>1. \A j \in Slots : calls'[j] # Free => calls'[j] = calls[j]
    BY <1>13 DEF Answer, TypeOK
  <2>2. draft' = draft \/ draft' = Blank
    BY <1>13 DEF Answer
  <2>3. \A j \in Slots : calls[j] # Free => calls[j].untouched \subseteq Keys
    BY DEF TypeOK, Call
  <2>4. \A k \in Keys : draft'[k] # "none" => draft'[k] = draft[k]
    BY <2>2 DEF Blank
  <2> QED BY <2>1, <2>3, <2>4 DEF Carried
<1> QED BY <1>2, <1>3, <1>4, <1>5, <1>6, <1>7, <1>8, <1>9, <1>10, <1>11, <1>12,
           <1>13 DEF Next

-----------------------------------------------------------------------------
\* The invariant, and what follows from it.

\* The invariant holds in every behaviour.
LEMMA InvHolds == Spec => []TabInv
<1>1. Init => TabInv
  BY InitType DEF Init, TabInv, OneSaveAtATime, Guarded, OnItsWay, Carried
<1>2. TabInv /\ [Next]_vars => TabInv'
  BY StepType, StepOneSave, StepCarried DEF TabInv, OneSave
<1> QED BY <1>1, <1>2, PTL DEF Spec

\* Every variable of a tab keeps its type, for any keys and requests.
THEOREM TabTypeCorrect == Spec => []TypeOK
<1>1. TabInv => TypeOK
  BY DEF TabInv
<1> QED BY <1>1, InvHolds, PTL

\* A tab has one save or preview on its way at most, however often its dialog
\* is closed and opened again and in whatever order its requests are answered
\* (saving in useCatalog, which every other way to send one looks at).
THEOREM OneSaveOnly == Spec => []OneSaveAtATime
<1>1. TabInv => OneSaveAtATime
  BY DEF TabInv
<1> QED BY <1>1, InvHolds, PTL

\* An answer the user did not ask for drops no edit that was open when its
\* request was sent and is so still (the guards of onFocus, and the operations
\* that confirmSave builds from the whole draft).
LEMMA AnswerKeepsEdits ==
    ASSUME TabInv, NEW i \in Slots, Answer(i), calls[i].kind \notin Asked,
           NEW k \in calls[i].untouched \cap Open
    PROVE  \/ k \in Changed(draft', view')
           \/ view'[k] \in {draft[k], "missing"}
<1>1. calls[i] \in Call /\ calls[i] # Free
  BY DEF Answer, TabInv, TypeOK
<1>2. /\ calls[i].kind \in {"preview", "page", "save"}
      /\ calls[i].stage \in {"served", "failed"}
  BY <1>1 DEF Answer, TabInv, Carried, Call, Kinds, Asked
<1>3. k \in Keys /\ view # NoView /\ draft[k] # "none"
  BY DEF Open, Changed
<1>4. CASE calls[i].stage = "failed" \/ calls[i].kind = "preview"
  BY <1>1, <1>2, <1>4 DEF Answer, Open
<1>5. CASE calls[i].stage = "served" /\ calls[i].kind = "page"
  <2>1. view' \in Shown /\ draft' = draft
    BY <1>1, <1>5 DEF Answer, TabInv, Carried
  <2> QED BY <1>3, <2>1, TabAssumption DEF Changed
<1>6. CASE calls[i].stage = "served" /\ calls[i].kind = "save"
  BY <1>1, <1>3, <1>6 DEF Answer, TabInv, Carried, CarriedBy
<1> QED BY <1>2, <1>4, <1>5, <1>6

\* No answer drops an edit its user has not given up.
THEOREM EditsKept == Spec => EditsAccountedFor
<1>1. TabInv /\ [Next]_vars =>
        [\A i \in Slots : Answer(i) /\ calls[i].kind \notin Asked =>
            \A k \in calls[i].untouched \cap Open :
                \/ k \in Changed(draft', view')
                \/ view'[k] \in {draft[k], "missing"}]_vars
  BY AnswerKeepsEdits
<1> QED BY <1>1, InvHolds, PTL DEF Spec, EditsAccountedFor
=============================================================================
