--------------------------- MODULE AutoSyncProofs ---------------------------
(***************************************************************************)
(* What AutoSync guarantees for any number of tabs and configurations.     *)
(*                                                                         *)
(* A configuration the loop holds may be older than the store's only while *)
(* someone is about to tell it so.  What that someone has left to do grows *)
(* with the distance the loop has come: before the wait a token or a PUT   *)
(* under way is enough; in the wait with the timestamp up, the PUT must    *)
(* not have cleared it, or be an early one that still sends its token;     *)
(* once the timer has fired there is no token and nobody early, so only a  *)
(* PUT before its clear is left.                                           *)
(***************************************************************************)
EXTENDS AutoSync, TLAPS

Stale      == cfg \in Configs /\ cfg # config
Clearing   == \E u \in Users : put[u] = "clear"
UnderWay   == \E u \in Users : put[u] \in {"clear", "wake", "send"}
EarlyTells == \E u \in early : put[u] \in {"wake", "send"}

Told ==
    /\ loop \in {"publish", "wait"} /\ Stale =>
          autoWake \/ UnderWay \/ ~autoStarted
    /\ loop = "wait" /\ scheduled /\ Stale =>
          autoWake \/ Clearing \/ EarlyTells \/ ~autoStarted
    /\ loop = "check" => cfg \in Configs
    /\ loop = "check" /\ scheduled /\ Stale => Clearing \/ ~autoStarted

Running == loop \notin {"run", "ran", "exit"} => ~autoRunning

LoopInv == TypeOK /\ Running /\ Told

\* The invariant holds before the first step.
LEMMA LoopInit == Init => LoopInv
  BY AutoSyncAssumption
     DEF Init, LoopInv, TypeOK, Running, Told, Stale, LoopLabels, PutLabels,
         StopLabels

\* The goroutine keeps the invariant.
LEMMA LoopKeeps == LoopInv /\ Loop => LoopInv'
<1> SUFFICES ASSUME LoopInv, Loop PROVE LoopInv'
  OBVIOUS
<1> USE AutoSyncAssumption DEF LoopInv, TypeOK, state, SetState, LoopLabels
<1>1. CASE Read
  BY <1>1 DEF Read, Running, Told, Stale
<1>2. CASE ReadFails
  BY <1>2 DEF ReadFails, Running, Told, Stale
<1>3. CASE Publish
  <2>0. (cfg \in Enabled) \in BOOLEAN
    OBVIOUS
  <2>1. TypeOK' /\ Running'
    BY <1>3, <2>0 DEF Publish, Running
  <2>2. Stale' => autoWake' \/ UnderWay' \/ ~autoStarted'
    BY <1>3 DEF Publish, Told, Stale, UnderWay
  <2>3. UnderWay' => Clearing' \/ EarlyTells'
    BY <1>3 DEF Publish, UnderWay, Clearing, EarlyTells
  <2> QED BY <1>3, <2>1, <2>2, <2>3 DEF Publish, Told
<1>4. CASE WaitCancelled
  BY <1>4 DEF WaitCancelled, Running, Told
<1>5. CASE WaitWoken
  BY <1>5 DEF WaitWoken, Running, Told
<1>6. CASE TimerFires
  <2>1. ~EarlyTells /\ ~autoWake
    BY <1>6 DEF TimerFires, EarlyTells
  <2>2. TypeOK' /\ Running'
    BY <1>6 DEF TimerFires, Running
  <2>3. (scheduled /\ Stale)' => Clearing' \/ ~autoStarted'
    BY <1>6, <2>1 DEF TimerFires, Told, Stale, Clearing
  <2> QED BY <1>6, <2>2, <2>3 DEF TimerFires, Told
<1>7. CASE Woken
  BY <1>7 DEF Woken, Running, Told
<1>8. CASE Check
  BY <1>8 DEF Check, Running, Told
<1>9. CASE BeginRun
  BY <1>9 DEF BeginRun, Running, Told
<1>10. CASE Run
  BY <1>10 DEF Run, Running, Told
<1>11. CASE EndRun
  BY <1>11 DEF EndRun, Running, Told
<1> QED
  BY <1>1, <1>2, <1>3, <1>4, <1>5, <1>6, <1>7, <1>8, <1>9, <1>10, <1>11 DEF Loop

\* So does every step of a PUT.
LEMMA PutKeeps ==
  ASSUME LoopInv, NEW u \in Users, Arrive(u) \/ Handle(u)
  PROVE  LoopInv'
<1> USE AutoSyncAssumption DEF LoopInv, TypeOK, state, PutLabels, PutTo
<1>1. CASE Arrive(u)
  <2>1. TypeOK' /\ Running'
    BY <1>1 DEF Arrive, Running
  <2>2. \A w \in Users : put[w] \in {"clear", "wake", "send"} => put'[w] = put[w]
    BY <1>1 DEF Arrive
  <2>3. /\ UnderWay => UnderWay'
        /\ Clearing => Clearing'
        /\ EarlyTells => EarlyTells'
    BY <1>1, <2>2 DEF Arrive, UnderWay, Clearing, EarlyTells
  <2>4. UNCHANGED <<loop, cfg, config, scheduled, autoWake, autoStarted>>
    BY <1>1 DEF Arrive
  <2>5. Told'
    BY <2>3, <2>4 DEF Told, Stale
  <2> QED BY <2>1, <2>5
<1>2. CASE Store(u)
  <2>1. TypeOK' /\ Running'
    BY <1>2 DEF Store, Running
  <2>2. put'[u] = "clear"
    BY <1>2 DEF Store
  <2>3. Clearing' /\ UnderWay' /\ UNCHANGED <<loop, cfg>>
    BY <1>2, <2>2 DEF Store, Clearing, UnderWay
  <2> QED BY <2>1, <2>3 DEF Told
<1>3. CASE Clear(u)
  <2>1. TypeOK' /\ Running'
    BY <1>3 DEF Clear, Running
  <2>2. loop \in {"publish", "wait", "check"} => ~scheduled'
    BY <1>3 DEF Clear, Running
  <2>3. UnderWay'
    BY <1>3 DEF Clear, UnderWay
  <2> QED BY <1>3, <2>1, <2>2, <2>3 DEF Clear, Told
<1>4. CASE Wake(u)
  <2>1. TypeOK' /\ Running'
    BY <1>4 DEF Wake, Return, Running
  <2>2. CASE ~autoStarted
    BY <1>4, <2>1, <2>2 DEF Wake, Told
  <2>3. CASE autoStarted
    <3>1. put'[u] = "send" /\ UNCHANGED early
      BY <1>4, <2>3 DEF Wake
    <3>2. \A w \in Users \ {u} : put'[w] = put[w]
      BY <1>4, <2>3 DEF Wake
    <3>3. (UnderWay => UnderWay') /\ (EarlyTells => EarlyTells')
      BY <3>1, <3>2 DEF UnderWay, EarlyTells
    <3>4. Clearing => Clearing'
      BY <1>4, <3>2 DEF Wake, Clearing
    <3> QED BY <1>4, <2>1, <3>3, <3>4 DEF Wake, Told, Stale
  <2> QED BY <2>2, <2>3
<1>5. CASE Send(u)
  <2>1. TypeOK' /\ Running'
    BY <1>5 DEF Send, Return, Running
  <2>2. Clearing => Clearing'
    BY <1>5 DEF Send, Return, Clearing
  <2> QED BY <1>5, <2>1, <2>2 DEF Send, Told, Stale
<1> QED BY <1>1, <1>2, <1>3, <1>4, <1>5 DEF Handle

\* And the shutdown.
LEMMA StopKeeps == LoopInv /\ (StopBegins \/ Stop) => LoopInv'
<1> SUFFICES ASSUME LoopInv, StopBegins \/ Stop PROVE LoopInv'
  OBVIOUS
<1> USE DEF LoopInv, TypeOK, state, SetState, StopLabels
<1>1. CASE StopBegins
  BY <1>1 DEF StopBegins, Running, Told
<1>2. CASE Cancel
  BY <1>2 DEF Cancel, Running, Told, Stale, UnderWay, Clearing, EarlyTells
<1>3. CASE StopEnds
  BY <1>3 DEF StopEnds, Running, Told
<1> QED BY <1>1, <1>2, <1>3 DEF Stop

\* A step changes nothing the invariant is about, or keeps it.
LEMMA LoopInvKept == LoopInv /\ [Next]_vars => LoopInv'
<1> SUFFICES ASSUME LoopInv, [Next]_vars PROVE LoopInv'
  OBVIOUS
<1>1. CASE UNCHANGED vars
  BY <1>1 DEF vars, LoopInv, TypeOK, Running, Told, Stale, UnderWay, Clearing,
              EarlyTells
<1> QED
  BY <1>1, LoopKeeps, PutKeeps, StopKeeps DEF Next

\* No run is let through under a configuration the store no longer holds,
\* unless the edit has not cleared the timestamp yet or the loop is stopping.
THEOREM RunsUnderStoredConfig == Spec => RunsAsConfigured
<1>1. LoopInv /\ [Next]_vars
        => (loop = "check" /\ loop' = "due" =>
              \/ cfg = config
              \/ \E u \in Users : put[u] = "clear"
              \/ ~autoStarted)
  <2> SUFFICES ASSUME LoopInv, [Next]_vars, loop = "check", loop' = "due"
               PROVE  \/ cfg = config
                      \/ \E u \in Users : put[u] = "clear"
                      \/ ~autoStarted
    OBVIOUS
  <2>1. Check
    BY DEF vars, Next, Loop, Read, ReadFails, Publish, WaitCancelled, WaitWoken,
           TimerFires, Woken, BeginRun, Run, EndRun, Arrive, Handle, Store,
           Clear, Wake, Send, StopBegins, Stop, Cancel, StopEnds
  <2>2. scheduled
    BY <2>1 DEF Check
  <2>3. cfg \in Configs
    BY DEF LoopInv, Told
  <2> QED BY <2>2, <2>3 DEF LoopInv, Told, Stale, Clearing
<1> QED
  BY <1>1, LoopInit, LoopInvKept, PTL DEF Spec, RunsAsConfigured
=============================================================================
