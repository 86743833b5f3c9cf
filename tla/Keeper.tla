------------------------------- MODULE Keeper -------------------------------
(***************************************************************************)
(* The request statistics: the hook of the matrix page that polls them     *)
(* (web/src/state/useStats.ts), the handler (api/stats.go) and the client  *)
(* of CPA Usage Keeper (keeper/keeper.go), which pages through the events  *)
(* of the window under one shared session.  Keeper itself is external: it  *)
(* lists its events newest or oldest first, gains and loses events between *)
(* two pages, ends the session whenever it likes, and may not answer.      *)
(*                                                                         *)
(* Data abstraction.  An event is its number in the order of arrival.  The *)
(* counts per site and model are a function of the events read, so the     *)
(* model keeps how often each was read.                                    *)
(***************************************************************************)
EXTENDS Integers, FiniteSets

CONSTANTS
    Requests,      \* slots for statistics requests in flight
    Nobody,
    MaxEvents,     \* bound: events that ever arrive
    PageSize,      \* 500 in the code
    MaxPages       \* 20 in the code

ASSUME KeeperAssumption ==
    /\ Nobody \notin Requests
    /\ MaxEvents \in Nat
    /\ PageSize \in Nat \ {0}
    /\ MaxPages \in Nat \ {0}

Events == 1..MaxEvents

VARIABLES
    first, last, newestFirst,       \* Keeper's window first..last, and its order
    session,                        \* Keeper takes the cookie of the client
    loggedIn, holder,               \* Client.loggedIn and its mutex
    own,                            \* observer: the session of the holder's own login
    mounted, visible, loading,      \* the page, and the hook's flag on screen
    inFlight,                       \* the hook's flag against a second request
    reqs

keeper == <<first, last, newestFirst>>
hook   == <<mounted, visible, loading, inFlight>>
vars   == <<first, last, newestFirst, session, loggedIn, holder, own, mounted,
            visible, loading, inFlight, reqs>>

Stages == {"free", "lock", "login", "ask", "done", "failed"}

\* mine: the hook that sent it is still mounted.  again: the second attempt of
\* one get.  Kept for the requests that are mine only: seen, how often each
\* event was read so far, and the observer since, the window when it was sent.
Request == [stage : Stages, mine : BOOLEAN, again : BOOLEAN, page : 1..MaxPages,
            seen : [Events -> 0..MaxPages], since : [first : Nat, last : Nat]]

Free == [stage |-> "free", mine |-> FALSE, again |-> FALSE, page |-> 1,
         seen |-> [e \in Events |-> 0], since |-> [first |-> 1, last |-> 0]]

-----------------------------------------------------------------------------
\* Keeper's pages.

Listed == last - first + 1

NumPages == (Listed + PageSize - 1) \div PageSize

PageOf(e) == ((IF newestFirst THEN last - e ELSE e - first) \div PageSize) + 1

EventsOn(p) == {e \in first..last : PageOf(e) = p}

\* Mutant: the last page is taken for read when the one before it was.
LastTooSoon(p) == NumPages <= p + 1 \/ EventsOn(p) = {} \/ p = MaxPages

LastPage(p) == NumPages <= p \/ EventsOn(p) = {} \/ p = MaxPages

-----------------------------------------------------------------------------
Init ==
    /\ first = 1 /\ last \in 0..(PageSize + 1) /\ last <= MaxEvents
    /\ newestFirst \in BOOLEAN
    /\ session = FALSE /\ loggedIn = FALSE /\ holder = Nobody /\ own = "none"
    /\ mounted = FALSE /\ visible = TRUE /\ loading = FALSE /\ inFlight = FALSE
    /\ reqs = [r \in Requests |-> Free]

Send(mine) ==
    \E r \in Requests :
        /\ reqs[r].stage = "free"
        /\ reqs' = [reqs EXCEPT ![r] = [Free EXCEPT !.stage = "lock", !.mine = mine,
                        !.since = IF mine THEN [first |-> first, last |-> last]
                                           ELSE Free.since]]

\* pull: on mounting, every 30 seconds and when the tab becomes visible.
Pull ==
    IF inFlight \/ ~visible'
    THEN UNCHANGED <<loading, inFlight, reqs>>
    ELSE /\ Send(TRUE)
         /\ loading' = TRUE /\ inFlight' = TRUE

Mount ==
    /\ ~mounted /\ mounted' = TRUE
    /\ UNCHANGED visible
    /\ Pull
    /\ UNCHANGED <<keeper, session, loggedIn, holder, own>>

Tick ==
    /\ mounted /\ ~inFlight /\ visible
    /\ UNCHANGED <<mounted, visible>>
    /\ Pull
    /\ UNCHANGED <<keeper, session, loggedIn, holder, own>>

Switch ==
    /\ visible' = ~visible
    /\ UNCHANGED mounted
    /\ IF mounted THEN Pull ELSE UNCHANGED <<loading, inFlight, reqs>>
    /\ UNCHANGED <<keeper, session, loggedIn, holder, own>>

\* Mutant: the cleanup does not cancel the request in flight.
UnmountKeeps ==
    /\ mounted /\ mounted' = FALSE
    /\ loading' = FALSE /\ inFlight' = FALSE
    /\ UNCHANGED reqs
    /\ UNCHANGED <<keeper, session, loggedIn, holder, own, visible>>

\* The state of the hook goes with the page; its request runs on.
Unmount ==
    /\ mounted /\ mounted' = FALSE
    /\ loading' = FALSE /\ inFlight' = FALSE
    /\ reqs' = [r \in Requests |-> [Free EXCEPT !.stage = reqs[r].stage,
                        !.again = reqs[r].again, !.page = reqs[r].page]]
    /\ UNCHANGED <<keeper, session, loggedIn, holder, own, visible>>

OtherTab ==
    /\ Send(FALSE)
    /\ UNCHANGED <<keeper, session, loggedIn, holder, own, hook>>

-----------------------------------------------------------------------------
\* Client.get, one per page, and Client.Stats around it.

Enter(r) ==
    /\ reqs[r].stage = "lock" /\ holder = Nobody
    /\ holder' = r /\ own' = "none"
    /\ reqs' = [reqs EXCEPT ![r].stage = IF loggedIn THEN "ask" ELSE "login"]
    /\ UNCHANGED <<keeper, session, loggedIn, hook>>

Login(r) ==
    /\ reqs[r].stage = "login"
    /\ session' = TRUE /\ loggedIn' = TRUE /\ own' = "valid"
    /\ reqs' = [reqs EXCEPT ![r].stage = "ask"]
    /\ UNCHANGED <<keeper, holder, hook>>

\* Mutant: an early return that forgets the mutex.
FailLocked(r) ==
    /\ reqs' = [reqs EXCEPT ![r] = [Free EXCEPT !.stage = "failed", !.mine = reqs[r].mine]]
    /\ UNCHANGED holder

Fail(r) ==
    /\ reqs' = [reqs EXCEPT ![r] = [Free EXCEPT !.stage = "failed", !.mine = reqs[r].mine]]
    /\ holder' = Nobody

\* No connection, a timeout, a refused password or an answer that is no page.
CallFails(r) ==
    /\ reqs[r].stage \in {"login", "ask"}
    /\ Fail(r)
    /\ UNCHANGED <<keeper, session, loggedIn, own, hook>>

\* Mutant: the client goes on believing in the session that was refused.
RefusedKept(r) ==
    /\ reqs[r].stage = "ask" /\ ~session /\ ~reqs[r].again
    /\ reqs' = [reqs EXCEPT ![r].stage = "ask", ![r].again = TRUE]
    /\ UNCHANGED <<keeper, session, loggedIn, holder, own, hook>>

\* A refused session is tried again with a fresh login, once.
Refused(r) ==
    /\ reqs[r].stage = "ask" /\ ~session /\ ~reqs[r].again
    /\ loggedIn' = FALSE
    /\ reqs' = [reqs EXCEPT ![r].stage = "login", ![r].again = TRUE]
    /\ UNCHANGED <<keeper, session, holder, own, hook>>

GiveUp(r) ==
    /\ reqs[r].stage = "ask" /\ ~session /\ reqs[r].again
    /\ loggedIn' = FALSE
    /\ Fail(r)
    /\ UNCHANGED <<keeper, session, own, hook>>

SeenAfter(r) ==
    [e \in Events |-> reqs[r].seen[e] + IF e \in EventsOn(reqs[r].page) THEN 1 ELSE 0]

Read(r) ==
    /\ reqs[r].stage = "ask" /\ session
    /\ reqs' = [reqs EXCEPT ![r] =
           IF LastPage(reqs[r].page)
           THEN [Free EXCEPT !.stage = "done", !.mine = reqs[r].mine]
           ELSE [reqs[r] EXCEPT !.stage = "lock", !.page = reqs[r].page + 1, !.again = FALSE,
                                !.seen = IF reqs[r].mine THEN SeenAfter(r) ELSE reqs[r].seen]]
    /\ holder' = Nobody
    /\ UNCHANGED <<keeper, session, loggedIn, own, hook>>

\* The answer reaches the hook, or nobody when its page is gone.
Answer(r) ==
    /\ reqs[r].stage \in {"done", "failed"}
    /\ reqs' = [reqs EXCEPT ![r] = Free]
    /\ IF reqs[r].mine
       THEN loading' = FALSE /\ inFlight' = FALSE
       ELSE UNCHANGED <<loading, inFlight>>
    /\ UNCHANGED <<keeper, session, loggedIn, holder, own, mounted, visible>>

-----------------------------------------------------------------------------
\* Keeper.

Arrive ==
    /\ last < MaxEvents /\ last' = last + 1
    /\ UNCHANGED <<first, newestFirst, session, loggedIn, holder, own, hook, reqs>>

Leave ==
    /\ first <= last /\ first' = first + 1
    /\ UNCHANGED <<last, newestFirst, session, loggedIn, holder, own, hook, reqs>>

Expire ==
    /\ session /\ session' = FALSE
    /\ own' = IF own = "valid" THEN "expired" ELSE own
    /\ UNCHANGED <<keeper, loggedIn, holder, hook, reqs>>

Next ==
    \/ Mount \/ Tick \/ Switch \/ Unmount \/ OtherTab
    \/ \E r \in Requests : \/ Enter(r) \/ Login(r) \/ CallFails(r) \/ Refused(r)
                           \/ GiveUp(r) \/ Read(r) \/ Answer(r)
    \/ Arrive \/ Leave \/ Expire

Spec == Init /\ [][Next]_vars

\* A call to Keeper ends, at the latest with the timeout of the client; Go's
\* mutex lets nobody wait for ever.
FairSpec ==
    /\ Spec
    /\ \A r \in Requests :
        /\ SF_vars(Enter(r))
        /\ WF_vars(Login(r) \/ CallFails(r) \/ Refused(r) \/ GiveUp(r) \/ Read(r))
        /\ WF_vars(Answer(r))

-----------------------------------------------------------------------------
\* Properties.

\* Every variable has its type; the hook's two flags agree, and what they say
\* is that exactly one request of this page is on its way.
TypeOK ==
    /\ first \in Nat /\ last \in Nat /\ newestFirst \in BOOLEAN
    /\ session \in BOOLEAN /\ loggedIn \in BOOLEAN
    /\ holder \in Requests \cup {Nobody}
    /\ own \in {"none", "valid", "expired"}
    /\ mounted \in BOOLEAN /\ visible \in BOOLEAN
    /\ loading \in BOOLEAN /\ inFlight = loading
    /\ reqs \in [Requests -> Request]
    /\ Cardinality({r \in Requests : reqs[r].mine}) = IF inFlight THEN 1 ELSE 0

\* An expired session alone never costs a page its statistics: the client gives
\* up only when the session it has just opened itself was ended before its call.
ExpiryHeals == [][\A r \in Requests : GiveUp(r) => own = "expired"]_vars

\* The readings of an event beyond its first.
Again(seen) == {x \in Events \X (1..MaxPages) : x[2] < seen[x[1]]}

Missed(seen, old) == {e \in first..old.last : seen[e] = 0}

\* Paging over a window that moves is off by what moved and no more: of the
\* events there from the first page to the last, at most as many are missed as
\* left meanwhile, and at most as many are counted twice as arrived.
Complete(r) == reqs[r].page < MaxPages \/ NumPages <= MaxPages

DriftBounded ==
    [][\A r \in Requests :
        Read(r) /\ reqs[r].mine /\ LastPage(reqs[r].page) /\ Complete(r) =>
            LET old  == reqs[r].since
                seen == SeenAfter(r)
            IN  /\ Cardinality(Missed(seen, old)) <= first - old.first
                /\ Cardinality(Again(seen)) <= last - old.last]_vars

\* Every request for statistics is answered, whoever expires or fails, and the
\* page does not stay loading.
Answered ==
    /\ \A r \in Requests : reqs[r].stage = "lock" ~> reqs[r].stage = "free"
    /\ loading ~> ~loading
=============================================================================
