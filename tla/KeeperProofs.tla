---------------------------- MODULE KeeperProofs ----------------------------
(***************************************************************************)
(* What the statistics guarantee for any number of requests, events and    *)
(* pages, whatever Keeper answers.                                         *)
(*                                                                         *)
(* That a refused session is not the client's fault rests on the mutex:    *)
(* nobody else logs in or out between the login of a request and its call, *)
(* so the session it opened is the one it asks under (Sessions).           *)
(*                                                                         *)
(* That paging over a moving window is off by no more than what moved      *)
(* rests on an edge that separates what has been read from what has not    *)
(* (NewestAt, OldestAt).  Newest first, everything from the edge on has    *)
(* been read, and what was read twice has been pushed down by arrivals.    *)
(* Oldest first, nothing from the edge on has been read, and what was      *)
(* skipped before it has been pulled up by what left.                      *)
(***************************************************************************)
EXTENDS Keeper, FiniteSetTheorems, TLAPS

Types ==
    /\ first \in Nat /\ last \in Nat /\ newestFirst \in BOOLEAN
    /\ session \in BOOLEAN /\ loggedIn \in BOOLEAN
    /\ holder \in Requests \cup {Nobody}
    /\ own \in {"none", "valid", "expired"}
    /\ mounted \in BOOLEAN /\ visible \in BOOLEAN
    /\ loading \in BOOLEAN /\ inFlight = loading
    /\ reqs \in [Requests -> Request]

\* A page adds one to the count of an event at most.
CountedIn(c) == \A e \in Events : c.seen[e] < c.page
Counted == \A r \in Requests : CountedIn(reqs[r])

\* The page's request is one, and inFlight says whether it is there.
OneMine ==
    /\ \A r \in Requests : reqs[r].stage = "free" => ~reqs[r].mine
    /\ \A r \in Requests : reqs[r].mine => inFlight
    /\ inFlight => \E r \in Requests : reqs[r].mine
    /\ \A r, q \in Requests : reqs[r].mine /\ reqs[q].mine => r = q

\* Only the holder of the mutex is inside get, and it enters without a login.
InTurn ==
    \A r \in Requests :
        /\ reqs[r].stage \in {"login", "ask"} => holder = r
        /\ reqs[r].stage = "lock" => ~reqs[r].again

\* A second attempt is made under a session the request opened itself.
Sessions ==
    /\ \A r \in Requests : reqs[r].stage = "ask" /\ reqs[r].again => own # "none"
    /\ own = "valid" => session

KeeperInv == Types /\ Counted /\ OneMine /\ InTurn /\ Sessions

USE KeeperAssumption

-----------------------------------------------------------------------------
\* A slot nobody uses has the type of a request.
LEMMA FreeType == /\ Free \in Request
                  /\ Free.stage = "free" /\ Free.mine = FALSE /\ Free.again = FALSE
                  /\ Free.page = 1 /\ CountedIn(Free)
<1>1. [e \in Events |-> 0] \in [Events -> 0..MaxPages]
  OBVIOUS
<1> QED BY <1>1 DEF Free, Request, Stages, CountedIn

\* The request of r is now c, the others are what they were.
Becomes(r, c) ==
    /\ reqs' \in [Requests -> Request]
    /\ reqs'[r] = c
    /\ \A q \in Requests : q # r => reqs'[q] = reqs[q]

\* Putting c in the place of one request does that.
LEMMA Replace ==
    ASSUME Types, NEW r \in Requests, NEW c \in Request, reqs' = [reqs EXCEPT ![r] = c]
    PROVE  Becomes(r, c)
  BY DEF Types, Becomes

\* The invariant holds before the first step.
LEMMA InitInv == Init => KeeperInv
<1> SUFFICES ASSUME Init PROVE KeeperInv
  OBVIOUS
<1>2. reqs \in [Requests -> Request] /\ \A r \in Requests : reqs[r] = Free
  BY FreeType DEF Init
<1>3. last \in Nat
  BY DEF Init
<1>1. Types
  BY <1>2, <1>3 DEF Init, Types
<1> QED BY <1>1, <1>2, FreeType
        DEF Init, KeeperInv, Counted, OneMine, InTurn, Sessions

-----------------------------------------------------------------------------
\* Sending, by the page and by others.

Sent(m) == [Free EXCEPT !.stage = "lock", !.mine = m,
               !.since = IF m THEN [first |-> first, last |-> last] ELSE Free.since]

\* A request just sent is inside nothing and has counted nothing.
LEMMA SentType ==
    ASSUME Types, NEW m \in BOOLEAN
    PROVE  /\ Sent(m) \in Request
           /\ Sent(m).stage = "lock" /\ Sent(m).mine = m /\ Sent(m).again = FALSE
           /\ Sent(m).page = 1 /\ CountedIn(Sent(m))
<1>1. Free.since \in [first : Nat, last : Nat]
  BY DEF Free
<1>2. /\ Sent(m) \in Request /\ Sent(m).seen = Free.seen
      /\ Sent(m).stage = "lock" /\ Sent(m).mine = m /\ Sent(m).again = FALSE
      /\ Sent(m).page = 1
  BY FreeType, <1>1 DEF Sent, Types, Request, Stages
<1> QED BY FreeType, <1>2 DEF CountedIn

\* Sending keeps the invariant: the page sends only while it waits for nothing.
LEMMA SendKeeps ==
    ASSUME KeeperInv, NEW m \in BOOLEAN, Send(m),
           UNCHANGED <<keeper, session, loggedIn, holder, own>>,
           mounted' \in BOOLEAN, visible' \in BOOLEAN,
           IF m THEN ~inFlight /\ loading' = TRUE /\ inFlight' = TRUE
                ELSE UNCHANGED <<loading, inFlight>>
    PROVE  KeeperInv'
<1>1. PICK r \in Requests : reqs[r].stage = "free" /\ reqs' = [reqs EXCEPT ![r] = Sent(m)]
  BY DEF Send, Sent
<1>2. Becomes(r, Sent(m))
  BY <1>1, SentType, Replace DEF KeeperInv
<1>3. Types'
  BY <1>2 DEF KeeperInv, Types, Becomes, keeper
<1>4. Counted'
  BY <1>2, SentType DEF KeeperInv, Counted, Becomes
<1>5. OneMine'
  BY <1>1, <1>2, SentType DEF KeeperInv, OneMine, Becomes
<1>6. InTurn' /\ Sessions'
  BY <1>2, SentType DEF KeeperInv, InTurn, Sessions, Becomes
<1> QED BY <1>3, <1>4, <1>5, <1>6 DEF KeeperInv

\* The page comes, goes, polls and is shown or hidden.
LEMMA HookKeeps == KeeperInv /\ (Mount \/ Tick \/ Switch \/ Unmount \/ OtherTab) => KeeperInv'
<1> SUFFICES ASSUME KeeperInv, Mount \/ Tick \/ Switch \/ Unmount \/ OtherTab
             PROVE  KeeperInv'
  OBVIOUS
<1>1. ASSUME UNCHANGED <<keeper, session, loggedIn, holder, own, loading, inFlight, reqs>>,
             mounted' \in BOOLEAN, visible' \in BOOLEAN
      PROVE  KeeperInv'
  BY <1>1 DEF KeeperInv, Types, Counted, OneMine, InTurn, Sessions, keeper
<1>2. ASSUME Pull, UNCHANGED <<keeper, session, loggedIn, holder, own>>,
             mounted' \in BOOLEAN, visible' \in BOOLEAN
      PROVE  KeeperInv'
  BY <1>1, <1>2, SendKeeps DEF Pull
<1>3. CASE Mount
  BY <1>2, <1>3 DEF Mount, KeeperInv, Types
<1>4. CASE Tick
  BY <1>2, <1>4 DEF Tick, KeeperInv, Types
<1>5. CASE Switch
  BY <1>1, <1>2, <1>5 DEF Switch, KeeperInv, Types
<1>6. CASE OtherTab
  BY <1>6, SendKeeps DEF OtherTab, hook, KeeperInv, Types
<1>7. CASE Unmount
  <2> DEFINE left(r) == [Free EXCEPT !.stage = reqs[r].stage, !.again = reqs[r].again,
                                     !.page = reqs[r].page]
  <2>1. \A r \in Requests :
            /\ left(r) \in Request
            /\ left(r).stage = reqs[r].stage /\ left(r).mine = FALSE
            /\ left(r).again = reqs[r].again /\ left(r).page = reqs[r].page
            /\ left(r).seen = Free.seen
    <3>1. \A r \in Requests : reqs[r] \in Request
      BY DEF KeeperInv, Types
    <3> QED BY <3>1, FreeType DEF Request
  <2>2. reqs' = [r \in Requests |-> left(r)]
    BY <1>7 DEF Unmount
  <2> HIDE DEF left
  <2>7. reqs' \in [Requests -> Request] /\ \A r \in Requests : reqs'[r] = left(r)
    BY <2>1, <2>2
  <2>3. Types'
    BY <1>7, <2>7 DEF Unmount, KeeperInv, Types, keeper
  <2>4. Counted'
    <3>1. \A r \in Requests : reqs[r].page \in Nat /\ reqs[r].page >= 1
      BY DEF KeeperInv, Types, Request
    <3>2. \A e \in Events : Free.seen[e] = 0
      BY DEF Free
    <3> QED BY <2>1, <2>7, <3>1, <3>2 DEF Counted, CountedIn
  <2>5. OneMine'
    BY <1>7, <2>1, <2>7 DEF Unmount, OneMine
  <2>6. InTurn' /\ Sessions'
    <3>1. \A r \in Requests : reqs'[r].stage = reqs[r].stage /\ reqs'[r].again = reqs[r].again
      BY <2>1, <2>7
    <3>2. InTurn'
      BY <1>7, <3>1 DEF Unmount, KeeperInv, InTurn
    <3>3. Sessions'
      BY <1>7, <3>1 DEF Unmount, KeeperInv, Sessions
    <3> QED BY <3>2, <3>3
  <2> QED BY <2>3, <2>4, <2>5, <2>6 DEF KeeperInv
<1> QED BY <1>3, <1>4, <1>5, <1>6, <1>7

-----------------------------------------------------------------------------
\* Inside get.

Ended(r) == [Free EXCEPT !.stage = "failed", !.mine = reqs[r].mine]
Delivered(r) == [Free EXCEPT !.stage = "done", !.mine = reqs[r].mine]

\* A request that is over is still the page's, if it was.
LEMMA OverType ==
    ASSUME Types, NEW r \in Requests, NEW c \in {Ended(r), Delivered(r)}
    PROVE  /\ c \in Request /\ c.stage \in {"failed", "done"}
           /\ c.mine = reqs[r].mine /\ c.again = FALSE
           /\ CountedIn(c)
<1>1. reqs[r].mine \in BOOLEAN
  BY DEF Types, Request
<1>2. ASSUME NEW stage \in {"failed", "done"},
             c = [Free EXCEPT !.stage = stage, !.mine = reqs[r].mine]
      PROVE  /\ c \in Request /\ c.stage = stage
             /\ c.mine = reqs[r].mine /\ c.again = FALSE
             /\ c.page = Free.page /\ c.seen = Free.seen
  BY <1>1, <1>2, FreeType DEF Request, Stages
<1> QED BY <1>2, FreeType DEF Ended, Delivered, CountedIn

\* The holder leaves with its request over.
LEMMA LeaveKeeps ==
    ASSUME KeeperInv, NEW r \in Requests, NEW c \in {Ended(r), Delivered(r)},
           reqs' = [reqs EXCEPT ![r] = c], reqs[r].stage \in {"login", "ask"},
           holder' = Nobody, loggedIn' \in BOOLEAN, UNCHANGED <<keeper, session, own, hook>>
    PROVE  KeeperInv'
<1>0. /\ c \in Request /\ c.stage \in {"failed", "done"}
      /\ c.mine = reqs[r].mine /\ c.again = FALSE
      /\ CountedIn(c)
  BY OverType DEF KeeperInv
<1>1. Becomes(r, c)
  BY <1>0, Replace DEF KeeperInv
<1>2. Types'
  BY <1>1 DEF KeeperInv, Types, Becomes, keeper, hook
<1>3. Counted'
  BY <1>0, <1>1 DEF KeeperInv, Counted, Becomes
<1>4. OneMine'
  BY <1>0, <1>1 DEF KeeperInv, OneMine, Becomes, hook
<1>5. InTurn' /\ Sessions'
  BY <1>0, <1>1 DEF KeeperInv, InTurn, Sessions, Becomes
<1> QED BY <1>2, <1>3, <1>4, <1>5 DEF KeeperInv

\* A request moves on inside get: same owner, same count.
LEMMA MoveKeeps ==
    ASSUME KeeperInv, NEW r \in Requests, NEW stage \in {"login", "ask"}, NEW again \in BOOLEAN,
           reqs' = [reqs EXCEPT ![r] = [reqs[r] EXCEPT !.stage = stage, !.again = again]],
           reqs[r].stage # "free",
           holder' = r, \A q \in Requests : q # r => reqs[q].stage \notin {"login", "ask"},
           session' \in BOOLEAN, loggedIn' \in BOOLEAN, own' \in {"none", "valid", "expired"},
           own' = "valid" => session', stage = "ask" /\ again => own' # "none",
           UNCHANGED <<keeper, hook>>
    PROVE  KeeperInv'
<1> DEFINE c == [reqs[r] EXCEPT !.stage = stage, !.again = again]
<1>0. reqs[r] \in Request
  BY DEF KeeperInv, Types
<1>1. /\ c \in Request /\ c.stage = stage /\ c.mine = reqs[r].mine /\ c.again = again
      /\ c.page = reqs[r].page /\ c.seen = reqs[r].seen
  BY <1>0 DEF Request, Stages
<1> HIDE DEF c
<1>2. Becomes(r, c)
  BY <1>1, Replace DEF KeeperInv, c
<1>3. Types'
  BY <1>2 DEF KeeperInv, Types, Becomes, keeper, hook
<1>4. Counted'
  BY <1>1, <1>2 DEF KeeperInv, Counted, CountedIn, Becomes
<1>5. OneMine'
  BY <1>1, <1>2 DEF KeeperInv, OneMine, Becomes, hook
<1>6. InTurn' /\ Sessions'
  BY <1>1, <1>2 DEF KeeperInv, InTurn, Sessions, Becomes
<1> QED BY <1>3, <1>4, <1>5, <1>6 DEF KeeperInv

\* A page has been read, and there is another.
LEMMA ReadKeeps ==
    ASSUME KeeperInv, NEW r \in Requests, Read(r)
    PROVE  KeeperInv'
<1>0. reqs[r] \in Request /\ reqs[r].stage = "ask"
  BY DEF Read, KeeperInv, Types
<1>1. CASE LastPage(reqs[r].page)
  <2>1. reqs' = [reqs EXCEPT ![r] = Delivered(r)]
    BY <1>1 DEF Read, Delivered
  <2> QED BY <1>0, <2>1, LeaveKeeps DEF Read, KeeperInv, Types
<1>2. CASE ~LastPage(reqs[r].page)
  <2> DEFINE p == reqs[r].page + 1
             seen == IF reqs[r].mine THEN SeenAfter(r) ELSE reqs[r].seen
             c == [reqs[r] EXCEPT !.stage = "lock", !.page = p, !.again = FALSE, !.seen = seen]
  <2>1. reqs' = [reqs EXCEPT ![r] = c]
    BY <1>2 DEF Read
  <2>2. p \in 1..MaxPages /\ reqs[r].page \in Nat
    BY <1>0, <1>2 DEF LastPage, Request
  <2>3. \A e \in Events : reqs[r].seen[e] \in Nat /\ reqs[r].seen[e] < reqs[r].page
    BY <1>0 DEF KeeperInv, Counted, CountedIn, Request
  <2>4. \A e \in Events : seen[e] \in 0..MaxPages /\ seen[e] < p
    BY <2>2, <2>3 DEF SeenAfter
  <2>5. seen \in [Events -> 0..MaxPages]
    BY <1>0, <2>4 DEF SeenAfter, Request
  <2> HIDE DEF p, seen
  <2>6. /\ c \in Request /\ c.stage = "lock" /\ c.mine = reqs[r].mine /\ c.again = FALSE
        /\ c.page = p /\ c.seen = seen
    BY <1>0, <2>2, <2>5 DEF Request, Stages
  <2>7. Becomes(r, c)
    BY <2>1, <2>6, Replace DEF KeeperInv
  <2> HIDE DEF c
  <2>8. Types'
    BY <2>7 DEF Read, KeeperInv, Types, Becomes, keeper, hook
  <2>9. Counted'
    BY <2>4, <2>6, <2>7 DEF KeeperInv, Counted, CountedIn, Becomes
  <2>10. OneMine'
    BY <1>0, <2>6, <2>7 DEF Read, KeeperInv, OneMine, Becomes, hook
  <2>11. InTurn' /\ Sessions'
    BY <1>0, <2>6, <2>7 DEF Read, KeeperInv, InTurn, Sessions, Becomes
  <2> QED BY <2>8, <2>9, <2>10, <2>11 DEF KeeperInv
<1> QED BY <1>1, <1>2

\* Every step of a request keeps the invariant.
LEMMA RequestKeeps ==
    ASSUME KeeperInv, NEW r \in Requests,
           \/ Enter(r) \/ Login(r) \/ CallFails(r) \/ Refused(r)
           \/ GiveUp(r) \/ Read(r) \/ Answer(r)
    PROVE  KeeperInv'
<1>0. reqs[r] \in Request
  BY DEF KeeperInv, Types
\* Whoever is inside is alone there.
<1>1. reqs[r].stage \in {"login", "ask"} =>
          holder = r /\ \A q \in Requests : q # r => reqs[q].stage \notin {"login", "ask"}
  BY DEF KeeperInv, InTurn
<1>2. CASE Enter(r)
  <2> DEFINE stage == IF loggedIn THEN "ask" ELSE "login"
  <2>1. ~reqs[r].again /\ reqs[r].stage = "lock"
    BY <1>2 DEF Enter, KeeperInv, InTurn
  <2>2. reqs' = [reqs EXCEPT ![r] = [reqs[r] EXCEPT !.stage = stage, !.again = FALSE]]
    BY <1>0, <1>2, <2>1 DEF Enter, Request
  <2>3. \A q \in Requests : reqs[q].stage \notin {"login", "ask"}
    BY <1>2 DEF Enter, KeeperInv, InTurn
  <2> QED BY <1>2, <2>1, <2>2, <2>3, MoveKeeps DEF Enter, KeeperInv, Types
<1>3. CASE Login(r)
  <2>1. reqs' = [reqs EXCEPT ![r] = [reqs[r] EXCEPT !.stage = "ask", !.again = reqs[r].again]]
    BY <1>0, <1>3 DEF Login, Request
  <2>2. reqs[r].again \in BOOLEAN
    BY <1>0 DEF Request
  <2> QED BY <1>1, <1>3, <2>1, <2>2, MoveKeeps DEF Login, KeeperInv, Types
<1>4. CASE CallFails(r)
  BY <1>4, LeaveKeeps DEF CallFails, Fail, Ended, KeeperInv, Types
<1>5. CASE Refused(r)
  <2>1. reqs' = [reqs EXCEPT ![r] = [reqs[r] EXCEPT !.stage = "login", !.again = TRUE]]
    BY <1>0, <1>5 DEF Refused, KeeperInv, Types
  <2> QED BY <1>1, <1>5, <2>1, MoveKeeps DEF Refused, KeeperInv, Types, Sessions
<1>6. CASE GiveUp(r)
  BY <1>6, LeaveKeeps DEF GiveUp, Fail, Ended
<1>7. CASE Read(r)
  BY <1>7, ReadKeeps
<1>8. CASE Answer(r)
  <2>1. Becomes(r, Free)
    BY <1>8, FreeType, Replace DEF Answer, KeeperInv
  <2>2. Types'
    BY <1>8, <2>1 DEF Answer, KeeperInv, Types, Becomes, keeper
  <2>3. Counted'
    BY <2>1, FreeType DEF KeeperInv, Counted, Becomes
  <2>4. OneMine'
    BY <1>8, <2>1, FreeType DEF Answer, KeeperInv, OneMine, Becomes
  <2>5. InTurn' /\ Sessions'
    BY <1>8, <2>1, FreeType DEF Answer, KeeperInv, InTurn, Sessions, Becomes
  <2> QED BY <2>2, <2>3, <2>4, <2>5 DEF KeeperInv
<1> QED BY <1>2, <1>3, <1>4, <1>5, <1>6, <1>7, <1>8

\* So does whatever Keeper does, and so does every step.
LEMMA StepInv == KeeperInv /\ [Next]_vars => KeeperInv'
<1> SUFFICES ASSUME KeeperInv, [Next]_vars PROVE KeeperInv'
  OBVIOUS
<1>1. CASE Arrive \/ Leave
  BY <1>1 DEF Arrive, Leave, hook, KeeperInv, Types, Counted, OneMine, InTurn, Sessions
<1>2. CASE Expire
  BY <1>2 DEF Expire, hook, keeper, KeeperInv, Types, Counted, OneMine, InTurn, Sessions
<1>3. CASE UNCHANGED vars
  BY <1>3 DEF vars, KeeperInv, Types, Counted, OneMine, InTurn, Sessions
<1> QED BY <1>1, <1>2, <1>3, HookKeeps, RequestKeeps DEF Next

\* The invariant holds in every behaviour.
LEMMA InvHolds == Spec => []KeeperInv
  BY InitInv, StepInv, PTL DEF Spec

-----------------------------------------------------------------------------
\* What follows from it.

\* Every variable keeps its type, and the hook's flags say that one request of
\* the page is on its way, or none (inFlight in useStats, however often the
\* page goes and comes back).
THEOREM KeeperTypeCorrect == Spec => []TypeOK
<1>1. ASSUME KeeperInv PROVE TypeOK
  <2> DEFINE mine == {r \in Requests : reqs[r].mine}
  <2>1. CASE inFlight
    <3>1. PICK r \in Requests : mine = {r}
      BY <1>1, <2>1 DEF KeeperInv, OneMine
    <3> QED BY <1>1, <2>1, <3>1, FS_Singleton DEF KeeperInv, Types, TypeOK
  <2>2. CASE ~inFlight
    <3>1. mine = {}
      BY <1>1, <2>2 DEF KeeperInv, OneMine
    <3> QED BY <1>1, <2>2, <3>1, FS_EmptySet DEF KeeperInv, Types, TypeOK
  <2> QED BY <2>1, <2>2
<1> QED BY <1>1, InvHolds, PTL

\* A session that expired alone never costs a page its statistics, however many
\* requests share it (the retry of Client.get, under its mutex).
THEOREM ExpiryHealed == Spec => ExpiryHeals
<1>1. ASSUME KeeperInv, NEW r \in Requests, GiveUp(r) PROVE own = "expired"
  BY <1>1 DEF GiveUp, KeeperInv, Sessions, Types
<1>2. KeeperInv /\ [Next]_vars => [\A r \in Requests : GiveUp(r) => own = "expired"]_vars
  BY <1>1
<1> QED BY <1>2, InvHolds, PTL DEF Spec, ExpiryHeals

-----------------------------------------------------------------------------
\* Pages: the arithmetic.

\* How many events are listed before page p.
Before(p) == (p - 1) * PageSize

\* The next page begins one page later.
LEMMA BeforeNext ==
    ASSUME NEW p \in Nat \ {0}
    PROVE  Before(p) \in Nat /\ Before(p + 1) = Before(p) + PageSize
  BY DEF Before

\* An event is on page p when its place is one of those of the page.
LEMMA PageSpan ==
    ASSUME NEW a \in Nat, NEW p \in Nat \ {0}
    PROVE  (a \div PageSize) + 1 = p <=> Before(p) <= a /\ a < Before(p) + PageSize
<1> DEFINE n == PageSize
           q == a \div n
<1>0. n \in Nat \ {0}
  OBVIOUS
<1> HIDE DEF n
<1>1. q \in Nat /\ n * q <= a /\ a < n * q + n
  BY <1>0
<1> HIDE DEF q
<1>2. \A x, y \in Int : x < y => n * x + n <= n * y
  BY <1>0
<1>3. n * (p - 1) = Before(p) /\ p - 1 \in Int
  BY <1>0 DEF Before, n
<1>4. CASE q < p - 1
  BY <1>0, <1>1, <1>2, <1>3, <1>4 DEF q, n
<1>5. CASE q > p - 1
  BY <1>0, <1>1, <1>2, <1>3, <1>5 DEF q, n
<1>6. CASE q = p - 1
  BY <1>0, <1>1, <1>3, <1>6 DEF q, n
<1> QED BY <1>1, <1>4, <1>5, <1>6

\* Keeper lists some of its events.
InWindow == first \in Nat \ {0} /\ first <= last + 1 /\ last <= MaxEvents

\* The events of a page, by their places in the order Keeper lists them.
LEMMA OnPage ==
    ASSUME Types, InWindow, NEW p \in Nat \ {0}, NEW e
    PROVE  e \in EventsOn(p) <=>
             /\ e \in first..last
             /\ LET a == IF newestFirst THEN last - e ELSE e - first
                IN  Before(p) <= a /\ a < Before(p) + PageSize
<1> SUFFICES ASSUME e \in first..last
             PROVE  PageOf(e) = p <=>
                      LET a == IF newestFirst THEN last - e ELSE e - first
                      IN  Before(p) <= a /\ a < Before(p) + PageSize
  BY DEF EventsOn
<1>1. (IF newestFirst THEN last - e ELSE e - first) \in Nat
  BY DEF Types, InWindow
<1> QED BY <1>1, PageSpan DEF PageOf

\* Where the client stops, it has asked for every event of the window.
LEMMA AllListed ==
    ASSUME Types, InWindow, NEW p \in Nat \ {0}, LastPage(p),
           p < MaxPages \/ NumPages <= MaxPages
    PROVE  last + 1 <= first + Before(p + 1)
<1>0. Before(p) \in Nat /\ Before(p + 1) = Before(p) + PageSize
  BY BeforeNext
<1>1. CASE NumPages <= p
  <2> DEFINE n == PageSize
             a == last - first + n
             q == a \div n
  <2>1. n \in Nat \ {0} /\ a \in Nat
    BY DEF Types, InWindow
  <2>2. NumPages = q
    BY <2>1 DEF NumPages, Listed, Types, InWindow
  <2> HIDE DEF n
  <2>3. q \in Nat /\ a < n * q + n
    BY <2>1
  <2> HIDE DEF q
  <2>4. n * q <= n * p
    BY <1>1, <2>1, <2>2, <2>3
  <2>5. n * p = Before(p + 1)
    BY <2>1 DEF Before, n
  <2>6. n * q \in Int /\ n * p \in Int
    BY <2>1, <2>3
  <2> QED BY <1>0, <2>1, <2>3, <2>4, <2>5, <2>6 DEF Types, InWindow
<1>2. CASE EventsOn(p) = {}
  <2> DEFINE e == IF newestFirst THEN last - Before(p) ELSE first + Before(p)
  <2>1. e \notin EventsOn(p)
    BY <1>2
  <2>2. e \in Int
    BY <1>0 DEF Types, InWindow
  <2>3. e \notin first..last
    <3>1. (IF newestFirst THEN last - e ELSE e - first) = Before(p)
      BY <1>0 DEF Types, InWindow
    <3>2. \A a : a = Before(p) => Before(p) <= a /\ a < Before(p) + PageSize
      BY <1>0
    <3> HIDE DEF e
    <3> QED BY <2>1, <3>1, <3>2, OnPage
  <2> QED BY <1>0, <2>2, <2>3 DEF Types, InWindow
<1> QED BY <1>1, <1>2 DEF LastPage

-----------------------------------------------------------------------------
\* Pages: what has been read.

\* Repetitions can be counted.
LEMMA AgainCount ==
    ASSUME NEW seen
    PROVE  IsFiniteSet(Again(seen)) /\ Cardinality(Again(seen)) \in Nat
<1>1. IsFiniteSet(Events) /\ IsFiniteSet(1..MaxPages)
  BY FS_Interval DEF Events
<1>2. IsFiniteSet(Events \X (1..MaxPages))
  BY <1>1, FS_Product
<1>3. IsFiniteSet(Again(seen))
  BY <1>2, FS_Subset DEF Again
<1> QED BY <1>3, FS_CardinalityType

\* Reading the events of page repeats those of them that were read before.
LEMMA AgainAfter ==
    ASSUME NEW seen \in [Events -> 0..MaxPages], NEW after \in [Events -> 0..MaxPages],
           NEW page, NEW d \in Nat, NEW a \in Int, NEW b \in Int,
           \A e \in Events : after[e] = seen[e] + IF e \in page THEN 1 ELSE 0,
           \A e \in Events : e \in page /\ seen[e] > 0 => e \in a..b,
           b - a + 1 <= d
    PROVE  Cardinality(Again(after)) <= Cardinality(Again(seen)) + d
<1> DEFINE D == {e \in Events : e \in page /\ seen[e] > 0}
           T == {<<e, seen[e]>> : e \in D}
           f == [e \in D |-> <<e, seen[e]>>]
<1>1. IsFiniteSet(D) /\ Cardinality(D) <= d
  <2>1. IsFiniteSet(a..b) /\ Cardinality(a..b) <= d
    BY FS_Interval
  <2>2. D \in SUBSET (a..b)
    OBVIOUS
  <2>3. IsFiniteSet(D) /\ Cardinality(D) <= Cardinality(a..b)
    BY <2>1, <2>2, FS_Subset
  <2>4. Cardinality(D) \in Nat /\ Cardinality(a..b) \in Nat
    BY <2>1, <2>3, FS_CardinalityType
  <2> QED BY <2>1, <2>3, <2>4
<1>2. IsFiniteSet(T) /\ Cardinality(T) <= Cardinality(D)
  <2>1. f \in Surjection(D, T)
    BY DEF Surjection
  <2> HIDE DEF D, T, f
  <2> QED BY <1>1, <2>1, FS_Surjection
<1>3. Again(after) \in SUBSET (Again(seen) \cup T)
  <2> SUFFICES ASSUME NEW e \in Events, NEW n \in 1..MaxPages, n < after[e], ~(n < seen[e])
               PROVE  <<e, n>> \in T
    BY DEF Again
  <2>1. e \in page /\ n = seen[e]
    OBVIOUS
  <2>2. e \in D
    BY <2>1
  <2> QED BY <2>1, <2>2
<1> HIDE DEF D, T, f
<1>4. IsFiniteSet(Again(seen)) /\ Cardinality(Again(seen)) \in Nat /\ Cardinality(Again(after)) \in Nat
  BY AgainCount
<1>5. /\ IsFiniteSet(Again(seen) \cup T) /\ Cardinality(Again(seen) \cup T) \in Nat
      /\ Cardinality(Again(seen) \cup T)
           = Cardinality(Again(seen)) + Cardinality(T) - Cardinality(Again(seen) \cap T)
  BY <1>2, <1>4, FS_Union, FS_CardinalityType
<1>6. Cardinality(Again(seen) \cap T) \in Nat
  BY <1>4, FS_Intersection, FS_CardinalityType
<1>7. Cardinality(Again(after)) <= Cardinality(Again(seen) \cup T)
  BY <1>3, <1>5, FS_Subset
<1>8. Cardinality(D) \in Nat /\ Cardinality(T) \in Nat
  BY <1>1, <1>2, FS_CardinalityType
<1> QED BY <1>1, <1>2, <1>4, <1>5, <1>6, <1>7, <1>8

\* Newest first, over the window f..l, of which the first before places have
\* been read: lo and what follows has been read, and what was read twice has
\* been pushed down by events that arrived.
NewestAt(lo, f, l, seen, before, old) ==
    /\ lo \in Int /\ lo + before <= l + 1
    /\ \A e \in Events : seen[e] > 0 => e >= lo
    /\ \A e \in f..old.last : e >= lo => seen[e] > 0
    /\ Cardinality(Again(seen)) <= lo + before - 1 - old.last

\* The events before hi that were to be read and have been skipped.
Skipped(hi, f, seen, old) == {e \in f..old.last : seen[e] = 0 /\ e < hi}

\* Oldest first: nothing from hi on has been read, nothing twice, and what has
\* been skipped was pulled up by events that left.
OldestAt(hi, f, seen, before, old) ==
    /\ hi \in Int /\ hi - before <= f
    /\ \A e \in Events : seen[e] > 0 => seen[e] = 1 /\ e < hi
    /\ Cardinality(Skipped(hi, f, seen, old)) <= hi - before - old.first

\* A request has read so much of a window that was old when it was sent.
Paged(newest, f, l, seen, before, old) ==
    /\ old.first <= f /\ old.last <= l
    /\ IF newest THEN \E lo : NewestAt(lo, f, l, seen, before, old)
                 ELSE \E hi : OldestAt(hi, f, seen, before, old)

\* The next page, newest first.
LEMMA NewestRead ==
    ASSUME Types, InWindow, newestFirst, NEW p \in Nat \ {0}, NEW lo,
           NEW seen \in [Events -> 0..MaxPages], NEW after \in [Events -> 0..MaxPages],
           \A e \in Events : after[e] = seen[e] + IF e \in EventsOn(p) THEN 1 ELSE 0,
           NEW old \in [first : Nat, last : Nat], old.last <= last,
           NewestAt(lo, first, last, seen, Before(p), old)
    PROVE  \E next : NewestAt(next, first, last, after, Before(p + 1), old)
<1> DEFINE b    == Before(p)
           n    == PageSize
           edge == last - b - n + 1
           next == IF edge <= lo THEN edge ELSE lo
<1>0. /\ first \in Nat \ {0} /\ last \in Nat /\ last <= MaxEvents
      /\ b \in Nat /\ n \in Nat \ {0} /\ Before(p + 1) = b + n
      /\ old.first \in Nat /\ old.last \in Nat /\ MaxEvents \in Nat
  BY BeforeNext DEF Types, InWindow
<1>1. /\ lo \in Int /\ lo + b <= last + 1
      /\ \A e \in Events : seen[e] > 0 => e >= lo
      /\ \A e \in first..old.last : e >= lo => seen[e] > 0
      /\ Cardinality(Again(seen)) <= lo + b - 1 - old.last
  BY DEF NewestAt
<1>2. \A e : e \in EventsOn(p) <=> e \in first..last /\ edge <= e /\ e <= last - b
  <2> TAKE e
  <2>1. e \in EventsOn(p) <=> e \in first..last /\ b <= last - e /\ last - e < b + n
    BY OnPage
  <2> QED BY <1>0, <2>1
<1> HIDE DEF b, n
<1>3. edge \in Int /\ next \in Int /\ next <= lo /\ next <= edge
  BY <1>0, <1>1
<1>4. next + (b + n) <= last + 1
  BY <1>0, <1>1
<1>5. ASSUME NEW e \in Events, after[e] > 0
      PROVE  e >= next
  <2>1. e \in EventsOn(p) \/ seen[e] > 0
    <3>1. after[e] = seen[e] + (IF e \in EventsOn(p) THEN 1 ELSE 0) /\ seen[e] \in Nat
      BY <1>0
    <3> QED BY <1>5, <3>1
  <2>2. e \in Int
    BY <1>0 DEF Events
  <2>3. e \in EventsOn(p) => edge <= e
    BY <1>2
  <2>4. seen[e] > 0 => e >= lo
    BY <1>1
  <2> HIDE DEF next, edge
  <2> QED BY <1>1, <1>3, <2>1, <2>2, <2>3, <2>4
<1>6. ASSUME NEW e \in first..old.last, e >= next
      PROVE  after[e] > 0
  <2>1. e \in Events /\ e \in first..last
    BY <1>0 DEF Events
  <2>2. CASE e >= lo
    BY <1>1, <2>1, <2>2
  <2>3. CASE ~(e >= lo)
    <3>1. edge <= e /\ e <= last - b
      BY <1>0, <1>1, <1>3, <1>6, <2>1, <2>3
    <3> QED BY <1>2, <2>1, <3>1
  <2> QED BY <2>2, <2>3
<1>7. Cardinality(Again(seen)) \in Nat /\ Cardinality(Again(after)) \in Nat
  BY AgainCount
<1>8. Cardinality(Again(after)) <= next + (b + n) - 1 - old.last
  <2>1. CASE edge <= lo
    <3>1. \A e \in Events : e \in EventsOn(p) /\ seen[e] > 0 => e \in lo..(last - b)
      BY <1>0, <1>1, <1>2 DEF Events
    <3> DEFINE d == last - b - lo + 1
    <3>2. last - b \in Int /\ lo \in Int /\ d \in Nat /\ (last - b) - lo + 1 <= d
      BY <1>0, <1>1
    <3>3. d = last - b - lo + 1
      OBVIOUS
    <3> HIDE DEF d
    <3>4. Cardinality(Again(after)) <= Cardinality(Again(seen)) + d
      BY <3>1, <3>2, AgainAfter
    <3> QED BY <1>0, <1>1, <1>7, <2>1, <3>2, <3>3, <3>4
  <2>2. CASE ~(edge <= lo)
    <3>1. \A e \in Events : e \in EventsOn(p) /\ seen[e] > 0 => e \in edge..(last - b)
      BY <1>0, <1>2 DEF Events
    <3>2. last - b \in Int /\ last - b - edge + 1 <= n
      BY <1>0
    <3>3. Cardinality(Again(after)) <= Cardinality(Again(seen)) + n
      BY <1>0, <1>3, <3>1, <3>2, AgainAfter
    <3> QED BY <1>0, <1>1, <1>7, <2>2, <3>3
  <2> QED BY <2>1, <2>2
<1> HIDE DEF next
<1> QED BY <1>0, <1>3, <1>4, <1>5, <1>6, <1>8 DEF NewestAt

\* The next page, oldest first.
LEMMA OldestRead ==
    ASSUME Types, InWindow, ~newestFirst, NEW p \in Nat \ {0}, NEW hi,
           NEW seen \in [Events -> 0..MaxPages], NEW after \in [Events -> 0..MaxPages],
           \A e \in Events : after[e] = seen[e] + IF e \in EventsOn(p) THEN 1 ELSE 0,
           NEW old \in [first : Nat, last : Nat], old.last <= last,
           OldestAt(hi, first, seen, Before(p), old)
    PROVE  OldestAt(first + Before(p + 1), first, after, Before(p + 1), old)
<1> DEFINE b    == Before(p)
           n    == PageSize
           next == first + (b + n)
           S    == Skipped(hi, first, seen, old)
           T    == Skipped(next, first, after, old)
<1>0. /\ first \in Nat \ {0} /\ last \in Nat /\ last <= MaxEvents
      /\ b \in Nat /\ n \in Nat \ {0} /\ Before(p + 1) = b + n
      /\ old.first \in Nat /\ old.last \in Nat /\ MaxEvents \in Nat
  BY BeforeNext DEF Types, InWindow
<1>1. /\ hi \in Int /\ hi - b <= first
      /\ \A e \in Events : seen[e] > 0 => seen[e] = 1 /\ e < hi
      /\ Cardinality(S) <= hi - b - old.first
  BY DEF OldestAt
<1>2. \A e : e \in EventsOn(p) <=> e \in first..last /\ first + b <= e /\ e < next
  <2> TAKE e
  <2>1. e \in EventsOn(p) <=> e \in first..last /\ b <= e - first /\ e - first < b + n
    BY OnPage
  <2> QED BY <1>0, <2>1
<1>3. \A e \in Events : /\ e \in Int /\ seen[e] \in Nat
                        /\ after[e] = seen[e] + (IF e \in EventsOn(p) THEN 1 ELSE 0)
  BY <1>0 DEF Events
<1>4. next \in Int /\ next - (b + n) = first
  BY <1>0
<1> HIDE DEF b, n
<1>5. ASSUME NEW e \in Events, after[e] > 0
      PROVE  after[e] = 1 /\ e < next
  <2>1. CASE e \in EventsOn(p)
    <3>1. first + b <= e /\ e < next
      BY <1>2, <2>1
    <3>2. ~(e < hi)
      BY <1>0, <1>1, <1>3, <3>1
    <3>3. ~(seen[e] > 0)
      BY <1>1, <3>2
    <3> HIDE DEF next
    <3> QED BY <1>3, <2>1, <3>1, <3>3
  <2>2. CASE e \notin EventsOn(p)
    <3>1. after[e] = seen[e]
      BY <1>3, <2>2
    <3>2. seen[e] = 1 /\ e < hi
      BY <1>1, <1>5, <3>1
    <3> QED BY <1>0, <1>1, <1>3, <3>1, <3>2
  <2> QED BY <2>1, <2>2
<1>6. Cardinality(T) <= next - (b + n) - old.first
  <2> DEFINE G == hi..(first + b - 1)
  <2>1. IsFiniteSet(G) /\ Cardinality(G) = first + b - hi /\ Cardinality(G) \in Nat
    <3> DEFINE z == first + b - 1
    <3>1. z \in Int /\ hi <= z + 1 /\ z = first + b - 1 /\ G = hi..z
      BY <1>0, <1>1
    <3> HIDE DEF z, G
    <3>2. IsFiniteSet(G) /\ Cardinality(G) = IF hi > z THEN 0 ELSE z - hi + 1
      BY <1>1, <3>1, FS_Interval
    <3> QED BY <1>0, <1>1, <3>1, <3>2
  <2>2. IsFiniteSet(S) /\ Cardinality(S) \in Nat
    <3>1. IsFiniteSet(first..old.last)
      BY <1>0, FS_Interval
    <3>2. S \in SUBSET (first..old.last)
      BY DEF Skipped
    <3> QED BY <3>1, <3>2, FS_Subset, FS_CardinalityType
  <2>3. T \in SUBSET (S \cup G)
    <3> SUFFICES ASSUME NEW e \in first..old.last, after[e] = 0, e < next, e \notin S
                 PROVE  e \in G
      BY DEF Skipped
    <3>1. e \in Events /\ e \in first..last
      BY <1>0 DEF Events
    <3>2. seen[e] \in Nat /\ after[e] = seen[e] + (IF e \in EventsOn(p) THEN 1 ELSE 0)
      BY <1>3, <3>1
    <3>3. e \notin EventsOn(p)
      BY <3>2
    <3>4. ~(first + b <= e)
      BY <1>2, <3>1, <3>3
    <3>5. hi <= e
      BY <1>0, <1>1, <3>2, <3>3 DEF Skipped
    <3> QED BY <1>0, <1>1, <3>1, <3>4, <3>5
  <2> HIDE DEF S, T, G, next
  <2>4. /\ IsFiniteSet(S \cup G) /\ Cardinality(S \cup G) \in Nat
        /\ Cardinality(S \cup G) = Cardinality(S) + Cardinality(G) - Cardinality(S \cap G)
    BY <2>1, <2>2, FS_Union, FS_CardinalityType
  <2>5. Cardinality(S \cap G) \in Nat
    BY <2>2, FS_Intersection, FS_CardinalityType
  <2>6. Cardinality(T) <= Cardinality(S \cup G) /\ Cardinality(T) \in Nat
    BY <2>3, <2>4, FS_Subset, FS_CardinalityType
  <2> QED BY <1>0, <1>1, <1>4, <2>1, <2>2, <2>4, <2>5, <2>6
<1> HIDE DEF next, T
<1>7. next = first + Before(p + 1)
  BY <1>0 DEF next
<1>8. OldestAt(next, first, after, b + n, old)
  BY <1>0, <1>4, <1>5, <1>6 DEF OldestAt, T
<1> QED BY <1>0, <1>7, <1>8

\* A request that has just been sent has read nothing of the window.
LEMMA NothingRead ==
    ASSUME NEW f \in Nat, NEW l \in Nat, NEW newest \in BOOLEAN,
           NEW seen, \A e \in Events : seen[e] = 0
    PROVE  Paged(newest, f, l, seen, Before(1), [first |-> f, last |-> l])
<1> DEFINE old == [first |-> f, last |-> l]
<1>1. Before(1) = 0 /\ old.first = f /\ old.last = l
  BY DEF Before
<1> HIDE DEF old
<1>2. Again(seen) = {}
  BY DEF Again
<1>3. Skipped(f, f, seen, old) = {}
  BY <1>1 DEF Skipped
<1>4. NewestAt(l + 1, f, l, seen, 0, old)
  BY <1>1, <1>2, FS_EmptySet DEF NewestAt
<1>5. OldestAt(f, f, seen, 0, old)
  BY <1>1, <1>3, FS_EmptySet DEF OldestAt
<1>6. Paged(newest, f, l, seen, 0, old)
  BY <1>1, <1>4, <1>5 DEF Paged
<1> QED BY <1>1, <1>6 DEF old

\* What has been read stays so when events arrive or leave.
LEMMA WindowMoves ==
    ASSUME NEW f \in Nat, NEW l \in Nat, NEW f2 \in Nat, NEW l2 \in Nat, f <= f2, l <= l2,
           NEW newest \in BOOLEAN, NEW seen, NEW b \in Nat,
           NEW old \in [first : Nat, last : Nat], Paged(newest, f, l, seen, b, old)
    PROVE  Paged(newest, f2, l2, seen, b, old)
<1>0. old.first \in Nat /\ old.last \in Nat /\ old.first <= f2 /\ old.last <= l2
  BY DEF Paged
<1>1. CASE newest
  <2>1. PICK lo : NewestAt(lo, f, l, seen, b, old)
    BY <1>1 DEF Paged
  <2>2. NewestAt(lo, f2, l2, seen, b, old)
    BY <1>0, <2>1 DEF NewestAt
  <2> QED BY <1>0, <1>1, <2>2 DEF Paged
<1>2. CASE ~newest
  <2>1. PICK hi : OldestAt(hi, f, seen, b, old)
    BY <1>2 DEF Paged
  <2> DEFINE S == Skipped(hi, f, seen, old)
             T == Skipped(hi, f2, seen, old)
  <2>2. IsFiniteSet(S)
    <3>1. IsFiniteSet(f..old.last)
      BY <1>0, FS_Interval
    <3>2. S \in SUBSET (f..old.last)
      BY DEF Skipped
    <3> QED BY <3>1, <3>2, FS_Subset
  <2>3. T \in SUBSET S
    BY <1>0 DEF Skipped
  <2>4. Cardinality(T) <= Cardinality(S) /\ Cardinality(T) \in Nat /\ Cardinality(S) \in Nat
    <3> HIDE DEF S, T
    <3> QED BY <2>2, <2>3, FS_Subset, FS_CardinalityType
  <2>5. /\ hi \in Int /\ hi - b <= f
        /\ \A e \in Events : seen[e] > 0 => seen[e] = 1 /\ e < hi
        /\ Cardinality(S) <= hi - b - old.first
    BY <2>1 DEF OldestAt
  <2>6. Cardinality(T) <= hi - b - old.first
    <3> HIDE DEF S, T
    <3> QED BY <1>0, <2>4, <2>5
  <2>7. OldestAt(hi, f2, seen, b, old)
    BY <2>5, <2>6 DEF OldestAt
  <2> QED BY <1>0, <1>2, <2>7 DEF Paged
<1> QED BY <1>1, <1>2

-----------------------------------------------------------------------------
\* Pages: every request of the page, at every step.

\* A request of the page that is not over has paged as far as it says.
Reading(newest, f, l, c) ==
    c.mine /\ c.stage \in {"lock", "login", "ask"} =>
        Paged(newest, f, l, c.seen, Before(c.page), c.since)

PagingInv ==
    /\ KeeperInv /\ InWindow
    /\ \A r \in Requests : Reading(newestFirst, first, last, reqs[r])

\* What a request is made of.
LEMMA RequestParts ==
    ASSUME KeeperInv, NEW r \in Requests
    PROVE  /\ reqs[r] \in Request /\ reqs[r].stage \in Stages /\ reqs[r].mine \in BOOLEAN
           /\ reqs[r].page \in Nat \ {0} /\ Before(reqs[r].page) \in Nat
           /\ reqs[r].seen \in [Events -> 0..MaxPages]
           /\ reqs[r].since \in [first : Nat, last : Nat]
<1>1. /\ reqs[r] \in Request /\ reqs[r].stage \in Stages /\ reqs[r].mine \in BOOLEAN
      /\ reqs[r].page \in Nat \ {0}
      /\ reqs[r].seen \in [Events -> 0..MaxPages]
      /\ reqs[r].since \in [first : Nat, last : Nat]
  BY DEF KeeperInv, Types, Request
<1> QED BY <1>1, BeforeNext

\* Counting a page keeps the type of the counts.
LEMMA SeenType ==
    ASSUME KeeperInv, NEW r \in Requests
    PROVE  /\ SeenAfter(r) \in [Events -> 0..MaxPages]
           /\ \A e \in Events :
                  SeenAfter(r)[e] = reqs[r].seen[e] + IF e \in EventsOn(reqs[r].page) THEN 1 ELSE 0
<1>1. reqs[r] \in Request /\ CountedIn(reqs[r])
  BY DEF KeeperInv, Types, Counted
<1>2. \A e \in Events : reqs[r].seen[e] \in Nat /\ reqs[r].seen[e] < reqs[r].page
  BY <1>1 DEF CountedIn, Request
<1>3. reqs[r].page \in 1..MaxPages
  BY <1>1 DEF Request
<1> QED BY <1>2, <1>3 DEF SeenAfter

\* After one more page the request has paged one page further.
LEMMA PagedFurther ==
    ASSUME PagingInv, NEW r \in Requests, reqs[r].mine, reqs[r].stage = "ask"
    PROVE  LET old  == reqs[r].since
               seen == SeenAfter(r)
               b    == Before(reqs[r].page + 1)
           IN  /\ old.first <= first /\ old.last <= last
               /\ Paged(newestFirst, first, last, seen, b, old)
               /\ newestFirst  => \E lo : NewestAt(lo, first, last, seen, b, old)
               /\ ~newestFirst => OldestAt(first + b, first, seen, b, old)
<1> DEFINE old  == reqs[r].since
           seen == reqs[r].seen
           after == SeenAfter(r)
           p == reqs[r].page
<1>1. /\ Types /\ InWindow /\ newestFirst \in BOOLEAN
      /\ p \in Nat \ {0} /\ seen \in [Events -> 0..MaxPages]
      /\ old \in [first : Nat, last : Nat]
  BY RequestParts DEF PagingInv, KeeperInv, Types
<1>2. /\ after \in [Events -> 0..MaxPages]
      /\ \A e \in Events : after[e] = seen[e] + IF e \in EventsOn(p) THEN 1 ELSE 0
  BY SeenType DEF PagingInv
<1>3. Paged(newestFirst, first, last, seen, Before(p), old)
  BY DEF PagingInv, Reading
<1> HIDE DEF old, seen, after, p
<1>4. old.first <= first /\ old.last <= last
  BY <1>3 DEF Paged
<1>5. newestFirst => \E lo : NewestAt(lo, first, last, after, Before(p + 1), old)
  <2> SUFFICES ASSUME newestFirst
               PROVE  \E lo : NewestAt(lo, first, last, after, Before(p + 1), old)
    OBVIOUS
  <2>1. PICK lo : NewestAt(lo, first, last, seen, Before(p), old)
    BY <1>3 DEF Paged
  <2> QED BY <1>1, <1>2, <1>4, <2>1, NewestRead
<1>6. ~newestFirst => OldestAt(first + Before(p + 1), first, after, Before(p + 1), old)
  <2> SUFFICES ASSUME ~newestFirst
               PROVE  OldestAt(first + Before(p + 1), first, after, Before(p + 1), old)
    OBVIOUS
  <2>1. PICK hi : OldestAt(hi, first, seen, Before(p), old)
    BY <1>3 DEF Paged
  <2> QED BY <1>1, <1>2, <1>4, <2>1, OldestRead
<1>7. Paged(newestFirst, first, last, after, Before(p + 1), old)
  BY <1>4, <1>5, <1>6 DEF Paged
<1> QED BY <1>4, <1>5, <1>6, <1>7 DEF old, after, p

\* Before the first step nobody has paged.
LEMMA PagingInit == Init => PagingInv
<1> SUFFICES ASSUME Init PROVE PagingInv
  OBVIOUS
<1>1. InWindow
  BY DEF Init, InWindow
<1>2. \A r \in Requests : ~reqs[r].mine
  BY FreeType DEF Init
<1> QED BY <1>1, <1>2, InitInv DEF PagingInv, Reading

\* Every way in which a step can leave the reading of a request in order, while
\* the window stays: the request is over or nobody's, goes on from where it was,
\* has just been sent, or has read a page.
Continues(c, d) ==
    \/ ~d.mine
    \/ d.stage \notin {"lock", "login", "ask"}
    \/ /\ d.mine = c.mine /\ d.page = c.page /\ d.seen = c.seen /\ d.since = c.since
       /\ c.stage \in {"lock", "login", "ask"} \/ d.stage = c.stage
    \/ Reading(newestFirst, first, last, d)

\* A step that leaves the window and continues every request keeps the invariant.
LEMMA ContinueKeeps ==
    ASSUME PagingInv, KeeperInv', UNCHANGED keeper,
           \A q \in Requests : Continues(reqs[q], reqs'[q])
    PROVE  PagingInv'
<1>1. first' = first /\ last' = last /\ newestFirst' = newestFirst
  BY DEF keeper
<1>2. InWindow'
  BY <1>1 DEF PagingInv, InWindow
<1>3. ASSUME NEW q \in Requests PROVE Reading(newestFirst, first, last, reqs'[q])
  BY <1>3 DEF PagingInv, Continues, Reading
<1>4. (\A q \in Requests : Reading(newestFirst, first, last, reqs[q]))'
  BY <1>1, <1>3 DEF Reading, Paged, NewestAt, OldestAt, Skipped, Again, Before
<1> QED BY <1>2, <1>4 DEF PagingInv

\* Sending starts at the window as it is.
LEMMA SendContinues ==
    ASSUME PagingInv, NEW m \in BOOLEAN, Send(m)
    PROVE  \A q \in Requests : Continues(reqs[q], reqs'[q])
<1>1. PICK r \in Requests : reqs' = [reqs EXCEPT ![r] = Sent(m)]
  BY DEF Send, Sent
<1>2. Becomes(r, Sent(m))
  BY <1>1, SentType, Replace DEF PagingInv, KeeperInv
<1>3. /\ Sent(m).mine = m /\ Sent(m).page = 1 /\ \A e \in Events : Sent(m).seen[e] = 0
      /\ m => Sent(m).since = [first |-> first, last |-> last]
  BY DEF Sent, Free
<1>4. Paged(newestFirst, first, last, Sent(m).seen, Before(1), [first |-> first, last |-> last])
  BY <1>3, NothingRead DEF PagingInv, KeeperInv, Types
<1>5. Reading(newestFirst, first, last, Sent(m))
  BY <1>3, <1>4 DEF Reading
<1> QED BY <1>2, <1>5 DEF Becomes, Continues

\* Each step of the page continues every request.
LEMMA HookContinues ==
    ASSUME PagingInv, Mount \/ Tick \/ Switch \/ Unmount \/ OtherTab
    PROVE  UNCHANGED keeper /\ \A q \in Requests : Continues(reqs[q], reqs'[q])
<1>1. ASSUME UNCHANGED reqs PROVE \A q \in Requests : Continues(reqs[q], reqs'[q])
  BY <1>1 DEF Continues
<1>2. ASSUME Pull PROVE \A q \in Requests : Continues(reqs[q], reqs'[q])
  BY <1>1, <1>2, SendContinues DEF Pull
<1>3. CASE Mount \/ Tick \/ Switch
  BY <1>1, <1>2, <1>3 DEF Mount, Tick, Switch
<1>4. CASE Unmount
  <2>1. \A q \in Requests : ~reqs'[q].mine
    BY <1>4, FreeType DEF Unmount, Free
  <2> QED BY <1>4, <2>1 DEF Unmount, Continues
<1>5. CASE OtherTab
  BY <1>5, SendContinues DEF OtherTab
<1> QED BY <1>3, <1>4, <1>5

\* So does each step of a request: only a page read adds to what it has read.
LEMMA RequestContinues ==
    ASSUME PagingInv, NEW r \in Requests,
           \/ Enter(r) \/ Login(r) \/ CallFails(r) \/ Refused(r)
           \/ GiveUp(r) \/ Read(r) \/ Answer(r)
    PROVE  UNCHANGED keeper /\ \A q \in Requests : Continues(reqs[q], reqs'[q])
<1> SUFFICES \A q \in Requests : Continues(reqs[q], reqs'[q])
  BY DEF Enter, Login, CallFails, Refused, GiveUp, Read, Answer
<1>0. reqs[r] \in Request /\ reqs \in [Requests -> Request]
  BY DEF PagingInv, KeeperInv, Types
<1>1. ASSUME NEW c, reqs' = [reqs EXCEPT ![r] = c], Continues(reqs[r], c)
      PROVE  \A q \in Requests : Continues(reqs[q], reqs'[q])
  <2>1. reqs'[r] = c /\ \A q \in Requests : q # r => reqs'[q] = reqs[q]
    BY <1>0, <1>1
  <2> QED BY <1>1, <2>1 DEF Continues
<1>2. ASSUME NEW stage, NEW again,
             reqs' = [reqs EXCEPT ![r] = [reqs[r] EXCEPT !.stage = stage, !.again = again]],
             reqs[r].stage \in {"lock", "login", "ask"}
      PROVE  \A q \in Requests : Continues(reqs[q], reqs'[q])
  <2> DEFINE c == [reqs[r] EXCEPT !.stage = stage, !.again = again]
  <2>1. c.mine = reqs[r].mine /\ c.page = reqs[r].page /\ c.seen = reqs[r].seen
        /\ c.since = reqs[r].since
    BY <1>0 DEF Request
  <2>2. Continues(reqs[r], c)
    BY <1>2, <2>1 DEF Continues
  <2> HIDE DEF c
  <2> QED BY <1>1, <1>2, <2>2 DEF c
<1>3. ASSUME NEW c \in {Ended(r), Delivered(r), Free}, reqs' = [reqs EXCEPT ![r] = c]
      PROVE  \A q \in Requests : Continues(reqs[q], reqs'[q])
  <2>1. c.stage \notin {"lock", "login", "ask"}
    BY <1>3, FreeType, OverType DEF PagingInv, KeeperInv
  <2> QED BY <1>1, <1>3, <2>1 DEF Continues
<1>4. CASE Enter(r)
  <2>1. reqs' = [reqs EXCEPT ![r] = [reqs[r] EXCEPT !.stage = IF loggedIn THEN "ask" ELSE "login",
                                                    !.again = reqs[r].again]]
    BY <1>0, <1>4 DEF Enter, Request
  <2> QED BY <1>2, <1>4, <2>1 DEF Enter
<1>5. CASE Login(r)
  <2>1. reqs' = [reqs EXCEPT ![r] = [reqs[r] EXCEPT !.stage = "ask", !.again = reqs[r].again]]
    BY <1>0, <1>5 DEF Login, Request
  <2> QED BY <1>2, <1>5, <2>1 DEF Login
<1>6. CASE Refused(r)
  <2>1. reqs' = [reqs EXCEPT ![r] = [reqs[r] EXCEPT !.stage = "login", !.again = TRUE]]
    BY <1>0, <1>6 DEF Refused
  <2> QED BY <1>2, <1>6, <2>1 DEF Refused
<1>7. CASE CallFails(r) \/ GiveUp(r)
  BY <1>3, <1>7 DEF CallFails, GiveUp, Fail, Ended
<1>8. CASE Answer(r)
  BY <1>3, <1>8 DEF Answer
<1>9. CASE Read(r)
  <2>1. CASE LastPage(reqs[r].page)
    BY <1>3, <1>9, <2>1 DEF Read, Delivered
  <2>2. CASE ~LastPage(reqs[r].page)
    <3> DEFINE p == reqs[r].page + 1
               seen == IF reqs[r].mine THEN SeenAfter(r) ELSE reqs[r].seen
               c == [reqs[r] EXCEPT !.stage = "lock", !.page = p, !.again = FALSE, !.seen = seen]
    <3>1. reqs' = [reqs EXCEPT ![r] = c]
      BY <1>9, <2>2 DEF Read
    <3>2. c.mine = reqs[r].mine /\ c.page = p /\ c.seen = seen /\ c.since = reqs[r].since
      BY <1>0 DEF Request
    <3>3. reqs[r].mine =>
              Paged(newestFirst, first, last, SeenAfter(r), Before(p), reqs[r].since)
      BY <1>9, PagedFurther DEF Read
    <3>4. Reading(newestFirst, first, last, c)
      <4>1. reqs[r].mine => seen = SeenAfter(r)
        OBVIOUS
      <4> HIDE DEF c, seen, p
      <4> QED BY <3>2, <3>3, <4>1 DEF Reading
    <3> HIDE DEF c, p, seen
    <3>5. Continues(reqs[r], c)
      BY <3>4 DEF Continues
    <3> QED BY <1>1, <3>1, <3>5
  <2> QED BY <2>1, <2>2
<1> QED BY <1>4, <1>5, <1>6, <1>7, <1>8, <1>9

\* The window moves under the requests.
LEMMA MovesKeep ==
    ASSUME PagingInv, KeeperInv', Arrive \/ Leave
    PROVE  PagingInv'
<1>0. first \in Nat /\ last \in Nat /\ newestFirst \in BOOLEAN
  BY DEF PagingInv, KeeperInv, Types
<1>1. /\ newestFirst' = newestFirst /\ reqs' = reqs
      /\ first' \in Nat /\ last' \in Nat /\ first <= first' /\ last <= last'
  BY <1>0 DEF Arrive, Leave
<1>2. InWindow'
  BY <1>0 DEF Arrive, Leave, PagingInv, InWindow
<1>3. ASSUME NEW r \in Requests PROVE Reading(newestFirst, first', last', reqs[r])
  BY <1>0, <1>1, WindowMoves, RequestParts DEF PagingInv, Reading
<1>4. (\A r \in Requests : Reading(newestFirst, first, last, reqs[r]))'
  BY <1>1, <1>3 DEF Reading, Paged, NewestAt, OldestAt, Skipped, Again, Before
<1> QED BY <1>2, <1>4 DEF PagingInv

\* Every step keeps the invariant.
LEMMA PagingStep == PagingInv /\ [Next]_vars => PagingInv'
<1> SUFFICES ASSUME PagingInv, [Next]_vars PROVE PagingInv'
  OBVIOUS
<1>1. KeeperInv'
  BY StepInv DEF PagingInv
<1>2. CASE Mount \/ Tick \/ Switch \/ Unmount \/ OtherTab
  BY <1>1, <1>2, HookContinues, ContinueKeeps
<1>3. ASSUME NEW r \in Requests,
             \/ Enter(r) \/ Login(r) \/ CallFails(r) \/ Refused(r)
             \/ GiveUp(r) \/ Read(r) \/ Answer(r)
      PROVE  PagingInv'
  BY <1>1, <1>3, RequestContinues, ContinueKeeps
<1>4. CASE Arrive \/ Leave
  BY <1>1, <1>4, MovesKeep
<1>5. CASE Expire \/ UNCHANGED vars
  <2>1. UNCHANGED keeper /\ UNCHANGED reqs
    BY <1>5 DEF Expire, vars, keeper
  <2>2. \A q \in Requests : Continues(reqs[q], reqs'[q])
    BY <2>1 DEF Continues
  <2> QED BY <1>1, <2>1, <2>2, ContinueKeeps
<1> QED BY <1>2, <1>3, <1>4, <1>5 DEF Next

\* Paging over a window that moves misses at most what left and counts twice at
\* most what arrived meanwhile (the loop over the pages in Client.Stats), unless
\* there are more pages than the client asks for.
THEOREM DriftLimited == Spec => DriftBounded
<1>1. ASSUME PagingInv, NEW r \in Requests, Read(r), reqs[r].mine,
             LastPage(reqs[r].page), Complete(r)
      PROVE  LET old  == reqs[r].since
                 seen == SeenAfter(r)
             IN  /\ Cardinality(Missed(seen, old)) <= first - old.first
                 /\ Cardinality(Again(seen)) <= last - old.last
  <2> DEFINE old  == reqs[r].since
             seen == SeenAfter(r)
             b    == Before(reqs[r].page + 1)
  <2>1. /\ old.first <= first /\ old.last <= last
        /\ newestFirst  => \E lo : NewestAt(lo, first, last, seen, b, old)
        /\ ~newestFirst => OldestAt(first + b, first, seen, b, old)
    BY <1>1, PagedFurther DEF Read
  <2>2. /\ reqs[r].page \in Nat \ {0}
        /\ first \in Nat /\ last \in Nat /\ old.first \in Nat /\ old.last \in Nat
        /\ seen \in [Events -> 0..MaxPages]
    BY <1>1, RequestParts, SeenType DEF PagingInv, KeeperInv, Types
  <2>3. last + 1 <= first + b
    BY <1>1, <2>2, AllListed DEF PagingInv, KeeperInv, Complete
  <2>4. b \in Nat
    BY <2>2, BeforeNext
  <2>5. \A e \in first..old.last : e \in Events
    BY <1>1, <2>1, <2>2 DEF PagingInv, InWindow, Events
  <2> HIDE DEF old, seen, b
  <2>6. Cardinality(Again(seen)) \in Nat
    BY AgainCount
  <2>7. CASE newestFirst
    <3>1. PICK lo : NewestAt(lo, first, last, seen, b, old)
      BY <2>1, <2>7
    <3>2. /\ lo \in Int /\ lo + b <= last + 1
          /\ \A e \in first..old.last : e >= lo => seen[e] > 0
          /\ Cardinality(Again(seen)) <= lo + b - 1 - old.last
      BY <3>1 DEF NewestAt
    <3>3. lo <= first
      BY <2>2, <2>3, <2>4, <3>2
    <3>4. Missed(seen, old) = {}
      BY <2>2, <3>2, <3>3 DEF Missed
    <3>5. Cardinality(Missed(seen, old)) <= first - old.first
      BY <2>1, <2>2, <3>4, FS_EmptySet
    <3>6. Cardinality(Again(seen)) <= last - old.last
      BY <2>2, <2>4, <2>6, <3>2
    <3> QED BY <3>5, <3>6 DEF old, seen
  <2>8. CASE ~newestFirst
    <3>1. /\ \A e \in Events : seen[e] > 0 => seen[e] = 1
          /\ Cardinality(Skipped(first + b, first, seen, old)) <= (first + b) - b - old.first
      BY <2>1, <2>8 DEF OldestAt
    <3>2. Missed(seen, old) = Skipped(first + b, first, seen, old)
      BY <2>1, <2>2, <2>3, <2>4 DEF Missed, Skipped
    <3>3. (first + b) - b = first
      BY <2>2, <2>4
    <3>4. Cardinality(Missed(seen, old)) <= first - old.first
      BY <3>1, <3>2, <3>3
    <3>5. Again(seen) = {}
      BY <2>2, <3>1 DEF Again
    <3>6. Cardinality(Again(seen)) <= last - old.last
      BY <2>1, <2>2, <3>5, FS_EmptySet
    <3> QED BY <3>4, <3>6 DEF old, seen
  <2> QED BY <2>7, <2>8
<1>2. Spec => []PagingInv
  BY PagingInit, PagingStep, PTL DEF Spec
<1>3. PagingInv /\ [Next]_vars =>
        [\A r \in Requests :
            Read(r) /\ reqs[r].mine /\ LastPage(reqs[r].page) /\ Complete(r) =>
                LET old  == reqs[r].since
                    seen == SeenAfter(r)
                IN  /\ Cardinality(Missed(seen, old)) <= first - old.first
                    /\ Cardinality(Again(seen)) <= last - old.last]_vars
  BY <1>1
<1> QED BY <1>2, <1>3, PTL DEF Spec, DriftBounded
=============================================================================
