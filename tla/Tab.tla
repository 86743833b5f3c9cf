-------------------------------- MODULE Tab --------------------------------
(***************************************************************************)
(* One browser tab of the panel (web/src/state/useCatalog.ts, useDraft.ts  *)
(* and the buttons of app/App.tsx): the view on screen, the draft on top   *)
(* of it, and the requests in flight.  Each request is served and answered *)
(* in its own time, or fails; answers come in any order.                   *)
(*                                                                         *)
(* Data abstraction.  A key is anything a draft may override (a name, a    *)
(* mark, a priority) and has one of two values; "missing" when the panel   *)
(* has no such model.  The server is the atomic one of AtomicSaves, and    *)
(* its values are the fingerprint too.  Models found or excluded since the *)
(* last save (outOfSync) are not told apart: there may always be some, so  *)
(* a save with an empty draft is always possible once there is a view.     *)
(***************************************************************************)
EXTENDS FiniteSets, Naturals

CONSTANTS
    Keys,
    MaxCalls,      \* bound: requests in flight
    NoView

Values == {"on", "off"}
Shown  == [Keys -> Values \cup {"missing"}]
Ops    == UNION {[K -> Values] : K \in SUBSET Keys}
Slots  == 1..MaxCalls

ASSUME TabAssumption == MaxCalls \in Nat \ {0} /\ NoView \notin Shown

VARIABLES
    value,                          \* the server
    authed,                         \* the user is signed in
    view,                           \* what is on screen
    draft,                          \* [Keys -> Values \cup {"none"}]
    loading, saving, refreshing,    \* the flags the buttons look at
    preview,                        \* the dialog that asks to confirm a save
    calls                           \* requests in flight

flags  == <<authed, loading, saving, refreshing>>
vars   == <<value, authed, view, draft, loading, saving, refreshing, preview, calls>>

\* "load" is the reload nobody asked for, "mount" the one after signing in and
\* "reload" the one of the button; "page" is any request of a page or dialog
\* that answers with a view: settings, rollback, one site, an egg.
Kinds  == {"load", "mount", "reload", "refresh", "preview", "save", "page"}
Saving == {"preview", "save"}
Loads  == {"load", "mount", "reload"}
Asked  == {"mount", "reload", "refresh"}     \* the ones known to reset the draft

\* base and ops are what a preview or a save carries: the view it was sent from
\* and the edits.  untouched is an observer: the edits that were open when the
\* request was sent and that nobody has touched since.
Call == [stage : {"sent", "served", "failed"}, kind : Kinds,
         base : Shown \cup {NoView}, ops : Ops, untouched : SUBSET Keys,
         answer : Shown \cup {NoView}]

Free == [stage |-> "free"]

-----------------------------------------------------------------------------
\* The draft: overrides that differ from what the view shows.

Changed(d, v) ==
    IF v = NoView THEN {}
    ELSE {k \in Keys : d[k] # "none" /\ v[k] \notin {"missing", d[k]}}

Open == Changed(draft, view)
Dirty == Open # {}

\* Mutant: the whole draft is sent, not only what differs.
WholeDraft == draft

BuildOps == [k \in Open |-> draft[k]]

NoOps == [k \in {} |-> "on"]

Blank == [k \in Keys |-> "none"]

Savable == view # NoView

Busy == loading \/ saving \/ refreshing

-----------------------------------------------------------------------------
\* Sending.

Init ==
    /\ value \in [Keys -> Values]
    /\ view = NoView /\ draft = Blank
    /\ authed = FALSE /\ loading = FALSE /\ saving = FALSE /\ refreshing = FALSE
    /\ preview = FALSE
    /\ calls = [i \in Slots |-> Free]

Send(kind) ==
    \E i \in Slots :
        /\ calls[i] = Free
        /\ \A j \in 1..(i - 1) : calls[j] # Free
        /\ calls' = [calls EXCEPT ![i] =
               [stage |-> "sent", kind |-> kind,
                base |-> IF kind \in Saving THEN view ELSE NoView,
                ops |-> IF kind \in Saving THEN BuildOps ELSE NoOps,
                untouched |-> IF kind \in Asked THEN {} ELSE Open,
                answer |-> NoView]]

\* Mutant: coming back to the tab reloads whatever the draft holds.
FocusAnyway ==
    /\ authed /\ ~saving /\ ~refreshing
    /\ Send("load")
    /\ loading' = TRUE
    /\ UNCHANGED <<value, view, draft, authed, saving, refreshing, preview>>

\* The user signs in, or opens the page with a stored token.  The draft of a
\* session that ran out is still there.
SignIn ==
    /\ ~authed /\ authed' = TRUE
    /\ Send("mount")
    /\ loading' = TRUE
    /\ UNCHANGED <<value, view, draft, saving, refreshing, preview>>

SignOut ==
    /\ authed /\ ~preview /\ authed' = FALSE
    /\ UNCHANGED <<value, view, draft, loading, saving, refreshing, preview, calls>>

\* The user comes back to the page: focus and visibilitychange each fire this,
\* dialog open or not, and loading does not hold it back.
Focus ==
    /\ authed /\ ~Dirty /\ ~saving /\ ~refreshing
    /\ Send("load")
    /\ loading' = TRUE
    /\ UNCHANGED <<value, view, draft, authed, saving, refreshing, preview>>

Reload ==
    /\ authed /\ ~loading /\ ~preview
    /\ view # NoView => ~Busy      \* without a view a retry link takes the place
    /\ Send("reload")
    /\ loading' = TRUE
    /\ UNCHANGED <<value, view, draft, authed, saving, refreshing, preview>>

Refresh ==
    /\ authed /\ ~Busy /\ ~preview
    /\ Send("refresh")
    /\ refreshing' = TRUE
    /\ UNCHANGED <<value, view, draft, authed, loading, saving, preview>>

RequestPreview ==
    /\ authed /\ ~Busy /\ ~preview /\ Savable
    /\ Send("preview")
    /\ saving' = TRUE
    /\ UNCHANGED <<value, view, draft, authed, loading, refreshing, preview>>

\* Mutant: the button of the dialog stays enabled while a save runs.
ConfirmAgain ==
    /\ authed /\ preview /\ Savable
    /\ Send("save")
    /\ saving' = TRUE
    /\ UNCHANGED <<value, view, draft, authed, loading, refreshing, preview>>

\* The operations are built again from the draft, not taken from the preview.
Confirm ==
    /\ authed /\ preview /\ ~saving /\ Savable
    /\ Send("save")
    /\ saving' = TRUE
    /\ UNCHANGED <<value, view, draft, authed, loading, refreshing, preview>>

\* The dialog can be closed at any time, also while its save runs.
Cancel ==
    /\ authed /\ preview
    /\ preview' = FALSE
    /\ UNCHANGED <<value, view, draft, flags, calls>>

PageRequest ==
    /\ authed /\ ~preview
    /\ Send("page")
    /\ UNCHANGED <<value, view, draft, flags, preview>>

\* The matrix is never disabled; the dialog covers it.
Edit(k, v) ==
    /\ authed /\ view # NoView /\ ~preview
    /\ view[k] # "missing"
    /\ draft' = [draft EXCEPT ![k] = v]
    /\ calls' = [i \in Slots |->
            IF calls[i] = Free THEN Free ELSE [calls[i] EXCEPT !.untouched = @ \ {k}]]
    /\ UNCHANGED <<value, view, flags, preview>>

Discard ==
    /\ authed /\ Dirty /\ ~saving /\ ~preview
    /\ draft' = Blank
    /\ UNCHANGED <<value, view, flags, preview, calls>>

-----------------------------------------------------------------------------
\* The server, and everybody else who uses it.

Disturbed ==
    \E k \in Keys, v \in Values \cup {"missing"} : value' = [value EXCEPT ![k] = v]

Elsewhere ==
    /\ Disturbed
    /\ UNCHANGED <<view, draft, flags, preview, calls>>

Reply(i) ==
    calls' = [calls EXCEPT ![i] =
        [@ EXCEPT !.stage = "served", !.base = NoView, !.ops = NoOps,
                  !.answer = IF calls[i].kind = "preview" THEN NoView ELSE value']]

Refuse(i) ==
    /\ calls' = [calls EXCEPT ![i] =
           [@ EXCEPT !.stage = "failed", !.base = NoView, !.ops = NoOps, !.answer = NoView]]
    /\ UNCHANGED value

\* A save or its preview from a view that is not what CPA holds is refused; an
\* operation on a model the panel does not know is skipped.
Serve(i) ==
    /\ calls[i] # Free /\ calls[i].stage = "sent"
    /\ LET call == calls[i] IN
       \/ /\ call.kind \in Loads
          /\ UNCHANGED value
          /\ Reply(i)
       \/ /\ call.kind \in {"refresh", "page"}
          /\ Disturbed \/ UNCHANGED value
          /\ Reply(i)
       \/ /\ call.kind \in Saving /\ call.base # value
          /\ Refuse(i)
       \/ /\ call.kind = "preview" /\ call.base = value
          /\ UNCHANGED value
          /\ Reply(i)
       \/ /\ call.kind = "save" /\ call.base = value
          /\ value' = [k \in Keys |->
                 IF k \in DOMAIN call.ops /\ value[k] # "missing"
                 THEN call.ops[k] ELSE value[k]]
          /\ Reply(i)
    /\ UNCHANGED <<view, draft, flags, preview>>

\* The connection breaks, before or after the server has done its part.
Lose(i) ==
    /\ calls[i] # Free /\ calls[i].stage \in {"sent", "served"}
    /\ Refuse(i)
    /\ UNCHANGED <<view, draft, flags, preview>>

-----------------------------------------------------------------------------
\* The answer.

\* Mutant: only a success ends a save.
FlagsAfterSuccess(kind, ok) ==
    /\ loading'    = (loading /\ kind \notin Loads)
    /\ saving'     = (saving /\ ~(ok /\ kind \in Saving))
    /\ refreshing' = (refreshing /\ kind # "refresh")

FlagsAfter(kind, ok) ==
    /\ loading'    = (loading /\ kind \notin Loads)
    /\ saving'     = (saving /\ kind \notin Saving)
    /\ refreshing' = (refreshing /\ kind # "refresh")

\* Every view replaces the one on screen; the ones of a load, a save and a
\* refresh take the draft with them.  A failure may be that the token is no
\* longer accepted (401).
Answer(i) ==
    /\ calls[i] # Free /\ calls[i].stage \in {"served", "failed"}
    /\ LET call == calls[i]
           ok   == call.stage = "served"
       IN  /\ view'  = IF ok /\ call.kind # "preview" THEN call.answer ELSE view
           /\ draft' = IF ok /\ call.kind \notin {"preview", "page"} THEN Blank ELSE draft
           /\ preview' = CASE call.kind = "preview" -> (preview \/ ok)
                           [] call.kind = "save"    -> FALSE
                           [] OTHER                 -> preview
           /\ FlagsAfter(call.kind, ok)
           /\ authed' \in IF ok THEN {authed} ELSE {authed, FALSE}
    /\ calls' = [calls EXCEPT ![i] = Free]
    /\ UNCHANGED value

Next ==
    \/ SignIn \/ SignOut \/ Focus \/ Reload \/ Refresh \/ RequestPreview \/ Confirm \/ Cancel
    \/ PageRequest \/ Discard
    \/ \E k \in Keys, v \in Values : Edit(k, v)
    \/ Elsewhere
    \/ \E i \in Slots : Serve(i) \/ Lose(i) \/ Answer(i)

Spec == Init /\ [][Next]_vars

\* A request is served or its connection breaks, and its answer is handled.
FairSpec ==
    Spec /\ \A i \in Slots : WF_vars(Serve(i) \/ Lose(i)) /\ WF_vars(Answer(i))

-----------------------------------------------------------------------------
\* Properties.

\* Every variable has its type.
TypeOK ==
    /\ value \in Shown
    /\ view \in Shown \cup {NoView}
    /\ draft \in [Keys -> Values \cup {"none"}]
    /\ authed \in BOOLEAN /\ loading \in BOOLEAN /\ saving \in BOOLEAN /\ refreshing \in BOOLEAN
    /\ preview \in BOOLEAN
    /\ calls \in [Slots -> Call \cup {Free}]

\* The tab never has two saves on their way, nor a save beside a preview,
\* although the dialog can be closed and opened again while a save runs.
OneSaveAtATime ==
    \A i, j \in Slots :
        /\ calls[i] # Free /\ calls[i].kind \in Saving
        /\ calls[j] # Free /\ calls[j].kind \in Saving
        => i = j

\* An edit leaves the draft only when its user says so (another edit, discard,
\* reload, refresh, signing in again), or when the view that comes shows it done or shows the
\* model gone, unless it was made after the request was sent: no reload the
\* user did not ask for, no save and no other page drops an edit that was
\* there before.
EditsAccountedFor ==
    [][\A i \in Slots : Answer(i) /\ calls[i].kind \notin Asked =>
        \A k \in calls[i].untouched \cap Open :
            \/ k \in Changed(draft', view')
            \/ view'[k] \in {draft[k], "missing"}]_vars

\* Comment of useCatalog: coming back to the tab re-reads CPA, "Skipped while a
\* draft is open: silently replacing the view would throw away edits."
\* This does not hold of an edit made while the reload runs; see README,
\* "Known disagreements".
ReloadKeepsEdits ==
    [][\A i \in Slots : Answer(i) /\ calls[i].kind = "load" =>
        \A k \in Open : \/ k \in Changed(draft', view')
                        \/ view'[k] \in {draft[k], "missing"}]_vars

\* Comment of useCatalog: "Saving is two steps: ask the server what it would do,
\* show it, then let the user commit."  This does not hold of an edit made while
\* the preview is computed, which the dialog does not show and the confirmed save
\* sends; see README, "Known disagreements".
PreviewIsCurrent ==
    [][\A i \in Slots : Answer(i) /\ calls[i].kind = "preview" /\ preview' /\ ~preview =>
        Open = calls[i].untouched]_vars

\* The buttons come back: whatever requests overlap or fail, none of the flags
\* that disable them stays set.
Usable ==
    /\ loading ~> ~loading
    /\ saving ~> ~saving
    /\ refreshing ~> ~refreshing
=============================================================================
