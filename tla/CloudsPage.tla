------------------------------ MODULE CloudsPage ----------------------------
(***************************************************************************)
(* The Clouds page of app/static/app.js for one provider: the patch panel, *)
(* the connect panel (form, checklist, result), the inventory, the session *)
(* and the sign-in; composed with the endpoints of module Connections.     *)
(*                                                                         *)
(* A handler runs to its next await in one step.  The page is rebuilt by   *)
(* render(): what was typed into the form since the last submit is gone.   *)
(* Any request may fail, or be refused because the session has expired.    *)
(* MaxMoves bounds the operator's clicks and those failures.               *)
(*                                                                         *)
(* Left out: the region drawer and the filters (module RegionDrawer), the  *)
(* wording of identities and costs, the pacing of the checklist (300, 380  *)
(* and 900 ms), after which only the identity of state.connect matters.    *)
(***************************************************************************)
EXTENDS Connections, SequencesExt

CONSTANT MaxMoves

ASSUME MovesAssumption == MaxMoves \in Nat

VARIABLES
    authed,     \* state.authed
    providers,  \* state.providers, providersErr, providersLoading
    slot,       \* state.inventories[provider]
    connect,    \* state.connect
    typed,      \* history: the credentials typed, while nothing erased them
    moves,      \* clicks and failures so far
    raced,      \* history: lists overlapped, a request failed, a checklist
                \* was left before its end
    expired     \* history: a request was refused with 401

pageVars == <<authed, providers, slot, connect>>
vars == <<serverVars, pageVars, typed, moves, raced, expired>>

Providers == [known : BOOLEAN, acct : OrNone, err : BOOLEAN, loading : BOOLEAN]
Unread == [known |-> FALSE, acct |-> NoAccount, err |-> FALSE, loading |-> FALSE]

Slot == [have : BOOLEAN, of : OrNone, crossed : BOOLEAN, err : BOOLEAN, loading : BOOLEAN]
NoSlot == [have |-> FALSE, of |-> NoAccount, crossed |-> FALSE, err |-> FALSE,
           loading |-> FALSE]

\* values: what the form is filled with when it is built; input: what is in
\* it; waiting: the form has been asked for; post: the request of this object
\* (the code compares state.connect with the object it submitted).  "showing"
\* is the stage 'checking' once the report is there.
Panel == [stage : {"none", "loading", "form", "checking", "showing", "done", "error"},
          rotate : BOOLEAN, fields : BOOLEAN, waiting : BOOLEAN, values : OrNone,
          input : OrNone, bad : BOOLEAN, ok : BOOLEAN, post : 0..MaxPosts]
NoPanel == [stage |-> "none", rotate |-> FALSE, fields |-> FALSE, waiting |-> FALSE,
            values |-> NoAccount, input |-> NoAccount, bad |-> FALSE, ok |-> FALSE,
            post |-> 0]

TypeOK ==
    /\ ServerTypeOK
    /\ authed \in BOOLEAN
    /\ providers \in Providers
    /\ slot \in Slot
    /\ connect \in Panel
    /\ typed \in OrNone
    /\ moves \in 0..MaxMoves
    /\ raced \in BOOLEAN /\ expired \in BOOLEAN

\* boot(): a session is there and the list is asked for, or the sign-in shows.
Init ==
    /\ ServerInit
    /\ authed \in BOOLEAN
    /\ listing = [a \in Asker |-> IF a = "page" /\ authed THEN Listed ELSE NoListing]
    /\ providers = [Unread EXCEPT !.loading = authed]
    /\ slot = NoSlot
    /\ connect = NoPanel
    /\ typed = NoAccount
    /\ moves = 0
    /\ raced = FALSE /\ expired = FALSE

-----------------------------------------------------------------------------
(* What is on the page: renderClouds(), renderJack(), renderConnect(),     *)
(* renderInventory(), as the set of its controls.                          *)

Connected == providers.known /\ providers.acct # NoAccount

JackControls ==
    IF ~providers.known THEN {}
    ELSE IF Connected THEN {"rotate", "disconnect"} ELSE {"plug in"}

PanelControls ==
    CASE connect.stage = "form" -> {"type", "submit", "cancel"}
      [] connect.stage = "done" /\ ~connect.ok -> {"try again", "cancel"}
      [] connect.stage = "error" /\ connect.fields -> {"try again", "cancel"}
      [] connect.stage = "error" /\ ~connect.fields -> {"retry form", "cancel"}
      [] OTHER -> {}

\* A first connect takes the stage; a rotation leaves the inventory there.
FormBusy == connect.stage \notin {"none", "done"} /\ ~connect.rotate
InventoryShown == Connected /\ ~FormBusy /\ ~providers.err

InventoryControls ==
    (IF slot.loading THEN {} ELSE {"refresh"})
    \cup (IF slot.err /\ slot.of = NoAccount THEN {"refresh"} ELSE {})

Controls ==
    IF ~authed THEN {"sign in"}
    ELSE IF del = "asking" THEN {"confirm", "dismiss"}
    ELSE {"sign out"} \cup
         IF providers.err THEN {"read again"}
         ELSE JackControls \cup PanelControls
              \cup (IF InventoryShown THEN InventoryControls ELSE {})

Click(control) == control \in Controls /\ moves < MaxMoves /\ moves' = moves + 1

\* render(): the form is built anew from connect.values.
Redrawn(c) == [c EXCEPT !.input = c.values]
Retyped(c) == IF c.input = c.values \/ c.stage # "form" THEN typed ELSE NoAccount
Redraw == connect' = Redrawn(connect) /\ typed' = Retyped(connect)

-----------------------------------------------------------------------------
(* loadProviders() and loadInventory(), up to their await.                 *)

\* Inventory requests are begun, with these values of refresh, if there are
\* threads for them.
Begin(refreshes) ==
    LET free == SetToSortSeq({t \in Thread \ {Drawing} : scan[t].stage = "idle"}, <)
    IN  /\ Len(refreshes) <= Len(free)
        /\ scan' = [t \in Thread |->
                      IF \E i \in DOMAIN refreshes : free[i] = t
                      THEN Scanning(refreshes[CHOOSE i \in DOMAIN refreshes : free[i] = t])
                      ELSE scan[t]]

Loading(s) == [s EXCEPT !.have = TRUE, !.loading = TRUE, !.err = FALSE]

\* loadInventory() with each of these values of refresh, one after the other.
LoadInventory(refreshes) ==
    /\ Begin(refreshes)
    /\ slot' = IF refreshes = <<>> THEN slot ELSE Loading(slot)

LoadProviders(a) ==
    /\ listing[a].stage = "idle"
    /\ listing' = [listing EXCEPT ![a] = Listed]
    /\ providers' = [providers EXCEPT !.loading = TRUE, !.err = FALSE]

Overlaps(a) == \E b \in Asker \ {a} : listing[b].stage # "idle"

\* submitConnect() goes on after the list: a first connect scans anew.
Anew(a, acct) == IF a = "connect" /\ acct # NoAccount THEN <<TRUE>> ELSE <<>>

\* The list arrives; an inventory that is not there is asked for.
HandleListing(a) ==
    LET acct  == listing[a].acct
        first == IF acct # NoAccount /\ ~slot.have THEN <<FALSE>> ELSE <<>>
    IN  /\ listing[a].stage = "answered"
        /\ listing' = [listing EXCEPT ![a] = NoListing]
        /\ providers' = [providers EXCEPT !.known = TRUE, !.acct = acct, !.loading = FALSE]
        /\ LoadInventory(first \o Anew(a, acct))
        /\ Redraw
        /\ UNCHANGED <<rotated, record, file, post, del, authed, moves, raced, expired>>

\* A scan's answer arrives; the slot that asked may be gone.
HandleScan(t) ==
    LET s == scan[t] IN
    /\ s.stage = "answered"
    /\ scan' = [scan EXCEPT ![t] = NoScan]
    /\ slot' = IF ~s.wanted THEN slot
               ELSE IF s.acct = NoAccount
               THEN [slot EXCEPT !.err = TRUE, !.loading = FALSE]
               ELSE [slot EXCEPT !.of = s.acct, !.crossed = s.crossed, !.loading = FALSE]
    /\ Redraw
    /\ UNCHANGED <<rotated, record, file, post, del, listing, authed, providers>>
    /\ UNCHANGED <<moves, raced, expired>>

-----------------------------------------------------------------------------
(* The connect panel.                                                      *)

\* The checklist of this panel has not come to its end.
Unfinished(c) == c.stage \in {"checking", "showing"} \/ (c.stage = "done" /\ c.ok)

Panels == UNCHANGED <<record, file, del, listing, scan, rotated, authed, providers, slot>>

\* openConnect(), from the jack, the box of no connection, or a form that
\* could not be loaded: it takes the place of whatever panel was there.
OpenConnect ==
    /\ \/ Click("plug in") /\ connect' = [NoPanel EXCEPT !.stage = "loading", !.waiting = TRUE]
       \/ Click("rotate") /\ connect' = [NoPanel EXCEPT !.stage = "loading", !.waiting = TRUE,
                                                        !.rotate = TRUE]
       \/ Click("retry form") /\ connect' = [NoPanel EXCEPT !.stage = "loading",
                                               !.waiting = TRUE, !.rotate = connect.rotate]
    /\ typed' = NoAccount
    /\ raced' = (raced \/ Unfinished(connect))
    /\ Panels /\ UNCHANGED <<post, expired>>

\* Mutant: the form's stage has another name.
HandleFormReady ==
    /\ connect.stage = "loading" /\ connect.waiting
    /\ connect' = [connect EXCEPT !.stage = "ready", !.fields = TRUE, !.waiting = FALSE]
    /\ Panels /\ UNCHANGED <<post, typed, moves, raced, expired>>

HandleForm ==
    /\ connect.stage = "loading" /\ connect.waiting
    /\ connect' = [connect EXCEPT !.stage = "form", !.fields = TRUE, !.waiting = FALSE]
    /\ Panels /\ UNCHANGED <<post, typed, moves, raced, expired>>

Type(a) ==
    /\ "type" \in Controls
    /\ connect' = [connect EXCEPT !.input = a]
    /\ typed' = a
    /\ Panels /\ UNCHANGED <<post, moves, raced, expired>>

\* Mutant: what was typed is not remembered.
SubmitForgets(n) ==
    /\ Click("submit") /\ connect.input # NoAccount
    /\ post[n].stage = "none" /\ \A i \in 1..(n - 1) : post[i].stage # "none"
    /\ post' = [post EXCEPT ![n] = [stage |-> "checking", acct |-> connect.input]]
    /\ connect' = [connect EXCEPT !.stage = "checking", !.bad = FALSE, !.post = n]
    /\ Panels /\ UNCHANGED <<typed, raced, expired>>

\* submitConnect() with the required fields filled in.
Submit(n) ==
    /\ Click("submit") /\ connect.input # NoAccount
    /\ post[n].stage = "none" /\ \A i \in 1..(n - 1) : post[i].stage # "none"
    /\ post' = [post EXCEPT ![n] = [stage |-> "checking", acct |-> connect.input]]
    /\ connect' = [connect EXCEPT !.stage = "checking", !.bad = FALSE, !.post = n,
                                  !.values = connect.input]
    /\ Panels /\ UNCHANGED <<typed, raced, expired>>

\* ... and without.
SubmitEmpty ==
    /\ Click("submit") /\ connect.input = NoAccount
    /\ connect' = [connect EXCEPT !.bad = TRUE, !.values = NoAccount]
    /\ Panels /\ UNCHANGED <<post, typed, raced, expired>>

Current(n) == connect.post = n /\ connect.stage \in {"checking", "showing", "done"}

\* The report arrives; it is dropped when the panel is another one by now.
HandleReport(n) ==
    /\ post[n].stage \in {"passed", "failed"}
    /\ post' = [post EXCEPT ![n].stage = "taken"]
    /\ connect' = IF Current(n)
                  THEN [connect EXCEPT !.stage = "showing", !.ok = post[n].stage = "passed"]
                  ELSE connect
    /\ Panels /\ UNCHANGED <<typed, moves, raced, expired>>

\* The checks have been filled in one at a time.
ShowReport ==
    /\ connect.stage = "showing"
    /\ connect' = [connect EXCEPT !.stage = "done"]
    /\ Panels /\ UNCHANGED <<post, typed, moves, raced, expired>>

\* Mutant: after a rotation the panel closes without reading the list.
FinishQuietly ==
    /\ connect.stage = "done" /\ connect.ok
    /\ connect' = NoPanel /\ typed' = NoAccount
    /\ IF connect.rotate THEN UNCHANGED <<listing, providers>> ELSE LoadProviders("connect")
    /\ raced' = (raced \/ Overlaps("connect"))
    /\ UNCHANGED <<rotated, record, file, post, del, scan, authed, slot, moves, expired>>

\* A connected line closes its panel and reads the list.
Finish ==
    LET a == IF connect.rotate THEN "rotate" ELSE "connect" IN
    /\ connect.stage = "done" /\ connect.ok
    /\ connect' = NoPanel /\ typed' = NoAccount
    /\ LoadProviders(a)
    /\ raced' = (raced \/ Overlaps(a))
    /\ UNCHANGED <<rotated, record, file, post, del, scan, authed, slot, moves, expired>>

\* "Try again" and "Back": the form, with the values of the last attempt.
TryAgain ==
    /\ Click("try again")
    /\ connect' = Redrawn([connect EXCEPT !.stage = "form", !.bad = FALSE, !.ok = FALSE,
                                          !.post = 0])
    /\ Panels /\ UNCHANGED <<post, typed, raced, expired>>

\* "Cancel" and "Close".
Cancel ==
    /\ Click("cancel")
    /\ connect' = NoPanel /\ typed' = NoAccount
    /\ Panels /\ UNCHANGED <<post, raced, expired>>

-----------------------------------------------------------------------------
(* Disconnect, the list, the inventory, the session.                       *)

Dialog == \/ Click("disconnect") /\ del = "idle" /\ del' = "asking"
          \/ Click("dismiss") /\ del' = "idle"
          \/ Click("confirm") /\ del' = "sent"

DisconnectProvider ==
    /\ Dialog
    /\ UNCHANGED <<rotated, record, file, post, listing, scan, pageVars, typed, raced, expired>>

\* Mutant: the inventory on the page outlives the connection.
HandleDisconnectKeepsSlot ==
    /\ del = "answered"
    /\ del' = "idle"
    /\ connect' = NoPanel /\ typed' = NoAccount
    /\ LoadProviders("disconnect")
    /\ raced' = (raced \/ Overlaps("disconnect") \/ Unfinished(connect))
    /\ UNCHANGED <<rotated, record, file, post, scan, slot, authed, moves, expired>>

\* The DELETE is done: forget the inventory, close the panel, read the list.
HandleDisconnect ==
    /\ del = "answered"
    /\ del' = "idle"
    /\ slot' = NoSlot
    /\ scan' = [t \in Thread |-> [scan[t] EXCEPT !.wanted = FALSE]]
    /\ connect' = NoPanel /\ typed' = NoAccount
    /\ LoadProviders("disconnect")
    /\ raced' = (raced \/ Overlaps("disconnect") \/ Unfinished(connect))
    /\ UNCHANGED <<rotated, record, file, post, authed, moves, expired>>

ReadAgain ==
    /\ Click("read again")
    /\ LoadProviders("page")
    /\ Redraw
    /\ raced' = (raced \/ Overlaps("page"))
    /\ UNCHANGED <<rotated, record, file, post, del, scan, authed, slot, expired>>

\* Refresh, and the Retry of an inventory that failed.
Refresh ==
    /\ Click("refresh")
    /\ LoadInventory(<<TRUE>>)
    /\ Redraw
    /\ UNCHANGED <<rotated, record, file, post, del, listing, authed, providers, raced, expired>>

\* The sign-in and, with it, a new list.
SignIn ==
    /\ Click("sign in")
    /\ authed' = TRUE
    /\ LoadProviders("page")
    /\ Redraw
    /\ raced' = (raced \/ Overlaps("page"))
    /\ UNCHANGED <<rotated, record, file, post, del, scan, slot, expired>>

\* onUnauthorised(): the sign-in takes the place of the page.
SignOut ==
    /\ Click("sign out")
    /\ authed' = FALSE
    /\ Redraw
    /\ UNCHANGED <<serverVars, providers, slot, raced, expired>>

-----------------------------------------------------------------------------
(* request() throws: no answer, a refusal, or 401 (onUnauthorised()).      *)

Fails(refused) == /\ moves < MaxMoves /\ moves' = moves + 1
                  /\ raced' = TRUE
                  /\ authed' = (authed /\ ~refused)
                  /\ expired' = (expired \/ refused)

LoseListing(a, refused) ==
    /\ listing[a].stage # "idle" /\ Fails(refused)
    /\ listing' = [listing EXCEPT ![a] = NoListing]
    /\ providers' = [providers EXCEPT !.err = @ \/ ~refused, !.loading = FALSE]
    /\ LoadInventory(Anew(a, providers.acct))
    /\ Redraw
    /\ UNCHANGED <<rotated, record, file, post, del>>

\* The request does not arrive.
LoseScan(t, refused) ==
    /\ scan[t].stage = "asked" /\ Fails(refused)
    /\ scan' = [scan EXCEPT ![t] = NoScan]
    /\ slot' = IF scan[t].wanted
               THEN [slot EXCEPT !.err = @ \/ ~refused, !.loading = FALSE] ELSE slot
    /\ Redraw
    /\ UNCHANGED <<rotated, record, file, post, del, listing, providers>>

\* After a 401 the panel is left as loading.
LoseForm(refused) ==
    /\ connect.stage = "loading" /\ connect.waiting /\ Fails(refused)
    /\ connect' = [connect EXCEPT !.stage = IF refused THEN @ ELSE "error", !.waiting = FALSE]
    /\ UNCHANGED <<serverVars, providers, slot, typed>>

\* Mutant: a failed request leaves the panel as checking.
LosePostSilently(n, refused) ==
    /\ post[n].stage = "checking" /\ Fails(refused)
    /\ post' = [post EXCEPT ![n].stage = "taken"]
    /\ UNCHANGED <<rotated, record, file, del, listing, scan, providers, slot, connect, typed>>

\* ... or as checking; the request did not arrive.
LosePost(n, refused) ==
    /\ post[n].stage = "checking" /\ Fails(refused)
    /\ post' = [post EXCEPT ![n].stage = "taken"]
    /\ connect' = IF Current(n) /\ ~refused
                  THEN [connect EXCEPT !.stage = "error"] ELSE connect
    /\ UNCHANGED <<rotated, record, file, del, listing, scan, providers, slot, typed>>

\* The request, or its answer, is lost.
LoseDelete(refused) ==
    /\ del = "sent" \/ (del = "answered" /\ ~refused)
    /\ Fails(refused)
    /\ del' = "idle"
    /\ UNCHANGED <<rotated, record, file, post, listing, scan, providers, slot, connect, typed>>

Lose == \E refused \in BOOLEAN :
            \/ \E a \in Asker : LoseListing(a, refused)
            \/ \E t \in Thread : LoseScan(t, refused)
            \/ \E n \in Post : LosePost(n, refused)
            \/ LoseForm(refused) \/ LoseDelete(refused)

-----------------------------------------------------------------------------
\* The server, without the passing of time and what asks for drawings.
ServerGoes == \/ Delete
              \/ \E n \in Post : Check(n)
              \/ \E a \in Asker : AnswerListing(a)
              \/ \E t \in Thread \ {Drawing} : Serve(t)

Unseen == UNCHANGED <<pageVars, typed, moves, raced, expired>>

\* What ends by itself: requests, their answers, the timers.
Goes == \/ ServerGoes /\ Unseen
        \/ \E a \in Asker : HandleListing(a)
        \/ \E t \in Thread : HandleScan(t)
        \/ \E n \in Post : HandleReport(n)
        \/ HandleForm \/ ShowReport \/ Finish \/ HandleDisconnect

Operate == \/ OpenConnect \/ SubmitEmpty \/ TryAgain \/ Cancel
           \/ \E a \in Account : Type(a)
           \/ \E n \in Post : Submit(n)
           \/ DisconnectProvider \/ ReadAgain \/ Refresh \/ SignIn \/ SignOut

Next == Goes \/ ((Draw \/ FileAges) /\ Unseen) \/ Operate \/ Lose

Spec == Init /\ [][Next]_vars

FairSpec == Spec /\ WF_vars(Goes)

-----------------------------------------------------------------------------
(* The inventory on disk is the connected account's: a scan that was under *)
(* way when the provider was disconnected or given other credentials saves *)
(* its own later (main.py:284), and a rotation to another account keeps    *)
(* the file; nothing else makes them differ (main.py:255, store.py:135).   *)
FileIsOwn == file.of # NoAccount /\ ~file.crossed /\ LoopIsFree => file.of = record

\* Nothing is under way that changes the connection or asks for it.
Quiet == /\ del \in {"idle", "asking"} /\ ~Unfinished(connect)
         /\ \A a \in Asker : listing[a].stage = "idle"
         /\ \A n \in Post : post[n].stage \in {"none", "taken"}

(* Once nothing is under way the jack shows what is stored: a checklist or *)
(* a disconnect that changed it has read the list again (app.js:722, 910). *)
JackIsTrue == Quiet /\ providers.known /\ ~raced => providers.acct = record

(* The inventory under a jack is the one of the account on the jack,       *)
(* whatever order the answers of lists and scans arrive in, except for the *)
(* late scans and rotations above and for lists that overlapped            *)
(* (app.js:514-547, 718).                                                  *)
InventoryIsOwn ==
    Quiet /\ InventoryShown /\ slot.of # NoAccount /\ ~slot.crossed /\ ~rotated /\ ~raced
    => slot.of = providers.acct

(* What was typed is in the form until it is submitted, and after a failed *)
(* attempt: "remember what was typed so a failed attempt can be corrected  *)
(* rather than retyped" (app.js:859).  A redraw before the first attempt   *)
(* erases it (app.js:746-750, where typed is forgotten here).              *)
FormKeepsTyped == connect.stage = "form" /\ typed # NoAccount => connect.input = typed

(* A panel that is loading or checking, and has no control of its own,     *)
(* moves on by itself, unless a request was refused with 401 (app.js:700,  *)
(* 883), after which only a jack leads out of it.                          *)
PanelMovesOn ==
    connect.stage \in {"loading", "checking"}
    ~> (connect.stage \notin {"loading", "checking"} \/ expired)
=============================================================================
