-------------------------- MODULE CloudsPage_proofs -------------------------
(***************************************************************************)
(* The inventory on disk and the one on the page are the connected         *)
(* account's, the jack says what is stored, and the form keeps what was    *)
(* typed, for any accounts and any number of requests and clicks.          *)
(*                                                                         *)
(* A scan puts its own account into the file, so the invariant has to say  *)
(* of the scans that are under way what it says of the file: one that no   *)
(* change of the connection has crossed scans the stored account.  In the  *)
(* same way the invariants of the page say of the answers under way what   *)
(* they say of what is shown, or that a later list is due.                 *)
(***************************************************************************)
EXTENDS CloudsPage, TLAPS

ScanFields == {"stage", "refresh", "acct", "crossed", "kept", "old", "wanted"}

\* The values of the server's variables are functions and records.
Shapes ==
    /\ DOMAIN file = {"of", "fresh", "crossed"}
    /\ scan = [t \in Thread |-> scan[t]]
    /\ \A t \in Thread : DOMAIN scan[t] = ScanFields

\* An uncrossed scan scans the stored account, and there is one.
ScansAreOwn ==
    \A t \in Thread : scan[t].stage = "scanning"
                      => /\ scan[t].acct # NoAccount
                         /\ ~scan[t].crossed => scan[t].acct = record

FileInv == Shapes /\ ScansAreOwn /\ FileIsOwn

\* What every step does that is not the server's: it may begin scans, take
\* answers and forget who asked, but scans nothing itself.
Watches ==
    /\ UNCHANGED <<record, file>>
    /\ del' = "popped" <=> del = "popped"
    /\ scan' = [t \in Thread |-> scan'[t]]
    /\ \A t \in Thread :
        /\ DOMAIN scan'[t] = ScanFields
        /\ scan'[t].stage = "scanning" =>
            /\ scan[t].stage = "scanning"
            /\ scan'[t].acct = scan[t].acct /\ scan'[t].crossed = scan[t].crossed

\* Nothing is stored and nothing is scanned at first that is not of the record.
LEMMA FileInvInit == Init => FileInv
<1> SUFFICES ASSUME ServerInit PROVE FileInv
  BY DEF Init
<1>1. PICK f : file = NoFile \/ file = [NoFile EXCEPT !.of = record, !.fresh = f]
  BY DEF ServerInit
<1>2. DOMAIN file = {"of", "fresh", "crossed"}
      /\ (file.of = NoAccount \/ file.of = record)
  <2>1. DOMAIN NoFile = {"of", "fresh", "crossed"} /\ NoFile.of = NoAccount
    BY DEF NoFile
  <2>2. CASE file = [NoFile EXCEPT !.of = record, !.fresh = f]
    BY <2>1, <2>2
  <2>3. QED
    BY <1>1, <2>1, <2>2
<1>3. DOMAIN NoScan = ScanFields /\ NoScan.stage = "idle"
  BY DEF NoScan, ScanFields
<1>4. scan = [t \in Thread |-> NoScan]
  BY DEF ServerInit
<1>5. Shapes /\ ScansAreOwn
  BY <1>2, <1>3, <1>4 DEF Shapes, ScansAreOwn
<1>6. QED
  BY <1>2, <1>5 DEF FileInv, FileIsOwn

\* A step that only watches keeps the invariant.
LEMMA WatchingKeeps == ASSUME FileInv, Watches PROVE FileInv'
<1>1. Shapes'
  BY DEF FileInv, Shapes, Watches
<1>2. ScansAreOwn'
  BY DEF FileInv, ScansAreOwn, Watches
<1>3. FileIsOwn'
  BY DEF FileInv, FileIsOwn, Watches, LoopIsFree
<1>4. QED
  BY <1>1, <1>2, <1>3 DEF FileInv

\* A step that leaves the scans alone, and the DELETE out of its handler.
LEMMA ElsewhereWatches ==
    ASSUME Shapes, UNCHANGED <<record, file, scan>>, del' = "popped" <=> del = "popped"
    PROVE  Watches
BY DEF Shapes, Watches

\* Beginning scans: they are asked for, not scanning.
LEMMA BeginWatches ==
    ASSUME Shapes, NEW refreshes, Begin(refreshes), UNCHANGED <<record, file, del>>
    PROVE  Watches
<1> DEFINE sorted == SetToSortSeq({t \in Thread \ {Drawing} : scan[t].stage = "idle"}, <)
           begun(t) == \E i \in DOMAIN refreshes : sorted[i] = t
           asked(t) == Scanning(refreshes[CHOOSE i \in DOMAIN refreshes : sorted[i] = t])
<1>1. scan' = [t \in Thread |-> IF begun(t) THEN asked(t) ELSE scan[t]]
  BY DEF Begin
<1>2. \A r : Scanning(r).stage = "asked" /\ DOMAIN Scanning(r) = ScanFields
  BY DEF Scanning, NoScan, ScanFields
<1>3. \A t : asked(t).stage = "asked" /\ DOMAIN asked(t) = ScanFields
  BY <1>2
<1> HIDE DEF begun, asked
<1>4. scan' = [t \in Thread |-> scan'[t]]
      /\ \A t \in Thread : scan'[t] = scan[t] \/ scan'[t] = asked(t)
  BY <1>1
<1>5. QED
  BY <1>3, <1>4 DEF Shapes, Watches

\* A request's thread is idle again.
LEMMA TakenWatches ==
    ASSUME Shapes, NEW t \in Thread, scan' = [scan EXCEPT ![t] = NoScan],
           UNCHANGED <<record, file, del>>
    PROVE  Watches
<1>1. NoScan.stage = "idle" /\ DOMAIN NoScan = ScanFields
  BY DEF NoScan, ScanFields
<1>2. scan' = [u \in Thread |-> scan'[u]]
      /\ \A u \in Thread : scan'[u] = IF u = t THEN NoScan ELSE scan[u]
  BY DEF Shapes
<1>3. QED
  BY <1>1, <1>2 DEF Shapes, Watches

\* The page's steps and the failures.
LEMMA PageWatches ==
    ASSUME Shapes,
           \/ \E a \in Asker : HandleListing(a)
           \/ \E t \in Thread : HandleScan(t)
           \/ \E n \in Post : HandleReport(n)
           \/ HandleForm \/ ShowReport \/ Finish \/ HandleDisconnect
           \/ Operate \/ Lose
    PROVE  Watches
<1>1. ASSUME NEW a \in Asker, HandleListing(a) PROVE Watches
  BY <1>1, BeginWatches DEF HandleListing, LoadInventory
<1>2. ASSUME NEW t \in Thread, HandleScan(t) PROVE Watches
  BY <1>2, TakenWatches DEF HandleScan
<1>3. ASSUME NEW n \in Post, HandleReport(n) PROVE Watches
  BY <1>3, ElsewhereWatches DEF HandleReport, Panels
<1>4. CASE HandleForm \/ ShowReport \/ Finish
  BY <1>4, ElsewhereWatches DEF HandleForm, ShowReport, Finish, Panels
<1>5. CASE HandleDisconnect
  <2>1. scan' = [t \in Thread |-> [scan[t] EXCEPT !.wanted = FALSE]]
        /\ UNCHANGED <<record, file>> /\ del = "answered" /\ del' = "idle"
    BY <1>5 DEF HandleDisconnect
  <2>2. ASSUME NEW t \in Thread
        PROVE  /\ DOMAIN scan'[t] = ScanFields /\ scan'[t].stage = scan[t].stage
               /\ scan'[t].acct = scan[t].acct /\ scan'[t].crossed = scan[t].crossed
    BY <2>1 DEF Shapes, ScanFields
  <2>3. scan' = [t \in Thread |-> scan'[t]]
    BY <2>1
  <2>4. QED
    BY <2>1, <2>2, <2>3 DEF Watches
<1>6. CASE Operate
  <2>1. CASE Refresh
    BY <2>1, BeginWatches DEF Refresh, LoadInventory
  <2>2. CASE DisconnectProvider
    <3>1. Dialog /\ UNCHANGED <<record, file, scan>>
      BY <2>2 DEF DisconnectProvider
    <3>2. del # "popped" /\ del' # "popped"
      <4>1. ASSUME NEW c \in {"confirm", "dismiss"}, c \in Controls PROVE del = "asking"
        BY <4>1 DEF Controls, JackControls, PanelControls, InventoryControls
      <4>2. QED
        BY <3>1, <4>1 DEF Dialog, Click
    <3>3. QED
      BY <3>1, <3>2, ElsewhereWatches
  <2>3. CASE OpenConnect \/ SubmitEmpty \/ TryAgain \/ Cancel
    BY <2>3, ElsewhereWatches DEF OpenConnect, SubmitEmpty, TryAgain, Cancel, Panels
  <2>4. CASE (\E a \in Account : Type(a)) \/ (\E n \in Post : Submit(n))
    BY <2>4, ElsewhereWatches DEF Type, Submit, Panels
  <2>5. CASE ReadAgain \/ SignIn \/ SignOut
    BY <2>5, ElsewhereWatches DEF ReadAgain, SignIn, SignOut, serverVars
  <2>6. QED
    BY <1>6, <2>1, <2>2, <2>3, <2>4, <2>5 DEF Operate
<1>7. CASE Lose
  <2>1. PICK refused \in BOOLEAN :
            \/ \E a \in Asker : LoseListing(a, refused)
            \/ \E t \in Thread : LoseScan(t, refused)
            \/ \E n \in Post : LosePost(n, refused)
            \/ LoseForm(refused) \/ LoseDelete(refused)
    BY <1>7 DEF Lose
  <2>2. ASSUME NEW a \in Asker, LoseListing(a, refused) PROVE Watches
    BY <2>2, BeginWatches DEF LoseListing, LoadInventory
  <2>3. ASSUME NEW t \in Thread, LoseScan(t, refused) PROVE Watches
    BY <2>3, TakenWatches DEF LoseScan
  <2>4. CASE (\E n \in Post : LosePost(n, refused)) \/ LoseForm(refused) \/ LoseDelete(refused)
    BY <2>4, ElsewhereWatches DEF LosePost, LoseForm, LoseDelete, serverVars
  <2>5. QED
    BY <2>1, <2>2, <2>3, <2>4
<1>8. QED
  BY <1>1, <1>2, <1>3, <1>4, <1>5, <1>6, <1>7

\* The connection changes to a: what it crosses is marked.
LEMMA Crossing ==
    ASSUME FileInv, NEW a, record' = a, scan' = CrossedScans(a)
    PROVE  /\ scan' = [t \in Thread |-> scan'[t]]
           /\ \A t \in Thread : DOMAIN scan'[t] = ScanFields
           /\ ScansAreOwn'
<1>1. ASSUME NEW t \in Thread
      PROVE  /\ DOMAIN scan'[t] = ScanFields
             /\ scan'[t].stage = scan[t].stage /\ scan'[t].acct = scan[t].acct
             /\ scan'[t].crossed = (scan[t].crossed
                                    \/ (Crosses(a) /\ scan[t].stage # "idle"))
  BY DEF CrossedScans, FileInv, Shapes, ScanFields
<1>2. ASSUME NEW t \in Thread, scan[t].stage = "scanning", ~scan'[t].crossed
      PROVE  scan[t].acct = a
  BY <1>1, <1>2 DEF Crosses, FileInv, ScansAreOwn
<1>3. ScansAreOwn'
  BY <1>1, <1>2 DEF FileInv, ScansAreOwn
<1>4. scan' = [t \in Thread |-> scan'[t]]
  BY DEF CrossedScans
<1>5. QED
  BY <1>1, <1>3, <1>4

\* A drawing has its thread.
LEMMA DrawingIsThread == Drawing \in Thread
BY ConnectionsAssumption DEF Drawing, Thread

\* A scan gets its answer.
LEMMA AnswerWatches ==
    ASSUME Shapes, NEW t \in Thread, NEW acct, NEW crossed, Answer(t, acct, crossed),
           UNCHANGED <<record, file, del>>
    PROVE  Watches
<1>1. DOMAIN scan'[t] = ScanFields /\ scan'[t].stage \in {"answered", "idle"}
  BY DEF Answer, NoScan, Shapes, ScanFields
<1>2. \A u \in Thread \ {t} : scan'[u] = scan[u]
  BY DEF Answer, Shapes
<1>3. scan' = [u \in Thread |-> scan'[u]]
  BY DEF Answer, Shapes
<1>4. QED
  BY <1>1, <1>2, <1>3 DEF Shapes, Watches

\* The checklist.
LEMMA CheckKeeps == ASSUME FileInv, NEW n \in Post, Check(n) PROVE FileInv'
<1>1. CASE CheckFails(n)
  BY <1>1, ElsewhereWatches, WatchingKeeps DEF CheckFails, FileInv
<1>2. CASE CheckPasses(n)
  <2> DEFINE a == post[n].acct
             c == Crosses(a) /\ file.of # NoAccount
  <2>1. LoopIsFree /\ record' = a /\ scan' = CrossedScans(a) /\ UNCHANGED del
        /\ file' = [file EXCEPT !.crossed = @ \/ c]
    BY <1>2 DEF CheckPasses
  <2> HIDE DEF a
  <2>2. DOMAIN file' = {"of", "fresh", "crossed"} /\ file'.of = file.of
        /\ file'.crossed = (file.crossed \/ c)
    BY <2>1 DEF FileInv, Shapes
  <2>3. Shapes' /\ ScansAreOwn'
    BY <2>1, <2>2, Crossing DEF Shapes
  <2>4. FileIsOwn'
    BY <2>1, <2>2 DEF FileInv, FileIsOwn, LoopIsFree, Crosses
  <2>5. QED
    BY <2>3, <2>4 DEF FileInv
<1>3. QED
  BY <1>1, <1>2 DEF Check

\* The two steps of a disconnect.
LEMMA DeleteKeeps == ASSUME FileInv, Delete PROVE FileInv'
<1>1. CASE DeleteRecord
  <2>1. Shapes' /\ ScansAreOwn'
    BY <1>1, Crossing DEF DeleteRecord, FileInv, Shapes
  <2>2. FileIsOwn'
    BY <1>1 DEF DeleteRecord, FileIsOwn, LoopIsFree
  <2>3. QED
    BY <2>1, <2>2 DEF FileInv
<1>2. CASE DeleteFile
  <2>1. Shapes' /\ ScansAreOwn'
    BY <1>2 DEF DeleteFile, NoFile, FileInv, Shapes, ScansAreOwn
  <2>2. FileIsOwn'
    BY <1>2 DEF DeleteFile, NoFile, FileIsOwn
  <2>3. QED
    BY <2>1, <2>2 DEF FileInv
<1>3. QED
  BY <1>1, <1>2 DEF Delete

\* The inventory's handler and its thread.
LEMMA ServeKeeps == ASSUME FileInv, NEW t \in Thread, Serve(t) PROVE FileInv'
<1>1. CASE BeginScan(t)
  <2>1. CASE \E acct, crossed : Answer(t, acct, crossed)
    BY <1>1, <2>1, AnswerWatches, WatchingKeeps DEF BeginScan, FileInv
  <2>2. CASE scan' = [scan EXCEPT ![t].stage = "waiting", ![t].kept = file.of,
                                  ![t].old = file.crossed]
    <3>1. DOMAIN scan'[t] = ScanFields /\ scan'[t].stage = "waiting"
      BY <2>2 DEF FileInv, Shapes, ScanFields
    <3>2. scan' = [u \in Thread |-> scan'[u]]
          /\ \A u \in Thread \ {t} : scan'[u] = scan[u]
      BY <2>2 DEF FileInv, Shapes
    <3>3. Watches
      BY <1>1, <3>1, <3>2 DEF BeginScan, FileInv, Shapes, Watches
    <3>4. QED
      BY <3>3, WatchingKeeps
  <2>3. QED
    BY <1>1, <2>1, <2>2 DEF BeginScan
<1>2. CASE LockScan(t)
  <2>1. CASE \E acct, crossed : Answer(t, acct, crossed)
    BY <1>2, <2>1, AnswerWatches, WatchingKeeps DEF LockScan, FileInv
  <2>2. CASE /\ record # NoAccount
             /\ scan' = [scan EXCEPT ![t].stage = "scanning", ![t].acct = record,
                                     ![t].crossed = FALSE]
    <3>1. DOMAIN scan'[t] = ScanFields /\ scan'[t].acct = record
      BY <2>2 DEF FileInv, Shapes, ScanFields
    <3>2. scan' = [u \in Thread |-> scan'[u]]
          /\ \A u \in Thread \ {t} : scan'[u] = scan[u]
      BY <2>2 DEF FileInv, Shapes
    <3>3. UNCHANGED <<record, file, del>>
      BY <1>2 DEF LockScan
    <3>4. Shapes'
      BY <3>1, <3>2, <3>3 DEF FileInv, Shapes
    <3>5. ScansAreOwn'
      BY <2>2, <3>1, <3>2, <3>3 DEF FileInv, ScansAreOwn
    <3>6. FileIsOwn'
      BY <3>3 DEF FileInv, FileIsOwn, LoopIsFree
    <3>7. QED
      BY <3>4, <3>5, <3>6 DEF FileInv
  <2>3. QED
    BY <1>2, <2>1, <2>2 DEF LockScan
<1>3. CASE SaveScan(t)
  <2>1. file' = [of |-> scan[t].acct, fresh |-> TRUE, crossed |-> scan[t].crossed]
        /\ Answer(t, scan[t].acct, scan[t].crossed) /\ UNCHANGED <<record, del>>
        /\ scan[t].stage = "scanning"
    BY <1>3 DEF SaveScan
  <2>2. DOMAIN scan'[t] = ScanFields /\ scan'[t].stage \in {"answered", "idle"}
    BY <2>1 DEF Answer, NoScan, FileInv, Shapes, ScanFields
  <2>3. scan' = [u \in Thread |-> scan'[u]]
        /\ \A u \in Thread \ {t} : scan'[u] = scan[u]
    BY <2>1 DEF Answer, FileInv, Shapes
  <2>4. Shapes'
    BY <2>1, <2>2, <2>3 DEF FileInv, Shapes
  <2>5. ScansAreOwn'
    BY <2>1, <2>2, <2>3 DEF FileInv, ScansAreOwn
  <2>6. FileIsOwn'
    BY <2>1 DEF FileInv, FileIsOwn, ScansAreOwn
  <2>7. QED
    BY <2>4, <2>5, <2>6 DEF FileInv
<1>4. CASE ScanFails(t)
  BY <1>4, AnswerWatches, WatchingKeeps DEF ScanFails, FileInv
<1>5. QED
  BY <1>1, <1>2, <1>3, <1>4 DEF Serve

\* A drawing's scan.
LEMMA DrawKeeps == ASSUME FileInv, Draw PROVE FileInv'
<1>1. CASE BeginDrawing
  <2>1. PICK refresh \in BOOLEAN :
           scan' = [scan EXCEPT ![Drawing] = [NoScan EXCEPT !.stage = "waiting",
                                                           !.refresh = refresh]]
    BY <1>1 DEF BeginDrawing
  <2>2. DOMAIN scan'[Drawing] = ScanFields /\ scan'[Drawing].stage = "waiting"
    BY <2>1, DrawingIsThread DEF FileInv, Shapes, NoScan, ScanFields
  <2>3. scan' = [u \in Thread |-> scan'[u]]
        /\ \A u \in Thread \ {Drawing} : scan'[u] = scan[u]
    BY <2>1 DEF FileInv, Shapes
  <2>4. Watches
    BY <1>1, <2>2, <2>3 DEF BeginDrawing, FileInv, Shapes, Watches
  <2>5. QED
    BY <2>4, WatchingKeeps
<1>2. CASE ~BeginDrawing
  BY <1>2, ServeKeeps, DrawingIsThread DEF Draw, Serve
<1>3. QED
  BY <1>1, <1>2

\* Every step keeps the invariant.
LEMMA FileInvStep == FileInv /\ [Next]_vars => FileInv'
<1> SUFFICES ASSUME FileInv, [Next]_vars PROVE FileInv'
  OBVIOUS
<1>1. CASE ServerGoes /\ Unseen
  <2>1. ASSUME NEW a \in Asker, AnswerListing(a) PROVE FileInv'
    BY <2>1, ElsewhereWatches, WatchingKeeps DEF AnswerListing, FileInv
  <2>2. QED
    BY <1>1, <2>1, DeleteKeeps, CheckKeeps, ServeKeeps DEF ServerGoes
<1>2. CASE FileAges /\ Unseen
  <2>1. file' = [file EXCEPT !.fresh = FALSE] /\ UNCHANGED <<record, del, scan>>
    BY <1>2 DEF FileAges
  <2>2. DOMAIN file' = DOMAIN file /\ file'.of = file.of /\ file'.crossed = file.crossed
    BY <2>1 DEF FileInv, Shapes
  <2>3. QED
    BY <2>1, <2>2 DEF FileInv, Shapes, ScansAreOwn, FileIsOwn, LoopIsFree
<1>3. CASE UNCHANGED vars
  BY <1>3, ElsewhereWatches, WatchingKeeps DEF vars, serverVars, FileInv
<1>4. CASE Draw
  BY <1>4, DrawKeeps
<1>5. QED
  BY <1>1, <1>2, <1>3, <1>4, PageWatches, WatchingKeeps DEF Next, Goes, FileInv

\* The inventory on disk is of the stored account, unless it was scanned or
\* stored across a change of the connection (main.py:255, 284; store.py:135).
THEOREM FileFollowsRecord == Spec => []FileIsOwn
<1>1. FileInv => FileIsOwn
  BY DEF FileInv
<1>2. QED
  BY <1>1, FileInvInit, FileInvStep, PTL DEF Spec

-----------------------------------------------------------------------------
(* What was typed moves: into the form, with a submit into the values the  *)
(* panel remembers while there is no form, and back.                       *)
PanelFields == {"stage", "rotate", "fields", "waiting", "values", "input", "bad", "ok", "post"}

Remembers(c, what) ==
    what # NoAccount =>
        /\ c.stage \notin {"none", "loading"}
        /\ IF c.stage = "form" THEN c.input = what ELSE c.values = what

FormInv == DOMAIN connect = PanelFields /\ Remembers(connect, typed)

\* Nothing is typed at first.
LEMMA FormInvInit == Init => FormInv
BY DEF Init, FormInv, NoPanel, PanelFields, Remembers

\* The panel is closed or replaced by another, and what was typed is gone.
LEMMA ClearedKeeps == ASSUME DOMAIN connect' = PanelFields, typed' = NoAccount PROVE FormInv'
BY DEF FormInv, Remembers

\* A panel that keeps its stage's form or values.
LEMMA SameKeeps ==
    ASSUME FormInv, UNCHANGED typed, DOMAIN connect' = PanelFields,
           connect'.values = connect.values, connect.stage # "form", connect'.stage # "form",
           connect.stage \in {"none", "loading"} \/ connect'.stage \notin {"none", "loading"}
    PROVE  FormInv'
BY DEF FormInv, Remembers

\* A redraw erases what was typed since the last submit.
LEMMA RedrawKeeps == ASSUME FormInv, Redraw PROVE FormInv'
<1>1. /\ DOMAIN connect' = PanelFields /\ connect'.stage = connect.stage
      /\ connect'.values = connect.values /\ connect'.input = connect.values
  BY DEF Redraw, Redrawn, FormInv, PanelFields
<1>2. typed' = IF connect.input = connect.values \/ connect.stage # "form"
               THEN typed ELSE NoAccount
  BY DEF Redraw, Retyped
<1>3. QED
  BY <1>1, <1>2 DEF FormInv, Remembers

\* A new panel.
LEMMA NewPanels ==
    /\ DOMAIN NoPanel = PanelFields
    /\ \A s, w : DOMAIN [NoPanel EXCEPT !.stage = s, !.waiting = w] = PanelFields
    /\ \A s, w, r : DOMAIN [NoPanel EXCEPT !.stage = s, !.waiting = w, !.rotate = r] = PanelFields
BY DEF NoPanel, PanelFields

\* The controls of the form are there when the form is.
LEMMA ControlsShow ==
    ASSUME NEW c \in Controls
    PROVE  /\ c \in {"type", "submit"} => connect.stage = "form"
           /\ c = "try again" => connect.stage \in {"done", "error"}
BY DEF Controls, JackControls, PanelControls, InventoryControls

\* What the operator does with the form.
LEMMA FormKeeps ==
    ASSUME FormInv,
           \/ \E a \in Account : Type(a)
           \/ \E n \in Post : Submit(n)
           \/ SubmitEmpty \/ TryAgain
    PROVE  FormInv'
<1>1. ASSUME NEW a \in Account, Type(a) PROVE FormInv'
  <2>1. connect.stage = "form" /\ connect' = [connect EXCEPT !.input = a] /\ typed' = a
    BY <1>1, ControlsShow DEF Type
  <2>2. DOMAIN connect' = PanelFields /\ connect'.stage = "form" /\ connect'.input = a
    BY <2>1 DEF FormInv, PanelFields
  <2>3. QED
    BY <2>1, <2>2 DEF FormInv, Remembers
<1>2. ASSUME NEW n \in Post, Submit(n) PROVE FormInv'
  <2>1. connect.stage = "form" /\ UNCHANGED typed
        /\ connect' = [connect EXCEPT !.stage = "checking", !.bad = FALSE, !.post = n,
                                      !.values = connect.input]
    BY <1>2, ControlsShow DEF Submit, Click
  <2>2. /\ DOMAIN connect' = PanelFields /\ connect'.stage = "checking"
        /\ connect'.values = connect.input
    BY <2>1 DEF FormInv, PanelFields
  <2>3. QED
    BY <2>1, <2>2 DEF FormInv, Remembers
<1>3. CASE SubmitEmpty
  <2>1. connect.stage = "form" /\ connect.input = NoAccount /\ UNCHANGED typed
        /\ connect' = [connect EXCEPT !.bad = TRUE, !.values = NoAccount]
    BY <1>3, ControlsShow DEF SubmitEmpty, Click
  <2>2. DOMAIN connect' = PanelFields /\ typed = NoAccount
    BY <2>1 DEF FormInv, PanelFields, Remembers
  <2>3. QED
    BY <2>1, <2>2, ClearedKeeps
<1>4. CASE TryAgain
  <2>1. connect.stage \in {"done", "error"} /\ UNCHANGED typed
    BY <1>4, ControlsShow DEF TryAgain, Click
  <2>2. /\ DOMAIN connect' = PanelFields /\ connect'.stage = "form"
        /\ connect'.input = connect.values
    BY <1>4 DEF TryAgain, Redrawn, FormInv, PanelFields
  <2>3. QED
    BY <2>1, <2>2 DEF FormInv, Remembers
<1>5. QED
  BY <1>1, <1>2, <1>3, <1>4

\* What the panel does by itself, and its failures.
LEMMA PanelKeeps ==
    ASSUME FormInv,
           \/ \E n \in Post : HandleReport(n) \/ \E refused \in BOOLEAN : LosePost(n, refused)
           \/ HandleForm \/ ShowReport \/ \E refused \in BOOLEAN : LoseForm(refused)
    PROVE  FormInv'
<1>1. ASSUME NEW n \in Post, HandleReport(n) PROVE FormInv'
  <2>1. CASE Current(n)
    <3>1. connect' = [connect EXCEPT !.stage = "showing", !.ok = post[n].stage = "passed"]
          /\ UNCHANGED typed /\ connect.stage # "form"
      BY <1>1, <2>1 DEF HandleReport, Current
    <3>2. /\ DOMAIN connect' = PanelFields /\ connect'.values = connect.values
          /\ connect'.stage = "showing"
      BY <3>1 DEF FormInv, PanelFields
    <3>3. QED
      BY <3>1, <3>2, SameKeeps
  <2>2. CASE ~Current(n)
    BY <1>1, <2>2 DEF HandleReport, FormInv
  <2>3. QED
    BY <2>1, <2>2
<1>2. ASSUME NEW n \in Post, NEW refused \in BOOLEAN, LosePost(n, refused) PROVE FormInv'
  <2>1. CASE Current(n) /\ ~refused
    <3>1. connect' = [connect EXCEPT !.stage = "error"] /\ UNCHANGED typed
          /\ connect.stage # "form"
      BY <1>2, <2>1 DEF LosePost, Current
    <3>2. /\ DOMAIN connect' = PanelFields /\ connect'.values = connect.values
          /\ connect'.stage = "error"
      BY <3>1 DEF FormInv, PanelFields
    <3>3. QED
      BY <3>1, <3>2, SameKeeps
  <2>2. CASE ~(Current(n) /\ ~refused)
    BY <1>2, <2>2 DEF LosePost, FormInv
  <2>3. QED
    BY <2>1, <2>2
<1>3. CASE HandleForm
  <2>1. connect.stage = "loading" /\ UNCHANGED typed
    BY <1>3 DEF HandleForm
  <2>2. DOMAIN connect' = PanelFields
    BY <1>3 DEF HandleForm, FormInv, PanelFields
  <2>3. QED
    BY <2>1, <2>2, ClearedKeeps DEF FormInv, Remembers
<1>4. CASE ShowReport
  <2>1. connect.stage = "showing" /\ connect' = [connect EXCEPT !.stage = "done"]
        /\ UNCHANGED typed
    BY <1>4 DEF ShowReport
  <2>2. DOMAIN connect' = PanelFields /\ connect'.values = connect.values
        /\ connect'.stage = "done"
    BY <2>1 DEF FormInv, PanelFields
  <2>3. QED
    BY <2>1, <2>2, SameKeeps
<1>5. ASSUME NEW refused \in BOOLEAN, LoseForm(refused) PROVE FormInv'
  <2>1. connect.stage = "loading" /\ UNCHANGED typed
    BY <1>5 DEF LoseForm
  <2>2. DOMAIN connect' = PanelFields
    BY <1>5 DEF LoseForm, FormInv, PanelFields
  <2>3. QED
    BY <2>1, <2>2, ClearedKeeps DEF FormInv, Remembers
<1>6. QED
  BY <1>1, <1>2, <1>3, <1>4, <1>5

\* Every step keeps what was typed, or erases it.
LEMMA FormInvStep == FormInv /\ [Next]_vars => FormInv'
<1> SUFFICES ASSUME FormInv, [Next]_vars PROVE FormInv'
  OBVIOUS
<1>1. CASE UNCHANGED <<connect, typed>>
  BY <1>1 DEF FormInv
<1>2. CASE UNCHANGED vars \/ ((ServerGoes \/ Draw \/ FileAges) /\ Unseen)
  BY <1>1, <1>2 DEF vars, pageVars, Unseen
<1>3. CASE \/ \E a \in Asker : HandleListing(a)
           \/ \E t \in Thread : HandleScan(t)
  BY <1>3, RedrawKeeps DEF HandleListing, HandleScan
<1>4. CASE Finish \/ HandleDisconnect
  BY <1>4, ClearedKeeps, NewPanels DEF Finish, HandleDisconnect
<1>5. CASE Operate
  <2>1. CASE OpenConnect
    BY <2>1, ClearedKeeps, NewPanels DEF OpenConnect
  <2>2. CASE Cancel
    BY <2>2, ClearedKeeps, NewPanels DEF Cancel
  <2>3. CASE DisconnectProvider
    BY <1>1, <2>3 DEF DisconnectProvider, pageVars
  <2>4. CASE ReadAgain \/ Refresh \/ SignIn \/ SignOut
    BY <2>4, RedrawKeeps DEF ReadAgain, Refresh, SignIn, SignOut
  <2>5. QED
    BY <1>5, <2>1, <2>2, <2>3, <2>4, FormKeeps DEF Operate
<1>6. CASE Lose
  <2>1. PICK refused \in BOOLEAN :
            \/ \E a \in Asker : LoseListing(a, refused)
            \/ \E t \in Thread : LoseScan(t, refused)
            \/ \E n \in Post : LosePost(n, refused)
            \/ LoseForm(refused) \/ LoseDelete(refused)
    BY <1>6 DEF Lose
  <2>2. CASE \/ \E a \in Asker : LoseListing(a, refused)
             \/ \E t \in Thread : LoseScan(t, refused)
    BY <2>2, RedrawKeeps DEF LoseListing, LoseScan
  <2>3. CASE LoseDelete(refused)
    BY <1>1, <2>3 DEF LoseDelete
  <2>4. QED
    BY <2>1, <2>2, <2>3, PanelKeeps
<1>7. QED
  BY <1>2, <1>3, <1>4, <1>5, <1>6, PanelKeeps DEF Next, Goes

\* The form holds what was typed, also after a failed attempt
\* (app.js:746-750, 859).
THEOREM TypedIsKept == Spec => []FormKeepsTyped
<1>1. FormInv => FormKeepsTyped
  BY DEF FormInv, FormKeepsTyped, Remembers
<1>2. QED
  BY <1>1, FormInvInit, FormInvStep, PTL DEF Spec
-----------------------------------------------------------------------------
(* Types.                                                                  *)

\* The constant records have their types.
LEMMA ConstantTypes ==
    /\ NoFile \in File /\ NoPost \in PostState /\ NoListing \in Listing /\ Listed \in Listing
    /\ NoScan \in Scan /\ Unread \in Providers /\ NoSlot \in Slot /\ NoPanel \in Panel
    /\ \A refresh \in BOOLEAN : Scanning(refresh) \in Scan
    /\ \A b \in BOOLEAN : [Unread EXCEPT !.loading = b] \in Providers
    /\ \A a \in OrNone, f \in BOOLEAN : [NoFile EXCEPT !.of = a, !.fresh = f] \in File
<1>1. NoAccount \in OrNone
  BY DEF OrNone
<1>2. NoFile \in File /\ \A a \in OrNone, f \in BOOLEAN : [NoFile EXCEPT !.of = a, !.fresh = f] \in File
  BY <1>1 DEF NoFile, File
<1>3. NoPost \in PostState /\ NoListing \in Listing /\ Listed \in Listing
  BY <1>1 DEF NoPost, PostState, NoListing, Listing, Listed
<1>4. NoScan \in Scan
  BY <1>1 DEF NoScan, Scan
<1>5. \A refresh \in BOOLEAN : Scanning(refresh) \in Scan
  BY <1>4 DEF Scanning, Scan
<1>6. Unread \in Providers /\ \A b \in BOOLEAN : [Unread EXCEPT !.loading = b] \in Providers
  BY <1>1 DEF Unread, Providers
<1>7. NoSlot \in Slot
  BY <1>1 DEF NoSlot, Slot
<1>8. NoPanel \in Panel
  BY <1>1, ConnectionsAssumption DEF NoPanel, Panel
<1>9. QED
  BY <1>2, <1>3, <1>4, <1>5, <1>6, <1>7, <1>8

\* Everything has its type at first.
LEMMA TypesInit == Init => TypeOK
<1> SUFFICES ASSUME Init PROVE TypeOK
  OBVIOUS
<1>1. record \in OrNone /\ NoAccount \in OrNone
  BY ConnectionsAssumption DEF Init, ServerInit, OrNone
<1>2. file \in File
  BY <1>1, ConstantTypes DEF Init, ServerInit
<1>3. ServerTypeOK
  BY <1>1, <1>2, ConstantTypes DEF Init, ServerInit, ServerTypeOK
<1>4. providers \in Providers /\ slot \in Slot /\ connect \in Panel
  BY ConstantTypes DEF Init
<1>5. moves \in 0..MaxMoves
  BY MovesAssumption DEF Init
<1>6. QED
  BY <1>1, <1>3, <1>4, <1>5 DEF Init, TypeOK

\* A scan gets its answer.
LEMMA TypeOfAnswer ==
    ASSUME scan \in [Thread -> Scan], NEW t \in Thread, NEW acct \in OrNone,
           NEW crossed \in BOOLEAN, Answer(t, acct, crossed)
    PROVE  scan' \in [Thread -> Scan]
<1>1. [scan[t] EXCEPT !.stage = "answered", !.acct = acct, !.crossed = crossed] \in Scan
      /\ NoScan \in Scan
  BY ConstantTypes DEF Scan
<1>2. scan' = [scan EXCEPT ![t] = IF t = Drawing THEN NoScan
                                  ELSE [scan[t] EXCEPT !.stage = "answered", !.acct = acct,
                                                       !.crossed = crossed]]
  BY DEF Answer, Scan
<1>3. QED
  BY <1>1, <1>2

\* The connection changes.
LEMMA TypeOfCrossing ==
    ASSUME scan \in [Thread -> Scan], NEW a
    PROVE  CrossedScans(a) \in [Thread -> Scan]
<1>1. ASSUME NEW t \in Thread, NEW c \in BOOLEAN
      PROVE  [scan[t] EXCEPT !.crossed = @ \/ c, !.old = @ \/ c] \in Scan
  BY DEF Scan
<1>2. \A t \in Thread : (Crosses(a) /\ scan[t].stage # "idle") \in BOOLEAN
  OBVIOUS
<1>3. QED
  BY <1>1, <1>2 DEF CrossedScans

\* The steps of the server keep the types of what it keeps.
LEMMA TypeOfServer ==
    ASSUME ServerTypeOK, ServerGoes \/ Draw \/ FileAges
    PROVE  ServerTypeOK'
<1> USE DEF ServerTypeOK
<1>1. NoAccount \in OrNone /\ NoFile \in File
  BY ConstantTypes DEF OrNone
<1>2. CASE DeleteRecord \/ DeleteFile
  BY <1>1, <1>2, TypeOfCrossing DEF DeleteRecord, DeleteFile
<1>3. ASSUME NEW n \in Post, CheckPasses(n) PROVE ServerTypeOK'
  <2>1. post' \in [Post -> PostState] /\ record' \in OrNone
    BY <1>3 DEF CheckPasses, PostState
  <2>2. file' \in File
    <3>1. \A c \in BOOLEAN : [file EXCEPT !.crossed = @ \/ c] \in File
      BY DEF File
    <3>2. QED
      BY <1>3, <3>1 DEF CheckPasses
  <2>3. scan' \in [Thread -> Scan] /\ rotated' \in BOOLEAN
    BY <1>3, TypeOfCrossing DEF CheckPasses
  <2>4. QED
    BY <1>3, <2>1, <2>2, <2>3 DEF CheckPasses
<1>4. ASSUME NEW n \in Post, CheckFails(n) PROVE ServerTypeOK'
  BY <1>4 DEF CheckFails, PostState
<1>5. ASSUME NEW a \in Asker, AnswerListing(a) PROVE ServerTypeOK'
  BY <1>5 DEF AnswerListing, Listing
<1>6. ASSUME NEW t \in Thread, Serve(t) PROVE ServerTypeOK'
  <2>1. scan[t] \in Scan /\ file.of \in OrNone /\ file.crossed \in BOOLEAN
        /\ scan[t].acct \in OrNone /\ scan[t].crossed \in BOOLEAN
        /\ scan[t].kept \in OrNone /\ scan[t].old \in BOOLEAN
    BY DEF File, Scan
  <2>2. [scan EXCEPT ![t].stage = "waiting", ![t].kept = file.of, ![t].old = file.crossed]
           \in [Thread -> Scan]
    <3>1. [scan[t] EXCEPT !.stage = "waiting", !.kept = file.of, !.old = file.crossed] \in Scan
      BY <2>1 DEF Scan
    <3>2. QED
      BY <3>1 DEF Scan
  <2>3. [scan EXCEPT ![t].stage = "scanning", ![t].acct = record, ![t].crossed = FALSE]
           \in [Thread -> Scan]
    <3>1. [scan[t] EXCEPT !.stage = "scanning", !.acct = record, !.crossed = FALSE] \in Scan
      BY <2>1 DEF Scan
    <3>2. QED
      BY <3>1 DEF Scan
  <2>4. CASE BeginScan(t)
    BY <1>1, <2>1, <2>2, <2>4, TypeOfAnswer DEF BeginScan
  <2>5. CASE LockScan(t)
    BY <1>1, <2>1, <2>3, <2>5, TypeOfAnswer DEF LockScan
  <2>6. CASE SaveScan(t) \/ ScanFails(t)
    <3>1. [of |-> scan[t].acct, fresh |-> TRUE, crossed |-> scan[t].crossed] \in File
      BY <2>1 DEF File
    <3>2. QED
      BY <2>1, <2>6, <3>1, TypeOfAnswer DEF SaveScan, ScanFails
  <2>7. QED
    BY <1>6, <2>4, <2>5, <2>6 DEF Serve
<1>7. CASE FileAges
  BY <1>7 DEF FileAges, File
<1>8. CASE BeginDrawing
  <2>1. PICK refresh \in BOOLEAN :
           scan' = [scan EXCEPT ![Drawing] = [NoScan EXCEPT !.stage = "waiting",
                                                           !.refresh = refresh]]
    BY <1>8 DEF BeginDrawing
  <2>2. [NoScan EXCEPT !.stage = "waiting", !.refresh = refresh] \in Scan
    BY ConnectionsAssumption, ConstantTypes DEF Scan
  <2>3. QED
    BY <1>8, <2>1, <2>2 DEF BeginDrawing
<1>9. CASE Draw
  BY <1>6, <1>8, <1>9, DrawingIsThread DEF Draw, Serve
<1>10. QED
  BY <1>2, <1>3, <1>4, <1>5, <1>6, <1>7, <1>9 DEF ServerGoes, Delete, Check

\* Inventory requests are begun, and the slot says so.
LEMMA TypeOfLoad ==
    ASSUME TypeOK, NEW refreshes \in Seq(BOOLEAN), LoadInventory(refreshes)
    PROVE  scan' \in [Thread -> Scan] /\ slot' \in Slot
<1> DEFINE sorted == SetToSortSeq({t \in Thread \ {Drawing} : scan[t].stage = "idle"}, <)
           begun(t) == \E i \in DOMAIN refreshes : sorted[i] = t
           first(t) == CHOOSE i \in DOMAIN refreshes : sorted[i] = t
<1>1. scan' = [t \in Thread |-> IF begun(t) THEN Scanning(refreshes[first(t)]) ELSE scan[t]]
  BY DEF LoadInventory, Begin
<1>2. \A t : begun(t) => first(t) \in DOMAIN refreshes
  OBVIOUS
<1>3. \A i \in DOMAIN refreshes : refreshes[i] \in BOOLEAN
  OBVIOUS
<1> HIDE DEF begun, first
<1>4. \A t : begun(t) => Scanning(refreshes[first(t)]) \in Scan
  BY <1>2, <1>3, ConstantTypes
<1>5. scan' \in [Thread -> Scan]
  BY <1>1, <1>4 DEF TypeOK, ServerTypeOK
<1>6. slot \in Slot /\ Loading(slot) \in Slot
  BY DEF TypeOK, Loading, Slot
<1>7. QED
  BY <1>5, <1>6 DEF LoadInventory

\* The requests that a list asks for.
LEMMA TypeOfRefreshes ==
    ASSUME NEW a, NEW acct, NEW first \in {<<>>, <<FALSE>>}
    PROVE  Anew(a, acct) \in Seq(BOOLEAN) /\ first \o Anew(a, acct) \in Seq(BOOLEAN)
<1>1. \A S : <<>> \in Seq(S) /\ \A x \in S : <<x>> \in Seq(S)
  OBVIOUS
<1>2. \A S : \A s, t \in Seq(S) : s \o t \in Seq(S)
  OBVIOUS
<1>3. {TRUE, FALSE} \subseteq BOOLEAN
  OBVIOUS
<1>4. <<>> \in Seq(BOOLEAN) /\ <<TRUE>> \in Seq(BOOLEAN) /\ <<FALSE>> \in Seq(BOOLEAN)
  BY <1>1, <1>3, Zenon
<1>5. Anew(a, acct) \in Seq(BOOLEAN) /\ first \in Seq(BOOLEAN)
  BY <1>4, Zenon DEF Anew
<1>6. QED
  BY <1>2, <1>5, Zenon

\* The list is asked for.
LEMMA TypeOfListing ==
    ASSUME TypeOK, NEW a \in Asker
    PROVE  /\ [listing EXCEPT ![a] = Listed] \in [Asker -> Listing]
           /\ [listing EXCEPT ![a] = NoListing] \in [Asker -> Listing]
           /\ [providers EXCEPT !.loading = TRUE, !.err = FALSE] \in Providers
BY ConstantTypes DEF TypeOK, ServerTypeOK, Providers

\* The page is drawn again.
LEMMA TypeOfRedraw == ASSUME TypeOK, Redraw PROVE connect' \in Panel /\ typed' \in OrNone
BY DEF TypeOK, Redraw, Redrawn, Retyped, Panel, OrNone

\* A click, or a failure, is counted.
LEMMA TypeOfMoves ==
    ASSUME TypeOK, moves' = moves \/ (moves < MaxMoves /\ moves' = moves + 1)
    PROVE  moves' \in 0..MaxMoves
BY MovesAssumption DEF TypeOK

\* The answers to the page.
LEMMA TypeOfAnswers ==
    ASSUME TypeOK,
           \/ \E a \in Asker : HandleListing(a)
           \/ \E t \in Thread : HandleScan(t)
    PROVE  TypeOK'
<1>1. ASSUME NEW a \in Asker, HandleListing(a) PROVE TypeOK'
  <2> DEFINE acct == listing[a].acct
  <2>1. acct \in OrNone
    BY DEF TypeOK, ServerTypeOK, Listing
  <2>2. PICK first \in {<<>>, <<FALSE>>} : LoadInventory(first \o Anew(a, acct))
    BY <1>1 DEF HandleListing
  <2>3. scan' \in [Thread -> Scan] /\ slot' \in Slot
    BY <2>2, TypeOfRefreshes, TypeOfLoad
  <2>4. providers' \in Providers
    BY <1>1, <2>1 DEF HandleListing, TypeOK, Providers
  <2>5. listing' \in [Asker -> Listing]
    BY <1>1, TypeOfListing DEF HandleListing
  <2>6. connect' \in Panel /\ typed' \in OrNone
    BY <1>1, TypeOfRedraw DEF HandleListing
  <2>7. QED
    BY <1>1, <2>3, <2>4, <2>5, <2>6 DEF HandleListing, TypeOK, ServerTypeOK
<1>2. ASSUME NEW t \in Thread, HandleScan(t) PROVE TypeOK'
  <2>1. scan' \in [Thread -> Scan] /\ scan[t].acct \in OrNone /\ scan[t].crossed \in BOOLEAN
    BY <1>2, ConstantTypes DEF HandleScan, TypeOK, ServerTypeOK, Scan
  <2>2. /\ [slot EXCEPT !.err = TRUE, !.loading = FALSE] \in Slot
        /\ [slot EXCEPT !.of = scan[t].acct, !.crossed = scan[t].crossed, !.loading = FALSE]
              \in Slot
    BY <2>1 DEF TypeOK, Slot
  <2>3. slot' \in Slot
    BY <1>2, <2>2 DEF HandleScan, TypeOK
  <2>4. connect' \in Panel /\ typed' \in OrNone
    BY <1>2, TypeOfRedraw DEF HandleScan
  <2>5. QED
    BY <1>2, <2>1, <2>3, <2>4 DEF HandleScan, TypeOK, ServerTypeOK
<1>3. QED
  BY <1>1, <1>2

\* What the panel can become.
LEMMA TypeOfPanels ==
    ASSUME NEW c \in Panel
    PROVE  /\ \A s \in {"form", "showing", "done", "error"} :
                  [c EXCEPT !.stage = s] \in Panel
           /\ \A f, w \in BOOLEAN :
                  [c EXCEPT !.stage = "form", !.fields = f, !.waiting = w] \in Panel
           /\ [c EXCEPT !.stage = "error", !.waiting = FALSE] \in Panel
           /\ [c EXCEPT !.waiting = FALSE] \in Panel
           /\ \A b \in BOOLEAN : [c EXCEPT !.stage = "showing", !.ok = b] \in Panel
           /\ \A a \in OrNone : [c EXCEPT !.input = a] \in Panel
           /\ [c EXCEPT !.bad = TRUE, !.values = NoAccount] \in Panel
           /\ \A n \in Post : [c EXCEPT !.stage = "checking", !.bad = FALSE, !.post = n,
                                        !.values = c.input] \in Panel
           /\ Redrawn([c EXCEPT !.stage = "form", !.bad = FALSE, !.ok = FALSE, !.post = 0])
                 \in Panel
<1>1. 0 \in 0..MaxPosts /\ \A n \in Post : n \in 0..MaxPosts
  BY ConnectionsAssumption DEF Post
<1>2. \A s \in {"form", "showing", "done", "error"} : [c EXCEPT !.stage = s] \in Panel
  BY DEF Panel
<1>3. /\ \A f, w \in BOOLEAN : [c EXCEPT !.stage = "form", !.fields = f, !.waiting = w] \in Panel
      /\ [c EXCEPT !.stage = "error", !.waiting = FALSE] \in Panel
      /\ [c EXCEPT !.waiting = FALSE] \in Panel
  BY DEF Panel
<1>4. /\ \A b \in BOOLEAN : [c EXCEPT !.stage = "showing", !.ok = b] \in Panel
      /\ \A a \in OrNone : [c EXCEPT !.input = a] \in Panel
      /\ [c EXCEPT !.bad = TRUE, !.values = NoAccount] \in Panel
  BY DEF Panel, OrNone
<1>5. \A n \in Post : [c EXCEPT !.stage = "checking", !.bad = FALSE, !.post = n,
                                !.values = c.input] \in Panel
  BY <1>1 DEF Panel
<1>6. Redrawn([c EXCEPT !.stage = "form", !.bad = FALSE, !.ok = FALSE, !.post = 0]) \in Panel
  BY <1>1 DEF Panel, Redrawn
<1>7. QED
  BY <1>2, <1>3, <1>4, <1>5, <1>6

\* The panels of openConnect().
LEMMA TypeOfOpened ==
    /\ [NoPanel EXCEPT !.stage = "loading", !.waiting = TRUE] \in Panel
    /\ \A r \in BOOLEAN :
          [NoPanel EXCEPT !.stage = "loading", !.waiting = TRUE, !.rotate = r] \in Panel
<1>1. NoPanel \in Panel
  BY ConstantTypes
<1>2. QED
  BY <1>1 DEF Panel
\* What ends by itself in the panel and in the dialog.
LEMMA TypeOfGoes ==
    ASSUME TypeOK,
           \/ \E n \in Post : HandleReport(n)
           \/ HandleForm \/ ShowReport \/ Finish \/ HandleDisconnect
    PROVE  TypeOK'
<1>1. NoPanel \in Panel /\ NoSlot \in Slot /\ NoAccount \in OrNone
  BY ConstantTypes DEF OrNone
<1>2. ASSUME NEW n \in Post, HandleReport(n) PROVE TypeOK'
  <2>1. post' \in [Post -> PostState]
    BY <1>2 DEF HandleReport, TypeOK, ServerTypeOK, PostState
  <2>2. connect' \in Panel
    BY <1>2, TypeOfPanels DEF HandleReport, TypeOK
  <2>3. QED
    BY <1>2, <2>1, <2>2 DEF HandleReport, Panels, TypeOK, ServerTypeOK
<1>3. CASE HandleForm \/ ShowReport
  <2>1. connect' \in Panel
    <3>1. CASE HandleForm
      BY <3>1, TypeOfPanels DEF HandleForm, TypeOK
    <3>2. CASE ShowReport
      BY <3>2, TypeOfPanels DEF ShowReport, TypeOK
    <3>3. QED
      BY <1>3, <3>1, <3>2
  <2>2. QED
    BY <1>3, <2>1 DEF HandleForm, ShowReport, Panels, TypeOK, ServerTypeOK
<1>4. CASE Finish
  <2>1. \E a \in Asker : LoadProviders(a)
    BY <1>4 DEF Finish, Asker
  <2>2. listing' \in [Asker -> Listing] /\ providers' \in Providers
    BY <2>1, TypeOfListing DEF LoadProviders
  <2>3. raced' \in BOOLEAN
    BY <1>4 DEF Finish, TypeOK
  <2>4. QED
    BY <1>1, <1>4, <2>2, <2>3 DEF Finish, TypeOK, ServerTypeOK
<1>5. CASE HandleDisconnect
  <2>1. "disconnect" \in Asker /\ LoadProviders("disconnect")
    BY <1>5 DEF HandleDisconnect, Asker
  <2>2. listing' \in [Asker -> Listing] /\ providers' \in Providers
    BY <2>1, TypeOfListing DEF LoadProviders
  <2>3. scan' \in [Thread -> Scan]
    BY <1>5 DEF HandleDisconnect, TypeOK, ServerTypeOK, Scan
  <2>4. QED
    BY <1>1, <1>5, <2>2, <2>3 DEF HandleDisconnect, TypeOK, ServerTypeOK
<1>6. QED
  BY <1>2, <1>3, <1>4, <1>5

\* What the operator does.
LEMMA TypeOfOperate == ASSUME TypeOK, Operate PROVE TypeOK'
<1>1. NoPanel \in Panel /\ NoAccount \in OrNone
  BY ConstantTypes DEF OrNone
<1>2. ASSUME NEW c, Click(c) PROVE moves' \in 0..MaxMoves
  BY <1>2, TypeOfMoves DEF Click
<1>3. CASE OpenConnect
  <2>1. connect' \in Panel
    BY <1>3, TypeOfOpened DEF OpenConnect, TypeOK, Panel
  <2>2. QED
    BY <1>1, <1>2, <1>3, <2>1 DEF OpenConnect, Panels, TypeOK, ServerTypeOK
<1>4. ASSUME NEW a \in Account, Type(a) PROVE TypeOK'
  <2>1. a \in OrNone
    BY DEF OrNone
  <2>2. connect' \in Panel
    BY <1>4, <2>1, TypeOfPanels DEF Type, TypeOK
  <2>3. QED
    BY <1>4, <2>1, <2>2 DEF Type, Panels, TypeOK, ServerTypeOK
<1>5. ASSUME NEW n \in Post, Submit(n) PROVE TypeOK'
  <2>1. connect.input \in OrNone
    BY DEF TypeOK, Panel
  <2>2. post' \in [Post -> PostState]
    BY <1>5, <2>1 DEF Submit, TypeOK, ServerTypeOK, PostState
  <2>3. connect' \in Panel
    BY <1>5, TypeOfPanels DEF Submit, TypeOK
  <2>4. QED
    BY <1>2, <1>5, <2>2, <2>3 DEF Submit, Panels, TypeOK, ServerTypeOK
<1>6. CASE SubmitEmpty \/ TryAgain
  <2>1. connect' \in Panel
    BY <1>6, TypeOfPanels DEF SubmitEmpty, TryAgain, TypeOK
  <2>2. QED
    BY <1>2, <1>6, <2>1 DEF SubmitEmpty, TryAgain, Panels, TypeOK, ServerTypeOK
<1>7. CASE Cancel
  BY <1>1, <1>2, <1>7 DEF Cancel, Panels, TypeOK, ServerTypeOK
<1>8. CASE DisconnectProvider
  BY <1>2, <1>8 DEF DisconnectProvider, Dialog, pageVars, TypeOK, ServerTypeOK
<1>9. CASE ReadAgain \/ SignIn
  <2>1. "page" \in Asker /\ LoadProviders("page") /\ Redraw
    BY <1>9 DEF ReadAgain, SignIn, Asker
  <2>2. listing' \in [Asker -> Listing] /\ providers' \in Providers
    BY <2>1, TypeOfListing DEF LoadProviders
  <2>3. connect' \in Panel /\ typed' \in OrNone
    BY <2>1, TypeOfRedraw
  <2>4. QED
    BY <1>2, <1>9, <2>2, <2>3 DEF ReadAgain, SignIn, TypeOK, ServerTypeOK
<1>10. CASE Refresh
  <2>1. <<TRUE>> \in Seq(BOOLEAN)
    <3>1. \A S : \A x \in S : <<x>> \in Seq(S)
      OBVIOUS
    <3>2. QED
      BY <3>1, Zenon
  <2>2. scan' \in [Thread -> Scan] /\ slot' \in Slot
    BY <1>10, <2>1, TypeOfLoad DEF Refresh
  <2>3. connect' \in Panel /\ typed' \in OrNone
    BY <1>10, TypeOfRedraw DEF Refresh
  <2>4. QED
    BY <1>2, <1>10, <2>2, <2>3 DEF Refresh, TypeOK, ServerTypeOK
<1>11. CASE SignOut
  <2>1. connect' \in Panel /\ typed' \in OrNone
    BY <1>11, TypeOfRedraw DEF SignOut
  <2>2. QED
    BY <1>2, <1>11, <2>1 DEF SignOut, serverVars, TypeOK, ServerTypeOK
<1>12. QED
  BY <1>3, <1>4, <1>5, <1>6, <1>7, <1>8, <1>9, <1>10, <1>11 DEF Operate

\* What fails.
LEMMA TypeOfLose == ASSUME TypeOK, Lose PROVE TypeOK'
<1>1. PICK refused \in BOOLEAN :
          \/ \E a \in Asker : LoseListing(a, refused)
          \/ \E t \in Thread : LoseScan(t, refused)
          \/ \E n \in Post : LosePost(n, refused)
          \/ LoseForm(refused) \/ LoseDelete(refused)
  BY DEF Lose
<1>2. ASSUME Fails(refused)
      PROVE  /\ moves' \in 0..MaxMoves /\ raced' \in BOOLEAN
             /\ authed' \in BOOLEAN /\ expired' \in BOOLEAN
  BY <1>2, TypeOfMoves DEF Fails, TypeOK
<1>3. ASSUME NEW a \in Asker, LoseListing(a, refused) PROVE TypeOK'
  <2>1. LoadInventory(Anew(a, providers.acct)) /\ Anew(a, providers.acct) \in Seq(BOOLEAN)
    BY <1>3, TypeOfRefreshes DEF LoseListing
  <2>2. scan' \in [Thread -> Scan] /\ slot' \in Slot
    BY <2>1, TypeOfLoad
  <2>3. providers' \in Providers
    BY <1>3 DEF LoseListing, TypeOK, Providers
  <2>4. listing' \in [Asker -> Listing]
    BY <1>3, TypeOfListing DEF LoseListing
  <2>5. connect' \in Panel /\ typed' \in OrNone
    BY <1>3, TypeOfRedraw DEF LoseListing
  <2>6. QED
    BY <1>2, <1>3, <2>2, <2>3, <2>4, <2>5 DEF LoseListing, TypeOK, ServerTypeOK
<1>4. ASSUME NEW t \in Thread, LoseScan(t, refused) PROVE TypeOK'
  <2>1. scan' \in [Thread -> Scan]
    BY <1>4, ConstantTypes DEF LoseScan, TypeOK, ServerTypeOK
  <2>2. slot' \in Slot
    BY <1>4 DEF LoseScan, TypeOK, Slot
  <2>3. connect' \in Panel /\ typed' \in OrNone
    BY <1>4, TypeOfRedraw DEF LoseScan
  <2>4. QED
    BY <1>2, <1>4, <2>1, <2>2, <2>3 DEF LoseScan, TypeOK, ServerTypeOK
<1>5. ASSUME NEW n \in Post, LosePost(n, refused) PROVE TypeOK'
  <2>1. post' \in [Post -> PostState]
    BY <1>5 DEF LosePost, TypeOK, ServerTypeOK, PostState
  <2>2. connect' \in Panel
    BY <1>5, TypeOfPanels DEF LosePost, TypeOK
  <2>3. QED
    BY <1>2, <1>5, <2>1, <2>2 DEF LosePost, TypeOK, ServerTypeOK
<1>6. CASE LoseForm(refused)
  <2>1. connect' = [connect EXCEPT !.waiting = FALSE]
        \/ connect' = [connect EXCEPT !.stage = "error", !.waiting = FALSE]
    BY <1>6 DEF LoseForm, TypeOK, Panel
  <2>2. connect' \in Panel
    BY <2>1, TypeOfPanels DEF TypeOK
  <2>3. QED
    BY <1>2, <1>6, <2>2 DEF LoseForm, serverVars, TypeOK, ServerTypeOK
<1>7. CASE LoseDelete(refused)
  BY <1>2, <1>7 DEF LoseDelete, TypeOK, ServerTypeOK
<1>8. QED
  BY <1>1, <1>3, <1>4, <1>5, <1>6, <1>7

\* The server, its file and the page have their types.
THEOREM CloudTypes == Spec => []TypeOK
<1>1. TypeOK /\ [Next]_vars => TypeOK'
  <2> SUFFICES ASSUME TypeOK, [Next]_vars PROVE TypeOK'
    OBVIOUS
  <2>1. CASE UNCHANGED vars
    BY <2>1 DEF vars, serverVars, pageVars, TypeOK, ServerTypeOK
  <2>2. CASE (ServerGoes \/ Draw \/ FileAges) /\ Unseen
    BY <2>2, TypeOfServer DEF Unseen, pageVars, TypeOK
  <2>3. QED
    BY <2>1, <2>2, TypeOfAnswers, TypeOfGoes, TypeOfOperate, TypeOfLose DEF Next, Goes
<1>2. QED
  BY <1>1, TypesInit, PTL DEF Spec
-----------------------------------------------------------------------------
(* The jack.  Whatever changes the connection leaves something that will   *)
(* read the list again: a disconnect that is not handled, a checklist that *)
(* passed, a connected line on the panel.  As long as none of these was    *)
(* left or lost, the panel that shows a checklist is the one that started  *)
(* it, and at most one list is under way.                                  *)

Cutting == del \in {"popped", "answered"}

Due == \/ Cutting
       \/ \E n \in Post : post[n].stage = "passed"
       \/ connect.ok /\ connect.stage \in {"showing", "done"}

PostIsShown ==
    \A n \in Post : post[n].stage \in {"checking", "passed", "failed"}
                    => connect.post = n /\ connect.stage = "checking"

OneList == \A a, b \in Asker : listing[a].stage # "idle" /\ listing[b].stage # "idle" => a = b

ListsAreTrue ==
    \A a \in Asker : listing[a].stage = "answered" => listing[a].acct = record \/ Due

JackFollows ==
    providers.known => \/ providers.acct = record \/ Due
                       \/ \E a \in Asker : listing[a].stage # "idle"

JackInv == ~raced => PostIsShown /\ OneList /\ ListsAreTrue /\ JackFollows

\* The jack is right when nothing is under way.
LEMMA JackInvImplies == JackInv => JackIsTrue
BY DEF JackInv, JackIsTrue, PostIsShown, JackFollows, Quiet, Due, Cutting, Unfinished

\* It knows nothing at first.
LEMMA JackInvInit == Init => JackInv
<1> SUFFICES ASSUME Init PROVE JackInv
  OBVIOUS
<1>1. NoPost.stage = "none" /\ NoListing.stage = "idle" /\ Listed.stage = "sent"
  BY DEF NoPost, NoListing, Listed
<1>2. \A a \in Asker : listing[a].stage # "answered"
                       /\ (listing[a].stage # "idle" => a = "page")
  BY <1>1 DEF Init
<1>3. ~providers.known
  BY DEF Init, Unread
<1>4. PostIsShown
  BY <1>1 DEF Init, ServerInit, PostIsShown
<1>5. QED
  BY <1>2, <1>3, <1>4 DEF JackInv, OneList, ListsAreTrue, JackFollows

\* A step that changes neither the record nor the lists, and leaves a panel
\* that is checking as it is.
JackWatches ==
    /\ UNCHANGED <<record, post, listing>>
    /\ providers'.known = providers.known /\ providers'.acct = providers.acct
    /\ raced => raced'
    /\ Cutting => Cutting'
    /\ ~raced' =>
          /\ connect.stage = "checking" =>
                connect'.stage = "checking" /\ connect'.post = connect.post
          /\ connect.ok /\ connect.stage \in {"showing", "done"} =>
                connect'.ok /\ connect'.stage \in {"showing", "done"}

\* Such a step keeps the invariant.
LEMMA JackWatchingKeeps == ASSUME JackInv, JackWatches PROVE JackInv'
<1> SUFFICES ASSUME ~raced' PROVE (PostIsShown /\ OneList /\ ListsAreTrue /\ JackFollows)'
  BY DEF JackInv
<1>1. ~raced /\ PostIsShown /\ OneList /\ ListsAreTrue /\ JackFollows
  BY DEF JackInv, JackWatches
<1>2. Due => Due'
  BY DEF Due, JackWatches
<1>3. PostIsShown'
  BY <1>1 DEF PostIsShown, JackWatches
<1>4. OneList' /\ ListsAreTrue' /\ JackFollows'
  BY <1>1, <1>2 DEF OneList, ListsAreTrue, JackFollows, JackWatches
<1>5. QED
  BY <1>3, <1>4

\* What a redraw leaves of the panel.
LEMMA RedrawShows ==
    ASSUME TypeOK, Redraw
    PROVE  connect'.stage = connect.stage /\ connect'.ok = connect.ok
           /\ connect'.post = connect.post
BY DEF TypeOK, Redraw, Redrawn, Panel

\* The controls of the panel and of the dialog are there with them.
LEMMA ControlsOfPanel ==
    ASSUME NEW c \in Controls
    PROVE  /\ c = "cancel" => \/ connect.stage \in {"form", "error"}
                              \/ connect.stage = "done" /\ ~connect.ok
           /\ c = "try again" => \/ connect.stage = "error"
                                 \/ connect.stage = "done" /\ ~connect.ok
           /\ c \in {"confirm", "dismiss"} => del = "asking"
           /\ c \in {"type", "submit"} => connect.stage = "form"
BY DEF Controls, JackControls, PanelControls, InventoryControls

\* The steps of the server that do not change the connection, and the aging.
LEMMA JackServer ==
    ASSUME TypeOK, JackInv, ServerGoes \/ Draw \/ FileAges, Unseen
    PROVE  JackInv'
<1> USE DEF Unseen, pageVars
<1>1. CASE FileAges \/ DeleteFile \/ Draw \/ \E t \in Thread : Serve(t)
  <2>1. JackWatches
    BY <1>1 DEF FileAges, DeleteFile, Draw, Serve, BeginDrawing, BeginScan, LockScan,
                SaveScan, ScanFails, JackWatches, Cutting
  <2>2. QED
    BY <2>1, JackWatchingKeeps
<1>2. CASE DeleteRecord
  <2>1. Cutting' /\ UNCHANGED <<post, listing>>
    BY <1>2 DEF DeleteRecord, Cutting
  <2>2. Due'
    BY <2>1 DEF Due
  <2>3. QED
    BY <2>1, <2>2 DEF JackInv, PostIsShown, OneList, ListsAreTrue, JackFollows
<1>3. ASSUME NEW n \in Post, CheckPasses(n) PROVE JackInv'
  <2>1. /\ post[n].stage = "checking" /\ post'[n].stage = "passed"
        /\ \A m \in Post \ {n} : post'[m] = post[m]
        /\ UNCHANGED listing
    BY <1>3 DEF CheckPasses, TypeOK, ServerTypeOK, PostState
  <2>2. Due'
    BY <2>1 DEF Due
  <2>3. ~raced => PostIsShown'
    BY <2>1 DEF JackInv, PostIsShown
  <2>4. QED
    BY <2>1, <2>2, <2>3 DEF JackInv, OneList, ListsAreTrue, JackFollows
<1>4. ASSUME NEW n \in Post, CheckFails(n) PROVE JackInv'
  <2>1. /\ post[n].stage = "checking" /\ post'[n].stage = "failed"
        /\ \A m \in Post \ {n} : post'[m] = post[m]
        /\ UNCHANGED <<record, listing, del>>
    BY <1>4 DEF CheckFails, TypeOK, ServerTypeOK, PostState
  <2>2. Due => Due'
    BY <2>1 DEF Due, Cutting
  <2>3. ~raced => PostIsShown'
    BY <2>1 DEF JackInv, PostIsShown
  <2>4. QED
    BY <2>1, <2>2, <2>3 DEF JackInv, OneList, ListsAreTrue, JackFollows
<1>5. ASSUME NEW a \in Asker, AnswerListing(a) PROVE JackInv'
  <2>1. /\ listing[a].stage = "sent"
        /\ listing'[a].stage = "answered" /\ listing'[a].acct = record
        /\ \A b \in Asker \ {a} : listing'[b] = listing[b]
        /\ UNCHANGED <<record, post, del>>
    BY <1>5 DEF AnswerListing, TypeOK, ServerTypeOK
  <2>2. Due => Due'
    BY <2>1 DEF Due, Cutting
  <2>3. ~raced => PostIsShown' /\ OneList'
    BY <2>1 DEF JackInv, PostIsShown, OneList
  <2>4. ~raced => ListsAreTrue' /\ JackFollows'
    BY <2>1, <2>2 DEF JackInv, ListsAreTrue, JackFollows
  <2>5. QED
    BY <2>3, <2>4 DEF JackInv
<1>6. QED
  BY <1>1, <1>2, <1>3, <1>4, <1>5 DEF ServerGoes, Delete, Check

\* The list is asked for, and no panel that is checking is left.
LEMMA JackAsks ==
    ASSUME TypeOK, JackInv, NEW a \in Asker, LoadProviders(a), UNCHANGED <<record, post>>,
           raced \/ Overlaps(a) => raced',
           ~raced' => \/ connect.stage # "checking"
                      \/ connect'.stage = connect.stage /\ connect'.post = connect.post
    PROVE  JackInv'
<1> SUFFICES ASSUME ~raced' PROVE (PostIsShown /\ OneList /\ ListsAreTrue /\ JackFollows)'
  BY DEF JackInv
<1>1. ~raced /\ ~Overlaps(a) /\ PostIsShown
  BY DEF JackInv
<1>2. /\ listing'[a].stage = "sent"
      /\ \A b \in Asker \ {a} : listing'[b].stage = "idle"
  BY <1>1 DEF LoadProviders, Overlaps, Listed, NoListing, TypeOK, ServerTypeOK
<1>3. PostIsShown'
  BY <1>1 DEF PostIsShown
<1>4. OneList' /\ ListsAreTrue' /\ JackFollows'
  BY <1>2 DEF OneList, ListsAreTrue, JackFollows
<1>5. QED
  BY <1>3, <1>4

\* What goes by itself on the page.
LEMMA JackGoes ==
    ASSUME TypeOK, JackInv,
           \/ \E a \in Asker : HandleListing(a)
           \/ \E t \in Thread : HandleScan(t)
           \/ \E n \in Post : HandleReport(n)
           \/ HandleForm \/ ShowReport \/ Finish \/ HandleDisconnect
    PROVE  JackInv'
<1>1. ASSUME NEW a \in Asker, HandleListing(a) PROVE JackInv'
  <2>1. /\ listing[a].stage = "answered" /\ listing'[a].stage = "idle"
        /\ \A b \in Asker \ {a} : listing'[b] = listing[b]
        /\ UNCHANGED <<record, post, del, raced>>
    BY <1>1 DEF HandleListing, NoListing, TypeOK, ServerTypeOK
  <2>2. providers'.acct = listing[a].acct
    BY <1>1 DEF HandleListing, TypeOK, Providers
  <2>3. connect'.stage = connect.stage /\ connect'.ok = connect.ok
        /\ connect'.post = connect.post
    BY <1>1, RedrawShows DEF HandleListing
  <2>4. Due => Due'
    BY <2>1, <2>3 DEF Due, Cutting
  <2>5. ~raced => PostIsShown' /\ OneList'
    BY <2>1, <2>3 DEF JackInv, PostIsShown, OneList
  <2>6. ~raced => ListsAreTrue' /\ JackFollows'
    BY <2>1, <2>2, <2>4 DEF JackInv, ListsAreTrue, JackFollows
  <2>7. QED
    BY <2>1, <2>5, <2>6 DEF JackInv
<1>2. ASSUME NEW t \in Thread, HandleScan(t) PROVE JackInv'
  <2>1. JackWatches
    BY <1>2, RedrawShows DEF HandleScan, JackWatches, Cutting
  <2>2. QED
    BY <2>1, JackWatchingKeeps
<1>3. ASSUME NEW n \in Post, HandleReport(n) PROVE JackInv'
  <2> SUFFICES ASSUME ~raced PROVE JackInv'
    BY <1>3 DEF HandleReport, JackInv
  <2>1. PostIsShown /\ OneList /\ ListsAreTrue /\ JackFollows
    BY DEF JackInv
  <2>2. post[n].stage \in {"passed", "failed"} /\ connect.post = n
        /\ connect.stage = "checking"
    BY <1>3, <2>1 DEF HandleReport, PostIsShown
  <2>3. connect'.stage = "showing" /\ connect'.ok = (post[n].stage = "passed")
    BY <1>3, <2>2 DEF HandleReport, Current, TypeOK, Panel
  <2>4. /\ post'[n].stage = "taken" /\ \A m \in Post \ {n} : post'[m] = post[m]
        /\ UNCHANGED <<record, listing, providers, del>>
    BY <1>3 DEF HandleReport, Panels, TypeOK, ServerTypeOK, PostState
  <2>5. PostIsShown'
    BY <2>1, <2>2, <2>4 DEF PostIsShown
  <2>6. Due => Due'
    BY <2>1, <2>2, <2>3, <2>4 DEF Due, Cutting, PostIsShown
  <2>7. OneList' /\ ListsAreTrue' /\ JackFollows'
    BY <2>1, <2>4, <2>6 DEF OneList, ListsAreTrue, JackFollows
  <2>8. QED
    BY <2>5, <2>7 DEF JackInv
<1>4. CASE HandleForm \/ ShowReport
  <2>1. connect'.ok = connect.ok
        /\ \/ connect.stage = "loading"
           \/ connect.stage = "showing" /\ connect'.stage = "done"
    BY <1>4 DEF HandleForm, ShowReport, TypeOK, Panel
  <2>2. JackWatches
    BY <1>4, <2>1 DEF HandleForm, ShowReport, Panels, JackWatches, Cutting
  <2>3. QED
    BY <2>2, JackWatchingKeeps
<1>5. CASE Finish
  <2>1. \E a \in Asker : LoadProviders(a) /\ raced' = (raced \/ Overlaps(a))
    BY <1>5 DEF Finish, Asker
  <2>2. connect.stage = "done" /\ UNCHANGED <<record, post>>
    BY <1>5 DEF Finish
  <2>3. QED
    BY <2>1, <2>2, JackAsks
<1>6. CASE HandleDisconnect
  <2>1. "disconnect" \in Asker /\ LoadProviders("disconnect")
        /\ raced' = (raced \/ Overlaps("disconnect") \/ Unfinished(connect))
        /\ UNCHANGED <<record, post>>
    BY <1>6 DEF HandleDisconnect, Asker
  <2>2. ~raced' => connect.stage # "checking"
    BY <2>1 DEF Unfinished
  <2>3. QED
    BY <2>1, <2>2, JackAsks
<1>7. QED
  BY <1>1, <1>2, <1>3, <1>4, <1>5, <1>6

\* What the operator does.
LEMMA JackOperate == ASSUME TypeOK, JackInv, Operate PROVE JackInv'
<1>1. CASE OpenConnect
  <2>1. JackWatches
    BY <1>1 DEF OpenConnect, Panels, JackWatches, Cutting, Unfinished
  <2>2. QED
    BY <2>1, JackWatchingKeeps
<1>2. CASE SubmitEmpty \/ TryAgain \/ Cancel \/ \E a \in Account : Type(a)
  <2>1. \/ connect.stage \in {"form", "error"}
        \/ connect.stage = "done" /\ ~connect.ok
    BY <1>2, ControlsOfPanel DEF SubmitEmpty, TryAgain, Cancel, Type, Click
  <2>2. UNCHANGED <<record, post, listing, providers, del, raced>>
    BY <1>2 DEF SubmitEmpty, TryAgain, Cancel, Type, Panels
  <2>3. JackWatches
    BY <2>1, <2>2 DEF JackWatches, Cutting
  <2>4. QED
    BY <2>3, JackWatchingKeeps
<1>3. ASSUME NEW n \in Post, Submit(n) PROVE JackInv'
  <2> SUFFICES ASSUME ~raced PROVE JackInv'
    BY <1>3 DEF Submit, JackInv
  <2>1. PostIsShown /\ OneList /\ ListsAreTrue /\ JackFollows
    BY DEF JackInv
  <2>2. connect.stage = "form"
    BY <1>3, ControlsOfPanel DEF Submit, Click
  <2>3. connect'.stage = "checking" /\ connect'.post = n
    BY <1>3 DEF Submit, TypeOK, Panel
  <2>4. /\ post'[n].stage = "checking" /\ \A m \in Post \ {n} : post'[m] = post[m]
        /\ UNCHANGED <<record, listing, providers, del>>
    BY <1>3 DEF Submit, Panels, TypeOK, ServerTypeOK
  <2>5. PostIsShown'
    BY <2>1, <2>2, <2>3, <2>4 DEF PostIsShown
  <2>6. Due => Due'
    BY <2>1, <2>2, <2>4 DEF Due, Cutting, PostIsShown
  <2>7. OneList' /\ ListsAreTrue' /\ JackFollows'
    BY <2>1, <2>4, <2>6 DEF OneList, ListsAreTrue, JackFollows
  <2>8. QED
    BY <2>5, <2>7 DEF JackInv
<1>4. CASE DisconnectProvider
  <2>1. ~Cutting
    BY <1>4, ControlsOfPanel DEF DisconnectProvider, Dialog, Click, Cutting
  <2>2. JackWatches
    BY <1>4, <2>1 DEF DisconnectProvider, pageVars, JackWatches
  <2>3. QED
    BY <2>2, JackWatchingKeeps
<1>5. CASE ReadAgain \/ SignIn
  <2>1. "page" \in Asker /\ LoadProviders("page") /\ Redraw
        /\ raced' = (raced \/ Overlaps("page")) /\ UNCHANGED <<record, post>>
    BY <1>5 DEF ReadAgain, SignIn, Asker
  <2>2. QED
    BY <2>1, RedrawShows, JackAsks
<1>6. CASE Refresh \/ SignOut
  <2>1. UNCHANGED <<record, post, listing, providers, del, raced>> /\ Redraw
    BY <1>6 DEF Refresh, SignOut, serverVars
  <2>2. JackWatches
    BY <2>1, RedrawShows DEF JackWatches, Cutting
  <2>3. QED
    BY <2>2, JackWatchingKeeps
<1>7. QED
  BY <1>1, <1>2, <1>3, <1>4, <1>5, <1>6 DEF Operate

\* A failure is recorded.
LEMMA LoseIsRaced == Lose => raced'
BY DEF Lose, LoseListing, LoseScan, LosePost, LoseForm, LoseDelete, Fails

\* Every step keeps the invariant.
LEMMA JackInvStep == TypeOK /\ JackInv /\ [Next]_vars => JackInv'
<1> SUFFICES ASSUME TypeOK, JackInv, [Next]_vars PROVE JackInv'
  OBVIOUS
<1>1. CASE UNCHANGED vars
  <2>1. JackWatches
    BY <1>1 DEF vars, serverVars, pageVars, JackWatches, Cutting
  <2>2. QED
    BY <2>1, JackWatchingKeeps
<1>2. CASE Lose
  BY <1>2, LoseIsRaced DEF JackInv
<1>3. QED
  BY <1>1, <1>2, JackServer, JackGoes, JackOperate DEF Next, Goes

\* Once nothing is under way the jack shows what is stored, unless a request
\* failed, lists overlapped or a checklist was left (app.js:722, 910).
THEOREM JackFollowsRecord == Spec => []JackIsTrue
BY JackInvImplies, JackInvInit, JackInvStep, CloudTypes, PTL DEF Spec
-----------------------------------------------------------------------------
(* The inventory on the page.  An inventory that nothing crossed is of the *)
(* stored account, wherever it is on its way: the copy that a scan keeps   *)
(* to serve, the answer, the slot; except that between the record and the  *)
(* page a disconnect is on its way too, which empties the slot when it     *)
(* arrives and makes the answers that are under way unwanted.              *)

KeptAreOwn ==
    \A t \in Thread :
        scan[t].stage \in {"waiting", "scanning"} /\ scan[t].kept # NoAccount /\ ~scan[t].old
        => scan[t].kept = record

AnswersAreOwn ==
    \A t \in Thread :
        /\ scan[t].stage = "answered" /\ scan[t].wanted
        /\ scan[t].acct # NoAccount /\ ~scan[t].crossed
        => (scan[t].acct = record \/ Cutting)

SlotIsOwn == slot.of # NoAccount /\ ~slot.crossed => slot.of = record \/ Cutting

OwnInv == /\ KeptAreOwn
          /\ ~raced => AnswersAreOwn
          /\ ~raced /\ ~rotated => SlotIsOwn

\* The inventory and the jack agree when each agrees with the record.
LEMMA OwnInvImplies == OwnInv /\ JackIsTrue => InventoryIsOwn
<1> SUFFICES ASSUME OwnInv, JackIsTrue, Quiet, InventoryShown, slot.of # NoAccount,
                    ~slot.crossed, ~rotated, ~raced
             PROVE  slot.of = providers.acct
  BY DEF InventoryIsOwn
<1>1. providers.acct = record
  BY DEF JackIsTrue, InventoryShown, Connected
<1>2. slot.of = record
  BY DEF OwnInv, SlotIsOwn, Quiet, Cutting
<1>3. QED
  BY <1>1, <1>2

\* Nothing was asked for at first.
LEMMA OwnInvInit == Init => OwnInv
<1> SUFFICES ASSUME Init PROVE OwnInv
  OBVIOUS
<1>1. \A t \in Thread : scan[t].stage = "idle"
  BY DEF Init, ServerInit, NoScan
<1>2. slot.of = NoAccount
  BY DEF Init, NoSlot
<1>3. QED
  BY <1>1, <1>2 DEF OwnInv, KeptAreOwn, AnswersAreOwn, SlotIsOwn

\* A step of the page: scans are begun and answers are taken.
OwnWatches ==
    /\ UNCHANGED <<record, rotated>>
    /\ raced => raced'
    /\ ~raced' => (Cutting => Cutting')
    /\ \A t \in Thread :
        /\ scan'[t].stage \in {"waiting", "scanning"} =>
              /\ scan[t].stage = scan'[t].stage
              /\ scan'[t].kept = scan[t].kept /\ scan'[t].old = scan[t].old
        /\ scan'[t].stage = "answered" /\ scan'[t].wanted =>
              /\ scan[t].stage = "answered" /\ scan[t].wanted
              /\ scan'[t].acct = scan[t].acct /\ scan'[t].crossed = scan[t].crossed
    /\ slot'.of = slot.of /\ slot'.crossed = slot.crossed

\* Such a step keeps the invariant.
LEMMA OwnWatchingKeeps == ASSUME OwnInv, OwnWatches PROVE OwnInv'
<1>1. KeptAreOwn'
  BY DEF OwnInv, KeptAreOwn, OwnWatches
<1>2. ~raced' => AnswersAreOwn'
  BY DEF OwnInv, AnswersAreOwn, OwnWatches
<1>3. ~raced' /\ ~rotated' => SlotIsOwn'
  BY DEF OwnInv, SlotIsOwn, OwnWatches
<1>4. QED
  BY <1>1, <1>2, <1>3 DEF OwnInv

\* Steps that leave the scans and the slot alone.
LEMMA OwnElsewhere ==
    ASSUME OwnInv, UNCHANGED <<record, rotated, scan, slot>>, raced => raced',
           ~raced' => (Cutting => Cutting')
    PROVE  OwnInv'
<1>1. OwnWatches
  BY DEF OwnWatches
<1>2. QED
  BY <1>1, OwnWatchingKeeps

\* Inventory requests are begun: they are asked for, and the slot keeps what
\* it holds.
LEMMA LoadAsks ==
    ASSUME TypeOK, NEW refreshes, LoadInventory(refreshes)
    PROVE  /\ \A t \in Thread : scan'[t] = scan[t] \/ scan'[t].stage = "asked"
           /\ slot'.of = slot.of /\ slot'.crossed = slot.crossed
<1> DEFINE sorted == SetToSortSeq({t \in Thread \ {Drawing} : scan[t].stage = "idle"}, <)
           begun(t) == \E i \in DOMAIN refreshes : sorted[i] = t
           asked(t) == Scanning(refreshes[CHOOSE i \in DOMAIN refreshes : sorted[i] = t])
<1>1. scan' = [t \in Thread |-> IF begun(t) THEN asked(t) ELSE scan[t]]
  BY DEF LoadInventory, Begin
<1>2. \A t : asked(t).stage = "asked"
  BY DEF Scanning, NoScan
<1> HIDE DEF begun, asked
<1>3. \A t \in Thread : scan'[t] = scan[t] \/ scan'[t].stage = "asked"
  BY <1>1, <1>2
<1>4. slot'.of = slot.of /\ slot'.crossed = slot.crossed
  BY DEF LoadInventory, Loading, TypeOK, Slot
<1>5. QED
  BY <1>3, <1>4

\* The connection changes to a.
LEMMA OwnCrossing ==
    ASSUME TypeOK, OwnInv, NEW a, record' = a, scan' = CrossedScans(a),
           UNCHANGED <<slot, raced>>, rotated => rotated',
           Cutting => Cutting', Cutting' \/ (Crosses(a) => rotated')
    PROVE  OwnInv'
<1>1. ASSUME NEW t \in Thread
      PROVE  /\ scan'[t].stage = scan[t].stage /\ scan'[t].kept = scan[t].kept
             /\ scan'[t].acct = scan[t].acct /\ scan'[t].wanted = scan[t].wanted
             /\ scan'[t].crossed = (scan[t].crossed \/ (Crosses(a) /\ scan[t].stage # "idle"))
             /\ scan'[t].old = (scan[t].old \/ (Crosses(a) /\ scan[t].stage # "idle"))
  BY DEF CrossedScans, TypeOK, ServerTypeOK, Scan
<1>2. KeptAreOwn'
  BY <1>1 DEF OwnInv, KeptAreOwn, Crosses
<1>3. ~raced' => AnswersAreOwn'
  BY <1>1 DEF OwnInv, AnswersAreOwn, Crosses
<1>4. ~raced' /\ ~rotated' => SlotIsOwn'
  BY DEF OwnInv, SlotIsOwn, Crosses
<1>5. QED
  BY <1>2, <1>3, <1>4 DEF OwnInv

\* A scan gets an answer of the stored account.
LEMMA OwnAnswer ==
    ASSUME TypeOK, OwnInv, NEW t \in Thread, NEW acct, NEW crossed, Answer(t, acct, crossed),
           UNCHANGED <<record, del, rotated, slot, raced>>,
           acct # NoAccount /\ ~crossed => acct = record \/ Cutting
    PROVE  OwnInv'
<1>1. /\ \/ scan'[t].stage = "idle"
         \/ /\ scan'[t].stage = "answered" /\ scan'[t].acct = acct
            /\ scan'[t].crossed = crossed
      /\ \A u \in Thread \ {t} : scan'[u] = scan[u]
  BY DEF Answer, NoScan, TypeOK, ServerTypeOK, Scan
<1>2. KeptAreOwn'
  BY <1>1 DEF OwnInv, KeptAreOwn
<1>3. ~raced' => AnswersAreOwn'
  BY <1>1 DEF OwnInv, AnswersAreOwn, Cutting
<1>4. ~raced' /\ ~rotated' => SlotIsOwn'
  BY DEF OwnInv, SlotIsOwn, Cutting
<1>5. QED
  BY <1>2, <1>3, <1>4 DEF OwnInv

\* The inventory's handler and its thread.
LEMMA OwnServe ==
    ASSUME TypeOK, FileInv, OwnInv, NEW t \in Thread, Serve(t), Unseen
    PROVE  OwnInv'
<1> USE DEF Unseen, pageVars
<1>1. file.of # NoAccount /\ ~file.crossed => file.of = record \/ Cutting
  BY DEF FileInv, FileIsOwn, LoopIsFree, Cutting
<1>2. ASSUME UNCHANGED <<record, del, rotated>>,
             \A u \in Thread \ {t} : scan'[u] = scan[u],
             scan'[t].stage \in {"waiting", "scanning"},
             scan'[t].kept # NoAccount /\ ~scan'[t].old => scan'[t].kept = record
      PROVE  OwnInv'
  BY <1>2 DEF OwnInv, KeptAreOwn, AnswersAreOwn, SlotIsOwn, Cutting
<1>3. CASE BeginScan(t)
  <2>1. CASE \E acct, crossed : Answer(t, acct, crossed)
    <3>1. Answer(t, NoAccount, FALSE) \/ Answer(t, file.of, file.crossed)
      <4>1. ~(scan'[t].stage = "waiting")
        BY <2>1 DEF Answer, NoScan, TypeOK, ServerTypeOK, Scan
      <4>2. CASE scan' = [scan EXCEPT ![t].stage = "waiting", ![t].kept = file.of,
                                      ![t].old = file.crossed]
        BY <4>1, <4>2 DEF TypeOK, ServerTypeOK, Scan
      <4>3. QED
        BY <1>3, <4>2 DEF BeginScan
    <3>2. QED
      BY <1>1, <1>3, <3>1, OwnAnswer DEF BeginScan
  <2>2. CASE scan' = [scan EXCEPT ![t].stage = "waiting", ![t].kept = file.of,
                                  ![t].old = file.crossed]
    <3>1. /\ scan'[t].stage = "waiting" /\ scan'[t].kept = file.of
          /\ scan'[t].old = file.crossed
          /\ \A u \in Thread \ {t} : scan'[u] = scan[u]
      BY <2>2 DEF TypeOK, ServerTypeOK, Scan
    <3>2. file.of # NoAccount /\ ~file.crossed => file.of = record
      BY <1>3 DEF BeginScan, FileInv, FileIsOwn
    <3>3. QED
      BY <1>2, <1>3, <3>1, <3>2 DEF BeginScan
  <2>3. QED
    BY <1>3, <2>1, <2>2 DEF BeginScan
<1>4. CASE LockScan(t)
  <2>1. CASE Answer(t, NoAccount, FALSE) \/ Answer(t, file.of, file.crossed)
    BY <1>1, <1>4, <2>1, OwnAnswer DEF LockScan
  <2>2. CASE scan' = [scan EXCEPT ![t].stage = "scanning", ![t].acct = record,
                                  ![t].crossed = FALSE]
    <3>1. /\ scan'[t].stage = "scanning" /\ scan'[t].kept = scan[t].kept
          /\ scan'[t].old = scan[t].old /\ scan[t].stage = "waiting"
          /\ \A u \in Thread \ {t} : scan'[u] = scan[u]
      BY <1>4, <2>2 DEF LockScan, TypeOK, ServerTypeOK, Scan
    <3>2. QED
      BY <1>2, <1>4, <3>1 DEF LockScan, OwnInv, KeptAreOwn
  <2>3. QED
    BY <1>4, <2>1, <2>2 DEF LockScan
<1>5. CASE SaveScan(t)
  BY <1>5, OwnAnswer DEF SaveScan, FileInv, ScansAreOwn
<1>6. CASE ScanFails(t)
  BY <1>6, OwnAnswer DEF ScanFails, OwnInv, KeptAreOwn
<1>7. QED
  BY <1>3, <1>4, <1>5, <1>6 DEF Serve

\* A drawing's scan keeps no copy and answers nobody on the page.
LEMMA OwnDraw ==
    ASSUME TypeOK, FileInv, OwnInv, Draw, Unseen
    PROVE  OwnInv'
<1>1. CASE BeginDrawing
  <2>1. PICK refresh \in BOOLEAN :
           scan' = [scan EXCEPT ![Drawing] = [NoScan EXCEPT !.stage = "waiting",
                                                           !.refresh = refresh]]
    BY <1>1 DEF BeginDrawing
  <2>2. scan'[Drawing].stage = "waiting" /\ scan'[Drawing].kept = NoAccount
        /\ \A u \in Thread \ {Drawing} : scan'[u] = scan[u]
    BY <2>1, DrawingIsThread DEF NoScan, TypeOK, ServerTypeOK
  <2>3. UNCHANGED <<record, del, rotated, slot, raced>>
    BY <1>1 DEF BeginDrawing, Unseen, pageVars
  <2>4. QED
    BY <2>2, <2>3 DEF OwnInv, KeptAreOwn, AnswersAreOwn, SlotIsOwn, Cutting
<1>2. CASE ~BeginDrawing
  BY <1>2, OwnServe, DrawingIsThread DEF Draw, Serve
<1>3. QED
  BY <1>1, <1>2

\* The steps of the server, and the aging.
LEMMA OwnServer ==
    ASSUME TypeOK, FileInv, OwnInv, ServerGoes \/ Draw \/ FileAges, Unseen
    PROVE  OwnInv'
<1> USE DEF Unseen, pageVars
<1>1. CASE FileAges \/ \E n \in Post : CheckFails(n)
  BY <1>1, OwnElsewhere DEF FileAges, CheckFails, Cutting
<1>2. CASE \E a \in Asker : AnswerListing(a)
  BY <1>2, OwnElsewhere DEF AnswerListing, Cutting
<1>3. CASE DeleteFile
  BY <1>3, OwnElsewhere DEF DeleteFile, Cutting
<1>4. CASE DeleteRecord
  BY <1>4, OwnCrossing DEF DeleteRecord, Cutting
<1>5. ASSUME NEW n \in Post, CheckPasses(n) PROVE OwnInv'
  <2> DEFINE a == post[n].acct
  <2>1. /\ record' = a /\ scan' = CrossedScans(a) /\ UNCHANGED del
        /\ rotated' = (rotated \/ Crosses(a))
    BY <1>5 DEF CheckPasses
  <2> HIDE DEF a
  <2>2. QED
    BY <2>1, OwnCrossing DEF Cutting
<1>6. QED
  BY <1>1, <1>2, <1>3, <1>4, <1>5, OwnServe, OwnDraw DEF ServerGoes, Delete, Check

\* What goes by itself on the page.
LEMMA OwnGoes ==
    ASSUME TypeOK, OwnInv,
           \/ \E a \in Asker : HandleListing(a)
           \/ \E t \in Thread : HandleScan(t)
           \/ \E n \in Post : HandleReport(n)
           \/ HandleForm \/ ShowReport \/ Finish \/ HandleDisconnect
    PROVE  OwnInv'
<1>1. ASSUME NEW a \in Asker, HandleListing(a) PROVE OwnInv'
  <2>1. PICK refreshes : LoadInventory(refreshes)
    BY <1>1 DEF HandleListing
  <2>2. OwnWatches
    BY <1>1, <2>1, LoadAsks DEF HandleListing, OwnWatches, Cutting
  <2>3. QED
    BY <2>2, OwnWatchingKeeps
<1>2. ASSUME NEW t \in Thread, HandleScan(t) PROVE OwnInv'
  <2>1. /\ scan'[t].stage = "idle" /\ \A u \in Thread \ {t} : scan'[u] = scan[u]
        /\ scan[t].stage = "answered" /\ UNCHANGED <<record, del, rotated, raced>>
    BY <1>2 DEF HandleScan, NoScan, TypeOK, ServerTypeOK
  <2>2. \/ slot'.of = slot.of /\ slot'.crossed = slot.crossed
        \/ /\ scan[t].wanted /\ scan[t].acct # NoAccount
           /\ slot'.of = scan[t].acct /\ slot'.crossed = scan[t].crossed
    BY <1>2 DEF HandleScan, TypeOK, Slot
  <2>3. KeptAreOwn' /\ (~raced' => AnswersAreOwn')
    BY <2>1 DEF OwnInv, KeptAreOwn, AnswersAreOwn, Cutting
  <2>4. ~raced' /\ ~rotated' => SlotIsOwn'
    BY <2>1, <2>2 DEF OwnInv, AnswersAreOwn, SlotIsOwn, Cutting
  <2>5. QED
    BY <2>3, <2>4 DEF OwnInv
<1>3. CASE HandleForm \/ ShowReport \/ \E n \in Post : HandleReport(n)
  <2>1. Panels /\ UNCHANGED raced
    BY <1>3 DEF HandleForm, ShowReport, HandleReport
  <2>2. QED
    BY <2>1, OwnElsewhere DEF Panels, Cutting
<1>4. CASE Finish
  BY <1>4, OwnElsewhere DEF Finish, Cutting
<1>5. CASE HandleDisconnect
  <2>1. \A t \in Thread : /\ scan'[t].stage = scan[t].stage /\ ~scan'[t].wanted
                         /\ scan'[t].kept = scan[t].kept /\ scan'[t].old = scan[t].old
    BY <1>5 DEF HandleDisconnect, TypeOK, ServerTypeOK, Scan
  <2>2. slot'.of = NoAccount /\ UNCHANGED record
    BY <1>5 DEF HandleDisconnect, NoSlot
  <2>3. QED
    BY <2>1, <2>2 DEF OwnInv, KeptAreOwn, AnswersAreOwn, SlotIsOwn
<1>6. QED
  BY <1>1, <1>2, <1>3, <1>4, <1>5

\* What the operator does.
LEMMA OwnOperate == ASSUME TypeOK, OwnInv, Operate PROVE OwnInv'
<1>1. CASE Refresh
  <2>1. OwnWatches
    BY <1>1, LoadAsks DEF Refresh, OwnWatches, Cutting
  <2>2. QED
    BY <2>1, OwnWatchingKeeps
<1>2. CASE DisconnectProvider
  <2>1. ~Cutting
    BY <1>2, ControlsOfPanel DEF DisconnectProvider, Dialog, Click, Cutting
  <2>2. QED
    BY <1>2, <2>1, OwnElsewhere DEF DisconnectProvider, pageVars
<1>3. CASE OpenConnect \/ SubmitEmpty \/ TryAgain \/ Cancel
  <2>1. Panels
    BY <1>3 DEF OpenConnect, SubmitEmpty, TryAgain, Cancel
  <2>2. raced => raced'
    <3>1. CASE OpenConnect
      BY <3>1 DEF OpenConnect
    <3>2. CASE SubmitEmpty \/ TryAgain \/ Cancel
      BY <3>2 DEF SubmitEmpty, TryAgain, Cancel
    <3>3. QED
      BY <1>3, <3>1, <3>2
  <2>3. QED
    BY <2>1, <2>2, OwnElsewhere DEF Panels, Cutting
<1>4. CASE (\E a \in Account : Type(a)) \/ (\E n \in Post : Submit(n))
  <2>1. Panels /\ UNCHANGED raced
    BY <1>4 DEF Type, Submit
  <2>2. QED
    BY <2>1, OwnElsewhere DEF Panels, Cutting
<1>5. CASE ReadAgain \/ SignIn
  BY <1>5, OwnElsewhere DEF ReadAgain, SignIn, Cutting
<1>6. CASE SignOut
  BY <1>6, OwnElsewhere DEF SignOut, serverVars, Cutting
<1>7. QED
  BY <1>1, <1>2, <1>3, <1>4, <1>5, <1>6 DEF Operate

\* What fails: the copies that the scans keep are the only thing left to say.
LEMMA OwnLose == ASSUME TypeOK, OwnInv, Lose PROVE OwnInv'
<1>1. raced'
  BY LoseIsRaced
<1>2. KeptAreOwn'
  <2>1. UNCHANGED record
    BY DEF Lose, LoseListing, LoseScan, LosePost, LoseForm, LoseDelete, serverVars
  <2>2. \A t \in Thread : scan'[t] = scan[t] \/ scan'[t].stage \in {"asked", "idle"}
    <3>1. CASE UNCHANGED scan
      BY <3>1
    <3>2. CASE \E refreshes : LoadInventory(refreshes)
      BY <3>2, LoadAsks
    <3>3. ASSUME NEW u \in Thread, scan' = [scan EXCEPT ![u] = NoScan]
          PROVE  \A t \in Thread : scan'[t] = scan[t] \/ scan'[t].stage = "idle"
      BY <3>3 DEF TypeOK, ServerTypeOK, NoScan
    <3>4. QED
      BY <3>1, <3>2, <3>3
      DEF Lose, LoseListing, LoseScan, LosePost, LoseForm, LoseDelete, serverVars
  <2>3. QED
    BY <2>1, <2>2 DEF OwnInv, KeptAreOwn
<1>3. QED
  BY <1>1, <1>2 DEF OwnInv

\* Every step keeps the invariant.
LEMMA OwnInvStep == TypeOK /\ FileInv /\ OwnInv /\ [Next]_vars => OwnInv'
<1> SUFFICES ASSUME TypeOK, FileInv, OwnInv, [Next]_vars PROVE OwnInv'
  OBVIOUS
<1>1. CASE UNCHANGED vars
  BY <1>1, OwnElsewhere DEF vars, serverVars, pageVars, Cutting
<1>2. QED
  BY <1>1, OwnServer, OwnGoes, OwnOperate, OwnLose DEF Next, Goes

\* The inventory under a jack is of the account on the jack, in whatever order
\* the answers of lists and scans arrive (app.js:514-547, 718).
THEOREM InventoryFollowsJack == Spec => []InventoryIsOwn
<1>1. Spec => []FileInv
  BY FileInvInit, FileInvStep, PTL DEF Spec
<1>2. Spec => []OwnInv
  BY <1>1, OwnInvInit, OwnInvStep, CloudTypes, PTL DEF Spec
<1>3. QED
  BY <1>2, OwnInvImplies, JackFollowsRecord, PTL
=============================================================================
