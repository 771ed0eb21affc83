------------------------------ MODULE FlipDialog ----------------------------
(***************************************************************************)
(* The switch of one use case (app/static/app.js): the confirmation dialog *)
(* with its plan, the two outlines and the drawing of the expanded card,   *)
(* the POST, and what the end of a job does to them.                       *)
(*                                                                         *)
(* An outline is an object that state.outlines names until a job's end or  *)
(* a switch deletes the pair; the promise of one that is under way goes on *)
(* all the same ("lost" here), and so do the callbacks that a dialog has   *)
(* attached to it.  The world is counted by its jobs' beginnings and ends: *)
(* an odd epoch is a running job; what the server computes is as of an     *)
(* epoch (for what its caches add to that see module PlanCache).           *)
(*                                                                         *)
(* The provider is connected.  The list is read in one step, the list and  *)
(* the detail that the end of a job awaits in one (their orders are in     *)
(* module JobTail).  Bounds: MaxJobs jobs, MaxMoves clicks and failures,   *)
(* one requestFlip() at a time, one lost request per outline.              *)
(***************************************************************************)
EXTENDS Naturals, FiniteSets

CONSTANTS Lamp,     \* what a use case may be when no job runs
          MaxJobs, MaxMoves

ASSUME FlipAssumption == /\ Lamp \subseteq {"on", "off", "error"} /\ Lamp # {}
                         /\ MaxJobs \in Nat /\ MaxMoves \in Nat

Action == {"on", "off"}
Epoch == 0..(2 * MaxJobs)

VARIABLES
    epoch,          \* the server's jobs so far
    here,           \* state.route is "usecases"
    shown,          \* its state in state.usecases
    open,           \* state.expanded
    detail,         \* state.details[id]
    outlines,       \* state.outlines[id], and the requests it no longer names
    drawing,        \* state.topo[id]
    dialog,         \* requestFlip() up to its answer
    flip,           \* state.flipping[id] and its POST
    tail,           \* the job being tailed, the one whose end is handled, state.jobFor[id]
    frozen,         \* the page's thread never comes back
    moves,
    handled,        \* history: the latest job posted from here, or end its tail saw
    drawn           \* history: the latest end handled with the card expanded

cardVars == <<here, shown, open, detail, drawing, tail>>
histVars == <<handled, drawn>>
vars == <<epoch, cardVars, outlines, dialog, flip, frozen, moves, histVars>>

\* "stuck": refused with 401, and loading ever since.
Request == {"none", "sent", "answered", "data", "err", "stuck"}
Slot == [stage : Request, ok : BOOLEAN, at : Epoch]
NoSlot == [stage |-> "none", ok |-> FALSE, at |-> 0]
Sent == [NoSlot EXCEPT !.stage = "sent"]

InFlight(s) == s.stage \in {"sent", "answered"}
Loading(s) == InFlight(s) \/ s.stage = "stuck"

NoDrawing == [stage |-> "none", at |-> 0]

\* A callback of rebuild(): the outline it waits for, whether that is named or
\* lost, seq === my, and whether its dialog is the one on the screen.
Callback == [on : Action, lost : BOOLEAN, live : BOOLEAN, mine : BOOLEAN]

\* picked: the radio, or what the switch was clicked for; shows: the answer in
\* the dialog; crossed: it was deleted, or asked for again, since; waited: that
\* happened before it came.
Dialog == [stage : {"closed", "detail", "open"}, was : Lamp \cup {"none"}, action : Action,
           picked : Action, ready : BOOLEAN, shows : Epoch, crossed : BOOLEAN,
           waited : BOOLEAN, calls : SUBSET Callback]
NoDialog == [stage |-> "closed", was |-> "none", action |-> "on", picked |-> "on",
             ready |-> FALSE, shows |-> 0, crossed |-> FALSE, waited |-> FALSE, calls |-> {}]

NoFlip == [stage |-> "idle", action |-> "on", picked |-> "on", at |-> 0]

TypeOK ==
    /\ epoch \in Epoch
    /\ here \in BOOLEAN /\ open \in BOOLEAN
    /\ shown \in Lamp \cup {"turning"}
    /\ detail \in {"absent", "loading", "ok", "err", "stuck"}
    /\ outlines \in [named : BOOLEAN, slot : [Action -> Slot], lost : [Action -> Slot]]
    /\ drawing \in [stage : Request, at : Epoch]
    /\ dialog \in Dialog
    /\ flip \in [stage : {"idle", "sent", "started", "refused"}, action : Action,
                 picked : Action, at : Epoch]
    /\ tail \in [on : Epoch, ended : Epoch, known : BOOLEAN]
    /\ frozen \in BOOLEAN
    /\ moves \in 0..MaxMoves
    /\ handled \in Epoch /\ drawn \in Epoch

\* The page is there with its list.
Init ==
    /\ epoch = 0
    /\ here = TRUE /\ shown \in Lamp /\ open = FALSE /\ detail = "absent"
    /\ outlines = [named |-> FALSE, slot |-> [a \in Action |-> NoSlot],
                   lost |-> [a \in Action |-> NoSlot]]
    /\ drawing = NoDrawing
    /\ dialog = NoDialog
    /\ flip = NoFlip
    /\ tail = [on |-> 0, ended |-> 0, known |-> FALSE]
    /\ frozen = FALSE
    /\ moves = 0 /\ handled = 0 /\ drawn = 0

-----------------------------------------------------------------------------
(* The server.                                                             *)

Running == epoch % 2 = 1

\* The state of the use case: without a job, what the probe finds.
States == IF Running THEN {"turning"} ELSE Lamp

Served == UNCHANGED <<cardVars, dialog, frozen, moves, histVars>>

\* Another tab or a script starts a job.
StartElsewhere ==
    /\ ~Running /\ epoch < 2 * MaxJobs
    /\ epoch' = epoch + 1
    /\ Served /\ UNCHANGED <<outlines, flip>>

JobEnds ==
    /\ Running
    /\ epoch' = epoch + 1
    /\ Served /\ UNCHANGED <<outlines, flip>>

\* outline(): data, or 409 while a job runs.
Answer(s) == [stage |-> "answered", ok |-> ~Running, at |-> epoch]

AnswerOutline(a) ==
    /\ \/ /\ outlines.slot[a].stage = "sent"
          /\ outlines' = [outlines EXCEPT !.slot[a] = Answer(@)]
       \/ /\ outlines.lost[a].stage = "sent"
          /\ outlines' = [outlines EXCEPT !.lost[a] = Answer(@)]
    /\ Served /\ UNCHANGED <<epoch, flip>>

AnswerDrawing ==
    /\ drawing.stage = "sent"
    /\ drawing' = [stage |-> "answered", at |-> epoch]
    /\ UNCHANGED <<epoch, here, shown, open, detail, tail, outlines, dialog, flip, frozen>>
    /\ UNCHANGED <<moves, histVars>>

AnswerFlip ==
    /\ flip.stage = "sent"
    /\ IF ~Running /\ epoch < 2 * MaxJobs
       THEN epoch' = epoch + 1 /\ flip' = [flip EXCEPT !.stage = "started", !.at = epoch + 1]
       ELSE UNCHANGED epoch /\ flip' = [flip EXCEPT !.stage = "refused"]
    /\ Served /\ UNCHANGED outlines

-----------------------------------------------------------------------------
(* loadOutline(), the deletion of the outlines, and rebuild(), as          *)
(* functions of the outlines o, the dialog d and frozen.                   *)

Now == [o |-> outlines, d |-> dialog, frozen |-> frozen]
Becomes(w) == outlines' = w.o /\ dialog' = w.d /\ frozen' = w.frozen

LoadOutline(o, a) ==
    IF Loading(o.slot[a]) \/ o.slot[a].stage = "data" THEN o
    ELSE [o EXCEPT !.named = TRUE, !.slot[a] = Sent]

LoadBoth(o) == LoadOutline(LoadOutline(o, "on"), "off")

\* The outlines of A are replaced or deleted: what is under way is lost, with
\* its callbacks.
Orphan(w, A) ==
    LET lose(a) == a \in A /\ InFlight(w.o.slot[a]) IN
    [w EXCEPT !.o.slot = [a \in Action |-> IF a \in A THEN NoSlot ELSE @[a]],
              !.o.lost = [a \in Action |-> IF lose(a) THEN w.o.slot[a] ELSE @[a]],
              !.d.calls = {[c EXCEPT !.lost = @ \/ lose(c.on)] : c \in @}]
MayOrphan(A) == \A a \in A : ~(InFlight(outlines.slot[a]) /\ InFlight(outlines.lost[a]))

DeleteOutlines(w) ==
    LET v == Orphan(w, Action) IN
    [v EXCEPT !.o.named = FALSE,
              !.d.crossed = @ \/ w.d.stage = "open",
              !.d.waited = @ \/ (w.d.stage = "open" /\ ~w.d.ready)]

\* loadOutline(id, a, true): a Retry.
Reload(w, a) == [Orphan(w, {a}) EXCEPT !.o.named = TRUE, !.o.slot[a] = Sent]

Waits(a, mine) == [on |-> a, lost |-> FALSE, live |-> TRUE, mine |-> mine]

\* Mutant: an outline that somebody else has asked for is not waited for.
RebuildOnce(w, a) ==
    LET o == IF w.o.slot[a].stage = "none" THEN LoadOutline(w.o, a) ELSE w.o
        s == o.slot[a]
        past == {[c EXCEPT !.live = @ /\ ~c.mine] : c \in w.d.calls}
    IN  [o |-> o, frozen |-> w.frozen \/ s.stage = "stuck",
         d |-> [w.d EXCEPT !.action = a, !.ready = ~Loading(s), !.shows = s.at,
                           !.crossed = FALSE,
                           !.calls = past \cup IF w.o.slot[a].stage = "none"
                                               THEN {Waits(a, TRUE)} ELSE {}]]

\* rebuild(a) of the dialog on the screen.  The promise of an outline that is
\* stuck has been resolved: its callback calls rebuild() at once, for ever.
Rebuild(w, a) ==
    LET o == IF w.o.slot[a].stage = "none" THEN LoadOutline(w.o, a) ELSE w.o
        s == o.slot[a]
        past == {[c EXCEPT !.live = @ /\ ~c.mine] : c \in w.d.calls}
    IN  [o |-> o, frozen |-> w.frozen \/ s.stage = "stuck",
         d |-> [w.d EXCEPT !.action = a, !.ready = ~Loading(s), !.shows = s.at,
                           !.crossed = FALSE,
                           !.calls = past \cup IF InFlight(s) THEN {Waits(a, TRUE)} ELSE {}]]

\* ... and of a dialog that has been closed, which goes on with its callbacks.
RebuildOld(w, a) ==
    LET o == IF w.o.slot[a].stage = "none" THEN LoadOutline(w.o, a) ELSE w.o
        s == o.slot[a]
    IN  [w EXCEPT !.o = o, !.frozen = @ \/ s.stage = "stuck",
                  !.d.calls = @ \cup IF InFlight(s) THEN {Waits(a, FALSE)} ELSE {}]

Calls(w, a, lost) == {c \in w.d.calls : c.on = a /\ c.lost = lost}
Dropped(w, a, lost) == [w EXCEPT !.d.calls = @ \ Calls(w, a, lost)]

\* Mutant: callbacks do not look at seq.
ResolveAny(w, a, lost) ==
    LET v   == Dropped(w, a, lost)
        old == IF \E c \in Calls(w, a, lost) : c.live /\ ~c.mine THEN RebuildOld(v, a) ELSE v
    IN  IF \E c \in Calls(w, a, lost) : c.mine THEN Rebuild(old, a) ELSE old

\* The promise of an outline of a is resolved.
Resolve(w, a, lost) ==
    LET v   == Dropped(w, a, lost)
        old == IF \E c \in Calls(w, a, lost) : c.live /\ ~c.mine THEN RebuildOld(v, a) ELSE v
    IN  IF \E c \in Calls(w, a, lost) : c.live /\ c.mine THEN Rebuild(old, a) ELSE old

Closed(d) == [NoDialog EXCEPT !.calls = {[c EXCEPT !.mine = FALSE] :
                                            c \in {b \in d.calls : b.live}}]

\* loadTopology(): one at a time.
LoadTopology ==
    drawing' = IF Loading(drawing) THEN drawing ELSE [NoDrawing EXCEPT !.stage = "sent"]

-----------------------------------------------------------------------------
(* The operator.                                                           *)

Moves == ~frozen /\ moves < MaxMoves /\ moves' = moves + 1
Modal == dialog.stage = "open"
Card == here /\ ~Modal

\* renderDetail(): the drawing and the two columns are there with the detail.
Expanded == Card /\ open /\ detail = "ok"

\* toggleExpand()
ToggleExpand ==
    /\ Card /\ Moves
    /\ open' = ~open
    /\ IF open
       THEN UNCHANGED <<detail, outlines, drawing>>
       ELSE /\ detail' = IF detail \in {"absent", "err"} THEN "loading" ELSE detail
            /\ outlines' = LoadBoth(outlines)
            /\ LoadTopology
    /\ UNCHANGED <<epoch, here, shown, tail, dialog, flip, frozen, histVars>>

\* Redraw, Replan, Retry, Draw.
Redraw ==
    /\ Expanded /\ ~Loading(drawing) /\ Moves
    /\ LoadTopology
    /\ UNCHANGED <<epoch, here, shown, open, detail, tail, outlines, dialog, flip, frozen>>
    /\ UNCHANGED histVars

\* The Retry of a column of the card.
RetryOutline(a) ==
    /\ Expanded /\ outlines.slot[a].stage \in {"data", "err"} /\ Moves
    /\ Becomes(Reload(Now, a))
    /\ UNCHANGED <<epoch, cardVars, flip, histVars>>

\* The procedure that a state calls for; the first radio button if it is none.
Initial(was) == IF was = "off" THEN "on" ELSE "off"

Opened(w, was) ==
    Rebuild([w EXCEPT !.d = [NoDialog EXCEPT !.stage = "open", !.was = was,
                                             !.picked = Initial(was), !.calls = w.d.calls]],
            Initial(was))

\* requestFlip(), up to its first await.
RequestFlip ==
    /\ Card /\ shown # "turning" /\ flip.stage = "idle" /\ dialog.stage = "closed" /\ Moves
    /\ \/ detail = "ok" /\ Becomes(Opened(Now, shown)) /\ UNCHANGED detail
       \/ /\ detail \in {"absent", "err"}
          /\ detail' = "loading"
          /\ dialog' = [dialog EXCEPT !.stage = "detail", !.was = shown]
          /\ UNCHANGED <<outlines, frozen>>
    /\ UNCHANGED <<epoch, here, shown, open, drawing, tail, flip, histVars>>

\* The radio buttons, for a state that is neither on nor off.
Pick(a) ==
    /\ Modal /\ dialog.was = "error" /\ a # dialog.picked /\ Moves
    /\ Becomes(Rebuild([Now EXCEPT !.d.picked = a], a))
    /\ UNCHANGED <<epoch, cardVars, flip, histVars>>

\* Mutant: a Retry in the dialog leaves the button as it is.
RetryPlanOnly ==
    /\ Modal /\ dialog.ready /\ MayOrphan({dialog.action}) /\ Moves
    /\ Becomes(Reload(Now, dialog.action))
    /\ UNCHANGED <<epoch, cardVars, flip, histVars>>

\* The Retry of a plan that failed, in the dialog.
RetryPlan ==
    /\ Modal /\ dialog.ready /\ MayOrphan({dialog.action}) /\ Moves
    /\ Becomes(Rebuild(Reload(Now, dialog.action), dialog.action))
    /\ UNCHANGED <<epoch, cardVars, flip, histVars>>

\* Cancel, Escape, the backdrop.
Dismiss ==
    /\ Modal /\ Moves
    /\ dialog' = Closed(dialog)
    /\ UNCHANGED <<epoch, cardVars, outlines, flip, frozen, histVars>>

\* Mutant: the POST is marked as begun by another word.
ConfirmPosting ==
    /\ Modal /\ dialog.ready /\ Moves
    /\ dialog' = Closed(dialog)
    /\ flip' = [NoFlip EXCEPT !.stage = "posting", !.action = dialog.action,
                            !.picked = dialog.picked]
    /\ UNCHANGED <<epoch, cardVars, outlines, frozen, histVars>>

Confirm ==
    /\ Modal /\ dialog.ready /\ Moves
    /\ dialog' = Closed(dialog)
    /\ flip' = [NoFlip EXCEPT !.stage = "sent", !.action = dialog.action,
                            !.picked = dialog.picked]
    /\ UNCHANGED <<epoch, cardVars, outlines, frozen, histVars>>

\* To another page (its intervals are cleared) and back, with a new sign-in.
Leave ==
    /\ here /\ Moves
    /\ here' = FALSE /\ tail' = [tail EXCEPT !.on = 0]
    /\ UNCHANGED <<epoch, shown, open, detail, drawing, outlines, dialog, flip, frozen>>
    /\ UNCHANGED histVars

Return ==
    /\ ~here /\ ~frozen
    /\ here' = TRUE
    /\ UNCHANGED <<epoch, shown, open, detail, drawing, tail, outlines, dialog, flip, frozen>>
    /\ UNCHANGED <<moves, histVars>>

Operate == \/ ToggleExpand \/ Redraw \/ RequestFlip \/ RetryPlan \/ Dismiss \/ Confirm
           \/ Leave \/ Return
           \/ \E a \in Action : RetryOutline(a) \/ Pick(a)

-----------------------------------------------------------------------------
(* What arrives at the page.                                               *)

Arrives == ~frozen /\ UNCHANGED <<epoch, moves>>
Later(e) == IF e > handled THEN e ELSE handled

\* trackJob() of the job that began at e: another job's tail is given up.
Track(e) == [tail EXCEPT !.on = e + 1, !.known = TRUE]

\* loadUsecases(), and a job that it finds running; one that the page has a
\* job for, be it a finished one, is not picked up.
PollList ==
    /\ Arrives /\ here
    /\ shown' \in States
    /\ tail' = IF Running /\ ~tail.known THEN Track(epoch) ELSE tail
    /\ UNCHANGED <<here, open, detail, drawing, outlines, dialog, flip, frozen, handled, drawn>>

\* loadDetail() tails a job that runs, or else takes the last run there is,
\* which may be one of before, and the click goes on.
HandleDetail ==
    /\ Arrives /\ detail = "loading"
    /\ detail' = "ok"
    /\ \E run \in BOOLEAN :
          /\ epoch > 0 => run
          /\ tail' = IF Running THEN Track(epoch) ELSE [tail EXCEPT !.known = @ \/ run]
    /\ IF dialog.stage = "detail" THEN Becomes(Opened(Now, dialog.was))
       ELSE UNCHANGED <<outlines, dialog, frozen>>
    /\ UNCHANGED <<here, shown, open, drawing, flip, handled, drawn>>

Arrived(s) == [s EXCEPT !.stage = IF s.ok THEN "data" ELSE "err"]

HandleOutline(a) ==
    /\ Arrives /\ outlines.slot[a].stage = "answered"
    /\ Becomes(Resolve([Now EXCEPT !.o.slot[a] = Arrived(@)], a, FALSE))
    /\ UNCHANGED <<cardVars, flip, handled, drawn>>

\* On the page, a lost outline reads a property of the pair that was deleted:
\* its promise is rejected and its callbacks are not called.
Rejected == here /\ ~outlines.named
Settle(a) == LET w == [Now EXCEPT !.o.lost[a] = NoSlot]
             IN  Becomes(IF Rejected THEN Dropped(w, a, TRUE) ELSE Resolve(w, a, TRUE))

HandleLost(a) ==
    /\ Arrives /\ outlines.lost[a].stage = "answered"
    /\ Settle(a)
    /\ UNCHANGED <<cardVars, flip, handled, drawn>>

HandleDrawing ==
    /\ Arrives /\ drawing.stage = "answered"
    /\ drawing' = [drawing EXCEPT !.stage = "data"]
    /\ UNCHANGED <<here, shown, open, detail, tail, outlines, dialog, flip, frozen, handled, drawn>>

\* 202 with the job, or 409.
HandleFlip ==
    /\ Arrives /\ MayOrphan(Action)
    /\ flip' = NoFlip
    /\ \/ /\ flip.stage = "started"
          /\ shown' = "turning" /\ open' = TRUE
          /\ tail' = Track(flip.at)
          /\ handled' = Later(flip.at)
          /\ Becomes(DeleteOutlines(Now))
       \/ /\ flip.stage = "refused"
          /\ UNCHANGED <<shown, open, tail, handled, outlines, dialog, frozen>>
    /\ UNCHANGED <<here, detail, drawing, drawn>>

\* Mutant: the end of a job leaves the outlines.
TailSeesOnly ==
    /\ Arrives /\ MayOrphan(Action)
    /\ tail.on # 0 /\ epoch >= tail.on /\ tail.ended = 0
    /\ tail' = [tail EXCEPT !.on = 0, !.ended = tail.on]
    /\ handled' = Later(tail.on)
    /\ UNCHANGED <<here, shown, open, detail, drawing, flip, drawn, outlines, dialog, frozen>>

\* pollJob() sees the end of its job...
TailSees ==
    /\ Arrives /\ MayOrphan(Action)
    /\ tail.on # 0 /\ epoch >= tail.on /\ tail.ended = 0
    /\ tail' = [tail EXCEPT !.on = 0, !.ended = tail.on]
    /\ handled' = Later(tail.on)
    /\ Becomes(DeleteOutlines(Now))
    /\ UNCHANGED <<here, shown, open, detail, drawing, flip, drawn>>

\* ... and when the list and the detail are there, asks for what the card has.
TailReloads ==
    /\ Arrives /\ tail.ended # 0
    /\ tail' = [(IF Running THEN Track(epoch) ELSE tail) EXCEPT !.ended = 0]
    /\ shown' \in States
    /\ detail' = IF detail = "loading" THEN detail ELSE "ok"
    /\ IF open
       THEN /\ outlines' = LoadBoth(outlines) /\ LoadTopology /\ drawn' = tail.ended
            /\ dialog' = [dialog EXCEPT !.crossed = @ \/ Modal]
       ELSE UNCHANGED <<outlines, drawing, drawn, dialog>>
    /\ UNCHANGED <<here, open, flip, frozen, handled>>

-----------------------------------------------------------------------------
(* A request fails: no answer, or 401 (onUnauthorised()).                  *)

Fails(expired) == /\ Moves
                  /\ here' = (here /\ ~expired)
                  /\ tail' = IF expired THEN [tail EXCEPT !.on = 0] ELSE tail
                  /\ UNCHANGED <<epoch, shown, open, histVars>>

LoseOutline(a, expired) ==
    /\ outlines.slot[a].stage = "sent" /\ Fails(expired)
    /\ LET s == [stage |-> IF expired THEN "stuck" ELSE "err", ok |-> FALSE, at |-> epoch]
       IN  Becomes(Resolve([Now EXCEPT !.o.slot[a] = s], a, FALSE))
    /\ UNCHANGED <<detail, drawing, flip>>

LoseLost(a, expired) ==
    /\ outlines.lost[a].stage = "sent" /\ Fails(expired)
    /\ IF expired THEN Becomes(Resolve([Now EXCEPT !.o.lost[a] = NoSlot], a, TRUE))
       ELSE Settle(a)
    /\ UNCHANGED <<detail, drawing, flip>>

\* The click ends with a message.
LoseDetail(expired) ==
    /\ detail = "loading" /\ Fails(expired)
    /\ detail' = IF expired THEN "stuck" ELSE "err"
    /\ dialog' = IF dialog.stage = "detail" THEN Closed(dialog) ELSE dialog
    /\ UNCHANGED <<outlines, drawing, flip, frozen>>

LoseDrawing(expired) ==
    /\ drawing.stage = "sent" /\ Fails(expired)
    /\ drawing' = [NoDrawing EXCEPT !.stage = IF expired THEN "stuck" ELSE "err"]
    /\ UNCHANGED <<outlines, detail, dialog, flip, frozen>>

\* The request, or its answer, is lost.
LoseFlip(expired) ==
    /\ flip.stage # "idle" /\ Fails(expired)
    /\ expired => flip.stage = "sent"
    /\ flip' = NoFlip
    /\ UNCHANGED <<outlines, detail, drawing, dialog, frozen>>

Lose == \E expired \in BOOLEAN :
            \/ \E a \in Action : LoseOutline(a, expired) \/ LoseLost(a, expired)
            \/ LoseDetail(expired) \/ LoseDrawing(expired) \/ LoseFlip(expired)

-----------------------------------------------------------------------------
\* Requests are answered and their answers handled; the tail's timer fires.
Goes == \/ \E a \in Action : AnswerOutline(a) \/ HandleOutline(a) \/ HandleLost(a)
        \/ AnswerDrawing \/ HandleDrawing \/ HandleDetail
        \/ AnswerFlip \/ HandleFlip \/ TailSees \/ TailReloads

Next == Goes \/ StartElsewhere \/ JobEnds \/ PollList \/ Operate \/ Lose

Spec == Init /\ [][Next]_vars

FairSpec == Spec /\ WF_vars(Goes)

-----------------------------------------------------------------------------
(* What is posted, and what the dialog shows the plan of, is the procedure *)
(* that was picked last: the answer to an earlier pick, which may come     *)
(* minutes later, does not bring that back (seq, app.js:3143-3152).        *)
PostsThePick ==
    /\ dialog.stage = "open" => dialog.action = dialog.picked
    /\ flip.action = flip.picked

(* The button is enabled only over an answer, a plan or the reason why     *)
(* there is none, and it is the one the page has for the picked procedure, *)
(* also after other picks and Retries.  Excepted is an answer that a job's *)
(* beginning or end has deleted, or asked for again, under the open dialog *)
(* (ready, app.js:3150).                                                   *)
ConfirmWaits ==
    Modal /\ dialog.ready /\ ~dialog.crossed
    => /\ ~Loading(outlines.slot[dialog.action])
       /\ outlines.slot[dialog.action].at = dialog.shows

(* No answer that the page keeps, a refusal because of a running job       *)
(* included, is older than the last job posted from this page or the last  *)
(* end that its tail has seen (app.js:3169, 1560), whichever requests were *)
(* under way then.  At the beginning of a job that the list or the detail  *)
(* picks up, and at an end that no tail sees, nothing is deleted.          *)
OutlineIsCurrent ==
    \A a \in Action : outlines.slot[a].stage \in {"data", "err"} => outlines.slot[a].at >= handled

(* A dialog that is waiting for its plan gets an answer or is closed.  Two *)
(* exceptions: the outlines are deleted under it, which loses its callback *)
(* (app.js:2967); or an outline has been refused with 401, after which     *)
(* rebuild() and its promise call each other for ever (2965, 3144) and the *)
(* page is frozen.                                                         *)
ConfirmComes ==
    (Modal /\ ~dialog.ready) ~> (~Modal \/ dialog.ready \/ dialog.waited \/ frozen)

(* "the drawing regenerates from the cloud after a job" (app.js:1563):     *)
(* when the drawing of an expanded card is there and nothing is under way, *)
(* it is of after the job.                                                 *)
DrawingRegenerates ==
    drawing.stage = "data" /\ tail.ended = 0 => drawing.at >= drawn
=============================================================================
