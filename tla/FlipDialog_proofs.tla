-------------------------- MODULE FlipDialog_proofs -------------------------
(***************************************************************************)
(* Proofs about FlipDialog, for any lamp and any number of jobs and clicks.*)
(***************************************************************************)
EXTENDS FlipDialog, TLAPS

\* The records, by their fields.
IsOutlines(o) == /\ DOMAIN o = {"named", "slot", "lost"}
                 /\ DOMAIN o.slot = Action
                 /\ \A a \in Action : DOMAIN o.slot[a] = {"stage", "ok", "at"}

IsDialog(d) == /\ DOMAIN d = {"stage", "was", "action", "picked", "ready", "shows", "crossed",
                              "waited", "calls"}
               /\ d.action \in Action
               /\ \A c \in d.calls : DOMAIN c = {"on", "lost", "live", "mine"}

IsPage(w) == DOMAIN w = {"o", "d", "frozen"} /\ IsOutlines(w.o) /\ IsDialog(w.d)

\* No answer that is named is older than e.
SinceThen(o, e) ==
    \A a \in Action : o.slot[a].stage \in {"answered", "data", "err"} => o.slot[a].at >= e

\* The dialog is about what was picked, and so is the callback it waits for,
\* which no closed dialog has.
AboutPick(d) ==
    /\ d.stage = "open" => d.action = d.picked
    /\ \A c \in d.calls : c.live /\ c.mine => d.stage = "open" /\ c.on = d.picked

Fits(w, e) == IsPage(w) /\ SinceThen(w.o, e) /\ AboutPick(w.d)

-----------------------------------------------------------------------------
(* What the page's functions keep.                                         *)

\* An outline that is asked for is nobody's answer yet.
LEMMA LoadFits ==
    ASSUME NEW o, IsOutlines(o), NEW e, SinceThen(o, e), NEW a
    PROVE  IsOutlines(LoadOutline(o, a)) /\ SinceThen(LoadOutline(o, a), e)
<1> DEFINE p == [o EXCEPT !.named = TRUE, !.slot[a] = Sent]
<1>1. /\ DOMAIN p = DOMAIN o /\ p.slot = [o.slot EXCEPT ![a] = Sent]
  BY DEF IsOutlines
<1>2. DOMAIN Sent = {"stage", "ok", "at"} /\ Sent.stage = "sent"
  BY DEF Sent, NoSlot
<1> HIDE DEF p
<1>3. IsOutlines(p) /\ SinceThen(p, e)
  BY <1>1, <1>2 DEF IsOutlines, SinceThen
<1>4. QED
  BY <1>3 DEF LoadOutline, p

\* rebuild() of the dialog on the screen, for what was picked, makes every
\* earlier callback of it a dead one.
LEMMA RebuildFits ==
    ASSUME NEW w, IsPage(w), NEW e, SinceThen(w.o, e), NEW a \in Action,
           w.d.stage = "open", w.d.picked = a
    PROVE  Fits(Rebuild(w, a), e)
<1> DEFINE o == IF w.o.slot[a].stage = "none" THEN LoadOutline(w.o, a) ELSE w.o
           s == o.slot[a]
           past == {[c EXCEPT !.live = @ /\ ~c.mine] : c \in w.d.calls}
           calls == past \cup IF InFlight(s) THEN {Waits(a, TRUE)} ELSE {}
           d == [w.d EXCEPT !.action = a, !.ready = ~Loading(s), !.shows = s.at,
                            !.crossed = FALSE, !.calls = calls]
<1>1. IsOutlines(o) /\ SinceThen(o, e)
  BY LoadFits DEF IsPage
<1>2. \A c \in past : DOMAIN c = {"on", "lost", "live", "mine"} /\ ~(c.live /\ c.mine)
  BY DEF IsPage, IsDialog
<1>3. Waits(a, TRUE).on = a /\ DOMAIN Waits(a, TRUE) = {"on", "lost", "live", "mine"}
  BY DEF Waits
<1>4. \A c \in calls : /\ DOMAIN c = {"on", "lost", "live", "mine"}
                       /\ c.live /\ c.mine => c.on = a
  <2> HIDE DEF past
  <2>1. QED
    BY <1>2, <1>3
<1>5. /\ DOMAIN d = DOMAIN w.d /\ d.stage = "open" /\ d.action = a /\ d.picked = a
      /\ d.calls = calls
  <2> HIDE DEF calls, s
  <2>1. QED
    BY DEF IsPage, IsDialog
<1>6. IsDialog(d) /\ AboutPick(d)
  <2> HIDE DEF calls, d
  <2>1. QED
    BY <1>4, <1>5 DEF IsPage, IsDialog, AboutPick
<1>7. Rebuild(w, a) = [o |-> o, frozen |-> w.frozen \/ s.stage = "stuck", d |-> d]
  BY DEF Rebuild
<1>8. Rebuild(w, a).o = o /\ Rebuild(w, a).d = d /\ DOMAIN Rebuild(w, a) = {"o", "d", "frozen"}
  <2> HIDE DEF o, s, d
  <2>1. QED
    BY <1>7
<1>9. QED
  <2> HIDE DEF o, s, d
  <2>1. QED
    BY <1>1, <1>6, <1>8 DEF Fits, IsPage

\* rebuild() of a closed dialog adds a callback that is nobody's on the screen.
LEMMA RebuildOldFits ==
    ASSUME NEW w, NEW e, Fits(w, e), NEW a \in Action
    PROVE  /\ Fits(RebuildOld(w, a), e)
           /\ RebuildOld(w, a).d.stage = w.d.stage /\ RebuildOld(w, a).d.picked = w.d.picked
<1> DEFINE o == IF w.o.slot[a].stage = "none" THEN LoadOutline(w.o, a) ELSE w.o
           s == o.slot[a]
           more == IF InFlight(s) THEN {Waits(a, FALSE)} ELSE {}
           u == RebuildOld(w, a)
<1>1. IsOutlines(o) /\ SinceThen(o, e)
  BY LoadFits DEF Fits, IsPage
<1>2. \A c \in more : DOMAIN c = {"on", "lost", "live", "mine"} /\ ~c.mine
  BY DEF Waits
<1>3. u = [w EXCEPT !.o = o, !.frozen = @ \/ s.stage = "stuck", !.d.calls = @ \cup more]
  BY DEF RebuildOld
<1>4. /\ DOMAIN u = {"o", "d", "frozen"} /\ u.o = o
      /\ u.d = [w.d EXCEPT !.calls = @ \cup more]
  <2> HIDE DEF o, s, more, u
  <2>1. QED
    BY <1>3 DEF Fits, IsPage
<1> HIDE DEF o, s, more, u
<1>5. /\ DOMAIN u.d = DOMAIN w.d /\ u.d.stage = w.d.stage /\ u.d.picked = w.d.picked
      /\ u.d.action = w.d.action /\ u.d.calls = w.d.calls \cup more
  BY <1>4 DEF Fits, IsPage, IsDialog
<1>6. Fits(u, e)
  BY <1>1, <1>2, <1>4, <1>5 DEF Fits, IsPage, IsDialog, AboutPick
<1>7. QED
  BY <1>5, <1>6 DEF u

\* Callbacks are taken off the list.
LEMMA DroppedFits ==
    ASSUME NEW w, NEW e, Fits(w, e), NEW a, NEW lost
    PROVE  /\ Fits(Dropped(w, a, lost), e)
           /\ Dropped(w, a, lost).d.stage = w.d.stage
           /\ Dropped(w, a, lost).d.picked = w.d.picked
<1> DEFINE u == Dropped(w, a, lost)
<1>1. /\ DOMAIN u = DOMAIN w /\ u.o = w.o
      /\ u.d = [w.d EXCEPT !.calls = @ \ Calls(w, a, lost)]
  BY DEF Dropped, Fits, IsPage
<1> HIDE DEF u
<1>2. /\ DOMAIN u.d = DOMAIN w.d /\ u.d.stage = w.d.stage /\ u.d.picked = w.d.picked
      /\ u.d.action = w.d.action /\ u.d.calls = w.d.calls \ Calls(w, a, lost)
  BY <1>1 DEF Fits, IsPage, IsDialog
<1>3. Fits(u, e)
  BY <1>1, <1>2 DEF Fits, IsPage, IsDialog, AboutPick
<1>4. QED
  BY <1>2, <1>3 DEF u

\* The callbacks of a promise: the one that counts is for what was picked.
LEMMA ResolveFits ==
    ASSUME NEW w, NEW e, Fits(w, e), NEW a \in Action, NEW lost
    PROVE  Fits(Resolve(w, a, lost), e)
<1> DEFINE v   == Dropped(w, a, lost)
           old == IF \E c \in Calls(w, a, lost) : c.live /\ ~c.mine THEN RebuildOld(v, a) ELSE v
<1>1. Fits(v, e) /\ v.d.stage = w.d.stage /\ v.d.picked = w.d.picked
  BY DroppedFits
<1>2. Fits(old, e) /\ old.d.stage = w.d.stage /\ old.d.picked = w.d.picked
  <2> HIDE DEF v
  <2>1. QED
    BY <1>1, RebuildOldFits
<1> HIDE DEF old
<1>3. CASE \E c \in Calls(w, a, lost) : c.live /\ c.mine
  <2>1. w.d.stage = "open" /\ w.d.picked = a
    BY <1>3 DEF Calls, Fits, AboutPick
  <2>2. Fits(Rebuild(old, a), e)
    BY <1>2, <2>1, RebuildFits DEF Fits
  <2>3. QED
    BY <1>3, <2>2 DEF Resolve, old
<1>4. CASE ~\E c \in Calls(w, a, lost) : c.live /\ c.mine
  BY <1>2, <1>4 DEF Resolve, old
<1>5. QED
  BY <1>3, <1>4

\* Outlines that are deleted or asked for again take no callback's meaning.
LEMMA OrphanFits ==
    ASSUME NEW w, NEW e, Fits(w, e), NEW A
    PROVE  /\ Fits(Orphan(w, A), e)
           /\ Orphan(w, A).d.stage = w.d.stage /\ Orphan(w, A).d.picked = w.d.picked
           /\ Orphan(w, A).d.action = w.d.action
           /\ \A a \in Action \cap A : Orphan(w, A).o.slot[a] = NoSlot
<1> DEFINE lose(a) == a \in A /\ InFlight(w.o.slot[a])
           slot == [a \in Action |-> IF a \in A THEN NoSlot ELSE w.o.slot[a]]
           lost == [a \in Action |-> IF lose(a) THEN w.o.slot[a] ELSE w.o.lost[a]]
           calls == {[c EXCEPT !.lost = @ \/ lose(c.on)] : c \in w.d.calls}
           u == Orphan(w, A)
<1>1. \A c \in calls : /\ DOMAIN c = {"on", "lost", "live", "mine"}
                       /\ c.live /\ c.mine => w.d.stage = "open" /\ c.on = w.d.picked
  <2> HIDE DEF lose
  <2>1. QED
    BY DEF Fits, IsPage, IsDialog, AboutPick
<1>2. u = [w EXCEPT !.o.slot = slot, !.o.lost = lost, !.d.calls = calls]
  BY DEF Orphan
<1>3. DOMAIN slot = Action /\ \A a \in Action : slot[a] = IF a \in A THEN NoSlot ELSE w.o.slot[a]
  OBVIOUS
<1> HIDE DEF slot, lost, calls, u
<1>4. /\ DOMAIN u = {"o", "d", "frozen"}
      /\ u.o = [w.o EXCEPT !.slot = slot, !.lost = lost]
      /\ u.d = [w.d EXCEPT !.calls = calls]
  BY <1>2 DEF Fits, IsPage
<1>5. DOMAIN u.o = DOMAIN w.o /\ u.o.slot = slot
  BY <1>4 DEF Fits, IsPage, IsOutlines
<1>6. /\ DOMAIN u.d = DOMAIN w.d /\ u.d.stage = w.d.stage /\ u.d.picked = w.d.picked
      /\ u.d.action = w.d.action /\ u.d.calls = calls
  BY <1>4 DEF Fits, IsPage, IsDialog
<1>7. IsOutlines(u.o) /\ SinceThen(u.o, e)
  BY <1>3, <1>5 DEF Fits, IsPage, IsOutlines, SinceThen, NoSlot
<1>8. IsDialog(u.d) /\ AboutPick(u.d)
  BY <1>1, <1>6 DEF Fits, IsPage, IsDialog, AboutPick
<1>9. QED
  BY <1>3, <1>4, <1>5, <1>6, <1>7, <1>8 DEF u, Fits, IsPage

\* A slot gets an answer of its own time.
LEMMA SlotFits ==
    ASSUME NEW w, NEW e, Fits(w, e), NEW a \in Action, NEW s, DOMAIN s = {"stage", "ok", "at"},
           s.stage \in {"answered", "data", "err"} => s.at >= e
    PROVE  Fits([w EXCEPT !.o.slot[a] = s], e)
<1> DEFINE u == [w EXCEPT !.o.slot[a] = s]
<1>1. DOMAIN u = {"o", "d", "frozen"} /\ u.d = w.d /\ u.o = [w.o EXCEPT !.slot[a] = s]
  BY DEF Fits, IsPage
<1> HIDE DEF u
<1>2. DOMAIN u.o = DOMAIN w.o /\ u.o.slot = [w.o.slot EXCEPT ![a] = s]
  BY <1>1 DEF Fits, IsPage, IsOutlines
<1>3. IsOutlines(u.o) /\ SinceThen(u.o, e)
  BY <1>2 DEF Fits, IsPage, IsOutlines, SinceThen
<1>4. QED
  BY <1>1, <1>3 DEF u, Fits, IsPage

\* A lost request has no part in it.
LEMMA LostFits ==
    ASSUME NEW w, NEW e, Fits(w, e), NEW a, NEW s
    PROVE  Fits([w EXCEPT !.o.lost[a] = s], e)
<1> DEFINE u == [w EXCEPT !.o.lost[a] = s]
<1>1. DOMAIN u = {"o", "d", "frozen"} /\ u.d = w.d /\ u.o = [w.o EXCEPT !.lost[a] = s]
  BY DEF Fits, IsPage
<1> HIDE DEF u
<1>2. DOMAIN u.o = DOMAIN w.o /\ u.o.slot = w.o.slot
  BY <1>1 DEF Fits, IsPage, IsOutlines
<1>3. IsOutlines(u.o) /\ SinceThen(u.o, e)
  BY <1>2 DEF Fits, IsPage, IsOutlines, SinceThen
<1>4. QED
  BY <1>1, <1>3 DEF u, Fits, IsPage

\* A Retry.
LEMMA ReloadFits ==
    ASSUME NEW w, NEW e, Fits(w, e), NEW a \in Action
    PROVE  /\ Fits(Reload(w, a), e)
           /\ Reload(w, a).d.stage = w.d.stage /\ Reload(w, a).d.picked = w.d.picked
           /\ Reload(w, a).d.action = w.d.action
<1> DEFINE v == Orphan(w, {a})
           u == [v EXCEPT !.o.named = TRUE, !.o.slot[a] = Sent]
<1>1. /\ Fits(v, e) /\ v.d.stage = w.d.stage /\ v.d.picked = w.d.picked
      /\ v.d.action = w.d.action
  BY OrphanFits
<1> HIDE DEF v
<1>2. DOMAIN Sent = {"stage", "ok", "at"} /\ Sent.stage = "sent"
  BY DEF Sent, NoSlot
<1>3. /\ DOMAIN u = {"o", "d", "frozen"} /\ u.d = v.d
      /\ u.o = [v.o EXCEPT !.named = TRUE, !.slot[a] = Sent]
  BY <1>1 DEF Fits, IsPage
<1> HIDE DEF u
<1>4. DOMAIN u.o = DOMAIN v.o /\ u.o.slot = [v.o.slot EXCEPT ![a] = Sent]
  BY <1>1, <1>3 DEF Fits, IsPage, IsOutlines
<1>5. IsOutlines(u.o) /\ SinceThen(u.o, e)
  BY <1>1, <1>2, <1>4 DEF Fits, IsPage, IsOutlines, SinceThen
<1>6. Fits(u, e)
  BY <1>1, <1>3, <1>5 DEF Fits, IsPage
<1>7. QED
  BY <1>1, <1>3, <1>6 DEF u, v, Reload

\* After the deletion there is no answer, so none is too old.
LEMMA DeleteFits ==
    ASSUME NEW w, NEW e, Fits(w, e), NEW f
    PROVE  Fits(DeleteOutlines(w), f)
<1> DEFINE v == Orphan(w, Action)
           u == DeleteOutlines(w)
<1>1. Fits(v, e) /\ \A a \in Action : v.o.slot[a] = NoSlot
  BY OrphanFits
<1>2. /\ DOMAIN u = {"o", "d", "frozen"}
      /\ u.o = [v.o EXCEPT !.named = FALSE]
      /\ u.d = [v.d EXCEPT !.crossed = @ \/ w.d.stage = "open",
                           !.waited = @ \/ (w.d.stage = "open" /\ ~w.d.ready)]
  <2>1. u = [v EXCEPT !.o.named = FALSE,
                      !.d.crossed = @ \/ w.d.stage = "open",
                      !.d.waited = @ \/ (w.d.stage = "open" /\ ~w.d.ready)]
    BY DEF DeleteOutlines
  <2> HIDE DEF u, v
  <2>2. QED
    BY <1>1, <2>1 DEF Fits, IsPage
<1> HIDE DEF u, v
<1>3. DOMAIN u.o = DOMAIN v.o /\ u.o.slot = v.o.slot
  BY <1>1, <1>2 DEF Fits, IsPage, IsOutlines
<1>4. /\ DOMAIN u.d = DOMAIN v.d /\ u.d.stage = v.d.stage /\ u.d.picked = v.d.picked
      /\ u.d.action = v.d.action /\ u.d.calls = v.d.calls
  BY <1>1, <1>2 DEF Fits, IsPage, IsDialog
<1>5. IsOutlines(u.o) /\ SinceThen(u.o, f)
  BY <1>1, <1>3 DEF Fits, IsPage, IsOutlines, SinceThen, NoSlot
<1>6. IsDialog(u.d) /\ AboutPick(u.d)
  BY <1>1, <1>4 DEF Fits, IsPage, IsDialog, AboutPick
<1>7. QED
  BY <1>2, <1>5, <1>6 DEF u, Fits, IsPage

\* The dialog opens with the procedure that the state calls for.
LEMMA OpenedFits ==
    ASSUME NEW w, NEW e, Fits(w, e), NEW was
    PROVE  Fits(Opened(w, was), e)
<1> DEFINE d == [NoDialog EXCEPT !.stage = "open", !.was = was, !.picked = Initial(was),
                                 !.calls = w.d.calls]
           u == [w EXCEPT !.d = d]
<1>1. d.stage = "open" /\ d.picked = Initial(was) /\ IsDialog(d)
  BY DEF NoDialog, IsDialog, Fits, IsPage, Action
<1> HIDE DEF d
<1>2. u.d = d /\ u.o = w.o /\ IsPage(u)
  BY <1>1 DEF Fits, IsPage
<1> HIDE DEF u
<1>3. Initial(was) \in Action
  BY DEF Initial, Action
<1>4. Fits(Rebuild(u, Initial(was)), e)
  BY <1>1, <1>2, <1>3, RebuildFits DEF Fits
<1>5. QED
  BY <1>4 DEF u, d, Opened

\* A dialog that is closed waits for nothing.
LEMMA ClosedFits ==
    ASSUME NEW d, IsDialog(d)
    PROVE  IsDialog(Closed(d)) /\ AboutPick(Closed(d)) /\ Closed(d).stage = "closed"
<1> DEFINE calls == {[c EXCEPT !.mine = FALSE] : c \in {b \in d.calls : b.live}}
<1>1. \A c \in calls : DOMAIN c = {"on", "lost", "live", "mine"} /\ ~c.mine
  BY DEF IsDialog
<1>2. Closed(d) = [NoDialog EXCEPT !.calls = calls]
  BY DEF Closed
<1> HIDE DEF calls
<1>3. QED
  BY <1>1, <1>2 DEF NoDialog, IsDialog, AboutPick, Action

-----------------------------------------------------------------------------
(* The steps.                                                              *)

\* What the page has handled has happened.
TimeInv ==
    /\ epoch \in Nat /\ handled \in 0..epoch
    /\ DOMAIN tail = {"on", "ended", "known"} /\ tail.on \in Nat
    /\ DOMAIN flip = {"stage", "action", "picked", "at"} /\ flip.action = flip.picked
    /\ flip.stage = "started" => flip.at \in 0..epoch

FlipInv == TimeInv /\ Fits(Now, handled)

\* Now, and what it becomes.
LEMMA NowFits ==
    /\ Now.o = outlines /\ Now.d = dialog
    /\ Fits(Now, handled) <=> /\ IsOutlines(outlines) /\ SinceThen(outlines, handled)
                              /\ IsDialog(dialog) /\ AboutPick(dialog)
BY DEF Now, Fits, IsPage

\* A step of the page that handles no job's beginning or end.
LEMMA PageKept ==
    ASSUME UNCHANGED handled, IsOutlines(outlines'), SinceThen(outlines', handled),
           IsDialog(dialog'), AboutPick(dialog')
    PROVE  Fits(Now, handled)'
BY DEF Now, Fits, IsPage

\* A step whose page is a fitting one.
LEMMA PageBecomes ==
    ASSUME NEW w, Fits(w, handled), Becomes(w), UNCHANGED handled
    PROVE  Fits(Now, handled)'
BY PageKept DEF Becomes, Fits, IsPage

\* The server's steps.
LEMMA ServerKeeps ==
    ASSUME FlipInv,
           \/ StartElsewhere \/ JobEnds \/ AnswerDrawing \/ AnswerFlip
           \/ \E a \in Action : AnswerOutline(a)
    PROVE  FlipInv'
<1> USE NowFits DEF FlipInv
<1>1. CASE StartElsewhere \/ JobEnds \/ AnswerDrawing
  <2>1. TimeInv'
    BY <1>1 DEF TimeInv, StartElsewhere, JobEnds, AnswerDrawing, Served, cardVars, histVars
  <2>2. Fits(Now, handled)'
    BY <1>1, PageKept DEF StartElsewhere, JobEnds, AnswerDrawing, Served, cardVars, histVars
  <2>3. QED
    BY <2>1, <2>2
<1>2. CASE AnswerFlip
  <2>1. TimeInv'
    <3>1. CASE ~Running /\ epoch < 2 * MaxJobs
      <4>1. /\ epoch' = epoch + 1 /\ UNCHANGED <<tail, handled>>
            /\ flip' = [flip EXCEPT !.stage = "started", !.at = epoch + 1]
        BY <1>2, <3>1 DEF AnswerFlip, Served, cardVars, histVars
      <4>2. /\ DOMAIN flip' = DOMAIN flip /\ flip'.action = flip'.picked
            /\ flip'.at = epoch + 1
        BY <4>1 DEF TimeInv
      <4>3. QED
        BY <4>1, <4>2 DEF TimeInv
    <3>2. CASE ~(~Running /\ epoch < 2 * MaxJobs)
      BY <1>2, <3>2 DEF TimeInv, AnswerFlip, Served, cardVars, histVars
    <3>3. QED
      BY <3>1, <3>2
  <2>2. Fits(Now, handled)'
    BY <1>2, PageKept DEF AnswerFlip, Served, histVars
  <2>3. QED
    BY <2>1, <2>2
<1>3. ASSUME NEW a \in Action, AnswerOutline(a) PROVE FlipInv'
  <2>1. TimeInv'
    BY <1>3 DEF TimeInv, AnswerOutline, Served, cardVars, histVars
  <2>2. DOMAIN outlines' = DOMAIN outlines
        /\ \/ outlines'.slot = outlines.slot
           \/ outlines'.slot = [outlines.slot EXCEPT ![a] = Answer(@)]
    BY <1>3 DEF AnswerOutline, IsOutlines
  <2>3. \A s : DOMAIN Answer(s) = {"stage", "ok", "at"} /\ Answer(s).at = epoch
    BY DEF Answer
  <2>4. IsOutlines(outlines') /\ SinceThen(outlines', handled)
    BY <2>2, <2>3 DEF TimeInv, IsOutlines, SinceThen
  <2>5. Fits(Now, handled)'
    BY <1>3, <2>4, PageKept DEF AnswerOutline, Served, histVars
  <2>6. QED
    BY <2>1, <2>5
<1>4. QED
  BY <1>1, <1>2, <1>3

\* The operator's steps.
LEMMA OperateKeeps == ASSUME FlipInv, Operate PROVE FlipInv'
<1> USE NowFits DEF FlipInv
<1>1. TimeInv'
  <2>1. CASE Confirm
    BY <2>1 DEF TimeInv, Confirm, Modal, NoFlip, AboutPick, cardVars, histVars
  <2>2. CASE Leave
    BY <2>2 DEF TimeInv, Leave, histVars
  <2>3. CASE UNCHANGED <<epoch, handled, tail, flip>>
    BY <2>3 DEF TimeInv
  <2>4. QED
    BY <2>1, <2>2, <2>3
    DEF Operate, ToggleExpand, Redraw, RequestFlip, RetryPlan, Dismiss, Return, RetryOutline,
        Pick, cardVars, histVars
<1>2. CASE UNCHANGED <<outlines, dialog, handled>>
  BY <1>1, <1>2, PageKept
<1>3. CASE Redraw \/ Leave \/ Return
  BY <1>2, <1>3 DEF Redraw, Leave, Return, histVars
<1>4. CASE ToggleExpand
  <2>1. IsOutlines(LoadBoth(outlines)) /\ SinceThen(LoadBoth(outlines), handled)
    BY LoadFits DEF LoadBoth
  <2>2. QED
    BY <1>1, <1>4, <2>1, PageKept DEF ToggleExpand, histVars
<1>5. CASE RequestFlip
  <2>1. CASE Becomes(Opened(Now, shown))
    BY <1>1, <1>5, <2>1, OpenedFits, PageBecomes DEF RequestFlip, histVars
  <2>2. CASE dialog' = [dialog EXCEPT !.stage = "detail", !.was = shown]
    <3>1. /\ DOMAIN dialog' = DOMAIN dialog /\ dialog'.calls = dialog.calls
          /\ dialog'.action = dialog.action /\ dialog'.stage = "detail" /\ dialog.stage = "closed"
      BY <1>5, <2>2 DEF RequestFlip, IsDialog
    <3>2. IsDialog(dialog') /\ AboutPick(dialog')
      BY <3>1 DEF IsDialog, AboutPick
    <3>3. CASE UNCHANGED outlines
      BY <1>1, <1>5, <3>2, <3>3, PageKept DEF RequestFlip, histVars
    <3>4. QED
      BY <1>5, <2>1, <3>3 DEF RequestFlip
  <2>3. QED
    BY <1>5, <2>1, <2>2 DEF RequestFlip
<1>6. ASSUME NEW a \in Action, RetryOutline(a) PROVE FlipInv'
  BY <1>1, <1>6, ReloadFits, PageBecomes DEF RetryOutline, histVars
<1>7. ASSUME NEW a \in Action, Pick(a) PROVE FlipInv'
  <2> DEFINE w == [Now EXCEPT !.d.picked = a]
  <2>1. /\ DOMAIN w = {"o", "d", "frozen"} /\ w.o = outlines
        /\ w.d = [dialog EXCEPT !.picked = a]
    BY DEF Now
  <2> HIDE DEF w
  <2>2. IsPage(w) /\ w.d.stage = "open" /\ w.d.picked = a
    BY <1>7, <2>1 DEF IsPage, IsDialog, Pick, Modal
  <2>3. Fits(Rebuild(w, a), handled)
    BY <2>1, <2>2, RebuildFits
  <2>4. QED
    BY <1>1, <1>7, <2>3, PageBecomes DEF w, Pick, histVars
<1>8. CASE RetryPlan
  <2> DEFINE a == dialog.action
             w == Reload(Now, a)
  <2>1. dialog.stage = "open" /\ a = dialog.picked
    BY <1>8 DEF RetryPlan, Modal, AboutPick
  <2>2. a \in Action
    BY DEF IsDialog
  <2>3. Fits(w, handled) /\ w.d.stage = "open" /\ w.d.picked = a
    BY <2>1, <2>2, ReloadFits
  <2>4. Fits(Rebuild(w, a), handled)
    <3> HIDE DEF w
    <3>1. QED
      BY <2>2, <2>3, RebuildFits DEF Fits
  <2>5. QED
    BY <1>1, <1>8, <2>4, PageBecomes DEF RetryPlan, histVars
<1>9. CASE Dismiss \/ Confirm
  BY <1>1, <1>9, ClosedFits, PageKept DEF Dismiss, Confirm, histVars
<1>10. QED
  BY <1>3, <1>4, <1>5, <1>6, <1>7, <1>8, <1>9 DEF Operate

\* A lost request settles: its callbacks are called, or dropped.
LEMMA SettleKeeps ==
    ASSUME TimeInv', Fits(Now, handled), NEW a \in Action, Settle(a), UNCHANGED handled
    PROVE  FlipInv'
<1> DEFINE w == [Now EXCEPT !.o.lost[a] = NoSlot]
<1>1. Fits(w, handled)
  BY LostFits
<1> HIDE DEF w
<1>2. Fits(Dropped(w, a, TRUE), handled) /\ Fits(Resolve(w, a, TRUE), handled)
  BY <1>1, DroppedFits, ResolveFits
<1>3. Becomes(IF Rejected THEN Dropped(w, a, TRUE) ELSE Resolve(w, a, TRUE))
  BY DEF Settle, w
<1>4. QED
  BY <1>2, <1>3, PageBecomes DEF FlipInv

\* What arrives and deletes nothing.
LEMMA ArrivalKeeps ==
    ASSUME FlipInv,
           \/ PollList \/ HandleDetail \/ HandleDrawing \/ TailReloads
           \/ \E a \in Action : HandleOutline(a) \/ HandleLost(a)
    PROVE  FlipInv'
<1> USE NowFits DEF FlipInv
<1>1. TimeInv'
  <2>1. CASE PollList
    BY <2>1 DEF TimeInv, PollList, Arrives, Track
  <2>2. CASE TailReloads \/ HandleDetail
    <3>1. UNCHANGED <<epoch, flip, handled>>
      BY <2>2 DEF TailReloads, HandleDetail, Arrives
    <3>2. DOMAIN Track(epoch) = DOMAIN tail /\ Track(epoch).on \in Nat
      BY DEF TimeInv, Track
    <3>3. CASE TailReloads
      BY <3>1, <3>2, <3>3 DEF TimeInv, TailReloads
    <3>4. CASE HandleDetail
      <4>1. PICK run \in BOOLEAN :
               tail' = IF Running THEN Track(epoch) ELSE [tail EXCEPT !.known = @ \/ run]
        BY <3>4 DEF HandleDetail
      <4>2. CASE Running
        BY <3>1, <3>2, <4>1, <4>2 DEF TimeInv
      <4>3. CASE ~Running
        BY <3>1, <4>1, <4>3 DEF TimeInv
      <4>4. QED
        BY <4>2, <4>3
    <3>5. QED
      BY <2>2, <3>3, <3>4
  <2>3. CASE UNCHANGED <<epoch, handled, tail, flip>>
    BY <2>3 DEF TimeInv
  <2>4. QED
    BY <2>1, <2>2, <2>3
    DEF HandleDrawing, HandleOutline, HandleLost, Arrives, cardVars
<1>2. CASE PollList \/ HandleDrawing
  BY <1>1, <1>2, PageKept DEF PollList, HandleDrawing
<1>3. CASE HandleDetail
  <2>1. CASE dialog.stage = "detail"
    BY <1>1, <1>3, <2>1, OpenedFits, PageBecomes DEF HandleDetail
  <2>2. CASE dialog.stage # "detail"
    BY <1>1, <1>3, <2>2, PageKept DEF HandleDetail
  <2>3. QED
    BY <2>1, <2>2
<1>4. CASE TailReloads
  <2>1. CASE open
    <3>1. IsOutlines(LoadBoth(outlines)) /\ SinceThen(LoadBoth(outlines), handled)
      BY LoadFits DEF LoadBoth
    <3>2. dialog' = [dialog EXCEPT !.crossed = @ \/ Modal]
      BY <1>4, <2>1 DEF TailReloads
    <3>3. IsDialog(dialog') /\ AboutPick(dialog')
      BY <3>2 DEF IsDialog, AboutPick
    <3>4. QED
      BY <1>1, <1>4, <2>1, <3>1, <3>3, PageKept DEF TailReloads
  <2>2. CASE ~open
    BY <1>1, <1>4, <2>2, PageKept DEF TailReloads
  <2>3. QED
    BY <2>1, <2>2
<1>5. ASSUME NEW a \in Action, HandleOutline(a) PROVE FlipInv'
  <2> DEFINE s == Arrived(outlines.slot[a])
             w == [Now EXCEPT !.o.slot[a] = s]
  <2>1. DOMAIN s = {"stage", "ok", "at"} /\ s.at = outlines.slot[a].at
    BY DEF Arrived, IsOutlines
  <2>2. outlines.slot[a].at >= handled
    BY <1>5 DEF HandleOutline, SinceThen
  <2>3. Fits(w, handled)
    <3> HIDE DEF s
    <3>1. QED
      BY <2>1, <2>2, SlotFits
  <2>4. Fits(Resolve(w, a, FALSE), handled)
    <3> HIDE DEF w
    <3>1. QED
      BY <2>3, ResolveFits
  <2>5. [Now EXCEPT !.o.slot[a] = Arrived(@)] = w
    BY DEF Now
  <2>6. Becomes(Resolve(w, a, FALSE)) /\ UNCHANGED handled
    BY <1>5, <2>5 DEF HandleOutline
  <2>7. QED
    <3> HIDE DEF w
    <3>1. QED
      BY <1>1, <2>4, <2>6, PageBecomes
<1>6. ASSUME NEW a \in Action, HandleLost(a) PROVE FlipInv'
  BY <1>1, <1>6, SettleKeeps DEF HandleLost
<1>7. QED
  BY <1>2, <1>3, <1>4, <1>5, <1>6

\* A job that is posted, and an end that the tail sees, delete the outlines.
LEMMA NewsKeeps ==
    ASSUME FlipInv, HandleFlip \/ TailSees
    PROVE  FlipInv'
<1> USE NowFits DEF FlipInv
<1>1. CASE HandleFlip
  <2>1. CASE flip.stage = "started" /\ Becomes(DeleteOutlines(Now))
    <3>1. TimeInv'
      <4>1. /\ UNCHANGED epoch /\ flip' = NoFlip /\ handled' = Later(flip.at)
            /\ tail' = Track(flip.at)
        BY <1>1, <2>1 DEF HandleFlip, Arrives
      <4>2. flip.at \in 0..epoch /\ handled \in 0..epoch
        BY <2>1 DEF TimeInv
      <4>3. QED
        BY <4>1, <4>2 DEF TimeInv, NoFlip, Later, Track
    <3>2. Fits(DeleteOutlines(Now), handled')
      BY DeleteFits
    <3>3. Fits(Now, handled)'
      BY <2>1, <3>2 DEF Becomes, Now, Fits, IsPage
    <3>4. QED
      BY <3>1, <3>3
  <2>2. CASE UNCHANGED <<tail, handled, outlines, dialog>>
    <3>1. TimeInv'
      BY <1>1, <2>2 DEF TimeInv, HandleFlip, Arrives, NoFlip
    <3>2. QED
      BY <2>2, <3>1, PageKept
  <2>3. QED
    BY <1>1, <2>1, <2>2 DEF HandleFlip
<1>2. CASE TailSees
  <2>1. TimeInv'
    <3>1. /\ UNCHANGED <<epoch, flip>> /\ handled' = Later(tail.on)
          /\ tail' = [tail EXCEPT !.on = 0, !.ended = tail.on]
      BY <1>2 DEF TailSees, Arrives
    <3>2. tail.on \in 0..epoch /\ handled \in 0..epoch
      BY <1>2 DEF TimeInv, TailSees
    <3>3. QED
      BY <3>1, <3>2 DEF TimeInv, Later
  <2>2. Fits(DeleteOutlines(Now), handled')
    BY DeleteFits
  <2>3. Fits(Now, handled)'
    BY <1>2, <2>2 DEF TailSees, Becomes, Now, Fits, IsPage
  <2>4. QED
    BY <2>1, <2>3
<1>3. QED
  BY <1>1, <1>2

\* The failures.
LEMMA LoseKeeps == ASSUME FlipInv, Lose PROVE FlipInv'
<1> USE NowFits DEF FlipInv
<1>1. PICK expired \in BOOLEAN :
            \/ \E a \in Action : LoseOutline(a, expired) \/ LoseLost(a, expired)
            \/ LoseDetail(expired) \/ LoseDrawing(expired) \/ LoseFlip(expired)
  BY DEF Lose
<1>2. UNCHANGED <<epoch, handled>> /\ (flip' = flip \/ flip' = NoFlip)
      /\ (tail' = tail \/ tail' = [tail EXCEPT !.on = 0])
  BY <1>1 DEF LoseOutline, LoseLost, LoseDetail, LoseDrawing, LoseFlip, Fails, histVars
<1>3. TimeInv'
  BY <1>2 DEF TimeInv, NoFlip
<1>4. ASSUME NEW a \in Action, LoseOutline(a, expired) PROVE FlipInv'
  <2> DEFINE s == [stage |-> IF expired THEN "stuck" ELSE "err", ok |-> FALSE, at |-> epoch]
             w == [Now EXCEPT !.o.slot[a] = s]
  <2>1. DOMAIN s = {"stage", "ok", "at"} /\ s.at >= handled
    BY DEF TimeInv
  <2>2. Fits(w, handled)
    <3> HIDE DEF s
    <3>1. QED
      BY <2>1, SlotFits
  <2>3. Fits(Resolve(w, a, FALSE), handled)
    <3> HIDE DEF w
    <3>1. QED
      BY <2>2, ResolveFits
  <2>4. QED
    BY <1>2, <1>3, <1>4, <2>3, PageBecomes DEF LoseOutline
<1>5. ASSUME NEW a \in Action, LoseLost(a, expired) PROVE FlipInv'
  <2> DEFINE w == [Now EXCEPT !.o.lost[a] = NoSlot]
  <2>1. Fits(w, handled)
    BY LostFits
  <2>2. Fits(Resolve(w, a, TRUE), handled)
    <3> HIDE DEF w
    <3>1. QED
      BY <2>1, ResolveFits
  <2>3. QED
    BY <1>2, <1>3, <1>5, <2>2, PageBecomes, SettleKeeps DEF LoseLost
<1>6. CASE LoseDetail(expired) \/ LoseDrawing(expired) \/ LoseFlip(expired)
  BY <1>2, <1>3, <1>6, PageKept, ClosedFits DEF LoseDetail, LoseDrawing, LoseFlip
<1>7. QED
  BY <1>1, <1>4, <1>5, <1>6

\* The invariant holds at first and is kept by every step.
LEMMA FlipInvHolds == Spec => []FlipInv
<1>1. Init => FlipInv
  <2> SUFFICES ASSUME Init PROVE FlipInv
    OBVIOUS
  <2>1. TimeInv
    BY DEF Init, TimeInv, NoFlip
  <2>2. IsOutlines(outlines) /\ SinceThen(outlines, handled)
    BY DEF Init, NoSlot, IsOutlines, SinceThen
  <2>3. IsDialog(dialog) /\ AboutPick(dialog)
    BY DEF Init, NoDialog, IsDialog, AboutPick, Action
  <2>4. QED
    BY <2>1, <2>2, <2>3, NowFits DEF FlipInv
<1>2. FlipInv /\ [Next]_vars => FlipInv'
  <2> SUFFICES ASSUME FlipInv, [Next]_vars PROVE FlipInv'
    OBVIOUS
  <2>1. CASE UNCHANGED vars
    <3>1. TimeInv'
      BY <2>1 DEF FlipInv, TimeInv, vars, cardVars, histVars
    <3>2. Fits(Now, handled)'
      BY <2>1, PageKept, NowFits DEF FlipInv, vars, histVars
    <3>3. QED
      BY <3>1, <3>2 DEF FlipInv
  <2>2. CASE Next
    BY <2>2, ServerKeeps, ArrivalKeeps, NewsKeeps, OperateKeeps, LoseKeeps DEF Next, Goes
  <2>3. QED
    BY <2>1, <2>2
<1>3. QED
  BY <1>1, <1>2, PTL DEF Spec

\* No outline that the page keeps is older than the last job posted from the
\* page or the last end that its tail has seen.
THEOREM OutlinesCurrent == Spec => []OutlineIsCurrent
<1>1. FlipInv => OutlineIsCurrent
  BY NowFits DEF FlipInv, SinceThen, OutlineIsCurrent
<1>2. QED
  BY <1>1, FlipInvHolds, PTL

\* The dialog shows the plan of, and posts, the procedure that was picked last.
THEOREM PickIsPosted == Spec => []PostsThePick
<1>1. FlipInv => PostsThePick
  BY NowFits DEF FlipInv, TimeInv, AboutPick, PostsThePick
<1>2. QED
  BY <1>1, FlipInvHolds, PTL
-----------------------------------------------------------------------------
(* Types, and the plan in the dialog: while the button is enabled, and the *)
(* answer has not been deleted or asked for again under the dialog, the    *)
(* outline of the procedure is an answer, and the one that is shown.       *)

Outlines == [named : BOOLEAN, slot : [Action -> Slot], lost : [Action -> Slot]]
Page == [o : Outlines, d : Dialog, frozen : BOOLEAN]

ShowsPlan(w) ==
    w.d.stage = "open" /\ w.d.ready /\ ~w.d.crossed
    => /\ w.o.slot[w.d.action].stage \in {"data", "err"}
       /\ w.o.slot[w.d.action].at = w.d.shows

\* The constant records and the initial procedure have their types.
LEMMA FlipConstants ==
    /\ 0 \in Epoch /\ NoSlot \in Slot /\ Sent \in Slot /\ NoDialog \in Dialog
    /\ \A was : Initial(was) \in Action
    /\ \A a \in Action, mine \in BOOLEAN : Waits(a, mine) \in Callback
<1>1. 0 \in Epoch
  BY FlipAssumption DEF Epoch
<1>2. NoSlot \in Slot /\ Sent \in Slot
  BY <1>1 DEF NoSlot, Sent, Slot, Request
<1>3. NoDialog \in Dialog
  BY <1>1 DEF NoDialog, Dialog, Action
<1>4. \A was : Initial(was) \in Action
  BY DEF Initial, Action
<1>5. \A a \in Action, mine \in BOOLEAN : Waits(a, mine) \in Callback
  BY DEF Waits, Callback
<1>6. QED
  BY <1>1, <1>2, <1>3, <1>4, <1>5

\* An outline is asked for.
LEMMA LoadTypes ==
    ASSUME NEW o \in Outlines, NEW a \in Action
    PROVE  /\ LoadOutline(o, a) \in Outlines
           /\ LoadOutline(o, a).slot[a].stage # "none"
           /\ \A b \in Action \ {a} : LoadOutline(o, a).slot[b] = o.slot[b]
<1> DEFINE p == [o EXCEPT !.named = TRUE, !.slot[a] = Sent]
<1>1. p \in Outlines /\ p.slot = [o.slot EXCEPT ![a] = Sent]
  BY FlipConstants DEF Outlines
<1>2. Sent.stage = "sent" /\ o.slot \in [Action -> Slot] /\ o.slot[a].stage \in Request
  BY DEF Sent, NoSlot, Outlines, Slot
<1>3. p.slot[a].stage = "sent" /\ \A b \in Action \ {a} : p.slot[b] = o.slot[b]
  BY <1>1, <1>2
<1> HIDE DEF p
<1>4. LoadOutline(o, a) = IF Loading(o.slot[a]) \/ o.slot[a].stage = "data" THEN o ELSE p
  BY DEF LoadOutline, p
<1>5. QED
  BY <1>1, <1>2, <1>3, <1>4 DEF Loading, InFlight, Request

\* What rebuild() reads: the outline that is there, or has just been asked for.
LEMMA AskedTypes ==
    ASSUME NEW o \in Outlines, NEW a \in Action, NEW p,
           p = IF o.slot[a].stage = "none" THEN LoadOutline(o, a) ELSE o
    PROVE  /\ p \in Outlines /\ p.slot[a] \in Slot /\ p.slot[a].stage # "none"
           /\ \A b \in Action : o.slot[b].stage # "none" => p.slot[b] = o.slot[b]
<1>1. p \in Outlines /\ p.slot[a].stage # "none"
  BY LoadTypes
<1>2. \A b \in Action : o.slot[b].stage # "none" => p.slot[b] = o.slot[b]
  BY LoadTypes
<1>3. QED
  BY <1>1, <1>2 DEF Outlines

\* rebuild() of the dialog on the screen shows what there is.
LEMMA RebuildTypes ==
    ASSUME NEW w \in Page, NEW a \in Action
    PROVE  Rebuild(w, a) \in Page /\ ShowsPlan(Rebuild(w, a))
<1> DEFINE o == IF w.o.slot[a].stage = "none" THEN LoadOutline(w.o, a) ELSE w.o
           s == o.slot[a]
           past == {[c EXCEPT !.live = @ /\ ~c.mine] : c \in w.d.calls}
           calls == past \cup IF InFlight(s) THEN {Waits(a, TRUE)} ELSE {}
           d == [w.d EXCEPT !.action = a, !.ready = ~Loading(s), !.shows = s.at,
                            !.crossed = FALSE, !.calls = calls]
           f == w.frozen \/ s.stage = "stuck"
<1>1. w.o \in Outlines /\ w.d \in Dialog /\ w.d.calls \subseteq Callback
  BY DEF Page, Dialog
<1>2. o \in Outlines /\ s \in Slot /\ s.stage # "none"
  <2>1. \A p : p = o => p \in Outlines /\ p.slot[a] \in Slot /\ p.slot[a].stage # "none"
    BY <1>1, AskedTypes
  <2> HIDE DEF o
  <2>2. QED
    BY <2>1
<1>3. past \subseteq Callback
  BY <1>1 DEF Callback
<1> HIDE DEF o, past
<1>4. calls \subseteq Callback
  BY <1>3, FlipConstants
<1>5. s.at \in Epoch /\ s.stage \in Request
  BY <1>2 DEF Slot
<1> HIDE DEF s, calls
<1>6. /\ d \in Dialog /\ d.action = a /\ d.ready = ~Loading(s) /\ d.shows = s.at
  BY <1>1, <1>4, <1>5 DEF Dialog
<1>7. Rebuild(w, a) = [o |-> o, frozen |-> f, d |-> d]
  BY DEF Rebuild, o, s, past, calls
<1> HIDE DEF d
<1>8. f \in BOOLEAN
  BY DEF Page
<1> HIDE DEF f
<1>9. Rebuild(w, a) \in Page /\ Rebuild(w, a).o = o /\ Rebuild(w, a).d = d
  BY <1>2, <1>6, <1>7, <1>8 DEF Page
<1>10. ~Loading(s) => s.stage \in {"data", "err"}
  BY <1>2, <1>5 DEF Loading, InFlight, Request
<1>11. QED
  BY <1>6, <1>9, <1>10 DEF ShowsPlan, s

\* rebuild() of a closed dialog asks for nothing that is shown.
LEMMA RebuildOldTypes ==
    ASSUME NEW w \in Page, ShowsPlan(w), NEW a \in Action
    PROVE  RebuildOld(w, a) \in Page /\ ShowsPlan(RebuildOld(w, a))
<1> DEFINE o == IF w.o.slot[a].stage = "none" THEN LoadOutline(w.o, a) ELSE w.o
           s == o.slot[a]
           more == IF InFlight(s) THEN {Waits(a, FALSE)} ELSE {}
           f == w.frozen \/ s.stage = "stuck"
           u == RebuildOld(w, a)
<1>1. w.o \in Outlines /\ w.d \in Dialog /\ w.d.calls \subseteq Callback /\ w.d.action \in Action
  BY DEF Page, Dialog
<1>2. o \in Outlines /\ \A b \in Action : w.o.slot[b].stage # "none" => o.slot[b] = w.o.slot[b]
  <2>1. \A p : p = o => p \in Outlines
                        /\ \A b \in Action : w.o.slot[b].stage # "none" => p.slot[b] = w.o.slot[b]
    BY <1>1, AskedTypes
  <2> HIDE DEF o
  <2>2. QED
    BY <2>1
<1>3. more \subseteq Callback /\ f \in BOOLEAN
  BY FlipConstants DEF Page
<1>4. u = [w EXCEPT !.o = o, !.frozen = f, !.d.calls = @ \cup more]
  BY DEF RebuildOld, Page
<1> HIDE DEF o, s, more, f, u
<1>5. [w.d EXCEPT !.calls = @ \cup more] \in Dialog
  BY <1>1, <1>3 DEF Dialog
<1>6. /\ u \in Page /\ u.o = o /\ u.d = [w.d EXCEPT !.calls = @ \cup more]
  BY <1>2, <1>3, <1>4, <1>5 DEF Page
<1>7. /\ u.d.stage = w.d.stage /\ u.d.ready = w.d.ready /\ u.d.crossed = w.d.crossed
      /\ u.d.action = w.d.action /\ u.d.shows = w.d.shows
  BY <1>1, <1>6 DEF Dialog
<1>8. ShowsPlan(u)
  BY <1>1, <1>2, <1>6, <1>7 DEF ShowsPlan
<1>9. QED
  BY <1>6, <1>8 DEF u

\* Callbacks are taken off the list.
LEMMA DroppedTypes ==
    ASSUME NEW w \in Page, ShowsPlan(w), NEW a, NEW lost
    PROVE  Dropped(w, a, lost) \in Page /\ ShowsPlan(Dropped(w, a, lost))
<1> DEFINE calls == w.d.calls \ Calls(w, a, lost)
           u == Dropped(w, a, lost)
<1>1. w.d \in Dialog /\ w.d.calls \subseteq Callback
  BY DEF Page, Dialog
<1>2. u = [w EXCEPT !.d.calls = calls]
  BY DEF Dropped
<1>3. calls \subseteq Callback
  BY <1>1
<1> HIDE DEF calls, u
<1>4. [w.d EXCEPT !.calls = calls] \in Dialog
  BY <1>1, <1>3 DEF Dialog
<1>5. u \in Page /\ u.o = w.o /\ u.d = [w.d EXCEPT !.calls = calls]
  BY <1>2, <1>4 DEF Page
<1>6. /\ u.d.stage = w.d.stage /\ u.d.ready = w.d.ready /\ u.d.crossed = w.d.crossed
      /\ u.d.action = w.d.action /\ u.d.shows = w.d.shows
  BY <1>1, <1>5 DEF Dialog
<1>7. QED
  BY <1>5, <1>6 DEF ShowsPlan, u

\* The callbacks of a promise.
LEMMA ResolveTypes ==
    ASSUME NEW w \in Page, ShowsPlan(w), NEW a \in Action, NEW lost
    PROVE  Resolve(w, a, lost) \in Page /\ ShowsPlan(Resolve(w, a, lost))
<1> DEFINE v   == Dropped(w, a, lost)
           old == IF \E c \in Calls(w, a, lost) : c.live /\ ~c.mine THEN RebuildOld(v, a) ELSE v
<1>1. v \in Page /\ ShowsPlan(v)
  BY DroppedTypes
<1>2. old \in Page /\ ShowsPlan(old)
  <2> HIDE DEF v
  <2>1. QED
    BY <1>1, RebuildOldTypes
<1> HIDE DEF old
<1>3. QED
  BY <1>2, RebuildTypes DEF Resolve, old

\* Outlines are deleted or asked for again.
LEMMA OrphanTypes ==
    ASSUME NEW w \in Page, NEW A
    PROVE  Orphan(w, A) \in Page
<1> DEFINE lose(a) == a \in A /\ InFlight(w.o.slot[a])
           slot == [a \in Action |-> IF a \in A THEN NoSlot ELSE w.o.slot[a]]
           lost == [a \in Action |-> IF lose(a) THEN w.o.slot[a] ELSE w.o.lost[a]]
           calls == {[c EXCEPT !.lost = @ \/ lose(c.on)] : c \in w.d.calls}
<1>1. w.o \in Outlines /\ w.d \in Dialog /\ w.d.calls \subseteq Callback
  BY DEF Page, Dialog
<1>2. slot \in [Action -> Slot] /\ lost \in [Action -> Slot]
  BY <1>1, FlipConstants DEF Outlines
<1>3. calls \subseteq Callback
  <2>1. \A a : lose(a) \in BOOLEAN
    OBVIOUS
  <2> HIDE DEF lose
  <2>2. QED
    BY <1>1, <2>1 DEF Callback
<1>4. Orphan(w, A) = [w EXCEPT !.o.slot = slot, !.o.lost = lost, !.d.calls = calls]
  BY DEF Orphan
<1> HIDE DEF slot, lost, calls
<1>5. [w.o EXCEPT !.slot = slot, !.lost = lost] \in Outlines
  BY <1>1, <1>2 DEF Outlines
<1>6. [w.d EXCEPT !.calls = calls] \in Dialog
  BY <1>1, <1>3 DEF Dialog
<1>7. Orphan(w, A) = [w EXCEPT !.o = [w.o EXCEPT !.slot = slot, !.lost = lost],
                               !.d = [w.d EXCEPT !.calls = calls]]
  BY <1>4 DEF Page
<1>8. QED
  BY <1>5, <1>6, <1>7 DEF Page

\* What is deleted under the open dialog is crossed.
LEMMA DeleteTypes ==
    ASSUME NEW w \in Page
    PROVE  DeleteOutlines(w) \in Page /\ ShowsPlan(DeleteOutlines(w))
<1> DEFINE v == Orphan(w, Action)
           c == w.d.stage = "open"
           n == w.d.stage = "open" /\ ~w.d.ready
           u == DeleteOutlines(w)
<1>1. v \in Page /\ v.o \in Outlines /\ v.d \in Dialog /\ v.d.stage = w.d.stage
  <2>1. v \in Page
    BY OrphanTypes
  <2>2. v.d.stage = w.d.stage
    BY DEF Orphan, Page, Dialog
  <2>3. QED
    BY <2>1, <2>2 DEF Page
<1>2. u = [v EXCEPT !.o.named = FALSE, !.d.crossed = @ \/ c, !.d.waited = @ \/ n]
  BY DEF DeleteOutlines
<1>3. c \in BOOLEAN /\ n \in BOOLEAN
  OBVIOUS
<1> HIDE DEF v, n, u
<1>4. [v.o EXCEPT !.named = FALSE] \in Outlines
  BY <1>1 DEF Outlines
<1>5. [v.d EXCEPT !.crossed = @ \/ c, !.waited = @ \/ n] \in Dialog
  BY <1>1, <1>3 DEF Dialog
<1>6. u \in Page /\ u.d = [v.d EXCEPT !.crossed = @ \/ c, !.waited = @ \/ n]
  BY <1>1, <1>2, <1>4, <1>5 DEF Page
<1>7. u.d.stage = w.d.stage /\ u.d.crossed = (v.d.crossed \/ c)
  BY <1>1, <1>6 DEF Dialog
<1>8. QED
  BY <1>6, <1>7 DEF ShowsPlan, u

\* A Retry.
LEMMA ReloadTypes ==
    ASSUME NEW w \in Page, NEW a \in Action
    PROVE  Reload(w, a) \in Page
<1> DEFINE v == Orphan(w, {a})
<1>1. v \in Page /\ v.o \in Outlines
  <2>1. v \in Page
    BY OrphanTypes
  <2>2. QED
    BY <2>1 DEF Page
<1> HIDE DEF v
<1>2. [v.o EXCEPT !.named = TRUE, !.slot[a] = Sent] \in Outlines
  BY <1>1, FlipConstants DEF Outlines
<1>3. [v EXCEPT !.o.named = TRUE, !.o.slot[a] = Sent]
         = [v EXCEPT !.o = [v.o EXCEPT !.named = TRUE, !.slot[a] = Sent]]
  BY <1>1 DEF Page, Outlines
<1>4. [v EXCEPT !.o.named = TRUE, !.o.slot[a] = Sent] \in Page
  BY <1>1, <1>2, <1>3 DEF Page
<1>5. QED
  BY <1>4 DEF Reload, v

\* The dialog opens.
LEMMA OpenedTypes ==
    ASSUME NEW w \in Page, NEW was \in Lamp \cup {"none"}
    PROVE  Opened(w, was) \in Page /\ ShowsPlan(Opened(w, was))
<1> DEFINE d == [NoDialog EXCEPT !.stage = "open", !.was = was, !.picked = Initial(was),
                                 !.calls = w.d.calls]
           u == [w EXCEPT !.d = d]
<1>1. w.d.calls \subseteq Callback /\ Initial(was) \in Action /\ NoDialog \in Dialog
  BY FlipConstants DEF Page, Dialog
<1>2. d \in Dialog
  BY <1>1 DEF Dialog
<1> HIDE DEF d
<1>3. u \in Page
  BY <1>2 DEF Page
<1> HIDE DEF u
<1>4. QED
  BY <1>1, <1>3, RebuildTypes DEF Opened, d, u

\* The dialog closes.
LEMMA ClosedTypes == ASSUME NEW d \in Dialog PROVE Closed(d) \in Dialog /\ Closed(d).stage = "closed"
<1> DEFINE calls == {[c EXCEPT !.mine = FALSE] : c \in {b \in d.calls : b.live}}
<1>1. calls \subseteq Callback
  <2>1. \A c \in Callback : [c EXCEPT !.mine = FALSE] \in Callback
    BY DEF Callback
  <2>2. d.calls \subseteq Callback
    BY DEF Dialog
  <2>3. QED
    BY <2>1, <2>2
<1>2. Closed(d) = [NoDialog EXCEPT !.calls = calls]
  BY DEF Closed
<1> HIDE DEF calls
<1>3. [NoDialog EXCEPT !.calls = calls] \in Dialog
  BY <1>1, FlipConstants DEF Dialog
<1>4. [NoDialog EXCEPT !.calls = calls].stage = "closed"
  BY DEF NoDialog
<1>5. QED
  BY <1>2, <1>3, <1>4

\* An outline that was not an answer becomes one, or fails.
LEMMA SlotTypes ==
    ASSUME NEW w \in Page, ShowsPlan(w), NEW a \in Action, NEW s \in Slot,
           w.o.slot[a].stage \notin {"data", "err"}
    PROVE  [w EXCEPT !.o.slot[a] = s] \in Page /\ ShowsPlan([w EXCEPT !.o.slot[a] = s])
<1> DEFINE u == [w EXCEPT !.o.slot[a] = s]
<1>1. w.o \in Outlines /\ w.d \in Dialog
  BY DEF Page
<1>2. [w.o EXCEPT !.slot[a] = s] \in Outlines
  BY <1>1 DEF Outlines
<1>3. u \in Page /\ u.d = w.d /\ u.o = [w.o EXCEPT !.slot[a] = s]
  BY <1>1, <1>2 DEF Page
<1> HIDE DEF u
<1>4. \A b \in Action \ {a} : u.o.slot[b] = w.o.slot[b]
  BY <1>1, <1>3 DEF Outlines
<1>5. ShowsPlan(u)
  BY <1>1, <1>3, <1>4 DEF ShowsPlan, Dialog
<1>6. QED
  BY <1>3, <1>5 DEF u

\* A lost request is nothing that is shown.
LEMMA LostTypes ==
    ASSUME NEW w \in Page, ShowsPlan(w), NEW a \in Action
    PROVE  [w EXCEPT !.o.lost[a] = NoSlot] \in Page
           /\ ShowsPlan([w EXCEPT !.o.lost[a] = NoSlot])
<1> DEFINE u == [w EXCEPT !.o.lost[a] = NoSlot]
<1>1. w.o \in Outlines /\ w.d \in Dialog
  BY DEF Page
<1>2. [w.o EXCEPT !.lost[a] = NoSlot] \in Outlines
  BY <1>1, FlipConstants DEF Outlines
<1>3. u \in Page /\ u.d = w.d /\ u.o = [w.o EXCEPT !.lost[a] = NoSlot]
  BY <1>1, <1>2 DEF Page
<1> HIDE DEF u
<1>4. u.o.slot = w.o.slot
  BY <1>1, <1>3 DEF Outlines
<1>5. QED
  BY <1>3, <1>4 DEF ShowsPlan, u
-----------------------------------------------------------------------------
(* The steps.                                                              *)

Tails == [on : Epoch, ended : Epoch, known : BOOLEAN]

\* What is not the outlines' or the dialog's.  A job that a POST started has
\* an end to wait for.
RestTypes ==
    /\ epoch \in Epoch
    /\ here \in BOOLEAN /\ open \in BOOLEAN
    /\ shown \in Lamp \cup {"turning"}
    /\ detail \in {"absent", "loading", "ok", "err", "stuck"}
    /\ drawing \in [stage : Request, at : Epoch]
    /\ flip \in [stage : {"idle", "sent", "started", "refused"}, action : Action,
                 picked : Action, at : Epoch]
    /\ flip.stage = "started" => flip.at + 1 \in Epoch
    /\ tail \in Tails
    /\ moves \in 0..MaxMoves
    /\ handled \in Epoch /\ drawn \in Epoch

PlanInv == RestTypes /\ Now \in Page /\ ShowsPlan(Now)

\* The page, by its parts.
LEMMA NowIsPage ==
    /\ Now.o = outlines /\ Now.d = dialog /\ Now.frozen = frozen
    /\ Now \in Page <=> outlines \in Outlines /\ dialog \in Dialog /\ frozen \in BOOLEAN
BY DEF Now, Page

\* A step whose page is w.
LEMMA PlanBecomes ==
    ASSUME NEW w \in Page, ShowsPlan(w), Becomes(w)
    PROVE  (Now \in Page)' /\ ShowsPlan(Now)'
<1>1. outlines' = w.o /\ dialog' = w.d /\ frozen' = w.frozen
  BY DEF Becomes
<1>2. (Now \in Page)'
  BY <1>1 DEF Now, Page
<1>3. ShowsPlan(Now)'
  BY <1>1 DEF Now, ShowsPlan
<1>4. QED
  BY <1>2, <1>3

\* A step that leaves the page, or opens or crosses no dialog.
LEMMA PlanKept ==
    ASSUME Now \in Page, ShowsPlan(Now), UNCHANGED <<outlines, frozen>>, dialog' \in Dialog,
           UNCHANGED dialog \/ dialog'.stage # "open"
    PROVE  (Now \in Page)' /\ ShowsPlan(Now)'
BY NowIsPage DEF Now, Page, ShowsPlan

\* A job's beginning has its end in the bounds.
LEMMA NextEpoch ==
    ASSUME epoch \in Epoch
    PROVE  /\ epoch < 2 * MaxJobs => epoch + 1 \in Epoch
           /\ Running => epoch + 1 \in Epoch
           /\ ~Running /\ epoch < 2 * MaxJobs => (epoch + 1) + 1 \in Epoch
<1>1. epoch \in Nat /\ epoch <= 2 * MaxJobs /\ MaxJobs \in Nat
  BY FlipAssumption DEF Epoch
<1>2. epoch < 2 * MaxJobs => epoch + 1 \in Epoch
  BY <1>1 DEF Epoch
<1>3. Running => epoch + 1 \in Epoch
  BY <1>1 DEF Epoch, Running
<1>4. ~Running /\ epoch < 2 * MaxJobs => (epoch + 1) + 1 \in Epoch
  BY <1>1 DEF Epoch, Running
<1>5. QED
  BY <1>2, <1>3, <1>4

\* What the small steps leave.
LEMMA SmallTypes ==
    ASSUME RestTypes
    PROVE  /\ Moves => moves' \in 0..MaxMoves
           /\ LoadTopology => drawing' \in [stage : Request, at : Epoch]
           /\ States \subseteq Lamp \cup {"turning"}
           /\ \A e \in Epoch : Later(e) \in Epoch
           /\ [tail EXCEPT !.on = 0] \in Tails
           /\ \A e \in Epoch : e + 1 \in Epoch => Track(e) \in Tails
           /\ NoFlip.stage = "idle"
           /\ NoFlip \in [stage : {"idle", "sent", "started", "refused"}, action : Action,
                          picked : Action, at : Epoch]
<1>1. 0 \in Epoch
  BY FlipConstants
<1>2. Moves => moves' \in 0..MaxMoves
  BY FlipAssumption DEF RestTypes, Moves
<1>3. LoadTopology => drawing' \in [stage : Request, at : Epoch]
  BY <1>1 DEF RestTypes, LoadTopology, NoDrawing, Request
<1>4. States \subseteq Lamp \cup {"turning"}
  BY DEF States
<1>5. \A e \in Epoch : Later(e) \in Epoch
  BY DEF RestTypes, Later
<1>6. /\ [tail EXCEPT !.on = 0] \in Tails
      /\ \A e \in Epoch : e + 1 \in Epoch => Track(e) \in Tails
  BY <1>1 DEF RestTypes, Tails, Track
<1>7. NoFlip.stage = "idle" /\ NoFlip \in [stage : {"idle", "sent", "started", "refused"},
                                           action : Action, picked : Action, at : Epoch]
  BY <1>1 DEF NoFlip, Action
<1>8. QED
  BY <1>2, <1>3, <1>4, <1>5, <1>6, <1>7

\* A job that runs is tailed to its end.
LEMMA TrackRuns ==
    ASSUME RestTypes, Running
    PROVE  Track(epoch) \in Tails
BY NextEpoch, SmallTypes DEF RestTypes

\* The server's steps.
LEMMA PlanServer ==
    ASSUME PlanInv,
           \/ StartElsewhere \/ JobEnds \/ AnswerDrawing \/ AnswerFlip
           \/ \E a \in Action : AnswerOutline(a)
    PROVE  PlanInv'
<1> USE NowIsPage DEF PlanInv
<1>1. CASE StartElsewhere \/ JobEnds
  <2>1. epoch' \in Epoch /\ UNCHANGED <<cardVars, outlines, dialog, flip, frozen, moves, histVars>>
    BY <1>1, NextEpoch DEF RestTypes, StartElsewhere, JobEnds, Served
  <2>2. RestTypes'
    BY <2>1 DEF RestTypes, cardVars, histVars
  <2>3. QED
    BY <2>1, <2>2, PlanKept
<1>2. CASE AnswerDrawing
  <2>1. RestTypes'
    BY <1>2 DEF RestTypes, AnswerDrawing, histVars, Request
  <2>2. QED
    BY <1>2, <2>1, PlanKept DEF AnswerDrawing
<1>3. CASE AnswerFlip
  <2>1. epoch' \in Epoch
    BY <1>3, NextEpoch DEF RestTypes, AnswerFlip
  <2>2. /\ flip' \in [stage : {"idle", "sent", "started", "refused"}, action : Action,
                      picked : Action, at : Epoch]
        /\ flip'.stage = "started" => flip'.at + 1 \in Epoch
    <3>1. CASE ~Running /\ epoch < 2 * MaxJobs
      <4>1. epoch + 1 \in Epoch /\ (epoch + 1) + 1 \in Epoch
        BY <3>1, NextEpoch DEF RestTypes
      <4>2. flip' = [flip EXCEPT !.stage = "started", !.at = epoch + 1]
        BY <1>3, <3>1 DEF AnswerFlip
      <4>3. QED
        BY <4>1, <4>2 DEF RestTypes
    <3>2. CASE ~(~Running /\ epoch < 2 * MaxJobs)
      BY <1>3, <3>2 DEF RestTypes, AnswerFlip
    <3>3. QED
      BY <3>1, <3>2
  <2>3. RestTypes'
    BY <1>3, <2>1, <2>2 DEF RestTypes, AnswerFlip, Served, cardVars, histVars
  <2>4. QED
    BY <1>3, <2>3, PlanKept DEF AnswerFlip, Served
<1>4. ASSUME NEW a \in Action, AnswerOutline(a) PROVE PlanInv'
  <2>1. RestTypes'
    BY <1>4 DEF RestTypes, AnswerOutline, Served, cardVars, histVars
  <2>2. Answer(outlines.slot[a]) \in Slot /\ Answer(outlines.lost[a]) \in Slot
    BY DEF Answer, Slot, Request, RestTypes
  <2>3. CASE /\ outlines.slot[a].stage = "sent"
             /\ outlines' = [outlines EXCEPT !.slot[a] = Answer(@)]
    <3>1. outlines' = [outlines EXCEPT !.slot[a] = Answer(outlines.slot[a])]
      BY <2>3 DEF Outlines
    <3>2. Becomes([Now EXCEPT !.o.slot[a] = Answer(outlines.slot[a])])
      BY <1>4, <3>1 DEF AnswerOutline, Served, Becomes, Now
    <3>3. QED
      BY <2>1, <2>2, <2>3, <3>2, SlotTypes, PlanBecomes
  <2>4. CASE outlines' = [outlines EXCEPT !.lost[a] = Answer(@)]
    <3>1. outlines' \in Outlines /\ outlines'.slot = outlines.slot
      BY <2>2, <2>4 DEF Outlines
    <3>2. UNCHANGED <<dialog, frozen>>
      BY <1>4 DEF AnswerOutline, Served
    <3>3. QED
      BY <2>1, <3>1, <3>2 DEF Now, Page, ShowsPlan
  <2>5. QED
    BY <1>4, <2>3, <2>4 DEF AnswerOutline
<1>5. QED
  BY <1>1, <1>2, <1>3, <1>4

\* The operator's steps, outlines and dialog apart.
LEMMA RestOperate == ASSUME PlanInv, Operate PROVE RestTypes'
<1> USE SmallTypes, NowIsPage DEF PlanInv
<1>1. CASE ToggleExpand
  BY <1>1 DEF RestTypes, ToggleExpand, histVars
<1>2. CASE Redraw
  BY <1>2 DEF RestTypes, Redraw, histVars
<1>3. CASE RequestFlip
  BY <1>3 DEF RestTypes, RequestFlip, histVars
<1>4. CASE RetryPlan \/ Dismiss \/ \E a \in Action : RetryOutline(a) \/ Pick(a)
  BY <1>4 DEF RestTypes, RetryPlan, Dismiss, RetryOutline, Pick, cardVars, histVars
<1>5. CASE Confirm
  <2>1. dialog.action \in Action /\ dialog.picked \in Action
    BY DEF Dialog
  <2>2. /\ flip' \in [stage : {"idle", "sent", "started", "refused"}, action : Action,
                      picked : Action, at : Epoch]
        /\ flip'.stage = "sent"
    BY <1>5, <2>1, FlipConstants DEF Confirm, NoFlip
  <2>3. QED
    BY <1>5, <2>2 DEF RestTypes, Confirm, cardVars, histVars
<1>6. CASE Leave
  BY <1>6, FlipConstants DEF RestTypes, Leave, histVars
<1>7. CASE Return
  BY <1>7 DEF RestTypes, Return, histVars
<1>8. QED
  BY <1>1, <1>2, <1>3, <1>4, <1>5, <1>6, <1>7 DEF Operate

\* Outlines are asked for behind no dialog.
LEMMA LoadBothKeeps ==
    ASSUME Now \in Page, dialog' \in Dialog, outlines' = LoadBoth(outlines), UNCHANGED frozen,
           dialog'.stage # "open" \/ dialog'.crossed
    PROVE  (Now \in Page)' /\ ShowsPlan(Now)'
<1>1. LoadBoth(outlines) \in Outlines
  BY NowIsPage, LoadTypes DEF LoadBoth, Action
<1>2. QED
  BY <1>1, NowIsPage DEF Now, Page, ShowsPlan

\* The operator's steps.
LEMMA PlanOperate == ASSUME PlanInv, Operate PROVE PlanInv'
<1> USE NowIsPage DEF PlanInv
<1>1. RestTypes'
  BY RestOperate
<1>2. CASE Redraw \/ Leave \/ Return
  BY <1>1, <1>2, PlanKept DEF Redraw, Leave, Return
<1>3. CASE Dismiss \/ Confirm
  BY <1>1, <1>3, ClosedTypes, PlanKept DEF Dismiss, Confirm
<1>4. CASE ToggleExpand
  <2>1. dialog.stage # "open" /\ UNCHANGED <<dialog, frozen>>
    BY <1>4 DEF ToggleExpand, Card, Modal
  <2>2. outlines' = LoadBoth(outlines) \/ UNCHANGED outlines
    BY <1>4 DEF ToggleExpand
  <2>3. QED
    BY <1>1, <2>1, <2>2, LoadBothKeeps, PlanKept
<1>5. CASE RequestFlip
  <2>1. shown \in Lamp
    BY <1>5 DEF RequestFlip, RestTypes
  <2>2. CASE Becomes(Opened(Now, shown))
    BY <1>1, <2>1, <2>2, OpenedTypes, PlanBecomes
  <2>3. CASE /\ dialog' = [dialog EXCEPT !.stage = "detail", !.was = shown]
             /\ UNCHANGED <<outlines, frozen>>
    <3>1. dialog' \in Dialog /\ dialog'.stage = "detail"
      BY <2>1, <2>3 DEF Dialog
    <3>2. QED
      BY <1>1, <2>3, <3>1, PlanKept
  <2>4. QED
    BY <1>5, <2>2, <2>3 DEF RequestFlip
<1>6. ASSUME NEW a \in Action, RetryOutline(a) PROVE PlanInv'
  <2>1. dialog.stage # "open"
    BY <1>6 DEF RetryOutline, Expanded, Card, Modal
  <2>2. Reload(Now, a).d.stage = dialog.stage
    BY DEF Reload, Orphan, Page, Dialog
  <2>3. Reload(Now, a) \in Page /\ ShowsPlan(Reload(Now, a))
    BY <2>1, <2>2, ReloadTypes DEF ShowsPlan
  <2>4. QED
    BY <1>1, <1>6, <2>3, PlanBecomes DEF RetryOutline
<1>7. ASSUME NEW a \in Action, Pick(a) PROVE PlanInv'
  <2>1. [Now EXCEPT !.d.picked = a] \in Page
    <3>1. [dialog EXCEPT !.picked = a] \in Dialog
      BY DEF Dialog
    <3>2. QED
      BY <3>1 DEF Page
  <2>2. QED
    BY <1>1, <1>7, <2>1, RebuildTypes, PlanBecomes DEF Pick
<1>8. CASE RetryPlan
  <2>1. dialog.action \in Action
    BY DEF Dialog
  <2>2. Reload(Now, dialog.action) \in Page
    BY <2>1, ReloadTypes
  <2>3. QED
    BY <1>1, <1>8, <2>1, <2>2, RebuildTypes, PlanBecomes DEF RetryPlan
<1>9. QED
  BY <1>2, <1>3, <1>4, <1>5, <1>6, <1>7, <1>8 DEF Operate

\* What arrives, outlines and dialog apart.
LEMMA RestArrivals ==
    ASSUME PlanInv,
           \/ PollList \/ HandleDetail \/ HandleDrawing \/ TailReloads \/ HandleFlip \/ TailSees
           \/ \E a \in Action : HandleOutline(a) \/ HandleLost(a)
    PROVE  RestTypes'
<1> USE SmallTypes DEF PlanInv
<1>1. CASE PollList
  <2>1. tail' \in Tails
    BY <1>1, NextEpoch, TrackRuns DEF PollList, RestTypes
  <2>2. QED
    BY <1>1, <2>1 DEF RestTypes, PollList, Arrives
<1>2. CASE HandleDetail \/ HandleDrawing
  <2>1. tail' \in Tails
    <3>1. CASE HandleDetail
      <4>1. \A run \in BOOLEAN : [tail EXCEPT !.known = @ \/ run] \in Tails
        BY DEF RestTypes, Tails
      <4>2. QED
        BY <3>1, <4>1, TrackRuns DEF HandleDetail
    <3>2. CASE HandleDrawing
      BY <3>2 DEF RestTypes, HandleDrawing
    <3>3. QED
      BY <1>2, <3>1, <3>2
  <2>2. QED
    BY <1>2, <2>1 DEF RestTypes, HandleDetail, HandleDrawing, Arrives, Request
<1>3. CASE \E a \in Action : HandleOutline(a) \/ HandleLost(a)
  BY <1>3 DEF RestTypes, HandleOutline, HandleLost, Arrives, cardVars
<1>4. CASE HandleFlip
  <2>1. CASE flip.stage = "started" /\ shown' = "turning" /\ open' = TRUE
             /\ tail' = Track(flip.at) /\ handled' = Later(flip.at)
    <3>1. tail' \in Tails /\ handled' \in Epoch
      BY <2>1 DEF RestTypes
    <3>2. QED
      BY <1>4, <2>1, <3>1 DEF RestTypes, HandleFlip, Arrives
  <2>2. CASE UNCHANGED <<shown, open, tail, handled>>
    BY <1>4, <2>2 DEF RestTypes, HandleFlip, Arrives
  <2>3. QED
    BY <1>4, <2>1, <2>2 DEF HandleFlip
<1>5. CASE TailSees
  <2>1. tail' \in Tails /\ handled' \in Epoch
    <3>1. tail.on \in Epoch /\ tail' = [tail EXCEPT !.on = 0, !.ended = tail.on]
      BY <1>5 DEF RestTypes, Tails, TailSees
    <3>2. QED
      BY <1>5, <3>1, FlipConstants DEF RestTypes, Tails, TailSees
  <2>2. QED
    BY <1>5, <2>1 DEF RestTypes, TailSees, Arrives
<1>6. CASE TailReloads
  <2>1. tail' \in Tails /\ tail.ended \in Epoch
    <3>1. PICK t \in Tails : tail' = [t EXCEPT !.ended = 0]
      BY <1>6, TrackRuns DEF RestTypes, TailReloads
    <3>2. tail' \in Tails
      BY <3>1, FlipConstants DEF Tails
    <3>3. QED
      BY <3>2 DEF RestTypes, Tails
  <2>2. QED
    BY <1>6, <2>1 DEF RestTypes, TailReloads, Arrives
<1>7. QED
  BY <1>1, <1>2, <1>3, <1>4, <1>5, <1>6

\* A lost request settles.
LEMMA PlanSettles ==
    ASSUME Now \in Page, ShowsPlan(Now), NEW a \in Action, Settle(a)
    PROVE  (Now \in Page)' /\ ShowsPlan(Now)'
<1> DEFINE w == [Now EXCEPT !.o.lost[a] = NoSlot]
<1>1. w \in Page /\ ShowsPlan(w)
  BY LostTypes
<1> HIDE DEF w
<1>2. /\ Dropped(w, a, TRUE) \in Page /\ ShowsPlan(Dropped(w, a, TRUE))
      /\ Resolve(w, a, TRUE) \in Page /\ ShowsPlan(Resolve(w, a, TRUE))
  BY <1>1, DroppedTypes, ResolveTypes
<1>3. Becomes(IF Rejected THEN Dropped(w, a, TRUE) ELSE Resolve(w, a, TRUE))
  BY DEF Settle, w
<1>4. QED
  BY <1>2, <1>3, PlanBecomes

\* What arrives at the page.
LEMMA PlanArrivals ==
    ASSUME PlanInv,
           \/ PollList \/ HandleDetail \/ HandleDrawing \/ TailReloads \/ HandleFlip \/ TailSees
           \/ \E a \in Action : HandleOutline(a) \/ HandleLost(a)
    PROVE  PlanInv'
<1> USE NowIsPage DEF PlanInv
<1>1. RestTypes'
  BY RestArrivals
<1>2. CASE PollList \/ HandleDrawing
  BY <1>1, <1>2, PlanKept DEF PollList, HandleDrawing
<1>3. CASE HandleDetail
  <2>1. dialog.was \in Lamp \cup {"none"}
    BY DEF Dialog
  <2>2. Becomes(Opened(Now, dialog.was)) \/ UNCHANGED <<outlines, dialog, frozen>>
    BY <1>3 DEF HandleDetail
  <2>3. QED
    BY <1>1, <2>1, <2>2, OpenedTypes, PlanBecomes, PlanKept
<1>4. CASE HandleFlip \/ TailSees
  <2>1. Becomes(DeleteOutlines(Now)) \/ UNCHANGED <<outlines, dialog, frozen>>
    BY <1>4 DEF HandleFlip, TailSees
  <2>2. QED
    BY <1>1, <2>1, DeleteTypes, PlanBecomes, PlanKept
<1>5. CASE TailReloads
  <2>1. CASE open
    <3>1. dialog' = [dialog EXCEPT !.crossed = @ \/ Modal]
      BY <1>5, <2>1 DEF TailReloads
    <3>2. dialog' \in Dialog /\ (dialog'.stage # "open" \/ dialog'.crossed)
      BY <3>1 DEF Dialog, Modal
    <3>3. QED
      BY <1>1, <1>5, <2>1, <3>2, LoadBothKeeps DEF TailReloads
  <2>2. CASE ~open
    BY <1>1, <1>5, <2>2, PlanKept DEF TailReloads
  <2>3. QED
    BY <2>1, <2>2
<1>6. ASSUME NEW a \in Action, HandleOutline(a) PROVE PlanInv'
  <2> DEFINE s == Arrived(outlines.slot[a])
             w == [Now EXCEPT !.o.slot[a] = s]
  <2>1. s \in Slot
    BY DEF Arrived, Outlines, Slot, Request
  <2>2. outlines.slot[a].stage = "answered"
    BY <1>6 DEF HandleOutline
  <2>3. w \in Page /\ ShowsPlan(w)
    <3> HIDE DEF s
    <3>1. QED
      BY <2>1, <2>2, SlotTypes
  <2>4. [Now EXCEPT !.o.slot[a] = Arrived(@)] = w
    BY DEF Now
  <2>5. Becomes(Resolve(w, a, FALSE))
    BY <1>6, <2>4 DEF HandleOutline
  <2>6. QED
    <3> HIDE DEF w
    <3>1. QED
      BY <1>1, <2>3, <2>5, ResolveTypes, PlanBecomes
<1>7. ASSUME NEW a \in Action, HandleLost(a) PROVE PlanInv'
  BY <1>1, <1>7, PlanSettles DEF HandleLost
<1>8. QED
  BY <1>2, <1>3, <1>4, <1>5, <1>6, <1>7

\* The failures.
LEMMA PlanLose == ASSUME PlanInv, Lose PROVE PlanInv'
<1> USE NowIsPage DEF PlanInv
<1>1. PICK expired \in BOOLEAN :
            \/ \E a \in Action : LoseOutline(a, expired) \/ LoseLost(a, expired)
            \/ LoseDetail(expired) \/ LoseDrawing(expired) \/ LoseFlip(expired)
  BY DEF Lose
<1>2. RestTypes'
  <2>1. Fails(expired) /\ (flip' = flip \/ flip' = NoFlip)
    BY <1>1 DEF LoseOutline, LoseLost, LoseDetail, LoseDrawing, LoseFlip
  <2>2. detail' \in {"absent", "loading", "ok", "err", "stuck"}
    BY <1>1 DEF LoseOutline, LoseLost, LoseDetail, LoseDrawing, LoseFlip, RestTypes
  <2>3. drawing' \in [stage : Request, at : Epoch]
    <3>1. \A st \in Request : [NoDrawing EXCEPT !.stage = st] \in [stage : Request, at : Epoch]
      BY FlipConstants DEF NoDrawing
    <3>2. QED
      BY <1>1, <3>1
      DEF LoseOutline, LoseLost, LoseDetail, LoseDrawing, LoseFlip, RestTypes, Request
  <2>4. /\ tail' \in Tails /\ here' \in BOOLEAN
        /\ moves' \in 0..MaxMoves /\ UNCHANGED <<epoch, shown, open, handled, drawn>>
    BY <2>1, SmallTypes, FlipConstants DEF Fails, RestTypes, histVars
  <2>5. QED
    BY <2>1, <2>2, <2>3, <2>4, SmallTypes DEF RestTypes
<1>3. ASSUME NEW a \in Action, LoseOutline(a, expired) PROVE PlanInv'
  <2> DEFINE s == [stage |-> IF expired THEN "stuck" ELSE "err", ok |-> FALSE, at |-> epoch]
             w == [Now EXCEPT !.o.slot[a] = s]
  <2>1. s \in Slot
    BY DEF RestTypes, Slot, Request
  <2>2. outlines.slot[a].stage = "sent"
    BY <1>3 DEF LoseOutline
  <2>3. w \in Page /\ ShowsPlan(w)
    <3> HIDE DEF s
    <3>1. QED
      BY <2>1, <2>2, SlotTypes
  <2>4. Becomes(Resolve(w, a, FALSE))
    BY <1>3 DEF LoseOutline
  <2>5. QED
    <3> HIDE DEF w
    <3>1. QED
      BY <1>2, <2>3, <2>4, ResolveTypes, PlanBecomes
<1>4. ASSUME NEW a \in Action, LoseLost(a, expired) PROVE PlanInv'
  <2> DEFINE w == [Now EXCEPT !.o.lost[a] = NoSlot]
  <2>1. w \in Page /\ ShowsPlan(w)
    BY LostTypes
  <2>2. Becomes(Resolve(w, a, TRUE)) \/ Settle(a)
    BY <1>4 DEF LoseLost
  <2>3. QED
    <3> HIDE DEF w
    <3>1. QED
      BY <1>2, <2>1, <2>2, ResolveTypes, PlanBecomes, PlanSettles
<1>5. CASE LoseDetail(expired) \/ LoseDrawing(expired) \/ LoseFlip(expired)
  BY <1>2, <1>5, ClosedTypes, PlanKept DEF LoseDetail, LoseDrawing, LoseFlip
<1>6. QED
  BY <1>1, <1>3, <1>4, <1>5

\* The invariant holds at first and is kept by every step.
LEMMA PlanInvHolds == Spec => []PlanInv
<1>1. Init => PlanInv
  <2> SUFFICES ASSUME Init PROVE PlanInv
    OBVIOUS
  <2>1. RestTypes
    <3>1. 0 \in Epoch /\ 0 \in 0..MaxMoves
      BY FlipAssumption DEF Epoch
    <3>2. drawing \in [stage : Request, at : Epoch] /\ tail \in Tails
      BY <3>1 DEF Init, NoDrawing, Request, Tails
    <3>3. flip \in [stage : {"idle", "sent", "started", "refused"}, action : Action,
                    picked : Action, at : Epoch]
      BY <3>1 DEF Init, NoFlip, Action
    <3>4. shown \in Lamp \cup {"turning"} /\ here \in BOOLEAN /\ open \in BOOLEAN
      BY DEF Init
    <3>5. epoch = 0 /\ detail = "absent" /\ moves = 0 /\ handled = 0 /\ drawn = 0
      BY DEF Init
    <3>6. flip.stage # "started"
      BY DEF Init, NoFlip
    <3>7. QED
      BY <3>1, <3>2, <3>3, <3>4, <3>5, <3>6 DEF RestTypes
  <2>2. outlines \in Outlines /\ dialog \in Dialog /\ frozen \in BOOLEAN
    BY FlipConstants DEF Init, Outlines
  <2>3. dialog.stage = "closed"
    BY DEF Init, NoDialog
  <2>4. QED
    BY <2>1, <2>2, <2>3, NowIsPage DEF PlanInv, ShowsPlan
<1>2. PlanInv /\ [Next]_vars => PlanInv'
  <2> SUFFICES ASSUME PlanInv, [Next]_vars PROVE PlanInv'
    OBVIOUS
  <2>1. CASE UNCHANGED vars
    <3>1. RestTypes'
      BY <2>1 DEF PlanInv, RestTypes, vars, cardVars, histVars
    <3>2. QED
      BY <2>1, <3>1, PlanKept, NowIsPage DEF PlanInv, vars
  <2>2. CASE Next
    BY <2>2, PlanServer, PlanArrivals, PlanOperate, PlanLose DEF Next, Goes
  <2>3. QED
    BY <2>1, <2>2
<1>3. QED
  BY <1>1, <1>2, PTL DEF Spec

\* The server, the card, the outlines and the dialog have their types.
THEOREM FlipTypes == Spec => []TypeOK
<1>1. PlanInv => TypeOK
  BY NowIsPage DEF PlanInv, RestTypes, Tails, Outlines, TypeOK
<1>2. QED
  BY <1>1, PlanInvHolds, PTL

\* The button is enabled only over an answer, a plan or the reason why there is
\* none, and the one the page has for the picked procedure, unless a job's
\* beginning or end deleted it, or asked again, under the dialog.
THEOREM ConfirmWaitsForPlan == Spec => []ConfirmWaits
<1>1. PlanInv => ConfirmWaits
  BY NowIsPage DEF PlanInv, ShowsPlan, ConfirmWaits, Modal, Loading, InFlight
<1>2. QED
  BY <1>1, PlanInvHolds, PTL
=============================================================================
