---------------------------- MODULE JobTail_proofs --------------------------
(***************************************************************************)
(* Proofs about JobTail, for any number of jobs, lines, requests and moves *)
(***************************************************************************)
EXTENDS JobTail, SequenceTheorems, TLAPS

-----------------------------------------------------------------------------
(* The intervals.                                                          *)

\* The variable tail as a record of functions.
Shaped(t) ==
    /\ DOMAIN t = {"jobFor", "entry", "handle", "ticking", "poll"}
    /\ t.handle \in [Job -> BOOLEAN]
    /\ t.ticking \in [Job -> 0..2]

\* A timer that has a name has an interval; unless the operator strayed, it is
\* the only one, and the job's log is the one on the page.
Steady(t, away) ==
    /\ Shaped(t)
    /\ \A j \in Job : t.handle[j] => t.ticking[j] >= 1
    /\ \A j \in Job : ~away[j] => /\ t.ticking[j] = IF t.handle[j] THEN 1 ELSE 0
                                  /\ t.handle[j] => t.jobFor = j

\* What has no part in it: the entries and the polls.
LEMMA SteadyRest ==
    ASSUME NEW t, NEW away, Steady(t, away), NEW u, Shaped(u),
           u.jobFor = t.jobFor, u.handle = t.handle, u.ticking = t.ticking
    PROVE  Steady(u, away)
BY DEF Steady

\* The first part of pollJob() changes the poll only.
LEMMA StartPollSteady ==
    ASSUME NEW t, NEW away, Steady(t, away), NEW j
    PROVE  Steady(StartPoll(t, j), away) /\ StartPoll(t, j).jobFor = t.jobFor
BY DEF Steady, Shaped, StartPoll

\* clearInterval() of a job's timer.
LEMMA ClearTimerSteady ==
    ASSUME NEW t, NEW away, Steady(t, away), NEW j
    PROVE  /\ Steady(ClearTimer(t, j), away)
           /\ ClearTimer(t, j).jobFor = t.jobFor
           /\ \A i \in Job : ClearTimer(t, j).handle[i] <=> t.handle[i] /\ i # j
<1> DEFINE u == ClearTimer(t, j)
<1>1. /\ u.handle = [t.handle EXCEPT ![j] = FALSE]
      /\ u.ticking = [t.ticking EXCEPT ![j] = IF t.handle[j] THEN @ - 1 ELSE @]
      /\ u.jobFor = t.jobFor /\ DOMAIN u = DOMAIN t
  BY DEF Steady, Shaped, ClearTimer
<1> HIDE DEF u
<1>2. t.handle \in [Job -> BOOLEAN] /\ t.ticking \in [Job -> 0..2]
  BY DEF Steady, Shaped
<1>3. u.handle \in [Job -> BOOLEAN]
  BY <1>1, <1>2
<1>4. ASSUME NEW i \in Job
      PROVE  /\ u.handle[i] <=> t.handle[i] /\ i # j
             /\ u.ticking[i] = IF i = j /\ t.handle[i] THEN t.ticking[i] - 1
                               ELSE t.ticking[i]
  <2>1. CASE i = j
    BY <1>1, <1>2, <2>1
  <2>2. CASE i # j
    BY <1>1, <1>2, <2>2
  <2>3. QED
    BY <2>1, <2>2
<1>5. DOMAIN u.ticking = Job /\ \A i \in Job : u.ticking[i] \in 0..2
  BY <1>1, <1>2, <1>4 DEF Steady
<1>6. u.ticking \in [Job -> 0..2]
  BY <1>1, <1>2, <1>5
<1>7. Steady(u, away)
  BY <1>1, <1>3, <1>4, <1>6 DEF Steady, Shaped
<1>8. QED
  BY <1>1, <1>4, <1>7 DEF u

\* Leaving the page.
LEMMA StopSteady ==
    ASSUME NEW t, NEW away, Steady(t, away)
    PROVE  Steady(StopJobTimers(t), away)
<1> DEFINE u == StopJobTimers(t)
<1>1. /\ u.handle = [j \in Job |-> FALSE]
      /\ u.ticking = [j \in Job |-> IF t.handle[j] THEN t.ticking[j] - 1 ELSE t.ticking[j]]
      /\ DOMAIN u = DOMAIN t
  BY DEF Steady, Shaped, StopJobTimers
<1> HIDE DEF u
<1>2. \A j \in Job : u.ticking[j] \in 0..2 /\ ~u.handle[j]
  BY <1>1 DEF Steady, Shaped
<1>3. u.handle \in [Job -> BOOLEAN] /\ u.ticking \in [Job -> 0..2]
  BY <1>1, <1>2
<1>4. Steady(u, away)
  BY <1>1, <1>2, <1>3 DEF Steady, Shaped
<1>5. QED
  BY <1>4 DEF u

\* Another run is selected, or loaded; who is left while tailed has strayed.
LEMMA ShowSteady ==
    ASSUME NEW t, NEW away, Steady(t, away), NEW j, NEW away2,
           \A i \in Job : ~away2[i] => ~away[i] /\ (t.handle[i] => i = j)
    PROVE  Steady([t EXCEPT !.jobFor = j], away2)
BY DEF Steady, Shaped

\* setInterval() for the job on the page, when no timer has a name.
LEMMA NamedSteady ==
    ASSUME NEW t, NEW away, Steady(t, away), NEW j, t.jobFor = j,
           \A i \in Job : ~away[i] => ~t.handle[i]
    PROVE  Steady([t EXCEPT !.handle[j] = TRUE,
                            !.ticking[j] = IF @ = 2 THEN 2 ELSE @ + 1], away)
<1> DEFINE u == [t EXCEPT !.handle[j] = TRUE, !.ticking[j] = IF @ = 2 THEN 2 ELSE @ + 1]
<1>1. /\ u.handle = [t.handle EXCEPT ![j] = TRUE]
      /\ u.ticking = [t.ticking EXCEPT ![j] = IF @ = 2 THEN 2 ELSE @ + 1]
      /\ u.jobFor = j /\ DOMAIN u = DOMAIN t
  BY DEF Steady, Shaped
<1> HIDE DEF u
<1>2. t.handle \in [Job -> BOOLEAN] /\ t.ticking \in [Job -> 0..2]
  BY DEF Steady, Shaped
<1>3. u.handle \in [Job -> BOOLEAN]
  BY <1>1, <1>2
<1>4. ASSUME NEW i \in Job
      PROVE  /\ u.handle[i] <=> t.handle[i] \/ i = j
             /\ u.ticking[i] = IF i = j /\ t.ticking[i] # 2 THEN t.ticking[i] + 1
                               ELSE t.ticking[i]
  <2>1. CASE i = j
    BY <1>1, <1>2, <2>1
  <2>2. CASE i # j
    BY <1>1, <1>2, <2>2
  <2>3. QED
    BY <2>1, <2>2
<1>5. DOMAIN u.ticking = Job /\ \A i \in Job : u.ticking[i] \in 0..2
  BY <1>1, <1>2, <1>4
<1>6. u.ticking \in [Job -> 0..2]
  BY <1>1, <1>2, <1>5
<1>7. Steady(u, away)
  BY <1>1, <1>3, <1>4, <1>6 DEF Steady, Shaped
<1>8. QED
  BY <1>7 DEF u

\* trackJob() leaves one interval, which has a name.
LEMMA TrackSteady ==
    ASSUME NEW t, NEW away, Steady(t, away), NEW j
    PROVE  Steady(TrackJob(t, j), away)
<1>1. CASE t.jobFor = j /\ t.handle[j]
  BY <1>1 DEF TrackJob
<1>2. CASE ~(t.jobFor = j /\ t.handle[j])
  <2> DEFINE stopped == IF t.jobFor \in Job \ {j} THEN ClearTimer(t, t.jobFor) ELSE t
             shown   == [stopped EXCEPT !.jobFor = j]
             polled  == StartPoll(shown, j)
  <2>1. /\ Steady(stopped, away)
        /\ \A i \in Job : ~away[i] /\ stopped.handle[i] => i = j /\ t.jobFor = j
    <3>1. CASE t.jobFor \in Job \ {j}
      <4>1. Steady(ClearTimer(t, t.jobFor), away)
        BY ClearTimerSteady
      <4>2. \A i \in Job : ClearTimer(t, t.jobFor).handle[i] <=> t.handle[i] /\ i # t.jobFor
        BY ClearTimerSteady
      <4>3. \A i \in Job : ~away[i] /\ t.handle[i] => t.jobFor = i
        BY DEF Steady
      <4>4. QED
        BY <3>1, <4>1, <4>2, <4>3
    <3>2. CASE t.jobFor \notin Job \ {j}
      BY <3>2 DEF Steady
    <3>3. QED
      BY <3>1, <3>2
  <2>2. Steady(shown, away)
    <3> HIDE DEF stopped
    <3>1. QED
      BY <2>1, ShowSteady
  <2>3. Steady(polled, away) /\ polled.jobFor = j
    <3>1. shown.jobFor = j
      <4> HIDE DEF stopped
      <4>1. QED
        BY <2>1 DEF Steady, Shaped
    <3> HIDE DEF shown
    <3>2. QED
      BY <2>2, <3>1, StartPollSteady
  <2>4. \A i \in Job : ~away[i] => ~polled.handle[i]
    <3>1. \A i \in Job : ~away[i] => ~stopped.handle[i]
      BY <1>2, <2>1 DEF Steady, Shaped
    <3>2. shown.handle = stopped.handle
      <4> HIDE DEF stopped
      <4>1. QED
        BY <2>1 DEF Steady, Shaped
    <3>3. polled.handle = shown.handle
      <4> HIDE DEF shown
      <4>1. QED
        BY <2>2 DEF Steady, Shaped, StartPoll
    <3>4. QED
      BY <3>1, <3>2, <3>3
  <2>5. Steady([polled EXCEPT !.handle[j] = TRUE,
                              !.ticking[j] = IF @ = 2 THEN 2 ELSE @ + 1], away)
    <3> HIDE DEF polled
    <3>1. QED
      BY <2>3, <2>4, NamedSteady
  <2>6. QED
    BY <1>2, <2>5 DEF TrackJob
<1>3. QED
  BY <1>1, <1>2

\* What becomes of an entry or of a poll has no part in it.
LEMMA EntrySteady ==
    ASSUME NEW t, NEW away, Steady(t, away), NEW j, NEW x
    PROVE  /\ Steady([t EXCEPT !.entry[j] = x], away)
           /\ Steady([t EXCEPT !.poll[j] = x], away)
           /\ Steady([t EXCEPT !.poll[j].stage = x], away)
BY SteadyRest DEF Steady, Shaped

\* A tail ends.
LEMMA EndSteady ==
    ASSUME NEW t, NEW away, Steady(t, away), NEW j
    PROVE  Steady(EndPoll(t, j), away)
<1> DEFINE u == ClearTimer(t, j)
<1>1. Steady(u, away)
  BY ClearTimerSteady
<1>2. Steady([u EXCEPT !.poll[j].stage = "list"], away)
  <2> HIDE DEF u
  <2>1. QED
    BY <1>1, EntrySteady
<1>3. QED
  BY <1>2 DEF EndPoll

\* loadUsecases() and loadDetail(), when their answers are there.
LEMMA AnswerSteady ==
    ASSUME Steady(tail, strayed), NEW a, HandleList(a) \/ HandleDetail(a)
    PROVE  Steady(tail, strayed)'
<1>1. CASE HandleList(a)
  <2> DEFINE t == PickUp(tail, lists[a].item)
  <2>1. Steady(t, strayed)
    BY TrackSteady DEF PickUp
  <2>2. tail' = t \/ tail' = [t EXCEPT !.poll[a].stage = "detail"]
    BY <1>1 DEF HandleList, AfterList
  <2>3. Steady(tail', strayed)
    <3> HIDE DEF t
    <3>1. Steady([t EXCEPT !.poll[a].stage = "detail"], strayed)
      BY <2>1, EntrySteady
    <3>2. QED
      BY <2>1, <2>2, <3>1
  <2>4. QED
    BY <1>1, <2>3 DEF HandleList
<1>2. CASE HandleDetail(a)
  <2> DEFINE item == details[a].item
             once == ~item.running /\ tail.jobFor = NoJob /\ item.job # NoJob
             t    == IF item.running THEN TrackJob(tail, item.job)
                     ELSE IF once THEN [tail EXCEPT !.jobFor = item.job] ELSE tail
  <2>1. ASSUME item.running PROVE Steady(t, strayed)
    BY <2>1, TrackSteady
  <2>2. ASSUME ~item.running, ~once PROVE Steady(t, strayed)
    BY <2>2
  <2>3. ASSUME ~item.running, once PROVE Steady(t, strayed)
    <3>1. \A i \in Job : ~strayed[i] => ~tail.handle[i]
      BY <2>3 DEF Steady, NoJob, Job
    <3>2. Steady([tail EXCEPT !.jobFor = item.job], strayed)
      BY <3>1, ShowSteady
    <3>3. QED
      BY <2>3, <3>2
  <2>4. Steady(t, strayed)
    BY <2>1, <2>2, <2>3
  <2>5. tail' = t \/ tail' = [t EXCEPT !.poll[a] = NoFetch]
    BY <1>2 DEF HandleDetail, AfterDetail
  <2>6. Steady(tail', strayed)
    <3> HIDE DEF t
    <3>1. Steady([t EXCEPT !.poll[a] = NoFetch], strayed)
      BY <2>4, EntrySteady
    <3>2. QED
      BY <2>4, <2>5, <3>1
  <2>7. QED
    BY <1>2, <2>6 DEF HandleDetail
<1>3. QED
  BY <1>1, <1>2

\* pollJob() and loadJobOnce(), when an answer of theirs is there.
LEMMA FetchSteady ==
    ASSUME Steady(tail, strayed), NEW j \in Job, AnswerPoll(j) \/ AnswerOnce(j) \/ Tick(j)
    PROVE  Steady(tail, strayed)'
<1>1. CASE AnswerPoll(j)
  <2>1. PICK f : \/ HandlePoll(j, f)
                 \/ tail' = [tail EXCEPT !.poll[j] = f]
    BY <1>1 DEF AnswerPoll
  <2>2. CASE HandlePoll(j, f)
    <3> DEFINE e == [tail.entry[j] EXCEPT !.rec = f.rec, !.lines = @ \o f.lines, !.next = f.next]
               t == [tail EXCEPT !.entry[j] = e]
    <3>1. Steady(t, strayed)
      <4> HIDE DEF e
      <4>1. QED
        BY EntrySteady
    <3>2. tail' = EndPoll(t, j) \/ tail' = [t EXCEPT !.poll[j] = NoFetch]
      BY <2>2 DEF HandlePoll
    <3>3. Steady(tail', strayed)
      <4> HIDE DEF t
      <4>1. Steady([t EXCEPT !.poll[j] = NoFetch], strayed)
        BY <3>1, EntrySteady
      <4>2. Steady(EndPoll(t, j), strayed)
        BY <3>1, EndSteady
      <4>3. QED
        BY <3>2, <4>1, <4>2
    <3>4. QED
      BY <1>1, <3>3 DEF AnswerPoll
  <2>3. CASE tail' = [tail EXCEPT !.poll[j] = f]
    <3>1. Steady(tail', strayed)
      BY <2>3, EntrySteady
    <3>2. QED
      BY <1>1, <3>1 DEF AnswerPoll
  <2>4. QED
    BY <2>1, <2>2, <2>3
<1>2. CASE AnswerOnce(j)
  <2>1. PICK f : HandleOnce(j, f) \/ UNCHANGED tail
    BY <1>2 DEF AnswerOnce
  <2> DEFINE e == [rec |-> f.rec, lines |-> f.lines, next |-> f.next]
             t == [tail EXCEPT !.entry[j] = e]
  <2>2. Steady(t, strayed)
    <3> HIDE DEF e
    <3>1. QED
      BY EntrySteady
  <2>3. tail' = TrackJob(t, j) \/ tail' = t \/ tail' = tail
    BY <2>1 DEF HandleOnce
  <2>4. Steady(tail', strayed)
    <3> HIDE DEF t
    <3>1. QED
      BY <2>2, <2>3, TrackSteady
  <2>5. QED
    BY <1>2, <2>4 DEF AnswerOnce
<1>3. CASE Tick(j)
  BY <1>3, StartPollSteady DEF Tick
<1>4. QED
  BY <1>1, <1>2, <1>3

\* The failures.
LEMMA LoseSteady ==
    ASSUME Steady(tail, strayed), Lose
    PROVE  Steady(tail, strayed)'
<1> DEFINE Kept(t) == Steady(t, strayed)
<1>1. \A expired \in BOOLEAN : Kept(OrStopped(expired, tail))
  BY StopSteady DEF OrStopped
<1>2. PICK expired \in BOOLEAN :
            \/ \E a \in DOMAIN lists : LoseList(a, expired)
            \/ \E a \in DOMAIN details : LoseDetail(a, expired)
            \/ \E j \in Job : LosePoll(j, expired) \/ LoseOnce(j, expired)
            \/ LoseFlip(expired)
  BY DEF Lose
<1> DEFINE t == OrStopped(expired, tail)
<1>3. /\ \E j, x : tail' = t \/ tail' = [t EXCEPT !.poll[j].stage = x]
                   \/ tail' = [t EXCEPT !.poll[j] = x]
      /\ UNCHANGED strayed
  BY <1>2 DEF LoseList, LoseDetail, LosePoll, LoseOnce, LoseFlip, Fails, AfterList, AfterDetail
<1>4. Steady(t, strayed)
  BY <1>1
<1>5. Steady(tail', strayed)
  <2> HIDE DEF t
  <2>1. \A j, x : /\ Steady([t EXCEPT !.poll[j].stage = x], strayed)
                  /\ Steady([t EXCEPT !.poll[j] = x], strayed)
    BY <1>4, EntrySteady
  <2>2. PICK j, x : \/ tail' = t
                    \/ tail' = [t EXCEPT !.poll[j].stage = x]
                    \/ tail' = [t EXCEPT !.poll[j] = x]
    BY <1>3
  <2>3. /\ Steady([t EXCEPT !.poll[j].stage = x], strayed)
        /\ Steady([t EXCEPT !.poll[j] = x], strayed)
    BY <2>1
  <2>4. QED
    BY <1>4, <2>2, <2>3
<1>6. QED
  BY <1>3, <1>5

\* The intervals are steady.
LEMMA SteadyHolds == Spec => []Steady(tail, strayed)
<1>1. Init => Steady(tail, strayed)
  BY DEF Init, Tail0, Steady, Shaped
<1>2. Steady(tail, strayed) /\ [Next]_vars => Steady(tail, strayed)'
  <2> SUFFICES ASSUME Steady(tail, strayed), [Next]_vars PROVE Steady(tail, strayed)'
    OBVIOUS
  <2>1. CASE UNCHANGED <<tail, strayed>>
    BY <2>1
  <2>2. CASE ListLoop
    BY <2>1, <2>2, AnswerSteady DEF ListLoop, AskList, AnswerList, Unserved
  <2>3. ASSUME NEW j \in Job, TailLoop(j) PROVE Steady(tail, strayed)'
    BY <2>1, <2>3, AnswerSteady, FetchSteady
    DEF TailLoop, AnswerList, AnswerDetail, Unserved
  <2>4. CASE HandleFlip
    BY <2>4, TrackSteady DEF HandleFlip
  <2>5. CASE OneTime
    BY <2>1, <2>4, <2>5, AnswerSteady, FetchSteady
    DEF OneTime, JobStep, AnswerFlip, AnswerList, AnswerDetail, Unserved
  <2>6. CASE Leave
    BY <2>6, StopSteady DEF Leave
  <2>7. ASSUME NEW j \in Job, SelectRun(j) PROVE Steady(tail, strayed)'
    <3>1. \A i \in Job : ~strayed'[i] => ~strayed[i] /\ (tail.handle[i] => i = j)
      BY <2>7 DEF SelectRun
    <3>2. Steady([tail EXCEPT !.jobFor = j], strayed')
      BY <3>1, ShowSteady
    <3>3. QED
      BY <2>7, <3>2 DEF SelectRun
  <2>8. CASE Operate
    BY <2>1, <2>6, <2>7, <2>8
    DEF Operate, Return, ToggleExpand, RetryDetail, PostFlip, StartElsewhere, Unserved
  <2>9. QED
    BY <2>1, <2>2, <2>3, <2>5, <2>8, LoseSteady DEF Next, vars
<1>3. QED
  BY <1>1, <1>2, PTL DEF Spec

\* As long as the operator selects no other run while a job is tailed, the
\* page has one interval for a job it tails and none for any other.
THEOREM OneInterval == Spec => []NoLostInterval
<1>1. Steady(tail, strayed) => NoLostInterval
  BY DEF Steady, NoLostInterval
<1>2. QED
  BY <1>1, SteadyHolds, PTL

-----------------------------------------------------------------------------
(* The log.  Of a job whose record and log were not loaded by two at once, *)
(* the page has the first lines, and the poll under way asked for the rest.*)

From(a, b) == [i \in 1..(b - a) |-> a + i]

\* An entry e and a poll p, when w lines are written; a previous-run load f.
LogOf(e, p, w) ==
    /\ e.next \in 0..w /\ e.lines = From(0, e.next)
    /\ p.stage = "fetch" => /\ p.since = e.next
                            /\ p.got => p.next \in e.next..w /\ p.lines = From(e.next, p.next)

OnceOf(f, w) ==
    f.stage = "fetch" => f.since = 0 /\ (f.got => f.next \in 0..w /\ f.lines = From(0, f.next))

FetchFields == {"stage", "rec", "got", "since", "lines", "next"}

LogShaped(t) ==
    /\ DOMAIN t = {"jobFor", "entry", "handle", "ticking", "poll"}
    /\ DOMAIN t.entry = Job /\ DOMAIN t.poll = Job
    /\ \A j \in Job : /\ DOMAIN t.entry[j] = {"rec", "lines", "next"}
                      /\ DOMAIN t.poll[j] = FetchFields

LogInv ==
    /\ written \in [Job -> Nat]
    /\ DOMAIN onces = Job /\ DOMAIN mixed = Job
    /\ LogShaped(tail)
    /\ \A j \in Job : /\ DOMAIN onces[j] = FetchFields
                      /\ OnceOf(onces[j], written[j])
                      /\ ~mixed[j] => LogOf(tail.entry[j], tail.poll[j], written[j])

\* What t becomes has the entries of t; its polls are over or begin with them.
Follows(t, u) ==
    /\ LogShaped(u)
    /\ \A j \in Job : /\ u.entry[j] = t.entry[j]
                      /\ \/ u.poll[j] = t.poll[j]
                         \/ u.poll[j].stage # "fetch"
                         \/ u.poll[j] = Fetching(t.entry[j].next)

\* The lines that follow the first n.
LEMMA FromConcat ==
    ASSUME NEW n \in Nat, NEW m \in Nat, n <= m
    PROVE  From(0, n) \o From(n, m) = From(0, m)
<1>1. From(0, n) \in Seq(Nat) /\ From(n, m) \in Seq(Nat) /\ From(0, m) \in Seq(Nat)
  BY DEF From
<1>2. Len(From(0, n)) = n /\ Len(From(n, m)) = m - n /\ Len(From(0, m)) = m
  BY DEF From
<1>3. \A i \in 1..m : (From(0, n) \o From(n, m))[i] = From(0, m)[i]
  BY <1>1, <1>2 DEF From
<1>4. From(0, n) \o From(n, m) \in Seq(Nat) /\ Len(From(0, n) \o From(n, m)) = m
  BY <1>1, <1>2, ConcatProperties
<1>5. QED
  BY <1>1, <1>2, <1>3, <1>4, SeqEqual

\* A new poll, and one that is over, are right for any entry.
LEMMA FollowsLog ==
    ASSUME NEW e, NEW p, NEW q, NEW w, LogOf(e, p, w),
           q = p \/ q.stage # "fetch" \/ q = Fetching(e.next)
    PROVE  LogOf(e, q, w)
BY DEF LogOf, Fetching, NoFetch

\* The log grows.
LEMMA GrowsLog ==
    ASSUME NEW w \in Nat, NEW v \in Nat, w <= v
    PROVE  /\ \A e, p : LogOf(e, p, w) => LogOf(e, p, v)
           /\ \A f : OnceOf(f, w) => OnceOf(f, v)
<1>1. \A x : x \in 0..w => x \in 0..v
  OBVIOUS
<1>2. \A n \in 0..w : \A x : x \in n..w => x \in n..v
  OBVIOUS
<1>3. QED
  BY <1>1, <1>2 DEF LogOf, OnceOf

\* The tail's functions.
LEMMA FollowsSelf == ASSUME NEW t, LogShaped(t) PROVE Follows(t, t)
BY DEF Follows

\* What follows what follows a log follows it.
LEMMA FollowsTwice ==
    ASSUME NEW t, NEW u, NEW v, Follows(t, u), Follows(u, v)
    PROVE  Follows(t, v)
BY DEF Follows

\* What leaves the entries and the polls alone.
LEMMA FollowsRest ==
    ASSUME NEW t, LogShaped(t), NEW u, DOMAIN u = DOMAIN t, u.entry = t.entry, u.poll = t.poll
    PROVE  Follows(t, u)
BY DEF Follows, LogShaped

\* The timers and the run on the page.
LEMMA FollowsTimers ==
    ASSUME NEW t, LogShaped(t), NEW j
    PROVE  /\ Follows(t, ClearTimer(t, j)) /\ Follows(t, StopJobTimers(t))
           /\ Follows(t, [t EXCEPT !.jobFor = j])
           /\ \A x, y : Follows(t, [t EXCEPT !.handle[j] = x, !.ticking[j] = y])
<1>1. LET u == ClearTimer(t, j) IN DOMAIN u = DOMAIN t /\ u.entry = t.entry /\ u.poll = t.poll
  BY DEF LogShaped, ClearTimer
<1>2. LET u == StopJobTimers(t) IN DOMAIN u = DOMAIN t /\ u.entry = t.entry /\ u.poll = t.poll
  BY DEF LogShaped, StopJobTimers
<1>3. LET u == [t EXCEPT !.jobFor = j]
      IN  DOMAIN u = DOMAIN t /\ u.entry = t.entry /\ u.poll = t.poll
  BY DEF LogShaped
<1>4. ASSUME NEW x, NEW y
      PROVE  Follows(t, [t EXCEPT !.handle[j] = x, !.ticking[j] = y])
  <2> DEFINE u == [t EXCEPT !.handle[j] = x, !.ticking[j] = y]
  <2>1. DOMAIN u = DOMAIN t /\ u.entry = t.entry /\ u.poll = t.poll
    BY DEF LogShaped
  <2> HIDE DEF u
  <2>2. Follows(t, u)
    BY <2>1, FollowsRest
  <2>3. QED
    BY <2>2 DEF u
<1>5. QED
  BY <1>1, <1>2, <1>3, <1>4, FollowsRest

\* A poll begins.
LEMMA FollowsStart ==
    ASSUME NEW t, LogShaped(t), NEW j
    PROVE  Follows(t, StartPoll(t, j))
<1>1. DOMAIN Fetching(t.entry[j].next) = FetchFields
  BY DEF Fetching, NoFetch, FetchFields
<1>2. CASE t.poll[j].stage = "idle"
  <2> DEFINE u == [t EXCEPT !.poll[j] = Fetching(t.entry[j].next)]
  <2>1. /\ DOMAIN u = DOMAIN t /\ u.entry = t.entry
        /\ u.poll = [t.poll EXCEPT ![j] = Fetching(t.entry[j].next)]
    BY DEF LogShaped
  <2> HIDE DEF u
  <2>2. Follows(t, u)
    BY <1>1, <2>1 DEF Follows, LogShaped
  <2>3. QED
    BY <1>2, <2>2 DEF StartPoll, u
<1>3. CASE t.poll[j].stage # "idle"
  BY <1>3, FollowsSelf DEF StartPoll
<1>4. QED
  BY <1>2, <1>3

\* A poll is over, or waits for what follows its job's end.
LEMMA FollowsEnd ==
    ASSUME NEW t, LogShaped(t), NEW j, NEW x \in {"list", "detail"}
    PROVE  /\ Follows(t, [t EXCEPT !.poll[j] = NoFetch])
           /\ Follows(t, [t EXCEPT !.poll[j].stage = x])
<1>1. DOMAIN NoFetch = FetchFields /\ NoFetch.stage # "fetch"
  BY DEF NoFetch, FetchFields
<1>2. Follows(t, [t EXCEPT !.poll[j] = NoFetch])
  <2> DEFINE u == [t EXCEPT !.poll[j] = NoFetch]
  <2>1. DOMAIN u = DOMAIN t /\ u.entry = t.entry /\ u.poll = [t.poll EXCEPT ![j] = NoFetch]
    BY DEF LogShaped
  <2> HIDE DEF u
  <2>2. Follows(t, u)
    BY <1>1, <2>1 DEF Follows, LogShaped
  <2>3. QED
    BY <2>2 DEF u
<1>3. Follows(t, [t EXCEPT !.poll[j].stage = x])
  <2> DEFINE u == [t EXCEPT !.poll[j].stage = x]
             p == [t.poll[j] EXCEPT !.stage = x]
  <2>1. DOMAIN u = DOMAIN t /\ u.entry = t.entry /\ u.poll = [t.poll EXCEPT ![j] = p]
    BY DEF LogShaped
  <2>2. j \in Job => DOMAIN p = FetchFields /\ p.stage = x
    BY DEF LogShaped, FetchFields
  <2> HIDE DEF u, p
  <2>3. Follows(t, u)
    BY <2>1, <2>2 DEF Follows, LogShaped
  <2>4. QED
    BY <2>3 DEF u
<1>4. QED
  BY <1>2, <1>3

\* trackJob() begins a poll at most.
LEMMA FollowsTrack ==
    ASSUME NEW t, LogShaped(t), NEW j
    PROVE  Follows(t, TrackJob(t, j))
<1> DEFINE stopped == IF t.jobFor \in Job \ {j} THEN ClearTimer(t, t.jobFor) ELSE t
           shown   == [stopped EXCEPT !.jobFor = j]
           polled  == StartPoll(shown, j)
           named   == [polled EXCEPT !.handle[j] = TRUE,
                                     !.ticking[j] = IF @ = 2 THEN 2 ELSE @ + 1]
<1>1. Follows(t, stopped)
  BY FollowsTimers, FollowsSelf
<1>2. Follows(stopped, shown)
  <2> HIDE DEF stopped
  <2>1. LogShaped(stopped)
    BY <1>1 DEF Follows
  <2>2. QED
    BY <2>1, FollowsTimers
<1>3. Follows(shown, polled)
  <2> HIDE DEF shown
  <2>1. QED
    BY <1>2, FollowsStart DEF Follows
<1>4. Follows(polled, named)
  <2> HIDE DEF polled
  <2>1. LogShaped(polled)
    BY <1>3 DEF Follows
  <2>2. \A x, y : Follows(polled, [polled EXCEPT !.handle[j] = x, !.ticking[j] = y])
    BY <2>1, FollowsTimers
  <2>3. QED
    BY <2>2
<1>5. Follows(t, named)
  <2> HIDE DEF stopped, shown, polled, named
  <2>1. QED
    BY <1>1, <1>2, <1>3, <1>4, FollowsTwice
<1>6. QED
  BY <1>5, FollowsSelf DEF TrackJob

\* A step after which the entries are the same and the loads are right keeps
\* the invariant.
LEMMA LogKept ==
    ASSUME LogInv, Follows(tail, tail'), UNCHANGED <<written, mixed>>, DOMAIN onces' = Job,
           \A j \in Job : onces'[j] = onces[j] \/ onces'[j] = NoFetch \/ onces'[j] = Fetching(0)
    PROVE  LogInv'
<1>1. LogShaped(tail')
  BY DEF Follows
<1>2. ASSUME NEW j \in Job
      PROVE  /\ DOMAIN onces'[j] = FetchFields
             /\ OnceOf(onces'[j], written[j])
             /\ ~mixed[j] => LogOf(tail'.entry[j], tail'.poll[j], written[j])
  <2>1. DOMAIN onces'[j] = FetchFields /\ OnceOf(onces'[j], written[j])
    <3>1. /\ DOMAIN NoFetch = FetchFields /\ NoFetch.stage # "fetch"
          /\ DOMAIN Fetching(0) = FetchFields
          /\ Fetching(0).since = 0 /\ Fetching(0).got = FALSE
      BY DEF Fetching, NoFetch, FetchFields
    <3>2. OnceOf(NoFetch, written[j]) /\ OnceOf(Fetching(0), written[j])
      BY <3>1 DEF OnceOf
    <3>3. QED
      BY <3>1, <3>2 DEF LogInv
  <2>2. ~mixed[j] => LogOf(tail'.entry[j], tail'.poll[j], written[j])
    BY FollowsLog DEF LogInv, Follows
  <2>3. QED
    BY <2>1, <2>2
<1>3. QED
  BY <1>1, <1>2 DEF LogInv, LogShaped

\* The job writes, or goes on without.
LEMMA LogGrows ==
    ASSUME LogInv, NEW j \in Job, JobStep(j)
    PROVE  LogInv'
<1>1. written' \in [Job -> Nat] /\ \A i \in Job : written[i] <= written'[i]
  BY DEF JobStep, JobRuns, Appends, LogInv
<1>2. UNCHANGED <<tail, onces, mixed>>
  BY DEF JobStep, Unserved, callVars
<1>3. ASSUME NEW i \in Job
      PROVE  /\ OnceOf(onces[i], written'[i])
             /\ ~mixed[i] => LogOf(tail.entry[i], tail.poll[i], written'[i])
  BY <1>1, GrowsLog DEF LogInv
<1>4. QED
  BY <1>1, <1>2, <1>3 DEF LogInv, LogShaped

\* One of the two answers of a fetch: the record, or the rest of the log.
LEMMA AnsweredLog ==
    ASSUME NEW j \in Job, NEW f, NEW g \in Answered(j, f), DOMAIN f = FetchFields,
           written[j] \in Nat
    PROVE  /\ DOMAIN g = FetchFields /\ g.stage = f.stage /\ g.since = f.since
           /\ \/ g.got = f.got /\ g.next = f.next /\ g.lines = f.lines
              \/ g.next = written[j] /\ g.lines = From(f.since, g.next)
<1>1. CASE g = [f EXCEPT !.rec = ServedRecord(j)]
  BY <1>1 DEF FetchFields
<1>2. CASE g = [f EXCEPT !.got = TRUE, !.lines = ReadLog(j, f.since), !.next = written[j]]
  BY <1>2 DEF FetchFields, ReadLog, From
<1>3. QED
  BY <1>1, <1>2 DEF Answered

\* A poll with both answers brings the rest of the lines.
LEMMA PollLog ==
    ASSUME LogInv, NEW j \in Job, AnswerPoll(j)
    PROVE  LogInv'
<1>1. PICK f \in Answered(j, tail.poll[j]) :
              IF f.rec # "none" /\ f.got
              THEN HandlePoll(j, f)
              ELSE tail' = [tail EXCEPT !.poll[j] = f] /\ UNCHANGED lists
  BY DEF AnswerPoll
<1> DEFINE e == [tail.entry[j] EXCEPT !.rec = f.rec, !.lines = @ \o f.lines, !.next = f.next]
           t == [tail EXCEPT !.entry[j] = e]
<1>2. UNCHANGED <<written, mixed, onces>> /\ tail.poll[j].stage = "fetch"
  BY DEF AnswerPoll, serverVars
<1>3. /\ DOMAIN f = FetchFields /\ f.stage = "fetch" /\ f.since = tail.poll[j].since
      /\ \/ /\ f.got = tail.poll[j].got /\ f.next = tail.poll[j].next
            /\ f.lines = tail.poll[j].lines
         \/ f.next = written[j] /\ f.lines = From(f.since, f.next)
  BY <1>2, AnsweredLog DEF LogInv, LogShaped
<1>4. \A i \in Job : LogOf(tail.entry[i], tail.poll[i], written[i]) \/ mixed[i]
  BY DEF LogInv
<1>5. ~mixed[j] => LogOf(tail.entry[j], f, written[j])
  BY <1>2, <1>3, <1>4 DEF LogOf, LogInv
<1>6. CASE ~(f.rec # "none" /\ f.got)
  <2>1. tail' = [tail EXCEPT !.poll[j] = f]
    BY <1>1, <1>6
  <2>2. /\ DOMAIN tail' = DOMAIN tail /\ tail'.entry = tail.entry
        /\ tail'.poll = [tail.poll EXCEPT ![j] = f]
    BY <2>1 DEF LogInv, LogShaped
  <2>3. LogShaped(tail')
    BY <1>3, <2>2 DEF LogInv, LogShaped
  <2>4. \A i \in Job : ~mixed[i] => LogOf(tail'.entry[i], tail'.poll[i], written[i])
    BY <1>4, <1>5, <2>2 DEF LogInv, LogShaped
  <2>5. QED
    BY <1>2, <2>3, <2>4 DEF LogInv
<1>7. CASE f.rec # "none" /\ f.got
  <2>1. /\ DOMAIN t = DOMAIN tail /\ t.poll = tail.poll
        /\ t.entry = [tail.entry EXCEPT ![j] = e]
    BY DEF LogInv, LogShaped
  <2>2. /\ DOMAIN e = {"rec", "lines", "next"}
        /\ e.lines = tail.entry[j].lines \o f.lines /\ e.next = f.next
    BY DEF LogInv, LogShaped
  <2>3. ~mixed[j] => e.next \in 0..written[j] /\ e.lines = From(0, e.next)
    <3> SUFFICES ASSUME ~mixed[j] PROVE e.next \in 0..written[j] /\ e.lines = From(0, e.next)
      OBVIOUS
    <3> DEFINE n == tail.entry[j].next
    <3>1. /\ n \in Nat /\ tail.entry[j].lines = From(0, n)
          /\ f.next \in n..written[j] /\ f.lines = From(n, f.next)
      BY <1>3, <1>5, <1>7 DEF LogOf
    <3>2. f.next \in Nat /\ n <= f.next /\ f.next \in 0..written[j]
      BY <3>1 DEF LogInv
    <3>3. QED
      BY <2>2, <3>1, <3>2, FromConcat
  <2> HIDE DEF e, t
  <2>4. LogShaped(t)
    BY <2>1, <2>2 DEF LogInv, LogShaped
  <2>5. tail' = EndPoll(t, j) \/ tail' = [t EXCEPT !.poll[j] = NoFetch]
    BY <1>1, <1>7 DEF HandlePoll, t, e
  <2>6. Follows(t, tail') /\ tail'.poll[j].stage # "fetch"
    <3>1. CASE tail' = [t EXCEPT !.poll[j] = NoFetch]
      BY <2>4, <3>1, FollowsEnd DEF LogShaped, NoFetch
    <3>2. CASE tail' = EndPoll(t, j)
      <4> DEFINE u == ClearTimer(t, j)
      <4>1. Follows(t, u)
        BY <2>4, FollowsTimers
      <4>2. tail' = [u EXCEPT !.poll[j].stage = "list"]
        BY <3>2 DEF EndPoll
      <4> HIDE DEF u
      <4>3. LogShaped(u)
        BY <4>1 DEF Follows
      <4>4. Follows(u, [u EXCEPT !.poll[j].stage = "list"])
        BY <4>3, FollowsEnd
      <4>5. [u EXCEPT !.poll[j].stage = "list"].poll[j].stage = "list"
        BY <4>3 DEF LogShaped, FetchFields
      <4>6. QED
        BY <4>1, <4>2, <4>4, <4>5, FollowsTwice
    <3>3. QED
      BY <2>5, <3>1, <3>2
  <2>7. ASSUME NEW i \in Job, ~mixed[i]
        PROVE  LogOf(tail'.entry[i], tail'.poll[i], written[i])
    <3>1. CASE i = j
      <4>1. t.entry[j] = e
        BY <2>1 DEF LogInv, LogShaped
      <4>2. tail'.entry[j] = e
        BY <2>6, <4>1 DEF Follows
      <4>3. QED
        BY <2>3, <2>6, <2>7, <3>1, <4>2 DEF LogOf
    <3>2. CASE i # j
      <4>1. t.entry[i] = tail.entry[i] /\ t.poll[i] = tail.poll[i]
        BY <2>1, <3>2 DEF LogInv, LogShaped
      <4>2. QED
        BY <1>4, <2>6, <2>7, <4>1, FollowsLog DEF Follows
    <3>3. QED
      BY <3>1, <3>2
  <2>8. LogShaped(tail')
    BY <2>6 DEF Follows
  <2>9. QED
    BY <1>2, <2>7, <2>8 DEF LogInv
<1>8. QED
  BY <1>6, <1>7

\* A previous-run load with both answers replaces the lines by the whole log.
LEMMA OnceLog ==
    ASSUME LogInv, NEW j \in Job, AnswerOnce(j)
    PROVE  LogInv'
<1>1. PICK f \in Answered(j, onces[j]) :
              IF f.rec # "none" /\ f.got
              THEN HandleOnce(j, f)
              ELSE onces' = [onces EXCEPT ![j] = f] /\ UNCHANGED <<tail, mixed>>
  BY DEF AnswerOnce
<1> DEFINE e == [rec |-> f.rec, lines |-> f.lines, next |-> f.next]
           t == [tail EXCEPT !.entry[j] = e]
<1>2. UNCHANGED written /\ onces[j].stage = "fetch"
  BY DEF AnswerOnce, serverVars
<1>3. /\ DOMAIN f = FetchFields /\ f.stage = "fetch" /\ f.since = 0
      /\ \/ /\ f.got = onces[j].got /\ f.next = onces[j].next
            /\ f.lines = onces[j].lines
         \/ f.next = written[j] /\ f.lines = From(0, f.next)
  BY <1>2, AnsweredLog DEF LogInv, OnceOf
<1>4. OnceOf(f, written[j])
  BY <1>2, <1>3 DEF OnceOf, LogInv
<1>5. CASE ~(f.rec # "none" /\ f.got)
  <2>1. onces' = [onces EXCEPT ![j] = f] /\ UNCHANGED <<tail, mixed>>
    BY <1>1, <1>5
  <2>2. \A i \in Job : DOMAIN onces'[i] = FetchFields /\ OnceOf(onces'[i], written[i])
    BY <1>3, <1>4, <2>1 DEF LogInv
  <2>3. QED
    BY <1>2, <2>1, <2>2 DEF LogInv, LogShaped
<1>6. CASE f.rec # "none" /\ f.got
  <2>1. /\ DOMAIN t = DOMAIN tail /\ t.poll = tail.poll
        /\ t.entry = [tail.entry EXCEPT ![j] = e]
    BY DEF LogInv, LogShaped
  <2>2. DOMAIN e = {"rec", "lines", "next"} /\ e.lines = f.lines /\ e.next = f.next
    OBVIOUS
  <2>3. f.next \in 0..written[j] /\ f.lines = From(0, f.next)
    BY <1>3, <1>4, <1>6 DEF OnceOf
  <2> HIDE DEF e, t
  <2>4. LogShaped(t)
    BY <2>1, <2>2 DEF LogInv, LogShaped
  <2>5. tail' = TrackJob(t, j) \/ tail' = t
    BY <1>1, <1>6 DEF HandleOnce, t, e
  <2>6. Follows(t, tail')
    BY <2>4, <2>5, FollowsTrack, FollowsSelf
  <2>7. /\ onces' = [onces EXCEPT ![j] = NoFetch]
        /\ mixed' = [mixed EXCEPT ![j] = @ \/ tail.poll[j].stage = "fetch"]
    BY <1>1, <1>6 DEF HandleOnce
  <2>8. ASSUME NEW i \in Job, ~mixed'[i]
        PROVE  LogOf(tail'.entry[i], tail'.poll[i], written[i])
    <3>1. CASE i = j
      <4>1. t.entry[j] = e /\ t.poll[j] = tail.poll[j]
        BY <2>1 DEF LogInv, LogShaped
      <4>2. tail.poll[j].stage # "fetch"
        BY <2>7, <2>8, <3>1 DEF LogInv
      <4>3. LogOf(e, t.poll[j], written[j])
        BY <2>2, <2>3, <4>1, <4>2 DEF LogOf
      <4>4. QED
        BY <2>6, <3>1, <4>1, <4>3, FollowsLog DEF Follows
    <3>2. CASE i # j
      <4>1. t.entry[i] = tail.entry[i] /\ t.poll[i] = tail.poll[i] /\ mixed'[i] = mixed[i]
        BY <2>1, <2>7, <3>2 DEF LogInv, LogShaped
      <4>2. LogOf(t.entry[i], t.poll[i], written[i])
        BY <2>8, <4>1 DEF LogInv
      <4>3. QED
        BY <2>6, <4>2, FollowsLog DEF Follows
    <3>3. QED
      BY <3>1, <3>2
  <2>9. \A i \in Job : DOMAIN onces'[i] = FetchFields /\ OnceOf(onces'[i], written[i])
    <3>1. DOMAIN NoFetch = FetchFields /\ \A w : OnceOf(NoFetch, w)
      BY DEF NoFetch, FetchFields, OnceOf
    <3>2. QED
      BY <2>7, <3>1 DEF LogInv
  <2>10. LogShaped(tail')
    BY <2>6 DEF Follows
  <2>11. QED
    BY <1>2, <2>7, <2>8, <2>9, <2>10 DEF LogInv
<1>7. QED
  BY <1>5, <1>6

\* The lists and the details.
LEMMA AnswerLog ==
    ASSUME LogInv, NEW a, HandleList(a) \/ HandleDetail(a)
    PROVE  LogInv'
<1>1. LogShaped(tail)
  BY DEF LogInv
<1>2. CASE HandleList(a)
  <2> DEFINE t == PickUp(tail, lists[a].item)
  <2>1. Follows(tail, t)
    BY <1>1, FollowsTrack, FollowsSelf DEF PickUp
  <2>2. tail' = t \/ tail' = [t EXCEPT !.poll[a].stage = "detail"]
    BY <1>2 DEF HandleList, AfterList
  <2>3. Follows(tail, tail')
    <3> HIDE DEF t
    <3>1. LogShaped(t)
      BY <2>1 DEF Follows
    <3>2. Follows(t, [t EXCEPT !.poll[a].stage = "detail"])
      BY <3>1, FollowsEnd
    <3>3. QED
      BY <2>1, <2>2, <3>2, FollowsTwice
  <2>4. QED
    BY <1>2, <2>3, LogKept DEF HandleList, serverVars, LogInv
<1>3. CASE HandleDetail(a)
  <2> DEFINE item == details[a].item
             once == ~item.running /\ tail.jobFor = NoJob /\ item.job # NoJob
             t    == IF item.running THEN TrackJob(tail, item.job)
                     ELSE IF once THEN [tail EXCEPT !.jobFor = item.job] ELSE tail
  <2>1. Follows(tail, t)
    BY <1>1, FollowsTrack, FollowsTimers, FollowsSelf
  <2>2. tail' = t \/ tail' = [t EXCEPT !.poll[a] = NoFetch]
    BY <1>3 DEF HandleDetail, AfterDetail
  <2>3. onces' = onces \/ onces' = [onces EXCEPT ![item.job] = Fetching(0)]
    BY <1>3 DEF HandleDetail
  <2>4. Follows(tail, tail')
    <3> HIDE DEF t
    <3>1. LogShaped(t)
      BY <2>1 DEF Follows
    <3>2. Follows(t, [t EXCEPT !.poll[a] = NoFetch])
      BY <3>1, FollowsEnd
    <3>3. QED
      BY <2>1, <2>2, <3>2, FollowsTwice
  <2>5. DOMAIN onces' = Job /\ \A j \in Job : onces'[j] = onces[j] \/ onces'[j] = Fetching(0)
    BY <2>3 DEF LogInv
  <2>6. QED
    BY <1>3, <2>4, <2>5, LogKept DEF HandleDetail, serverVars
<1>4. QED
  BY <1>2, <1>3

\* The failures.
LEMMA LoseLog == ASSUME LogInv, Lose PROVE LogInv'
<1>1. LogShaped(tail) /\ DOMAIN onces = Job
  BY DEF LogInv
<1>2. PICK expired \in BOOLEAN :
            \/ \E a \in DOMAIN lists : LoseList(a, expired)
            \/ \E a \in DOMAIN details : LoseDetail(a, expired)
            \/ \E j \in Job : LosePoll(j, expired) \/ LoseOnce(j, expired)
            \/ LoseFlip(expired)
  BY DEF Lose
<1> DEFINE t == OrStopped(expired, tail)
<1>3. Follows(tail, t)
  BY <1>1, FollowsTimers, FollowsSelf DEF OrStopped
<1>4. PICK j : \/ tail' = t
               \/ tail' = [t EXCEPT !.poll[j].stage = "detail"]
               \/ tail' = [t EXCEPT !.poll[j] = NoFetch]
  BY <1>2 DEF LoseList, LoseDetail, LosePoll, LoseOnce, LoseFlip, AfterList, AfterDetail
<1>5. Follows(tail, tail')
  <2> HIDE DEF t
  <2>1. LogShaped(t)
    BY <1>3 DEF Follows
  <2>2. /\ Follows(t, [t EXCEPT !.poll[j].stage = "detail"])
        /\ Follows(t, [t EXCEPT !.poll[j] = NoFetch])
    BY <2>1, FollowsEnd
  <2>3. QED
    BY <1>3, <1>4, <2>2, FollowsTwice
<1>6. UNCHANGED <<written, mixed>>
  BY <1>2 DEF LoseList, LoseDetail, LosePoll, LoseOnce, LoseFlip, Fails, serverVars
<1>7. onces' = onces \/ \E i \in Job : onces' = [onces EXCEPT ![i] = NoFetch]
  BY <1>2 DEF LoseList, LoseDetail, LosePoll, LoseOnce, LoseFlip, callVars
<1>8. QED
  BY <1>1, <1>5, <1>6, <1>7, LogKept

\* The rest of the page, and of the server.
LEMMA PageLog ==
    ASSUME LogInv,
           \/ AskList \/ AnswerFlip \/ HandleFlip
           \/ \E a : AnswerList(a) \/ AnswerDetail(a)
           \/ \E j \in Job : Tick(j)
           \/ Operate
    PROVE  LogInv'
<1>1. LogShaped(tail) /\ DOMAIN onces = Job
  BY DEF LogInv
<1>2. CASE UNCHANGED <<tail, onces, written, mixed>>
  BY <1>1, <1>2, FollowsSelf, LogKept
<1>3. CASE AskList \/ AnswerFlip \/ \E a : AnswerList(a) \/ AnswerDetail(a)
  BY <1>2, <1>3 DEF AskList, AnswerFlip, AnswerList, AnswerDetail, Browse, Unserved, serverVars
<1>4. CASE HandleFlip
  <2>1. Follows(tail, tail')
    BY <1>1, <1>4, FollowsSelf, FollowsTrack DEF HandleFlip
  <2>2. QED
    BY <1>1, <1>4, <2>1, LogKept DEF HandleFlip, serverVars
<1>5. ASSUME NEW j \in Job, Tick(j) PROVE LogInv'
  <2>1. Follows(tail, tail')
    BY <1>1, <1>5, FollowsStart DEF Tick
  <2>2. QED
    BY <1>1, <1>5, <2>1, LogKept DEF Tick, Browse, callVars, serverVars
<1>6. CASE Leave
  <2>1. Follows(tail, tail')
    BY <1>1, <1>6, FollowsTimers DEF Leave
  <2>2. QED
    BY <1>1, <1>6, <2>1, LogKept DEF Leave, Click, Browse, callVars, serverVars
<1>7. ASSUME NEW j \in Job, SelectRun(j) PROVE LogInv'
  <2>1. Follows(tail, tail')
    BY <1>1, <1>7, FollowsTimers DEF SelectRun
  <2>2. onces' = [onces EXCEPT ![j] = Fetching(0)]
    BY <1>7 DEF SelectRun
  <2>3. QED
    BY <1>1, <1>7, <2>1, <2>2, LogKept DEF SelectRun, Click, Browse, serverVars
<1>8. CASE Return \/ ToggleExpand \/ RetryDetail \/ PostFlip \/ \E j \in Job : StartElsewhere(j)
  BY <1>2, <1>8
  DEF Return, ToggleExpand, RetryDetail, PostFlip, StartElsewhere, Browse, Click, Unserved,
      callVars, serverVars
<1>9. QED
  BY <1>3, <1>4, <1>5, <1>6, <1>7, <1>8 DEF Operate

\* The lines the page has of a job are the first of its log, each once and in
\* order, whatever polls are late, lost, stopped or started again, unless a
\* previous-run load of that job was handled while a poll of it was under way.
THEOREM LogIsWhole == Spec => []LinesAreTheLog
<1>1. Init => LogInv
  <2> SUFFICES ASSUME Init PROVE LogInv
    OBVIOUS
  <2>1. written \in [Job -> Nat]
    BY TailAssumption DEF Init
  <2>2. LogShaped(tail)
    BY DEF Init, Tail0, LogShaped, NoEntry, NoFetch, FetchFields
  <2>3. \A j \in Job : DOMAIN onces[j] = FetchFields /\ OnceOf(onces[j], written[j])
    BY DEF Init, NoFetch, FetchFields, OnceOf
  <2>4. <<>> = From(0, 0)
    BY DEF From
  <2>5. \A j \in Job : LogOf(tail.entry[j], tail.poll[j], written[j])
    BY <2>1, <2>4 DEF Init, Tail0, NoEntry, NoFetch, LogOf
  <2>6. QED
    BY <2>1, <2>2, <2>3, <2>5 DEF Init, LogInv
<1>2. LogInv /\ [Next]_vars => LogInv'
  <2> SUFFICES ASSUME LogInv, [Next]_vars PROVE LogInv'
    OBVIOUS
  <2>1. CASE UNCHANGED vars
    BY <2>1 DEF vars, serverVars, callVars, LogInv, LogShaped
  <2>2. CASE ListLoop
    BY <2>2, PageLog, AnswerLog DEF ListLoop
  <2>3. ASSUME NEW j \in Job, TailLoop(j) PROVE LogInv'
    BY <2>3, PageLog, AnswerLog, PollLog DEF TailLoop
  <2>4. CASE OneTime
    BY <2>4, PageLog, AnswerLog, OnceLog, LogGrows DEF OneTime
  <2>5. CASE Operate
    BY <2>5, PageLog
  <2>6. QED
    BY <2>1, <2>2, <2>3, <2>4, <2>5, LoseLog DEF Next
<1>3. LogInv => LinesAreTheLog
  <2>1. \A n \in Nat : From(0, n) = [i \in 1..n |-> i]
    BY DEF From
  <2>2. \A j \in Job : \A n \in 0..written[j] : LogInv => n \in Nat
    BY DEF LogInv
  <2>3. QED
    BY <2>1, <2>2 DEF LogInv, LogOf, LinesAreTheLog
<1>4. QED
  BY <1>1, <1>2, <1>3, PTL DEF Spec
-----------------------------------------------------------------------------
(* The types.  The page may have lines twice, when two loads of one log    *)
(* overlapped, but never more than the whole log twice: the lines a poll   *)
(* brings begin where the entry ends, or the entry is one whole load.      *)

\* The jobs begin one by one, and a job's last line is the verdict.
ServerTypes ==
    /\ phase \in [Job -> {"none", "work", "verdict", "save", "pop", "over"}]
    /\ written \in [Job -> 0..MaxLines]
    /\ \A j \in Job : phase[j] \in {"none", "work", "verdict"} => written[j] < MaxLines
    /\ \E n \in 0..MaxJobs : \A j \in Job : phase[j] # "none" <=> j <= n

\* A job that an answer says is running is there.
Told == {item \in Item : item.running => item.job \in Job}
ToldCall == [stage : {"idle", "sent", "answered"}, item : Told]

CallTypes ==
    /\ lists \in [{Page, Switch} \cup Job -> ToldCall]
    /\ details \in [{Page} \cup Job -> ToldCall]
    /\ flip \in [stage : {"idle", "sent", "answered"}, job : {NoJob} \cup Job]

PageTypes ==
    /\ here \in BOOLEAN /\ expanded \in BOOLEAN
    /\ list \in Item
    /\ detail \in [have : BOOLEAN, job : {NoJob} \cup Job,
                   state : {"absent", "loading", "ok", "err"}]
    /\ moves \in 0..MaxMoves
    /\ mixed \in [Job -> BOOLEAN] /\ strayed \in [Job -> BOOLEAN]

\* An answer with the log of a fetch p.
Piece(p, w) == p.got => p.next <= w /\ p.since <= p.next /\ Len(p.lines) = p.next - p.since

Room(e, p, w) ==
    /\ e.next <= w /\ Len(e.lines) <= MaxLines + e.next
    /\ p.stage = "fetch" => /\ p.since <= w /\ Piece(p, w)
                            /\ p.since = e.next \/ Len(e.lines) <= MaxLines

TailFields == {"jobFor", "entry", "handle", "ticking", "poll"}

Typed(t, w) ==
    /\ t = [x \in TailFields |-> t[x]]
    /\ t.jobFor \in {NoJob} \cup Job
    /\ t.entry \in [Job -> Entry] /\ t.poll \in [Job -> Fetch]
    /\ \A j \in Job : Room(t.entry[j], t.poll[j], w[j])

OnceTypes(o, w) ==
    /\ o \in [Job -> Fetch]
    /\ \A j \in Job : o[j].stage = "fetch" => o[j].since = 0 /\ Piece(o[j], w[j])

TypeInv ==
    /\ ServerTypes /\ CallTypes /\ PageTypes
    /\ Typed(tail, written) /\ OnceTypes(onces, written)

\* The lines of an answer or of the page.
LEMMA LinesAre == \A s : s \in Lines <=> s \in Seq(1..MaxLines) /\ Len(s) <= 2 * MaxLines
<1>1. ASSUME NEW s \in Lines PROVE s \in Seq(1..MaxLines) /\ Len(s) <= 2 * MaxLines
  <2>1. PICK n \in 0..(2 * MaxLines) : s \in [1..n -> 1..MaxLines]
    BY DEF Lines
  <2>2. n \in Nat
    BY <2>1, TailAssumption
  <2>3. s \in Seq(1..MaxLines)
    BY <2>1, <2>2, SeqDef
  <2>4. Len(s) = n
    BY <2>1, <2>2, <2>3, LenProperties
  <2>5. QED
    BY <2>1, <2>3, <2>4
<1>2. ASSUME NEW s \in Seq(1..MaxLines), Len(s) <= 2 * MaxLines PROVE s \in Lines
  <2>1. Len(s) \in 0..(2 * MaxLines)
    BY <1>2, TailAssumption
  <2>2. s \in [1..Len(s) -> 1..MaxLines]
    BY <1>2, LenProperties
  <2>3. QED
    BY <2>1, <2>2 DEF Lines
<1>3. QED
  BY <1>1, <1>2

\* No fetch, and one that begins.
LEMMA FetchTypes ==
    /\ NoFetch \in Fetch
    /\ \A n \in 0..MaxLines : Fetching(n) \in Fetch
    /\ NoEntry \in Entry /\ NoEntry.lines = <<>> /\ NoEntry.next = 0
    /\ NoFetch.stage = "idle"
    /\ \A n : /\ Fetching(n).stage = "fetch" /\ Fetching(n).since = n
              /\ ~Fetching(n).got
<1>1. <<>> \in Lines
  <2>1. <<>> \in Seq(1..MaxLines) /\ Len(<<>>) = 0
    OBVIOUS
  <2>2. 0 <= 2 * MaxLines
    BY TailAssumption
  <2>3. QED
    BY <2>1, <2>2, LinesAre
<1>2. 0 \in 0..MaxLines
  BY TailAssumption
<1>3. NoFetch \in Fetch
  BY <1>1, <1>2 DEF NoFetch, Fetch, Rec
<1>4. ASSUME NEW n \in 0..MaxLines PROVE Fetching(n) \in Fetch
  BY <1>3 DEF Fetching, Fetch
<1>5. NoEntry \in Entry
  BY <1>1, <1>2 DEF NoEntry, Entry, Rec
<1>6. QED
  BY <1>3, <1>4, <1>5 DEF NoFetch, Fetching, NoEntry

-----------------------------------------------------------------------------
(* The functions of the tail keep its type.                                *)

\* The timers have no part in it.
LEMMA TypedRest ==
    ASSUME NEW t, NEW w, Typed(t, w), NEW u, u = [x \in TailFields |-> u[x]],
           u.entry = t.entry, u.poll = t.poll, u.jobFor \in {NoJob} \cup Job
    PROVE  Typed(u, w)
BY DEF Typed

\* The timers and the run on the page.
LEMMA TypedTimers ==
    ASSUME NEW t, NEW w, Typed(t, w), NEW j \in {NoJob} \cup Job
    PROVE  /\ Typed(ClearTimer(t, j), w) /\ Typed(StopJobTimers(t), w)
           /\ Typed([t EXCEPT !.jobFor = j], w)
           /\ \A x, y : Typed([t EXCEPT !.handle[j] = x, !.ticking[j] = y], w)
<1> DEFINE Same(u) == /\ u = [x \in TailFields |-> u[x]] /\ u.entry = t.entry /\ u.poll = t.poll
                      /\ u.jobFor \in {NoJob} \cup Job
<1>1. Same(ClearTimer(t, j))
  BY DEF Typed, TailFields, ClearTimer
<1>2. Same(StopJobTimers(t))
  BY DEF Typed, TailFields, StopJobTimers
<1>3. Same([t EXCEPT !.jobFor = j])
  BY DEF Typed, TailFields
<1>4. ASSUME NEW x, NEW y PROVE Same([t EXCEPT !.handle[j] = x, !.ticking[j] = y])
  BY DEF Typed, TailFields
<1>5. \A u : Same(u) => Typed(u, w)
  BY TypedRest
<1> HIDE DEF Same
<1>6. QED
  BY <1>1, <1>2, <1>3, <1>4, <1>5

\* A poll.
LEMMA TypedPoll ==
    ASSUME NEW t, NEW w, Typed(t, w), NEW j \in Job, NEW q \in Fetch,
           Room(t.entry[j], q, w[j])
    PROVE  Typed([t EXCEPT !.poll[j] = q], w)
<1> DEFINE u == [t EXCEPT !.poll[j] = q]
<1>1. /\ u = [x \in TailFields |-> u[x]] /\ u.jobFor = t.jobFor /\ u.entry = t.entry
      /\ u.poll = [t.poll EXCEPT ![j] = q]
  BY DEF Typed, TailFields
<1> HIDE DEF u
<1>2. Typed(u, w)
  BY <1>1 DEF Typed
<1>3. QED
  BY <1>2 DEF u

\* A poll that is over, or waits for the list or the detail.
LEMMA TypedEnd ==
    ASSUME NEW t, NEW w, Typed(t, w), NEW j \in Job, NEW x \in {"list", "detail"}
    PROVE  /\ Typed([t EXCEPT !.poll[j] = NoFetch], w)
           /\ Typed([t EXCEPT !.poll[j].stage = x], w)
<1> DEFINE q == [t.poll[j] EXCEPT !.stage = x]
<1>1. q \in Fetch /\ q.stage = x
  BY DEF Typed, Fetch
<1>2. Room(t.entry[j], t.poll[j], w[j])
  BY DEF Typed
<1>3. Room(t.entry[j], q, w[j]) /\ Room(t.entry[j], NoFetch, w[j])
  BY <1>1, <1>2, FetchTypes DEF Room
<1>4. [t EXCEPT !.poll[j].stage = x] = [t EXCEPT !.poll[j] = q]
  BY DEF Typed, TailFields
<1> HIDE DEF q
<1>5. QED
  BY <1>1, <1>3, <1>4, FetchTypes, TypedPoll

\* What the page has of a job's log.
LEMMA TypedEntry ==
    ASSUME NEW t, NEW w, Typed(t, w), NEW j \in Job, NEW e \in Entry,
           Room(e, t.poll[j], w[j])
    PROVE  Typed([t EXCEPT !.entry[j] = e], w)
<1> DEFINE u == [t EXCEPT !.entry[j] = e]
<1>1. /\ u = [x \in TailFields |-> u[x]] /\ u.jobFor = t.jobFor /\ u.poll = t.poll
      /\ u.entry = [t.entry EXCEPT ![j] = e]
  BY DEF Typed, TailFields
<1> HIDE DEF u
<1>2. Typed(u, w)
  BY <1>1 DEF Typed
<1>3. QED
  BY <1>2 DEF u

\* A poll begins where the entry ends.
LEMMA TypedStart ==
    ASSUME NEW t, NEW w, Typed(t, w), NEW j \in Job
    PROVE  Typed(StartPoll(t, j), w)
<1> DEFINE n == t.entry[j].next
<1>1. n \in 0..MaxLines
  BY DEF Typed, Entry
<1>2. Room(t.entry[j], t.poll[j], w[j])
  BY DEF Typed
<1>3. Room(t.entry[j], Fetching(n), w[j])
  BY <1>2, FetchTypes DEF Room, Piece
<1>4. Typed([t EXCEPT !.poll[j] = Fetching(n)], w)
  BY <1>1, <1>3, FetchTypes, TypedPoll
<1>5. QED
  BY <1>4 DEF StartPoll

\* trackJob()
LEMMA TypedTrack ==
    ASSUME NEW t, NEW w, Typed(t, w), NEW j \in Job
    PROVE  Typed(TrackJob(t, j), w)
<1> DEFINE stopped == IF t.jobFor \in Job \ {j} THEN ClearTimer(t, t.jobFor) ELSE t
           shown   == [stopped EXCEPT !.jobFor = j]
           polled  == StartPoll(shown, j)
           named   == [polled EXCEPT !.handle[j] = TRUE,
                                     !.ticking[j] = IF @ = 2 THEN 2 ELSE @ + 1]
<1>1. Typed(stopped, w)
  BY TypedTimers
<1>2. Typed(shown, w)
  <2> HIDE DEF stopped
  <2>1. QED
    BY <1>1, TypedTimers
<1>3. Typed(polled, w)
  <2> HIDE DEF shown
  <2>1. QED
    BY <1>2, TypedStart
<1>4. Typed(named, w)
  <2> HIDE DEF polled
  <2>1. QED
    BY <1>3, TypedTimers
<1>5. TrackJob(t, j) = t \/ TrackJob(t, j) = named
  BY DEF TrackJob
<1> HIDE DEF named
<1>6. QED
  BY <1>4, <1>5

\* loadUsecases()
LEMMA TypedPickUp ==
    ASSUME NEW t, NEW w, Typed(t, w), NEW item \in Told
    PROVE  Typed(PickUp(t, item), w)
BY TypedTrack DEF PickUp, Told

\* The lines written since.
LEMMA TypedGrows ==
    ASSUME NEW t, NEW w \in [Job -> 0..MaxLines], Typed(t, w), NEW o, OnceTypes(o, w),
           NEW v \in [Job -> 0..MaxLines], \A j \in Job : w[j] <= v[j]
    PROVE  Typed(t, v) /\ OnceTypes(o, v)
<1>1. ASSUME NEW e \in Entry, NEW p \in Fetch, NEW j \in Job, Room(e, p, w[j])
      PROVE  Room(e, p, v[j])
  <2>1. /\ e.next \in Nat /\ p.since \in Nat /\ p.next \in Nat
        /\ w[j] \in Nat /\ v[j] \in Nat /\ w[j] <= v[j]
    BY DEF Entry, Fetch
  <2>2. QED
    BY <1>1, <2>1 DEF Room, Piece
<1>2. ASSUME NEW p \in Fetch, NEW j \in Job, Piece(p, w[j]) PROVE Piece(p, v[j])
  <2>1. p.next \in Nat /\ w[j] \in Nat /\ v[j] \in Nat /\ w[j] <= v[j]
    BY DEF Fetch
  <2>2. QED
    BY <1>2, <2>1 DEF Piece
<1>3. Typed(t, v)
  BY <1>1 DEF Typed
<1>4. OnceTypes(o, v)
  BY <1>2 DEF OnceTypes
<1>5. QED
  BY <1>3, <1>4
-----------------------------------------------------------------------------
(* The server and the calls keep their types.                              *)

\* The jobs have begun up to the newest.
LEMMA NewestJob ==
    ASSUME ServerTypes
    PROVE  Newest \in {NoJob} \cup Job /\ \A j \in Job : phase[j] # "none" <=> j <= Newest
<1>1. PICK n \in 0..MaxJobs : \A j \in Job : phase[j] # "none" <=> j <= n
  BY DEF ServerTypes
<1>2. n \in Nat /\ MaxJobs \in Nat
  BY <1>1, TailAssumption
<1>3. CASE n = 0
  <2>1. Begun = {}
    BY <1>1, <1>3 DEF Begun, Job
  <2>2. QED
    BY <1>1, <1>3, <2>1 DEF Newest, NoJob
<1>4. CASE n # 0
  <2>1. n \in Begun /\ \A i \in Begun : i <= n
    BY <1>1, <1>2, <1>4 DEF Begun, Job
  <2>2. \A j \in Begun : j \in Nat /\ (n <= j => j = n)
    BY <1>2, <2>1 DEF Begun, Job
  <2>3. Newest = n
    BY <2>1, <2>2 DEF Newest
  <2>4. QED
    BY <1>1, <2>1, <2>3 DEF Begun
<1>5. QED
  BY <1>3, <1>4

\* What the server says of the use case.
LEMMA SummaryTold == ASSUME ServerTypes PROVE Summary \in Told
<1> DEFINE r == Newest # NoJob /\ phase[Newest] \in {"work", "verdict", "save"}
           s == InSlot # {}
<1>1. Newest \in {NoJob} \cup Job /\ (r => Newest \in Job) /\ r \in BOOLEAN /\ s \in BOOLEAN
  BY NewestJob
<1>2. Summary = [known |-> TRUE, turning |-> s, job |-> Newest, running |-> r]
  BY DEF Summary
<1> HIDE DEF r, s
<1>3. QED
  BY <1>1, <1>2 DEF Told, Item

\* A job begins, next to the newest.
LEMMA StartTypes ==
    ASSUME ServerTypes, NEW j \in Job, Starts(j), UNCHANGED written
    PROVE  ServerTypes'
<1>1. j = Newest + 1 /\ phase' = [phase EXCEPT ![j] = "work"] /\ phase[j] = "none"
  BY DEF Starts, Step
<1>2. Newest \in 0..MaxJobs /\ j \in 0..MaxJobs /\ j \in Nat
  BY <1>1, NewestJob, TailAssumption DEF Job, NoJob
<1>3. \A i \in Job : phase'[i] # "none" <=> i <= j
  <2> SUFFICES ASSUME NEW i \in Job PROVE phase'[i] # "none" <=> i <= j
    OBVIOUS
  <2>1. i \in Nat /\ (i <= j <=> i <= Newest \/ i = j)
    BY <1>1, <1>2 DEF Job
  <2>2. QED
    BY <1>1, <2>1, NewestJob DEF ServerTypes
<1>4. phase' \in [Job -> {"none", "work", "verdict", "save", "pop", "over"}]
  BY <1>1 DEF ServerTypes
<1>5. \A i \in Job : phase'[i] \in {"none", "work", "verdict"} => written[i] < MaxLines
  BY <1>1 DEF ServerTypes
<1>6. QED
  BY <1>2, <1>3, <1>4, <1>5 DEF ServerTypes

\* A job's thread goes on.
LEMMA RunTypes ==
    ASSUME ServerTypes, NEW j \in Job, JobRuns(j)
    PROVE  ServerTypes' /\ \A i \in Job : written[i] <= written'[i]
<1> DEFINE Phase == {"none", "work", "verdict", "save", "pop", "over"}
<1>1. /\ MaxLines \in Nat /\ written \in [Job -> 0..MaxLines] /\ phase \in [Job -> Phase]
      /\ phase[j] \in {"work", "verdict"} => written[j] < MaxLines
  BY TailAssumption DEF ServerTypes
<1>2. /\ written' = written \/ written' = [written EXCEPT ![j] = written[j] + 1]
      /\ phase' = phase \/ \E p \in Phase \ {"none"} : phase' = [phase EXCEPT ![j] = p]
      /\ phase[j] # "none"
      /\ written' # written => phase[j] \in {"work", "verdict"}
      /\ phase'[j] \in {"none", "work", "verdict"} => written'[j] < MaxLines
  <2>1. CASE phase[j] = "work" /\ written[j] < MaxLines - 1 /\ Appends(j) /\ UNCHANGED phase
    BY <1>1, <2>1 DEF Appends
  <2>2. CASE Step(j, "work", "verdict") /\ UNCHANGED written
    BY <1>1, <2>2 DEF Step
  <2>3. CASE Step(j, "verdict", "save") /\ Appends(j)
    BY <1>1, <2>3 DEF Step, Appends
  <2>4. CASE (Step(j, "save", "pop") \/ Step(j, "pop", "over")) /\ UNCHANGED written
    BY <1>1, <2>4 DEF Step
  <2>5. QED
    BY <2>1, <2>2, <2>3, <2>4 DEF JobRuns
<1>3. phase' \in [Job -> Phase]
  BY <1>1, <1>2
<1>4. written' \in [Job -> 0..MaxLines] /\ \A i \in Job : written[i] <= written'[i]
  BY <1>1, <1>2
<1>5. \A i \in Job : phase'[i] # "none" <=> phase[i] # "none"
  BY <1>1, <1>2
<1>6. \A i \in Job : phase'[i] \in {"none", "work", "verdict"} => written'[i] < MaxLines
  BY <1>1, <1>2 DEF ServerTypes
<1> HIDE DEF Phase
<1>7. QED
  BY <1>3, <1>4, <1>5, <1>6 DEF ServerTypes, Phase

\* The server's steps; no other touches its state.
LEMMA ServerStep ==
    ASSUME ServerTypes, [Next]_vars
    PROVE  ServerTypes' /\ \A i \in Job : written[i] <= written'[i]
<1>1. ASSUME UNCHANGED serverVars
      PROVE  ServerTypes' /\ \A i \in Job : written[i] <= written'[i]
  <2>1. written' = written /\ phase' = phase
    BY <1>1 DEF serverVars
  <2>2. \A i \in Job : written[i] \in Nat
    BY DEF ServerTypes
  <2>3. QED
    BY <2>1, <2>2 DEF ServerTypes
<1>2. ASSUME NEW j \in Job, Starts(j), UNCHANGED written
      PROVE  ServerTypes' /\ \A i \in Job : written[i] <= written'[i]
  <2>1. \A i \in Job : written[i] \in Nat
    BY DEF ServerTypes
  <2>2. QED
    BY <1>2, <2>1, StartTypes
<1>3. ASSUME NEW j \in Job, JobStep(j)
      PROVE  ServerTypes' /\ \A i \in Job : written[i] <= written'[i]
  BY <1>3, RunTypes DEF JobStep
<1>4. CASE AnswerFlip
  BY <1>1, <1>2, <1>4 DEF AnswerFlip, serverVars
<1>5. ASSUME NEW j \in Job, StartElsewhere(j)
      PROVE  ServerTypes' /\ \A i \in Job : written[i] <= written'[i]
  BY <1>2, <1>5 DEF StartElsewhere
<1>6. CASE \E a : AnswerList(a) \/ AnswerDetail(a) \/ HandleList(a) \/ HandleDetail(a)
  BY <1>1, <1>6 DEF AnswerList, AnswerDetail, HandleList, HandleDetail
<1>7. CASE AskList \/ HandleFlip \/ \E j \in Job : Tick(j) \/ AnswerPoll(j) \/ AnswerOnce(j)
  BY <1>1, <1>7 DEF AskList, HandleFlip, Tick, AnswerPoll, AnswerOnce, Browse
<1>8. CASE \/ Leave \/ Return \/ ToggleExpand \/ RetryDetail \/ PostFlip
           \/ \E j \in Job : SelectRun(j)
  BY <1>1, <1>8 DEF Leave, Return, ToggleExpand, RetryDetail, PostFlip, SelectRun, Click, Browse
<1>9. CASE Lose
  BY <1>1, <1>9 DEF Lose, LoseList, LoseDetail, LosePoll, LoseOnce, LoseFlip
<1>10. CASE UNCHANGED vars
  BY <1>1, <1>10 DEF vars
<1>11. QED
  BY <1>3, <1>4, <1>5, <1>6, <1>7, <1>8, <1>9, <1>10 DEF Next, ListLoop, TailLoop, OneTime, Operate

\* What is idle, sent, and answered.
LEMMA CallsAre ==
    /\ NoCall \in ToldCall /\ Sent \in ToldCall /\ NoItem \in Item
    /\ \A item \in Told : [stage |-> "answered", item |-> item] \in ToldCall
    /\ Page \notin Job /\ Switch \notin Job /\ NoJob \notin Job
<1>1. NoItem \in Told /\ NoItem \in Item
  BY DEF NoItem, Told, Item
<1>2. NoCall \in ToldCall
  BY <1>1 DEF NoCall, ToldCall
<1>3. Sent \in ToldCall
  BY <1>2 DEF Sent, ToldCall
<1>4. QED
  BY <1>1, <1>2, <1>3, TailAssumption DEF ToldCall, Page, Switch, NoJob, Job

\* The lists and the details that are asked for, answered, and handled.
LEMMA CallStep == ASSUME CallTypes, ServerTypes, [Next]_vars PROVE CallTypes'
<1>1. SUFFICES /\ lists' = lists \/ \E a : \E c \in ToldCall : lists' = [lists EXCEPT ![a] = c]
               /\ details' = details
                  \/ \E a : \E c \in ToldCall : details' = [details EXCEPT ![a] = c]
               /\ flip' = flip
                  \/ flip' \in [stage : {"idle", "sent", "answered"}, job : {NoJob} \cup Job]
  BY DEF CallTypes
<1>2. [stage |-> "answered", item |-> Summary] \in ToldCall
  BY SummaryTold, CallsAre
<1>3. CASE UNCHANGED <<lists, details, flip>>
  BY <1>3
<1>4. CASE \E a : AnswerList(a) \/ AnswerDetail(a)
  BY <1>2, <1>4 DEF AnswerList, AnswerDetail
<1>5. CASE \E a : HandleList(a) \/ HandleDetail(a)
  BY <1>5, CallsAre DEF HandleList, HandleDetail, AfterList
<1>6. CASE \/ AskList \/ Leave \/ Return \/ ToggleExpand \/ RetryDetail \/ PostFlip
           \/ \E j \in Job : SelectRun(j) \/ StartElsewhere(j) \/ JobStep(j) \/ Tick(j)
  <2>1. CASE AskList \/ Return
    BY <2>1, CallsAre DEF AskList, Return
  <2>2. CASE ToggleExpand \/ RetryDetail
    BY <2>2, CallsAre DEF ToggleExpand, RetryDetail
  <2>3. CASE PostFlip
    BY <2>3 DEF PostFlip
  <2>4. CASE Leave \/ \E j \in Job : SelectRun(j) \/ StartElsewhere(j) \/ JobStep(j) \/ Tick(j)
    BY <1>3, <2>4 DEF Leave, SelectRun, StartElsewhere, JobStep, Tick, callVars
  <2>5. QED
    BY <1>6, <2>1, <2>2, <2>3, <2>4
<1>7. CASE AnswerFlip
  BY <1>7 DEF AnswerFlip
<1>8. CASE HandleFlip
  BY <1>8, CallsAre DEF HandleFlip
<1>9. CASE \E j \in Job : AnswerPoll(j) \/ AnswerOnce(j)
  BY <1>9, CallsAre DEF AnswerPoll, AnswerOnce, HandlePoll
<1>10. CASE Lose
  <2>1. ASSUME NEW a, NEW expired \in BOOLEAN, LoseList(a, expired)
        PROVE  /\ lists' = [lists EXCEPT ![a] = NoCall] /\ flip' = flip
               /\ details' = details \/ details' = [details EXCEPT ![a] = Sent]
    BY <2>1 DEF LoseList, AfterList
  <2>2. ASSUME NEW a, NEW expired \in BOOLEAN, LoseDetail(a, expired)
        PROVE  details' = [details EXCEPT ![a] = NoCall] /\ UNCHANGED <<lists, flip>>
    BY <2>2 DEF LoseDetail
  <2>3. ASSUME NEW j \in Job, NEW expired \in BOOLEAN,
               LosePoll(j, expired) \/ LoseOnce(j, expired)
        PROVE  UNCHANGED <<lists, details, flip>>
    BY <2>3 DEF LosePoll, LoseOnce, callVars
  <2>4. ASSUME NEW expired \in BOOLEAN, LoseFlip(expired)
        PROVE  /\ lists' = lists \/ lists' = [lists EXCEPT ![Switch] = Sent]
               /\ flip' = [stage |-> "idle", job |-> NoJob] /\ details' = details
    BY <2>4 DEF LoseFlip
  <2>5. QED
    BY <1>10, <2>1, <2>2, <2>3, <2>4, CallsAre DEF Lose
<1>11. CASE UNCHANGED vars
  BY <1>3, <1>11 DEF vars, callVars
<1>12. QED
  BY <1>4, <1>5, <1>6, <1>7, <1>8, <1>9, <1>10, <1>11 DEF Next, ListLoop, TailLoop, OneTime, Operate
\* The page and the histories.
LEMMA PageStep == ASSUME PageTypes, CallTypes, [Next]_vars PROVE PageTypes'
<1> DEFINE Detail == [have : BOOLEAN, job : {NoJob} \cup Job,
                      state : {"absent", "loading", "ok", "err"}]
           DetailIs(d) == d = detail \/ \E x \in {"loading", "err"} : d = [detail EXCEPT !.state = x]
<1>1. \A d : DetailIs(d) => d \in Detail
  BY DEF PageTypes
<1>2. ASSUME moves' = moves \/ Moves PROVE moves' \in 0..MaxMoves
  BY <1>2, TailAssumption DEF PageTypes, Moves
<1>3. ASSUME UNCHANGED <<here, expanded, list, moves, mixed, strayed>>, DetailIs(detail')
      PROVE  PageTypes'
  BY <1>1, <1>3 DEF PageTypes
<1>4. CASE \/ AskList \/ PostFlip \/ RetryDetail
           \/ \E a : AnswerList(a) \/ AnswerDetail(a)
           \/ \E j \in Job : JobStep(j) \/ StartElsewhere(j) \/ Tick(j) \/ AnswerPoll(j)
           \/ AnswerFlip \/ UNCHANGED vars
  <2>1. UNCHANGED <<here, expanded, list, moves, mixed, strayed>>
    BY <1>4 DEF AskList, PostFlip, RetryDetail, AnswerList, AnswerDetail, JobStep,
                StartElsewhere, Tick, AnswerPoll, AnswerFlip, Unserved, Browse, vars
  <2>2. DetailIs(detail')
    BY <1>4 DEF AskList, PostFlip, RetryDetail, AnswerList, AnswerDetail, JobStep,
                StartElsewhere, Tick, AnswerPoll, AnswerFlip, Unserved, vars
  <2>3. QED
    BY <1>3, <2>1, <2>2
<1>5. ASSUME NEW a \in {Page, Switch} \cup Job, HandleList(a) PROVE PageTypes'
  <2>1. /\ list' = lists[a].item /\ UNCHANGED <<here, expanded, moves, mixed, strayed>>
        /\ DetailIs(detail')
    BY <1>5 DEF HandleList, AfterList
  <2>2. lists[a].item \in Item
    BY DEF CallTypes, ToldCall, Told
  <2>3. QED
    BY <1>1, <2>1, <2>2 DEF PageTypes
<1>6. ASSUME NEW a \in {Page} \cup Job, HandleDetail(a) PROVE PageTypes'
  <2>1. /\ detail' = [have |-> TRUE, job |-> details[a].item.job, state |-> "ok"]
        /\ UNCHANGED <<here, expanded, list, moves, mixed, strayed>>
    BY <1>6 DEF HandleDetail
  <2>2. details[a].item.job \in {NoJob} \cup Job
    BY DEF CallTypes, ToldCall, Told, Item
  <2>3. QED
    BY <2>1, <2>2 DEF PageTypes
<1>7. CASE HandleFlip
  <2>1. /\ list' = list \/ list' = [list EXCEPT !.turning = TRUE]
        /\ expanded' = expanded \/ expanded' = TRUE
        /\ UNCHANGED <<here, detail, moves, mixed, strayed>>
    BY <1>7 DEF HandleFlip
  <2>2. list' \in Item
    BY <2>1 DEF PageTypes, Item
  <2>3. QED
    BY <2>1, <2>2 DEF PageTypes
<1>8. ASSUME NEW j \in Job, AnswerOnce(j) PROVE PageTypes'
  <2>1. /\ UNCHANGED <<here, expanded, list, detail, moves, strayed>>
        /\ mixed' = mixed \/ mixed' = [mixed EXCEPT ![j] = @ \/ tail.poll[j].stage = "fetch"]
    BY <1>8 DEF AnswerOnce, HandleOnce
  <2>2. mixed' \in [Job -> BOOLEAN]
    BY <2>1 DEF PageTypes
  <2>3. QED
    BY <2>1, <2>2 DEF PageTypes
<1>9. CASE Leave \/ Return
  <2>1. /\ here' \in BOOLEAN /\ UNCHANGED <<expanded, list, detail, mixed, strayed>>
        /\ moves' = moves \/ Moves
    BY <1>9 DEF Leave, Return, Click, Browse
  <2>2. QED
    BY <1>2, <2>1 DEF PageTypes
<1>10. CASE ToggleExpand
  <2>1. /\ expanded' = ~expanded /\ UNCHANGED <<here, list, mixed, strayed>> /\ Moves
        /\ DetailIs(detail')
    BY <1>10 DEF ToggleExpand, Click, Browse
  <2>2. QED
    BY <1>1, <1>2, <2>1 DEF PageTypes
<1>11. ASSUME NEW j \in Job, SelectRun(j) PROVE PageTypes'
  <2>1. /\ UNCHANGED <<here, expanded, list, detail, mixed>> /\ Moves
        /\ strayed' = [i \in Job |-> strayed[i] \/ (i # j /\ tail.handle[i])]
    BY <1>11 DEF SelectRun, Click, Browse
  <2>2. strayed' \in [Job -> BOOLEAN]
    BY <2>1
  <2>3. QED
    BY <1>2, <2>1, <2>2 DEF PageTypes
<1>12. CASE Lose
  <2>1. PICK expired \in BOOLEAN :
              \/ \E a \in DOMAIN lists : LoseList(a, expired)
              \/ \E a \in DOMAIN details : LoseDetail(a, expired)
              \/ \E j \in Job : LosePoll(j, expired) \/ LoseOnce(j, expired)
              \/ LoseFlip(expired)
    BY <1>12 DEF Lose
  <2>2. Fails(expired) /\ UNCHANGED <<expanded, list>>
    BY <2>1 DEF LoseList, LoseDetail, LosePoll, LoseOnce, LoseFlip
  <2>3. DetailIs(detail')
    BY <2>1 DEF LoseList, LoseDetail, LosePoll, LoseOnce, LoseFlip, AfterList
  <2>4. Moves /\ here' \in BOOLEAN /\ UNCHANGED <<mixed, strayed>>
    BY <2>2 DEF Fails
  <2>5. QED
    BY <1>1, <1>2, <2>2, <2>3, <2>4 DEF PageTypes
<1>13. QED
  BY <1>4, <1>5, <1>6, <1>7, <1>8, <1>9, <1>10, <1>11, <1>12
     DEF Next, ListLoop, TailLoop, OneTime, Operate

-----------------------------------------------------------------------------
(* The tail keeps its type.                                                *)

\* One of the two answers of a fetch.
LEMMA AnsweredTypes ==
    ASSUME NEW j \in Job, NEW p \in Fetch, NEW f \in Answered(j, p),
           written[j] \in 0..MaxLines, p.since <= written[j], Piece(p, written[j])
    PROVE  f \in Fetch /\ f.stage = p.stage /\ f.since = p.since /\ Piece(f, written[j])
<1> DEFINE log == ReadLog(j, p.since)
           n == written[j] - p.since
<1>1. /\ MaxLines \in Nat /\ p.since \in Nat /\ written[j] \in Nat /\ written[j] <= MaxLines
      /\ n \in Nat /\ n <= MaxLines
  BY TailAssumption DEF Fetch
<1>2. log \in Seq(1..MaxLines) /\ Len(log) = n
  <2>1. log = [i \in 1..n |-> p.since + i]
    BY DEF ReadLog
  <2>2. \A i \in 1..n : p.since + i \in 1..MaxLines
    BY <1>1
  <2> HIDE DEF n
  <2>3. log \in [1..n -> 1..MaxLines]
    BY <2>1, <2>2
  <2> HIDE DEF log
  <2>4. log \in Seq(1..MaxLines)
    BY <1>1, <2>3, SeqDef
  <2>5. QED
    BY <1>1, <2>3, <2>4, LenProperties
<1>3. log \in Lines
  BY <1>1, <1>2, LinesAre
<1> HIDE DEF log, n
<1>4. ServedRecord(j) \in Rec
  BY DEF ServedRecord, Rec
<1>5. CASE f = [p EXCEPT !.rec = ServedRecord(j)]
  BY <1>4, <1>5 DEF Fetch, Piece
<1>6. CASE f = [p EXCEPT !.got = TRUE, !.lines = log, !.next = written[j]]
  <2>1. f \in Fetch /\ f.stage = p.stage /\ f.since = p.since
    BY <1>3, <1>6 DEF Fetch
  <2>2. f.next = written[j] /\ f.lines = log
    BY <1>6 DEF Fetch
  <2>3. QED
    BY <1>1, <1>2, <2>1, <2>2 DEF Piece, n
<1>7. QED
  BY <1>5, <1>6 DEF Answered, log

\* pollJob(), with one answer or both.
LEMMA PollTypes ==
    ASSUME TypeInv, NEW j \in Job, AnswerPoll(j)
    PROVE  Typed(tail', written)
<1>1. PICK f \in Answered(j, tail.poll[j]) :
              IF f.rec # "none" /\ f.got
              THEN HandlePoll(j, f)
              ELSE tail' = [tail EXCEPT !.poll[j] = f]
  BY DEF AnswerPoll
<1> DEFINE p == tail.poll[j]
           o == tail.entry[j]
           e == [o EXCEPT !.rec = f.rec, !.lines = @ \o f.lines, !.next = f.next]
           t == [tail EXCEPT !.entry[j] = e]
<1>2. /\ p \in Fetch /\ p.stage = "fetch" /\ o \in Entry /\ Room(o, p, written[j])
      /\ written[j] \in 0..MaxLines
  BY DEF TypeInv, Typed, AnswerPoll, ServerTypes
<1>3. /\ f \in Fetch /\ f.stage = "fetch" /\ f.since = p.since /\ Piece(f, written[j])
  BY <1>2, AnsweredTypes DEF Room
<1>4. Room(o, f, written[j])
  BY <1>2, <1>3 DEF Room
<1>5. CASE ~(f.rec # "none" /\ f.got)
  BY <1>1, <1>3, <1>4, <1>5, TypedPoll DEF TypeInv
<1>6. CASE f.rec # "none" /\ f.got
  <2>1. /\ o.lines \in Seq(1..MaxLines) /\ f.lines \in Seq(1..MaxLines)
        /\ f.next \in 0..MaxLines /\ f.since \in 0..MaxLines /\ o.next \in 0..MaxLines
        /\ f.rec \in Rec
    BY <1>2, <1>3, LinesAre DEF Entry, Fetch
  <2>2. /\ o.lines \o f.lines \in Seq(1..MaxLines)
        /\ Len(o.lines \o f.lines) = Len(o.lines) + Len(f.lines)
        /\ Len(o.lines) \in Nat
    BY <2>1, ConcatProperties, LenProperties
  <2>3. /\ Len(f.lines) = f.next - f.since /\ f.next <= written[j] /\ f.since <= f.next
        /\ Len(o.lines) <= MaxLines + o.next
        /\ f.since = o.next \/ Len(o.lines) <= MaxLines
    BY <1>3, <1>4, <1>6 DEF Room, Piece
  <2>4. /\ Len(o.lines \o f.lines) <= MaxLines + f.next
        /\ Len(o.lines \o f.lines) <= 2 * MaxLines
    <3>1. \A had, from, to, next, M \in Nat :
             (from <= to /\ to <= M /\ had <= M + next /\ (from = next \/ had <= M))
             => (had + (to - from) <= M + to /\ had + (to - from) <= 2 * M)
      OBVIOUS
    <3>2. /\ Len(o.lines) \in Nat /\ f.since \in Nat /\ f.next \in Nat /\ o.next \in Nat
          /\ MaxLines \in Nat /\ f.next <= MaxLines
      BY <2>1, <2>2, TailAssumption
    <3>3. Len(o.lines \o f.lines) = Len(o.lines) + (f.next - f.since)
      BY <2>2, <2>3
    <3> HIDE DEF o
    <3>4. QED
      BY <2>3, <3>1, <3>2, <3>3
  <2>5. o.lines \o f.lines \in Lines
    BY <2>2, <2>4, LinesAre
  <2>6. e \in Entry /\ e.lines = o.lines \o f.lines /\ e.next = f.next
    BY <1>2, <2>1, <2>5 DEF Entry
  <2> HIDE DEF e
  <2>7. Room(e, NoFetch, written[j])
    BY <2>3, <2>4, <2>6, FetchTypes DEF Room
  <2>8. Typed([t EXCEPT !.poll[j] = NoFetch], written)
    <3> DEFINE s == [tail EXCEPT !.poll[j] = NoFetch]
    <3>1. Typed(s, written)
      BY TypedEnd DEF TypeInv
    <3>2. s.poll[j] = NoFetch
      BY DEF TypeInv, Typed, TailFields
    <3>3. Typed([s EXCEPT !.entry[j] = e], written)
      <4> HIDE DEF s
      <4>1. QED
        BY <2>6, <2>7, <3>1, <3>2, TypedEntry
    <3>4. [s EXCEPT !.entry[j] = e] = [t EXCEPT !.poll[j] = NoFetch]
      BY DEF TypeInv, Typed, TailFields
    <3>5. QED
      BY <3>3, <3>4
  <2>9. Typed(EndPoll(t, j), written)
    <3> DEFINE s == [tail EXCEPT !.poll[j].stage = "list"]
               u == [s EXCEPT !.entry[j] = e]
    <3>1. Typed(s, written)
      BY TypedEnd DEF TypeInv
    <3>2. s.poll[j].stage = "list"
      BY <1>2 DEF TypeInv, Typed, TailFields, Fetch
    <3>3. Room(e, s.poll[j], written[j])
      BY <2>3, <2>4, <2>6, <3>2 DEF Room
    <3>4. Typed(u, written)
      <4> HIDE DEF s
      <4>1. QED
        BY <2>6, <3>1, <3>3, TypedEntry
    <3>5. Typed(ClearTimer(u, j), written)
      <4> HIDE DEF u
      <4>1. QED
        BY <3>4, TypedTimers
    <3>6. ClearTimer(u, j) = EndPoll(t, j)
      BY DEF TypeInv, Typed, TailFields, ClearTimer, EndPoll
    <3>7. QED
      BY <3>5, <3>6
  <2>10. QED
    BY <1>1, <1>6, <2>8, <2>9 DEF HandlePoll, e
<1>7. QED
  BY <1>5, <1>6

\* loadJobOnce(), with one answer or both.
LEMMA OnceAnswers ==
    ASSUME TypeInv, NEW j \in Job, AnswerOnce(j)
    PROVE  Typed(tail', written) /\ OnceTypes(onces', written)
<1>1. PICK f \in Answered(j, onces[j]) :
              IF f.rec # "none" /\ f.got
              THEN HandleOnce(j, f)
              ELSE onces' = [onces EXCEPT ![j] = f] /\ UNCHANGED tail
  BY DEF AnswerOnce
<1> DEFINE e == [rec |-> f.rec, lines |-> f.lines, next |-> f.next]
           t == [tail EXCEPT !.entry[j] = e]
<1>2. /\ onces[j] \in Fetch /\ onces[j].stage = "fetch" /\ onces[j].since = 0
      /\ Piece(onces[j], written[j]) /\ written[j] \in 0..MaxLines
  BY DEF TypeInv, OnceTypes, AnswerOnce, ServerTypes
<1>3. 0 <= written[j]
  BY <1>2, TailAssumption
<1>4. f \in Fetch /\ f.stage = "fetch" /\ f.since = 0 /\ Piece(f, written[j])
  BY <1>2, <1>3, AnsweredTypes
<1>5. OnceTypes([onces EXCEPT ![j] = f], written)
  BY <1>4 DEF TypeInv, OnceTypes
<1>6. OnceTypes([onces EXCEPT ![j] = NoFetch], written)
  BY FetchTypes DEF TypeInv, OnceTypes
<1>7. CASE f.rec # "none" /\ f.got
  <2>1. f.next \in 0..MaxLines /\ f.next <= written[j] /\ Len(f.lines) = f.next
    BY <1>4, <1>7, TailAssumption DEF Piece, Fetch
  <2>2. e \in Entry /\ e.lines = f.lines /\ e.next = f.next
    BY <1>4 DEF Entry, Fetch
  <2>3. Room(tail.entry[j], tail.poll[j], written[j])
    BY DEF TypeInv, Typed
  <2> HIDE DEF e
  <2>4. Len(e.lines) <= MaxLines /\ Len(e.lines) <= MaxLines + e.next
    BY <1>2, <2>1, <2>2, TailAssumption
  <2>5. Room(e, tail.poll[j], written[j])
    BY <2>1, <2>2, <2>3, <2>4 DEF Room
  <2>6. Typed(t, written)
    BY <2>2, <2>5, TypedEntry DEF TypeInv
  <2>7. Typed(TrackJob(t, j), written)
    <3> HIDE DEF t
    <3>1. QED
      BY <2>6, TypedTrack
  <2>8. QED
    BY <1>1, <1>6, <1>7, <2>6, <2>7 DEF HandleOnce, e
<1>8. CASE ~(f.rec # "none" /\ f.got)
  BY <1>1, <1>5, <1>8 DEF TypeInv
<1>9. QED
  BY <1>7, <1>8
\* The lists and the details.
LEMMA HandleTypes ==
    ASSUME TypeInv, \/ \E a \in {Page, Switch} \cup Job : HandleList(a)
                    \/ \E a \in {Page} \cup Job : HandleDetail(a)
    PROVE  Typed(tail', written) /\ OnceTypes(onces', written)
<1>1. ASSUME NEW a \in {Page, Switch} \cup Job, HandleList(a)
      PROVE  Typed(tail', written) /\ OnceTypes(onces', written)
  <2> DEFINE t == PickUp(tail, lists[a].item)
  <2>1. lists[a].item \in Told
    BY DEF TypeInv, CallTypes, ToldCall
  <2>2. Typed(t, written)
    BY <2>1, TypedPickUp DEF TypeInv
  <2>3. tail' = t \/ (a \in Job /\ tail' = [t EXCEPT !.poll[a].stage = "detail"])
    BY <1>1 DEF HandleList, AfterList
  <2>4. onces' = onces
    BY <1>1 DEF HandleList
  <2> HIDE DEF t
  <2>5. \A j \in Job : Typed([t EXCEPT !.poll[j].stage = "detail"], written)
    BY <2>2, TypedEnd
  <2>6. QED
    BY <2>2, <2>3, <2>4, <2>5 DEF TypeInv
<1>2. ASSUME NEW a \in {Page} \cup Job, HandleDetail(a)
      PROVE  Typed(tail', written) /\ OnceTypes(onces', written)
  <2> DEFINE item == details[a].item
             once == ~item.running /\ tail.jobFor = NoJob /\ item.job # NoJob
             t    == IF item.running THEN TrackJob(tail, item.job)
                     ELSE IF once THEN [tail EXCEPT !.jobFor = item.job] ELSE tail
  <2>1. /\ item.running => item.job \in Job
        /\ once => item.job \in Job
    BY DEF TypeInv, CallTypes, ToldCall, Told, Item
  <2>2. Typed(t, written)
    BY <2>1, TypedTrack, TypedTimers DEF TypeInv
  <2>3. tail' = t \/ (a \in Job /\ tail' = [t EXCEPT !.poll[a] = NoFetch])
    BY <1>2 DEF HandleDetail, AfterDetail
  <2>4. onces' = onces \/ (item.job \in Job /\ onces' = [onces EXCEPT ![item.job] = Fetching(0)])
    BY <1>2, <2>1 DEF HandleDetail
  <2>5. \A j \in Job : OnceTypes([onces EXCEPT ![j] = Fetching(0)], written)
    BY FetchTypes, TailAssumption DEF TypeInv, OnceTypes, Piece
  <2> HIDE DEF t
  <2>6. Typed(tail', written)
    <3>1. \A j \in Job : Typed([t EXCEPT !.poll[j] = NoFetch], written)
      BY <2>2, TypedEnd
    <3>2. QED
      BY <2>2, <2>3, <3>1
  <2>7. QED
    BY <2>4, <2>5, <2>6 DEF TypeInv
<1>3. QED
  BY <1>1, <1>2

\* The failures.
LEMMA LoseTypes ==
    ASSUME TypeInv, Lose
    PROVE  Typed(tail', written) /\ OnceTypes(onces', written)
<1>1. PICK expired \in BOOLEAN :
            \/ \E a \in DOMAIN lists : LoseList(a, expired)
            \/ \E a \in DOMAIN details : LoseDetail(a, expired)
            \/ \E j \in Job : LosePoll(j, expired) \/ LoseOnce(j, expired)
            \/ LoseFlip(expired)
  BY DEF Lose
<1> DEFINE t == OrStopped(expired, tail)
<1>2. Typed(t, written)
  BY TypedTimers DEF TypeInv, OrStopped
<1>3. \/ tail' = t
      \/ \E j \in Job : tail' = [t EXCEPT !.poll[j].stage = "detail"]
                        \/ tail' = [t EXCEPT !.poll[j] = NoFetch]
  BY <1>1 DEF LoseList, LoseDetail, LosePoll, LoseOnce, LoseFlip, AfterList, AfterDetail
<1>4. Typed(tail', written)
  <2> HIDE DEF t
  <2>1. \A j \in Job : /\ Typed([t EXCEPT !.poll[j].stage = "detail"], written)
                       /\ Typed([t EXCEPT !.poll[j] = NoFetch], written)
    BY <1>2, TypedEnd
  <2>2. QED
    BY <1>2, <1>3, <2>1
<1>5. onces' = onces \/ \E j \in Job : onces' = [onces EXCEPT ![j] = NoFetch]
  BY <1>1 DEF LoseList, LoseDetail, LosePoll, LoseOnce, LoseFlip, callVars
<1>6. QED
  BY <1>4, <1>5, FetchTypes DEF TypeInv, OnceTypes

\* The tail and the previous-run loads after a step of the page.
LEMMA TailStep ==
    ASSUME TypeInv, [Next]_vars
    PROVE  Typed(tail', written) /\ OnceTypes(onces', written)
<1>1. CASE UNCHANGED <<tail, onces>>
  BY <1>1 DEF TypeInv
<1>2. CASE AskList \/ AnswerFlip \/ \E a : AnswerList(a) \/ AnswerDetail(a)
  BY <1>1, <1>2 DEF AskList, AnswerFlip, AnswerList, AnswerDetail, Unserved
<1>3. CASE \E j \in Job : JobStep(j) \/ StartElsewhere(j)
  BY <1>1, <1>3 DEF JobStep, StartElsewhere, Unserved, callVars
<1>4. CASE Return \/ ToggleExpand \/ RetryDetail \/ PostFlip \/ UNCHANGED vars
  BY <1>1, <1>4 DEF Return, ToggleExpand, RetryDetail, PostFlip, vars, callVars
<1>5. CASE Leave
  <2>1. NoJob \in {NoJob} \cup Job
    OBVIOUS
  <2>2. Typed(StopJobTimers(tail), written)
    BY <2>1, TypedTimers DEF TypeInv
  <2>3. QED
    BY <1>5, <2>2 DEF Leave, callVars, TypeInv
<1>6. ASSUME NEW j \in Job, SelectRun(j)
      PROVE  Typed(tail', written) /\ OnceTypes(onces', written)
  <2>1. Typed([tail EXCEPT !.jobFor = j], written)
    BY TypedTimers DEF TypeInv
  <2>2. OnceTypes([onces EXCEPT ![j] = Fetching(0)], written)
    BY FetchTypes, TailAssumption DEF TypeInv, OnceTypes, Piece
  <2>3. QED
    BY <1>6, <2>1, <2>2 DEF SelectRun
<1>7. ASSUME NEW j \in Job, Tick(j)
      PROVE  Typed(tail', written) /\ OnceTypes(onces', written)
  BY <1>7, TypedStart DEF Tick, callVars, TypeInv
<1>8. ASSUME NEW j \in Job, AnswerPoll(j)
      PROVE  Typed(tail', written) /\ OnceTypes(onces', written)
  BY <1>8, PollTypes DEF AnswerPoll, TypeInv
<1>9. CASE HandleFlip
  <2>1. tail' = tail \/ (flip.job \in Job /\ tail' = TrackJob(tail, flip.job))
    BY <1>9 DEF HandleFlip, TypeInv, CallTypes
  <2>2. QED
    BY <1>9, <2>1, TypedTrack DEF HandleFlip, TypeInv
<1>10. QED
  BY <1>2, <1>3, <1>4, <1>5, <1>6, <1>7, <1>8, <1>9, OnceAnswers, HandleTypes, LoseTypes
     DEF Next, ListLoop, TailLoop, OneTime, Operate

\* The types hold at first.
LEMMA TypeInvInit == Init => TypeInv
<1> SUFFICES ASSUME Init PROVE TypeInv
  OBVIOUS
<1>1. /\ MaxLines \in Nat \ {0} /\ MaxMoves \in Nat /\ 0 < MaxLines
      /\ PastJobs \in 0..MaxJobs
  BY TailAssumption
<1>2. ServerTypes
  <2>1. phase \in [Job -> {"none", "work", "verdict", "save", "pop", "over"}]
    BY DEF Init
  <2>2. written \in [Job -> 0..MaxLines]
    BY <1>1 DEF Init
  <2>3. \A j \in Job : phase[j] # "none" <=> j <= PastJobs
    BY DEF Init
  <2>4. \A j \in Job : phase[j] \in {"none", "work", "verdict"} => written[j] < MaxLines
    BY <1>1 DEF Init
  <2>5. QED
    BY <1>1, <2>1, <2>2, <2>3, <2>4 DEF ServerTypes
<1>3. CallTypes
  <2>1. flip \in [stage : {"idle", "sent", "answered"}, job : {NoJob} \cup Job]
    BY DEF Init
  <2>2. QED
    BY <2>1, CallsAre DEF Init, CallTypes
<1>4. PageTypes
  <2>1. detail \in [have : BOOLEAN, job : {NoJob} \cup Job,
                    state : {"absent", "loading", "ok", "err"}]
    BY DEF Init
  <2>2. 0 \in 0..MaxMoves
    BY <1>1
  <2>3. mixed \in [Job -> BOOLEAN] /\ strayed \in [Job -> BOOLEAN]
    BY DEF Init
  <2>4. QED
    BY <2>1, <2>2, <2>3, CallsAre DEF Init, PageTypes
<1>5. Typed(tail, written)
  <2>1. \A j \in Job : written[j] \in Nat
    BY <1>1 DEF Init
  <2>2. Len(NoEntry.lines) = 0
    BY DEF NoEntry
  <2>3. \A j \in Job : Room(NoEntry, NoFetch, written[j])
    BY <1>1, <2>1, <2>2, FetchTypes DEF Room
  <2>4. /\ tail = [x \in TailFields |-> tail[x]]
        /\ tail.jobFor = NoJob /\ tail.entry = [j \in Job |-> NoEntry]
        /\ tail.poll = [j \in Job |-> NoFetch]
    BY DEF Init, Tail0, TailFields
  <2>5. QED
    BY <2>3, <2>4, FetchTypes DEF Typed
<1>6. OnceTypes(onces, written)
  BY FetchTypes DEF Init, OnceTypes
<1>7. QED
  BY <1>2, <1>3, <1>4, <1>5, <1>6 DEF TypeInv

\* The server, the calls, the page and the tail have their types.
THEOREM TailTypes == Spec => []TypeOK
<1>1. TypeInv /\ [Next]_vars => TypeInv'
  <2> SUFFICES ASSUME TypeInv, [Next]_vars PROVE TypeInv'
    OBVIOUS
  <2>1. ServerTypes' /\ \A j \in Job : written[j] <= written'[j]
    BY ServerStep DEF TypeInv
  <2>2. CallTypes' /\ PageTypes'
    BY CallStep, PageStep DEF TypeInv
  <2>3. written \in [Job -> 0..MaxLines] /\ written' \in [Job -> 0..MaxLines]
    BY <2>1 DEF TypeInv, ServerTypes
  <2>4. Typed(tail', written') /\ OnceTypes(onces', written')
    BY <2>1, <2>3, TailStep, TypedGrows
  <2>5. QED
    BY <2>1, <2>2, <2>4 DEF TypeInv
<1>2. TypeInv /\ Steady(tail, strayed) => TypeOK
  <2> SUFFICES ASSUME TypeInv, Steady(tail, strayed) PROVE TypeOK
    OBVIOUS
  <2>1. lists \in [{Page, Switch} \cup Job -> Call] /\ details \in [{Page} \cup Job -> Call]
    <3>1. ToldCall \subseteq Call
      BY DEF ToldCall, Told, Call
    <3>2. QED
      BY <3>1 DEF TypeInv, CallTypes
  <2>2. tail \in [jobFor : {NoJob} \cup Job, entry : [Job -> Entry],
                  handle : [Job -> BOOLEAN], ticking : [Job -> 0..2],
                  poll : [Job -> Fetch]]
    BY DEF TypeInv, Typed, TailFields, Steady, Shaped
  <2>3. onces \in [Job -> Fetch]
    BY DEF TypeInv, OnceTypes
  <2>4. QED
    BY <2>1, <2>2, <2>3 DEF TypeInv, ServerTypes, CallTypes, PageTypes, TypeOK
<1>3. QED
  BY <1>1, <1>2, TypeInvInit, SteadyHolds, PTL DEF Spec
=============================================================================
