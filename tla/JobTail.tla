------------------------------- MODULE JobTail ------------------------------
(***************************************************************************)
(* One use case on the operator's Use cases page (app/static/app.js): the  *)
(* 15 s poll of the list, the detail, the tail of a job (one 1.5 s poll    *)
(* per job that fetches the record and the log in parallel), the one-time  *)
(* load of a previous run; against the jobs and the growing log of         *)
(* app/jobs.py.                                                            *)
(*                                                                         *)
(* A list or a detail is answered by the server in one step and handled in *)
(* a later one, so answers arrive in any order; of the record and the log, *)
(* which are awaited together, each is answered in a step of its own.  A   *)
(* network failure or an expired session (401) may take the place of an    *)
(* answer.  A line of the log is its number.                               *)
(*                                                                         *)
(* Bounds: one list request of the timer or the Refresh button, one of the *)
(* switch and one per finished tail are under way at a time; one detail    *)
(* request of the card, one per finished tail, one previous-run load per   *)
(* job.  Two live intervals of a job stand for any larger number.  The     *)
(* outlines and the drawing, asked for again at the end of a job, are in   *)
(* module FlipDialog.                                                      *)
(***************************************************************************)
EXTENDS Naturals, Sequences, FiniteSets

CONSTANTS PastJobs,   \* jobs that are over when the page is opened
          MaxJobs,    \* bound on the jobs, those included
          MaxLines,   \* bound on the lines a job writes
          MaxCalls,   \* bound on the requests under way when the page asks
          MaxMoves    \* bound on the operator's moves and the failed requests

ASSUME TailAssumption == /\ PastJobs \in Nat /\ MaxJobs \in Nat
                         /\ PastJobs <= MaxJobs /\ MaxLines \in Nat \ {0}
                         /\ MaxCalls \in Nat /\ MaxMoves \in Nat

Job == 1..MaxJobs
NoJob == 0

VARIABLES
    phase,      \* where the thread of each job is
    written,    \* lines in runs/<id>.log
    here,       \* state.route is "usecases" (and timers.usecases ticks)
    expanded,   \* state.expanded is this use case
    list,       \* its entry in state.usecases
    detail,     \* state.details[id]
    tail,       \* state.jobFor, state.jobs, timers.jobs, pollBusy
    lists,      \* the list requests, by who asked
    details,    \* the detail requests, by who asked
    onces,      \* the previous-run loads
    flip,       \* the POST of the switch
    moves,      \* the operator's moves and the failed requests so far
    mixed,      \* history: a previous-run load was handled during a poll
    strayed     \* history: another run was selected while the job was tailed

serverVars == <<phase, written>>
callVars == <<lists, details, onces, flip>>
vars == <<serverVars, here, expanded, list, detail, tail, callVars, moves, mixed, strayed>>

\* Who asked: the page itself, or (by its number) the tail of a job that
\* ended.  The list is asked for by the switch, too.
Page == 0
Switch == MaxJobs + 1

\* What a list or a detail says of the use case: its newest job, and the state.
Item == [known : BOOLEAN, turning : BOOLEAN, job : {NoJob} \cup Job, running : BOOLEAN]
NoItem == [known |-> FALSE, turning |-> FALSE, job |-> NoJob, running |-> FALSE]

Call == [stage : {"idle", "sent", "answered"}, item : Item]
NoCall == [stage |-> "idle", item |-> NoItem]
Sent == [NoCall EXCEPT !.stage = "sent"]

\* The record and the log, fetched in parallel by pollJob and loadJobOnce;
\* "list" and "detail" are what pollJob awaits once the job has ended.
Lines == UNION {[1..n -> 1..MaxLines] : n \in 0..(2 * MaxLines)}
Rec == {"none", "running", "final"}
Fetch == [stage : {"idle", "fetch", "list", "detail"}, rec : Rec, got : BOOLEAN,
          since : 0..MaxLines, lines : Lines, next : 0..MaxLines]
NoFetch == [stage |-> "idle", rec |-> "none", got |-> FALSE, since |-> 0,
            lines |-> <<>>, next |-> 0]
Fetching(n) == [NoFetch EXCEPT !.stage = "fetch", !.since = n]

Entry == [rec : Rec, lines : Lines, next : 0..MaxLines]
NoEntry == [rec |-> "none", lines |-> <<>>, next |-> 0]

Tail0 == [jobFor |-> NoJob, entry |-> [j \in Job |-> NoEntry],
          handle |-> [j \in Job |-> FALSE],  \* timers.jobs[j] is set
          ticking |-> [j \in Job |-> 0],     \* intervals that poll j
          poll |-> [j \in Job |-> NoFetch]]

TypeOK ==
    /\ phase \in [Job -> {"none", "work", "verdict", "save", "pop", "over"}]
    /\ written \in [Job -> 0..MaxLines]
    /\ here \in BOOLEAN /\ expanded \in BOOLEAN
    /\ list \in Item
    /\ detail \in [have : BOOLEAN, job : {NoJob} \cup Job,
                   state : {"absent", "loading", "ok", "err"}]
    /\ tail \in [jobFor : {NoJob} \cup Job, entry : [Job -> Entry],
                 handle : [Job -> BOOLEAN], ticking : [Job -> 0..2],
                 poll : [Job -> Fetch]]
    /\ lists \in [{Page, Switch} \cup Job -> Call]
    /\ details \in [{Page} \cup Job -> Call]
    /\ onces \in [Job -> Fetch]
    /\ flip \in [stage : {"idle", "sent", "answered"}, job : {NoJob} \cup Job]
    /\ moves \in 0..MaxMoves
    /\ mixed \in [Job -> BOOLEAN] /\ strayed \in [Job -> BOOLEAN]

\* boot() has shown the page and asked for the list.
Init ==
    /\ phase = [j \in Job |-> IF j <= PastJobs THEN "over" ELSE "none"]
    /\ written = [j \in Job |-> IF j <= PastJobs THEN MaxLines ELSE 0]
    /\ here = TRUE /\ expanded = FALSE
    /\ list = NoItem
    /\ detail = [have |-> FALSE, job |-> NoJob, state |-> "absent"]
    /\ tail = Tail0
    /\ lists = [a \in {Page, Switch} \cup Job |-> IF a = Page THEN Sent ELSE NoCall]
    /\ details = [a \in {Page} \cup Job |-> NoCall]
    /\ onces = [j \in Job |-> NoFetch]
    /\ flip = [stage |-> "idle", job |-> NoJob]
    /\ moves = 0
    /\ mixed = [j \in Job |-> FALSE] /\ strayed = [j \in Job |-> FALSE]

-----------------------------------------------------------------------------
(* The server: JobRunner.start() and _run().                               *)

Begun == {j \in Job : phase[j] # "none"}
Newest == IF Begun = {} THEN NoJob ELSE CHOOSE j \in Begun : \A i \in Begun : i <= j
InSlot == {j \in Begun : phase[j] # "over"}

Step(j, from, to) == phase[j] = from /\ phase' = [phase EXCEPT ![j] = to]

Starts(j) == /\ InSlot = {}
             /\ j = Newest + 1
             /\ Step(j, "none", "work")

Appends(j) == written' = [written EXCEPT ![j] = @ + 1]

\* The record in memory has its final state before the last line is written.
JobRuns(j) ==
    \/ /\ phase[j] = "work" /\ written[j] < MaxLines - 1
       /\ Appends(j)
       /\ UNCHANGED phase
    \/ Step(j, "work", "verdict") /\ UNCHANGED written
    \/ Step(j, "verdict", "save") /\ Appends(j)
    \/ Step(j, "save", "pop") /\ UNCHANGED written
    \/ Step(j, "pop", "over") /\ UNCHANGED written

\* JobRunner.get() serves the record in memory, then the one on disk.
ServedRecord(j) == IF phase[j] = "work" THEN "running" ELSE "final"

\* summary(): the slot, and the newest record on disk.
Summary ==
    [known |-> TRUE, turning |-> InSlot # {}, job |-> Newest,
     running |-> Newest # NoJob /\ phase[Newest] \in {"work", "verdict", "save"}]

\* read_log(), from the offset the request names.
ReadLog(j, since) == [i \in 1..(written[j] - since) |-> since + i]

\* One of the two parallel requests of f is answered.
Answered(j, f) ==
    (IF f.rec = "none" THEN {[f EXCEPT !.rec = ServedRecord(j)]} ELSE {})
    \cup
    (IF f.got THEN {}
     ELSE {[f EXCEPT !.got = TRUE, !.lines = ReadLog(j, f.since), !.next = written[j]]})

Unserved == UNCHANGED <<here, expanded, list, detail, tail, moves, mixed, strayed>>

\* Another tab or a script starts a job.
StartElsewhere(j) ==
    /\ Starts(j)
    /\ Unserved /\ UNCHANGED <<written, callVars>>

JobStep(j) == JobRuns(j) /\ Unserved /\ UNCHANGED <<callVars>>

AnswerList(a) ==
    /\ lists[a].stage = "sent"
    /\ lists' = [lists EXCEPT ![a] = [stage |-> "answered", item |-> Summary]]
    /\ Unserved /\ UNCHANGED <<serverVars, details, onces, flip>>

AnswerDetail(a) ==
    /\ details[a].stage = "sent"
    /\ details' = [details EXCEPT ![a] = [stage |-> "answered", item |-> Summary]]
    /\ Unserved /\ UNCHANGED <<serverVars, lists, onces, flip>>

\* POST /on or /off: 202 with the job, or 409.
AnswerFlip ==
    /\ flip.stage = "sent"
    /\ \/ \E j \in Job : Starts(j) /\ flip' = [stage |-> "answered", job |-> j]
       \/ /\ InSlot # {} \/ Newest = MaxJobs
          /\ flip' = [stage |-> "answered", job |-> NoJob]
          /\ UNCHANGED phase
    /\ Unserved /\ UNCHANGED <<written, lists, details, onces>>

-----------------------------------------------------------------------------
(* The tail's own functions, on the value of the variable tail.            *)

ClearTimer(t, j) == [t EXCEPT !.ticking[j] = IF t.handle[j] THEN @ - 1 ELSE @,
                              !.handle[j] = FALSE]

\* onRoute() away from the page, and onUnauthorised().
StopJobTimers(t) ==
    [t EXCEPT !.ticking = [j \in Job |-> IF t.handle[j] THEN @[j] - 1 ELSE @[j]],
              !.handle = [j \in Job |-> FALSE]]

\* The synchronous part of pollJob(), up to its await.
StartPoll(t, j) == IF t.poll[j].stage # "idle" THEN t
                   ELSE [t EXCEPT !.poll[j] = Fetching(t.entry[j].next)]

\* Mutant: a job that is tailed already is tailed anew.
TrackJobAnew(t, j) ==
    LET stopped == IF t.jobFor \in Job \ {j} THEN ClearTimer(t, t.jobFor) ELSE t
        polled  == StartPoll([stopped EXCEPT !.jobFor = j], j)
    IN  [polled EXCEPT !.handle[j] = TRUE, !.ticking[j] = IF @ = 2 THEN 2 ELSE @ + 1]

TrackJob(t, j) ==
    IF t.jobFor = j /\ t.handle[j] THEN t
    ELSE LET stopped == IF t.jobFor \in Job \ {j} THEN ClearTimer(t, t.jobFor) ELSE t
             polled  == StartPoll([stopped EXCEPT !.jobFor = j], j)
         IN  [polled EXCEPT !.handle[j] = TRUE,
                            !.ticking[j] = IF @ = 2 THEN 2 ELSE @ + 1]

\* loadUsecases(): pick up a job that is mid-transition and not tailed yet.
PickUp(t, item) ==
    IF item.turning /\ t.jobFor = NoJob /\ item.running THEN TrackJob(t, item.job) ELSE t

-----------------------------------------------------------------------------
(* The operator.                                                           *)

\* The bound on what the operator and the 15 s timer ask for: a finished tail
\* and what it awaits count as one.
UnderWay == {<<"list", a>> : a \in {b \in {Page, Switch} : lists[b] # NoCall}}
            \cup {<<"detail", a>> : a \in {b \in {Page} : details[b] # NoCall}}
            \cup {<<"poll", j>> : j \in {i \in Job : tail.poll[i] # NoFetch}}
            \cup {<<"once", j>> : j \in {i \in Job : onces[i] # NoFetch}}
            \cup {<<"flip", a>> : a \in {b \in {Switch} : flip.stage # "idle"}}
MayAsk == Cardinality(UnderWay) < MaxCalls

Moves == moves < MaxMoves /\ moves' = moves + 1

Browse == UNCHANGED <<serverVars, mixed>>

Click == Moves /\ Browse

Leave ==
    /\ here
    /\ here' = FALSE
    /\ tail' = StopJobTimers(tail)
    /\ Click /\ UNCHANGED <<strayed, expanded, list, detail, callVars>>

\* onRoute() to the page: loadUsecases() and the timer.
Return ==
    /\ ~here /\ lists[Page] = NoCall /\ MayAsk
    /\ here' = TRUE
    /\ lists' = [lists EXCEPT ![Page] = Sent]
    /\ Browse
    /\ UNCHANGED <<strayed, moves, expanded, list, detail, tail, details, onces, flip>>

\* Mutant: the list is polled only while the use case is turning.
AskListTurning ==
    /\ here /\ list.turning /\ lists[Page] = NoCall /\ MayAsk
    /\ lists' = [lists EXCEPT ![Page] = Sent]
    /\ Browse /\ UNCHANGED <<strayed, moves, here, expanded, list, detail, tail, details,
                            onces, flip>>

\* The 15 s timer, Refresh, Retry.
AskList ==
    /\ here /\ lists[Page] = NoCall /\ MayAsk
    /\ lists' = [lists EXCEPT ![Page] = Sent]
    /\ Browse /\ UNCHANGED <<strayed, moves, here, expanded, list, detail, tail, details,
                            onces, flip>>

\* toggleExpand(); loadDetail() returns what it has unless it failed.
ToggleExpand ==
    LET ask == ~expanded /\ detail.state \in {"absent", "err"} IN
    /\ here /\ list.known
    /\ ask => details[Page] = NoCall /\ MayAsk
    /\ expanded' = ~expanded
    /\ details' = IF ask THEN [details EXCEPT ![Page] = Sent] ELSE details
    /\ detail' = IF ask THEN [detail EXCEPT !.state = "loading"] ELSE detail
    /\ Click /\ UNCHANGED <<strayed, here, list, tail, lists, onces, flip>>

\* Mutant: a Retry marks the detail by a word of its own.
RetryDetailAgain ==
    /\ here /\ expanded /\ detail.state = "err" /\ ~detail.have
    /\ details[Page] = NoCall /\ MayAsk
    /\ details' = [details EXCEPT ![Page] = Sent]
    /\ detail' = [detail EXCEPT !.state = "again"]
    /\ Browse /\ UNCHANGED <<strayed, moves, here, expanded, list, tail, lists, onces, flip>>

\* The Retry of a detail that could not be loaded.
RetryDetail ==
    /\ here /\ expanded /\ detail.state = "err" /\ ~detail.have
    /\ details[Page] = NoCall /\ MayAsk
    /\ details' = [details EXCEPT ![Page] = Sent]
    /\ detail' = [detail EXCEPT !.state = "loading"]
    /\ Browse /\ UNCHANGED <<strayed, moves, here, expanded, list, tail, lists, onces, flip>>

\* The panel's list of previous runs: loadJobOnce().
SelectRun(j) ==
    /\ here /\ expanded /\ detail.job > 1 /\ j <= detail.job
    /\ tail.jobFor # j /\ onces[j] = NoFetch
    /\ tail' = [tail EXCEPT !.jobFor = j]
    /\ onces' = [onces EXCEPT ![j] = Fetching(0)]
    /\ strayed' = [i \in Job |-> strayed[i] \/ (i # j /\ tail.handle[i])]
    /\ Click /\ UNCHANGED <<here, expanded, list, detail, lists, details, flip>>

\* The dialog of the switch is confirmed (module FlipDialog).
PostFlip ==
    /\ list.known /\ detail.have /\ flip.stage = "idle" /\ Newest < MaxJobs /\ MayAsk
    /\ flip' = [stage |-> "sent", job |-> NoJob]
    /\ Browse
    /\ UNCHANGED <<strayed, moves, here, expanded, list, detail, tail, lists, details, onces>>

-----------------------------------------------------------------------------
(* The page: what it does with an answer.                                  *)

\* The tail of a goes on when the list it awaits has been handled:
\* loadDetail(id, true).
AfterList(a, t) ==
    IF a \in Job
    THEN /\ details' = [details EXCEPT ![a] = Sent]
         /\ detail' = [detail EXCEPT !.state = "loading"]
         /\ tail' = [t EXCEPT !.poll[a].stage = "detail"]
    ELSE tail' = t /\ UNCHANGED <<details, detail>>

HandleList(a) ==
    /\ lists[a].stage = "answered"
    /\ lists' = [lists EXCEPT ![a] = NoCall]
    /\ list' = lists[a].item
    /\ AfterList(a, PickUp(tail, lists[a].item))
    /\ UNCHANGED <<serverVars, here, expanded, onces, flip, moves, mixed, strayed>>

\* The poll of a is over when the detail it awaits has been handled.
AfterDetail(a, t) == IF a \in Job THEN [t EXCEPT !.poll[a] = NoFetch] ELSE t

\* A running job is tailed; else the newest run is loaded once.
HandleDetail(a) ==
    LET item == details[a].item
        once == ~item.running /\ tail.jobFor = NoJob /\ item.job # NoJob
        t    == IF item.running THEN TrackJob(tail, item.job)
                ELSE IF once THEN [tail EXCEPT !.jobFor = item.job] ELSE tail
    IN  /\ details[a].stage = "answered"
        /\ details' = [details EXCEPT ![a] = NoCall]
        /\ detail' = [have |-> TRUE, job |-> item.job, state |-> "ok"]
        /\ onces' = IF once THEN [onces EXCEPT ![item.job] = Fetching(0)] ELSE onces
        /\ tail' = AfterDetail(a, t)
        /\ UNCHANGED <<serverVars, here, expanded, list, lists, flip>>
        /\ UNCHANGED <<moves, mixed, strayed>>

\* The job has ended: stop the interval, load the list, then the detail.
EndPoll(t, j) == [ClearTimer(t, j) EXCEPT !.poll[j].stage = "list"]

\* Mutant: the offset of the answer is ignored, the next poll asks again for
\* the lines the page has.
HandlePollOffset(j, f) ==
    LET e == [tail.entry[j] EXCEPT !.rec = f.rec, !.lines = @ \o f.lines]
        t == [tail EXCEPT !.entry[j] = e]
    IN  IF f.rec = "final"
        THEN tail' = EndPoll(t, j) /\ lists' = [lists EXCEPT ![j] = Sent]
        ELSE tail' = [t EXCEPT !.poll[j] = NoFetch] /\ UNCHANGED lists

\* What pollJob() does with the two answers f.
HandlePoll(j, f) ==
    LET e == [tail.entry[j] EXCEPT !.rec = f.rec, !.lines = @ \o f.lines, !.next = f.next]
        t == [tail EXCEPT !.entry[j] = e]
    IN  IF f.rec = "final"
        THEN tail' = EndPoll(t, j) /\ lists' = [lists EXCEPT ![j] = Sent]
        ELSE tail' = [t EXCEPT !.poll[j] = NoFetch] /\ UNCHANGED lists

\* One of the two answers arrives; the second of them is handled.
AnswerPoll(j) ==
    /\ tail.poll[j].stage = "fetch"
    /\ \E f \in Answered(j, tail.poll[j]) :
          IF f.rec # "none" /\ f.got
          THEN HandlePoll(j, f)
          ELSE tail' = [tail EXCEPT !.poll[j] = f] /\ UNCHANGED lists
    /\ UNCHANGED <<serverVars, here, expanded, list, detail, details, onces, flip>>
    /\ UNCHANGED <<moves, mixed, strayed>>

\* The 1.5 s timers.
Tick(j) ==
    /\ tail.ticking[j] > 0 /\ tail.poll[j].stage = "idle"
    /\ tail' = StartPoll(tail, j)
    /\ Browse /\ UNCHANGED <<strayed, moves, here, expanded, list, detail, callVars>>

\* What loadJobOnce() does with the two answers f: they replace what the page
\* had, and a job that still runs is tailed.
HandleOnce(j, f) ==
    LET t == [tail EXCEPT !.entry[j] = [rec |-> f.rec, lines |-> f.lines, next |-> f.next]]
    IN  /\ onces' = [onces EXCEPT ![j] = NoFetch]
        /\ tail' = IF f.rec = "running" THEN TrackJob(t, j) ELSE t
        /\ mixed' = [mixed EXCEPT ![j] = @ \/ tail.poll[j].stage = "fetch"]

AnswerOnce(j) ==
    /\ onces[j].stage = "fetch"
    /\ \E f \in Answered(j, onces[j]) :
          IF f.rec # "none" /\ f.got
          THEN HandleOnce(j, f)
          ELSE onces' = [onces EXCEPT ![j] = f] /\ UNCHANGED <<tail, mixed, strayed>>
    /\ UNCHANGED <<serverVars, here, expanded, list, detail, lists, details, flip>>
    /\ UNCHANGED <<moves, strayed>>

HandleFlip ==
    /\ flip.stage = "answered" /\ lists[Switch] = NoCall
    /\ flip' = [stage |-> "idle", job |-> NoJob]
    /\ lists' = [lists EXCEPT ![Switch] = Sent]
    /\ IF flip.job = NoJob
       THEN UNCHANGED <<list, expanded, tail>>
       ELSE /\ list' = [list EXCEPT !.turning = TRUE]
            /\ expanded' = TRUE
            /\ tail' = TrackJob(tail, flip.job)
    /\ UNCHANGED <<serverVars, here, detail, details, onces, moves, mixed, strayed>>

-----------------------------------------------------------------------------
(* A request fails: no network, or 401 (onUnauthorised()).                 *)

Fails(expired) == /\ Moves
                  /\ here' = (here /\ ~expired)
                  /\ UNCHANGED <<mixed, strayed>>

OrStopped(expired, t) == IF expired THEN StopJobTimers(t) ELSE t

LoseList(a, expired) ==
    /\ lists[a].stage # "idle" /\ Fails(expired)
    /\ lists' = [lists EXCEPT ![a] = NoCall]
    /\ AfterList(a, OrStopped(expired, tail))
    /\ UNCHANGED <<serverVars, expanded, list, onces, flip>>

\* After a 401 the detail is left as loading.
LoseDetail(a, expired) ==
    /\ details[a].stage # "idle" /\ Fails(expired)
    /\ details' = [details EXCEPT ![a] = NoCall]
    /\ detail' = IF expired THEN detail ELSE [detail EXCEPT !.state = "err"]
    /\ tail' = AfterDetail(a, OrStopped(expired, tail))
    /\ UNCHANGED <<serverVars, expanded, list, lists, onces, flip>>

\* Mutant: pollBusy stays set when a poll fails.
LosePollBusy(j, expired) ==
    /\ tail.poll[j].stage = "fetch" /\ Fails(expired)
    /\ tail' = [OrStopped(expired, tail) EXCEPT !.poll[j].stage = "list"]
    /\ UNCHANGED <<serverVars, expanded, list, detail, callVars>>

LosePoll(j, expired) ==
    /\ tail.poll[j].stage = "fetch" /\ Fails(expired)
    /\ tail' = [OrStopped(expired, tail) EXCEPT !.poll[j] = NoFetch]
    /\ UNCHANGED <<serverVars, expanded, list, detail, callVars>>

LoseOnce(j, expired) ==
    /\ onces[j].stage = "fetch" /\ Fails(expired)
    /\ onces' = [onces EXCEPT ![j] = NoFetch]
    /\ tail' = OrStopped(expired, tail)
    /\ UNCHANGED <<serverVars, expanded, list, detail, lists, details, flip>>

\* The request or its answer is lost: the job may have started.
LoseFlip(expired) ==
    /\ flip.stage # "idle" /\ Fails(expired)
    /\ expired => flip.stage = "sent"
    /\ ~expired => lists[Switch] = NoCall
    /\ flip' = [stage |-> "idle", job |-> NoJob]
    /\ lists' = IF expired THEN lists ELSE [lists EXCEPT ![Switch] = Sent]
    /\ tail' = OrStopped(expired, tail)
    /\ UNCHANGED <<serverVars, expanded, list, detail, details, onces>>

Lose == \E expired \in BOOLEAN :
            \/ \E a \in DOMAIN lists : LoseList(a, expired)
            \/ \E a \in DOMAIN details : LoseDetail(a, expired)
            \/ \E j \in Job : LosePoll(j, expired) \/ LoseOnce(j, expired)
            \/ LoseFlip(expired)

-----------------------------------------------------------------------------
\* The asynchronous functions as processes: the 15 s timer's loadUsecases(),
\* a job's tail, and what happens a bounded number of times.  The server
\* answers, jobs end, timers fire and the event loop runs.
ListLoop == AskList \/ AnswerList(Page) \/ HandleList(Page)

TailLoop(j) == \/ Tick(j) \/ AnswerPoll(j)
               \/ AnswerList(j) \/ HandleList(j)
               \/ AnswerDetail(j) \/ HandleDetail(j)

OneTime == \/ \E j \in Job : JobStep(j) \/ AnswerOnce(j)
           \/ AnswerFlip \/ HandleFlip \/ AnswerList(Switch) \/ HandleList(Switch)
           \/ AnswerDetail(Page) \/ HandleDetail(Page)

Operate == \/ Leave \/ Return \/ ToggleExpand \/ RetryDetail \/ PostFlip
           \/ \E j \in Job : StartElsewhere(j) \/ SelectRun(j)

Next == ListLoop \/ (\E j \in Job : TailLoop(j)) \/ OneTime \/ Operate \/ Lose

Spec == Init /\ [][Next]_vars

FairSpec == /\ Spec
            /\ WF_vars(ListLoop) /\ WF_vars(OneTime)
            /\ \A j \in Job : WF_vars(TailLoop(j))

-----------------------------------------------------------------------------
(* Every line of the log is on the page once, in order, and none is        *)
(* skipped: the offset of one poll's answer is where the next one starts   *)
(* (pollJob(), app.js:1548-1551, read_log(), jobs.py:140).  The exception  *)
(* is a previous-run load handled while a poll of that job is under way.   *)
LinesAreTheLog ==
    \A j \in Job : ~mixed[j] =>
        tail.entry[j].lines = [i \in 1..tail.entry[j].next |-> i]

(* An interval that timers.jobs no longer names cannot be cleared any more *)
(* (trackJob(), app.js:1521-1530).  One exists only after another run was  *)
(* selected while the job was tailed.                                      *)
NoLostInterval ==
    \A j \in Job : ~strayed[j] => tail.ticking[j] = IF tail.handle[j] THEN 1 ELSE 0

(* Leaving the page stops what onRoute() can name, and nothing starts a    *)
(* tail of a job that is over for good: a tail sees the end of its job and *)
(* stops, whatever was lost (app.js:1556).                                 *)
TailEnds == \A j \in Job :
    (tail.handle[j] /\ phase[j] # "work") ~> ~tail.handle[j]

(* Answers overtake one another, and the answer to the switch marks an old *)
(* entry as turning; while the operator stays, the page ends up showing    *)
(* what the server has (app.js:1474-1494, 409, 3168).                      *)
ListSettles == <>[]here => <>[](list = Summary)
=============================================================================
