# Switchboard in TLA+

Switchboard (the program in `src/`) is a small web application with which an operator connects cloud
accounts and turns *use cases* — OpenTofu stacks described by a manifest — ON and OFF. One Python
process serves an API and a browser page. It keeps its data as JSON files, runs jobs on threads, and
shells out to `git` and `tofu`. There is no database and no queue: what keeps the parts consistent
is a handful of locks, the order of reads and writes, caches with a TTL, and a page that asks again.
That is what this project specifies.

`jobs.py`, `store.py` and `main.py` are in `src/app/`, `engine.py` is `src/app/usecases/engine.py`,
`app.js` is `src/app/static/app.js`.

## The system

| Component | State it keeps | Operations | Used by |
|---|---|---|---|
| Job runner (`jobs.py`, `store.py`) | `_running` (one record per use case), record objects, `runs/<id>.json`, `runs/<id>.log`, subprocesses | `start`, the job's thread (`_run`, `_exec`), `recover`, `running_job`, `get`, `list_runs`, `read_log` | engine, HTTP, page |
| Derived state (`engine.py` `state`) | `_state_cache` | `state`, `invalidate`, `start_job`, `_after_job`, `POST /refresh` | cards, `topology`, hook |
| Plans and drawings (`engine.py` `plan`, `topology`) | `_plan_cache`, `_topology_cache`, `_outline_locks`, `.switchboard-<action>.tfplan` | `plan`, `outline`, `topology` | use case page, flip dialog |
| Checkout (`engine.py` `prepare`) | the git checkout, `_initialised`, `_locks` | `ensure_checkout`, `tofu_init`, `state_list`, `_run` with a timeout | jobs (prelude), probes, plans |
| Status probe | `status.json`, `_last_probe` | `probe_status`, `warm_up`, `_refresh_loop` | hook, background thread |
| Provider connections (`main.py`, `store.py`) | encrypted credentials, `inventory/<provider>.json`, `inventory_lock` | connect, disconnect, list, inventory | engine, Clouds page |
| Cloud providers (`providers/`) | none | checklists, region scans, costs | connections |
| Pricing (`providers/pricing.py`) | price cache and its file | lookups | AWS scan |
| Manifests, inventory graph, plan graph | none | parsing, graph building | engine |
| Browser: Clouds page (`app.js`) | `providers`, `inventories`, `connect`, session | jack, form, checklist, inventory, disconnect | operator |
| Browser: routes, drawer, rail | hash, `route`, `openRegion`, `drawer`, `drawerReturn`, `ucProvider`, `localStorage` | `onRoute`, tiles, nodes, links, filter, provider rail | operator |
| Browser: jobs | `usecases`, `details`, `jobFor`, `jobs`, timers | list poll, tail, previous runs, switch | operator |
| Browser: dialog | `outlines`, `topo`, `flipping` | `requestFlip`, `loadOutline`, `loadTopology`, `pollJob`'s end | operator |
| Authentication (`auth.py`) | key | login cookie | HTTP |

How they interact. A POST to `/on` or `/off` runs on the event loop: the engine starts a job in the
runner and then invalidates the use case's caches. The job's thread runs a prelude (the engine's
`prepare`), the steps as subprocesses, saves its record after every step, pops its slot and calls
the engine's hook, which invalidates once more and probes. Every GET is served on a pool thread
which reads the slot, the records and the caches and may run `tofu` for minutes without any lock
that a job would notice. After the process ends, a new one reads the records left "running" and
marks them failed before it serves. The page is one thread of callbacks: every handler runs to its
next `await`, answers come in any order, intervals ask again, and a 401 to any request puts the
sign-in in place of the page.

### What is hard here

- **Interleaving without a lock.** `state()` makes three reads while jobs start and end; `plan()`
  checks for a job, waits for a lock, plans for minutes and stores; a hook's probe overlaps the next
  job; a scan saves an inventory for a connection that changed meanwhile.
- **Failure.** A file operation may fail between taking a slot and freeing it; the process may end
  between any two saves; a step's subprocess may outlive its job; any request of the page may fail or
  be refused with 401.
- **Order.** The last save before the pop, the pop before the hook, recovery before serving; in the
  page, an answer to an older question, an interval whose name was given to another one, a hash change
  that is handled after the next one.
- **Liveness.** The slot must be freed on every way through `_run`; nested locks must not block; a
  panel, a dialog or a tail that waits must get its answer or offer a way out.

### What makes each component correct

- *Job runner*: one thread and one subprocess per use case; a running record has a thread; steps in
  order and none after a failure; outcomes complete and final; every job ends.
- *Derived state*: what it says of the jobs was so during the call; the cache is current unless a
  late writer passed an invalidation.
- *Plans and drawings*: the plan file is its thread's own; the caches as above; every request is
  answered.
- *Connections and Clouds page*: the inventory on disk, and the one on the page, belong to the
  connected account; the jack says what is stored; what was typed survives a failed attempt; a panel
  moves on.
- *Routes and drawer*: page and hash agree; what is asked for is on the screen; a drawer closes to where
  it was opened; a chosen provider stays chosen.
- *Jobs in the page*: every line of a log is shown once and in order; a tail ends with its job; the
  list becomes what the server has.
- *Dialog*: it posts what was picked, waits for its plan and shows the one the page has; a plan from
  before a job is not kept.

## Modules

| Module | Stands for |
|---|---|
| `JobHistory` | what the runner promises: at most one active job per use case, records begin one after the other, outcomes come once |
| `JobRunner`, `MCJobRunner` | `jobs.py` with the records of `store.py` |
| `UseCaseJobs` | the runner as the engine sees it: the order slot, steps, save, pop, hook for the jobs of one use case |
| `StateCache`, `MCStateCache` | `Engine.state()` and its cache |
| `PlanCache`, `MCPlanCache` | `Engine.plan()` and `Engine.topology()` with their caches, locks and plan file |
| `Connections` | the provider endpoints over the stored record and the inventory file |
| `CloudsPage`, `MCCloudsPage` | the Clouds page for one provider, composed with `Connections` |
| `RegionDrawer`, `MCRegionDrawer` | hash routes, region drawer, deep links from drawings, provider rail |
| `JobTail` | list poll, detail, job tail and previous runs of one use case, against its jobs and growing logs |
| `FlipDialog` | dialog, outlines, drawing and switch of one use case, against its jobs |
| `*_proofs` | theorems about the module of that name, for every value of its constants |

`JobRunner` is shown to implement `JobHistory`. `StateCache` and `PlanCache` both extend
`UseCaseJobs` and add invalidation, so the order of the runner's steps is one definition for both.
`CloudsPage` extends `Connections`: the server's actions leave their answers where the page's actions
take them.

### JobRunner

`slot` is `_running`, `mem[j]` the record object, `disk[j]` its file, `pc[j]` the place of the
job's thread between two points where another thread, a fault or the end of the process can make a
difference. The program counter follows `_run`: `open` (the `LogWriter`, outside the try block),
`header`, `prelude`, `unprepared`/`save_unprepared` (the except branch), then the loop `loop`, `mark`
(state set, not saved), `announce` (saved, two log lines), `exec`, `given_up` (the except branch of
a step), `report` (the exit line), `save_step`, and the finally block `final_save`, `release`,
`hook`. A record is a state, a state per step and the kind of its error; times, names and exit codes
are left out.

`StartFault`, `ThreadDies`, `WriteFault` and `TailFault` are the failing file operations, by what
the code does about them: before the thread exists, outside or after the try block, inside it, and
inside `_exec` with the subprocess alive. `Crash` ends the process with its subprocesses (the
container); `Recover` rewrites one record with one save, so a crash can cut recovery short. `Serve`
is the lifespan's `yield`.

A job id is drawn at random and not drawn twice, so an id stands for one job, and `UseCaseOf` fixes
the use case it will be drawn for.

### UseCaseJobs, StateCache, PlanCache

The world has a version, the job that last changed it, and whether something is deployed. A job
may change the world or fail before it does. Jobs are in the order of their ids; faults and crashes
are `JobRunner`'s subject and are left out here.

In `StateCache` a thread is a request, or a job in its hook. Each of the three reads of `state()`, the
probe and the write is an action of its own, because jobs and invalidations can come between. An entry
holds the version it was probed from. `Expire` makes an entry old at any time.

In `PlanCache` the three locks of a use case (one per action and one for the drawing) and the two
plan files are explicit. What `state()` says inside `topology()` is a free choice between drawing
the plan and drawing the inventory, which includes every stale answer.

In `StateCache` a thread that has answered a request takes another, so the cache is written and served
for ever; in `PlanCache` each request is made once.

Both modules keep history variables that nothing reads but the properties: `crossed` (an
invalidation passed while the thread held an older answer), and in `StateCache` `seen` (what was so
during the call) and `claimed` (a job started during the call).

### Connections, CloudsPage

An *account* stands for credentials and for what they give access to. `record` is the provider's entry
in `providers.json`, `file` its inventory with whether it is younger than `INVENTORY_CACHE_S`. Handlers
are coroutines, so they are steps; a checklist and a scan run in threads, so each has a beginning and an
end. `delete_provider()` has two steps, `DeleteRecord` and `DeleteFile`, because a scan's thread can
write between them; no other coroutine can (`LoopIsFree`). A scan looks at the file, waits for
`inventory_lock`, looks again, reads the credentials, and saves or falls back to the copy it saw first.
The file has a second writer behind the same lock, `Engine.inventory()` for the drawings of the use cases: the
thread `Drawing` asks for itself (`BeginDrawing`), takes a file of any age unless it refreshes, saves what
it scans, and keeps its answer to itself.

On the page, `providers`, `slot` and `connect` are `state.providers`, `state.inventories[provider]` and
`state.connect`. `Controls` is what `renderJack()`, `renderConnect()` and `renderInventory()` offer, and
every click needs its control. `Redraw` is the part of `render()` that matters: the form is built anew
from `connect.values`. `post` in the panel is the object identity that `submitConnect()` compares
after its await. The asynchronous functions `loadProviders()` and `loadInventory()` run once per asker.

### RegionDrawer

`hash` is `location.hash`; `events` counts the hash changes that `onRoute()` has not handled. It reads the
hash as it is by then, may redirect (`ToSignIn`, `ToClouds`), and otherwise chooses page, provider and
drawer and rewrites the hash of the Use cases page to name its provider (`Follow`). The drawer is its
sections (untouched, open, shut), unfolded instances, project filter and the resource to flash; `Rows`,
`Shown`, `Links` and `Chips` say what of a region's contents is on the screen. Contents are
resources of the six sections and subnets, with project tags and references; `effectiveProjects()` is an
operator over them.

`focus` is where the keyboard is. Every answer, the 15 s poll of the list and every other cause of `render()`
(`UsecasesArrive`, `InventoryArrives`, `Redraw`) rebuilds the view: the focus of a rail tile survives (467-471), that of a region tile or
a node is lost (`Rebuilt`), except a node that the drawing still gives it back to (`refocus`, for
2.5 s after the close, until `RefocusEnds`).

### JobTail

`tail` gathers `state.jobFor`, `state.jobs`, `timers.jobs` and `pollBusy`. `handle[j]` says that
`timers.jobs[j]` is set, `ticking[j]` how many intervals poll `j`. One poll fetches record and log in
parallel: the server answers each in a step of its own, and the page goes on when both are there, to the
list and the detail if the job is over. Requests of the list are told apart by who asked (the 15 s timer,
the switch, the tail of a finished job), because their answers overtake one another. A line is its
number, so an order, a gap and a repetition are visible.

### FlipDialog

The world is counted by beginnings and ends of jobs (`epoch`, odd while a job runs), and every answer
carries the epoch it was computed in. `shown` is what the list shows of the card. The list and the detail find jobs that were started
elsewhere, or show the last run once; `tail.known` says that the page has some job for the use case
(`state.jobFor`), which keeps the list from picking up another (`PollList`, 1487), while the detail tracks any running one
(`HandleDetail`). `handled` is the latest job posted from the page or end that its tail saw. An outline under way when the pair is deleted or reloaded goes on as `lost`, with
the callbacks that dialogs have attached to its promise: `LoadOutline`, `Reload`, `DeleteOutlines`,
`Rebuild` and `Resolve` are functions of outlines, dialog and the flag `frozen`, and every action applies
them in the order of the code. `live` and `mine` of a callback are `seq === my` and whether its dialog is the
one on the screen. The end of a job is `TailSees` (outlines deleted, dialog left alone) and, after two
awaits, `TailReloads`.

## What the runs check

| Run | Instance | Shows |
|---|---|---|
| `job_safety` | 2 use cases, 3 jobs (2 + 1), 2 steps, 2 faults, any number of crashes; 1.5 million states | type invariant and the safety of slots, threads, subprocesses and records |
| `job_history` | the same without faults; 70 thousand states | `JobRunner` implements `JobHistory`; every job ends and frees its use case |
| `job_conflict` | as `job_safety`, with 1 fault | a fault makes "A job is already running" untrue (a finding) |
| `state_cache` | 1 repeated request, 2 jobs (ON, OFF) with their hooks; 1.5 million states | answers follow the jobs unless one starts meanwhile; staleness only by late writers |
| `state_answer` | the same | a job starting between the two reads gives an answer that was never so (a finding) |
| `plan_cache` | 2 requests, 1 job; 183 thousand states | plan file, caches, absence of deadlock |
| `plan_served` | the same | a plan from before a job is served after it (a finding) |
| `use_case_page` | 1 past and 1 new job, 2 lines, 2 moves; 281 thousand states | lines, intervals, the end of tails, the list |
| `clouds_page` | 2 accounts, 2 connects, 2 scans at a time, 4 moves, and drawings that refresh or not; 848 thousand states | inventory, jack and form against races and failures; panels move on |
| `region_drawer` | 2 providers, the second with use cases, 2 regions, a resource of each kind in 3 wirings, 3 moves; 155 thousand states | hash and page, flashes, the way back, the chosen provider |
| `flip_dialog` | 1 job, 3 moves, lamp on or error; 774 thousand states | the dialog, its plan, what a job's end does to them |
| `stale_drawing` | 1 job, 3 moves, lamp on or off | the drawing is not asked for again after a job (a finding) |

**Bounds.** Two jobs of one use case are needed for slot hand-over, late subprocesses and a recovery
that meets a newer job, the third shows that use cases do not mix; two steps give a step after a
failure, one in progress and one pending in one record. One fault reaches every failing operation;
the second is what leaves a record running behind its own handler: a log write fails while the
subprocess lives, and the handler's write fails after it. The proofs cover any number of faults. In
`state_cache` the one request and two hooks are three concurrent callers of `state()`, and the second
job can start in the first one's hook. In `plan_cache` two requests suffice for any pair of outline and
drawing to meet at a lock; a third would wait at the same lock. One job passes both of its
invalidations.

A *move* of the page modules is a click or a failed request; typing, coming back to the page, and the
switch of `use_case_page`, which the number of jobs bounds, are not counted. In `use_case_page`, two moves are a selected run and a leave, or a click and a loss; a past and
a new job are two tails at once; two lines are a log that grows under a poll. `MaxCalls = 1` bounds
only what the page asks for by itself; the tails, the switch and the list have their own requests, so three answers of
the list can be under way. In `clouds_page`, four moves are a disconnect (two) and a connect (two), two connects, or one of them with
a refresh and a failure; drawings scan without a move, any number of them and one at a time (a second would
wait at `inventory_lock`); two accounts are a rotation; two scans are an overlap, and no third could
save anything else. In `region_drawer`, three moves open a drawer on a node, do something in it, and close it; two
events are a change before the last one is handled; answers, polls and renders are not counted. In `flip_dialog`, three moves are open, pick or
retry, and confirm or a failure; one job passes its beginning and its end under them; an `error` lamp has
the radio buttons, `on` has not.

`CHECK_DEADLOCK FALSE` is set for `PlanCache`, where all requests have been answered and no job
is left, and for the page's, where the operator's moves run out; `JobRunner` restarts for ever, `StateCache` takes requests for ever, and both are
checked for deadlock.

**Fairness.** `JobRunner`: threads are scheduled (`ThreadStep`) and start-up goes on (`Recover`,
`Serve`); requests, faults, crashes and the end of a subprocess are never assumed. A step has no
timeout in the code, so `EveryJobEnds` has an explicit premise that no subprocess runs for ever.
`PlanCache`: threads inside a request are scheduled and `tofu` returns (the code gives
its calls timeouts; that `_run` notices its deadline only when a line arrives is listed as a hazard). A lock
needs no strong fairness, because a request that holds one releases it and the requests are finitely many; Python's
locks promise no more, and for requests without end `EveryRequestAnswered` is not claimed. `StateCache` is
checked for safety only, and drawings in `CloudsPage` are under no fairness. In the page modules the event loop is fair: requests are answered or
fail, their answers are handled, intervals fire. `JobTail` states this per asynchronous loop (the
list's, each tail's, and what happens a bounded number of times), because a list poll that repeats for
ever must not excuse a tail that never moves; it also assumes that jobs end, which is `EveryJobEnds`.
What the operator does is never assumed.

**Property by property.** Each is stated above its definition with the code lines it is about.
`RunningRecordIsLive`, `OneChildPerUseCase` and `OneRunningRecord` say *as long as the disk has not
failed*, because they are false after a fault: the code gives up a record or a subprocess then.
`ThreadOwnsSlot`, `StepsRunInOrder`, `OutcomeIsComplete` and `SavedOutcomeStays` hold with faults too.
`AnswerFollowsJobs` depends on two orders at once: `state()` reads the slot before the records, and
the runner saves before it pops. `UncrossedIsCurrent` is the exact extent of staleness: it excludes the late writers
themselves and shows that nothing else leaves an old entry. That a TTL ends what they left (60 s, `engine.py:28-36`)
is plain in the code and not a property here.

The properties of the page name their exceptions, each a weakness of the code (below) that a weaker
statement would have hidden: `NoLostInterval` all but tails left by selecting another run (`strayed`);
`LinesAreTheLog` all but a previous-run load handled during a poll (`mixed`); `FileIsOwn` and
`InventoryIsOwn` all but scans, files and rotations that a change of account has crossed; `JackIsTrue`
all but overlapping lists, lost requests and abandoned checklists (`raced`); `PanelMovesOn` all but
401s; `FlashFinds` all but a link under a filter; `ConfirmWaits` and `ConfirmComes` all but outlines
deleted under the dialog, and in `ConfirmComes` the frozen page. Where an exception is the hazard itself, the property
shows that nothing else leads there, and `PROJECT.json` says so at the hazard.

`ConfirmWaits` is about an answer, be it a plan or the reason why there is none, and not about the plan that the
specification asks for (below). `OutlineIsCurrent` is about the jobs whose beginning or end makes the page
delete outlines: those posted from it, and those its tail saw end. When the page hears of a job in another way
nothing is deleted (below). `ClosingReturns` says of the focus what the code can promise: the node has it over every render for
2.5 s, and after that until the next render drops it.

## Findings

1. **A leaked slot** (`job_conflict`). An `OSError` in the first save, the log's open, the last save
   or the log's close leaves `_running` taken with no thread; the use case answers 409 until a
   restart.
2. **An answer that was never so** (`state_answer`). A job that starts between `running_job()` and
   `list_runs()` makes `state()` report the probe's `on` or `off` although the use case was in `error`
   before and `turning_*` after.
3. **A plan from before the job** (`plan_served`). `plan()` stores after the job's invalidation what
   it planned before the job, and serves it for up to 60 s.
4. **A drawing from before the job** (`stale_drawing`). At the end of a job `pollJob()` asks for the
   drawing again, but `loadTopology()` returns at once while an older load is under way
   (`app.js:2086`), whose answer may be of before the job; "the drawing regenerates from the cloud
   after a job" (`app.js:1563`).

### Other disagreements

These have no run of their own. The models behave as the code does, and the properties except the case by name or do not claim it.

- **A subprocess nobody waits for.** A log line that cannot be written leaves `_exec` before its `wait()`
  (`jobs.py:283`); the job ends, and the steps of the next one run beside the process that is left. "at most one running
  job per use case, steps run sequentially via subprocess" (`jobs.py:1-2`). Excepted in `OneChildPerUseCase` (`faults`).
- **An inventory without a provider.** A scan under way at a disconnect saves its inventory after the file was
  removed (`main.py:284`); the endpoint "forgets credentials + inventory" (`SPEC.md:140`). The next
  account's drawings, and its Clouds page while the file is fresh, show it. Excepted in `FileIsOwn` (`crossed`).
- **A default that becomes a choice.** `onRoute()` puts the default computed before the list into the hash
  (`app.js:402`), and `resolveUcProvider()` reads it back from there as the URL's choice (322), so the
  correction in `loadUsecases()` finds what is already there; "the default is "the first provider with a use case" —
  only knowable now" (`app.js:1481`). `RegionDrawer` does the same, and no property claims the first provider.
- **A plan from before the job in the page.** The list does not pick up a job if the page has one for the use case already, be it a
  finished run that the detail showed (`app.js:1487`, `1508`): the card shows it turning and ended, no tail sees the
  end, and the plans stay; "the plan is stale once a job has run" (`app.js:1560`). A job that is picked up is tailed
  without deleting the outlines of before it (`1486-1488`, `1507`); they go when its tail sees the end.
  `OutlineIsCurrent` claims neither.
- **A button without a plan.** A lost outline, or one refused with 409, enables the confirm button
  (`ready`, `app.js:3150`); "The confirm button is disabled until the plan has loaded." (`SPEC.md:394`).
  `ConfirmWaits` counts the reason as an answer.

### Weaknesses the models show without a line that promises otherwise

- A scan that began for one account saves its inventory after a reconnect to another
  (`main.py:284`); a disconnect during a checklist is undone by the save that follows (`main.py:229`).
- A form that loads, or a checklist, refused with 401 leaves its panel without a control
  (`app.js:700`, `883`); what is typed into the form is lost when any answer redraws the page
  (`app.js:746`).
- An outline refused with 401 stays loading with a settled promise; a dialog that opens on it calls
  itself for ever and the page stops (`app.js:2965`, `3144`). A drawing refused with 401 stays loading
  (`app.js:2090`).
- Outlines deleted at a job's end under an open dialog leave it waiting (`app.js:2967`); a button that
  is enabled stays so over a plan that was deleted.
- Tracking a job a second time after another run was selected forgets the first interval, which goes on
  polling until the job ends (`app.js:1522`).
- A cross-link into a section that the project filter empties leads nowhere (`app.js:1244`).

## What is proved

Every invariant that a passing run checks, `AnswerFollowsJobs`, `ChoiceIsKept` and `SavedOutcomeStays` of
the action properties, and the refinement without faults are theorems: eight modules of proofs, each from the
assumptions on the constants of its module alone, with no bound
on jobs, requests, accounts, resources, faults or moves. The lemmas that say what one action does are
named for what they keep; the temporal step is always the last one. A theorem says what its property says,
with the property's exceptions.

### Job runner

`JobRunner_proofs`, from `JobAssumption` (the types of the constants, and that `NoJob` is not a job):

- `TypeCorrect` — the type invariant;
- `OneThreadPerUseCase`, `OneSubprocessPerUseCase` — the use case's stack has one worker;
- `StopsAtFailure`, `OutcomesAreComplete`, `SavedOutcomesStay` — the records;
- `RunningRecordsAreLive`, `RunningRecordsAreOne` — records and threads agree across restarts;
- `ImplementsHistory` — with `MaxFaults = 0` every behaviour of `JobRunner` is one of `JobHistory`.

None of the invariants is inductive by itself, so they are strengthened in layers, each
using those before it:

1. `TypeInv` adds to `TypeOK` that the loop index is a step while a step is being handled
   (`InStep`); without it `SaveStep` could advance the index out of its type.
2. `SlotInv` adds to `ThreadOwnsSlot` that threads and slots exist only while the process is up:
   a claim then meets a free slot, so no other thread of the use case can be there.
3. `RecordsInv` is the loop invariant of `_run`: for each place of the thread, what its flag, its
   error, the steps before the index (`Done`), at it (`Here`) and after it (`Todo`) look like.
   `Sound` (in order and complete) of the record in memory follows at each save, and `Sound` of the
   file because every save writes a sound record and `recover()` keeps soundness.
4. `FilesInv` relates the file to the thread: as long as nothing failed, a running file belongs to a
   thread that has yet to save it again, or to a process that is not yet serving.
5. `ChildInv`: as long as nothing failed, a subprocess has a thread in `_exec`; with `SlotInv` and
   the types, two subprocesses of a use case are one.

`NextCases` splits a step into one job's step or a restart, and `OthersUntouched` reduces preservation
for all jobs to preservation for the job that moved. `ImplementsHistory` maps `slot` and the state in
the file to `active` and `outcome`: `Start` is `Begin`, `FinalSave` is `Conclude`, `Release` is
`Release`, `Crash` is `Restart`, `Recover` is `Interrupt`, and everything else stutters.

### Caches

`UseCaseJobs_proofs` has what both caches use: the types of the jobs (`JobsInv`), that the use case is
not quiet after a step in which a job starts or works (`WorkIsNotQuiet`), and that the steps in which a POST
or a job ends invalidate (`EndsInvalidate`).

- `PlanCache_proofs`: `PlanTypes`, `PlanFileOwned`, `UncrossedPlans`. A request from `cache` to `store`
  holds the lock of its action, the plan file exists only under that lock, and the other places of the
  request find none (`FileInv`): so the file it shows is its own. For the caches (`CurrentInv`), when all is
  quiet every entry *and every answer a request brings along* is current unless crossed. A job's
  work makes the use case not quiet; its end crosses what is brought along and empties the caches.
- `StateCache_proofs`: `StateTypes`, `UncrossedEntry`, by the same argument for probed answers, and
  `AnswersFollow` (`AnswerFollowsJobs`). What a request will say of the jobs is in its history `seen` from the
  moment it can no longer change (`Follows`), unless a job started since (`claimed`). A free slot
  stands for the last job's verdict because that is in the records before the slot is popped (`JobsAgree`), which is the order
  that the reads of `state()` rely on.

### Page

- `JobTail_proofs`: `OneInterval` (`NoLostInterval`) and `LogIsWhole` (`LinesAreTheLog`). `Steady`
  adds that a job with a named interval is the one on the page unless the operator strayed: only then
  does `trackJob()` find no other interval to forget. For the log (`LogInv`), the
  page has the log's first lines, a poll under way asked from the offset where they end, and its answer is
  the piece from there (`From`, `LogOf`); pieces are joined by facts of `SequenceTheorems`. The
  functions that start and stop tails change no entry (`Follows`). A job of which a previous-run load was handled during a poll is
  excepted (`mixed`): two pieces of its log may then overlap. `TailTypes` (`TypeOK`) has to bound what the
  page holds although two loads of a log may overlap: a poll either asks from where the entry ends, or the
  entry is one whole load, so its lines are at most the log twice (`Room`). That a job has at most one named
  interval, and so at most two that run, is `Steady` again.
- `FlipDialog_proofs`: `OutlinesCurrent` (`OutlineIsCurrent`) and `PickIsPosted` (`PostsThePick`). An answer that is
  *named* is as late as the last job posted from the page or end that its tail saw (`handled`), the ones under way included, which is why deleting the
  name and not only the data is needed (`SinceThen`). The only live callback of the dialog on the
  screen waits for what is picked (`AboutPick`). Both are shown for the page's functions first, so an action
  is a composition. `FlipTypes` (`TypeOK`) and `ConfirmWaitsForPlan` (`ConfirmWaits`) share one invariant
  (`PlanInv`): an enabled button is over an answer the page has, and every function that deletes or reloads
  that answer marks the dialog (`crossed`, the exception of the property) or closes it (`ShowsPlan`).
- `CloudsPage_proofs`: `FileFollowsRecord` (`FileIsOwn`) says of scans under way what the property says
  of the file, the drawings' included; `Watches` is what all steps of the page do to the server's state. `TypedIsKept`
  (`FormKeepsTyped`) follows what was typed through values and form. `CloudTypes` is `TypeOK`.
  `JackFollowsRecord` (`JackIsTrue`): with `raced` false one list at a time is under way and one
  post belongs to the panel on the screen (`OneList`, `PostIsShown`); a list that was answered is of the stored
  record, or another list is still owed by a checklist or a disconnect (`ListsAreTrue`, `Due`).
  `InventoryFollowsJack` (`InventoryIsOwn`) carries `FileIsOwn` through the scan: the copy it keeps, the answer
  it leaves and the inventory on the page are of the stored account unless a disconnect is between
  its two parts (`KeptAreOwn`, `AnswersAreOwn`, `SlotIsOwn`, `Cutting`); with `JackIsTrue` that is the account on the jack.
- `RegionDrawer_proofs`: `AddressIsState` (`UrlIsState`) needs only that a page without a session and
  without events is the sign-in; every other change of the hash leaves an event (`Announces`).
  `NodeDrawerReturns` (`ClosingReturns`) adds, from the click on a node on, that `back` names the
  drawing while the hash or the drawer shows the region (`Away`), and from the close on that the hash
  does (`Returning`); while `refocus` names the node, every way to render gives it the focus. `ChosenProviderStays` (`ChoiceIsKept`): what is chosen is what is stored.
  `FlashIsFound` (`FlashFinds`): what is to flash is set together with its section and, for a subnet, its VPC
  (`Ready`), and the first render that has the region consumes it, so no click of the drawer finds one that
  waits. `DrawerTypes` (`TypeOK`) rests on the first provider with use cases being one of the
  list (`FirstIsOne`, from the library's theorem that a set of numbers has a least one).

The assumptions of `RegionDrawer` are facts of the code: the providers are a sequence without the "no
choice" value (`DrawerAssumption`), a subnet is listed under its VPC (`ContentsAssumption`, `aws.py:529`), and
a hash names a resource only with its region (`LinkAssumption`, `app.js:296`). TLC evaluates them on the
run's contents and links.

**Only model-checked**: all liveness (`EveryJobEnds`, `EveryRequestAnswered`,
`TailEnds`, `ListSettles`, `PanelMovesOn`, `ConfirmComes`) and the absence of deadlock, because the prover
handles neither fairness nor `ENABLED`. The refinement is proved and checked without faults
only: with faults a record may stay "running" after its slot is free, which `JobHistory` forbids.

## Not modelled

- *Checkout and `tofu`*: what `git fetch`, `git reset`, `tofu init` and the backend do to the
  directory is their own behaviour. `prepare()`'s lock is a plain mutex around them; its end is a step of
  the job's prelude, the probe or the plan. Its hazards (work beside a job's steps, `_initialised` after a
  reconnect, the deadline) are listed without a property.
- *Status probe* (HTTP and TCP checks), *cloud APIs* and their checklists, *pricing*: calls to
  the outside whose outcome is a free choice, or prices that only colour a number.
- *Manifests, inventory graph, plan graph*: pure transformations of text and data without state.
- *Code drawer* (`app.js:3183-3299`): reading files; a tree that fails to load with 401 stays loading
  (`3201`). Focus traps, cards, markdown, icons, drawings as pictures: rendering. A terminal that shows
  lines twice after `loadJobOnce()` of a running job (`1537`) is of that kind.
- Times, ids, wording, scrubbing of logs, half-written log lines, the order of runs of one second
  (`store.py:199`); the password check and its cookie; mock data; deployment scripts.

`PROJECT.json` lists every component with its status, and under its hazards which property is about
which, and why a few have none.
