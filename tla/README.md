# A verification project for google-maps-scraper-lite

The program scrapes Google Maps. One *scraper process* works on one *job*: it
collects place URLs from the search feed, queues them in SQLite, lets `-c`
workers scrape them in Chromium tabs and hands the results to a single writer.
A *control server* (`-control`) keeps many jobs in the same database and runs
them one after another by starting scraper processes as children.

The TLA+ modules here are written from the Go source. TLC checks them on small
instances; TLAPS proves theorems about every one of the components modelled, for
every value of their constants: the scraper process on its job, the control
server, the page pool, the scraping that is done in its tabs, feed discovery and
the Postgres writer. `PROJECT.json` lists runs, mutants, the source lines each definition
stands for, hazards, theorems, and the disagreements found.

    tlc -workers 2 -config run_recovery.cfg MCScraperRun.tla
    tlapm ScraperRunTypes.tla
    tlapm ScraperRunProofs.tla
    tlapm JobControlTypes.tla
    tlapm JobControlProofs.tla
    tlapm PagePoolProofs.tla
    tlapm PlaceScrapeProofs.tla
    tlapm FeedDiscoveryProofs.tla
    tlapm PostgresWriterProofs.tla

## 1. Inventory

| Component | State it keeps | Operations | Talks to | What is hard |
|---|---|---|---|---|
| Job store, one job (`gmaps/jobstore_urls.go`, `_jobs.go`, `_stats.go`) | `jobs.status`, `pause_requested`; `job_urls.status`, `attempts` | ClaimNextURL, MarkURLDone, MarkURLFailed, RequeueURL, ResetInProgress, StartJob, SetJobStatus, RequestPause, ClearPause, JobStats | SQLite; every other part | Statements are atomic, sequences of them are not; marks are unconditional |
| Place workers and recovery (`gmaps/scraper.go`) | each worker's claim, shared failure counter, `recoveryCoordinator`, `inflightRegistry`, radius buffer | Run, trigger, wait, runStallMonitor, finishJob, ensureJob | store, page pool, `out` | One worker's recovery pauses, resets and restarts the job under the others |
| Writer loop, deduper, signals (`main.go`) | `out`, seen identities, pause/cancel flags | receive, dedupe, write, mark, final status; Ctrl-C once, twice | store, writers, Run | Row marks race the final count; the process can die between write and mark |
| Page pool (`browserrod/browser.go`, `browser/browser.go`) | channel of idle tabs, `created`, use counts | AcquirePage, ReleasePage, RetirePage, discardPage, replenish | Chromium | Channel and counter change apart; tabs die at any time |
| Jobs table (`gmaps/jobstore_jobs.go`, `_strategies.go`) | all jobs, order of `updated_at`, `last_error` | create, claim next, claim one, resume, recover, delete | server and processes | Several writers; guards cover only part of what callers assume |
| Control server (`control.go`, `jobstore_processes.go`, `_scheduler.go`) | registry of process groups, stall counters, scheduler switch, one waiter per child | queue poll, launch, sweep, wait, stall resume, boot | table, processes | Goroutines act on a job by id after the job has changed hands |
| HTTP handlers (`control_controller.go`) | - | start, strategy, pause, resume, start-pending, recover-stale, delete, scheduler | as above | An operator may do anything at any moment |
| Feed discovery (`gmaps/feed*.go`, `scraper.go` ensureJob, collectPlaceURLs) | progress tracker, collected URLs | open a feed, scroll, read; merge queries, filter, queue; stall monitor | a tab, store | Monitor, collector and signals race; a killed process leaves a job half begun |
| Place scraping (`gmaps/place*.go`, `entry.go`, ...) | the claim's trace; the document in the tab | scrape one place stage by stage, over HTTP or in a tab; parse Google's JSON | a tab | The watchdog closes the tab under the scrape, which goes on in a goroutine nobody waits for |
| Engines (`browserrod/rodpage.go`, `browser/pwpage.go`) | closed flag of a tab | Goto, Reload, Evaluate, ClickForce, Close | Chromium | Calls hang, navigation ends without an error, tabs crash |
| Output writers (`output/*`) | CSV buffer; Postgres tables | Write, Close | disk, Postgres | Look-up, upsert and reviews in separate statements |
| Templates, strategies, config import and export | stored forms | CRUD, run | table | Sort order, round trip |
| Diagnostics, control view, geography, e-mail, ids | the claim's stage | - | - | One decision reads the stage; the rest decides nothing |

What makes each correct: the store never gives a row to two workers and never
takes back `done` by itself; a run leaves no URL behind, marks done only what is
written, and ends; the pool loses no slot and shares no tab; the server runs one
job at a time, never leaves an active row with nobody to end it, never kills a
process that works, and keeps the queue moving; discovery queues what it found,
once, and its monitor leaves a job as it was; one scrape at a time works in a tab
and a result is of the place it is reported for; a place that is reported as written
has its row.

## 2. Modules

| Module | Models | Correspondence |
|---|---|---|
| `JobStore` | the rows of one job | One operator per SQL statement. A URL is its position. |
| `ScraperRun` (EXTENDS `JobStore`) | one process on one job: `Run`, its workers, recovery, stall monitor, writer loop, signals, death and resume | `pc[w]` is where a worker is between two statements others can observe; `held`, `heldAttempt`, `retries` are its locals; `runPc`, `monitor`, `mainPc` are the other goroutines; `out` is the channel. `file`, `saved`, `userPaused`, `reset`, `runs` are history the properties need. |
| `PagePool` | the tab pool | `at[w]` is where a worker is in AcquirePage/ReleasePage; one step is a channel operation, a section under `b.mu`, or a newPage. |
| `PlaceScrape` (EXTENDS `PagePool`) | a worker's claim, from the HTTP try to the release of the tab, and the scrape goroutines | The pool's actions are taken as they are and guarded by `step[w]`, where the worker is with its claim. `scrape[p]` is the goroutine in tab `p`: its stage, which is also what the claim's trace says, and whose trace it writes. `shows[p]` is the document in the tab, `coming[p]` the place of a navigation that was given up on and may still commit, `clicks` the open tabs with a click that ClickForce gave up on. A call that hangs is a step that is not taken; a call on a closed tab fails. |
| `FeedDiscovery` | ensureJob, collectPlaceURLs, ScrapeFeed, the progress tracker and its monitor; signals, kills, recovery and resume of the job | `pc` is where the process is between two steps the monitor or a kill can come between; `tracker.stale` says that StallTimeout has passed since the last report. The filters are operators on sequences, in the code's order. |
| `PostgresWriter` | PostgresWriter.Write | One action per statement; the tables are keyed as in the schema, the two unique indexes leave the empty text out. `raced` and `written` are history. |
| `JobTable` | the table of several jobs | One operator per statement or transaction. `updated` is the order of `updated_at`, as the set of its pairs. |
| `JobControl` (EXTENDS `JobTable`) | server, queue, waiters, registry, sweep, handlers, boot | `thread[t]` is what a goroutine is doing (queue, handler, boot, one waiter per process); `proc[p]` is a scraper process reduced to what it does to its row and how it exits, a summary of `ScraperRun`. The faults "jobsStore" and "registryStore" let a statement of the server fail; `abandoned` is the history of the jobs it gave up after an error it only reports. |
| `JobLife` | what the server promises of a job | Abstract: a job waits, is active, is stopped, is done once. It is first started when no other is active; `Resume` of a stopped job asks for nothing, as in the code (number 15). |
| `ScraperRunTypes`, `JobControlTypes` | type correctness, action by action | - |
| `ScraperRunProofs`, `JobControlProofs`, `PagePoolProofs`, `PlaceScrapeProofs`, `FeedDiscoveryProofs`, `PostgresWriterProofs` | theorems about the modules they are named for | The first two build on the `Types` modules, `PlaceScrapeProofs` on `PagePoolProofs` |
| `MC*` | model values, symmetry sets, place maps | |

Composition: `ScraperRun` contains the store; acquiring a tab and scraping are
steps of it that succeed or fail (`PlaceScrape` says when). `PlaceScrape` contains
the pool and implements it: its property `PoolSpec` is the pool's specification,
the refinement mapping the identity on the pool's variables. `JobControl` contains
the table; a process's claims and marks collapse to "URLs left or settled". It
implements `JobLife` (`LifeCycle`, `INSTANCE JobLife WITH life <- ...`), the phase
of a job's life being what its status stands for. `FeedDiscovery` reduces the
server to the recovery and the resume of one job.

Definitions commented "Mutant" are not part of any specification. Each is a
plausible bug in the definition below it; put in its place it makes the named
property fail in the named run.

## 3. Runs

| Run | Instance | Shows |
|---|---|---|
| `run_recovery` | `FairSpec`, 2 workers, 2 URLs of one place, block and other errors, 2 attempts | Types; no pending row is left behind when all workers have gone (`QueueDrained`); every claimed row is in somebody's hands (`ClaimsAreCarried`); `done` means all rows done; nobody claims during a recovery pause; a place is written once although a recovery made two workers scrape it; the run ends, and without a run error every URL is settled and the job has a final status |
| `run_crash` | no AutoRecover, so that failures are final; scrape errors; 2 processes in turn; crash anywhere, stall exit, store updates that are refused | Rows marked done are in an output that survived (`DoneIsDelivered`); claims are exclusive until a reset; done rows stay done |
| `run_stop` | HTTP first, radius filter, scrape errors with their recoveries, Ctrl-C once and twice, UI pause, write failures, no tab, navigation retries; job resumed | Rows marked done are in the output or outside the radius; after the first Ctrl-C nothing is claimed before a recovery ends |
| `ctl_serial` | 2 jobs, 2 processes; create, strategy, pause, start-pending, delete; crashes, failures, failing spawns, failing statements on `jobs` | One active job; an active job that was not given up has an owner; the sweep spares work; the server implements `JobLife` |
| `ctl_operator` | 1 job; create, pause, resume, recover, delete, scheduler; crash, recovery pause, failing spawns, failing statements on `jobs` and on the registry, reboot at any step | An active job that was not given up has an owner whatever the operator does |
| `ctl_live` | `FairSpec`, 2 jobs of a strategy; stall, crash, timeout | The queue moves on, timed-out jobs are resumed, endless stalling is cut off, a process at work is the one of an active job, and the registry names every live process of a job that is launched again and again |
| `tab_scrape` | `FairScrape`, 2 workers, 1 slot, 2 page names, 2 URLs, tabs wear out at 2 uses, 1 fast retry | Slots balance, a tab has one owner and one scrape, nobody waits without need, walls stay out of the pool, results are of their place, the composition implements the pool; goroutines end whichever call hangs, and so do claims, but for the calls that open their own tabs |
| `feed_queue` | `FairSpec`, a search and a place ID, 4 URLs, 2 languages, limit 2, depth 2, 3 processes | The queue is what was found; a stall exit loses nothing; nothing is discovered twice; a discovery under a monitor ends |
| `pg_write` | 2 writers, 2 places, one with two cids and a review more at the second scrape | A place reported as written has its row and all its reviews; only the loser of a race is refused |

Three runs expect a violation (section 6).

**Bounds.** Two workers are enough for every race over one row or one recovery:
a leader and a follower, a holder and a claimer. Two URLs give "one left, one
held" and one place under two URLs. Two attempts let a retry and a last attempt
happen; a threshold of 2 lets the counter be shared, reset and reached (in `run_crash`
it is 1: any failure that counts ends the run, which is then resumed). `OutCap` = 1 makes
the channel full. Two process runs give one resume. In `tab_scrape` two workers on
one slot make one wait while the other scrapes, wears the tab out, retires it or
loses it; a page name is used again after it is forgotten, with a goroutine of its
former life still about; two URLs make a second claim in a used tab, and one fast
retry has a try before and after it. In `feed_queue` a place is found by both
queries, one is measured outside the radius, one inside it and two cannot be
measured, one is scraped in one of its languages, and more are left than the
limit; three processes give a
kill before and after the rows are queued, and a resume of each. Two writers
give every race over one lookup; the third cid belongs to the place nobody
contests. Two jobs give "the active one and the next"; two process ids give an
old process and its successor; a cap of one stall restart stands for the 3 of the
code. Counters are bounded by these constants only; no run uses a state
constraint.

`main` always sets `AutoRecover` (`main.go:325`). `run_crash` leaves it out for the
final failures of a `Config` without it, and because claims are exclusive only until a
recovery resets them; the theorems of the same properties cover both values.
`run_stop` and `run_recovery` have it, as the program does.

**Deadlock** is off in the runs where the program really stops (all processes
have ended, or no request is left).

**Fairness.** Goroutines that can run are run: weak fairness per worker, for
Run, for the writer, per waiter, for the queue's ticker, for the server's
launches and boot. Sleeps and the scrape watchdog have deadlines in the code, so
a worker inside one goes on. A scraper child ends because
`exec.CommandContext` kills it at its deadline. Nothing is assumed of users,
crashes, stalls, timeouts or tabs that die. In `PlaceScrape` a worker with a claim
goes on: its wait for a tab is limited (`acquireTimeout`), its scrape has a
watchdog (`ScrapeDeadline`), and closing a tab has deadlines of its own
(`rodpage.go:300`). Opening one has none (`newPage`, `browser.go:158`): no fairness
is assumed of a worker inside it, and `ClaimsEnd` is about workers whose tabs are
opened or refused. A scrape goroutine goes on only once its tab is closed, when the calls it is
blocked in return; in an open tab it may hang for ever, and nobody has to claim. In
`FeedDiscovery` the process's own steps and the monitor's are fair and time
passes; no call of the driver is.

**Time.** There are no clocks. Two assumptions stand for orders of magnitude:
`DelayOver(j)` (when a delay of 30 s or more for job `j` is over, no goroutine is
still between two statements about `j` that it was at before: a recovery of `j`, the
drop of its row, a sweep that has listed it), and that pids are not reused while a
registry row names them.

**Failing statements of the server.** The faults "jobsStore" and "registryStore" stand
for an error of SQLite, or of the request's context. Every claim reads the job back
when its UPDATE is committed (`ClaimRead`); when that fails the callers return the
error, nobody launches the job and nobody takes the claim back (`ClaimReadFails`). A
recovery that fails is logged and not tried again (`RecoverFails`), a failing
SetJobStatus after a failed spawn is ignored (`SpawnFails`), and a failing statement
on the registry leaves the row, or its absence, behind (`Record`, `DropsRow`,
`SweepList`). A request whose own statement fails before anything is committed
changes nothing and is no step. `abandoned` collects the jobs left behind in this
way until somebody launches them, and `ActiveIsOwned` speaks of all others.

## 4. Proofs

### The scraper process

`ScraperRunTypes` proves `TypeCorrect` (`TypeOK`), and with it what later proofs
need of the goroutines: what a process that has ended leaves, which steps of
`Run` have workers. `ScraperRunProofs` is for any number of URLs, any set
of workers, any attempts, thresholds, retries, capacity of `out`, map of URLs to
places and number of processes (`RunAssumption`). Without any
assumption beyond it, and so for every fault of the model, it proves

- `OneHolder` (`ClaimsAreExclusive`) and `DoneRowsStay` (`DoneIsFinal`), both until
  a reset has put claimed rows back under their holders. The marks of a worker, of the
  radius filter and of the writer are unconditional updates by id; they are safe
  because a URL is carried in one place at a time, by a worker, in the radius
  buffer, in the channel or by the writer (`ClaimedOnce`), and its row is
  claimed as long as it is carried (`CarriedIsClaimed`);
- `RecoveryPausesAll` (`NoClaimWhileRecovering`): one worker leads a recovery and
  nobody else lifts its pause (`OneLeader`, `LeaderPauses`), not even a process
  that resumes the job, which begins without workers;
- `EveryPlaceOnce` (`NoPlaceTwice`): the deduper knows exactly the places of what
  was written (`OutputKnown`), also when the same URL is scraped twice;
- `QueueIsDrained` (`QueueDrained`): `SomebodyLooks` says that while a row is pending,
  somebody is left who has not just found the queue empty. What makes it
  inductive is that a worker puts a row back before it looks itself, and that a
  row put back during a pause is found after it by whoever waits for its end.

The other theorems carry the assumption that says where the code does not do it:

- `NoClaimForgotten` (`ClaimsAreCarried`), if the store takes every update
  (`"store" \notin Faults`): the code drops a URL whose mark is refused.
  `StartingIsFresh` is its case of a resume that finds the job still starting: such a
  job has had no worker, so there is no claim to reset;
- `DoneHasOutput` (`DoneIsDelivered`), for a buffered writer only without stall exits
  and crashes (section 6, number 5);
- `DoneIsComplete` (`DoneJobIsComplete`), unless writes fail in a run that recovers
  (number 20). The status is written from a count read earlier, and twice;
  `Settled` says that nothing has changed the rows since, because a carried row
  is claimed, and where a reset has broken that, because the writer's marks can
  only make a row `done`;
- `CtrlCHoldsUntilRecovery` (`PauseStopsClaims`), for a store that takes every
  update: after the first Ctrl-C nothing is claimed before a recovery has reset the
  claims (number 4), and never without `AutoRecover`.

`RowMoves` carries most of this: each change of a row is a claim, a reset, the end
of a scrape, or the mark of whoever has its result (`RowChange`). It is proved
once over all actions, so that an invariant about rows is proved over its
handful of cases.

### The control server

`JobControlTypes` proves `ControlTypeCorrect` (`TypeOK`) for any number of jobs and
process ids, any requests and faults. `JobControlProofs` proves for these

- `ActiveJobsAreOwned` (`ActiveIsOwned`) for every request and every fault but a
  server that restarts without the machine ("restart": number 18). Crashes, stalls,
  timeouts, recovery pauses, reboots, failing launches, failing statements and an
  operator's recoveries and deletions are covered; the jobs that the server gives up
  with an error are those of `abandoned` (numbers 6 and 21), and no other job is
  lost.

`NoInterference` excludes an operator's resume and recover ("resume", "recover":
numbers 7, 15, 16), recovery pauses ("recovery": number 1) and "restart". Under it
the server implements the abstract life cycle:

- `JobsLiveTheirLives` (`LifeCycle`): every step is, in the phases of the jobs, a step
  of `JobLife` or none, stalls, timeouts, crashes, failing launches, failing statements
  and reboots included. The queue's resume of a timed-out job and the waiter's of a
  stalled one are `Resume`;
- `LiveProcessesAreRegistered` (`RegistryCoversLive`), if statements on the registry
  do not fail: a process that is alive and waited for has its row, though its job was
  launched before, by the queue or by a waiter, and rows are dropped by job id.

`Serial` is `NoInterference` without "stall" and "timeout", that is, without a job
that is taken up again. There the server runs jobs one after another:

- `JobsRunSerially` (`OneActiveJob`), `WorkersHaveARunningJob` (`WorkIsActive`),
  `SweepsSpareWork` (`SweepSparesWork`). The restart of a stalled job (`ClaimResume`) does not look for
  another active job (number 15), so these do not hold with "stall".

The invariants are layers, each relative to those before it:

- `AttachInv`: every process has exactly one goroutine, the launch that has just
  started it or its waiter; while the server is down or boots no other goroutine
  moves. A server that restarts without its processes leaves
  some that have no waiter, which is why "restart" is excluded.
- `FaultsShow`: an exit that is not among the faults is not seen.
- `OwnInv`: an active job that was not given up has a launch, or a waiter that has yet to write its row;
  during boot it is on the list boot works through (`BootOwns`). A waiter reads and
  writes the row in two statements, and the proof is about what may come
  between: a second launch of the same job is itself an owner.
- `HolderInv`: no two goroutines act on the same job (`OneThread`), nobody acts on one
  that is pending (`Known`), a timed-out job is with the waiter that wrote so
  or with the queue that resumes it (`TimeoutsHeld`), what is launched or about to be
  written is active (`HoldsActive`), and a process knows the status of its job
  (`ProcKnows`). This is what `NoInterference` buys; `TableSteps` reduces every step
  to what it writes into the table, and the refinement follows case by case.
- `OneActive`: with `ActiveGrows`, a step that makes a job active finds none.
- `RegistryInv`: a launch lists the registry, kills and deletes row by row, spawns
  and records, each in a step of its own, while other launches and waiters do the
  same. A row is of a process whose waiter has still to drop it (`RowsHeld`), or boot
  has it on its list (`BootSweeps`); and what a launch has listed is not out of date
  (`ListedIsLast`): whoever has that job is at its end or in the delay before its
  restart, which `DelayOver` lets end only when no list in hand names the job.
- The sweep of a launch meets no process at work (`SweepsSpare`): such a process has a
  running job, the launch has an active one, and one at most is active
  (`LaunchAlone`).

`HolderInv` and `RegistryInv` were checked with TLC as invariants of instances with
two jobs and two processes before they were proved.

### The pool, the tabs, discovery and the Postgres writer

`PagePoolProofs` is for any finite non-empty set of workers (`main.go:76`), any
set of page names, any `MaxPages` and `MaxUses` of at least 1
(`PoolAssumption`). It proves

- `PoolTypeCorrect`: `created` stays in `0 .. MaxPages`; a worker holds a page in
  exactly the steps that use one;
- `SlotsAlwaysBalance`: `created` is the idle pages plus the slots workers own;
- `SendsNeverBlock`: the unconditional send of ReleasePage, and replenish, always
  find room;
- `WaitersAlwaysSpare`: the tabs that exist and the workers that wait are
  together never more than the workers;
- `PagesOwnedOnce`: a tab is in the channel once or in one worker's hands, and
  `UsesAlwaysFollow`: use counts belong to tabs that exist and are below the limit
  (each inductive relative to `TypeOK`: a worker on its way to a tab holds none);
- `NobodyEverWaits`: with a slot per worker nobody reaches the blocking loop, so
  `acquireTimeout` cannot end a run whose browser works. `main` gives pool and
  scraper one `-c` (README.md:85: "The browser page pool matches the concurrency
  level").

The invariant of the counts is `IInv == TypeOK /\ SlotsBalance /\ WaitersAreSpare /\
NobodyWaits`. None of the last three is inductive alone: `created` may be lowered
only because a worker in such a step owns a slot; a worker that begins to wait
saw an empty channel, so by the balance all of `created` belongs to workers that
do not wait; and a worker that waits, counted with the tabs, leaves a free slot
where there are as many slots as workers. `MoveCounts` says what one worker's
move does to both counts (cardinalities, from the library's theorems on finite
sets); `Balanced` is what each step owes, checked action by action;
`BalancedPreserves` draws the conclusion once.

`PlaceScrapeProofs` is for any workers, tabs, queue of URLs and number of fast
retries (`ScrapeAssumption`), on top of the pool's assumptions. It proves

- `ScrapeImplementsPool` (`PoolSpec`): every step of the scraping is, on the
  pool's variables, a step of the pool or none. The one step that is no pool
  action by name is the watchdog's: to close the page it holds is, for the pool, a
  page that dies, which `PageDies` allows of pages somebody owns; so the theorem
  needs the link between `step[w]` and `at[w]` (`StepOfPool`) as an invariant.
  With it everything proved of the pool holds of the composition;
- `ScrapeTypeCorrect` (`ScrapeTypeOK`);
- `TabsDrivenOnce` (`TabDrivenOnce`): the goroutine of a scrape works in an open tab
  only while its worker holds the tab and waits for it. It is no statement about the
  clicks of number 11, which stay in an open tab. The step that endangers it is the
  reopening of a page name: a goroutine abandoned in the closed tab must be gone
  (a tab that is opened is blank, `TabsFollow`), and no second worker may hold the
  page of the first, which is `PageOwnedOnce` of the pool, obtained by the
  refinement;
- `EntriesOfTheirPlaces` (`EntryIsOfItsPlace`): the strengthening `OwnResults` says
  for every stage what the tab of a waiting worker shows: from the check on, the
  document is that of the claim, a wall or nothing, if the navigation was seen to
  commit;
- `WallsNeverPooled` (`WallsLeavePool`): the strengthening `WallsFound` says that
  every wall is in the tab of a worker that is about to find it, or has found it
  with an error for which `ShouldRetire` holds; a tab in which a navigation may still
  commit is excepted (number 12). It rests on `TabDrivenOnce`: a
  reload that ends in a wall happens in a tab somebody waits for.

The inductive invariant of all of them is `ScrapeInv == ScrapeTypeOK /\ StepOfPool /\ IInv
/\ PageOwnedOnce`, the pool's invariants included because its actions are the
scraper's.

`FeedDiscoveryProofs` is for any feeds, limits and number of processes. It proves

- `StallsLoseNothing` (`StallLosesNothing`): a process that its feed monitor ends
  has queued nothing and has not started its job;
- `JobsDiscoveredOnce` (`DiscoveredOnce`): a job the server created is discovered
  only while it has no URLs, over any number of kills, recoveries and resumes.

Both follow from `FeedInv`. The exit of the monitor is safe because the monitor
lives within discovery, which waits for it before it queues (`Monitored`), and a
process in discovery has a job without URLs (`Undiscovered`). That in turn needs
what a kill leaves behind: rows are queued and the job started in two statements,
and a killed process's job is resumed by its rows, not by its status.
`ServerJobs` is why the theorem does not hold of jobs of the command line
(section 6, number 9).

`PostgresWriterProofs` is for any writers and any entries (`WriterAssumption`)
whose identifiers are stable: each payload carries the `place_id` and the `data_id`
of its own place, and a cid belongs to one place (`StableIdentities`, assumed by
both theorems and not by the module: `vio_row` shows what is lost without it). It
proves

- `WrittenStaysWritten` (`WrittenPlaceHasRow`): neither a statement that fails nor
  what other processes write takes away the row or the reviews of a place that
  was reported as written;
- `RefusedInRaces` (`RefusalIsARace`): a unique index refuses an upsert only when
  somebody else wrote since its lookup.

The invariant `WriterInv` says that a row is of the place its key belongs to
(`RowsKeyed`), that a place has one row (`OneRowEach`), and what a writer may still
rely on of its lookup when it upserts (`AtUpsert`) and of its upsert when it adds
reviews (`AtReviews`). `ConflictIsSecondRow` and `CanonicalIsRow` are what the
indexes and the lookup do in these terms.

### Only model-checked

`QueueIsWhatWasFound` of `FeedDiscovery`: the fold of `Distinct` calls for induction
over data, which is out of the prover's reach. All liveness (`RunEnds`, `JobSettles`,
`ClaimsEnd`, `GoroutinesEnd`, `DiscoveryEnds`, `QueueMoves`, `TimeoutsResume`,
`RespawnsEnd`): liveness under fairness and ENABLED are out of it too. And what the
theorems' assumptions leave out but a run has: `ctl_live` checks `WorkIsActive` over
stalls and timeouts of two jobs of a strategy. Every other safety property that a
passing run checks has a theorem.

## 5. Not modelled

- Parsing and field extraction (`entry.go`, most of `place.go`): what Google's JSON
  and DOM contain is data; `PlaceScrape` has that a document is parsed or is not.
  Selectors, dates of reviews and what a click does to the document are left out with
  them.
- The drivers' events, resource blocking and launch of Chromium: outside; the
  models have tabs that open, fail, crash, hang and close. `Close` of the pool is
  deferred to the end of `main`.
- `main`'s flags and the `-urls-only` and `-place-ids` inputs; stored templates,
  their order, import and export; the arguments a resumed process is given. A
  stored configuration that cannot be turned back into arguments fails its job
  before the launch; no model has such a job.
- Page rendering, authentication and CSRF checks, the control view, `geo/*`, the
  page an e-mail is looked for on, counters and log lines: no state of a job
  depends on them.
- SQLite and Postgres are external: statements and transactions are atomic, and
  only their effect on the columns a decision reads is modelled. The polls of the
  queue that fail are logged and repeated; they are no step.

## 6. Where code and documents disagree

Checked as runs that expect a violation:

1. `vio_sweep`: a job created during another's recovery pause starts at once and
   its launch kills the waiting process (`control.go:847`, against 829).
2. `vio_stage`: a watchdog that fires in the extra reviews is judged by a trace the
   abandoned goroutine still writes to; the page has been closed and retired by
   then, the goroutine has left the stage, and the place is scraped again though
   its failure was to be final (`scraper.go:91`, against 365).
3. `vio_row`: places without a cid share the empty key in Postgres, and each
   overwrites the row of the one before (`postgres.go:339`, against `README.md:347`).

Shown by the models as well, when the constants are changed as said, and the
reason why some passing runs leave that out:

4. A Ctrl-C pause during a recovery pause is wiped out when the recovery ends
   (`scraper.go:753`, against `README.md:172`): `PauseStopsClaims` excepts what
   follows on a recovery, and fails in `run_stop` without that. StartJob also clears a
   pause asked for in the control UI while the job was still in discovery.
5. The stall watchdog's `os.Exit` skips the CSV flush; rows marked done are in no
   file (`main.go:432`, against `scraper.go:417`): `DoneIsDelivered` with
   `BufferedWriter = TRUE` and `Faults = {"stall"}`.
6. A resume that cannot start a process leaves the job active with nobody to end it
   (`control.go:620`, against 792). `SpawnFails` has it, and `abandoned` the job.
7. RecoverStaleActiveJob reads the status and writes it in two statements; a job
   that its process finishes in between goes from done to failed
   (`jobstore_jobs.go:596`): `LifeCycle` with the request "recover".
8. A cancelled context makes a scrape fail like any other error: on its last
   attempt the URL is failed for good because the run was stopped
   (`scraper.go:373`).
9. A process that dies between CreateJob and StartJob leaves a pending job that has
   its rows; the server's queue claims it as if it had none, and its second
   discovery is refused by `UNIQUE(job_id, position)` (`jobstore_jobs.go:147`):
   `DiscoveredOnce` without `~fromCLI`.
10. The upsert overwrites `place_id` and `data_id` with what this scrape has, blanks
    included, and a cid that matches takes precedence; a place may so come to be
    known under two rows, and is then refused by the unique index each time it is
    written (`postgres.go:286`); `StableIdentities` leaves such payloads out.
11. A click that exceeds its hard ceiling goes on in its goroutine; the comment
    (`rodpage.go:232`) has "the caller retires the page after a failure", but one caller
    tries the next selector, the other gives up the reviews, and the tab goes back to
    the pool. `tab_scrape` has it (`Clicks`, `ClickEnds`): a pooled tab, or one in
    another worker's hands, with a click in flight is a reachable state.
12. A navigation whose commit is not seen within its timeout returns no error
    (`rodpage.go:129`); the scrape goes on in whatever the tab shows. This is why
    `EntryIsOfItsPlace` speaks of results whose navigation was `sure`. The
    navigation may commit later, in the pool, too (`LateCommit`).
13. A failed write marks its URL failed with an outer error that is nil, so
    `last_error` stays empty (`main.go:421`).
14. A worker that read the recovery's pause flag just before the recovery ended
   takes it for the user's and ends the run as paused (`scraper.go:262`).
15. `ClaimResume` has no guard on other active jobs, so a stall restart or an
   operator's resume can make two jobs active (`jobstore_jobs.go:560`).
16. The waiter of an old process recovers by job id and can pause a job that was
   resumed meanwhile (`control.go:798`).
17. The scheduler switch is not read again after the queue wait (`control.go:560`).
18. Boot recovers rows before it sweeps survivors; a survivor can start its job
   between the two (`control_controller.go:100`), which is why the
   server's death takes its processes along ("reboot") in the passing runs.
19. A deadline that strikes in a recovery pause leaves the job paused without
    the timeout error, so the queue never resumes it (`control.go:770`).
20. A place without an identity that two workers have scraped, because a recovery
    reset the first one's claim, is written twice; the job may be settled as done
    after the first write, and a second write that fails then marks the row failed
    (`main.go:421`). main settles the job again at its end, unless it dies before:
    `DoneJobIsComplete` with `AutoRecover = TRUE`, `Faults = {"block", "write"}` and
    an anonymous place.
21. A claim whose read after the committed UPDATE fails, a creation whose GetJob does,
    and a recovery that fails, leave the job starting or running with nobody to end
    it, and the queue waits for it until an operator's recover or the next boot
    (`jobstore_jobs.go:136`, 183, 580, `control_controller.go:598`, `control.go:770`;
    against `jobstore_jobs.go:646`, "instead of permanently blocking the queue"). The
    job is in `abandoned`.
22. AcquirePage "never blocks past acquireTimeout" (`browser.go:228`), but the
    newPage it calls has no timeout: a worker whose tab Chromium never opens waits for
    ever (`browser.go:179`), and so does one that replaces a tab.

## 7. Plan

Done: `JobStore`, `ScraperRun`, `PagePool`, `JobTable`, `JobControl` with
`PagePoolProofs`; then `PlaceScrape` with `PlaceScrapeProofs`, `FeedDiscovery`,
`PostgresWriter` with proofs of their own, and `JobLife`; then the proofs of
`ScraperRun` and `JobControl`.

Next, in this order:

1. Proofs: `WorkIsActive` with "stall" and "timeout" and no operator.
2. `ScraperRun` over `PlaceScrape`: the outcomes of a scrape, which it chooses,
   as the steps of the tab that `tab_scrape` checks.
3. A server that dies without its processes ("restart"): which survivors boot finds.
4. Templates: strategies and their sort order, import and export, the round trip of
   buildResumeArgs, checked against reference definitions.

Runs over more than one question are merged into one configuration where the
instance is the same; a new component brings one run, and replaces one where an
existing run asks less than it.
