----------------------------- MODULE ScraperRun -----------------------------
(***************************************************************************)
(* One scraper process working on one job (gmaps/scraper.go, main.go): the *)
(* place workers, the automatic recovery they share, the stall monitor, the*)
(* `out` channel, the writer loop of main, the two Ctrl-C signals, the     *)
(* death of the process at any point and the next process that resumes the *)
(* job.  The rows live in JobStore and survive; all else is lost with the  *)
(* process.                                                                *)
(*                                                                         *)
(* Abstracted: time (a sleep, a watchdog or a stall ends whenever it may), *)
(* the page pool (acquiring a page succeeds or fails; see PagePool), what  *)
(* an entry contains beyond the identity the writer deduplicates on, and   *)
(* logging.  A step that only computes from the worker's own data is merged*)
(* with the next statement other goroutines can observe.                   *)
(***************************************************************************)
EXTENDS JobStore, Sequences

CONSTANTS
    Workers,          \* the Concurrency place workers
    MaxURLAttempts,   \* Config.MaxURLAttempts (main: 3); 0 means no cap
    BlockThreshold,   \* consecutive failures that count as a block (code: 10)
    FastRetries,      \* retries of a transient navigation error (code: 2)
    OutCap,           \* capacity of `out` (main: 2 * concurrency)
    AutoRecover,      \* Config.AutoRecover (main: TRUE)
    HTTPFirst,        \* Config.EnableHTTPFirst without extra reviews
    UseRadius,        \* a radius filter is configured
    InRadius,         \* the URLs whose entry lies within the radius
    PlaceOf,          \* the place identity (cid, place_id, data_id) of an entry
    NoPlace,          \* ... of an entry that carries none of the three
    BufferedWriter,   \* TRUE: CSV (bufio); FALSE: JSON or Postgres
    Faults,           \* what the environment may do in this instance
    MaxRuns           \* bound: processes started on the job

ScrapeFaults == {"block", "extra", "nav", "error"}

AllFaults == ScrapeFaults \cup
    {"acquire", "store", "write", "stall", "crash", "ctrlc", "cancel", "uipause"}

ASSUME RunAssumption ==
    /\ Workers # {}
    /\ MaxURLAttempts \in Nat
    /\ BlockThreshold \in Nat \ {0}
    /\ FastRetries \in Nat
    /\ OutCap \in Nat \ {0}
    /\ {AutoRecover, HTTPFirst, UseRadius, BufferedWriter} \subseteq BOOLEAN
    /\ InRadius \subseteq URLIDs
    /\ DOMAIN PlaceOf = URLIDs
    /\ Faults \subseteq AllFaults
    /\ MaxRuns \in Nat \ {0}

VARIABLES
    pc,           \* where each worker is
    held,         \* the claim a worker works on, or 0
    heldAttempt,  \* claimed.Attempts, the copy taken when the row was claimed
    retries,      \* fast retries used on the claim
    consecFails,  \* shared counter, saturated at BlockThreshold
    recActive,    \* recoveryCoordinator.active
    entries,      \* how many results of each URL wait for the radius filter
    out,          \* the result channel
    runPc,        \* where Run is outside its workers
    runErr,       \* the first error a worker returned (errgroup)
    verdict,      \* job status a finishing goroutine has decided on
    monitor,      \* where runStallMonitor is
    mainPc,       \* where the writer loop of main is
    item,         \* the result the writer loop holds, or 0
    seen,         \* identities the placeDeduper has recorded
    pauseWanted,  \* first Ctrl-C seen
    cancelled,    \* second Ctrl-C: the root context is cancelled
    currentJob,   \* TRUE once main knows the job's id
    file,         \* URLs whose entry this process handed to the writer
    saved,        \* URLs whose entry no crash can take away any more
    userPaused,   \* history: the user asked this process to pause
    reset,        \* history: a reset ran while this process held claims
    runs          \* processes started so far

workerVars == <<pc, held, heldAttempt, retries>>
sharedVars == <<consecFails, recActive, entries>>
runVars    == <<runPc, runErr, verdict>>
writerVars == <<mainPc, item, seen, file, saved>>
signalVars == <<pauseWanted, cancelled, currentJob, userPaused>>
processVars == <<monitor, reset, runs>>
vars == <<storeVars, workerVars, sharedVars, out, runVars, writerVars,
          signalVars, processVars>>

RecoverySteps ==
    {"recPause", "recStatus", "recSleep", "recReset", "recClear", "recStart",
     "recDone"}
ClaimSteps == {"delay", "acquire", "scrape"}   \* registered in inflight
HoldSteps  == ClaimSteps \cup {"emit"}
WorkerSteps == {"top", "claim", "noRow", "sawPause", "trigger", "exited"}
               \cup HoldSteps \cup RecoverySteps

RunSteps == {"reset", "start", "ready", "workers", "filter", "emitKept",
             "finRead", "finSet", "closed", "down"}
MainSteps == {"recv", "have", "mark", "finRead", "finSet", "exit", "down"}
RunErrs == {"nil", "paused", "blocked", "canceled", "error"}
URLOrNone == URLIDs \cup {0}

TypeOK ==
    /\ StoreTypeOK
    /\ pc \in [Workers -> WorkerSteps]
    /\ held \in [Workers -> URLOrNone]
    /\ heldAttempt \in [Workers -> Nat]
    /\ retries \in [Workers -> Nat]
    /\ consecFails \in 0 .. BlockThreshold
    /\ recActive \in BOOLEAN
    /\ entries \in [URLIDs -> Nat]
    /\ out \in Seq(URLIDs)
    /\ runPc \in RunSteps
    /\ runErr \in RunErrs
    /\ verdict \in JobStatuses \cup {"none"}
    /\ monitor \in {"idle", "reset", "status", "exit"}
    /\ mainPc \in MainSteps
    /\ item \in URLOrNone
    /\ seen \subseteq {PlaceOf[u] : u \in URLIDs}
    /\ {pauseWanted, cancelled, currentJob, userPaused, reset} \subseteq BOOLEAN
    /\ file \subseteq URLIDs
    /\ saved \subseteq URLIDs
    /\ runs \in 1 .. MaxRuns

Alive == runPc # "down"

\* gctx: the errgroup context ends with the first error or the root context.
CtxDone == cancelled \/ runErr # "nil"

Occurs(u, s) == \E i \in 1 .. Len(s) : s[i] = u

Each(x) == [w \in Workers |-> x]

NoEntries == [u \in URLIDs |-> 0]

\* A job whose URLs are queued, about to be started by the process that
\* collected them: a job of its own (status pending, id not yet known to
\* main) or one the control UI launched (starting, id given by -job).
Init ==
    /\ jobStatus \in {"pending", "starting"} /\ pauseRequested = FALSE
    /\ urlStatus = [u \in URLIDs |-> "pending"] /\ attempts = [u \in URLIDs |-> 0]
    /\ pc = Each("top") /\ held = Each(0) /\ heldAttempt = Each(0) /\ retries = Each(0)
    /\ consecFails = 0 /\ recActive = FALSE /\ entries = NoEntries /\ out = <<>>
    /\ runPc = "start" /\ runErr = "nil" /\ verdict = "none"
    /\ monitor = "idle" /\ reset = FALSE /\ runs = 1
    /\ mainPc = "recv" /\ item = 0 /\ seen = {} /\ file = {} /\ saved = {}
    /\ pauseWanted = FALSE /\ cancelled = FALSE /\ userPaused = FALSE
    /\ currentJob = (jobStatus = "starting")

\* A statement whose error the code discards or only logs.
Try(Statement) == Statement \/ ("store" \in Faults /\ UNCHANGED storeVars)

-----------------------------------------------------------------------------
(* ensureJob.                                                              *)

EnsureStep(from, to) ==
    /\ runPc = from
    /\ runPc' = to
    /\ UNCHANGED <<workerVars, sharedVars, out, verdict, writerVars, pauseWanted,
                   cancelled, userPaused, processVars>>

\* A resumed job has its claims reset before it is started.
EnsureReset ==
    /\ ~cancelled
    /\ EnsureStep("reset", "start")
    /\ ResetInProgress
    /\ UNCHANGED <<runErr, currentJob>>

EnsureStart ==
    /\ ~cancelled
    /\ EnsureStep("start", "ready")
    /\ StartJob
    /\ UNCHANGED <<runErr, currentJob>>

\* A store error, or a second Ctrl-C, which ends the store calls, ends Run before
\* any worker exists; finishJob is not called.
EnsureFails ==
    /\ "store" \in Faults \/ cancelled
    /\ \E from \in {"reset", "start"} : EnsureStep(from, "closed")
    /\ runErr' = "error"
    /\ UNCHANGED <<storeVars, currentJob>>

\* Mutant: a Ctrl-C that came before the job was known is forgotten.
JobReadyForgetsPause ==
    /\ EnsureStep("ready", "workers")
    /\ currentJob' = TRUE
    /\ UNCHANGED <<storeVars, runErr>>

\* OnJobReady = setCurrentJob of main: a Ctrl-C that came earlier is applied.
JobReady ==
    /\ EnsureStep("ready", "workers")
    /\ currentJob' = TRUE
    /\ IF pauseWanted THEN Try(RequestPause) ELSE UNCHANGED storeVars
    /\ UNCHANGED runErr

-----------------------------------------------------------------------------
(* A place worker.                                                         *)

Working(w, step) == runPc = "workers" /\ pc[w] = step

Move(w, step) ==
    /\ pc' = [pc EXCEPT ![w] = step]
    /\ UNCHANGED <<held, heldAttempt, retries>>

\* The worker lets go of its claim and moves on.
Drop(w, step) ==
    /\ pc' = [pc EXCEPT ![w] = step]
    /\ held' = [held EXCEPT ![w] = 0]
    /\ UNCHANGED <<heldAttempt, retries>>

\* The worker returns err; errgroup keeps the first error and cancels gctx.
Return(w, err) ==
    /\ Drop(w, "exited")
    /\ runErr' = IF runErr = "nil" THEN err ELSE runErr

\* What no step of a worker touches.
WorkerFrame == UNCHANGED <<runPc, verdict, writerVars, signalVars, monitor, runs>>

\* A step that changes nothing but where the worker is...
Local(w, from, to) ==
    /\ Working(w, from)
    /\ Move(w, to)
    /\ UNCHANGED <<storeVars, sharedVars, out, runErr, reset>>
    /\ WorkerFrame

\* ... and one that ends it, its row left in_progress if it holds one.
Leave(w, from, err) ==
    /\ Working(w, from)
    /\ Return(w, err)
    /\ UNCHANGED <<storeVars, sharedVars, out, reset>>
    /\ WorkerFrame

\* recovery.wait: nothing is claimed while a recovery is active.
Recovering == AutoRecover /\ recActive

Top(w) == ~Recovering /\ Local(w, "top", "claim")

Claim(w, u) ==
    /\ Working(w, "claim")
    /\ ~CtxDone
    /\ ClaimNextURL(u)
    /\ pc' = [pc EXCEPT ![w] = "delay"]
    /\ held' = [held EXCEPT ![w] = u]
    /\ heldAttempt' = [heldAttempt EXCEPT ![w] = attempts'[u]]
    /\ retries' = [retries EXCEPT ![w] = 0]
    /\ UNCHANGED <<sharedVars, out, runErr, reset>>
    /\ WorkerFrame

\* The UPDATE returned no row: pause_requested is read by a second statement.
ClaimNoRow(w) == ~CtxDone /\ NothingClaimable /\ Local(w, "claim", "noRow")

QueueEmpty(w) == ~CtxDone /\ ~pauseRequested /\ Leave(w, "noRow", "nil")

SeePause(w) == ~CtxDone /\ pauseRequested /\ Local(w, "noRow", "sawPause")

\* ErrJobPaused: a pause made by a recovery that is still active is waited
\* out, any other ends the run.
PauseIsRecovery(w) == Recovering /\ Local(w, "sawPause", "top")

PauseEndsRun(w) == ~Recovering /\ Leave(w, "sawPause", "paused")

BrowseDelay(w) == Local(w, "delay", "acquire")

AcquirePage(w) == Local(w, "acquire", "scrape")

\* A cancelled context ends the call the worker is in.
Cancelled(w) ==
    /\ CtxDone
    /\ \/ \E from \in {"claim", "noRow", "delay", "acquire", "emit"} :
             Leave(w, from, "canceled")
       \/ Recovering /\ Leave(w, "top", "canceled")

\* A store error in ClaimNextURL; an AcquirePage that gives up.
CallFails(w) ==
    \/ "store" \in Faults /\ \E from \in {"claim", "noRow"} : Leave(w, from, "error")
    \/ "acquire" \in Faults /\ Leave(w, "acquire", "error")

\* A scrape that succeeds, over HTTP (no page) or in the browser.
ScrapeOK(w) ==
    /\ \/ Working(w, "scrape")
       \/ HTTPFirst /\ retries[w] = 0 /\ Working(w, "acquire")
    /\ consecFails' = 0
    /\ IF UseRadius
       THEN Drop(w, "top") /\ entries' = [entries EXCEPT ![held[w]] = @ + 1]
       ELSE Move(w, "emit") /\ UNCHANGED entries
    /\ UNCHANGED <<storeVars, recActive, out, runErr, reset>>
    /\ WorkerFrame

Emit(w) ==
    /\ Working(w, "emit")
    /\ Len(out) < OutCap
    /\ out' = Append(out, held[w])
    /\ Drop(w, "top")
    /\ UNCHANGED <<storeVars, sharedVars, runErr, reset>>
    /\ WorkerFrame

\* A transient navigation error is retried on another page, still claimed.
FastRetry(w) ==
    /\ "nav" \in Faults
    /\ Working(w, "scrape")
    /\ retries[w] < FastRetries
    /\ pc' = [pc EXCEPT ![w] = "acquire"]
    /\ retries' = [retries EXCEPT ![w] = @ + 1]
    /\ UNCHANGED <<held, heldAttempt, storeVars, sharedVars, out, runErr, reset>>
    /\ WorkerFrame

\* How a scrape can end for good in error; a cancelled context is an error
\* like any other here.
ScrapeError(w, e) ==
    /\ Working(w, "scrape")
    /\ \/ e \in Faults \ {"nav"}
       \/ e = "nav" /\ e \in Faults /\ retries[w] = FastRetries
       \/ e = "error" /\ CtxDone
    /\ UNCHANGED <<recActive, entries, out, reset>>
    /\ WorkerFrame

AttemptsExhausted(w) == MaxURLAttempts > 0 /\ heldAttempt[w] >= MaxURLAttempts

NonRetryable(w, e) == e = "extra" \/ AttemptsExhausted(w)

\* One more consecutive failure, saturated.
Failures == IF consecFails < BlockThreshold THEN consecFails + 1 ELSE consecFails

\* AutoRecover: the URL is given up...
GiveUpURL(w, e) ==
    /\ AutoRecover
    /\ ScrapeError(w, e)
    /\ NonRetryable(w, e)
    /\ Try(MarkURLFailed(held[w]))
    /\ Drop(w, "top")
    /\ UNCHANGED <<consecFails, runErr>>

\* ... or queued again, and a block or too many failures start a recovery.
RetryURL(w, e) ==
    /\ AutoRecover
    /\ ScrapeError(w, e)
    /\ ~NonRetryable(w, e)
    /\ Try(RequeueURL(held[w]))
    /\ consecFails' = IF e = "block" THEN consecFails ELSE Failures
    /\ Drop(w, IF e = "block" \/ Failures = BlockThreshold THEN "trigger" ELSE "top")
    /\ UNCHANGED runErr

\* Without AutoRecover a failure is final and a streak of them ends the run.
FailURL(w, e) ==
    /\ ~AutoRecover
    /\ ScrapeError(w, e)
    /\ Try(MarkURLFailed(held[w]))
    /\ consecFails' = Failures
    /\ IF Failures = BlockThreshold
       THEN Return(w, "blocked")
       ELSE Drop(w, "top") /\ UNCHANGED runErr

-----------------------------------------------------------------------------
(* recoveryCoordinator.trigger.  Waiting on `done` and looping in wait are *)
(* both "top" while recActive: close(done) wakes waiters that then still   *)
(* see active until the leader has taken the lock again.                   *)

TriggerJoin(w) == recActive /\ Local(w, "trigger", "top")

RecoveryStep(w, from, to) ==
    /\ Working(w, from)
    /\ Move(w, to)
    /\ UNCHANGED <<consecFails, entries, out, runErr>>
    /\ WorkerFrame

TriggerLead(w) ==
    /\ ~recActive
    /\ RecoveryStep(w, "trigger", "recPause")
    /\ recActive' = TRUE
    /\ UNCHANGED <<storeVars, reset>>

\* The leader's statements up to the sleep, and after it.
RecoveryPause(w) ==
    /\ \/ RecoveryStep(w, "recPause", "recStatus") /\ RequestPause
       \/ RecoveryStep(w, "recStatus", "recSleep") /\ Try(SetJobStatus("paused"))
    /\ UNCHANGED <<recActive, reset>>

RecoverySleep(w) == Local(w, "recSleep", "recReset")

RecoveryReset(w) ==
    /\ RecoveryStep(w, "recReset", "recClear")
    /\ ResetInProgress
    /\ reset' = TRUE
    /\ UNCHANGED recActive

RecoveryResume(w) ==
    /\ \/ RecoveryStep(w, "recClear", "recStart") /\ ClearPause
       \/ RecoveryStep(w, "recStart", "recDone") /\ StartJob
    /\ UNCHANGED <<recActive, reset>>

\* Mutant: the leader leaves when its recovery is over.
RecoveryDoneLeaves(w) ==
    /\ RecoveryStep(w, "recDone", "exited")
    /\ recActive' = FALSE
    /\ UNCHANGED <<storeVars, reset>>

\* Mutant: the recovery stays active.
RecoveryNeverDone(w) ==
    RecoveryStep(w, "recDone", "top") /\ UNCHANGED <<storeVars, recActive, reset>>

RecoveryDone(w) ==
    /\ RecoveryStep(w, "recDone", "top")
    /\ recActive' = FALSE
    /\ UNCHANGED <<storeVars, reset>>

\* A cancelled sleep or a store error: recovery ends and the worker returns.
RecoveryAborts(w) ==
    /\ \/ CtxDone /\ Working(w, "recSleep") /\ Return(w, "canceled")
       \/ /\ "store" \in Faults
          /\ \E s \in {"recPause", "recReset", "recClear", "recStart"} : Working(w, s)
          /\ Return(w, "error")
    /\ recActive' = FALSE
    /\ UNCHANGED <<storeVars, consecFails, entries, out, reset>>
    /\ WorkerFrame

-----------------------------------------------------------------------------
(* After the workers: Run joins them and the monitor, emits the results the*)
(* radius filter keeps, and finishJob decides the job's status.            *)

RunStep(from, to) ==
    /\ runPc = from
    /\ runPc' = to
    /\ UNCHANGED <<workerVars, consecFails, recActive, runErr, writerVars,
                   signalVars, processVars>>

Exited == \A w \in Workers : pc[w] = "exited"

JoinWorkers ==
    /\ RunStep("workers", IF UseRadius /\ runErr # "error" THEN "filter" ELSE "finRead")
    /\ Exited
    /\ monitor = "idle"
    /\ UNCHANGED <<storeVars, entries, out, verdict>>

Outside(u) == u \notin InRadius

\* Mutant: the filter drops what lies within the radius.
FilterInside(u) ==
    /\ RunStep("filter", "filter")
    /\ entries[u] > 0
    /\ MarkURLDone(u)
    /\ entries' = [entries EXCEPT ![u] = 0]
    /\ UNCHANGED <<out, verdict>>

FilterOut(u) ==
    /\ RunStep("filter", "filter")
    /\ Outside(u) /\ entries[u] > 0
    /\ Try(MarkURLDone(u))
    /\ entries' = [entries EXCEPT ![u] = 0]
    /\ UNCHANGED <<out, verdict>>

FilterDone ==
    /\ RunStep("filter", "emitKept")
    /\ \A u \in URLIDs : entries[u] > 0 => ~Outside(u)
    /\ UNCHANGED <<storeVars, entries, out, verdict>>

\* The nearest first: for the model, in any order.
EmitKept ==
    /\ RunStep("emitKept", "emitKept")
    /\ \E u \in URLIDs :
          /\ entries[u] > 0
          /\ entries' = [entries EXCEPT ![u] = @ - 1]
          /\ \/ Len(out) < OutCap /\ out' = Append(out, u)
             \/ cancelled /\ UNCHANGED out    \* the break leaves only the select
    /\ UNCHANGED <<storeVars, verdict>>

EmitKeptDone ==
    /\ RunStep("emitKept", "finRead")
    /\ entries = NoEntries
    /\ UNCHANGED <<storeVars, entries, out, verdict>>

\* When the count cannot be read the status is left alone.
StatsVerdict == {Verdict} \cup (IF "store" \in Faults THEN {"none"} ELSE {})

FinishRead ==
    /\ RunStep("finRead", "finSet")
    /\ verdict' \in CASE runErr = "nil"      -> StatsVerdict
                      [] runErr = "canceled" -> {"none"}
                      [] runErr = "error"    -> {"failed"}
                      [] OTHER               -> {runErr}    \* paused, blocked
    /\ UNCHANGED <<storeVars, entries, out>>

\* Mutant: the job is settled even when work is left.
SettleAlways == SetJobStatus(verdict) /\ verdict' = "none"

SettleJob ==
    /\ IF verdict = "none" THEN UNCHANGED storeVars ELSE Try(SetJobStatus(verdict))
    /\ verdict' = "none"

\* SetJobStatus, then the deferred close(out).
FinishSet ==
    /\ RunStep("finSet", "closed")
    /\ SettleJob
    /\ UNCHANGED <<entries, out>>

-----------------------------------------------------------------------------
(* runStallMonitor: no progress for StallTimeout with work left.           *)

MonitorStep(from, to) ==
    /\ runPc = "workers"
    /\ monitor = from
    /\ monitor' = to
    /\ UNCHANGED <<workerVars, sharedVars, out, runVars, writerVars, signalVars, runs>>

HasWork ==
    \/ \E w \in Workers : pc[w] \in ClaimSteps
    \/ URLsWith("pending") \cup URLsWith("in_progress") # {}

StallDetected ==
    /\ "stall" \in Faults
    /\ ~recActive
    /\ HasWork
    /\ MonitorStep("idle", "reset")
    /\ UNCHANGED <<storeVars, reset>>

StallReset ==
    /\ MonitorStep("reset", "status")
    /\ Try(ResetInProgress)
    /\ reset' = TRUE

StallStatus ==
    /\ MonitorStep("status", "exit")
    /\ Try(SetJobStatus("paused"))
    /\ UNCHANGED reset

-----------------------------------------------------------------------------
(* The writer loop of main.                                                *)

SamePlace(u, v) == PlaceOf[u] # NoPlace /\ PlaceOf[u] = PlaceOf[v]

WriterStep(from, to) ==
    /\ Alive
    /\ mainPc = from
    /\ mainPc' = to
    /\ UNCHANGED <<workerVars, sharedVars, runPc, runErr, signalVars, processVars>>

Receive ==
    /\ WriterStep("recv", "have")
    /\ out # <<>>
    /\ item' = Head(out)
    /\ out' = Tail(out)
    /\ UNCHANGED <<storeVars, verdict, seen, file, saved>>

\* Mutants: an entry without an identity counts as seen; entries are told
\* apart by URL.
AnonymousDuplicate(u) == PlaceOf[u] \in seen \cup {NoPlace}
SameURLDuplicate(u) == u \in file

Duplicate(u) == PlaceOf[u] # NoPlace /\ PlaceOf[u] \in seen

SkipDuplicate ==
    /\ WriterStep("have", "recv")
    /\ Duplicate(item)
    /\ Try(MarkURLDone(item))
    /\ item' = 0
    /\ UNCHANGED <<out, verdict, seen, file, saved>>

\* Write succeeds and the identity is recorded.  An unbuffered writer has the
\* entry in the file or table at once; the CSV writer holds it in a buffer
\* that is handed over when it is full and when it is closed.
WriteEntry ==
    /\ WriterStep("have", "mark")
    /\ ~Duplicate(item)
    /\ seen' = seen \cup ({PlaceOf[item]} \ {NoPlace})
    /\ file' = file \cup {item}
    /\ saved' \in IF BufferedWriter THEN {saved, saved \cup file}
                  ELSE {saved \cup {item}}
    /\ UNCHANGED <<storeVars, out, verdict, item>>

\* Write fails, or no writer exists for the result's language.
WriteFails ==
    /\ "write" \in Faults
    /\ WriterStep("have", "recv")
    /\ ~Duplicate(item)
    /\ Try(MarkURLFailed(item))
    /\ item' = 0
    /\ UNCHANGED <<out, verdict, seen, file, saved>>

MarkWritten ==
    /\ WriterStep("mark", "recv")
    /\ Try(MarkURLDone(item))
    /\ item' = 0
    /\ UNCHANGED <<out, verdict, seen, file, saved>>

\* `out` is closed and drained; Run's error tells main whether to settle the
\* job again: results written after finishJob may have completed it.
Drained ==
    /\ WriterStep("recv", IF runErr \in {"nil", "canceled"} THEN "finRead" ELSE "exit")
    /\ runPc = "closed"
    /\ out = <<>>
    /\ UNCHANGED <<storeVars, out, verdict, item, seen, file, saved>>

\* Mutant: main trusts the status that finishJob set.
MainKeepsStatus ==
    /\ WriterStep("finRead", "finSet")
    /\ verdict' = "none"
    /\ UNCHANGED <<storeVars, out, item, seen, file, saved>>

MainFinishRead ==
    /\ WriterStep("finRead", "finSet")
    /\ verdict' \in StatsVerdict
    /\ UNCHANGED <<storeVars, out, item, seen, file, saved>>

MainFinishSet ==
    /\ WriterStep("finSet", "exit")
    /\ SettleJob
    /\ UNCHANGED <<out, item, seen, file, saved>>

-----------------------------------------------------------------------------
(* Signals and the control UI.                                             *)

SignalFrame == UNCHANGED <<workerVars, sharedVars, out, runVars, writerVars,
                           currentJob, processVars>>

SignalPause ==
    /\ "ctrlc" \in Faults
    /\ Alive /\ ~pauseWanted
    /\ pauseWanted' = TRUE
    /\ userPaused' = TRUE
    /\ IF currentJob THEN Try(RequestPause) ELSE UNCHANGED storeVars
    /\ UNCHANGED cancelled
    /\ SignalFrame

SignalCancel ==
    /\ "cancel" \in Faults
    /\ Alive /\ pauseWanted /\ ~cancelled
    /\ cancelled' = TRUE
    /\ UNCHANGED <<storeVars, pauseWanted, userPaused>>
    /\ SignalFrame

\* POST /api/jobs/{id}/pause from the control process.
ControlPause ==
    /\ "uipause" \in Faults
    /\ Alive /\ ~userPaused
    /\ RequestPause
    /\ userPaused' = TRUE
    /\ UNCHANGED <<pauseWanted, cancelled>>
    /\ SignalFrame

-----------------------------------------------------------------------------
(* The process ends, and another one resumes the job.                      *)

ProcessGone ==
    /\ runPc' = "down" /\ mainPc' = "down" /\ monitor' = "idle"
    /\ pc' = Each("top") /\ held' = Each(0)
    /\ heldAttempt' = Each(0) /\ retries' = Each(0)
    /\ consecFails' = 0 /\ recActive' = FALSE /\ entries' = NoEntries /\ out' = <<>>
    /\ verdict' = "none" /\ item' = 0 /\ seen' = {} /\ file' = {}
    /\ reset' = FALSE
    /\ UNCHANGED <<storeVars, signalVars, runs>>

\* closeAll flushes the writers.
MainExit ==
    /\ mainPc = "exit"
    /\ ProcessGone
    /\ saved' = saved \cup file
    /\ UNCHANGED runErr

\* os.Exit(3) of the stall monitor, or the process is killed: no flush.
Dies ==
    /\ \/ monitor = "exit"
       \/ "crash" \in Faults /\ Alive
    /\ ProcessGone
    /\ runErr' = "error"
    /\ UNCHANGED saved

\* `-job <id>` on a job that is not done.  One that is still starting is discovered
\* again, with its rows there: nothing new is found, or inserting what is found
\* violates UNIQUE(job_id, position) and Run ends.
Restart ==
    /\ ~Alive
    /\ runs < MaxRuns
    /\ jobStatus # "done"
    /\ runs' = runs + 1
    /\ runPc' \in IF jobStatus = "starting" THEN {"start", "closed"} ELSE {"reset"}
    /\ runErr' = (IF runPc' = "closed" THEN "error" ELSE "nil")
    /\ mainPc' = "recv"
    /\ pauseWanted' = FALSE /\ cancelled' = FALSE /\ userPaused' = FALSE
    /\ currentJob' = TRUE
    /\ UNCHANGED <<storeVars, workerVars, sharedVars, out, verdict, item, seen,
                   file, saved, monitor, reset>>

-----------------------------------------------------------------------------
WorkerNext(w) ==
    \/ Top(w) \/ (\E u \in URLIDs : Claim(w, u)) \/ ClaimNoRow(w)
    \/ QueueEmpty(w) \/ SeePause(w) \/ PauseIsRecovery(w) \/ PauseEndsRun(w)
    \/ BrowseDelay(w) \/ AcquirePage(w) \/ Cancelled(w) \/ CallFails(w)
    \/ ScrapeOK(w) \/ Emit(w) \/ FastRetry(w)
    \/ \E e \in ScrapeFaults : GiveUpURL(w, e) \/ RetryURL(w, e) \/ FailURL(w, e)
    \/ TriggerJoin(w) \/ TriggerLead(w) \/ RecoveryPause(w) \/ RecoverySleep(w)
    \/ RecoveryReset(w) \/ RecoveryResume(w) \/ RecoveryDone(w) \/ RecoveryAborts(w)

RunNext ==
    \/ EnsureReset \/ EnsureStart \/ EnsureFails \/ JobReady
    \/ JoinWorkers \/ (\E u \in URLIDs : FilterOut(u))
    \/ FilterDone \/ EmitKept \/ EmitKeptDone \/ FinishRead \/ FinishSet

MonitorNext == StallDetected \/ StallReset \/ StallStatus

WriterNext ==
    \/ Receive \/ SkipDuplicate \/ WriteEntry \/ WriteFails \/ MarkWritten
    \/ Drained \/ MainFinishRead \/ MainFinishSet \/ MainExit

EnvironmentNext == SignalPause \/ SignalCancel \/ ControlPause \/ Dies \/ Restart

Next ==
    \/ \E w \in Workers : WorkerNext(w)
    \/ RunNext \/ MonitorNext \/ WriterNext \/ EnvironmentNext

Spec == Init /\ [][Next]_vars

\* Goroutines that can run are run.  Sleeps and watchdogs end, so a worker
\* inside one takes its next step; nothing obliges a user, a crash or a stall.
Fairness ==
    /\ \A w \in Workers : WF_vars(WorkerNext(w))
    /\ WF_vars(RunNext)
    /\ WF_vars(StallReset) /\ WF_vars(StallStatus)
    /\ WF_vars(monitor = "exit" /\ Dies)
    /\ WF_vars(WriterNext)

FairSpec == Spec /\ Fairness

-----------------------------------------------------------------------------
(* Safety.                                                                 *)

\* A worker leaves when it finds no pending row, although rows that others
\* hold may still be queued again (Run, ClaimNextURL).  When all have left
\* without an error nothing is left behind: whoever requeues a row, or resets
\* rows in a recovery, stays to claim it.
QueueDrained ==
    Exited /\ runErr = "nil" /\ monitor = "idle" => URLsWith("pending") = {}

\* An in_progress row of a healthy run is somebody's: a worker, the radius
\* buffer, the channel or the writer has it.  Otherwise nobody would settle it
\* before a restart.  (A mark the store refuses leaves exactly such a row.)
Carried(u) ==
    \/ \E w \in Workers : held[w] = u
    \/ entries[u] > 0 \/ Occurs(u, out) \/ item = u

ClaimsAreCarried ==
    Alive /\ runPc # "reset" /\ ~CtxDone =>
        \A u \in URLsWith("in_progress") : Carried(u)

\* A row is marked done only after the output has its place: itself, an
\* entry of the same place, or none because the radius filter dropped it
\* (writer loop of main; the deferred MarkURLDone of Run).  For rows a dead
\* process left done, only what survived it counts.
Delivered(u, S) ==
    \/ \E v \in S : v = u \/ SamePlace(u, v)
    \/ UseRadius /\ Outside(u)

DoneIsDelivered ==
    \A u \in URLsWith("done") : Delivered(u, IF Alive THEN saved \cup file ELSE saved)

\* Nothing resumes a job that is done, so `done` must mean every URL is.  The
\* status is set from a count read earlier, by Run and by main in turn, while
\* the writer still marks rows (finishJob; the end of main).
DoneJobIsComplete ==
    jobStatus = "done" => \A u \in URLIDs : urlStatus[u] = "done"

\* Until a reset (recovery, stall) has put claimed rows back under their
\* holders, no two workers hold the same URL (ClaimNextURL).
ClaimsAreExclusive ==
    ~reset => \A v, w \in Workers : held[v] = held[w] /\ held[v] # 0 => v = w

-----------------------------------------------------------------------------
(* What a step may never do.                                               *)

Claimed(u) == urlStatus[u] = "pending" /\ urlStatus'[u] = "in_progress"

\* Between the pause a recovery sets and the one it lifts nobody claims: the
\* pause of 10 to 60 minutes is a pause for every worker (trigger).
NoClaimWhileRecovering ==
    [][\A u \in URLIDs, w \in Workers :
          Claimed(u) => pc[w] \notin {"recStatus", "recSleep", "recReset", "recClear"}]_vars

\* README.md:172: after the first Ctrl-C "no new URLs are claimed", whatever the
\* workers, a failing neighbour and a recovery are at, until a recovery has reset
\* the claims: it then lifts any pause with its own.
PauseStopsClaims ==
    [][\A u \in URLIDs :
          runPc = "workers" /\ pauseWanted /\ ~(AutoRecover /\ reset) => ~Claimed(u)]_vars

\* Without a reset under its holders, a row that is done stays done; the marks
\* themselves are unconditional UPDATEs (MarkURLFailed, RequeueURL).
DoneIsFinal ==
    [][\A u \in URLIDs : urlStatus[u] = "done" /\ ~reset => urlStatus'[u] = "done"]_vars

\* One process writes a place that has an identity once, even when a recovery
\* made two workers scrape it or two URLs lead to it (placeDeduper).
NoPlaceTwice ==
    [][mainPc = "have" /\ mainPc' = "mark" => \A v \in file : ~SamePlace(v, item)]_vars

-----------------------------------------------------------------------------
(* Liveness.                                                               *)

\* Run and main end by themselves: no worker waits for ever on `out`, on a
\* recovery or on a sibling, and the retries are finitely many.
RunEnds == <>(~Alive)

\* A run that no pause ended settles every URL, through recoveries and failed
\* writes, and gives the job a final status: the last count is taken after the
\* last row was marked (finishJob, then main).
JobSettles ==
    <>[](runErr = "nil" =>
            /\ jobStatus \in {"done", "failed"}
            /\ URLsWith("pending") \cup URLsWith("in_progress") = {})

=============================================================================
