-------------------------- MODULE ScraperRunProofs --------------------------
(***************************************************************************)
(* What the workers, the recovery they share, the writer loop and the process*)
(* that resumes the job keep of the job's rows: every safety property of   *)
(* ScraperRun, for any queue, any workers, retries and thresholds.  An     *)
(* invariant is in the section that needs it.                              *)
(***************************************************************************)
EXTENDS ScraperRunTypes

-----------------------------------------------------------------------------
(* The recovery and its leader. *)

\* One worker leads a recovery, and the job is paused until it says otherwise.
OneLeader ==
    /\ \A v, w \in Workers : pc[v] \in RecoverySteps /\ pc[w] \in RecoverySteps => v = w
    /\ recActive => \E w \in Workers : pc[w] \in RecoverySteps
    /\ \A w \in Workers : pc[w] \in RecoverySteps => recActive

LeaderPauses ==
    \A w \in Workers :
        pc[w] \in {"recStatus", "recSleep", "recReset", "recClear"} => pauseRequested

PausedSteps == {"recStatus", "recSleep", "recReset", "recClear"}

\* What a worker's step means for the recovery: none of its business, its
\* start, a step of its leader, its end.
LEMMA WorkerMoves ==
    ASSUME TypeInv, NEW w \in Workers, WorkerNext(w)
    PROVE  /\ pc' = [pc EXCEPT ![w] = pc'[w]]
           /\ \/ pc[w] \notin RecoverySteps /\ pc'[w] \notin RecoverySteps /\ UNCHANGED recActive
              \/ ~recActive /\ recActive' = TRUE /\ pc'[w] = "recPause"
              \/ /\ pc[w] \in RecoverySteps /\ pc'[w] \in RecoverySteps /\ UNCHANGED recActive
                 /\ pc'[w] \in PausedSteps =>
                       pauseRequested' \/ (pc[w] \in PausedSteps /\ UNCHANGED pauseRequested)
              \/ pc[w] \in RecoverySteps /\ pc'[w] \notin RecoverySteps /\ recActive' = FALSE
<1>0. pc \in [Workers -> WorkerSteps]
  BY DEF TypeInv, TypeOK
<1> USE DEF RecoverySteps, PausedSteps
<1>1. CASE Top(w) \/ ClaimNoRow(w) \/ SeePause(w) \/ PauseIsRecovery(w) \/ TriggerJoin(w)
           \/ BrowseDelay(w) \/ AcquirePage(w)
  BY <1>0, <1>1 DEF Top, ClaimNoRow, SeePause, PauseIsRecovery, TriggerJoin, BrowseDelay,
     AcquirePage, Local, Working, Move, sharedVars
<1>2. CASE QueueEmpty(w) \/ PauseEndsRun(w) \/ Cancelled(w) \/ CallFails(w)
  BY <1>0, <1>2 DEF QueueEmpty, PauseEndsRun, Cancelled, CallFails, Leave, Working, Return, Drop,
     sharedVars
<1>3. CASE (\E u \in URLIDs : Claim(w, u)) \/ FastRetry(w)
  BY <1>0, <1>3 DEF Claim, FastRetry, Working, sharedVars
<1>4. CASE ScrapeOK(w) \/ Emit(w)
  BY <1>0, <1>4 DEF ScrapeOK, Emit, Working, Move, Drop, sharedVars
<1>5. CASE \E e \in ScrapeFaults : GiveUpURL(w, e) \/ RetryURL(w, e) \/ FailURL(w, e)
  BY <1>0, <1>5 DEF GiveUpURL, RetryURL, FailURL, ScrapeError, Working, Drop, Return
<1>6. CASE TriggerLead(w) \/ RecoveryPause(w) \/ RecoveryReset(w) \/ RecoveryResume(w)
  BY <1>0, <1>6 DEF TriggerLead, RecoveryPause, RecoveryReset, RecoveryResume, RecoveryStep,
     Working, Move, RequestPause, Try, SetJobStatus, storeVars, ResetInProgress
<1>7. CASE RecoverySleep(w)
  BY <1>0, <1>7 DEF RecoverySleep, Local, Working, Move, sharedVars, storeVars
<1>8. CASE RecoveryDone(w) \/ RecoveryAborts(w)
  BY <1>0, <1>8 DEF RecoveryDone, RecoveryAborts, RecoveryStep, Working, Move, Return, Drop
<1> QED
  BY <1>1, <1>2, <1>3, <1>4, <1>5, <1>6, <1>7, <1>8 DEF WorkerNext

\* Only ensureJob and the leader of a recovery lift a pause.
LEMMA PauseLifted ==
    ASSUME [Next]_vars, pauseRequested, ~pauseRequested'
    PROVE  EnsureStart \/ \E w \in Workers : RecoveryResume(w)
<1>1. ~UNCHANGED pauseRequested
  OBVIOUS
<1> USE DEF storeVars, Try, RequestPause, MarkURLDone, MarkURLFailed, RequeueURL, SetURLStatus,
            ResetInProgress, SetJobStatus
<1>2. ASSUME NEW w \in Workers, WorkerNext(w)
      PROVE  RecoveryResume(w)
  <2>1. ~(Top(w) \/ ClaimNoRow(w) \/ SeePause(w) \/ PauseIsRecovery(w) \/ TriggerJoin(w)
            \/ BrowseDelay(w) \/ AcquirePage(w) \/ RecoverySleep(w))
    BY <1>1 DEF Top, ClaimNoRow, SeePause, PauseIsRecovery, TriggerJoin, BrowseDelay, AcquirePage,
       RecoverySleep, Local
  <2>2. ~(QueueEmpty(w) \/ PauseEndsRun(w) \/ Cancelled(w) \/ CallFails(w))
    BY <1>1 DEF QueueEmpty, PauseEndsRun, Cancelled, CallFails, Leave
  <2>3. ~((\E u \in URLIDs : Claim(w, u)) \/ FastRetry(w) \/ ScrapeOK(w) \/ Emit(w))
    BY <1>1 DEF Claim, ClaimNextURL, FastRetry, ScrapeOK, Emit
  <2>4. ~\E e \in ScrapeFaults : GiveUpURL(w, e) \/ RetryURL(w, e) \/ FailURL(w, e)
    BY <1>1 DEF GiveUpURL, RetryURL, FailURL
  <2>5. ~(TriggerLead(w) \/ RecoveryPause(w) \/ RecoveryReset(w) \/ RecoveryDone(w)
            \/ RecoveryAborts(w))
    BY <1>1 DEF TriggerLead, RecoveryPause, RecoveryReset, RecoveryDone, RecoveryAborts
  <2> QED
    BY <1>2, <2>1, <2>2, <2>3, <2>4, <2>5 DEF WorkerNext
<1>3. ~MonitorNext
  BY <1>1 DEF MonitorNext, StallDetected, StallReset, StallStatus
<1>4. ~WriterNext
  BY <1>1 DEF WriterNext, Receive, SkipDuplicate, WriteEntry, WriteFails, MarkWritten, Drained,
     MainFinishRead, MainFinishSet, SettleJob, MainExit, ProcessGone
<1>5. ~EnvironmentNext
  BY <1>1 DEF EnvironmentNext, SignalPause, SignalCancel, ControlPause, Dies, ProcessGone, Restart
<1>6. RunNext => EnsureStart
  BY <1>1 DEF RunNext, EnsureReset, EnsureFails, JobReady, JoinWorkers, FilterOut, FilterDone,
     EmitKept, EmitKeptDone, FinishRead, FinishSet, SettleJob
<1> QED
  BY <1>1, <1>2, <1>3, <1>4, <1>5, <1>6 DEF Next, vars

\* What is not a worker's step leaves the workers and the recovery alone, but
\* for the end of the process.
LEMMA OthersMoves ==
    ASSUME [Next]_vars, \A w \in Workers : ~WorkerNext(w)
    PROVE  \/ UNCHANGED <<workerVars, consecFails, recActive>>
           \/ ProcessGone /\ (Dies \/ MainExit)
BY DEF Next, vars, RunNext, EnsureReset, EnsureStart, EnsureFails, JobReady, EnsureStep,
   JoinWorkers, FilterOut, FilterDone, EmitKept, EmitKeptDone, FinishRead, FinishSet, RunStep, MonitorNext,
       StallDetected, StallReset, StallStatus, MonitorStep, WriterNext, Receive, SkipDuplicate,
       WriteEntry, WriteFails, MarkWritten, Drained, MainFinishRead, MainFinishSet, WriterStep,
       MainExit, EnvironmentNext, SignalPause, SignalCancel, ControlPause, SignalFrame, Dies,
       Restart, sharedVars

RecoveryInv == OneLeader /\ LeaderPauses

LEMMA RecoveryInvariant ==
    /\ Init => RecoveryInv
    /\ ProcessInv /\ RecoveryInv /\ [Next]_vars => RecoveryInv'
<1> USE DEF RecoveryInv, OneLeader, LeaderPauses
<1>1. Init => RecoveryInv
  BY DEF Init, Each, RecoverySteps
<1>2. ASSUME ProcessInv, RecoveryInv, [Next]_vars
      PROVE  RecoveryInv'
  <2> DEFINE Paused ==
             \A v \in Workers : pc'[v] \in PausedSteps => pauseRequested' \/ pc[v] \in PausedSteps
  <2>0. pc \in [Workers -> WorkerSteps] /\ PausedSteps \subseteq RecoverySteps \ {"recPause"}
    BY <1>2 DEF ProcessInv, TypeInv, TypeOK, PausedSteps, RecoverySteps
  <2>1. ASSUME \E w \in Workers : WorkerNext(w)
        PROVE  OneLeader' /\ Paused
    <3>1. PICK w \in Workers : WorkerNext(w)
      BY <2>1
    <3>2. OneLeader'
      BY <1>2, <2>0, <3>1, WorkerMoves DEF ProcessInv, RecoverySteps
    <3>3. Paused
      BY <1>2, <2>0, <3>1, WorkerMoves DEF ProcessInv
    <3> QED
      BY <3>2, <3>3
  <2>2. ASSUME \A w \in Workers : ~WorkerNext(w)
        PROVE  OneLeader' /\ Paused
    <3>1. CASE UNCHANGED <<workerVars, consecFails, recActive>>
      BY <1>2, <3>1 DEF workerVars
    <3>2. CASE ProcessGone
      BY <3>2 DEF ProcessGone, Each, RecoverySteps, PausedSteps
    <3> QED
      BY <1>2, <2>2, <3>1, <3>2, OthersMoves
  <2>3. OneLeader'
    BY <2>1, <2>2
  <2>4. ASSUME NEW v \in Workers, pc'[v] \in PausedSteps, ~pauseRequested'
        PROVE  FALSE
    <3>1. pc[v] \in PausedSteps
      BY <2>1, <2>2, <2>4
    <3>2. pauseRequested
      BY <1>2, <3>1 DEF PausedSteps
    <3>3. ~EnsureStart
      BY <1>2, <3>1 DEF EnsureStart, EnsureStep, ProcessInv, Phases, Before, PausedSteps
    <3>4. PICK x \in Workers : RecoveryResume(x)
      BY <1>2, <2>4, <3>2, <3>3, PauseLifted
    <3>5. pc[x] \in {"recClear", "recStart"} /\ pc'[x] \in {"recStart", "recDone"}
      BY <2>0, <3>4 DEF RecoveryResume, RecoveryStep, Working, Move
    <3>6. x = v
      BY <1>2, <2>0, <3>1, <3>5 DEF RecoverySteps
    <3> QED
      BY <2>4, <3>5, <3>6 DEF PausedSteps
  <2> QED
    BY <2>3, <2>4 DEF PausedSteps
<1> QED
  BY <1>1, <1>2

-----------------------------------------------------------------------------
(* Where a claim goes. *)

Distinct(s) == \A i, j \in 1 .. Len(s) : s[i] = s[j] => i = j

LEMMA AppendOccurs ==
    ASSUME NEW S, NEW s \in Seq(S), NEW x \in S
    PROVE  /\ \A u : Occurs(u, Append(s, x)) <=> Occurs(u, s) \/ u = x
           /\ Distinct(s) /\ ~Occurs(x, s) => Distinct(Append(s, x))
<1>1. /\ Len(Append(s, x)) = Len(s) + 1 /\ Len(s) \in Nat
      /\ \A i \in 1 .. Len(s) : Append(s, x)[i] = s[i]
      /\ Append(s, x)[Len(s) + 1] = x
  OBVIOUS
<1>2. \A u : Occurs(u, Append(s, x)) <=> Occurs(u, s) \/ u = x
  BY <1>1 DEF Occurs
<1>3. Distinct(s) /\ ~Occurs(x, s) => Distinct(Append(s, x))
  BY <1>1 DEF Occurs, Distinct
<1> QED
  BY <1>2, <1>3

LEMMA TailOccurs ==
    ASSUME NEW S, NEW s \in Seq(S), s # <<>>
    PROVE  /\ \A u : Occurs(u, s) <=> u = Head(s) \/ Occurs(u, Tail(s))
           /\ Distinct(s) => Distinct(Tail(s)) /\ ~Occurs(Head(s), Tail(s))
<1>1. /\ Len(s) \in Nat \ {0} /\ Len(Tail(s)) = Len(s) - 1 /\ Head(s) = s[1]
      /\ \A i \in 1 .. Len(Tail(s)) : Tail(s)[i] = s[i + 1]
  OBVIOUS
<1>2. \A i \in 1 .. Len(s) : i = 1 \/ (i - 1 \in 1 .. Len(Tail(s)) /\ Tail(s)[i - 1] = s[i])
  BY <1>1
<1>3. \A u : Occurs(u, s) <=> u = Head(s) \/ Occurs(u, Tail(s))
  <2>1. ASSUME NEW u, Occurs(u, s) PROVE u = Head(s) \/ Occurs(u, Tail(s))
    BY <1>1, <1>2, <2>1 DEF Occurs
  <2>2. ASSUME NEW u, u = Head(s) \/ Occurs(u, Tail(s)) PROVE Occurs(u, s)
    BY <1>1, <2>2 DEF Occurs
  <2> QED
    BY <2>1, <2>2
<1>4. Distinct(s) => Distinct(Tail(s)) /\ ~Occurs(Head(s), Tail(s))
  BY <1>1 DEF Occurs, Distinct
<1> QED
  BY <1>3, <1>4

\* A worker puts its result in the radius buffer or in the channel, or lets go
\* of its claim.
ToBuffer(w) ==
    /\ held[w] \in URLIDs /\ held' = [held EXCEPT ![w] = 0]
    /\ entries' = [entries EXCEPT ![held[w]] = @ + 1]
    /\ UNCHANGED <<out, item>>

ToChannel(w) ==
    /\ held[w] \in URLIDs /\ held' = [held EXCEPT ![w] = 0]
    /\ out' = Append(out, held[w])
    /\ UNCHANGED <<entries, item>>

LetsGo(w) ==
    /\ held[w] \in URLIDs /\ held' = [held EXCEPT ![w] = 0]
    /\ UNCHANGED <<entries, out, item>>

\* Run takes a result from the buffer, and has it for the channel or drops it.
FromBuffer(u) ==
    /\ entries[u] > 0 /\ entries' = [entries EXCEPT ![u] = @ - 1]
    /\ UNCHANGED <<held, item>>

Dropped(u) ==
    /\ entries' = [entries EXCEPT ![u] = 0]
    /\ UNCHANGED <<held, out, item>>

\* The writer takes a result from the channel, and is done with it.
ToWriter ==
    /\ item = 0 /\ out # <<>> /\ item' = Head(out) /\ out' = Tail(out)
    /\ UNCHANGED <<held, entries>>

WriterDone ==
    /\ item \in URLIDs /\ item' = 0
    /\ UNCHANGED <<held, entries, out>>

\* A worker claims, hands its claim on, lets go of it, or keeps what it has.
LEMMA WorkerClaims ==
    ASSUME TypeInv, NEW w \in Workers, WorkerNext(w)
    PROVE  \/ UNCHANGED <<held, entries, out, item>>
           \/ \E u \in URLIDs : Claim(w, u)
           \/ ToBuffer(w) /\ UNCHANGED storeVars
           \/ ToChannel(w) /\ UNCHANGED storeVars
           \/ LetsGo(w) /\ UNCHANGED storeVars /\ CtxDone'
           \/ LetsGo(w) /\ \E e \in ScrapeFaults : GiveUpURL(w, e) \/ RetryURL(w, e) \/ FailURL(w, e)
<1> USE DEF ToBuffer, ToChannel, LetsGo
<1>i. UNCHANGED item
  BY WorkerFrames DEF WorkerFrame, writerVars
<1>0. held \in [Workers -> URLOrNone] /\ WorkerHolds /\ 0 \notin URLIDs /\ runErr \in RunErrs
  BY URLsCount DEF TypeInv, TypeOK
<1>d. \A s : Drop(w, s) /\ held[w] = 0 => UNCHANGED held
  BY <1>0 DEF Drop
<1>1. CASE Top(w) \/ ClaimNoRow(w) \/ SeePause(w) \/ PauseIsRecovery(w) \/ TriggerJoin(w)
           \/ BrowseDelay(w) \/ AcquirePage(w) \/ RecoverySleep(w) \/ FastRetry(w)
  BY <1>i, <1>1 DEF Top, ClaimNoRow, SeePause, PauseIsRecovery, TriggerJoin, BrowseDelay, AcquirePage,
     RecoverySleep, FastRetry, Local, Move, sharedVars
<1>2. ASSUME NEW from, NEW err \in RunErrs \ {"nil"}, Leave(w, from, err)
      PROVE  \/ UNCHANGED <<held, entries, out, item>>
             \/ LetsGo(w) /\ UNCHANGED storeVars /\ CtxDone'
  <2>1. UNCHANGED <<entries, out, storeVars>> /\ runErr' # "nil"
    BY <1>0, <1>2 DEF Leave, Return, sharedVars, RunErrs
  <2>2. held' = [held EXCEPT ![w] = 0]
    BY <1>2 DEF Leave, Return, Drop
  <2> QED
    BY <1>i, <1>0, <2>1, <2>2 DEF URLOrNone, CtxDone
<1>3. CASE PauseEndsRun(w) \/ Cancelled(w) \/ CallFails(w)
  BY <1>2, <1>3 DEF PauseEndsRun, Cancelled, CallFails, RunErrs
<1>4. CASE QueueEmpty(w)
  BY <1>i, <1>0, <1>4, <1>d DEF QueueEmpty, Leave, Working, Return, WorkerHolds, HoldSteps, ClaimSteps,
     sharedVars
<1>5. CASE ScrapeOK(w) \/ Emit(w)
  <2>1. held[w] \in URLIDs
    BY <1>0, <1>5 DEF ScrapeOK, Emit, Working, WorkerHolds, HoldSteps, ClaimSteps, URLOrNone
  <2> QED
    BY <1>i, <1>5, <2>1 DEF ScrapeOK, Emit, Drop, Move, sharedVars
<1>6. CASE \E e \in ScrapeFaults : GiveUpURL(w, e) \/ RetryURL(w, e) \/ FailURL(w, e)
  <2>1. held[w] \in URLIDs
    BY <1>0, <1>6 DEF GiveUpURL, RetryURL, FailURL, ScrapeError, Working, WorkerHolds, HoldSteps,
       ClaimSteps, URLOrNone
  <2>2. UNCHANGED <<entries, out>> /\ held' = [held EXCEPT ![w] = 0]
    BY <1>6 DEF GiveUpURL, RetryURL, FailURL, ScrapeError, Drop, Return
  <2> QED
    BY <1>i, <1>6, <2>1, <2>2
<1>7. CASE TriggerLead(w) \/ RecoveryPause(w) \/ RecoveryReset(w) \/ RecoveryResume(w)
           \/ RecoveryDone(w)
  BY <1>i, <1>7 DEF TriggerLead, RecoveryPause, RecoveryReset, RecoveryResume, RecoveryDone,
     RecoveryStep, Move
<1>8. CASE RecoveryAborts(w)
  BY <1>i, <1>0, <1>8, <1>d DEF RecoveryAborts, Working, Return, WorkerHolds, HoldSteps, ClaimSteps
<1>9. CASE \E u \in URLIDs : Claim(w, u)
  BY <1>9
<1> QED
  BY <1>1, <1>3, <1>4, <1>5, <1>6, <1>7, <1>8, <1>9 DEF WorkerNext

\* The rest of the process hands claims on, settles them or drops them when the
\* run is cancelled.
LEMMA OthersClaims ==
    ASSUME TypeInv, [Next]_vars, \A w \in Workers : ~WorkerNext(w)
    PROVE  \/ UNCHANGED <<held, entries, out, item>>
           \/ \E u \in URLIDs : FilterOut(u) /\ Dropped(u)
           \/ /\ UNCHANGED storeVars
              /\ \E u \in URLIDs :
                    FromBuffer(u) /\ (out' = Append(out, u) \/ (UNCHANGED out /\ CtxDone'))
           \/ ToWriter /\ UNCHANGED storeVars
           \/ WriterDone /\ (SkipDuplicate \/ WriteFails \/ MarkWritten)
           \/ ProcessGone
<1> USE DEF Dropped, FromBuffer, ToWriter, WriterDone
<1>1. CASE RunNext /\ ~(\E u \in URLIDs : FilterOut(u)) /\ ~EmitKept
  BY <1>1 DEF RunNext, EnsureReset, EnsureStart, EnsureFails, JobReady, EnsureStep, JoinWorkers,
     FilterDone, EmitKeptDone, FinishRead, FinishSet, RunStep, workerVars, sharedVars, writerVars
<1>2. CASE \E u \in URLIDs : FilterOut(u)
  BY <1>2 DEF FilterOut, RunStep, workerVars, writerVars
<1>3. CASE EmitKept
  BY <1>3 DEF EmitKept, RunStep, workerVars, writerVars, CtxDone, signalVars
<1>4. CASE MonitorNext
  BY <1>4 DEF MonitorNext, StallDetected, StallReset, StallStatus, MonitorStep, workerVars,
     sharedVars, writerVars
<1>5. CASE Receive
  BY <1>5 DEF Receive, WriterStep, workerVars, sharedVars, TypeInv, WriterHolds
<1>6. CASE SkipDuplicate \/ WriteFails \/ MarkWritten
  <2>1. item \in URLIDs
    BY <1>6 DEF SkipDuplicate, WriteFails, MarkWritten, WriterStep, TypeInv, WriterHolds, TypeOK,
       URLOrNone
  <2> QED
    BY <1>6, <2>1 DEF SkipDuplicate, WriteFails, MarkWritten, WriterStep, workerVars, sharedVars
<1>7. CASE WriteEntry \/ Drained \/ MainFinishRead \/ MainFinishSet
  BY <1>7 DEF WriteEntry, Drained, MainFinishRead, MainFinishSet, WriterStep, workerVars,
     sharedVars
<1>8. CASE EnvironmentNext \/ MainExit
  BY <1>8 DEF EnvironmentNext, MainExit, SignalPause, SignalCancel, ControlPause, SignalFrame,
     Dies, Restart, workerVars, sharedVars, writerVars
<1>9. CASE UNCHANGED vars
  BY <1>9 DEF vars, workerVars, sharedVars, writerVars
<1> QED
  BY <1>1, <1>2, <1>3, <1>4, <1>5, <1>6, <1>7, <1>8, <1>9 DEF Next, WriterNext

-----------------------------------------------------------------------------
(* Who changes a row. *)

\* A scrape of the row ended in error.
Errored(w, u) ==
    /\ runPc = "workers" /\ pc[w] = "scrape" /\ held[w] = u /\ held' = [held EXCEPT ![w] = 0]
    /\ UNCHANGED <<entries, out, item, reset>>

\* Each change of a row is a claim, a reset of claims, the end of a scrape, or
\* the mark of whoever has its result.
RowChange(u) ==
    \/ urlStatus[u] = "pending" /\ urlStatus'[u] = "in_progress" /\ \E w \in Workers : Claim(w, u)
    \/ /\ urlStatus[u] = "in_progress" /\ urlStatus'[u] = "pending"
       /\ EnsureReset \/ (StallReset /\ reset') \/ \E w \in Workers : RecoveryReset(w) /\ reset'
    \/ /\ urlStatus'[u] = "pending"
       /\ \E w \in Workers : Errored(w, u) /\ \E e \in ScrapeFaults : RetryURL(w, e)
    \/ /\ urlStatus'[u] = "failed"
       /\ \E w \in Workers : Errored(w, u) /\ \E e \in ScrapeFaults : GiveUpURL(w, e) \/ FailURL(w, e)
    \/ urlStatus'[u] = "done" /\ FilterOut(u)
    \/ urlStatus'[u] = "done" /\ item = u /\ (SkipDuplicate \/ MarkWritten)
    \/ urlStatus'[u] = "failed" /\ item = u /\ WriteFails

\* An UPDATE of one row.
LEMMA OneRow ==
    ASSUME StoreTypeOK, NEW v \in URLIDs, NEW s, SetURLStatus(v, s), NEW u \in URLIDs,
           urlStatus'[u] # urlStatus[u]
    PROVE  u = v /\ urlStatus'[u] = s
BY DEF StoreTypeOK, SetURLStatus

LEMMA ResetRow ==
    ASSUME StoreTypeOK, ResetInProgress, NEW u \in URLIDs, urlStatus'[u] # urlStatus[u]
    PROVE  urlStatus[u] = "in_progress" /\ urlStatus'[u] = "pending"
BY DEF StoreTypeOK, ResetInProgress

LEMMA RowMoves ==
    ASSUME TypeInv, [Next]_vars, NEW u \in URLIDs, urlStatus'[u] # urlStatus[u]
    PROVE  RowChange(u)
<1>0. StoreTypeOK /\ held \in [Workers -> URLOrNone] /\ WorkerHolds
  BY DEF TypeInv, TypeOK
<1>a. ~UNCHANGED urlStatus /\ ~UNCHANGED storeVars
  BY DEF storeVars
<1>b. ~(SetJobStatus(verdict) \/ SetJobStatus("paused") \/ StartJob \/ RequestPause \/ ClearPause)
  BY <1>a DEF SetJobStatus, StartJob, RequestPause, ClearPause
<1>1. ASSUME NEW w \in Workers, WorkerNext(w)
      PROVE  RowChange(u)
  <2>1. CASE \E v \in URLIDs : Claim(w, v)
    <3>1. PICK v \in URLIDs : Claim(w, v)
      BY <2>1
    <3>2. v = u /\ urlStatus[u] = "pending" /\ urlStatus'[u] = "in_progress"
      BY <1>0, <3>1 DEF Claim, ClaimNextURL, Claimable, StoreTypeOK
    <3> QED
      BY <3>1, <3>2 DEF RowChange
  <2>2. CASE \E e \in ScrapeFaults : GiveUpURL(w, e) \/ RetryURL(w, e) \/ FailURL(w, e)
    <3>1. PICK e \in ScrapeFaults : GiveUpURL(w, e) \/ RetryURL(w, e) \/ FailURL(w, e)
      BY <2>2
    <3>2. held[w] \in URLIDs /\ pc[w] = "scrape" /\ runPc = "workers"
      BY <1>0, <3>1 DEF GiveUpURL, RetryURL, FailURL, ScrapeError, Working, WorkerHolds,
         HoldSteps, ClaimSteps, URLOrNone
    <3>3. UNCHANGED <<entries, out, item, reset>> /\ held' = [held EXCEPT ![w] = 0]
      BY <3>1 DEF GiveUpURL, RetryURL, FailURL, ScrapeError, WorkerFrame, writerVars, Drop, Return
    <3>4. CASE RetryURL(w, e)
      <4>1. held[w] = u /\ urlStatus'[u] = "pending"
        BY <1>0, <1>a, <3>2, <3>4, OneRow DEF RetryURL, Try, RequeueURL
      <4> QED
        BY <3>2, <3>3, <3>4, <4>1 DEF RowChange, Errored
    <3>5. CASE GiveUpURL(w, e) \/ FailURL(w, e)
      <4>1. held[w] = u /\ urlStatus'[u] = "failed"
        BY <1>0, <1>a, <3>2, <3>5, OneRow DEF GiveUpURL, FailURL, Try, MarkURLFailed
      <4> QED
        BY <3>2, <3>3, <3>5, <4>1 DEF RowChange, Errored
    <3> QED
      BY <3>1, <3>4, <3>5
  <2>3. CASE RecoveryReset(w)
    BY <1>0, <2>3, ResetRow DEF RecoveryReset, RowChange
  <2>4. ~(Top(w) \/ ClaimNoRow(w) \/ SeePause(w) \/ PauseIsRecovery(w) \/ TriggerJoin(w)
           \/ BrowseDelay(w) \/ AcquirePage(w) \/ RecoverySleep(w) \/ FastRetry(w) \/ ScrapeOK(w)
           \/ Emit(w))
    BY <1>a DEF Top, ClaimNoRow, SeePause, PauseIsRecovery, TriggerJoin, BrowseDelay, AcquirePage,
       RecoverySleep, FastRetry, Local, ScrapeOK, Emit
  <2>5. ~(QueueEmpty(w) \/ PauseEndsRun(w) \/ Cancelled(w) \/ CallFails(w) \/ TriggerLead(w)
           \/ RecoveryPause(w) \/ RecoveryResume(w) \/ RecoveryDone(w) \/ RecoveryAborts(w))
    BY <1>a, <1>b DEF QueueEmpty, PauseEndsRun, Cancelled, CallFails, Leave, TriggerLead,
       RecoveryPause, RecoveryResume, RecoveryDone, RecoveryAborts, Try
  <2> QED
    BY <1>1, <2>1, <2>2, <2>3, <2>4, <2>5 DEF WorkerNext
<1>2. CASE RunNext
  <2>1. CASE EnsureReset
    BY <1>0, <2>1, ResetRow DEF EnsureReset, RowChange
  <2>2. CASE \E v \in URLIDs : FilterOut(v)
    <3>1. PICK v \in URLIDs : FilterOut(v)
      BY <2>2
    <3>2. u = v /\ urlStatus'[u] = "done"
      BY <1>0, <1>a, <3>1, OneRow DEF FilterOut, Try, MarkURLDone
    <3> QED
      BY <3>1, <3>2 DEF RowChange
  <2>3. ~(EnsureStart \/ EnsureFails \/ JobReady \/ JoinWorkers \/ FilterDone \/ EmitKept
            \/ EmitKeptDone \/ FinishRead \/ FinishSet)
    BY <1>a, <1>b DEF EnsureStart, EnsureFails, JobReady, Try, JoinWorkers, FilterDone, EmitKept,
       EmitKeptDone, FinishRead, FinishSet, SettleJob
  <2> QED
    BY <1>2, <2>1, <2>2, <2>3 DEF RunNext
<1>3. CASE MonitorNext
  <2>1. StallReset /\ ResetInProgress /\ reset'
    BY <1>3, <1>a, <1>b DEF MonitorNext, StallDetected, StallReset, StallStatus, Try
  <2> QED
    BY <1>0, <2>1, ResetRow DEF RowChange
<1>4. CASE WriterNext
  <2>1. CASE SkipDuplicate \/ MarkWritten \/ WriteFails
    <3>1. item \in URLIDs
      BY <2>1 DEF SkipDuplicate, MarkWritten, WriteFails, WriterStep, TypeInv, WriterHolds,
         TypeOK, URLOrNone
    <3>2. CASE SkipDuplicate \/ MarkWritten
      BY <1>0, <1>a, <3>1, <3>2, OneRow DEF SkipDuplicate, MarkWritten, Try, MarkURLDone,
         RowChange
    <3>3. CASE WriteFails
      BY <1>0, <1>a, <3>1, <3>3, OneRow DEF WriteFails, Try, MarkURLFailed, RowChange
    <3> QED
      BY <2>1, <3>2, <3>3
  <2>2. ~(Receive \/ WriteEntry \/ Drained \/ MainFinishRead \/ MainFinishSet \/ MainExit)
    BY <1>a, <1>b DEF Receive, WriteEntry, Drained, MainFinishRead, MainFinishSet, SettleJob, Try,
       MainExit, ProcessGone
  <2> QED
    BY <1>4, <2>1, <2>2 DEF WriterNext
<1>5. ~(EnvironmentNext \/ UNCHANGED vars)
  BY <1>a, <1>b DEF EnvironmentNext, SignalPause, SignalCancel, ControlPause, Try, Dies,
     ProcessGone, Restart, vars
<1> QED
  BY <1>1, <1>2, <1>3, <1>4, <1>5 DEF Next

\* Only the end of the process forgets that claims were reset.
LEMMA ResetKept ==
    ASSUME [Next]_vars, reset, ~reset'
    PROVE  ProcessGone
<1>1. ~UNCHANGED reset
  OBVIOUS
<1>2. \A w \in Workers : ~WorkerNext(w)
  BY <1>1 DEF WorkerNext, Top, ClaimNoRow, SeePause, PauseIsRecovery, TriggerJoin, RecoverySleep,
     Local, QueueEmpty, PauseEndsRun, Cancelled, CallFails, Leave, Claim, BrowseDelay,
     AcquirePage, ScrapeOK, Emit, FastRetry, GiveUpURL, RetryURL, FailURL, ScrapeError, TriggerLead,
     RecoveryPause, RecoveryReset, RecoveryResume, RecoveryDone, RecoveryAborts
<1>3. ~RunNext
  BY <1>1 DEF RunNext, EnsureReset, EnsureStart, EnsureFails, JobReady, EnsureStep, JoinWorkers,
     FilterOut, FilterDone, EmitKept, EmitKeptDone, FinishRead, FinishSet, RunStep, processVars
<1>4. ~MonitorNext
  BY <1>1 DEF MonitorNext, StallDetected, StallReset, StallStatus
<1>5. WriterNext => MainExit
  BY <1>1 DEF WriterNext, Receive, SkipDuplicate, WriteEntry, WriteFails, MarkWritten, Drained,
     MainFinishRead, MainFinishSet, WriterStep, processVars
<1>6. EnvironmentNext => Dies
  BY <1>1 DEF EnvironmentNext, SignalPause, SignalCancel, ControlPause, SignalFrame, Restart,
     processVars
<1> QED
  BY <1>1, <1>2, <1>3, <1>4, <1>5, <1>6 DEF Next, vars, processVars, MainExit, Dies

-----------------------------------------------------------------------------
(* A claim is in one place and its row is in_progress. *)

\* Without a reset under its holders a claim is in one place: with one worker,
\* in the radius buffer, in the channel or with the writer, ...
ClaimedOnce ==
    ~reset =>
        /\ \A v, w \in Workers : held[v] = held[w] /\ held[v] # 0 => v = w
        /\ \A w \in Workers : held[w] # 0 =>
              entries[held[w]] = 0 /\ ~Occurs(held[w], out) /\ held[w] # item
        /\ \A u \in URLIDs : entries[u] > 0 => entries[u] = 1 /\ ~Occurs(u, out) /\ u # item
        /\ Distinct(out)
        /\ ~Occurs(item, out)

\* ... and its row says so.
CarriedIsClaimed == ~reset => \A u \in URLIDs : Carried(u) => urlStatus[u] = "in_progress"

ClaimInv == ClaimedOnce /\ CarriedIsClaimed

LEMMA EmptyOccurs == (\A u : ~Occurs(u, <<>>)) /\ Distinct(<<>>)
BY DEF Occurs, Distinct

\* What the end of the process leaves.
LEMMA GoneCarries ==
    ASSUME ProcessGone
    PROVE  \A u \in URLIDs : ~Carried(u)'
BY EmptyOccurs, URLsCount DEF ProcessGone, Carried, Each, NoEntries

\* Only a claim gives this process a URL.
LEMMA CarriedFrom ==
    ASSUME TypeInv, [Next]_vars, NEW u \in URLIDs, Carried(u)'
    PROVE  Carried(u) \/ \E w \in Workers : Claim(w, u)
<1>0. /\ held \in [Workers -> URLOrNone] /\ entries \in [URLIDs -> Nat] /\ out \in Seq(URLIDs)
      /\ 0 \notin URLIDs
  BY URLsCount DEF TypeInv, TypeOK
<1> USE DEF Carried, ToBuffer, ToChannel, LetsGo, Dropped, FromBuffer, ToWriter, WriterDone
<1>1. CASE UNCHANGED <<held, entries, out, item>>
  BY <1>1
<1>2. ASSUME NEW w \in Workers, WorkerNext(w)
      PROVE  Carried(u) \/ \E v \in Workers : Claim(v, u)
  <2>0. UNCHANGED item
    BY <1>2, WorkerFrames DEF WorkerFrame, writerVars
  <2>1. CASE \E v \in URLIDs : Claim(w, v)
    <3>1. PICK v \in URLIDs : Claim(w, v)
      BY <2>1
    <3>2. held' = [held EXCEPT ![w] = v] /\ UNCHANGED <<entries, out>>
      BY <3>1 DEF Claim, sharedVars
    <3>3. CASE v = u
      BY <3>1, <3>3
    <3> QED
      BY <1>0, <2>0, <3>2, <3>3
  <2>2. CASE ToBuffer(w)
    BY <1>0, <2>0, <2>2
  <2>3. CASE ToChannel(w)
    <3>1. Occurs(u, out') <=> Occurs(u, out) \/ u = held[w]
      BY <1>0, <2>3, AppendOccurs
    <3> QED
      BY <1>0, <2>0, <2>3, <3>1
  <2>4. CASE LetsGo(w)
    BY <1>0, <2>0, <2>4
  <2> QED
    BY <1>1, <1>2, <2>0, <2>1, <2>2, <2>3, <2>4, WorkerClaims
<1>3. CASE \A w \in Workers : ~WorkerNext(w)
  <2>1. CASE \E v \in URLIDs : Dropped(v)
    BY <1>0, <2>1
  <2>2. CASE \E v \in URLIDs : FromBuffer(v) /\ (out' = Append(out, v) \/ UNCHANGED out)
    <3>1. PICK v \in URLIDs : FromBuffer(v) /\ (out' = Append(out, v) \/ UNCHANGED out)
      BY <2>2
    <3>2. Occurs(u, out') => Occurs(u, out) \/ u = v
      BY <1>0, <3>1, AppendOccurs
    <3>3. entries'[u] > 0 => entries[u] > 0
      BY <1>0, <3>1
    <3> QED
      BY <3>1, <3>2, <3>3
  <2>3. CASE ToWriter
    <3>1. Occurs(u, out) <=> u = item' \/ Occurs(u, out')
      BY <1>0, <2>3, TailOccurs
    <3> QED
      BY <2>3, <3>1
  <2>4. CASE WriterDone
    BY <1>0, <2>4
  <2>5. ~ProcessGone
    BY GoneCarries
  <2> QED
    BY <1>1, <1>3, <2>1, <2>2, <2>3, <2>4, <2>5, OthersClaims
<1> QED
  BY <1>2, <1>3

LEMMA ClaimedOnceStep ==
    ASSUME TypeInv, ClaimInv, ~reset, [Next]_vars
    PROVE  ClaimedOnce'
<1>0. /\ held \in [Workers -> URLOrNone] /\ entries \in [URLIDs -> Nat] /\ out \in Seq(URLIDs)
      /\ item \in URLOrNone /\ 0 \notin URLIDs /\ StoreTypeOK
  BY URLsCount DEF TypeInv, TypeOK
<1>e. \A u : Occurs(u, out) => u \in URLIDs
  BY <1>0 DEF Occurs
<1>c. /\ \A v, w \in Workers : held[v] = held[w] /\ held[v] # 0 => v = w
      /\ \A w \in Workers : held[w] # 0 =>
            entries[held[w]] = 0 /\ ~Occurs(held[w], out) /\ held[w] # item
      /\ \A u \in URLIDs : entries[u] > 0 => entries[u] = 1 /\ ~Occurs(u, out) /\ u # item
      /\ Distinct(out)
      /\ ~Occurs(item, out)
  BY DEF ClaimInv, ClaimedOnce
<1> USE DEF ToBuffer, ToChannel, LetsGo, Dropped, FromBuffer, ToWriter, WriterDone
<1>1. CASE UNCHANGED <<held, entries, out, item>>
  BY <1>c, <1>1 DEF ClaimedOnce
<1>2. ASSUME NEW w \in Workers, WorkerNext(w)
      PROVE  ClaimedOnce'
  <2>0. UNCHANGED item
    BY <1>2, WorkerFrames DEF WorkerFrame, writerVars
  <2>1. CASE \E u \in URLIDs : Claim(w, u)
    <3>1. PICK u \in URLIDs : Claim(w, u)
      BY <2>1
    <3>2. held' = [held EXCEPT ![w] = u] /\ UNCHANGED <<entries, out>> /\ urlStatus[u] = "pending"
      BY <3>1 DEF Claim, ClaimNextURL, Claimable, sharedVars
    <3>3. ~Carried(u)
      BY <3>2 DEF ClaimInv, CarriedIsClaimed
    <3> QED
      BY <1>0, <1>c, <2>0, <3>2, <3>3 DEF ClaimedOnce, Carried
  <2>2. CASE ToBuffer(w)
    BY <1>0, <1>c, <2>0, <2>2 DEF ClaimedOnce
  <2>3. CASE ToChannel(w)
    <3>1. (\A u : Occurs(u, out') <=> Occurs(u, out) \/ u = held[w]) /\ Distinct(out')
      BY <1>0, <1>c, <2>3, AppendOccurs
    <3> QED
      BY <1>0, <1>c, <2>0, <2>3, <3>1 DEF ClaimedOnce
  <2>4. CASE LetsGo(w)
    BY <1>0, <1>c, <2>0, <2>4 DEF ClaimedOnce
  <2> QED
    BY <1>1, <1>2, <2>0, <2>1, <2>2, <2>3, <2>4, WorkerClaims
<1>3. CASE \A w \in Workers : ~WorkerNext(w)
  <2>1. CASE \E v \in URLIDs : Dropped(v)
    BY <1>0, <1>c, <2>1 DEF ClaimedOnce
  <2>2. CASE \E v \in URLIDs : FromBuffer(v) /\ (out' = Append(out, v) \/ UNCHANGED out)
    <3>1. PICK v \in URLIDs : FromBuffer(v) /\ (out' = Append(out, v) \/ UNCHANGED out)
      BY <2>2
    <3>2. entries'[v] = 0 /\ \A u \in URLIDs : u # v => entries'[u] = entries[u]
      BY <1>0, <1>c, <3>1
    <3>3. (\A u : Occurs(u, out') => Occurs(u, out) \/ u = v) /\ Distinct(out')
      <4>1. ~Occurs(v, out)
        BY <1>c, <3>1
      <4>2. CASE out' = Append(out, v)
        BY <1>0, <1>c, <4>1, <4>2, AppendOccurs
      <4>3. CASE UNCHANGED out
        BY <1>c, <4>3
      <4> QED
        BY <3>1, <4>2, <4>3
    <3>4. /\ \A w \in Workers : held[w] # 0 => held[w] \in URLIDs /\ held[w] # v
          /\ item # v
      BY <1>0, <1>c, <3>1 DEF URLOrNone
    <3> QED
      BY <1>0, <1>c, <3>1, <3>2, <3>3, <3>4 DEF ClaimedOnce
  <2>3. CASE ToWriter
    <3>1. /\ \A u : Occurs(u, out) <=> u = item' \/ Occurs(u, out')
          /\ Distinct(out') /\ ~Occurs(item', out')
      BY <1>0, <1>c, <2>3, TailOccurs
    <3> QED
      BY <1>c, <2>3, <3>1 DEF ClaimedOnce
  <2>4. CASE WriterDone
    BY <1>0, <1>c, <1>e, <2>4 DEF ClaimedOnce
  <2>5. CASE ProcessGone
    BY <2>5, EmptyOccurs DEF ProcessGone, ClaimedOnce, Each, NoEntries
  <2> QED
    BY <1>1, <1>3, <2>1, <2>2, <2>3, <2>4, <2>5, OthersClaims
<1> QED
  BY <1>2, <1>3

\* Who settles a row lets go of the only claim on it.
LEMMA SettledIsDropped ==
    ASSUME TypeInv, ClaimInv, ~reset, NEW u \in URLIDs,
           \/ \E w \in Workers : Errored(w, u)
           \/ FilterOut(u)
           \/ item = u /\ (SkipDuplicate \/ WriteFails \/ MarkWritten)
    PROVE  ~Carried(u)'
<1>0. held \in [Workers -> URLOrNone] /\ entries \in [URLIDs -> Nat] /\ 0 \notin URLIDs
  BY URLsCount DEF TypeInv, TypeOK
<1> USE DEF ClaimInv, ClaimedOnce, Carried
<1>1. CASE \E w \in Workers : Errored(w, u)
  BY <1>0, <1>1 DEF Errored
<1>2. CASE FilterOut(u)
  BY <1>0, <1>2 DEF FilterOut, RunStep, workerVars, writerVars
<1>3. CASE item = u /\ (SkipDuplicate \/ WriteFails \/ MarkWritten)
  BY <1>0, <1>3 DEF SkipDuplicate, WriteFails, MarkWritten, WriterStep, workerVars, sharedVars
<1> QED
  BY <1>1, <1>2, <1>3

LEMMA ClaimInvariant ==
    /\ Init => ClaimInv
    /\ ProcessInv /\ ClaimInv /\ [Next]_vars => ClaimInv'
<1>1. Init => ClaimInv
  BY EmptyOccurs, URLsCount
     DEF Init, ClaimInv, ClaimedOnce, CarriedIsClaimed, Carried, Each, NoEntries
<1>2. ASSUME ProcessInv, ClaimInv, [Next]_vars
      PROVE  ClaimInv'
  <2>0. TypeInv /\ StoreTypeOK
    BY <1>2 DEF ProcessInv, TypeInv, TypeOK
  <2>1. CASE ProcessGone
    <3>1. ClaimedOnce'
      BY <2>1, EmptyOccurs DEF ProcessGone, ClaimedOnce, Each, NoEntries
    <3>2. CarriedIsClaimed'
      BY <2>1, GoneCarries DEF CarriedIsClaimed
    <3> QED
      BY <3>1, <3>2 DEF ClaimInv
  <2>2. CASE ~ProcessGone /\ ~reset'
    <3>0. ~reset
      BY <1>2, <2>2, ResetKept
    <3>1. ClaimedOnce'
      BY <1>2, <2>0, <3>0, ClaimedOnceStep
    <3>2. ASSUME NEW u \in URLIDs, Carried(u)'
          PROVE  urlStatus'[u] = "in_progress"
      <4>1. CASE ~Carried(u)
        <5>1. PICK w \in Workers : Claim(w, u)
          BY <1>2, <2>0, <3>2, <4>1, CarriedFrom
        <5> QED
          BY <2>0, <5>1 DEF Claim, ClaimNextURL, StoreTypeOK
      <4>2. CASE Carried(u) /\ urlStatus'[u] # urlStatus[u]
        <5>1. RowChange(u)
          BY <1>2, <2>0, <4>2, RowMoves
        <5>2. ~EnsureReset
          BY <1>2, <4>2, EmptyOccurs, URLsCount
             DEF EnsureReset, EnsureStep, ProcessInv, Phases, Before, Carried, NoEntries, TypeInv,
                 WorkerHolds, HoldSteps, ClaimSteps
        <5>3. ~(\E w \in Workers : Errored(w, u)) /\ ~FilterOut(u)
              /\ ~(item = u /\ (SkipDuplicate \/ WriteFails \/ MarkWritten))
          BY <1>2, <2>0, <3>0, <3>2, SettledIsDropped
        <5> QED
          BY <2>2, <5>1, <5>2, <5>3 DEF RowChange
      <4>3. CASE Carried(u) /\ urlStatus'[u] = urlStatus[u]
        BY <1>2, <3>0, <4>3 DEF ClaimInv, CarriedIsClaimed
      <4> QED
        BY <4>1, <4>2, <4>3
    <3> QED
      BY <3>1, <3>2 DEF ClaimInv, CarriedIsClaimed
  <2>3. CASE reset'
    BY <2>3 DEF ClaimInv, ClaimedOnce, CarriedIsClaimed
  <2> QED
    BY <2>1, <2>2, <2>3
<1> QED
  BY <1>1, <1>2

\* No two workers hold the same URL until claims are reset under them.
THEOREM OneHolder == Spec => []ClaimsAreExclusive
<1>1. ProcessInv /\ ClaimInv /\ [Next]_vars => (ProcessInv /\ ClaimInv)'
  BY ProcessInvariant, ClaimInvariant
<1>2. Init => ProcessInv /\ ClaimInv
  BY ProcessInvariant, ClaimInvariant
<1>3. ProcessInv /\ ClaimInv => ClaimsAreExclusive
  BY DEF ClaimInv, ClaimedOnce, ClaimsAreExclusive
<1> QED
  BY <1>1, <1>2, <1>3, PTL DEF Spec

\* A row that is done stays done until claims are reset under their holders.
THEOREM DoneRowsStay == Spec => DoneIsFinal
<1>1. ProcessInv /\ ClaimInv /\ [Next]_vars => (ProcessInv /\ ClaimInv)'
  BY ProcessInvariant, ClaimInvariant
<1>2. Init => ProcessInv /\ ClaimInv
  BY ProcessInvariant, ClaimInvariant
<1>3. ASSUME ProcessInv, ClaimInv, [Next]_vars, NEW u \in URLIDs, urlStatus[u] = "done", ~reset
      PROVE  urlStatus'[u] = "done"
  <2>1. SUFFICES ASSUME urlStatus'[u] # "done" PROVE FALSE
    OBVIOUS
  <2>2. RowChange(u)
    BY <1>3, <2>1, RowMoves DEF ProcessInv
  <2>3. ~Carried(u)
    BY <1>3 DEF ClaimInv, CarriedIsClaimed
  <2> QED
    BY <1>3, <2>1, <2>2, <2>3 DEF RowChange, Errored, Carried
<1>4. ProcessInv /\ ClaimInv /\ [Next]_vars =>
         [\A u \in URLIDs : urlStatus[u] = "done" /\ ~reset => urlStatus'[u] = "done"]_vars
  BY <1>3
<1> QED
  BY <1>1, <1>2, <1>4, PTL DEF Spec, DoneIsFinal

\* While a recovery has the job paused no worker claims.
THEOREM RecoveryPausesAll == Spec => NoClaimWhileRecovering
<1>1. ProcessInv /\ RecoveryInv /\ [Next]_vars => (ProcessInv /\ RecoveryInv)'
  BY ProcessInvariant, RecoveryInvariant
<1>2. Init => ProcessInv /\ RecoveryInv
  BY ProcessInvariant, RecoveryInvariant
<1>3. ASSUME ProcessInv, RecoveryInv, [Next]_vars, NEW u \in URLIDs, NEW w \in Workers, Claimed(u)
      PROVE  pc[w] \notin {"recStatus", "recSleep", "recReset", "recClear"}
  <2>1. RowChange(u)
    BY <1>3, RowMoves DEF ProcessInv, Claimed
  <2>2. ~pauseRequested
    BY <1>3, <2>1 DEF RowChange, Claimed, Claim, ClaimNextURL, Claimable
  <2> QED
    BY <1>3, <2>2 DEF RecoveryInv, LeaderPauses
<1>4. ProcessInv /\ RecoveryInv /\ [Next]_vars =>
         [\A u \in URLIDs, w \in Workers :
             Claimed(u) => pc[w] \notin {"recStatus", "recSleep", "recReset", "recClear"}]_vars
  BY <1>3
<1> QED
  BY <1>1, <1>2, <1>4, PTL DEF Spec, NoClaimWhileRecovering

-----------------------------------------------------------------------------
(* No claim is forgotten while the store answers. *)

\* A job that is still starting has no worker yet, and none of its rows is claimed.
StartingIsFresh ==
    /\ verdict # "starting"
    /\ jobStatus = "starting" =>
          runPc \in {"reset", "start", "closed", "down"} /\ URLsWith("in_progress") = {}

LEMMA StartingInvariant ==
    /\ Init => StartingIsFresh
    /\ TypeInv /\ StartingIsFresh /\ [Next]_vars => StartingIsFresh'
<1>1. Init => StartingIsFresh
  BY DEF Init, StartingIsFresh, URLsWith
<1>2. ASSUME TypeInv, StartingIsFresh, [Next]_vars
      PROVE  /\ verdict' # "starting"
             /\ jobStatus' = "starting" =>
                   jobStatus = "starting" /\ runPc' \in {"reset", "start", "closed", "down"}
  <2> USE DEF StartingIsFresh, storeVars, Try, RequestPause, MarkURLDone, MarkURLFailed,
          RequeueURL, SetURLStatus, ResetInProgress, SetJobStatus, StartJob, ClearPause,
          ClaimNextURL
  <2>v. \A s \in StatsVerdict : s # "starting"
    BY DEF StatsVerdict, Verdict
  <2>1. ASSUME NEW w \in Workers, WorkerNext(w)
        PROVE  UNCHANGED verdict /\ jobStatus' # "starting"
    <3>1. UNCHANGED verdict /\ jobStatus # "starting"
      BY <1>2, <2>1, WorkerFrames DEF WorkerFrame
    <3>2. jobStatus' = "starting" => UNCHANGED jobStatus
      BY <2>1 DEF WorkerNext, Top, ClaimNoRow, SeePause, PauseIsRecovery, TriggerJoin,
         RecoverySleep, Local, QueueEmpty, PauseEndsRun, Cancelled, CallFails, Leave, Claim,
         BrowseDelay, AcquirePage, ScrapeOK, Emit, FastRetry, GiveUpURL, RetryURL, FailURL,
         TriggerLead, RecoveryPause, RecoveryReset, RecoveryResume, RecoveryDone, RecoveryAborts
    <3> QED
      BY <3>1, <3>2
  <2>2. CASE EnsureReset \/ EnsureStart \/ EnsureFails \/ JobReady
    BY <1>2, <2>2 DEF EnsureReset, EnsureStart, EnsureFails, JobReady, EnsureStep
  <2>3. CASE JoinWorkers \/ (\E u \in URLIDs : FilterOut(u)) \/ FilterDone \/ EmitKept \/ EmitKeptDone
    BY <1>2, <2>3 DEF JoinWorkers, FilterOut, FilterDone, EmitKept, EmitKeptDone, RunStep
  <2>4. CASE FinishRead
    BY <1>2, <2>4, <2>v DEF FinishRead, RunStep, TypeInv, TypeOK, RunErrs
  <2>5. CASE FinishSet \/ MainFinishSet
    BY <1>2, <2>5 DEF FinishSet, MainFinishSet, SettleJob, RunStep, WriterStep, runVars
  <2>6. CASE MonitorNext
    BY <1>2, <2>6 DEF MonitorNext, StallDetected, StallReset, StallStatus, MonitorStep, runVars
  <2>7. CASE Receive \/ SkipDuplicate \/ WriteEntry \/ WriteFails \/ MarkWritten \/ Drained
    BY <1>2, <2>7 DEF Receive, SkipDuplicate, WriteEntry, WriteFails, MarkWritten, Drained,
       WriterStep
  <2>8. CASE MainFinishRead
    BY <1>2, <2>8, <2>v DEF MainFinishRead, WriterStep, runVars
  <2>9. CASE EnvironmentNext \/ MainExit
    BY <1>2, <2>9 DEF EnvironmentNext, MainExit, SignalPause, SignalCancel, ControlPause,
       SignalFrame, Dies, ProcessGone, Restart, Alive, runVars
  <2>10. CASE UNCHANGED vars
    BY <1>2, <2>10 DEF vars, runVars
  <2> QED
    BY <1>2, <2>1, <2>2, <2>3, <2>4, <2>5, <2>6, <2>7, <2>8, <2>9, <2>10 DEF Next, RunNext,
       WriterNext
<1>3. ASSUME TypeInv, StartingIsFresh, [Next]_vars, jobStatus = "starting", NEW u \in URLIDs
      PROVE  urlStatus'[u] # "in_progress"
  <2>1. urlStatus[u] # "in_progress" /\ runPc # "workers"
    BY <1>3 DEF StartingIsFresh, URLsWith
  <2>2. \A w \in Workers : ~Claim(w, u)
    BY <2>1, WorkerFrames DEF WorkerNext
  <2> QED
    BY <1>3, <2>1, <2>2, RowMoves DEF RowChange
<1> QED
  BY <1>1, <1>2, <1>3 DEF StartingIsFresh, URLsWith

\* The context of a run stays cancelled, and a run that goes on was going on,
\* has just reset the claims of a dead process, or begins a job that is starting.
LEMMA RunGoesOn ==
    ASSUME TypeInv, [Next]_vars, Alive', runPc' # "reset", ~CtxDone'
    PROVE  EnsureReset \/ jobStatus = "starting" \/ (Alive /\ runPc # "reset" /\ ~CtxDone)
<1>0. runErr \in RunErrs
  BY DEF TypeInv, TypeOK
<1>1. ASSUME NEW w \in Workers, WorkerNext(w)
      PROVE  Alive /\ runPc # "reset" /\ ~CtxDone
  <2>1. runPc = "workers" /\ UNCHANGED cancelled
    BY <1>1, WorkerFrames DEF WorkerFrame, signalVars
  <2>2. UNCHANGED runErr \/ runErr' = IF runErr = "nil" THEN runErr' ELSE runErr
    BY <1>1 DEF WorkerNext, Top, ClaimNoRow, SeePause, PauseIsRecovery, TriggerJoin,
       RecoverySleep, Local, QueueEmpty, PauseEndsRun, Cancelled, CallFails, Leave, Return, Claim, BrowseDelay,
       AcquirePage, ScrapeOK, Emit, FastRetry, GiveUpURL, RetryURL, FailURL, TriggerLead,
       RecoveryPause, RecoveryReset, RecoveryResume, RecoveryDone, RecoveryStep, RecoveryAborts
  <2> QED
    BY <2>1, <2>2 DEF Alive, CtxDone
<1>2. CASE RunNext
  BY <1>2 DEF RunNext, EnsureReset, EnsureStart, EnsureFails, JobReady, EnsureStep, JoinWorkers,
     FilterOut, FilterDone, EmitKept, EmitKeptDone, FinishRead, FinishSet, RunStep, signalVars,
     Alive, CtxDone
<1>3. CASE MonitorNext
  BY <1>3 DEF MonitorNext, StallDetected, StallReset, StallStatus, MonitorStep, runVars,
     signalVars, Alive, CtxDone
<1>4. CASE WriterNext /\ ~MainExit
  BY <1>4 DEF WriterNext, Receive, SkipDuplicate, WriteEntry, WriteFails, MarkWritten, Drained,
     MainFinishRead, MainFinishSet, WriterStep, signalVars, Alive, CtxDone
<1>5. CASE EnvironmentNext \/ MainExit
  BY <1>5 DEF EnvironmentNext, SignalPause, SignalCancel, ControlPause, SignalFrame, Dies,
     MainExit, ProcessGone, Restart, runVars, Alive, CtxDone
<1>6. CASE UNCHANGED vars
  BY <1>6 DEF vars, runVars, signalVars, Alive, CtxDone
<1> QED
  BY <1>1, <1>2, <1>3, <1>4, <1>5, <1>6 DEF Next

\* A store that answers has the row settled when its holder lets go of it.
LEMMA HeldOrSettled ==
    ASSUME TypeInv, "store" \notin Faults, [Next]_vars, ~CtxDone', NEW u \in URLIDs, Carried(u),
           urlStatus'[u] = "in_progress"
    PROVE  Carried(u)' \/ ProcessGone
<1>0. /\ held \in [Workers -> URLOrNone] /\ entries \in [URLIDs -> Nat] /\ out \in Seq(URLIDs)
      /\ 0 \notin URLIDs /\ StoreTypeOK
  BY URLsCount DEF TypeInv, TypeOK
<1>s. \A v \in URLIDs, s \in URLStatuses \ {"in_progress"} : SetURLStatus(v, s) => v # u
  BY <1>0 DEF SetURLStatus, StoreTypeOK
<1> USE DEF Carried, ToBuffer, ToChannel, LetsGo, Dropped, FromBuffer, ToWriter, WriterDone
<1>1. CASE UNCHANGED <<held, entries, out, item>>
  BY <1>1
<1>2. ASSUME NEW w \in Workers, WorkerNext(w)
      PROVE  Carried(u)'
  <2>0. UNCHANGED item
    BY <1>2, WorkerFrames DEF WorkerFrame, writerVars
  <2>1. CASE \E v \in URLIDs : Claim(w, v)
    <3>1. PICK v \in URLIDs : Claim(w, v)
      BY <2>1
    <3>2. /\ held' = [held EXCEPT ![w] = v] /\ UNCHANGED <<entries, out>>
          /\ pc[w] = "claim"
      BY <3>1 DEF Claim, sharedVars, Working
    <3>3. held[w] = 0
      BY <3>2 DEF TypeInv, WorkerHolds, HoldSteps, ClaimSteps
    <3> QED
      BY <1>0, <2>0, <3>2, <3>3
  <2>2. CASE ToBuffer(w)
    BY <1>0, <2>0, <2>2
  <2>3. CASE ToChannel(w)
    <3>1. Occurs(u, out') <=> Occurs(u, out) \/ u = held[w]
      BY <1>0, <2>3, AppendOccurs
    <3> QED
      BY <1>0, <2>0, <2>3, <3>1
  <2>4. CASE LetsGo(w) /\ \E e \in ScrapeFaults : GiveUpURL(w, e) \/ RetryURL(w, e) \/ FailURL(w, e)
    <3>1. held[w] # u
      BY <1>s, <2>4 DEF GiveUpURL, RetryURL, FailURL, Try, MarkURLFailed, RequeueURL, URLStatuses
    <3> QED
      BY <1>0, <2>0, <2>4, <3>1
  <2> QED
    BY <1>1, <1>2, <2>0, <2>1, <2>2, <2>3, <2>4, WorkerClaims
<1>3. CASE \A w \in Workers : ~WorkerNext(w)
  <2>1. CASE \E v \in URLIDs : FilterOut(v) /\ Dropped(v)
    <3>1. PICK v \in URLIDs : FilterOut(v) /\ Dropped(v)
      BY <2>1
    <3>2. v # u
      BY <1>s, <3>1 DEF FilterOut, Try, MarkURLDone, URLStatuses
    <3> QED
      BY <1>0, <2>1, <3>1, <3>2
  <2>2. CASE \E v \in URLIDs : FromBuffer(v) /\ out' = Append(out, v)
    <3>1. PICK v \in URLIDs : FromBuffer(v) /\ out' = Append(out, v)
      BY <2>2
    <3>2. Occurs(u, out') <=> Occurs(u, out) \/ u = v
      BY <1>0, <3>1, AppendOccurs
    <3> QED
      BY <1>0, <3>1, <3>2
  <2>3. CASE ToWriter
    <3>1. Occurs(u, out) <=> u = item' \/ Occurs(u, out')
      BY <1>0, <2>3, TailOccurs
    <3> QED
      BY <1>0, <2>3, <3>1
  <2>4. CASE WriterDone /\ (SkipDuplicate \/ WriteFails \/ MarkWritten)
    <3>1. item # u
      BY <1>s, <2>4 DEF SkipDuplicate, WriteFails, MarkWritten, Try, MarkURLDone, MarkURLFailed,
         URLStatuses
    <3> QED
      BY <2>4, <3>1
  <2> QED
    BY <1>1, <1>3, <2>1, <2>2, <2>3, <2>4, OthersClaims
<1> QED
  BY <1>2, <1>3

\* When the store answers, a row that a running job has in_progress is held by
\* a worker or has its result on the way to the writer.
THEOREM NoClaimForgotten ==
    ASSUME "store" \notin Faults
    PROVE  Spec => []ClaimsAreCarried
<1>1. Init => ProcessInv /\ StartingIsFresh /\ ClaimsAreCarried
  BY ProcessInvariant, StartingInvariant DEF Init, ClaimsAreCarried, URLsWith
<1>2. ASSUME ProcessInv, StartingIsFresh, ClaimsAreCarried, [Next]_vars
      PROVE  ClaimsAreCarried'
  <2>0. TypeInv /\ StoreTypeOK
    BY <1>2 DEF ProcessInv, TypeInv, TypeOK
  <2>1. SUFFICES ASSUME Alive', runPc' # "reset", ~CtxDone', NEW u \in URLIDs,
                        urlStatus'[u] = "in_progress"
                 PROVE  Carried(u)'
    BY DEF ClaimsAreCarried, URLsWith
  <2>2. CASE urlStatus[u] # "in_progress"
    <3>1. PICK w \in Workers : Claim(w, u)
      BY <1>2, <2>0, <2>1, <2>2, RowMoves DEF RowChange
    <3>2. held'[w] = u
      BY <2>0, <3>1 DEF Claim, TypeInv, TypeOK
    <3> QED
      BY <3>2 DEF Carried
  <2>3. CASE urlStatus[u] = "in_progress"
    <3>1. ~EnsureReset
      BY <2>0, <2>1, <2>3 DEF EnsureReset, ResetInProgress
    <3>2. Carried(u)
      BY <1>2, <2>0, <2>1, <2>3, <3>1, RunGoesOn
         DEF ClaimsAreCarried, StartingIsFresh, URLsWith
    <3> QED
      BY <1>2, <2>0, <2>1, <3>2, HeldOrSettled DEF ProcessGone, Alive
  <2> QED
    BY <2>2, <2>3
<1>3. ProcessInv /\ StartingIsFresh /\ ClaimsAreCarried /\ [Next]_vars =>
         (ProcessInv /\ StartingIsFresh /\ ClaimsAreCarried)'
  BY <1>2, ProcessInvariant, StartingInvariant DEF ProcessInv
<1> QED
  BY <1>1, <1>3, PTL DEF Spec

-----------------------------------------------------------------------------
(* What the output has. *)

\* What the writer knows of its output.
OutputKnown ==
    /\ seen = {PlaceOf[v] : v \in file} \ {NoPlace}
    /\ mainPc = "mark" => item \in file
    /\ ~BufferedWriter => file \subseteq saved
    /\ monitor # "idle" => "stall" \in Faults
    /\ runPc = "filter" => UseRadius

OutputInv == ProcessInv /\ OutputKnown

LEMMA OutputInvariant ==
    /\ Init => OutputInv
    /\ OutputInv /\ [Next]_vars => OutputInv'
<1> USE DEF OutputInv, OutputKnown
<1>1. Init => OutputInv
  BY ProcessInvariant DEF Init
<1>2. ASSUME OutputInv, [Next]_vars
      PROVE  OutputKnown'
  <2>1. ASSUME NEW w \in Workers, WorkerNext(w)
        PROVE  OutputKnown'
    BY <1>2, <2>1, WorkerFrames DEF WorkerFrame, writerVars
  <2>2. CASE RunNext
    <3>1. UNCHANGED <<writerVars, monitor>>
      BY <2>2 DEF RunNext, EnsureReset, EnsureStart, EnsureFails, JobReady, EnsureStep,
         JoinWorkers, FilterOut, FilterDone, EmitKept, EmitKeptDone, FinishRead, FinishSet, RunStep,
         processVars
    <3>2. runPc' = "filter" => UseRadius
      BY <1>2, <2>2 DEF RunNext, EnsureReset, EnsureStart, EnsureFails, JobReady, EnsureStep,
         JoinWorkers, FilterOut, FilterDone, EmitKept, EmitKeptDone, FinishRead, FinishSet,
         RunStep
    <3> QED
      BY <1>2, <3>1, <3>2 DEF writerVars
  <2>3. CASE MonitorNext
    BY <1>2, <2>3 DEF MonitorNext, StallDetected, StallReset, StallStatus, MonitorStep, runVars,
       writerVars
  <2>4. CASE Receive \/ SkipDuplicate \/ WriteFails \/ MarkWritten \/ Drained \/ MainFinishRead
             \/ MainFinishSet
    BY <1>2, <2>4 DEF Receive, SkipDuplicate, WriteFails, MarkWritten, Drained, MainFinishRead,
       MainFinishSet, WriterStep, processVars
  <2>5. CASE WriteEntry
    <3>1. UNCHANGED <<monitor, runPc, item>> /\ file' = file \cup {item}
      BY <2>5 DEF WriteEntry, WriterStep, processVars
    <3>2. seen' = {PlaceOf[v] : v \in file'} \ {NoPlace}
      BY <1>2, <2>5, <3>1 DEF WriteEntry
    <3>3. ~BufferedWriter => file' \subseteq saved'
      BY <1>2, <2>5, <3>1 DEF WriteEntry
    <3> QED
      BY <1>2, <3>1, <3>2, <3>3
  <2>6. CASE SignalPause \/ SignalCancel \/ ControlPause \/ Restart
    BY <1>2, <2>6 DEF SignalPause, SignalCancel, ControlPause, SignalFrame, Restart, runVars,
       writerVars, processVars
  <2>7. CASE Dies \/ MainExit
    BY <2>7 DEF Dies, MainExit, ProcessGone
  <2>8. CASE UNCHANGED vars
    BY <1>2, <2>8 DEF vars, runVars, writerVars, processVars
  <2> QED
    BY <1>2, <2>1, <2>2, <2>3, <2>4, <2>5, <2>6, <2>7, <2>8 DEF Next, WriterNext, EnvironmentNext
<1> QED
  BY <1>1, <1>2, ProcessInvariant

\* A process writes a place that has an identity once.
THEOREM EveryPlaceOnce == Spec => NoPlaceTwice
<1>1. ASSUME OutputInv, [Next]_vars, mainPc = "have", mainPc' = "mark", NEW v \in file
      PROVE  ~SamePlace(v, item)
  <2>1. WriteEntry
    <3>1. \A w \in Workers : ~WorkerNext(w)
      BY <1>1, WorkerFrames DEF WorkerFrame, writerVars
    <3>2. ~RunNext /\ ~MonitorNext
      BY <1>1 DEF RunNext, EnsureReset, EnsureStart, EnsureFails, JobReady, EnsureStep,
         JoinWorkers, FilterOut, FilterDone, EmitKept, EmitKeptDone, FinishRead, FinishSet, RunStep,
         MonitorNext, StallDetected, StallReset, StallStatus, MonitorStep, writerVars
    <3>3. ~EnvironmentNext /\ ~UNCHANGED vars
      BY <1>1 DEF EnvironmentNext, SignalPause, SignalCancel, ControlPause, SignalFrame, Dies,
         ProcessGone, Restart, vars, writerVars
    <3>4. WriterNext => WriteEntry
      BY <1>1 DEF WriterNext, Receive, SkipDuplicate, WriteFails, MarkWritten, Drained,
         MainFinishRead, MainFinishSet, WriterStep, MainExit
    <3> QED
      BY <1>1, <3>1, <3>2, <3>3, <3>4 DEF Next
  <2> QED
    BY <1>1, <2>1 DEF WriteEntry, Duplicate, SamePlace, OutputInv, OutputKnown
<1>2. OutputInv /\ [Next]_vars =>
         [mainPc = "have" /\ mainPc' = "mark" => \A v \in file : ~SamePlace(v, item)]_vars
  BY <1>1
<1> QED
  BY <1>2, OutputInvariant, PTL DEF Spec, NoPlaceTwice

Output == IF Alive THEN saved \cup file ELSE saved

\* What has reached the output stays: with a buffered writer as long as nothing
\* kills the process.
LEMMA OutputKept ==
    ASSUME OutputInv, [Next]_vars, BufferedWriter => Faults \cap {"stall", "crash"} = {}
    PROVE  Output \subseteq Output'
<1> USE DEF Output, Alive
<1>1. CASE UNCHANGED <<runPc, saved, file>>
  BY <1>1
<1>2. ASSUME NEW w \in Workers, WorkerNext(w)
      PROVE  UNCHANGED <<runPc, saved, file>>
  BY <1>2, WorkerFrames DEF WorkerFrame, writerVars
<1>3. CASE RunNext
  <2>1. runPc # "down" /\ runPc' # "down" /\ UNCHANGED <<saved, file>>
    BY <1>3 DEF RunNext, EnsureReset, EnsureStart, EnsureFails, JobReady, EnsureStep, JoinWorkers,
       FilterOut, FilterDone, EmitKept, EmitKeptDone, FinishRead, FinishSet, RunStep, writerVars
  <2> QED
    BY <2>1
<1>4. CASE MonitorNext
  BY <1>4 DEF MonitorNext, StallDetected, StallReset, StallStatus, MonitorStep, runVars,
     writerVars
<1>5. CASE WriterNext /\ ~MainExit
  BY <1>5 DEF WriterNext, Receive, SkipDuplicate, WriteEntry, WriteFails, MarkWritten, Drained,
     MainFinishRead, MainFinishSet, WriterStep
<1>6. CASE MainExit
  BY <1>6 DEF MainExit, ProcessGone
<1>7. CASE Dies
  <2>1. ~BufferedWriter
    BY <1>7 DEF Dies, OutputInv, OutputKnown
  <2> QED
    BY <1>7, <2>1 DEF Dies, ProcessGone, OutputInv, OutputKnown
<1>8. CASE SignalPause \/ SignalCancel \/ ControlPause \/ Restart
  BY <1>8 DEF SignalPause, SignalCancel, ControlPause, SignalFrame, Restart, runVars, writerVars
<1>9. CASE UNCHANGED vars
  BY <1>9 DEF vars, runVars, writerVars
<1> QED
  BY <1>1, <1>2, <1>3, <1>4, <1>5, <1>6, <1>7, <1>8, <1>9 DEF Next, EnvironmentNext

\* A row that becomes done has its place in the output, or was filtered out.
LEMMA MarkedIsDelivered ==
    ASSUME OutputInv, [Next]_vars, NEW u \in URLIDs, urlStatus[u] # "done", urlStatus'[u] = "done"
    PROVE  Delivered(u, Output')
<1>1. FilterOut(u) \/ (item = u /\ (SkipDuplicate \/ MarkWritten))
  BY RowMoves DEF OutputInv, ProcessInv, RowChange
<1>2. CASE FilterOut(u)
  BY <1>2 DEF FilterOut, RunStep, Delivered, OutputInv, OutputKnown
<1>3. ASSUME item = u, SkipDuplicate \/ MarkWritten
      PROVE  \E v \in file : v = u \/ SamePlace(u, v)
  BY <1>3 DEF SkipDuplicate, MarkWritten, WriterStep, Duplicate, SamePlace, OutputInv, OutputKnown
<1>4. SkipDuplicate \/ MarkWritten => file \subseteq Output'
  BY DEF SkipDuplicate, MarkWritten, WriterStep, Output, Alive
<1> QED
  BY <1>1, <1>2, <1>3, <1>4 DEF Delivered

\* A row that is done has its place in the output, across crashes and restarts;
\* with the CSV writer, unless the process is killed or stalls.
THEOREM DoneHasOutput ==
    ASSUME BufferedWriter => Faults \cap {"stall", "crash"} = {}
    PROVE  Spec => []DoneIsDelivered
<1>1. Init => OutputInv /\ DoneIsDelivered
  BY OutputInvariant DEF Init, DoneIsDelivered, URLsWith
<1>2. ASSUME OutputInv, DoneIsDelivered, [Next]_vars
      PROVE  DoneIsDelivered'
  <2>1. SUFFICES ASSUME NEW u \in URLIDs, urlStatus'[u] = "done"
                 PROVE  Delivered(u, Output')
    BY DEF DoneIsDelivered, URLsWith, Output, Alive, Delivered, SamePlace, Outside
  <2>2. CASE urlStatus[u] = "done"
    <3>1. Delivered(u, Output)
      BY <1>2, <2>2 DEF DoneIsDelivered, URLsWith, Output
    <3> QED
      BY <1>2, <3>1, OutputKept DEF Delivered
  <2>3. CASE urlStatus[u] # "done"
    BY <1>2, <2>1, <2>3, MarkedIsDelivered
  <2> QED
    BY <2>2, <2>3
<1>3. OutputInv /\ DoneIsDelivered /\ [Next]_vars => (OutputInv /\ DoneIsDelivered)'
  BY <1>2, OutputInvariant
<1> QED
  BY <1>1, <1>3, PTL DEF Spec

-----------------------------------------------------------------------------
(* The queue when all workers have left. *)

\* Whoever leaves a pending row behind is not the last one to look.
SomebodyLooks ==
    runErr = "nil" /\ monitor = "idle" /\ URLsWith("pending") # {} =>
        \E w \in Workers : pc[w] # "exited" /\ (pauseRequested \/ pc[w] # "noRow")

\* A worker that ends without an error has just seen an empty queue.
LEMMA WorkerLeaves ==
    ASSUME TypeInv, NEW w \in Workers, WorkerNext(w)
    PROVE  /\ runErr' = "nil" => runErr = "nil"
           /\ runErr' = "nil" /\ pc'[w] = "exited" => pc[w] = "noRow" /\ ~pauseRequested
           /\ pc'[w] = "noRow" => NothingClaimable /\ UNCHANGED storeVars
           /\ UNCHANGED monitor
<1>0. pc \in [Workers -> WorkerSteps] /\ runErr \in RunErrs
  BY DEF TypeInv, TypeOK
<1>1. UNCHANGED monitor
  BY WorkerFrames DEF WorkerFrame
<1>2. CASE Top(w) \/ ClaimNoRow(w) \/ SeePause(w) \/ PauseIsRecovery(w) \/ TriggerJoin(w)
           \/ BrowseDelay(w) \/ AcquirePage(w) \/ RecoverySleep(w)
  BY <1>0, <1>1, <1>2 DEF Top, ClaimNoRow, SeePause, PauseIsRecovery, TriggerJoin, BrowseDelay,
     AcquirePage, RecoverySleep, Local, Working, Move
<1>3. ASSUME NEW from, NEW err \in RunErrs \ {"nil"}, Leave(w, from, err)
      PROVE  runErr' # "nil" /\ pc'[w] = "exited"
  BY <1>0, <1>3 DEF Leave, Return, Drop, RunErrs
<1>4. CASE PauseEndsRun(w) \/ Cancelled(w) \/ CallFails(w)
  BY <1>1, <1>3, <1>4 DEF PauseEndsRun, Cancelled, CallFails, RunErrs
<1>5. CASE QueueEmpty(w)
  BY <1>0, <1>1, <1>5 DEF QueueEmpty, Leave, Working, Return, Drop
<1>6. CASE (\E u \in URLIDs : Claim(w, u)) \/ FastRetry(w) \/ ScrapeOK(w) \/ Emit(w)
  BY <1>0, <1>1, <1>6 DEF Claim, FastRetry, ScrapeOK, Emit, Working, Move, Drop
<1>7. CASE \E e \in ScrapeFaults : GiveUpURL(w, e) \/ RetryURL(w, e) \/ FailURL(w, e)
  BY <1>0, <1>1, <1>7 DEF GiveUpURL, RetryURL, FailURL, Drop, Return
<1>8. CASE TriggerLead(w) \/ RecoveryPause(w) \/ RecoveryReset(w) \/ RecoveryResume(w)
           \/ RecoveryDone(w)
  BY <1>0, <1>1, <1>8 DEF TriggerLead, RecoveryPause, RecoveryReset, RecoveryResume, RecoveryDone,
     RecoveryStep, Working, Move
<1>9. CASE RecoveryAborts(w)
  BY <1>0, <1>1, <1>9 DEF RecoveryAborts, Return, Drop
<1> QED
  BY <1>2, <1>4, <1>5, <1>6, <1>7, <1>8, <1>9 DEF WorkerNext

\* The error of a run and the stall of a process do not go away in it.
LEMMA TroubleStays ==
    ASSUME [Next]_vars, \A w \in Workers : ~WorkerNext(w), runErr' = "nil", monitor' = "idle"
    PROVE  Restart \/ ProcessGone \/ (runErr = "nil" /\ monitor = "idle")
BY DEF Next, vars, RunNext, EnsureReset, EnsureStart, EnsureFails, JobReady, EnsureStep,
   JoinWorkers, FilterOut, FilterDone, EmitKept, EmitKeptDone, FinishRead, FinishSet, RunStep, MonitorNext,
       StallDetected, StallReset, StallStatus, MonitorStep, WriterNext, Receive, SkipDuplicate,
       WriteEntry, WriteFails, MarkWritten, Drained, MainFinishRead, MainFinishSet, WriterStep,
       MainExit, EnvironmentNext, SignalPause, SignalCancel, ControlPause, SignalFrame, Dies,
       Restart, processVars, runVars

\* Who leaves a row pending still has to look at the queue.
LEMMA PendingFrom ==
    ASSUME TypeInv, [Next]_vars, monitor' = "idle", NEW u \in URLIDs, urlStatus'[u] = "pending"
    PROVE  \/ urlStatus[u] = "pending"
           \/ EnsureReset
           \/ \E w \in Workers : pc'[w] \in {"top", "trigger", "recClear"}
<1>0. pc \in [Workers -> WorkerSteps]
  BY DEF TypeInv, TypeOK
<1>1. SUFFICES ASSUME urlStatus[u] # "pending", ~EnsureReset
               PROVE  \E w \in Workers : pc'[w] \in {"top", "trigger", "recClear"}
  OBVIOUS
<1>2. ~StallReset
  BY DEF StallReset, MonitorStep
<1>3. RowChange(u)
  BY <1>1, RowMoves
<1>4. PICK w \in Workers : RecoveryReset(w) \/ \E e \in ScrapeFaults : RetryURL(w, e)
  BY <1>1, <1>2, <1>3 DEF RowChange
<1>5. pc'[w] \in {"top", "trigger", "recClear"}
  BY <1>0, <1>4 DEF RecoveryReset, RecoveryStep, Move, RetryURL, Drop
<1> QED
  BY <1>5

LEMMA QueueInvariant ==
    /\ Init => SomebodyLooks
    /\ ProcessInv /\ SomebodyLooks /\ [Next]_vars => SomebodyLooks'
<1> DEFINE Looks(w) == pc[w] # "exited" /\ (pauseRequested \/ pc[w] # "noRow")
<1>1. Init => SomebodyLooks
  BY RunAssumption DEF Init, SomebodyLooks, Each
<1>2. ASSUME ProcessInv, SomebodyLooks, [Next]_vars, runErr' = "nil", monitor' = "idle",
             NEW u \in URLIDs, urlStatus'[u] = "pending"
      PROVE  \E w \in Workers : Looks(w)'
  <2>0. TypeInv /\ pc \in [Workers -> WorkerSteps]
    BY <1>2 DEF ProcessInv, TypeInv, TypeOK
  <2>a. ASSUME \A w \in Workers : pc'[w] = "top"
        PROVE  \E w \in Workers : Looks(w)'
    BY <2>a, RunAssumption
  <2>1. CASE ProcessGone
    BY <2>1, <2>a DEF ProcessGone, Each
  <2>2. CASE Restart \/ EnsureReset \/ EnsureStart
    <3>1. \A w \in Workers : pc'[w] = "top"
      BY <1>2, <2>2 DEF Restart, Alive, EnsureReset, EnsureStart, EnsureStep, workerVars,
         ProcessInv, Phases, Before
    <3> QED
      BY <2>a, <3>1
  <2>3. CASE urlStatus[u] # "pending" /\ ~EnsureReset
    BY <1>2, <2>0, <2>3, PendingFrom
  <2>4. CASE urlStatus[u] = "pending" /\ ~ProcessGone /\ ~Restart /\ ~EnsureReset /\ ~EnsureStart
    <3>1. runErr = "nil" /\ monitor = "idle"
      BY <1>2, <2>0, <2>4, WorkerLeaves, TroubleStays
    <3>2. PICK w \in Workers : Looks(w)
      BY <1>2, <2>4, <3>1 DEF SomebodyLooks, URLsWith
    <3>3. CASE \E x \in Workers : RecoveryResume(x)
      <4>1. PICK x \in Workers : RecoveryResume(x)
        BY <3>3
      <4>2. pc'[x] \in {"recStart", "recDone"}
        BY <2>0, <4>1 DEF RecoveryResume, RecoveryStep, Move
      <4> QED
        BY <4>2
    <3>4. CASE ~\E x \in Workers : RecoveryResume(x)
      <4>1. pauseRequested => pauseRequested'
        BY <1>2, <2>4, <3>4, PauseLifted
      <4>2. CASE pc'[w] = pc[w]
        BY <3>2, <4>1, <4>2
      <4>3. CASE pc'[w] # pc[w]
        <5>1. WorkerNext(w)
          <6>1. CASE \E v \in Workers : WorkerNext(v)
            BY <2>0, <4>3, <6>1, WorkerMoves
          <6>2. CASE \A v \in Workers : ~WorkerNext(v)
            BY <1>2, <2>4, <4>3, <6>2, OthersMoves DEF workerVars
          <6> QED
            BY <6>1, <6>2
        <5>2. pc'[w] # "exited"
          BY <1>2, <2>0, <3>2, <5>1, WorkerLeaves
        <5>3. pc'[w] = "noRow" => pauseRequested'
          BY <1>2, <2>0, <2>4, <5>1, WorkerLeaves DEF NothingClaimable, URLsWith, storeVars
        <5> QED
          BY <5>2, <5>3
      <4> QED
        BY <4>2, <4>3
    <3> QED
      BY <3>3, <3>4
  <2> QED
    BY <2>1, <2>2, <2>3, <2>4
<1>3. ProcessInv /\ SomebodyLooks /\ [Next]_vars => SomebodyLooks'
  BY <1>2 DEF SomebodyLooks, URLsWith
<1> QED
  BY <1>1, <1>3

\* When all workers have left without an error the queue is empty.
THEOREM QueueIsDrained == Spec => []QueueDrained
<1>1. ProcessInv /\ SomebodyLooks /\ [Next]_vars => (ProcessInv /\ SomebodyLooks)'
  BY ProcessInvariant, QueueInvariant
<1>2. Init => ProcessInv /\ SomebodyLooks
  BY ProcessInvariant, QueueInvariant
<1>3. SomebodyLooks => QueueDrained
  BY DEF SomebodyLooks, QueueDrained, Exited
<1> QED
  BY <1>1, <1>2, <1>3, PTL DEF Spec

-----------------------------------------------------------------------------
(* What a reset means, and what a settled job. *)

\* Recoveries belong to AutoRecover and reset the claims before they lift the
\* pause; without them only a stall resets claims, and its process is lost.
ResetsAreRecoveries ==
    /\ \A w \in Workers : pc[w] \in RecoverySteps \cup {"trigger"} => AutoRecover
    /\ \A w \in Workers : pc[w] \in {"recClear", "recStart"} => reset
    /\ reset => AutoRecover \/ monitor # "idle"

\* A job is settled from a count that nothing has changed since.
AllDone == \A u \in URLIDs : urlStatus[u] = "done"
Settled ==
    /\ verdict = "done" => AllDone /\ runPc \in {"finSet", "closed"}
    /\ jobStatus = "done" => AllDone /\ runPc \in {"down", "closed"}

\* A worker's step and the recoveries.
LEMMA WorkerResets ==
    ASSUME TypeInv, NEW w \in Workers, WorkerNext(w)
    PROVE  /\ pc' = [pc EXCEPT ![w] = pc'[w]]
           /\ pc'[w] \in RecoverySteps \cup {"trigger"} =>
                 AutoRecover \/ pc[w] \in RecoverySteps \cup {"trigger"}
           /\ pc'[w] \in {"recClear", "recStart"} =>
                 reset' \/ (pc[w] \in {"recClear", "recStart"} /\ UNCHANGED reset)
           /\ UNCHANGED reset \/ (reset' /\ pc[w] \in RecoverySteps)
           /\ UNCHANGED monitor
<1>0. pc \in [Workers -> WorkerSteps]
  BY DEF TypeInv, TypeOK
<1>1. UNCHANGED monitor
  BY WorkerFrames DEF WorkerFrame
<1> USE DEF RecoverySteps
<1>2. CASE Top(w) \/ ClaimNoRow(w) \/ SeePause(w) \/ PauseIsRecovery(w) \/ TriggerJoin(w)
           \/ BrowseDelay(w) \/ AcquirePage(w) \/ RecoverySleep(w)
  BY <1>0, <1>1, <1>2 DEF Top, ClaimNoRow, SeePause, PauseIsRecovery, TriggerJoin, BrowseDelay,
     AcquirePage, RecoverySleep, Local, Working, Move
<1>3. CASE QueueEmpty(w) \/ PauseEndsRun(w) \/ Cancelled(w) \/ CallFails(w)
  BY <1>0, <1>1, <1>3 DEF QueueEmpty, PauseEndsRun, Cancelled, CallFails, Leave, Return, Drop
<1>4. CASE (\E u \in URLIDs : Claim(w, u)) \/ FastRetry(w) \/ ScrapeOK(w) \/ Emit(w)
  BY <1>0, <1>1, <1>4 DEF Claim, FastRetry, ScrapeOK, Emit, Move, Drop
<1>5. CASE \E e \in ScrapeFaults : GiveUpURL(w, e) \/ RetryURL(w, e) \/ FailURL(w, e)
  BY <1>0, <1>1, <1>5 DEF GiveUpURL, RetryURL, FailURL, ScrapeError, Drop, Return
<1>6. CASE TriggerLead(w) \/ RecoveryPause(w) \/ RecoveryReset(w) \/ RecoveryResume(w)
           \/ RecoveryDone(w)
  BY <1>0, <1>1, <1>6 DEF TriggerLead, RecoveryPause, RecoveryReset, RecoveryResume, RecoveryDone,
     RecoveryStep, Working, Move
<1>7. CASE RecoveryAborts(w)
  BY <1>0, <1>1, <1>7 DEF RecoveryAborts, Return, Drop
<1> QED
  BY <1>2, <1>3, <1>4, <1>5, <1>6, <1>7 DEF WorkerNext

\* Besides the recoveries only the stall monitor resets claims, on its way out.
LEMMA OthersResets ==
    ASSUME [Next]_vars, \A w \in Workers : ~WorkerNext(w), ~ProcessGone
    PROVE  /\ UNCHANGED reset \/ (reset' /\ monitor' # "idle")
           /\ monitor # "idle" => monitor' # "idle"
BY DEF Next, vars, RunNext, EnsureReset, EnsureStart, EnsureFails, JobReady, EnsureStep,
   JoinWorkers, FilterOut, FilterDone, EmitKept, EmitKeptDone, FinishRead, FinishSet, RunStep, MonitorNext,
       StallDetected, StallReset, StallStatus, MonitorStep, WriterNext, Receive, SkipDuplicate,
       WriteEntry, WriteFails, MarkWritten, Drained, MainFinishRead, MainFinishSet, WriterStep,
       MainExit, EnvironmentNext, SignalPause, SignalCancel, ControlPause, SignalFrame, Dies,
       Restart, processVars

LEMMA ResetInvariant ==
    /\ Init => ResetsAreRecoveries
    /\ TypeInv /\ ResetsAreRecoveries /\ [Next]_vars => ResetsAreRecoveries'
<1> USE DEF ResetsAreRecoveries
<1>1. Init => ResetsAreRecoveries
  BY DEF Init, Each, RecoverySteps
<1>2. ASSUME TypeInv, ResetsAreRecoveries, [Next]_vars
      PROVE  ResetsAreRecoveries'
  <2>0. pc \in [Workers -> WorkerSteps]
    BY <1>2 DEF TypeInv, TypeOK
  <2>1. CASE \E w \in Workers : WorkerNext(w)
    BY <1>2, <2>0, <2>1, WorkerResets
  <2>2. CASE ProcessGone
    BY <2>2 DEF ProcessGone, Each, RecoverySteps
  <2>3. CASE (\A w \in Workers : ~WorkerNext(w)) /\ ~ProcessGone
    <3>1. UNCHANGED pc
      BY <1>2, <2>3, OthersMoves DEF workerVars
    <3> QED
      BY <1>2, <2>3, <3>1, OthersResets
  <2> QED
    BY <2>1, <2>2, <2>3
<1> QED
  BY <1>1, <1>2

\* A verdict of "done" is a count of the rows, made when the run is over; the
\* job's status becomes "done" by such a verdict only.
LEMMA VerdictMoves ==
    ASSUME TypeInv, [Next]_vars
    PROVE  /\ verdict' = "done" =>
                 \/ UNCHANGED <<verdict, runPc>>
                 \/ AllDone /\ UNCHANGED storeVars /\ (FinishRead \/ MainFinishRead)
                 \/ UNCHANGED verdict /\ runPc \notin {"finSet", "closed"}
           /\ jobStatus' = "done" =>
                 UNCHANGED jobStatus \/ (verdict = "done" /\ (FinishSet \/ MainFinishSet))
<1>0. StoreTypeOK
  BY DEF TypeInv, TypeOK
<1>v. "done" \in StatsVerdict => AllDone
  BY <1>0 DEF StatsVerdict, Verdict, AllDone, URLsWith, StoreTypeOK, URLStatuses
<1> USE DEF storeVars, Try, RequestPause, MarkURLDone, MarkURLFailed, RequeueURL, SetURLStatus,
            ResetInProgress, SetJobStatus, StartJob, ClearPause, ClaimNextURL
<1>1. ASSUME NEW w \in Workers, WorkerNext(w)
      PROVE  UNCHANGED <<verdict, runPc>> /\ (jobStatus' = "done" => UNCHANGED jobStatus)
  <2>1. UNCHANGED <<verdict, runPc>>
    BY <1>1, WorkerFrames DEF WorkerFrame
  <2>2. jobStatus' = "done" => UNCHANGED jobStatus
    BY <1>1 DEF WorkerNext, Top, ClaimNoRow, SeePause, PauseIsRecovery, TriggerJoin,
       RecoverySleep, Local, QueueEmpty, PauseEndsRun, Cancelled, CallFails, Leave, Claim, BrowseDelay,
       AcquirePage, ScrapeOK, Emit, FastRetry, GiveUpURL, RetryURL, FailURL, TriggerLead, RecoveryPause,
       RecoveryReset, RecoveryResume, RecoveryDone, RecoveryAborts
  <2> QED
    BY <2>1, <2>2
<1>2. CASE EnsureReset \/ EnsureStart \/ EnsureFails \/ JobReady
  BY <1>2 DEF EnsureReset, EnsureStart, EnsureFails, JobReady, EnsureStep
<1>3. CASE JoinWorkers \/ (\E u \in URLIDs : FilterOut(u)) \/ FilterDone \/ EmitKept \/ EmitKeptDone
  BY <1>3 DEF JoinWorkers, FilterOut, FilterDone, EmitKept, EmitKeptDone, RunStep
<1>4. CASE FinishRead
  <2>1. verdict' = "done" => AllDone
    BY <1>4, <1>v DEF FinishRead, TypeInv, TypeOK, RunErrs
  <2> QED
    BY <1>4, <2>1 DEF FinishRead
<1>5. CASE FinishSet \/ MainFinishSet
  BY <1>5 DEF FinishSet, MainFinishSet, SettleJob
<1>6. CASE MonitorNext
  BY <1>6 DEF MonitorNext, StallDetected, StallReset, StallStatus, MonitorStep, runVars
<1>7. CASE Receive \/ SkipDuplicate \/ WriteEntry \/ WriteFails \/ MarkWritten \/ Drained
  BY <1>7 DEF Receive, SkipDuplicate, WriteEntry, WriteFails, MarkWritten, Drained, WriterStep
<1>8. CASE MainFinishRead
  BY <1>8, <1>v DEF MainFinishRead
<1>9. CASE EnvironmentNext \/ MainExit
  BY <1>9 DEF EnvironmentNext, MainExit, SignalPause, SignalCancel, ControlPause, SignalFrame,
     Dies, ProcessGone, Restart, Alive, runVars
<1>10. CASE UNCHANGED vars
  BY <1>10 DEF vars, runVars
<1> QED
  BY <1>1, <1>2, <1>3, <1>4, <1>5, <1>6, <1>7, <1>8, <1>9, <1>10 DEF Next, RunNext, WriterNext

\* Nothing follows the end of Run but the end of the process, and nothing that
\* but a restart of a job that is not done.
LEMMA RunPcMoves ==
    ASSUME [Next]_vars
    PROVE  /\ runPc = "closed" => runPc' \in {"closed", "down"}
           /\ runPc = "down" /\ jobStatus = "done" => runPc' = "down"
<1>1. ASSUME NEW w \in Workers, WorkerNext(w) PROVE runPc = "workers"
  BY <1>1, WorkerFrames
<1>2. CASE RunNext
  BY <1>2 DEF RunNext, EnsureReset, EnsureStart, EnsureFails, JobReady, EnsureStep, JoinWorkers,
     FilterOut, FilterDone, EmitKept, EmitKeptDone, FinishRead, FinishSet, RunStep
<1>3. CASE MonitorNext
  BY <1>3 DEF MonitorNext, StallDetected, StallReset, StallStatus, MonitorStep
<1>4. CASE WriterNext
  BY <1>4 DEF WriterNext, Receive, SkipDuplicate, WriteEntry, WriteFails, MarkWritten, Drained,
     MainFinishRead, MainFinishSet, WriterStep, MainExit, ProcessGone
<1>5. CASE EnvironmentNext
  BY <1>5 DEF EnvironmentNext, SignalPause, SignalCancel, ControlPause, SignalFrame, Dies,
     ProcessGone, Restart, Alive, runVars
<1>6. CASE UNCHANGED vars
  BY <1>6 DEF vars, runVars
<1> QED
  BY <1>1, <1>2, <1>3, <1>4, <1>5, <1>6 DEF Next

SettledInv == ProcessInv /\ ClaimInv /\ ResetsAreRecoveries /\ Settled

\* Nobody unsettles a row once the run is over.
LEMMA AllDoneStays ==
    ASSUME "write" \in Faults => ~AutoRecover, ProcessInv, ClaimInv, ResetsAreRecoveries, [Next]_vars,
           AllDone, runPc \in {"finSet", "closed", "down"}
    PROVE  AllDone'
<1>1. SUFFICES ASSUME NEW u \in URLIDs, urlStatus'[u] # "done" PROVE FALSE
  BY DEF AllDone
<1>2. urlStatus[u] = "done"
  BY DEF AllDone
<1>3. item = u /\ WriteFails
  BY <1>1, <1>2, RowMoves DEF ProcessInv, RowChange, Errored
<1>4. ~AutoRecover /\ runPc \in {"finSet", "closed"}
  BY <1>3 DEF WriteFails, WriterStep, Alive
<1>5. ~reset
  BY <1>4 DEF ProcessInv, Phases, After, ResetsAreRecoveries
<1> QED
  BY <1>2, <1>3, <1>5 DEF ClaimInv, CarriedIsClaimed, Carried

LEMMA SettledInvariant ==
    ASSUME "write" \in Faults => ~AutoRecover
    PROVE  /\ Init => SettledInv
           /\ SettledInv /\ [Next]_vars => SettledInv'
<1>1. Init => SettledInv
  BY ProcessInvariant, ClaimInvariant, ResetInvariant DEF SettledInv, Settled, Init
<1>2. ASSUME SettledInv, [Next]_vars
      PROVE  Settled'
  <2>0. ProcessInv /\ TypeInv /\ ClaimInv /\ ResetsAreRecoveries /\ Settled
    BY <1>2 DEF SettledInv, ProcessInv
  <2>1. ASSUME verdict' = "done"
        PROVE  AllDone' /\ runPc' \in {"finSet", "closed"}
    <3>1. CASE UNCHANGED <<verdict, runPc>>
      BY <1>2, <2>0, <2>1, <3>1, AllDoneStays DEF Settled
    <3>2. CASE AllDone /\ UNCHANGED storeVars /\ (FinishRead \/ MainFinishRead)
      BY <2>0, <3>2 DEF FinishRead, MainFinishRead, RunStep, WriterStep, ProcessInv, Phases,
         AllDone, storeVars
    <3>3. ~(UNCHANGED verdict /\ runPc \notin {"finSet", "closed"})
      BY <2>0, <2>1 DEF Settled
    <3> QED
      BY <1>2, <2>0, <2>1, <3>1, <3>2, <3>3, VerdictMoves
  <2>2. ASSUME jobStatus' = "done"
        PROVE  AllDone' /\ runPc' \in {"down", "closed"}
    <3>1. CASE UNCHANGED jobStatus
      BY <1>2, <2>0, <2>2, <3>1, AllDoneStays, RunPcMoves DEF Settled
    <3>2. CASE verdict = "done" /\ (FinishSet \/ MainFinishSet)
      <4>1. AllDone'
        BY <1>2, <2>0, <3>2, AllDoneStays DEF Settled
      <4>2. runPc' = "closed"
        BY <2>0, <3>2 DEF FinishSet, MainFinishSet, RunStep, WriterStep, ProcessInv, Phases
      <4> QED
        BY <4>1, <4>2
    <3> QED
      BY <1>2, <2>0, <2>2, <3>1, <3>2, VerdictMoves
  <2> QED
    BY <2>1, <2>2 DEF Settled
<1>3. ASSUME SettledInv, [Next]_vars
      PROVE  SettledInv'
  <2>1. ProcessInv' /\ ClaimInv' /\ ResetsAreRecoveries'
    BY <1>3, ProcessInvariant, ClaimInvariant, ResetInvariant DEF SettledInv, ProcessInv
  <2> QED
    BY <1>2, <1>3, <2>1 DEF SettledInv
<1> QED
  BY <1>1, <1>3

\* A job that is done has every URL done, unless a failed write meets the
\* resets of a recovery.
THEOREM DoneIsComplete ==
    ASSUME "write" \in Faults => ~AutoRecover
    PROVE  Spec => []DoneJobIsComplete
<1>1. SettledInv => DoneJobIsComplete
  BY DEF SettledInv, Settled, AllDone, DoneJobIsComplete
<1> QED
  BY <1>1, SettledInvariant, PTL DEF Spec

-----------------------------------------------------------------------------
(* After the first Ctrl-C. *)

\* After a Ctrl-C the job stays paused until a recovery lifts the pause.
PauseStays ==
    /\ runPc = "workers" => currentJob
    /\ runPc = "workers" /\ pauseWanted /\ ~(AutoRecover /\ reset) => pauseRequested

PauseInv == TypeInv /\ ResetsAreRecoveries /\ PauseStays

\* What the signals and the start of a run do to the pause, when the store
\* answers.
LEMMA SignalMoves ==
    ASSUME "store" \notin Faults, [Next]_vars
    PROVE  /\ runPc' = "workers" => UNCHANGED runPc \/ (JobReady /\ (pauseWanted' => pauseRequested'))
           /\ pauseWanted' => pauseWanted \/ (currentJob => pauseRequested')
           /\ currentJob => currentJob'
<1>1. ASSUME NEW w \in Workers, WorkerNext(w)
      PROVE  UNCHANGED <<runPc, pauseWanted, currentJob>> /\ runPc = "workers"
  BY <1>1, WorkerFrames DEF WorkerFrame, signalVars
<1>2. CASE JobReady
  BY <1>2 DEF JobReady, EnsureStep, Try, RequestPause
<1>3. CASE RunNext /\ ~JobReady
  BY <1>3 DEF RunNext, EnsureReset, EnsureStart, EnsureFails, EnsureStep, JoinWorkers,
     FilterOut, FilterDone, EmitKept, EmitKeptDone, FinishRead, FinishSet, RunStep, signalVars
<1>4. CASE MonitorNext
  BY <1>4 DEF MonitorNext, StallDetected, StallReset, StallStatus, MonitorStep, runVars,
     signalVars
<1>5. CASE WriterNext
  BY <1>5 DEF WriterNext, Receive, SkipDuplicate, WriteEntry, WriteFails, MarkWritten, Drained,
     MainFinishRead, MainFinishSet, WriterStep, MainExit, ProcessGone, signalVars
<1>6. CASE EnvironmentNext
  BY <1>6 DEF EnvironmentNext, SignalPause, SignalCancel, ControlPause, SignalFrame, Dies,
     ProcessGone, Restart, runVars, signalVars, Try, RequestPause
<1>7. CASE UNCHANGED vars
  BY <1>7 DEF vars, runVars, signalVars
<1> QED
  BY <1>1, <1>2, <1>3, <1>4, <1>5, <1>6, <1>7 DEF Next

LEMMA PauseInvariant ==
    ASSUME "store" \notin Faults
    PROVE  /\ Init => PauseInv
           /\ PauseInv /\ [Next]_vars => PauseInv'
<1>1. Init => PauseInv
  BY InitType, ResetInvariant DEF PauseInv, PauseStays, Init
<1>2. ASSUME PauseInv, [Next]_vars
      PROVE  PauseStays'
  <2>1. SUFFICES ASSUME runPc' = "workers"
                 PROVE  /\ currentJob'
                        /\ pauseWanted' /\ ~(AutoRecover /\ reset') => pauseRequested'
    BY DEF PauseStays
  <2>2. CASE JobReady
    BY <1>2, <2>2, SignalMoves DEF JobReady, EnsureStep, Try, RequestPause
  <2>3. CASE UNCHANGED runPc
    <3>1. currentJob /\ currentJob'
      BY <1>2, <2>1, <2>3, SignalMoves DEF PauseInv, PauseStays
    <3>2. ASSUME pauseWanted, ~(AutoRecover /\ reset'), ~pauseRequested'
          PROVE  FALSE
      <4>1. reset => reset'
        <5>1. ~ProcessGone
          BY <2>1 DEF ProcessGone
        <5> QED
          BY <1>2, <5>1, ResetKept
      <4>2. pauseRequested
        BY <1>2, <2>1, <2>3, <3>2, <4>1 DEF PauseInv, PauseStays
      <4>3. ~EnsureStart
        BY <2>1 DEF EnsureStart, EnsureStep
      <4>4. PICK w \in Workers : RecoveryResume(w)
        BY <1>2, <3>2, <4>2, <4>3, PauseLifted
      <4>5. AutoRecover /\ reset
        BY <1>2, <4>4 DEF RecoveryResume, RecoveryStep, Working, PauseInv, ResetsAreRecoveries,
           RecoverySteps
      <4> QED
        BY <3>2, <4>1, <4>5
    <3> QED
      BY <1>2, <3>1, <3>2, SignalMoves
  <2> QED
    BY <1>2, <2>1, <2>2, <2>3, SignalMoves
<1>3. ASSUME PauseInv, [Next]_vars
      PROVE  TypeInv' /\ ResetsAreRecoveries'
  BY <1>3, NextType, ResetInvariant DEF PauseInv
<1> QED
  BY <1>1, <1>2, <1>3 DEF PauseInv

\* After the first Ctrl-C nothing is claimed before a recovery has reset the
\* claims and lifted the pause, which is what a recovery does with any pause.
THEOREM CtrlCHoldsUntilRecovery ==
    ASSUME "store" \notin Faults
    PROVE  Spec => PauseStopsClaims
<1>1. ASSUME PauseInv, [Next]_vars, NEW u \in URLIDs, runPc = "workers", pauseWanted,
             ~(AutoRecover /\ reset), Claimed(u)
      PROVE  FALSE
  <2>1. RowChange(u)
    BY <1>1, RowMoves DEF PauseInv, Claimed
  <2>2. ~pauseRequested
    BY <1>1, <2>1 DEF RowChange, Claimed, Claim, ClaimNextURL, Claimable
  <2> QED
    BY <1>1, <2>2 DEF PauseInv, PauseStays
<1>2. PauseInv /\ [Next]_vars =>
         [\A u \in URLIDs :
             runPc = "workers" /\ pauseWanted /\ ~(AutoRecover /\ reset) => ~Claimed(u)]_vars
  BY <1>1
<1> QED
  BY <1>2, PauseInvariant, PTL DEF Spec, PauseStopsClaims
=============================================================================
