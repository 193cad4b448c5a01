--------------------------- MODULE ScraperRunTypes --------------------------
(***************************************************************************)
(* What every state of ScraperRun looks like, whatever the queue, the numbers*)
(* of workers and retries and the faults: the types, and which parts of the*)
(* process are there in which phase of it.                                 *)
(***************************************************************************)
EXTENDS ScraperRun, TLAPS

-----------------------------------------------------------------------------
(* The inductive invariant. *)

\* Where the results and claims of this process are.
WorkerHolds == \A w \in Workers : held[w] # 0 <=> pc[w] \in HoldSteps

WriterHolds == item # 0 <=> mainPc \in {"have", "mark"}

DownTogether == mainPc = "down" <=> runPc = "down"

TypeInv == TypeOK /\ WorkerHolds /\ WriterHolds /\ DownTogether

Before == {"down", "reset", "start", "ready"}
After  == {"filter", "emitKept", "finRead", "finSet", "closed"}

\* The parts of the process do not outlive each other.
Phases ==
    /\ runPc \in Before => \A w \in Workers : pc[w] = "top"
    /\ runPc \in After => monitor = "idle" /\ \A w \in Workers : pc[w] \in {"top", "exited"}
    /\ runPc \in Before =>
          /\ monitor = "idle" /\ ~reset /\ ~recActive
          /\ entries = NoEntries /\ out = <<>> /\ item = 0 /\ file = {} /\ seen = {}
          /\ verdict = "none"
    /\ mainPc \in {"finRead", "finSet", "exit"} => runPc = "closed" /\ out = <<>>

ProcessInv == TypeInv /\ Phases


-----------------------------------------------------------------------------
(* Types. *)

LEMMA URLsCount == 0 \notin URLIDs /\ URLIDs \subseteq Nat
BY NumURLsAssumption DEF URLIDs

LEMMA InitType == Init => TypeInv
<1> SUFFICES ASSUME Init PROVE TypeInv
  OBVIOUS
<1> USE DEF Init
<1>1. StoreTypeOK
  BY DEF StoreTypeOK, JobStatuses, URLStatuses
<1>2. /\ pc \in [Workers -> WorkerSteps] /\ held \in [Workers -> URLOrNone]
      /\ heldAttempt \in [Workers -> Nat] /\ retries \in [Workers -> Nat]
  BY DEF Each, WorkerSteps, URLOrNone
<1>3. /\ consecFails \in 0 .. BlockThreshold /\ recActive \in BOOLEAN
      /\ entries \in [URLIDs -> Nat] /\ out \in Seq(URLIDs) /\ runs \in 1 .. MaxRuns
  <2>1. entries \in [URLIDs -> Nat]
    BY DEF NoEntries
  <2>3. out \in Seq(URLIDs)
    OBVIOUS
  <2>4. recActive \in BOOLEAN
    OBVIOUS
  <2>2. consecFails \in 0 .. BlockThreshold /\ runs \in 1 .. MaxRuns
    BY RunAssumption
  <2> QED
    BY <2>1, <2>2, <2>3, <2>4
<1>4. /\ runPc \in RunSteps /\ runErr \in RunErrs /\ verdict \in JobStatuses \cup {"none"}
      /\ monitor \in {"idle", "reset", "status", "exit"} /\ mainPc \in MainSteps
      /\ item \in URLOrNone
  BY DEF RunSteps, RunErrs, MainSteps, URLOrNone
<1>5. /\ seen \subseteq {PlaceOf[u] : u \in URLIDs} /\ file \subseteq URLIDs /\ saved \subseteq URLIDs
  OBVIOUS
<1>6. currentJob \in BOOLEAN
  OBVIOUS
<1>7. {pauseWanted, cancelled, currentJob, userPaused, reset} \subseteq BOOLEAN
  BY <1>6
<1>8. WorkerHolds /\ WriterHolds /\ DownTogether
  BY DEF WorkerHolds, WriterHolds, DownTogether, Each, HoldSteps, ClaimSteps
<1> QED
  BY <1>1, <1>2, <1>3, <1>4, <1>5, <1>7, <1>8 DEF TypeInv, TypeOK

\* What a statement may do to the rows.
LEMMA StatementType ==
    ASSUME StoreTypeOK
    PROVE  /\ UNCHANGED storeVars => StoreTypeOK'
           /\ \A u \in URLIDs, s \in URLStatuses : SetURLStatus(u, s) => StoreTypeOK'
           /\ \A u \in URLIDs : ClaimNextURL(u) => StoreTypeOK' /\ attempts'[u] \in Nat
           /\ ResetInProgress => StoreTypeOK'
           /\ \A s \in JobStatuses : SetJobStatus(s) => StoreTypeOK'
           /\ StartJob \/ RequestPause \/ ClearPause => StoreTypeOK'
<1> USE DEF StoreTypeOK
<1>1. UNCHANGED storeVars => StoreTypeOK'
  BY DEF storeVars
<1>2. ASSUME NEW u \in URLIDs, NEW s \in URLStatuses, SetURLStatus(u, s)
      PROVE  StoreTypeOK'
  BY <1>2 DEF SetURLStatus
<1>3. ASSUME NEW u \in URLIDs, ClaimNextURL(u)
      PROVE  StoreTypeOK' /\ attempts'[u] \in Nat
  <2>1. attempts' \in [URLIDs -> Nat]
    BY <1>3 DEF ClaimNextURL
  <2> QED
    BY <1>3, <2>1 DEF ClaimNextURL, URLStatuses
<1>4. ResetInProgress => StoreTypeOK'
  BY DEF ResetInProgress, URLStatuses
<1>5. \A s \in JobStatuses : SetJobStatus(s) => StoreTypeOK'
  BY DEF SetJobStatus
<1>6. StartJob \/ RequestPause \/ ClearPause => StoreTypeOK'
  BY DEF StartJob, RequestPause, ClearPause, JobStatuses
<1> QED
  BY <1>1, <1>2, <1>3, <1>4, <1>5, <1>6

\* What a worker's step leaves alone.
LEMMA WorkerFrames ==
    ASSUME NEW w \in Workers, WorkerNext(w)
    PROVE  runPc = "workers" /\ WorkerFrame
BY DEF WorkerNext, Top, ClaimNoRow, SeePause, PauseIsRecovery, TriggerJoin, RecoverySleep, Local,
       QueueEmpty, PauseEndsRun, Cancelled, CallFails, Leave, Claim, BrowseDelay, AcquirePage,
       ScrapeOK, Emit, FastRetry, GiveUpURL, RetryURL, FailURL, ScrapeError, TriggerLead,
       RecoveryPause, RecoveryReset, RecoveryResume, RecoveryDone, RecoveryAborts, RecoveryStep,
       Working

\* The types a worker's step can disturb.
WorkerTypes ==
    /\ pc \in [Workers -> WorkerSteps]
    /\ held \in [Workers -> URLOrNone]
    /\ heldAttempt \in [Workers -> Nat]
    /\ retries \in [Workers -> Nat]
    /\ WorkerHolds

SharedTypes ==
    /\ consecFails \in 0 .. BlockThreshold
    /\ recActive \in BOOLEAN
    /\ entries \in [URLIDs -> Nat]
    /\ out \in Seq(URLIDs)

LEMMA WorkerType ==
    ASSUME TypeInv, NEW w \in Workers, WorkerNext(w)
    PROVE  TypeInv'
<1>0. 0 \notin URLIDs
  BY URLsCount
<1>a. StoreTypeOK /\ WorkerTypes /\ SharedTypes /\ runErr \in RunErrs
  BY DEF TypeInv, TypeOK, WorkerTypes, SharedTypes
<1>b. SUFFICES StoreTypeOK' /\ WorkerTypes' /\ SharedTypes' /\ runErr' \in RunErrs /\ reset' \in BOOLEAN
  <2>1. UNCHANGED <<runPc, verdict, writerVars, signalVars, monitor, runs>>
    BY WorkerFrames DEF WorkerFrame
  <2> QED
    BY <1>b, <2>1
       DEF TypeInv, TypeOK, WorkerTypes, SharedTypes, WriterHolds, DownTogether, writerVars,
          signalVars
<1>r. reset \in BOOLEAN
  BY DEF TypeInv, TypeOK
<1>s. UNCHANGED storeVars => StoreTypeOK'
  BY <1>a, StatementType
<1>t. UNCHANGED <<sharedVars, out>> => SharedTypes'
  BY <1>a DEF sharedVars, SharedTypes
<1>1. ASSUME NEW from \in WorkerSteps, NEW to \in WorkerSteps, Local(w, from, to),
             from \in HoldSteps <=> to \in HoldSteps
      PROVE  StoreTypeOK' /\ WorkerTypes' /\ SharedTypes' /\ runErr' \in RunErrs /\ reset' \in BOOLEAN
  BY <1>1, <1>a, <1>r, <1>s, <1>t DEF Local, Working, Move, WorkerTypes, WorkerHolds
<1>d. \A s \in WorkerSteps : Drop(w, s) /\ s \notin HoldSteps => WorkerTypes'
  BY <1>0, <1>a DEF Drop, WorkerTypes, WorkerHolds, URLOrNone
<1>e. \A err \in RunErrs : Return(w, err) => WorkerTypes' /\ runErr' \in RunErrs
  BY <1>d, <1>a DEF Return, WorkerSteps, HoldSteps, ClaimSteps
<1>2. ASSUME NEW from, NEW err \in RunErrs, Leave(w, from, err)
      PROVE  StoreTypeOK' /\ WorkerTypes' /\ SharedTypes' /\ runErr' \in RunErrs /\ reset' \in BOOLEAN
  BY <1>2, <1>a, <1>e, <1>r, <1>s, <1>t DEF Leave
<1> USE DEF WorkerSteps, HoldSteps, ClaimSteps, RecoverySteps, RunErrs
<1>3. CASE Top(w) \/ ClaimNoRow(w) \/ SeePause(w) \/ PauseIsRecovery(w) \/ TriggerJoin(w)
           \/ RecoverySleep(w) \/ BrowseDelay(w) \/ AcquirePage(w)
  BY <1>1, <1>3 DEF Top, ClaimNoRow, SeePause, PauseIsRecovery, TriggerJoin, RecoverySleep,
     BrowseDelay, AcquirePage
<1>4. CASE QueueEmpty(w) \/ PauseEndsRun(w) \/ Cancelled(w) \/ CallFails(w)
  BY <1>2, <1>4 DEF QueueEmpty, PauseEndsRun, Cancelled, CallFails
<1>5. CASE \E u \in URLIDs : Claim(w, u)
  <2>1. PICK u \in URLIDs : Claim(w, u)
    BY <1>5
  <2>2. StoreTypeOK' /\ attempts'[u] \in Nat
    BY <1>a, <2>1, StatementType DEF Claim
  <2>3. WorkerTypes'
    BY <1>0, <1>a, <2>1, <2>2 DEF Claim, WorkerTypes, WorkerHolds, URLOrNone
  <2> QED
    BY <1>a, <1>r, <1>t, <2>1, <2>2, <2>3 DEF Claim
<1>6. CASE ScrapeOK(w) \/ Emit(w)
  <2>1. held[w] \in URLIDs
    BY <1>6, <1>a DEF ScrapeOK, Emit, Working, WorkerTypes, WorkerHolds, URLOrNone
  <2>2. WorkerTypes'
    <3>1. CASE Drop(w, "top")
      BY <1>d, <3>1
    <3>2. CASE Move(w, "emit") /\ pc[w] \in HoldSteps
      BY <1>a, <3>2 DEF Move, WorkerTypes, WorkerHolds
    <3> QED
      BY <1>6, <3>1, <3>2 DEF ScrapeOK, Emit, Working
  <2>3. SharedTypes'
    <3>1. CASE ScrapeOK(w)
      <4>1. entries' \in [URLIDs -> Nat]
        BY <1>a, <2>1, <3>1 DEF ScrapeOK, SharedTypes
      <4> QED
        BY <1>a, <3>1, <4>1, RunAssumption DEF ScrapeOK, SharedTypes
    <3>2. CASE Emit(w)
      <4>1. out' \in Seq(URLIDs)
        BY <1>a, <2>1, <3>2 DEF Emit, SharedTypes
      <4> QED
        BY <1>a, <3>2, <4>1 DEF Emit, SharedTypes, sharedVars
    <3> QED
      BY <1>6, <3>1, <3>2
  <2> QED
    BY <1>6, <1>a, <1>r, <1>s, <2>2, <2>3 DEF ScrapeOK, Emit
<1>7. CASE FastRetry(w)
  <2>1. WorkerTypes'
    BY <1>7, <1>a DEF FastRetry, Working, WorkerTypes, WorkerHolds
  <2> QED
    BY <1>7, <1>a, <1>r, <1>s, <1>t, <2>1 DEF FastRetry
<1>8. CASE \E e \in ScrapeFaults : GiveUpURL(w, e) \/ RetryURL(w, e) \/ FailURL(w, e)
  <2>1. held[w] \in URLIDs
    BY <1>8, <1>a DEF GiveUpURL, RetryURL, FailURL, ScrapeError, Working, WorkerTypes,
       WorkerHolds,
       URLOrNone
  <2>2. UNCHANGED storeVars \/ \E s \in URLStatuses : SetURLStatus(held[w], s)
    BY <1>8 DEF GiveUpURL, RetryURL, FailURL, Try, MarkURLFailed, RequeueURL, URLStatuses
  <2>3. StoreTypeOK'
    BY <1>a, <2>1, <2>2, StatementType
  <2>4. Failures \in 0 .. BlockThreshold
    BY <1>a, RunAssumption DEF Failures, SharedTypes
  <2>5. SharedTypes'
    BY <1>8, <1>a, <2>4 DEF GiveUpURL, RetryURL, FailURL, ScrapeError, SharedTypes
  <2>6. WorkerTypes' /\ runErr' \in RunErrs
    BY <1>8, <1>a, <1>d, <1>e DEF GiveUpURL, RetryURL, FailURL
  <2> QED
    BY <1>8, <1>r, <2>3, <2>5, <2>6 DEF GiveUpURL, RetryURL, FailURL, ScrapeError
<1>9. CASE TriggerLead(w) \/ RecoveryPause(w) \/ RecoveryReset(w) \/ RecoveryResume(w)
            \/ RecoveryDone(w)
  <2>1. StoreTypeOK'
    BY <1>9, <1>a, <1>s, StatementType DEF TriggerLead, RecoveryPause, RecoveryReset,
       RecoveryResume,
       RecoveryDone, Try, JobStatuses
  <2>2. \E from \in RecoverySteps \cup {"trigger"}, to \in RecoverySteps \cup {"top"} :
           RecoveryStep(w, from, to)
    BY <1>9 DEF TriggerLead, RecoveryPause, RecoveryReset, RecoveryResume, RecoveryDone
  <2>3. WorkerTypes' /\ runErr' = runErr
    BY <1>a, <2>2 DEF RecoveryStep, Move, Working, WorkerTypes, WorkerHolds
  <2>4. recActive' \in BOOLEAN /\ reset' \in BOOLEAN
    BY <1>9, <1>a, <1>r DEF TriggerLead, RecoveryPause, RecoveryReset, RecoveryResume,
       RecoveryDone,
       SharedTypes
  <2>5. SharedTypes'
    BY <1>a, <2>2, <2>4 DEF RecoveryStep, SharedTypes
  <2> QED
    BY <1>a, <2>1, <2>3, <2>4, <2>5
<1>10. CASE RecoveryAborts(w)
  BY <1>10, <1>a, <1>e, <1>r, <1>s DEF RecoveryAborts, SharedTypes
<1> QED
  BY <1>3, <1>4, <1>5, <1>6, <1>7, <1>8, <1>9, <1>10 DEF WorkerNext

LEMMA RunType ==
    ASSUME TypeInv, RunNext
    PROVE  TypeInv'
<1> USE DEF TypeInv, TypeOK, RunSteps, RunErrs
<1>s. UNCHANGED storeVars => StoreTypeOK'
  BY StatementType
<1>a. \A u \in URLIDs : Append(out, u) \in Seq(URLIDs)
  OBVIOUS
<1>1. CASE EnsureReset \/ EnsureStart \/ EnsureFails \/ JobReady
  <2>1. StoreTypeOK'
    BY <1>1, <1>s, StatementType DEF EnsureReset, EnsureStart, EnsureFails, JobReady, Try
  <2>2. \E from, to \in RunSteps \ {"down"} : EnsureStep(from, to)
    BY <1>1 DEF EnsureReset, EnsureStart, EnsureFails, JobReady
  <2>3. runErr' \in RunErrs /\ currentJob' \in BOOLEAN
    BY <1>1 DEF EnsureReset, EnsureStart, EnsureFails, JobReady
  <2> QED
    BY <2>1, <2>2, <2>3
       DEF EnsureStep, workerVars, sharedVars, writerVars, processVars, WorkerHolds, WriterHolds,
          DownTogether
<1>2. ASSUME NEW from \in RunSteps \ {"down"}, NEW to \in RunSteps \ {"down"}, RunStep(from, to), StoreTypeOK',
             entries' \in [URLIDs -> Nat], out' \in Seq(URLIDs), verdict' \in JobStatuses \cup {"none"}
      PROVE  TypeInv'
  BY <1>2
     DEF RunStep, workerVars, writerVars, signalVars, processVars, WorkerHolds, WriterHolds,
        DownTogether
<1>3. CASE JoinWorkers \/ FilterDone \/ EmitKeptDone
  BY <1>2, <1>3, <1>s DEF JoinWorkers, FilterDone, EmitKeptDone
<1>4. CASE \E u \in URLIDs : FilterOut(u)
  <2>1. PICK u \in URLIDs : FilterOut(u)
    BY <1>4
  <2>2. StoreTypeOK'
    BY <1>s, <2>1, StatementType DEF FilterOut, Try, MarkURLDone, URLStatuses
  <2>3. entries' \in [URLIDs -> Nat]
    BY <2>1 DEF FilterOut
  <2> QED
    BY <1>2, <2>1, <2>2, <2>3 DEF FilterOut
<1>5. CASE EmitKept
  <2>1. PICK u \in URLIDs :
            /\ entries[u] > 0 /\ entries' = [entries EXCEPT ![u] = @ - 1]
            /\ out' = Append(out, u) \/ UNCHANGED out
    BY <1>5 DEF EmitKept
  <2>2. entries' \in [URLIDs -> Nat]
    BY <2>1
  <2>3. out' \in Seq(URLIDs)
    BY <1>a, <2>1
  <2> QED
    BY <1>2, <1>5, <1>s, <2>2, <2>3 DEF EmitKept
<1>6. CASE FinishRead
  <2>1. StatsVerdict \subseteq JobStatuses \cup {"none"}
    BY DEF StatsVerdict, Verdict, JobStatuses
  <2>2. verdict' \in JobStatuses \cup {"none"}
    BY <1>6, <2>1 DEF FinishRead, JobStatuses
  <2> QED
    BY <1>2, <1>6, <1>s, <2>2 DEF FinishRead
<1>7. CASE FinishSet
  <2>1. StoreTypeOK' /\ verdict' = "none"
    BY <1>7, <1>s, StatementType DEF FinishSet, SettleJob, Try
  <2> QED
    BY <1>2, <1>7, <2>1 DEF FinishSet
<1> QED
  BY <1>1, <1>3, <1>4, <1>5, <1>6, <1>7 DEF RunNext

LEMMA MonitorType ==
    ASSUME TypeInv, MonitorNext
    PROVE  TypeInv'
<1> USE DEF TypeInv, TypeOK
<1>1. StoreTypeOK'
  BY StatementType DEF MonitorNext, StallDetected, StallReset, StallStatus, Try, JobStatuses
<1>2. /\ UNCHANGED <<workerVars, sharedVars, out, runVars, writerVars, signalVars, runs>>
      /\ monitor' \in {"idle", "reset", "status", "exit"} /\ reset' \in BOOLEAN
  BY DEF MonitorNext, StallDetected, StallReset, StallStatus, MonitorStep
<1> QED
  BY <1>1, <1>2 DEF workerVars, sharedVars, runVars, writerVars, signalVars, WorkerHolds,
     WriterHolds, DownTogether

LEMMA WriterType ==
    ASSUME TypeInv, WriterNext, ~MainExit
    PROVE  TypeInv'
<1> USE DEF TypeInv, TypeOK
<1>0. 0 \notin URLIDs
  BY URLsCount
<1>s. UNCHANGED storeVars => StoreTypeOK'
  BY StatementType
<1>1. ASSUME NEW from \in MainSteps \ {"down"}, NEW to \in MainSteps \ {"down"}, WriterStep(from, to), StoreTypeOK',
             out' \in Seq(URLIDs), verdict' \in JobStatuses \cup {"none"}, item' \in URLOrNone,
             item' # 0 <=> to \in {"have", "mark"}, seen' \subseteq {PlaceOf[u] : u \in URLIDs},
             file' \subseteq URLIDs, saved' \subseteq URLIDs
      PROVE  TypeInv'
  BY <1>1 DEF WriterStep, workerVars, sharedVars, signalVars, processVars, WorkerHolds,
     WriterHolds, DownTogether
<1> USE DEF MainSteps, URLOrNone
<1>2. CASE Receive
  <2>1. item' \in URLIDs /\ out' \in Seq(URLIDs)
    BY <1>2 DEF Receive
  <2> QED
    BY <1>0, <1>1, <1>2, <1>s, <2>1 DEF Receive
<1>3. CASE SkipDuplicate \/ WriteFails \/ MarkWritten
  <2>1. item \in URLIDs
    BY <1>3 DEF SkipDuplicate, WriteFails, MarkWritten, WriterStep, WriterHolds
  <2>2. UNCHANGED storeVars \/ \E s \in URLStatuses : SetURLStatus(item, s)
    BY <1>3 DEF SkipDuplicate, WriteFails, MarkWritten, Try, MarkURLDone, MarkURLFailed,
       URLStatuses
  <2>3. StoreTypeOK'
    BY <1>s, <2>1, <2>2, StatementType
  <2> QED
    BY <1>1, <1>3, <2>3 DEF SkipDuplicate, WriteFails, MarkWritten
<1>4. CASE WriteEntry
  <2>1. item \in URLIDs
    BY <1>4 DEF WriteEntry, WriterStep, WriterHolds
  <2>2. file' \subseteq URLIDs /\ saved' \subseteq URLIDs
    BY <1>4, <2>1 DEF WriteEntry
  <2>3. seen' \subseteq {PlaceOf[u] : u \in URLIDs}
    BY <1>4, <2>1 DEF WriteEntry
  <2> QED
    BY <1>0, <1>1, <1>4, <1>s, <2>1, <2>2, <2>3 DEF WriteEntry
<1>5. CASE Drained
  <2>1. item = 0
    BY <1>5 DEF Drained, WriterStep, WriterHolds
  <2> QED
    BY <1>1, <1>5, <1>s, <2>1 DEF Drained
<1>6. CASE MainFinishRead
  <2>1. item = 0
    BY <1>6 DEF MainFinishRead, WriterStep, WriterHolds
  <2>2. StatsVerdict \subseteq JobStatuses \cup {"none"}
    BY DEF StatsVerdict, Verdict, JobStatuses
  <2> QED
    BY <1>1, <1>6, <1>s, <2>1, <2>2 DEF MainFinishRead
<1>7. CASE MainFinishSet
  <2>1. StoreTypeOK' /\ verdict' = "none"
    BY <1>7, <1>s, StatementType DEF MainFinishSet, SettleJob, Try
  <2>2. item = 0
    BY <1>7 DEF MainFinishSet, WriterStep, WriterHolds
  <2> QED
    BY <1>1, <1>7, <2>1, <2>2 DEF MainFinishSet
<1> QED
  BY <1>2, <1>3, <1>4, <1>5, <1>6, <1>7 DEF WriterNext

\* A process that is gone holds nothing.
LEMMA GoneType ==
    ASSUME TypeInv, ProcessGone, saved' \subseteq URLIDs, runErr' \in RunErrs
    PROVE  TypeInv'
<1> USE DEF TypeInv, TypeOK, ProcessGone
<1>1. StoreTypeOK'
  BY StatementType
<1>2. /\ pc' \in [Workers -> WorkerSteps] /\ held' \in [Workers -> URLOrNone]
      /\ heldAttempt' \in [Workers -> Nat] /\ retries' \in [Workers -> Nat] /\ WorkerHolds'
  BY DEF Each, WorkerSteps, URLOrNone, WorkerHolds, HoldSteps, ClaimSteps
<1>3. entries' \in [URLIDs -> Nat]
  BY DEF NoEntries
<1>4. out' \in Seq(URLIDs)
  OBVIOUS
<1>5. consecFails' \in 0 .. BlockThreshold
  BY RunAssumption
<1>6. recActive' \in BOOLEAN /\ reset' \in BOOLEAN
  OBVIOUS
<1>7. /\ runPc' \in RunSteps /\ mainPc' \in MainSteps /\ monitor' \in {"idle", "reset", "status", "exit"}
      /\ verdict' \in JobStatuses \cup {"none"} /\ item' \in URLOrNone /\ WriterHolds' /\ DownTogether'
  BY DEF RunSteps, MainSteps, URLOrNone, WriterHolds, DownTogether
<1>8. /\ seen' \subseteq {PlaceOf[u] : u \in URLIDs} /\ file' \subseteq URLIDs /\ runs' \in 1 .. MaxRuns
      /\ {pauseWanted, cancelled, currentJob, userPaused}' \subseteq BOOLEAN
  BY DEF signalVars
<1> QED
  BY <1>1, <1>2, <1>3, <1>4, <1>5, <1>6, <1>7, <1>8

LEMMA EnvironmentType ==
    ASSUME TypeInv, EnvironmentNext \/ MainExit
    PROVE  TypeInv'
<1> USE DEF TypeInv, TypeOK
<1>1. CASE SignalPause \/ SignalCancel \/ ControlPause
  <2>1. StoreTypeOK'
    BY <1>1, StatementType DEF SignalPause, SignalCancel, ControlPause, Try
  <2>2. SignalFrame /\ {pauseWanted', cancelled', userPaused'} \subseteq BOOLEAN
    BY <1>1 DEF SignalPause, SignalCancel, ControlPause
  <2> QED
    BY <2>1, <2>2
       DEF SignalFrame, workerVars, sharedVars, runVars, writerVars, processVars, WorkerHolds,
          WriterHolds, DownTogether
<1>2. CASE Dies \/ MainExit
  BY <1>2, GoneType DEF Dies, MainExit, RunErrs
<1>3. CASE Restart
  <2>1. StoreTypeOK'
    BY <1>3, StatementType DEF Restart
  <2>2. runs' \in 1 .. MaxRuns
    BY <1>3, RunAssumption DEF Restart
  <2>0. item = 0
    BY <1>3 DEF Restart, Alive, WriterHolds, DownTogether
  <2>3. /\ runPc' \in RunSteps \ {"down"} /\ mainPc' \in MainSteps \ {"down", "have", "mark"} /\ runErr' \in RunErrs
        /\ {pauseWanted', cancelled', userPaused', currentJob'} \subseteq BOOLEAN
    BY <1>3 DEF Restart, RunSteps, MainSteps, RunErrs
  <2> QED
    BY <1>3, <2>0, <2>1, <2>2, <2>3 DEF Restart, workerVars, sharedVars, WorkerHolds,
       WriterHolds, DownTogether
<1> QED
  BY <1>1, <1>2, <1>3 DEF EnvironmentNext

LEMMA NextType == TypeInv /\ [Next]_vars => TypeInv'
<1> SUFFICES ASSUME TypeInv, [Next]_vars PROVE TypeInv'
  OBVIOUS
<1>1. CASE UNCHANGED vars
  BY <1>1, StatementType
     DEF vars, TypeInv, TypeOK, WorkerHolds, WriterHolds, DownTogether, workerVars, sharedVars,
        runVars,
         writerVars, signalVars, processVars
<1> QED
  BY <1>1, WorkerType, RunType, MonitorType, WriterType, EnvironmentType DEF Next, WriterNext

\* Every variable keeps its type in every reachable state.
THEOREM TypeCorrect == Spec => []TypeOK
<1>1. Spec => []TypeInv
  BY InitType, NextType, PTL DEF Spec
<1> QED
  BY <1>1, PTL DEF TypeInv

-----------------------------------------------------------------------------
(* The phases of a process. *)

\* While the workers run nothing of the phases before or after them can be.
LEMMA WorkersPhase ==
    ASSUME ProcessInv, runPc = "workers", UNCHANGED <<runPc, mainPc>>
    PROVE  Phases'
BY DEF ProcessInv, Phases, Before, After

LEMMA RunPhases ==
    ASSUME ProcessInv, RunNext
    PROVE  Phases'
<1> USE DEF ProcessInv, Phases, Before, After
<1>1. CASE EnsureReset \/ EnsureStart \/ EnsureFails \/ JobReady
  BY <1>1 DEF EnsureReset, EnsureStart, EnsureFails, JobReady, EnsureStep, workerVars, sharedVars,
     writerVars, processVars
<1>2. CASE JoinWorkers
  BY <1>2 DEF JoinWorkers, RunStep, Exited, workerVars, writerVars, processVars
<1>3. CASE (\E u \in URLIDs : FilterOut(u)) \/ FilterDone \/ EmitKept \/ EmitKeptDone \/ FinishRead
           \/ FinishSet
  <2>1. /\ runPc \in {"filter", "emitKept", "finRead", "finSet"}
        /\ runPc' \in After
        /\ UNCHANGED <<workerVars, writerVars, processVars>>
    BY <1>3 DEF FilterOut, FilterDone, EmitKept, EmitKeptDone, FinishRead, FinishSet, RunStep
  <2> QED
    BY <2>1 DEF workerVars, writerVars, processVars
<1> QED
  BY <1>1, <1>2, <1>3 DEF RunNext

LEMMA WriterPhases ==
    ASSUME ProcessInv, WriterNext, ~MainExit
    PROVE  Phases'
<1> USE DEF ProcessInv, Phases
<1>1. CASE Receive \/ SkipDuplicate \/ WriteEntry \/ WriteFails \/ MarkWritten
  <2>1. out # <<>> \/ item # 0
    BY <1>1 DEF Receive, SkipDuplicate, WriteEntry, WriteFails, MarkWritten, WriterStep, TypeInv,
       WriterHolds
  <2>2. runPc \notin Before
    BY <2>1
  <2>3. /\ UNCHANGED <<workerVars, runPc, processVars>>
        /\ mainPc' \in {"have", "recv", "mark"}
    BY <1>1 DEF Receive, SkipDuplicate, WriteEntry, WriteFails, MarkWritten, WriterStep
  <2> QED
    BY <2>2, <2>3 DEF workerVars, processVars
<1>2. CASE Drained \/ MainFinishRead \/ MainFinishSet
  <2>1. /\ runPc = "closed" /\ out = <<>>
        /\ UNCHANGED <<workerVars, runPc, processVars, out>>
    BY <1>2 DEF Drained, MainFinishRead, MainFinishSet, WriterStep
  <2> QED
    BY <2>1 DEF workerVars, processVars, Before
<1> QED
  BY <1>1, <1>2 DEF WriterNext

LEMMA EnvironmentPhases ==
    ASSUME ProcessInv, EnvironmentNext \/ MainExit
    PROVE  Phases'
<1> USE DEF Phases, Before, After
<1>1. CASE SignalPause \/ SignalCancel \/ ControlPause
  BY <1>1 DEF SignalPause, SignalCancel, ControlPause, SignalFrame, ProcessInv, workerVars,
     sharedVars,
     runVars, writerVars, processVars
<1>2. CASE Dies \/ MainExit
  <2>1. ProcessGone
    BY <1>2 DEF Dies, MainExit
  <2> QED
    BY <2>1 DEF ProcessGone, Each
<1>3. CASE Restart
  BY <1>3 DEF Restart, Alive, ProcessInv, workerVars, sharedVars
<1> QED
  BY <1>1, <1>2, <1>3 DEF EnvironmentNext

LEMMA ProcessInvariant ==
    /\ Init => ProcessInv
    /\ ProcessInv /\ [Next]_vars => ProcessInv'
<1>1. Init => ProcessInv
  BY InitType DEF ProcessInv, Init, Phases, Before, After, Each
<1>2. ASSUME ProcessInv, [Next]_vars
      PROVE  Phases'
  <2>1. CASE \E w \in Workers : WorkerNext(w)
    BY <1>2, <2>1, WorkerFrames, WorkersPhase DEF WorkerFrame, writerVars
  <2>2. CASE MonitorNext
    BY <1>2, <2>2, WorkersPhase DEF MonitorNext, StallDetected, StallReset, StallStatus,
       MonitorStep,
       runVars, writerVars
  <2>3. CASE UNCHANGED vars
    BY <1>2, <2>3 DEF vars, ProcessInv, Phases, workerVars, sharedVars, runVars, writerVars,
       signalVars, processVars
  <2> QED
    BY <1>2, <2>1, <2>2, <2>3, RunPhases, WriterPhases, EnvironmentPhases DEF Next, WriterNext
<1> QED
  BY <1>1, <1>2, NextType DEF ProcessInv
=============================================================================
