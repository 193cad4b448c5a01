------------------------ MODULE FeedDiscoveryProofs ------------------------
(***************************************************************************)
(* Theorems about FeedDiscovery: what a stall exit leaves behind, and that *)
(* a job the server has created is discovered only while it has no URLs.   *)
(***************************************************************************)
EXTENDS FeedDiscovery, TLAPS

-----------------------------------------------------------------------------
(* The inductive invariant. *)

Discovering == Collecting \cup {"await", "awaitFail", "queue"}

\* The server's jobs are rows from the start, and StartJob or a resume, not
\* CreateJob, takes them on.
ServerJobs == ~fromCLI => status \notin {"none", "pending"}

\* A process that finds its job starting finds it without URLs: whatever was
\* queued before it was killed made ClaimResume take the job for running.
Undiscovered ==
    ~fromCLI /\ (pc \in Discovering \/ (pc = "ensure" /\ status = "starting")) => rows = <<>>

\* The monitor lives within discovery, which waits for it before it queues.
Monitored ==
    monitor # "off" =>
        /\ pc \in Discovering \ {"queue"}
        /\ status \notin {"none", "running"}
        /\ fromCLI \/ rows = <<>>

\* What StallLosesNothing needs to know of the time after the exit.
Stalled == ended = "stall" => pc = "off" /\ StallLosesNothing

FeedInv == ServerJobs /\ Undiscovered /\ Monitored /\ Stalled

-----------------------------------------------------------------------------
\* The initial states satisfy the invariant.
LEMMA InitFeed == Init => FeedInv
BY DEF Init, FeedInv, ServerJobs, Undiscovered, Monitored, Stalled, Discovering, Collecting

\* The steps of ensureJob and collectPlaceURLs preserve it.
LEMMA DiscoverFeed == FeedInv /\ (Discover \/ Drive) => FeedInv'
<1> SUFFICES ASSUME FeedInv, Discover \/ Drive PROVE FeedInv'
  OBVIOUS
<1> USE DEF FeedInv, ServerJobs, Undiscovered, Monitored, Stalled, StallLosesNothing,
            Discovering, Collecting, Goes, Process, jobVars, feedVars
<1>1. CASE Ensure
  BY <1>1 DEF Ensure
<1>2. CASE Resume
  BY <1>2 DEF Resume
<1>3. CASE BeginQuery \/ NoMoreQueries
  BY <1>3 DEF BeginQuery, NoMoreQueries
<1>4. CASE Scroll \/ EndOfFeed
  BY <1>4 DEF Scroll, EndOfFeed
<1>5. CASE Filter \/ FilterFails
  BY <1>5 DEF Filter, FilterFails
<1>6. CASE Complete
  BY <1>6 DEF Complete
<1>7. CASE AwaitMonitor
  BY <1>7 DEF AwaitMonitor
<1>8. CASE QueueURLs
  BY <1>8 DEF QueueURLs
<1>9. CASE CreateJob
  BY <1>9 DEF CreateJob
<1>10. CASE EnsureFails \/ QueueRefused \/ StartFails
  BY <1>10 DEF EnsureFails, QueueRefused, StartFails
<1>11. CASE StartJob
  BY <1>11 DEF StartJob
<1>12. CASE ReturnError
  BY <1>12 DEF ReturnError, Ends
<1>13. CASE \E to \in {"navigate", "fail"} : AcquirePage(to)
  BY <1>13 DEF AcquirePage
<1>14. CASE Navigate \/ WaitFeed
  BY <1>14 DEF Navigate, WaitFeed
<1>15. CASE SinglePlace \/ PlaceIDResolves
  BY <1>15 DEF SinglePlace, PlaceIDResolves, Redirects
<1>16. CASE ReadFeed
  BY <1>16 DEF ReadFeed
<1>17. CASE FeedFails
  BY <1>17 DEF FeedFails
<1>18. CASE GivePage
  BY <1>18 DEF GivePage
<1> QED
  BY <1>1, <1>2, <1>3, <1>4, <1>5, <1>6, <1>7, <1>8, <1>9, <1>10, <1>11, <1>12, <1>13, <1>14,
     <1>15, <1>16, <1>17, <1>18 DEF Discover, Drive

\* So do the monitor, signals, kills, and the server's recovery and resume.
LEMMA AroundFeed ==
    FeedInv /\ (GrowsStale \/ Monitor \/ SecondSignal \/ Killed \/ Recover \/ ClaimResume \/ ClaimPending)
        => FeedInv'
<1> SUFFICES ASSUME FeedInv,
                    GrowsStale \/ Monitor \/ SecondSignal \/ Killed \/ Recover \/ ClaimResume
                       \/ ClaimPending
             PROVE  FeedInv'
  OBVIOUS
<1> USE DEF FeedInv, ServerJobs, Undiscovered, Monitored, Stalled, StallLosesNothing,
            Discovering, Collecting, Process, jobVars, feedVars
<1>1. CASE GrowsStale
  BY <1>1 DEF GrowsStale
<1>2. CASE SeeStall
  BY <1>2 DEF SeeStall
<1>3. CASE PauseStalled
  BY <1>3 DEF PauseStalled
<1>4. CASE StallExit
  BY <1>4 DEF StallExit, Ends
<1>5. CASE MonitorDone
  BY <1>5 DEF MonitorDone
<1>6. CASE SecondSignal
  BY <1>6 DEF SecondSignal
<1>7. CASE Killed
  BY <1>7 DEF Killed, Ends
<1>8. CASE Recover
  BY <1>8 DEF Recover
<1>9. CASE ClaimResume
  BY <1>9 DEF ClaimResume, Relaunch
<1>10. CASE ClaimPending
  BY <1>10 DEF ClaimPending, Relaunch
<1> QED
  BY <1>1, <1>2, <1>3, <1>4, <1>5, <1>6, <1>7, <1>8, <1>9, <1>10 DEF Monitor

\* FeedInv is an invariant.
LEMMA FeedInvHolds == Spec => []FeedInv
<1>1. FeedInv /\ UNCHANGED vars => FeedInv'
  BY DEF vars, jobVars, feedVars, FeedInv, ServerJobs, Undiscovered, Monitored, Stalled,
         StallLosesNothing
<1>2. FeedInv /\ [Next]_vars => FeedInv'
  BY <1>1, DiscoverFeed, AroundFeed DEF Next
<1> QED
  BY InitFeed, <1>2, PTL DEF Spec

-----------------------------------------------------------------------------
(* The theorems. *)

\* A process that its feed monitor ends has queued nothing and not started its
\* job, whatever the feeds, the limits and the number of processes.
THEOREM StallsLoseNothing == Spec => []StallLosesNothing
<1>1. FeedInv => StallLosesNothing
  BY DEF FeedInv, Stalled, StallLosesNothing
<1> QED
  BY <1>1, FeedInvHolds, PTL

\* A job created by the server is discovered only while it has no URLs.
THEOREM JobsDiscoveredOnce == Spec => []DiscoveredOnce
<1>1. FeedInv => DiscoveredOnce
  BY DEF FeedInv, Undiscovered, DiscoveredOnce, Discovering
<1> QED
  BY <1>1, FeedInvHolds, PTL

=============================================================================
