----------------------------- MODULE JobControl -----------------------------
(***************************************************************************)
(* The control server: the queue loop, the HTTP handlers, the goroutine    *)
(* that waits for each scraper process, the registry of process groups and *)
(* its sweep, the server's own death and boot (control.go,                 *)
(* control_controller.go), over the `jobs` table they share with the       *)
(* processes.  A process is a summary of ScraperRun: what it does to its   *)
(* job's row, and how it ends.                                             *)
(*                                                                         *)
(* Abstracted: the contents of a job, templates and forms; time, except    *)
(* that a delay of 30 s or more (DelayOver) outlasts a pending statement;  *)
(* pids are not reused (validateProcessMatch guards that).                 *)
(***************************************************************************)
EXTENDS JobTable

CONSTANTS
    Procs,            \* process ids, used again once nothing refers to them
    NoProc, NoJob,
    MaxStallResumes,  \* maxStallAutoResumes (code: 3)
    Requests,         \* what the operator may do in this instance
    Faults            \* what may go wrong in this instance

AllRequests == {"create", "strategy", "pause", "resume", "startPending", "recover",
                "delete", "scheduler"}

\* jobsStore and registryStore: a statement of the server on `jobs`, or on
\* `job_processes`, returns an error (a busy database, a client that hung up).
AllFaults == {"stall", "timeout", "crash", "failure", "recovery", "spawn",
              "restart", "reboot", "jobsStore", "registryStore"}

ASSUME ControlAssumption ==
    /\ NoProc \notin Procs /\ NoJob \notin Jobs
    /\ Procs \cap {"queue", "ui", "boot"} = {}
    /\ MaxStallResumes \in Nat
    /\ Requests \subseteq AllRequests /\ Faults \subseteq AllFaults

VARIABLES
    server,       \* "up", "down", or "boot" before it serves requests
    schedPaused,  \* app_settings scheduler_paused
    thread,       \* what each goroutine of the server is doing
    proc,         \* the scraper processes
    registry,     \* job_processes: the process recorded for each job
    stalls,       \* stallResumes, in the server's memory
    abandoned     \* history: the jobs the server gave up after an error it
                  \* only reports, and has not launched since

controlVars == <<server, schedPaused, thread, proc, registry, stalls, abandoned>>
vars == <<tableVars, controlVars>>

\* One handler at a time: a second one is like another operator.
Threads == {"queue", "ui", "boot"} \cup Procs

\* start: launched by newProcessStartLauncher, not by the resume launcher.
Idle == [at |-> "idle", job |-> NoJob, start |-> FALSE, saw |-> "none",
         todo |-> {}, child |-> NoProc]

LaunchSteps  == {"claimed", "sweep", "kill", "spawn", "record"}
RecoverSteps == {"read", "write", "unpause"}
ThreadSteps  == LaunchSteps \cup RecoverSteps \cup
    {"idle", "delay", "queueWait", "claimResume", "wait", "drop", "restartDelay", "recoverAll"}

AliveSteps == {"boot", "discover", "queued", "work", "recovery", "stalled", "leave"}
Exits      == {"none", "clean", "stall", "timeout", "error", "swept"}
NoProcess  == [at |-> "none", job |-> NoJob, exit |-> "none"]

Alive(p) == proc[p].at \in AliveSteps
Works(p, j) == Alive(p) /\ proc[p].job = j

TypeOK ==
    /\ TableTypeOK
    /\ server \in {"up", "down", "boot"}
    /\ schedPaused \in BOOLEAN
    /\ thread \in [Threads ->
          [at : ThreadSteps, job : Jobs \cup {NoJob}, start : BOOLEAN,
           saw : JobStatuses \cup {"none"},
           todo : SUBSET (Jobs \X (Procs \cup {NoProc})), child : Procs \cup {NoProc}]]
    /\ proc \in [Procs -> [at : AliveSteps \cup {"none", "dead"},
                           job : Jobs \cup {NoJob}, exit : Exits]]
    /\ registry \in [Jobs -> Procs \cup {NoProc}]
    /\ stalls \in [Jobs -> 0 .. MaxStallResumes]
    /\ abandoned \subseteq Jobs

Init ==
    /\ status = [j \in Jobs |-> "none"]
    /\ urls = [j \in Jobs |-> "none"]
    /\ timedOut = [j \in Jobs |-> FALSE]
    /\ pauseReq = [j \in Jobs |-> FALSE]
    /\ updated = {}
    /\ server = "up"
    /\ schedPaused = FALSE
    /\ thread = [t \in Threads |-> Idle]
    /\ proc = [p \in Procs |-> NoProcess]
    /\ registry = [j \in Jobs |-> NoProc]
    /\ stalls = [j \in Jobs |-> 0]
    /\ abandoned = {}

-----------------------------------------------------------------------------
At(t, s) == thread[t].at = s

Goes(t, s) == thread' = [thread EXCEPT ![t].at = s]

Stops(t) == thread' = [thread EXCEPT ![t] = Idle]

\* A goroutine sets out on something for job j.
Takes(t, s, j, start) ==
    thread' = [thread EXCEPT ![t] = [Idle EXCEPT !.at = s, !.job = j, !.start = start]]

ServerOnly == UNCHANGED <<server, schedPaused, proc, registry, stalls, abandoned>>

\* An error after which the server does nothing more for these jobs.
GivesUp(jobs) ==
    /\ abandoned' = abandoned \cup jobs
    /\ UNCHANGED <<tableVars, server, schedPaused, proc, registry, stalls>>

\* When a delay is over, what was on its way to its next statement before it has
\* arrived: nobody is recovering job j, or about to drop its row, and no sweep
\* still holds a row of j that it listed before.
DelayOver(j) ==
    \A t \in Threads :
        /\ thread[t].job = j => thread[t].at \notin RecoverSteps \cup {"drop"}
        /\ At(t, "kill") => \A r \in thread[t].todo : r[1] # j

(* Launching: newProcessStartLauncher, newProcessResumeLauncher, spawnProcess. *)

\* Every claim reads the job back after its UPDATE is committed (JobStats; GetJob
\* after a creation), ...
ClaimRead(t) ==
    /\ At(t, "claimed")
    /\ Goes(t, "sweep")
    /\ abandoned' = abandoned \ {thread[t].job}
    /\ UNCHANGED <<tableVars, server, schedPaused, proc, registry, stalls>>

\* ... and the callers return its error: the claim is not taken back, and the
\* job is neither launched nor failed.
ClaimReadFails(t) ==
    /\ At(t, "claimed") /\ "jobsStore" \in Faults
    /\ Stops(t)
    /\ GivesUp({thread[t].job})

Registered == {<<j, registry[j]>> : j \in {k \in Jobs : registry[k] # NoProc}}

\* ListJobProcesses; if it fails there is nothing to sweep.
SweepList(t) ==
    /\ At(t, "sweep")
    /\ \E rows \in {Registered, {}} :
          /\ rows = Registered \/ "registryStore" \in Faults
          /\ thread' = [thread EXCEPT ![t].at = "kill", ![t].todo = rows]
    /\ UNCHANGED tableVars /\ ServerOnly

\* DeleteJobProcess, by job id; its error is only logged.
DropsRow(j) ==
    \/ registry' = [registry EXCEPT ![j] = NoProc]
    \/ "registryStore" \in Faults /\ UNCHANGED registry

\* killProcessGroup, of a process that is alive and ours.
KillGroup(p) ==
    IF Alive(p) THEN [proc EXCEPT ![p].at = "dead", ![p].exit = "swept"] ELSE proc

\* Mutant: the row is dropped and the group left alone.
SweepRowSpares(t) ==
    /\ At(t, "kill")
    /\ \E r \in thread[t].todo :
          /\ thread' = [thread EXCEPT ![t].todo = @ \ {r}]
          /\ registry' = [registry EXCEPT ![r[1]] = NoProc]
    /\ UNCHANGED <<tableVars, server, schedPaused, proc, stalls, abandoned>>

\* One row: kill the group if it is one of ours, and drop the row by job.
SweepRow(t) ==
    /\ At(t, "kill")
    /\ \E r \in thread[t].todo :
          /\ thread' = [thread EXCEPT ![t].todo = @ \ {r}]
          /\ DropsRow(r[1])
          /\ proc' = KillGroup(r[2])
    /\ UNCHANGED <<tableVars, server, schedPaused, stalls, abandoned>>

SweepDone(t) ==
    /\ At(t, "kill") /\ thread[t].todo = {}
    /\ IF t = "boot" THEN Stops(t) /\ server' = "up"
       ELSE Goes(t, "spawn") /\ UNCHANGED server
    /\ UNCHANGED <<tableVars, schedPaused, proc, registry, stalls, abandoned>>

\* A process id that nothing refers to any more.
Unused(p) ==
    /\ ~Alive(p) /\ At(p, "idle")
    /\ \A j \in Jobs : registry[j] # p
    /\ \A t \in Threads : thread[t].child # p /\ \A r \in thread[t].todo : r[2] # p

SpawnOK(t) ==
    /\ At(t, "spawn")
    /\ \E p \in Procs :
          /\ Unused(p)
          /\ proc' = [proc EXCEPT ![p] = [at |-> "boot", job |-> thread[t].job, exit |-> "none"]]
          /\ thread' = [thread EXCEPT ![t].at = "record", ![t].child = p]
    /\ UNCHANGED <<tableVars, server, schedPaused, registry, stalls, abandoned>>

\* Mutant: nobody marks the job whose process did not start.
SpawnFailsSilently(t) ==
    /\ At(t, "spawn") /\ "spawn" \in Faults
    /\ Stops(t)
    /\ UNCHANGED tableVars /\ ServerOnly

\* The callers of the start launcher fail the job, and ignore the error of that;
\* those of the resume launcher (the handler, the queue, the waiter) leave it as
\* ClaimResume made it.
SpawnFails(t) ==
    /\ At(t, "spawn") /\ "spawn" \in Faults
    /\ Stops(t)
    /\ \/ thread[t].start /\ SetJobStatus(thread[t].job, "failed", FALSE) /\ ServerOnly
       \/ (thread[t].start => "jobsStore" \in Faults) /\ GivesUp({thread[t].job})

\* RecordJobProcess, whose error is only logged; the goroutine that waits for the
\* child starts.
Record(t) ==
    /\ At(t, "record")
    /\ LET p == thread[t].child
           j == thread[t].job
       IN  /\ \/ registry' = [registry EXCEPT ![j] = p]
              \/ "registryStore" \in Faults /\ UNCHANGED registry
           /\ thread' = [thread EXCEPT ![t] = Idle,
                            ![p] = [Idle EXCEPT !.at = "wait", !.job = j]]
    /\ UNCHANGED <<tableVars, server, schedPaused, proc, stalls, abandoned>>

Launch(t) ==
    \/ ClaimRead(t) \/ ClaimReadFails(t) \/ SweepList(t)
    \/ SweepRow(t) \/ SweepDone(t) \/ SpawnOK(t) \/ SpawnFails(t) \/ Record(t)

-----------------------------------------------------------------------------
(* RecoverStaleActiveJob, run by a waiter, the recover-stale handler and boot. *)

\* Where a goroutine goes on when the job needs no recovery, or has had it.
AfterRecovery(t) == IF t \in Procs THEN "drop" ELSE "recoverAll"

\* Mutant: every job whose process ended is taken for a stale one.
RecoverEveryJob(t) ==
    /\ At(t, "read")
    /\ LET j == thread[t].job
       IN  IF Exists(j)
           THEN thread' = [thread EXCEPT ![t].at = "write", ![t].saw = status[j]]
           ELSE IF t = "ui" THEN Stops(t) ELSE Goes(t, AfterRecovery(t))
    /\ UNCHANGED tableVars /\ ServerOnly

\* jobStatus, and ErrJobNotStale.
RecoverRead(t) ==
    /\ At(t, "read")
    /\ LET j == thread[t].job
       IN  IF j \in Active
           THEN thread' = [thread EXCEPT ![t].at = "write", ![t].saw = status[j]]
           ELSE IF t = "ui" THEN Stops(t) ELSE Goes(t, AfterRecovery(t))
    /\ UNCHANGED tableVars /\ ServerOnly

\* Only the deadline of the process recovers with JobTimeoutError.
TimedOut(t) == t \in Procs /\ proc[t].exit = "timeout"

\* Decided by the status it read: the job may have changed since.
RecoverWrite(t) ==
    /\ At(t, "write")
    /\ LET j == thread[t].job
           resumable == thread[t].saw = "running" \/ urls[j] # "none" \/ TimedOut(t)
       IN  SetJobStatus(j, IF resumable THEN "paused" ELSE "failed", TimedOut(t))
    /\ Goes(t, "unpause")
    /\ ServerOnly

RecoverUnpause(t) ==
    /\ At(t, "unpause")
    /\ Unpause(thread[t].job)
    /\ IF t = "ui" THEN Stops(t) ELSE Goes(t, AfterRecovery(t))
    /\ ServerOnly

\* Boot leaves the rest of its list, too, when one recovery fails.
AfterFailure(t) == IF t \in Procs THEN "drop" ELSE "sweep"

\* A statement of it fails: the waiter and boot log the error, the handler answers
\* with it, and nobody tries again.
RecoverFails(t) ==
    /\ thread[t].at \in {"read", "write"} /\ "jobsStore" \in Faults
    /\ IF t = "ui" THEN Stops(t) ELSE Goes(t, AfterFailure(t))
    /\ GivesUp(IF t = "boot" THEN Active ELSE {thread[t].job})

RecoverStale(t) ==
    RecoverRead(t) \/ RecoverWrite(t) \/ RecoverUnpause(t) \/ RecoverFails(t)

-----------------------------------------------------------------------------
(* The goroutine of spawnProcess that waits for process p. *)

\* Mutant: the waiter gives up when cmd.Wait returns an error.
ReapReturnsOnError(p) ==
    /\ At(p, "wait") /\ proc[p].at = "dead"
    /\ Goes(p, IF proc[p].exit = "error" THEN "drop" ELSE "read")
    /\ UNCHANGED tableVars /\ ServerOnly

\* cmd.Wait returns; every kind of exit leads to RecoverStaleActiveJob.
Reap(p) ==
    /\ At(p, "wait") /\ proc[p].at = "dead"
    /\ Goes(p, "read")
    /\ UNCHANGED tableVars /\ ServerOnly

\* Mutant: the cap is compared with <= .
DropOneMore(p) ==
    /\ At(p, "drop")
    /\ LET j == thread[p].job
           again == proc[p].exit = "stall" /\ stalls[j] <= MaxStallResumes
       IN  /\ registry' = [registry EXCEPT ![j] = NoProc]
           /\ stalls' = [stalls EXCEPT ![j] = @ + (IF again THEN 1 ELSE 0)]
           /\ IF again THEN Goes(p, "restartDelay") ELSE Stops(p)
    /\ proc' = [proc EXCEPT ![p] = NoProcess]
    /\ UNCHANGED <<tableVars, server, schedPaused, abandoned>>

\* Mutant: the cap on stall resumes is not applied.
DropUncapped(p) ==
    /\ At(p, "drop")
    /\ LET j == thread[p].job
       IN  /\ registry' = [registry EXCEPT ![j] = NoProc]
           /\ UNCHANGED stalls
           /\ IF proc[p].exit = "stall" THEN Goes(p, "restartDelay") ELSE Stops(p)
    /\ proc' = [proc EXCEPT ![p] = NoProcess]
    /\ UNCHANGED <<tableVars, server, schedPaused, abandoned>>

\* DeleteJobProcess, then allowStallAutoResume.
Drop(p) ==
    /\ At(p, "drop")
    /\ LET j == thread[p].job
           again == proc[p].exit = "stall" /\ stalls[j] < MaxStallResumes
       IN  /\ DropsRow(j)
           /\ stalls' = [stalls EXCEPT ![j] = @ + (IF again THEN 1 ELSE 0)]
           /\ IF again THEN Goes(p, "restartDelay") ELSE Stops(p)
    /\ proc' = [proc EXCEPT ![p] = NoProcess]
    /\ UNCHANGED <<tableVars, server, schedPaused, abandoned>>

\* onStallExit: the resume launcher, with its ClaimResume.
StallResume(p) ==
    /\ At(p, "restartDelay") /\ DelayOver(thread[p].job)
    /\ IF Resumable(thread[p].job)
       THEN ClaimResume(thread[p].job) /\ Goes(p, "claimed")
       ELSE Stops(p) /\ UNCHANGED tableVars
    /\ ServerOnly

Waiter(p) == Reap(p) \/ Drop(p) \/ StallResume(p)

-----------------------------------------------------------------------------
(* runJobQueueOnce. *)

\* Nothing to do is a stutter: the next poll looks again.
QueuePoll ==
    /\ server = "up" /\ At("queue", "idle") /\ ~schedPaused
    /\ IF \E j \in Jobs : NextTimeout(j) THEN Goes("queue", "delay")
       ELSE (\E j \in Jobs : NextPending(j)) /\ Goes("queue", "queueWait")
    /\ UNCHANGED tableVars /\ ServerOnly

\* Mutant: a timed-out job is resumed without the random delay.
QueueResumeAtOnce ==
    /\ At("queue", "delay")
    /\ IF \E j \in Jobs : NextTimeout(j)
       THEN \E j \in Jobs : NextTimeout(j) /\ Takes("queue", "claimResume", j, FALSE)
       ELSE Stops("queue")
    /\ UNCHANGED tableVars /\ ServerOnly

\* The random delay is over; which job it is for is decided again.
QueueResume ==
    /\ At("queue", "delay")
    /\ IF \E j \in Jobs : NextTimeout(j)
       THEN \E j \in Jobs :
               NextTimeout(j) /\ DelayOver(j) /\ Takes("queue", "claimResume", j, FALSE)
       ELSE Stops("queue")
    /\ UNCHANGED tableVars /\ ServerOnly

QueueClaimResume ==
    /\ At("queue", "claimResume")
    /\ IF Resumable(thread["queue"].job)
       THEN ClaimResume(thread["queue"].job) /\ Goes("queue", "claimed")
       ELSE Stops("queue") /\ UNCHANGED tableVars
    /\ ServerOnly

\* The queue wait is over; only the claim itself is checked again.
QueueClaim ==
    /\ At("queue", "queueWait")
    /\ IF \E j \in Jobs : NextPending(j)
       THEN \E j \in Jobs : ClaimNextPending(j) /\ Takes("queue", "claimed", j, TRUE)
       ELSE Stops("queue") /\ UNCHANGED tableVars
    /\ ServerOnly

Queue == QueuePoll \/ QueueResume \/ QueueClaimResume \/ QueueClaim

-----------------------------------------------------------------------------
(* The HTTP handlers. *)

Handles(r) == server = "up" /\ r \in Requests /\ At("ui", "idle")

\* /api/jobs/start inserts one job, running a strategy several: the first is
\* launched at once if no job was active.  Only the former reads its job back.
Create(n) ==
    /\ Handles(IF n = 1 THEN "create" ELSE "strategy")
    /\ \E j \in Jobs :
          /\ CreateJobs(j, n)
          /\ IF Active = {} THEN Takes("ui", IF n = 1 THEN "claimed" ELSE "sweep", j, TRUE)
             ELSE UNCHANGED thread
    /\ ServerOnly

PauseJob(j) ==
    /\ Handles("pause")
    /\ RequestPause(j)
    /\ UNCHANGED thread /\ ServerOnly

ResumeJob(j) ==
    /\ Handles("resume")
    /\ ClaimResume(j) /\ Takes("ui", "claimed", j, FALSE)
    /\ ServerOnly

StartPending(j) ==
    /\ Handles("startPending")
    /\ ClaimPending(j) /\ Takes("ui", "claimed", j, TRUE)
    /\ ServerOnly

\* recover-stale takes the operator's word that the process is gone.
RecoverJob(j) ==
    /\ Handles("recover") /\ j \in Active
    /\ Takes("ui", "read", j, FALSE)
    /\ UNCHANGED tableVars /\ ServerOnly

RemoveJob(j) ==
    /\ Handles("delete")
    /\ DeleteJob(j)
    /\ UNCHANGED thread /\ ServerOnly

SetSchedulerPaused ==
    /\ Handles("scheduler")
    /\ schedPaused' = ~schedPaused
    /\ UNCHANGED <<tableVars, server, thread, proc, registry, stalls, abandoned>>

Operator ==
    \/ \E n \in 1 .. 2 : Create(n)
    \/ \E j \in Jobs : \/ PauseJob(j) \/ ResumeJob(j) \/ StartPending(j)
                       \/ RecoverJob(j) \/ RemoveJob(j)
    \/ SetSchedulerPaused

-----------------------------------------------------------------------------
(* A scraper process: what ensureJob, finishJob, recoveryCoordinator.trigger *)
(* and the two stall monitors do to the job's row.                           *)

ProcAt(p, s) == proc[p].at = s

ProcGoes(p, s) ==
    /\ proc' = [proc EXCEPT ![p].at = s]
    /\ UNCHANGED <<server, schedPaused, thread, registry, stalls, abandoned>>

ProcExits(p, exit) ==
    /\ proc' = [proc EXCEPT ![p].at = "dead", ![p].exit = exit]
    /\ UNCHANGED <<server, schedPaused, thread, registry, stalls, abandoned>>

\* ensureJob: a starting job is discovered, any other is simply started.
Boot(p) ==
    /\ ProcAt(p, "boot")
    /\ LET j == proc[p].job
       IN  \/ ~Exists(j) /\ ProcExits(p, "error") /\ UNCHANGED tableVars
           \/ status[j] = "starting" /\ ProcGoes(p, "discover") /\ UNCHANGED tableVars
           \/ /\ Exists(j) /\ status[j] # "starting"
              /\ StartJob(j) /\ ProcGoes(p, "work")

\* The URLs found, if any, are queued ...
Discovered(p) ==
    /\ ProcAt(p, "discover")
    /\ \E found \in {"left", "none"} : QueueStartingURLs(proc[p].job, found)
    /\ ProcGoes(p, "queued")

\* ... or discovery or the insert fails, and Run returns without finishJob.
DiscoveryFails(p) ==
    /\ ProcAt(p, "discover")
    /\ \/ "failure" \in Faults
       \/ ~(status[proc[p].job] = "starting" /\ urls[proc[p].job] = "none")
    /\ ProcGoes(p, "leave")
    /\ UNCHANGED tableVars

\* Mutant: the job is left starting when its URLs are queued.
StartQueuedNot(p) ==
    /\ ProcAt(p, "queued")
    /\ UNCHANGED tableVars /\ ProcGoes(p, "work")

StartQueued(p) ==
    /\ ProcAt(p, "queued")
    /\ StartJob(proc[p].job) /\ ProcGoes(p, "work")

\* Every URL is settled.
Settle(p) ==
    /\ ProcAt(p, "work")
    /\ LET j == proc[p].job
       IN  /\ urls' = [urls EXCEPT ![j] = IF @ = "none" THEN @ ELSE "settled"]
           /\ \E s \in {"done"} \cup (IF "failure" \in Faults THEN {"failed"} ELSE {}) :
                 SetStatus(j, s, FALSE)
           /\ UNCHANGED pauseReq
    /\ ProcGoes(p, "leave")

\* The workers saw pause_requested.
PauseEnds(p) ==
    /\ ProcAt(p, "work") /\ pauseReq[proc[p].job]
    /\ SetJobStatus(proc[p].job, "paused", FALSE) /\ ProcGoes(p, "leave")

\* ErrSessionBlocked, or any other error of Run.
RunFails(p) ==
    /\ ProcAt(p, "work") /\ "failure" \in Faults
    /\ \E s \in {"blocked", "failed"} : SetJobStatus(proc[p].job, s, FALSE)
    /\ ProcGoes(p, "leave")

\* The wait after a bot block shows as a paused job, ...
RecoveryWait(p) ==
    /\ ProcAt(p, "work") /\ "recovery" \in Faults
    /\ LET j == proc[p].job
       IN  /\ SetStatus(j, "paused", FALSE)
           /\ pauseReq' = [pauseReq EXCEPT ![j] = Exists(j)]
           /\ UNCHANGED urls
    /\ ProcGoes(p, "recovery")

\* ... which the process starts again itself.
RecoveryOver(p) ==
    /\ ProcAt(p, "recovery") /\ DelayOver(proc[p].job)
    /\ StartJob(proc[p].job) /\ ProcGoes(p, "work")

\* runStallMonitor and runFeedDiscoveryMonitor: paused, then exit code 3.
Stall(p) ==
    /\ proc[p].at \in {"discover", "work"} /\ "stall" \in Faults
    /\ SetJobStatus(proc[p].job, "paused", FALSE) /\ ProcGoes(p, "stalled")

StallExit(p) == ProcAt(p, "stalled") /\ ProcExits(p, "stall") /\ UNCHANGED tableVars

\* main returns with code 0 whatever Run returned.
Leave(p) == ProcAt(p, "leave") /\ ProcExits(p, "clean") /\ UNCHANGED tableVars

\* The deadline of exec.CommandContext, which the spawning server keeps.
Timeout(p) ==
    /\ Alive(p) /\ At(p, "wait") /\ "timeout" \in Faults
    /\ ProcExits(p, "timeout") /\ UNCHANGED tableVars

Crash(p) == Alive(p) /\ "crash" \in Faults /\ ProcExits(p, "error") /\ UNCHANGED tableVars

Process(p) ==
    \/ Boot(p) \/ Discovered(p) \/ DiscoveryFails(p) \/ StartQueued(p) \/ Settle(p)
    \/ PauseEnds(p) \/ RunFails(p) \/ RecoveryOver(p) \/ StallExit(p) \/ Leave(p)

ProcessFault(p) == RecoveryWait(p) \/ Stall(p) \/ Timeout(p) \/ Crash(p)

-----------------------------------------------------------------------------
(* The server dies and boots. *)

\* The processes have groups of their own: they go on ("restart") unless the
\* machine or the container goes down with the server ("reboot").
ServerDies ==
    /\ server # "down"
    /\ \E f \in Faults \cap {"restart", "reboot"} :
          proc' = IF f = "reboot" THEN [p \in Procs |-> NoProcess] ELSE proc
    /\ server' = "down"
    /\ thread' = [t \in Threads |-> Idle]
    /\ stalls' = [j \in Jobs |-> 0]
    /\ UNCHANGED <<tableVars, schedPaused, registry, abandoned>>

\* Mutant: boot goes straight to the sweep.
BootSkipsRecovery ==
    /\ server = "down"
    /\ server' = "boot"
    /\ thread' = [thread EXCEPT !["boot"].at = "sweep"]
    /\ UNCHANGED <<tableVars, schedPaused, proc, registry, stalls, abandoned>>

\* startControlServer: RecoverInterruptedJobs lists the active jobs, ...
ServerBoots ==
    /\ server = "down"
    /\ server' = "boot"
    /\ thread' = [thread EXCEPT !["boot"].at = "recoverAll",
                     !["boot"].todo = {<<j, NoProc>> : j \in Active}]
    /\ UNCHANGED <<tableVars, schedPaused, proc, registry, stalls, abandoned>>

\* ... recovers them one by one, then the registry is swept.
BootNext ==
    /\ At("boot", "recoverAll")
    /\ IF thread["boot"].todo = {} THEN Goes("boot", "sweep")
       ELSE \E r \in thread["boot"].todo :
               thread' = [thread EXCEPT !["boot"].at = "read", !["boot"].job = r[1],
                             !["boot"].todo = @ \ {r}]
    /\ UNCHANGED tableVars /\ ServerOnly

Server == ServerBoots \/ BootNext

Next ==
    \/ Queue \/ Operator \/ ServerDies \/ Server
    \/ \E t \in Threads : Launch(t) \/ RecoverStale(t)
    \/ \E p \in Procs : Waiter(p) \/ Process(p) \/ ProcessFault(p)

Spec == Init /\ [][Next]_vars

\* The server's goroutines run, the queue polls, a process gets on with its work
\* or is killed at its deadline; nobody has to ask for anything.
Fairness ==
    /\ WF_vars(Queue) /\ WF_vars(Server)
    /\ \A t \in Threads : WF_vars(Launch(t)) /\ WF_vars(RecoverStale(t))
    /\ \A p \in Procs : WF_vars(Waiter(p)) /\ WF_vars(Process(p))

FairSpec == Spec /\ Fairness

-----------------------------------------------------------------------------
(* Properties. *)

Launching(t, j) == thread[t].job = j /\ thread[t].at \in LaunchSteps

Watches(t, j) == thread[t].job = j /\ thread[t].at \in {"wait", "read", "write"}

\* An active job blocks the queue, so somebody has to be left who ends it: a
\* launch on its way, a live process, or a waiter that has still to recover it.
\* Nobody else ever looks at a job that is starting or running, unless an error
\* that the server only reports made it give the job up: a failing read after the
\* claim, a failing recovery, a resumed process that does not start.
ActiveIsOwned ==
    server = "up" => \A j \in Active \ abandoned :
        \/ \E p \in Procs : Works(p, j)
        \/ \E t \in Threads : Launching(t, j) \/ Watches(t, j)

\* Jobs run serially: claims by the queue and by start-pending, and creations,
\* leave at most one job active, with those the server gave up counted.  This is
\* for jobs that nobody resumes: ClaimResume does not look for an active job.
OneActiveJob == Cardinality(Active) <= 1

\* No job is scraped by two processes, which would claim from each other's
\* URLs, and no process scrapes a job the table calls stopped.
WorkIsActive ==
    /\ \A p, q \in Procs : ProcAt(p, "work") /\ ProcAt(q, "work") => p = q
    /\ \A p \in Procs : ProcAt(p, "work") => status[proc[p].job] = "running"

\* The sweep of a later launch, or of a later boot, finds every process that is
\* still alive: its job's registry row names it from Record until its waiter
\* drops it.  The waiter of the process before it, which drops the row by job id,
\* is done by then, though a stall or a timeout has the job launched again.
RegistryCoversLive ==
    \A p \in Procs : Alive(p) /\ At(p, "wait") => registry[proc[p].job] = p

\* "Jobs run serially, so this only runs when nothing legitimate is active":
\* the sweep kills no process that is at work on an active or recovering job.
SweepSparesWork ==
    [][\A p \in Procs : proc'[p].exit = "swept" /\ proc[p].exit # "swept"
                           => proc[p].at \notin {"boot", "discover", "queued", "work", "recovery"}]_vars

\* The phase of a job's life that a status stands for.
Phase(s) ==
    CASE s \in {"none", "done", "gone"}           -> s
      [] s = "pending"                           -> "waiting"
      [] s \in {"starting", "running"}           -> "active"
      [] s \in {"paused", "blocked", "failed"}   -> "stopped"

Life == INSTANCE JobLife WITH life <- [j \in Jobs |-> Phase(status[j])]

\* The server, its queue and its processes implement the life cycle of a job: a new
\* or waiting job has its turn only when no other has it, whichever of the queue,
\* the operator and the creation gives it, and one that is done is done for good,
\* whoever still holds it.
LifeCycle == Life!Spec

\* A queued job gets its turn, unless the job before it ended in a state that
\* waits for the operator; it is never stuck behind an active job nobody works on.
QueueMoves ==
    \A j \in Jobs : status[j] = "pending" ~>
        status[j] # "pending" \/ With({"paused", "blocked", "failed"}) # {}

\* A job that timed out, in discovery or later, is taken up again by the queue.
TimeoutsResume == \A j \in Jobs : j \in Timeouts ~> j \notin Timeouts

\* A job that stalls every time is not started over and over again, whether it
\* times out in between or not: the cap is per job, not per process.
RespawnsEnd == <>[](\A p \in Procs : proc[p].exit # "stall")

=============================================================================
