--------------------------- MODULE JobControlTypes ---------------------------
(***************************************************************************)
(* Type correctness of JobControl for any number of jobs and any process   *)
(* ids, requests and faults: the table's rows and their order, and for     *)
(* each goroutine of the server the steps it can be in and what it carries *)
(* there.                                                                  *)
(***************************************************************************)
EXTENDS JobControl, TLAPS

ThreadRecs ==
    [at : ThreadSteps, job : Jobs \cup {NoJob}, start : BOOLEAN,
     saw : JobStatuses \cup {"none"},
     todo : SUBSET (Jobs \X (Procs \cup {NoProc})), child : Procs \cup {NoProc}]

ProcRecs == [at : AliveSteps \cup {"none", "dead"}, job : Jobs \cup {NoJob}, exit : Exits]

\* The steps of each goroutine.
StepsOf(t) ==
    CASE t = "queue" -> {"idle", "delay", "queueWait", "claimResume"} \cup LaunchSteps
      [] t = "ui"    -> {"idle"} \cup LaunchSteps \cup RecoverSteps
      [] t = "boot"  -> {"idle", "recoverAll", "sweep", "kill"} \cup RecoverSteps
      [] OTHER -> {"idle", "wait", "drop", "restartDelay"} \cup RecoverSteps \cup LaunchSteps

\* Steps in which a goroutine has no job yet.
JobFree == {"idle", "delay", "queueWait"}

\* Steps in which its job may be any, or none: those of boot.
BootSteps == {"recoverAll", "sweep", "kill"}

\* What a goroutine carries in each of its steps.
ThreadOK(t, h) ==
    /\ h \in ThreadRecs
    /\ h.at \in StepsOf(t)
    /\ h.at = "idle" => h = Idle
    /\ h.at \in JobFree => h.job = NoJob
    /\ h.at \notin JobFree /\ ~(t = "boot" /\ h.at \in BootSteps) => h.job \in Jobs
    /\ h.at = "record" <=> h.child \in Procs

ThreadsOK ==
    /\ thread \in [Threads -> ThreadRecs]
    /\ \A t \in Threads : ThreadOK(t, thread[t])

ProcsOK ==
    /\ proc \in [Procs -> ProcRecs]
    /\ \A p \in Procs : proc[p].at # "none" => proc[p].job \in Jobs

ServerOK ==
    /\ server \in {"up", "down", "boot"}
    /\ schedPaused \in BOOLEAN
    /\ registry \in [Jobs -> Procs \cup {NoProc}]
    /\ stalls \in [Jobs -> 0 .. MaxStallResumes]
    /\ abandoned \subseteq Jobs

TypeInv == TableTypeOK /\ ThreadsOK /\ ProcsOK /\ ServerOK

-----------------------------------------------------------------------------
(* The table. *)

\* The statement that sets a job's status makes it the job updated last.
LEMMA SetStatusType ==
    ASSUME TableTypeOK, NEW j \in Jobs, NEW s \in JobStatuses, NEW b \in BOOLEAN,
           SetStatus(j, s, b),
           urls' \in [Jobs -> {"none", "left", "settled"}], pauseReq' \in [Jobs -> BOOLEAN]
    PROVE  TableTypeOK'
<1>1. CASE Exists(j)
  <2>1. /\ status' \in [Jobs -> JobStatuses \cup {"none", "gone"}]
        /\ timedOut' \in [Jobs -> BOOLEAN]
    BY <1>1 DEF SetStatus, TableTypeOK
  <2>2. Created' = Created /\ j \in Created
    BY <1>1 DEF SetStatus, TableTypeOK, Created, Exists, JobStatuses
  <2>3. updated' = {p \in updated : p[1] # j /\ p[2] # j} \cup ((Created \ {j}) \X {j})
    BY <1>1 DEF SetStatus, Touch
  <2>4. /\ updated' \subseteq Created' \X Created'
        /\ \A k \in Created' : <<k, k>> \notin updated'
    BY <2>2, <2>3 DEF TableTypeOK
  <2>5. ASSUME NEW h \in Created, NEW k \in Created, h # k
        PROVE  <<h, k>> \in updated' <=> <<k, h>> \notin updated'
    <3>1. <<h, k>> \in updated <=> <<k, h>> \notin updated
      BY <2>5 DEF TableTypeOK
    <3>2. CASE k = j
      BY <2>3, <2>5, <3>2
    <3>3. CASE h = j
      BY <2>3, <2>5, <3>3
    <3>4. CASE h # j /\ k # j
      BY <2>3, <3>1, <3>4
    <3> QED
      BY <3>2, <3>3, <3>4
  <2> QED
    BY <2>1, <2>2, <2>4, <2>5 DEF TableTypeOK
<1>2. CASE ~Exists(j)
  BY <1>2 DEF SetStatus, TableTypeOK, Created
<1> QED
  BY <1>1, <1>2

\* Statements that only touch a row.
LEMMA TouchType ==
    ASSUME TableTypeOK, NEW j \in Jobs, Exists(j), Touch(j), UNCHANGED <<status, timedOut>>,
           urls' \in [Jobs -> {"none", "left", "settled"}], pauseReq' \in [Jobs -> BOOLEAN]
    PROVE  TableTypeOK'
<1>1. /\ status' = [status EXCEPT ![j] = status[j]]
      /\ timedOut' = [timedOut EXCEPT ![j] = timedOut[j]]
  BY DEF TableTypeOK
<1>2. SetStatus(j, status[j], timedOut[j])
  BY <1>1 DEF SetStatus
<1>3. status[j] \in JobStatuses /\ timedOut[j] \in BOOLEAN
  BY DEF TableTypeOK, Exists
<1> QED
  BY <1>2, <1>3, SetStatusType

LEMMA CreateJobsType ==
    ASSUME TableTypeOK, NEW first \in Jobs, NEW n \in 1 .. 2, CreateJobs(first, n)
    PROVE  TableTypeOK'
<1> DEFINE new == first .. first + n - 1
<1>1. /\ new \subseteq Jobs
      /\ \A j \in Jobs : status[j] = "none" <=> j >= first
      /\ status' \in [Jobs -> JobStatuses \cup {"none", "gone"}]
      /\ \A j \in Jobs \ new : status'[j] = status[j]
      /\ \A j \in new : status'[j] \in {"starting", "pending"}
      /\ updated' = updated \cup {p \in Jobs \X new : p[1] < p[2]}
      /\ UNCHANGED <<urls, timedOut, pauseReq>>
  BY DEF CreateJobs, TableTypeOK, JobStatuses
<1>2. /\ Created = {j \in Jobs : j < first}
      /\ Created' = {j \in Jobs : j < first + n}
  BY <1>1, NumJobsAssumption DEF Created, Jobs
<1>3. updated' \subseteq Created' \X Created'
  <2>1. updated \subseteq Created \X Created /\ Created \subseteq Created'
    BY <1>2, NumJobsAssumption DEF TableTypeOK, Jobs
  <2>2. ASSUME NEW p \in Jobs \X new, p[1] < p[2]
        PROVE  p[1] \in Created' /\ p[2] \in Created'
    BY <1>1, <1>2, <2>2, NumJobsAssumption DEF Jobs
  <2> QED
    BY <1>1, <2>1, <2>2
<1>4. \A k \in Created' : <<k, k>> \notin updated'
  <2>1. ASSUME NEW k \in Created'
        PROVE  <<k, k>> \notin updated /\ ~(k < k)
    BY <1>2, NumJobsAssumption DEF TableTypeOK, Jobs
  <2> QED
    BY <1>1, <2>1
<1>5. ASSUME NEW h \in Created', NEW k \in Created', h < k
      PROVE  <<h, k>> \in updated' <=> <<k, h>> \notin updated'
  <2>0. h \in Jobs /\ k \in Jobs /\ h \in Nat /\ k \in Nat /\ h # k
    BY <1>5, <1>2, NumJobsAssumption DEF Jobs
  <2>1. <<k, h>> \notin {p \in Jobs \X new : p[1] < p[2]}
    BY <1>5, <2>0
  <2>2. CASE k \in new
    <3>1. <<h, k>> \in updated'
      BY <1>1, <1>5, <2>0, <2>2
    <3>2. k \notin Created
      BY <1>2, <2>2, NumJobsAssumption DEF Jobs
    <3> QED
      BY <1>1, <2>1, <3>1, <3>2 DEF TableTypeOK
  <2>3. CASE k \notin new
    <3>1. k \in Created /\ h \in Created
      BY <1>2, <1>5, <2>0, <2>3, NumJobsAssumption DEF Jobs
    <3>2. <<h, k>> \in updated' <=> <<h, k>> \in updated
      BY <1>1, <2>3
    <3> QED
      BY <1>1, <2>0, <2>1, <3>1, <3>2 DEF TableTypeOK
  <2> QED
    BY <2>2, <2>3
<1>6. ASSUME NEW h \in Created', NEW k \in Created', h # k
      PROVE  h < k \/ k < h
  BY <1>2, <1>6, NumJobsAssumption DEF Jobs
<1> QED
  BY <1>1, <1>3, <1>4, <1>5, <1>6 DEF TableTypeOK

\* The statements and transactions, one after another.
LEMMA TableStatements ==
    ASSUME TableTypeOK, NEW j \in Jobs
    PROVE  /\ \A s \in JobStatuses, b \in BOOLEAN : SetJobStatus(j, s, b) => TableTypeOK'
           /\ StartJob(j) \/ ClaimNextPending(j) \/ ClaimPending(j) \/ ClaimResume(j)
                 => TableTypeOK'
           /\ RequestPause(j) \/ Unpause(j) \/ DeleteJob(j) => TableTypeOK'
           /\ \A found \in {"left", "none"} : QueueStartingURLs(j, found) => TableTypeOK'
<1>1. ASSUME NEW s \in JobStatuses, NEW b \in BOOLEAN, SetJobStatus(j, s, b)
      PROVE  TableTypeOK'
  BY <1>1, SetStatusType DEF SetJobStatus, TableTypeOK
<1>2. ASSUME NEW s \in {"starting", "running"}, Activate(j, s)
      PROVE  TableTypeOK'
  <2>1. s \in JobStatuses /\ SetStatus(j, s, FALSE)
    BY <1>2 DEF Activate, JobStatuses
  <2>2. /\ urls' \in [Jobs -> {"none", "left", "settled"}]
        /\ pauseReq' \in [Jobs -> BOOLEAN]
    BY <1>2 DEF Activate, TableTypeOK
  <2> QED
    BY <2>1, <2>2, SetStatusType
<1>3. StartJob(j) \/ ClaimNextPending(j) \/ ClaimPending(j) \/ ClaimResume(j) => TableTypeOK'
  BY <1>2 DEF StartJob, ClaimNextPending, ClaimPending, ClaimResume
<1>4. RequestPause(j) => TableTypeOK'
  BY TouchType DEF RequestPause, TableTypeOK
<1>5. Unpause(j) => TableTypeOK'
  BY DEF Unpause, TableTypeOK, Created
<1>6. ASSUME DeleteJob(j)
      PROVE  TableTypeOK'
  <2>1. Created' = Created
    BY <1>6 DEF DeleteJob, Deletable, Exists, JobStatuses, Created, TableTypeOK
  <2> QED
    BY <1>6, <2>1 DEF DeleteJob, TableTypeOK
<1>7. ASSUME NEW found \in {"left", "none"}, QueueStartingURLs(j, found)
      PROVE  TableTypeOK'
  BY <1>7, TouchType DEF QueueStartingURLs, Exists, JobStatuses, TableTypeOK
<1> QED
  BY <1>1, <1>3, <1>4, <1>5, <1>6, <1>7

LEMMA TableUnchanged ==
    ASSUME TableTypeOK, UNCHANGED tableVars
    PROVE  TableTypeOK'
  BY DEF TableTypeOK, tableVars, Created

-----------------------------------------------------------------------------
(* The goroutines of the server. *)

LEMMA ThreadChanges ==
    ASSUME ThreadsOK, NEW t \in Threads, NEW h, thread' = [thread EXCEPT ![t] = h],
           ThreadOK(t, h)
    PROVE  ThreadsOK'
<1>1. thread' \in [Threads -> ThreadRecs]
  BY DEF ThreadsOK, ThreadOK
<1>2. ASSUME NEW u \in Threads
      PROVE  ThreadOK(u, thread'[u])
  BY <1>2 DEF ThreadsOK
<1> QED
  BY <1>1, <1>2 DEF ThreadsOK, ThreadOK

LEMMA IdleOK == \A t \in Threads : ThreadOK(t, Idle)
<1>1. Idle \in ThreadRecs
  BY DEF Idle, ThreadRecs, ThreadSteps
<1> QED
  BY <1>1, ControlAssumption DEF ThreadOK, Idle, StepsOf, JobFree, Threads

LEMMA StopsOK ==
    ASSUME ThreadsOK, NEW t \in Threads, Stops(t)
    PROVE  ThreadsOK'
  BY IdleOK, ThreadChanges DEF Stops

\* A goroutine goes from one step in which it has a job to another.
LEMMA GoesOK ==
    ASSUME ThreadsOK, NEW t \in Threads, NEW s, Goes(t, s),
           s \in StepsOf(t) \ (JobFree \cup {"record"}), ~At(t, "record"),
           thread[t].job \in Jobs \/ (t = "boot" /\ s \in BootSteps)
    PROVE  ThreadsOK'
<1> DEFINE h == [thread[t] EXCEPT !.at = s]
<1>1. thread' = [thread EXCEPT ![t] = h]
  BY DEF Goes
<1>2. s \in ThreadSteps
  BY DEF StepsOf, ThreadSteps, LaunchSteps, RecoverSteps
<1>3. h \in ThreadRecs /\ h.at = s /\ h.job = thread[t].job /\ h.child = thread[t].child
  BY <1>2 DEF ThreadsOK, ThreadRecs
<1>4. thread[t].child \notin Procs
  BY DEF ThreadsOK, ThreadOK, At
<1>5. ThreadOK(t, h)
  BY <1>3, <1>4 DEF ThreadOK, JobFree
<1> QED
  BY <1>1, <1>5, ThreadChanges

LEMMA TakesOK ==
    ASSUME ThreadsOK, NEW t \in Threads, NEW s, NEW j \in Jobs, NEW b \in BOOLEAN,
           Takes(t, s, j, b), s \in StepsOf(t) \ (JobFree \cup {"record"})
    PROVE  ThreadsOK'
<1> DEFINE h == [Idle EXCEPT !.at = s, !.job = j, !.start = b]
<1>1. thread' = [thread EXCEPT ![t] = h]
  BY DEF Takes
<1>2. s \in ThreadSteps
  BY DEF StepsOf, ThreadSteps, LaunchSteps, RecoverSteps
<1>3. h \in ThreadRecs /\ h.at = s /\ h.job = j /\ h.child = NoProc
  BY <1>2 DEF Idle, ThreadRecs
<1>4. ThreadOK(t, h)
  BY <1>3, ControlAssumption DEF ThreadOK, JobFree
<1> QED
  BY <1>1, <1>4, ThreadChanges

\* A goroutine whose step says that it has a job has one.
LEMMA HasJob ==
    ASSUME ThreadsOK, NEW t \in Threads
    PROVE  /\ thread[t].at \in {"spawn", "record", "claimResume", "wait", "drop", "restartDelay",
                                "read", "write", "unpause"} => thread[t].job \in Jobs
           /\ thread[t].at \in {"claimed", "sweep", "kill"} /\ t # "boot" => thread[t].job \in Jobs
           /\ thread[t] \in ThreadRecs /\ thread[t].at \in StepsOf(t)
           /\ thread[t].at = "idle" => thread[t] = Idle
           /\ thread[t].at \in JobFree => thread[t].job = NoJob
           /\ thread[t].at = "record" <=> thread[t].child \in Procs
  BY DEF ThreadsOK, ThreadOK, JobFree, BootSteps

\* Steps that belong to one kind of goroutine.
LEMMA WhoseSteps ==
    ASSUME ThreadsOK, NEW t \in Threads
    PROVE  /\ thread[t].at \in {"wait", "drop", "restartDelay"} => t \in Procs
           /\ thread[t].at \in {"delay", "queueWait", "claimResume"} => t = "queue"
           /\ thread[t].at = "recoverAll" => t = "boot"
           /\ thread[t].at \in RecoverSteps => t \in Procs \cup {"ui", "boot"}
           /\ thread[t].at \in {"claimed", "spawn", "record"} => t # "boot"
<1>1. thread[t].at \in StepsOf(t) /\ t \in {"queue", "ui", "boot"} \cup Procs
  BY DEF ThreadsOK, ThreadOK, Threads
<1> QED
  BY <1>1, ControlAssumption DEF StepsOf, RecoverSteps, LaunchSteps

-----------------------------------------------------------------------------
(* One lemma for each group of actions. *)

\* A killed group leaves every other process alone.
LEMMA KillGroupDoes ==
    ASSUME ProcsOK, NEW p
    PROVE  /\ KillGroup(p) \in [Procs -> ProcRecs]
           /\ \A q \in Procs :
                 \/ KillGroup(p)[q] = proc[q] /\ (q = p => ~Alive(p))
                 \/ /\ q = p /\ Alive(q)
                    /\ KillGroup(p)[q].at = "dead" /\ KillGroup(p)[q].job = proc[q].job
                    /\ KillGroup(p)[q].exit = "swept"
<1>1. CASE ~Alive(p)
  BY <1>1 DEF KillGroup, ProcsOK
<1>2. CASE Alive(p)
  <2>1. KillGroup(p) = [proc EXCEPT ![p].at = "dead", ![p].exit = "swept"]
    BY <1>2 DEF KillGroup
  <2>2. proc \in [Procs -> ProcRecs]
    BY DEF ProcsOK
  <2>3. ASSUME NEW q \in Procs, q # p
        PROVE  KillGroup(p)[q] = proc[q]
    BY <2>1, <2>2, <2>3
  <2>4. ASSUME p \in Procs
        PROVE  /\ KillGroup(p)[p] \in ProcRecs /\ KillGroup(p)[p].at = "dead"
               /\ KillGroup(p)[p].job = proc[p].job /\ KillGroup(p)[p].exit = "swept"
    <3>1. KillGroup(p)[p] = [proc[p] EXCEPT !.at = "dead", !.exit = "swept"]
      BY <2>1, <2>2, <2>4
    <3> QED
      BY <2>2, <2>4, <3>1 DEF ProcRecs, Exits
  <2>5. KillGroup(p) \in [Procs -> ProcRecs]
    BY <2>1, <2>2, <2>3, <2>4
  <2> QED
    BY <1>2, <2>3, <2>4, <2>5
<1> QED
  BY <1>1, <1>2

LEMMA LaunchType ==
    ASSUME TypeInv, NEW t \in Threads, Launch(t)
    PROVE  TypeInv'
<1> USE DEF TypeInv
<1>0. CASE ClaimRead(t) \/ ClaimReadFails(t)
  <2>1. thread[t].job \in Jobs /\ ~At(t, "record") /\ t # "boot"
    BY <1>0, HasJob, WhoseSteps DEF ClaimRead, ClaimReadFails, At
  <2>2. "sweep" \in StepsOf(t) \ (JobFree \cup {"record"})
    BY <1>0, <2>1, HasJob DEF StepsOf, LaunchSteps, RecoverSteps, JobFree, ClaimRead, ClaimReadFails, At
  <2>3. ThreadsOK'
    BY <1>0, <2>1, <2>2, GoesOK, StopsOK DEF ClaimRead, ClaimReadFails
  <2>4. /\ UNCHANGED <<tableVars, server, schedPaused, proc, registry, stalls>>
        /\ abandoned' \subseteq abandoned \cup {thread[t].job}
    BY <1>0 DEF ClaimRead, ClaimReadFails, GivesUp
  <2> QED
    BY <2>1, <2>3, <2>4, TableUnchanged DEF ProcsOK, ServerOK
<1>1. CASE SweepList(t)
  <2>0. PICK rows \in {Registered, {}} :
           thread' = [thread EXCEPT ![t].at = "kill", ![t].todo = rows]
    BY <1>1 DEF SweepList
  <2> DEFINE h == [thread[t] EXCEPT !.at = "kill", !.todo = rows]
  <2>1. thread' = [thread EXCEPT ![t] = h]
    BY <2>0
  <2>2. rows \in SUBSET (Jobs \X (Procs \cup {NoProc}))
    BY <2>0 DEF ServerOK, Registered
  <2>3. thread[t] \in ThreadRecs /\ thread[t].at = "sweep" /\ ThreadOK(t, thread[t])
    BY <1>1 DEF SweepList, At, ThreadsOK
  <2>4. /\ h \in ThreadRecs /\ h.at = "kill"
        /\ h.job = thread[t].job /\ h.child = thread[t].child
    BY <2>2, <2>3 DEF ThreadRecs, ThreadSteps, LaunchSteps
  <2>5. "kill" \in StepsOf(t)
    BY <2>3 DEF ThreadOK, StepsOf, LaunchSteps, RecoverSteps
  <2>6. ThreadOK(t, h)
    BY <2>3, <2>4, <2>5 DEF ThreadOK, JobFree, BootSteps
  <2> QED
    BY <1>1, <2>1, <2>6, ThreadChanges, TableUnchanged DEF SweepList, ServerOnly, ProcsOK,
       ServerOK
<1>2. CASE SweepRow(t)
  <2>1. PICK r \in thread[t].todo :
           /\ thread' = [thread EXCEPT ![t].todo = @ \ {r}]
           /\ DropsRow(r[1])
           /\ proc' = KillGroup(r[2])
    BY <1>2 DEF SweepRow
  <2> DEFINE h == [thread[t] EXCEPT !.todo = @ \ {r}]
  <2>2. thread' = [thread EXCEPT ![t] = h]
    BY <2>1
  <2>3. thread[t] \in ThreadRecs /\ thread[t].at = "kill" /\ ThreadOK(t, thread[t])
    BY <1>2 DEF SweepRow, At, ThreadsOK
  <2>4. /\ h \in ThreadRecs /\ h.at = "kill"
        /\ h.job = thread[t].job /\ h.child = thread[t].child
    BY <2>3 DEF ThreadRecs
  <2>5. ThreadOK(t, h)
    BY <2>3, <2>4 DEF ThreadOK, JobFree, BootSteps
  <2>6. ThreadsOK'
    BY <2>2, <2>5, ThreadChanges
  <2>7. ProcsOK'
    <3>1. ProcsOK /\ proc' = KillGroup(r[2])
      BY <2>1
    <3>2. ASSUME NEW q \in Procs, proc'[q].at # "none"
          PROVE  proc'[q].job \in Jobs
      <4>1. proc[q].at # "none" /\ proc'[q].job = proc[q].job
        BY <3>1, <3>2, KillGroupDoes DEF Alive, AliveSteps
      <4> QED
        BY <3>1, <4>1 DEF ProcsOK
    <3>3. proc' \in [Procs -> ProcRecs]
      BY <3>1, KillGroupDoes
    <3> QED
      BY <3>2, <3>3 DEF ProcsOK
  <2>8. ServerOK'
    BY <1>2, <2>1 DEF SweepRow, DropsRow, ServerOK
  <2> QED
    BY <1>2, <2>6, <2>7, <2>8, TableUnchanged DEF SweepRow
<1>3. CASE SweepDone(t)
  <2>1. CASE t = "boot"
    BY <1>3, <2>1, StopsOK, TableUnchanged DEF SweepDone, ServerOK, ProcsOK
  <2>2. CASE t # "boot"
    <3>1. thread[t].job \in Jobs /\ thread[t].at = "kill" /\ Goes(t, "spawn")
      BY <1>3, <2>2, HasJob DEF SweepDone, At
    <3>2. "spawn" \in StepsOf(t) \ (JobFree \cup {"record"}) /\ ~At(t, "record")
      BY <2>2, <3>1, HasJob DEF StepsOf, LaunchSteps, RecoverSteps, JobFree, At
    <3>3. ThreadsOK'
      BY <3>1, <3>2, GoesOK
    <3> QED
      BY <1>3, <2>2, <3>3, TableUnchanged DEF SweepDone, ServerOK, ProcsOK
  <2> QED
    BY <2>1, <2>2
<1>4. CASE SpawnOK(t)
  <2>1. PICK p \in Procs :
           /\ proc' = [proc EXCEPT ![p] = [at |-> "boot", job |-> thread[t].job, exit |-> "none"]]
           /\ thread' = [thread EXCEPT ![t].at = "record", ![t].child = p]
    BY <1>4 DEF SpawnOK
  <2> DEFINE h == [thread[t] EXCEPT !.at = "record", !.child = p]
  <2>2. thread' = [thread EXCEPT ![t] = h]
    BY <2>1
  <2>3. /\ thread[t] \in ThreadRecs /\ thread[t].at = "spawn" /\ ThreadOK(t, thread[t])
        /\ thread[t].job \in Jobs
    BY <1>4, HasJob DEF SpawnOK, At, ThreadsOK
  <2>4. h \in ThreadRecs /\ h.at = "record" /\ h.job = thread[t].job /\ h.child = p
    BY <2>3 DEF ThreadRecs, ThreadSteps, LaunchSteps
  <2>5. "record" \in StepsOf(t)
    BY <2>3 DEF ThreadOK, StepsOf, LaunchSteps, RecoverSteps
  <2>6. ThreadOK(t, h)
    BY <2>3, <2>4, <2>5 DEF ThreadOK, JobFree, BootSteps
  <2>7. ThreadsOK'
    BY <2>2, <2>6, ThreadChanges
  <2>8. ProcsOK'
    BY <2>1, <2>3 DEF ProcsOK, ProcRecs, AliveSteps, Exits
  <2> QED
    BY <1>4, <2>7, <2>8, TableUnchanged DEF SpawnOK, ServerOK
<1>5. CASE SpawnFails(t)
  <2>1. thread[t].job \in Jobs
    BY <1>5, HasJob DEF SpawnFails, At
  <2>2. \/ SetJobStatus(thread[t].job, "failed", FALSE) /\ ServerOnly
        \/ GivesUp({thread[t].job})
    BY <1>5 DEF SpawnFails
  <2>3. TableTypeOK'
    BY <2>1, <2>2, TableStatements, TableUnchanged DEF GivesUp, JobStatuses
  <2>4. ServerOK' /\ UNCHANGED proc
    BY <2>1, <2>2 DEF ServerOnly, GivesUp, ServerOK
  <2> QED
    BY <1>5, <2>3, <2>4, StopsOK DEF SpawnFails, ProcsOK
<1>6. CASE Record(t)
  <2> DEFINE p == thread[t].child
             j == thread[t].job
             h == [Idle EXCEPT !.at = "wait", !.job = j]
             mid == [thread EXCEPT ![t] = Idle]
  <2>1. p \in Procs /\ j \in Jobs
    BY <1>6, HasJob DEF Record, At
  <2>2. /\ thread' = [thread EXCEPT ![t] = Idle, ![p] = h]
        /\ registry' = [registry EXCEPT ![j] = p] \/ UNCHANGED registry
    BY <1>6 DEF Record
  <2>3. h \in ThreadRecs /\ h.at = "wait" /\ h.job = j /\ h.child = NoProc
    BY <2>1 DEF Idle, ThreadRecs, ThreadSteps
  <2>4. ThreadOK(p, h)
    BY <2>1, <2>3, ControlAssumption DEF ThreadOK, StepsOf, JobFree
  <2>5. \A u \in Threads : ThreadOK(u, thread'[u])
    BY <2>1, <2>2, <2>4, IdleOK DEF ThreadsOK, Threads
  <2>6. thread' \in [Threads -> ThreadRecs]
    BY <2>1, <2>2, <2>3, <2>5 DEF ThreadsOK, ThreadOK
  <2>7. ServerOK'
    BY <1>6, <2>1, <2>2 DEF Record, ServerOK
  <2> QED
    BY <1>6, <2>5, <2>6, <2>7, TableUnchanged DEF Record, ThreadsOK, ThreadOK, ProcsOK
<1> QED
  BY <1>0, <1>1, <1>2, <1>3, <1>4, <1>5, <1>6 DEF Launch

LEMMA AfterRecoveryOK ==
    ASSUME ThreadsOK, NEW t \in Threads, thread[t].at \in RecoverSteps, t # "ui"
    PROVE  {AfterRecovery(t), AfterFailure(t)} \subseteq StepsOf(t) \ (JobFree \cup {"record"})
  BY WhoseSteps, ControlAssumption DEF AfterRecovery, AfterFailure, StepsOf, JobFree

LEMMA RecoverType ==
    ASSUME TypeInv, NEW t \in Threads, RecoverStale(t)
    PROVE  TypeInv'
<1> USE DEF TypeInv
<1>0. /\ thread[t].at \in RecoverSteps /\ thread[t].job \in Jobs /\ ~At(t, "record")
      /\ thread[t] \in ThreadRecs /\ ThreadOK(t, thread[t])
  BY HasJob DEF RecoverStale, RecoverRead, RecoverWrite, RecoverUnpause, RecoverFails, At,
     RecoverSteps, ThreadsOK
<1>1. ASSUME t # "ui", Goes(t, AfterRecovery(t))
      PROVE  ThreadsOK'
  BY <1>0, <1>1, AfterRecoveryOK, GoesOK
<1>2. {"write", "unpause"} \subseteq StepsOf(t) \ (JobFree \cup {"record"})
  BY <1>0 DEF ThreadOK, StepsOf, RecoverSteps, LaunchSteps, JobFree
<1>3. CASE RecoverRead(t)
  <2>1. CASE thread[t].job \in Active
    <3> DEFINE h == [thread[t] EXCEPT !.at = "write", !.saw = status[thread[t].job]]
    <3>1. thread' = [thread EXCEPT ![t] = h]
      BY <1>3, <2>1 DEF RecoverRead
    <3>2. status[thread[t].job] \in JobStatuses
      BY <2>1 DEF Active, With, JobStatuses
    <3>3. /\ h \in ThreadRecs /\ h.at = "write"
          /\ h.job = thread[t].job /\ h.child = thread[t].child
      BY <1>0, <3>2 DEF ThreadRecs, ThreadSteps, RecoverSteps
    <3>4. ThreadOK(t, h)
      BY <1>0, <1>2, <3>3 DEF ThreadOK, JobFree, BootSteps, At, RecoverSteps
    <3> QED
      BY <1>3, <3>1, <3>4, ThreadChanges, TableUnchanged DEF RecoverRead, ServerOnly, ProcsOK,
         ServerOK
  <2>2. CASE thread[t].job \notin Active
    <3>1. IF t = "ui" THEN Stops(t) ELSE Goes(t, AfterRecovery(t))
      BY <1>3, <2>2 DEF RecoverRead
    <3>2. ThreadsOK'
      BY <1>1, <3>1, StopsOK
    <3> QED
      BY <1>3, <3>2, TableUnchanged DEF RecoverRead, ServerOnly, ProcsOK, ServerOK
  <2> QED
    BY <2>1, <2>2
<1>4. CASE RecoverWrite(t)
  <2>1. PICK s \in {"paused", "failed"} : SetJobStatus(thread[t].job, s, TimedOut(t))
    BY <1>4 DEF RecoverWrite
  <2>2. TimedOut(t) \in BOOLEAN
    BY DEF TimedOut
  <2>3. TableTypeOK'
    BY <1>0, <2>1, <2>2, TableStatements DEF JobStatuses
  <2>4. ThreadsOK'
    BY <1>0, <1>2, <1>4, GoesOK DEF RecoverWrite
  <2> QED
    BY <1>4, <2>3, <2>4 DEF RecoverWrite, ServerOnly, ProcsOK, ServerOK
<1>5. CASE RecoverUnpause(t)
  <2>1. TableTypeOK'
    BY <1>0, <1>5, TableStatements DEF RecoverUnpause
  <2>2. ThreadsOK'
    BY <1>1, <1>5, StopsOK DEF RecoverUnpause
  <2> QED
    BY <1>5, <2>1, <2>2 DEF RecoverUnpause, ServerOnly, ProcsOK, ServerOK
<1>6. CASE RecoverFails(t)
  <2>1. ThreadsOK'
    BY <1>0, <1>6, AfterRecoveryOK, GoesOK, StopsOK DEF RecoverFails
  <2>2. /\ UNCHANGED <<tableVars, server, schedPaused, proc, registry, stalls>>
        /\ abandoned' \subseteq Jobs
    BY <1>0, <1>6 DEF RecoverFails, GivesUp, ServerOK, Active, With
  <2> QED
    BY <2>1, <2>2, TableUnchanged DEF ProcsOK, ServerOK
<1> QED
  BY <1>3, <1>4, <1>5, <1>6 DEF RecoverStale

LEMMA WaiterType ==
    ASSUME TypeInv, NEW p \in Procs, Waiter(p)
    PROVE  TypeInv'
<1> USE DEF TypeInv
<1>0. /\ p \in Threads /\ thread[p].job \in Jobs /\ ~At(p, "record")
      /\ {"read", "drop", "restartDelay", "claimed"} \subseteq StepsOf(p) \ (JobFree \cup {"record"})
  <2>1. p \in Threads
    BY DEF Threads
  <2>2. thread[p].job \in Jobs /\ ~At(p, "record")
    BY <2>1, HasJob DEF Waiter, Reap, Drop, StallResume, At
  <2>3. {"read", "drop", "restartDelay", "claimed"} \subseteq StepsOf(p) \ (JobFree \cup {"record"})
    BY ControlAssumption DEF StepsOf, RecoverSteps, LaunchSteps, JobFree
  <2> QED
    BY <2>1, <2>2, <2>3
<1>1. CASE Reap(p)
  BY <1>0, <1>1, GoesOK, TableUnchanged DEF Reap, ServerOnly, ProcsOK, ServerOK
<1>2. CASE Drop(p)
  <2> DEFINE j == thread[p].job
             again == proc[p].exit = "stall" /\ stalls[j] < MaxStallResumes
  <2>1. /\ DropsRow(j)
        /\ stalls' = [stalls EXCEPT ![j] = @ + (IF again THEN 1 ELSE 0)]
        /\ IF again THEN Goes(p, "restartDelay") ELSE Stops(p)
        /\ proc' = [proc EXCEPT ![p] = NoProcess]
        /\ UNCHANGED <<tableVars, server, schedPaused, abandoned>>
    BY <1>2 DEF Drop
  <2>2. ThreadsOK'
    BY <1>0, <2>1, GoesOK, StopsOK
  <2>3. ServerOK'
    <3>1. stalls[j] + (IF again THEN 1 ELSE 0) \in 0 .. MaxStallResumes
      BY <1>0, ControlAssumption DEF ServerOK
    <3> QED
      BY <1>0, <2>1, <3>1 DEF ServerOK, DropsRow
  <2>4. ProcsOK'
    BY <2>1 DEF ProcsOK, ProcRecs, NoProcess, Exits
  <2> QED
    BY <2>1, <2>2, <2>3, <2>4, TableUnchanged
<1>3. CASE StallResume(p)
  <2>1. CASE Resumable(thread[p].job)
    <3>1. ThreadsOK'
      BY <1>0, <1>3, <2>1, GoesOK DEF StallResume
    <3> QED
      BY <1>0, <1>3, <2>1, <3>1, TableStatements DEF StallResume, ServerOnly, ProcsOK, ServerOK
  <2>2. CASE ~Resumable(thread[p].job)
    BY <1>0, <1>3, <2>2, StopsOK, TableUnchanged DEF StallResume, ServerOnly, ProcsOK, ServerOK
  <2> QED
    BY <2>1, <2>2
<1> QED
  BY <1>1, <1>2, <1>3 DEF Waiter

LEMMA QueueType ==
    ASSUME TypeInv, Queue
    PROVE  TypeInv'
<1> USE DEF TypeInv
<1>0. "queue" \in Threads
  BY DEF Threads
<1>1. CASE QueuePoll
  <2>1. PICK s \in {"delay", "queueWait"} : Goes("queue", s)
    BY <1>1 DEF QueuePoll
  <2> DEFINE h == [Idle EXCEPT !.at = s]
  <2>2. thread["queue"] = Idle
    BY <1>0, <1>1, HasJob DEF QueuePoll, At
  <2>3. thread' = [thread EXCEPT !["queue"] = h]
    BY <2>1, <2>2 DEF Goes
  <2>4. h \in ThreadRecs /\ h.at = s /\ h.job = NoJob /\ h.child = NoProc
    BY DEF Idle, ThreadRecs, ThreadSteps
  <2>5. ThreadOK("queue", h)
    BY <2>4, ControlAssumption DEF ThreadOK, StepsOf, JobFree
  <2> QED
    BY <1>0, <1>1, <2>3, <2>5, ThreadChanges, TableUnchanged DEF QueuePoll, ServerOnly,
       ProcsOK, ServerOK
<1>2. {"claimResume", "claimed"} \subseteq StepsOf("queue") \ (JobFree \cup {"record"})
  BY DEF StepsOf, LaunchSteps, JobFree
<1>3. CASE QueueResume
  <2>1. \/ Stops("queue")
        \/ \E j \in Jobs : Takes("queue", "claimResume", j, FALSE)
    BY <1>3 DEF QueueResume
  <2>2. ThreadsOK'
    BY <1>0, <1>2, <2>1, StopsOK, TakesOK
  <2> QED
    BY <1>3, <2>2, TableUnchanged DEF QueueResume, ServerOnly, ProcsOK, ServerOK
<1>4. CASE QueueClaimResume
  <2>1. thread["queue"].job \in Jobs /\ ~At("queue", "record")
    BY <1>0, <1>4, HasJob DEF QueueClaimResume, At
  <2>2. \/ Stops("queue") /\ UNCHANGED tableVars
        \/ ClaimResume(thread["queue"].job) /\ Goes("queue", "claimed")
    BY <1>4 DEF QueueClaimResume
  <2>3. ThreadsOK'
    BY <1>0, <1>2, <2>1, <2>2, StopsOK, GoesOK
  <2>4. TableTypeOK'
    BY <2>1, <2>2, TableStatements, TableUnchanged
  <2> QED
    BY <1>4, <2>3, <2>4 DEF QueueClaimResume, ServerOnly, ProcsOK, ServerOK
<1>5. CASE QueueClaim
  <2>1. \/ Stops("queue") /\ UNCHANGED tableVars
        \/ \E j \in Jobs : ClaimNextPending(j) /\ Takes("queue", "claimed", j, TRUE)
    BY <1>5 DEF QueueClaim
  <2>2. ThreadsOK'
    BY <1>0, <1>2, <2>1, StopsOK, TakesOK
  <2>3. TableTypeOK'
    BY <2>1, TableStatements, TableUnchanged
  <2> QED
    BY <1>5, <2>2, <2>3 DEF QueueClaim, ServerOnly, ProcsOK, ServerOK
<1> QED
  BY <1>1, <1>3, <1>4, <1>5 DEF Queue

LEMMA OperatorType ==
    ASSUME TypeInv, Operator
    PROVE  TypeInv'
<1> USE DEF TypeInv
<1>0. /\ "ui" \in Threads
      /\ {"claimed", "sweep", "read"} \subseteq StepsOf("ui") \ (JobFree \cup {"record"})
  BY DEF Threads, StepsOf, LaunchSteps, RecoverSteps, JobFree
<1>1. ASSUME NEW n \in 1 .. 2, Create(n)
      PROVE  TypeInv'
  <2>1. PICK j \in Jobs :
           /\ CreateJobs(j, n)
           /\ IF Active = {} THEN \E s \in {"claimed", "sweep"} : Takes("ui", s, j, TRUE)
              ELSE UNCHANGED thread
    BY <1>1 DEF Create
  <2>2. ThreadsOK'
    BY <1>0, <2>1, TakesOK DEF ThreadsOK, ThreadOK
  <2> QED
    BY <1>1, <2>1, <2>2, CreateJobsType DEF Create, ServerOnly, ProcsOK, ServerOK
<1>2. ASSUME NEW j \in Jobs, PauseJob(j) \/ RemoveJob(j)
      PROVE  TypeInv'
  BY <1>2, TableStatements
     DEF PauseJob, RemoveJob, ServerOnly, ThreadsOK, ThreadOK, ProcsOK, ServerOK
<1>3. ASSUME NEW j \in Jobs, ResumeJob(j) \/ StartPending(j)
      PROVE  TypeInv'
  BY <1>0, <1>3, TableStatements, TakesOK DEF ResumeJob, StartPending, ServerOnly, ProcsOK,
     ServerOK
<1>4. ASSUME NEW j \in Jobs, RecoverJob(j)
      PROVE  TypeInv'
  BY <1>0, <1>4, TableUnchanged, TakesOK DEF RecoverJob, ServerOnly, ProcsOK, ServerOK
<1>5. CASE SetSchedulerPaused
  BY <1>5, TableUnchanged DEF SetSchedulerPaused, ThreadsOK, ThreadOK, ProcsOK, ServerOK
<1> QED
  BY <1>1, <1>2, <1>3, <1>4, <1>5 DEF Operator

LEMMA BootCarries ==
    ASSUME ThreadsOK, NEW h \in ThreadRecs, thread' = [thread EXCEPT !["boot"] = h],
           h.at \in {"recoverAll", "read"}, h.at = "read" => h.job \in Jobs,
           h.child = thread["boot"].child
    PROVE  ThreadsOK'
<1>0. "boot" \in Threads
  BY DEF Threads
<1>1. h.child \notin Procs
  BY <1>0, HasJob, WhoseSteps
<1>2. h.at \in StepsOf("boot")
  BY DEF StepsOf, RecoverSteps
<1>3. ThreadOK("boot", h)
  BY <1>1, <1>2 DEF ThreadOK, JobFree, BootSteps
<1> QED
  BY <1>0, <1>3, ThreadChanges

LEMMA ServerType ==
    ASSUME TypeInv, ServerDies \/ Server
    PROVE  TypeInv'
<1> USE DEF TypeInv
<1>0. "boot" \in Threads
  BY DEF Threads
<1>1. CASE ServerDies
  <2>1. ThreadsOK'
    BY <1>1, IdleOK DEF ServerDies, ThreadsOK, ThreadOK
  <2>2. ProcsOK'
    BY <1>1 DEF ServerDies, ProcsOK, ProcRecs, NoProcess, Exits
  <2>3. ServerOK'
    BY <1>1, ControlAssumption DEF ServerDies, ServerOK
  <2> QED
    BY <1>1, <2>1, <2>2, <2>3, TableUnchanged DEF ServerDies
<1>3. thread["boot"] \in ThreadRecs
  BY <1>0, HasJob
<1>4. CASE ServerBoots
  <2> DEFINE todo == {<<j, NoProc>> : j \in Active}
             h == [thread["boot"] EXCEPT !.at = "recoverAll", !.todo = todo]
  <2>1. thread' = [thread EXCEPT !["boot"] = h]
    BY <1>4 DEF ServerBoots
  <2>2. todo \in SUBSET (Jobs \X (Procs \cup {NoProc}))
    BY DEF Active, With
  <2>3. ThreadsOK'
    <3>1. h \in ThreadRecs /\ h.at = "recoverAll" /\ h.child = thread["boot"].child
      BY <1>3, <2>2 DEF ThreadRecs, ThreadSteps
    <3> QED
      BY <2>1, <3>1, BootCarries
  <2> QED
    BY <1>4, <2>3, TableUnchanged DEF ServerBoots, ProcsOK, ServerOK
<1>5. CASE BootNext
  <2>1. CASE thread["boot"].todo = {}
    <3>1. Goes("boot", "sweep") /\ ~At("boot", "record")
      BY <1>5, <2>1 DEF BootNext, At
    <3>2. "sweep" \in StepsOf("boot") \ (JobFree \cup {"record"}) /\ "sweep" \in BootSteps
      BY DEF StepsOf, JobFree, BootSteps
    <3>3. ThreadsOK'
      BY <1>0, <3>1, <3>2, GoesOK
    <3> QED
      BY <1>5, <3>3, TableUnchanged DEF BootNext, ServerOnly, ProcsOK, ServerOK
  <2>2. CASE thread["boot"].todo # {}
    <3>1. PICK r \in thread["boot"].todo :
             thread' = [thread EXCEPT !["boot"].at = "read", !["boot"].job = r[1],
                                      !["boot"].todo = @ \ {r}]
      BY <1>5, <2>2 DEF BootNext
    <3> DEFINE h == [thread["boot"] EXCEPT !.at = "read", !.job = r[1], !.todo = @ \ {r}]
    <3>2. thread' = [thread EXCEPT !["boot"] = h]
      BY <3>1
    <3>3. /\ h \in ThreadRecs /\ h.at = "read" /\ h.child = thread["boot"].child
          /\ h.job \in Jobs
      BY <1>3 DEF ThreadRecs, ThreadSteps, RecoverSteps
    <3>4. ThreadsOK'
      BY <3>2, <3>3, BootCarries
    <3> QED
      BY <1>5, <3>4, TableUnchanged DEF BootNext, ServerOnly, ProcsOK, ServerOK
  <2> QED
    BY <2>1, <2>2
<1> QED
  BY <1>1, <1>4, <1>5 DEF Server

-----------------------------------------------------------------------------
(* The scraper processes. *)

\* A process moves itself and, if at all, the row of its job.
ProcMoves(p) ==
    /\ Alive(p) /\ proc[p].job \in Jobs
    /\ proc' \in [Procs -> ProcRecs]
    /\ \A q \in Procs \ {p} : proc'[q] = proc[q]
    /\ proc'[p].job = proc[p].job /\ proc'[p].at # "none"
    /\ proc'[p].exit = "swept" => proc[p].exit = "swept"
    /\ UNCHANGED <<server, schedPaused, thread, registry, stalls, abandoned>>

LEMMA ProcGoesMoves ==
    ASSUME ProcsOK, NEW p \in Procs, NEW s \in AliveSteps, Alive(p), ProcGoes(p, s)
    PROVE  ProcMoves(p) /\ proc'[p].at = s
<1>1. proc[p].job \in Jobs /\ proc \in [Procs -> ProcRecs]
  BY DEF ProcsOK, Alive, AliveSteps
<1>2. proc' = [proc EXCEPT ![p] = [proc[p] EXCEPT !.at = s]]
  BY DEF ProcGoes
<1>3. /\ [proc[p] EXCEPT !.at = s] \in ProcRecs
      /\ [proc[p] EXCEPT !.at = s].job = proc[p].job
      /\ [proc[p] EXCEPT !.at = s].at = s /\ [proc[p] EXCEPT !.at = s].exit = proc[p].exit
  BY <1>1 DEF ProcRecs
<1> QED
  BY <1>1, <1>2, <1>3 DEF ProcMoves, ProcGoes, AliveSteps

LEMMA ProcExitsMoves ==
    ASSUME ProcsOK, NEW p \in Procs, NEW e \in Exits \ {"swept"}, Alive(p), ProcExits(p, e)
    PROVE  ProcMoves(p) /\ proc'[p].at = "dead" /\ proc'[p].exit = e
<1>1. proc[p].job \in Jobs /\ proc \in [Procs -> ProcRecs]
  BY DEF ProcsOK, Alive, AliveSteps
<1> DEFINE h == [proc[p] EXCEPT !.at = "dead", !.exit = e]
<1>2. proc' = [proc EXCEPT ![p] = h]
  BY DEF ProcExits
<1>3. h \in ProcRecs /\ h.job = proc[p].job /\ h.at = "dead" /\ h.exit = e
  BY <1>1 DEF ProcRecs
<1> QED
  BY <1>1, <1>2, <1>3 DEF ProcMoves, ProcExits

LEMMA ProcessMoves ==
    ASSUME TypeInv, NEW p \in Procs, Process(p) \/ ProcessFault(p)
    PROVE  ProcMoves(p)
<1> DEFINE steps == {"discover", "work", "queued", "leave", "recovery", "stalled"}
<1>0. steps \subseteq AliveSteps /\ {"clean", "stall", "timeout", "error"} \subseteq Exits \ {"swept"}
  BY DEF AliveSteps, Exits
<1>1. \/ \E s \in steps : ProcGoes(p, s)
      \/ \E e \in {"clean", "stall", "timeout", "error"} : ProcExits(p, e)
  BY DEF Process, ProcessFault, Boot, Discovered, DiscoveryFails, StartQueued, Settle, PauseEnds,
     RunFails, RecoveryOver, StallExit, Leave, RecoveryWait, Stall, Timeout, Crash
<1>2. Alive(p)
  BY DEF Process, ProcessFault, Boot, Discovered, DiscoveryFails, StartQueued, Settle, PauseEnds,
     RunFails, RecoveryOver, StallExit, Leave, RecoveryWait, Stall, Timeout, Crash, ProcAt, Alive,
     AliveSteps
<1> QED
  BY <1>0, <1>1, <1>2, ProcGoesMoves, ProcExitsMoves DEF TypeInv

LEMMA ProcessType ==
    ASSUME TypeInv, NEW p \in Procs, Process(p) \/ ProcessFault(p)
    PROVE  TypeInv'
<1> DEFINE j == proc[p].job
<1>1. ProcMoves(p)
  BY ProcessMoves
<1>2. j \in Jobs /\ TableTypeOK
  BY <1>1 DEF ProcMoves, TypeInv
<1>4. ASSUME Settle(p) PROVE TableTypeOK'
  <2>1. PICK s \in {"done", "failed"} : SetStatus(j, s, FALSE)
    BY <1>4 DEF Settle
  <2>2. /\ urls' \in [Jobs -> {"none", "left", "settled"}]
        /\ pauseReq' \in [Jobs -> BOOLEAN]
    BY <1>2, <1>4 DEF Settle, TableTypeOK
  <2>3. s \in JobStatuses
    BY DEF JobStatuses
  <2> QED
    BY <1>2, <2>1, <2>2, <2>3, SetStatusType
<1>5. ASSUME RecoveryWait(p) PROVE TableTypeOK'
  <2>1. SetStatus(j, "paused", FALSE)
    BY <1>5 DEF RecoveryWait
  <2>2. /\ urls' \in [Jobs -> {"none", "left", "settled"}]
        /\ pauseReq' \in [Jobs -> BOOLEAN]
    BY <1>2, <1>5 DEF RecoveryWait, TableTypeOK, Exists
  <2>3. "paused" \in JobStatuses
    BY DEF JobStatuses
  <2> QED
    BY <1>2, <2>1, <2>2, <2>3, SetStatusType
<1>6. ASSUME \/ Boot(p) \/ Discovered(p) \/ DiscoveryFails(p) \/ StartQueued(p)
             \/ PauseEnds(p) \/ RunFails(p) \/ RecoveryOver(p) \/ StallExit(p) \/ Leave(p)
             \/ Stall(p) \/ Timeout(p) \/ Crash(p)
      PROVE  TableTypeOK'
  <2>1. \/ UNCHANGED tableVars \/ StartJob(j)
        \/ \E found \in {"left", "none"} : QueueStartingURLs(j, found)
        \/ \E s \in {"paused", "blocked", "failed"} : SetJobStatus(j, s, FALSE)
    BY <1>6 DEF Boot, Discovered, DiscoveryFails, StartQueued, PauseEnds, RunFails, RecoveryOver,
       StallExit, Leave, Stall, Timeout, Crash
  <2>2. ASSUME NEW s \in {"paused", "blocked", "failed"}, SetJobStatus(j, s, FALSE)
        PROVE  TableTypeOK'
    <3>1. s \in JobStatuses /\ FALSE \in BOOLEAN
      BY DEF JobStatuses
    <3> QED
      BY <1>2, <2>2, <3>1, TableStatements
  <2> QED
    BY <1>2, <2>1, <2>2, TableStatements, TableUnchanged
<1>7. TableTypeOK'
  BY <1>4, <1>5, <1>6 DEF Process, ProcessFault
<1>8. ThreadsOK' /\ ServerOK'
  BY <1>1 DEF ProcMoves, TypeInv, ThreadsOK, ThreadOK, ServerOK
<1>9. ProcsOK'
  BY <1>1 DEF ProcMoves, TypeInv, ProcsOK
<1> QED
  BY <1>7, <1>8, <1>9 DEF TypeInv

-----------------------------------------------------------------------------
(* What each action does to its goroutine, in three words: it goes from one *)
(* step to another with its job, it ends, or it begins with a job.          *)

Others(t) == \A u \in Threads \ {t} : thread'[u] = thread[u]

Moves(t, from, to) ==
    /\ At(t, from) /\ thread'[t].at = to
    /\ thread'[t].job = thread[t].job /\ thread'[t].start = thread[t].start
    /\ Others(t)

Ends(t, from) == At(t, from) /\ thread'[t] = Idle /\ Others(t)

Begins(t, from, to, j, b) ==
    /\ At(t, from)
    /\ thread'[t].at = to /\ thread'[t].job = j /\ thread'[t].start = b
    /\ Others(t)

LEMMA GoesMoves ==
    ASSUME ThreadsOK, NEW t \in Threads, NEW from, NEW to, At(t, from), Goes(t, to)
    PROVE  Moves(t, from, to) /\ thread'[t].todo = thread[t].todo
  BY DEF ThreadsOK, ThreadRecs, Goes, Moves, Others

LEMMA StopsEnds ==
    ASSUME ThreadsOK, NEW t \in Threads, NEW from, At(t, from), Stops(t)
    PROVE  Ends(t, from)
  BY DEF ThreadsOK, Stops, Ends, Others

LEMMA TakesBegins ==
    ASSUME ThreadsOK, NEW t \in Threads, NEW from, NEW to, NEW j, NEW b,
           At(t, from), Takes(t, to, j, b)
    PROVE  Begins(t, from, to, j, b)
  BY DEF ThreadsOK, Takes, Begins, Others, Idle

LEMMA LaunchMoves ==
    ASSUME ThreadsOK, NEW t \in Threads
    PROVE  /\ ClaimRead(t) => Moves(t, "claimed", "sweep")
           /\ ClaimReadFails(t) => Ends(t, "claimed")
           /\ SweepList(t) => Moves(t, "sweep", "kill")
           /\ SweepRow(t) => Moves(t, "kill", "kill")
           /\ SweepDone(t) => IF t = "boot" THEN Ends(t, "kill") ELSE Moves(t, "kill", "spawn")
           /\ SpawnOK(t) => Moves(t, "spawn", "record")
           /\ SpawnFails(t) => Ends(t, "spawn")
<1>0. thread \in [Threads -> ThreadRecs]
  BY DEF ThreadsOK
<1>1. SweepList(t) => Moves(t, "sweep", "kill")
  BY <1>0 DEF SweepList, Moves, Others, ThreadRecs, At
<1>2. SweepRow(t) => Moves(t, "kill", "kill")
  BY <1>0 DEF SweepRow, Moves, Others, ThreadRecs, At
<1>3. SpawnOK(t) => Moves(t, "spawn", "record")
  BY <1>0 DEF SpawnOK, Moves, Others, ThreadRecs, At
<1>4. SweepDone(t) => IF t = "boot" THEN Ends(t, "kill") ELSE Moves(t, "kill", "spawn")
  BY StopsEnds, GoesMoves DEF SweepDone
<1>5. SpawnFails(t) => Ends(t, "spawn")
  BY StopsEnds DEF SpawnFails
<1>6. ClaimRead(t) => Moves(t, "claimed", "sweep")
  BY GoesMoves DEF ClaimRead
<1>7. ClaimReadFails(t) => Ends(t, "claimed")
  BY StopsEnds DEF ClaimReadFails
<1> QED
  BY <1>1, <1>2, <1>3, <1>4, <1>5, <1>6, <1>7

LEMMA RecoverMoves ==
    ASSUME ThreadsOK, NEW t \in Threads
    PROVE  /\ RecoverRead(t) =>
                 \/ thread[t].job \in Active /\ Moves(t, "read", "write")
                 \/ /\ thread[t].job \notin Active
                    /\ IF t = "ui" THEN Ends(t, "read") ELSE Moves(t, "read", AfterRecovery(t))
           /\ RecoverWrite(t) => Moves(t, "write", "unpause")
           /\ RecoverUnpause(t) =>
                 IF t = "ui" THEN Ends(t, "unpause") ELSE Moves(t, "unpause", AfterRecovery(t))
           /\ RecoverFails(t) => \E from \in {"read", "write"} :
                 IF t = "ui" THEN Ends(t, from) ELSE Moves(t, from, AfterFailure(t))
<1>0. thread \in [Threads -> ThreadRecs]
  BY DEF ThreadsOK
<1>1. ASSUME RecoverRead(t), thread[t].job \in Active
      PROVE  Moves(t, "read", "write")
  BY <1>0, <1>1 DEF RecoverRead, Moves, Others, ThreadRecs, At
<1>2. ASSUME RecoverRead(t), thread[t].job \notin Active
      PROVE  IF t = "ui" THEN Ends(t, "read") ELSE Moves(t, "read", AfterRecovery(t))
  BY <1>2, StopsEnds, GoesMoves DEF RecoverRead
<1>3. RecoverWrite(t) => Moves(t, "write", "unpause")
  BY GoesMoves DEF RecoverWrite
<1>4. RecoverUnpause(t) =>
         IF t = "ui" THEN Ends(t, "unpause") ELSE Moves(t, "unpause", AfterRecovery(t))
  BY StopsEnds, GoesMoves DEF RecoverUnpause
<1>5. ASSUME RecoverFails(t)
      PROVE  \E from \in {"read", "write"} :
                IF t = "ui" THEN Ends(t, from) ELSE Moves(t, from, AfterFailure(t))
  BY <1>5, StopsEnds, GoesMoves DEF RecoverFails, At
<1> QED
  BY <1>1, <1>2, <1>3, <1>4, <1>5

LEMMA WaiterMoves ==
    ASSUME ThreadsOK, NEW p \in Procs
    PROVE  /\ Reap(p) => Moves(p, "wait", "read")
           /\ Drop(p) => Moves(p, "drop", "restartDelay") \/ Ends(p, "drop")
           /\ StallResume(p) =>
                 \/ ClaimResume(thread[p].job) /\ Moves(p, "restartDelay", "claimed")
                 \/ UNCHANGED tableVars /\ Ends(p, "restartDelay")
<1>0. p \in Threads
  BY DEF Threads
<1> QED
  BY <1>0, StopsEnds, GoesMoves DEF Reap, Drop, StallResume

LEMMA QueueMovesTo ==
    ASSUME ThreadsOK
    PROVE  /\ QueuePoll => \E s \in {"delay", "queueWait"} : Moves("queue", "idle", s)
           /\ QueueResume =>
                 \/ \E j \in Jobs : /\ NextTimeout(j) /\ DelayOver(j)
                                   /\ Begins("queue", "delay", "claimResume", j, FALSE)
                 \/ Ends("queue", "delay")
           /\ QueueClaimResume =>
                 \/ ClaimResume(thread["queue"].job) /\ Moves("queue", "claimResume", "claimed")
                 \/ UNCHANGED tableVars /\ Ends("queue", "claimResume")
           /\ QueueClaim =>
                 \/ \E j \in Jobs : ClaimNextPending(j) /\ Begins("queue", "queueWait", "claimed", j, TRUE)
                 \/ UNCHANGED tableVars /\ Ends("queue", "queueWait")
<1>0. "queue" \in Threads
  BY DEF Threads
<1>1. QueuePoll => \E s \in {"delay", "queueWait"} : Moves("queue", "idle", s)
  BY <1>0, GoesMoves DEF QueuePoll
<1>2. QueueResume =>
         \/ \E j \in Jobs : /\ NextTimeout(j) /\ DelayOver(j)
                           /\ Begins("queue", "delay", "claimResume", j, FALSE)
         \/ Ends("queue", "delay")
  BY <1>0, StopsEnds, TakesBegins DEF QueueResume
<1>3. QueueClaimResume =>
         \/ ClaimResume(thread["queue"].job) /\ Moves("queue", "claimResume", "claimed")
         \/ UNCHANGED tableVars /\ Ends("queue", "claimResume")
  BY <1>0, StopsEnds, GoesMoves DEF QueueClaimResume
<1>4. QueueClaim =>
         \/ \E j \in Jobs : ClaimNextPending(j) /\ Begins("queue", "queueWait", "claimed", j, TRUE)
         \/ UNCHANGED tableVars /\ Ends("queue", "queueWait")
  BY <1>0, StopsEnds, TakesBegins DEF QueueClaim
<1> QED
  BY <1>1, <1>2, <1>3, <1>4

\* Handlers that launch nothing leave the goroutines alone.
LEMMA OperatorMoves ==
    ASSUME ThreadsOK, NEW j \in Jobs
    PROVE  /\ \A n \in 1 .. 2 : Create(n) =>
                 \E k \in Jobs :
                    /\ CreateJobs(k, n)
                    /\ IF Active = {}
                       THEN \E s \in {"claimed", "sweep"} : Begins("ui", "idle", s, k, TRUE)
                       ELSE UNCHANGED thread
           /\ ResumeJob(j) => ClaimResume(j) /\ Begins("ui", "idle", "claimed", j, FALSE)
           /\ StartPending(j) => ClaimPending(j) /\ Begins("ui", "idle", "claimed", j, TRUE)
           /\ RecoverJob(j) => UNCHANGED tableVars /\ Begins("ui", "idle", "read", j, FALSE)
<1>0. "ui" \in Threads
  BY DEF Threads
<1>1. ASSUME NEW n \in 1 .. 2, Create(n)
      PROVE  \E k \in Jobs :
                /\ CreateJobs(k, n)
                /\ IF Active = {}
                       THEN \E s \in {"claimed", "sweep"} : Begins("ui", "idle", s, k, TRUE)
                       ELSE UNCHANGED thread
  BY <1>0, <1>1, TakesBegins DEF Create, Handles
<1>2. ResumeJob(j) => ClaimResume(j) /\ Begins("ui", "idle", "claimed", j, FALSE)
  BY <1>0, TakesBegins DEF ResumeJob, Handles
<1>3. StartPending(j) => ClaimPending(j) /\ Begins("ui", "idle", "claimed", j, TRUE)
  BY <1>0, TakesBegins DEF StartPending, Handles
<1>4. RecoverJob(j) => UNCHANGED tableVars /\ Begins("ui", "idle", "read", j, FALSE)
  BY <1>0, TakesBegins DEF RecoverJob, Handles
<1> QED
  BY <1>1, <1>2, <1>3, <1>4

LEMMA BootMoves ==
    ASSUME ThreadsOK, BootNext
    PROVE  \/ thread["boot"].todo = {} /\ Moves("boot", "recoverAll", "sweep")
           \/ \E r \in thread["boot"].todo :
                 /\ At("boot", "recoverAll")
                 /\ thread'["boot"].at = "read" /\ thread'["boot"].job = r[1]
                 /\ thread'["boot"].todo = thread["boot"].todo \ {r}
                 /\ Others("boot")
<1>0. "boot" \in Threads /\ thread \in [Threads -> ThreadRecs] /\ At("boot", "recoverAll")
  BY DEF Threads, ThreadsOK, BootNext
<1>1. CASE thread["boot"].todo = {}
  BY <1>0, <1>1, GoesMoves DEF BootNext
<1>2. CASE thread["boot"].todo # {}
  <2>1. PICK r \in thread["boot"].todo :
           thread' = [thread EXCEPT !["boot"].at = "read", !["boot"].job = r[1],
                                    !["boot"].todo = @ \ {r}]
    BY <1>2 DEF BootNext
  <2> QED
    BY <1>0, <2>1 DEF Others, ThreadRecs
<1> QED
  BY <1>1, <1>2

-----------------------------------------------------------------------------
(* What each statement does to the status of a job. *)

Sets(j, s, b) ==
    \A k \in Jobs : /\ status'[k] = IF k = j THEN s ELSE status[k]
                    /\ timedOut'[k] = IF k = j THEN b ELSE timedOut[k]

\* An UPDATE by id: no row, no change.
Writes(j, s, b) == IF Exists(j) THEN Sets(j, s, b) ELSE UNCHANGED <<status, timedOut>>

LEMMA SetStatusWrites ==
    ASSUME TableTypeOK, NEW j \in Jobs, NEW s, NEW b, SetStatus(j, s, b)
    PROVE  Writes(j, s, b)
  BY DEF TableTypeOK, SetStatus, Writes, Sets

LEMMA StatementWrites ==
    ASSUME TableTypeOK, NEW j \in Jobs
    PROVE  /\ StartJob(j) => Writes(j, "running", FALSE)
           /\ ClaimNextPending(j) \/ ClaimPending(j) =>
                 status[j] = "pending" /\ Active = {} /\ Sets(j, "starting", FALSE)
           /\ ClaimResume(j) =>
                 Resumable(j) /\ \E s \in {"starting", "running"} : Sets(j, s, FALSE)
           /\ DeleteJob(j) => Deletable(j) /\ Sets(j, "gone", FALSE)
           /\ RequestPause(j) \/ Unpause(j) => UNCHANGED <<status, timedOut>>
<1>1. ASSUME NEW s, Activate(j, s)
      PROVE  Writes(j, s, FALSE)
  BY <1>1, SetStatusWrites DEF Activate
<1>2. StartJob(j) => Writes(j, "running", FALSE)
  BY <1>1 DEF StartJob
<1>3. ClaimNextPending(j) \/ ClaimPending(j) =>
         status[j] = "pending" /\ Active = {} /\ Sets(j, "starting", FALSE)
  BY <1>1 DEF ClaimNextPending, ClaimPending, NextPending, Writes, Exists, JobStatuses
<1>4. ClaimResume(j) =>
         Resumable(j) /\ \E s \in {"starting", "running"} : Sets(j, s, FALSE)
  BY <1>1 DEF ClaimResume, Resumable, Writes
<1>5. DeleteJob(j) => Deletable(j) /\ Sets(j, "gone", FALSE)
  BY DEF DeleteJob, Sets, TableTypeOK
<1>6. RequestPause(j) \/ Unpause(j) => UNCHANGED <<status, timedOut>>
  BY DEF RequestPause, Unpause
<1> QED
  BY <1>2, <1>3, <1>4, <1>5, <1>6

LEMMA CreateWrites ==
    ASSUME TableTypeOK, NEW first \in Jobs, NEW n \in 1 .. 2, CreateJobs(first, n)
    PROVE  /\ UNCHANGED timedOut
           /\ status[first] = "none"
           /\ \A k \in Jobs :
                 \/ status'[k] = status[k]
                 \/ /\ status[k] = "none"
                    /\ status'[k] = IF k = first /\ Active = {} THEN "starting" ELSE "pending"
           /\ status'[first] = IF Active = {} THEN "starting" ELSE "pending"
<1> DEFINE new == first .. first + n - 1
<1>1. first \in new /\ \A k \in new : k >= first
  BY NumJobsAssumption DEF Jobs
<1>2. /\ \A j \in Jobs : status[j] = "none" <=> j >= first
      /\ new \subseteq Jobs
      /\ status' = [j \in Jobs |-> IF j \notin new THEN status[j]
                                   ELSE IF j \in (IF Active = {} THEN {first} ELSE {})
                                        THEN "starting" ELSE "pending"]
      /\ UNCHANGED timedOut
  BY DEF CreateJobs
<1>3. \A k \in new : status[k] = "none"
  BY <1>1, <1>2
<1> QED
  BY <1>1, <1>2, <1>3

\* A process's step: where it goes, and what becomes of its row.
Row(p, s) == Writes(proc[p].job, s, FALSE)

NoRow == UNCHANGED <<status, timedOut>>

ProcStep(p, from, to) == ProcAt(p, from) /\ proc'[p].at = to /\ proc'[p].exit = proc[p].exit

ProcEnd(p, e) == Alive(p) /\ proc'[p].at = "dead" /\ proc'[p].exit = e /\ NoRow

ProcessRow(p) ==
    \/ ProcEnd(p, "error") /\ ((ProcAt(p, "boot") /\ ~Exists(proc[p].job)) \/ "crash" \in Faults)
    \/ ProcStep(p, "boot", "discover") /\ status[proc[p].job] = "starting" /\ NoRow
    \/ ProcStep(p, "boot", "work") /\ status[proc[p].job] # "starting" /\ Row(p, "running")
    \/ ProcStep(p, "discover", "queued") /\ status[proc[p].job] = "starting" /\ NoRow
    \/ ProcStep(p, "discover", "leave") /\ NoRow
    \/ ProcStep(p, "queued", "work") /\ Row(p, "running")
    \/ \E s \in {"done", "paused", "blocked", "failed"} : ProcStep(p, "work", "leave") /\ Row(p, s)
    \/ ProcStep(p, "work", "recovery") /\ "recovery" \in Faults /\ Row(p, "paused")
    \/ ProcStep(p, "recovery", "work") /\ Row(p, "running")
    \/ /\ ProcStep(p, "discover", "stalled") \/ ProcStep(p, "work", "stalled")
       /\ "stall" \in Faults /\ Row(p, "paused")
    \/ ProcAt(p, "stalled") /\ ProcEnd(p, "stall")
    \/ ProcAt(p, "leave") /\ ProcEnd(p, "clean")
    \/ ProcEnd(p, "timeout") /\ "timeout" \in Faults

LEMMA ProcessRows ==
    ASSUME TypeInv, NEW p \in Procs, Process(p) \/ ProcessFault(p)
    PROVE  ProcMoves(p) /\ ProcessRow(p)
<1> DEFINE j == proc[p].job
<1>0. /\ ProcMoves(p) /\ Alive(p) /\ j \in Jobs /\ TableTypeOK /\ proc \in [Procs -> ProcRecs]
  BY ProcessMoves DEF ProcMoves, TypeInv, ProcsOK
<1>1. ASSUME NEW from, NEW to, ProcAt(p, from), ProcGoes(p, to)
      PROVE  ProcStep(p, from, to)
  BY <1>0, <1>1 DEF ProcGoes, ProcStep, ProcRecs, ProcAt
<1>2. ASSUME NEW e, ProcExits(p, e), UNCHANGED tableVars
      PROVE  ProcEnd(p, e)
  BY <1>0, <1>2 DEF ProcExits, ProcEnd, ProcRecs, NoRow, tableVars
<1>3. UNCHANGED tableVars => NoRow
  BY DEF tableVars, NoRow
<1>4. StartJob(j) => Row(p, "running")
  BY <1>0, StatementWrites DEF Row
<1>5. ASSUME NEW s, SetStatus(j, s, FALSE)
      PROVE  Row(p, s)
  BY <1>0, <1>5, SetStatusWrites DEF Row
<1>6. CASE Boot(p)
  BY <1>0, <1>1, <1>2, <1>3, <1>4, <1>6 DEF Boot, ProcessRow
<1>7. CASE Discovered(p) \/ DiscoveryFails(p)
  <2>1. \A found \in {"left", "none"} :
           QueueStartingURLs(j, found) => status[j] = "starting" /\ NoRow
    BY DEF QueueStartingURLs, NoRow
  <2> QED
    BY <1>0, <1>1, <1>3, <1>7, <2>1 DEF Discovered, DiscoveryFails, ProcessRow
<1>8. CASE StartQueued(p) \/ RecoveryOver(p)
  BY <1>0, <1>1, <1>4, <1>8 DEF StartQueued, RecoveryOver, ProcessRow
<1>9. CASE Settle(p)
  <2>1. PICK s \in {"done", "failed"} : SetStatus(j, s, FALSE)
    BY <1>9 DEF Settle
  <2>2. ProcStep(p, "work", "leave") /\ Row(p, s)
    BY <1>1, <1>5, <1>9, <2>1 DEF Settle
  <2> QED
    BY <1>0, <2>2 DEF ProcessRow
<1>10. CASE PauseEnds(p) \/ RunFails(p)
  <2>1. PICK s \in {"paused", "blocked", "failed"} : SetStatus(j, s, FALSE)
    BY <1>10 DEF PauseEnds, RunFails, SetJobStatus
  <2>2. ProcStep(p, "work", "leave") /\ Row(p, s)
    BY <1>1, <1>5, <1>10, <2>1 DEF PauseEnds, RunFails
  <2> QED
    BY <1>0, <2>2 DEF ProcessRow
<1>11. CASE RecoveryWait(p)
  <2>1. ProcStep(p, "work", "recovery") /\ "recovery" \in Faults /\ Row(p, "paused")
    BY <1>1, <1>5, <1>11 DEF RecoveryWait
  <2> QED
    BY <1>0, <2>1 DEF ProcessRow
<1>12. CASE Stall(p)
  <2>1. /\ ProcStep(p, "discover", "stalled") \/ ProcStep(p, "work", "stalled")
        /\ "stall" \in Faults /\ Row(p, "paused")
    BY <1>1, <1>5, <1>12 DEF Stall, SetJobStatus, ProcAt
  <2> QED
    BY <1>0, <2>1 DEF ProcessRow
<1>13. CASE StallExit(p) \/ Leave(p) \/ Timeout(p) \/ Crash(p)
  BY <1>0, <1>2, <1>13 DEF StallExit, Leave, Timeout, Crash, ProcessRow
<1> QED
  BY <1>6, <1>7, <1>8, <1>9, <1>10, <1>11, <1>12, <1>13 DEF Process, ProcessFault

-----------------------------------------------------------------------------
LEMMA InitType == Init => TypeInv
<1> SUFFICES ASSUME Init PROVE TypeInv
  OBVIOUS
<1>1. TableTypeOK
  BY DEF Init, TableTypeOK, Created
<1>2. ThreadsOK
  BY IdleOK DEF Init, ThreadsOK, ThreadOK
<1>3. ProcsOK
  BY DEF Init, ProcsOK, ProcRecs, NoProcess, Exits
<1>4. ServerOK
  <2>1. 0 \in 0 .. MaxStallResumes
    BY ControlAssumption
  <2> QED
    BY <2>1 DEF Init, ServerOK
<1> QED
  BY <1>1, <1>2, <1>3, <1>4 DEF TypeInv

LEMMA NextType == TypeInv /\ [Next]_vars => TypeInv'
<1> SUFFICES ASSUME TypeInv, [Next]_vars PROVE TypeInv'
  OBVIOUS
<1>1. CASE UNCHANGED vars
  BY <1>1, TableUnchanged
     DEF vars, controlVars, TypeInv, ThreadsOK, ThreadOK, ProcsOK, ServerOK
<1> QED
  BY <1>1, LaunchType, RecoverType, WaiterType, QueueType, OperatorType, ServerType, ProcessType
     DEF Next

\* The goroutines, the processes, the registry and the table keep to their types,
\* whatever the operator asks for and whatever fails.
THEOREM ControlTypeCorrect == Spec => []TypeOK
<1>1. TypeInv => TypeOK
  BY DEF TypeInv, TypeOK, ThreadsOK, ThreadRecs, ProcsOK, ProcRecs, ServerOK
<1> QED
  BY <1>1, InitType, NextType, PTL DEF Spec

=============================================================================
