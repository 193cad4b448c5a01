------------------------------ MODULE JobTable ------------------------------
(***************************************************************************)
(* The `jobs` table as the control server, its queue and the scraper       *)
(* processes share it (gmaps/jobstore_jobs.go).  Each operator with a      *)
(* primed variable is one SQL statement, or one transaction; a Go function *)
(* of several statements is several actions in JobControl.  A job is named *)
(* by its place in creation order.                                         *)
(***************************************************************************)
EXTENDS Naturals, FiniteSets

CONSTANT NumJobs    \* bound: jobs ever created

ASSUME NumJobsAssumption == NumJobs \in Nat \ {0}

Jobs == 1 .. NumJobs

VARIABLES
    status,     \* jobs.status; "none" before the job exists, "gone" once deleted
    urls,       \* its job_urls: "none", "left" (some unsettled), or "settled"
    timedOut,   \* last_error is JobTimeoutError
    pauseReq,   \* jobs.pause_requested
    updated     \* the pairs <<k, j>> where k's updated_at is before j's

tableVars == <<status, urls, timedOut, pauseReq, updated>>

JobStatuses ==
    {"pending", "starting", "running", "done", "paused", "blocked", "failed"}

Created == {j \in Jobs : status[j] # "none"}

TableTypeOK ==
    /\ status \in [Jobs -> JobStatuses \cup {"none", "gone"}]
    /\ urls \in [Jobs -> {"none", "left", "settled"}]
    /\ timedOut \in [Jobs -> BOOLEAN]
    /\ pauseReq \in [Jobs -> BOOLEAN]
    /\ updated \subseteq Created \X Created
    /\ \A j, k \in Created : j # k => (<<j, k>> \in updated <=> <<k, j>> \notin updated)
    /\ \A j \in Created : <<j, j>> \notin updated

-----------------------------------------------------------------------------
(* Reads. *)

Exists(j) == status[j] \in JobStatuses

With(S) == {j \in Jobs : status[j] \in S}

Active == With({"starting", "running"})

\* The status of the row changed last, pending rows aside; done if there is none.
LastOutcome ==
    LET settled == With(JobStatuses \ {"pending"})
    IN  IF settled = {} THEN "done"
        ELSE status[CHOOSE j \in settled : \A k \in settled \ {j} : <<k, j>> \in updated]

\* Mutant: the queue does not wait for the active job.
NextPendingAnyTime(j) ==
    /\ status[j] = "pending" /\ \A k \in With({"pending"}) : j <= k

\* NextPendingJobAfterDone, and the subquery of ClaimNextPendingJob.
NextPending(j) ==
    /\ Active = {} /\ LastOutcome = "done"
    /\ status[j] = "pending" /\ \A k \in With({"pending"}) : j <= k

Timeouts == {j \in Jobs : status[j] = "paused" /\ timedOut[j] /\ urls[j] # "settled"}

\* Mutant: a job without URLs is not looked for.
NextTimeoutWithURLs(j) ==
    /\ Active = {} /\ urls[j] = "left"
    /\ j \in Timeouts /\ \A k \in Timeouts \ {j} : <<j, k>> \in updated

\* NextTimeoutPausedJob: the one updated longest ago.
NextTimeout(j) ==
    /\ Active = {}
    /\ j \in Timeouts /\ \A k \in Timeouts \ {j} : <<j, k>> \in updated

-----------------------------------------------------------------------------
(* Writes. *)

Touch(j) ==
    LET others == Created \ {j}
    IN  updated' = {p \in updated : p[1] # j /\ p[2] # j} \cup (others \X {j})

\* UPDATE of status, last_error and updated_at; no row, no change.
SetStatus(j, s, timeout) ==
    IF Exists(j)
    THEN /\ status' = [status EXCEPT ![j] = s]
         /\ timedOut' = [timedOut EXCEPT ![j] = timeout]
         /\ Touch(j)
    ELSE UNCHANGED <<status, timedOut, updated>>

SetJobStatus(j, s, timeout) == SetStatus(j, s, timeout) /\ UNCHANGED <<urls, pauseReq>>

\* UPDATE that also clears pause_requested and last_error.
Activate(j, s) ==
    /\ SetStatus(j, s, FALSE)
    /\ pauseReq' = [pauseReq EXCEPT ![j] = FALSE]
    /\ UNCHANGED urls

\* StartJob looks at nothing but the id.
StartJob(j) == Activate(j, "running")

\* ClaimNextPendingJob and ClaimPendingJob.
ClaimNextPending(j) == NextPending(j) /\ Activate(j, "starting")

ClaimPending(j) == status[j] = "pending" /\ Active = {} /\ Activate(j, "starting")

Resumable(j) == Exists(j) /\ status[j] \notin {"starting", "running", "done"}

ClaimResume(j) ==
    /\ Resumable(j)
    /\ Activate(j, IF urls[j] = "none" THEN "starting" ELSE "running")

\* Inserts the next n jobs; the first one starts at once if no job is active.
CreateJobs(first, n) ==
    LET new == first .. first + n - 1
        starts == IF Active = {} THEN {first} ELSE {}
    IN  /\ new \subseteq Jobs
        /\ \A j \in Jobs : status[j] = "none" <=> j >= first
        /\ status' = [j \in Jobs |-> IF j \notin new THEN status[j]
                                     ELSE IF j \in starts THEN "starting" ELSE "pending"]
        /\ updated' = updated \cup {p \in Jobs \X new : p[1] < p[2]}
        /\ UNCHANGED <<urls, timedOut, pauseReq>>

RequestPause(j) ==
    /\ Exists(j)
    /\ pauseReq' = [pauseReq EXCEPT ![j] = TRUE]
    /\ Touch(j)
    /\ UNCHANGED <<status, urls, timedOut>>

\* The statement of RecoverStaleActiveJob that leaves updated_at alone.
Unpause(j) ==
    /\ pauseReq' = [pauseReq EXCEPT ![j] = FALSE]
    /\ UNCHANGED <<status, urls, timedOut, updated>>

\* DeleteJob, with the cascade to job_urls.
Deletable(j) == Exists(j) /\ j \notin Active

DeleteJob(j) ==
    /\ Deletable(j)
    /\ status' = [status EXCEPT ![j] = "gone"]
    /\ urls' = [urls EXCEPT ![j] = "none"]
    /\ timedOut' = [timedOut EXCEPT ![j] = FALSE]
    /\ pauseReq' = [pauseReq EXCEPT ![j] = FALSE]
    /\ UNCHANGED updated

\* QueueStartingJobURLs: refused unless the job is starting; a URL that is
\* there already violates UNIQUE(job_id, position) and rolls it all back.
QueueStartingURLs(j, found) ==
    /\ status[j] = "starting" /\ (urls[j] = "none" \/ found = "none")
    /\ urls' = [urls EXCEPT ![j] = IF found = "none" THEN @ ELSE found]
    /\ Touch(j)
    /\ UNCHANGED <<status, timedOut, pauseReq>>

=============================================================================
