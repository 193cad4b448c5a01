------------------------------ MODULE JobStore ------------------------------
(***************************************************************************)
(* The rows one scrape job keeps in SQLite: its row of `jobs` and its rows *)
(* of `job_urls`.  Every operator below with a primed variable is one SQL  *)
(* statement of gmaps/jobstore_*.go.  SQLite serialises statements (and    *)
(* the store opens one connection), so each is atomic; a Go function that  *)
(* issues two statements is two actions in the modules that use this one.  *)
(* A queued URL is named by its position, 1..NumURLs.                      *)
(***************************************************************************)
EXTENDS Naturals

CONSTANT NumURLs    \* rows of job_urls, in position order

ASSUME NumURLsAssumption == NumURLs \in Nat \ {0}

VARIABLES
    jobStatus,        \* jobs.status
    pauseRequested,   \* jobs.pause_requested
    urlStatus,        \* job_urls.status, by position
    attempts          \* job_urls.attempts, by position

storeVars == <<jobStatus, pauseRequested, urlStatus, attempts>>

URLIDs == 1 .. NumURLs

JobStatuses ==
    {"pending", "starting", "running", "done", "paused", "blocked", "failed"}

URLStatuses == {"pending", "in_progress", "done", "failed"}

StoreTypeOK ==
    /\ jobStatus \in JobStatuses
    /\ pauseRequested \in BOOLEAN
    /\ urlStatus \in [URLIDs -> URLStatuses]
    /\ attempts \in [URLIDs -> Nat]

-----------------------------------------------------------------------------
(* Reads. *)

URLsWith(s) == {u \in URLIDs : urlStatus[u] = s}

\* Mutant: the subquery forgets the job's pause flag.
ClaimableWhilePaused(u) ==
    urlStatus[u] = "pending" /\ \A v \in URLsWith("pending") : u <= v

\* The subquery of ClaimNextURL: the pending row of lowest position, visible
\* only while no pause is requested.  It does not look at jobs.status.
Claimable(u) ==
    /\ ~pauseRequested
    /\ urlStatus[u] = "pending"
    /\ \A v \in URLIDs : urlStatus[v] = "pending" => u <= v

NothingClaimable == pauseRequested \/ URLsWith("pending") = {}

\* Mutant: only rows nobody has claimed count as work left.
VerdictOnQueue ==
    IF URLsWith("pending") # {} THEN "none"
    ELSE IF URLsWith("failed") # {} THEN "failed" ELSE "done"

\* The status a finished job gets from its JobStats, "none" while work is left.
Verdict ==
    IF URLsWith("pending") \cup URLsWith("in_progress") # {} THEN "none"
    ELSE IF URLsWith("failed") # {} THEN "failed" ELSE "done"

-----------------------------------------------------------------------------
(* Writes. *)

\* Mutant: the claim is counted and the row left as it was.
ClaimLeavesPending(u) ==
    /\ Claimable(u)
    /\ attempts' = [attempts EXCEPT ![u] = @ + 1]
    /\ UNCHANGED <<jobStatus, pauseRequested, urlStatus>>

ClaimNextURL(u) ==
    /\ Claimable(u)
    /\ urlStatus' = [urlStatus EXCEPT ![u] = "in_progress"]
    /\ attempts' = [attempts EXCEPT ![u] = @ + 1]
    /\ UNCHANGED <<jobStatus, pauseRequested>>

\* The three marks are unconditional: WHERE id = ?, whatever the row's status.
SetURLStatus(u, s) ==
    /\ urlStatus' = [urlStatus EXCEPT ![u] = s]
    /\ UNCHANGED <<jobStatus, pauseRequested, attempts>>

MarkURLDone(u) == SetURLStatus(u, "done")

\* Mutant: the UPDATE matches no row.
MarkNothing(u) == UNCHANGED storeVars

MarkURLFailed(u) == SetURLStatus(u, "failed")

RequeueURL(u) == SetURLStatus(u, "pending")

\* Mutant: the reset forgets `AND status = 'in_progress'`.
ResetEveryRow ==
    /\ urlStatus' = [u \in URLIDs |-> "pending"]
    /\ UNCHANGED <<jobStatus, pauseRequested, attempts>>

\* Every in_progress row of the job, whoever holds it.
ResetInProgress ==
    /\ urlStatus' = [u \in URLIDs |->
                        IF urlStatus[u] = "in_progress" THEN "pending"
                        ELSE urlStatus[u]]
    /\ UNCHANGED <<jobStatus, pauseRequested, attempts>>

SetJobStatus(s) ==
    /\ jobStatus' = s
    /\ UNCHANGED <<pauseRequested, urlStatus, attempts>>

StartJob ==
    /\ jobStatus' = "running"
    /\ pauseRequested' = FALSE
    /\ UNCHANGED <<urlStatus, attempts>>

RequestPause ==
    /\ pauseRequested' = TRUE
    /\ UNCHANGED <<jobStatus, urlStatus, attempts>>

ClearPause ==
    /\ pauseRequested' = FALSE
    /\ UNCHANGED <<jobStatus, urlStatus, attempts>>

=============================================================================
