--------------------------- MODULE FeedDiscovery ---------------------------
(***************************************************************************)
(* How a job gets its URLs: the scraper process opens a feed for each      *)
(* query, collects the place URLs and queues them, while a monitor ends    *)
(* the process when a feed hangs (feed.go, feed_monitor.go, ensureJob and  *)
(* collectPlaceURLs of scraper.go).  The process may be killed at any      *)
(* step; the server then recovers the job and starts it again.             *)
(*                                                                         *)
(* Abstracted: the tab of the query (PagePool), the claims that follow     *)
(* (ScraperRun), the server's own threads (JobControl), the text of a URL. *)
(***************************************************************************)
EXTENDS Integers, SequencesExt

CONSTANTS
    Queries,     \* the queries of the job, in order
    Direct,      \* the direct URL of each place_id: query, a function
    Feed,        \* what the feed of a query may show: a set of URL sequences
    Distance,    \* how far off a URL's coordinates are, a function; not every URL has any
    Radius,      \* Config.Radius; 0 for none, or for a centre that cannot be read
    Langs,       \* the job's languages, in order
    Scraped,     \* the url and language pairs that DedupScope finds done
    Limit,       \* Config.Limit; 0 for none
    MaxDepth,    \* scrolls of a feed
    MaxLives     \* bound: processes of the job

URLs   == UNION {Range(f) : f \in UNION {Feed[q] : q \in Range(Queries)}} \cup Range(Direct)
Queued == [url : URLs, lang : Range(Langs)]

ASSUME FeedAssumption ==
    /\ DOMAIN Direct \subseteq Range(Queries)
    /\ DOMAIN Distance \subseteq URLs /\ Range(Distance) \subseteq Nat
    /\ Radius \in Nat
    /\ \A q \in Range(Queries) : <<>> \notin Feed[q]    \* extractPlaceURLs
    /\ Len(Langs) > 0 /\ IsInjective(Langs)             \* normalizeLangs
    /\ Limit \in Nat /\ MaxDepth \in Nat /\ MaxLives \in Nat \ {0}

VARIABLES
    fromCLI,     \* the job was not created by the server, but is by its process
    status,      \* jobs.status; "none" before CreateJob
    rows,        \* the job's job_urls, by position
    pc,          \* where the process is; "off" when there is none
    ended,       \* how the last process ended
    lives,       \* processes so far
    query,       \* the query in hand
    depth,       \* scrolls of its feed
    found,       \* feedURLs
    queued,      \* the collection that is to be queued
    tracker,     \* feedProgressTracker: active, and whether it is stale
    monitor,     \* where the monitor is
    cancelled    \* the process's context is done: a second signal

jobVars  == <<fromCLI, status, rows>>
feedVars == <<query, depth, found, queued>>
vars == <<jobVars, pc, ended, lives, feedVars, tracker, monitor, cancelled>>

Collecting == {"next", "acquire", "navigate", "wait", "scroll", "read", "give",
               "filter", "complete", "fail"}

\* What a start of the process finds in its memory.
Fresh ==
    /\ query' = 0 /\ depth' = 0 /\ found' = <<>> /\ queued' = <<>>
    /\ tracker' = [active |-> FALSE, stale |-> FALSE]

Init ==
    /\ fromCLI \in BOOLEAN
    /\ status = IF fromCLI THEN "none" ELSE "starting"
    /\ rows = <<>>
    /\ pc = "ensure" /\ ended = "no" /\ lives = 1
    /\ query = 0 /\ depth = 0 /\ found = <<>> /\ queued = <<>>
    /\ tracker = [active |-> FALSE, stale |-> FALSE]
    /\ monitor = "off" /\ cancelled = FALSE

-----------------------------------------------------------------------------
(* ensureJob and collectPlaceURLs. *)

Goes(from, to) == pc = from /\ pc' = to

Process == UNCHANGED <<ended, lives, cancelled>>

\* reportFeedProgress; a run without a job row has no tracker.
Reports == tracker' = IF status = "none" THEN tracker ELSE [tracker EXCEPT !.stale = FALSE]

Ensure ==
    /\ status \in {"none", "starting"} /\ Goes("ensure", "next")
    /\ IF status = "none"
       THEN UNCHANGED <<monitor, tracker>>
       ELSE monitor' = "watch" /\ tracker' = [active |-> TRUE, stale |-> FALSE]
    /\ Process /\ UNCHANGED <<jobVars, feedVars>>

\* A job that is not starting has its URLs: ResetInProgress and StartJob.
Resume ==
    /\ status \notin {"none", "starting"} /\ Goes("ensure", "run")
    /\ status' = "running"
    /\ Process /\ UNCHANGED <<fromCLI, rows, feedVars, tracker, monitor>>

\* GetJob, ResetInProgress or StartJob fails, for a process that was given a job.
EnsureFails ==
    /\ status # "none" /\ Goes("ensure", "return")
    /\ Process /\ UNCHANGED <<jobVars, feedVars, tracker, monitor>>

BeginQuery ==
    /\ query < Len(Queries) /\ Goes("next", "acquire")
    /\ query' = query + 1 /\ depth' = 0
    /\ tracker' = IF status = "none" THEN tracker ELSE [active |-> TRUE, stale |-> FALSE]
    /\ Process /\ UNCHANGED <<jobVars, found, queued, monitor>>

NoMoreQueries ==
    /\ query = Len(Queries) /\ Goes("next", "filter")
    /\ Process /\ UNCHANGED <<jobVars, feedVars, tracker, monitor>>

\* Without a page the whole collection fails.
AcquirePage(to) ==
    /\ Goes("acquire", to)
    /\ \/ to = "navigate" /\ Reports
       \/ to = "fail" /\ UNCHANGED tracker
    /\ Process /\ UNCHANGED <<jobVars, feedVars, monitor>>

Q == Queries[query]

\* ScrapeFeed and scrapePlaceID, until the document has what they wait for.
Navigate ==
    /\ Goes("navigate", "wait")
    /\ Reports
    /\ Process /\ UNCHANGED <<jobVars, feedVars, monitor>>

WaitFeed ==
    /\ Goes("wait", "scroll") /\ Q \notin DOMAIN Direct
    /\ Reports
    /\ Process /\ UNCHANGED <<jobVars, feedVars, monitor>>

Redirects ==
    /\ Goes("wait", "give")
    /\ \E f \in Feed[Q] : Len(f) = 1 /\ found' = found \o f
    /\ Reports
    /\ Process /\ UNCHANGED <<jobVars, query, depth, queued, monitor>>

\* A search with a single result redirects to its place, ...
SinglePlace == Redirects /\ Q \notin DOMAIN Direct

\* ... as a place ID does, which has no feed.
PlaceIDResolves == Redirects /\ Q \in DOMAIN Direct

Scroll ==
    /\ pc = "scroll" /\ depth < MaxDepth /\ depth' = depth + 1
    /\ Reports
    /\ Process /\ UNCHANGED <<jobVars, pc, query, found, queued, monitor>>

\* The height is what it was, or MaxDepth is reached, or the context is done.
EndOfFeed ==
    /\ Goes("scroll", "read")
    /\ Reports
    /\ Process /\ UNCHANGED <<jobVars, feedVars, monitor>>

ReadFeed ==
    /\ Goes("read", "give")
    /\ \E f \in Feed[Q] : found' = found \o f
    /\ Reports
    /\ Process /\ UNCHANGED <<jobVars, query, depth, queued, monitor>>

\* Mutant: the tracker is complete when the scrape of a feed returns an error.
FeedFailsCompletes ==
    /\ \E from \in {"navigate", "wait", "scroll", "read"} : Goes(from, "give")
    /\ found' = IF Q \in DOMAIN Direct THEN Append(found, Direct[Q]) ELSE found
    /\ tracker' = [tracker EXCEPT !.active = FALSE]
    /\ Process /\ UNCHANGED <<jobVars, query, depth, queued, monitor>>

\* An error, or a wall, in any stage costs the query; a place ID has its direct URL.
FeedFails ==
    /\ \E from \in {"navigate", "wait", "scroll", "read"} : Goes(from, "give")
    /\ found' = IF Q \in DOMAIN Direct THEN Append(found, Direct[Q]) ELSE found
    /\ Reports
    /\ Process /\ UNCHANGED <<jobVars, query, depth, queued, monitor>>

\* releaseFeedPage; a retirement after an error may hang, and is not followed by a
\* report.
GivePage ==
    /\ Goes("give", "next")
    /\ Reports \/ UNCHANGED tracker
    /\ Process /\ UNCHANGED <<jobVars, feedVars, monitor>>

\* The first of each URL, in order.
Distinct(s) == FoldLeft(LAMBDA kept, u : IF Contains(kept, u) THEN kept ELSE Append(kept, u), <<>>, s)

\* What cannot be measured is kept.
Far(u) == u \in DOMAIN Distance /\ Radius > 0 /\ Distance[u] > Radius

WithinRadius(s) == SelectSeq(s, LAMBDA u : ~Far(u))

Limited(s) == IF Limit > 0 /\ Len(s) > Limit THEN SubSeq(s, 1, Limit) ELSE s

\* URL-major: all languages of a place are adjacent.
ExpandLangs(s) ==
    [i \in 1 .. Len(s) * Len(Langs) |->
        [url  |-> s[((i - 1) \div Len(Langs)) + 1],
         lang |-> Langs[((i - 1) % Len(Langs)) + 1]]]

FilterAlreadyScraped(s) == SelectSeq(s, LAMBDA x : x \notin Scraped)

\* Mutant: the limit is applied to the queue and not to the places.
CollectLimitingTasks(s) ==
    FilterAlreadyScraped(Limited(ExpandLangs(WithinRadius(Distinct(s)))))

Collect(s) == FilterAlreadyScraped(ExpandLangs(Limited(WithinRadius(Distinct(s)))))

Filter ==
    /\ Goes("filter", "complete")
    /\ queued' = Collect(found)
    /\ Process /\ UNCHANGED <<jobVars, query, depth, found, tracker, monitor>>

FilterFails ==
    /\ Goes("filter", "fail")
    /\ Process /\ UNCHANGED <<jobVars, feedVars, tracker, monitor>>

\* tracker.complete and close(monitorDone).
Complete ==
    /\ Goes("complete", "await") \/ Goes("fail", "awaitFail")
    /\ tracker' = [tracker EXCEPT !.active = FALSE]
    /\ Process /\ UNCHANGED <<jobVars, feedVars, monitor>>

\* Mutant: the monitor is not waited for.
AwaitNobody ==
    /\ Goes("await", "queue") \/ Goes("awaitFail", "return")
    /\ Process /\ UNCHANGED <<jobVars, feedVars, tracker, monitor>>

\* <-monitorStopped.
AwaitMonitor ==
    /\ monitor = "off"
    /\ Goes("await", "queue") \/ Goes("awaitFail", "return")
    /\ Process /\ UNCHANGED <<jobVars, feedVars, tracker, monitor>>

\* QueueStartingJobURLs, one transaction: UNIQUE(job_id, position) refuses a
\* second queue.
QueueURLs ==
    /\ Goes("queue", "start") /\ status = "starting"
    /\ rows = <<>> \/ queued = <<>>
    /\ rows' = rows \o queued
    /\ Process /\ UNCHANGED <<fromCLI, status, feedVars, tracker, monitor>>

\* A run without a row gets it together with its URLs, as a pending job.
CreateJob ==
    /\ Goes("queue", "start") /\ status = "none"
    /\ status' = "pending" /\ rows' = queued
    /\ Process /\ UNCHANGED <<fromCLI, feedVars, tracker, monitor>>

QueueRefused ==
    /\ Goes("queue", "return")
    /\ Process /\ UNCHANGED <<jobVars, feedVars, tracker, monitor>>

\* SetJobDiscoveryStats, whose error is ignored, and StartJob.
StartJob ==
    /\ Goes("start", "run") /\ status' = "running"
    /\ Process /\ UNCHANGED <<fromCLI, rows, feedVars, tracker, monitor>>

StartFails ==
    /\ Goes("start", "return")
    /\ Process /\ UNCHANGED <<jobVars, feedVars, tracker, monitor>>

Ends(how) ==
    /\ pc' = "off" /\ monitor' = "off" /\ ended' = how /\ cancelled' = FALSE
    /\ Fresh /\ UNCHANGED <<fromCLI, rows, lives>>

ReturnError == pc = "return" /\ Ends("error") /\ UNCHANGED status

-----------------------------------------------------------------------------
(* runFeedDiscoveryMonitor. *)

\* The time without progress exceeds StallTimeout.
GrowsStale ==
    /\ tracker.active /\ ~tracker.stale
    /\ tracker' = [tracker EXCEPT !.stale = TRUE]
    /\ Process /\ UNCHANGED <<jobVars, pc, feedVars, monitor>>

\* The snapshot; what follows does not look at the tracker again.
SeeStall ==
    /\ monitor = "watch" /\ tracker.active /\ tracker.stale
    /\ monitor' = "stalled"
    /\ tracker' = [tracker EXCEPT !.active = FALSE]
    /\ Process /\ UNCHANGED <<jobVars, pc, feedVars>>

\* SetJobStatus looks at nothing but the id; its error is only logged.
PauseStalled ==
    /\ monitor = "stalled" /\ monitor' = "exit"
    /\ status' \in {status, "paused"}
    /\ Process /\ UNCHANGED <<fromCLI, rows, pc, feedVars, tracker>>

StallExit == monitor = "exit" /\ Ends("stall") /\ UNCHANGED status

MonitorDone ==
    /\ monitor = "watch" /\ (cancelled \/ pc \in {"await", "awaitFail"})
    /\ monitor' = "off"
    /\ Process /\ UNCHANGED <<jobVars, pc, feedVars, tracker>>

-----------------------------------------------------------------------------
(* Around the process. *)

\* The first signal only asks for a pause.
SecondSignal ==
    /\ pc # "off" /\ ~cancelled /\ cancelled' = TRUE
    /\ UNCHANGED <<jobVars, pc, ended, lives, feedVars, tracker, monitor>>

Killed == pc # "off" /\ Ends("killed") /\ UNCHANGED status

\* RecoverStaleActiveJob, once the process is gone.
Recover ==
    /\ pc = "off" /\ status \in {"starting", "running"}
    /\ \/ status' = "paused"                                              \* or a timeout
       \/ status = "starting" /\ rows = <<>> /\ status' = "failed"
    /\ Process /\ UNCHANGED <<fromCLI, rows, pc, feedVars, tracker, monitor>>

Relaunch ==
    /\ pc = "off" /\ lives < MaxLives
    /\ pc' = "ensure" /\ ended' = "no" /\ lives' = lives + 1
    /\ UNCHANGED <<fromCLI, rows, feedVars, tracker, monitor, cancelled>>

\* Mutant: a resumed job is always put back into starting.
ClaimResumeStarting ==
    /\ status \in {"pending", "paused", "failed"} /\ status' = "starting"
    /\ Relaunch

\* ClaimResume: a job that has URLs goes on with them, ...
ClaimResume ==
    /\ status \in {"pending", "paused", "failed"}
    /\ status' = IF rows = <<>> THEN "starting" ELSE "running"
    /\ Relaunch

\* ... and ClaimPendingJob does not look for any.
ClaimPending ==
    /\ status = "pending" /\ status' = "starting"
    /\ Relaunch

Discover ==
    \/ Ensure \/ Resume \/ EnsureFails \/ BeginQuery \/ NoMoreQueries
    \/ Scroll \/ EndOfFeed \/ Filter \/ FilterFails \/ Complete \/ AwaitMonitor
    \/ QueueURLs \/ CreateJob \/ QueueRefused \/ StartJob \/ StartFails \/ ReturnError

\* The driver's calls.
Drive ==
    \/ \E to \in {"navigate", "fail"} : AcquirePage(to)
    \/ Navigate \/ WaitFeed \/ SinglePlace \/ PlaceIDResolves \/ ReadFeed \/ FeedFails \/ GivePage

Monitor == SeeStall \/ PauseStalled \/ StallExit \/ MonitorDone

Next ==
    \/ Discover \/ Drive \/ GrowsStale \/ Monitor
    \/ SecondSignal \/ Killed \/ Recover \/ ClaimResume \/ ClaimPending

Spec == Init /\ [][Next]_vars

\* Goroutines run and time passes; a call of the driver need never return, and
\* nobody has to kill, recover or resume anything.
Fairness == WF_vars(Discover) /\ WF_vars(Monitor) /\ WF_vars(GrowsStale)

FairSpec == Spec /\ Fairness

-----------------------------------------------------------------------------
(* Properties. *)

Wanted(u) == u \in Range(found) /\ ~Far(u)

\* The places that come before u among those wanted, each counted once.
Before(u) ==
    LET first(v) == CHOOSE i \in DOMAIN found : found[i] = v /\ \A j \in 1 .. i - 1 : found[j] # v
    IN  {v \in URLs : Wanted(v) /\ first(v) < first(u)}

\* What a process queues is what its queries found and nothing else: each place
\* once and in all its languages, but those outside the radius, those already
\* scraped in that language, and the places beyond -limit, which counts places
\* and not tasks; and a place ID always counts as found, whatever its page did.
QueueIsWhatWasFound ==
    [][rows' # rows =>
         /\ Range(rows') = {x \in Queued : /\ Wanted(x.url) /\ x \notin Scraped
                                           /\ Limit > 0 => Cardinality(Before(x.url)) < Limit}
         /\ IsInjective(rows')
         /\ \A q \in DOMAIN Direct : \E f \in Feed[q] \cup {<<Direct[q]>>} :
               Range(f) \subseteq Range(found)]_vars

\* A process that the monitor ends has queued nothing and has not started its
\* job: the feed is collected again when the job is resumed.  Were the monitor
\* to act on a snapshot after discovery is over, it would pause a job that runs,
\* or leave one running without a process.
StallLosesNothing == ended = "stall" => (fromCLI \/ rows = <<>>) /\ status # "running"

\* A job created by the server is only ever discovered while it has no URLs; a
\* second discovery would end in the refusal of its rows, each time.  (It does,
\* for a job whose own process died between CreateJob and StartJob, and which the
\* server's queue then claims.)
DiscoveredOnce ==
    ~fromCLI /\ pc \in Collecting \cup {"await", "queue"} => rows = <<>>

\* A discovery that has a monitor ends, whichever call of the driver hangs, unless
\* a second signal ends the monitor first.
DiscoveryEnds == pc \in Collecting /\ monitor = "watch" ~> pc \notin Collecting \/ cancelled

=============================================================================
