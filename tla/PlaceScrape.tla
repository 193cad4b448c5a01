---------------------------- MODULE PlaceScrape ----------------------------
(***************************************************************************)
(* What the place workers do with the tabs of the pool: a claimed URL is   *)
(* scraped over HTTP or in a tab, by a goroutine of its own that drives    *)
(* the tab stage by stage under a watchdog (scraper.go, scraper_pages.go,  *)
(* place.go, place_http.go, rodpage.go).  The module adds the scraping to  *)
(* PagePool, whose actions it takes as they are: a worker that has a page  *)
(* scrapes with it, then gives it back or retires it.                      *)
(*                                                                         *)
(* A scrape gives up on two things that go on without it, after the tab is *)
(* back in the pool too: a navigation that has not committed in its time   *)
(* and a click past its ceiling.  They are parts of the state.             *)
(*                                                                         *)
(* Abstracted: what becomes of the URL's row (ScraperRun); what a click    *)
(* opens in its document; how often a page is reloaded; the contents of a  *)
(* place.  A driver call that hangs is a step that is not taken.           *)
(***************************************************************************)
EXTENDS PagePool

CONSTANTS
    URLs,        \* the queue of URLs to scrape
    NoPlace,     \* no URL, and what a new or a closed tab shows
    Wall,        \* what a blocked tab shows: captcha, consent, sorry page
    NoWorker,    \* whose trace an abandoned goroutine writes when the claim is over
    NavRetries   \* fast retries after a navigation error (code: 2)

Places == {URLs[i] : i \in 1 .. Len(URLs)}

ASSUME ScrapeAssumption ==
    /\ URLs \in Seq(Places)
    /\ NoPlace \notin Places /\ Wall \notin Places /\ Wall # NoPlace
    /\ NoWorker \notin Workers
    /\ NavRetries \in Nat

VARIABLES
    queue,       \* the URLs not claimed yet; each is claimed once (bound)
    cancelled,   \* the workers' context is done: one of them could not get a tab
    step,        \* where each worker is with its claim
    claim,       \* the URL it has claimed
    tries,       \* fast retries of the claim
    result,      \* what its scrape has found so far, or returned
    scrape,      \* the scrape goroutine of each tab: its stage, and whose trace it has
    shows,       \* the document in each tab
    coming,      \* the place whose navigation was given up on in each tab, if not there yet
    clicks       \* open tabs with a click in flight that was given up on

scrapeVars == <<queue, cancelled, step, claim, tries, result, scrape, shows, coming, clicks>>
leftovers  == <<coming, clicks>>
allVars    == <<vars, scrapeVars>>

Settled    == {"rest", "failed", "retry"}
ClaimSteps == Settled \cup {"http", "acquire", "scrape", "release", "ended"}
Stages     == {"none", "goto", "check", "json", "reviews", "deliver"}

\* nav: an error text with Timeout or net::ERR.  deadline: context.DeadlineExceeded,
\* of Navigate or of the 30 s of getRawPlaceJSON.  other: context.Canceled among them.
Errors == {"ok", "bot", "nav", "crash", "watchdog", "deadline", "other"}

\* sure: the navigation was seen to commit.  inReviews: the watchdog found the
\* scrape in its extra reviews, as it logs.
NoResult == [err |-> "ok", of |-> NoPlace, sure |-> TRUE, inReviews |-> FALSE]

NoScrape == [at |-> "none", by |-> NoWorker]

ScrapeTypeOK ==
    /\ TypeOK
    /\ queue \in Seq(Places) /\ cancelled \in BOOLEAN
    /\ step \in [Workers -> ClaimSteps]
    /\ claim \in [Workers -> Places \cup {NoPlace}]
    /\ tries \in [Workers -> 0 .. NavRetries]
    /\ result \in [Workers -> [err : Errors, of : Places \cup {NoPlace},
                               sure : BOOLEAN, inReviews : BOOLEAN]]
    /\ scrape \in [Pages -> [at : Stages, by : Workers \cup {NoWorker}]]
    /\ shows \in [Pages -> Places \cup {NoPlace, Wall}]
    /\ coming \in [Pages -> Places \cup {NoPlace}]
    /\ clicks \subseteq Pages

ScrapeInit ==
    /\ Init
    /\ queue = URLs
    /\ cancelled = FALSE
    /\ step = [w \in Workers |-> "rest"]
    /\ claim = [w \in Workers |-> NoPlace]
    /\ tries = [w \in Workers |-> 0]
    /\ result = [w \in Workers |-> NoResult]
    /\ scrape = [p \in Pages |-> NoScrape]
    /\ shows = [p \in Pages |-> NoPlace]
    /\ coming = [p \in Pages |-> NoPlace]
    /\ clicks = {}

-----------------------------------------------------------------------------
(* The worker's loop around a claim. *)

Steps(w, from, to) == step[w] = from /\ step' = [step EXCEPT ![w] = to]

Stays == UNCHANGED <<queue, cancelled, claim, tries>>

\* Whether HTTP is tried first is an option; here, a choice per claim.
Claim(w) ==
    /\ step[w] \in Settled /\ ~cancelled
    /\ queue # <<>> /\ queue' = Tail(queue)
    /\ claim' = [claim EXCEPT ![w] = Head(queue)]
    /\ \E first \in {"http", "acquire"} : step' = [step EXCEPT ![w] = first]
    /\ UNCHANGED <<vars, cancelled, tries, result, scrape, shows, leftovers>>

\* The claim is over, and nothing of it is kept but what an abandoned goroutine
\* may still write to.
EndClaim(w) ==
    /\ claim' = [claim EXCEPT ![w] = NoPlace]
    /\ tries' = [tries EXCEPT ![w] = 0]
    /\ result' = [result EXCEPT ![w] = NoResult]
    /\ scrape' = [p \in Pages |-> IF scrape[p].by = w
                                  THEN [scrape[p] EXCEPT !.by = NoWorker] ELSE scrape[p]]
    /\ UNCHANGED <<queue, cancelled>>

\* FetchPlaceHTTP asks for the place of the URL by its ftid, ...
HTTPAnswers(w) == Steps(w, "http", "rest") /\ EndClaim(w) /\ UNCHANGED <<vars, shows, leftovers>>

\* ... and whatever goes wrong with that, a block included, leads to a tab.
HTTPFails(w) ==
    /\ Steps(w, "http", "acquire")
    /\ Stays /\ UNCHANGED <<vars, result, scrape, shows, leftovers>>

Exists(p) == Pooled(p) \/ Held(p)

\* What the tabs that are still there show, or are navigating to.
Remaining(f) == [p \in Pages |-> IF Exists(p)' THEN f[p] ELSE NoPlace]

\* A tab that is opened is blank, and no goroutine is left in it.
TabsFollow ==
    /\ \A p \in Pages : scrape[p].at # "none" /\ p \in closed => p \in closed'
    /\ shows' = Remaining(shows)
    /\ coming' = Remaining(coming)
    /\ clicks' = {p \in clicks : Exists(p)'}

AcquireTab(w) ==
    /\ step[w] = "acquire"
    /\ \/ Acquire(w) \/ Take(w) \/ TakeLive(w) \/ TakeDead(w) \/ Discard(w)
       \/ FastEmpty(w) \/ Reserve(w) \/ CreateOK(w)
    /\ TabsFollow /\ Stays /\ UNCHANGED <<step, result, scrape>>

\* "An acquire failure means the browser is dead": the run ends.
AcquireFails(w) ==
    /\ Steps(w, "acquire", "ended")
    /\ CreateFails(w) \/ GiveUp(w)
    /\ cancelled' = TRUE
    /\ UNCHANGED <<queue, claim, tries, result, scrape, shows, leftovers>>

StartScrape(w) ==
    /\ at[w] = "have" /\ Steps(w, "acquire", "scrape")
    /\ scrape' = [scrape EXCEPT ![page[w]] = [at |-> "goto", by |-> w]]
    /\ Stays /\ UNCHANGED <<vars, result, shows, leftovers>>

\* The select of scrapeWithDeadline: the goroutine's result, ...
Receive(w) ==
    /\ Steps(w, "scrape", "release")
    /\ scrape[page[w]].at = "deliver"
    /\ scrape' = [scrape EXCEPT ![page[w]] = NoScrape]
    /\ Stays /\ UNCHANGED <<vars, result, shows, leftovers>>

\* A tab that is closed shows nothing, and what was in flight in it ends.
Blank(p) ==
    /\ shows' = [shows EXCEPT ![p] = NoPlace]
    /\ coming' = [coming EXCEPT ![p] = NoPlace]
    /\ clicks' = clicks \ {p}

\* Mutant: the page is left open.
AbandonOpen(w, err) ==
    /\ Steps(w, "scrape", "release")
    /\ result' = [result EXCEPT ![w] = [NoResult EXCEPT
                     !.err = err, !.inReviews = (scrape[page[w]].at = "reviews")]]
    /\ Stays /\ UNCHANGED <<vars, scrape, shows, leftovers>>

\* ... or the page is closed under it and it is left behind.
Abandon(w, err) ==
    /\ Steps(w, "scrape", "release")
    /\ closed' = closed \cup {page[w]}
    /\ Blank(page[w])
    /\ result' = [result EXCEPT ![w] = [NoResult EXCEPT
                     !.err = err, !.inReviews = (scrape[page[w]].at = "reviews")]]
    /\ Stays /\ UNCHANGED <<pages, created, uses, at, page, scrape>>

\* Mutant: the fast retries run without a watchdog.
WatchdogOfFirstTry(w) == tries[w] = 0 /\ Abandon(w, "watchdog")

Watchdog(w) == Abandon(w, "watchdog")

Canceled(w) == cancelled /\ Abandon(w, "other")

\* Mutant: a scrape that found no JSON gives its tab back.
ShouldRetireBlocked(err) == err \in {"bot", "watchdog", "crash"}

\* shouldRetirePage: every other tab is used again, whatever its scrape returned.
ShouldRetire(err) == err \in {"bot", "watchdog", "deadline", "crash"}

ReleaseTab(w) ==
    /\ step[w] = "release"
    /\ \/ ShouldRetire(result[w].err) /\ Retire(w)
       \/ ~ShouldRetire(result[w].err) /\ (ReleaseDead(w) \/ ReleaseLive(w))
       \/ CountUse(w)
    /\ TabsFollow /\ Stays /\ UNCHANGED <<step, result, scrape>>

\* The last step of the release, and what follows on it.
LastOfRelease(w) == (Send(w) \/ ReplenishOK(w) \/ ReplenishFails(w)) /\ TabsFollow

\* isTransientNavError.
TriedAgain(w) == result[w].err \in {"nav", "crash"} /\ tries[w] < NavRetries

\* Mutant: the retry takes another tab and forgets the first.
FastRetryKeepsTab(w) ==
    /\ at[w] = "have" /\ TriedAgain(w)
    /\ Steps(w, "release", "acquire")
    /\ at' = [at EXCEPT ![w] = "idle"] /\ Hold(w, NoPage)
    /\ tries' = [tries EXCEPT ![w] = @ + 1]
    /\ result' = [result EXCEPT ![w] = NoResult]
    /\ UNCHANGED <<pages, created, uses, closed, shows, leftovers, queue, cancelled, claim, scrape>>

\* The sleep before it ends the worker when the context is done.
FastRetry(w) ==
    /\ LastOfRelease(w) /\ TriedAgain(w)
    /\ Steps(w, "release", IF cancelled THEN "ended" ELSE "acquire")
    /\ tries' = [tries EXCEPT ![w] = @ + 1]
    /\ result' = [result EXCEPT ![w] = NoResult]
    /\ UNCHANGED <<queue, cancelled, claim, scrape>>

\* isExtraReviewsWatchdogFailure asks the trace of the claim, which the
\* abandoned goroutine still writes to.
NonRetryable(w) ==
    /\ result[w].err = "watchdog"
    /\ \E p \in Pages : scrape[p] = [at |-> "reviews", by |-> w]

Report(w) ==
    /\ LastOfRelease(w) /\ ~TriedAgain(w)
    /\ Steps(w, "release", CASE result[w].err = "ok" -> "rest"
                             [] NonRetryable(w)      -> "failed"
                             [] OTHER                -> "retry")
    /\ EndClaim(w)

-----------------------------------------------------------------------------
(* The scrape goroutine: ScrapePlace, stage by stage.  A call on a tab that  *)
(* is closed returns an error; what an abandoned goroutine finds is lost.    *)

Awaited(p, w) == page[w] = p /\ step[w] = "scrape"

GoesOn(p, from, to) == scrape[p].at = from /\ scrape' = [scrape EXCEPT ![p].at = to]

Fails(p, from, err) ==
    /\ GoesOn(p, from, "deliver")
    /\ result' = [w \in Workers |-> IF Awaited(p, w) THEN [NoResult EXCEPT !.err = err]
                                    ELSE result[w]]

Quiet == UNCHANGED <<vars, queue, cancelled, step, claim, tries>>

Goto(p) ==
    /\ p \notin closed
    /\ GoesOn(p, "goto", "check")
    /\ \E w \in Workers : Awaited(p, w) /\
          \E d \in {claim[w], Wall} : shows' = [shows EXCEPT ![p] = d]
    /\ coming' = [coming EXCEPT ![p] = NoPlace]
    /\ Quiet /\ UNCHANGED <<result, clicks>>

\* rodPage.Goto: the wait for the navigation to commit has a timeout and no error; ...
GotoSilent(p) ==
    /\ p \notin closed
    /\ GoesOn(p, "goto", "check")
    /\ \E w \in Workers :
          /\ Awaited(p, w)
          /\ result' = [result EXCEPT ![w].sure = FALSE]
          /\ coming' = [coming EXCEPT ![p] = claim[w]]
    /\ Quiet /\ UNCHANGED <<shows, clicks>>

\* ... it commits when the scrape has gone on, or not at all.  (What became of it is
\* forgotten once the place is there, but not if a wall is.)
LateCommit(p) ==
    /\ p \notin closed /\ Exists(p) /\ coming[p] # NoPlace
    /\ \/ /\ shows' = [shows EXCEPT ![p] = coming[p]]
          /\ coming' = [coming EXCEPT ![p] = NoPlace]
       \/ /\ shows[p] # Wall /\ shows' = [shows EXCEPT ![p] = Wall]
          /\ UNCHANGED coming
    /\ Quiet /\ UNCHANGED <<result, scrape, clicks>>

\* Mutant: the document in the tab is taken when the navigation fails.
GotoGoesOn(p) ==
    /\ GoesOn(p, "goto", "check")
    /\ Quiet /\ UNCHANGED <<result, shows, leftovers>>

GotoFails(p) ==
    /\ \E err \in {"nav", "crash", "deadline", "other"} : Fails(p, "goto", err)
    /\ Quiet /\ UNCHANGED <<shows, leftovers>>

Blocked(p) ==
    /\ shows[p] = Wall
    /\ Fails(p, "check", "bot") \/ Fails(p, "json", "bot")
    /\ Quiet /\ UNCHANGED <<shows, leftovers>>

\* ClickForce waits for its click up to a ceiling, then returns an error and leaves
\* the click's goroutine behind; neither of its callers retires the tab for it.
Clicks(p) == clicks' \in {clicks, clicks \cup ({p} \ closed)}

\* A probe without an answer, or a wall it does not know, is not a block; then
\* expandOpeningHours, whether a click succeeds or none does.
NotBlocked(p) ==
    /\ GoesOn(p, "check", "json")
    /\ Clicks(p)
    /\ Quiet /\ UNCHANGED <<result, shows, coming>>

\* The JSON of the document the tab shows; and the tags of its reviews.
ExtractJSON(p) ==
    /\ p \notin closed /\ shows[p] \in Places
    /\ GoesOn(p, "json", "reviews")
    /\ result' = [w \in Workers |-> IF Awaited(p, w) THEN [result[w] EXCEPT !.of = shows[p]]
                                    ELSE result[w]]
    /\ Quiet /\ UNCHANGED <<shows, leftovers>>

\* EntryFromJSON finds no place in it.
ParseFails(p) ==
    /\ p \notin closed /\ shows[p] \in Places
    /\ Fails(p, "json", "other")
    /\ Quiet /\ UNCHANGED <<shows, leftovers>>

\* 30 s without the state: the page is reloaded, ...
Reload(p) ==
    /\ p \notin closed /\ scrape[p].at = "json" /\ shows[p] # Wall
    /\ shows' = [shows EXCEPT ![p] = Wall]
    /\ Quiet /\ UNCHANGED <<result, scrape, leftovers>>

\* ... or it cannot be, or has been often enough.
NoJSON(p) ==
    /\ Fails(p, "json", "deadline") \/ (cancelled /\ Fails(p, "json", "other"))
    /\ Quiet /\ UNCHANGED <<shows, leftovers>>

\* The panel is opened, sorted and scrolled, or not; what fails is only logged.
\* What is left, the e-mails of the place's website, does not touch the tab.
ExtraReviews(p) ==
    /\ GoesOn(p, "reviews", "deliver")
    /\ Clicks(p)
    /\ Quiet /\ UNCHANGED <<result, shows, coming>>

\* Mutant: the channel has no buffer.
DeliverHeard(p) ==
    /\ scrape[p].at = "deliver" /\ \E w \in Workers : Awaited(p, w)
    /\ scrape' = [scrape EXCEPT ![p] = NoScrape]
    /\ Quiet /\ UNCHANGED <<result, shows, leftovers>>

\* The channel has room for the result nobody receives.
DeliverUnheard(p) ==
    /\ scrape[p].at = "deliver" /\ \A w \in Workers : ~Awaited(p, w)
    /\ scrape' = [scrape EXCEPT ![p] = NoScrape]
    /\ Quiet /\ UNCHANGED <<result, shows, leftovers>>

ScrapePlace(p) ==
    \/ Goto(p) \/ GotoSilent(p) \/ GotoFails(p) \/ Blocked(p) \/ NotBlocked(p)
    \/ ExtractJSON(p) \/ ParseFails(p) \/ Reload(p) \/ NoJSON(p)
    \/ ExtraReviews(p) \/ DeliverUnheard(p)

\* The driver answers a click that was given up on: it has landed in the tab,
\* whoever has the tab now, or failed.
ClickEnds(p) ==
    /\ p \in clicks
    /\ clicks' = clicks \ {p}
    /\ Quiet /\ UNCHANGED <<result, scrape, shows, coming>>

TabDies(p) ==
    /\ PageDies(p)
    /\ Blank(p)
    /\ UNCHANGED <<queue, cancelled, step, claim, tries, result, scrape>>

ScrapeClaim(w) ==
    \/ HTTPAnswers(w) \/ HTTPFails(w) \/ AcquireTab(w) \/ AcquireFails(w) \/ StartScrape(w)
    \/ Receive(w) \/ Watchdog(w) \/ Canceled(w) \/ ReleaseTab(w)
    \/ FastRetry(w) \/ Report(w)

ScrapeNext ==
    \/ \E w \in Workers : Claim(w) \/ ScrapeClaim(w)
    \/ \E p \in Pages : ScrapePlace(p) \/ LateCommit(p) \/ ClickEnds(p) \/ TabDies(p)

ScrapeSpec == ScrapeInit /\ [][ScrapeNext]_allVars

Opening(w) == at[w] \in {"create", "replenish"}

\* Workers run; the wait for a tab of the channel is limited (acquireTimeout), and so
\* is a scrape (the watchdog, a step of ScrapeClaim).  A driver call need not return,
\* unless its tab is closed, and neither need those of newPage, which have no limit.
ScrapeFairness ==
    /\ \A w \in Workers : WF_allVars(~Opening(w) /\ ScrapeClaim(w))
    /\ \A p \in Pages : WF_allVars(p \in closed /\ ScrapePlace(p))

FairScrape == ScrapeSpec /\ ScrapeFairness

-----------------------------------------------------------------------------
(* Properties. *)

\* The goroutine of a scrape works in an open tab only while the worker that started
\* it holds the tab and waits for it; any other has a tab that is closed.  Were the
\* watchdog to leave the tab open, the goroutine it gave up on would navigate, read
\* and click in a tab of the next claim.  It does not speak of `clicks`: a click that
\* ClickForce gave up on stays in the open tab, in the hands of other workers too.
TabDrivenOnce ==
    \A p \in Pages : scrape[p].at # "none" =>
        p \in closed \/ \E w \in Workers : Awaited(p, w) /\ scrape[p].by = w

\* What is reported for a URL was read from a document of that URL, whatever the
\* tab showed before, if its navigation was seen to commit.
EntryIsOfItsPlace ==
    \A w \in Workers : step[w] = "release" /\ result[w].err = "ok" /\ result[w].sure
                          => result[w].of = claim[w]

\* While the run goes on, a blocked tab does not go back to the pool, whether the
\* wall is recognised or only keeps the scrape from finding its JSON.  A tab whose
\* last navigation was given up on may come upon its wall at any time.
WallsLeavePool ==
    ~cancelled => \A p \in Pages : Pooled(p) /\ coming[p] = NoPlace => shows[p] # Wall

\* The pool's own specification holds of its tabs, whatever is done in them.
PoolSpec == Spec

\* Every claim of a worker is over at some time if each tab that it opens itself is
\* opened or refused: nothing else holds it, neither a driver call of a scrape, nor
\* the wait for a tab, nor what the other workers' calls do.  (Between two claims
\* a worker is settled: to end every claim is to be settled again and again.)
ClaimsEnd ==
    \A w \in Workers : []<>~Opening(w) => []<>(step[w] \in Settled \cup {"ended"})

\* "The scrape goroutine can always deliver and never leaks": whoever has left it
\* behind, no tab keeps its goroutine for ever.
GoroutinesEnd == \A p \in Pages : []<>(scrape[p].at = "none")

\* A watchdog that ends the extra reviews of a place fails the place, which
\* would time out in the same way again.
ReviewsWatchdogIsFinal ==
    [][\A w \in Workers : step[w] = "release" /\ step'[w] = "retry" => ~result[w].inReviews]_allVars

=============================================================================
