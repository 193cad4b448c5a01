------------------------- MODULE PlaceScrapeProofs -------------------------
(***************************************************************************)
(* Proofs about PlaceScrape: what the workers and their goroutines do with *)
(* tabs is allowed by the pool, a tab is driven by one goroutine, an entry *)
(* is of its place, and a wall leaves the pool.                            *)
(***************************************************************************)
EXTENDS PlaceScrape, PagePoolProofs

AcquireSteps == {"idle", "fast", "slow", "wait", "checkFast", "checkWait",
                 "discardFast", "discardWait", "create", "have"}

ReleaseSteps == {"have", "release", "send", "replenish"}

\* Where a worker is with its claim says where it is in the pool.
StepOfPool ==
    \A w \in Workers :
        /\ step[w] \in Settled \cup {"http", "ended"} => at[w] = "idle"
        /\ step[w] = "acquire" => at[w] \in AcquireSteps
        /\ step[w] = "scrape" => at[w] = "have"
        /\ step[w] = "release" => at[w] \in ReleaseSteps

-----------------------------------------------------------------------------
(* The steps of the scraping are steps of the pool. *)

\* A worker that scrapes has a page.
LEMMA ScraperHasPage ==
    ASSUME TypeOK, StepOfPool, NEW w \in Workers, step[w] = "scrape"
    PROVE  at[w] = "have" /\ page[w] \in Pages
BY DEF TypeOK, StepOfPool, HoldingSteps

LEMMA StepIsPoolStep == TypeOK /\ StepOfPool /\ [ScrapeNext]_allVars => [Next]_vars
<1> SUFFICES ASSUME TypeOK, StepOfPool, [ScrapeNext]_allVars PROVE [Next]_vars
  OBVIOUS
<1>0. CASE UNCHANGED allVars
  BY <1>0 DEF allVars
<1>1. ASSUME NEW w \in Workers, Claim(w) PROVE [Next]_vars
  BY <1>1 DEF Claim
<1>2. ASSUME NEW w \in Workers, HTTPAnswers(w) \/ HTTPFails(w) \/ StartScrape(w) \/ Receive(w)
      PROVE  [Next]_vars
  BY <1>2 DEF HTTPAnswers, HTTPFails, StartScrape, Receive
<1>3. ASSUME NEW w \in Workers, AcquireTab(w) \/ AcquireFails(w) PROVE [Next]_vars
  <2>1. Acquire(w) \/ AcquireNext(w) \/ GiveUp(w)
    BY <1>3 DEF AcquireTab, AcquireFails, AcquireNext
  <2> QED
    BY <2>1 DEF Next
<1>4. ASSUME NEW w \in Workers, Watchdog(w) \/ Canceled(w) PROVE [Next]_vars
  <2>1. /\ step[w] = "scrape"
        /\ closed' = closed \cup {page[w]}
        /\ UNCHANGED <<pages, created, uses, at, page>>
    BY <1>4 DEF Watchdog, Canceled, Abandon, Steps
  <2>2. page[w] \in Pages
    BY <2>1, ScraperHasPage
  <2>3. CASE page[w] \in closed
    <3>1. closed' = closed
      BY <2>1, <2>3
    <3> QED
      BY <2>1, <3>1 DEF vars
  <2>4. CASE page[w] \notin closed
    <3>1. PageDies(page[w])
      BY <2>1, <2>2, <2>4 DEF PageDies, Held
    <3> QED
      BY <2>2, <3>1 DEF Next
  <2> QED
    BY <2>3, <2>4
<1>5. ASSUME NEW w \in Workers, ReleaseTab(w) \/ FastRetry(w) \/ Report(w) PROVE [Next]_vars
  <2>1. ReleaseNext(w)
    BY <1>5 DEF ReleaseTab, FastRetry, Report, LastOfRelease, ReleaseNext
  <2> QED
    BY <2>1 DEF Next
<1>6. ASSUME NEW p \in Pages, ScrapePlace(p) \/ LateCommit(p) \/ ClickEnds(p) PROVE [Next]_vars
  BY <1>6 DEF LateCommit, ClickEnds, ScrapePlace, Goto, GotoSilent, GotoFails, Blocked, NotBlocked, ExtractJSON, ParseFails,
              Reload, NoJSON, ExtraReviews, DeliverUnheard, Quiet
<1>7. ASSUME NEW p \in Pages, TabDies(p) PROVE [Next]_vars
  BY <1>7 DEF TabDies, Next
<1> QED
  BY <1>0, <1>1, <1>2, <1>3, <1>4, <1>5, <1>6, <1>7 DEF ScrapeNext, ScrapeClaim

LEMMA InitStepOfPool == ScrapeInit => StepOfPool
BY DEF ScrapeInit, Init, StepOfPool, Settled

LEMMA NextStepOfPool ==
    TypeOK /\ step \in [Workers -> ClaimSteps] /\ StepOfPool /\ [ScrapeNext]_allVars => StepOfPool'
<1> SUFFICES ASSUME TypeOK, step \in [Workers -> ClaimSteps], StepOfPool, [ScrapeNext]_allVars
             PROVE  StepOfPool'
  OBVIOUS
<1> USE DEF TypeOK, StepOfPool, ClaimSteps, Settled, AcquireSteps, ReleaseSteps
<1>1. CASE UNCHANGED <<step, at>>
  BY <1>1
<1>2. ASSUME NEW w \in Workers, Claim(w) PROVE StepOfPool'
  <2>1. PICK first \in {"http", "acquire"} : step' = [step EXCEPT ![w] = first]
    BY <1>2 DEF Claim
  <2>2. at' = at /\ at[w] = "idle"
    BY <1>2 DEF Claim, vars
  <2> QED
    BY <2>1, <2>2
<1>3. ASSUME NEW w \in Workers, HTTPAnswers(w) \/ HTTPFails(w) \/ StartScrape(w)
                                \/ Receive(w) \/ Watchdog(w) \/ Canceled(w)
      PROVE  StepOfPool'
  BY <1>3 DEF HTTPAnswers, HTTPFails, StartScrape, Receive, Watchdog, Canceled, Abandon,
              Steps, vars
<1>4. ASSUME NEW w \in Workers, AcquireTab(w) PROVE StepOfPool'
  <2>1. UNCHANGED step /\ step[w] = "acquire"
    BY <1>4 DEF AcquireTab
  <2>2. \E to \in AcquireSteps : at' = [at EXCEPT ![w] = to]
    BY <1>4 DEF AcquireTab, Acquire, Take, TakeLive, TakeDead, Discard, FastEmpty, Reserve,
                CreateOK, Goes
  <2> QED
    BY <2>1, <2>2
<1>5. ASSUME NEW w \in Workers, AcquireFails(w) PROVE StepOfPool'
  BY <1>5 DEF AcquireFails, Steps, CreateFails, GiveUp, Goes
<1>6. ASSUME NEW w \in Workers, ReleaseTab(w) PROVE StepOfPool'
  <2>1. UNCHANGED step /\ step[w] = "release"
    BY <1>6 DEF ReleaseTab
  <2>2. \E to \in ReleaseSteps : at' = [at EXCEPT ![w] = to]
    BY <1>6 DEF ReleaseTab, Retire, ReleaseDead, ReleaseLive, CountUse, Goes
  <2> QED
    BY <2>1, <2>2
<1>7. ASSUME NEW w \in Workers, FastRetry(w) \/ Report(w) PROVE StepOfPool'
  <2>1. at' = [at EXCEPT ![w] = "idle"]
    BY <1>7 DEF FastRetry, Report, LastOfRelease, Send, ReplenishOK, ReplenishFails, Goes
  <2>2. \E to \in Settled \cup {"acquire", "ended"} : step' = [step EXCEPT ![w] = to]
    BY <1>7 DEF FastRetry, Report, Steps
  <2> QED
    BY <2>1, <2>2
<1>8. ASSUME NEW p \in Pages, ScrapePlace(p) \/ LateCommit(p) \/ ClickEnds(p) \/ TabDies(p)
      PROVE  UNCHANGED <<step, at>>
  BY <1>8 DEF LateCommit, ClickEnds, ScrapePlace, Goto, GotoSilent, GotoFails, Blocked, NotBlocked, ExtractJSON, ParseFails,
              Reload, NoJSON, ExtraReviews, DeliverUnheard, Quiet, vars, TabDies, PageDies
<1> QED
  BY <1>1, <1>2, <1>3, <1>4, <1>5, <1>6, <1>7, <1>8 DEF ScrapeNext, ScrapeClaim, allVars,
     vars, scrapeVars

-----------------------------------------------------------------------------
(* Types. *)

Results == [err : Errors, of : Places \cup {NoPlace}, sure : BOOLEAN, inReviews : BOOLEAN]
Scrapes == [at : Stages, by : Workers \cup {NoWorker}]

\* What is in the tabs.
TabsTypeOK ==
    /\ shows \in [Pages -> Places \cup {NoPlace, Wall}]
    /\ coming \in [Pages -> Places \cup {NoPlace}]
    /\ clicks \subseteq Pages

LEMMA Values ==
    /\ NoResult \in Results /\ NoScrape \in Scrapes
    /\ \A err \in Errors : [NoResult EXCEPT !.err = err] \in Results
    /\ \A err \in Errors, b \in BOOLEAN : [NoResult EXCEPT !.err = err, !.inReviews = b] \in Results
    /\ \A r \in Results : [r EXCEPT !.sure = FALSE] \in Results
    /\ \A r \in Results, d \in Places : [r EXCEPT !.of = d] \in Results
    /\ \A s \in Scrapes : [s EXCEPT !.by = NoWorker] \in Scrapes
    /\ \A s \in Scrapes, stage \in Stages : [s EXCEPT !.at = stage] \in Scrapes
    /\ \A stage \in Stages, w \in Workers : [at |-> stage, by |-> w] \in Scrapes
<1>1. NoResult \in Results /\ NoScrape \in Scrapes
  BY DEF NoResult, NoScrape, Results, Scrapes, Errors, Stages
<1>2. \A err \in Errors : [NoResult EXCEPT !.err = err] \in Results
  BY DEF NoResult, Results
<1>3. \A err \in Errors, b \in BOOLEAN : [NoResult EXCEPT !.err = err, !.inReviews = b] \in Results
  BY DEF NoResult, Results
<1>4. \A r \in Results : [r EXCEPT !.sure = FALSE] \in Results
  BY DEF Results
<1>5. \A r \in Results, d \in Places : [r EXCEPT !.of = d] \in Results
  BY DEF Results
<1>6. \A s \in Scrapes : [s EXCEPT !.by = NoWorker] \in Scrapes
  BY DEF Scrapes
<1>7. \A s \in Scrapes, stage \in Stages : [s EXCEPT !.at = stage] \in Scrapes
  BY DEF Scrapes
<1>8. \A stage \in Stages, w \in Workers : [at |-> stage, by |-> w] \in Scrapes
  BY DEF Scrapes
<1> QED
  BY <1>1, <1>2, <1>3, <1>4, <1>5, <1>6, <1>7, <1>8

LEMMA InitScrapeType == ScrapeInit => ScrapeTypeOK
<1> SUFFICES ASSUME ScrapeInit PROVE ScrapeTypeOK
  OBVIOUS
<1>1. TypeOK
  BY InitIInv DEF ScrapeInit, IInv
<1>2. /\ queue \in Seq(Places) /\ cancelled \in BOOLEAN
      /\ step \in [Workers -> ClaimSteps]
      /\ claim \in [Workers -> Places \cup {NoPlace}]
      /\ TabsTypeOK
  BY ScrapeAssumption DEF ScrapeInit, ClaimSteps, Settled, TabsTypeOK
<1>3. tries \in [Workers -> 0 .. NavRetries]
  BY ScrapeAssumption DEF ScrapeInit
<1>4. result \in [Workers -> Results] /\ scrape \in [Pages -> Scrapes]
  BY Values DEF ScrapeInit
<1> QED
  BY <1>1, <1>2, <1>3, <1>4 DEF ScrapeTypeOK, Results, Scrapes, TabsTypeOK

LEMMA EndClaimType ==
    ASSUME ScrapeTypeOK, NEW w \in Workers, EndClaim(w)
    PROVE  /\ UNCHANGED <<queue, cancelled>>
           /\ claim' \in [Workers -> Places \cup {NoPlace}]
           /\ tries' \in [Workers -> 0 .. NavRetries]
           /\ result' \in [Workers -> Results]
           /\ scrape' \in [Pages -> Scrapes]
<1>1. UNCHANGED <<queue, cancelled>> /\ claim' \in [Workers -> Places \cup {NoPlace}]
  BY DEF EndClaim, ScrapeTypeOK
<1>2. tries' \in [Workers -> 0 .. NavRetries]
  BY ScrapeAssumption DEF EndClaim, ScrapeTypeOK
<1>3. result \in [Workers -> Results] /\ scrape \in [Pages -> Scrapes]
  BY DEF ScrapeTypeOK, Results, Scrapes, TabsTypeOK
<1>4. result' \in [Workers -> Results]
  BY <1>3, Values DEF EndClaim
<1>5. \A p \in Pages : (IF scrape[p].by = w THEN [scrape[p] EXCEPT !.by = NoWorker]
                                            ELSE scrape[p]) \in Scrapes
  BY <1>3, Values
<1>6. scrape' = [p \in Pages |-> IF scrape[p].by = w THEN [scrape[p] EXCEPT !.by = NoWorker]
                                                     ELSE scrape[p]]
  BY DEF EndClaim
<1>7. scrape' \in [Pages -> Scrapes]
  BY <1>5, <1>6
<1> QED
  BY <1>1, <1>2, <1>4, <1>7

LEMMA TabsFollowType ==
    ASSUME ScrapeTypeOK, TabsFollow
    PROVE  TabsTypeOK'
BY DEF ScrapeTypeOK, TabsFollow, Remaining, TabsTypeOK

\* What the steps of the goroutines keep of the types.
LEMMA PlaceStepType ==
    ASSUME ScrapeTypeOK, NEW p \in Pages, ScrapePlace(p)
    PROVE  /\ UNCHANGED <<vars, queue, cancelled, step, claim, tries>>
           /\ result' \in [Workers -> Results]
           /\ scrape' \in [Pages -> Scrapes]
           /\ TabsTypeOK'
<1> USE DEF Quiet, leftovers
<1>0. /\ result \in [Workers -> Results] /\ scrape \in [Pages -> Scrapes]
      /\ TabsTypeOK
      /\ claim \in [Workers -> Places \cup {NoPlace}]
  BY DEF ScrapeTypeOK, Results, Scrapes, TabsTypeOK
<1>1. ASSUME NEW from \in Stages, NEW to \in Stages, GoesOn(p, from, to)
      PROVE  scrape' \in [Pages -> Scrapes]
  <2>1. [scrape[p] EXCEPT !.at = to] \in Scrapes
    BY <1>0, Values
  <2>2. scrape' = [scrape EXCEPT ![p] = [scrape[p] EXCEPT !.at = to]]
    BY <1>1 DEF GoesOn
  <2> QED
    BY <1>0, <2>1, <2>2
<1>2. ASSUME NEW from \in Stages, NEW err \in Errors, Fails(p, from, err)
      PROVE  scrape' \in [Pages -> Scrapes] /\ result' \in [Workers -> Results]
  <2>1. scrape' \in [Pages -> Scrapes]
    BY <1>1, <1>2 DEF Fails, Stages
  <2>2. \A w \in Workers : (IF Awaited(p, w) THEN [NoResult EXCEPT !.err = err] ELSE result[w]) \in Results
    BY <1>0, Values
  <2> QED
    BY <1>2, <2>1, <2>2 DEF Fails
<1>3. CASE Goto(p)
  <2>1. \E w \in Workers : \E d \in {claim[w], Wall} : shows' = [shows EXCEPT ![p] = d]
    BY <1>3 DEF Goto
  <2>2. GoesOn(p, "goto", "check") /\ UNCHANGED <<result, clicks>>
        /\ coming' = [coming EXCEPT ![p] = NoPlace]
    BY <1>3 DEF Goto
  <2>3. TabsTypeOK'
    BY <1>0, <2>1, <2>2 DEF TabsTypeOK
  <2> QED
    BY <1>0, <1>1, <1>3, <2>2, <2>3 DEF Goto, Stages
<1>4. CASE GotoSilent(p)
  <2>1. PICK w \in Workers : /\ result' = [result EXCEPT ![w].sure = FALSE]
                             /\ coming' = [coming EXCEPT ![p] = claim[w]]
    BY <1>4 DEF GotoSilent
  <2>2. [result[w] EXCEPT !.sure = FALSE] \in Results
    BY <1>0, Values
  <2>3. result' \in [Workers -> Results] /\ TabsTypeOK'
    BY <1>0, <1>4, <2>1, <2>2 DEF GotoSilent, TabsTypeOK
  <2> QED
    BY <1>0, <1>1, <1>4, <2>3 DEF GotoSilent, Stages
<1>5. CASE GotoFails(p)
  BY <1>0, <1>2, <1>5 DEF GotoFails, Errors, Stages, TabsTypeOK
<1>6. CASE Blocked(p)
  BY <1>0, <1>2, <1>6 DEF Blocked, Errors, Stages, TabsTypeOK
<1>7. CASE NotBlocked(p) \/ ExtraReviews(p)
  BY <1>0, <1>1, <1>7 DEF NotBlocked, ExtraReviews, Clicks, Stages, TabsTypeOK
<1>8. CASE ExtractJSON(p) \/ ParseFails(p)
  <2>1. CASE Fails(p, "json", "other")
    BY <1>0, <1>2, <1>8, <2>1 DEF ExtractJSON, ParseFails, Errors, Stages, TabsTypeOK
  <2>2. CASE ~Fails(p, "json", "other")
    <3>1. \A w \in Workers : (IF Awaited(p, w) THEN [result[w] EXCEPT !.of = shows[p]] ELSE result[w]) \in Results
      BY <1>0, <1>8, Values DEF ExtractJSON, ParseFails
    <3> QED
      BY <1>0, <1>1, <1>8, <2>2, <3>1 DEF ExtractJSON, ParseFails, Stages, TabsTypeOK
  <2> QED
    BY <2>1, <2>2
<1>9. CASE Reload(p)
  BY <1>0, <1>9 DEF Reload, TabsTypeOK
<1>10. CASE NoJSON(p)
  BY <1>0, <1>2, <1>10 DEF NoJSON, Errors, Stages, TabsTypeOK
<1>11. CASE DeliverUnheard(p)
  BY <1>0, <1>11, Values DEF DeliverUnheard, TabsTypeOK
<1> QED
  BY <1>3, <1>4, <1>5, <1>6, <1>7, <1>8, <1>9, <1>10, <1>11 DEF ScrapePlace

\* What the steps of the workers keep of the types.
LEMMA ClaimStepType ==
    ASSUME ScrapeTypeOK, StepOfPool, NEW w \in Workers, Claim(w) \/ ScrapeClaim(w)
    PROVE  /\ queue' \in Seq(Places) /\ cancelled' \in BOOLEAN
           /\ step' \in [Workers -> ClaimSteps]
           /\ claim' \in [Workers -> Places \cup {NoPlace}]
           /\ tries' \in [Workers -> 0 .. NavRetries]
           /\ result' \in [Workers -> Results]
           /\ scrape' \in [Pages -> Scrapes]
           /\ TabsTypeOK'
<1> USE DEF Stays, leftovers
<1>0. /\ queue \in Seq(Places) /\ cancelled \in BOOLEAN
      /\ step \in [Workers -> ClaimSteps]
      /\ claim \in [Workers -> Places \cup {NoPlace}]
      /\ tries \in [Workers -> 0 .. NavRetries]
      /\ result \in [Workers -> Results] /\ scrape \in [Pages -> Scrapes]
      /\ TabsTypeOK
  BY DEF ScrapeTypeOK, Results, Scrapes, TabsTypeOK
<1>1. ASSUME NEW to \in ClaimSteps, NEW from, Steps(w, from, to)
      PROVE  step' \in [Workers -> ClaimSteps]
  BY <1>0, <1>1 DEF Steps
<1>2. CASE Claim(w)
  <2>1. queue' \in Seq(Places) /\ claim' \in [Workers -> Places \cup {NoPlace}]
    BY <1>0, <1>2 DEF Claim
  <2>2. step' \in [Workers -> ClaimSteps]
    BY <1>0, <1>2 DEF Claim, ClaimSteps
  <2> QED
    BY <1>0, <1>2, <2>1, <2>2 DEF Claim, TabsTypeOK
<1>3. CASE HTTPAnswers(w)
  <2>1. step' \in [Workers -> ClaimSteps]
    BY <1>1, <1>3 DEF HTTPAnswers, ClaimSteps, Settled
  <2> QED
    BY <1>0, <1>3, <2>1, EndClaimType DEF HTTPAnswers, TabsTypeOK
<1>4. CASE HTTPFails(w)
  BY <1>0, <1>1, <1>4 DEF HTTPFails, ClaimSteps, TabsTypeOK
<1>5. CASE AcquireTab(w)
  BY <1>0, <1>5, TabsFollowType DEF AcquireTab
<1>6. CASE AcquireFails(w)
  BY <1>0, <1>1, <1>6 DEF AcquireFails, ClaimSteps, TabsTypeOK
<1>7. CASE StartScrape(w)
  <2>1. step' \in [Workers -> ClaimSteps]
    BY <1>1, <1>7 DEF StartScrape, ClaimSteps
  <2>2. [at |-> "goto", by |-> w] \in Scrapes
    BY Values DEF Stages
  <2>3. scrape' \in [Pages -> Scrapes]
    BY <1>0, <1>7, <2>2 DEF StartScrape
  <2> QED
    BY <1>0, <1>7, <2>1, <2>3 DEF StartScrape, TabsTypeOK
<1>8. CASE Receive(w)
  <2>1. step' \in [Workers -> ClaimSteps]
    BY <1>1, <1>8 DEF Receive, ClaimSteps
  <2>2. scrape' \in [Pages -> Scrapes]
    BY <1>0, <1>8, Values DEF Receive
  <2> QED
    BY <1>0, <1>8, <2>1, <2>2 DEF Receive, TabsTypeOK
<1>9. CASE Watchdog(w) \/ Canceled(w)
  <2>1. PICK err \in Errors : Abandon(w, err)
    BY <1>9 DEF Watchdog, Canceled, Errors
  <2>2. step' \in [Workers -> ClaimSteps]
    BY <1>1, <2>1 DEF Abandon, ClaimSteps
  <2>3. result' \in [Workers -> Results]
    <3>1. [NoResult EXCEPT !.err = err, !.inReviews = (scrape[page[w]].at = "reviews")] \in Results
      BY Values
    <3> QED
      BY <1>0, <2>1, <3>1 DEF Abandon
  <2>4. TabsTypeOK'
    BY <1>0, <2>1 DEF Abandon, Blank, TabsTypeOK
  <2> QED
    BY <1>0, <2>1, <2>2, <2>3, <2>4 DEF Abandon
<1>10. CASE ReleaseTab(w)
  BY <1>0, <1>10, TabsFollowType DEF ReleaseTab
<1>11. CASE FastRetry(w)
  <2>1. step' \in [Workers -> ClaimSteps]
    BY <1>1, <1>11 DEF FastRetry, ClaimSteps
  <2>2. tries' \in [Workers -> 0 .. NavRetries]
    BY <1>0, <1>11, ScrapeAssumption DEF FastRetry, TriedAgain
  <2>3. result' \in [Workers -> Results]
    BY <1>0, <1>11, Values DEF FastRetry
  <2>4. TabsFollow
    BY <1>11 DEF FastRetry, LastOfRelease
  <2> QED
    BY <1>0, <1>11, <2>1, <2>2, <2>3, <2>4, TabsFollowType DEF FastRetry
<1>12. CASE Report(w)
  <2>1. step' \in [Workers -> ClaimSteps]
    BY <1>1, <1>12 DEF Report, ClaimSteps, Settled
  <2>2. TabsFollow /\ EndClaim(w)
    BY <1>12 DEF Report, LastOfRelease
  <2> QED
    BY <1>0, <2>1, <2>2, TabsFollowType, EndClaimType
<1> QED
  BY <1>2, <1>3, <1>4, <1>5, <1>6, <1>7, <1>8, <1>9, <1>10, <1>11, <1>12 DEF ScrapeClaim

LEMMA NextScrapeType ==
    ScrapeTypeOK /\ StepOfPool /\ SlotsBalance /\ [ScrapeNext]_allVars => ScrapeTypeOK'
<1> SUFFICES ASSUME ScrapeTypeOK, StepOfPool, SlotsBalance, [ScrapeNext]_allVars
             PROVE  ScrapeTypeOK'
  OBVIOUS
<1>0. TypeOK'
  <2>1. TypeOK
    BY DEF ScrapeTypeOK
  <2>2. [Next]_vars
    BY <2>1, StepIsPoolStep
  <2> QED
    BY <2>1, <2>2, NextType
<1>1. CASE UNCHANGED allVars
  BY <1>0, <1>1 DEF allVars, scrapeVars, ScrapeTypeOK
<1>2. ASSUME NEW w \in Workers, Claim(w) \/ ScrapeClaim(w) PROVE ScrapeTypeOK'
  BY <1>0, <1>2, ClaimStepType DEF ScrapeTypeOK, Results, Scrapes, TabsTypeOK
<1>3. ASSUME NEW p \in Pages, ScrapePlace(p) PROVE ScrapeTypeOK'
  BY <1>0, <1>3, PlaceStepType DEF ScrapeTypeOK, Results, Scrapes, TabsTypeOK
<1>4. ASSUME NEW p \in Pages, TabDies(p) PROVE ScrapeTypeOK'
  BY <1>0, <1>4 DEF TabDies, Blank, ScrapeTypeOK
<1>5. ASSUME NEW p \in Pages, LateCommit(p) PROVE ScrapeTypeOK'
  BY <1>0, <1>5 DEF LateCommit, Quiet, leftovers, ScrapeTypeOK
<1>6. ASSUME NEW p \in Pages, ClickEnds(p) PROVE ScrapeTypeOK'
  BY <1>0, <1>6 DEF ClickEnds, Quiet, ScrapeTypeOK
<1> QED
  BY <1>1, <1>2, <1>3, <1>4, <1>5, <1>6 DEF ScrapeNext

\* A worker that is busy has a claim.
ClaimKnown == \A w \in Workers : step[w] \notin Settled \cup {"ended"} => claim[w] \in Places

LEMMA NextClaimKnown == ScrapeTypeOK /\ ClaimKnown /\ [ScrapeNext]_allVars => ClaimKnown'
<1> SUFFICES ASSUME ScrapeTypeOK, ClaimKnown, [ScrapeNext]_allVars PROVE ClaimKnown'
  OBVIOUS
<1> USE DEF ClaimKnown
<1>0. /\ step \in [Workers -> ClaimSteps] /\ claim \in [Workers -> Places \cup {NoPlace}]
      /\ queue \in Seq(Places)
  BY DEF ScrapeTypeOK
<1>1. CASE UNCHANGED <<step, claim>>
  BY <1>1
<1>2. ASSUME NEW w \in Workers, Claim(w) PROVE ClaimKnown'
  <2>1. Head(queue) \in Places /\ claim' = [claim EXCEPT ![w] = Head(queue)]
    BY <1>0, <1>2 DEF Claim
  <2>2. \A v \in Workers \ {w} : step'[v] = step[v]
    BY <1>0, <1>2 DEF Claim
  <2> QED
    BY <1>0, <2>1, <2>2
<1>3. ASSUME NEW w \in Workers, HTTPAnswers(w) \/ Report(w) PROVE ClaimKnown'
  BY <1>0, <1>3 DEF HTTPAnswers, Report, EndClaim, Steps, Settled
<1>4. ASSUME NEW w \in Workers, HTTPFails(w) \/ AcquireFails(w) \/ StartScrape(w) \/ Receive(w)
                                \/ Watchdog(w) \/ Canceled(w) \/ FastRetry(w)
      PROVE  ClaimKnown'
  BY <1>0, <1>4 DEF HTTPFails, AcquireFails, StartScrape, Receive, Watchdog, Canceled, Abandon,
     FastRetry, Steps, Stays, Settled
<1>5. ASSUME NEW w \in Workers, AcquireTab(w) \/ ReleaseTab(w) PROVE UNCHANGED <<step, claim>>
  BY <1>5 DEF AcquireTab, ReleaseTab, Stays
<1>6. ASSUME NEW p \in Pages, ScrapePlace(p) \/ LateCommit(p) \/ ClickEnds(p) \/ TabDies(p)
      PROVE  UNCHANGED <<step, claim>>
  BY <1>6 DEF LateCommit, ClickEnds, ScrapePlace, Goto, GotoSilent, GotoFails, Blocked, NotBlocked,
              ExtractJSON, ParseFails, Reload, NoJSON, ExtraReviews, DeliverUnheard, Quiet, TabDies
<1> QED
  BY <1>1, <1>2, <1>3, <1>4, <1>5, <1>6 DEF ScrapeNext, ScrapeClaim, allVars, scrapeVars

-----------------------------------------------------------------------------
(* The pool's specification, and the types. *)

\* The invariants of the pool carry over to its composition with the scraping.
ScrapeInv == ScrapeTypeOK /\ StepOfPool /\ ClaimKnown /\ IInv /\ PageOwnedOnce

LEMMA ScrapeInvHolds == ScrapeSpec => []ScrapeInv
<1>1. ScrapeInit => ScrapeInv
  <2>1. Init => PageOwnedOnce
    BY PoolAssumption DEF Init, PageOwnedOnce, Pooled
  <2> QED
    BY <2>1, InitScrapeType, InitStepOfPool, InitIInv DEF ScrapeInit, ScrapeInv, ClaimKnown,
       Settled
<1>2. ScrapeInv /\ [ScrapeNext]_allVars => ScrapeInv'
  <2> SUFFICES ASSUME ScrapeInv, [ScrapeNext]_allVars PROVE ScrapeInv'
    OBVIOUS
  <2>1. TypeOK /\ SlotsBalance /\ step \in [Workers -> ClaimSteps]
    BY DEF ScrapeInv, ScrapeTypeOK, IInv
  <2>2. [Next]_vars
    BY <2>1, StepIsPoolStep DEF ScrapeInv
  <2>3. IInv' /\ PageOwnedOnce'
    BY <2>1, <2>2, NextIInv, NextOwned DEF ScrapeInv
  <2> QED
    BY <2>1, <2>3, NextScrapeType, NextStepOfPool, NextClaimKnown DEF ScrapeInv
<1> QED
  BY <1>1, <1>2, PTL DEF ScrapeSpec

\* PlaceScrape implements PagePool: whatever the workers do with a tab, give it
\* back, retire it or have its watchdog close it under a goroutine, is what the
\* pool allows, so that all that is proved of the pool holds of them.
THEOREM ScrapeImplementsPool == ScrapeSpec => PoolSpec
<1>1. ScrapeInit => Init
  BY DEF ScrapeInit
<1>2. ScrapeInv /\ [ScrapeNext]_allVars => [Next]_vars
  BY StepIsPoolStep DEF ScrapeInv, ScrapeTypeOK
<1> QED
  BY <1>1, <1>2, ScrapeInvHolds, PTL DEF ScrapeSpec, PoolSpec, Spec

\* The variables of the scraping and of the pool keep their types.
THEOREM ScrapeTypeCorrect == ScrapeSpec => []ScrapeTypeOK
<1>1. ScrapeInv => ScrapeTypeOK
  BY DEF ScrapeInv
<1> QED
  BY <1>1, ScrapeInvHolds, PTL

-----------------------------------------------------------------------------
(* One driver per tab. *)

\* The steps of a goroutine: its tab is left where it is, and so is the trace it has.
LEMMA GoroutineStep ==
    ASSUME ScrapeTypeOK, NEW p \in Pages, ScrapePlace(p)
    PROVE  /\ scrape[p].at # "none"
           /\ \A q \in Pages : scrape'[q].at # "none" => scrape'[q].by = scrape[q].by
           /\ \A q \in Pages \ {p} : scrape'[q] = scrape[q]
<1>0. scrape \in [Pages -> Scrapes]
  BY DEF ScrapeTypeOK, Scrapes
<1>1. CASE scrape' = [scrape EXCEPT ![p] = NoScrape] /\ scrape[p].at = "deliver"
  BY <1>0, <1>1 DEF NoScrape
<1>2. ASSUME NEW to \in Stages, NEW from \in Stages \ {"none"}, GoesOn(p, from, to)
      PROVE  /\ scrape[p].at # "none"
             /\ \A q \in Pages : scrape'[q].at # "none" => scrape'[q].by = scrape[q].by
             /\ \A q \in Pages \ {p} : scrape'[q] = scrape[q]
  BY <1>0, <1>2 DEF GoesOn, Scrapes
<1>3. CASE UNCHANGED scrape /\ scrape[p].at = "json"
  BY <1>3
<1>4. \/ UNCHANGED scrape /\ scrape[p].at = "json"
      \/ scrape' = [scrape EXCEPT ![p] = NoScrape] /\ scrape[p].at = "deliver"
      \/ \E to \in Stages, from \in Stages \ {"none"} : GoesOn(p, from, to)
  BY DEF ScrapePlace, Goto, GotoSilent, GotoFails, Blocked, NotBlocked, ExtractJSON, ParseFails, Reload,
         NoJSON, ExtraReviews, DeliverUnheard, Fails, Stages
<1> QED
  BY <1>1, <1>2, <1>3, <1>4

LEMMA NextDriven == ScrapeInv /\ TabDrivenOnce /\ [ScrapeNext]_allVars => TabDrivenOnce'
<1> SUFFICES ASSUME ScrapeInv, TabDrivenOnce, [ScrapeNext]_allVars,
                    NEW p \in Pages, scrape'[p].at # "none", p \notin closed'
             PROVE  \E w \in Workers : page'[w] = p /\ step'[w] = "scrape" /\ scrape'[p].by = w
  BY DEF TabDrivenOnce, Awaited
<1> DEFINE Driver(w) == page[w] = p /\ step[w] = "scrape" /\ scrape[p].by = w
<1>0. /\ step \in [Workers -> ClaimSteps] /\ page \in [Workers -> Pages \cup {NoPage}]
      /\ scrape \in [Pages -> Scrapes] /\ TypeOK /\ StepOfPool /\ ScrapeTypeOK
  BY DEF ScrapeInv, ScrapeTypeOK, TypeOK, Scrapes
<1>1. scrape[p].at # "none" /\ p \notin closed => \E w \in Workers : Driver(w)
  BY DEF TabDrivenOnce, Awaited
<1> HIDE DEF Driver
<1>2. CASE UNCHANGED allVars
  BY <1>1, <1>2 DEF allVars, vars, scrapeVars, Driver
<1>3. ASSUME NEW w \in Workers, StartScrape(w)
      PROVE  \E v \in Workers : page'[v] = p /\ step'[v] = "scrape" /\ scrape'[p].by = v
  <2>1. UNCHANGED <<page, closed>> /\ step[w] = "acquire" /\ step' = [step EXCEPT ![w] = "scrape"]
        /\ scrape' = [scrape EXCEPT ![page[w]] = [at |-> "goto", by |-> w]]
    BY <1>3 DEF StartScrape, Steps, vars
  <2>2. CASE p = page[w]
    BY <1>0, <2>1, <2>2
  <2>3. CASE p # page[w]
    BY <1>0, <1>1, <2>1, <2>3 DEF Driver
  <2> QED
    BY <2>2, <2>3
<1>4. ASSUME NEW w \in Workers, step[w] # "scrape",
             Claim(w) \/ HTTPFails(w) \/ AcquireTab(w) \/ AcquireFails(w) \/ ReleaseTab(w)
             \/ FastRetry(w) \/ HTTPAnswers(w) \/ Report(w)
      PROVE  \E v \in Workers : page'[v] = p /\ step'[v] = "scrape" /\ scrape'[p].by = v
  <2>1. scrape[p].at # "none" => (p \in closed => p \in closed')
    BY <1>4 DEF Claim, HTTPFails, AcquireTab, AcquireFails, ReleaseTab, FastRetry, HTTPAnswers,
                Report, LastOfRelease, TabsFollow, vars, CreateFails, GiveUp
  <2>2. scrape[p].at = scrape'[p].at /\ (scrape[p].by # w => scrape'[p].by = scrape[p].by)
    BY <1>0, <1>4 DEF Claim, HTTPFails, AcquireTab, AcquireFails, ReleaseTab, FastRetry,
                HTTPAnswers, Report, EndClaim, Scrapes
  <2>3. \A v \in Workers \ {w} : page'[v] = page[v]
    BY <1>0, <1>4 DEF Claim, HTTPFails, AcquireTab, AcquireFails, ReleaseTab, FastRetry,
                HTTPAnswers, Report, LastOfRelease, vars, Acquire, Take, TakeLive, TakeDead,
                Discard, FastEmpty, Reserve, CreateOK, CreateFails, GiveUp, Retire, ReleaseDead,
                ReleaseLive, CountUse, Send, ReplenishOK, ReplenishFails, Hold
  <2>4. \A v \in Workers \ {w} : step'[v] = step[v]
    BY <1>0, <1>4 DEF Claim, HTTPFails, AcquireTab, AcquireFails, ReleaseTab, FastRetry,
                HTTPAnswers, Report, Steps
  <2>5. PICK v \in Workers : Driver(v)
    BY <1>1, <2>1, <2>2
  <2>6. v # w
    BY <1>4, <2>5 DEF Driver
  <2> QED
    BY <2>2, <2>3, <2>4, <2>5, <2>6 DEF Driver
<1>5. ASSUME NEW w \in Workers, Receive(w)
      PROVE  \E v \in Workers : page'[v] = p /\ step'[v] = "scrape" /\ scrape'[p].by = v
  <2>1. UNCHANGED <<page, closed>> /\ step' = [step EXCEPT ![w] = "release"]
        /\ scrape' = [scrape EXCEPT ![page[w]] = NoScrape]
    BY <1>5 DEF Receive, Steps, vars
  <2>2. p # page[w]
    BY <1>0, <2>1 DEF NoScrape
  <2>3. scrape'[p] = scrape[p]
    BY <1>0, <2>1, <2>2
  <2>4. PICK v \in Workers : Driver(v)
    BY <1>1, <2>1, <2>3
  <2>5. v # w
    BY <2>2, <2>4 DEF Driver
  <2> QED
    BY <1>0, <2>1, <2>3, <2>4, <2>5 DEF Driver
<1>6. ASSUME NEW w \in Workers, Watchdog(w) \/ Canceled(w)
      PROVE  \E v \in Workers : page'[v] = p /\ step'[v] = "scrape" /\ scrape'[p].by = v
  <2>1. /\ UNCHANGED <<page, scrape>> /\ step' = [step EXCEPT ![w] = "release"]
        /\ closed' = closed \cup {page[w]}
    BY <1>6 DEF Watchdog, Canceled, Abandon, Steps
  <2>2. PICK v \in Workers : Driver(v)
    BY <1>1, <2>1
  <2>3. v # w
    BY <2>1, <2>2 DEF Driver
  <2> QED
    BY <1>0, <2>1, <2>2, <2>3 DEF Driver
<1>7. ASSUME NEW q \in Pages, ScrapePlace(q)
      PROVE  \E v \in Workers : page'[v] = p /\ step'[v] = "scrape" /\ scrape'[p].by = v
  <2>1. UNCHANGED <<page, closed, step>>
    BY <1>0, <1>7, PlaceStepType DEF vars
  <2>2. scrape[p].at # "none" /\ scrape'[p].by = scrape[p].by
    BY <1>0, <1>7, GoroutineStep
  <2> QED
    BY <1>1, <2>1, <2>2 DEF Driver
<1>8. ASSUME NEW q \in Pages, TabDies(q)
      PROVE  \E v \in Workers : page'[v] = p /\ step'[v] = "scrape" /\ scrape'[p].by = v
  BY <1>1, <1>8 DEF TabDies, PageDies, Driver
<1>10. ASSUME NEW q \in Pages, LateCommit(q) \/ ClickEnds(q)
       PROVE  \E v \in Workers : page'[v] = p /\ step'[v] = "scrape" /\ scrape'[p].by = v
  BY <1>1, <1>10 DEF LateCommit, ClickEnds, Quiet, vars, Driver
<1>9. ASSUME NEW w \in Workers, Claim(w) \/ HTTPFails(w) \/ AcquireTab(w) \/ AcquireFails(w)
             \/ ReleaseTab(w) \/ FastRetry(w) \/ HTTPAnswers(w) \/ Report(w)
      PROVE  step[w] # "scrape"
  BY <1>9 DEF Claim, HTTPFails, AcquireTab, AcquireFails, ReleaseTab, FastRetry, HTTPAnswers,
              Report, Steps, Settled
<1> QED
  BY <1>2, <1>3, <1>4, <1>5, <1>6, <1>7, <1>8, <1>9, <1>10 DEF ScrapeNext, ScrapeClaim

\* The goroutine of a scrape that works in an open tab is the one its holder waits
\* for: scrapeWithDeadline closes the tab before it gives up on the goroutine.
THEOREM TabsDrivenOnce == ScrapeSpec => []TabDrivenOnce
<1>1. ScrapeInit => TabDrivenOnce
  BY DEF ScrapeInit, NoScrape, TabDrivenOnce
<1>2. ScrapeInv /\ TabDrivenOnce /\ [ScrapeNext]_allVars => TabDrivenOnce'
  BY NextDriven
<1> QED
  BY <1>1, <1>2, ScrapeInvHolds, PTL DEF ScrapeSpec

-----------------------------------------------------------------------------
(* An entry is of its place. *)

\* What a scrape under way, at stage s, has found of the URL of its worker.
ResultOf(w, s) ==
    /\ s # "none"
    /\ s = "goto" => result[w] = NoResult
    /\ s \in {"check", "json"} =>
          (result[w].sure => /\ shows[page[w]] \in {claim[w], Wall, NoPlace}
                             /\ coming[page[w]] = NoPlace)
    /\ s = "reviews" => (result[w].sure => result[w].of = claim[w])
    /\ s = "deliver" =>
          (result[w].err = "ok" /\ result[w].sure => result[w].of = claim[w])

\* EntryIsOfItsPlace is about the end of a scrape; this is what holds on the way.
OwnResult(w) ==
    /\ step[w] \notin {"scrape", "release"} => result[w] = NoResult
    /\ step[w] = "scrape" => ResultOf(w, scrape[page[w]].at)
    /\ step[w] = "release" /\ result[w].err = "ok" /\ result[w].sure
          => result[w].of = claim[w]

OwnResults == \A w \in Workers : OwnResult(w)

\* It holds on while what it reads does not change, but for a tab that dies or
\* is reloaded.
LEMMA OwnResultStays ==
    ASSUME NEW v \in Workers, OwnResult(v),
           UNCHANGED <<step[v], result[v], claim[v], page[v]>>,
           step[v] = "scrape" => /\ scrape'[page[v]].at = scrape[page[v]].at
                                 /\ shows'[page[v]] \in {shows[page[v]], NoPlace, Wall}
                                 /\ coming'[page[v]] \in {coming[page[v]], NoPlace}
    PROVE  OwnResult(v)'
BY DEF OwnResult, ResultOf

LEMMA PagesApart ==
    ASSUME ScrapeInv, NEW v \in Workers, NEW w \in Workers, v # w, page[v] \in Pages
    PROVE  page[v] # page[w]
BY PoolAssumption DEF ScrapeInv, PageOwnedOnce

\* A worker's step does not touch what another worker has.
LEMMA WorkersApart ==
    ASSUME ScrapeInv, NEW w \in Workers, Claim(w) \/ ScrapeClaim(w),
           NEW v \in Workers, v # w
    PROVE  /\ step'[v] = step[v] /\ claim'[v] = claim[v] /\ result'[v] = result[v]
           /\ page'[v] = page[v] /\ at'[v] = at[v]
           /\ page[v] \in Pages => scrape'[page[v]].at = scrape[page[v]].at
<1>0. /\ step \in [Workers -> ClaimSteps] /\ page \in [Workers -> Pages \cup {NoPage}]
      /\ at \in [Workers -> WorkerSteps]
      /\ scrape \in [Pages -> Scrapes] /\ result \in [Workers -> Results]
      /\ claim \in [Workers -> Places \cup {NoPlace}]
  BY DEF ScrapeInv, ScrapeTypeOK, TypeOK, Scrapes, Results
<1>1. /\ step'[v] = step[v] /\ claim'[v] = claim[v] /\ result'[v] = result[v]
  BY <1>0 DEF Claim, ScrapeClaim, HTTPAnswers, HTTPFails, AcquireTab, AcquireFails, StartScrape,
              Receive, Watchdog, Canceled, Abandon, ReleaseTab, FastRetry, Report, EndClaim,
              Steps, Stays
<1>2. page'[v] = page[v] /\ at'[v] = at[v]
  BY <1>0 DEF Claim, ScrapeClaim, HTTPAnswers, HTTPFails, AcquireTab, AcquireFails, StartScrape,
              Receive, Watchdog, Canceled, Abandon, ReleaseTab, FastRetry, Report, LastOfRelease,
              vars, Acquire, Take, TakeLive, TakeDead, Discard, FastEmpty, Reserve, CreateOK,
              CreateFails, GiveUp, Retire, ReleaseDead, ReleaseLive, CountUse, Send,
              ReplenishOK, ReplenishFails, Goes, Hold
<1>3. ASSUME page[v] \in Pages PROVE scrape'[page[v]].at = scrape[page[v]].at
  <2>1. page[v] # page[w]
    BY <1>3, PagesApart
  <2> QED
    BY <1>0, <1>3, <2>1 DEF Claim, ScrapeClaim, HTTPAnswers, HTTPFails, AcquireTab, AcquireFails,
              StartScrape, Receive, Watchdog, Canceled, Abandon, ReleaseTab, FastRetry, Report,
              EndClaim, Scrapes
<1> QED
  BY <1>1, <1>2, <1>3

\* So another worker's result stays its own.
LEMMA OthersKeepResults ==
    ASSUME ScrapeInv, NEW w \in Workers, Claim(w) \/ ScrapeClaim(w),
           NEW v \in Workers, v # w, OwnResult(v)
    PROVE  OwnResult(v)'
<1>0. /\ TypeOK /\ StepOfPool /\ page \in [Workers -> Pages \cup {NoPage}]
      /\ shows \in [Pages -> Places \cup {NoPlace, Wall}]
      /\ coming \in [Pages -> Places \cup {NoPlace}]
  BY DEF ScrapeInv, ScrapeTypeOK, TypeOK
<1>1. /\ UNCHANGED <<step[v], claim[v], result[v], page[v]>>
      /\ page[v] \in Pages => scrape'[page[v]].at = scrape[page[v]].at
  BY WorkersApart
<1>2. ASSUME step[v] = "scrape"
      PROVE  /\ shows'[page[v]] \in {shows[page[v]], NoPlace, Wall}
             /\ coming'[page[v]] \in {coming[page[v]], NoPlace}
  <2>1. page[v] \in Pages /\ page[v] # page[w]
    BY <1>0, <1>2, ScraperHasPage, PagesApart
  <2>2. CASE TabsFollow
    BY <1>0, <1>1, <2>1, <2>2 DEF TabsFollow, Remaining
  <2>3. CASE UNCHANGED <<shows, coming>>
    BY <2>3
  <2>4. CASE Watchdog(w) \/ Canceled(w)
    BY <1>0, <2>1, <2>4 DEF Watchdog, Canceled, Abandon, Blank
  <2>5. TabsFollow \/ UNCHANGED <<shows, coming>> \/ Watchdog(w) \/ Canceled(w)
    BY DEF Claim, ScrapeClaim, HTTPAnswers, HTTPFails, AcquireTab, AcquireFails, StartScrape,
              Receive, ReleaseTab, FastRetry, Report, LastOfRelease, leftovers
  <2> QED
    BY <2>2, <2>3, <2>4, <2>5
<1>3. step[v] = "scrape" => page[v] \in Pages
  BY <1>0, ScraperHasPage
<1> QED
  BY <1>1, <1>2, <1>3, OwnResultStays

\* A worker's step keeps its own part.
LEMMA WorkerKeepsResult ==
    ASSUME ScrapeInv, NEW w \in Workers, Claim(w) \/ ScrapeClaim(w), OwnResult(w)
    PROVE  OwnResult(w)'
<1>0. /\ ScrapeTypeOK /\ TypeOK /\ StepOfPool
      /\ step \in [Workers -> ClaimSteps] /\ page \in [Workers -> Pages \cup {NoPage}]
      /\ scrape \in [Pages -> Scrapes] /\ result \in [Workers -> Results]
  BY DEF ScrapeInv, ScrapeTypeOK, TypeOK, Scrapes, Results
<1>1. CASE Claim(w)
  <2>1. step[w] \in Settled /\ step'[w] \in {"http", "acquire"} /\ UNCHANGED result
    BY <1>0, <1>1 DEF Claim
  <2> QED
    BY <2>1 DEF OwnResult, Settled
<1>2. CASE HTTPAnswers(w) \/ Report(w)
  <2>1. step'[w] \in Settled /\ result'[w] = NoResult
    BY <1>0, <1>2 DEF HTTPAnswers, Report, EndClaim, Steps, Settled
  <2> QED
    BY <2>1 DEF OwnResult, Settled
<1>3. CASE HTTPFails(w) \/ AcquireTab(w) \/ AcquireFails(w)
  <2>1. step[w] \in {"http", "acquire"} /\ step'[w] \in {"acquire", "ended"} /\ UNCHANGED result
    BY <1>0, <1>3 DEF HTTPFails, AcquireTab, AcquireFails, Steps
  <2> QED
    BY <2>1 DEF OwnResult
<1>4. CASE StartScrape(w)
  <2>1. step[w] = "acquire" /\ step'[w] = "scrape" /\ UNCHANGED <<page, result>>
    BY <1>0, <1>4 DEF StartScrape, Steps, vars
  <2>2. page[w] \in Pages
    BY <1>0, <1>4 DEF StartScrape, TypeOK, HoldingSteps
  <2>3. scrape'[page[w]].at = "goto"
    BY <1>0, <1>4, <2>2 DEF StartScrape
  <2> QED
    BY <2>1, <2>3 DEF OwnResult, ResultOf
<1>5. CASE Receive(w)
  <2>1. /\ step[w] = "scrape" /\ step'[w] = "release" /\ scrape[page[w]].at = "deliver"
        /\ UNCHANGED <<result, claim>>
    BY <1>0, <1>5 DEF Receive, Steps, Stays
  <2> QED
    BY <2>1 DEF OwnResult, ResultOf
<1>6. CASE Watchdog(w) \/ Canceled(w)
  <2>1. PICK err \in {"watchdog", "other"} : Abandon(w, err)
    BY <1>6 DEF Watchdog, Canceled
  <2>2. step'[w] = "release"
    BY <1>0, <2>1 DEF Abandon, Steps
  <2>3. result'[w].err = err
    BY <1>0, <2>1 DEF Abandon, NoResult
  <2> QED
    BY <2>2, <2>3 DEF OwnResult
<1>7. CASE ReleaseTab(w)
  <2>1. step[w] = "release" /\ UNCHANGED <<step, result, claim>>
    BY <1>7 DEF ReleaseTab, Stays
  <2> QED
    BY <2>1 DEF OwnResult
<1>8. CASE FastRetry(w)
  <2>1. step'[w] \in {"acquire", "ended"} /\ result'[w] = NoResult
    BY <1>0, <1>8 DEF FastRetry, Steps
  <2> QED
    BY <2>1 DEF OwnResult
<1> QED
  BY <1>1, <1>2, <1>3, <1>4, <1>5, <1>6, <1>7, <1>8 DEF ScrapeClaim

\* A goroutine's step keeps the part of the worker that waits for it.
LEMMA GoroutineKeepsResult ==
    ASSUME ScrapeInv, NEW p \in Pages, ScrapePlace(p),
           NEW w \in Workers, Awaited(p, w), OwnResult(w)
    PROVE  OwnResult(w)'
<1> DEFINE found == result[w]
<1>0. /\ ScrapeTypeOK /\ result \in [Workers -> Results] /\ scrape \in [Pages -> Scrapes]
      /\ shows \in [Pages -> Places \cup {NoPlace, Wall}]
      /\ coming \in [Pages -> Places \cup {NoPlace}]
  BY DEF ScrapeInv, ScrapeTypeOK, Scrapes, Results
<1>1. /\ page[w] = p /\ step[w] = "scrape" /\ ResultOf(w, scrape[p].at)
      /\ page' = page /\ step' = step /\ claim' = claim
  BY <1>0, PlaceStepType DEF Awaited, OwnResult, vars
<1>2. ASSUME NEW from, NEW to, GoesOn(p, from, to)
      PROVE  scrape[p].at = from /\ scrape'[p].at = to
  BY <1>0, <1>2 DEF GoesOn, Scrapes
<1>3. ASSUME NEW from, NEW err \in Errors \ {"ok"}, Fails(p, from, err) PROVE OwnResult(w)'
  <2>1. scrape'[p].at = "deliver"
    BY <1>2, <1>3 DEF Fails
  <2>2. result'[w].err = err
    BY <1>1, <1>3 DEF Fails, Awaited, NoResult
  <2> QED
    BY <1>1, <2>1, <2>2 DEF OwnResult, ResultOf
<1>4. CASE Goto(p)
  <2>1. PICK v \in Workers : /\ Awaited(p, v)
                             /\ \E d \in {claim[v], Wall} : shows' = [shows EXCEPT ![p] = d]
    BY <1>4 DEF Goto
  <2>2. v = w
    BY <1>1, <2>1, PagesApart DEF Awaited
  <2>3. shows'[p] \in {claim[w], Wall} /\ coming'[p] = NoPlace
    BY <1>0, <1>4, <2>1, <2>2 DEF Goto
  <2>4. scrape'[p].at = "check"
    BY <1>2, <1>4 DEF Goto
  <2> QED
    BY <1>1, <2>3, <2>4 DEF OwnResult, ResultOf
<1>5. CASE GotoSilent(p)
  <2>1. scrape'[p].at = "check"
    BY <1>2, <1>5 DEF GotoSilent
  <2>2. PICK v \in Workers : Awaited(p, v) /\ result' = [result EXCEPT ![v].sure = FALSE]
    BY <1>5 DEF GotoSilent
  <2>3. v = w
    BY <1>1, <2>2, PagesApart DEF Awaited
  <2>4. result'[w].sure = FALSE
    BY <1>0, <2>2, <2>3 DEF Results
  <2> QED
    BY <1>1, <2>1, <2>4 DEF OwnResult, ResultOf
<1>6. CASE GotoFails(p) \/ Blocked(p) \/ NoJSON(p)
  BY <1>3, <1>6 DEF GotoFails, Blocked, NoJSON, Errors
<1>7. CASE NotBlocked(p)
  <2>1. scrape[p].at = "check" /\ scrape'[p].at = "json" /\ UNCHANGED <<result, shows, coming>>
    BY <1>2, <1>7 DEF NotBlocked
  <2> QED
    BY <1>1, <2>1 DEF OwnResult, ResultOf
<1>8. CASE ExtractJSON(p) \/ ParseFails(p)
  <2>1. CASE Fails(p, "json", "other")
    BY <1>3, <2>1 DEF Errors
  <2>2. CASE ~Fails(p, "json", "other")
    <3>1. /\ scrape[p].at = "json" /\ scrape'[p].at = "reviews" /\ shows[p] \in Places
      BY <1>2, <1>8, <2>2 DEF ExtractJSON, ParseFails
    <3>2. result'[w].of = shows[p] /\ result'[w].sure = result[w].sure
      BY <1>0, <1>1, <1>8, <2>2 DEF ExtractJSON, ParseFails, Awaited, Results
    <3>3. result[w].sure => shows[p] = claim[w]
      BY <1>1, <3>1, ScrapeAssumption DEF ResultOf
    <3> QED
      BY <1>1, <3>1, <3>2, <3>3 DEF OwnResult, ResultOf
  <2> QED
    BY <2>1, <2>2
<1>9. CASE Reload(p)
  <2>1. scrape[p].at = "json" /\ UNCHANGED <<scrape, result, coming>> /\ shows'[p] = Wall
    BY <1>0, <1>9 DEF Reload, leftovers
  <2> QED
    BY <1>1, <2>1 DEF OwnResult, ResultOf
<1>10. CASE ExtraReviews(p)
  <2>1. scrape[p].at = "reviews" /\ scrape'[p].at = "deliver" /\ UNCHANGED result
    BY <1>2, <1>10 DEF ExtraReviews
  <2> QED
    BY <1>1, <2>1 DEF OwnResult, ResultOf
<1>11. CASE DeliverUnheard(p)
  BY <1>11 DEF DeliverUnheard
<1> QED
  BY <1>4, <1>5, <1>6, <1>7, <1>8, <1>9, <1>10, <1>11 DEF ScrapePlace

LEMMA NextOwnResults == ScrapeInv /\ OwnResults /\ [ScrapeNext]_allVars => OwnResults'
<1> SUFFICES ASSUME ScrapeInv, OwnResults, [ScrapeNext]_allVars, NEW w \in Workers
             PROVE  OwnResult(w)'
  BY DEF OwnResults
<1>0. /\ OwnResult(w) /\ ScrapeTypeOK /\ result \in [Workers -> Results]
      /\ shows \in [Pages -> Places \cup {NoPlace, Wall}]
      /\ coming \in [Pages -> Places \cup {NoPlace}]
  BY DEF OwnResults, ScrapeInv, ScrapeTypeOK, Results
<1>1. CASE UNCHANGED allVars
  BY <1>0, <1>1, OwnResultStays DEF allVars, vars, scrapeVars
<1>2. ASSUME NEW v \in Workers, Claim(v) \/ ScrapeClaim(v) PROVE OwnResult(w)'
  BY <1>0, <1>2, OthersKeepResults, WorkerKeepsResult
<1>3. ASSUME NEW p \in Pages, ScrapePlace(p) PROVE OwnResult(w)'
  <2>1. CASE Awaited(p, w)
    BY <1>0, <1>3, <2>1, GoroutineKeepsResult
  <2>2. CASE ~Awaited(p, w)
    <3>1. UNCHANGED <<step, claim, page>>
      BY <1>0, <1>3, PlaceStepType DEF vars
    <3>2. result'[w] = result[w]
      BY <1>0, <1>3, <2>2 DEF ScrapePlace, Goto, GotoSilent, GotoFails, Blocked, NotBlocked,
            ExtractJSON, ParseFails, Reload, NoJSON, ExtraReviews, DeliverUnheard, Fails
    <3>3. ASSUME step[w] = "scrape"
          PROVE  /\ scrape'[page[w]] = scrape[page[w]] /\ shows'[page[w]] = shows[page[w]]
                 /\ coming'[page[w]] = coming[page[w]]
      <4>1. page[w] \in Pages /\ page[w] # p
        BY <2>2, <3>3, ScraperHasPage DEF ScrapeInv, ScrapeTypeOK, Awaited
      <4>2. scrape'[page[w]] = scrape[page[w]]
        BY <1>0, <1>3, <4>1, GoroutineStep
      <4>3. shows'[page[w]] = shows[page[w]] /\ coming'[page[w]] = coming[page[w]]
        BY <1>0, <1>3, <4>1 DEF ScrapePlace, Goto, GotoSilent, GotoFails, Blocked, NotBlocked,
              ExtractJSON, ParseFails, Reload, NoJSON, ExtraReviews, DeliverUnheard, leftovers
      <4> QED
        BY <4>2, <4>3
    <3> QED
      BY <1>0, <3>1, <3>2, <3>3, OwnResultStays
  <2> QED
    BY <2>1, <2>2
<1>4. ASSUME NEW p \in Pages, TabDies(p) PROVE OwnResult(w)'
  <2>1. UNCHANGED <<step, claim, result, page, scrape>>
    BY <1>4 DEF TabDies, PageDies
  <2>2. step[w] = "scrape" => /\ shows'[page[w]] \in {shows[page[w]], NoPlace}
                              /\ coming'[page[w]] \in {coming[page[w]], NoPlace}
    BY <1>0, <1>4, ScraperHasPage DEF ScrapeInv, ScrapeTypeOK, TabDies, Blank
  <2> QED
    BY <1>0, <2>1, <2>2, OwnResultStays
<1>5. ASSUME NEW p \in Pages, LateCommit(p) PROVE OwnResult(w)'
  <2>1. /\ UNCHANGED <<step, claim, result, page, scrape>> /\ coming[p] # NoPlace
        /\ \A q \in Pages \ {p} : shows'[q] = shows[q] /\ coming'[q] = coming[q]
    BY <1>0, <1>5 DEF LateCommit, Quiet, leftovers, vars
  <2>2. CASE step[w] = "scrape" /\ page[w] = p
    <3>1. scrape[p].at \in {"check", "json"} => ~result[w].sure
      BY <1>0, <2>1, <2>2 DEF OwnResult, ResultOf
    <3> QED
      BY <1>0, <2>1, <2>2, <3>1 DEF OwnResult, ResultOf
  <2>3. CASE ~(step[w] = "scrape" /\ page[w] = p)
    <3>1. step[w] = "scrape" => page[w] \in Pages \ {p}
      BY <2>3, ScraperHasPage DEF ScrapeInv, ScrapeTypeOK
    <3> QED
      BY <1>0, <2>1, <3>1, OwnResultStays
  <2> QED
    BY <2>2, <2>3
<1>6. ASSUME NEW p \in Pages, ClickEnds(p) PROVE OwnResult(w)'
  BY <1>0, <1>6, OwnResultStays DEF ClickEnds, Quiet, vars
<1> QED
  BY <1>1, <1>2, <1>3, <1>4, <1>5, <1>6 DEF ScrapeNext

\* A URL is reported with the entry of its own place, whatever the tab showed
\* before: the navigation commits before a stage reads, or it is not "sure".
THEOREM EntriesOfTheirPlaces == ScrapeSpec => []EntryIsOfItsPlace
<1>1. ScrapeInit => OwnResults
  BY DEF ScrapeInit, OwnResults, OwnResult, NoResult
<1>2. ScrapeInv /\ OwnResults /\ [ScrapeNext]_allVars => OwnResults'
  BY NextOwnResults
<1>3. OwnResults => EntryIsOfItsPlace
  BY DEF OwnResults, OwnResult, EntryIsOfItsPlace
<1> QED
  BY <1>1, <1>2, <1>3, ScrapeInvHolds, PTL DEF ScrapeSpec

-----------------------------------------------------------------------------
(* Walls leave the pool. *)

\* Worker w has page p with a wall in it, and will find it or has found it.
FindsWall(w, p) ==
    /\ page[w] = p
    /\ \/ step[w] = "scrape" /\ scrape[p].at \in {"check", "json"}
       \/ step[w] = "scrape" /\ scrape[p].at = "deliver" /\ ShouldRetire(result[w].err)
       \/ step[w] = "release" /\ at[w] = "have" /\ ShouldRetire(result[w].err)

\* Every wall is in the hands of a worker that retires its tab, but for one that a
\* navigation that was given up on has brought, or may.
WallsFound ==
    ~cancelled =>
        \A p \in Pages : shows[p] = Wall /\ coming[p] = NoPlace =>
            \E w \in Workers : FindsWall(w, p)

\* A worker's step: the wall was there before, and its tab is retired or closed
\* before it is out of the worker's hands.
LEMMA WorkerFindsWall ==
    ASSUME ScrapeInv, WallsFound, NEW w \in Workers, Claim(w) \/ ScrapeClaim(w)
    PROVE  WallsFound'
<1> SUFFICES ASSUME ~cancelled', NEW p \in Pages, shows'[p] = Wall, coming'[p] = NoPlace
             PROVE  \E v \in Workers : FindsWall(v, p)'
  BY DEF WallsFound
<1>0. /\ TypeOK /\ StepOfPool /\ PageOwnedOnce
      /\ step \in [Workers -> ClaimSteps] /\ page \in [Workers -> Pages \cup {NoPage}]
      /\ scrape \in [Pages -> Scrapes] /\ shows \in [Pages -> Places \cup {NoPlace, Wall}]
      /\ coming \in [Pages -> Places \cup {NoPlace}]
  BY DEF ScrapeInv, ScrapeTypeOK, TypeOK, Scrapes
<1>1. ~cancelled
  BY DEF Claim, ScrapeClaim, HTTPAnswers, HTTPFails, AcquireTab, AcquireFails, StartScrape,
         Receive, Watchdog, Canceled, Abandon, ReleaseTab, FastRetry, Report, EndClaim, Stays
<1>2. CASE Watchdog(w)
  <2>1. /\ shows' = [shows EXCEPT ![page[w]] = NoPlace]
        /\ coming' = [coming EXCEPT ![page[w]] = NoPlace]
        /\ step[w] = "scrape" /\ UNCHANGED scrape
    BY <1>2 DEF Watchdog, Abandon, Blank, Steps
  <2>2. page[w] # p /\ shows[p] = Wall /\ coming[p] = NoPlace
    BY <1>0, <2>1, ScrapeAssumption
  <2>3. PICK v \in Workers : FindsWall(v, p)
    BY <1>1, <2>2 DEF WallsFound
  <2> QED
    BY <2>2, <2>3, WorkersApart DEF FindsWall
<1>3. CASE ~Watchdog(w)
  <2>1. TabsFollow \/ UNCHANGED <<shows, coming>>
    BY <1>1, <1>3 DEF Claim, ScrapeClaim, HTTPAnswers, HTTPFails, AcquireTab, AcquireFails,
              StartScrape, Receive, Canceled, ReleaseTab, FastRetry, Report, LastOfRelease,
              leftovers
  <2>2. shows[p] = Wall /\ coming[p] = NoPlace
    BY <2>1, ScrapeAssumption DEF TabsFollow, Remaining
  <2>3. PICK v \in Workers : FindsWall(v, p)
    BY <1>1, <2>2 DEF WallsFound
  <2>4. CASE v # w
    BY <2>3, <2>4, WorkersApart DEF FindsWall
  <2>5. CASE v = w
    <3>1. page[w] = p /\ step[w] \in {"scrape", "release"}
          /\ (step[w] = "release" => at[w] = "have" /\ ShouldRetire(result[w].err))
      BY <2>3, <2>5 DEF FindsWall
    <3>2. Receive(w) \/ ReleaseTab(w)
      BY <1>1, <1>3, <3>1 DEF Claim, ScrapeClaim, HTTPAnswers, HTTPFails, AcquireTab, AcquireFails,
              StartScrape, Canceled, FastRetry, Report, LastOfRelease, Send, ReplenishOK,
              ReplenishFails, Steps, Settled, Goes
    <3>3. CASE Receive(w)
      <4>1. /\ step[w] = "scrape" /\ step'[w] = "release" /\ scrape[p].at = "deliver"
            /\ UNCHANGED <<page, at, result>>
        BY <1>0, <3>1, <3>3 DEF Receive, Steps, vars
      <4>2. at[w] = "have"
        BY <1>0, <4>1, ScraperHasPage
      <4> QED
        BY <2>3, <2>5, <4>1, <4>2 DEF FindsWall
    <3>4. CASE ReleaseTab(w)
      <4>1. Retire(w) /\ TabsFollow
        BY <3>1, <3>4 DEF ReleaseTab, CountUse
      <4>2. pages' = pages /\ page' = [page EXCEPT ![w] = NoPage]
        BY <4>1 DEF Retire, Hold
      <4>3. ~Pooled(p)' /\ ~Held(p)'
        BY <1>0, <3>1, <4>2, PoolAssumption DEF PageOwnedOnce, Pooled, Held
      <4>4. shows'[p] = NoPlace
        BY <4>1, <4>3 DEF TabsFollow, Remaining, Exists
      <4> QED
        BY <4>4, ScrapeAssumption
    <3> QED
      BY <3>2, <3>3, <3>4
  <2> QED
    BY <2>4, <2>5
<1> QED
  BY <1>2, <1>3

\* A goroutine's step: a wall comes into a tab whose worker waits for it.
LEMMA GoroutineFindsWall ==
    ASSUME ScrapeInv, TabDrivenOnce, WallsFound, NEW q \in Pages, ScrapePlace(q)
    PROVE  WallsFound'
<1>0. /\ ScrapeTypeOK /\ result \in [Workers -> Results] /\ scrape \in [Pages -> Scrapes]
      /\ shows \in [Pages -> Places \cup {NoPlace, Wall}]
      /\ coming \in [Pages -> Places \cup {NoPlace}]
  BY DEF ScrapeInv, ScrapeTypeOK, Scrapes, Results
<1>1. UNCHANGED <<page, at, step, cancelled>>
  BY <1>0, PlaceStepType DEF vars
<1>2. ASSUME NEW v \in Workers, ~Awaited(q, v) PROVE result'[v] = result[v]
  BY <1>0, <1>2 DEF ScrapePlace, Goto, GotoSilent, GotoFails, Blocked, NotBlocked, ExtractJSON,
            ParseFails, Reload, NoJSON, ExtraReviews, DeliverUnheard, Fails
<1> SUFFICES ASSUME ~cancelled, NEW p \in Pages, shows'[p] = Wall, coming'[p] = NoPlace
             PROVE  \E v \in Workers : FindsWall(v, p)'
  BY <1>1 DEF WallsFound
<1>3. CASE p # q
  <2>1. shows'[p] = shows[p] /\ coming'[p] = coming[p]
    BY <1>0, <1>3 DEF leftovers, ScrapePlace, Goto, GotoSilent, GotoFails, Blocked, NotBlocked, ExtractJSON,
              ParseFails, Reload, NoJSON, ExtraReviews, DeliverUnheard
  <2>2. PICK v \in Workers : FindsWall(v, p)
    BY <2>1 DEF WallsFound
  <2>3. scrape'[p] = scrape[p] /\ result'[v] = result[v]
    BY <1>0, <1>2, <1>3, <2>2, GoroutineStep DEF FindsWall, Awaited
  <2> QED
    BY <1>1, <2>2, <2>3 DEF FindsWall
<1>4. ASSUME p = q, NEW v \in Workers, Awaited(q, v), scrape'[q].at \in {"check", "json"}
      PROVE  FindsWall(v, p)'
  BY <1>1, <1>4 DEF FindsWall, Awaited
<1>5. ASSUME NEW from, NEW to, GoesOn(q, from, to)
      PROVE  scrape[q].at = from /\ scrape'[q].at = to
  BY <1>0, <1>5 DEF GoesOn, Scrapes
<1>6. CASE p = q /\ Goto(q)
  <2>1. PICK v \in Workers : Awaited(q, v)
    BY <1>6 DEF Goto
  <2>2. scrape'[q].at = "check"
    BY <1>5, <1>6 DEF Goto
  <2> QED
    BY <1>4, <1>6, <2>1, <2>2
<1>7. CASE p = q /\ Reload(q)
  <2>1. q \notin closed /\ scrape[q].at = "json" /\ scrape' = scrape
    BY <1>7 DEF Reload
  <2>2. PICK v \in Workers : Awaited(q, v)
    BY <2>1 DEF TabDrivenOnce
  <2> QED
    BY <1>4, <1>7, <2>1, <2>2
<1>8. CASE p = q /\ ~Goto(q) /\ ~Reload(q)
  <2>0. ~GotoSilent(q)
    <3> SUFFICES ASSUME GotoSilent(q) PROVE FALSE
      OBVIOUS
    <3>1. PICK v \in Workers : Awaited(q, v) /\ coming' = [coming EXCEPT ![q] = claim[v]]
      BY DEF GotoSilent
    <3>2. claim[v] \in Places
      BY <3>1 DEF Awaited, Settled, ScrapeInv, ClaimKnown
    <3> QED
      BY <1>0, <1>8, <3>1, <3>2, ScrapeAssumption
  <2>1. shows[q] = Wall /\ coming[q] = NoPlace
    BY <1>8, <2>0 DEF leftovers, ScrapePlace, GotoFails, Blocked, NotBlocked, ExtractJSON,
              ParseFails, NoJSON, ExtraReviews, DeliverUnheard
  <2>2. PICK v \in Workers : FindsWall(v, q)
    BY <2>1 DEF WallsFound
  <2>3. CASE step[v] = "release"
    BY <1>1, <1>2, <1>8, <2>2, <2>3 DEF FindsWall, Awaited
  <2>4. CASE Awaited(q, v)
    <3>1. scrape[q].at \in {"check", "json", "deliver"}
      BY <2>2, <2>4 DEF FindsWall, Awaited
    <3>2. ASSUME NEW from, NEW err \in {"bot", "deadline"}, Fails(q, from, err)
          PROVE  FindsWall(v, q)'
      <4>1. scrape'[q].at = "deliver"
        BY <1>5, <3>2 DEF Fails
      <4>2. result'[v].err = err
        BY <2>4, <3>2 DEF Fails, NoResult
      <4> QED
        BY <1>1, <2>4, <4>1, <4>2 DEF FindsWall, Awaited, ShouldRetire
    <3>3. CASE Blocked(q) \/ NoJSON(q)
      <4>1. \E from, err : err \in {"bot", "deadline"} /\ Fails(q, from, err)
        BY <3>3 DEF Blocked, NoJSON
      <4> QED
        BY <1>8, <3>2, <4>1
    <3>4. CASE NotBlocked(q)
      <4>1. scrape'[q].at = "json"
        BY <1>5, <3>4 DEF NotBlocked
      <4> QED
        BY <1>4, <1>8, <2>4, <4>1
    <3>5. ~GotoSilent(q) /\ ~GotoFails(q) /\ ~ExtraReviews(q) /\ ~DeliverUnheard(q)
      BY <2>4, <3>1 DEF GotoSilent, GotoFails, ExtraReviews, DeliverUnheard, Fails, GoesOn
    <3>6. ~ExtractJSON(q) /\ ~ParseFails(q)
      BY <2>1, ScrapeAssumption DEF ExtractJSON, ParseFails
    <3> QED
      BY <1>8, <3>3, <3>4, <3>5, <3>6 DEF ScrapePlace
  <2> QED
    BY <2>2, <2>3, <2>4 DEF FindsWall, Awaited
<1> QED
  BY <1>3, <1>6, <1>7, <1>8

\* While no worker has failed to get a tab, a blocked tab is never in the pool:
\* its wall is recognised, or it keeps the scrape from its JSON, and either way
\* shouldRetirePage closes it.  A tab whose navigation was given up on is left out.
THEOREM WallsNeverPooled == ScrapeSpec => []WallsLeavePool
<1>1. ScrapeInit => WallsFound
  BY ScrapeAssumption DEF ScrapeInit, WallsFound
<1>2. ScrapeInv /\ TabDrivenOnce /\ WallsFound /\ [ScrapeNext]_allVars => WallsFound'
  <2> SUFFICES ASSUME ScrapeInv, TabDrivenOnce, WallsFound, [ScrapeNext]_allVars
               PROVE  WallsFound'
    OBVIOUS
  <2>1. CASE UNCHANGED allVars
    BY <2>1 DEF allVars, vars, scrapeVars, WallsFound, FindsWall, ShouldRetire
  <2>2. ASSUME NEW p \in Pages, TabDies(p) PROVE WallsFound'
    <3>1. /\ UNCHANGED <<cancelled, step, result, scrape, page, at>>
          /\ \A q \in Pages : shows'[q] = Wall =>
                shows[q] = Wall /\ UNCHANGED coming[q]
      BY <2>2, ScrapeAssumption DEF TabDies, Blank, PageDies, ScrapeInv, ScrapeTypeOK
    <3> QED
      BY <3>1 DEF WallsFound, FindsWall
  <2>3. ASSUME NEW p \in Pages, LateCommit(p) \/ ClickEnds(p) PROVE WallsFound'
    <3>1. UNCHANGED <<cancelled, step, result, scrape, page, at>>
      BY <2>3 DEF LateCommit, ClickEnds, Quiet, leftovers, vars
    <3>2. \A q \in Pages : shows'[q] = Wall /\ coming'[q] = NoPlace =>
                             shows[q] = Wall /\ coming[q] = NoPlace
      <4>1. CASE ClickEnds(p)
        BY <4>1 DEF ClickEnds, Quiet, vars
      <4>2. CASE LateCommit(p)
        <5>1. coming[p] # Wall
          BY <4>2, ScrapeAssumption DEF LateCommit, ScrapeInv, ScrapeTypeOK
        <5> QED
          BY <4>2, <5>1 DEF LateCommit, ScrapeInv, ScrapeTypeOK
      <4> QED
        BY <2>3, <4>1, <4>2
    <3> QED
      BY <3>1, <3>2 DEF WallsFound, FindsWall
  <2> QED
    BY <2>1, <2>2, <2>3, WorkerFindsWall, GoroutineFindsWall DEF ScrapeNext
<1>3. ScrapeInv /\ WallsFound => WallsLeavePool
  BY DEF ScrapeInv, PageOwnedOnce, WallsFound, FindsWall, WallsLeavePool
<1> QED
  BY <1>1, <1>2, <1>3, ScrapeInvHolds, TabsDrivenOnce, PTL DEF ScrapeSpec

=============================================================================
