------------------------------ MODULE PagePool ------------------------------
(***************************************************************************)
(* The pool of browser tabs (browserrod/browser.go; browser/browser.go is  *)
(* the same pool over playwright): a channel of idle pages, a counter of   *)
(* the pages that exist or are being made, and a use count per page.  Tabs *)
(* are closed by the scrape watchdog or crash in Chromium at any time.     *)
(* Every step is one channel operation, one section under b.mu, or one     *)
(* newPage; what a page does between two of them is left out, and so are   *)
(* the diagnostic counters and Close, which main defers to its end.        *)
(***************************************************************************)
EXTENDS Integers, Sequences, FiniteSets

CONSTANTS
    Workers,    \* goroutines that acquire pages
    Pages,      \* names of pages; a forgotten page's name is used again
    NoPage,     \* what a worker without a page holds
    MaxPages,   \* Browser.max, and the capacity of the channel
    MaxUses     \* maxPageUses (code: 40)

ASSUME PoolAssumption ==
    /\ IsFiniteSet(Workers) /\ Workers # {}    \* main.go:76: -c is at least 1
    /\ MaxPages \in Nat \ {0}
    /\ MaxUses \in Nat \ {0}
    /\ NoPage \notin Pages

VARIABLES
    pages,     \* the channel
    created,   \* Browser.created
    uses,      \* Browser.uses; 0 for a page that has no entry
    closed,    \* pages for which IsClosed() is true
    at,        \* where each worker is
    page       \* the page a worker holds

vars == <<pages, created, uses, closed, at, page>>

HoldingSteps  == {"checkFast", "checkWait", "discardFast", "discardWait", "have",
                  "release", "send"}
SlotSteps     == HoldingSteps \cup {"create", "replenish"}
WorkerSteps   == SlotSteps \cup {"idle", "fast", "slow", "wait"}

TypeOK ==
    /\ pages \in Seq(Pages)
    /\ created \in 0 .. MaxPages
    /\ uses \in [Pages -> Nat]
    /\ closed \subseteq Pages
    /\ at \in [Workers -> WorkerSteps]
    /\ page \in [Workers -> Pages \cup {NoPage}]
    /\ \A w \in Workers : page[w] \in Pages <=> at[w] \in HoldingSteps

Pooled(p) == \E i \in 1 .. Len(pages) : pages[i] = p
Held(p)   == \E w \in Workers : page[w] = p
Unused    == {p \in Pages : ~Pooled(p) /\ ~Held(p)}

\* New: one page in the pool.
Init ==
    /\ \E p \in Pages : pages = <<p>>
    /\ created = 1
    /\ uses = [p \in Pages |-> 0]
    /\ closed = {}
    /\ at = [w \in Workers |-> "idle"]
    /\ page = [w \in Workers |-> NoPage]

-----------------------------------------------------------------------------
Goes(w, from, to) == at[w] = from /\ at' = [at EXCEPT ![w] = to]

Hold(w, p) == page' = [page EXCEPT ![w] = p]

Forget(p) == uses' = [uses EXCEPT ![p] = 0]

(* AcquirePage. *)

Acquire(w) ==
    /\ Goes(w, "idle", "fast")
    /\ UNCHANGED <<pages, created, uses, closed, page>>

\* <-b.pages of the fast path, and of the blocking loop.
Take(w) ==
    /\ pages # <<>>
    /\ Goes(w, "fast", "checkFast") \/ Goes(w, "wait", "checkWait")
    /\ Hold(w, Head(pages))
    /\ pages' = Tail(pages)
    /\ UNCHANGED <<created, uses, closed>>

TakeLive(w) ==
    /\ page[w] \notin closed
    /\ Goes(w, "checkFast", "have") \/ Goes(w, "checkWait", "have")
    /\ UNCHANGED <<pages, created, uses, closed, page>>

TakeDead(w) ==
    /\ page[w] \in closed
    /\ Goes(w, "checkFast", "discardFast") \/ Goes(w, "checkWait", "discardWait")
    /\ UNCHANGED <<pages, created, uses, closed, page>>

\* Mutant: the slot of the dead page is not given back.
DiscardKeepsSlot(w) ==
    /\ Goes(w, "discardFast", "fast") \/ Goes(w, "discardWait", "wait")
    /\ Forget(page[w]) /\ Hold(w, NoPage)
    /\ UNCHANGED <<pages, closed, created>>

\* discardPage: the slot is given back and the loop goes on.
Discard(w) ==
    /\ Goes(w, "discardFast", "fast") \/ Goes(w, "discardWait", "wait")
    /\ Forget(page[w]) /\ Hold(w, NoPage)
    /\ created' = IF created > 0 THEN created - 1 ELSE created
    /\ UNCHANGED <<pages, closed>>

FastEmpty(w) ==
    /\ pages = <<>>
    /\ Goes(w, "fast", "slow")
    /\ UNCHANGED <<pages, created, uses, closed, page>>

\* Mutant: the counter is compared with <= .
ReserveOneMore(w) ==
    /\ IF created <= MaxPages
       THEN Goes(w, "slow", "create") /\ created' = created + 1
       ELSE Goes(w, "slow", "wait") /\ UNCHANGED created
    /\ UNCHANGED <<pages, uses, closed, page>>

\* The counter is read and raised in one section under b.mu.
Reserve(w) ==
    /\ IF created < MaxPages
       THEN Goes(w, "slow", "create") /\ created' = created + 1
       ELSE Goes(w, "slow", "wait") /\ UNCHANGED created
    /\ UNCHANGED <<pages, uses, closed, page>>

CreateOK(w) ==
    /\ Goes(w, "create", "have")
    /\ \E p \in Unused : Hold(w, p) /\ closed' = closed \ {p}
    /\ UNCHANGED <<pages, created, uses>>

CreateFails(w) ==
    /\ Goes(w, "create", "idle")
    /\ created' = created - 1
    /\ UNCHANGED <<pages, uses, closed, page>>

\* The context is cancelled or acquireTimeout is over.
GiveUp(w) ==
    /\ Goes(w, "wait", "idle")
    /\ UNCHANGED <<pages, created, uses, closed, page>>

-----------------------------------------------------------------------------
(* ReleasePage and RetirePage. *)

\* ReleasePage looks at the page first, ...
ReleaseDead(w) ==
    /\ page[w] \in closed
    /\ Goes(w, "have", "replenish")
    /\ Forget(page[w]) /\ Hold(w, NoPage)
    /\ UNCHANGED <<pages, created, closed>>

ReleaseLive(w) ==
    /\ page[w] \notin closed
    /\ Goes(w, "have", "release")
    /\ UNCHANGED <<pages, created, uses, closed, page>>

Worn(p) == uses[p] + 1 >= MaxUses

\* ... then counts the use, and a worn page is closed and replaced.
CountUse(w) ==
    /\ at[w] = "release"
    /\ IF Worn(page[w])
       THEN Goes(w, "release", "replenish") /\ Forget(page[w]) /\ Hold(w, NoPage)
       ELSE /\ Goes(w, "release", "send")
            /\ uses' = [uses EXCEPT ![page[w]] = @ + 1]
            /\ UNCHANGED page
    /\ UNCHANGED <<pages, created, closed>>

\* Mutant: the page is released a second time.
SendTwice(w) ==
    /\ Len(pages) < MaxPages
    /\ Goes(w, "send", "have")
    /\ pages' = Append(pages, page[w])
    /\ UNCHANGED <<created, uses, closed, page>>

\* b.pages <- page blocks while the channel is full.
Send(w) ==
    /\ Len(pages) < MaxPages
    /\ Goes(w, "send", "idle")
    /\ pages' = Append(pages, page[w])
    /\ Hold(w, NoPage)
    /\ UNCHANGED <<created, uses, closed>>

Retire(w) ==
    /\ Goes(w, "have", "replenish")
    /\ Forget(page[w]) /\ Hold(w, NoPage)
    /\ UNCHANGED <<pages, created, closed>>

\* replenish: a new page takes over the slot of the one that is gone, ...
ReplenishOK(w) ==
    /\ Goes(w, "replenish", "idle")
    /\ \E p \in Unused :
          IF Len(pages) < MaxPages
          THEN /\ pages' = Append(pages, p) /\ closed' = closed \ {p}
               /\ UNCHANGED created
          ELSE /\ created' = IF created > 0 THEN created - 1 ELSE created
               /\ UNCHANGED <<pages, closed>>
    /\ UNCHANGED <<uses, page>>

\* Mutant: a replacement that fails keeps the slot.
ReplenishKeepsSlot(w) ==
    Goes(w, "replenish", "idle") /\ UNCHANGED <<created, pages, uses, closed, page>>

\* ... or the slot is released.
ReplenishFails(w) ==
    /\ Goes(w, "replenish", "idle")
    /\ created' = IF created > 0 THEN created - 1 ELSE created
    /\ UNCHANGED <<pages, uses, closed, page>>

\* The watchdog closes the page under its holder, or the tab crashes.
PageDies(p) ==
    /\ Pooled(p) \/ Held(p)
    /\ p \notin closed
    /\ closed' = closed \cup {p}
    /\ UNCHANGED <<pages, created, uses, at, page>>

AcquireNext(w) ==
    \/ Take(w) \/ TakeLive(w) \/ TakeDead(w) \/ Discard(w) \/ FastEmpty(w)
    \/ Reserve(w) \/ CreateOK(w) \/ CreateFails(w)

ReleaseNext(w) ==
    \/ ReleaseDead(w) \/ ReleaseLive(w) \/ CountUse(w) \/ Send(w) \/ Retire(w)
    \/ ReplenishOK(w) \/ ReplenishFails(w)

Next ==
    \/ \E w \in Workers :
          Acquire(w) \/ AcquireNext(w) \/ GiveUp(w) \/ ReleaseNext(w)
    \/ \E p \in Pages : PageDies(p)

Spec == Init /\ [][Next]_vars

-----------------------------------------------------------------------------
(* Properties. *)

Owners == {w \in Workers : at[w] \in SlotSteps}

\* `created` is exactly the pages in the channel plus the pages and slots that
\* workers own, through crashes, failed creations and failed replacements: a
\* slot lost on one path (discardPage, replenish) would shrink the pool for
\* good, one counted twice would open more tabs than -c allows.
SlotsBalance ==
    /\ created = Len(pages) + Cardinality(Owners)
    /\ created <= MaxPages

\* The plain send at the end of ReleasePage never blocks its worker, and
\* replenish never finds the channel full ("the slot was double-counted").
SendNeverBlocks ==
    \A w \in Workers : at[w] \in {"send", "replenish"} => Len(pages) < MaxPages

\* A page is in one place: no two workers drive the same tab, and none drives
\* a tab that is in the pool.
PageOwnedOnce ==
    /\ \A i, j \in 1 .. Len(pages) : pages[i] = pages[j] => i = j
    /\ \A v, w \in Workers : page[v] = page[w] /\ page[v] # NoPage => v = w
    /\ \A w \in Workers : ~Pooled(page[w])

\* The use counts are those of pages that exist (no entry outlives its page,
\* b.uses cannot grow), and no page is in use after its last scrape.
UsesFollowPages ==
    \A p \in Pages : uses[p] # 0 => (Pooled(p) \/ Held(p)) /\ uses[p] < MaxUses

Waiting == {w \in Workers : at[w] \in {"slow", "wait"}}

\* A worker waits for a tab only because there are more workers than tabs: the
\* tabs that exist and the workers that wait are together never more than the
\* workers.  A slot that does not come back, from a dead page, a failed
\* creation or a failed replacement, breaks it, and then acquireTimeout
\* ("browser may be dead") ends a run whose browser works.
WaitersAreSpare == created + Cardinality(Waiting) <= Cardinality(Workers)

=============================================================================
