--------------------------- MODULE PagePoolProofs ---------------------------
(***************************************************************************)
(* Proofs about PagePool, for any finite set of workers, any set of pages  *)
(* and any limits: the slot accounting, that no send to the channel ever   *)
(* blocks, that a page has one owner and its use count follows it, and     *)
(* that nobody waits where every worker has a page of its own.             *)
(***************************************************************************)
EXTENDS PagePool, FiniteSetTheorems, TLAPS

\* Where there is a page for every worker, as main configures the pool and the
\* scraper (one -c for both), nobody reaches AcquirePage's blocking loop.
NobodyWaits ==
    Cardinality(Workers) <= MaxPages =>
        \A w \in Workers : at[w] \notin {"wait", "checkWait", "discardWait"}

\* NobodyWaits rests on WaitersAreSpare, and that on SlotsBalance: a worker that
\* begins to wait finds the channel empty, so all of `created` is in the hands
\* of workers that do not wait.
IInv == TypeOK /\ SlotsBalance /\ WaitersAreSpare /\ NobodyWaits

-----------------------------------------------------------------------------
(* What one worker's move does to the two counts. *)

LEMMA CountsAreNaturals ==
    /\ IsFiniteSet(Workers) /\ Cardinality(Workers) \in Nat
    /\ IsFiniteSet(Owners) /\ Cardinality(Owners) \in Nat
    /\ IsFiniteSet(Waiting) /\ Cardinality(Waiting) \in Nat
<1>1. IsFiniteSet(Workers)
  BY PoolAssumption
<1>2. Owners \in SUBSET Workers /\ Waiting \in SUBSET Workers
  BY DEF Owners, Waiting
<1>3. IsFiniteSet(Owners) /\ IsFiniteSet(Waiting)
  BY <1>1, <1>2, FS_Subset
<1> QED
  BY <1>1, <1>3, FS_CardinalityType

LEMMA MoveCounts ==
    ASSUME at \in [Workers -> WorkerSteps],
           NEW w \in Workers, NEW to \in WorkerSteps,
           at' = [at EXCEPT ![w] = to]
    PROVE  /\ Cardinality(Owners') =
                Cardinality(Owners) + (IF to \in SlotSteps THEN 1 ELSE 0)
                                    - (IF at[w] \in SlotSteps THEN 1 ELSE 0)
           /\ Cardinality(Waiting') =
                Cardinality(Waiting) + (IF to \in {"slow", "wait"} THEN 1 ELSE 0)
                                  - (IF at[w] \in {"slow", "wait"} THEN 1 ELSE 0)
<1>1. Owners' = IF to \in SlotSteps THEN Owners \cup {w} ELSE Owners \ {w}
  BY DEF Owners
<1>2. Waiting' = IF to \in {"slow", "wait"} THEN Waiting \cup {w} ELSE Waiting \ {w}
  BY DEF Waiting
<1>3. (w \in Owners <=> at[w] \in SlotSteps) /\ (w \in Waiting <=> at[w] \in {"slow", "wait"})
  BY DEF Owners, Waiting
<1>4. /\ Cardinality(Owners \cup {w}) =
            IF w \in Owners THEN Cardinality(Owners) ELSE Cardinality(Owners) + 1
      /\ Cardinality(Owners \ {w}) =
            IF w \in Owners THEN Cardinality(Owners) - 1 ELSE Cardinality(Owners)
  BY CountsAreNaturals, FS_AddElement, FS_RemoveElement
<1>5. /\ Cardinality(Waiting \cup {w}) =
            IF w \in Waiting THEN Cardinality(Waiting) ELSE Cardinality(Waiting) + 1
      /\ Cardinality(Waiting \ {w}) =
            IF w \in Waiting THEN Cardinality(Waiting) - 1 ELSE Cardinality(Waiting)
  BY CountsAreNaturals, FS_AddElement, FS_RemoveElement
<1>6. Cardinality(Owners') =
        Cardinality(Owners) + (IF to \in SlotSteps THEN 1 ELSE 0)
                            - (IF at[w] \in SlotSteps THEN 1 ELSE 0)
  BY <1>1, <1>3, <1>4, CountsAreNaturals
<1>7. Cardinality(Waiting') =
        Cardinality(Waiting) + (IF to \in {"slow", "wait"} THEN 1 ELSE 0)
                          - (IF at[w] \in {"slow", "wait"} THEN 1 ELSE 0)
  BY <1>2, <1>3, <1>5, CountsAreNaturals
<1> QED
  BY <1>6, <1>7

-----------------------------------------------------------------------------
(* The invariant is inductive. *)

LEMMA InitIInv == Init => IInv
<1> SUFFICES ASSUME Init PROVE IInv
  OBVIOUS
<1>1. Owners = {} /\ Waiting = {}
  BY DEF Init, Owners, Waiting, SlotSteps, HoldingSteps
<1>2. Cardinality(Owners) = 0
  BY <1>1, FS_EmptySet
<1>3. TypeOK
  BY PoolAssumption DEF Init, TypeOK, WorkerSteps, SlotSteps, HoldingSteps
<1>4. SlotsBalance
  BY <1>2, PoolAssumption DEF Init, SlotsBalance
<1>5. WaitersAreSpare
  <2>1. Cardinality(Waiting) = 0
    BY <1>1, FS_EmptySet
  <2>2. Cardinality(Workers) >= 1
    BY PoolAssumption, FS_EmptySet, FS_CardinalityType
  <2> QED
    BY <2>1, <2>2 DEF Init, WaitersAreSpare
<1> QED
  BY <1>3, <1>4, <1>5 DEF IInv, NobodyWaits, Init

\* A worker between two steps that own a slot makes the count positive.
LEMMA OwnerCounts ==
    ASSUME NEW w \in Workers, at[w] \in SlotSteps
    PROVE  Cardinality(Owners) >= 1
<1>1. w \in Owners
  BY DEF Owners
<1> QED
  BY <1>1, CountsAreNaturals, FS_EmptySet

LEMMA NextType == TypeOK /\ SlotsBalance /\ [Next]_vars => TypeOK'
<1> SUFFICES ASSUME TypeOK, SlotsBalance, [Next]_vars PROVE TypeOK'
  OBVIOUS
<1> USE PoolAssumption DEF TypeOK, Goes, Hold, Forget, WorkerSteps, SlotSteps, HoldingSteps
<1>0. CASE UNCHANGED vars
  BY <1>0 DEF vars
<1>1. ASSUME NEW w \in Workers, Acquire(w) \/ AcquireNext(w) \/ GiveUp(w) \/ ReleaseNext(w)
      PROVE  TypeOK'
  <2>1. CASE Acquire(w)
    BY <1>1, <2>1 DEF Acquire
  <2>2. CASE Take(w)
    <3>1. Head(pages) \in Pages /\ pages' \in Seq(Pages)
      BY <2>2 DEF Take
    <3>2. at[w] \in {"fast", "wait"} /\ \E s \in {"checkFast", "checkWait"} :
                                         at' = [at EXCEPT ![w] = s]
      BY <2>2 DEF Take
    <3>3. page' = [page EXCEPT ![w] = Head(pages)] /\ UNCHANGED <<created, uses, closed>>
      BY <2>2 DEF Take
    <3> QED
      BY <3>1, <3>2, <3>3
  <2>3. CASE TakeLive(w)
    BY <1>1, <2>3 DEF TakeLive
  <2>4. CASE TakeDead(w)
    BY <1>1, <2>4 DEF TakeDead
  <2>5. CASE Discard(w)
    <3>1. page[w] \in Pages
      BY <2>5 DEF Discard
    <3>2. created' \in 0 .. MaxPages
      BY <2>5 DEF Discard
    <3>3. uses' \in [Pages -> Nat]
      BY <2>5 DEF Discard
    <3>4. \E s \in {"fast", "wait"} : at' = [at EXCEPT ![w] = s]
      BY <2>5 DEF Discard
    <3>5. page' = [page EXCEPT ![w] = NoPage] /\ UNCHANGED <<pages, closed>>
      BY <2>5 DEF Discard
    <3> QED
      BY <3>2, <3>3, <3>4, <3>5
  <2>6. CASE FastEmpty(w)
    BY <1>1, <2>6 DEF FastEmpty
  <2>7. CASE Reserve(w)
    BY <1>1, <2>7 DEF Reserve
  <2>8. CASE CreateOK(w)
    BY <1>1, <2>8 DEF CreateOK, Unused
  <2>9. CASE CreateFails(w)
    BY <1>1, <2>9, OwnerCounts, CountsAreNaturals DEF CreateFails, SlotsBalance
  <2>10. CASE GiveUp(w)
    BY <1>1, <2>10 DEF GiveUp
  <2>11. CASE ReleaseDead(w)
    BY <1>1, <2>11 DEF ReleaseDead
  <2>12. CASE ReleaseLive(w)
    BY <1>1, <2>12 DEF ReleaseLive
  <2>13. CASE CountUse(w)
    <3>1. page[w] \in Pages /\ uses[page[w]] \in Nat
      BY <2>13 DEF CountUse
    <3>2. CASE Worn(page[w])
      <4>1. uses' = [uses EXCEPT ![page[w]] = 0]
        BY <2>13, <3>2 DEF CountUse
      <4>2. uses' \in [Pages -> Nat]
        BY <3>1, <4>1
      <4> QED
        BY <2>13, <3>2, <4>2 DEF CountUse
    <3>3. CASE ~Worn(page[w])
      <4>1. uses' \in [Pages -> Nat]
        BY <2>13, <3>1, <3>3 DEF CountUse
      <4> QED
        BY <2>13, <3>3, <4>1 DEF CountUse
    <3> QED
      BY <3>2, <3>3
  <2>14. CASE Send(w)
    BY <1>1, <2>14 DEF Send
  <2>15. CASE Retire(w)
    BY <1>1, <2>15 DEF Retire
  <2>16. CASE ReplenishOK(w)
    <3>1. PICK p \in Unused : ReplenishOK(w)!2!(p)
      BY <2>16 DEF ReplenishOK
    <3>2. p \in Pages
      BY DEF Unused
    <3>3. Append(pages, p) \in Seq(Pages)
      BY <3>2
    <3>4. pages' \in Seq(Pages) /\ closed' \subseteq Pages
      BY <3>1, <3>3
    <3>5. created' \in 0 .. MaxPages
      BY <2>16 DEF ReplenishOK
    <3> QED
      BY <2>16, <3>4, <3>5 DEF ReplenishOK
  <2>17. CASE ReplenishFails(w)
    BY <1>1, <2>17 DEF ReplenishFails
  <2> QED
    BY <1>1, <2>1, <2>2, <2>3, <2>4, <2>5, <2>6, <2>7, <2>8, <2>9, <2>10, <2>11, <2>12, <2>13, <2>14, <2>15, <2>16, <2>17 DEF AcquireNext, ReleaseNext
<1>2. ASSUME NEW p \in Pages, PageDies(p) PROVE TypeOK'
  BY <1>2 DEF PageDies
<1> QED
  BY <1>0, <1>1, <1>2 DEF Next

-----------------------------------------------------------------------------
(* The accounting.  Slots(s) and Waits(s) are what a worker at step s adds   *)
(* to the two counts.                                                        *)

Slots(s) == IF s \in SlotSteps THEN 1 ELSE 0
Waits(s) == IF s \in {"slow", "wait"} THEN 1 ELSE 0

\* What a step owes the invariant: `created` follows the channel and the slots,
\* and the channel is empty or the tabs and the waiting do not grow together.
Balanced(w, to) ==
    /\ at' = [at EXCEPT ![w] = to]
    /\ Len(pages') \in Nat
    /\ created' = created + (Len(pages') - Len(pages)) + Slots(to) - Slots(at[w])
    /\ created' <= MaxPages
    /\ \/ to \in {"slow", "wait"} /\ pages' = <<>>
       \/ created' + Waits(to) <= created + Waits(at[w])

LEMMA BalancedPreserves ==
    ASSUME TypeOK, TypeOK', SlotsBalance, WaitersAreSpare,
           NEW w \in Workers, NEW to \in WorkerSteps, Balanced(w, to)
    PROVE  SlotsBalance' /\ WaitersAreSpare'
<1>1. /\ Cardinality(Owners') = Cardinality(Owners) + Slots(to) - Slots(at[w])
      /\ Cardinality(Waiting') = Cardinality(Waiting) + Waits(to) - Waits(at[w])
  BY MoveCounts DEF TypeOK, Balanced, Slots, Waits
<1>2. Len(pages) \in Nat /\ created \in Int /\ created' \in Int
  BY DEF TypeOK
<1>3. SlotsBalance'
  BY <1>1, <1>2, CountsAreNaturals DEF SlotsBalance, Balanced, Slots
<1>4. CASE to \in {"slow", "wait"} /\ pages' = <<>>
  <2>1. /\ Owners' \subseteq Workers /\ Waiting' \subseteq Workers
        /\ Owners' \cap Waiting' = {}
    BY DEF Owners, Waiting, SlotSteps, HoldingSteps
  <2>2. Cardinality(Owners') + Cardinality(Waiting') <= Cardinality(Workers)
    <3>1. Cardinality(Owners') \in Int /\ Cardinality(Waiting') \in Int
      BY <1>1, CountsAreNaturals DEF Slots, Waits
    <3> QED
      BY <2>1, <3>1, CountsAreNaturals, FS_MajoritiesIntersect
  <2>3. created' = Cardinality(Owners')
    BY <1>1, <1>2, <1>3, <1>4, CountsAreNaturals DEF SlotsBalance, Slots
  <2> QED
    BY <1>3, <2>2, <2>3 DEF WaitersAreSpare
<1>5. CASE created' + Waits(to) <= created + Waits(at[w])
  <2>1. Waits(to) \in Int /\ Waits(at[w]) \in Int
    BY DEF Waits
  <2>2. Cardinality(Waiting') \in Int
    BY <1>1, <2>1, CountsAreNaturals
  <2>3. created' + Cardinality(Waiting') <= created + Cardinality(Waiting)
    BY <1>1, <1>2, <1>5, <2>1, CountsAreNaturals
  <2> QED
    BY <1>2, <1>3, <2>2, <2>3, CountsAreNaturals DEF WaitersAreSpare
<1> QED
  BY <1>3, <1>4, <1>5 DEF Balanced

LEMMA NextCounts ==
    IInv /\ [Next]_vars => SlotsBalance' /\ WaitersAreSpare'
<1> SUFFICES ASSUME IInv, [Next]_vars PROVE SlotsBalance' /\ WaitersAreSpare'
  OBVIOUS
<1>0. TypeOK /\ TypeOK' /\ SlotsBalance /\ WaitersAreSpare
  BY NextType DEF IInv
<1>1. CASE UNCHANGED vars
  BY <1>0, <1>1 DEF vars, SlotsBalance, WaitersAreSpare, Owners, Waiting
<1>2. ASSUME NEW w \in Workers, Acquire(w) \/ AcquireNext(w) \/ GiveUp(w) \/ ReleaseNext(w)
      PROVE  \E to \in WorkerSteps : Balanced(w, to)
  <2> USE <1>0, PoolAssumption
          DEF TypeOK, Goes, Balanced, Slots, Waits, WorkerSteps, SlotSteps, HoldingSteps
  <2>1. CASE Acquire(w)
    BY <2>1 DEF Acquire
  <2>2. CASE Take(w)
    <3>1. Len(pages') = Len(pages) - 1 /\ Len(pages') \in Nat
      BY <2>2 DEF Take
    <3>2. CASE Goes(w, "fast", "checkFast")
      BY <2>2, <3>1, <3>2 DEF Take
    <3>3. CASE Goes(w, "wait", "checkWait")
      BY <2>2, <3>1, <3>3 DEF Take
    <3> QED
      BY <2>2, <3>2, <3>3 DEF Take
  <2>3. CASE TakeLive(w)
    BY <2>3 DEF TakeLive
  <2>4. CASE TakeDead(w)
    BY <2>4 DEF TakeDead
  <2>5. CASE Discard(w)
    <3>1. at[w] \in {"discardFast", "discardWait"}
      BY <2>5 DEF Discard
    <3>2. Len(pages) < MaxPages /\ created > 0
      BY <3>1, OwnerCounts, CountsAreNaturals DEF SlotsBalance
    <3> QED
      BY <2>5, <3>1, <3>2 DEF Discard
  <2>6. CASE FastEmpty(w)
    BY <2>6 DEF FastEmpty
  <2>7. CASE Reserve(w)
    <3>1. CASE created < MaxPages
      BY <2>7, <3>1 DEF Reserve
    <3>2. CASE ~(created < MaxPages)
      BY <2>7, <3>2 DEF Reserve
    <3> QED
      BY <3>1, <3>2
  <2>8. CASE CreateOK(w)
    BY <2>8 DEF CreateOK
  <2>9. CASE CreateFails(w)
    BY <2>9 DEF CreateFails
  <2>10. CASE GiveUp(w)
    BY <2>10 DEF GiveUp
  <2>11. CASE ReleaseDead(w)
    BY <2>11 DEF ReleaseDead
  <2>12. CASE ReleaseLive(w)
    BY <2>12 DEF ReleaseLive
  <2>13. CASE CountUse(w)
    BY <2>13 DEF CountUse
  <2>14. CASE Send(w)
    <3>1. at[w] \in {"send"}
      BY <2>14 DEF Send
    <3>2. Len(pages) < MaxPages /\ created > 0
      BY <3>1, OwnerCounts, CountsAreNaturals DEF SlotsBalance
    <3>3. Len(pages') = Len(pages) + 1
      BY <2>14, <3>1 DEF Send
    <3> QED
      BY <2>14, <3>1, <3>2, <3>3 DEF Send
  <2>15. CASE Retire(w)
    BY <2>15 DEF Retire
  <2>16. CASE ReplenishOK(w)
    <3>1. at[w] \in {"replenish"}
      BY <2>16 DEF ReplenishOK
    <3>2. Len(pages) < MaxPages /\ created > 0
      BY <3>1, OwnerCounts, CountsAreNaturals DEF SlotsBalance
    <3>3. PICK p \in Unused : ReplenishOK(w)!2!(p)
      BY <2>16 DEF ReplenishOK
    <3>4. p \in Pages /\ pages' = Append(pages, p) /\ created' = created
      BY <3>2, <3>3 DEF Unused
    <3>5. Len(pages') = Len(pages) + 1
      BY <3>4
    <3> QED
      BY <2>16, <3>1, <3>2, <3>4, <3>5 DEF ReplenishOK
  <2>17. CASE ReplenishFails(w)
    <3>1. at[w] \in {"replenish"}
      BY <2>17 DEF ReplenishFails
    <3>2. Len(pages) < MaxPages /\ created > 0
      BY <3>1, OwnerCounts, CountsAreNaturals DEF SlotsBalance
    <3> QED
      BY <2>17, <3>1, <3>2 DEF ReplenishFails
  <2> QED
    BY <1>2, <2>1, <2>2, <2>3, <2>4, <2>5, <2>6, <2>7, <2>8, <2>9, <2>10, <2>11, <2>12, <2>13, <2>14, <2>15, <2>16, <2>17 DEF AcquireNext, ReleaseNext
<1>3. ASSUME NEW p \in Pages, PageDies(p) PROVE SlotsBalance' /\ WaitersAreSpare'
  BY <1>0, <1>3 DEF PageDies, SlotsBalance, WaitersAreSpare, Owners, Waiting
<1> QED
  BY <1>0, <1>1, <1>2, <1>3, BalancedPreserves DEF Next

-----------------------------------------------------------------------------
(* The theorems. *)

LEMMA NextIInv == IInv /\ [Next]_vars => IInv'
<1> SUFFICES ASSUME IInv, [Next]_vars PROVE NobodyWaits'
  BY NextType, NextCounts DEF IInv
<1> DEFINE BlockingLoop == {"wait", "checkWait", "discardWait"}
<1> SUFFICES ASSUME Cardinality(Workers) <= MaxPages
             PROVE  \A w \in Workers : at'[w] \notin BlockingLoop
  BY DEF NobodyWaits
<1>1. \A w \in Workers : at[w] \notin BlockingLoop
  BY DEF IInv, NobodyWaits
<1>2. ASSUME NEW w \in Workers, Reserve(w) PROVE created < MaxPages
  <2>1. w \in Waiting
    BY <1>2 DEF Reserve, Goes, Waiting
  <2>2. Cardinality(Waiting) >= 1
    BY <2>1, CountsAreNaturals, FS_EmptySet
  <2>3. created + Cardinality(Waiting) <= Cardinality(Workers)
    BY <2>1 DEF IInv, WaitersAreSpare
  <2>4. created \in Int /\ MaxPages \in Int
    BY PoolAssumption DEF IInv, TypeOK
  <2> QED
    BY <2>2, <2>3, <2>4, CountsAreNaturals
<1>3. at \in [Workers -> WorkerSteps]
  BY DEF IInv, TypeOK
<1>4. CASE UNCHANGED vars
  BY <1>1, <1>4 DEF vars
<1>5. ASSUME NEW v \in Workers, Acquire(v) \/ AcquireNext(v) \/ GiveUp(v) \/ ReleaseNext(v)
      PROVE  \E to \in WorkerSteps \ BlockingLoop : at' = [at EXCEPT ![v] = to]
  <2> USE <1>1, <1>2, <1>5 DEF Goes, WorkerSteps, SlotSteps, HoldingSteps
  <2>1. CASE Acquire(v) \/ Take(v) \/ TakeLive(v) \/ TakeDead(v)
    BY <2>1 DEF Acquire, Take, TakeLive, TakeDead
  <2>2. CASE Discard(v) \/ FastEmpty(v) \/ Reserve(v) \/ CreateOK(v) \/ CreateFails(v) \/ GiveUp(v)
    BY <2>2 DEF Discard, FastEmpty, Reserve, CreateOK, CreateFails, GiveUp
  <2>3. CASE ReleaseDead(v) \/ ReleaseLive(v) \/ CountUse(v) \/ Send(v) \/ Retire(v)
    BY <2>3 DEF ReleaseDead, ReleaseLive, CountUse, Send, Retire
  <2>4. CASE ReplenishOK(v) \/ ReplenishFails(v)
    BY <2>4 DEF ReplenishOK, ReplenishFails
  <2> QED
    BY <2>1, <2>2, <2>3, <2>4 DEF AcquireNext, ReleaseNext
<1>6. ASSUME NEW p \in Pages, PageDies(p) PROVE at' = at
  BY <1>6 DEF PageDies
<1> QED
  BY <1>1, <1>3, <1>4, <1>5, <1>6 DEF Next

LEMMA IInvHolds == Spec => []IInv
<1> QED
  BY InitIInv, NextIInv, PTL DEF Spec

\* Only the channel and the workers' hands matter to who owns a page.
LEMMA NextOwned == TypeOK /\ PageOwnedOnce /\ [Next]_vars => PageOwnedOnce'
<1> SUFFICES ASSUME TypeOK, PageOwnedOnce, [Next]_vars PROVE PageOwnedOnce'
  OBVIOUS
<1> USE PoolAssumption DEF TypeOK, PageOwnedOnce, Pooled, Goes, Hold
<1>1. CASE UNCHANGED <<pages, page>>
  BY <1>1
<1>2. ASSUME NEW w \in Workers, UNCHANGED pages, page' = [page EXCEPT ![w] = NoPage]
      PROVE  PageOwnedOnce'
  BY <1>2
<1>3. ASSUME NEW w \in Workers, Take(w) PROVE PageOwnedOnce'
  <2>1. /\ pages # <<>> /\ Len(pages) \in Nat \ {0}
        /\ pages' = Tail(pages) /\ page' = [page EXCEPT ![w] = pages[1]]
    BY <1>3 DEF Take
  <2>2. Len(pages') = Len(pages) - 1 /\ \A i \in 1 .. Len(pages') : pages'[i] = pages[i + 1]
    BY <2>1
  <2> QED
    BY <2>1, <2>2
<1>4. ASSUME NEW w \in Workers, CreateOK(w) PROVE PageOwnedOnce'
  BY <1>4 DEF CreateOK, Unused, Held
<1>5. ASSUME NEW p \in Pages, ~Pooled(p), pages' = Append(pages, p)
      PROVE  /\ \A i, j \in 1 .. Len(pages') : pages'[i] = pages'[j] => i = j
             /\ \A q : Pooled(q)' => Pooled(q) \/ q = p
  BY <1>5
<1>6. ASSUME NEW w \in Workers, Send(w) PROVE PageOwnedOnce'
  <2>1. /\ page[w] \in Pages /\ pages' = Append(pages, page[w])
        /\ page' = [page EXCEPT ![w] = NoPage]
    BY <1>6 DEF Send, HoldingSteps
  <2> QED
    BY <1>5, <2>1
<1>7. ASSUME NEW w \in Workers, ReplenishOK(w) PROVE PageOwnedOnce'
  <2>1. PICK p \in Unused : ReplenishOK(w)!2!(p)
    BY <1>7 DEF ReplenishOK
  <2>2. page' = page /\ p \in Pages /\ ~Pooled(p) /\ \A v \in Workers : page[v] # p
    BY <1>7 DEF ReplenishOK, Unused, Held
  <2>3. CASE pages' = Append(pages, p)
    <3>1. /\ \A i, j \in 1 .. Len(pages') : pages'[i] = pages'[j] => i = j
          /\ \A q : Pooled(q)' => Pooled(q) \/ q = p
      BY <1>5, <2>2, <2>3
    <3>2. ASSUME NEW v \in Workers PROVE ~Pooled(page[v])'
      BY <2>2, <3>1
    <3> QED
      BY <2>2, <3>1, <3>2
  <2> QED
    BY <1>1, <2>1, <2>2, <2>3
<1>8. ASSUME NEW w \in Workers, CountUse(w)
      PROVE  UNCHANGED pages /\ (page' = [page EXCEPT ![w] = NoPage] \/ page' = page)
  BY <1>8 DEF CountUse
<1>9. ASSUME NEW w \in Workers, Acquire(w) \/ AcquireNext(w) \/ GiveUp(w) \/ ReleaseNext(w)
      PROVE  PageOwnedOnce'
  <2>1. CASE Acquire(w) \/ TakeLive(w) \/ TakeDead(w) \/ FastEmpty(w) \/ Reserve(w)
             \/ CreateFails(w) \/ GiveUp(w) \/ ReleaseLive(w) \/ ReplenishFails(w)
    BY <1>1, <2>1 DEF Acquire, TakeLive, TakeDead, FastEmpty, Reserve, CreateFails,
                      GiveUp, ReleaseLive, ReplenishFails
  <2>2. CASE Discard(w) \/ ReleaseDead(w) \/ Retire(w)
    BY <1>2, <2>2 DEF Discard, ReleaseDead, Retire
  <2> QED
    BY <1>1, <1>2, <1>3, <1>4, <1>6, <1>7, <1>8, <1>9, <2>1, <2>2 DEF AcquireNext, ReleaseNext
<1>10. ASSUME NEW p \in Pages, PageDies(p) PROVE PageOwnedOnce'
  BY <1>1, <1>10 DEF PageDies
<1> QED
  BY <1>1, <1>9, <1>10 DEF Next, vars

\* A page leaves the channel for a hand, a hand for the channel, or is forgotten.
LEMMA NextUses == TypeOK /\ UsesFollowPages /\ [Next]_vars => UsesFollowPages'
<1> SUFFICES ASSUME TypeOK, UsesFollowPages, [Next]_vars PROVE UsesFollowPages'
  OBVIOUS
<1> USE PoolAssumption DEF TypeOK, UsesFollowPages, Pooled, Held, Goes, Hold, Forget
<1>1. CASE UNCHANGED <<pages, page, uses>>
  BY <1>1
<1>2. ASSUME NEW w \in Workers, UNCHANGED pages, page[w] \in Pages,
             page' = [page EXCEPT ![w] = NoPage], uses' = [uses EXCEPT ![page[w]] = 0]
      PROVE  UsesFollowPages'
  BY <1>2
<1>3. ASSUME NEW w \in Workers, Take(w) PROVE UsesFollowPages'
  <2>1. /\ pages # <<>> /\ Len(pages) \in Nat \ {0} /\ page[w] \notin Pages
        /\ pages' = Tail(pages) /\ page' = [page EXCEPT ![w] = pages[1]] /\ uses' = uses
    BY <1>3 DEF Take, HoldingSteps
  <2>2. Len(pages') = Len(pages) - 1 /\ \A i \in 1 .. Len(pages') : pages'[i] = pages[i + 1]
    BY <2>1
  <2>3. ASSUME NEW p \in Pages, NEW i \in 1 .. Len(pages), pages[i] = p
        PROVE  Pooled(p)' \/ Held(p)'
    <3>1. CASE i = 1
      BY <2>1, <2>3, <3>1
    <3>2. CASE i # 1
      <4>1. i - 1 \in 1 .. Len(pages') /\ pages'[i - 1] = p
        BY <2>1, <2>2, <2>3, <3>2
      <4> QED
        BY <4>1
    <3> QED
      BY <3>1, <3>2
  <2>4. ASSUME NEW p \in Pages, NEW v \in Workers, page[v] = p PROVE page'[v] = p
    BY <2>1, <2>4
  <2> QED
    BY <2>1, <2>3, <2>4
<1>4. ASSUME NEW w \in Workers, CreateOK(w) PROVE UsesFollowPages'
  <2>1. page[w] \notin Pages
    BY <1>4 DEF CreateOK, HoldingSteps
  <2> QED
    BY <1>4, <2>1 DEF CreateOK
<1>5. ASSUME NEW p \in Pages, pages' = Append(pages, p)
      PROVE  Pooled(p)' /\ \A q : Pooled(q) => Pooled(q)'
  BY <1>5
<1>6. ASSUME NEW w \in Workers, Send(w) PROVE UsesFollowPages'
  <2>1. /\ page[w] \in Pages /\ pages' = Append(pages, page[w])
        /\ page' = [page EXCEPT ![w] = NoPage] /\ uses' = uses
    BY <1>6 DEF Send, HoldingSteps
  <2>2. \A q : Pooled(q) \/ q = page[w] => Pooled(q)'
    BY <1>5, <2>1
  <2>3. ASSUME NEW p \in Pages, NEW v \in Workers, page[v] = p PROVE Pooled(p)' \/ Held(p)'
    BY <2>1, <2>2, <2>3
  <2> QED
    BY <2>1, <2>2, <2>3
<1>7. ASSUME NEW w \in Workers, ReplenishOK(w) PROVE UsesFollowPages'
  <2>1. PICK p \in Unused : ReplenishOK(w)!2!(p)
    BY <1>7 DEF ReplenishOK
  <2>2. page' = page /\ uses' = uses /\ p \in Pages
    BY <1>7 DEF ReplenishOK, Unused
  <2>3. CASE pages' = Append(pages, p)
    <3>1. \A q : Pooled(q) => Pooled(q)'
      BY <1>5, <2>2, <2>3
    <3> QED
      BY <2>2, <3>1
  <2> QED
    BY <1>1, <2>1, <2>2, <2>3
<1>8. ASSUME NEW w \in Workers, CountUse(w) PROVE UsesFollowPages'
  <2>1. page[w] \in Pages /\ UNCHANGED pages
    BY <1>8 DEF CountUse, HoldingSteps
  <2>2. CASE Worn(page[w])
    BY <1>2, <1>8, <2>1, <2>2 DEF CountUse
  <2>3. CASE ~Worn(page[w])
    <3>1. uses' = [uses EXCEPT ![page[w]] = @ + 1] /\ page' = page
      BY <1>8, <2>3 DEF CountUse
    <3>2. uses[page[w]] + 1 < MaxUses
      BY <2>1, <2>3 DEF Worn
    <3> QED
      BY <2>1, <3>1, <3>2
  <2> QED
    BY <2>2, <2>3
<1>9. ASSUME NEW w \in Workers, Acquire(w) \/ AcquireNext(w) \/ GiveUp(w) \/ ReleaseNext(w)
      PROVE  UsesFollowPages'
  <2>1. CASE Acquire(w) \/ TakeLive(w) \/ TakeDead(w) \/ FastEmpty(w) \/ Reserve(w)
             \/ CreateFails(w) \/ GiveUp(w) \/ ReleaseLive(w) \/ ReplenishFails(w)
    BY <1>1, <2>1 DEF Acquire, TakeLive, TakeDead, FastEmpty, Reserve, CreateFails,
                      GiveUp, ReleaseLive, ReplenishFails
  <2>2. CASE Discard(w) \/ ReleaseDead(w) \/ Retire(w)
    BY <1>2, <2>2 DEF Discard, ReleaseDead, Retire, HoldingSteps
  <2> QED
    BY <1>3, <1>4, <1>6, <1>7, <1>8, <1>9, <2>1, <2>2 DEF AcquireNext, ReleaseNext
<1>10. ASSUME NEW p \in Pages, PageDies(p) PROVE UsesFollowPages'
  BY <1>1, <1>10 DEF PageDies
<1> QED
  BY <1>1, <1>9, <1>10 DEF Next, vars

\* The variables of the pool keep their types; in particular `created` never
\* leaves 0 .. max and exactly the workers between receiving and giving up a
\* page hold one.
THEOREM PoolTypeCorrect == Spec => []TypeOK
<1>1. IInv => TypeOK
  BY DEF IInv
<1> QED
  BY <1>1, IInvHolds, PTL

\* Slot accounting of AcquirePage, ReleasePage, RetirePage, discardPage and
\* replenish: created is the idle pages plus the slots that workers own.
THEOREM SlotsAlwaysBalance == Spec => []SlotsBalance
<1>1. IInv => SlotsBalance
  BY DEF IInv
<1> QED
  BY <1>1, IInvHolds, PTL

\* The send that ends ReleasePage never blocks and replenish never finds the
\* channel full: a worker about to send owns one of at most MaxPages slots.
THEOREM SendsNeverBlock == Spec => []SendNeverBlocks
<1>1. IInv => SendNeverBlocks
  <2> SUFFICES ASSUME IInv, NEW w \in Workers, at[w] \in {"send", "replenish"}
               PROVE  Len(pages) < MaxPages
    BY DEF SendNeverBlocks
  <2>1. Cardinality(Owners) >= 1
    BY OwnerCounts DEF SlotSteps, HoldingSteps
  <2> QED
    BY <2>1, CountsAreNaturals, PoolAssumption DEF IInv, TypeOK, SlotsBalance
<1> QED
  BY <1>1, IInvHolds, PTL

\* Tabs and waiting workers are together never more than the workers, whatever
\* dies or fails: AcquirePage makes a worker wait only for want of tabs.
THEOREM WaitersAlwaysSpare == Spec => []WaitersAreSpare
<1>1. IInv => WaitersAreSpare
  BY DEF IInv
<1> QED
  BY <1>1, IInvHolds, PTL

\* A tab is in one place, the channel or one worker's hands: no two goroutines
\* ever drive the same Chromium tab, however pages die and are replaced.
THEOREM PagesOwnedOnce == Spec => []PageOwnedOnce
<1>1. Init => PageOwnedOnce
  BY PoolAssumption DEF Init, PageOwnedOnce, Pooled
<1>2. TypeOK /\ PageOwnedOnce /\ [Next]_vars => PageOwnedOnce'
  BY NextOwned
<1> QED
  BY <1>1, <1>2, PoolTypeCorrect, PTL DEF Spec

\* Browser.uses has entries for pages that exist only, and a page that has had
\* its last scrape is out of use: the map cannot grow with the pages it outlives.
THEOREM UsesAlwaysFollow == Spec => []UsesFollowPages
<1>1. Init => UsesFollowPages
  BY DEF Init, UsesFollowPages
<1>2. TypeOK /\ UsesFollowPages /\ [Next]_vars => UsesFollowPages'
  BY NextUses
<1> QED
  BY <1>1, <1>2, PoolTypeCorrect, PTL DEF Spec

\* Where the pool has a page for every worker, as main builds it, AcquirePage
\* never reaches its blocking loop, so acquireTimeout never ends a run.
THEOREM NobodyEverWaits == Spec => []NobodyWaits
<1>1. IInv => NobodyWaits
  BY DEF IInv
<1> QED
  BY <1>1, IInvHolds, PTL

=============================================================================
