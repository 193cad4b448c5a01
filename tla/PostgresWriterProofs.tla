------------------------ MODULE PostgresWriterProofs ------------------------
(***************************************************************************)
(* Theorems about PostgresWriter, for payloads that identify their place   *)
(* (StableIdentities): what is reported as written is in the tables, and   *)
(* only the loser of a race is refused.                                    *)
(***************************************************************************)
EXTENDS PostgresWriter, TLAPS

-----------------------------------------------------------------------------
(* The inductive invariant. *)

\* Some payload of the place has this cid.
KeyOf(c, x) == \E e \in Entries : e.cid = c /\ e.place = x

HasRow(c, x) == c \in DOMAIN rows /\ rows[c].place = x

WriterTypeOK ==
    /\ at \in [Writers -> {"idle", "lookup", "upsert", "reviews"}]
    /\ entry \in [Writers -> Entries]
    /\ cid \in [Writers -> Texts]
    /\ next \in [Writers -> Nat]
    /\ raced \in [Writers -> BOOLEAN]
    /\ written \subseteq Entries

\* Whatever was written to it, a row is of the place its key belongs to.
RowsKeyed ==
    \A c \in DOMAIN rows : \E e \in Entries : rows[c] = RowOf(e) /\ KeyOf(c, e.place)

OneRowEach == \A c, d \in DOMAIN rows : rows[c].place = rows[d].place => c = d

\* Nobody else wrote since the lookup: the key found is that of the place's row,
\* or the place has none.
LookupHolds(w) ==
    \/ raced[w]
    \/ HasRow(cid[w], entry[w].place)
    \/ \A c \in DOMAIN rows : ~HasRow(c, entry[w].place)

AtUpsert ==
    \A w \in Writers : at[w] = "upsert" => KeyOf(cid[w], entry[w].place) /\ LookupHolds(w)

AtReviews ==
    \A w \in Writers : at[w] = "reviews" =>
        /\ HasRow(cid[w], entry[w].place)
        /\ \A i \in DOMAIN entry[w].reviews :
              i < next[w] => <<cid[w], entry[w].reviews[i]>> \in reviews

WriterInv ==
    WriterTypeOK /\ RowsKeyed /\ OneRowEach /\ AtUpsert /\ AtReviews /\ WrittenPlaceHasRow

-----------------------------------------------------------------------------
(* What stable identities give. *)

\* A cid belongs to one place.
LEMMA KeyOfOnePlace ==
    ASSUME StableIdentities, NEW c, NEW x, NEW y, KeyOf(c, x), KeyOf(c, y)
    PROVE  x = y
BY DEF StableIdentities, KeyOf

\* A row is found by its identifiers exactly when it is of the place.
LEMMA FoundByPlace ==
    ASSUME StableIdentities, RowsKeyed, NEW e \in Entries, NEW c \in DOMAIN rows
    PROVE  /\ c \in ByPlaceID(e) <=> rows[c].place = e.place
           /\ c \in ByDataID(e) <=> rows[c].place = e.place
BY DEF StableIdentities, RowsKeyed, RowOf, ByPlaceID, ByDataID

\* The unique indexes refuse what would be a second row of a place.
LEMMA ConflictIsSecondRow ==
    ASSUME StableIdentities, RowsKeyed, NEW e \in Entries, NEW c
    PROVE  Conflicts(c, e) <=> \E d \in DOMAIN rows : d # c /\ HasRow(d, e.place)
BY FoundByPlace DEF Conflicts, HasRow, ByPlaceID, ByDataID

\* The lookup finds the row of the place, or there is none.
LEMMA CanonicalIsRow ==
    ASSUME StableIdentities, RowsKeyed, NEW e \in Entries
    PROVE  /\ KeyOf(CanonicalCID(e), e.place)
           /\ \/ HasRow(CanonicalCID(e), e.place)
              \/ \A c \in DOMAIN rows : ~HasRow(c, e.place)
<1>1. KeyOf(e.cid, e.place)
  BY DEF KeyOf
<1>2. \A c \in DOMAIN rows : KeyOf(c, rows[c].place)
  BY DEF RowsKeyed, RowOf
<1>3. CASE ByCID(e) # {}
  <2>1. CanonicalCID(e) = e.cid /\ e.cid \in DOMAIN rows
    BY <1>3 DEF CanonicalCID, ByCID
  <2> QED
    BY <1>1, <1>2, <2>1, KeyOfOnePlace DEF HasRow
<1>4. CASE ByCID(e) = {} /\ ByPlaceID(e) \cup ByDataID(e) = {}
  <2>1. CanonicalCID(e) = e.cid
    BY <1>4 DEF CanonicalCID
  <2> QED
    BY <1>1, <1>4, <2>1, FoundByPlace DEF HasRow
<1>5. CASE ByCID(e) = {} /\ ByPlaceID(e) \cup ByDataID(e) # {}
  <2>1. CanonicalCID(e) \in ByPlaceID(e) \cup ByDataID(e)
    BY <1>5 DEF CanonicalCID
  <2>2. CanonicalCID(e) \in DOMAIN rows
    BY <2>1 DEF ByPlaceID, ByDataID
  <2> QED
    BY <1>2, <2>1, <2>2, FoundByPlace DEF HasRow
<1> QED
  BY <1>3, <1>4, <1>5

\* No payload's key is outside the texts.
LEMMA KeyIsText == ASSUME NEW c, NEW x, KeyOf(c, x) PROVE c \in Texts
BY WriterAssumption DEF KeyOf

-----------------------------------------------------------------------------
(* Every step preserves the invariant. *)

LEMMA InitWriter == Init => WriterInv
BY WriterAssumption
   DEF Init, WriterInv, WriterTypeOK, RowsKeyed, OneRowEach, AtUpsert, AtReviews,
       WrittenPlaceHasRow, HasRow

\* An upsert that is not refused keeps every row a row of its place, and the
\* places at one row each.
LEMMA UpsertKeeps ==
    ASSUME StableIdentities, WriterInv, NEW w \in Writers, at[w] = "upsert", Upserts(w)
    PROVE  /\ RowsKeyed' /\ OneRowEach'
           /\ cid[w] \in DOMAIN rows' /\ rows'[cid[w]].place = entry[w].place
           /\ \A c, x : HasRow(c, x) => HasRow(c, x)'
<1> DEFINE k == cid[w]
           e == entry[w]
<1>1. e \in Entries /\ KeyOf(k, e.place) /\ ~Conflicts(k, e)
  BY DEF WriterInv, WriterTypeOK, AtUpsert, Upserts
<1>2. /\ DOMAIN rows' = DOMAIN rows \cup {k}
      /\ rows'[k] = RowOf(e)
      /\ \A c \in DOMAIN rows : c # k => rows'[c] = rows[c]
  BY DEF Upserts
<1>3. RowsKeyed
  BY DEF WriterInv
<1>4. RowsKeyed'
  <2> SUFFICES ASSUME NEW c \in DOMAIN rows'
               PROVE  \E f \in Entries : rows'[c] = RowOf(f) /\ KeyOf(c, f.place)
    BY DEF RowsKeyed, RowOf, KeyOf
  <2>1. CASE c = k
    BY <2>1, <1>1, <1>2
  <2>2. CASE c # k
    BY <2>2, <1>2, <1>3 DEF RowsKeyed
  <2> QED
    BY <2>1, <2>2
<1>5. rows'[k].place = e.place
  BY <1>2 DEF RowOf
<1>6. \A d \in DOMAIN rows : d # k => rows[d].place # e.place
  BY <1>1, <1>3, ConflictIsSecondRow DEF HasRow
<1>7. OneRowEach'
  BY <1>2, <1>5, <1>6 DEF OneRowEach, WriterInv
<1>8. \A c, x : HasRow(c, x) => HasRow(c, x)'
  <2> SUFFICES ASSUME NEW c, NEW x, HasRow(c, x) PROVE c \in DOMAIN rows' /\ rows'[c].place = x
    BY DEF HasRow
  <2>1. c \in DOMAIN rows /\ rows[c].place = x /\ KeyOf(c, x)
    BY <1>3 DEF HasRow, RowsKeyed, RowOf
  <2>2. CASE c = k
    <3>1. x = e.place
      BY <2>1, <2>2, <1>1, KeyOfOnePlace
    <3> QED
      BY <3>1, <2>2, <1>2, <1>5
  <2>3. CASE c # k
    BY <2>1, <2>3, <1>2
  <2> QED
    BY <2>2, <2>3
<1> QED
  BY <1>2, <1>4, <1>5, <1>7, <1>8

\* What a step of one writer that leaves the places table alone owes.
LEMMA SameRows ==
    ASSUME WriterInv, UNCHANGED rows
    PROVE  RowsKeyed' /\ OneRowEach' /\ \A c, x : HasRow(c, x) <=> HasRow(c, x)'
BY DEF WriterInv, RowsKeyed, OneRowEach, HasRow, RowOf, KeyOf

\* Rows that stay and reviews that are only added to leave what was written there.
LEMMA WrittenStays ==
    ASSUME WriterInv, reviews \subseteq reviews', written' = written,
           \A c, x : HasRow(c, x) => HasRow(c, x)'
    PROVE  WrittenPlaceHasRow'
<1> SUFFICES ASSUME NEW e \in written
             PROVE  \E c \in DOMAIN rows' :
                       /\ rows'[c].place = e.place
                       /\ \A i \in DOMAIN e.reviews : <<c, e.reviews[i]>> \in reviews'
  BY DEF WrittenPlaceHasRow
<1>1. PICK c \in DOMAIN rows :
          /\ rows[c].place = e.place
          /\ \A i \in DOMAIN e.reviews : <<c, e.reviews[i]>> \in reviews
  BY DEF WriterInv, WrittenPlaceHasRow
<1>2. HasRow(c, e.place)'
  BY <1>1 DEF HasRow
<1> QED
  BY <1>1, <1>2 DEF HasRow

LEMMA WriteKeeps ==
    ASSUME StableIdentities, WriterInv, NEW w \in Writers, Write(w)
    PROVE  WriterInv'
<1> USE DEF Write, Goes, Table
<1>1. WriterTypeOK'
  BY DEF WriterInv, WriterTypeOK
<1>2. RowsKeyed' /\ OneRowEach' /\ \A c, x : HasRow(c, x) <=> HasRow(c, x)'
  BY SameRows
<1>3. AtUpsert'
  BY <1>2 DEF WriterInv, WriterTypeOK, AtUpsert, LookupHolds, HasRow, KeyOf
<1>4. AtReviews'
  BY <1>2 DEF WriterInv, WriterTypeOK, AtReviews, HasRow
<1>5. WrittenPlaceHasRow'
  BY <1>2, WrittenStays
<1> QED
  BY <1>1, <1>2, <1>3, <1>4, <1>5 DEF WriterInv

LEMMA LookupKeeps ==
    ASSUME StableIdentities, WriterInv, NEW w \in Writers, Lookup(w)
    PROVE  WriterInv'
<1> USE DEF Lookup, Goes, Table
<1> DEFINE k == CanonicalCID(entry[w])
<1>1. /\ KeyOf(k, entry[w].place)
      /\ HasRow(k, entry[w].place) \/ \A c \in DOMAIN rows : ~HasRow(c, entry[w].place)
  BY CanonicalIsRow DEF WriterInv, WriterTypeOK
<1>2. cid' = [cid EXCEPT ![w] = k] /\ k \in Texts
  BY <1>1, KeyIsText
<1> HIDE DEF k
<1>3. WriterTypeOK'
  BY <1>2 DEF WriterInv, WriterTypeOK
<1>4. RowsKeyed' /\ OneRowEach' /\ \A c, x : HasRow(c, x) <=> HasRow(c, x)'
  BY SameRows
<1>5. AtUpsert'
  <2> SUFFICES ASSUME NEW v \in Writers, at'[v] = "upsert"
               PROVE  KeyOf(cid'[v], entry'[v].place) /\ LookupHolds(v)'
    BY DEF AtUpsert, KeyOf
  <2>1. CASE v = w
    BY <2>1, <1>1, <1>2 DEF WriterInv, WriterTypeOK, LookupHolds, HasRow
  <2>2. CASE v # w
    BY <2>2, <1>2 DEF WriterInv, WriterTypeOK, AtUpsert, LookupHolds, HasRow
  <2> QED
    BY <2>1, <2>2
<1>6. AtReviews'
  BY <1>2 DEF WriterInv, WriterTypeOK, AtReviews, HasRow
<1>7. WrittenPlaceHasRow'
  BY <1>4, WrittenStays
<1> QED
  BY <1>3, <1>4, <1>5, <1>6, <1>7 DEF WriterInv

\* An upsert keeps the invariant, whether its writer goes on to the reviews or
\* does not learn that it was done.
LEMMA UpsertedKeeps ==
    ASSUME StableIdentities, WriterInv, NEW w \in Writers, at[w] = "upsert", Upserts(w),
           at' \in {[at EXCEPT ![w] = "reviews"], [at EXCEPT ![w] = "idle"]},
           next' \in {[next EXCEPT ![w] = 1], next},
           at'[w] = "reviews" => next' = [next EXCEPT ![w] = 1],
           UNCHANGED <<entry, cid>>
    PROVE  WriterInv'
<1>1. /\ RowsKeyed' /\ OneRowEach'
      /\ cid[w] \in DOMAIN rows' /\ rows'[cid[w]].place = entry[w].place
      /\ \A c, x : HasRow(c, x) => HasRow(c, x)'
  BY UpsertKeeps
<1>2. reviews' = reviews /\ written' = written /\ raced' = [v \in Writers |-> raced[v] \/ v # w]
  BY DEF Upserts
<1>3. WriterTypeOK'
  BY <1>2 DEF WriterInv, WriterTypeOK
<1>4. AtUpsert'
  <2> SUFFICES ASSUME NEW v \in Writers, at'[v] = "upsert"
               PROVE  KeyOf(cid[v], entry[v].place) /\ raced'[v]
    BY DEF AtUpsert, LookupHolds, KeyOf
  <2>1. v # w /\ at[v] = "upsert"
    BY DEF WriterInv, WriterTypeOK
  <2> QED
    BY <2>1, <1>2 DEF WriterInv, AtUpsert
<1>5. AtReviews'
  <2> SUFFICES ASSUME NEW v \in Writers, at'[v] = "reviews"
               PROVE  /\ cid[v] \in DOMAIN rows' /\ rows'[cid[v]].place = entry[v].place
                      /\ \A i \in DOMAIN entry[v].reviews :
                            i < next'[v] => <<cid[v], entry[v].reviews[i]>> \in reviews
    BY <1>2 DEF AtReviews, HasRow
  <2>1. CASE v = w
    <3>1. entry[w].reviews \in Seq(Names) /\ next'[w] = 1
      BY <2>1, WriterAssumption DEF WriterInv, WriterTypeOK
    <3> QED
      BY <1>1, <2>1, <3>1
  <2>2. CASE v # w
    <3>1. at[v] = "reviews" /\ next'[v] = next[v]
      BY <2>2 DEF WriterInv, WriterTypeOK
    <3>2. HasRow(cid[v], entry[v].place)'
              <=> cid[v] \in DOMAIN rows' /\ rows'[cid[v]].place = entry[v].place
      BY DEF HasRow
    <3> QED
      BY <1>1, <3>1, <3>2 DEF WriterInv, AtReviews, HasRow
  <2> QED
    BY <2>1, <2>2
<1>6. WrittenPlaceHasRow'
  BY <1>1, <1>2, WrittenStays
<1> QED
  BY <1>1, <1>3, <1>4, <1>5, <1>6 DEF WriterInv

LEMMA InsertReviewKeeps ==
    ASSUME WriterInv, NEW w \in Writers, MoreReviews(w),
           reviews' = reviews \cup {Review(w)},
           \/ next' = [next EXCEPT ![w] = @ + 1] /\ at' = at
           \/ next' = next /\ at' = [at EXCEPT ![w] = "idle"],
           UNCHANGED <<rows, entry, cid, raced, written>>
    PROVE  WriterInv'
<1>1. WriterTypeOK'
  BY DEF WriterInv, WriterTypeOK
<1>2. RowsKeyed' /\ OneRowEach' /\ \A c, x : HasRow(c, x) <=> HasRow(c, x)'
  BY SameRows
<1>3. AtUpsert'
  BY DEF WriterInv, WriterTypeOK, AtUpsert, LookupHolds, HasRow, KeyOf
<1>4. AtReviews'
  <2> SUFFICES ASSUME NEW v \in Writers, at'[v] = "reviews"
               PROVE  /\ HasRow(cid[v], entry[v].place)
                      /\ \A i \in DOMAIN entry[v].reviews :
                            i < next'[v] => <<cid[v], entry[v].reviews[i]>> \in reviews'
    BY DEF AtReviews, HasRow
  <2>1. at[v] = "reviews"
    BY DEF WriterInv, WriterTypeOK
  <2>2. entry[v].reviews \in Seq(Names)
    BY WriterAssumption DEF WriterInv, WriterTypeOK
  <2> SUFFICES ASSUME NEW i \in DOMAIN entry[v].reviews, i < next'[v]
               PROVE  <<cid[v], entry[v].reviews[i]>> \in reviews'
    BY <2>1 DEF WriterInv, AtReviews
  <2>3. CASE i < next[v]
    BY <2>1, <2>3 DEF WriterInv, AtReviews
  <2>4. CASE ~(i < next[v])
    <3>1. v = w /\ i = next[w]
      BY <2>2, <2>4 DEF WriterInv, WriterTypeOK
    <3> QED
      BY <3>1 DEF Review
  <2> QED
    BY <2>3, <2>4
<1>5. WrittenPlaceHasRow'
  BY <1>2, WrittenStays
<1> QED
  BY <1>1, <1>2, <1>3, <1>4, <1>5 DEF WriterInv

\* A Write that ends without touching the tables.
LEMMA EndsKeeps ==
    ASSUME WriterInv, NEW w \in Writers, at' = [at EXCEPT ![w] = "idle"],
           UNCHANGED <<rows, reviews, written, entry, cid, next, raced>>
    PROVE  WriterInv'
<1>1. WriterTypeOK'
  BY DEF WriterInv, WriterTypeOK
<1>2. RowsKeyed' /\ OneRowEach' /\ \A c, x : HasRow(c, x) <=> HasRow(c, x)'
  BY SameRows
<1>3. AtUpsert' /\ AtReviews'
  BY DEF WriterInv, WriterTypeOK, AtUpsert, AtReviews, LookupHolds, HasRow, KeyOf
<1>4. WrittenPlaceHasRow'
  BY <1>2, WrittenStays
<1> QED
  BY <1>1, <1>2, <1>3, <1>4 DEF WriterInv

LEMMA WriteOKKeeps ==
    ASSUME WriterInv, NEW w \in Writers, WriteOK(w)
    PROVE  WriterInv'
<1> USE DEF WriteOK, Goes
<1>1. WriterTypeOK'
  BY DEF WriterInv, WriterTypeOK
<1>2. RowsKeyed' /\ OneRowEach'
  BY SameRows
<1>3. AtUpsert' /\ AtReviews'
  BY DEF WriterInv, WriterTypeOK, AtUpsert, AtReviews, LookupHolds, HasRow, KeyOf
<1>4. WrittenPlaceHasRow'
  <2> SUFFICES ASSUME NEW e \in written'
               PROVE  \E c \in DOMAIN rows :
                         /\ rows[c].place = e.place
                         /\ \A i \in DOMAIN e.reviews : <<c, e.reviews[i]>> \in reviews
    BY DEF WrittenPlaceHasRow
  <2>1. CASE e \in written
    BY <2>1 DEF WriterInv, WrittenPlaceHasRow
  <2>2. CASE e = entry[w]
    <3>1. entry[w].reviews \in Seq(Names) /\ next[w] \in Nat
      BY WriterAssumption DEF WriterInv, WriterTypeOK
    <3>2. \A i \in DOMAIN entry[w].reviews : i < next[w]
      BY <3>1 DEF MoreReviews
    <3> QED
      BY <2>2, <3>2 DEF WriterInv, AtReviews, HasRow
  <2> QED
    BY <2>1, <2>2
<1> QED
  BY <1>1, <1>2, <1>3, <1>4 DEF WriterInv

LEMMA NextWriter == StableIdentities /\ WriterInv /\ [Next]_vars => WriterInv'
<1> SUFFICES ASSUME StableIdentities, WriterInv, [Next]_vars PROVE WriterInv'
  OBVIOUS
<1>1. CASE UNCHANGED vars
  BY <1>1 DEF vars, WriterInv, WriterTypeOK, RowsKeyed, OneRowEach, AtUpsert, AtReviews,
              WrittenPlaceHasRow, LookupHolds, HasRow, KeyOf, RowOf
<1> SUFFICES ASSUME NEW w \in Writers,
                    \/ Write(w) \/ Lookup(w) \/ Upsert(w) \/ UpsertRefused(w)
                    \/ InsertReview(w) \/ WriteOK(w) \/ StatementFails(w)
             PROVE  WriterInv'
  BY <1>1 DEF Next
<1>2. CASE Write(w)
  BY <1>2, WriteKeeps
<1>3. CASE Lookup(w)
  BY <1>3, LookupKeeps
<1>4. CASE Upsert(w)
  <2>1. /\ at[w] = "upsert" /\ Upserts(w) /\ at' = [at EXCEPT ![w] = "reviews"]
        /\ next' = [next EXCEPT ![w] = 1] /\ UNCHANGED <<entry, cid>>
    BY <1>4 DEF Upsert, Goes
  <2> QED
    BY <2>1, UpsertedKeeps
<1>5. CASE UpsertRefused(w)
  BY <1>5, EndsKeeps DEF UpsertRefused, Goes, Table
<1>6. CASE InsertReview(w)
  BY <1>6, InsertReviewKeeps DEF InsertReview
<1>7. CASE WriteOK(w)
  BY <1>7, WriteOKKeeps
<1>8. CASE StatementFails(w)
  <2>1. at' = [at EXCEPT ![w] = "idle"] /\ UNCHANGED <<entry, cid, next>>
    BY <1>8 DEF StatementFails
  <2>2. CASE Table /\ UNCHANGED raced
    BY <2>1, <2>2, EndsKeeps DEF Table
  <2>3. CASE at[w] = "upsert" /\ Upserts(w)
    <3>1. at'[w] = "idle"
      BY <2>1 DEF WriterInv, WriterTypeOK
    <3> QED
      BY <2>1, <2>3, <3>1, UpsertedKeeps
  <2>4. CASE at[w] = "reviews" /\ reviews' = reviews \cup {Review(w)}
             /\ UNCHANGED <<rows, raced, written>>
    <3>1. MoreReviews(w)
      BY <1>8, <2>4 DEF StatementFails
    <3> QED
      BY <2>1, <2>4, <3>1, InsertReviewKeeps
  <2> QED
    BY <1>8, <2>2, <2>3, <2>4 DEF StatementFails
<1> QED
  BY <1>2, <1>3, <1>4, <1>5, <1>6, <1>7, <1>8

-----------------------------------------------------------------------------
LEMMA WriterInvHolds == ASSUME StableIdentities PROVE Spec => []WriterInv
<1>1. Init => WriterInv
  BY InitWriter
<1>2. WriterInv /\ [Next]_vars => WriterInv'
  BY NextWriter
<1> QED
  BY <1>1, <1>2, PTL DEF Spec

\* Where payloads identify their place, a place whose Write returned without an
\* error keeps its row and all its reviews: neither a failing statement nor what
\* other processes write takes them away.
THEOREM WrittenStaysWritten == ASSUME StableIdentities PROVE Spec => []WrittenPlaceHasRow
<1>1. WriterInv => WrittenPlaceHasRow
  BY DEF WriterInv
<1> QED
  BY <1>1, WriterInvHolds, PTL

\* Where payloads identify their place, the unique indexes refuse an upsert only
\* when another process has written since this one's lookup.
THEOREM RefusedInRaces == ASSUME StableIdentities PROVE Spec => []RefusalIsARace
<1>1. WriterInv => RefusalIsARace
  <2> SUFFICES ASSUME WriterInv, NEW w \in Writers,
                      at[w] = "upsert", Conflicts(cid[w], entry[w])
               PROVE  raced[w]
    BY DEF RefusalIsARace
  <2>1. PICK d \in DOMAIN rows : d # cid[w] /\ HasRow(d, entry[w].place)
    BY ConflictIsSecondRow DEF WriterInv, WriterTypeOK
  <2>2. LookupHolds(w)
    BY DEF WriterInv, AtUpsert
  <2> QED
    BY <2>1, <2>2 DEF LookupHolds, HasRow, WriterInv, OneRowEach
<1> QED
  BY <1>1, WriterInvHolds, PTL

=============================================================================
