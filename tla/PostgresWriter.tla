--------------------------- MODULE PostgresWriter ---------------------------
(***************************************************************************)
(* PostgresWriter.Write (output/postgres.go): the row of a place is looked *)
(* up, written, and its reviews are added, each in a statement of its own, *)
(* while other processes write to the same tables.                         *)
(*                                                                         *)
(* Abstracted: the columns that identify nothing.  A writer that dies      *)
(* between two statements is one whose next statement fails.               *)
(***************************************************************************)
EXTENDS Naturals, SequencesExt

CONSTANTS
    Writers,     \* processes with a PostgresWriter for these tables
    Entries,     \* what may be written
    Places,      \* the places they describe
    Texts,       \* cids, place_ids and data_ids
    Names,       \* reviewer names
    NoID         \* the empty text

ASSUME WriterAssumption ==
    /\ NoID \in Texts
    /\ Entries # {}
    /\ Entries \subseteq [place : Places, cid : Texts, pid : Texts, did : Texts,
                          reviews : Seq(Names)]
    /\ \A e \in Entries : IsInjective(e.reviews)

\* Every payload carries a place_id and a data_id of its own place, and no two
\* places share a cid.
StableIdentities ==
    \A e, f \in Entries :
        /\ e.pid # NoID /\ e.did # NoID
        /\ e.pid = f.pid <=> e.place = f.place
        /\ e.did = f.did <=> e.place = f.place
        /\ e.cid = f.cid => e.place = f.place

VARIABLES
    rows,        \* the places table by its key, cid
    reviews,     \* the reviews table, by its key: cid and reviewer_name
    at,          \* where each writer is
    entry,       \* what it writes
    cid,         \* canonicalCID
    next,        \* the review it inserts next
    raced,       \* another writer has written since its lookup
    written      \* entries whose Write returned nil

vars == <<rows, reviews, at, entry, cid, next, raced, written>>

Init ==
    /\ rows = <<>>
    /\ reviews = {}
    /\ at = [w \in Writers |-> "idle"]
    /\ entry \in [Writers -> {CHOOSE e \in Entries : TRUE}]
    /\ cid = [w \in Writers |-> NoID]
    /\ next = [w \in Writers |-> 1]
    /\ raced = [w \in Writers |-> FALSE]
    /\ written = {}

-----------------------------------------------------------------------------
Goes(w, from, to) == at[w] = from /\ at' = [at EXCEPT ![w] = to]

Table == UNCHANGED <<rows, reviews, written>>

Write(w) ==
    /\ Goes(w, "idle", "lookup")
    /\ \E e \in Entries : entry' = [entry EXCEPT ![w] = e]
    /\ Table /\ UNCHANGED <<cid, next, raced>>

ByCID(e) == {c \in DOMAIN rows : e.cid # NoID /\ c = e.cid}

ByPlaceID(e) == {c \in DOMAIN rows : e.pid # NoID /\ rows[c].pid = e.pid}

ByDataID(e) == {c \in DOMAIN rows : e.did # NoID /\ rows[c].did = e.did}

\* Mutant: only the cid is looked up.
CanonicalByCID(e) == e.cid

\* The row with the same cid, else with the same place_id, else data_id; else none.
CanonicalCID(e) ==
    IF ByCID(e) # {} \/ ByPlaceID(e) \cup ByDataID(e) = {} THEN e.cid
    ELSE IF ByPlaceID(e) # {} THEN CHOOSE c \in ByPlaceID(e) : TRUE
    ELSE CHOOSE c \in ByDataID(e) : TRUE

Lookup(w) ==
    /\ Goes(w, "lookup", "upsert")
    /\ cid' = [cid EXCEPT ![w] = CanonicalCID(entry[w])]
    /\ raced' = [raced EXCEPT ![w] = FALSE]
    /\ Table /\ UNCHANGED <<entry, next>>

\* The unique indexes on place_id and data_id, which leave the empty text out.
Conflicts(c, e) == (ByPlaceID(e) \cup ByDataID(e)) \ {c} # {}

RowOf(e) == [place |-> e.place, pid |-> e.pid, did |-> e.did]

\* INSERT .. ON CONFLICT (cid) DO UPDATE: whatever the row held is overwritten.
Upserts(w) ==
    /\ ~Conflicts(cid[w], entry[w])
    /\ rows' = [c \in DOMAIN rows \cup {cid[w]} |->
                   IF c = cid[w] THEN RowOf(entry[w]) ELSE rows[c]]
    /\ raced' = [v \in Writers |-> raced[v] \/ v # w]
    /\ UNCHANGED <<reviews, written>>

Upsert(w) ==
    /\ Goes(w, "upsert", "reviews") /\ Upserts(w)
    /\ next' = [next EXCEPT ![w] = 1]
    /\ UNCHANGED <<entry, cid>>

UpsertRefused(w) ==
    /\ Goes(w, "upsert", "idle") /\ Conflicts(cid[w], entry[w])
    /\ Table /\ UNCHANGED <<entry, cid, next, raced>>

Review(w) == <<cid[w], entry[w].reviews[next[w]]>>

MoreReviews(w) == at[w] = "reviews" /\ next[w] <= Len(entry[w].reviews)

\* ON CONFLICT (cid, reviewer_name) DO NOTHING.
InsertReview(w) ==
    /\ MoreReviews(w)
    /\ reviews' = reviews \cup {Review(w)}
    /\ next' = [next EXCEPT ![w] = @ + 1]
    /\ UNCHANGED <<rows, at, entry, cid, raced, written>>

WriteOK(w) ==
    /\ Goes(w, "reviews", "idle") /\ ~MoreReviews(w)
    /\ written' = written \cup {entry[w]}
    /\ UNCHANGED <<rows, reviews, entry, cid, next, raced>>

\* Mutant: a review that cannot be written is left out.
SkipReview(w) ==
    \/ at[w] = "upsert" /\ Upserts(w) /\ at' = [at EXCEPT ![w] = "idle"]
       /\ UNCHANGED <<entry, cid, next>>
    \/ /\ MoreReviews(w)
       /\ next' = [next EXCEPT ![w] = @ + 1]
       /\ Table /\ UNCHANGED <<at, entry, cid, raced>>

\* A statement returns an error, or its answer does not come within the 30 s of
\* the Write, and its effect may be there: the Write returns the error.
StatementFails(w) ==
    /\ at[w] \in {"lookup", "upsert"} \/ MoreReviews(w)
    /\ at' = [at EXCEPT ![w] = "idle"]
    /\ \/ Table /\ UNCHANGED raced
       \/ at[w] = "upsert" /\ Upserts(w)
       \/ /\ at[w] = "reviews" /\ reviews' = reviews \cup {Review(w)}
          /\ UNCHANGED <<rows, raced, written>>
    /\ UNCHANGED <<entry, cid, next>>

Next == \E w \in Writers :
    \/ Write(w) \/ Lookup(w) \/ Upsert(w) \/ UpsertRefused(w)
    \/ InsertReview(w) \/ WriteOK(w) \/ StatementFails(w)

Spec == Init /\ [][Next]_vars

-----------------------------------------------------------------------------
(* Properties. *)

\* A place whose Write returned without an error, so that its URL is done and
\* never scraped again, has a row of its own with every one of its reviews,
\* whatever is written later and whichever statement of another Write fails.
WrittenPlaceHasRow ==
    \A e \in written : \E c \in DOMAIN rows :
        /\ rows[c].place = e.place
        /\ \A i \in DOMAIN e.reviews : <<c, e.reviews[i]>> \in reviews

\* The unique indexes refuse a row only to the loser of a race, whose place has
\* been inserted by another process since it looked: written again, it succeeds.
RefusalIsARace ==
    \A w \in Writers : at[w] = "upsert" /\ Conflicts(cid[w], entry[w]) => raced[w]

=============================================================================
