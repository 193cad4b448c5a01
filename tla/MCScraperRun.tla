---------------------------- MODULE MCScraperRun ----------------------------
(* Instances of ScraperRun for TLC. *)
EXTENDS ScraperRun, TLC

CONSTANTS w1, w2, p1, p2

\* Two URLs of one place (a place found by two queries under two spellings).
OnePlace == [u \in URLIDs |-> p1]

\* Every URL its own place.
OwnPlaces == [u \in URLIDs |-> IF u = 1 THEN p1 ELSE p2]

\* The first URL's entry has no identity at all.
FirstAnonymous == [u \in URLIDs |-> IF u = 1 THEN NoPlace ELSE p2]

FirstOnly == {1}
Everywhere == URLIDs

WorkerSymmetry == Permutations(Workers)
=============================================================================
