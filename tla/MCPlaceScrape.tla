--------------------------- MODULE MCPlaceScrape ---------------------------
(* Instances of PlaceScrape for TLC.  No symmetry: the run checks liveness. *)
EXTENDS PlaceScrape

CONSTANTS w1, w2, t1, t2, u1, u2

TwoURLs == <<u1, u2>>
=============================================================================
