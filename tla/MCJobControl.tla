---------------------------- MODULE MCJobControl ----------------------------
(* Instances of JobControl for TLC. *)
EXTENDS JobControl, TLC

CONSTANTS p1, p2

\* Process ids are interchangeable.
ProcSymmetry == Permutations(Procs)
=============================================================================
