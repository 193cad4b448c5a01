-------------------------- MODULE MCPostgresWriter --------------------------
(* Instances of PostgresWriter for TLC. *)
EXTENDS PostgresWriter

CONSTANTS w1, w2, x, y, c1, c2, c3, p1, p2, d1, d2, r1, r2, r3

E(place, c, p, d, names) ==
    [place |-> place, cid |-> c, pid |-> p, did |-> d, reviews |-> names]

\* Two places; the cid of one differs between scrapes.
AliasEntries ==
    {E(x, c1, p1, d1, <<r1>>), E(x, c2, p1, d1, <<r1, r2>>), E(y, c3, p2, d2, <<r3>>)}

\* Two places whose payload has no cid.
AnonymousEntries == {E(x, NoID, p1, d1, <<r1>>), E(y, NoID, p2, d2, <<r2>>)}
=============================================================================
