-------------------------- MODULE MCFeedDiscovery --------------------------
(* Instances of FeedDiscovery for TLC. *)
EXTENDS FeedDiscovery

CONSTANTS q1, q2, a, b, c, d, en, fr

\* A search, and a place ID whose page redirects to b.
TwoQueries  == <<q1, q2>>
DirectURL   == q2 :> d
Feeds       == q1 :> {<<a, b, c>>, <<c, a>>, <<b>>} @@ q2 :> {<<b>>}
Distances   == a :> 1 @@ c :> 2
TwoLangs    == <<en, fr>>
ScrapedOnes == {[url |-> a, lang |-> fr]}
=============================================================================
