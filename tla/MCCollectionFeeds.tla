--------------------------- MODULE MCCollectionFeeds ---------------------------
(* Every kind of feed, two records of two sessions, two faults. *)
EXTENDS CollectionFeeds

CONSTANTS s1, s2
TwoSessions == {s1, s2}
=============================================================================
