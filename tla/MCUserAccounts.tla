--------------------------- MODULE MCUserAccounts ---------------------------
(* UserAccounts with a handful of requests, and a walk over the pages of the *)
(* users table beside them.                                                  *)
EXTENDS UserPages, TLC

Symmetry == Permutations(Reqs) \cup Permutations(Ids) \cup Permutations(Emails)

\* Arguments below their minimum, and a page that may not be full.
AskedFirst == {0}
AskedLimits == {0, 2}
=============================================================================
