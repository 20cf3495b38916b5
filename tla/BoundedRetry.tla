---------------------------- MODULE BoundedRetry ----------------------------
(***************************************************************************)
(* What a retry loop promises, with no delays, no errors and no            *)
(* connections: a round of it tries at most `limit' times, ends with the   *)
(* first try that succeeds, and gives up only after the last one failed.   *)
(***************************************************************************)
EXTENDS Naturals

VARIABLES
  limit, \* the tries of a round; it never changes
  round, \* "idle", "busy", "ok" or "exhausted"
  tries  \* the tries of the current round that have failed

vars == << limit, round, tries >>

Init == limit \in Nat /\ round = "idle" /\ tries = 0

\* A new round, or one that has no try to make and gives up at once.
Begin ==
  /\ round # "busy"
  /\ round' = IF limit > 0 THEN "busy" ELSE "exhausted"
  /\ tries' = 0

TrySucceeds ==
  /\ round = "busy" /\ tries < limit
  /\ round' = "ok"
  /\ UNCHANGED tries

TryFails ==
  /\ round = "busy" /\ tries < limit
  /\ tries' = tries + 1
  /\ round' = IF tries' < limit THEN "busy" ELSE "exhausted"

\* Whoever ran the loop is done with it, or gone.
Leave ==
  /\ round # "idle"
  /\ round' = "idle" /\ tries' = 0

Next == UNCHANGED limit /\ (Begin \/ TrySucceeds \/ TryFails \/ Leave)

Spec == Init /\ [][Next]_vars
=============================================================================
