---------------------------- MODULE AtLeastOnce ----------------------------
(***************************************************************************)
(* What a consumed queue promises about a message, with no copies, no      *)
(* acknowledgements and no processes: an accepted message is pending until *)
(* it is handled, and it is never lost before a handler run of it failed.  *)
(* When nothing is lossy, it is never lost at all.                         *)
(***************************************************************************)
CONSTANTS
  Msgs,  \* the messages
  Lossy  \* a message whose handler failed may be lost

VARIABLES
  status, \* status[m]: "new", "pending", "handled" or "lost"
  failed  \* the messages a handler run of which has failed

Init ==
  /\ status = [m \in Msgs |-> "new"]
  /\ failed = {}

\* m enters, or leaves, the set of messages the queue answers for.
Move(m, from, to) ==
  /\ status[m] = from
  /\ status' = [status EXCEPT ![m] = to]

Accept(m) == Move(m, "new", "pending") /\ UNCHANGED failed

Handle(m) == Move(m, "pending", "handled") /\ UNCHANGED failed

\* A handler run fails; a lossy queue may discard the message at once.  A message
\* already handled may fail again: it was delivered twice.
Fail(m) ==
  /\ status[m] \in {"pending", "handled"}
  /\ failed' = failed \cup {m}
  /\ \/ UNCHANGED status
     \/ Lossy /\ Move(m, "pending", "lost")

\* A lossy queue discards a message whose handler failed earlier.
Discard(m) ==
  /\ Lossy /\ m \in failed
  /\ Move(m, "pending", "lost")
  /\ UNCHANGED failed

Next == \E m \in Msgs : Accept(m) \/ Handle(m) \/ Fail(m) \/ Discard(m)

Spec == Init /\ [][Next]_<< status, failed >>
=============================================================================
