\* The retry bound, with a retry exchange that routes back to the queue.
SPECIFICATION Spec
CONSTANTS
  m1 = m1
  s1 = s1  s2 = s2
  Msgs = {m1}
  Malformed = {}
  Slots = {s1, s2}
  Options <- JustOneRetry
  RetryRouted = TRUE
  RetryDelayed = TRUE
  MaxCrashes = 0
  MaxCloses = 0
  RejectionCap = 4
SYMMETRY Symmetry
CHECK_DEADLOCK FALSE
INVARIANTS RetriesAreBounded
