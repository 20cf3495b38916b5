\* The consumed queue bound to a delayed retry exchange: retries come back.  The
\* process may stop with a closed channel.
SPECIFICATION Spec
CONSTANTS
  m1 = m1  m2 = m2
  s1 = s1  s2 = s2  s3 = s3
  Msgs = {m1, m2}
  Malformed = {m2}
  Slots = {s1, s2, s3}
  Options <- RetryOptions
  RetryRouted = TRUE
  RetryDelayed = TRUE
  MaxCrashes = 1
  MaxCloses = 1
  RejectionCap = 2
SYMMETRY Symmetry
CHECK_DEADLOCK FALSE
INVARIANTS TypeOK RetriedUntilHandled ExactlyOnceUndisturbed
PROPERTIES ImplementsQueue
