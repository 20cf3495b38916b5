\* The retry copy on the topology auth-service ships.
SPECIFICATION Spec
CONSTANTS
  m1 = m1
  s1 = s1  s2 = s2
  Msgs = {m1}
  Malformed = {}
  Slots = {s1, s2}
  Options <- JustDefault
  RetryRouted <- AuthRetryRouted
  RetryDelayed <- AuthRetryDelayed
  MaxCrashes = 0
  MaxCloses = 0
  RejectionCap = 2
SYMMETRY Symmetry
CHECK_DEADLOCK FALSE
INVARIANTS RequeuedForRetry
