\* Liveness on the shipped topology: crashes and restarts, but no closed
\* connection and no body that is not JSON.  It stops when everything is settled.
SPECIFICATION FairSpec
CONSTANTS
  m1 = m1  m2 = m2
  s1 = s1  s2 = s2
  Msgs = {m1, m2}
  Malformed = {}
  Slots = {s1, s2}
  Options <- EveryOption
  RetryRouted <- AuthRetryRouted
  RetryDelayed <- AuthRetryDelayed
  MaxCrashes = 2
  MaxCloses = 0
  RejectionCap = 1
CHECK_DEADLOCK FALSE
PROPERTIES EveryMessageSettles
