\* The shipped topology under every option, with crashes, closed connections and a
\* body (m2) that is not JSON.  The process may stop with a closed channel.
SPECIFICATION Spec
CONSTANTS
  m1 = m1  m2 = m2
  s1 = s1  s2 = s2  s3 = s3
  Msgs = {m1, m2}
  Malformed = {m2}
  Slots = {s1, s2, s3}
  Options <- EveryOption
  RetryRouted <- AuthRetryRouted
  RetryDelayed <- AuthRetryDelayed
  MaxCrashes = 2
  MaxCloses = 1
  RejectionCap = 2
SYMMETRY Symmetry
CHECK_DEADLOCK FALSE
INVARIANTS NoSilentLoss NoStaleAck
PROPERTIES ImplementsQueue
