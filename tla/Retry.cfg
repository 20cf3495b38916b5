\* One message in up to four copies: the delivery, its retry, and the retry of a
\* delivery that a crash repeated.
SPECIFICATION FairSpec
CONSTANTS
  m1 = m1
  s1 = s1  s2 = s2  s3 = s3  s4 = s4
  None = None
  Msgs = {m1}
  Slots = {s1, s2, s3, s4}
  Options <- AllOptions
  Source <- Origin
  RoutedBack <- Back
  Delaying = {"delayed_exchange"}
  MaxTimer = 4
  CountCap = 2
  FailureCap = 6
  MaxCrashes = 1
CHECK_DEADLOCK FALSE
INVARIANTS TypeOK CountTellsFailures RoundTripLosesNothing
PROPERTIES ExecuteIsBounded BackoffGrows KeepsTrying
