\* A request and a notification, two runs: both of the request, the old one on a channel
\* that has closed, or of the two messages.  With and without noAck.  An event is a request
\* whose answer nobody reads, so that none is needed here.  AppliedCap is above two
\* repetitions of an update.
SPECIFICATION FairSpec
CONSTANTS
  m1 = m1  m3 = m3
  r1 = r1  r2 = r2
  None = None
  Requests = {m1}
  Events = {}
  Notifications = {m3}
  Runs = {r1, r2}
  NoAckOptions = {TRUE, FALSE}
  AppliedCap = 3
  MaxCrashes = 2
  MaxCloses = 2
CHECK_DEADLOCK FALSE
INVARIANTS TypeOK OnlyPermanentLoses RepeatsHaveACause AnswersAreHonest
PROPERTIES AnsweredUnlessCut
