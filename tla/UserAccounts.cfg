\* Three requests, three users, one walk over the pages beside them.  It stops when every
\* request is answered and the walk is over.
SPECIFICATION PagesSpec
CONSTANTS
  r1 = r1  r2 = r2  r3 = r3
  u1 = u1  u2 = u2  u3 = u3
  e1 = e1  e2 = e2  e3 = e3
  n1 = n1
  None = None
  Reqs = {r1, r2, r3}
  Ids = {u1, u2, u3}
  Emails = {e1, e2, e3}
  Names = {n1}
  FirstPages <- AskedFirst
  Limits <- AskedLimits
  MaxCrashes = 1
  MaxLost = 1
SYMMETRY Symmetry
CHECK_DEADLOCK FALSE
INVARIANTS TypeOK UniqueEmail DeletedForGood SubscriberAgrees WalkMissesNobody NextPageIsThere
