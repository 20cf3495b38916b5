\* Two queues and three tags, so that a second consumer of a queue replaces the first;
\* three handles, since two fields may each hold on to an old one.
SPECIFICATION FairSpec
CONSTANTS
  c1 = c1  c2 = c2  c3 = c3
  t1 = t1  t2 = t2  t3 = t3
  q1 = q1  q2 = q2
  None = None
  Configs <- AllConfigs
  Conns = {c1, c2, c3}
  Tags = {t1, t2, t3}
  Queues = {q1, q2}
  MaxAttempts = 2
CHECK_DEADLOCK FALSE
INVARIANTS TypeOK OneDirectConnection ReadyMeansDeclared ShutdownReleases
PROPERTIES ConsumersCancelledFirst ReconnectReturns ReconnectIsBounded
