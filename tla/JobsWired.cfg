\* Every way to publish, and both kinds of consumer, over a topology in which delayed
\* jobs and retries come back.  The process may stop with a closed channel.
SPECIFICATION Spec
CONSTANTS
  j1 = j1  j2 = j2
  NoType = NoType  NoCall = NoCall  NoOne = NoOne
  JobIds = {j1, j2}
  Consumers <- All
  KindOf <- WiredExchangeType
  QueueNames <- AuthQueues
  Bound <- WiredBindings
  StandardKeys <- AuthKeys
  Keys <- CallerKeys
  Targets <- CallerTargets
  Types <- CallerTypes
  UserTypes <- CallerUserTypes
  MaxCrashes = 1
  MaxCloses = 1
SYMMETRY Symmetry
CHECK_DEADLOCK FALSE
INVARIANTS TypeOK NoSilentJobLoss NeverEarly
