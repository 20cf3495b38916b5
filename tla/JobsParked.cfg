\* One job on the topology of auth-service.
SPECIFICATION Spec
CONSTANTS
  j1 = j1
  NoType = NoType  NoCall = NoCall  NoOne = NoOne
  JobIds = {j1}
  Consumers <- Provided
  KindOf <- AuthExchangeType
  QueueNames <- AuthQueues
  Bound <- AuthBindings
  StandardKeys <- AuthKeys
  Keys <- CallerKeys
  Targets <- CallerTargets
  Types <- CallerTypes
  UserTypes <- CallerUserTypes
  MaxCrashes = 0
  MaxCloses = 0
CHECK_DEADLOCK FALSE
INVARIANT JobsReachTheirQueue
