SPECIFICATION FairSpec
CONSTANTS
  Daemon = daemon
  Tester = {test}
  Adapters <- OneAdapter
  Offered <- LostAndRestored
  TestEvent <- Probe
  Cooldown = 1
  Delays <- TwoDelays
  Lifetime <- Lifetimes
  BatchLimit = 2
  QueueCapacity = 1
  MaxRuns <- Once
  MaxNow = 3
  MaxDeliveries = 2
INVARIANTS
  OutboxIsSound
PROPERTIES
  EndsAreRespected
  Settles
CHECK_DEADLOCK FALSE
