SPECIFICATION Spec
CONSTANTS
  Daemon = daemon
  Tester = {test}
  Adapters <- OneAdapter
  Offered <- LostAndRestored
  TestEvent <- Probe
  Cooldown = 1
  Delays <- TwoDelays
  Lifetime <- Lifetimes
  BatchLimit = 2
  QueueCapacity = 1
  MaxRuns <- Once
  MaxNow = 3
  MaxDeliveries = 2
INVARIANTS
  WorkerSurvives
CHECK_DEADLOCK FALSE
