SPECIFICATION PartsSpec
CONSTANTS
  MessageLimit = 2
  Request = {r1, r2}
  Body <- MCBody
  Account = {A, B, C}
  Sharer = {A, B}
  Capacity = 1
  FrameLimit = 4
  FlowActions = 2
  MaxRequests = 3
  MaxQuota = 3
  QueueLimit = 2
  ReadLimit = 2
  EventLimit = 2
  DedupLimit = 1
  MaxMessages = 2
  MaxPushes = 3
  MaxExchanges = 2
INVARIANTS
  PlansAreSound
  ClientIsSound
  SessionIsSound
PROPERTIES
  DeliversInOrder
  CallersHear
  QueueDrains
CHECK_DEADLOCK FALSE
