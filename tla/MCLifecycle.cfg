SPECIFICATION LifecycleSpec
CONSTANTS
  MaxStored = 2
  A = A
  B = B
  Account = {A, B}
  Installed <- FullAndPublic
  Admissions <- OneAdmission
  Events <- EveryEvent
  Clock = {0}
  MaxBoots = 1
  User = {u1, u2}
  Wide = wide
  None = none
  MaxLifetime = 3
  Capacity = 2
  MaxCursor = 5
INVARIANTS
  FailsClosed
  LoginIsSound
  WatchIsSound
PROPERTIES
  OnlyFullIsProtected
  StopCompletes
  LoginEnds
  OwnerHears
CHECK_DEADLOCK FALSE
