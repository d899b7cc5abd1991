SPECIFICATION StoreSpec
CONSTANTS
  Writer = {A, B}
  MaxStored = 2
  MaxTime = 3
  QueueCapacity = 1
SYMMETRY Symmetry
INVARIANTS
  StoreIsSound
PROPERTIES
  ImplementsLifecycle
