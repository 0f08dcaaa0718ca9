SPECIFICATION MCSpec
CONSTANTS
  t1 = t1
  t2 = t2
  t3 = t3
  idle = idle
  b1 = b1
  b2 = b2
  mp = mp
  Thread <- MCThread
  Idle = idle
  PrioMax = 3
  Queue <- MCQueue
  Pool = mp
  Block <- MCBlock
  InitPrio <- MCInitPrio
  Isr = Isr
  MaxCount = 3
  c1 = c1
  c2 = c2
  Client <- MCClient
  RT_MEMHEAP_SIZE = 24
  RT_MEMHEAP_MINIALLOC = 12
  RT_ALIGN_SIZE = 4
  pool_size = 200
  Request <- MCRequest
  MaxBlocks = 2
  NoBlock = NoBlock
SYMMETRY Symmetry
CHECK_DEADLOCK FALSE
INVARIANTS
  BlockConservation
  NoLostWakeup
  NobodyLeftBehind
  HeapConsistent
  BlocksIntact
PROPERTY
  FailsOnlyWhenFull
