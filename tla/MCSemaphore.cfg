SPECIFICATION Spec
CONSTANTS
  t1 = t1
  t2 = t2
  t3 = t3
  idle = idle
  sem = sem
  Thread <- MCThread
  Idle = idle
  PrioMax = 3
  Queue <- MCQueue
  Sem = sem
  SemFlag = "prio"
  InitPrio <- MCInitPrio
  SemValue = 1
  ValueMod = 4
  MaxTokens = 2
  MaxNest = 1
INVARIANTS
  TypeOK
  KernelConsistent
  TokenConservation
  NoWaiterWithToken
  NoThreadLost
  Preemptive
PROPERTY
  ImplementsSemaphore
