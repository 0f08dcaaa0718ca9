SPECIFICATION FairSpec
CONSTANTS
  t1 = t1
  t2 = t2
  t3 = t3
  idle = idle
  m1 = m1
  Thread <- MCThread
  Idle = idle
  PrioMax = 4
  Queue <- MCQueue
  Client <- MCClient
  Sleeper <- MCTop
  Prober <- MCLow
  Receiver <- MCReceiver
  Sender <- MCLow
  MutexFlag = "prio"
  InitPrio <- MCInitPrio
  Null = Null
  MaxHold = 2
CHECK_DEADLOCK FALSE
INVARIANTS
  MutualExclusion
  NoLostWakeup
  NoInversion
  PriorityRestored
PROPERTY
  UrgentTakeReturns
