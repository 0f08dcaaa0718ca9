SPECIFICATION FairLifeSpec
CHECK_DEADLOCK FALSE
CONSTANTS
  t1 = t1
  t2 = t2
  t3 = t3
  t4 = t4
  idle = idle
  dead = dead
  Thread <- MCThread
  Idle = idle
  NoThread = NoThread
  PrioMax = 3
  Queue <- MCQueue
  Defunct = dead
  Dynamic <- MCDynamic
  Cleanup <- MCCleanup
  Mortal <- MCMortal
  Sleeper <- MCSleeper
  Reviver <- MCReviver
  InitPrio <- MCInitPrio
INVARIANTS
  OneList
  ReleasedOnce
PROPERTY
  EventuallyReleased
