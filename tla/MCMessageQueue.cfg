SPECIFICATION Spec
CONSTANTS
  t1 = t1
  t2 = t2
  t3 = t3
  idle = idle
  s1 = s1
  s2 = s2
  m1 = m1
  m2 = m2
  q1 = q1
  Thread <- MCThread
  Idle = idle
  PrioMax = 3
  Queue <- MCQueue
  MQ = q1
  MQFlag = "prio"
  Slot <- MCSlot
  Message <- MCMessage
  Urgent <- MCUrgent
  Sends <- MCSends
  IsrSends <- MCIsrSends
  Receiver <- MCReceiver
  Null = Null
  Blank = m1
  InitPrio <- MCInitPrio
INVARIANTS
  SlotConservation
  NoLostWakeup
PROPERTY
  ImplementsChannel
