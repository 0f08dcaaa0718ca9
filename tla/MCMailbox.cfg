SPECIFICATION Spec
CONSTANTS
  t1 = t1
  t2 = t2
  t3 = t3
  idle = idle
  m1 = m1
  m2 = m2
  mbr = mbr
  mbs = mbs
  Thread <- MCThread
  Idle = idle
  PrioMax = 3
  Queue <- MCQueue
  MB = mbr
  MBSender = mbs
  MBFlag = "prio"
  Size = 2
  Mail <- MCMail
  Sends <- MCSends
  IsrSends <- MCIsrSends
  Receiver <- MCReceiver
  Null = Null
  Blank = m1
  InitPrio <- MCInitPrio
INVARIANTS
  NoLostWakeup
PROPERTY
  ImplementsChannel
