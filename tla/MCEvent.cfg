SPECIFICATION Spec
CONSTANTS
  t1 = t1
  t2 = t2
  t3 = t3
  idle = idle
  a = a
  b = b
  ev = ev
  Thread <- MCThread
  Idle = idle
  PrioMax = 3
  Queue <- MCQueue
  Event = ev
  EventFlag = "prio"
  Bit <- MCBit
  Request <- MCRequest
  InitPrio <- MCInitPrio
SYMMETRY MCSymmetry
CHECK_DEADLOCK FALSE
INVARIANTS
  NobodyWaitsSatisfied
  GetsWhatItAsked
  FlagsConserved
