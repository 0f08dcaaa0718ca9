SPECIFICATION OnlyWork
CONSTANTS
  t1 = t1
  t2 = t2
  t3 = t3
  idle = idle
  a = a
  b = b
  waitlist = waitlist
  sem = sem
  lock = lock
  dev = dev
  rq = rq
  wq = wq
  x1 = x1
  x2 = x2
  c1 = c1
  c2 = c2
  Thread <- MCThread
  Idle = idle
  PrioMax = 3
  Queue <- MCQueue
  WQ <- MCWQ
  InitPrio <- MCInitPrio
  Device = dev
  Reader <- MCClients
  Bufsz = 4
  Count = 2
  StampMod = 4
  Waiter = t3
  Doer <- MCDoer
  List = waitlist
  Worker = t3
  Work <- MCWork
  Sem = sem
  Submitter <- MCClients
  Canceller <- MCClients
  Null = Null
  buffer_size = 4
  ByteMod = 5
  PipeUser <- MCPipeUser
  Side <- MCSide
  RdWr <- MCRdWr
  Lock = lock
  reader_queue = rq
  writer_queue = wq
  bufsz = 1
  PipeCount = 2
  Nobody = Nobody
  Timers <- MCTimers
  Caller <- MCCallers
  Users <- MCOwn
  Callback <- MCAny
  TickMod = 12
  MaxInit = 2
  MaxDelay = 2
  NoTimer = NoTimer
  Off = Off
CHECK_DEADLOCK FALSE
INVARIANT
  SuspendsOnlyWithoutWork
