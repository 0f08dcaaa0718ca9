SPECIFICATION SigSpec
CONSTANTS
  t1 = t1
  t2 = t2
  idle = idle
  sem = sem
  s1 = s1
  s2 = s2
  Thread <- MCThread
  Idle = idle
  PrioMax = 2
  Queue <- MCQueue
  Sem = sem
  SemFlag = "fifo"
  InitPrio <- MCInitPrio
  SemValue = 0
  ValueMod = 4
  MaxTokens = 1
  MaxNest = 0
  Receiver <- MCReceiver
  Sender <- MCSender
  Sig <- MCSig
  NoSig = NoSig
  PoolSize = 2
  MaxKills = 2
SYMMETRY Symmetry
CHECK_DEADLOCK FALSE
INVARIANT
  TokensNotMade
