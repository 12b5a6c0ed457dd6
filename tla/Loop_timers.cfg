SPECIFICATION LoopFairSpec
CONSTANTS
  Timers = {t1, t2}
  NoTimer = NoTimer
  MaxTime = 1
  Delays = {0, 1}
  Instants = {}
  TicksPerMs = 1
  IntLimit = 8
  Monotone = TRUE
  Fds = {1, 2}
  Ios = {io1}
  NoIo = NoIo
  IlcFd = 1
  IlcIo = ilcIo
  InitSize = 3
  LowFds = TRUE
  Ilcs = {stop}
  FifoCap = 1
  InitBatch = 2
  StopIlc = stop
  InitEvents = 1
INVARIANTS AllTypesOK WaitIsCovered
PROPERTIES NothingStartsStopped TimerWakesLoop
