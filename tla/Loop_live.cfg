SPECIFICATION LoopFairSpec
CONSTANTS
  Timers = {}
  NoTimer = NoTimer
  MaxTime = 0
  Delays = {}
  Instants = {}
  TicksPerMs = 1
  IntLimit = 8
  Monotone = TRUE
  Fds = {1, 2}
  Ios = {io1}
  NoIo = NoIo
  IlcFd = 1
  IlcIo = ilcIo
  InitSize = 3
  LowFds = TRUE
  Ilcs = {stop, m1}
  FifoCap = 2
  InitBatch = 1
  StopIlc = stop
  InitEvents = 1
PROPERTIES StopReturns MessageRuns ImplementsIlcChannel
INVARIANTS BufferBounded
