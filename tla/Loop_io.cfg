SPECIFICATION LoopSpec
CONSTANTS
  Timers = {}
  NoTimer = NoTimer
  MaxTime = 0
  Delays = {}
  Instants = {}
  TicksPerMs = 1
  IntLimit = 8
  Monotone = TRUE
  Fds = {1, 2, 3}
  Ios = {io1,io2}
  NoIo = NoIo
  IlcFd = 1
  IlcIo = ilcIo
  InitSize = 1
  LowFds = TRUE
  Ilcs = {stop}
  FifoCap = 1
  InitBatch = 2
  StopIlc = stop
  InitEvents = 1
INVARIANTS EventsBounded RegistrationsAgree NeverAborts
PROPERTIES CallsWatched
