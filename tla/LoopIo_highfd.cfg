SPECIFICATION IoSpec
CONSTANTS
  Fds = {1, 2, 5}
  Ios = {io1, io2}
  NoIo = NoIo
  IlcFd = 1
  IlcIo = ilcIo
  InitSize = 1
  LowFds = FALSE
INVARIANTS SlotAssertionHolds
