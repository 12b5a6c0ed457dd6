SPECIFICATION TimersSpec
CONSTANTS
  Timers = {t1, t2, t3}
  NoTimer = NoTimer
  MaxTime = 3
  Delays = {0, 1}
  Instants = {2}
  TicksPerMs = 2
  IntLimit = 8
  Monotone = FALSE
INVARIANTS TimersTypeOK TimersOrdered
PROPERTIES ReturnsCoveringWait ArmingOrderKept ImplementsTimerService
