SPECIFICATION MCSpec
CONSTANTS
  Starts = {d1, d2}
  Nobody = Nobody
  Empty = Empty
  Torn = Torn
  MaxFd = 6
INVARIANTS StartTypeOK PidFileNamesDaemon OutcomeIsTrue DescriptorsKept
  GivenUpWhole NothingLeft
PROPERTIES CallerReturns FailedStartEnds
