CONSTANTS
  Streams = {}
  SignalCap = 1
  Callers = {"reaper", "loop"}
  Calls = {c1}
  PollTicks = 3
  Grace = 1

SPECIFICATION ProcessSpec
PROPERTY DrainAnswersWaiters
CHECK_DEADLOCK FALSE
