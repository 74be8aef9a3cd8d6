CONSTANTS
  Streams = {s1, s2}
  SignalCap = 2
  Callers = {"reaper", "loop"}
  Calls = {c1}
  PollTicks = 3
  Grace = 1

SPECIFICATION ProcessFairSpec
INVARIANTS StaleIsAnnounced GraceHonoured
PROPERTIES ViewCatchesUp StopEnds
CHECK_DEADLOCK FALSE
