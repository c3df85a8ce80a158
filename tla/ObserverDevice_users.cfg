\* Three observers start and stop in any order, each in pairs; the thread is
\* created and destroyed with them, and may fail to start.
CONSTANTS
  NULL = NULL
  Objs = {a, b, c}
  Procs = {p}
  MaxSlots = 2
SPECIFICATION FairSpec
INVARIANTS UsersCounted LastStopSilences
PROPERTIES StartedIsCalled LastStopEndsThread StopReturns
CHECK_DEADLOCK FALSE
