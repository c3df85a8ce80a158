\* Two timers, one-shot and periodic, across a wrap of the clock.
CONSTANTS
  NULL = NULL
  Timers = {t1, t2}
  DueTimes = {0, 2}
  Periods = {0, 1}
  W = 6
  WrapMargin = 2
  MaxLag = 2
  Epoch = 5
  MaxTime = 7
  SelfStops = FALSE
  MaxNesting = 2
SPECIFICATION FairSpec
INVARIANTS TypeOK ListExact CountExact
PROPERTIES AlmostPunctual ImplementsAlarmClock TimersFire
