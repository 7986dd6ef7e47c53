\* Nobody sets the wall clock; three timers in a loop that goes on.
SPECIFICATION LiveSpec
CONSTANTS
  Delays <- NowOrLater
  Intervals <- OnceOrAgain
  Default = 2
  IntMax = 2
  Offsets <- NeverSet
  MaxTimers = 3
  MaxTime = 3
INVARIANTS
  PollWakesInTime
PROPERTIES
  NeverEarly
  DueTimersFire
CHECK_DEADLOCK FALSE
