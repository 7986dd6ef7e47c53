\* The wall clock may be set; three timers.
SPECIFICATION Spec
CONSTANTS
  Delays <- NowOrLater
  Intervals <- OnceOrAgain
  Default = 2
  IntMax = 2
  Offsets <- SetForward
  MaxTimers = 3
  MaxTime = 2
INVARIANTS
  ListIsSound
  CancelledForGood
PROPERTIES
  ImplementsSchedule
CHECK_DEADLOCK FALSE
