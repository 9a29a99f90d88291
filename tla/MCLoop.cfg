SPECIFICATION LoopSpec
CONSTANTS
  ClockMod = 54
  Horizon = 108
  Timers <- MCTimers
  Interval <- MCInterval
  NumTimeouts = 2
  CheckInterval = 4
  Slow = 2
  MaxInterrupts = 1
  BootDelay = 9
  BootTimes = {20}
  ContactPlan <- MCPlan
INVARIANTS LoopTypeOK EachTimerOnce TimeoutsInOrder TimersOnTime NoDrift ActiveOnlyWhenOpen
PROPERTIES ContactsNoticed CheckEnds
