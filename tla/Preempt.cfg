\* With the buffer used up, or after a walk from NULL, nothing need happen.
CHECK_DEADLOCK FALSE
SPECIFICATION Spec
CONSTANTS
  BufferSize = 5
  TaskSize = 1
  MessageSize = 1
  TimerSize = 1
  Afters = {0, 1}
  MaxTime = 1
  MaxTimers = 2
  MaxDepth = 3
INVARIANTS TypeOK BlocksApart TimersKept
