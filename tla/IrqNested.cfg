SPECIFICATION Spec
CONSTANTS
  MaxNest = 3
  MaxInput = 3
  Fifo = 1
  TxFifo = 1
  Heap = 60
  TaskWords = 4
  TimerWords = 5
  MsgWords = 2
  Commands <- MCNestCommands
INVARIANTS TasksSorted Drained RxNeverLost
