SPECIFICATION FairSpec
CONSTANTS
  MaxNest = 1
  MaxInput = 3
  Fifo = 1
  TxFifo = 1
  Heap = 44
  TaskWords = 4
  TimerWords = 5
  MsgWords = 2
  Commands <- MCCommands
INVARIANTS TypeOK Rearmed TimersInOrder
PROPERTIES ConsoleSpec TimersRun Answered
