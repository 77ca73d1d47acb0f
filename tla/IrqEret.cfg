SPECIFICATION Spec
CONSTANTS
  MaxNest = 2
  MaxInput = 2
  Fifo = 1
  TxFifo = 1
  Heap = 40
  TaskWords = 4
  TimerWords = 5
  MsgWords = 2
  Commands <- MCPlainCommands
INVARIANT EretResumes
