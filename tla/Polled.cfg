SPECIFICATION FairSpec
CONSTANTS
  NUL = 0
  BoardRevision = 10494082
  MemBase = 4096
  MemSize = 994050048
  Strays <- MCStrays
  Keys <- MCKeys
  CR = 13
  LF = 10
  Help <- MCHelp
  Hello <- MCHello
  Info <- MCInfo
  Reboot <- MCReboot
  Ls <- MCLs
  Cat <- MCCat
  Malloc <- MCMalloc
  Dtb <- MCDtb
  PromptLength = 2
  TextLength = 3
  RxFifo = 2
  TxFifo = 1
  MaxTyped = 4
  MaxResets = 1
INVARIANTS TypeOK RanAsTyped NoAnswerLeft ShownIsAnswer
PROPERTIES LostOnlyInBetween ShellReads
