\* The program may end: in a user program, or after a wild return.
CHECK_DEADLOCK FALSE
SPECIFICATION FairSpec
CONSTANTS
  NUL = 0
  Blobs <- MCBlobs
  PropNames <- MCPropNames
  InitrdStart <- MCInitrd
  Archives <- MCArchives
  Base <- MCBase
  MAX_FILE_NUM = 2
  MaxMembers = 3
  Trailer <- MCTrailer
  LowStrings <- MCLow
  HeapBytes = 800
  HeaderAt = 268435456
  MemSize = 1006632960
  Order = 11
  DtbAt <- MCDtbAt
  ImageEnd = 550676
  Lines <- MCLines
  Unset <- MCUnset
  Verbs <- MCVerbs
INVARIANTS
  TypeOK FollowsTree IndentIsDepth TableIsArchive
  FilesFound KernelOverwritten
PROPERTIES
  MemoryKept BootEnds
