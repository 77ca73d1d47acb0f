\* buddy_malloc may stop in while(1), and a wild buddy_free ends the model.
CHECK_DEADLOCK FALSE
SPECIFICATION MCSpec
CONSTANTS
  NPages = 6
  PageSize = 12
  HeaderSize = 1
  BinSize <- MCBinSize
  Requests = {1, 5, 10, 12}
  MaxLive = 2
INVARIANT GrantsApart
