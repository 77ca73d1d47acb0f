CONSTANTS
  NPages = 16
  MaxOrder = 2
  TopOrder = 5
  Size <- MCSize
  Layouts <- MCLowLayout
  BootUnits = 6
  PageUnits <- MCUnits4
  Requests = {1,2}
  MaxLent = 0
SPECIFICATION Spec
INVARIANT FoundStaysLinked
