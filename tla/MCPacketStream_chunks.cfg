SPECIFICATION Spec
CONSTANTS
  empty = empty
  small = small
  large = large
  huge = huge
  Packets <- MCPackets
  Size <- MCSize
  HeaderLength = 2
  WritePackageBytes = 3
  ReadPackageBytes = 5
  MaxReadData = 6
  CutsInBody = FALSE
INVARIANTS
  TypeOK
PROPERTIES
  InOrder
  EveryPacketArrives
CHECK_DEADLOCK FALSE
