SPECIFICATION Spec
CONSTANTS
  None = None
  Stocks = {s1, s2}
  Held = {s1}
  Pages = {"several", "single", "ipo"}
  Quantities = {1, 2, 3}
  MaxRequests = 6
  MaxBreaks = 1
INVARIANTS
  PageTypeOK
  ReportIsWhole
  BusyIsWaiting
  PageSettles
PROPERTIES
  OrderAsConfirmed
CHECK_DEADLOCK FALSE
