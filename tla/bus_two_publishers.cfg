SPECIFICATION BusSpec
CONSTANTS
  Publishers = {p1,p2}
  p1 = p1
  p2 = p2
  Readers = {r1}
  r1 = r1
  PageSize = 2
  StreamMaxLen = 9
  MaxEvents = 3
  MaxBusFaults = 0
  MaxDrops = 0
PROPERTY ReaderMissesNothing
CHECK_DEADLOCK FALSE
