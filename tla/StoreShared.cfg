SPECIFICATION Spec
CONSTANTS
  t1 = t1
  t2 = t2
  t3 = t3
  p1 = p1
  p2 = p2
  Day = 1
  Grace = 2
  Process = {p1, p2}
  Task = {t1, t2}
  Owner <- EachItsOwn
  Published <- TwoEditions
  Held <- NothingCarried
  Attached <- NothingCarried
  Upstreams = {"vendor"}
  Floor <- NoFloor
  NamedByEvidence = TRUE
  Clock <- OneTime
  DiskFails = TRUE
  MayEvict = FALSE
PROPERTIES MemoryNeverGoesBack MonotonicReads
