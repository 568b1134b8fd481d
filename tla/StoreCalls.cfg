SPECIFICATION Spec
CONSTANTS
  t1 = t1
  t2 = t2
  t3 = t3
  p1 = p1
  p2 = p2
  Day = 1
  Grace = 2
  Process = {p1}
  Task = {t1, t2, t3}
  Owner <- OneProcess
  Published <- TwoEditions
  Held <- NothingCarried
  Attached <- NothingCarried
  Upstreams = {"vendor"}
  Floor <- NoFloor
  NamedByEvidence = TRUE
  Clock <- TwoTimes
  DiskFails = TRUE
  MayEvict = FALSE
INVARIANTS TypeOK SingleFlight AnsweredOncePerRecheck
PROPERTIES MemoryNeverGoesBack DiskNeverGoesBack
SYMMETRY Calls
