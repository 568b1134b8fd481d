SPECIFICATION FairSpec
CONSTANTS
  t1 = t1
  t2 = t2
  t3 = t3
  p1 = p1
  p2 = p2
  Day = 1
  Grace = 2
  Process = {p1}
  Task = {t1, t2}
  Owner <- OneProcess
  Published <- KeySet
  Held <- NothingCarried
  Attached <- NothingCarried
  Upstreams = {"vendor"}
  Floor <- NoFloor
  NamedByEvidence = FALSE
  Clock <- OneTime
  DiskFails = FALSE
  MayEvict = TRUE
PROPERTIES EveryCallEnds
