SPECIFICATION Spec
CONSTANTS
  t1 = t1
  t2 = t2
  t3 = t3
  p1 = p1
  p2 = p2
  Day = 1
  Grace = 2
  Process = {p1}
  Task = {t1, t2}
  Owner <- OneProcess
  Published <- ThreeEditions
  Held <- HeldEarly
  Attached <- AnythingCarried
  Upstreams = {"cache"}
  Floor <- NoFloor
  NamedByEvidence = TRUE
  Clock <- Times
  DiskFails = FALSE
  MayEvict = FALSE
INVARIANTS DiskKeepsUp
PROPERTIES MonotonicReads KeepsItsPromise
SYMMETRY Calls
