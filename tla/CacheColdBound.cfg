SPECIFICATION Spec
CONSTANTS
  r1 = r1
  r2 = r2
  r3 = r3
  crl = crl
  vcek = vcek
  tcb = tcb
  other = other
  Sweeper = sweeper
  NoUrl = none
  Request = {r1, r2, r3}
  Url = {crl, vcek}
  ClientUrl = {crl, vcek}
  Shared = {crl}
  Unknown = {}
  Warm = {}
  MaxCold = 1
  MaxKnown = 2
  MayEvict = FALSE
INVARIANTS FewPiecesFetched
SYMMETRY Clients
