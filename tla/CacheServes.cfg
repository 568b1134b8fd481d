SPECIFICATION FairSpec
CONSTANTS
  r1 = r1
  r2 = r2
  r3 = r3
  crl = crl
  vcek = vcek
  tcb = tcb
  other = other
  Sweeper = sweeper
  NoUrl = none
  Request = {r1, r2}
  Url = {crl, tcb, vcek, other}
  ClientUrl = {crl, tcb, vcek}
  Shared = {crl, tcb}
  Unknown = {other}
  Warm = {other}
  MaxCold = 1
  MaxKnown = 2
  MayEvict = TRUE
INVARIANTS TypeOK PlacesAreOwned OneFetchPerPiece ReadyOnceServed KnownAreFew
PROPERTIES KnownLookedAt RequestsEnd
