-------------------------- MODULE MCCollateralStore --------------------------
(***************************************************************************)
(* Instances of CollateralStore for TLC.  Time is in days, with a grace    *)
(* period of two: editions 1 to 3 of a dated piece have windows that       *)
(* overlap, the third was issued with an early end, and the clock passes   *)
(* through "due", "stale" and "expired beyond grace" for each.             *)
(***************************************************************************)
EXTENDS CollateralStore, TLC

CONSTANTS t1, t2, t3, p1, p2

Edition(v, from, to) == [version |-> v, this_update |-> from, next_update |-> to]

Edition1 == Edition(1, 0, 8)
Edition2 == Edition(2, 4, 12)
Edition3 == Edition(2, 5, 10)

TwoEditions == {Edition1, Edition2}
ThreeEditions == {Edition1, Edition2, Edition3}

OneProcess == [t \in Task |-> p1]
EachItsOwn == [t \in Task |-> IF t = t1 THEN p1 ELSE p2]

NothingCarried == {NoFile}
AnythingCarried == Response
HeldEarly == {NoFile, File(Edition1)}

Times == {5, 9, 15}
OneTime == {9}
TwoTimes == {5, 9}

Calls == Permutations(Task)

NoFloor == None

KeySet == {NoDates}
=============================================================================
