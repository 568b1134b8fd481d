-------------------------- MODULE CollateralDates --------------------------
(***************************************************************************)
(* The dates a piece of collateral carries, and the four questions the     *)
(* store asks about them: is the piece current, is it merely stale (in     *)
(* grace), may a verdict rest on it, and which of two copies is newer.     *)
(* Source: crates/attestation/src/collateral/mod.rs (Dates) and store.rs   *)
(* (CollateralUsed, refresh_at).                                           *)
(*                                                                         *)
(* An absent field (Rust's Option::None) is None, one below every natural: *)
(* Rust orders None before every Some, so the order of Option values is    *)
(* the order of these integers.  Times are naturals, in units of which     *)
(* Day and Grace say how many make a day and the grace period.             *)
(***************************************************************************)
EXTENDS Integers

CONSTANTS
  Day,      (* DAY of refresh_at *)
  Grace     (* GRACE: how long past nextUpdate a piece still passes *)

ASSUME DayAssumption   == Day \in Nat
ASSUME GraceAssumption == Grace \in Nat

None == -1

Option == Nat \cup {None}

Dates == [this_update : Option, next_update : Option, version : Option]

NoDates == [this_update |-> None, next_update |-> None, version |-> None]

(* `now` is inside the window of the piece. *)
Current(d, now) ==
  /\ d.this_update = None \/ d.this_update <= now
  /\ d.next_update = None \/ now <= d.next_update

InGrace(d) ==
  [d EXCEPT !.next_update = IF @ = None THEN None ELSE @ + Grace]

Stale(d, now) == ~Current(d, now) /\ Current(InGrace(d), now)

(* floor is None when the piece has none. *)
MeetsFloor(d, floor) == floor = None \/ (d.version # None /\ d.version >= floor)

Acceptable(d, floor, now) ==
  /\ Current(d, now) \/ Stale(d, now)
  /\ MeetsFloor(d, floor)

(* The lexicographic order of (version, this_update). *)
NotOlder(d, e) ==
  \/ d.version > e.version
  \/ d.version = e.version /\ d.this_update >= e.this_update

(* The times refresh_at may draw: the last quarter of the window, and at  *)
(* least a day before its end.  A piece without a nextUpdate has no such  *)
(* time (i64::MAX); the store then goes by the age of the copy.           *)
RefreshAt(d) ==
  LET latest   == d.next_update - Day
      earliest == IF d.this_update = None
                  THEN latest
                  ELSE d.this_update
                         + ((d.next_update - d.this_update) \div 4) * 3
  IN  IF d.next_update = None THEN {None}
      ELSE IF earliest >= latest THEN {latest}
      ELSE earliest .. (latest - 1)

=============================================================================
