----------------------------- MODULE KeptPiece -----------------------------
(***************************************************************************)
(* What a process promises of one piece of collateral, without memory,     *)
(* disk, locks or the order of its calls: it keeps one edition and only    *)
(* moves forward until it ends; at most one request about the piece is     *)
(* with the upstream; and what a call is answered is not older than what   *)
(* the process keeps at that very moment.                                  *)
(***************************************************************************)
CONSTANTS
  Process, Task, Owner,
  Edition,          (* the editions the vendor has signed *)
  Missing,          (* no edition *)
  NotOlder(_, _)    (* the order of editions *)

VARIABLES
  kept,     (* per process, the edition it keeps, or Missing *)
  asking,   (* per process, whether a request is with the upstream *)
  served    (* per task, the edition its call was answered in the last step *)

vars == <<kept, asking, served>>

Init ==
  /\ kept = [p \in Process |-> Missing]
  /\ asking = [p \in Process |-> FALSE]
  /\ served = [t \in Task |-> Missing]

NothingServed == served' = [t \in Task |-> Missing]

Ask(p) ==
  /\ ~asking[p]
  /\ asking' = [asking EXCEPT ![p] = TRUE]
  /\ NothingServed
  /\ UNCHANGED kept

(* The upstream answered, or the request was given up. *)
EndAsking(p) ==
  /\ asking[p]
  /\ asking' = [asking EXCEPT ![p] = FALSE]
  /\ NothingServed
  /\ UNCHANGED kept

(* Calls of p are answered, with what is kept after the step or newer. *)
Serve(p) ==
  /\ served' \in [Task -> Edition \cup {Missing}]
  /\ \A t \in Task :
       served'[t] # Missing =>
         /\ Owner[t] = p
         /\ kept'[p] # Missing => NotOlder(served'[t], kept'[p])

Keep(p) ==
  /\ \E d \in Edition :
       /\ kept[p] # Missing => NotOlder(d, kept[p])
       /\ kept' = [kept EXCEPT ![p] = d]
  /\ Serve(p)
  /\ UNCHANGED asking

Answer(p) == Serve(p) /\ UNCHANGED <<kept, asking>>

End(p) ==
  /\ kept' = [kept EXCEPT ![p] = Missing]
  /\ asking' = [asking EXCEPT ![p] = FALSE]
  /\ NothingServed

Next ==
  \E p \in Process : Ask(p) \/ EndAsking(p) \/ Keep(p) \/ Answer(p) \/ End(p)

Spec == Init /\ [][Next]_vars

=============================================================================
