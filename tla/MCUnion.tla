-------------------------------- MODULE MCUnion --------------------------------
(***************************************************************************)
(* The union of large sets of requests for TLC, which compares each member *)
(* of a UNION with all the others: here each comes with the set it is      *)
(* from, and a set is only compared with itself.                           *)
(***************************************************************************)
Together(sets) == {x[2] : x \in UNION {{S} \X S : S \in sets}}
===============================================================================
