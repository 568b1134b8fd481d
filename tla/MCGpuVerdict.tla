---------------------------- MODULE MCGpuVerdict ----------------------------
(***************************************************************************)
(* Instances of GpuVerdict for TLC: two key sets of which the first loses  *)
(* a key and the second gains one, two GPUs and a switch.                  *)
(***************************************************************************)
EXTENDS GpuVerdict

Architectures == <<"hopper", "ls10">>

Attests == [a \in {"hopper", "ls10"} |-> IF a = "ls10" THEN "switch" ELSE "gpu"]

GpuAndSwitches == [a \in {"hopper", "ls10"} |-> IF a = "hopper" THEN 2 ELSE 1]

TwoSets == <<{"k1", "k2"}, {"k2", "k3"}>>
=============================================================================
