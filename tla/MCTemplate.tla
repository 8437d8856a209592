------------------------------ MODULE MCTemplate ------------------------------
(* Instances of the machine-template controller for TLC. *)
EXTENDS MachineTemplateController

\* Two types with the same number of cores.
Cores == [it \in Types |-> 4]
GiB   == [it \in Types |-> IF it = "g6" THEN 16 ELSE 32]

Small == [instanceType |-> "g6", regionID |-> TRUE, size |-> 40]

\* Of another type and without a disk, of no known type, without a region.
Pools == {Small, [Small EXCEPT !.size = 0, !.instanceType = "r6"],
          [Small EXCEPT !.instanceType = "unknown"], [Small EXCEPT !.regionID = FALSE]}
=============================================================================
