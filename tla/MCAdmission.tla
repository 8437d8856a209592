----------------------------- MODULE MCAdmission -----------------------------
(* The admission of machines for TLC. *)
EXTENDS MachineAdmission

NoExtras == [category |-> "cloud_efficiency", size |-> 40, performanceLevel |-> FALSE,
             kmsKeyID |-> FALSE, encrypted |-> FALSE]

Worker ==
  [instanceType |-> "ecs.large", imageID |-> "", systemDisk |-> None, dataDisks |-> <<>>,
   spotStrategy |-> "", spotPriceLimit |-> None, tags |-> <<"team">>,
   regionID |-> "", zoneID |-> "", vSwitchID |-> "", providerID |-> FALSE]

\* Admitted, in part only once they are defaulted, or because of an edit.
Accepted ==
  {Worker,
   [Worker EXCEPT !.instanceType = "ecs.huge"],
   [Worker EXCEPT !.imageID = "image", !.zoneID = "zone-b", !.tags = <<>>],
   [Worker EXCEPT !.vSwitchID = "vsw-b", !.regionID = "region"],
   [Worker EXCEPT !.systemDisk = [NoExtras EXCEPT !.category = "", !.performanceLevel = TRUE]],
   [Worker EXCEPT !.systemDisk = [NoExtras EXCEPT !.size = 0]],
   [Worker EXCEPT !.spotStrategy = "SpotWithPriceLimit", !.spotPriceLimit = 2,
                  !.dataDisks = <<[NoExtras EXCEPT !.kmsKeyID = TRUE, !.encrypted = TRUE]>>]}

\* Refused, each for a reason of its own.
Refused ==
  {[Worker EXCEPT !.instanceType = ""],
   [Worker EXCEPT !.instanceType = "large"],
   [Worker EXCEPT !.systemDisk = [NoExtras EXCEPT !.size = 10]],
   [Worker EXCEPT !.systemDisk = [NoExtras EXCEPT !.performanceLevel = TRUE]],
   [Worker EXCEPT !.dataDisks = <<[NoExtras EXCEPT !.kmsKeyID = TRUE]>>],
   [Worker EXCEPT !.dataDisks = <<[NoExtras EXCEPT !.size = 0]>>],
   [Worker EXCEPT !.spotStrategy = "SpotWithPriceLimit"],
   [Worker EXCEPT !.spotStrategy = "SpotWithPriceLimit", !.spotPriceLimit = 0],
   [Worker EXCEPT !.spotPriceLimit = 2],
   [Worker EXCEPT !.tags = <<"team", "team">>],
   [Worker EXCEPT !.tags = <<"">>]}

Submitted == Accepted \cup Refused
=============================================================================
