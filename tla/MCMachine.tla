------------------------------ MODULE MCMachine ------------------------------
(* Instances of the machine controller for TLC. *)
EXTENDS MachineProperties, TLC

\* Machine and AlibabaCloudMachine share one name, as MachineSets make them.
SameName == [m \in Machines |-> m]

Plain == [regionID |-> TRUE, image |-> TRUE, payload |-> "inline",
          httpTokens |-> "optional", hardenAfterBoot |-> FALSE]

PlainSpec    == {Plain}
NoRegionSpec == {[Plain EXCEPT !.regionID = FALSE]}
HardenSpec   == {[Plain EXCEPT !.hardenAfterBoot = TRUE]}
MixedSpecs   == NoRegionSpec \cup
                {[Plain EXCEPT !.image = FALSE],
                 [Plain EXCEPT !.httpTokens = ""],
                 [Plain EXCEPT !.payload = "tooLarge"],
                 [Plain EXCEPT !.payload = "offload", !.hardenAfterBoot = TRUE]}

\* Workers and instances are interchangeable.
Symmetric == Permutations(Workers) \cup Permutations(Instances)
=============================================================================
