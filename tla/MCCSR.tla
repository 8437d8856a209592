-------------------------------- MODULE MCCSR --------------------------------
(* The CSR approver for TLC: its names are model values of the .cfg. *)
EXTENDS CSRApprover
=============================================================================
