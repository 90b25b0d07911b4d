-------------------------- MODULE MCMaintenanceSeam --------------------------
(***************************************************************************)
(* Instances of MaintenanceSeam for TLC. The configurations choose the     *)
(* clients, the reader threads and the bounds.                             *)
(***************************************************************************)
EXTENDS MaintenanceSeam

=============================================================================
