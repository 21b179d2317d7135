-------------------------- MODULE MCVehicleImages ---------------------------
(***************************************************************************)
(* Small instances of VehicleImages: one to three requests about a vehicle *)
(* that may exist already and those they create, two links.                *)
(***************************************************************************)
EXTENDS VehicleImages, TLC

\* Requests differ only in their names, and so do links.
Symmetry == Permutations(RequestIds) \cup Permutations(Links)

=============================================================================
