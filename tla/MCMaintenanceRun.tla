------------------------- MODULE MCMaintenanceRun -------------------------
(***************************************************************************)
(* Instances of MaintenanceRun for TLC.  Instances of the API and projects *)
(* are interchangeable, and so are the admin requests.                     *)
(***************************************************************************)
EXTENDS MaintenanceRun, TLC

Symm == Permutations(Workers) \cup Permutations(Projects) \cup Permutations(Admins)
=============================================================================
