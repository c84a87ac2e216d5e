---------------------------- MODULE MCSyncQueue ----------------------------
(***************************************************************************)
(* Instances of SyncQueue for TLC.  Instances of the API are               *)
(* interchangeable.  The safety run has one project, on whose node all     *)
(* writers meet: jobs of two projects meet only in the stream, which does  *)
(* not look at the project.                                                *)
(***************************************************************************)
EXTENDS SyncQueue, TLC

Symm == Permutations(Workers)
=============================================================================
