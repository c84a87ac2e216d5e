---------------------------- MODULE MCDeployments ----------------------------
(***************************************************************************)
(* Instances of Deployments for TLC.  Tasks are interchangeable, and so    *)
(* are commits.                                                            *)
(***************************************************************************)
EXTENDS Deployments, TLC

Symm == Permutations(Tasks) \cup Permutations(Commits)
=============================================================================
