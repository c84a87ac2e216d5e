------------------------ MODULE MCIdentityConnection ------------------------
(***************************************************************************)
(* Instances of IdentityConnection for TLC.  Processes are interchangeable *)
(* within each set of menus.                                               *)
(***************************************************************************)
EXTENDS IdentityConnection, TLC

Symm == Permutations(Sweepers) \cup Permutations(Requests)

\* What the sweepers do, what one request does, and what the others do.
Menu(sweepers, one, others) ==
  {[p \in Procs |-> IF p \in Sweepers THEN sweepers ELSE IF p = r THEN one ELSE others] : r \in Requests}

Uses == {"call", "refresh", "delete", "poll"}

\* Two sweepers and a request; or callbacks that bring one state back.
MCMenus == Menu({"sweep"}, Uses, {}) \cup Menu({}, {"start", "connect"}, {"connect"})
=============================================================================
