---------------------------- MODULE MCScoreQueue ----------------------------
(***************************************************************************)
(* Instances of ScoreQueue for TLC.  Instances of the API, enqueues under  *)
(* way, and projects are interchangeable.                                  *)
(***************************************************************************)
EXTENDS ScoreQueue, TLC

Symm == Permutations(Workers) \cup Permutations(Requests)
            \cup Permutations(Projects)
=============================================================================
