------------------------------- MODULE Access -------------------------------
(* Accounts, sessions and credentials over one graph.  The three components   *)
(* meet in the principal's node: a login writes it whole, deleting it takes   *)
(* its edges along, and every token and key is only as good as it is.         *)
EXTENDS Credentials

accessVars == <<pool, acc, accLog, ses, sesLog, keys, cache, now, keyLog>>

Init == PoolInit /\ AccInit /\ SesInit /\ KeysInit

\* The principals this step deletes.
Gone == {p \in Principals : Exists(p) /\ ~acc'.node[p].there}

Next ==
  \/ AccountsNext /\ SessionsFollow(Gone) /\ KeysFollow(Gone, begun' > begun)
  \/ SessionsNext /\ KeysQuiet
  \/ CodeExpires /\ KeysQuiet
  \/ CredentialsNext
  \/ "api" \in mix /\ Tick
  \/ \E q \in Slots : Die(q) /\ SessionsQuiet /\ KeysQuiet

Spec == Init /\ [][Next]_accessVars

TypeOK == PoolTypeOK /\ AccTypeOK /\ SesTypeOK /\ KeysTypeOK
=============================================================================
