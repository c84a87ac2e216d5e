------------------------------ MODULE MCAccess ------------------------------
(* A user, a service account, two organisations and two roles; two requests   *)
(* at a time, three altogether, of the groups that can meet.                  *)
EXTENDS Access, TLC

Symm == Permutations(Slots)

MCMixes == {
  {"users", "roles"}, {"users", "members"}, {"services", "members"}, {"services", "roles"},
  {"organizations", "members"}, {"roles", "seed"},
  {"login", "users"}, {"login", "codes"}, {"login", "members"}, {"mfa", "login"}, {"mfa", "users"},
  {"tokens", "users"}, {"keys", "api"}, {"keys", "services"}, {"api", "users"},
  {"clients", "services"}, {"clients", "tokens"}}

MCMaxBegun == [m \in MCMixes |-> 3]
=============================================================================
