----------------------------- MODULE MCProjects -----------------------------
(* Two projects, one of which may be yet to come, two integrations of one     *)
(* plugin, two requests at a time of the groups that can meet.                *)
EXTENDS Projects

Symm == Permutations(Slots)

MCMixes == {
  {"archive"}, {"archive", "patch"}, {"archive", "delete"}, {"create", "delete"}, {"create", "catalogue"},
  {"patch", "catalogue"}, {"patch", "delete"}, {"patch", "relations"}, {"delete", "relations"},
  {"patch", "services"},
  {"archive", "integrations"}, {"archive", "assignments"}, {"assignments", "capabilities"},
  {"sync", "patch"}, {"login", "capabilities"}, {"credentials", "integrations"}}

\* What is served from the cache takes a third request.
MCMaxBegun == [m \in MCMixes |-> IF "login" \in m THEN 3 ELSE 2]
=============================================================================
