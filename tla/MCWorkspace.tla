---------------------------- MODULE MCWorkspace ----------------------------
EXTENDS Workspace

\* The groups that meet in the code: each beside itself, or beside the one that
\* changes what it refers to.
MCMixes == {{"documents"}, {"documents", "tags"}, {"comments", "documents"}, {"named"}, {"webhooks"}, {"mcp"},
            {"templates", "tags"}, {"policies"}, {"blueprints"}, {"uploads"}, {"journal"}, {"lists"}}

MCMaxBegun == [g \in MCMixes |->
  IF g \cap {"journal", "lists"} # {} THEN 0
  ELSE IF g \in {{"policies"}, {"blueprints"}} THEN 2 ELSE 3]

MCSymmetry == Permutations(Slots) \cup Permutations(Writers) \cup Permutations(Processes)
=============================================================================
