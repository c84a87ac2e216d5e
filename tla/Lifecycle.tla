----------------------------- MODULE Lifecycle -----------------------------
(* What a write to a project sets off: the plugins bound to it are resolved   *)
(* (plugins/resolution.py, plugins/assignments.py), its context is read, each *)
(* plugin is called (plugins/lifecycle_dispatch.py) and what it hands back is *)
(* written to the project (endpoints/_helpers.py).  Nothing of this is in one *)
(* transaction with the write or with another dispatch.                       *)
EXTENDS Integrations

CONSTANTS Teams, NoTeam, Slugs, Envs

VARIABLES
  prj,     \* projects, teams, environments, dependencies
  repo,    \* the remote repository each integration keeps for each project
  prjLog   \* history the properties read and no handler does

\* An environment the project is not in, is in, is in with the property set.
EdgeStates == {"none", "plain", "set"}
NoProject == [there |-> FALSE, team |-> NoTeam, types |-> {}, slug |-> 0,
              envs |-> [e \in Envs |-> "none"], archived |-> FALSE, links |-> {}]
NoRepo == [there |-> FALSE, archived |-> FALSE, slug |-> 0, loc |-> {}]

Node(p) == prj.node[p]

\* Every handler finds a project through its team and the team's organisation.
Reachable(p) == Node(p).there /\ Node(p).team \in prj.team

\* A write of p's node that the plugins are to follow.
Written(log, p) == [log EXCEPT !.n[p] = @ + 1]
Apart(log, p, S) == [log EXCEPT !.apart = @ \cup ({p} \X S)]

\* What is to hear of p: of a project that is there every integration, then
\* those that keep a repository.
Following(p) == {i \in Integrations : Node(p).there \/ repo[p][i].there}

LookP(q, next) == Begin(q, next) /\ UNCHANGED <<igr, login, igrLog, prj, repo, prjLog>>
WaitP(q, label, next) ==
  Step(q, label, next) /\ UNCHANGED <<igr, login, igrLog, prj, repo, prjLog>>
IgrSame == UNCHANGED <<igr, login, igrLog>>

\* dispatch_lifecycle for the events in turn, after write n of p that left the
\* project with these types.
Dispatch(p, events, n, types) ==
  IF events = <<>> THEN Idle
  ELSE [at |-> "life.edges", p |-> p, todo |-> events, n |-> n, types |-> types,
        deleting |-> FALSE]

\* The next event, when this one has been to all its plugins or to none.
NextEvent(l) == Dispatch(l.p, Tail(l.todo), l.n, l.types)
NextCall(l) == IF l.rest # {} THEN [l EXCEPT !.at = "life.call"] ELSE NextEvent(l)

-----------------------------------------------------------------------------
\* effective_bindings: three reads, then one per plugin.

Bound(p, edges, assigned) == {i \in Integrations : i \in edges \/ i \notin assigned}
EdgesTo(p) == {i \in Integrations : <<p, i, "lifecycle">> \in igr.owned
                                    \/ \E t \in Node(p).types : <<t, i>> \in igr.typed}
Assigned == {e[2] : e \in igr.typed}
Enabled == {i \in Integrations : Here(i) /\ "lifecycle" \in igr.node[i].caps}
Effective(p) ==
  IF igr.on /\ Reachable(p) THEN Bound(p, EdgesTo(p), Assigned) \cap Enabled ELSE {}

\* No binding was found: nothing that is to hear of p does.
\* A deletion goes on with nothing to call.
Unheard(q, label) == LET l == req[q] IN
  /\ Step(q, label, IF l.deleting THEN With(l, [at |-> "project.delete", rest |-> {}])
                    ELSE NextEvent(l))
  /\ prjLog' = Apart(prjLog, l.p, IF l.todo[1] = "created" THEN Integrations ELSE Following(l.p))
  /\ UNCHANGED <<prj, repo>> /\ IgrSame

ResolveEdges(q) == At(q, "life.edges") /\ LET l == req[q] IN
  IF ~Reachable(l.p) THEN Unheard(q, "life.edges")
  ELSE /\ Step(q, "life.edges", With(l, [at |-> "life.integrations",
                                       edges |-> EdgesTo(l.p), had |-> Effective(l.p)]))
       /\ igrLog' = [igrLog EXCEPT !.torn = {x \in @ : x[1] # q}]
       /\ UNCHANGED <<igr, login, prj, repo, prjLog>>

ResolveIntegrations(q) ==
  WaitP(q, "life.integrations", With(req[q], [at |-> "life.assigned", enabled |-> Enabled]))

\* default_all: an integration no type is assigned to is every project's.
ResolveAssignedOnly(q) == LET l == req[q] IN
  WaitP(q, "life.assigned",
        With(l, [at |-> "life.enabled", bound |-> (l.edges \cap Assigned) \cap l.enabled]))
ResolveAssigned(q) == LET l == req[q] IN
  WaitP(q, "life.assigned",
        With(l, [at |-> "life.enabled", bound |-> Bound(l.p, l.edges, Assigned) \cap l.enabled]))

ResolveEnabled(q) == At(q, "life.enabled") /\ LET l == req[q]
                                                  found == IF igr.on THEN l.bound ELSE {} IN
  /\ igrLog' = [igrLog EXCEPT
       !.missed = @ \cup {i \in (l.had \cap Effective(l.p)) \ found : <<q, i>> \notin igrLog.torn}]
  /\ Step(q, "life.enabled",
          LET next == [at |-> "life.bundle", p |-> l.p, todo |-> l.todo, n |-> l.n,
                       types |-> l.types, deleting |-> l.deleting, rest |-> found] IN
          IF l.deleting THEN With(next, [at |-> "project.delete", bundle |-> l.bundle])
          ELSE IF found = {} THEN NextEvent(l)
          ELSE With(next, [bundle |-> <<>>]))
  /\ prjLog' = Apart(prjLog, l.p,
                     (IF l.todo[1] = "created" THEN Integrations ELSE Following(l.p)) \ found)
  /\ UNCHANGED <<igr, login, prj, repo>>

-----------------------------------------------------------------------------
\* build_lifecycle_context_bundle gathers its reads: they run side by side.
\* Links and connections are only handed to the plugin.

WithRead(l, f, value) ==
  LET bundle == With(l.bundle, [g \in {f} |-> value]) IN
  [l EXCEPT !.bundle = bundle,
            !.at = IF Cardinality(DOMAIN bundle) < 2 THEN @
                   ELSE IF l.deleting THEN "life.edges" ELSE "life.call"]

Unread(l) == {"slug", "types"} \ DOMAIN l.bundle

ReadBundle(q) == At(q, "life.bundle") /\ LET l == req[q] IN
  \E f \in Unread(l) : WaitP(q, "life.bundle", WithRead(l, f, Node(l.p)[f]))

\* A lookup that fails answers as for a project that is not there.
BundleReadFails(q) == At(q, "life.bundle") /\ faults < MaxFaults /\ LET l == req[q] IN
  \E f \in Unread(l) :
    /\ req' = [req EXCEPT ![q] = WithRead(l, f, NoProject[f])]
    /\ faults' = faults + 1
    /\ prjLog' = Apart(prjLog, l.p, Integrations)
    /\ UNCHANGED <<begun, mix, prj, repo>> /\ IgrSame

\* What the plugin of an integration does with a call: it keeps one repository
\* per project and finds it whatever it is called.
After(r, event, b) ==
  CASE event = "created" -> [there |-> TRUE, archived |-> FALSE, slug |-> b.slug, loc |-> b.types]
    [] event = "updated" -> [r EXCEPT !.slug = b.slug]
    [] event = "archived" -> [r EXCEPT !.archived = TRUE]
    [] event = "unarchived" -> [r EXCEPT !.archived = FALSE]
    [] event = "relocated" -> [r EXCEPT !.loc = b.types]
    [] event = "deleted" -> NoRepo

\* What it may ask Imbi to write: a link, or a service edge with its link.
Writebacks(event) ==
  CASE event = "created" -> {"life.call", "life.service"}
    [] event \in {"updated", "relocated"} -> {"life.call", "life.link"}
    [] OTHER -> {"life.call"}

\* A call that comes after one for a later write of the project, or that moves
\* the repository by types its own write has not left.
Overtakes(l, i) ==
  \/ l.n < prjLog.heard[l.p][i]
  \/ l.todo[1] \in {"created", "relocated"} /\ l.bundle["types"] # l.types

CallPlugin(q) == At(q, "life.call") /\ LET l == req[q] IN
  \E i \in l.rest :
    LET r == repo[l.p][i]
        event == l.todo[1]
        rest == [l EXCEPT !.rest = @ \ {i}]
        heard == [prjLog EXCEPT !.heard[l.p][i] = IF l.n > @ THEN l.n ELSE @] IN
    IF r.there \/ event = "created"
    THEN \E wb \in Writebacks(event) :
           /\ Step(q, "life.call", IF wb = "life.call" THEN NextCall(rest)
                                   ELSE With(rest, [at |-> wb, i |-> i, add |-> TRUE]))
           /\ repo' = [repo EXCEPT ![l.p][i] = After(r, event, l.bundle)]
           /\ prjLog' = Apart(heard, l.p, IF Overtakes(l, i) THEN {i} ELSE {})
           /\ UNCHANGED prj /\ IgrSame
    ELSE \* nothing to update: a failed invocation, and on to the next plugin
         /\ Step(q, "life.call", NextCall(rest))
         /\ prjLog' = Apart(prjLog, l.p, {i})
         /\ UNCHANGED <<prj, repo>> /\ IgrSame

\* A call that raises or times out, with or without its effect.
CallFails(q) == At(q, "life.call") /\ faults < MaxFaults /\ LET l == req[q] IN
  \E i \in l.rest, done \in BOOLEAN :
    /\ req' = [req EXCEPT ![q] = NextCall([l EXCEPT !.rest = @ \ {i}])]
    /\ faults' = faults + 1
    /\ repo' = [repo EXCEPT ![l.p][i] =
         IF done /\ (@.there \/ l.todo[1] = "created") THEN After(@, l.todo[1], l.bundle) ELSE @]
    /\ prjLog' = Apart(prjLog, l.p, {i})
    /\ UNCHANGED <<begun, mix, prj>> /\ IgrSame

-----------------------------------------------------------------------------
\* _helpers.py

\* _merge_exists_in.
WriteService(q) == LET l == req[q] IN
  /\ Step(q, "life.service", To(q, "life.link"))
  /\ igr' = IF Reachable(l.p) /\ Here(l.i) THEN [igr EXCEPT !.exists = @ \cup {<<l.p, l.i>>}]
            ELSE igr
  /\ UNCHANGED <<login, igrLog, prj, repo, prjLog>>

AfterLink(l) == IF l.todo = <<>> THEN Idle ELSE NextCall(l)

\* merge_project_links and update_project_link: the links are read, and written
\* whole if the merge changes them.
ReadLinks(q) == LET l == req[q] IN
  WaitP(q, "life.link", IF (l.i \in Node(l.p).links) = l.add THEN AfterLink(l)
                        ELSE With(l, [at |-> "life.linkset", links |-> Node(l.p).links]))

\* A lookup that fails is taken for a project without links.
LinksLost(q) == At(q, "life.link") /\ faults < MaxFaults /\ LET l == req[q] IN
  /\ req' = [req EXCEPT ![q] = IF l.add THEN With(l, [at |-> "life.linkset", links |-> {}])
                               ELSE AfterLink(l)]
  /\ faults' = faults + 1
  /\ prjLog' = IF l.add THEN prjLog ELSE [prjLog EXCEPT !.stale = @ \cup {l.p}]
  /\ UNCHANGED <<begun, mix, prj, repo>> /\ IgrSame

Linked(links, i, add) == IF add THEN links \cup {i} ELSE links \ {i}

WriteLinks(q) == At(q, "life.linkset") /\ LET l == req[q] IN
  /\ Step(q, "life.linkset",
          AfterLink([f \in DOMAIN l \ {"links"} |-> l[f]]))
  /\ IF ~Node(l.p).there THEN UNCHANGED <<prj, prjLog>>
     ELSE /\ prj' = [prj EXCEPT !.node[l.p].links = Linked(l.links, l.i, l.add)]
          /\ prjLog' = [prjLog EXCEPT
               !.want[l.p].links = Linked(@, l.i, l.add),
               !.stale = IF Node(l.p).links = l.links THEN @ ELSE @ \cup {l.p}]
  /\ UNCHANGED repo /\ IgrSame

-----------------------------------------------------------------------------

LifecycleStep(q) ==
  \/ ResolveEdges(q) \/ ResolveIntegrations(q) \/ ResolveAssigned(q) \/ ResolveEnabled(q)
  \/ ReadBundle(q) \/ BundleReadFails(q) \/ CallPlugin(q) \/ CallFails(q)
  \/ WriteService(q) \/ ReadLinks(q) \/ LinksLost(q) \/ WriteLinks(q)

-----------------------------------------------------------------------------
\* Properties

\* An integration that is bound to a project when its bindings are resolved and
\* still bound when they have been is among them, unless the integration or its
\* assignments changed between the three reads of assignments.py:142-157.
BoundAtBothEnds == igrLog.missed = {}
=============================================================================
