------------------------------ MODULE Projects ------------------------------
(* The handlers that write projects (projects.py), their services             *)
(* (webhooks.py), their assignments (project_integrations.py) and their       *)
(* lifecycle (project_lifecycle.py), beside the deletion of the teams, types, *)
(* environments and integrations they refer to.                               *)
EXTENDS Lifecycle

ASSUME ProjectsAssumption ==
  /\ Projects # {} /\ Integrations # {} /\ Types # {} /\ Teams # {} /\ Slugs # {}
  /\ NoTeam \notin Teams

projectVars == <<pool, igr, login, igrLog, prj, repo, prjLog>>

Deps(p) == {e[1] : e \in {x \in prj.dep : x[2] = p}}

\* <<s, p>> is owed: s waits for a new score on account of p. Its request queues it
\* in the end; or nobody does, and it is left unscored.
Owing(log, S) == [log EXCEPT !.owed = @ \cup S, !.unscored = @ \ S]
Queued(log, S) == [log EXCEPT !.owed = @ \ (S \X Projects), !.unscored = @ \ (S \X Projects)]
Unscored(log, S) == [log EXCEPT !.owed = @ \cup S, !.unscored = @ \cup S]

-----------------------------------------------------------------------------
\* create_project: the types are checked, then the environments, then one
\* statement creates the node and its edges to what is there by then.

\* The edges a statement makes to the environments that exist.
EdgesNow(envs) == [e \in Envs |-> IF e \in prj.env THEN envs[e] ELSE "none"]
Asked(envs) == {e \in Envs : envs[e] # "none"}

\* A statement that looks up types or environments and finds none of them goes
\* no further: its handler answers 404 although what came before is written.
CutShort(doc) == \/ doc.types \cap igr.type = {}
                 \/ Asked(doc.envs) # {} /\ Asked(doc.envs) \cap prj.env = {}

Doc(team, types, slug, envs) ==
  [NoProject EXCEPT !.there = TRUE, !.team = team, !.types = types, !.slug = slug, !.envs = envs]

CreateProject(q) ==
  \E p \in Projects \ prjLog.born, team \in Teams, types \in SUBSET igr.type \ {{}}, slug \in Slugs,
     envs \in [Envs -> {"none", "plain"}] :
    /\ \A o \in Slots : req[o].at \in {"project.envs", "project.create"} => req[o].p # p
    /\ LookP(q, [at |-> IF Asked(envs) = {} THEN "project.create" ELSE "project.envs",
                 p |-> p, doc |-> Doc(team, types, slug, envs)])

ValidateEnvs(q) ==
  WaitP(q, "project.envs",
        IF Asked(req[q].doc.envs) \subseteq prj.env THEN To(q, "project.create") ELSE Idle)

CreateProjectNode(q) == At(q, "project.create") /\ LET l == req[q]
                                                       types == l.doc.types \cap igr.type
                                                       new == [l.doc EXCEPT
                                                         !.types = types,
                                                         !.envs = IF types = {} THEN NoProject.envs
                                                                  ELSE EdgesNow(@)] IN
  IF l.doc.team \notin prj.team THEN WaitP(q, "project.create", Idle)
  ELSE /\ Step(q, "project.create",
               IF CutShort(l.doc) THEN Idle ELSE Dispatch(l.p, <<"created">>, 1, types))
       /\ prj' = [prj EXCEPT !.node[l.p] = new]
       /\ prjLog' = LET log == [prjLog EXCEPT !.born = @ \cup {l.p}, !.want[l.p] = new,
                                              !.n[l.p] = 1, !.loc[l.p] = types] IN
                    IF CutShort(l.doc) THEN Apart(log, l.p, Integrations) ELSE log
       /\ UNCHANGED repo /\ IgrSame

-----------------------------------------------------------------------------
\* patch_project: the whole document is read, patched, checked and written.

PatchProject(q) == \E p \in Projects : /\ Reachable(p)
  /\ LookP(q, [at |-> "project.patch", p |-> p, read |-> Node(p)])

Patches(read) ==
  {[read EXCEPT !.slug = s] : s \in Slugs} \cup {[read EXCEPT !.team = t] : t \in Teams}
  \cup {[read EXCEPT !.types = T] : T \in SUBSET Types \ {{}}}
  \cup {[read EXCEPT !.envs[e] = "plain"] : e \in Envs}
  \cup {[read EXCEPT !.links = {}]}

\* A document without types is a 400, references that are not there a 422.
CheckPatch(q) == At(q, "project.patch") /\ LET l == req[q] IN
  \E doc \in Patches(l.read), transfer \in BOOLEAN :
    /\ transfer => doc.types # l.read.types
    /\ WaitP(q, "project.patch",
             IF /\ doc.types # {} /\ doc.types \subseteq igr.type
                /\ doc.team \in prj.team /\ Asked(doc.envs) \subseteq prj.env
             THEN With(l, [at |-> "project.save", doc |-> doc, transfer |-> transfer])
             ELSE Idle)

\* The archive flag is not carried over.
SavedAnew(now, doc) ==
  [now EXCEPT !.slug = doc.slug, !.archived = FALSE, !.links = doc.links, !.team = doc.team,
              !.types = doc.types \cap igr.type, !.envs = EdgesNow(doc.envs)]

\* One statement: the properties, then the team, then the types, then the
\* environments, as far as what it looks up is there.
Saved(now, doc) ==
  LET props == [now EXCEPT !.slug = doc.slug, !.archived = doc.archived, !.links = doc.links]
      moved == [props EXCEPT !.team = doc.team]
      typed == [moved EXCEPT !.types = doc.types \cap igr.type] IN
  IF doc.team \notin prj.team THEN props
  ELSE IF typed.types = {} THEN typed
  ELSE [typed EXCEPT !.envs = EdgesNow(doc.envs)]

\* What the operator changed of what was read; the rest is as it was wanted.
Merged(want, read, doc, new) ==
  [f \in DOMAIN want |-> IF doc[f] = read[f] THEN want[f] ELSE new[f]]

Events(l) ==
  (IF l.doc.slug # l.read.slug THEN <<"updated">> ELSE <<>>)
  \o (IF l.transfer \/ l.doc.team # l.read.team THEN <<"relocated">> ELSE <<>>)

PatchProjectSave(q) == At(q, "project.save") /\ LET l == req[q]
                                                    now == Node(l.p)
                                                    new == Saved(now, l.doc) IN
  IF ~Reachable(l.p) THEN WaitP(q, "project.save", Idle)
  ELSE LET cut == l.doc.team \notin prj.team \/ CutShort(l.doc)
           owed == ({l.p} \cup IF prj.policies THEN Deps(l.p) ELSE {}) \X {l.p}
           log == [IF cut THEN Unscored(Written(prjLog, l.p), owed) ELSE Owing(Written(prjLog, l.p), owed) EXCEPT
             !.want[l.p] = Merged(@, l.read, l.doc, new),
             !.stale = IF now = l.read THEN @ ELSE @ \cup {l.p},
             !.loc[l.p] = IF "relocated" \in {Events(l)[k] : k \in DOMAIN Events(l)}
                          THEN new.types ELSE @] IN
    /\ Step(q, "project.save", IF cut THEN Idle
            ELSE [at |-> "project.rescore", p |-> l.p, events |-> Events(l),
                  n |-> log.n[l.p], types |-> new.types])
    /\ prj' = [prj EXCEPT !.node[l.p] = new]
    \* written back as it was read, or cut short: no plugin is told
    /\ prjLog' = IF now # l.read \/ cut THEN Apart(log, l.p, Integrations) ELSE log
    /\ UNCHANGED repo /\ IgrSame

\* enqueue_recompute of the project, then of its dependents as found now.
RescoreAlone(q) == LET l == req[q] IN
  /\ Step(q, "project.rescore", To(q, "project.tell"))
  /\ prjLog' = Queued(prjLog, {l.p})
  /\ UNCHANGED <<prj, repo>> /\ IgrSame
Rescore(q) == LET l == req[q] IN
  /\ Step(q, "project.rescore", To(q, IF prj.policies THEN "project.dependents" ELSE "project.tell"))
  /\ prjLog' = Queued(prjLog, {l.p})
  /\ UNCHANGED <<prj, repo>> /\ IgrSame

FindDependents(q) == LET l == req[q] IN
  WaitP(q, "project.dependents", With(l, [at |-> "project.requeue", deps |-> Deps(l.p)]))

EnqueueDependents(q) == LET l == req[q] IN
  /\ Step(q, "project.requeue", To(q, "project.tell"))
  /\ prjLog' = Queued(prjLog, l.deps)
  /\ UNCHANGED <<prj, repo>> /\ IgrSame

Tell(q) == LET l == req[q] IN
  WaitP(q, "project.tell", Dispatch(l.p, l.events, l.n, l.types))

\* One statement on the edge alone.
PatchProjectEnvironment(q) == \E p \in Projects, e \in Envs : /\ Reachable(p)
  /\ Node(p).envs[e] # "none"
  /\ \E set \in {"plain", "set"} :
     /\ Begin(q, Idle)
     /\ prj' = [prj EXCEPT !.node[p].envs[e] = set]
     /\ prjLog' = [prjLog EXCEPT !.want[p].envs[e] = set]
     /\ UNCHANGED repo /\ IgrSame

-----------------------------------------------------------------------------
\* Archive, synchronise, delete.

\* _set_archived_state, then the dispatch.
SetArchivedState(q, event, archived) == \E p \in Projects : /\ Reachable(p)
  /\ LET log == Written([prjLog EXCEPT !.want[p].archived = archived], p) IN
     /\ Begin(q, Dispatch(p, <<event>>, log.n[p], Node(p).types))
     /\ prj' = [prj EXCEPT !.node[p].archived = archived]
     /\ prjLog' = log
  /\ UNCHANGED repo /\ IgrSame
ArchiveProject(q) == SetArchivedState(q, "archived", TRUE)
UnarchiveProject(q) == SetArchivedState(q, "unarchived", FALSE)

SyncProjectLifecycle(q) == \E p \in Projects :
  LookP(q, Dispatch(p, <<"updated">>, prjLog.n[p], Node(p).types))

\* delete_project: the context and the bindings are read first, unless the
\* repository is to stay; then the node goes, then the plugins hear of it.
DeleteProject(q) == \E p \in Projects, keep \in BOOLEAN : /\ Node(p).there
  /\ LET l == [at |-> "life.bundle", p |-> p, todo |-> <<"deleted">>, n |-> 0, types |-> {},
               deleting |-> ~keep, bundle |-> <<>>] IN
     LookP(q, IF keep THEN With(l, [at |-> "project.delete", rest |-> {}]) ELSE l)

\* With a project go the edges of its dependents, and nobody scores those anew.
Bereft(p) == IF prj.policies THEN Deps(p) \X {p} ELSE {}

\* The plugins are called before the node is deleted.
DeleteProjectNodeLast(q) == At(q, "project.delete") /\ LET l == req[q] IN
  /\ Step(q, "project.delete", IF l.rest = {} THEN Idle
               ELSE [l EXCEPT !.at = "life.call", !.deleting = FALSE, !.n = prjLog.n[l.p]])
  /\ prjLog' = [prjLog EXCEPT !.asked = IF l.deleting THEN @ \cup {l.p} ELSE @]
  /\ UNCHANGED <<prj, repo>> /\ IgrSame
DeleteProjectNode(q) == At(q, "project.delete") /\ LET l == req[q]
                                                       log == Unscored(Written(prjLog, l.p), Bereft(l.p)) IN
  IF ~Reachable(l.p) THEN WaitP(q, "project.delete", Idle)
  ELSE /\ Step(q, "project.delete",
               IF l.rest = {} THEN Idle
               ELSE [l EXCEPT !.at = "life.call", !.deleting = FALSE, !.n = log.n[l.p]])
       /\ prj' = [prj EXCEPT !.node[l.p] = NoProject,
                             !.dep = {e \in @ : l.p \notin {e[1], e[2]}}]
       /\ igr' = [igr EXCEPT !.owned = {e \in @ : e[1] # l.p},
                             !.exists = {e \in @ : e[1] # l.p}]
       /\ prjLog' = [log EXCEPT !.want[l.p] = NoProject, !.stale = @ \ {l.p},
                                !.owed = {o \in @ : o[1] # l.p},
                                !.asked = IF l.deleting THEN @ \cup {l.p} ELSE @]
       /\ UNCHANGED <<login, igrLog, repo>>

-----------------------------------------------------------------------------
\* Dependencies between projects.

Depend(q, deps, s) ==
  /\ Begin(q, [at |-> "rel.policies", p |-> s])
  /\ prj' = [prj EXCEPT !.dep = deps]
  /\ prjLog' = IF prj.policies THEN Owing(prjLog, {<<s, s>>}) ELSE prjLog
  /\ UNCHANGED repo /\ IgrSame

CreateRelationship(q) == \E s, t \in Projects : /\ s # t /\ Reachable(s) /\ Reachable(t)
  /\ Depend(q, prj.dep \cup {<<s, t>>}, s)

DeleteRelationship(q) == \E e \in prj.dep : /\ Reachable(e[1]) /\ Reachable(e[2])
  /\ Depend(q, prj.dep \ {e}, e[1])

ConditionPoliciesExist(q) ==
  WaitP(q, "rel.policies", IF prj.policies THEN To(q, "rel.queue") ELSE Idle)

EnqueueSource(q) ==
  /\ Step(q, "rel.queue", Idle)
  /\ prjLog' = Queued(prjLog, {req[q].p})
  /\ UNCHANGED <<prj, repo>> /\ IgrSame

-----------------------------------------------------------------------------
\* Services of a project: an edge, and a link under the integration's slug.

Link(p, i, add) == [at |-> "life.link", p |-> p, i |-> i, add |-> add, todo |-> <<>>]

CreateProjectService(q) == \E p \in Projects, i \in Integrations, link \in BOOLEAN :
  /\ Reachable(p) /\ Here(i)
  /\ Begin(q, IF link THEN Link(p, i, TRUE) ELSE Idle)
  /\ igr' = [igr EXCEPT !.exists = @ \cup {<<p, i>>}]
  /\ UNCHANGED <<login, igrLog, prj, repo, prjLog>>

UpdateProjectService(q) == \E e \in igr.exists, link \in BOOLEAN : /\ Reachable(e[1])
  /\ LookP(q, Link(e[1], e[2], link))

DeleteProjectService(q) == \E e \in igr.exists : /\ Reachable(e[1])
  /\ Begin(q, Link(e[1], e[2], FALSE))
  /\ igr' = [igr EXCEPT !.exists = @ \ {e}]
  /\ UNCHANGED <<login, igrLog, prj, repo, prjLog>>

-----------------------------------------------------------------------------
\* project_integrations.py: the rows are checked, then one statement per kind,
\* of those in the body and those that were there.

Rows == {{}} \cup {{<<i, "lifecycle">>} : i \in Integrations}
        \cup {{i} \X Kinds : i \in Integrations}

ReplaceProjectIntegrations(q) == \E p \in Projects, rows \in Rows : /\ Reachable(p)
  /\ LookP(q, [at |-> "owned.list", p |-> p, rows |-> rows])

ListAssigned(q) == LET l == req[q] IN
  WaitP(q, "owned.list",
        With(l, [at |-> "owned.check",
                 kinds |-> {e[3] : e \in {x \in igr.owned : x[1] = l.p}} \cup {r[2] : r \in l.rows}]))

CheckAssigned(q) == LET l == req[q] IN
  WaitP(q, "owned.check",
        IF l.kinds # {} /\ \A r \in l.rows : Here(r[1]) /\ r[2] \in igr.node[r[1]].caps
        THEN To(q, "owned.save") ELSE Idle)

ReplaceAssignments(q) == At(q, "owned.save") /\ LET l == req[q] IN
  \E k \in l.kinds :
    LET rest == l.kinds \ {k} IN
    /\ Step(q, "owned.save", IF rest = {} THEN Idle ELSE [l EXCEPT !.kinds = rest])
    /\ igr' = IF ~Reachable(l.p) THEN igr
              ELSE [igr EXCEPT !.owned =
                {e \in @ : e[1] # l.p \/ e[3] # k}
                \cup {<<l.p, r[1], k>> : r \in {x \in l.rows : x[2] = k /\ Here(x[1])}}]
    /\ UNCHANGED <<login, igrLog, prj, repo, prjLog>>

-----------------------------------------------------------------------------
\* What projects refer to is deleted with its edges, whatever refers to it.

DeleteTeamNode(q) == \E t \in prj.team :
  /\ Begin(q, Idle)
  /\ prj' = [prj EXCEPT !.team = @ \ {t}]
  /\ UNCHANGED <<repo, prjLog>> /\ IgrSame
DeleteTeam(q) == \E t \in prj.team :
  /\ Begin(q, Idle)
  /\ LET leaves(node) == [node EXCEPT !.team = IF @ = t THEN NoTeam ELSE @] IN
     /\ prj' = [prj EXCEPT !.team = @ \ {t}, !.node = [p \in Projects |-> leaves(Node(p))]]
     /\ prjLog' = [prjLog EXCEPT !.want = [p \in Projects |-> leaves(prjLog.want[p])]]
  /\ UNCHANGED repo /\ IgrSame

DeleteProjectType(q) == \E t \in igr.type :
  /\ Begin(q, Idle)
  /\ igr' = [igr EXCEPT !.type = @ \ {t}, !.typed = {e \in @ : e[1] # t}]
  /\ LET leaves(node) == [node EXCEPT !.types = @ \ {t}] IN
     /\ prj' = [prj EXCEPT !.node = [p \in Projects |-> leaves(Node(p))]]
     /\ prjLog' = [prjLog EXCEPT !.want = [p \in Projects |-> leaves(prjLog.want[p])]]
  /\ igrLog' = Tear(igrLog, {e[2] : e \in {x \in igr.typed : x[1] = t}})
  /\ UNCHANGED <<login, repo>>

DeleteEnvironment(q) == \E e \in prj.env :
  /\ Begin(q, Idle)
  /\ LET leaves(node) == [node EXCEPT !.envs[e] = "none"] IN
     /\ prj' = [prj EXCEPT !.env = @ \ {e}, !.node = [p \in Projects |-> leaves(Node(p))]]
     /\ prjLog' = [prjLog EXCEPT !.want = [p \in Projects |-> leaves(prjLog.want[p])]]
  /\ UNCHANGED repo /\ IgrSame

\* A deleted integration keeps its repositories where they are.
Detached == {i \in Integrations : Here(i) /\ ~igr'.node[i].there}

-----------------------------------------------------------------------------

PrjInit ==
  LET first == CHOOSE p \in Projects : TRUE
      team == CHOOSE t \in Teams : TRUE
      types == CHOOSE T \in SUBSET Types : Cardinality(T) = 1
      born == IF "relations" \in mix THEN Projects ELSE {first}
      node == [Doc(team, types, CHOOSE s \in Slugs : TRUE, [e \in Envs |-> "plain"])
               EXCEPT !.links = {}] IN
  \E policies \in (IF "relations" \in mix THEN BOOLEAN ELSE {FALSE}) :
  /\ prj = [node |-> [p \in Projects |-> IF p \in born THEN node ELSE NoProject],
            team |-> Teams, env |-> Envs, dep |-> {}, policies |-> policies]
  /\ repo = [p \in Projects |-> [i \in Integrations |->
               IF p \in born /\ i \in Effective(p)
               THEN [there |-> TRUE, archived |-> FALSE, slug |-> node.slug, loc |-> types]
               ELSE NoRepo]]
  /\ prjLog = [want |-> prj.node, stale |-> {}, born |-> born, asked |-> {}, owed |-> {}, unscored |-> {},
               n |-> [p \in Projects |-> IF p \in born THEN 1 ELSE 0],
               heard |-> [p \in Projects |-> [i \in Integrations |-> IF repo[p][i].there THEN 1 ELSE 0]],
               loc |-> [p \in Projects |-> IF p \in born THEN types ELSE {}],
               apart |-> {e \in born \X Integrations : ~repo[e[1]][e[2]].there}]

Init == PoolInit /\ IgrInit /\ PrjInit

ProjectsStep(q) ==
  \/ ValidateEnvs(q) \/ CreateProjectNode(q) \/ CheckPatch(q) \/ PatchProjectSave(q)
  \/ Rescore(q) \/ FindDependents(q) \/ EnqueueDependents(q) \/ Tell(q)
  \/ DeleteProjectNode(q) \/ ConditionPoliciesExist(q) \/ EnqueueSource(q)
  \/ ListAssigned(q) \/ CheckAssigned(q) \/ ReplaceAssignments(q)

ProjectsNext == \E q \in Slots :
  \/ "create" \in mix /\ CreateProject(q)
  \/ "patch" \in mix /\ (PatchProject(q) \/ PatchProjectEnvironment(q))
  \/ "archive" \in mix /\ (ArchiveProject(q) \/ UnarchiveProject(q))
  \/ "sync" \in mix /\ SyncProjectLifecycle(q)
  \/ "delete" \in mix /\ DeleteProject(q)
  \/ "relations" \in mix /\ (CreateRelationship(q) \/ DeleteRelationship(q))
  \/ "services" \in mix
     /\ (CreateProjectService(q) \/ UpdateProjectService(q) \/ DeleteProjectService(q))
  \/ "assignments" \in mix /\ ReplaceProjectIntegrations(q)
  \/ "catalogue" \in mix /\ (DeleteTeam(q) \/ DeleteProjectType(q) \/ DeleteEnvironment(q))
  \/ LifecycleStep(q) \/ ProjectsStep(q)

\* A request that dies after its write has told no one.
DieP(q) == LET l == req[q] IN
  /\ Die(q)
  /\ prjLog' = IF "p" \in DOMAIN l
               THEN LET log == Apart(prjLog, l.p, Integrations) IN
                    IF l.at \in {"project.rescore", "project.dependents", "project.requeue",
                                 "rel.policies", "rel.queue"}
                    THEN Unscored(log, {o \in log.owed : l.p \in {o[1], o[2]}}) ELSE log
               ELSE prjLog
  /\ UNCHANGED <<prj, repo>> /\ IgrSame

Next ==
  \/ ProjectsNext
  \/ /\ IntegrationsNext
     /\ prjLog' = [prjLog EXCEPT !.apart = @ \cup (Projects \X Detached)]
     /\ UNCHANGED <<prj, repo>>
  \/ "login" \in mix /\ LoginTick /\ UNCHANGED <<prj, repo, prjLog>>
  \/ \E q \in Slots : DieP(q)

Spec == Init /\ [][Next]_projectVars

-----------------------------------------------------------------------------
\* Properties

TypeOK ==
  /\ PoolTypeOK /\ IgrTypeOK
  /\ prj.node \in [Projects -> [there : BOOLEAN, team : prj.team \cup {NoTeam}, types : SUBSET igr.type,
                                slug : Slugs \cup {0}, envs : [Envs -> EdgeStates],
                                archived : BOOLEAN, links : SUBSET Integrations]]
  /\ \A p \in Projects : Asked(Node(p).envs) \subseteq prj.env
  /\ \A p \in Projects : ~Node(p).there => Node(p) = NoProject
  /\ prj.dep \subseteq {p \in Projects : Node(p).there} \X {p \in Projects : Node(p).there}
  /\ \A e \in igr.owned \cup igr.exists : Node(e[1]).there

\* No request in flight concerns p.
Quiet(p) == \A q \in Slots : "p" \in DOMAIN req[q] => req[q].p # p

\* Every project is as its operators and plugins last asked, field by field,
\* unless a patch or a merge of links was written over a change it had not read
\* (projects.py:2602 and :2645, _helpers.py:233 and :300).
ProjectsAsAsked == \A p \in Projects \ prjLog.stale : Node(p) = prjLog.want[p]

\* Once no request is at work on a project, its repository is there, archived
\* and named as the project is, and placed by the types of the last transfer; it
\* is gone when the project was deleted with it. Excepted is an integration that
\* a call failed for, was overtaken for or was never made for (apart).
RemoteFollows == \A p \in prjLog.born, i \in Integrations :
  Quiet(p) /\ <<p, i>> \notin prjLog.apart =>
    LET r == repo[p][i] IN
    IF Node(p).there
    THEN r = [there |-> TRUE, archived |-> Node(p).archived, slug |-> Node(p).slug,
              loc |-> prjLog.loc[p]]
    ELSE r.there = (p \notin prjLog.asked)

\* A repository is removed only for a project that is gone and whose deletion
\* asked for it (delete_repository, projects.py:3219), failures or not.
RepositoryOutlivesProject == \A p \in prjLog.born, i \in Integrations :
  ~repo[p][i].there /\ prjLog.heard[p][i] > 0 => ~Node(p).there /\ p \in prjLog.asked

\* When nobody is at work any more, no project waits for a new score on account
\* of a patch of it or of a dependency, or of a dependency gained or lost, but for
\* the unscored: those who lost a dependency by its deletion, for which
\* delete_project queues nobody (projects.py:3258, against :2384), and those whose
\* request died, or was answered 404 for a patch it had written.
DependentsRescored == (\A q \in Slots : req[q] = Idle) => prjLog.owed \subseteq prjLog.unscored

\* Projects, and the integrations they are bound to, are as their operators and
\* plugins last asked.
KeptAsAsked == ProjectsAsAsked /\ IntegrationsAsPut

\* The repositories at the remote follow the projects and outlive none of them
\* by more, or by less, than was asked.
RepositoriesFollow == RemoteFollows /\ RepositoryOutlivesProject
=============================================================================
