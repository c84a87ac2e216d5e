----------------------------- MODULE Deployments -----------------------------
(***************************************************************************)
(* Releases of a project and where they are deployed                       *)
(* (imbi_api/endpoints/releases.py and project_deployments.py): Release    *)
(* nodes, the list of events on every DEPLOYED_TO edge, and the pointer to *)
(* the current release on every DEPLOYED_IN edge.                          *)
(*                                                                         *)
(* Several tasks work on them at once: requests that create, retag, cut,   *)
(* deploy and promote releases or post an event, the resync job, and the   *)
(* release train, which writes what it learns while a page is rendered.    *)
(* Every query, and every call to the remote, is a step.  The remote is    *)
(* external: it holds the git tags and knows how its runs fare.            *)
(***************************************************************************)
EXTENDS Naturals, Sequences, FiniteSets

CONSTANTS
    Tasks,          \* requests and jobs under way
    Envs,           \* environments the project is deployed in
    Commits,        \* committishes
    Tags,           \* tags
    NoTag,          \* a release without a tag, a run of a plain commit
    MaxReleases,    \* bound: Release nodes
    MaxRuns,        \* bound: runs of the remote
    MaxTime,        \* bound: readings of the clock
    MaxBegun,       \* bound: requests and jobs ever begun
    MaxFaults,      \* bound: faults
    Faults          \* which faults may happen

ASSUME ConstantsAssumption ==
    /\ NoTag \notin Tags
    /\ MaxReleases \in Nat /\ MaxRuns \in Nat
    /\ MaxTime \in Nat /\ MaxBegun \in Nat /\ MaxFaults \in Nat
    /\ Faults \subseteq {"crash", "db_error", "remote_error"}

VARIABLES
    releases,    \* Release nodes; their ids number them
    edges,       \* DEPLOYED_TO edges, in the order of their creation
    current,     \* current_release and current_release_at of every environment
    tagAt,       \* git tags of the remote
    runs,        \* runs of the remote; their ids number them
    clock,       \* the last time read
    pc, loc,     \* control point and locals of every task
    stored,      \* history: successes ever stored, with their time
    cut,         \* history: successes stored by a task that failed right after
    raced,       \* history: an identity was taken after it was found free
    quiet,       \* history: resyncs nothing else has moved since they asked
    begun,       \* history: requests and jobs begun so far
    faults       \* history: faults so far

remote == <<tagAt, runs>>
history == <<stored, cut, raced, faults>>
vars == <<releases, edges, current, remote, clock, pc, loc, history, quiet, begun>>

Terminal == {"success", "failed"}
Status == Terminal \cup {"in_progress"}

\* release: 0 is an id no node has; run: 0 is no external_run_id; at: 0 is
\* to be read from the clock; list: the events to be stored; fresh: there is
\* nothing to replace; todo: what a resync or a release train has to record.
NoLocals == [op |-> "none", env |-> "none", commit |-> "none", tag |-> NoTag,
             release |-> 0, run |-> 0, status |-> "in_progress", at |-> 0,
             note |-> "none", list |-> <<>>, fresh |-> FALSE, todo |-> {}]

Goto(t, label) == pc' = [pc EXCEPT ![t] = label]
Set(t, locals) == loc' = [loc EXCEPT ![t] = locals]
Finish(t) == Goto(t, "idle") /\ Set(t, NoLocals)

\* A resync and a release train turn to their next observation.
Return(t) ==
    IF loc[t].op \in {"resync", "train"}
      THEN /\ Goto(t, "item")
           /\ Set(t, [NoLocals EXCEPT !.op = loc[t].op, !.note = loc[t].note,
                                      !.todo = loc[t].todo])
      ELSE Finish(t)

Fault(kind) ==
    /\ kind \in Faults
    /\ faults < MaxFaults
    /\ faults' = faults + 1

\* Mutant of Named: the tag alone is the identity.
NamedByTag(commit, tag) ==
    {r \in DOMAIN releases : releases[r].tag = tag}

\* The nodes with an identity; COALESCE makes missing tags compare equal.
Named(commit, tag) ==
    {r \in DOMAIN releases :
        releases[r].commit = commit /\ releases[r].tag = tag}

TagsOf(commit) ==
    {releases[r].tag : r \in {s \in DOMAIN releases :
                                releases[s].commit = commit}} \ {NoTag}

EdgesOf(r, e) == {i \in DOMAIN edges : edges[i].release = r /\ edges[i].env = e}

AddRelease(commit, tag) ==
    /\ Len(releases) < MaxReleases
    /\ releases' = Append(releases, [commit |-> commit, tag |-> tag])

\* The identity is written though somebody has it by now.
Races(others) == raced' = (raced \/ others # {})

Init ==
    /\ releases = <<>> /\ edges = <<>>
    /\ current = [e \in Envs |-> [release |-> 0, at |-> 0]]
    /\ tagAt = <<>> /\ runs = <<>>
    /\ clock = 0
    /\ pc = [t \in Tasks |-> "idle"]
    /\ loc = [t \in Tasks |-> NoLocals]
    /\ stored = {} /\ cut = {} /\ raced = FALSE
    /\ quiet = {} /\ begun = 0 /\ faults = 0

\* A request or a job begins, with its first query or call.
Begin(t, locals, label) ==
    /\ pc[t] = "idle"
    /\ Goto(t, label)
    /\ Set(t, locals)

-----------------------------------------------------------------------------
(* Release nodes: create_release, patch_release, _upsert_release_node.     *)

\* The pre-check: 409 if the identity is taken.
CheckNew(t) ==
    /\ \E commit \in Commits, tag \in Tags \cup {NoTag} :
          /\ Named(commit, tag) = {}
          /\ Begin(t, [NoLocals EXCEPT !.op = "create", !.commit = commit,
                                       !.tag = tag], "create")
    /\ UNCHANGED <<releases, edges, current, remote, clock, history>>

\* After the remote was asked for the notes of the tag.
Create(t) ==
    /\ pc[t] = "create"
    /\ AddRelease(loc[t].commit, loc[t].tag)
    /\ Races(Named(loc[t].commit, loc[t].tag))
    /\ Finish(t)
    /\ UNCHANGED <<edges, current, remote, clock, stored, cut, faults>>

\* Of what a patch may change, the tag matters here: 409 if another node
\* has the identity.
CheckClash(t) ==
    /\ \E r \in DOMAIN releases, tag \in Tags \cup {NoTag} :
          /\ tag # releases[r].tag
          /\ Named(releases[r].commit, tag) \ {r} = {}
          /\ Begin(t, [NoLocals EXCEPT !.op = "patch", !.release = r,
                                       !.commit = releases[r].commit,
                                       !.tag = tag], "retag")
    /\ UNCHANGED <<releases, edges, current, remote, clock, history>>

Retag(t) ==
    /\ pc[t] = "retag"
    /\ releases' = [releases EXCEPT ![loc[t].release].tag = loc[t].tag]
    /\ Races(Named(loc[t].commit, loc[t].tag) \ {loc[t].release})
    /\ Finish(t)
    /\ UNCHANGED <<edges, current, remote, clock, stored, cut, faults>>

\* The first query of an upsert creates the node if its snapshot has none.
\* Nothing in the schema makes two such queries conflict.
Upsert(t) ==
    /\ pc[t] = "upsert"
    /\ Set(t, [loc[t] EXCEPT
                 !.fresh = (Named(loc[t].commit, loc[t].tag) = {}),
                 !.release = 0])
    /\ Goto(t, "insert")
    /\ UNCHANGED <<releases, edges, current, remote, clock, history>>

Insert(t) ==
    /\ pc[t] = "insert"
    /\ IF loc[t].fresh
         THEN /\ AddRelease(loc[t].commit, loc[t].tag)
              /\ Races(Named(loc[t].commit, loc[t].tag))
              /\ Set(t, [loc[t] EXCEPT !.release = Len(releases')])
         ELSE UNCHANGED <<releases, raced, loc>>
    /\ Goto(t, "resolve")
    /\ UNCHANGED <<edges, current, remote, clock, stored, cut, faults>>

\* The second query returns a node with the identity; if there is none any
\* more, the upsert returns the id it would have created.
Resolve(t) ==
    /\ pc[t] = "resolve"
    /\ LET found == Named(loc[t].commit, loc[t].tag)
       IN  \E r \in IF found = {} THEN {loc[t].release} ELSE found :
              IF loc[t].op = "cut"
                THEN Finish(t)
                ELSE /\ Set(t, [loc[t] EXCEPT !.release = r])
                     /\ Goto(t, "fetch")
    /\ UNCHANGED <<releases, edges, current, remote, clock, history>>

-----------------------------------------------------------------------------
(* append_deployment_event, and record_deployment, which does the same for *)
(* an event without an external_run_id.                                    *)

BeginPost(t) ==
    /\ \E r \in DOMAIN releases, e \in Envs, status \in Status :
          Begin(t, [NoLocals EXCEPT !.op = "post", !.release = r, !.env = e,
                                    !.status = status, !.note = "post"],
                "fetch")
    /\ UNCHANGED <<releases, edges, current, remote, clock, history>>

Hits(seen, run) == {i \in DOMAIN seen : run # 0 /\ seen[i].run = run}
LastHit(seen, run) ==
    CHOOSE i \in Hits(seen, run) : \A j \in Hits(seen, run) : j <= i

\* Mutant of Refreshed: only the most recent event is compared.
RefreshedIfLast(seen, event) ==
    IF seen = <<>> \/ event.run = 0 \/ seen[Len(seen)].run # event.run
      THEN Append(seen, event)
      ELSE [seen EXCEPT ![Len(seen)] = event]

\* The row of the run is refreshed; a new run, or none, gets a new row.
Refreshed(seen, event) ==
    IF Hits(seen, event.run) = {}
      THEN Append(seen, event)
      ELSE [seen EXCEPT ![LastHit(seen, event.run)] = event]

\* Mutant of Identical: an event of a known run changes nothing.
IdenticalRun(seen, event) == Hits(seen, event.run) # {}

\* Nothing but the time would change.
Identical(seen, event) ==
    /\ Hits(seen, event.run) # {}
    /\ LET old == seen[LastHit(seen, event.run)]
       IN  old.status = event.status /\ old.note = event.note

\* Reads one of the edges, if there are several, and settles the list that
\* is to replace theirs, and its time.
Fetch(t) ==
    /\ pc[t] = "fetch"
    /\ LET l == loc[t]
           found == {edges[i].events : i \in EdgesOf(l.release, l.env)}
           time == IF l.at = 0 THEN clock + 1 ELSE l.at
           event == [at |-> time, status |-> l.status, run |-> l.run,
                     note |-> l.note]
       IN  \E seen \in IF found = {} THEN {<<>>} ELSE found :
              IF l.release = 0 \/ Identical(seen, event)
                THEN Return(t) /\ UNCHANGED clock
                ELSE /\ time <= MaxTime
                     /\ clock' = IF l.at = 0 THEN time ELSE clock
                     /\ Set(t, [l EXCEPT !.list = Refreshed(seen, event),
                                         !.fresh = (seen = <<>>),
                                         !.at = time])
                     /\ Goto(t, "store")
    /\ UNCHANGED <<releases, edges, current, remote, history>>

\* SET on every edge there is now, or CREATE of one, there or not.
Store(t) ==
    /\ pc[t] = "store"
    /\ LET l == loc[t]
       IN  /\ edges' = IF l.fresh
                 THEN Append(edges, [release |-> l.release, env |-> l.env,
                                     events |-> l.list])
                 ELSE [i \in DOMAIN edges |->
                         IF i \in EdgesOf(l.release, l.env)
                           THEN [edges[i] EXCEPT !.events = l.list]
                           ELSE edges[i]]
           /\ IF l.status = "success"
                THEN /\ stored' = stored \cup
                            {[env |-> l.env, release |-> l.release, at |-> l.at]}
                     /\ Goto(t, "point")
                     /\ Set(t, [l EXCEPT !.list = <<>>])
                ELSE Return(t) /\ UNCHANGED stored
    /\ UNCHANGED <<releases, current, remote, clock, cut, raced, faults>>

\* Mutant of Point: a pointer that is set stays.
PointOnce(t) ==
    /\ pc[t] = "point"
    /\ current' = [current EXCEPT ![loc[t].env] =
                     IF @.at = 0
                       THEN [release |-> loc[t].release, at |-> loc[t].at]
                       ELSE @]
    /\ Return(t)
    /\ UNCHANGED <<releases, edges, remote, clock, history>>

\* _set_current_release: only a newer success moves the pointer.
Point(t) ==
    /\ pc[t] = "point"
    /\ current' = [current EXCEPT ![loc[t].env] =
                     IF @.at < loc[t].at
                       THEN [release |-> loc[t].release, at |-> loc[t].at]
                       ELSE @]
    /\ Return(t)
    /\ UNCHANGED <<releases, edges, remote, clock, history>>

-----------------------------------------------------------------------------
(* Deploy, promote and cut.                                                *)

\* A run the remote starts: asked is the commit it was started for.
Start(e, asked, tag) ==
    /\ Len(runs) < MaxRuns /\ clock < MaxTime
    /\ clock' = clock + 1
    /\ runs' = Append(runs,
                 [env |-> e, asked |-> asked, tag |-> tag, at |-> clock + 1,
                  commit |-> IF tag = NoTag THEN asked ELSE tagAt[tag],
                  status |-> "in_progress"])

\* The id of the run just started, which the answer may lack.
HandedBack == {0, Len(runs')}

\* A tag is deployed by its name; nothing compares what it points at with the
\* commit the request names.  A call that raises, or times out, does no more
\* than RemoteDeploys does.
TriggerDeploy(t) ==
    /\ \E e \in Envs, commit \in Commits, tag \in DOMAIN tagAt \cup {NoTag} :
          /\ Start(e, commit, tag)
          /\ \E run \in HandedBack :
                Begin(t, [NoLocals EXCEPT !.op = "deploy", !.env = e,
                                          !.commit = commit, !.tag = tag,
                                          !.run = run, !.note = "deploy"],
                      "lookup")
    /\ UNCHANGED <<releases, edges, current, tagAt, history>>

\* create_tag, of a promote and of a cut.  A tag that exists, wherever it
\* points, is as good as made, and any other error is a warning.
CutTag(t) ==
    /\ \E op \in {"promote", "cut"}, e \in Envs, commit \in Commits,
          tag \in Tags :
          /\ Begin(t, [NoLocals EXCEPT !.op = op, !.commit = commit, !.tag = tag,
                                       !.env = e, !.note = "deploy"],
                   IF op = "cut" THEN "upsert" ELSE "trigger")
          /\ \/ /\ tagAt' = IF tag \in DOMAIN tagAt THEN tagAt
                            ELSE [g \in DOMAIN tagAt \cup {tag} |->
                                    IF g = tag THEN commit ELSE tagAt[g]]
                /\ UNCHANGED faults
             \/ Fault("remote_error") /\ UNCHANGED tagAt
    /\ UNCHANGED <<releases, edges, current, runs, clock, stored, cut, raced>>

\* The remote refuses a tag it does not have, and the promote ends there.
TriggerPromote(t) ==
    /\ pc[t] = "trigger"
    /\ LET l == loc[t]
       IN  IF l.tag \in DOMAIN tagAt
             THEN /\ Start(l.env, l.commit, l.tag)
                  /\ \E run \in HandedBack : Set(t, [l EXCEPT !.run = run])
                  /\ Goto(t, "upsert")
             ELSE Finish(t) /\ UNCHANGED <<clock, runs>>
    /\ UNCHANGED <<releases, edges, current, tagAt, history>>

\* The call raises or times out, and the run may be under way.
TriggerFails(t) ==
    /\ pc[t] = "trigger"
    /\ Fault("remote_error")
    /\ \/ /\ loc[t].tag \in DOMAIN tagAt
          /\ Start(loc[t].env, loc[t].commit, loc[t].tag)
       \/ UNCHANGED <<clock, runs>>
    /\ Finish(t)
    /\ UNCHANGED <<releases, edges, current, tagAt, stored, cut, raced>>

\* _release_id_for, with the tag and then without: without a release the
\* deployment is not recorded.
Lookup(t) ==
    /\ pc[t] = "lookup"
    /\ LET l == loc[t]  found == Named(l.commit, l.tag)
       IN  \/ \E r \in found :
                 Set(t, [l EXCEPT !.release = r]) /\ Goto(t, "fetch")
           \/ /\ found = {} /\ l.tag # NoTag
              /\ Set(t, [l EXCEPT !.tag = NoTag]) /\ UNCHANGED pc
           \/ found = {} /\ l.tag = NoTag /\ Finish(t)
    /\ UNCHANGED <<releases, edges, current, remote, clock, history>>

-----------------------------------------------------------------------------
(* Resync and the release train.                                           *)

\* The most recent runs of every environment.
Recent(limit) ==
    {n \in DOMAIN runs :
        Cardinality({m \in DOMAIN runs : m > n /\ runs[m].env = runs[n].env})
            < limit}

Observe(t) ==
    /\ \E limit \in 1..MaxRuns :
          Begin(t, [NoLocals EXCEPT
                      !.op = "resync", !.note = "resync",
                      !.todo = {[run |-> n, release |-> 0, env |-> runs[n].env,
                                 status |-> runs[n].status, at |-> runs[n].at] :
                                   n \in Recent(limit)}], "item")
    /\ UNCHANGED <<releases, edges, current, remote, clock, history>>

\* A run of a plain commit goes to the one tag the commit is known by; with
\* several the observation is given up.
ResyncItem(t) ==
    /\ pc[t] = "item" /\ loc[t].op = "resync"
    /\ \E o \in loc[t].todo :
          LET known == TagsOf(runs[o.run].commit)
              rest == loc[t].todo \ {o}
          IN  IF runs[o.run].tag = NoTag /\ Cardinality(known) > 1
                THEN Set(t, [loc[t] EXCEPT !.todo = rest]) /\ UNCHANGED pc
                ELSE /\ Goto(t, "upsert")
                     /\ \E tag \in IF runs[o.run].tag # NoTag
                                     THEN {runs[o.run].tag}
                                   ELSE IF known # {} THEN known ELSE {NoTag} :
                           Set(t, [loc[t] EXCEPT
                                     !.todo = rest, !.env = o.env,
                                     !.commit = runs[o.run].commit, !.tag = tag,
                                     !.run = o.run, !.status = o.status,
                                     !.at = o.at])
    /\ UNCHANGED <<releases, edges, current, remote, clock, history>>

\* The events of an environment with the latest time, over all releases.
Heads(e) ==
    LET listed == UNION {{[run |-> edges[i].events[k].run, env |-> e,
                           release |-> edges[i].release,
                           status |-> edges[i].events[k].status,
                           at |-> edges[i].events[k].at] :
                             k \in DOMAIN edges[i].events} :
                         i \in {j \in DOMAIN edges : edges[j].env = e}}
    IN  {h \in listed : \A g \in listed : g.at <= h.at}

\* list_current_releases: one of them for every environment; the train asks
\* after those whose run is under way.
Scan(t) ==
    /\ \E shown \in SUBSET UNION {Heads(e) : e \in Envs} :
          /\ \A e \in Envs :
                Cardinality(shown \cap Heads(e)) = IF Heads(e) = {} THEN 0 ELSE 1
          /\ Begin(t, [NoLocals EXCEPT
                         !.op = "train", !.note = "train",
                         !.todo = {h \in shown :
                                     h.status = "in_progress" /\ h.run # 0}],
                   "ask")
    /\ UNCHANGED <<releases, edges, current, remote, clock, history>>

\* get_deployment_status of all of them; one that fails is skipped, and only
\* an end is recorded.
Ask(t) ==
    /\ pc[t] = "ask"
    /\ \E asked \in SUBSET loc[t].todo :
          /\ (asked = loc[t].todo /\ UNCHANGED faults) \/ Fault("remote_error")
          /\ Set(t, [loc[t] EXCEPT !.todo =
                       {[h EXCEPT !.status = runs[h.run].status] :
                          h \in {g \in asked : runs[g.run].status \in Terminal}}])
    /\ Goto(t, "item")
    /\ UNCHANGED <<releases, edges, current, remote, clock, stored, cut, raced>>

TrainItem(t) ==
    /\ pc[t] = "item" /\ loc[t].op = "train"
    /\ \E h \in loc[t].todo :
          Set(t, [loc[t] EXCEPT !.todo = @ \ {h}, !.env = h.env, !.at = 0,
                                !.release = h.release, !.run = h.run,
                                !.status = h.status])
    /\ Goto(t, "fetch")
    /\ UNCHANGED <<releases, edges, current, remote, clock, history>>

EndJob(t) ==
    /\ pc[t] = "item" /\ loc[t].todo = {}
    /\ Finish(t)
    /\ UNCHANGED <<releases, edges, current, remote, clock, history>>

-----------------------------------------------------------------------------
(* Failures, and the remote.                                               *)

\* What t has stored and not pointed at.
Cut(t) ==
    cut' = IF pc[t] = "point"
             THEN cut \cup {[env |-> loc[t].env, release |-> loc[t].release,
                             at |-> loc[t].at]}
             ELSE cut

Crash(t) ==
    /\ Fault("crash")
    /\ pc[t] # "idle"
    /\ Cut(t)
    /\ Finish(t)
    /\ UNCHANGED <<releases, edges, current, remote, clock, stored, raced>>

\* A query raises: the request fails, the resync and the train go on with
\* the next observation.
QueryFails(t) ==
    /\ Fault("db_error")
    /\ pc[t] \in {"upsert", "insert", "resolve", "fetch", "store", "point"}
    /\ Cut(t)
    /\ Return(t)
    /\ UNCHANGED <<releases, edges, current, remote, clock, stored, raced>>

RunFinishes(n) ==
    /\ runs[n].status = "in_progress"
    /\ \E status \in Terminal : runs' = [runs EXCEPT ![n].status = status]
    /\ UNCHANGED <<releases, edges, current, tagAt, clock, pc, loc, history>>

\* A deployment nobody asked this program for.
RemoteDeploys(e) ==
    /\ \E commit \in Commits, tag \in DOMAIN tagAt \cup {NoTag} :
          /\ tag # NoTag => tagAt[tag] = commit
          /\ Start(e, commit, tag)
    /\ UNCHANGED <<releases, edges, current, tagAt, pc, loc, history>>

-----------------------------------------------------------------------------
Begins(t) ==
    \/ CheckNew(t) \/ CheckClash(t) \/ BeginPost(t) \/ TriggerDeploy(t)
    \/ CutTag(t) \/ Scan(t)

Goes(t) ==
    \/ Create(t) \/ Retag(t) \/ Upsert(t) \/ Insert(t) \/ Resolve(t)
    \/ Fetch(t) \/ Store(t) \/ Point(t)
    \/ TriggerPromote(t) \/ TriggerFails(t) \/ Lookup(t)
    \/ ResyncItem(t) \/ Ask(t) \/ TrainItem(t) \/ EndJob(t)

\* quiet is kept here: a resync that asks while the others are idle is
\* quiet until another task or the remote moves, or a query fails.
Next ==
    \/ /\ begun < MaxBegun
       /\ begun' = begun + 1
       /\ \E t \in Tasks :
             \/ Begins(t) /\ quiet' = {}
             \/ /\ Observe(t)
                /\ quiet' = IF \A u \in Tasks \ {t} : pc[u] = "idle"
                              THEN {t} ELSE {}
    \/ /\ UNCHANGED begun
       /\ \/ \E t \in Tasks :
                \/ /\ Goes(t)
                   /\ quiet' = IF pc'[t] = "idle" THEN {} ELSE quiet \cap {t}
                \/ (Crash(t) \/ QueryFails(t)) /\ quiet' = {}
          \/ \E n \in DOMAIN runs : RunFinishes(n) /\ quiet' = {}
          \/ \E e \in Envs : RemoteDeploys(e) /\ quiet' = {}

Spec == Init /\ [][Next]_vars

-----------------------------------------------------------------------------
(* Properties.                                                             *)

\* The list of an edge has at most one row for a run ("without doubling up
\* rows on the edge", releases.py), whoever replaced the list of whom; and two
\* nodes have one identity only if somebody wrote an identity that was taken
\* since it was found free.
NothingDoubled ==
    /\ \A i \in DOMAIN edges : \A k, m \in DOMAIN edges[i].events :
          /\ edges[i].events[k].run # 0
          /\ edges[i].events[k].run = edges[i].events[m].run
          => k = m
    /\ raced \/ \A r, s \in DOMAIN releases : releases[r] = releases[s] => r = s

\* An event of a run is on an edge to the environment and from a release of
\* the commit the run deploys, and the end it tells is the end of the run.
\* A deploy or a promote of a tag that points elsewhere deploys what the tag
\* points at and is recorded under the commit it was asked for.
EventsMatchRuns ==
    \A i \in DOMAIN edges : \A k \in DOMAIN edges[i].events :
        LET event == edges[i].events[k]  n == event.run
        IN  n # 0 =>
              /\ runs[n].env = edges[i].env
              /\ releases[edges[i].release].commit
                    \in {runs[n].commit, runs[n].asked}
              /\ event.status \in Terminal => event.status = runs[n].status

\* The pointer names a release together with the time of a success that was
\* stored for it, and is as new as every success that was ever stored, but for
\* those about to be pointed at and those whose task failed in between: a
\* replay finds such an event identical, and does not point at it either.
PointerKeepsUp ==
    /\ \A e \in Envs :
          current[e].release # 0 =>
              [env |-> e, release |-> current[e].release, at |-> current[e].at]
                  \in stored
    /\ \A s \in stored :
          \/ s.at <= current[s.env].at
          \/ s \in cut
          \/ \E t \in Tasks : pc[t] = "point" /\ loc[t].env = s.env
                                              /\ loc[t].at = s.at

\* Two edges where there should be one, created by two tasks that had both
\* read that there was none.
Parallel == \E i, j \in DOMAIN edges :
               i # j /\ edges[i].release = edges[j].release
                     /\ edges[i].env = edges[j].env

\* A resync that ran alone leaves the most recent run of every environment
\* recorded as the remote has it, whatever was lost or written late before,
\* unless its commit is known by several tags.  Parallel edges may deceive it:
\* a run found on one of them is gone when the other's list replaces both.
ResyncRepairs ==
    \A t \in quiet : pc[t] = "item" /\ loc[t].todo = {} /\ ~Parallel =>
        \A n \in Recent(1) :
            \/ runs[n].tag = NoTag /\ Cardinality(TagsOf(runs[n].commit)) > 1
            \/ \E i \in DOMAIN edges : \E k \in DOMAIN edges[i].events :
                  /\ edges[i].events[k].run = n
                  /\ edges[i].events[k].status = runs[n].status
                  /\ edges[i].env = runs[n].env
                  /\ releases[edges[i].release].commit = runs[n].commit
=============================================================================
