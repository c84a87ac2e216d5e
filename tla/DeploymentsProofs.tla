-------------------------- MODULE DeploymentsProofs --------------------------
(***************************************************************************)
(* The releases and deployments of a project for any number of tasks,      *)
(* environments, commits, tags, releases and runs, under every fault.      *)
(* What an event tells is right because a task knows a run only from the   *)
(* remote, from the list it was scanned from or because it started it, and *)
(* because runs and releases keep what was learnt of them; a list has one  *)
(* row for a run because every list is made from one that has; and the     *)
(* pointer keeps up because who stores a success does not let go of it     *)
(* before it is pointed at, overtaken, or cut off.  A resync that runs     *)
(* alone replaces a list by one that has every row of the other runs.      *)
(***************************************************************************)
EXTENDS Deployments, FiniteSetTheorems, TLAPS

Ops == {"none", "create", "patch", "post", "deploy", "promote", "cut", "resync", "train"}
Notes == {"none", "post", "deploy", "resync", "train"}
AnyCommit == Commits \cup {"none"}
AnyTag == Tags \cup {NoTag}
Nodes == [commit : AnyCommit, tag : AnyTag]
Rows == [at : Nat, status : Status, run : Nat, note : Notes]
Edges == [release : Nat, env : Envs, events : Seq(Rows)]
Observed == [run : Nat, release : Nat, env : Envs, status : Status, at : Nat]
RemoteRuns == [env : Envs, asked : AnyCommit, tag : AnyTag, at : Nat, commit : Commits, status : Status]
Locals == [op : Ops, env : Envs \cup {"none"}, commit : AnyCommit, tag : AnyTag,
           release : Nat, run : Nat, status : Status, at : Nat, note : Notes,
           list : Seq(Rows), fresh : BOOLEAN, todo : SUBSET Observed]

\* Where a task knows its environment.
Located == {"trigger", "lookup", "upsert", "insert", "resolve", "fetch", "store", "point"}
Seats ==
  /\ DOMAIN pc = Tasks
  /\ loc \in [Tasks -> Locals]
  /\ \A t \in Tasks : pc[t] \in Located => loc[t].env \in Envs

Types ==
  /\ releases \in Seq(Nodes)
  /\ edges \in Seq(Edges)
  /\ runs \in Seq(RemoteRuns)
  /\ DOMAIN tagAt \subseteq Tags /\ \A tag \in DOMAIN tagAt : tagAt[tag] \in Commits
  /\ clock \in Nat
  /\ current \in [Envs -> [release : Nat, at : Nat]]
  /\ Seats

\* The locals of an idle task are well typed.
LEMMA Empty == <<>> \in Seq(Rows)
OBVIOUS

LEMMA Blank == NoLocals \in Locals
BY Empty DEF NoLocals, Locals, Ops, Notes, AnyCommit, AnyTag, Status, Terminal

\* A row replaced or added leaves a list of rows.
LEMMA RefreshedRows ==
  ASSUME NEW seen \in Seq(Rows), NEW event \in Rows
  PROVE  Refreshed(seen, event) \in Seq(Rows)
<1>1. Append(seen, event) \in Seq(Rows)
  OBVIOUS
<1>2. ASSUME NEW i PROVE [seen EXCEPT ![i] = event] \in Seq(Rows)
  <2>1. CASE i \in DOMAIN seen
    BY <2>1
  <2>2. CASE i \notin DOMAIN seen
    <3>1. [seen EXCEPT ![i] = event] = [j \in DOMAIN seen |-> IF j = i THEN event ELSE seen[j]]
      BY <2>2
    <3>2. [j \in DOMAIN seen |-> IF j = i THEN event ELSE seen[j]] = [j \in DOMAIN seen |-> seen[j]]
      BY <2>2
    <3>3. seen = [j \in DOMAIN seen |-> seen[j]]
      OBVIOUS
    <3> QED BY <3>1, <3>2, <3>3
  <2> QED BY <2>1, <2>2
<1> QED BY <1>1, <1>2 DEF Refreshed

\* A task that goes on, stays, finishes or returns to its job has well typed
\* locals again.
LEMMA MoveTypes ==
  ASSUME Seats, NEW t \in Tasks, NEW l \in Locals, NEW label,
         label \in Located => l.env \in Envs, Goto(t, label), Set(t, l)
  PROVE  Seats'
BY DEF Seats, Set, Goto

\* A task that keeps its place keeps its type.
LEMMA StayTypes ==
  ASSUME Seats, NEW t \in Tasks, NEW l \in Locals, l.env = loc[t].env, UNCHANGED pc, Set(t, l)
  PROVE  Seats'
BY DEF Seats, Set

\* Ending, or going back to the job's loop, keeps the types.
LEMMA FinishTypes == ASSUME Seats, NEW t \in Tasks, Finish(t) PROVE Seats'
BY Blank DEF Seats, Located, Finish, Set, Goto

LEMMA ReturnTypes == ASSUME Seats, NEW t \in Tasks, Return(t) PROVE Seats'
<1>1. loc[t] \in Locals
  BY DEF Seats
<1>2. [NoLocals EXCEPT !.op = loc[t].op, !.note = loc[t].note, !.todo = loc[t].todo] \in Locals
  BY Blank, <1>1 DEF Locals
<1> QED BY <1>2, FinishTypes, MoveTypes DEF Return, Located

\* What is added to the remote and to the releases is well typed.
LEMMA StartTypes ==
  ASSUME Types, NEW e \in Envs, NEW asked \in AnyCommit, NEW tag \in DOMAIN tagAt \cup {NoTag},
         tag = NoTag => asked \in Commits, Start(e, asked, tag)
  PROVE  runs' \in Seq(RemoteRuns) /\ clock' \in Nat /\ Len(runs') \in Nat
<1>1. (IF tag = NoTag THEN asked ELSE tagAt[tag]) \in Commits
  BY DEF Types
<1>2. tag \in AnyTag /\ clock + 1 \in Nat
  BY DEF Types, AnyTag
<1>3. [env |-> e, asked |-> asked, tag |-> tag, at |-> clock + 1,
       commit |-> IF tag = NoTag THEN asked ELSE tagAt[tag], status |-> "in_progress"] \in RemoteRuns
  BY <1>1, <1>2 DEF RemoteRuns, Status
<1> QED BY <1>2, <1>3 DEF Start, Types

\* A node added keeps the types.
LEMMA AddTypes ==
  ASSUME Types, NEW commit \in AnyCommit, NEW tag \in AnyTag, AddRelease(commit, tag)
  PROVE  releases' \in Seq(Nodes)
BY DEF AddRelease, Types, Nodes

\* Nothing is stored at first.
LEMMA TypesInit == ASSUME Init PROVE Types
<1>1. [e \in Envs |-> [release |-> 0, at |-> 0]] \in [Envs -> [release : Nat, at : Nat]]
  OBVIOUS
<1>2. Seats
  BY Blank DEF Init, Seats, Located
<1> QED BY <1>1, <1>2 DEF Init, Types

\* Every action keeps the types.  Only ResyncItem needs more: that the runs of
\* an observation are runs.
LEMMA BeginsTypes == ASSUME Types, NEW t \in Tasks, Begins(t) \/ Observe(t) PROVE Types'
<1> USE DEF remote
<1>0. ASSUME NEW l \in Locals, NEW label, Begin(t, l, label),
             label \in Located => l.env \in Envs
      PROVE  Seats'
  BY <1>0, MoveTypes DEF Begin, Types
<1>1. CASE CheckNew(t)
  <2>1. PICK commit \in Commits, tag \in Tags \cup {NoTag} :
          Begin(t, [NoLocals EXCEPT !.op = "create", !.commit = commit, !.tag = tag], "create")
    BY <1>1 DEF CheckNew
  <2>2. [NoLocals EXCEPT !.op = "create", !.commit = commit, !.tag = tag] \in Locals
    BY Blank DEF Locals, Ops, AnyCommit, AnyTag
  <2>3. Seats'
    BY <1>0, <2>1, <2>2 DEF Located
  <2> QED BY <1>1, <2>3 DEF CheckNew, Types
<1>2. CASE CheckClash(t)
  <2>1. PICK r \in DOMAIN releases, tag \in Tags \cup {NoTag} :
          Begin(t, [NoLocals EXCEPT !.op = "patch", !.release = r,
                                    !.commit = releases[r].commit, !.tag = tag], "retag")
    BY <1>2 DEF CheckClash
  <2>2. releases[r].commit \in AnyCommit /\ r \in Nat
    <3>1. releases[r] \in Nodes /\ r \in Nat
      BY DEF Types
    <3> QED BY <3>1 DEF Nodes
  <2>3. [NoLocals EXCEPT !.op = "patch", !.release = r, !.commit = releases[r].commit, !.tag = tag] \in Locals
    BY <2>2, Blank DEF Locals, Ops, AnyTag
  <2>4. Seats'
    BY <1>0, <2>1, <2>3 DEF Located
  <2> QED BY <1>2, <2>4 DEF CheckClash, Types
<1>3. CASE BeginPost(t)
  <2>1. PICK r \in DOMAIN releases, e \in Envs, status \in Status :
          Begin(t, [NoLocals EXCEPT !.op = "post", !.release = r, !.env = e,
                                    !.status = status, !.note = "post"], "fetch")
    BY <1>3 DEF BeginPost
  <2>2. r \in Nat
    BY DEF Types
  <2> DEFINE l == [NoLocals EXCEPT !.op = "post", !.release = r, !.env = e, !.status = status,
                                   !.note = "post"]
  <2>3. l \in Locals /\ l.env \in Envs
    BY <2>2, Blank DEF Locals, Ops, Notes
  <2>4. Seats'
    BY <1>0, <2>1, <2>3
  <2> QED BY <1>3, <2>4 DEF BeginPost, Types
<1>4. CASE TriggerDeploy(t)
  <2>1. PICK e \in Envs, commit \in Commits, tag \in DOMAIN tagAt \cup {NoTag} :
          /\ Start(e, commit, tag)
          /\ \E run \in HandedBack :
                Begin(t, [NoLocals EXCEPT !.op = "deploy", !.env = e, !.commit = commit, !.tag = tag,
                                          !.run = run, !.note = "deploy"], "lookup")
    BY <1>4 DEF TriggerDeploy
  <2>6. PICK run \in HandedBack :
          Begin(t, [NoLocals EXCEPT !.op = "deploy", !.env = e, !.commit = commit, !.tag = tag,
                                    !.run = run, !.note = "deploy"], "lookup")
    BY <2>1, Zenon
  <2>2. runs' \in Seq(RemoteRuns) /\ clock' \in Nat /\ run \in Nat
    BY <2>1, StartTypes DEF AnyCommit, HandedBack
  <2>3. tag \in AnyTag /\ commit \in AnyCommit
    BY DEF AnyTag, AnyCommit, Types
  <2> DEFINE l == [NoLocals EXCEPT !.op = "deploy", !.env = e, !.commit = commit, !.tag = tag,
                                   !.run = run, !.note = "deploy"]
  <2>4. l \in Locals /\ l.env \in Envs
    BY <2>2, <2>3, Blank DEF Locals, Ops, Notes
  <2>5. Seats'
    BY <1>0, <2>6, <2>4
  <2> QED BY <1>4, <2>2, <2>5 DEF TriggerDeploy, Types
<1>5. CASE CutTag(t)
  <2>1. PICK op \in {"promote", "cut"}, e \in Envs, commit \in Commits, tag \in Tags :
          /\ Begin(t, [NoLocals EXCEPT !.op = op, !.commit = commit, !.tag = tag,
                                       !.env = e, !.note = "deploy"],
                   IF op = "cut" THEN "upsert" ELSE "trigger")
          /\ \/ /\ tagAt' = IF tag \in DOMAIN tagAt THEN tagAt
                            ELSE [g \in DOMAIN tagAt \cup {tag} |-> IF g = tag THEN commit ELSE tagAt[g]]
                /\ UNCHANGED faults
             \/ Fault("remote_error") /\ UNCHANGED tagAt
    BY <1>5 DEF CutTag
  <2> DEFINE l == [NoLocals EXCEPT !.op = op, !.commit = commit, !.tag = tag, !.env = e,
                                   !.note = "deploy"]
  <2>2. l \in Locals /\ l.env \in Envs
    BY Blank DEF Locals, Ops, Notes, AnyCommit, AnyTag
  <2>3. DOMAIN tagAt' \subseteq Tags /\ \A g \in DOMAIN tagAt' : tagAt'[g] \in Commits
    BY <2>1 DEF Types
  <2>4. Seats'
    BY <1>0, <2>1, <2>2
  <2> QED BY <1>5, <2>3, <2>4 DEF CutTag, Types
<1>6. CASE Scan(t)
  <2>1. PICK shown \in SUBSET UNION {Heads(e) : e \in Envs} :
          Begin(t, [NoLocals EXCEPT !.op = "train", !.note = "train",
                         !.todo = {h \in shown : h.status = "in_progress" /\ h.run # 0}], "ask")
    BY <1>6 DEF Scan
  <2>2. \A e \in Envs : Heads(e) \subseteq Observed
    <3> SUFFICES ASSUME NEW e \in Envs, NEW i \in DOMAIN edges, edges[i].env = e,
                        NEW k \in DOMAIN edges[i].events
                 PROVE  [run |-> edges[i].events[k].run, env |-> e, release |-> edges[i].release,
                         status |-> edges[i].events[k].status, at |-> edges[i].events[k].at] \in Observed
      BY DEF Heads
    <3>1. edges[i] \in Edges
      BY DEF Types
    <3>2. edges[i].events[k] \in Rows /\ edges[i].release \in Nat
      BY <3>1 DEF Edges
    <3> QED BY <3>2 DEF Rows, Observed
  <2>3. {h \in shown : h.status = "in_progress" /\ h.run # 0} \in SUBSET Observed
    BY <2>2
  <2>4. [NoLocals EXCEPT !.op = "train", !.note = "train",
                         !.todo = {h \in shown : h.status = "in_progress" /\ h.run # 0}] \in Locals
    BY <2>3, Blank DEF Locals, Ops, Notes
  <2>5. Seats'
    BY <1>0, <2>1, <2>4 DEF Located
  <2> QED BY <1>6, <2>5 DEF Scan, Types
<1>7. CASE Observe(t)
  <2>1. PICK limit \in 1..MaxRuns :
          Begin(t, [NoLocals EXCEPT
                      !.op = "resync", !.note = "resync",
                      !.todo = {[run |-> n, release |-> 0, env |-> runs[n].env,
                                 status |-> runs[n].status, at |-> runs[n].at] :
                                   n \in Recent(limit)}], "item")
    BY <1>7 DEF Observe
  <2>2. \A n \in DOMAIN runs : n \in Nat /\ runs[n] \in RemoteRuns
    BY DEF Types
  <2>3. {[run |-> n, release |-> 0, env |-> runs[n].env, status |-> runs[n].status,
          at |-> runs[n].at] : n \in Recent(limit)} \in SUBSET Observed
    <3>1. \A n \in DOMAIN runs : [run |-> n, release |-> 0, env |-> runs[n].env,
                                 status |-> runs[n].status, at |-> runs[n].at] \in Observed
      BY <2>2 DEF RemoteRuns, Observed
    <3> QED BY <3>1 DEF Recent
  <2>4. [NoLocals EXCEPT !.op = "resync", !.note = "resync",
                      !.todo = {[run |-> n, release |-> 0, env |-> runs[n].env,
                                 status |-> runs[n].status, at |-> runs[n].at] :
                                   n \in Recent(limit)}] \in Locals
    BY <2>3, Blank DEF Locals, Ops, Notes
  <2>5. Seats'
    BY <1>0, <2>1, <2>4 DEF Located
  <2> QED BY <1>7, <2>5 DEF Observe, Types
<1> QED BY <1>1, <1>2, <1>3, <1>4, <1>5, <1>6, <1>7 DEF Begins

\* Every further step of a request or a job keeps the types.
LEMMA GoesTypes ==
  ASSUME Types, NEW t \in Tasks, Goes(t), \A o \in loc[t].todo : o.run \in DOMAIN runs
  PROVE  Types'
<1> USE DEF remote
<1>0. /\ loc[t] \in Locals /\ loc[t].commit \in AnyCommit /\ loc[t].tag \in AnyTag
      /\ loc[t].release \in Nat /\ loc[t].env \in Envs \cup {"none"} /\ loc[t].at \in Nat
      /\ loc[t].list \in Seq(Rows) /\ loc[t].todo \subseteq Observed
      /\ loc[t].status \in Status /\ loc[t].note \in Notes /\ loc[t].run \in Nat
      /\ pc[t] \in Located => loc[t].env \in Envs
      /\ Seats
  BY DEF Types, Seats, Locals
<1>1. CASE Create(t)
  BY <1>0, <1>1, FinishTypes, AddTypes DEF Create, Types
<1>2. CASE Retag(t)
  <2>1. releases' \in Seq(Nodes)
    <3>1. releases' = [r \in DOMAIN releases |->
                         IF r = loc[t].release THEN [releases[r] EXCEPT !.tag = loc[t].tag] ELSE releases[r]]
      BY <1>2 DEF Retag
    <3>2. \A r \in DOMAIN releases : releases[r] \in Nodes /\ [releases[r] EXCEPT !.tag = loc[t].tag] \in Nodes
      <4>1. \A r \in DOMAIN releases : releases[r] \in Nodes
        BY DEF Types
      <4> QED BY <1>0, <4>1 DEF Nodes
    <3> HIDE DEF Nodes
    <3> QED BY <3>1, <3>2 DEF Types
  <2> QED BY <1>2, <2>1, FinishTypes DEF Retag, Types
<1>3. CASE Upsert(t)
  <2> DEFINE l == [loc[t] EXCEPT !.fresh = (Named(loc[t].commit, loc[t].tag) = {}), !.release = 0]
  <2>1. l \in Locals /\ l.env = loc[t].env
    BY <1>0 DEF Locals
  <2>2. Seats'
    BY <1>0, <1>3, <2>1, MoveTypes DEF Upsert, Located
  <2> QED BY <1>3, <2>2 DEF Upsert, Types
<1>4. CASE Insert(t)
  <2>1. CASE ~loc[t].fresh
    <3>1. Seats'
      BY <1>0, <1>4, <2>1 DEF Insert, Seats, Goto, Located
    <3> QED BY <1>4, <2>1, <3>1 DEF Insert, Types
  <2>2. CASE loc[t].fresh
    <3>1. releases' \in Seq(Nodes)
      BY <1>0, <1>4, <2>2, AddTypes DEF Insert
    <3> DEFINE l == [loc[t] EXCEPT !.release = Len(releases')]
    <3>2. l \in Locals /\ l.env = loc[t].env
      BY <1>0, <3>1 DEF Locals
    <3>3. Seats'
      BY <1>0, <1>4, <2>2, <3>2, MoveTypes DEF Insert, Located
    <3> QED BY <1>4, <2>2, <3>1, <3>3 DEF Insert, Types
  <2> QED BY <2>1, <2>2
<1>5. CASE Resolve(t)
  <2>1. PICK r \in IF Named(loc[t].commit, loc[t].tag) = {} THEN {loc[t].release}
                   ELSE Named(loc[t].commit, loc[t].tag) :
          Finish(t) \/ (Set(t, [loc[t] EXCEPT !.release = r]) /\ Goto(t, "fetch"))
    BY <1>5 DEF Resolve
  <2>2. r \in Nat
    <3>1. Named(loc[t].commit, loc[t].tag) \subseteq Nat
      BY DEF Named, Types
    <3> QED BY <1>0, <3>1
  <2> DEFINE l == [loc[t] EXCEPT !.release = r]
  <2>3. l \in Locals /\ l.env = loc[t].env
    BY <1>0, <2>2 DEF Locals
  <2>4. Seats'
    BY <1>0, <1>5, <2>1, <2>3, MoveTypes, FinishTypes DEF Resolve, Located
  <2> QED BY <1>5, <2>4 DEF Resolve, Types
<1>6. CASE Fetch(t)
  <2> DEFINE l == loc[t]
             time == IF l.at = 0 THEN clock + 1 ELSE l.at
             event == [at |-> time, status |-> l.status, run |-> l.run, note |-> l.note]
             found == {edges[i].events : i \in EdgesOf(l.release, l.env)}
  <2>1. PICK seen \in IF found = {} THEN {<<>>} ELSE found :
          \/ Return(t) /\ UNCHANGED clock
          \/ /\ clock' = IF l.at = 0 THEN time ELSE clock
             /\ Set(t, [l EXCEPT !.list = Refreshed(seen, event), !.fresh = (seen = <<>>), !.at = time])
             /\ Goto(t, "store")
    BY <1>6 DEF Fetch
  <2>2. time \in Nat
    BY <1>0 DEF Types
  <2>3. event \in Rows
    BY <1>0, <2>2 DEF Rows
  <2>4. seen \in Seq(Rows)
    <3>1. \A i \in DOMAIN edges : edges[i].events \in Seq(Rows)
      <4>1. \A i \in DOMAIN edges : edges[i] \in Edges
        BY DEF Types
      <4> QED BY <4>1 DEF Edges
    <3> QED BY <3>1, Empty DEF EdgesOf
  <2>5. Refreshed(seen, event) \in Seq(Rows)
    BY <2>3, <2>4, RefreshedRows
  <2> HIDE DEF time, event, found
  <2> DEFINE next == [l EXCEPT !.list = Refreshed(seen, event), !.fresh = (seen = <<>>), !.at = time]
  <2>6. next \in Locals /\ next.env = loc[t].env
    BY <1>0, <2>2, <2>5 DEF Locals
  <2>7. clock' \in Nat
    BY <2>1, <2>2 DEF Types
  <2>8. Seats'
    BY <1>0, <1>6, <2>1, <2>6, MoveTypes, ReturnTypes DEF Fetch, Located
  <2> QED BY <1>6, <2>7, <2>8 DEF Fetch, Types
<1>7. CASE Store(t)
  <2>1. edges' \in Seq(Edges)
    <3>1. CASE loc[t].fresh
      <4>1. [release |-> loc[t].release, env |-> loc[t].env, events |-> loc[t].list] \in Edges
        BY <1>0, <1>7 DEF Edges, Store, Located
      <4> QED BY <1>7, <3>1, <4>1 DEF Store, Types
    <3>2. CASE ~loc[t].fresh
      <4>1. \A i \in DOMAIN edges : [edges[i] EXCEPT !.events = loc[t].list] \in Edges /\ edges[i] \in Edges
        <5>1. \A i \in DOMAIN edges : edges[i] \in Edges
          BY DEF Types
        <5> QED BY <1>0, <5>1 DEF Edges
      <4>2. edges' = [i \in DOMAIN edges |-> IF i \in EdgesOf(loc[t].release, loc[t].env)
                                          THEN [edges[i] EXCEPT !.events = loc[t].list] ELSE edges[i]]
        BY <1>7, <3>2 DEF Store
      <4> HIDE DEF Edges
      <4> QED BY <4>1, <4>2 DEF Types
    <3> QED BY <3>1, <3>2
  <2> DEFINE l == [loc[t] EXCEPT !.list = <<>>]
  <2>2. l \in Locals /\ l.env = loc[t].env
    BY <1>0, Empty DEF Locals
  <2>3. Seats'
    BY <1>0, <1>7, <2>2, MoveTypes, ReturnTypes DEF Store, Located
  <2> QED BY <1>7, <2>1, <2>3 DEF Store, Types
<1>8. CASE Point(t)
  BY <1>0, <1>8, ReturnTypes DEF Point, Types
<1>9. CASE TriggerPromote(t)
  <2>1. CASE Finish(t) /\ UNCHANGED <<clock, runs>>
    BY <1>9, <2>1, FinishTypes DEF TriggerPromote, Types
  <2>2. CASE /\ Start(loc[t].env, loc[t].commit, loc[t].tag) /\ loc[t].tag \in DOMAIN tagAt
             /\ (\E run \in HandedBack : Set(t, [loc[t] EXCEPT !.run = run])) /\ Goto(t, "upsert")
    <3>0. PICK run \in HandedBack : Set(t, [loc[t] EXCEPT !.run = run])
      BY <2>2, Zenon
    <3>1. loc[t].tag # NoTag /\ loc[t].env \in Envs
      BY <1>0, <1>9, <2>2, ConstantsAssumption DEF Types, TriggerPromote, Located
    <3>2. runs' \in Seq(RemoteRuns) /\ clock' \in Nat /\ run \in Nat
      BY <1>0, <2>2, <3>1, StartTypes DEF HandedBack
    <3> DEFINE l == [loc[t] EXCEPT !.run = run]
    <3>3. l \in Locals /\ l.env = loc[t].env
      BY <1>0, <3>2 DEF Locals
    <3>4. Seats'
      BY <1>0, <2>2, <3>0, <3>1, <3>3, MoveTypes
    <3> QED BY <1>9, <2>2, <3>2, <3>4 DEF TriggerPromote, Types
  <2> QED BY <1>9, <2>1, <2>2 DEF TriggerPromote
<1>10. CASE TriggerFails(t)
  <2>1. runs' \in Seq(RemoteRuns) /\ clock' \in Nat
    <3>1. CASE UNCHANGED <<clock, runs>>
      BY <3>1 DEF Types
    <3>2. CASE loc[t].tag \in DOMAIN tagAt /\ Start(loc[t].env, loc[t].commit, loc[t].tag)
      <4>1. loc[t].tag # NoTag /\ loc[t].env \in Envs
        BY <1>0, <1>10, <3>2, ConstantsAssumption DEF Types, TriggerFails, Located
      <4> QED BY <1>0, <3>2, <4>1, StartTypes
    <3> QED BY <1>10, <3>1, <3>2 DEF TriggerFails
  <2> QED BY <1>10, <2>1, FinishTypes DEF TriggerFails, Types
<1>11. CASE Lookup(t)
  <2>1. \A r \in Named(loc[t].commit, loc[t].tag) :
          /\ [loc[t] EXCEPT !.release = r] \in Locals
          /\ [loc[t] EXCEPT !.release = r].env = loc[t].env
    <3>1. Named(loc[t].commit, loc[t].tag) \subseteq Nat
      BY DEF Named, Types
    <3> QED BY <1>0, <3>1 DEF Locals
  <2> DEFINE l == [loc[t] EXCEPT !.tag = NoTag]
  <2>2. l \in Locals /\ l.env = loc[t].env
    BY <1>0 DEF Locals, AnyTag
  <2>3. Seats'
    <3>1. CASE Finish(t)
      BY <1>0, <3>1, FinishTypes
    <3>2. CASE Set(t, l) /\ UNCHANGED pc
      BY <1>0, <2>2, <3>2, StayTypes
    <3>3. ASSUME NEW r \in Named(loc[t].commit, loc[t].tag),
                 Set(t, [loc[t] EXCEPT !.release = r]), Goto(t, "fetch")
          PROVE  Seats'
      BY <1>0, <1>11, <2>1, <3>3, MoveTypes DEF Lookup, Located
    <3> QED BY <1>11, <3>1, <3>2, <3>3 DEF Lookup
  <2> QED BY <1>11, <2>3 DEF Lookup, Types
<1>12. CASE ResyncItem(t)
  <2>1. PICK o \in loc[t].todo :
          \/ Set(t, [loc[t] EXCEPT !.todo = loc[t].todo \ {o}]) /\ UNCHANGED pc
          \/ /\ Goto(t, "upsert")
             /\ \E tag \in IF runs[o.run].tag # NoTag THEN {runs[o.run].tag}
                           ELSE IF TagsOf(runs[o.run].commit) # {} THEN TagsOf(runs[o.run].commit) ELSE {NoTag} :
                  Set(t, [loc[t] EXCEPT !.todo = loc[t].todo \ {o}, !.env = o.env,
                                     !.commit = runs[o.run].commit, !.tag = tag,
                                     !.run = o.run, !.status = o.status, !.at = o.at])
    BY <1>12 DEF ResyncItem
  <2>2. o \in Observed /\ loc[t].todo \ {o} \in SUBSET Observed
    BY <1>0
  <2>3. runs[o.run] \in RemoteRuns
    BY DEF Types
  <2>4. CASE Set(t, [loc[t] EXCEPT !.todo = loc[t].todo \ {o}]) /\ UNCHANGED pc
    <3> DEFINE l == [loc[t] EXCEPT !.todo = loc[t].todo \ {o}]
    <3>1. l \in Locals /\ l.env = loc[t].env
      BY <1>0, <2>2 DEF Locals
    <3>2. Seats'
      BY <1>0, <2>4, <3>1, StayTypes
    <3> QED BY <1>12, <3>2 DEF ResyncItem, Types
  <2>5. ASSUME Goto(t, "upsert"),
               NEW tag \in IF runs[o.run].tag # NoTag THEN {runs[o.run].tag}
                           ELSE IF TagsOf(runs[o.run].commit) # {} THEN TagsOf(runs[o.run].commit) ELSE {NoTag},
               Set(t, [loc[t] EXCEPT !.todo = loc[t].todo \ {o}, !.env = o.env,
                                     !.commit = runs[o.run].commit, !.tag = tag,
                                     !.run = o.run, !.status = o.status, !.at = o.at])
        PROVE  Types'
    <3>1. tag \in AnyTag
      <4>1. \A r \in DOMAIN releases : releases[r].tag \in AnyTag
        <5>1. \A r \in DOMAIN releases : releases[r] \in Nodes
          BY DEF Types
        <5> QED BY <5>1 DEF Nodes
      <4>2. runs[o.run].tag \in AnyTag /\ NoTag \in AnyTag
        BY <2>3 DEF RemoteRuns, AnyTag
      <4> QED BY <4>1, <4>2 DEF TagsOf
    <3>2. runs[o.run].commit \in AnyCommit
      BY <2>3 DEF RemoteRuns, AnyCommit
    <3> DEFINE l == [loc[t] EXCEPT !.todo = loc[t].todo \ {o}, !.env = o.env,
                                   !.commit = runs[o.run].commit, !.tag = tag,
                                   !.run = o.run, !.status = o.status, !.at = o.at]
    <3>3. l \in Locals /\ l.env \in Envs
      BY <1>0, <2>2, <3>1, <3>2 DEF Locals, Observed
    <3>4. Seats'
      BY <1>0, <2>5, <3>3, MoveTypes
    <3> QED BY <1>12, <3>4 DEF ResyncItem, Types
  <2> QED BY <2>1, <2>4, <2>5
<1>13. CASE Ask(t)
  <2>1. PICK asked \in SUBSET loc[t].todo :
          Set(t, [loc[t] EXCEPT !.todo =
                       {[h EXCEPT !.status = runs[h.run].status] :
                          h \in {g \in asked : runs[g.run].status \in Terminal}}])
    BY <1>13 DEF Ask
  <2>2. \A h \in asked : runs[h.run].status \in Terminal => [h EXCEPT !.status = runs[h.run].status] \in Observed
    BY <1>0 DEF Observed, Status
  <2>3. {[h EXCEPT !.status = runs[h.run].status] :
            h \in {g \in asked : runs[g.run].status \in Terminal}} \in SUBSET Observed
    BY <2>2
  <2>4. [loc[t] EXCEPT !.todo = {[h EXCEPT !.status = runs[h.run].status] :
            h \in {g \in asked : runs[g.run].status \in Terminal}}] \in Locals
    BY <1>0, <2>3 DEF Locals
  <2>5. Seats'
    BY <1>0, <1>13, <2>1, <2>4, MoveTypes DEF Ask, Located
  <2> QED BY <1>13, <2>5 DEF Ask, Types
<1>14. CASE TrainItem(t)
  <2>1. PICK h \in loc[t].todo :
          Set(t, [loc[t] EXCEPT !.todo = @ \ {h}, !.env = h.env, !.at = 0,
                                !.release = h.release, !.run = h.run, !.status = h.status])
    BY <1>14 DEF TrainItem
  <2>2. h \in Observed
    BY <1>0
  <2> DEFINE l == [loc[t] EXCEPT !.todo = @ \ {h}, !.env = h.env, !.at = 0,
                                 !.release = h.release, !.run = h.run, !.status = h.status]
  <2>3. l \in Locals /\ l.env \in Envs
    BY <1>0, <2>2 DEF Locals, Observed
  <2>4. Seats'
    BY <1>0, <1>14, <2>1, <2>3, MoveTypes DEF TrainItem
  <2> QED BY <1>14, <2>4 DEF TrainItem, Types
<1>15. CASE EndJob(t)
  BY <1>15, FinishTypes DEF EndJob, Types
<1> QED BY <1>1, <1>2, <1>3, <1>4, <1>5, <1>6, <1>7, <1>8, <1>9, <1>10, <1>11, <1>12, <1>13,
           <1>14, <1>15 DEF Goes

\* A task that fails, and the remote.
LEMMA FailsTypes == ASSUME Types, NEW t \in Tasks, Crash(t) \/ QueryFails(t) PROVE Types'
<1>1. Seats'
  BY FinishTypes, ReturnTypes DEF Types, Crash, QueryFails
<1> QED BY <1>1 DEF Crash, QueryFails, Types, remote

\* What the remote does by itself keeps the types.
LEMMA RemoteTypes ==
  ASSUME Types, (\E n \in DOMAIN runs : RunFinishes(n)) \/ (\E e \in Envs : RemoteDeploys(e))
  PROVE  Types'
<1>1. ASSUME NEW n \in DOMAIN runs, RunFinishes(n) PROVE Types'
  <2>1. PICK status \in Terminal : runs' = [runs EXCEPT ![n].status = status]
    BY <1>1 DEF RunFinishes
  <2>2. \A m \in DOMAIN runs : runs[m] \in RemoteRuns /\ [runs[m] EXCEPT !.status = status] \in RemoteRuns
    <3>1. \A m \in DOMAIN runs : runs[m] \in RemoteRuns
      BY DEF Types
    <3> QED BY <3>1 DEF RemoteRuns, Status
  <2>3. runs' = [m \in DOMAIN runs |-> IF m = n THEN [runs[m] EXCEPT !.status = status] ELSE runs[m]]
    BY <2>1
  <2>4. runs' \in Seq(RemoteRuns)
    BY <2>2, <2>3 DEF Types
  <2> QED BY <1>1, <2>4 DEF RunFinishes, Types, Seats
<1>2. ASSUME NEW e \in Envs, RemoteDeploys(e) PROVE Types'
  <2>1. PICK commit \in Commits, tag \in DOMAIN tagAt \cup {NoTag} : Start(e, commit, tag)
    BY <1>2 DEF RemoteDeploys
  <2>2. runs' \in Seq(RemoteRuns) /\ clock' \in Nat
    BY <2>1, StartTypes DEF AnyCommit
  <2> QED BY <1>2, <2>2 DEF RemoteDeploys, Types, Seats
<1> QED BY <1>1, <1>2

-----------------------------------------------------------------------------
\* Runs and releases are never dropped; a run keeps what it deploys and the end
\* it came to, a release its commit.
Grow ==
  /\ \A n \in DOMAIN runs :
       /\ n \in DOMAIN runs' /\ runs'[n].env = runs[n].env /\ runs'[n].asked = runs[n].asked
       /\ runs'[n].commit = runs[n].commit
       /\ runs[n].status \in Terminal => runs'[n].status = runs[n].status
  /\ \A r \in DOMAIN releases :
       r \in DOMAIN releases' /\ releases'[r].commit = releases[r].commit

\* What is added comes last; the rest is as it was.
LEMMA StartGrows ==
  ASSUME Types, NEW e, NEW asked, NEW tag, Start(e, asked, tag), UNCHANGED releases
  PROVE  /\ Grow /\ Len(runs') \in DOMAIN runs' /\ Len(runs') # 0
         /\ runs'[Len(runs')].env = e /\ runs'[Len(runs')].asked = asked
<1>1. runs \in Seq(RemoteRuns)
  BY DEF Types
<1> HIDE DEF RemoteRuns
<1> QED BY <1>1 DEF Start, Grow

\* The same of a release.
LEMMA AddGrows ==
  ASSUME Types, NEW commit, NEW tag, AddRelease(commit, tag), UNCHANGED runs
  PROVE  /\ Grow /\ Len(releases') \in DOMAIN releases'
         /\ releases'[Len(releases')] = [commit |-> commit, tag |-> tag]
         /\ \A r \in DOMAIN releases' : r \in DOMAIN releases \/ r = Len(releases')
         /\ \A r \in DOMAIN releases : releases'[r] = releases[r]
<1>1. releases \in Seq(Nodes)
  BY DEF Types
<1> HIDE DEF Nodes
<1> QED BY <1>1 DEF AddRelease, Grow

\* A tag edited leaves the commit.
LEMMA RetagGrows ==
  ASSUME Types, NEW t \in Tasks, Retag(t)
  PROVE  Grow
<1>1. \A r \in DOMAIN releases : releases[r] \in Nodes
  BY DEF Types
<1>2. \A r \in DOMAIN releases : [releases[r] EXCEPT !.tag = loc[t].tag].commit = releases[r].commit
  BY <1>1 DEF Nodes
<1> QED BY <1>2 DEF Retag, Grow, remote

\* Every step lets runs and releases grow.
LEMMA BeginsGrow == ASSUME Types, NEW t \in Tasks, Begins(t) \/ Observe(t) PROVE Grow
<1>1. CASE TriggerDeploy(t)
  BY <1>1, StartGrows DEF TriggerDeploy
<1>2. CASE CheckNew(t) \/ CheckClash(t) \/ BeginPost(t) \/ CutTag(t) \/ Scan(t) \/ Observe(t)
  <2>1. UNCHANGED <<runs, releases>>
    BY <1>2 DEF CheckNew, CheckClash, BeginPost, CutTag, Scan, Observe, remote
  <2> QED BY <2>1 DEF Grow
<1> QED BY <1>1, <1>2 DEF Begins

\* So do the further steps.
LEMMA GoesGrow == ASSUME Types, NEW t \in Tasks, Goes(t) PROVE Grow
<1>1. CASE Create(t)
  BY <1>1, AddGrows DEF Create, remote
<1>2. CASE Retag(t)
  BY <1>2, RetagGrows
<1>3. CASE Insert(t)
  BY <1>3, AddGrows DEF Insert, remote, Grow
<1>4. CASE TriggerPromote(t) \/ TriggerFails(t)
  BY <1>4, StartGrows DEF TriggerPromote, TriggerFails, Grow
<1>5. CASE \/ Upsert(t) \/ Resolve(t) \/ Fetch(t) \/ Store(t) \/ Point(t)
           \/ Lookup(t) \/ ResyncItem(t) \/ Ask(t) \/ TrainItem(t) \/ EndJob(t)
  <2>1. UNCHANGED <<runs, releases>>
    BY <1>5 DEF Upsert, Resolve, Fetch, Store, Point, Lookup, ResyncItem, Ask, TrainItem, EndJob,
       remote
  <2> QED BY <2>1 DEF Grow
<1> QED BY <1>1, <1>2, <1>3, <1>4, <1>5 DEF Goes

\* A fault changes neither.
LEMMA FailsGrow == ASSUME NEW t \in Tasks, Crash(t) \/ QueryFails(t) PROVE Grow
BY DEF Crash, QueryFails, remote, Grow

\* The remote only ends runs and adds some.
LEMMA RemoteGrows ==
  ASSUME Types, (\E n \in DOMAIN runs : RunFinishes(n)) \/ (\E e \in Envs : RemoteDeploys(e))
  PROVE  Grow
<1>1. ASSUME NEW n \in DOMAIN runs, RunFinishes(n) PROVE Grow
  <2>1. PICK status \in Terminal : runs' = [runs EXCEPT ![n].status = status]
    BY <1>1 DEF RunFinishes
  <2>2. \A m \in DOMAIN runs : runs[m] \in RemoteRuns
    BY DEF Types
  <2>3. \A m \in DOMAIN runs :
          /\ [runs[m] EXCEPT !.status = status].env = runs[m].env
          /\ [runs[m] EXCEPT !.status = status].asked = runs[m].asked
          /\ [runs[m] EXCEPT !.status = status].commit = runs[m].commit
    BY <2>2 DEF RemoteRuns
  <2> QED BY <1>1, <2>1, <2>3 DEF RunFinishes, Grow, Terminal
<1>2. ASSUME NEW e \in Envs, RemoteDeploys(e) PROVE Grow
  BY <1>2, StartGrows DEF RemoteDeploys
<1> QED BY <1>1, <1>2

\* A step of a task leaves the others where they are.
Alone(t) == \A u \in Tasks \ {t} : pc'[u] = pc[u] /\ loc'[u] = loc[u]

\* The actions name one task each.
LEMMA Others ==
  ASSUME Types, NEW t \in Tasks, Begins(t) \/ Observe(t) \/ Goes(t) \/ Crash(t) \/ QueryFails(t)
  PROVE  Alone(t)
<1> USE DEF Types, Seats, Alone, Goto, Set
<1>1. CASE Begins(t) \/ Observe(t)
  <2>1. \E l, label : Begin(t, l, label)
    BY <1>1 DEF Begins, Observe, CheckNew, CheckClash, BeginPost, TriggerDeploy, CutTag, Scan
  <2> QED BY <2>1 DEF Begin
<1>2. CASE Create(t) \/ Retag(t) \/ Upsert(t) \/ Insert(t) \/ Resolve(t)
  BY <1>2 DEF Create, Retag, Upsert, Insert, Resolve, Finish
<1>3. CASE Fetch(t)
  BY <1>3 DEF Fetch, Return, Finish
<1>4. CASE Store(t) \/ Point(t)
  BY <1>4 DEF Store, Point, Return, Finish
<1>5. CASE TriggerPromote(t) \/ TriggerFails(t) \/ Lookup(t) \/ TrainItem(t) \/ EndJob(t)
  BY <1>5 DEF TriggerPromote, TriggerFails, Lookup, TrainItem, EndJob, Finish
<1>6. CASE ResyncItem(t)
  BY <1>6 DEF ResyncItem
<1>7. CASE Ask(t)
  BY <1>7 DEF Ask
<1>8. CASE Crash(t) \/ QueryFails(t)
  BY <1>8 DEF Crash, QueryFails, Return, Finish
<1> QED BY <1>1, <1>2, <1>3, <1>4, <1>5, <1>6, <1>7, <1>8 DEF Goes

-----------------------------------------------------------------------------
\* What is told of a run in an environment, under a commit, of a release.
RunOk(n, e, status) ==
  n # 0 => n \in DOMAIN runs /\ runs[n].env = e /\ (status \in Terminal => status = runs[n].status)
CommitOk(n, commit) == n # 0 => commit \in {runs[n].commit, runs[n].asked}
ReleaseOk(n, r) == n # 0 => r \in DOMAIN releases /\ releases[r].commit \in {runs[n].commit, runs[n].asked}
RowsOk(rows, e, r) ==
  \A k \in DOMAIN rows : RunOk(rows[k].run, e, rows[k].status) /\ ReleaseOk(rows[k].run, r)

\* What a task is about to record is right, from where it learns of a run on.
TaskOk(t) ==
  LET l == loc[t] IN
  /\ RunOk(l.run, l.env, l.status)
  /\ pc[t] = "trigger" => l.status = "in_progress"
  /\ pc[t] = "insert" => l.release = 0
  /\ pc[t] \in {"lookup", "upsert", "insert", "resolve"} => CommitOk(l.run, l.commit)
  /\ (pc[t] = "resolve" /\ l.release # 0) \/ pc[t] = "retag" =>
       l.release \in DOMAIN releases /\ releases[l.release].commit = l.commit
  /\ pc[t] = "fetch" /\ l.release # 0 => ReleaseOk(l.run, l.release)
  /\ pc[t] = "store" => RowsOk(l.list, l.env, l.release)
  /\ \A o \in l.todo :
       o.run # 0 /\ RunOk(o.run, o.env, o.status) /\ (l.op = "train" => ReleaseOk(o.run, o.release))

EdgesOk == \A i \in DOMAIN edges : RowsOk(edges[i].events, edges[i].env, edges[i].release)
Matched == EdgesOk /\ \A t \in Tasks : TaskOk(t)

\* A task that does not move keeps what it knows.
LEMMA StayOk ==
  ASSUME Grow, NEW u \in Tasks, TaskOk(u), pc'[u] = pc[u], loc'[u] = loc[u]
  PROVE  TaskOk(u)'
<1> DEFINE l == loc[u]
<1>1. \A n, e, status : RunOk(n, e, status) => RunOk(n, e, status)'
  BY DEF Grow, RunOk
<1>2. \A n, e, status, commit : RunOk(n, e, status) /\ CommitOk(n, commit) => CommitOk(n, commit)'
  BY DEF Grow, RunOk, CommitOk
<1>3. \A n, e, status, r : RunOk(n, e, status) /\ ReleaseOk(n, r) => ReleaseOk(n, r)'
  BY DEF Grow, RunOk, ReleaseOk
<1>4. /\ RunOk(l.run, l.env, l.status)'
      /\ pc[u] \in {"lookup", "upsert", "insert", "resolve"} => CommitOk(l.run, l.commit)'
      /\ pc[u] = "fetch" /\ l.release # 0 => ReleaseOk(l.run, l.release)'
  BY <1>1, <1>2, <1>3 DEF TaskOk
<1>5. pc[u] = "store" => RowsOk(l.list, l.env, l.release)'
  BY <1>1, <1>3 DEF TaskOk, RowsOk
<1>6. \A o \in l.todo : RunOk(o.run, o.env, o.status)' /\ (l.op = "train" => ReleaseOk(o.run, o.release)')
  BY <1>1, <1>3 DEF TaskOk
<1>7. (pc[u] = "resolve" /\ l.release # 0) \/ pc[u] = "retag" =>
        l.release \in DOMAIN releases' /\ releases'[l.release].commit = l.commit
  BY DEF Grow, TaskOk
<1> QED BY <1>4, <1>5, <1>6, <1>7 DEF TaskOk

\* Grown runs and releases change nothing of what the others know.
LEMMA OthersOk ==
  ASSUME Grow, Matched, NEW t \in Tasks, Alone(t), TaskOk(t)'
  PROVE  \A u \in Tasks : TaskOk(u)'
BY StayOk DEF Matched, Alone

\* Lists left alone stay right.
LEMMA SameEdges == ASSUME Grow, EdgesOk, UNCHANGED edges PROVE EdgesOk'
BY DEF Grow, EdgesOk, RowsOk, RunOk, ReleaseOk

\* A task at rest knows nothing; one that returns to its job keeps what is left.
LEMMA FinishOk == ASSUME Types, NEW t \in Tasks, Finish(t) PROVE TaskOk(t)'
BY DEF Types, Seats, Finish, Goto, Set, NoLocals, TaskOk, RunOk, CommitOk, ReleaseOk

\* A job keeps what it has yet to do.
LEMMA ReturnOk == ASSUME Types, Grow, NEW t \in Tasks, TaskOk(t), Return(t) PROVE TaskOk(t)'
<1>1. CASE Finish(t)
  BY <1>1, FinishOk
<1>2. CASE /\ Goto(t, "item")
           /\ Set(t, [NoLocals EXCEPT !.op = loc[t].op, !.note = loc[t].note, !.todo = loc[t].todo])
  <2>1. /\ pc'[t] = "item" /\ loc'[t].run = 0 /\ loc'[t].todo = loc[t].todo /\ loc'[t].op = loc[t].op
    BY <1>2 DEF Types, Seats, Goto, Set, NoLocals
  <2> QED BY <2>1 DEF TaskOk, RunOk, ReleaseOk, Grow
<1> QED BY <1>1, <1>2 DEF Return

\* A request without a run to record.
LEMMA BareOk ==
  ASSUME NEW t \in Tasks,
         loc'[t].run = 0, loc'[t].todo = {}, pc'[t] = "trigger" => loc'[t].status = "in_progress",
         pc'[t] \notin {"insert", "resolve", "retag", "store"}
  PROVE  TaskOk(t)'
BY DEF TaskOk, RunOk, CommitOk, ReleaseOk

\* A task begins with what the remote says of runs, or the lists.
LEMMA BegunOk == ASSUME Types, Matched, NEW t \in Tasks, Begins(t) \/ Observe(t) PROVE TaskOk(t)'
<1>0. DOMAIN pc = Tasks /\ DOMAIN loc = Tasks
  BY DEF Types, Seats
<1>1. CASE CheckNew(t)
  <2>1. loc'[t].run = 0 /\ loc'[t].todo = {} /\ pc'[t] = "create"
    BY <1>0, <1>1 DEF CheckNew, Begin, Goto, Set, NoLocals
  <2> QED BY <2>1, BareOk
<1>2. CASE CheckClash(t)
  <2>1. PICK r \in DOMAIN releases, tag \in Tags \cup {NoTag} :
          Begin(t, [NoLocals EXCEPT !.op = "patch", !.release = r,
                                    !.commit = releases[r].commit, !.tag = tag], "retag")
    BY <1>2 DEF CheckClash
  <2>2. /\ pc'[t] = "retag" /\ loc'[t].run = 0 /\ loc'[t].todo = {} /\ loc'[t].release = r
        /\ loc'[t].commit = releases[r].commit
    BY <1>0, <2>1 DEF Begin, Goto, Set, NoLocals
  <2>3. releases' = releases
    BY <1>2 DEF CheckClash
  <2> QED BY <2>2, <2>3 DEF TaskOk, RunOk
<1>3. CASE BeginPost(t)
  <2>1. loc'[t].run = 0 /\ loc'[t].todo = {} /\ pc'[t] = "fetch"
    BY <1>0, <1>3 DEF BeginPost, Begin, Goto, Set, NoLocals
  <2> QED BY <2>1, BareOk
<1>4. CASE TriggerDeploy(t)
  <2>5. PICK e \in Envs, commit \in Commits, tag \in DOMAIN tagAt \cup {NoTag} :
          /\ Start(e, commit, tag)
          /\ \E run \in HandedBack :
                Begin(t, [NoLocals EXCEPT !.op = "deploy", !.env = e, !.commit = commit, !.tag = tag,
                                          !.run = run, !.note = "deploy"], "lookup")
    BY <1>4 DEF TriggerDeploy
  <2>1. PICK run \in HandedBack :
          Begin(t, [NoLocals EXCEPT !.op = "deploy", !.env = e, !.commit = commit, !.tag = tag,
                                       !.run = run, !.note = "deploy"], "lookup")
    BY <2>5, Zenon
  <2>2. UNCHANGED releases
    BY <1>4 DEF TriggerDeploy
  <2>3. /\ Len(runs') \in DOMAIN runs'
        /\ runs'[Len(runs')].env = e /\ runs'[Len(runs')].asked = commit
    BY <2>5, <2>2, StartGrows
  <2>4. /\ pc'[t] = "lookup" /\ loc'[t].run = run /\ loc'[t].todo = {} /\ loc'[t].env = e
        /\ loc'[t].commit = commit /\ loc'[t].status = "in_progress"
    BY <1>0, <2>1 DEF Begin, Goto, Set, NoLocals
  <2> QED BY <2>1, <2>3, <2>4 DEF TaskOk, RunOk, CommitOk, Terminal, HandedBack
<1>5. CASE CutTag(t)
  <2>1. loc'[t].run = 0 /\ loc'[t].todo = {} /\ pc'[t] \in {"upsert", "trigger"} /\ loc'[t].status = "in_progress"
    BY <1>0, <1>5 DEF CutTag, Begin, Goto, Set, NoLocals
  <2> QED BY <2>1, BareOk
<1>6. CASE Scan(t)
  <2>1. PICK shown \in SUBSET UNION {Heads(e) : e \in Envs} :
          Begin(t, [NoLocals EXCEPT !.op = "train", !.note = "train",
                         !.todo = {h \in shown : h.status = "in_progress" /\ h.run # 0}], "ask")
    BY <1>6 DEF Scan
  <2>2. ASSUME NEW e \in Envs, NEW h \in Heads(e), h.run # 0
        PROVE  RunOk(h.run, h.env, h.status) /\ ReleaseOk(h.run, h.release)
    BY <2>2 DEF Heads, Matched, EdgesOk, RowsOk
  <2>3. UNCHANGED <<runs, releases>>
    BY <1>6 DEF Scan, remote
  <2>4. /\ pc'[t] = "ask" /\ loc'[t].run = 0
        /\ loc'[t].todo = {h \in shown : h.status = "in_progress" /\ h.run # 0}
    BY <1>0, <2>1 DEF Begin, Goto, Set, NoLocals
  <2>5. \A h \in loc'[t].todo : h.run # 0 /\ RunOk(h.run, h.env, h.status) /\ ReleaseOk(h.run, h.release)
    BY <2>2, <2>4
  <2> QED BY <2>3, <2>4, <2>5 DEF TaskOk, RunOk, ReleaseOk
<1>7. CASE Observe(t)
  <2>1. PICK limit \in 1..MaxRuns :
          Begin(t, [NoLocals EXCEPT
                      !.op = "resync", !.note = "resync",
                      !.todo = {[run |-> n, release |-> 0, env |-> runs[n].env,
                                 status |-> runs[n].status, at |-> runs[n].at] :
                                   n \in Recent(limit)}], "item")
    BY <1>7 DEF Observe
  <2>2. Recent(limit) \subseteq DOMAIN runs /\ \A n \in DOMAIN runs : n # 0
    BY DEF Recent, Types
  <2>3. UNCHANGED <<runs, releases>>
    BY <1>7 DEF Observe, remote
  <2>4. /\ pc'[t] = "item" /\ loc'[t].run = 0 /\ loc'[t].op = "resync"
        /\ loc'[t].todo = {[run |-> n, release |-> 0, env |-> runs[n].env,
                             status |-> runs[n].status, at |-> runs[n].at] : n \in Recent(limit)}
    BY <1>0, <2>1 DEF Begin, Goto, Set, NoLocals
  <2>5. \A o \in loc'[t].todo : o.run # 0 /\ RunOk(o.run, o.env, o.status)
    BY <2>2, <2>4 DEF RunOk
  <2> QED BY <2>3, <2>4, <2>5 DEF TaskOk, RunOk
<1> QED BY <1>1, <1>2, <1>3, <1>4, <1>5, <1>6, <1>7 DEF Begins

\* The first step keeps what is known.
LEMMA BeginsOk == ASSUME Types, Matched, NEW t \in Tasks, Begins(t) \/ Observe(t) PROVE Matched'
<1>1. Grow /\ Alone(t)
  BY BeginsGrow, Others
<1>2. TaskOk(t)'
  BY BegunOk
<1>3. UNCHANGED edges
  BY DEF Begins, CheckNew, CheckClash, BeginPost, TriggerDeploy, CutTag, Scan, Observe
<1> QED BY <1>1, <1>2, <1>3, OthersOk, SameEdges DEF Matched

\* A row of a refreshed list is the event or was there.
LEMMA RefreshedFrom ==
  ASSUME NEW seen \in Seq(Rows), NEW event, NEW k \in DOMAIN Refreshed(seen, event)
  PROVE  Refreshed(seen, event)[k] = event \/ \E m \in DOMAIN seen : Refreshed(seen, event)[k] = seen[m]
<1> HIDE DEF Rows
<1>1. CASE Hits(seen, event.run) = {}
  <2>1. Refreshed(seen, event) = Append(seen, event)
    BY <1>1 DEF Refreshed
  <2> QED BY <2>1
<1>2. CASE Hits(seen, event.run) # {}
  <2>1. Refreshed(seen, event) = [seen EXCEPT ![LastHit(seen, event.run)] = event]
    BY <1>2 DEF Refreshed
  <2> QED BY <2>1
<1> QED BY <1>1, <1>2

\* The event of a task fits the edges it may be written to.
LEMMA FetchOk == ASSUME Types, Matched, NEW t \in Tasks, Fetch(t), Grow PROVE TaskOk(t)'
<1> DEFINE l == loc[t]
           time == IF l.at = 0 THEN clock + 1 ELSE l.at
           event == [at |-> time, status |-> l.status, run |-> l.run, note |-> l.note]
           found == {edges[i].events : i \in EdgesOf(l.release, l.env)}
<1>1. PICK seen \in IF found = {} THEN {<<>>} ELSE found :
        \/ Return(t)
        \/ /\ l.release # 0
           /\ Set(t, [l EXCEPT !.list = Refreshed(seen, event), !.fresh = (seen = <<>>), !.at = time])
           /\ Goto(t, "store")
  BY DEF Fetch
<1>2. seen \in Seq(Rows)
  <2>1. \A i \in DOMAIN edges : edges[i].events \in Seq(Rows)
    <3>1. \A i \in DOMAIN edges : edges[i] \in Edges
      BY DEF Types
    <3> QED BY <3>1 DEF Edges
  <2> QED BY <2>1, Empty DEF EdgesOf
<1>3. RowsOk(seen, l.env, l.release)
  <2>1. \A i \in EdgesOf(l.release, l.env) : RowsOk(edges[i].events, l.env, l.release)
    BY DEF EdgesOf, Matched, EdgesOk
  <2>2. RowsOk(<<>>, l.env, l.release)
    BY DEF RowsOk
  <2> QED BY <2>1, <2>2
<1>4. CASE Return(t)
  BY <1>4, ReturnOk DEF Matched
<1>5. CASE /\ l.release # 0
           /\ Set(t, [l EXCEPT !.list = Refreshed(seen, event), !.fresh = (seen = <<>>), !.at = time])
           /\ Goto(t, "store")
  <2>1. loc[t] \in Locals /\ DOMAIN pc = Tasks /\ DOMAIN loc = Tasks
    BY DEF Types, Seats
  <2>2. /\ pc'[t] = "store" /\ loc'[t].list = Refreshed(seen, event) /\ loc'[t].run = l.run
        /\ loc'[t].env = l.env /\ loc'[t].release = l.release /\ loc'[t].status = l.status
        /\ loc'[t].todo = l.todo /\ loc'[t].op = l.op
    BY <1>5, <2>1 DEF Set, Goto, Locals
  <2>3. TaskOk(t) /\ pc[t] = "fetch"
    BY DEF Matched, Fetch
  <2>4. RunOk(event.run, l.env, event.status) /\ ReleaseOk(event.run, l.release)
    BY <1>5, <2>3 DEF TaskOk
  <2> HIDE DEF event
  <2>5. RowsOk(Refreshed(seen, event), l.env, l.release)
    BY <1>2, <1>3, <2>4, RefreshedFrom DEF RowsOk
  <2>6. UNCHANGED <<runs, releases>>
    BY DEF Fetch, remote
  <2> QED BY <2>2, <2>3, <2>5, <2>6 DEF TaskOk, RowsOk, RunOk, ReleaseOk
<1> QED BY <1>1, <1>4, <1>5

\* A list that fits is stored on edges it fits.
LEMMA StoreOk == ASSUME Types, Matched, NEW t \in Tasks, Store(t), Grow PROVE TaskOk(t)' /\ EdgesOk'
<1>0. TaskOk(t) /\ EdgesOk
  BY DEF Matched
<1>1. RowsOk(loc[t].list, loc[t].env, loc[t].release)
  BY <1>0 DEF TaskOk, Store
<1>2. UNCHANGED <<runs, releases>>
  BY DEF Store, remote
<1>3. TaskOk(t)'
  <2>1. CASE Return(t)
    BY <1>0, <2>1, ReturnOk
  <2>2. CASE Goto(t, "point") /\ Set(t, [loc[t] EXCEPT !.list = <<>>])
    <3>1. loc[t] \in Locals /\ DOMAIN pc = Tasks /\ DOMAIN loc = Tasks
      BY DEF Types, Seats
    <3>2. /\ pc'[t] = "point" /\ loc'[t].run = loc[t].run /\ loc'[t].env = loc[t].env
          /\ loc'[t].status = loc[t].status /\ loc'[t].todo = loc[t].todo /\ loc'[t].op = loc[t].op
      BY <2>2, <3>1 DEF Set, Goto, Locals
    <3> QED BY <1>0, <1>2, <3>2 DEF TaskOk, RunOk, ReleaseOk
  <2> QED BY <2>1, <2>2 DEF Store
<1>4. \A i \in DOMAIN edges' : RowsOk(edges'[i].events, edges'[i].env, edges'[i].release)
  <2>1. \A i \in DOMAIN edges : edges[i] \in Edges /\ RowsOk(edges[i].events, edges[i].env, edges[i].release)
    BY <1>0 DEF Types, EdgesOk
  <2>2. CASE loc[t].fresh
    <3> DEFINE new == [release |-> loc[t].release, env |-> loc[t].env, events |-> loc[t].list]
    <3>1. edges' = Append(edges, new)
      BY <2>2 DEF Store
    <3>2. RowsOk(new.events, new.env, new.release)
      BY <1>1
    <3>3. edges \in Seq(Edges)
      BY DEF Types
    <3> HIDE DEF new, Edges
    <3> QED BY <2>1, <3>1, <3>2, <3>3
  <2>3. CASE ~loc[t].fresh
    <3>1. edges' = [i \in DOMAIN edges |-> IF i \in EdgesOf(loc[t].release, loc[t].env)
                                        THEN [edges[i] EXCEPT !.events = loc[t].list] ELSE edges[i]]
      BY <2>3 DEF Store
    <3>2. \A i \in DOMAIN edges :
            LET e == [edges[i] EXCEPT !.events = loc[t].list]
            IN  e.events = loc[t].list /\ e.env = edges[i].env /\ e.release = edges[i].release
      BY <2>1 DEF Edges
    <3> QED BY <1>1, <2>1, <3>1, <3>2 DEF EdgesOf
  <2> QED BY <2>2, <2>3
<1> QED BY <1>2, <1>3, <1>4 DEF EdgesOk, RowsOk, RunOk, ReleaseOk

\* The other steps hand on what a task knows.
LEMMA GoneOk ==
  ASSUME Types, Matched, NEW t \in Tasks, Goes(t), ~Fetch(t), ~Store(t), Grow
  PROVE  TaskOk(t)'
<1>0. /\ loc[t] \in Locals /\ DOMAIN pc = Tasks /\ DOMAIN loc = Tasks /\ TaskOk(t)
  BY DEF Types, Seats, Matched
<1>1. CASE Create(t) \/ Retag(t) \/ EndJob(t) \/ TriggerFails(t)
  BY <1>1, FinishOk DEF Create, Retag, EndJob, TriggerFails
<1>2. CASE Point(t)
  BY <1>0, <1>2, ReturnOk DEF Point
<1>3. CASE Upsert(t)
  <2>1. /\ pc'[t] = "insert" /\ loc'[t].release = 0 /\ loc'[t].run = loc[t].run
        /\ loc'[t].env = loc[t].env /\ loc'[t].commit = loc[t].commit /\ loc'[t].status = loc[t].status
        /\ loc'[t].todo = loc[t].todo /\ loc'[t].op = loc[t].op
    BY <1>0, <1>3 DEF Upsert, Set, Goto, Locals
  <2>2. UNCHANGED <<runs, releases>> /\ pc[t] = "upsert"
    BY <1>3 DEF Upsert, remote
  <2> QED BY <1>0, <2>1, <2>2 DEF TaskOk, RunOk, CommitOk, ReleaseOk
<1>4. CASE Insert(t)
  <2>0. UNCHANGED runs /\ pc[t] = "insert" /\ pc'[t] = "resolve"
    BY <1>0, <1>4 DEF Insert, remote, Goto
  <2>1. CASE ~loc[t].fresh
    <3>1. loc'[t] = loc[t] /\ releases' = releases
      BY <1>4, <2>1 DEF Insert
    <3> QED BY <1>0, <2>0, <3>1 DEF TaskOk, RunOk, CommitOk, ReleaseOk
  <2>2. CASE loc[t].fresh
    <3>1. AddRelease(loc[t].commit, loc[t].tag) /\ Set(t, [loc[t] EXCEPT !.release = Len(releases')])
      BY <1>4, <2>2 DEF Insert
    <3>2. /\ loc'[t].release = Len(releases') /\ loc'[t].run = loc[t].run
          /\ loc'[t].env = loc[t].env /\ loc'[t].commit = loc[t].commit /\ loc'[t].status = loc[t].status
          /\ loc'[t].todo = loc[t].todo /\ loc'[t].op = loc[t].op
      BY <1>0, <3>1 DEF Set, Locals
    <3>3. Len(releases') \in DOMAIN releases' /\ releases'[Len(releases')].commit = loc[t].commit
      <4>1. /\ Len(releases') \in DOMAIN releases'
            /\ releases'[Len(releases')] = [commit |-> loc[t].commit, tag |-> loc[t].tag]
        BY <2>0, <3>1, AddGrows
      <4> QED BY <4>1
    <3> QED BY <1>0, <2>0, <3>2, <3>3 DEF TaskOk, RunOk, CommitOk, ReleaseOk, Grow
  <2> QED BY <2>1, <2>2
<1>5. CASE Resolve(t)
  <2>0. UNCHANGED <<runs, releases>> /\ pc[t] = "resolve"
    BY <1>5 DEF Resolve, remote
  <2>1. PICK r \in IF Named(loc[t].commit, loc[t].tag) = {} THEN {loc[t].release}
                   ELSE Named(loc[t].commit, loc[t].tag) :
          Finish(t) \/ (Set(t, [loc[t] EXCEPT !.release = r]) /\ Goto(t, "fetch"))
    BY <1>5 DEF Resolve
  <2>2. CASE Finish(t)
    BY <2>2, FinishOk
  <2>3. CASE Set(t, [loc[t] EXCEPT !.release = r]) /\ Goto(t, "fetch")
    <3>1. /\ pc'[t] = "fetch" /\ loc'[t].release = r /\ loc'[t].run = loc[t].run
          /\ loc'[t].env = loc[t].env /\ loc'[t].status = loc[t].status
          /\ loc'[t].todo = loc[t].todo /\ loc'[t].op = loc[t].op
      BY <1>0, <2>3 DEF Set, Goto, Locals
    <3>2. r # 0 => r \in DOMAIN releases /\ releases[r].commit = loc[t].commit
      BY <1>0, <2>0 DEF TaskOk, Named
    <3> QED BY <1>0, <2>0, <3>1, <3>2 DEF TaskOk, RunOk, CommitOk, ReleaseOk
  <2> QED BY <2>1, <2>2, <2>3
<1>6. CASE TriggerPromote(t)
  <2>1. CASE Finish(t)
    BY <2>1, FinishOk
  <2>2. CASE /\ Start(loc[t].env, loc[t].commit, loc[t].tag)
             /\ (\E run \in HandedBack : Set(t, [loc[t] EXCEPT !.run = run])) /\ Goto(t, "upsert")
    <3>0. PICK run \in HandedBack : Set(t, [loc[t] EXCEPT !.run = run])
      BY <2>2, Zenon
    <3>1. /\ pc'[t] = "upsert" /\ loc'[t].run = run
          /\ loc'[t].env = loc[t].env /\ loc'[t].commit = loc[t].commit /\ loc'[t].status = loc[t].status
          /\ loc'[t].todo = loc[t].todo /\ loc'[t].op = loc[t].op
      BY <1>0, <2>2, <3>0 DEF Set, Goto, Locals
    <3>2. /\ Len(runs') \in DOMAIN runs' /\ runs'[Len(runs')].env = loc[t].env
          /\ runs'[Len(runs')].asked = loc[t].commit
      BY <1>6, <2>2, StartGrows DEF TriggerPromote
    <3>3. loc[t].status = "in_progress" /\ releases' = releases
      BY <1>0, <1>6 DEF TaskOk, TriggerPromote
    <3> QED BY <1>0, <3>0, <3>1, <3>2, <3>3 DEF TaskOk, RunOk, CommitOk, ReleaseOk, Grow, Terminal, HandedBack
  <2> QED BY <1>6, <2>1, <2>2 DEF TriggerPromote
<1>7. CASE Lookup(t)
  <2>0. UNCHANGED <<runs, releases>> /\ pc[t] = "lookup"
    BY <1>7 DEF Lookup, remote
  <2>1. CASE Finish(t)
    BY <2>1, FinishOk
  <2>2. CASE Set(t, [loc[t] EXCEPT !.tag = NoTag]) /\ UNCHANGED pc
    <3>1. /\ pc'[t] = "lookup" /\ loc'[t].release = loc[t].release /\ loc'[t].run = loc[t].run
          /\ loc'[t].env = loc[t].env /\ loc'[t].commit = loc[t].commit /\ loc'[t].status = loc[t].status
          /\ loc'[t].todo = loc[t].todo /\ loc'[t].op = loc[t].op
      BY <1>0, <2>0, <2>2 DEF Set, Locals
    <3> QED BY <1>0, <2>0, <3>1 DEF TaskOk, RunOk, CommitOk, ReleaseOk
  <2>3. ASSUME NEW r \in Named(loc[t].commit, loc[t].tag),
               Set(t, [loc[t] EXCEPT !.release = r]), Goto(t, "fetch")
        PROVE  TaskOk(t)'
    <3>1. /\ pc'[t] = "fetch" /\ loc'[t].release = r /\ loc'[t].run = loc[t].run
          /\ loc'[t].env = loc[t].env /\ loc'[t].status = loc[t].status
          /\ loc'[t].todo = loc[t].todo /\ loc'[t].op = loc[t].op
      BY <1>0, <2>3 DEF Set, Goto, Locals
    <3>2. r \in DOMAIN releases /\ releases[r].commit = loc[t].commit
      BY DEF Named
    <3> QED BY <1>0, <2>0, <3>1, <3>2 DEF TaskOk, RunOk, CommitOk, ReleaseOk
  <2> QED BY <1>7, <2>1, <2>2, <2>3 DEF Lookup
<1>8. CASE ResyncItem(t)
  <2>0. UNCHANGED <<runs, releases>> /\ pc[t] = "item" /\ loc[t].op = "resync"
    BY <1>8 DEF ResyncItem, remote
  <2>1. PICK o \in loc[t].todo :
          \/ Set(t, [loc[t] EXCEPT !.todo = loc[t].todo \ {o}]) /\ UNCHANGED pc
          \/ /\ Goto(t, "upsert")
             /\ \E tag \in IF runs[o.run].tag # NoTag THEN {runs[o.run].tag}
                           ELSE IF TagsOf(runs[o.run].commit) # {} THEN TagsOf(runs[o.run].commit) ELSE {NoTag} :
                  Set(t, [loc[t] EXCEPT !.todo = loc[t].todo \ {o}, !.env = o.env,
                                     !.commit = runs[o.run].commit, !.tag = tag,
                                     !.run = o.run, !.status = o.status, !.at = o.at])
    BY <1>8 DEF ResyncItem
  <2>2. CASE Set(t, [loc[t] EXCEPT !.todo = loc[t].todo \ {o}]) /\ UNCHANGED pc
    <3>1. /\ pc'[t] = "item" /\ loc'[t].run = loc[t].run
          /\ loc'[t].env = loc[t].env /\ loc'[t].status = loc[t].status
          /\ loc'[t].todo = loc[t].todo \ {o} /\ loc'[t].op = loc[t].op
      BY <1>0, <2>0, <2>2 DEF Set, Locals
    <3> QED BY <1>0, <2>0, <3>1 DEF TaskOk, RunOk, ReleaseOk
  <2>3. ASSUME Goto(t, "upsert"), NEW tag,
               Set(t, [loc[t] EXCEPT !.todo = loc[t].todo \ {o}, !.env = o.env,
                                     !.commit = runs[o.run].commit, !.tag = tag,
                                     !.run = o.run, !.status = o.status, !.at = o.at])
        PROVE  TaskOk(t)'
    <3>1. /\ pc'[t] = "upsert" /\ loc'[t].run = o.run /\ loc'[t].commit = runs[o.run].commit
          /\ loc'[t].env = o.env /\ loc'[t].status = o.status
          /\ loc'[t].todo = loc[t].todo \ {o} /\ loc'[t].op = loc[t].op
      BY <1>0, <2>3 DEF Set, Goto, Locals
    <3> QED BY <1>0, <2>0, <3>1 DEF TaskOk, RunOk, CommitOk, ReleaseOk
  <2> QED BY <2>1, <2>2, <2>3
<1>9. CASE Ask(t)
  <2>0. UNCHANGED <<runs, releases>>
    BY <1>9 DEF Ask, remote
  <2>1. PICK asked \in SUBSET loc[t].todo :
          Set(t, [loc[t] EXCEPT !.todo =
                       {[h EXCEPT !.status = runs[h.run].status] :
                          h \in {g \in asked : runs[g.run].status \in Terminal}}])
    BY <1>9 DEF Ask
  <2>2. /\ pc'[t] = "item" /\ loc'[t].run = loc[t].run
        /\ loc'[t].env = loc[t].env /\ loc'[t].status = loc[t].status
        /\ loc'[t].todo = {[h EXCEPT !.status = runs[h.run].status] :
                              h \in {g \in asked : runs[g.run].status \in Terminal}}
        /\ loc'[t].op = loc[t].op
    BY <1>0, <1>9, <2>1 DEF Ask, Set, Goto, Locals
  <2>3. \A h \in loc[t].todo :
          LET g == [h EXCEPT !.status = runs[h.run].status]
          IN  /\ g.run = h.run /\ g.env = h.env /\ g.release = h.release
              /\ g.status = runs[h.run].status
    BY <1>0 DEF Locals, Observed
  <2>4. \A o \in loc'[t].todo :
          o.run # 0 /\ RunOk(o.run, o.env, o.status) /\ (loc[t].op = "train" => ReleaseOk(o.run, o.release))
    <3> SUFFICES ASSUME NEW h \in loc[t].todo, NEW g, g = [h EXCEPT !.status = runs[h.run].status]
                 PROVE  g.run # 0 /\ RunOk(g.run, g.env, g.status)
                        /\ (loc[t].op = "train" => ReleaseOk(g.run, g.release))
      BY <2>2
    <3>1. g.run = h.run /\ g.env = h.env /\ g.release = h.release /\ g.status = runs[h.run].status
      BY <2>3
    <3>2. h.run # 0 /\ RunOk(h.run, h.env, h.status) /\ (loc[t].op = "train" => ReleaseOk(h.run, h.release))
      BY <1>0 DEF TaskOk
    <3> QED BY <3>1, <3>2 DEF RunOk
  <2> QED BY <1>0, <2>0, <2>2, <2>4 DEF TaskOk, RunOk, ReleaseOk
<1>10. CASE TrainItem(t)
  <2>0. UNCHANGED <<runs, releases>> /\ loc[t].op = "train"
    BY <1>10 DEF TrainItem, remote
  <2>1. PICK h \in loc[t].todo :
          Set(t, [loc[t] EXCEPT !.todo = @ \ {h}, !.env = h.env, !.at = 0,
                                !.release = h.release, !.run = h.run, !.status = h.status])
    BY <1>10 DEF TrainItem
  <2>2. /\ pc'[t] = "fetch" /\ loc'[t].run = h.run /\ loc'[t].release = h.release
        /\ loc'[t].env = h.env /\ loc'[t].status = h.status
        /\ loc'[t].todo = loc[t].todo \ {h} /\ loc'[t].op = loc[t].op
    BY <1>0, <1>10, <2>1 DEF TrainItem, Set, Goto, Locals
  <2> QED BY <1>0, <2>0, <2>2 DEF TaskOk, RunOk, ReleaseOk
<1> QED BY <1>1, <1>2, <1>3, <1>4, <1>5, <1>6, <1>7, <1>8, <1>9, <1>10 DEF Goes

\* Together: every step keeps events and tasks right.
LEMMA GoesOk == ASSUME Types, Matched, NEW t \in Tasks, Goes(t) PROVE Matched'
<1>1. Grow /\ Alone(t)
  BY GoesGrow, Others
<1>2. TaskOk(t)' /\ EdgesOk'
  <2>1. CASE Fetch(t)
    <3>1. UNCHANGED edges
      BY <2>1 DEF Fetch
    <3> QED BY <1>1, <2>1, <3>1, FetchOk, SameEdges DEF Matched
  <2>2. CASE Store(t)
    BY <1>1, <2>2, StoreOk
  <2>3. CASE ~Fetch(t) /\ ~Store(t)
    <3>1. UNCHANGED edges
      BY <2>3 DEF Goes, Create, Retag, Upsert, Insert, Resolve, Point, TriggerPromote, TriggerFails,
         Lookup, ResyncItem, Ask, TrainItem, EndJob
    <3> QED BY <1>1, <2>3, <3>1, GoneOk, SameEdges DEF Matched
  <2> QED BY <2>1, <2>2, <2>3
<1> QED BY <1>1, <1>2, OthersOk DEF Matched

\* A fault only makes a task forget.
LEMMA FailsOk == ASSUME Types, Matched, NEW t \in Tasks, Crash(t) \/ QueryFails(t) PROVE Matched'
<1>1. Grow /\ Alone(t)
  BY FailsGrow, Others
<1>2. TaskOk(t)'
  BY <1>1, FinishOk, ReturnOk DEF Crash, QueryFails, Matched
<1>3. UNCHANGED edges
  BY DEF Crash, QueryFails
<1> QED BY <1>1, <1>2, <1>3, OthersOk, SameEdges DEF Matched

\* The remote never takes back what it said of a run.
LEMMA RemoteOk ==
  ASSUME Types, Matched,
         (\E n \in DOMAIN runs : RunFinishes(n)) \/ (\E e \in Envs : RemoteDeploys(e))
  PROVE  Matched'
<1>1. Grow
  BY RemoteGrows
<1>2. UNCHANGED <<edges, pc, loc>>
  BY DEF RunFinishes, RemoteDeploys
<1> QED BY <1>1, <1>2, StayOk, SameEdges DEF Matched

\* The invariant is inductive.
LEMMA MatchedStep == ASSUME Types, Matched, [Next]_vars PROVE Types' /\ Matched'
<1>1. ASSUME NEW t \in Tasks, Begins(t) \/ Observe(t) PROVE Types' /\ Matched'
  BY <1>1, BeginsTypes, BeginsOk
<1>2. ASSUME NEW t \in Tasks, Goes(t) PROVE Types' /\ Matched'
  <2>1. \A o \in loc[t].todo : o.run \in DOMAIN runs
    BY DEF Matched, TaskOk, RunOk
  <2> QED BY <1>2, <2>1, GoesTypes, GoesOk
<1>3. ASSUME NEW t \in Tasks, Crash(t) \/ QueryFails(t) PROVE Types' /\ Matched'
  BY <1>3, FailsTypes, FailsOk
<1>4. CASE (\E n \in DOMAIN runs : RunFinishes(n)) \/ (\E e \in Envs : RemoteDeploys(e))
  BY <1>4, RemoteTypes, RemoteOk
<1>5. CASE UNCHANGED vars
  <2>1. Types'
    BY <1>5 DEF vars, remote, Types, Seats
  <2>2. Grow /\ UNCHANGED <<edges, pc, loc>>
    BY <1>5 DEF vars, remote, Grow
  <2> QED BY <2>1, <2>2, StayOk, SameEdges DEF Matched
<1> QED BY <1>1, <1>2, <1>3, <1>4, <1>5 DEF Next

\* Nobody knows a run at first.
LEMMA MatchedInit == ASSUME Init PROVE Matched
BY DEF Init, Matched, EdgesOk, TaskOk, RunOk, CommitOk, ReleaseOk, NoLocals

\* Every reachable state is well typed.
THEOREM WellTyped == Spec => []Types
BY TypesInit, MatchedInit, MatchedStep, PTL DEF Spec

\* EventsMatchRuns: whatever is lost, late or raced, an event is on an edge of
\* the run's environment and commit, and tells its end rightly.
THEOREM EventsMatch == Spec => []EventsMatchRuns
<1>1. Matched => EventsMatchRuns
  BY DEF Matched, EdgesOk, RowsOk, RunOk, ReleaseOk, EventsMatchRuns
<1> QED BY <1>1, TypesInit, MatchedInit, MatchedStep, PTL DEF Spec

-----------------------------------------------------------------------------
\* A list with one row at most for a run.
Single(rows) == \A k, m \in DOMAIN rows : rows[k].run # 0 /\ rows[k].run = rows[m].run => k = m

\* The only row of a run is the one that is refreshed.
LEMMA RefreshedSingle ==
  ASSUME NEW seen \in Seq(Rows), NEW event, Single(seen)
  PROVE  Single(Refreshed(seen, event))
<1> HIDE DEF Rows
<1>1. CASE Hits(seen, event.run) = {}
  <2>1. Refreshed(seen, event) = Append(seen, event)
    BY <1>1 DEF Refreshed
  <2> QED BY <1>1, <2>1 DEF Hits, Single
<1>2. CASE Hits(seen, event.run) # {}
  <2>1. PICK i \in Hits(seen, event.run) : TRUE
    BY <1>2
  <2>2. \A j \in Hits(seen, event.run) : j = i
    BY <2>1 DEF Hits, Single
  <2>3. i \in DOMAIN seen /\ i \in Nat /\ event.run # 0
    BY <2>1 DEF Hits
  <2>4. LastHit(seen, event.run) = i
    BY <2>1, <2>2, <2>3 DEF LastHit
  <2>5. Refreshed(seen, event) = [seen EXCEPT ![i] = event]
    BY <1>2, <2>4 DEF Refreshed
  <2>6. \A j \in DOMAIN seen : seen[j].run = event.run => j = i
    BY <2>2, <2>3 DEF Hits
  <2> QED BY <2>3, <2>5, <2>6 DEF Single
<1> QED BY <1>1, <1>2

Listed == /\ \A i \in DOMAIN edges : Single(edges[i].events)
          /\ \A t \in Tasks : Single(loc[t].list)

\* A task that is done has no list.
LEMMA ReturnedList ==
  ASSUME Types, NEW t \in Tasks, Finish(t) \/ Return(t) PROVE loc'[t].list = <<>>
<1>0. DOMAIN loc = Tasks
  BY DEF Types, Seats
<1>1. CASE Finish(t)
  BY <1>0, <1>1 DEF Finish, Set, NoLocals
<1>2. CASE Set(t, [NoLocals EXCEPT !.op = loc[t].op, !.note = loc[t].note, !.todo = loc[t].todo])
  BY <1>0, <1>2 DEF Set, NoLocals
<1> QED BY <1>1, <1>2 DEF Return

\* Only Fetch makes up a list.
LEMMA ListKept ==
  ASSUME Types, NEW t \in Tasks,
         Begins(t) \/ Observe(t) \/ (Goes(t) /\ ~Fetch(t)) \/ Crash(t) \/ QueryFails(t)
  PROVE  loc'[t].list = <<>> \/ loc'[t].list = loc[t].list
<1>0. loc[t] \in Locals /\ DOMAIN pc = Tasks /\ DOMAIN loc = Tasks
  BY DEF Types, Seats
<1>1. CASE Finish(t) \/ Return(t)
  BY <1>1, ReturnedList
<1>2. CASE CheckNew(t) \/ CheckClash(t) \/ BeginPost(t)
  BY ZenonT(30), <1>0, <1>2 DEF CheckNew, CheckClash, BeginPost, Begin, Set, NoLocals
<1>3. CASE TriggerDeploy(t) \/ CutTag(t)
  <2>1. CASE TriggerDeploy(t)
    <3>1. PICK e \in Envs, commit \in Commits, tag \in DOMAIN tagAt \cup {NoTag}, run \in HandedBack :
            Begin(t, [NoLocals EXCEPT !.op = "deploy", !.env = e, !.commit = commit, !.tag = tag,
                                      !.run = run, !.note = "deploy"], "lookup")
      BY <2>1, Zenon DEF TriggerDeploy
    <3> QED BY <1>0, <3>1 DEF Begin, Set, NoLocals
  <2>2. CASE CutTag(t)
    BY <1>0, <2>2 DEF CutTag, Begin, Set, NoLocals
  <2> QED BY <1>3, <2>1, <2>2
<1>4. CASE Scan(t) \/ Observe(t)
  BY <1>0, <1>4 DEF Scan, Observe, Begin, Set, NoLocals
<1>5. CASE Upsert(t) \/ Insert(t) \/ Resolve(t)
  BY ZenonT(30), <1>0, <1>1, <1>5 DEF Upsert, Insert, Resolve, Set, Locals
<1>6. CASE Store(t) \/ TriggerPromote(t)
  BY <1>0, <1>1, <1>6 DEF Store, TriggerPromote, Set, Locals
<1>7. CASE Lookup(t) \/ TrainItem(t)
  BY <1>0, <1>1, <1>7 DEF Lookup, TrainItem, Set, Locals
<1>8. CASE ResyncItem(t)
  <2>1. PICK o \in loc[t].todo :
          \/ Set(t, [loc[t] EXCEPT !.todo = loc[t].todo \ {o}])
          \/ \E tag \in IF runs[o.run].tag # NoTag THEN {runs[o.run].tag}
                        ELSE IF TagsOf(runs[o.run].commit) # {} THEN TagsOf(runs[o.run].commit) ELSE {NoTag} :
               Set(t, [loc[t] EXCEPT !.todo = loc[t].todo \ {o}, !.env = o.env,
                                     !.commit = runs[o.run].commit, !.tag = tag,
                                     !.run = o.run, !.status = o.status, !.at = o.at])
    BY <1>8 DEF ResyncItem
  <2>2. CASE Set(t, [loc[t] EXCEPT !.todo = loc[t].todo \ {o}])
    BY <1>0, <2>2 DEF Set, Locals
  <2>3. ASSUME NEW tag, Set(t, [loc[t] EXCEPT !.todo = loc[t].todo \ {o}, !.env = o.env,
                                     !.commit = runs[o.run].commit, !.tag = tag,
                                     !.run = o.run, !.status = o.status, !.at = o.at])
        PROVE  loc'[t].list = loc[t].list
    BY <1>0, <2>3 DEF Set, Locals
  <2> QED BY <2>1, <2>2, <2>3
<1>9. CASE Ask(t)
  BY <1>0, <1>9 DEF Ask, Set, Locals
<1>10. CASE Create(t) \/ Retag(t) \/ Point(t) \/ TriggerFails(t) \/ EndJob(t) \/ Crash(t) \/ QueryFails(t)
  BY <1>1, <1>10 DEF Create, Retag, Point, TriggerFails, EndJob, Crash, QueryFails
<1> QED BY <1>2, <1>3, <1>4, <1>5, <1>6, <1>7, <1>8, <1>9, <1>10 DEF Begins, Goes

\* Fetch makes its list from one that has a row at most for a run.
LEMMA FetchLists == ASSUME Types, Listed, NEW t \in Tasks, Fetch(t) PROVE Single(loc'[t].list)
<1> DEFINE l == loc[t]
           time == IF l.at = 0 THEN clock + 1 ELSE l.at
           event == [at |-> time, status |-> l.status, run |-> l.run, note |-> l.note]
           found == {edges[i].events : i \in EdgesOf(l.release, l.env)}
<1>1. PICK seen \in IF found = {} THEN {<<>>} ELSE found :
        \/ Return(t)
        \/ Set(t, [l EXCEPT !.list = Refreshed(seen, event), !.fresh = (seen = <<>>), !.at = time])
  BY DEF Fetch
<1>2. seen \in Seq(Rows) /\ Single(seen)
  <2>1. \A i \in DOMAIN edges : edges[i].events \in Seq(Rows)
    <3>1. \A i \in DOMAIN edges : edges[i] \in Edges
      BY DEF Types
    <3> QED BY <3>1 DEF Edges
  <2>2. Single(<<>>)
    BY DEF Single
  <2> QED BY <2>1, <2>2, Empty DEF EdgesOf, Listed
<1>3. loc[t] \in Locals /\ DOMAIN loc = Tasks
  BY DEF Types, Seats
<1>4. Single(Refreshed(seen, event))
  BY <1>2, RefreshedSingle
<1>5. loc'[t].list = <<>> \/ loc'[t].list = Refreshed(seen, event)
  <2>1. CASE Return(t)
    BY <2>1, ReturnedList
  <2>2. CASE Set(t, [l EXCEPT !.list = Refreshed(seen, event), !.fresh = (seen = <<>>), !.at = time])
    <3> HIDE DEF time, event
    <3> QED BY <1>3, <2>2 DEF Set, Locals
  <2> QED BY <1>1, <2>1, <2>2
<1> QED BY <1>4, <1>5 DEF Single

\* Every step leaves lists of one row per run.
LEMMA ListedStep == ASSUME Types, Listed, [Next]_vars PROVE Listed'
<1>1. ASSUME NEW t \in Tasks,
             Begins(t) \/ Observe(t) \/ Goes(t) \/ Crash(t) \/ QueryFails(t)
      PROVE  Listed'
  <2>1. Single(loc'[t].list)
    <3>1. Single(<<>>)
      BY DEF Single
    <3> QED BY <1>1, <3>1, ListKept, FetchLists DEF Listed
  <2>2. \A u \in Tasks : Single(loc'[u].list)
    BY <1>1, <2>1, Others DEF Alone, Listed
  <2>3. \A i \in DOMAIN edges' : Single(edges'[i].events)
    <3>1. CASE Store(t)
      <4>1. \A i \in DOMAIN edges : edges[i] \in Edges
        BY DEF Types
      <4>2. CASE loc[t].fresh
        <5> DEFINE new == [release |-> loc[t].release, env |-> loc[t].env, events |-> loc[t].list]
        <5>1. edges' = Append(edges, new)
          BY <3>1, <4>2 DEF Store
        <5>2. Single(new.events)
          BY DEF Listed
        <5>3. edges \in Seq(Edges)
          BY DEF Types
        <5> HIDE DEF new, Edges
        <5> QED BY <5>1, <5>2, <5>3 DEF Listed
      <4>3. CASE ~loc[t].fresh
        <5>1. edges' = [i \in DOMAIN edges |-> IF i \in EdgesOf(loc[t].release, loc[t].env)
                                            THEN [edges[i] EXCEPT !.events = loc[t].list] ELSE edges[i]]
          BY <3>1, <4>3 DEF Store
        <5>2. \A i \in DOMAIN edges : [edges[i] EXCEPT !.events = loc[t].list].events = loc[t].list
          BY <4>1 DEF Edges
        <5> QED BY <5>1, <5>2 DEF Listed
      <4> QED BY <4>2, <4>3
    <3>2. CASE ~Store(t)
      <4>1. UNCHANGED edges
        BY <1>1, <3>2 DEF Begins, Goes, CheckNew, CheckClash, BeginPost, TriggerDeploy, CutTag, Scan,
           Observe, Create, Retag, Upsert, Insert, Resolve, Fetch, Point, TriggerPromote,
           TriggerFails, Lookup, ResyncItem, Ask, TrainItem, EndJob, Crash, QueryFails
      <4> QED BY <4>1 DEF Listed
    <3> QED BY <3>1, <3>2
  <2> QED BY <2>2, <2>3 DEF Listed, Single
<1>2. CASE UNCHANGED <<edges, loc>>
  BY <1>2 DEF Listed, Single
<1>3. CASE (\E n \in DOMAIN runs : RunFinishes(n)) \/ (\E e \in Envs : RemoteDeploys(e)) \/ UNCHANGED vars
  BY <1>2, <1>3 DEF RunFinishes, RemoteDeploys, vars
<1> QED BY <1>1, <1>3 DEF Next

\* Who writes an identity that somebody has by now is known to have raced.
Distinct == raced \/ \A r, s \in DOMAIN releases : releases[r] = releases[s] => r = s

\* A node is added or given a tag: if another bears the identity, it raced.
LEMMA AddDistinct ==
  ASSUME Types, Distinct, NEW commit, NEW tag, AddRelease(commit, tag), Races(Named(commit, tag)),
         UNCHANGED runs
  PROVE  Distinct'
<1>1. /\ releases'[Len(releases')] = [commit |-> commit, tag |-> tag]
      /\ \A r \in DOMAIN releases' : r \in DOMAIN releases \/ r = Len(releases')
      /\ \A r \in DOMAIN releases : releases'[r] = releases[r]
  BY AddGrows
<1>2. CASE \E r \in DOMAIN releases : releases[r] = [commit |-> commit, tag |-> tag]
  <2>1. Named(commit, tag) # {}
    BY <1>2 DEF Named
  <2> QED BY <2>1 DEF Races, Distinct
<1>3. CASE \A r \in DOMAIN releases : releases[r] # [commit |-> commit, tag |-> tag]
  BY <1>1, <1>3 DEF Races, Distinct
<1> QED BY <1>2, <1>3

\* So does a tag edited, to one no other node of the commit has.
LEMMA RetagDistinct ==
  ASSUME Types, Matched, Distinct, NEW t \in Tasks, Retag(t)
  PROVE  Distinct'
<1> DEFINE p == loc[t].release
           new == [releases[p] EXCEPT !.tag = loc[t].tag]
<1>1. p \in DOMAIN releases /\ releases[p].commit = loc[t].commit
  BY DEF Matched, TaskOk, Retag
<1>2. releases' = [releases EXCEPT ![p] = new]
  BY DEF Retag
<1>3. \A r \in DOMAIN releases : releases[r] \in Nodes
  BY DEF Types
<1>4. new.commit = loc[t].commit /\ new.tag = loc[t].tag
  BY <1>1, <1>3 DEF Nodes
<1>5. CASE \E r \in DOMAIN releases : r # p /\ releases[r] = new
  <2>1. Named(loc[t].commit, loc[t].tag) \ {p} # {}
    BY <1>4, <1>5 DEF Named
  <2> QED BY <2>1 DEF Retag, Races, Distinct
<1>6. CASE \A r \in DOMAIN releases : r # p => releases[r] # new
  <2> HIDE DEF new, p
  <2>1. raced => raced'
    BY DEF Retag, Races
  <2>2. \A r \in DOMAIN releases : releases'[r] = IF r = p THEN new ELSE releases[r]
    BY <1>2
  <2>3. DOMAIN releases' = DOMAIN releases
    BY <1>2
  <2> QED BY <1>1, <1>6, <2>1, <2>2, <2>3 DEF Distinct
<1> QED BY <1>5, <1>6

\* Every step keeps the nodes distinct.
LEMMA DistinctStep == ASSUME Types, Matched, Distinct, [Next]_vars PROVE Distinct'
<1>1. CASE UNCHANGED <<releases, raced>>
  BY <1>1 DEF Distinct
<1>2. ASSUME NEW t \in Tasks, Begins(t) \/ Observe(t) \/ Crash(t) \/ QueryFails(t) PROVE Distinct'
  BY <1>1, <1>2 DEF Begins, CheckNew, CheckClash, BeginPost, TriggerDeploy, CutTag, Scan, Observe,
     Crash, QueryFails, history
<1>3. ASSUME NEW t \in Tasks, Goes(t) PROVE Distinct'
  <2>1. CASE Create(t)
    BY <2>1, AddDistinct DEF Create, remote
  <2>2. CASE Insert(t)
    BY <1>1, <2>2, AddDistinct DEF Insert, remote
  <2>3. CASE Retag(t)
    BY <2>3, RetagDistinct
  <2>4. CASE ~Create(t) /\ ~Insert(t) /\ ~Retag(t)
    BY <1>1, <1>3, <2>4 DEF Goes, Upsert, Resolve, Fetch, Store, Point, TriggerPromote,
       TriggerFails, Lookup, ResyncItem, Ask, TrainItem, EndJob, history
  <2> QED BY <2>1, <2>2, <2>3, <2>4
<1>4. CASE (\E n \in DOMAIN runs : RunFinishes(n)) \/ (\E e \in Envs : RemoteDeploys(e)) \/ UNCHANGED vars
  BY <1>1, <1>4 DEF RunFinishes, RemoteDeploys, vars, history
<1> QED BY <1>2, <1>3, <1>4 DEF Next

\* NothingDoubled: no list has two rows of a run, though a list is read in one
\* query and replaced in another, and identities are unique unless raced.
THEOREM Undoubled == Spec => []NothingDoubled
<1>1. Init => Listed /\ Distinct
  BY DEF Init, Listed, Distinct, Single, NoLocals
<1>2. Listed /\ Distinct => NothingDoubled
  BY DEF Listed, Distinct, Single, NothingDoubled
<1> QED BY <1>1, <1>2, TypesInit, MatchedInit, MatchedStep, ListedStep, DistinctStep, PTL DEF Spec

-----------------------------------------------------------------------------
\* A success that t has stored and is about to point at.
Success(t) == [env |-> loc[t].env, release |-> loc[t].release, at |-> loc[t].at]

\* Every success is pointed at, overtaken, cut off, or still in somebody's hands.
Pointed ==
  /\ stored \subseteq [env : Envs, release : Nat, at : Nat]
  /\ \A e \in Envs : current[e].release # 0 =>
       [env |-> e, release |-> current[e].release, at |-> current[e].at] \in stored
  /\ \A s \in stored :
       s.at <= current[s.env].at \/ s \in cut \/ \E t \in Tasks : pc[t] = "point" /\ Success(t) = s
  /\ \A t \in Tasks : pc[t] = "point" => Success(t) \in stored

\* A step away from store and point leaves all of it.
LEMMA PointedKept ==
  ASSUME Pointed, UNCHANGED <<current, stored, cut>>, NEW t \in Tasks, Alone(t),
         pc[t] # "point", pc'[t] # "point"
  PROVE  Pointed'
BY DEF Pointed, Alone, Success

\* A task without a success in its hands adds nothing to prove.
LEMMA PassesBy ==
  ASSUME Types, NEW t \in Tasks, Begins(t) \/ Observe(t) \/ (Goes(t) /\ ~Store(t) /\ ~Point(t))
  PROVE  pc[t] # "point" /\ pc'[t] # "point" /\ UNCHANGED <<current, stored, cut>>
<1>0. DOMAIN pc = Tasks
  BY DEF Types, Seats
<1> USE DEF history, Goto, Finish, Return
<1>1. CASE Begins(t) \/ Observe(t)
  BY <1>0, <1>1 DEF Begins, Observe, CheckNew, CheckClash, BeginPost, TriggerDeploy, CutTag, Scan, Begin
<1>2. CASE Create(t) \/ Retag(t) \/ Upsert(t) \/ Insert(t) \/ Resolve(t)
  BY <1>0, <1>2 DEF Create, Retag, Upsert, Insert, Resolve
<1>3. CASE Fetch(t)
  BY <1>0, <1>3 DEF Fetch
<1>4. CASE TriggerPromote(t) \/ TriggerFails(t) \/ Lookup(t)
  BY <1>0, <1>4 DEF TriggerPromote, TriggerFails, Lookup
<1>5. CASE ResyncItem(t)
  BY <1>0, <1>5 DEF ResyncItem
<1>6. CASE Ask(t) \/ TrainItem(t) \/ EndJob(t)
  BY <1>0, <1>6 DEF Ask, TrainItem, EndJob
<1> QED BY <1>1, <1>2, <1>3, <1>4, <1>5, <1>6 DEF Goes

\* A task that leaves its operation leaves the pointer's step.
LEMMA Moves == ASSUME Types, NEW t \in Tasks, Finish(t) \/ Return(t) PROVE pc'[t] # "point"
BY DEF Types, Seats, Finish, Return, Goto

\* The invariant is inductive.
LEMMA PointedStep == ASSUME Types, Pointed, [Next]_vars PROVE Pointed'
<1>1. ASSUME NEW t \in Tasks, Begins(t) \/ Observe(t) \/ (Goes(t) /\ ~Store(t) /\ ~Point(t))
      PROVE  Pointed'
  BY <1>1, PassesBy, PointedKept, Others
<1>2. ASSUME NEW t \in Tasks, Store(t) PROVE Pointed'
  <2>1. Alone(t) /\ pc[t] = "store" /\ UNCHANGED <<current, cut>>
    BY <1>2, Others DEF Goes, Store
  <2>2. CASE loc[t].status # "success"
    BY <1>2, <2>1, <2>2, Moves, PointedKept DEF Store
  <2>3. CASE loc[t].status = "success"
    <3>1. /\ stored' = stored \cup {Success(t)} /\ pc'[t] = "point" /\ Success(t)' = Success(t)
      <4>1. loc[t] \in Locals /\ DOMAIN pc = Tasks /\ DOMAIN loc = Tasks
        BY DEF Types, Seats
      <4> QED BY <1>2, <2>3, <4>1 DEF Store, Goto, Set, Success, Locals
    <3>2. Success(t) \in [env : Envs, release : Nat, at : Nat]
      BY <1>2 DEF Types, Seats, Locals, Located, Store, Success
    <3>3. \A u \in Tasks \ {t} : pc'[u] = pc[u] /\ Success(u)' = Success(u)
      BY <2>1 DEF Alone, Success
    <3> QED BY <2>1, <3>1, <3>2, <3>3 DEF Pointed
  <2> QED BY <2>2, <2>3
<1>3. ASSUME NEW t \in Tasks, Point(t) PROVE Pointed'
  <2>1. Alone(t) /\ pc[t] = "point" /\ pc'[t] # "point" /\ UNCHANGED <<stored, cut>>
    BY <1>3, Others, Moves DEF Goes, Point, history
  <2>2. Success(t) \in stored /\ loc[t].env \in Envs /\ loc[t].at \in Nat
    BY <2>1 DEF Pointed, Types, Seats, Located, Locals
  <2>3. \A e \in Envs : current[e] \in [release : Nat, at : Nat] /\ current[e].at \in Nat
    BY DEF Types
  <2>4. /\ DOMAIN current' = Envs
        /\ \A e \in Envs : e # loc[t].env => current'[e] = current[e]
        /\ current'[loc[t].env] = IF current[loc[t].env].at < loc[t].at
                                    THEN [release |-> loc[t].release, at |-> loc[t].at]
                                    ELSE current[loc[t].env]
    BY <1>3, <2>2 DEF Point, Types
  <2>5. \A e \in Envs : current[e].at <= current'[e].at
    BY <2>2, <2>3, <2>4
  <2>6. loc[t].at <= current'[loc[t].env].at
    BY <2>2, <2>3, <2>4
  <2>7. \A e \in Envs : current'[e].release # 0 =>
          [env |-> e, release |-> current'[e].release, at |-> current'[e].at] \in stored
    BY <2>2, <2>4 DEF Pointed, Success
  <2>8. \A u \in Tasks \ {t} : pc'[u] = pc[u] /\ Success(u)' = Success(u)
    BY <2>1 DEF Alone, Success
  <2>9. ASSUME NEW s \in stored
        PROVE  \/ s.at <= current'[s.env].at \/ s \in cut
               \/ \E u \in Tasks : pc'[u] = "point" /\ Success(u)' = s
    <3>1. s.env \in Envs /\ s.at \in Nat /\ current'[s.env].at \in Nat
      BY <2>2, <2>3, <2>4 DEF Pointed
    <3>2. CASE Success(t) = s
      BY <2>6, <3>2 DEF Success
    <3>3. CASE s.at <= current[s.env].at
      BY <2>3, <2>5, <3>1, <3>3
    <3>4. CASE \E u \in Tasks \ {t} : pc[u] = "point" /\ Success(u) = s
      BY <2>8, <3>4
    <3> QED BY <3>2, <3>3, <3>4 DEF Pointed
  <2> QED BY <2>1, <2>7, <2>8, <2>9 DEF Pointed
<1>4. ASSUME NEW t \in Tasks, Crash(t) \/ QueryFails(t) PROVE Pointed'
  <2>1. Alone(t) /\ pc'[t] # "point" /\ UNCHANGED <<current, stored>>
    BY <1>4, Others, Moves DEF Crash, QueryFails
  <2>2. cut' = IF pc[t] = "point" THEN cut \cup {Success(t)} ELSE cut
    BY <1>4 DEF Crash, QueryFails, Cut, Success
  <2>3. \A u \in Tasks \ {t} : pc'[u] = pc[u] /\ Success(u)' = Success(u)
    BY <2>1 DEF Alone, Success
  <2> QED BY <2>1, <2>2, <2>3 DEF Pointed
<1>5. CASE (\E n \in DOMAIN runs : RunFinishes(n)) \/ (\E e \in Envs : RemoteDeploys(e)) \/ UNCHANGED vars
  <2>1. UNCHANGED <<current, stored, cut, pc, loc>>
    BY <1>5 DEF RunFinishes, RemoteDeploys, vars, history
  <2> QED BY <2>1 DEF Pointed, Success
<1> QED BY <1>1, <1>2, <1>3, <1>4, <1>5 DEF Next

\* PointerKeepsUp: whatever the order in which tasks store and point, an
\* environment's pointer names a stored success and no newer one is left behind
\* but by a failure between the two queries.
THEOREM KeepsUp == Spec => []PointerKeepsUp
<1>1. Init => Pointed
  BY DEF Init, Pointed
<1>2. Pointed => PointerKeepsUp
  BY DEF Pointed, PointerKeepsUp, Success
<1> QED BY <1>1, <1>2, TypesInit, MatchedInit, MatchedStep, PointedStep, PTL DEF Spec

-----------------------------------------------------------------------------
\* The commit of run n is known by several tags: its observation is given up.
Several(n) == runs[n].tag = NoTag /\ Cardinality(TagsOf(runs[n].commit)) > 1

\* Run n is recorded as the remote has it.
Recorded(n) ==
  \E i \in DOMAIN edges : \E k \in DOMAIN edges[i].events :
    /\ edges[i].events[k].run = n
    /\ edges[i].events[k].status = runs[n].status
    /\ edges[i].env = runs[n].env
    /\ releases[edges[i].release].commit = runs[n].commit

\* The resync of t has still to record run n, or is about to.
Recording == {"upsert", "insert", "resolve", "fetch", "store"}
Waits(t, n) == (\E o \in loc[t].todo : o.run = n) \/ (pc[t] \in Recording /\ loc[t].run = n)

\* What t observed is still so.
Observes(t) ==
  LET l == loc[t] IN
  /\ \A u \in Tasks \ {t} : pc[u] = "idle"
  /\ l.op = "resync" /\ pc[t] \in Recording \cup {"item", "point"}
  /\ \A o \in l.todo : o.run \in DOMAIN runs /\ o.env = runs[o.run].env /\ o.status = runs[o.run].status
  /\ pc[t] # "item" =>
       /\ l.run \in DOMAIN runs /\ l.env = runs[l.run].env
       /\ l.status = runs[l.run].status /\ l.commit = runs[l.run].commit
  /\ pc[t] = "insert" => l.fresh \/ Named(l.commit, l.tag) # {}
  /\ pc[t] = "resolve" => Named(l.commit, l.tag) # {}
  /\ pc[t] \in {"fetch", "store"} =>
       l.release \in DOMAIN releases /\ releases[l.release].commit = l.commit

\* The list t is about to store has the row of its run, and every row of the
\* lists it replaces.
Replaces(t) ==
  LET l == loc[t] IN
  /\ l.fresh \/ EdgesOf(l.release, l.env) # {}
  /\ \E k \in DOMAIN l.list : l.list[k].run = l.run /\ l.list[k].status = l.status
  /\ \A i \in EdgesOf(l.release, l.env) : \A k \in DOMAIN edges[i].events :
       edges[i].events[k].run = l.run \/ (k \in DOMAIN l.list /\ l.list[k] = edges[i].events[k])

Accounted(t) == \A n \in Recent(1) : Waits(t, n) \/ Several(n) \/ Recorded(n)
Repairs(t) == (pc[t] = "store" => Replaces(t)) /\ Accounted(t)
QuietInv == quiet \subseteq Tasks /\ \A t \in quiet : Observes(t) /\ (Parallel \/ Repairs(t))

\* Nodes are only added.
Added == \A r \in DOMAIN releases : r \in DOMAIN releases' /\ releases'[r] = releases[r]

\* A commit known by several tags stays so.
LEMMA SeveralKept ==
  ASSUME Types, Types', Added, UNCHANGED runs, NEW n, Several(n)
  PROVE  Several(n)'
<1> DEFINE c == runs[n].commit
<1>1. TagsOf(c) \subseteq TagsOf(c)'
  BY DEF Added, TagsOf
<1>2. IsFiniteSet(TagsOf(c)')
  <2>1. DOMAIN releases' = 1..Len(releases') /\ Len(releases') \in Nat
    BY DEF Types
  <2>2. IsFiniteSet(DOMAIN releases')
    BY <2>1, FS_Interval
  <2> DEFINE S == {releases'[r].tag : r \in DOMAIN releases'}
  <2>3. IsFiniteSet(S)
    <3> DEFINE f == [r \in DOMAIN releases' |-> releases'[r].tag]
    <3>1. f \in Surjection(DOMAIN releases', S)
      BY DEF Surjection
    <3> QED BY <2>2, <3>1, FS_Surjection
  <2>4. TagsOf(c)' \subseteq S
    BY DEF TagsOf
  <2> QED BY <2>3, <2>4, FS_Subset
<1>3. /\ Cardinality(TagsOf(c)) <= Cardinality(TagsOf(c)')
      /\ Cardinality(TagsOf(c)) \in Nat /\ Cardinality(TagsOf(c)') \in Nat
  BY <1>1, <1>2, FS_Subset, FS_CardinalityType
<1> QED BY <1>3 DEF Several

\* So does what is recorded, while the lists stay.
LEMMA RecordedKept ==
  ASSUME Types, Matched, Added, UNCHANGED <<runs, edges>>, NEW n \in DOMAIN runs, Recorded(n)
  PROVE  Recorded(n)'
<1>1. PICK i \in DOMAIN edges : \E k \in DOMAIN edges[i].events :
        /\ edges[i].events[k].run = n
        /\ edges[i].events[k].status = runs[n].status
        /\ edges[i].env = runs[n].env
        /\ releases[edges[i].release].commit = runs[n].commit
  BY DEF Recorded
<1>2. n # 0
  BY DEF Types
<1>3. edges[i].release \in DOMAIN releases
  BY <1>1, <1>2 DEF Matched, EdgesOk, RowsOk, ReleaseOk
<1> QED BY <1>1, <1>3 DEF Recorded, Added

\* While the remote and the lists stay, t has only to keep what it has to do.
LEMMA AccountedKept ==
  ASSUME Types, Types', Matched, Added, UNCHANGED <<runs, edges>>, NEW t, Accounted(t),
         \A n \in DOMAIN runs : Waits(t, n) => Waits(t, n)' \/ Several(n)' \/ Recorded(n)'
  PROVE  Accounted(t)'
<1>1. Recent(1)' = Recent(1) /\ Recent(1) \subseteq DOMAIN runs
  BY DEF Recent
<1> QED BY <1>1, SeveralKept, RecordedKept DEF Accounted

\* A resync that returns to its list is as far as it was.
LEMMA Returns ==
  ASSUME Types, NEW t \in Tasks, Observes(t), Alone(t), Return(t), UNCHANGED runs
  PROVE  Observes(t)' /\ pc'[t] = "item" /\ loc'[t].todo = loc[t].todo
<1>1. /\ pc' = [pc EXCEPT ![t] = "item"]
      /\ loc' = [loc EXCEPT ![t] = [NoLocals EXCEPT !.op = loc[t].op, !.note = loc[t].note,
                                                    !.todo = loc[t].todo]]
  BY DEF Observes, Return, Goto, Set
<1>2. DOMAIN pc = Tasks /\ DOMAIN loc = Tasks
  BY DEF Types, Seats
<1>3. pc'[t] = "item" /\ loc'[t].todo = loc[t].todo /\ loc'[t].op = "resync"
  BY <1>1, <1>2 DEF Observes, NoLocals
<1>4. \A u \in Tasks \ {t} : pc'[u] = "idle"
  BY DEF Alone, Observes
<1> QED BY <1>3, <1>4 DEF Observes, Recording

\* On its way to the list it has the same run to record.
LEMMA Proceeds ==
  ASSUME Types, Types', Matched, Added, UNCHANGED <<runs, edges>>, NEW t \in Tasks,
         Parallel \/ Accounted(t), loc'[t].todo = loc[t].todo, loc'[t].run = loc[t].run,
         pc'[t] \in Recording
  PROVE  Parallel' \/ Accounted(t)'
<1>1. Parallel' = Parallel
  BY DEF Parallel
<1>2. \A n \in DOMAIN runs : Waits(t, n) => Waits(t, n)'
  BY DEF Waits
<1> QED BY <1>1, <1>2, AccountedKept

\* The upsert ends with a release of the run's commit.
LEMMA UpsertQuiet ==
  ASSUME Types, Types', Matched, NEW t \in Tasks, Observes(t), Alone(t), Parallel \/ Repairs(t),
         Upsert(t) \/ Insert(t) \/ Resolve(t)
  PROVE  Observes(t)' /\ (Parallel' \/ Repairs(t)')
<1>0. loc[t] \in Locals /\ DOMAIN pc = Tasks /\ DOMAIN loc = Tasks /\ releases \in Seq(Nodes)
  BY DEF Types, Seats
<1>1. \A u \in Tasks \ {t} : pc'[u] = "idle"
  BY DEF Alone, Observes
<1>2. Parallel \/ Accounted(t)
  BY DEF Repairs
<1> DEFINE l == loc[t]
           m == loc'[t]
<1>3. CASE Upsert(t)
  <2>1. /\ pc'[t] = "insert" /\ UNCHANGED <<releases, runs, edges>>
        /\ m = [l EXCEPT !.fresh = (Named(l.commit, l.tag) = {}), !.release = 0]
    BY <1>0, <1>3 DEF Upsert, Goto, Set, remote
  <2>2. /\ m.op = l.op /\ m.env = l.env /\ m.run = l.run /\ m.commit = l.commit /\ m.tag = l.tag
        /\ m.status = l.status /\ m.todo = l.todo /\ m.fresh = (Named(l.commit, l.tag) = {})
    BY <1>0, <2>1 DEF Locals
  <2>3. Observes(t)'
    <3>1. m.fresh \/ Named(l.commit, l.tag)' # {}
      <4>1. {r \in DOMAIN releases' : releases'[r].commit = m.commit /\ releases'[r].tag = m.tag}
              = Named(l.commit, l.tag)
        BY <2>1, <2>2 DEF Named
      <4> QED BY <2>2, <4>1 DEF Named
    <3> QED BY <1>1, <1>3, <2>1, <2>2, <3>1 DEF Observes, Upsert, Recording
  <2>4. Added
    BY <2>1 DEF Added
  <2> QED BY <1>2, <2>1, <2>2, <2>3, <2>4, Proceeds DEF Repairs, Recording
<1>4. CASE Insert(t)
  <2>1. pc'[t] = "resolve" /\ UNCHANGED <<runs, edges>>
    BY <1>0, <1>4 DEF Insert, Goto, remote
  <2>2. /\ m.op = l.op /\ m.env = l.env /\ m.run = l.run /\ m.commit = l.commit /\ m.tag = l.tag
        /\ m.status = l.status /\ m.todo = l.todo
    <3>1. CASE l.fresh
      <4>1. m = [l EXCEPT !.release = Len(releases')]
        BY <1>0, <1>4, <3>1 DEF Insert, Set
      <4> QED BY <1>0, <4>1 DEF Locals
    <3>2. CASE ~l.fresh
      BY <1>4, <3>2 DEF Insert
    <3> QED BY <3>1, <3>2
  <2>3. Added /\ Named(l.commit, l.tag)' # {}
    <3>1. CASE l.fresh
      <4> DEFINE new == [commit |-> l.commit, tag |-> l.tag]
      <4>1. releases' = Append(releases, new)
        BY <1>4, <3>1 DEF Insert, AddRelease
      <4>2. new.commit = l.commit /\ new.tag = l.tag
        OBVIOUS
      <4> HIDE DEF new, Nodes
      <4>3. /\ Len(releases) + 1 \in DOMAIN releases' /\ releases'[Len(releases) + 1] = new
            /\ \A r \in DOMAIN releases : r \in DOMAIN releases' /\ releases'[r] = releases[r]
        BY <1>0, <4>1
      <4>4. Len(releases) + 1 \in {r \in DOMAIN releases' :
                                     releases'[r].commit = l.commit /\ releases'[r].tag = l.tag}
        BY <4>2, <4>3
      <4> QED BY <2>2, <4>3, <4>4 DEF Added, Named
    <3>2. CASE ~l.fresh
      <4>1. releases' = releases /\ loc' = loc
        BY <1>4, <3>2 DEF Insert
      <4>2. Named(l.commit, l.tag) # {}
        BY <1>4, <3>2 DEF Observes, Insert
      <4> QED BY <4>1, <4>2 DEF Added, Named
    <3> QED BY <3>1, <3>2
  <2>4. Observes(t)'
    BY <1>1, <1>4, <2>1, <2>2, <2>3 DEF Observes, Insert, Recording
  <2> QED BY <1>2, <2>1, <2>2, <2>3, <2>4, Proceeds DEF Repairs, Recording
<1>5. CASE Resolve(t)
  <2>0. l.op = "resync" /\ Named(l.commit, l.tag) # {}
    BY <1>5 DEF Observes, Resolve
  <2>1. PICK r \in Named(l.commit, l.tag) : Set(t, [l EXCEPT !.release = r]) /\ Goto(t, "fetch")
    BY <1>5, <2>0 DEF Resolve
  <2>2. pc'[t] = "fetch" /\ m = [l EXCEPT !.release = r] /\ UNCHANGED <<releases, runs, edges>>
    BY <1>0, <1>5, <2>1 DEF Resolve, Set, Goto, remote
  <2>3. /\ m.op = l.op /\ m.env = l.env /\ m.run = l.run /\ m.commit = l.commit /\ m.tag = l.tag
        /\ m.status = l.status /\ m.todo = l.todo /\ m.release = r
    BY <1>0, <2>2 DEF Locals
  <2>4. r \in DOMAIN releases /\ releases[r].commit = l.commit
    BY DEF Named
  <2>5. Observes(t)'
    BY <1>1, <1>5, <2>2, <2>3, <2>4 DEF Observes, Resolve, Recording
  <2>6. Added
    BY <2>2 DEF Added
  <2> QED BY <1>2, <2>2, <2>3, <2>5, <2>6, Proceeds DEF Repairs, Recording
<1> QED BY <1>3, <1>4, <1>5

\* An observation is given up only when the commit has several tags.
LEMMA ItemQuiet ==
  ASSUME Types, Types', Matched, NEW t \in Tasks, Observes(t), Alone(t), Parallel \/ Repairs(t),
         ResyncItem(t)
  PROVE  Observes(t)' /\ (Parallel' \/ Repairs(t)')
<1>0. loc[t] \in Locals /\ DOMAIN pc = Tasks /\ DOMAIN loc = Tasks
  BY DEF Types, Seats
<1>1. (\A u \in Tasks \ {t} : pc'[u] = "idle") /\ UNCHANGED <<releases, runs, edges>>
  BY DEF Alone, Observes, ResyncItem, remote
<1>2. Added /\ Parallel' = Parallel /\ (Parallel \/ Accounted(t))
  BY <1>1 DEF Added, Parallel, Repairs
<1> DEFINE l == loc[t]
           m == loc'[t]
<1>3. PICK o \in l.todo :
        \/ /\ Several(o.run) /\ pc' = pc /\ Set(t, [l EXCEPT !.todo = l.todo \ {o}])
        \/ /\ Goto(t, "upsert")
           /\ \E tag : Set(t, [l EXCEPT !.todo = l.todo \ {o}, !.env = o.env,
                                        !.commit = runs[o.run].commit, !.tag = tag,
                                        !.run = o.run, !.status = o.status, !.at = o.at])
  BY DEF ResyncItem, Several
<1>4. o.run \in DOMAIN runs /\ o.env = runs[o.run].env /\ o.status = runs[o.run].status /\ pc[t] = "item"
  BY DEF Observes, ResyncItem
<1>5. CASE Several(o.run) /\ pc' = pc /\ Set(t, [l EXCEPT !.todo = l.todo \ {o}])
  <2>1. m = [l EXCEPT !.todo = l.todo \ {o}] /\ pc'[t] = "item"
    BY <1>0, <1>4, <1>5 DEF Set
  <2>2. m.op = l.op /\ m.todo = l.todo \ {o}
    BY <1>0, <2>1 DEF Locals
  <2>3. Observes(t)'
    BY <1>1, <2>1, <2>2 DEF Observes
  <2>4. Several(o.run)'
    BY <1>1, <1>2, <1>5, SeveralKept
  <2>5. \A n \in DOMAIN runs : Waits(t, n) => Waits(t, n)' \/ n = o.run
    BY <1>4, <2>2 DEF Waits, Recording
  <2>6. Parallel' \/ Accounted(t)'
    BY <1>1, <1>2, <2>4, <2>5, AccountedKept
  <2> QED BY <2>1, <2>3, <2>6 DEF Repairs
<1>6. CASE /\ Goto(t, "upsert")
           /\ \E tag : Set(t, [l EXCEPT !.todo = l.todo \ {o}, !.env = o.env,
                                        !.commit = runs[o.run].commit, !.tag = tag,
                                        !.run = o.run, !.status = o.status, !.at = o.at])
  <2>1. PICK tag : m = [l EXCEPT !.todo = l.todo \ {o}, !.env = o.env, !.commit = runs[o.run].commit,
                                 !.tag = tag, !.run = o.run, !.status = o.status, !.at = o.at]
    BY <1>0, <1>6 DEF Set
  <2>2. /\ m.op = l.op /\ m.todo = l.todo \ {o} /\ m.env = o.env /\ m.run = o.run
        /\ m.commit = runs[o.run].commit /\ m.status = o.status /\ pc'[t] = "upsert"
    BY <1>0, <1>6, <2>1 DEF Locals, Goto
  <2>3. Observes(t)'
    BY <1>1, <1>4, <2>2 DEF Observes, Recording
  <2>4. \A n \in DOMAIN runs : Waits(t, n) => Waits(t, n)'
    BY <1>4, <2>2 DEF Waits, Recording
  <2>5. Parallel' \/ Accounted(t)'
    BY <1>1, <1>2, <2>4, AccountedKept
  <2> QED BY <2>2, <2>3, <2>5 DEF Repairs
<1> QED BY <1>3, <1>5, <1>6

\* A refreshed list has the event, and the rows of the other runs.
LEMMA RefreshedHas ==
  ASSUME NEW seen \in Seq(Rows), NEW event, Single(seen)
  PROVE  /\ \E k \in DOMAIN Refreshed(seen, event) : Refreshed(seen, event)[k] = event
         /\ \A k \in DOMAIN seen :
              \/ seen[k].run = event.run
              \/ k \in DOMAIN Refreshed(seen, event) /\ Refreshed(seen, event)[k] = seen[k]
<1> HIDE DEF Rows
<1>1. CASE Hits(seen, event.run) = {}
  <2>1. Refreshed(seen, event) = Append(seen, event)
    BY <1>1 DEF Refreshed
  <2>2. Len(seen) + 1 \in DOMAIN Append(seen, event) /\ Append(seen, event)[Len(seen) + 1] = event
    OBVIOUS
  <2>3. \A k \in DOMAIN seen : k \in DOMAIN Append(seen, event) /\ Append(seen, event)[k] = seen[k]
    OBVIOUS
  <2> QED BY <2>1, <2>2, <2>3
<1>2. CASE Hits(seen, event.run) # {}
  <2>1. PICK i \in Hits(seen, event.run) : TRUE
    BY <1>2
  <2>2. i \in DOMAIN seen /\ i \in Nat /\ seen[i].run = event.run /\ \A j \in Hits(seen, event.run) : j = i
    BY <2>1 DEF Hits, Single
  <2>3. LastHit(seen, event.run) = i
    BY <2>1, <2>2 DEF LastHit
  <2>4. Refreshed(seen, event) = [seen EXCEPT ![i] = event]
    BY <1>2, <2>3 DEF Refreshed
  <2> QED BY <2>2, <2>4
<1> QED BY <1>1, <1>2

\* What is found identical is recorded; what is not will be, in a list that
\* keeps the rows of the others.
LEMMA FetchQuiet ==
  ASSUME Types, Types', Matched, Listed, NEW t \in Tasks, Observes(t), Alone(t),
         Parallel \/ Repairs(t), Fetch(t)
  PROVE  Observes(t)' /\ (Parallel' \/ Repairs(t)')
<1> DEFINE l == loc[t]
           m == loc'[t]
           time == IF l.at = 0 THEN clock + 1 ELSE l.at
           event == [at |-> time, status |-> l.status, run |-> l.run, note |-> l.note]
           found == {edges[i].events : i \in EdgesOf(l.release, l.env)}
<1>0. loc[t] \in Locals /\ DOMAIN pc = Tasks /\ DOMAIN loc = Tasks
  BY DEF Types, Seats
<1>1. /\ \A u \in Tasks \ {t} : pc'[u] = "idle"
      /\ UNCHANGED <<releases, runs, edges>> /\ pc[t] = "fetch"
  BY DEF Alone, Observes, Fetch, remote
<1>2. Added /\ Parallel' = Parallel /\ (Parallel \/ Accounted(t))
  BY <1>1 DEF Added, Parallel, Repairs
<1>3. /\ l.run \in DOMAIN runs /\ l.run # 0 /\ l.env = runs[l.run].env
      /\ l.status = runs[l.run].status /\ l.commit = runs[l.run].commit
      /\ l.release \in DOMAIN releases /\ l.release # 0 /\ releases[l.release].commit = l.commit
  BY <1>1 DEF Observes, Types
<1>4. PICK seen \in IF found = {} THEN {<<>>} ELSE found :
        \/ Identical(seen, event) /\ Return(t)
        \/ /\ Set(t, [l EXCEPT !.list = Refreshed(seen, event), !.fresh = (seen = <<>>), !.at = time])
           /\ Goto(t, "store")
  BY <1>3 DEF Fetch
<1>5. CASE Identical(seen, event) /\ Return(t)
  <2>1. Observes(t)' /\ pc'[t] = "item" /\ loc'[t].todo = l.todo
    BY <1>1, <1>5, Returns
  <2>2. Hits(seen, l.run) # {} /\ \E k \in DOMAIN seen : seen[k].run = l.run /\ seen[k].status = l.status
    <3>1. seen \in Seq(Rows) /\ Single(seen)
      <4>1. \A i \in DOMAIN edges : edges[i] \in Edges
        BY DEF Types
      <4>2. \A i \in DOMAIN edges : edges[i].events \in Seq(Rows) /\ Single(edges[i].events)
        BY <4>1 DEF Edges, Listed
      <4>3. Single(<<>>)
        BY DEF Single
      <4> QED BY <4>2, <4>3, Empty DEF EdgesOf
    <3>2. Hits(seen, l.run) # {} /\ seen[LastHit(seen, l.run)].status = l.status
      BY <1>5 DEF Identical
    <3>3. PICK i \in Hits(seen, l.run) : TRUE
      BY <3>2
    <3>4. i \in DOMAIN seen /\ seen[i].run = l.run /\ \A j \in Hits(seen, l.run) : j = i
      BY <3>1, <3>3 DEF Hits, Single
    <3>5. i \in Nat
      BY <3>1, <3>4
    <3>6. LastHit(seen, l.run) = i
      BY <3>3, <3>4, <3>5 DEF LastHit
    <3> QED BY <3>2, <3>4, <3>6
  <2>3. PICK i \in EdgesOf(l.release, l.env) : seen = edges[i].events
    BY <2>2 DEF Hits
  <2>4. Recorded(l.run)
    BY <1>3, <2>2, <2>3 DEF Recorded, EdgesOf
  <2>6. \A n \in DOMAIN runs : Waits(t, n) => Waits(t, n)' \/ Recorded(n)'
    BY <1>1, <1>2, <1>3, <2>1, <2>4, RecordedKept DEF Waits
  <2>7. Parallel' \/ Accounted(t)'
    BY <1>1, <1>2, <2>6, AccountedKept
  <2> QED BY <2>1, <2>7 DEF Repairs
<1>6. CASE /\ Set(t, [l EXCEPT !.list = Refreshed(seen, event), !.fresh = (seen = <<>>), !.at = time])
           /\ Goto(t, "store")
  <2>1. /\ pc'[t] = "store"
        /\ m = [l EXCEPT !.list = Refreshed(seen, event), !.fresh = (seen = <<>>), !.at = time]
    BY <1>0, <1>6 DEF Set, Goto
  <2>2. /\ m.op = l.op /\ m.env = l.env /\ m.run = l.run /\ m.commit = l.commit /\ m.status = l.status
        /\ m.todo = l.todo /\ m.release = l.release /\ m.fresh = (seen = <<>>)
        /\ m.list = Refreshed(seen, event)
    BY <1>0, <2>1 DEF Locals
  <2>3. Observes(t)'
    BY <1>1, <1>3, <2>1, <2>2 DEF Observes, Recording
  <2>4. Parallel' \/ Accounted(t)'
    BY <1>1, <1>2, <2>1, <2>2, Proceeds DEF Recording
  <2>5. ASSUME ~Parallel PROVE Replaces(t)'
    <3>1. \A i \in DOMAIN edges : edges[i].events \in Seq(Rows) /\ Single(edges[i].events)
      <4>1. \A i \in DOMAIN edges : edges[i] \in Edges
        BY DEF Types
      <4> QED BY <4>1 DEF Edges, Listed
    <3>2. seen \in Seq(Rows) /\ Single(seen)
      <4>1. Single(<<>>)
        BY DEF Single
      <4> QED BY <3>1, <4>1, Empty DEF EdgesOf
    <3>3. \A i \in EdgesOf(l.release, l.env) : edges[i].events = seen
      BY <2>5 DEF EdgesOf, Parallel
    <3>4. m.fresh \/ EdgesOf(l.release, l.env) # {}
      BY <2>2
    <3>5. event.run = l.run /\ event.status = l.status
      OBVIOUS
    <3> HIDE DEF event
    <3>6. /\ \E k \in DOMAIN m.list : m.list[k].run = l.run /\ m.list[k].status = l.status
          /\ \A k \in DOMAIN seen : seen[k].run = l.run \/ (k \in DOMAIN m.list /\ m.list[k] = seen[k])
      BY SMTT(30), <2>2, <3>2, <3>5, RefreshedHas
    <3> QED BY <1>1, <2>2, <3>3, <3>4, <3>6 DEF Replaces, EdgesOf
  <2> QED BY <1>2, <2>3, <2>4, <2>5 DEF Repairs
<1> QED BY <1>4, <1>5, <1>6

\* What is stored is the row of the run, and the rows that were there.
LEMMA StoreQuiet ==
  ASSUME Types, Types', Matched, NEW t \in Tasks, Observes(t), Alone(t),
         Parallel \/ Repairs(t), Store(t)
  PROVE  Observes(t)' /\ (Parallel' \/ Repairs(t)')
<1> DEFINE l == loc[t]
           new == [release |-> l.release, env |-> l.env, events |-> l.list]
<1>0. loc[t] \in Locals /\ DOMAIN pc = Tasks /\ DOMAIN loc = Tasks /\ edges \in Seq(Edges)
  BY DEF Types, Seats
<1>1. (\A u \in Tasks \ {t} : pc'[u] = "idle") /\ UNCHANGED <<releases, runs>> /\ pc[t] = "store"
  BY DEF Alone, Observes, Store, remote
<1>2. /\ l.run \in DOMAIN runs /\ l.env = runs[l.run].env
      /\ l.status = runs[l.run].status /\ l.commit = runs[l.run].commit
      /\ l.release \in DOMAIN releases /\ releases[l.release].commit = l.commit
  BY <1>1 DEF Observes
<1>3. /\ Observes(t)' /\ pc'[t] # "store" /\ loc'[t].todo = l.todo
  <2>1. CASE Return(t)
    BY <1>1, <2>1, Returns
  <2>2. CASE Goto(t, "point") /\ Set(t, [l EXCEPT !.list = <<>>])
    <3>1. pc'[t] = "point" /\ loc'[t] = [l EXCEPT !.list = <<>>]
      BY <1>0, <2>2 DEF Goto, Set
    <3>2. /\ loc'[t].op = l.op /\ loc'[t].env = l.env /\ loc'[t].run = l.run
          /\ loc'[t].commit = l.commit /\ loc'[t].status = l.status /\ loc'[t].todo = l.todo
      BY <1>0, <3>1 DEF Locals
    <3> QED BY <1>1, <1>2, <3>1, <3>2 DEF Observes, Recording
  <2> QED BY <2>1, <2>2 DEF Store
<1>4. /\ l.fresh => edges' = Append(edges, new)
      /\ ~l.fresh => edges' = [i \in DOMAIN edges |-> IF i \in EdgesOf(l.release, l.env)
                                                       THEN [edges[i] EXCEPT !.events = l.list]
                                                       ELSE edges[i]]
  BY DEF Store
<1>5. \A i \in DOMAIN edges :
        /\ i \in DOMAIN edges' /\ edges'[i].release = edges[i].release /\ edges'[i].env = edges[i].env
        /\ \/ edges'[i] = edges[i]
           \/ i \in EdgesOf(l.release, l.env) /\ edges'[i].events = l.list
  <2>1. CASE l.fresh
    <3> HIDE DEF new, Edges
    <3> QED BY <1>0, <1>4, <2>1
  <2>2. CASE ~l.fresh
    <3>1. \A i \in DOMAIN edges :
            LET e == [edges[i] EXCEPT !.events = l.list]
            IN  e.events = l.list /\ e.env = edges[i].env /\ e.release = edges[i].release
      <4>1. \A i \in DOMAIN edges : edges[i] \in Edges
        BY <1>0
      <4> QED BY <4>1 DEF Edges
    <3> QED BY <1>4, <2>2, <3>1
  <2> QED BY <2>1, <2>2
<1>6. Parallel => Parallel'
  BY <1>5 DEF Parallel
<1>7. ASSUME Repairs(t), NEW n \in Recent(1), Recorded(n) PROVE Recorded(n)'
  <2>0. PICK i \in DOMAIN edges :
          /\ edges[i].env = runs[n].env
          /\ releases[edges[i].release].commit = runs[n].commit
          /\ \E k \in DOMAIN edges[i].events :
               edges[i].events[k].run = n /\ edges[i].events[k].status = runs[n].status
    BY <1>7 DEF Recorded
  <2>1. PICK k \in DOMAIN edges[i].events :
          edges[i].events[k].run = n /\ edges[i].events[k].status = runs[n].status
    BY <2>0
  <2>2. CASE edges'[i] = edges[i]
    BY <1>1, <1>5, <2>0, <2>1, <2>2 DEF Recorded
  <2>3. CASE i \in EdgesOf(l.release, l.env) /\ edges'[i].events = l.list
    <3>1. CASE n = l.run
      <4>1. PICK j \in DOMAIN l.list : l.list[j].run = l.run /\ l.list[j].status = l.status
        BY <1>1, <1>7 DEF Repairs, Replaces
      <4> QED BY <1>1, <1>2, <1>5, <2>0, <2>3, <3>1, <4>1 DEF Recorded
    <3>2. CASE n # l.run
      <4>1. k \in DOMAIN l.list /\ l.list[k] = edges[i].events[k]
        BY <1>1, <1>7, <2>1, <2>3, <3>2 DEF Repairs, Replaces
      <4> QED BY <1>1, <1>5, <2>0, <2>1, <2>3, <4>1 DEF Recorded
    <3> QED BY <3>1, <3>2
  <2> QED BY <1>5, <2>0, <2>2, <2>3
<1>8. ASSUME Repairs(t), NEW n, n = l.run PROVE Recorded(n)'
  <2>1. PICK j \in DOMAIN l.list : l.list[j].run = l.run /\ l.list[j].status = l.status
    BY <1>1, <1>8 DEF Repairs, Replaces
  <2>2. CASE l.fresh
    <3>1. new.release = l.release /\ new.env = l.env /\ new.events = l.list
      OBVIOUS
    <3> HIDE DEF new, Edges
    <3>2. Len(edges) + 1 \in DOMAIN edges' /\ edges'[Len(edges) + 1] = new
      BY <1>0, <1>4, <2>2
    <3> QED BY <1>1, <1>2, <1>8, <2>1, <3>1, <3>2 DEF Recorded
  <2>3. CASE ~l.fresh
    <3>1. PICK i \in EdgesOf(l.release, l.env) : TRUE
      BY <1>1, <1>8, <2>3 DEF Repairs, Replaces
    <3>2. i \in DOMAIN edges /\ edges[i].release = l.release /\ edges[i].env = l.env
      BY <3>1 DEF EdgesOf
    <3>3. edges'[i].events = l.list
      <4>1. edges[i] \in Edges
        BY <1>0, <3>2
      <4> QED BY <1>4, <2>3, <3>1, <3>2, <4>1 DEF Edges
    <3> QED BY <1>1, <1>2, <1>5, <1>8, <2>1, <3>2, <3>3 DEF Recorded
  <2> QED BY <2>2, <2>3
<1>9. ASSUME Repairs(t) PROVE Accounted(t)'
  <2>1. Recent(1)' = Recent(1) /\ Recent(1) \subseteq DOMAIN runs
    BY <1>1 DEF Recent
  <2>2. Added
    BY <1>1 DEF Added
  <2>3. \A n \in Recent(1) : Several(n) => Several(n)'
    BY <1>1, <2>2, SeveralKept
  <2>4. \A n \in Recent(1) : Waits(t, n) => Waits(t, n)' \/ n = l.run
    BY <1>3 DEF Waits
  <2>5. \A n \in Recent(1) : Waits(t, n) \/ Several(n) \/ Recorded(n)
    BY <1>9 DEF Repairs, Accounted
  <2>6. \A n \in Recent(1) : Waits(t, n)' \/ Several(n)' \/ Recorded(n)'
    BY <1>7, <1>8, <1>9, <2>3, <2>4, <2>5
  <2> QED BY <2>1, <2>6 DEF Accounted
<1> QED BY <1>3, <1>6, <1>9 DEF Repairs

\* Every step of a quiet resync: it stays on what it observed.
LEMMA GoesQuiet ==
  ASSUME Types, Types', Matched, Listed, NEW t \in Tasks, Observes(t), Alone(t),
         Parallel \/ Repairs(t), Goes(t), pc'[t] # "idle"
  PROVE  Observes(t)' /\ (Parallel' \/ Repairs(t)')
<1>1. CASE Upsert(t) \/ Insert(t) \/ Resolve(t)
  BY <1>1, UpsertQuiet
<1>2. CASE Fetch(t)
  BY <1>2, FetchQuiet
<1>3. CASE Store(t)
  BY <1>3, StoreQuiet
<1>4. CASE ResyncItem(t)
  BY <1>4, ItemQuiet
<1>5. CASE Point(t)
  <2>1. UNCHANGED <<releases, runs, edges>> /\ pc[t] = "point" /\ Return(t)
    BY <1>5 DEF Point, remote
  <2>2. Observes(t)' /\ pc'[t] = "item" /\ loc'[t].todo = loc[t].todo
    BY <2>1, Returns
  <2>3. Added /\ Parallel' = Parallel
    BY <2>1 DEF Added, Parallel
  <2>4. \A n \in DOMAIN runs : Waits(t, n) => Waits(t, n)'
    BY <2>1, <2>2 DEF Waits, Recording
  <2>5. Parallel' \/ Accounted(t)'
    BY <2>1, <2>3, <2>4, AccountedKept DEF Repairs
  <2> QED BY <2>2, <2>5 DEF Repairs
<1>6. CASE EndJob(t)
  <2>1. DOMAIN pc = Tasks
    BY DEF Types, Seats
  <2> QED BY <1>6, <2>1 DEF EndJob, Finish, Goto
<1>7. CASE Create(t) \/ Retag(t) \/ TriggerPromote(t) \/ TriggerFails(t) \/ Lookup(t) \/ Ask(t) \/ TrainItem(t)
  BY <1>7 DEF Observes, Recording, Create, Retag, TriggerPromote, TriggerFails, Lookup, Ask, TrainItem
<1> QED BY <1>1, <1>2, <1>3, <1>4, <1>5, <1>6, <1>7 DEF Goes

\* A resync that begins has all it observed still to record.
LEMMA ObserveQuiet ==
  ASSUME Types, NEW t \in Tasks, Observe(t), Alone(t), \A u \in Tasks \ {t} : pc[u] = "idle"
  PROVE  Observes(t)' /\ Repairs(t)'
<1>0. DOMAIN pc = Tasks /\ DOMAIN loc = Tasks
  BY DEF Types, Seats
<1>1. PICK limit \in 1..MaxRuns :
        Begin(t, [NoLocals EXCEPT
                    !.op = "resync", !.note = "resync",
                    !.todo = {[run |-> n, release |-> 0, env |-> runs[n].env,
                               status |-> runs[n].status, at |-> runs[n].at] : n \in Recent(limit)}],
              "item")
  BY DEF Observe
<1>2. /\ pc'[t] = "item" /\ loc'[t].op = "resync"
      /\ loc'[t].todo = {[run |-> n, release |-> 0, env |-> runs[n].env,
                          status |-> runs[n].status, at |-> runs[n].at] : n \in Recent(limit)}
  BY <1>0, <1>1 DEF Begin, Goto, Set, NoLocals
<1>3. runs' = runs
  BY DEF Observe, remote
<1>4. Recent(1)' = Recent(1) /\ Recent(limit) \subseteq DOMAIN runs
  BY <1>3 DEF Recent
<1>5. Recent(1) \subseteq Recent(limit)
  <2>1. IsFiniteSet(DOMAIN runs)
    <3>1. DOMAIN runs = 1..Len(runs) /\ Len(runs) \in Nat
      BY DEF Types
    <3> QED BY <3>1, FS_Interval
  <2> SUFFICES ASSUME NEW n \in Recent(1) PROVE n \in Recent(limit)
    OBVIOUS
  <2> DEFINE later == {k \in DOMAIN runs : k > n /\ runs[k].env = runs[n].env}
  <2>2. Cardinality(later) \in Nat
    BY <2>1, FS_Subset, FS_CardinalityType
  <2>3. n \in DOMAIN runs /\ Cardinality(later) < 1
    BY DEF Recent
  <2>4. Cardinality(later) < limit
    BY <2>2, <2>3, ConstantsAssumption
  <2> QED BY <2>3, <2>4 DEF Recent
<1>6. Observes(t)'
  BY <1>2, <1>3, <1>4 DEF Alone, Observes
<1>7. ASSUME NEW n \in Recent(1) PROVE Waits(t, n)'
  <2> DEFINE o == [run |-> n, release |-> 0, env |-> runs[n].env, status |-> runs[n].status,
                   at |-> runs[n].at]
  <2>1. o \in loc'[t].todo /\ o.run = n
    BY <1>2, <1>5
  <2> QED BY <2>1 DEF Waits
<1> QED BY <1>2, <1>4, <1>6, <1>7 DEF Repairs, Accounted

\* The invariant is inductive.
LEMMA QuietStep == ASSUME Types, Matched, Listed, QuietInv, [Next]_vars PROVE QuietInv'
<1>0. Types'
  BY MatchedStep
<1>1. CASE quiet' = {}
  BY <1>1 DEF QuietInv
<1>2. ASSUME NEW t \in Tasks, Observe(t),
             quiet' = IF \A u \in Tasks \ {t} : pc[u] = "idle" THEN {t} ELSE {}
      PROVE  QuietInv'
  <2>1. Alone(t)
    BY <1>2, Others
  <2>2. CASE \A u \in Tasks \ {t} : pc[u] = "idle"
    <3>1. Observes(t)' /\ Repairs(t)' /\ quiet' = {t}
      BY <1>2, <2>1, <2>2, ObserveQuiet
    <3> QED BY <3>1 DEF QuietInv
  <2> QED BY <1>1, <1>2, <2>2
<1>3. ASSUME NEW t \in Tasks, Goes(t), quiet' = IF pc'[t] = "idle" THEN {} ELSE quiet \cap {t}
      PROVE  QuietInv'
  <2>1. Alone(t)
    BY <1>3, Others
  <2>2. CASE t \in quiet /\ pc'[t] # "idle"
    <3>1. Observes(t)' /\ (Parallel' \/ Repairs(t)')
      BY <1>0, <1>3, <2>1, <2>2, GoesQuiet DEF QuietInv
    <3>2. quiet' = {t}
      BY <1>3, <2>2
    <3> QED BY <3>1, <3>2 DEF QuietInv
  <2>3. CASE ~(t \in quiet /\ pc'[t] # "idle")
    <3>1. quiet' = {}
      BY <1>3, <2>3
    <3> QED BY <1>1, <3>1
  <2> QED BY <2>2, <2>3
<1>4. CASE UNCHANGED vars
  <2>1. UNCHANGED <<releases, edges, runs, pc, loc, quiet>>
    BY <1>4 DEF vars, remote
  <2>2. Recent(1)' = Recent(1) /\ Parallel' = Parallel
    BY <2>1 DEF Recent, Parallel
  <2>3. \A n : Several(n)' = Several(n) /\ Recorded(n)' = Recorded(n)
    BY <2>1 DEF Several, Recorded, TagsOf
  <2>4. \A t \in Tasks : Observes(t)' = Observes(t)
    BY <2>1 DEF Observes, Named
  <2>5. \A t \in Tasks : Replaces(t)' = Replaces(t)
    BY <2>1 DEF Replaces, EdgesOf
  <2>6. \A t \in Tasks : \A n : Waits(t, n)' = Waits(t, n)
    BY <2>1 DEF Waits
  <2>7. \A t \in Tasks : Repairs(t)' = Repairs(t)
    BY <2>1, <2>2, <2>3, <2>5, <2>6 DEF Repairs, Accounted
  <2> QED BY <2>1, <2>2, <2>4, <2>7 DEF QuietInv
<1> QED BY <1>1, <1>2, <1>3, <1>4 DEF Next

\* ResyncRepairs: a resync that ran alone leaves the most recent run of every
\* environment recorded as the remote has it, unless its commit has several tags.
THEOREM Repaired == Spec => []ResyncRepairs
<1>1. Init => QuietInv /\ Listed
  BY DEF Init, QuietInv, Listed, Single, NoLocals
<1>2. QuietInv => ResyncRepairs
  BY DEF QuietInv, ResyncRepairs, Repairs, Accounted, Waits, Several, Recorded, Recording
<1> QED BY <1>1, <1>2, TypesInit, MatchedInit, MatchedStep, ListedStep, QuietStep, PTL DEF Spec
=============================================================================
