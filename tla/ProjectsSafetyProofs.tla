------------------------ MODULE ProjectsSafetyProofs ------------------------
(***************************************************************************)
(* More proofs about Projects, from the types and the moves that           *)
(* ProjectsProofs establishes: who is bound and who is rescored, the login *)
(* provider and its cache, and the repositories at the remote.             *)
(***************************************************************************)
EXTENDS ProjectsProofs

-----------------------------------------------------------------------------
(* What makes the properties inductive.                                    *)

\* An integration that was bound to the project when the edges were read, and
\* has not been touched since, is found by each of the later reads.
FoundSoFar(l, i) ==
  /\ igr.on /\ i \in Enabled
  /\ l.at = "life.integrations" \/ l.at = "life.assigned" => i \in l.edges \/ i \notin Assigned
  /\ l.at = "life.assigned" => i \in l.enabled
  /\ l.at = "life.enabled" => i \in l.bound
BoundInv ==
  /\ igrLog.missed = {}
  /\ \A q \in Slots : req[q].at \in ResolvedLabels =>
       \A i \in req[q].had : <<q, i>> \notin igrLog.torn => FoundSoFar(req[q], i)

\* One login provider, none but the one a call between its statements sets.
Providers == {i \in Integrations : igr.node[i].login}
ProviderInv ==
  ~igrLog.raced =>
    /\ \A i, j \in Providers : i = j
    /\ \A q \in Slots : req[q].at = "login.set" /\ req[q].on => Providers \subseteq {req[q].i}

\* What is cached or about to be was read before its integration ceased to be
\* a login provider.
CacheInv ==
  /\ igrLog.overdue = {}
  /\ \A i \in Integrations : igrLog.badSince[i] <= login.now /\ (LoginApp(i) => Here(i))
  /\ \A e \in login.cache : e.at <= login.now /\ (LoginApp(e.i) \/ e.at <= igrLog.badSince[e.i])
  /\ \A q \in Slots : req[q].at \in AppLabels =>
       /\ req[q].now <= login.now
       /\ req[q].at = "app.store" => LoginApp(req[q].i) \/ req[q].now <= igrLog.badSince[req[q].i]

\* The request is still to have o[1] rescored on account of o[2].
Rescores(l, o) ==
  \/ l.at = "project.rescore" /\ l.p = o[2] /\ (o[1] = o[2] \/ (prj.policies /\ o \in prj.dep))
  \/ l.at = "project.dependents" /\ l.p = o[2] /\ o \in prj.dep
  \/ l.at = "project.requeue" /\ l.p = o[2] /\ o[1] \in l.deps
  \/ l.at = "rel.policies" /\ l.p = o[1] /\ prj.policies
  \/ l.at = "rel.queue" /\ l.p = o[1]
RescoreLabels == {"project.rescore", "project.dependents", "project.requeue"} \cup RelationLabels
\* Who waits for a score and is not left unscored.
Due == prjLog.owed \ prjLog.unscored
RescoreInv ==
  /\ \A o \in Due : \E q \in Slots : Rescores(req[q], o)
  /\ ~prj.policies => \A o \in Due : o[1] = o[2]
  /\ \A q \in Slots : req[q].at \in {"project.dependents", "project.requeue"} => prj.policies

\* A project that is being created is not born yet, and nobody else's.
CreatesInv == \A q \in Slots : req[q].at \in CreateLabels =>
  /\ req[q].p \notin prjLog.born
  /\ \A o \in Slots : o # q /\ req[o].at \in CreateLabels => req[o].p # req[q].p

\* The numbers of writes, and what there is of projects not yet born.
CountsInv ==
  /\ \A p \in prjLog.born : prjLog.n[p] >= 1
  /\ \A p \in Projects \ prjLog.born :
       /\ ~Node(p).there /\ prjLog.n[p] = 0
       /\ \A i \in Integrations : ~repo[p][i].there /\ prjLog.heard[p][i] = 0
  /\ \A p \in Projects, i \in Integrations : prjLog.heard[p][i] <= prjLog.n[p]
  /\ \A p \in prjLog.asked : p \in prjLog.born /\ ~Node(p).there

\* What is brought was written; a creation by the first write, a deletion by a
\* later one.
Numbered(l, i) == Coming(l, i) # {} =>
  /\ l.n <= prjLog.n[l.p]
  /\ "created" \in Coming(l, i) => l.p \in prjLog.born /\ l.n = 1
  /\ "deleted" \in Coming(l, i) => l.p \in prjLog.asked /\ l.n >= 2

\* Who deletes a project found it, and calls every integration that is to hear.
DeletesOK(l) ==
  /\ l.at \in {"life.bundle", "project.delete"} \cup ResolveLabels /\ l.deleting => l.p \in prjLog.born
  /\ l.at = "project.delete" /\ l.deleting =>
       ~Node(l.p).there \/ \A i \in Integrations \ l.rest : <<l.p, i>> \in prjLog.apart

NumbersInv ==
  /\ CreatesInv /\ CountsInv
  /\ \A q \in Slots : DeletesOK(req[q]) /\ \A i \in Integrations : Numbered(req[q], i)

\* The attributes of a repository that follow the project, the events that set
\* them, and what they are to be.
Attributes == {"archived", "slug", "loc"}
Setters(a) == CASE a = "archived" -> {"created", "archived", "unarchived"}
                [] a = "slug" -> {"created", "updated"}
                [] a = "loc" -> {"created", "relocated"}
Right(p, i, a) == CASE a = "archived" -> repo[p][i].archived = Node(p).archived
                    [] a = "slug" -> repo[p][i].slug = Node(p).slug
                    [] a = "loc" -> repo[p][i].loc = prjLog.loc[p]

\* The request carries what the attribute is to be, as far as it has it yet.
SlugRead(l, i) == /\ l.at \in {"life.bundle"} \cup CallLabels /\ i \in l.rest
                  /\ l.todo[1] \in Setters("slug") /\ "slug" \in DOMAIN l.bundle
Apt(l, i, a) ==
  CASE a = "archived" -> \A e \in Coming(l, i) \cap Setters(a) : (e = "archived") = Node(l.p).archived
    [] a = "slug" -> SlugRead(l, i) => l.bundle["slug"] = Node(l.p).slug
    [] a = "loc" -> Coming(l, i) \cap Setters(a) # {} => l.types = prjLog.loc[l.p]

Brings(q, p, i) == Coming(req[q], i) # {} /\ req[q].p = p

\* A call is still to come that sets the attribute on account of write m; one
\* that will be overtaken by a call for a later write.
Pending(p, i, a, m) ==
  \E q \in Slots : Brings(q, p, i) /\ req[q].n = m /\ Coming(req[q], i) \cap Setters(a) # {}
Doomed(p, i) == \E q \in Slots : Brings(q, p, i) /\ req[q].n < prjLog.heard[p][i]

\* Write m was the last that touched the attribute: whoever comes on account of
\* it or of a later one brings the right value, and until somebody has, the
\* call for m is pending.
Follows(p, i, a, m) ==
  /\ \A q \in Slots : Brings(q, p, i) /\ req[q].n >= m => Apt(req[q], i, a)
  /\ prjLog.heard[p][i] < m => Pending(p, i, a, m)
  /\ Right(p, i, a) \/ Doomed(p, i) \/ Pending(p, i, a, m)

\* What is said of the repository of p at i.
Settled(p, i) ==
  /\ Node(p).there => \A a \in Attributes : \E m \in 1..prjLog.n[p] : Follows(p, i, a, m)
  /\ p \notin prjLog.asked =>
       repo[p][i].there \/ \E q \in Slots : Brings(q, p, i) /\ "created" \in Coming(req[q], i)
  /\ p \in prjLog.asked =>
       \/ \E q \in Slots : Brings(q, p, i) /\ "deleted" \in Coming(req[q], i)
       \/ ~repo[p][i].there /\ prjLog.heard[p][i] >= 2
RepoInv == \A p \in prjLog.born, i \in Integrations : <<p, i>> \notin prjLog.apart => Settled(p, i)

-----------------------------------------------------------------------------
(* Who is bound.                                                           *)

\* What decides whether i is bound does not change behind the back of a request
\* that resolves: it is noted.
Unturned(i) == igr'.on = igr.on /\ (i \in Enabled' <=> i \in Enabled) /\ (i \in Assigned' <=> i \in Assigned)

LEMMA TornCovers ==
    ASSUME TypeInv, [Next]_projectVars, NEW o \in Slots, req[o].at \in ResolvedLabels, req'[o] = req[o],
           NEW i \in Integrations, <<o, i>> \notin igrLog'.torn
    PROVE  <<o, i>> \notin igrLog.torn /\ Unturned(i)
<1>0. /\ igr \in IgrRecord /\ igrLog \in IgrLogRecord /\ o \in Resolving
  BY DEF TypeInv, IgrInv, Resolving, ResolvedLabels
<1>a. ASSUME igr'.on = igr.on, igr'.typed = igr.typed,
             igr'.node[i].there = igr.node[i].there, igr'.node[i].caps = igr.node[i].caps
      PROVE  Unturned(i)
  BY <1>a DEF Unturned, Enabled, Assigned, Here
<1>b. ASSUME NEW S, igrLog'.torn = igrLog.torn \cup (Resolving \X S)
      PROVE  <<o, i>> \notin igrLog.torn /\ i \notin S
  BY <1>0, <1>b
<1>1. CASE UNCHANGED <<igr, login, igrLog>>
  BY <1>1, <1>a
<1>2. CASE LoginTick
  BY <1>2, <1>a DEF LoginTick
<1>3. ASSUME NEW q \in Slots, IgrTouched(q)
      PROVE  <<o, i>> \notin igrLog.torn /\ Unturned(i)
  <2>1. igr'.node = igr.node /\ igr'.on = igr.on
    BY <1>3, IgrTouchedFrame
  <2>2. CASE DeleteProjectType(q)
    <3>1. PICK t \in igr.type :
            /\ igr' = [igr EXCEPT !.type = @ \ {t}, !.typed = {e \in @ : e[1] # t}]
            /\ igrLog' = Tear(igrLog, {e[2] : e \in {x \in igr.typed : x[1] = t}})
      BY <2>2 DEF DeleteProjectType
    <3> DEFINE S == {e[2] : e \in {x \in igr.typed : x[1] = t}}
    <3>2. S \in SUBSET Integrations
      BY <1>0 DEF IgrRecord
    <3>3. igrLog'.torn = igrLog.torn \cup (Resolving \X S)
      BY <3>1, <3>2, TearTypes DEF TypeInv
    <3>4. <<o, i>> \notin igrLog.torn /\ i \notin S
      BY <1>b, <3>3
    <3>5. igr'.typed = {e \in igr.typed : e[1] # t}
      BY <1>0, <3>1 DEF IgrRecord
    <3>6. i \in Assigned' <=> i \in Assigned
      BY <3>4, <3>5 DEF Assigned
    <3> QED BY <2>1, <3>4, <3>6 DEF Unturned, Enabled, Here
  <2>3. CASE ResolveEdges(q)
    <3>1. req[q].at = "life.edges" /\ UNCHANGED igr
          /\ (igrLog' = igrLog \/ igrLog' = [igrLog EXCEPT !.torn = {x \in @ : x[1] # q}])
      BY <2>3, EdgesLand
    <3>2. o # q
      BY <3>1 DEF ResolvedLabels
    <3>3. <<o, i>> \notin igrLog.torn
      BY <1>0, <3>1, <3>2 DEF IgrLogRecord
    <3> QED BY <1>a, <3>1, <3>3
  <2>4. CASE ResolveEnabled(q)
    <3>1. UNCHANGED igr /\ \E S : igrLog' = [igrLog EXCEPT !.missed = S]
      BY <1>0, <2>4, EnabledLand DEF IgrLogRecord
    <3> QED BY <1>0, <1>a, <3>1 DEF IgrLogRecord
  <2>5. CASE WriteService(q) \/ DeleteProjectNode(q) \/ CreateProjectService(q) \/ DeleteProjectService(q) \/ ReplaceAssignments(q)
    <3>1. igrLog' = igrLog /\ igr'.typed = igr.typed
      <4>1. CASE WriteService(q)
        BY <1>0, <4>1 DEF WriteService, IgrRecord
      <4>2. CASE DeleteProjectNode(q)
        <5>1. UNCHANGED igrLog /\ (UNCHANGED igr \/ \E O, X : igr' = [igr EXCEPT !.owned = O, !.exists = X])
          <6> DEFINE O == {e \in igr.owned : e[1] # req[q].p}
                     X == {e \in igr.exists : e[1] # req[q].p}
          <6>1. UNCHANGED igrLog /\ (UNCHANGED igr \/ igr' = [igr EXCEPT !.owned = O, !.exists = X])
            BY <4>2, <1>0, DeleteDoes
          <6> QED BY <6>1
        <5> QED BY <1>0, <5>1 DEF IgrRecord
      <4>3. CASE CreateProjectService(q)
        BY <1>0, <4>3 DEF CreateProjectService, IgrRecord
      <4>4. CASE DeleteProjectService(q)
        BY <1>0, <4>4 DEF DeleteProjectService, IgrRecord
      <4>5. CASE ReplaceAssignments(q)
        <5>1. UNCHANGED igrLog /\ (UNCHANGED igr \/ \E O : igr' = [igr EXCEPT !.owned = O])
          BY <4>5, <1>0 DEF ReplaceAssignments, IgrRecord
        <5> QED BY <1>0, <5>1 DEF IgrRecord
      <4> QED BY <2>5, <4>1, <4>2, <4>3, <4>4, <4>5
    <3> QED BY <1>a, <2>1, <3>1
  <2> QED BY <1>3, <2>2, <2>3, <2>4, <2>5 DEF IgrTouched
<1>4. ASSUME NEW q \in Slots, IgrSaved(q)
      PROVE  <<o, i>> \notin igrLog.torn /\ Unturned(i)
  <2> DEFINE l == req[q]
  <2>1. CASE CreateIntegration(q) \/ UpdateIntegrationSave(q) \/ DeleteIntegration(q)
    <3>1. UNCHANGED <<igr, login, igrLog>> \/ \E j, node :
            /\ igrLog'.torn = igrLog.torn \cup (Resolving \X {j}) /\ igr'.on = igr.on
            /\ igr'.node = [igr.node EXCEPT ![j] = node]
            /\ i # j => (i \in Assigned' <=> i \in Assigned)
      <4>1. CASE CreateIntegration(q)
        <5>1. PICK j \in Integrations, caps \in SUBSET Kinds :
                /\ IgrBecomes([igr.node EXCEPT ![j] = Installed(caps)], igr.typed, igr.on)
                /\ igrLog'.torn = igrLog.torn \cup (Resolving \X {j})
          BY <4>1, IntegrationCreated DEF IgrNoted
        <5>2. Assigned' = Assigned
          BY <5>1 DEF IgrBecomes, Assigned
        <5> QED BY <5>1, <5>2 DEF IgrBecomes
      <4>2. CASE UpdateIntegrationSave(q)
        <5>1. ASSUME ~UNCHANGED <<igr, login, igrLog>>
              PROVE  \E node : /\ IgrBecomes([igr.node EXCEPT ![l.i] = node], igr.typed, igr.on)
                               /\ igrLog'.torn = igrLog.torn \cup (Resolving \X {l.i})
          <6>1. PICK k \in Kinds, on \in BOOLEAN :
                   /\ IgrBecomes([igr.node EXCEPT ![l.i] = [@ EXCEPT !.caps = Toggled(l.read, k, on)]], igr.typed, igr.on)
                   /\ igrLog'.torn = igrLog.torn \cup (Resolving \X {l.i})
            BY <4>2, <5>1, IntegrationUpdated DEF IgrNoted
          <6> DEFINE node == [igr.node[l.i] EXCEPT !.caps = Toggled(l.read, k, on)]
          <6>2. [igr.node EXCEPT ![l.i] = [@ EXCEPT !.caps = Toggled(l.read, k, on)]] = [igr.node EXCEPT ![l.i] = node]
            OBVIOUS
          <6> HIDE DEF node
          <6> QED BY <6>1, <6>2
        <5>2. igr'.typed = igr.typed => Assigned' = Assigned
          BY DEF Assigned
        <5> QED BY <5>1, <5>2 DEF IgrBecomes
      <4>3. CASE DeleteIntegration(q)
        <5>1. PICK j \in Integrations :
                /\ IgrBecomes([igr.node EXCEPT ![j] = NoIntegration], {e \in igr.typed : e[2] # j}, igr.on)
                /\ igrLog'.torn = igrLog.torn \cup (Resolving \X {j})
          BY <4>3, IntegrationDeleted DEF IgrNoted
        <5>2. i # j => (i \in Assigned' <=> i \in Assigned)
          BY <5>1 DEF IgrBecomes, Assigned
        <5> QED BY <5>1, <5>2 DEF IgrBecomes
      <4> QED BY <2>1, <4>1, <4>2, <4>3
    <3>2. CASE UNCHANGED <<igr, login, igrLog>>
      BY <1>a, <3>2
    <3>3. ASSUME NEW j, NEW node,
                 igrLog'.torn = igrLog.torn \cup (Resolving \X {j}), igr'.on = igr.on,
                 igr'.node = [igr.node EXCEPT ![j] = node],
                 i # j => (i \in Assigned' <=> i \in Assigned)
          PROVE  <<o, i>> \notin igrLog.torn /\ Unturned(i)
      <4>1. <<o, i>> \notin igrLog.torn /\ i # j
        BY <1>b, <3>3
      <4>2. igr'.node[i] = igr.node[i]
        BY <1>0, <3>3, <4>1 DEF IgrRecord
      <4> QED BY <3>3, <4>1, <4>2 DEF Unturned, Enabled, Here
    <3> QED BY <3>1, <3>2, <3>3
  <2>2. CASE ClearLogin(q)
    <3>1. /\ IgrBecomes([j \in Integrations |-> [igr.node[j] EXCEPT !.login = IF j = l.i THEN @ ELSE FALSE]],
                        igr.typed, igr.on)
          /\ igrLog'.torn = igrLog.torn \cup (Resolving \X {})
      BY <2>2, LoginCleared DEF IgrNoted
    <3>2. igr'.node[i] = [igr.node[i] EXCEPT !.login = IF i = l.i THEN @ ELSE FALSE] /\ igr.node[i] \in IntegrationRecord
      BY <1>0, <3>1 DEF IgrBecomes, IgrRecord
    <3>3. igr'.node[i].there = igr.node[i].there /\ igr'.node[i].caps = igr.node[i].caps
      BY <3>2 DEF IntegrationRecord
    <3> QED BY <1>a, <1>b, <3>1, <3>3 DEF IgrBecomes
  <2>3. CASE WriteLogin(q)
    <3> DEFINE v == Here(l.i) /\ l.on
    <3>1. /\ IgrBecomes([igr.node EXCEPT ![l.i] = [@ EXCEPT !.login = v]], igr.typed, igr.on)
          /\ igrLog'.torn = igrLog.torn \cup (Resolving \X {})
      BY <2>3, LoginWritten DEF IgrNoted
    <3> HIDE DEF v
    <3>2. igr'.node[i] \in {igr.node[i], [igr.node[i] EXCEPT !.login = v]} /\ igr.node[i] \in IntegrationRecord
      BY <1>0, <3>1 DEF IgrBecomes, IgrRecord
    <3>3. igr'.node[i].there = igr.node[i].there /\ igr'.node[i].caps = igr.node[i].caps
      BY <3>2 DEF IntegrationRecord
    <3> QED BY <1>a, <1>b, <3>1, <3>3 DEF IgrBecomes
  <2>4. CASE WriteTypeAssignments(q)
    <3>1. /\ igr'.node = igr.node /\ igr'.on = igr.on
          /\ {e \in igr'.typed : e[2] # l.i} = {e \in igr.typed : e[2] # l.i}
          /\ igrLog'.torn = igrLog.torn \cup (Resolving \X {l.i})
      BY <2>4, Assigned_ DEF IgrNoted
    <3>2. <<o, i>> \notin igrLog.torn /\ i # l.i
      BY <1>b, <3>1
    <3>3. i \in Assigned' <=> i \in Assigned
      <4>1. \A e : e[2] = i => (e \in igr'.typed <=> e \in igr.typed)
        BY <3>1, <3>2
      <4> QED BY <4>1 DEF Assigned
    <3> QED BY <3>1, <3>2, <3>3 DEF Unturned, Enabled, Here
  <2>5. CASE UpdatePluginRegistration(q)
    <3>1. igrLog'.torn = igrLog.torn \cup (Resolving \X Integrations)
      BY <2>5, PluginRegistered DEF IgrNoted
    <3> QED BY <1>b, <3>1
  <2>6. CASE SaveCredentials(q)
    <3>1. CASE UNCHANGED <<igr, login, igrLog>>
      BY <1>a, <3>1
    <3>2. CASE ~UNCHANGED <<igr, login, igrLog>>
      <4> DEFINE v == Toggled(l.read, l.f, l.on)
      <4>1. /\ IgrBecomes([igr.node EXCEPT ![l.i] = [@ EXCEPT !.creds = v]], igr.typed, igr.on)
            /\ igrLog'.torn = igrLog.torn \cup (Resolving \X {})
        BY <2>6, <3>2, CredentialsSaved DEF IgrNoted
      <4> HIDE DEF v
      <4>2. igr'.node[i] \in {igr.node[i], [igr.node[i] EXCEPT !.creds = v]} /\ igr.node[i] \in IntegrationRecord
        BY <1>0, <4>1 DEF IgrBecomes, IgrRecord
      <4>3. igr'.node[i].there = igr.node[i].there /\ igr'.node[i].caps = igr.node[i].caps
        BY <4>2 DEF IntegrationRecord
      <4> QED BY <1>a, <1>b, <4>1, <4>3 DEF IgrBecomes
    <3> QED BY <3>1, <3>2
  <2>7. CASE GetLoginApp(q) \/ StoreLoginApp(q)
    <3>1. UNCHANGED igr /\ (igrLog' = igrLog \/ \E S : igrLog' = [igrLog EXCEPT !.overdue = S])
      BY <1>0, <2>7 DEF GetLoginApp, StoreLoginApp, LookI, Served, IgrLogRecord
    <3> QED BY <1>0, <1>a, <3>1 DEF IgrLogRecord
  <2> QED BY <1>4, <2>1, <2>2, <2>3, <2>4, <2>5, <2>6, <2>7 DEF IgrSaved
<1> QED BY <1>1, <1>2, <1>3, <1>4, IgrMoves

LEMMA BoundStep ==
    ASSUME TypeInv, BoundInv, [Next]_projectVars
    PROVE  BoundInv'
<1>0. igr \in IgrRecord /\ igrLog \in IgrLogRecord /\ \A q \in Slots : LocalsOK(req[q])
  BY DEF TypeInv, IgrInv, PoolInv
<1>1. igrLog'.missed = {}
  <2>1. ASSUME NEW q \in Slots, IgrTouched(q)
        PROVE  igrLog'.missed = {}
    <3>1. CASE ResolveEnabled(q)
      <4> DEFINE l == req[q]
                 found == IF igr.on THEN l.bound ELSE {}
                 S == {i \in (l.had \cap Effective(l.p)) \ found : <<q, i>> \notin igrLog.torn}
      <4>1. l.at = "life.enabled" /\ igrLog' = [igrLog EXCEPT !.missed = @ \cup S]
        BY <3>1, EnabledLand
      <4>2. \A i \in l.had : <<q, i>> \notin igrLog.torn => igr.on /\ i \in l.bound
        BY <4>1 DEF BoundInv, FoundSoFar, ResolvedLabels
      <4>3. S = {}
        BY <4>2
      <4> HIDE DEF S
      <4> QED BY <1>0, <4>1, <4>3 DEF BoundInv, IgrLogRecord
    <3>2. CASE ResolveEdges(q)
      <4>1. igrLog' = igrLog \/ igrLog' = [igrLog EXCEPT !.torn = {x \in @ : x[1] # q}]
        BY <3>2, EdgesLand
      <4> QED BY <1>0, <4>1 DEF BoundInv, IgrLogRecord
    <3>3. CASE WriteService(q) \/ DeleteProjectNode(q) \/ CreateProjectService(q) \/ DeleteProjectService(q) \/ ReplaceAssignments(q)
      <4>1. UNCHANGED igrLog
        <5>1. CASE DeleteProjectNode(q)
          BY <5>1, DeleteDoes
        <5>2. CASE WriteService(q) \/ CreateProjectService(q) \/ DeleteProjectService(q) \/ ReplaceAssignments(q)
          BY <5>2 DEF WriteService, CreateProjectService, DeleteProjectService, ReplaceAssignments
        <5> QED BY <3>3, <5>1, <5>2
      <4> QED BY <4>1 DEF BoundInv
    <3>4. CASE DeleteProjectType(q)
      <4>1. PICK t : igrLog' = Tear(igrLog, {e[2] : e \in {x \in igr.typed : x[1] = t}})
        BY <3>4 DEF DeleteProjectType
      <4> QED BY <1>0, <4>1 DEF BoundInv, Tear, IgrLogRecord
    <3> QED BY <2>1, <3>1, <3>2, <3>3, <3>4 DEF IgrTouched
  <2>2. ASSUME NEW q \in Slots, IgrSaved(q)
        PROVE  igrLog'.missed = {}
    <3>1. CASE CreateIntegration(q) \/ UpdateIntegrationSave(q) \/ DeleteIntegration(q)
      <4>1. igrLog'.missed = igrLog.missed
        <5>1. CASE CreateIntegration(q)
          BY <5>1, IntegrationCreated DEF IgrNoted
        <5>2. CASE UpdateIntegrationSave(q)
          BY <5>2, IntegrationUpdated DEF IgrNoted
        <5>3. CASE DeleteIntegration(q)
          BY <5>3, IntegrationDeleted DEF IgrNoted
        <5> QED BY <3>1, <5>1, <5>2, <5>3
      <4> QED BY <4>1 DEF BoundInv
    <3>2. CASE ClearLogin(q) \/ WriteLogin(q) \/ WriteTypeAssignments(q) \/ UpdatePluginRegistration(q)
      <4>1. igrLog'.missed = igrLog.missed
        BY <3>2, LoginCleared, LoginWritten, Assigned_, PluginRegistered DEF IgrNoted
      <4> QED BY <4>1 DEF BoundInv
    <3>3. CASE SaveCredentials(q)
      <4>1. igrLog'.missed = igrLog.missed
        BY <3>3, CredentialsSaved DEF IgrNoted
      <4> QED BY <4>1 DEF BoundInv
    <3>4. CASE GetLoginApp(q) \/ StoreLoginApp(q)
      <4>1. igrLog' = igrLog \/ \E S : igrLog' = [igrLog EXCEPT !.overdue = S]
        BY <1>0, <3>4 DEF GetLoginApp, StoreLoginApp, LookI, Served, IgrLogRecord
      <4> QED BY <1>0, <4>1 DEF BoundInv, IgrLogRecord
    <3> QED BY <2>2, <3>1, <3>2, <3>3, <3>4 DEF IgrSaved
  <2> QED BY <2>1, <2>2, IgrMoves DEF BoundInv, LoginTick
<1>2. ASSUME NEW o \in Slots, req'[o].at \in ResolvedLabels, NEW i \in req'[o].had, <<o, i>> \notin igrLog'.torn
      PROVE  FoundSoFar(req[o], i)'
  <2> DEFINE l == req[o]
             m == req'[o]
  <2>1. CASE m = l
    <3>1. l.at \in ResolvedLabels /\ i \in l.had
      BY <1>2, <2>1
    <3>2. CASE i \in Integrations
      <4>1. <<o, i>> \notin igrLog.torn /\ Unturned(i)
        BY <1>2, <2>1, <3>1, <3>2, TornCovers
      <4>2. FoundSoFar(l, i)
        BY <3>1, <4>1 DEF BoundInv
      <4> QED BY <2>1, <4>1, <4>2 DEF FoundSoFar, Unturned
    <3>3. CASE i \notin Integrations
      <4>1. <<o, i>> \notin igrLog.torn
        BY <1>0, <3>3 DEF IgrLogRecord
      <4>2. FoundSoFar(l, i)
        BY <3>1, <4>1 DEF BoundInv
      <4> QED BY <3>3, <4>2 DEF FoundSoFar, Enabled
    <3> QED BY <3>2, <3>3
  <2>2. CASE m # l /\ ResolveEdges(o)
    <3>1. CASE Reachable(l.p)
      <4>1. /\ m.at = "life.integrations" /\ m.edges = EdgesTo(l.p) /\ m.had = Effective(l.p) /\ UNCHANGED igr
        BY <2>2, <3>1, EdgesLand
      <4>2. i \in Effective(l.p)
        BY <1>2, <4>1
      <4>3. igr.on /\ i \in Enabled /\ (i \in m.edges \/ i \notin Assigned)
        BY <4>1, <4>2 DEF Effective, Bound
      <4> QED BY <4>1, <4>3 DEF FoundSoFar, Enabled, Assigned, Here
    <3>2. CASE ~Reachable(l.p)
      <4>1. m.at \notin ResolvedLabels
        BY <2>2, <3>2, EdgesLand DEF Deletes, Nexts, ResolvedLabels
      <4> QED BY <1>2, <4>1
    <3> QED BY <3>1, <3>2
  <2>3. CASE m # l /\ (ResolveIntegrations(o) \/ ResolveAssigned(o))
    <3>1. /\ l.at \in {"life.integrations", "life.assigned"} /\ UNCHANGED <<igr, igrLog>> /\ m.had = l.had
          /\ l.at = "life.integrations" => m.at = "life.assigned" /\ m.edges = l.edges /\ m.enabled = Enabled
          /\ l.at = "life.assigned" => m.at = "life.enabled" /\ m.bound = Bound(l.p, l.edges, Assigned) \cap l.enabled
      BY <2>3, FoundLand
    <3>2. FoundSoFar(l, i) /\ i \in Enabled
      BY <1>2, <3>1 DEF BoundInv, ResolvedLabels, FoundSoFar
    <3>3. Enabled' = Enabled /\ Assigned' = Assigned /\ i \in Integrations
      BY <3>1, <3>2 DEF Enabled, Assigned, Here
    <3>4. CASE l.at = "life.integrations"
      BY <3>1, <3>2, <3>3, <3>4 DEF FoundSoFar
    <3>5. CASE l.at = "life.assigned"
      <4>1. i \in m.bound
        BY <3>1, <3>2, <3>3, <3>5 DEF FoundSoFar, Bound
      <4> QED BY <3>1, <3>2, <3>3, <3>5, <4>1 DEF FoundSoFar
    <3> QED BY <3>1, <3>4, <3>5
  <2> QED BY <1>2, <2>1, <2>2, <2>3, Arrives
<1> QED BY <1>1, <1>2 DEF BoundInv

\* An integration that is bound to a project when its bindings are resolved and
\* still bound when they have been is among them, however the requests are
\* interleaved, unless it or its assignments changed between the three reads.
THEOREM ProjectsBound == Spec => []BoundAtBothEnds
<1>1. Init => BoundInv
  <2> SUFFICES ASSUME Init PROVE BoundInv
    OBVIOUS
  <2>1. igrLog.missed = {} /\ \A q \in Slots : req[q].at = "idle"
    BY DEF Init, IgrInit, PoolInit, Idle
  <2> QED BY <2>1 DEF BoundInv, ResolvedLabels
<1>2. TypeInv /\ BoundInv /\ [Next]_projectVars => BoundInv'
  BY BoundStep
<1>3. BoundInv => BoundAtBothEnds
  BY DEF BoundInv, BoundAtBothEnds
<1> QED BY <1>1, <1>2, <1>3, Typed, PTL DEF Spec

-----------------------------------------------------------------------------
(* The login provider and its cache.                                       *)

\* A login provider is there; one that ceases to be is noted.
BadOK == \A i \in Integrations : igrLog.badSince[i] <= login.now /\ (LoginApp(i) => Here(i))
Since(i) ==
  /\ igrLog'.badSince[i] <= login.now /\ (LoginApp(i)' => Here(i)')
  /\ \A t \in Nat : t <= login.now /\ (LoginApp(i) \/ t <= igrLog.badSince[i])
                    => LoginApp(i)' \/ t <= igrLog'.badSince[i]

LEMMA SinceMoves ==
    ASSUME TypeInv, BadOK, [Next]_projectVars, NEW i \in Integrations
    PROVE  Since(i)
<1>0. /\ igr \in IgrRecord /\ igrLog \in IgrLogRecord /\ login \in LoginRecord
      /\ igr.node[i] \in IntegrationRecord /\ igrLog.badSince[i] \in Nat /\ login.now \in Nat
  BY IntegrationsAssumption DEF TypeInv, IgrInv, IgrRecord, IgrLogRecord, LoginRecord
<1>1. igrLog.badSince[i] <= login.now /\ (LoginApp(i) => Here(i))
  BY DEF BadOK
<1>a. ASSUME igr'.node[i] = igr.node[i], igrLog'.badSince[i] = igrLog.badSince[i]
      PROVE  Since(i)
  BY <1>a, <1>1 DEF Since, LoginApp, Here
<1>b. ASSUME igrLog'.badSince[i] = Ceases(i), LoginApp(i)' => Here(i)'
      PROVE  Since(i)
  BY <1>b, <1>0, <1>1 DEF Since, Ceases
<1>c. ASSUME igr'.node[i].login = igr.node[i].login, igr'.node[i].caps = igr.node[i].caps, igr'.node[i].there = igr.node[i].there,
             igrLog'.badSince[i] = igrLog.badSince[i]
      PROVE  Since(i)
  BY <1>c, <1>1 DEF Since, LoginApp, Here
<1>2. CASE UNCHANGED <<igr, login, igrLog>>
  BY <1>a, <1>2
<1>3. CASE LoginTick
  BY <1>a, <1>3 DEF LoginTick
<1>4. ASSUME NEW q \in Slots, IgrTouched(q)
      PROVE  Since(i)
  <2>1. igr'.node = igr.node /\ igrLog'.badSince = igrLog.badSince
    BY <1>4, IgrTouchedFrame
  <2> QED BY <1>a, <2>1
<1>5. ASSUME NEW q \in Slots, IgrSaved(q)
      PROVE  Since(i)
  <2> DEFINE l == req[q]
  <2>1. CASE CreateIntegration(q)
    <3>1. PICK j \in Integrations, caps \in SUBSET Kinds :
            /\ ~Here(j) /\ igr'.node = [igr.node EXCEPT ![j] = Installed(caps)] /\ igrLog'.badSince = igrLog.badSince
      BY <2>1, IntegrationCreated DEF IgrBecomes, IgrNoted
    <3>2. CASE i = j
      <4>1. ~LoginApp(i) /\ igr'.node[i] = Installed(caps)
        BY <1>0, <1>1, <3>1, <3>2 DEF IgrRecord
      <4>2. ~LoginApp(i)'
        BY <4>1 DEF LoginApp, Installed
      <4>3. Ceases(i) = igrLog.badSince[i]
        BY <4>1 DEF Ceases
      <4> QED BY <1>b, <3>1, <4>2, <4>3
    <3>3. CASE i # j
      <4>1. igr'.node[i] = igr.node[i]
        BY <1>0, <3>1, <3>3 DEF IgrRecord
      <4> QED BY <1>a, <3>1, <4>1
    <3> QED BY <3>2, <3>3
  <2>2. CASE UpdateIntegrationSave(q)
    <3>1. CASE UNCHANGED <<igr, login, igrLog>>
      BY <1>a, <3>1
    <3>2. CASE ~UNCHANGED <<igr, login, igrLog>>
      <4>1. Here(l.i) /\ l.i \in Integrations
        BY <2>2, <3>2, IntegrationUpdated DEF UpdateIntegrationSave, WaitI
      <4>2. PICK k \in Kinds, on \in BOOLEAN :
              /\ IgrBecomes([igr.node EXCEPT ![l.i] = [@ EXCEPT !.caps = Toggled(l.read, k, on)]], igr.typed, igr.on)
              /\ igrLog'.badSince = [igrLog.badSince EXCEPT ![l.i] = Ceases(l.i)]
        BY <2>2, <3>2, IntegrationUpdated DEF IgrNoted
      <4> DEFINE v == Toggled(l.read, k, on)
      <4>3. igr'.node = [igr.node EXCEPT ![l.i] = [@ EXCEPT !.caps = v]]
        BY <4>2 DEF IgrBecomes
      <4> HIDE DEF v
      <4>4. CASE i = l.i
        <5>1. igr'.node[i] = [igr.node[i] EXCEPT !.caps = v] /\ igrLog'.badSince[i] = Ceases(i)
          BY <1>0, <4>1, <4>2, <4>3, <4>4 DEF IgrRecord, IgrLogRecord
        <5>2. Here(i)'
          BY <1>0, <4>1, <4>4, <5>1 DEF Here, IntegrationRecord
        <5> QED BY <1>b, <5>1, <5>2
      <4>5. CASE i # l.i
        <5>1. igr'.node[i] = igr.node[i] /\ igrLog'.badSince[i] = igrLog.badSince[i]
          BY <1>0, <4>2, <4>3, <4>5 DEF IgrRecord, IgrLogRecord
        <5> QED BY <1>a, <5>1
      <4> QED BY <4>4, <4>5
    <3> QED BY <3>1, <3>2
  <2>3. CASE DeleteIntegration(q)
    <3>1. PICK j \in Integrations :
            /\ igr'.node = [igr.node EXCEPT ![j] = NoIntegration]
            /\ igrLog'.badSince = [igrLog.badSince EXCEPT ![j] = Ceases(j)]
      BY <2>3, IntegrationDeleted DEF IgrBecomes, IgrNoted
    <3>2. CASE i = j
      <4>1. igr'.node[i] = NoIntegration /\ igrLog'.badSince[i] = Ceases(i)
        BY <1>0, <3>1, <3>2 DEF IgrRecord, IgrLogRecord
      <4> QED BY <1>b, <4>1 DEF LoginApp, NoIntegration
    <3>3. CASE i # j
      <4>1. igr'.node[i] = igr.node[i] /\ igrLog'.badSince[i] = igrLog.badSince[i]
        BY <1>0, <3>1, <3>3 DEF IgrRecord, IgrLogRecord
      <4> QED BY <1>a, <4>1
    <3> QED BY <3>2, <3>3
  <2>4. CASE ClearLogin(q)
    <3>1. /\ igr'.node = [j \in Integrations |-> [igr.node[j] EXCEPT !.login = IF j = l.i THEN @ ELSE FALSE]]
          /\ igrLog'.badSince = [j \in Integrations |-> IF j = l.i THEN igrLog.badSince[j] ELSE Ceases(j)]
      BY <2>4, LoginCleared DEF IgrBecomes, IgrNoted
    <3>2. igr'.node[i] = [igr.node[i] EXCEPT !.login = IF i = l.i THEN @ ELSE FALSE]
      BY <3>1
    <3>3. CASE i = l.i
      <4>1. igr'.node[i] = igr.node[i] /\ igrLog'.badSince[i] = igrLog.badSince[i]
        BY <1>0, <3>1, <3>2, <3>3 DEF IntegrationRecord
      <4> QED BY <1>a, <4>1
    <3>4. CASE i # l.i
      <4>1. ~igr'.node[i].login /\ igrLog'.badSince[i] = Ceases(i)
        BY <1>0, <3>1, <3>2, <3>4 DEF IntegrationRecord
      <4> QED BY <1>b, <4>1 DEF LoginApp
    <3> QED BY <3>3, <3>4
  <2>5. CASE WriteLogin(q)
    <3> DEFINE v == Here(l.i) /\ l.on
    <3>1. /\ igr'.node = [igr.node EXCEPT ![l.i] = [@ EXCEPT !.login = v]] /\ l.i \in Integrations
          /\ igrLog'.badSince = [igrLog.badSince EXCEPT ![l.i] = Ceases(l.i)]
      BY <2>5, LoginWritten DEF IgrBecomes, IgrNoted
    <3>2. v => Here(l.i)
      OBVIOUS
    <3> HIDE DEF v
    <3>3. CASE i = l.i
      <4>1. igr'.node[i] = [igr.node[i] EXCEPT !.login = v] /\ igrLog'.badSince[i] = Ceases(i)
        BY <1>0, <3>1, <3>3 DEF IgrRecord, IgrLogRecord
      <4>2. igr'.node[i].login = v /\ igr'.node[i].there = igr.node[i].there
        BY <1>0, <4>1 DEF IntegrationRecord
      <4>3. LoginApp(i)' => Here(i)'
        BY <3>2, <3>3, <4>2 DEF LoginApp, Here
      <4> QED BY <1>b, <4>1, <4>3
    <3>4. CASE i # l.i
      <4>1. igr'.node[i] = igr.node[i] /\ igrLog'.badSince[i] = igrLog.badSince[i]
        BY <1>0, <3>1, <3>4 DEF IgrRecord, IgrLogRecord
      <4> QED BY <1>a, <4>1
    <3> QED BY <3>3, <3>4
  <2>6. CASE WriteTypeAssignments(q) \/ UpdatePluginRegistration(q)
    <3>1. igr'.node = igr.node /\ igrLog'.badSince = igrLog.badSince
      BY <2>6, Assigned_, PluginRegistered DEF IgrNoted
    <3> QED BY <1>a, <3>1
  <2>7. CASE SaveCredentials(q)
    <3>1. CASE UNCHANGED <<igr, login, igrLog>>
      BY <1>a, <3>1
    <3>2. CASE ~UNCHANGED <<igr, login, igrLog>>
      <4> DEFINE v == Toggled(l.read, l.f, l.on)
      <4>1. igr'.node = [igr.node EXCEPT ![l.i] = [@ EXCEPT !.creds = v]] /\ igrLog'.badSince = igrLog.badSince
        BY <2>7, <3>2, CredentialsSaved DEF IgrBecomes, IgrNoted
      <4> HIDE DEF v
      <4>2. igr'.node[i] \in {igr.node[i], [igr.node[i] EXCEPT !.creds = v]}
        BY <1>0, <4>1 DEF IgrRecord
      <4>3. igr'.node[i].login = igr.node[i].login /\ igr'.node[i].caps = igr.node[i].caps /\ igr'.node[i].there = igr.node[i].there
        BY <1>0, <4>2 DEF IntegrationRecord
      <4> QED BY <1>c, <4>1, <4>3
    <3> QED BY <3>1, <3>2
  <2>8. CASE GetLoginApp(q) \/ StoreLoginApp(q)
    <3>1. UNCHANGED igr /\ (igrLog' = igrLog \/ \E S : igrLog' = [igrLog EXCEPT !.overdue = S])
      BY <1>0, <2>8 DEF GetLoginApp, StoreLoginApp, LookI, Served, IgrLogRecord
    <3> QED BY <1>0, <1>a, <3>1 DEF IgrLogRecord
  <2> QED BY <1>5, <2>1, <2>2, <2>3, <2>4, <2>5, <2>6, <2>7, <2>8 DEF IgrSaved
<1> QED BY <1>2, <1>3, <1>4, <1>5, IgrMoves

\* What the cache holds was there, or has just been stored.
LEMMA CacheMoves ==
    ASSUME TypeInv, [Next]_projectVars
    PROVE  /\ login'.now >= login.now
           /\ \A e \in login'.cache : e \in login.cache \/ \E q \in Slots :
                req[q].at = "app.store" /\ e.i = req[q].i /\ e.at = req[q].now /\ e.at \in Nat
                /\ e.i \in Integrations /\ UNCHANGED <<igr, igrLog>>
<1>0. login \in LoginRecord /\ login.now \in Nat /\ \A q \in Slots : LocalsOK(req[q])
  BY IntegrationsAssumption DEF TypeInv, PoolInv, IgrInv, LoginRecord
<1>1. CASE UNCHANGED login
  BY <1>0, <1>1
<1>2. CASE LoginTick
  BY <1>0, <1>2 DEF LoginTick, LoginRecord
<1>3. ASSUME NEW q \in Slots, WriteLogin(q)
      PROVE  login'.cache = {} /\ login'.now = login.now
  BY <1>3, LoginWritten
<1>4. ASSUME NEW q \in Slots, StoreLoginApp(q)
      PROVE  /\ login'.now = login.now
             /\ \A e \in login'.cache : e \in login.cache \/
                  (req[q].at = "app.store" /\ e.i = req[q].i /\ e.at = req[q].now /\ e.at \in Nat
                   /\ e.i \in Integrations /\ UNCHANGED <<igr, igrLog>>)
  <2> DEFINE l == req[q]
             C == {e \in login.cache : e.i # l.i} \cup {[i |-> l.i, at |-> l.now]}
  <2>1. l.at = "app.store" /\ login' = [login EXCEPT !.cache = C] /\ UNCHANGED <<igr, igrLog>>
    BY <1>4 DEF StoreLoginApp, Step, At
  <2>2. l.now \in Nat /\ l.i \in Integrations
    BY <1>0, <2>1 DEF LocalsOK, AppLabels, HasIntegration
  <2>3. \A e \in C : e \in login.cache \/ (e.i = l.i /\ e.at = l.now)
    OBVIOUS
  <2> HIDE DEF C
  <2>4. login'.cache = C /\ login'.now = login.now
    BY <1>0, <2>1 DEF LoginRecord
  <2> QED BY <2>1, <2>2, <2>3, <2>4
<1>5. ASSUME NEW q \in Slots, IgrSaved(q), ~WriteLogin(q), ~StoreLoginApp(q)
      PROVE  UNCHANGED login
  <2>1. CASE CreateIntegration(q) \/ UpdateIntegrationSave(q) \/ DeleteIntegration(q) \/ ClearLogin(q)
             \/ WriteTypeAssignments(q) \/ UpdatePluginRegistration(q) \/ SaveCredentials(q) \/ GetLoginApp(q)
    BY Zenon, <2>1 DEF CreateIntegration, UpdateIntegrationSave, DeleteIntegration, ClearLogin,
             WriteTypeAssignments, UpdatePluginRegistration, SaveCredentials, GetLoginApp, LookI, WaitI
  <2> QED BY <1>5, <2>1 DEF IgrSaved
<1>6. ASSUME NEW q \in Slots, IgrTouched(q)
      PROVE  UNCHANGED login
  BY <1>6, IgrTouchedFrame
<1> QED BY <1>0, <1>1, <1>2, <1>3, <1>4, <1>5, <1>6, IgrMoves

LEMMA CacheStep ==
    ASSUME TypeInv, CacheInv, [Next]_projectVars
    PROVE  CacheInv'
<1>0. /\ igrLog \in IgrLogRecord /\ login \in LoginRecord /\ login.now \in Nat
      /\ \A i \in Integrations : igrLog.badSince[i] \in Nat
      /\ \A q \in Slots : LocalsOK(req[q])
  BY IntegrationsAssumption DEF TypeInv, PoolInv, IgrInv, IgrLogRecord, LoginRecord
<1>1. BadOK
  BY DEF CacheInv, BadOK
<1>2. /\ login' \in LoginRecord /\ login'.now \in Nat /\ \A i \in Integrations : igrLog'.badSince[i] \in Nat
      /\ \A q \in Slots : LocalsOK(req'[q])
  <2>1. TypeInv'
    BY TypeStep
  <2> QED BY <2>1, IntegrationsAssumption DEF TypeInv, PoolInv, IgrInv, IgrLogRecord, LoginRecord
<1>3. /\ login'.now >= login.now
      /\ \A e \in login'.cache : e \in login.cache \/ \E q \in Slots :
           req[q].at = "app.store" /\ e.i = req[q].i /\ e.at = req[q].now /\ e.at \in Nat
           /\ e.i \in Integrations /\ UNCHANGED <<igr, igrLog>>
  BY CacheMoves
<1>4. \A i \in Integrations : Since(i)
  BY <1>1, SinceMoves
<1>5. ASSUME NEW i \in Integrations
      PROVE  igrLog'.badSince[i] <= login'.now /\ (LoginApp(i)' => Here(i)')
  <2>1. igrLog'.badSince[i] <= login.now /\ (LoginApp(i)' => Here(i)')
    BY <1>4 DEF Since
  <2> QED BY <1>0, <1>2, <1>3, <2>1
<1>6. ASSUME NEW e \in login'.cache
      PROVE  e.at <= login'.now /\ (LoginApp(e.i)' \/ e.at <= igrLog'.badSince[e.i])
  <2>1. CASE e \in login.cache
    <3>1. e.i \in Integrations /\ e.at \in Nat
      BY <1>0, <2>1 DEF LoginRecord
    <3>2. e.at <= login.now /\ (LoginApp(e.i) \/ e.at <= igrLog.badSince[e.i])
      BY <2>1 DEF CacheInv
    <3>3. LoginApp(e.i)' \/ e.at <= igrLog'.badSince[e.i]
      BY <1>4, <3>1, <3>2 DEF Since
    <3> QED BY <1>0, <1>2, <1>3, <3>1, <3>2, <3>3
  <2>2. ASSUME NEW q \in Slots, req[q].at = "app.store", e.i = req[q].i, e.at = req[q].now, e.at \in Nat,
               e.i \in Integrations, UNCHANGED <<igr, igrLog>>
        PROVE  e.at <= login'.now /\ (LoginApp(e.i)' \/ e.at <= igrLog'.badSince[e.i])
    <3>1. e.at <= login.now /\ (LoginApp(e.i) \/ e.at <= igrLog.badSince[e.i])
      BY <2>2 DEF CacheInv, AppLabels
    <3>2. LoginApp(e.i)' = LoginApp(e.i)
      BY <2>2 DEF LoginApp
    <3> QED BY <1>0, <1>2, <1>3, <2>2, <3>1, <3>2
  <2> QED BY <1>3, <2>1, <2>2
<1>7. ASSUME NEW o \in Slots, req'[o].at \in AppLabels, NEW i, i = req'[o].i
      PROVE  /\ req'[o].now <= login'.now
             /\ req'[o].at = "app.store" => LoginApp(i)' \/ req'[o].now <= igrLog'.badSince[i]
  <2> DEFINE l == req[o]
             m == req'[o]
  <2>0. m.now \in Nat /\ i \in Integrations
    BY <1>2, <1>7 DEF LocalsOK, AppLabels, HasIntegration
  <2>1. CASE m = l
    <3>1. m.now <= login.now /\ (m.at = "app.store" => LoginApp(i) \/ m.now <= igrLog.badSince[i])
      BY <1>7, <2>1 DEF CacheInv
    <3>2. m.at = "app.store" => LoginApp(i)' \/ m.now <= igrLog'.badSince[i]
      BY <1>4, <2>0, <3>1 DEF Since
    <3> QED BY <1>0, <1>2, <1>3, <2>0, <3>1, <3>2
  <2>2. CASE m # l
    <3>1. \/ m.at = "app.fetch" /\ m.now = login.now /\ UNCHANGED <<igr, login, igrLog>>
          \/ l.at = "app.fetch" /\ m.at = "app.store" /\ m.i = l.i /\ m.now = l.now /\ LoginApp(l.i)
             /\ UNCHANGED <<igr, login, igrLog>>
      BY <1>7, <2>2, Arrives DEF IgrLanding
    <3>2. CASE m.at = "app.fetch" /\ m.now = login.now
      BY <1>0, <1>2, <1>3, <3>2
    <3>3. CASE l.at = "app.fetch" /\ m.at = "app.store" /\ m.i = l.i /\ m.now = l.now /\ LoginApp(l.i)
               /\ UNCHANGED <<igr, login, igrLog>>
      <4>1. l.now <= login.now
        BY <3>3 DEF CacheInv, AppLabels
      <4>2. LoginApp(i)'
        BY <1>7, <3>3 DEF LoginApp
      <4> QED BY <3>3, <4>1, <4>2
    <3> QED BY <3>1, <3>2, <3>3
  <2> QED BY <2>1, <2>2
<1>8. igrLog'.overdue = {}
  <2>1. ASSUME NEW q \in Slots, GetLoginApp(q)
        PROVE  igrLog'.overdue = {}
    <3>1. CASE UNCHANGED igrLog
      BY <3>1 DEF CacheInv
    <3>2. ASSUME NEW i \in Integrations, Fresh(i), Served(i)
          PROVE  igrLog'.overdue = {}
      <4>1. PICK e \in login.cache : e.i = i /\ login.now - e.at < LoginTtl
        BY <3>2 DEF Fresh
      <4>2. e.at \in Nat /\ e.at <= login.now /\ (LoginApp(i) \/ e.at <= igrLog.badSince[i])
        BY <1>0, <4>1 DEF CacheInv, LoginRecord
      <4>3. LoginApp(i) \/ login.now - igrLog.badSince[i] < LoginTtl
        <5>1. igrLog.badSince[i] <= login.now
          BY DEF CacheInv
        <5> QED BY <1>0, <4>1, <4>2, <5>1, IntegrationsAssumption
      <4> DEFINE S == IF LoginApp(i) \/ login.now - igrLog.badSince[i] < LoginTtl THEN igrLog.overdue ELSE igrLog.overdue \cup {i}
      <4>4. igrLog' = [igrLog EXCEPT !.overdue = S]
        BY <3>2 DEF Served
      <4>5. S = {}
        BY <4>3 DEF CacheInv
      <4> HIDE DEF S
      <4> QED BY <1>0, <4>4, <4>5 DEF IgrLogRecord
    <3> QED BY <2>1, <3>1, <3>2 DEF GetLoginApp, LookI
  <2>2. ASSUME NEW q \in Slots, IgrSaved(q), ~GetLoginApp(q)
        PROVE  igrLog'.overdue = igrLog.overdue
    <3>1. CASE CreateIntegration(q)
      BY <3>1, IntegrationCreated DEF IgrNoted
    <3>2. CASE UpdateIntegrationSave(q)
      BY <3>2, IntegrationUpdated DEF IgrNoted
    <3>3. CASE DeleteIntegration(q)
      BY <3>3, IntegrationDeleted DEF IgrNoted
    <3>4. CASE ClearLogin(q) \/ WriteLogin(q) \/ WriteTypeAssignments(q) \/ UpdatePluginRegistration(q)
      BY <3>4, LoginCleared, LoginWritten, Assigned_, PluginRegistered DEF IgrNoted
    <3>5. CASE SaveCredentials(q)
      BY <3>5, CredentialsSaved DEF IgrNoted
    <3>6. CASE StoreLoginApp(q)
      BY <3>6 DEF StoreLoginApp
    <3> QED BY <2>2, <3>1, <3>2, <3>3, <3>4, <3>5, <3>6 DEF IgrSaved
  <2>3. ASSUME NEW q \in Slots, IgrTouched(q)
        PROVE  igrLog'.overdue = igrLog.overdue
    BY <2>3, IgrTouchedFrame
  <2> QED BY <2>1, <2>2, <2>3, IgrMoves DEF LoginTick, CacheInv
<1> QED BY <1>5, <1>6, <1>7, <1>8 DEF CacheInv

LEMMA ProviderStep ==
    ASSUME TypeInv, ProviderInv, [Next]_projectVars
    PROVE  ProviderInv'
<1>0. /\ igr \in IgrRecord /\ igrLog \in IgrLogRecord /\ \A q \in Slots : LocalsOK(req[q])
      /\ \A i \in Integrations : igr.node[i] \in IntegrationRecord
  BY DEF TypeInv, PoolInv, IgrInv, IgrRecord
<1>a. ASSUME igrLog'.raced = igrLog.raced, Providers' \subseteq Providers, \A q \in Slots : ~ClearLogin(q)
      PROVE  ProviderInv'
  <2> SUFFICES ASSUME ~igrLog.raced
               PROVE  /\ \A i, j \in Providers' : i = j
                      /\ \A o \in Slots : req'[o].at = "login.set" /\ req'[o].on => Providers' \subseteq {req'[o].i}
    BY <1>a DEF ProviderInv
  <2>1. \A i, j \in Providers' : i = j
    BY <1>a DEF ProviderInv
  <2>2. ASSUME NEW o \in Slots, req'[o].at = "login.set", req'[o].on
        PROVE  Providers' \subseteq {req'[o].i}
    <3>1. req'[o] = req[o]
      BY <1>a, <2>2, Arrives DEF IgrLanding, LoginLabels
    <3> QED BY <1>a, <2>2, <3>1 DEF ProviderInv
  <2> QED BY <2>1, <2>2
<1>b. ASSUME \A i \in Integrations : igr'.node[i].login => igr.node[i].login
      PROVE  Providers' \subseteq Providers
  BY <1>b DEF Providers
<1>c. ASSUME NEW q \in Slots, ClearLogin(q)
      PROVE  \A o \in Slots : req'[o] # req[o] => o = q
  BY <1>c, LoginCleared, TakesStep DEF Alone
<1>1. CASE \E q \in Slots : ClearLogin(q)
  <2>1. PICK q \in Slots : ClearLogin(q)
    BY <1>1
  <2> DEFINE l == req[q]
             m == req'[q]
  <2>2. /\ l.at = "login.clear" /\ l.i \in Integrations /\ igrLog'.raced = igrLog.raced /\ Step(q, "login.clear", To(q, "login.set"))
        /\ igr'.node = [i \in Integrations |-> [igr.node[i] EXCEPT !.login = IF i = l.i THEN @ ELSE FALSE]]
    BY <2>1, LoginCleared DEF IgrBecomes
  <2>3. Providers' = Providers \cap {l.i}
    <3>1. \A i \in Integrations : igr'.node[i] = [igr.node[i] EXCEPT !.login = IF i = l.i THEN @ ELSE FALSE]
      BY <2>2
    <3>2. ASSUME NEW i \in Integrations
          PROVE  igr'.node[i].login <=> (igr.node[i].login /\ i = l.i)
      <4> DEFINE kept == IF i = l.i THEN igr.node[i].login ELSE FALSE
      <4>1. "login" \in DOMAIN igr.node[i]
        BY <1>0 DEF IntegrationRecord
      <4>2. igr'.node[i] = [igr.node[i] EXCEPT !.login = kept]
        BY <3>1
      <4> HIDE DEF kept
      <4>3. igr'.node[i].login = kept
        BY <4>1, <4>2
      <4> QED BY <4>3 DEF kept
    <3> QED BY <3>2 DEF Providers
  <2>4. m.i = l.i /\ Alone(q)
    <3>1. m = To(q, "login.set") /\ Alone(q)
      BY <2>2, TakesStep
    <3>2. {"at", "i"} \subseteq DOMAIN l
      BY <1>0, <2>2 DEF LocalsOK, HasIntegration, LoginLabels
    <3> QED BY <3>1, <3>2 DEF To
  <2>5. ASSUME ~igrLog.raced, NEW o \in Slots, req'[o].at = "login.set", req'[o].on
        PROVE  Providers' \subseteq {req'[o].i}
    <3>1. CASE o = q
      BY <2>3, <2>4, <3>1
    <3>2. CASE o # q
      <4>1. req'[o] = req[o]
        BY <2>4, <3>2 DEF Alone
      <4> QED BY <2>3, <2>5, <4>1 DEF ProviderInv
    <3> QED BY <3>1, <3>2
  <2> QED BY <2>2, <2>3, <2>5 DEF ProviderInv
<1>2. CASE \E q \in Slots : WriteLogin(q)
  <2>1. PICK q \in Slots : WriteLogin(q)
    BY <1>2
  <2> DEFINE l == req[q]
             v == Here(l.i) /\ l.on
  <2>2. /\ l.at = "login.set" /\ l.i \in Integrations /\ Step(q, "login.set", Idle)
        /\ igrLog'.raced = (igrLog.raced \/ \E o \in Slots \ {q} : req[o].at \in {"login.clear", "login.set"})
        /\ igr'.node = [igr.node EXCEPT ![l.i] = [@ EXCEPT !.login = v]]
    BY <2>1, LoginWritten DEF IgrBecomes
  <2>3. v => l.on
    OBVIOUS
  <2>4. v \in BOOLEAN
    OBVIOUS
  <2> HIDE DEF v
  <2>5. \A i \in Integrations : igr'.node[i].login <=> IF i = l.i THEN v ELSE igr.node[i].login
    BY <1>0, <2>2, <2>4 DEF IgrRecord, IntegrationRecord
  <2>6. SUFFICES ASSUME ~igrLog'.raced PROVE ProviderInv'
    BY DEF ProviderInv
  <2>7. /\ \A o \in Slots : o # q => req[o].at # "login.set"
        /\ ~igrLog.raced
    BY <2>2, <2>6
  <2>8. req'[q] = Idle /\ Alone(q)
    BY <2>2, TakesStep
  <2>9. \A o \in Slots : req'[o].at # "login.set"
    BY <2>7, <2>8 DEF Alone, Idle
  <2>10. \A i, j \in Providers' : i = j
    <3>1. CASE v
      <4>1. Providers \subseteq {l.i}
        BY <2>2, <2>3, <2>7, <3>1 DEF ProviderInv
      <4>2. Providers' \subseteq {l.i}
        BY <2>5, <4>1 DEF Providers
      <4> QED BY <4>2
    <3>2. CASE ~v
      <4>1. Providers' \subseteq Providers
        BY <2>5, <3>2 DEF Providers
      <4> QED BY <2>7, <4>1 DEF ProviderInv
    <3> QED BY <3>1, <3>2
  <2> QED BY <2>9, <2>10 DEF ProviderInv
<1>3. CASE ~(\E q \in Slots : ClearLogin(q)) /\ ~(\E q \in Slots : WriteLogin(q))
  <2>1. igrLog'.raced = igrLog.raced /\ Providers' \subseteq Providers
    <3>1. CASE UNCHANGED <<igr, login, igrLog>> \/ LoginTick
      BY <3>1, <1>b DEF LoginTick
    <3>2. ASSUME NEW q \in Slots, IgrTouched(q)
          PROVE  igrLog'.raced = igrLog.raced /\ Providers' \subseteq Providers
      BY <3>2, <1>b, IgrTouchedFrame
    <3>3. ASSUME NEW q \in Slots, IgrSaved(q)
          PROVE  igrLog'.raced = igrLog.raced /\ Providers' \subseteq Providers
      <4> DEFINE l == req[q]
      <4>1. CASE CreateIntegration(q)
        <5>1. PICK j \in Integrations, caps \in SUBSET Kinds :
                igr'.node = [igr.node EXCEPT ![j] = Installed(caps)] /\ igrLog'.raced = igrLog.raced
          BY <4>1, IntegrationCreated DEF IgrBecomes
        <5>2. \A i \in Integrations : igr'.node[i].login => igr.node[i].login
          BY <1>0, <5>1 DEF IgrRecord, Installed
        <5> QED BY <1>b, <5>1, <5>2
      <4>2. CASE UpdateIntegrationSave(q)
        <5>1. CASE UNCHANGED <<igr, login, igrLog>>
          BY <1>b, <5>1
        <5>2. CASE ~UNCHANGED <<igr, login, igrLog>>
          <6>1. PICK k \in Kinds, on \in BOOLEAN :
                  /\ IgrBecomes([igr.node EXCEPT ![l.i] = [@ EXCEPT !.caps = Toggled(l.read, k, on)]], igr.typed, igr.on)
                  /\ igrLog'.raced = igrLog.raced
            BY <4>2, <5>2, IntegrationUpdated
          <6> DEFINE v == Toggled(l.read, k, on)
          <6>2. igr'.node = [igr.node EXCEPT ![l.i] = [@ EXCEPT !.caps = v]]
            BY <6>1 DEF IgrBecomes
          <6> HIDE DEF v
          <6>3. \A i \in Integrations : igr'.node[i].login => igr.node[i].login
            BY <1>0, <6>2 DEF IgrRecord, IntegrationRecord
          <6> QED BY <1>b, <6>1, <6>3
        <5> QED BY <5>1, <5>2
      <4>3. CASE DeleteIntegration(q)
        <5>1. PICK j \in Integrations :
                igr'.node = [igr.node EXCEPT ![j] = NoIntegration] /\ igrLog'.raced = igrLog.raced
          BY <4>3, IntegrationDeleted DEF IgrBecomes
        <5>2. \A i \in Integrations : igr'.node[i].login => igr.node[i].login
          BY <1>0, <5>1 DEF IgrRecord, NoIntegration
        <5> QED BY <1>b, <5>1, <5>2
      <4>4. CASE WriteTypeAssignments(q) \/ UpdatePluginRegistration(q)
        BY <1>b, <4>4, Assigned_, PluginRegistered
      <4>5. CASE SaveCredentials(q)
        <5>1. CASE UNCHANGED <<igr, login, igrLog>>
          BY <1>b, <5>1
        <5>2. CASE ~UNCHANGED <<igr, login, igrLog>>
          <6> DEFINE v == Toggled(l.read, l.f, l.on)
          <6>1. igr'.node = [igr.node EXCEPT ![l.i] = [@ EXCEPT !.creds = v]] /\ igrLog'.raced = igrLog.raced
            BY <4>5, <5>2, CredentialsSaved DEF IgrBecomes
          <6> HIDE DEF v
          <6>2. \A i \in Integrations : igr'.node[i].login => igr.node[i].login
            BY <1>0, <6>1 DEF IgrRecord, IntegrationRecord
          <6> QED BY <1>b, <6>1, <6>2
        <5> QED BY <5>1, <5>2
      <4>6. CASE GetLoginApp(q) \/ StoreLoginApp(q)
        <5>1. UNCHANGED igr /\ (igrLog' = igrLog \/ \E S : igrLog' = [igrLog EXCEPT !.overdue = S])
          BY <1>0, <4>6 DEF GetLoginApp, StoreLoginApp, LookI, Served, IgrLogRecord
        <5> QED BY <1>0, <1>b, <5>1 DEF IgrLogRecord
      <4> QED BY <1>3, <3>3, <4>1, <4>2, <4>3, <4>4, <4>5, <4>6 DEF IgrSaved
    <3> QED BY <3>1, <3>2, <3>3, IgrMoves
  <2> QED BY <1>3, <1>a, <2>1
<1> QED BY <1>1, <1>2, <1>3

\* One integration logs the users in, unless two calls to choose one ran side by
\* side; one that is dropped is served no longer than the cache keeps its
\* answers, however reads, writes and invalidations are interleaved.
THEOREM ProjectsLogin == Spec => []LoginAsSet
<1>1. Init => ProviderInv /\ CacheInv
  <2> SUFFICES ASSUME Init PROVE ProviderInv /\ CacheInv
    OBVIOUS
  <2>1. \A q \in Slots : req[q].at = "idle"
    BY DEF Init, PoolInit, Idle
  <2>2. /\ login = [cache |-> {}, now |-> 0]
        /\ igrLog.overdue = {} /\ igrLog.badSince = [i \in Integrations |-> 0]
        /\ \A i, j \in Providers : i = j
        /\ \A i \in Integrations : Here(i)
    BY DEF Init, IgrInit, Installed, Providers, Here
  <2> QED BY <2>1, <2>2 DEF ProviderInv, CacheInv, AppLabels
<1>2. TypeInv /\ ProviderInv /\ CacheInv /\ [Next]_projectVars => (ProviderInv /\ CacheInv)'
  BY ProviderStep, CacheStep
<1>3. ProviderInv /\ CacheInv => LoginAsSet
  <2> SUFFICES ASSUME ProviderInv, CacheInv PROVE LoginAsSet
    OBVIOUS
  <2>1. ASSUME \A i, j \in Providers : i = j
        PROVE  Cardinality(Providers) <= 1
    <3>1. CASE Providers = {}
      <4>1. Cardinality(Providers) = 0
        BY <3>1, FS_EmptySet
      <4> QED BY <4>1
    <3>2. CASE Providers # {}
      <4>1. PICK i \in Providers : TRUE
        BY <3>2
      <4>2. Providers = {i}
        BY <2>1, <4>1
      <4>3. Cardinality({i}) = 1
        BY FS_Singleton
      <4> QED BY <4>2, <4>3
    <3> QED BY <3>1, <3>2
  <2>2. OneLoginProvider
    BY <2>1 DEF ProviderInv, OneLoginProvider, Providers
  <2> QED BY <2>2 DEF CacheInv, LoginAsSet, LoginServedInTime
<1> QED BY <1>1, <1>2, <1>3, Typed, PTL DEF Spec

-----------------------------------------------------------------------------
(* Who is rescored.                                                        *)

\* What a write changes that neither the scores nor the plugins depend on.
Minor == /\ prj'.dep = prj.dep /\ prj'.policies = prj.policies /\ repo' = repo
         /\ \A p \in Projects : \A f \in {"there", "archived", "slug"} : Node(p)'[f] = Node(p)[f]
         /\ \A f \in {"born", "asked", "owed", "unscored", "n", "heard", "loc", "apart"} : prjLog'[f] = prjLog[f]

LEMMA MinorWrites ==
    ASSUME TypeInv, NEW q \in Slots,
           \/ PatchProjectEnvironment(q) \/ DeleteTeam(q) \/ DeleteProjectType(q) \/ DeleteEnvironment(q)
           \/ WriteLinks(q)
    PROVE  Minor
<1> DEFINE Flags == {"there", "archived", "slug"}
           Fs == {"born", "asked", "owed", "unscored", "n", "heard", "loc", "apart"}
<1>a. /\ prj \in PrjRecord /\ prjLog \in PrjLogRecord
      /\ \A p \in Projects : Node(p) \in NodeRecord /\ prjLog.want[p] \in NodeRecord
      /\ LocalsOK(req[q])
  BY NodeTypes DEF TypeInv, PoolInv, PrjInv
<1>b. ASSUME prj'.dep = prj.dep, prj'.policies = prj.policies, UNCHANGED repo,
             \A p \in Projects : \A f \in Flags : prj'.node[p][f] = Node(p)[f],
             \E want, stale : prjLog' = [prjLog EXCEPT !.want = want, !.stale = stale]
      PROVE  Minor
  <2>1. PICK want, stale : prjLog' = [prjLog EXCEPT !.want = want, !.stale = stale]
    BY <1>b
  <2>2. \A f \in Fs : prjLog'[f] = prjLog[f]
    BY <1>a, <2>1 DEF PrjLogRecord
  <2>3. \A p \in Projects : \A f \in Flags : Node(p)'[f] = Node(p)[f]
    BY <1>b DEF Node
  <2> QED BY <1>b, <2>2, <2>3 DEF Minor
<1>c. \A want : [prjLog EXCEPT !.want = want] = [prjLog EXCEPT !.want = want, !.stale = prjLog.stale]
  BY <1>a DEF PrjLogRecord
<1>1. CASE PatchProjectEnvironment(q)
  <2>1. PICK p \in Projects, e \in Envs, set \in {"plain", "set"} :
          /\ prj' = [prj EXCEPT !.node[p].envs[e] = set] /\ UNCHANGED repo
          /\ prjLog' = [prjLog EXCEPT !.want[p].envs[e] = set]
    BY Zenon, <1>1 DEF PatchProjectEnvironment
  <2> DEFINE nodes == [prj.node EXCEPT ![p].envs[e] = set]
             want == [prjLog.want EXCEPT ![p].envs[e] = set]
  <2>2. prj' = [prj EXCEPT !.node = nodes] /\ prjLog' = [prjLog EXCEPT !.want = want]
    BY <1>a, <2>1 DEF PrjRecord, PrjLogRecord
  <2>3. \A x \in Projects : \A f \in Flags : nodes[x][f] = Node(x)[f]
    BY <1>a DEF PrjRecord, NodeRecord, Node
  <2> HIDE DEF nodes, want
  <2>4. prj'.node = nodes /\ prj'.dep = prj.dep /\ prj'.policies = prj.policies
    BY <1>a, <2>2, <2>3 DEF PrjRecord
  <2>5. \E w, s : prjLog' = [prjLog EXCEPT !.want = w, !.stale = s]
    BY <1>c, <2>2, <2>3
  <2>6. \A x \in Projects : \A f \in Flags : prj'.node[x][f] = Node(x)[f]
    BY Zenon, <2>2, <2>3, <2>4
  <2> QED BY Zenon, <1>b, <2>1, <2>4, <2>5, <2>6
<1>2. CASE DeleteTeam(q)
  <2> DEFINE leaves(node, t) == [node EXCEPT !.team = IF @ = t THEN NoTeam ELSE @]
  <2>1. PICK t \in prj.team : /\ prj' = [prj EXCEPT !.team = @ \ {t}, !.node = [p \in Projects |-> leaves(Node(p), t)]]
                              /\ prjLog' = [prjLog EXCEPT !.want = [p \in Projects |-> leaves(prjLog.want[p], t)]]
                              /\ UNCHANGED repo
    BY Zenon, <1>2 DEF DeleteTeam
  <2> DEFINE nodes == [p \in Projects |-> leaves(Node(p), t)]
             want == [p \in Projects |-> leaves(prjLog.want[p], t)]
             T == prj.team \ {t}
  <2>2. \A x \in Projects : \A f \in Flags : nodes[x][f] = Node(x)[f]
    BY <1>a DEF NodeRecord
  <2> HIDE DEF leaves
  <2>3. prj' = [prj EXCEPT !.team = T, !.node = nodes] /\ prjLog' = [prjLog EXCEPT !.want = want]
    BY <1>a, <2>1 DEF PrjRecord, PrjLogRecord
  <2> HIDE DEF nodes, want, T
  <2>4. prj'.node = nodes /\ prj'.dep = prj.dep /\ prj'.policies = prj.policies
    BY <1>a, <2>3 DEF PrjRecord
  <2>5. \E w, s : prjLog' = [prjLog EXCEPT !.want = w, !.stale = s]
    BY <1>c, <2>3
  <2>6. \A x \in Projects : \A f \in Flags : prj'.node[x][f] = Node(x)[f]
    BY Zenon, <2>2, <2>4
  <2> QED BY Zenon, <1>b, <2>1, <2>4, <2>5, <2>6
<1>3. CASE DeleteProjectType(q)
  <2> DEFINE leaves(node, t) == [node EXCEPT !.types = @ \ {t}]
  <2>1. PICK t \in igr.type : /\ prj' = [prj EXCEPT !.node = [p \in Projects |-> leaves(Node(p), t)]]
                              /\ prjLog' = [prjLog EXCEPT !.want = [p \in Projects |-> leaves(prjLog.want[p], t)]]
                              /\ UNCHANGED repo
    BY Zenon, <1>3 DEF DeleteProjectType
  <2> DEFINE nodes == [p \in Projects |-> leaves(Node(p), t)]
             want == [p \in Projects |-> leaves(prjLog.want[p], t)]
  <2>2. \A x \in Projects : \A f \in Flags : nodes[x][f] = Node(x)[f]
    BY <1>a DEF NodeRecord
  <2>3. prj' = [prj EXCEPT !.node = nodes] /\ prjLog' = [prjLog EXCEPT !.want = want]
    BY Zenon, <2>1
  <2> HIDE DEF nodes, want
  <2>4. prj'.node = nodes /\ prj'.dep = prj.dep /\ prj'.policies = prj.policies
    BY <1>a, <2>2, <2>3 DEF PrjRecord
  <2>5. \E w, s : prjLog' = [prjLog EXCEPT !.want = w, !.stale = s]
    BY <1>c, <2>2, <2>3
  <2>6. \A x \in Projects : \A f \in Flags : prj'.node[x][f] = Node(x)[f]
    BY Zenon, <2>2, <2>3, <2>4
  <2> QED BY Zenon, <1>b, <2>1, <2>4, <2>5, <2>6
<1>4. CASE DeleteEnvironment(q)
  <2> DEFINE leaves(node, e) == [node EXCEPT !.envs[e] = "none"]
  <2>1. PICK e \in prj.env : /\ prj' = [prj EXCEPT !.env = @ \ {e}, !.node = [p \in Projects |-> leaves(Node(p), e)]]
                             /\ prjLog' = [prjLog EXCEPT !.want = [p \in Projects |-> leaves(prjLog.want[p], e)]]
                             /\ UNCHANGED repo
    BY Zenon, <1>4 DEF DeleteEnvironment
  <2> DEFINE nodes == [p \in Projects |-> leaves(Node(p), e)]
             want == [p \in Projects |-> leaves(prjLog.want[p], e)]
             E == prj.env \ {e}
  <2>2. \A x \in Projects : \A f \in Flags : nodes[x][f] = Node(x)[f]
    BY <1>a DEF NodeRecord
  <2> HIDE DEF leaves
  <2>3. prj' = [prj EXCEPT !.env = E, !.node = nodes] /\ prjLog' = [prjLog EXCEPT !.want = want]
    BY <1>a, <2>1 DEF PrjRecord, PrjLogRecord
  <2> HIDE DEF nodes, want, E
  <2>4. prj'.node = nodes /\ prj'.dep = prj.dep /\ prj'.policies = prj.policies
    BY <1>a, <2>3 DEF PrjRecord
  <2>5. \E w, s : prjLog' = [prjLog EXCEPT !.want = w, !.stale = s]
    BY <1>c, <2>3
  <2>6. \A x \in Projects : \A f \in Flags : prj'.node[x][f] = Node(x)[f]
    BY Zenon, <2>2, <2>4
  <2> QED BY Zenon, <1>b, <2>1, <2>4, <2>5, <2>6
<1>5. CASE WriteLinks(q)
  <2> DEFINE l == req[q]
  <2>1. l.at = "life.linkset"
    BY <1>5 DEF WriteLinks, At
  <2>2. l.p \in Projects
    BY <1>a, <2>1 DEF LocalsOK, HasProject, HasEvents, CallLabels, LinkLabels
  <2>3. CASE ~Node(l.p).there
    <3>1. UNCHANGED <<prj, repo, prjLog>>
      BY <1>5, <2>3 DEF WriteLinks
    <3> QED BY <3>1 DEF Minor, Node
  <2>4. CASE Node(l.p).there
    <3> DEFINE w == Linked(prjLog.want[l.p].links, l.i, l.add)
               k == Linked(l.links, l.i, l.add)
               s == IF Node(l.p).links = l.links THEN prjLog.stale ELSE prjLog.stale \cup {l.p}
               nodes == [prj.node EXCEPT ![l.p].links = k]
               want == [prjLog.want EXCEPT ![l.p].links = w]
    <3>1. /\ prj' = [prj EXCEPT !.node[l.p].links = k] /\ UNCHANGED repo
          /\ prjLog' = [prjLog EXCEPT
               !.want[l.p].links = Linked(@, l.i, l.add),
               !.stale = IF Node(l.p).links = l.links THEN @ ELSE @ \cup {l.p}]
      BY Zenon, <1>5, <2>4 DEF WriteLinks
    <3>2. prjLog' = [prjLog EXCEPT !.want[l.p].links = w, !.stale = s]
      BY <3>1
    <3> HIDE DEF w, k, s
    <3>3. prj' = [prj EXCEPT !.node = nodes] /\ prjLog' = [prjLog EXCEPT !.want = want, !.stale = s]
      BY <1>a, <2>2, <3>1, <3>2 DEF PrjRecord, PrjLogRecord
    <3>4. \A x \in Projects : \A f \in Flags : nodes[x][f] = Node(x)[f]
      BY <1>a, <2>2 DEF PrjRecord, NodeRecord, Node
    <3> HIDE DEF nodes, want
    <3>5. prj'.node = nodes /\ prj'.dep = prj.dep /\ prj'.policies = prj.policies
      BY <1>a, <3>3 DEF PrjRecord
    <3>6. \E v, u : prjLog' = [prjLog EXCEPT !.want = v, !.stale = u]
      BY <3>3
    <3>7. \A x \in Projects : \A f \in Flags : prj'.node[x][f] = Node(x)[f]
      BY Zenon, <3>4, <3>5
    <3> QED BY Zenon, <1>b, <3>1, <3>5, <3>6, <3>7
  <2> QED BY <2>3, <2>4
<1> QED BY <1>1, <1>2, <1>3, <1>4, <1>5

\* q moves; whom it was to have rescored is owed no more, or is its still.
LEMMA RescoreKept ==
    ASSUME RescoreInv, NEW q \in Slots, Alone(q), prj'.policies = prj.policies,
           \A o \in Due' :
             \/ /\ o \in Due /\ ~Rescores(req[q], o)
                /\ o \in prj.dep /\ prj.policies => o \in prj'.dep
             \/ Rescores(req[q], o)',
           req'[q].at \in {"project.dependents", "project.requeue"} => prj.policies,
           ~prj.policies => \A o \in Due' : o \in Due \/ o[1] = o[2]
    PROVE  RescoreInv'
<1>1. ASSUME NEW o \in Due'
      PROVE  \E r \in Slots : Rescores(req[r], o)'
  <2>1. CASE /\ o \in Due /\ ~Rescores(req[q], o)
             /\ o \in prj.dep /\ prj.policies => o \in prj'.dep
    <3>1. PICK r \in Slots : Rescores(req[r], o)
      BY <2>1 DEF RescoreInv
    <3>2. req'[r] = req[r]
      BY <2>1, <3>1 DEF Alone
    <3>3. Rescores(req[r], o)'
      BY <2>1, <3>1, <3>2 DEF Rescores, RescoreInv
    <3> QED BY <3>3
  <2>2. CASE Rescores(req[q], o)'
    BY <2>2
  <2> QED BY <1>1, <2>1, <2>2
<1>2. ASSUME NEW r \in Slots, req'[r].at \in {"project.dependents", "project.requeue"}
      PROVE  prj.policies
  BY <1>2 DEF Alone, RescoreInv
<1>3. ~prj.policies => \A o \in Due' : o[1] = o[2]
  BY DEF RescoreInv
<1> QED BY <1>1, <1>2, <1>3 DEF RescoreInv

LEMMA RescoreApart ==
    ASSUME RescoreInv, NEW q \in Slots, Alone(q), prj'.policies = prj.policies, prj'.dep = prj.dep,
           Due' = Due, req[q].at \notin RescoreLabels,
           req'[q].at \notin {"project.dependents", "project.requeue"}
    PROVE  RescoreInv'
<1>1. \A o : ~Rescores(req[q], o)
  BY DEF Rescores, RescoreLabels, RelationLabels
<1> QED BY <1>1, RescoreKept

\* The handlers of Lifecycle stand where events are brought.
LEMMA LifecycleLands ==
    ASSUME TypeInv, NEW q \in Slots, LifecycleStep(q)
    PROVE  Alone(q) /\ req[q].at \in HasEvents /\ req'[q].at \in HasEvents \cup {"idle"}
<1> USE DEF HasEvents, CallLabels, LinkLabels, ResolveLabels, ResolvedLabels
<1>1. CASE ResolveEdges(q)
  BY <1>1, EdgesLand DEF Deletes, Nexts
<1>2. CASE ResolveIntegrations(q) \/ ResolveAssigned(q)
  BY <1>2, FoundLand
<1>3. CASE ResolveEnabled(q)
  BY <1>3, EnabledLand DEF Deletes, Nexts
<1>4. CASE ReadBundle(q) \/ BundleReadFails(q)
  BY <1>4, BundleLands
<1>5. CASE CallPlugin(q)
  BY <1>5, CallLands DEF CallsOn, Nexts
<1>6. CASE CallFails(q)
  BY <1>6, CallFailLands DEF CallsOn, Nexts
<1>7. CASE WriteService(q) \/ ReadLinks(q) \/ LinksLost(q) \/ WriteLinks(q)
  <2>1. /\ Alone(q) /\ req[q].at \in CallLabels
        /\ CallsOn(req[q], req[q].rest, req'[q]) \/ req'[q].at = "idle" \/ req'[q].at \in LinkLabels
    BY <1>7, LinkLands
  <2> QED BY <2>1 DEF CallsOn, Nexts
<1> QED BY <1>1, <1>2, <1>3, <1>4, <1>5, <1>6, <1>7 DEF LifecycleStep

LEMMA LifecycleOwes ==
    ASSUME TypeInv, NEW q \in Slots, LifecycleStep(q)
    PROVE  prj'.dep = prj.dep /\ prj'.policies = prj.policies /\ Due' = Due
<1> DEFINE l == req[q]
<1> USE DEF Due
<1>0. prjLog \in PrjLogRecord
  BY DEF TypeInv, PrjInv
<1>1. CASE ResolveEdges(q)
  <2>1. UNCHANGED prj /\ (prjLog' = prjLog \/ \E S : prjLog' = Apart(prjLog, l.p, S))
    BY <1>1, EdgesLand
  <2> QED BY <1>0, <2>1 DEF Apart, PrjLogRecord
<1>2. CASE ResolveIntegrations(q) \/ ResolveAssigned(q)
  BY <1>2, FoundLand
<1>3. CASE ResolveEnabled(q)
  <2>1. UNCHANGED prj /\ \E S : prjLog' = Apart(prjLog, l.p, S)
    BY <1>3, EnabledLand
  <2> QED BY <1>0, <2>1 DEF Apart, PrjLogRecord
<1>4. CASE ReadBundle(q) \/ BundleReadFails(q)
  <2>1. UNCHANGED prj /\ (prjLog' = prjLog \/ prjLog' = Apart(prjLog, l.p, Integrations))
    BY <1>4 DEF ReadBundle, WaitP, BundleReadFails
  <2> QED BY <1>0, <2>1 DEF Apart, PrjLogRecord
<1>5. CASE CallPlugin(q)
  <2>1. UNCHANGED prj
        /\ \E i, S : \/ prjLog' = Apart(prjLog, l.p, S)
                                \/ prjLog' = Apart([prjLog EXCEPT !.heard[l.p][i] = IF l.n > @ THEN l.n ELSE @], l.p, S)
    BY <1>5, CallLands
  <2>2. PICK i, S : \/ prjLog' = Apart(prjLog, l.p, S)
                               \/ prjLog' = Apart([prjLog EXCEPT !.heard[l.p][i] = IF l.n > @ THEN l.n ELSE @], l.p, S)
    BY <2>1
  <2> QED BY <1>0, <2>1, <2>2 DEF Apart, PrjLogRecord
<1>6. CASE CallFails(q)
  <2>1. UNCHANGED prj /\ \E S : prjLog' = Apart(prjLog, l.p, S)
    BY <1>6, CallFailLands
  <2> QED BY <1>0, <2>1 DEF Apart, PrjLogRecord
<1>7. CASE WriteService(q) \/ ReadLinks(q)
  BY <1>7 DEF WriteService, ReadLinks, WaitP
<1>8. CASE LinksLost(q)
  <2>1. UNCHANGED prj /\ (prjLog' = prjLog \/ prjLog' = [prjLog EXCEPT !.stale = @ \cup {l.p}])
    BY <1>8 DEF LinksLost
  <2> QED BY <1>0, <2>1 DEF PrjLogRecord
<1>9. CASE WriteLinks(q)
  BY <1>9, MinorWrites DEF Minor
<1> QED BY <1>1, <1>2, <1>3, <1>4, <1>5, <1>6, <1>7, <1>8, <1>9 DEF LifecycleStep

\* The writes of a project do not touch the scores, or have them done again.
LEMMA RescoreStep ==
    ASSUME TypeInv, RescoreInv, [Next]_projectVars
    PROVE  RescoreInv'
<1> USE DEF RescoreLabels, RelationLabels
<1>0. /\ prj \in PrjRecord /\ prjLog \in PrjLogRecord /\ \A q \in Slots : LocalsOK(req[q])
      /\ \A o \in Due : o = <<o[1], o[2]>> /\ o[1] \in Projects /\ o[2] \in Projects
  BY DEF TypeInv, PoolInv, PrjInv, PrjLogRecord, Due
<1>i. Idle.at = "idle"
  BY DEF Idle
<1>u. UNCHANGED prjLog => Due' = Due
  BY DEF Due
<1>1. CASE (LoginTick /\ UNCHANGED <<prj, repo, prjLog>>) \/ UNCHANGED projectVars
  <2>1. UNCHANGED <<req, prj, prjLog>>
    BY <1>1 DEF LoginTick, projectVars, pool
  <2> QED BY <2>1 DEF RescoreInv, Rescores, Due
<1>2. ASSUME NEW q \in Slots, PlainActs(q)
      PROVE  RescoreInv'
  <2> DEFINE l == req[q]
             m == req'[q]
  <2>1. PlainLanding(q)
    BY <1>2, PlainLands DEF PlainActs
  <2>2. Alone(q) /\ m.at \notin {"project.dependents", "project.requeue"}
    BY <2>1 DEF PlainLanding, CreateLabels, PatchLabels, OwnedLabels
  <2>3. CASE CreateRelationship(q) \/ DeleteRelationship(q)
    <3>1. PICK s \in Projects :
             /\ Begin(q, [at |-> "rel.policies", p |-> s])
             /\ prj' = [prj EXCEPT !.dep = prj'.dep]
             /\ prjLog' = (IF prj.policies THEN Owing(prjLog, {<<s, s>>}) ELSE prjLog)
             /\ \A o \in Projects \ {s}, t \in Projects : (<<o, t>> \in prj'.dep) = (<<o, t>> \in prj.dep)
      BY <1>0, <2>3, Relates
    <3>2. m = [at |-> "rel.policies", p |-> s] /\ l.at = "idle"
      BY <3>1, TakesBegin
    <3>3. m.at = "rel.policies" /\ m.p = s
      BY <3>2
    <3>4. prj'.policies = prj.policies
      BY <1>0, <3>1 DEF PrjRecord
    <3>5. Due' = IF prj.policies THEN Due \cup {<<s, s>>} ELSE Due
      <4>1. {<<s, s>>} \in SUBSET (Projects \X Projects)
        BY <3>1
      <4> QED BY <1>0, <3>1, <4>1, OwingTypes DEF Due
    <3>6. ASSUME NEW o \in Due'
          PROVE  \/ /\ o \in Due /\ ~Rescores(l, o)
                    /\ o \in prj.dep /\ prj.policies => o \in prj'.dep
                 \/ Rescores(req[q], o)'
      <4>1. CASE prj.policies /\ o[1] = s
        <5>1. Rescores(req[q], o)'
          BY <3>3, <3>4, <4>1 DEF Rescores
        <5> QED BY <5>1
      <4>2. CASE ~prj.policies
        BY <3>2, <3>5, <4>2 DEF Rescores
      <4>3. CASE o[1] # s
        <5>1. o \in Due /\ (o \in prj.dep => o \in prj'.dep)
          BY <1>0, <3>1, <3>5, <4>3
        <5> QED BY <3>2, <5>1 DEF Rescores
      <4> QED BY <4>1, <4>2, <4>3
    <3> QED BY <2>2, <3>4, <3>5, <3>6, RescoreKept
  <2>4. CASE ConditionPoliciesExist(q)
    <3>1. /\ Step(q, "rel.policies", IF prj.policies THEN To(q, "rel.queue") ELSE Idle)
          /\ UNCHANGED <<prj, prjLog>>
      BY <2>4 DEF ConditionPoliciesExist, WaitP
    <3>2. l.at = "rel.policies" /\ m = IF prj.policies THEN To(q, "rel.queue") ELSE Idle
      BY <3>1, TakesStep
    <3>3. {"at", "p"} \subseteq DOMAIN l
      BY <1>0, <3>2 DEF LocalsOK, HasProject
    <3>4. prj.policies => m.at = "rel.queue" /\ m.p = l.p
      BY <3>2, <3>3 DEF To
    <3>5. ASSUME NEW o \in Due'
          PROVE  \/ o \in Due /\ ~Rescores(l, o) /\ (o \in prj.dep /\ prj.policies => o \in prj'.dep)
                 \/ Rescores(req[q], o)'
      <4>1. CASE Rescores(l, o)
        <5>1. prj.policies /\ o[1] = l.p
          BY <3>2, <4>1 DEF Rescores
        <5>2. Rescores(req[q], o)'
          BY <3>4, <5>1 DEF Rescores
        <5> QED BY <5>2
      <4>2. CASE ~Rescores(l, o)
        BY <1>u, <3>1, <4>2
      <4> QED BY <4>1, <4>2
    <3> QED BY <1>u, <2>2, <3>1, <3>5, RescoreKept
  <2>5. CASE EnqueueSource(q)
    <3>1. /\ Step(q, "rel.queue", Idle) /\ UNCHANGED prj
          /\ prjLog' = Queued(prjLog, {l.p})
      BY <2>5 DEF EnqueueSource
    <3>2. l.at = "rel.queue"
      BY <3>1, TakesStep
    <3>3. Due' = Due \ ({l.p} \X Projects)
      BY <1>0, <3>1, QueuedTypes DEF Due
    <3>4. \A o \in Due' : o \in Due /\ ~Rescores(l, o)
      BY <1>0, <3>2, <3>3 DEF Rescores
    <3> QED BY <2>2, <3>1, <3>3, <3>4, RescoreKept
  <2>6. CASE ~(CreateRelationship(q) \/ DeleteRelationship(q) \/ ConditionPoliciesExist(q) \/ EnqueueSource(q))
    <3>1. prj'.policies = prj.policies /\ prj'.dep = prj.dep /\ Due' = Due
      <4> USE DEF Due
      <4>1. CASE PatchProjectEnvironment(q) \/ DeleteTeam(q) \/ DeleteProjectType(q) \/ DeleteEnvironment(q)
        BY <4>1, MinorWrites DEF Minor
      <4>2. CASE CreateProject(q) \/ PatchProject(q) \/ DeleteProject(q) \/ UpdateProjectService(q)
                 \/ ReplaceProjectIntegrations(q)
        BY <4>2, BeginsOnly
      <4>3. CASE ValidateEnvs(q) \/ CheckPatch(q) \/ ListAssigned(q) \/ CheckAssigned(q)
        BY <4>3 DEF ValidateEnvs, CheckPatch, ListAssigned, CheckAssigned, WaitP
      <4>4. CASE CreateProjectService(q) \/ DeleteProjectService(q) \/ ReplaceAssignments(q)
        BY <4>4 DEF CreateProjectService, DeleteProjectService, ReplaceAssignments
      <4> QED BY <1>2, <2>6, <4>1, <4>2, <4>3, <4>4 DEF PlainActs
    <3>2. l.at \notin RescoreLabels
      <4>a. ASSUME NEW next, Begin(q, next)
            PROVE  l.at = "idle"
        BY <4>a, TakesBegin
      <4>1. CASE PatchProjectEnvironment(q) \/ DeleteTeam(q) \/ DeleteProjectType(q) \/ DeleteEnvironment(q)
        <5>1. Begin(q, Idle)
          BY Zenon, <4>1 DEF PatchProjectEnvironment, DeleteTeam, DeleteProjectType, DeleteEnvironment
        <5> QED BY <4>a, <5>1
      <4>2. CASE CreateProject(q) \/ PatchProject(q) \/ DeleteProject(q) \/ UpdateProjectService(q)
                 \/ ReplaceProjectIntegrations(q)
        <5>1. \E next : Begin(q, next)
          BY Zenon, <4>2 DEF CreateProject, PatchProject, DeleteProject, UpdateProjectService,
                     ReplaceProjectIntegrations, LookP
        <5> QED BY <4>a, <5>1
      <4>3. CASE CreateProjectService(q) \/ DeleteProjectService(q)
        <5>1. \E next : Begin(q, next)
          BY Zenon, <4>3 DEF CreateProjectService, DeleteProjectService
        <5> QED BY <4>a, <5>1
      <4>4. CASE ValidateEnvs(q) \/ CheckPatch(q) \/ ListAssigned(q) \/ CheckAssigned(q) \/ ReplaceAssignments(q)
        <5>1. l.at \in CreateLabels \cup PatchLabels \cup OwnedLabels
          BY <4>4 DEF ValidateEnvs, CheckPatch, ListAssigned, CheckAssigned, ReplaceAssignments, WaitP, Step, At,
                      CreateLabels, PatchLabels, OwnedLabels
        <5> QED BY <5>1 DEF CreateLabels, PatchLabels, OwnedLabels
      <4> QED BY <1>2, <2>6, <4>1, <4>2, <4>3, <4>4 DEF PlainActs
    <3> QED BY <2>2, <3>1, <3>2, RescoreApart
  <2> QED BY <2>3, <2>4, <2>5, <2>6
<1>3. ASSUME NEW q \in Slots, TellActs(q)
      PROVE  RescoreInv'
  <2> DEFINE l == req[q]
             m == req'[q]
  <2>1. /\ Alone(q) /\ UNCHANGED prj
        /\ \/ /\ l.at = "project.rescore" /\ Tells(l, m)
              /\ m.at = IF prj.policies THEN "project.dependents" ELSE "project.tell"
              /\ prjLog' = Queued(prjLog, {l.p})
           \/ /\ l.at = "project.dependents" /\ Tells(l, m) /\ UNCHANGED prjLog
              /\ m.at = "project.requeue" /\ m.deps = Deps(l.p)
           \/ /\ l.at = "project.requeue" /\ Tells(l, m) /\ m.at = "project.tell"
              /\ prjLog' = Queued(prjLog, l.deps)
           \/ /\ l.at = "project.tell" /\ Brought(m, l.p, Told(l), l.n, l.types) /\ UNCHANGED prjLog
    BY <1>3, TellLands DEF TellActs
  <2>2. CASE /\ l.at = "project.rescore" /\ Tells(l, m)
             /\ m.at = IF prj.policies THEN "project.dependents" ELSE "project.tell"
             /\ prjLog' = Queued(prjLog, {l.p})
    <3>1. Due' = Due \ ({l.p} \X Projects)
      BY <1>0, <2>2, QueuedTypes DEF Due
    <3>2. ASSUME NEW o \in Due'
          PROVE  (o \in Due /\ ~Rescores(l, o)) \/ Rescores(req[q], o)'
      <4>1. o \in Due /\ o[1] # l.p
        BY <1>0, <3>1
      <4>2. CASE Rescores(l, o)
        <5>1. prj.policies /\ o \in prj.dep /\ o[2] = l.p
          BY <2>2, <4>1, <4>2 DEF Rescores
        <5>2. m.at = "project.dependents" /\ m.p = o[2] /\ o \in prj'.dep
          BY <2>1, <2>2, <5>1 DEF Tells
        <5>3. Rescores(req[q], o)'
          BY <5>2 DEF Rescores
        <5> QED BY <5>3
      <4> QED BY <4>1, <4>2
    <3> QED BY <2>1, <2>2, <3>1, <3>2, RescoreKept
  <2>3. CASE /\ l.at = "project.dependents" /\ Tells(l, m) /\ UNCHANGED prjLog
             /\ m.at = "project.requeue" /\ m.deps = Deps(l.p)
    <3>1. ASSUME NEW o \in Due'
          PROVE  (o \in Due /\ ~Rescores(l, o)) \/ Rescores(req[q], o)'
      <4>1. CASE Rescores(l, o)
        <5>1. o[2] = l.p /\ o \in prj.dep
          BY <2>3, <4>1 DEF Rescores
        <5>2. o[1] \in Deps(l.p)
          BY <5>1 DEF Deps
        <5>3. Rescores(req[q], o)'
          BY <2>3, <5>1, <5>2 DEF Rescores, Tells
        <5> QED BY <5>3
      <4> QED BY <1>u, <2>3, <4>1
    <3>2. prj.policies
      BY <2>3 DEF RescoreInv
    <3> QED BY <1>u, <2>1, <2>3, <3>1, <3>2, RescoreKept
  <2>4. CASE /\ l.at = "project.requeue" /\ m.at = "project.tell"
             /\ prjLog' = Queued(prjLog, l.deps)
    <3>1. Due' = Due \ (l.deps \X Projects)
      BY <1>0, <2>4, QueuedTypes DEF Due
    <3>2. \A o \in Due' : o \in Due /\ ~Rescores(l, o)
      BY <1>0, <2>4, <3>1 DEF Rescores
    <3> QED BY <2>1, <2>4, <3>1, <3>2, RescoreKept
  <2>5. CASE l.at = "project.tell" /\ Brought(m, l.p, Told(l), l.n, l.types) /\ UNCHANGED prjLog
    BY <1>u, <2>1, <2>5, RescoreApart DEF Brought
  <2> QED BY <2>1, <2>2, <2>3, <2>4, <2>5
<1>4. ASSUME NEW q \in Slots, PatchProjectSave(q)
      PROVE  RescoreInv'
  <2> DEFINE l == req[q]
             m == req'[q]
  <2>1. /\ Alone(q) /\ l.at = "project.save" /\ l.p \in Projects
        /\ ~Reachable(l.p) \/ PatchCut(l) => m = Idle
        /\ Reachable(l.p) /\ ~PatchCut(l) => m.at = "project.rescore" /\ m.p = l.p
        /\ ~Reachable(l.p) => UNCHANGED <<prj, prjLog>>
        /\ Reachable(l.p) => \E new : prj' = [prj EXCEPT !.node[l.p] = new]
        /\ Reachable(l.p) =>
             /\ prjLog'.owed = prjLog.owed \cup PatchOwes(l)
             /\ prjLog'.unscored = (IF PatchCut(l) THEN prjLog.unscored \cup PatchOwes(l)
                                    ELSE prjLog.unscored \ PatchOwes(l))
    <3>1. /\ Alone(q) /\ (~Reachable(l.p) \/ PatchCut(l) => m = Idle)
          /\ Reachable(l.p) /\ ~PatchCut(l) => m.at = "project.rescore" /\ m.p = l.p
      BY Zenon, <1>4, SaveLands
    <3>2. /\ l.at = "project.save" /\ l.p \in Projects
          /\ ~Reachable(l.p) => UNCHANGED <<prj, prjLog>>
          /\ Reachable(l.p) => /\ prj' = [prj EXCEPT !.node[l.p] = PatchNew(l)]
                               /\ prjLog'.owed = prjLog.owed \cup PatchOwes(l)
                               /\ prjLog'.unscored = (IF PatchCut(l) THEN prjLog.unscored \cup PatchOwes(l)
                                                      ELSE prjLog.unscored \ PatchOwes(l))
      BY <1>4, PatchDoes
    <3> QED BY Zenon, <3>1, <3>2
  <2>2. prj'.policies = prj.policies /\ prj'.dep = prj.dep
    BY <1>0, <2>1 DEF PrjRecord
  <2>3. CASE ~Reachable(l.p) \/ PatchCut(l)
    <3>1. \A o \in Due' : o \in Due
      <4>1. CASE ~Reachable(l.p)
        BY <2>1, <4>1 DEF Due
      <4>2. CASE Reachable(l.p) /\ PatchCut(l)
        BY <2>1, <4>2 DEF Due
      <4> QED BY <2>3, <4>1, <4>2
    <3>2. \A o : ~Rescores(l, o)
      BY <2>1 DEF Rescores
    <3>3. m = Idle
      BY <2>1, <2>3
    <3> QED BY <1>i, <2>1, <2>2, <3>1, <3>2, <3>3, RescoreKept
  <2>4. CASE Reachable(l.p) /\ ~PatchCut(l)
    <3>1. PatchOwes(l) = ({l.p} \cup IF prj.policies THEN Deps(l.p) ELSE {}) \X {l.p}
      BY <2>4 DEF PatchOwes
    <3>2. ASSUME NEW o \in PatchOwes(l)
          PROVE  Rescores(req[q], o)' /\ (~prj.policies => o[1] = o[2])
      <4>1. o[2] = l.p /\ (o[1] = l.p \/ (prj.policies /\ o[1] \in Deps(l.p)))
        BY <3>1
      <4>2. o = <<o[1], o[2]>>
        BY <3>1
      <4>3. o[1] \in Deps(l.p) => o \in prj.dep
        <5>1. ASSUME NEW e \in prj.dep, e[2] = l.p, o[1] = e[1]
              PROVE  o \in prj.dep
          BY <1>0, <4>1, <4>2, <5>1 DEF PrjRecord
        <5> QED BY <5>1 DEF Deps
      <4>4. Rescores(req[q], o)'
        BY <2>1, <2>2, <2>4, <4>1, <4>3 DEF Rescores
      <4> QED BY <4>1, <4>4
    <3>3. \A o : ~Rescores(l, o)
      BY <2>1 DEF Rescores
    <3>4. Due' = Due \cup PatchOwes(l)
      BY <2>1, <2>4 DEF Due
    <3> QED BY <2>1, <2>2, <2>4, <3>2, <3>3, <3>4, RescoreKept
  <2> QED BY <2>3, <2>4
<1>5. ASSUME NEW q \in Slots, CreateProjectNode(q)
      PROVE  RescoreInv'
  <2> DEFINE l == req[q]
             m == req'[q]
  <2>1. /\ Alone(q) /\ (m = Idle \/ Brought(m, l.p, {"created"}, 1, CreateNew(l.doc).types))
        /\ l.at = "project.create" /\ l.p \in Projects
        /\ \/ UNCHANGED <<prj, prjLog>>
           \/ /\ \E new : prj' = [prj EXCEPT !.node[l.p] = new]
              /\ prjLog'.owed = prjLog.owed /\ prjLog'.unscored = prjLog.unscored
    BY Zenon, <1>5, CreationLands, CreateDoes
  <2>2. prj'.policies = prj.policies /\ prj'.dep = prj.dep /\ Due' = Due
    BY <1>0, <2>1 DEF Due, PrjRecord
  <2>3. l.at \notin RescoreLabels /\ m.at \notin {"project.dependents", "project.requeue"}
    BY <1>i, <2>1 DEF Brought
  <2> QED BY <2>1, <2>2, <2>3, RescoreApart
<1>6. ASSUME NEW q \in Slots, ArchiveProject(q) \/ UnarchiveProject(q)
      PROVE  RescoreInv'
  <2>1. PICK p \in Projects, archived \in BOOLEAN :
          /\ Reachable(p)
          /\ Begin(q, Dispatch(p, IF archived THEN <<"archived">> ELSE <<"unarchived">>,
                               prjLog.n[p] + 1, Node(p).types))
          /\ prj' = [prj EXCEPT !.node[p].archived = archived] /\ UNCHANGED repo /\ IgrSame
          /\ prjLog'.want = [prjLog.want EXCEPT ![p].archived = archived]
          /\ prjLog'.n = [prjLog.n EXCEPT ![p] = prjLog.n[p] + 1]
          /\ \A f \in {"stale", "born", "asked", "owed", "unscored", "apart", "heard", "loc"} : prjLog'[f] = prjLog[f]
    BY Zenon, <1>6, ArchiveDoes
  <2> DEFINE n == prjLog.n[p] + 1
             types == Node(p).types
  <2>2. prj'.policies = prj.policies /\ prj'.dep = prj.dep /\ Due' = Due
    <3>1. prjLog'.owed = prjLog.owed /\ prjLog'.unscored = prjLog.unscored
      BY <2>1
    <3> QED BY <1>0, <2>1, <3>1 DEF Due, PrjRecord
  <2> HIDE DEF n, types
  <2>3. Begin(q, Dispatch(p, IF archived THEN <<"archived">> ELSE <<"unarchived">>, n, types))
    BY <2>1 DEF n, types
  <2>4. Alone(q) /\ req[q] = Idle /\ Brought(req'[q], p, {IF archived THEN "archived" ELSE "unarchived"}, n, types)
    BY Zenon, <2>3, ArchiveLands
  <2>5. req[q].at = "idle" /\ req'[q].at \in {"idle", "life.edges"}
    BY <1>i, <2>4 DEF Brought
  <2> QED BY <2>1, <2>2, <2>4, <2>5, RescoreApart
<1>7. ASSUME NEW q \in Slots, SyncProjectLifecycle(q)
      PROVE  RescoreInv'
  <2>1. Alone(q) /\ req[q] = Idle /\ UNCHANGED <<prj, prjLog>> /\ req'[q].at \in {"idle", "life.edges"}
    BY <1>7, SyncLands DEF Brought
  <2> QED BY <1>i, <1>u, <2>1, RescoreApart
<1>8. ASSUME NEW q \in Slots, DeleteProjectNode(q)
      PROVE  RescoreInv'
  <2> DEFINE l == req[q]
             m == req'[q]
  <2>1. /\ Alone(q) /\ l.at = "project.delete" /\ (m = Idle \/ m.at = "life.call") /\ l.p \in Projects
        /\ ~Reachable(l.p) => UNCHANGED <<prj, prjLog>>
        /\ Reachable(l.p) => /\ prj'.dep = {e \in prj.dep : l.p \notin {e[1], e[2]}} /\ prj'.policies = prj.policies
                             /\ prjLog'.owed = {o \in prjLog.owed \cup Bereft(l.p) : o[1] # l.p}
                             /\ prjLog'.unscored = prjLog.unscored \cup Bereft(l.p)
    BY Zenon, <1>8, DeletionLands, DeleteDoes
  <2>2. \A o : ~Rescores(l, o)
    BY <2>1 DEF Rescores
  <2>3. m.at \notin {"project.dependents", "project.requeue"}
    BY <1>i, <2>1
  <2>4. CASE ~Reachable(l.p)
    BY <1>u, <2>1, <2>2, <2>3, <2>4, RescoreKept
  <2>5. CASE Reachable(l.p)
    <3>1. ASSUME NEW o \in Due'
          PROVE  o \in Due /\ (o \in prj.dep /\ prj.policies => o \in prj'.dep)
      <4>1. o \in Due /\ o \notin Bereft(l.p) /\ o[1] # l.p
        BY <2>1, <2>5, <3>1 DEF Due
      <4>2. ASSUME o \in prj.dep, prj.policies, o[2] = l.p
            PROVE  o \in Bereft(l.p)
        <5>1. o[1] \in Deps(l.p)
          BY <4>2 DEF Deps
        <5>2. o = <<o[1], l.p>>
          BY <1>0, <4>1, <4>2 DEF Due
        <5> QED BY <4>2, <5>1, <5>2 DEF Bereft
      <4> QED BY <2>1, <2>5, <4>1, <4>2
    <3> QED BY <2>1, <2>2, <2>3, <2>5, <3>1, RescoreKept
  <2> QED BY <2>4, <2>5
<1>9. ASSUME NEW q \in Slots, DieP(q)
      PROVE  RescoreInv'
  <2> DEFINE l == req[q]
  <2>1. req'[q] = Idle /\ Alone(q) /\ UNCHANGED prj
    BY <1>9, DieLands
  <2>2. CASE l.at \notin RescoreLabels
    <3>1. \A o \in Due' : o \in Due
      <4>1. CASE "p" \notin DOMAIN l
        BY <1>9, <4>1 DEF DieP, Due
      <4>2. CASE "p" \in DOMAIN l
        <5> DEFINE a == Apart(prjLog, l.p, Integrations)
        <5>0. l.p \in Projects
          BY <1>0, <4>2 DEF LocalsOK
        <5>1. a.owed = prjLog.owed /\ a.unscored = prjLog.unscored
          BY <1>0, <5>0 DEF Apart, PrjLogRecord
        <5>2. prjLog' = a
          BY <1>9, <2>2, <4>2 DEF DieP
        <5> HIDE DEF a
        <5> QED BY <5>1, <5>2 DEF Due
      <4> QED BY <4>1, <4>2
    <3>2. \A o : ~Rescores(l, o)
      BY <2>2 DEF Rescores
    <3> QED BY <1>i, <2>1, <2>2, <3>1, <3>2, RescoreKept
  <2>3. CASE l.at \in RescoreLabels
    <3>1. "p" \in DOMAIN l /\ l.p \in Projects
      BY <1>0, <2>3 DEF LocalsOK, HasProject, TellLabels
    <3> DEFINE a == Apart(prjLog, l.p, Integrations)
               S == {o \in prjLog.owed : l.p \in {o[1], o[2]}}
    <3>2. a.owed = prjLog.owed /\ a.unscored = prjLog.unscored /\ a \in PrjLogRecord
      BY <1>0, <3>1 DEF Apart, PrjLogRecord
    <3>3. prjLog' = Unscored(a, S)
      <4>1. prjLog' = Unscored(a, {o \in a.owed : l.p \in {o[1], o[2]}})
        BY Zenon, <1>9, <2>3, <3>1 DEF DieP
      <4> QED BY <3>2, <4>1
    <3>4. Due' = Due \ S
      <4>1. S \in SUBSET (Projects \X Projects)
        BY <1>0 DEF PrjLogRecord
      <4> HIDE DEF a, S
      <4>2. prjLog'.owed = a.owed \cup S /\ prjLog'.unscored = a.unscored \cup S
        BY <3>2, <3>3, <4>1, UnscoredTypes
      <4> QED BY <3>2, <4>2 DEF Due
    <3>5. \A o \in Due' : o \in Due /\ ~Rescores(l, o)
      BY <3>4 DEF Rescores, Due
    <3> QED BY <1>i, <2>1, <3>4, <3>5, RescoreKept
  <2> QED BY <2>2, <2>3
<1>10. ASSUME NEW q \in Slots, LifecycleStep(q)
       PROVE  RescoreInv'
  <2>1. Alone(q) /\ req[q].at \in HasEvents /\ req'[q].at \in HasEvents \cup {"idle"}
    BY <1>10, LifecycleLands
  <2>2. req[q].at \notin RescoreLabels /\ req'[q].at \notin {"project.dependents", "project.requeue"}
    BY <2>1 DEF HasEvents, ResolveLabels, ResolvedLabels, CallLabels, LinkLabels
  <2> QED BY <1>10, <2>1, <2>2, LifecycleOwes, RescoreApart
<1>11. ASSUME NEW q \in Slots, IgrActs(q), IgrAlone
       PROVE  RescoreInv'
  <2>1. IgrLanding(q)
    BY <1>11, IgrLands DEF IgrActs
  <2>2. Alone(q) /\ req[q].at \notin RescoreLabels /\ req'[q].at \notin {"project.dependents", "project.requeue"}
    BY <2>1 DEF IgrLanding, IgrLabels, TypedLabels, CredLabels, LoginLabels, AppLabels
  <2>3. prj' = prj /\ Due' = Due
    BY <1>0, <1>11 DEF IgrAlone, PrjLogRecord, Due
  <2> QED BY <2>2, <2>3, RescoreApart
<1> QED BY <1>1, <1>2, <1>3, <1>4, <1>5, <1>6, <1>7, <1>8, <1>9, <1>10, <1>11, Steps

\* Once nobody is at work the projects that wait for a new score are those left
\* unscored, by the deletion of a dependency, by a request that died, or by one
\* answered 404 for a patch it had written: every other change of a project, of a
\* dependency of it or of its dependencies has queued it, however the calls met.
THEOREM ProjectsRescored == Spec => []DependentsRescored
<1>1. Init => RescoreInv
  <2> SUFFICES ASSUME Init PROVE RescoreInv
    OBVIOUS
  <2>1. \A q \in Slots : req[q].at = "idle"
    BY DEF Init, PoolInit, Idle
  <2>2. Due = {}
    BY DEF Init, PrjInit, Due
  <2> QED BY <2>1, <2>2 DEF RescoreInv
<1>2. TypeInv /\ RescoreInv /\ [Next]_projectVars => RescoreInv'
  BY RescoreStep
<1>3. RescoreInv => DependentsRescored
  BY DEF RescoreInv, DependentsRescored, Due, Rescores, Idle
<1> QED BY <1>1, <1>2, <1>3, Typed, PTL DEF Spec

-----------------------------------------------------------------------------
(* The repositories at the remote.                                         *)

\* Whose events come has a project.
LEMMA ComingFrom ==
    ASSUME TypeInv, NEW q \in Slots, NEW i, Coming(req[q], i) # {}
    PROVE  /\ req[q].p \in Projects /\ req[q].n \in Nat /\ req[q].types \in SUBSET Types
           /\ req[q].at \in TellLabels \cup ResolveLabels \cup {"life.bundle"} \cup CallLabels
           /\ req[q].at \notin TellLabels => DispatchOK(req[q])
<1> DEFINE l == req[q]
<1> USE DEF TellLabels, ResolveLabels, ResolvedLabels, CallLabels, LinkLabels
<1>0. LocalsOK(l)
  BY DEF TypeInv, PoolInv
<1>1. \/ l.at \in TellLabels
      \/ l.at \in ResolveLabels \cup {"life.bundle"}
      \/ l.at \in CallLabels /\ l.todo # <<>>
  BY DEF Coming
<1>2. l.p \in Projects
  BY <1>0, <1>1 DEF LocalsOK, HasProject, HasEvents
<1>3. CASE l.at \in TellLabels
  BY <1>0, <1>2, <1>3 DEF LocalsOK
<1>4. CASE l.at \notin TellLabels
  <2>1. DispatchOK(l)
    BY <1>0, <1>1, <1>4 DEF LocalsOK, HasEvents
  <2> QED BY <1>1, <1>2, <1>4, <2>1 DEF DispatchOK
<1> QED BY <1>3, <1>4

\* Nothing the repositories are to follow changes.
Unmoved ==
  /\ \A p \in Projects : \A f \in {"there", "archived", "slug"} : Node(p)'[f] = Node(p)[f]
  /\ repo' = repo
  /\ \A f \in {"born", "asked", "n", "heard", "loc"} : prjLog'[f] = prjLog[f]
  /\ prjLog.apart \subseteq prjLog'.apart

LEMMA Unmoves ==
    ASSUME TypeInv, NEW q \in Slots,
           \/ PlainActs(q) \/ TellActs(q) \/ SyncProjectLifecycle(q) \/ DieP(q) \/ (IgrActs(q) /\ IgrAlone)
           \/ LifecycleStep(q) /\ ~CallPlugin(q) /\ ~CallFails(q)
    PROVE  Unmoved
<1> DEFINE l == req[q]
<1>0. prjLog \in PrjLogRecord /\ prj \in PrjRecord /\ LocalsOK(l)
  BY DEF TypeInv, PoolInv, PrjInv
<1>a. ASSUME UNCHANGED <<prj, repo, prjLog>>
      PROVE  Unmoved
  BY <1>a DEF Unmoved, Node
<1>b. ASSUME UNCHANGED <<prj, repo>>, \E S : prjLog' = Queued(prjLog, S)
      PROVE  Unmoved
  BY <1>0, <1>b DEF Unmoved, Node, PrjLogRecord, Queued
<1>c. ASSUME UNCHANGED <<prj, repo>>, \E S : prjLog' = Apart(prjLog, l.p, S)
      PROVE  Unmoved
  BY <1>0, <1>c DEF Unmoved, Node, PrjLogRecord, Apart
<1>d. ASSUME Minor
      PROVE  Unmoved
  BY <1>d DEF Unmoved, Minor
<1>1. CASE PlainActs(q)
  <2>1. CASE CreateRelationship(q) \/ DeleteRelationship(q)
    <3>1. /\ prj' = [prj EXCEPT !.dep = prj'.dep] /\ UNCHANGED repo
          /\ prjLog' = prjLog \/ \E s : prjLog' = Owing(prjLog, {<<s, s>>})
      BY <1>0, <2>1, Relates
    <3>2. prj'.node = prj.node
      BY <1>0, <3>1 DEF PrjRecord
    <3> QED BY <1>0, <3>1, <3>2 DEF Unmoved, Node, PrjLogRecord, Owing
  <2>2. CASE PatchProjectEnvironment(q) \/ DeleteTeam(q) \/ DeleteProjectType(q) \/ DeleteEnvironment(q)
    BY <1>d, <2>2, MinorWrites
  <2>3. CASE CreateProject(q) \/ PatchProject(q) \/ DeleteProject(q) \/ UpdateProjectService(q)
             \/ ReplaceProjectIntegrations(q)
    BY <1>a, <2>3, BeginsOnly
  <2>4. CASE ValidateEnvs(q) \/ CheckPatch(q) \/ ListAssigned(q) \/ CheckAssigned(q) \/ ConditionPoliciesExist(q)
    BY <1>a, <2>4 DEF ValidateEnvs, CheckPatch, ListAssigned, CheckAssigned, ConditionPoliciesExist, WaitP
  <2>5. CASE CreateProjectService(q) \/ DeleteProjectService(q) \/ ReplaceAssignments(q)
    BY <1>a, <2>5 DEF CreateProjectService, DeleteProjectService, ReplaceAssignments
  <2>6. CASE EnqueueSource(q)
    BY <1>b, <2>6 DEF EnqueueSource
  <2> QED BY <1>1, <2>1, <2>2, <2>3, <2>4, <2>5, <2>6 DEF PlainActs
<1>2. CASE TellActs(q)
  <2>1. UNCHANGED <<prj, repo>> /\ (UNCHANGED prjLog \/ \E S : prjLog' = Queued(prjLog, S))
    BY <1>2, TellLands DEF TellActs
  <2> QED BY <1>a, <1>b, <2>1
<1>3. CASE SyncProjectLifecycle(q)
  BY <1>a, <1>3, SyncLands
<1>4. CASE DieP(q)
  <2> DEFINE a == Apart(prjLog, l.p, Integrations)
  <2>1. UNCHANGED <<prj, repo>> /\ (UNCHANGED prjLog \/ prjLog' = a \/ \E S : prjLog' = Unscored(a, S))
    <3>1. CASE "p" \notin DOMAIN l
      BY <1>4, <3>1 DEF DieP
    <3>2. CASE "p" \in DOMAIN l
      BY Zenon, <1>4, <3>2 DEF DieP
    <3> QED BY <3>1, <3>2
  <2>2. CASE prjLog' = a
    BY <1>c, <2>1, <2>2
  <2>3. ASSUME NEW S, prjLog' = Unscored(a, S)
        PROVE  Unmoved
    BY <1>0, <2>1, <2>3 DEF Unmoved, Node, PrjLogRecord, Apart, Unscored
  <2> QED BY <1>a, <2>1, <2>2, <2>3
<1>5. CASE IgrActs(q) /\ IgrAlone
  BY <1>0, <1>5 DEF IgrAlone, Unmoved, Node, PrjLogRecord
<1>6. CASE LifecycleStep(q) /\ ~CallPlugin(q) /\ ~CallFails(q)
  <2>1. CASE ResolveEdges(q)
    <3>1. UNCHANGED <<prj, repo>> /\ (UNCHANGED prjLog \/ \E S : prjLog' = Apart(prjLog, l.p, S))
      BY <2>1, EdgesLand
    <3> QED BY <1>a, <1>c, <3>1
  <2>2. CASE ResolveIntegrations(q) \/ ResolveAssigned(q)
    BY <1>a, <2>2, FoundLand
  <2>3. CASE ResolveEnabled(q)
    <3>1. UNCHANGED <<prj, repo>> /\ \E S : prjLog' = Apart(prjLog, l.p, S)
      BY <2>3, EnabledLand
    <3> QED BY <1>c, <3>1
  <2>4. CASE ReadBundle(q) \/ BundleReadFails(q)
    <3>1. UNCHANGED <<prj, repo>> /\ (UNCHANGED prjLog \/ prjLog' = Apart(prjLog, l.p, Integrations))
      BY <2>4 DEF ReadBundle, WaitP, BundleReadFails
    <3> QED BY <1>a, <1>c, <3>1
  <2>5. CASE WriteService(q) \/ ReadLinks(q)
    BY <1>a, <2>5 DEF WriteService, ReadLinks, WaitP
  <2>6. CASE LinksLost(q)
    <3>1. UNCHANGED <<prj, repo>> /\ (UNCHANGED prjLog \/ prjLog' = [prjLog EXCEPT !.stale = @ \cup {l.p}])
      BY <2>6 DEF LinksLost
    <3> QED BY <1>0, <1>a, <3>1 DEF Unmoved, Node, PrjLogRecord
  <2>7. CASE WriteLinks(q)
    BY <1>d, <2>7, MinorWrites
  <2> QED BY <1>6, <2>1, <2>2, <2>3, <2>4, <2>5, <2>6, <2>7 DEF LifecycleStep
<1> QED BY <1>1, <1>2, <1>3, <1>4, <1>5, <1>6

\* What l was to bring to i, m brings: nothing is added, and nothing lost
\* unnoticed.
Carries(l, m, i) ==
  /\ Coming(m, i) # {} => /\ m.p = l.p /\ m.n = l.n /\ m.types = l.types
                          /\ Coming(m, i) \subseteq Coming(l, i)
  /\ <<l.p, i>> \notin prjLog'.apart =>
       /\ \/ Coming(m, i) = Coming(l, i)
          \/ ~Node(l.p).there /\ Coming(l, i) \cap {"created", "deleted"} = {}
       /\ Coming(m, i) # {} /\ SlugRead(m, i) =>
            \/ SlugRead(l, i) /\ m.bundle["slug"] = l.bundle["slug"]
            \/ m.bundle["slug"] = Node(l.p).slug

\* Events that come to no plugin are carried, and so are those that go on as
\* they were.
LEMMA CarriesSilence ==
    ASSUME NEW l, NEW m, NEW i, Coming(l, i) = {}, Coming(m, i) = {}
    PROVE  Carries(l, m, i)
BY DEF Carries

\* The events of todo after the first, and the first one for those of rest.
ComingOf(todo, rest, i) == {todo[k] : k \in {x \in DOMAIN todo : x > 1 \/ i \in rest}}

LEMMA ComingAt ==
    ASSUME NEW l, NEW i
    PROVE  /\ l.at \in TellLabels => Coming(l, i) = Told(l)
           /\ l.at \in ResolveLabels /\ ~l.deleting => Coming(l, i) = {l.todo[k] : k \in DOMAIN l.todo}
           /\ (l.at = "life.bundle" /\ ~l.deleting) \/ (l.at \in CallLabels /\ l.todo # <<>>) =>
                Coming(l, i) = ComingOf(l.todo, l.rest, i)
           /\ l.at \in {"life.bundle"} \cup ResolveLabels /\ l.deleting => Coming(l, i) = {}
           /\ l.at \in {"idle", "project.delete"} => Coming(l, i) = {}
BY DEF Coming, ComingOf, Told, TellLabels, ResolveLabels, ResolvedLabels, CallLabels, LinkLabels

\* Among its calls a request carries what it is not calling now; of the plugin
\* it has called, the later events.
LEMMA CallsCarry ==
    ASSUME NEW l, Calling(l), NEW R \in SUBSET l.rest, NEW m, CallsOn(l, R, m), NEW i
    PROVE  /\ Coming(m, i) # {} => m.p = l.p /\ m.n = l.n /\ m.types = l.types
           /\ Coming(l, i) = ComingOf(l.todo, l.rest, i)
           /\ i \notin R => Coming(m, i) = Later(l) /\ ~SlugRead(m, i)
           /\ i \notin l.rest \ R => Carries(l, m, i)
<1>1. l.todo \in Todos /\ l.at \in CallLabels /\ l.todo # <<>>
  BY CallKinds, TodoFacts DEF Calling
<1>2. Coming(l, i) = ComingOf(l.todo, l.rest, i)
  BY <1>1, ComingAt
<1>3. i \notin R => ComingOf(l.todo, R, i) = Later(l)
  BY DEF ComingOf, Later
<1>4. i \notin l.rest \ R => ComingOf(l.todo, R, i) = ComingOf(l.todo, l.rest, i)
  BY DEF ComingOf
<1>5. CASE Same(l, m) /\ m.at \in CallLabels /\ m.rest = R /\ m.bundle = l.bundle
  <2>1. Coming(m, i) = ComingOf(l.todo, R, i)
    BY <1>1, <1>5, ComingAt DEF Same
  <2>2. SlugRead(m, i) => i \in R /\ SlugRead(l, i)
    BY <1>1, <1>5 DEF SlugRead, Same
  <2> QED BY <1>2, <1>3, <1>4, <1>5, <2>1, <2>2 DEF Carries, Same
<1>6. CASE R = {} /\ Nexts(l, m)
  <2>1. Coming(m, i) = Later(l) /\ (m.at = "idle" => Coming(m, i) = {})
    BY <1>6, ComingAt DEF Nexts
  <2>2. ~SlugRead(m, i)
    BY <1>6 DEF Nexts, SlugRead, CallLabels, LinkLabels
  <2>3. Coming(m, i) # {} => m.p = l.p /\ m.n = l.n /\ m.types = l.types
    BY <1>6, <2>1 DEF Nexts
  <2> QED BY <1>2, <1>3, <1>4, <1>6, <2>1, <2>2, <2>3 DEF Carries
<1> QED BY <1>5, <1>6 DEF CallsOn

\* What is left for the integration whose call has just been made.
LEMMA CallMade ==
    ASSUME NEW l, Calling(l), NEW i, NEW m, CallsOn(l, l.rest \ {i}, m)
    PROVE  /\ Coming(m, i) = Later(l)
           /\ Coming(m, i) # {} => m.p = l.p /\ m.n = l.n
<1>1. l.rest \ {i} \in SUBSET l.rest /\ i \notin l.rest \ {i}
  OBVIOUS
<1>2. Coming(m, i) = Later(l)
  BY <1>1, CallsCarry
<1>3. Coming(m, i) # {} => m.p = l.p /\ m.n = l.n
  BY <1>1, CallsCarry
<1> QED BY <1>2, <1>3

\* Of the events of one write, none but the first is a creation or a deletion.
LEMMA TodoLasts ==
    ASSUME NEW t \in Todos
    PROVE  /\ \A k \in DOMAIN t : k > 1 => t[k] = "relocated" /\ t[1] = "updated"
           /\ t[1] # "created" /\ t # <<"deleted">> => {t[k] : k \in DOMAIN t} \cap {"created", "deleted"} = {}
<1>1. t[1] # "deleted" \/ t = <<"deleted">>
  BY TodoFacts
<1>2. CASE t = <<"updated", "relocated">> /\ DOMAIN t = 1..2
  BY <1>2
<1>3. CASE t = <<t[1]>> /\ DOMAIN t = 1..1
  BY <1>1, <1>3
<1> QED BY <1>2, <1>3, TodoFacts

\* A dispatch that found nobody goes on with its next event: who is to hear of
\* this one is set apart.
LEMMA UnheardCarries ==
    ASSUME TypeInv, NEW q \in Slots, LET l == req[q] IN
             /\ l.at \in ResolveLabels /\ ~l.deleting /\ DispatchOK(l) /\ l.p \in Projects
             /\ Nexts(l, req'[q])
             /\ \A i \in Integrations :
                  <<l.p, i>> \in prjLog'.apart
                  \/ i \notin (IF l.todo[1] = "created" THEN Integrations ELSE Following(l.p)),
           NEW i \in Integrations
    PROVE  Carries(req[q], req'[q], i)
<1> DEFINE l == req[q]
           m == req'[q]
<1>1. l.todo \in Todos /\ l.todo # <<"deleted">>
  BY DEF DispatchOK
<1>2. Coming(l, i) = {l.todo[k] : k \in DOMAIN l.todo} /\ Later(l) \subseteq Coming(l, i)
  BY ComingAt DEF Later
<1>3. Coming(m, i) = Later(l) /\ (m.at = "idle" => Coming(m, i) = {}) /\ ~SlugRead(m, i)
  BY ComingAt DEF Nexts, SlugRead, CallLabels, LinkLabels
<1>4. Coming(m, i) # {} => m.p = l.p /\ m.n = l.n /\ m.types = l.types
  BY <1>3 DEF Nexts
<1>5. ASSUME <<l.p, i>> \notin prjLog'.apart
      PROVE  ~Node(l.p).there /\ Coming(l, i) \cap {"created", "deleted"} = {}
  <2>1. l.todo[1] # "created" /\ ~Node(l.p).there
    BY <1>5 DEF Following
  <2> QED BY <1>1, <1>2, <2>1, TodoLasts
<1> QED BY <1>2, <1>3, <1>4, <1>5 DEF Carries

\* A resolution goes on as it was; then the context is read for those it found;
\* what the reads hand over is the slug the project has then.
LEMMA SameCarries ==
    ASSUME NEW l, NEW m, NEW i, Same(l, m), l.at \in ResolveLabels, m.at \in ResolveLabels, ~l.deleting
    PROVE  Carries(l, m, i)
<1>1. Coming(m, i) = Coming(l, i)
  <2>1. m.todo = l.todo /\ ~m.deleting
    BY DEF Same
  <2>2. Coming(m, i) = {m.todo[k] : k \in DOMAIN m.todo}
    BY <2>1, ComingAt
  <2> QED BY <2>1, <2>2, ComingAt
<1>2. ~SlugRead(m, i)
  BY DEF SlugRead, ResolveLabels, ResolvedLabels, CallLabels, LinkLabels
<1> QED BY <1>1, <1>2 DEF Carries, Same

LEMMA BoundCarries ==
    ASSUME TypeInv, NEW q \in Slots, NEW i \in Integrations, LET l == req[q] IN
             /\ l.at = "life.enabled" /\ ~l.deleting /\ DispatchOK(l)
             /\ Same(l, req'[q]) /\ req'[q].at = "life.bundle" /\ req'[q].bundle = <<>>
             /\ <<l.p, i>> \in prjLog'.apart \/ i \in req'[q].rest
                \/ i \notin (IF l.todo[1] = "created" THEN Integrations ELSE Following(l.p))
    PROVE  Carries(req[q], req'[q], i)
<1> DEFINE l == req[q]
           m == req'[q]
<1>1. l.todo \in Todos /\ l.todo # <<"deleted">>
  BY DEF DispatchOK, ResolveLabels, ResolvedLabels
<1>2. Coming(l, i) = {l.todo[k] : k \in DOMAIN l.todo}
  BY ComingAt DEF ResolveLabels, ResolvedLabels
<1>3. Coming(m, i) = ComingOf(l.todo, m.rest, i) /\ ~SlugRead(m, i)
  <2>1. DOMAIN m.bundle = {}
    OBVIOUS
  <2> QED BY <2>1, ComingAt DEF Same, SlugRead
<1>4. Coming(m, i) \subseteq Coming(l, i) /\ (i \in m.rest => Coming(m, i) = Coming(l, i))
  BY <1>2, <1>3 DEF ComingOf
<1>5. CASE <<l.p, i>> \in prjLog'.apart \/ i \in m.rest
  BY <1>3, <1>4, <1>5 DEF Carries, Same
<1>6. CASE i \notin (IF l.todo[1] = "created" THEN Integrations ELSE Following(l.p))
  <2>1. ~Node(l.p).there /\ l.todo[1] # "created"
    BY <1>6 DEF Following
  <2>2. Coming(l, i) \cap {"created", "deleted"} = {}
    BY <1>1, <1>2, <2>1, TodoLasts
  <2> QED BY <1>3, <1>4, <2>1, <2>2 DEF Carries, Same
<1> QED BY <1>5, <1>6

LEMMA ReadCarries ==
    ASSUME TypeInv, NEW q \in Slots, ReadBundle(q) \/ BundleReadFails(q)
    PROVE  Alone(q) /\ \A i \in Integrations : Carries(req[q], req'[q], i)
<1> DEFINE l == req[q]
           m == req'[q]
<1>1. /\ l.at = "life.bundle" /\ DispatchOK(l) /\ l.p \in Projects /\ Alone(q) /\ Same(l, m)
      /\ l.deleting => m.at \in {"life.bundle", "life.edges"}
      /\ ~l.deleting => m.at \in {"life.bundle", "life.call"} /\ m.rest = l.rest
      /\ ReadBundle(q) => ("slug" \in DOMAIN m.bundle =>
                     m.bundle["slug"] = Node(l.p).slug
                     \/ ("slug" \in DOMAIN l.bundle /\ m.bundle["slug"] = l.bundle["slug"]))
      /\ ~ReadBundle(q) => prjLog' = Apart(prjLog, l.p, Integrations)
  BY BundleLands
<1>2. ~ReadBundle(q) => \A i \in Integrations : <<l.p, i>> \in prjLog'.apart
  BY <1>1 DEF Apart, PrjLogRecord, TypeInv, PrjInv
<1>3. CASE l.deleting
  <2>1. Silent(l) /\ Silent(m)
    BY <1>1, <1>3, Silences DEF Same, ResolveLabels
  <2> QED BY <1>1, <2>1, CarriesSilence DEF Silent
<1>4. CASE ~l.deleting
  <2>1. l.todo # <<>>
    BY <1>1, TodoFacts DEF DispatchOK
  <2>2. \A i : Coming(l, i) = ComingOf(l.todo, l.rest, i)
    BY <1>1, <1>4, ComingAt
  <2>3. \A i : Coming(m, i) = ComingOf(l.todo, l.rest, i)
    BY <1>1, <1>4, <2>1, ComingAt DEF Same, CallLabels
  <2>4. \A i : SlugRead(m, i) /\ "slug" \in DOMAIN l.bundle => SlugRead(l, i)
    BY <1>1, <1>4 DEF SlugRead, Same
  <2>5. \A i : SlugRead(m, i) => "slug" \in DOMAIN m.bundle
    BY DEF SlugRead
  <2> QED BY <1>1, <1>2, <1>4, <2>2, <2>3, <2>4, <2>5 DEF Carries, Same
<1> QED BY <1>1, <1>3, <1>4 DEF DispatchOK

\* Every step but a call of a plugin and a write of a project carries the events
\* of its handler.
LEMMA Carried ==
    ASSUME TypeInv, NEW q \in Slots,
           \/ PlainActs(q) \/ TellActs(q) \/ DieP(q) \/ (IgrActs(q) /\ IgrAlone)
           \/ LifecycleStep(q) /\ ~CallPlugin(q) /\ ~CallFails(q)
    PROVE  Alone(q) /\ \A i \in Integrations : Carries(req[q], req'[q], i)
<1> DEFINE l == req[q]
           m == req'[q]
<1>0. prjLog \in PrjLogRecord /\ LocalsOK(l)
  BY DEF TypeInv, PoolInv, PrjInv
<1>a. ASSUME Silent(l), Silent(m)
      PROVE  \A i \in Integrations : Carries(l, m, i)
  BY <1>a, CarriesSilence DEF Silent
<1>1. CASE PlainActs(q)
  <2>1. PlainLanding(q)
    BY <1>1, PlainLands DEF PlainActs
  <2>2. Silent(l)
    BY <2>1, Silences DEF PlainLanding, SilentLabels, IgrLabels
  <2>3. Silent(m)
    <3>1. CASE m.at \in {"idle"} \cup CreateLabels \cup PatchLabels \cup OwnedLabels \cup RelationLabels
      BY <3>1, Silences DEF SilentLabels, IgrLabels
    <3>2. CASE m.at \in {"life.bundle", "project.delete"} /\ m.deleting = (m.at = "life.bundle")
      BY <3>2, Silences DEF SilentLabels
    <3>3. CASE m.at = "life.link" /\ m.todo = <<>>
      BY <3>3, Silences DEF CallLabels, LinkLabels
    <3> QED BY <2>1, <3>1, <3>2, <3>3 DEF PlainLanding
  <2> QED BY <1>a, <2>1, <2>2, <2>3 DEF PlainLanding
<1>2. CASE IgrActs(q)
  <2>1. IgrLanding(q)
    BY <1>2, IgrLands DEF IgrActs
  <2>2. Silent(l) /\ Silent(m)
    BY <2>1, Silences DEF IgrLanding, SilentLabels
  <2> QED BY <1>a, <2>1, <2>2 DEF IgrLanding
<1>3. CASE TellActs(q)
  <2>1. Alone(q) /\ l.at \in TellLabels
    BY <1>3, TellLands DEF TellActs
  <2>2. \A i : Coming(l, i) = Told(l)
    BY <2>1, ComingAt
  <2>3. CASE Tells(l, m) /\ m.at \in TellLabels
    <3>1. \A i : Coming(m, i) = Told(l)
      BY <2>3, ComingAt DEF Tells, Told
    <3>2. \A i : ~SlugRead(m, i)
      BY <2>3 DEF SlugRead, TellLabels, CallLabels, LinkLabels
    <3> QED BY <2>1, <2>2, <2>3, <3>1, <3>2 DEF Carries, Tells
  <2>4. CASE Brought(m, l.p, Told(l), l.n, l.types)
    <3>1. \A i : Coming(m, i) = Told(l) /\ ~SlugRead(m, i) /\ (m.at = "idle" => Coming(m, i) = {})
      BY <2>4, ComingAt DEF Brought, SlugRead, CallLabels, LinkLabels
    <3> QED BY <2>1, <2>2, <2>4, <3>1 DEF Carries, Brought
  <2> QED BY <1>3, <2>3, <2>4, TellLands DEF TellActs, TellLabels
<1>4. CASE DieP(q)
  <2>1. m = Idle /\ Alone(q)
    BY <1>4, DieLands
  <2>2. \A i : Coming(m, i) = {}
    BY <2>1, ComingAt DEF Idle
  <2>3. ASSUME NEW i \in Integrations, Coming(l, i) # {}
        PROVE  <<l.p, i>> \in prjLog'.apart
    <3>1. "p" \in DOMAIN l /\ l.p \in Projects
      BY <1>0, <2>3, ComingFrom DEF LocalsOK, HasProject, HasEvents
    <3> DEFINE a == Apart(prjLog, l.p, Integrations)
    <3>2. prjLog' = a \/ \E S : prjLog' = Unscored(a, S)
      BY Zenon, <1>4, <3>1 DEF DieP
    <3>3. prjLog'.apart = a.apart
      <4>1. \A S : Unscored(a, S).apart = a.apart
        BY <1>0 DEF Unscored, Apart, PrjLogRecord
      <4> QED BY <3>2, <4>1
    <3> QED BY <1>0, <2>3, <3>1, <3>3 DEF Apart, PrjLogRecord
  <2> QED BY <2>1, <2>2, <2>3 DEF Carries
<1>5. CASE LifecycleStep(q) /\ ~CallPlugin(q) /\ ~CallFails(q)
  <2>a. ASSUME l.at \in ResolveLabels \cup {"life.bundle"}, l.deleting,
               m.at = "project.delete" \/ (m.at \in ResolveLabels \cup {"life.bundle"} /\ m.deleting)
        PROVE  \A i \in Integrations : Carries(l, m, i)
    BY <1>a, <2>a, Silences DEF SilentLabels
  <2>1. CASE ResolveEdges(q)
    <3>1. /\ l.at = "life.edges" /\ DispatchOK(l) /\ l.p \in Projects /\ Alone(q)
          /\ l.deleting \in BOOLEAN
      BY <2>1, EdgesLand DEF DispatchOK
    <3>2. CASE Reachable(l.p)
      <4>1. Same(l, m) /\ m.at = "life.integrations"
        BY <2>1, <3>2, EdgesLand
      <4> QED BY <2>a, <3>1, <4>1, SameCarries DEF ResolveLabels, ResolvedLabels, Same
    <3>3. CASE ~Reachable(l.p)
      <4>1. /\ IF l.deleting THEN Deletes(l, {}, m) ELSE Nexts(l, m)
            /\ prjLog' = Apart(prjLog, l.p, IF l.todo[1] = "created" THEN Integrations ELSE Following(l.p))
        BY <2>1, <3>3, EdgesLand
      <4>2. \A i \in Integrations : <<l.p, i>> \in prjLog'.apart
                  \/ i \notin (IF l.todo[1] = "created" THEN Integrations ELSE Following(l.p))
        BY <1>0, <3>1, <4>1 DEF Apart, PrjLogRecord
      <4>3. ~l.deleting => \A i \in Integrations : Carries(l, m, i)
        BY <3>1, <4>1, <4>2, UnheardCarries DEF ResolveLabels
      <4> QED BY <2>a, <3>1, <4>1, <4>3 DEF ResolveLabels, Deletes
    <3> QED BY <3>2, <3>3
  <2>2. CASE ResolveIntegrations(q) \/ ResolveAssigned(q)
    <3>1. /\ l.at \in {"life.integrations", "life.assigned"} /\ Same(l, m) /\ Alone(q)
          /\ m.at \in {"life.assigned", "life.enabled"}
      BY <2>2, FoundLand
    <3> QED BY <2>a, <3>1, SameCarries DEF ResolveLabels, ResolvedLabels, Same
  <2>3. CASE ResolveEnabled(q)
    <3> DEFINE found == IF igr.on THEN l.bound ELSE {}
               away == (IF l.todo[1] = "created" THEN Integrations ELSE Following(l.p)) \ found
    <3>1. /\ l.at = "life.enabled" /\ DispatchOK(l) /\ l.p \in Projects /\ Alone(q)
          /\ l.deleting \in BOOLEAN /\ prjLog' = Apart(prjLog, l.p, away)
          /\ IF l.deleting THEN Deletes(l, found, m)
              ELSE IF found = {} THEN Nexts(l, m)
              ELSE Same(l, m) /\ m.at = "life.bundle" /\ m.rest = found /\ m.bundle = <<>>
      BY <2>3, EnabledLand DEF DispatchOK
    <3> HIDE DEF found
    <3>2. \A i \in away : <<l.p, i>> \in prjLog'.apart
      BY <1>0, <3>1 DEF Apart, PrjLogRecord, Following
    <3> HIDE DEF away
    <3>3. CASE l.deleting
      BY <2>a, <3>1, <3>3 DEF ResolveLabels, ResolvedLabels, Deletes
    <3>4. CASE ~l.deleting /\ found = {}
      <4>1. \A i \in Integrations : <<l.p, i>> \in prjLog'.apart
                  \/ i \notin (IF l.todo[1] = "created" THEN Integrations ELSE Following(l.p))
        BY <3>2, <3>4 DEF away
      <4>2. Nexts(l, m)
        BY <3>1, <3>4
      <4> QED BY <3>1, <3>4, <4>1, <4>2, UnheardCarries DEF ResolveLabels, ResolvedLabels
    <3>5. CASE ~l.deleting /\ found # {}
      <4>1. Same(l, m) /\ m.at = "life.bundle" /\ m.rest = found /\ m.bundle = <<>>
        BY <3>1, <3>5
      <4>2. \A i \in Integrations : <<l.p, i>> \in prjLog'.apart
              \/ i \notin (IF l.todo[1] = "created" THEN Integrations ELSE Following(l.p)) \/ i \in m.rest
        BY <3>2, <4>1 DEF away
      <4> QED BY <3>1, <3>5, <4>1, <4>2, BoundCarries
    <3> QED BY <3>1, <3>3, <3>4, <3>5
  <2>4. CASE ReadBundle(q) \/ BundleReadFails(q)
    BY <2>4, ReadCarries
  <2>5. CASE WriteService(q) \/ ReadLinks(q) \/ LinksLost(q) \/ WriteLinks(q)
    <3>1. /\ l.at \in CallLabels /\ Alone(q) /\ (Calling(l) \/ Linking(l))
          /\ Calling(l) => CallsOn(l, l.rest, m)
          /\ Linking(l) => \/ m.at = "idle"
                           \/ m.at \in LinkLabels /\ m.todo = <<>>
      BY <2>5, LinkLands
    <3>2. CASE Calling(l)
      BY <3>1, <3>2, CallsCarry
    <3>3. CASE Linking(l)
      <4>1. Silent(l) /\ Silent(m)
        BY <3>1, <3>3, Silences DEF Linking, CallLabels, SilentLabels, IgrLabels
      <4> QED BY <1>a, <3>1, <4>1
    <3> QED BY <3>1, <3>2, <3>3
  <2> QED BY <1>5, <2>1, <2>2, <2>3, <2>4, <2>5 DEF LifecycleStep
<1> QED BY <1>1, <1>2, <1>3, <1>4, <1>5

-----------------------------------------------------------------------------
(* The numbers of the writes.                                              *)

\* Numbers grow, what was asked for stays asked for, and who was deleted stays
\* away.
Grows ==
  /\ prjLog.born \subseteq prjLog'.born /\ prjLog.asked \subseteq prjLog'.asked
  /\ prjLog.apart \subseteq prjLog'.apart
  /\ \A p \in Projects : prjLog'.n[p] \in Nat /\ prjLog.n[p] <= prjLog'.n[p]
  /\ \A p \in prjLog.born : Node(p)'.there => Node(p).there

LEMMA LogValues ==
    ASSUME TypeInv
    PROVE  /\ prjLog.born \subseteq Projects /\ prjLog.asked \subseteq Projects
           /\ \A p \in Projects : /\ prjLog.n[p] \in Nat /\ Node(p) \in NodeRecord
                                  /\ \A i \in Integrations : /\ prjLog.heard[p][i] \in Nat
                                                             /\ repo[p][i] \in RepoRecord
<1>1. /\ prjLog.born \subseteq Projects /\ prjLog.asked \subseteq Projects /\ prjLog.n \in [Projects -> Nat]
      /\ prjLog.heard \in [Projects -> [Integrations -> Nat]]
  BY DEF TypeInv, PrjInv, PrjLogRecord
<1>2. prj.node \in [Projects -> NodeRecord] /\ repo \in [Projects -> [Integrations -> RepoRecord]]
  BY DEF TypeInv, PrjInv, PrjRecord
<1> QED BY <1>1, <1>2 DEF Node

LEMMA UnmovedGrows ==
    ASSUME TypeInv, Unmoved
    PROVE  Grows
<1>1. \A p \in Projects : prjLog'.n[p] = prjLog.n[p] /\ Node(p)'.there = Node(p).there
  BY DEF Unmoved
<1> QED BY <1>1, LogValues DEF Unmoved, Grows

LEMMA UnmovedCounts ==
    ASSUME TypeInv, Unmoved, CountsInv
    PROVE  CountsInv'
<1>1. \A p \in Projects : Node(p)'.there = Node(p).there
  BY DEF Unmoved
<1>2. /\ prjLog'.born = prjLog.born /\ prjLog'.asked = prjLog.asked /\ prjLog'.n = prjLog.n
      /\ prjLog'.heard = prjLog.heard /\ repo' = repo
  BY DEF Unmoved
<1> QED BY <1>1, <1>2, LogValues DEF CountsInv

\* The other handlers' events keep their numbers.
LEMMA NumbersKept ==
    ASSUME TypeInv, NumbersInv, NEW q \in Slots, Alone(q), Grows, CountsInv', CreatesInv',
           DeletesOK(req[q])', \A i \in Integrations : Numbered(req[q], i)'
    PROVE  NumbersInv'
<1> SUFFICES ASSUME NEW o \in Slots, o # q
             PROVE  DeletesOK(req[o])' /\ \A i \in Integrations : Numbered(req[o], i)'
  BY DEF NumbersInv
<1> DEFINE l == req[o]
<1>1. req'[o] = l
  BY DEF Alone
<1>2. DeletesOK(l) /\ \A i \in Integrations : Numbered(l, i)
  BY DEF NumbersInv
<1>3. DeletesOK(req[o])'
  BY <1>1, <1>2 DEF DeletesOK, Grows
<1>4. ASSUME NEW i \in Integrations
      PROVE  Numbered(req[o], i)'
  <2>1. Coming(l, i) # {} => l.p \in Projects /\ l.n \in Nat
    BY ComingFrom
  <2>2. CASE Coming(l, i) = {}
    BY <1>1, <2>2 DEF Numbered
  <2>3. CASE Coming(l, i) # {}
    <3>1. prjLog.n[l.p] \in Nat /\ prjLog'.n[l.p] >= prjLog.n[l.p] /\ (l.n <= prjLog.n[l.p] => l.n <= prjLog'.n[l.p])
      <4>1. prjLog'.n[l.p] \in Nat /\ prjLog.n[l.p] <= prjLog'.n[l.p]
        BY <2>1, <2>3 DEF Grows
      <4> QED BY <2>1, <2>3, <4>1, LogValues
    <3> QED BY <1>1, <1>2, <2>3, <3>1 DEF Numbered, Grows
  <2> QED BY <2>2, <2>3
<1> QED BY <1>3, <1>4

\* So do the events that are carried.
LEMMA NumbersCarried ==
    ASSUME TypeInv, NumbersInv, NEW q \in Slots, Grows, NEW i \in Integrations,
           \/ Carries(req[q], req'[q], i)
           \/ /\ Coming(req'[q], i) \subseteq Coming(req[q], i)
              /\ Coming(req'[q], i) # {} => req'[q].p = req[q].p /\ req'[q].n = req[q].n
    PROVE  Numbered(req[q], i)'
<1> DEFINE l == req[q]
           m == req'[q]
<1>1. Coming(m, i) # {} => Coming(m, i) \subseteq Coming(l, i) /\ m.p = l.p /\ m.n = l.n
  BY DEF Carries
<1>2. Coming(l, i) # {} => l.p \in Projects /\ l.n \in Nat
  BY ComingFrom
<1>3. Numbered(l, i)
  BY DEF NumbersInv
<1>4. CASE Coming(m, i) = {}
  BY <1>4 DEF Numbered
<1>5. CASE Coming(m, i) # {}
  <2>1. Coming(l, i) # {}
    BY <1>1, <1>5
  <2>2. l.p \in Projects /\ l.n \in Nat /\ prjLog.n[l.p] \in Nat /\ prjLog'.n[l.p] \in Nat /\ prjLog.n[l.p] <= prjLog'.n[l.p]
    BY <1>2, <2>1, LogValues DEF Grows
  <2> QED BY <1>1, <1>3, <1>5, <2>1, <2>2 DEF Numbered, Grows
<1> QED BY <1>4, <1>5

LEMMA CreatesKept ==
    ASSUME CreatesInv, NEW q \in Slots, Alone(q), prjLog'.born = prjLog.born,
           req'[q].at \in CreateLabels =>
             \/ req[q].at \in CreateLabels /\ req'[q].p = req[q].p
             \/ /\ req'[q].p \notin prjLog.born
                /\ \A o \in Slots : req[o].at \in CreateLabels => req[o].p # req'[q].p
    PROVE  CreatesInv'
<1> DEFINE l == req[q]
           m == req'[q]
<1>1. \A o \in Slots : o # q => req'[o] = req[o]
  BY DEF Alone
<1>2. ASSUME NEW o \in Slots, req'[o].at \in CreateLabels
      PROVE  req'[o].p \notin prjLog.born
  BY <1>1, <1>2 DEF CreatesInv
<1>3. ASSUME NEW o \in Slots, NEW r \in Slots, o # r, req'[o].at \in CreateLabels, req'[r].at \in CreateLabels
      PROVE  req'[o].p # req'[r].p
  <2>1. CASE o # q /\ r # q
    BY <1>1, <1>3, <2>1 DEF CreatesInv
  <2>2. CASE o = q
    BY <1>1, <1>3, <2>2 DEF CreatesInv
  <2>3. CASE r = q
    BY <1>1, <1>3, <2>3 DEF CreatesInv
  <2> QED BY <2>1, <2>2, <2>3
<1> QED BY <1>2, <1>3 DEF CreatesInv

\* A deletion goes on, up to where it has found whom to call.
LEMMA DeletesGo ==
    ASSUME TypeInv, NumbersInv, NEW q \in Slots, LifecycleStep(q), ~CallPlugin(q), ~CallFails(q), Unmoved
    PROVE  DeletesOK(req[q])'
<1> DEFINE l == req[q]
           m == req'[q]
           Found == {"life.bundle"} \cup ResolveLabels
<1> USE DEF ResolveLabels, ResolvedLabels
<1>0. prjLog \in PrjLogRecord
  BY DEF TypeInv, PrjInv
<1>1. l.at \in Found /\ l.deleting => l.p \in prjLog.born
  BY DEF NumbersInv, DeletesOK
<1>a. ASSUME l.at \in Found, Same(l, m), m.at # "project.delete"
      PROVE  DeletesOK(req[q])'
  BY <1>1, <1>a DEF DeletesOK, Same, Unmoved
<1>b. ASSUME m.at \notin Found \cup {"project.delete"} \/ ~m.deleting
      PROVE  DeletesOK(req[q])'
  BY <1>b DEF DeletesOK
<1>c. ASSUME Nexts(l, m)
      PROVE  m.at \notin Found \cup {"project.delete"} \/ ~m.deleting
  BY <1>c DEF Nexts
<1>d. ASSUME NEW R \in SUBSET Integrations, l.at \in Found, l.p \in Projects, l.deleting, Deletes(l, R, m),
             prjLog' = Apart(prjLog, l.p, Following(l.p) \ R)
      PROVE  DeletesOK(req[q])'
  <2>1. l.p \in prjLog.born /\ m.p = l.p /\ m.rest = R /\ prjLog'.born = prjLog.born
    BY <1>1, <1>d DEF Deletes, Same, Unmoved
  <2>2. prj'.node[l.p].there = Node(l.p).there
    BY <1>d DEF Unmoved, Node
  <2>3. ASSUME Node(l.p).there, NEW i \in Integrations \ R
        PROVE  <<l.p, i>> \in prjLog'.apart
    <3>1. i \in Following(l.p) \ R
      BY <2>3 DEF Following
    <3> QED BY <1>0, <1>d, <3>1 DEF Apart, PrjLogRecord
  <2> QED BY <1>d, <2>1, <2>2, <2>3 DEF DeletesOK, Node
<1>2. CASE ResolveEdges(q)
  <2>1. l.at = "life.edges" /\ DispatchOK(l) /\ l.p \in Projects
    BY <1>2, EdgesLand
  <2>2. CASE Reachable(l.p)
    <3>1. Same(l, m) /\ m.at = "life.integrations"
      BY <1>2, <2>2, EdgesLand
    <3> QED BY <1>a, <2>1, <3>1
  <2>3. CASE ~Reachable(l.p)
    <3>1. /\ IF l.deleting THEN Deletes(l, {}, m) ELSE Nexts(l, m)
          /\ prjLog' = Apart(prjLog, l.p, IF l.todo[1] = "created" THEN Integrations ELSE Following(l.p))
      BY <1>2, <2>3, EdgesLand
    <3>2. l.deleting => l.todo[1] # "created"
      BY <2>1 DEF DispatchOK
    <3>3. l.deleting => prjLog' = Apart(prjLog, l.p, Following(l.p) \ {})
      BY <3>1, <3>2
    <3> QED BY <1>b, <1>c, <1>d, <2>1, <3>1, <3>3
  <2> QED BY <2>2, <2>3
<1>3. CASE ResolveIntegrations(q) \/ ResolveAssigned(q)
  <2>1. /\ l.at \in {"life.integrations", "life.assigned"} /\ Same(l, m)
        /\ m.at \in {"life.assigned", "life.enabled"}
    BY <1>3, FoundLand
  <2> QED BY <1>a, <2>1
<1>4. CASE ResolveEnabled(q)
  <2> DEFINE found == IF igr.on THEN l.bound ELSE {}
  <2>1. /\ l.at = "life.enabled" /\ DispatchOK(l) /\ l.p \in Projects /\ found \in SUBSET Integrations
        /\ prjLog' = Apart(prjLog, l.p, (IF l.todo[1] = "created" THEN Integrations ELSE Following(l.p)) \ found)
        /\ IF l.deleting THEN Deletes(l, found, m)
              ELSE IF found = {} THEN Nexts(l, m)
              ELSE Same(l, m) /\ m.at = "life.bundle" /\ m.rest = found /\ m.bundle = <<>>
    BY <1>4, EnabledLand
  <2> HIDE DEF found
  <2>2. l.deleting => l.todo[1] # "created"
    BY <2>1 DEF DispatchOK
  <2> QED BY <1>a, <1>b, <1>c, <1>d, <2>1, <2>2
<1>5. CASE ReadBundle(q) \/ BundleReadFails(q)
  <2>1. l.at = "life.bundle" /\ Same(l, m) /\ DispatchOK(l) /\ m.at # "project.delete"
    BY <1>5, BundleLands DEF DispatchOK
  <2> QED BY <1>a, <2>1
<1>6. CASE WriteService(q) \/ ReadLinks(q) \/ LinksLost(q) \/ WriteLinks(q)
  <2>1. CallsOn(l, l.rest, m) \/ m.at = "idle" \/ m.at \in LinkLabels
    BY <1>6, LinkLands
  <2>2. m.at \notin Found \cup {"project.delete"} \/ ~m.deleting
    BY <1>c, <2>1 DEF CallsOn, CallLabels, LinkLabels
  <2> QED BY <1>b, <2>2
<1> QED BY <1>2, <1>3, <1>4, <1>5, <1>6 DEF LifecycleStep

LEMMA NumbersQuiet ==
    ASSUME TypeInv, TypeInv', NumbersInv, NEW q \in Slots,
           \/ PlainActs(q) \/ TellActs(q) \/ DieP(q) \/ (IgrActs(q) /\ IgrAlone)
           \/ LifecycleStep(q) /\ ~CallPlugin(q) /\ ~CallFails(q)
    PROVE  NumbersInv'
<1> DEFINE l == req[q]
           m == req'[q]
           Deleters == {"life.bundle", "project.delete"} \cup ResolveLabels
<1> USE DEF ResolveLabels, ResolvedLabels, CreateLabels
<1>1. Unmoved /\ Alone(q) /\ \A i \in Integrations : Carries(l, m, i)
  BY Unmoves, Carried
<1>2. Grows /\ CountsInv' /\ prjLog'.born = prjLog.born
  BY <1>1, UnmovedGrows, UnmovedCounts DEF NumbersInv, Unmoved
<1>3. ASSUME m.at \notin CreateLabels, m.at \notin Deleters \/ ~m.deleting
      PROVE  CreatesInv' /\ DeletesOK(req[q])'
  BY <1>1, <1>2, <1>3, CreatesKept DEF DeletesOK, NumbersInv
<1>4. CreatesInv' /\ DeletesOK(req[q])'
  <2>1. CASE PlainActs(q)
    <3>1. PlainLanding(q)
      BY <2>1, PlainLands DEF PlainActs
    <3>2. CreatesInv'
      BY <1>1, <1>2, <3>1, CreatesKept DEF PlainLanding, NumbersInv
    <3>3. DeletesOK(req[q])'
      <4>1. CASE m.at = "life.bundle" /\ Node(m.p).there
        <5>1. m.p \in Projects
          BY <4>1 DEF TypeInv, PoolInv, LocalsOK, HasProject, HasEvents
        <5>2. m.p \in prjLog.born
          BY <4>1, <5>1 DEF NumbersInv, CountsInv
        <5> QED BY <1>2, <4>1, <5>2 DEF DeletesOK
      <4>2. CASE m.at \notin Deleters \/ ~m.deleting
        BY <4>2 DEF DeletesOK
      <4> QED BY <3>1, <4>1, <4>2
              DEF PlainLanding, PatchLabels, OwnedLabels, RelationLabels
    <3> QED BY <3>2, <3>3
  <2>2. CASE TellActs(q)
    <3>1. m.at \in {"project.dependents", "project.tell", "project.requeue", "idle"} \/ (m.at = "life.edges" /\ ~m.deleting)
      BY <2>2, TellLands DEF TellActs, Brought
    <3> QED BY <1>3, <3>1
  <2>3. CASE DieP(q)
    <3>1. m.at = "idle"
      BY <2>3, DieLands DEF Idle
    <3> QED BY <1>3, <3>1
  <2>4. CASE IgrActs(q)
    <3>1. m.at \in IgrLabels
      BY <2>4, IgrLands DEF IgrActs, IgrLanding
    <3> QED BY <1>3, <3>1 DEF IgrLabels, TypedLabels, CredLabels, LoginLabels, AppLabels
  <2>5. CASE LifecycleStep(q) /\ ~CallPlugin(q) /\ ~CallFails(q)
    <3>1. m.at \in HasEvents \cup {"idle"}
      BY <2>5, LifecycleLands
    <3>2. m.at \notin CreateLabels
      BY <3>1 DEF HasEvents, CallLabels, LinkLabels
    <3>3. CreatesInv'
      BY <1>1, <1>2, <3>2, CreatesKept DEF NumbersInv
    <3>4. DeletesOK(req[q])'
      BY <1>1, <2>5, DeletesGo
    <3> QED BY <3>3, <3>4
  <2> QED BY <2>1, <2>2, <2>3, <2>4, <2>5
<1>5. \A i \in Integrations : Numbered(req[q], i)'
  BY <1>1, <1>2, NumbersCarried
<1> QED BY <1>1, <1>2, <1>4, <1>5, NumbersKept

\* What a call does: the plugin is heard and the repository changes, if there is
\* one or it is to be created, or the pair is set apart.
Hears(l, i) ==
  /\ repo[l.p][i].there \/ l.todo[1] = "created"
  /\ repo'[l.p][i] = After(repo[l.p][i], l.todo[1], l.bundle)
Called(l, i, m) ==
  /\ CallsOn(l, l.rest \ {i}, m)
  /\ \A x \in Projects, j \in Integrations : x # l.p \/ j # i =>
       repo'[x][j] = repo[x][j] /\ prjLog'.heard[x][j] = prjLog.heard[x][j]
  /\ repo'[l.p][i] = repo[l.p][i] \/ Hears(l, i)
  /\ \/ prjLog'.heard[l.p][i] = prjLog.heard[l.p][i]
     \/ /\ Hears(l, i) /\ l.n > prjLog.heard[l.p][i]
        /\ prjLog'.heard[l.p][i] = l.n
  /\ <<l.p, i>> \notin prjLog'.apart =>
       Hears(l, i) /\ ~Overtakes(l, i) /\ prjLog'.heard[l.p][i] = l.n

LEMMA CallDoes ==
    ASSUME TypeInv, NEW q \in Slots, CallPlugin(q) \/ CallFails(q)
    PROVE  LET l == req[q] IN
           /\ l.at = "life.call" /\ Calling(l) /\ Alone(q) /\ UNCHANGED prj
           /\ l.p \in Projects /\ l.rest \in SUBSET Integrations /\ l.todo \in Todos /\ l.n \in Nat
           /\ \A f \in {"born", "asked", "n", "loc"} : prjLog'[f] = prjLog[f]
           /\ prjLog.apart \subseteq prjLog'.apart
           /\ \E i \in l.rest : Called(l, i, req'[q])
<1> DEFINE l == req[q]
           m == req'[q]
<1>1. l.at = "life.call" /\ Calling(l) /\ Alone(q) /\ UNCHANGED prj
  <2>1. CASE CallPlugin(q)
    BY <2>1, CallLands
  <2>2. CASE CallFails(q)
    BY <2>2, CallFailLands
  <2> QED BY <2>1, <2>2
<1>2. l.p \in Projects /\ l.rest \in SUBSET Integrations /\ l.todo \in Todos /\ l.n \in Nat
  BY <1>1, CallKinds DEF Calling
<1>3. prjLog \in PrjLogRecord /\ repo \in [Projects -> [Integrations -> RepoRecord]]
  BY DEF TypeInv, PrjInv
<1>a. ASSUME NEW S \in SUBSET Integrations, prjLog' = Apart(prjLog, l.p, S)
      PROVE  /\ \A f \in {"born", "asked", "n", "loc", "heard"} : prjLog'[f] = prjLog[f]
             /\ prjLog'.apart = prjLog.apart \cup ({l.p} \X S)
  BY <1>3, <1>a DEF Apart, PrjLogRecord
<1>b. ASSUME NEW i \in l.rest, NEW r, repo' = [repo EXCEPT ![l.p][i] = r]
      PROVE  /\ repo'[l.p][i] = r
             /\ \A x \in Projects, j \in Integrations : x # l.p \/ j # i => repo'[x][j] = repo[x][j]
  BY <1>2, <1>3, <1>b
<1>4. CASE CallPlugin(q)
  <2>1. PICK i \in l.rest :
                LET event == l.todo[1]
                    heard == [prjLog EXCEPT !.heard[l.p][i] = IF l.n > @ THEN l.n ELSE @] IN
                /\ CallsOn(l, l.rest \ {i}, req'[q])
                /\ IF repo[l.p][i].there \/ event = "created"
                   THEN /\ repo' = [repo EXCEPT ![l.p][i] = After(repo[l.p][i], event, l.bundle)]
                        /\ prjLog' = Apart(heard, l.p, IF Overtakes(l, i) THEN {i} ELSE {})
                   ELSE prjLog' = Apart(prjLog, l.p, {i}) /\ UNCHANGED repo
    BY <1>4, CallLands
  <2>2. CASE repo[l.p][i].there \/ l.todo[1] = "created"
    <3> DEFINE new == IF l.n > prjLog.heard[l.p][i] THEN l.n ELSE prjLog.heard[l.p][i]
               log == [prjLog EXCEPT !.heard[l.p][i] = new]
               S == IF Overtakes(l, i) THEN {i} ELSE {}
    <3>1. /\ repo' = [repo EXCEPT ![l.p][i] = After(repo[l.p][i], l.todo[1], l.bundle)]
          /\ prjLog' = Apart(log, l.p, S)
      BY <2>1, <2>2
    <3>2. Hears(l, i)
      BY <1>b, <2>2, <3>1 DEF Hears
    <3> HIDE DEF new
    <3>3. /\ \A f \in {"born", "asked", "n", "loc", "apart"} : log[f] = prjLog[f]
          /\ log.heard = [prjLog.heard EXCEPT ![l.p][i] = new] /\ "apart" \in DOMAIN log
          /\ DOMAIN log = DOMAIN prjLog
      BY <1>3 DEF PrjLogRecord
    <3>4. /\ \A f \in {"born", "asked", "n", "loc"} : prjLog'[f] = prjLog[f]
          /\ prjLog'.heard = [prjLog.heard EXCEPT ![l.p][i] = new]
          /\ prjLog'.apart = prjLog.apart \cup ({l.p} \X S)
      <4> HIDE DEF log, S
      <4> QED BY <1>3, <3>1, <3>3 DEF Apart, PrjLogRecord
    <3>5. /\ prjLog'.heard[l.p][i] = new
          /\ \A x \in Projects, j \in Integrations : x # l.p \/ j # i => prjLog'.heard[x][j] = prjLog.heard[x][j]
      BY <1>2, <1>3, <3>4 DEF PrjLogRecord
    <3>6. <<l.p, i>> \notin prjLog'.apart => ~Overtakes(l, i)
      BY <3>4
    <3>7. ~Overtakes(l, i) => new = l.n
      BY <1>2, LogValues DEF Overtakes, new
    <3>8. Called(l, i, m)
      <4>1. CallsOn(l, l.rest \ {i}, m)
        BY <2>1
      <4>2. \A x \in Projects, j \in Integrations : x # l.p \/ j # i =>
              repo'[x][j] = repo[x][j] /\ prjLog'.heard[x][j] = prjLog.heard[x][j]
        <5>1. \A x \in Projects, j \in Integrations : x # l.p \/ j # i => repo'[x][j] = repo[x][j]
          BY <1>b, <3>1
        <5> QED BY <3>5, <5>1
      <4>3. \/ prjLog'.heard[l.p][i] = prjLog.heard[l.p][i]
            \/ l.n > prjLog.heard[l.p][i] /\ prjLog'.heard[l.p][i] = l.n
        BY <3>5 DEF new
      <4>4. <<l.p, i>> \notin prjLog'.apart => ~Overtakes(l, i) /\ prjLog'.heard[l.p][i] = l.n
        BY <3>5, <3>6, <3>7
      <4> QED BY <3>2, <4>1, <4>2, <4>3, <4>4 DEF Called
    <3> QED BY <1>1, <1>2, <3>4, <3>8
  <2>3. CASE ~(repo[l.p][i].there \/ l.todo[1] = "created")
    <3>1. prjLog' = Apart(prjLog, l.p, {i}) /\ UNCHANGED repo
      BY <2>1, <2>3
    <3>2. prjLog'.heard = prjLog.heard /\ <<l.p, i>> \in prjLog'.apart
      <4>1. {i} \in SUBSET Integrations
        BY <1>2
      <4>2. /\ \A f \in {"born", "asked", "n", "loc", "heard"} : prjLog'[f] = prjLog[f]
            /\ prjLog'.apart = prjLog.apart \cup ({l.p} \X {i})
        BY Zenon, <1>a, <3>1, <4>1
      <4> QED BY <4>2
    <3>3. Called(l, i, m)
      BY <2>1, <3>1, <3>2 DEF Called
    <3>4. {i} \in SUBSET Integrations
      BY <1>2
    <3>5. /\ \A f \in {"born", "asked", "n", "loc", "heard"} : prjLog'[f] = prjLog[f]
          /\ prjLog'.apart = prjLog.apart \cup ({l.p} \X {i})
      BY Zenon, <1>a, <3>1, <3>4
    <3>6. prjLog.apart \subseteq prjLog'.apart
      BY <3>5
    <3>7. \E k \in l.rest : Called(l, k, m)
      BY <3>3
    <3> QED BY <1>1, <1>2, <3>5, <3>6, <3>7
  <2> QED BY <2>2, <2>3
<1>5. CASE CallFails(q)
  <2>1. PICK i \in l.rest, done \in BOOLEAN :
                /\ CallsOn(l, l.rest \ {i}, req'[q])
                /\ repo' = [repo EXCEPT ![l.p][i] =
                     IF done /\ (@.there \/ l.todo[1] = "created") THEN After(@, l.todo[1], l.bundle) ELSE @]
                /\ prjLog' = Apart(prjLog, l.p, {i})
    BY <1>5, CallFailLands
  <2>2. repo'[l.p][i] = repo[l.p][i] \/ Hears(l, i)
    BY <1>2, <1>3, <2>1 DEF Hears
  <2>3. \A x \in Projects, j \in Integrations : x # l.p \/ j # i => repo'[x][j] = repo[x][j]
    BY <1>2, <1>3, <2>1
  <2>4. /\ \A f \in {"born", "asked", "n", "loc", "heard"} : prjLog'[f] = prjLog[f]
        /\ prjLog'.apart = prjLog.apart \cup ({l.p} \X {i})
    <3>1. {i} \in SUBSET Integrations
      BY <1>2
    <3> QED BY <1>a, <2>1, <3>1
  <2>5. CallsOn(l, l.rest \ {i}, m) /\ prjLog'.heard = prjLog.heard /\ <<l.p, i>> \in prjLog'.apart
    BY <2>1, <2>4
  <2>6. Called(l, i, m)
    BY <2>2, <2>3, <2>5 DEF Called
  <2> QED BY <1>1, <1>2, <2>4, <2>6
<1> QED BY <1>4, <1>5

\* A write changes one project.
OneMoves(p) ==
  /\ repo' = repo /\ prjLog'.heard = prjLog.heard
  /\ \A x \in Projects \ {p} :
       /\ prj'.node[x] = prj.node[x] /\ prjLog'.n[x] = prjLog.n[x] /\ prjLog'.loc[x] = prjLog.loc[x]
       /\ x \in prjLog'.born => x \in prjLog.born
       /\ x \in prjLog'.asked => x \in prjLog.asked
  /\ prjLog.born \subseteq prjLog'.born /\ prjLog.asked \subseteq prjLog'.asked
  /\ prjLog.apart \subseteq prjLog'.apart

\* Only then are the plugins to hear of it.
Writes(q, p) ==
  /\ Alone(q) /\ Silent(req[q]) /\ OneMoves(p)
  /\ \A i : Coming(req'[q], i) # {} => req'[q].p = p /\ req'[q].n = prjLog'.n[p]
\* Nothing was written, and nobody hears of anything.
Abstains(q) == Alone(q) /\ Silent(req[q]) /\ Silent(req'[q]) /\ Unmoved

LEMMA SavedFields ==
    ASSUME NEW now \in NodeRecord, NEW doc \in NodeRecord
    PROVE  LET new == Saved(now, doc) IN
           new.there = now.there /\ new.slug = doc.slug /\ new.archived = doc.archived
<1> DEFINE new == Saved(now, doc)
           T == doc.types \cap igr.type
           E == EdgesNow(doc.envs)
           props == [now EXCEPT !.slug = doc.slug, !.archived = doc.archived, !.links = doc.links]
           moved == [props EXCEPT !.team = doc.team]
           typed == [moved EXCEPT !.types = T]
           full == [typed EXCEPT !.envs = E]
           Fine(x) == /\ {"there", "slug", "archived"} \subseteq DOMAIN x
                      /\ x.there = now.there /\ x.slug = doc.slug /\ x.archived = doc.archived
<1>1. Fine(props)
  BY DEF NodeRecord
<1>2. Fine(moved)
  <2> HIDE DEF props
  <2> QED BY <1>1
<1>3. Fine(typed)
  <2> HIDE DEF moved, T
  <2> QED BY <1>2
<1>4. Fine(full)
  <2> HIDE DEF typed, E
  <2> QED BY <1>3
<1>5. new = IF doc.team \notin prj.team THEN props ELSE IF typed.types = {} THEN typed ELSE full
  BY Zenon DEF Saved
<1> HIDE DEF props, moved, typed, full, T, E, new
<1>6. Fine(new)
  BY <1>1, <1>3, <1>4, <1>5
<1> QED BY <1>6 DEF new

LEMMA PatchWrites ==
    ASSUME TypeInv, NEW q \in Slots, PatchProjectSave(q)
    PROVE  LET l == req[q]
               m == req'[q]
               p == l.p IN
           /\ p \in Projects /\ m.at \in {"idle", "project.rescore"}
           /\ ~Reachable(p) => Abstains(q)
           /\ Reachable(p) =>
                /\ Writes(q, p) /\ Node(p).there
                /\ prj'.node[p].there /\ prj'.node[p].slug = l.doc.slug /\ prj'.node[p].archived = l.read.archived
                /\ prjLog'.n[p] = prjLog.n[p] + 1 /\ prjLog'.born = prjLog.born /\ prjLog'.asked = prjLog.asked
                /\ prjLog'.loc[p] = IF Relocates(l) THEN prj'.node[p].types ELSE prjLog.loc[p]
                /\ \A i \in Integrations : <<p, i>> \notin prjLog'.apart =>
                     /\ Node(p) = l.read /\ m.at = "project.rescore" /\ m.p = p
                     /\ m.types = prj'.node[p].types /\ m.n = prjLog'.n[p]
                     /\ Coming(m, i) \subseteq {"updated", "relocated"}
                     /\ "updated" \in Coming(m, i) <=> l.doc.slug # l.read.slug
                     /\ "relocated" \in Coming(m, i) <=> Relocates(l)
<1> DEFINE l == req[q]
           m == req'[q]
           p == l.p
<1>1. /\ l.at = "project.save" /\ p \in Projects /\ l.doc \in NodeRecord /\ l.read \in NodeRecord
      /\ l.transfer \in BOOLEAN /\ l.doc.archived = l.read.archived
  BY PatchDoes
<1>2. Alone(q) /\ Silent(l)
  BY <1>1, SaveLands, Silences DEF SilentLabels, PatchLabels
<1>3. Silent(Idle) /\ Idle.at = "idle"
  BY Silences DEF Idle, SilentLabels, IgrLabels
<1>4. CASE ~Reachable(p)
  <2>1. m = Idle /\ UNCHANGED <<prj, repo, prjLog>>
    BY <1>4, SaveLands, PatchDoes
  <2> QED BY <1>1, <1>2, <1>3, <1>4, <2>1 DEF Abstains, Unmoved, Node
<1>5. CASE Reachable(p)
  <2> DEFINE new == PatchNew(l)
  <2>1. /\ prj' = [prj EXCEPT !.node[p] = new] /\ UNCHANGED repo
        /\ prjLog'.loc = [prjLog.loc EXCEPT ![p] = IF Relocates(l) THEN new.types ELSE @]
        /\ prjLog'.n = [prjLog.n EXCEPT ![p] = prjLog.n[p] + 1]
        /\ prjLog'.born = prjLog.born /\ prjLog'.asked = prjLog.asked /\ prjLog'.heard = prjLog.heard
        /\ prjLog'.apart = prjLog.apart \cup
             (IF Node(p) # l.read \/ PatchCut(l) THEN {p} \X Integrations ELSE {})
    BY <1>5, PatchDoes
  <2>2. /\ PatchCut(l) => m = Idle
        /\ ~PatchCut(l) => /\ m.at = "project.rescore" /\ m.p = p /\ m.events = Events(l)
                           /\ m.n = prjLog.n[p] + 1 /\ m.types = new.types
    BY <1>5, SaveLands
  <2>3. Node(p) \in NodeRecord /\ Node(p).there /\ prj \in PrjRecord /\ prjLog \in PrjLogRecord
    BY <1>1, <1>5, LogValues DEF Reachable, TypeInv, PrjInv
  <2>4. new.there /\ new.slug = l.doc.slug /\ new.archived = l.read.archived
    BY <1>1, <2>3, SavedFields DEF PatchNew
  <2> HIDE DEF new
  <2>5. prj'.node[p] = new /\ \A x \in Projects \ {p} : prj'.node[x] = prj.node[x]
    BY <1>1, <2>1, <2>3 DEF PrjRecord
  <2>6. /\ prjLog'.n[p] = prjLog.n[p] + 1 /\ prjLog'.loc[p] = IF Relocates(l) THEN new.types ELSE prjLog.loc[p]
        /\ \A x \in Projects \ {p} : prjLog'.n[x] = prjLog.n[x] /\ prjLog'.loc[x] = prjLog.loc[x]
    <3> DEFINE loc == IF Relocates(l) THEN new.types ELSE prjLog.loc[p]
    <3>1. prjLog'.loc = [prjLog.loc EXCEPT ![p] = loc]
      BY <2>1
    <3> HIDE DEF loc
    <3>2. prjLog'.loc[p] = loc
      BY <1>1, <2>3, <3>1 DEF PrjLogRecord
    <3>3. prjLog'.n[p] = prjLog.n[p] + 1 /\ \A x \in Projects \ {p} : prjLog'.n[x] = prjLog.n[x] /\ prjLog'.loc[x] = prjLog.loc[x]
      BY <1>1, <2>1, <2>3, <3>1 DEF PrjLogRecord
    <3> QED BY <3>2, <3>3 DEF loc
  <2>7. OneMoves(p)
    BY <2>1, <2>5, <2>6 DEF OneMoves
  <2>8. /\ m.at \in {"idle", "project.rescore"}
        /\ \A i : Coming(m, i) # {} => m.p = p /\ m.n = prjLog'.n[p]
    BY <1>3, <2>2, <2>6 DEF Silent
  <2>9. ASSUME NEW i \in Integrations, <<p, i>> \notin prjLog'.apart
        PROVE  /\ Node(p) = l.read /\ ~PatchCut(l)
               /\ Coming(m, i) \subseteq {"updated", "relocated"}
               /\ "updated" \in Coming(m, i) <=> l.doc.slug # l.read.slug
               /\ "relocated" \in Coming(m, i) <=> Relocates(l)
    <3>1. Node(p) = l.read /\ ~PatchCut(l)
      BY <2>1, <2>9
    <3>a. \A e : (\E k \in DOMAIN Events(l) : Events(l)[k] = e) <=>
                     \/ e = "updated" /\ l.doc.slug # l.read.slug
                     \/ e = "relocated" /\ (l.transfer \/ l.doc.team # l.read.team)
      <4>1. l.transfer \in BOOLEAN
        BY <1>1
      <4>2. EventsSay(l)
        <5> HIDE DEF l
        <5> QED BY <4>1, EventsTold
      <4> QED BY <4>2 DEF EventsSay
    <3> DEFINE E == Events(l)
    <3>2. \A e : (\E k \in DOMAIN E : E[k] = e) <=>
                     \/ e = "updated" /\ l.doc.slug # l.read.slug
                     \/ e = "relocated" /\ (l.transfer \/ l.doc.team # l.read.team)
      BY Zenon, <3>a
    <3>3. m.events = E /\ m.at \in TellLabels
      BY <2>2, <3>1 DEF TellLabels
    <3>4. Relocates(l) <=> \E k \in DOMAIN E : E[k] = "relocated"
      BY DEF Relocates
    <3> HIDE DEF E
    <3>5. Coming(m, i) = {E[k] : k \in DOMAIN E}
      BY <3>3, ComingAt DEF Told
    <3> QED BY <3>1, <3>2, <3>4, <3>5
  <2>10. Writes(q, p)
    BY <1>2, <2>7, <2>8 DEF Writes
  <2> QED BY <1>1, <1>5, <2>1, <2>2, <2>3, <2>4, <2>5, <2>6, <2>8, <2>9, <2>10
<1> QED BY <1>4, <1>5

LEMMA CreationBrings ==
    ASSUME TypeInv, NEW q \in Slots, CreateProjectNode(q), req[q].doc.team \in prj.team, ~CutShort(req[q].doc)
    PROVE  Brought(req'[q], req[q].p, {"created"}, 1, CreateNew(req[q].doc).types)
<1> DEFINE l == req[q]
           k == Dispatch(l.p, <<"created">>, 1, CreateNew(l.doc).types)
<1>1. Step(q, "project.create", k)
  BY CreateDoes
<1>2. Brought(k, l.p, {"created"}, 1, CreateNew(l.doc).types)
  <2>1. <<"created">> \in Todos /\ {<<"created">>[x] : x \in DOMAIN <<"created">>} = {"created"}
    BY DEF Todos
  <2> QED BY <2>1, DispatchLands
<1> HIDE DEF k
<1> QED BY <1>1, <1>2, TakesStep

LEMMA CreateWrites ==
    ASSUME TypeInv, NEW q \in Slots, CreateProjectNode(q)
    PROVE  LET l == req[q]
               m == req'[q]
               p == l.p IN
           /\ l.at = "project.create" /\ p \in Projects /\ m.at \in {"idle", "life.edges"}
           /\ m.at = "life.edges" => ~m.deleting
           /\ \/ Abstains(q)
              \/ /\ Writes(q, p) /\ prj'.node[p].there /\ ~prj'.node[p].archived
                 /\ prjLog'.n[p] = 1 /\ prjLog'.born = prjLog.born \cup {p} /\ prjLog'.asked = prjLog.asked
                 /\ prjLog'.loc[p] = prj'.node[p].types
                 /\ \A i : Coming(m, i) \subseteq {"created"}
                 /\ \A i \in Integrations : <<p, i>> \notin prjLog'.apart =>
                      /\ Coming(m, i) = {"created"} /\ m.at = "life.edges" /\ m.p = p /\ m.n = 1
                      /\ m.types = prj'.node[p].types
<1> DEFINE l == req[q]
           m == req'[q]
           p == l.p
           new == CreateNew(l.doc)
<1>1. /\ l.at = "project.create" /\ p \in Projects
      /\ l.doc.team \notin prj.team => UNCHANGED <<igr, login, igrLog, prj, repo, prjLog>>
      /\ l.doc.team \in prj.team =>
                /\ prj' = [prj EXCEPT !.node[p] = new] /\ UNCHANGED repo
                /\ new.there /\ ~new.archived
                /\ prjLog'.born = prjLog.born \cup {p}
                /\ prjLog'.n = [prjLog.n EXCEPT ![p] = 1]
                /\ prjLog'.loc = [prjLog.loc EXCEPT ![p] = new.types]
                /\ prjLog'.asked = prjLog.asked /\ prjLog'.heard = prjLog.heard
                /\ prjLog'.apart = prjLog.apart \cup (IF CutShort(l.doc) THEN {p} \X Integrations ELSE {})
  BY Zenon, CreateDoes
<1>2. /\ Alone(q) /\ (m = Idle \/ Brought(m, p, {"created"}, 1, new.types))
      /\ CutShort(l.doc) \/ l.doc.team \notin prj.team => m = Idle
      /\ ~CutShort(l.doc) /\ l.doc.team \in prj.team => Brought(m, p, {"created"}, 1, new.types)
  BY CreationLands, CreationBrings
<1>3. Silent(l) /\ Silent(Idle) /\ Idle.at = "idle"
  BY <1>1, Silences DEF Idle, SilentLabels, IgrLabels, CreateLabels
<1>4. m.at \in {"idle", "life.edges"} /\ (m.at = "life.edges" => ~m.deleting)
  BY <1>2, <1>3 DEF Brought
<1>5. CASE l.doc.team \notin prj.team
  BY <1>1, <1>2, <1>3, <1>4, <1>5 DEF Abstains, Unmoved, Node
<1>6. CASE l.doc.team \in prj.team
  <2> HIDE DEF new
  <2>1. prj \in PrjRecord /\ prjLog \in PrjLogRecord
    BY DEF TypeInv, PrjInv
  <2>2. prj'.node[p] = new /\ \A x \in Projects \ {p} : prj'.node[x] = prj.node[x]
    BY <1>1, <1>6, <2>1 DEF PrjRecord
  <2>3. /\ prjLog'.n[p] = 1 /\ prjLog'.loc[p] = new.types
        /\ \A x \in Projects \ {p} : prjLog'.n[x] = prjLog.n[x] /\ prjLog'.loc[x] = prjLog.loc[x]
    BY <1>1, <1>6, <2>1 DEF PrjLogRecord
  <2>4. OneMoves(p)
    BY <1>1, <1>6, <2>2, <2>3 DEF OneMoves
  <2>5. \A i : /\ Coming(m, i) \subseteq {"created"}
               /\ Coming(m, i) # {} => m.at = "life.edges" /\ m.p = p /\ m.n = 1 /\ m.types = new.types
    BY <1>2, <1>3, ComingAt DEF Brought, Silent
  <2>6. Writes(q, p)
    BY <1>2, <1>3, <2>3, <2>4, <2>5 DEF Writes
  <2>7. ASSUME NEW i \in Integrations, <<p, i>> \notin prjLog'.apart
        PROVE  Coming(m, i) = {"created"}
    BY <1>1, <1>2, <1>6, <2>7 DEF Brought
  <2> QED BY <1>1, <1>4, <1>6, <2>2, <2>3, <2>5, <2>6, <2>7
<1> QED BY <1>5, <1>6

LEMMA ArchiveWrites ==
    ASSUME TypeInv, NEW q \in Slots, ArchiveProject(q) \/ UnarchiveProject(q)
    PROVE  LET m == req'[q] IN
           \E p \in Projects, archived \in BOOLEAN :
             /\ Node(p).there /\ Writes(q, p)
             /\ prj'.node[p].there /\ prj'.node[p].archived = archived /\ prj'.node[p].slug = Node(p).slug
             /\ prjLog'.n[p] = prjLog.n[p] + 1 /\ prjLog'.loc[p] = prjLog.loc[p]
             /\ prjLog'.born = prjLog.born /\ prjLog'.asked = prjLog.asked
             /\ \A i : Coming(m, i) = {IF archived THEN "archived" ELSE "unarchived"}
             /\ m.at = "life.edges" /\ ~m.deleting /\ m.p = p /\ m.n = prjLog'.n[p]
<1> DEFINE m == req'[q]
<1>1. PICK p \in Projects, archived \in BOOLEAN :
             /\ Reachable(p)
             /\ Begin(q, Dispatch(p, IF archived THEN <<"archived">> ELSE <<"unarchived">>,
                                  prjLog.n[p] + 1, Node(p).types))
             /\ prj' = [prj EXCEPT !.node[p].archived = archived] /\ UNCHANGED repo /\ IgrSame
             /\ prjLog'.want = [prjLog.want EXCEPT ![p].archived = archived]
             /\ prjLog'.n = [prjLog.n EXCEPT ![p] = prjLog.n[p] + 1]
             /\ \A f \in {"stale", "born", "asked", "owed", "unscored", "apart", "heard", "loc"} : prjLog'[f] = prjLog[f]
  BY Zenon, ArchiveDoes
<1>2. /\ prjLog'.born = prjLog.born /\ prjLog'.asked = prjLog.asked /\ prjLog'.apart = prjLog.apart
      /\ prjLog'.heard = prjLog.heard /\ prjLog'.loc = prjLog.loc
  BY <1>1
<1> DEFINE n == prjLog.n[p] + 1
           types == Node(p).types
<1>3. Begin(q, Dispatch(p, IF archived THEN <<"archived">> ELSE <<"unarchived">>, n, types))
  BY Zenon, <1>1
<1> HIDE DEF n, types
<1>4. Alone(q) /\ req[q] = Idle /\ Brought(m, p, {IF archived THEN "archived" ELSE "unarchived"}, n, types)
  BY Zenon, <1>3, ArchiveLands
<1>5. Silent(req[q])
  BY <1>4, Silences DEF Idle, SilentLabels, IgrLabels
<1>6. /\ \A i : Coming(m, i) = {IF archived THEN "archived" ELSE "unarchived"}
      /\ m.at = "life.edges" /\ ~m.deleting /\ m.p = p /\ m.n = n
  BY <1>4, ComingAt DEF Brought
<1>7. prj \in PrjRecord /\ prjLog \in PrjLogRecord
  BY DEF TypeInv, PrjInv
<1>8. /\ prj'.node[p].there = Node(p).there /\ prj'.node[p].archived = archived /\ prj'.node[p].slug = Node(p).slug
      /\ \A x \in Projects \ {p} : prj'.node[x] = prj.node[x]
  BY <1>1, <1>7 DEF PrjRecord, NodeRecord, Node
<1>9. prjLog'.n[p] = n /\ \A x \in Projects \ {p} : prjLog'.n[x] = prjLog.n[x]
  BY <1>1, <1>7 DEF PrjLogRecord, n
<1>10. OneMoves(p)
  BY <1>1, <1>2, <1>8, <1>9 DEF OneMoves
<1>11. Writes(q, p)
  BY <1>4, <1>5, <1>6, <1>9, <1>10 DEF Writes
<1>12. Node(p).there /\ prjLog'.n[p] = prjLog.n[p] + 1 /\ prjLog'.loc[p] = prjLog.loc[p]
  BY <1>1, <1>2, <1>9 DEF Reachable, n
<1> QED BY <1>2, <1>6, <1>8, <1>9, <1>11, <1>12

LEMMA DeleteWrites ==
    ASSUME TypeInv, NEW q \in Slots, DeleteProjectNode(q)
    PROVE  LET l == req[q]
               m == req'[q]
               p == l.p IN
           /\ l.at = "project.delete" /\ p \in Projects /\ m.at \in {"idle", "life.call"}
           /\ ~Reachable(p) => Abstains(q)
           /\ Reachable(p) =>
                /\ Writes(q, p) /\ Node(p).there /\ ~prj'.node[p].there
                /\ prjLog'.n[p] = prjLog.n[p] + 1 /\ prjLog'.born = prjLog.born
                /\ prjLog'.asked = IF l.deleting THEN prjLog.asked \cup {p} ELSE prjLog.asked
                /\ \A i : Coming(m, i) \subseteq {"deleted"}
                /\ \A i : Coming(m, i) # {} => l.deleting
                /\ l.deleting => \A i \in l.rest : Coming(m, i) = {"deleted"} /\ m.p = p
<1> DEFINE l == req[q]
           m == req'[q]
           p == l.p
<1>1. l.at = "project.delete" /\ p \in Projects
  BY DeleteDoes
<1>2. /\ Alone(q) /\ l.todo = <<"deleted">> /\ l.rest \in SUBSET Integrations
      /\ ~Reachable(p) \/ l.rest = {} => m = Idle
      /\ Reachable(p) /\ l.rest # {} =>
                /\ l.deleting /\ m.at = "life.call" /\ m.p = p /\ m.todo = l.todo /\ m.rest = l.rest
                /\ m.n = prjLog.n[p] + 1 /\ ~m.deleting
  BY DeletionLands
<1>3. Silent(l) /\ Silent(Idle) /\ Idle.at = "idle"
  BY <1>1, Silences DEF Idle, SilentLabels, IgrLabels
<1>4. CASE ~Reachable(p)
  <2>1. UNCHANGED <<prj, repo, prjLog>>
    BY <1>4, DeleteDoes
  <2> QED BY <1>1, <1>2, <1>3, <1>4, <2>1 DEF Abstains, Unmoved, Node
<1>5. CASE Reachable(p)
  <2>1. /\ prj'.node = [prj.node EXCEPT ![p] = NoProject] /\ UNCHANGED repo
        /\ prjLog'.asked = (IF l.deleting THEN prjLog.asked \cup {p} ELSE prjLog.asked)
        /\ prjLog'.n = [prjLog.n EXCEPT ![p] = prjLog.n[p] + 1]
        /\ prjLog'.born = prjLog.born /\ prjLog'.loc = prjLog.loc /\ prjLog'.heard = prjLog.heard
        /\ prjLog'.apart = prjLog.apart
    BY <1>5, DeleteDoes
  <2>2. prj \in PrjRecord /\ prjLog \in PrjLogRecord /\ Node(p).there
    BY <1>5 DEF TypeInv, PrjInv, Reachable
  <2>3. ~prj'.node[p].there /\ \A x \in Projects \ {p} : prj'.node[x] = prj.node[x]
    BY <1>1, <2>1, <2>2 DEF PrjRecord, NoProject
  <2>4. prjLog'.n[p] = prjLog.n[p] + 1 /\ \A x \in Projects \ {p} : prjLog'.n[x] = prjLog.n[x]
    BY <1>1, <2>1, <2>2 DEF PrjLogRecord
  <2>5. OneMoves(p)
    BY <2>1, <2>3, <2>4 DEF OneMoves
  <2>6. \A i : Coming(m, i) = IF i \in l.rest THEN {"deleted"} ELSE {}
    <3>1. CASE l.rest = {}
      BY <1>2, <1>3, <3>1 DEF Silent
    <3>2. CASE l.rest # {}
      <4>1. m.at = "life.call" /\ m.todo = <<"deleted">> /\ m.rest = l.rest
        BY <1>2, <1>5, <3>2
      <4>2. \A i : Coming(m, i) = ComingOf(<<"deleted">>, l.rest, i)
        BY <4>1, ComingAt DEF CallLabels
      <4>3. \A i : ComingOf(<<"deleted">>, l.rest, i) = IF i \in l.rest THEN {"deleted"} ELSE {}
        BY DEF ComingOf
      <4> QED BY <4>2, <4>3
    <3> QED BY <3>1, <3>2
  <2>7. l.rest # {} => l.deleting /\ m.at = "life.call" /\ m.p = p /\ m.n = prjLog'.n[p]
    BY <1>2, <1>5, <2>4
  <2>8. m.at \in {"idle", "life.call"}
    BY <1>2, <1>3, <1>5
  <2>9. Writes(q, p)
    BY <1>2, <1>3, <2>5, <2>6, <2>7 DEF Writes
  <2> QED BY <1>1, <1>5, <2>1, <2>2, <2>3, <2>4, <2>6, <2>7, <2>8, <2>9
<1> QED BY <1>4, <1>5

LEMMA NumbersWritten ==
    ASSUME TypeInv, TypeInv', NumbersInv, NEW q \in Slots, NEW p \in Projects, Writes(q, p),
           CreatesInv', DeletesOK(req[q])', p \in prjLog'.born,
           prjLog'.n[p] = prjLog.n[p] + 1 \/ (p \notin prjLog.born /\ prjLog'.n[p] = 1),
           p \in prjLog.born /\ prj'.node[p].there => Node(p).there,
           p \in prjLog'.asked => ~prj'.node[p].there,
           \A i \in Integrations :
             /\ "created" \in Coming(req'[q], i) => prjLog'.n[p] = 1
             /\ "deleted" \in Coming(req'[q], i) => p \in prjLog'.asked /\ prjLog'.n[p] >= 2
    PROVE  NumbersInv'
<1> DEFINE m == req'[q]
<1>1. /\ repo' = repo /\ prjLog'.heard = prjLog.heard
      /\ \A x \in Projects \ {p} : prj'.node[x] = prj.node[x] /\ prjLog'.n[x] = prjLog.n[x]
      /\ \A x \in Projects \ {p} : (x \in prjLog'.born => x \in prjLog.born) /\ (x \in prjLog'.asked => x \in prjLog.asked)
      /\ prjLog.born \subseteq prjLog'.born /\ prjLog.asked \subseteq prjLog'.asked
      /\ prjLog.apart \subseteq prjLog'.apart
  BY DEF Writes, OneMoves
<1>2. CountsInv
  BY DEF NumbersInv
<1>3. /\ prjLog.born \subseteq Projects /\ prjLog.asked \subseteq Projects
      /\ prjLog'.born \subseteq Projects /\ prjLog'.asked \subseteq Projects
      /\ \A x \in Projects : /\ prjLog.n[x] \in Nat /\ prjLog'.n[x] \in Nat
                             /\ \A i \in Integrations : prjLog.heard[x][i] \in Nat
  <2>1. \A x \in Projects : prjLog'.n[x] \in Nat
    BY DEF TypeInv, PrjInv, PrjLogRecord
  <2>2. prjLog'.born \subseteq Projects /\ prjLog'.asked \subseteq Projects
    BY DEF TypeInv, PrjInv, PrjLogRecord
  <2> QED BY <2>1, <2>2, LogValues
<1>4. prjLog'.n[p] >= 1 /\ \A x \in Projects : prjLog.n[x] <= prjLog'.n[x]
  <2>1. prjLog.n[p] <= prjLog'.n[p] /\ prjLog'.n[p] >= 1
    BY <1>2, <1>3 DEF CountsInv
  <2> QED BY <1>1, <1>3, <2>1
<1>5. Grows
  <2>1. \A x \in prjLog.born : Node(x)'.there => Node(x).there
    BY <1>1, <1>3 DEF Node
  <2> QED BY <1>1, <1>3, <1>4, <2>1 DEF Grows
<1>6. CountsInv'
  <2>1. \A x \in prjLog'.born : prjLog'.n[x] >= 1
    BY <1>1, <1>2, <1>3, <1>4 DEF CountsInv
  <2>2. ASSUME NEW x \in Projects \ prjLog'.born
        PROVE  /\ ~prj'.node[x].there /\ prjLog'.n[x] = 0
               /\ \A i \in Integrations : ~repo'[x][i].there /\ prjLog'.heard[x][i] = 0
    <3>1. x # p /\ x \notin prjLog.born
      BY <1>1, <2>2
    <3> QED BY <1>1, <1>2, <2>2, <3>1 DEF CountsInv, Node
  <2>3. \A x \in Projects, i \in Integrations : prjLog'.heard[x][i] <= prjLog'.n[x]
    <3> SUFFICES ASSUME NEW x \in Projects, NEW i \in Integrations
                 PROVE  prjLog'.heard[x][i] <= prjLog'.n[x]
      OBVIOUS
    <3>1. prjLog.heard[x][i] <= prjLog.n[x] /\ prjLog.n[x] <= prjLog'.n[x] /\ prjLog'.heard[x][i] = prjLog.heard[x][i]
      BY <1>1, <1>2, <1>4 DEF CountsInv
    <3>2. prjLog.heard[x][i] \in Nat /\ prjLog.n[x] \in Nat /\ prjLog'.n[x] \in Nat
      BY <1>3
    <3> QED BY <3>1, <3>2
  <2>4. \A x \in prjLog'.asked : x \in prjLog'.born /\ ~prj'.node[x].there
    BY <1>1, <1>2, <1>3 DEF CountsInv, Node
  <2> QED BY <2>1, <2>2, <2>3, <2>4 DEF CountsInv, Node
<1>7. ASSUME NEW i \in Integrations
      PROVE  Numbered(req[q], i)'
  <2>1. Coming(m, i) # {} => m.p = p /\ m.n = prjLog'.n[p]
    BY DEF Writes
  <2>2. prjLog'.n[p] <= prjLog'.n[p]
    BY <1>3
  <2> QED BY <2>1, <2>2 DEF Numbered
<1>8. Alone(q)
  BY DEF Writes
<1> QED BY <1>5, <1>6, <1>7, <1>8, NumbersKept

LEMMA NumbersAbstain ==
    ASSUME TypeInv, NumbersInv, NEW q \in Slots, Abstains(q), req'[q].at \notin CreateLabels,
           DeletesOK(req[q])'
    PROVE  NumbersInv'
<1>1. Unmoved /\ Alone(q) /\ \A i \in Integrations : Carries(req[q], req'[q], i)
  BY CarriesSilence DEF Abstains, Silent
<1>2. Grows /\ CountsInv' /\ prjLog'.born = prjLog.born
  BY <1>1, UnmovedGrows, UnmovedCounts DEF NumbersInv, Unmoved
<1>3. CreatesInv'
  BY <1>1, <1>2, CreatesKept DEF NumbersInv
<1>4. \A i \in Integrations : Numbered(req[q], i)'
  BY <1>1, <1>2, NumbersCarried
<1> QED BY <1>1, <1>2, <1>3, <1>4, NumbersKept

LEMMA NumbersWrites ==
    ASSUME TypeInv, TypeInv', NumbersInv, NEW q \in Slots,
           \/ PatchProjectSave(q) \/ CreateProjectNode(q) \/ ArchiveProject(q) \/ UnarchiveProject(q)
           \/ DeleteProjectNode(q)
    PROVE  NumbersInv'
<1> DEFINE l == req[q]
           m == req'[q]
           p == l.p
<1> USE DEF ResolveLabels, ResolvedLabels, CreateLabels
<1>0. /\ \A x \in Projects : prjLog.n[x] \in Nat
      /\ \A x \in prjLog.asked : x \in prjLog.born /\ ~Node(x).there
      /\ \A x \in Projects : Node(x).there => x \in prjLog.born /\ prjLog.n[x] >= 1
  BY LogValues DEF NumbersInv, CountsInv
<1>a. ASSUME m.at \notin CreateLabels, prjLog'.born = prjLog.born, Alone(q)
      PROVE  CreatesInv'
  BY <1>a, CreatesKept DEF NumbersInv
<1>b. ASSUME m.at \notin {"life.bundle", "project.delete"} \cup ResolveLabels \/ ~m.deleting
      PROVE  DeletesOK(req[q])'
  BY <1>b DEF DeletesOK
<1>1. CASE PatchProjectSave(q)
  <2>1. p \in Projects /\ m.at \in {"idle", "project.rescore"}
    BY <1>1, PatchWrites
  <2>2. DeletesOK(req[q])' /\ m.at \notin CreateLabels
    BY <1>b, <2>1
  <2>3. CASE ~Reachable(p)
    <3>1. Abstains(q)
      BY <1>1, <2>3, PatchWrites
    <3> QED BY <2>2, <3>1, NumbersAbstain
  <2>4. CASE Reachable(p)
    <3>1. /\ Writes(q, p) /\ Node(p).there
          /\ prjLog'.n[p] = prjLog.n[p] + 1 /\ prjLog'.born = prjLog.born /\ prjLog'.asked = prjLog.asked
      BY <1>1, <2>4, PatchWrites
    <3>2. ASSUME NEW i \in Integrations
          PROVE  Coming(m, i) \cap {"created", "deleted"} = {}
      <4>1. m.at = "project.rescore" => m.events \in Tellings \cup {<<>>}
        BY DEF TypeInv, PoolInv, LocalsOK, TellLabels
      <4>2. m.at = "project.rescore" => Coming(m, i) = Told(m)
        BY ComingAt DEF TellLabels
      <4>3. \A t \in Tellings \cup {<<>>} : {t[k] : k \in DOMAIN t} \cap {"created", "deleted"} = {}
        <5>1. \A t \in Tellings : t \in Todos /\ t[1] # "created" /\ t # <<"deleted">>
          <6>1. \A t \in Tellings : t \in Todos /\ t[1] \in {"updated", "relocated"}
            BY DEF Tellings, Todos
          <6>2. <<"deleted">>[1] = "deleted"
            OBVIOUS
          <6> QED BY <6>1, <6>2
        <5>2. \A t \in Tellings : {t[k] : k \in DOMAIN t} \cap {"created", "deleted"} = {}
          BY <5>1, TodoLasts
        <5>3. DOMAIN <<>> = {}
          OBVIOUS
        <5> QED BY <5>2, <5>3
      <4>4. m.at = "idle" => Coming(m, i) = {}
        BY ComingAt
      <4> QED BY <2>1, <4>1, <4>2, <4>3, <4>4 DEF Told
    <3>3. CreatesInv'
      BY <1>a, <2>2, <3>1 DEF Writes
    <3> QED BY <1>0, <2>1, <2>2, <3>1, <3>2, <3>3, NumbersWritten
  <2> QED BY <2>3, <2>4
<1>2. CASE CreateProjectNode(q)
  <2>1. /\ l.at = "project.create" /\ p \in Projects /\ m.at \in {"idle", "life.edges"}
        /\ m.at = "life.edges" => ~m.deleting
    BY <1>2, CreateWrites
  <2>2. DeletesOK(req[q])' /\ m.at \notin CreateLabels
    BY <1>b, <2>1
  <2>3. CASE Abstains(q)
    BY <2>2, <2>3, NumbersAbstain
  <2>4. CASE ~Abstains(q)
    <3>1. /\ Writes(q, p) /\ prjLog'.n[p] = 1 /\ prjLog'.born = prjLog.born \cup {p} /\ prjLog'.asked = prjLog.asked
          /\ \A i : Coming(m, i) \subseteq {"created"}
      BY <1>2, <2>4, CreateWrites
    <3>2. p \notin prjLog.born /\ \A o \in Slots : o # q /\ req[o].at \in CreateLabels => req[o].p # p
      BY <2>1 DEF NumbersInv, CreatesInv
    <3>3. CreatesInv'
      <4>1. \A o \in Slots : req'[o].at \in CreateLabels => o # q /\ req'[o] = req[o]
        BY <2>2, <3>1 DEF Writes, Alone
      <4>2. CreatesInv
        BY DEF NumbersInv
      <4> QED BY <3>1, <3>2, <4>1, <4>2 DEF CreatesInv
    <3> QED BY <1>0, <2>1, <2>2, <3>1, <3>2, <3>3, NumbersWritten
  <2> QED BY <2>3, <2>4
<1>3. CASE ArchiveProject(q) \/ UnarchiveProject(q)
  <2>1. PICK x \in Projects, archived \in BOOLEAN :
             /\ Node(x).there /\ Writes(q, x)
             /\ prjLog'.n[x] = prjLog.n[x] + 1
             /\ prjLog'.born = prjLog.born /\ prjLog'.asked = prjLog.asked
             /\ \A i : Coming(m, i) = {IF archived THEN "archived" ELSE "unarchived"}
             /\ m.at = "life.edges" /\ ~m.deleting
    BY <1>3, ArchiveWrites
  <2>2. DeletesOK(req[q])' /\ m.at \notin CreateLabels
    BY <1>b, <2>1
  <2>3. CreatesInv'
    BY <1>a, <2>1, <2>2 DEF Writes
  <2> QED BY <1>0, <2>1, <2>2, <2>3, NumbersWritten
<1>4. CASE DeleteProjectNode(q)
  <2>1. l.at = "project.delete" /\ p \in Projects /\ m.at \in {"idle", "life.call"}
    BY <1>4, DeleteWrites
  <2>2. DeletesOK(req[q])' /\ m.at \notin CreateLabels
    BY <1>b, <2>1
  <2>3. CASE ~Reachable(p)
    <3>1. Abstains(q)
      BY <1>4, <2>3, DeleteWrites
    <3> QED BY <2>2, <3>1, NumbersAbstain
  <2>4. CASE Reachable(p)
    <3>1. /\ Writes(q, p) /\ Node(p).there /\ ~prj'.node[p].there
          /\ prjLog'.n[p] = prjLog.n[p] + 1 /\ prjLog'.born = prjLog.born
          /\ prjLog'.asked = IF l.deleting THEN prjLog.asked \cup {p} ELSE prjLog.asked
          /\ \A i : Coming(m, i) \subseteq {"deleted"}
          /\ \A i : Coming(m, i) # {} => l.deleting
      BY <1>4, <2>4, DeleteWrites
    <3>2. CreatesInv'
      BY <1>a, <2>2, <3>1 DEF Writes
    <3>3. p \in prjLog.born /\ prjLog'.n[p] >= 2
      BY <1>0, <2>1, <3>1
    <3> QED BY <1>0, <2>1, <2>2, <3>1, <3>2, <3>3, NumbersWritten
  <2> QED BY <2>3, <2>4
<1> QED BY <1>1, <1>2, <1>3, <1>4

\* A call is for an event that comes.
LEMMA EventComes ==
    ASSUME NEW l, Calling(l), NEW i \in l.rest
    PROVE  l.todo[1] \in Coming(l, i) /\ Later(l) \subseteq Coming(l, i)
<1>1. l.todo \in Todos /\ l.at \in CallLabels /\ l.todo # <<>> /\ 1 \in DOMAIN l.todo
  BY CallKinds, TodoFacts DEF Calling
<1>2. Coming(l, i) = ComingOf(l.todo, l.rest, i)
  BY <1>1, ComingAt
<1> QED BY <1>1, <1>2 DEF ComingOf, Later

\* Who is called has a project that is born, and a number that is out.
LEMMA CallNumbered ==
    ASSUME TypeInv, NumbersInv, NEW q \in Slots, LET l == req[q] IN Calling(l) /\ l.p \in Projects,
           NEW i \in req[q].rest, i \in Integrations
    PROVE  LET l == req[q] IN
           /\ l.n \in Nat /\ l.n <= prjLog.n[l.p]
           /\ Hears(l, i) => l.p \in prjLog.born
           /\ l.todo[1] = "created" => l.p \in prjLog.born /\ l.n = 1
           /\ l.todo[1] = "deleted" => l.p \in prjLog.asked /\ l.n >= 2
<1> DEFINE l == req[q]
<1>1. l.todo[1] \in Coming(l, i)
  BY EventComes
<1>2. Numbered(l, i) /\ l.n \in Nat
  BY <1>1, ComingFrom DEF NumbersInv
<1>3. repo[l.p][i].there => l.p \in prjLog.born
  BY DEF NumbersInv, CountsInv
<1> QED BY <1>1, <1>2, <1>3 DEF Numbered, Hears

LEMMA NumbersCall ==
    ASSUME TypeInv, NumbersInv, NEW q \in Slots, CallPlugin(q) \/ CallFails(q)
    PROVE  NumbersInv'
<1> DEFINE l == req[q]
           m == req'[q]
<1>1. /\ Calling(l) /\ Alone(q) /\ UNCHANGED prj
      /\ l.p \in Projects /\ l.rest \in SUBSET Integrations /\ l.n \in Nat
      /\ \A f \in {"born", "asked", "n", "loc"} : prjLog'[f] = prjLog[f]
      /\ prjLog.apart \subseteq prjLog'.apart
  BY CallDoes
<1>2. PICK i \in l.rest : Called(l, i, m)
  BY CallDoes
<1>3. /\ l.n <= prjLog.n[l.p] /\ (Hears(l, i) => l.p \in prjLog.born)
  BY <1>1, CallNumbered
<1>4. Grows
  BY <1>1, LogValues DEF Grows, Node
<1>5. /\ \A x \in Projects, j \in Integrations : x # l.p \/ j # i =>
           repo'[x][j] = repo[x][j] /\ prjLog'.heard[x][j] = prjLog.heard[x][j]
      /\ repo'[l.p][i] = repo[l.p][i] \/ l.p \in prjLog.born
      /\ prjLog'.heard[l.p][i] = prjLog.heard[l.p][i] \/ (l.p \in prjLog.born /\ prjLog'.heard[l.p][i] = l.n)
  BY <1>2, <1>3 DEF Called
<1>6. CountsInv'
  <2>0. CountsInv /\ prjLog'.n = prjLog.n /\ prjLog'.born = prjLog.born /\ prjLog'.asked = prjLog.asked /\ prj' = prj
    BY <1>1 DEF NumbersInv
  <2>1. ASSUME NEW x \in Projects \ prjLog.born, NEW j \in Integrations
        PROVE  ~repo'[x][j].there /\ prjLog'.heard[x][j] = 0
    BY <1>5, <2>0, <2>1 DEF CountsInv
  <2>2. ASSUME NEW x \in Projects, NEW j \in Integrations
        PROVE  prjLog'.heard[x][j] <= prjLog.n[x]
    BY <1>3, <1>5, <2>0, <2>2 DEF CountsInv
  <2> QED BY <2>0, <2>1, <2>2 DEF CountsInv, Node
<1>7. m.at \in CallLabels \cup {"idle"} \/ (m.at = "life.edges" /\ ~m.deleting)
  BY <1>2 DEF Called, CallsOn, Nexts
<1>8. CreatesInv' /\ DeletesOK(req[q])'
  <2>1. m.at \notin CreateLabels
    BY <1>7 DEF CreateLabels, CallLabels, LinkLabels
  <2>2. CreatesInv'
    BY <1>1, <2>1, CreatesKept DEF NumbersInv
  <2>3. DeletesOK(req[q])'
    BY <1>7 DEF DeletesOK, CallLabels, LinkLabels, ResolveLabels, ResolvedLabels
  <2> QED BY <2>2, <2>3
<1>9. ASSUME NEW j \in Integrations
      PROVE  Numbered(req[q], j)'
  <2>1. CallsOn(l, l.rest \ {i}, m) /\ l.rest \ {i} \in SUBSET l.rest
    BY <1>2 DEF Called
  <2>2. CASE j = i
    <3>1. /\ Coming(m, j) = Later(l)
          /\ Coming(m, j) # {} => m.p = l.p /\ m.n = l.n
      <4>1. Calling(l) /\ CallsOn(l, l.rest \ {j}, m)
        BY <1>1, <2>1, <2>2
      <4> HIDE DEF l, m
      <4> QED BY <4>1, CallMade
    <3>2. Later(l) \subseteq Coming(l, j)
      BY <1>1, <2>2, EventComes
    <3> QED BY <1>4, <3>1, <3>2, NumbersCarried
  <2>3. CASE j # i
    <3>1. Carries(l, m, j)
      BY <1>1, <2>1, <2>3, CallsCarry
    <3> QED BY <1>4, <3>1, NumbersCarried
  <2> QED BY <2>2, <2>3
<1> QED BY <1>1, <1>4, <1>6, <1>8, <1>9, NumbersKept

LEMMA NumbersSync ==
    ASSUME TypeInv, NumbersInv, NEW q \in Slots, SyncProjectLifecycle(q)
    PROVE  NumbersInv'
<1> DEFINE m == req'[q]
<1>1. Unmoved /\ Alone(q) /\ UNCHANGED prjLog
  BY Unmoves, SyncLands
<1>2. PICK p \in Projects : Brought(m, p, {"updated"}, prjLog.n[p], Node(p).types)
  BY SyncLands
<1>3. Grows /\ CountsInv'
  BY <1>1, UnmovedGrows, UnmovedCounts DEF NumbersInv
<1>4. CreatesInv' /\ DeletesOK(req[q])'
  <2>1. m.at \notin CreateLabels /\ (m.at = "idle" \/ (m.at = "life.edges" /\ ~m.deleting))
    BY <1>2 DEF Brought, CreateLabels
  <2>2. CreatesInv'
    BY <1>1, <2>1, CreatesKept DEF NumbersInv
  <2> QED BY <2>1, <2>2 DEF DeletesOK, ResolveLabels, ResolvedLabels
<1>5. ASSUME NEW i \in Integrations
      PROVE  Numbered(req[q], i)'
  <2>1. Coming(m, i) = {"updated"} /\ m.p = p /\ m.n = prjLog.n[p]
    BY <1>2, ComingAt DEF Brought
  <2>2. prjLog.n[p] <= prjLog.n[p]
    BY LogValues
  <2> QED BY <1>1, <2>1, <2>2 DEF Numbered
<1> QED BY <1>1, <1>3, <1>4, <1>5, NumbersKept

LEMMA NumbersStep ==
    ASSUME TypeInv, TypeInv', NumbersInv, [Next]_projectVars
    PROVE  NumbersInv'
<1>1. CASE (LoginTick /\ UNCHANGED <<prj, repo, prjLog>>) \/ UNCHANGED projectVars
  <2>1. UNCHANGED <<req, prj, repo, prjLog>>
    BY <1>1 DEF LoginTick, projectVars, pool
  <2> QED BY <2>1 DEF NumbersInv, CreatesInv, CountsInv, DeletesOK, Numbered, Node
<1>2. CASE \E q \in Slots :
             \/ PlainActs(q) \/ TellActs(q) \/ DieP(q) \/ (IgrActs(q) /\ IgrAlone)
             \/ LifecycleStep(q) /\ ~CallPlugin(q) /\ ~CallFails(q)
  BY <1>2, NumbersQuiet
<1>3. CASE \E q \in Slots : \/ PatchProjectSave(q) \/ CreateProjectNode(q)
                            \/ ArchiveProject(q) \/ UnarchiveProject(q) \/ DeleteProjectNode(q)
  BY <1>3, NumbersWrites
<1>4. CASE \E q \in Slots : CallPlugin(q) \/ CallFails(q)
  BY <1>4, NumbersCall
<1>5. CASE \E q \in Slots : SyncProjectLifecycle(q)
  BY <1>5, NumbersSync
<1> QED BY <1>1, <1>2, <1>3, <1>4, <1>5, Steps

-----------------------------------------------------------------------------
(* No repository goes before its project.                                  *)

\* Whether a call leaves a repository.
LEMMA AfterDoes ==
    ASSUME NEW r \in RepoRecord, NEW b,
           NEW event \in {"created", "updated", "relocated", "archived", "unarchived", "deleted"}
    PROVE  /\ event = "created" => After(r, event, b).there
           /\ event \notin {"created", "deleted"} => After(r, event, b).there = r.there
           /\ event = "deleted" => ~After(r, event, b).there
<1>1. CASE event = "created"
  BY <1>1 DEF After
<1>2. CASE event = "updated"
  BY <1>2 DEF After, RepoRecord
<1>3. CASE event = "relocated"
  BY <1>3 DEF After, RepoRecord
<1>4. CASE event = "archived"
  BY <1>4 DEF After, RepoRecord
<1>5. CASE event = "unarchived"
  BY <1>5 DEF After, RepoRecord
<1>6. CASE event = "deleted"
  BY <1>6 DEF After, NoRepo
<1> QED BY <1>1, <1>2, <1>3, <1>4, <1>5, <1>6

LEMMA OutlivesKept ==
    ASSUME TypeInv, NumbersInv, RepositoryOutlivesProject, repo' = repo, prjLog'.heard = prjLog.heard,
           prjLog.asked \subseteq prjLog'.asked, TypeInv',
           \A p \in prjLog.born : prj'.node[p].there => Node(p).there
    PROVE  RepositoryOutlivesProject'
<1> SUFFICES ASSUME NEW p \in prjLog'.born, NEW i \in Integrations,
                    ~repo[p][i].there, prjLog.heard[p][i] > 0
             PROVE  ~prj'.node[p].there /\ p \in prjLog'.asked
  BY DEF RepositoryOutlivesProject, Node
<1>1. p \in Projects
  BY DEF TypeInv, PrjInv, PrjLogRecord
<1>2. p \in prjLog.born
  BY <1>1 DEF NumbersInv, CountsInv
<1> QED BY <1>2 DEF RepositoryOutlivesProject

LEMMA OutlivesCall ==
    ASSUME TypeInv, NumbersInv, RepositoryOutlivesProject, NEW q \in Slots, CallPlugin(q) \/ CallFails(q)
    PROVE  RepositoryOutlivesProject'
<1> DEFINE l == req[q]
           m == req'[q]
<1>1. /\ Calling(l) /\ Alone(q) /\ UNCHANGED prj
      /\ l.p \in Projects /\ l.rest \in SUBSET Integrations /\ l.n \in Nat /\ l.todo \in Todos
      /\ \A f \in {"born", "asked", "n", "loc"} : prjLog'[f] = prjLog[f]
  BY CallDoes
<1>2. PICK i \in l.rest : Called(l, i, m)
  BY CallDoes
<1>3. SUFFICES ASSUME NEW p \in prjLog.born, NEW j \in Integrations,
                      ~repo'[p][j].there, prjLog'.heard[p][j] > 0
               PROVE  ~Node(p).there /\ p \in prjLog.asked
  BY <1>1 DEF RepositoryOutlivesProject, Node
<1>4. p \in Projects
  BY LogValues
<1>5. CASE repo'[p][j].there = repo[p][j].there /\ prjLog'.heard[p][j] = prjLog.heard[p][j]
  BY <1>3, <1>5 DEF RepositoryOutlivesProject
<1>6. CASE p = l.p /\ j = i /\ Hears(l, i)
  <2>1. /\ repo'[p][j] = After(repo[p][j], l.todo[1], l.bundle)
        /\ repo[p][j].there \/ l.todo[1] = "created"
    BY <1>6 DEF Hears
  <2>2. repo[p][j] \in RepoRecord /\ l.todo[1] \in {"created", "updated", "relocated", "archived", "unarchived", "deleted"}
    BY <1>1, <1>4, LogValues, TodoFacts
  <2> DEFINE e == l.todo[1]
             r == repo[p][j]
  <2>3. e = "deleted"
    <3>0. /\ repo'[p][j] = After(r, e, l.bundle)
          /\ r.there \/ e = "created"
          /\ r \in RepoRecord /\ e \in {"created", "updated", "relocated", "archived", "unarchived", "deleted"}
      BY <2>1, <2>2
    <3> HIDE DEF e, r
    <3> DEFINE a == After(r, e, l.bundle)
    <3>1. (e = "created" => a.there) /\ (e \notin {"created", "deleted"} => a.there = r.there)
      BY Zenon, <3>0, AfterDoes
    <3> QED BY <1>3, <3>0, <3>1
  <2>4. l.p \in prjLog.asked
    BY <1>1, <1>6, <2>3, CallNumbered
  <2> QED BY <1>6, <2>4 DEF NumbersInv, CountsInv
<1> QED BY <1>2, <1>4, <1>5, <1>6 DEF Called

LEMMA OutlivesStep ==
    ASSUME TypeInv, TypeInv', NumbersInv, RepositoryOutlivesProject, [Next]_projectVars
    PROVE  RepositoryOutlivesProject'
<1>0. prjLog.born \subseteq Projects
  BY LogValues
<1>a. ASSUME Unmoved
      PROVE  RepositoryOutlivesProject'
  <2>1. \A p \in prjLog.born : prj'.node[p].there => Node(p).there
    BY <1>0, <1>a DEF Unmoved, Node
  <2>2. repo' = repo /\ prjLog'.heard = prjLog.heard /\ prjLog.asked \subseteq prjLog'.asked
    BY <1>a DEF Unmoved
  <2> QED BY <2>1, <2>2, OutlivesKept
<1>b. ASSUME NEW q \in Slots, NEW p \in Projects, Writes(q, p), p \in prjLog.born /\ prj'.node[p].there => Node(p).there
      PROVE  RepositoryOutlivesProject'
  <2>1. \A x \in prjLog.born : prj'.node[x].there => Node(x).there
    BY <1>0, <1>b DEF Writes, OneMoves, Node
  <2>2. repo' = repo /\ prjLog'.heard = prjLog.heard /\ prjLog.asked \subseteq prjLog'.asked
    BY <1>b DEF Writes, OneMoves
  <2> QED BY <2>1, <2>2, OutlivesKept
<1>1. CASE (LoginTick /\ UNCHANGED <<prj, repo, prjLog>>) \/ UNCHANGED projectVars
  <2>1. UNCHANGED <<prj, repo, prjLog>>
    BY <1>1 DEF projectVars
  <2> QED BY <1>a, <2>1 DEF Unmoved, Node
<1>2. CASE \E q \in Slots :
             \/ PlainActs(q) \/ TellActs(q) \/ DieP(q) \/ (IgrActs(q) /\ IgrAlone)
             \/ SyncProjectLifecycle(q) \/ (LifecycleStep(q) /\ ~CallPlugin(q) /\ ~CallFails(q))
  BY <1>a, <1>2, Unmoves
<1>3. ASSUME NEW q \in Slots, PatchProjectSave(q)
      PROVE  RepositoryOutlivesProject'
  BY <1>a, <1>b, <1>3, PatchWrites DEF Abstains
<1>4. ASSUME NEW q \in Slots, CreateProjectNode(q)
      PROVE  RepositoryOutlivesProject'
  <2>1. req[q].at = "project.create" /\ req[q].p \in Projects /\ (Abstains(q) \/ Writes(q, req[q].p))
    BY <1>4, CreateWrites
  <2>2. req[q].p \notin prjLog.born
    BY <2>1 DEF NumbersInv, CreatesInv, CreateLabels
  <2> QED BY <1>a, <1>b, <2>1, <2>2 DEF Abstains
<1>5. ASSUME NEW q \in Slots, ArchiveProject(q) \/ UnarchiveProject(q)
      PROVE  RepositoryOutlivesProject'
  <2>1. PICK p \in Projects, archived \in BOOLEAN : Node(p).there /\ Writes(q, p)
    BY <1>5, ArchiveWrites
  <2> QED BY <1>b, <2>1
<1>6. ASSUME NEW q \in Slots, DeleteProjectNode(q)
      PROVE  RepositoryOutlivesProject'
  BY <1>a, <1>b, <1>6, DeleteWrites DEF Abstains
<1>7. CASE \E q \in Slots : CallPlugin(q) \/ CallFails(q)
  BY <1>7, OutlivesCall
<1> QED BY <1>1, <1>2, <1>3, <1>4, <1>5, <1>6, <1>7, Steps

-----------------------------------------------------------------------------
(* The repositories follow.                                                *)

\* Nothing is written of the project, and nothing called of the plugin.
PairStill(p, i) ==
  /\ \A f \in {"there", "archived", "slug"} : prj'.node[p][f] = prj.node[p][f]
  /\ repo'[p][i] = repo[p][i] /\ prjLog'.heard[p][i] = prjLog.heard[p][i]
  /\ prjLog'.n[p] = prjLog.n[p] /\ prjLog'.loc[p] = prjLog.loc[p]
  /\ p \in prjLog'.asked <=> p \in prjLog.asked

\* What o brings of the pair it goes on to bring; what it brings now is right,
\* or as right as it was.
Keeps(o, p, i) ==
  Brings(o, p, i) => /\ Brings(o, p, i)' /\ req'[o].n = req[o].n
                     /\ Coming(req'[o], i) = Coming(req[o], i)
Apter(o, p, i, a) ==
  Brings(o, p, i)' => \/ Apt(req[o], i, a)'
                      \/ /\ Brings(o, p, i) /\ req'[o].n = req[o].n
                         /\ Apt(req[o], i, a) => Apt(req[o], i, a)'
\* What the attribute is to be stays what it is.
Steady(p, a) == IF a = "loc" THEN prjLog'.loc[p] = prjLog.loc[p]
                ELSE prj'.node[p][a] = prj.node[p][a]

KeepsEnds(o, p, i) ==
  \A e \in {"created", "deleted"} :
    Brings(o, p, i) /\ e \in Coming(req[o], i) => Brings(o, p, i)' /\ e \in Coming(req'[o], i)

LEMMA OthersKeep ==
    ASSUME NEW q \in Slots, Alone(q), NEW o \in Slots, o # q, NEW p, NEW i
    PROVE  Keeps(o, p, i) /\ KeepsEnds(o, p, i)
BY DEF Alone, Keeps, KeepsEnds, Brings

LEMMA OthersApter ==
    ASSUME NEW q \in Slots, Alone(q), NEW o \in Slots, o # q, NEW p, NEW i, NEW a \in Attributes,
           Steady(p, a)
    PROVE  Apter(o, p, i, a)
<1>1. req'[o] = req[o]
  BY DEF Alone
<1>2. CASE req[o].p = p
  <2>1. CASE a = "archived"
    BY <1>1, <1>2, <2>1 DEF Apter, Apt, Brings, Node, Steady
  <2>2. CASE a = "slug"
    BY <1>1, <1>2, <2>2 DEF Apter, Apt, Brings, Node, SlugRead, Steady
  <2>3. CASE a = "loc"
    BY <1>1, <1>2, <2>3 DEF Apter, Apt, Brings, Steady
  <2> QED BY <2>1, <2>2, <2>3 DEF Attributes
<1>3. CASE req[o].p # p
  BY <1>1, <1>3 DEF Apter, Brings
<1> QED BY <1>2, <1>3

\* The last write that touched an attribute stays the last.
LEMMA FollowsStays ==
    ASSUME TypeInv, NEW p \in Projects, NEW i \in Integrations, NEW a \in Attributes, NEW m \in Nat,
           Follows(p, i, a, m), \A o \in Slots : Keeps(o, p, i) /\ Apter(o, p, i, a),
           prjLog'.heard[p][i] = prjLog.heard[p][i], Right(p, i, a) => Right(p, i, a)'
    PROVE  Follows(p, i, a, m)'
<1>1. Pending(p, i, a, m) => Pending(p, i, a, m)'
  <2> SUFFICES ASSUME Pending(p, i, a, m)
               PROVE  Pending(p, i, a, m)'
    OBVIOUS
  <2>1. PICK o \in Slots : Brings(o, p, i) /\ req[o].n = m /\ Coming(req[o], i) \cap Setters(a) # {}
    BY DEF Pending
  <2>2. Brings(o, p, i)' /\ req'[o].n = m /\ Coming(req'[o], i) \cap Setters(a) # {}
    BY <2>1 DEF Keeps
  <2> QED BY <2>2 DEF Pending
<1>2. Doomed(p, i) => Doomed(p, i)'
  <2> SUFFICES ASSUME Doomed(p, i)
               PROVE  Doomed(p, i)'
    OBVIOUS
  <2>1. PICK o \in Slots : Brings(o, p, i) /\ req[o].n < prjLog.heard[p][i]
    BY DEF Doomed
  <2>2. Brings(o, p, i)' /\ req'[o].n < prjLog'.heard[p][i]
    BY <2>1 DEF Keeps
  <2> QED BY <2>2 DEF Doomed
<1>3. ASSUME NEW o \in Slots, Brings(o, p, i)', req'[o].n >= m
      PROVE  Apt(req[o], i, a)'
  BY <1>3 DEF Follows, Apter
<1> QED BY <1>1, <1>2, <1>3 DEF Follows

LEMMA SettledStays ==
    ASSUME TypeInv, NEW q \in Slots, Alone(q), NEW p \in Projects, NEW i \in Integrations,
           Settled(p, i), PairStill(p, i), KeepsEnds(q, p, i),
           Node(p).there => Keeps(q, p, i) /\ \A a \in Attributes : Apter(q, p, i, a)
    PROVE  Settled(p, i)'
<1>1. \A o \in Slots : KeepsEnds(o, p, i)
  BY OthersKeep
<1>2. ASSUME Node(p).there, NEW a \in Attributes
      PROVE  \E m \in 1..prjLog'.n[p] : Follows(p, i, a, m)'
  <2>1. PICK m \in 1..prjLog.n[p] : Follows(p, i, a, m)
    BY <1>2 DEF Settled
  <2>2. \A o \in Slots : Keeps(o, p, i)
    BY <1>2, OthersKeep
  <2>3. \A o \in Slots : Apter(o, p, i, a)
    <3>1. Steady(p, a)
      BY DEF PairStill, Steady, Attributes
    <3> QED BY <1>2, <3>1, OthersApter
  <2>4. Right(p, i, a) => Right(p, i, a)'
    BY DEF Right, PairStill, Node, Attributes
  <2>5. m \in Nat /\ m \in 1..prjLog'.n[p]
    BY <2>1, LogValues DEF PairStill
  <2>6. Follows(p, i, a, m)'
    BY <2>1, <2>2, <2>3, <2>4, <2>5, FollowsStays DEF PairStill
  <2> QED BY <2>5, <2>6
<1>3. prj'.node[p].there = Node(p).there
  BY DEF PairStill, Node
<1>4. ASSUME NEW e \in {"created", "deleted"}, \E o \in Slots : Brings(o, p, i) /\ e \in Coming(req[o], i)
      PROVE  \E o \in Slots : Brings(o, p, i)' /\ e \in Coming(req'[o], i)
  BY <1>1, <1>4 DEF KeepsEnds
<1>5. prj'.node[p].there => \A a \in Attributes : \E m \in 1..prjLog'.n[p] : Follows(p, i, a, m)'
  BY <1>2, <1>3
<1>6. p \notin prjLog'.asked => repo'[p][i].there \/ \E o \in Slots : Brings(o, p, i)' /\ "created" \in Coming(req'[o], i)
  BY <1>4 DEF Settled, PairStill
<1>7. p \in prjLog'.asked => \/ \E o \in Slots : Brings(o, p, i)' /\ "deleted" \in Coming(req'[o], i)
                             \/ ~repo'[p][i].there /\ prjLog'.heard[p][i] >= 2
  BY <1>4 DEF Settled, PairStill
<1> QED BY <1>5, <1>6, <1>7 DEF Settled, Node

\* What is carried keeps a pair settled.
LEMMA PairCarries ==
    ASSUME TypeInv, NEW q \in Slots, Alone(q), NEW p \in Projects, NEW i \in Integrations,
           Carries(req[q], req'[q], i), <<p, i>> \notin prjLog'.apart, PairStill(p, i), Settled(p, i)
    PROVE  Settled(p, i)'
<1> DEFINE l == req[q]
           m == req'[q]
<1>1. Coming(m, i) # {} => /\ m.p = l.p /\ m.n = l.n /\ m.types = l.types
                           /\ Coming(m, i) \subseteq Coming(l, i)
  BY DEF Carries
<1>2. l.p = p => \/ Coming(m, i) = Coming(l, i)
                 \/ ~Node(p).there /\ Coming(l, i) \cap {"created", "deleted"} = {}
  BY DEF Carries
<1>3. l.p = p /\ Coming(m, i) # {} /\ SlugRead(m, i) =>
        \/ SlugRead(l, i) /\ m.bundle["slug"] = l.bundle["slug"]
        \/ m.bundle["slug"] = Node(p).slug
  BY DEF Carries
<1>4. KeepsEnds(q, p, i)
  BY <1>1, <1>2 DEF KeepsEnds, Brings
<1>5. Node(p).there => Keeps(q, p, i)
  BY <1>1, <1>2 DEF Keeps, Brings
<1>6. ASSUME Node(p).there, NEW a \in Attributes
      PROVE  Apter(q, p, i, a)
  <2> SUFFICES ASSUME Coming(m, i) # {}, m.p = p
               PROVE  Brings(q, p, i) /\ m.n = l.n /\ (Apt(l, i, a) => Apt(req[q], i, a)')
    BY DEF Apter, Brings
  <2>1. Brings(q, p, i) /\ m.n = l.n /\ m.types = l.types /\ l.p = p
    BY <1>1 DEF Brings
  <2>2. prj'.node[p].archived = Node(p).archived /\ prj'.node[p].slug = Node(p).slug
        /\ prjLog'.loc[p] = prjLog.loc[p]
    BY DEF PairStill, Node
  <2>3. CASE a = "archived"
    BY <1>1, <2>1, <2>2, <2>3 DEF Apt, Node
  <2>4. CASE a = "slug"
    BY <1>3, <2>1, <2>2, <2>4 DEF Apt, Node
  <2>5. CASE a = "loc"
    BY <1>1, <2>1, <2>2, <2>5 DEF Apt
  <2> QED BY <2>1, <2>3, <2>4, <2>5 DEF Attributes
<1> QED BY <1>4, <1>5, <1>6, SettledStays

LEMMA UnmovedPairs ==
    ASSUME Unmoved, NEW p \in Projects, NEW i \in Integrations
    PROVE  PairStill(p, i)
BY DEF Unmoved, PairStill, Node

LEMMA RepoCarried ==
    ASSUME TypeInv, RepoInv, NEW q \in Slots, Alone(q), Unmoved, \A i \in Integrations : Carries(req[q], req'[q], i)
    PROVE  RepoInv'
<1> SUFFICES ASSUME NEW p \in prjLog.born, NEW i \in Integrations, <<p, i>> \notin prjLog'.apart
             PROVE  Settled(p, i)'
  BY DEF RepoInv, Unmoved
<1>1. p \in Projects /\ <<p, i>> \notin prjLog.apart
  BY LogValues DEF Unmoved
<1>2. Settled(p, i) /\ PairStill(p, i)
  BY <1>1, UnmovedPairs DEF RepoInv
<1> QED BY <1>1, <1>2, PairCarries

\* A synchronisation brings what every plugin may hear at any time.
LEMMA RepoSync ==
    ASSUME TypeInv, RepoInv, NEW q \in Slots, SyncProjectLifecycle(q)
    PROVE  RepoInv'
<1> DEFINE l == req[q]
           m == req'[q]
<1>1. Unmoved /\ Alone(q) /\ l = Idle
  BY Unmoves, SyncLands
<1>2. PICK x \in Projects : Brought(m, x, {"updated"}, prjLog.n[x], Node(x).types)
  BY SyncLands
<1> SUFFICES ASSUME NEW p \in prjLog.born, NEW i \in Integrations, <<p, i>> \notin prjLog'.apart
             PROVE  Settled(p, i)'
  BY <1>1 DEF RepoInv, Unmoved
<1>3. p \in Projects /\ <<p, i>> \notin prjLog.apart
  BY <1>1, LogValues DEF Unmoved
<1>4. Settled(p, i) /\ PairStill(p, i)
  BY <1>1, <1>3, UnmovedPairs DEF RepoInv
<1>5. Coming(l, i) = {}
  BY <1>1, ComingAt DEF Idle
<1>6. Keeps(q, p, i) /\ KeepsEnds(q, p, i)
  BY <1>5 DEF Keeps, KeepsEnds, Brings
<1>7. Coming(m, i) = {"updated"} /\ m.at \in {"idle", "life.edges"}
  BY <1>2 DEF Brought
<1>8. ASSUME NEW a \in Attributes
      PROVE  Apter(q, p, i, a)
  <2>1. "updated" \notin Setters("archived") /\ "updated" \notin Setters("loc")
    BY DEF Setters
  <2>2. ~SlugRead(m, i)
    BY <1>7 DEF SlugRead, CallLabels, LinkLabels
  <2>3. Apt(req[q], i, a)'
    BY <1>7, <2>1, <2>2 DEF Apt, Attributes
  <2> QED BY <2>3 DEF Apter
<1> QED BY <1>1, <1>3, <1>4, <1>6, <1>8, SettledStays

\* A write leaves the pairs of other projects as they are.
LEMMA OthersSettled ==
    ASSUME TypeInv, RepoInv, NEW q \in Slots, NEW p \in Projects, Writes(q, p),
           NEW x \in Projects, x \in prjLog'.born, x # p, NEW i \in Integrations, <<x, i>> \notin prjLog'.apart
    PROVE  Settled(x, i)'
<1>1. Alone(q) /\ Silent(req[q]) /\ OneMoves(p)
  BY DEF Writes
<1>2. x \in prjLog.born /\ <<x, i>> \notin prjLog.apart /\ PairStill(x, i)
  BY <1>1 DEF OneMoves, PairStill
<1>3. Settled(x, i)
  BY <1>2 DEF RepoInv
<1>4. Keeps(q, x, i) /\ KeepsEnds(q, x, i)
  BY <1>1 DEF Keeps, KeepsEnds, Brings, Silent
<1>5. ~Brings(q, x, i)'
  BY DEF Brings, Writes
<1>6. \A a \in Attributes : Apter(q, x, i, a)
  BY <1>5 DEF Apter
<1> QED BY <1>1, <1>2, <1>3, <1>4, <1>6, SettledStays

\* The write is the last that touched an attribute whose call it has come.
LEMMA WriteSets ==
    ASSUME TypeInv, NumbersInv, NEW q \in Slots, NEW p \in Projects, Writes(q, p), NEW i \in Integrations,
           NEW a \in Attributes, NEW n \in Nat, n = prjLog'.n[p], prjLog.n[p] < n,
           Coming(req'[q], i) \cap Setters(a) # {}, Apt(req[q], i, a)'
    PROVE  Follows(p, i, a, n)'
<1> DEFINE m == req'[q]
<1>1. Alone(q) /\ prjLog'.heard = prjLog.heard /\ m.p = p /\ m.n = n
  BY DEF Writes, OneMoves
<1>2. prjLog.n[p] \in Nat /\ n \in Nat /\ prjLog.n[p] < n
  BY LogValues
<1>3. ASSUME NEW o \in Slots, o # q, Brings(o, p, i)'
      PROVE  ~(req'[o].n >= n)
  <2>1. req'[o] = req[o]
    BY <1>1, <1>3 DEF Alone
  <2>2. Coming(req[o], i) # {} /\ req[o].p = p
    BY <1>3, <2>1 DEF Brings
  <2>3. req[o].n \in Nat /\ req[o].n <= prjLog.n[p]
    BY <2>2, ComingFrom DEF NumbersInv, Numbered
  <2> QED BY <1>2, <2>1, <2>3
<1>4. Brings(q, p, i)' /\ Coming(m, i) \cap Setters(a) # {}
  BY <1>1 DEF Brings
<1>5. Pending(p, i, a, n)'
  BY <1>1, <1>4 DEF Pending
<1> QED BY <1>3, <1>5 DEF Follows

\* Of what a write leaves as it is, the last write stays the last.
LEMMA WriteLeaves ==
    ASSUME TypeInv, NEW q \in Slots, NEW p \in Projects, Writes(q, p), NEW i \in Integrations,
           NEW a \in Attributes, NEW k \in Nat, Follows(p, i, a, k), Steady(p, a), Apt(req[q], i, a)'
    PROVE  Follows(p, i, a, k)'
<1>1. Alone(q) /\ Silent(req[q]) /\ prjLog'.heard = prjLog.heard /\ repo' = repo
  BY DEF Writes, OneMoves
<1>2. \A o \in Slots : Keeps(o, p, i)
  <2>1. Keeps(q, p, i)
    BY <1>1 DEF Keeps, Brings, Silent
  <2> QED BY <1>1, <2>1, OthersKeep
<1>3. \A o \in Slots : Apter(o, p, i, a)
  <2>1. Apter(q, p, i, a)
    BY DEF Apter
  <2> QED BY <1>1, <2>1, OthersApter
<1>4. Right(p, i, a) => Right(p, i, a)'
  BY <1>1 DEF Right, Steady, Node, Attributes
<1> QED BY <1>1, <1>2, <1>3, <1>4, FollowsStays

\* The repository of a project that is not asked to go is there or to come.
LEMMA WriteStands ==
    ASSUME NEW q \in Slots, NEW p \in Projects, Writes(q, p), NEW i \in Integrations, Settled(p, i),
           p \notin prjLog.asked
    PROVE  repo'[p][i].there \/ \E o \in Slots : Brings(o, p, i)' /\ "created" \in Coming(req'[o], i)
<1>1. Alone(q) /\ Silent(req[q]) /\ repo' = repo
  BY DEF Writes, OneMoves
<1>2. CASE repo[p][i].there
  BY <1>1, <1>2
<1>3. CASE ~repo[p][i].there
  <2>1. PICK o \in Slots : Brings(o, p, i) /\ "created" \in Coming(req[o], i)
    BY <1>3 DEF Settled
  <2>2. o # q /\ req'[o] = req[o]
    BY <1>1, <2>1 DEF Silent, Alone
  <2> QED BY <2>1, <2>2 DEF Brings
<1> QED BY <1>2, <1>3

LEMMA RepoWritten ==
    ASSUME TypeInv, TypeInv', RepoInv, NEW q \in Slots, NEW p \in Projects, Writes(q, p),
           \A i \in Integrations : <<p, i>> \notin prjLog'.apart => Settled(p, i)'
    PROVE  RepoInv'
<1> SUFFICES ASSUME NEW x \in prjLog'.born, NEW i \in Integrations, <<x, i>> \notin prjLog'.apart
             PROVE  Settled(x, i)'
  BY DEF RepoInv
<1>1. x \in Projects
  BY DEF TypeInv, PrjInv, PrjLogRecord
<1>2. CASE x = p
  BY <1>2
<1>3. CASE x # p
  BY <1>1, <1>3, OthersSettled
<1> QED BY <1>2, <1>3

LEMMA RepoAbstains ==
    ASSUME TypeInv, RepoInv, NEW q \in Slots, Abstains(q)
    PROVE  RepoInv'
<1>1. Unmoved /\ Alone(q) /\ \A i \in Integrations : Carries(req[q], req'[q], i)
  BY CarriesSilence DEF Abstains, Silent
<1> QED BY <1>1, RepoCarried

\* A creation is the first that writes every attribute.
LEMMA RepoCreate ==
    ASSUME TypeInv, TypeInv', NumbersInv, RepoInv, NEW q \in Slots, CreateProjectNode(q)
    PROVE  RepoInv'
<1> DEFINE l == req[q]
           m == req'[q]
<1>0. PICK p \in Projects : p = l.p
  BY CreateWrites
<1>1. l.at = "project.create"
  BY CreateWrites
<1>2. CASE Abstains(q)
  BY <1>2, RepoAbstains
<1>3. CASE ~Abstains(q)
  <2>1. /\ Writes(q, p) /\ prj'.node[p].there /\ ~prj'.node[p].archived
        /\ prjLog'.n[p] = 1 /\ prjLog'.asked = prjLog.asked /\ prjLog'.loc[p] = prj'.node[p].types
        /\ \A i \in Integrations : <<p, i>> \notin prjLog'.apart =>
                      /\ Coming(m, i) = {"created"} /\ m.at = "life.edges" /\ m.p = p /\ m.n = 1
                      /\ m.types = prj'.node[p].types
    BY <1>0, <1>3, CreateWrites
  <2>2. p \notin prjLog.born /\ p \notin prjLog.asked /\ prjLog.n[p] = 0
    BY <1>0, <1>1 DEF NumbersInv, CreatesInv, CreateLabels, CountsInv
  <2>3. prj'.node[p].archived \in BOOLEAN
    BY DEF TypeInv, PrjInv, PrjRecord, NodeRecord
  <2> SUFFICES ASSUME NEW i \in Integrations, <<p, i>> \notin prjLog'.apart
               PROVE  Settled(p, i)'
    BY <2>1, RepoWritten
  <2>4. /\ Coming(m, i) = {"created"} /\ m.at = "life.edges" /\ m.p = p
        /\ m.types = prj'.node[p].types
    BY <2>1
  <2>5. ~SlugRead(m, i)
    BY <2>4 DEF SlugRead, CallLabels, LinkLabels
  <2>6. ASSUME NEW a \in Attributes
        PROVE  Follows(p, i, a, 1)'
    <3>1. "created" \in Setters(a)
      BY DEF Setters, Attributes
    <3>2. Apt(req[q], i, a)'
      BY <2>1, <2>3, <2>4, <2>5 DEF Apt, Node, Attributes
    <3>3. Coming(m, i) \cap Setters(a) # {} /\ prjLog.n[p] < 1 /\ 1 \in Nat
      BY <2>2, <2>4, <3>1
    <3> QED BY <2>1, <3>2, <3>3, WriteSets
  <2>7. Brings(q, p, i)' /\ "created" \in Coming(req'[q], i)
    BY <2>4 DEF Brings
  <2>8. 1 \in 1..prjLog'.n[p] /\ p \notin prjLog'.asked
    BY <2>1, <2>2
  <2>9. \A a \in Attributes : \E k \in 1..prjLog'.n[p] : Follows(p, i, a, k)'
    BY <2>6, <2>8
  <2> QED BY <2>7, <2>8, <2>9 DEF Settled
<1> QED BY <1>2, <1>3

\* What a write leaves as it is stays settled beside what it sets.
LEMMA WriteSettles ==
    ASSUME TypeInv, TypeInv', NumbersInv, RepoInv, NEW q \in Slots, NEW p \in Projects, Writes(q, p),
           NEW i \in Integrations, <<p, i>> \notin prjLog'.apart, Node(p).there, prj'.node[p].there,
           prjLog'.n[p] = prjLog.n[p] + 1, p \notin prjLog'.asked,
           \A a \in Attributes : /\ Apt(req[q], i, a)'
                                 /\ Coming(req'[q], i) \cap Setters(a) # {} \/ Steady(p, a)
    PROVE  Settled(p, i)'
<1>1. prjLog.n[p] \in Nat /\ prjLog'.n[p] \in Nat
  BY LogValues
<1>2. p \in prjLog.born /\ <<p, i>> \notin prjLog.apart /\ p \notin prjLog.asked
  BY DEF NumbersInv, CountsInv, Writes, OneMoves
<1>3. Settled(p, i)
  BY <1>2 DEF RepoInv
<1>4. ASSUME NEW a \in Attributes
      PROVE  \E k \in 1..prjLog'.n[p] : Follows(p, i, a, k)'
  <2>1. CASE Coming(req'[q], i) \cap Setters(a) # {}
    <3>1. PICK n \in Nat : n = prjLog.n[p] + 1
      BY <1>1
    <3>2. Follows(p, i, a, n)'
      BY <1>1, <2>1, <3>1, WriteSets
    <3>3. n \in 1..prjLog'.n[p]
      BY <1>1, <3>1
    <3> QED BY <3>2, <3>3
  <2>2. CASE Steady(p, a)
    <3>1. PICK k \in 1..prjLog.n[p] : Follows(p, i, a, k)
      BY <1>3 DEF Settled
    <3>2. k \in Nat /\ k \in 1..prjLog'.n[p]
      BY <1>1, <3>1
    <3>3. Follows(p, i, a, k)'
      BY <2>2, <3>1, <3>2, WriteLeaves
    <3> QED BY <3>2, <3>3
  <2> QED BY <2>1, <2>2
<1>5. repo'[p][i].there \/ \E o \in Slots : Brings(o, p, i)' /\ "created" \in Coming(req'[o], i)
  BY <1>2, <1>3, WriteStands
<1> QED BY <1>4, <1>5 DEF Settled

LEMMA RepoArchive ==
    ASSUME TypeInv, TypeInv', NumbersInv, RepoInv, NEW q \in Slots, ArchiveProject(q) \/ UnarchiveProject(q)
    PROVE  RepoInv'
<1> DEFINE m == req'[q]
<1>1. PICK p \in Projects, archived \in BOOLEAN :
             /\ Node(p).there /\ Writes(q, p)
             /\ prj'.node[p].there /\ prj'.node[p].archived = archived /\ prj'.node[p].slug = Node(p).slug
             /\ prjLog'.n[p] = prjLog.n[p] + 1 /\ prjLog'.loc[p] = prjLog.loc[p]
             /\ prjLog'.born = prjLog.born /\ prjLog'.asked = prjLog.asked
             /\ \A i : Coming(m, i) = {IF archived THEN "archived" ELSE "unarchived"}
             /\ m.at = "life.edges" /\ ~m.deleting /\ m.p = p /\ m.n = prjLog'.n[p]
  BY ArchiveWrites
<1> SUFFICES ASSUME NEW i \in Integrations, <<p, i>> \notin prjLog'.apart
             PROVE  Settled(p, i)'
  BY <1>1, RepoWritten
<1>2. p \notin prjLog'.asked
  BY <1>1 DEF NumbersInv, CountsInv
<1>3. ASSUME NEW a \in Attributes
      PROVE  /\ Apt(req[q], i, a)'
             /\ Coming(req'[q], i) \cap Setters(a) # {} \/ Steady(p, a)
  <2>1. CASE a = "archived"
    BY <1>1, <2>1 DEF Apt, Setters, Node
  <2>2. CASE a = "slug"
    BY <1>1, <2>2 DEF Apt, SlugRead, CallLabels, LinkLabels, Steady, Node
  <2>3. CASE a = "loc"
    <3>1. Coming(m, i) \cap Setters(a) = {}
      BY <1>1, <2>3 DEF Setters
    <3> QED BY <1>1, <2>3, <3>1 DEF Apt, Steady
  <2> QED BY <2>1, <2>2, <2>3 DEF Attributes
<1> QED BY <1>1, <1>2, <1>3, WriteSettles

LEMMA RepoPatch ==
    ASSUME TypeInv, TypeInv', NumbersInv, RepoInv, NEW q \in Slots, PatchProjectSave(q)
    PROVE  RepoInv'
<1> DEFINE l == req[q]
           m == req'[q]
<1>0. PICK p \in Projects : p = l.p
  BY PatchWrites
<1>1. CASE ~Reachable(p)
  BY <1>0, <1>1, PatchWrites, RepoAbstains
<1>2. CASE Reachable(p)
  <2>1. /\ Writes(q, p) /\ Node(p).there
        /\ prj'.node[p].there /\ prj'.node[p].slug = l.doc.slug /\ prj'.node[p].archived = l.read.archived
        /\ prjLog'.n[p] = prjLog.n[p] + 1 /\ prjLog'.born = prjLog.born /\ prjLog'.asked = prjLog.asked
        /\ prjLog'.loc[p] = IF Relocates(l) THEN prj'.node[p].types ELSE prjLog.loc[p]
        /\ \A i \in Integrations : <<p, i>> \notin prjLog'.apart =>
             /\ Node(p) = l.read /\ m.at = "project.rescore" /\ m.p = p
             /\ m.types = prj'.node[p].types /\ m.n = prjLog'.n[p]
             /\ Coming(m, i) \subseteq {"updated", "relocated"}
             /\ "updated" \in Coming(m, i) <=> l.doc.slug # l.read.slug
             /\ "relocated" \in Coming(m, i) <=> Relocates(l)
    BY <1>0, <1>2, PatchWrites
  <2> SUFFICES ASSUME NEW i \in Integrations, <<p, i>> \notin prjLog'.apart
               PROVE  Settled(p, i)'
    BY <2>1, RepoWritten
  <2>2. /\ Node(p) = l.read /\ m.at = "project.rescore" /\ m.p = p
        /\ m.types = prj'.node[p].types
        /\ Coming(m, i) \subseteq {"updated", "relocated"}
        /\ "updated" \in Coming(m, i) <=> l.doc.slug # l.read.slug
        /\ "relocated" \in Coming(m, i) <=> Relocates(l)
    BY <2>1
  <2>3. p \notin prjLog'.asked
    BY <2>1 DEF NumbersInv, CountsInv
  <2>4. ASSUME NEW a \in Attributes
        PROVE  /\ Apt(req[q], i, a)'
               /\ Coming(req'[q], i) \cap Setters(a) # {} \/ Steady(p, a)
    <3>1. CASE a = "archived"
      <4>1. Coming(m, i) \cap Setters(a) = {}
        BY <2>2, <3>1 DEF Setters
      <4> QED BY <2>1, <2>2, <3>1, <4>1 DEF Apt, Steady, Node
    <3>2. CASE a = "slug"
      <4>1. Apt(req[q], i, a)'
        BY <2>2, <3>2 DEF Apt, SlugRead, CallLabels, LinkLabels
      <4>2. CASE "updated" \in Coming(m, i)
        BY <3>2, <4>1, <4>2 DEF Setters
      <4>3. CASE "updated" \notin Coming(m, i)
        BY <2>1, <2>2, <3>2, <4>1, <4>3 DEF Steady, Node
      <4> QED BY <4>2, <4>3
    <3>3. CASE a = "loc"
      <4>1. CASE Relocates(l)
        BY <2>1, <2>2, <3>3, <4>1 DEF Apt, Setters
      <4>2. CASE ~Relocates(l)
        <5>1. Coming(m, i) \cap Setters(a) = {}
          BY <2>2, <3>3, <4>2 DEF Setters
        <5> QED BY <2>1, <3>3, <4>2, <5>1 DEF Apt, Steady
      <4> QED BY <4>1, <4>2
    <3> QED BY <3>1, <3>2, <3>3 DEF Attributes
  <2> QED BY <2>1, <2>3, <2>4, WriteSettles
<1> QED BY <1>1, <1>2

\* A deletion that asks for the repository is brought to every plugin that is
\* to hear of it; one that does not leaves it where it is.
LEMMA RepoDelete ==
    ASSUME TypeInv, TypeInv', NumbersInv, RepoInv, NEW q \in Slots, DeleteProjectNode(q)
    PROVE  RepoInv'
<1> DEFINE l == req[q]
           m == req'[q]
<1>0. PICK p \in Projects : p = l.p
  BY DeleteWrites
<1>1. CASE ~Reachable(p)
  BY <1>0, <1>1, DeleteWrites, RepoAbstains
<1>2. CASE Reachable(p)
  <2>1. /\ l.at = "project.delete" /\ Writes(q, p) /\ Node(p).there /\ ~prj'.node[p].there
        /\ prjLog'.asked = IF l.deleting THEN prjLog.asked \cup {p} ELSE prjLog.asked
        /\ l.deleting => \A i \in l.rest : Coming(m, i) = {"deleted"} /\ m.p = p
    BY <1>0, <1>2, DeleteWrites
  <2> SUFFICES ASSUME NEW i \in Integrations, <<p, i>> \notin prjLog'.apart
               PROVE  Settled(p, i)'
    BY <2>1, RepoWritten
  <2>2. p \in prjLog.born /\ p \notin prjLog.asked /\ <<p, i>> \notin prjLog.apart
    BY <2>1 DEF NumbersInv, CountsInv, Writes, OneMoves
  <2>3. Settled(p, i)
    BY <2>2 DEF RepoInv
  <2>4. CASE l.deleting
    <3>1. DeletesOK(l)
      BY DEF NumbersInv
    <3>2. i \in l.rest
      BY <1>0, <2>1, <2>2, <2>4, <3>1 DEF DeletesOK
    <3>3. Brings(q, p, i)' /\ "deleted" \in Coming(req'[q], i)
      BY <2>1, <2>4, <3>2 DEF Brings
    <3>4. ~Node(p)'.there /\ p \in prjLog'.asked
      BY <2>1, <2>4 DEF Node
    <3> QED BY <3>3, <3>4 DEF Settled
  <2>5. CASE ~l.deleting
    <3>1. ~Node(p)'.there /\ p \notin prjLog'.asked
      BY <2>1, <2>2, <2>5 DEF Node
    <3>2. repo'[p][i].there \/ \E o \in Slots : Brings(o, p, i)' /\ "created" \in Coming(req'[o], i)
      BY <2>1, <2>2, <2>3, WriteStands
    <3> QED BY <3>1, <3>2 DEF Settled
  <2> QED BY <2>4, <2>5
<1> QED BY <1>1, <1>2

\* The plugin of i hears of p from q, and nobody wrote or called beyond it.
HeardNow(q, p, i) ==
  /\ Calling(req[q]) /\ Alone(q) /\ req[q].p = p /\ i \in req[q].rest
  /\ req[q].todo \in Todos /\ req[q].n \in Nat
  /\ prj' = prj /\ \A f \in {"asked", "n", "loc"} : prjLog'[f] = prjLog[f]
  /\ Hears(req[q], i) /\ ~Overtakes(req[q], i) /\ prjLog'.heard[p][i] = req[q].n
  /\ Coming(req'[q], i) = Later(req[q]) /\ ~SlugRead(req'[q], i)
  /\ Coming(req'[q], i) # {} => /\ req'[q].p = p /\ req'[q].n = req[q].n
                                /\ req'[q].types = req[q].types
  /\ req[q].todo[1] = "created" => req[q].n = 1
  /\ req[q].todo[1] = "deleted" => p \in prjLog.asked /\ ~Node(p).there /\ req[q].n >= 2

\* The events that come are the one called for now and the later ones.
LEMMA ComingNow ==
    ASSUME NEW l, Calling(l), NEW i \in l.rest
    PROVE  Coming(l, i) \subseteq {l.todo[1]} \cup Later(l)
<1>1. l.todo \in Todos /\ l.at \in CallLabels /\ l.todo # <<>>
  BY CallKinds, TodoFacts DEF Calling
<1>2. Coming(l, i) = ComingOf(l.todo, l.rest, i)
  BY <1>1, ComingAt
<1>3. DOMAIN l.todo \subseteq 1..2
  <2>1. DOMAIN l.todo = 1..2 \/ DOMAIN l.todo = 1..1
    BY <1>1, TodoFacts
  <2> QED BY <2>1
<1>4. \A k \in DOMAIN l.todo : k = 1 \/ k > 1
  BY <1>3
<1> QED BY <1>2, <1>4 DEF ComingOf, Later

\* What a call sets is right when the call is, and it leaves the rest alone.
LEMMA CallSets ==
    ASSUME TypeInv, NEW q \in Slots, NEW p \in Projects, NEW i \in Integrations, HeardNow(q, p, i),
           Node(p).there, NEW a \in Attributes
    PROVE  /\ req[q].todo[1] \in Setters(a) /\ Apt(req[q], i, a) => Right(p, i, a)'
           /\ req[q].todo[1] \notin Setters(a) /\ Right(p, i, a) => Right(p, i, a)'
<1> DEFINE l == req[q]
           e == l.todo[1]
           b == l.bundle
           r == repo[p][i]
           s == repo'[p][i]
<1>1. /\ e \in {"created", "updated", "relocated", "archived", "unarchived"}
      /\ l.at \in CallLabels /\ i \in l.rest /\ DOMAIN b = {"slug", "types"}
  <2>1. l.todo \in Todos /\ l.todo # <<"deleted">> /\ e # "deleted"
    BY TodoFacts DEF HeardNow
  <2>2. l.at \in CallLabels /\ DOMAIN b = {"slug", "types"}
    BY <2>1 DEF HeardNow, Calling, DispatchOK
  <2> QED BY <2>1, <2>2, TodoFacts DEF HeardNow
<1>2. s = After(r, e, b) /\ r \in RepoRecord
  BY LogValues DEF HeardNow, Hears
<1>3. /\ s.archived = IF e = "archived" THEN TRUE ELSE IF e \in {"created", "unarchived"} THEN FALSE ELSE r.archived
      /\ s.slug = IF e \in {"created", "updated"} THEN b["slug"] ELSE r.slug
      /\ s.loc = IF e \in {"created", "relocated"} THEN b["types"] ELSE r.loc
  <2>0. e \in {"created", "updated", "relocated", "archived", "unarchived"} /\ s = After(r, e, b) /\ r \in RepoRecord
    BY <1>1, <1>2
  <2> HIDE DEF e, r, s, b
  <2>1. CASE e = "created"
    BY <2>0, <2>1 DEF After
  <2>2. CASE e = "updated"
    BY <2>0, <2>2 DEF After, RepoRecord
  <2>3. CASE e = "relocated"
    BY <2>0, <2>3 DEF After, RepoRecord
  <2>4. CASE e = "archived"
    BY <2>0, <2>4 DEF After, RepoRecord
  <2>5. CASE e = "unarchived"
    BY <2>0, <2>5 DEF After, RepoRecord
  <2> QED BY <2>0, <2>1, <2>2, <2>3, <2>4, <2>5
<1>4. /\ Right(p, i, "archived")' <=> s.archived = Node(p).archived
      /\ Right(p, i, "slug")' <=> s.slug = Node(p).slug
      /\ Right(p, i, "loc")' <=> s.loc = prjLog.loc[p]
  BY DEF Right, Node, HeardNow
<1>5. e \in Coming(l, i) /\ l.p = p
  BY EventComes DEF HeardNow
<1>6. e \in {"created", "relocated"} => b["types"] = l.types
  BY DEF HeardNow, Overtakes
<1>7. Node(p).archived \in BOOLEAN
  BY LogValues DEF NodeRecord
<1>8. CASE a = "archived"
  BY <1>1, <1>3, <1>4, <1>5, <1>7, <1>8 DEF Right, Apt, Setters
<1>9. CASE a = "slug"
  BY <1>1, <1>3, <1>4, <1>5, <1>9 DEF Right, Apt, Setters, SlugRead
<1>10. CASE a = "loc"
  BY <1>1, <1>3, <1>4, <1>5, <1>6, <1>10 DEF Right, Apt, Setters
<1> QED BY <1>8, <1>9, <1>10 DEF Attributes

LEMMA CallFollows ==
    ASSUME TypeInv, NEW q \in Slots, NEW p \in Projects, NEW i \in Integrations, HeardNow(q, p, i),
           Node(p).there, NEW a \in Attributes, NEW k \in Nat, Follows(p, i, a, k)
    PROVE  Follows(p, i, a, k)'
<1> DEFINE l == req[q]
           m == req'[q]
<1>0. /\ Calling(l) /\ Alone(q) /\ l.p = p /\ i \in l.rest /\ l.n \in Nat
      /\ prj' = prj /\ prjLog'.loc = prjLog.loc /\ prjLog'.heard[p][i] = l.n
      /\ Coming(m, i) = Later(l) /\ ~SlugRead(m, i)
      /\ Coming(m, i) # {} => m.p = p /\ m.n = l.n /\ m.types = l.types
  BY DEF HeardNow
<1>1. /\ l.todo[1] \in Coming(l, i) /\ Later(l) \subseteq Coming(l, i)
      /\ Coming(l, i) \subseteq {l.todo[1]} \cup Later(l)
  BY <1>0, EventComes, ComingNow
<1>2. Brings(q, p, i)
  BY <1>0, <1>1 DEF Brings
<1>3. prjLog.heard[p][i] \in Nat /\ prjLog.heard[p][i] <= l.n
  <2>1. prjLog.heard[p][i] \in Nat
    BY LogValues
  <2>2. ~(l.n < prjLog.heard[p][i])
    BY DEF HeardNow, Overtakes
  <2> QED BY <1>0, <2>1, <2>2
<1>4. ASSUME NEW o \in Slots, Brings(o, p, i)', req'[o].n >= k
      PROVE  Apt(req[o], i, a)'
  <2>1. CASE o = q
    <3>1. Apt(l, i, a) /\ m.p = p /\ m.types = l.types
      BY <1>0, <1>2, <1>4, <2>1 DEF Follows, Brings
    <3>2. Coming(m, i) \subseteq Coming(l, i)
      BY <1>0, <1>1
    <3> QED BY <1>0, <2>1, <3>1, <3>2 DEF Apt, Node, Attributes
  <2>2. CASE o # q
    <3>1. req'[o] = req[o]
      BY <1>0, <2>2 DEF Alone
    <3>2. Brings(o, p, i) /\ req[o].n >= k
      BY <1>4, <3>1 DEF Brings
    <3>3. Apt(req[o], i, a)
      BY <3>2 DEF Follows
    <3> QED BY <1>0, <3>1, <3>3 DEF Apt, Node, Attributes
  <2> QED BY <2>1, <2>2
<1>5. ASSUME Pending(p, i, a, k), l.n # k \/ l.todo[1] \notin Setters(a)
      PROVE  Pending(p, i, a, k)'
  <2>1. PICK o \in Slots : Brings(o, p, i) /\ req[o].n = k /\ Coming(req[o], i) \cap Setters(a) # {}
    BY <1>5 DEF Pending
  <2>2. Brings(o, p, i)' /\ req'[o].n = k /\ Coming(req'[o], i) \cap Setters(a) # {}
    <3>1. CASE o = q
      <4>1. Coming(m, i) \cap Setters(a) # {}
        BY <1>0, <1>1, <1>5, <2>1, <3>1
      <4> QED BY <1>0, <2>1, <3>1, <4>1 DEF Brings
    <3>2. CASE o # q
      BY <1>0, <2>1, <3>2 DEF Alone, Brings
    <3> QED BY <3>1, <3>2
  <2> QED BY <2>2 DEF Pending
<1>6. ASSUME prjLog'.heard[p][i] < k
      PROVE  Pending(p, i, a, k)'
  <2>1. prjLog.heard[p][i] < k /\ l.n # k
    BY <1>0, <1>3, <1>6
  <2>2. Pending(p, i, a, k)
    BY <2>1 DEF Follows
  <2> QED BY <1>5, <2>1, <2>2
<1>7. ASSUME Doomed(p, i)
      PROVE  Doomed(p, i)'
  <2>1. PICK o \in Slots : Brings(o, p, i) /\ req[o].n < prjLog.heard[p][i]
    BY <1>7 DEF Doomed
  <2>2. req[o].n \in Nat
    BY <2>1, ComingFrom DEF Brings
  <2>3. o # q /\ req[o].n < prjLog'.heard[p][i]
    BY <1>0, <1>3, <2>1, <2>2
  <2>4. Brings(o, p, i)' /\ req'[o].n = req[o].n
    BY <1>0, <2>1, <2>3 DEF Alone, Brings
  <2>5. Brings(o, p, i)' /\ req'[o].n < prjLog'.heard[p][i]
    BY <2>3, <2>4
  <2> QED BY <2>5 DEF Doomed
<1>8. Right(p, i, a)' \/ Doomed(p, i)' \/ Pending(p, i, a, k)'
  <2>1. CASE l.n < k
    BY <1>0, <1>6, <2>1
  <2>2. CASE l.n >= k /\ l.todo[1] \in Setters(a)
    <3>1. Apt(l, i, a)
      BY <1>2, <2>2 DEF Follows
    <3> QED BY <2>2, <3>1, CallSets
  <2>3. CASE l.todo[1] \notin Setters(a)
    <3>1. Right(p, i, a) => Right(p, i, a)'
      BY <2>3, CallSets
    <3> QED BY <1>5, <1>7, <2>3, <3>1 DEF Follows
  <2> QED BY <1>0, <2>1, <2>2, <2>3
<1> QED BY <1>4, <1>6, <1>8 DEF Follows

LEMMA CallSettles ==
    ASSUME TypeInv, NEW q \in Slots, NEW p \in Projects, NEW i \in Integrations, HeardNow(q, p, i),
           Settled(p, i)
    PROVE  Settled(p, i)'
<1> DEFINE l == req[q]
           e == l.todo[1]
           b == l.bundle
           r == repo[p][i]
           s == repo'[p][i]
<1>0. /\ Calling(l) /\ Alone(q) /\ l.p = p /\ i \in l.rest /\ l.n \in Nat /\ l.todo \in Todos
      /\ prj' = prj /\ prjLog'.n = prjLog.n /\ prjLog'.asked = prjLog.asked
      /\ prjLog'.heard[p][i] = l.n
      /\ e = "created" => l.n = 1
      /\ e = "deleted" => p \in prjLog.asked /\ l.n >= 2
      /\ r.there \/ e = "created"
      /\ s = After(r, e, b)
  BY DEF HeardNow, Hears
<1>1. /\ e = "created" => s.there
      /\ e \notin {"created", "deleted"} => s.there = r.there
      /\ e = "deleted" => ~s.there
  <2>1. r \in RepoRecord /\ e \in {"created", "updated", "relocated", "archived", "unarchived", "deleted"}
    BY <1>0, LogValues, TodoFacts
  <2>2. s = After(r, e, b)
    BY <1>0
  <2> HIDE DEF e, r, s, b
  <2> DEFINE x == After(r, e, b)
  <2>3. (e = "created" => x.there) /\ (e \notin {"created", "deleted"} => x.there = r.there)
        /\ (e = "deleted" => ~x.there)
    BY <2>1, AfterDoes
  <2> QED BY <2>2, <2>3
<1>2. prjLog.heard[p][i] \in Nat /\ prjLog.heard[p][i] <= l.n
  <2>1. prjLog.heard[p][i] \in Nat
    BY LogValues
  <2>2. ~(l.n < prjLog.heard[p][i])
    BY <1>0 DEF HeardNow, Overtakes
  <2> QED BY <1>0, <2>1, <2>2
<1>3. ASSUME Node(p).there
      PROVE  \A a \in Attributes : \E k \in 1..prjLog'.n[p] : Follows(p, i, a, k)'
  <2> SUFFICES ASSUME NEW a \in Attributes
               PROVE  \E k \in 1..prjLog.n[p] : Follows(p, i, a, k)'
    BY <1>0
  <2>1. PICK k \in 1..prjLog.n[p] : Follows(p, i, a, k)
    BY <1>3 DEF Settled
  <2>2. k \in Nat
    BY <2>1, LogValues
  <2>3. Follows(p, i, a, k)'
    BY <1>3, <2>1, <2>2, CallFollows
  <2> QED BY <2>1, <2>3
<1>4. ASSUME p \notin prjLog.asked
      PROVE  s.there
  BY <1>0, <1>1, <1>4
<1>5. ASSUME p \in prjLog.asked
      PROVE  \/ \E o \in Slots : Brings(o, p, i)' /\ "deleted" \in Coming(req'[o], i)
             \/ ~s.there /\ prjLog'.heard[p][i] >= 2
  <2>1. CASE e = "deleted"
    BY <1>0, <1>1, <2>1
  <2>2. CASE e # "deleted"
    <3>1. "deleted" \notin Coming(l, i)
      <4>1. Later(l) \subseteq {"relocated"}
        BY <1>0, TodoLasts DEF Later
      <4>2. Coming(l, i) \subseteq {e} \cup Later(l)
        BY <1>0, ComingNow
      <4> QED BY <2>2, <4>1, <4>2
    <3>2. r.there \/ prjLog.heard[p][i] < 2
      BY <1>0, <1>2
    <3>3. PICK o \in Slots : Brings(o, p, i) /\ "deleted" \in Coming(req[o], i)
      BY <1>2, <1>5, <3>2 DEF Settled
    <3>4. o # q
      BY <3>1, <3>3
    <3> QED BY <1>0, <3>3, <3>4 DEF Alone, Brings
  <2> QED BY <2>1, <2>2
<1> QED BY <1>0, <1>3, <1>4, <1>5 DEF Settled, Node

LEMMA RepoCall ==
    ASSUME TypeInv, NumbersInv, RepoInv, NEW q \in Slots, CallPlugin(q) \/ CallFails(q)
    PROVE  RepoInv'
<1> DEFINE l == req[q]
           m == req'[q]
<1>1. /\ l.at = "life.call" /\ Calling(l) /\ Alone(q) /\ UNCHANGED prj
      /\ l.p \in Projects /\ l.rest \in SUBSET Integrations /\ l.todo \in Todos /\ l.n \in Nat
      /\ \A f \in {"born", "asked", "n", "loc"} : prjLog'[f] = prjLog[f]
      /\ prjLog.apart \subseteq prjLog'.apart
  BY CallDoes
<1>2. PICK j \in l.rest : Called(l, j, m)
  BY CallDoes
<1>3. CallsOn(l, l.rest \ {j}, m) /\ l.rest \ {j} \in SUBSET l.rest
  BY <1>2 DEF Called
<1> SUFFICES ASSUME NEW p \in prjLog.born, NEW i \in Integrations, <<p, i>> \notin prjLog'.apart
             PROVE  Settled(p, i)'
  BY <1>1 DEF RepoInv
<1>4. p \in Projects /\ <<p, i>> \notin prjLog.apart
  BY <1>1, LogValues
<1>5. Settled(p, i)
  BY <1>4 DEF RepoInv
<1>6. CASE p # l.p \/ i # j
  <2>1. PairStill(p, i)
    BY <1>1, <1>2, <1>4, <1>6 DEF PairStill, Called
  <2>2. CASE i # j
    <3>1. Carries(l, m, i)
      BY <1>1, <1>3, <2>2, CallsCarry
    <3> QED BY <1>1, <1>4, <1>5, <2>1, <3>1, PairCarries
  <2>3. CASE p # l.p
    <3>1. Coming(m, i) # {} => m.p = l.p
      BY <1>1, <1>3, CallsCarry
    <3>2. ~Brings(q, p, i) /\ ~Brings(q, p, i)'
      BY <2>3, <3>1 DEF Brings
    <3>3. Keeps(q, p, i) /\ KeepsEnds(q, p, i) /\ \A a \in Attributes : Apter(q, p, i, a)
      BY <3>2 DEF Keeps, KeepsEnds, Apter
    <3> QED BY <1>1, <1>4, <1>5, <2>1, <3>3, SettledStays
  <2> QED BY <1>6, <2>2, <2>3
<1>7. CASE p = l.p /\ i = j
  <2>1. Hears(l, i) /\ ~Overtakes(l, i) /\ prjLog'.heard[p][i] = l.n
    BY <1>2, <1>7 DEF Called
  <2>2. /\ Coming(m, i) = Later(l) /\ ~SlugRead(m, i)
        /\ Coming(m, i) # {} => m.p = l.p /\ m.n = l.n /\ m.types = l.types
    BY <1>1, <1>3, <1>7, CallsCarry
  <2>3. /\ l.todo[1] = "created" => l.n = 1
        /\ l.todo[1] = "deleted" => p \in prjLog.asked /\ l.n >= 2
    BY <1>1, <1>2, <1>7, CallNumbered
  <2>4. p \in prjLog.asked => ~Node(p).there
    BY DEF NumbersInv, CountsInv
  <2>5. HeardNow(q, p, i)
    BY <1>1, <1>2, <1>7, <2>1, <2>2, <2>3, <2>4 DEF HeardNow
  <2> QED BY <1>4, <1>5, <2>5, CallSettles
<1> QED BY <1>6, <1>7

LEMMA RepoStep ==
    ASSUME TypeInv, TypeInv', NumbersInv, RepoInv, [Next]_projectVars
    PROVE  RepoInv'
<1>1. CASE (LoginTick /\ UNCHANGED <<prj, repo, prjLog>>) \/ UNCHANGED projectVars
  <2>1. UNCHANGED <<req, prj, repo, prjLog>>
    BY <1>1 DEF LoginTick, projectVars, pool
  <2>2. \A o \in Slots, p \in Projects, i \in Integrations : Brings(o, p, i)' <=> Brings(o, p, i)
    BY <2>1 DEF Brings
  <2>3. ASSUME NEW p \in Projects, NEW i \in Integrations, NEW a \in Attributes, NEW k, Follows(p, i, a, k)
        PROVE  Follows(p, i, a, k)'
    <3>1. \A o \in Slots : Apt(req[o], i, a)' <=> Apt(req[o], i, a)
      BY <2>1 DEF Apt, Node, Attributes
    <3>2. Right(p, i, a)' <=> Right(p, i, a)
      BY <2>1 DEF Right, Node, Attributes
    <3>3. (Pending(p, i, a, k)' <=> Pending(p, i, a, k)) /\ (Doomed(p, i)' <=> Doomed(p, i))
      BY <2>1, <2>2 DEF Pending, Doomed
    <3> QED BY <2>1, <2>2, <2>3, <3>1, <3>2, <3>3 DEF Follows
  <2>4. ASSUME NEW p \in Projects, NEW i \in Integrations, Settled(p, i)
        PROVE  Settled(p, i)'
    <3>1. Node(p)'.there => \A a \in Attributes : \E k \in 1..prjLog'.n[p] : Follows(p, i, a, k)'
      BY <2>1, <2>3, <2>4 DEF Settled, Node
    <3> QED BY <2>1, <2>2, <2>4, <3>1 DEF Settled
  <2> QED BY <2>1, <2>4, LogValues DEF RepoInv
<1>2. CASE \E q \in Slots :
             \/ PlainActs(q) \/ TellActs(q) \/ DieP(q) \/ (IgrActs(q) /\ IgrAlone)
             \/ LifecycleStep(q) /\ ~CallPlugin(q) /\ ~CallFails(q)
  <2>1. PICK q \in Slots :
             \/ PlainActs(q) \/ TellActs(q) \/ DieP(q) \/ (IgrActs(q) /\ IgrAlone)
             \/ LifecycleStep(q) /\ ~CallPlugin(q) /\ ~CallFails(q)
    BY <1>2
  <2>2. Unmoved
    BY <2>1, Unmoves
  <2>3. Alone(q) /\ \A i \in Integrations : Carries(req[q], req'[q], i)
    BY <2>1, Carried
  <2> QED BY <2>2, <2>3, RepoCarried
<1>3. CASE \E q \in Slots : \/ PatchProjectSave(q) \/ CreateProjectNode(q)
                            \/ ArchiveProject(q) \/ UnarchiveProject(q) \/ DeleteProjectNode(q)
  BY <1>3, RepoPatch, RepoCreate, RepoArchive, RepoDelete
<1>4. CASE \E q \in Slots : CallPlugin(q) \/ CallFails(q)
  BY <1>4, RepoCall
<1>5. CASE \E q \in Slots : SyncProjectLifecycle(q)
  BY <1>5, RepoSync
<1> QED BY <1>1, <1>2, <1>3, <1>4, <1>5, Steps

LEMMA RepoInit ==
    ASSUME Init
    PROVE  NumbersInv /\ RepositoryOutlivesProject /\ RepoInv
<1>1. \A q \in Slots : req[q].at = "idle"
  BY DEF Init, PoolInit, Idle
<1>2. \A q \in Slots : Silent(req[q])
  BY <1>1, ComingAt DEF Silent
<1>3. PICK born, T, policies : Started(born, T, policies)
  BY Starts
<1> DEFINE first == First(born, T)
<1>4. /\ born \in SUBSET Projects /\ prjLog.born = born /\ prjLog.asked = {}
      /\ \A p \in Projects : /\ Node(p) = IF p \in born THEN first ELSE NoProject
                             /\ prjLog.n[p] = IF p \in born THEN 1 ELSE 0
                             /\ prjLog.loc[p] = IF p \in born THEN T ELSE {}
  BY <1>3 DEF Started, Node
<1>5. \A p \in Projects, i \in Integrations :
        /\ repo[p][i] = IF p \in born /\ i \in Effective(p)
                        THEN [there |-> TRUE, archived |-> FALSE, slug |-> first.slug, loc |-> T]
                        ELSE NoRepo
        /\ prjLog.heard[p][i] = IF repo[p][i].there THEN 1 ELSE 0
        /\ p \in born /\ <<p, i>> \notin prjLog.apart => repo[p][i].there
  BY <1>3 DEF Started
<1>6. first.there /\ first.archived = FALSE /\ ~NoProject.there /\ ~NoRepo.there
  BY DEF First, Doc, NoProject, NoRepo
<1> HIDE DEF first
<1>7. ASSUME NEW p \in Projects, NEW i \in Integrations
      PROVE  repo[p][i].there => /\ p \in born /\ repo[p][i].archived = FALSE
                                 /\ repo[p][i].slug = first.slug /\ repo[p][i].loc = T
  <2> DEFINE r == repo[p][i]
             kept == [there |-> TRUE, archived |-> FALSE, slug |-> first.slug, loc |-> T]
  <2>1. r = IF p \in born /\ i \in Effective(p) THEN kept ELSE NoRepo
    BY <1>5
  <2>2. kept.archived = FALSE /\ kept.slug = first.slug /\ kept.loc = T
    OBVIOUS
  <2> HIDE DEF kept, r
  <2>3. r.there => p \in born /\ r = kept
    BY <1>6, <2>1
  <2>4. r.there => p \in born /\ r.archived = FALSE /\ r.slug = first.slug /\ r.loc = T
    BY <2>2, <2>3
  <2> QED BY <2>4 DEF r
<1>8. ASSUME NEW p \in Projects, NEW i \in Integrations
      PROVE  prjLog.heard[p][i] = IF repo[p][i].there THEN 1 ELSE 0
  BY <1>5
<1>9. CountsInv
  <2>1. \A p \in prjLog.born : prjLog.n[p] >= 1
    BY <1>4
  <2>2. ASSUME NEW p \in Projects \ prjLog.born
        PROVE  /\ ~Node(p).there /\ prjLog.n[p] = 0
               /\ \A i \in Integrations : ~repo[p][i].there /\ prjLog.heard[p][i] = 0
    <3>1. p \notin born /\ ~Node(p).there /\ prjLog.n[p] = 0
      BY <1>4, <1>6
    <3>2. \A i \in Integrations : ~repo[p][i].there
      BY <1>7, <3>1
    <3> QED BY <1>8, <3>1, <3>2
  <2>3. ASSUME NEW p \in Projects, NEW i \in Integrations
        PROVE  prjLog.heard[p][i] <= prjLog.n[p]
    <3>1. repo[p][i].there => p \in born
      BY <1>7
    <3>2. prjLog.heard[p][i] = IF repo[p][i].there THEN 1 ELSE 0
      BY <1>8
    <3>3. prjLog.n[p] = IF p \in born THEN 1 ELSE 0
      BY <1>4
    <3> QED BY <3>1, <3>2, <3>3
  <2> QED BY <1>4, <2>1, <2>2, <2>3 DEF CountsInv
<1>10. NumbersInv
  BY <1>1, <1>2, <1>9 DEF NumbersInv, CreatesInv, CreateLabels, DeletesOK, Numbered, Silent,
                          ResolveLabels, ResolvedLabels
<1>11. RepositoryOutlivesProject
  <2>1. \A p \in prjLog.born, i \in Integrations : ~repo[p][i].there => ~(prjLog.heard[p][i] > 0)
    BY <1>4, <1>8
  <2> QED BY <2>1 DEF RepositoryOutlivesProject
<1>12. RepoInv
  <2> SUFFICES ASSUME NEW p \in Projects, p \in born, NEW i \in Integrations, <<p, i>> \notin prjLog.apart
               PROVE  Settled(p, i)
    BY <1>4 DEF RepoInv
  <2>0. repo[p][i].there
    BY <1>5
  <2>1. /\ repo[p][i].there /\ repo[p][i].archived = FALSE
        /\ repo[p][i].slug = first.slug /\ repo[p][i].loc = T
        /\ Node(p) = first /\ prjLog.loc[p] = T /\ prjLog.heard[p][i] = 1 /\ prjLog.n[p] = 1
    <3>1. repo[p][i].archived = FALSE /\ repo[p][i].slug = first.slug /\ repo[p][i].loc = T
      BY <1>7, <2>0
    <3>2. Node(p) = first /\ prjLog.loc[p] = T /\ prjLog.n[p] = 1
      BY <1>4
    <3>3. prjLog.heard[p][i] = 1
      BY <1>8, <2>0
    <3> QED BY <2>0, <3>1, <3>2, <3>3
  <2>2. \A q \in Slots : ~Brings(q, p, i)
    BY <1>2 DEF Silent, Brings
  <2>3. ASSUME NEW a \in Attributes
        PROVE  Follows(p, i, a, 1)
    <3>1. Right(p, i, a)
      BY <1>6, <2>1 DEF Right, Attributes
    <3> QED BY <2>1, <2>2, <3>1 DEF Follows
  <2>4. \A a \in Attributes : \E k \in 1..prjLog.n[p] : Follows(p, i, a, k)
    BY <2>1, <2>3
  <2> QED BY <1>4, <2>1, <2>4 DEF Settled
<1> QED BY <1>10, <1>11, <1>12

\* When no request is at work on a project, nothing is pending or doomed.
LEMMA RepoImplies ==
    ASSUME TypeInv, NumbersInv, RepoInv
    PROVE  RemoteFollows
<1> SUFFICES ASSUME NEW p \in prjLog.born, NEW i \in Integrations, Quiet(p), <<p, i>> \notin prjLog.apart
             PROVE  IF Node(p).there
                    THEN repo[p][i] = [there |-> TRUE, archived |-> Node(p).archived,
                                       slug |-> Node(p).slug, loc |-> prjLog.loc[p]]
                    ELSE repo[p][i].there = (p \notin prjLog.asked)
  BY DEF RemoteFollows
<1>1. p \in Projects /\ Settled(p, i) /\ repo[p][i] \in RepoRecord
  BY LogValues DEF RepoInv
<1>2. \A q \in Slots : ~Brings(q, p, i)
  <2> SUFFICES ASSUME NEW q \in Slots, Coming(req[q], i) # {}, req[q].p = p
               PROVE  FALSE
    BY DEF Brings
  <2>1. LocalsOK(req[q]) /\ req[q].at \in TellLabels \cup ResolveLabels \cup {"life.bundle"} \cup CallLabels
    BY ComingFrom DEF TypeInv, PoolInv
  <2>2. "p" \in DOMAIN req[q]
    BY <2>1 DEF LocalsOK, HasProject, HasEvents
  <2> QED BY <2>2 DEF Quiet
<1>3. CASE Node(p).there
  <2>1. p \notin prjLog.asked
    BY <1>3 DEF NumbersInv, CountsInv
  <2>2. repo[p][i].there = TRUE
    <3>1. repo[p][i].there
      BY <1>1, <1>2, <2>1 DEF Settled
    <3>2. repo[p][i].there \in BOOLEAN
      BY <1>1 DEF RepoRecord
    <3> QED BY <3>1, <3>2
  <2>3. \A a \in Attributes : Right(p, i, a)
    <3> SUFFICES ASSUME NEW a \in Attributes
                 PROVE  Right(p, i, a)
      OBVIOUS
    <3>1. PICK k \in 1..prjLog.n[p] : Follows(p, i, a, k)
      BY <1>1, <1>3 DEF Settled
    <3> QED BY <1>2, <3>1 DEF Follows, Doomed, Pending
  <2>4. repo[p][i].archived = Node(p).archived /\ repo[p][i].slug = Node(p).slug /\ repo[p][i].loc = prjLog.loc[p]
    BY <2>3 DEF Right, Attributes
  <2> QED BY <1>1, <1>3, <2>2, <2>4 DEF RepoRecord
<1>4. CASE ~Node(p).there
  <2>1. repo[p][i].there <=> p \notin prjLog.asked
    BY <1>1, <1>2 DEF Settled
  <2>2. repo[p][i].there \in BOOLEAN
    BY <1>1 DEF RepoRecord
  <2> QED BY <1>4, <2>1, <2>2
<1> QED BY <1>3, <1>4

\* Once the requests for a project are through, its repository is as the
\* project is, and gone when it was deleted with it, unless a call failed for it,
\* was overtaken or never made; and no repository goes before its project.
THEOREM ProjectsRepositories == Spec => []RepositoriesFollow
<1>1. Init => NumbersInv /\ RepositoryOutlivesProject /\ RepoInv
  BY RepoInit
<1>2. TypeInv /\ TypeInv' /\ NumbersInv /\ RepositoryOutlivesProject /\ RepoInv /\ [Next]_projectVars
        => (NumbersInv /\ RepositoryOutlivesProject /\ RepoInv)'
  BY NumbersStep, OutlivesStep, RepoStep
<1>3. TypeInv /\ NumbersInv /\ RepositoryOutlivesProject /\ RepoInv => RepositoriesFollow
  BY RepoImplies DEF RepositoriesFollow
<1> QED BY <1>1, <1>2, <1>3, Typed, PTL DEF Spec
=============================================================================
