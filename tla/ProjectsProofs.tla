--------------------------- MODULE ProjectsProofs ---------------------------
(***************************************************************************)
(* Proofs about Projects for any number of requests in flight, projects,   *)
(* integrations, types, teams and environments, and any mix of callers:    *)
(* types, what is kept as it was asked for, and where a handler goes from  *)
(* each of its control points, which ProjectsSafetyProofs builds on.       *)
(***************************************************************************)
EXTENDS Projects, FiniteSetTheorems, SequenceTheorems, TLAPS

-----------------------------------------------------------------------------
(* The locals of a handler, by where it stands.                            *)

NodeRecord == [there : BOOLEAN, team : Teams \cup {NoTeam}, types : SUBSET Types,
               slug : Slugs \cup {0}, envs : [Envs -> EdgeStates], archived : BOOLEAN,
               links : SUBSET Integrations]
RepoRecord == [there : BOOLEAN, archived : BOOLEAN, slug : Slugs \cup {0}, loc : SUBSET Types]

\* What is dispatched: the events of one write, in turn.
Tellings == {<<"updated">>, <<"relocated">>, <<"updated", "relocated">>}
Todos == Tellings \cup {<<"created">>, <<"archived">>, <<"unarchived">>, <<"deleted">>}

TellLabels == {"project.rescore", "project.dependents", "project.requeue", "project.tell"}
ResolvedLabels == {"life.integrations", "life.assigned", "life.enabled"}
ResolveLabels == {"life.edges"} \cup ResolvedLabels
LinkLabels == {"life.link", "life.linkset"}
CallLabels == {"life.call", "life.service"} \cup LinkLabels
CreateLabels == {"project.envs", "project.create"}
PatchLabels == {"project.patch", "project.save"}
OwnedLabels == {"owned.list", "owned.check", "owned.save"}
RelationLabels == {"rel.policies", "rel.queue"}
HasEvents == {"life.bundle", "project.delete"} \cup ResolveLabels \cup CallLabels
HasProject == CreateLabels \cup PatchLabels \cup TellLabels \cup OwnedLabels
              \cup RelationLabels \cup HasEvents

LoginLabels == {"login.clear", "login.set"}
TypedLabels == {"typed.check", "typed.save"}
CredLabels == {"cred.read", "cred.save"}
AppLabels == {"app.fetch", "app.store"}
HasIntegration == {"int.save", "life.service"} \cup LoginLabels \cup TypedLabels \cup CredLabels
                  \cup AppLabels \cup LinkLabels

\* What a gathering of the context has read so far.
BundleOK(b) ==
  /\ DOMAIN b \subseteq {"slug", "types"}
  /\ "slug" \in DOMAIN b => b["slug"] \in Slugs \cup {0}
  /\ "types" \in DOMAIN b => b["types"] \in SUBSET Types

\* A dispatch of events: only a deletion reads its context before it resolves
\* its bindings, and only once the node is gone does it call anybody.
DispatchOK(l) ==
  /\ {"todo", "n", "types", "deleting"} \subseteq DOMAIN l
  /\ l.todo \in Todos /\ l.n \in Nat /\ l.types \in SUBSET Types /\ l.deleting \in BOOLEAN
  /\ l.deleting => l.todo = <<"deleted">>
  /\ l.at \in ResolveLabels \cup {"life.bundle"} /\ ~l.deleting => l.todo # <<"deleted">>
  /\ l.deleting => l.at \notin CallLabels
  /\ l.at \in {"life.bundle", "project.delete"} \cup CallLabels \/ l.deleting =>
       "bundle" \in DOMAIN l /\ BundleOK(l.bundle)
  /\ l.at \in {"project.delete"} \cup CallLabels \/ (l.at = "life.bundle" /\ ~l.deleting) =>
       "rest" \in DOMAIN l /\ l.rest \in SUBSET Integrations
  /\ l.at = "project.delete" => l.todo = <<"deleted">> /\ (~l.deleting => l.rest = {})
  /\ l.at \in CallLabels /\ l.todo # <<"deleted">> => DOMAIN l.bundle = {"slug", "types"}

LocalsOK(l) ==
  /\ "at" \in DOMAIN l
  /\ "p" \in DOMAIN l => l.p \in Projects
  /\ l.at \in HasProject => "p" \in DOMAIN l
  /\ l.at \in HasIntegration => "i" \in DOMAIN l /\ l.i \in Integrations
  /\ l.at = "int.save" => "read" \in DOMAIN l /\ l.read \in SUBSET Kinds
  /\ l.at \in LoginLabels => "on" \in DOMAIN l /\ l.on \in BOOLEAN
  /\ l.at = "login.clear" => l.on
  /\ l.at \in TypedLabels => "types" \in DOMAIN l /\ l.types \in SUBSET Types
  /\ l.at \in CredLabels => /\ {"f", "on", "read"} \subseteq DOMAIN l
                            /\ l.f \in Fields /\ l.on \in BOOLEAN /\ l.read \in SUBSET Fields
  /\ l.at \in AppLabels => "now" \in DOMAIN l /\ l.now \in Nat
  /\ l.at \in CreateLabels => /\ "doc" \in DOMAIN l /\ l.doc \in NodeRecord
                              /\ l.doc.there /\ ~l.doc.archived
  /\ l.at \in PatchLabels => "read" \in DOMAIN l /\ l.read \in NodeRecord /\ l.read.there
  /\ l.at = "project.save" => /\ {"doc", "transfer"} \subseteq DOMAIN l /\ l.doc \in NodeRecord
                              /\ l.doc.there /\ l.doc.archived = l.read.archived
                              /\ l.transfer \in BOOLEAN
  /\ l.at \in TellLabels => /\ {"events", "n", "types"} \subseteq DOMAIN l
                            /\ l.events \in Tellings \cup {<<>>}
                            /\ l.n \in Nat /\ l.types \in SUBSET Types
  /\ l.at = "project.requeue" => "deps" \in DOMAIN l /\ l.deps \in SUBSET Projects
  /\ l.at \in OwnedLabels => "rows" \in DOMAIN l /\ l.rows \in SUBSET (Integrations \X Kinds)
  /\ l.at \in {"owned.check", "owned.save"} => "kinds" \in DOMAIN l /\ l.kinds \in SUBSET Kinds
  /\ l.at \in ResolvedLabels => "edges" \in DOMAIN l /\ "had" \in DOMAIN l
  /\ l.at = "life.assigned" => "enabled" \in DOMAIN l
  /\ l.at = "life.enabled" => "bound" \in DOMAIN l /\ l.bound \in SUBSET Integrations
  /\ l.at \in {"life.service"} \cup LinkLabels => "add" \in DOMAIN l /\ l.add \in BOOLEAN
  /\ l.at = "life.linkset" => "links" \in DOMAIN l /\ l.links \in SUBSET Integrations
  /\ l.at \in HasEvents =>
       DispatchOK(l) \/ (l.at \in LinkLabels /\ "todo" \in DOMAIN l /\ l.todo = <<>>)

-----------------------------------------------------------------------------
(* The types.                                                              *)

PoolInv ==
  /\ DOMAIN req = Slots
  /\ mix \in Mixes
  /\ begun \in 0..MaxBegun[mix]
  /\ faults \in 0..MaxFaults
  /\ \A q \in Slots : LocalsOK(req[q])

IntegrationRecord == [there : BOOLEAN, caps : SUBSET Kinds, login : BOOLEAN, creds : SUBSET Fields]
IgrRecord == [node : [Integrations -> IntegrationRecord], type : SUBSET Types,
              typed : SUBSET (Types \X Integrations),
              owned : SUBSET (Projects \X Integrations \X Kinds),
              exists : SUBSET (Projects \X Integrations), on : BOOLEAN]
LoginRecord == [cache : SUBSET [i : Integrations, at : Nat], now : 0..MaxClock]
IgrLogRecord == [caps : [Integrations -> SUBSET Kinds], creds : [Integrations -> SUBSET Fields],
                 stale : SUBSET Integrations, raced : BOOLEAN,
                 torn : SUBSET (Slots \X Integrations), missed : SUBSET Integrations,
                 badSince : [Integrations -> Nat], overdue : SUBSET Integrations]

\* Edges hang on nodes that are there.
IgrInv ==
  /\ igr \in IgrRecord /\ login \in LoginRecord /\ igrLog \in IgrLogRecord
  /\ \A e \in igr.typed : e[1] \in igr.type /\ Here(e[2])
  /\ \A e \in igr.owned : Here(e[2])
  /\ \A e \in igr.exists : Here(e[2])

PrjRecord == [node : [Projects -> NodeRecord], team : SUBSET Teams, env : SUBSET Envs,
              dep : SUBSET (Projects \X Projects), policies : BOOLEAN]
PrjLogRecord == [want : [Projects -> NodeRecord], stale : SUBSET Projects, born : SUBSET Projects,
                 asked : SUBSET Projects, owed : SUBSET (Projects \X Projects),
                 unscored : SUBSET (Projects \X Projects),
                 n : [Projects -> Nat], heard : [Projects -> [Integrations -> Nat]],
                 loc : [Projects -> SUBSET Types], apart : SUBSET (Projects \X Integrations)]

\* A project refers to what is there, and is nothing when it is not.
NodeOK(p) ==
  /\ Node(p).team \in prj.team \cup {NoTeam}
  /\ Node(p).types \subseteq igr.type
  /\ Asked(Node(p).envs) \subseteq prj.env
  /\ ~Node(p).there => Node(p) = NoProject

PrjInv ==
  /\ prj \in PrjRecord /\ prjLog \in PrjLogRecord /\ repo \in [Projects -> [Integrations -> RepoRecord]]
  /\ \A p \in Projects : NodeOK(p)
  /\ \A e \in prj.dep : Node(e[1]).there /\ Node(e[2]).there
  /\ \A e \in igr.owned \cup igr.exists : Node(e[1]).there

TypeInv == PoolInv /\ IgrInv /\ PrjInv

-----------------------------------------------------------------------------
(* How a handler moves.                                                    *)

\* The handler q goes on, and what it holds then is typed.
Goes(q) ==
  /\ req' = [req EXCEPT ![q] = req'[q]]
  /\ mix' = mix
  /\ faults' = faults \/ (faults' = faults + 1 /\ faults < MaxFaults)
  /\ begun' = begun \/ (begun' = begun + 1 /\ begun < MaxBegun[mix])
  /\ LocalsOK(req'[q])

\* Goes, and the disjuncts of a step.
LEMMA BeginGoes ==
    ASSUME PoolInv, NEW q \in Slots, NEW next, Begin(q, next), LocalsOK(next)
    PROVE  Goes(q) /\ req'[q] = next /\ req[q].at = "idle"
<1>1. req' = [req EXCEPT ![q] = next] /\ DOMAIN req = Slots
  BY DEF Begin, PoolInv
<1>2. req'[q] = next
  BY <1>1
<1> QED BY <1>1, <1>2 DEF Begin, Goes, Idle

LEMMA StepGoes ==
    ASSUME PoolInv, NEW q \in Slots, NEW next, NEW label, Step(q, label, next), LocalsOK(next)
    PROVE  Goes(q) /\ req'[q] = next /\ req[q].at = label
<1>1. req' = [req EXCEPT ![q] = next] /\ DOMAIN req = Slots
  BY DEF Step, PoolInv
<1>2. req'[q] = next
  BY <1>1
<1> QED BY <1>1, <1>2 DEF Step, Goes, At

\* A step that fails goes on as well.
LEMMA FaultGoes ==
    ASSUME PoolInv, NEW q \in Slots, NEW next, req' = [req EXCEPT ![q] = next],
           faults < MaxFaults, faults' = faults + 1, UNCHANGED <<begun, mix>>, LocalsOK(next)
    PROVE  Goes(q) /\ req'[q] = next
<1>1. DOMAIN req = Slots
  BY DEF PoolInv
<1>2. req'[q] = next
  BY <1>1
<1> QED BY <1>1, <1>2 DEF Goes

LEMMA IdleOK == LocalsOK(Idle)
BY DEF Idle, LocalsOK, TellLabels, ResolvedLabels, ResolveLabels, LinkLabels, CallLabels,
       CreateLabels, PatchLabels, OwnedLabels, RelationLabels, HasEvents, HasProject,
       LoginLabels, TypedLabels, CredLabels, AppLabels, HasIntegration

\* The others hold what they held.
LEMMA OthersStay ==
    ASSUME PoolInv, NEW q \in Slots, Goes(q)
    PROVE  PoolInv' /\ \A r \in Slots : r # q => req'[r] = req[r]
<1>1. \A r \in Slots : r # q => req'[r] = req[r]
  BY DEF Goes, PoolInv
<1>2. DOMAIN req' = Slots
  BY DEF Goes, PoolInv
<1>3. \A r \in Slots : LocalsOK(req'[r])
  BY <1>1 DEF Goes, PoolInv
<1>4. begun' \in 0..MaxBegun[mix] /\ mix' \in Mixes /\ faults' \in 0..MaxFaults
  BY RequestAssumption DEF Goes, PoolInv
<1> QED BY <1>1, <1>2, <1>3, <1>4 DEF Goes, PoolInv

\* What a list of events begins with, and what is left of it.
LEMMA TodoFacts ==
    ASSUME NEW t \in Todos
    PROVE  /\ t # <<>> /\ 1 \in DOMAIN t
           /\ t[1] \in {"created", "updated", "relocated", "archived", "unarchived", "deleted"}
           /\ (t[1] = "created") = (t = <<"created">>)
           /\ (t[1] = "deleted") = (t = <<"deleted">>)
           /\ \/ t = <<"updated", "relocated">> /\ Tail(t) = <<"relocated">> /\ DOMAIN t = 1..2
              \/ t = <<t[1]>> /\ Tail(t) = <<>> /\ DOMAIN t = 1..1
<1>1. CASE t = <<"updated", "relocated">>
  <2>1. Tail(t) = <<"relocated">>
    BY <1>1
  <2>2. DOMAIN t = 1..2 /\ t[1] = "updated" /\ Len(t) = 2
    BY <1>1
  <2>3. t # <<>> /\ t # <<"created">> /\ t # <<"deleted">>
    BY <1>1
  <2> QED BY <1>1, <2>1, <2>2, <2>3
<1>2. ASSUME NEW e \in {"created", "updated", "relocated", "archived", "unarchived", "deleted"}, t = <<e>>
      PROVE  /\ t # <<>> /\ DOMAIN t = 1..1 /\ Tail(t) = <<>> /\ t[1] = e
             /\ (t[1] = "created") = (t = <<"created">>) /\ (t[1] = "deleted") = (t = <<"deleted">>)
  <2>1. t[1] = e /\ DOMAIN t = 1..1 /\ Len(t) = 1
    BY <1>2
  <2>2. Tail(t) = <<>>
    BY <1>2
  <2> QED BY <1>2, <2>1, <2>2
<1>3. t = <<"updated", "relocated">> \/ \E e \in {"created", "updated", "relocated", "archived", "unarchived", "deleted"} : t = <<e>>
  BY DEF Todos, Tellings
<1> QED BY <1>1, <1>2, <1>3

-----------------------------------------------------------------------------
(* The handlers of Lifecycle.                                              *)

\* What a dispatch leaves behind, at first and after each event.
LEMMA DispatchGoes ==
    ASSUME NEW p \in Projects, NEW events \in Todos \cup {<<>>}, events # <<"deleted">>,
           NEW n \in Nat, NEW types \in SUBSET Types
    PROVE  LocalsOK(Dispatch(p, events, n, types))
<1> USE DEF TellLabels, ResolvedLabels, ResolveLabels, LinkLabels, CallLabels, CreateLabels, PatchLabels,
            OwnedLabels, RelationLabels, HasEvents, HasProject, LoginLabels, TypedLabels, CredLabels,
            AppLabels, HasIntegration
<1>1. CASE events = <<>>
  BY <1>1, IdleOK DEF Dispatch
<1>2. CASE events # <<>>
  <2> DEFINE l == [at |-> "life.edges", p |-> p, todo |-> events, n |-> n, types |-> types, deleting |-> FALSE]
  <2>1. Dispatch(p, events, n, types) = l
    BY <1>2 DEF Dispatch
  <2>2. events \in Todos
    BY <1>2
  <2>3. DispatchOK(l)
    BY <2>2 DEF DispatchOK
  <2> QED BY <2>1, <2>3 DEF LocalsOK
<1> QED BY <1>1, <1>2

LEMMA NextEventOK ==
    ASSUME NEW l, "p" \in DOMAIN l, l.p \in Projects, DispatchOK(l)
    PROVE  LocalsOK(NextEvent(l))
<1>1. l.todo \in Todos /\ l.n \in Nat /\ l.types \in SUBSET Types
  BY DEF DispatchOK
<1>2. Tail(l.todo) \in Todos \cup {<<>>} /\ Tail(l.todo) # <<"deleted">>
  <2>1. <<"relocated">> \in Todos /\ <<"relocated">> # <<"deleted">> /\ <<>> # <<"deleted">>
    BY DEF Todos, Tellings
  <2> QED BY <1>1, <2>1, TodoFacts
<1> QED BY <1>1, <1>2, DispatchGoes DEF NextEvent

\* A request that calls plugins, whichever of them are left.
Calling(l) == LocalsOK(l) /\ l.at \in CallLabels /\ DispatchOK(l)

LEMMA NextCallOK ==
    ASSUME NEW l, Calling(l), NEW S \in SUBSET Integrations
    PROVE  LocalsOK(NextCall([l EXCEPT !.rest = S]))
<1> USE DEF TellLabels, ResolvedLabels, ResolveLabels, LinkLabels, CallLabels, CreateLabels, PatchLabels,
            OwnedLabels, RelationLabels, HasEvents, HasProject, LoginLabels, TypedLabels, CredLabels,
            AppLabels, HasIntegration
<1> DEFINE r == [l EXCEPT !.rest = S]
           c == [r EXCEPT !.at = "life.call"]
<1>1. "rest" \in DOMAIN l /\ "p" \in DOMAIN l /\ "at" \in DOMAIN l /\ l.p \in Projects
  BY DEF Calling, LocalsOK, DispatchOK
<1>2. /\ DOMAIN r = DOMAIN l /\ r.rest = S /\ r.at = l.at /\ r.p = l.p
      /\ \A f \in DOMAIN l : f # "rest" => r[f] = l[f]
  BY <1>1
<1>3. DispatchOK(r)
  BY <1>2 DEF Calling, DispatchOK
<1>4. CASE S = {}
  <2>1. NextCall(r) = NextEvent(r)
    BY <1>2, <1>4 DEF NextCall
  <2> QED BY <1>1, <1>2, <1>3, <2>1, NextEventOK
<1>5. CASE S # {}
  <2>1. NextCall(r) = c
    BY <1>2, <1>5 DEF NextCall
  <2>2. /\ DOMAIN c = DOMAIN l /\ c.at = "life.call" /\ c.p = l.p /\ c.rest = S
        /\ \A f \in DOMAIN l : f \notin {"rest", "at"} => c[f] = l[f]
    BY <1>1, <1>2
  <2>3. LocalsOK(c)
    <3> HIDE DEF c
    <3>1. DispatchOK(c)
      BY <2>2 DEF Calling, DispatchOK
    <3> QED BY <1>1, <2>2, <3>1 DEF LocalsOK
  <2> QED BY <2>1, <2>3
<1> QED BY <1>4, <1>5

\* The same with the rest as it is.
LEMMA CallOnOK ==
    ASSUME NEW l, Calling(l)
    PROVE  LocalsOK(NextCall(l))
<1>1. "rest" \in DOMAIN l /\ l.rest \in SUBSET Integrations
  BY DEF Calling, DispatchOK
<1> DEFINE r == [l EXCEPT !.rest = l.rest]
<1>2. LocalsOK(NextCall(r))
  BY <1>1, NextCallOK
<1>3. DOMAIN r = DOMAIN l /\ \A f \in DOMAIN l : r[f] = l[f]
  BY <1>1
<1>4. NextCall(l) = IF l.rest # {} THEN [l EXCEPT !.at = "life.call"] ELSE NextEvent(l)
  BY DEF NextCall
<1>5. NextCall(r) = IF r.rest # {} THEN [r EXCEPT !.at = "life.call"] ELSE NextEvent(r)
  BY DEF NextCall
<1>6. r.rest = l.rest
  BY <1>1
<1>7. {"todo", "n", "types", "p"} \subseteq DOMAIN l
  BY DEF Calling, DispatchOK, LocalsOK, CallLabels, LinkLabels, HasProject, HasEvents
<1>8. NextEvent(r) = NextEvent(l)
  BY <1>3, <1>7 DEF NextEvent
<1>9. [r EXCEPT !.at = "life.call"] = [l EXCEPT !.at = "life.call"]
  BY <1>3
<1> QED BY <1>2, <1>4, <1>5, <1>6, <1>8, <1>9

\* The context is complete when both of its reads are in.
LEMMA BundleFull ==
    ASSUME NEW D \in SUBSET {"slug", "types"}
    PROVE  Cardinality(D) < 2 \/ D = {"slug", "types"}
<1>1. Cardinality({}) = 0 /\ Cardinality({"slug"}) = 1 /\ Cardinality({"types"}) = 1
  BY FS_EmptySet, FS_Singleton
<1>2. CASE D = {} \/ D = {"slug"} \/ D = {"types"}
  <2>1. Cardinality(D) = 0 \/ Cardinality(D) = 1
    BY ONLY <1>1, <1>2, Zenon
  <2> QED BY <2>1
<1>3. D = {} \/ D = {"slug"} \/ D = {"types"} \/ D = {"slug", "types"}
  OBVIOUS
<1> QED BY <1>2, <1>3

LEMMA ReadOK ==
    ASSUME NEW l, LocalsOK(l), l.at = "life.bundle", NEW f \in Unread(l), NEW value,
           f = "slug" => value \in Slugs \cup {0}, f = "types" => value \in SUBSET Types
    PROVE  LocalsOK(WithRead(l, f, value))
<1> USE DEF TellLabels, ResolvedLabels, ResolveLabels, LinkLabels, CallLabels, CreateLabels, PatchLabels,
            OwnedLabels, RelationLabels, HasEvents, HasProject, LoginLabels, TypedLabels, CredLabels,
            AppLabels, HasIntegration
<1> DEFINE b == With(l.bundle, [g \in {f} |-> value])
           m == WithRead(l, f, value)
<1>1. DispatchOK(l) /\ "p" \in DOMAIN l /\ l.p \in Projects
  BY DEF LocalsOK
<1>2. "bundle" \in DOMAIN l /\ BundleOK(l.bundle)
  BY <1>1 DEF DispatchOK
<1>3. f \in {"slug", "types"}
  BY DEF Unread
<1>4. /\ DOMAIN b = DOMAIN l.bundle \cup {f} /\ b[f] = value
      /\ \A g \in DOMAIN l.bundle : g # f => b[g] = l.bundle[g]
  BY DEF With
<1>5. BundleOK(b)
  <2> HIDE DEF b
  <2> QED BY <1>2, <1>3, <1>4 DEF BundleOK
<1>6. Cardinality(DOMAIN b) < 2 \/ DOMAIN b = {"slug", "types"}
  <2> HIDE DEF b
  <2>1. DOMAIN b \in SUBSET {"slug", "types"}
    BY <1>5 DEF BundleOK
  <2> QED BY <2>1, BundleFull
<1>7. /\ DOMAIN m = DOMAIN l /\ m.bundle = b
      /\ \A g \in DOMAIN l : g \notin {"bundle", "at"} => m[g] = l[g]
      /\ m.at = IF Cardinality(DOMAIN b) < 2 THEN "life.bundle"
                ELSE IF l.deleting THEN "life.edges" ELSE "life.call"
  BY <1>2 DEF WithRead, LocalsOK
<1> HIDE DEF b, m
<1>8. /\ m.at \in {"life.bundle", "life.edges", "life.call"}
      /\ m.at = "life.edges" => l.deleting
      /\ m.at = "life.call" => ~l.deleting /\ DOMAIN b = {"slug", "types"}
  BY <1>6, <1>7
<1>9. DispatchOK(m)
  BY <1>1, <1>2, <1>5, <1>7, <1>8 DEF DispatchOK
<1>10. LocalsOK(m)
  BY <1>1, <1>7, <1>8, <1>9 DEF LocalsOK
<1> QED BY <1>10 DEF m

LEMMA ResolvesGo ==
    ASSUME TypeInv, NEW q \in Slots,
           ResolveEdges(q) \/ ResolveIntegrations(q) \/ ResolveAssigned(q) \/ ResolveEnabled(q)
    PROVE  Goes(q)
<1> USE DEF TellLabels, ResolvedLabels, ResolveLabels, LinkLabels, CallLabels, CreateLabels, PatchLabels,
            OwnedLabels, RelationLabels, HasEvents, HasProject, LoginLabels, TypedLabels, CredLabels,
            AppLabels, HasIntegration
<1> DEFINE l == req[q]
<1>0. PoolInv /\ LocalsOK(l)
  BY DEF TypeInv, PoolInv
<1>1. ASSUME l.at \in ResolveLabels
      PROVE  /\ DispatchOK(l) /\ "p" \in DOMAIN l /\ l.p \in Projects
             /\ LocalsOK(NextEvent(l))
  BY <1>0, <1>1, NextEventOK DEF LocalsOK
<1>2. ASSUME l.at \in ResolveLabels, l.deleting, NEW S \in SUBSET Integrations
      PROVE  LocalsOK(With(l, [at |-> "project.delete", rest |-> S]))
  <2> DEFINE m == With(l, [at |-> "project.delete", rest |-> S])
  <2>1. /\ DOMAIN m = DOMAIN l \cup {"at", "rest"} /\ m.at = "project.delete" /\ m.rest = S
        /\ \A f \in DOMAIN l : f \notin {"at", "rest"} => m[f] = l[f]
    BY DEF With
  <2> HIDE DEF m
  <2>2. DispatchOK(m)
    BY <1>1, <1>2, <2>1 DEF DispatchOK
  <2>3. LocalsOK(m)
    BY <1>1, <1>2, <2>1, <2>2 DEF LocalsOK
  <2> QED BY <2>3 DEF m
<1>3. CASE ResolveEdges(q)
  <2>1. l.at = "life.edges"
    BY <1>3 DEF ResolveEdges, At
  <2>2. CASE ~Reachable(l.p)
    <3>1. Step(q, "life.edges", IF l.deleting THEN With(l, [at |-> "project.delete", rest |-> {}])
                                ELSE NextEvent(l))
      BY <1>3, <2>2 DEF ResolveEdges, Unheard
    <3>2. {} \in SUBSET Integrations
      OBVIOUS
    <3>3. LocalsOK(IF l.deleting THEN With(l, [at |-> "project.delete", rest |-> {}]) ELSE NextEvent(l))
      BY <1>1, <1>2, <2>1, <3>2
    <3> QED BY <1>0, <3>1, <3>3, StepGoes
  <2>3. CASE Reachable(l.p)
    <3> DEFINE m == With(l, [at |-> "life.integrations", edges |-> EdgesTo(l.p), had |-> Effective(l.p)])
    <3>1. Step(q, "life.edges", m)
      BY <1>3, <2>3 DEF ResolveEdges
    <3>2. /\ DOMAIN m = DOMAIN l \cup {"at", "edges", "had"} /\ m.at = "life.integrations"
          /\ \A f \in DOMAIN l : f \notin {"at", "edges", "had"} => m[f] = l[f]
      BY DEF With
    <3>3. LocalsOK(m)
      <4> HIDE DEF m
      <4>1. DispatchOK(m)
        BY <1>1, <2>1, <3>2 DEF DispatchOK
      <4> QED BY <1>1, <2>1, <3>2, <4>1 DEF LocalsOK
    <3> HIDE DEF m
    <3> QED BY <1>0, <3>1, <3>3, StepGoes
  <2> QED BY <2>2, <2>3
<1>4. CASE ResolveIntegrations(q)
  <2> DEFINE m == With(l, [at |-> "life.assigned", enabled |-> Enabled])
  <2>1. Step(q, "life.integrations", m) /\ l.at = "life.integrations"
    BY <1>4 DEF ResolveIntegrations, WaitP, Step, At
  <2>2. /\ DOMAIN m = DOMAIN l \cup {"at", "enabled"} /\ m.at = "life.assigned"
        /\ \A f \in DOMAIN l : f \notin {"at", "enabled"} => m[f] = l[f]
    BY DEF With
  <2>3. LocalsOK(m)
    <3> HIDE DEF m
    <3>1. DispatchOK(m)
      BY <1>1, <2>1, <2>2 DEF DispatchOK
    <3> QED BY <1>0, <1>1, <2>1, <2>2, <3>1 DEF LocalsOK
  <2> HIDE DEF m
  <2> QED BY <1>0, <2>1, <2>3, StepGoes
<1>5. CASE ResolveAssigned(q)
  <2> DEFINE B == Bound(l.p, l.edges, Assigned) \cap l.enabled
             m == With(l, [at |-> "life.enabled", bound |-> B])
  <2>1. Step(q, "life.assigned", m) /\ l.at = "life.assigned"
    BY <1>5 DEF ResolveAssigned, WaitP, Step, At
  <2>2. B \in SUBSET Integrations
    BY DEF Bound
  <2>3. /\ DOMAIN m = DOMAIN l \cup {"at", "bound"} /\ m.at = "life.enabled" /\ m.bound = B
        /\ \A f \in DOMAIN l : f \notin {"at", "bound"} => m[f] = l[f]
    BY DEF With
  <2> HIDE DEF B
  <2>4. LocalsOK(m)
    <3> HIDE DEF m
    <3>1. DispatchOK(m)
      BY <1>1, <2>1, <2>3 DEF DispatchOK
    <3> QED BY <1>0, <1>1, <2>1, <2>2, <2>3, <3>1 DEF LocalsOK
  <2> HIDE DEF m
  <2> QED BY <1>0, <2>1, <2>4, StepGoes
<1>6. CASE ResolveEnabled(q)
  <2>1. PICK found \in SUBSET Integrations :
          /\ found = IF igr.on THEN l.bound ELSE {}
          /\ Step(q, "life.enabled",
               LET next == [at |-> "life.bundle", p |-> l.p, todo |-> l.todo, n |-> l.n,
                            types |-> l.types, deleting |-> l.deleting, rest |-> found] IN
               IF l.deleting THEN With(next, [at |-> "project.delete", bundle |-> l.bundle])
               ELSE IF found = {} THEN NextEvent(l)
               ELSE With(next, [bundle |-> <<>>]))
    BY <1>0, <1>6 DEF ResolveEnabled, At, LocalsOK
  <2>2. l.at = "life.enabled" /\ DispatchOK(l) /\ l.p \in Projects
    BY <1>1, <1>6 DEF ResolveEnabled, At
  <2> DEFINE next == [at |-> "life.bundle", p |-> l.p, todo |-> l.todo, n |-> l.n,
                      types |-> l.types, deleting |-> l.deleting, rest |-> found]
  <2>3. ASSUME l.deleting PROVE LocalsOK(With(next, [at |-> "project.delete", bundle |-> l.bundle]))
    <3> DEFINE m == With(next, [at |-> "project.delete", bundle |-> l.bundle])
    <3>1. /\ DOMAIN m = {"at", "p", "todo", "n", "types", "deleting", "rest", "bundle"}
          /\ m.at = "project.delete" /\ m.p = l.p /\ m.todo = l.todo /\ m.n = l.n /\ m.types = l.types
          /\ m.deleting = l.deleting /\ m.rest = found /\ m.bundle = l.bundle
      BY DEF With
    <3> HIDE DEF m, next
    <3>2. DispatchOK(m)
      BY <2>2, <2>3, <3>1 DEF DispatchOK
    <3>3. LocalsOK(m)
      BY <2>2, <2>3, <3>1, <3>2 DEF LocalsOK
    <3> QED BY <3>3 DEF m
  <2>4. ASSUME ~l.deleting PROVE LocalsOK(With(next, [bundle |-> <<>>]))
    <3> DEFINE m == With(next, [bundle |-> <<>>])
    <3>1. /\ DOMAIN m = {"at", "p", "todo", "n", "types", "deleting", "rest", "bundle"}
          /\ m.at = "life.bundle" /\ m.p = l.p /\ m.todo = l.todo /\ m.n = l.n /\ m.types = l.types
          /\ m.deleting = l.deleting /\ m.rest = found /\ m.bundle = <<>>
      BY DEF With
    <3> HIDE DEF m, next
    <3>2. BundleOK(<<>>)
      BY DEF BundleOK
    <3>3. DispatchOK(m)
      BY <2>2, <2>4, <3>1, <3>2 DEF DispatchOK
    <3>4. LocalsOK(m)
      BY <2>2, <2>4, <3>1, <3>3 DEF LocalsOK
    <3> QED BY <3>4 DEF m
  <2> DEFINE m == IF l.deleting THEN With(next, [at |-> "project.delete", bundle |-> l.bundle])
                  ELSE IF found = {} THEN NextEvent(l) ELSE With(next, [bundle |-> <<>>])
  <2>5. Step(q, "life.enabled", m)
    BY <2>1
  <2>6. LocalsOK(m)
    BY <1>1, <2>2, <2>3, <2>4
  <2> HIDE DEF m
  <2> QED BY <1>0, <2>5, <2>6, StepGoes
<1> QED BY <1>3, <1>4, <1>5, <1>6

\* What a request that links a service and has called nobody holds.
Linking(l) == LocalsOK(l) /\ l.at \in LinkLabels /\ l.todo = <<>>

LEMMA AfterLinkOK ==
    ASSUME NEW l, Calling(l) \/ Linking(l)
    PROVE  LocalsOK(AfterLink(l))
<1>1. CASE l.todo = <<>>
  BY <1>1, IdleOK DEF AfterLink
<1>2. CASE l.todo # <<>>
  <2>1. Calling(l)
    BY <1>2 DEF Linking
  <2> QED BY <1>2, <2>1, CallOnOK DEF AfterLink
<1> QED BY <1>1, <1>2

\* A request among its calls, and one that has none.
LEMMA CallKinds ==
    ASSUME NEW l, LocalsOK(l), l.at \in CallLabels
    PROVE  /\ "p" \in DOMAIN l /\ l.p \in Projects /\ "at" \in DOMAIN l
           /\ Calling(l) \/ Linking(l)
           /\ l.at \in {"life.call", "life.service"} => Calling(l)
           /\ l.at \in {"life.service"} \cup LinkLabels =>
                l.i \in Integrations /\ l.add \in BOOLEAN /\ {"i", "add"} \subseteq DOMAIN l
           /\ Calling(l) => /\ {"todo", "n", "types", "deleting", "rest", "bundle"} \subseteq DOMAIN l
                            /\ l.todo \in Todos /\ l.rest \in SUBSET Integrations /\ ~l.deleting
                            /\ l.n \in Nat /\ l.types \in SUBSET Types
                            /\ BundleOK(l.bundle)
                            /\ l.todo # <<"deleted">> => DOMAIN l.bundle = {"slug", "types"}
BY DEF LocalsOK, Calling, Linking, DispatchOK, HasIntegration, HasProject, HasEvents, CallLabels, LinkLabels

\* The call goes on at another await with its locals, and some beside them.
LEMMA CallElsewhere ==
    ASSUME NEW l, Calling(l) \/ Linking(l), NEW m, NEW S \in SUBSET Integrations,
           m.at \in CallLabels, "at" \in DOMAIN m, DOMAIN l \subseteq DOMAIN m,
           \A f \in DOMAIN l \ {"at", "rest", "i", "add", "links"} : m[f] = l[f],
           "rest" \in DOMAIN l => m.rest \in SUBSET Integrations,
           Linking(l) => m.at \in LinkLabels,
           m.at \in {"life.service"} \cup LinkLabels =>
             {"i", "add"} \subseteq DOMAIN m /\ m.i \in Integrations /\ m.add \in BOOLEAN,
           m.at = "life.linkset" => "links" \in DOMAIN m /\ m.links \in SUBSET Integrations
    PROVE  LocalsOK(m)
<1> USE DEF TellLabels, ResolvedLabels, ResolveLabels, LinkLabels, CallLabels, CreateLabels, PatchLabels,
            OwnedLabels, RelationLabels, HasEvents, HasProject, LoginLabels, TypedLabels, CredLabels,
            AppLabels, HasIntegration
<1>1. LocalsOK(l) /\ "p" \in DOMAIN l /\ l.p \in Projects
  BY DEF Calling, Linking, LocalsOK
<1>2. CASE Calling(l)
  <2>1. DispatchOK(m)
    BY <1>2 DEF Calling, DispatchOK
  <2> QED BY <1>1, <2>1 DEF LocalsOK
<1>3. CASE Linking(l)
  <2>1. "todo" \in DOMAIN l
    BY <1>3, TodoFacts DEF Linking, LocalsOK, DispatchOK
  <2>2. m.todo = <<>> /\ "todo" \in DOMAIN m /\ m.p = l.p /\ m.at \in LinkLabels
    BY <1>1, <1>3, <2>1 DEF Linking
  <2> QED BY <1>1, <2>2 DEF LocalsOK
<1> QED BY <1>2, <1>3

LEMMA NodeTypes ==
    ASSUME TypeInv, NEW p \in Projects
    PROVE  /\ Node(p) \in NodeRecord /\ prjLog.want[p] \in NodeRecord
           /\ Node(p).links \in SUBSET Integrations /\ Node(p).types \in SUBSET Types
           /\ Node(p).slug \in Slugs \cup {0}
BY DEF TypeInv, PrjInv, PrjRecord, PrjLogRecord, Node, NodeRecord

LEMMA CallsGo ==
    ASSUME TypeInv, NEW q \in Slots,
           \/ ReadBundle(q) \/ BundleReadFails(q) \/ CallPlugin(q) \/ CallFails(q)
           \/ WriteService(q) \/ ReadLinks(q) \/ LinksLost(q) \/ WriteLinks(q)
    PROVE  Goes(q)
<1> DEFINE l == req[q]
<1>0. PoolInv /\ LocalsOK(l) /\ NoProject.slug \in Slugs \cup {0} /\ NoProject.types \in SUBSET Types
  BY DEF TypeInv, PoolInv, NoProject
<1>1. CASE ReadBundle(q)
  <2>1. PICK f \in Unread(l) : Step(q, "life.bundle", WithRead(l, f, Node(l.p)[f])) /\ l.at = "life.bundle"
    BY <1>1 DEF ReadBundle, WaitP, At
  <2>2. l.p \in Projects
    BY <1>0, <2>1 DEF LocalsOK, HasProject, HasEvents
  <2>3. LocalsOK(WithRead(l, f, Node(l.p)[f]))
    BY <1>0, <2>1, <2>2, ReadOK, NodeTypes
  <2> QED BY <1>0, <2>1, <2>3, StepGoes
<1>2. CASE BundleReadFails(q)
  <2>1. PICK f \in Unread(l) :
          /\ req' = [req EXCEPT ![q] = WithRead(l, f, NoProject[f])] /\ l.at = "life.bundle"
          /\ faults < MaxFaults /\ faults' = faults + 1 /\ UNCHANGED <<begun, mix>>
    BY <1>2 DEF BundleReadFails, At
  <2>2. LocalsOK(WithRead(l, f, NoProject[f]))
    BY <1>0, <2>1, ReadOK
  <2> QED BY <1>0, <2>1, <2>2, FaultGoes
<1>3. ASSUME NEW i \in l.rest, NEW next, l.at = "life.call",
             \/ next = NextCall([l EXCEPT !.rest = @ \ {i}])
             \/ \E wb : /\ next = With([l EXCEPT !.rest = @ \ {i}], [at |-> wb, i |-> i, add |-> TRUE])
                        /\ wb \in {"life.service", "life.link"}
      PROVE  LocalsOK(next)
  <2>1. Calling(l) /\ l.rest \in SUBSET Integrations /\ i \in Integrations /\ "rest" \in DOMAIN l
    BY <1>0, <1>3, CallKinds DEF CallLabels
  <2>2. CASE next = NextCall([l EXCEPT !.rest = @ \ {i}])
    <3>1. l.rest \ {i} \in SUBSET Integrations
      BY <2>1
    <3> QED BY <2>1, <2>2, <3>1, NextCallOK
  <2>3. ASSUME NEW wb \in {"life.service", "life.link"},
               next = With([l EXCEPT !.rest = @ \ {i}], [at |-> wb, i |-> i, add |-> TRUE])
        PROVE  LocalsOK(next)
    <3>1. /\ DOMAIN next = DOMAIN l \cup {"at", "i", "add"}
          /\ next.at = wb /\ next.i = i /\ next.add = TRUE /\ next.rest = l.rest \ {i}
          /\ \A f \in DOMAIN l \ {"at", "rest", "i", "add", "links"} : next[f] = l[f]
      BY <2>1, <2>3 DEF With
    <3>2. wb \in CallLabels /\ wb # "life.linkset"
      BY DEF CallLabels, LinkLabels
    <3>3. ~Linking(l)
      BY <1>3 DEF Linking, LinkLabels
    <3> QED BY <2>1, <3>1, <3>2, <3>3, CallElsewhere
  <2> QED BY <1>3, <2>2, <2>3
<1>4. CASE CallPlugin(q)
  <2>1. PICK i \in l.rest :
          \/ \E wb \in Writebacks(l.todo[1]) :
               Step(q, "life.call", IF wb = "life.call" THEN NextCall([l EXCEPT !.rest = @ \ {i}])
                                    ELSE With([l EXCEPT !.rest = @ \ {i}], [at |-> wb, i |-> i, add |-> TRUE]))
          \/ Step(q, "life.call", NextCall([l EXCEPT !.rest = @ \ {i}]))
    BY <1>4 DEF CallPlugin
  <2>2. PICK next :
          /\ Step(q, "life.call", next)
          /\ \/ next = NextCall([l EXCEPT !.rest = @ \ {i}])
             \/ \E wb : /\ next = With([l EXCEPT !.rest = @ \ {i}], [at |-> wb, i |-> i, add |-> TRUE])
                        /\ wb \in {"life.service", "life.link"}
    BY <2>1 DEF Writebacks
  <2>3. l.at = "life.call"
    BY <1>4 DEF CallPlugin, At
  <2> QED BY <1>0, <1>3, <2>2, <2>3, StepGoes
<1>5. CASE CallFails(q)
  <2>1. PICK i \in l.rest :
          /\ req' = [req EXCEPT ![q] = NextCall([l EXCEPT !.rest = @ \ {i}])] /\ l.at = "life.call"
          /\ faults < MaxFaults /\ faults' = faults + 1 /\ UNCHANGED <<begun, mix>>
    BY <1>5 DEF CallFails, At
  <2>2. LocalsOK(NextCall([l EXCEPT !.rest = @ \ {i}]))
    BY <1>3, <2>1
  <2> QED BY <1>0, <2>1, <2>2, FaultGoes
<1>6. CASE WriteService(q)
  <2> DEFINE next == To(q, "life.link")
  <2>1. Step(q, "life.service", next) /\ l.at = "life.service"
    BY <1>6 DEF WriteService, Step, At
  <2>2. Calling(l) /\ l.i \in Integrations /\ l.add \in BOOLEAN /\ {"i", "add"} \subseteq DOMAIN l
        /\ l.rest \in SUBSET Integrations /\ "at" \in DOMAIN l
    BY <1>0, <2>1, CallKinds DEF CallLabels
  <2>3. /\ DOMAIN next = DOMAIN l /\ next.at = "life.link"
        /\ \A f \in DOMAIN l : f # "at" => next[f] = l[f]
    BY <2>2 DEF To
  <2> HIDE DEF next
  <2>4. "life.link" \in CallLabels /\ "life.link" \in LinkLabels
    BY DEF CallLabels, LinkLabels
  <2>5. LocalsOK(next)
    BY <2>2, <2>3, <2>4, CallElsewhere
  <2> QED BY <1>0, <2>1, <2>5, StepGoes
<1>7. ASSUME l.at \in LinkLabels
      PROVE  /\ Calling(l) \/ Linking(l)
             /\ \A L \in SUBSET Integrations : LocalsOK(With(l, [at |-> "life.linkset", links |-> L]))
  <2>1. /\ Calling(l) \/ Linking(l)
        /\ l.i \in Integrations /\ l.add \in BOOLEAN /\ {"i", "add", "at"} \subseteq DOMAIN l
        /\ Calling(l) => l.rest \in SUBSET Integrations
    BY <1>0, <1>7, CallKinds DEF CallLabels
  <2>2. ASSUME NEW L \in SUBSET Integrations
        PROVE  LocalsOK(With(l, [at |-> "life.linkset", links |-> L]))
    <3> DEFINE next == With(l, [at |-> "life.linkset", links |-> L])
    <3>1. /\ DOMAIN next = DOMAIN l \cup {"at", "links"} /\ next.at = "life.linkset" /\ next.links = L
          /\ \A f \in DOMAIN l : f \notin {"at", "links"} => next[f] = l[f]
      BY DEF With
    <3>2. LocalsOK(next)
      <4> HIDE DEF next
      <4>1. CASE Calling(l)
        BY <2>1, <3>1, <4>1, CallElsewhere DEF CallLabels, LinkLabels
      <4>2. CASE Linking(l)
        <5>1. "rest" \in DOMAIN l => l.rest = l.rest
          OBVIOUS
        <5>2. DOMAIN l \subseteq DOMAIN next /\ "p" \in DOMAIN l /\ l.p \in Projects /\ "todo" \in DOMAIN l
          BY <3>1, <4>2, TodoFacts DEF Linking, LocalsOK, DispatchOK, HasProject, HasEvents, CallLabels, LinkLabels
        <5>3. next.p = l.p /\ next.todo = <<>> /\ next.i = l.i /\ next.add = l.add
          BY <2>1, <3>1, <4>2, <5>2 DEF Linking
        <5> QED BY <2>1, <3>1, <5>2, <5>3
                DEF LocalsOK, TellLabels, ResolvedLabels, ResolveLabels, LinkLabels, CallLabels,
                    CreateLabels, PatchLabels, OwnedLabels, RelationLabels, HasEvents, HasProject,
                    LoginLabels, TypedLabels, CredLabels, AppLabels, HasIntegration
      <4> QED BY <2>1, <4>1, <4>2
    <3> HIDE DEF next
    <3> QED BY <3>2 DEF next
  <2> QED BY <2>1, <2>2
<1>8. CASE ReadLinks(q)
  <2>1. l.at \in LinkLabels
    BY <1>8 DEF ReadLinks, WaitP, Step, At, LinkLabels
  <2>2. l.p \in Projects
    BY <1>0, <2>1, CallKinds DEF CallLabels
  <2>3. LocalsOK(AfterLink(l)) /\ LocalsOK(With(l, [at |-> "life.linkset", links |-> Node(l.p).links]))
    BY <1>7, <2>1, <2>2, AfterLinkOK, NodeTypes
  <2>4. Step(q, "life.link", IF (l.i \in Node(l.p).links) = l.add THEN AfterLink(l)
                             ELSE With(l, [at |-> "life.linkset", links |-> Node(l.p).links]))
    BY <1>8 DEF ReadLinks, WaitP
  <2> QED BY <1>0, <2>3, <2>4, StepGoes
<1>9. CASE LinksLost(q)
  <2> DEFINE next == IF l.add THEN With(l, [at |-> "life.linkset", links |-> {}]) ELSE AfterLink(l)
  <2>1. l.at \in LinkLabels
    BY <1>9 DEF LinksLost, At, LinkLabels
  <2>2. LocalsOK(next)
    BY <1>7, <2>1, AfterLinkOK
  <2>3. /\ req' = [req EXCEPT ![q] = next]
        /\ faults < MaxFaults /\ faults' = faults + 1 /\ UNCHANGED <<begun, mix>>
    BY <1>9 DEF LinksLost
  <2> HIDE DEF next
  <2> QED BY <1>0, <2>2, <2>3, FaultGoes
<1>10. CASE WriteLinks(q)
  <2> DEFINE m == [f \in DOMAIN l \ {"links"} |-> l[f]]
  <2>1. l.at \in LinkLabels /\ Step(q, "life.linkset", AfterLink(m))
    BY <1>10 DEF WriteLinks, At, LinkLabels
  <2>2. DOMAIN m = DOMAIN l \ {"links"} /\ \A f \in DOMAIN l : f # "links" => m[f] = l[f]
    OBVIOUS
  <2>3. LocalsOK(AfterLink(m))
    <3> HIDE DEF m
    <3>1. "at" \in DOMAIN l /\ "todo" \in DOMAIN l
      BY <1>0, <1>7, <2>1 DEF LocalsOK, Calling, DispatchOK, Linking, HasEvents, CallLabels, LinkLabels
    <3>2. m.at = l.at /\ m.todo = l.todo
      BY <2>2, <3>1
    <3>3. CASE l.todo = <<>>
      BY <3>2, <3>3, IdleOK DEF AfterLink
    <3>4. CASE l.todo # <<>>
      <4>1. Calling(l)
        BY <1>7, <2>1, <3>4 DEF Linking
      <4>2. DispatchOK(m)
        BY <2>1, <2>2, <4>1, <3>2 DEF Calling, DispatchOK, LinkLabels, CallLabels, ResolveLabels, ResolvedLabels
      <4> DEFINE c == [m EXCEPT !.at = "life.call"]
      <4>3. LocalsOK(NextCall(m))
        <5>1. CASE m.rest = {}
          <6>1. NextCall(m) = NextEvent(m)
            BY <5>1 DEF NextCall
          <6>2. "p" \in DOMAIN m /\ m.p \in Projects
            BY <1>0, <2>1, <2>2, CallKinds DEF CallLabels
          <6> QED BY <4>2, <6>1, <6>2, NextEventOK
        <5>2. CASE m.rest # {}
          <6>1. NextCall(m) = c
            BY <5>2 DEF NextCall
          <6>2. /\ DOMAIN c = DOMAIN l \ {"links"} /\ c.at = "life.call"
                /\ \A f \in DOMAIN l \ {"links"} : f # "at" => c[f] = l[f]
            BY <2>2, <3>1
          <6> HIDE DEF c
          <6>3. DispatchOK(c)
            BY <2>1, <4>1, <6>2
               DEF Calling, DispatchOK, LinkLabels, CallLabels, ResolveLabels, ResolvedLabels
          <6>4. "p" \in DOMAIN l /\ l.p \in Projects
            BY <1>0, <2>1, CallKinds DEF CallLabels
          <6>5. LocalsOK(c)
            BY <3>1, <6>2, <6>3, <6>4
               DEF LocalsOK, TellLabels, ResolvedLabels, ResolveLabels, LinkLabels, CallLabels,
                   CreateLabels, PatchLabels, OwnedLabels, RelationLabels, HasEvents, HasProject,
                   LoginLabels, TypedLabels, CredLabels, AppLabels, HasIntegration
          <6> QED BY <6>1, <6>5
        <5> QED BY <5>1, <5>2
      <4> QED BY <3>2, <3>4, <4>3 DEF AfterLink
    <3> QED BY <3>3, <3>4
  <2> HIDE DEF m
  <2> QED BY <1>0, <2>1, <2>3, StepGoes
<1> QED BY <1>1, <1>2, <1>4, <1>5, <1>6, <1>8, <1>9, <1>10

-----------------------------------------------------------------------------
(* The handlers of Integrations.                                           *)

LEMMA IntegrationTypes ==
    ASSUME TypeInv, NEW i \in Integrations
    PROVE  /\ igr.node[i] \in IntegrationRecord
           /\ igr.node[i].caps \in SUBSET Kinds /\ igr.node[i].creds \in SUBSET Fields
           /\ login.now \in Nat
BY IntegrationsAssumption DEF TypeInv, IgrInv, IgrRecord, IntegrationRecord, LoginRecord

LEMMA IntegrationsGo ==
    ASSUME TypeInv, IntegrationsNext
    PROVE  \E q \in Slots : Goes(q)
<1> USE DEF TellLabels, ResolvedLabels, ResolveLabels, LinkLabels, CallLabels, CreateLabels, PatchLabels,
            OwnedLabels, RelationLabels, HasEvents, HasProject, LoginLabels, TypedLabels, CredLabels,
            AppLabels, HasIntegration
<1>0. PICK q \in Slots :
        \/ IntegrationCalls(q) \/ UpdateIntegration(q) \/ SetLoginProvider(q) \/ GetLoginApp(q)
        \/ PutCredentials(q) \/ IntegrationsStep(q)
  BY DEF IntegrationsNext
<1> DEFINE l == req[q]
<1>a. PoolInv /\ LocalsOK(l) /\ "at" \in DOMAIN l
  BY DEF TypeInv, PoolInv, LocalsOK
<1>b. ASSUME NEW next, LocalsOK(next), NEW label, Begin(q, next) \/ Step(q, label, next)
      PROVE  Goes(q)
  BY <1>a, <1>b, BeginGoes, StepGoes
<1>c. ASSUME NEW label, Begin(q, Idle) \/ Step(q, label, Idle)
      PROVE  Goes(q)
  BY <1>b, <1>c, IdleOK
<1>d. ASSUME NEW label, l.at \in HasIntegration, label \in LoginLabels \cup TypedLabels \cup CredLabels \cup AppLabels,
             l.at \in LoginLabels => label = "login.set",
             l.at \in TypedLabels => label \in TypedLabels,
             l.at \in CredLabels => label \in CredLabels,
             l.at \in AppLabels => label \in AppLabels,
             l.at \in LoginLabels \cup TypedLabels \cup CredLabels \cup AppLabels
      PROVE  LocalsOK(To(q, label))
  <2> DEFINE m == To(q, label)
  <2>1. DOMAIN m = DOMAIN l /\ m.at = label /\ \A f \in DOMAIN l : f # "at" => m[f] = l[f]
    BY <1>a DEF To
  <2> HIDE DEF m
  <2>2. LocalsOK(m)
    BY <1>a, <1>d, <2>1 DEF LocalsOK
  <2> QED BY <2>2 DEF m
<1>1. CASE CreateIntegration(q) \/ DeleteIntegration(q) \/ UpdatePluginRegistration(q)
  BY <1>c, <1>1 DEF CreateIntegration, DeleteIntegration, UpdatePluginRegistration
<1>2. CASE UpdateIntegration(q)
  <2>1. PICK i \in Integrations : Begin(q, [at |-> "int.save", i |-> i, read |-> igr.node[i].caps])
    BY <1>2 DEF UpdateIntegration, LookI
  <2>2. LocalsOK([at |-> "int.save", i |-> i, read |-> igr.node[i].caps])
    BY IntegrationTypes DEF LocalsOK
  <2> QED BY <1>b, <2>1, <2>2
<1>3. CASE UpdateIntegrationSave(q)
  BY <1>c, <1>3 DEF UpdateIntegrationSave, WaitI
<1>4. CASE SetLoginProvider(q)
  <2>1. PICK i \in Integrations, on \in BOOLEAN :
          Begin(q, [at |-> IF on THEN "login.clear" ELSE "login.set", i |-> i, on |-> on])
    BY <1>4 DEF SetLoginProvider, LookI
  <2>2. LocalsOK([at |-> IF on THEN "login.clear" ELSE "login.set", i |-> i, on |-> on])
    BY DEF LocalsOK
  <2> QED BY <1>b, <2>1, <2>2
<1>5. CASE ClearLogin(q)
  BY <1>b, <1>d, <1>5 DEF ClearLogin, Step, At
<1>6. CASE WriteLogin(q)
  BY <1>c, <1>6 DEF WriteLogin
<1>7. CASE ReplaceTypeAssignments(q)
  <2>1. PICK i \in Integrations, T \in SUBSET Types :
          Begin(q, [at |-> IF T = {} THEN "typed.save" ELSE "typed.check", i |-> i, types |-> T])
    BY <1>7 DEF ReplaceTypeAssignments, LookI
  <2>2. LocalsOK([at |-> IF T = {} THEN "typed.save" ELSE "typed.check", i |-> i, types |-> T])
    BY DEF LocalsOK
  <2> QED BY <1>b, <2>1, <2>2
<1>8. CASE CheckTypes(q)
  <2>1. l.at = "typed.check" /\ (Step(q, "typed.check", Idle) \/ Step(q, "typed.check", To(q, "typed.save")))
    BY <1>8 DEF CheckTypes, WaitI, Step, At
  <2> QED BY <1>b, <1>c, <1>d, <2>1
<1>9. CASE WriteTypeAssignments(q)
  BY <1>c, <1>9 DEF WriteTypeAssignments
<1>10. CASE PutCredentials(q)
  <2>1. PICK i \in Integrations, f \in Fields, on \in BOOLEAN :
          Begin(q, [at |-> "cred.save", i |-> i, f |-> f, on |-> on, read |-> igr.node[i].creds, tries |-> 1])
    BY <1>10 DEF PutCredentials, LookI
  <2>2. LocalsOK([at |-> "cred.save", i |-> i, f |-> f, on |-> on, read |-> igr.node[i].creds, tries |-> 1])
    BY IntegrationTypes DEF LocalsOK
  <2> QED BY <1>b, <2>1, <2>2
<1>11. CASE ReadCredentials(q)
  <2> DEFINE m == [l EXCEPT !.at = "cred.save", !.read = igr.node[l.i].creds]
  <2>1. l.at = "cred.read" /\ (Step(q, "cred.read", Idle) \/ Step(q, "cred.read", m))
    BY <1>11 DEF ReadCredentials, WaitI, Step, At
  <2>2. l.i \in Integrations /\ {"i", "f", "on", "read"} \subseteq DOMAIN l
    BY <1>a, <2>1 DEF LocalsOK
  <2>3. /\ DOMAIN m = DOMAIN l /\ m.at = "cred.save" /\ m.read = igr.node[l.i].creds
        /\ \A f \in DOMAIN l : f \notin {"at", "read"} => m[f] = l[f]
    BY <1>a, <2>2
  <2> HIDE DEF m
  <2>4. LocalsOK(m)
    BY <1>a, <2>1, <2>2, <2>3, IntegrationTypes DEF LocalsOK
  <2> QED BY <1>b, <1>c, <2>1, <2>4
<1>12. CASE SaveCredentials(q)
  <2> DEFINE m == [l EXCEPT !.at = "cred.read", !.tries = @ + 1]
  <2>1. l.at = "cred.save" /\ (Step(q, "cred.save", Idle) \/ Step(q, "cred.save", m))
    BY <1>12 DEF SaveCredentials, WaitI, At
  <2>2. /\ DOMAIN m = DOMAIN l /\ m.at = "cred.read"
        /\ \A f \in DOMAIN l : f \notin {"at", "tries"} => m[f] = l[f]
    BY <1>a
  <2> HIDE DEF m
  <2>3. LocalsOK(m)
    BY <1>a, <2>1, <2>2 DEF LocalsOK
  <2> QED BY <1>b, <1>c, <2>1, <2>3
<1>13. CASE GetLoginApp(q)
  <2>1. PICK i \in Integrations : Begin(q, Idle) \/ Begin(q, [at |-> "app.fetch", i |-> i, now |-> login.now])
    BY <1>13 DEF GetLoginApp, LookI
  <2>2. LocalsOK([at |-> "app.fetch", i |-> i, now |-> login.now])
    BY IntegrationTypes DEF LocalsOK
  <2> QED BY <1>b, <1>c, <2>1, <2>2
<1>14. CASE FetchLoginApp(q)
  <2>1. l.at = "app.fetch" /\ (Step(q, "app.fetch", Idle) \/ Step(q, "app.fetch", To(q, "app.store")))
    BY <1>14 DEF FetchLoginApp, WaitI, Step, At
  <2> QED BY <1>b, <1>c, <1>d, <2>1
<1>15. CASE StoreLoginApp(q)
  BY <1>c, <1>15 DEF StoreLoginApp
<1> HIDE DEF TellLabels, ResolvedLabels, ResolveLabels, LinkLabels, CallLabels, CreateLabels, PatchLabels,
             OwnedLabels, RelationLabels, HasEvents, HasProject, LoginLabels, TypedLabels, CredLabels,
             AppLabels, HasIntegration
<1> QED BY <1>0, <1>1, <1>2, <1>3, <1>4, <1>5, <1>6, <1>7, <1>8, <1>9, <1>10, <1>11, <1>12, <1>13, <1>14, <1>15
        DEF IntegrationCalls, IntegrationsStep

-----------------------------------------------------------------------------
(* The handlers of Projects.                                               *)

\* The documents: a new project, and one as it is patched.
LEMMA DocTypes ==
    ASSUME NEW team \in Teams, NEW types \in SUBSET Types, NEW slug \in Slugs,
           NEW envs \in [Envs -> EdgeStates]
    PROVE  LET doc == Doc(team, types, slug, envs) IN
           /\ doc \in NodeRecord /\ doc.there /\ ~doc.archived
           /\ doc.team = team /\ doc.types = types /\ doc.slug = slug /\ doc.envs = envs
BY DEF Doc, NoProject, NodeRecord

LEMMA PatchTypes ==
    ASSUME NEW read \in NodeRecord, NEW doc \in Patches(read)
    PROVE  doc \in NodeRecord /\ doc.there = read.there /\ doc.archived = read.archived
<1>1. CASE \E s \in Slugs : doc = [read EXCEPT !.slug = s]
  BY <1>1 DEF NodeRecord
<1>2. CASE \E t \in Teams : doc = [read EXCEPT !.team = t]
  BY <1>2 DEF NodeRecord
<1>3. CASE \E T \in SUBSET Types \ {{}} : doc = [read EXCEPT !.types = T]
  BY <1>3 DEF NodeRecord
<1>4. CASE \E e \in Envs : doc = [read EXCEPT !.envs[e] = "plain"]
  <2>1. PICK e \in Envs : doc = [read EXCEPT !.envs[e] = "plain"]
    BY <1>4
  <2>2. [read.envs EXCEPT ![e] = "plain"] \in [Envs -> EdgeStates]
    BY DEF NodeRecord, EdgeStates
  <2>3. doc = [read EXCEPT !.envs = [read.envs EXCEPT ![e] = "plain"]]
    BY <2>1 DEF NodeRecord
  <2> QED BY <2>2, <2>3 DEF NodeRecord
<1>5. CASE doc = [read EXCEPT !.links = {}]
  BY <1>5 DEF NodeRecord
<1> QED BY <1>1, <1>2, <1>3, <1>4, <1>5 DEF Patches

\* What a patch tells the plugins.
EventsSay(l) ==
  \A e : (\E k \in DOMAIN Events(l) : Events(l)[k] = e) <=>
           \/ e = "updated" /\ l.doc.slug # l.read.slug
           \/ e = "relocated" /\ (l.transfer \/ l.doc.team # l.read.team)

LEMMA EventsTold ==
    ASSUME NEW l, l.transfer \in BOOLEAN
    PROVE  Events(l) \in Tellings \cup {<<>>} /\ EventsSay(l)
<1> DEFINE moved == l.transfer \/ l.doc.team # l.read.team
           a == IF l.doc.slug # l.read.slug THEN <<"updated">> ELSE <<>>
           b == IF moved THEN <<"relocated">> ELSE <<>>
<1>1. Events(l) = a \o b
  BY DEF Events
<1>2. CASE l.doc.slug # l.read.slug /\ moved
  <2>1. a = <<"updated">> /\ b = <<"relocated">>
    BY <1>2
  <2>2. <<"updated">> \o <<"relocated">> = <<"updated", "relocated">>
    <3> DEFINE u == <<"updated">>
               r == <<"relocated">>
               s == u \o r
               t == <<"updated", "relocated">>
               E == {"updated", "relocated"}
    <3>1. u \in Seq(E) /\ Len(u) = 1 /\ u[1] = "updated"
      OBVIOUS
    <3>2. r \in Seq(E) /\ Len(r) = 1 /\ r[1] = "relocated"
      OBVIOUS
    <3>3. t \in Seq(E) /\ Len(t) = 2 /\ t[1] = "updated" /\ t[2] = "relocated"
      OBVIOUS
    <3> HIDE DEF u, r, t, E
    <3>4. s \in Seq(E) /\ Len(s) = 2 /\ s[1] = "updated" /\ s[2] = "relocated"
      BY <3>1, <3>2, ConcatProperties
    <3> HIDE DEF s
    <3>5. \A i \in 1..Len(s) : s[i] = t[i]
      BY <3>3, <3>4
    <3>6. s = t
      BY <3>3, <3>4, <3>5, SeqEqual
    <3> QED BY <3>6 DEF s, t, u, r
  <2>3. Events(l) = <<"updated", "relocated">>
    BY <1>1, <2>1, <2>2
  <2>4. DOMAIN Events(l) = 1..2 /\ Events(l)[1] = "updated" /\ Events(l)[2] = "relocated"
    BY <2>3
  <2> HIDE DEF a, b
  <2> QED BY <1>2, <2>3, <2>4 DEF Tellings, EventsSay
<1>3. CASE l.doc.slug # l.read.slug /\ ~moved
  <2>1. Events(l) = <<"updated">>
    BY <1>1, <1>3
  <2> QED BY <1>3, <2>1 DEF Tellings, EventsSay
<1>4. CASE l.doc.slug = l.read.slug /\ moved
  <2>1. Events(l) = <<"relocated">>
    BY <1>1, <1>4
  <2> QED BY <1>4, <2>1 DEF Tellings, EventsSay
<1>5. CASE l.doc.slug = l.read.slug /\ ~moved
  <2>1. Events(l) = <<>>
    BY <1>1, <1>5
  <2>2. DOMAIN Events(l) = {}
    BY <2>1
  <2> QED BY <1>5, <2>1, <2>2 DEF EventsSay
<1> QED BY <1>2, <1>3, <1>4, <1>5

LEMMA WritesGo ==
    ASSUME TypeInv, NEW q \in Slots,
           \/ CreateProject(q) \/ ValidateEnvs(q) \/ CreateProjectNode(q)
           \/ PatchProject(q) \/ CheckPatch(q) \/ PatchProjectSave(q)
           \/ Rescore(q) \/ FindDependents(q) \/ EnqueueDependents(q) \/ Tell(q)
    PROVE  Goes(q)
<1> USE DEF TellLabels, ResolvedLabels, ResolveLabels, LinkLabels, CallLabels, CreateLabels, PatchLabels,
            OwnedLabels, RelationLabels, HasEvents, HasProject, LoginLabels, TypedLabels, CredLabels,
            AppLabels, HasIntegration
<1> DEFINE l == req[q]
<1>a. PoolInv /\ LocalsOK(l) /\ "at" \in DOMAIN l
  BY DEF TypeInv, PoolInv, LocalsOK
<1>b. ASSUME NEW next, LocalsOK(next), NEW label, Begin(q, next) \/ Step(q, label, next)
      PROVE  Goes(q)
  BY <1>a, <1>b, BeginGoes, StepGoes
<1>c. ASSUME NEW label, Begin(q, Idle) \/ Step(q, label, Idle)
      PROVE  Goes(q)
  BY <1>b, <1>c, IdleOK
<1>d. ASSUME NEW label, l.at \in {"project.rescore", "project.requeue"}, label \in {"project.dependents", "project.tell"}
      PROVE  LocalsOK(To(q, label))
  <2> DEFINE m == To(q, label)
  <2>1. DOMAIN m = DOMAIN l /\ m.at = label /\ \A f \in DOMAIN l : f # "at" => m[f] = l[f]
    BY <1>a DEF To
  <2> HIDE DEF m
  <2>2. LocalsOK(m)
    BY <1>a, <1>d, <2>1 DEF LocalsOK
  <2> QED BY <2>2 DEF m
<1>1. CASE CreateProject(q)
  <2>1. PICK p \in Projects, team \in Teams, types \in SUBSET igr.type, slug \in Slugs,
             envs \in [Envs -> {"none", "plain"}], at \in {"project.create", "project.envs"} :
          Begin(q, [at |-> at, p |-> p, doc |-> Doc(team, types, slug, envs)])
    BY <1>1 DEF CreateProject, LookP
  <2>2. types \in SUBSET Types /\ envs \in [Envs -> EdgeStates]
    BY DEF TypeInv, IgrInv, IgrRecord, EdgeStates
  <2> DEFINE doc == Doc(team, types, slug, envs)
  <2>3. doc \in NodeRecord /\ doc.there /\ ~doc.archived
    BY <2>2, DocTypes
  <2> HIDE DEF doc
  <2>4. LocalsOK([at |-> at, p |-> p, doc |-> doc])
    BY <2>3 DEF LocalsOK
  <2> QED BY <1>b, <2>1, <2>4 DEF doc
<1>2. CASE ValidateEnvs(q)
  <2> DEFINE m == To(q, "project.create")
  <2>1. l.at = "project.envs" /\ (Step(q, "project.envs", Idle) \/ Step(q, "project.envs", m))
    BY <1>2 DEF ValidateEnvs, WaitP, Step, At
  <2>2. DOMAIN m = DOMAIN l /\ m.at = "project.create" /\ \A f \in DOMAIN l : f # "at" => m[f] = l[f]
    BY <1>a DEF To
  <2> HIDE DEF m
  <2>3. LocalsOK(m)
    BY <1>a, <2>1, <2>2 DEF LocalsOK
  <2> QED BY <1>b, <1>c, <2>1, <2>3
<1>3. CASE CreateProjectNode(q)
  <2> DEFINE types == l.doc.types \cap igr.type
             m == Dispatch(l.p, <<"created">>, 1, types)
  <2>1. l.at = "project.create"
    BY <1>3 DEF CreateProjectNode, At
  <2>2. Step(q, "project.create", Idle) \/ Step(q, "project.create", m)
    BY <1>3 DEF CreateProjectNode, WaitP
  <2>3. types \in SUBSET Types /\ l.p \in Projects
    BY <1>a, <2>1 DEF LocalsOK, TypeInv, IgrInv, IgrRecord
  <2>4. <<"created">> \in Todos \cup {<<>>} /\ <<"created">> # <<"deleted">>
    BY DEF Todos
  <2> HIDE DEF types
  <2>5. LocalsOK(m)
    BY <2>3, <2>4, DispatchGoes
  <2> HIDE DEF m
  <2> QED BY <1>b, <1>c, <2>2, <2>5
<1>4. CASE PatchProject(q)
  <2>1. PICK p \in Projects : Node(p).there /\ Begin(q, [at |-> "project.patch", p |-> p, read |-> Node(p)])
    BY <1>4 DEF PatchProject, LookP, Reachable
  <2> DEFINE n == Node(p)
  <2>2. n \in NodeRecord /\ n.there
    BY <2>1, NodeTypes
  <2> HIDE DEF n
  <2>3. LocalsOK([at |-> "project.patch", p |-> p, read |-> n])
    BY <2>2 DEF LocalsOK
  <2> QED BY <1>b, <2>1, <2>3 DEF n
<1>5. CASE CheckPatch(q)
  <2>1. l.at = "project.patch" /\ l.read \in NodeRecord /\ l.read.there
    BY <1>a, <1>5 DEF CheckPatch, At, LocalsOK
  <2>2. PICK doc \in Patches(l.read), transfer \in BOOLEAN :
          \/ Step(q, "project.patch", With(l, [at |-> "project.save", doc |-> doc, transfer |-> transfer]))
          \/ Step(q, "project.patch", Idle)
    BY <1>5 DEF CheckPatch, WaitP
  <2> DEFINE m == With(l, [at |-> "project.save", doc |-> doc, transfer |-> transfer])
  <2>3. doc \in NodeRecord /\ doc.there /\ doc.archived = l.read.archived
    BY <2>1, PatchTypes
  <2>4. /\ DOMAIN m = DOMAIN l \cup {"at", "doc", "transfer"}
        /\ m.at = "project.save" /\ m.doc = doc /\ m.transfer = transfer
        /\ \A f \in DOMAIN l : f \notin {"at", "doc", "transfer"} => m[f] = l[f]
    BY DEF With
  <2> HIDE DEF m
  <2>5. LocalsOK(m)
    BY <1>a, <2>1, <2>3, <2>4 DEF LocalsOK
  <2> QED BY <1>b, <1>c, <2>2, <2>5 DEF m
<1>6. CASE PatchProjectSave(q)
  <2>1. l.at = "project.save"
    BY <1>6 DEF PatchProjectSave, At
  <2> DEFINE new == Saved(Node(l.p), l.doc)
             n == prjLog.n[l.p] + 1
             m == [at |-> "project.rescore", p |-> l.p, events |-> Events(l), n |-> n, types |-> new.types]
  <2>2. /\ l.p \in Projects /\ l.doc \in NodeRecord /\ l.transfer \in BOOLEAN
        /\ prjLog.n \in [Projects -> Nat]
    BY <1>a, <2>1 DEF LocalsOK, TypeInv, PrjInv, PrjLogRecord
  <2>3. \/ Step(q, "project.save", Idle)
        \/ Step(q, "project.save",
             [at |-> "project.rescore", p |-> l.p, events |-> Events(l),
              n |-> Written(prjLog, l.p).n[l.p], types |-> new.types])
    <3>1. CASE ~Reachable(l.p)
      BY <1>6, <3>1 DEF PatchProjectSave, WaitP
    <3>2. CASE Reachable(l.p)
      <4> DEFINE wr == Written(prjLog, l.p)
                 cut == l.doc.team \notin prj.team \/ CutShort(l.doc)
                 owed == ({l.p} \cup IF prj.policies THEN Deps(l.p) ELSE {}) \X {l.p}
                 log == [IF cut THEN Unscored(wr, owed) ELSE Owing(wr, owed) EXCEPT
                           !.want[l.p] = Merged(@, l.read, l.doc, Saved(Node(l.p), l.doc)),
                           !.stale = IF Node(l.p) = l.read THEN @ ELSE @ \cup {l.p},
                           !.loc[l.p] = IF "relocated" \in {Events(l)[k] : k \in DOMAIN Events(l)}
                                        THEN Saved(Node(l.p), l.doc).types ELSE @]
      <4>1. Step(q, "project.save", IF cut THEN Idle
                  ELSE [at |-> "project.rescore", p |-> l.p, events |-> Events(l),
                        n |-> log.n[l.p], types |-> Saved(Node(l.p), l.doc).types])
        BY Zenon, <1>6, <3>2 DEF PatchProjectSave
      <4>2. log.n = wr.n
        <5> HIDE DEF cut, owed
        <5> QED BY DEF Unscored, Owing, Written, TypeInv, PrjInv, PrjLogRecord
      <4> HIDE DEF log, cut, wr
      <4>3. \/ Step(q, "project.save", Idle)
            \/ Step(q, "project.save", [at |-> "project.rescore", p |-> l.p, events |-> Events(l),
                                        n |-> wr.n[l.p], types |-> Saved(Node(l.p), l.doc).types])
        BY <4>1, <4>2
      <4> QED BY Zenon, <4>3 DEF wr
    <3> QED BY <3>1, <3>2
  <2>4. Written(prjLog, l.p).n[l.p] = n
    BY <2>2 DEF Written, TypeInv, PrjInv, PrjLogRecord
  <2>5. new.types \in SUBSET Types
    BY <2>2, NodeTypes DEF Saved, NodeRecord
  <2>6. Events(l) \in Tellings \cup {<<>>}
    BY <2>2, EventsTold
  <2>7. n \in Nat
    BY <2>2
  <2> HIDE DEF new, n
  <2>8. LocalsOK(m)
    BY <2>2, <2>5, <2>6, <2>7 DEF LocalsOK
  <2>9. Step(q, "project.save", Idle) \/ Step(q, "project.save", m)
    BY <2>3, <2>4
  <2> HIDE DEF m
  <2> QED BY <1>b, <1>c, <2>8, <2>9
<1>7. CASE Rescore(q)
  <2>1. l.at = "project.rescore" /\ \E label \in {"project.dependents", "project.tell"} : Step(q, "project.rescore", To(q, label))
    BY <1>7 DEF Rescore, Step, At
  <2> QED BY <1>b, <1>d, <2>1
<1>8. CASE FindDependents(q)
  <2> DEFINE m == With(l, [at |-> "project.requeue", deps |-> Deps(l.p)])
  <2>1. l.at = "project.dependents" /\ Step(q, "project.dependents", m)
    BY <1>8 DEF FindDependents, WaitP, Step, At
  <2>2. Deps(l.p) \in SUBSET Projects
    BY DEF Deps, TypeInv, PrjInv, PrjRecord
  <2>3. /\ DOMAIN m = DOMAIN l \cup {"at", "deps"} /\ m.at = "project.requeue" /\ m.deps = Deps(l.p)
        /\ \A f \in DOMAIN l : f \notin {"at", "deps"} => m[f] = l[f]
    BY DEF With
  <2> HIDE DEF m
  <2>4. LocalsOK(m)
    BY <1>a, <2>1, <2>2, <2>3 DEF LocalsOK
  <2> QED BY <1>b, <2>1, <2>4
<1>9. CASE EnqueueDependents(q)
  <2>1. l.at = "project.requeue" /\ Step(q, "project.requeue", To(q, "project.tell"))
    BY <1>9 DEF EnqueueDependents, Step, At
  <2> QED BY <1>b, <1>d, <2>1
<1>10. CASE Tell(q)
  <2>1. l.at = "project.tell" /\ Step(q, "project.tell", Dispatch(l.p, l.events, l.n, l.types))
    BY <1>10 DEF Tell, WaitP, Step, At
  <2>2. /\ l.p \in Projects /\ l.events \in Tellings \cup {<<>>} /\ l.n \in Nat /\ l.types \in SUBSET Types
    BY <1>a, <2>1 DEF LocalsOK
  <2>3. l.events \in Todos \cup {<<>>} /\ l.events # <<"deleted">>
    <3>1. l.events \in Todos \cup {<<>>}
      BY <2>2 DEF Todos
    <3>2. \A t \in Tellings \cup {<<>>} : t # <<"deleted">>
      BY DEF Tellings
    <3> QED BY <2>2, <3>1, <3>2
  <2>4. LocalsOK(Dispatch(l.p, l.events, l.n, l.types))
    BY <2>2, <2>3, DispatchGoes
  <2> QED BY <1>b, <2>1, <2>4
<1> HIDE DEF TellLabels, ResolvedLabels, ResolveLabels, LinkLabels, CallLabels, CreateLabels, PatchLabels,
             OwnedLabels, RelationLabels, HasEvents, HasProject, LoginLabels, TypedLabels, CredLabels,
             AppLabels, HasIntegration
<1> QED BY <1>1, <1>2, <1>3, <1>4, <1>5, <1>6, <1>7, <1>8, <1>9, <1>10

LEMMA OthersGo ==
    ASSUME TypeInv, NEW q \in Slots,
           \/ PatchProjectEnvironment(q) \/ ArchiveProject(q) \/ UnarchiveProject(q)
           \/ SyncProjectLifecycle(q) \/ DeleteProject(q) \/ DeleteProjectNode(q)
           \/ CreateRelationship(q) \/ DeleteRelationship(q) \/ ConditionPoliciesExist(q) \/ EnqueueSource(q)
           \/ CreateProjectService(q) \/ UpdateProjectService(q) \/ DeleteProjectService(q)
           \/ ReplaceProjectIntegrations(q) \/ ListAssigned(q) \/ CheckAssigned(q) \/ ReplaceAssignments(q)
           \/ DeleteTeam(q) \/ DeleteProjectType(q) \/ DeleteEnvironment(q)
    PROVE  Goes(q)
<1> USE DEF TellLabels, ResolvedLabels, ResolveLabels, LinkLabels, CallLabels, CreateLabels, PatchLabels,
            OwnedLabels, RelationLabels, HasEvents, HasProject, LoginLabels, TypedLabels, CredLabels,
            AppLabels, HasIntegration
<1> DEFINE l == req[q]
<1>a. PoolInv /\ LocalsOK(l) /\ "at" \in DOMAIN l
  BY DEF TypeInv, PoolInv, LocalsOK
<1>b. ASSUME NEW next, LocalsOK(next), NEW label, Begin(q, next) \/ Step(q, label, next)
      PROVE  Goes(q)
  BY <1>a, <1>b, BeginGoes, StepGoes
<1>c. ASSUME NEW label, Begin(q, Idle) \/ Step(q, label, Idle)
      PROVE  Goes(q)
  BY <1>b, <1>c, IdleOK
<1>d. ASSUME NEW p \in Projects, NEW e \in {"archived", "unarchived", "updated"}, NEW n \in Nat
      PROVE  LocalsOK(Dispatch(p, <<e>>, n, Node(p).types))
  <2>1. <<e>> \in Todos \cup {<<>>} /\ <<e>> # <<"deleted">>
    BY DEF Todos, Tellings
  <2> QED BY <2>1, DispatchGoes, NodeTypes
<1>e. ASSUME NEW p \in Projects PROVE prjLog.n[p] \in Nat
  BY DEF TypeInv, PrjInv, PrjLogRecord
<1>1. CASE PatchProjectEnvironment(q) \/ DeleteTeam(q) \/ DeleteProjectType(q) \/ DeleteEnvironment(q)
  BY <1>c, <1>1 DEF PatchProjectEnvironment, DeleteTeam, DeleteProjectType, DeleteEnvironment
<1>2. ASSUME NEW event \in {"archived", "unarchived"}, NEW archived \in BOOLEAN,
             SetArchivedState(q, event, archived)
      PROVE  Goes(q)
  <2>1. PICK p \in Projects :
          Begin(q, Dispatch(p, <<event>>, Written([prjLog EXCEPT !.want[p].archived = archived], p).n[p],
                            Node(p).types))
    BY <1>2 DEF SetArchivedState
  <2>2. Written([prjLog EXCEPT !.want[p].archived = archived], p).n[p] = prjLog.n[p] + 1
    BY DEF Written, TypeInv, PrjInv, PrjLogRecord
  <2>3. prjLog.n[p] + 1 \in Nat
    BY <1>e
  <2> DEFINE m == Dispatch(p, <<event>>, prjLog.n[p] + 1, Node(p).types)
  <2>4. LocalsOK(m) /\ Begin(q, m)
    BY <1>d, <2>1, <2>2, <2>3
  <2> HIDE DEF m
  <2> QED BY <1>b, <2>4
<1>3. CASE ArchiveProject(q) \/ UnarchiveProject(q)
  BY <1>2, <1>3 DEF ArchiveProject, UnarchiveProject
<1>4. CASE SyncProjectLifecycle(q)
  <2>1. PICK p \in Projects : Begin(q, Dispatch(p, <<"updated">>, prjLog.n[p], Node(p).types))
    BY <1>4 DEF SyncProjectLifecycle, LookP
  <2>2. LocalsOK(Dispatch(p, <<"updated">>, prjLog.n[p], Node(p).types))
    BY <1>d, <1>e
  <2> QED BY <1>b, <2>1, <2>2
<1>5. CASE DeleteProject(q)
  <2>1. PICK p \in Projects, keep \in BOOLEAN :
          Begin(q, LET m == [at |-> "life.bundle", p |-> p, todo |-> <<"deleted">>, n |-> 0, types |-> {},
                             deleting |-> ~keep, bundle |-> <<>>] IN
                   IF keep THEN With(m, [at |-> "project.delete", rest |-> {}]) ELSE m)
    BY <1>5 DEF DeleteProject, LookP
  <2> DEFINE m == [at |-> "life.bundle", p |-> p, todo |-> <<"deleted">>, n |-> 0, types |-> {},
                   deleting |-> ~keep, bundle |-> <<>>]
             k == With(m, [at |-> "project.delete", rest |-> {}])
  <2>2. <<"deleted">> \in Todos /\ BundleOK(<<>>)
    BY DEF Todos, BundleOK
  <2>3. ASSUME ~keep PROVE LocalsOK(m)
    <3>1. /\ DOMAIN m = {"at", "p", "todo", "n", "types", "deleting", "bundle"}
          /\ m.at = "life.bundle" /\ m.p = p /\ m.todo = <<"deleted">> /\ m.n = 0
          /\ m.types = {} /\ m.deleting = TRUE /\ m.bundle = <<>>
      BY <2>3
    <3> HIDE DEF m
    <3>2. DispatchOK(m)
      <4>1. /\ {"todo", "n", "types", "deleting"} \subseteq DOMAIN m /\ "bundle" \in DOMAIN m
            /\ m.todo \in Todos /\ m.n \in Nat /\ m.types \in SUBSET Types /\ m.deleting \in BOOLEAN
            /\ BundleOK(m.bundle) /\ m.at \notin CallLabels
        <5> HIDE DEF k
        <5>1. m.todo \in Todos
          BY ONLY <2>2, <3>1
        <5>5. BundleOK(m.bundle)
          BY ONLY <2>2, <3>1
        <5>4. m.n \in Nat /\ m.types \in SUBSET Types /\ m.deleting \in BOOLEAN
          <6>1. m.n \in Nat
            BY ONLY <3>1
          <6>2. m.types \in SUBSET Types
            BY ONLY <3>1
          <6>3. m.deleting \in BOOLEAN
            BY ONLY <3>1
          <6> QED BY <6>1, <6>2, <6>3
        <5>2. m.at \notin CallLabels
          BY <3>1 DEF CallLabels, LinkLabels
        <5>3. {"todo", "n", "types", "deleting"} \subseteq DOMAIN m /\ "bundle" \in DOMAIN m
          BY <3>1
        <5> QED BY <5>1, <5>2, <5>3, <5>4, <5>5
      <4> QED BY <3>1, <4>1 DEF DispatchOK
    <3> QED BY <3>1, <3>2 DEF LocalsOK
  <2>4. ASSUME keep PROVE LocalsOK(k)
    <3>1. /\ DOMAIN k = {"at", "p", "todo", "n", "types", "deleting", "bundle", "rest"}
          /\ k.at = "project.delete" /\ k.rest = {} /\ k.p = p /\ k.todo = <<"deleted">> /\ k.n = 0
          /\ k.types = {} /\ k.deleting = FALSE /\ k.bundle = <<>>
      BY <2>4 DEF With
    <3> HIDE DEF k
    <3>2. DispatchOK(k)
      <4>1. k.todo \in Todos /\ BundleOK(k.bundle) /\ k.rest \in SUBSET Integrations
            /\ k.n \in Nat /\ k.types \in SUBSET Types
        BY <2>2, <3>1
      <4>2. k.at \notin CallLabels /\ k.at \notin ResolveLabels /\ k.at # "life.bundle"
        BY <3>1
      <4> QED BY <3>1, <4>1, <4>2 DEF DispatchOK
    <3> QED BY <3>1, <3>2 DEF LocalsOK
  <2>5. Begin(q, IF keep THEN k ELSE m)
    BY <2>1
  <2> HIDE DEF k, m
  <2> QED BY <1>b, <2>3, <2>4, <2>5
<1>6. CASE DeleteProjectNode(q)
  <2>1. l.at = "project.delete"
    BY <1>6 DEF DeleteProjectNode, At
  <2>2. /\ DispatchOK(l) /\ "p" \in DOMAIN l /\ l.p \in Projects
        /\ l.rest # {} => l.deleting
    BY <1>a, <2>1 DEF LocalsOK, DispatchOK
  <2>3. Written(prjLog, l.p).n[l.p] = prjLog.n[l.p] + 1 /\ prjLog.n[l.p] + 1 \in Nat
    BY <1>e, <2>2 DEF Written, TypeInv, PrjInv, PrjLogRecord
  <2> DEFINE n == prjLog.n[l.p] + 1
             m == [l EXCEPT !.at = "life.call", !.deleting = FALSE, !.n = n]
  <2>4. /\ Step(q, "project.delete", Idle) \/ Step(q, "project.delete", m)
    <3>1. CASE ~Reachable(l.p)
      BY <1>6, <3>1 DEF DeleteProjectNode, WaitP
    <3>2. CASE Reachable(l.p)
      <4>1. Step(q, "project.delete", IF l.rest = {} THEN Idle
                  ELSE [l EXCEPT !.at = "life.call", !.deleting = FALSE,
                                 !.n = Unscored(Written(prjLog, l.p), Bereft(l.p)).n[l.p]])
        BY Zenon, <1>6, <3>2 DEF DeleteProjectNode
      <4>2. Unscored(Written(prjLog, l.p), Bereft(l.p)).n = Written(prjLog, l.p).n
        BY DEF Unscored, Written, TypeInv, PrjInv, PrjLogRecord
      <4> QED BY <2>3, <4>1, <4>2
    <3> QED BY <3>1, <3>2
  <2>5. /\ DOMAIN m = DOMAIN l /\ m.at = "life.call" /\ m.deleting = FALSE /\ m.n = n
        /\ \A f \in DOMAIN l : f \notin {"at", "deleting", "n"} => m[f] = l[f]
    BY <1>a, <2>2 DEF DispatchOK
  <2> HIDE DEF m, n
  <2>6. DispatchOK(m)
    BY <2>1, <2>2, <2>3, <2>5 DEF DispatchOK, n
  <2>7. LocalsOK(m)
    BY <1>a, <2>2, <2>5, <2>6 DEF LocalsOK
  <2> QED BY <1>b, <1>c, <2>4, <2>7
<1>7. CASE CreateRelationship(q) \/ DeleteRelationship(q)
  <2>1. PICK s \in Projects : Begin(q, [at |-> "rel.policies", p |-> s])
    BY <1>7 DEF CreateRelationship, DeleteRelationship, Depend, TypeInv, PrjInv, PrjRecord
  <2>2. LocalsOK([at |-> "rel.policies", p |-> s])
    BY DEF LocalsOK
  <2> QED BY <1>b, <2>1, <2>2
<1>8. CASE ConditionPoliciesExist(q)
  <2> DEFINE m == To(q, "rel.queue")
  <2>1. l.at = "rel.policies" /\ (Step(q, "rel.policies", Idle) \/ Step(q, "rel.policies", m))
    BY <1>8 DEF ConditionPoliciesExist, WaitP, Step, At
  <2>2. DOMAIN m = DOMAIN l /\ m.at = "rel.queue" /\ \A f \in DOMAIN l : f # "at" => m[f] = l[f]
    BY <1>a DEF To
  <2> HIDE DEF m
  <2>3. LocalsOK(m)
    BY <1>a, <2>1, <2>2 DEF LocalsOK
  <2> QED BY <1>b, <1>c, <2>1, <2>3
<1>9. CASE EnqueueSource(q)
  BY <1>c, <1>9 DEF EnqueueSource
<1>10. ASSUME NEW p \in Projects, NEW i \in Integrations, NEW add \in BOOLEAN
       PROVE  LocalsOK(Link(p, i, add))
  BY DEF LocalsOK, Link
<1>11. CASE CreateProjectService(q)
  BY <1>b, <1>c, <1>10, <1>11 DEF CreateProjectService
<1>12. CASE UpdateProjectService(q) \/ DeleteProjectService(q)
  <2>1. PICK e \in igr.exists, add \in BOOLEAN : Begin(q, Link(e[1], e[2], add))
    BY <1>12 DEF UpdateProjectService, DeleteProjectService, LookP
  <2>2. e[1] \in Projects /\ e[2] \in Integrations
    BY DEF TypeInv, IgrInv, IgrRecord
  <2> QED BY <1>b, <1>10, <2>1, <2>2
<1>13. CASE ReplaceProjectIntegrations(q)
  <2>1. PICK p \in Projects, rows \in Rows : Begin(q, [at |-> "owned.list", p |-> p, rows |-> rows])
    BY <1>13 DEF ReplaceProjectIntegrations, LookP
  <2>2. rows \in SUBSET (Integrations \X Kinds)
    BY DEF Rows, Kinds
  <2>3. LocalsOK([at |-> "owned.list", p |-> p, rows |-> rows])
    BY <2>2 DEF LocalsOK
  <2> QED BY <1>b, <2>1, <2>3
<1>14. CASE ListAssigned(q)
  <2> DEFINE K == {e[3] : e \in {x \in igr.owned : x[1] = l.p}} \cup {r[2] : r \in l.rows}
             m == With(l, [at |-> "owned.check", kinds |-> K])
  <2>1. l.at = "owned.list" /\ Step(q, "owned.list", m)
    BY <1>14 DEF ListAssigned, WaitP, Step, At
  <2>2. K \in SUBSET Kinds
    BY <1>a, <2>1 DEF LocalsOK, TypeInv, IgrInv, IgrRecord
  <2>3. /\ DOMAIN m = DOMAIN l \cup {"at", "kinds"} /\ m.at = "owned.check" /\ m.kinds = K
        /\ \A f \in DOMAIN l : f \notin {"at", "kinds"} => m[f] = l[f]
    BY DEF With
  <2> HIDE DEF m, K
  <2>4. LocalsOK(m)
    BY <1>a, <2>1, <2>2, <2>3 DEF LocalsOK
  <2> QED BY <1>b, <2>1, <2>4
<1>15. CASE CheckAssigned(q)
  <2> DEFINE m == To(q, "owned.save")
  <2>1. l.at = "owned.check" /\ (Step(q, "owned.check", Idle) \/ Step(q, "owned.check", m))
    BY <1>15 DEF CheckAssigned, WaitP, Step, At
  <2>2. DOMAIN m = DOMAIN l /\ m.at = "owned.save" /\ \A f \in DOMAIN l : f # "at" => m[f] = l[f]
    BY <1>a DEF To
  <2> HIDE DEF m
  <2>3. LocalsOK(m)
    BY <1>a, <2>1, <2>2 DEF LocalsOK
  <2> QED BY <1>b, <1>c, <2>1, <2>3
<1>16. CASE ReplaceAssignments(q)
  <2>1. PICK k \in l.kinds :
          \/ Step(q, "owned.save", Idle)
          \/ Step(q, "owned.save", [l EXCEPT !.kinds = l.kinds \ {k}])
    BY <1>16 DEF ReplaceAssignments
  <2> DEFINE m == [l EXCEPT !.kinds = l.kinds \ {k}]
  <2>2. l.at = "owned.save"
    BY <1>16 DEF ReplaceAssignments, At
  <2>3. "kinds" \in DOMAIN l /\ l.kinds \in SUBSET Kinds
    BY <1>a, <2>2 DEF LocalsOK
  <2>4. DOMAIN m = DOMAIN l /\ m.kinds = l.kinds \ {k} /\ \A f \in DOMAIN l : f # "kinds" => m[f] = l[f]
    BY <2>3
  <2> HIDE DEF m
  <2>5. LocalsOK(m)
    BY <1>a, <2>2, <2>3, <2>4 DEF LocalsOK
  <2> QED BY <1>b, <1>c, <2>1, <2>5 DEF m
<1> HIDE DEF TellLabels, ResolvedLabels, ResolveLabels, LinkLabels, CallLabels, CreateLabels, PatchLabels,
             OwnedLabels, RelationLabels, HasEvents, HasProject, LoginLabels, TypedLabels, CredLabels,
             AppLabels, HasIntegration
<1> QED BY <1>1, <1>3, <1>4, <1>5, <1>6, <1>7, <1>8, <1>9, <1>11, <1>12, <1>13, <1>14, <1>15, <1>16

\* Whatever happens, one handler moves or none does.
LEMMA PoolStep ==
    ASSUME TypeInv, [Next]_projectVars
    PROVE  /\ PoolInv'
           /\ \/ req' = req
              \/ \E q \in Slots : req' = [req EXCEPT ![q] = req'[q]] /\ LocalsOK(req'[q])
<1>a. PoolInv
  BY DEF TypeInv
<1>1. ASSUME NEW q \in Slots, Goes(q)
      PROVE  PoolInv' /\ req' = [req EXCEPT ![q] = req'[q]] /\ LocalsOK(req'[q])
  BY <1>a, <1>1, OthersStay DEF Goes
<1>2. CASE ProjectsNext
  <2>1. PICK q \in Slots :
    \/ CreateProject(q) \/ PatchProject(q) \/ PatchProjectEnvironment(q)
    \/ ArchiveProject(q) \/ UnarchiveProject(q) \/ SyncProjectLifecycle(q) \/ DeleteProject(q)
    \/ CreateRelationship(q) \/ DeleteRelationship(q)
    \/ CreateProjectService(q) \/ UpdateProjectService(q) \/ DeleteProjectService(q)
    \/ ReplaceProjectIntegrations(q) \/ DeleteTeam(q) \/ DeleteProjectType(q) \/ DeleteEnvironment(q)
    \/ LifecycleStep(q) \/ ProjectsStep(q)
    BY <1>2 DEF ProjectsNext
  <2>2. CASE LifecycleStep(q)
    BY <1>1, <2>2, ResolvesGo, CallsGo DEF LifecycleStep
  <2>3. CASE ProjectsStep(q)
    BY <1>1, <2>3, WritesGo, OthersGo DEF ProjectsStep
  <2> QED BY <1>1, <2>1, <2>2, <2>3, WritesGo, OthersGo
<1>3. CASE IntegrationsNext
  BY <1>1, <1>3, IntegrationsGo
<1>4. CASE LoginTick \/ UNCHANGED projectVars
  BY <1>a, <1>4 DEF LoginTick, projectVars, pool, PoolInv
<1>5. ASSUME NEW q \in Slots, DieP(q)
      PROVE  PoolInv' /\ \E r \in Slots : req' = [req EXCEPT ![r] = req'[r]] /\ LocalsOK(req'[r])
  <2>1. /\ req' = [req EXCEPT ![q] = Idle] /\ DOMAIN req = Slots
        /\ faults < MaxFaults /\ faults' = faults + 1 /\ UNCHANGED <<begun, mix>>
    BY <1>a, <1>5 DEF DieP, Die, PoolInv
  <2> QED BY <1>1, <1>a, <2>1, FaultGoes, IdleOK
<1> QED BY <1>2, <1>3, <1>4, <1>5 DEF Next

-----------------------------------------------------------------------------
(* Who writes what.                                                        *)

IgrSaved(q) ==
  \/ CreateIntegration(q) \/ UpdateIntegrationSave(q) \/ DeleteIntegration(q)
  \/ ClearLogin(q) \/ WriteLogin(q) \/ WriteTypeAssignments(q) \/ UpdatePluginRegistration(q)
  \/ SaveCredentials(q) \/ GetLoginApp(q) \/ StoreLoginApp(q)
IgrTouched(q) ==
  \/ ResolveEdges(q) \/ ResolveEnabled(q) \/ WriteService(q) \/ DeleteProjectNode(q)
  \/ CreateProjectService(q) \/ DeleteProjectService(q) \/ ReplaceAssignments(q) \/ DeleteProjectType(q)
PrjSaved(q) ==
  \/ CreateProjectNode(q) \/ PatchProjectSave(q) \/ PatchProjectEnvironment(q)
  \/ ArchiveProject(q) \/ UnarchiveProject(q) \/ DeleteProjectNode(q)
  \/ CreateRelationship(q) \/ DeleteRelationship(q)
  \/ DeleteTeam(q) \/ DeleteProjectType(q) \/ DeleteEnvironment(q) \/ WriteLinks(q)
PrjTouched(q) ==
  \/ Rescore(q) \/ EnqueueDependents(q) \/ EnqueueSource(q) \/ LinksLost(q) \/ DieP(q)
  \/ ResolveEdges(q) \/ ResolveEnabled(q) \/ BundleReadFails(q) \/ CallPlugin(q) \/ CallFails(q)

\* The calls that begin with a read write nothing.
LEMMA BeginsOnly ==
    ASSUME NEW q \in Slots,
           \/ CreateProject(q) \/ PatchProject(q) \/ SyncProjectLifecycle(q) \/ DeleteProject(q)
           \/ UpdateProjectService(q) \/ ReplaceProjectIntegrations(q)
    PROVE  UNCHANGED <<igr, login, igrLog, prj, repo, prjLog>>
<1>a. ASSUME NEW next, LookP(q, next)
      PROVE  UNCHANGED <<igr, login, igrLog, prj, repo, prjLog>>
  BY <1>a DEF LookP
<1>1. CASE CreateProject(q)
  <2>1. \E next : LookP(q, next)
    BY Zenon, <1>1 DEF CreateProject
  <2> QED BY <1>a, <2>1
<1>2. CASE PatchProject(q) \/ SyncProjectLifecycle(q)
  <2>1. \E next : LookP(q, next)
    BY Zenon, <1>2 DEF PatchProject, SyncProjectLifecycle
  <2> QED BY <1>a, <2>1
<1>3. CASE DeleteProject(q)
  <2>1. \E next : LookP(q, next)
    BY Zenon, <1>3 DEF DeleteProject
  <2> QED BY <1>a, <2>1
<1>4. CASE UpdateProjectService(q) \/ ReplaceProjectIntegrations(q)
  <2>1. \E next : LookP(q, next)
    BY Zenon, <1>4 DEF UpdateProjectService, ReplaceProjectIntegrations
  <2> QED BY <1>a, <2>1
<1> QED BY <1>1, <1>2, <1>3, <1>4

\* A step leaves the integrations as they are, or is one of these.
LEMMA IgrMoves ==
    ASSUME [Next]_projectVars
    PROVE  \/ UNCHANGED <<igr, login, igrLog>>
           \/ LoginTick /\ UNCHANGED <<prj, repo, prjLog>>
           \/ \E q \in Slots : IgrTouched(q)
           \/ (\E q \in Slots : IgrSaved(q)) /\ UNCHANGED <<prj, repo>>
              /\ prjLog' = [prjLog EXCEPT !.apart = @ \cup (Projects \X Detached)]
<1>1. CASE ProjectsNext
  <2>1. PICK q \in Slots :
    \/ CreateProject(q) \/ PatchProject(q) \/ PatchProjectEnvironment(q)
    \/ ArchiveProject(q) \/ UnarchiveProject(q) \/ SyncProjectLifecycle(q) \/ DeleteProject(q)
    \/ CreateRelationship(q) \/ DeleteRelationship(q)
    \/ CreateProjectService(q) \/ UpdateProjectService(q) \/ DeleteProjectService(q)
    \/ ReplaceProjectIntegrations(q) \/ DeleteTeam(q) \/ DeleteProjectType(q) \/ DeleteEnvironment(q)
    \/ LifecycleStep(q) \/ ProjectsStep(q)
    BY <1>1 DEF ProjectsNext
  <2>2. CASE LifecycleStep(q)
    <3>1. CASE ResolveEdges(q) \/ ResolveEnabled(q) \/ WriteService(q)
      BY <3>1 DEF IgrTouched
    <3>2. CASE ResolveIntegrations(q) \/ ResolveAssigned(q) \/ ReadBundle(q) \/ ReadLinks(q)
      BY <3>2 DEF ResolveIntegrations, ResolveAssigned, ReadBundle, ReadLinks, WaitP
    <3>3. CASE BundleReadFails(q) \/ LinksLost(q) \/ CallFails(q)
      BY <3>3 DEF BundleReadFails, LinksLost, CallFails, IgrSame
    <3>4. CASE CallPlugin(q)
      BY <3>4 DEF CallPlugin, IgrSame
    <3>5. CASE WriteLinks(q)
      BY <3>5 DEF WriteLinks, IgrSame
    <3> QED BY <2>2, <3>1, <3>2, <3>3, <3>4, <3>5 DEF LifecycleStep
  <2>3. CASE ProjectsStep(q)
    <3>1. CASE DeleteProjectNode(q) \/ ReplaceAssignments(q)
      BY <3>1 DEF IgrTouched
    <3>2. CASE ValidateEnvs(q) \/ CheckPatch(q) \/ FindDependents(q) \/ Tell(q) \/ ConditionPoliciesExist(q)
               \/ ListAssigned(q) \/ CheckAssigned(q)
      BY <3>2 DEF ValidateEnvs, CheckPatch, FindDependents, Tell, ConditionPoliciesExist,
                  ListAssigned, CheckAssigned, WaitP
    <3>3. CASE CreateProjectNode(q)
      BY <3>3 DEF CreateProjectNode, WaitP, IgrSame
    <3>4. CASE PatchProjectSave(q)
      BY <3>4 DEF PatchProjectSave, WaitP, IgrSame
    <3>5. CASE Rescore(q) \/ EnqueueDependents(q) \/ EnqueueSource(q)
      BY <3>5 DEF Rescore, EnqueueDependents, EnqueueSource, IgrSame
    <3> QED BY <2>3, <3>1, <3>2, <3>3, <3>4, <3>5 DEF ProjectsStep
  <2>4. CASE CreateProject(q) \/ PatchProject(q) \/ SyncProjectLifecycle(q) \/ DeleteProject(q)
             \/ UpdateProjectService(q) \/ ReplaceProjectIntegrations(q)
    BY <2>4, BeginsOnly
  <2>5. CASE PatchProjectEnvironment(q) \/ ArchiveProject(q) \/ UnarchiveProject(q)
             \/ CreateRelationship(q) \/ DeleteRelationship(q) \/ DeleteTeam(q) \/ DeleteEnvironment(q)
    <3>1. CASE PatchProjectEnvironment(q)
      BY Zenon, <3>1 DEF PatchProjectEnvironment, IgrSame
    <3>2. CASE ArchiveProject(q) \/ UnarchiveProject(q)
      BY Zenon, <3>2 DEF ArchiveProject, UnarchiveProject, SetArchivedState, IgrSame
    <3>3. CASE CreateRelationship(q) \/ DeleteRelationship(q)
      BY Zenon, <3>3 DEF CreateRelationship, DeleteRelationship, Depend, IgrSame
    <3>4. CASE DeleteTeam(q) \/ DeleteEnvironment(q)
      BY Zenon, <3>4 DEF DeleteTeam, DeleteEnvironment, IgrSame
    <3> QED BY <2>5, <3>1, <3>2, <3>3, <3>4
  <2>6. CASE CreateProjectService(q) \/ DeleteProjectService(q) \/ DeleteProjectType(q)
    BY <2>6 DEF IgrTouched
  <2> QED BY <2>1, <2>2, <2>3, <2>4, <2>5, <2>6
<1>2. CASE /\ IntegrationsNext
           /\ prjLog' = [prjLog EXCEPT !.apart = @ \cup (Projects \X Detached)]
           /\ UNCHANGED <<prj, repo>>
  <2>1. PICK q \in Slots : \/ IntegrationCalls(q) \/ UpdateIntegration(q) \/ SetLoginProvider(q)
                           \/ GetLoginApp(q) \/ PutCredentials(q) \/ IntegrationsStep(q)
    BY <1>2 DEF IntegrationsNext
  <2>2. CASE UpdateIntegration(q) \/ SetLoginProvider(q) \/ PutCredentials(q) \/ ReplaceTypeAssignments(q)
             \/ CheckTypes(q) \/ ReadCredentials(q) \/ FetchLoginApp(q)
    BY <2>2 DEF UpdateIntegration, SetLoginProvider, PutCredentials, ReplaceTypeAssignments, CheckTypes,
                ReadCredentials, FetchLoginApp, LookI, WaitI
  <2> QED BY <1>2, <2>1, <2>2 DEF IntegrationCalls, IntegrationsStep, IgrSaved
<1>3. CASE \E q \in Slots : DieP(q)
  BY <1>3 DEF DieP, IgrSame
<1>4. CASE UNCHANGED projectVars
  BY <1>4 DEF projectVars
<1> QED BY <1>1, <1>2, <1>3, <1>4 DEF Next

\* A step leaves the projects as they are, or is one of these.
LEMMA PrjMoves ==
    ASSUME [Next]_projectVars
    PROVE  \/ UNCHANGED <<prj, repo, prjLog>>
           \/ \E q \in Slots : PrjSaved(q) \/ PrjTouched(q)
           \/ IntegrationsNext /\ UNCHANGED <<prj, repo>>
              /\ prjLog' = [prjLog EXCEPT !.apart = @ \cup (Projects \X Detached)]
<1>1. CASE ProjectsNext
  <2>1. PICK q \in Slots :
    \/ CreateProject(q) \/ PatchProject(q) \/ PatchProjectEnvironment(q)
    \/ ArchiveProject(q) \/ UnarchiveProject(q) \/ SyncProjectLifecycle(q) \/ DeleteProject(q)
    \/ CreateRelationship(q) \/ DeleteRelationship(q)
    \/ CreateProjectService(q) \/ UpdateProjectService(q) \/ DeleteProjectService(q)
    \/ ReplaceProjectIntegrations(q) \/ DeleteTeam(q) \/ DeleteProjectType(q) \/ DeleteEnvironment(q)
    \/ LifecycleStep(q) \/ ProjectsStep(q)
    BY <1>1 DEF ProjectsNext
  <2>2. CASE LifecycleStep(q)
    <3>1. CASE ResolveIntegrations(q) \/ ResolveAssigned(q) \/ ReadBundle(q) \/ ReadLinks(q) \/ WriteService(q)
      BY <3>1 DEF ResolveIntegrations, ResolveAssigned, ReadBundle, ReadLinks, WriteService, WaitP
    <3> QED BY <2>2, <3>1 DEF LifecycleStep, PrjSaved, PrjTouched
  <2>3. CASE ProjectsStep(q)
    <3>1. CASE ValidateEnvs(q) \/ CheckPatch(q) \/ FindDependents(q) \/ Tell(q) \/ ConditionPoliciesExist(q)
               \/ ListAssigned(q) \/ CheckAssigned(q)
      BY <3>1 DEF ValidateEnvs, CheckPatch, FindDependents, Tell, ConditionPoliciesExist,
                  ListAssigned, CheckAssigned, WaitP
    <3>2. CASE ReplaceAssignments(q)
      BY <3>2 DEF ReplaceAssignments
    <3> QED BY <2>3, <3>1, <3>2 DEF ProjectsStep, PrjSaved, PrjTouched
  <2>4. CASE CreateProject(q) \/ PatchProject(q) \/ SyncProjectLifecycle(q) \/ DeleteProject(q)
             \/ UpdateProjectService(q) \/ ReplaceProjectIntegrations(q)
    BY <2>4, BeginsOnly
  <2>5. CASE CreateProjectService(q) \/ DeleteProjectService(q)
    BY <2>5 DEF CreateProjectService, DeleteProjectService
  <2> QED BY <2>1, <2>2, <2>3, <2>4, <2>5 DEF PrjSaved
<1>2. CASE LoginTick /\ UNCHANGED <<prj, repo, prjLog>>
  BY <1>2
<1>3. CASE \E q \in Slots : DieP(q)
  BY <1>3 DEF PrjTouched
<1>4. CASE UNCHANGED projectVars
  BY <1>4 DEF projectVars
<1> QED BY <1>1, <1>2, <1>3, <1>4 DEF Next

-----------------------------------------------------------------------------
(* Type correctness.                                                       *)

LEMMA TearTypes ==
    ASSUME IgrInv, NEW S \in SUBSET Integrations
    PROVE  /\ Tear(igrLog, S) \in IgrLogRecord
           /\ Tear(igrLog, S).torn = igrLog.torn \cup (Resolving \X S)
           /\ \A f \in {"caps", "creds", "stale", "raced", "missed", "badSince", "overdue"} :
                Tear(igrLog, S)[f] = igrLog[f]
BY DEF IgrInv, Tear, IgrLogRecord, Resolving

LEMMA CeasesTypes ==
    ASSUME IgrInv, NEW i \in Integrations
    PROVE  Ceases(i) \in Nat
BY IntegrationsAssumption DEF IgrInv, IgrLogRecord, LoginRecord, Ceases

LEMMA ToggledTypes ==
    ASSUME NEW S, NEW T \in SUBSET S, NEW k \in S, NEW on \in BOOLEAN
    PROVE  Toggled(T, k, on) \in SUBSET S
BY DEF Toggled

\* A write of the nodes that leaves alone which of them are there.
LEMMA NodesBecome ==
    ASSUME igr \in IgrRecord, NEW nodes \in [Integrations -> IntegrationRecord],
           igr' = [igr EXCEPT !.node = nodes]
    PROVE  igr' \in IgrRecord /\ igr'.node = nodes
BY DEF IgrRecord

LEMMA IgrSavedTyped ==
    ASSUME TypeInv, NEW q \in Slots, IgrSaved(q)
    PROVE  IgrInv'
<1> DEFINE l == req[q]
<1>a. IgrInv /\ LocalsOK(l)
  BY DEF TypeInv, PoolInv
<1>b. /\ igr \in IgrRecord /\ login \in LoginRecord /\ igrLog \in IgrLogRecord
      /\ \A i \in Integrations : igr.node[i] \in IntegrationRecord
  BY <1>a DEF IgrInv, IgrRecord
<1>1. CASE CreateIntegration(q)
  <2>1. PICK i \in Integrations, caps \in SUBSET Kinds :
          /\ igr' = [igr EXCEPT !.node[i] = Installed(caps)]
          /\ igrLog' = [Tear(igrLog, {i}) EXCEPT !.caps[i] = caps, !.creds[i] = {}, !.stale = @ \ {i}]
          /\ UNCHANGED login
    BY <1>1 DEF CreateIntegration
  <2>2. Installed(caps) \in IntegrationRecord /\ Installed(caps).there
    BY DEF Installed, IntegrationRecord
  <2>3. igr' \in IgrRecord /\ \A j \in Integrations : Here(j) => Here(j)'
    BY <1>b, <2>1, <2>2 DEF IgrRecord, Here
  <2>4. igrLog' \in IgrLogRecord
    <3> DEFINE L == Tear(igrLog, {i})
    <3>1. L \in IgrLogRecord /\ igrLog' = [L EXCEPT !.caps[i] = caps, !.creds[i] = {}, !.stale = @ \ {i}]
      BY <1>a, <2>1, TearTypes
    <3> HIDE DEF L
    <3> QED BY <3>1 DEF IgrLogRecord
  <2>5. igr'.typed = igr.typed /\ igr'.type = igr.type /\ igr'.owned = igr.owned /\ igr'.exists = igr.exists
    BY <1>b, <2>1 DEF IgrRecord
  <2> QED BY <1>a, <1>b, <2>1, <2>3, <2>4, <2>5 DEF IgrInv, IgrRecord
<1>2. CASE UpdateIntegrationSave(q)
  <2>1. l.at = "int.save"
    BY <1>2 DEF UpdateIntegrationSave, At
  <2>2. l.i \in Integrations /\ l.read \in SUBSET Kinds
    BY <1>a, <2>1 DEF LocalsOK, HasIntegration
  <2>3. CASE UNCHANGED <<igr, login, igrLog>>
    BY <1>a, <2>3 DEF IgrInv, Here
  <2>4. ASSUME NEW k \in Kinds, NEW on \in BOOLEAN,
               /\ igr' = [igr EXCEPT !.node[l.i].caps = Toggled(l.read, k, on)]
               /\ igrLog' = [Tear(igrLog, {l.i}) EXCEPT
                    !.caps[l.i] = Toggled(@, k, on),
                    !.stale = IF igr.node[l.i].caps = l.read THEN @ ELSE @ \cup {l.i},
                    !.badSince[l.i] = Ceases(l.i)]
               /\ UNCHANGED login
        PROVE  IgrInv'
    <3>1. /\ Toggled(l.read, k, on) \in SUBSET Kinds /\ Toggled(igrLog.caps[l.i], k, on) \in SUBSET Kinds
          /\ Ceases(l.i) \in Nat
      BY <1>a, <1>b, <2>2, ToggledTypes, CeasesTypes DEF IgrLogRecord
    <3>2. igr' \in IgrRecord /\ \A j \in Integrations : Here(j)' = Here(j)
      <4> DEFINE T == Toggled(l.read, k, on)
                 nodes == [igr.node EXCEPT ![l.i].caps = T]
      <4>1. T \in SUBSET Kinds
        BY <3>1
      <4> HIDE DEF T
      <4>2. nodes \in [Integrations -> IntegrationRecord]
        BY <1>b, <2>2, <4>1 DEF IgrRecord, IntegrationRecord
      <4>3. \A j \in Integrations : nodes[j].there = igr.node[j].there
        BY <1>b DEF IgrRecord, IntegrationRecord
      <4>4. igr' = [igr EXCEPT !.node = nodes]
        BY <1>b, <2>4 DEF IgrRecord, T
      <4> HIDE DEF nodes
      <4>5. igr' \in IgrRecord /\ igr'.node = nodes
        BY <1>b, <4>2, <4>4, NodesBecome
      <4> QED BY <4>3, <4>5 DEF Here
    <3>3. igrLog' \in IgrLogRecord
      <4> DEFINE L == Tear(igrLog, {l.i})
                 c == Toggled(igrLog.caps[l.i], k, on)
                 b == Ceases(l.i)
                 s == IF igr.node[l.i].caps = l.read THEN igrLog.stale ELSE igrLog.stale \cup {l.i}
      <4>1. L \in IgrLogRecord /\ L.caps = igrLog.caps /\ L.stale = igrLog.stale
        BY <1>a, <2>2, TearTypes
      <4>2. igrLog' = [L EXCEPT !.caps[l.i] = c, !.stale = s, !.badSince[l.i] = b]
        BY <2>4, <4>1
      <4>3. c \in SUBSET Kinds /\ b \in Nat /\ s \in SUBSET Integrations
        BY <1>b, <2>2, <3>1 DEF IgrLogRecord
      <4> HIDE DEF L, c, b, s
      <4> QED BY <2>2, <4>1, <4>2, <4>3 DEF IgrLogRecord
    <3>4. igr'.typed = igr.typed /\ igr'.type = igr.type /\ igr'.owned = igr.owned /\ igr'.exists = igr.exists
      BY <1>b, <2>4 DEF IgrRecord
    <3> QED BY <1>a, <1>b, <2>4, <3>2, <3>3, <3>4 DEF IgrInv, IgrRecord
  <2>5. CASE ~Here(l.i)
    BY <1>2, <2>3, <2>5 DEF UpdateIntegrationSave, WaitI
  <2>6. CASE Here(l.i)
    BY <1>2, <2>4, <2>6 DEF UpdateIntegrationSave
  <2> QED BY <2>5, <2>6
<1>3. CASE DeleteIntegration(q)
  <2>1. PICK i \in Integrations :
          /\ igr' = [igr EXCEPT !.node[i] = NoIntegration,
                                !.typed = {e \in @ : e[2] # i},
                                !.owned = {e \in @ : e[2] # i},
                                !.exists = {e \in @ : e[2] # i}]
          /\ igrLog' = [Tear(igrLog, {i}) EXCEPT
               !.caps[i] = {}, !.creds[i] = {}, !.stale = @ \ {i}, !.badSince[i] = Ceases(i)]
          /\ UNCHANGED login
    BY <1>3 DEF DeleteIntegration
  <2>2. NoIntegration \in IntegrationRecord
    BY DEF NoIntegration, IntegrationRecord
  <2>3. igr' \in IgrRecord /\ \A j \in Integrations : Here(j) /\ j # i => Here(j)'
    BY <1>b, <2>1, <2>2 DEF IgrRecord, Here
  <2>4. igrLog' \in IgrLogRecord
    <3> DEFINE L == Tear(igrLog, {i})
               b == Ceases(i)
    <3>1. /\ L \in IgrLogRecord /\ b \in Nat
          /\ igrLog' = [L EXCEPT !.caps[i] = {}, !.creds[i] = {}, !.stale = @ \ {i}, !.badSince[i] = b]
      BY <1>a, <2>1, TearTypes, CeasesTypes
    <3> HIDE DEF L, b
    <3> QED BY <3>1 DEF IgrLogRecord
  <2>5. /\ igr'.typed = {e \in igr.typed : e[2] # i} /\ igr'.type = igr.type
        /\ igr'.owned = {e \in igr.owned : e[2] # i} /\ igr'.exists = {e \in igr.exists : e[2] # i}
    BY <1>b, <2>1 DEF IgrRecord
  <2> QED BY <1>a, <1>b, <2>1, <2>3, <2>4, <2>5 DEF IgrInv, IgrRecord
<1>4. CASE ClearLogin(q)
  <2>1. /\ igr' = [igr EXCEPT !.node = [i \in Integrations |->
               [igr.node[i] EXCEPT !.login = IF i = l.i THEN @ ELSE FALSE]]]
        /\ igrLog' = [igrLog EXCEPT !.badSince = [i \in Integrations |->
                  IF i = l.i THEN igrLog.badSince[i] ELSE Ceases(i)]]
        /\ UNCHANGED login
    BY <1>4 DEF ClearLogin
  <2>2. igr' \in IgrRecord /\ \A j \in Integrations : Here(j) => Here(j)'
    <3> DEFINE nodes == [i \in Integrations |-> [igr.node[i] EXCEPT !.login = IF i = l.i THEN @ ELSE FALSE]]
    <3>1. ASSUME NEW i \in Integrations
          PROVE  nodes[i] \in IntegrationRecord /\ nodes[i].there = igr.node[i].there
      <4>1. PICK b \in BOOLEAN : nodes[i] = [igr.node[i] EXCEPT !.login = b]
        BY <1>b DEF IntegrationRecord
      <4> HIDE DEF nodes
      <4> QED BY <1>b, <4>1 DEF IntegrationRecord
    <3>2. igr' = [igr EXCEPT !.node = nodes] /\ nodes \in [Integrations -> IntegrationRecord]
      BY <2>1, <3>1
    <3> HIDE DEF nodes
    <3>3. igr' \in IgrRecord /\ igr'.node = nodes
      BY <1>b, <3>2, NodesBecome
    <3> QED BY <3>1, <3>3 DEF Here
  <2>3. igrLog' \in IgrLogRecord
    BY <1>a, <1>b, <2>1, CeasesTypes DEF IgrLogRecord
  <2>4. igr'.typed = igr.typed /\ igr'.type = igr.type /\ igr'.owned = igr.owned /\ igr'.exists = igr.exists
    BY <1>b, <2>1 DEF IgrRecord
  <2> QED BY <1>a, <1>b, <2>1, <2>2, <2>3, <2>4 DEF IgrInv, IgrRecord
<1>5. CASE WriteLogin(q)
  <2>1. /\ igr' = [igr EXCEPT !.node[l.i].login = Here(l.i) /\ l.on]
        /\ login' = [login EXCEPT !.cache = {}]
        /\ igrLog' = [igrLog EXCEPT
             !.raced = @ \/ \E o \in Slots \ {q} : req[o].at \in {"login.clear", "login.set"},
             !.badSince[l.i] = Ceases(l.i)]
        /\ l.at = "login.set"
    BY <1>5 DEF WriteLogin, Step, At
  <2>2. l.i \in Integrations /\ l.on \in BOOLEAN
    BY <1>a, <2>1 DEF LocalsOK, HasIntegration, LoginLabels
  <2>3. igr' \in IgrRecord /\ \A j \in Integrations : Here(j) => Here(j)'
    <3> DEFINE v == Here(l.i) /\ l.on
    <3>1. v \in BOOLEAN /\ igr' = [igr EXCEPT !.node[l.i].login = v]
      BY <2>1
    <3> HIDE DEF v
    <3>2. igr' = [igr EXCEPT !.node = [@ EXCEPT ![l.i] = [igr.node[l.i] EXCEPT !.login = v]]]
      BY <1>b, <2>2, <3>1 DEF IgrRecord
    <3>3. [igr.node[l.i] EXCEPT !.login = v] \in IntegrationRecord
          /\ [igr.node[l.i] EXCEPT !.login = v].there = Here(l.i)
      BY <1>b, <2>2, <3>1 DEF IntegrationRecord, Here
    <3> QED BY <1>b, <2>2, <3>2, <3>3 DEF IgrRecord, Here
  <2>4. igrLog' \in IgrLogRecord /\ login' \in LoginRecord
    BY <1>a, <1>b, <2>1, <2>2, CeasesTypes DEF IgrLogRecord, LoginRecord
  <2>5. igr'.typed = igr.typed /\ igr'.type = igr.type /\ igr'.owned = igr.owned /\ igr'.exists = igr.exists
    BY <1>b, <2>1 DEF IgrRecord
  <2> QED BY <1>a, <1>b, <2>1, <2>3, <2>4, <2>5 DEF IgrInv, IgrRecord
<1>6. CASE WriteTypeAssignments(q)
  <2>1. /\ igr' = IF ~Here(l.i) THEN igr
                  ELSE [igr EXCEPT !.typed = {e \in @ : e[2] # l.i} \cup ((l.types \cap igr.type) \X {l.i})]
        /\ igrLog' = Tear(igrLog, {l.i}) /\ UNCHANGED login /\ l.at = "typed.save"
    BY <1>6 DEF WriteTypeAssignments, Step, At
  <2>2. l.i \in Integrations /\ l.types \in SUBSET Types
    BY <1>a, <2>1 DEF LocalsOK, HasIntegration, TypedLabels
  <2>3. igr' \in IgrRecord /\ igrLog' \in IgrLogRecord
    BY <1>a, <1>b, <2>1, <2>2, TearTypes DEF IgrRecord
  <2>4. /\ igr'.node = igr.node /\ igr'.type = igr.type /\ igr'.owned = igr.owned /\ igr'.exists = igr.exists
        /\ \A e \in igr'.typed : e \in igr.typed \/ (e[1] \in igr.type /\ e[2] = l.i /\ Here(l.i))
    BY <1>b, <2>1 DEF IgrRecord
  <2> QED BY <1>a, <1>b, <2>1, <2>3, <2>4 DEF IgrInv, IgrRecord, Here
<1>7. CASE UpdatePluginRegistration(q)
  <2>1. PICK on \in BOOLEAN : /\ igr' = [igr EXCEPT !.on = on]
                              /\ igrLog' = Tear(igrLog, Integrations) /\ UNCHANGED login
    BY <1>7 DEF UpdatePluginRegistration
  <2>2. igr' \in IgrRecord /\ igrLog' \in IgrLogRecord
    BY <1>a, <1>b, <2>1, TearTypes DEF IgrRecord
  <2>3. /\ igr'.node = igr.node /\ igr'.type = igr.type /\ igr'.typed = igr.typed
        /\ igr'.owned = igr.owned /\ igr'.exists = igr.exists
    BY <1>b, <2>1 DEF IgrRecord
  <2> QED BY <1>a, <1>b, <2>1, <2>2, <2>3 DEF IgrInv, Here
<1>8. CASE SaveCredentials(q)
  <2>1. l.at = "cred.save"
    BY <1>8 DEF SaveCredentials, At
  <2>2. l.i \in Integrations /\ l.read \in SUBSET Fields /\ l.f \in Fields /\ l.on \in BOOLEAN
    BY <1>a, <2>1 DEF LocalsOK, HasIntegration, CredLabels
  <2>3. CASE UNCHANGED <<igr, login, igrLog>>
    BY <1>a, <2>3 DEF IgrInv, Here
  <2>4. CASE /\ igr' = [igr EXCEPT !.node[l.i].creds = Toggled(l.read, l.f, l.on)]
             /\ igrLog' = [igrLog EXCEPT !.creds[l.i] = Toggled(@, l.f, l.on)]
             /\ UNCHANGED login
    <3>1. Toggled(l.read, l.f, l.on) \in SUBSET Fields /\ Toggled(igrLog.creds[l.i], l.f, l.on) \in SUBSET Fields
      BY <1>a, <1>b, <2>2, ToggledTypes DEF IgrLogRecord
    <3>2. igr' \in IgrRecord /\ \A j \in Integrations : Here(j)' = Here(j)
      <4> DEFINE T == Toggled(l.read, l.f, l.on)
                 nodes == [igr.node EXCEPT ![l.i].creds = T]
      <4>1. T \in SUBSET Fields
        BY <3>1
      <4> HIDE DEF T
      <4>2. nodes \in [Integrations -> IntegrationRecord]
        BY <1>b, <2>2, <4>1 DEF IgrRecord, IntegrationRecord
      <4>3. \A j \in Integrations : nodes[j].there = igr.node[j].there
        BY <1>b DEF IgrRecord, IntegrationRecord
      <4>4. igr' = [igr EXCEPT !.node = nodes]
        BY <1>b, <2>4 DEF IgrRecord, T
      <4> HIDE DEF nodes
      <4>5. igr' \in IgrRecord /\ igr'.node = nodes
        BY <1>b, <4>2, <4>4, NodesBecome
      <4> QED BY <4>3, <4>5 DEF Here
    <3>3. igrLog' \in IgrLogRecord
      BY <1>b, <2>2, <2>4, <3>1 DEF IgrLogRecord
    <3>4. igr'.typed = igr.typed /\ igr'.type = igr.type /\ igr'.owned = igr.owned /\ igr'.exists = igr.exists
      BY <1>b, <2>4 DEF IgrRecord
    <3> QED BY <1>a, <1>b, <2>4, <3>2, <3>3, <3>4 DEF IgrInv, IgrRecord
  <2> QED BY <1>8, <2>3, <2>4 DEF SaveCredentials, WaitI
<1>9. CASE GetLoginApp(q)
  <2>1. CASE UNCHANGED <<igr, login, igrLog>>
    BY <1>a, <2>1 DEF IgrInv, Here
  <2>2. CASE \E i \in Integrations : Served(i) /\ UNCHANGED <<igr, login>>
    <3>1. igrLog' \in IgrLogRecord
      BY <1>b, <2>2 DEF Served, IgrLogRecord
    <3> QED BY <1>a, <2>2, <3>1 DEF IgrInv, Here
  <2> QED BY <1>9, <2>1, <2>2 DEF GetLoginApp, LookI
<1>10. CASE StoreLoginApp(q)
  <2>1. /\ login' = [login EXCEPT !.cache = {e \in @ : e.i # l.i} \cup {[i |-> l.i, at |-> l.now]}]
        /\ UNCHANGED <<igr, igrLog>> /\ l.at = "app.store"
    BY <1>10 DEF StoreLoginApp, Step, At
  <2>2. l.i \in Integrations /\ l.now \in Nat
    BY <1>a, <2>1 DEF LocalsOK, HasIntegration, AppLabels
  <2>3. login' \in LoginRecord
    BY <1>b, <2>1, <2>2 DEF LoginRecord
  <2> QED BY <1>a, <2>1, <2>3 DEF IgrInv, Here
<1> QED BY <1>1, <1>2, <1>3, <1>4, <1>5, <1>6, <1>7, <1>8, <1>9, <1>10 DEF IgrSaved

LEMMA IgrTouchedTyped ==
    ASSUME TypeInv, NEW q \in Slots, IgrTouched(q)
    PROVE  IgrInv'
<1> DEFINE l == req[q]
<1>a. IgrInv /\ LocalsOK(l)
  BY DEF TypeInv, PoolInv
<1>b. /\ igr \in IgrRecord /\ login \in LoginRecord /\ igrLog \in IgrLogRecord
      /\ \A i \in Integrations : igr.node[i] \in IntegrationRecord
  BY <1>a DEF IgrInv, IgrRecord
<1>c. ASSUME igrLog' \in IgrLogRecord, UNCHANGED <<igr, login>>
      PROVE  IgrInv'
  BY <1>a, <1>c DEF IgrInv, Here
<1>d. ASSUME NEW owned \in SUBSET igr.owned, NEW exists \in SUBSET igr.exists,
             igr' = [igr EXCEPT !.owned = owned, !.exists = exists], UNCHANGED <<login, igrLog>>
      PROVE  IgrInv'
  <2>1. igr' \in IgrRecord /\ igr'.node = igr.node /\ igr'.type = igr.type /\ igr'.typed = igr.typed
        /\ igr'.owned = owned /\ igr'.exists = exists
    BY <1>b, <1>d DEF IgrRecord
  <2> QED BY <1>a, <1>d, <2>1 DEF IgrInv, Here
<1>e. ASSUME NEW p \in Projects, NEW i \in Integrations, Here(i),
             igr' = [igr EXCEPT !.exists = @ \cup {<<p, i>>}], UNCHANGED <<login, igrLog>>
      PROVE  IgrInv'
  <2>1. igr' \in IgrRecord /\ igr'.node = igr.node /\ igr'.type = igr.type /\ igr'.typed = igr.typed
        /\ igr'.owned = igr.owned /\ igr'.exists = igr.exists \cup {<<p, i>>}
    BY <1>b, <1>e DEF IgrRecord
  <2> QED BY <1>a, <1>e, <2>1 DEF IgrInv, Here
<1>1. CASE ResolveEdges(q)
  <2>1. /\ UNCHANGED <<igr, login>>
        /\ igrLog' = igrLog \/ igrLog' = [igrLog EXCEPT !.torn = {x \in @ : x[1] # q}]
    BY <1>1 DEF ResolveEdges, Unheard, IgrSame
  <2> QED BY <1>b, <1>c, <2>1 DEF IgrLogRecord
<1>2. CASE ResolveEnabled(q)
  <2>1. PICK S \in SUBSET Integrations :
          UNCHANGED <<igr, login>> /\ igrLog' = [igrLog EXCEPT !.missed = @ \cup S]
    <3> DEFINE S == {i \in (l.had \cap Effective(l.p)) \ (IF igr.on THEN l.bound ELSE {}) :
                       <<q, i>> \notin igrLog.torn}
    <3>1. S \in SUBSET Integrations
      BY DEF Effective, Bound
    <3>2. UNCHANGED <<igr, login>> /\ igrLog' = [igrLog EXCEPT !.missed = @ \cup S]
      BY <1>2 DEF ResolveEnabled
    <3> QED BY <3>1, <3>2
  <2> QED BY <1>b, <1>c, <2>1 DEF IgrLogRecord
<1>3. CASE WriteService(q)
  <2>1. /\ igr' = IF Reachable(l.p) /\ Here(l.i) THEN [igr EXCEPT !.exists = @ \cup {<<l.p, l.i>>}] ELSE igr
        /\ UNCHANGED <<login, igrLog>> /\ l.at = "life.service"
    BY <1>3 DEF WriteService, Step, At
  <2>2. l.p \in Projects /\ l.i \in Integrations
    BY <1>a, <2>1 DEF LocalsOK, HasIntegration, HasProject, HasEvents, CallLabels
  <2>3. CASE Reachable(l.p) /\ Here(l.i)
    BY <1>e, <2>1, <2>2, <2>3
  <2>4. CASE ~(Reachable(l.p) /\ Here(l.i))
    BY <1>b, <1>c, <2>1, <2>4
  <2> QED BY <2>3, <2>4
<1>4. CASE DeleteProjectNode(q)
  <2>1. CASE UNCHANGED <<igr, login, igrLog>>
    BY <1>b, <1>c, <2>1
  <2>2. CASE /\ igr' = [igr EXCEPT !.owned = {e \in @ : e[1] # l.p}, !.exists = {e \in @ : e[1] # l.p}]
             /\ UNCHANGED <<login, igrLog>>
    <3> DEFINE owned == {e \in igr.owned : e[1] # l.p}
               exists == {e \in igr.exists : e[1] # l.p}
    <3>1. owned \in SUBSET igr.owned /\ exists \in SUBSET igr.exists
      OBVIOUS
    <3>2. igr' = [igr EXCEPT !.owned = owned, !.exists = exists] /\ UNCHANGED <<login, igrLog>>
      BY <2>2
    <3> HIDE DEF owned, exists
    <3> QED BY <1>d, <3>1, <3>2
  <2> QED BY <1>4, <2>1, <2>2 DEF DeleteProjectNode, WaitP
<1>5. CASE CreateProjectService(q)
  BY <1>e, <1>5 DEF CreateProjectService
<1>6. CASE DeleteProjectService(q)
  <2>1. PICK e \in igr.exists : igr' = [igr EXCEPT !.exists = @ \ {e}] /\ UNCHANGED <<login, igrLog>>
    BY <1>6 DEF DeleteProjectService
  <2>2. igr' = [igr EXCEPT !.owned = igr.owned, !.exists = igr.exists \ {e}]
    BY <1>b, <2>1 DEF IgrRecord
  <2> QED BY <1>d, <2>1, <2>2
<1>7. CASE ReplaceAssignments(q)
  <2>0. l.at = "owned.save"
    BY <1>7 DEF ReplaceAssignments, At
  <2>1. PICK k \in l.kinds :
          /\ UNCHANGED <<login, igrLog>>
          /\ igr' = IF ~Reachable(l.p) THEN igr
                    ELSE [igr EXCEPT !.owned = {e \in @ : e[1] # l.p \/ e[3] # k}
                            \cup {<<l.p, r[1], k>> : r \in {x \in l.rows : x[2] = k /\ Here(x[1])}}]
    BY <1>7 DEF ReplaceAssignments
  <2>2. l.p \in Projects /\ l.rows \in SUBSET (Integrations \X Kinds) /\ l.kinds \in SUBSET Kinds
    BY <1>a, <2>0 DEF LocalsOK, HasProject, OwnedLabels
  <2>3. CASE Reachable(l.p)
    <3> DEFINE O == {e \in igr.owned : e[1] # l.p \/ e[3] # k}
                     \cup {<<l.p, r[1], k>> : r \in {x \in l.rows : x[2] = k /\ Here(x[1])}}
    <3>1. \A e \in O : e \in igr.owned \/ (e \in Projects \X Integrations \X Kinds /\ Here(e[2]))
      BY <2>1, <2>2
    <3>2. O \in SUBSET (Projects \X Integrations \X Kinds)
      BY <1>b, <3>1 DEF IgrRecord
    <3>3. igr' = [igr EXCEPT !.owned = O]
      BY <2>1, <2>3
    <3> HIDE DEF O
    <3>4. igr' \in IgrRecord /\ igr'.node = igr.node /\ igr'.type = igr.type /\ igr'.typed = igr.typed
          /\ igr'.owned = O /\ igr'.exists = igr.exists
      BY <1>b, <3>2, <3>3 DEF IgrRecord
    <3> QED BY <1>a, <2>1, <3>1, <3>4 DEF IgrInv, Here
  <2>4. CASE ~Reachable(l.p)
    BY <1>b, <1>c, <2>1, <2>4
  <2> QED BY <2>3, <2>4
<1>8. CASE DeleteProjectType(q)
  <2>1. PICK t \in igr.type :
          /\ igr' = [igr EXCEPT !.type = @ \ {t}, !.typed = {e \in @ : e[1] # t}]
          /\ igrLog' = Tear(igrLog, {e[2] : e \in {x \in igr.typed : x[1] = t}}) /\ UNCHANGED login
    BY <1>8 DEF DeleteProjectType
  <2>2. {e[2] : e \in {x \in igr.typed : x[1] = t}} \in SUBSET Integrations
    BY <1>b DEF IgrRecord
  <2>3. igr' \in IgrRecord /\ igrLog' \in IgrLogRecord
    BY <1>a, <1>b, <2>1, <2>2, TearTypes DEF IgrRecord
  <2>4. /\ igr'.node = igr.node /\ igr'.type = igr.type \ {t} /\ igr'.typed = {e \in igr.typed : e[1] # t}
        /\ igr'.owned = igr.owned /\ igr'.exists = igr.exists
    BY <1>b, <2>1 DEF IgrRecord
  <2> QED BY <1>a, <1>b, <2>1, <2>3, <2>4 DEF IgrInv, Here
<1> QED BY <1>1, <1>2, <1>3, <1>4, <1>5, <1>6, <1>7, <1>8 DEF IgrTouched

\* The edges that hang on projects, and the types they refer to.
LEMMA EdgesStay ==
    ASSUME TypeInv, NEW q \in Slots,
           \/ IgrSaved(q)
           \/ ResolveEdges(q) \/ ResolveEnabled(q) \/ WriteService(q)
           \/ CreateProjectService(q) \/ DeleteProjectService(q) \/ ReplaceAssignments(q)
    PROVE  igr'.type = igr.type /\ \A e \in igr'.owned \cup igr'.exists : Node(e[1]).there
<1>a. /\ \A e \in igr.owned \cup igr.exists : Node(e[1]).there
      /\ igr \in IgrRecord
  BY DEF TypeInv, IgrInv, PrjInv
<1>b. ASSUME NEW owned, NEW exists, igr'.type = igr.type, igr'.owned = owned, igr'.exists = exists,
             \A e \in owned \cup exists : e \in igr.owned \cup igr.exists \/ Node(e[1]).there
      PROVE  igr'.type = igr.type /\ \A e \in igr'.owned \cup igr'.exists : Node(e[1]).there
  BY <1>a, <1>b
<1>c. ASSUME igr' = igr
      PROVE  igr'.type = igr.type /\ \A e \in igr'.owned \cup igr'.exists : Node(e[1]).there
  BY <1>a, <1>c
<1>1. CASE IgrSaved(q)
  <2>0. igr'.type = igr.type /\ igr'.owned \subseteq igr.owned /\ igr'.exists \subseteq igr.exists
    <3>1. CASE CreateIntegration(q)
      <4>1. \E i \in Integrations, caps \in SUBSET Kinds : igr' = [igr EXCEPT !.node[i] = Installed(caps)]
        BY <3>1 DEF CreateIntegration
      <4> QED BY <1>a, <4>1 DEF IgrRecord
    <3>2. CASE UpdateIntegrationSave(q)
      <4>1. igr' = igr \/ \E i, c : igr' = [igr EXCEPT !.node[i].caps = c]
        BY Zenon, <3>2 DEF UpdateIntegrationSave, WaitI
      <4> QED BY <1>a, <4>1 DEF IgrRecord
    <3>3. CASE DeleteIntegration(q)
      <4>1. \E i \in Integrations :
              igr' = [igr EXCEPT !.node[i] = NoIntegration,
                                 !.typed = {e \in @ : e[2] # i},
                                 !.owned = {e \in @ : e[2] # i},
                                 !.exists = {e \in @ : e[2] # i}]
        BY <3>3 DEF DeleteIntegration
      <4> QED BY <1>a, <4>1 DEF IgrRecord
    <3>4. CASE ClearLogin(q)
      <4>1. \E n : igr' = [igr EXCEPT !.node = n]
        BY Zenon, <3>4 DEF ClearLogin
      <4> QED BY <1>a, <4>1 DEF IgrRecord
    <3>5. CASE WriteLogin(q)
      <4>1. \E i, v : igr' = [igr EXCEPT !.node[i].login = v]
        BY Zenon, <3>5 DEF WriteLogin
      <4> QED BY <1>a, <4>1 DEF IgrRecord
    <3>6. CASE WriteTypeAssignments(q)
      <4>1. igr' = igr \/ \E T : igr' = [igr EXCEPT !.typed = T]
        <5>1. CASE ~Here(req[q].i)
          BY <3>6, <5>1 DEF WriteTypeAssignments
        <5>2. CASE Here(req[q].i)
          BY <3>6, <5>2 DEF WriteTypeAssignments
        <5> QED BY <5>1, <5>2
      <4> QED BY <1>a, <4>1 DEF IgrRecord
    <3>7. CASE UpdatePluginRegistration(q)
      BY <1>a, <3>7 DEF UpdatePluginRegistration, IgrRecord
    <3>8. CASE SaveCredentials(q)
      <4>1. igr' = igr \/ \E i, c : igr' = [igr EXCEPT !.node[i].creds = c]
        BY Zenon, <3>8 DEF SaveCredentials, WaitI
      <4> QED BY <1>a, <4>1 DEF IgrRecord
    <3>9. CASE GetLoginApp(q) \/ StoreLoginApp(q)
      BY <3>9 DEF GetLoginApp, StoreLoginApp, LookI
    <3> QED BY <1>1, <3>1, <3>2, <3>3, <3>4, <3>5, <3>6, <3>7, <3>8, <3>9 DEF IgrSaved
  <2> QED BY <1>b, <2>0
<1>2. CASE ResolveEdges(q) \/ ResolveEnabled(q)
  BY <1>c, <1>2 DEF ResolveEdges, ResolveEnabled, Unheard, IgrSame
<1>3. CASE WriteService(q)
  <2>1. igr' = IF Reachable(req[q].p) /\ Here(req[q].i)
               THEN [igr EXCEPT !.exists = @ \cup {<<req[q].p, req[q].i>>}] ELSE igr
    BY <1>3 DEF WriteService
  <2>2. CASE Reachable(req[q].p) /\ Here(req[q].i)
    BY <1>a, <2>1, <2>2 DEF IgrRecord, Reachable
  <2> QED BY <1>c, <2>1, <2>2
<1>4. CASE CreateProjectService(q)
  BY <1>a, <1>4 DEF CreateProjectService, Reachable, IgrRecord
<1>5. CASE DeleteProjectService(q)
  <2>1. PICK e : igr' = [igr EXCEPT !.exists = @ \ {e}]
    BY <1>5 DEF DeleteProjectService
  <2> QED BY <1>a, <2>1 DEF IgrRecord
<1>6. CASE ReplaceAssignments(q)
  <2> DEFINE l == req[q]
  <2>1. PICK k \in l.kinds :
          igr' = IF ~Reachable(l.p) THEN igr
                 ELSE [igr EXCEPT !.owned = {e \in @ : e[1] # l.p \/ e[3] # k}
                         \cup {<<l.p, r[1], k>> : r \in {x \in l.rows : x[2] = k /\ Here(x[1])}}]
    BY <1>6 DEF ReplaceAssignments
  <2>2. CASE Reachable(l.p)
    BY <1>a, <2>1, <2>2 DEF IgrRecord, Reachable
  <2> QED BY <1>c, <2>1, <2>2
<1> QED BY <1>1, <1>2, <1>3, <1>4, <1>5, <1>6

\* The history of the projects, field by field.
LEMMA LogFields ==
    ASSUME NEW log \in PrjLogRecord
    PROVE  /\ \A v \in [Projects -> NodeRecord] : [log EXCEPT !.want = v] \in PrjLogRecord
           /\ \A v \in SUBSET Projects : [log EXCEPT !.stale = v] \in PrjLogRecord
           /\ \A v \in SUBSET Projects : [log EXCEPT !.born = v] \in PrjLogRecord
           /\ \A v \in SUBSET Projects : [log EXCEPT !.asked = v] \in PrjLogRecord
           /\ \A v \in SUBSET (Projects \X Projects) : [log EXCEPT !.owed = v] \in PrjLogRecord
           /\ \A v \in SUBSET (Projects \X Projects) : [log EXCEPT !.unscored = v] \in PrjLogRecord
           /\ \A v \in [Projects -> Nat] : [log EXCEPT !.n = v] \in PrjLogRecord
           /\ \A v \in [Projects -> [Integrations -> Nat]] : [log EXCEPT !.heard = v] \in PrjLogRecord
           /\ \A v \in [Projects -> SUBSET Types] : [log EXCEPT !.loc = v] \in PrjLogRecord
           /\ \A v \in SUBSET (Projects \X Integrations) : [log EXCEPT !.apart = v] \in PrjLogRecord
<1>1. \A v \in [Projects -> NodeRecord] : [log EXCEPT !.want = v] \in PrjLogRecord
  BY DEF PrjLogRecord
<1>2. \A v \in SUBSET Projects : [log EXCEPT !.stale = v] \in PrjLogRecord
  BY DEF PrjLogRecord
<1>3. \A v \in SUBSET Projects : [log EXCEPT !.born = v] \in PrjLogRecord
  BY DEF PrjLogRecord
<1>4. \A v \in SUBSET Projects : [log EXCEPT !.asked = v] \in PrjLogRecord
  BY DEF PrjLogRecord
<1>5. \A v \in SUBSET (Projects \X Projects) : [log EXCEPT !.owed = v] \in PrjLogRecord
  BY DEF PrjLogRecord
<1>6. \A v \in [Projects -> Nat] : [log EXCEPT !.n = v] \in PrjLogRecord
  BY DEF PrjLogRecord
<1>7. \A v \in [Projects -> [Integrations -> Nat]] : [log EXCEPT !.heard = v] \in PrjLogRecord
  BY DEF PrjLogRecord
<1>8. \A v \in [Projects -> SUBSET Types] : [log EXCEPT !.loc = v] \in PrjLogRecord
  BY DEF PrjLogRecord
<1>9. \A v \in SUBSET (Projects \X Integrations) : [log EXCEPT !.apart = v] \in PrjLogRecord
  BY DEF PrjLogRecord
<1>10. \A v \in SUBSET (Projects \X Projects) : [log EXCEPT !.unscored = v] \in PrjLogRecord
  BY DEF PrjLogRecord
<1> QED BY <1>1, <1>2, <1>3, <1>4, <1>5, <1>6, <1>7, <1>8, <1>9, <1>10

\* What is owed and what is left unscored change together; the rest stays.
Undebted == {"want", "stale", "born", "asked", "n", "heard", "loc", "apart"}

LEMMA OwingTypes ==
    ASSUME NEW log \in PrjLogRecord, NEW S \in SUBSET (Projects \X Projects)
    PROVE  /\ Owing(log, S) \in PrjLogRecord /\ \A f \in Undebted : Owing(log, S)[f] = log[f]
           /\ Owing(log, S).owed = log.owed \cup S /\ Owing(log, S).unscored = log.unscored \ S
<1>1. log.owed \cup S \in SUBSET (Projects \X Projects) /\ log.unscored \ S \in SUBSET (Projects \X Projects)
  BY DEF PrjLogRecord
<1> DEFINE o == log.owed \cup S
           u == log.unscored \ S
<1>2. Owing(log, S) = [log EXCEPT !.owed = o, !.unscored = u]
  BY DEF Owing
<1> HIDE DEF o, u
<1>3. o \in SUBSET (Projects \X Projects) /\ u \in SUBSET (Projects \X Projects)
  BY <1>1 DEF o, u
<1>4. /\ Owing(log, S) \in PrjLogRecord /\ \A f \in Undebted : Owing(log, S)[f] = log[f]
      /\ Owing(log, S).owed = o /\ Owing(log, S).unscored = u
  BY <1>2, <1>3 DEF PrjLogRecord, Undebted
<1> QED BY <1>4 DEF o, u

LEMMA UnscoredTypes ==
    ASSUME NEW log \in PrjLogRecord, NEW S \in SUBSET (Projects \X Projects)
    PROVE  /\ Unscored(log, S) \in PrjLogRecord /\ \A f \in Undebted : Unscored(log, S)[f] = log[f]
           /\ Unscored(log, S).owed = log.owed \cup S /\ Unscored(log, S).unscored = log.unscored \cup S
<1>1. log.owed \cup S \in SUBSET (Projects \X Projects) /\ log.unscored \cup S \in SUBSET (Projects \X Projects)
  BY DEF PrjLogRecord
<1> DEFINE o == log.owed \cup S
           u == log.unscored \cup S
<1>2. Unscored(log, S) = [log EXCEPT !.owed = o, !.unscored = u]
  BY DEF Unscored
<1> HIDE DEF o, u
<1>3. o \in SUBSET (Projects \X Projects) /\ u \in SUBSET (Projects \X Projects)
  BY <1>1 DEF o, u
<1>4. /\ Unscored(log, S) \in PrjLogRecord /\ \A f \in Undebted : Unscored(log, S)[f] = log[f]
      /\ Unscored(log, S).owed = o /\ Unscored(log, S).unscored = u
  BY <1>2, <1>3 DEF PrjLogRecord, Undebted
<1> QED BY <1>4 DEF o, u

LEMMA QueuedTypes ==
    ASSUME NEW log \in PrjLogRecord, NEW R
    PROVE  /\ Queued(log, R) \in PrjLogRecord /\ \A f \in Undebted : Queued(log, R)[f] = log[f]
           /\ Queued(log, R).owed = log.owed \ (R \X Projects)
           /\ Queued(log, R).unscored = log.unscored \ (R \X Projects)
<1>1. /\ log.owed \ (R \X Projects) \in SUBSET (Projects \X Projects)
      /\ log.unscored \ (R \X Projects) \in SUBSET (Projects \X Projects)
  BY DEF PrjLogRecord
<1> DEFINE o == log.owed \ (R \X Projects)
           u == log.unscored \ (R \X Projects)
<1>2. Queued(log, R) = [log EXCEPT !.owed = o, !.unscored = u]
  BY DEF Queued
<1> HIDE DEF o, u
<1>3. o \in SUBSET (Projects \X Projects) /\ u \in SUBSET (Projects \X Projects)
  BY <1>1 DEF o, u
<1>4. /\ Queued(log, R) \in PrjLogRecord /\ \A f \in Undebted : Queued(log, R)[f] = log[f]
      /\ Queued(log, R).owed = o /\ Queued(log, R).unscored = u
  BY <1>2, <1>3 DEF PrjLogRecord, Undebted
<1> QED BY <1>4 DEF o, u


LEMMA LogTypes ==
    ASSUME NEW log \in PrjLogRecord, NEW p \in Projects, NEW S \in SUBSET Integrations
    PROVE  /\ Apart(log, p, S) \in PrjLogRecord
           /\ Apart(log, p, S).apart = log.apart \cup ({p} \X S)
           /\ \A f \in {"want", "stale", "born", "asked", "owed", "unscored", "n", "heard", "loc"} :
                Apart(log, p, S)[f] = log[f]
           /\ Written(log, p) \in PrjLogRecord
           /\ Written(log, p).n = [log.n EXCEPT ![p] = log.n[p] + 1]
           /\ \A f \in {"want", "stale", "born", "asked", "owed", "unscored", "apart", "heard", "loc"} :
                Written(log, p)[f] = log[f]
<1> DEFINE a == log.apart \cup ({p} \X S)
           n == [log.n EXCEPT ![p] = log.n[p] + 1]
<1>1. a \in SUBSET (Projects \X Integrations) /\ n \in [Projects -> Nat]
  BY DEF PrjLogRecord
<1>2. Apart(log, p, S) = [log EXCEPT !.apart = a] /\ Written(log, p) = [log EXCEPT !.n = n]
  BY DEF Apart, Written, PrjLogRecord
<1> HIDE DEF a, n
<1>3. Apart(log, p, S) \in PrjLogRecord /\ Written(log, p) \in PrjLogRecord
  <2>1. [log EXCEPT !.apart = a] \in PrjLogRecord
    BY <1>1, LogFields
  <2>2. [log EXCEPT !.n = n] \in PrjLogRecord
    BY <1>1, LogFields
  <2> QED BY <1>2, <2>1, <2>2
<1>4. /\ [log EXCEPT !.apart = a].apart = a
      /\ \A f \in {"want", "stale", "born", "asked", "owed", "unscored", "n", "heard", "loc"} :
           [log EXCEPT !.apart = a][f] = log[f]
  BY DEF PrjLogRecord
<1>5. /\ [log EXCEPT !.n = n].n = n
      /\ \A f \in {"want", "stale", "born", "asked", "owed", "unscored", "apart", "heard", "loc"} :
           [log EXCEPT !.n = n][f] = log[f]
  BY DEF PrjLogRecord
<1> QED BY <1>2, <1>3, <1>4, <1>5 DEF a, n

LEMMA WrittenTypes ==
    ASSUME NEW log \in PrjLogRecord, NEW p \in Projects
    PROVE  /\ Written(log, p) \in PrjLogRecord
           /\ Written(log, p).n = [log.n EXCEPT ![p] = log.n[p] + 1]
           /\ Written(log, p).owed = log.owed /\ Written(log, p).unscored = log.unscored
           /\ \A f \in {"want", "stale", "born", "asked", "apart", "heard", "loc"} : Written(log, p)[f] = log[f]
<1>1. {} \in SUBSET Integrations
  OBVIOUS
<1> QED BY <1>1, LogTypes

\* The projects stay as they are.
LEMMA PrjStays ==
    ASSUME TypeInv, prj' = prj, prjLog' \in PrjLogRecord,
           repo' \in [Projects -> [Integrations -> RepoRecord]],
           igr'.type = igr.type, \A e \in igr'.owned \cup igr'.exists : Node(e[1]).there
    PROVE  PrjInv'
BY DEF TypeInv, PrjInv, NodeOK, Node

\* One project is written.
LEMMA NodeSaved ==
    ASSUME TypeInv, NEW p \in Projects, NEW node \in NodeRecord,
           node.team \in prj.team \cup {NoTeam}, node.types \subseteq igr.type,
           Asked(node.envs) \subseteq prj.env, node.there,
           prj' = [prj EXCEPT !.node[p] = node], prjLog' \in PrjLogRecord, UNCHANGED repo, igr' = igr
    PROVE  PrjInv'
<1>1. /\ prj' \in PrjRecord /\ prj'.team = prj.team /\ prj'.env = prj.env /\ prj'.dep = prj.dep
      /\ \A o \in Projects : Node(o)' = IF o = p THEN node ELSE Node(o)
  BY DEF TypeInv, PrjInv, PrjRecord, Node
<1>2. \A o \in Projects : NodeOK(o)'
  BY <1>1 DEF TypeInv, PrjInv, NodeOK
<1>3. prj'.dep \subseteq Projects \X Projects /\ igr.owned \subseteq Projects \X Integrations \X Kinds
      /\ igr.exists \subseteq Projects \X Integrations
  BY <1>1 DEF PrjRecord, TypeInv, IgrInv, IgrRecord
<1>4. /\ \A e \in prj'.dep : Node(e[1])'.there /\ Node(e[2])'.there
      /\ \A e \in igr'.owned \cup igr'.exists : Node(e[1])'.there
  BY <1>1, <1>3 DEF TypeInv, PrjInv
<1> QED BY <1>1, <1>2, <1>4 DEF TypeInv, PrjInv

LEMMA PrjTouchedTyped ==
    ASSUME TypeInv, NEW q \in Slots, PrjTouched(q)
    PROVE  PrjInv'
<1> DEFINE l == req[q]
<1>a. /\ PrjInv /\ LocalsOK(l) /\ repo \in [Projects -> [Integrations -> RepoRecord]]
      /\ prjLog \in PrjLogRecord /\ \A e \in igr.owned \cup igr.exists : Node(e[1]).there
  BY DEF TypeInv, PoolInv, PrjInv
<1>b. ASSUME prj' = prj, repo' = repo, igr' = igr, prjLog' \in PrjLogRecord
      PROVE  PrjInv'
  BY <1>a, <1>b, PrjStays
<1>1. CASE Rescore(q) \/ EnqueueDependents(q) \/ EnqueueSource(q)
  <2>1. PICK S : prjLog' = Queued(prjLog, S) /\ UNCHANGED <<prj, repo, igr>>
    BY Zenon, <1>1 DEF Rescore, EnqueueDependents, EnqueueSource, IgrSame
  <2>2. prjLog' \in PrjLogRecord
    BY <1>a, <2>1, QueuedTypes
  <2> QED BY <1>b, <2>1, <2>2
<1>2. CASE LinksLost(q)
  <2>1. l.at = "life.link"
    BY <1>2 DEF LinksLost, At
  <2>2. l.p \in Projects
    BY <1>a, <2>1 DEF LocalsOK, HasProject, HasEvents, CallLabels, LinkLabels
  <2>3. /\ prjLog' = prjLog \/ prjLog' = [prjLog EXCEPT !.stale = @ \cup {l.p}]
        /\ UNCHANGED <<prj, repo, igr>>
    BY <1>2 DEF LinksLost, IgrSame
  <2>4. prjLog' \in PrjLogRecord
    <3> DEFINE v == prjLog.stale \cup {l.p}
    <3>1. v \in SUBSET Projects /\ (prjLog' = prjLog \/ prjLog' = [prjLog EXCEPT !.stale = v])
      BY <1>a, <2>2, <2>3 DEF PrjLogRecord
    <3> HIDE DEF v
    <3> QED BY <1>a, <3>1, LogFields
  <2> QED BY <1>b, <2>3, <2>4
<1>3. CASE DieP(q)
  <2>1. /\ UNCHANGED <<prj, repo, igr>>
        /\ "p" \notin DOMAIN l => prjLog' = prjLog
        /\ "p" \in DOMAIN l =>
             LET log == Apart(prjLog, l.p, Integrations) IN
             prjLog' = log \/ prjLog' = Unscored(log, {o \in log.owed : l.p \in {o[1], o[2]}})
    BY Zenon, <1>3 DEF DieP, IgrSame
  <2>2. prjLog' \in PrjLogRecord
    <3>1. CASE "p" \notin DOMAIN l
      BY <1>a, <2>1, <3>1
    <3>2. CASE "p" \in DOMAIN l
      <4> DEFINE log == Apart(prjLog, l.p, Integrations)
                 S == {o \in log.owed : l.p \in {o[1], o[2]}}
      <4>1. l.p \in Projects
        BY <1>a, <3>2 DEF LocalsOK
      <4>2. log \in PrjLogRecord
        BY <1>a, <4>1, LogTypes
      <4> HIDE DEF log
      <4>3. S \in SUBSET (Projects \X Projects)
        BY <4>2 DEF PrjLogRecord
      <4> HIDE DEF S
      <4>4. Unscored(log, S) \in PrjLogRecord
        BY <4>2, <4>3, UnscoredTypes
      <4> QED BY <2>1, <3>2, <4>2, <4>4 DEF log, S
    <3> QED BY <3>1, <3>2
  <2> QED BY <1>b, <2>1, <2>2
<1>4. CASE ResolveEdges(q) \/ ResolveEnabled(q)
  <2>1. l.at \in ResolveLabels
    BY <1>4 DEF ResolveEdges, ResolveEnabled, At, ResolveLabels, ResolvedLabels
  <2>2. l.p \in Projects
    BY <1>a, <2>1 DEF LocalsOK, HasProject, HasEvents
  <2>3. /\ UNCHANGED <<prj, repo, igr>>
        /\ prjLog' = prjLog \/ \E S \in SUBSET Integrations : prjLog' = Apart(prjLog, l.p, S)
    BY <1>4 DEF ResolveEdges, ResolveEnabled, Unheard, IgrSame, Following
  <2>4. prjLog' \in PrjLogRecord
    <3>1. \A S \in SUBSET Integrations : Apart(prjLog, l.p, S) \in PrjLogRecord
      BY <1>a, <2>2, LogTypes
    <3> QED BY <1>a, <2>3, <3>1
  <2> QED BY <1>b, <2>3, <2>4
<1>5. CASE BundleReadFails(q)
  <2>1. l.at = "life.bundle" /\ UNCHANGED <<prj, repo, igr>> /\ prjLog' = Apart(prjLog, l.p, Integrations)
    BY <1>5 DEF BundleReadFails, At, IgrSame
  <2>2. l.p \in Projects
    BY <1>a, <2>1 DEF LocalsOK, HasProject, HasEvents
  <2>3. prjLog' \in PrjLogRecord
    BY <1>a, <2>1, <2>2, LogTypes
  <2> QED BY <1>b, <2>1, <2>3
<1>6. CASE CallPlugin(q) \/ CallFails(q)
  <2>1. l.at = "life.call"
    BY <1>6 DEF CallPlugin, CallFails, At
  <2>2. /\ l.p \in Projects /\ DispatchOK(l) /\ l.rest \in SUBSET Integrations /\ l.todo \in Todos
        /\ l.n \in Nat
    BY <1>a, <2>1, CallKinds DEF LocalsOK, HasProject, HasEvents, CallLabels, LinkLabels, DispatchOK
  <2>3. \E i \in l.rest :
          /\ UNCHANGED <<prj, igr>>
          /\ \/ repo' = repo
             \/ /\ repo' = [repo EXCEPT ![l.p][i] = After(repo[l.p][i], l.todo[1], l.bundle)]
          /\ \/ prjLog' = Apart(prjLog, l.p, {i})
             \/ \E S \in SUBSET {i} :
                  prjLog' = Apart([prjLog EXCEPT !.heard[l.p][i] = IF l.n > @ THEN l.n ELSE @], l.p, S)
    <3>1. CASE CallPlugin(q)
      <4>1. PICK i \in l.rest :
          IF repo[l.p][i].there \/ l.todo[1] = "created"
          THEN /\ repo' = [repo EXCEPT ![l.p][i] = After(repo[l.p][i], l.todo[1], l.bundle)]
               /\ prjLog' = Apart([prjLog EXCEPT !.heard[l.p][i] = IF l.n > @ THEN l.n ELSE @],
                                  l.p, IF Overtakes(l, i) THEN {i} ELSE {})
               /\ UNCHANGED prj /\ IgrSame
          ELSE prjLog' = Apart(prjLog, l.p, {i}) /\ UNCHANGED <<prj, repo>> /\ IgrSame
        BY Zenon, <3>1 DEF CallPlugin
      <4>2. CASE repo[l.p][i].there \/ l.todo[1] = "created"
        BY <4>1, <4>2 DEF IgrSame
      <4>3. CASE ~(repo[l.p][i].there \/ l.todo[1] = "created")
        BY <4>1, <4>3 DEF IgrSame
      <4> QED BY <4>2, <4>3
    <3>2. CASE CallFails(q)
      <4>1. PICK i \in l.rest, done \in BOOLEAN :
          /\ repo' = [repo EXCEPT ![l.p][i] =
               IF done /\ (@.there \/ l.todo[1] = "created") THEN After(@, l.todo[1], l.bundle) ELSE @]
          /\ prjLog' = Apart(prjLog, l.p, {i})
          /\ UNCHANGED prj /\ IgrSame
        BY <3>2 DEF CallFails
      <4>2. CASE done /\ (repo[l.p][i].there \/ l.todo[1] = "created")
        BY <4>1, <4>2 DEF IgrSame
      <4>3. CASE ~(done /\ (repo[l.p][i].there \/ l.todo[1] = "created"))
        <5>1. repo' = repo
          BY <1>a, <4>1, <4>3, <2>2
        <5> QED BY <4>1, <5>1 DEF IgrSame
      <4> QED BY <4>2, <4>3
    <3> QED BY <1>6, <3>1, <3>2
  <2>4. PICK i \in l.rest :
          /\ UNCHANGED <<prj, igr>>
          /\ \/ repo' = repo
             \/ /\ repo' = [repo EXCEPT ![l.p][i] = After(repo[l.p][i], l.todo[1], l.bundle)]
          /\ \/ prjLog' = Apart(prjLog, l.p, {i})
             \/ \E S \in SUBSET {i} :
                  prjLog' = Apart([prjLog EXCEPT !.heard[l.p][i] = IF l.n > @ THEN l.n ELSE @], l.p, S)
    BY <2>3
  <2>5. After(repo[l.p][i], l.todo[1], l.bundle) \in RepoRecord
    <3>1. repo[l.p][i] \in RepoRecord
      BY <1>a, <2>2
    <3>2. l.todo[1] \in {"created", "updated", "relocated", "archived", "unarchived", "deleted"}
      BY <2>2, TodoFacts
    <3>3. l.todo[1] # "deleted" => l.bundle["slug"] \in Slugs \cup {0} /\ l.bundle["types"] \in SUBSET Types
      BY <2>1, <2>2, TodoFacts DEF DispatchOK, CallLabels, BundleOK
    <3> QED BY <3>1, <3>2, <3>3 DEF After, RepoRecord, NoRepo
  <2>6. repo' \in [Projects -> [Integrations -> RepoRecord]]
    BY <1>a, <2>2, <2>4, <2>5
  <2>7. prjLog' \in PrjLogRecord
    <3> DEFINE h == [prjLog EXCEPT !.heard[l.p][i] = IF l.n > @ THEN l.n ELSE @]
    <3>1. h \in PrjLogRecord
      <4> DEFINE v == [prjLog.heard EXCEPT ![l.p][i] = IF l.n > @ THEN l.n ELSE @]
      <4>1. v \in [Projects -> [Integrations -> Nat]]
        BY <1>a, <2>2 DEF PrjLogRecord
      <4>2. h = [prjLog EXCEPT !.heard = v]
        BY <1>a, <2>2 DEF PrjLogRecord
      <4> HIDE DEF v, h
      <4> QED BY <1>a, <4>1, <4>2, LogFields
    <3> HIDE DEF h
    <3>2. \A S \in SUBSET {i} : Apart(h, l.p, S) \in PrjLogRecord /\ Apart(prjLog, l.p, S) \in PrjLogRecord
      BY <1>a, <2>2, <3>1, LogTypes
    <3> QED BY <2>4, <3>2 DEF h
  <2> QED BY <1>a, <2>4, <2>6, <2>7, PrjStays
<1> QED BY <1>1, <1>2, <1>3, <1>4, <1>5, <1>6 DEF PrjTouched

\* What a statement leaves of the environments of a document.
LEMMA EdgesTypes ==
    ASSUME TypeInv, NEW envs \in [Envs -> EdgeStates]
    PROVE  EdgesNow(envs) \in [Envs -> EdgeStates] /\ Asked(EdgesNow(envs)) \subseteq prj.env
BY DEF EdgesNow, Asked, EdgeStates

LEMMA SavedTypes ==
    ASSUME TypeInv, NEW p \in Projects, Node(p).there, NEW doc \in NodeRecord
    PROVE  LET new == Saved(Node(p), doc) IN
           /\ new \in NodeRecord /\ new.there
           /\ new.team \in prj.team \cup {NoTeam} /\ new.types \subseteq igr.type
           /\ Asked(new.envs) \subseteq prj.env
<1> DEFINE now == Node(p)
           new == Saved(now, doc)
           T == doc.types \cap igr.type
           E == EdgesNow(doc.envs)
<1>1. /\ now \in NodeRecord /\ now.team \in prj.team \cup {NoTeam} /\ now.types \subseteq igr.type
      /\ Asked(now.envs) \subseteq prj.env
  BY NodeTypes DEF TypeInv, PrjInv, NodeOK
<1>2. T \in SUBSET Types /\ T \subseteq igr.type /\ E \in [Envs -> EdgeStates] /\ Asked(E) \subseteq prj.env
  BY EdgesTypes DEF NodeRecord
<1> DEFINE props == [now EXCEPT !.slug = doc.slug, !.archived = doc.archived, !.links = doc.links]
           moved == [props EXCEPT !.team = doc.team]
           typed == [moved EXCEPT !.types = T]
           full == [typed EXCEPT !.envs = E]
<1>3. /\ props \in NodeRecord /\ props.there = now.there /\ props.team = now.team
      /\ props.types = now.types /\ props.envs = now.envs
  BY <1>1 DEF NodeRecord
<1>4. /\ moved \in NodeRecord /\ moved.there = now.there /\ moved.team = doc.team
      /\ moved.types = now.types /\ moved.envs = now.envs
  <2> HIDE DEF props
  <2> QED BY <1>3 DEF NodeRecord
<1>5. /\ typed \in NodeRecord /\ typed.there = now.there /\ typed.team = doc.team
      /\ typed.types = T /\ typed.envs = now.envs
  <2> HIDE DEF moved, T
  <2> QED BY <1>2, <1>4 DEF NodeRecord
<1>6. /\ full \in NodeRecord /\ full.there = now.there /\ full.team = doc.team
      /\ full.types = T /\ full.envs = E
  <2> HIDE DEF typed, T, E
  <2> QED BY <1>2, <1>5 DEF NodeRecord
<1>7. new = IF doc.team \notin prj.team THEN props ELSE IF typed.types = {} THEN typed ELSE full
  BY Zenon DEF Saved
<1> HIDE DEF props, moved, typed, full, T, E, new
<1>8. CASE doc.team \notin prj.team
  BY <1>1, <1>3, <1>7, <1>8 DEF new
<1>9. CASE doc.team \in prj.team /\ typed.types = {}
  BY <1>1, <1>2, <1>5, <1>7, <1>9 DEF new
<1>10. CASE doc.team \in prj.team /\ typed.types # {}
  BY <1>1, <1>2, <1>6, <1>7, <1>10 DEF new
<1> QED BY <1>8, <1>9, <1>10

LEMMA MergedTypes ==
    ASSUME NEW want \in NodeRecord, NEW read \in NodeRecord, NEW doc \in NodeRecord, NEW new \in NodeRecord
    PROVE  Merged(want, read, doc, new) \in NodeRecord
<1> DEFINE m == Merged(want, read, doc, new)
<1>1. /\ DOMAIN m = {"there", "team", "types", "slug", "envs", "archived", "links"}
      /\ m = [f \in DOMAIN m |-> m[f]]
      /\ \A f \in DOMAIN m : m[f] = want[f] \/ m[f] = new[f]
  BY DEF Merged, NodeRecord
<1> HIDE DEF m
<1>2. /\ m.there \in BOOLEAN /\ m.team \in Teams \cup {NoTeam} /\ m.types \in SUBSET Types
      /\ m.slug \in Slugs \cup {0} /\ m.envs \in [Envs -> EdgeStates] /\ m.archived \in BOOLEAN
      /\ m.links \in SUBSET Integrations
  BY <1>1 DEF NodeRecord
<1>3. m \in NodeRecord
  BY <1>1, <1>2 DEF NodeRecord
<1> QED BY <1>3 DEF m

\* What a creation writes is the document as far as it is still there.
LEMMA CreatedTypes ==
    ASSUME TypeInv, NEW doc \in NodeRecord, doc.there, doc.team \in prj.team
    PROVE  LET types == doc.types \cap igr.type
               new == [doc EXCEPT !.types = types,
                                  !.envs = IF types = {} THEN NoProject.envs ELSE EdgesNow(@)] IN
           /\ new \in NodeRecord /\ new.there /\ new.team = doc.team /\ new.types = types
           /\ new.slug = doc.slug /\ new.archived = doc.archived /\ Asked(new.envs) \subseteq prj.env
           /\ types \in SUBSET Types
<1> DEFINE types == doc.types \cap igr.type
           envs == IF types = {} THEN NoProject.envs ELSE EdgesNow(doc.envs)
           new == [doc EXCEPT !.types = types, !.envs = envs]
<1>1. types \in SUBSET Types /\ types \subseteq igr.type
  BY DEF NodeRecord
<1>2. envs \in [Envs -> EdgeStates] /\ Asked(envs) \subseteq prj.env
  <2>1. EdgesNow(doc.envs) \in [Envs -> EdgeStates] /\ Asked(EdgesNow(doc.envs)) \subseteq prj.env
    BY EdgesTypes DEF NodeRecord
  <2>2. NoProject.envs \in [Envs -> EdgeStates] /\ Asked(NoProject.envs) \subseteq prj.env
    BY DEF NoProject, EdgeStates, Asked
  <2> QED BY <2>1, <2>2
<1>3. new = [doc EXCEPT !.types = types, !.envs = IF types = {} THEN NoProject.envs ELSE EdgesNow(@)]
  BY DEF NodeRecord
<1> HIDE DEF types, envs
<1>4. /\ new \in NodeRecord /\ new.there /\ new.team = doc.team /\ new.types = types
      /\ new.slug = doc.slug /\ new.archived = doc.archived /\ new.envs = envs
  BY <1>1, <1>2 DEF NodeRecord
<1> QED BY <1>1, <1>2, <1>3, <1>4 DEF types

\* What the operators asked for is of the same kind.
LEMMA WantTypes ==
    ASSUME PrjInv, NEW p \in Projects, NEW node \in NodeRecord
    PROVE  /\ prjLog.want \in [Projects -> NodeRecord] /\ prjLog.want[p] \in NodeRecord
           /\ [prjLog.want EXCEPT ![p] = node] \in [Projects -> NodeRecord]
BY DEF PrjInv, PrjLogRecord

LEMMA CreateTyped ==
    ASSUME TypeInv, NEW q \in Slots, CreateProjectNode(q)
    PROVE  PrjInv'
<1> DEFINE l == req[q]
           types == l.doc.types \cap igr.type
           new == [l.doc EXCEPT !.types = types, !.envs = IF types = {} THEN NoProject.envs ELSE EdgesNow(@)]
           log == [prjLog EXCEPT !.born = @ \cup {l.p}, !.want[l.p] = new,
                                 !.n[l.p] = 1, !.loc[l.p] = types]
<1>1. l.at = "project.create" /\ LocalsOK(l) /\ PrjInv
  BY DEF CreateProjectNode, At, TypeInv, PoolInv
<1>2. l.p \in Projects /\ l.doc \in NodeRecord /\ l.doc.there
  BY <1>1 DEF LocalsOK, HasProject, CreateLabels
<1>3. CASE l.doc.team \notin prj.team
  <2>1. UNCHANGED <<igr, prj, repo, prjLog>>
    BY <1>3 DEF CreateProjectNode, WaitP
  <2> QED BY <1>1, <2>1, PrjStays DEF PrjInv
<1>4. CASE l.doc.team \in prj.team
  <2>1. /\ prj' = [prj EXCEPT !.node[l.p] = new]
        /\ prjLog' = IF CutShort(l.doc) THEN Apart(log, l.p, Integrations) ELSE log
        /\ UNCHANGED <<repo, igr>>
    BY Zenon, <1>4 DEF CreateProjectNode, IgrSame
  <2>2. /\ new \in NodeRecord /\ new.there /\ new.team = l.doc.team /\ new.types = types
        /\ Asked(new.envs) \subseteq prj.env /\ types \in SUBSET Types /\ types \subseteq igr.type
    BY <1>2, <1>4, CreatedTypes
  <2> HIDE DEF new, types
  <2>3. log \in PrjLogRecord
    <3> DEFINE b == prjLog.born \cup {l.p}
               w == [prjLog.want EXCEPT ![l.p] = new]
               n == [prjLog.n EXCEPT ![l.p] = 1]
               c == [prjLog.loc EXCEPT ![l.p] = types]
    <3>1. /\ b \in SUBSET Projects /\ w \in [Projects -> NodeRecord] /\ n \in [Projects -> Nat]
          /\ c \in [Projects -> SUBSET Types] /\ prjLog \in PrjLogRecord
      BY <1>1, <1>2, <2>2, WantTypes DEF PrjInv, PrjLogRecord
    <3>2. log = [prjLog EXCEPT !.born = b, !.want = w, !.n = n, !.loc = c]
      BY <3>1 DEF PrjLogRecord
    <3> HIDE DEF b, w, n, c
    <3> QED BY <3>1, <3>2 DEF PrjLogRecord
  <2> HIDE DEF log
  <2>4. prjLog' \in PrjLogRecord
    BY <1>2, <2>1, <2>3, LogTypes
  <2> QED BY <1>2, <1>4, <2>1, <2>2, <2>4, NodeSaved
<1> QED BY <1>3, <1>4

LEMMA PatchTyped ==
    ASSUME TypeInv, NEW q \in Slots, PatchProjectSave(q)
    PROVE  PrjInv'
<1> DEFINE l == req[q]
           now == Node(l.p)
           new == Saved(now, l.doc)
           cut == l.doc.team \notin prj.team \/ CutShort(l.doc)
           w == Merged(prjLog.want[l.p], l.read, l.doc, new)
           s == IF now = l.read THEN prjLog.stale ELSE prjLog.stale \cup {l.p}
           o == ({l.p} \cup IF prj.policies THEN Deps(l.p) ELSE {}) \X {l.p}
           c == IF "relocated" \in {Events(l)[k] : k \in DOMAIN Events(l)} THEN new.types ELSE prjLog.loc[l.p]
<1>1. l.at = "project.save" /\ LocalsOK(l) /\ PrjInv
  BY DEF PatchProjectSave, At, TypeInv, PoolInv
<1>2. /\ l.p \in Projects /\ l.doc \in NodeRecord /\ l.read \in NodeRecord
      /\ prjLog \in PrjLogRecord
  BY <1>1 DEF LocalsOK, HasProject, PatchLabels, PrjInv
<1>3. CASE ~Reachable(l.p)
  <2>1. UNCHANGED <<igr, prj, repo, prjLog>>
    BY <1>3 DEF PatchProjectSave, WaitP
  <2> QED BY <1>1, <2>1, PrjStays DEF PrjInv
<1>4. CASE Reachable(l.p)
  <2>0. now.there
    BY <1>4 DEF Reachable
  <2>1. /\ prj' = [prj EXCEPT !.node[l.p] = new]
        /\ LET log == [IF cut THEN Unscored(Written(prjLog, l.p), o) ELSE Owing(Written(prjLog, l.p), o) EXCEPT
                         !.want[l.p] = Merged(@, l.read, l.doc, new),
                         !.stale = IF now = l.read THEN @ ELSE @ \cup {l.p},
                         !.loc[l.p] = IF "relocated" \in {Events(l)[k] : k \in DOMAIN Events(l)}
                                      THEN new.types ELSE @] IN
           prjLog' = IF now # l.read \/ cut THEN Apart(log, l.p, Integrations) ELSE log
        /\ UNCHANGED <<repo, igr>>
    BY Zenon, <1>4 DEF PatchProjectSave, IgrSame
  <2>2. /\ new \in NodeRecord /\ new.there /\ new.team \in prj.team \cup {NoTeam}
        /\ new.types \subseteq igr.type /\ Asked(new.envs) \subseteq prj.env
    BY <1>2, <2>0, SavedTypes
  <2>3. /\ w \in NodeRecord /\ s \in SUBSET Projects /\ o \in SUBSET (Projects \X Projects)
        /\ c \in SUBSET Types
    <3>1. prjLog.want[l.p] \in NodeRecord
      BY <1>1, <1>2, <2>2, WantTypes
    <3>2. Deps(l.p) \in SUBSET Projects
      BY <1>1 DEF Deps, PrjInv, PrjRecord
    <3>3. w \in NodeRecord
      BY <1>2, <2>2, <3>1, MergedTypes
    <3>4. s \in SUBSET Projects /\ c \in SUBSET Types
      BY <1>2, <2>2 DEF PrjLogRecord, NodeRecord
    <3>5. o \in SUBSET (Projects \X Projects)
      BY <1>2, <3>2 DEF PrjLogRecord
    <3> QED BY <3>3, <3>4, <3>5
  <2> DEFINE wr == IF cut THEN Unscored(Written(prjLog, l.p), o) ELSE Owing(Written(prjLog, l.p), o)
             log == [wr EXCEPT !.want[l.p] = w, !.stale = s, !.loc[l.p] = c]
  <2>4. /\ wr \in PrjLogRecord /\ wr.want = prjLog.want /\ wr.stale = prjLog.stale
        /\ wr.loc = prjLog.loc
    <3>1. /\ Written(prjLog, l.p) \in PrjLogRecord
          /\ \A f \in {"want", "stale", "born", "asked", "apart", "heard", "loc"} :
               Written(prjLog, l.p)[f] = prjLog[f]
      BY <1>2, WrittenTypes
    <3> HIDE DEF o, cut
    <3>2. wr \in PrjLogRecord /\ \A f \in {"want", "stale", "loc"} : wr[f] = Written(prjLog, l.p)[f]
      BY <2>3, <3>1, OwingTypes, UnscoredTypes DEF Undebted
    <3> HIDE DEF wr
    <3> QED BY <3>1, <3>2
  <2>5. prjLog' = IF now # l.read \/ cut THEN Apart(log, l.p, Integrations) ELSE log
    <3> DEFINE log0 == [wr EXCEPT
                          !.want[l.p] = Merged(@, l.read, l.doc, new),
                          !.stale = IF now = l.read THEN @ ELSE @ \cup {l.p},
                          !.loc[l.p] = IF "relocated" \in {Events(l)[k] : k \in DOMAIN Events(l)}
                                       THEN new.types ELSE @]
    <3>1. prjLog' = IF now # l.read \/ cut THEN Apart(log0, l.p, Integrations) ELSE log0
      BY Zenon, <2>1
    <3>2. log0 = log
      <4> HIDE DEF wr, new, cut, now, o
      <4> QED BY <1>2, <2>4 DEF PrjLogRecord
    <3> HIDE DEF log0, log
    <3> QED BY <3>1, <3>2
  <2> HIDE DEF wr, w, s, o, c, now, new, cut
  <2>6. log \in PrjLogRecord
    BY <1>2, <2>3, <2>4 DEF PrjLogRecord
  <2> HIDE DEF log
  <2>7. prjLog' \in PrjLogRecord
    BY <1>2, <2>5, <2>6, LogTypes
  <2> QED BY <1>2, <2>1, <2>2, <2>7, NodeSaved DEF now
<1> QED BY <1>3, <1>4

\* Every project loses its edge to something.
LEMMA NodesSaved ==
    ASSUME TypeInv, prj' \in PrjRecord, prj'.dep = prj.dep, prjLog' \in PrjLogRecord, UNCHANGED repo,
           igr'.owned = igr.owned, igr'.exists = igr.exists,
           \A p \in Projects : Node(p)'.there = Node(p).there /\ NodeOK(p)'
    PROVE  PrjInv'
<1>1. prj.dep \subseteq Projects \X Projects /\ igr.owned \subseteq Projects \X Integrations \X Kinds
      /\ igr.exists \subseteq Projects \X Integrations
  BY DEF TypeInv, PrjInv, PrjRecord, IgrInv, IgrRecord
<1>2. /\ \A e \in prj'.dep : Node(e[1])'.there /\ Node(e[2])'.there
      /\ \A e \in igr'.owned \cup igr'.exists : Node(e[1])'.there
  BY <1>1 DEF TypeInv, PrjInv
<1> QED BY <1>2 DEF TypeInv, PrjInv

LEMMA LeavesTyped ==
    ASSUME TypeInv, NEW q \in Slots, DeleteTeam(q) \/ DeleteProjectType(q) \/ DeleteEnvironment(q)
    PROVE  PrjInv'
<1>a. /\ prj \in PrjRecord /\ prjLog \in PrjLogRecord /\ igr \in IgrRecord
      /\ \A p \in Projects : Node(p) \in NodeRecord /\ prjLog.want[p] \in NodeRecord /\ NodeOK(p)
  BY NodeTypes DEF TypeInv, PrjInv, IgrInv
<1>1. CASE DeleteTeam(q)
  <2> DEFINE leaves(node, t) == [node EXCEPT !.team = IF @ = t THEN NoTeam ELSE @]
             nodes(t) == [p \in Projects |-> leaves(Node(p), t)]
             want(t) == [p \in Projects |-> leaves(prjLog.want[p], t)]
  <2>1. PICK t \in prj.team : /\ prj' = [prj EXCEPT !.team = @ \ {t}, !.node = nodes(t)]
                              /\ prjLog' = [prjLog EXCEPT !.want = want(t)]
                              /\ UNCHANGED <<repo, igr>>
    BY Zenon, <1>1 DEF DeleteTeam, IgrSame
  <2>2. t \in Teams /\ t # NoTeam
    BY <1>a, ProjectsAssumption DEF PrjRecord
  <2>3. \A node \in NodeRecord : leaves(node, t) \in NodeRecord
    BY DEF NodeRecord
  <2>4. nodes(t) \in [Projects -> NodeRecord] /\ want(t) \in [Projects -> NodeRecord]
    BY <1>a, <2>3
  <2>5. ASSUME NEW p \in Projects
        PROVE  LET n == leaves(Node(p), t) IN
               /\ n.there = Node(p).there /\ n.team \in (prj.team \ {t}) \cup {NoTeam}
               /\ n.types = Node(p).types /\ n.envs = Node(p).envs
               /\ ~n.there => n = NoProject
    <3>1. CASE Node(p).there
      BY <1>a, <3>1 DEF NodeRecord, NodeOK
    <3>2. CASE ~Node(p).there
      <4>1. Node(p) = NoProject /\ NoProject.team = NoTeam
        BY <1>a, <3>2 DEF NodeOK, NoProject
      <4>2. leaves(Node(p), t) = NoProject
        BY <2>2, <4>1 DEF NoProject
      <4> QED BY <3>2, <4>1, <4>2
    <3> QED BY <3>1, <3>2
  <2>6. prj' = [prj EXCEPT !.team = prj.team \ {t}, !.env = prj.env, !.node = nodes(t)]
    BY <1>a, <2>1 DEF PrjRecord
  <2>7. \A p \in Projects : nodes(t)[p] = leaves(Node(p), t)
    OBVIOUS
  <2> HIDE DEF leaves, nodes, want
  <2>8. \A p \in Projects : /\ nodes(t)[p].there = Node(p).there
                            /\ nodes(t)[p].team \in (prj.team \ {t}) \cup {NoTeam}
                            /\ nodes(t)[p].types \subseteq igr'.type
                            /\ Asked(nodes(t)[p].envs) \subseteq prj.env
                            /\ ~nodes(t)[p].there => nodes(t)[p] = NoProject
    BY <1>a, <2>1, <2>5, <2>7 DEF NodeOK
  <2>9. prj.team \ {t} \in SUBSET Teams /\ prj.env \in SUBSET Envs /\ PrjInv
    BY <1>a DEF PrjRecord, TypeInv
  <2>10. /\ prj' \in PrjRecord /\ prj'.dep = prj.dep /\ prj'.node = nodes(t)
         /\ prj'.team = prj.team \ {t} /\ prj'.env = prj.env /\ prjLog' \in PrjLogRecord
    <3> DEFINE N == nodes(t)
               W == want(t)
               T == prj.team \ {t}
               E == prj.env
    <3>1. /\ N \in [Projects -> NodeRecord] /\ W \in [Projects -> NodeRecord]
          /\ T \in SUBSET Teams /\ E \in SUBSET Envs
          /\ prj' = [prj EXCEPT !.team = T, !.env = E, !.node = N] /\ prjLog' = [prjLog EXCEPT !.want = W]
      BY <2>1, <2>4, <2>6, <2>9
    <3> HIDE DEF N, W, T, E
    <3>2. prj' \in PrjRecord /\ prj'.dep = prj.dep /\ prj'.node = N /\ prj'.team = T /\ prj'.env = E
      BY <1>a, <3>1 DEF PrjRecord
    <3>3. prjLog' \in PrjLogRecord
      BY <1>a, <3>1, LogFields
    <3> QED BY <3>2, <3>3 DEF N, T, E
  <2>11. igr'.owned = igr.owned /\ igr'.exists = igr.exists /\ repo' = repo
    BY <2>1
  <2>12. \A p \in Projects : Node(p)'.there = Node(p).there /\ NodeOK(p)'
    BY <2>8, <2>10 DEF NodeOK, Node
  <2> QED BY <2>10, <2>11, <2>12, NodesSaved
<1>2. CASE DeleteProjectType(q)
  <2> DEFINE leaves(node, t) == [node EXCEPT !.types = @ \ {t}]
             nodes(t) == [p \in Projects |-> leaves(Node(p), t)]
             want(t) == [p \in Projects |-> leaves(prjLog.want[p], t)]
  <2>1. PICK t \in igr.type : /\ prj' = [prj EXCEPT !.node = nodes(t)]
                              /\ prjLog' = [prjLog EXCEPT !.want = want(t)]
                              /\ igr' = [igr EXCEPT !.type = @ \ {t}, !.typed = {e \in @ : e[1] # t}]
                              /\ UNCHANGED repo
    BY Zenon, <1>2 DEF DeleteProjectType
  <2>2. igr'.type = igr.type \ {t} /\ igr'.owned = igr.owned /\ igr'.exists = igr.exists
    BY <1>a, <2>1 DEF IgrRecord
  <2>3. \A node \in NodeRecord : leaves(node, t) \in NodeRecord
    BY DEF NodeRecord
  <2>4. nodes(t) \in [Projects -> NodeRecord] /\ want(t) \in [Projects -> NodeRecord]
    BY <1>a, <2>3
  <2>5. ASSUME NEW p \in Projects
        PROVE  LET n == leaves(Node(p), t) IN
               /\ n.there = Node(p).there /\ n.team = Node(p).team
               /\ n.types \subseteq igr.type \ {t} /\ n.envs = Node(p).envs
               /\ ~n.there => n = NoProject
    <3>1. CASE Node(p).there
      BY <1>a, <3>1 DEF NodeRecord, NodeOK
    <3>2. CASE ~Node(p).there
      <4>1. Node(p) = NoProject /\ NoProject.types = {}
        BY <1>a, <3>2 DEF NodeOK, NoProject
      <4>2. leaves(Node(p), t) = NoProject
        BY <4>1 DEF NoProject
      <4> QED BY <3>2, <4>1, <4>2
    <3> QED BY <3>1, <3>2
  <2>6. prj' = [prj EXCEPT !.team = prj.team, !.env = prj.env, !.node = nodes(t)]
    BY <1>a, <2>1 DEF PrjRecord
  <2>7. \A p \in Projects : nodes(t)[p] = leaves(Node(p), t)
    OBVIOUS
  <2> HIDE DEF leaves, nodes, want
  <2>8. \A p \in Projects : /\ nodes(t)[p].there = Node(p).there
                            /\ nodes(t)[p].team \in prj.team \cup {NoTeam}
                            /\ nodes(t)[p].types \subseteq igr'.type
                            /\ Asked(nodes(t)[p].envs) \subseteq prj.env
                            /\ ~nodes(t)[p].there => nodes(t)[p] = NoProject
    BY <1>a, <2>2, <2>5, <2>7 DEF NodeOK
  <2>9. prj.team \in SUBSET Teams /\ prj.env \in SUBSET Envs /\ PrjInv
    BY <1>a DEF PrjRecord, TypeInv
  <2>10. /\ prj' \in PrjRecord /\ prj'.dep = prj.dep /\ prj'.node = nodes(t)
         /\ prj'.team = prj.team /\ prj'.env = prj.env /\ prjLog' \in PrjLogRecord
    <3> DEFINE N == nodes(t)
               W == want(t)
               T == prj.team
               E == prj.env
    <3>1. /\ N \in [Projects -> NodeRecord] /\ W \in [Projects -> NodeRecord]
          /\ T \in SUBSET Teams /\ E \in SUBSET Envs
          /\ prj' = [prj EXCEPT !.team = T, !.env = E, !.node = N] /\ prjLog' = [prjLog EXCEPT !.want = W]
      BY <2>1, <2>4, <2>6, <2>9
    <3> HIDE DEF N, W, T, E
    <3>2. prj' \in PrjRecord /\ prj'.dep = prj.dep /\ prj'.node = N /\ prj'.team = T /\ prj'.env = E
      BY <1>a, <3>1 DEF PrjRecord
    <3>3. prjLog' \in PrjLogRecord
      BY <1>a, <3>1, LogFields
    <3> QED BY <3>2, <3>3 DEF N, T, E
  <2>11. igr'.owned = igr.owned /\ igr'.exists = igr.exists /\ repo' = repo
    BY <2>1, <2>2
  <2>12. \A p \in Projects : Node(p)'.there = Node(p).there /\ NodeOK(p)'
    BY <2>8, <2>10 DEF NodeOK, Node
  <2> QED BY <2>10, <2>11, <2>12, NodesSaved
<1>3. CASE DeleteEnvironment(q)
  <2> DEFINE leaves(node, e) == [node EXCEPT !.envs[e] = "none"]
             nodes(e) == [p \in Projects |-> leaves(Node(p), e)]
             want(e) == [p \in Projects |-> leaves(prjLog.want[p], e)]
  <2>1. PICK e \in prj.env : /\ prj' = [prj EXCEPT !.env = @ \ {e}, !.node = nodes(e)]
                             /\ prjLog' = [prjLog EXCEPT !.want = want(e)]
                             /\ UNCHANGED <<repo, igr>>
    BY Zenon, <1>3 DEF DeleteEnvironment, IgrSame
  <2>2. e \in Envs
    BY <1>a DEF PrjRecord
  <2>3. \A node \in NodeRecord : /\ leaves(node, e) = [node EXCEPT !.envs = [node.envs EXCEPT ![e] = "none"]]
                                 /\ leaves(node, e) \in NodeRecord
    <3>1. ASSUME NEW node \in NodeRecord
          PROVE  leaves(node, e) = [node EXCEPT !.envs = [node.envs EXCEPT ![e] = "none"]]
      BY DEF NodeRecord
    <3>2. ASSUME NEW node \in NodeRecord
          PROVE  [node.envs EXCEPT ![e] = "none"] \in [Envs -> EdgeStates]
      BY <2>2 DEF NodeRecord, EdgeStates
    <3> QED BY <3>1, <3>2 DEF NodeRecord
  <2>4. nodes(e) \in [Projects -> NodeRecord] /\ want(e) \in [Projects -> NodeRecord]
    BY <1>a, <2>3
  <2>5. ASSUME NEW p \in Projects
        PROVE  LET n == leaves(Node(p), e) IN
               /\ n.there = Node(p).there /\ n.team = Node(p).team /\ n.types = Node(p).types
               /\ Asked(n.envs) \subseteq prj.env \ {e}
               /\ ~n.there => n = NoProject
    <3>0. leaves(Node(p), e) = [Node(p) EXCEPT !.envs = [Node(p).envs EXCEPT ![e] = "none"]]
      BY <1>a, <2>3
    <3>1. Asked([Node(p).envs EXCEPT ![e] = "none"]) \subseteq prj.env \ {e}
      BY <1>a, <2>2 DEF NodeRecord, NodeOK, Asked
    <3>2. ~Node(p).there => leaves(Node(p), e) = NoProject
      <4>1. ASSUME ~Node(p).there
            PROVE  leaves(Node(p), e) = NoProject
        <5>1. Node(p) = NoProject
          BY <1>a, <4>1 DEF NodeOK
        <5>2. [NoProject.envs EXCEPT ![e] = "none"] = NoProject.envs
          BY DEF NoProject
        <5>3. [NoProject EXCEPT !.envs = NoProject.envs] = NoProject
          BY DEF NoProject
        <5> QED BY <3>0, <5>1, <5>2, <5>3
      <4> QED BY <4>1
    <3> HIDE DEF leaves
    <3>3. /\ leaves(Node(p), e).there = Node(p).there /\ leaves(Node(p), e).team = Node(p).team
          /\ leaves(Node(p), e).types = Node(p).types
          /\ leaves(Node(p), e).envs = [Node(p).envs EXCEPT ![e] = "none"]
      BY <1>a, <3>0 DEF NodeRecord
    <3> QED BY <3>1, <3>2, <3>3
  <2>6. prj' = [prj EXCEPT !.team = prj.team, !.env = prj.env \ {e}, !.node = nodes(e)]
    BY <1>a, <2>1 DEF PrjRecord
  <2>7. \A p \in Projects : nodes(e)[p] = leaves(Node(p), e)
    OBVIOUS
  <2> HIDE DEF leaves, nodes, want
  <2>8. \A p \in Projects : /\ nodes(e)[p].there = Node(p).there
                            /\ nodes(e)[p].team \in prj.team \cup {NoTeam}
                            /\ nodes(e)[p].types \subseteq igr'.type
                            /\ Asked(nodes(e)[p].envs) \subseteq prj.env \ {e}
                            /\ ~nodes(e)[p].there => nodes(e)[p] = NoProject
    BY <1>a, <2>1, <2>5, <2>7 DEF NodeOK
  <2>9. prj.team \in SUBSET Teams /\ prj.env \ {e} \in SUBSET Envs /\ PrjInv
    BY <1>a DEF PrjRecord, TypeInv
  <2>10. /\ prj' \in PrjRecord /\ prj'.dep = prj.dep /\ prj'.node = nodes(e)
         /\ prj'.team = prj.team /\ prj'.env = prj.env \ {e} /\ prjLog' \in PrjLogRecord
    <3> DEFINE N == nodes(e)
               W == want(e)
               T == prj.team
               E == prj.env \ {e}
    <3>1. /\ N \in [Projects -> NodeRecord] /\ W \in [Projects -> NodeRecord]
          /\ T \in SUBSET Teams /\ E \in SUBSET Envs
          /\ prj' = [prj EXCEPT !.team = T, !.env = E, !.node = N] /\ prjLog' = [prjLog EXCEPT !.want = W]
      BY <2>1, <2>4, <2>6, <2>9
    <3> HIDE DEF N, W, T, E
    <3>2. prj' \in PrjRecord /\ prj'.dep = prj.dep /\ prj'.node = N /\ prj'.team = T /\ prj'.env = E
      BY <1>a, <3>1 DEF PrjRecord
    <3>3. prjLog' \in PrjLogRecord
      BY <1>a, <3>1, LogFields
    <3> QED BY <3>2, <3>3 DEF N, T, E
  <2>11. igr'.owned = igr.owned /\ igr'.exists = igr.exists /\ repo' = repo
    BY <2>1
  <2>12. \A p \in Projects : Node(p)'.there = Node(p).there /\ NodeOK(p)'
    BY <2>8, <2>10 DEF NodeOK, Node
  <2> QED BY <2>10, <2>11, <2>12, NodesSaved
<1> QED BY <1>1, <1>2, <1>3

LEMMA BereftTypes ==
    ASSUME prj \in PrjRecord, NEW p \in Projects
    PROVE  Bereft(p) \in SUBSET (Projects \X Projects)
<1>1. Deps(p) \in SUBSET Projects
  BY DEF Deps, PrjRecord
<1> QED BY <1>1 DEF Bereft

\* What a change of the dependencies does.
LEMMA Relates ==
    ASSUME prj \in PrjRecord, NEW q \in Slots, CreateRelationship(q) \/ DeleteRelationship(q)
    PROVE  \E s \in Projects :
             /\ Begin(q, [at |-> "rel.policies", p |-> s])
             /\ prj' = [prj EXCEPT !.dep = prj'.dep] /\ UNCHANGED repo /\ IgrSame
             /\ prjLog' = (IF prj.policies THEN Owing(prjLog, {<<s, s>>}) ELSE prjLog)
             /\ \A e \in prj'.dep : e \in prj.dep \/ (e \in Projects \X Projects /\ Node(e[1]).there /\ Node(e[2]).there)
             /\ \A o \in Projects \ {s}, t \in Projects : (<<o, t>> \in prj'.dep) = (<<o, t>> \in prj.dep)
<1>a. \A deps : [prj EXCEPT !.dep = deps].dep = deps
  BY DEF PrjRecord
<1>1. CASE CreateRelationship(q)
  <2>1. PICK s \in Projects, t \in Projects : Reachable(s) /\ Reachable(t) /\ Depend(q, prj.dep \cup {<<s, t>>}, s)
    BY <1>1 DEF CreateRelationship
  <2>2. prj' = [prj EXCEPT !.dep = prj.dep \cup {<<s, t>>}]
    BY <2>1 DEF Depend
  <2>3. prj'.dep = prj.dep \cup {<<s, t>>}
    BY <1>a, <2>2
  <2>4. /\ Begin(q, [at |-> "rel.policies", p |-> s])
        /\ UNCHANGED repo /\ IgrSame
        /\ prjLog' = (IF prj.policies THEN Owing(prjLog, {<<s, s>>}) ELSE prjLog)
    BY <2>1 DEF Depend
  <2>5. prj' = [prj EXCEPT !.dep = prj'.dep]
    BY <2>2, <2>3
  <2>6. \A e2 \in prj'.dep : e2 \in prj.dep
           \/ (e2 \in Projects \X Projects /\ Node(e2[1]).there /\ Node(e2[2]).there)
    BY <2>1, <2>3, <2>2 DEF Reachable
  <2>7. \A o \in Projects \ {s}, t2 \in Projects : (<<o, t2>> \in prj'.dep) = (<<o, t2>> \in prj.dep)
    BY <2>2, <2>3
  <2> QED BY <2>1, <2>2, <2>4, <2>5, <2>6, <2>7
<1>2. CASE DeleteRelationship(q)
  <2>1. PICK e \in prj.dep : Depend(q, prj.dep \ {e}, e[1])
    BY <1>2 DEF DeleteRelationship
  <2>2. prj' = [prj EXCEPT !.dep = prj.dep \ {e}] /\ e = <<e[1], e[2]>> /\ e[1] \in Projects
    BY <2>1 DEF Depend, PrjRecord
  <2>3. prj'.dep = prj.dep \ {e}
    BY <1>a, <2>2
  <2>4. /\ Begin(q, [at |-> "rel.policies", p |-> e[1]])
        /\ UNCHANGED repo /\ IgrSame
        /\ prjLog' = (IF prj.policies THEN Owing(prjLog, {<<e[1], e[1]>>}) ELSE prjLog)
    BY <2>1 DEF Depend
  <2>5. prj' = [prj EXCEPT !.dep = prj'.dep]
    BY <2>2, <2>3
  <2>6. \A e2 \in prj'.dep : e2 \in prj.dep
           \/ (e2 \in Projects \X Projects /\ Node(e2[1]).there /\ Node(e2[2]).there)
    BY <2>1, <2>3
  <2>7. \A o \in Projects \ {e[1]}, t2 \in Projects : (<<o, t2>> \in prj'.dep) = (<<o, t2>> \in prj.dep)
    BY <2>2, <2>3
  <2> QED BY <2>1, <2>2, <2>4, <2>5, <2>6, <2>7
<1> QED BY <1>1, <1>2

LEMMA PrjSavedTyped ==
    ASSUME TypeInv, NEW q \in Slots, PrjSaved(q)
    PROVE  PrjInv'
<1> DEFINE l == req[q]
<1>a. /\ PrjInv /\ LocalsOK(l) /\ prj \in PrjRecord /\ prjLog \in PrjLogRecord
      /\ repo \in [Projects -> [Integrations -> RepoRecord]]
      /\ \A p \in Projects : Node(p) \in NodeRecord /\ prjLog.want[p] \in NodeRecord /\ NodeOK(p)
  BY NodeTypes DEF TypeInv, PoolInv, PrjInv
<1>b. ASSUME UNCHANGED <<igr, prj, repo, prjLog>>
      PROVE  PrjInv'
  BY <1>a, <1>b, PrjStays DEF PrjInv
<1>c. ASSUME NEW p \in Projects, NEW w \in NodeRecord
      PROVE  [prjLog EXCEPT !.want[p] = w] \in PrjLogRecord
  <2> DEFINE v == [prjLog.want EXCEPT ![p] = w]
  <2>1. v \in [Projects -> NodeRecord] /\ [prjLog EXCEPT !.want[p] = w] = [prjLog EXCEPT !.want = v]
    BY <1>a, WantTypes DEF PrjLogRecord
  <2> HIDE DEF v
  <2> QED BY <1>a, <2>1, LogFields
<1>1. CASE PatchProjectEnvironment(q)
  <2>1. PICK p \in Projects, e \in Envs, set \in {"plain", "set"} :
          /\ Reachable(p) /\ Node(p).envs[e] # "none"
          /\ prj' = [prj EXCEPT !.node[p].envs[e] = set]
          /\ prjLog' = [prjLog EXCEPT !.want[p].envs[e] = set]
          /\ UNCHANGED <<repo, igr>>
    BY Zenon, <1>1 DEF PatchProjectEnvironment, IgrSame
  <2> DEFINE E(node) == [node.envs EXCEPT ![e] = set]
             set_(node) == [node EXCEPT !.envs = E(node)]
  <2>2. \A node \in NodeRecord : E(node) \in [Envs -> EdgeStates]
    BY <2>1 DEF NodeRecord, EdgeStates
  <2>3. /\ prj' = [prj EXCEPT !.node[p] = set_(Node(p))]
        /\ prjLog' = [prjLog EXCEPT !.want[p] = set_(prjLog.want[p])]
    BY <1>a, <2>1 DEF Node
  <2>4. Asked(E(Node(p))) \subseteq prj.env
    BY <1>a, <2>1 DEF Asked, NodeOK, NodeRecord
  <2> HIDE DEF E
  <2>5. \A node \in NodeRecord : /\ set_(node) \in NodeRecord /\ set_(node).there = node.there
                                 /\ set_(node).team = node.team /\ set_(node).types = node.types
                                 /\ set_(node).envs = E(node)
    BY <2>2 DEF NodeRecord
  <2> HIDE DEF set_
  <2>6. prjLog' \in PrjLogRecord
    BY <1>a, <1>c, <2>3, <2>5
  <2> QED BY <1>a, <2>1, <2>3, <2>4, <2>5, <2>6, NodeSaved DEF NodeOK, Reachable
<1>2. CASE ArchiveProject(q) \/ UnarchiveProject(q)
  <2>1. PICK p \in Projects, archived \in BOOLEAN :
          /\ Reachable(p) /\ prj' = [prj EXCEPT !.node[p].archived = archived]
          /\ prjLog' = Written([prjLog EXCEPT !.want[p].archived = archived], p)
          /\ UNCHANGED <<repo, igr>>
    BY Zenon, <1>2 DEF ArchiveProject, UnarchiveProject, SetArchivedState, IgrSame
  <2> DEFINE set_(node) == [node EXCEPT !.archived = archived]
  <2>2. /\ prj' = [prj EXCEPT !.node[p] = set_(Node(p))]
        /\ [prjLog EXCEPT !.want[p].archived = archived] = [prjLog EXCEPT !.want[p] = set_(prjLog.want[p])]
    BY <1>a, <2>1 DEF Node
  <2>3. \A node \in NodeRecord : /\ set_(node) \in NodeRecord /\ set_(node).there = node.there
                                 /\ set_(node).team = node.team /\ set_(node).types = node.types
                                 /\ set_(node).envs = node.envs
    BY DEF NodeRecord
  <2> HIDE DEF set_
  <2>4. prjLog' \in PrjLogRecord
    <3>1. [prjLog EXCEPT !.want[p].archived = archived] \in PrjLogRecord
      BY <1>a, <1>c, <2>2, <2>3
    <3> QED BY <2>1, <3>1, LogTypes
  <2> QED BY <1>a, <2>1, <2>2, <2>3, <2>4, NodeSaved DEF NodeOK, Reachable
<1>3. CASE WriteLinks(q)
  <2>1. l.at = "life.linkset"
    BY <1>3 DEF WriteLinks, At
  <2>2. l.p \in Projects /\ l.i \in Integrations /\ l.links \in SUBSET Integrations
    BY <1>a, <2>1 DEF LocalsOK, HasProject, HasEvents, CallLabels, LinkLabels, HasIntegration
  <2>3. CASE ~Node(l.p).there
    BY <1>b, <1>3, <2>3 DEF WriteLinks, IgrSame
  <2>4. CASE Node(l.p).there
    <3> DEFINE w == Linked(prjLog.want[l.p].links, l.i, l.add)
               k == Linked(l.links, l.i, l.add)
               s == IF Node(l.p).links = l.links THEN prjLog.stale ELSE prjLog.stale \cup {l.p}
               node == [Node(l.p) EXCEPT !.links = k]
               want == [prjLog.want[l.p] EXCEPT !.links = w]
    <3>1. /\ prj' = [prj EXCEPT !.node[l.p].links = k]
          /\ prjLog' = [prjLog EXCEPT
               !.want[l.p].links = Linked(@, l.i, l.add),
               !.stale = IF Node(l.p).links = l.links THEN @ ELSE @ \cup {l.p}]
          /\ UNCHANGED <<repo, igr>>
      BY Zenon, <1>3, <2>4 DEF WriteLinks, IgrSame
    <3>2. k \in SUBSET Integrations /\ w \in SUBSET Integrations /\ s \in SUBSET Projects
      BY <1>a, <2>2 DEF Linked, NodeRecord, PrjLogRecord
    <3>3. prj' = [prj EXCEPT !.node[l.p] = node] /\ prjLog' = [prjLog EXCEPT !.want[l.p] = want, !.stale = s]
      <4> HIDE DEF k
      <4> QED BY <1>a, <2>2, <3>1 DEF Node, PrjLogRecord
    <3> HIDE DEF w, k, s
    <3>4. /\ node \in NodeRecord /\ node.there /\ node.team = Node(l.p).team
          /\ node.types = Node(l.p).types /\ node.envs = Node(l.p).envs /\ want \in NodeRecord
      <4>1. ASSUME NEW n \in NodeRecord, NEW L \in SUBSET Integrations
            PROVE  LET m == [n EXCEPT !.links = L] IN
                   /\ m \in NodeRecord /\ m.there = n.there /\ m.team = n.team
                   /\ m.types = n.types /\ m.envs = n.envs
        BY DEF NodeRecord
      <4> QED BY <1>a, <2>2, <2>4, <3>2, <4>1
    <3> HIDE DEF node, want
    <3>5. prjLog' \in PrjLogRecord
      <4> DEFINE log == [prjLog EXCEPT !.want[l.p] = want]
      <4>1. log \in PrjLogRecord /\ prjLog' = [log EXCEPT !.stale = s]
        BY <1>a, <1>c, <2>2, <3>3, <3>4 DEF PrjLogRecord
      <4> HIDE DEF log
      <4> QED BY <3>2, <4>1, LogFields
    <3> QED BY <1>a, <2>2, <3>1, <3>3, <3>4, <3>5, NodeSaved DEF NodeOK
  <2> QED BY <2>3, <2>4
<1>4. CASE CreateRelationship(q) \/ DeleteRelationship(q)
  <2> DEFINE deps == prj'.dep
  <2>1. PICK s \in Projects :
          /\ prj' = [prj EXCEPT !.dep = deps] /\ UNCHANGED <<repo, igr>>
          /\ prjLog' = (IF prj.policies THEN Owing(prjLog, {<<s, s>>}) ELSE prjLog)
          /\ \A e \in deps : e \in prj.dep \/ (e \in Projects \X Projects /\ Node(e[1]).there /\ Node(e[2]).there)
    BY <1>a, <1>4, Relates DEF IgrSame
  <2>2. deps \in SUBSET (Projects \X Projects)
    BY <1>a, <2>1 DEF PrjRecord
  <2>3. \A e \in deps : Node(e[1]).there /\ Node(e[2]).there
    BY <1>a, <2>1 DEF PrjInv
  <2> HIDE DEF deps
  <2>4. prj' \in PrjRecord /\ prj'.dep = deps /\ prj'.node = prj.node /\ prj'.team = prj.team /\ prj'.env = prj.env
    BY <1>a, <2>1, <2>2 DEF PrjRecord
  <2>5. prjLog' \in PrjLogRecord
    <3>1. {<<s, s>>} \in SUBSET (Projects \X Projects)
      BY <2>1
    <3>2. Owing(prjLog, {<<s, s>>}) \in PrjLogRecord
      BY <1>a, <3>1, OwingTypes
    <3> QED BY <1>a, <2>1, <3>2
  <2> QED BY <1>a, <2>1, <2>3, <2>4, <2>5 DEF PrjInv, NodeOK, Node
<1>5. CASE DeleteProjectNode(q)
  <2>1. l.at = "project.delete"
    BY <1>5 DEF DeleteProjectNode, At
  <2>2. l.p \in Projects
    BY <1>a, <2>1 DEF LocalsOK, HasProject, HasEvents
  <2>3. CASE ~Reachable(l.p)
    BY <1>b, <1>5, <2>3 DEF DeleteProjectNode, WaitP
  <2>4. CASE Reachable(l.p)
    <3>1. /\ prj' = [prj EXCEPT !.node[l.p] = NoProject,
                             !.dep = {e \in @ : l.p \notin {e[1], e[2]}}]
          /\ igr' = [igr EXCEPT !.owned = {e \in @ : e[1] # l.p},
                             !.exists = {e \in @ : e[1] # l.p}]
          /\ prjLog' = [Unscored(Written(prjLog, l.p), Bereft(l.p)) EXCEPT
                                !.want[l.p] = NoProject, !.stale = @ \ {l.p},
                                !.owed = {o \in @ : o[1] # l.p},
                                !.asked = IF l.deleting THEN @ \cup {l.p} ELSE @]
          /\ UNCHANGED repo
      BY Zenon, <1>5, <2>4 DEF DeleteProjectNode
    <3>2. NoProject \in NodeRecord /\ ~NoProject.there /\ NoProject.team = NoTeam /\ NoProject.types = {}
          /\ Asked(NoProject.envs) = {}
      BY DEF NoProject, NodeRecord, EdgeStates, Asked
    <3>3. /\ prj' \in PrjRecord /\ prj'.team = prj.team /\ prj'.env = prj.env
          /\ prj'.dep = {e \in prj.dep : l.p \notin {e[1], e[2]}}
          /\ \A p \in Projects : Node(p)' = IF p = l.p THEN NoProject ELSE Node(p)
      BY <1>a, <2>2, <3>1, <3>2 DEF PrjRecord, Node
    <3>4. /\ igr'.type = igr.type /\ igr'.owned = {e \in igr.owned : e[1] # l.p}
          /\ igr'.exists = {e \in igr.exists : e[1] # l.p}
          /\ igr.owned \subseteq Projects \X Integrations \X Kinds
          /\ igr.exists \subseteq Projects \X Integrations
      BY <3>1 DEF TypeInv, IgrInv, IgrRecord
    <3>5. prjLog' \in PrjLogRecord
      <4> DEFINE wr == Unscored(Written(prjLog, l.p), Bereft(l.p))
                 a == IF l.deleting THEN wr.asked \cup {l.p} ELSE wr.asked
                 s == wr.stale \ {l.p}
                 o == {x \in wr.owed : x[1] # l.p}
      <4>1. wr \in PrjLogRecord
        <5>1. Bereft(l.p) \in SUBSET (Projects \X Projects)
          BY <1>a, <2>2, BereftTypes
        <5>2. Written(prjLog, l.p) \in PrjLogRecord
          BY <1>a, <2>2, WrittenTypes
        <5> QED BY <5>1, <5>2, UnscoredTypes
      <4> HIDE DEF wr
      <4>2. /\ s \in SUBSET Projects /\ o \in SUBSET (Projects \X Projects) /\ a \in SUBSET Projects
        BY <2>2, <4>1 DEF PrjLogRecord
      <4>3. prjLog' = [wr EXCEPT !.want[l.p] = NoProject, !.stale = s, !.owed = o, !.asked = a]
        BY <3>1 DEF wr
      <4> HIDE DEF wr, s, o, a
      <4> QED BY <2>2, <3>2, <4>1, <4>2, <4>3 DEF PrjLogRecord
    <3>6. \A p \in Projects : NodeOK(p)'
      BY <1>a, <3>2, <3>3, <3>4 DEF NodeOK
    <3>7. \A e \in prj'.dep : Node(e[1])'.there /\ Node(e[2])'.there
      BY <1>a, <3>3 DEF PrjInv, PrjRecord
    <3>8. \A e \in igr'.owned \cup igr'.exists : Node(e[1])'.there
      BY <1>a, <3>3, <3>4 DEF PrjInv
    <3> QED BY <1>a, <3>1, <3>3, <3>5, <3>6, <3>7, <3>8 DEF PrjInv
  <2> QED BY <2>3, <2>4
<1> QED BY <1>1, <1>2, <1>3, <1>4, <1>5, CreateTyped, PatchTyped, LeavesTyped DEF PrjSaved

LEMMA IgrTyped ==
    ASSUME TypeInv, [Next]_projectVars
    PROVE  IgrInv'
<1>1. CASE UNCHANGED <<igr, login, igrLog>>
  BY <1>1 DEF TypeInv, IgrInv, Here
<1>2. CASE LoginTick
  <2>1. /\ login.now < MaxClock /\ login' = [login EXCEPT !.now = login.now + 1] /\ UNCHANGED <<igr, igrLog>>
        /\ login \in LoginRecord
    BY <1>2 DEF LoginTick, TypeInv, IgrInv
  <2>2. login' \in LoginRecord
    BY <2>1, IntegrationsAssumption DEF LoginRecord
  <2> QED BY <2>1, <2>2 DEF TypeInv, IgrInv, Here
<1> QED BY <1>1, <1>2, IgrMoves, IgrTouchedTyped, IgrSavedTyped

LEMMA PrjTyped ==
    ASSUME TypeInv, [Next]_projectVars
    PROVE  PrjInv'
<1>a. /\ PrjInv /\ prjLog \in PrjLogRecord /\ repo \in [Projects -> [Integrations -> RepoRecord]]
      /\ \A e \in igr.owned \cup igr.exists : Node(e[1]).there
  BY DEF TypeInv, PrjInv
<1>1. ASSUME NEW q \in Slots, PrjSaved(q) \/ PrjTouched(q)
      PROVE  PrjInv'
  BY <1>1, PrjSavedTyped, PrjTouchedTyped
<1>2. ASSUME UNCHANGED <<prj, repo>>, prjLog' \in PrjLogRecord
      PROVE  PrjInv'
  <2>1. CASE UNCHANGED igr
    BY <1>a, <1>2, <2>1, PrjStays
  <2>2. ASSUME NEW q \in Slots, IgrTouched(q)
        PROVE  PrjInv'
    <3>1. CASE DeleteProjectNode(q) \/ DeleteProjectType(q)
      BY <1>1, <3>1 DEF PrjSaved
    <3>2. CASE ~(DeleteProjectNode(q) \/ DeleteProjectType(q))
      <4>1. igr'.type = igr.type /\ \A e \in igr'.owned \cup igr'.exists : Node(e[1]).there
        BY <2>2, <3>2, EdgesStay DEF IgrTouched
      <4> QED BY <1>a, <1>2, <4>1, PrjStays
    <3> QED BY <3>1, <3>2
  <2>3. ASSUME NEW q \in Slots, IgrSaved(q)
        PROVE  PrjInv'
    <3>1. igr'.type = igr.type /\ \A e \in igr'.owned \cup igr'.exists : Node(e[1]).there
      BY <2>3, EdgesStay
    <3> QED BY <1>a, <1>2, <3>1, PrjStays
  <2> QED BY <2>1, <2>2, <2>3, IgrMoves DEF LoginTick
<1>3. CASE UNCHANGED <<prj, repo, prjLog>>
  BY <1>a, <1>2, <1>3
<1>4. CASE UNCHANGED <<prj, repo>> /\ prjLog' = [prjLog EXCEPT !.apart = @ \cup (Projects \X Detached)]
  <2> DEFINE A == prjLog.apart \cup (Projects \X Detached)
  <2>1. A \in SUBSET (Projects \X Integrations) /\ prjLog' = [prjLog EXCEPT !.apart = A]
    BY <1>a, <1>4 DEF PrjLogRecord, Detached
  <2> HIDE DEF A
  <2>2. prjLog' \in PrjLogRecord
    BY <1>a, <2>1, LogFields
  <2> QED BY <1>2, <1>4, <2>2
<1> QED BY <1>1, <1>3, <1>4, PrjMoves

LEMMA TypeStep ==
    ASSUME TypeInv, [Next]_projectVars
    PROVE  TypeInv'
BY PoolStep, IgrTyped, PrjTyped DEF TypeInv

\* One type, one team, one project is picked to begin with.
LEMMA Picks ==
    /\ (CHOOSE p \in Projects : TRUE) \in Projects /\ (CHOOSE i \in Integrations : TRUE) \in Integrations
    /\ (CHOOSE t \in Teams : TRUE) \in Teams /\ (CHOOSE s \in Slugs : TRUE) \in Slugs
    /\ (CHOOSE T \in SUBSET Types : Cardinality(T) = 1) \in SUBSET Types
<1>1. \E T \in SUBSET Types : Cardinality(T) = 1
  <2>1. PICK t \in Types : TRUE
    BY ProjectsAssumption
  <2>2. Cardinality({t}) = 1
    BY FS_Singleton
  <2> QED BY <2>1, <2>2
<1> QED BY <1>1, ProjectsAssumption

\* The projects and the repositories the program starts with.
First(born, T) == [Doc(CHOOSE t \in Teams : TRUE, T, CHOOSE s \in Slugs : TRUE,
                       [e \in Envs |-> "plain"]) EXCEPT !.links = {}]
Started(born, T, policies) ==
  /\ born \in SUBSET Projects /\ T \in SUBSET Types /\ policies \in BOOLEAN
  /\ First(born, T) \in NodeRecord
  /\ prj = [node |-> [p \in Projects |-> IF p \in born THEN First(born, T) ELSE NoProject],
            team |-> Teams, env |-> Envs, dep |-> {}, policies |-> policies]
  /\ repo = [p \in Projects |-> [i \in Integrations |->
               IF p \in born /\ i \in Effective(p)
               THEN [there |-> TRUE, archived |-> FALSE, slug |-> First(born, T).slug, loc |-> T]
               ELSE NoRepo]]
  /\ prjLog = [want |-> prj.node, stale |-> {}, born |-> born, asked |-> {}, owed |-> {}, unscored |-> {},
               n |-> [p \in Projects |-> IF p \in born THEN 1 ELSE 0],
               heard |-> [p \in Projects |-> [i \in Integrations |-> IF repo[p][i].there THEN 1 ELSE 0]],
               loc |-> [p \in Projects |-> IF p \in born THEN T ELSE {}],
               apart |-> {e \in born \X Integrations : ~repo[e[1]][e[2]].there}]

LEMMA Starts ==
    ASSUME Init
    PROVE  \E born, T, policies : Started(born, T, policies)
<1> DEFINE first == CHOOSE p \in Projects : TRUE
           T == CHOOSE S \in SUBSET Types : Cardinality(S) = 1
           born == IF "relations" \in mix THEN Projects ELSE {first}
<1>1. born \in SUBSET Projects /\ T \in SUBSET Types
  BY Picks
<1>2. First(born, T) \in NodeRecord
  <2>1. [e \in Envs |-> "plain"] \in [Envs -> EdgeStates]
    BY DEF EdgeStates
  <2>2. Doc(CHOOSE t \in Teams : TRUE, T, CHOOSE s \in Slugs : TRUE, [e \in Envs |-> "plain"]) \in NodeRecord
    BY <1>1, <2>1, Picks, DocTypes
  <2> QED BY <2>2 DEF First, NodeRecord
<1>3. PICK policies \in BOOLEAN :
        /\ prj = [node |-> [p \in Projects |-> IF p \in born THEN First(born, T) ELSE NoProject],
                  team |-> Teams, env |-> Envs, dep |-> {}, policies |-> policies]
        /\ repo = [p \in Projects |-> [i \in Integrations |->
               IF p \in born /\ i \in Effective(p)
               THEN [there |-> TRUE, archived |-> FALSE, slug |-> First(born, T).slug, loc |-> T]
               ELSE NoRepo]]
        /\ prjLog = [want |-> prj.node, stale |-> {}, born |-> born, asked |-> {}, owed |-> {}, unscored |-> {},
               n |-> [p \in Projects |-> IF p \in born THEN 1 ELSE 0],
               heard |-> [p \in Projects |-> [i \in Integrations |-> IF repo[p][i].there THEN 1 ELSE 0]],
               loc |-> [p \in Projects |-> IF p \in born THEN T ELSE {}],
               apart |-> {e \in born \X Integrations : ~repo[e[1]][e[2]].there}]
  BY Zenon DEF Init, PrjInit, First
<1> HIDE DEF first, T, born
<1>4. Started(born, T, policies)
  BY <1>1, <1>2, <1>3 DEF Started
<1> QED BY <1>4

LEMMA TypeInit ==
    ASSUME Init
    PROVE  TypeInv
<1>1. PoolInv
  <2>1. req = [q \in Slots |-> Idle] /\ begun = 0 /\ faults = 0 /\ mix \in Mixes
    BY DEF Init, PoolInit
  <2>2. 0 \in 0..MaxBegun[mix] /\ 0 \in 0..MaxFaults
    BY <2>1, RequestAssumption
  <2> QED BY <2>1, <2>2, IdleOK DEF PoolInv
<1>2. IgrInv /\ igr.type = Types /\ igr.owned = {} /\ igr.exists = {}
  <2> DEFINE first == CHOOSE i \in Integrations : TRUE
  <2>0. first \in Integrations
    BY Picks
  <2>1. PICK f, provider :
    /\ f \in SUBSET Types
    /\ igr = [node |-> [i \in Integrations |->
               IF i = first THEN Installed({"lifecycle"})
               ELSE [Installed({"identity"}) EXCEPT !.login = i \in provider]],
            type |-> Types,
            typed |-> f \X {first}, owned |-> {}, exists |-> {}, on |-> TRUE]
    /\ login = [cache |-> {}, now |-> 0]
    /\ igrLog = [caps |-> [i \in Integrations |-> igr.node[i].caps],
               creds |-> [i \in Integrations |-> {}],
               stale |-> {}, raced |-> FALSE, torn |-> {}, missed |-> {},
               badSince |-> [i \in Integrations |-> 0], overdue |-> {}]
    BY Zenon DEF Init, IgrInit
  <2> HIDE DEF first
  <2>2. /\ \A i \in Integrations : igr.node[i] \in IntegrationRecord /\ igr.node[i].there
        /\ igr.node \in [Integrations -> IntegrationRecord]
    <3>1. Installed({"lifecycle"}) \in IntegrationRecord /\ Installed({"lifecycle"}).there
      BY DEF Installed, IntegrationRecord, Kinds
    <3>2. \A b \in BOOLEAN : LET n == [Installed({"identity"}) EXCEPT !.login = b] IN
                               n \in IntegrationRecord /\ n.there
      BY DEF Installed, IntegrationRecord, Kinds
    <3>3. \A i \in Integrations : igr.node[i] = IF i = first THEN Installed({"lifecycle"})
                                 ELSE [Installed({"identity"}) EXCEPT !.login = i \in provider]
      BY <2>1
    <3>4. \A i \in Integrations : igr.node[i] \in IntegrationRecord /\ igr.node[i].there
      <4> SUFFICES ASSUME NEW i \in Integrations
                   PROVE  igr.node[i] \in IntegrationRecord /\ igr.node[i].there
        OBVIOUS
      <4>1. CASE i = first
        BY <3>1, <3>3, <4>1
      <4>2. CASE i # first
        <5> DEFINE b == i \in provider
        <5>1. b \in BOOLEAN /\ igr.node[i] = [Installed({"identity"}) EXCEPT !.login = b]
          BY <3>3, <4>2
        <5> HIDE DEF b
        <5> QED BY <3>2, <5>1
      <4> QED BY <4>1, <4>2
    <3> QED BY <2>1, <3>4
  <2>3. igr \in IgrRecord /\ igr.typed = f \X {first} /\ igr.type = Types /\ igr.owned = {} /\ igr.exists = {}
    BY <2>0, <2>1, <2>2 DEF IgrRecord
  <2>4. login \in LoginRecord
    BY <2>1, IntegrationsAssumption DEF LoginRecord
  <2>5. igrLog \in IgrLogRecord
    BY <2>1, <2>2 DEF IgrLogRecord, IntegrationRecord
  <2>6. \A e \in f \X {first} : e[1] \in Types /\ igr.node[e[2]].there
    BY <2>0, <2>1, <2>2
  <2>7. /\ \A e \in igr.typed : e[1] \in igr.type /\ Here(e[2])
        /\ \A e \in igr.owned : Here(e[2])
        /\ \A e \in igr.exists : Here(e[2])
    BY <2>3, <2>6 DEF Here
  <2> QED BY <2>3, <2>4, <2>5, <2>7 DEF IgrInv
<1>3. PrjInv
  <2>1. PICK born, T, policies : Started(born, T, policies)
    BY Starts
  <2> DEFINE n == First(born, T)
  <2>2. n \in NodeRecord /\ n.there /\ n.team \in Teams /\ n.types = T /\ n.slug \in Slugs \cup {0}
    BY <2>1, Picks DEF Started, First, Doc, NoProject, NodeRecord
  <2>3. NoProject \in NodeRecord /\ ~NoProject.there /\ NoProject.team = NoTeam /\ NoProject.types = {}
    BY DEF NoProject, NodeRecord, EdgeStates
  <2>4. \A p \in Projects : Node(p) = IF p \in born THEN n ELSE NoProject
    BY <2>1 DEF Started, Node
  <2>5. igr.type = Types /\ igr.owned = {} /\ igr.exists = {}
    BY <1>2
  <2> HIDE DEF n
  <2>6. prj \in PrjRecord /\ prj.team = Teams /\ prj.env = Envs /\ prj.dep = {}
    <3>1. prj.node \in [Projects -> NodeRecord]
      BY <2>1, <2>2, <2>3 DEF Started, n
    <3> QED BY <2>1, <3>1 DEF Started, PrjRecord
  <2>7. repo \in [Projects -> [Integrations -> RepoRecord]]
    <3>1. [there |-> TRUE, archived |-> FALSE, slug |-> n.slug, loc |-> T] \in RepoRecord /\ NoRepo \in RepoRecord
      BY <2>1, <2>2 DEF RepoRecord, NoRepo, Started
    <3> QED BY <2>1, <3>1 DEF Started, n
  <2>8. prjLog \in PrjLogRecord
    <3>1. prj.node \in [Projects -> NodeRecord]
      BY <2>6 DEF PrjRecord
    <3> QED BY <2>1, <3>1 DEF Started, PrjLogRecord
  <2>9. \A p \in Projects : NodeOK(p)
    <3>1. \A p \in Projects : Node(p) \in NodeRecord
      BY <2>2, <2>3, <2>4
    <3> QED BY <2>1, <2>2, <2>3, <2>4, <2>5, <2>6, <3>1 DEF NodeOK, Asked, Started
  <2> QED BY <2>5, <2>6, <2>7, <2>8, <2>9 DEF PrjInv
<1> QED BY <1>1, <1>2, <1>3 DEF TypeInv

LEMMA TypeImplies ==
    ASSUME TypeInv
    PROVE  TypeOK
<1>1. PoolTypeOK
  BY DEF TypeInv, PoolInv, PoolTypeOK
<1>2. IgrTypeOK
  <2>1. igr.typed \subseteq igr.type \X {i \in Integrations : Here(i)}
    BY DEF TypeInv, IgrInv, IgrRecord
  <2>2. igr.exists \subseteq Projects \X {i \in Integrations : Here(i)}
    BY DEF TypeInv, IgrInv, IgrRecord
  <2>3. /\ igr.node \in [Integrations -> [there : BOOLEAN, caps : SUBSET Kinds,
                                    login : BOOLEAN, creds : SUBSET Fields]]
        /\ \A e \in igr.owned : Here(e[2])
        /\ login.now \in 0..MaxClock
    BY DEF TypeInv, IgrInv, IgrRecord, IntegrationRecord, LoginRecord
  <2> QED BY <2>1, <2>2, <2>3 DEF IgrTypeOK
<1>3. \A p \in Projects : Node(p) \in [there : BOOLEAN, team : prj.team \cup {NoTeam}, types : SUBSET igr.type,
                                slug : Slugs \cup {0}, envs : [Envs -> EdgeStates],
                                archived : BOOLEAN, links : SUBSET Integrations]
  <2>1. ASSUME NEW p \in Projects
        PROVE  Node(p) \in NodeRecord /\ Node(p).team \in prj.team \cup {NoTeam} /\ Node(p).types \subseteq igr.type
    BY <2>1, NodeTypes DEF TypeInv, PrjInv, NodeOK
  <2> QED BY <2>1 DEF NodeRecord
<1>4. prj.node \in [Projects -> [there : BOOLEAN, team : prj.team \cup {NoTeam}, types : SUBSET igr.type,
                                slug : Slugs \cup {0}, envs : [Envs -> EdgeStates],
                                archived : BOOLEAN, links : SUBSET Integrations]]
  BY <1>3 DEF Node, TypeInv, PrjInv, PrjRecord
<1>5. prj.dep \subseteq {p \in Projects : Node(p).there} \X {p \in Projects : Node(p).there}
  BY DEF TypeInv, PrjInv, PrjRecord
<1>6. /\ \A p \in Projects : Asked(Node(p).envs) \subseteq prj.env
      /\ \A p \in Projects : ~Node(p).there => Node(p) = NoProject
      /\ \A e \in igr.owned \cup igr.exists : Node(e[1]).there
  BY DEF TypeInv, PrjInv, NodeOK
<1> QED BY <1>1, <1>2, <1>4, <1>5, <1>6 DEF TypeOK

LEMMA Typed == Spec => []TypeInv
<1>1. Init => TypeInv
  BY TypeInit
<1>2. TypeInv /\ [Next]_projectVars => TypeInv'
  BY TypeStep
<1> QED BY <1>1, <1>2, PTL DEF Spec

\* Projects, their repositories, integrations and requests keep their types; a
\* project refers to what is there, and what refers to it goes with it.
THEOREM ProjectsTyped == Spec => []TypeOK
<1>1. TypeInv => TypeOK
  BY TypeImplies
<1> QED BY <1>1, Typed, PTL

-----------------------------------------------------------------------------
(* As it was asked for.                                                    *)

\* What the steps that only take part in a dispatch leave of the history.
LEMMA TouchedFrame ==
    ASSUME TypeInv, NEW q \in Slots, PrjTouched(q)
    PROVE  /\ prj' = prj
           /\ \A f \in {"want", "born", "asked", "n", "loc"} : prjLog'[f] = prjLog[f]
           /\ prjLog.stale \subseteq prjLog'.stale
           /\ prjLog.apart \subseteq prjLog'.apart
<1> DEFINE l == req[q]
           F == {"want", "born", "asked", "n", "loc"}
<1>a. prjLog \in PrjLogRecord
  BY DEF TypeInv, PrjInv
<1>b. ASSUME NEW p, NEW S
      PROVE  /\ \A f \in F \cup {"stale", "owed", "heard"} : Apart(prjLog, p, S)[f] = prjLog[f]
             /\ prjLog.apart \subseteq Apart(prjLog, p, S).apart
  BY <1>a DEF Apart, PrjLogRecord
<1>1. CASE Rescore(q) \/ EnqueueDependents(q) \/ EnqueueSource(q)
  <2>1. PICK S : prjLog' = Queued(prjLog, S) /\ UNCHANGED prj
    BY Zenon, <1>1 DEF Rescore, EnqueueDependents, EnqueueSource
  <2>2. \A f \in Undebted : prjLog'[f] = prjLog[f]
    BY <1>a, <2>1, QueuedTypes
  <2> QED BY <2>1, <2>2 DEF Undebted
<1>2. CASE LinksLost(q)
  <2>1. UNCHANGED prj /\ (prjLog' = prjLog \/ prjLog' = [prjLog EXCEPT !.stale = @ \cup {l.p}])
    BY <1>2 DEF LinksLost
  <2> QED BY <1>a, <2>1 DEF PrjLogRecord
<1>3. CASE DieP(q)
  <2> DEFINE log == Apart(prjLog, l.p, Integrations)
  <2>1. UNCHANGED prj /\ (prjLog' = prjLog \/ prjLog' = log \/ \E S : prjLog' = Unscored(log, S))
    <3>1. CASE "p" \notin DOMAIN l
      BY <1>3, <3>1 DEF DieP
    <3>2. CASE "p" \in DOMAIN l
      BY Zenon, <1>3, <3>2 DEF DieP
    <3> QED BY <3>1, <3>2
  <2>2. \A S : /\ \A f \in F \cup {"stale"} : Unscored(log, S)[f] = prjLog[f]
               /\ prjLog.apart \subseteq Unscored(log, S).apart
    BY <1>a DEF Apart, Unscored, PrjLogRecord
  <2> HIDE DEF log
  <2>3. (\A f \in F \cup {"stale"} : log[f] = prjLog[f]) /\ prjLog.apart \subseteq log.apart
    BY <1>b DEF log
  <2> QED BY <2>1, <2>2, <2>3
<1>4. CASE ResolveEdges(q) \/ ResolveEnabled(q)
  <2>1. UNCHANGED prj /\ (prjLog' = prjLog \/ \E S : prjLog' = Apart(prjLog, l.p, S))
    BY <1>4 DEF ResolveEdges, ResolveEnabled, Unheard
  <2> QED BY <1>b, <2>1
<1>5. CASE BundleReadFails(q)
  BY <1>b, <1>5 DEF BundleReadFails
<1>6. CASE CallPlugin(q) \/ CallFails(q)
  <2>1. UNCHANGED prj /\ \/ \E S : prjLog' = Apart(prjLog, l.p, S)
                         \/ \E h, S : prjLog' = Apart([prjLog EXCEPT !.heard = h], l.p, S)
    <3>1. CASE CallPlugin(q)
      <4>1. PICK i \in l.rest :
          IF repo[l.p][i].there \/ l.todo[1] = "created"
          THEN /\ prjLog' = Apart([prjLog EXCEPT !.heard[l.p][i] = IF l.n > @ THEN l.n ELSE @],
                                  l.p, IF Overtakes(l, i) THEN {i} ELSE {})
               /\ UNCHANGED prj
          ELSE prjLog' = Apart(prjLog, l.p, {i}) /\ UNCHANGED prj
        BY Zenon, <3>1 DEF CallPlugin
      <4>2. CASE repo[l.p][i].there \/ l.todo[1] = "created"
        <5>1. \E h : [prjLog EXCEPT !.heard[l.p][i] = IF l.n > @ THEN l.n ELSE @] = [prjLog EXCEPT !.heard = h]
          BY <1>a DEF PrjLogRecord
        <5> QED BY Zenon, <4>1, <4>2, <5>1
      <4>3. CASE ~(repo[l.p][i].there \/ l.todo[1] = "created")
        BY <4>1, <4>3
      <4> QED BY <4>2, <4>3
    <3>2. CASE CallFails(q)
      BY Zenon, <3>2 DEF CallFails
    <3> QED BY <1>6, <3>1, <3>2
  <2>2. \A h, S : /\ \A f \in F \cup {"stale"} : Apart([prjLog EXCEPT !.heard = h], l.p, S)[f] = prjLog[f]
                  /\ prjLog.apart \subseteq Apart([prjLog EXCEPT !.heard = h], l.p, S).apart
    BY <1>a DEF Apart, PrjLogRecord
  <2>3. CASE \E S : prjLog' = Apart(prjLog, l.p, S)
    BY <1>b, <2>1, <2>3
  <2>4. CASE \E h, S : prjLog' = Apart([prjLog EXCEPT !.heard = h], l.p, S)
    <3>1. PICK h, S : prjLog' = Apart([prjLog EXCEPT !.heard = h], l.p, S)
      BY <2>4
    <3> DEFINE log == Apart([prjLog EXCEPT !.heard = h], l.p, S)
    <3>2. (\A f \in F \cup {"stale"} : log[f] = prjLog[f]) /\ prjLog.apart \subseteq log.apart
      BY <2>2
    <3> HIDE DEF log
    <3>3. prjLog' = log
      BY <3>1 DEF log
    <3> QED BY <2>1, <3>2, <3>3
  <2> QED BY <2>1, <2>3, <2>4
<1> QED BY <1>1, <1>2, <1>3, <1>4, <1>5, <1>6 DEF PrjTouched

\* What a patch does not touch is as it was read, if nothing came between.
LEMMA PatchKeeps ==
    ASSUME TypeInv, NEW p \in Projects, NEW doc \in NodeRecord, Node(p).there, doc.there
    PROVE  Merged(Node(p), Node(p), doc, Saved(Node(p), doc)) = Saved(Node(p), doc)
<1> DEFINE now == Node(p)
           new == Saved(now, doc)
           F == {"there", "team", "types", "slug", "envs", "archived", "links"}
<1>1. now \in NodeRecord /\ now.types \subseteq igr.type /\ Asked(now.envs) \subseteq prj.env
  BY NodeTypes DEF TypeInv, PrjInv, NodeOK
<1>2. new \in NodeRecord
  BY SavedTypes
<1>3. doc.types = now.types => doc.types \cap igr.type = now.types
  BY <1>1
<1>4. doc.envs = now.envs => EdgesNow(doc.envs) = now.envs
  BY <1>1 DEF EdgesNow, Asked, NodeRecord
<1> DEFINE props == [now EXCEPT !.slug = doc.slug, !.archived = doc.archived, !.links = doc.links]
           moved == [props EXCEPT !.team = doc.team]
           T == doc.types \cap igr.type
           typed == [moved EXCEPT !.types = T]
           E == EdgesNow(doc.envs)
           full == [typed EXCEPT !.envs = E]
<1>5. new \in {props, typed, full}
  BY Zenon DEF Saved
<1>6. \A f \in F : doc[f] = now[f] => /\ props[f] = now[f]
  BY <1>1 DEF NodeRecord
<1>7. \A f \in F : doc[f] = now[f] => /\ moved[f] = now[f]
  <2> HIDE DEF props
  <2> QED BY <1>1, <1>6 DEF NodeRecord, props
<1>8. \A f \in F : doc[f] = now[f] => /\ typed[f] = now[f]
  <2>1. DOMAIN moved = F
    BY <1>1 DEF NodeRecord
  <2> HIDE DEF moved, T
  <2> QED BY <2>1, <1>3, <1>7 DEF NodeRecord, T
<1>9. \A f \in F : doc[f] = now[f] => /\ full[f] = now[f]
  <2>1. DOMAIN typed = F
    BY <1>1 DEF NodeRecord
  <2> HIDE DEF typed, E
  <2> QED BY <2>1, <1>4, <1>8 DEF NodeRecord, E
<1> HIDE DEF props, moved, typed, full, T, E
<1>10. \A f \in F : doc[f] = now[f] => new[f] = now[f]
  BY <1>5, <1>6, <1>8, <1>9
<1>11. DOMAIN now = F /\ DOMAIN new = F /\ new = [f \in F |-> new[f]]
  BY <1>1, <1>2 DEF NodeRecord
<1> HIDE DEF now, new, F
<1>12. Merged(now, now, doc, new) = [f \in F |-> new[f]]
  BY <1>10, <1>11 DEF Merged
<1> QED BY <1>11, <1>12 DEF now, new

\* What a patch that finds its project does to the history, field by field.
PatchNew(l) == Saved(Node(l.p), l.doc)
PatchCut(l) == l.doc.team \notin prj.team \/ CutShort(l.doc)
PatchOwes(l) == ({l.p} \cup IF prj.policies THEN Deps(l.p) ELSE {}) \X {l.p}
Relocates(l) == "relocated" \in {Events(l)[k] : k \in DOMAIN Events(l)}

LEMMA PatchDoes ==
    ASSUME TypeInv, NEW q \in Slots, PatchProjectSave(q)
    PROVE  LET l == req[q] IN
           /\ l.at = "project.save" /\ l.p \in Projects /\ l.doc \in NodeRecord /\ l.doc.there
           /\ l.read \in NodeRecord /\ l.transfer \in BOOLEAN /\ l.doc.archived = l.read.archived
           /\ ~Reachable(l.p) => /\ Step(q, "project.save", Idle)
                                 /\ UNCHANGED <<igr, login, igrLog, prj, repo, prjLog>>
           /\ Reachable(l.p) =>
                /\ Step(q, "project.save", IF PatchCut(l) THEN Idle
                        ELSE [at |-> "project.rescore", p |-> l.p, events |-> Events(l),
                              n |-> prjLog.n[l.p] + 1, types |-> PatchNew(l).types])
                /\ prj' = [prj EXCEPT !.node[l.p] = PatchNew(l)] /\ UNCHANGED repo /\ IgrSame
                /\ prjLog'.want = [prjLog.want EXCEPT ![l.p] = Merged(prjLog.want[l.p], l.read, l.doc, PatchNew(l))]
                /\ prjLog'.stale = (IF Node(l.p) = l.read THEN prjLog.stale ELSE prjLog.stale \cup {l.p})
                /\ prjLog'.owed = prjLog.owed \cup PatchOwes(l)
                /\ prjLog'.unscored = (IF PatchCut(l) THEN prjLog.unscored \cup PatchOwes(l)
                                       ELSE prjLog.unscored \ PatchOwes(l))
                /\ prjLog'.loc = [prjLog.loc EXCEPT ![l.p] = IF Relocates(l) THEN PatchNew(l).types ELSE @]
                /\ prjLog'.n = [prjLog.n EXCEPT ![l.p] = prjLog.n[l.p] + 1]
                /\ prjLog'.born = prjLog.born /\ prjLog'.asked = prjLog.asked /\ prjLog'.heard = prjLog.heard
                /\ prjLog'.apart = prjLog.apart \cup
                     (IF Node(l.p) # l.read \/ PatchCut(l) THEN {l.p} \X Integrations ELSE {})
<1> DEFINE l == req[q]
           now == Node(l.p)
           new == Saved(now, l.doc)
           cut == l.doc.team \notin prj.team \/ CutShort(l.doc)
           w == Merged(prjLog.want[l.p], l.read, l.doc, new)
           s == IF now = l.read THEN prjLog.stale ELSE prjLog.stale \cup {l.p}
           o == ({l.p} \cup IF prj.policies THEN Deps(l.p) ELSE {}) \X {l.p}
           c == IF "relocated" \in {Events(l)[k] : k \in DOMAIN Events(l)} THEN new.types ELSE prjLog.loc[l.p]
<1>1. l.at = "project.save" /\ LocalsOK(l) /\ prjLog \in PrjLogRecord
  BY DEF PatchProjectSave, At, TypeInv, PoolInv, PrjInv
<1>2. /\ l.p \in Projects /\ l.doc \in NodeRecord /\ l.read \in NodeRecord /\ l.doc.there
      /\ l.transfer \in BOOLEAN /\ l.doc.archived = l.read.archived
  BY <1>1 DEF LocalsOK, HasProject, PatchLabels
<1>3. CASE ~Reachable(l.p)
  BY <1>1, <1>2, <1>3 DEF PatchProjectSave, WaitP
<1>4. CASE Reachable(l.p)
  <2> DEFINE wr == IF cut THEN Unscored(Written(prjLog, l.p), o) ELSE Owing(Written(prjLog, l.p), o)
             log == [wr EXCEPT !.want[l.p] = w, !.stale = s, !.loc[l.p] = c]
             log0 == [wr EXCEPT
                         !.want[l.p] = Merged(@, l.read, l.doc, new),
                         !.stale = IF now = l.read THEN @ ELSE @ \cup {l.p},
                         !.loc[l.p] = IF "relocated" \in {Events(l)[k] : k \in DOMAIN Events(l)}
                                      THEN new.types ELSE @]
  <2>1. /\ prj' = [prj EXCEPT !.node[l.p] = new]
        /\ prjLog' = IF now # l.read \/ cut THEN Apart(log0, l.p, Integrations) ELSE log0
        /\ Step(q, "project.save", IF cut THEN Idle
            ELSE [at |-> "project.rescore", p |-> l.p, events |-> Events(l),
                  n |-> log0.n[l.p], types |-> new.types])
        /\ UNCHANGED repo /\ IgrSame
    BY Zenon, <1>4 DEF PatchProjectSave
  <2>2. /\ wr \in PrjLogRecord /\ wr.n = [prjLog.n EXCEPT ![l.p] = prjLog.n[l.p] + 1]
        /\ \A f \in {"want", "stale", "born", "asked", "apart", "heard", "loc"} : wr[f] = prjLog[f]
        /\ wr.owed = prjLog.owed \cup o
        /\ wr.unscored = (IF cut THEN prjLog.unscored \cup o ELSE prjLog.unscored \ o)
    <3> DEFINE wr1 == Written(prjLog, l.p)
    <3>1. /\ wr1 \in PrjLogRecord /\ wr1.n = [prjLog.n EXCEPT ![l.p] = prjLog.n[l.p] + 1]
          /\ wr1.owed = prjLog.owed /\ wr1.unscored = prjLog.unscored
          /\ \A f \in {"want", "stale", "born", "asked", "apart", "heard", "loc"} : wr1[f] = prjLog[f]
      BY <1>1, <1>2, WrittenTypes
    <3>2. o \in SUBSET (Projects \X Projects)
      <4>1. Deps(l.p) \in SUBSET Projects
        BY DEF Deps, TypeInv, PrjInv, PrjRecord
      <4> QED BY <1>2, <4>1
    <3> HIDE DEF wr1, o, cut
    <3>3. /\ Unscored(wr1, o) \in PrjLogRecord /\ Owing(wr1, o) \in PrjLogRecord
          /\ Unscored(wr1, o).owed = wr1.owed \cup o /\ Owing(wr1, o).owed = wr1.owed \cup o
          /\ Unscored(wr1, o).unscored = wr1.unscored \cup o /\ Owing(wr1, o).unscored = wr1.unscored \ o
          /\ \A f \in Undebted : Unscored(wr1, o)[f] = wr1[f] /\ Owing(wr1, o)[f] = wr1[f]
      BY <3>1, <3>2, OwingTypes, UnscoredTypes
    <3>4. wr = IF cut THEN Unscored(wr1, o) ELSE Owing(wr1, o)
      BY DEF wr1
    <3> HIDE DEF wr
    <3>5. CASE cut
      BY <3>1, <3>3, <3>4, <3>5 DEF Undebted
    <3>6. CASE ~cut
      BY <3>1, <3>3, <3>4, <3>6 DEF Undebted
    <3> QED BY <3>5, <3>6
  <2>3. log0 = log
    <3>1. wr.want = prjLog.want /\ wr.stale = prjLog.stale /\ wr.loc = prjLog.loc
      BY <2>2
    <3> HIDE DEF wr, now, new, cut
    <3> QED BY <1>2, <2>2, <3>1 DEF PrjLogRecord
  <2> HIDE DEF log0, wr, now, new, cut, w, s, o, c
  <2>4. /\ log.want = [prjLog.want EXCEPT ![l.p] = w] /\ log.stale = s
        /\ log.owed = prjLog.owed \cup o
        /\ log.unscored = (IF cut THEN prjLog.unscored \cup o ELSE prjLog.unscored \ o)
        /\ log.loc = [prjLog.loc EXCEPT ![l.p] = c] /\ log.n = [prjLog.n EXCEPT ![l.p] = prjLog.n[l.p] + 1]
        /\ log.born = prjLog.born /\ log.asked = prjLog.asked /\ log.heard = prjLog.heard
        /\ log.apart = prjLog.apart
    BY <2>2 DEF PrjLogRecord
  <2>5. log.n[l.p] = prjLog.n[l.p] + 1
    BY <1>1, <1>2, <2>4 DEF PrjLogRecord
  <2>6. /\ \A f \in {"want", "stale", "born", "asked", "owed", "unscored", "n", "heard", "loc"} :
             Apart(log, l.p, Integrations)[f] = log[f]
        /\ Apart(log, l.p, Integrations).apart = log.apart \cup ({l.p} \X Integrations)
    BY <2>2 DEF Apart, PrjLogRecord
  <2> HIDE DEF log
  <2>7. /\ \A f \in {"want", "stale", "born", "asked", "owed", "unscored", "n", "heard", "loc"} : prjLog'[f] = log[f]
        /\ prjLog'.apart = log.apart \cup (IF now # l.read \/ cut THEN {l.p} \X Integrations ELSE {})
    BY <2>1, <2>3, <2>6
  <2>8. /\ prjLog'.want = log.want /\ prjLog'.stale = log.stale /\ prjLog'.born = log.born
        /\ prjLog'.asked = log.asked /\ prjLog'.owed = log.owed /\ prjLog'.n = log.n
        /\ prjLog'.heard = log.heard /\ prjLog'.loc = log.loc /\ prjLog'.unscored = log.unscored
    BY <2>7
  <2>9. /\ new = PatchNew(l) /\ cut = PatchCut(l) /\ o = PatchOwes(l)
        /\ w = Merged(prjLog.want[l.p], l.read, l.doc, PatchNew(l))
        /\ s = (IF Node(l.p) = l.read THEN prjLog.stale ELSE prjLog.stale \cup {l.p})
        /\ c = (IF Relocates(l) THEN PatchNew(l).types ELSE prjLog.loc[l.p])
        /\ now = Node(l.p)
    BY DEF new, cut, now, o, w, s, c, PatchNew, PatchCut, PatchOwes, Relocates
  <2>10. [prjLog.loc EXCEPT ![l.p] = c] = [prjLog.loc EXCEPT ![l.p] = IF Relocates(l) THEN PatchNew(l).types ELSE @]
    BY <2>9
  <2>11. Step(q, "project.save", IF PatchCut(l) THEN Idle
                        ELSE [at |-> "project.rescore", p |-> l.p, events |-> Events(l),
                              n |-> prjLog.n[l.p] + 1, types |-> PatchNew(l).types])
    BY <2>1, <2>3, <2>5, <2>9
  <2>12. prjLog'.apart = prjLog.apart \cup
                     (IF Node(l.p) # l.read \/ PatchCut(l) THEN {l.p} \X Integrations ELSE {})
    BY <2>4, <2>7, <2>9
  <2> QED BY <1>1, <1>2, <1>4, <2>1, <2>4, <2>8, <2>9, <2>10, <2>11, <2>12
<1> QED BY <1>3, <1>4

\* What a creation writes.
CreateNew(doc) == [doc EXCEPT !.types = doc.types \cap igr.type,
                              !.envs = IF doc.types \cap igr.type = {} THEN NoProject.envs ELSE EdgesNow(@)]

LEMMA CreateDoes ==
    ASSUME TypeInv, NEW q \in Slots, CreateProjectNode(q)
    PROVE  LET l == req[q]
               new == CreateNew(l.doc) IN
           /\ l.at = "project.create" /\ l.p \in Projects /\ l.doc \in NodeRecord /\ l.doc.there /\ ~l.doc.archived
           /\ l.doc.team \notin prj.team => /\ Step(q, "project.create", Idle)
                                            /\ UNCHANGED <<igr, login, igrLog, prj, repo, prjLog>>
           /\ l.doc.team \in prj.team =>
                /\ Step(q, "project.create",
                        IF CutShort(l.doc) THEN Idle ELSE Dispatch(l.p, <<"created">>, 1, new.types))
                /\ prj' = [prj EXCEPT !.node[l.p] = new] /\ UNCHANGED repo /\ IgrSame
                /\ new \in NodeRecord /\ new.there /\ ~new.archived /\ new.slug = l.doc.slug
                /\ new.types = l.doc.types \cap igr.type
                /\ prjLog'.want = [prjLog.want EXCEPT ![l.p] = new]
                /\ prjLog'.born = prjLog.born \cup {l.p}
                /\ prjLog'.n = [prjLog.n EXCEPT ![l.p] = 1]
                /\ prjLog'.loc = [prjLog.loc EXCEPT ![l.p] = new.types]
                /\ prjLog'.stale = prjLog.stale /\ prjLog'.owed = prjLog.owed /\ prjLog'.unscored = prjLog.unscored
                /\ prjLog'.asked = prjLog.asked /\ prjLog'.heard = prjLog.heard
                /\ prjLog'.apart = prjLog.apart \cup (IF CutShort(l.doc) THEN {l.p} \X Integrations ELSE {})
<1> DEFINE l == req[q]
           types == l.doc.types \cap igr.type
           new == [l.doc EXCEPT !.types = types,
                                !.envs = IF types = {} THEN NoProject.envs ELSE EdgesNow(@)]
           log == [prjLog EXCEPT !.born = @ \cup {l.p}, !.want[l.p] = new,
                                 !.n[l.p] = 1, !.loc[l.p] = types]
           cut == CutShort(l.doc)
<1>1. l.at = "project.create" /\ LocalsOK(l) /\ prjLog \in PrjLogRecord
  BY DEF CreateProjectNode, At, TypeInv, PoolInv, PrjInv
<1>2. l.p \in Projects /\ l.doc \in NodeRecord /\ l.doc.there /\ ~l.doc.archived
  BY <1>1 DEF LocalsOK, HasProject, CreateLabels
<1>3. CASE l.doc.team \notin prj.team
  BY <1>1, <1>2, <1>3 DEF CreateProjectNode, WaitP
<1>4. CASE l.doc.team \in prj.team
  <2>1. /\ prj' = [prj EXCEPT !.node[l.p] = new]
        /\ prjLog' = IF cut THEN Apart(log, l.p, Integrations) ELSE log
        /\ Step(q, "project.create", IF cut THEN Idle ELSE Dispatch(l.p, <<"created">>, 1, types))
        /\ UNCHANGED repo /\ IgrSame
    BY Zenon, <1>4 DEF CreateProjectNode
  <2>2. /\ new \in NodeRecord /\ new.there /\ new.types = types /\ new.slug = l.doc.slug
        /\ new.archived = l.doc.archived
    BY <1>2, <1>4, CreatedTypes
  <2>3. new = CreateNew(l.doc)
    BY DEF CreateNew
  <2> HIDE DEF new, cut
  <2>4. /\ log.want = [prjLog.want EXCEPT ![l.p] = new] /\ log.born = prjLog.born \cup {l.p}
        /\ log.n = [prjLog.n EXCEPT ![l.p] = 1] /\ log.loc = [prjLog.loc EXCEPT ![l.p] = types]
        /\ log.stale = prjLog.stale /\ log.owed = prjLog.owed /\ log.asked = prjLog.asked
        /\ log.heard = prjLog.heard /\ log.apart = prjLog.apart /\ log.unscored = prjLog.unscored
        /\ DOMAIN log = DOMAIN prjLog
    BY <1>1 DEF PrjLogRecord
  <2>5. /\ \A f \in {"want", "stale", "born", "asked", "owed", "unscored", "n", "heard", "loc"} :
             Apart(log, l.p, Integrations)[f] = log[f]
        /\ Apart(log, l.p, Integrations).apart = log.apart \cup ({l.p} \X Integrations)
    <3> HIDE DEF log
    <3> QED BY <1>1, <2>4 DEF Apart, PrjLogRecord
  <2> HIDE DEF log
  <2>6. /\ \A f \in {"want", "stale", "born", "asked", "owed", "unscored", "n", "heard", "loc"} : prjLog'[f] = log[f]
        /\ prjLog'.apart = log.apart \cup (IF cut THEN {l.p} \X Integrations ELSE {})
    BY <2>1, <2>5
  <2>7. /\ prjLog'.want = log.want /\ prjLog'.stale = log.stale /\ prjLog'.born = log.born
        /\ prjLog'.asked = log.asked /\ prjLog'.owed = log.owed /\ prjLog'.n = log.n
        /\ prjLog'.heard = log.heard /\ prjLog'.loc = log.loc /\ prjLog'.unscored = log.unscored
    BY <2>6
  <2> QED BY <1>1, <1>2, <1>4, <2>1, <2>2, <2>3, <2>4, <2>6, <2>7 DEF cut
<1> QED BY <1>3, <1>4

\* What a deletion writes.
LEMMA DeleteDoes ==
    ASSUME TypeInv, NEW q \in Slots, DeleteProjectNode(q)
    PROVE  LET l == req[q] IN
           /\ l.at = "project.delete" /\ l.p \in Projects
           /\ ~Reachable(l.p) => /\ Step(q, "project.delete", Idle)
                                 /\ UNCHANGED <<igr, login, igrLog, prj, repo, prjLog>>
           /\ Reachable(l.p) =>
                /\ Step(q, "project.delete", IF l.rest = {} THEN Idle
                        ELSE [l EXCEPT !.at = "life.call", !.deleting = FALSE, !.n = prjLog.n[l.p] + 1])
                /\ prj'.node = [prj.node EXCEPT ![l.p] = NoProject]
                /\ prj'.dep = {e \in prj.dep : l.p \notin {e[1], e[2]}}
                /\ prj'.policies = prj.policies /\ UNCHANGED <<repo, login, igrLog>>
                /\ igr' = [igr EXCEPT !.owned = {e \in @ : e[1] # l.p}, !.exists = {e \in @ : e[1] # l.p}]
                /\ prjLog'.want = [prjLog.want EXCEPT ![l.p] = NoProject]
                /\ prjLog'.stale = prjLog.stale \ {l.p}
                /\ prjLog'.owed = {o \in prjLog.owed \cup Bereft(l.p) : o[1] # l.p}
                /\ prjLog'.unscored = prjLog.unscored \cup Bereft(l.p)
                /\ prjLog'.asked = (IF l.deleting THEN prjLog.asked \cup {l.p} ELSE prjLog.asked)
                /\ prjLog'.n = [prjLog.n EXCEPT ![l.p] = prjLog.n[l.p] + 1]
                /\ prjLog'.born = prjLog.born /\ prjLog'.loc = prjLog.loc /\ prjLog'.heard = prjLog.heard
                /\ prjLog'.apart = prjLog.apart
<1> DEFINE l == req[q]
           wr == Unscored(Written(prjLog, l.p), Bereft(l.p))
<1>1. l.at = "project.delete" /\ LocalsOK(l) /\ prjLog \in PrjLogRecord /\ prj \in PrjRecord
  BY DEF DeleteProjectNode, At, TypeInv, PoolInv, PrjInv
<1>2. l.p \in Projects
  BY <1>1 DEF LocalsOK, HasProject, HasEvents
<1>3. CASE ~Reachable(l.p)
  BY <1>1, <1>2, <1>3 DEF DeleteProjectNode, WaitP
<1>4. CASE Reachable(l.p)
  <2>1. /\ Step(q, "project.delete", IF l.rest = {} THEN Idle
                ELSE [l EXCEPT !.at = "life.call", !.deleting = FALSE, !.n = wr.n[l.p]])
        /\ prj' = [prj EXCEPT !.node[l.p] = NoProject, !.dep = {e \in @ : l.p \notin {e[1], e[2]}}]
        /\ igr' = [igr EXCEPT !.owned = {e \in @ : e[1] # l.p}, !.exists = {e \in @ : e[1] # l.p}]
        /\ prjLog' = [wr EXCEPT !.want[l.p] = NoProject, !.stale = @ \ {l.p},
                                !.owed = {o \in @ : o[1] # l.p},
                                !.asked = IF l.deleting THEN @ \cup {l.p} ELSE @]
        /\ UNCHANGED <<login, igrLog, repo>>
    BY Zenon, <1>4 DEF DeleteProjectNode
  <2>2. /\ wr \in PrjLogRecord /\ wr.n = [prjLog.n EXCEPT ![l.p] = prjLog.n[l.p] + 1]
        /\ \A f \in {"want", "stale", "born", "asked", "apart", "heard", "loc"} : wr[f] = prjLog[f]
        /\ wr.owed = prjLog.owed \cup Bereft(l.p) /\ wr.unscored = prjLog.unscored \cup Bereft(l.p)
    <3> DEFINE wr1 == Written(prjLog, l.p)
    <3>1. /\ wr1 \in PrjLogRecord /\ wr1.n = [prjLog.n EXCEPT ![l.p] = prjLog.n[l.p] + 1]
          /\ wr1.owed = prjLog.owed /\ wr1.unscored = prjLog.unscored
          /\ \A f \in {"want", "stale", "born", "asked", "apart", "heard", "loc"} : wr1[f] = prjLog[f]
      BY <1>1, <1>2, WrittenTypes
    <3>2. Bereft(l.p) \in SUBSET (Projects \X Projects)
      BY <1>1, <1>2, BereftTypes
    <3>3. wr = Unscored(wr1, Bereft(l.p))
      BY DEF wr1
    <3> HIDE DEF wr, wr1
    <3>4. /\ wr \in PrjLogRecord /\ wr.owed = wr1.owed \cup Bereft(l.p)
          /\ wr.unscored = wr1.unscored \cup Bereft(l.p) /\ \A f \in Undebted : wr[f] = wr1[f]
      BY <3>1, <3>2, <3>3, UnscoredTypes
    <3> QED BY <3>1, <3>4 DEF Undebted
  <2>3. wr.n[l.p] = prjLog.n[l.p] + 1
    BY <1>1, <1>2, <2>2 DEF PrjLogRecord
  <2> HIDE DEF wr
  <2>4. /\ prj'.node = [prj.node EXCEPT ![l.p] = NoProject] /\ prj'.policies = prj.policies
        /\ prj'.dep = {e \in prj.dep : l.p \notin {e[1], e[2]}}
    BY <1>1, <2>1 DEF PrjRecord
  <2>5. /\ wr.want = prjLog.want /\ wr.stale = prjLog.stale /\ wr.asked = prjLog.asked
        /\ wr.owed = prjLog.owed \cup Bereft(l.p)
    BY <2>2
  <2> DEFINE a == IF l.deleting THEN prjLog.asked \cup {l.p} ELSE prjLog.asked
             s == prjLog.stale \ {l.p}
             d == {o \in prjLog.owed \cup Bereft(l.p) : o[1] # l.p}
  <2>6. prjLog' = [wr EXCEPT !.want[l.p] = NoProject, !.stale = s, !.owed = d, !.asked = a]
    BY <2>1, <2>5
  <2> HIDE DEF a, s, d
  <2>7. /\ prjLog'.want = [prjLog.want EXCEPT ![l.p] = NoProject]
        /\ prjLog'.stale = s /\ prjLog'.owed = d /\ prjLog'.asked = a
        /\ prjLog'.unscored = prjLog.unscored \cup Bereft(l.p)
        /\ prjLog'.n = [prjLog.n EXCEPT ![l.p] = prjLog.n[l.p] + 1]
        /\ prjLog'.born = prjLog.born /\ prjLog'.loc = prjLog.loc /\ prjLog'.heard = prjLog.heard
        /\ prjLog'.apart = prjLog.apart
    BY <2>2, <2>5, <2>6 DEF PrjLogRecord
  <2> QED BY <1>1, <1>2, <1>4, <2>1, <2>3, <2>4, <2>7 DEF a, s, d
<1> QED BY <1>3, <1>4

\* What an archive or its undoing writes.
LEMMA ArchiveDoes ==
    ASSUME TypeInv, NEW q \in Slots, ArchiveProject(q) \/ UnarchiveProject(q)
    PROVE  \E p \in Projects, archived \in BOOLEAN :
             /\ Reachable(p)
             /\ Begin(q, Dispatch(p, IF archived THEN <<"archived">> ELSE <<"unarchived">>,
                                  prjLog.n[p] + 1, Node(p).types))
             /\ prj' = [prj EXCEPT !.node[p].archived = archived] /\ UNCHANGED repo /\ IgrSame
             /\ prjLog'.want = [prjLog.want EXCEPT ![p].archived = archived]
             /\ prjLog'.n = [prjLog.n EXCEPT ![p] = prjLog.n[p] + 1]
             /\ \A f \in {"stale", "born", "asked", "owed", "unscored", "apart", "heard", "loc"} : prjLog'[f] = prjLog[f]
<1>1. \E archived \in BOOLEAN : SetArchivedState(q, IF archived THEN "archived" ELSE "unarchived", archived)
  BY DEF ArchiveProject, UnarchiveProject
<1>2. PICK archived \in BOOLEAN : SetArchivedState(q, IF archived THEN "archived" ELSE "unarchived", archived)
  BY <1>1
<1> DEFINE ev == IF archived THEN "archived" ELSE "unarchived"
<1>3. PICK p \in Projects :
        /\ Reachable(p)
        /\ LET log == Written([prjLog EXCEPT !.want[p].archived = archived], p) IN
           /\ Begin(q, Dispatch(p, <<ev>>, log.n[p], Node(p).types))
           /\ prjLog' = log
        /\ prj' = [prj EXCEPT !.node[p].archived = archived]
        /\ UNCHANGED repo /\ IgrSame
  BY Zenon, <1>2 DEF SetArchivedState
<1> DEFINE log == Written([prjLog EXCEPT !.want[p].archived = archived], p)
<1>4. /\ log.want = [prjLog.want EXCEPT ![p].archived = archived]
      /\ log.n = [prjLog.n EXCEPT ![p] = prjLog.n[p] + 1] /\ log.n[p] = prjLog.n[p] + 1
      /\ \A f \in {"stale", "born", "asked", "owed", "unscored", "apart", "heard", "loc"} : log[f] = prjLog[f]
  BY <1>3 DEF TypeInv, PrjInv, PrjLogRecord, Written
<1> HIDE DEF log
<1>5. prjLog' = log /\ Begin(q, Dispatch(p, <<ev>>, prjLog.n[p] + 1, Node(p).types))
  BY <1>3, <1>4 DEF log
<1>6. <<ev>> = IF archived THEN <<"archived">> ELSE <<"unarchived">>
  OBVIOUS
<1> HIDE DEF ev
<1>7. Begin(q, Dispatch(p, IF archived THEN <<"archived">> ELSE <<"unarchived">>, prjLog.n[p] + 1, Node(p).types))
  BY <1>5, <1>6
<1> QED BY <1>3, <1>4, <1>5, <1>7

LEMMA KeptStep ==
    ASSUME TypeInv, ProjectsAsAsked, [Next]_projectVars
    PROVE  ProjectsAsAsked'
<1>a. /\ prj \in PrjRecord /\ prjLog \in PrjLogRecord
      /\ \A p \in Projects : Node(p) \in NodeRecord /\ prjLog.want[p] \in NodeRecord
      /\ \A q \in Slots : LocalsOK(req[q])
  BY NodeTypes DEF TypeInv, PoolInv, PrjInv
<1>b. ASSUME prj'.node = prj.node, prjLog'.want = prjLog.want, prjLog.stale \subseteq prjLog'.stale
      PROVE  ProjectsAsAsked'
  BY <1>b DEF ProjectsAsAsked, Node
<1>c. ASSUME NEW p \in Projects, NEW node, NEW want, NEW stale,
             prj'.node = [prj.node EXCEPT ![p] = node], prjLog'.want = [prjLog.want EXCEPT ![p] = want],
             prjLog'.stale = stale, prjLog.stale \ {p} \subseteq stale, node = want \/ p \in stale
      PROVE  ProjectsAsAsked'
  BY <1>a, <1>c DEF ProjectsAsAsked, Node, PrjRecord, PrjLogRecord
<1>1. CASE UNCHANGED <<prj, repo, prjLog>>
  BY <1>1, <1>b
<1>2. CASE UNCHANGED <<prj, repo>> /\ prjLog' = [prjLog EXCEPT !.apart = @ \cup (Projects \X Detached)]
  BY <1>a, <1>2, <1>b DEF PrjLogRecord
<1>3. ASSUME NEW q \in Slots, PrjTouched(q)
      PROVE  ProjectsAsAsked'
  BY <1>3, <1>b, TouchedFrame
<1>4. ASSUME NEW q \in Slots, PrjSaved(q)
      PROVE  ProjectsAsAsked'
  <2> DEFINE l == req[q]
  <2>1. CASE CreateProjectNode(q)
    <3> DEFINE new == CreateNew(l.doc)
    <3>1. /\ l.p \in Projects
          /\ l.doc.team \notin prj.team => UNCHANGED <<igr, login, igrLog, prj, repo, prjLog>>
          /\ l.doc.team \in prj.team =>
               /\ prj' = [prj EXCEPT !.node[l.p] = new]
               /\ prjLog'.want = [prjLog.want EXCEPT ![l.p] = new]
               /\ prjLog'.stale = prjLog.stale
      BY Zenon, <2>1, CreateDoes
    <3> HIDE DEF new, l
    <3>2. CASE l.doc.team \notin prj.team
      BY <1>1, <3>1, <3>2
    <3>3. CASE l.doc.team \in prj.team
      <4>1. prj'.node = [prj.node EXCEPT ![l.p] = new]
        BY <1>a, <3>1, <3>3 DEF PrjRecord
      <4> QED BY <1>c, <3>1, <3>3, <4>1
    <3> QED BY <3>2, <3>3
  <2>2. CASE PatchProjectSave(q)
    <3> DEFINE new == PatchNew(l)
               w == Merged(prjLog.want[l.p], l.read, l.doc, PatchNew(l))
               s == IF Node(l.p) = l.read THEN prjLog.stale ELSE prjLog.stale \cup {l.p}
    <3>1. /\ l.p \in Projects /\ l.doc \in NodeRecord /\ l.doc.there
          /\ ~Reachable(l.p) => UNCHANGED <<igr, login, igrLog, prj, repo, prjLog>>
          /\ Reachable(l.p) => /\ prj' = [prj EXCEPT !.node[l.p] = new]
                               /\ prjLog'.want = [prjLog.want EXCEPT ![l.p] = w]
                               /\ prjLog'.stale = s
      BY Zenon, <2>2, PatchDoes
    <3>2. CASE ~Reachable(l.p)
      BY <1>1, <3>1, <3>2
    <3>3. CASE Reachable(l.p)
      <4>1. prj'.node = [prj.node EXCEPT ![l.p] = new]
        <5> HIDE DEF new, w, s
        <5> QED BY <1>a, <3>1, <3>3 DEF PrjRecord
      <4>2. prjLog.stale \ {l.p} \subseteq s
        OBVIOUS
      <4>3. new = w \/ l.p \in s
        <5>1. CASE l.p \in prjLog.stale \/ Node(l.p) # l.read
          BY <5>1
        <5>2. CASE l.p \notin prjLog.stale /\ Node(l.p) = l.read
          <6>1. prjLog.want[l.p] = Node(l.p)
            BY <3>1, <5>2 DEF ProjectsAsAsked
          <6>2. Node(l.p).there
            BY <3>3 DEF Reachable
          <6>3. Merged(Node(l.p), Node(l.p), l.doc, Saved(Node(l.p), l.doc)) = Saved(Node(l.p), l.doc)
            BY Zenon, <3>1, <6>2, PatchKeeps
          <6>4. w = Merged(Node(l.p), Node(l.p), l.doc, Saved(Node(l.p), l.doc))
            BY Zenon, <5>2, <6>1 DEF PatchNew
          <6> QED BY Zenon, <6>3, <6>4 DEF PatchNew
        <5> QED BY <5>1, <5>2
      <4> HIDE DEF new, w, s, l
      <4> QED BY <1>c, <3>1, <3>3, <4>1, <4>2, <4>3
    <3> QED BY <3>2, <3>3
  <2>3. CASE PatchProjectEnvironment(q)
    <3>1. PICK p \in Projects, e \in Envs, set \in {"plain", "set"} :
            /\ prj' = [prj EXCEPT !.node[p].envs[e] = set]
            /\ prjLog' = [prjLog EXCEPT !.want[p].envs[e] = set]
      BY Zenon, <2>3 DEF PatchProjectEnvironment
    <3> DEFINE set_(node) == [node EXCEPT !.envs = [node.envs EXCEPT ![e] = set]]
    <3>2. /\ prj'.node = [prj.node EXCEPT ![p] = set_(Node(p))]
          /\ prjLog'.want = [prjLog.want EXCEPT ![p] = set_(prjLog.want[p])]
          /\ prjLog'.stale = prjLog.stale
      BY <1>a, <3>1 DEF Node, PrjRecord, PrjLogRecord
    <3>3. p \in prjLog.stale \/ set_(Node(p)) = set_(prjLog.want[p])
      BY DEF ProjectsAsAsked
    <3> HIDE DEF set_
    <3> QED BY <1>c, <3>2, <3>3
  <2>4. CASE ArchiveProject(q) \/ UnarchiveProject(q)
    <3>1. PICK p \in Projects, archived \in BOOLEAN :
            /\ prj' = [prj EXCEPT !.node[p].archived = archived]
            /\ prjLog' = Written([prjLog EXCEPT !.want[p].archived = archived], p)
      BY Zenon, <2>4 DEF ArchiveProject, UnarchiveProject, SetArchivedState
    <3> DEFINE set_(node) == [node EXCEPT !.archived = archived]
    <3>2. /\ prj'.node = [prj.node EXCEPT ![p] = set_(Node(p))]
          /\ prjLog'.want = [prjLog.want EXCEPT ![p] = set_(prjLog.want[p])]
          /\ prjLog'.stale = prjLog.stale
      BY <1>a, <3>1 DEF Node, PrjRecord, PrjLogRecord, Written
    <3>3. p \in prjLog.stale \/ set_(Node(p)) = set_(prjLog.want[p])
      BY DEF ProjectsAsAsked
    <3> HIDE DEF set_
    <3> QED BY <1>c, <3>2, <3>3
  <2>5. CASE DeleteProjectNode(q)
    <3>1. /\ l.p \in Projects
          /\ ~Reachable(l.p) => UNCHANGED <<igr, login, igrLog, prj, repo, prjLog>>
          /\ Reachable(l.p) => /\ prj'.node = [prj.node EXCEPT ![l.p] = NoProject]
                               /\ prjLog'.want = [prjLog.want EXCEPT ![l.p] = NoProject]
                               /\ prjLog'.stale = prjLog.stale \ {l.p}
      BY Zenon, <2>5, DeleteDoes
    <3> HIDE DEF l
    <3>2. CASE ~Reachable(l.p)
      BY <1>1, <3>1, <3>2
    <3>3. CASE Reachable(l.p)
      BY <1>c, <3>1, <3>3
    <3> QED BY <3>2, <3>3
  <2>6. CASE CreateRelationship(q) \/ DeleteRelationship(q)
    <3>1. /\ \E d : prj' = [prj EXCEPT !.dep = d]
          /\ prjLog' = prjLog \/ \E S : prjLog' = Owing(prjLog, S)
      BY <1>a, <2>6, Relates
    <3>2. prj'.node = prj.node /\ prjLog'.want = prjLog.want /\ prjLog'.stale = prjLog.stale
      BY <1>a, <3>1 DEF Owing, PrjRecord, PrjLogRecord
    <3> QED BY <1>b, <3>2
  <2>8. CASE DeleteTeam(q)
    <3> DEFINE leaves(node, t) == [node EXCEPT !.team = IF @ = t THEN NoTeam ELSE @]
    <3>1. PICK t \in prj.team : /\ prj' = [prj EXCEPT !.team = @ \ {t}, !.node = [p \in Projects |-> leaves(Node(p), t)]]
                                /\ prjLog' = [prjLog EXCEPT !.want = [p \in Projects |-> leaves(prjLog.want[p], t)]]
      BY Zenon, <2>8 DEF DeleteTeam
    <3> HIDE DEF leaves
    <3>2. /\ prj'.node = [p \in Projects |-> leaves(Node(p), t)]
          /\ prjLog'.want = [p \in Projects |-> leaves(prjLog.want[p], t)]
          /\ prjLog'.stale = prjLog.stale
      BY <1>a, <3>1 DEF PrjRecord, PrjLogRecord
    <3> QED BY <3>2 DEF ProjectsAsAsked, Node
  <2>9. CASE DeleteProjectType(q)
    <3> DEFINE leaves(node, t) == [node EXCEPT !.types = @ \ {t}]
    <3>1. PICK t \in igr.type : /\ prj' = [prj EXCEPT !.node = [p \in Projects |-> leaves(Node(p), t)]]
                                /\ prjLog' = [prjLog EXCEPT !.want = [p \in Projects |-> leaves(prjLog.want[p], t)]]
      BY Zenon, <2>9 DEF DeleteProjectType
    <3> HIDE DEF leaves
    <3>2. /\ prj'.node = [p \in Projects |-> leaves(Node(p), t)]
          /\ prjLog'.want = [p \in Projects |-> leaves(prjLog.want[p], t)]
          /\ prjLog'.stale = prjLog.stale
      BY <1>a, <3>1 DEF PrjRecord, PrjLogRecord
    <3> QED BY <3>2 DEF ProjectsAsAsked, Node
  <2>10. CASE DeleteEnvironment(q)
    <3> DEFINE leaves(node, e) == [node EXCEPT !.envs[e] = "none"]
    <3>1. PICK e \in prj.env : /\ prj' = [prj EXCEPT !.env = @ \ {e}, !.node = [p \in Projects |-> leaves(Node(p), e)]]
                               /\ prjLog' = [prjLog EXCEPT !.want = [p \in Projects |-> leaves(prjLog.want[p], e)]]
      BY Zenon, <2>10 DEF DeleteEnvironment
    <3> HIDE DEF leaves
    <3>2. /\ prj'.node = [p \in Projects |-> leaves(Node(p), e)]
          /\ prjLog'.want = [p \in Projects |-> leaves(prjLog.want[p], e)]
          /\ prjLog'.stale = prjLog.stale
      BY <1>a, <3>1 DEF PrjRecord, PrjLogRecord
    <3> QED BY <3>2 DEF ProjectsAsAsked, Node
  <2>11. CASE WriteLinks(q)
    <3>1. l.at = "life.linkset"
      BY <2>11 DEF WriteLinks, At
    <3>2. l.p \in Projects
      BY <1>a, <3>1 DEF LocalsOK, HasProject, HasEvents, CallLabels, LinkLabels
    <3>3. CASE ~Node(l.p).there
      BY <1>b, <2>11, <3>3 DEF WriteLinks
    <3>4. CASE Node(l.p).there
      <4> DEFINE w == Linked(prjLog.want[l.p].links, l.i, l.add)
                 k == Linked(l.links, l.i, l.add)
                 s == IF Node(l.p).links = l.links THEN prjLog.stale ELSE prjLog.stale \cup {l.p}
                 node == [Node(l.p) EXCEPT !.links = k]
                 want == [prjLog.want[l.p] EXCEPT !.links = w]
      <4>1. /\ prj' = [prj EXCEPT !.node[l.p].links = k]
            /\ prjLog' = [prjLog EXCEPT
                 !.want[l.p].links = Linked(@, l.i, l.add),
                 !.stale = IF Node(l.p).links = l.links THEN @ ELSE @ \cup {l.p}]
        BY Zenon, <2>11, <3>4 DEF WriteLinks
      <4>2. prjLog' = [prjLog EXCEPT !.want[l.p].links = w, !.stale = s]
        BY <4>1
      <4>3. node = want \/ l.p \in s
        BY <3>2 DEF ProjectsAsAsked
      <4>4. prjLog.stale \ {l.p} \subseteq s
        OBVIOUS
      <4> HIDE DEF w, k, s
      <4>5. /\ prj'.node = [prj.node EXCEPT ![l.p] = node]
            /\ prjLog'.want = [prjLog.want EXCEPT ![l.p] = want] /\ prjLog'.stale = s
        BY <1>a, <3>2, <4>1, <4>2 DEF Node, PrjRecord, PrjLogRecord
      <4> HIDE DEF node, want, l
      <4> QED BY <1>c, <3>2, <4>3, <4>4, <4>5
    <3> QED BY <3>3, <3>4
  <2> QED BY <1>4, <2>1, <2>2, <2>3, <2>4, <2>5, <2>6, <2>8, <2>9, <2>10, <2>11 DEF PrjSaved
<1> QED BY <1>1, <1>2, <1>3, <1>4, PrjMoves

\* What the writes of integrations do, field by field.
IgrBecomes(node, typed, on) == igr'.node = node /\ igr'.typed = typed /\ igr'.on = on
IgrNoted(torn, caps, creds, stale, bad) ==
  /\ igrLog'.torn = igrLog.torn \cup (Resolving \X torn)
  /\ igrLog'.caps = caps /\ igrLog'.creds = creds /\ igrLog'.stale = stale /\ igrLog'.badSince = bad
  /\ igrLog'.missed = igrLog.missed /\ igrLog'.overdue = igrLog.overdue

LEMMA IntegrationCreated ==
    ASSUME TypeInv, NEW q \in Slots, CreateIntegration(q)
    PROVE  \E i \in Integrations, caps \in SUBSET Kinds :
             /\ ~Here(i) /\ Begin(q, Idle) /\ UNCHANGED login /\ igrLog'.raced = igrLog.raced
             /\ IgrBecomes([igr.node EXCEPT ![i] = Installed(caps)], igr.typed, igr.on)
             /\ IgrNoted({i}, [igrLog.caps EXCEPT ![i] = caps], [igrLog.creds EXCEPT ![i] = {}],
                         igrLog.stale \ {i}, igrLog.badSince)
<1>1. PICK i \in Integrations, caps \in SUBSET Kinds :
        /\ ~Here(i) /\ Begin(q, Idle) /\ UNCHANGED login
        /\ igr' = [igr EXCEPT !.node[i] = Installed(caps)]
        /\ igrLog' = [Tear(igrLog, {i}) EXCEPT !.caps[i] = caps, !.creds[i] = {}, !.stale = @ \ {i}]
  BY Zenon DEF CreateIntegration
<1> DEFINE L == Tear(igrLog, {i})
<1>2. /\ L \in IgrLogRecord /\ L.torn = igrLog.torn \cup (Resolving \X {i})
      /\ \A f \in {"caps", "creds", "stale", "raced", "missed", "badSince", "overdue"} : L[f] = igrLog[f]
  BY TearTypes DEF TypeInv
<1>3. IgrBecomes([igr.node EXCEPT ![i] = Installed(caps)], igr.typed, igr.on)
  BY <1>1 DEF IgrBecomes, TypeInv, IgrInv, IgrRecord
<1> HIDE DEF L
<1>4. igrLog' = [L EXCEPT !.caps[i] = caps, !.creds[i] = {}, !.stale = @ \ {i}]
  BY <1>1 DEF L
<1>5. /\ IgrNoted({i}, [igrLog.caps EXCEPT ![i] = caps], [igrLog.creds EXCEPT ![i] = {}],
                  igrLog.stale \ {i}, igrLog.badSince)
      /\ igrLog'.raced = igrLog.raced
  BY <1>2, <1>4 DEF IgrNoted, IgrLogRecord
<1> QED BY <1>1, <1>3, <1>5

LEMMA IntegrationUpdated ==
    ASSUME TypeInv, NEW q \in Slots, UpdateIntegrationSave(q)
    PROVE  LET l == req[q] IN
           /\ l.at = "int.save" /\ l.i \in Integrations /\ l.read \in SUBSET Kinds /\ Step(q, "int.save", Idle)
           /\ \/ UNCHANGED <<igr, login, igrLog>>
              \/ \E k \in Kinds, on \in BOOLEAN :
                   /\ UNCHANGED login /\ igrLog'.raced = igrLog.raced
                   /\ IgrBecomes([igr.node EXCEPT ![l.i] = [@ EXCEPT !.caps = Toggled(l.read, k, on)]],
                                 igr.typed, igr.on)
                   /\ IgrNoted({l.i}, [igrLog.caps EXCEPT ![l.i] = Toggled(igrLog.caps[l.i], k, on)], igrLog.creds,
                               IF igr.node[l.i].caps = l.read THEN igrLog.stale ELSE igrLog.stale \cup {l.i},
                               [igrLog.badSince EXCEPT ![l.i] = Ceases(l.i)])
<1> DEFINE l == req[q]
<1>1. l.at = "int.save" /\ LocalsOK(l) /\ igr \in IgrRecord
  BY DEF UpdateIntegrationSave, At, TypeInv, PoolInv, IgrInv
<1>2. l.i \in Integrations /\ l.read \in SUBSET Kinds
  BY <1>1 DEF LocalsOK, HasIntegration
<1>3. CASE ~Here(l.i)
  BY <1>1, <1>2, <1>3 DEF UpdateIntegrationSave, WaitI
<1>4. CASE Here(l.i)
  <2>1. PICK k \in Kinds, on \in BOOLEAN :
          /\ Step(q, "int.save", Idle) /\ UNCHANGED login
          /\ igr' = [igr EXCEPT !.node[l.i].caps = Toggled(l.read, k, on)]
          /\ igrLog' = [Tear(igrLog, {l.i}) EXCEPT
               !.caps[l.i] = Toggled(@, k, on),
               !.stale = IF igr.node[l.i].caps = l.read THEN @ ELSE @ \cup {l.i},
               !.badSince[l.i] = Ceases(l.i)]
    BY ZenonT(40), <1>4 DEF UpdateIntegrationSave
  <2> DEFINE L == Tear(igrLog, {l.i})
             c == Toggled(igrLog.caps[l.i], k, on)
             b == Ceases(l.i)
             s == IF igr.node[l.i].caps = l.read THEN igrLog.stale ELSE igrLog.stale \cup {l.i}
  <2>2. /\ L \in IgrLogRecord /\ L.torn = igrLog.torn \cup (Resolving \X {l.i})
        /\ \A f \in {"caps", "creds", "stale", "raced", "missed", "badSince", "overdue"} : L[f] = igrLog[f]
    BY <1>2, TearTypes DEF TypeInv
  <2>3. IgrBecomes([igr.node EXCEPT ![l.i] = [@ EXCEPT !.caps = Toggled(l.read, k, on)]], igr.typed, igr.on)
    BY <1>1, <2>1 DEF IgrBecomes, IgrRecord
  <2>4. igrLog' = [L EXCEPT !.caps[l.i] = c, !.stale = s, !.badSince[l.i] = b]
    BY <2>1, <2>2
  <2> HIDE DEF L, c, b, s
  <2>5. IgrNoted({l.i}, [igrLog.caps EXCEPT ![l.i] = c], igrLog.creds, s, [igrLog.badSince EXCEPT ![l.i] = b])
        /\ igrLog'.raced = igrLog.raced
    BY <2>2, <2>4 DEF IgrNoted, IgrLogRecord
  <2> QED BY <1>1, <1>2, <2>1, <2>3, <2>5 DEF c, b, s
<1> QED BY <1>3, <1>4

LEMMA IntegrationDeleted ==
    ASSUME TypeInv, NEW q \in Slots, DeleteIntegration(q)
    PROVE  \E i \in Integrations :
             /\ Here(i) /\ Begin(q, Idle) /\ UNCHANGED login /\ igrLog'.raced = igrLog.raced
             /\ IgrBecomes([igr.node EXCEPT ![i] = NoIntegration], {e \in igr.typed : e[2] # i}, igr.on)
             /\ IgrNoted({i}, [igrLog.caps EXCEPT ![i] = {}], [igrLog.creds EXCEPT ![i] = {}],
                         igrLog.stale \ {i}, [igrLog.badSince EXCEPT ![i] = Ceases(i)])
<1>1. PICK i \in Integrations :
        /\ Here(i) /\ Begin(q, Idle) /\ UNCHANGED login
        /\ igr' = [igr EXCEPT !.node[i] = NoIntegration,
                              !.typed = {e \in @ : e[2] # i},
                              !.owned = {e \in @ : e[2] # i},
                              !.exists = {e \in @ : e[2] # i}]
        /\ igrLog' = [Tear(igrLog, {i}) EXCEPT
             !.caps[i] = {}, !.creds[i] = {}, !.stale = @ \ {i}, !.badSince[i] = Ceases(i)]
  BY Zenon DEF DeleteIntegration
<1> DEFINE L == Tear(igrLog, {i})
           b == Ceases(i)
<1>2. /\ L \in IgrLogRecord /\ L.torn = igrLog.torn \cup (Resolving \X {i})
      /\ \A f \in {"caps", "creds", "stale", "raced", "missed", "badSince", "overdue"} : L[f] = igrLog[f]
  BY TearTypes DEF TypeInv
<1>3. IgrBecomes([igr.node EXCEPT ![i] = NoIntegration], {e \in igr.typed : e[2] # i}, igr.on)
  BY <1>1 DEF IgrBecomes, TypeInv, IgrInv, IgrRecord
<1>4. igrLog' = [L EXCEPT !.caps[i] = {}, !.creds[i] = {}, !.stale = @ \ {i}, !.badSince[i] = b]
  BY <1>1
<1> HIDE DEF L, b
<1>5. /\ IgrNoted({i}, [igrLog.caps EXCEPT ![i] = {}], [igrLog.creds EXCEPT ![i] = {}],
                  igrLog.stale \ {i}, [igrLog.badSince EXCEPT ![i] = b])
      /\ igrLog'.raced = igrLog.raced
  BY <1>2, <1>4 DEF IgrNoted, IgrLogRecord
<1> QED BY <1>1, <1>3, <1>5 DEF b

LEMMA LoginCleared ==
    ASSUME TypeInv, NEW q \in Slots, ClearLogin(q)
    PROVE  LET l == req[q] IN
           /\ l.at = "login.clear" /\ l.i \in Integrations /\ l.on /\ Step(q, "login.clear", To(q, "login.set"))
           /\ UNCHANGED login /\ igrLog'.raced = igrLog.raced
           /\ IgrBecomes([i \in Integrations |-> [igr.node[i] EXCEPT !.login = IF i = l.i THEN @ ELSE FALSE]],
                         igr.typed, igr.on)
           /\ IgrNoted({}, igrLog.caps, igrLog.creds, igrLog.stale,
                       [i \in Integrations |-> IF i = l.i THEN igrLog.badSince[i] ELSE Ceases(i)])
<1> DEFINE l == req[q]
           b == [i \in Integrations |-> IF i = l.i THEN igrLog.badSince[i] ELSE Ceases(i)]
<1>1. /\ Step(q, "login.clear", To(q, "login.set")) /\ UNCHANGED login
      /\ igr' = [igr EXCEPT !.node = [i \in Integrations |->
               [igr.node[i] EXCEPT !.login = IF i = l.i THEN @ ELSE FALSE]]]
      /\ igrLog' = [igrLog EXCEPT !.badSince = b]
  BY DEF ClearLogin
<1>2. l.at = "login.clear" /\ LocalsOK(l) /\ igrLog \in IgrLogRecord /\ igr \in IgrRecord
  BY <1>1 DEF Step, At, TypeInv, PoolInv, IgrInv
<1>3. l.i \in Integrations /\ l.on
  BY <1>2 DEF LocalsOK, HasIntegration, LoginLabels
<1>4. IgrBecomes([i \in Integrations |-> [igr.node[i] EXCEPT !.login = IF i = l.i THEN @ ELSE FALSE]],
                 igr.typed, igr.on)
  BY <1>1, <1>2 DEF IgrBecomes, IgrRecord
<1> HIDE DEF b
<1>5. IgrNoted({}, igrLog.caps, igrLog.creds, igrLog.stale, b) /\ igrLog'.raced = igrLog.raced
  BY <1>1, <1>2 DEF IgrNoted, IgrLogRecord
<1> QED BY <1>1, <1>2, <1>3, <1>4, <1>5 DEF b

LEMMA LoginWritten ==
    ASSUME TypeInv, NEW q \in Slots, WriteLogin(q)
    PROVE  LET l == req[q] IN
           /\ l.at = "login.set" /\ l.i \in Integrations /\ l.on \in BOOLEAN /\ Step(q, "login.set", Idle)
           /\ login'.cache = {} /\ login'.now = login.now
           /\ igrLog'.raced = (igrLog.raced \/ \E o \in Slots \ {q} : req[o].at \in {"login.clear", "login.set"})
           /\ IgrBecomes([igr.node EXCEPT ![l.i] = [@ EXCEPT !.login = Here(l.i) /\ l.on]], igr.typed, igr.on)
           /\ IgrNoted({}, igrLog.caps, igrLog.creds, igrLog.stale, [igrLog.badSince EXCEPT ![l.i] = Ceases(l.i)])
<1> DEFINE l == req[q]
           r == igrLog.raced \/ \E o \in Slots \ {q} : req[o].at \in {"login.clear", "login.set"}
           b == Ceases(l.i)
           v == Here(l.i) /\ l.on
<1>1. /\ Step(q, "login.set", Idle) /\ login' = [login EXCEPT !.cache = {}]
      /\ igr' = [igr EXCEPT !.node[l.i].login = v]
      /\ igrLog' = [igrLog EXCEPT !.raced = r, !.badSince[l.i] = b]
  BY DEF WriteLogin
<1>2. l.at = "login.set" /\ LocalsOK(l) /\ igrLog \in IgrLogRecord /\ igr \in IgrRecord /\ login \in LoginRecord
  BY <1>1 DEF Step, At, TypeInv, PoolInv, IgrInv
<1>3. l.i \in Integrations /\ l.on \in BOOLEAN
  BY <1>2 DEF LocalsOK, HasIntegration, LoginLabels
<1>4. v \in BOOLEAN /\ r \in BOOLEAN
  OBVIOUS
<1> HIDE DEF v, r, b
<1>5. IgrBecomes([igr.node EXCEPT ![l.i] = [@ EXCEPT !.login = v]], igr.typed, igr.on)
  BY <1>1, <1>2, <1>4 DEF IgrBecomes, IgrRecord
<1>6. /\ IgrNoted({}, igrLog.caps, igrLog.creds, igrLog.stale, [igrLog.badSince EXCEPT ![l.i] = b])
      /\ igrLog'.raced = r
  BY <1>1, <1>2, <1>4 DEF IgrNoted, IgrLogRecord
<1>7. login'.cache = {} /\ login'.now = login.now
  BY <1>1, <1>2 DEF LoginRecord
<1> QED BY <1>1, <1>2, <1>3, <1>5, <1>6, <1>7 DEF v, r, b

LEMMA Assigned_ ==
    ASSUME TypeInv, NEW q \in Slots, WriteTypeAssignments(q)
    PROVE  LET l == req[q] IN
           /\ l.i \in Integrations /\ Step(q, "typed.save", Idle) /\ UNCHANGED login
           /\ igr'.node = igr.node /\ igr'.on = igr.on
           /\ \A t, i : i # l.i => (<<t, i>> \in igr'.typed <=> <<t, i>> \in igr.typed)
           /\ {e \in igr'.typed : e[2] # l.i} = {e \in igr.typed : e[2] # l.i}
           /\ igrLog'.raced = igrLog.raced
           /\ IgrNoted({l.i}, igrLog.caps, igrLog.creds, igrLog.stale, igrLog.badSince)
<1> DEFINE l == req[q]
<1>1. /\ Step(q, "typed.save", Idle) /\ UNCHANGED login
      /\ igr' = IF ~Here(l.i) THEN igr
                ELSE [igr EXCEPT !.typed = {e \in @ : e[2] # l.i} \cup ((l.types \cap igr.type) \X {l.i})]
      /\ igrLog' = Tear(igrLog, {l.i})
  BY DEF WriteTypeAssignments
<1>2. l.at = "typed.save" /\ LocalsOK(l) /\ igrLog \in IgrLogRecord /\ igr \in IgrRecord
  BY <1>1 DEF Step, At, TypeInv, PoolInv, IgrInv
<1>3. l.i \in Integrations
  BY <1>2 DEF LocalsOK, HasIntegration, TypedLabels
<1>4. /\ igr'.node = igr.node /\ igr'.on = igr.on
      /\ igr'.typed = igr.typed \/ igr'.typed = {e \in igr.typed : e[2] # l.i} \cup ((l.types \cap igr.type) \X {l.i})
  BY <1>1, <1>2 DEF IgrRecord
<1>5. IgrNoted({l.i}, igrLog.caps, igrLog.creds, igrLog.stale, igrLog.badSince) /\ igrLog'.raced = igrLog.raced
  BY <1>1, <1>3, TearTypes DEF IgrNoted, TypeInv
<1>6. \A t, i : i # l.i => (<<t, i>> \in igr'.typed <=> <<t, i>> \in igr.typed)
  BY <1>4
<1>7. {e \in igr'.typed : e[2] # l.i} = {e \in igr.typed : e[2] # l.i}
  BY <1>4
<1> QED BY <1>1, <1>3, <1>4, <1>5, <1>6, <1>7

LEMMA PluginRegistered ==
    ASSUME TypeInv, NEW q \in Slots, UpdatePluginRegistration(q)
    PROVE  /\ Begin(q, Idle) /\ UNCHANGED login /\ igr'.node = igr.node /\ igr'.typed = igr.typed
           /\ igrLog'.raced = igrLog.raced
           /\ IgrNoted(Integrations, igrLog.caps, igrLog.creds, igrLog.stale, igrLog.badSince)
<1>1. PICK on \in BOOLEAN : /\ Begin(q, Idle) /\ UNCHANGED login
                            /\ igr' = [igr EXCEPT !.on = on] /\ igrLog' = Tear(igrLog, Integrations)
  BY DEF UpdatePluginRegistration
<1>2. IgrNoted(Integrations, igrLog.caps, igrLog.creds, igrLog.stale, igrLog.badSince) /\ igrLog'.raced = igrLog.raced
  BY <1>1, TearTypes DEF IgrNoted, TypeInv
<1> QED BY <1>1, <1>2 DEF TypeInv, IgrInv, IgrRecord

LEMMA CredentialsSaved ==
    ASSUME TypeInv, NEW q \in Slots, SaveCredentials(q)
    PROVE  LET l == req[q] IN
           /\ l.i \in Integrations
           /\ \/ UNCHANGED <<igr, login, igrLog>>
              \/ /\ igr.node[l.i].creds = l.read /\ UNCHANGED login /\ igrLog'.raced = igrLog.raced
                 /\ IgrBecomes([igr.node EXCEPT ![l.i] = [@ EXCEPT !.creds = Toggled(l.read, l.f, l.on)]],
                               igr.typed, igr.on)
                 /\ IgrNoted({}, igrLog.caps, [igrLog.creds EXCEPT ![l.i] = Toggled(igrLog.creds[l.i], l.f, l.on)],
                             igrLog.stale, igrLog.badSince)
<1> DEFINE l == req[q]
<1>1. l.at = "cred.save" /\ LocalsOK(l) /\ igrLog \in IgrLogRecord /\ igr \in IgrRecord
  BY DEF SaveCredentials, At, TypeInv, PoolInv, IgrInv
<1>2. l.i \in Integrations
  BY <1>1 DEF LocalsOK, HasIntegration, CredLabels
<1>3. CASE UNCHANGED <<igr, login, igrLog>>
  BY <1>2, <1>3
<1>4. CASE /\ igr.node[l.i].creds = l.read /\ UNCHANGED login
           /\ igr' = [igr EXCEPT !.node[l.i].creds = Toggled(l.read, l.f, l.on)]
           /\ igrLog' = [igrLog EXCEPT !.creds[l.i] = Toggled(@, l.f, l.on)]
  <2>1. IgrBecomes([igr.node EXCEPT ![l.i] = [@ EXCEPT !.creds = Toggled(l.read, l.f, l.on)]], igr.typed, igr.on)
    BY <1>1, <1>4 DEF IgrBecomes, IgrRecord
  <2>2. IgrNoted({}, igrLog.caps, [igrLog.creds EXCEPT ![l.i] = Toggled(igrLog.creds[l.i], l.f, l.on)],
                 igrLog.stale, igrLog.badSince) /\ igrLog'.raced = igrLog.raced
    BY <1>1, <1>4 DEF IgrNoted, IgrLogRecord
  <2> QED BY <1>2, <1>4, <2>1, <2>2
<1> QED BY <1>3, <1>4 DEF SaveCredentials, WaitI

\* What the rest of the program leaves of them.
LEMMA IgrTouchedFrame ==
    ASSUME TypeInv, NEW q \in Slots, IgrTouched(q)
    PROVE  /\ igr'.node = igr.node /\ igr'.on = igr.on /\ login' = login
           /\ \A f \in {"caps", "creds", "stale", "raced", "badSince", "overdue"} : igrLog'[f] = igrLog[f]
<1>a. igr \in IgrRecord /\ igrLog \in IgrLogRecord
  BY DEF TypeInv, IgrInv
<1>1. CASE ResolveEdges(q)
  <2>1. /\ UNCHANGED <<igr, login>>
        /\ igrLog' = igrLog \/ igrLog' = [igrLog EXCEPT !.torn = {x \in @ : x[1] # q}]
    BY <1>1 DEF ResolveEdges, Unheard, IgrSame
  <2> QED BY <1>a, <2>1 DEF IgrLogRecord
<1>2. CASE ResolveEnabled(q)
  <2>1. PICK S : UNCHANGED <<igr, login>> /\ igrLog' = [igrLog EXCEPT !.missed = @ \cup S]
    BY Zenon, <1>2 DEF ResolveEnabled
  <2> QED BY <1>a, <2>1 DEF IgrLogRecord
<1>3. CASE WriteService(q) \/ CreateProjectService(q) \/ DeleteProjectService(q)
  <2>1. UNCHANGED <<login, igrLog>> /\ (igr' = igr \/ \E S : igr' = [igr EXCEPT !.exists = S])
    <3>1. CASE WriteService(q)
      BY <1>a, <3>1 DEF WriteService, IgrRecord
    <3>2. CASE CreateProjectService(q)
      BY <1>a, <3>2 DEF CreateProjectService, IgrRecord
    <3>3. CASE DeleteProjectService(q)
      BY <1>a, <3>3 DEF DeleteProjectService, IgrRecord
    <3> QED BY <1>3, <3>1, <3>2, <3>3
  <2> QED BY <1>a, <2>1 DEF IgrRecord
<1>4. CASE DeleteProjectNode(q)
  <2>1. UNCHANGED <<login, igrLog>> /\ (igr' = igr \/ \E O, S : igr' = [igr EXCEPT !.owned = O, !.exists = S])
    BY <1>a, <1>4 DEF DeleteProjectNode, WaitP, IgrRecord
  <2> QED BY <1>a, <2>1 DEF IgrRecord
<1>5. CASE ReplaceAssignments(q)
  <2>1. UNCHANGED <<login, igrLog>> /\ (igr' = igr \/ \E O : igr' = [igr EXCEPT !.owned = O])
    BY <1>a, <1>5 DEF ReplaceAssignments, IgrRecord
  <2> QED BY <1>a, <2>1 DEF IgrRecord
<1>6. CASE DeleteProjectType(q)
  <2>1. PICK t \in igr.type :
          /\ igr' = [igr EXCEPT !.type = @ \ {t}, !.typed = {e \in @ : e[1] # t}]
          /\ igrLog' = Tear(igrLog, {e[2] : e \in {x \in igr.typed : x[1] = t}}) /\ UNCHANGED login
    BY <1>6 DEF DeleteProjectType
  <2>2. {e[2] : e \in {x \in igr.typed : x[1] = t}} \in SUBSET Integrations
    BY <1>a DEF IgrRecord
  <2> QED BY <1>a, <2>1, <2>2, TearTypes DEF TypeInv, IgrRecord
<1> QED BY <1>1, <1>2, <1>3, <1>4, <1>5, <1>6 DEF IgrTouched

LEMMA PutStep ==
    ASSUME TypeInv, IntegrationsAsPut, [Next]_projectVars
    PROVE  IntegrationsAsPut'
<1>a. /\ igr \in IgrRecord /\ igrLog \in IgrLogRecord
      /\ \A i \in Integrations : igr.node[i] \in IntegrationRecord
  BY DEF TypeInv, IgrInv, IgrRecord
<1>b. ASSUME igr'.node = igr.node, igrLog'.caps = igrLog.caps, igrLog'.creds = igrLog.creds,
             igrLog'.stale = igrLog.stale
      PROVE  IntegrationsAsPut'
  BY <1>b DEF IntegrationsAsPut
<1>1. CASE UNCHANGED <<igr, login, igrLog>> \/ LoginTick
  BY <1>1, <1>b DEF LoginTick
<1>2. ASSUME NEW q \in Slots, IgrTouched(q)
      PROVE  IntegrationsAsPut'
  BY <1>2, <1>b, IgrTouchedFrame
<1>3. ASSUME NEW q \in Slots, IgrSaved(q)
      PROVE  IntegrationsAsPut'
  <2> DEFINE l == req[q]
  <2>1. CASE CreateIntegration(q)
    <3>1. PICK i \in Integrations, caps \in SUBSET Kinds :
            /\ IgrBecomes([igr.node EXCEPT ![i] = Installed(caps)], igr.typed, igr.on)
            /\ IgrNoted({i}, [igrLog.caps EXCEPT ![i] = caps], [igrLog.creds EXCEPT ![i] = {}],
                        igrLog.stale \ {i}, igrLog.badSince)
      BY <2>1, IntegrationCreated
    <3> QED BY <1>a, <3>1 DEF IgrBecomes, IgrNoted, IntegrationsAsPut, Installed, IgrRecord, IgrLogRecord
  <2>2. CASE UpdateIntegrationSave(q)
    <3> USE IntegrationUpdated
    <3>1. l.i \in Integrations
      BY <2>2
    <3>2. CASE UNCHANGED <<igr, login, igrLog>>
      BY <1>b, <3>2
    <3>3. CASE ~UNCHANGED <<igr, login, igrLog>>
      <4>1. PICK k \in Kinds, on \in BOOLEAN :
              /\ IgrBecomes([igr.node EXCEPT ![l.i] = [@ EXCEPT !.caps = Toggled(l.read, k, on)]],
                            igr.typed, igr.on)
              /\ IgrNoted({l.i}, [igrLog.caps EXCEPT ![l.i] = Toggled(igrLog.caps[l.i], k, on)], igrLog.creds,
                          IF igr.node[l.i].caps = l.read THEN igrLog.stale ELSE igrLog.stale \cup {l.i},
                          [igrLog.badSince EXCEPT ![l.i] = Ceases(l.i)])
        BY <2>2, <3>3
      <4>2. /\ \A j \in Integrations \ {l.i} : igr'.node[j] = igr.node[j] /\ igrLog'.caps[j] = igrLog.caps[j]
            /\ igr'.node[l.i].creds = igr.node[l.i].creds /\ igrLog'.creds = igrLog.creds
            /\ igr'.node[l.i].caps = Toggled(l.read, k, on)
            /\ igrLog'.caps[l.i] = Toggled(igrLog.caps[l.i], k, on)
            /\ igrLog.stale \subseteq igrLog'.stale
            /\ igr.node[l.i].caps # l.read => l.i \in igrLog'.stale
        BY <1>a, <3>1, <4>1 DEF IgrBecomes, IgrNoted, IgrRecord, IgrLogRecord, IntegrationRecord
      <4> QED BY <3>1, <4>2 DEF IntegrationsAsPut
    <3> QED BY <3>2, <3>3
  <2>3. CASE DeleteIntegration(q)
    <3>1. PICK i \in Integrations :
            /\ IgrBecomes([igr.node EXCEPT ![i] = NoIntegration], {e \in igr.typed : e[2] # i}, igr.on)
            /\ IgrNoted({i}, [igrLog.caps EXCEPT ![i] = {}], [igrLog.creds EXCEPT ![i] = {}],
                        igrLog.stale \ {i}, [igrLog.badSince EXCEPT ![i] = Ceases(i)])
      BY <2>3, IntegrationDeleted
    <3> QED BY <1>a, <3>1 DEF IgrBecomes, IgrNoted, IntegrationsAsPut, NoIntegration, IgrRecord, IgrLogRecord
  <2>4. CASE ClearLogin(q)
    <3>1. /\ igr'.node = [i \in Integrations |-> [igr.node[i] EXCEPT !.login = IF i = l.i THEN @ ELSE FALSE]]
          /\ igrLog'.caps = igrLog.caps /\ igrLog'.creds = igrLog.creds /\ igrLog'.stale = igrLog.stale
      BY <2>4, LoginCleared DEF IgrBecomes, IgrNoted
    <3> QED BY <1>a, <3>1 DEF IntegrationsAsPut, IntegrationRecord
  <2>5. CASE WriteLogin(q)
    <3>1. /\ igr'.node = [igr.node EXCEPT ![l.i] = [@ EXCEPT !.login = Here(l.i) /\ l.on]] /\ l.i \in Integrations
          /\ igrLog'.caps = igrLog.caps /\ igrLog'.creds = igrLog.creds /\ igrLog'.stale = igrLog.stale
      BY <2>5, LoginWritten DEF IgrBecomes, IgrNoted
    <3> DEFINE v == Here(l.i) /\ l.on
    <3> HIDE DEF v
    <3>2. \A i \in Integrations : igr'.node[i].caps = igr.node[i].caps /\ igr'.node[i].creds = igr.node[i].creds
      BY <1>a, <3>1 DEF IgrRecord, IntegrationRecord
    <3> QED BY <3>1, <3>2 DEF IntegrationsAsPut
  <2>6. CASE WriteTypeAssignments(q)
    BY <1>b, <2>6, Assigned_ DEF IgrNoted
  <2>7. CASE UpdatePluginRegistration(q)
    BY <1>b, <2>7, PluginRegistered DEF IgrNoted
  <2>8. CASE SaveCredentials(q)
    <3>1. l.i \in Integrations
      BY <2>8, CredentialsSaved
    <3>2. CASE UNCHANGED <<igr, login, igrLog>>
      BY <1>b, <3>2
    <3>3. CASE ~UNCHANGED <<igr, login, igrLog>>
      <4>1. /\ igr.node[l.i].creds = l.read
            /\ igr'.node = [igr.node EXCEPT ![l.i] = [@ EXCEPT !.creds = Toggled(l.read, l.f, l.on)]]
            /\ igrLog'.creds = [igrLog.creds EXCEPT ![l.i] = Toggled(igrLog.creds[l.i], l.f, l.on)]
            /\ igrLog'.caps = igrLog.caps /\ igrLog'.stale = igrLog.stale
        BY <2>8, <3>3, CredentialsSaved DEF IgrBecomes, IgrNoted
      <4> QED BY <1>a, <3>1, <4>1 DEF IntegrationsAsPut, IgrRecord, IgrLogRecord, IntegrationRecord
    <3> QED BY <3>2, <3>3
  <2>9. CASE GetLoginApp(q)
    <3>1. UNCHANGED igr /\ (igrLog' = igrLog \/ \E S : igrLog' = [igrLog EXCEPT !.overdue = S])
      BY <1>a, <2>9 DEF GetLoginApp, LookI, Served, IgrLogRecord
    <3> QED BY <1>a, <1>b, <3>1 DEF IgrLogRecord
  <2>10. CASE StoreLoginApp(q)
    BY <1>b, <2>10 DEF StoreLoginApp
  <2> QED BY <1>3, <2>1, <2>2, <2>3, <2>4, <2>5, <2>6, <2>7, <2>8, <2>9, <2>10 DEF IgrSaved
<1> QED BY <1>1, <1>2, <1>3, IgrMoves

\* Projects, and the integrations they are bound to, are as their operators and
\* plugins last asked, but for what was written over a change it had not read.
THEOREM ProjectsKept == Spec => []KeptAsAsked
<1>1. Init => KeptAsAsked
  <2> SUFFICES ASSUME Init PROVE KeptAsAsked
    OBVIOUS
  <2>1. ProjectsAsAsked
    BY Starts DEF Started, ProjectsAsAsked, Node
  <2>2. IntegrationsAsPut
    BY DEF Init, IgrInit, IntegrationsAsPut, Installed
  <2> QED BY <2>1, <2>2 DEF KeptAsAsked
<1>2. TypeInv /\ KeptAsAsked /\ [Next]_projectVars => KeptAsAsked'
  BY KeptStep, PutStep DEF KeptAsAsked
<1> QED BY <1>1, <1>2, Typed, PTL DEF Spec

-----------------------------------------------------------------------------
(* Where a handler goes.                                                   *)

\* The events a request is still to bring to the plugin of i.
Coming(l, i) ==
  IF l.at \in TellLabels THEN {l.events[k] : k \in DOMAIN l.events}
  ELSE IF l.at \in ResolveLabels /\ ~l.deleting THEN {l.todo[k] : k \in DOMAIN l.todo}
  ELSE IF (l.at = "life.bundle" /\ ~l.deleting) \/ (l.at \in CallLabels /\ l.todo # <<>>)
  THEN {l.todo[k] : k \in {x \in DOMAIN l.todo : x > 1 \/ i \in l.rest}}
  ELSE {}

\* Only q moves.
Alone(q) == \A o \in Slots : o # q => req'[o] = req[o]

LEMMA Takes ==
    ASSUME TypeInv, NEW q \in Slots, NEW next, req' = [req EXCEPT ![q] = next]
    PROVE  req'[q] = next /\ Alone(q)
<1>1. DOMAIN req = Slots
  BY DEF TypeInv, PoolInv
<1> QED BY <1>1 DEF Alone

LEMMA TakesStep ==
    ASSUME TypeInv, NEW q \in Slots, NEW next, NEW label, Step(q, label, next)
    PROVE  req'[q] = next /\ req[q].at = label /\ Alone(q)
BY Takes DEF Step, At

LEMMA TakesBegin ==
    ASSUME TypeInv, NEW q \in Slots, NEW next, Begin(q, next)
    PROVE  req'[q] = next /\ req[q] = Idle /\ req[q].at = "idle" /\ Alone(q)
<1>1. req' = [req EXCEPT ![q] = next] /\ req[q] = Idle
  BY DEF Begin
<1>2. req'[q] = next /\ Alone(q)
  BY <1>1, Takes
<1> QED BY <1>1, <1>2 DEF Idle

\* The events are the same, for the same write of the same project.
Same(l, m) == /\ m.p = l.p /\ m.n = l.n /\ m.types = l.types
              /\ m.todo = l.todo /\ m.deleting = l.deleting

\* The events after the first.
Later(l) == {l.todo[k] : k \in {x \in DOMAIN l.todo : x > 1}}
Nexts(l, m) == /\ m.at \in {"idle", "life.edges"}
               /\ \A i : Coming(m, i) = Later(l)
               /\ m.at = "life.edges" => m.p = l.p /\ m.n = l.n /\ m.types = l.types /\ ~m.deleting

LEMMA NextLands ==
    ASSUME NEW l, l.todo \in Todos
    PROVE  Nexts(l, NextEvent(l))
<1> DEFINE t == Tail(l.todo)
           m == NextEvent(l)
<1>1. CASE t = <<>>
  <2>1. m = Idle
    BY <1>1 DEF NextEvent, Dispatch
  <2>2. DOMAIN l.todo = 1..1
    <3>1. <<"relocated">> # <<>>
      OBVIOUS
    <3>2. \/ Tail(l.todo) = <<"relocated">> /\ DOMAIN l.todo = 1..2
          \/ Tail(l.todo) = <<>> /\ DOMAIN l.todo = 1..1
      BY Zenon, TodoFacts
    <3> QED BY <1>1, <3>1, <3>2
  <2>3. Later(l) = {}
    BY <2>2 DEF Later
  <2>4. \A i : Coming(m, i) = {}
    BY <2>1 DEF Coming, Idle, TellLabels, ResolveLabels, ResolvedLabels, CallLabels, LinkLabels
  <2>5. m.at = "idle"
    BY <2>1 DEF Idle
  <2> HIDE DEF m
  <2>6. Nexts(l, m)
    BY <2>3, <2>4, <2>5 DEF Nexts
  <2> QED BY <2>6 DEF m
<1>2. CASE t # <<>>
  <2>1. l.todo = <<"updated", "relocated">> /\ t = <<"relocated">> /\ DOMAIN l.todo = 1..2
    BY <1>2, TodoFacts
  <2>2. m = [at |-> "life.edges", p |-> l.p, todo |-> t, n |-> l.n, types |-> l.types, deleting |-> FALSE]
    BY <1>2 DEF NextEvent, Dispatch
  <2>3. Later(l) = {"relocated"}
    BY <2>1 DEF Later
  <2>4. {t[k] : k \in DOMAIN t} = {"relocated"}
    BY <2>1
  <2>5. \A i : Coming(m, i) = {"relocated"}
    <3> HIDE DEF t
    <3> QED BY <2>2, <2>4 DEF Coming, TellLabels, ResolveLabels, ResolvedLabels, CallLabels, LinkLabels
  <2>6. m.at = "life.edges" /\ m.p = l.p /\ m.n = l.n /\ m.types = l.types /\ ~m.deleting
    BY <2>2
  <2> HIDE DEF m
  <2>7. Nexts(l, m)
    BY <2>3, <2>5, <2>6 DEF Nexts
  <2> QED BY <2>7 DEF m
<1> QED BY <1>1, <1>2

\* The calls of the present event go on with the plugins of R.
CallsOn(l, R, m) ==
  \/ Same(l, m) /\ m.at \in CallLabels /\ m.rest = R /\ m.bundle = l.bundle
  \/ R = {} /\ Nexts(l, m)

LEMMA CallsOnNext ==
    ASSUME NEW l, Calling(l), NEW R \in SUBSET Integrations
    PROVE  CallsOn(l, R, NextCall([l EXCEPT !.rest = R]))
<1> DEFINE r == [l EXCEPT !.rest = R]
           c == [r EXCEPT !.at = "life.call"]
<1>1. {"p", "at", "todo", "n", "types", "deleting", "rest", "bundle"} \subseteq DOMAIN l /\ l.todo \in Todos
  BY CallKinds DEF Calling
<1>2. /\ r.rest = R /\ r.p = l.p /\ r.n = l.n /\ r.types = l.types /\ r.todo = l.todo
      /\ r.deleting = l.deleting /\ r.bundle = l.bundle /\ DOMAIN r = DOMAIN l
  BY <1>1
<1> HIDE DEF r
<1>3. CASE R = {}
  <2>1. NextCall(r) = NextEvent(r) /\ Nexts(r, NextEvent(r))
    BY <1>1, <1>2, <1>3, NextLands DEF NextCall
  <2>2. Nexts(l, NextEvent(r))
    BY <1>2, <2>1 DEF Nexts, Later
  <2> QED BY <1>3, <2>1, <2>2 DEF CallsOn, r
<1>4. CASE R # {}
  <2>1. NextCall(r) = c
    BY <1>2, <1>4 DEF NextCall
  <2>2. Same(l, c) /\ c.at = "life.call" /\ c.rest = R /\ c.bundle = l.bundle
    BY <1>1, <1>2 DEF Same
  <2> QED BY <2>1, <2>2 DEF CallsOn, CallLabels, r
<1> QED BY <1>3, <1>4

\* A call of a plugin, made or failed.
LEMMA CallLands ==
    ASSUME TypeInv, NEW q \in Slots, CallPlugin(q)
    PROVE  LET l == req[q] IN
           /\ l.at = "life.call" /\ Calling(l) /\ Alone(q) /\ UNCHANGED prj
           /\ \E i \in l.rest :
                LET event == l.todo[1]
                    heard == [prjLog EXCEPT !.heard[l.p][i] = IF l.n > @ THEN l.n ELSE @] IN
                /\ CallsOn(l, l.rest \ {i}, req'[q])
                /\ IF repo[l.p][i].there \/ event = "created"
                   THEN /\ repo' = [repo EXCEPT ![l.p][i] = After(repo[l.p][i], event, l.bundle)]
                        /\ prjLog' = Apart(heard, l.p, IF Overtakes(l, i) THEN {i} ELSE {})
                   ELSE prjLog' = Apart(prjLog, l.p, {i}) /\ UNCHANGED repo
<1> DEFINE l == req[q]
<1>1. l.at = "life.call" /\ LocalsOK(l) /\ UNCHANGED prj
  BY DEF CallPlugin, At, TypeInv, PoolInv
<1>2. Calling(l) /\ l.rest \in SUBSET Integrations /\ {"rest", "at", "p", "todo", "n", "types", "deleting", "bundle"} \subseteq DOMAIN l
  BY <1>1, CallKinds DEF CallLabels
<1>3. PICK i \in l.rest :
        IF repo[l.p][i].there \/ l.todo[1] = "created"
        THEN /\ \E wb \in Writebacks(l.todo[1]) :
                  Step(q, "life.call", IF wb = "life.call" THEN NextCall([l EXCEPT !.rest = @ \ {i}])
                                       ELSE With([l EXCEPT !.rest = @ \ {i}], [at |-> wb, i |-> i, add |-> TRUE]))
             /\ repo' = [repo EXCEPT ![l.p][i] = After(repo[l.p][i], l.todo[1], l.bundle)]
             /\ prjLog' = Apart([prjLog EXCEPT !.heard[l.p][i] = IF l.n > @ THEN l.n ELSE @],
                                l.p, IF Overtakes(l, i) THEN {i} ELSE {})
        ELSE /\ Step(q, "life.call", NextCall([l EXCEPT !.rest = @ \ {i}]))
             /\ prjLog' = Apart(prjLog, l.p, {i}) /\ UNCHANGED repo
  BY Zenon DEF CallPlugin
<1> DEFINE R == l.rest \ {i}
           r == [l EXCEPT !.rest = @ \ {i}]
<1>4. R \in SUBSET Integrations /\ r = [l EXCEPT !.rest = R]
  BY <1>2
<1>5. CallsOn(l, R, NextCall(r))
  BY <1>2, <1>4, CallsOnNext
<1>6. \A wb \in {"life.service", "life.link"} :
        CallsOn(l, R, With(r, [at |-> wb, i |-> i, add |-> TRUE]))
  <2> SUFFICES ASSUME NEW wb \in {"life.service", "life.link"}
               PROVE  CallsOn(l, R, With(r, [at |-> wb, i |-> i, add |-> TRUE]))
    OBVIOUS
  <2> DEFINE m == With(r, [at |-> wb, i |-> i, add |-> TRUE])
  <2>1. m.at = wb /\ m.rest = R /\ \A f \in DOMAIN l \ {"at", "rest", "i", "add"} : m[f] = l[f]
    BY <1>2 DEF With
  <2> HIDE DEF m, R
  <2>2. Same(l, m) /\ m.bundle = l.bundle
    BY <1>2, <2>1 DEF Same
  <2> QED BY <2>1, <2>2 DEF CallsOn, CallLabels, LinkLabels, m
<1> HIDE DEF r, R
<1>7. CallsOn(l, R, req'[q]) /\ Alone(q)
  <2>1. PICK next : Step(q, "life.call", next) /\ (next = NextCall(r) \/ \E wb \in {"life.service", "life.link"} : next = With(r, [at |-> wb, i |-> i, add |-> TRUE]))
    BY <1>3 DEF Writebacks, r
  <2> QED BY <1>5, <1>6, <2>1, TakesStep
<1> QED BY <1>1, <1>2, <1>3, <1>7 DEF R

LEMMA CallFailLands ==
    ASSUME TypeInv, NEW q \in Slots, CallFails(q)
    PROVE  LET l == req[q] IN
           /\ l.at = "life.call" /\ Calling(l) /\ Alone(q) /\ UNCHANGED prj
           /\ \E i \in l.rest, done \in BOOLEAN :
                /\ CallsOn(l, l.rest \ {i}, req'[q])
                /\ repo' = [repo EXCEPT ![l.p][i] =
                     IF done /\ (@.there \/ l.todo[1] = "created") THEN After(@, l.todo[1], l.bundle) ELSE @]
                /\ prjLog' = Apart(prjLog, l.p, {i})
<1> DEFINE l == req[q]
<1>1. l.at = "life.call" /\ LocalsOK(l) /\ UNCHANGED prj
  BY DEF CallFails, At, TypeInv, PoolInv
<1>2. Calling(l) /\ l.rest \in SUBSET Integrations
  BY <1>1, CallKinds DEF CallLabels
<1>3. PICK i \in l.rest, done \in BOOLEAN :
        /\ req' = [req EXCEPT ![q] = NextCall([l EXCEPT !.rest = @ \ {i}])]
        /\ repo' = [repo EXCEPT ![l.p][i] =
             IF done /\ (@.there \/ l.todo[1] = "created") THEN After(@, l.todo[1], l.bundle) ELSE @]
        /\ prjLog' = Apart(prjLog, l.p, {i})
  BY Zenon DEF CallFails
<1> DEFINE R == l.rest \ {i}
<1>4. R \in SUBSET Integrations /\ [l EXCEPT !.rest = @ \ {i}] = [l EXCEPT !.rest = R]
  BY <1>2
<1>5. CallsOn(l, R, NextCall([l EXCEPT !.rest = R]))
  BY <1>2, <1>4, CallsOnNext
<1> HIDE DEF R
<1>6. CallsOn(l, R, req'[q]) /\ Alone(q)
  BY <1>3, <1>4, <1>5, Takes
<1> QED BY <1>1, <1>2, <1>3, <1>6 DEF R

\* The writes a plugin asks for: the calls go on as they were.
LEMMA LinkLands ==
    ASSUME TypeInv, NEW q \in Slots, WriteService(q) \/ ReadLinks(q) \/ LinksLost(q) \/ WriteLinks(q)
    PROVE  LET l == req[q] IN
           /\ l.at \in CallLabels /\ Alone(q) /\ (Calling(l) \/ Linking(l))
           /\ Calling(l) => CallsOn(l, l.rest, req'[q])
           /\ Linking(l) => \/ req'[q].at = "idle"
                            \/ req'[q].at \in LinkLabels /\ req'[q].todo = <<>>
<1> DEFINE l == req[q]
           m == req'[q]
<1>0. LocalsOK(l)
  BY DEF TypeInv, PoolInv
<1>1. l.at \in {"life.service"} \cup LinkLabels
  BY DEF WriteService, ReadLinks, LinksLost, WriteLinks, WaitP, Step, At, LinkLabels
<1>2. /\ l.at \in CallLabels /\ (Calling(l) \/ Linking(l)) /\ "at" \in DOMAIN l
      /\ l.at = "life.service" => Calling(l)
      /\ Calling(l) => /\ {"todo", "n", "types", "deleting", "rest", "bundle", "p"} \subseteq DOMAIN l
                       /\ l.rest \in SUBSET Integrations /\ l.todo \in Todos
  BY <1>0, <1>1, CallKinds DEF CallLabels
<1>3. Linking(l) => "todo" \in DOMAIN l
  BY <1>0, <1>1, TodoFacts DEF Linking, LocalsOK, DispatchOK, HasProject, HasEvents, CallLabels, LinkLabels
<1>4. ASSUME NEW r, DOMAIN l \ {"links"} \subseteq DOMAIN r, \A f \in DOMAIN l \ {"links"} : r[f] = l[f]
      PROVE  /\ Calling(l) => CallsOn(l, l.rest, AfterLink(r))
             /\ Linking(l) => AfterLink(r).at = "idle"
  <2>1. CASE Calling(l)
    <3>1. /\ r.todo = l.todo /\ r.n = l.n /\ r.types = l.types /\ r.deleting = l.deleting
          /\ r.rest = l.rest /\ r.bundle = l.bundle /\ r.p = l.p
          /\ {"todo", "n", "types", "deleting", "rest", "bundle", "p", "at"} \subseteq DOMAIN r
      BY <1>2, <1>4, <2>1
    <3>2. l.todo # <<>> /\ ~Linking(l)
      BY <1>2, <2>1, TodoFacts DEF Linking
    <3>3. AfterLink(r) = NextCall(r)
      BY <3>1, <3>2 DEF AfterLink
    <3>4. CASE l.rest = {}
      <4>1. NextCall(r) = NextEvent(r) /\ Nexts(r, NextEvent(r))
        BY <1>2, <2>1, <3>1, <3>4, NextLands DEF NextCall
      <4>2. Nexts(l, NextEvent(r))
        BY <3>1, <4>1 DEF Nexts, Later
      <4> QED BY <3>2, <3>3, <3>4, <4>1, <4>2 DEF CallsOn
    <3>5. CASE l.rest # {}
      <4> DEFINE c == [r EXCEPT !.at = "life.call"]
      <4>1. NextCall(r) = c
        BY <3>1, <3>5 DEF NextCall
      <4>2. Same(l, c) /\ c.at = "life.call" /\ c.rest = l.rest /\ c.bundle = l.bundle
        BY <3>1 DEF Same
      <4> QED BY <3>2, <3>3, <4>1, <4>2 DEF CallsOn, CallLabels
    <3> QED BY <3>4, <3>5
  <2>2. CASE Linking(l)
    <3>1. r.todo = <<>> /\ ~Calling(l)
      BY <1>2, <1>3, <1>4, <2>2, TodoFacts DEF Linking
    <3> QED BY <3>1 DEF AfterLink, Idle
  <2> QED BY <2>1, <2>2
<1>5. ASSUME NEW r, DOMAIN l \subseteq DOMAIN r, r.at \in LinkLabels,
             \A f \in DOMAIN l \ {"at", "links"} : r[f] = l[f]
      PROVE  /\ Calling(l) => CallsOn(l, l.rest, r)
             /\ Linking(l) => r.at \in LinkLabels /\ r.todo = <<>>
  <2>1. CASE Calling(l)
    <3>1. l.todo # <<>> /\ ~Linking(l)
      BY <1>2, <2>1, TodoFacts DEF Linking
    <3> QED BY <1>2, <1>5, <2>1, <3>1 DEF CallsOn, Same, CallLabels
  <2>2. CASE Linking(l)
    <3>1. ~Calling(l)
      BY <1>2, <2>2, TodoFacts DEF Linking
    <3> QED BY <1>3, <1>5, <2>2, <3>1 DEF Linking
  <2> QED BY <2>1, <2>2
<1> DEFINE Good(r) == /\ Calling(l) => CallsOn(l, l.rest, r)
                      /\ Linking(l) => r.at = "idle" \/ (r.at \in LinkLabels /\ r.todo = <<>>)
<1>6. Good(AfterLink(l)) /\ Good(AfterLink([f \in DOMAIN l \ {"links"} |-> l[f]]))
  BY <1>4
<1>7. \A L : Good(With(l, [at |-> "life.linkset", links |-> L]))
  <2> SUFFICES ASSUME NEW L PROVE Good(With(l, [at |-> "life.linkset", links |-> L]))
    OBVIOUS
  <2> DEFINE r == With(l, [at |-> "life.linkset", links |-> L])
  <2>1. DOMAIN l \subseteq DOMAIN r /\ r.at \in LinkLabels /\ \A f \in DOMAIN l \ {"at", "links"} : r[f] = l[f]
    BY DEF With, LinkLabels
  <2> HIDE DEF r
  <2>2. Good(r)
    BY <1>5, <2>1
  <2> QED BY <2>2 DEF r
<1>8. Good(To(q, "life.link"))
  <2> DEFINE r == To(q, "life.link")
  <2>1. DOMAIN l \subseteq DOMAIN r /\ r.at \in LinkLabels /\ \A f \in DOMAIN l \ {"at", "links"} : r[f] = l[f]
    BY <1>2 DEF To, LinkLabels
  <2> HIDE DEF r
  <2>2. Good(r)
    BY <1>5, <2>1
  <2> QED BY <2>2 DEF r
<1> HIDE DEF Good
<1>9. Good(m) /\ Alone(q)
  <2>1. CASE WriteService(q)
    BY <1>8, <2>1, TakesStep DEF WriteService
  <2>2. CASE ReadLinks(q)
    <3>1. PICK next : Step(q, "life.link", next) /\ (next = AfterLink(l) \/ \E L : next = With(l, [at |-> "life.linkset", links |-> L]))
      BY <2>2 DEF ReadLinks, WaitP
    <3> QED BY <1>6, <1>7, <3>1, TakesStep
  <2>3. CASE LinksLost(q)
    <3>1. PICK next : req' = [req EXCEPT ![q] = next] /\ (next = AfterLink(l) \/ \E L : next = With(l, [at |-> "life.linkset", links |-> L]))
      BY <2>3 DEF LinksLost
    <3> QED BY <1>6, <1>7, <3>1, Takes
  <2>4. CASE WriteLinks(q)
    BY <1>6, <2>4, TakesStep DEF WriteLinks
  <2> QED BY <2>1, <2>2, <2>3, <2>4
<1> QED BY <1>2, <1>9 DEF Good

\* The bindings are resolved, or there is nobody to call.
Deletes(l, R, m) == Same(l, m) /\ m.at = "project.delete" /\ m.rest = R

LEMMA EdgesLand ==
    ASSUME TypeInv, NEW q \in Slots, ResolveEdges(q)
    PROVE  LET l == req[q]
               m == req'[q] IN
           /\ l.at = "life.edges" /\ DispatchOK(l) /\ l.p \in Projects /\ Alone(q) /\ UNCHANGED <<igr, login, prj, repo>>
           /\ Reachable(l.p) => /\ Same(l, m) /\ m.at = "life.integrations"
                                /\ m.edges = EdgesTo(l.p) /\ m.had = Effective(l.p)
                                /\ igrLog' = [igrLog EXCEPT !.torn = {x \in @ : x[1] # q}]
                                /\ UNCHANGED prjLog
           /\ ~Reachable(l.p) =>
                /\ IF l.deleting THEN Deletes(l, {}, m) ELSE Nexts(l, m)
                /\ prjLog' = Apart(prjLog, l.p, IF l.todo[1] = "created" THEN Integrations ELSE Following(l.p))
                /\ UNCHANGED igrLog
<1> DEFINE l == req[q]
<1>1. l.at = "life.edges" /\ LocalsOK(l)
  BY DEF ResolveEdges, At, TypeInv, PoolInv
<1>2. DispatchOK(l) /\ l.p \in Projects /\ {"todo", "n", "types", "deleting", "p"} \subseteq DOMAIN l /\ l.todo \in Todos
  BY <1>1 DEF LocalsOK, HasProject, HasEvents, ResolveLabels, LinkLabels, DispatchOK
<1>3. CASE Reachable(l.p)
  <2> DEFINE next == With(l, [at |-> "life.integrations", edges |-> EdgesTo(l.p), had |-> Effective(l.p)])
  <2>1. /\ Step(q, "life.edges", next) /\ UNCHANGED <<igr, login, prj, repo, prjLog>>
        /\ igrLog' = [igrLog EXCEPT !.torn = {x \in @ : x[1] # q}]
    BY Zenon, <1>3 DEF ResolveEdges
  <2>2. /\ next.at = "life.integrations" /\ next.edges = EdgesTo(l.p) /\ next.had = Effective(l.p)
        /\ \A f \in DOMAIN l \ {"at", "edges", "had"} : next[f] = l[f]
    BY DEF With
  <2> HIDE DEF next
  <2>3. Same(l, next)
    BY <1>2, <2>2 DEF Same
  <2>4. req'[q] = next /\ Alone(q)
    BY <2>1, TakesStep
  <2> QED BY <1>1, <1>2, <1>3, <2>1, <2>2, <2>3, <2>4
<1>4. CASE ~Reachable(l.p)
  <2> DEFINE del == With(l, [at |-> "project.delete", rest |-> {}])
  <2>1. /\ Step(q, "life.edges", IF l.deleting THEN del ELSE NextEvent(l))
        /\ prjLog' = Apart(prjLog, l.p, IF l.todo[1] = "created" THEN Integrations ELSE Following(l.p))
        /\ UNCHANGED <<igr, login, prj, repo, igrLog>>
    BY Zenon, <1>4 DEF ResolveEdges, Unheard, IgrSame
  <2>2. del.at = "project.delete" /\ del.rest = {} /\ \A f \in DOMAIN l \ {"at", "rest"} : del[f] = l[f]
    BY DEF With
  <2> HIDE DEF del
  <2>3. Deletes(l, {}, del)
    BY <1>2, <2>2 DEF Same, Deletes
  <2>4. Nexts(l, NextEvent(l))
    BY <1>2, NextLands
  <2>5. req'[q] = (IF l.deleting THEN del ELSE NextEvent(l)) /\ Alone(q)
    BY <2>1, TakesStep
  <2> QED BY <1>1, <1>2, <1>4, <2>1, <2>3, <2>4, <2>5
<1> QED BY <1>3, <1>4

LEMMA FoundLand ==
    ASSUME TypeInv, NEW q \in Slots, ResolveIntegrations(q) \/ ResolveAssigned(q)
    PROVE  LET l == req[q]
               m == req'[q] IN
           /\ l.at \in {"life.integrations", "life.assigned"} /\ Same(l, m) /\ Alone(q)
           /\ UNCHANGED <<igr, login, igrLog, prj, repo, prjLog>>
           /\ m.had = l.had
           /\ l.at = "life.integrations" => m.at = "life.assigned" /\ m.edges = l.edges /\ m.enabled = Enabled
           /\ l.at = "life.assigned" => m.at = "life.enabled" /\ m.bound = Bound(l.p, l.edges, Assigned) \cap l.enabled
<1> DEFINE l == req[q]
<1>1. LocalsOK(l)
  BY DEF TypeInv, PoolInv
<1>2. ASSUME l.at \in {"life.integrations", "life.assigned"}
      PROVE  {"todo", "n", "types", "deleting", "p", "had", "edges"} \subseteq DOMAIN l
  BY <1>1, <1>2 DEF LocalsOK, HasProject, HasEvents, ResolveLabels, ResolvedLabels, LinkLabels, DispatchOK
<1>3. CASE ResolveIntegrations(q)
  <2> DEFINE next == With(l, [at |-> "life.assigned", enabled |-> Enabled])
  <2>1. /\ Step(q, "life.integrations", next)
        /\ UNCHANGED <<igr, login, igrLog, prj, repo, prjLog>>
    BY <1>3 DEF ResolveIntegrations, WaitP
  <2>2. next.at = "life.assigned" /\ next.enabled = Enabled /\ \A f \in DOMAIN l \ {"at", "enabled"} : next[f] = l[f]
    BY DEF With
  <2> HIDE DEF next
  <2>3. req'[q] = next /\ Alone(q) /\ l.at = "life.integrations"
    BY <2>1, TakesStep
  <2> QED BY <1>2, <2>1, <2>2, <2>3 DEF Same
<1>4. CASE ResolveAssigned(q)
  <2> DEFINE B == Bound(l.p, l.edges, Assigned) \cap l.enabled
             next == With(l, [at |-> "life.enabled", bound |-> B])
  <2>1. /\ Step(q, "life.assigned", next)
        /\ UNCHANGED <<igr, login, igrLog, prj, repo, prjLog>>
    BY <1>4 DEF ResolveAssigned, WaitP
  <2>2. next.at = "life.enabled" /\ next.bound = B /\ \A f \in DOMAIN l \ {"at", "bound"} : next[f] = l[f]
    BY DEF With
  <2> HIDE DEF next
  <2>3. req'[q] = next /\ Alone(q) /\ l.at = "life.assigned"
    BY <2>1, TakesStep
  <2> QED BY <1>2, <2>1, <2>2, <2>3 DEF Same
<1> QED BY <1>3, <1>4

LEMMA EnabledLand ==
    ASSUME TypeInv, NEW q \in Slots, ResolveEnabled(q)
    PROVE  LET l == req[q]
               m == req'[q]
               found == IF igr.on THEN l.bound ELSE {} IN
           /\ l.at = "life.enabled" /\ DispatchOK(l) /\ l.p \in Projects /\ Alone(q) /\ UNCHANGED <<igr, login, prj, repo>>
           /\ igrLog' = [igrLog EXCEPT
                !.missed = @ \cup {i \in (l.had \cap Effective(l.p)) \ found : <<q, i>> \notin igrLog.torn}]
           /\ prjLog' = Apart(prjLog, l.p,
                     (IF l.todo[1] = "created" THEN Integrations ELSE Following(l.p)) \ found)
           /\ found \in SUBSET Integrations
           /\ IF l.deleting THEN Deletes(l, found, m)
              ELSE IF found = {} THEN Nexts(l, m)
              ELSE Same(l, m) /\ m.at = "life.bundle" /\ m.rest = found /\ m.bundle = <<>>
<1> DEFINE l == req[q]
           found == IF igr.on THEN l.bound ELSE {}
           next == [at |-> "life.bundle", p |-> l.p, todo |-> l.todo, n |-> l.n,
                    types |-> l.types, deleting |-> l.deleting, rest |-> found]
           del == With(next, [at |-> "project.delete", bundle |-> l.bundle])
           run == With(next, [bundle |-> <<>>])
<1>1. l.at = "life.enabled" /\ LocalsOK(l)
  BY DEF ResolveEnabled, At, TypeInv, PoolInv
<1>2. DispatchOK(l) /\ l.p \in Projects /\ l.todo \in Todos /\ l.bound \in SUBSET Integrations
  BY <1>1 DEF LocalsOK, HasProject, HasEvents, ResolveLabels, ResolvedLabels, LinkLabels, DispatchOK
<1>3. found \in SUBSET Integrations
  BY <1>2
<1>4. /\ Step(q, "life.enabled", IF l.deleting THEN del ELSE IF found = {} THEN NextEvent(l) ELSE run)
      /\ igrLog' = [igrLog EXCEPT
           !.missed = @ \cup {i \in (l.had \cap Effective(l.p)) \ found : <<q, i>> \notin igrLog.torn}]
      /\ prjLog' = Apart(prjLog, l.p,
                     (IF l.todo[1] = "created" THEN Integrations ELSE Following(l.p)) \ found)
      /\ UNCHANGED <<igr, login, prj, repo>>
  BY Zenon DEF ResolveEnabled
<1>5. Deletes(l, found, del)
  BY DEF With, Same, Deletes
<1>6. Same(l, run) /\ run.at = "life.bundle" /\ run.rest = found /\ run.bundle = <<>>
  BY DEF With, Same
<1>7. Nexts(l, NextEvent(l))
  BY <1>2, NextLands
<1> HIDE DEF del, run, next
<1>8. req'[q] = (IF l.deleting THEN del ELSE IF found = {} THEN NextEvent(l) ELSE run) /\ Alone(q)
  BY <1>4, TakesStep
<1> QED BY <1>1, <1>2, <1>3, <1>4, <1>5, <1>6, <1>7, <1>8

\* A read of the context, answered or not.
LEMMA BundleLands ==
    ASSUME TypeInv, NEW q \in Slots, ReadBundle(q) \/ BundleReadFails(q)
    PROVE  LET l == req[q]
               m == req'[q] IN
           /\ l.at = "life.bundle" /\ DispatchOK(l) /\ l.p \in Projects /\ Alone(q) /\ Same(l, m)
           /\ UNCHANGED <<igr, login, igrLog, prj, repo>>
           /\ l.deleting => m.at \in {"life.bundle", "life.edges"}
           /\ ~l.deleting => m.at \in {"life.bundle", "life.call"} /\ m.rest = l.rest
           /\ ReadBundle(q) =>
                /\ UNCHANGED prjLog
                /\ "slug" \in DOMAIN m.bundle =>
                     m.bundle["slug"] = Node(l.p).slug
                     \/ ("slug" \in DOMAIN l.bundle /\ m.bundle["slug"] = l.bundle["slug"])
           /\ ~ReadBundle(q) => prjLog' = Apart(prjLog, l.p, Integrations)
<1> DEFINE l == req[q]
<1>1. l.at = "life.bundle" /\ LocalsOK(l)
  BY DEF ReadBundle, BundleReadFails, At, TypeInv, PoolInv
<1>2. DispatchOK(l) /\ l.p \in Projects /\ {"todo", "n", "types", "deleting", "p", "at", "bundle"} \subseteq DOMAIN l
      /\ (~l.deleting => "rest" \in DOMAIN l)
  BY <1>1 DEF LocalsOK, HasProject, HasEvents, ResolveLabels, ResolvedLabels, LinkLabels, DispatchOK
<1>3. ASSUME NEW f \in Unread(l), NEW value
      PROVE  LET m == WithRead(l, f, value) IN
             /\ Same(l, m)
             /\ l.deleting => m.at \in {"life.bundle", "life.edges"}
             /\ ~l.deleting => m.at \in {"life.bundle", "life.call"} /\ m.rest = l.rest
             /\ "slug" \in DOMAIN m.bundle =>
                  (f = "slug" /\ m.bundle["slug"] = value)
                  \/ ("slug" \in DOMAIN l.bundle /\ m.bundle["slug"] = l.bundle["slug"])
  <2> DEFINE b == With(l.bundle, [g \in {f} |-> value])
             m == WithRead(l, f, value)
             at == IF Cardinality(DOMAIN b) < 2 THEN l.at ELSE IF l.deleting THEN "life.edges" ELSE "life.call"
  <2>1. DOMAIN b = DOMAIN l.bundle \cup {f} /\ b[f] = value /\ \A g \in DOMAIN l.bundle \ {f} : b[g] = l.bundle[g]
    BY DEF With
  <2>2. m = [l EXCEPT !.bundle = b, !.at = at]
    BY DEF WithRead
  <2>3. at \in {"life.bundle", "life.edges", "life.call"} /\ (at = "life.edges" => l.deleting) /\ (at = "life.call" => ~l.deleting)
    BY <1>1
  <2> HIDE DEF b, m, at
  <2>4. m.bundle = b /\ m.at = at /\ \A g \in DOMAIN l \ {"bundle", "at"} : m[g] = l[g]
    BY <1>2, <2>2
  <2>5. Same(l, m) /\ (~l.deleting => m.rest = l.rest)
    BY <1>2, <2>4 DEF Same
  <2> QED BY <2>1, <2>3, <2>4, <2>5 DEF m
<1>4. CASE ReadBundle(q)
  <2>1. PICK f \in Unread(l) : Step(q, "life.bundle", WithRead(l, f, Node(l.p)[f])) /\ UNCHANGED <<igr, login, igrLog, prj, repo, prjLog>>
    BY Zenon, <1>4 DEF ReadBundle, WaitP
  <2>2. req'[q] = WithRead(l, f, Node(l.p)[f]) /\ Alone(q)
    BY <2>1, TakesStep
  <2> QED BY <1>1, <1>2, <1>3, <1>4, <2>1, <2>2
<1>5. CASE ~ReadBundle(q)
  <2>1. PICK f \in Unread(l) : /\ req' = [req EXCEPT ![q] = WithRead(l, f, NoProject[f])]
                               /\ prjLog' = Apart(prjLog, l.p, Integrations)
                               /\ UNCHANGED <<igr, login, igrLog, prj, repo>>
    BY Zenon, <1>5 DEF BundleReadFails, IgrSame
  <2>2. req'[q] = WithRead(l, f, NoProject[f]) /\ Alone(q)
    BY <2>1, Takes
  <2> QED BY <1>1, <1>2, <1>3, <1>5, <2>1, <2>2
<1> QED BY <1>4, <1>5

\* The handlers of integrations keep to themselves.
IgrLabels == {"idle", "int.save"} \cup TypedLabels \cup CredLabels \cup LoginLabels \cup AppLabels
IgrLanding(q) ==
  LET l == req[q]
      m == req'[q] IN
  /\ Alone(q) /\ l.at \in IgrLabels /\ m.at \in IgrLabels
  /\ m.at \in LoginLabels =>
       \/ l.at = "idle" /\ (m.on => m.at = "login.clear") /\ UNCHANGED igr
       \/ ClearLogin(q) /\ l.at = "login.clear" /\ m.at = "login.set" /\ m.i = l.i /\ m.on = l.on
  /\ m.at \in AppLabels =>
       \/ m.at = "app.fetch" /\ m.now = login.now /\ UNCHANGED <<igr, login, igrLog>>
       \/ l.at = "app.fetch" /\ m.at = "app.store" /\ m.i = l.i /\ m.now = l.now /\ LoginApp(l.i)
          /\ UNCHANGED <<igr, login, igrLog>>

LEMMA IgrLands ==
    ASSUME TypeInv, NEW q \in Slots,
           \/ IntegrationCalls(q) \/ UpdateIntegration(q) \/ SetLoginProvider(q)
           \/ GetLoginApp(q) \/ PutCredentials(q) \/ IntegrationsStep(q)
    PROVE  IgrLanding(q)
<1> DEFINE l == req[q]
           m == req'[q]
           Plain == IgrLabels \ (LoginLabels \cup AppLabels)
<1> USE DEF IgrLabels, TypedLabels, CredLabels, LoginLabels, AppLabels
<1>0. LocalsOK(l)
  BY DEF TypeInv, PoolInv
<1>a. ASSUME NEW next, next.at \in Plain, Begin(q, next) \/ \E label \in IgrLabels : Step(q, label, next)
      PROVE  IgrLanding(q)
  <2>1. m = next /\ Alone(q) /\ l.at \in IgrLabels
    BY <1>a, TakesStep, TakesBegin
  <2> QED BY <1>a, <2>1 DEF IgrLanding
<1>b. Idle.at \in Plain
  BY DEF Idle
<1>1. CASE CreateIntegration(q) \/ DeleteIntegration(q) \/ UpdatePluginRegistration(q)
  <2>1. Begin(q, Idle)
    BY Zenon, <1>1 DEF CreateIntegration, DeleteIntegration, UpdatePluginRegistration
  <2> QED BY <1>a, <1>b, <2>1
<1>2. CASE UpdateIntegration(q) \/ PutCredentials(q) \/ ReplaceTypeAssignments(q)
  <2>1. CASE UpdateIntegration(q)
    <3>1. PICK i \in Integrations : Begin(q, [at |-> "int.save", i |-> i, read |-> igr.node[i].caps])
      BY Zenon, <2>1 DEF UpdateIntegration, LookI
    <3> QED BY <1>a, <3>1
  <2>2. CASE PutCredentials(q)
    <3>1. PICK i \in Integrations, f \in Fields, on \in BOOLEAN :
            Begin(q, [at |-> "cred.save", i |-> i, f |-> f, on |-> on, read |-> igr.node[i].creds, tries |-> 1])
      BY Zenon, <2>2 DEF PutCredentials, LookI
    <3> QED BY <1>a, <3>1
  <2>3. CASE ReplaceTypeAssignments(q)
    <3>1. PICK i \in Integrations, T \in SUBSET Types :
            Begin(q, [at |-> IF T = {} THEN "typed.save" ELSE "typed.check", i |-> i, types |-> T])
      BY Zenon, <2>3 DEF ReplaceTypeAssignments, LookI
    <3> QED BY <1>a, <3>1
  <2> QED BY <1>2, <2>1, <2>2, <2>3
<1>3. CASE UpdateIntegrationSave(q) \/ WriteLogin(q) \/ WriteTypeAssignments(q) \/ StoreLoginApp(q)
  <2>1. \E label \in {"int.save", "login.set", "typed.save", "app.store"} : Step(q, label, Idle)
    <3>1. CASE UpdateIntegrationSave(q)
      BY <3>1, IntegrationUpdated
    <3>2. CASE WriteLogin(q) \/ WriteTypeAssignments(q) \/ StoreLoginApp(q)
      BY Zenon, <3>2 DEF WriteLogin, WriteTypeAssignments, StoreLoginApp
    <3> QED BY <1>3, <3>1, <3>2
  <2> QED BY <1>a, <1>b, <2>1
<1>4. CASE CheckTypes(q)
  <2> DEFINE next == IF l.types \subseteq igr.type THEN To(q, "typed.save") ELSE Idle
  <2>1. Step(q, "typed.check", next) /\ "at" \in DOMAIN l
    BY <1>0, <1>4 DEF CheckTypes, WaitI, LocalsOK
  <2>2. next.at \in Plain
    BY <2>1 DEF To, Idle
  <2> QED BY <1>a, <2>1, <2>2
<1>5. CASE ReadCredentials(q)
  <2> DEFINE next == IF Here(l.i) THEN [l EXCEPT !.at = "cred.save", !.read = igr.node[l.i].creds] ELSE Idle
  <2>1. Step(q, "cred.read", next) /\ "at" \in DOMAIN l
    BY <1>0, <1>5 DEF ReadCredentials, WaitI, LocalsOK
  <2>2. next.at \in Plain
    BY <2>1 DEF Idle
  <2> QED BY <1>a, <2>1, <2>2
<1>6. CASE SaveCredentials(q)
  <2> DEFINE next == [l EXCEPT !.at = "cred.read", !.tries = l.tries + 1]
  <2>1. (Step(q, "cred.save", Idle) \/ Step(q, "cred.save", next)) /\ "at" \in DOMAIN l
    BY <1>0, <1>6 DEF SaveCredentials, WaitI, LocalsOK
  <2>2. next.at \in Plain
    BY <2>1
  <2> HIDE DEF next
  <2> QED BY <1>a, <1>b, <2>1, <2>2
<1>7. CASE SetLoginProvider(q)
  <2>1. PICK i \in Integrations, on \in BOOLEAN :
          Begin(q, [at |-> IF on THEN "login.clear" ELSE "login.set", i |-> i, on |-> on]) /\ UNCHANGED igr
    BY Zenon, <1>7 DEF SetLoginProvider, LookI
  <2>2. m = [at |-> IF on THEN "login.clear" ELSE "login.set", i |-> i, on |-> on] /\ Alone(q) /\ l.at = "idle"
    BY <2>1, TakesBegin
  <2>3. m.at = (IF on THEN "login.clear" ELSE "login.set") /\ m.on = on
    BY <2>2
  <2> QED BY <2>1, <2>2, <2>3 DEF IgrLanding
<1>8. CASE ClearLogin(q)
  <2>1. l.at = "login.clear" /\ Step(q, "login.clear", To(q, "login.set"))
    BY <1>8, LoginCleared
  <2>2. {"at", "i", "on"} \subseteq DOMAIN l
    BY <1>0, <2>1 DEF LocalsOK, HasIntegration
  <2>3. m = To(q, "login.set") /\ Alone(q)
    BY <2>1, TakesStep
  <2>4. m.at = "login.set" /\ m.i = l.i /\ m.on = l.on
    BY <2>2, <2>3 DEF To
  <2> QED BY <1>8, <2>1, <2>3, <2>4 DEF IgrLanding
<1>9. CASE GetLoginApp(q)
  <2>1. CASE Begin(q, Idle)
    BY <1>a, <1>b, <2>1
  <2>2. CASE \E i : Begin(q, [at |-> "app.fetch", i |-> i, now |-> login.now]) /\ UNCHANGED <<igr, login, igrLog>>
    <3>1. PICK i : Begin(q, [at |-> "app.fetch", i |-> i, now |-> login.now])
      BY <2>2
    <3>2. m = [at |-> "app.fetch", i |-> i, now |-> login.now] /\ Alone(q) /\ l.at = "idle"
      BY <3>1, TakesBegin
    <3>3. m.at = "app.fetch" /\ m.now = login.now
      BY <3>2
    <3> QED BY <2>2, <3>2, <3>3 DEF IgrLanding
  <2> QED BY <1>9, <2>1, <2>2 DEF GetLoginApp, LookI
<1>10. CASE FetchLoginApp(q)
  <2>1. Step(q, "app.fetch", IF LoginApp(l.i) THEN To(q, "app.store") ELSE Idle) /\ UNCHANGED <<igr, login, igrLog>>
    BY <1>10 DEF FetchLoginApp, WaitI
  <2>2. CASE LoginApp(l.i)
    <3>1. m = To(q, "app.store") /\ Alone(q) /\ l.at = "app.fetch"
      BY <2>1, <2>2, TakesStep
    <3>2. {"at", "i", "now"} \subseteq DOMAIN l
      BY <1>0, <3>1 DEF LocalsOK, HasIntegration
    <3>3. m.at = "app.store" /\ m.i = l.i /\ m.now = l.now
      BY <3>1, <3>2 DEF To
    <3> QED BY <2>1, <2>2, <3>1, <3>3 DEF IgrLanding
  <2>3. CASE ~LoginApp(l.i)
    BY <1>a, <1>b, <2>1, <2>3
  <2> QED BY <2>2, <2>3
<1> QED BY <1>1, <1>2, <1>3, <1>4, <1>5, <1>6, <1>7, <1>8, <1>9, <1>10 DEF IntegrationCalls, IntegrationsStep

\* Events are dispatched for write n of p.
Brought(m, p, E, n, types) ==
  /\ m.at \in {"idle", "life.edges"}
  /\ \A i : Coming(m, i) = E
  /\ m.at = "life.edges" => m.p = p /\ m.n = n /\ m.types = types /\ ~m.deleting

LEMMA DispatchLands ==
    ASSUME NEW p, NEW events \in Todos \cup {<<>>}, NEW n, NEW types
    PROVE  Brought(Dispatch(p, events, n, types), p, {events[k] : k \in DOMAIN events}, n, types)
<1> DEFINE m == Dispatch(p, events, n, types)
           E == {events[k] : k \in DOMAIN events}
<1>1. CASE events = <<>>
  <2>1. m = Idle /\ E = {}
    BY <1>1 DEF Dispatch
  <2>2. \A i : Coming(m, i) = {}
    BY <2>1 DEF Coming, Idle, TellLabels, ResolveLabels, ResolvedLabels, CallLabels, LinkLabels
  <2>3. m.at = "idle"
    BY <2>1 DEF Idle
  <2> HIDE DEF m, E
  <2>4. Brought(m, p, E, n, types)
    BY <2>1, <2>2, <2>3 DEF Brought
  <2> QED BY <2>4 DEF m, E
<1>2. CASE events # <<>>
  <2>1. m = [at |-> "life.edges", p |-> p, todo |-> events, n |-> n, types |-> types, deleting |-> FALSE]
    BY <1>2 DEF Dispatch
  <2>2. m.at = "life.edges" /\ m.todo = events /\ m.p = p /\ m.n = n /\ m.types = types /\ ~m.deleting
    BY <2>1
  <2> HIDE DEF m
  <2>3. \A i : Coming(m, i) = E
    BY <2>2 DEF Coming, TellLabels, ResolveLabels, ResolvedLabels
  <2> HIDE DEF E
  <2>4. Brought(m, p, E, n, types)
    BY <2>2, <2>3 DEF Brought
  <2> QED BY <2>4 DEF m, E
<1> QED BY <1>1, <1>2

\* Who brings no event to any plugin.
Silent(m) == \A i : Coming(m, i) = {}
SilentLabels == IgrLabels \cup CreateLabels \cup PatchLabels \cup OwnedLabels \cup RelationLabels
                \cup {"project.delete"}

LEMMA Silences ==
    ASSUME NEW m, \/ m.at \in SilentLabels
                  \/ m.at \in {"life.bundle"} \cup ResolveLabels /\ m.deleting
                  \/ m.at \in CallLabels /\ m.todo = <<>>
    PROVE  Silent(m)
BY DEF Silent, SilentLabels, IgrLabels, TypedLabels, CredLabels, LoginLabels, AppLabels, CreateLabels, PatchLabels,
       OwnedLabels, RelationLabels, Coming, TellLabels, ResolveLabels, ResolvedLabels, CallLabels, LinkLabels

\* The handlers that tell nobody, up to where they do.
PlainLanding(q) ==
  LET l == req[q]
      m == req'[q] IN
  /\ Alone(q)
  /\ l.at \in {"idle"} \cup CreateLabels \cup PatchLabels \cup OwnedLabels \cup RelationLabels
  /\ \/ m.at \in {"idle"} \cup CreateLabels \cup PatchLabels \cup OwnedLabels \cup RelationLabels
     \/ m.at \in {"life.bundle", "project.delete"} /\ l.at = "idle" /\ Node(m.p).there
        /\ m.deleting = (m.at = "life.bundle")
     \/ m.at = "life.link" /\ m.todo = <<>>
  /\ m.at \in CreateLabels =>
       \/ l.at \in CreateLabels /\ m.p = l.p
       \/ l.at = "idle" /\ m.p \in Projects \ prjLog.born
          /\ \A o \in Slots : req[o].at \in CreateLabels => req[o].p # m.p
  /\ m.at = "rel.queue" => l.at = "rel.policies" /\ m.p = l.p
  /\ m.at = "rel.policies" => l.at = "idle"

LEMMA PlainLands ==
    ASSUME TypeInv, NEW q \in Slots,
           \/ CreateProject(q) \/ ValidateEnvs(q) \/ PatchProject(q) \/ CheckPatch(q)
           \/ PatchProjectEnvironment(q) \/ DeleteProject(q)
           \/ CreateRelationship(q) \/ DeleteRelationship(q) \/ ConditionPoliciesExist(q) \/ EnqueueSource(q)
           \/ CreateProjectService(q) \/ UpdateProjectService(q) \/ DeleteProjectService(q)
           \/ ReplaceProjectIntegrations(q) \/ ListAssigned(q) \/ CheckAssigned(q) \/ ReplaceAssignments(q)
           \/ DeleteTeam(q) \/ DeleteProjectType(q) \/ DeleteEnvironment(q)
    PROVE  PlainLanding(q)
<1> DEFINE l == req[q]
           m == req'[q]
           Froms == {"idle"} \cup CreateLabels \cup PatchLabels \cup OwnedLabels \cup RelationLabels
           Plains == {"idle"} \cup PatchLabels \cup OwnedLabels
<1> USE DEF CreateLabels, PatchLabels, OwnedLabels, RelationLabels
<1>0. LocalsOK(l)
  BY DEF TypeInv, PoolInv
<1>a. ASSUME NEW next, next.at \in Plains, Begin(q, next) \/ \E label \in Froms : Step(q, label, next)
      PROVE  PlainLanding(q)
  <2>1. m = next /\ Alone(q) /\ l.at \in Froms
    BY <1>a, TakesStep, TakesBegin
  <2> QED BY <1>a, <2>1 DEF PlainLanding
<1>b. Idle.at \in Plains
  BY DEF Idle
<1>1. CASE CreateProject(q)
  <2>1. PICK p \in Projects \ prjLog.born, at \in CreateLabels :
          /\ \A o \in Slots : req[o].at \in {"project.envs", "project.create"} => req[o].p # p
          /\ \E doc : Begin(q, [at |-> at, p |-> p, doc |-> doc])
    <3>1. PICK p \in Projects \ prjLog.born, team \in Teams, types \in SUBSET igr.type \ {{}}, slug \in Slugs,
     envs \in [Envs -> {"none", "plain"}] :
          /\ \A o \in Slots : req[o].at \in {"project.envs", "project.create"} => req[o].p # p
          /\ LookP(q, [at |-> IF Asked(envs) = {} THEN "project.create" ELSE "project.envs",
                 p |-> p, doc |-> Doc(team, types, slug, envs)])
      BY Zenon, <1>1 DEF CreateProject
    <3> DEFINE a == IF Asked(envs) = {} THEN "project.create" ELSE "project.envs"
               d == Doc(team, types, slug, envs)
    <3>2. a \in CreateLabels
      OBVIOUS
    <3>3. /\ \A o \in Slots : req[o].at \in {"project.envs", "project.create"} => req[o].p # p
          /\ Begin(q, [at |-> a, p |-> p, doc |-> d])
      BY Zenon, <3>1 DEF LookP
    <3> HIDE DEF a, d
    <3> QED BY <3>2, <3>3
  <2>2. PICK doc : Begin(q, [at |-> at, p |-> p, doc |-> doc])
    BY <2>1
  <2>3. m = [at |-> at, p |-> p, doc |-> doc] /\ l.at = "idle" /\ Alone(q)
    BY <2>2, TakesBegin
  <2>4. m.at = at /\ m.p = p
    BY <2>3
  <2> QED BY <2>1, <2>3, <2>4 DEF PlainLanding
<1>2. CASE ValidateEnvs(q)
  <2>1. Step(q, "project.envs", IF Asked(l.doc.envs) \subseteq prj.env THEN To(q, "project.create") ELSE Idle)
    BY <1>2 DEF ValidateEnvs, WaitP
  <2>2. CASE Asked(l.doc.envs) \subseteq prj.env
    <3>1. m = To(q, "project.create") /\ l.at = "project.envs" /\ Alone(q)
      BY <2>1, <2>2, TakesStep
    <3>2. {"at", "p"} \subseteq DOMAIN l
      BY <1>0, <3>1 DEF LocalsOK, HasProject
    <3>3. m.at = "project.create" /\ m.p = l.p
      BY <3>1, <3>2 DEF To
    <3> QED BY <3>1, <3>3 DEF PlainLanding
  <2>3. CASE ~(Asked(l.doc.envs) \subseteq prj.env)
    BY <1>a, <1>b, <2>1, <2>3
  <2> QED BY <2>2, <2>3
<1>3. CASE PatchProject(q) \/ ReplaceProjectIntegrations(q)
  <2>1. CASE PatchProject(q)
    <3>1. PICK p \in Projects : Begin(q, [at |-> "project.patch", p |-> p, read |-> Node(p)])
      BY Zenon, <2>1 DEF PatchProject, LookP
    <3> QED BY <1>a, <3>1
  <2>2. CASE ReplaceProjectIntegrations(q)
    <3>1. PICK p \in Projects, rows \in Rows : Begin(q, [at |-> "owned.list", p |-> p, rows |-> rows])
      BY Zenon, <2>2 DEF ReplaceProjectIntegrations, LookP
    <3> QED BY <1>a, <3>1
  <2> QED BY <1>3, <2>1, <2>2
<1>4. CASE CheckPatch(q)
  <2>1. PICK doc, transfer : \E next : /\ next = Idle \/ next = With(l, [at |-> "project.save", doc |-> doc, transfer |-> transfer])
                                       /\ Step(q, "project.patch", next)
    BY <1>4 DEF CheckPatch, WaitP
  <2>2. With(l, [at |-> "project.save", doc |-> doc, transfer |-> transfer]).at = "project.save"
    BY DEF With
  <2> QED BY <1>a, <1>b, <2>1, <2>2
<1>5. CASE PatchProjectEnvironment(q) \/ DeleteTeam(q) \/ DeleteProjectType(q) \/ DeleteEnvironment(q)
  <2>1. Begin(q, Idle)
    BY Zenon, <1>5 DEF PatchProjectEnvironment, DeleteTeam, DeleteProjectType, DeleteEnvironment
  <2> QED BY <1>a, <1>b, <2>1
<1>6. CASE DeleteProject(q)
  <2>1. PICK p \in Projects, keep \in BOOLEAN : /\ Node(p).there
          /\ LET k == [at |-> "life.bundle", p |-> p, todo |-> <<"deleted">>, n |-> 0, types |-> {},
                       deleting |-> ~keep, bundle |-> <<>>] IN
             Begin(q, IF keep THEN With(k, [at |-> "project.delete", rest |-> {}]) ELSE k)
    BY Zenon, <1>6 DEF DeleteProject, LookP
  <2> DEFINE k == [at |-> "life.bundle", p |-> p, todo |-> <<"deleted">>, n |-> 0, types |-> {},
                   deleting |-> ~keep, bundle |-> <<>>]
             d == With(k, [at |-> "project.delete", rest |-> {}])
  <2>2. k.at = "life.bundle" /\ k.p = p /\ k.deleting = ~keep
    OBVIOUS
  <2>3. d.at = "project.delete" /\ d.p = p /\ d.deleting = ~keep
    BY DEF With
  <2> HIDE DEF k, d
  <2>4. Begin(q, IF keep THEN d ELSE k)
    BY <2>1 DEF d, k
  <2>5. m = (IF keep THEN d ELSE k) /\ l.at = "idle" /\ Alone(q)
    BY <2>4, TakesBegin
  <2> QED BY <2>1, <2>2, <2>3, <2>5 DEF PlainLanding
<1>7. CASE CreateRelationship(q) \/ DeleteRelationship(q)
  <2>1. PICK s : Begin(q, [at |-> "rel.policies", p |-> s])
    BY Zenon, <1>7 DEF CreateRelationship, DeleteRelationship, Depend
  <2>2. m = [at |-> "rel.policies", p |-> s] /\ l.at = "idle" /\ Alone(q)
    BY <2>1, TakesBegin
  <2>3. m.at = "rel.policies"
    BY <2>2
  <2> QED BY <2>2, <2>3 DEF PlainLanding
<1>8. CASE ConditionPoliciesExist(q)
  <2>1. Step(q, "rel.policies", IF prj.policies THEN To(q, "rel.queue") ELSE Idle)
    BY <1>8 DEF ConditionPoliciesExist, WaitP
  <2>2. CASE prj.policies
    <3>1. m = To(q, "rel.queue") /\ l.at = "rel.policies" /\ Alone(q)
      BY <2>1, <2>2, TakesStep
    <3>2. {"at", "p"} \subseteq DOMAIN l
      BY <1>0, <3>1 DEF LocalsOK, HasProject
    <3>3. m.at = "rel.queue" /\ m.p = l.p
      BY <3>1, <3>2 DEF To
    <3> QED BY <3>1, <3>3 DEF PlainLanding
  <2>3. CASE ~prj.policies
    BY <1>a, <1>b, <2>1, <2>3
  <2> QED BY <2>2, <2>3
<1>9. CASE EnqueueSource(q)
  BY <1>9, <1>a, <1>b DEF EnqueueSource
<1>10. CASE CreateProjectService(q) \/ UpdateProjectService(q) \/ DeleteProjectService(q)
  <2>1. PICK p, i, add, next : Begin(q, next) /\ (next = Idle \/ next = Link(p, i, add))
    <3>1. CASE CreateProjectService(q)
      BY <3>1 DEF CreateProjectService
    <3>2. CASE UpdateProjectService(q)
      BY <3>2 DEF UpdateProjectService, LookP
    <3>3. CASE DeleteProjectService(q)
      BY <3>3 DEF DeleteProjectService
    <3> QED BY <1>10, <3>1, <3>2, <3>3
  <2>2. CASE next = Idle
    BY <1>a, <1>b, <2>1, <2>2
  <2>3. CASE next = Link(p, i, add)
    <3>1. m = Link(p, i, add) /\ l.at = "idle" /\ Alone(q)
      BY <2>1, <2>3, TakesBegin
    <3>2. m.at = "life.link" /\ m.todo = <<>>
      BY <3>1 DEF Link
    <3> QED BY <3>1, <3>2 DEF PlainLanding
  <2> QED BY <2>1, <2>2, <2>3
<1>11. CASE ListAssigned(q)
  <2>1. \E K : Step(q, "owned.list", With(l, [at |-> "owned.check", kinds |-> K]))
    BY Zenon, <1>11 DEF ListAssigned, WaitP
  <2>2. \A K : With(l, [at |-> "owned.check", kinds |-> K]).at = "owned.check"
    BY DEF With
  <2> QED BY <1>a, <2>1, <2>2
<1>12. CASE CheckAssigned(q)
  <2>1. (Step(q, "owned.check", To(q, "owned.save")) \/ Step(q, "owned.check", Idle)) /\ "at" \in DOMAIN l
    BY <1>0, <1>12 DEF CheckAssigned, WaitP, LocalsOK
  <2>2. To(q, "owned.save").at = "owned.save"
    BY <2>1 DEF To
  <2> QED BY <1>a, <1>b, <2>1, <2>2
<1>13. CASE ReplaceAssignments(q)
  <2>1. l.at = "owned.save" /\ "kinds" \in DOMAIN l
    BY <1>0, <1>13 DEF ReplaceAssignments, At, LocalsOK
  <2>2. PICK K : Step(q, "owned.save", IF K = {} THEN Idle ELSE [l EXCEPT !.kinds = K])
    BY Zenon, <1>13 DEF ReplaceAssignments
  <2>3. [l EXCEPT !.kinds = K].at = "owned.save"
    BY <2>1
  <2> QED BY <1>a, <1>b, <2>1, <2>2, <2>3
<1> QED BY <1>1, <1>2, <1>3, <1>4, <1>5, <1>6, <1>7, <1>8, <1>9, <1>10, <1>11, <1>12, <1>13

\* After a patch: the project is rescored, then who depends on it, then the
\* plugins hear of it.
Tells(l, m) == m.p = l.p /\ m.events = l.events /\ m.n = l.n /\ m.types = l.types
Told(l) == {l.events[k] : k \in DOMAIN l.events}

LEMMA TellLands ==
    ASSUME TypeInv, NEW q \in Slots, Rescore(q) \/ FindDependents(q) \/ EnqueueDependents(q) \/ Tell(q)
    PROVE  LET l == req[q]
               m == req'[q] IN
           /\ l.at \in TellLabels /\ l.p \in Projects /\ Alone(q) /\ UNCHANGED <<igr, login, igrLog, prj, repo>>
           /\ \/ /\ l.at = "project.rescore" /\ Tells(l, m)
                 /\ m.at = IF prj.policies THEN "project.dependents" ELSE "project.tell"
                 /\ prjLog' = Queued(prjLog, {l.p})
              \/ /\ l.at = "project.dependents" /\ Tells(l, m) /\ UNCHANGED prjLog
                 /\ m.at = "project.requeue" /\ m.deps = Deps(l.p)
              \/ /\ l.at = "project.requeue" /\ Tells(l, m) /\ m.at = "project.tell"
                 /\ prjLog' = Queued(prjLog, l.deps)
              \/ /\ l.at = "project.tell" /\ Brought(m, l.p, Told(l), l.n, l.types) /\ UNCHANGED prjLog
<1> DEFINE l == req[q]
           m == req'[q]
<1>1. l.at \in TellLabels /\ LocalsOK(l)
  BY DEF Rescore, FindDependents, EnqueueDependents, Tell, WaitP, Step, At, TellLabels, TypeInv, PoolInv
<1>2. {"at", "p", "events", "n", "types"} \subseteq DOMAIN l /\ l.p \in Projects /\ l.events \in Todos \cup {<<>>}
  <2>1. Tellings \subseteq Todos
    BY DEF Todos
  <2> QED BY <1>1, <2>1 DEF LocalsOK, HasProject
<1>3. ASSUME NEW label \in TellLabels
      PROVE  To(q, label).at = label /\ Tells(l, To(q, label))
  BY <1>2 DEF To, Tells
<1>4. CASE Rescore(q)
  <2> DEFINE a == IF prj.policies THEN "project.dependents" ELSE "project.tell"
  <2>1. /\ Step(q, "project.rescore", To(q, a)) /\ UNCHANGED <<igr, login, igrLog, prj, repo>>
        /\ prjLog' = Queued(prjLog, {l.p})
    BY <1>4 DEF Rescore, IgrSame
  <2>2. a \in TellLabels
    BY DEF TellLabels
  <2> HIDE DEF a
  <2>3. l.at = "project.rescore" /\ m = To(q, a) /\ Alone(q)
    BY <2>1, TakesStep
  <2>4. m.at = a /\ Tells(l, m)
    BY <1>3, <2>2, <2>3
  <2> QED BY <1>1, <1>2, <2>1, <2>3, <2>4 DEF a
<1>5. CASE FindDependents(q)
  <2> DEFINE D == Deps(l.p)
             next == With(l, [at |-> "project.requeue", deps |-> D])
  <2>1. Step(q, "project.dependents", next) /\ UNCHANGED <<igr, login, igrLog, prj, repo, prjLog>>
    BY <1>5 DEF FindDependents, WaitP
  <2>2. next.at = "project.requeue" /\ next.deps = D /\ \A f \in DOMAIN l \ {"at", "deps"} : next[f] = l[f]
    BY DEF With
  <2> HIDE DEF next, D
  <2>3. Tells(l, next)
    BY <1>2, <2>2 DEF Tells
  <2>4. l.at = "project.dependents" /\ m = next /\ Alone(q)
    BY <2>1, TakesStep
  <2> QED BY <1>1, <1>2, <2>1, <2>2, <2>3, <2>4 DEF D
<1>6. CASE EnqueueDependents(q)
  <2>1. /\ Step(q, "project.requeue", To(q, "project.tell")) /\ UNCHANGED <<igr, login, igrLog, prj, repo>>
        /\ prjLog' = Queued(prjLog, l.deps)
    BY <1>6 DEF EnqueueDependents, IgrSame
  <2>2. l.at = "project.requeue" /\ m = To(q, "project.tell") /\ Alone(q)
    BY <2>1, TakesStep
  <2>3. m.at = "project.tell" /\ Tells(l, m)
    BY <1>3, <2>2 DEF TellLabels
  <2> QED BY <1>1, <1>2, <2>1, <2>2, <2>3
<1>7. CASE Tell(q)
  <2> DEFINE next == Dispatch(l.p, l.events, l.n, l.types)
  <2>1. Step(q, "project.tell", next) /\ UNCHANGED <<igr, login, igrLog, prj, repo, prjLog>>
    BY <1>7 DEF Tell, WaitP
  <2>2. Brought(next, l.p, Told(l), l.n, l.types)
    BY <1>2, DispatchLands DEF Told
  <2> HIDE DEF next
  <2>3. l.at = "project.tell" /\ m = next /\ Alone(q)
    BY <2>1, TakesStep
  <2> QED BY <1>1, <1>2, <2>1, <2>2, <2>3
<1> QED BY <1>4, <1>5, <1>6, <1>7

\* The writes of projects that are followed by a dispatch.
LEMMA SaveLands ==
    ASSUME TypeInv, NEW q \in Slots, PatchProjectSave(q)
    PROVE  LET l == req[q]
               m == req'[q] IN
           /\ Alone(q)
           /\ ~Reachable(l.p) \/ PatchCut(l) => m = Idle
           /\ Reachable(l.p) /\ ~PatchCut(l) =>
                /\ m.at = "project.rescore" /\ m.p = l.p /\ m.events = Events(l)
                /\ m.n = prjLog.n[l.p] + 1 /\ m.types = PatchNew(l).types
<1> DEFINE l == req[q]
           k == [at |-> "project.rescore", p |-> l.p, events |-> Events(l),
                 n |-> prjLog.n[l.p] + 1, types |-> PatchNew(l).types]
<1>1. \/ Step(q, "project.save", Idle) /\ (~Reachable(l.p) \/ PatchCut(l))
      \/ Step(q, "project.save", k) /\ Reachable(l.p) /\ ~PatchCut(l)
  BY PatchDoes
<1>2. /\ k.at = "project.rescore" /\ k.p = l.p /\ k.events = Events(l)
      /\ k.n = prjLog.n[l.p] + 1 /\ k.types = PatchNew(l).types
  OBVIOUS
<1> HIDE DEF k
<1> QED BY <1>1, <1>2, TakesStep

LEMMA CreationLands ==
    ASSUME TypeInv, NEW q \in Slots, CreateProjectNode(q)
    PROVE  LET l == req[q]
               m == req'[q] IN
           /\ Alone(q)
           /\ m = Idle \/ (l.doc.team \in prj.team /\ ~CutShort(l.doc)
                           /\ Brought(m, l.p, {"created"}, 1, CreateNew(l.doc).types))
           /\ CutShort(l.doc) \/ l.doc.team \notin prj.team => m = Idle
<1> DEFINE l == req[q]
           k == Dispatch(l.p, <<"created">>, 1, CreateNew(l.doc).types)
<1>1. /\ \/ Step(q, "project.create", Idle)
         \/ Step(q, "project.create", k) /\ l.doc.team \in prj.team /\ ~CutShort(l.doc)
      /\ CutShort(l.doc) \/ l.doc.team \notin prj.team => Step(q, "project.create", Idle)
  BY CreateDoes
<1>2. Brought(k, l.p, {"created"}, 1, CreateNew(l.doc).types)
  <2>1. <<"created">> \in Todos /\ {<<"created">>[x] : x \in DOMAIN <<"created">>} = {"created"}
    BY DEF Todos
  <2> QED BY <2>1, DispatchLands
<1> HIDE DEF k
<1> QED BY <1>1, <1>2, TakesStep

LEMMA ArchiveLands ==
    ASSUME TypeInv, NEW q \in Slots, NEW p \in Projects, NEW archived \in BOOLEAN, NEW n, NEW types,
           Begin(q, Dispatch(p, IF archived THEN <<"archived">> ELSE <<"unarchived">>, n, types))
    PROVE  /\ Alone(q) /\ req[q] = Idle
           /\ Brought(req'[q], p, {IF archived THEN "archived" ELSE "unarchived"}, n, types)
<1> DEFINE ev == IF archived THEN <<"archived">> ELSE <<"unarchived">>
           E == {IF archived THEN "archived" ELSE "unarchived"}
           k == Dispatch(p, ev, n, types)
<1>1. ev \in Todos /\ {ev[x] : x \in DOMAIN ev} = E
  <2>1. CASE archived
    BY <2>1 DEF Todos
  <2>2. CASE ~archived
    BY <2>2 DEF Todos
  <2> QED BY <2>1, <2>2
<1> HIDE DEF ev, E
<1>2. Brought(k, p, E, n, types)
  BY <1>1, DispatchLands
<1>3. Begin(q, k)
  BY DEF ev
<1> HIDE DEF k
<1> QED BY <1>2, <1>3, TakesBegin DEF E

LEMMA SyncLands ==
    ASSUME TypeInv, NEW q \in Slots, SyncProjectLifecycle(q)
    PROVE  /\ Alone(q) /\ req[q] = Idle /\ UNCHANGED <<igr, login, igrLog, prj, repo, prjLog>>
           /\ \E p \in Projects : Brought(req'[q], p, {"updated"}, prjLog.n[p], Node(p).types)
<1>1. PICK p \in Projects : LookP(q, Dispatch(p, <<"updated">>, prjLog.n[p], Node(p).types))
  BY Zenon DEF SyncProjectLifecycle
<1>2. <<"updated">> \in Todos /\ {<<"updated">>[x] : x \in DOMAIN <<"updated">>} = {"updated"}
  BY DEF Todos, Tellings
<1> DEFINE k == Dispatch(p, <<"updated">>, prjLog.n[p], Node(p).types)
<1>3. Brought(k, p, {"updated"}, prjLog.n[p], Node(p).types)
  BY <1>2, DispatchLands
<1> HIDE DEF k
<1>4. Begin(q, k) /\ UNCHANGED <<igr, login, igrLog, prj, repo, prjLog>>
  BY <1>1 DEF LookP, k
<1> QED BY <1>3, <1>4, TakesBegin

LEMMA DeletionLands ==
    ASSUME TypeInv, NEW q \in Slots, DeleteProjectNode(q)
    PROVE  LET l == req[q]
               m == req'[q] IN
           /\ Alone(q) /\ DispatchOK(l) /\ l.rest \in SUBSET Integrations /\ l.todo = <<"deleted">>
           /\ ~Reachable(l.p) \/ l.rest = {} => m = Idle
           /\ Reachable(l.p) /\ l.rest # {} =>
                /\ l.deleting /\ m.at = "life.call" /\ m.p = l.p /\ m.todo = l.todo /\ m.rest = l.rest
                /\ m.n = prjLog.n[l.p] + 1 /\ ~m.deleting
<1> DEFINE l == req[q]
           m == req'[q]
           k == [l EXCEPT !.at = "life.call", !.deleting = FALSE, !.n = prjLog.n[l.p] + 1]
<1>1. l.at = "project.delete" /\ LocalsOK(l)
  BY DEF DeleteProjectNode, At, TypeInv, PoolInv
<1>2. /\ DispatchOK(l) /\ l.rest \in SUBSET Integrations /\ l.todo = <<"deleted">> /\ (~l.deleting => l.rest = {})
      /\ {"at", "p", "todo", "rest", "deleting", "n"} \subseteq DOMAIN l
  BY <1>1 DEF LocalsOK, HasProject, HasEvents, CallLabels, LinkLabels, DispatchOK
<1>3. \/ Step(q, "project.delete", Idle) /\ (~Reachable(l.p) \/ l.rest = {})
      \/ Step(q, "project.delete", k) /\ Reachable(l.p) /\ l.rest # {}
  BY DeleteDoes
<1>4. k.at = "life.call" /\ k.p = l.p /\ k.todo = l.todo /\ k.rest = l.rest /\ k.n = prjLog.n[l.p] + 1 /\ ~k.deleting
  BY <1>2
<1> HIDE DEF k
<1> QED BY <1>2, <1>3, <1>4, TakesStep

LEMMA DieLands ==
    ASSUME TypeInv, NEW q \in Slots, DieP(q)
    PROVE  req'[q] = Idle /\ Alone(q) /\ UNCHANGED <<igr, login, igrLog, prj, repo>>
BY Takes DEF DieP, Die, IgrSame

\* A step, by what it does to its handler.
PlainActs(q) ==
  \/ CreateProject(q) \/ ValidateEnvs(q) \/ PatchProject(q) \/ CheckPatch(q)
  \/ PatchProjectEnvironment(q) \/ DeleteProject(q)
  \/ CreateRelationship(q) \/ DeleteRelationship(q) \/ ConditionPoliciesExist(q) \/ EnqueueSource(q)
  \/ CreateProjectService(q) \/ UpdateProjectService(q) \/ DeleteProjectService(q)
  \/ ReplaceProjectIntegrations(q) \/ ListAssigned(q) \/ CheckAssigned(q) \/ ReplaceAssignments(q)
  \/ DeleteTeam(q) \/ DeleteProjectType(q) \/ DeleteEnvironment(q)
TellActs(q) == Rescore(q) \/ FindDependents(q) \/ EnqueueDependents(q) \/ Tell(q)
IgrActs(q) == \/ IntegrationCalls(q) \/ UpdateIntegration(q) \/ SetLoginProvider(q)
              \/ GetLoginApp(q) \/ PutCredentials(q) \/ IntegrationsStep(q)
IgrAlone == /\ UNCHANGED <<prj, repo>>
            /\ prjLog' = [prjLog EXCEPT !.apart = @ \cup (Projects \X Detached)]

LEMMA Steps ==
    ASSUME [Next]_projectVars
    PROVE  \/ LoginTick /\ UNCHANGED <<prj, repo, prjLog>>
           \/ UNCHANGED projectVars
           \/ \E q \in Slots :
                \/ PlainActs(q) \/ TellActs(q) \/ PatchProjectSave(q) \/ CreateProjectNode(q)
                \/ ArchiveProject(q) \/ UnarchiveProject(q) \/ SyncProjectLifecycle(q)
                \/ DeleteProjectNode(q) \/ DieP(q) \/ LifecycleStep(q)
                \/ IgrActs(q) /\ IgrAlone
<1>1. CASE ProjectsNext
  <2>1. PICK q \in Slots :
    \/ CreateProject(q) \/ PatchProject(q) \/ PatchProjectEnvironment(q)
    \/ ArchiveProject(q) \/ UnarchiveProject(q) \/ SyncProjectLifecycle(q) \/ DeleteProject(q)
    \/ CreateRelationship(q) \/ DeleteRelationship(q)
    \/ CreateProjectService(q) \/ UpdateProjectService(q) \/ DeleteProjectService(q)
    \/ ReplaceProjectIntegrations(q) \/ DeleteTeam(q) \/ DeleteProjectType(q) \/ DeleteEnvironment(q)
    \/ LifecycleStep(q) \/ ProjectsStep(q)
    BY <1>1 DEF ProjectsNext
  <2> QED BY <2>1 DEF ProjectsStep, PlainActs, TellActs
<1>2. CASE /\ IntegrationsNext
           /\ prjLog' = [prjLog EXCEPT !.apart = @ \cup (Projects \X Detached)]
           /\ UNCHANGED <<prj, repo>>
  <2>1. PICK q \in Slots : \/ IntegrationCalls(q) \/ UpdateIntegration(q) \/ SetLoginProvider(q)
                           \/ GetLoginApp(q) \/ PutCredentials(q) \/ IntegrationsStep(q)
    BY <1>2 DEF IntegrationsNext
  <2> QED BY <1>2, <2>1 DEF IgrActs, IgrAlone
<1> QED BY <1>1, <1>2 DEF Next

\* Whoever stands at one of these awaits now and moved, came from where it must.
LEMMA Arrives ==
    ASSUME TypeInv, [Next]_projectVars, NEW o \in Slots, req'[o] # req[o]
    PROVE  LET m == req'[o] IN
           /\ m.at \in ResolvedLabels => ResolveEdges(o) \/ ResolveIntegrations(o) \/ ResolveAssigned(o)
           /\ m.at \in LoginLabels \cup AppLabels => IgrLanding(o)
<1> DEFINE m == req'[o]
           Elsewhere == m.at \notin ResolvedLabels \cup LoginLabels \cup AppLabels
<1> USE DEF CreateLabels, PatchLabels, OwnedLabels, RelationLabels, ResolvedLabels, LoginLabels, AppLabels
<1>1. ASSUME LoginTick \/ UNCHANGED projectVars
      PROVE  FALSE
  BY <1>1 DEF LoginTick, projectVars, pool
<1>2. ASSUME NEW q \in Slots, Alone(q)
      PROVE  o = q
  BY <1>2 DEF Alone
<1>3. ASSUME NEW q \in Slots, PlainActs(q)
      PROVE  Elsewhere
  <2>1. PlainLanding(q)
    BY <1>3, PlainLands DEF PlainActs
  <2> QED BY <1>2, <2>1 DEF PlainLanding
<1>4. ASSUME NEW q \in Slots, TellActs(q)
      PROVE  Elsewhere
  <2>1. /\ Alone(q)
        /\ req'[q].at \in {"project.dependents", "project.tell", "project.requeue", "idle", "life.edges"}
    BY <1>4, TellLands DEF TellActs, Brought
  <2> QED BY <1>2, <2>1
<1>5. ASSUME NEW q \in Slots, \/ PatchProjectSave(q) \/ CreateProjectNode(q)
                              \/ ArchiveProject(q) \/ UnarchiveProject(q) \/ SyncProjectLifecycle(q)
                              \/ DeleteProjectNode(q) \/ DieP(q)
      PROVE  Elsewhere
  <2>0. Idle.at = "idle"
    BY DEF Idle
  <2>1. CASE PatchProjectSave(q)
    BY <1>2, <2>0, <2>1, SaveLands
  <2>2. CASE CreateProjectNode(q)
    BY <1>2, <2>0, <2>2, CreationLands DEF Brought
  <2>3. CASE ArchiveProject(q) \/ UnarchiveProject(q)
    <3>1. PICK p \in Projects, archived \in BOOLEAN :
            Begin(q, Dispatch(p, IF archived THEN <<"archived">> ELSE <<"unarchived">>,
                              prjLog.n[p] + 1, Node(p).types))
      BY Zenon, <2>3, ArchiveDoes
    <3> DEFINE n == prjLog.n[p] + 1
               types == Node(p).types
    <3> HIDE DEF n, types
    <3>2. Begin(q, Dispatch(p, IF archived THEN <<"archived">> ELSE <<"unarchived">>, n, types))
      BY <3>1 DEF n, types
    <3>3. Alone(q) /\ Brought(req'[q], p, {IF archived THEN "archived" ELSE "unarchived"}, n, types)
      BY Zenon, <3>2, ArchiveLands
    <3> QED BY <1>2, <3>3 DEF Brought
  <2>4. CASE SyncProjectLifecycle(q)
    BY <1>2, <2>4, SyncLands DEF Brought
  <2>5. CASE DeleteProjectNode(q)
    BY <1>2, <2>0, <2>5, DeletionLands
  <2>6. CASE DieP(q)
    BY <1>2, <2>0, <2>6, DieLands
  <2> QED BY <1>5, <2>1, <2>2, <2>3, <2>4, <2>5, <2>6
<1>6. ASSUME NEW q \in Slots, LifecycleStep(q), ~(ResolveEdges(q) \/ ResolveIntegrations(q) \/ ResolveAssigned(q))
      PROVE  Elsewhere
  <2>1. CASE ResolveEnabled(q)
    BY <1>2, <2>1, EnabledLand DEF Deletes, Nexts
  <2>2. CASE ReadBundle(q) \/ BundleReadFails(q)
    BY <1>2, <2>2, BundleLands
  <2>3. CASE CallPlugin(q)
    BY <1>2, <2>3, CallLands DEF CallsOn, CallLabels, LinkLabels, Nexts
  <2>4. CASE CallFails(q)
    BY <1>2, <2>4, CallFailLands DEF CallsOn, CallLabels, LinkLabels, Nexts
  <2>5. CASE WriteService(q) \/ ReadLinks(q) \/ LinksLost(q) \/ WriteLinks(q)
    <3>1. Alone(q) /\ (CallsOn(req[q], req[q].rest, req'[q]) \/ req'[q].at = "idle" \/ req'[q].at \in LinkLabels)
      BY <2>5, LinkLands
    <3> QED BY <1>2, <3>1 DEF CallsOn, CallLabels, LinkLabels, Nexts
  <2> QED BY <1>6, <2>1, <2>2, <2>3, <2>4, <2>5 DEF LifecycleStep
<1>7. ASSUME NEW q \in Slots, ResolveEdges(q)
      PROVE  o = q
  BY <1>2, <1>7, EdgesLand
<1>8. ASSUME NEW q \in Slots, ResolveIntegrations(q) \/ ResolveAssigned(q)
      PROVE  o = q
  BY <1>2, <1>8, FoundLand
<1>9. ASSUME ResolveEdges(o) \/ ResolveIntegrations(o) \/ ResolveAssigned(o)
      PROVE  m.at \notin LoginLabels \cup AppLabels
  <2>1. CASE ResolveEdges(o)
    BY <2>1, EdgesLand DEF Deletes, Nexts
  <2>2. CASE ResolveIntegrations(o) \/ ResolveAssigned(o)
    BY <2>2, FoundLand
  <2> QED BY <1>9, <2>1, <2>2
<1>10. ASSUME NEW q \in Slots, IgrActs(q)
       PROVE  o = q /\ IgrLanding(o) /\ m.at \notin ResolvedLabels
  <2>1. IgrLanding(q)
    BY <1>10, IgrLands DEF IgrActs
  <2> QED BY <1>2, <2>1 DEF IgrLanding, IgrLabels, TypedLabels, CredLabels
<1> QED BY <1>1, <1>3, <1>4, <1>5, <1>6, <1>7, <1>8, <1>9, <1>10, Steps
=============================================================================
