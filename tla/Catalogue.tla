----------------------------- MODULE Catalogue -----------------------------
(* The entries operators keep: teams, environments, project types and link    *)
(* definitions ("named"), webhooks, MCP servers, document templates, scoring  *)
(* policies and blueprints.  All are read whole, patched and written whole;   *)
(* they differ in what the write is matched by, in what guards their slugs    *)
(* and in what is written after them.                                         *)
EXTENDS Documents

CONSTANTS
  Entries,     \* nodes of the kind the behaviour is about
  Types        \* project types, which policies and blueprints cover

\* A behaviour is about one kind of entries.
Kinds == {"named", "webhooks", "mcp", "templates", "policies", "blueprints"}

ASSUME CatalogueAssumption == /\ Entries # {}
                              /\ \A m \in Mixes : \A a, b \in m \cap Kinds : a = b

VARIABLES
  cat,      \* the entries, and the project types
  catLog    \* history the properties read and no handler does

catVars == <<cat, catLog>>

\* A field operators write, and one that tests of a server write.
Fields == {"name", "status"}
Values == 1..2
Fresh == [f \in Fields |-> 1]
Gone == [there |-> FALSE, slug |-> None, vals |-> Fresh, links |-> {}]
Made(s, links) == [there |-> TRUE, slug |-> s, vals |-> Fresh, links |-> links]

Here(e) == cat.node[e].there
Named(s) == {e \in Entries : Here(e) /\ cat.node[e].slug = s}
Free == {e \in Entries : ~Here(e) /\ \A q \in Slots : req[q] = Idle \/ "e" \notin DOMAIN req[q] \/ req[q].e # e}

\* A policy without targets covers every project type.
Covers(links) == IF links = {} THEN cat.type ELSE links \cap cat.type

LookC(q, next) == Begin(q, next) /\ UNCHANGED catVars
WaitC(q, label, next) == Step(q, label, next) /\ UNCHANGED catVars

\* Another handler has written entry e since the locals were read.
Overwrites(log, e, read) ==
  IF cat.node[e] = read THEN log ELSE [log EXCEPT !.stale = @ \cup {e}]

Put(e, n) ==
  /\ cat' = [cat EXCEPT !.node[e] = n]
  /\ catLog' = [catLog EXCEPT !.want[e] = n, !.stale = @ \ {e}, !.kept = {k \in @ : k[1] # e}]

\* The nodes of S are deleted.
Without(S, log) ==
  /\ cat' = [cat EXCEPT !.node = [e \in Entries |-> IF e \in S THEN Gone ELSE @[e]]]
  /\ catLog' = [log EXCEPT !.want = [e \in Entries |-> IF e \in S THEN Gone ELSE @[e]], !.stale = @ \ S]

\* Every node of S is written with the values v; slug and links stay.
AssignName(S, v) == cat' = [cat EXCEPT !.node = [e \in Entries |->
                          IF e \in S THEN [@[e] EXCEPT !.vals = [Fresh EXCEPT !["name"] = v["name"]]] ELSE @[e]]]
Assign(S, v) == cat' = [cat EXCEPT !.node = [e \in Entries |->
                          IF e \in S THEN [@[e] EXCEPT !.vals = v] ELSE @[e]]]

Patched(vals, ask) == [vals EXCEPT ![ask.f] = ask.v]
Changes(fields) == [f : fields, v : Values]

\* An entry's values patched, its links taken away or added to.
PatchedEntry(n, ask) == [n EXCEPT !.vals = Patched(@, ask)]
Unlinked(n, links) == [n EXCEPT !.links = @ \ links]
LinkedTo(n, links) == [n EXCEPT !.links = @ \cup links]

\* A write that is matched by the slug of the URL and binds the parameter "slug"
\* to it: the values change as asked, and of the slug that is asked for (l.to)
\* nothing is written; the entries of S keep theirs.
AskedEntry(n, l) == [PatchedEntry(n, l.ask) EXCEPT !.slug = IF l.to = l.slug THEN @ ELSE l.to]
Asked(S, l) == [catLog EXCEPT
  !.want = [e \in Entries |-> IF e \in S THEN AskedEntry(@[e], l) ELSE @[e]],
  !.kept = IF l.to = l.slug THEN @ ELSE @ \cup (S \X {l.slug}),
  !.stale = @ \cup {e \in S : cat.node[e] # l.read}]

-----------------------------------------------------------------------------
\* Named entries: teams.py, environments.py, project_types.py,
\* link_definitions.py.

CreateNamed(q) == \E e \in Free, s \in TagSlugs : /\ Named(s) = {}
  /\ Begin(q, Idle) /\ Put(e, Made(s, {}))

PatchNamed(q) == \E e \in Entries, s \in TagSlugs, ask \in Changes(Fields) : /\ Here(e)
  /\ LookC(q, [at |-> "named.save", slug |-> cat.node[e].slug, to |-> s, ask |-> ask, read |-> cat.node[e]])

PersistNamed(q) == At(q, "named.save") /\ LET l == req[q] IN
  IF Named(l.slug) = {} THEN WaitC(q, "named.save", Idle)
  ELSE \E e \in Named(l.slug) :
       /\ Step(q, "named.save", Idle)
       /\ Assign({e}, Patched(l.read.vals, l.ask))
       /\ catLog' = Asked({e}, l)

DeleteEntry(q) == \E e \in Entries : /\ Here(e)
  /\ Begin(q, Idle) /\ Put(e, Gone)

-----------------------------------------------------------------------------
\* webhooks.py: a look for a collision, then the write, by id, which the unique
\* index refuses in turn.

CreateWebhook(q) == \E e \in Free, s \in TagSlugs : /\ Named(s) = {}
  /\ LookC(q, [at |-> "hook.create", e |-> e, slug |-> s])

CreateWebhookNode(q) == At(q, "hook.create") /\ LET l == req[q] IN
  IF Named(l.slug) # {} THEN WaitC(q, "hook.create", Idle)
  ELSE Step(q, "hook.create", Idle) /\ Put(l.e, Made(l.slug, {}))

PatchWebhook(q) == \E e \in Entries, s \in TagSlugs, ask \in Changes({"name"}) : /\ Here(e)
  /\ LookC(q, [at |-> IF s = cat.node[e].slug THEN "id.save" ELSE "hook.look",
               e |-> e, slug |-> s, ask |-> ask, read |-> cat.node[e]])

CheckIdentifierCollision(q) ==
  WaitC(q, "hook.look", IF Named(req[q].slug) \ {req[q].e} = {} THEN To(q, "id.save") ELSE Idle)

\* mcp_servers.py: the same write by id, without the look; a report, and a test
\* that calls the server in between, write the whole node back with the status.

UpdateMcpServer(q) == \E e \in Entries, s \in TagSlugs, ask \in Changes({"name"}) : /\ Here(e)
  /\ LookC(q, [at |-> "id.save", e |-> e, slug |-> s, ask |-> ask, read |-> cat.node[e]])

TestMcpServer(q) == \E e \in Entries : /\ Here(e)
  /\ LookC(q, [at |-> "mcp.call", e |-> e, read |-> cat.node[e]])

ReportMcpServerStatus(q) == \E e \in Entries, ask \in Changes({"status"}) : /\ Here(e)
  /\ LookC(q, [at |-> "id.save", e |-> e, slug |-> cat.node[e].slug, ask |-> ask, read |-> cat.node[e]])

TestAnswers(q) == At(q, "mcp.call") /\ \E v \in Values :
  WaitC(q, "mcp.call", With(To(q, "id.save"), [slug |-> req[q].read.slug, ask |-> [f |-> "status", v |-> v]]))

SaveById(q) == At(q, "id.save") /\ LET l == req[q] IN
  IF ~Here(l.e) \/ Named(l.slug) \ {l.e} # {} THEN WaitC(q, "id.save", Idle)
  ELSE /\ Step(q, "id.save", Idle)
       /\ cat' = [cat EXCEPT !.node[l.e].slug = l.slug, !.node[l.e].vals = Patched(l.read.vals, l.ask)]
       /\ catLog' = [Overwrites(catLog, l.e, l.read) EXCEPT
            !.want[l.e].slug = l.slug, !.want[l.e].vals = Patched(@, l.ask)]

-----------------------------------------------------------------------------
\* document_templates.py: no index guards the slugs, only a look before the
\* write, which an update makes for a slug it will not write.  The tags that are
\* given, none of them too, replace those there are, with MERGE.

CreateTemplate(q) == \E e \in Free, s \in TagSlugs, slugs \in SUBSET SlugsInUse :
  LookC(q, [at |-> "tpl.look", e |-> e, slug |-> s, tags |-> slugs])

DuplicateLook(q) == LET l == req[q] IN
  WaitC(q, "tpl.look", IF Named(l.slug) = {} THEN To(q, "tpl.create") ELSE Idle)

CreateTemplateNode(q) == At(q, "tpl.create") /\ LET l == req[q] IN
  /\ Step(q, "tpl.create", IF l.tags = {} THEN Idle ELSE To(q, "tpl.attach"))
  /\ cat' = [cat EXCEPT !.node[l.e] = Made(l.slug, {})]
  /\ catLog' = [catLog EXCEPT
       !.want[l.e] = Made(l.slug, {}), !.stale = @ \ {l.e},
       !.doubled = @ \/ \E o \in Slots \ {q} : At(o, "tpl.create") /\ req[o].slug = l.slug]

SetNext(slug, to) == IF to = slug THEN "tpl.set" ELSE "tpl.rename"

UpdateTemplate(q) == \E e \in Entries, s \in TagSlugs, ask \in Changes({"name"}),
                        slugs \in SUBSET TagSlugs, given \in BOOLEAN :
  /\ Here(e) /\ (slugs # {} => given)
  /\ LookC(q, [at |-> IF slugs # {} THEN "tpl.check" ELSE SetNext(cat.node[e].slug, s),
               slug |-> cat.node[e].slug, to |-> s, ask |-> ask, given |-> given, tags |-> slugs,
               read |-> cat.node[e]])

ValidateTemplateTags(q) == LET l == req[q] IN
  WaitC(q, "tpl.check", IF l.tags \subseteq SlugsInUse THEN To(q, SetNext(l.slug, l.to)) ELSE Idle)

RenameLook(q) ==
  WaitC(q, "tpl.rename", IF Named(req[q].to) = {} THEN To(q, "tpl.set") ELSE Idle)

SetTemplate(q) == At(q, "tpl.set") /\ LET l == req[q] IN
  IF Named(l.slug) = {} THEN WaitC(q, "tpl.set", Idle)
  ELSE /\ Step(q, "tpl.set", IF l.given THEN To(q, "tpl.detach") ELSE Idle)
       /\ Assign(Named(l.slug), Patched(l.read.vals, l.ask))
       /\ catLog' = Asked(Named(l.slug), l)

Relink(S, links) == [cat EXCEPT !.node = [e \in Entries |->
                       IF e \in S THEN [@[e] EXCEPT !.links = links] ELSE @[e]]]

DetachTemplateTags(q) == LET l == req[q] IN
  /\ Step(q, "tpl.detach", IF l.tags = {} THEN Idle ELSE To(q, "tpl.attach"))
  /\ cat' = Relink(Named(l.slug), {})
  /\ UNCHANGED catLog

AttachTemplateTags(q) == LET l == req[q] IN
  /\ Step(q, "tpl.attach", Idle)
  /\ cat' = [cat EXCEPT !.node = [e \in Entries |->
       IF e \in Named(l.slug) THEN LinkedTo(@[e], Tagged(l.tags)) ELSE @[e]]]
  /\ UNCHANGED catLog

-----------------------------------------------------------------------------
\* scoring_policies.py: the node and its targets in several statements, then a
\* recompute of every project the policy covers, now and as it was read.

\* The policy or its targets are not what this handler has last read or left.
Meets(log, l) == IF \E e \in Named(l.slug) : cat.node[e].links = l.seen THEN log
                 ELSE [log EXCEPT !.met = TRUE]

Owes(log, l, types) == [log EXCEPT !.owed = IF Named(l.slug) = {} THEN @ ELSE @ \cup Covers(types)]

CreatePolicy(q) == \E e \in Free, s \in TagSlugs, T \in SUBSET cat.type :
  LookC(q, [at |-> "pol.create", e |-> e, slug |-> s, links |-> T, seen |-> {}, was |-> {}, fresh |-> TRUE])

CreatePolicyNode(q) == At(q, "pol.create") /\ LET l == req[q] IN
  IF Named(l.slug) # {} THEN WaitC(q, "pol.create", Idle)
  ELSE /\ Step(q, "pol.create", To(q, IF l.links = {} THEN "pol.reload" ELSE "pol.link"))
       /\ cat' = [cat EXCEPT !.node[l.e] = Made(l.slug, {})]
       /\ catLog' = [catLog EXCEPT !.want[l.e] = Made(l.slug, {}), !.stale = @ \ {l.e},
                                   !.owed = @ \cup Covers(l.links)]

UpdatePolicy(q) == \E e \in Entries, ask \in Changes({"name"}), T \in SUBSET Types : /\ Here(e)
  /\ LET was == cat.node[e].links IN
     LookC(q, [at |-> IF T \in {was, {}} THEN "pol.set" ELSE "pol.check", slug |-> cat.node[e].slug,
               links |-> T, seen |-> was, was |-> was, fresh |-> FALSE, ask |-> ask, read |-> cat.node[e]])

ValidateTargets(q) ==
  WaitC(q, "pol.check", IF req[q].links \subseteq cat.type THEN To(q, "pol.set") ELSE Idle)

\* Whether the policy is still there is not looked at before the reload.
SetPolicy(q) == At(q, "pol.set") /\ LET l == req[q]
                                        S == Named(l.slug) IN
  /\ Step(q, "pol.set", To(q, IF l.links = l.was THEN "pol.reload" ELSE "pol.clear"))
  /\ Assign(S, Patched(l.read.vals, l.ask))
  /\ catLog' = [Meets(Owes(catLog, l, l.was), l) EXCEPT
       !.want = [e \in Entries |-> IF e \in S THEN PatchedEntry(@[e], l.ask) ELSE @[e]],
       !.stale = @ \cup {e \in S : cat.node[e].vals # l.read.vals}]

ClearTargets(q) == At(q, "pol.clear") /\ LET l == req[q] IN
  /\ Step(q, "pol.clear", [l EXCEPT !.at = IF l.links = {} THEN "pol.reload" ELSE "pol.link", !.seen = {}])
  /\ cat' = Relink(Named(l.slug), {})
  /\ catLog' = Meets(Owes(catLog, l, l.links), l)

CreateTargetEdges(q) == At(q, "pol.link") /\ LET l == req[q]
                                                 S == Named(l.slug)
                                                 T == l.links \cap cat.type IN
  /\ Step(q, "pol.link", [l EXCEPT !.at = "pol.reload", !.seen = T])
  /\ cat' = [cat EXCEPT !.node = [e \in Entries |->
                IF e \in S THEN LinkedTo(@[e], T) ELSE @[e]]]
  /\ catLog' = Meets(catLog, l)

\* Gone: the handler fails, and queues nothing.
ReloadPolicy(q) == At(q, "pol.reload") /\ LET l == req[q] IN
  /\ IF Named(l.slug) = {} THEN Step(q, "pol.reload", Idle)
     ELSE \E e \in Named(l.slug) :
          Step(q, "pol.reload", [l EXCEPT !.at = "pol.requeue", !.seen = cat.node[e].links])
  /\ catLog' = Meets(catLog, l)
  /\ UNCHANGED cat

\* _enqueue_for_policy, for the policy as it is and then as it was.
RequeueCovered(q) == LET l == req[q] IN
  /\ Step(q, "pol.requeue", IF l.fresh THEN Idle ELSE To(q, "pol.requeue.was"))
  /\ catLog' = [catLog EXCEPT !.owed = @ \ Covers(l.seen)]
  /\ UNCHANGED cat
RequeueOnlyNow(q) == LET l == req[q] IN
  /\ Step(q, "pol.requeue.was", Idle)
  /\ UNCHANGED <<cat, catLog>>
RequeueWas(q) == LET l == req[q] IN
  /\ Step(q, "pol.requeue.was", Idle)
  /\ catLog' = [catLog EXCEPT !.owed = @ \ Covers(l.was)]
  /\ UNCHANGED cat

DeletePolicy(q) == \E e \in Entries : /\ Here(e)
  /\ LookC(q, [at |-> "pol.delete", slug |-> cat.node[e].slug,
               seen |-> cat.node[e].links, was |-> cat.node[e].links])

DeletePolicyNode(q) == At(q, "pol.delete") /\ LET l == req[q] IN
  /\ Step(q, "pol.delete", To(q, "pol.requeue.was"))
  /\ Without(Named(l.slug), Meets(Owes(catLog, l, l.was), l))

\* The edges of every policy to the type go with it.
DeleteProjectType(q) == \E ty \in cat.type :
  /\ Begin(q, Idle)
  /\ cat' = [cat EXCEPT !.type = @ \ {ty},
                        !.node = [e \in Entries |-> Unlinked(@[e], {ty})]]
  /\ catLog' = [catLog EXCEPT !.owed = @ \ {ty}]

-----------------------------------------------------------------------------
\* blueprints.py: a MERGE on the slug, which creates what is not there and
\* writes over what is; then the projects of the types it names are queued.

Room(s) == Named(s) # {} \/ \E e \in Entries : ~Here(e)
Target(s) == IF Named(s) # {} THEN Named(s) ELSE {CHOOSE e \in Entries : ~Here(e)}

CreateBlueprint(q) == \E s \in TagSlugs, v \in Values, T \in SUBSET Types : /\ Room(s)
  /\ LookC(q, [at |-> "blu.create", slug |-> s, links |-> T, ask |-> [f |-> "name", v |-> v]])

CreateBlueprintMerge(q) == At(q, "blu.create") /\ LET l == req[q] IN \E e \in Target(l.slug) :
  /\ Room(l.slug)
  /\ Step(q, "blu.create", To(q, "blu.requeue"))
  /\ LET n == [Made(l.slug, l.links) EXCEPT !.vals = Patched(@, l.ask)] IN
     /\ cat' = [cat EXCEPT !.node[e] = n]
     /\ catLog' = [catLog EXCEPT !.want[e] = n, !.stale = @ \ {e}, !.owed = @ \cup Covers(l.links)]

PatchBlueprint(q) == \E e \in Entries, ask \in Changes({"name"}), T \in SUBSET Types : /\ Here(e)
  /\ LookC(q, [at |-> "blu.save", slug |-> cat.node[e].slug, links |-> T, ask |-> ask, read |-> cat.node[e]])

PatchBlueprintMerge(q) == At(q, "blu.save") /\ LET l == req[q] IN \E e \in Target(l.slug) :
  /\ Room(l.slug)
  /\ Step(q, "blu.save", To(q, "blu.requeue"))
  /\ cat' = [cat EXCEPT !.node[e] = [Made(l.slug, l.links) EXCEPT !.vals = Patched(l.read.vals, l.ask)]]
  /\ catLog' = [Overwrites(catLog, e, l.read) EXCEPT
       !.want[e] = [Made(l.slug, l.links) EXCEPT !.vals = Patched(catLog.want[e].vals, l.ask)],
       !.owed = @ \cup Covers(l.links)]

RequeueBlueprint(q) == LET l == req[q] IN
  /\ Step(q, "blu.requeue", Idle)
  /\ catLog' = [catLog EXCEPT !.owed = @ \ Covers(l.links)]
  /\ UNCHANGED cat

DeleteBlueprint(q) == \E e \in Entries : /\ Here(e)
  /\ LookC(q, [at |-> "blu.delete", slug |-> cat.node[e].slug, links |-> cat.node[e].links])

DeleteBlueprintNode(q) == At(q, "blu.delete") /\ LET l == req[q] IN
  /\ Step(q, "blu.delete", IF Named(l.slug) = {} THEN Idle ELSE To(q, "blu.requeue"))
  /\ Without(Named(l.slug), Owes(catLog, l, l.links))

-----------------------------------------------------------------------------

CatInit ==
  LET e1 == CHOOSE e \in Entries : TRUE
      s1 == CHOOSE s \in TagSlugs : TRUE IN
  \E T \in SUBSET (IF mix \cap {"policies", "blueprints"} # {} THEN Types ELSE {}) :
    /\ cat = [node |-> [e \in Entries |-> IF e = e1 THEN Made(s1, T) ELSE Gone], type |-> Types]
    /\ catLog = [want |-> cat.node, stale |-> {}, kept |-> {}, doubled |-> FALSE, met |-> FALSE,
                 owed |-> {}]

NamedCalls(q) == CreateNamed(q) \/ PatchNamed(q) \/ DeleteEntry(q)
WebhookCalls(q) == CreateWebhook(q) \/ PatchWebhook(q) \/ DeleteEntry(q)
McpCalls(q) == CreateNamed(q) \/ UpdateMcpServer(q) \/ TestMcpServer(q) \/ ReportMcpServerStatus(q) \/ DeleteEntry(q)
TemplateCalls(q) == CreateTemplate(q) \/ UpdateTemplate(q) \/ DeleteEntry(q)
PolicyCalls(q) == CreatePolicy(q) \/ UpdatePolicy(q) \/ DeletePolicy(q) \/ DeleteProjectType(q)
BlueprintCalls(q) == CreateBlueprint(q) \/ PatchBlueprint(q) \/ DeleteBlueprint(q)

CatalogueStep(q) ==
  \/ PersistNamed(q) \/ CreateWebhookNode(q) \/ CheckIdentifierCollision(q) \/ TestAnswers(q) \/ SaveById(q)
  \/ DuplicateLook(q) \/ CreateTemplateNode(q) \/ ValidateTemplateTags(q) \/ RenameLook(q)
  \/ SetTemplate(q) \/ DetachTemplateTags(q) \/ AttachTemplateTags(q)
  \/ CreatePolicyNode(q) \/ ValidateTargets(q) \/ SetPolicy(q) \/ ClearTargets(q) \/ CreateTargetEdges(q)
  \/ ReloadPolicy(q) \/ RequeueCovered(q) \/ RequeueWas(q) \/ DeletePolicyNode(q)
  \/ CreateBlueprintMerge(q) \/ PatchBlueprintMerge(q) \/ RequeueBlueprint(q) \/ DeleteBlueprintNode(q)

CatalogueNext == \E q \in Slots :
  \/ "named" \in mix /\ NamedCalls(q)
  \/ "webhooks" \in mix /\ WebhookCalls(q)
  \/ "mcp" \in mix /\ McpCalls(q)
  \/ "templates" \in mix /\ TemplateCalls(q)
  \/ "policies" \in mix /\ PolicyCalls(q)
  \/ "blueprints" \in mix /\ BlueprintCalls(q)
  \/ CatalogueStep(q)

-----------------------------------------------------------------------------
\* Properties

CatTypeOK ==
  /\ cat.node \in [Entries -> [there : BOOLEAN, slug : TagSlugs \cup {None}, vals : [Fields -> Values],
                               links : SUBSET (Types \cup Tags)]]
  /\ \A e \in Entries : Here(e) <=> cat.node[e].slug # None
  /\ \A e \in Entries : cat.node[e].links \subseteq
       cat.type \cup {t \in Tags : doc.tag[t].slug # None}

\* Each property of an entry is what was last asked for it, unless a write went
\* over one it had not read: the writes are matched by the slug as it was, or by
\* id (mcp_servers.py:581).  The slug, too, is the one last asked for, or one that
\* the entry bore when a rename was taken and dropped (`kept`): named entries and
\* templates keep their slugs whatever a request asks (teams.py:305,
\* environments.py:310, project_types.py:322, link_definitions.py:336,
\* document_templates.py:447), where _persist_team's docstring and
\* tests/endpoints/test_environments.py:417 have them renamed.
BearsAsked(e) == \/ cat.node[e].slug = catLog.want[e].slug
                 \/ <<e, cat.node[e].slug>> \in catLog.kept
EntriesAsAsked == \A e \in Entries \ catLog.stale :
  /\ Here(e) = catLog.want[e].there
  /\ BearsAsked(e)
  /\ cat.node[e].vals = catLog.want[e].vals

\* No two entries of an organisation bear one slug; for templates, which no
\* index guards, unless two requests were about to create one at once
\* (document_templates.py:263-302).
SlugsNameOne == ~catLog.doubled => \A s \in TagSlugs : Cardinality(Named(s)) <= 1

\* The entries of the catalogue are as asked, but for the renames that are
\* dropped, and can be told apart.
EntriesKept == EntriesAsAsked /\ SlugsNameOne

\* Once no request is under way, the projects of every type that a changed
\* policy covers, or covered before, have been queued for a recompute since the
\* change, and those a written blueprint names; unless two changes of one policy
\* overlapped or a request died (scoring_policies.py:366-373).
CoveredAreRequeued ==
  InFlight = {} /\ faults = 0 /\ ~catLog.met => catLog.owed = {}
=============================================================================
