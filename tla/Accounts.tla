------------------------------ MODULE Accounts ------------------------------
(* Principals, organisations, memberships, roles and grants: users.py,        *)
(* service_accounts.py, organizations.py, roles.py, auth/membership.py and    *)
(* auth/seed.py.  Every database statement is one step.  The graph has no     *)
(* transactions across statements: a handler that reads a node and merges it  *)
(* back writes every property of the node as it read it.                      *)
EXTENDS Requests

CONSTANTS
  Users, Services,   \* the principals: User and ServiceAccount nodes
  Orgs, Roles, Perms,
  SeedOrg,           \* the organisation bootstrap creates
  SeedRole,          \* the seeded role: is_system, and the only is_default
  SeedPerm,          \* a permission of the standard catalogue
  OldPerm,           \* a permission of RETIRED_PERMISSIONS
  Passwords, NoPassword

ASSUME AccountsAssumption ==
  /\ SeedOrg \in Orgs /\ SeedRole \in Roles
  /\ {SeedPerm, OldPerm} \subseteq Perms /\ SeedPerm # OldPerm
  /\ Passwords # {} /\ NoPassword \notin Passwords
  /\ IsFiniteSet(Users) /\ IsFiniteSet(Services) /\ Users \cap Services = {}

VARIABLES
  acc,      \* the accounts' part of the graph: a record of nodes and edges
  accLog    \* history the properties read and no handler does

Principals == Users \cup Services
NoNode == [there |-> FALSE, active |-> FALSE, pw |-> NoPassword]
Node(active, pw) == [there |-> TRUE, active |-> active, pw |-> pw]
NoRole == [there |-> FALSE, system |-> FALSE, default |-> FALSE]
Role(system, default) == [there |-> TRUE, system |-> system, default |-> default]
Exists(p) == acc.node[p].there
Edges(p, o) == {e \in acc.edge : e.p = p /\ e.o = o}
EdgesOf(p) == {e \in acc.edge : e.p = p}
GrantsOf(r) == {g \in acc.grant : g[1] = r}

-----------------------------------------------------------------------------
\* The statements the handlers share.

\* CREATE (p)-[:MEMBER_OF {role}]->(o): a second edge beside one that is there.
WithEdge(p, o, r) ==
  acc.edge \cup {[p |-> p, o |-> o, role |-> r, n |-> Cardinality(Edges(p, o))]}

\* SET m.role on the edges the statement matches; none is made.
Rerolled(p, o, r) ==
  (acc.edge \ Edges(p, o)) \cup {[e EXCEPT !.role = r] : e \in Edges(p, o)}

\* MERGE (p)-[m:MEMBER_OF]->(o) SET m.role.
MergedEdge(p, o, r) ==
  IF Edges(p, o) = {} THEN WithEdge(p, o, r) ELSE Rerolled(p, o, r)

\* DETACH DELETE of a principal.
WithoutDetach(p) == [acc EXCEPT !.node[p] = NoNode]
Without(p) == [acc EXCEPT !.node[p] = NoNode, !.edge = @ \ EdgesOf(p)]

\* An operator has created or deleted p: what it should be from now on.
Wanted(p, node) == [accLog EXCEPT !.want[p] = node, !.stale = @ \ {p}]

\* db.merge(model, match_on): every property of the node is the model's, and a
\* node that is gone comes back.  A write over a node that is no longer what
\* the handler read is recorded.
MergeNode(q, p, new, want) ==
  /\ acc' = [acc EXCEPT !.node[p] = new]
  /\ accLog' = [accLog EXCEPT !.want[p] = want,
                              !.stale = IF acc.node[p] = req[q].read THEN @ ELSE @ \cup {p}]

\* A CREATE of a membership some time after a look that found none.
CreateEdge(p, o, r) ==
  IF Exists(p) /\ o \in acc.org
  THEN /\ acc' = [acc EXCEPT !.edge = WithEdge(p, o, r)]
       /\ accLog' = [accLog EXCEPT
            !.raced = IF Edges(p, o) = {} THEN @ ELSE @ \cup {<<p, o>>}]
  ELSE UNCHANGED <<acc, accLog>>

SetEdges(edges) == acc' = [acc EXCEPT !.edge = edges] /\ UNCHANGED accLog

Look(q, next) == Begin(q, next) /\ UNCHANGED <<acc, accLog>>
Wait(q, label, next) == Step(q, label, next) /\ UNCHANGED <<acc, accLog>>

-----------------------------------------------------------------------------
\* users.py

CreateUser(q) == \E u \in Users, o \in Orgs, r \in Roles :
  Look(q, IF Exists(u) THEN Idle
          ELSE [at |-> "user.create", p |-> u, o |-> o, r |-> r])

\* The unique index turns a concurrent creation into a 409.
CreateUserNode(q) == At(q, "user.create") /\ LET u == req[q].p IN
  IF Exists(u) THEN Wait(q, "user.create", Idle)
  ELSE \E pw \in Passwords :
       /\ Step(q, "user.create", To(q, "user.member"))
       /\ acc' = [acc EXCEPT !.node[u] = Node(TRUE, pw)]
       /\ accLog' = Wanted(u, Node(TRUE, pw))

CreateUserMember(q) == At(q, "user.member") /\ LET l == req[q] IN
  IF Exists(l.p) /\ l.o \in acc.org /\ acc.role[l.r].there
  THEN Step(q, "user.member", Idle) /\ SetEdges(MergedEdge(l.p, l.o, l.r))
  ELSE Wait(q, "user.member", To(q, "user.rollback"))

CreateUserRollback(q) == LET u == req[q].p IN
  /\ Step(q, "user.rollback", Idle)
  /\ acc' = Without(u)
  /\ accLog' = Wanted(u, NoNode)

\* patch_user reads the node, then the memberships, merges the whole node and
\* brings the memberships to what the patched document lists.
PatchUser(q) == \E u \in Users : /\ Exists(u)
  /\ Look(q, [at |-> "user.orgs", p |-> u, read |-> acc.node[u]])

PatchUserOrgs(q) == Wait(q, "user.orgs", With(To(q, "user.patch"), [had |-> EdgesOf(req[q].p)]))

\* The documents a patch makes of the memberships read: one organisation's
\* entry put in, replaced or taken out.
Patched(p, had) == {had}
  \cup {{e \in had : e.o # o} : o \in Orgs}
  \cup {{e \in had : e.o # o} \cup {[p |-> p, o |-> o, role |-> r, n |-> 0]} :
          o \in Orgs, r \in Roles}

\* _normalize_membership_input: an organisation listed twice is a 400, also
\* when it is the graph that holds two edges.
ListedTwice(doc) == \E a, b \in doc : a # b /\ a.o = b.o

RolesIn(doc) == {<<e.o, e.role>> : e \in doc}

PatchUserSave(q) == At(q, "user.patch") /\ LET l == req[q] IN
  \E active \in BOOLEAN, doc \in Patched(l.p, l.had) :
    IF ListedTwice(doc) THEN Wait(q, "user.patch", Idle)
    ELSE LET now == accLog.want[l.p] IN
         /\ Step(q, "user.patch",
                 IF RolesIn(doc) = RolesIn(l.had) THEN Idle
                 ELSE With(To(q, "user.checkorgs"), [doc |-> doc]))
         /\ MergeNode(q, l.p, [l.read EXCEPT !.active = active],
                      IF now.there THEN [now EXCEPT !.active = active] ELSE now)

\* _reconcile_user_memberships: a 400 here comes after the node is saved.
CheckOrgs(q) ==
  Wait(q, "user.checkorgs", IF {e.o : e \in req[q].doc} \subseteq acc.org
                            THEN To(q, "user.checkroles") ELSE Idle)

CheckRoles(q) == LET l == req[q] IN
  Wait(q, "user.checkroles",
       IF \A e \in l.doc : acc.role[e.role].there
       THEN With(To(q, "user.reconcile"), [todo |-> {e.o : e \in l.doc \cup l.had}])
       ELSE Idle)

Reconcile(q) == LET l == req[q]
                    o == CHOOSE x \in l.todo : TRUE
                    want == {e.role : e \in {d \in l.doc : d.o = o}}
                    had == {e.role : e \in {d \in l.had : d.o = o}}
                    rest == l.todo \ {o} IN
  /\ Step(q, "user.reconcile", IF rest = {} THEN Idle ELSE [l EXCEPT !.todo = rest])
  /\ \/ want = {} /\ SetEdges(acc.edge \ Edges(l.p, o))
     \/ want = had /\ UNCHANGED <<acc, accLog>>
     \/ want # {} /\ had = {} /\ \E r \in want : CreateEdge(l.p, o, r)
     \/ want # {} /\ had \notin {{}, want}
        /\ \E r \in want : SetEdges(Rerolled(l.p, o, r))

DeleteUser(q) == \E u \in Users : /\ Exists(u)
  /\ Begin(q, Idle)
  /\ acc' = Without(u)
  /\ accLog' = Wanted(u, NoNode)

\* Hashing runs in a thread: the node is written as it was read before.
ChangePassword(q) == \E u \in Users : /\ Exists(u)
  /\ Look(q, [at |-> "user.password", p |-> u, read |-> acc.node[u]])

ChangePasswordSave(q) == LET l == req[q]
                             now == accLog.want[l.p] IN
  \E pw \in Passwords :
    /\ Step(q, "user.password", Idle)
    /\ MergeNode(q, l.p, [l.read EXCEPT !.pw = pw],
                 IF now.there THEN [now EXCEPT !.pw = pw] ELSE now)

AddToOrganization(q) == \E u \in Users, o \in Orgs, r \in Roles :
  /\ Exists(u) /\ o \in acc.org /\ acc.role[r].there
  /\ Look(q, [at |-> IF Edges(u, o) = {} THEN "user.join" ELSE "user.rerole",
              p |-> u, o |-> o, r |-> r])

JoinOrganization(q) == LET l == req[q] IN
  Step(q, "user.join", Idle) /\ CreateEdge(l.p, l.o, l.r)

\* Also the second statement of update_membership_role.
ReroleMember(q) == LET l == req[q] IN
  Step(q, "user.rerole", Idle) /\ SetEdges(Rerolled(l.p, l.o, l.r))

UpdateMembershipRole(q) == \E p \in Principals, o \in Orgs, r \in Roles :
  /\ acc.role[r].there
  /\ Look(q, [at |-> "user.rerole", p |-> p, o |-> o, r |-> r])

RemoveFromOrganization(q) == \E u \in Users, o \in Orgs :
  Edges(u, o) # {} /\ Begin(q, Idle) /\ SetEdges(acc.edge \ Edges(u, o))

-----------------------------------------------------------------------------
\* auth/membership.py: the first token of a user without a membership brings
\* one.  `then` is where the caller of issue_token_pair goes on.

Back(q) == IF req[q].then = "idle" THEN Idle ELSE To(q, req[q].then)

EnsureMembership(q) ==
  Wait(q, "ensure.count", IF Exists(req[q].p) /\ EdgesOf(req[q].p) = {}
                          THEN To(q, "ensure.role") ELSE Back(q))

DefaultRole(q) ==
  LET defaults == {r \in Roles : acc.role[r].there /\ acc.role[r].default} IN
  IF defaults = {} THEN Wait(q, "ensure.role", Back(q))
  ELSE \E r \in defaults : Wait(q, "ensure.role", With(To(q, "ensure.org"), [r |-> r]))

TargetOrg(q) ==
  Wait(q, "ensure.org",
       IF Cardinality(acc.org) # 1 /\ SeedOrg \notin acc.org THEN Back(q)
       ELSE With(To(q, "ensure.create"),
                 [o |-> IF Cardinality(acc.org) = 1 THEN CHOOSE o \in acc.org : TRUE
                        ELSE SeedOrg]))

\* MERGE with the role in the pattern: an edge with another role does not match.
CreateMembership(q) == LET l == req[q] IN
  /\ Step(q, "ensure.create", Back(q))
  /\ IF acc.role[l.r].there /\ \A e \in Edges(l.p, l.o) : e.role # l.r
     THEN CreateEdge(l.p, l.o, l.r) ELSE UNCHANGED <<acc, accLog>>

-----------------------------------------------------------------------------
\* service_accounts.py

CreateService(q) == \E s \in Services, o \in Orgs, r \in Roles : /\ ~Exists(s)
  /\ Begin(q, [at |-> "service.member", p |-> s, o |-> o, r |-> r])
  /\ acc' = [acc EXCEPT !.node[s] = Node(TRUE, NoPassword)]
  /\ accLog' = Wanted(s, Node(TRUE, NoPassword))

CreateServiceMember(q) == At(q, "service.member") /\ LET l == req[q] IN
  IF Exists(l.p) /\ l.o \in acc.org /\ acc.role[l.r].there
  THEN Step(q, "service.member", Idle) /\ SetEdges(MergedEdge(l.p, l.o, l.r))
  ELSE Wait(q, "service.member", To(q, "user.rollback"))

PatchService(q) == \E s \in Services : /\ Exists(s)
  /\ Look(q, [at |-> "service.patch", p |-> s, read |-> acc.node[s]])

PatchServiceSave(q) == LET l == req[q]
                           now == accLog.want[l.p] IN
  \E active \in BOOLEAN :
    /\ Step(q, "service.patch", Idle)
    /\ MergeNode(q, l.p, [l.read EXCEPT !.active = active],
                 IF now.there THEN [now EXCEPT !.active = active] ELSE now)

DeleteService(q) == \E s \in Services : /\ Exists(s)
  /\ Begin(q, Idle)
  /\ acc' = Without(s)
  /\ accLog' = Wanted(s, NoNode)

\* One MERGE: the service account's handler cannot make a second edge.
AddService(q) == \E s \in Services, o \in Orgs, r \in Roles :
  /\ Exists(s) /\ o \in acc.org /\ acc.role[r].there
  /\ Begin(q, Idle) /\ SetEdges(MergedEdge(s, o, r))

RemoveService(q) == \E s \in Services, o \in Orgs :
  Edges(s, o) # {} /\ Begin(q, Idle) /\ SetEdges(acc.edge \ Edges(s, o))

-----------------------------------------------------------------------------
\* organizations.py

CreateOrganization(q) == \E o \in Orgs \ acc.org :
  Begin(q, Idle) /\ acc' = [acc EXCEPT !.org = @ \cup {o}] /\ UNCHANGED accLog

\* A rename reads the node, then its previous slugs, then writes.
PatchOrganization(q) == \E o \in acc.org, new \in Orgs : /\ o # new
  /\ Look(q, [at |-> "org.previous", o |-> o, new |-> new])

PreviousSlugs(q) ==
  Wait(q, "org.previous", IF req[q].o \in acc.org THEN To(q, "org.save") ELSE Idle)

\* The node keeps its edges under the new slug; a slug that is taken is a 409.
PersistOrganization(q) == At(q, "org.save") /\ LET l == req[q] IN
  IF l.o \in acc.org /\ l.new \notin acc.org
  THEN /\ Step(q, "org.save", Idle)
       /\ acc' = [acc EXCEPT
            !.org = (@ \ {l.o}) \cup {l.new},
            !.edge = {IF e.o = l.o THEN [e EXCEPT !.o = l.new] ELSE e : e \in @}]
       /\ accLog' = [accLog EXCEPT !.raced = {IF x[2] = l.o THEN <<x[1], l.new>> ELSE x : x \in @}]
  ELSE Wait(q, "org.save", Idle)

DeleteOrganization(q) == \E o \in acc.org :
  /\ Begin(q, Idle)
  /\ acc' = [acc EXCEPT !.org = @ \ {o}, !.edge = {e \in @ : e.o # o}]
  /\ UNCHANGED accLog

-----------------------------------------------------------------------------
\* roles.py

\* The body is a whole Role: the flags are the caller's.
CreateRole(q) == \E r \in Roles, system, default \in BOOLEAN :
  /\ ~acc.role[r].there
  /\ Begin(q, Idle)
  /\ acc' = [acc EXCEPT !.role[r] = Role(system, default)]
  /\ UNCHANGED accLog

\* Every handler below looks first and refuses a system role; its write does
\* not look again.
SeenRole(at, r) == [at |-> at, r |-> r, system |-> acc.role[r].system]

\* What a handler that has looked at a role writes on a system role: noted,
\* unless it is the very thing its look has to refuse.
Reach(q, r) == [accLog EXCEPT !.reached =
  IF acc.role[r].system /\ ~(req[q].r = r /\ req[q].system) THEN @ \cup {r} ELSE @]

PatchRole(q) == \E r \in Roles : /\ acc.role[r].there /\ ~acc.role[r].system
  /\ Look(q, SeenRole("role.patch", r))

\* The merge is on the patched document's slug: another slug in it leaves the
\* role that was read and writes the one of that slug.
PatchRoleSave(q) == \E r \in Roles, system, default \in BOOLEAN :
  /\ Step(q, "role.patch", Idle)
  /\ acc' = [acc EXCEPT !.role[r] = Role(system, default)]
  /\ accLog' = Reach(q, r)

DeleteRole(q) == \E r \in Roles : /\ acc.role[r].there /\ ~acc.role[r].system
  /\ Look(q, SeenRole("role.delete", r))

\* Memberships name their role by slug and are left as they are.
DeleteRoleNode(q) == LET r == req[q].r IN
  /\ Step(q, "role.delete", Idle)
  /\ acc' = [acc EXCEPT !.role[r] = NoRole, !.grant = @ \ GrantsOf(r)]
  /\ accLog' = Reach(q, r)

GrantPermission(q) == \E r \in Roles, n \in Perms :
  /\ acc.role[r].there /\ ~acc.role[r].system
  /\ Look(q, [at |-> "role.perm", r |-> r, n |-> n])

FindPermission(q) ==
  Wait(q, "role.perm", IF req[q].n \in acc.perm THEN To(q, "role.grant") ELSE Idle)

WriteGrant(q) == LET l == req[q] IN
  /\ Step(q, "role.grant", Idle)
  /\ acc' = [acc EXCEPT !.grant = IF acc.role[l.r].there /\ l.n \in acc.perm
                                  THEN @ \cup {<<l.r, l.n>>} ELSE @]
  /\ UNCHANGED accLog

RevokePermission(q) == \E r \in Roles, n \in Perms :
  /\ acc.role[r].there /\ ~acc.role[r].system
  /\ Look(q, With(SeenRole("role.revoke", r), [n |-> n]))

DeleteGrant(q) == LET l == req[q] IN
  /\ Step(q, "role.revoke", Idle)
  /\ acc' = [acc EXCEPT !.grant = @ \ {<<l.r, l.n>>}]
  /\ accLog' = Reach(q, l.r)

-----------------------------------------------------------------------------
\* auth/seed.py: the bootstrap, safe to run again and beside anything else.

SeedOrganization(q) == Look(q, [at |-> "seed.org"])

\* MERGE: the check before it only says what to log.
SeedOrganizationMerge(q) ==
  /\ Step(q, "seed.org", [at |-> "seed.count"])
  /\ acc' = [acc EXCEPT !.org = @ \cup {SeedOrg}]
  /\ UNCHANGED accLog

CountRetired(q) ==
  Wait(q, "seed.count", [at |-> IF OldPerm \in acc.perm THEN "seed.clean" ELSE "seed.perms"])

CleanupRetired(q) ==
  /\ Step(q, "seed.clean", [at |-> "seed.perms"])
  /\ acc' = [acc EXCEPT !.perm = @ \ {OldPerm}, !.grant = {g \in @ : g[2] # OldPerm}]
  /\ UNCHANGED accLog

SeedPermissions(q) ==
  /\ Step(q, "seed.perms", [at |-> "seed.roles"])
  /\ acc' = [acc EXCEPT !.perm = @ \cup {SeedPerm}]
  /\ UNCHANGED accLog

\* The roles and their grants in one query.
SeedRoles(q) ==
  /\ Step(q, "seed.roles", Idle)
  /\ acc' = [acc EXCEPT !.role[SeedRole] = Role(TRUE, TRUE),
                        !.grant = IF SeedPerm \in acc.perm
                                  THEN @ \cup {<<SeedRole, SeedPerm>>} ELSE @]
  /\ accLog' = [accLog EXCEPT !.seeded = TRUE, !.reached = @ \ {SeedRole}]

\* load_principal_permissions: the grants of the roles the memberships name.
\* Nothing in src/ writes INHERITS_FROM, so a role has no ancestors here.
PermissionsOf(p) ==
  {n \in acc.perm : \E e \in EdgesOf(p) : acc.role[e.role].there /\ <<e.role, n>> \in acc.grant}

-----------------------------------------------------------------------------

\* A system that has been set up, or the graph before its first bootstrap.
AccInit == \E seeded \in BOOLEAN :
  LET pw == CHOOSE x \in Passwords : TRUE
      node == [p \in Principals |->
                 IF p \in Users THEN Node(TRUE, pw) ELSE Node(TRUE, NoPassword)]
      none == [p \in Principals |-> NoNode] IN
  /\ acc = [node |-> IF seeded THEN node ELSE none,
            edge |-> IF seeded
                     THEN {[p |-> p, o |-> SeedOrg, role |-> SeedRole, n |-> 0] : p \in Principals}
                     ELSE {},
            org |-> IF seeded THEN {SeedOrg} ELSE {},
            role |-> [r \in Roles |-> IF seeded /\ r = SeedRole THEN Role(TRUE, TRUE) ELSE NoRole],
            perm |-> IF seeded THEN {SeedPerm} ELSE {OldPerm},
            grant |-> IF seeded THEN {<<SeedRole, SeedPerm>>} ELSE {}]
  /\ accLog = [want |-> acc.node, stale |-> {}, raced |-> {}, reached |-> {},
               seeded |-> seeded]

UserCalls(q) == CreateUser(q) \/ PatchUser(q) \/ DeleteUser(q) \/ ChangePassword(q)

MemberCalls(q) == AddToOrganization(q) \/ UpdateMembershipRole(q) \/ RemoveFromOrganization(q)

ServiceCalls(q) ==
  \/ CreateService(q) \/ PatchService(q) \/ DeleteService(q)
  \/ AddService(q) \/ RemoveService(q)

OrganizationCalls(q) == CreateOrganization(q) \/ PatchOrganization(q) \/ DeleteOrganization(q)

RoleCalls(q) ==
  \/ CreateRole(q) \/ PatchRole(q) \/ DeleteRole(q)
  \/ GrantPermission(q) \/ RevokePermission(q)

AccountsStep(q) ==
  \/ CreateUserNode(q) \/ CreateUserMember(q) \/ CreateUserRollback(q)
  \/ PatchUserOrgs(q) \/ PatchUserSave(q) \/ CheckOrgs(q) \/ CheckRoles(q) \/ Reconcile(q)
  \/ ChangePasswordSave(q) \/ JoinOrganization(q) \/ ReroleMember(q)
  \/ EnsureMembership(q) \/ DefaultRole(q) \/ TargetOrg(q) \/ CreateMembership(q)
  \/ CreateServiceMember(q) \/ PatchServiceSave(q)
  \/ PreviousSlugs(q) \/ PersistOrganization(q)
  \/ PatchRoleSave(q) \/ DeleteRoleNode(q) \/ FindPermission(q) \/ WriteGrant(q) \/ DeleteGrant(q)
  \/ SeedOrganizationMerge(q) \/ CountRetired(q) \/ CleanupRetired(q)
  \/ SeedPermissions(q) \/ SeedRoles(q)

AccountsNext == \E q \in Slots :
  \/ "users" \in mix /\ UserCalls(q)
  \/ "members" \in mix /\ MemberCalls(q)
  \/ "services" \in mix /\ ServiceCalls(q)
  \/ "organizations" \in mix /\ OrganizationCalls(q)
  \/ "roles" \in mix /\ RoleCalls(q)
  \/ "seed" \in mix /\ SeedOrganization(q)
  \/ AccountsStep(q)

-----------------------------------------------------------------------------
\* Properties

AccTypeOK ==
  /\ acc.node \in [Principals -> [there : BOOLEAN, active : BOOLEAN,
                                  pw : Passwords \cup {NoPassword}]]
  /\ acc.edge \subseteq [p : Principals, o : acc.org, role : Roles, n : Nat]
  /\ \A e \in acc.edge : Exists(e.p)
  /\ acc.role \in [Roles -> [there : BOOLEAN, system : BOOLEAN, default : BOOLEAN]]
  /\ acc.perm \subseteq Perms
  /\ acc.grant \subseteq {r \in Roles : acc.role[r].there} \X acc.perm
  /\ accLog.stale \subseteq Principals

\* Every principal is as the operators last asked for it (there or not, active
\* or not, with which password), whatever logins, rehashes and patches wrote its
\* whole node in between; but for one whose node a handler merged over a change
\* made after it had read it (users.py:684 and :828, auth.py:802 and :892,
\* service_accounts.py:282).
NodesAsWanted == \A p \in Principals \ accLog.stale : acc.node[p] = accLog.want[p]

\* A principal has one membership per organisation, but where a handler's CREATE
\* came after another's: the look at auth/membership.py:71, users.py:863 or
\* users.py:609 and the write it decides are statements of their own.
OneMembership == \A a, b \in acc.edge :
  a.p = b.p /\ a.o = b.o => a = b \/ <<a.p, a.o>> \in accLog.raced

\* A system role stays the default system role and its members keep the seeded
\* permission, as roles.py refuses to change it; but for one that a handler has
\* written which had looked at another role, or at this one before it was seeded.
SystemRoleKept == accLog.seeded /\ SeedRole \notin accLog.reached =>
  /\ acc.role[SeedRole] = Role(TRUE, TRUE)
  /\ \A e \in acc.edge : e.role = SeedRole => SeedPerm \in PermissionsOf(e.p)

\* Principals, memberships and the system role are as the operators asked,
\* whatever the handlers had read before they wrote.
AccountsAsWanted == NodesAsWanted /\ OneMembership /\ SystemRoleKept
=============================================================================
