---------------------------- MODULE AccessProofs ----------------------------
(***************************************************************************)
(* Proofs about Access for any number of requests in flight, principals,   *)
(* organisations, roles and permissions, and any mix of callers: types,    *)
(* the age of what the key cache lets in, what may be used once, what      *)
(* stays revoked, a second factor that is its owner's last one and         *)
(* verified, and accounts that are as they were asked to be.  The last     *)
(* part is about the other state behind who a caller is, the connection    *)
(* to an identity provider of IdentityConnection.                          *)
(***************************************************************************)
EXTENDS Access, IdentityConnection, FiniteSetTheorems, SequenceTheorems, TLAPS

-----------------------------------------------------------------------------
(* The locals of a handler, by where it stands.                            *)

NodeRecord == [there : BOOLEAN, active : BOOLEAN, pw : Passwords \cup {NoPassword}]
RoleRecord == [there : BOOLEAN, system : BOOLEAN, default : BOOLEAN]
EdgeRecord == [p : Principals, o : Orgs, role : Roles, n : Nat]

LoginLabels == {"login.rehash", "login.mfa", "login.used", "login.backup",
                "login.issue", "login.save"}
EnsureLabels == {"ensure.count", "ensure.role", "ensure.org", "ensure.create"}
MfaLabels == {"mfa.clear", "mfa.save", "mfa.verify", "mfa.enable", "mfa.disable",
              "mfa.delete"}
MfaEntries == {"mfa.clear", "mfa.verify", "mfa.disable"}
RotationLabels == {"refresh.principal", "refresh.issue"}
LogoutLabels == {"logout.all", "logout.issued", "logout.refresh"}
LookupLabels == {"apikey.perms", "apikey.stamp"}

\* Where a handler holds a principal, the node it read, an organisation, ...
HasPrincipal == LoginLabels \cup EnsureLabels \cup MfaLabels \cup
  {"user.create", "user.member", "user.rollback", "user.orgs", "user.patch",
   "user.checkorgs", "user.checkroles", "user.reconcile", "user.password",
   "user.join", "user.rerole", "service.member", "service.patch",
   "oauth.create", "oauth.link", "code.issue", "refresh.issue",
   "logout.access", "logout.all", "logout.issued", "logout.refresh",
   "key.scopes", "key.create", "key.find", "key.lookup", "key.own",
   "key.revoke", "key.rotate", "sakey.create", "sakey.rotate",
   "client.create", "client.rotate", "grant.issue"}
HasNode == LoginLabels \cup {"oauth.link", "user.orgs", "user.patch",
                             "user.password", "service.patch"}
HasOrg == {"user.create", "user.member", "user.join", "user.rerole",
           "ensure.create", "service.member", "org.previous", "org.save"}
HasRole == {"user.create", "user.member", "user.join", "user.rerole",
            "ensure.org", "ensure.create", "service.member", "role.patch",
            "role.delete", "role.perm", "role.grant", "role.revoke"}
HasSeen == {"role.patch", "role.delete", "role.revoke"}
HasRead == {"user.patch", "user.checkorgs", "user.checkroles", "user.reconcile"}
HasDoc == {"user.checkorgs", "user.checkroles", "user.reconcile"}
HasPair == RotationLabels \cup LogoutLabels \cup
           {"refresh.reuse", "refresh.cascade", "jwt.principal", "logout.access"}
HasKey == LookupLabels \cup {"key.own", "key.revoke", "key.rotate", "sakey.rotate",
                             "client.rotate"}

\* Where a handler knows something of a pair, a second factor, a key it has
\* found good or the seeded permissions.
Delicate == HasPair \cup MfaLabels \cup LookupLabels \cup {"seed.roles"}

JwtThen == {"logout.access", "key.scopes", "key.find", "key.lookup"} \cup MfaEntries
IssueThen == {"idle", "login.save", "grant.used"}

LiveNode(l) == "read" \in DOMAIN l /\ l.read \in NodeRecord /\ l.read.there

LocalsOK(l) ==
  /\ "at" \in DOMAIN l
  /\ l.at \in HasPrincipal => "p" \in DOMAIN l /\ l.p \in Principals
  /\ l.at \in HasNode => LiveNode(l)
  /\ l.at = "oauth.create" => "read" \in DOMAIN l /\ l.read \in NodeRecord /\ ~l.read.there
  /\ l.at \in HasOrg => "o" \in DOMAIN l /\ l.o \in Orgs
  /\ l.at \in {"org.previous", "org.save"} => "new" \in DOMAIN l /\ l.new \in Orgs
  /\ l.at \in HasRole => "r" \in DOMAIN l /\ l.r \in Roles
  /\ l.at \in HasSeen => "system" \in DOMAIN l /\ l.system = FALSE
  /\ l.at \in HasRead => "had" \in DOMAIN l /\ l.had \in SUBSET EdgeRecord
  /\ l.at \in HasDoc => "doc" \in DOMAIN l /\ l.doc \in SUBSET EdgeRecord
  /\ l.at \in EnsureLabels =>
        /\ "then" \in DOMAIN l /\ l.then \in IssueThen
        /\ l.then = "login.save" => LiveNode(l)
  /\ l.at = "jwt.principal" =>
        /\ "then" \in DOMAIN l /\ l.then \in JwtThen
        /\ l.then \in MfaEntries => "mfa" \in DOMAIN l /\ l.mfa \in Users
  /\ l.at \in MfaLabels => "mfa" \in DOMAIN l /\ l.mfa \in Users /\ l.p = l.mfa
  /\ l.at = "mfa.enable" => "n" \in DOMAIN l /\ l.n \in Nat
  /\ l.at \in HasPair => "i" \in DOMAIN l
  /\ l.at = "code.consume" => "code" \in DOMAIN l /\ l.code \in Principals \X Nat
  /\ l.at \in HasKey => "k" \in DOMAIN l /\ l.k \in Nat
  /\ l.at \in LookupLabels => /\ "s" \in DOMAIN l /\ l.s \in Nat
                              /\ "since" \in DOMAIN l /\ l.since \in Nat

\* A call about a second factor.
OnMfa(l) == l.at \in MfaLabels \/ (l.at = "jwt.principal" /\ l.then \in MfaEntries)

\* What a handler knows of a pair is of one that there is.
PairOK(l) ==
  /\ l.at \in HasPair => l.i \in Pairs
  /\ l.at = "jwt.principal" /\ l.then \in MfaEntries => l.mfa = ses.pair[l.i].sub

-----------------------------------------------------------------------------
(* The types.                                                              *)

PoolInv ==
  /\ DOMAIN req = Slots
  /\ mix \in Mixes
  /\ begun \in 0..MaxBegun[mix]
  /\ faults \in 0..MaxFaults
  /\ \A q \in Slots : LocalsOK(req[q])

AccRecord == [node : [Principals -> NodeRecord], edge : SUBSET EdgeRecord,
              org : SUBSET Orgs, role : [Roles -> RoleRecord],
              perm : SUBSET Perms, grant : SUBSET (Roles \X Perms)]
AccLogRecord == [want : [Principals -> NodeRecord], stale : SUBSET Principals,
                 raced : SUBSET (Principals \X Orgs), reached : SUBSET Roles,
                 seeded : BOOLEAN]

\* Edges and grants hang on nodes that are there.
AccInv ==
  /\ acc \in AccRecord /\ accLog \in AccLogRecord
  /\ \A p \in Principals : acc.node[p].active => acc.node[p].there
  /\ \A e \in acc.edge : e.o \in acc.org /\ acc.node[e.p].there
  /\ \A g \in acc.grant : acc.role[g[1]].there /\ g[2] \in acc.perm
  /\ IsFiniteSet(acc.edge)

PairRecord == [sub : Principals, owner : Principals \cup {NoOne}, family : Nat]
SecretRecord == [u : Users, n : Nat, on : BOOLEAN, codes : SUBSET Nat]

SesRecord == [pair : Seq(PairRecord), revoked : SUBSET (Nat \X Kinds),
              totp : SUBSET SecretRecord, code : SUBSET (Principals \X Nat)]
SesLogRecord == [from : Seq(Nat), root : Seq(Nat), used : Seq(Nat), made : Nat,
                 cascaded : SUBSET Nat, spared : SUBSET Nat, out : SUBSET Nat,
                 verified : SUBSET Nat, overlap : SUBSET Users]

SesCore ==
  /\ ses \in SesRecord /\ sesLog \in SesLogRecord
  /\ ses.revoked \subseteq Tokens(Pairs)
  /\ \A i \in Pairs : ses.pair[i].family \in Pairs
  /\ Len(sesLog.from) = Len(ses.pair) /\ Len(sesLog.root) = Len(ses.pair)

SesInv == SesCore /\ \A q \in Slots : PairOK(req[q])

KeyRecord == [kind : {"api", "client"}, there : BOOLEAN, owner : Principals \cup {NoOne},
              secret : Nat, revoked : BOOLEAN]
EntryRecord == [k : Nat, s : Nat, until : Nat, gap : Nat]

KeysInv ==
  /\ keys \in Seq(KeyRecord)
  /\ cache \in Seq(EntryRecord) /\ Len(cache) <= CacheSize
  /\ now \in 0..MaxTime
  /\ keyLog \in [valid : Seq([k : Nat, at : Nat]), late : Int]
  /\ \A k \in Keys : /\ keys[k].secret \in DOMAIN keyLog.valid
                     /\ keyLog.valid[keys[k].secret].k = k

TypeInv == PoolInv /\ AccInv /\ SesInv /\ KeysInv

-----------------------------------------------------------------------------
(* How a handler moves.                                                    *)

\* The handler q goes on, and what it holds then is typed.
Goes(q) ==
  /\ req' = [req EXCEPT ![q] = req'[q]]
  /\ mix' = mix /\ faults' = faults
  /\ begun' = begun \/ (begun' = begun + 1 /\ begun < MaxBegun[mix])
  /\ LocalsOK(req'[q])

\* It knows of none of these.
GoesOn(q) == Goes(q) /\ req'[q].at \notin Delicate

\* Goes, and the disjuncts of a step.
LEMMA BeginGoes ==
    ASSUME PoolInv, NEW q \in Slots, NEW next, Begin(q, next), LocalsOK(next)
    PROVE  Goes(q) /\ req'[q] = next /\ req[q].at = "idle"
<1>1. req' = [req EXCEPT ![q] = next] /\ DOMAIN req = Slots
  BY DEF Begin, PoolInv
<1>2. req'[q] = next
  BY <1>1
<1> QED BY <1>1, <1>2 DEF Begin, Goes, Idle

LEMMA StepGoes ==
    ASSUME PoolInv, NEW q \in Slots, NEW next, NEW label, Step(q, label, next), LocalsOK(next)
    PROVE  Goes(q) /\ req'[q] = next /\ req[q].at = label
<1>1. req' = [req EXCEPT ![q] = next] /\ DOMAIN req = Slots
  BY DEF Step, PoolInv
<1>2. req'[q] = next
  BY <1>1
<1> QED BY <1>1, <1>2 DEF Step, Goes, At

\* The same for a handler that knows of nothing delicate.
LEMMA StepGoesOn ==
    ASSUME PoolInv, NEW q \in Slots, NEW next, NEW label, Step(q, label, next), LocalsOK(next),
           next.at \notin Delicate
    PROVE  GoesOn(q)
BY StepGoes DEF GoesOn

LEMMA IdleOK == LocalsOK(Idle) /\ Idle.at = "idle" /\ "idle" \notin Delicate
BY DEF Idle, LocalsOK, HasPrincipal, HasNode, HasOrg, HasRole, HasSeen, HasRead, HasDoc,
       HasPair, HasKey, LoginLabels, EnsureLabels, MfaLabels, LookupLabels, RotationLabels,
       LogoutLabels, Delicate

\* The others hold what they held.
LEMMA OthersStay ==
    ASSUME PoolInv, NEW q \in Slots, Goes(q)
    PROVE  PoolInv' /\ \A r \in Slots : r # q => req'[r] = req[r]
<1>1. \A r \in Slots : r # q => req'[r] = req[r]
  BY DEF Goes, PoolInv
<1>2. DOMAIN req' = Slots
  BY DEF Goes, PoolInv
<1>3. \A r \in Slots : LocalsOK(req'[r])
  BY <1>1 DEF Goes, PoolInv
<1>4. begun' \in 0..MaxBegun[mix] /\ mix' \in Mixes
  BY RequestAssumption DEF Goes, PoolInv
<1> QED BY <1>1, <1>2, <1>3, <1>4 DEF Goes, PoolInv

-----------------------------------------------------------------------------
(* The handlers of Accounts.                                               *)

LEMMA BackOK ==
    ASSUME NEW q \in Slots, LocalsOK(req[q]), req[q].at \in EnsureLabels
    PROVE  LocalsOK(Back(q)) /\ Back(q).at \notin Delicate
<1> USE DEF HasPrincipal, HasNode, HasOrg, HasRole, HasSeen, HasRead, HasDoc, HasPair,
            HasKey, LoginLabels, EnsureLabels, MfaLabels, LookupLabels, RotationLabels,
            LogoutLabels, Delicate
<1>1. CASE req[q].then = "idle"
  BY <1>1, IdleOK DEF Back
<1>2. CASE req[q].then = "login.save"
  <2>1. Back(q) = To(q, "login.save")
    BY <1>2 DEF Back
  <2> QED BY <1>2, <2>1 DEF LocalsOK, LiveNode, To
<1>3. CASE req[q].then = "grant.used"
  <2>1. Back(q) = To(q, "grant.used")
    BY <1>3 DEF Back
  <2> QED BY <1>3, <2>1 DEF LocalsOK, LiveNode, To
<1> QED BY <1>1, <1>2, <1>3 DEF LocalsOK, IssueThen

LEMMA ReconcileGoes ==
    ASSUME TypeInv, NEW q \in Slots, Reconcile(q)
    PROVE  GoesOn(q)
<1> DEFINE rest == req[q].todo \ {CHOOSE x \in req[q].todo : TRUE}
           new == [req[q] EXCEPT !.todo = rest]
<1>1. /\ req[q].at = "user.reconcile"
      /\ Step(q, "user.reconcile", Idle) \/ Step(q, "user.reconcile", new)
  BY DEF Reconcile, Step, At
<1>2. PoolInv /\ LocalsOK(req[q])
  BY DEF TypeInv, PoolInv
<1>3. DOMAIN new = DOMAIN req[q] /\ \A f \in DOMAIN req[q] : f # "todo" => new[f] = req[q][f]
  OBVIOUS
<1> HIDE DEF new
<1>4. "at" \in DOMAIN req[q]
  BY <1>2 DEF LocalsOK
<1>5. LocalsOK(new) /\ new.at \notin Delicate
  BY <1>1, <1>2, <1>3, <1>4
     DEF LocalsOK, LiveNode, HasPrincipal, HasNode, HasOrg, HasRole, HasSeen, HasRead, HasDoc,
         HasPair, HasKey, LoginLabels, EnsureLabels, MfaLabels, LookupLabels, RotationLabels,
         LogoutLabels, Delicate
<1> QED BY <1>1, <1>2, <1>5, StepGoesOn, IdleOK

LEMMA UsersGo ==
    ASSUME TypeInv, NEW q \in Slots,
           \/ UserCalls(q) \/ CreateUserNode(q) \/ CreateUserMember(q)
           \/ CreateUserRollback(q) \/ PatchUserOrgs(q) \/ PatchUserSave(q)
           \/ CheckOrgs(q) \/ CheckRoles(q) \/ Reconcile(q) \/ ChangePasswordSave(q)
    PROVE  GoesOn(q)
<1> USE DEF TypeInv, PoolInv, HasPrincipal, HasNode, HasOrg, HasRole, HasSeen, HasRead, HasDoc,
            HasPair, HasKey, LoginLabels, EnsureLabels, MfaLabels, LookupLabels, RotationLabels,
            LogoutLabels, Delicate, Goes, GoesOn, LocalsOK, LiveNode, Begin, Look, Step, Wait, At,
            To, With, Idle
<1>1. CASE CreateUser(q)
  BY <1>1 DEF CreateUser, Principals
<1>2. CASE PatchUser(q)
  BY <1>2 DEF PatchUser, AccInv, AccRecord, AccLogRecord, Exists, Principals
<1>3. CASE DeleteUser(q)
  BY <1>3 DEF DeleteUser
<1>4. CASE ChangePassword(q)
  BY <1>4 DEF ChangePassword, AccInv, AccRecord, AccLogRecord, Exists, Principals
<1>5. CASE CreateUserNode(q)
  <2>1. LocalsOK(req[q]) /\ req[q].at = "user.create"
    BY <1>5 DEF CreateUserNode
  <2>2. LocalsOK(To(q, "user.member")) /\ To(q, "user.member").at \notin Delicate
    BY <2>1
  <2>3. Step(q, "user.create", Idle) \/ Step(q, "user.create", To(q, "user.member"))
    BY <1>5 DEF CreateUserNode
  <2> QED BY <2>2, <2>3, StepGoes, IdleOK DEF GoesOn
<1>6. CASE CreateUserMember(q)
  BY <1>6 DEF CreateUserMember
<1>7. CASE CreateUserRollback(q)
  BY <1>7 DEF CreateUserRollback
<1>8. CASE PatchUserOrgs(q)
  BY <1>8 DEF PatchUserOrgs, EdgesOf, AccInv, AccRecord, AccLogRecord
<1>9. CASE PatchUserSave(q)
  <2>1. LocalsOK(req[q]) /\ req[q].at = "user.patch"
    BY <1>9 DEF PatchUserSave
  <2>2. req[q].p \in Principals /\ req[q].had \in SUBSET EdgeRecord
    BY <2>1
  <2>3. ASSUME NEW doc \in Patched(req[q].p, req[q].had)
        PROVE  doc \in SUBSET EdgeRecord
    BY <2>2 DEF Patched, EdgeRecord
  <2>4. ASSUME NEW doc \in SUBSET EdgeRecord
        PROVE  /\ LocalsOK(With(To(q, "user.checkorgs"), [doc |-> doc]))
               /\ With(To(q, "user.checkorgs"), [doc |-> doc]).at \notin Delicate
    BY <2>1
  <2>5. \/ Step(q, "user.patch", Idle)
        \/ \E doc \in Patched(req[q].p, req[q].had) :
             Step(q, "user.patch", With(To(q, "user.checkorgs"), [doc |-> doc]))
    BY <1>9 DEF PatchUserSave
  <2>9. PoolInv
    OBVIOUS
  <2> HIDE DEF PoolInv, LocalsOK, Step, GoesOn, Goes, To, With, Delicate, Idle
  <2> QED BY <2>9, <2>3, <2>4, <2>5, StepGoesOn, IdleOK
<1>10. CASE CheckOrgs(q)
  BY <1>10 DEF CheckOrgs
<1>11. CASE CheckRoles(q)
  <2> DEFINE new == With(To(q, "user.reconcile"), [todo |-> {e.o : e \in req[q].doc \cup req[q].had}])
  <2>1. LocalsOK(req[q]) /\ req[q].at = "user.checkroles"
    BY <1>11 DEF CheckRoles
  <2>2. LocalsOK(new) /\ new.at \notin Delicate
    BY <2>1
  <2>3. Step(q, "user.checkroles", Idle) \/ Step(q, "user.checkroles", new)
    BY <1>11 DEF CheckRoles
  <2>4. PoolInv
    OBVIOUS
  <2> HIDE DEF new, PoolInv, LocalsOK, Step, GoesOn, Goes, To, With, Delicate, Idle
  <2> QED BY <2>2, <2>3, <2>4, StepGoesOn, IdleOK
<1>12. CASE Reconcile(q)
  <2> HIDE DEF TypeInv, PoolInv, LocalsOK, Step, GoesOn, Goes, Delicate, Idle
  <2> QED BY <1>12, ReconcileGoes
<1>13. CASE ChangePasswordSave(q)
  BY <1>13 DEF ChangePasswordSave
<1> QED BY <1>1, <1>2, <1>3, <1>4, <1>5, <1>6, <1>7, <1>8, <1>9, <1>10, <1>11, <1>12, <1>13
        DEF UserCalls

LEMMA MembersGo ==
    ASSUME TypeInv, NEW q \in Slots,
           \/ MemberCalls(q) \/ JoinOrganization(q) \/ ReroleMember(q)
           \/ EnsureMembership(q) \/ DefaultRole(q) \/ TargetOrg(q) \/ CreateMembership(q)
    PROVE  GoesOn(q)
<1> USE DEF TypeInv, PoolInv, HasPrincipal, HasNode, HasOrg, HasRole, HasSeen, HasRead, HasDoc,
            HasPair, HasKey, LoginLabels, EnsureLabels, MfaLabels, LookupLabels, RotationLabels,
            LogoutLabels, Delicate, Goes, GoesOn, LocalsOK, LiveNode, Begin, Look, Step, Wait, At,
            To, With, Idle
<1>1. CASE AddToOrganization(q)
  BY <1>1 DEF AddToOrganization, Principals
<1>2. CASE UpdateMembershipRole(q)
  BY <1>2 DEF UpdateMembershipRole
<1>3. CASE RemoveFromOrganization(q)
  BY <1>3 DEF RemoveFromOrganization
<1>4. CASE JoinOrganization(q)
  BY <1>4 DEF JoinOrganization
<1>5. CASE ReroleMember(q)
  BY <1>5 DEF ReroleMember
<1>6. CASE EnsureMembership(q)
  <2>1. LocalsOK(req[q]) /\ req[q].at = "ensure.count"
    BY <1>6 DEF EnsureMembership
  <2>2. LocalsOK(Back(q)) /\ Back(q).at \notin Delicate
    BY <2>1, BackOK
  <2>3. LocalsOK(To(q, "ensure.role")) /\ To(q, "ensure.role").at \notin Delicate
    BY <2>1
  <2>4. Step(q, "ensure.count", Back(q)) \/ Step(q, "ensure.count", To(q, "ensure.role"))
    BY <1>6 DEF EnsureMembership
  <2>5. PoolInv
    OBVIOUS
  <2> HIDE DEF PoolInv, LocalsOK, Step, GoesOn, Goes, To, With, Delicate, Idle
  <2> QED BY <2>2, <2>3, <2>4, <2>5, StepGoesOn
<1>7. CASE DefaultRole(q)
  <2>1. LocalsOK(req[q]) /\ req[q].at = "ensure.role"
    BY <1>7 DEF DefaultRole
  <2>2. LocalsOK(Back(q)) /\ Back(q).at \notin Delicate
    BY <2>1, BackOK
  <2>3. ASSUME NEW r \in Roles
        PROVE  /\ LocalsOK(With(To(q, "ensure.org"), [r |-> r]))
               /\ With(To(q, "ensure.org"), [r |-> r]).at \notin Delicate
    BY <2>1
  <2>4. \/ Step(q, "ensure.role", Back(q))
        \/ \E r \in Roles : Step(q, "ensure.role", With(To(q, "ensure.org"), [r |-> r]))
    BY <1>7 DEF DefaultRole
  <2>9. PoolInv
    OBVIOUS
  <2> HIDE DEF PoolInv, LocalsOK, Step, GoesOn, Goes, To, With, Delicate, Idle
  <2> QED BY <2>9, <2>2, <2>3, <2>4, StepGoesOn
<1>8. CASE TargetOrg(q)
  <2>1. LocalsOK(req[q]) /\ req[q].at = "ensure.org"
    BY <1>8 DEF TargetOrg
  <2>2. LocalsOK(Back(q)) /\ Back(q).at \notin Delicate
    BY <2>1, BackOK
  <2>3. ASSUME NEW o \in Orgs
        PROVE  /\ LocalsOK(With(To(q, "ensure.create"), [o |-> o]))
               /\ With(To(q, "ensure.create"), [o |-> o]).at \notin Delicate
    BY <2>1
  <2>4. (CHOOSE o \in acc.org : TRUE) \in Orgs \/ Cardinality(acc.org) # 1
    <3>1. acc.org \subseteq Orgs
      BY DEF AccInv, AccRecord, AccLogRecord
    <3>2. acc.org = {} => Cardinality(acc.org) = 0
      BY FS_EmptySet
    <3> QED BY <3>1, <3>2
  <2>5. \/ Step(q, "ensure.org", Back(q))
        \/ \E o \in Orgs : Step(q, "ensure.org", With(To(q, "ensure.create"), [o |-> o]))
    BY <1>8, <2>4, AccountsAssumption DEF TargetOrg
  <2>9. PoolInv
    OBVIOUS
  <2> HIDE DEF PoolInv, LocalsOK, Step, GoesOn, Goes, To, With, Delicate, Idle
  <2> QED BY <2>9, <2>2, <2>3, <2>5, StepGoesOn
<1>9. CASE CreateMembership(q)
  <2>1. LocalsOK(req[q]) /\ req[q].at = "ensure.create"
    BY <1>9 DEF CreateMembership
  <2>2. LocalsOK(Back(q)) /\ Back(q).at \notin Delicate
    BY <2>1, BackOK
  <2>3. Step(q, "ensure.create", Back(q))
    BY <1>9 DEF CreateMembership
  <2>4. PoolInv
    OBVIOUS
  <2> HIDE DEF PoolInv, LocalsOK, Step, GoesOn, Goes, To, With, Delicate, Idle
  <2> QED BY <2>2, <2>3, <2>4, StepGoesOn
<1> QED BY <1>1, <1>2, <1>3, <1>4, <1>5, <1>6, <1>7, <1>8, <1>9 DEF MemberCalls

LEMMA ServicesGo ==
    ASSUME TypeInv, NEW q \in Slots,
           \/ ServiceCalls(q) \/ CreateServiceMember(q) \/ PatchServiceSave(q)
           \/ OrganizationCalls(q) \/ PreviousSlugs(q) \/ PersistOrganization(q)
    PROVE  GoesOn(q)
<1> USE DEF TypeInv, PoolInv, HasPrincipal, HasNode, HasOrg, HasRole, HasSeen, HasRead, HasDoc,
            HasPair, HasKey, LoginLabels, EnsureLabels, MfaLabels, LookupLabels, RotationLabels,
            LogoutLabels, Delicate, Goes, GoesOn, LocalsOK, LiveNode, Begin, Look, Step, Wait, At,
            To, With, Idle
<1>1. CASE CreateService(q)
  BY <1>1 DEF CreateService, Principals
<1>2. CASE PatchService(q)
  BY <1>2 DEF PatchService, AccInv, AccRecord, AccLogRecord, Exists, Principals
<1>3. CASE DeleteService(q)
  BY <1>3 DEF DeleteService
<1>4. CASE AddService(q)
  BY <1>4 DEF AddService
<1>5. CASE RemoveService(q)
  BY <1>5 DEF RemoveService
<1>6. CASE CreateServiceMember(q)
  BY <1>6 DEF CreateServiceMember
<1>7. CASE PatchServiceSave(q)
  BY <1>7 DEF PatchServiceSave
<1>8. CASE CreateOrganization(q)
  BY <1>8 DEF CreateOrganization
<1>9. CASE PatchOrganization(q)
  BY <1>9 DEF PatchOrganization, AccInv, AccRecord, AccLogRecord
<1>10. CASE DeleteOrganization(q)
  BY <1>10 DEF DeleteOrganization
<1>11. CASE PreviousSlugs(q)
  BY <1>11 DEF PreviousSlugs
<1>12. CASE PersistOrganization(q)
  BY <1>12 DEF PersistOrganization
<1> QED BY <1>1, <1>2, <1>3, <1>4, <1>5, <1>6, <1>7, <1>8, <1>9, <1>10, <1>11, <1>12
        DEF ServiceCalls, OrganizationCalls

LEMMA RolesGo ==
    ASSUME TypeInv, NEW q \in Slots,
           \/ RoleCalls(q) \/ PatchRoleSave(q) \/ DeleteRoleNode(q) \/ FindPermission(q)
           \/ WriteGrant(q) \/ DeleteGrant(q)
           \/ SeedOrganization(q) \/ SeedOrganizationMerge(q) \/ CountRetired(q)
           \/ CleanupRetired(q) \/ SeedPermissions(q) \/ SeedRoles(q)
    PROVE  GoesOn(q) \/ (SeedPermissions(q) /\ Goes(q) /\ req'[q].at = "seed.roles")
<1> USE DEF TypeInv, PoolInv, HasPrincipal, HasNode, HasOrg, HasRole, HasSeen, HasRead, HasDoc,
            HasPair, HasKey, LoginLabels, EnsureLabels, MfaLabels, LookupLabels, RotationLabels,
            LogoutLabels, Delicate, Goes, GoesOn, LocalsOK, LiveNode, Begin, Look, Step, Wait, At,
            To, With, Idle, SeenRole
<1>1. CASE CreateRole(q)
  BY <1>1 DEF CreateRole
<1>2. CASE PatchRole(q)
  BY <1>2 DEF PatchRole, AccInv, AccRecord, AccLogRecord, RoleRecord
<1>3. CASE DeleteRole(q)
  BY <1>3 DEF DeleteRole, AccInv, AccRecord, AccLogRecord, RoleRecord
<1>4. CASE GrantPermission(q)
  BY <1>4 DEF GrantPermission
<1>5. CASE RevokePermission(q)
  <2>1. PICK r \in Roles, n \in Perms :
          acc.role[r].there /\ ~acc.role[r].system /\ Look(q, With(SeenRole("role.revoke", r), [n |-> n]))
    BY <1>5 DEF RevokePermission
  <2> DEFINE new == With(SeenRole("role.revoke", r), [n |-> n])
  <2>2. acc.role[r] \in RoleRecord
    BY DEF AccInv, AccRecord
  <2>3. acc.role[r].system = FALSE
    BY <2>1, <2>2 DEF RoleRecord
  <2>4. LocalsOK(new) /\ new.at \notin Delicate
    BY <2>3
  <2>5. Begin(q, new) /\ PoolInv
    BY <2>1
  <2> HIDE DEF new, PoolInv, LocalsOK, Begin, GoesOn, Goes, To, With, Delicate, Idle
  <2> QED BY <2>4, <2>5, BeginGoes DEF GoesOn
<1>6. CASE PatchRoleSave(q)
  BY <1>6 DEF PatchRoleSave
<1>7. CASE DeleteRoleNode(q)
  BY <1>7 DEF DeleteRoleNode
<1>8. CASE FindPermission(q)
  BY <1>8 DEF FindPermission
<1>9. CASE WriteGrant(q)
  BY <1>9 DEF WriteGrant
<1>10. CASE DeleteGrant(q)
  BY <1>10 DEF DeleteGrant
<1>11. CASE SeedOrganization(q)
  BY <1>11 DEF SeedOrganization
<1>12. CASE SeedOrganizationMerge(q)
  BY <1>12 DEF SeedOrganizationMerge
<1>13. CASE CountRetired(q)
  BY <1>13 DEF CountRetired
<1>14. CASE CleanupRetired(q)
  BY <1>14 DEF CleanupRetired
<1>15. CASE SeedPermissions(q)
  BY <1>15 DEF SeedPermissions
<1>16. CASE SeedRoles(q)
  BY <1>16 DEF SeedRoles
<1> QED BY <1>1, <1>2, <1>3, <1>4, <1>5, <1>6, <1>7, <1>8, <1>9, <1>10, <1>11, <1>12, <1>13,
           <1>14, <1>15, <1>16 DEF RoleCalls

-----------------------------------------------------------------------------
(* The handlers of Sessions.                                               *)

LEMMA IssueGoes ==
    ASSUME TypeInv, NEW q \in Slots, NEW label, NEW then \in IssueThen, NEW family, NEW from,
           label \in {"login.issue", "code.issue", "refresh.issue", "grant.issue"},
           then = "login.save" => label = "login.issue",
           Issue(q, label, req[q].p, family, from, then)
    PROVE  GoesOn(q)
<1> DEFINE l == req[q]
           go == With(l, [at |-> "ensure.count", p |-> l.p, then |-> then])
           on == To(q, then)
<1>1. PoolInv /\ LocalsOK(l) /\ l.at = label
  BY DEF TypeInv, PoolInv, Issue, At
<1> USE DEF HasPrincipal, HasNode, HasOrg, HasRole, HasSeen, HasRead, HasDoc, HasPair,
            HasKey, LoginLabels, EnsureLabels, MfaLabels, LookupLabels, RotationLabels,
            LogoutLabels, Delicate, IssueThen
<1>2. "at" \in DOMAIN l /\ "p" \in DOMAIN l /\ l.p \in Principals
  BY <1>1 DEF LocalsOK
<1>3. label = "login.issue" => LiveNode(l)
  BY <1>1 DEF LocalsOK
<1>4. LocalsOK(go) /\ go.at \notin Delicate
  BY <1>2, <1>3 DEF LocalsOK, LiveNode, With
<1>5. then # "idle" => LocalsOK(on) /\ on.at \notin Delicate
  BY <1>2, <1>3 DEF LocalsOK, LiveNode, To
<1>6. \/ Step(q, label, go)
      \/ then # "idle" /\ Step(q, label, on)
      \/ Step(q, label, Idle)
  BY DEF Issue, Pause, Wait
<1> HIDE DEF go, on, Delicate
<1> QED BY <1>1, <1>4, <1>5, <1>6, StepGoesOn, IdleOK

LEMMA LoginGoes ==
    ASSUME TypeInv, NEW q \in Slots,
           \/ Login(q) \/ LoginCallback(q) \/ Authorize(q) \/ CodeGrant(q)
           \/ LoginRehash(q) \/ LoginSecondFactor(q) \/ LoginTotp(q) \/ LoginBackupCode(q)
           \/ LoginIssue(q) \/ LoginSave(q) \/ CallbackCreatesUser(q) \/ CallbackLinks(q)
           \/ ConsumeCode(q) \/ CodeIssue(q)
    PROVE  GoesOn(q)
<1>1. PoolInv /\ AccInv /\ SesInv
  BY DEF TypeInv
<1>2. CASE LoginIssue(q)
  BY <1>2, IssueGoes DEF LoginIssue, IssueThen
<1>3. CASE CodeIssue(q)
  BY <1>3, IssueGoes DEF CodeIssue, IssueThen
<1>a. ASSUME LoginSecondFactor(q)
      PROVE  \/ Step(q, "login.mfa", To(q, "login.issue")) \/ Step(q, "login.mfa", To(q, "login.used"))
             \/ \E c : Step(q, "login.mfa", With(To(q, "login.backup"), [code |-> c]))
  BY <1>a DEF LoginSecondFactor, Pause, Wait
<1> USE <1>1 DEF PoolInv, HasPrincipal, HasNode, HasOrg, HasRole, HasSeen, HasRead, HasDoc,
            HasPair, HasKey, LoginLabels, EnsureLabels, MfaLabels, LookupLabels, RotationLabels,
            LogoutLabels, Delicate, Goes, GoesOn, LocalsOK, LiveNode, Begin, Look, Step, Wait, At,
            To, With, Idle, Glance, Pause
<1>4. CASE Login(q)
  BY <1>4 DEF Login, AccInv, AccRecord, AccLogRecord, Exists, Principals
<1>5. CASE LoginCallback(q)
  BY <1>5 DEF LoginCallback, AccInv, AccRecord, AccLogRecord, Exists, Principals
<1>6. CASE Authorize(q)
  BY <1>6 DEF Authorize
<1>7. CASE CodeGrant(q)
  BY <1>7 DEF CodeGrant, SesInv, SesCore, SesRecord, SesLogRecord
<1>8. CASE LoginRehash(q)
  BY <1>8 DEF LoginRehash
<1>9. CASE LoginSecondFactor(q)
  <2>1. LocalsOK(req[q]) /\ req[q].at = "login.mfa"
    BY <1>9 DEF LoginSecondFactor
  <2>2. /\ LocalsOK(To(q, "login.issue")) /\ To(q, "login.issue").at \notin Delicate
        /\ LocalsOK(To(q, "login.used")) /\ To(q, "login.used").at \notin Delicate
    BY <2>1
  <2>3. ASSUME NEW c
        PROVE  /\ LocalsOK(With(To(q, "login.backup"), [code |-> c]))
               /\ With(To(q, "login.backup"), [code |-> c]).at \notin Delicate
    BY <2>1
  <2>9. PoolInv
    OBVIOUS
  <2> HIDE DEF PoolInv, LocalsOK, Step, Begin, GoesOn, Goes, To, With, Delicate, Idle, PairOK, HasPair
  <2>4. \/ Step(q, "login.mfa", To(q, "login.issue")) \/ Step(q, "login.mfa", To(q, "login.used"))
        \/ \E c : Step(q, "login.mfa", With(To(q, "login.backup"), [code |-> c]))
    BY <1>9, <1>a
  <2> QED BY <2>2, <2>3, <2>4, <2>9, StepGoesOn
<1>10. CASE LoginTotp(q)
  BY <1>10 DEF LoginTotp
<1>11. CASE LoginBackupCode(q)
  <2>1. LocalsOK(req[q]) /\ req[q].at = "login.backup"
    BY <1>11 DEF LoginBackupCode
  <2>2. LocalsOK(To(q, "login.issue")) /\ To(q, "login.issue").at \notin Delicate
    BY <2>1
  <2>3. Step(q, "login.backup", Idle) \/ Step(q, "login.backup", To(q, "login.issue"))
    BY <1>11 DEF LoginBackupCode
  <2>9. PoolInv
    OBVIOUS
  <2> HIDE DEF PoolInv, LocalsOK, Step, Begin, GoesOn, Goes, To, With, Delicate, Idle, PairOK, HasPair
  <2> QED BY <2>2, <2>3, <2>9, StepGoesOn, IdleOK
<1>12. CASE LoginSave(q)
  BY <1>12 DEF LoginSave
<1>13. CASE CallbackCreatesUser(q)
  <2>1. LocalsOK(req[q]) /\ req[q].at = "oauth.create"
    BY <1>13 DEF CallbackCreatesUser
  <2>2. Node(TRUE, NoPassword) \in NodeRecord /\ Node(TRUE, NoPassword).there
    BY DEF Node, NodeRecord
  <2>3. /\ LocalsOK([To(q, "oauth.link") EXCEPT !.read = Node(TRUE, NoPassword)])
        /\ [To(q, "oauth.link") EXCEPT !.read = Node(TRUE, NoPassword)].at \notin Delicate
    BY <2>1, <2>2
  <2>4. Step(q, "oauth.create", [To(q, "oauth.link") EXCEPT !.read = Node(TRUE, NoPassword)])
    BY <1>13 DEF CallbackCreatesUser
  <2>5. PoolInv
    OBVIOUS
  <2> HIDE DEF PoolInv, LocalsOK, Step, GoesOn, Goes, To, With, Delicate, Idle
  <2> QED BY <2>5, <2>3, <2>4, StepGoesOn
<1>14. CASE CallbackLinks(q)
  BY <1>14 DEF CallbackLinks
<1>15. CASE ConsumeCode(q)
  BY <1>15 DEF ConsumeCode
<1> QED BY <1>2, <1>3, <1>4, <1>5, <1>6, <1>7, <1>8, <1>9, <1>10, <1>11, <1>12, <1>13, <1>14,
           <1>15

LEMMA PairTypes ==
    ASSUME SesInv, NEW i \in Pairs
    PROVE  /\ ses.pair[i] \in PairRecord /\ ses.pair[i].sub \in Principals
           /\ ses.pair[i].family \in Pairs /\ i \in Nat \ {0}
<1>1. ses.pair \in Seq(PairRecord)
  BY DEF SesInv, SesCore, SesRecord, SesLogRecord
<1>2. ses.pair[i] \in PairRecord /\ i \in Nat \ {0}
  BY <1>1 DEF Pairs
<1> QED BY <1>2 DEF SesInv, SesCore, SesRecord, SesLogRecord, PairRecord

LEMMA TokensGo ==
    ASSUME TypeInv, NEW q \in Slots,
           \/ RotateRefreshToken(q) \/ Logout(q)
           \/ RefreshReuse(q) \/ RefreshCascade(q) \/ CascadeConflict(q)
           \/ RefreshPrincipal(q) \/ RefreshIssue(q)
           \/ AuthenticateJwt(q) \/ LogoutAccess(q) \/ LogoutAll(q) \/ LogoutIssuedAt(q)
           \/ LogoutRefresh(q)
    PROVE  /\ Goes(q) /\ PairOK(req'[q])
           /\ req'[q].at \notin LookupLabels \cup {"seed.roles"}
<1>1. PoolInv /\ AccInv /\ SesInv
  BY DEF TypeInv
<1>2. CASE RefreshIssue(q)
  <2>1. GoesOn(q)
    BY <1>2, IssueGoes DEF RefreshIssue, IssueThen
  <2> QED BY <2>1 DEF GoesOn, PairOK, Delicate, HasPair
<1> USE <1>1 DEF PoolInv, HasPrincipal, HasNode, HasOrg, HasRole, HasSeen, HasRead, HasDoc,
            HasPair, HasKey, LoginLabels, EnsureLabels, MfaLabels, LookupLabels, RotationLabels,
            LogoutLabels, Delicate, Goes, GoesOn, LocalsOK, LiveNode, Begin, Look, Step, Wait, At,
            To, With, Idle, Glance, Pause, PairOK, MfaEntries
<1>3. CASE RotateRefreshToken(q)
  BY <1>3 DEF RotateRefreshToken
<1>4. CASE Logout(q)
  BY <1>4 DEF Logout, WithToken, JwtThen
<1>5. CASE RefreshReuse(q)
  BY <1>5 DEF RefreshReuse, SesInv, SesCore, SesRecord, SesLogRecord
<1>6. CASE RefreshCascade(q)
  BY <1>6 DEF RefreshCascade
<1>7. CASE CascadeConflict(q)
  BY <1>7 DEF CascadeConflict, SesInv, SesCore, SesRecord, SesLogRecord
<1>8. CASE RefreshPrincipal(q)
  <2> DEFINE p == ses.pair[req[q].i].sub
             next == With(To(q, "refresh.issue"), [p |-> p])
  <2>1. LocalsOK(req[q]) /\ PairOK(req[q]) /\ req[q].at = "refresh.principal"
    BY <1>8 DEF RefreshPrincipal, SesInv, SesCore, SesRecord, SesLogRecord
  <2>2. req[q].i \in Pairs /\ p \in Principals
    BY <2>1, PairTypes
  <2>3. LocalsOK(next) /\ PairOK(next) /\ next.at \notin LookupLabels \cup {"seed.roles"}
    BY <2>1, <2>2
  <2>4. Step(q, "refresh.principal", Idle) \/ Step(q, "refresh.principal", next)
    BY <1>8 DEF RefreshPrincipal
  <2>5. PairOK(Idle) /\ Idle.at \notin LookupLabels \cup {"seed.roles"}
    OBVIOUS
  <2>9. PoolInv
    OBVIOUS
  <2> HIDE DEF next
  <2> HIDE DEF PoolInv, LocalsOK, Step, Begin, GoesOn, Goes, To, With, Delicate, Idle, PairOK, HasPair
  <2> QED BY <2>3, <2>4, <2>5, <2>9, StepGoes, IdleOK
<1>9. CASE AuthenticateJwt(q)
  <2> DEFINE p == ses.pair[req[q].i].sub
             next == With(To(q, req[q].then), [p |-> p, read |-> acc.node[p]])
  <2>1. LocalsOK(req[q]) /\ PairOK(req[q]) /\ req[q].at = "jwt.principal"
    BY <1>9 DEF AuthenticateJwt, SesInv, SesCore, SesRecord, SesLogRecord
  <2>2. req[q].i \in Pairs /\ p \in Principals
    BY <2>1, PairTypes
  <2>3. /\ "then" \in DOMAIN req[q] /\ req[q].then \in JwtThen
        /\ req[q].then \in MfaEntries =>
             "mfa" \in DOMAIN req[q] /\ req[q].mfa \in Users /\ req[q].mfa = p
    BY <2>1
  <2>4. "at" \in DOMAIN req[q] /\ "i" \in DOMAIN req[q]
    BY <2>1
  <2>5. /\ "at" \in DOMAIN next /\ next.at = req[q].then
        /\ "p" \in DOMAIN next /\ next.p = p
        /\ "i" \in DOMAIN next /\ next.i = req[q].i
        /\ next.at \in MfaEntries =>
             "mfa" \in DOMAIN next /\ next.mfa \in Users /\ next.mfa = p
    <3>1. DOMAIN To(q, req[q].then) = DOMAIN req[q]
      OBVIOUS
    <3> QED BY <2>3, <2>4, <3>1
  <2>6. LocalsOK(next) /\ PairOK(next) /\ next.at \notin LookupLabels \cup {"seed.roles"}
    <3> HIDE DEF next
    <3> QED BY <2>2, <2>3, <2>5 DEF JwtThen
  <2>7. Step(q, "jwt.principal", Idle) \/ Step(q, "jwt.principal", next)
    BY <1>9 DEF AuthenticateJwt
  <2>8. PairOK(Idle) /\ Idle.at \notin LookupLabels \cup {"seed.roles"}
    OBVIOUS
  <2>9. PoolInv
    OBVIOUS
  <2> HIDE DEF next
  <2> HIDE DEF PoolInv, LocalsOK, Step, Begin, GoesOn, Goes, To, With, Delicate, Idle, PairOK, HasPair
  <2> QED BY <2>6, <2>7, <2>8, <2>9, StepGoes, IdleOK
<1>10. CASE LogoutAccess(q)
  BY <1>10 DEF LogoutAccess, SesInv, SesCore, SesRecord, SesLogRecord
<1>11. CASE LogoutAll(q)
  BY <1>11 DEF LogoutAll
<1>12. CASE LogoutIssuedAt(q)
  BY <1>12 DEF LogoutIssuedAt, SesInv, SesCore, SesRecord, SesLogRecord
<1>13. CASE LogoutRefresh(q)
  BY <1>13 DEF LogoutRefresh
<1> QED BY <1>2, <1>3, <1>4, <1>5, <1>6, <1>7, <1>8, <1>9, <1>10, <1>11, <1>12, <1>13

LEMMA MfaGoes ==
    ASSUME TypeInv, NEW q \in Slots,
           \/ SetupMfa(q) \/ VerifyMfa(q) \/ DisableMfa(q)
           \/ SetupMfaClear(q) \/ SetupMfaSave(q) \/ VerifyMfaFetch(q) \/ VerifyMfaEnable(q)
           \/ DisableMfaCheck(q) \/ DisableMfaDelete(q)
    PROVE  /\ Goes(q) /\ PairOK(req'[q])
           /\ req'[q].at \notin LookupLabels \cup RotationLabels \cup LogoutLabels \cup {"seed.roles"}
<1>1. PoolInv /\ AccInv /\ SesInv
  BY DEF TypeInv
<1> USE <1>1 DEF PoolInv, HasPrincipal, HasNode, HasOrg, HasRole, HasSeen, HasRead, HasDoc,
            HasPair, HasKey, LoginLabels, EnsureLabels, MfaLabels, LookupLabels, RotationLabels,
            LogoutLabels, Delicate, Goes, GoesOn, LocalsOK, LiveNode, Begin, Look, Step, Wait, At,
            To, With, Idle, Glance, Pause, PairOK, MfaEntries
<1>2. CASE SetupMfa(q)
  BY <1>2 DEF SetupMfa, MfaCall, JwtThen
<1>3. CASE VerifyMfa(q)
  BY <1>3 DEF VerifyMfa, MfaCall, JwtThen
<1>4. CASE DisableMfa(q)
  BY <1>4 DEF DisableMfa, MfaCall, JwtThen
<1>5. CASE SetupMfaClear(q)
  BY <1>5 DEF SetupMfaClear
<1>6. CASE SetupMfaSave(q)
  BY <1>6 DEF SetupMfaSave
<1>7. CASE VerifyMfaFetch(q)
  <2>0. PICK t \in Secrets(req[q].p) : \E c \in t.codes \cup {NoCode} :
          Step(q, "mfa.verify", With(To(q, "mfa.enable"), [n |-> t.n, code |-> c]))
    BY <1>7 DEF VerifyMfaFetch
  <2>1. PICK c \in t.codes \cup {NoCode} :
          Step(q, "mfa.verify", With(To(q, "mfa.enable"), [n |-> t.n, code |-> c]))
    BY <2>0
  <2> DEFINE next == With(To(q, "mfa.enable"), [n |-> t.n, code |-> c])
  <2>2. LocalsOK(req[q]) /\ req[q].at = "mfa.verify" /\ t.n \in Nat
    BY <2>1 DEF Secrets, SesInv, SesCore, SesRecord, SesLogRecord, SecretRecord
  <2>3. LocalsOK(next) /\ PairOK(next) /\ next.at = "mfa.enable"
    BY <2>2
  <2>4. Step(q, "mfa.verify", next)
    BY <2>1
  <2>5. Goes(q) /\ req'[q] = next
    <3> HIDE DEF PoolInv, LocalsOK, Step, Goes, next
    <3> QED BY <2>4, <2>3, StepGoes
  <2> HIDE DEF next
  <2> QED BY <2>3, <2>5
<1>8. CASE VerifyMfaEnable(q)
  <2>1. Step(q, "mfa.enable", Idle)
    BY <1>8 DEF VerifyMfaEnable
  <2> QED BY <2>1
<1>9. CASE DisableMfaCheck(q)
  BY <1>9 DEF DisableMfaCheck
<1>10. CASE DisableMfaDelete(q)
  BY <1>10 DEF DisableMfaDelete
<1> QED BY <1>2, <1>3, <1>4, <1>5, <1>6, <1>7, <1>8, <1>9, <1>10

-----------------------------------------------------------------------------
(* The handlers of Credentials.                                            *)

KeyCalls(q) ==
  \/ CreateApiKey(q) \/ RevokeApiKey(q) \/ RotateApiKey(q)
  \/ CreateServiceKey(q) \/ RevokeServiceKey(q) \/ RotateServiceKey(q)
  \/ CreateClientCredential(q) \/ RevokeClientCredential(q)
  \/ RotateClientCredential(q) \/ ClientCredentialsGrant(q)

KeySteps(q) ==
  \/ ValidateScopes(q) \/ CreateApiKeyNode(q) \/ CreateApiKeyOwner(q)
  \/ FindApiKey(q) \/ RevokeApiKeyNode(q) \/ LookupApiKey(q) \/ RotateApiKeyNode(q)
  \/ CreateServiceKeyNode(q) \/ RotateServiceKeyNode(q)
  \/ CreateClientCredentialNode(q) \/ RotateClientCredentialNode(q)
  \/ GrantUsed(q)

LEMMA KeyTypes ==
    ASSUME KeysInv, NEW k \in Keys
    PROVE  /\ keys[k] \in KeyRecord /\ k \in Nat \ {0}
           /\ keys[k].owner \in Principals \cup {NoOne}
<1>1. keys \in Seq(KeyRecord)
  BY DEF KeysInv
<1>2. keys[k] \in KeyRecord /\ k \in Nat \ {0}
  BY <1>1 DEF Keys
<1> QED BY <1>2 DEF KeyRecord

LEMMA ValidTypes ==
    ASSUME NEW valid \in Seq([k : Nat, at : Nat])
    PROVE  \A s \in DOMAIN valid : s \in Nat /\ valid[s].k \in Nat /\ valid[s].at \in Nat
<1>1. ASSUME NEW s \in DOMAIN valid
      PROVE  s \in Nat /\ valid[s] \in [k : Nat, at : Nat]
  <2>1. Len(valid) \in Nat /\ DOMAIN valid = 1..Len(valid)
    OBVIOUS
  <2>2. s \in 1..Len(valid)
    BY <2>1
  <2>3. s \in Nat
    BY <2>1, <2>2
  <2>4. valid[s] \in [k : Nat, at : Nat]
    BY <2>2, ElementOfSeq
  <2> QED BY <2>3, <2>4
<1>2. ASSUME NEW s \in DOMAIN valid
      PROVE  valid[s].k \in Nat /\ valid[s].at \in Nat
  BY <1>1
<1> QED BY <1>1, <1>2

LEMMA TimeTypes ==
    ASSUME KeysInv
    PROVE  /\ now \in Nat /\ \A s \in DOMAIN keyLog.valid :
             s \in Nat /\ keyLog.valid[s].k \in Nat /\ keyLog.valid[s].at \in Nat
<1>1. now \in Nat
  BY CredentialsAssumption DEF KeysInv
<1>2. keyLog.valid \in Seq([k : Nat, at : Nat])
  BY DEF KeysInv
<1> QED BY <1>1, <1>2, ValidTypes

LEMMA KeysGo ==
    ASSUME TypeInv, NEW q \in Slots, KeyCalls(q) \/ KeySteps(q)
    PROVE  /\ Goes(q) /\ PairOK(req'[q]) /\ ~OnMfa(req'[q])
           /\ req'[q].at \notin LookupLabels \cup RotationLabels \cup LogoutLabels \cup {"seed.roles"}
<1>1. PoolInv /\ AccInv /\ SesInv /\ KeysInv
  BY DEF TypeInv
<1> USE <1>1 DEF PoolInv, HasPrincipal, HasNode, HasOrg, HasRole, HasSeen, HasRead, HasDoc,
            HasPair, HasKey, LoginLabels, EnsureLabels, MfaLabels, LookupLabels, RotationLabels,
            LogoutLabels, Delicate, Goes, GoesOn, LocalsOK, LiveNode, Begin, Look, Step, Wait, At,
            To, With, Idle, Glance, Pause, PairOK, OnMfa, MfaEntries, Peek, Rest
<1>2. CASE CreateApiKey(q)
  BY <1>2 DEF CreateApiKey, WithToken, JwtThen
<1>3. CASE RevokeApiKey(q)
  BY <1>3 DEF RevokeApiKey, WithToken, JwtThen
<1>4. CASE RotateApiKey(q)
  BY <1>4 DEF RotateApiKey, WithToken, JwtThen
<1>5. CASE CreateServiceKey(q)
  BY <1>5 DEF CreateServiceKey, Principals
<1>6. CASE RevokeServiceKey(q)
  BY <1>6 DEF RevokeServiceKey
<1>7. CASE RotateServiceKey(q)
  BY <1>7 DEF RotateServiceKey, Principals, Of, Keys, KeysInv
<1>8. CASE CreateClientCredential(q)
  BY <1>8 DEF CreateClientCredential, Principals
<1>9. CASE RevokeClientCredential(q)
  BY <1>9 DEF RevokeClientCredential
<1>10. CASE RotateClientCredential(q)
  BY <1>10 DEF RotateClientCredential, Principals, Of, Keys, KeysInv
<1>11. CASE ClientCredentialsGrant(q)
  <2>1. PICK k \in Keys : /\ keys[k].owner # NoOne
                          /\ acc.node[keys[k].owner].active
                          /\ Begin(q, [at |-> "grant.issue", p |-> keys[k].owner])
    BY <1>11 DEF ClientCredentialsGrant, Usable
  <2>2. keys[k].owner \in Principals
    BY <2>1, KeyTypes
  <2> QED BY <2>1, <2>2
<1>12. CASE ValidateScopes(q)
  BY <1>12 DEF ValidateScopes
<1>13. CASE CreateApiKeyNode(q)
  <2> DEFINE next == With(To(q, "key.own"), [k |-> Len(keys) + 1])
  <2>1. LocalsOK(req[q]) /\ req[q].at = "key.create" /\ Step(q, "key.create", next)
    BY <1>13 DEF CreateApiKeyNode
  <2>2. Len(keys) + 1 \in Nat
    BY DEF KeysInv
  <2>3. LocalsOK(next) /\ PairOK(next) /\ next.at = "key.own"
    BY <2>1, <2>2
  <2>4. Goes(q) /\ req'[q] = next
    <3> HIDE DEF PoolInv, LocalsOK, Step, Goes, next
    <3> QED BY <2>1, <2>3, StepGoes
  <2> HIDE DEF next
  <2> QED BY <2>3, <2>4
<1>14. CASE CreateApiKeyOwner(q)
  BY <1>14 DEF CreateApiKeyOwner
<1>15. CASE FindApiKey(q)
  <2>1. PICK k \in Keys : Step(q, "key.find", With(To(q, "key.revoke"), [k |-> k]))
    BY <1>15 DEF FindApiKey, Of
  <2> DEFINE next == With(To(q, "key.revoke"), [k |-> k])
  <2>2. LocalsOK(req[q]) /\ req[q].at = "key.find" /\ k \in Nat
    BY <2>1, KeyTypes
  <2>3. LocalsOK(next) /\ PairOK(next) /\ next.at = "key.revoke"
    BY <2>2
  <2>5. Step(q, "key.find", next)
    BY <2>1
  <2>4. Goes(q) /\ req'[q] = next
    <3> HIDE DEF PoolInv, LocalsOK, Step, Goes, next
    <3> QED BY <2>5, <2>3, StepGoes
  <2> HIDE DEF next
  <2> QED BY <2>3, <2>4
<1>16. CASE RevokeApiKeyNode(q)
  BY <1>16 DEF RevokeApiKeyNode
<1>17. CASE LookupApiKey(q)
  <2>1. PICK k \in Keys : Step(q, "key.lookup", With(To(q, "key.rotate"), [k |-> k]))
    BY <1>17 DEF LookupApiKey, Of
  <2> DEFINE next == With(To(q, "key.rotate"), [k |-> k])
  <2>2. LocalsOK(req[q]) /\ req[q].at = "key.lookup" /\ k \in Nat
    BY <2>1, KeyTypes
  <2>3. LocalsOK(next) /\ PairOK(next) /\ next.at = "key.rotate"
    BY <2>2
  <2>5. Step(q, "key.lookup", next)
    BY <2>1
  <2>4. Goes(q) /\ req'[q] = next
    <3> HIDE DEF PoolInv, LocalsOK, Step, Goes, next
    <3> QED BY <2>5, <2>3, StepGoes
  <2> HIDE DEF next
  <2> QED BY <2>3, <2>4
<1>18. CASE RotateApiKeyNode(q)
  BY <1>18 DEF RotateApiKeyNode
<1>19. CASE CreateServiceKeyNode(q)
  BY <1>19 DEF CreateServiceKeyNode, CreateOwned
<1>20. CASE RotateServiceKeyNode(q)
  BY <1>20 DEF RotateServiceKeyNode, Rotated
<1>21. CASE CreateClientCredentialNode(q)
  BY <1>21 DEF CreateClientCredentialNode, CreateOwned
<1>22. CASE RotateClientCredentialNode(q)
  BY <1>22 DEF RotateClientCredentialNode, Rotated
<1>23. CASE GrantUsed(q)
  BY <1>23 DEF GrantUsed
<1> QED BY <1>2, <1>3, <1>4, <1>5, <1>6, <1>7, <1>8, <1>9, <1>10, <1>11, <1>12, <1>13, <1>14,
           <1>15, <1>16, <1>17, <1>18, <1>19, <1>20, <1>21, <1>22, <1>23 DEF KeyCalls, KeySteps

LEMMA GrantGoes ==
    ASSUME TypeInv, NEW q \in Slots, GrantIssue(q)
    PROVE  GoesOn(q)
BY IssueGoes DEF GrantIssue, IssueThen

LEMMA LookupsGo ==
    ASSUME TypeInv, NEW q \in Slots, AuthenticateApiKey(q) \/ ApiKeyPermissions(q) \/ CacheStore(q)
    PROVE  /\ Goes(q) /\ PairOK(req'[q]) /\ ~OnMfa(req'[q])
           /\ req'[q].at \notin RotationLabels \cup LogoutLabels \cup {"seed.roles"}
<1>1. PoolInv /\ AccInv /\ SesInv /\ KeysInv
  BY DEF TypeInv
<1> USE <1>1 DEF PoolInv, HasPrincipal, HasNode, HasOrg, HasRole, HasSeen, HasRead, HasDoc,
            HasPair, HasKey, LoginLabels, EnsureLabels, MfaLabels, LookupLabels, RotationLabels,
            LogoutLabels, Delicate, Goes, GoesOn, LocalsOK, LiveNode, Begin, Look, Step, Wait, At,
            To, With, Idle, Glance, Pause, PairOK, OnMfa, MfaEntries, Peek, Rest
<1>2. CASE AuthenticateApiKey(q)
  <2>1. PICK s \in DOMAIN keyLog.valid :
          \/ Begin(q, Idle)
          \/ Begin(q, [at |-> "apikey.perms", k |-> keyLog.valid[s].k, s |-> s, since |-> now])
    BY <1>2 DEF AuthenticateApiKey, CacheLookup, ReadApiKey
  <2>2. s \in Nat /\ now \in Nat /\ keyLog.valid[s].k \in Nat
    BY TimeTypes
  <2>3. CASE Begin(q, Idle)
    BY <2>3
  <2>4. CASE Begin(q, [at |-> "apikey.perms", k |-> keyLog.valid[s].k, s |-> s, since |-> now])
    BY <2>2, <2>4
  <2> QED BY <2>1, <2>3, <2>4
<1>3. CASE ApiKeyPermissions(q)
  BY <1>3 DEF ApiKeyPermissions
<1>4. CASE CacheStore(q)
  BY <1>4 DEF CacheStore
<1> QED BY <1>2, <1>3, <1>4

-----------------------------------------------------------------------------
(* What the statements do to the accounts.                                 *)

LEMMA AccFields ==
    ASSUME AccInv
    PROVE  /\ acc.node \in [Principals -> NodeRecord] /\ acc.edge \in SUBSET EdgeRecord
           /\ acc.org \in SUBSET Orgs /\ acc.role \in [Roles -> RoleRecord]
           /\ acc.perm \in SUBSET Perms /\ acc.grant \in SUBSET (Roles \X Perms)
           /\ accLog.want \in [Principals -> NodeRecord] /\ accLog.stale \in SUBSET Principals
           /\ accLog.raced \in SUBSET (Principals \X Orgs) /\ accLog.reached \in SUBSET Roles
           /\ accLog.seeded \in BOOLEAN
           /\ acc \in AccRecord /\ accLog \in AccLogRecord
BY DEF AccInv, AccRecord, AccLogRecord

\* A node is written and is there.
LEMMA NodeWritten ==
    ASSUME AccInv, NEW p \in Principals, NEW new \in NodeRecord, new.there,
           NEW want \in NodeRecord, NEW stale \in SUBSET Principals,
           acc' = [acc EXCEPT !.node[p] = new],
           accLog' = [accLog EXCEPT !.want[p] = want, !.stale = stale]
    PROVE  AccInv'
<1>1. /\ acc' \in AccRecord /\ acc'.edge = acc.edge /\ acc'.org = acc.org
      /\ acc'.role = acc.role /\ acc'.perm = acc.perm /\ acc'.grant = acc.grant
      /\ acc'.node = [acc.node EXCEPT ![p] = new]
  BY AccFields DEF AccRecord
<1>2. accLog' \in AccLogRecord
  BY AccFields DEF AccLogRecord
<1>3. \A x \in Principals : acc'.node[x].there \/ acc'.node[x] = acc.node[x]
  BY <1>1, AccFields
<1>4. \A e \in acc.edge : e.p \in Principals
  BY AccFields DEF EdgeRecord
<1>5. \A e \in acc'.edge : e.o \in acc'.org /\ acc'.node[e.p].there
  BY <1>1, <1>3, <1>4 DEF AccInv, AccRecord, AccLogRecord
<1>6. \A x \in Principals : acc'.node[x].active => acc'.node[x].there
  BY <1>3 DEF AccInv, AccRecord, AccLogRecord
<1> QED BY <1>1, <1>2, <1>5, <1>6 DEF AccInv, AccRecord, AccLogRecord

LEMMA NodeMerged ==
    ASSUME AccInv, NEW q, NEW p \in Principals, NEW new \in NodeRecord, new.there,
           NEW want \in NodeRecord, MergeNode(q, p, new, want)
    PROVE  AccInv'
<1> DEFINE stale == IF acc.node[p] = req[q].read THEN accLog.stale ELSE accLog.stale \cup {p}
<1>1. stale \in SUBSET Principals
  BY AccFields
<1>2. accLog' = [accLog EXCEPT !.want[p] = want, !.stale = stale]
  BY DEF MergeNode
<1> HIDE DEF stale
<1> QED BY <1>1, <1>2, NodeWritten DEF MergeNode

\* A principal is deleted with its memberships.
LEMMA NodeGone ==
    ASSUME AccInv, NEW p \in Principals, acc' = Without(p), accLog' = Wanted(p, NoNode)
    PROVE  AccInv'
<1>0. NoNode \in NodeRecord /\ ~NoNode.active
  BY DEF NoNode, NodeRecord
<1>1. /\ acc' \in AccRecord /\ acc'.edge = acc.edge \ EdgesOf(p) /\ acc'.org = acc.org
      /\ acc'.role = acc.role /\ acc'.perm = acc.perm /\ acc'.grant = acc.grant
      /\ acc'.node = [acc.node EXCEPT ![p] = NoNode]
  BY <1>0, AccFields DEF AccRecord, Without
<1>2. accLog' \in AccLogRecord
  BY <1>0, AccFields DEF AccLogRecord, Wanted
<1>3. \A e \in acc'.edge : e \in acc.edge /\ e.p \in Principals /\ e.p # p
  BY <1>1, AccFields DEF EdgeRecord, EdgesOf
<1>4. \A e \in acc'.edge : e.o \in acc'.org /\ acc'.node[e.p].there
  BY <1>1, <1>3, AccFields DEF AccInv, AccRecord, AccLogRecord
<1>5. \A x \in Principals : acc'.node[x].active => acc'.node[x].there
  BY <1>0, <1>1, AccFields DEF AccInv, AccRecord, AccLogRecord
<1>6. IsFiniteSet(acc'.edge)
  BY <1>1, FS_Subset DEF AccInv, AccRecord, AccLogRecord
<1> QED BY <1>1, <1>2, <1>4, <1>5, <1>6 DEF AccInv, AccRecord, AccLogRecord

\* The memberships of nodes and organisations that are there.
EdgesOK(E) == /\ E \in SUBSET EdgeRecord /\ IsFiniteSet(E)
              /\ \A e \in E : e.o \in acc.org /\ acc.node[e.p].there

LEMMA EdgesSet ==
    ASSUME AccInv, NEW E, EdgesOK(E), acc' = [acc EXCEPT !.edge = E],
           \/ accLog' = accLog
           \/ \E raced \in SUBSET (Principals \X Orgs) : accLog' = [accLog EXCEPT !.raced = raced]
    PROVE  AccInv'
<1>1. /\ acc' \in AccRecord /\ acc'.edge = E /\ acc'.org = acc.org
      /\ acc'.role = acc.role /\ acc'.perm = acc.perm /\ acc'.grant = acc.grant
      /\ acc'.node = acc.node
  BY AccFields DEF AccRecord, EdgesOK
<1>2. accLog' \in AccLogRecord
  BY AccFields DEF AccLogRecord
<1> QED BY <1>1, <1>2 DEF AccInv, AccRecord, AccLogRecord, EdgesOK

LEMMA WithEdgeOK ==
    ASSUME AccInv, NEW p \in Principals, NEW o \in acc.org, NEW r \in Roles, Exists(p)
    PROVE  EdgesOK(WithEdge(p, o, r))
<1> DEFINE n == Cardinality(Edges(p, o))
           e == [p |-> p, o |-> o, role |-> r, n |-> n]
<1>1. IsFiniteSet(Edges(p, o))
  BY FS_Subset DEF AccInv, AccRecord, AccLogRecord, Edges
<1>2. n \in Nat
  BY <1>1, FS_CardinalityType
<1>3. e \in EdgeRecord /\ e.p = p /\ e.o = o
  BY <1>2, AccFields DEF EdgeRecord
<1>4. IsFiniteSet(acc.edge \cup {e})
  BY FS_AddElement DEF AccInv, AccRecord, AccLogRecord
<1>5. WithEdge(p, o, r) = acc.edge \cup {e}
  BY DEF WithEdge
<1> HIDE DEF e
<1> QED BY <1>3, <1>4, <1>5, AccFields DEF EdgesOK, AccInv, AccRecord, AccLogRecord, Exists

LEMMA FewerEdgesOK ==
    ASSUME AccInv, NEW E \in SUBSET acc.edge
    PROVE  EdgesOK(E)
BY AccFields, FS_Subset DEF EdgesOK, AccInv, AccRecord, AccLogRecord

LEMMA RerolledOK ==
    ASSUME AccInv, NEW p, NEW o, NEW r \in Roles
    PROVE  EdgesOK(Rerolled(p, o, r))
<1> DEFINE S == Edges(p, o)
           f(e) == [e EXCEPT !.role = r]
           T == {f(e) : e \in S}
<1>1. S \in SUBSET acc.edge /\ IsFiniteSet(S)
  BY FS_Subset DEF AccInv, AccRecord, AccLogRecord, Edges
<1>2. IsFiniteSet(T)
  <2> DEFINE g == [e \in S |-> f(e)]
  <2>1. g \in [S -> T] /\ \A t \in T : \E e \in S : g[e] = t
    OBVIOUS
  <2>2. g \in Surjection(S, T)
    BY <2>1 DEF Surjection
  <2> QED BY <1>1, <2>2, FS_Surjection
<1>3. IsFiniteSet((acc.edge \ S) \cup T)
  BY <1>2, FS_Subset, FS_Union DEF AccInv, AccRecord, AccLogRecord
<1>4. Rerolled(p, o, r) = (acc.edge \ S) \cup T
  BY DEF Rerolled
<1>5. ASSUME NEW e \in EdgeRecord
      PROVE  f(e) \in EdgeRecord /\ f(e).o = e.o /\ f(e).p = e.p
  BY DEF EdgeRecord
<1>6. ASSUME NEW t \in T
      PROVE  t \in EdgeRecord /\ t.o \in acc.org /\ acc.node[t.p].there
  <2>1. PICK e \in S : t = f(e)
    OBVIOUS
  <2>2. e \in EdgeRecord /\ e.o \in acc.org /\ acc.node[e.p].there
    BY <1>1, AccFields DEF AccInv, AccRecord, AccLogRecord
  <2> HIDE DEF f
  <2> QED BY <1>5, <2>1, <2>2
<1> HIDE DEF S, T
<1> QED BY <1>3, <1>4, <1>6, AccFields DEF EdgesOK, AccInv, AccRecord, AccLogRecord

LEMMA MergedEdgeOK ==
    ASSUME AccInv, NEW p \in Principals, NEW o \in acc.org, NEW r \in Roles, Exists(p)
    PROVE  EdgesOK(MergedEdge(p, o, r))
BY WithEdgeOK, RerolledOK DEF MergedEdge

LEMMA EdgeCreated ==
    ASSUME AccInv, NEW p \in Principals, NEW o \in Orgs, NEW r \in Roles, CreateEdge(p, o, r)
    PROVE  AccInv'
<1>1. CASE Exists(p) /\ o \in acc.org
  <2>1. EdgesOK(WithEdge(p, o, r))
    BY <1>1, WithEdgeOK
  <2>2. acc' = [acc EXCEPT !.edge = WithEdge(p, o, r)]
    BY <1>1 DEF CreateEdge
  <2> DEFINE raced == IF Edges(p, o) = {} THEN accLog.raced ELSE accLog.raced \cup {<<p, o>>}
  <2>3. raced \in SUBSET (Principals \X Orgs)
    BY AccFields
  <2>4. accLog' = [accLog EXCEPT !.raced = raced]
    BY <1>1 DEF CreateEdge
  <2> HIDE DEF raced
  <2> QED BY <2>1, <2>2, <2>3, <2>4, EdgesSet
<1>2. CASE ~(Exists(p) /\ o \in acc.org)
  BY <1>2 DEF CreateEdge, AccInv, AccRecord, AccLogRecord
<1> QED BY <1>1, <1>2

\* Organisations.
LEMMA OrgsSet ==
    ASSUME AccInv, NEW org \in SUBSET Orgs, NEW E \in SUBSET EdgeRecord, IsFiniteSet(E),
           \A e \in E : e.o \in org /\ acc.node[e.p].there,
           acc' = [acc EXCEPT !.org = org, !.edge = E],
           \/ accLog' = accLog
           \/ \E raced \in SUBSET (Principals \X Orgs) : accLog' = [accLog EXCEPT !.raced = raced]
    PROVE  AccInv'
<1>1. /\ acc' \in AccRecord /\ acc'.edge = E /\ acc'.org = org
      /\ acc'.role = acc.role /\ acc'.perm = acc.perm /\ acc'.grant = acc.grant
      /\ acc'.node = acc.node
  BY AccFields DEF AccRecord
<1>2. accLog' \in AccLogRecord
  BY AccFields DEF AccLogRecord
<1> QED BY <1>1, <1>2 DEF AccInv, AccRecord, AccLogRecord

\* Roles, permissions and grants.
LEMMA RolesSet ==
    ASSUME AccInv, NEW role \in [Roles -> RoleRecord], NEW perm \in SUBSET Perms,
           NEW grant \in SUBSET (Roles \X Perms),
           \A g \in grant : role[g[1]].there /\ g[2] \in perm,
           acc' = [acc EXCEPT !.role = role, !.perm = perm, !.grant = grant],
           \/ accLog' = accLog
           \/ \E reached \in SUBSET Roles, seeded \in BOOLEAN :
                accLog' = [accLog EXCEPT !.seeded = seeded, !.reached = reached]
    PROVE  AccInv'
<1>1. /\ acc' \in AccRecord /\ acc'.edge = acc.edge /\ acc'.org = acc.org
      /\ acc'.role = role /\ acc'.perm = perm /\ acc'.grant = grant
      /\ acc'.node = acc.node
  BY AccFields DEF AccRecord
<1>2. accLog' \in AccLogRecord
  BY AccFields DEF AccLogRecord
<1> QED BY <1>1, <1>2 DEF AccInv, AccRecord, AccLogRecord

\* The same, with the premises in one.
RolesWritten(role, perm, grant) ==
  /\ role \in [Roles -> RoleRecord] /\ perm \in SUBSET Perms
  /\ grant \in SUBSET (Roles \X Perms)
  /\ \A g \in grant : role[g[1]].there /\ g[2] \in perm
  /\ acc' = [acc EXCEPT !.role = role, !.perm = perm, !.grant = grant]
LogReached == \E reached \in SUBSET Roles, seeded \in BOOLEAN :
  accLog' = [accLog EXCEPT !.seeded = seeded, !.reached = reached]

LEMMA RolesReached ==
    ASSUME AccInv, NEW role, NEW perm, NEW grant, RolesWritten(role, perm, grant), LogReached
    PROVE  AccInv'
BY RolesSet DEF RolesWritten, LogReached

-----------------------------------------------------------------------------
(* Every handler leaves the accounts typed.                                *)

LEMMA LocalsHold ==
    ASSUME TypeInv, NEW q \in Slots
    PROVE  /\ LocalsOK(req[q])
           /\ req[q].at \in HasPrincipal => req[q].p \in Principals
           /\ req[q].at \in HasNode => req[q].read \in NodeRecord /\ req[q].read.there
           /\ req[q].at \in HasOrg => req[q].o \in Orgs
           /\ req[q].at \in HasRole => req[q].r \in Roles
BY DEF TypeInv, PoolInv, LocalsOK, LiveNode

LEMMA UsersKeepAcc ==
    ASSUME TypeInv, NEW q \in Slots,
           \/ UserCalls(q) \/ CreateUserNode(q) \/ CreateUserMember(q)
           \/ CreateUserRollback(q) \/ PatchUserOrgs(q) \/ PatchUserSave(q)
           \/ CheckOrgs(q) \/ CheckRoles(q) \/ Reconcile(q) \/ ChangePasswordSave(q)
    PROVE  AccInv'
<1> DEFINE l == req[q]
<1>0. AccInv
  BY DEF TypeInv
<1> USE <1>0
<1>a. ASSUME Quiet
      PROVE  AccInv'
  BY <1>a DEF Quiet, AccInv, AccRecord, AccLogRecord
<1>b. ASSUME NEW node \in NodeRecord, NEW active \in BOOLEAN, NEW pw \in Passwords
      PROVE  /\ [node EXCEPT !.active = active] \in NodeRecord
             /\ [node EXCEPT !.active = active].there = node.there
             /\ [node EXCEPT !.pw = pw] \in NodeRecord
             /\ [node EXCEPT !.pw = pw].there = node.there
             /\ Node(TRUE, pw) \in NodeRecord /\ Node(TRUE, pw).there
  BY DEF NodeRecord, Node
<1>1. CASE CreateUser(q)
  BY <1>1, <1>a DEF CreateUser, Look, Quiet
<1>2. CASE PatchUser(q)
  BY <1>2, <1>a DEF PatchUser, Look, Quiet
<1>3. CASE DeleteUser(q)
  BY <1>3, NodeGone DEF DeleteUser, Principals
<1>4. CASE ChangePassword(q)
  BY <1>4, <1>a DEF ChangePassword, Look, Quiet
<1>5. CASE CreateUserNode(q)
  <2>1. l.p \in Principals
    BY <1>5, LocalsHold DEF CreateUserNode, At, HasPrincipal
  <2>2. CASE Exists(l.p)
    BY <1>5, <2>2, <1>a DEF CreateUserNode, Wait, Quiet
  <2>3. CASE ~Exists(l.p)
    <3>1. PICK pw \in Passwords : /\ acc' = [acc EXCEPT !.node[l.p] = Node(TRUE, pw)]
                                  /\ accLog' = Wanted(l.p, Node(TRUE, pw))
      BY <1>5, <2>3 DEF CreateUserNode
    <3>2. Node(TRUE, pw) \in NodeRecord /\ Node(TRUE, pw).there
      BY DEF Node, NodeRecord
    <3>3. accLog.stale \ {l.p} \in SUBSET Principals
      BY AccFields
    <3> QED BY <2>1, <3>1, <3>2, <3>3, NodeWritten DEF Wanted
  <2> QED BY <2>2, <2>3
<1>6. CASE CreateUserMember(q)
  <2>1. l.p \in Principals /\ l.r \in Roles
    BY <1>6, LocalsHold DEF CreateUserMember, At, HasPrincipal, HasRole
  <2>2. CASE Exists(l.p) /\ l.o \in acc.org /\ acc.role[l.r].there
    BY <1>6, <2>1, <2>2, MergedEdgeOK, EdgesSet DEF CreateUserMember, SetEdges
  <2>3. CASE ~(Exists(l.p) /\ l.o \in acc.org /\ acc.role[l.r].there)
    BY <1>6, <2>3, <1>a DEF CreateUserMember, Wait, Quiet
  <2> QED BY <2>2, <2>3
<1>7. CASE CreateUserRollback(q)
  <2>1. l.p \in Principals
    BY <1>7, LocalsHold DEF CreateUserRollback, Step, At, HasPrincipal
  <2> QED BY <1>7, <2>1, NodeGone DEF CreateUserRollback
<1>8. CASE PatchUserOrgs(q)
  BY <1>8, <1>a DEF PatchUserOrgs, Wait, Quiet
<1>9. CASE PatchUserSave(q)
  <2>1. l.p \in Principals /\ l.read \in NodeRecord /\ l.read.there
    BY <1>9, LocalsHold DEF PatchUserSave, At, HasPrincipal, HasNode
  <2> DEFINE now1 == accLog.want[l.p]
  <2>2. now1 \in NodeRecord
    BY <2>1, AccFields
  <2>3. PICK active \in BOOLEAN :
          \/ Quiet
          \/ MergeNode(q, l.p, [l.read EXCEPT !.active = active],
                       IF now1.there THEN [now1 EXCEPT !.active = active] ELSE now1)
    BY <1>9 DEF PatchUserSave, Wait, Quiet
  <2>4. [l.read EXCEPT !.active = active] \in NodeRecord /\ [l.read EXCEPT !.active = active].there
    BY <2>1 DEF NodeRecord
  <2>5. (IF now1.there THEN [now1 EXCEPT !.active = active] ELSE now1) \in NodeRecord
    BY <2>2 DEF NodeRecord
  <2> HIDE DEF now1
  <2> QED BY <2>1, <2>3, <2>4, <2>5, <1>a, NodeMerged
<1>10. CASE CheckOrgs(q)
  BY <1>10, <1>a DEF CheckOrgs, Wait, Quiet
<1>11. CASE CheckRoles(q)
  BY <1>11, <1>a DEF CheckRoles, Wait, Quiet
<1>12. CASE Reconcile(q)
  <2> DEFINE o == CHOOSE x \in l.todo : TRUE
  <2>1. l.p \in Principals /\ LocalsOK(l) /\ l.at = "user.reconcile"
    BY <1>12, LocalsHold DEF Reconcile, Step, At, HasPrincipal
  <2>2. l.doc \in SUBSET EdgeRecord
    BY <2>1 DEF LocalsOK, HasDoc
  <2>3. \/ SetEdges(acc.edge \ Edges(l.p, o))
        \/ Quiet
        \/ \E d \in l.doc : d.o = o /\ CreateEdge(l.p, o, d.role)
        \/ \E d \in l.doc : d.o = o /\ SetEdges(Rerolled(l.p, o, d.role))
    BY <1>12 DEF Reconcile, Quiet
  <2>4. \A d \in l.doc : d.role \in Roles /\ d.o \in Orgs
    BY <2>2 DEF EdgeRecord
  <2> HIDE DEF o
  <2>5. ASSUME NEW d \in l.doc, d.o = o, CreateEdge(l.p, o, d.role)
        PROVE  AccInv'
    BY <2>1, <2>4, <2>5, EdgeCreated
  <2>6. ASSUME NEW d \in l.doc, SetEdges(Rerolled(l.p, o, d.role))
        PROVE  AccInv'
    BY <2>4, <2>6, RerolledOK, EdgesSet DEF SetEdges
  <2>7. ASSUME SetEdges(acc.edge \ Edges(l.p, o))
        PROVE  AccInv'
    BY <2>7, FewerEdgesOK, EdgesSet DEF SetEdges
  <2> QED BY <2>3, <2>5, <2>6, <2>7, <1>a
<1>13. CASE ChangePasswordSave(q)
  <2>1. l.p \in Principals /\ l.read \in NodeRecord /\ l.read.there
    BY <1>13, LocalsHold DEF ChangePasswordSave, Step, At, HasPrincipal, HasNode
  <2> DEFINE now1 == accLog.want[l.p]
  <2>2. now1 \in NodeRecord
    BY <2>1, AccFields
  <2>3. PICK pw \in Passwords :
          MergeNode(q, l.p, [l.read EXCEPT !.pw = pw],
                    IF now1.there THEN [now1 EXCEPT !.pw = pw] ELSE now1)
    BY <1>13 DEF ChangePasswordSave
  <2>4. [l.read EXCEPT !.pw = pw] \in NodeRecord /\ [l.read EXCEPT !.pw = pw].there
    BY <2>1 DEF NodeRecord
  <2>5. (IF now1.there THEN [now1 EXCEPT !.pw = pw] ELSE now1) \in NodeRecord
    BY <2>2 DEF NodeRecord
  <2> HIDE DEF now1
  <2> QED BY <2>1, <2>3, <2>4, <2>5, NodeMerged
<1> QED BY <1>1, <1>2, <1>3, <1>4, <1>5, <1>6, <1>7, <1>8, <1>9, <1>10, <1>11, <1>12, <1>13
        DEF UserCalls

LEMMA MembersKeepAcc ==
    ASSUME TypeInv, NEW q \in Slots,
           \/ MemberCalls(q) \/ JoinOrganization(q) \/ ReroleMember(q)
           \/ EnsureMembership(q) \/ DefaultRole(q) \/ TargetOrg(q) \/ CreateMembership(q)
    PROVE  AccInv'
<1> DEFINE l == req[q]
<1>0. AccInv
  BY DEF TypeInv
<1> USE <1>0
<1>a. ASSUME Quiet
      PROVE  AccInv'
  BY <1>a DEF Quiet, AccInv, AccRecord, AccLogRecord
<1>1. CASE AddToOrganization(q)
  BY <1>1, <1>a DEF AddToOrganization, Look, Quiet
<1>2. CASE UpdateMembershipRole(q)
  BY <1>2, <1>a DEF UpdateMembershipRole, Look, Quiet
<1>3. CASE RemoveFromOrganization(q)
  BY <1>3, FewerEdgesOK, EdgesSet DEF RemoveFromOrganization, SetEdges
<1>4. CASE JoinOrganization(q)
  <2>1. l.p \in Principals /\ l.o \in Orgs /\ l.r \in Roles
    BY <1>4, LocalsHold DEF JoinOrganization, Step, At, HasPrincipal, HasOrg, HasRole
  <2> QED BY <1>4, <2>1, EdgeCreated DEF JoinOrganization
<1>5. CASE ReroleMember(q)
  <2>1. l.r \in Roles
    BY <1>5, LocalsHold DEF ReroleMember, Step, At, HasRole
  <2> QED BY <1>5, <2>1, RerolledOK, EdgesSet DEF ReroleMember, SetEdges
<1>6. CASE EnsureMembership(q)
  BY <1>6, <1>a DEF EnsureMembership, Wait, Quiet
<1>7. CASE DefaultRole(q)
  BY <1>7, <1>a DEF DefaultRole, Wait, Quiet
<1>8. CASE TargetOrg(q)
  BY <1>8, <1>a DEF TargetOrg, Wait, Quiet
<1>9. CASE CreateMembership(q)
  <2>1. l.p \in Principals /\ l.o \in Orgs /\ l.r \in Roles
    BY <1>9, LocalsHold
       DEF CreateMembership, Step, At, HasPrincipal, EnsureLabels, HasOrg, HasRole
  <2>2. CreateEdge(l.p, l.o, l.r) \/ Quiet
    BY <1>9 DEF CreateMembership, Quiet
  <2> QED BY <1>a, <2>1, <2>2, EdgeCreated
<1> QED BY <1>1, <1>2, <1>3, <1>4, <1>5, <1>6, <1>7, <1>8, <1>9 DEF MemberCalls

LEMMA ServicesKeepAcc ==
    ASSUME TypeInv, NEW q \in Slots,
           \/ ServiceCalls(q) \/ CreateServiceMember(q) \/ PatchServiceSave(q)
           \/ OrganizationCalls(q) \/ PreviousSlugs(q) \/ PersistOrganization(q)
    PROVE  AccInv'
<1> DEFINE l == req[q]
<1>0. AccInv
  BY DEF TypeInv
<1> USE <1>0
<1>a. ASSUME Quiet
      PROVE  AccInv'
  BY <1>a DEF Quiet, AccInv, AccRecord, AccLogRecord
<1>1. CASE CreateService(q)
  <2>1. PICK s \in Services : /\ acc' = [acc EXCEPT !.node[s] = Node(TRUE, NoPassword)]
                              /\ accLog' = Wanted(s, Node(TRUE, NoPassword))
    BY <1>1 DEF CreateService
  <2>2. Node(TRUE, NoPassword) \in NodeRecord /\ Node(TRUE, NoPassword).there /\ s \in Principals
    BY DEF Node, NodeRecord, Principals
  <2>3. accLog.stale \ {s} \in SUBSET Principals
    BY AccFields
  <2> QED BY <2>1, <2>2, <2>3, NodeWritten DEF Wanted
<1>2. CASE PatchService(q)
  BY <1>2, <1>a DEF PatchService, Look, Quiet
<1>3. CASE DeleteService(q)
  BY <1>3, NodeGone DEF DeleteService, Principals
<1>4. CASE AddService(q)
  BY <1>4, MergedEdgeOK, EdgesSet DEF AddService, SetEdges, Principals
<1>5. CASE RemoveService(q)
  BY <1>5, FewerEdgesOK, EdgesSet DEF RemoveService, SetEdges
<1>6. CASE CreateServiceMember(q)
  <2>1. l.p \in Principals /\ l.r \in Roles
    BY <1>6, LocalsHold DEF CreateServiceMember, At, HasPrincipal, HasRole
  <2>2. CASE Exists(l.p) /\ l.o \in acc.org /\ acc.role[l.r].there
    BY <1>6, <2>1, <2>2, MergedEdgeOK, EdgesSet DEF CreateServiceMember, SetEdges
  <2>3. CASE ~(Exists(l.p) /\ l.o \in acc.org /\ acc.role[l.r].there)
    BY <1>6, <2>3, <1>a DEF CreateServiceMember, Wait, Quiet
  <2> QED BY <2>2, <2>3
<1>7. CASE PatchServiceSave(q)
  <2>1. l.p \in Principals /\ l.read \in NodeRecord /\ l.read.there
    BY <1>7, LocalsHold DEF PatchServiceSave, Step, At, HasPrincipal, HasNode
  <2> DEFINE now1 == accLog.want[l.p]
  <2>2. now1 \in NodeRecord
    BY <2>1, AccFields
  <2>3. PICK active \in BOOLEAN :
          MergeNode(q, l.p, [l.read EXCEPT !.active = active],
                    IF now1.there THEN [now1 EXCEPT !.active = active] ELSE now1)
    BY <1>7 DEF PatchServiceSave
  <2>4. [l.read EXCEPT !.active = active] \in NodeRecord /\ [l.read EXCEPT !.active = active].there
    BY <2>1 DEF NodeRecord
  <2>5. (IF now1.there THEN [now1 EXCEPT !.active = active] ELSE now1) \in NodeRecord
    BY <2>2 DEF NodeRecord
  <2> HIDE DEF now1
  <2> QED BY <2>1, <2>3, <2>4, <2>5, NodeMerged
<1>8. CASE CreateOrganization(q)
  <2>1. PICK o \in Orgs : acc' = [acc EXCEPT !.org = acc.org \cup {o}] /\ accLog' = accLog
    BY <1>8 DEF CreateOrganization
  <2>2. acc' = [acc EXCEPT !.org = acc.org \cup {o}, !.edge = acc.edge]
    BY <2>1, AccFields DEF AccRecord
  <2> DEFINE E == acc.edge
             org == acc.org \cup {o}
  <2>3. E \in SUBSET EdgeRecord /\ IsFiniteSet(E) /\ org \in SUBSET Orgs
    BY AccFields DEF AccInv, AccRecord, AccLogRecord
  <2>4. \A e \in E : e.o \in org /\ acc.node[e.p].there
    BY DEF AccInv, AccRecord, AccLogRecord
  <2> HIDE DEF E, org
  <2> QED BY <2>1, <2>2, <2>3, <2>4, OrgsSet DEF E, org
<1>9. CASE PatchOrganization(q)
  BY <1>9, <1>a DEF PatchOrganization, Look, Quiet
<1>10. CASE DeleteOrganization(q)
  <2>1. PICK o \in acc.org : /\ acc' = [acc EXCEPT !.org = acc.org \ {o},
                                                   !.edge = {e \in acc.edge : e.o # o}]
                             /\ accLog' = accLog
    BY <1>10 DEF DeleteOrganization
  <2> DEFINE E == {e \in acc.edge : e.o # o}
             org == acc.org \ {o}
  <2>2. E \in SUBSET EdgeRecord /\ IsFiniteSet(E) /\ org \in SUBSET Orgs
    BY AccFields, FS_Subset DEF AccInv, AccRecord, AccLogRecord
  <2>3. \A e \in E : e.o \in org /\ acc.node[e.p].there
    BY DEF AccInv, AccRecord, AccLogRecord
  <2> HIDE DEF E, org
  <2> QED BY <2>1, <2>2, <2>3, OrgsSet DEF E, org
<1>11. CASE PreviousSlugs(q)
  BY <1>11, <1>a DEF PreviousSlugs, Wait, Quiet
<1>12. CASE PersistOrganization(q)
  <2>1. l.o \in Orgs /\ l.new \in Orgs
    BY <1>12, LocalsHold DEF PersistOrganization, At, HasOrg, LocalsOK
  <2>2. CASE l.o \in acc.org /\ l.new \notin acc.org
    <3> DEFINE f(e) == IF e.o = l.o THEN [e EXCEPT !.o = l.new] ELSE e
               E == {f(e) : e \in acc.edge}
               org == (acc.org \ {l.o}) \cup {l.new}
               g(x) == IF x[2] = l.o THEN <<x[1], l.new>> ELSE x
               raced == {g(x) : x \in accLog.raced}
    <3>1. ASSUME NEW e \in acc.edge
          PROVE  f(e) \in EdgeRecord /\ f(e).o \in org /\ acc.node[f(e).p].there
      <4>1. e \in EdgeRecord /\ e.o \in acc.org /\ acc.node[e.p].there
        BY AccFields DEF AccInv, AccRecord, AccLogRecord
      <4>2. CASE e.o = l.o
        <5>1. f(e) = [e EXCEPT !.o = l.new]
          BY <4>2
        <5> HIDE DEF f
        <5> QED BY <2>1, <4>1, <5>1 DEF EdgeRecord
      <4>3. CASE e.o # l.o
        BY <4>1, <4>3
      <4> QED BY <4>2, <4>3
    <3>2. IsFiniteSet(E)
      <4> HIDE DEF f
      <4> DEFINE h == [e \in acc.edge |-> f(e)]
      <4>1. h \in [acc.edge -> E] /\ \A t \in E : \E e \in acc.edge : h[e] = t
        OBVIOUS
      <4>2. h \in Surjection(acc.edge, E)
        BY <4>1 DEF Surjection
      <4> QED BY <4>2, FS_Surjection DEF AccInv, AccRecord, AccLogRecord
    <3>3. ASSUME NEW x \in Principals \X Orgs
          PROVE  g(x) \in Principals \X Orgs
      BY <2>1
    <3>4. raced \in SUBSET (Principals \X Orgs)
      <4> HIDE DEF g
      <4> QED BY <3>3, AccFields
    <3>5. /\ acc' = [acc EXCEPT !.org = org, !.edge = E]
          /\ accLog' = [accLog EXCEPT !.raced = raced]
      BY <1>12, <2>2 DEF PersistOrganization
    <3>6. org \in SUBSET Orgs
      BY <2>1, AccFields
    <3>7. E \in SUBSET EdgeRecord /\ \A e \in E : e.o \in org /\ acc.node[e.p].there
      <4> HIDE DEF f, org
      <4> QED BY <3>1
    <3> HIDE DEF E, org, raced
    <3> QED BY <3>2, <3>4, <3>5, <3>6, <3>7, OrgsSet
  <2>3. CASE ~(l.o \in acc.org /\ l.new \notin acc.org)
    BY <1>12, <2>3, <1>a DEF PersistOrganization, Wait, Quiet
  <2> QED BY <2>2, <2>3
<1> QED BY <1>1, <1>2, <1>3, <1>4, <1>5, <1>6, <1>7, <1>8, <1>9, <1>10, <1>11, <1>12
        DEF ServiceCalls, OrganizationCalls

LEMMA RolesKeepAcc ==
    ASSUME TypeInv, NEW q \in Slots,
           \/ RoleCalls(q) \/ PatchRoleSave(q) \/ DeleteRoleNode(q) \/ FindPermission(q)
           \/ WriteGrant(q) \/ DeleteGrant(q)
           \/ SeedOrganization(q) \/ SeedOrganizationMerge(q) \/ CountRetired(q)
           \/ CleanupRetired(q) \/ SeedPermissions(q) \/ SeedRoles(q)
    PROVE  AccInv'
<1> DEFINE l == req[q]
<1>0. AccInv
  BY DEF TypeInv
<1> USE <1>0
<1>a. ASSUME Quiet
      PROVE  AccInv'
  BY <1>a DEF Quiet, AccInv, AccRecord, AccLogRecord
<1>b. /\ acc = [acc EXCEPT !.role = acc.role] /\ acc = [acc EXCEPT !.perm = acc.perm]
      /\ accLog = [accLog EXCEPT !.seeded = accLog.seeded]
  BY AccFields DEF AccRecord, AccLogRecord
<1>c. \A g \in acc.grant : /\ acc.role[g[1]].there /\ g[2] \in acc.perm
                           /\ g[1] \in Roles /\ g[2] \in Perms
  BY AccFields DEF AccInv, AccRecord, AccLogRecord
<1>d. \A s, d \in BOOLEAN : Role(s, d) \in RoleRecord /\ Role(s, d).there
  BY DEF Role, RoleRecord
<1>e. ASSUME NEW r \in Roles
      PROVE  \E reached \in SUBSET Roles : Reach(q, r) =
               [accLog EXCEPT !.seeded = accLog.seeded, !.reached = reached]
  <2> DEFINE X == IF acc.role[r].system /\ ~(req[q].r = r /\ req[q].system)
                  THEN accLog.reached \cup {r} ELSE accLog.reached
  <2>1. X \in SUBSET Roles
    BY AccFields
  <2>2. Reach(q, r) = [accLog EXCEPT !.reached = X]
    BY DEF Reach
  <2> HIDE DEF X
  <2>3. [accLog EXCEPT !.reached = X] = [accLog EXCEPT !.seeded = accLog.seeded, !.reached = X]
    BY AccFields DEF AccLogRecord
  <2> QED BY <2>1, <2>2, <2>3
<1>f. ASSUME NEW role, NEW perm, NEW grant
      PROVE  /\ [acc EXCEPT !.role = role] =
                  [acc EXCEPT !.role = role, !.perm = acc.perm, !.grant = acc.grant]
             /\ [acc EXCEPT !.role = role, !.grant = grant] =
                  [acc EXCEPT !.role = role, !.perm = acc.perm, !.grant = grant]
             /\ [acc EXCEPT !.perm = perm, !.grant = grant] =
                  [acc EXCEPT !.role = acc.role, !.perm = perm, !.grant = grant]
             /\ [acc EXCEPT !.perm = perm] =
                  [acc EXCEPT !.role = acc.role, !.perm = perm, !.grant = acc.grant]
             /\ [acc EXCEPT !.grant = grant] =
                  [acc EXCEPT !.role = acc.role, !.perm = acc.perm, !.grant = grant]
  BY AccFields DEF AccRecord
<1>g. ASSUME NEW r \in Roles, NEW system \in BOOLEAN, NEW default \in BOOLEAN
      PROVE  /\ [acc.role EXCEPT ![r] = Role(system, default)] \in [Roles -> RoleRecord]
             /\ \A g \in acc.grant :
                  [acc.role EXCEPT ![r] = Role(system, default)][g[1]].there /\ g[2] \in acc.perm
  BY <1>c, <1>d, AccFields
<1>1. CASE CreateRole(q)
  <2>1. PICK r \in Roles, system \in BOOLEAN, default \in BOOLEAN :
          acc' = [acc EXCEPT !.role[r] = Role(system, default)] /\ accLog' = accLog
    BY <1>1 DEF CreateRole
  <2> DEFINE role == [acc.role EXCEPT ![r] = Role(system, default)]
  <2>2. acc' = [acc EXCEPT !.role = role, !.perm = acc.perm, !.grant = acc.grant]
    BY <2>1, <1>f
  <2>3. role \in [Roles -> RoleRecord] /\ \A g \in acc.grant : role[g[1]].there /\ g[2] \in acc.perm
    BY <1>g
  <2>5. AccInv /\ acc.perm \in SUBSET Perms /\ acc.grant \in SUBSET (Roles \X Perms)
    BY AccFields
  <2>6. accLog' = accLog
    BY <2>1
  <2> HIDE DEF role, AccInv, AccRecord, AccLogRecord
  <2> QED BY <2>2, <2>3, <2>5, <2>6, RolesSet
<1>2. CASE PatchRole(q)
  BY <1>2, <1>a DEF PatchRole, Look, Quiet
<1>3. CASE DeleteRole(q)
  BY <1>3, <1>a DEF DeleteRole, Look, Quiet
<1>4. CASE GrantPermission(q)
  BY <1>4, <1>a DEF GrantPermission, Look, Quiet
<1>5. CASE RevokePermission(q)
  BY <1>5, <1>a DEF RevokePermission, Look, Quiet
<1>6. CASE PatchRoleSave(q)
  <2>1. PICK r \in Roles, system \in BOOLEAN, default \in BOOLEAN :
          acc' = [acc EXCEPT !.role[r] = Role(system, default)] /\ accLog' = Reach(q, r)
    BY <1>6 DEF PatchRoleSave
  <2> DEFINE role == [acc.role EXCEPT ![r] = Role(system, default)]
  <2>2. acc' = [acc EXCEPT !.role = role, !.perm = acc.perm, !.grant = acc.grant]
    BY <2>1, <1>f
  <2>3. role \in [Roles -> RoleRecord] /\ \A g \in acc.grant : role[g[1]].there /\ g[2] \in acc.perm
    BY <1>g
  <2>4. \E reached \in SUBSET Roles, seeded \in BOOLEAN :
          accLog' = [accLog EXCEPT !.seeded = seeded, !.reached = reached]
    BY <2>1, <1>e, AccFields
  <2>5. AccInv /\ acc.perm \in SUBSET Perms /\ acc.grant \in SUBSET (Roles \X Perms)
    BY AccFields
  <2>6. RolesWritten(role, acc.perm, acc.grant) /\ LogReached
    <3> HIDE DEF role, AccInv, AccRecord, AccLogRecord
    <3> QED BY <2>2, <2>3, <2>4, <2>5 DEF RolesWritten, LogReached
  <2> HIDE DEF role, AccInv, AccRecord, AccLogRecord
  <2> QED BY <2>5, <2>6, RolesReached
<1>7. CASE DeleteRoleNode(q)
  <2>1. l.r \in Roles
    BY <1>7, LocalsHold DEF DeleteRoleNode, Step, At, HasRole
  <2> DEFINE role == [acc.role EXCEPT ![l.r] = NoRole]
             grant == acc.grant \ GrantsOf(l.r)
  <2>2. acc' = [acc EXCEPT !.role = role, !.perm = acc.perm, !.grant = grant]
    BY <1>7, <1>f DEF DeleteRoleNode
  <2>3. /\ role \in [Roles -> RoleRecord] /\ grant \in SUBSET (Roles \X Perms)
        /\ \A g \in grant : role[g[1]].there /\ g[2] \in acc.perm
    BY <1>c, <2>1, AccFields DEF NoRole, RoleRecord, GrantsOf
  <2>4. \E reached \in SUBSET Roles, seeded \in BOOLEAN :
          accLog' = [accLog EXCEPT !.seeded = seeded, !.reached = reached]
    BY <1>7, <2>1, <1>e, AccFields DEF DeleteRoleNode
  <2>5. AccInv /\ acc.perm \in SUBSET Perms
    BY AccFields
  <2>6. RolesWritten(role, acc.perm, grant) /\ LogReached
    <3> HIDE DEF role, grant, AccInv, AccRecord, AccLogRecord
    <3> QED BY <2>2, <2>3, <2>4, <2>5 DEF RolesWritten, LogReached
  <2> HIDE DEF role, grant, AccInv, AccRecord, AccLogRecord
  <2> QED BY <2>5, <2>6, RolesReached
<1>8. CASE FindPermission(q)
  BY <1>8, <1>a DEF FindPermission, Wait, Quiet
<1>9. CASE WriteGrant(q)
  <2>1. l.r \in Roles
    BY <1>9, LocalsHold DEF WriteGrant, Step, At, HasRole
  <2> DEFINE grant == IF acc.role[l.r].there /\ l.n \in acc.perm
                      THEN acc.grant \cup {<<l.r, l.n>>} ELSE acc.grant
  <2>2. acc' = [acc EXCEPT !.role = acc.role, !.perm = acc.perm, !.grant = grant] /\ accLog' = accLog
    BY <1>9, <1>f DEF WriteGrant
  <2>3. /\ grant \in SUBSET (Roles \X Perms)
        /\ \A g \in grant : acc.role[g[1]].there /\ g[2] \in acc.perm
    BY <1>c, <2>1, AccFields
  <2> HIDE DEF grant
  <2> QED BY <2>2, <2>3, AccFields, RolesSet
<1>10. CASE DeleteGrant(q)
  <2>1. l.r \in Roles
    BY <1>10, LocalsHold DEF DeleteGrant, Step, At, HasRole
  <2> DEFINE grant == acc.grant \ {<<l.r, l.n>>}
  <2>2. acc' = [acc EXCEPT !.role = acc.role, !.perm = acc.perm, !.grant = grant]
    BY <1>10, <1>f DEF DeleteGrant
  <2>3. /\ grant \in SUBSET (Roles \X Perms)
        /\ \A g \in grant : acc.role[g[1]].there /\ g[2] \in acc.perm
    BY <1>c, AccFields
  <2>4. \E reached \in SUBSET Roles, seeded \in BOOLEAN :
          accLog' = [accLog EXCEPT !.seeded = seeded, !.reached = reached]
    BY <1>10, <2>1, <1>e, AccFields DEF DeleteGrant
  <2>5. AccInv /\ acc.role \in [Roles -> RoleRecord] /\ acc.perm \in SUBSET Perms
    BY AccFields
  <2>6. RolesWritten(acc.role, acc.perm, grant) /\ LogReached
    <3> HIDE DEF grant, AccInv, AccRecord, AccLogRecord
    <3> QED BY <2>2, <2>3, <2>4, <2>5 DEF RolesWritten, LogReached
  <2> HIDE DEF grant, AccInv, AccRecord, AccLogRecord
  <2> QED BY <2>5, <2>6, RolesReached
<1>11. CASE SeedOrganization(q)
  BY <1>11, <1>a DEF SeedOrganization, Look, Quiet
<1>12. CASE SeedOrganizationMerge(q)
  <2>1. acc' = [acc EXCEPT !.org = acc.org \cup {SeedOrg}] /\ accLog' = accLog
    BY <1>12 DEF SeedOrganizationMerge
  <2>2. acc' = [acc EXCEPT !.org = acc.org \cup {SeedOrg}, !.edge = acc.edge]
    BY <2>1, AccFields DEF AccRecord
  <2> DEFINE E == acc.edge
             org == acc.org \cup {SeedOrg}
  <2>3. E \in SUBSET EdgeRecord /\ IsFiniteSet(E) /\ org \in SUBSET Orgs
    BY AccFields, AccountsAssumption DEF AccInv, AccRecord, AccLogRecord
  <2>4. \A e \in E : e.o \in org /\ acc.node[e.p].there
    BY DEF AccInv, AccRecord, AccLogRecord
  <2> HIDE DEF E, org
  <2> QED BY <2>1, <2>2, <2>3, <2>4, OrgsSet DEF E, org
<1>13. CASE CountRetired(q)
  BY <1>13, <1>a DEF CountRetired, Wait, Quiet
<1>14. CASE CleanupRetired(q)
  <2> DEFINE perm == acc.perm \ {OldPerm}
             grant == {g \in acc.grant : g[2] # OldPerm}
  <2>1. acc' = [acc EXCEPT !.role = acc.role, !.perm = perm, !.grant = grant] /\ accLog' = accLog
    BY <1>14, <1>f DEF CleanupRetired
  <2>2. /\ perm \in SUBSET Perms /\ grant \in SUBSET (Roles \X Perms)
        /\ \A g \in grant : acc.role[g[1]].there /\ g[2] \in perm
    BY <1>c, AccFields
  <2> HIDE DEF grant, perm
  <2> QED BY <2>1, <2>2, AccFields, RolesSet
<1>15. CASE SeedPermissions(q)
  <2> DEFINE perm == acc.perm \cup {SeedPerm}
  <2>1. acc' = [acc EXCEPT !.role = acc.role, !.perm = perm, !.grant = acc.grant] /\ accLog' = accLog
    BY <1>15, <1>f DEF SeedPermissions
  <2>2. perm \in SUBSET Perms /\ \A g \in acc.grant : acc.role[g[1]].there /\ g[2] \in perm
    BY <1>c, AccFields, AccountsAssumption
  <2> HIDE DEF perm
  <2> QED BY <2>1, <2>2, AccFields, RolesSet
<1>16. CASE SeedRoles(q)
  <2> DEFINE role == [acc.role EXCEPT ![SeedRole] = Role(TRUE, TRUE)]
             grant == IF SeedPerm \in acc.perm
                      THEN acc.grant \cup {<<SeedRole, SeedPerm>>} ELSE acc.grant
  <2>1. acc' = [acc EXCEPT !.role = role, !.perm = acc.perm, !.grant = grant]
    BY <1>16, <1>f DEF SeedRoles
  <2>2. /\ role \in [Roles -> RoleRecord] /\ grant \in SUBSET (Roles \X Perms)
        /\ \A g \in grant : role[g[1]].there /\ g[2] \in acc.perm
    <3>1. /\ role \in [Roles -> RoleRecord] /\ role[SeedRole].there
          /\ \A g \in acc.grant : role[g[1]].there /\ g[2] \in acc.perm
      BY <1>d, <1>g, AccFields, AccountsAssumption
    <3>2. <<SeedRole, SeedPerm>> \in Roles \X Perms
      BY AccountsAssumption
    <3> HIDE DEF role
    <3> QED BY <3>1, <3>2, AccFields
  <2>3. accLog' = [accLog EXCEPT !.seeded = TRUE, !.reached = accLog.reached \ {SeedRole}]
    BY <1>16 DEF SeedRoles
  <2>4. accLog.reached \ {SeedRole} \in SUBSET Roles
    BY AccFields
  <2> HIDE DEF role, grant
  <2> QED BY <2>1, <2>2, <2>3, <2>4, AccFields, RolesSet
<1> QED BY <1>1, <1>2, <1>3, <1>4, <1>5, <1>6, <1>7, <1>8, <1>9, <1>10, <1>11, <1>12, <1>13,
           <1>14, <1>15, <1>16 DEF RoleCalls

LEMMA AccountsKeepAcc ==
    ASSUME TypeInv, NEW q \in Slots,
           \/ UserCalls(q) \/ MemberCalls(q) \/ ServiceCalls(q) \/ OrganizationCalls(q)
           \/ RoleCalls(q) \/ SeedOrganization(q) \/ AccountsStep(q)
    PROVE  /\ GoesOn(q) \/ (SeedPermissions(q) /\ Goes(q) /\ req'[q].at = "seed.roles")
           /\ AccInv'
BY UsersGo, MembersGo, ServicesGo, RolesGo, UsersKeepAcc, MembersKeepAcc, ServicesKeepAcc,
   RolesKeepAcc DEF AccountsStep

-----------------------------------------------------------------------------
(* What the statements do to the sessions.                                 *)

LEMMA SesFields ==
    ASSUME SesCore
    PROVE  /\ ses.pair \in Seq(PairRecord) /\ ses.revoked \in SUBSET (Nat \X Kinds)
           /\ ses.totp \in SUBSET SecretRecord /\ ses.code \in SUBSET (Principals \X Nat)
           /\ sesLog.from \in Seq(Nat) /\ sesLog.root \in Seq(Nat) /\ sesLog.used \in Seq(Nat)
           /\ sesLog.made \in Nat /\ sesLog.cascaded \in SUBSET Nat
           /\ sesLog.spared \in SUBSET Nat /\ sesLog.out \in SUBSET Nat
           /\ sesLog.verified \in SUBSET Nat /\ sesLog.overlap \in SUBSET Users
           /\ Len(ses.pair) \in Nat /\ Pairs \subseteq Nat \ {0} /\ 0 \notin Pairs
           /\ DOMAIN ses.pair = Pairs
           /\ DOMAIN sesLog.from = Pairs /\ DOMAIN sesLog.root = Pairs
<1>1. /\ ses.pair \in Seq(PairRecord) /\ ses.revoked \in SUBSET (Nat \X Kinds)
      /\ ses.totp \in SUBSET SecretRecord /\ ses.code \in SUBSET (Principals \X Nat)
  BY DEF SesCore, SesRecord
<1>2. /\ sesLog.from \in Seq(Nat) /\ sesLog.root \in Seq(Nat) /\ sesLog.used \in Seq(Nat)
      /\ sesLog.made \in Nat /\ sesLog.cascaded \in SUBSET Nat
      /\ sesLog.spared \in SUBSET Nat /\ sesLog.out \in SUBSET Nat
      /\ sesLog.verified \in SUBSET Nat /\ sesLog.overlap \in SUBSET Users
  BY DEF SesCore, SesLogRecord
<1>3. Len(sesLog.from) = Len(ses.pair) /\ Len(sesLog.root) = Len(ses.pair)
  BY DEF SesCore
<1>4. Len(ses.pair) \in Nat /\ DOMAIN ses.pair = Pairs
  BY <1>1 DEF Pairs
<1>5. DOMAIN sesLog.from = Pairs
  BY <1>2, <1>3 DEF Pairs
<1>6. DOMAIN sesLog.root = Pairs
  BY <1>2, <1>3 DEF Pairs
<1> QED BY <1>1, <1>2, <1>4, <1>5, <1>6 DEF Pairs

\* Pairs are never forgotten, nor what they began with, and nothing that is
\* revoked comes back.
SesGrows ==
  /\ Len(ses.pair) <= Len(ses.pair)' /\ Pairs \subseteq Pairs'
  /\ \A i \in Pairs : /\ ses'.pair[i].sub = ses.pair[i].sub
                      /\ ses'.pair[i].family = ses.pair[i].family
                      /\ sesLog'.from[i] = sesLog.from[i] /\ sesLog'.root[i] = sesLog.root[i]
  /\ ses.revoked \subseteq ses'.revoked

\* No pair is made.
SesSame == ses'.pair = ses.pair /\ sesLog'.from = sesLog.from /\ sesLog'.root = sesLog.root

LEMMA SesSet ==
    ASSUME SesCore, SesSame, ses' \in SesRecord, sesLog' \in SesLogRecord,
           ses.revoked \subseteq ses'.revoked, ses'.revoked \subseteq Tokens(Pairs)
    PROVE  SesCore' /\ SesGrows
<1>1. Pairs' = Pairs /\ Len(ses.pair)' = Len(ses.pair) /\ Len(ses.pair) <= Len(ses.pair)
  BY SesFields DEF SesSame, Pairs
<1> QED BY <1>1 DEF SesCore, SesSame, SesGrows, Tokens

LEMMA SesStill ==
    ASSUME SesCore, UNCHANGED <<ses, sesLog>>
    PROVE  SesCore' /\ SesGrows
BY SesSet DEF SesCore, SesSame

\* What the others know of their pairs stays true.
LEMMA PairsHold ==
    ASSUME PoolInv, SesInv, SesGrows, NEW q \in Slots, Goes(q), PairOK(req'[q])
    PROVE  \A r \in Slots : PairOK(req[r])'
<1>1. ASSUME NEW l, PairOK(l)
      PROVE  /\ l.at \in HasPair => l.i \in Pairs'
             /\ l.at = "jwt.principal" /\ l.then \in MfaEntries => l.mfa = ses'.pair[l.i].sub
  BY <1>1 DEF PairOK, SesGrows, HasPair
<1>2. \A r \in Slots : PairOK(req'[r])
  BY OthersStay DEF SesInv
<1> QED BY <1>1, <1>2 DEF PairOK

LEMMA AppendAt ==
    ASSUME NEW S, NEW s \in Seq(S), NEW x \in S
    PROVE  /\ Append(s, x) \in Seq(S) /\ Len(Append(s, x)) = Len(s) + 1
           /\ \A i \in 1..Len(s) : Append(s, x)[i] = s[i]
           /\ Append(s, x)[Len(s) + 1] = x
OBVIOUS

LEMMA FunctionIsSeq ==
    ASSUME NEW S, NEW n \in Nat, NEW f \in [1..n -> S]
    PROVE  f \in Seq(S) /\ Len(f) = n
OBVIOUS

\* A pair is issued to a principal that is there, in a family of its own or in
\* the family of the pair whose rotation brings it.
LEMMA IssueKeeps ==
    ASSUME TypeInv, NEW q \in Slots, NEW label, NEW p \in Principals,
           NEW family \in {0} \cup Pairs, NEW from \in {0} \cup Pairs, NEW then,
           Issue(q, label, p, family, from, then)
    PROVE  AccInv' /\ SesCore' /\ SesGrows
<1>0. AccInv /\ SesInv /\ SesCore
  BY DEF TypeInv, SesInv
<1>1. CASE Exists(p)
  <2> DEFINE next == Len(ses.pair) + 1
             pair == [sub |-> p, owner |-> p, family |-> IF family = 0 THEN next ELSE family]
             root == IF from = 0 THEN next ELSE sesLog.root[from]
  <2>1. /\ ses' = [ses EXCEPT !.pair = Append(ses.pair, pair)]
        /\ sesLog' = [sesLog EXCEPT !.from = Append(sesLog.from, from),
                                    !.root = Append(sesLog.root, root)]
        /\ acc' = acc /\ accLog' = accLog
    BY <1>1 DEF Issue, Quiet
  <2>2. next \in Nat /\ pair \in PairRecord /\ from \in Nat
    BY <1>0, SesFields DEF PairRecord
  <2>3. root \in Nat
    BY <1>0, <2>2, SesFields
  <2>4. /\ ses'.pair = Append(ses.pair, pair) /\ ses'.revoked = ses.revoked
        /\ ses'.totp = ses.totp /\ ses'.code = ses.code
        /\ sesLog'.from = Append(sesLog.from, from) /\ sesLog'.root = Append(sesLog.root, root)
    <3> HIDE DEF pair, root
    <3> QED BY <1>0, <2>1 DEF SesCore, SesRecord, SesLogRecord
  <2>5. Append(ses.pair, pair) \in Seq(PairRecord) /\ Append(sesLog.from, from) \in Seq(Nat)
        /\ Append(sesLog.root, root) \in Seq(Nat)
    <3> HIDE DEF pair, root
    <3> QED BY <1>0, <2>2, <2>3, SesFields
  <2>6. ses' \in SesRecord /\ sesLog' \in SesLogRecord
    <3> HIDE DEF pair, root
    <3> QED BY <1>0, <2>1, <2>5 DEF SesCore, SesRecord, SesLogRecord
  <2>7. /\ Len(ses.pair)' = next /\ Len(sesLog.from)' = next /\ Len(sesLog.root)' = next
        /\ \A i \in Pairs : /\ ses'.pair[i] = ses.pair[i]
                            /\ sesLog'.from[i] = sesLog.from[i]
                            /\ sesLog'.root[i] = sesLog.root[i]
        /\ ses'.pair[next] = pair
    <3> HIDE DEF pair, root
    <3>1. Len(sesLog.from) = Len(ses.pair) /\ Len(sesLog.root) = Len(ses.pair)
      BY <1>0 DEF SesCore
    <3>2. Len(ses.pair)' = next /\ (\A i \in Pairs : ses'.pair[i] = ses.pair[i]) /\ ses'.pair[next] = pair
      <4>1. ses.pair \in Seq(PairRecord) /\ pair \in PairRecord /\ ses'.pair = Append(ses.pair, pair)
        BY <1>0, <2>2, <2>4, SesFields
      <4>2. Pairs = 1..Len(ses.pair) /\ next = Len(ses.pair) + 1
        BY <1>0, SesFields DEF Pairs
      <4> HIDE DEF next, Pairs
      <4> QED BY <4>1, <4>2, AppendAt
    <3>3. Len(sesLog.from)' = next /\ \A i \in Pairs : sesLog'.from[i] = sesLog.from[i]
      BY SMTT(30), <1>0, <2>2, <2>4, <3>1, AppendAt, SesFields DEF Pairs
    <3>4. Len(sesLog.root)' = next /\ \A i \in Pairs : sesLog'.root[i] = sesLog.root[i]
      <4> DEFINE old == sesLog.root
      <4>1. old \in Seq(Nat) /\ Len(old) = Len(ses.pair)
        BY <1>0, <3>1, SesFields
      <4>2. sesLog'.root = Append(old, root)
        BY <2>4
      <4>3. Pairs = 1..Len(old)
        BY <4>1 DEF Pairs
      <4> HIDE DEF old
      <4>4. /\ Len(Append(old, root)) = Len(old) + 1
            /\ \A i \in 1..Len(old) : Append(old, root)[i] = old[i]
        BY <2>3, <4>1, AppendAt
      <4> QED BY <4>1, <4>2, <4>3, <4>4 DEF old
    <3> QED BY <3>2, <3>3, <3>4
  <2>8. Pairs' = Pairs \cup {next} /\ Len(ses.pair) <= next
    BY SMTT(30), <1>0, <2>7, SesFields DEF Pairs
  <2>9. \A i \in Pairs' : ses'.pair[i].family \in Pairs'
    BY <1>0, <2>7, <2>8 DEF SesCore
  <2>10. ses'.revoked \subseteq Tokens(Pairs)'
    BY <1>0, <2>4, <2>8 DEF SesCore, Tokens
  <2>11. AccInv'
    BY <1>0, <2>1 DEF AccInv
  <2> HIDE DEF pair, root
  <2>12. SesCore'
    BY <2>6, <2>7, <2>9, <2>10 DEF SesCore
  <2>13. SesGrows
    BY <2>4, <2>7, <2>8 DEF SesGrows
  <2> QED BY <2>11, <2>12, <2>13
<1>2. CASE ~Exists(p)
  BY <1>0, <1>2, SesStill DEF Issue, Pause, Wait, AccInv
<1> QED BY <1>1, <1>2

LEMMA SecretsSpent ==
    ASSUME SesCore, NEW u, NEW c, NEW on \in BOOLEAN, NEW verified \in SUBSET Nat,
           Holding(u, c) # {}, Spend(u, c, on, verified)
    PROVE  SesCore' /\ SesGrows /\ c \in Nat
<1> DEFINE f(t) == [t EXCEPT !.codes = t.codes \ {c}, !.on = t.on \/ on]
           T == (ses.totp \ Holding(u, c)) \cup {f(t) : t \in Holding(u, c)}
<1>1. Holding(u, c) \subseteq ses.totp /\ \A t \in Holding(u, c) : c \in t.codes
  BY DEF Holding, Secrets
<1>2. c \in Nat
  BY <1>1, SesFields DEF SecretRecord
<1>3. ASSUME NEW t \in SecretRecord
      PROVE  f(t) \in SecretRecord
  BY DEF SecretRecord
<1>4. T \in SUBSET SecretRecord
  <2> HIDE DEF f
  <2> QED BY <1>1, <1>3, SesFields
<1>5. ses' = [ses EXCEPT !.totp = T]
  BY DEF Spend
<1>6. sesLog' = [sesLog EXCEPT !.used = Append(sesLog.used, c),
                               !.verified = sesLog.verified \cup verified]
  BY DEF Spend
<1>7. Append(sesLog.used, c) \in Seq(Nat) /\ sesLog.verified \cup verified \in SUBSET Nat
  <2>1. Append(sesLog.used, c) \in Seq(Nat)
    BY <1>2, SesFields, AppendAt
  <2> QED BY <2>1, SesFields
<1> HIDE DEF T
<1>8. ses' \in SesRecord /\ ses'.pair = ses.pair /\ ses'.revoked = ses.revoked
  BY <1>4, <1>5 DEF SesCore, SesRecord
<1>9. sesLog' \in SesLogRecord /\ sesLog'.from = sesLog.from /\ sesLog'.root = sesLog.root
  BY <1>6, <1>7 DEF SesCore, SesLogRecord
<1>10. ses.revoked \subseteq Tokens(Pairs)
  BY DEF SesCore
<1> QED BY <1>2, <1>8, <1>9, <1>10, SesSet DEF SesSame

LEMMA LoginKeeps ==
    ASSUME TypeInv, NEW q \in Slots,
           \/ Login(q) \/ LoginCallback(q) \/ Authorize(q) \/ CodeGrant(q)
           \/ LoginRehash(q) \/ LoginSecondFactor(q) \/ LoginTotp(q) \/ LoginBackupCode(q)
           \/ LoginIssue(q) \/ LoginSave(q) \/ CallbackCreatesUser(q) \/ CallbackLinks(q)
           \/ ConsumeCode(q) \/ CodeIssue(q)
    PROVE  AccInv' /\ SesCore' /\ SesGrows
<1> DEFINE l == req[q]
<1>0. AccInv /\ SesInv /\ SesCore
  BY DEF TypeInv, SesInv
<1>a. ASSUME UNCHANGED <<acc, accLog, ses, sesLog>>
      PROVE  AccInv' /\ SesCore' /\ SesGrows
  BY <1>0, <1>a, SesStill DEF AccInv
<1>b. ASSUME Quiet
      PROVE  AccInv'
  BY <1>0, <1>b DEF Quiet, AccInv
<1>c. /\ ses.revoked \subseteq Tokens(Pairs) /\ ses.revoked \subseteq ses.revoked
  BY <1>0 DEF SesCore
<1>1. CASE LoginIssue(q)
  <2>1. l.p \in Principals
    BY <1>1, LocalsHold DEF LoginIssue, Issue, At, HasPrincipal, LoginLabels
  <2> QED BY <1>1, <2>1, IssueKeeps DEF LoginIssue
<1>2. CASE CodeIssue(q)
  <2>1. l.p \in Principals
    BY <1>2, LocalsHold DEF CodeIssue, Issue, At, HasPrincipal
  <2> QED BY <1>2, <2>1, IssueKeeps DEF CodeIssue
<1>3. CASE Login(q)
  BY <1>3, <1>a DEF Login, Glance, Look
<1>4. CASE LoginCallback(q)
  BY <1>4, <1>a DEF LoginCallback, Glance, Look
<1>5. CASE Authorize(q)
  <2>1. PICK i \in Pairs :
          /\ ses' = [ses EXCEPT !.code = ses.code \cup {<<ses.pair[i].sub, sesLog.made>>}]
          /\ sesLog' = [sesLog EXCEPT !.made = sesLog.made + 1] /\ Quiet
    BY <1>5 DEF Authorize
  <2>2. ses.pair[i].sub \in Principals /\ sesLog.made \in Nat /\ sesLog.made + 1 \in Nat
    BY <1>0, PairTypes, SesFields
  <2> DEFINE code == ses.code \cup {<<ses.pair[i].sub, sesLog.made>>}
  <2>5. code \in SUBSET (Principals \X Nat)
    BY <1>0, <2>2, SesFields
  <2>6. ses' = [ses EXCEPT !.code = code]
    BY <2>1
  <2> HIDE DEF code
  <2>3. ses' \in SesRecord /\ ses'.pair = ses.pair /\ ses'.revoked = ses.revoked
    BY <1>0, <2>5, <2>6 DEF SesCore, SesRecord
  <2>4. sesLog' \in SesLogRecord /\ sesLog'.from = sesLog.from /\ sesLog'.root = sesLog.root
    BY <1>0, <2>1, <2>2 DEF SesCore, SesLogRecord
  <2> QED BY <1>0, <1>b, <1>c, <2>1, <2>3, <2>4, SesSet DEF SesSame
<1>6. CASE CodeGrant(q)
  BY <1>6, <1>a DEF CodeGrant, Glance, Look
<1>7. CASE LoginRehash(q)
  <2>1. l.p \in Principals /\ l.read \in NodeRecord /\ l.read.there
    BY <1>7, LocalsHold DEF LoginRehash, Step, At, HasPrincipal, HasNode, LoginLabels
  <2>2. accLog.want[l.p] \in NodeRecord
    BY <1>0, <2>1, AccFields
  <2> QED BY <1>0, <1>7, <2>1, <2>2, NodeMerged, SesStill DEF LoginRehash
<1>8. CASE LoginSecondFactor(q)
  BY <1>8, <1>a DEF LoginSecondFactor, Pause, Wait
<1>9. CASE LoginTotp(q)
  BY <1>9, <1>a DEF LoginTotp, Pause, Wait
<1>10. CASE LoginBackupCode(q)
  <2>1. CASE Holding(l.p, l.code) = {}
    BY <1>10, <2>1, <1>a DEF LoginBackupCode, Pause, Wait
  <2>2. CASE Holding(l.p, l.code) # {}
    BY <1>0, <1>10, <2>2, <1>b, SecretsSpent DEF LoginBackupCode
  <2> QED BY <2>1, <2>2
<1>11. CASE LoginSave(q)
  <2>1. l.p \in Principals /\ l.read \in NodeRecord /\ l.read.there
    BY <1>11, LocalsHold DEF LoginSave, Step, At, HasPrincipal, HasNode, LoginLabels
  <2>2. accLog.want[l.p] \in NodeRecord
    BY <1>0, <2>1, AccFields
  <2> QED BY <1>0, <1>11, <2>1, <2>2, NodeMerged, SesStill DEF LoginSave
<1>12. CASE CallbackCreatesUser(q)
  <2>1. l.p \in Principals
    BY <1>12, LocalsHold DEF CallbackCreatesUser, Step, At, HasPrincipal
  <2>2. Node(TRUE, NoPassword) \in NodeRecord /\ Node(TRUE, NoPassword).there
    BY DEF Node, NodeRecord
  <2>3. (IF Exists(l.p) THEN accLog.want[l.p] ELSE Node(TRUE, NoPassword)) \in NodeRecord
    BY <1>0, <2>1, <2>2, AccFields
  <2>4. MergeNode(q, l.p, Node(TRUE, NoPassword),
                  IF Exists(l.p) THEN accLog.want[l.p] ELSE Node(TRUE, NoPassword))
    BY <1>12 DEF CallbackCreatesUser
  <2> QED BY <1>0, <1>12, <2>1, <2>2, <2>3, <2>4, NodeMerged, SesStill DEF CallbackCreatesUser
<1>13. CASE CallbackLinks(q)
  BY <1>13, <1>a DEF CallbackLinks, Pause, Wait
<1>14. CASE ConsumeCode(q)
  <2> DEFINE c == l.code
  <2>1. CASE c \notin ses.code
    BY <1>14, <2>1, <1>a DEF ConsumeCode, Pause, Wait
  <2>2. CASE c \in ses.code
    <3>1. /\ ses' = [ses EXCEPT !.code = ses.code \ {c}]
          /\ sesLog' = [sesLog EXCEPT !.used = Append(sesLog.used, c[2])] /\ Quiet
      BY <1>14, <2>2 DEF ConsumeCode
    <3>2. c[2] \in Nat /\ Append(sesLog.used, c[2]) \in Seq(Nat)
      BY <1>0, <2>2, SesFields
    <3>3. ses' \in SesRecord /\ ses'.pair = ses.pair /\ ses'.revoked = ses.revoked
      BY <1>0, <3>1 DEF SesCore, SesRecord
    <3>4. sesLog' \in SesLogRecord /\ sesLog'.from = sesLog.from /\ sesLog'.root = sesLog.root
      BY <1>0, <3>1, <3>2 DEF SesCore, SesLogRecord
    <3> QED BY <1>0, <1>b, <1>c, <3>1, <3>3, <3>4, SesSet DEF SesSame
  <2> QED BY <2>1, <2>2
<1> QED BY <1>1, <1>2, <1>3, <1>4, <1>5, <1>6, <1>7, <1>8, <1>9, <1>10, <1>11, <1>12, <1>13,
           <1>14

\* Tokens are revoked, and what the history notes of it.
LEMMA TokensRevoked ==
    ASSUME SesCore, NEW T \in SUBSET Tokens(Pairs), Revoke(T), sesLog' \in SesLogRecord,
           sesLog'.from = sesLog.from, sesLog'.root = sesLog.root
    PROVE  SesCore' /\ SesGrows
<1>1. Tokens(Pairs) \subseteq Nat \X Kinds
  BY SesFields DEF Tokens
<1>2. ses' \in SesRecord /\ ses'.pair = ses.pair /\ ses'.revoked = ses.revoked \cup T
  BY <1>1 DEF SesCore, SesRecord, Revoke
<1>3. ses.revoked \subseteq ses'.revoked /\ ses'.revoked \subseteq Tokens(Pairs)
  BY <1>2 DEF SesCore
<1> QED BY <1>2, <1>3, SesSet DEF SesSame

LEMMA TokensKeep ==
    ASSUME TypeInv, NEW q \in Slots,
           \/ RotateRefreshToken(q) \/ Logout(q)
           \/ RefreshReuse(q) \/ RefreshCascade(q) \/ CascadeConflict(q)
           \/ RefreshPrincipal(q) \/ RefreshIssue(q)
           \/ AuthenticateJwt(q) \/ LogoutAccess(q) \/ LogoutAll(q) \/ LogoutIssuedAt(q)
           \/ LogoutRefresh(q)
    PROVE  AccInv' /\ SesCore' /\ SesGrows
<1> DEFINE l == req[q]
<1>0. AccInv /\ SesInv /\ SesCore
  BY DEF TypeInv, SesInv
<1>a. ASSUME UNCHANGED <<acc, accLog, ses, sesLog>>
      PROVE  AccInv' /\ SesCore' /\ SesGrows
  BY <1>0, <1>a, SesStill DEF AccInv
<1>b. ASSUME Quiet
      PROVE  AccInv'
  BY <1>0, <1>b DEF Quiet, AccInv
<1>p. ASSUME NEW r \in Slots, req[r].at \in HasPair
      PROVE  req[r].i \in Pairs
  BY <1>0, <1>p DEF SesInv, PairOK
<1>s. sesLog \in SesLogRecord
  BY <1>0 DEF SesCore
<1>1. CASE RefreshIssue(q)
  <2>1. l.p \in Principals /\ l.at \in HasPair
    BY <1>1, LocalsHold DEF RefreshIssue, Issue, At, HasPrincipal, HasPair, RotationLabels
  <2>2. l.i \in Pairs /\ ses.pair[l.i].family \in Pairs
    BY <1>0, <2>1, <1>p, PairTypes
  <2> QED BY <1>1, <2>1, <2>2, IssueKeeps DEF RefreshIssue
<1>2. CASE RotateRefreshToken(q)
  <2>1. PICK i \in Pairs : \/ UNCHANGED <<acc, accLog, ses, sesLog>>
                           \/ Revoke({<<i, "refresh">>}) /\ UNCHANGED sesLog /\ Quiet
    BY <1>2 DEF RotateRefreshToken, Glance, Look
  <2>2. {<<i, "refresh">>} \in SUBSET Tokens(Pairs)
    BY DEF Tokens, Kinds
  <2> QED BY <1>0, <1>a, <1>b, <1>s, <2>1, <2>2, TokensRevoked
<1>3. CASE Logout(q)
  BY <1>3, <1>a DEF Logout, WithToken, Glance, Look
<1>4. CASE RefreshReuse(q)
  BY <1>4, <1>a DEF RefreshReuse, Pause, Wait
<1>5. CASE RefreshCascade(q)
  <2> DEFINE T == {t \in Tokens(Pairs) : ses.pair[t[1]].family = ses.pair[l.i].family}
             spared == (sesLog.spared \ {j \in Pairs : Root(j) = Root(l.i)}) \cup
               {req[r].i : r \in {r \in Slots : At(r, "refresh.principal") \/ At(r, "refresh.issue")}}
  <2>1. Revoke(T) /\ Quiet
    BY <1>5 DEF RefreshCascade
  <2>2. sesLog' = [sesLog EXCEPT !.cascaded = sesLog.cascaded \cup {Root(l.i)}, !.spared = spared]
    BY <1>5 DEF RefreshCascade
  <2>3. l.i \in Pairs
    BY <1>5, <1>p DEF RefreshCascade, At, HasPair
  <2>4. Root(l.i) \in Nat
    BY SMTT(30), <1>0, <2>3, SesFields DEF Root
  <2>5. spared \in SUBSET Nat
    <3>1. \A r \in Slots : At(r, "refresh.principal") \/ At(r, "refresh.issue") => req[r].i \in Nat
      BY <1>0, <1>p, SesFields DEF At, HasPair, RotationLabels
    <3> QED BY <1>0, <3>1, SesFields
  <2>6. T \in SUBSET Tokens(Pairs)
    OBVIOUS
  <2> HIDE DEF T, spared
  <2>7. sesLog' \in SesLogRecord /\ sesLog'.from = sesLog.from /\ sesLog'.root = sesLog.root
    BY <1>s, <2>2, <2>4, <2>5 DEF SesLogRecord
  <2> QED BY <1>0, <1>b, <2>1, <2>6, <2>7, TokensRevoked
<1>6. CASE CascadeConflict(q)
  BY <1>6, <1>a DEF CascadeConflict, Quiet
<1>7. CASE RefreshPrincipal(q)
  BY <1>7, <1>a DEF RefreshPrincipal, Pause, Wait
<1>8. CASE AuthenticateJwt(q)
  BY <1>8, <1>a DEF AuthenticateJwt, Pause, Wait
<1>9. CASE LogoutAccess(q)
  <2>1. l.i \in Pairs
    BY <1>9, <1>p DEF LogoutAccess, Step, At, HasPair
  <2>2. {<<l.i, "access">>} \in SUBSET Tokens(Pairs)
    BY <2>1 DEF Tokens, Kinds
  <2> QED BY <1>0, <1>9, <1>b, <1>s, <2>2, TokensRevoked DEF LogoutAccess
<1>10. CASE LogoutAll(q)
  <2> DEFINE mine == OwnedBy(l.p)
  <2>1. /\ Revoke(Tokens(mine)) /\ Quiet
        /\ sesLog' = [sesLog EXCEPT !.out = sesLog.out \cup Ends(mine)]
    BY <1>10 DEF LogoutAll
  <2>2. mine \subseteq Pairs /\ Ends(mine) \subseteq Pairs
    BY DEF OwnedBy, Ends
  <2> HIDE DEF mine
  <2>3. Tokens(mine) \in SUBSET Tokens(Pairs)
    BY <2>2 DEF Tokens
  <2>4. sesLog' \in SesLogRecord /\ sesLog'.from = sesLog.from /\ sesLog'.root = sesLog.root
    BY <1>0, <1>s, <2>1, <2>2, SesFields DEF SesLogRecord
  <2> QED BY <1>0, <1>b, <2>1, <2>3, <2>4, TokensRevoked
<1>11. CASE LogoutIssuedAt(q)
  BY <1>11, <1>a DEF LogoutIssuedAt, Pause, Wait
<1>12. CASE LogoutRefresh(q)
  <2> DEFINE own == {l.i} \cap {j \in Pairs : ses.pair[j].owner # NoOne}
             T == {<<j, "refresh">> : j \in own}
  <2>1. /\ Revoke(T) /\ Quiet
        /\ sesLog' = [sesLog EXCEPT !.out = sesLog.out \cup Ends(own)]
    BY <1>12 DEF LogoutRefresh
  <2>2. own \subseteq Pairs /\ Ends(own) \subseteq Pairs /\ T \in SUBSET Tokens(Pairs)
    BY DEF Ends, Tokens, Kinds
  <2> HIDE DEF own, T
  <2>4. sesLog' \in SesLogRecord /\ sesLog'.from = sesLog.from /\ sesLog'.root = sesLog.root
    BY <1>0, <1>s, <2>1, <2>2, SesFields DEF SesLogRecord
  <2> QED BY <1>0, <1>b, <2>1, <2>2, <2>4, TokensRevoked
<1> QED BY <1>1, <1>2, <1>3, <1>4, <1>5, <1>6, <1>7, <1>8, <1>9, <1>10, <1>11, <1>12

\* The secrets of the second factor are written, and what the history notes.
LEMMA SecretsSet ==
    ASSUME SesCore, NEW T \in SUBSET SecretRecord, ses' = [ses EXCEPT !.totp = T],
           sesLog' \in SesLogRecord, sesLog'.from = sesLog.from, sesLog'.root = sesLog.root
    PROVE  SesCore' /\ SesGrows
<1>1. ses' \in SesRecord /\ ses'.pair = ses.pair /\ ses'.revoked = ses.revoked
  BY DEF SesCore, SesRecord
<1>2. ses.revoked \subseteq ses'.revoked /\ ses'.revoked \subseteq Tokens(Pairs)
  BY <1>1 DEF SesCore
<1> QED BY <1>1, <1>2, SesSet DEF SesSame

LEMMA MfaKeeps ==
    ASSUME TypeInv, NEW q \in Slots,
           \/ SetupMfa(q) \/ VerifyMfa(q) \/ DisableMfa(q)
           \/ SetupMfaClear(q) \/ SetupMfaSave(q) \/ VerifyMfaFetch(q) \/ VerifyMfaEnable(q)
           \/ DisableMfaCheck(q) \/ DisableMfaDelete(q)
    PROVE  AccInv' /\ SesCore' /\ SesGrows
<1> DEFINE l == req[q]
<1>0. AccInv /\ SesInv /\ SesCore
  BY DEF TypeInv, SesInv
<1>a. ASSUME UNCHANGED <<acc, accLog, ses, sesLog>>
      PROVE  AccInv' /\ SesCore' /\ SesGrows
  BY <1>0, <1>a, SesStill DEF AccInv
<1>b. ASSUME Quiet
      PROVE  AccInv'
  BY <1>0, <1>b DEF Quiet, AccInv
<1>s. sesLog \in SesLogRecord /\ ses.totp \in SUBSET SecretRecord
  BY <1>0, SesFields DEF SesCore
<1>1. ASSUME NEW then, MfaCall(q, then)
      PROVE  AccInv' /\ SesCore' /\ SesGrows
  <2>1. PICK u \in Users : \E overlap \in {sesLog.overlap, sesLog.overlap \cup {u}} :
          sesLog' = [sesLog EXCEPT !.overlap = overlap] /\ ses' = ses /\ Quiet
    BY <1>1 DEF MfaCall, Look, Quiet
  <2>4. PICK overlap \in {sesLog.overlap, sesLog.overlap \cup {u}} :
          sesLog' = [sesLog EXCEPT !.overlap = overlap] /\ ses' = ses /\ Quiet
    BY <2>1
  <2>5. overlap \in SUBSET Users
    BY <1>0, SesFields
  <2>2. sesLog' \in SesLogRecord /\ sesLog'.from = sesLog.from /\ sesLog'.root = sesLog.root
    BY <1>s, <2>4, <2>5 DEF SesLogRecord
  <2>3. ses' \in SesRecord /\ ses' = ses /\ ses.revoked \subseteq Tokens(Pairs)
    BY <1>0, <2>1 DEF SesCore
  <2> QED BY <1>0, <1>b, <2>1, <2>2, <2>3, SesSet DEF SesSame
<1>2. CASE SetupMfa(q) \/ VerifyMfa(q) \/ DisableMfa(q)
  BY <1>1, <1>2 DEF SetupMfa, VerifyMfa, DisableMfa
<1>3. CASE SetupMfaClear(q)
  BY <1>0, <1>3, <1>b, <1>s, SecretsSet DEF SetupMfaClear
<1>4. CASE SetupMfaSave(q)
  <2> DEFINE new == [u |-> l.p, n |-> sesLog.made, on |-> FALSE, codes |-> {sesLog.made}]
             T == IF Exists(l.p) THEN ses.totp \cup {new} ELSE ses.totp
  <2>1. /\ ses' = [ses EXCEPT !.totp = T] /\ Quiet
        /\ sesLog' = [sesLog EXCEPT !.made = sesLog.made + 1]
    BY <1>4 DEF SetupMfaSave
  <2>2. LocalsOK(l) /\ l.at = "mfa.save"
    BY <1>4, LocalsHold DEF SetupMfaSave, Step, At
  <2>3. l.p \in Users
    BY <2>2 DEF LocalsOK, MfaLabels
  <2>4. sesLog.made \in Nat /\ sesLog.made + 1 \in Nat
    BY <1>0, SesFields
  <2>5. new \in SecretRecord
    BY <2>3, <2>4 DEF SecretRecord
  <2>6. T \in SUBSET SecretRecord
    BY <1>s, <2>5
  <2> HIDE DEF T, new
  <2>7. sesLog' \in SesLogRecord /\ sesLog'.from = sesLog.from /\ sesLog'.root = sesLog.root
    BY <1>s, <2>1, <2>4 DEF SesLogRecord
  <2> QED BY <1>0, <1>b, <2>1, <2>6, <2>7, SecretsSet
<1>5. CASE VerifyMfaFetch(q)
  BY <1>5, <1>a DEF VerifyMfaFetch, Pause, Wait
<1>6. CASE VerifyMfaEnable(q)
  <2>1. LocalsOK(l) /\ l.at = "mfa.enable"
    BY <1>6, LocalsHold DEF VerifyMfaEnable, At
  <2>2. l.n \in Nat
    BY <2>1 DEF LocalsOK
  <2>3. CASE l.code = NoCode
    <3> DEFINE f(t) == IF t.u = l.p THEN [t EXCEPT !.on = TRUE] ELSE t
               T == {f(t) : t \in ses.totp}
    <3>1. /\ ses' = [ses EXCEPT !.totp = T] /\ Quiet
          /\ sesLog' = [sesLog EXCEPT !.verified = sesLog.verified \cup {l.n}]
      BY <1>6, <2>3 DEF VerifyMfaEnable
    <3>2. ASSUME NEW t \in SecretRecord
          PROVE  f(t) \in SecretRecord
      BY DEF SecretRecord
    <3>3. T \in SUBSET SecretRecord
      <4> HIDE DEF f
      <4> QED BY <3>2, <1>s
    <3> HIDE DEF T
    <3>4. sesLog' \in SesLogRecord /\ sesLog'.from = sesLog.from /\ sesLog'.root = sesLog.root
      BY <1>s, <2>2, <3>1 DEF SesLogRecord
    <3> QED BY <1>0, <1>b, <3>1, <3>3, <3>4, SecretsSet
  <2>4. CASE l.code # NoCode /\ Holding(l.p, l.code) = {}
    BY <1>6, <2>4, <1>a DEF VerifyMfaEnable, Pause, Wait
  <2>5. CASE l.code # NoCode /\ Holding(l.p, l.code) # {}
    BY <1>0, <1>6, <2>2, <2>5, <1>b, SecretsSpent DEF VerifyMfaEnable
  <2> QED BY <2>3, <2>4, <2>5
<1>7. CASE DisableMfaCheck(q)
  BY <1>7, <1>a DEF DisableMfaCheck, Pause, Wait
<1>8. CASE DisableMfaDelete(q)
  BY <1>0, <1>8, <1>b, <1>s, SecretsSet DEF DisableMfaDelete
<1> QED BY <1>2, <1>3, <1>4, <1>5, <1>6, <1>7, <1>8

-----------------------------------------------------------------------------
(* What the statements do to the keys.                                     *)

ValidRecord == [k : Nat, at : Nat]

LEMMA KeyFields ==
    ASSUME KeysInv
    PROVE  /\ keys \in Seq(KeyRecord) /\ Len(keys) \in Nat /\ Keys = 1..Len(keys)
           /\ cache \in Seq(EntryRecord) /\ Len(cache) \in Nat /\ Len(cache) <= CacheSize
           /\ DOMAIN cache = 1..Len(cache)
           /\ now \in 0..MaxTime /\ now \in Nat /\ keyLog.late \in Int
           /\ keyLog.valid \in Seq(ValidRecord) /\ Len(keyLog.valid) \in Nat
           /\ DOMAIN keyLog.valid = 1..Len(keyLog.valid)
           /\ keyLog \in [valid : Seq(ValidRecord), late : Int]
<1>1. keyLog \in [valid : Seq(ValidRecord), late : Int] /\ keyLog.valid \in Seq(ValidRecord)
      /\ keyLog.late \in Int
  BY DEF KeysInv, ValidRecord
<1>2. Len(keyLog.valid) \in Nat /\ DOMAIN keyLog.valid = 1..Len(keyLog.valid)
  BY <1>1
<1>3. keys \in Seq(KeyRecord) /\ cache \in Seq(EntryRecord) /\ Len(cache) <= CacheSize
  BY DEF KeysInv
<1>4. Len(keys) \in Nat /\ Keys = 1..Len(keys) /\ Len(cache) \in Nat /\ DOMAIN cache = 1..Len(cache)
  BY <1>3 DEF Keys
<1>5. now \in 0..MaxTime /\ now \in Nat
  BY CredentialsAssumption DEF KeysInv
<1> QED BY <1>1, <1>2, <1>3, <1>4, <1>5

LEMMA KeysStill ==
    ASSUME KeysInv, KeysQuiet
    PROVE  KeysInv'
BY DEF KeysInv, KeysQuiet, Keys

\* Keys are written that keep the secrets they have.
LEMMA KeysWritten ==
    ASSUME KeysInv, NEW new \in Seq(KeyRecord), Len(new) = Len(keys),
           \A k \in Keys : new[k].secret = keys[k].secret,
           keys' = new, UNCHANGED <<cache, now, keyLog>>
    PROVE  KeysInv'
<1>1. Keys' = Keys
  BY KeyFields DEF Keys
<1> QED BY <1>1 DEF KeysInv

\* A new secret is handed out with a new key, or to a key that is there.
LEMMA SecretHandedOut ==
    ASSUME KeysInv, NEW new \in Seq(KeyRecord), NEW h \in Nat,
           \A k \in DOMAIN new : \/ k \in Keys /\ new[k].secret = keys[k].secret
                                 \/ k = h /\ new[k].secret = Fresh,
           keys' = new, keyLog' = HandOut(h), UNCHANGED <<cache, now>>
    PROVE  KeysInv'
<1> DEFINE valid == keyLog.valid
           entry == [k |-> h, at |-> now]
<1>1. entry \in ValidRecord /\ valid \in Seq(ValidRecord)
  BY KeyFields DEF ValidRecord
<1>2. /\ Append(valid, entry) \in Seq(ValidRecord) /\ Len(Append(valid, entry)) = Fresh
      /\ Append(valid, entry)[Fresh] = entry
      /\ \A s \in DOMAIN valid : Append(valid, entry)[s] = valid[s]
  BY <1>1, AppendAt, KeyFields DEF Fresh
<1>3. keyLog'.valid = Append(valid, entry) /\ keyLog'.late = keyLog.late
      /\ keyLog' \in [valid : Seq(ValidRecord), late : Int]
  <2> HIDE DEF entry
  <2> QED BY <1>2, KeyFields DEF HandOut, entry
<1>4. DOMAIN keyLog'.valid = DOMAIN valid \cup {Fresh}
  <2>1. DOMAIN keyLog'.valid = 1..Fresh
    BY <1>2, <1>3
  <2> QED BY <2>1, KeyFields DEF Fresh
<1>5. ASSUME NEW k \in Keys'
      PROVE  new[k].secret \in DOMAIN keyLog'.valid /\ keyLog'.valid[new[k].secret].k = k
  <2>1. CASE k \in Keys /\ new[k].secret = keys[k].secret
    <3>1. keys[k].secret \in DOMAIN valid /\ valid[keys[k].secret].k = k
      BY <2>1 DEF KeysInv
    <3> QED BY <1>2, <1>3, <1>4, <2>1, <3>1
  <2>2. CASE k = h /\ new[k].secret = Fresh
    BY <1>2, <1>3, <1>4, <2>2
  <2> QED BY <1>5, <2>1, <2>2 DEF Keys
<1> QED BY <1>3, <1>5 DEF KeysInv, ValidRecord

\* What the key handlers do to the cache and its clock.
HandsOut ==
  /\ cache' = cache /\ now' = now
  /\ keyLog' = keyLog \/ \E k \in Nat : keyLog' = HandOut(k)

LEMMA KeyCreated ==
    ASSUME KeysInv, NEW kind \in {"api", "client"}, NEW p \in Principals \cup {NoOne},
           Write(Append(keys, Key(kind, p, Fresh)), HandOut(Len(keys) + 1))
    PROVE  KeysInv' /\ HandsOut
<1> DEFINE new == Append(keys, Key(kind, p, Fresh))
<1>1. Key(kind, p, Fresh) \in KeyRecord /\ Key(kind, p, Fresh).secret = Fresh
  BY KeyFields DEF Key, KeyRecord, Fresh
<1>2. /\ new \in Seq(KeyRecord) /\ Len(new) = Len(keys) + 1
      /\ \A k \in Keys : new[k] = keys[k]
      /\ new[Len(keys) + 1] = Key(kind, p, Fresh)
  BY <1>1, AppendAt, KeyFields
<1>3. DOMAIN new = Keys \cup {Len(keys) + 1} /\ Len(keys) + 1 \in Nat
  BY <1>2, KeyFields
<1> HIDE DEF new
<1>4. \A k \in DOMAIN new : \/ k \in Keys /\ new[k].secret = keys[k].secret
                            \/ k = Len(keys) + 1 /\ new[k].secret = Fresh
  BY <1>1, <1>2, <1>3
<1>5. keys' = new /\ keyLog' = HandOut(Len(keys) + 1) /\ UNCHANGED <<cache, now>>
  BY DEF Write, new
<1> QED BY <1>2, <1>3, <1>4, <1>5, SecretHandedOut DEF HandsOut

\* A key that is there gets another owner, or is revoked.
LEMMA KeyChanged ==
    ASSUME KeysInv, NEW k \in Nat, NEW p \in Principals,
           \/ Write([keys EXCEPT ![k].owner = p], keyLog)
           \/ Write([keys EXCEPT ![k].revoked = TRUE], keyLog)
    PROVE  KeysInv' /\ HandsOut
<1>1. ASSUME NEW new, new = [keys EXCEPT ![k].owner = p] \/ new = [keys EXCEPT ![k].revoked = TRUE]
      PROVE  /\ new \in Seq(KeyRecord) /\ Len(new) = Len(keys)
             /\ \A j \in Keys : new[j].secret = keys[j].secret
  <2>1. \A j \in Keys : keys[j] \in KeyRecord
    BY KeyTypes
  <2>2. DOMAIN new = Keys /\ \A j \in Keys : new[j] \in KeyRecord /\ new[j].secret = keys[j].secret
    <3>1. CASE new = [keys EXCEPT ![k].owner = p]
      BY <2>1, <3>1 DEF KeyRecord, Keys
    <3>2. CASE new = [keys EXCEPT ![k].revoked = TRUE]
      BY <2>1, <3>2 DEF KeyRecord, Keys
    <3> QED BY <1>1, <3>1, <3>2
  <2>3. new \in [1..Len(keys) -> KeyRecord]
    BY <1>1, <2>2, KeyFields
  <2>4. new \in Seq(KeyRecord) /\ Len(new) = Len(keys)
    <3>1. Len(keys) \in Nat
      BY KeyFields
    <3> QED BY <2>3, <3>1, FunctionIsSeq
  <2> QED BY <2>2, <2>4
<1>2. /\ keys' = [keys EXCEPT ![k].owner = p] \/ keys' = [keys EXCEPT ![k].revoked = TRUE]
      /\ UNCHANGED <<cache, now, keyLog>>
  BY DEF Write
<1>3. PICK new : /\ new = [keys EXCEPT ![k].owner = p] \/ new = [keys EXCEPT ![k].revoked = TRUE]
                 /\ keys' = new
  BY <1>2
<1> QED BY <1>1, <1>2, <1>3, KeysWritten DEF HandsOut

LEMMA KeyRotated ==
    ASSUME KeysInv, NEW k \in Nat, Write([keys EXCEPT ![k].secret = Fresh], HandOut(k))
    PROVE  KeysInv' /\ HandsOut
<1> DEFINE new == [keys EXCEPT ![k].secret = Fresh]
<1>1. \A j \in Keys : keys[j] \in KeyRecord
  BY KeyTypes
<1>2. Fresh \in Nat
  BY KeyFields DEF Fresh
<1>3. /\ DOMAIN new = Keys
      /\ \A j \in Keys : /\ new[j] \in KeyRecord
                         /\ new[j].secret = keys[j].secret \/ (j = k /\ new[j].secret = Fresh)
  BY <1>1, <1>2 DEF KeyRecord, Keys
<1>4. new \in [1..Len(keys) -> KeyRecord]
  BY <1>3, KeyFields
<1>5. new \in Seq(KeyRecord)
  BY <1>4, KeyFields
<1>6. keys' = new /\ keyLog' = HandOut(k) /\ UNCHANGED <<cache, now>>
  BY DEF Write
<1> HIDE DEF new
<1> QED BY <1>3, <1>5, <1>6, SecretHandedOut DEF HandsOut

LEMMA KeysKeep ==
    ASSUME TypeInv, NEW q \in Slots, KeyCalls(q) \/ KeySteps(q)
    PROVE  KeysInv' /\ HandsOut /\ SessionsQuiet
<1> DEFINE l == req[q]
<1>0. KeysInv
  BY DEF TypeInv
<1>a. ASSUME KeysQuiet, SessionsQuiet
      PROVE  KeysInv' /\ HandsOut /\ SessionsQuiet
  BY <1>0, <1>a, KeysStill DEF KeysQuiet, HandsOut
<1>k. ASSUME l.at \in HasKey
      PROVE  l.k \in Nat
  BY <1>k, LocalsHold DEF LocalsOK
<1>p. Services \subseteq Principals /\ Users \subseteq Principals
  BY DEF Principals
<1>o. ASSUME NEW p, NEW kind, NEW k \in Of(p, kind)
      PROVE  k \in Nat /\ k \in Keys
  BY <1>0, <1>o, KeyTypes DEF Of
<1> USE DEF Glance, Pause, Look, Wait, Peek, Rest, WithToken, SessionsQuiet, Quiet
<1>1. CASE CreateApiKey(q) \/ RevokeApiKey(q) \/ RotateApiKey(q)
  BY <1>1, <1>a DEF CreateApiKey, RevokeApiKey, RotateApiKey
<1>2. CASE CreateServiceKey(q) \/ RotateServiceKey(q)
  BY <1>2, <1>a DEF CreateServiceKey, RotateServiceKey
<1>3. CASE CreateClientCredential(q) \/ RotateClientCredential(q) \/ ClientCredentialsGrant(q)
  BY <1>3, <1>a DEF CreateClientCredential, RotateClientCredential, ClientCredentialsGrant
<1>4. CASE RevokeServiceKey(q) \/ RevokeClientCredential(q)
  <2>1. PICK s \in Services, kind \in {"api", "client"} : \E k \in Of(s, kind) :
          Write([keys EXCEPT ![k].revoked = TRUE], keyLog)
    BY <1>4 DEF RevokeServiceKey, RevokeClientCredential
  <2>2. PICK k \in Of(s, kind) : Write([keys EXCEPT ![k].revoked = TRUE], keyLog)
    BY <2>1
  <2> QED BY <1>0, <1>o, <1>p, <2>2, KeyChanged DEF Write
<1>5. CASE ValidateScopes(q) \/ FindApiKey(q) \/ LookupApiKey(q) \/ GrantUsed(q)
  BY <1>5, <1>a DEF ValidateScopes, FindApiKey, LookupApiKey, GrantUsed
<1>6. CASE CreateApiKeyNode(q)
  BY <1>0, <1>6, KeyCreated DEF CreateApiKeyNode, Write
<1>7. CASE CreateApiKeyOwner(q)
  <2>1. l.k \in Nat /\ l.p \in Principals
    BY <1>7, <1>k, LocalsHold DEF CreateApiKeyOwner, Step, At, HasKey, HasPrincipal
  <2>2. CASE Exists(l.p)
    BY <1>0, <1>7, <2>1, <2>2, KeyChanged DEF CreateApiKeyOwner, Write
  <2>3. CASE ~Exists(l.p)
    BY <1>7, <2>3, <1>a DEF CreateApiKeyOwner, Write, KeysQuiet
  <2> QED BY <2>2, <2>3
<1>8. CASE RevokeApiKeyNode(q)
  <2>1. l.k \in Nat
    BY <1>8, <1>k DEF RevokeApiKeyNode, Step, At, HasKey
  <2>2. Principals # {}
    BY <1>8, LocalsHold DEF RevokeApiKeyNode, Step, At, HasPrincipal
  <2> QED BY <1>0, <1>8, <2>1, <2>2, KeyChanged DEF RevokeApiKeyNode, Write
<1>9. CASE RotateApiKeyNode(q)
  <2>1. l.k \in Nat
    BY <1>9, <1>k DEF RotateApiKeyNode, Step, At, HasKey
  <2> QED BY <1>0, <1>9, <2>1, KeyRotated DEF RotateApiKeyNode, Write
<1>10. CASE CreateServiceKeyNode(q) \/ CreateClientCredentialNode(q)
  <2>1. l.p \in Principals
    BY <1>10, LocalsHold DEF CreateServiceKeyNode, CreateClientCredentialNode, At, HasPrincipal
  <2>2. \/ KeysQuiet /\ SessionsQuiet
        \/ \E kind \in {"api", "client"} :
             Write(Append(keys, Key(kind, l.p, Fresh)), HandOut(Len(keys) + 1))
    BY <1>10 DEF CreateServiceKeyNode, CreateClientCredentialNode, CreateOwned
  <2> QED BY <1>0, <1>a, <2>1, <2>2, KeyCreated DEF Write
<1>11. CASE RotateServiceKeyNode(q) \/ RotateClientCredentialNode(q)
  <2>1. l.k \in Nat
    BY <1>11, <1>k DEF RotateServiceKeyNode, RotateClientCredentialNode, At, HasKey
  <2>2. \/ KeysQuiet /\ SessionsQuiet
        \/ Write([keys EXCEPT ![l.k].secret = Fresh], HandOut(l.k))
    BY <1>11 DEF RotateServiceKeyNode, RotateClientCredentialNode, Rotated
  <2> QED BY <1>0, <1>a, <2>1, <2>2, KeyRotated DEF Write
<1> QED BY <1>1, <1>2, <1>3, <1>4, <1>5, <1>6, <1>7, <1>8, <1>9, <1>10, <1>11
        DEF KeyCalls, KeySteps

-----------------------------------------------------------------------------
(* The cache of verified keys.  A key's last good moment is never later than *)
(* the clock; a cached entry and a lookup in hand know of a secret that was  *)
(* good when they were read, and an entry lives Ttl past its making.        *)

LookupOK(l) ==
  /\ l.s \in DOMAIN keyLog.valid
  /\ l.since <= now /\ l.since <= keyLog.valid[l.s].at

EntryOK(e) ==
  /\ e.s \in DOMAIN keyLog.valid
  /\ (e.until - Ttl) - e.gap <= keyLog.valid[e.s].at

ServeInv ==
  /\ \A s \in DOMAIN keyLog.valid : keyLog.valid[s].at <= now
  /\ \A i \in DOMAIN cache : EntryOK(cache[i])
  /\ \A q \in Slots : req[q].at \in LookupLabels => LookupOK(req[q])
  /\ keyLog.late <= Ttl

LEMMA RemovedAt ==
    ASSUME NEW S, NEW s \in Seq(S), NEW i \in 1..Len(s)
    PROVE  /\ RemoveAt(s, i) \in Seq(S) /\ Len(RemoveAt(s, i)) = Len(s) - 1
           /\ \A j \in 1..Len(RemoveAt(s, i)) : \E k \in 1..Len(s) : RemoveAt(s, i)[j] = s[k]
<1> DEFINE a == SubSeq(s, 1, i - 1)
           b == SubSeq(s, i + 1, Len(s))
<1>1. a \in Seq(S) /\ Len(a) = i - 1 /\ \A j \in 1..Len(a) : a[j] = s[j]
  OBVIOUS
<1>2. b \in Seq(S) /\ Len(b) = Len(s) - i /\ \A j \in 1..Len(b) : b[j] = s[i + j]
  OBVIOUS
<1>3. RemoveAt(s, i) = a \o b
  BY DEF RemoveAt
<1> HIDE DEF a, b
<1>4. /\ a \o b \in Seq(S) /\ Len(a \o b) = Len(a) + Len(b)
      /\ \A j \in 1..Len(a) : (a \o b)[j] = a[j]
      /\ \A j \in (Len(a) + 1)..(Len(a) + Len(b)) : (a \o b)[j] = b[j - Len(a)]
  <2>1. /\ a \o b \in Seq(S) /\ Len(a \o b) = Len(a) + Len(b)
        /\ \A j \in 1..Len(a) + Len(b) :
             (a \o b)[j] = IF j <= Len(a) THEN a[j] ELSE b[j - Len(a)]
    BY <1>1, <1>2, ConcatProperties
  <2>2. Len(a) \in Nat /\ Len(b) \in Nat
    BY <1>1, <1>2
  <2>3. ASSUME NEW j \in 1..Len(a)
        PROVE  j \in 1..Len(a) + Len(b) /\ j <= Len(a)
    BY <2>2
  <2>4. ASSUME NEW j \in (Len(a) + 1)..(Len(a) + Len(b))
        PROVE  j \in 1..Len(a) + Len(b) /\ ~(j <= Len(a))
    BY <2>2
  <2> QED BY <2>1, <2>3, <2>4
<1>5. Len(a \o b) = Len(s) - 1
  BY <1>1, <1>2, <1>4
<1>6. ASSUME NEW j \in 1..Len(a \o b)
      PROVE  \E k \in 1..Len(s) : (a \o b)[j] = s[k]
  <2>1. CASE j <= Len(a)
    <3>1. j \in 1..Len(a) /\ j \in 1..Len(s)
      BY <1>1, <1>5, <2>1
    <3> QED BY <1>1, <1>4, <3>1
  <2>2. CASE j > Len(a)
    <3>1. j \in (Len(a) + 1)..(Len(a) + Len(b)) /\ j - Len(a) \in 1..Len(b)
      BY <1>1, <1>2, <1>4, <2>2
    <3>2. (a \o b)[j] = s[i + (j - Len(a))]
      BY <1>2, <1>4, <3>1
    <3>3. i + (j - Len(a)) \in 1..Len(s)
      BY <1>1, <1>2, <3>1
    <3> QED BY <3>2, <3>3
  <2> QED BY <1>1, <2>1, <2>2
<1> QED BY <1>3, <1>4, <1>5, <1>6

\* What is left of the cache without a key's entry was in it.
LEMMA UncachedOK ==
    ASSUME KeysInv, NEW k, NEW s
    PROVE  /\ Uncached(k, s) \in Seq(EntryRecord) /\ Len(Uncached(k, s)) \in Nat
           /\ Len(Uncached(k, s)) <= Len(cache)
           /\ Entry(k, s) # {} => Len(Uncached(k, s)) = Len(cache) - 1
           /\ \A j \in 1..Len(Uncached(k, s)) : \E i \in DOMAIN cache : Uncached(k, s)[j] = cache[i]
<1>1. cache \in Seq(EntryRecord) /\ Len(cache) \in Nat /\ DOMAIN cache = 1..Len(cache)
  BY KeyFields
<1>2. CASE Entry(k, s) = {}
  <2>1. Uncached(k, s) = cache
    BY <1>2 DEF Uncached
  <2> QED BY <1>1, <1>2, <2>1
<1>3. CASE Entry(k, s) # {}
  <2> DEFINE i == CHOOSE i \in Entry(k, s) : TRUE
  <2>1. i \in 1..Len(cache)
    BY <1>1, <1>3 DEF Entry
  <2>2. Uncached(k, s) = RemoveAt(cache, i)
    BY <1>3 DEF Uncached
  <2> HIDE DEF i
  <2>3. /\ RemoveAt(cache, i) \in Seq(EntryRecord) /\ Len(RemoveAt(cache, i)) = Len(cache) - 1
        /\ \A j \in 1..Len(RemoveAt(cache, i)) :
             \E m \in 1..Len(cache) : RemoveAt(cache, i)[j] = cache[m]
    <3>1. cache \in Seq(EntryRecord) /\ i \in 1..Len(cache)
      BY <1>1, <2>1
    <3> HIDE DEF EntryRecord
    <3> QED BY ONLY <3>1, RemovedAt
  <2>4. Len(cache) - 1 \in Nat /\ Len(cache) - 1 <= Len(cache)
    BY <1>1, <2>1
  <2> QED BY <1>1, <2>2, <2>3, <2>4
<1> QED BY <1>2, <1>3

\* Good moments move on and secrets are not forgotten.
GoodMovesOn ==
  /\ DOMAIN keyLog.valid \subseteq DOMAIN keyLog'.valid
  /\ \A s \in DOMAIN keyLog.valid : keyLog.valid[s].at <= keyLog'.valid[s].at

\* While the clock does not go back, what entries and lookups know stays true.
LEMMA ServeKept ==
    ASSUME ServeInv, KeysInv, KeysInv', now <= now', GoodMovesOn
    PROVE  /\ \A l : LookupOK(l) /\ l.since \in Nat => LookupOK(l)'
           /\ \A e \in EntryRecord : EntryOK(e) => EntryOK(e)'
<1>1. /\ now \in Nat /\ now' \in Nat
      /\ \A s \in DOMAIN keyLog.valid : keyLog.valid[s].at \in Nat
      /\ \A s \in DOMAIN keyLog'.valid : keyLog'.valid[s].at \in Nat
  <2>1. now' \in Nat /\ keyLog'.valid \in Seq([k : Nat, at : Nat])
    BY CredentialsAssumption DEF KeysInv
  <2> QED BY <2>1, TimeTypes, ValidTypes
<1>2. ASSUME NEW l, LookupOK(l), l.since \in Nat
      PROVE  LookupOK(l)'
  BY <1>1, <1>2 DEF LookupOK, GoodMovesOn
<1>3. ASSUME NEW e \in EntryRecord, EntryOK(e)
      PROVE  EntryOK(e)'
  <2>1. (e.until - Ttl) - e.gap \in Int
    BY CredentialsAssumption DEF EntryRecord
  <2> HIDE DEF EntryRecord
  <2> QED BY <1>1, <1>3, <2>1 DEF EntryOK, GoodMovesOn
<1> QED BY <1>2, <1>3

LEMMA LookupLocals ==
    ASSUME TypeInv, NEW q \in Slots, req[q].at \in LookupLabels
    PROVE  req[q].k \in Nat /\ req[q].s \in Nat /\ req[q].since \in Nat
BY LocalsHold DEF LocalsOK, HasKey

\* The requests that are still looking up a key know what they knew.
LEMMA LookupsHold ==
    ASSUME TypeInv, ServeInv, NEW q \in Slots, Goes(q), KeysInv', now <= now', GoodMovesOn,
           req'[q].at \in LookupLabels =>
             /\ req'[q].s \in DOMAIN keyLog'.valid /\ req'[q].since <= now'
             /\ req'[q].since <= keyLog'.valid[req'[q].s].at
    PROVE  \A r \in Slots : req'[r].at \in LookupLabels => LookupOK(req[r])'
<1>1. PoolInv /\ KeysInv
  BY DEF TypeInv
<1>2. TAKE r \in Slots
<1>3. CASE r = q
  BY <1>3 DEF LookupOK
<1>4. CASE r # q
  <2>1. req'[r] = req[r]
    BY <1>1, <1>4, OthersStay
  <2> SUFFICES ASSUME req[r].at \in LookupLabels
               PROVE  LookupOK(req[r])'
    BY <2>1
  <2>2. LookupOK(req[r]) /\ req[r].since \in Nat
    BY LookupLocals DEF ServeInv
  <2>3. PICK l : l = req[r]
    OBVIOUS
  <2>4. LookupOK(l) /\ l.since \in Nat /\ l = req'[r]
    BY <2>1, <2>2, <2>3
  <2>5. LookupOK(l)'
    BY <1>1, <2>4, ServeKept
  <2> QED BY <2>4, <2>5 DEF LookupOK
<1> QED BY <1>3, <1>4

LEMMA EntriesHold ==
    ASSUME KeysInv, ServeInv, KeysInv', now <= now', cache' = cache, GoodMovesOn
    PROVE  \A i \in DOMAIN cache' : EntryOK(cache[i])'
<1>1. TAKE i \in DOMAIN cache'
<1>2. cache[i] \in EntryRecord /\ EntryOK(cache[i])
  BY KeyFields DEF ServeInv
<1>3. PICK e : e = cache[i]
  OBVIOUS
<1>4. EntryOK(e)' /\ e = cache'[i]
  BY <1>2, <1>3, ServeKept
<1> QED BY <1>4 DEF EntryOK

\* The key handlers hand out secrets and leave the cache alone.
LEMMA HandsOutServe ==
    ASSUME TypeInv, ServeInv, NEW q \in Slots, Goes(q), req'[q].at \notin LookupLabels,
           KeysInv', HandsOut
    PROVE  ServeInv'
<1>0. KeysInv /\ now' = now /\ cache' = cache /\ now \in Nat /\ now <= now'
  BY KeyFields DEF TypeInv, HandsOut
<1>1. /\ GoodMovesOn
      /\ \A s \in DOMAIN keyLog'.valid : keyLog'.valid[s].at <= now'
      /\ keyLog'.late = keyLog.late
  <2>1. CASE keyLog' = keyLog
    BY <1>0, <2>1, TimeTypes DEF ServeInv, GoodMovesOn
  <2>2. ASSUME NEW k \in Nat, keyLog' = HandOut(k)
        PROVE  /\ GoodMovesOn
               /\ \A s \in DOMAIN keyLog'.valid : keyLog'.valid[s].at <= now'
               /\ keyLog'.late = keyLog.late
    <3> DEFINE valid == keyLog.valid
               entry == [k |-> k, at |-> now]
    <3>1. entry \in ValidRecord /\ entry.at = now
      BY <1>0 DEF ValidRecord
    <3>2. keyLog'.valid = Append(valid, entry) /\ keyLog'.late = keyLog.late
      BY <1>0, <2>2, KeyFields DEF HandOut
    <3>3. valid \in Seq(ValidRecord) /\ Len(valid) \in Nat /\ DOMAIN valid = 1..Len(valid)
      BY <1>0, KeyFields
    <3> HIDE DEF valid, entry
    <3>4. /\ Append(valid, entry) \in Seq(ValidRecord)
          /\ Len(Append(valid, entry)) = Len(valid) + 1
          /\ \A s \in 1..Len(valid) : Append(valid, entry)[s] = valid[s]
          /\ Append(valid, entry)[Len(valid) + 1] = entry
      BY <3>1, <3>3, AppendAt
    <3>5. DOMAIN Append(valid, entry) = DOMAIN valid \cup {Len(valid) + 1}
      BY <3>3, <3>4
    <3>6. \A s \in DOMAIN valid : valid[s].at \in Nat /\ valid[s].at <= now
      BY <1>0, TimeTypes DEF ServeInv, valid
    <3> QED BY <1>0, <3>1, <3>2, <3>3, <3>4, <3>5, <3>6 DEF valid, GoodMovesOn
  <2> QED BY <2>1, <2>2 DEF HandsOut
<1>2. \A r \in Slots : req'[r].at \in LookupLabels => LookupOK(req[r])'
  BY <1>0, <1>1, LookupsHold
<1>3. \A i \in DOMAIN cache' : EntryOK(cache[i])'
  BY <1>0, <1>1, EntriesHold
<1>4. keyLog'.late <= Ttl
  BY <1>1 DEF ServeInv
<1> QED BY <1>1, <1>2, <1>3, <1>4 DEF ServeInv

\* The caller is let in by a key that was good no longer than Ttl ago.
LEMMA ServedInTime ==
    ASSUME KeysInv, ServeInv, NEW s \in DOMAIN keyLog.valid, NEW gap \in Nat,
           (now - keyLog.valid[s].at) - gap <= Ttl, keyLog' = Serve(s, gap, keyLog)
    PROVE  /\ keyLog'.valid = keyLog.valid /\ keyLog'.late <= Ttl
           /\ keyLog' \in [valid : Seq(ValidRecord), late : Int]
           /\ GoodMovesOn
<1> DEFINE late == (now - keyLog.valid[s].at) - gap
           new == IF late > keyLog.late THEN late ELSE keyLog.late
<1>1. late \in Int /\ keyLog.late \in Int /\ keyLog.late <= Ttl
  BY TimeTypes, KeyFields DEF ServeInv
<1>2. new \in Int /\ new <= Ttl
  <2> HIDE DEF late
  <2> QED BY <1>1 DEF late
<1>3. keyLog' = [keyLog EXCEPT !.late = new]
  BY DEF Serve
<1> HIDE DEF new
<1>4. keyLog'.valid = keyLog.valid /\ keyLog'.late = new
      /\ keyLog' \in [valid : Seq(ValidRecord), late : Int]
  BY <1>2, <1>3, KeyFields
<1>5. \A x \in DOMAIN keyLog.valid : keyLog.valid[x].at \in Nat
  BY TimeTypes
<1> QED BY <1>2, <1>4, <1>5 DEF GoodMovesOn

\* KeysInv when the keys and the secrets' owners stay.
LEMMA CacheSet ==
    ASSUME KeysInv, keys' = keys, now' = now, cache' \in Seq(EntryRecord), Len(cache') <= CacheSize,
           keyLog' \in [valid : Seq(ValidRecord), late : Int],
           DOMAIN keyLog'.valid = DOMAIN keyLog.valid,
           \A s \in DOMAIN keyLog.valid : keyLog'.valid[s].k = keyLog.valid[s].k
    PROVE  KeysInv'
BY DEF KeysInv, Keys, ValidRecord

LEMMA LookupServes ==
    ASSUME TypeInv, ServeInv, NEW q \in Slots, NEW k, NEW s \in DOMAIN keyLog.valid,
           Goes(q), CacheLookup(q, k, s)
    PROVE  KeysInv' /\ ServeInv' /\ SessionsQuiet
<1>0. KeysInv /\ PoolInv
  BY DEF TypeInv
<1>1. PICK i \in Entry(k, s) :
        /\ now <= cache[i].until /\ Begin(q, Idle)
        /\ cache' = Append(Uncached(k, s), cache[i])
        /\ keyLog' = Serve(s, cache[i].gap, keyLog)
        /\ UNCHANGED <<keys, now>> /\ SessionsQuiet
  BY DEF CacheLookup
<1> DEFINE e == cache[i]
           rest == Uncached(k, s)
<1>2. i \in DOMAIN cache /\ e \in EntryRecord /\ e.s = s
  BY <1>0, KeyFields DEF Entry
<1>3. EntryOK(e)
  BY <1>2 DEF ServeInv
<1>4. (now - keyLog.valid[s].at) - e.gap <= Ttl /\ e.gap \in Nat
  <2>1. now \in Nat /\ keyLog.valid[s].at \in Nat /\ e.gap \in Nat /\ e.until \in Nat
    BY <1>0, <1>2, TimeTypes DEF EntryRecord
  <2>2. (e.until - Ttl) - e.gap <= keyLog.valid[s].at /\ now <= e.until
    BY <1>1, <1>2, <1>3 DEF EntryOK
  <2> HIDE DEF e
  <2> QED BY <2>1, <2>2, CredentialsAssumption
<1>5. /\ keyLog'.valid = keyLog.valid /\ keyLog'.late <= Ttl
      /\ keyLog' \in [valid : Seq(ValidRecord), late : Int] /\ GoodMovesOn
  BY <1>0, <1>1, <1>4, ServedInTime
<1>6. /\ rest \in Seq(EntryRecord) /\ Len(rest) \in Nat /\ Len(rest) = Len(cache) - 1
      /\ \A j \in 1..Len(rest) : \E x \in DOMAIN cache : rest[j] = cache[x]
  BY <1>0, <1>1, UncachedOK
<1> HIDE DEF e, rest
<1>7. /\ cache' = Append(rest, e) /\ cache' \in Seq(EntryRecord) /\ Len(cache') = Len(rest) + 1
      /\ \A j \in 1..Len(rest) : cache'[j] = rest[j]
      /\ cache'[Len(rest) + 1] = e
  BY <1>1, <1>2, <1>6, AppendAt DEF e, rest
<1>8. DOMAIN cache' = 1..Len(rest) \cup {Len(rest) + 1}
  BY <1>6, <1>7
<1>9. \A j \in DOMAIN cache' : \E x \in DOMAIN cache : cache'[j] = cache[x]
  BY <1>2, <1>6, <1>7, <1>8 DEF e
<1>10. KeysInv'
  <2>1. Len(cache') <= CacheSize
    BY <1>0, <1>6, <1>7, KeyFields
  <2> QED BY <1>0, <1>1, <1>5, <1>7, <2>1, CacheSet
<1>11. \A x \in DOMAIN cache : EntryOK(cache[x])
  BY DEF ServeInv
<1>12. \A j \in DOMAIN cache' : EntryOK(cache[j])'
  <2>1. TAKE j \in DOMAIN cache'
  <2>2. PICK x \in DOMAIN cache : cache'[j] = cache[x]
    BY <1>9
  <2>3. EntryOK(cache[x])
    BY <1>11
  <2> QED BY <1>5, <2>2, <2>3 DEF EntryOK
<1>13. req'[q] = Idle /\ req'[q].at \notin LookupLabels
  BY <1>0, <1>1 DEF Begin, PoolInv, Idle, LookupLabels
<1>14. now \in Nat /\ now' = now /\ now <= now'
  BY <1>0, <1>1, KeyFields
<1>15. \A r \in Slots : req'[r].at \in LookupLabels => LookupOK(req[r])'
  BY <1>5, <1>10, <1>13, <1>14, LookupsHold
<1>16. \A x \in DOMAIN keyLog'.valid : keyLog'.valid[x].at <= now'
  BY <1>5, <1>14 DEF ServeInv
<1> QED BY <1>1, <1>5, <1>10, <1>12, <1>15, <1>16 DEF ServeInv

LEMMA ReadServes ==
    ASSUME TypeInv, ServeInv, NEW q \in Slots, NEW k, NEW s \in DOMAIN keyLog.valid,
           Goes(q), ReadApiKey(q, k, s)
    PROVE  KeysInv' /\ ServeInv' /\ SessionsQuiet
<1>0. KeysInv /\ PoolInv /\ now \in Nat
  BY KeyFields DEF TypeInv
<1> DEFINE valid == keyLog.valid
           new == [valid EXCEPT ![s] = [valid[s] EXCEPT !.at = now]]
<1>1. /\ keyLog' = [keyLog EXCEPT !.valid[s].at = now] /\ cache' = Uncached(k, s)
      /\ UNCHANGED <<keys, now>> /\ SessionsQuiet
      /\ Begin(q, [at |-> "apikey.perms", k |-> k, s |-> s, since |-> now])
  BY DEF ReadApiKey
<1>2. /\ valid \in Seq(ValidRecord) /\ Len(valid) \in Nat /\ DOMAIN valid = 1..Len(valid)
      /\ \A x \in DOMAIN valid : /\ valid[x] \in ValidRecord /\ valid[x].at \in Nat
                                 /\ valid[x].at <= now
  <2>1. valid \in Seq(ValidRecord) /\ Len(valid) \in Nat /\ DOMAIN valid = 1..Len(valid)
    BY <1>0, KeyFields
  <2>2. \A x \in DOMAIN valid : valid[x].at \in Nat /\ valid[x].at <= now
    BY <1>0, TimeTypes DEF ServeInv
  <2>3. \A x \in DOMAIN valid : valid[x] \in ValidRecord
    BY <2>1, ElementOfSeq
  <2> QED BY <2>1, <2>2, <2>3
<1>3. keyLog'.valid = new /\ keyLog'.late = keyLog.late /\ DOMAIN new = DOMAIN valid
  BY <1>0, <1>1, KeyFields
<1>4. \A x \in DOMAIN valid :
        /\ new[x] \in ValidRecord /\ new[x].k = valid[x].k
        /\ new[x].at = IF x = s THEN now ELSE valid[x].at
  BY <1>0, <1>2 DEF ValidRecord
<1> HIDE DEF new, valid
<1>5. new \in Seq(ValidRecord)
  <2>1. new \in [1..Len(valid) -> ValidRecord]
    <3>1. new = [x \in DOMAIN valid |-> new[x]]
      BY <1>3 DEF new
    <3> QED BY <1>2, <1>4, <3>1
  <2> QED BY <1>2, <2>1, FunctionIsSeq
<1>6. keyLog' \in [valid : Seq(ValidRecord), late : Int]
  BY <1>0, <1>1, <1>3, <1>5, KeyFields
<1>7. GoodMovesOn /\ \A x \in DOMAIN keyLog'.valid : keyLog'.valid[x].at <= now
  BY <1>0, <1>2, <1>3, <1>4 DEF GoodMovesOn, valid
<1>8. /\ cache' \in Seq(EntryRecord) /\ Len(cache') \in Nat /\ Len(cache') <= CacheSize
      /\ \A j \in 1..Len(cache') : \E x \in DOMAIN cache : cache'[j] = cache[x]
  <2> DEFINE rest == Uncached(k, s)
  <2>1. /\ rest \in Seq(EntryRecord) /\ Len(rest) \in Nat
        /\ Len(rest) <= Len(cache)
        /\ \A j \in 1..Len(rest) : \E x \in DOMAIN cache : rest[j] = cache[x]
    BY <1>0, UncachedOK
  <2>2. Len(cache) \in Nat /\ Len(cache) <= CacheSize /\ cache' = rest
    BY <1>0, <1>1, KeyFields
  <2> HIDE DEF rest
  <2>3. Len(rest) <= CacheSize
    BY <2>1, <2>2, CredentialsAssumption
  <2> QED BY <2>1, <2>2, <2>3
<1>9. KeysInv'
  BY <1>0, <1>1, <1>3, <1>4, <1>6, <1>8, CacheSet DEF valid
<1>10. now' = now /\ now <= now'
  BY <1>0, <1>1
<1>11. \A j \in DOMAIN cache' : EntryOK(cache[j])'
  <2>1. TAKE j \in DOMAIN cache'
  <2>2. j \in 1..Len(cache')
    BY <1>8
  <2>3. PICK x \in DOMAIN cache : cache'[j] = cache[x]
    BY <1>8, <2>2
  <2>4. PICK e : e = cache[x]
    OBVIOUS
  <2>5. e \in EntryRecord /\ EntryOK(e)
    BY <1>0, <2>4, KeyFields DEF ServeInv
  <2>6. EntryOK(e)'
    BY <1>0, <1>7, <1>9, <1>10, <2>5, ServeKept
  <2> QED BY <2>3, <2>4, <2>6 DEF EntryOK
<1>12. \A r \in Slots : req'[r].at \in LookupLabels => LookupOK(req[r])'
  <2>1. req'[q] = [at |-> "apikey.perms", k |-> k, s |-> s, since |-> now]
    BY <1>0, <1>1 DEF Begin, PoolInv
  <2>2. req'[q].s = s /\ req'[q].since = now
    BY <2>1
  <2>3. s \in DOMAIN keyLog'.valid /\ keyLog'.valid[s].at = now
    BY <1>3, <1>4 DEF valid
  <2>4. now <= keyLog'.valid[s].at
    BY <1>0, <2>3
  <2> QED BY <1>7, <1>9, <1>10, <2>2, <2>3, <2>4, LookupsHold
<1> QED BY <1>1, <1>3, <1>7, <1>9, <1>10, <1>11, <1>12 DEF ServeInv

LEMMA StoreServes ==
    ASSUME TypeInv, ServeInv, NEW q \in Slots, Goes(q), CacheStore(q)
    PROVE  KeysInv' /\ ServeInv' /\ SessionsQuiet
<1>0. KeysInv /\ PoolInv /\ now \in Nat
  BY KeyFields DEF TypeInv
<1> DEFINE l == req[q]
           new == [k |-> l.k, s |-> l.s, until |-> now + Ttl, gap |-> now - l.since]
           room == IF Len(cache) < CacheSize THEN cache ELSE Tail(cache)
           same == {i \in DOMAIN room : room[i].k = l.k /\ room[i].s = l.s}
<1>1. l.at = "apikey.stamp" /\ l.at \in LookupLabels
  BY DEF CacheStore, At, LookupLabels
<1>2. /\ Step(q, "apikey.stamp", Idle)
      /\ cache' = IF same = {} THEN Append(room, new)
                  ELSE [i \in DOMAIN room |-> IF i \in same THEN new ELSE room[i]]
      /\ keyLog' = Serve(l.s, now - l.since, keyLog)
      /\ UNCHANGED <<keys, now>> /\ SessionsQuiet
  BY DEF CacheStore
<1>3. /\ l.k \in Nat /\ l.s \in DOMAIN keyLog.valid /\ l.since \in Nat /\ l.since <= now
      /\ l.since <= keyLog.valid[l.s].at
  BY <1>1, LookupLocals DEF ServeInv, LookupOK
<1>4. keyLog.valid[l.s].at \in Nat /\ l.s \in Nat
  BY <1>0, <1>3, TimeTypes
<1>5. (now - keyLog.valid[l.s].at) - (now - l.since) <= Ttl /\ now - l.since \in Nat
  BY <1>0, <1>3, <1>4, CredentialsAssumption
<1>6. /\ keyLog'.valid = keyLog.valid /\ keyLog'.late <= Ttl
      /\ keyLog' \in [valid : Seq(ValidRecord), late : Int] /\ GoodMovesOn
  BY <1>0, <1>2, <1>3, <1>5, ServedInTime
<1>7. new \in EntryRecord /\ EntryOK(new)
  <2>1. now + Ttl \in Nat
    BY <1>0, CredentialsAssumption
  <2>2. new \in EntryRecord
    BY <1>3, <1>4, <1>5, <2>1 DEF EntryRecord
  <2>3. ((now + Ttl) - Ttl) - (now - l.since) = l.since
    BY <1>0, <1>3, CredentialsAssumption
  <2> QED BY <1>3, <2>2, <2>3 DEF EntryOK
<1>8. /\ room \in Seq(EntryRecord) /\ Len(room) \in Nat /\ Len(room) < CacheSize
      /\ \A j \in 1..Len(room) : \E x \in DOMAIN cache : room[j] = cache[x]
  <2>1. /\ cache \in Seq(EntryRecord) /\ Len(cache) \in Nat /\ Len(cache) <= CacheSize
        /\ DOMAIN cache = 1..Len(cache)
    BY <1>0, KeyFields
  <2>2. CASE Len(cache) < CacheSize
    BY <2>1, <2>2
  <2>3. CASE ~(Len(cache) < CacheSize)
    <3>1. Len(cache) = CacheSize /\ Len(cache) > 0
      <4> DEFINE n == Len(cache)
      <4>1. n \in Nat /\ n <= CacheSize /\ ~(n < CacheSize)
        BY <2>1, <2>3
      <4>2. CacheSize \in Nat /\ CacheSize > 0
        BY CredentialsAssumption
      <4> HIDE DEF n, room
      <4>3. n = CacheSize /\ n > 0
        BY <4>1, <4>2
      <4> QED BY <4>3 DEF n
    <3>2. cache # <<>> /\ room = Tail(cache)
      BY <2>3, <3>1
    <3>3. /\ Tail(cache) \in Seq(EntryRecord) /\ Len(Tail(cache)) = Len(cache) - 1
          /\ \A j \in 1..Len(Tail(cache)) : Tail(cache)[j] = cache[j + 1]
      BY <2>1, <3>2, HeadTailProperties
    <3>4. \A j \in 1..Len(Tail(cache)) : j + 1 \in DOMAIN cache
      BY <2>1, <3>3
    <3>5. /\ room \in Seq(EntryRecord) /\ Len(room) = Len(cache) - 1
          /\ \A j \in 1..Len(room) : room[j] = cache[j + 1] /\ j + 1 \in DOMAIN cache
      BY <3>1, <3>3, <3>4
    <3> HIDE DEF room
    <3>6. Len(room) \in Nat /\ Len(room) < CacheSize
      BY <2>1, <3>1, <3>5, CredentialsAssumption
    <3> QED BY <3>5, <3>6
  <2> QED BY <2>2, <2>3
<1> HIDE DEF new, room, l
<1>9. /\ cache' \in Seq(EntryRecord) /\ Len(cache') <= CacheSize
      /\ \A j \in DOMAIN cache' : cache'[j] = new \/ \E x \in DOMAIN cache : cache'[j] = cache[x]
  <2>1. CASE same = {}
    <3>0. cache' = Append(room, new) /\ new \in EntryRecord
      BY <1>2, <1>7, <2>1 DEF new, room, l
    <3>1. /\ cache' \in Seq(EntryRecord) /\ Len(cache') = Len(room) + 1
          /\ \A j \in 1..Len(room) : cache'[j] = room[j]
          /\ cache'[Len(room) + 1] = new
      <4> HIDE DEF same
      <4> QED BY <1>8, <3>0, AppendAt
    <3>2. DOMAIN cache' = 1..Len(room) \cup {Len(room) + 1}
      BY <1>8, <3>1
    <3>3. Len(cache') <= CacheSize
      BY <1>8, <3>1, CredentialsAssumption
    <3> QED BY <1>8, <3>1, <3>2, <3>3
  <2>2. CASE same # {}
    <3> DEFINE put == [i \in DOMAIN room |-> IF i \in same THEN new ELSE room[i]]
    <3>1. cache' = put
      BY <1>2, <2>2 DEF new, room
    <3>2. DOMAIN room = 1..Len(room) /\ \A j \in 1..Len(room) : room[j] \in EntryRecord
      BY <1>8
    <3>3. put \in [1..Len(room) -> EntryRecord]
      BY <1>7, <3>2
    <3>4. put \in Seq(EntryRecord) /\ Len(put) = Len(room)
      BY <1>8, <3>3, FunctionIsSeq
    <3>5. \A j \in 1..Len(room) : put[j] = new \/ \E x \in DOMAIN cache : put[j] = cache[x]
      BY <1>8, <3>2
    <3>6. DOMAIN put = 1..Len(room)
      BY <3>3
    <3> HIDE DEF put
    <3> QED BY <1>8, <3>1, <3>4, <3>5, <3>6, CredentialsAssumption
  <2> QED BY <2>1, <2>2
<1>10. KeysInv'
  BY <1>0, <1>2, <1>6, <1>9, CacheSet
<1>11. \A j \in DOMAIN cache' : EntryOK(cache[j])'
  <2>1. \A x \in DOMAIN cache : EntryOK(cache[x])
    BY DEF ServeInv
  <2> QED BY <1>6, <1>7, <1>9, <2>1 DEF EntryOK
<1>12. now' = now /\ now <= now'
  BY <1>0, <1>2
<1>13. req'[q].at \notin LookupLabels
  BY <1>0, <1>2 DEF Step, PoolInv, Idle, LookupLabels
<1>14. \A r \in Slots : req'[r].at \in LookupLabels => LookupOK(req[r])'
  BY <1>6, <1>10, <1>12, <1>13, LookupsHold
<1>15. \A x \in DOMAIN keyLog'.valid : keyLog'.valid[x].at <= now'
  BY <1>6, <1>12 DEF ServeInv
<1> QED BY <1>2, <1>6, <1>10, <1>11, <1>14, <1>15 DEF ServeInv

\* A step that leaves the keys alone, and the lookups or ends them.
LEMMA ServeStill ==
    ASSUME ServeInv, UNCHANGED <<cache, now, keyLog>>,
           \A r \in Slots : req'[r] = req[r] \/ req'[r].at \notin LookupLabels
    PROVE  ServeInv'
<1>1. \A r \in Slots : req'[r].at \in LookupLabels => LookupOK(req[r])'
  BY DEF ServeInv, LookupOK
<1> QED BY <1>1 DEF ServeInv, EntryOK

LEMMA StampServes ==
    ASSUME TypeInv, ServeInv, NEW q \in Slots, ApiKeyPermissions(q)
    PROVE  KeysInv' /\ ServeInv' /\ SessionsQuiet
<1>0. PoolInv /\ KeysInv
  BY DEF TypeInv
<1>1. /\ Step(q, "apikey.perms", To(q, "apikey.stamp")) /\ KeysQuiet /\ SessionsQuiet
      /\ req[q].at = "apikey.perms"
  BY DEF ApiKeyPermissions, Rest, Pause, Wait, SessionsQuiet, Quiet, Step, At
<1>2. Goes(q)
  BY LookupsGo
<1>3. KeysInv'
  BY <1>0, <1>1, KeysStill
<1>4. LookupOK(req[q])
  BY <1>1 DEF ServeInv, LookupLabels
<1>5. req'[q].s = req[q].s /\ req'[q].since = req[q].since
  <2>1. "s" \in DOMAIN req[q] /\ "since" \in DOMAIN req[q]
    BY <1>0, <1>1 DEF PoolInv, LocalsOK, LookupLabels
  <2> QED BY <1>0, <1>1, <2>1 DEF Step, PoolInv, To
<1>6. now' = now /\ keyLog' = keyLog /\ cache' = cache /\ now <= now'
  BY <1>0, <1>1, KeyFields DEF KeysQuiet
<1>7. GoodMovesOn
  BY <1>0, <1>6, TimeTypes DEF GoodMovesOn
<1>8. \A r \in Slots : req'[r].at \in LookupLabels => LookupOK(req[r])'
  BY <1>2, <1>3, <1>4, <1>5, <1>6, <1>7, LookupsHold DEF LookupOK
<1>9. \A i \in DOMAIN cache' : EntryOK(cache[i])'
  BY <1>0, <1>3, <1>6, <1>7, EntriesHold
<1> QED BY <1>1, <1>3, <1>6, <1>8, <1>9 DEF ServeInv

\* A deletion lets go of the pairs and keys of what is deleted.
LEMMA SessionsFollowed ==
    ASSUME SesCore, NEW gone, SessionsFollow(gone)
    PROVE  SesCore' /\ SesGrows
<1> DEFINE old == ses.pair
           new == [i \in Pairs |-> IF old[i].owner \in gone THEN [old[i] EXCEPT !.owner = NoOne]
                                   ELSE old[i]]
           totp == {t \in ses.totp : t.u \notin gone}
<1>1. /\ old \in Seq(PairRecord) /\ Len(old) \in Nat /\ Pairs = 1..Len(old)
      /\ \A i \in Pairs : old[i] \in PairRecord
  BY SesFields, ElementOfSeq DEF Pairs
<1>2. \A i \in Pairs : /\ new[i] \in PairRecord /\ new[i].sub = old[i].sub
                       /\ new[i].family = old[i].family
  BY <1>1 DEF PairRecord
<1>3. new \in [1..Len(old) -> PairRecord]
  BY <1>1, <1>2
<1>4. new \in Seq(PairRecord) /\ Len(new) = Len(old)
  BY <1>1, <1>3, FunctionIsSeq
<1>5. ses' = [ses EXCEPT !.pair = new, !.totp = totp] /\ sesLog' = sesLog
  BY DEF SessionsFollow
<1>6. totp \in SUBSET SecretRecord
  BY SesFields
<1> HIDE DEF new, totp, old
<1>7. ses'.pair = new /\ ses'.revoked = ses.revoked /\ ses' \in SesRecord
  BY <1>4, <1>5, <1>6 DEF SesCore, SesRecord
<1>8. Pairs' = Pairs /\ Len(ses'.pair) = Len(ses.pair) /\ Len(ses.pair) \in Nat
  BY <1>1, <1>4, <1>7 DEF Pairs, old
<1> QED BY <1>2, <1>5, <1>7, <1>8 DEF SesCore, SesGrows, Tokens, old

LEMMA KeysFollowed ==
    ASSUME KeysInv, NEW gone, NEW owned \in BOOLEAN, KeysFollow(gone, owned)
    PROVE  KeysInv' /\ UNCHANGED <<cache, now, keyLog>>
<1> DEFINE new == [k \in Keys |-> IF keys[k].owner \notin gone THEN keys[k]
                                  ELSE [keys[k] EXCEPT !.owner = NoOne,
                                          !.there = ~(owned /\ keys[k].owner \in Services)]]
<1>1. Keys = 1..Len(keys) /\ Len(keys) \in Nat
  BY KeyFields
<1>2. \A k \in Keys : new[k] \in KeyRecord /\ new[k].secret = keys[k].secret
  BY KeyTypes DEF KeyRecord
<1>3. new \in [1..Len(keys) -> KeyRecord]
  BY <1>1, <1>2
<1>4. new \in Seq(KeyRecord) /\ Len(new) = Len(keys)
  BY <1>1, <1>3, FunctionIsSeq
<1>5. keys' = new /\ UNCHANGED <<cache, now, keyLog>>
  BY DEF KeysFollow
<1> HIDE DEF new
<1> QED BY <1>2, <1>4, <1>5, KeysWritten

\* The clock moves, and with it the good moment of every key that is good.
LEMMA TickServes ==
    ASSUME TypeInv, ServeInv, Tick
    PROVE  KeysInv' /\ ServeInv' /\ SessionsQuiet /\ UNCHANGED pool
<1>0. KeysInv /\ PoolInv /\ now \in Nat
  BY KeyFields DEF TypeInv
<1> DEFINE valid == keyLog.valid
           new == [s \in DOMAIN valid |-> IF Usable(valid[s].k, s)
                                          THEN [valid[s] EXCEPT !.at = now + 1] ELSE valid[s]]
<1>1. /\ now < MaxTime /\ now' = now + 1 /\ keyLog' = [keyLog EXCEPT !.valid = new]
      /\ UNCHANGED <<pool, keys, cache>> /\ SessionsQuiet
  BY DEF Tick
<1>2. /\ valid \in Seq(ValidRecord) /\ Len(valid) \in Nat /\ DOMAIN valid = 1..Len(valid)
      /\ \A x \in DOMAIN valid : /\ valid[x] \in ValidRecord /\ valid[x].at \in Nat
                                 /\ valid[x].at <= now
  <2>1. valid \in Seq(ValidRecord) /\ Len(valid) \in Nat /\ DOMAIN valid = 1..Len(valid)
    BY <1>0, KeyFields
  <2>2. \A x \in DOMAIN valid : valid[x].at \in Nat /\ valid[x].at <= now
    BY <1>0, TimeTypes DEF ServeInv
  <2>3. \A x \in DOMAIN valid : valid[x] \in ValidRecord
    BY <2>1, ElementOfSeq
  <2> QED BY <2>1, <2>2, <2>3
<1>3. /\ keyLog'.valid = new /\ keyLog'.late = keyLog.late /\ DOMAIN new = DOMAIN valid
      /\ keyLog.late \in Int
  BY <1>0, <1>1, KeyFields
<1> HIDE DEF valid
<1>4. \A x \in DOMAIN valid :
        /\ new[x] \in ValidRecord /\ new[x].k = valid[x].k
        /\ new[x].at = now + 1 \/ new[x].at = valid[x].at
  BY <1>0, <1>2 DEF ValidRecord
<1>5. new \in [1..Len(valid) -> ValidRecord]
  BY <1>2, <1>4
<1> HIDE DEF new
<1>6. new \in Seq(ValidRecord)
  BY <1>2, <1>5, FunctionIsSeq
<1>7. keyLog' \in [valid : Seq(ValidRecord), late : Int]
  BY <1>0, <1>1, <1>3, <1>6, KeyFields
<1>8. now' \in 0..MaxTime /\ now <= now'
  BY <1>0, <1>1, CredentialsAssumption
<1>9. KeysInv'
  <2>1. \A k \in Keys : /\ keys[k].secret \in DOMAIN keyLog'.valid
                        /\ keyLog'.valid[keys[k].secret].k = k
    BY <1>0, <1>3, <1>4 DEF KeysInv, valid
  <2>2. Keys' = Keys /\ keys' = keys /\ cache' = cache
    BY <1>1 DEF Keys
  <2> QED BY <1>0, <1>7, <1>8, <2>1, <2>2 DEF KeysInv, ValidRecord
<1>10. GoodMovesOn /\ \A x \in DOMAIN keyLog'.valid : keyLog'.valid[x].at <= now'
  <2>1. keyLog'.valid = new /\ DOMAIN new = DOMAIN valid /\ now \in Nat /\ now' = now + 1
    BY <1>0, <1>1, <1>3, CredentialsAssumption DEF KeysInv
  <2>2. \A x \in DOMAIN valid : valid[x].at \in Nat /\ valid[x].at <= now
    BY <1>2
  <2>3. \A x \in DOMAIN valid : new[x].at <= now + 1 /\ valid[x].at <= new[x].at
    BY <1>4, <2>1, <2>2
  <2> QED BY <2>1, <2>3 DEF GoodMovesOn, valid
<1>11. \A i \in DOMAIN cache' : EntryOK(cache[i])'
  BY <1>0, <1>1, <1>8, <1>9, <1>10, EntriesHold
<1>12. \A r \in Slots : req'[r].at \in LookupLabels => LookupOK(req[r])'
  <2>1. TAKE r \in Slots
  <2>2. req' = req
    BY <1>1 DEF pool
  <2> SUFFICES ASSUME req[r].at \in LookupLabels
               PROVE  LookupOK(req[r])'
    BY <2>2
  <2>3. LookupOK(req[r]) /\ req[r].since \in Nat
    BY LookupLocals DEF ServeInv
  <2>4. PICK l : l = req[r]
    OBVIOUS
  <2>5. LookupOK(l)'
    BY <1>0, <1>8, <1>9, <1>10, <2>3, <2>4, ServeKept
  <2> QED BY <2>2, <2>4, <2>5 DEF LookupOK
<1> QED BY <1>1, <1>3, <1>9, <1>10, <1>11, <1>12 DEF ServeInv

-----------------------------------------------------------------------------
(* Every step.                                                             *)

AccountsActs(q) ==
  \/ UserCalls(q) \/ MemberCalls(q) \/ ServiceCalls(q) \/ OrganizationCalls(q)
  \/ RoleCalls(q) \/ SeedOrganization(q) \/ AccountsStep(q)

LoginActs(q) ==
  \/ Login(q) \/ LoginCallback(q) \/ Authorize(q) \/ CodeGrant(q)
  \/ LoginRehash(q) \/ LoginSecondFactor(q) \/ LoginTotp(q) \/ LoginBackupCode(q)
  \/ LoginIssue(q) \/ LoginSave(q) \/ CallbackCreatesUser(q) \/ CallbackLinks(q)
  \/ ConsumeCode(q) \/ CodeIssue(q)

TokenActs(q) ==
  \/ RotateRefreshToken(q) \/ Logout(q)
  \/ RefreshReuse(q) \/ RefreshCascade(q) \/ CascadeConflict(q)
  \/ RefreshPrincipal(q) \/ RefreshIssue(q)
  \/ AuthenticateJwt(q) \/ LogoutAccess(q) \/ LogoutAll(q) \/ LogoutIssuedAt(q)
  \/ LogoutRefresh(q)

MfaActs(q) ==
  \/ SetupMfa(q) \/ VerifyMfa(q) \/ DisableMfa(q)
  \/ SetupMfaClear(q) \/ SetupMfaSave(q) \/ VerifyMfaFetch(q) \/ VerifyMfaEnable(q)
  \/ DisableMfaCheck(q) \/ DisableMfaDelete(q)

KeyActs(q) == KeyCalls(q) \/ KeySteps(q)

LookupActs(q) == AuthenticateApiKey(q) \/ ApiKeyPermissions(q) \/ CacheStore(q)

\* Which handler a step is of, and what it leaves alone.
LEMMA NextCases ==
    ASSUME Next
    PROVE  \/ \E q \in Slots : \/ AccountsActs(q) /\ SessionsFollow(Gone)
                                  /\ KeysFollow(Gone, begun' > begun)
                               \/ (LoginActs(q) \/ TokenActs(q) \/ MfaActs(q)) /\ KeysQuiet
                               \/ GrantIssue(q) \/ KeyActs(q) \/ LookupActs(q)
                               \/ Die(q) /\ SessionsQuiet /\ KeysQuiet
           \/ CodeExpires /\ KeysQuiet
           \/ Tick
<1>1. CASE AccountsNext /\ SessionsFollow(Gone) /\ KeysFollow(Gone, begun' > begun)
  BY <1>1 DEF AccountsNext, AccountsActs
<1>2. CASE SessionsNext /\ KeysQuiet
  BY <1>2 DEF SessionsNext, LoginActs, TokenActs, MfaActs
<1>3. CASE CredentialsNext
  BY <1>3 DEF CredentialsNext, KeyActs, LookupActs, KeyCalls, KeySteps
<1> QED BY <1>1, <1>2, <1>3 DEF Next

LEMMA FreeOK ==
    ASSUME NEW q, GoesOn(q) \/ (Goes(q) /\ req'[q].at = "seed.roles")
    PROVE  /\ Goes(q) /\ PairOK(req'[q])
           /\ req'[q].at \notin LookupLabels \cup MfaLabels \cup HasPair
BY DEF GoesOn, Delicate, PairOK, HasPair, LookupLabels, MfaLabels, RotationLabels, LogoutLabels

LEMMA Dies ==
    ASSUME PoolInv, NEW q \in Slots, Die(q)
    PROVE  /\ PoolInv' /\ req'[q] = Idle
           /\ \A r \in Slots : r # q => req'[r] = req[r]
<1>1. req' = [req EXCEPT ![q] = Idle] /\ DOMAIN req = Slots
  BY DEF Die, PoolInv
<1>2. \A r \in Slots : LocalsOK(req'[r])
  BY <1>1, IdleOK DEF PoolInv
<1>3. faults' \in 0..MaxFaults /\ mix' = mix /\ begun' = begun
  BY RequestAssumption DEF Die, PoolInv
<1> QED BY <1>1, <1>2, <1>3 DEF PoolInv

\* What the others know of pairs and keys, when the pool is as it was or less.
LEMMA PairsStill ==
    ASSUME SesInv, SesGrows, \A r \in Slots : req'[r] = req[r] \/ req'[r] = Idle
    PROVE  \A r \in Slots : PairOK(req[r])'
<1>1. ASSUME NEW l, PairOK(l)
      PROVE  /\ l.at \in HasPair => l.i \in Pairs'
             /\ l.at = "jwt.principal" /\ l.then \in MfaEntries => l.mfa = ses'.pair[l.i].sub
  BY <1>1 DEF PairOK, SesGrows, HasPair
<1>2. \A r \in Slots : PairOK(req'[r])
  BY IdleOK DEF SesInv, PairOK, Delicate, HasPair
<1> QED BY <1>1, <1>2 DEF PairOK

LEMMA AccStill ==
    ASSUME AccInv, Quiet
    PROVE  AccInv'
BY DEF AccInv, Quiet

LEMMA AccountsTyped ==
    ASSUME TypeInv, ServeInv, NEW q \in Slots, AccountsActs(q), SessionsFollow(Gone),
           KeysFollow(Gone, begun' > begun)
    PROVE  TypeInv' /\ ServeInv'
<1>0. PoolInv /\ SesInv /\ KeysInv /\ SesCore
  BY DEF TypeInv, SesInv
<1>1. AccInv' /\ (GoesOn(q) \/ (Goes(q) /\ req'[q].at = "seed.roles"))
  BY AccountsKeepAcc DEF AccountsActs
<1>2. Goes(q) /\ PairOK(req'[q]) /\ req'[q].at \notin LookupLabels
  BY <1>1, FreeOK
<1>3. PoolInv' /\ \A r \in Slots : r # q => req'[r] = req[r]
  BY <1>0, <1>2, OthersStay
<1>4. SesCore' /\ SesGrows
  BY <1>0, SessionsFollowed
<1>5. SesInv'
  BY <1>0, <1>2, <1>4, PairsHold DEF SesInv
<1>6. KeysInv' /\ UNCHANGED <<cache, now, keyLog>>
  <2>1. (begun' > begun) \in BOOLEAN
    OBVIOUS
  <2> QED BY <1>0, <2>1, KeysFollowed
<1>7. ServeInv'
  BY <1>2, <1>3, <1>6, ServeStill
<1> QED BY <1>1, <1>3, <1>5, <1>6, <1>7 DEF TypeInv

\* A handler of the sessions, or of the credentials' one that issues a pair.
LEMMA SessionsTyped ==
    ASSUME TypeInv, ServeInv, NEW q \in Slots,
           \/ (LoginActs(q) \/ TokenActs(q) \/ MfaActs(q)) /\ KeysQuiet
           \/ GrantIssue(q)
    PROVE  /\ TypeInv' /\ ServeInv' /\ KeysQuiet
           /\ Goes(q) /\ req'[q].at \notin LookupLabels /\ req'[q].at # "seed.roles"
<1>0. PoolInv /\ AccInv /\ SesInv /\ KeysInv /\ SesCore
  BY DEF TypeInv, SesInv
<1>1. KeysQuiet
  BY DEF GrantIssue
<1>2. /\ Goes(q) /\ PairOK(req'[q]) /\ req'[q].at \notin LookupLabels
      /\ req'[q].at # "seed.roles"
  <2>1. CASE LoginActs(q)
    BY <2>1, LoginGoes, FreeOK DEF LoginActs, GoesOn, Delicate
  <2>2. CASE TokenActs(q)
    BY <2>2, TokensGo DEF TokenActs
  <2>3. CASE MfaActs(q)
    BY <2>3, MfaGoes DEF MfaActs
  <2>4. CASE GrantIssue(q)
    BY <2>4, GrantGoes, FreeOK DEF GoesOn, Delicate
  <2> QED BY <2>1, <2>2, <2>3, <2>4
<1>3. AccInv' /\ SesCore' /\ SesGrows
  <2>1. CASE LoginActs(q)
    BY <2>1, LoginKeeps DEF LoginActs
  <2>2. CASE TokenActs(q)
    BY <2>2, TokensKeep DEF TokenActs
  <2>3. CASE MfaActs(q)
    BY <2>3, MfaKeeps DEF MfaActs
  <2>4. CASE GrantIssue(q)
    <3>1. Issue(q, "grant.issue", req[q].p, 0, 0, "grant.used")
      BY <2>4 DEF GrantIssue
    <3>2. req[q].p \in Principals
      BY <3>1, LocalsHold DEF Issue, At, HasPrincipal
    <3> QED BY <3>1, <3>2, IssueKeeps
  <2> QED BY <2>1, <2>2, <2>3, <2>4
<1>4. PoolInv' /\ \A r \in Slots : r # q => req'[r] = req[r]
  BY <1>0, <1>2, OthersStay
<1>5. SesInv'
  BY <1>0, <1>2, <1>3, PairsHold DEF SesInv
<1>6. KeysInv'
  BY <1>0, <1>1, KeysStill
<1>7. ServeInv'
  BY <1>1, <1>2, <1>4, ServeStill DEF KeysQuiet
<1> QED BY <1>1, <1>2, <1>3, <1>4, <1>5, <1>6, <1>7 DEF TypeInv

\* The other handlers of the credentials leave accounts and sessions alone.
LEMMA KeysTyped ==
    ASSUME TypeInv, ServeInv, NEW q \in Slots, KeyActs(q) \/ LookupActs(q)
    PROVE  /\ TypeInv' /\ ServeInv' /\ SessionsQuiet
           /\ Goes(q) /\ req'[q].at # "seed.roles"
<1>0. PoolInv /\ AccInv /\ SesInv /\ KeysInv /\ SesCore
  BY DEF TypeInv, SesInv
<1>1. /\ Goes(q) /\ PairOK(req'[q]) /\ req'[q].at # "seed.roles"
      /\ KeyActs(q) => req'[q].at \notin LookupLabels
  BY KeysGo, LookupsGo DEF KeyActs, LookupActs
<1>2. KeysInv' /\ ServeInv' /\ SessionsQuiet
  <2>1. CASE KeyActs(q)
    <3>1. KeysInv' /\ HandsOut /\ SessionsQuiet
      BY <2>1, KeysKeep DEF KeyActs
    <3> QED BY <1>1, <2>1, <3>1, HandsOutServe
  <2>2. CASE AuthenticateApiKey(q)
    <3>1. PICK s \in DOMAIN keyLog.valid :
            CacheLookup(q, keyLog.valid[s].k, s) \/ ReadApiKey(q, keyLog.valid[s].k, s)
      BY <2>2 DEF AuthenticateApiKey
    <3> QED BY <1>1, <3>1, LookupServes, ReadServes
  <2>3. CASE ApiKeyPermissions(q)
    BY <2>3, StampServes
  <2>4. CASE CacheStore(q)
    BY <1>1, <2>4, StoreServes
  <2> QED BY <2>1, <2>2, <2>3, <2>4 DEF LookupActs
<1>3. AccInv' /\ SesCore' /\ SesGrows
  BY <1>0, <1>2, AccStill, SesStill DEF SessionsQuiet
<1>4. PoolInv' /\ SesInv'
  BY <1>0, <1>1, <1>3, OthersStay, PairsHold DEF SesInv
<1> QED BY <1>1, <1>2, <1>3, <1>4 DEF TypeInv

LEMMA CodeExpiresTyped ==
    ASSUME TypeInv, ServeInv, CodeExpires, KeysQuiet
    PROVE  TypeInv' /\ ServeInv'
<1>0. PoolInv /\ AccInv /\ SesInv /\ KeysInv /\ SesCore
  BY DEF TypeInv, SesInv
<1>1. PICK c \in ses.code : ses' = [ses EXCEPT !.code = @ \ {c}] /\ UNCHANGED <<pool, sesLog>> /\ Quiet
  BY DEF CodeExpires
<1>2. SesCore' /\ SesGrows
  <2>1. ses.code \ {c} \in SUBSET (Principals \X Nat)
    BY <1>0, SesFields
  <2>2. ses' \in SesRecord /\ sesLog' \in SesLogRecord /\ ses'.revoked = ses.revoked
        /\ ses'.pair = ses.pair
    BY <1>0, <1>1, <2>1 DEF SesCore, SesRecord
  <2> QED BY <1>0, <1>1, <2>2, SesSet DEF SesSame, SesCore
<1>3. req' = req /\ PoolInv'
  BY <1>0, <1>1 DEF pool, PoolInv
<1>4. SesInv'
  BY <1>0, <1>2, <1>3, PairsStill DEF SesInv
<1> QED BY <1>0, <1>1, <1>3, <1>4, AccStill, KeysStill, ServeStill DEF TypeInv, KeysQuiet

LEMMA TickTyped ==
    ASSUME TypeInv, ServeInv, Tick
    PROVE  TypeInv' /\ ServeInv' /\ SessionsQuiet /\ UNCHANGED pool
<1>0. PoolInv /\ AccInv /\ SesInv /\ KeysInv /\ SesCore
  BY DEF TypeInv, SesInv
<1>1. KeysInv' /\ ServeInv' /\ SessionsQuiet /\ UNCHANGED pool
  BY TickServes
<1>2. AccInv' /\ SesCore' /\ SesGrows
  BY <1>0, <1>1, AccStill, SesStill DEF SessionsQuiet
<1>3. req' = req /\ PoolInv'
  BY <1>0, <1>1 DEF pool, PoolInv
<1>4. SesInv'
  BY <1>0, <1>2, <1>3, PairsStill DEF SesInv
<1> QED BY <1>1, <1>2, <1>3, <1>4 DEF TypeInv

LEMMA DieTyped ==
    ASSUME TypeInv, ServeInv, NEW q \in Slots, Die(q), SessionsQuiet, KeysQuiet
    PROVE  TypeInv' /\ ServeInv'
<1>0. PoolInv /\ AccInv /\ SesInv /\ KeysInv /\ SesCore
  BY DEF TypeInv, SesInv
<1>1. PoolInv' /\ \A r \in Slots : req'[r] = req[r] \/ req'[r] = Idle
  BY <1>0, Dies
<1>2. AccInv' /\ SesCore' /\ SesGrows
  BY <1>0, AccStill, SesStill DEF SessionsQuiet
<1>3. SesInv'
  BY <1>0, <1>1, <1>2, PairsStill DEF SesInv
<1>4. KeysInv' /\ ServeInv'
  BY <1>0, <1>1, KeysStill, ServeStill, IdleOK DEF KeysQuiet, Delicate
<1> QED BY <1>1, <1>2, <1>3, <1>4 DEF TypeInv

LEMMA NextTyped ==
    ASSUME TypeInv, ServeInv, [Next]_accessVars
    PROVE  TypeInv' /\ ServeInv'
<1>1. CASE Next
  <2>1. ASSUME NEW q \in Slots, AccountsActs(q), SessionsFollow(Gone),
               KeysFollow(Gone, begun' > begun)
        PROVE  TypeInv' /\ ServeInv'
    BY <2>1, AccountsTyped
  <2>2. ASSUME NEW q \in Slots, \/ (LoginActs(q) \/ TokenActs(q) \/ MfaActs(q)) /\ KeysQuiet
                                \/ GrantIssue(q)
        PROVE  TypeInv' /\ ServeInv'
    BY <2>2, SessionsTyped
  <2>3. ASSUME NEW q \in Slots, KeyActs(q) \/ LookupActs(q)
        PROVE  TypeInv' /\ ServeInv'
    BY <2>3, KeysTyped
  <2>4. ASSUME NEW q \in Slots, Die(q), SessionsQuiet, KeysQuiet
        PROVE  TypeInv' /\ ServeInv'
    BY <2>4, DieTyped
  <2> QED BY <1>1, <2>1, <2>2, <2>3, <2>4, NextCases, CodeExpiresTyped, TickTyped
<1>2. CASE UNCHANGED accessVars
  <2>1. PoolInv /\ AccInv /\ SesInv /\ KeysInv /\ SesCore
    BY DEF TypeInv, SesInv
  <2>2. Quiet /\ UNCHANGED <<ses, sesLog>> /\ KeysQuiet /\ req' = req /\ PoolInv'
    BY <1>2, <2>1 DEF accessVars, pool, Quiet, KeysQuiet, PoolInv
  <2>3. SesCore' /\ SesGrows
    BY <2>1, <2>2, SesStill
  <2>4. SesInv'
    BY <2>1, <2>2, <2>3, PairsStill DEF SesInv
  <2> QED BY <2>1, <2>2, <2>4, AccStill, KeysStill, ServeStill DEF TypeInv, KeysQuiet
<1> QED BY <1>1, <1>2

-----------------------------------------------------------------------------
(* The initial state.                                                      *)

LEMMA ListedOnce ==
    ASSUME NEW S, IsFiniteSet(S)
    PROVE  /\ Cardinality(S) \in Nat
           /\ Listed(S) \in [1..Cardinality(S) -> S]
           /\ \A a, b \in 1..Cardinality(S) : Listed(S)[a] = Listed(S)[b] => a = b
<1>1. Cardinality(S) \in Nat /\ ExistsBijection(1..Cardinality(S), S)
  BY FS_CardinalityType
<1>2. PICK f \in Bijection(1..Cardinality(S), S) : TRUE
  BY <1>1 DEF ExistsBijection
<1>3. f \in [1..Cardinality(S) -> S] /\ \A a, b \in DOMAIN f : f[a] = f[b] => a = b
  BY <1>2 DEF Bijection, Injection, IsInjective
<1>4. /\ Listed(S) \in [1..Cardinality(S) -> S]
      /\ \A a, b \in DOMAIN Listed(S) : Listed(S)[a] = Listed(S)[b] => a = b
  BY <1>3 DEF Listed
<1> QED BY <1>1, <1>4

LEMMA InitAcc ==
    ASSUME AccInit
    PROVE  AccInv
<1> DEFINE pw == CHOOSE x \in Passwords : TRUE
           node == [p \in Principals |->
                      IF p \in Users THEN Node(TRUE, pw) ELSE Node(TRUE, NoPassword)]
           none == [p \in Principals |-> NoNode]
           edges == {[p |-> p, o |-> SeedOrg, role |-> SeedRole, n |-> 0] : p \in Principals}
           role(seeded) == [r \in Roles |-> IF seeded /\ r = SeedRole THEN Role(TRUE, TRUE)
                                            ELSE NoRole]
<1>1. pw \in Passwords
  BY AccountsAssumption
<1>2. PICK seeded \in BOOLEAN :
        /\ acc = [node |-> IF seeded THEN node ELSE none,
                  edge |-> IF seeded THEN edges ELSE {},
                  org |-> IF seeded THEN {SeedOrg} ELSE {},
                  role |-> role(seeded),
                  perm |-> IF seeded THEN {SeedPerm} ELSE {OldPerm},
                  grant |-> IF seeded THEN {<<SeedRole, SeedPerm>>} ELSE {}]
        /\ accLog = [want |-> acc.node, stale |-> {}, raced |-> {}, reached |-> {},
                     seeded |-> seeded]
  BY DEF AccInit
<1> HIDE DEF pw
<1>3. node \in [Principals -> NodeRecord] /\ none \in [Principals -> NodeRecord]
  BY <1>1 DEF Node, NoNode, NodeRecord
<1>4. /\ \A p \in Principals : node[p].there
      /\ \A p \in Principals : none[p].active = FALSE
  BY DEF Node, NoNode
<1>5. edges \in SUBSET EdgeRecord /\ \A e \in edges : e.o = SeedOrg /\ e.p \in Principals
                                                     /\ e.role = SeedRole
  BY AccountsAssumption DEF EdgeRecord
<1>6. IsFiniteSet(edges)
  <2> DEFINE h == [p \in Principals |-> [p |-> p, o |-> SeedOrg, role |-> SeedRole, n |-> 0]]
  <2>1. h \in Surjection(Principals, edges)
    BY DEF Surjection
  <2>2. IsFiniteSet(Principals)
    BY AccountsAssumption, FS_Union DEF Principals
  <2> QED BY <2>1, <2>2, FS_Surjection DEF ExistsSurjection
<1>7. role(seeded) \in [Roles -> RoleRecord] /\ (seeded => role(seeded)[SeedRole].there)
  BY AccountsAssumption DEF Role, NoRole, RoleRecord
<1> HIDE DEF node, none, edges, role
<1>8. acc.node \in [Principals -> NodeRecord] /\ acc \in AccRecord /\ accLog \in AccLogRecord
  BY <1>2, <1>3, <1>5, <1>7, AccountsAssumption DEF AccRecord, AccLogRecord
<1>9. IsFiniteSet(acc.edge)
  BY <1>2, <1>6, FS_EmptySet
<1>10. \A p \in Principals : acc.node[p].active => acc.node[p].there
  BY <1>2, <1>4
<1>11. \A e \in acc.edge : e.o \in acc.org /\ acc.node[e.p].there
  BY <1>2, <1>4, <1>5
<1>12. \A g \in acc.grant : acc.role[g[1]].there /\ g[2] \in acc.perm
  BY <1>2, <1>7
<1> QED BY <1>8, <1>9, <1>10, <1>11, <1>12 DEF AccInv

LEMMA InitTyped ==
    ASSUME Init
    PROVE  TypeInv /\ ServeInv
<1> DEFINE S == {p \in Principals : Exists(p)}
           n == Cardinality(S)
           of == Listed(S)
<1>1. AccInv
  BY InitAcc DEF Init
<1>2. S \subseteq Principals /\ IsFiniteSet(S)
  BY AccountsAssumption, FS_Union, FS_Subset DEF Principals
<1> HIDE DEF S
<1>3. n \in Nat /\ of \in [1..n -> S]
  BY <1>2, ListedOnce
<1> HIDE DEF n, of
<1>4. \A i \in 1..n : of[i] \in Principals
  BY <1>2, <1>3
<1>5. PoolInv
  <2>1. \A q \in Slots : req[q] = Idle
    BY DEF Init, PoolInit
  <2>2. MaxBegun[mix] \in Nat /\ MaxFaults \in Nat
    BY RequestAssumption DEF Init, PoolInit
  <2> QED BY <2>1, <2>2, IdleOK DEF PoolInv, Init, PoolInit
<1>6. SesInv
  <2> DEFINE pair == [i \in 1..n |-> [sub |-> of[i], owner |-> of[i], family |-> i]]
             from == [i \in 1..n |-> 0]
             root == [i \in 1..n |-> i]
  <2>1. /\ ses = [pair |-> pair, revoked |-> {}, totp |-> {}, code |-> {}]
        /\ sesLog = [from |-> from, root |-> root, used |-> <<>>, made |-> 0, cascaded |-> {},
                     spared |-> {}, out |-> {}, verified |-> {}, overlap |-> {}]
    BY DEF Init, SesInit, S, n, of
  <2>2. pair \in [1..n -> PairRecord] /\ from \in [1..n -> Nat] /\ root \in [1..n -> Nat]
    BY <1>3, <1>4 DEF PairRecord
  <2>3. /\ pair \in Seq(PairRecord) /\ Len(pair) = n
        /\ from \in Seq(Nat) /\ Len(from) = n
        /\ root \in Seq(Nat) /\ Len(root) = n
    BY <1>3, <2>2, FunctionIsSeq
  <2>4. \A i \in 1..n : pair[i].family = i
    OBVIOUS
  <2> HIDE DEF pair, from, root
  <2>5. ses \in SesRecord /\ sesLog \in SesLogRecord
    BY <2>1, <2>3 DEF SesRecord, SesLogRecord
  <2>6. Pairs = 1..n
    BY <2>1, <2>3 DEF Pairs
  <2>7. SesCore
    BY <2>1, <2>3, <2>4, <2>5, <2>6 DEF SesCore
  <2>8. \A q \in Slots : req[q] = Idle
    BY DEF Init, PoolInit
  <2> QED BY <2>7, <2>8, IdleOK DEF SesInv, PairOK, Delicate, HasPair
<1>7. KeysInv /\ ServeInv
  <2> DEFINE new == [k \in 1..n |-> Key("api", of[k], k)]
             valid == [k \in 1..n |-> [k |-> k, at |-> 0]]
  <2>1. keys = new /\ cache = <<>> /\ now = 0 /\ keyLog = [valid |-> valid, late |-> 0]
    BY DEF Init, KeysInit, S, n, of
  <2>2. new \in [1..n -> KeyRecord] /\ valid \in [1..n -> ValidRecord]
    BY <1>3, <1>4 DEF Key, KeyRecord, ValidRecord
  <2>3. new \in Seq(KeyRecord) /\ Len(new) = n /\ valid \in Seq(ValidRecord) /\ Len(valid) = n
    BY <1>3, <2>2, FunctionIsSeq
  <2>4. \A k \in 1..n : new[k].secret = k /\ valid[k].k = k /\ valid[k].at = 0
    BY DEF Key
  <2>5. DOMAIN new = 1..n /\ DOMAIN valid = 1..n
    OBVIOUS
  <2> HIDE DEF new, valid
  <2>6. keyLog \in [valid : Seq([k : Nat, at : Nat]), late : Int]
    BY <2>1, <2>3 DEF ValidRecord
  <2>7. cache \in Seq(EntryRecord) /\ Len(cache) = 0 /\ DOMAIN cache = {}
    BY <2>1
  <2>8. KeysInv
    BY <2>1, <2>3, <2>4, <2>5, <2>6, <2>7, CredentialsAssumption DEF KeysInv, Keys
  <2>9. \A q \in Slots : req[q] = Idle
    BY DEF Init, PoolInit
  <2> QED BY <2>1, <2>4, <2>5, <2>7, <2>8, <2>9, IdleOK, CredentialsAssumption
          DEF ServeInv, Delicate
<1> QED BY <1>1, <1>5, <1>6, <1>7 DEF TypeInv

LEMMA Typed == Spec => [](TypeInv /\ ServeInv)
<1>1. Init => TypeInv /\ ServeInv
  BY InitTyped
<1>2. TypeInv /\ ServeInv /\ [Next]_accessVars => (TypeInv /\ ServeInv)'
  BY NextTyped
<1> QED BY <1>1, <1>2, PTL DEF Spec

\* Every record the handlers keep is what the code says it is: principals'
\* nodes, the memberships between nodes that are there, the grants of roles
\* that are there, the pairs and their families, the keys and the cache that
\* never holds more than its limit (users.py, roles.py, auth.py,
\* permissions.py), whoever writes beside whom.
THEOREM AccessTyped == Spec => []TypeOK
<1>1. TypeInv /\ ServeInv => TypeOK
  <2> SUFFICES ASSUME TypeInv, ServeInv
               PROVE  TypeOK
    OBVIOUS
  <2>0. PoolInv /\ AccInv /\ SesInv /\ KeysInv /\ SesCore
    BY DEF TypeInv, SesInv
  <2>1. PoolTypeOK
    BY <2>0 DEF PoolInv, PoolTypeOK
  <2>2. AccTypeOK
    <3>1. acc.edge \subseteq [p : Principals, o : acc.org, role : Roles, n : Nat]
      BY <2>0, AccFields DEF AccInv, EdgeRecord
    <3>2. acc.grant \subseteq {r \in Roles : acc.role[r].there} \X acc.perm
      BY <2>0, AccFields DEF AccInv
    <3> QED BY <2>0, <3>1, <3>2, AccFields
            DEF AccInv, AccTypeOK, Exists, NodeRecord, RoleRecord
  <2>3. SesTypeOK
    <3>1. \A i \in Pairs : /\ ses.pair[i].sub \in Principals
                           /\ ses.pair[i].owner \in Principals \cup {NoOne}
                           /\ ses.pair[i].family \in Pairs
      BY <2>0, PairTypes DEF PairRecord
    <3>2. \A t \in ses.totp : t.u \in Users /\ t.on \in BOOLEAN
      BY <2>0, SesFields DEF SecretRecord
    <3> QED BY <2>0, <3>1, <3>2 DEF SesTypeOK, SesCore
  <2>4. KeysTypeOK
    BY <2>0, KeyTypes DEF KeysTypeOK, KeysInv
  <2> QED BY <2>1, <2>2, <2>3, <2>4 DEF TypeOK
<1> QED BY <1>1, Typed, PTL

\* An API key that lets a caller in was good no longer ago than the cache of
\* verified keys keeps it, counted from the read that found it good: neither a
\* revocation, nor a rotation, nor the owner's deactivation or deletion is
\* outlived by more (permissions.py:506-508, :588, :613).
THEOREM KeysServedWereGood == Spec => []ServedWasGood
<1>1. ServeInv => ServedWasGood
  BY DEF ServeInv, ServedWasGood
<1> QED BY <1>1, Typed, PTL

-----------------------------------------------------------------------------
(* Rotations, chains and logouts.                                          *)

Rotates(l, i) == l.at \in RotationLabels /\ l.i = i

\* Something of i's chain, made no later, goes back to a spared rotation.
ContinuesSpared(i) == \E j \in Pairs :
  /\ sesLog.from[j] \in sesLog.spared
  /\ Root(j) = Root(i) /\ j <= i

\* A refresh token brings one pair: it is revoked as the rotation begins, and
\* only the request that revoked it goes on.
RotationInv ==
  /\ \A q \in Slots, i \in Pairs : Rotates(req[q], i) =>
       /\ Revoked(i, "refresh")
       /\ \A j \in Pairs : sesLog.from[j] # i
       /\ \A r \in Slots : Rotates(req[r], i) => r = q
  /\ \A j \in Pairs : sesLog.from[j] # 0 =>
       /\ sesLog.from[j] \in Pairs /\ sesLog.from[j] < j
       /\ Revoked(sesLog.from[j], "refresh")
  /\ \A i, j \in Pairs : sesLog.from[i] = sesLog.from[j] /\ sesLog.from[i] # 0 => i = j

\* A family is a chain, and what a cascade left alive goes back to a rotation
\* it spared.
ChainInv ==
  /\ \A i \in Pairs : ses.pair[i].family = Root(i)
  /\ \A j \in Pairs : sesLog.from[j] # 0 => Root(sesLog.from[j]) = Root(j)
  /\ sesLog.cascaded \subseteq Pairs
  /\ CascadeReachesTheChain
  /\ \A q \in Slots, i \in Pairs :
       Rotates(req[q], i) /\ Root(i) \in sesLog.cascaded =>
         i \in sesLog.spared \/ ContinuesSpared(i)

\* What a logout has ended is dead, and no rotation of it is in flight.
LogoutInv ==
  /\ sesLog.out \subseteq Pairs /\ LogoutHolds
  /\ \A q \in Slots, i \in sesLog.out : ~Rotates(req[q], i)
  /\ \A q \in Slots : req[q].at \in LogoutLabels => Revoked(req[q].i, "access")

TokenInv == RotationInv /\ ChainInv /\ LogoutInv

\* No pair is made, no rotation begins, nothing is cascaded or logged out.
ChainsStay ==
  /\ SesGrows /\ Pairs' = Pairs
  /\ sesLog'.cascaded = sesLog.cascaded /\ sesLog'.spared = sesLog.spared
  /\ sesLog'.out = sesLog.out
  /\ \A r \in Slots, i \in Pairs : Rotates(req'[r], i) => Rotates(req[r], i)
  /\ \A r \in Slots : req'[r].at \in LogoutLabels => <<req'[r].i, "access">> \in ses'.revoked

LEMMA RotationStays ==
    ASSUME SesCore, RotationInv, SesGrows, Pairs' = Pairs,
           \A r \in Slots, i \in Pairs : Rotates(req'[r], i) => Rotates(req[r], i)
    PROVE  RotationInv'
BY DEF RotationInv, SesGrows, Rotates, Revoked

\* Less is alive; the rest is as it was.
LEMMA CascadesStay ==
    ASSUME ChainInv, SesGrows, Pairs' = Pairs,
           sesLog'.cascaded = sesLog.cascaded, sesLog'.spared = sesLog.spared
    PROVE  CascadeReachesTheChain' /\ \A i \in Pairs : ContinuesSpared(i) => ContinuesSpared(i)'
<1>1. \A i \in Pairs : ContinuesSpared(i) => ContinuesSpared(i)'
  BY DEF ContinuesSpared, SesGrows, Root
<1>2. \A i \in Pairs : Live(i)' => Live(i)
  BY DEF Live, Revoked, SesGrows
<1>3. \A i \in Pairs : Root(i)' = Root(i)
  BY DEF Root, SesGrows
<1>4. \A i \in Pairs : Root(i) \in sesLog.cascaded /\ Live(i) => ContinuesSpared(i)
  BY DEF ChainInv, CascadeReachesTheChain, ContinuesSpared
<1>5. \A i \in Pairs : Root(i)' \in sesLog'.cascaded /\ Live(i)' => ContinuesSpared(i)'
  BY <1>1, <1>2, <1>3, <1>4
<1> QED BY <1>1, <1>5 DEF CascadeReachesTheChain, ContinuesSpared

LEMMA ChainStays ==
    ASSUME SesCore, RotationInv, ChainInv, ChainsStay
    PROVE  ChainInv'
<1>1. CascadeReachesTheChain' /\ \A i \in Pairs : ContinuesSpared(i) => ContinuesSpared(i)'
  BY CascadesStay DEF ChainsStay
<1>2. \A i \in Pairs : ses'.pair[i].family = sesLog'.root[i]
  BY DEF ChainInv, ChainsStay, SesGrows, Root
<1>3. \A j \in Pairs : sesLog'.from[j] # 0 => sesLog'.root[sesLog'.from[j]] = sesLog'.root[j]
  BY DEF RotationInv, ChainInv, ChainsStay, SesGrows, Root
<1>4. \A q \in Slots, i \in Pairs :
        Rotates(req'[q], i) /\ Root(i)' \in sesLog'.cascaded =>
          i \in sesLog'.spared \/ ContinuesSpared(i)'
  BY <1>1 DEF ChainInv, ChainsStay, SesGrows, Root
<1> QED BY <1>1, <1>2, <1>3, <1>4 DEF ChainInv, ChainsStay, Root, Rotates

LEMMA LogoutStays ==
    ASSUME SesCore, LogoutInv, ChainsStay
    PROVE  LogoutInv'
<1>1. \A i \in Pairs : Live(i)' => Live(i)
  BY DEF Live, Revoked, SesGrows, ChainsStay
<1>2. LogoutHolds'
  BY <1>1 DEF LogoutInv, LogoutHolds, ChainsStay, SesGrows
<1>3. \A q \in Slots, i \in sesLog'.out : ~Rotates(req'[q], i)
  BY DEF LogoutInv, ChainsStay
<1> QED BY <1>2, <1>3 DEF LogoutInv, ChainsStay, Rotates, Revoked

LEMMA TokensStay ==
    ASSUME SesCore, TokenInv, ChainsStay
    PROVE  TokenInv'
BY RotationStays, ChainStays, LogoutStays DEF TokenInv, ChainsStay

\* A pair is added: of a chain of its own, or the one that q's rotation brings.
PairAdded(q, n, from) ==
  /\ n = Len(ses.pair) + 1 /\ Pairs' = Pairs \cup {n} /\ SesGrows
  /\ sesLog'.from[n] = from
  /\ sesLog'.root[n] = IF from = 0 THEN n ELSE sesLog.root[from]
  /\ ses'.pair[n].family = sesLog'.root[n]
  /\ ses'.revoked = ses.revoked
  /\ sesLog'.cascaded = sesLog.cascaded /\ sesLog'.spared = sesLog.spared
  /\ sesLog'.out = sesLog.out
  /\ \A r \in Slots : r # q => req'[r] = req[r]
  /\ req'[q].at \notin RotationLabels \cup LogoutLabels

LEMMA RotationAdds ==
    ASSUME SesInv, RotationInv, NEW q \in Slots, NEW n, NEW from, PairAdded(q, n, from),
           from = 0 \/ (from \in Pairs /\ Rotates(req[q], from))
    PROVE  RotationInv'
<1>1. /\ n \in Nat \ {0} /\ n \notin Pairs /\ \A i \in Pairs : i \in Nat \ {0} /\ i < n
  <2>1. Len(ses.pair) \in Nat /\ Pairs = 1..Len(ses.pair)
    BY SesFields DEF SesInv, Pairs
  <2> QED BY <2>1 DEF PairAdded
<1>2. \A r \in Slots, i \in Pairs' : Rotates(req'[r], i) => i \in Pairs /\ r # q /\ Rotates(req[r], i)
  <2>1. TAKE r \in Slots, i \in Pairs'
  <2>2. HAVE Rotates(req'[r], i)
  <2>3. r # q /\ req'[r] = req[r]
    BY <2>2 DEF PairAdded, Rotates
  <2>4. i \in Pairs
    BY <2>2, <2>3 DEF SesInv, PairOK, HasPair, Rotates
  <2> QED BY <2>2, <2>3, <2>4
<1>3. \A i \in Pairs : sesLog'.from[i] = sesLog.from[i]
  BY DEF PairAdded, SesGrows
<1>4. ASSUME NEW r \in Slots, NEW i \in Pairs', Rotates(req'[r], i)
      PROVE  /\ <<i, "refresh">> \in ses'.revoked
             /\ \A j \in Pairs' : sesLog'.from[j] # i
             /\ \A s \in Slots : Rotates(req'[s], i) => s = r
  <2>1. i \in Pairs /\ r # q /\ Rotates(req[r], i)
    BY <1>2, <1>4
  <2>2. /\ <<i, "refresh">> \in ses.revoked
        /\ \A j \in Pairs : sesLog.from[j] # i
        /\ \A s \in Slots : Rotates(req[s], i) => s = r
    BY <2>1 DEF RotationInv, Revoked
  <2>3. from # i
    BY <1>1, <2>1, <2>2
  <2> QED BY <1>2, <1>3, <2>2, <2>3 DEF PairAdded
<1>5. ASSUME NEW j \in Pairs', sesLog'.from[j] # 0
      PROVE  /\ sesLog'.from[j] \in Pairs' /\ sesLog'.from[j] < j
             /\ <<sesLog'.from[j], "refresh">> \in ses'.revoked
  <2>1. CASE j \in Pairs
    BY <1>3, <1>5, <2>1 DEF RotationInv, Revoked, PairAdded
  <2>2. CASE j = n
    <3>1. from \in Pairs /\ Rotates(req[q], from) /\ sesLog'.from[j] = from
      BY <1>5, <2>2 DEF PairAdded
    <3>2. <<from, "refresh">> \in ses.revoked
      BY <3>1 DEF RotationInv, Revoked
    <3> QED BY <1>1, <2>2, <3>1, <3>2 DEF PairAdded
  <2> QED BY <2>1, <2>2 DEF PairAdded
<1>6. ASSUME NEW i \in Pairs', NEW j \in Pairs', sesLog'.from[i] = sesLog'.from[j],
             sesLog'.from[i] # 0
      PROVE  i = j
  <2>1. \A k \in Pairs : from # 0 => sesLog.from[k] # from
    BY DEF RotationInv
  <2> QED BY <1>3, <1>6, <2>1 DEF PairAdded, RotationInv
<1> QED BY <1>4, <1>5, <1>6 DEF RotationInv, Revoked, Rotates

LEMMA ChainAdds ==
    ASSUME SesInv, RotationInv, ChainInv, NEW q \in Slots, NEW n, NEW from,
           PairAdded(q, n, from), from = 0 \/ (from \in Pairs /\ Rotates(req[q], from))
    PROVE  ChainInv'
<1>1. /\ n \in Nat \ {0} /\ n \notin Pairs /\ \A i \in Pairs : i \in Nat \ {0} /\ i < n
  <2>1. Len(ses.pair) \in Nat /\ Pairs = 1..Len(ses.pair)
    BY SesFields DEF SesInv, Pairs
  <2> QED BY <2>1 DEF PairAdded
<1>2. /\ Pairs' = Pairs \cup {n}
      /\ \A i \in Pairs : /\ sesLog'.from[i] = sesLog.from[i] /\ sesLog'.root[i] = sesLog.root[i]
                          /\ ses'.pair[i].family = ses.pair[i].family
      /\ sesLog'.cascaded = sesLog.cascaded /\ sesLog'.spared = sesLog.spared
      /\ sesLog'.from[n] = from
      /\ sesLog'.root[n] = IF from = 0 THEN n ELSE sesLog.root[from]
  BY DEF PairAdded, SesGrows
<1>3. \A i \in Pairs' : ses'.pair[i].family = sesLog'.root[i]
  BY <1>2 DEF PairAdded, ChainInv, Root
<1>4. \A j \in Pairs' : sesLog'.from[j] # 0 => sesLog'.root[sesLog'.from[j]] = sesLog'.root[j]
  BY <1>1, <1>2 DEF RotationInv, ChainInv, Root
<1>5. \A i \in Pairs : ContinuesSpared(i) => ContinuesSpared(i)'
  BY <1>2 DEF ContinuesSpared, Root
<1>6. \A i \in Pairs' : sesLog'.root[i] \in sesLog'.cascaded /\ Live(i)' => ContinuesSpared(i)'
  <2>1. \A i \in Pairs : Live(i)' => Live(i)
    BY DEF PairAdded, Live, Revoked
  <2>2. \A i \in Pairs : Root(i) \in sesLog.cascaded /\ Live(i) => ContinuesSpared(i)
    BY DEF ChainInv, CascadeReachesTheChain, ContinuesSpared
  <2>3. CASE from = 0
    <3>1. sesLog'.root[n] \notin sesLog'.cascaded
      BY <1>1, <1>2, <2>3 DEF ChainInv
    <3> QED BY <1>2, <1>5, <2>1, <2>2, <3>1 DEF Root
  <2>4. CASE from # 0
    <3>1. from \in Pairs /\ Rotates(req[q], from) /\ from < n
      BY <1>1, <2>4
    <3>2. Root(from) \in sesLog.cascaded => from \in sesLog.spared \/ ContinuesSpared(from)
      BY <3>1 DEF ChainInv
    <3>3. sesLog'.root[n] \in sesLog'.cascaded => ContinuesSpared(n)'
      <4>1. HAVE sesLog'.root[n] \in sesLog'.cascaded
      <4>2. Root(from) \in sesLog.cascaded
        BY <1>2, <2>4, <4>1 DEF Root
      <4>3. CASE from \in sesLog.spared
        <5>1. n \in Pairs' /\ sesLog'.from[n] \in sesLog'.spared /\ n <= n
          BY <1>1, <1>2, <4>3
        <5> QED BY <5>1 DEF ContinuesSpared, Root
      <4>4. CASE ContinuesSpared(from)
        <5>1. PICK j \in Pairs : /\ sesLog.from[j] \in sesLog.spared
                                 /\ Root(j) = Root(from) /\ j <= from
          BY <4>4 DEF ContinuesSpared
        <5>2. j \in Pairs' /\ j <= n
          BY <1>1, <1>2, <3>1, <5>1
        <5> QED BY <1>2, <2>4, <5>1, <5>2 DEF ContinuesSpared, Root
      <4> QED BY <3>2, <4>2, <4>3, <4>4
    <3> QED BY <1>2, <1>5, <2>1, <2>2, <3>3 DEF Root
  <2> QED BY <2>3, <2>4
<1>7. \A r \in Slots, i \in Pairs' :
        Rotates(req'[r], i) /\ sesLog'.root[i] \in sesLog'.cascaded =>
          i \in sesLog'.spared \/ ContinuesSpared(i)'
  <2>1. TAKE r \in Slots, i \in Pairs'
  <2>2. HAVE Rotates(req'[r], i) /\ sesLog'.root[i] \in sesLog'.cascaded
  <2>3. r # q /\ req'[r] = req[r]
    BY <2>2 DEF PairAdded, Rotates
  <2>4. i \in Pairs
    BY <2>2, <2>3 DEF SesInv, PairOK, HasPair, Rotates
  <2> QED BY <1>2, <1>5, <2>2, <2>3, <2>4 DEF ChainInv, Root
<1> QED BY <1>2, <1>3, <1>4, <1>6, <1>7
        DEF ChainInv, Root, Rotates, CascadeReachesTheChain, ContinuesSpared

LEMMA LogoutAdds ==
    ASSUME SesInv, RotationInv, LogoutInv, NEW q \in Slots, NEW n, NEW from,
           PairAdded(q, n, from), from = 0 \/ (from \in Pairs /\ Rotates(req[q], from))
    PROVE  LogoutInv'
<1>1. n \notin Pairs /\ 0 \notin Pairs
  <2>1. Len(ses.pair) \in Nat /\ Pairs = 1..Len(ses.pair)
    BY SesFields DEF SesInv, Pairs
  <2> QED BY <2>1 DEF PairAdded
<1>2. \A i \in sesLog.out : i \in Pairs /\ from # i
  BY <1>1 DEF LogoutInv
<1>3. \A i \in Pairs : Live(i)' => Live(i)
  BY DEF Live, Revoked, PairAdded
<1>4. LogoutHolds'
  BY <1>2, <1>3 DEF LogoutInv, LogoutHolds, PairAdded, SesGrows
<1>5. \A r \in Slots, i \in sesLog'.out : ~Rotates(req'[r], i)
  BY DEF LogoutInv, PairAdded, Rotates
<1>6. \A r \in Slots : req'[r].at \in LogoutLabels => <<req'[r].i, "access">> \in ses'.revoked
  BY DEF LogoutInv, PairAdded, Revoked
<1> QED BY <1>2, <1>4, <1>5, <1>6 DEF LogoutInv, PairAdded, Rotates, Revoked

LEMMA TokensAdd ==
    ASSUME SesInv, TokenInv, NEW q \in Slots, NEW n, NEW from,
           PairAdded(q, n, from), from = 0 \/ (from \in Pairs /\ Rotates(req[q], from))
    PROVE  TokenInv'
BY RotationAdds, ChainAdds, LogoutAdds DEF TokenInv

LEMMA IssueAdds ==
    ASSUME TypeInv, TokenInv, NEW q \in Slots, NEW label, NEW p \in Principals, NEW family,
           NEW from, NEW then, Issue(q, label, p, family, from, then), GoesOn(q),
           \/ from = 0 /\ family = 0
           \/ from \in Pairs /\ family = ses.pair[from].family /\ Rotates(req[q], from)
    PROVE  TokenInv'
<1>0. PoolInv /\ SesInv /\ SesCore
  BY DEF TypeInv, SesInv
<1>1. /\ \A r \in Slots : r # q => req'[r] = req[r]
      /\ req'[q].at \notin RotationLabels \cup LogoutLabels
  BY <1>0, OthersStay DEF GoesOn, Delicate, HasPair
<1>2. family \in {0} \cup Pairs /\ from \in {0} \cup Pairs
  BY <1>0, PairTypes
<1>3. SesCore' /\ SesGrows
  BY <1>2, IssueKeeps
<1>4. CASE Exists(p)
  <2> DEFINE n == Len(ses.pair) + 1
             pair == [sub |-> p, owner |-> p, family |-> IF family = 0 THEN n ELSE family]
             root == IF from = 0 THEN n ELSE sesLog.root[from]
  <2>1. /\ ses' = [ses EXCEPT !.pair = Append(ses.pair, pair)]
        /\ sesLog' = [sesLog EXCEPT !.from = Append(sesLog.from, from),
                                    !.root = Append(sesLog.root, root)]
    BY <1>4 DEF Issue
  <2>2. /\ n \in Nat \ {0} /\ pair \in PairRecord /\ from \in Nat /\ root \in Nat
        /\ pair.family = IF family = 0 THEN n ELSE family
    <3>1. n \in Nat \ {0} /\ family \in Nat /\ from \in Nat
      BY <1>0, <1>2, SesFields
    <3>2. root \in Nat
      BY <1>0, <1>2, <3>1, SesFields
    <3> QED BY <3>1, <3>2 DEF PairRecord
  <2>3. root = IF family = 0 THEN n ELSE family
    BY <1>0, <1>2, PairTypes DEF TokenInv, ChainInv, Root
  <2> HIDE DEF pair, root
  <2>4. /\ ses'.pair = Append(ses.pair, pair) /\ ses'.revoked = ses.revoked
        /\ sesLog'.from = Append(sesLog.from, from) /\ sesLog'.root = Append(sesLog.root, root)
        /\ sesLog'.cascaded = sesLog.cascaded /\ sesLog'.spared = sesLog.spared
        /\ sesLog'.out = sesLog.out
    BY <1>0, <2>1 DEF SesCore, SesRecord, SesLogRecord
  <2>5. /\ ses.pair \in Seq(PairRecord) /\ sesLog.from \in Seq(Nat) /\ sesLog.root \in Seq(Nat)
        /\ Len(sesLog.from) = Len(ses.pair) /\ Len(sesLog.root) = Len(ses.pair)
    BY <1>0, SesFields DEF SesCore
  <2>6. Len(ses'.pair) = n /\ ses'.pair[n] = pair
    BY <2>2, <2>4, <2>5, AppendAt
  <2>7. sesLog'.from[n] = from /\ sesLog'.root[n] = root
    <3> DEFINE f == sesLog.from
               g == sesLog.root
    <3>1. f \in Seq(Nat) /\ g \in Seq(Nat) /\ n = Len(f) + 1 /\ n = Len(g) + 1
      BY <2>5
    <3>2. sesLog'.from = Append(f, from) /\ sesLog'.root = Append(g, root)
      BY <2>4
    <3> HIDE DEF f, g, n
    <3>3. Append(f, from)[Len(f) + 1] = from /\ Append(g, root)[Len(g) + 1] = root
      BY <2>2, <3>1, AppendAt
    <3> QED BY <3>1, <3>2, <3>3
  <2>8. Pairs' = Pairs \cup {n}
    <3>1. Len(ses.pair) \in Nat /\ 1..(Len(ses.pair) + 1) = 1..Len(ses.pair) \cup {Len(ses.pair) + 1}
      BY <1>0, SesFields
    <3> QED BY <2>6, <3>1 DEF Pairs
  <2>9. PairAdded(q, n, from)
    BY <1>1, <1>3, <2>2, <2>3, <2>4, <2>6, <2>7, <2>8 DEF PairAdded, root
  <2> HIDE DEF n
  <2> QED BY <1>0, <2>9, TokensAdd
<1>5. CASE ~Exists(p)
  <2>1. UNCHANGED <<ses, sesLog>>
    BY <1>5 DEF Issue, Pause
  <2>2. ChainsStay
    BY <1>1, <1>3, <2>1 DEF ChainsStay, Rotates, TokenInv, LogoutInv, Revoked, Pairs
  <2> QED BY <1>0, <2>2, TokensStay
<1> QED BY <1>4, <1>5

\* The rotation of an unspent token begins: only this request revokes it.
LEMMA RotationStarts ==
    ASSUME TypeInv, TokenInv, NEW q \in Slots, NEW i \in Pairs, ~Revoked(i, "refresh"),
           SesGrows, Pairs' = Pairs, ses'.revoked = ses.revoked \cup {<<i, "refresh">>},
           sesLog' = sesLog, \A r \in Slots : r # q => req'[r] = req[r],
           req'[q].at = "refresh.principal", req'[q].i = i
    PROVE  TokenInv'
<1>0. SesInv /\ SesCore
  BY DEF TypeInv, SesInv
<1>1. \A j \in Pairs : sesLog.from[j] # i
  BY <1>0, SesFields DEF TokenInv, RotationInv
<1>2. \A r \in Slots : ~Rotates(req[r], i)
  BY DEF TokenInv, RotationInv
<1>3. \A r \in Slots, j \in Pairs : Rotates(req'[r], j) => Rotates(req[r], j) \/ (r = q /\ j = i)
  BY DEF Rotates
<1>4. RotationInv'
  <2>1. ASSUME NEW r \in Slots, NEW j \in Pairs, Rotates(req'[r], j)
        PROVE  /\ <<j, "refresh">> \in ses'.revoked
               /\ \A k \in Pairs : sesLog'.from[k] # j
               /\ \A s \in Slots : Rotates(req'[s], j) => s = r
    <3>1. CASE Rotates(req[r], j)
      <4>1. j # i
        BY <1>2, <3>1
      <4> QED BY <1>3, <3>1, <4>1 DEF TokenInv, RotationInv, Revoked
    <3>2. CASE r = q /\ j = i
      BY <1>1, <1>2, <1>3, <3>2
    <3> QED BY <1>3, <2>1, <3>1, <3>2
  <2> QED BY <2>1 DEF TokenInv, RotationInv, Revoked, Rotates
<1>5. Live(i)
  BY DEF Live, Kinds
<1>6. ChainInv'
  <2>1. CascadeReachesTheChain' /\ \A j \in Pairs : ContinuesSpared(j) => ContinuesSpared(j)'
    BY CascadesStay DEF TokenInv
  <2>2. Root(i) \in sesLog.cascaded => ContinuesSpared(i)
    BY <1>5 DEF TokenInv, ChainInv, CascadeReachesTheChain, ContinuesSpared
  <2>3. \A r \in Slots, j \in Pairs :
          Rotates(req'[r], j) /\ Root(j)' \in sesLog'.cascaded =>
            j \in sesLog'.spared \/ ContinuesSpared(j)'
    BY <1>3, <2>1, <2>2 DEF TokenInv, ChainInv, Root
  <2>4. /\ \A j \in Pairs : ses'.pair[j].family = sesLog'.root[j]
        /\ \A j \in Pairs : sesLog'.from[j] # 0 => sesLog'.root[sesLog'.from[j]] = sesLog'.root[j]
    BY DEF TokenInv, ChainInv, SesGrows, Root
  <2> QED BY <2>1, <2>3, <2>4 DEF TokenInv, ChainInv, Root, Rotates
<1>7. LogoutInv'
  <2>1. \A j \in Pairs : Live(j)' => Live(j)
    BY DEF Live, Revoked
  <2>2. i \notin sesLog.out
    BY <1>5 DEF TokenInv, LogoutInv, LogoutHolds
  <2>3. LogoutHolds'
    BY <2>1 DEF TokenInv, LogoutInv, LogoutHolds
  <2>4. \A r \in Slots, j \in sesLog.out : ~Rotates(req'[r], j)
    BY <1>3, <2>2 DEF TokenInv, LogoutInv
  <2>5. \A r \in Slots : req'[r].at \in LogoutLabels => <<req'[r].i, "access">> \in ses'.revoked
    BY DEF TokenInv, LogoutInv, Revoked, LogoutLabels
  <2> QED BY <2>3, <2>4, <2>5 DEF TokenInv, LogoutInv, Rotates, Revoked
<1> QED BY <1>4, <1>6, <1>7 DEF TokenInv

\* A cascade ends every token of the chain; the rotations in flight then are
\* spared.
LEMMA CascadeReaches ==
    ASSUME TypeInv, TokenInv, NEW q \in Slots, NEW i \in Pairs, RefreshCascade(q),
           req[q].i = i, req'[q] = Idle, \A r \in Slots : r # q => req'[r] = req[r]
    PROVE  TokenInv'
<1> DEFINE kin == {j \in Pairs : Root(j) = Root(i)}
           dead == {t \in Tokens(Pairs) : ses.pair[t[1]].family = ses.pair[i].family}
           late == {req[r].i : r \in {r \in Slots : At(r, "refresh.principal")
                                                    \/ At(r, "refresh.issue")}}
<1>0. SesInv /\ SesCore
  BY DEF TypeInv, SesInv
<1>1. /\ ses' = [ses EXCEPT !.revoked = @ \cup dead]
      /\ sesLog' = [sesLog EXCEPT !.cascaded = @ \cup {Root(i)},
                                  !.spared = (@ \ kin) \cup late]
  BY DEF RefreshCascade, Revoke
<1> HIDE DEF kin, dead, late
<1>2. /\ ses'.revoked = ses.revoked \cup dead /\ ses'.pair = ses.pair
      /\ sesLog'.cascaded = sesLog.cascaded \cup {Root(i)}
      /\ sesLog'.spared = (sesLog.spared \ kin) \cup late
      /\ sesLog'.from = sesLog.from /\ sesLog'.root = sesLog.root /\ sesLog'.out = sesLog.out
  BY <1>0, <1>1 DEF SesCore, SesRecord, SesLogRecord
<1>3. Pairs' = Pairs /\ Len(ses.pair)' = Len(ses.pair) /\ Len(ses.pair) \in Nat
  BY <1>0, <1>2, SesFields DEF Pairs
<1>4. SesGrows
  BY <1>2, <1>3 DEF SesGrows
<1>5. \A r \in Slots, j \in Pairs : Rotates(req'[r], j) => Rotates(req[r], j) /\ j \in late
  BY IdleOK DEF Rotates, Delicate, HasPair, RotationLabels, late, At
<1>6. RotationInv'
  BY <1>0, <1>3, <1>4, <1>5, RotationStays DEF TokenInv
<1>7. \A j \in Pairs : /\ ses.pair[j].family = Root(j) /\ Root(j) \in Pairs
                       /\ Root(j)' = Root(j)
  BY <1>0, <1>2, PairTypes DEF TokenInv, ChainInv, Root
<1>8. \A j \in Pairs : Root(j) = Root(i) => ~Live(j)'
  <2>1. \A j \in Pairs, kind \in Kinds : Root(j) = Root(i) => <<j, kind>> \in dead
    BY <1>7 DEF dead, Tokens
  <2> QED BY <1>2, <2>1 DEF Live, Revoked
<1>9. CascadeReachesTheChain'
  <2>1. ASSUME NEW j \in Pairs, Root(j)' \in sesLog'.cascaded, Live(j)'
        PROVE  ContinuesSpared(j)'
    <3>1. Root(j) # Root(i) /\ Root(j) \in sesLog.cascaded
      BY <1>2, <1>7, <1>8, <2>1
    <3>2. Live(j)
      BY <1>2, <2>1 DEF Live, Revoked
    <3>3. PICK k \in Pairs : /\ sesLog.from[k] \in sesLog.spared
                             /\ Root(k) = Root(j) /\ k <= j
      BY <3>1, <3>2 DEF TokenInv, ChainInv, CascadeReachesTheChain
    <3>4. sesLog.from[k] \in sesLog'.spared
      <4>1. sesLog.from[k] \notin kin
        <5>1. SUFFICES ASSUME sesLog.from[k] \in kin
                       PROVE  FALSE
          OBVIOUS
        <5>2. sesLog.from[k] \in Pairs /\ Root(sesLog.from[k]) = Root(i)
          BY <5>1 DEF kin
        <5>3. sesLog.from[k] # 0
          BY <1>0, <5>2, SesFields
        <5>4. Root(sesLog.from[k]) = Root(k)
          BY <5>3 DEF TokenInv, ChainInv
        <5> QED BY <3>1, <3>3, <5>2, <5>4
      <4> QED BY <1>2, <3>3, <4>1
    <3> QED BY <1>2, <1>3, <1>7, <3>3, <3>4 DEF ContinuesSpared
  <2> QED BY <1>3, <2>1 DEF CascadeReachesTheChain, ContinuesSpared
<1>10. ChainInv'
  <2>1. \A r \in Slots, j \in Pairs : Rotates(req'[r], j) => j \in sesLog'.spared
    BY <1>2, <1>5
  <2>2. sesLog'.cascaded \subseteq Pairs
    BY <1>2, <1>7 DEF TokenInv, ChainInv
  <2>3. /\ \A j \in Pairs : ses'.pair[j].family = sesLog'.root[j]
        /\ \A j \in Pairs : sesLog'.from[j] # 0 => sesLog'.root[sesLog'.from[j]] = sesLog'.root[j]
    BY <1>2 DEF TokenInv, ChainInv, Root
  <2> QED BY <1>3, <1>9, <2>1, <2>2, <2>3 DEF ChainInv, Root, Rotates
<1>11. LogoutInv'
  <2>1. \A j \in Pairs : Live(j)' => Live(j)
    BY <1>2 DEF Live, Revoked
  <2>2. LogoutHolds'
    BY <1>2, <1>3, <2>1 DEF TokenInv, LogoutInv, LogoutHolds
  <2>3. \A r \in Slots, j \in sesLog'.out : ~Rotates(req'[r], j)
    BY <1>2, <1>5 DEF TokenInv, LogoutInv
  <2>4. \A r \in Slots : req'[r].at \in LogoutLabels => <<req'[r].i, "access">> \in ses'.revoked
    BY <1>2, IdleOK DEF TokenInv, LogoutInv, Revoked, Delicate, HasPair, LogoutLabels
  <2> QED BY <1>2, <1>3, <2>2, <2>3, <2>4 DEF TokenInv, LogoutInv, Rotates, Revoked
<1> QED BY <1>6, <1>10, <1>11 DEF TokenInv

\* A logout ends the pairs S, both tokens of each: those it is the one to end
\* are in nobody's rotation.
LEMMA LogoutEnds ==
    ASSUME TypeInv, TokenInv, NEW q \in Slots, NEW S \in SUBSET Pairs, NEW dead,
           dead \subseteq Tokens(Pairs),
           \A i \in S : <<i, "refresh">> \in dead,
           \A i \in S : <<i, "access">> \in ses.revoked \cup dead,
           ses' = [ses EXCEPT !.revoked = @ \cup dead],
           sesLog' = [sesLog EXCEPT !.out = @ \cup Ends(S)],
           req'[q] = Idle, \A r \in Slots : r # q => req'[r] = req[r]
    PROVE  TokenInv'
<1>0. SesInv /\ SesCore
  BY DEF TypeInv, SesInv
<1>1. /\ ses'.revoked = ses.revoked \cup dead /\ ses'.pair = ses.pair
      /\ sesLog'.cascaded = sesLog.cascaded /\ sesLog'.spared = sesLog.spared
      /\ sesLog'.from = sesLog.from /\ sesLog'.root = sesLog.root
      /\ sesLog'.out = sesLog.out \cup Ends(S)
  BY <1>0 DEF SesCore, SesRecord, SesLogRecord
<1>2. Pairs' = Pairs /\ Len(ses.pair)' = Len(ses.pair) /\ Len(ses.pair) \in Nat
  BY <1>0, <1>1, SesFields DEF Pairs
<1>3. SesGrows
  BY <1>1, <1>2 DEF SesGrows
<1>4. \A r \in Slots, j \in Pairs : Rotates(req'[r], j) => Rotates(req[r], j)
  BY IdleOK DEF Rotates, Delicate, HasPair
<1>5. RotationInv'
  BY <1>0, <1>2, <1>3, <1>4, RotationStays DEF TokenInv
<1>6. ChainInv'
  <2>1. CascadeReachesTheChain' /\ \A j \in Pairs : ContinuesSpared(j) => ContinuesSpared(j)'
    BY <1>1, <1>2, <1>3, CascadesStay DEF TokenInv
  <2>2. \A r \in Slots, j \in Pairs :
          Rotates(req'[r], j) /\ Root(j)' \in sesLog'.cascaded =>
            j \in sesLog'.spared \/ ContinuesSpared(j)'
    BY <1>1, <1>4, <2>1 DEF TokenInv, ChainInv, Root
  <2>3. /\ \A j \in Pairs : ses'.pair[j].family = sesLog'.root[j]
        /\ \A j \in Pairs : sesLog'.from[j] # 0 => sesLog'.root[sesLog'.from[j]] = sesLog'.root[j]
        /\ sesLog'.cascaded \subseteq Pairs
    BY <1>1 DEF TokenInv, ChainInv, Root
  <2> QED BY <1>2, <2>1, <2>2, <2>3 DEF ChainInv, Root, Rotates
<1>7. \A i \in Ends(S) : /\ i \in Pairs /\ ~Live(i)' /\ \A j \in Pairs : sesLog.from[j] # i
                         /\ \A r \in Slots : ~Rotates(req[r], i)
  <2>1. TAKE i \in Ends(S)
  <2>2. i \in S /\ <<i, "refresh">> \notin ses.revoked
    BY DEF Ends, Revoked
  <2>3. ~Live(i)'
    BY <1>1, <2>2 DEF Live, Kinds, Revoked
  <2>4. \A j \in Pairs : sesLog.from[j] # i
    BY <1>0, <2>2, SesFields DEF TokenInv, RotationInv, Revoked
  <2>5. \A r \in Slots : ~Rotates(req[r], i)
    BY <2>2 DEF TokenInv, RotationInv, Revoked
  <2> QED BY <2>2, <2>3, <2>4, <2>5
<1>8. LogoutInv'
  <2>1. \A j \in Pairs : Live(j)' => Live(j)
    BY <1>1 DEF Live, Revoked
  <2>2. LogoutHolds'
    BY <1>1, <1>2, <1>7, <2>1 DEF TokenInv, LogoutInv, LogoutHolds
  <2>3. \A r \in Slots, j \in sesLog'.out : ~Rotates(req'[r], j)
    BY <1>1, <1>4, <1>7 DEF TokenInv, LogoutInv
  <2>4. \A r \in Slots : req'[r].at \in LogoutLabels => <<req'[r].i, "access">> \in ses'.revoked
    BY <1>1, IdleOK DEF TokenInv, LogoutInv, Revoked, Delicate, HasPair
  <2> QED BY <1>1, <1>2, <1>7, <2>2, <2>3, <2>4 DEF TokenInv, LogoutInv, Rotates, Revoked
<1> QED BY <1>5, <1>6, <1>8 DEF TokenInv

\* No pair is made or revoked and no history of them is written.
PairsStay ==
  /\ ses'.pair = ses.pair /\ ses'.revoked = ses.revoked
  /\ sesLog'.from = sesLog.from /\ sesLog'.root = sesLog.root
  /\ sesLog'.cascaded = sesLog.cascaded /\ sesLog'.spared = sesLog.spared
  /\ sesLog'.out = sesLog.out

\* Nobody's rotation or logout goes on.
NoneRotates == \A r \in Slots :
  req'[r] = req[r] \/ req'[r].at \notin RotationLabels \cup LogoutLabels

LEMMA TokensRest ==
    ASSUME SesCore, TokenInv, SesGrows, Pairs' = Pairs, NoneRotates,
           sesLog'.cascaded = sesLog.cascaded, sesLog'.spared = sesLog.spared,
           sesLog'.out = sesLog.out
    PROVE  TokenInv'
<1>1. \A r \in Slots, i \in Pairs : Rotates(req'[r], i) => Rotates(req[r], i)
  BY DEF NoneRotates, Rotates
<1>2. \A r \in Slots : req'[r].at \in LogoutLabels => <<req'[r].i, "access">> \in ses'.revoked
  BY DEF NoneRotates, TokenInv, LogoutInv, Revoked, SesGrows
<1> QED BY <1>1, <1>2, TokensStay DEF ChainsStay

LEMMA PairsRest ==
    ASSUME SesCore, TokenInv, PairsStay, NoneRotates
    PROVE  TokenInv'
<1>1. Pairs' = Pairs /\ Len(ses.pair)' = Len(ses.pair) /\ Len(ses.pair) \in Nat
  BY SesFields DEF PairsStay, Pairs
<1>2. SesGrows
  BY <1>1 DEF PairsStay, SesGrows
<1> QED BY <1>1, <1>2, TokensRest DEF PairsStay

LEMMA LoginLeavesPairs ==
    ASSUME SesCore, NEW q \in Slots, LoginActs(q), ~LoginIssue(q), ~CodeIssue(q)
    PROVE  PairsStay
<1> USE DEF PairsStay
<1>0. ses \in SesRecord /\ sesLog \in SesLogRecord
  BY DEF SesCore
<1>1. ASSUME UNCHANGED <<ses, sesLog>>
      PROVE  PairsStay
  BY <1>1
<1>2. CASE LoginBackupCode(q)
  BY <1>0, <1>2 DEF LoginBackupCode, Spend, Pause, SesRecord, SesLogRecord
<1>3. CASE Authorize(q)
  BY <1>0, <1>3 DEF Authorize, SesRecord, SesLogRecord
<1>4. CASE ConsumeCode(q)
  BY <1>0, <1>4 DEF ConsumeCode, Pause, SesRecord, SesLogRecord
<1> HIDE DEF PairsStay
<1>5. CASE Login(q) \/ LoginCallback(q) \/ CodeGrant(q) \/ LoginRehash(q) \/ LoginSecondFactor(q)
           \/ LoginTotp(q) \/ LoginSave(q) \/ CallbackCreatesUser(q) \/ CallbackLinks(q)
  BY <1>1, <1>5 DEF Login, LoginCallback, CodeGrant, LoginRehash, LoginSecondFactor, LoginTotp,
                    LoginSave, CallbackCreatesUser, CallbackLinks, Glance, Pause
<1> QED BY <1>2, <1>3, <1>4, <1>5 DEF LoginActs

LEMMA MfaLeavesPairs ==
    ASSUME SesCore, NEW q \in Slots, MfaActs(q)
    PROVE  PairsStay
<1> USE DEF PairsStay
<1>0. ses \in SesRecord /\ sesLog \in SesLogRecord
  BY DEF SesCore
<1>1. CASE SetupMfa(q) \/ VerifyMfa(q) \/ DisableMfa(q)
  BY <1>0, <1>1 DEF SetupMfa, VerifyMfa, DisableMfa, MfaCall, SesLogRecord
<1>2. CASE SetupMfaClear(q)
  BY <1>0, <1>2 DEF SetupMfaClear, SesRecord
<1>3. CASE SetupMfaSave(q)
  BY <1>0, <1>3 DEF SetupMfaSave, SesRecord, SesLogRecord
<1>4. CASE VerifyMfaFetch(q) \/ DisableMfaCheck(q)
  BY <1>4 DEF VerifyMfaFetch, DisableMfaCheck, Pause
<1>5. CASE VerifyMfaEnable(q)
  BY <1>0, <1>5 DEF VerifyMfaEnable, Spend, Pause, SesRecord, SesLogRecord
<1>6. CASE DisableMfaDelete(q)
  BY <1>0, <1>6 DEF DisableMfaDelete, SesRecord
<1> QED BY <1>1, <1>2, <1>3, <1>4, <1>5, <1>6 DEF MfaActs

\* The requests on tokens.
LEMMA TokenActsKeep ==
    ASSUME TypeInv, TokenInv, NEW q \in Slots, TokenActs(q)
    PROVE  TokenInv'
<1>0. PoolInv /\ SesInv /\ SesCore /\ ses \in SesRecord /\ sesLog \in SesLogRecord
  BY DEF TypeInv, SesInv, SesCore
<1>1. Goes(q) /\ PairOK(req'[q])
  BY TokensGo DEF TokenActs
<1>2. \A r \in Slots : r # q => req'[r] = req[r]
  BY <1>0, <1>1, OthersStay
<1>3. SesGrows
  BY TokensKeep DEF TokenActs
<1>4. LocalsOK(req[q]) /\ DOMAIN req = Slots /\ "at" \in DOMAIN req[q]
      /\ (req[q].at \in HasPair => "i" \in DOMAIN req[q] /\ req[q].i \in Pairs)
  BY <1>0 DEF PoolInv, SesInv, PairOK, LocalsOK
<1>p. ASSUME UNCHANGED <<ses, sesLog>>
      PROVE  PairsStay /\ Pairs' = Pairs
  BY <1>p DEF PairsStay, Pairs
<1>r. ASSUME req'[q].at \notin RotationLabels \cup LogoutLabels
      PROVE  NoneRotates
  BY <1>2, <1>r DEF NoneRotates
<1>i. Idle.at \notin RotationLabels \cup LogoutLabels
  BY IdleOK DEF Delicate, HasPair
<1>5. CASE RotateRefreshToken(q)
  <2>1. PICK i \in Pairs :
          IF Revoked(i, "refresh") THEN Glance(q, [at |-> "refresh.reuse", i |-> i])
          ELSE /\ Begin(q, [at |-> "refresh.principal", i |-> i])
               /\ Revoke({<<i, "refresh">>})
               /\ UNCHANGED sesLog
    BY <1>5 DEF RotateRefreshToken
  <2>2. CASE Revoked(i, "refresh")
    <3>1. UNCHANGED <<ses, sesLog>> /\ req'[q] = [at |-> "refresh.reuse", i |-> i]
      BY <1>4, <2>1, <2>2 DEF Glance, Look, Begin
    <3>2. req'[q].at \notin RotationLabels \cup LogoutLabels
      BY <3>1 DEF RotationLabels, LogoutLabels
    <3> QED BY <1>0, <1>p, <1>r, <3>1, <3>2, PairsRest
  <2>3. CASE ~Revoked(i, "refresh")
    <3>1. req'[q] = [at |-> "refresh.principal", i |-> i] /\ sesLog' = sesLog
          /\ ses' = [ses EXCEPT !.revoked = @ \cup {<<i, "refresh">>}]
      BY <1>4, <2>1, <2>3 DEF Begin, Revoke
    <3>2. ses'.revoked = ses.revoked \cup {<<i, "refresh">>} /\ ses'.pair = ses.pair
      BY <1>0, <3>1 DEF SesRecord
    <3>3. Pairs' = Pairs /\ req'[q].at = "refresh.principal" /\ req'[q].i = i
      BY <3>1, <3>2 DEF Pairs
    <3> QED BY <1>2, <1>3, <2>3, <3>1, <3>2, <3>3, RotationStarts
  <2> QED BY <2>2, <2>3
<1>6. CASE Logout(q) \/ RefreshReuse(q) \/ CascadeConflict(q) \/ AuthenticateJwt(q)
  <2>1. UNCHANGED <<ses, sesLog>>
    BY <1>6 DEF Logout, WithToken, Glance, RefreshReuse, Pause, CascadeConflict, AuthenticateJwt
  <2>2. req'[q].at \notin RotationLabels \cup LogoutLabels
    <3>1. CASE Logout(q)
      BY <1>4, <3>1 DEF Logout, WithToken, Glance, Look, Begin, RotationLabels, LogoutLabels
    <3>2. CASE RefreshReuse(q)
      BY <1>4, <3>2 DEF RefreshReuse, Pause, Wait, Step, With, To, Idle, RotationLabels, LogoutLabels
    <3>3. CASE CascadeConflict(q)
      BY <1>4, <3>3 DEF CascadeConflict, Step, At, Idle, RotationLabels, LogoutLabels
    <3>4. CASE AuthenticateJwt(q)
      <4>1. req[q].at = "jwt.principal" /\ req[q].then \in JwtThen
        BY <1>4, <3>4 DEF AuthenticateJwt, At, LocalsOK
      <4>2. req'[q].at = "idle" \/ req'[q].at = req[q].then
        BY <1>4, <3>4 DEF AuthenticateJwt, Pause, Wait, Step, With, To, Idle
      <4> QED BY <4>1, <4>2 DEF JwtThen, MfaEntries, RotationLabels, LogoutLabels
    <3> QED BY <1>6, <3>1, <3>2, <3>3, <3>4
  <2> QED BY <1>0, <1>p, <1>r, <2>1, <2>2, PairsRest
<1>7. CASE RefreshCascade(q)
  <2>1. req[q].at = "refresh.cascade" /\ req'[q] = Idle
    BY <1>4, <1>7 DEF RefreshCascade, Step, At
  <2>2. req[q].i \in Pairs
    BY <1>4, <2>1 DEF HasPair
  <2> QED BY <1>2, <1>7, <2>1, <2>2, CascadeReaches
<1>8. CASE RefreshPrincipal(q)
  <2>1. /\ UNCHANGED <<ses, sesLog>> /\ req[q].at = "refresh.principal"
        /\ req'[q] = Idle \/ \E p : req'[q] = With(To(q, "refresh.issue"), [p |-> p])
    BY <1>4, <1>8 DEF RefreshPrincipal, Pause, Wait, Step, At
  <2>2. req'[q] = Idle \/ (req'[q].at = "refresh.issue" /\ req'[q].i = req[q].i)
    BY <1>4, <2>1 DEF With, To, HasPair, RotationLabels
  <2>3. PairsStay /\ Pairs' = Pairs
    BY <1>p, <2>1
  <2>4. \A r \in Slots, i \in Pairs : Rotates(req'[r], i) => Rotates(req[r], i)
    BY <1>2, <1>i, <2>1, <2>2 DEF Rotates, RotationLabels
  <2>5. \A r \in Slots : req'[r].at \in LogoutLabels => <<req'[r].i, "access">> \in ses'.revoked
    BY <1>2, <1>i, <2>2, <2>3 DEF PairsStay, TokenInv, LogoutInv, Revoked, LogoutLabels
  <2> QED BY <1>0, <1>3, <2>3, <2>4, <2>5, TokensStay DEF ChainsStay, PairsStay
<1>9. CASE RefreshIssue(q)
  <2> DEFINE l == req[q]
  <2>1. Issue(q, "refresh.issue", l.p, ses.pair[l.i].family, l.i, "idle")
    BY <1>9 DEF RefreshIssue
  <2>2. l.at = "refresh.issue"
    BY <2>1 DEF Issue, At
  <2>3. l.p \in Principals /\ l.i \in Pairs /\ Rotates(l, l.i)
    BY <1>4, <2>2, LocalsHold DEF HasPrincipal, HasPair, RotationLabels, Rotates
  <2>4. GoesOn(q)
    BY <2>1, IssueGoes DEF IssueThen
  <2> QED BY <2>1, <2>3, <2>4, IssueAdds
<1>10. CASE LogoutAccess(q)
  <2>1. /\ ses' = [ses EXCEPT !.revoked = @ \cup {<<req[q].i, "access">>}] /\ sesLog' = sesLog
        /\ req[q].at = "logout.access"
        /\ \E label \in LogoutLabels : req'[q] = To(q, label)
    BY <1>4, <1>10 DEF LogoutAccess, Step, At, Revoke, LogoutLabels
  <2>2. ses'.revoked = ses.revoked \cup {<<req[q].i, "access">>} /\ ses'.pair = ses.pair
    BY <1>0, <2>1 DEF SesRecord
  <2>3. req'[q].at \in LogoutLabels /\ req'[q].i = req[q].i
    BY <1>4, <2>1 DEF To, HasPair
  <2>4. \A r \in Slots, i \in Pairs : Rotates(req'[r], i) => Rotates(req[r], i)
    BY <1>2, <2>3 DEF Rotates, RotationLabels, LogoutLabels
  <2>5. \A r \in Slots : req'[r].at \in LogoutLabels => <<req'[r].i, "access">> \in ses'.revoked
    BY <1>2, <2>2, <2>3 DEF TokenInv, LogoutInv, Revoked
  <2>6. Pairs' = Pairs
    BY <2>2 DEF Pairs
  <2> QED BY <1>0, <1>3, <2>1, <2>4, <2>5, <2>6, TokensStay DEF ChainsStay
<1>11. CASE LogoutAll(q)
  <2> DEFINE mine == OwnedBy(req[q].p)
  <2>1. /\ ses' = [ses EXCEPT !.revoked = @ \cup Tokens(mine)]
        /\ sesLog' = [sesLog EXCEPT !.out = @ \cup Ends(mine)]
        /\ req'[q] = Idle
    BY <1>4, <1>11 DEF LogoutAll, Step, Revoke
  <2>2. mine \in SUBSET Pairs /\ Tokens(mine) \subseteq Tokens(Pairs)
    BY DEF OwnedBy, Tokens
  <2>3. \A i \in mine : <<i, "refresh">> \in Tokens(mine) /\ <<i, "access">> \in Tokens(mine)
    BY DEF Tokens, Kinds
  <2> HIDE DEF mine
  <2> QED BY <1>2, <2>1, <2>2, <2>3, LogoutEnds
<1>12. CASE LogoutIssuedAt(q)
  <2>1. /\ UNCHANGED <<ses, sesLog>> /\ req[q].at = "logout.issued"
        /\ req'[q] = To(q, "logout.refresh")
    BY <1>4, <1>12 DEF LogoutIssuedAt, Pause, Wait, Step, At
  <2>2. req'[q].at = "logout.refresh" /\ req'[q].i = req[q].i
    BY <1>4, <2>1 DEF To, HasPair, LogoutLabels
  <2>3. PairsStay /\ Pairs' = Pairs
    BY <1>p, <2>1
  <2>4. \A r \in Slots, i \in Pairs : Rotates(req'[r], i) => Rotates(req[r], i)
    BY <1>2, <2>2 DEF Rotates, RotationLabels
  <2>5. \A r \in Slots : req'[r].at \in LogoutLabels => <<req'[r].i, "access">> \in ses'.revoked
    BY <1>2, <2>1, <2>2, <2>3 DEF PairsStay, TokenInv, LogoutInv, Revoked, LogoutLabels
  <2> QED BY <1>0, <1>3, <2>3, <2>4, <2>5, TokensStay DEF ChainsStay, PairsStay
<1>13. CASE LogoutRefresh(q)
  <2> DEFINE i == req[q].i
             own == {i} \cap {j \in Pairs : ses.pair[j].owner # NoOne}
             dead == {<<j, "refresh">> : j \in own}
  <2>1. /\ ses' = [ses EXCEPT !.revoked = @ \cup dead]
        /\ sesLog' = [sesLog EXCEPT !.out = @ \cup Ends(own)]
        /\ req'[q] = Idle /\ req[q].at = "logout.refresh"
    BY <1>4, <1>13 DEF LogoutRefresh, Step, Revoke, At
  <2>2. own \in SUBSET Pairs /\ dead \subseteq Tokens(Pairs)
    BY DEF Tokens, Kinds
  <2>3. \A j \in own : j = i /\ <<j, "refresh">> \in dead
    OBVIOUS
  <2>4. <<i, "access">> \in ses.revoked
    BY <2>1 DEF TokenInv, LogoutInv, LogoutLabels, Revoked
  <2>5. \A j \in own : <<j, "access">> \in ses.revoked \cup dead
    BY <2>3, <2>4
  <2> HIDE DEF own, dead, i
  <2> QED BY <1>2, <2>1, <2>2, <2>3, <2>5, LogoutEnds
<1> QED BY <1>5, <1>6, <1>7, <1>8, <1>9, <1>10, <1>11, <1>12, <1>13 DEF TokenActs

LEMMA SessionActsKeepTokens ==
    ASSUME TypeInv, ServeInv, TokenInv, NEW q \in Slots,
           \/ (LoginActs(q) \/ TokenActs(q) \/ MfaActs(q)) /\ KeysQuiet
           \/ GrantIssue(q)
    PROVE  TokenInv'
<1>0. PoolInv /\ SesCore /\ LocalsOK(req[q])
  BY DEF TypeInv, SesInv, PoolInv
<1>1. Goes(q) /\ \A r \in Slots : r # q => req'[r] = req[r]
  BY <1>0, SessionsTyped, OthersStay
<1>2. CASE LoginActs(q)
  <2>1. GoesOn(q)
    BY <1>2, LoginGoes DEF LoginActs
  <2>2. CASE LoginIssue(q)
    <3>1. Issue(q, "login.issue", req[q].p, 0, 0, "login.save")
      BY <2>2 DEF LoginIssue
    <3>2. req[q].p \in Principals
      BY <3>1, LocalsHold DEF Issue, At, HasPrincipal, LoginLabels
    <3> QED BY <2>1, <3>1, <3>2, IssueAdds
  <2>3. CASE CodeIssue(q)
    <3>1. Issue(q, "code.issue", req[q].p, 0, 0, "idle")
      BY <2>3 DEF CodeIssue
    <3>2. req[q].p \in Principals
      BY <3>1, LocalsHold DEF Issue, At, HasPrincipal
    <3> QED BY <2>1, <3>1, <3>2, IssueAdds
  <2>4. CASE ~LoginIssue(q) /\ ~CodeIssue(q)
    <3>1. NoneRotates
      BY <1>1, <2>1 DEF GoesOn, Delicate, HasPair, NoneRotates
    <3> QED BY <1>0, <1>2, <2>4, <3>1, LoginLeavesPairs, PairsRest
  <2> QED BY <2>2, <2>3, <2>4
<1>3. CASE TokenActs(q)
  BY <1>3, TokenActsKeep
<1>4. CASE MfaActs(q)
  <2>1. NoneRotates
    BY <1>1, <1>4, MfaGoes DEF MfaActs, NoneRotates
  <2> QED BY <1>0, <1>4, <2>1, MfaLeavesPairs, PairsRest
<1>5. CASE GrantIssue(q)
  <2>1. GoesOn(q) /\ Issue(q, "grant.issue", req[q].p, 0, 0, "grant.used")
    BY <1>5, GrantGoes DEF GrantIssue
  <2>2. req[q].p \in Principals
    BY <2>1, LocalsHold DEF Issue, At, HasPrincipal
  <2> QED BY <2>1, <2>2, IssueAdds
<1> QED BY <1>2, <1>3, <1>4, <1>5

\* Nobody else's step makes, revokes or continues a pair.
LEMMA SessionsRest ==
    ASSUME SesCore, UNCHANGED <<ses, sesLog>>
    PROVE  PairsStay
BY DEF PairsStay

LEMMA NextKeepsTokens ==
    ASSUME TypeInv, ServeInv, TokenInv, [Next]_accessVars
    PROVE  TokenInv'
<1>0. PoolInv /\ SesCore
  BY DEF TypeInv, SesInv
<1>1. ASSUME NEW q \in Slots, AccountsActs(q), SessionsFollow(Gone)
      PROVE  TokenInv'
  <2>1. Goes(q) /\ req'[q].at \notin HasPair
    BY <1>1, AccountsKeepAcc, FreeOK DEF AccountsActs
  <2>2. NoneRotates
    BY <1>0, <2>1, OthersStay DEF NoneRotates, HasPair
  <2>3. SesGrows
    BY <1>0, <1>1, SessionsFollowed
  <2>4. Pairs' = Pairs /\ sesLog' = sesLog
    <3> DEFINE new == [i \in Pairs |-> IF ses.pair[i].owner \in Gone
                                       THEN [ses.pair[i] EXCEPT !.owner = NoOne] ELSE ses.pair[i]]
    <3>1. ses'.pair = new /\ sesLog' = sesLog
      BY <1>0, <1>1 DEF SessionsFollow, SesCore, SesRecord
    <3>2. DOMAIN new = 1..Len(ses.pair) /\ Len(ses.pair) \in Nat
      BY <1>0, SesFields DEF Pairs
    <3> HIDE DEF new
    <3>3. Len(ses'.pair) = Len(ses.pair)
      <4>1. SesCore'
        BY <1>0, <1>1, SessionsFollowed
      <4>2. Len(ses'.pair) \in Nat /\ DOMAIN ses'.pair = 1..Len(ses'.pair)
        BY <4>1 DEF SesCore, SesRecord
      <4> QED BY <3>1, <3>2, <4>2
    <3> QED BY <3>1, <3>3 DEF Pairs
  <2> QED BY <1>0, <2>2, <2>3, <2>4, TokensRest
<1>2. ASSUME NEW q \in Slots, \/ (LoginActs(q) \/ TokenActs(q) \/ MfaActs(q)) /\ KeysQuiet
                              \/ GrantIssue(q)
      PROVE  TokenInv'
  BY <1>2, SessionActsKeepTokens
<1>3. ASSUME NEW q \in Slots, KeyActs(q) \/ LookupActs(q)
      PROVE  TokenInv'
  <2>1. UNCHANGED <<ses, sesLog>> /\ Goes(q)
    BY <1>3, KeysTyped DEF SessionsQuiet
  <2>2. req'[q].at \notin RotationLabels \cup LogoutLabels
    BY <1>3, KeysGo, LookupsGo DEF KeyActs, LookupActs
  <2>3. NoneRotates
    BY <1>0, <2>1, <2>2, OthersStay DEF NoneRotates
  <2> QED BY <1>0, <2>1, <2>3, SessionsRest, PairsRest
<1>4. ASSUME NEW q \in Slots, Die(q), SessionsQuiet
      PROVE  TokenInv'
  <2>1. NoneRotates
    BY <1>0, <1>4, Dies, IdleOK DEF NoneRotates, Delicate, HasPair
  <2> QED BY <1>0, <1>4, <2>1, SessionsRest, PairsRest DEF SessionsQuiet
<1>5. CASE CodeExpires
  <2>1. PairsStay /\ req' = req
    BY <1>0, <1>5 DEF CodeExpires, PairsStay, SesCore, SesRecord, pool
  <2> QED BY <1>0, <2>1, PairsRest DEF NoneRotates
<1>6. CASE Tick \/ UNCHANGED accessVars
  <2>1. UNCHANGED <<ses, sesLog>> /\ req' = req
    BY <1>6 DEF Tick, SessionsQuiet, accessVars, pool
  <2> QED BY <1>0, <2>1, SessionsRest, PairsRest DEF NoneRotates
<1> QED BY <1>1, <1>2, <1>3, <1>4, <1>5, <1>6, NextCases

LEMMA InitTokens ==
    ASSUME Init
    PROVE  TokenInv
<1> DEFINE n == Cardinality({p \in Principals : Exists(p)})
<1>0. SesCore /\ \A q \in Slots : req[q] = Idle
  BY InitTyped DEF TypeInv, SesInv, Init, PoolInit
<1>1. /\ DOMAIN ses.pair = 1..n /\ \A i \in 1..n : ses.pair[i].family = i
      /\ sesLog.from = [i \in 1..n |-> 0] /\ sesLog.root = [i \in 1..n |-> i]
      /\ sesLog.cascaded = {} /\ sesLog.spared = {} /\ sesLog.out = {}
  BY DEF Init, SesInit
<1> HIDE DEF n
<1>2. Pairs = 1..n
  BY <1>0, <1>1, SesFields
<1>3. /\ \A i \in Pairs : sesLog.from[i] = 0 /\ sesLog.root[i] = i
      /\ \A i \in Pairs : ses.pair[i].family = i
  BY <1>1, <1>2
<1>4. \A q \in Slots : req[q].at \notin RotationLabels \cup LogoutLabels
  BY <1>0, IdleOK DEF Delicate, HasPair
<1>5. RotationInv
  BY <1>3, <1>4 DEF RotationInv, Rotates
<1>6. ChainInv
  BY <1>1, <1>3 DEF ChainInv, CascadeReachesTheChain, Root
<1>7. LogoutInv
  BY <1>1, <1>4 DEF LogoutInv, LogoutHolds
<1> QED BY <1>5, <1>6, <1>7 DEF TokenInv

\* After a refresh token has come back a second time nothing of its chain is
\* alive, but what a rotation makes that was past its own revocation when the
\* cascade ran; and a pair that a logout found unspent stays revoked, and no
\* rotation continues it (auth.py:949, :1034, :1197-1288).
THEOREM RevocationHolds == Spec => []RevokedStaysRevoked
<1>1. Init => TokenInv
  BY InitTokens
<1>2. TypeInv /\ ServeInv /\ TokenInv /\ [Next]_accessVars => TokenInv'
  BY NextKeepsTokens
<1>3. TokenInv => RevokedStaysRevoked
  BY DEF TokenInv, ChainInv, LogoutInv, RevokedStaysRevoked
<1> QED BY <1>1, <1>2, <1>3, Typed, PTL DEF Spec

-----------------------------------------------------------------------------
(* What may be used once.                                                  *)

\* Every code has a number of its own, and one that is spent is nowhere left.
CodeInv ==
  /\ \A t \in ses.totp : t.n < sesLog.made /\ t.codes \subseteq {t.n}
  /\ \A s, t \in ses.totp : s.n = t.n => s = t
  /\ \A c \in ses.code : c[2] < sesLog.made
  /\ \A c, d \in ses.code : c[2] = d[2] => c = d
  /\ \A c \in ses.code, t \in ses.totp : c[2] # t.n
  /\ \A i \in DOMAIN sesLog.used :
       /\ sesLog.used[i] < sesLog.made
       /\ \A t \in ses.totp : sesLog.used[i] \notin t.codes
       /\ \A c \in ses.code : sesLog.used[i] # c[2]
  /\ \A i, j \in DOMAIN sesLog.used : sesLog.used[i] = sesLog.used[j] => i = j

CodesStay ==
  /\ ses'.totp = ses.totp /\ ses'.code = ses.code
  /\ sesLog'.used = sesLog.used /\ sesLog'.made = sesLog.made

\* No code is made; secrets keep their numbers.
CodesLess ==
  /\ \A s \in ses'.totp : \E t \in ses.totp : s.n = t.n /\ s.codes \subseteq t.codes
  /\ \A s, t \in ses'.totp : s.n = t.n => s = t
  /\ ses'.code \subseteq ses.code /\ sesLog'.made = sesLog.made

LEMMA CodesShrink ==
    ASSUME CodeInv, CodesLess, sesLog'.used = sesLog.used
    PROVE  CodeInv'
<1>1. \A t \in ses'.totp : t.n < sesLog.made /\ t.codes \subseteq {t.n}
  BY DEF CodeInv, CodesLess
<1>2. \A c \in ses'.code, t \in ses'.totp : c[2] # t.n
  BY DEF CodeInv, CodesLess
<1>3. \A i \in DOMAIN sesLog.used : \A t \in ses'.totp : sesLog.used[i] \notin t.codes
  BY DEF CodeInv, CodesLess
<1> QED BY <1>1, <1>2, <1>3 DEF CodeInv, CodesLess

LEMMA CodeSpent ==
    ASSUME SesCore, CodeInv, CodesLess, NEW c \in Nat, sesLog'.used = Append(sesLog.used, c),
           c < sesLog.made, \A i \in DOMAIN sesLog.used : sesLog.used[i] # c,
           \A t \in ses'.totp : c \notin t.codes, \A d \in ses'.code : d[2] # c
    PROVE  CodeInv'
<1> DEFINE spent == sesLog.used
           n == Len(spent) + 1
<1>1. spent \in Seq(Nat) /\ Len(spent) \in Nat
  BY SesFields
<1>2. /\ sesLog'.used = Append(spent, c)
      /\ Append(spent, c) \in Seq(Nat) /\ Len(Append(spent, c)) = n
      /\ \A i \in 1..Len(spent) : Append(spent, c)[i] = spent[i]
      /\ Append(spent, c)[n] = c
  BY <1>1, AppendAt
<1>3. /\ DOMAIN spent = 1..Len(spent) /\ DOMAIN sesLog'.used = 1..n
  BY <1>1, <1>2
<1>4. DOMAIN sesLog'.used = DOMAIN spent \cup {n}
  BY <1>1, <1>3
<1>5. \A i \in DOMAIN spent : sesLog'.used[i] = spent[i]
  BY <1>2, <1>3
<1>6. sesLog'.used[n] = c
  BY <1>2
<1>7. \A i \in DOMAIN spent : /\ spent[i] < sesLog.made /\ spent[i] # c
                              /\ \A t \in ses.totp : spent[i] \notin t.codes
                              /\ \A d \in ses.code : spent[i] # d[2]
  BY DEF CodeInv
<1>8. \A i, j \in DOMAIN spent : spent[i] = spent[j] => i = j
  BY DEF CodeInv
<1> HIDE DEF spent, n
<1>9. \A t \in ses'.totp : t.n < sesLog.made /\ t.codes \subseteq {t.n}
  BY DEF CodeInv, CodesLess
<1>10. \A d \in ses'.code, t \in ses'.totp : d[2] # t.n
  BY DEF CodeInv, CodesLess
<1>11. \A i \in DOMAIN spent : \A t \in ses'.totp : spent[i] \notin t.codes
  BY <1>7 DEF CodesLess
<1>12. \A i \in DOMAIN sesLog'.used :
         /\ sesLog'.used[i] < sesLog.made
         /\ \A t \in ses'.totp : sesLog'.used[i] \notin t.codes
         /\ \A d \in ses'.code : sesLog'.used[i] # d[2]
  BY <1>4, <1>5, <1>6, <1>7, <1>11 DEF CodesLess
<1>13. \A i, j \in DOMAIN sesLog'.used : sesLog'.used[i] = sesLog'.used[j] => i = j
  BY <1>4, <1>5, <1>6, <1>7, <1>8
<1> QED BY <1>9, <1>10, <1>12, <1>13 DEF CodeInv, CodesLess

\* A backup code leaves the one secret that holds it.
LEMMA BackupSpent ==
    ASSUME SesCore, CodeInv, NEW u, NEW c, NEW on, NEW verified \in SUBSET Nat,
           Holding(u, c) # {}, Spend(u, c, on, verified)
    PROVE  CodeInv'
<1> DEFINE f(t) == [t EXCEPT !.codes = t.codes \ {c}, !.on = t.on \/ on]
           H == Holding(u, c)
           T == (ses.totp \ H) \cup {f(t) : t \in H}
<1>0. ses \in SesRecord /\ sesLog \in SesLogRecord
  BY DEF SesCore
<1>1. H \subseteq ses.totp /\ \A t \in H : c \in t.codes /\ c = t.n
  BY DEF Holding, Secrets, CodeInv
<1>2. PICK h \in H : TRUE
  OBVIOUS
<1>3. c = h.n /\ h \in ses.totp /\ c \in h.codes /\ c \in Nat /\ c < sesLog.made
  BY <1>1, <1>2, SesFields DEF CodeInv, SecretRecord
<1>4. ses' = [ses EXCEPT !.totp = T] /\ sesLog' = [sesLog EXCEPT
        !.used = Append(sesLog.used, c), !.verified = sesLog.verified \cup verified]
  BY DEF Spend
<1>5. \A t \in H : f(t).n = t.n /\ f(t).codes = t.codes \ {c}
  BY <1>1, SesFields DEF SecretRecord
<1> HIDE DEF f
<1>6. \A s \in T : \E t \in ses.totp : /\ s.n = t.n /\ s.codes \subseteq t.codes
                                       /\ s = IF t \in H THEN f(t) ELSE t
  BY <1>1, <1>5
<1>7. \A s, t \in T : s.n = t.n => s = t
  BY <1>6 DEF CodeInv
<1>8. \A s \in T : c \notin s.codes
  <2>1. ASSUME NEW t \in ses.totp, c \in t.codes
        PROVE  t \in H
    BY <1>1, <1>2, <1>3, <2>1 DEF CodeInv
  <2> QED BY <1>1, <1>5, <2>1
<1> HIDE DEF T
<1>9. /\ ses'.totp = T /\ ses'.code = ses.code /\ sesLog'.made = sesLog.made
      /\ sesLog'.used = Append(sesLog.used, c)
  BY <1>0, <1>4 DEF SesRecord, SesLogRecord
<1>10. CodesLess
  BY <1>6, <1>7, <1>9 DEF CodesLess
<1>11. \A i \in DOMAIN sesLog.used : sesLog.used[i] # c
  BY <1>3 DEF CodeInv
<1>12. \A d \in ses'.code : d[2] # c
  BY <1>3, <1>9 DEF CodeInv
<1> QED BY <1>3, <1>8, <1>9, <1>10, <1>11, <1>12, CodeSpent

LEMMA CodesRest ==
    ASSUME CodeInv, CodesStay
    PROVE  CodeInv'
BY DEF CodeInv, CodesStay

LEMMA IssueLeavesCodes ==
    ASSUME SesCore, NEW q \in Slots, NEW label, NEW p, NEW family, NEW from, NEW then,
           Issue(q, label, p, family, from, then)
    PROVE  CodesStay
BY DEF Issue, Pause, CodesStay, SesCore, SesRecord, SesLogRecord

LEMMA LoginKeepsCodes ==
    ASSUME TypeInv, CodeInv, NEW q \in Slots, LoginActs(q)
    PROVE  CodeInv'
<1>0. /\ SesCore /\ ses \in SesRecord /\ sesLog \in SesLogRecord /\ LocalsOK(req[q])
      /\ \A i \in Pairs : ses.pair[i].sub \in Principals
  BY PairTypes DEF TypeInv, SesInv, SesCore, PoolInv
<1>1. ASSUME UNCHANGED <<ses, sesLog>>
      PROVE  CodeInv'
  BY <1>1, CodesRest DEF CodesStay
<1>2. CASE LoginBackupCode(q)
  <2>1. CASE Holding(req[q].p, req[q].code) = {}
    BY <1>1, <1>2, <2>1 DEF LoginBackupCode, Pause
  <2>2. CASE Holding(req[q].p, req[q].code) # {}
    BY <1>0, <1>2, <2>2, BackupSpent DEF LoginBackupCode
  <2> QED BY <2>1, <2>2
<1>3. CASE Authorize(q)
  <2>1. PICK i \in Pairs :
          /\ ses' = [ses EXCEPT !.code = @ \cup {<<ses.pair[i].sub, sesLog.made>>}]
          /\ sesLog' = [sesLog EXCEPT !.made = @ + 1]
    BY <1>3 DEF Authorize
  <2> DEFINE new == <<ses.pair[i].sub, sesLog.made>>
  <2>2. /\ ses'.code = ses.code \cup {new} /\ ses'.totp = ses.totp
        /\ sesLog'.made = sesLog.made + 1 /\ sesLog'.used = sesLog.used
    BY <1>0, <2>1 DEF SesRecord, SesLogRecord
  <2>3. new[2] = sesLog.made /\ sesLog.made \in Nat
    BY <1>0, SesFields
  <2>4. /\ \A t \in ses.totp : t.n \in Nat
        /\ \A d \in ses.code : d[2] \in Nat
        /\ \A k \in DOMAIN sesLog.used : sesLog.used[k] \in Nat
    <3> HIDE DEF new
    <3>1. \A t \in ses.totp : t.n \in Nat
      BY <1>0, SesFields DEF SecretRecord
    <3>2. \A d \in ses.code : d[2] \in Nat
      BY <1>0, SesFields
    <3>3. sesLog.used \in Seq(Nat)
      BY <1>0, SesFields
    <3> QED BY <3>1, <3>2, <3>3, ElementOfSeq
  <2>5. /\ \A t \in ses.totp : t.n < sesLog.made + 1 /\ t.n # sesLog.made
        /\ \A d \in ses.code : d[2] < sesLog.made + 1 /\ d[2] # sesLog.made
        /\ \A k \in DOMAIN sesLog.used : /\ sesLog.used[k] < sesLog.made + 1
                                         /\ sesLog.used[k] # sesLog.made
    BY <2>3, <2>4 DEF CodeInv
  <2> HIDE DEF new
  <2> QED BY <2>2, <2>3, <2>5 DEF CodeInv
<1>4. CASE ConsumeCode(q)
  <2> DEFINE c == req[q].code
  <2>1. req[q].at = "code.consume" /\ c \in Principals \X Nat
    BY <1>0, <1>4 DEF ConsumeCode, At, LocalsOK
  <2>2. CASE c \notin ses.code
    BY <1>1, <1>4, <2>2 DEF ConsumeCode, Pause
  <2>3. CASE c \in ses.code
    <3>1. /\ ses' = [ses EXCEPT !.code = @ \ {c}]
          /\ sesLog' = [sesLog EXCEPT !.used = Append(@, c[2])]
      BY <1>4, <2>3 DEF ConsumeCode
    <3>2. /\ ses'.code = ses.code \ {c} /\ ses'.totp = ses.totp
          /\ sesLog'.made = sesLog.made /\ sesLog'.used = Append(sesLog.used, c[2])
      BY <1>0, <3>1 DEF SesRecord, SesLogRecord
    <3>3. c[2] \in Nat
      BY <2>1
    <3> HIDE DEF c
    <3>4. CodesLess
      BY <3>2 DEF CodesLess, CodeInv
    <3>5. /\ c[2] < sesLog.made /\ \A k \in DOMAIN sesLog.used : sesLog.used[k] # c[2]
          /\ \A d \in ses'.code : d[2] # c[2]
      BY <2>3, <3>2 DEF CodeInv
    <3>6. \A t \in ses'.totp : c[2] \notin t.codes
      BY <2>3, <3>2 DEF CodeInv
    <3> QED BY <1>0, <3>2, <3>3, <3>4, <3>5, <3>6, CodeSpent
  <2> QED BY <2>2, <2>3
<1>5. CASE LoginIssue(q) \/ CodeIssue(q)
  BY <1>0, <1>5, IssueLeavesCodes, CodesRest DEF LoginIssue, CodeIssue
<1>6. CASE Login(q) \/ LoginCallback(q) \/ CodeGrant(q) \/ LoginRehash(q) \/ LoginSecondFactor(q)
           \/ LoginTotp(q) \/ LoginSave(q) \/ CallbackCreatesUser(q) \/ CallbackLinks(q)
  BY <1>1, <1>6 DEF Login, LoginCallback, CodeGrant, LoginRehash, LoginSecondFactor, LoginTotp,
                    LoginSave, CallbackCreatesUser, CallbackLinks, Glance, Pause
<1> QED BY <1>2, <1>3, <1>4, <1>5, <1>6 DEF LoginActs

LEMMA TokensLeaveCodes ==
    ASSUME SesCore, NEW q \in Slots, TokenActs(q)
    PROVE  CodesStay
<1> USE DEF CodesStay
<1>0. ses \in SesRecord /\ sesLog \in SesLogRecord
  BY DEF SesCore
<1>1. CASE RotateRefreshToken(q)
  BY <1>0, <1>1 DEF RotateRefreshToken, Glance, Revoke, SesRecord
<1>2. CASE RefreshCascade(q) \/ LogoutAll(q) \/ LogoutRefresh(q)
  BY <1>0, <1>2 DEF RefreshCascade, LogoutAll, LogoutRefresh, Revoke, SesRecord, SesLogRecord
<1>3. CASE LogoutAccess(q)
  BY <1>0, <1>3 DEF LogoutAccess, Revoke, SesRecord
<1>4. CASE RefreshIssue(q)
  BY <1>4, IssueLeavesCodes DEF RefreshIssue
<1>5. CASE Logout(q) \/ RefreshReuse(q) \/ CascadeConflict(q) \/ RefreshPrincipal(q)
           \/ AuthenticateJwt(q) \/ LogoutIssuedAt(q)
  BY <1>5 DEF Logout, WithToken, Glance, RefreshReuse, Pause, CascadeConflict, RefreshPrincipal,
              AuthenticateJwt, LogoutIssuedAt
<1> QED BY <1>1, <1>2, <1>3, <1>4, <1>5 DEF TokenActs

LEMMA MfaKeepsCodes ==
    ASSUME TypeInv, CodeInv, NEW q \in Slots, MfaActs(q)
    PROVE  CodeInv'
<1> DEFINE l == req[q]
<1>0. /\ SesCore /\ ses \in SesRecord /\ sesLog \in SesLogRecord /\ LocalsOK(l)
  BY DEF TypeInv, SesInv, SesCore, PoolInv
<1>1. CASE SetupMfa(q) \/ VerifyMfa(q) \/ DisableMfa(q)
  <2>1. CodesStay
    BY <1>0, <1>1 DEF SetupMfa, VerifyMfa, DisableMfa, MfaCall, CodesStay, SesLogRecord
  <2> QED BY <2>1, CodesRest
<1>2. CASE VerifyMfaFetch(q) \/ DisableMfaCheck(q)
  BY <1>2, CodesRest DEF VerifyMfaFetch, DisableMfaCheck, Pause, CodesStay
<1>3. CASE SetupMfaClear(q) \/ DisableMfaDelete(q)
  <2>1. /\ ses'.totp \subseteq ses.totp /\ ses'.code = ses.code
        /\ sesLog' = sesLog
    BY <1>0, <1>3 DEF SetupMfaClear, DisableMfaDelete, SesRecord
  <2>2. CodesLess
    BY <2>1 DEF CodesLess, CodeInv
  <2> QED BY <2>1, <2>2, CodesShrink
<1>4. CASE SetupMfaSave(q)
  <2> DEFINE n == sesLog.made
             new == [u |-> l.p, n |-> n, on |-> FALSE, codes |-> {n}]
  <2>1. /\ ses'.totp \in {ses.totp, ses.totp \cup {new}} /\ ses'.code = ses.code
        /\ sesLog'.made = n + 1 /\ sesLog'.used = sesLog.used
    BY <1>0, <1>4 DEF SetupMfaSave, SesRecord, SesLogRecord
  <2>2. new.n = n /\ new.codes = {n} /\ n \in Nat
    BY <1>0, SesFields
  <2>3. /\ \A t \in ses.totp : t.n \in Nat
        /\ \A d \in ses.code : d[2] \in Nat
        /\ \A k \in DOMAIN sesLog.used : sesLog.used[k] \in Nat
    BY <1>0, SesFields, ElementOfSeq DEF SecretRecord
  <2>4. /\ \A t \in ses.totp : t.n < n + 1 /\ t.n # n
        /\ \A d \in ses.code : d[2] < n + 1 /\ d[2] # n
        /\ \A k \in DOMAIN sesLog.used : sesLog.used[k] < n + 1 /\ sesLog.used[k] # n
    BY <2>2, <2>3 DEF CodeInv
  <2>5. n < n + 1
    BY <2>2
  <2> HIDE DEF new, n
  <2>6. \A t \in ses'.totp : t.n < n + 1 /\ t.codes \subseteq {t.n}
    BY <2>1, <2>2, <2>4, <2>5 DEF CodeInv
  <2>7. \A s, t \in ses'.totp : s.n = t.n => s = t
    BY <2>1, <2>2, <2>4 DEF CodeInv
  <2>8. \A c \in ses'.code, t \in ses'.totp : c[2] # t.n
    BY <2>1, <2>2, <2>4 DEF CodeInv
  <2>9. \A i \in DOMAIN sesLog.used : \A t \in ses'.totp : sesLog.used[i] \notin t.codes
    BY <2>1, <2>2, <2>4 DEF CodeInv
  <2> QED BY <2>1, <2>4, <2>6, <2>7, <2>8, <2>9 DEF CodeInv
<1>5. CASE VerifyMfaEnable(q)
  <2>1. l.at = "mfa.enable" /\ l.n \in Nat
    BY <1>0, <1>5 DEF VerifyMfaEnable, At, LocalsOK
  <2>2. CASE l.code = NoCode
    <3> DEFINE f(t) == IF t.u = l.p THEN [t EXCEPT !.on = TRUE] ELSE t
    <3>1. /\ ses'.totp = {f(t) : t \in ses.totp} /\ ses'.code = ses.code
          /\ sesLog'.made = sesLog.made /\ sesLog'.used = sesLog.used
      BY <1>0, <1>5, <2>2 DEF VerifyMfaEnable, SesRecord, SesLogRecord
    <3>2. \A t \in ses.totp : f(t).n = t.n /\ f(t).codes = t.codes
      BY <1>0, SesFields DEF SecretRecord
    <3> HIDE DEF f
    <3>3. CodesLess
      BY <3>1, <3>2 DEF CodesLess, CodeInv
    <3> QED BY <3>1, <3>3, CodesShrink
  <2>3. CASE l.code # NoCode /\ Holding(l.p, l.code) = {}
    BY <1>5, <2>3, CodesRest DEF VerifyMfaEnable, Pause, CodesStay
  <2>4. CASE l.code # NoCode /\ Holding(l.p, l.code) # {}
    BY <1>0, <1>5, <2>1, <2>4, BackupSpent DEF VerifyMfaEnable
  <2> QED BY <2>2, <2>3, <2>4
<1> QED BY <1>1, <1>2, <1>3, <1>4, <1>5 DEF MfaActs

LEMMA NextKeepsCodes ==
    ASSUME TypeInv, ServeInv, CodeInv, [Next]_accessVars
    PROVE  CodeInv'
<1>0. SesCore /\ ses \in SesRecord
  BY DEF TypeInv, SesInv, SesCore
<1>1. ASSUME UNCHANGED <<ses, sesLog>>
      PROVE  CodeInv'
  BY <1>1, CodesRest DEF CodesStay
<1>2. ASSUME NEW q \in Slots, SessionsFollow(Gone)
      PROVE  CodeInv'
  <2>1. ses'.totp \subseteq ses.totp /\ ses'.code = ses.code /\ sesLog' = sesLog
    BY <1>0, <1>2 DEF SessionsFollow, SesRecord
  <2>2. CodesLess
    BY <2>1 DEF CodesLess, CodeInv
  <2> QED BY <2>1, <2>2, CodesShrink
<1>3. ASSUME NEW q \in Slots, LoginActs(q) \/ TokenActs(q) \/ MfaActs(q)
      PROVE  CodeInv'
  BY <1>0, <1>3, LoginKeepsCodes, TokensLeaveCodes, CodesRest, MfaKeepsCodes
<1>4. ASSUME NEW q \in Slots, GrantIssue(q)
      PROVE  CodeInv'
  BY <1>0, <1>4, IssueLeavesCodes, CodesRest DEF GrantIssue
<1>5. ASSUME NEW q \in Slots, KeyActs(q) \/ LookupActs(q) \/ (Die(q) /\ SessionsQuiet)
      PROVE  CodeInv'
  BY <1>1, <1>5, KeysTyped DEF SessionsQuiet
<1>6. CASE CodeExpires
  <2>1. ses'.totp = ses.totp /\ ses'.code \subseteq ses.code /\ sesLog' = sesLog
    BY <1>0, <1>6 DEF CodeExpires, SesRecord
  <2>2. CodesLess
    BY <2>1 DEF CodesLess, CodeInv
  <2> QED BY <2>1, <2>2, CodesShrink
<1>7. CASE Tick \/ UNCHANGED accessVars
  BY <1>1, <1>7 DEF Tick, SessionsQuiet, accessVars
<1> QED BY <1>2, <1>3, <1>4, <1>5, <1>6, <1>7, NextCases

LEMMA InitCodes ==
    ASSUME Init
    PROVE  CodeInv
<1>1. ses.totp = {} /\ ses.code = {} /\ sesLog.used = <<>>
  BY DEF Init, SesInit
<1>2. DOMAIN sesLog.used = {}
  BY <1>1
<1> QED BY <1>1, <1>2 DEF CodeInv

\* However requests race, a refresh token brings one pair, a backup code admits
\* one login or one verification, and an authorisation code is redeemed once
\* (auth.py:854, auth.py:1034, mfa.py:266, authorization_codes.py:62).
THEOREM SingleUse == Spec => []UsedOnce
<1>1. Init => TokenInv /\ CodeInv
  BY InitTokens, InitCodes
<1>2. TypeInv /\ ServeInv /\ TokenInv /\ CodeInv /\ [Next]_accessVars => TokenInv' /\ CodeInv'
  BY NextKeepsTokens, NextKeepsCodes
<1>3. TokenInv /\ CodeInv => UsedOnce
  BY DEF TokenInv, RotationInv, CodeInv, UsedOnce
<1> QED BY <1>1, <1>2, <1>3, Typed, PTL DEF Spec

-----------------------------------------------------------------------------
(* Second factors.                                                         *)

OnMfaOf(l, u) == OnMfa(l) /\ l.mfa = u

\* One call at a time about u's second factor; one secret, which a setup has
\* cleared before it saves and which is still the one a verification read.
UserInv(u) ==
  /\ \A q, r \in Slots : OnMfaOf(req[q], u) /\ OnMfaOf(req[r], u) => q = r
  /\ \A s, t \in Secrets(u) : s = t
  /\ \A t \in Secrets(u) : t.on => t.n \in sesLog.verified
  /\ \A q \in Slots : OnMfaOf(req[q], u) =>
       /\ req[q].at = "mfa.save" => Secrets(u) = {}
       /\ req[q].at = "mfa.enable" => \A t \in Secrets(u) : t.n = req[q].n

FactorInv == \A u \in Users \ sesLog.overlap : UserInv(u)

\* u gets no secret, none of u's is enabled and no call about it gets to where
\* it would be.
UserStays(u) ==
  /\ \A s \in Secrets(u)' : \E t \in Secrets(u) : s.n = t.n /\ (s.on => t.on)
  /\ \A r \in Slots : OnMfaOf(req'[r], u) =>
       /\ OnMfaOf(req[r], u)
       /\ req'[r].at \in {"mfa.save", "mfa.enable"} => req'[r] = req[r]
  /\ sesLog.verified \subseteq sesLog'.verified

LEMMA UserStill ==
    ASSUME NEW u, UserInv(u), UserStays(u), CodeInv'
    PROVE  UserInv(u)'
<1>1. \A s, t \in Secrets(u)' : s = t
  <2>1. \A s, t \in Secrets(u)' : s.n = t.n
    BY DEF UserInv, UserStays
  <2>2. \A s, t \in ses'.totp : s.n = t.n => s = t
    BY DEF CodeInv
  <2> QED BY <2>1, <2>2 DEF Secrets
<1>2. \A q, r \in Slots : OnMfaOf(req'[q], u) /\ OnMfaOf(req'[r], u) => q = r
  BY DEF UserInv, UserStays
<1>3. \A t \in Secrets(u)' : t.on => t.n \in sesLog'.verified
  BY DEF UserInv, UserStays
<1>4. ASSUME NEW q \in Slots, OnMfaOf(req'[q], u)
      PROVE  /\ req'[q].at = "mfa.save" => Secrets(u)' = {}
             /\ req'[q].at = "mfa.enable" => \A t \in Secrets(u)' : t.n = req'[q].n
  BY <1>4 DEF UserInv, UserStays
<1> QED BY <1>1, <1>2, <1>3, <1>4 DEF UserInv, OnMfaOf, OnMfa

LEMMA FactorsStay ==
    ASSUME FactorInv, CodeInv', sesLog.overlap \subseteq sesLog'.overlap,
           \A u \in Users : UserStays(u)
    PROVE  FactorInv'
BY UserStill DEF FactorInv

\* Secrets stay or go, and a backup code may.
SecretsStay ==
  /\ \A s \in ses'.totp : \E t \in ses.totp : s.u = t.u /\ s.n = t.n /\ s.on = t.on
  /\ sesLog'.verified = sesLog.verified /\ sesLog'.overlap = sesLog.overlap

\* No call about a second factor goes on.
NoneVerifies == \A r \in Slots : req'[r] = req[r] \/ ~OnMfa(req'[r])

LEMMA FactorsRest ==
    ASSUME FactorInv, CodeInv', SecretsStay, NoneVerifies
    PROVE  FactorInv'
<1>1. ASSUME NEW u \in Users
      PROVE  UserStays(u)
  BY DEF UserStays, SecretsStay, NoneVerifies, Secrets, OnMfaOf
<1> QED BY <1>1, FactorsStay DEF SecretsStay

LEMMA IssueLeavesSecrets ==
    ASSUME SesCore, NEW q \in Slots, NEW label, NEW p, NEW family, NEW from, NEW then,
           Issue(q, label, p, family, from, then)
    PROVE  SecretsStay
BY DEF Issue, Pause, SecretsStay, SesCore, SesRecord, SesLogRecord

LEMMA LoginLeavesSecrets ==
    ASSUME SesCore, NEW q \in Slots, LoginActs(q)
    PROVE  SecretsStay
<1>0. ses \in SesRecord /\ sesLog \in SesLogRecord
  BY DEF SesCore
<1>1. ASSUME UNCHANGED <<ses, sesLog>>
      PROVE  SecretsStay
  BY <1>1 DEF SecretsStay
<1>2. CASE LoginBackupCode(q)
  <2> DEFINE u == req[q].p
             c == req[q].code
             H == Holding(u, c)
             f(t) == [t EXCEPT !.codes = @ \ {c}, !.on = @ \/ FALSE]
  <2>1. CASE H = {}
    BY <1>1, <1>2, <2>1 DEF LoginBackupCode, Pause
  <2>2. CASE H # {}
    <3>1. ses' = [ses EXCEPT !.totp = (ses.totp \ H) \cup {f(t) : t \in H}]
          /\ sesLog' = [sesLog EXCEPT !.used = Append(@, c), !.verified = @ \cup {}]
      BY <1>2, <2>2 DEF LoginBackupCode, Spend
    <3>2. H \subseteq ses.totp
      BY DEF Holding, Secrets
    <3>3. \A t \in H : f(t).u = t.u /\ f(t).n = t.n /\ f(t).on = t.on
      BY <1>0, <3>2, SesFields DEF SecretRecord
    <3> HIDE DEF f, H
    <3>4. /\ ses'.totp = (ses.totp \ H) \cup {f(t) : t \in H}
          /\ sesLog'.verified = sesLog.verified /\ sesLog'.overlap = sesLog.overlap
      BY <1>0, <3>1 DEF SesRecord, SesLogRecord
    <3> QED BY <3>2, <3>3, <3>4 DEF SecretsStay
  <2> QED BY <2>1, <2>2
<1>3. CASE Authorize(q)
  BY <1>0, <1>3 DEF Authorize, SecretsStay, SesRecord, SesLogRecord
<1>4. CASE ConsumeCode(q)
  BY <1>0, <1>4 DEF ConsumeCode, Pause, SecretsStay, SesRecord, SesLogRecord
<1>5. CASE LoginIssue(q) \/ CodeIssue(q)
  BY <1>5, IssueLeavesSecrets DEF LoginIssue, CodeIssue
<1>6. CASE Login(q) \/ LoginCallback(q) \/ CodeGrant(q) \/ LoginRehash(q) \/ LoginSecondFactor(q)
           \/ LoginTotp(q) \/ LoginSave(q) \/ CallbackCreatesUser(q) \/ CallbackLinks(q)
  BY <1>1, <1>6 DEF Login, LoginCallback, CodeGrant, LoginRehash, LoginSecondFactor, LoginTotp,
                    LoginSave, CallbackCreatesUser, CallbackLinks, Glance, Pause
<1> QED BY <1>2, <1>3, <1>4, <1>5, <1>6 DEF LoginActs

LEMMA TokensLeaveSecrets ==
    ASSUME SesCore, NEW q \in Slots, TokenActs(q)
    PROVE  SecretsStay
<1> USE DEF SecretsStay
<1>0. ses \in SesRecord /\ sesLog \in SesLogRecord
  BY DEF SesCore
<1>1. CASE RotateRefreshToken(q)
  BY <1>0, <1>1 DEF RotateRefreshToken, Glance, Revoke, SesRecord
<1>2. CASE RefreshCascade(q) \/ LogoutAll(q) \/ LogoutRefresh(q)
  BY <1>0, <1>2 DEF RefreshCascade, LogoutAll, LogoutRefresh, Revoke, SesRecord, SesLogRecord
<1>3. CASE LogoutAccess(q)
  BY <1>0, <1>3 DEF LogoutAccess, Revoke, SesRecord
<1>4. CASE RefreshIssue(q)
  BY <1>4, IssueLeavesSecrets DEF RefreshIssue
<1>5. CASE Logout(q) \/ RefreshReuse(q) \/ CascadeConflict(q) \/ RefreshPrincipal(q)
           \/ AuthenticateJwt(q) \/ LogoutIssuedAt(q)
  BY <1>5 DEF Logout, WithToken, Glance, RefreshReuse, Pause, CascadeConflict, RefreshPrincipal,
              AuthenticateJwt, LogoutIssuedAt
<1> QED BY <1>1, <1>2, <1>3, <1>4, <1>5 DEF TokenActs

\* authenticate_jwt leads on to the call it was for, about the same user.
LEMMA TokensLeadOn ==
    ASSUME TypeInv, NEW q \in Slots, TokenActs(q)
    PROVE  OnMfa(req'[q]) =>
             /\ OnMfa(req[q]) /\ req'[q].mfa = req[q].mfa
             /\ req'[q].at \notin {"mfa.save", "mfa.enable"}
<1>0. /\ LocalsOK(req[q]) /\ DOMAIN req = Slots /\ "at" \in DOMAIN req[q]
      /\ ~OnMfa(Idle)
  BY IdleOK DEF TypeInv, PoolInv, LocalsOK, OnMfa, Delicate, HasPair
<1>1. CASE AuthenticateJwt(q)
  <2> DEFINE p == ses.pair[req[q].i].sub
             next == With(To(q, req[q].then), [p |-> p, read |-> acc.node[p]])
  <2>1. /\ req[q].at = "jwt.principal" /\ req[q].then \in JwtThen
        /\ req[q].then \in MfaEntries => "mfa" \in DOMAIN req[q]
    BY <1>0, <1>1 DEF AuthenticateJwt, At, LocalsOK
  <2>2. req'[q] = Idle \/ req'[q] = next
    BY <1>0, <1>1 DEF AuthenticateJwt, Pause, Wait, Step
  <2>3. next.at = req[q].then /\ (req[q].then \in MfaEntries => next.mfa = req[q].mfa)
    BY <1>0, <2>1 DEF With, To
  <2> HIDE DEF next
  <2>4. next.at \in MfaLabels => req[q].then \in MfaEntries
    BY <2>1, <2>3 DEF JwtThen, MfaEntries, MfaLabels
  <2>5. next.at # "jwt.principal" /\ next.at \notin {"mfa.save", "mfa.enable"}
    BY <2>1, <2>3 DEF JwtThen, MfaEntries
  <2> QED BY <1>0, <2>1, <2>2, <2>3, <2>4, <2>5 DEF OnMfa
<1>2. CASE RefreshIssue(q)
  <2>1. GoesOn(q)
    BY <1>2, IssueGoes DEF RefreshIssue, IssueThen, TypeInv
  <2> QED BY <2>1 DEF GoesOn, Delicate, HasPair, OnMfa
<1>3. CASE Logout(q)
  <2>1. \E i \in Pairs : req'[q] = [at |-> "jwt.principal", i |-> i, then |-> "logout.access"]
    BY <1>0, <1>3 DEF Logout, WithToken, Glance, Look, Begin
  <2> QED BY <2>1 DEF OnMfa, MfaLabels, MfaEntries
<1>4. CASE RotateRefreshToken(q) \/ RefreshReuse(q) \/ RefreshCascade(q) \/ CascadeConflict(q)
           \/ RefreshPrincipal(q) \/ LogoutAccess(q) \/ LogoutAll(q) \/ LogoutIssuedAt(q)
           \/ LogoutRefresh(q)
  <2>1. req'[q].at \in {"idle", "refresh.reuse", "refresh.principal", "refresh.cascade",
                        "refresh.issue", "logout.all", "logout.issued", "logout.refresh"}
    <3> USE <1>0 DEF Begin, Step, Wait, Look, Glance, Pause, At, To, With, Idle
    <3>1. CASE RotateRefreshToken(q)
      BY <3>1 DEF RotateRefreshToken
    <3>2. CASE RefreshReuse(q)
      BY <3>2 DEF RefreshReuse
    <3>3. CASE RefreshCascade(q)
      BY <3>3 DEF RefreshCascade
    <3>4. CASE CascadeConflict(q)
      BY <3>4 DEF CascadeConflict
    <3>5. CASE RefreshPrincipal(q)
      BY <3>5 DEF RefreshPrincipal
    <3>6. CASE LogoutAccess(q) \/ LogoutAll(q) \/ LogoutIssuedAt(q) \/ LogoutRefresh(q)
      BY <3>6 DEF LogoutAccess, LogoutAll, LogoutIssuedAt, LogoutRefresh
    <3> QED BY <1>4, <3>1, <3>2, <3>3, <3>4, <3>5, <3>6
  <2> QED BY <2>1 DEF OnMfa, MfaLabels
<1> QED BY <1>1, <1>2, <1>3, <1>4 DEF TokenActs

LEMMA TokensKeepFactors ==
    ASSUME TypeInv, FactorInv, CodeInv', NEW q \in Slots, TokenActs(q)
    PROVE  FactorInv'
<1>0. PoolInv /\ SesCore
  BY DEF TypeInv, SesInv
<1>1. \A r \in Slots : r # q => req'[r] = req[r]
  BY <1>0, TokensGo, OthersStay DEF TokenActs
<1>2. SecretsStay
  BY <1>0, TokensLeaveSecrets
<1>3. OnMfa(req'[q]) => /\ OnMfa(req[q]) /\ req'[q].mfa = req[q].mfa
                        /\ req'[q].at \notin {"mfa.save", "mfa.enable"}
  BY TokensLeadOn
<1>4. ASSUME NEW u \in Users
      PROVE  UserStays(u)
  BY <1>1, <1>2, <1>3 DEF UserStays, SecretsStay, Secrets, OnMfaOf
<1> QED BY <1>2, <1>4, FactorsStay DEF SecretsStay

\* A call that begins is alone, or notes that it is not.
LEMMA MfaBegins ==
    ASSUME TypeInv, FactorInv, CodeInv', NEW q \in Slots, NEW then, MfaCall(q, then),
           \A r \in Slots : r # q => req'[r] = req[r]
    PROVE  FactorInv'
<1>0. /\ SesCore /\ DOMAIN req = Slots /\ \A r \in Slots : LocalsOK(req[r])
      /\ sesLog \in SesLogRecord
  BY DEF TypeInv, PoolInv, SesInv, SesCore
<1>1. PICK i \in Pairs :
        /\ req[q] = Idle
        /\ req'[q] = [at |-> "jwt.principal", i |-> i, then |-> then, mfa |-> ses.pair[i].sub]
        /\ sesLog' = [sesLog EXCEPT !.overlap =
             IF \E r \in InFlight : "mfa" \in DOMAIN req[r] /\ req[r].mfa = ses.pair[i].sub
             THEN @ \cup {ses.pair[i].sub} ELSE @]
        /\ ses' = ses
  BY <1>0 DEF MfaCall, Look, Begin
<1> DEFINE w == ses.pair[i].sub
<1>2. /\ sesLog'.verified = sesLog.verified /\ sesLog.overlap \subseteq sesLog'.overlap
      /\ (\E r \in InFlight : "mfa" \in DOMAIN req[r] /\ req[r].mfa = w) => w \in sesLog'.overlap
  BY <1>0, <1>1 DEF SesLogRecord
<1>3. req'[q].at = "jwt.principal" /\ req'[q].mfa = w
  BY <1>1
<1>4. ASSUME NEW r \in Slots, OnMfa(req[r]), req[r].mfa = w
      PROVE  w \in sesLog'.overlap
  <2>1. "mfa" \in DOMAIN req[r]
    BY <1>0, <1>4 DEF LocalsOK, OnMfa
  <2>2. req[r] # Idle
    BY <1>4, IdleOK DEF OnMfa, Delicate, HasPair
  <2> QED BY <1>2, <1>4, <2>1, <2>2 DEF InFlight
<1> HIDE DEF w
<1>5. ASSUME NEW u \in Users, u \notin sesLog'.overlap
      PROVE  UserInv(u)'
  <2>1. UserInv(u)
    BY <1>2, <1>5 DEF FactorInv
  <2>2. CASE u # w
    <3>1. UserStays(u)
      BY <1>1, <1>2, <1>3, <2>2 DEF UserStays, Secrets, OnMfaOf
    <3> QED BY <2>1, <3>1, UserStill
  <2>3. CASE u = w
    <3>1. \A r \in Slots : ~OnMfaOf(req[r], u)
      BY <1>4, <1>5, <2>3 DEF OnMfaOf
    <3>2. \A r \in Slots : OnMfaOf(req'[r], u) => r = q
      BY <3>1 DEF OnMfaOf
    <3>3. Secrets(u)' = Secrets(u)
      BY <1>1 DEF Secrets
    <3>4. \A r \in Slots : OnMfaOf(req'[r], u) => req'[r].at = "jwt.principal"
      BY <1>3, <3>2
    <3> QED BY <1>2, <2>1, <3>2, <3>3, <3>4 DEF UserInv, OnMfaOf, OnMfa, Secrets
  <2> QED BY <2>2, <2>3
<1> QED BY <1>5 DEF FactorInv

\* The step of a call q about u: nobody else's secrets or calls are touched, and
\* if q is alone, u's are as they should be after it.
MfaStep(q, u) ==
  /\ OnMfaOf(req[q], u)
  /\ \A r \in Slots : r # q => req'[r] = req[r]
  /\ OnMfa(req'[q]) => req'[q].mfa = u
  /\ \A s \in ses'.totp : s.u # u => s \in ses.totp
  /\ sesLog.verified \subseteq sesLog'.verified /\ sesLog'.overlap = sesLog.overlap

LEMMA MfaStepKeeps ==
    ASSUME FactorInv, CodeInv', NEW q \in Slots, NEW u \in Users, MfaStep(q, u),
           UserInv(u) =>
             /\ \A s, t \in Secrets(u)' : s = t
             /\ \A t \in Secrets(u)' : t.on => t.n \in sesLog'.verified
             /\ OnMfa(req'[q]) =>
                  /\ req'[q].at = "mfa.save" => Secrets(u)' = {}
                  /\ req'[q].at = "mfa.enable" => \A t \in Secrets(u)' : t.n = req'[q].n
    PROVE  FactorInv'
<1>1. ASSUME NEW v \in Users, v # u
      PROVE  UserStays(v)
  BY <1>1 DEF UserStays, MfaStep, OnMfaOf, Secrets
<1>2. ASSUME UserInv(u)
      PROVE  UserInv(u)'
  <2>1. \A r \in Slots : OnMfaOf(req'[r], u) => r = q
    BY <1>2 DEF UserInv, MfaStep, OnMfaOf
  <2> QED BY <1>2, <2>1 DEF UserInv, OnMfaOf, OnMfa
<1>3. ASSUME NEW v \in Users, v \notin sesLog'.overlap
      PROVE  UserInv(v)'
  <2>1. UserInv(v)
    BY <1>3 DEF FactorInv, MfaStep
  <2> QED BY <1>1, <1>2, <2>1, UserStill
<1> QED BY <1>3 DEF FactorInv

LEMMA MfaKeepsFactors ==
    ASSUME TypeInv, FactorInv, CodeInv, CodeInv', NEW q \in Slots, MfaActs(q)
    PROVE  FactorInv'
<1> DEFINE l == req[q]
<1>u. PICK u : u = l.p
  OBVIOUS
<1>0. /\ PoolInv /\ SesCore /\ ses \in SesRecord /\ sesLog \in SesLogRecord /\ LocalsOK(l)
      /\ DOMAIN req = Slots /\ "at" \in DOMAIN l /\ ~OnMfa(Idle)
  BY IdleOK DEF TypeInv, SesInv, SesCore, PoolInv, LocalsOK, OnMfa, Delicate, HasPair
<1>1. \A r \in Slots : r # q => req'[r] = req[r]
  BY <1>0, MfaGoes, OthersStay DEF MfaActs
<1>2. CASE SetupMfa(q) \/ VerifyMfa(q) \/ DisableMfa(q)
  BY <1>1, <1>2, MfaBegins DEF SetupMfa, VerifyMfa, DisableMfa
<1>3. ASSUME l.at \in MfaLabels
      PROVE  OnMfaOf(l, u) /\ u \in Users /\ "mfa" \in DOMAIN l /\ l.mfa = u
  BY <1>0, <1>u, <1>3 DEF LocalsOK, OnMfaOf, OnMfa
<1>4. CASE SetupMfaClear(q)
  <2>1. /\ l.at = "mfa.clear" /\ req'[q] = To(q, "mfa.save")
        /\ ses' = [ses EXCEPT !.totp = @ \ Secrets(u)] /\ sesLog' = sesLog
    BY <1>0, <1>u, <1>4 DEF SetupMfaClear, Step, At
  <2>2. OnMfaOf(l, u) /\ u \in Users /\ req'[q].mfa = u
    BY <1>0, <1>3, <2>1 DEF MfaLabels, To
  <2>3. ses'.totp = ses.totp \ Secrets(u)
    BY <1>0, <2>1 DEF SesRecord
  <2>4. Secrets(u)' = {}
    BY <2>3 DEF Secrets
  <2>5. req'[q].at = "mfa.save"
    BY <1>0, <2>1 DEF To
  <2>6. MfaStep(q, u)
    BY <1>1, <2>1, <2>2, <2>3 DEF MfaStep
  <2> HIDE DEF l
  <2> QED BY <2>2, <2>4, <2>5, <2>6, MfaStepKeeps
<1>5. CASE SetupMfaSave(q)
  <2> DEFINE new == [u |-> u, n |-> sesLog.made, on |-> FALSE, codes |-> {sesLog.made}]
  <2>1. /\ l.at = "mfa.save" /\ req'[q] = Idle
        /\ ses' = [ses EXCEPT !.totp = IF Exists(u) THEN @ \cup {new} ELSE @]
        /\ sesLog' = [sesLog EXCEPT !.made = @ + 1]
    BY <1>0, <1>u, <1>5 DEF SetupMfaSave, Step, At
  <2>2. OnMfaOf(l, u) /\ u \in Users
    BY <1>3, <2>1 DEF MfaLabels
  <2>3. /\ ses'.totp \in {ses.totp, ses.totp \cup {new}}
        /\ sesLog'.verified = sesLog.verified /\ sesLog'.overlap = sesLog.overlap
    BY <1>0, <2>1 DEF SesRecord, SesLogRecord
  <2>4. new.u = u /\ new.on = FALSE
    OBVIOUS
  <2> HIDE DEF new
  <2>5. MfaStep(q, u)
    BY <1>0, <1>1, <2>1, <2>2, <2>3, <2>4 DEF MfaStep
  <2>6. UserInv(u) => Secrets(u) = {}
    BY <2>1, <2>2 DEF UserInv
  <2>7. Secrets(u) = {} => \A s \in Secrets(u)' : s = new
    BY <2>3, <2>4 DEF Secrets
  <2> HIDE DEF l
  <2> QED BY <1>0, <2>1, <2>2, <2>4, <2>5, <2>6, <2>7, MfaStepKeeps
<1>6. CASE VerifyMfaFetch(q)
  <2>1. PICK t \in Secrets(u) : \E c \in t.codes \cup {NoCode} :
          Pause(q, "mfa.verify", With(To(q, "mfa.enable"), [n |-> t.n, code |-> c]))
    BY <1>u, <1>6 DEF VerifyMfaFetch
  <2>2. PICK c \in t.codes \cup {NoCode} :
          Pause(q, "mfa.verify", With(To(q, "mfa.enable"), [n |-> t.n, code |-> c]))
    BY <2>1
  <2>3. /\ l.at = "mfa.verify" /\ ses' = ses /\ sesLog' = sesLog
        /\ req'[q] = With(To(q, "mfa.enable"), [n |-> t.n, code |-> c])
    BY <1>0, <2>2 DEF Pause, Wait, Step, At
  <2>4. OnMfaOf(l, u) /\ u \in Users /\ "mfa" \in DOMAIN l /\ l.mfa = u
    BY <1>3, <2>3 DEF MfaLabels
  <2>5. req'[q].at = "mfa.enable" /\ req'[q].mfa = u /\ req'[q].n = t.n
    BY <1>0, <2>3, <2>4 DEF With, To
  <2>6. Secrets(u)' = Secrets(u)
    BY <1>0, <2>3 DEF Secrets
  <2>7. MfaStep(q, u)
    BY <1>1, <2>3, <2>4, <2>5 DEF MfaStep
  <2>8. UserInv(u) => /\ \A r, s \in Secrets(u) : r = s
                      /\ \A s \in Secrets(u) : s.n = t.n
                      /\ \A s \in Secrets(u) : s.on => s.n \in sesLog.verified
    BY <2>1 DEF UserInv
  <2> HIDE DEF l
  <2> QED BY <2>3, <2>4, <2>5, <2>6, <2>7, <2>8, MfaStepKeeps
<1>7. CASE VerifyMfaEnable(q)
  <2>1. l.at = "mfa.enable" /\ req'[q] = Idle
    BY <1>0, <1>7 DEF VerifyMfaEnable, Pause, Wait, Step, At
  <2>2. OnMfaOf(l, u) /\ u \in Users
    BY <1>3, <2>1 DEF MfaLabels
  <2>u. \A t \in ses'.totp : t.u = u => t \in Secrets(u)'
    BY DEF Secrets
  <2>3. CASE l.code # NoCode /\ Holding(u, l.code) = {}
    <3>1. ses' = ses /\ sesLog' = sesLog
      BY <1>u, <1>7, <2>3 DEF VerifyMfaEnable, Pause
    <3>2. SecretsStay /\ NoneVerifies
      BY <1>0, <1>1, <2>1, <3>1 DEF SecretsStay, NoneVerifies
    <3> QED BY <3>2, FactorsRest
  <2>4. CASE ~(l.code # NoCode /\ Holding(u, l.code) = {})
    <3>1. /\ \A s \in ses'.totp : \E t \in ses.totp :
               /\ s.u = t.u /\ s.n = t.n /\ (s = t \/ t.u = u)
          /\ sesLog'.verified = sesLog.verified \cup {l.n} /\ sesLog'.overlap = sesLog.overlap
      <4>1. CASE l.code = NoCode
        <5> DEFINE f(t) == IF t.u = u THEN [t EXCEPT !.on = TRUE] ELSE t
        <5>1. /\ ses' = [ses EXCEPT !.totp = {f(t) : t \in ses.totp}]
              /\ sesLog' = [sesLog EXCEPT !.verified = @ \cup {l.n}]
          BY <1>u, <1>7, <4>1 DEF VerifyMfaEnable
        <5>2. \A t \in ses.totp : f(t).u = t.u /\ f(t).n = t.n /\ (f(t) = t \/ t.u = u)
          BY <1>0, SesFields DEF SecretRecord
        <5> HIDE DEF f
        <5>3. /\ ses'.totp = {f(t) : t \in ses.totp}
              /\ sesLog'.verified = sesLog.verified \cup {l.n}
              /\ sesLog'.overlap = sesLog.overlap
          BY <1>0, <5>1 DEF SesRecord, SesLogRecord
        <5> QED BY <5>2, <5>3
      <4>2. CASE l.code # NoCode /\ Holding(u, l.code) # {}
        <5> DEFINE H == Holding(u, l.code)
                   f(t) == [t EXCEPT !.codes = @ \ {l.code}, !.on = @ \/ TRUE]
        <5>1. /\ ses' = [ses EXCEPT !.totp = (ses.totp \ H) \cup {f(t) : t \in H}]
              /\ sesLog' = [sesLog EXCEPT !.used = Append(@, l.code), !.verified = @ \cup {l.n}]
          BY <1>u, <1>7, <4>2 DEF VerifyMfaEnable, Spend
        <5>2. H \subseteq ses.totp /\ \A t \in H : t.u = u
          BY DEF Holding, Secrets
        <5>3. \A t \in H : f(t).u = t.u /\ f(t).n = t.n
          BY <1>0, <5>2, SesFields DEF SecretRecord
        <5> HIDE DEF f, H
        <5>4. /\ ses'.totp = (ses.totp \ H) \cup {f(t) : t \in H}
              /\ sesLog'.verified = sesLog.verified \cup {l.n}
              /\ sesLog'.overlap = sesLog.overlap
          BY <1>0, <5>1 DEF SesRecord, SesLogRecord
        <5> QED BY <5>2, <5>3, <5>4
      <4> QED BY <2>4, <4>1, <4>2
    <3>2. MfaStep(q, u)
      BY <1>0, <1>1, <2>1, <2>2, <3>1 DEF MfaStep
    <3>3. UserInv(u) => \A t \in Secrets(u) : t.n = l.n
      BY <2>1, <2>2 DEF UserInv
    <3>4. UserInv(u) => \A s \in Secrets(u)' : s.n = l.n
      BY <3>1, <3>3 DEF Secrets
    <3>5. UserInv(u) => /\ \A s, t \in Secrets(u)' : s = t
                        /\ \A t \in Secrets(u)' : t.on => t.n \in sesLog'.verified
      BY <3>1, <3>4 DEF Secrets, CodeInv
    <3> HIDE DEF l
    <3> QED BY <1>0, <2>1, <2>2, <3>2, <3>5, MfaStepKeeps
  <2> QED BY <2>3, <2>4
<1>8. CASE DisableMfaCheck(q)
  <2>1. /\ l.at = "mfa.disable" /\ req'[q] = To(q, "mfa.delete") /\ ses' = ses /\ sesLog' = sesLog
    BY <1>0, <1>8 DEF DisableMfaCheck, Pause, Wait, Step, At
  <2>2. OnMfaOf(l, u) /\ u \in Users /\ req'[q].mfa = u /\ req'[q].at = "mfa.delete"
    BY <1>0, <1>3, <2>1 DEF MfaLabels, To
  <2>3. MfaStep(q, u)
    BY <1>1, <2>1, <2>2 DEF MfaStep
  <2>4. Secrets(u)' = Secrets(u)
    BY <1>0, <2>1 DEF Secrets
  <2>5. UserInv(u) => /\ \A r, s \in Secrets(u) : r = s
                      /\ \A s \in Secrets(u) : s.on => s.n \in sesLog.verified
    BY DEF UserInv
  <2> HIDE DEF l
  <2> QED BY <2>1, <2>2, <2>3, <2>4, <2>5, MfaStepKeeps
<1>9. CASE DisableMfaDelete(q)
  <2>1. /\ l.at = "mfa.delete" /\ req'[q] = Idle
        /\ ses' = [ses EXCEPT !.totp = @ \ Secrets(u)] /\ sesLog' = sesLog
    BY <1>0, <1>u, <1>9 DEF DisableMfaDelete, Step, At
  <2>2. SecretsStay
    BY <1>0, <2>1 DEF SecretsStay, SesRecord
  <2>3. NoneVerifies
    BY <1>0, <1>1, <2>1 DEF NoneVerifies
  <2> QED BY <2>2, <2>3, FactorsRest
<1> QED BY <1>2, <1>4, <1>5, <1>6, <1>7, <1>8, <1>9 DEF MfaActs

LEMMA NextKeepsFactors ==
    ASSUME TypeInv, ServeInv, FactorInv, CodeInv, CodeInv', [Next]_accessVars
    PROVE  FactorInv'
<1>0. PoolInv /\ SesCore /\ ses \in SesRecord
  BY DEF TypeInv, SesInv, SesCore
<1>a. ASSUME NEW q \in Slots, Goes(q), ~OnMfa(req'[q]), SecretsStay
      PROVE  FactorInv'
  <2>1. NoneVerifies
    BY <1>0, <1>a, OthersStay DEF NoneVerifies
  <2> QED BY <1>a, <2>1, FactorsRest
<1>b. ASSUME UNCHANGED <<ses, sesLog>>
      PROVE  SecretsStay
  BY <1>b DEF SecretsStay
<1>c. ASSUME NEW q \in Slots, GoesOn(q)
      PROVE  Goes(q) /\ ~OnMfa(req'[q])
  BY <1>c DEF GoesOn, Delicate, HasPair, OnMfa
<1>1. ASSUME NEW q \in Slots, AccountsActs(q), SessionsFollow(Gone)
      PROVE  FactorInv'
  <2>1. Goes(q) /\ ~OnMfa(req'[q])
    BY <1>1, AccountsKeepAcc, FreeOK DEF AccountsActs, OnMfa, HasPair
  <2>2. SecretsStay
    BY <1>0, <1>1 DEF SessionsFollow, SesRecord, SecretsStay
  <2> QED BY <1>a, <2>1, <2>2
<1>2. ASSUME NEW q \in Slots, LoginActs(q)
      PROVE  FactorInv'
  <2>1. GoesOn(q)
    BY <1>2, LoginGoes DEF LoginActs
  <2> QED BY <1>0, <1>2, <1>a, <1>c, <2>1, LoginLeavesSecrets
<1>3. ASSUME NEW q \in Slots, TokenActs(q) \/ MfaActs(q)
      PROVE  FactorInv'
  BY <1>3, TokensKeepFactors, MfaKeepsFactors
<1>4. ASSUME NEW q \in Slots, GrantIssue(q)
      PROVE  FactorInv'
  <2>1. GoesOn(q)
    BY <1>4, GrantGoes
  <2>2. SecretsStay
    BY <1>0, <1>4, IssueLeavesSecrets DEF GrantIssue
  <2> QED BY <1>a, <1>c, <2>1, <2>2
<1>5. ASSUME NEW q \in Slots, KeyActs(q) \/ LookupActs(q)
      PROVE  FactorInv'
  <2>1. Goes(q) /\ ~OnMfa(req'[q])
    BY <1>5, KeysGo, LookupsGo DEF KeyActs, LookupActs
  <2>2. UNCHANGED <<ses, sesLog>>
    BY <1>5, KeysTyped DEF SessionsQuiet
  <2> QED BY <1>a, <1>b, <2>1, <2>2
<1>6. ASSUME NEW q \in Slots, Die(q), SessionsQuiet
      PROVE  FactorInv'
  <2>1. NoneVerifies
    BY <1>0, <1>6, Dies, IdleOK DEF NoneVerifies, OnMfa, Delicate, HasPair
  <2> QED BY <1>6, <1>b, <2>1, FactorsRest DEF SessionsQuiet
<1>7. CASE CodeExpires
  <2>1. SecretsStay /\ NoneVerifies
    BY <1>0, <1>7 DEF CodeExpires, SesRecord, SecretsStay, NoneVerifies, pool
  <2> QED BY <2>1, FactorsRest
<1>8. CASE Tick \/ UNCHANGED accessVars
  <2>1. SecretsStay /\ NoneVerifies
    BY <1>8, <1>b DEF Tick, SessionsQuiet, accessVars, pool, NoneVerifies
  <2> QED BY <2>1, FactorsRest
<1> QED BY <1>1, <1>2, <1>3, <1>4, <1>5, <1>6, <1>7, <1>8, NextCases

LEMMA InitFactors ==
    ASSUME Init
    PROVE  FactorInv
<1>1. /\ \A q \in Slots : ~OnMfa(req[q])
      /\ ses.totp = {}
  BY IdleOK DEF Init, PoolInit, SesInit, OnMfa, Delicate, HasPair
<1> QED BY <1>1 DEF FactorInv, UserInv, OnMfaOf, Secrets

\* A user whose calls about the second factor never overlapped has one secret
\* at most, and one that is enabled was verified with a code of its own: what a
\* setup clears and what a verification enables is what they saw (mfa.py:174,
\* mfa.py:297).
THEOREM FactorsVerified == Spec => []SecondFactorVerified
<1>1. Init => CodeInv /\ FactorInv
  BY InitCodes, InitFactors
<1>2. TypeInv /\ ServeInv /\ CodeInv /\ FactorInv /\ [Next]_accessVars => CodeInv' /\ FactorInv'
  BY NextKeepsCodes, NextKeepsFactors
<1>3. FactorInv => SecondFactorVerified
  <2>1. ASSUME FactorInv, NEW u \in Users \ sesLog.overlap
        PROVE  /\ Cardinality(Secrets(u)) <= 1
               /\ \A t \in Secrets(u) : t.on => t.n \in sesLog.verified
    <3>1. UserInv(u)
      BY <2>1 DEF FactorInv
    <3>2. Secrets(u) = {} \/ \E t : Secrets(u) = {t}
      BY <3>1 DEF UserInv
    <3>3. Cardinality({}) = 0 /\ \A t : Cardinality({t}) = 1
      BY FS_EmptySet, FS_Singleton
    <3>4. Cardinality(Secrets(u)) \in {0, 1}
      <4> DEFINE S == Secrets(u)
      <4>1. S = {} \/ \E t : S = {t}
        BY <3>2
      <4> HIDE DEF S
      <4>2. Cardinality(S) \in {0, 1}
        BY <3>3, <4>1
      <4> QED BY <4>2 DEF S
    <3>5. \A n \in {0, 1} : n <= 1
      OBVIOUS
    <3> QED BY <3>1, <3>4, <3>5 DEF UserInv
  <2> QED BY <2>1 DEF SecondFactorVerified
<1> QED BY <1>1, <1>2, <1>3, Typed, PTL DEF Spec

-----------------------------------------------------------------------------
(* Accounts.                                                               *)

\* The seeded role has the seeded permission, which is there from before the
\* bootstrap comes to its roles.
SeedInv ==
  /\ accLog.seeded /\ SeedRole \notin accLog.reached =>
       /\ acc.role[SeedRole] = Role(TRUE, TRUE)
       /\ SeedPerm \in acc.perm /\ <<SeedRole, SeedPerm>> \in acc.grant
  /\ \A q \in Slots : req[q].at = "seed.roles" => SeedPerm \in acc.perm

AccountInv == NodesAsWanted /\ OneMembership

NodesStay == /\ acc'.node = acc.node
             /\ accLog'.want = accLog.want /\ accLog'.stale = accLog.stale
EdgesStay == acc'.edge \subseteq acc.edge /\ accLog'.raced = accLog.raced
SeedStays == /\ acc'.role = acc.role /\ acc'.perm = acc.perm /\ acc'.grant = acc.grant
             /\ accLog'.seeded = accLog.seeded /\ accLog'.reached = accLog.reached

LEMMA NodesKept ==
    ASSUME NodesAsWanted, NodesStay
    PROVE  NodesAsWanted'
BY DEF NodesAsWanted, NodesStay

LEMMA EdgesKept ==
    ASSUME OneMembership, EdgesStay
    PROVE  OneMembership'
BY DEF OneMembership, EdgesStay

LEMMA AccountStill ==
    ASSUME AccountInv, Quiet
    PROVE  AccountInv' /\ SeedStays
<1>1. NodesStay /\ EdgesStay /\ SeedStays
  BY DEF Quiet, NodesStay, EdgesStay, SeedStays
<1> QED BY <1>1, NodesKept, EdgesKept DEF AccountInv

\* A handler merges the node it read: where nothing came between, it is what
\* the operators want.
LEMMA MergeKeeps ==
    ASSUME AccInv, AccountInv, NEW q, NEW p \in Principals, NEW new, NEW want,
           MergeNode(q, p, new, want),
           acc.node[p] = req[q].read /\ accLog.want[p] = acc.node[p] => new = want
    PROVE  AccountInv' /\ SeedStays
<1>1. /\ acc'.node = [acc.node EXCEPT ![p] = new]
      /\ accLog'.want = [accLog.want EXCEPT ![p] = want]
      /\ accLog'.stale = IF acc.node[p] = req[q].read THEN accLog.stale
                         ELSE accLog.stale \cup {p}
      /\ EdgesStay /\ SeedStays
  BY AccFields DEF MergeNode, EdgesStay, SeedStays, AccRecord, AccLogRecord
<1>2. DOMAIN acc.node = Principals /\ DOMAIN accLog.want = Principals
  BY AccFields
<1>3. NodesAsWanted'
  BY <1>1, <1>2 DEF AccountInv, NodesAsWanted
<1> QED BY <1>1, <1>3, EdgesKept DEF AccountInv

\* An operator creates or deletes a principal.
LEMMA WantedKeeps ==
    ASSUME AccInv, AccountInv, NEW p \in Principals, NEW new, NEW E \in SUBSET acc.edge,
           acc' = [acc EXCEPT !.node[p] = new, !.edge = E], accLog' = Wanted(p, new)
    PROVE  AccountInv' /\ SeedStays
<1>1. /\ acc'.node = [acc.node EXCEPT ![p] = new]
      /\ accLog'.want = [accLog.want EXCEPT ![p] = new]
      /\ accLog'.stale = accLog.stale \ {p}
      /\ EdgesStay /\ SeedStays
  BY AccFields DEF Wanted, EdgesStay, SeedStays, AccRecord, AccLogRecord
<1>2. DOMAIN acc.node = Principals /\ DOMAIN accLog.want = Principals
  BY AccFields
<1>3. NodesAsWanted'
  BY <1>1, <1>2 DEF AccountInv, NodesAsWanted
<1> QED BY <1>1, <1>3, EdgesKept DEF AccountInv

LEMMA CreatedKeeps ==
    ASSUME AccInv, AccountInv, NEW p \in Principals, NEW new,
           acc' = [acc EXCEPT !.node[p] = new], accLog' = Wanted(p, new)
    PROVE  AccountInv' /\ SeedStays
<1>1. acc' = [acc EXCEPT !.node[p] = new, !.edge = acc.edge]
  BY AccFields DEF AccRecord
<1> QED BY <1>1, WantedKeeps

LEMMA GoneKeeps ==
    ASSUME AccInv, AccountInv, NEW p \in Principals,
           acc' = Without(p), accLog' = Wanted(p, NoNode)
    PROVE  AccountInv' /\ SeedStays
<1>1. acc' = [acc EXCEPT !.node[p] = NoNode, !.edge = acc.edge \ EdgesOf(p)]
  BY DEF Without
<1> QED BY <1>1, WantedKeeps

\* Memberships: what is matched keeps its place, what is made has none to share.
LEMMA SetEdgesKeeps ==
    ASSUME AccInv, AccountInv, NEW E, SetEdges(E),
           \A a, b \in E : a.p = b.p /\ a.o = b.o => a = b \/ <<a.p, a.o>> \in accLog.raced
    PROVE  AccountInv' /\ SeedStays
<1>1. acc'.edge = E /\ accLog'.raced = accLog.raced /\ NodesStay /\ SeedStays
  BY AccFields DEF SetEdges, NodesStay, SeedStays, AccRecord
<1> QED BY <1>1, NodesKept DEF AccountInv, OneMembership

LEMMA FewerKeeps ==
    ASSUME AccInv, AccountInv, NEW E \in SUBSET acc.edge, SetEdges(E)
    PROVE  AccountInv' /\ SeedStays
BY SetEdgesKeeps DEF AccountInv, OneMembership

LEMMA RerolledKeeps ==
    ASSUME AccInv, AccountInv, NEW p, NEW o, NEW r, SetEdges(Rerolled(p, o, r))
    PROVE  AccountInv' /\ SeedStays
<1> DEFINE f(e) == [e EXCEPT !.role = r]
           S == Edges(p, o)
           E == Rerolled(p, o, r)
<1>1. S \subseteq acc.edge /\ E = (acc.edge \ S) \cup {f(e) : e \in S}
  BY DEF Edges, Rerolled
<1>2. \A e \in S : f(e).p = e.p /\ f(e).o = e.o
  BY <1>1, AccFields DEF EdgeRecord
<1> HIDE DEF f, S
<1>3. \A a \in E : \E e \in acc.edge : a.p = e.p /\ a.o = e.o /\ a = IF e \in S THEN f(e) ELSE e
  BY <1>1, <1>2
<1> HIDE DEF E
<1>4. \A a, b \in E : a.p = b.p /\ a.o = b.o => a = b \/ <<a.p, a.o>> \in accLog.raced
  BY <1>3 DEF AccountInv, OneMembership
<1> QED BY <1>4, SetEdgesKeeps DEF E

LEMMA MergedKeeps ==
    ASSUME AccInv, AccountInv, NEW p, NEW o, NEW r, SetEdges(MergedEdge(p, o, r))
    PROVE  AccountInv' /\ SeedStays
<1>1. CASE Edges(p, o) = {}
  <2> DEFINE new == [p |-> p, o |-> o, role |-> r, n |-> Cardinality(Edges(p, o))]
  <2>1. MergedEdge(p, o, r) = acc.edge \cup {new}
    BY <1>1 DEF MergedEdge, WithEdge
  <2>2. new.p = p /\ new.o = o
    OBVIOUS
  <2> HIDE DEF new
  <2>3. \A e \in acc.edge : ~(e.p = p /\ e.o = o)
    BY <1>1 DEF Edges
  <2>4. \A a, b \in acc.edge \cup {new} :
          a.p = b.p /\ a.o = b.o => a = b \/ <<a.p, a.o>> \in accLog.raced
    BY <2>2, <2>3 DEF AccountInv, OneMembership
  <2> QED BY <2>1, <2>4, SetEdgesKeeps
<1>2. CASE Edges(p, o) # {}
  BY <1>2, RerolledKeeps DEF MergedEdge
<1> QED BY <1>1, <1>2

LEMMA CreateEdgeKeeps ==
    ASSUME AccInv, AccountInv, NEW p, NEW o, NEW r, CreateEdge(p, o, r)
    PROVE  AccountInv' /\ SeedStays
<1>1. CASE ~(Exists(p) /\ o \in acc.org)
  BY <1>1, AccountStill DEF CreateEdge, Quiet
<1>2. CASE Exists(p) /\ o \in acc.org
  <2> DEFINE new == [p |-> p, o |-> o, role |-> r, n |-> Cardinality(Edges(p, o))]
  <2>1. acc' = [acc EXCEPT !.edge = acc.edge \cup {new}]
        /\ accLog' = [accLog EXCEPT
              !.raced = IF Edges(p, o) = {} THEN @ ELSE @ \cup {<<p, o>>}]
    BY <1>2 DEF CreateEdge, WithEdge
  <2>2. new.p = p /\ new.o = o
    OBVIOUS
  <2> HIDE DEF new
  <2>3. /\ acc'.edge = acc.edge \cup {new} /\ NodesStay /\ SeedStays
        /\ accLog'.raced = IF Edges(p, o) = {} THEN accLog.raced ELSE accLog.raced \cup {<<p, o>>}
    BY <2>1, AccFields DEF NodesStay, SeedStays, AccRecord, AccLogRecord
  <2>4. \A a, b \in acc.edge \cup {new} :
          a.p = b.p /\ a.o = b.o => a = b \/ <<a.p, a.o>> \in accLog'.raced
    BY <2>2, <2>3 DEF AccountInv, OneMembership, Edges
  <2> QED BY <2>3, <2>4, NodesKept DEF AccountInv, OneMembership
<1> QED BY <1>1, <1>2

LEMMA UsersKeepAccounts ==
    ASSUME TypeInv, AccountInv, NEW q \in Slots,
           \/ UserCalls(q) \/ CreateUserNode(q) \/ CreateUserMember(q)
           \/ CreateUserRollback(q) \/ PatchUserOrgs(q) \/ PatchUserSave(q)
           \/ CheckOrgs(q) \/ CheckRoles(q) \/ Reconcile(q) \/ ChangePasswordSave(q)
    PROVE  AccountInv' /\ SeedStays
<1> DEFINE l == req[q]
<1>0. AccInv
  BY DEF TypeInv
<1>1. CASE CreateUser(q) \/ PatchUser(q) \/ ChangePassword(q)
  BY <1>1, AccountStill DEF CreateUser, PatchUser, ChangePassword, Look, Quiet
<1>2. CASE PatchUserOrgs(q) \/ CheckOrgs(q) \/ CheckRoles(q)
  BY <1>2, AccountStill DEF PatchUserOrgs, CheckOrgs, CheckRoles, Wait, Quiet
<1>3. CASE DeleteUser(q)
  BY <1>0, <1>3, GoneKeeps DEF DeleteUser, Principals
<1>4. CASE CreateUserNode(q)
  <2>1. l.p \in Principals
    BY <1>4, LocalsHold DEF CreateUserNode, At, HasPrincipal
  <2>2. Quiet \/ \E pw \in Passwords : /\ acc' = [acc EXCEPT !.node[l.p] = Node(TRUE, pw)]
                                       /\ accLog' = Wanted(l.p, Node(TRUE, pw))
    BY <1>4 DEF CreateUserNode, Wait, Quiet
  <2> QED BY <1>0, <2>1, <2>2, AccountStill, CreatedKeeps
<1>5. CASE CreateUserMember(q)
  <2>1. Quiet \/ SetEdges(MergedEdge(l.p, l.o, l.r))
    BY <1>5 DEF CreateUserMember, Wait, Quiet
  <2> QED BY <1>0, <2>1, AccountStill, MergedKeeps
<1>6. CASE CreateUserRollback(q)
  <2>1. l.p \in Principals
    BY <1>6, LocalsHold DEF CreateUserRollback, Step, At, HasPrincipal
  <2> QED BY <1>0, <1>6, <2>1, GoneKeeps DEF CreateUserRollback
<1>7. CASE PatchUserSave(q)
  <2>1. l.p \in Principals /\ l.read \in NodeRecord /\ l.read.there
    BY <1>7, LocalsHold DEF PatchUserSave, At, HasPrincipal, HasNode
  <2> DEFINE now1 == accLog.want[l.p]
  <2>2. PICK active \in BOOLEAN :
          \/ Quiet
          \/ MergeNode(q, l.p, [l.read EXCEPT !.active = active],
                       IF now1.there THEN [now1 EXCEPT !.active = active] ELSE now1)
    BY <1>7 DEF PatchUserSave, Wait, Quiet
  <2>3. acc.node[l.p] = l.read /\ now1 = acc.node[l.p] =>
          [l.read EXCEPT !.active = active] =
            IF now1.there THEN [now1 EXCEPT !.active = active] ELSE now1
    BY <2>1
  <2> QED BY <1>0, <2>1, <2>2, <2>3, AccountStill, MergeKeeps
<1>8. CASE Reconcile(q)
  <2> DEFINE o == CHOOSE x \in l.todo : TRUE
  <2>1. \/ SetEdges(acc.edge \ Edges(l.p, o))
        \/ Quiet
        \/ \E r : CreateEdge(l.p, o, r)
        \/ \E r : SetEdges(Rerolled(l.p, o, r))
    BY <1>8 DEF Reconcile, Quiet
  <2> HIDE DEF o
  <2>2. acc.edge \ Edges(l.p, o) \in SUBSET acc.edge
    OBVIOUS
  <2> QED BY <1>0, <2>1, <2>2, AccountStill, FewerKeeps, CreateEdgeKeeps, RerolledKeeps
<1>9. CASE ChangePasswordSave(q)
  <2>1. l.p \in Principals /\ l.read \in NodeRecord /\ l.read.there
    BY <1>9, LocalsHold DEF ChangePasswordSave, Step, At, HasPrincipal, HasNode
  <2> DEFINE now1 == accLog.want[l.p]
  <2>2. PICK pw \in Passwords :
          MergeNode(q, l.p, [l.read EXCEPT !.pw = pw],
                    IF now1.there THEN [now1 EXCEPT !.pw = pw] ELSE now1)
    BY <1>9 DEF ChangePasswordSave
  <2>3. acc.node[l.p] = l.read /\ now1 = acc.node[l.p] =>
          [l.read EXCEPT !.pw = pw] = IF now1.there THEN [now1 EXCEPT !.pw = pw] ELSE now1
    BY <2>1
  <2> QED BY <1>0, <2>1, <2>2, <2>3, MergeKeeps
<1> QED BY <1>1, <1>2, <1>3, <1>4, <1>5, <1>6, <1>7, <1>8, <1>9 DEF UserCalls

LEMMA MembersKeepAccounts ==
    ASSUME TypeInv, AccountInv, NEW q \in Slots,
           \/ MemberCalls(q) \/ JoinOrganization(q) \/ ReroleMember(q)
           \/ EnsureMembership(q) \/ DefaultRole(q) \/ TargetOrg(q) \/ CreateMembership(q)
    PROVE  AccountInv' /\ SeedStays
<1>0. AccInv
  BY DEF TypeInv
<1>1. CASE AddToOrganization(q) \/ UpdateMembershipRole(q)
  BY <1>1, AccountStill DEF AddToOrganization, UpdateMembershipRole, Look, Quiet
<1>2. CASE EnsureMembership(q) \/ DefaultRole(q) \/ TargetOrg(q)
  BY <1>2, AccountStill DEF EnsureMembership, DefaultRole, TargetOrg, Wait, Quiet
<1>3. CASE RemoveFromOrganization(q)
  BY <1>0, <1>3, FewerKeeps DEF RemoveFromOrganization
<1>4. CASE JoinOrganization(q)
  BY <1>0, <1>4, CreateEdgeKeeps DEF JoinOrganization
<1>5. CASE ReroleMember(q)
  BY <1>0, <1>5, RerolledKeeps DEF ReroleMember
<1>6. CASE CreateMembership(q)
  BY <1>0, <1>6, CreateEdgeKeeps, AccountStill DEF CreateMembership, Quiet
<1> QED BY <1>1, <1>2, <1>3, <1>4, <1>5, <1>6 DEF MemberCalls

LEMMA ServicesKeepAccounts ==
    ASSUME TypeInv, AccountInv, NEW q \in Slots,
           \/ ServiceCalls(q) \/ CreateServiceMember(q) \/ PatchServiceSave(q)
    PROVE  AccountInv' /\ SeedStays
<1> DEFINE l == req[q]
<1>0. AccInv
  BY DEF TypeInv
<1>1. CASE CreateService(q)
  <2>1. PICK s \in Services : /\ acc' = [acc EXCEPT !.node[s] = Node(TRUE, NoPassword)]
                              /\ accLog' = Wanted(s, Node(TRUE, NoPassword))
    BY <1>1 DEF CreateService
  <2> QED BY <1>0, <2>1, CreatedKeeps DEF Principals
<1>2. CASE PatchService(q)
  BY <1>2, AccountStill DEF PatchService, Look, Quiet
<1>3. CASE DeleteService(q)
  BY <1>0, <1>3, GoneKeeps DEF DeleteService, Principals
<1>4. CASE AddService(q)
  BY <1>0, <1>4, MergedKeeps DEF AddService
<1>5. CASE RemoveService(q)
  BY <1>0, <1>5, FewerKeeps DEF RemoveService
<1>6. CASE CreateServiceMember(q)
  <2>1. Quiet \/ SetEdges(MergedEdge(l.p, l.o, l.r))
    BY <1>6 DEF CreateServiceMember, Wait, Quiet
  <2> QED BY <1>0, <2>1, AccountStill, MergedKeeps
<1>7. CASE PatchServiceSave(q)
  <2>1. l.p \in Principals /\ l.read \in NodeRecord /\ l.read.there
    BY <1>7, LocalsHold DEF PatchServiceSave, Step, At, HasPrincipal, HasNode
  <2> DEFINE now1 == accLog.want[l.p]
  <2>2. PICK active \in BOOLEAN :
          MergeNode(q, l.p, [l.read EXCEPT !.active = active],
                    IF now1.there THEN [now1 EXCEPT !.active = active] ELSE now1)
    BY <1>7 DEF PatchServiceSave
  <2>3. acc.node[l.p] = l.read /\ now1 = acc.node[l.p] =>
          [l.read EXCEPT !.active = active] =
            IF now1.there THEN [now1 EXCEPT !.active = active] ELSE now1
    BY <2>1
  <2> QED BY <1>0, <2>1, <2>2, <2>3, MergeKeeps
<1> QED BY <1>1, <1>2, <1>3, <1>4, <1>5, <1>6, <1>7 DEF ServiceCalls

\* A rename takes the memberships, and what is noted of them, along.
LEMMA OrganizationsKeepAccounts ==
    ASSUME TypeInv, AccountInv, NEW q \in Slots,
           OrganizationCalls(q) \/ PreviousSlugs(q) \/ PersistOrganization(q)
    PROVE  AccountInv' /\ SeedStays
<1>0. AccInv
  BY DEF TypeInv
<1>a. ASSUME NodesStay, EdgesStay, SeedStays
      PROVE  AccountInv' /\ SeedStays
  BY <1>a, NodesKept, EdgesKept DEF AccountInv
<1>1. CASE CreateOrganization(q)
  <2>1. NodesStay /\ EdgesStay /\ SeedStays
    BY <1>0, <1>1, AccFields
       DEF CreateOrganization, NodesStay, EdgesStay, SeedStays, AccRecord
  <2> QED BY <1>a, <2>1
<1>2. CASE PatchOrganization(q) \/ PreviousSlugs(q)
  BY <1>2, AccountStill DEF PatchOrganization, PreviousSlugs, Look, Wait, Quiet
<1>3. CASE DeleteOrganization(q)
  <2>1. NodesStay /\ EdgesStay /\ SeedStays
    BY <1>0, <1>3, AccFields
       DEF DeleteOrganization, NodesStay, EdgesStay, SeedStays, AccRecord
  <2> QED BY <1>a, <2>1
<1>4. CASE PersistOrganization(q)
  <2>0. PICK l : l = req[q]
    OBVIOUS
  <2>1. CASE ~(l.o \in acc.org /\ l.new \notin acc.org)
    BY <1>4, <2>0, <2>1, AccountStill DEF PersistOrganization, Wait, Quiet
  <2>2. CASE l.o \in acc.org /\ l.new \notin acc.org
    <3> DEFINE f(e) == IF e.o = l.o THEN [e EXCEPT !.o = l.new] ELSE e
               g(x) == IF x[2] = l.o THEN <<x[1], l.new>> ELSE x
    <3>1. /\ acc' = [acc EXCEPT !.org = (@ \ {l.o}) \cup {l.new},
                                !.edge = {f(e) : e \in @}]
          /\ accLog' = [accLog EXCEPT !.raced = {g(x) : x \in @}]
      BY <1>4, <2>0, <2>2 DEF PersistOrganization
    <3>2. \A e \in acc.edge : /\ f(e).p = e.p /\ f(e).o = IF e.o = l.o THEN l.new ELSE e.o
                              /\ e.o # l.new
      BY <1>0, <2>2, AccFields DEF EdgeRecord, AccInv
    <3>3. \A x \in accLog.raced : x \in Principals \X Orgs
      BY <1>0, AccFields
    <3>4. ASSUME NEW p, NEW o, <<p, o>> \in accLog.raced
          PROVE  g(<<p, o>>) = <<p, IF o = l.o THEN l.new ELSE o>>
      OBVIOUS
    <3> HIDE DEF f, g
    <3>5. /\ acc'.edge = {f(e) : e \in acc.edge} /\ accLog'.raced = {g(x) : x \in accLog.raced}
          /\ NodesStay /\ SeedStays
      BY <1>0, <3>1, AccFields DEF NodesStay, SeedStays, AccRecord, AccLogRecord
    <3>6. ASSUME NEW a \in acc.edge, NEW b \in acc.edge, f(a).p = f(b).p, f(a).o = f(b).o, a # b
          PROVE  <<f(a).p, f(a).o>> \in accLog'.raced
      <4>1. a.p = b.p /\ a.o = b.o
        BY <3>2, <3>6
      <4>2. <<a.p, a.o>> \in accLog.raced
        BY <3>6, <4>1 DEF AccountInv, OneMembership
      <4>3. g(<<a.p, a.o>>) = <<f(a).p, f(a).o>>
        BY <3>2, <3>4, <4>2
      <4> QED BY <3>5, <4>2, <4>3
    <3>7. OneMembership'
      BY <3>5, <3>6 DEF OneMembership
    <3> QED BY <3>5, <3>7, NodesKept DEF AccountInv
  <2> QED BY <2>1, <2>2
<1> QED BY <1>1, <1>2, <1>3, <1>4 DEF OrganizationCalls

\* The handlers of roles and the bootstrap touch no principal and no membership.
LEMMA RolesKeepAccounts ==
    ASSUME TypeInv, AccountInv, NEW q \in Slots,
           \/ RoleCalls(q) \/ PatchRoleSave(q) \/ DeleteRoleNode(q) \/ FindPermission(q)
           \/ WriteGrant(q) \/ DeleteGrant(q)
           \/ SeedOrganization(q) \/ SeedOrganizationMerge(q) \/ CountRetired(q)
           \/ CleanupRetired(q) \/ SeedPermissions(q) \/ SeedRoles(q)
    PROVE  AccountInv'
<1>0. acc \in AccRecord /\ accLog \in AccLogRecord
  BY DEF TypeInv, AccInv
<1> SUFFICES NodesStay /\ EdgesStay
  BY NodesKept, EdgesKept DEF AccountInv
<1> USE <1>0 DEF NodesStay, EdgesStay, AccRecord, AccLogRecord
<1>1. CASE RoleCalls(q)
  BY <1>1 DEF RoleCalls, CreateRole, PatchRole, DeleteRole, GrantPermission, RevokePermission, Look
<1>2. CASE PatchRoleSave(q)
  BY <1>2 DEF PatchRoleSave, Reach
<1>3. CASE DeleteRoleNode(q)
  BY <1>3 DEF DeleteRoleNode, Reach
<1>4. CASE DeleteGrant(q)
  BY <1>4 DEF DeleteGrant, Reach
<1>5. CASE FindPermission(q) \/ SeedOrganization(q) \/ CountRetired(q)
  BY <1>5 DEF FindPermission, SeedOrganization, CountRetired, Look, Wait
<1>6. CASE WriteGrant(q) \/ SeedOrganizationMerge(q) \/ CleanupRetired(q) \/ SeedPermissions(q)
  BY <1>6 DEF WriteGrant, SeedOrganizationMerge, CleanupRetired, SeedPermissions
<1>7. CASE SeedRoles(q)
  BY <1>7 DEF SeedRoles
<1> QED BY <1>1, <1>2, <1>3, <1>4, <1>5, <1>6, <1>7

\* No bootstrap comes to its roles.
SeedWaits == \A r \in Slots : req'[r].at = "seed.roles" => req[r].at = "seed.roles"

\* A handler that has seen a role that is no system role leaves a trace on one.
LEMMA RolesKeepSeed ==
    ASSUME TypeInv, SeedInv, NEW q \in Slots, Goes(q),
           \/ RoleCalls(q) \/ PatchRoleSave(q) \/ DeleteRoleNode(q) \/ FindPermission(q)
           \/ WriteGrant(q) \/ DeleteGrant(q)
           \/ SeedOrganization(q) \/ SeedOrganizationMerge(q) \/ CountRetired(q)
           \/ CleanupRetired(q) \/ SeedPermissions(q) \/ SeedRoles(q),
           req'[q].at # "seed.roles" \/ SeedPermissions(q)
    PROVE  SeedInv'
<1> DEFINE l == req[q]
<1>0. /\ PoolInv /\ acc \in AccRecord /\ accLog \in AccLogRecord /\ LocalsOK(l)
      /\ acc.role \in [Roles -> RoleRecord]
      /\ SeedRole \in Roles /\ SeedPerm # OldPerm
  BY AccFields, AccountsAssumption DEF TypeInv, PoolInv, AccInv
<1>1. \A r \in Slots : r # q => req'[r] = req[r]
  BY <1>0, OthersStay
<1>2. Role(TRUE, TRUE).there /\ Role(TRUE, TRUE).system
  BY DEF Role
<1>3. ASSUME l.at \in HasSeen
      PROVE  l.system = FALSE /\ l.r \in Roles
  BY <1>0, <1>3 DEF LocalsOK, HasRole, HasSeen
<1>4. CASE CreateRole(q)
  <2>1. PICK r \in Roles, s, d \in BOOLEAN :
              ~acc.role[r].there /\ acc' = [acc EXCEPT !.role[r] = Role(s, d)] /\ accLog' = accLog
    BY <1>4 DEF CreateRole
  <2>2. /\ acc'.role = [acc.role EXCEPT ![r] = Role(s, d)]
        /\ acc'.perm = acc.perm /\ acc'.grant = acc.grant
    BY <1>0, <2>1 DEF AccRecord
  <2>3. acc.role[SeedRole] = Role(TRUE, TRUE) => acc'.role[SeedRole] = Role(TRUE, TRUE)
    BY <1>0, <1>2, <2>1, <2>2
  <2>4. SeedWaits
    BY <1>1, <1>4 DEF SeedWaits, CreateRole, SeedPermissions, Begin, Step, At, Idle
  <2> QED BY <2>1, <2>2, <2>3, <2>4 DEF SeedInv, SeedWaits
<1>w. ASSUME ~SeedPermissions(q)
      PROVE  SeedWaits
  BY <1>1, <1>w DEF SeedWaits
<1>r. ASSUME NEW r \in Roles, accLog' = Reach(q, r), l.at \in HasSeen
      PROVE  /\ accLog'.seeded = accLog.seeded
             /\ accLog'.reached = IF acc.role[r].system THEN accLog.reached \cup {r}
                                  ELSE accLog.reached
  BY <1>0, <1>3, <1>r DEF Reach, AccLogRecord
<1>5. CASE PatchRoleSave(q)
  <2>1. PICK r \in Roles, s, d \in BOOLEAN :
              acc' = [acc EXCEPT !.role[r] = Role(s, d)] /\ accLog' = Reach(q, r)
    BY <1>5 DEF PatchRoleSave
  <2>2. /\ acc'.role = [acc.role EXCEPT ![r] = Role(s, d)]
        /\ acc'.perm = acc.perm /\ acc'.grant = acc.grant
    BY <1>0, <2>1 DEF AccRecord
  <2>3. l.at \in HasSeen /\ ~SeedPermissions(q)
    BY <1>5 DEF PatchRoleSave, SeedPermissions, Step, At, HasSeen
  <2>4. /\ accLog'.seeded = accLog.seeded /\ accLog.reached \subseteq accLog'.reached
        /\ acc.role[r].system => r \in accLog'.reached
    BY <1>r, <2>1, <2>3
  <2>5. acc.role[SeedRole] = Role(TRUE, TRUE) /\ SeedRole \notin accLog'.reached =>
          acc'.role[SeedRole] = Role(TRUE, TRUE)
    BY <1>0, <1>2, <2>2, <2>4
  <2>6. SeedWaits
    BY <1>w, <2>3
  <2> QED BY <2>2, <2>4, <2>5, <2>6 DEF SeedInv, SeedWaits
<1>6. CASE DeleteRoleNode(q)
  <2>1. /\ acc' = [acc EXCEPT !.role[l.r] = NoRole, !.grant = @ \ GrantsOf(l.r)]
        /\ accLog' = Reach(q, l.r)
    BY <1>6 DEF DeleteRoleNode
  <2>2. /\ acc'.role = [acc.role EXCEPT ![l.r] = NoRole]
        /\ acc'.perm = acc.perm /\ acc'.grant = acc.grant \ GrantsOf(l.r)
    BY <1>0, <2>1 DEF AccRecord
  <2>3. l.at \in HasSeen /\ ~SeedPermissions(q)
    BY <1>6 DEF DeleteRoleNode, SeedPermissions, Step, At, HasSeen
  <2>4. /\ accLog'.seeded = accLog.seeded /\ accLog.reached \subseteq accLog'.reached
        /\ acc.role[l.r].system => l.r \in accLog'.reached
    BY <1>r, <1>3, <2>1, <2>3
  <2>5. acc.role[SeedRole] = Role(TRUE, TRUE) /\ SeedRole \notin accLog'.reached =>
          SeedRole # l.r
    BY <1>2, <2>4
  <2>6. SeedRole # l.r =>
          /\ acc'.role[SeedRole] = acc.role[SeedRole]
          /\ <<SeedRole, SeedPerm>> \in acc.grant => <<SeedRole, SeedPerm>> \in acc'.grant
    BY <1>0, <1>3, <2>2, <2>3 DEF GrantsOf
  <2>7. SeedWaits
    BY <1>w, <2>3
  <2> QED BY <2>2, <2>4, <2>5, <2>6, <2>7 DEF SeedInv, SeedWaits
<1>7. CASE DeleteGrant(q)
  <2>1. /\ acc' = [acc EXCEPT !.grant = @ \ {<<l.r, l.n>>}]
        /\ accLog' = Reach(q, l.r)
    BY <1>7 DEF DeleteGrant
  <2>2. /\ acc'.role = acc.role /\ acc'.perm = acc.perm
        /\ acc'.grant = acc.grant \ {<<l.r, l.n>>}
    BY <1>0, <2>1 DEF AccRecord
  <2>3. l.at \in HasSeen /\ ~SeedPermissions(q)
    BY <1>7 DEF DeleteGrant, SeedPermissions, Step, At, HasSeen
  <2>4. /\ accLog'.seeded = accLog.seeded /\ accLog.reached \subseteq accLog'.reached
        /\ acc.role[l.r].system => l.r \in accLog'.reached
    BY <1>r, <1>3, <2>1, <2>3
  <2>5. acc.role[SeedRole] = Role(TRUE, TRUE) /\ SeedRole \notin accLog'.reached =>
          SeedRole # l.r
    BY <1>2, <2>4
  <2>6. SeedWaits
    BY <1>w, <2>3
  <2> QED BY <2>2, <2>4, <2>5, <2>6 DEF SeedInv, SeedWaits
<1>8. CASE PatchRole(q) \/ DeleteRole(q) \/ GrantPermission(q) \/ RevokePermission(q)
           \/ FindPermission(q) \/ SeedOrganization(q) \/ CountRetired(q)
  <2>1. UNCHANGED <<acc, accLog>>
    BY <1>8 DEF PatchRole, DeleteRole, GrantPermission, RevokePermission, FindPermission,
                SeedOrganization, CountRetired, Look, Wait
  <2>2. CASE ~SeedPermissions(q)
    BY <1>w, <2>1, <2>2 DEF SeedInv, SeedWaits
  <2>3. CASE SeedPermissions(q)
    <3>1. SeedPerm \in acc'.perm
      BY <1>0, <2>3 DEF SeedPermissions, AccRecord
    <3> QED BY <2>1, <3>1 DEF SeedInv
  <2> QED BY <2>2, <2>3
<1>9. CASE WriteGrant(q)
  <2>1. /\ acc'.role = acc.role /\ acc'.perm = acc.perm /\ acc.grant \subseteq acc'.grant
        /\ accLog' = accLog /\ ~SeedPermissions(q)
    BY <1>0, <1>9 DEF WriteGrant, SeedPermissions, Step, At, AccRecord
  <2> QED BY <1>w, <2>1 DEF SeedInv, SeedWaits
<1>10. CASE SeedOrganizationMerge(q)
  <2>1. /\ acc'.role = acc.role /\ acc'.perm = acc.perm /\ acc.grant = acc'.grant
        /\ accLog' = accLog /\ ~SeedPermissions(q)
    BY <1>0, <1>10 DEF SeedOrganizationMerge, SeedPermissions, Step, At, AccRecord
  <2> QED BY <1>w, <2>1 DEF SeedInv, SeedWaits
<1>11. CASE CleanupRetired(q)
  <2>1. /\ acc'.role = acc.role /\ acc'.perm = acc.perm \ {OldPerm}
        /\ acc'.grant = {g \in acc.grant : g[2] # OldPerm}
        /\ accLog' = accLog /\ ~SeedPermissions(q)
    BY <1>0, <1>11 DEF CleanupRetired, SeedPermissions, Step, At, AccRecord
  <2>2. <<SeedRole, SeedPerm>> \in acc.grant => <<SeedRole, SeedPerm>> \in acc'.grant
    BY <1>0, <2>1
  <2> QED BY <1>0, <1>w, <2>1, <2>2 DEF SeedInv, SeedWaits
<1>12. CASE SeedPermissions(q)
  <2>1. /\ acc'.role = acc.role /\ acc'.perm = acc.perm \cup {SeedPerm}
        /\ acc'.grant = acc.grant /\ accLog' = accLog
    BY <1>0, <1>12 DEF SeedPermissions, AccRecord
  <2> QED BY <2>1 DEF SeedInv
<1>13. CASE SeedRoles(q)
  <2>1. /\ acc' = [acc EXCEPT !.role[SeedRole] = Role(TRUE, TRUE),
                              !.grant = IF SeedPerm \in acc.perm
                                        THEN @ \cup {<<SeedRole, SeedPerm>>} ELSE @]
        /\ l.at = "seed.roles" /\ ~SeedPermissions(q)
    BY <1>13 DEF SeedRoles, SeedPermissions, Step, At
  <2>2. SeedPerm \in acc.perm
    BY <2>1 DEF SeedInv
  <2>3. /\ acc'.role = [acc.role EXCEPT ![SeedRole] = Role(TRUE, TRUE)]
        /\ acc'.grant = acc.grant \cup {<<SeedRole, SeedPerm>>} /\ acc'.perm = acc.perm
    BY <1>0, <2>1, <2>2 DEF AccRecord
  <2>4. acc'.role[SeedRole] = Role(TRUE, TRUE)
    BY <1>0, <2>3
  <2> QED BY <1>w, <2>1, <2>2, <2>3, <2>4 DEF SeedInv, SeedWaits
<1> QED BY <1>4, <1>5, <1>6, <1>7, <1>8, <1>9, <1>10, <1>11, <1>12, <1>13 DEF RoleCalls

LEMMA AccountsKeepAccounts ==
    ASSUME TypeInv, AccountInv, SeedInv, NEW q \in Slots, AccountsActs(q)
    PROVE  AccountInv' /\ SeedInv'
<1>0. PoolInv
  BY DEF TypeInv
<1>1. /\ Goes(q)
      /\ req'[q].at # "seed.roles" \/ SeedPermissions(q)
  BY AccountsKeepAcc DEF AccountsActs, GoesOn, Delicate
<1>2. CASE \/ RoleCalls(q) \/ PatchRoleSave(q) \/ DeleteRoleNode(q) \/ FindPermission(q)
           \/ WriteGrant(q) \/ DeleteGrant(q)
           \/ SeedOrganization(q) \/ SeedOrganizationMerge(q) \/ CountRetired(q)
           \/ CleanupRetired(q) \/ SeedPermissions(q) \/ SeedRoles(q)
  BY <1>1, <1>2, RolesKeepAccounts, RolesKeepSeed
<1>3. CASE ~ \/ RoleCalls(q) \/ PatchRoleSave(q) \/ DeleteRoleNode(q) \/ FindPermission(q)
             \/ WriteGrant(q) \/ DeleteGrant(q)
             \/ SeedOrganization(q) \/ SeedOrganizationMerge(q) \/ CountRetired(q)
             \/ CleanupRetired(q) \/ SeedPermissions(q) \/ SeedRoles(q)
  <2>1. AccountInv' /\ SeedStays
    BY <1>3, UsersKeepAccounts, MembersKeepAccounts, ServicesKeepAccounts,
       OrganizationsKeepAccounts DEF AccountsActs, AccountsStep
  <2>2. SeedWaits
    BY <1>0, <1>1, <1>3, OthersStay DEF SeedWaits
  <2> QED BY <2>1, <2>2 DEF SeedInv, SeedStays, SeedWaits
<1> QED BY <1>2, <1>3

\* A login writes the whole node as it had read it.
LEMMA LoginKeepsAccounts ==
    ASSUME TypeInv, AccountInv, NEW q \in Slots, LoginActs(q)
    PROVE  AccountInv' /\ SeedStays
<1> DEFINE l == req[q]
<1>0. AccInv /\ LocalsOK(l)
  BY DEF TypeInv, PoolInv
<1>1. CASE LoginRehash(q) \/ LoginSave(q)
  <2>1. l.p \in Principals
    BY <1>1, LocalsHold DEF LoginRehash, LoginSave, Step, At, HasPrincipal, LoginLabels
  <2>2. MergeNode(q, l.p, l.read, accLog.want[l.p])
    BY <1>1 DEF LoginRehash, LoginSave
  <2> QED BY <1>0, <2>1, <2>2, MergeKeeps
<1>2. CASE CallbackCreatesUser(q)
  <2> DEFINE new == Node(TRUE, NoPassword)
  <2>1. /\ l.at = "oauth.create"
        /\ MergeNode(q, l.p, new, IF Exists(l.p) THEN accLog.want[l.p] ELSE new)
    BY <1>2 DEF CallbackCreatesUser, Step, At
  <2>2. l.p \in Principals /\ ~l.read.there
    BY <1>0, <2>1 DEF LocalsOK, HasPrincipal
  <2>3. acc.node[l.p] = l.read => new = IF Exists(l.p) THEN accLog.want[l.p] ELSE new
    BY <2>2 DEF Exists
  <2> HIDE DEF new
  <2> QED BY <1>0, <2>1, <2>2, <2>3, MergeKeeps
<1>3. CASE Login(q) \/ LoginCallback(q) \/ CodeGrant(q)
  BY <1>3, AccountStill DEF Login, LoginCallback, CodeGrant, Glance, Look, Quiet
<1>4. CASE LoginSecondFactor(q) \/ LoginTotp(q) \/ CallbackLinks(q)
  BY <1>4, AccountStill DEF LoginSecondFactor, LoginTotp, CallbackLinks, Pause, Wait, Quiet
<1>5. CASE LoginBackupCode(q) \/ Authorize(q) \/ ConsumeCode(q)
  BY <1>5, AccountStill DEF LoginBackupCode, Authorize, ConsumeCode, Pause, Wait, Quiet
<1>6. CASE LoginIssue(q) \/ CodeIssue(q)
  BY <1>6, AccountStill DEF LoginIssue, CodeIssue, Issue, Pause, Wait, Quiet
<1> QED BY <1>1, <1>2, <1>3, <1>4, <1>5, <1>6 DEF LoginActs

LEMMA TokensAreQuiet ==
    ASSUME NEW q \in Slots, TokenActs(q) \/ MfaActs(q)
    PROVE  Quiet
<1>1. CASE TokenActs(q)
  BY <1>1 DEF TokenActs, RotateRefreshToken, Logout, WithToken, RefreshReuse, RefreshCascade,
       CascadeConflict, RefreshPrincipal, RefreshIssue, AuthenticateJwt, LogoutAccess, LogoutAll,
       LogoutIssuedAt, LogoutRefresh, Issue, Glance, Look, Pause, Wait, Quiet
<1>2. CASE MfaActs(q)
  BY <1>2 DEF MfaActs, SetupMfa, VerifyMfa, DisableMfa, MfaCall, SetupMfaClear, SetupMfaSave,
       VerifyMfaFetch, VerifyMfaEnable, DisableMfaCheck, DisableMfaDelete, Look, Pause, Wait, Quiet
<1> QED BY <1>1, <1>2

LEMMA NextKeepsAccounts ==
    ASSUME TypeInv, ServeInv, AccountInv, SeedInv, [Next]_accessVars
    PROVE  AccountInv' /\ SeedInv'
<1>0. PoolInv
  BY DEF TypeInv
<1>a. ASSUME Quiet
      PROVE  AccountInv' /\ SeedStays
  BY <1>a, AccountStill
<1>b. ASSUME SeedStays, SeedWaits
      PROVE  SeedInv'
  BY <1>b DEF SeedInv, SeedStays, SeedWaits
<1>c. ASSUME NEW q \in Slots, Goes(q), req'[q].at # "seed.roles"
      PROVE  SeedWaits
  BY <1>0, <1>c, OthersStay DEF SeedWaits
<1>1. ASSUME NEW q \in Slots, AccountsActs(q)
      PROVE  AccountInv' /\ SeedInv'
  BY <1>1, AccountsKeepAccounts
<1>2. ASSUME NEW q \in Slots, \/ (LoginActs(q) \/ TokenActs(q) \/ MfaActs(q)) /\ KeysQuiet
                              \/ GrantIssue(q)
      PROVE  AccountInv' /\ SeedInv'
  <2>1. Goes(q) /\ req'[q].at # "seed.roles"
    BY <1>2, SessionsTyped
  <2>2. LoginActs(q) \/ Quiet
    BY <1>2, TokensAreQuiet DEF GrantIssue, Issue, Pause, Wait, Quiet
  <2>3. AccountInv' /\ SeedStays
    BY <1>a, <2>2, LoginKeepsAccounts
  <2> QED BY <1>b, <1>c, <2>1, <2>3
<1>3. ASSUME NEW q \in Slots, KeyActs(q) \/ LookupActs(q)
      PROVE  AccountInv' /\ SeedInv'
  <2>1. Goes(q) /\ req'[q].at # "seed.roles" /\ Quiet
    BY <1>3, KeysTyped DEF SessionsQuiet, Quiet
  <2> QED BY <1>a, <1>b, <1>c, <2>1
<1>4. ASSUME NEW q \in Slots, Die(q), SessionsQuiet
      PROVE  AccountInv' /\ SeedInv'
  <2>1. Quiet
    BY <1>4 DEF SessionsQuiet, Quiet
  <2>2. SeedWaits
    BY <1>0, <1>4, Dies, IdleOK DEF SeedWaits
  <2> QED BY <1>a, <1>b, <2>1, <2>2
<1>5. CASE CodeExpires \/ Tick \/ UNCHANGED accessVars
  <2>1. Quiet /\ req' = req
    BY <1>5 DEF CodeExpires, Tick, SessionsQuiet, accessVars, pool, Quiet
  <2> QED BY <1>a, <1>b, <2>1 DEF SeedWaits
<1> QED BY <1>1, <1>2, <1>3, <1>4, <1>5, NextCases

LEMMA InitAccounts ==
    ASSUME Init
    PROVE  AccountInv /\ SeedInv
<1> DEFINE pw == CHOOSE x \in Passwords : TRUE
           node == [p \in Principals |->
                      IF p \in Users THEN Node(TRUE, pw) ELSE Node(TRUE, NoPassword)]
           none == [p \in Principals |-> NoNode]
           edges == {[p |-> p, o |-> SeedOrg, role |-> SeedRole, n |-> 0] : p \in Principals}
           role(seeded) == [r \in Roles |-> IF seeded /\ r = SeedRole THEN Role(TRUE, TRUE)
                                            ELSE NoRole]
<1>0. PICK seeded \in BOOLEAN :
        /\ acc = [node |-> IF seeded THEN node ELSE none,
                  edge |-> IF seeded THEN edges ELSE {},
                  org |-> IF seeded THEN {SeedOrg} ELSE {},
                  role |-> role(seeded),
                  perm |-> IF seeded THEN {SeedPerm} ELSE {OldPerm},
                  grant |-> IF seeded THEN {<<SeedRole, SeedPerm>>} ELSE {}]
        /\ accLog = [want |-> acc.node, stale |-> {}, raced |-> {}, reached |-> {},
                     seeded |-> seeded]
  BY DEF Init, AccInit
<1>a. \A e, f \in edges : e.p = f.p /\ e.o = f.o => e = f
  OBVIOUS
<1>b. seeded => role(seeded)[SeedRole] = Role(TRUE, TRUE)
  BY AccountsAssumption
<1> HIDE DEF pw, node, none, edges, role
<1>1. /\ acc.edge = (IF seeded THEN edges ELSE {})
      /\ acc.role = role(seeded)
      /\ acc.perm = (IF seeded THEN {SeedPerm} ELSE {OldPerm})
      /\ acc.grant = (IF seeded THEN {<<SeedRole, SeedPerm>>} ELSE {})
      /\ accLog.want = acc.node /\ accLog.seeded = seeded
  BY <1>0
<1>2. NodesAsWanted
  BY <1>1 DEF NodesAsWanted
<1>3. OneMembership
  BY <1>1, <1>a DEF OneMembership
<1>4. \A q \in Slots : req[q].at # "seed.roles"
  BY IdleOK DEF Init, PoolInit
<1>5. SeedInv
  BY <1>1, <1>b, <1>4 DEF SeedInv
<1> QED BY <1>2, <1>3, <1>5 DEF AccountInv

\* Whatever the handlers had read before they wrote, every principal is as the
\* operators last asked for it, has one membership per organisation, and the
\* members of the seeded role keep its permission; but where a handler wrote
\* over what had changed since it looked (users.py:684, auth.py:892,
\* membership.py:71, roles.py).
THEOREM AccountsHold == Spec => []AccountsAsWanted
<1>1. Init => AccountInv /\ SeedInv
  BY InitAccounts
<1>2. TypeInv /\ ServeInv /\ AccountInv /\ SeedInv /\ [Next]_accessVars => AccountInv' /\ SeedInv'
  BY NextKeepsAccounts
<1>3. AccountInv /\ SeedInv => AccountsAsWanted
  <2>1. ASSUME SeedInv
        PROVE  SystemRoleKept
    <3>1. SUFFICES ASSUME accLog.seeded, SeedRole \notin accLog.reached
                   PROVE  /\ acc.role[SeedRole] = Role(TRUE, TRUE)
                          /\ \A e \in acc.edge : e.role = SeedRole => SeedPerm \in PermissionsOf(e.p)
      BY DEF SystemRoleKept
    <3>2. /\ acc.role[SeedRole] = Role(TRUE, TRUE)
          /\ SeedPerm \in acc.perm /\ <<SeedRole, SeedPerm>> \in acc.grant
      BY <2>1, <3>1 DEF SeedInv
    <3>3. acc.role[SeedRole].there
      BY <3>2 DEF Role
    <3>4. ASSUME NEW e \in acc.edge, e.role = SeedRole
          PROVE  SeedPerm \in PermissionsOf(e.p)
      <4>1. e \in EdgesOf(e.p)
        BY <3>4 DEF EdgesOf
      <4> QED BY <3>2, <3>3, <3>4, <4>1, Zenon DEF PermissionsOf
    <3> QED BY <3>2, <3>4
  <2> QED BY <2>1 DEF AccountInv, AccountsAsWanted
<1> QED BY <1>1, <1>2, <1>3, Typed, PTL DEF Spec

-----------------------------------------------------------------------------
(***************************************************************************)
(* Identity connections: what holds of one for any number of sweepers,     *)
(* requests, tokens and state tokens, under every fault.  That an active   *)
(* connection is usable rests on who knows a token: one that a refresh     *)
(* has brought and not yet stored is known to that refresh alone, so no    *)
(* other can have it replaced before it is stored.                         *)
(***************************************************************************)

Statuses == {"none", "active", "expired", "revoked"}
Nodes == [id : Nat, status : Statuses, token : Nat, due : BOOLEAN]
Locals == [op : Ops \cup {"none"}, id : Nat, token : Nat, fresh : Nat,
           back : {"idle", "hydrate", "rehydrate"}, retried : BOOLEAN,
           state : 0..MaxStates, waited : Nat]

\* The types of the model; labels of control points are left open.
Types ==
  /\ conn \in Nodes
  /\ issued \in Nat /\ rotates \in BOOLEAN /\ mishaps \in Nat
  /\ started \in 0..MaxStates
  /\ DOMAIN pc = Procs
  /\ loc \in [Procs -> Locals]
  /\ exchanged \in [StateTokens -> Nat]
  /\ age \in [StateTokens -> Nat] /\ nonce \in [StateTokens -> Nat]
  /\ first \in [StateTokens -> Nat]

\* What the queries write is a node again.
LEMMA NodeFacts ==
  ASSUME conn \in Nodes, NEW n \in Nat
  PROVE  /\ conn.token \in Nat /\ conn.id \in Nat
         /\ [conn EXCEPT !.status = "expired"] \in Nodes
         /\ [conn EXCEPT !.due = TRUE] \in Nodes
         /\ [conn EXCEPT !.status = "revoked", !.token = 0] \in Nodes
         /\ [id |-> IF conn.id = 0 THEN n ELSE conn.id, status |-> "active",
             due |-> FALSE, token |-> n] \in Nodes
         /\ NoConn \in Nodes
BY DEF Nodes, Statuses, NoConn

LEMMA FirstNodes ==
  /\ NoConn \in Nodes
  /\ [id |-> 1, status |-> "active", token |-> 1, due |-> FALSE] \in Nodes
BY DEF Nodes, Statuses, NoConn

\* So are the locals that a process begins with.
LEMMA LocalFacts ==
  /\ NoLocals \in Locals
  /\ \A op \in Ops : Op(op) \in Locals /\ Op(op).op = op /\ Op(op).token = 0
                    /\ Op(op).fresh = 0 /\ Op(op).back = "idle"
  /\ \A x \in StateTokens :
       LET l == [Op("connect") EXCEPT !.state = x]
       IN  l \in Locals /\ l.op = "connect" /\ l.token = 0 /\ l.fresh = 0 /\ l.state = x
           /\ l.waited = 0
<1>1. NoLocals \in Locals
  BY ConnectionAssumption DEF Locals, NoLocals
<1>2. ASSUME NEW op \in Ops
      PROVE  Op(op) \in Locals /\ Op(op).op = op /\ Op(op).token = 0
             /\ Op(op).fresh = 0 /\ Op(op).back = "idle"
  BY <1>1 DEF Locals, NoLocals, Op
<1>3. ASSUME NEW x \in StateTokens, NEW l, l = [Op("connect") EXCEPT !.state = x]
      PROVE  l \in Locals /\ l.op = "connect" /\ l.token = 0 /\ l.fresh = 0 /\ l.state = x
             /\ l.waited = 0
  <2>1. x \in 0..MaxStates /\ 0 \in 0..MaxStates
    BY ConnectionAssumption DEF StateTokens
  <2> QED BY <1>3, <2>1 DEF Locals, NoLocals, Op, Ops
<1> QED BY <1>1, <1>2, <1>3

\* And what they become.
LEMMA LocalUpdates ==
  ASSUME NEW l \in Locals, NEW n \in Nat, NEW m \in Nat
  PROVE  /\ [l EXCEPT !.id = n, !.token = m] \in Locals
         /\ [l EXCEPT !.id = 0, !.token = 0, !.fresh = 0] \in Locals
         /\ [l EXCEPT !.token = n] \in Locals
         /\ [l EXCEPT !.back = "rehydrate"] \in Locals
         /\ [l EXCEPT !.token = 0, !.back = "hydrate", !.retried = TRUE] \in Locals
         /\ [l EXCEPT !.waited = @ + 1] \in Locals
<1>1. [l EXCEPT !.id = n, !.token = m] \in Locals
  BY DEF Locals
<1>2. [l EXCEPT !.id = 0, !.token = 0, !.fresh = 0] \in Locals
  BY DEF Locals
<1>3. [l EXCEPT !.token = n] \in Locals
  BY DEF Locals
<1>4. [l EXCEPT !.back = "rehydrate"] \in Locals
  BY DEF Locals
<1>5. [l EXCEPT !.token = 0, !.back = "hydrate", !.retried = TRUE] \in Locals
  BY DEF Locals
<1>6. [l EXCEPT !.waited = @ + 1] \in Locals
  BY DEF Locals
<1> QED BY <1>1, <1>2, <1>3, <1>4, <1>5, <1>6

LEMMA TypesInit == ASSUME ConnectionInit PROVE Types
<1>1. NoLocals \in Locals
  BY LocalFacts
<1>2. conn \in Nodes
  BY FirstNodes DEF ConnectionInit
<1>3. 0 \in 0..MaxStates
  BY ConnectionAssumption
<1> QED BY <1>1, <1>2, <1>3 DEF ConnectionInit, Types, StateTokens

LEMMA TypesStep == ASSUME Types, [ConnectionNext]_connectionVars PROVE Types'
<1> USE DEF Types, Goto, Finish, Fault, provider, flow, history
<1>0. /\ NoLocals \in Locals /\ Op("connect") \in Locals
      /\ \A op \in {"sweep", "call", "refresh", "delete", "poll"} : Op(op) \in Locals
  BY LocalFacts DEF Ops
<1>1. ASSUME NEW p \in Procs, Load(p) PROVE Types'
  <2>1. CASE Loads /\ conn.token \notin bare
    <3>1. conn.id \in Nat /\ conn.token \in Nat
      BY DEF Nodes
    <3>2. loc' \in [Procs -> Locals]
      BY <1>1, <2>1, <3>1 DEF Load, Locals
    <3> QED BY <1>1, <2>1, <3>2 DEF Load
  <2>2. CASE ~(Loads /\ conn.token \notin bare)
    BY <1>0, <1>1, <2>2 DEF Load, RefreshFailed
  <2> QED BY <2>1, <2>2
<1>2. ASSUME NEW p \in Procs, Refresh(p) PROVE Types'
  BY <1>2 DEF Refresh, Renewed, IssueToken, TokenNumbers, Locals
<1>3. ASSUME NEW p \in Procs, MarkExpired(p) PROVE Types'
  BY <1>0, <1>3, NodeFacts DEF MarkExpired, RefreshFailed
<1>4. ASSUME NEW p \in Procs, Upsert(p) PROVE Types'
  <2>1. loc[p].fresh \in Nat
    BY DEF Locals
  <2>2. conn' \in Nodes
    BY <1>4, <2>1, NodeFacts DEF Upsert
  <2>3. loc' \in [Procs -> Locals] /\ DOMAIN pc' = Procs
    <3>1. CASE loc[p].back = "idle"
      BY <1>0, <1>4, <3>1 DEF Upsert
    <3>2. CASE loc[p].back # "idle"
      <4>1. [loc[p] EXCEPT !.id = 0, !.token = 0, !.fresh = 0] \in Locals
        BY LocalUpdates
      <4>2. loc' = [loc EXCEPT ![p] = [loc[p] EXCEPT !.id = 0, !.token = 0,
                                                    !.fresh = 0]]
        BY <1>4, <3>2 DEF Upsert
      <4>3. DOMAIN pc' = Procs
        BY <1>4, <3>2 DEF Upsert, Goto
      <4> QED BY <4>1, <4>2, <4>3
    <3> QED BY <3>1, <3>2
  <2>4. UNCHANGED <<provider, flow, history>>
    BY <1>4 DEF Upsert
  <2> QED BY <2>2, <2>3, <2>4
<1>5. ASSUME NEW p \in Procs, Abort(p) PROVE Types'
  BY <1>0, <1>5 DEF Abort
<1>6. ASSUME NEW p \in Sweepers, SweeperStep(p) PROVE Types'
  <2> p \in Procs BY DEF Procs
  <2>1. CASE Scan(p) BY <1>0, <2>1 DEF Scan, BeginOp
  <2>2. CASE TryLock(p) BY <1>0, <2>2 DEF TryLock
  <2>3. CASE Reload(p)
    <3>1. conn.id \in Nat BY DEF Nodes
    <3>2. loc' \in [Procs -> Locals] BY <1>0, <2>3, <3>1 DEF Reload, Locals
    <3> QED BY <2>3, <3>2 DEF Reload
  <2>4. CASE Remark(p) BY <1>0, <2>4, NodeFacts DEF Remark
  <2> QED BY <1>6, <2>1, <2>2, <2>3, <2>4 DEF SweeperStep
<1>7. ASSUME NEW p \in Requests, RequestStep(p) PROVE Types'
  <2> p \in Procs BY DEF Procs
  <2>1. CASE BeginRequest(p) \/ BeginCallback(p)
    <3>1. CASE BeginRequest(p) BY <1>0, <3>1 DEF BeginRequest, BeginOp
    <3>2. CASE BeginCallback(p)
      <4>1. PICK x \in 1..started : BeginOp(p, "nonce", [Op("connect") EXCEPT !.state = x])
        BY <3>2 DEF BeginCallback
      <4>2. x \in StateTokens
        BY ConnectionAssumption DEF StateTokens
      <4>3. loc' \in [Procs -> Locals]
        BY <4>1, <4>2, LocalFacts DEF BeginOp
      <4> QED BY <3>2, <4>1, <4>3 DEF BeginCallback, BeginOp
    <3> QED BY <2>1, <3>1, <3>2
  <2>2. CASE ConsumeNonce(p)
    <3>1. CASE nonce[loc[p].state] > 0
      BY <1>0, <2>2, <3>1 DEF ConsumeNonce
    <3>2. CASE ~(nonce[loc[p].state] > 0)
      <4>1. Accept(p, loc[p].state) /\ UNCHANGED <<conn, provider, started, age, history>>
        BY <2>2, <3>2 DEF ConsumeNonce
      <4>2. nonce' \in [StateTokens -> Nat]
        <5>1. nonce' = [nonce EXCEPT ![loc[p].state] = StateTtl]
          BY <4>1 DEF Accept
        <5> QED BY <5>1, ConnectionAssumption
      <4>5. exchanged' \in [StateTokens -> Nat]
        <5>1. \A x \in StateTokens : exchanged[x] + 1 \in Nat
          OBVIOUS
        <5>2. exchanged' = [exchanged EXCEPT ![loc[p].state] =
                              exchanged[loc[p].state] + 1]
          BY <4>1 DEF Accept
        <5> QED BY <5>1, <5>2
      <4>4. first' \in [StateTokens -> Nat]
        <5>1. \A x \in StateTokens : age[x] \in Nat /\ first[x] \in Nat
          OBVIOUS
        <5> QED BY <4>1, <5>1 DEF Accept
      <4>3. loc' \in [Procs -> Locals] /\ DOMAIN pc' = Procs
        BY <1>0, <4>1 DEF Accept
      <4> QED BY <4>1, <4>2, <4>3, <4>4, <4>5
    <3> QED BY <3>1, <3>2
  <2>3. CASE Exchange(p)
    BY <1>0, <2>3 DEF Exchange, IssueToken, TokenNumbers, Locals
  <2>4. CASE Hydrate(p) \/ Rehydrate(p) \/ Api(p)
    <3>1. conn.token \in Nat BY DEF Nodes
    <3>2. CASE Hydrate(p)
      <4>1. loc' \in [Procs -> Locals]
        <5>1. /\ [loc[p] EXCEPT !.token = conn.token] \in Locals
              /\ [loc[p] EXCEPT !.back = "rehydrate"] \in Locals
              /\ NoLocals \in Locals
          BY <3>1, LocalUpdates, LocalFacts
        <5>2. \/ loc' = [loc EXCEPT ![p] = [loc[p] EXCEPT !.token = conn.token]]
              \/ loc' = [loc EXCEPT ![p] = [loc[p] EXCEPT !.back = "rehydrate"]]
              \/ loc' = [loc EXCEPT ![p] = NoLocals]
          BY <3>2 DEF Hydrate, Finish
        <5> QED BY <5>1, <5>2
      <4> QED BY <3>2, <4>1 DEF Hydrate
    <3>3. CASE Rehydrate(p)
      <4>1. loc' \in [Procs -> Locals]
        <5>1. /\ [loc[p] EXCEPT !.token = conn.token] \in Locals
              /\ NoLocals \in Locals
          BY <3>1, LocalUpdates, LocalFacts
        <5>2. \/ loc' = [loc EXCEPT ![p] = [loc[p] EXCEPT !.token = conn.token]]
              \/ loc' = [loc EXCEPT ![p] = NoLocals]
          BY <3>3 DEF Rehydrate, Finish
        <5> QED BY <5>1, <5>2
      <4> QED BY <3>3, <4>1 DEF Rehydrate
    <3>4. CASE Api(p) BY <1>0, <3>4 DEF Api, Locals
    <3> QED BY <2>4, <3>2, <3>3, <3>4
  <2>5. CASE ReadStatus(p)
    BY <1>0, <2>5 DEF ReadStatus
  <2>6. CASE DeleteConnection(p)
    BY <1>0, <2>6, NodeFacts DEF DeleteConnection
  <2>7. CASE LoadOld(p) \/ RevokeAtProvider(p)
    <3>1. CASE LoadOld(p)
      <4>1. conn.token \in Nat BY DEF Nodes
      <4>2. CASE Loads BY <3>1, <4>1, <4>2 DEF LoadOld, Locals
      <4>3. CASE ~Loads BY <3>1, <4>3 DEF LoadOld
      <4> QED BY <4>2, <4>3
    <3>2. CASE RevokeAtProvider(p) BY <3>2 DEF RevokeAtProvider
    <3> QED BY <2>7, <3>1, <3>2
  <2>8. CASE RevokeLocally(p)
    BY <1>0, <2>8, NodeFacts DEF RevokeLocally
  <2> QED BY <1>7, <2>1, <2>2, <2>3, <2>4, <2>5, <2>6, <2>7, <2>8 DEF RequestStep
<1>8. CASE Elsewhere
  <2>1. CASE StartFlow BY <2>1, ConnectionAssumption DEF StartFlow
  <2>2. CASE ComesDue BY <2>2, NodeFacts DEF ComesDue
  <2>3. CASE LockExpires BY <2>3 DEF LockExpires
  <2>4. CASE Lapse BY <2>4 DEF Lapse
  <2>5. CASE TimePasses
    <3>1. age' \in [StateTokens -> Nat] /\ nonce' \in [StateTokens -> Nat]
      BY <2>5 DEF TimePasses
    <3>2. ASSUME NEW p \in Procs PROVE loc'[p] \in Locals
      <4>1. [loc[p] EXCEPT !.waited = @ + 1] \in Locals
        BY DEF Locals
      <4> QED BY <2>5, <4>1 DEF TimePasses
    <3>3. loc' \in [Procs -> Locals]
      BY <2>5, <3>2 DEF TimePasses
    <3> QED BY <2>5, <3>1, <3>3 DEF TimePasses
  <2> QED BY <1>8, <2>1, <2>2, <2>3, <2>4, <2>5 DEF Elsewhere
<1>9. CASE UNCHANGED connectionVars
  BY <1>9 DEF connectionVars
<1> QED BY <1>1, <1>2, <1>3, <1>4, <1>5, <1>6, <1>7, <1>8, <1>9 DEF ConnectionNext, RefreshStep
\* Every reachable state is well typed.
THEOREM ConnectionTyped == ConnectionSpec => []Types
BY TypesInit, TypesStep, PTL DEF ConnectionSpec

-----------------------------------------------------------------------------
\* A step of a process leaves the others where they are.
LEMMA Others ==
  ASSUME Types, NEW p \in Procs,
         RequestStep(p) \/ SweeperStep(p) \/ RefreshStep(p) \/ Abort(p)
  PROVE  /\ \A q \in Procs : q # p => pc'[q] = pc[q] /\ loc'[q] = loc[q]
         /\ mishaps' = mishaps \/ mishaps' = mishaps + 1
<1> USE DEF Types, Goto, Finish, Fault, history
<1>1. CASE RequestStep(p)
  <2>1. CASE BeginRequest(p) \/ BeginCallback(p) BY <2>1 DEF BeginRequest, BeginCallback, BeginOp
  <2>2. CASE ConsumeNonce(p) \/ Exchange(p) BY <2>2 DEF ConsumeNonce, Accept, Exchange
  <2>3. CASE Hydrate(p) \/ Rehydrate(p) \/ Api(p) BY <2>3 DEF Hydrate, Rehydrate, Api
  <2>4. CASE ReadStatus(p) BY <2>4 DEF ReadStatus
  <2>5. CASE DeleteConnection(p) \/ LoadOld(p) BY <2>5 DEF DeleteConnection, LoadOld
  <2>6. CASE RevokeAtProvider(p) \/ RevokeLocally(p) BY <2>6 DEF RevokeAtProvider, RevokeLocally
  <2> QED BY <1>1, <2>1, <2>2, <2>3, <2>4, <2>5, <2>6 DEF RequestStep
<1>2. CASE SweeperStep(p)
  BY <1>2 DEF SweeperStep, Scan, BeginOp, TryLock, Reload, Remark
<1>3. CASE RefreshStep(p)
  BY <1>3 DEF RefreshStep, Load, Refresh, MarkExpired, RefreshFailed, Upsert
<1>4. CASE Abort(p)
  BY <1>4 DEF Abort
<1> QED BY <1>1, <1>2, <1>3, <1>4

\* The key of a nonce lives as long beyond the first use of its state as the state
\* may have left to live: what is over when it expires is the state too, but for
\* what its age was at first.
Held(x) ==
  /\ age[x] <= Outdated /\ first[x] <= Outdated
  /\ exchanged[x] > 0 => /\ x <= started
                         /\ age[x] = Outdated \/ first[x] + StateTtl <= age[x] + nonce[x]

\* A callback about to consume the nonce of x found x young enough.
Asked(x, wait) ==
  /\ x \in StateTokens /\ x <= started
  /\ wait > StateTtl \/ age[x] <= wait + StateTtl + MaxSkew
  /\ exchanged[x] > 0 => wait > StateTtl \/ first[x] <= wait + MaxSkew + nonce[x]

Counted ==
  /\ \A x \in StateTokens : Held(x)
  /\ \A p \in Procs : pc[p] = "nonce" => Asked(loc[p].state, loc[p].waited)

\* A step of a process other than a callback's two.
LEMMA CountedStill ==
  ASSUME Counted, UNCHANGED flow,
         \A p \in Procs : pc'[p] = "nonce" => pc[p] = "nonce" /\ loc'[p] = loc[p]
  PROVE  Counted'
BY DEF Counted, Held, Asked, flow

\* A tick ages states and callbacks alike.
LEMMA CountedTick == ASSUME Types, Counted, TimePasses PROVE Counted'
<1> USE ConnectionAssumption DEF Types, Outdated
<1>1. /\ UNCHANGED <<started, pc, exchanged, first>>
      /\ \A x \in StateTokens :
           /\ age'[x] = IF x <= started /\ age[x] < Outdated THEN age[x] + 1 ELSE age[x]
           /\ nonce'[x] = IF nonce[x] > 0 THEN nonce[x] - 1 ELSE 0
  BY DEF TimePasses
<1>2. ASSUME NEW x \in StateTokens PROVE Held(x)'
  <2>1. Held(x) /\ x \in Nat
    BY DEF Counted, StateTokens
  <2> QED BY <1>1, <2>1 DEF Held
<1>3. ASSUME NEW p \in Procs, pc'[p] = "nonce"
      PROVE  Asked(loc[p].state, loc[p].waited)'
  <2>1. /\ Asked(loc[p].state, loc[p].waited) /\ loc[p].waited \in Nat
        /\ loc[p].state \in StateTokens
    BY <1>1, <1>3 DEF Counted, Asked, Locals
  <2>2. /\ loc'[p].state = loc[p].state
        /\ loc'[p].waited = IF loc[p].waited <= StateTtl THEN loc[p].waited + 1
                                                        ELSE loc[p].waited
    BY <1>1, <1>3 DEF TimePasses, Locals
  <2> DEFINE x == loc[p].state  w == loc[p].waited
  <2>3. Held(x)
    BY <2>1 DEF Counted
  <2>4. /\ age[x] \in Nat /\ nonce[x] \in Nat /\ first[x] \in Nat /\ exchanged[x] \in Nat
        /\ x \in Nat /\ w \in Nat
    BY <2>1 DEF StateTokens
  <2>5. w > StateTtl \/ age'[x] <= w + 1 + StateTtl + MaxSkew
    BY <1>1, <2>1, <2>4 DEF Asked
  <2>6. exchanged[x] > 0 => w > StateTtl \/ first[x] <= w + 1 + MaxSkew + nonce'[x]
    BY <1>1, <2>1, <2>4 DEF Asked
  <2> HIDE DEF x, w
  <2>7. x \in StateTokens /\ x <= started
    BY <2>1 DEF Asked, x
  <2>8. loc'[p].state = x /\ loc'[p].waited = IF w <= StateTtl THEN w + 1 ELSE w
    BY <2>2 DEF x, w
  <2>9. CASE w <= StateTtl
    BY <1>1, <2>4, <2>5, <2>6, <2>7, <2>8, <2>9 DEF Asked
  <2>10. CASE w > StateTtl
    BY <1>1, <2>4, <2>7, <2>8, <2>10 DEF Asked
  <2> QED BY <2>4, <2>9, <2>10
<1> QED BY <1>2, <1>3 DEF Counted

\* Of a state that is used again the key had expired; the callback has waited.
LEMMA CountedAccept ==
  ASSUME Types, Counted, NEW p \in Requests, ConsumeNonce(p) PROVE Counted'
<1> USE ConnectionAssumption DEF Types, Outdated
<1> DEFINE x == loc[p].state
<1>0. p \in Procs /\ pc[p] = "nonce"
  BY DEF Procs, ConsumeNonce
<1>1. CASE nonce[x] > 0
  <2>1. UNCHANGED flow /\ Finish(p)
    BY <1>1 DEF ConsumeNonce, flow
  <2> QED BY <1>0, <2>1, CountedStill DEF Finish, Goto
<1>2. CASE ~(nonce[x] > 0)
  <2>1. Accept(p, x) /\ UNCHANGED <<started, age>>
    BY <1>2 DEF ConsumeNonce
  <2>2. x \in StateTokens /\ x <= started /\ Held(x) /\ x \in Nat
    BY <1>0 DEF Counted, Asked, StateTokens
  <2>3. /\ nonce[x] = 0 /\ age[x] \in Nat /\ first[x] \in Nat /\ exchanged[x] \in Nat
        /\ nonce'[x] = StateTtl /\ exchanged'[x] = exchanged[x] + 1
        /\ first'[x] = IF exchanged[x] = 0 THEN age[x] ELSE first[x]
        /\ \A y \in StateTokens : y # x => /\ nonce'[y] = nonce[y] /\ first'[y] = first[y]
                                         /\ exchanged'[y] = exchanged[y]
    BY <1>2, <2>1, <2>2 DEF Accept
  <2>4. ASSUME NEW y \in StateTokens PROVE Held(y)'
    <3>1. CASE y = x
      BY <2>1, <2>2, <2>3, <3>1 DEF Held
    <3>2. CASE y # x
      BY <2>1, <2>3, <3>2 DEF Held, Counted
    <3> QED BY <3>1, <3>2
  <2>5. ASSUME NEW q \in Procs, pc'[q] = "nonce"
        PROVE  Asked(loc[q].state, loc[q].waited)'
    <3>1. q # p /\ pc[q] = "nonce" /\ loc'[q] = loc[q]
      BY <1>0, <2>1, <2>5 DEF Accept, Goto
    <3>2. Asked(loc[q].state, loc[q].waited) /\ loc[q].waited \in Nat
      BY <3>1 DEF Counted, Locals
    <3> DEFINE y == loc[q].state  w == loc[q].waited
    <3>3. y \in StateTokens /\ w \in Nat
      BY <3>2 DEF Asked
    <3> HIDE DEF y, w
    <3>4. Asked(y, w)
      BY <3>2 DEF y, w
    <3>5. CASE y # x
      BY <2>1, <2>3, <3>1, <3>3, <3>4, <3>5 DEF Asked, y, w
    <3>6. CASE y = x
      <4>1. w > StateTtl \/ first'[y] <= w + MaxSkew + StateTtl
        BY <2>2, <2>3, <3>3, <3>4, <3>6 DEF Asked
      <4> QED BY <2>1, <2>2, <2>3, <3>1, <3>3, <3>4, <3>6, <4>1 DEF Asked, y, w
    <3> QED BY <3>5, <3>6
  <2> QED BY <2>4, <2>5 DEF Counted
<1> QED BY <1>1, <1>2

\* A callback begins with a state that its host takes for young enough.
LEMMA CountedBegin ==
  ASSUME Types, Counted, NEW p \in Requests, BeginCallback(p) PROVE Counted'
<1> USE ConnectionAssumption DEF Types, Outdated
<1>0. p \in Procs
  BY DEF Procs
<1>1. PICK x \in 1..started : /\ age[x] <= StateTtl + MaxSkew
                             /\ BeginOp(p, "nonce", [Op("connect") EXCEPT !.state = x])
  BY DEF BeginCallback
<1>2. x \in StateTokens /\ x \in Nat /\ x <= started
  BY DEF StateTokens
<1>3. loc'[p].state = x /\ loc'[p].waited = 0
  BY <1>0, <1>1, <1>2, LocalFacts DEF BeginOp
<1>4. UNCHANGED flow
  BY DEF BeginCallback
<1>5. Asked(x, 0)
  BY <1>1, <1>2 DEF Asked, Counted, Held
<1>6. ASSUME NEW q \in Procs, pc'[q] = "nonce"
      PROVE  Asked(loc[q].state, loc[q].waited)'
  <2>1. CASE q = p
    BY <1>3, <1>4, <1>5, <2>1 DEF Asked, flow
  <2>2. CASE q # p
    <3>1. pc[q] = "nonce" /\ loc'[q] = loc[q]
      BY <1>0, <1>1, <1>6, <2>2 DEF BeginOp, Goto
    <3> QED BY <1>4, <3>1 DEF Asked, flow, Counted
  <2> QED BY <2>1, <2>2
<1> QED BY <1>4, <1>6 DEF Counted, Held, flow

\* Every other step of a process leaves the states alone and is none of these two.
LEMMA Apart ==
  ASSUME Types, NEW p \in Procs,
         \/ RefreshStep(p) \/ Abort(p) \/ SweeperStep(p)
         \/ RequestStep(p) /\ ~ConsumeNonce(p) /\ ~BeginCallback(p)
  PROVE  UNCHANGED flow /\ pc'[p] # "nonce"
<1> USE DEF Types, Goto, Finish
<1>1. CASE RefreshStep(p) \/ Abort(p)
  <2>1. CASE Load(p) BY <2>1 DEF Load, RefreshFailed
  <2>2. CASE Refresh(p) BY <2>2 DEF Refresh
  <2>3. CASE MarkExpired(p) BY <2>3 DEF MarkExpired, RefreshFailed
  <2>4. CASE Upsert(p) BY <2>4 DEF Upsert, Locals
  <2>5. CASE Abort(p) BY <2>5 DEF Abort
  <2> QED BY <1>1, <2>1, <2>2, <2>3, <2>4, <2>5 DEF RefreshStep
<1>2. CASE SweeperStep(p)
  <2>1. CASE Scan(p) BY <2>1 DEF Scan, BeginOp
  <2>2. CASE TryLock(p) BY <2>2 DEF TryLock
  <2>3. CASE Reload(p) BY <2>3 DEF Reload
  <2>4. CASE Remark(p) BY <2>4 DEF Remark
  <2> QED BY <1>2, <2>1, <2>2, <2>3, <2>4 DEF SweeperStep
<1>3. CASE RequestStep(p) /\ ~ConsumeNonce(p) /\ ~BeginCallback(p)
  <2>1. CASE BeginRequest(p) BY <2>1 DEF BeginRequest, BeginOp
  <2>2. CASE Exchange(p) BY <2>2 DEF Exchange
  <2>3. CASE Hydrate(p) \/ Rehydrate(p) \/ Api(p) BY <2>3 DEF Hydrate, Rehydrate, Api
  <2>4. CASE ReadStatus(p) BY <2>4 DEF ReadStatus
  <2>5. CASE DeleteConnection(p) \/ LoadOld(p) BY <2>5 DEF DeleteConnection, LoadOld
  <2>6. CASE RevokeAtProvider(p) \/ RevokeLocally(p) BY <2>6 DEF RevokeAtProvider, RevokeLocally
  <2> QED BY <1>3, <2>1, <2>2, <2>3, <2>4, <2>5, <2>6 DEF RequestStep
<1> QED BY <1>1, <1>2, <1>3

LEMMA CountedStep == ASSUME Types, Counted, [ConnectionNext]_connectionVars PROVE Counted'
<1>1. ASSUME NEW p \in Requests, ConsumeNonce(p) \/ BeginCallback(p) PROVE Counted'
  BY <1>1, CountedAccept, CountedBegin
<1>2. ASSUME NEW p \in Procs,
             \/ RefreshStep(p) \/ Abort(p) \/ SweeperStep(p)
             \/ RequestStep(p) /\ ~ConsumeNonce(p) /\ ~BeginCallback(p)
      PROVE  Counted'
  <2>1. UNCHANGED flow /\ pc'[p] # "nonce"
    BY <1>2, Apart
  <2>2. \A q \in Procs : q # p => pc'[q] = pc[q] /\ loc'[q] = loc[q]
    BY <1>2, Others
  <2> QED BY <2>1, <2>2, CountedStill
<1>3. CASE StartFlow
  <2>1. started' = started + 1 /\ UNCHANGED <<age, nonce, exchanged, first, pc, loc>>
    BY <1>3 DEF StartFlow
  <2>2. \A x \in StateTokens : x <= started => x <= started'
    BY <2>1 DEF Types, StateTokens
  <2> QED BY <2>1, <2>2 DEF Counted, Held, Asked
<1>4. CASE TimePasses
  BY <1>4, CountedTick
<1>5. CASE ComesDue \/ Lapse \/ LockExpires \/ UNCHANGED connectionVars
  <2>1. UNCHANGED <<flow, pc, loc>>
    BY <1>5 DEF ComesDue, Lapse, LockExpires, connectionVars
  <2> QED BY <2>1, CountedStill
<1>6. Sweepers \subseteq Procs /\ Requests \subseteq Procs
  BY DEF Procs
<1> QED BY <1>1, <1>2, <1>3, <1>4, <1>5, <1>6 DEF ConnectionNext, Elsewhere

LEMMA CountedInvariant == ConnectionSpec => [](Types /\ Counted)
<1>1. ConnectionInit => Types /\ Counted
  <2>1. ASSUME ConnectionInit PROVE Counted
    <3>1. Outdated \in Nat
      BY ConnectionAssumption DEF Outdated
    <3>2. \A x \in StateTokens : age[x] = 0 /\ first[x] = 0 /\ exchanged[x] = 0
      BY <2>1 DEF ConnectionInit
    <3>3. \A p \in Procs : pc[p] # "nonce"
      BY <2>1 DEF ConnectionInit
    <3> QED BY <3>1, <3>2, <3>3 DEF Counted, Held
  <2> QED BY <2>1, TypesInit
<1>2. Types /\ Counted /\ [ConnectionNext]_connectionVars => (Types /\ Counted)'
  BY TypesStep, CountedStep
<1> QED BY <1>1, <1>2, PTL DEF ConnectionSpec

\* StateUsedOnce: a state that was used is used again only by a callback that has
\* waited between its two checks for about the age the state had at first, with
\* any number of callbacks, any TTL and any skew of the clocks.
THEOREM StatesUsedOnce == ConnectionSpec => StateUsedOnce
<1> DEFINE Prompt(p, s) == loc[p].state = s /\ first[s] <= loc[p].waited + MaxSkew
<1>1. ASSUME Types, Counted, [ConnectionNext]_connectionVars,
             NEW p \in Requests, NEW s \in StateTokens,
             exchanged[s] > 0, exchanged'[s] # exchanged[s], pc[p] = "nonce", pc'[p] = "exchange"
      PROVE  Prompt(p, s)
  <2> USE ConnectionAssumption DEF Types, Outdated
  <2>0. Sweepers \subseteq Procs /\ Requests \subseteq Procs
    BY DEF Procs
  <2>1. PICK q \in Requests : ConsumeNonce(q)
    <3>1. ~(Elsewhere \/ UNCHANGED connectionVars)
      BY <1>1 DEF Elsewhere, StartFlow, ComesDue, Lapse, TimePasses, LockExpires, connectionVars,
         flow
    <3>2. ASSUME NEW r \in Procs,
                 \/ RefreshStep(r) \/ Abort(r) \/ SweeperStep(r)
                 \/ RequestStep(r) /\ ~ConsumeNonce(r) /\ ~BeginCallback(r)
          PROVE  FALSE
      BY <1>1, <3>2, Apart DEF flow
    <3>3. ASSUME NEW r \in Requests, BeginCallback(r) PROVE FALSE
      BY <1>1, <3>3 DEF BeginCallback, flow
    <3> QED BY <1>1, <2>0, <3>1, <3>2, <3>3 DEF ConnectionNext
  <2>2. q = p
    BY <1>1, <2>0, <2>1, Others DEF RequestStep
  <2> DEFINE x == loc[p].state
  <2>3. nonce[x] = 0 /\ exchanged' = [exchanged EXCEPT ![x] = @ + 1]
    <3>1. ~(nonce[x] > 0)
      BY <1>1, <2>1, <2>2 DEF ConsumeNonce
    <3>2. Accept(p, x)
      BY <2>1, <2>2, <3>1 DEF ConsumeNonce
    <3>3. nonce[x] \in Nat
      <4>1. p \in Procs /\ Asked(x, loc[p].waited)
        BY <1>1, <2>0 DEF Counted
      <4>2. x \in StateTokens
        BY <4>1 DEF Asked
      <4> QED BY <1>1, <4>2 DEF Types
    <3>4. nonce[x] = 0
      BY <3>1, <3>3
    <3> QED BY <3>2, <3>4 DEF Accept
  <2>4. x = s
    BY <1>1, <2>3
  <2>5. Asked(s, loc[p].waited) /\ Held(s) /\ loc[p].waited \in Nat /\ first[s] \in Nat
    BY <1>1, <2>0, <2>4 DEF Counted, Locals
  <2>6. first[s] <= loc[p].waited + MaxSkew
    BY <1>1, <2>3, <2>4, <2>5 DEF Asked, Held
  <2> QED BY <2>4, <2>6
<1>2. Types /\ Counted /\ [ConnectionNext]_connectionVars =>
        [\A p \in Requests, s \in StateTokens :
           /\ exchanged[s] > 0 /\ exchanged'[s] # exchanged[s]
           /\ pc[p] = "nonce" /\ pc'[p] = "exchange"
           => Prompt(p, s)]_connectionVars
  BY <1>1
<1> QED BY <1>2, CountedInvariant, PTL DEF ConnectionSpec, StateUsedOnce

-----------------------------------------------------------------------------
\* Where a sweeper is between taking the lock and being done.
OnTurn == {"load", "refresh", "mark", "upsert", "reload", "remark"}

\* Without a fault only the sweeper that has taken the lock is past it, and the
\* lock outlasts its turn.
Turns ==
  /\ \A p \in Sweepers : pc[p] \in {"idle", "lock"} \cup OnTurn /\ loc[p].back = "idle"
  /\ mishaps = 0 =>
       /\ ~lock => \A p \in Sweepers : pc[p] \notin OnTurn
       /\ \A p, q \in Sweepers : pc[p] \in OnTurn /\ pc[q] \in OnTurn => p = q

LEMMA TurnsStep == ASSUME Types, Turns, [ConnectionNext]_connectionVars PROVE Turns'
<1> USE DEF Turns, OnTurn, Types, Locals
<1>a. \A p \in Requests : p \notin Sweepers /\ p \in Procs
  BY ConnectionAssumption DEF Procs
<1>b. \A p \in Sweepers : p \in Procs
  BY DEF Procs
<1>1. ASSUME NEW p \in Requests, RequestStep(p) \/ RefreshStep(p) \/ Abort(p) PROVE Turns'
  <2>1. lock' = lock
    BY <1>1 DEF RequestStep, RefreshStep, BeginRequest, BeginCallback, ConsumeNonce, Exchange,
       Hydrate, Rehydrate, Api, ReadStatus, DeleteConnection, LoadOld, RevokeAtProvider,
       RevokeLocally, Load, Refresh, MarkExpired, Upsert, Abort
  <2>2. \A q \in Sweepers : pc'[q] = pc[q] /\ loc'[q] = loc[q]
    BY <1>1, <1>a, <1>b, Others
  <2>3. mishaps' = mishaps \/ mishaps' = mishaps + 1
    BY <1>1, <1>a, Others
  <2> QED BY <2>1, <2>2, <2>3
<1>2. ASSUME NEW p \in Sweepers, SweeperStep(p) PROVE Turns'
  <2>1. CASE Scan(p) BY <2>1, <1>b, LocalFacts DEF Scan, BeginOp, Goto, history, Ops
  <2>2. CASE TryLock(p) BY <2>2, <1>b DEF TryLock, Goto, Finish, NoLocals, history
  <2>3. CASE Reload(p)
    <3>1. pc'[p] \in {"idle", "remark"} /\ loc'[p].back = "idle" /\ pc[p] = "reload"
      BY <2>3, <1>b DEF Reload, Goto, Finish, NoLocals
    <3>2. \A q \in Procs : q # p => pc'[q] = pc[q] /\ loc'[q] = loc[q]
      BY <2>3, <1>b, Others DEF SweeperStep
    <3>3. UNCHANGED <<lock, mishaps>>
      BY <2>3 DEF Reload, history
    <3> QED BY <1>b, <3>1, <3>2, <3>3
  <2>4. CASE Remark(p) BY <2>4, <1>b DEF Remark, Goto, Finish, NoLocals, history
  <2> QED BY <1>2, <2>1, <2>2, <2>3, <2>4 DEF SweeperStep
<1>3. ASSUME NEW p \in Sweepers, RefreshStep(p) \/ Abort(p) PROVE Turns'
  <2>1. CASE Load(p) BY <2>1, <1>b DEF Load, RefreshFailed, Goto, Finish, NoLocals, history
  <2>2. CASE Refresh(p) BY <2>2, <1>b DEF Refresh, Goto, Finish, NoLocals, history, Fault
  <2>3. CASE MarkExpired(p) BY <2>3, <1>b DEF MarkExpired, RefreshFailed, Goto, Finish, NoLocals, history
  <2>4. CASE Upsert(p) BY <2>4, <1>b, SMTT(30) DEF Upsert, Goto, Finish, NoLocals, history
  <2>5. CASE Abort(p) BY <2>5, <1>b DEF Abort, Goto, Finish, NoLocals, Fault
  <2> QED BY <1>3, <2>1, <2>2, <2>3, <2>4, <2>5 DEF RefreshStep
<1>4. CASE StartFlow \/ ComesDue \/ Lapse \/ UNCHANGED connectionVars
  BY <1>4 DEF StartFlow, ComesDue, Lapse, connectionVars, history
<1>5. CASE LockExpires
  BY <1>5 DEF LockExpires, Fault
<1>6. CASE TimePasses
  <2>1. \A p \in Procs : loc'[p].back = loc[p].back
    BY <1>6 DEF TimePasses
  <2> QED BY <1>6, <1>b, <2>1 DEF TimePasses, history
<1> QED BY <1>1, <1>2, <1>3, <1>4, <1>5, <1>6 DEF ConnectionNext, Elsewhere, Procs

\* SweepersTakeTurns: for any number of instances, two sweepers are never past
\* _try_lock at once, unless a fault strikes.
THEOREM SweepersTurn == ConnectionSpec => []SweepersTakeTurns
<1>1. ConnectionInit => Types /\ Turns
  <2>1. ASSUME ConnectionInit PROVE Turns
    BY <2>1 DEF ConnectionInit, Turns, OnTurn, NoLocals, Procs
  <2> QED BY <2>1, TypesInit
<1>2. Types /\ Turns /\ [ConnectionNext]_connectionVars => (Types /\ Turns)'
  BY TypesStep, TurnsStep
<1>3. Turns => SweepersTakeTurns
  BY DEF Turns, OnTurn, SweepersTakeTurns, Refreshing
<1> QED BY <1>1, <1>2, <1>3, PTL DEF ConnectionSpec

-----------------------------------------------------------------------------
\* TokenNumbers are ones that were issued; the node of an active connection has one,
\* that of a revoked connection none.
Known ==
  /\ conn.token <= issued /\ live \subseteq 1..issued
  /\ conn.status = "active" => conn.token # 0
  /\ conn.status = "revoked" => conn.token = 0
  /\ \A p \in Procs : loc[p].token <= issued /\ loc[p].fresh <= issued

\* A token that is accepted, or no longer for a reason of its own: a DELETE, or time.
\* A provider that does not rotate refuses no other that it ever issued.
Sound == live \cup killed \cup bare
Lasting == ~rotates => 1..issued \subseteq Sound

\* A token that is about to be stored is good.  One that a rotating provider
\* has issued is known to nobody else, so that nobody can have it replaced.
Good(p) == loc[p].fresh # 0 /\ loc[p].fresh \in Sound
Alone(p) ==
  rotates => /\ loc[p].fresh # conn.token
             /\ \A q \in Procs : loc[q].token # loc[p].fresh
             /\ \A q \in Procs : q # p /\ pc[q] = "upsert" => loc[q].fresh # loc[p].fresh
FreshTokens == \A p \in Procs : pc[p] = "upsert" => Good(p) /\ Alone(p)

Tokened == Known /\ Lasting /\ FreshTokens /\ ActiveIsUsable

\* A step that neither asks the provider nor stores a token.
Plain(p) ==
  /\ UNCHANGED <<live, issued, rotates, killed, bare>>
  /\ \A q \in Procs : q # p => pc'[q] = pc[q] /\ loc'[q] = loc[q]
  /\ pc'[p] # "upsert"
  /\ loc'[p].token \in {0, loc[p].token, conn.token}
  /\ loc'[p].fresh \in {0, loc[p].fresh}
  /\ conn'.token \in {0, conn.token}
  /\ conn'.status = "active" => conn.status = "active" /\ conn'.token = conn.token
  /\ conn'.status = "revoked" => conn'.token = 0
  /\ lost => lost'
  /\ pc[p] = "upsert" => lost' \/ ~rotates \/ loc[p].token = 0

LEMMA PlainKeeps ==
  ASSUME Types, Types', Tokened, NEW p \in Procs, Plain(p) PROVE Tokened'
<1> USE DEF Tokened, Plain
<1>0. /\ conn.token \in Nat /\ issued \in Nat
      /\ \A q \in Procs : loc[q].token \in Nat /\ loc[q].fresh \in Nat
  BY DEF Types, Nodes, Locals
<1>1. Known'
  BY <1>0 DEF Known
<1>2. Lasting'
  BY DEF Lasting, Sound
<1>3. FreshTokens'
  <2> SUFFICES ASSUME NEW q \in Procs, pc'[q] = "upsert" PROVE Good(q)' /\ Alone(q)'
    BY DEF FreshTokens
  <2>1. q # p /\ loc'[q] = loc[q] /\ pc[q] = "upsert"
    OBVIOUS
  <2>2. Good(q) /\ Alone(q)
    BY <2>1 DEF FreshTokens
  <2>3. Good(q)'
    BY <2>1, <2>2 DEF Good, Sound
  <2>4. Alone(q)'
    BY <2>1, <2>2 DEF Good, Alone
  <2> QED BY <2>3, <2>4
<1>4. ActiveIsUsable'
  <2> SUFFICES ASSUME conn'.status = "active", ~lost',
                      conn.token \notin Sound
               PROVE  \E q \in Procs : pc'[q] = "upsert" /\ loc'[q].token = conn'.token
    BY DEF ActiveIsUsable, Sound
  <2>1. PICK q \in Procs : pc[q] = "upsert" /\ loc[q].token = conn.token
    BY DEF ActiveIsUsable, Sound
  <2>2. conn.token \in 1..issued
    BY <1>0 DEF Known
  <2>3. rotates
    BY <2>2 DEF Lasting, Types
  <2>4. q # p
    BY <2>1, <2>2, <2>3
  <2> QED BY <2>1, <2>4
<1> QED BY <1>1, <1>2, <1>3, <1>4

\* The token that a refresh replaces was stored at most; what it brings is new,
\* or the same again from a provider that does not rotate.
LEMMA RefreshKeeps ==
  ASSUME Types, Types', Tokened, NEW p \in Procs, Refresh(p) PROVE Tokened'
<1> USE DEF Tokened
<1>0. /\ conn.token \in Nat /\ issued \in Nat
      /\ \A q \in Procs : loc[q].token \in Nat /\ loc[q].fresh \in Nat
  BY DEF Types, Nodes, Locals
<1>1. /\ \A q \in Procs : q # p => pc'[q] = pc[q] /\ loc'[q] = loc[q]
      /\ UNCHANGED <<conn, killed, lost>> /\ pc[p] = "refresh"
  BY Others DEF Refresh, RefreshStep
<1>2. CASE pc'[p] = "mark" /\ UNCHANGED <<provider, loc>>
  <2>1. Plain(p)
    BY <1>0, <1>1, <1>2 DEF Plain, provider, Known
  <2> QED BY <2>1, PlainKeeps
<1>3. ASSUME ~rotates, loc[p].token \in live, pc'[p] = "upsert",
             loc' = [loc EXCEPT ![p].fresh = loc[p].token], UNCHANGED provider
      PROVE  Tokened'
  <2>1. loc'[p].fresh = loc[p].token /\ loc'[p].token = loc[p].token
    BY <1>3 DEF Types, Locals
  <2>2. Known'
    BY <1>0, <1>1, <1>3, <2>1 DEF Known, provider
  <2>3. Lasting' /\ FreshTokens'
    BY <1>0, <1>1, <1>3, <2>1 DEF Lasting, FreshTokens, Good, Alone, Known, provider, Sound
  <2>4. ActiveIsUsable'
    BY <1>0, <1>1, <1>3, <2>1 DEF ActiveIsUsable, provider
  <2> QED BY <2>2, <2>3, <2>4
<1>4. ASSUME rotates, loc[p].token \in live, pc'[p] = "upsert", UNCHANGED rotates, NEW n \in TokenNumbers,
             n = issued + 1, issued' = n, live' = (live \ {loc[p].token}) \cup {n},
             bare \subseteq bare', loc' = [loc EXCEPT ![p].fresh = n]
      PROVE  Tokened'
  <2>1. loc'[p].fresh = n /\ loc'[p].token = loc[p].token
    BY <1>4 DEF Types, Locals
  <2>2. Known'
    BY <1>0, <1>1, <1>4, <2>1 DEF Known
  <2>3. Lasting'
    BY <1>4 DEF Lasting
  <2>4. FreshTokens'
    <3> SUFFICES ASSUME NEW q \in Procs, pc'[q] = "upsert" PROVE Good(q)' /\ Alone(q)'
      BY DEF FreshTokens
    <3>1. CASE q = p
      BY <1>0, <1>1, <1>4, <2>1, <3>1 DEF Known, Good, Alone, Sound
    <3>2. CASE q # p
      <4>1. loc'[q] = loc[q] /\ pc[q] = "upsert" /\ loc[q].fresh <= issued
        BY <1>1, <3>2 DEF Known
      <4>2. Good(q) /\ Alone(q)
        BY <4>1 DEF FreshTokens
      <4>3. Good(q)'
        BY <1>0, <1>1, <1>4, <4>1, <4>2 DEF Good, Alone, Sound
      <4>4. Alone(q)'
        BY <1>0, <1>1, <1>4, <2>1, <4>1, <4>2 DEF Good, Alone, Sound
      <4> QED BY <4>3, <4>4
    <3> QED BY <3>1, <3>2
  <2>5. ActiveIsUsable'
    BY <1>0, <1>1, <1>4, <2>1 DEF ActiveIsUsable
  <2> QED BY <2>2, <2>3, <2>4, <2>5
<1>5. ASSUME ~rotates, pc'[p] = "upsert", UNCHANGED rotates, NEW n \in TokenNumbers,
             n = issued + 1, issued' = n, live' = live \cup {n}, bare' = bare \cup {n},
             loc' = [loc EXCEPT ![p].fresh = n]
      PROVE  Tokened'
  <2>1. loc'[p].fresh = n /\ loc'[p].token = loc[p].token
    BY <1>5 DEF Types, Locals
  <2>2. Known'
    BY <1>0, <1>1, <1>5, <2>1 DEF Known
  <2>3. Lasting'
    BY <1>0, <1>1, <1>5 DEF Lasting, Sound
  <2>4. FreshTokens'
    BY <1>0, <1>1, <1>5, <2>1 DEF FreshTokens, Good, Alone, Sound
  <2>5. ActiveIsUsable'
    BY <1>0, <1>1, <1>5, <2>1 DEF ActiveIsUsable
  <2> QED BY <2>2, <2>3, <2>4, <2>5
<1>6. CASE \E n \in TokenNumbers :
             /\ loc[p].token \in live /\ Renewed(loc[p].token, n) /\ rotates' = rotates
             /\ loc' = [loc EXCEPT ![p].fresh = n] /\ Goto(p, "upsert")
  <2>1. PICK n \in TokenNumbers :
             /\ loc[p].token \in live /\ Renewed(loc[p].token, n) /\ rotates' = rotates
             /\ loc' = [loc EXCEPT ![p].fresh = n] /\ Goto(p, "upsert")
    BY <1>6
  <2>2. pc'[p] = "upsert" /\ n = issued + 1 /\ issued' = n
    BY <2>1 DEF Renewed, IssueToken, Goto, Types
  <2>3. CASE rotates /\ live' = (live \ {loc[p].token}) \cup {n} /\ bare' \in {bare, bare \cup {n}}
    BY <1>4, <2>1, <2>2, <2>3
  <2>4. CASE ~rotates /\ live' = live \cup {n} /\ bare' = bare \cup {n}
    BY <1>5, <2>1, <2>2, <2>4
  <2> QED BY <2>1, <2>3, <2>4 DEF Renewed
<1> QED BY <1>1, <1>2, <1>3, <1>6 DEF Refresh, Goto, Types

\* A new grant brings a token nobody else has.
LEMMA ExchangeKeeps ==
  ASSUME Types, Types', Tokened, NEW p \in Requests, Exchange(p) PROVE Tokened'
<1> USE DEF Tokened
<1> p \in Procs BY DEF Procs
<1>0. /\ conn.token \in Nat /\ issued \in Nat
      /\ \A q \in Procs : loc[q].token \in Nat /\ loc[q].fresh \in Nat
  BY DEF Types, Nodes, Locals
<1>1. /\ \A q \in Procs : q # p => pc'[q] = pc[q] /\ loc'[q] = loc[q]
      /\ UNCHANGED <<conn, killed, lost>> /\ pc[p] = "exchange"
  BY Others DEF Exchange, RequestStep, history
<1>2. CASE Finish(p) /\ UNCHANGED provider
  <2>1. Plain(p)
    BY <1>0, <1>1, <1>2 DEF Plain, provider, Known, Finish, Goto, NoLocals, Types
  <2> QED BY <2>1, PlainKeeps
<1>3. ASSUME pc'[p] = "upsert", UNCHANGED rotates, NEW n \in TokenNumbers,
             n = issued + 1, issued' = n, live' = live \cup {n}, bare \subseteq bare',
             loc' = [loc EXCEPT ![p].fresh = n]
      PROVE  Tokened'
  <2>1. loc'[p].fresh = n /\ loc'[p].token = loc[p].token
    BY <1>3 DEF Types, Locals
  <2>2. Known'
    BY <1>0, <1>1, <1>3, <2>1 DEF Known
  <2>3. Lasting'
    BY <1>0, <1>1, <1>3 DEF Lasting, Sound
  <2>4. FreshTokens'
    <3> SUFFICES ASSUME NEW q \in Procs, pc'[q] = "upsert" PROVE Good(q)' /\ Alone(q)'
      BY DEF FreshTokens
    <3>1. CASE q = p
      BY <1>0, <1>1, <1>3, <2>1, <3>1 DEF Known, Good, Alone, Sound
    <3>2. CASE q # p
      <4>1. loc'[q] = loc[q] /\ pc[q] = "upsert" /\ loc[q].fresh <= issued
        BY <1>1, <3>2 DEF Known
      <4>2. Good(q) /\ Alone(q)
        BY <4>1 DEF FreshTokens
      <4>3. Good(q)'
        BY <1>0, <1>1, <1>3, <4>1, <4>2 DEF Good, Alone, Sound
      <4>4. Alone(q)'
        BY <1>0, <1>1, <1>3, <2>1, <4>1, <4>2 DEF Good, Alone, Sound
      <4> QED BY <4>3, <4>4
    <3> QED BY <3>1, <3>2
  <2>5. ActiveIsUsable'
    BY <1>0, <1>1, <1>3, <2>1 DEF ActiveIsUsable
  <2> QED BY <2>2, <2>3, <2>4, <2>5
<1> QED BY <1>1, <1>2, <1>3 DEF Exchange, IssueToken, Goto, Types

\* What is stored is good, and was this process's alone.
LEMMA UpsertKeeps ==
  ASSUME Types, Types', Tokened, NEW p \in Procs, Upsert(p) PROVE Tokened'
<1> USE DEF Tokened
<1>0. /\ conn.token \in Nat /\ issued \in Nat
      /\ \A q \in Procs : loc[q].token \in Nat /\ loc[q].fresh \in Nat
  BY DEF Types, Nodes, Locals
<1>1. /\ \A q \in Procs : q # p => pc'[q] = pc[q] /\ loc'[q] = loc[q]
      /\ UNCHANGED <<provider, killed, lost>> /\ pc[p] = "upsert"
      /\ conn'.status = "active" /\ conn'.token = loc[p].fresh
  BY Others DEF Upsert, RefreshStep, history
<1>2. loc'[p].token = 0 /\ loc'[p].fresh = 0 /\ pc'[p] # "upsert"
  BY DEF Upsert, Finish, Goto, NoLocals, Types, Locals
<1>3. loc[p].fresh # 0 /\ loc[p].fresh \in Sound
  BY <1>1 DEF FreshTokens, Good
<1>4. Known'
  BY <1>0, <1>1, <1>2, <1>3 DEF Known, provider
<1>5. Lasting'
  BY <1>1 DEF Lasting, Sound, provider
<1>6. FreshTokens'
  <2> SUFFICES ASSUME NEW q \in Procs, pc'[q] = "upsert" PROVE Good(q)' /\ Alone(q)'
    BY DEF FreshTokens
  <2>1. q # p /\ loc'[q] = loc[q] /\ pc[q] = "upsert"
    BY <1>1, <1>2
  <2>2. Good(q) /\ Alone(q)
    BY <2>1 DEF FreshTokens
  <2>3. Good(q)'
    BY <1>1, <2>1, <2>2 DEF Good, Sound, provider
  <2>4. Alone(q)'
    BY <1>1, <1>2, <2>1, <2>2 DEF Good, Alone, provider
  <2> QED BY <2>3, <2>4
<1>7. ActiveIsUsable'
  BY <1>1, <1>3 DEF ActiveIsUsable, Sound, provider
<1> QED BY <1>4, <1>5, <1>6, <1>7

\* A token that the provider revokes is listed as killed.
LEMMA RevokeKeeps ==
  ASSUME Types, Types', Tokened, NEW p \in Requests, RevokeAtProvider(p) PROVE Tokened'
<1> USE DEF Tokened
<1> p \in Procs BY DEF Procs
<1>1. /\ \A q \in Procs : pc'[q] = "upsert" <=> pc[q] = "upsert"
      /\ UNCHANGED <<conn, loc, issued, rotates, lost, bare>>
      /\ live' \subseteq live /\ live \cup killed \subseteq live' \cup killed'
  BY DEF RevokeAtProvider, Goto, Types
<1>2. Known' /\ Lasting'
  BY <1>1 DEF Known, Lasting, Sound
<1>3. FreshTokens'
  BY <1>1 DEF FreshTokens, Good, Alone, Sound
<1>4. ActiveIsUsable'
  BY <1>1 DEF ActiveIsUsable
<1> QED BY <1>2, <1>3, <1>4

LEMMA TokenedStep == ASSUME Types, Types', Tokened, [ConnectionNext]_connectionVars PROVE Tokened'
<1> USE DEF Goto, Finish, Fault, NoLocals, provider, history
<1>0. /\ conn \in Nodes /\ DOMAIN pc = Procs /\ loc \in [Procs -> Locals]
      /\ conn.token \in Nat /\ (conn.status = "revoked" => conn.token = 0)
  BY DEF Types, Nodes, Tokened, Known
<1>1. ASSUME NEW p \in Procs, RefreshStep(p) \/ Abort(p) PROVE Tokened'
  <2>1. \A q \in Procs : q # p => pc'[q] = pc[q] /\ loc'[q] = loc[q]
    BY <1>1, Others
  <2>2. CASE Load(p)
    <3>1. Plain(p) BY <1>0, <2>1, <2>2 DEF Plain, Load, RefreshFailed, Locals
    <3> QED BY <3>1, PlainKeeps
  <2>3. CASE MarkExpired(p)
    <3>1. Plain(p) BY <1>0, <2>1, <2>3 DEF Plain, MarkExpired, RefreshFailed, Nodes
    <3> QED BY <3>1, PlainKeeps
  <2>4. CASE Abort(p)
    <3>1. Plain(p) BY <1>0, <2>1, <2>4 DEF Plain, Abort
    <3> QED BY <3>1, PlainKeeps
  <2> QED BY <1>1, <2>2, <2>3, <2>4, RefreshKeeps, UpsertKeeps DEF RefreshStep
<1>2. ASSUME NEW p \in Sweepers, SweeperStep(p) PROVE Tokened'
  <2> p \in Procs BY DEF Procs
  <2>1. \A q \in Procs : q # p => pc'[q] = pc[q] /\ loc'[q] = loc[q]
    BY <1>2, Others
  <2>2. CASE Scan(p) \/ TryLock(p)
    <3>1. Plain(p) BY <1>0, <2>1, <2>2, LocalFacts DEF Plain, Scan, BeginOp, TryLock, Ops
    <3> QED BY <3>1, PlainKeeps
  <2>3. CASE Reload(p)
    <3>1. Plain(p) BY <1>0, <2>1, <2>3 DEF Plain, Reload, Locals
    <3> QED BY <3>1, PlainKeeps
  <2>4. CASE Remark(p)
    <3>1. Plain(p) BY <1>0, <2>1, <2>4 DEF Plain, Remark, Nodes
    <3> QED BY <3>1, PlainKeeps
  <2> QED BY <1>2, <2>2, <2>3, <2>4 DEF SweeperStep
<1>3. ASSUME NEW p \in Requests, RequestStep(p) PROVE Tokened'
  <2> p \in Procs BY DEF Procs
  <2>1. \A q \in Procs : q # p => pc'[q] = pc[q] /\ loc'[q] = loc[q]
    BY <1>3, Others
  <2>2. CASE BeginRequest(p) \/ BeginCallback(p)
    <3>1. /\ UNCHANGED <<conn, provider, history>> /\ pc[p] = "idle" /\ pc'[p] # "upsert"
          /\ loc'[p].token = 0 /\ loc'[p].fresh = 0
      <4>1. CASE BeginRequest(p)
        BY <1>0, <4>1, LocalFacts DEF BeginRequest, BeginOp, Ops
      <4>2. CASE BeginCallback(p)
        <5>1. PICK x \in 1..started : BeginOp(p, "nonce", [Op("connect") EXCEPT !.state = x])
          BY <4>2 DEF BeginCallback
        <5>2. x \in StateTokens
          BY ConnectionAssumption DEF StateTokens, Types
        <5> QED BY <1>0, <4>2, <5>1, <5>2, LocalFacts DEF BeginCallback, BeginOp
      <4> QED BY <2>2, <4>1, <4>2
    <3>2. Plain(p)
      BY <1>0, <2>1, <3>1 DEF Plain
    <3> QED BY <3>2, PlainKeeps
  <2>3. CASE ConsumeNonce(p)
    <3>1. Plain(p) BY <1>0, <2>1, <2>3 DEF Plain, ConsumeNonce, Accept, Op
    <3> QED BY <3>1, PlainKeeps
  <2>4. CASE Hydrate(p)
    <3>1. Plain(p) BY <1>0, <2>1, <2>4 DEF Plain, Hydrate, Locals, flow
    <3> QED BY <3>1, PlainKeeps
  <2>5. CASE Rehydrate(p)
    <3>1. Plain(p) BY <1>0, <2>1, <2>5 DEF Plain, Rehydrate, Locals
    <3> QED BY <3>1, PlainKeeps
  <2>6. CASE Api(p)
    <3>1. Plain(p) BY <1>0, <2>1, <2>6 DEF Plain, Api, Locals
    <3> QED BY <3>1, PlainKeeps
  <2>7. CASE ReadStatus(p)
    <3>1. Plain(p) BY <1>0, <2>1, <2>7 DEF Plain, ReadStatus
    <3> QED BY <3>1, PlainKeeps
  <2>8. CASE DeleteConnection(p)
    <3>1. Plain(p) BY <1>0, <2>1, <2>8 DEF Plain, DeleteConnection, NoConn
    <3> QED BY <3>1, PlainKeeps
  <2>9. CASE LoadOld(p)
    <3>1. Plain(p) BY <1>0, <2>1, <2>9 DEF Plain, LoadOld, Locals
    <3> QED BY <3>1, PlainKeeps
  <2>10. CASE RevokeLocally(p)
    <3>1. Plain(p) BY <1>0, <2>1, <2>10 DEF Plain, RevokeLocally, Nodes
    <3> QED BY <3>1, PlainKeeps
  <2> QED BY <1>3, <2>2, <2>3, <2>4, <2>5, <2>6, <2>7, <2>8, <2>9, <2>10, ExchangeKeeps,
             RevokeKeeps DEF RequestStep
<1>4. CASE ComesDue
  <2>1. conn'.token = conn.token /\ conn'.status = conn.status
    BY <1>0, <1>4 DEF ComesDue, Nodes
  <2> QED BY <1>4, <2>1 DEF ComesDue, Tokened, Known, Lasting, FreshTokens, Good, Alone, Sound, ActiveIsUsable
<1>5. CASE StartFlow \/ Lapse \/ TimePasses \/ LockExpires \/ UNCHANGED connectionVars
  <2>1. /\ UNCHANGED <<conn, issued, rotates, killed, lost, pc, bare>>
        /\ live' \subseteq live /\ Sound \subseteq live' \cup killed \cup bare
    BY <1>5 DEF StartFlow, Lapse, TimePasses, LockExpires, connectionVars, Sound
  <2>2. \A p \in Procs : loc'[p].token = loc[p].token /\ loc'[p].fresh = loc[p].fresh
    <3>1. CASE TimePasses
      BY <1>0, <3>1 DEF TimePasses, Locals
    <3>2. CASE ~TimePasses
      BY <1>5, <3>2 DEF StartFlow, Lapse, LockExpires, connectionVars
    <3> QED BY <3>1, <3>2
  <2>3. Known' /\ Lasting' /\ FreshTokens'
    BY <2>1, <2>2 DEF Tokened, Known, Lasting, FreshTokens, Good, Alone, Sound
  <2>4. ActiveIsUsable'
    BY <2>1, <2>2 DEF Tokened, ActiveIsUsable, Sound
  <2> QED BY <2>3, <2>4 DEF Tokened
<1> QED BY <1>1, <1>2, <1>3, <1>4, <1>5 DEF ConnectionNext, Elsewhere

LEMMA TokenedInvariant == ConnectionSpec => [](Types /\ Tokened)
<1>1. ConnectionInit => Types /\ Tokened
  <2>1. ASSUME ConnectionInit PROVE Tokened
    BY <2>1 DEF ConnectionInit, Tokened, Known, Lasting, FreshTokens, Good, Alone, ActiveIsUsable, Sound, NoConn, NoLocals
  <2> QED BY <2>1, TypesInit
<1>2. Types /\ Tokened /\ [ConnectionNext]_connectionVars => (Types /\ Tokened)'
  BY TypesStep, TokenedStep
<1> QED BY <1>1, <1>2, PTL DEF ConnectionSpec

\* ActiveIsUsable: the token of an active connection is one the provider accepts,
\* however many refreshes, flows and calls race (flows.py:340-370), unless it came
\* without a refresh token.
THEOREM ConnectionUsable == ConnectionSpec => []ActiveIsUsable
<1>1. Tokened => ActiveIsUsable
  BY DEF Tokened
<1> QED BY <1>1, TokenedInvariant, PTL

\* ReviveNeedsOldLoad: a refresh that comes to load a revoked connection ends
\* there, since revoking clears the token in the same query.
THEOREM Revived == ConnectionSpec => ReviveNeedsOldLoad
<1>1. Types /\ Tokened /\ [ConnectionNext]_connectionVars =>
        [\A p \in Procs : /\ conn.status = "revoked"
                          /\ pc[p] = "load" /\ pc'[p] # pc[p]
                          => pc'[p] = "idle"]_connectionVars
  <2> SUFFICES ASSUME Types, Tokened, [ConnectionNext]_connectionVars, NEW p \in Procs, conn.status = "revoked",
                      pc[p] = "load", pc'[p] # pc[p]
               PROVE  pc'[p] = "idle"
    OBVIOUS
  <2>1. ~Loads
    BY DEF Tokened, Known, Loads
  <2>2. CASE Load(p) \/ Abort(p)
    BY <2>1, <2>2 DEF Load, Abort, Finish, Goto, Types
  <2>3. ASSUME NEW q \in Procs, RequestStep(q) \/ SweeperStep(q) \/ RefreshStep(q) \/ Abort(q)
        PROVE  q = p
    BY <2>3, Others
  <2>4. ~(RequestStep(p) \/ SweeperStep(p) \/ Refresh(p) \/ MarkExpired(p) \/ Upsert(p))
    BY DEF RequestStep, SweeperStep, BeginRequest, BeginCallback, BeginOp, ConsumeNonce, Exchange,
       Hydrate, Rehydrate, Api, ReadStatus, DeleteConnection, LoadOld, RevokeAtProvider,
       RevokeLocally, Scan, TryLock, Reload, Remark, Refresh, MarkExpired, Upsert
  <2>5. ~(Elsewhere \/ UNCHANGED connectionVars)
    BY DEF Elsewhere, StartFlow, ComesDue, Lapse, TimePasses, LockExpires, connectionVars
  <2> QED BY <2>2, <2>3, <2>4, <2>5 DEF ConnectionNext, RefreshStep, Procs
<1> QED BY <1>1, TokenedInvariant, PTL DEF ConnectionSpec, ReviveNeedsOldLoad
=============================================================================
