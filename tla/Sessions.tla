------------------------------ MODULE Sessions ------------------------------
(* Token pairs, their rotation and revocation, one-time codes and second      *)
(* factors: endpoints/auth.py, endpoints/mfa.py, auth/tokens.py,              *)
(* auth/totp.py and auth/authorization_codes.py.  A pair is its position in   *)
(* ses.pair; a token is <<pair, kind>>, and its JWT is taken to be unexpired. *)
EXTENDS Accounts

CONSTANT NoOne, NoCode

VARIABLES
  ses,      \* TokenMetadata, TOTPSecret and authorisation codes
  sesLog    \* history the properties read and no handler does

Pairs == 1..Len(ses.pair)
Kinds == {"access", "refresh"}
Tokens(S) == S \X Kinds
Revoked(i, kind) == <<i, kind>> \in ses.revoked
Secrets(u) == {t \in ses.totp : t.u = u}
Quiet == UNCHANGED <<acc, accLog>>
Glance(q, next) == Look(q, next) /\ UNCHANGED <<ses, sesLog>>
Pause(q, label, next) == Wait(q, label, next) /\ UNCHANGED <<ses, sesLog>>
Revoke(tokens) == ses' = [ses EXCEPT !.revoked = @ \cup tokens]

\* issue_token_pair: one statement creates both tokens beside their principal;
\* a principal that is gone gets none.  A user's membership is seen to next.
Issue(q, label, p, family, from, then) == At(q, label) /\
  IF Exists(p)
  THEN LET next == Len(ses.pair) + 1 IN
       /\ Step(q, label,
               IF p \in Users THEN With(req[q], [at |-> "ensure.count", p |-> p, then |-> then])
               ELSE IF then = "idle" THEN Idle ELSE To(q, then))
       /\ ses' = [ses EXCEPT !.pair = Append(@,
            [sub |-> p, owner |-> p, family |-> IF family = 0 THEN next ELSE family])]
       /\ sesLog' = [sesLog EXCEPT !.from = Append(@, from),
            !.root = Append(@, IF from = 0 THEN next ELSE @[from])]
       /\ Quiet
  ELSE Pause(q, label, Idle)

-----------------------------------------------------------------------------
\* Password login

\* The hash is checked, and made anew when its parameters are old, in a thread.
Login(q) == \E u \in Users, rehash \in BOOLEAN :
  /\ Exists(u) /\ acc.node[u].active /\ acc.node[u].pw # NoPassword
  /\ Glance(q, [at |-> IF rehash THEN "login.rehash" ELSE "login.mfa",
                p |-> u, read |-> acc.node[u]])

LoginRehash(q) == LET l == req[q] IN
  /\ Step(q, "login.rehash", To(q, "login.mfa"))
  /\ MergeNode(q, l.p, l.read, accLog.want[l.p])
  /\ UNCHANGED <<ses, sesLog>>

\* The first row is the secret, in whatever order the database has them.
LoginSecondFactor(q) == At(q, "login.mfa") /\
  LET secrets == Secrets(req[q].p) IN
  \/ secrets = {} /\ Pause(q, "login.mfa", To(q, "login.issue"))
  \/ \E t \in secrets :
       \/ ~t.on /\ Pause(q, "login.mfa", To(q, "login.issue"))
       \/ t.on /\ Pause(q, "login.mfa", To(q, "login.used"))
       \/ t.on /\ \E c \in t.codes :
            Pause(q, "login.mfa", With(To(q, "login.backup"), [code |-> c]))

LoginTotp(q) == Pause(q, "login.used", To(q, "login.issue"))

\* A backup code is taken out by the statement that finds it.
Holding(u, c) == {t \in Secrets(u) : c \in t.codes}
Spend(u, c, on, verified) ==
  /\ ses' = [ses EXCEPT !.totp = (@ \ Holding(u, c)) \cup
       {[t EXCEPT !.codes = @ \ {c}, !.on = @ \/ on] : t \in Holding(u, c)}]
  /\ sesLog' = [sesLog EXCEPT !.used = Append(@, c), !.verified = @ \cup verified]

LoginBackupCode(q) == At(q, "login.backup") /\ LET l == req[q] IN
  IF Holding(l.p, l.code) = {} THEN Pause(q, "login.backup", Idle)
  ELSE Step(q, "login.backup", To(q, "login.issue")) /\ Spend(l.p, l.code, FALSE, {}) /\ Quiet

LoginIssue(q) == Issue(q, "login.issue", req[q].p, 0, 0, "login.save")

\* last_login is written with the whole user as the login had read it.
LoginSaveActive(q) == LET l == req[q] IN
  /\ Step(q, "login.save", Idle)
  /\ MergeNode(q, l.p, [l.read EXCEPT !.active = TRUE], accLog.want[l.p])
  /\ UNCHANGED <<ses, sesLog>>
LoginSave(q) == LET l == req[q] IN
  /\ Step(q, "login.save", Idle)
  /\ MergeNode(q, l.p, l.read, accLog.want[l.p])
  /\ UNCHANGED <<ses, sesLog>>

-----------------------------------------------------------------------------
\* Login through a provider, from the profile on: the flow before it and the
\* connection it leaves are the identity module's.

LoginCallback(q) == \E u \in Users :
  Glance(q, [at |-> IF Exists(u) THEN "oauth.link" ELSE "oauth.create",
             p |-> u, read |-> acc.node[u]])

\* Auto-creation merges: it overwrites a user created since the look.
CallbackCreatesUser(q) == LET l == req[q]
                              new == Node(TRUE, NoPassword) IN
  /\ Step(q, "oauth.create", [To(q, "oauth.link") EXCEPT !.read = new])
  /\ MergeNode(q, l.p, new, IF Exists(l.p) THEN accLog.want[l.p] ELSE new)
  /\ UNCHANGED <<ses, sesLog>>

CallbackLinks(q) == Pause(q, "oauth.link", To(q, "login.issue"))

-----------------------------------------------------------------------------
\* The authorisation code grant

\* The caller is whoever the access cookie names; its revocation is not read.
Authorize(q) == \E i \in Pairs :
  /\ Begin(q, Idle)
  /\ ses' = [ses EXCEPT !.code = @ \cup {<<ses.pair[i].sub, sesLog.made>>}]
  /\ sesLog' = [sesLog EXCEPT !.made = @ + 1]
  /\ Quiet

CodeExpires == \E c \in ses.code :
  /\ ses' = [ses EXCEPT !.code = @ \ {c}]
  /\ UNCHANGED <<pool, sesLog>> /\ Quiet

\* The client is looked up before the code is touched.
CodeGrant(q) == \E c \in ses.code : Glance(q, [at |-> "code.consume", code |-> c])

\* GETDEL: the code is gone whether or not what it holds fits the request.
ConsumeCodeGet(q) == At(q, "code.consume") /\ LET c == req[q].code IN
  IF c \notin ses.code THEN Pause(q, "code.consume", Idle)
  ELSE \E fits \in BOOLEAN :
       /\ Step(q, "code.consume", IF fits THEN [at |-> "code.issue", p |-> c[1]] ELSE Idle)
       /\ sesLog' = [sesLog EXCEPT !.used = Append(@, c[2])]
       /\ UNCHANGED ses /\ Quiet
ConsumeCode(q) == At(q, "code.consume") /\ LET c == req[q].code IN
  IF c \notin ses.code THEN Pause(q, "code.consume", Idle)
  ELSE \E fits \in BOOLEAN :
       /\ Step(q, "code.consume", IF fits THEN [at |-> "code.issue", p |-> c[1]] ELSE Idle)
       /\ ses' = [ses EXCEPT !.code = @ \ {c}]
       /\ sesLog' = [sesLog EXCEPT !.used = Append(@, c[2])]
       /\ Quiet

CodeIssue(q) == Issue(q, "code.issue", req[q].p, 0, 0, "idle")

-----------------------------------------------------------------------------
\* Rotation

\* The statement that revokes the token is the one that finds it unrevoked.
RotateRefreshToken(q) == \E i \in Pairs :
  IF Revoked(i, "refresh") THEN Glance(q, [at |-> "refresh.reuse", i |-> i])
  ELSE /\ Begin(q, [at |-> "refresh.principal", i |-> i])
       /\ Revoke({<<i, "refresh">>})
       /\ UNCHANGED sesLog /\ Quiet

RefreshReuse(q) == Pause(q, "refresh.reuse",
  IF Revoked(req[q].i, "refresh") THEN With(To(q, "refresh.cascade"), [tries |-> 1]) ELSE Idle)

\* The pair a chain of rotations began with.
Root(i) == sesLog.root[i]

\* Every token of the family; rotations past their own revocation are noted.
RefreshCascade(q) == At(q, "refresh.cascade") /\
  LET i == req[q].i
      kin == {j \in Pairs : Root(j) = Root(i)} IN
  /\ Step(q, "refresh.cascade", Idle)
  /\ Revoke({t \in Tokens(Pairs) : ses.pair[t[1]].family = ses.pair[i].family})
  /\ sesLog' = [sesLog EXCEPT
       !.cascaded = @ \cup {Root(i)},
       !.spared = (@ \ kin) \cup {req[r].i : r \in
          {r \in Slots : At(r, "refresh.principal") \/ At(r, "refresh.issue")}}]
  /\ Quiet

\* AGE's "Entity failed to be updated" on a concurrent SET: three tries.
CascadeConflict(q) ==
  /\ Step(q, "refresh.cascade", IF req[q].tries = 3 THEN Idle ELSE [req[q] EXCEPT !.tries = @ + 1])
  /\ Cardinality(InFlight) > 1
  /\ UNCHANGED <<ses, sesLog>> /\ Quiet

RefreshPrincipal(q) == LET p == ses.pair[req[q].i].sub IN
  Pause(q, "refresh.principal",
        IF acc.node[p].active THEN With(To(q, "refresh.issue"), [p |-> p]) ELSE Idle)

RefreshIssueNewFamily(q) == LET l == req[q] IN
  Issue(q, "refresh.issue", l.p, 0, l.i, "idle")
RefreshIssue(q) == LET l == req[q] IN
  Issue(q, "refresh.issue", l.p, ses.pair[l.i].family, l.i, "idle")

-----------------------------------------------------------------------------
\* Requests that carry an access token: authenticate_jwt reads the token's
\* record, then the principal.

WithToken(q, then) == \E i \in Pairs : /\ ~Revoked(i, "access")
  /\ Glance(q, [at |-> "jwt.principal", i |-> i, then |-> then])

AuthenticateJwt(q) == At(q, "jwt.principal") /\ LET p == ses.pair[req[q].i].sub IN
  Pause(q, "jwt.principal",
        IF acc.node[p].active
        THEN With(To(q, req[q].then), [p |-> p, read |-> acc.node[p]]) ELSE Idle)

Logout(q) == WithToken(q, "logout.access")

LogoutAccess(q) == \E all \in BOOLEAN :
  /\ Step(q, "logout.access", To(q, IF all THEN "logout.all" ELSE "logout.issued"))
  /\ Revoke({<<req[q].i, "access">>})
  /\ UNCHANGED sesLog /\ Quiet

\* The tokens still hanging on the principal's node.
OwnedBy(p) == {i \in Pairs : ses.pair[i].owner = p}
\* The pairs whose refresh token this logout is the one to end.
Ends(S) == {i \in S : ~Revoked(i, "refresh")}

LogoutAll(q) == LET mine == OwnedBy(req[q].p) IN
  /\ Step(q, "logout.all", Idle)
  /\ Revoke(Tokens(mine))
  /\ sesLog' = [sesLog EXCEPT !.out = @ \cup Ends(mine)]
  /\ Quiet

LogoutIssuedAt(q) == Pause(q, "logout.issued", To(q, "logout.refresh"))

\* The principal's refresh token of the same issued_at: the pair's own.
LogoutRefresh(q) == LET i == req[q].i
                        own == {i} \cap {j \in Pairs : ses.pair[j].owner # NoOne} IN
  /\ Step(q, "logout.refresh", Idle)
  /\ Revoke({<<j, "refresh">> : j \in own})
  /\ sesLog' = [sesLog EXCEPT !.out = @ \cup Ends(own)]
  /\ Quiet

-----------------------------------------------------------------------------
\* mfa.py

\* Two calls about the second factor of one user at a time are noted.
MfaCall(q, then) == \E i \in Pairs : LET u == ses.pair[i].sub IN
  /\ ~Revoked(i, "access") /\ u \in Users
  /\ Look(q, [at |-> "jwt.principal", i |-> i, then |-> then, mfa |-> u])
  /\ sesLog' = [sesLog EXCEPT
       !.overlap = IF \E r \in InFlight : "mfa" \in DOMAIN req[r] /\ req[r].mfa = u
                   THEN @ \cup {u} ELSE @]
  /\ UNCHANGED ses

SetupMfa(q) == MfaCall(q, "mfa.clear")

SetupMfaClearOff(q) == LET u == req[q].p IN
  /\ Step(q, "mfa.clear", To(q, "mfa.save"))
  /\ ses' = [ses EXCEPT !.totp = @ \ {t \in Secrets(u) : ~t.on}]
  /\ UNCHANGED sesLog /\ Quiet
SetupMfaClear(q) == LET u == req[q].p IN
  /\ Step(q, "mfa.clear", To(q, "mfa.save"))
  /\ ses' = [ses EXCEPT !.totp = @ \ Secrets(u)]
  /\ UNCHANGED sesLog /\ Quiet

\* One backup code stands for the ten.
SetupMfaSave(q) == LET u == req[q].p
                       n == sesLog.made IN
  /\ Step(q, "mfa.save", Idle)
  /\ ses' = [ses EXCEPT !.totp = IF Exists(u)
       THEN @ \cup {[u |-> u, n |-> n, on |-> FALSE, codes |-> {n}]} ELSE @]
  /\ sesLog' = [sesLog EXCEPT !.made = n + 1]
  /\ Quiet

VerifyMfa(q) == MfaCall(q, "mfa.verify")

VerifyMfaFetch(q) == At(q, "mfa.verify") /\ \E t \in Secrets(req[q].p) :
  \E c \in t.codes \cup {NoCode} :
    Pause(q, "mfa.verify", With(To(q, "mfa.enable"), [n |-> t.n, code |-> c]))

VerifyMfaEnable(q) == At(q, "mfa.enable") /\ LET l == req[q] IN
  IF l.code = NoCode
  THEN /\ Step(q, "mfa.enable", Idle)
       /\ ses' = [ses EXCEPT !.totp = {IF t.u = l.p THEN [t EXCEPT !.on = TRUE] ELSE t : t \in @}]
       /\ sesLog' = [sesLog EXCEPT !.verified = @ \cup {l.n}]
       /\ Quiet
  ELSE IF Holding(l.p, l.code) = {} THEN Pause(q, "mfa.enable", Idle)
  ELSE /\ Step(q, "mfa.enable", Idle)
       /\ Spend(l.p, l.code, TRUE, {l.n})
       /\ Quiet

DisableMfa(q) == MfaCall(q, "mfa.disable")

\* The password, or a code that is checked and not spent, lets it through.
DisableMfaCheck(q) == At(q, "mfa.disable") /\ \E t \in Secrets(req[q].p) :
  t.on /\ Pause(q, "mfa.disable", To(q, "mfa.delete"))

DisableMfaDelete(q) == LET u == req[q].p IN
  /\ Step(q, "mfa.delete", Idle)
  /\ ses' = [ses EXCEPT !.totp = @ \ Secrets(u)]
  /\ UNCHANGED sesLog /\ Quiet

-----------------------------------------------------------------------------

\* Each of S once, in some order.
Listed(S) == CHOOSE f \in [1..Cardinality(S) -> S] : \A a, b \in DOMAIN f : f[a] = f[b] => a = b

\* Every principal with a token pair of its own.
SesInit == LET S == {p \in Principals : Exists(p)}
               of == Listed(S) IN
  /\ ses = [pair |-> [i \in 1..Cardinality(S) |-> [sub |-> of[i], owner |-> of[i], family |-> i]],
            revoked |-> {}, totp |-> {}, code |-> {}]
  /\ sesLog = [from |-> [i \in 1..Cardinality(S) |-> 0],
               root |-> [i \in 1..Cardinality(S) |-> i], used |-> <<>>, made |-> 0,
               cascaded |-> {}, spared |-> {}, out |-> {}, verified |-> {}, overlap |-> {}]

\* The edges of a principal that is deleted go with it.
SessionsFollow(gone) ==
  /\ ses' = [ses EXCEPT
       !.pair = [i \in Pairs |-> IF @[i].owner \in gone THEN [@[i] EXCEPT !.owner = NoOne] ELSE @[i]],
       !.totp = {t \in @ : t.u \notin gone}]
  /\ UNCHANGED sesLog

SessionsNext == \E q \in Slots :
  \/ "login" \in mix /\ (Login(q) \/ LoginCallback(q))
  \/ "codes" \in mix /\ (Authorize(q) \/ CodeGrant(q))
  \/ "tokens" \in mix /\ (RotateRefreshToken(q) \/ Logout(q))
  \/ "mfa" \in mix /\ (SetupMfa(q) \/ VerifyMfa(q) \/ DisableMfa(q))
  \/ LoginRehash(q) \/ LoginSecondFactor(q) \/ LoginTotp(q) \/ LoginBackupCode(q)
  \/ LoginIssue(q) \/ LoginSave(q) \/ CallbackCreatesUser(q) \/ CallbackLinks(q)
  \/ ConsumeCode(q) \/ CodeIssue(q)
  \/ RefreshReuse(q) \/ RefreshCascade(q) \/ CascadeConflict(q)
  \/ RefreshPrincipal(q) \/ RefreshIssue(q)
  \/ AuthenticateJwt(q) \/ LogoutAccess(q) \/ LogoutAll(q) \/ LogoutIssuedAt(q) \/ LogoutRefresh(q)
  \/ SetupMfaClear(q) \/ SetupMfaSave(q) \/ VerifyMfaFetch(q) \/ VerifyMfaEnable(q)
  \/ DisableMfaCheck(q) \/ DisableMfaDelete(q)

-----------------------------------------------------------------------------
\* Properties

SesTypeOK ==
  /\ \A i \in Pairs : /\ ses.pair[i].sub \in Principals
                      /\ ses.pair[i].owner \in Principals \cup {NoOne}
                      /\ ses.pair[i].family \in Pairs
  /\ ses.revoked \subseteq Tokens(Pairs)
  /\ Len(sesLog.from) = Len(ses.pair)
  /\ \A t \in ses.totp : t.u \in Users /\ t.on \in BOOLEAN

\* What may be used once is used once, whoever races for it: a refresh token
\* brings one pair (auth.py:1034), a backup code admits one login or one
\* verification (auth.py:854, mfa.py:266), an authorisation code is redeemed
\* once (authorization_codes.py:62).
UsedOnce ==
  /\ \A i, j \in Pairs : sesLog.from[i] = sesLog.from[j] /\ sesLog.from[i] # 0 => i = j
  /\ \A i, j \in DOMAIN sesLog.used : sesLog.used[i] = sesLog.used[j] => i = j

Live(i) == \E kind \in Kinds : ~Revoked(i, kind)

\* After a refresh token has come back a second time, nothing of the chain it
\* belongs to is alive, however often it had been rotated; but what a rotation
\* makes that was past its own revocation when the cascade ran (auth.py:949).
CascadeReachesTheChain == \A i \in Pairs : Root(i) \in sesLog.cascaded /\ Live(i) =>
  \E j \in Pairs : /\ sesLog.from[j] \in sesLog.spared
                   /\ Root(j) = Root(i) /\ j <= i

\* A logout that finds the refresh token unspent ends the chain: the pair stays
\* revoked and no later rotation continues it (auth.py:1197-1288).
LogoutHolds == \A i \in sesLog.out :
  ~Live(i) /\ \A j \in Pairs : sesLog.from[j] # i

\* A user whose calls about the second factor never overlapped has at most one
\* secret, and one that is enabled was verified with a code of its own: setup
\* replaces in two statements and verify enables whatever is there (mfa.py:174,
\* mfa.py:297).
SecondFactorVerified == \A u \in Users \ sesLog.overlap :
  /\ Cardinality(Secrets(u)) <= 1
  /\ \A t \in Secrets(u) : t.on => t.n \in sesLog.verified

\* What a reuse or a logout has revoked stays revoked, and so does what would
\* have continued it.
RevokedStaysRevoked == CascadeReachesTheChain /\ LogoutHolds
=============================================================================
