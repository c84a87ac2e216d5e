---------------------------- MODULE Credentials ----------------------------
(* API keys and client credentials: api_keys.py, sa_api_keys.py,              *)
(* client_credentials.py, _credentials.py, and authenticate_api_key of        *)
(* auth/permissions.py with its cache of verified keys in the process.        *)
EXTENDS Sessions, Integers, SequencesExt

CONSTANTS
  Ttl,         \* _API_KEY_CACHE_TTL_SECONDS, in ticks
  CacheSize,   \* _API_KEY_CACHE_MAX_ENTRIES
  MaxTime      \* bound: ticks of the clock

ASSUME CredentialsAssumption == Ttl \in Nat /\ CacheSize \in Nat \ {0} /\ MaxTime \in Nat

VARIABLES
  keys,     \* the APIKey and ClientCredential nodes, by position
  cache,    \* the verified keys, least recently used first
  now,      \* time.monotonic
  keyLog    \* history the properties read and no handler does

Keys == DOMAIN keys
Key(kind, owner, secret) ==
  [kind |-> kind, there |-> TRUE, owner |-> owner, secret |-> secret, revoked |-> FALSE]
Of(p, kind) == {k \in Keys : keys[k].there /\ keys[k].owner = p /\ keys[k].kind = kind}
Usable(k, s) ==
  /\ keys[k].there /\ ~keys[k].revoked /\ keys[k].secret = s
  /\ keys[k].owner # NoOne /\ acc.node[keys[k].owner].active

SessionsQuiet == Quiet /\ UNCHANGED <<ses, sesLog>>
KeysQuiet == UNCHANGED <<keys, cache, now, keyLog>>
Rest(q, label, next) == Pause(q, label, next) /\ KeysQuiet
Peek(q, next) == Glance(q, next) /\ KeysQuiet

\* generate_secret: a secret nobody has seen before.
Fresh == Len(keyLog.valid) + 1
HandOut(k) == [keyLog EXCEPT !.valid = Append(@, [k |-> k, at |-> now])]
Write(newKeys, log) ==
  keys' = newKeys /\ keyLog' = log /\ UNCHANGED <<cache, now>> /\ SessionsQuiet

\* create_service_account_owned_node: the node and its edge in one statement.
CreateOwned(q, label, kind) == LET p == req[q].p IN
  IF Exists(p)
  THEN /\ Step(q, label, Idle)
       /\ Write(Append(keys, Key(kind, p, Fresh)), HandOut(Len(keys) + 1))
  ELSE Rest(q, label, Idle)

-----------------------------------------------------------------------------
\* A user's own keys: the caller's token first, then the handler.

CreateApiKey(q) == WithToken(q, "key.scopes") /\ KeysQuiet

ValidateScopes(q) == Rest(q, "key.scopes", To(q, "key.create"))

\* The node is merged first and tied to its owner by a second statement.
CreateApiKeyNode(q) ==
  /\ Step(q, "key.create", With(To(q, "key.own"), [k |-> Len(keys) + 1]))
  /\ Write(Append(keys, Key("api", NoOne, Fresh)), HandOut(Len(keys) + 1))

CreateApiKeyOwner(q) == LET l == req[q] IN
  /\ Step(q, "key.own", Idle)
  /\ Write(IF Exists(l.p) THEN [keys EXCEPT ![l.k].owner = l.p] ELSE keys, keyLog)

RevokeApiKey(q) == WithToken(q, "key.find") /\ KeysQuiet

FindApiKey(q) == At(q, "key.find") /\ \E k \in Of(req[q].p, "api") :
  Rest(q, "key.find", With(To(q, "key.revoke"), [k |-> k]))

RevokeApiKeyNode(q) ==
  /\ Step(q, "key.revoke", Idle)
  /\ Write([keys EXCEPT ![req[q].k].revoked = TRUE], keyLog)

RotateApiKey(q) == WithToken(q, "key.lookup") /\ KeysQuiet

LookupApiKey(q) == At(q, "key.lookup") /\ \E k \in Of(req[q].p, "api") :
  ~keys[k].revoked /\ Rest(q, "key.lookup", With(To(q, "key.rotate"), [k |-> k]))

\* Whether it has been revoked in between is not looked at again.
RotateApiKeyNode(q) == LET k == req[q].k IN
  /\ Step(q, "key.rotate", Idle)
  /\ Write([keys EXCEPT ![k].secret = Fresh], HandOut(k))

-----------------------------------------------------------------------------
\* A service account's keys and client credentials

CreateServiceKey(q) == \E s \in Services :
  Exists(s) /\ Peek(q, [at |-> "sakey.create", p |-> s])

CreateServiceKeyNode(q) == At(q, "sakey.create") /\ CreateOwned(q, "sakey.create", "api")

RevokeServiceKey(q) == \E s \in Services : \E k \in Of(s, "api") :
  Begin(q, Idle) /\ Write([keys EXCEPT ![k].revoked = TRUE], keyLog)

RotateServiceKey(q) == \E s \in Services : \E k \in Of(s, "api") :
  ~keys[k].revoked /\ Peek(q, [at |-> "sakey.rotate", p |-> s, k |-> k])

\* The statement that sets the hash asks again that the key is not revoked.
Rotated(q, label, kind) == LET l == req[q] IN
  IF l.k \in Of(l.p, kind) /\ ~keys[l.k].revoked
  THEN Step(q, label, Idle) /\ Write([keys EXCEPT ![l.k].secret = Fresh], HandOut(l.k))
  ELSE Rest(q, label, Idle)

RotateServiceKeyNode(q) == At(q, "sakey.rotate") /\ Rotated(q, "sakey.rotate", "api")

CreateClientCredential(q) == \E s \in Services :
  Exists(s) /\ Peek(q, [at |-> "client.create", p |-> s])

CreateClientCredentialNode(q) == At(q, "client.create") /\ CreateOwned(q, "client.create", "client")

RevokeClientCredential(q) == \E s \in Services : \E k \in Of(s, "client") :
  Begin(q, Idle) /\ Write([keys EXCEPT ![k].revoked = TRUE], keyLog)

RotateClientCredential(q) == \E s \in Services : \E k \in Of(s, "client") :
  ~keys[k].revoked /\ Peek(q, [at |-> "client.rotate", p |-> s, k |-> k])

RotateClientCredentialNode(q) == At(q, "client.rotate") /\ Rotated(q, "client.rotate", "client")

\* The client credentials grant: credential and owner in one read, the secret
\* verified in a thread, then a token pair of its own family.
ClientCredentialsGrant(q) == \E k \in Keys :
  /\ keys[k].kind = "client" /\ Usable(k, keys[k].secret)
  /\ Peek(q, [at |-> "grant.issue", p |-> keys[k].owner])

GrantIssue(q) == Issue(q, "grant.issue", req[q].p, 0, 0, "grant.used") /\ KeysQuiet

GrantUsed(q) == Rest(q, "grant.used", Idle)

-----------------------------------------------------------------------------
\* authenticate_api_key

Entry(k, s) == {i \in DOMAIN cache : cache[i].k = k /\ cache[i].s = s}
Uncached(k, s) ==
  IF Entry(k, s) = {} THEN cache ELSE RemoveAt(cache, CHOOSE i \in Entry(k, s) : TRUE)

\* The caller is let in: how long ago the key was last good, less what a lookup
\* in hand may take.
Serve(s, gap, log) == [log EXCEPT !.late = LET late == (now - log.valid[s].at) - gap IN
                                           IF late > @ THEN late ELSE @]

\* An entry past its time is taken out; one that is not is moved to the end.
CacheLookupStale(q, k, s) == \E i \in Entry(k, s) : LET e == cache[i] IN
  /\ Begin(q, Idle)
  /\ cache' = Append(Uncached(k, s), e)
  /\ keyLog' = Serve(s, e.gap, keyLog)
  /\ UNCHANGED <<keys, now>> /\ SessionsQuiet
CacheLookup(q, k, s) == \E i \in Entry(k, s) : LET e == cache[i] IN
  /\ now <= e.until
  /\ Begin(q, Idle)
  /\ cache' = Append(Uncached(k, s), e)
  /\ keyLog' = Serve(s, e.gap, keyLog)
  /\ UNCHANGED <<keys, now>> /\ SessionsQuiet

\* Key and owner in one read, the secret verified in a thread.
ReadApiKey(q, k, s) ==
  /\ \A i \in Entry(k, s) : now > cache[i].until
  /\ Usable(k, s)
  /\ Begin(q, [at |-> "apikey.perms", k |-> k, s |-> s, since |-> now])
  /\ cache' = Uncached(k, s)
  /\ keyLog' = [keyLog EXCEPT !.valid[s].at = now]
  /\ UNCHANGED <<keys, now>> /\ SessionsQuiet

AuthenticateApiKey(q) == \E s \in DOMAIN keyLog.valid : LET k == keyLog.valid[s].k IN
  keys[k].kind = "api" /\ (CacheLookup(q, k, s) \/ ReadApiKey(q, k, s))

ApiKeyPermissions(q) == Rest(q, "apikey.perms", To(q, "apikey.stamp"))

\* After the stamp the context is stored for Ttl from now; at the limit the
\* entry used longest ago goes.
CacheStore(q) == At(q, "apikey.stamp") /\ LET
    l == req[q]
    new == [k |-> l.k, s |-> l.s, until |-> now + Ttl, gap |-> now - l.since]
    room == IF Len(cache) < CacheSize THEN cache ELSE Tail(cache)
    same == {i \in DOMAIN room : room[i].k = l.k /\ room[i].s = l.s} IN
  /\ Step(q, "apikey.stamp", Idle)
  /\ cache' = IF same = {} THEN Append(room, new)
              ELSE [i \in DOMAIN room |-> IF i \in same THEN new ELSE room[i]]
  /\ keyLog' = Serve(l.s, now - l.since, keyLog)
  /\ UNCHANGED <<keys, now>> /\ SessionsQuiet

Tick == /\ now < MaxTime
        /\ now' = now + 1
        /\ keyLog' = [keyLog EXCEPT !.valid =
             [s \in DOMAIN @ |-> IF Usable(@[s].k, s) THEN [@[s] EXCEPT !.at = now + 1] ELSE @[s]]]
        /\ UNCHANGED <<pool, keys, cache>> /\ SessionsQuiet

-----------------------------------------------------------------------------

\* Every principal with an API key of its own.
KeysInit == LET S == {p \in Principals : Exists(p)}
                of == Listed(S) IN
  /\ keys = [k \in 1..Cardinality(S) |-> Key("api", of[k], k)]
  /\ cache = <<>>
  /\ now = 0
  /\ keyLog = [valid |-> [k \in 1..Cardinality(S) |-> [k |-> k, at |-> 0]], late |-> 0]

\* delete_service_account deletes what the account owns; a user's keys, and
\* those of an account whose creation is rolled back, lose their owner.
KeysFollow(gone, owned) ==
  /\ keys' = [k \in Keys |-> IF keys[k].owner \notin gone THEN keys[k]
                             ELSE [keys[k] EXCEPT !.owner = NoOne,
                                     !.there = ~(owned /\ keys[k].owner \in Services)]]
  /\ UNCHANGED <<cache, now, keyLog>>

CredentialsNext == \E q \in Slots :
  \/ "keys" \in mix /\ (\/ CreateApiKey(q) \/ RevokeApiKey(q) \/ RotateApiKey(q)
                        \/ CreateServiceKey(q) \/ RevokeServiceKey(q) \/ RotateServiceKey(q))
  \/ "clients" \in mix /\ (\/ CreateClientCredential(q) \/ RevokeClientCredential(q)
                           \/ RotateClientCredential(q) \/ ClientCredentialsGrant(q))
  \/ "api" \in mix /\ AuthenticateApiKey(q)
  \/ ValidateScopes(q) \/ CreateApiKeyNode(q) \/ CreateApiKeyOwner(q)
  \/ FindApiKey(q) \/ RevokeApiKeyNode(q) \/ LookupApiKey(q) \/ RotateApiKeyNode(q)
  \/ CreateServiceKeyNode(q) \/ RotateServiceKeyNode(q)
  \/ CreateClientCredentialNode(q) \/ RotateClientCredentialNode(q)
  \/ GrantIssue(q) \/ GrantUsed(q)
  \/ ApiKeyPermissions(q) \/ CacheStore(q)

-----------------------------------------------------------------------------
\* Properties

KeysTypeOK ==
  /\ \A k \in Keys : keys[k].owner \in Principals \cup {NoOne}
  /\ \A k \in Keys : keyLog.valid[keys[k].secret].k = k
  /\ Len(cache) <= CacheSize
  /\ now \in 0..MaxTime

\* A key that lets a caller in was good, secret, owner and all, no longer ago
\* than the cache keeps it, counted from the read that found it good
\* (permissions.py:506-508, :588, :613).
ServedWasGood == keyLog.late <= Ttl
=============================================================================
