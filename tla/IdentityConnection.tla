------------------------- MODULE IdentityConnection -------------------------
(***************************************************************************)
(* The connection of one user to one identity integration                  *)
(* (imbi_api/identity): the IdentityConnection node, the tokens it stores, *)
(* and what runs on it at once: the refresh sweeper of every instance, and *)
(* requests that connect, use, refresh and disconnect it.                  *)
(*                                                                         *)
(* Every query, every Valkey command and every call to the provider is a   *)
(* step.  A token stands for an access token with its refresh token, or    *)
(* without one (bare).  The provider is external: it knows which tokens it *)
(* still accepts, and replaces the token on every refresh, or on none.     *)
(*                                                                         *)
(* Time is in ticks.  What a host takes for the age of a state token and   *)
(* what it is differ by MaxSkew at most: clocks differ, and the two times  *)
(* are cut to whole seconds.                                               *)
(***************************************************************************)
EXTENDS Naturals, FiniteSets

CONSTANTS
    Sweepers,       \* refresh sweepers, one per instance
    Requests,       \* requests under way
    Menus,          \* what processes do: the assignments of operations that are run
    StateTtl,       \* max_age_seconds of a state, and ttl_seconds of a nonce
    MaxSkew,        \* how far off the age of a state can be
    MaxTokens,      \* bound: tokens the provider ever issues
    MaxStates,      \* bound: state tokens of redirect flows
    MaxMishaps,     \* bound: faults
    Env             \* which faults may happen

Events == {"provider_error", "abort", "slow_provider"}

Ops == {"sweep", "call", "refresh", "delete", "poll", "start", "connect"}

ASSUME ConnectionAssumption ==
    /\ Sweepers \cap Requests = {}
    /\ Menus \subseteq [Sweepers \cup Requests -> SUBSET Ops]
    /\ StateTtl \in Nat \ {0} /\ MaxSkew \in Nat
    /\ MaxTokens \in Nat \ {0} /\ MaxStates \in Nat /\ MaxMishaps \in Nat
    /\ Env \subseteq Events

VARIABLES
    conn,        \* the node
    live,        \* tokens the provider accepts
    issued,      \* tokens issued so far; they are numbered
    rotates,     \* whether the provider replaces a token on refresh
    bare,        \* tokens that came without a refresh token
    lock,        \* the sweepers' refresh lock is held
    started,     \* state tokens of redirect flows; they are numbered
    age,         \* how old a state token is, while that matters
    nonce,       \* how long the key of its nonce will still be there
    menu,        \* what each process does
    pc,          \* control point of every process
    loc,         \* locals of every process
    exchanged,   \* history: how often a state token led to an exchange
    first,       \* history: its age when it did so first
    killed,      \* history: tokens revoked at the provider by a DELETE
    lost,        \* history: the replacement of a token was never stored
    mishaps      \* history: faults so far

provider == <<live, issued, rotates, bare>>
flow == <<started, age, nonce, exchanged, first>>
history == <<killed, lost, mishaps>>
connectionVars == <<conn, provider, lock, flow, menu, pc, loc, history>>

Procs == Sweepers \cup Requests
TokenNumbers == 1..MaxTokens
StateTokens == 1..MaxStates

\* From this age on every host refuses a state token.
Outdated == StateTtl + MaxSkew + 1

\* No node; one has a nano-id, a token (0 when cleared) that may expire soon.
NoConn == [id |-> 0, status |-> "none", token |-> 0, due |-> FALSE]

\* op: what the process is doing; id, token: as loaded; fresh: a token to be
\* stored; back: where a refresh returns to; retried: the one retry is used;
\* state: the state token a callback brings; waited: the time since its age was
\* checked, while that matters.
NoLocals == [op |-> "none", id |-> 0, token |-> 0, fresh |-> 0,
             back |-> "idle", retried |-> FALSE, state |-> 0, waited |-> 0]

Goto(p, label) == pc' = [pc EXCEPT ![p] = label]
Finish(p) == Goto(p, "idle") /\ loc' = [loc EXCEPT ![p] = NoLocals]

Fault(kind) ==
    /\ kind \in Env
    /\ mishaps < MaxMishaps
    /\ mishaps' = mishaps + 1

\* load_connection finds a connection only if it has an access token.
Loads == conn.token # 0

ConnectionInit ==
    /\ conn \in {NoConn, [id |-> 1, status |-> "active", token |-> 1,
                          due |-> FALSE]}
    /\ issued = 1 /\ live = {1} /\ rotates \in BOOLEAN /\ bare \in {{}, {1}}
    /\ lock = FALSE
    /\ started = 0
    /\ age = [s \in StateTokens |-> 0] /\ nonce = [s \in StateTokens |-> 0]
    /\ menu \in Menus
    /\ pc = [p \in Procs |-> "idle"]
    /\ loc = [p \in Procs |-> NoLocals]
    /\ exchanged = [s \in StateTokens |-> 0] /\ first = [s \in StateTokens |-> 0]
    /\ killed = {} /\ lost = FALSE /\ mishaps = 0

-----------------------------------------------------------------------------
(* The sweeper and the requests begin.                                     *)

\* A process begins with an operation of its menu.
BeginOp(p, label, locals) ==
    /\ locals.op \in menu[p] /\ pc[p] = "idle"
    /\ Goto(p, label)
    /\ loc' = [loc EXCEPT ![p] = locals]

Op(op) == [NoLocals EXCEPT !.op = op]

\* stale_connections: active, about to expire, with a refresh token.
Scan(p) ==
    /\ p \in Sweepers
    /\ conn.status = "active" /\ conn.due /\ conn.token \notin {0} \cup bare
    /\ BeginOp(p, "lock", Op("sweep"))
    /\ UNCHANGED <<conn, provider, lock, flow, history>>

\* Mutant of TryLock: the lock is taken whether or not it is held.
TryLockAlways(p) ==
    /\ pc[p] = "lock"
    /\ lock' = TRUE
    /\ Goto(p, "load")
    /\ UNCHANGED <<conn, provider, flow, loc, history>>

\* _try_lock: SET NX EX.  Nothing deletes the lock.
TryLock(p) ==
    /\ pc[p] = "lock"
    /\ lock' = TRUE
    /\ IF lock THEN Finish(p) ELSE Goto(p, "load") /\ UNCHANGED loc
    /\ UNCHANGED <<conn, provider, flow, history>>

BeginRequest(p) ==
    /\ p \in Requests
    /\ \/ BeginOp(p, "hydrate", Op("call"))
       \/ BeginOp(p, "load", Op("refresh"))
       \/ BeginOp(p, "status", Op("delete"))
       \/ BeginOp(p, "exchange", Op("poll"))
    /\ UNCHANGED <<conn, provider, lock, flow, history>>

\* start_flow signs a state token, which a callback brings back.
StartFlow ==
    /\ started < MaxStates
    /\ \E p \in Requests : "start" \in menu[p]
    /\ started' = started + 1
    /\ UNCHANGED <<conn, provider, lock, age, nonce, pc, loc, exchanged, first,
                   history>>

\* decode_identity_state refuses one that its host takes for older than StateTtl.
BeginCallback(p) ==
    /\ p \in Requests
    /\ \E s \in 1..started :
          /\ age[s] <= StateTtl + MaxSkew
          /\ BeginOp(p, "nonce", [Op("connect") EXCEPT !.state = s])
    /\ UNCHANGED <<conn, provider, lock, flow, history>>

-----------------------------------------------------------------------------
(* complete_flow and poll_flow.                                            *)

\* A callback goes on to exchange the code of the state token s.
Accept(p, s) ==
    /\ nonce' = [nonce EXCEPT ![s] = StateTtl]
    /\ first' = [first EXCEPT ![s] = IF exchanged[s] = 0 THEN age[s] ELSE @]
    /\ exchanged' = [exchanged EXCEPT ![s] = @ + 1]
    /\ Goto(p, "exchange")
    /\ loc' = [loc EXCEPT ![p] = Op("connect")]

\* Mutant of ConsumeNonce: a nonce that was consumed is not turned away.
ConsumeNonceAgain(p) ==
    /\ pc[p] = "nonce"
    /\ Accept(p, loc[p].state)
    /\ UNCHANGED <<conn, provider, lock, started, age, history>>

\* SET NX EX of the nonce of the state token; a consumed one is an error.
ConsumeNonce(p) ==
    /\ pc[p] = "nonce"
    /\ LET s == loc[p].state
       IN  IF nonce[s] > 0
             THEN Finish(p) /\ UNCHANGED <<nonce, exchanged, first>>
             ELSE Accept(p, s)
    /\ UNCHANGED <<conn, provider, lock, started, age, history>>

IssueToken(n) == issued < MaxTokens /\ n = issued + 1 /\ issued' = n

\* exchange_code: a token of a new grant; or pending, expired, refused.
Exchange(p) ==
    /\ pc[p] = "exchange"
    /\ \/ \E n \in TokenNumbers :
             /\ IssueToken(n)
             /\ live' = live \cup {n} /\ UNCHANGED rotates
             /\ bare' \in {bare, bare \cup {n}}
             /\ loc' = [loc EXCEPT ![p].fresh = n]
             /\ Goto(p, "upsert")
       \/ Finish(p) /\ UNCHANGED provider
    /\ UNCHANGED <<conn, lock, flow, history>>

-----------------------------------------------------------------------------
(* refresh_connection.                                                     *)

\* Where a refresh that failed leaves its caller: the sweeper looks again,
\* a request answers 401 or 502.
RefreshFailed(p) ==
    IF loc[p].op = "sweep" THEN Goto(p, "reload") /\ UNCHANGED loc
                           ELSE Finish(p)

\* A connection without a refresh token fails and is left as it is.
Load(p) ==
    /\ pc[p] = "load"
    /\ \/ ~Loads /\ Finish(p)
       \/ Loads /\ conn.token \in bare /\ RefreshFailed(p)
       \/ /\ Loads /\ conn.token \notin bare
          /\ loc' = [loc EXCEPT ![p].id = conn.id, ![p].token = conn.token]
          /\ Goto(p, "refresh")
    /\ UNCHANGED <<conn, provider, lock, flow, history>>

\* The provider answers with a new token: in the place of g, or, if it keeps
\* refresh tokens and does not repeat them, a bare one beside it.
Renewed(g, n) ==
    /\ IssueToken(n)
    /\ \/ /\ rotates
          /\ live' = (live \ {g}) \cup {n}
          /\ bare' \in {bare, bare \cup {n}}
       \/ /\ ~rotates
          /\ live' = live \cup {n}
          /\ bare' = bare \cup {n}

\* The provider refuses a token it does not accept, and may fail otherwise.
Refresh(p) ==
    /\ pc[p] = "refresh"
    /\ LET g == loc[p].token
       IN  \/ \E n \in TokenNumbers :
                 /\ g \in live /\ Renewed(g, n)
                 /\ loc' = [loc EXCEPT ![p].fresh = n]
                 /\ Goto(p, "upsert")
                 /\ UNCHANGED <<rotates, mishaps>>
           \/ /\ ~rotates /\ g \in live
              /\ loc' = [loc EXCEPT ![p].fresh = g]
              /\ Goto(p, "upsert")
              /\ UNCHANGED <<provider, mishaps>>
           \/ /\ (g \notin live /\ UNCHANGED mishaps) \/ Fault("provider_error")
              /\ Goto(p, "mark")
              /\ UNCHANGED <<provider, loc>>
    /\ UNCHANGED <<conn, lock, flow, killed, lost>>

\* mark_status: by node id, whatever the node has become.
MarkExpired(p) ==
    /\ pc[p] = "mark"
    /\ conn' = IF conn.id = loc[p].id
                 THEN [conn EXCEPT !.status = "expired"] ELSE conn
    /\ RefreshFailed(p)
    /\ UNCHANGED <<provider, lock, flow, history>>

\* Mutant of Upsert: a refresh leaves the refresh token that is stored.
UpsertKeepsToken(p) ==
    /\ pc[p] = "upsert"
    /\ conn' = [id |-> IF conn.id = 0 THEN loc[p].fresh ELSE conn.id,
                status |-> "active", due |-> FALSE,
                token |-> IF conn.token = 0 THEN loc[p].fresh ELSE conn.token]
    /\ IF loc[p].back = "idle"
         THEN Finish(p)
         ELSE /\ Goto(p, loc[p].back)
              /\ loc' = [loc EXCEPT ![p].id = 0, ![p].token = 0, ![p].fresh = 0]
    /\ UNCHANGED <<provider, lock, flow, history>>

\* upsert_connection: MERGE by integration and user, whatever is there.
Upsert(p) ==
    /\ pc[p] = "upsert"
    /\ conn' = [id |-> IF conn.id = 0 THEN loc[p].fresh ELSE conn.id,
                status |-> "active", due |-> FALSE, token |-> loc[p].fresh]
    /\ IF loc[p].back = "idle"
         THEN Finish(p)
         ELSE /\ Goto(p, loc[p].back)
              /\ loc' = [loc EXCEPT ![p].id = 0, ![p].token = 0, ![p].fresh = 0]
    /\ UNCHANGED <<provider, lock, flow, history>>

\* The sweeper after a failed refresh: mark what is there, if need be.
Reload(p) ==
    /\ pc[p] = "reload"
    /\ IF Loads /\ conn.status # "expired"
         THEN /\ loc' = [loc EXCEPT ![p].id = conn.id]
              /\ Goto(p, "remark")
         ELSE Finish(p)
    /\ UNCHANGED <<conn, provider, lock, flow, history>>

Remark(p) ==
    /\ pc[p] = "remark"
    /\ conn' = IF conn.id = loc[p].id
                 THEN [conn EXCEPT !.status = "expired"] ELSE conn
    /\ Finish(p)
    /\ UNCHANGED <<provider, lock, flow, history>>

-----------------------------------------------------------------------------
(* A capability call: call_with_identity_retry, hydrate_identity.          *)

\* A connection that is due is refreshed before it is used, if it has a refresh
\* token.
Hydrate(p) ==
    /\ pc[p] = "hydrate"
    /\ IF ~Loads \/ conn.status # "active" THEN Finish(p)
       ELSE IF conn.due /\ conn.token \notin bare
         THEN /\ loc' = [loc EXCEPT ![p].back = "rehydrate"]
              /\ Goto(p, "load")
         ELSE /\ loc' = [loc EXCEPT ![p].token = conn.token]
              /\ Goto(p, "api")
    /\ UNCHANGED <<conn, provider, lock, flow, history>>

Rehydrate(p) ==
    /\ pc[p] = "rehydrate"
    /\ IF ~Loads \/ conn.status # "active" THEN Finish(p)
       ELSE /\ loc' = [loc EXCEPT ![p].token = conn.token]
            /\ Goto(p, "api")
    /\ UNCHANGED <<conn, provider, lock, flow, history>>

\* The plugin's call.  The first PluginAuthenticationFailed leads to a
\* refresh and another attempt.
Api(p) ==
    /\ pc[p] = "api"
    /\ \/ Finish(p)
       \/ /\ ~loc[p].retried
          /\ loc' = [loc EXCEPT ![p].token = 0, ![p].back = "hydrate",
                                ![p].retried = TRUE]
          /\ Goto(p, "load")
    /\ UNCHANGED <<conn, provider, lock, flow, history>>

-----------------------------------------------------------------------------
(* revoke_connection.                                                      *)

ReadStatus(p) ==
    /\ pc[p] = "status"
    /\ CASE conn.status = "none" -> Finish(p)
         [] conn.status = "active" -> Goto(p, "loadold") /\ UNCHANGED loc
         [] OTHER -> Goto(p, "drop") /\ UNCHANGED loc
    /\ UNCHANGED <<conn, provider, lock, flow, history>>

\* delete_connection; also when the integration is gone.
DeleteConnection(p) ==
    /\ pc[p] \in {"drop", "status"}
    /\ conn' = NoConn
    /\ Finish(p)
    /\ UNCHANGED <<provider, lock, flow, history>>

LoadOld(p) ==
    /\ pc[p] = "loadold"
    /\ IF Loads THEN /\ loc' = [loc EXCEPT ![p].token = conn.token]
                     /\ Goto(p, "revoke")
                ELSE Goto(p, "local") /\ UNCHANGED loc
    /\ UNCHANGED <<conn, provider, lock, flow, history>>

\* The provider revokes the token it is shown, or fails.
RevokeAtProvider(p) ==
    /\ pc[p] = "revoke"
    /\ \/ /\ live' = live \ {loc[p].token}
          /\ killed' = killed \cup {loc[p].token}
          /\ UNCHANGED mishaps
       \/ Fault("provider_error") /\ UNCHANGED <<live, killed>>
    /\ Goto(p, "local")
    /\ UNCHANGED <<conn, issued, rotates, bare, lock, flow, loc, lost>>

\* Mutant of RevokeLocally: the tokens are left on the node.
RevokeLocallyKeepsTokens(p) ==
    /\ pc[p] = "local"
    /\ conn' = IF conn.id = 0 THEN conn ELSE [conn EXCEPT !.status = "revoked"]
    /\ Finish(p)
    /\ UNCHANGED <<provider, lock, flow, history>>

\* repository.revoke: by integration and user, whatever is there.
RevokeLocally(p) ==
    /\ pc[p] = "local"
    /\ conn' = IF conn.id = 0 THEN conn
               ELSE [conn EXCEPT !.status = "revoked", !.token = 0]
    /\ Finish(p)
    /\ UNCHANGED <<provider, lock, flow, history>>

-----------------------------------------------------------------------------
(* Time and faults.                                                        *)

ComesDue ==
    /\ conn.token # 0 /\ ~conn.due
    /\ conn' = [conn EXCEPT !.due = TRUE]
    /\ UNCHANGED <<provider, lock, flow, pc, loc, history>>

\* The access token of a grant without a refresh token runs out.
Lapse ==
    /\ \E n \in bare \cap live : live' = live \ {n}
    /\ UNCHANGED <<conn, issued, rotates, bare, lock, flow, pc, loc, history>>

\* A tick of the clock, as far as state tokens and their nonces go.
TimePasses ==
    /\ age' = [s \in StateTokens |->
                 IF s <= started /\ age[s] < Outdated THEN age[s] + 1 ELSE age[s]]
    /\ nonce' = [s \in StateTokens |-> IF nonce[s] > 0 THEN nonce[s] - 1 ELSE 0]
    /\ loc' = [p \in Procs |->
                 IF pc[p] = "nonce" /\ loc[p].waited <= StateTtl
                   THEN [loc[p] EXCEPT !.waited = @ + 1] ELSE loc[p]]
    /\ UNCHANGED <<conn, provider, lock, started, pc, exchanged, first, history>>

\* The lock's TTL outlasts a refresh, unless the provider is slow.
LockExpires ==
    /\ lock
    /\ \/ /\ \A p \in Sweepers : pc[p] \in {"idle", "lock"}
          /\ UNCHANGED mishaps
       \/ Fault("slow_provider")
    /\ lock' = FALSE
    /\ UNCHANGED <<conn, provider, flow, pc, loc, killed, lost>>

\* A query raises, or the instance stops.
Abort(p) ==
    /\ Fault("abort")
    /\ pc[p] # "idle"
    /\ Finish(p)
    /\ lost' = (lost \/ (pc[p] = "upsert" /\ rotates /\ loc[p].token # 0))
    /\ UNCHANGED <<conn, provider, lock, flow, killed>>

-----------------------------------------------------------------------------
RefreshStep(p) ==
    Load(p) \/ Refresh(p) \/ MarkExpired(p) \/ Upsert(p)

SweeperStep(p) ==
    Scan(p) \/ TryLock(p) \/ Reload(p) \/ Remark(p)

RequestStep(p) ==
    \/ BeginRequest(p) \/ BeginCallback(p)
    \/ ConsumeNonce(p) \/ Exchange(p)
    \/ Hydrate(p) \/ Rehydrate(p) \/ Api(p)
    \/ ReadStatus(p) \/ DeleteConnection(p) \/ LoadOld(p)
    \/ RevokeAtProvider(p) \/ RevokeLocally(p)

Elsewhere == StartFlow \/ ComesDue \/ Lapse \/ TimePasses \/ LockExpires

ConnectionNext ==
    /\ \/ \E p \in Procs : RefreshStep(p) \/ Abort(p)
       \/ \E p \in Sweepers : SweeperStep(p)
       \/ \E p \in Requests : RequestStep(p)
       \/ Elsewhere
    /\ UNCHANGED menu

ConnectionSpec == ConnectionInit /\ [][ConnectionNext]_connectionVars

-----------------------------------------------------------------------------
(* Properties.                                                             *)

\* A state token leads to one exchange, however many callbacks bring it back: the
\* nonce outlives the state (identity/flows.py: it "cannot be replayed within its
\* 10-minute TTL").  Since both have the same TTL it does so by as much as the
\* state was old when it was used first: a callback that comes again is let
\* through only after waiting about that long between its two checks.
StateUsedOnce ==
    [][\A p \in Requests, s \in StateTokens :
          /\ exchanged[s] > 0 /\ exchanged'[s] # exchanged[s]
          /\ pc[p] = "nonce" /\ pc'[p] = "exchange"
          => loc[p].state = s /\ first[s] <= loc[p].waited + MaxSkew]_connectionVars

Refreshing == {"load", "refresh", "mark", "upsert"}

\* Two sweepers never refresh the connection at once, as long as the provider
\* answers within the TTL of the lock.
SweepersTakeTurns ==
    mishaps = 0 =>
        \A p, q \in Sweepers :
            pc[p] \in Refreshing /\ pc[q] \in Refreshing => p = q

\* The token of an active connection is one the provider accepts, unless its
\* replacement is about to be stored or was lost, a DELETE killed it, or it came
\* without a refresh token: then it lapses, and nothing expires the connection
\* (identity/flows.py:354 raises before it marks one; the sweeper passes over it).
ActiveIsUsable ==
    conn.status = "active" =>
        \/ conn.token \in live \cup killed \cup bare
        \/ lost
        \/ \E p \in Procs : pc[p] = "upsert" /\ loc[p].token = conn.token

\* A revoked connection comes back only by connecting anew, or by a refresh
\* that had loaded it before it was revoked.
ReviveNeedsOldLoad ==
    [][\A p \in Procs :
          /\ conn.status = "revoked"
          /\ pc[p] = "load" /\ pc'[p] # pc[p]
          => pc'[p] = "idle"]_connectionVars
=============================================================================
