# Formal models of imbi-api

TLA+ specifications of imbi-api: its background workers, the request handlers
that share a graph without transactions, and the logs and lists readers page
through; the TLC configurations that check them on small instances; and TLAPS
proofs of results that hold for every instance. Source paths are relative to
`src/imbi_api/`.

Contents: [the system](#1-the-system) ·
[modules](#2-modules) · [runs](#3-what-the-runs-check) ·
[bounds](#4-bounds) · [fairness](#5-fairness) · [proofs](#6-proofs) ·
[divergences](#7-where-code-and-comments-disagree) ·
[plan](#8-plan) · [how to run](#9-how-to-run)

## 1. The system

imbi-api is a FastAPI service that is run as several identical instances. They
share three stores: a property graph (Apache AGE on PostgreSQL) with users,
projects, connections and releases; Valkey with queues, locks, debounce keys
and one-time values; ClickHouse with append-only logs. Every instance runs the
HTTP handlers and, started by `lifespans.py`, the same background tasks: a
score-recompute consumer and a daily rescore tick, a consumer for each of
commit_sync, pr_sync and deployment_sync, a worker for each maintenance
operation, and the identity refresh sweeper. Inside an instance everything is
asyncio: a step is what happens between two awaits. Between instances nothing
is shared but the stores, so every command to a store is a point at which the
others move. There are no transactions across Valkey, the graph and the
providers.

### Components

"Not modelled" and "partly" are explained in `PROJECT.json`, component by
component.

| Component | State | Operations | Hard behaviour | What makes it correct | Status |
|---|---|---|---|---|---|
| **Maintenance runs** `maintenance/`, `endpoints/maintenance.py` | Valkey per operation: lock (run id, TTL), pending set, run hash with counters, failure detail | start, cancel, worker tick (checkout, execute, record, requeue), finalize | several instances popping one set; non-atomic pipelines; crash or shutdown with a project in hand; rate-limit requeue; check and finish in two round trips | no project in two hands or lost; failure detail bounded; the lock is held exactly while a run can end; every run ends | modelled |
| **Sync queues** `commit_sync/`, `pr_sync/`, `deployment_sync/` | Valkey stream, consumer group, dead-letter stream, debounce and pause keys; status on the Project node | enqueue, consume, reclaim, dead-letter, pause, status writes | at-least-once delivery, reclaim racing a slow worker, optimistic status write racing the worker, XACK that fails, group created late | every accepted job is settled; settled for the right reason; the status says how the last job ended | modelled |
| **Score queue** `scoring/` | stream, dead-letter stream, debounce keys, key of the day; score in graph and ClickHouse | enqueue of one, of several concurrently, in bulk; daily tick; consume | debounce against a consumer that has read already; two recomputes writing out of order; swallowed errors | a stale score always has somebody left to recompute it | modelled |
| **Identity connections** `identity/` | IdentityConnection node per (user, integration): status and encrypted tokens; sweeper lock and consumed nonces in Valkey; tokens at the provider | start/complete/poll flow, hydrate, refresh, retry after 401, revoke, forget, sweep | refresh from the sweeper and from requests at once; rotating refresh tokens; writes by node id or by MERGE after an await; callbacks delivered twice | one exchange per state; one sweeper at a time; an active connection holds a usable token; a revoked one stays revoked | modelled |
| **Identity attribution** `identity/attribution.py` | none | look up a user for an external subject | a read | none of its own | not modelled |
| **Authentication** `endpoints/auth.py`, `mfa.py`, `auth/` | User node, TokenMetadata nodes in chains, TOTP secrets and backup codes, authorization codes in Valkey | login by password and by provider, code exchange, refresh with rotation and reuse cascade, logout, second factor, client-credential grant | two requests spending one token, a cascade overtaking a rotation, whole-node writes of a user read earlier | what is single-use is used once; a revoked chain gets no new token; an enabled factor was verified | partly |
| **Authorisation** `auth/permissions.py`, `membership.py`, `seed.py`, `endpoints/roles.py`, `organizations.py` | roles with grants, memberships, organisations | create, patch, delete, grant, seed | membership looked for in one statement and made in another; seeding beside operators | one membership per organisation; the system role keeps its grants; nodes are as asked | partly |
| **Machine credentials** `api_keys.py`, `sa_api_keys.py`, `client_credentials.py` | APIKey and ClientCredential nodes, cache of verified keys in each process | create, rotate, revoke, use | the cache outlives a revocation; the node and its owner in two statements | a key is served no longer than the cache's time after it was good | modelled |
| **Releases and deployments** `releases.py`, `project_deployments.py` | Release nodes; DEPLOYED_TO edges, each with a list of events; a pointer to the current release on every DEPLOYED_IN edge | create, retag, cut, deploy, promote, post an event, resync, release train | a list is read in one query and replaced in another, the pointer moves in a third; identities are checked before an await and written after; a promote is several remote calls | one row per run; an end recorded is the end of the run; the pointer names a stored success and lags behind none; a resync repairs | partly |
| **Projects** `projects.py`, `project_lifecycle.py`, `plugins/lifecycle_dispatch.py`, `_helpers.py` | Project node, links, relations, environments, services; repositories at the remote | create, patch, archive, synchronise, delete; fan-out to lifecycle plugins with write-back | plugins called after the write, outside it and in any order; write-back over a concurrent patch; references vanish between check and write | fields are as last asked; repositories follow the projects; dependents are rescored | partly |
| **Plugins and integrations** `integrations.py`, `project_integrations.py`, `plugins/`, `auth/login_providers.py` | Integration nodes, assignment edges to types and projects, encrypted credentials, login flag and its cache | create, patch, delete, assign, set credentials, choose the login provider, resolve | bindings put together from three reads; compare-and-set with bounded retries; a cache refilled after its invalidation | credentials are what was put; one login provider; bound at both ends is resolved | partly |
| **Webhooks and events** `webhooks.py`, `events.py`, `operations_log.py`, `pull_requests.py`, `user_activity.py` | Webhook nodes; ReplacingMergeTree rows | define, record, change, page | versions from wall clocks; lists that change under a cursor | the table settles on the last row written; a walk misses nothing that stayed | partly |
| **Documents and comments** `documents.py`, `tags.py`, `comments.py` | Document, Tag, thread and comment nodes | create, patch, retag, delete; open, reply, edit, acknowledge, resolve, delete | whole-node writes; tags in three statements; "is it the only one" read before a deletion | fields and tags are as asked; a thread has comments | modelled |
| **Catalogue CRUD** `teams.py`, `environments.py`, `project_types.py`, `link_definitions.py`, `mcp_servers.py`, `document_templates.py`, `scoring_policies.py`, `blueprints.py` | one node per entry, targets of policies | create, patch, delete, test a server | writes matched by an old slug; slugs guarded by an index, by a query or by nothing; rescoring after the write | entries are as asked and named apart; what a policy covers is requeued | partly |
| **Analysis and plugin pass-through** | none | reports and reads through plugins | shares the identity retry | none of its own | not modelled |
| **Uploads and storage** `uploads.py`, `storage/` | objects in the store, Upload nodes | upload with thumbnail, delete | object written, node not; clean-up that fails | no record without its object; no object without a record | modelled |
| **Email** `email/` | ClickHouse audit | send with retries | retry of what was sent | an audit entry per message | not modelled |
| **SBOM ingestion** `sbom.py` | component nodes and edges | ingest | difference against the previous one | edges equal the last SBOM | not modelled |
| **Search and language model** | embeddings | query, backfill | calls to a model | none of its own | not modelled |
| **Application shell** | configuration | wiring, paging helpers | cursors and links | see the walks of `Pages` | partly |

### How the components interact

* Handlers enqueue: commits to the graph come first, then debounce key, XADD
  and, for the sync queues, an optimistic status write. Consumers write the
  status node the handlers read. No call waits for a consumer.
* Maintenance operations enqueue score recomputes and run syncs themselves,
  sharing the pause keys of the sync queues: a rate limit met by either stops
  both.
* Plugin calls of every component go through `call_with_identity_retry`, which
  reads, refreshes and rewrites identity connections.
* Login through a provider shares the consumed-nonce store with identity
  flows.
* A principal's node is where accounts, sessions and credentials meet: a login
  rewrites it whole (password rehash, last login), a deletion takes its tokens'
  and keys' edges along, and every token or key is only as good as its owner.
* A write of a project resolves the bindings its team's organisation, its types
  and its own assignments give it, calls every bound plugin, and writes back
  what they return; types, teams, environments and integrations may be deleted
  meanwhile. The dependents of the project are enqueued for rescoring.
* A deleted tag takes the edges of documents and templates with it; changed
  policies and blueprints enqueue projects.
* No handler holds a transaction over two statements. The graph's own
  guarantees are those of one statement, and unique indexes on some slugs.

What can go wrong at which line, and which property would show it, is the
`hazards` list of `PROJECT.json`.

## 2. Modules

| Module | Models | Builds on |
|---|---|---|
| `MaintenanceRun` | maintenance runs: Valkey state, worker loop, start and cancel | — |
| `MaintenanceRunProofs` | theorems about it | `MaintenanceRun` |
| `ValkeyStream` | a stream with one consumer group and a dead-letter stream, as the queues use it | — |
| `SyncQueue` | commit_sync, pr_sync and deployment_sync | `ValkeyStream`, `AtLeastOnce` |
| `SyncQueueProofs` | theorems about it and its refinement of `AtLeastOnce` | `SyncQueue` |
| `AtLeastOnce` | what a job queue promises: accepted, open, settled | — |
| `ScoreQueue` | score-recompute queue and daily tick | `ValkeyStream` |
| `ScoreQueueProofs` | theorems about it | `ScoreQueue` |
| `IdentityConnection` | one identity connection with its sweepers, requests and provider | — |
| `Deployments` | releases, deployment events and current-release pointers of a project, with the remote | — |
| `DeploymentsProofs` | theorems about it | `Deployments` |
| `Requests` | the request handlers of a process as a pool: positions, locals, death | — |
| `Accounts` | users, service accounts, organisations, memberships, roles, seed | `Requests` |
| `Sessions` | logins, token pairs, codes, second factors | `Accounts` |
| `Credentials` | API keys with their cache, client credentials | `Sessions` |
| `Access` | accounts, sessions and credentials composed | `Credentials` |
| `AccessProofs` | theorems about it, and about identity connections | `Access`, `IdentityConnection` |
| `Integrations` | integrations, assignments, credentials, login provider and its cache | `Requests` |
| `Lifecycle` | resolution of bindings, fan-out to plugins, write-back | `Integrations` |
| `Projects` | projects, services, relations, and the deletion of what they refer to | `Lifecycle` |
| `ProjectsProofs` | theorems about it: types, what is kept, where a handler goes | `Projects` |
| `ProjectsSafetyProofs` | who is bound and rescored, the login provider, the repositories | `ProjectsProofs` |
| `Documents` | documents, tags, threads and comments | `Requests` |
| `Catalogue` | the entries operators keep, policies and blueprints | `Documents` |
| `Uploads` | objects in the store and their records | `Requests` |
| `Journal` | the operations log and its versions | — |
| `Pages` | walks through lists that change | — |
| `Workspace` | documents, catalogue, uploads, journal and pages composed | the five before it |
| `WorkspaceProofs` | theorems about it | `Workspace` |
| `MC*` | symmetry sets, the groups of handlers explored side by side | the module named |

Conventions shared by all of them. `pc[p]` names the await a process is
suspended at, by the command it is about to issue; an action is that command
together with the code up to the next await. A process's Python locals that
survive an await are variables (`item`, `outcome`, `batch`, `loc`, `req`).
History variables, marked *history*, are read by properties only, never by a
guard, except that `faults` counts against its bound. A fault is an action of
its own, enabled by `Env` and limited by `MaxFaults` (`mishaps` and `MaxMishaps` in
`IdentityConnection`, whose names stay apart from those of `Access`).

### MaintenanceRun

`lock`, `pending`, `run`, `failures` and `paused` are the Valkey keys of
`state.py`. `start_run` is `StartLock` (SET NX), `StartDelete`, `StartSeed`
(one SADD chunk of the seeding pipeline, which is not a transaction) and
`StartHset`. A tick of `worker.py` is `HasActiveRun`, `CheckPause`,
`CheckoutPop` (SPOP), `CheckoutCount` (HINCRBY in_flight), an execution with its
outcome, `CountFailures` (HLEN), `RecordOutcome` (the pipeline, of which
`RecordFails` can do any prefix), then `FinalizeCheck` and `Finish`. `Stop` is
the cancellation of a task by shutdown, which only the await in `_execute`
answers by handing its project back; `Crash` is the end of the process. A
cancel is `CancelExists`, `CancelReadState`, `CancelDelete`, `CancelFinish`. The
per-project operation is its outcome.

### ValkeyStream, SyncQueue, AtLeastOnce

Entries are numbered by position. `pel`, `deliveries` and `stale` are the
pending entries list, its counter and "idle for CLAIM_IDLE_MS"; `base` is the
number of entries added before the group existed, which XGROUP CREATE `$` never
delivers. Who owns a pending entry is left out since no code looks at it.

`SyncQueue` is one module for three files that are one algorithm. They
differ in two points, which are the constants `Renews` (`_renew_claim`, only
deployment_sync) and `Guarded` (`only_if_before`, only deployment_sync). The
request is `Debounce`, `EnqueueXadd`, `MarkQueued`; the consumer `EnsureGroup`,
`Poll`, `ClaimStale`, `PollAgain`, `ReadNew`, and for an entry `CheckDeliveries`,
`DeadLetterAdd`, `DeadLetterAck`, `Begin`, `Sync`, `Conclude`, `Ack`, `Fail`,
`LeaveQueued`, `PauseUntil`. `ReadFails` and `WriteFails` are errors of Valkey, by
whether the code swallows them; a command that fails may have been applied.
The guard compares `deployment_sync_at`, the worker's clock, with `only_if_before`, the
clock of the request's host, each read a while before the statement it goes into. What
the model keeps of a timestamp is its lead: how far it still lies ahead of the slowest
clock, from 0 to `MaxSkew`, chosen anew each time one is taken and run down by `Tick`. So
`lead[p]` stands for the node's timestamp and `req[r].lead` for the request's, `passed`
is the comparison the guard will make, and time itself needs no bound. `MaxSkew` is an
assumption: that two timestamps taken at one moment differ by no more.

`AtLeastOnce` has three sets of jobs. Under the mapping waiting ↦ entries not
yet delivered, settled ↦ acknowledged after a run or dead-lettered, open ↦
pending and not settled, `SyncQueue` implements it.

### ScoreQueue

The data a score depends on is a version number per project; a score is the
version it was computed from. `Commit` is a handler's commit with what it goes
on to enqueue, `EnqueueAll` a bulk rescore or the daily tick. `Acquire` (SET NX EX)
and `Add` (XADD) run per id, in two passes for the bulk form. `Compute` reads,
`Record` writes whatever was read. Unlike the sync queues, an error of XACK ends
the consumer task (`TaskDies`) and an error of `ensure_group` is swallowed.

### IdentityConnection

`conn` is the node; `live` is what the provider accepts. `rotates` is chosen
at the start: a provider replaces a token on each refresh, or never. A token
is an access token with its refresh token, or one that came without (`bare`): from a
grant, or from a refresh that does not repeat it, which stores none. A bare token
lapses (`Lapse`); `Load` leaves its connection as it is and fails, `Scan` and
`Hydrate` pass over it.
`refresh_connection` is `Load`, `Refresh`, then `Upsert` or `MarkExpired`; the sweeper
adds `Scan`, `TryLock`, `Reload`, `Remark`; a capability call is `Hydrate`,
`Rehydrate`, `Api` with one retry; revoke is `ReadStatus`, then
`DeleteConnection` or `LoadOld`, `RevokeAtProvider`, `RevokeLocally`. A callback
has its state token's age checked (`BeginCallback`), consumes the nonce (`ConsumeNonce`)
and exchanges the code. `age` and `nonce` are the age of a state and what is left of
its nonce's key, in ticks of `TimePasses`; a host may be off by `MaxSkew` when it
takes an age, clocks and cut seconds together. Both limits are the one number
`StateTtl`, as in the code. `Menus` says which operations a process does, so that an
instance can look at callbacks, or at refreshes, by themselves.
A write addresses the node by id or by MERGE on (user, integration), as in
the repository's queries, whatever it has become since it was read.

### Deployments

`releases` are the Release nodes of a project with the two properties that
identify them, `edges` the DEPLOYED_TO edges with the event list that the code
stores as JSON, `current` the two properties of DEPLOYED_IN. `tagAt` and `runs`
are the remote: git tags, and workflow runs with the commit they deploy and how
they fare; both are external and move by what the code asks of them and by
`RunFinishes` and `RemoteDeploys`. `clock` is read, and advanced, where the code
calls `datetime.now`.

`create_release` and `patch_release` are a pre-check (`CheckNew`, `CheckClash`) and a
write (`Create`, `Retag`). `_upsert_release_node` is `Upsert`, `Insert` (its first query:
a snapshot, then a write that no constraint makes conflict) and `Resolve`.
Every event, posted, of a deployment, of a resync or of the train, takes `Fetch`,
`Store` and, a success, `Point` (`_set_current_release`). A deployment is
`TriggerDeploy` and `Lookup`; a promote `CutTag`, `TriggerPromote` or `TriggerFails`, and the
upsert; a cut `CutTag` and the upsert. A resync is `Observe` and a `ResyncItem` for each
observation, the release train `Scan`, `Ask` and a `TrainItem` for each run under way.
`Crash` ends a task, `QueryFails` ends a request and, as the code's `except` does,
one observation of a job.

Statuses are reduced to what the code branches on: `pending` counts with
`in_progress`, `rolled_back` with `failed`. `note` stands for the fields of an event
beside its status that the "identical row" comparison reads. The id of a run
may be missing from the remote's answer (`HandedBack`): the deployment is then recorded
as a row without a run, and a resync adds a row of its own. Two simplifications narrow
the behaviours: an id that is handed back is the one a resync sees, and nodes
and environments are not deleted meanwhile. Titles, links, notes, the operations log, the audit row and
SBOMs are left out.

### Requests

Every handler of the API is a coroutine that reads and writes the graph by
single statements. `Requests` is the pool they run in: a slot of `req` holds the
await a handler is suspended at (`at`) with the locals it will still read. `Begin`
starts a handler, `Step` takes it on, `Die` drops one (the client gone, a
statement refused, the process stopped): what it wrote stays, and each composing
module says in its own `Die` step what that leaves half done.

Handlers come in groups named for their router ("users", "codes", "named"...), and a
behaviour explores the groups of one `mix` side by side. Two handlers matter to
each other when they touch the same nodes; `Mixes` lists the groups that do, so
that a mix with three requests is exhausted where all groups at once could not
be. Actions not in the mix are not taken, and a property must hold in every mix.

A write that carries every property of a node as it was read earlier is
modelled as such. To say what *should* be there, history variables (`accLog`, `sesLog`,
`prjLog`, `docLog`, `catLog`...) record what operators asked for, and name the
cases in which a handler is known to write over a change it has not read
(`stale`); a property states that there is no other way to lose one.

Refused requests that change nothing (404, 409, 422 before the first write) are
left out, as are permission checks, formatting and validation that read only
the request.

### Accounts, Sessions, Credentials, Access

`acc` holds the nodes of principals (there, active, password), memberships as a
bag of roles per (principal, organisation), and roles with their grants. A
membership is looked for and created in two statements; `seed` runs statement by
statement beside everything else; a principal's node is merged back whole by
logins, patches and password changes.

`ses` holds token pairs in the order they were issued. `auth.py`'s refresh is a
read of the metadata, the conditional revocation, the read of the principal, and
the issue; a token that comes back revoked sets off the cascade over its family.
Logout, authorisation codes (SET and GETDEL in Valkey) and the second factor
(setup, verify, disable, backup codes) are their statements. A chain is
found by following which pair a pair was rotated from; `family_id` is its root.

`keys` holds secrets of API keys with their owner edge and client credentials,
`cache` each process's verified keys. Time passes for that cache only.

Left out: `is_admin` and `is_service_account`, scopes, the expiry of tokens, TTLs
of Valkey values (an expired code is one that was never used), Session nodes,
metadata written before `family_id` existed. One backup code stands for ten; the
seed's catalogue is one permission, one retired permission and one role.

### Integrations, Lifecycle, Projects

`igr` holds integration nodes (capabilities, credential fields, login flag),
assignments to types and projects, and the login cache. The credentials are a read
and a compare-and-set with `MaxPatchRetries`; a patch of capabilities merges what it
read. The cache is filled after an await and cleared by the writes that know of
it.

`Lifecycle` is `dispatch_lifecycle`: the bindings in three reads (`ResolveEdges`,
`ResolveIntegrations`, `ResolveAssigned`) and one per plugin (`ResolveEnabled`), the
context (`ReadBundle`), `CallPlugin` with success or failure, and the write-back of
identifiers and links (`WriteService`, `ReadLinks`, `WriteLinks`). `repo` is the remote: what a plugin was last told is what is there.

`prj` holds projects with team, types, slug, archive flag, links, environments,
relations and services. `Projects` has a handler per endpoint that writes, and the
deletions of teams, types, environments and integrations. One plugin backs every
integration; the three validation reads of a patch are one; the preview, event
rows and the retry of a failed graph statement are left out.

### Documents, Catalogue, Uploads, Journal, Pages, Workspace

`doc` holds documents with title, pin and a bag of tag edges, tags with slugs, and
threads and comments. Retagging is three statements; a comment's deletion reads
whether it is the only one of its thread and decides on that.

`cat` holds entries, which differ by kind in three ways: what the write is matched
by (slug of the URL, or id), what guards the slug (an index, a query, nothing), and
what is written after them (targets, tag edges, rescoring). A policy's write is
followed by the clearing and linking of targets and the enqueueing of what it
covers and covered before.

`up` is one object store and one record; every call to either may fail, and the
clean-up too. `Journal` is the ReplacingMergeTree: rows are only added, `Final` is
what a reader is given, versions come from `_next_row_version`, clocks are any
reading of `Clock`, and a restart forgets the guard. `Pages` is a client that walks by
keyset, by offset, or through the merged activity of a user, while the list
changes.

`Workspace` composes them. The permissions of comment authors, members of teams,
edges of plugins on environments, and what a log row says beside who stamped it
are left out; `row_version` starts at 1, the default of imbi_common (external).

## 3. What the runs check

Passing runs:

| Run | Question | Properties |
|---|---|---|
| `maint_safe` | Two instances, two admin requests, three runs over three projects, rate limits | `NoProjectLost`: each one is pending, in hand or recorded, unless two starts overlapped. `FailureDetailBound`: the cap is exceeded by less than one entry per instance. `LockMeansRunning`: a held lock belongs to a run that can end |
| `maint_live` | Does a run end? One run with every kind of fault | `RunEnds`: the lock is released through rate limits, pauses and cancels, unless a fault strikes. `ExclusiveCheckout`: a project is never pending and in hand, nor in two hands, under every fault |
| `sync_safe` | Two consumers and a project on the guarded, renewing queue, clocks that differ, one fault | `TypeOK`, `NoJobLost`, `SettledRightly` (acknowledged only after a run, dead-lettered only after MAX_DELIVERIES), `StatusSettles` (a project with nothing left to do is not left queued or running, without a fault or a hurried write), `QueuedNeverClobbers`: the queued write replaces the status of its job's run only if the job was begun while the captured time was still ahead (`hurried`) |
| `sync_live` | Is every accepted job settled? | `AtLeastOnceDelivery`: refinement of the abstract queue with its liveness, through crashes and rate limits |
| `score_safe` | Two consumers, single and bulk enqueues, one fault | `StaleIsCovered`: a stale score has an enqueue under way, an entry still to be read, or a consumer that will read; or one of the two losses the model names happened |
| `identity_safe` | Two sweepers and a request on one connection, or two callbacks of one state token, one fault | `StateUsedOnce`: a used state is used again only by a callback that waited between its two checks for the age of the state at its first use, less the skew. `SweepersTakeTurns`. `ActiveIsUsable`: an active connection holds a token the provider accepts, but for the losses named and a connection without a refresh token. `ReviveNeedsOldLoad` |
| `deploy_safe` | Two tasks of any kind on the releases of a project, one fault | `NothingDoubled`: no list has two rows of a run, whoever replaced the list of whom, and identities are unique unless taken between check and write. `EventsMatchRuns`: an event is on an edge of its run's environment and of the commit it deploys or was asked for, and a terminal status is the run's. `PointerKeepsUp`: the pointer names one stored success and is as new as every one, but for those cut off before it moved. `ResyncRepairs`: a resync that ran alone leaves the newest run recorded as the remote has it |
| `access_safe` | Two requests at a time, three in all, of every pair of groups around a principal, one of which may die | `AccountsAsWanted`: nodes, memberships and the system role are as operators asked. `UsedOnce`: a refresh token brings one pair, a backup code one login, a code one session. `RevokedStaysRevoked`: a cascade reaches the whole chain, a logout is not undone. `SecondFactorVerified`. `ServedWasGood`: a cached key is served no longer than its time. `TypeOK` |
| `projects_safe` | Two requests of every pair of groups around a project, one of which may fail or die | `KeptAsAsked`: projects, capabilities and credentials are as last asked. `RepositoriesFollow`: at rest a repository is as its project, and is removed only on request. `DependentsRescored`: at rest no project waits for a score, but those that lost a dependency by its deletion or whose request was cut short. `BoundAtBothEnds`: what is bound before and after is resolved. `LoginAsSet`: one login provider, and a dropped one served no longer than the cache keeps it. `TypeOK` |
| `workspace_safe` | Requests on documents, comments and catalogue entries (renames among them), an upload, two processes that stamp one log entry, and walks through changing lists | `DocumentsAsAsked`, `ThreadsHoldComments`, `EntriesKept`: an entry is as asked but for a stale write and for the renames the code takes and drops, `CoveredAreRequeued`, `UploadsStored`, `LogConverges`: FINAL keeps the last row written, `WalksComplete`: a walk shows what stayed, once. `TypeOK` |

Every property has a mutant in `PROJECT.json`: a plausible bug in one definition
under which TLC finds the property violated. A property that is a conjunction
names its parts, each with its own comment in the module.

The properties of the three composed models have exceptions, and the
exceptions are the point: with handlers that read, await and write a whole node back, lost
updates are possible by design. Each property says exactly which overlap loses
what (a write over a change not read, two replacements of one list crossing, a
death between two statements), at which lines, and that everything else holds.

`StaleIsCovered` names its exceptions as history variables. `missed` holds a
project whose last enqueue came to nothing: the request died, a command
failed, the job was dead-lettered, or the debounce key turned it away when no
entry under it was still to be read. `raced` holds one whose score was replaced
by an older read. The property says these are the only ways to be left stale;
each is a hazard line of its own.

Runs that show a disagreement between code and comment are in
[section 7](#7-where-code-and-comments-disagree).

## 4. Bounds

| Bound | Value | Why it is enough |
|---|---|---|
| instances | 2 | every race of this code is between two holders of the same thing; instances are symmetric |
| requests | 1; 2 admins in `maint_safe` | a request races consumers; two starts overlap once a late finalisation has freed the lock |
| projects (maintenance) | 3, 2 in the liveness run | one in each hand and one pending; `SaddChunk` 2 splits the seeding |
| runs | 3 in `maint_safe`, else 1 or 2 | a second run meets what the first one left behind; a third overlaps it |
| projects (queues) | 1 in the sync runs, 2 in `score_safe` | all writers of a status meet on one node, and the stream does not look at projects |
| `MaxSkew` | 1 in `sync_safe`, 0 in `sync_live` | a worker's timestamp before and at the captured time, with the job begun before and after it has passed; a liveness of jobs has no clock |
| jobs | 2 | a batch with a sibling; reclaim of one while the other runs |
| `MaxDeliveries` | 3 | the first delivery, a retry and the one that dead-letters (in the code 3, for scores 5); the other consumer can have the entry from the first one on |
| faults | 1 or 2 | one fault per behaviour everywhere, two for a redelivery that is struck again |
| tokens | 3 | the initial one, one for each of two racing refreshes |
| `StateTtl`, `MaxSkew` (identity) | 1, 1 | a state is used fresh, at its limit, and by a host that takes it for younger; its key expires before and after a second callback's check |
| `Menus` | sweepers with a request that does everything but callbacks; two requests with callbacks | a callback's nonce and the refreshes meet only in the upsert, which polling does as well |
| enqueues of scores | 2 | a change and one that is debounced by it |
| tasks (deployments) | 2, begun 4 times in all | two interleave; the four together can cut a tag, promote it, and have train and resync follow |
| `MaxReleases`, `MaxRuns`, `MaxTime` | 2, 1, 3 | two releases compete for one pointer; one run is recorded by several tasks; three times order two successes and a run |
| requests (composed models) | 2 at a time; 3 in all (`access_safe`, most of `workspace_safe`), 2 in `projects_safe`, policies and blueprints, 3 for logins | two interleave, a third comes after: rotation, reuse, rotation; a projects request is a dozen steps with its dispatch |
| mixes | 17, 16 and 12 sets of groups | every group beside those that touch its nodes, and beside itself |
| `Ttl`, `CacheSize`, `MaxTime` | 1, 1, 3 | an answer outlives its read by one tick; one entry is evicted by another |
| `LoginTtl`, `MaxClock` | 2, 3 | a refill in the middle of a life, and its end |
| `MaxPatchRetries` | 2 (3 in the code) | a retry, and giving up |
| `Clock`, `MaxStamps`, `MaxRestarts` | {2}, 3, 1 | a clock that stands still, three versions from two processes, a guard forgotten; row versions below, at and above the clock |
| `Items`, `Times`, `Sources`, `Limits`, `MaxChanges` | 4, 2, 2, {1, 2}, 1 | ties in time within and across pages; two sources; a removal under the cursor |

`deliveries` is counted up to `MaxDeliveries`: the code only compares. TTLs
are actions that may fire at any time: debounce and pause keys whenever set, an
entry's idle time whenever nobody renews it. The lock of a maintenance run lives
12 hours and is a fault; the sweeper's lives 60 seconds and outlasts a refresh
unless the provider is slow, which is a fault. `CHECK_DEADLOCK FALSE`: with the
bounds used up the models stop, as an idle service does.

`deploy_safe` is close to what TLC can exhaust. Beyond it the same properties
were simulated (`-simulate`, random behaviours and no proof) with three releases,
three runs, six times, six beginnings, two tags and two faults, without a
violation. So were `score_safe` with three consumers, two enqueues under way, four jobs and
three faults, `sync_safe` with three consumers, two requests, two projects, four jobs and clocks two ticks apart, and
the composed models with three requests at a time, six in all and two faults.

## 5. Fairness

* **A task that is up goes on** (`WF` of a worker's loop): asyncio resumes a
  task whose await has completed, and an await that fails raises, which the loops
  catch. A store that never answers is outside the models.
* **An instance that is down is restarted** (`WF` of `Restart`): the deployment
  restarts containers.
* **Keys with a TTL expire, an entry nobody renews grows stale** (`WF`).
* **A project is not rate-limited for ever** (`SF` of `ExecuteDone`): a limit has a
  reset time, which the pause key is set to. Only maintenance needs it: there is
  no delivery counter that would give up.
* Nothing obliges an admin to start or cancel, a user to request, a provider to
  answer well, or a fault to happen.

Without strong fairness `RunEnds` fails with a project that is rate-limited on
every attempt, which the code would retry for ever.

## 6. Proofs

`MaintenanceRunProofs` holds for any finite number of instances and projects, any
number of requests and runs, and every fault in `Env`, from `ConstantsAssumption` alone.

* `TypeCorrect`. The invariant is `TypeOK` with `PcInv`: a worker has a project in
  hand exactly at the control points between checkout and release, and a
  definite outcome when it records one. Without it `RecordOutcome` could add
  "no project" to the failure detail.
* `Exclusive`. `ExclusiveCheckout` is not inductive: a request that is still
  seeding could add an id that is pending or in hand. `SeedInv` says what a
  request has left to seed is nowhere else, that one request at most is seeding
  in the first run, and that nothing is in play before it.
* `DetailBound`. The check and the write of an entry are two steps; `DetailInv`
  counts the entries together with the workers about to add one.
* `LockHeld` (`LockMeansRunning`). `LockInv`: without a fault a held lock is the last
  start's, and somebody is starting that run or it runs. The proof does not go through
  with the run hash naming the run in the lock: a finalisation or a cancel that
  decided long ago frees the lock of a start, and a second start overlaps it. So
  `overlapped` records that, and the instance of `maint_safe` has the two requests and
  three runs that it takes.
* `NoneLost` (`NoProjectLost`). `KeptInv` says that what a start has seeded stays in play
  (pending, in hand or served) as long as its lock is held, and what is not seeded yet is
  still to be. `WorksKeepPlay` does all the steps of the workers at once.

`SyncQueueProofs` holds for any number of consumers, requests, projects and jobs, any
batch size, any `MaxSkew`, both values of `Renews` and `Guarded`, and every fault, from
`StreamAssumption` and `ConstantsAssumption`.

* `TypeCorrect`, `JobsKept` (`NoJobLost`) and `Rightly` (`SettledRightly`) follow from
  one inductive invariant `IInv`. `StreamInv` says that what has been delivered is
  exactly what is known: pending, acknowledged or dead-lettered. `WorkerInv` says
  what a consumer has in hand: its entries are known, an entry it acknowledges was
  begun, one it moves to the dead-letter stream has used up its deliveries, and
  one it acknowledges afterwards is there. Without the last two a
  consumer could settle an entry that another one is still due to run.
  Every action is split into what it does to the stream (the `...Progress` lemmas:
  known entries stay known) and to the consumer that moves (the `...Keeps`
  lemmas); `Frame` does the other consumers once and for all.
* `ImplementsAtLeastOnce`: `StreamStep` lists the eight things a step can do to the
  stream, and `StreamStepMaps` maps each to Accept, Deliver, Settle or a stutter. It is
  the safety half of what `sync_live` checks.
* `GuardHolds`: with `Guarded`, `QueuedNeverClobbers`. `GuardInv` says that a request about
  to write knows an entry of its own project, and that once a consumer has begun with it
  either the node's timestamp has reached the captured time or the request is `hurried`.
  It is inductive since every later timestamp is at least 0 ahead, as the captured one
  is by then.
* `Settles`: with `Guarded`, `StatusSettles`. Two invariants of the states without a fault
  carry it. `HandsInv`: whatever is delivered and not begun is in the hands of a consumer
  that has still to begin it, so nothing waits for a reclaim that nobody makes.
  `StatusInv`: a queued project has a job nobody has begun, a running one a consumer
  that will conclude. The second needs `GuardInv`: a late `queued` would be written over
  the end of the job it is about, as a hurried one is, whose project is in `slipped`
  until somebody else writes its status. An entry can be dead-lettered by one consumer while
  the first one is still due to run it, so the premise of `StatusSettles` asks
  (`HasToRun`) that no consumer has a job of the project left.

`Listing`, `LowestSome` and `LowestInterval` are the facts about the operators of
`ValkeyStream` that these rest on.

`DeploymentsProofs` holds for any number of tasks, environments, commits, tags, releases
and runs, and every fault, from `ConstantsAssumption` alone.

* `EventsMatch` (`EventsMatchRuns`). The invariant is `Matched`. `EdgesOk` says it of what is
  stored; `TaskOk` says it of what a task is about to store, from where it learns of
  a run on: by starting it, from the remote's answer, or from the list it was scanned
  from. Answers go stale while a task waits, so `Grow` is shown of every step: a run
  keeps its environment, its commit and its end, and a release its commit.
* `Undoubled` (`NothingDoubled`). `Listed` says of every list, stored or read and about
  to replace one, that it has one row for a run at most. `Distinct` needs `TaskOk` where
  a tag is edited: the node found then still has the commit that was checked.
* `KeepsUp` (`PointerKeepsUp`). `Pointed` names the whole success in a task's hands, the
  release with the time: without it a task could point at what nobody stored.
* `Repaired` (`ResyncRepairs`). `QuietInv` follows a resync that nobody disturbs:
  what it observed is still so (`Observes`), and every most recent run is still on its list
  or in its hands, is recorded, or has a commit of several tags (`Accounted`). A list that
  is about to be stored has every row it replaces, but for the run's own (`Replaces`), or a
  later item could undo an earlier one; that is where parallel edges are excluded.
* `WellTyped` (`Types`) goes before all of them; `Seats` says where a task knows its
  environment.

`ScoreQueueProofs` holds for any number of consumers, requests, projects and entries, any
batch size, and every fault, from `StreamAssumption` and `ConstantsAssumption`.

* `StaleScoresServed` (`StaleIsCovered`). The invariant is `IInv`. A consumer between
  reading and recording is what makes it hard: `WorkerInv` says that what it read is not
  ahead of the graph, and that what it recorded at the present version still
  stands when it acknowledges, unless an older read was written over it. `Covered`
  names what will still be read at the *present* version: a request with an older one
  is no cover, and an entry is none once somebody is past reading for it.
  `RequestCovers` and `EntryServes` say when cover outlives a step, `RemainInv` does all the
  ways in which a request drops a project at once.

`AccessProofs` holds for any finite set of users and services, any
roles, organisations and permissions, any number of requests, in every mix, from
`RequestAssumption`, `AccountsAssumption` and `CredentialsAssumption`.

* `AccessTyped` (`TypeOK`). The invariant is `TypeInv`. What a handler knows from an
  earlier await is in its record, and every label has its own fields: `LocalsOK` says
  which, `PairOK` that a pair in hand is one that was issued.
  The lemmas of one router say of its handlers what they leave alone; a step of one
  part of the state leaves the invariants of the others by `OthersStay` and frames.
* `KeysServedWereGood` (`ServedWasGood`). `ServeInv`: the last moment at which a secret
  was good is not after now; an answer in hand was good when it was asked for, and
  an entry of the cache lives the cache's time and the gap of its lookup past that.
* `RevocationHolds` (`RevokedStaysRevoked`). `ChainInv` says that a rotation in flight of a
  chain the cascade has been through was spared by it or continues one that was;
  `LogoutInv` that no rotation of a pair that was logged out is in flight. Both need
  `RotationInv`: one request at most rotates a pair, the one that revoked it.
* `SingleUse` (`UsedOnce`). `CodeInv`: every code has a number of its own, and
  one that is spent is neither on a secret nor in Valkey any more. That a refresh token
  brings one pair is `RotationInv`.
* `FactorsVerified` (`SecondFactorVerified`). `UserInv`: for a user without overlap, the secret a
  verification will enable is the one it read, and a setup that is about to save has
  left none. `FactorInv` says it of all of them.
* `AccountsHold` (`AccountsAsWanted`). `AccountInv` is inductive with `SeedInv`: the seeded
  role has its permission unless an operator reached it past the look that refuses
  system roles, and the permission is there before the bootstrap comes to its roles.

The last part of `AccessProofs` is about `IdentityConnection`. It holds for any number of
sweepers, requests, tokens, state tokens and faults, from `ConnectionAssumption` alone.

* `StatesUsedOnce` (`StateUsedOnce`). `Counted`: once a state was used, its age is what it
  was at first plus what its nonce's key has lived, and a callback at its nonce was let in at
  an age the limit allows, `waited` ticks ago. When the key is gone the state is
  older than the limit by its first age, so the callback has waited as long, less the
  skew.
* `SweepersTurn` (`SweepersTakeTurns`). `Turns`: while no fault has struck, a lock that is
  free has nobody past it, and one sweeper at most is past it.
* `ConnectionUsable` (`ActiveIsUsable`). That the stored token is accepted is not
  inductive: a refresh stores what it was given a while ago. `FreshTokens` says that a token
  about to be stored is good, and, with a provider that rotates, known to nobody
  else, so that nobody can have it replaced before; a bare token is shown to nobody
  but its API. `Known` bounds what anybody may
  know by what was issued, `Lasting` says that a provider that does not rotate accepts
  whatever it issued. Most actions neither ask the provider nor store a token:
  `Plain` is what they have in common, and `PlainKeeps` does them once.
* `Revived` (`ReviveNeedsOldLoad`): revoking clears the token in the query that sets the
  status, and a connection without a token is not loaded.
* `ConnectionTyped` comes from the same types.

`WorkspaceProofs` holds for any finite number of requests, any documents, tags, threads,
comments, entries, types, files, log entries, processes and clock readings, lists and
pages of any size, in every mix and under every fault, from `RequestAssumption`,
`DocumentsAssumption` (there is something to write about, and "none" names nothing),
`CatalogueAssumption`, `JournalAssumption` and `PagesAssumption` (a listed row has an
instant, and 0 is the cursor of a first page). The invariant is `WorkspaceInv`: `PoolInv`
says what a handler holds where it stands, the other parts what it will still do
about the state they are about.

* `WorkspaceTypes` (`TypeOK`). A document has no more edges to a tag than there are
  requests because an edge beyond those is owed: `FewEdges` adds to the edges the
  requests between their DELETE and their CREATE.
* `DocumentsKept` (`DocumentsAsAsked`). `TagKept`: while one request alone is at the tags, its
  are the ones last asked for, and between its two statements there are none; `Births`
  keeps two creations, and writes ahead of a creation, apart.
* `ThreadsHold` (`ThreadsHoldComments`) needs `Numbered`: what has not been written is not
  there, a comment is in its own thread or in none, and the thread a deletion read is
  the one the comment was written in.
* `CatalogueKept` (`EntriesKept`). The slug is what was last asked for, or one the entry bore
  when a rename was taken and dropped (`kept`, which only the writes by the old slug
  add to: `AskedWritten`). `Unique` says of a template about to be created that its
  slug is free, unless `doubled` says that two were about to be; the other kinds are kept
  apart by the index, or by the one request that writes by an id.
* `CoveredRequeued` (`CoveredAreRequeued`). `Owing`: what is owed is within what the requests
  under way `Will` queue by the statements they have left, whatever their order.
* `StoredAsRecorded` (`UploadsStored`). `Made1`: an upload being made belongs to one request and
  has no record; `KeptOf`: an object without a record is in the hands of a request that
  will record it or take it back (`Pending`), or `upLost` says so.
* `ListsComplete` (`WalksComplete`). `ToCome`: what stayed was shown or is past the cursor, by
  an offset at that place or later; `ShownOnce`: nothing that was shown is past it. What
  `First` and `Last` give, they give for any finite set in order (`LastIs`,
  `FirstAreBefore`, `PageCut`, `PageWhole`); these take the least of a family of sets
  (`WFMin`) where one would induct.
* `LogKept` (`LogConverges`). That FINAL keeps the last row written is not
  inductive: a row on its way must be known to be newer than the row it was made from
  (`Derived`), and the two only part when another row has landed in between, which `raced`
  records. That one life of a process never gives a version twice needs `Guarded`: a
  stamped row, sent or stored, is at or below the guard of the life that stamped
  it. `Converges` says the same of the log alone.

The groups do not disturb one another: `DocumentsRest`, `CatalogueRest` and `UploadsRest` do all
the steps of the others at once, but for the deletion of a tag, which takes the
edges of the templates with it (`TagsPruned`), and a death, which leaves each part half done
(`DocumentsDie`, `CatalogueDie`, `UploadsDie`).

`ProjectsProofs` and `ProjectsSafetyProofs` hold for any number of requests, projects,
integrations, types, teams, environments and faults, in every mix, from `RequestAssumption`, `IntegrationsAssumption`
and `ProjectsAssumption` (there is something to write about, and "no team" is no team).

* `ProjectsTyped` (`TypeOK`). The invariant is `TypeInv`: `PoolInv` says which locals a handler
  has where it stands (`LocalsOK`) and what a dispatch carries (`DispatchOK`), `IgrInv` and
  `PrjInv` that edges hang on nodes that are there.
* `ProjectsKept` (`KeptAsAsked`) is inductive given the types: an action that writes a node
  back either finds it as it was read or is noted as stale. The lemmas of the
  actions say what each does to the nodes and to the log at once.

The other four are in `ProjectsSafetyProofs`.

* `ProjectsBound` (`BoundAtBothEnds`). `BoundInv`: after each of the three reads, what was bound
  at the first and has not been torn since is among those found so far (`FoundSoFar`),
  or is still to be looked for.
* `ProjectsLogin` (`LoginAsSet`). `ProviderInv`: without a race, a request that has cleared the
  others and is about to set its own has left no other provider. `CacheInv`: an
  answer in hand, not only one that is cached, was read before its integration ceased
  to be a login provider; a login may store its answer after the invalidation.
* `ProjectsRescored` (`DependentsRescored`). `RescoreInv`: every score that is owed is owed by
  a request that is still to queue it (`Rescores`), or is left unscored. A dependency
  added beside the walk over the dependents is queued by the request that adds
  it. A deletion owes those that depended on the project a score, and queues none of
  them: they are unscored from then on, until a later change of theirs queues them.
* `ProjectsRepositories` (`RepositoriesFollow`). Nothing orders two dispatches for one
  project, so that a repository is right only once the last of them has called.
  `NumbersInv` numbers the writes of a project: what a dispatch brings was
  written, a creation by the first write, and no integration has heard of a write
  that was not made. `RepoInv` says of each attribute of a repository (`Follows`): from the
  write that touched it last on, every dispatch brings the right value; as long as the
  integration has not heard of that write, its call is still to be made (`Pending`); and a
  repository that is not right has such a call ahead, or one that comes after a newer
  one and will be noted as overtaken (`Doomed`). At rest nobody is left to call, so it is
  right. `apart` collects what is excepted: a call that failed, was overtaken or was never
  made, and a write that was cut short or made over a change it had not read.

The steps are sorted by what they touch before any invariant is looked at: `Steps` and
`IgrMoves` list who writes a project, who an integration, who only dispatches; a
handler that moves leaves the others where they are (`Alone`).

Only model-checked: liveness and the violations, since liveness is out of the prover's
reach. Every other property of the passing runs is a theorem. The types of
`MaintenanceRun`, `IdentityConnection`, `Deployments` and `ScoreQueue` are proved and not
run.

## 7. Where code and comments disagree

Each is a run that expects a violation, with the line it quotes in
`PROJECT.json`.

* `maint_finalize_race`. `maybe_finalize` decides in one round trip and finishes in
  another that names no run. The comment calls the race benign; an instance
  suspended in between completes the *next* run with its ids pending, and
  frees its lock.
* `activity_ends`. A user's activity feed is documented, and tested, to have no
  next page only "when fewer than limit+1 rows are available". Each source is
  asked for limit + 1 rows up to the cursor's instant, and the cursor's own row is
  among them; it uses up the row that would have said there is more, so
  with one source the feed ends after the second page.

Seen while modelling, without a run of their own.

Background work:

* The rate-limit pause is there "rather than burning MAX_DELIVERIES"
  (`commit_sync/queue.py:38-43`); each retry after a pause is a delivery (`:246`), so
  rate limits alone dead-letter a job. `SettledRightly` counts it.
* Without the timestamp guard the optimistic "queued" write replaces what the
  worker wrote (`endpoints/project_commit_sync.py:68`), which its comment says must win.
  deployment_sync was given the guard, the other two were not; `QueuedNeverClobbers` is
  about the guarded one.
* The guard is documented to keep the write "from clobbering a worker that already
  advanced (or even finished) the run" (`endpoints/project_deployments.py:1416-1419`). It
  compares the clocks of two hosts: a worker whose clock is behind the request's, and who
  begins within that difference, stamps a time the guard takes for older. The write goes
  through and a finished project stays queued, without any failure. Both properties
  name this (`hurried`, `slipped`); TLC reaches it.
* The score debounce "relies on workers reading post-commit state"
  (`scoring/queue.py:3-5`); a change committed after the read and within the key's
  five seconds enqueues nothing (`:81`). `StaleIsCovered` names it (`missed`).
* A request and the sweeper refresh at once; the loser's refusal by a rotating
  provider expires the connection the winner has just renewed
  (`identity/flows.py:364`). `ActiveIsUsable` allows an expired connection, never an
  active one without a usable token.
* Graceful shutdown between SPOP and HINCRBY (`maintenance/state.py:170-191`)
  drops the project: only the await in `_execute` hands it back. In the model
  it is a fault, like a crash.
* Only the entry being run is renewed (`deployment_sync/queue.py:235`); the other
  entries of its batch can be reclaimed and run by another consumer too.
* A DELETE is documented to revoke an active connection, at the provider too, and to
  drop an ended one (`identity/flows.py:397-400`). It decides on a status it read
  before (`:429`): a connection that the slower of two refreshes stores as active in
  between is dropped, its token alive at the provider. TLC finds this in eleven steps
  when asked for `pc[p] = "drop" => conn.status # "active"`.
* A refresh under way when a connection is revoked stores its tokens and makes it
  active again (`identity/flows.py:368`); `ReviveNeedsOldLoad` says there is no
  other way.
* A state token "cannot be replayed within its 10-minute TTL" (`identity/flows.py:216`).
  Its nonce is kept for just as long (`identity/state.py:124`, `:140`) from the first use
  on, so a state used within the error of an age (`:92`: cut to seconds, two hosts'
  clocks) of its signing is accepted again when the key has expired; so is one whose
  callback takes long between the two checks. `StateUsedOnce` states how long.
* A connection without a refresh token is not marked by a failed refresh
  (`identity/flows.py:354-357`). `_should_refresh` relies on the sweeper to have expired
  it (`identity/resolution.py:187`), and the sweeper says it marks it
  (`identity/sweeper.py:66`); but its query passes over connections without a refresh
  token (`identity/repository.py:518`), so it stays active with an access token
  that has run out. Only one that was swept just before it was reconnected without
  a refresh token is marked, though its token is good. `ActiveIsUsable` names bare tokens.
* `_try_lock` is documented as `SET NX EX 10`; `LOCK_TTL_SECONDS` is 60.
* A refresh upserts with an empty profile and so clears the login metadata stored
  by the exchange (`identity/repository.py:111-133`, `identity/flows.py:367`).
* The delivery that reaches MAX_DELIVERIES is dead-lettered without being run, and an
  entry that was dead-lettered while it waited behind its batch's first is run
  all the same once its first consumer comes to it: until then its project is left
  queued with no job pending. `StatusSettles` counts such an entry as left to do.

Releases and deployments:

* `_set_current_release` is "called on every success deployment event", but a
  replay that finds its row identical returns before it (`releases.py:1114`): if
  the first attempt died in between, the pointer stays behind until the next
  success. `PointerKeepsUp` names this as its exception (`cut`).
* A promote whose tag exists at another commit goes on
  (`project_deployments.py:1704`), deploys what the tag points at and records it
  under the commit it was asked for; so does a deploy that names a commit beside
  a tag (`:1554`). `EventsMatchRuns` allows either.
* Two first events for one release and environment create parallel DEPLOYED_TO
  edges. A later write reads one and replaces both, which loses rows;
  `ResyncRepairs` excludes this.
* The row of a run is looked for in the whole list, where the docstring says the
  most recent event.
* A deployment, resync or train that is slow can put a run that has ended back
  to in progress, until the next resync.
* The train stamps a success with the time it learned of it, a resync with the
  time the run was created: the later stamp wins, which need not be the
  later deployment.
* A deployment of a plain commit is recorded on the untagged release; the resync
  of its run goes to the tagged one if there is one. The run is then on two
  edges. `NothingDoubled` is about one list for that reason.

Access:

* A patch of a role that changes its slug merges onto the role that bears the
  new one, a system role included, and leaves the old role there.
* Rotating a user's key has no guard against a revoked one, and neither rotation nor
  revocation clears the cache of verified keys, where the docstrings say
  "immediately"; `ServedWasGood` is the bound that does hold.
* `patch_user` checks organisations and roles after it has saved the node. A
  doubled membership makes a user unpatchable.
* Two second-factor setups at once leave two secrets.
* `create_api_key` makes the node and its owner in two statements.

Projects:

* A patch writes back what it read: an archive, link, team or environment
  changed meanwhile is reverted, and no plugin hears of it.
* Create and patch answer 404 after having written half when what they refer
  to vanishes in between; a project without types cannot be patched without
  giving some; deleting a team orphans its projects.
* A failed lookup of links is taken for "no links", and the merge wipes them.
* A project that lost a dependency is to be scored anew (`projects.py:2384-2386`), and a
  dependency removed as such sees to it. `delete_project` removes the edges of all
  dependents with the node (`projects.py:3258`) and enqueues none: their scores stay
  until something else touches them. `DependentsRescored` names them (`unscored`), with
  those whose request died and those of a patch answered 404 for what it had
  written; TLC reaches each.
* Deleting the last type an integration is assigned to makes it a default for all
  projects; a torn read of bindings can resolve one that was never bound.
* Relocation reads the types after its own write. A login lookup that began
  before an invalidation is stored after it.

Documents, catalogue, logs:

* Deleting a document orphans its threads; a reply beside a deletion orphans a
  comment, two deletions leave an empty thread; acknowledging loses updates.
* Five renames do nothing: `params = {**props, 'slug': original_slug}` lets the old
  slug win in the SET (`teams.py:305`, `environments.py:310`, `project_types.py:322`,
  `link_definitions.py:336`, `document_templates.py:447`), against the docstring of
  `_persist_team` and `tests/endpoints/test_environments.py:417`. The requests of the
  model ask for slugs too; `EntriesKept` holds only because it names these renames
  (`catLog.kept`), and would fail without that clause.
* Template slugs are guarded by a query, no index. A tag's patch by its old slug
  can hit another tag. A blueprint's create overwrites one of that name, and
  its patch requeues the new filter's types only.
* Testing an MCP server writes its whole node back, where the docstring says it
  "leaves configuration untouched".
* Deleting the only type a policy targets makes it cover every project, as does the
  moment between clearing and linking targets; nothing is requeued for either.
* A failed thumbnail leaves its key on the record with `has_thumbnail` false, which
  no reader asks for.
* A patch of a log entry after its deletion resurrects it. Versions increase
  strictly only within one life of one process.
* Paging pull requests by offset repeats or skips rows when the list moves.

## 8. Plan

Done: the background workers, the queues with their abstract specification,
identity connections, releases and deployments; every writing handler of access,
projects, integrations, documents and catalogue; uploads, the log and the
lists; proofs of every property but liveness.

Next, in this order:

1. `Algorithms`: SBOM difference, capability resolution and the retries of email as
   operators against reference definitions.
2. A weaker `RepositoriesFollow` for the calls it excepts: a later write of the same
   attribute repairs what an earlier call left undone.

Not modelled: imbi_common, the databases and the plugins' own code (external,
modelled by how this repository uses them); read-only endpoints and reports;
search and the language model; configuration and wiring. They keep no state that two
steps could disagree about.

## 9. How to run

    tlc -workers 2 -config SyncSafe.cfg MCSyncQueue
    tlapm MaintenanceRunProofs.tla

`PROJECT.json` lists every run with its module and configuration, the mutants, the
source lines behind every definition, hazards and theorems. The longest run
takes about three minutes.
