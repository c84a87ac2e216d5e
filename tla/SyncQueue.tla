----------------------------- MODULE SyncQueue -----------------------------
(***************************************************************************)
(* The background synchronisation queues of imbi_api: commit_sync,         *)
(* pr_sync and deployment_sync.  A request debounces and XADDs a job and   *)
(* then writes an optimistic "queued" status; one consumer per instance    *)
(* drains a Valkey stream through a consumer group, with stale-entry       *)
(* reclaim, a dead-letter queue and a rate-limit pause.                    *)
(*                                                                         *)
(* The three queues are one algorithm.  They differ in two points, which   *)
(* are constants: deployment_sync renews the claim on the entry it is      *)
(* working on, and guards the optimistic write with a timestamp.           *)
(*                                                                         *)
(* A timestamp is what the clock of its host reads, and is read a while    *)
(* before the write that carries it: two timestamps taken at one moment    *)
(* can be MaxSkew apart.  The model keeps how far each one still lies      *)
(* ahead of the moment it is by the slowest clock: time has no bound.      *)
(*                                                                         *)
(* Every command to Valkey, every status write and every run of the plugin *)
(* is a step.  Jobs are numbered by their position in the stream.          *)
(***************************************************************************)
EXTENDS ValkeyStream

CONSTANTS
    Workers,        \* consumer loops, one per API instance
    Requests,       \* in-progress enqueue requests
    BatchSize,      \* count of XREADGROUP and XAUTOCLAIM
    MaxFaults,      \* bound: faults and rate limits in a behaviour
    MaxSkew,        \* how far two timestamps of one moment can be apart
    Renews,         \* TRUE iff the queue has _renew_claim
    Guarded,        \* TRUE iff the queued write has only_if_before
    Env             \* which faults may happen

Events == {"rate_limit", "crash", "valkey_error", "db_error"}

ASSUME ConstantsAssumption ==
    /\ Workers \cap Requests = {}
    /\ BatchSize \in Nat \ {0} /\ MaxFaults \in Nat
    /\ MaxSkew \in Nat
    /\ Renews \in BOOLEAN /\ Guarded \in BOOLEAN /\ Env \subseteq Events

VARIABLES
    debounce,    \* projects whose debounce key exists
    paused,      \* the rate-limit pause key exists
    status,      \* last-sync state on the Project node
    lead,        \* how far ..._sync_at is ahead; -1: it is past, or NULL
    pc,          \* control point of every worker and request
    batch,       \* entries a worker is handling
    pos,         \* index of the entry it is at
    claimed,     \* TRUE iff the batch was reclaimed: check_dlq
    req,         \* locals of a request
    done,        \* history: entries acknowledged after a run
    started,     \* history: entries some worker has begun to run
    hurried,     \* history: requests whose job was begun within their lead
    slipped,     \* history: projects whose status a hurried request wrote
    faults       \* history: faults so far

local == <<batch, pos, claimed>>
history == <<done, started, hurried, slipped, faults>>
node == <<status, lead>>
vars == <<debounce, stream, paused, node, pc, local, req, history>>

States == {"idle", "queued", "running", "success", "failed"}
Terminal == {"success", "failed"}
Procs == Workers \cup Requests

\* Between these a worker is inside _process_message for its entry.
Processing == {"begin", "sync", "success", "unavailable", "error", "limited"}
WorkerPc == Processing \cup
            {"ensure", "poll", "claim", "check", "dlq_add", "dlq_ack",
             "ack", "pause", "poll2", "read", "down"}
RequestPc == {"idle", "xadd", "queued"}

\* lead: how far only_if_before is still ahead; passed: ..._sync_at has
\* reached it.
RequestLocals ==
    [project : Projects, id : 0..MaxJobs, lead : 0..MaxSkew, passed : BOOLEAN]
NoRequest(p) == [project |-> p, id |-> 0, lead |-> 0, passed |-> FALSE]

Entry(w) == batch[w][pos[w]]

Goto(p, label) == pc' = [pc EXCEPT ![p] = label]

Fault(kind) ==
    /\ kind \in Env
    /\ faults < MaxFaults
    /\ faults' = faults + 1

\* A worker forgets its batch and goes to label.
Drop(w, label) ==
    /\ Goto(w, label)
    /\ batch' = [batch EXCEPT ![w] = <<>>]
    /\ pos' = [pos EXCEPT ![w] = 1]
    /\ claimed' = [claimed EXCEPT ![w] = FALSE]

\* Where the loop of consume_* goes on after a batch: new work is only read
\* after a reclaimed one.
AfterBatch(w) == IF claimed[w] THEN "poll2" ELSE "poll"

\* The next entry of the batch, if any.
Advance(w) ==
    IF pos[w] < Len(batch[w])
      THEN /\ pos' = [pos EXCEPT ![w] = @ + 1]
           /\ Goto(w, IF claimed[w] THEN "check" ELSE "begin")
           /\ UNCHANGED <<batch, claimed>>
      ELSE Drop(w, AfterBatch(w))

\* A status write stamps the node with the time of its host, d ahead, which
\* the requests under way on it are compared with.
WriteNode(p, s, d) ==
    /\ status' = [status EXCEPT ![p] = s]
    /\ lead' = [lead EXCEPT ![p] = d]

Noticed(p, d) ==
    [r \in Requests |-> IF req[r].project = p /\ pc[r] # "idle"
                          THEN [req[r] EXCEPT !.passed = d >= req[r].lead]
                          ELSE req[r]]

WriteStatus(p, s) ==
    \E d \in 0..MaxSkew : WriteNode(p, s, d) /\ req' = Noticed(p, d)

\* A request that ends forgets its locals.
Leave(r) ==
    /\ Goto(r, "idle")
    /\ hurried' = hurried \ {r}

Forgotten(R, r) == [R EXCEPT ![r] = NoRequest(R[r].project)]

Init ==
    /\ debounce = {}
    /\ InitStream
    /\ paused = FALSE
    /\ status = [p \in Projects |-> "idle"]
    /\ lead = [p \in Projects |-> -1]
    /\ pc = [p \in Procs |-> IF p \in Workers THEN "ensure" ELSE "idle"]
    /\ batch = [w \in Workers |-> <<>>]
    /\ pos = [w \in Workers |-> 1]
    /\ claimed = [w \in Workers |-> FALSE]
    /\ \E p \in Projects : req = [r \in Requests |-> NoRequest(p)]
    /\ done = {} /\ started = {} /\ hurried = {} /\ slipped = {}
    /\ faults = 0

-----------------------------------------------------------------------------
(* The enqueue request.                                                    *)

\* only_if_before is captured, then SET debounce NX EX; a key that is held
\* answers enqueued=False.
Debounce(r) ==
    /\ pc[r] = "idle"
    /\ Last < MaxJobs
    /\ \E p \in Projects \ debounce, d \in 0..MaxSkew :
          /\ debounce' = debounce \cup {p}
          /\ req' = [req EXCEPT ![r] = [project |-> p, id |-> 0, lead |-> d,
                                       passed |-> lead[p] >= d]]
    /\ Goto(r, "xadd")
    /\ UNCHANGED <<stream, paused, node, local, history>>

EnqueueXadd(r) ==
    /\ pc[r] = "xadd"
    /\ AddEntry(req[r].project)
    /\ req' = [req EXCEPT ![r].id = Last + 1]
    /\ Goto(r, "queued")
    /\ UNCHANGED <<debounce, paused, node, local, history>>

\* The XADD raises, applied or not: the debounce key is released, unless
\* that fails as well.
EnqueueFails(r) ==
    /\ Fault("valkey_error")
    /\ pc[r] = "xadd"
    /\ AddEntry(req[r].project) \/ UNCHANGED stream
    /\ debounce' \in {debounce, debounce \ {req[r].project}}
    /\ Leave(r) /\ req' = Forgotten(req, r)
    /\ UNCHANGED <<paused, node, local, done, started, slipped>>

\* Mutant of MarkQueued: the write is not guarded.
MarkQueuedAlways(r) ==
    /\ pc[r] = "queued"
    /\ \E d \in 0..MaxSkew :
          /\ WriteNode(req[r].project, "queued", d)
          /\ req' = Forgotten(Noticed(req[r].project, d), r)
    /\ slipped' = slipped \ {req[r].project}
    /\ Leave(r)
    /\ UNCHANGED <<debounce, stream, paused, local, done, started, faults>>

\* The optimistic status write of the endpoint, after the enqueue: only if
\* the node has no timestamp, or one before only_if_before.
MarkQueued(r) ==
    /\ pc[r] = "queued"
    /\ \/ /\ Guarded /\ req[r].passed
          /\ req' = Forgotten(req, r)
          /\ UNCHANGED <<node, slipped>>
       \/ /\ ~(Guarded /\ req[r].passed)
          /\ \E d \in 0..MaxSkew :
                /\ WriteNode(req[r].project, "queued", d)
                /\ req' = Forgotten(Noticed(req[r].project, d), r)
          /\ slipped' = IF r \in hurried THEN slipped \cup {req[r].project}
                                        ELSE slipped \ {req[r].project}
    /\ Leave(r)
    /\ UNCHANGED <<debounce, stream, paused, local, done, started, faults>>

\* The write fails, or loses a conflict and is not retried; or the instance
\* goes away before it.
MarkQueuedFails(r) ==
    /\ Fault("db_error")
    /\ pc[r] = "queued"
    /\ Leave(r) /\ req' = Forgotten(req, r)
    /\ UNCHANGED <<debounce, stream, paused, node, local, done, started,
                   slipped>>

DebounceExpires(p) ==
    /\ p \in debounce
    /\ debounce' = debounce \ {p}
    /\ UNCHANGED <<stream, paused, node, pc, local, req, history>>

-----------------------------------------------------------------------------
(* The consumer loop.                                                      *)

\* xgroup_create at '$': entries added before it are never delivered.  A
\* failure other than BUSYGROUP ends the task until the instance restarts.
EnsureGroup(w) ==
    /\ pc[w] = "ensure"
    /\ CreateGroup
    /\ Goto(w, "poll")
    /\ UNCHANGED <<debounce, paused, node, local, req, history>>

EnsureGroupFails(w) ==
    /\ Fault("valkey_error")
    /\ pc[w] = "ensure"
    /\ Goto(w, "down")
    /\ UNCHANGED <<debounce, stream, paused, node, local, req, done, started,
                   hurried, slipped>>

\* The two looks at the pause key.
Poll(w) ==
    /\ pc[w] = "poll" /\ ~paused
    /\ Goto(w, "claim")
    /\ UNCHANGED <<debounce, stream, paused, node, local, req, history>>

PollAgain(w) ==
    /\ pc[w] = "poll2"
    /\ Goto(w, IF paused THEN "poll" ELSE "read")
    /\ UNCHANGED <<debounce, stream, paused, node, local, req, history>>

\* The entries of S are handed to w, in stream order.
Take(w, S, reclaim, label) ==
    /\ \E s \in InOrder(S) : batch' = [batch EXCEPT ![w] = s]
    /\ pos' = [pos EXCEPT ![w] = 1]
    /\ claimed' = [claimed EXCEPT ![w] = reclaim]
    /\ Goto(w, label)

\* Mutant of ClaimStale: what other consumers left behind is not reclaimed.
ClaimStaleNone(w) ==
    /\ pc[w] = "claim"
    /\ Goto(w, "poll2")
    /\ UNCHANGED <<debounce, stream, paused, node, local, req, history>>

\* _claim_stale: XAUTOCLAIM.
ClaimStale(w) ==
    /\ pc[w] = "claim"
    /\ IF stale = {}
         THEN Goto(w, "poll2") /\ UNCHANGED <<local, stream>>
         ELSE /\ Take(w, Lowest(stale, BatchSize), TRUE, "check")
              /\ AutoClaim(Lowest(stale, BatchSize))
    /\ UNCHANGED <<debounce, paused, node, req, history>>

\* XREADGROUP of new entries.
ReadNew(w) ==
    /\ pc[w] = "read"
    /\ LET S == Lowest((delivered + 1)..Last, BatchSize)
       IN  IF S = {}
             THEN Goto(w, "poll") /\ UNCHANGED <<local, stream>>
             ELSE Take(w, S, FALSE, "begin") /\ ReadGroup(S)
    /\ UNCHANGED <<debounce, paused, node, req, history>>

-----------------------------------------------------------------------------
(* _handle_entries and _process_message, one entry.                        *)

\* Mutant of CheckDeliveries: off by one.
CheckDeliveriesEarly(w) ==
    /\ pc[w] = "check"
    /\ Goto(w, IF Entry(w) \in pel /\ deliveries[Entry(w)] >= MaxDeliveries - 1
                 THEN "dlq_add" ELSE "begin")
    /\ UNCHANGED <<debounce, stream, paused, node, local, req, history>>

\* _maybe_dead_letter looks the entry up; one that is no longer pending is
\* run.
CheckDeliveries(w) ==
    /\ pc[w] = "check"
    /\ Goto(w, IF Exhausted(Entry(w)) THEN "dlq_add" ELSE "begin")
    /\ UNCHANGED <<debounce, stream, paused, node, local, req, history>>

DeadLetterAdd(w) ==
    /\ pc[w] = "dlq_add"
    /\ AddDeadLetter(Entry(w))
    /\ Goto(w, "dlq_ack")
    /\ UNCHANGED <<debounce, paused, node, local, req, history>>

DeadLetterAck(w) ==
    /\ pc[w] = "dlq_ack"
    /\ Xack(Entry(w))
    /\ Advance(w)
    /\ UNCHANGED <<debounce, paused, node, req, history>>

\* set_status is best-effort: it writes, or swallows its error.
SetStatus(w, s) ==
    \/ /\ WriteStatus(project[Entry(w)], s)
       /\ slipped' = slipped \ {project[Entry(w)]}
       /\ faults' = faults
    \/ /\ Fault("db_error")
       /\ UNCHANGED <<node, req, slipped>>

\* r is still to write "queued" for j.
Waits(r, j) == pc[r] = "queued" /\ req[r].id = j

Begin(w) ==
    /\ pc[w] = "begin"
    /\ SetStatus(w, "running")
    /\ started' = started \cup {Entry(w)}
    /\ hurried' = hurried \cup {r \in Requests : Waits(r, Entry(w))
                                                /\ req[r].lead > 0}
    /\ Goto(w, "sync")
    /\ UNCHANGED <<debounce, stream, paused, local, done>>

\* run_sync returns or raises.
Sync(w) ==
    /\ pc[w] = "sync"
    /\ \E result \in {"success", "unavailable", "error"} : Goto(w, result)
    /\ UNCHANGED <<debounce, stream, paused, node, local, req, history>>

SyncRateLimited(w) ==
    /\ Fault("rate_limit")
    /\ pc[w] = "sync"
    /\ Goto(w, "limited")
    /\ UNCHANGED <<debounce, stream, paused, node, local, req, done, started,
                   hurried, slipped>>

\* Mutant of Conclude: a sync that is unavailable returns without a status.
ConcludeSilently(w) ==
    /\ pc[w] \in {"success", "unavailable"}
    /\ IF pc[w] = "success"
         THEN SetStatus(w, "success")
         ELSE UNCHANGED <<node, req, slipped, faults>>
    /\ Goto(w, "ack")
    /\ UNCHANGED <<debounce, stream, paused, local, done, started, hurried>>

\* A run that succeeded, or can never succeed, is acknowledged.
Conclude(w) ==
    /\ pc[w] \in {"success", "unavailable"}
    /\ SetStatus(w, IF pc[w] = "success" THEN "success" ELSE "failed")
    /\ Goto(w, "ack")
    /\ UNCHANGED <<debounce, stream, paused, local, done, started, hurried>>

Ack(w) ==
    /\ pc[w] = "ack"
    /\ Xack(Entry(w))
    /\ done' = done \cup {Entry(w)}
    /\ Advance(w)
    /\ UNCHANGED <<debounce, paused, node, req, started, hurried, slipped,
                   faults>>

\* Mutant of Fail: a failed run is acknowledged like any other.
FailAcks(w) ==
    /\ pc[w] = "error"
    /\ SetStatus(w, "failed")
    /\ Xack(Entry(w))
    /\ Advance(w)
    /\ UNCHANGED <<debounce, paused, done, started, hurried>>

\* Any other exception: the entry stays pending and the batch goes on.
Fail(w) ==
    /\ pc[w] = "error"
    /\ SetStatus(w, "failed")
    /\ Advance(w)
    /\ UNCHANGED <<debounce, stream, paused, done, started, hurried>>

\* Mutant of LeaveQueued: a status the readers do not know.
LeaveQueuedUnknown(w) ==
    /\ pc[w] = "limited"
    /\ SetStatus(w, "rate_limited")
    /\ Goto(w, "pause")
    /\ UNCHANGED <<debounce, stream, paused, local, done, started, hurried>>

\* Rate limit: back to "queued", set the pause, drop the batch unacked.
LeaveQueued(w) ==
    /\ pc[w] = "limited"
    /\ SetStatus(w, "queued")
    /\ Goto(w, "pause")
    /\ UNCHANGED <<debounce, stream, paused, local, done, started, hurried>>

PauseUntil(w) ==
    /\ pc[w] = "pause"
    /\ paused' = TRUE
    /\ Drop(w, AfterBatch(w))
    /\ UNCHANGED <<debounce, stream, node, req, history>>

-----------------------------------------------------------------------------
(* Faults of a consumer.                                                   *)

\* Reads whose error counts as "nothing": the pause key, XAUTOCLAIM,
\* XPENDING, XREADGROUP; and a pause marker that could not be set.
ReadFails(w) ==
    /\ Fault("valkey_error")
    /\ \/ pc[w] = "poll" /\ Goto(w, "claim") /\ UNCHANGED local
       \/ pc[w] = "poll2" /\ Goto(w, "read") /\ UNCHANGED local
       \/ pc[w] = "claim" /\ Goto(w, "poll2") /\ UNCHANGED local
       \/ pc[w] = "check" /\ Goto(w, "begin") /\ UNCHANGED local
       \/ pc[w] = "read" /\ Goto(w, "poll") /\ UNCHANGED local
       \/ pc[w] = "pause" /\ Drop(w, AfterBatch(w))
    /\ UNCHANGED <<debounce, stream, paused, node, req, done, started,
                   hurried, slipped>>

\* An XACK, or the XADD to the dead-letter stream, raises, applied or not:
\* the rest of the batch is dropped.
WriteFails(w) ==
    /\ Fault("valkey_error")
    /\ \/ /\ pc[w] \in {"dlq_add", "dlq_ack", "ack"}
          /\ UNCHANGED <<stream, done>>
       \/ pc[w] = "dlq_add" /\ AddDeadLetter(Entry(w)) /\ done' = done
       \/ pc[w] = "dlq_ack" /\ Xack(Entry(w)) /\ done' = done
       \/ pc[w] = "ack" /\ Xack(Entry(w)) /\ done' = done \cup {Entry(w)}
    /\ Drop(w, "poll")
    /\ UNCHANGED <<debounce, paused, node, req, started, hurried, slipped>>

\* The process dies, or is shut down: its batch stays on the pending list.
Crash(w) ==
    /\ Fault("crash")
    /\ pc[w] # "down"
    /\ Drop(w, "down")
    /\ UNCHANGED <<debounce, stream, paused, node, req, done, started,
                   hurried, slipped>>

Restart(w) ==
    /\ pc[w] = "down"
    /\ Goto(w, "ensure")
    /\ UNCHANGED <<debounce, stream, paused, node, local, req, history>>

-----------------------------------------------------------------------------
(* Time.                                                                   *)

\* Renewal keeps an entry fresh from its delivery on only when the worker
\* begins with it: the later entries of a batch wait unrenewed.
KeptFresh(j) ==
    /\ Renews
    /\ \E w \in Workers : pc[w] \in Processing /\ pos[w] = 1 /\ Entry(w) = j

Age(j) ==
    /\ ~KeptFresh(j)
    /\ GrowStale(j)
    /\ UNCHANGED <<debounce, paused, node, pc, local, req, history>>

\* XCLAIM JUSTID of the entry being run, which does not count as a delivery.
RenewClaim(w) ==
    /\ Renews
    /\ pc[w] \in Processing
    /\ Renew(Entry(w))
    /\ UNCHANGED <<debounce, paused, node, pc, local, req, history>>

\* Time passes: what was ahead is less so.
Tick ==
    /\ lead' = [p \in Projects |-> IF lead[p] = -1 THEN -1 ELSE lead[p] - 1]
    /\ req' = [r \in Requests |->
                 IF req[r].lead = 0 THEN req[r]
                                    ELSE [req[r] EXCEPT !.lead = @ - 1]]
    /\ UNCHANGED <<debounce, stream, paused, status, pc, local, history>>

PauseExpires ==
    /\ paused
    /\ paused' = FALSE
    /\ UNCHANGED <<debounce, stream, node, pc, local, req, history>>

-----------------------------------------------------------------------------
RequestStep(r) ==
    Debounce(r) \/ EnqueueXadd(r) \/ EnqueueFails(r) \/ MarkQueued(r)
    \/ MarkQueuedFails(r)

ConsumerLoop(w) ==
    \/ EnsureGroup(w) \/ Poll(w) \/ PollAgain(w) \/ ClaimStale(w) \/ ReadNew(w)
    \/ CheckDeliveries(w) \/ DeadLetterAdd(w) \/ DeadLetterAck(w) \/ Begin(w)
    \/ Sync(w) \/ Conclude(w) \/ Ack(w) \/ Fail(w) \/ LeaveQueued(w)
    \/ PauseUntil(w)

ConsumerFault(w) ==
    EnsureGroupFails(w) \/ SyncRateLimited(w) \/ ReadFails(w) \/ WriteFails(w)
    \/ Crash(w) \/ Restart(w)

Next ==
    \/ \E r \in Requests : RequestStep(r)
    \/ \E w \in Workers : ConsumerLoop(w) \/ ConsumerFault(w) \/ RenewClaim(w)
    \/ \E p \in Projects : DebounceExpires(p)
    \/ \E j \in Jobs : Age(j)
    \/ PauseExpires \/ Tick

Spec == Init /\ [][Next]_vars

\* A consumer that is up goes on, a dead instance is restarted, an entry
\* nobody renews grows stale, and a pause runs out.
Fairness ==
    /\ \A w \in Workers : WF_vars(ConsumerLoop(w)) /\ WF_vars(Restart(w))
    /\ \A j \in Jobs : WF_vars(Age(j))
    /\ WF_vars(PauseExpires)

FairSpec == Spec /\ Fairness

-----------------------------------------------------------------------------
(* Properties.                                                             *)

TypeOK ==
    /\ debounce \subseteq Projects
    /\ StreamTypeOK
    /\ paused \in BOOLEAN
    /\ status \in [Projects -> States]
    /\ lead \in [Projects -> -1..MaxSkew]
    /\ pc \in [Procs -> WorkerPc \cup RequestPc]
    /\ batch \in [Workers -> Seq(1..Last)]
    /\ pos \in [Workers -> Nat \ {0}]
    /\ claimed \in [Workers -> BOOLEAN]
    /\ req \in [Requests -> RequestLocals]
    /\ done \subseteq 1..Last /\ started \subseteq 1..Last
    /\ hurried \subseteq Requests /\ slipped \subseteq Projects
    /\ faults \in 0..MaxFaults

\* A job on the stream since the group exists is still to be delivered,
\* pending, or settled: acknowledged after a run, or dead-lettered.
NoJobLost ==
    (base + 1)..Last \subseteq Waiting \cup pel \cup done \cup dlq

\* An entry is acknowledged only once it has been run or dead-lettered, and
\* dead-lettered only after MAX_DELIVERIES deliveries.
SettledRightly ==
    /\ done \subseteq started
    /\ \A j \in dlq : deliveries[j] >= MaxDeliveries

\* The optimistic write of a request replaces what the run of its own job has
\* written only if the job was begun while only_if_before was still ahead of the
\* time, within MaxSkew of its capture (deployment_sync/service.py: without the
\* guard a write that "executes after the worker finished would silently clobber
\* the newer terminal status").  The worker's own write may have been lost.
QueuedNeverClobbers ==
    [][\A r \in Requests :
          faults = 0 /\ pc[r] = "queued" /\ pc'[r] = "idle" /\ status' # status
            => r \in hurried \/ req[r].id \notin started]_vars

\* w still has an entry of p to run, or to finish running.
HasToRun(w, p) ==
    \E i \in pos[w]..Len(batch[w]) :
        /\ project[batch[w][i]] = p
        /\ i = pos[w] => pc[w] \in Processing \cup {"check"}

\* When nothing is left to do for a project its status says how it ended, but
\* for a hurried write of "queued", which stays.  A settled entry may be left to
\* do: one that grew stale behind the entry that a consumer is at is run by it
\* even after another has dead-lettered it.  A fault may leave "running" or
\* "queued" behind: a crash before the last delivery, a lost write, a rate limit
\* that runs into the dead-letter queue.
StatusSettles ==
    \A p \in Projects :
        /\ faults = 0
        /\ \A j \in 1..Last : project[j] = p => j \in (done \cup dlq) \ pel
        /\ \A r \in Requests : pc[r] # "idle" => req[r].project # p
        /\ \A w \in Workers : ~HasToRun(w, p)
        /\ p \notin slipped
        => status[p] \in Terminal \cup {"idle"}

-----------------------------------------------------------------------------
(* The queue implements AtLeastOnce.                                       *)

Settled == done \cup dlq
Open == pel \ Settled

Queue == INSTANCE AtLeastOnce
             WITH waiting <- Waiting, open <- Open, settled <- Settled

\* No accepted job is lost, and each one is settled in the end.
AtLeastOnceDelivery == Queue!Spec
=============================================================================
