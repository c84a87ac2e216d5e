----------------------------- MODULE ScoreQueue -----------------------------
(***************************************************************************)
(* The score-recompute queue (imbi_api/scoring/queue.py).  A change to the *)
(* data a score depends on is committed, and then a job is debounced and   *)
(* added to a stream; a consumer per instance recomputes the score from    *)
(* the data it reads, and records it.                                      *)
(*                                                                         *)
(* What a score is computed from is a version number per project, which    *)
(* every committed change increments; the score is the version that the    *)
(* last recorded computation had read.                                     *)
(***************************************************************************)
EXTENDS ValkeyStream

CONSTANTS
    Workers,        \* consumers, one per instance
    Requests,       \* enqueues under way: handlers and the daily tick
    BatchSize,      \* count of XREADGROUP and XAUTOCLAIM
    MaxEnqueues,    \* bound: changes, daily ticks and bulk rescores
    MaxFaults,      \* bound: faults
    Env             \* which faults may happen

Events == {"crash", "valkey_error", "compute_error"}

ASSUME ConstantsAssumption ==
    /\ Workers \cap Requests = {}
    /\ BatchSize \in Nat \ {0}
    /\ MaxEnqueues \in Nat /\ MaxFaults \in Nat
    /\ Env \subseteq Events

VARIABLES
    attr,        \* version of what the score of a project depends on
    score,       \* version the recorded score was computed from
    debounce,    \* projects whose debounce key exists
    req,         \* locals of every enqueue under way
    asked,       \* changes, daily ticks and bulk rescores so far
    pc, batch, pos, claimed, seen,  \* a consumer; seen is what it has read
    missed,      \* history: projects nobody will serve the last change of
    raced,       \* history: projects whose score an older read replaced
    faults       \* history: faults so far

graph == <<attr, score>>
local == <<batch, pos, claimed, seen>>
history == <<missed, raced, faults>>
vars == <<graph, debounce, stream, req, asked, pc, local, history>>

\* todo: ids whose SET NX is still to be sent; accepted: ids whose XADD is.
\* A bulk request sends every SET before the first XADD; the others run
\* enqueue_recompute for each id concurrently.
NoRequest == [todo |-> {}, accepted |-> {}, bulk |-> FALSE,
              version |-> [p \in Projects |-> 0]]
Asking(r) == req[r].todo \cup req[r].accepted

Entry(w) == batch[w][pos[w]]
Goto(w, label) == pc' = [pc EXCEPT ![w] = label]

Fault(kind) ==
    /\ kind \in Env
    /\ faults < MaxFaults
    /\ faults' = faults + 1

\* The enqueue of S at the given versions comes to nothing.
Miss(S, version) ==
    missed' = missed \cup {p \in S : version[p] = attr[p]}

\* What is left of the request r.
Remain(r, todo, accepted) ==
    req' = [req EXCEPT ![r] =
              IF todo \cup accepted = {} THEN NoRequest
              ELSE [@ EXCEPT !.todo = todo, !.accepted = accepted]]

\* Worker w has read for entry j, before the last change.
Spent(w, j) ==
    /\ pc[w] \in {"record", "ack"} /\ Entry(w) = j
    /\ seen[w] < attr[project[j]]

\* An entry that is still to be read for, or read for again.
Fresh(j) == j \in Waiting \cup pel /\ \A w \in Workers : ~Spent(w, j)

Serves(j, p) == project[j] = p /\ Fresh(j)

Init ==
    /\ attr = [p \in Projects |-> 0]
    /\ score = [p \in Projects |-> 0]
    /\ debounce = {}
    /\ InitStream
    /\ req = [r \in Requests |-> NoRequest]
    /\ asked = 0
    /\ pc = [w \in Workers |-> "ensure"]
    /\ batch = [w \in Workers |-> <<>>]
    /\ pos = [w \in Workers |-> 1]
    /\ claimed = [w \in Workers |-> FALSE]
    /\ seen = [w \in Workers |-> 0]
    /\ missed = {}
    /\ raced = {}
    /\ faults = 0

-----------------------------------------------------------------------------
(* Enqueues.                                                               *)

\* A handler commits a change to the projects of S and turns to enqueueing
\* them: one project, a project's dependents, or all that a policy or a
\* blueprint applies to.  For a single id the two ways do the same.
Commit(r, S, bulk) ==
    /\ Asking(r) = {}
    /\ S # {} /\ (bulk => Cardinality(S) > 1)
    /\ asked < MaxEnqueues
    /\ asked' = asked + 1
    /\ attr' = [p \in Projects |-> IF p \in S THEN attr[p] + 1 ELSE attr[p]]
    /\ req' = [req EXCEPT ![r] = [todo |-> S, accepted |-> {}, bulk |-> bulk,
                                  version |-> attr']]
    /\ missed' = missed \ S
    /\ UNCHANGED <<score, debounce, stream, pc, local, raced, faults>>

\* The bulk rescore of an admin, and the daily tick of the instance that
\* sets the key of the day.
EnqueueAll(r, bulk) ==
    /\ Asking(r) = {}
    /\ asked < MaxEnqueues
    /\ asked' = asked + 1
    /\ req' = [req EXCEPT ![r] = [NoRequest EXCEPT !.todo = Projects,
                                                   !.bulk = bulk]]
    /\ UNCHANGED <<graph, debounce, stream, pc, local, history>>

\* SET NX EX of the debounce key.  A key that is held ends the enqueue: that
\* is sound iff an entry added under it is still to be read for.
Acquire(r, p) ==
    /\ p \in req[r].todo
    /\ IF p \in debounce
         THEN /\ Remain(r, req[r].todo \ {p}, req[r].accepted)
              /\ IF \E j \in 1..Last : Serves(j, p)
                   THEN UNCHANGED missed
                   ELSE Miss({p}, req[r].version)
              /\ UNCHANGED debounce
         ELSE /\ Remain(r, req[r].todo \ {p}, req[r].accepted \cup {p})
              /\ debounce' = debounce \cup {p}
              /\ UNCHANGED missed
    /\ UNCHANGED <<graph, stream, asked, pc, local, raced, faults>>

\* XADD.  What is added before the group exists is never delivered.
Add(r, p) ==
    /\ p \in req[r].accepted
    /\ req[r].bulk => req[r].todo = {}
    /\ AddEntry(p)
    /\ Remain(r, req[r].todo, req[r].accepted \ {p})
    /\ IF delivered = -1 THEN Miss({p}, attr) ELSE UNCHANGED missed
    /\ UNCHANGED <<graph, debounce, asked, pc, local, raced, faults>>

\* A SET or an XADD raises, applied or not.  The key stays.  A bulk request
\* gives up on all that is left of it, the others on this id.
EnqueueFails(r, p) ==
    /\ Fault("valkey_error")
    /\ p \in Asking(r)
    /\ \/ /\ p \in req[r].todo
          /\ debounce' \in {debounce, debounce \cup {p}}
          /\ UNCHANGED stream
       \/ /\ p \in req[r].accepted
          /\ AddEntry(p) \/ UNCHANGED stream
          /\ UNCHANGED debounce
    /\ LET lost == IF req[r].bulk THEN Asking(r) ELSE {p}
       IN  /\ Remain(r, req[r].todo \ lost, req[r].accepted \ lost)
           /\ Miss(lost, req[r].version)
    /\ UNCHANGED <<graph, asked, pc, local, raced>>

\* The process ends between the commit and the last XADD.  For a tick, the
\* key of the day stays and no other instance enqueues what is left.
RequestDies(r) ==
    /\ Fault("crash")
    /\ Asking(r) # {}
    /\ req' = [req EXCEPT ![r] = NoRequest]
    /\ Miss(Asking(r), req[r].version)
    /\ UNCHANGED <<graph, debounce, stream, asked, pc, local, raced>>

DebounceExpires(p) ==
    /\ p \in debounce
    /\ debounce' = debounce \ {p}
    /\ UNCHANGED <<graph, stream, req, asked, pc, local, history>>

-----------------------------------------------------------------------------
(* The consumer.                                                           *)

Drop(w, label) ==
    /\ Goto(w, label)
    /\ batch' = [batch EXCEPT ![w] = <<>>]
    /\ pos' = [pos EXCEPT ![w] = 1]
    /\ claimed' = [claimed EXCEPT ![w] = FALSE]
    /\ seen' = [seen EXCEPT ![w] = 0]

\* The next entry of the batch; new entries are read after stale ones.
Advance(w) ==
    IF pos[w] < Len(batch[w])
      THEN /\ pos' = [pos EXCEPT ![w] = @ + 1]
           /\ seen' = [seen EXCEPT ![w] = 0]
           /\ Goto(w, IF claimed[w] THEN "check" ELSE "compute")
           /\ UNCHANGED <<batch, claimed>>
      ELSE Drop(w, IF claimed[w] THEN "read" ELSE "claim")

\* ensure_group swallows every error, and is not called again.  A consumer
\* whose instance is down is about to call it.
EnsureGroup(w) ==
    /\ pc[w] = "ensure"
    /\ Goto(w, "claim")
    /\ \/ CreateGroup /\ UNCHANGED faults
       \/ Fault("valkey_error") /\ UNCHANGED stream
    /\ UNCHANGED <<graph, debounce, req, asked, local, missed, raced>>

Take(w, S, reclaim, label) ==
    /\ \E s \in InOrder(S) : batch' = [batch EXCEPT ![w] = s]
    /\ pos' = [pos EXCEPT ![w] = 1]
    /\ claimed' = [claimed EXCEPT ![w] = reclaim]
    /\ Goto(w, label)
    /\ UNCHANGED seen

\* An error of XAUTOCLAIM, no group among them, counts as nothing stale.
ClaimStale(w) ==
    /\ pc[w] = "claim"
    /\ \/ /\ stale # {}
          /\ Take(w, Lowest(stale, BatchSize), TRUE, "check")
          /\ AutoClaim(Lowest(stale, BatchSize))
          /\ UNCHANGED faults
       \/ /\ (stale = {} /\ UNCHANGED faults) \/ Fault("valkey_error")
          /\ Goto(w, "read")
          /\ UNCHANGED <<local, stream>>
    /\ UNCHANGED <<graph, debounce, req, asked, missed, raced>>

\* XREADGROUP fails as long as there is no group.
ReadNew(w) ==
    /\ pc[w] = "read"
    /\ LET S == IF delivered = -1 THEN {}
                ELSE Lowest((delivered + 1)..Last, BatchSize)
       IN  IF S = {}
             THEN Goto(w, "claim") /\ UNCHANGED <<local, stream>>
             ELSE Take(w, S, FALSE, "compute") /\ ReadGroup(S)
    /\ UNCHANGED <<graph, debounce, req, asked, history>>

\* Only reclaimed entries are looked up; an error of XPENDING is swallowed.
CheckDeliveries(w) ==
    /\ pc[w] = "check"
    /\ \/ Exhausted(Entry(w)) /\ Goto(w, "dlq_add") /\ UNCHANGED faults
       \/ ~Exhausted(Entry(w)) /\ Goto(w, "compute") /\ UNCHANGED faults
       \/ Fault("valkey_error") /\ Goto(w, "compute")
    /\ UNCHANGED <<graph, debounce, stream, req, asked, local, missed, raced>>

DeadLetterAdd(w) ==
    /\ pc[w] = "dlq_add"
    /\ AddDeadLetter(Entry(w))
    /\ Goto(w, "dlq_ack")
    /\ Miss({project[Entry(w)]}, attr)
    /\ UNCHANGED <<graph, debounce, req, asked, local, raced, faults>>

DeadLetterAck(w) ==
    /\ pc[w] = "dlq_ack"
    /\ Xack(Entry(w))
    /\ Advance(w)
    /\ Miss({project[Entry(w)]}, attr)
    /\ UNCHANGED <<graph, debounce, req, asked, raced, faults>>

\* compute_score reads the project, the policies and what they look at.
Compute(w) ==
    /\ pc[w] = "compute"
    /\ seen' = [seen EXCEPT ![w] = attr[project[Entry(w)]]]
    /\ Goto(w, "record")
    /\ UNCHANGED <<graph, debounce, stream, req, asked, batch, pos, claimed,
                   history>>

\* record_score_change, or clear_score: an unconditional write.
Record(w) ==
    /\ pc[w] = "record"
    /\ LET p == project[Entry(w)]
       IN  /\ score' = [score EXCEPT ![p] = seen[w]]
           /\ raced' = IF seen[w] < score[p] THEN raced \cup {p}
                       ELSE IF seen[w] = attr[p] THEN raced \ {p} ELSE raced
           /\ missed' = IF seen[w] = attr[p] THEN missed \ {p} ELSE missed
    /\ Goto(w, "ack")
    /\ UNCHANGED <<attr, debounce, stream, req, asked, local, faults>>

\* Mutant of RecomputeFails: a failed recompute is acknowledged.
RecomputeFailsAcks(w) ==
    /\ Fault("compute_error")
    /\ pc[w] \in {"compute", "record"}
    /\ Xack(Entry(w))
    /\ Advance(w)
    /\ UNCHANGED <<graph, debounce, req, asked, missed, raced>>

\* An exception of the recompute leaves the entry pending.
RecomputeFails(w) ==
    /\ Fault("compute_error")
    /\ pc[w] \in {"compute", "record"}
    /\ Advance(w)
    /\ UNCHANGED <<graph, debounce, stream, req, asked, missed, raced>>

Ack(w) ==
    /\ pc[w] = "ack"
    /\ Xack(Entry(w))
    /\ Advance(w)
    /\ UNCHANGED <<graph, debounce, req, asked, history>>

\* An XACK, or the XADD to the dead-letter stream, raises, applied or not:
\* nothing catches it, and the consumer task ends until the next restart.
TaskDies(w) ==
    /\ Fault("valkey_error")
    /\ \/ pc[w] = "dlq_add" /\ (AddDeadLetter(Entry(w)) \/ UNCHANGED stream)
       \/ pc[w] \in {"dlq_ack", "ack"} /\ (Xack(Entry(w)) \/ UNCHANGED stream)
    /\ IF pc[w] = "ack" THEN UNCHANGED missed
                        ELSE Miss({project[Entry(w)]}, attr)
    /\ Drop(w, "ensure")
    /\ UNCHANGED <<graph, debounce, req, asked, raced>>

\* The instance stops, and is started again.
Crash(w) ==
    /\ Fault("crash")
    /\ pc[w] # "ensure"
    /\ Drop(w, "ensure")
    /\ UNCHANGED <<graph, debounce, stream, req, asked, missed, raced>>

\* Nothing renews the claim on an entry that takes longer than CLAIM_IDLE_MS.
Age(j) ==
    /\ GrowStale(j)
    /\ UNCHANGED <<graph, debounce, req, asked, pc, local, history>>

-----------------------------------------------------------------------------
Enqueue(r) ==
    \/ \E S \in SUBSET Projects, bulk \in BOOLEAN : Commit(r, S, bulk)
    \/ \E bulk \in BOOLEAN : EnqueueAll(r, bulk)
    \/ \E p \in Projects : Acquire(r, p) \/ Add(r, p) \/ EnqueueFails(r, p)
    \/ RequestDies(r)

Consume(w) ==
    \/ EnsureGroup(w) \/ ClaimStale(w) \/ ReadNew(w) \/ CheckDeliveries(w)
    \/ DeadLetterAdd(w) \/ DeadLetterAck(w) \/ Compute(w) \/ Record(w)
    \/ RecomputeFails(w) \/ Ack(w) \/ TaskDies(w) \/ Crash(w)

Next ==
    \/ \E r \in Requests : Enqueue(r)
    \/ \E w \in Workers : Consume(w)
    \/ \E p \in Projects : DebounceExpires(p)
    \/ \E j \in Jobs : Age(j)

Spec == Init /\ [][Next]_vars

-----------------------------------------------------------------------------
(* Properties.                                                             *)

\* Somebody will still read p at its present version: a request that asks for
\* just that version, or an entry that is to be delivered, now or again.
Covered(p) ==
    \/ \E r \in Requests : p \in Asking(r) /\ req[r].version[p] = attr[p]
    \/ \E j \in 1..Last : Serves(j, p)

\* A score is never stale without anybody left to recompute it, unless the
\* enqueue of the very last change was lost, or came to a consumer that had
\* read already, or the write of an older read came last.
StaleIsCovered ==
    \A p \in Projects :
        score[p] < attr[p] =>
            Covered(p) \/ p \in missed \cup raced
=============================================================================
