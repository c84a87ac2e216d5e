-------------------------- MODULE MaintenanceRun --------------------------
(***************************************************************************)
(* One global maintenance operation of imbi_api.maintenance: the run state *)
(* kept in Valkey (maintenance/state.py), the per-instance consumer loop   *)
(* (maintenance/worker.py) and the admin requests that start and cancel a  *)
(* run (endpoints/maintenance.py).                                         *)
(*                                                                         *)
(* Every command or short pipeline sent to Valkey is one step, so steps of *)
(* instances and requests interleave between any two awaits.  The seeding  *)
(* pipeline of start_run carries thousands of ids and is not a             *)
(* transaction: each of its commands is a step.                            *)
(***************************************************************************)
EXTENDS Integers, FiniteSets

CONSTANTS
    Workers,      \* consumer loops, one per API instance
    Admins,       \* in-progress admin HTTP requests
    Projects,     \* project ids the run is over
    NoProject,    \* "no project checked out"
    MaxRuns,      \* bound: runs started in a behaviour
    MaxFaults,    \* bound: crashes, shutdowns, failed commands and expiries
    MaxDetails,   \* MAX_FAILURE_DETAILS
    SaddChunk,    \* SADD_CHUNK
    PauseKey,     \* TRUE iff the operation has a rate-limit pause key
    Env           \* which events of the environment may happen

Events == {"rate_limit", "cancel", "stop", "crash", "valkey_error", "ttl"}

ASSUME ConstantsAssumption ==
    /\ Workers \cap Admins = {}
    /\ NoProject \notin Projects
    /\ IsFiniteSet(Workers) /\ IsFiniteSet(Projects)
    /\ MaxRuns \in Nat \ {0} /\ MaxDetails \in Nat \ {0}
    /\ MaxFaults \in Nat
    /\ SaddChunk \in Nat \ {0}
    /\ PauseKey \in BOOLEAN
    /\ Env \subseteq Events

VARIABLES
    lock,      \* {slug}:lock, the run id, 0 when the key is absent
    pending,   \* {slug}:pending
    run,       \* {slug}:run
    failures,  \* {slug}:failures, the projects with failure detail
    paused,    \* the shared rate-limit pause key exists
    pc,        \* control point of every worker and request
    item,      \* project id a worker has checked out
    outcome,   \* outcome a worker is about to record
    req,       \* locals of a start request
    lastRun,   \* history: runs started so far
    overlapped, \* history: a start has begun while another was under way
    served,    \* history: projects with a recorded outcome since the seeding
    faults     \* history: faults so far

valkey == <<lock, pending, run, failures, paused>>
local == <<item, outcome, req>>
history == <<lastRun, overlapped, served, faults>>
vars == <<valkey, pc, local, history>>

Procs == Workers \cup Admins

States == {"none", "running", "completed", "cancelled"}
Outcomes == {"succeeded", "failed", "skipped"}

\* The run hash after DEL; HINCRBY on it starts from zero.
EmptyRun == [id |-> 0, state |-> "none", total |-> 0, in_flight |-> 0,
             succeeded |-> 0, failed |-> 0, skipped |-> 0]

NoOutcome == [kind |-> "none", detail |-> FALSE]
NoRequest == [rid |-> 0, all |-> {}, left |-> {}]

WorkerPc == {"idle", "pause", "spop", "hincr", "exec", "hlen", "record",
             "requeue", "setpause", "stopping", "compensate",
             "fin_check", "finish", "down"}
AdminPc == {"idle", "delete", "seed", "hset", "fin_check", "finish",
            "c_state", "c_delete", "c_finish"}

Goto(p, label) == pc' = [pc EXCEPT ![p] = label]

\* A worker drops whatever it has in hand and goes to label.
Release(w, label) ==
    /\ Goto(w, label)
    /\ item' = [item EXCEPT ![w] = NoProject]
    /\ outcome' = [outcome EXCEPT ![w] = NoOutcome]
    /\ req' = req

\* One of the bounded faults, of a kind the environment is allowed.
Fault(kinds) ==
    /\ kinds \cap Env # {}
    /\ faults < MaxFaults
    /\ faults' = faults + 1

Held == {item[w] : w \in Workers} \ {NoProject}

\* Requests past the SET NX of the lock and before the end of the pipeline.
Starting == {a \in Admins : pc[a] \in {"delete", "seed", "hset"}}

Init ==
    /\ lock = 0
    /\ pending = {}
    /\ run = EmptyRun
    /\ failures = {}
    /\ paused = FALSE
    /\ pc = [p \in Procs |-> "idle"]
    /\ item = [w \in Workers |-> NoProject]
    /\ outcome = [w \in Workers |-> NoOutcome]
    /\ req = [a \in Admins |-> NoRequest]
    /\ lastRun = 0
    /\ overlapped = FALSE
    /\ served = {}
    /\ faults = 0

-----------------------------------------------------------------------------
(* POST .../run: start_run.                                                *)

\* Enumerate the projects, then SET lock NX.  A held lock answers 409 and
\* changes nothing, so that branch is no step.
StartLock(a) ==
    /\ pc[a] = "idle"
    /\ lock = 0
    /\ lastRun < MaxRuns
    /\ \E all \in {Projects, {}} :
          req' = [req EXCEPT ![a] = [rid |-> lastRun + 1, all |-> all,
                                     left |-> all]]
    /\ lastRun' = lastRun + 1
    /\ overlapped' = (overlapped \/ Starting # {})
    /\ lock' = lastRun + 1
    /\ Goto(a, "delete")
    /\ UNCHANGED <<pending, run, failures, paused, item, outcome, served, faults>>

StartDelete(a) ==
    /\ pc[a] = "delete"
    /\ pending' = {}
    /\ failures' = {}
    /\ run' = EmptyRun
    /\ served' = {}
    /\ Goto(a, IF req[a].all = {} THEN "hset" ELSE "seed")
    /\ UNCHANGED <<lock, paused, local, lastRun, overlapped, faults>>

\* One SADD of the pipeline, a chunk of at most SADD_CHUNK ids.
StartSeed(a) ==
    /\ pc[a] = "seed"
    /\ \E chunk \in SUBSET req[a].left :
          /\ \/ Cardinality(chunk) = SaddChunk
             \/ chunk = req[a].left /\ Cardinality(chunk) < SaddChunk
          /\ pending' = pending \cup chunk
          /\ req' = [req EXCEPT ![a].left = @ \ chunk]
          /\ Goto(a, IF req[a].left = chunk THEN "hset" ELSE "seed")
    /\ UNCHANGED <<lock, run, failures, paused, item, outcome, history>>

\* HSET of the run metadata and zeroed counters; an empty run goes on to
\* maybe_finalize before the request answers.
StartHset(a) ==
    /\ pc[a] = "hset"
    /\ run' = [EmptyRun EXCEPT !.id = req[a].rid, !.state = "running",
                               !.total = Cardinality(req[a].all)]
    /\ Goto(a, IF req[a].all = {} THEN "fin_check" ELSE "idle")
    /\ req' = [req EXCEPT ![a] = NoRequest]
    /\ UNCHANGED <<lock, pending, failures, paused, item, outcome, history>>

\* The instance dies, or Valkey fails, between two commands of a request.
RequestAborts(a) ==
    /\ Fault({"crash", "valkey_error"})
    /\ pc[a] # "idle"
    /\ Goto(a, "idle")
    /\ req' = [req EXCEPT ![a] = NoRequest]
    /\ UNCHANGED <<valkey, item, outcome, lastRun, overlapped, served>>

-----------------------------------------------------------------------------
(* POST .../cancel: cancel_run.                                            *)

\* EXISTS lock; without it the request answers 409.
CancelExists(a) ==
    /\ "cancel" \in Env
    /\ pc[a] = "idle"
    /\ lock # 0
    /\ Goto(a, "c_state")
    /\ UNCHANGED <<valkey, local, history>>

CancelReadState(a) ==
    /\ pc[a] = "c_state"
    /\ Goto(a, IF run.state = "running" THEN "c_delete" ELSE "idle")
    /\ UNCHANGED <<valkey, local, history>>

CancelDelete(a) ==
    /\ pc[a] = "c_delete"
    /\ pending' = {}
    /\ Goto(a, "c_finish")
    /\ UNCHANGED <<lock, run, failures, paused, local, history>>

CancelFinish(a) ==
    /\ pc[a] = "c_finish"
    /\ run' = [run EXCEPT !.state = "cancelled"]
    /\ lock' = 0
    /\ Goto(a, "idle")
    /\ UNCHANGED <<pending, failures, paused, local, history>>

-----------------------------------------------------------------------------
(* The worker: _tick_operation.                                            *)

\* has_active_run; without a lock the tick ends.
HasActiveRun(w) ==
    /\ pc[w] = "idle"
    /\ lock # 0
    /\ Goto(w, IF PauseKey THEN "pause" ELSE "spop")
    /\ UNCHANGED <<valkey, local, history>>

\* While paused the tick only finalizes a run others have drained.
CheckPause(w) ==
    /\ pc[w] = "pause"
    /\ Goto(w, IF paused THEN "fin_check" ELSE "spop")
    /\ UNCHANGED <<valkey, local, history>>

\* paused_remaining: a GET that raises counts as "not paused".
PauseUnreadable(w) ==
    /\ Fault({"valkey_error"})
    /\ pc[w] = "pause"
    /\ Goto(w, "spop")
    /\ UNCHANGED <<valkey, local, lastRun, overlapped, served>>

\* Mutant of CheckoutPop: a member is read and left in the set.
CheckoutPeek(w) ==
    /\ pc[w] = "spop"
    /\ \/ /\ pending = {}
          /\ Goto(w, "fin_check")
          /\ UNCHANGED item
       \/ \E p \in pending :
             /\ item' = [item EXCEPT ![w] = p]
             /\ Goto(w, "hincr")
    /\ UNCHANGED <<valkey, outcome, req, history>>

\* First command of checkout: SPOP of an arbitrary member.
CheckoutPop(w) ==
    /\ pc[w] = "spop"
    /\ \/ /\ pending = {}
          /\ Goto(w, "fin_check")
          /\ UNCHANGED <<pending, item>>
       \/ \E p \in pending :
             /\ pending' = pending \ {p}
             /\ item' = [item EXCEPT ![w] = p]
             /\ Goto(w, "hincr")
    /\ UNCHANGED <<lock, run, failures, paused, outcome, req, history>>

\* Second command of checkout: HINCRBY in_flight 1.
CheckoutCount(w) ==
    /\ pc[w] = "hincr"
    /\ run' = [run EXCEPT !.in_flight = @ + 1]
    /\ Goto(w, "exec")
    /\ UNCHANGED <<lock, pending, failures, paused, local, history>>

\* operation.execute returned, or raised a recordable failure.
ExecuteDone(w) ==
    /\ pc[w] = "exec"
    /\ \E k \in Outcomes :
          /\ outcome' = [outcome EXCEPT ![w] = [kind |-> k, detail |-> FALSE]]
          /\ Goto(w, IF k = "failed" THEN "hlen" ELSE "record")
    /\ UNCHANGED <<valkey, item, req, history>>

ExecuteRateLimited(w) ==
    /\ "rate_limit" \in Env
    /\ pc[w] = "exec"
    /\ Goto(w, "requeue")
    /\ UNCHANGED <<valkey, local, history>>

\* Mutant of CountFailures: the cap is not looked at.
CountFailuresUncapped(w) ==
    /\ pc[w] = "hlen"
    /\ outcome' = [outcome EXCEPT ![w].detail = TRUE]
    /\ Goto(w, "record")
    /\ UNCHANGED <<valkey, item, req, history>>

\* record_outcome reads HLEN before its pipeline when there is an error.
CountFailures(w) ==
    /\ pc[w] = "hlen"
    /\ outcome' = [outcome EXCEPT ![w].detail = Cardinality(failures) < MaxDetails]
    /\ Goto(w, "record")
    /\ UNCHANGED <<valkey, item, req, history>>

\* What the first n commands of the pipeline of record_outcome do.
Recorded(w, n) ==
    LET k == outcome[w].kind
        counted == IF n >= 1 THEN [run EXCEPT !.in_flight = @ - 1] ELSE run
    IN  /\ run' = IF n >= 2 THEN [counted EXCEPT ![k] = @ + 1] ELSE counted
        /\ failures' = IF n >= 3 /\ outcome[w].detail
                         THEN failures \cup {item[w]} ELSE failures
        /\ served' = IF n >= 2 THEN served \cup {item[w]} ELSE served

RecordOutcome(w) ==
    /\ pc[w] = "record"
    /\ Recorded(w, 3)
    /\ Release(w, "fin_check")
    /\ UNCHANGED <<lock, pending, paused, lastRun, overlapped, faults>>

\* The pipeline raises: a prefix of its commands was executed, all of them
\* when only the reply was lost.
RecordFails(w) ==
    /\ Fault({"valkey_error"})
    /\ \/ pc[w] = "hlen" /\ UNCHANGED <<run, failures, served>>
       \/ pc[w] = "record" /\ \E n \in 0..3 : Recorded(w, n)
    /\ Goto(w, "compensate")
    /\ UNCHANGED <<lock, pending, paused, local, lastRun, overlapped>>

\* Mutant of Requeue: one of its two commands is missing.
RequeueNoSadd(w) ==
    /\ run' = [run EXCEPT !.in_flight = @ - 1]
    /\ UNCHANGED <<lock, pending, failures, paused, history>>

\* requeue: SADD pending, HINCRBY in_flight -1.
Requeue(w) ==
    /\ pending' = pending \cup {item[w]}
    /\ run' = [run EXCEPT !.in_flight = @ - 1]
    /\ UNCHANGED <<lock, failures, paused, history>>

\* The three places that hand a project back: a rate limit, a graceful
\* shutdown inside execute, an outcome that could not be recorded.
RequeueRateLimited(w) ==
    /\ pc[w] = "requeue"
    /\ Requeue(w)
    /\ Release(w, IF PauseKey THEN "setpause" ELSE "idle")

RequeueStopping(w) ==
    /\ pc[w] = "stopping"
    /\ Requeue(w)
    /\ Release(w, "down")

RequeueUnrecorded(w) ==
    /\ pc[w] = "compensate"
    /\ Requeue(w)
    /\ Release(w, "fin_check")

\* pause_until
SetPause(w) ==
    /\ pc[w] = "setpause"
    /\ paused' = TRUE
    /\ Goto(w, "idle")
    /\ UNCHANGED <<lock, pending, run, failures, local, history>>

\* maybe_finalize reads SCARD pending, in_flight and state in one pipeline
\* and decides on what it read.
FinalizeCheck(p) ==
    /\ pc[p] = "fin_check"
    /\ Goto(p, IF pending = {} /\ run.in_flight <= 0 /\ run.state = "running"
                 THEN "finish" ELSE "idle")
    /\ UNCHANGED <<valkey, local, history>>

\* Mutant of Finish: the lock is left to its TTL.
FinishKeepsLock(p) ==
    /\ pc[p] = "finish"
    /\ run' = [run EXCEPT !.state = "completed"]
    /\ Goto(p, "idle")
    /\ UNCHANGED <<lock, pending, failures, paused, local, history>>

\* _finish('completed')
Finish(p) ==
    /\ pc[p] = "finish"
    /\ run' = [run EXCEPT !.state = "completed"]
    /\ lock' = 0
    /\ Goto(p, "idle")
    /\ UNCHANGED <<pending, failures, paused, local, history>>

\* A Valkey command raises anywhere else: run_worker logs it and goes on.
\* A lost SPOP reply or a failed HINCRBY drops the project; of the
\* pipelines of requeue and _finish the first command may have been done.
\* pause_until swallows its own error.
TickFails(w) ==
    /\ Fault({"valkey_error"})
    /\ \/ /\ pc[w] \in {"spop", "hincr", "requeue", "setpause",
                        "compensate", "fin_check", "finish"}
          /\ UNCHANGED <<pending, run>>
       \/ /\ pc[w] \in {"requeue", "compensate"}
          /\ pending' = pending \cup {item[w]}
          /\ run' = run
       \/ /\ pc[w] = "finish"
          /\ run' = [run EXCEPT !.state = "completed"]
          /\ pending' = pending
    /\ Release(w, "idle")
    /\ UNCHANGED <<lock, failures, paused, lastRun, overlapped, served>>

\* Graceful shutdown cancels the task at its current await: execute hands
\* its project back, no other await does.
Stop(w) ==
    /\ Fault({"stop"})
    /\ pc[w] # "down" /\ pc[w] # "stopping"
    /\ IF pc[w] = "exec"
         THEN Goto(w, "stopping") /\ UNCHANGED local
         ELSE Release(w, "down")
    /\ UNCHANGED <<valkey, lastRun, overlapped, served>>

Crash(w) ==
    /\ Fault({"crash"})
    /\ pc[w] # "down"
    /\ Release(w, "down")
    /\ UNCHANGED <<valkey, lastRun, overlapped, served>>

Restart(w) ==
    /\ pc[w] = "down"
    /\ Goto(w, "idle")
    /\ UNCHANGED <<valkey, local, history>>

-----------------------------------------------------------------------------
(* Key expiry.                                                             *)

PauseExpires ==
    /\ paused
    /\ paused' = FALSE
    /\ UNCHANGED <<lock, pending, run, failures, pc, local, history>>

LockExpires ==
    /\ Fault({"ttl"})
    /\ lock # 0
    /\ lock' = 0
    /\ UNCHANGED <<pending, run, failures, paused, pc, local, lastRun, overlapped, served>>

-----------------------------------------------------------------------------
AdminStep(a) ==
    \/ StartLock(a) \/ StartDelete(a) \/ StartSeed(a) \/ StartHset(a)
    \/ RequestAborts(a)
    \/ CancelExists(a) \/ CancelReadState(a) \/ CancelDelete(a)
    \/ CancelFinish(a)

WorkerLoop(w) ==
    \/ HasActiveRun(w) \/ CheckPause(w) \/ CheckoutPop(w)
    \/ CheckoutCount(w) \/ ExecuteDone(w) \/ ExecuteRateLimited(w)
    \/ CountFailures(w) \/ RecordOutcome(w) \/ RequeueRateLimited(w)
    \/ RequeueStopping(w) \/ RequeueUnrecorded(w) \/ SetPause(w)

WorkerFault(w) ==
    PauseUnreadable(w) \/ RecordFails(w) \/ TickFails(w) \/ Stop(w) \/ Crash(w) \/ Restart(w)

Next ==
    \/ \E a \in Admins : AdminStep(a)
    \/ \E w \in Workers : WorkerLoop(w) \/ WorkerFault(w)
    \/ \E p \in Procs : FinalizeCheck(p) \/ Finish(p)
    \/ PauseExpires \/ LockExpires

Spec == Init /\ [][Next]_vars

\* A worker that is up keeps ticking, a pause runs out, a request that has
\* begun goes on, and a project is not rate-limited for ever.  Nothing
\* obliges an admin to start or cancel a run.
Fairness ==
    /\ \A w \in Workers :
          /\ WF_vars(WorkerLoop(w) \/ FinalizeCheck(w) \/ Finish(w))
          /\ SF_vars(ExecuteDone(w))
          /\ WF_vars(Restart(w))
    /\ \A a \in Admins :
          /\ WF_vars(StartDelete(a) \/ StartSeed(a) \/ StartHset(a)
                       \/ FinalizeCheck(a) \/ Finish(a))
          /\ WF_vars(CancelReadState(a) \/ CancelDelete(a) \/ CancelFinish(a))
    /\ WF_vars(PauseExpires)

FairSpec == Spec /\ Fairness

-----------------------------------------------------------------------------
(* Properties.                                                             *)

TypeOK ==
    /\ lock \in 0..MaxRuns
    /\ pending \subseteq Projects
    /\ run \in [id : 0..MaxRuns, state : States, total : Nat,
                in_flight : Int, succeeded : Nat, failed : Nat,
                skipped : Nat]
    /\ failures \subseteq Projects
    /\ paused \in BOOLEAN
    /\ pc \in [Procs -> WorkerPc \cup AdminPc]
    /\ item \in [Workers -> Projects \cup {NoProject}]
    /\ outcome \in [Workers -> [kind : Outcomes \cup {"none"},
                                detail : BOOLEAN]]
    /\ req \in [Admins -> [rid : 0..MaxRuns, all : SUBSET Projects,
                           left : SUBSET Projects]]
    /\ lastRun \in 0..MaxRuns
    /\ overlapped \in BOOLEAN
    /\ served \subseteq Projects
    /\ faults \in 0..MaxFaults

\* A project of the first run is in one place: it is not pending while an
\* instance has it checked out, and no two instances have it.  The claim
\* SPOP makes on it survives requeues, lost replies, shutdowns and crashes.
ExclusiveCheckout ==
    lastRun <= 1 =>
      /\ pending \cap Held = {}
      /\ \A v, w \in Workers :
            v # w /\ item[v] # NoProject => item[v] # item[w]

\* MAX_FAILURE_DETAILS is checked before the write that it bounds: each
\* instance can exceed it by one entry, never by more.
FailureDetailBound ==
    Cardinality(failures) < MaxDetails + Cardinality(Workers)

\* While a seeded run is running and no fault has happened, no project of it
\* is lost: each one is pending, checked out by an instance, or has a
\* recorded outcome.  A rate limit is no fault: it only delays a project.
\* Two starts at once are the exception, as the DEL of the one drops what the
\* other has seeded: the lock forbids them, but a late maybe_finalize or
\* cancel_run deletes whatever lock there is.
NoProjectLost ==
    /\ faults = 0 /\ ~overlapped
    /\ run.state = "running" /\ lock = run.id /\ run.total > 0
    /\ \A a \in Admins : pc[a] # "c_finish"
    => Projects \subseteq pending \cup Held \cup served

\* A held lock belongs to a run that can still be finished or cancelled:
\* once no request is starting a run, the run hash says it is running, under
\* the id in the lock unless two starts overlapped.  A lock that outlived its
\* run would refuse new runs for LOCK_TTL_SECONDS.
LockMeansRunning ==
    faults = 0 /\ lock # 0 /\ Starting = {}
      => run.state = "running" /\ (run.id = lock \/ overlapped)

\* Two instances that both see the run drained may both finish it; the
\* second one changes nothing it should not (state.py: "the benign race
\* where two instances both pass the check is idempotent"): a run is never
\* completed while ids of it are pending.
FinalizeRaceBenign ==
    [][run.state = "running" /\ run'.state = "completed"
         => pending = {}]_vars

\* A held lock is released in the end: the run completes, with any rate
\* limits and without waiting for the lock's TTL, unless a fault happens.
RunEnds == (lock # 0) ~> (lock = 0 \/ faults > 0)
=============================================================================
