---------------------- MODULE MaintenanceRunProofs ----------------------
(***************************************************************************)
(* Proofs about MaintenanceRun for any number of instances, requests,      *)
(* projects and runs: types, exclusivity of a checkout across instances    *)
(* under every fault, the bound on recorded failure detail, and, without a *)
(* fault, that a held lock is a running run's and no project is lost.      *)
(***************************************************************************)
EXTENDS MaintenanceRun, FiniteSetTheorems, TLAPS

\* Control points at which a worker has a project checked out.
Holding == {"hincr", "exec", "hlen", "record", "requeue", "stopping",
            "compensate"}

\* What a worker has in hand agrees with where it is.
PcInv ==
    \A w \in Workers :
        /\ pc[w] \in WorkerPc
        /\ (item[w] # NoProject) <=> (pc[w] \in Holding)
        /\ pc[w] \in {"hlen", "record"} => outcome[w].kind \in Outcomes

\* Before the first run nothing is in play; during it the ids a request has
\* still to seed are nowhere else, and only one request is seeding.
SeedInv ==
    /\ lastRun = 0 =>
         /\ pending = {}
         /\ \A w \in Workers : item[w] = NoProject
         /\ \A a \in Admins : req[a].left = {}
    /\ lastRun <= 1 =>
         /\ \A a \in Admins :
              /\ req[a].left \cap pending = {}
              /\ \A w \in Workers : item[w] \notin req[a].left
         /\ \A a, b \in Admins : a # b => req[a].left = {} \/ req[b].left = {}
         /\ \A w \in Workers : item[w] \notin pending
         /\ \A v, w \in Workers :
              v # w /\ item[v] # NoProject => item[v] # item[w]

IInv == TypeOK /\ PcInv /\ SeedInv

-----------------------------------------------------------------------------
(* Types.                                                                  *)

LEMMA InitTypes == Init => TypeOK /\ PcInv
<1> SUFFICES ASSUME Init PROVE TypeOK /\ PcInv
  OBVIOUS
<1> USE ConstantsAssumption DEF Init
<1>1. lock \in 0..MaxRuns /\ lastRun \in 0..MaxRuns /\ faults \in 0..MaxFaults
  OBVIOUS
<1>2. run \in [id : 0..MaxRuns, state : States, total : Nat, in_flight : Int,
               succeeded : Nat, failed : Nat, skipped : Nat]
  BY DEF EmptyRun, States
<1>3. /\ pc \in [Procs -> WorkerPc \cup AdminPc]
      /\ item \in [Workers -> Projects \cup {NoProject}]
  BY DEF WorkerPc, AdminPc
<1>4. /\ outcome \in [Workers -> [kind : Outcomes \cup {"none"}, detail : BOOLEAN]]
      /\ req \in [Admins -> [rid : 0..MaxRuns, all : SUBSET Projects,
                            left : SUBSET Projects]]
  BY DEF NoOutcome, NoRequest
<1>5. pending \subseteq Projects /\ failures \subseteq Projects
      /\ served \subseteq Projects /\ paused \in BOOLEAN
  OBVIOUS
<1>6. PcInv
  BY DEF PcInv, Procs, WorkerPc, Holding
<1> QED BY <1>1, <1>2, <1>3, <1>4, <1>5, <1>6 DEF TypeOK

\* The types of the locals, and of the run hash.
LocalTypes ==
    /\ pc \in [Procs -> WorkerPc \cup AdminPc]
    /\ item \in [Workers -> Projects \cup {NoProject}]
    /\ outcome \in [Workers -> [kind : Outcomes \cup {"none"}, detail : BOOLEAN]]
    /\ req \in [Admins -> [rid : 0..MaxRuns, all : SUBSET Projects,
                           left : SUBSET Projects]]

RunType ==
    run \in [id : 0..MaxRuns, state : States, total : Nat, in_flight : Int,
             succeeded : Nat, failed : Nat, skipped : Nat]

\* A worker that drops what it has in hand stays well typed.
LEMMA ReleaseTypes ==
    ASSUME TypeOK, PcInv, NEW w \in Workers, NEW label \in WorkerPc \ Holding,
           Release(w, label)
    PROVE  LocalTypes' /\ PcInv'
<1> USE ConstantsAssumption DEF Release, Goto, Procs
<1>1. pc' \in [Procs -> WorkerPc \cup AdminPc]
  BY DEF TypeOK
<1>2. item' \in [Workers -> Projects \cup {NoProject}]
  BY DEF TypeOK
<1>3. outcome' \in [Workers -> [kind : Outcomes \cup {"none"}, detail : BOOLEAN]]
  BY DEF TypeOK, NoOutcome
<1>4. req' = req
  OBVIOUS
<1>5. PcInv'
  <2> SUFFICES ASSUME NEW v \in Workers
               PROVE  /\ pc'[v] \in WorkerPc
                      /\ (item'[v] # NoProject) <=> (pc'[v] \in Holding)
                      /\ pc'[v] \in {"hlen", "record"} => outcome'[v].kind \in Outcomes
    BY DEF PcInv
  <2>1. CASE v = w
    BY <2>1 DEF TypeOK, Holding, WorkerPc
  <2>2. CASE v # w
    BY <2>2 DEF TypeOK, PcInv
  <2> QED BY <2>1, <2>2
<1> QED BY <1>1, <1>2, <1>3, <1>4, <1>5 DEF LocalTypes, TypeOK

\* Handing a project back keeps the pending set and the run hash well typed.
LEMMA RequeueTypes ==
    ASSUME TypeOK, PcInv, NEW w \in Workers, pc[w] \in Holding, Requeue(w)
    PROVE  pending' \subseteq Projects /\ RunType'
<1>1. item[w] \in Projects
  BY DEF TypeOK, PcInv
<1>2. pending' \subseteq Projects
  BY <1>1 DEF Requeue, TypeOK
<1>3. RunType'
  BY DEF Requeue, TypeOK, RunType
<1> QED BY <1>2, <1>3

\* Any prefix of the pipeline of record_outcome keeps what it writes well
\* typed.
LEMMA RecordedTypes ==
    ASSUME TypeOK, PcInv, NEW w \in Workers, pc[w] = "record", NEW n \in 0..3,
           Recorded(w, n)
    PROVE  RunType' /\ failures' \subseteq Projects /\ served' \subseteq Projects
<1>1. item[w] \in Projects
  BY DEF TypeOK, PcInv, Holding
<1>2. outcome[w].kind \in Outcomes
  BY DEF PcInv
<1>3. RunType'
  <2>1. CASE outcome[w].kind = "succeeded"
    BY <2>1 DEF Recorded, TypeOK, RunType
  <2>2. CASE outcome[w].kind = "failed"
    BY <2>2 DEF Recorded, TypeOK, RunType
  <2>3. CASE outcome[w].kind = "skipped"
    BY <2>3 DEF Recorded, TypeOK, RunType
  <2> QED BY <1>2, <2>1, <2>2, <2>3 DEF Outcomes
<1>4. failures' \subseteq Projects /\ served' \subseteq Projects
  BY <1>1 DEF Recorded, TypeOK
<1> QED BY <1>3, <1>4

\* Every step preserves the types and the agreement of locals with pc.
LEMMA StepTypes == TypeOK /\ PcInv /\ [Next]_vars => TypeOK' /\ PcInv'
<1> SUFFICES ASSUME TypeOK, PcInv, [Next]_vars
             PROVE  TypeOK' /\ PcInv'
  OBVIOUS
<1> USE ConstantsAssumption DEF Procs, Holding, States, Outcomes, Goto, valkey, local, history
<1>0. CASE UNCHANGED vars
  BY <1>0 DEF vars, TypeOK, PcInv
<1>a. ASSUME NEW a \in Admins, AdminStep(a)
      PROVE  TypeOK' /\ PcInv'
  <2>0. \A w \in Workers : w # a
    OBVIOUS
  <2>1. CASE StartLock(a)
    BY <2>0, <2>1 DEF StartLock, TypeOK, PcInv, AdminPc
  <2>2. CASE StartDelete(a)
    BY <2>0, <2>2 DEF StartDelete, TypeOK, PcInv, AdminPc, EmptyRun
  <2>3. CASE StartSeed(a)
    BY <2>0, <2>3 DEF StartSeed, TypeOK, PcInv, AdminPc
  <2>4. CASE StartHset(a)
    <3>1. Cardinality(req[a].all) \in Nat
      <4>1. req[a].all \subseteq Projects
        BY DEF TypeOK
      <4> QED BY <4>1, FS_Subset, FS_CardinalityType
    <3>2. run' \in [id : 0..MaxRuns, state : States, total : Nat, in_flight : Int,
                    succeeded : Nat, failed : Nat, skipped : Nat]
      <4> DEFINE n == Cardinality(req[a].all)
      <4>1. n \in Nat /\ req[a].rid \in 0..MaxRuns
        BY <3>1 DEF TypeOK
      <4>2. run' = [EmptyRun EXCEPT !.id = req[a].rid, !.state = "running",
                                    !.total = n]
        BY <2>4 DEF StartHset
      <4>3. run' = [id |-> req[a].rid, state |-> "running", total |-> n,
                    in_flight |-> 0, succeeded |-> 0, failed |-> 0, skipped |-> 0]
        BY <4>2 DEF EmptyRun
      <4> HIDE DEF n
      <4> QED BY <4>1, <4>3
    <3>3. req' \in [Admins -> [rid : 0..MaxRuns, all : SUBSET Projects,
                              left : SUBSET Projects]]
      <4>1. NoRequest \in [rid : 0..MaxRuns, all : SUBSET Projects,
                            left : SUBSET Projects]
        BY DEF NoRequest
      <4> QED BY <2>4, <4>1 DEF StartHset, TypeOK
    <3>4. pc' \in [Procs -> WorkerPc \cup AdminPc]
      BY <2>4 DEF StartHset, TypeOK, AdminPc
    <3>5. UNCHANGED <<lock, pending, failures, paused, item, outcome, history>>
      BY <2>4 DEF StartHset
    <3>6. PcInv'
      BY <2>0, <2>4 DEF StartHset, TypeOK, PcInv
    <3> QED BY <3>2, <3>3, <3>4, <3>5, <3>6 DEF TypeOK
  <2>5. CASE RequestAborts(a)
    BY <2>0, <2>5 DEF RequestAborts, Fault, TypeOK, PcInv, AdminPc, NoRequest
  <2>6. CASE CancelExists(a)
    BY <2>0, <2>6 DEF CancelExists, TypeOK, PcInv, AdminPc
  <2>7. CASE CancelReadState(a)
    BY <2>0, <2>7 DEF CancelReadState, TypeOK, PcInv, AdminPc
  <2>8. CASE CancelDelete(a)
    BY <2>0, <2>8 DEF CancelDelete, TypeOK, PcInv, AdminPc
  <2>9. CASE CancelFinish(a)
    BY <2>0, <2>9 DEF CancelFinish, TypeOK, PcInv, AdminPc
  <2> QED BY <1>a, <2>1, <2>2, <2>3, <2>4, <2>5, <2>6, <2>7, <2>8, <2>9 DEF AdminStep
<1>w. ASSUME NEW w \in Workers, WorkerLoop(w)
      PROVE  TypeOK' /\ PcInv'
  <2>1. CASE HasActiveRun(w)
    BY <2>1 DEF HasActiveRun, TypeOK, PcInv, WorkerPc
  <2>2. CASE CheckPause(w)
    BY <2>2 DEF CheckPause, TypeOK, PcInv, WorkerPc
  <2>3. CASE CheckoutPop(w)
    <3>1. CASE pending = {} /\ pc' = [pc EXCEPT ![w] = "fin_check"] /\ UNCHANGED <<pending, item>>
      BY <2>3, <3>1 DEF CheckoutPop, TypeOK, PcInv, WorkerPc
    <3>2. ASSUME NEW p \in pending, pending' = pending \ {p},
                 item' = [item EXCEPT ![w] = p], pc' = [pc EXCEPT ![w] = "hincr"]
          PROVE  TypeOK' /\ PcInv'
      BY <2>3, <3>2 DEF CheckoutPop, TypeOK, PcInv, WorkerPc
    <3> QED BY <2>3, <3>1, <3>2 DEF CheckoutPop
  <2>4. CASE CheckoutCount(w)
    BY <2>4 DEF CheckoutCount, TypeOK, PcInv, WorkerPc
  <2>5. CASE ExecuteDone(w)
    BY <2>5 DEF ExecuteDone, TypeOK, PcInv, WorkerPc
  <2>6. CASE ExecuteRateLimited(w)
    BY <2>6 DEF ExecuteRateLimited, TypeOK, PcInv, WorkerPc
  <2>7. CASE CountFailures(w)
    <3>1. outcome' \in [Workers -> [kind : Outcomes \cup {"none"}, detail : BOOLEAN]]
      <4> DEFINE d == Cardinality(failures) < MaxDetails
      <4>1. d \in BOOLEAN
        OBVIOUS
      <4>2. outcome' = [outcome EXCEPT ![w].detail = d]
        BY <2>7 DEF CountFailures
      <4> HIDE DEF d
      <4>3. outcome \in [Workers -> [kind : Outcomes \cup {"none"}, detail : BOOLEAN]]
        BY DEF TypeOK
      <4> QED BY ONLY <4>1, <4>2, <4>3, ZenonT(30)
    <3>2. PcInv'
      BY <2>7 DEF CountFailures, TypeOK, PcInv, WorkerPc
    <3> QED BY <2>7, <3>1, <3>2 DEF CountFailures, TypeOK, WorkerPc
  <2>8. CASE RecordOutcome(w)
    <3>1. LocalTypes' /\ PcInv'
      BY <2>8, ReleaseTypes DEF RecordOutcome, WorkerPc
    <3>2. RunType' /\ failures' \subseteq Projects /\ served' \subseteq Projects
      BY <2>8, RecordedTypes DEF RecordOutcome
    <3> QED BY <2>8, <3>1, <3>2 DEF RecordOutcome, TypeOK, LocalTypes, RunType
  <2>9. CASE RequeueRateLimited(w)
    <3>1. LocalTypes' /\ PcInv'
      BY <2>9, ReleaseTypes DEF RequeueRateLimited, WorkerPc
    <3>2. pending' \subseteq Projects /\ RunType'
      BY <2>9, RequeueTypes DEF RequeueRateLimited
    <3> QED BY <2>9, <3>1, <3>2 DEF RequeueRateLimited, Requeue, TypeOK, LocalTypes, RunType
  <2>10. CASE RequeueStopping(w)
    <3>1. LocalTypes' /\ PcInv'
      BY <2>10, ReleaseTypes DEF RequeueStopping, WorkerPc
    <3>2. pending' \subseteq Projects /\ RunType'
      BY <2>10, RequeueTypes DEF RequeueStopping
    <3> QED BY <2>10, <3>1, <3>2 DEF RequeueStopping, Requeue, TypeOK, LocalTypes, RunType
  <2>11. CASE RequeueUnrecorded(w)
    <3>1. LocalTypes' /\ PcInv'
      BY <2>11, ReleaseTypes DEF RequeueUnrecorded, WorkerPc
    <3>2. pending' \subseteq Projects /\ RunType'
      BY <2>11, RequeueTypes DEF RequeueUnrecorded
    <3> QED BY <2>11, <3>1, <3>2 DEF RequeueUnrecorded, Requeue, TypeOK, LocalTypes, RunType
  <2>12. CASE SetPause(w)
    BY <2>12 DEF SetPause, TypeOK, PcInv, WorkerPc
  <2> QED BY <1>w, <2>1, <2>2, <2>3, <2>4, <2>5, <2>6, <2>7, <2>8, <2>9,
             <2>10, <2>11, <2>12 DEF WorkerLoop
<1>f. ASSUME NEW w \in Workers, WorkerFault(w)
      PROVE  TypeOK' /\ PcInv'
  <2>1. CASE PauseUnreadable(w)
    BY <2>1 DEF PauseUnreadable, Fault, TypeOK, PcInv, WorkerPc
  <2>2. CASE RecordFails(w)
    <3>1. LocalTypes' /\ PcInv'
      BY <2>2 DEF RecordFails, TypeOK, LocalTypes, PcInv, WorkerPc
    <3>2. RunType' /\ failures' \subseteq Projects /\ served' \subseteq Projects
      BY <2>2, RecordedTypes DEF RecordFails, TypeOK, RunType
    <3> QED BY <2>2, <3>1, <3>2 DEF RecordFails, Fault, TypeOK, LocalTypes, RunType
  <2>3. CASE TickFails(w)
    <3>1. LocalTypes' /\ PcInv'
      BY <2>3, ReleaseTypes DEF TickFails, WorkerPc
    <3>2. pending' \subseteq Projects
      BY <2>3 DEF TickFails, TypeOK, PcInv
    <3>3. RunType'
      BY <2>3 DEF TickFails, TypeOK, RunType
    <3> QED BY <2>3, <3>1, <3>2, <3>3 DEF TickFails, Fault, TypeOK, LocalTypes, RunType
  <2>4. CASE Stop(w)
    <3>1. LocalTypes' /\ PcInv'
      <4>1. CASE pc[w] = "exec"
        BY <2>4, <4>1 DEF Stop, TypeOK, LocalTypes, PcInv, WorkerPc
      <4>2. CASE pc[w] # "exec"
        BY <2>4, <4>2, ReleaseTypes DEF Stop, WorkerPc
      <4> QED BY <4>1, <4>2
    <3> QED BY <2>4, <3>1 DEF Stop, Fault, TypeOK, LocalTypes
  <2>5. CASE Crash(w)
    <3>1. LocalTypes' /\ PcInv'
      BY <2>5, ReleaseTypes DEF Crash, WorkerPc
    <3> QED BY <2>5, <3>1 DEF Crash, Fault, TypeOK, LocalTypes
  <2>6. CASE Restart(w)
    BY <2>6 DEF Restart, TypeOK, PcInv, WorkerPc
  <2> QED BY <1>f, <2>1, <2>2, <2>3, <2>4, <2>5, <2>6 DEF WorkerFault
<1>p. ASSUME NEW p \in Procs, FinalizeCheck(p) \/ Finish(p)
      PROVE  TypeOK' /\ PcInv'
  BY <1>p DEF FinalizeCheck, Finish, TypeOK, PcInv, WorkerPc, AdminPc
<1>k. CASE PauseExpires \/ LockExpires
  <2>1. CASE PauseExpires
    <3>1. paused' \in BOOLEAN
      BY <2>1 DEF PauseExpires
    <3>2. PcInv'
      BY <2>1 DEF PauseExpires, PcInv
    <3> QED BY <2>1, <3>1, <3>2 DEF PauseExpires, TypeOK
  <2>2. CASE LockExpires
    <3>1. PcInv'
      BY <2>2 DEF LockExpires, PcInv
    <3> QED BY <2>2, <3>1 DEF LockExpires, Fault, TypeOK
  <2> QED BY <1>k, <2>1, <2>2
<1> QED BY <1>0, <1>a, <1>w, <1>f, <1>p, <1>k DEF Next

\* Every reachable state is well typed.
THEOREM TypeCorrect == Spec => []TypeOK
<1>1. Init => TypeOK /\ PcInv
  BY InitTypes
<1>2. (TypeOK /\ PcInv) /\ [Next]_vars => (TypeOK /\ PcInv)'
  BY StepTypes
<1> QED BY <1>1, <1>2, PTL DEF Spec

-----------------------------------------------------------------------------
(* Exclusive checkout.                                                     *)

\* Steps that only take projects away keep every project in one place.
LEMMA ShrinkKeepsSeed ==
    ASSUME TypeOK, SeedInv, lastRun' = lastRun, pending' \subseteq pending,
           \A w \in Workers : item'[w] \in {item[w], NoProject},
           \A a \in Admins : req'[a].left \subseteq req[a].left
    PROVE  SeedInv'
<1>1. NoProject \notin pending /\ \A a \in Admins : NoProject \notin req[a].left
  BY ConstantsAssumption DEF TypeOK
<1>2. CASE lastRun = 0
  BY <1>1, <1>2 DEF SeedInv
<1>3. CASE lastRun # 0
  BY <1>1, <1>3 DEF SeedInv
<1> QED BY <1>2, <1>3

\* A worker that hands its project back moves it from one place to another.
LEMMA ReturnKeepsSeed ==
    ASSUME TypeOK, SeedInv, NEW w \in Workers, item[w] \in Projects,
           pending' = pending \cup {item[w]},
           item' = [item EXCEPT ![w] = NoProject],
           req' = req, lastRun' = lastRun
    PROVE  SeedInv'
<1>1. NoProject \notin pending' /\ \A a \in Admins : NoProject \notin req[a].left
  BY ConstantsAssumption DEF TypeOK
<1>2. item[w] # NoProject
  BY ConstantsAssumption
<1>3. \A v \in Workers : item'[v] = IF v = w THEN NoProject ELSE item[v]
  BY DEF TypeOK
<1>4. lastRun # 0
  BY <1>2 DEF SeedInv
<1> QED BY <1>1, <1>2, <1>3, <1>4 DEF SeedInv

LEMMA InitSeed == Init => SeedInv
  BY DEF Init, SeedInv, NoRequest

\* Every step keeps every project of the first run in one place.
LEMMA StepSeed == TypeOK /\ PcInv /\ SeedInv /\ [Next]_vars => SeedInv'
<1> SUFFICES ASSUME TypeOK, PcInv, SeedInv, [Next]_vars
             PROVE  SeedInv'
  OBVIOUS
<1> USE ConstantsAssumption DEF valkey, local, history
<1> DEFINE Frame == /\ pending' \subseteq pending /\ item' = item /\ req' = req
                    /\ lastRun' = lastRun
<1>fr. ASSUME Frame PROVE SeedInv'
  BY <1>fr, ShrinkKeepsSeed
<1>rel. ASSUME NEW w \in Workers, NEW label, Release(w, label),
               pending' = pending, lastRun' = lastRun
        PROVE  SeedInv'
  <2>1. \A v \in Workers : item'[v] \in {item[v], NoProject}
    BY <1>rel DEF Release, TypeOK
  <2> QED BY <1>rel, <2>1, ShrinkKeepsSeed DEF Release
<1>ret. ASSUME NEW w \in Workers, NEW label, Release(w, label), pc[w] \in Holding,
               pending' = pending \cup {item[w]}, lastRun' = lastRun
        PROVE  SeedInv'
  <2>1. item[w] \in Projects
    BY <1>ret DEF PcInv, TypeOK
  <2> QED BY <1>ret, <2>1, ReturnKeepsSeed DEF Release
<1>0. CASE UNCHANGED vars
  BY <1>0, <1>fr DEF vars
<1>a. ASSUME NEW a \in Admins, AdminStep(a)
      PROVE  SeedInv'
  <2>1. CASE StartLock(a)
    <3>1. PICK all \in {Projects, {}} :
              req' = [req EXCEPT ![a] = [rid |-> lastRun + 1, all |-> all,
                                         left |-> all]]
      BY <2>1 DEF StartLock
    <3>2. lastRun' = lastRun + 1 /\ pending' = pending /\ item' = item
      BY <2>1 DEF StartLock
    <3>3. CASE lastRun = 0
      <4>1. /\ pending = {}
            /\ \A w \in Workers : item[w] = NoProject
            /\ \A b \in Admins : b # a => req'[b].left = {}
            /\ req'[a].left = all
        BY <3>1, <3>3 DEF SeedInv, TypeOK
      <4>2. NoProject \notin all
        BY <3>1
      <4> QED BY <3>2, <3>3, <4>1, <4>2 DEF SeedInv
    <3>4. CASE lastRun # 0
      <4>1. lastRun' > 1 /\ lastRun' \in Int
        BY <3>2, <3>4 DEF TypeOK
      <4> QED BY <4>1 DEF SeedInv
    <3> QED BY <3>3, <3>4
  <2>2. CASE StartDelete(a)
    BY <2>2, <1>fr DEF StartDelete
  <2>3. CASE StartSeed(a)
    <3>1. PICK chunk \in SUBSET req[a].left :
              /\ pending' = pending \cup chunk
              /\ req' = [req EXCEPT ![a].left = @ \ chunk]
      BY <2>3 DEF StartSeed
    <3>2. item' = item /\ lastRun' = lastRun
      BY <2>3 DEF StartSeed
    <3>3. \A b \in Admins :
              req'[b].left = IF b = a THEN req[a].left \ chunk ELSE req[b].left
      BY <3>1 DEF TypeOK
    <3>4. CASE lastRun = 0
      BY <3>1, <3>2, <3>3, <3>4 DEF SeedInv
    <3>5. CASE lastRun = 1
      <4>1. \A b \in Admins : b # a => req[b].left \cap chunk = {}
        BY <3>1, <3>5 DEF SeedInv
      <4> QED BY <3>1, <3>2, <3>3, <3>5, <4>1 DEF SeedInv
    <3>6. CASE lastRun > 1
      BY <3>2, <3>6 DEF SeedInv, TypeOK
    <3> QED BY <3>4, <3>5, <3>6 DEF TypeOK
  <2>4. ASSUME StartHset(a) \/ RequestAborts(a)
        PROVE  SeedInv'
    <3>1. \A b \in Admins : req'[b].left \subseteq req[b].left
      <4>1. req' = [req EXCEPT ![a] = NoRequest] /\ NoRequest.left = {}
        BY <2>4 DEF StartHset, RequestAborts, NoRequest
      <4> QED BY <4>1 DEF TypeOK
    <3> QED BY <2>4, <3>1, ShrinkKeepsSeed DEF StartHset, RequestAborts
  <2>5. CASE CancelExists(a) \/ CancelReadState(a) \/ CancelDelete(a) \/ CancelFinish(a)
    BY <2>5, <1>fr DEF CancelExists, CancelReadState, CancelDelete, CancelFinish
  <2> QED BY <1>a, <2>1, <2>2, <2>3, <2>4, <2>5 DEF AdminStep
<1>w. ASSUME NEW w \in Workers, WorkerLoop(w)
      PROVE  SeedInv'
  <2>1. CASE HasActiveRun(w) \/ CheckPause(w) \/ CheckoutCount(w)
             \/ ExecuteDone(w) \/ ExecuteRateLimited(w) \/ CountFailures(w)
             \/ SetPause(w)
    BY <2>1, <1>fr DEF HasActiveRun, CheckPause, CheckoutCount, ExecuteDone,
       ExecuteRateLimited, CountFailures, SetPause
  <2>2. CASE CheckoutPop(w)
    <3>1. CASE pending = {} /\ UNCHANGED <<pending, item>>
      BY <2>2, <3>1, <1>fr DEF CheckoutPop
    <3>2. ASSUME NEW p \in pending, pending' = pending \ {p},
                 item' = [item EXCEPT ![w] = p]
          PROVE  SeedInv'
      <4>1. \A v \in Workers : item'[v] = IF v = w THEN p ELSE item[v]
        BY <3>2 DEF TypeOK
      <4>2. req' = req /\ lastRun' = lastRun /\ lastRun # 0
        BY <2>2 DEF CheckoutPop, SeedInv
      <4> QED BY <3>2, <4>1, <4>2 DEF SeedInv
    <3> QED BY <2>2, <3>1, <3>2 DEF CheckoutPop
  <2>3. CASE RecordOutcome(w)
    BY <2>3, <1>rel DEF RecordOutcome
  <2>4. CASE RequeueRateLimited(w) \/ RequeueStopping(w) \/ RequeueUnrecorded(w)
    BY <2>4, <1>ret DEF RequeueRateLimited, RequeueStopping, RequeueUnrecorded,
       Requeue, Holding
  <2> QED BY <1>w, <2>1, <2>2, <2>3, <2>4 DEF WorkerLoop
<1>f. ASSUME NEW w \in Workers, WorkerFault(w)
      PROVE  SeedInv'
  <2>1. CASE PauseUnreadable(w) \/ RecordFails(w) \/ Restart(w)
    BY <2>1, <1>fr DEF PauseUnreadable, RecordFails, Restart
  <2>2. CASE TickFails(w)
    <3>1. CASE pending' = pending
      BY <2>2, <3>1, <1>rel DEF TickFails
    <3>2. CASE pc[w] \in {"requeue", "compensate"} /\ pending' = pending \cup {item[w]}
      BY <2>2, <3>2, <1>ret DEF TickFails, Holding
    <3> QED BY <2>2, <3>1, <3>2 DEF TickFails
  <2>3. CASE Stop(w)
    BY <2>3, <1>fr, <1>rel DEF Stop
  <2>4. CASE Crash(w)
    BY <2>4, <1>rel DEF Crash
  <2> QED BY <1>f, <2>1, <2>2, <2>3, <2>4 DEF WorkerFault
<1>p. ASSUME NEW p \in Procs, FinalizeCheck(p) \/ Finish(p)
      PROVE  SeedInv'
  BY <1>p, <1>fr DEF FinalizeCheck, Finish
<1>k. CASE PauseExpires \/ LockExpires
  BY <1>k, <1>fr DEF PauseExpires, LockExpires
<1> QED BY <1>0, <1>a, <1>w, <1>f, <1>p, <1>k DEF Next

\* No project of the first run is ever in two hands, whatever faults happen.
THEOREM Exclusive == Spec => []ExclusiveCheckout
<1>1. Init => IInv
  BY InitTypes, InitSeed DEF IInv
<1>2. IInv /\ [Next]_vars => IInv'
  BY StepTypes, StepSeed DEF IInv
<1>3. IInv => ExclusiveCheckout
  <2> SUFFICES ASSUME IInv, lastRun <= 1
               PROVE  /\ pending \cap Held = {}
                      /\ \A v, w \in Workers :
                            v # w /\ item[v] # NoProject => item[v] # item[w]
    BY DEF ExclusiveCheckout
  <2> QED BY DEF IInv, SeedInv, Held
<1> QED BY <1>1, <1>2, <1>3, PTL DEF Spec

-----------------------------------------------------------------------------
(* The bound on failure detail.                                            *)

\* Workers that have read HLEN and will still add an entry.
Adding == {w \in Workers : pc[w] = "record" /\ outcome[w].detail}

\* An entry in the hash is paid for by the cap or by the worker that adds it.
DetailInv ==
    Cardinality(failures) + Cardinality(Adding) <= MaxDetails - 1 + Cardinality(Workers)

LEMMA FiniteSets == ASSUME TypeOK
    PROVE  /\ IsFiniteSet(failures) /\ IsFiniteSet(Adding)
           /\ Cardinality(failures) \in Nat /\ Cardinality(Adding) \in Nat
           /\ Cardinality(Workers) \in Nat
           /\ Cardinality(Adding) <= Cardinality(Workers)
<1>1. failures \subseteq Projects /\ Adding \subseteq Workers
  BY DEF TypeOK, Adding
<1> QED BY <1>1, ConstantsAssumption, FS_Subset, FS_CardinalityType

\* A step that adds no failure and no worker about to add one.
LEMMA DetailShrinks ==
    ASSUME TypeOK, TypeOK', DetailInv, failures' = failures \/ failures' = {},
           Adding' \subseteq Adding
    PROVE  DetailInv'
<1>1. Cardinality(Adding') <= Cardinality(Adding)
  BY FiniteSets, FS_Subset
<1>2. Cardinality(failures') <= Cardinality(failures)
  BY FiniteSets, FS_EmptySet
<1>3. Cardinality(Adding') \in Nat /\ Cardinality(failures') \in Nat
  BY FiniteSets, FS_Subset, FS_CardinalityType, FS_EmptySet
<1> QED BY <1>1, <1>2, <1>3, FiniteSets, ConstantsAssumption DEF DetailInv

\* A worker that writes its entry stops being about to add one.
LEMMA DetailMoves ==
    ASSUME TypeOK, TypeOK', DetailInv, NEW w \in Adding,
           Adding' \subseteq Adding \ {w}, failures' = failures \cup {item[w]}
    PROVE  DetailInv'
<1>1. Cardinality(Adding \ {w}) = Cardinality(Adding) - 1
  BY FiniteSets, FS_RemoveElement
<1>2. IsFiniteSet(Adding \ {w})
  BY FiniteSets, FS_Subset
<1>3. Cardinality(Adding') <= Cardinality(Adding) - 1 /\ Cardinality(Adding') \in Nat
  BY <1>1, <1>2, FS_Subset, FS_CardinalityType
<1>4. Cardinality(failures') <= Cardinality(failures) + 1 /\ Cardinality(failures') \in Nat
  <2> DEFINE F == failures
             i == item[w]
  <2>1. IsFiniteSet(F) /\ Cardinality(F) \in Nat
    BY FiniteSets
  <2> HIDE DEF F, i
  <2>2. /\ Cardinality(F \cup {i}) \in Nat
        /\ Cardinality(F \cup {i}) = Cardinality(F) \/ Cardinality(F \cup {i}) = Cardinality(F) + 1
    BY <2>1, FS_AddElement, FS_CardinalityType
  <2> QED BY <2>1, <2>2 DEF F, i
<1> QED BY <1>3, <1>4, FiniteSets, ConstantsAssumption DEF DetailInv

\* A worker that has just seen room for an entry.
LEMMA DetailRoom ==
    ASSUME TypeOK, TypeOK', failures' = failures,
           Cardinality(failures) < MaxDetails
    PROVE  DetailInv'
<1>1. /\ Cardinality(Adding') <= Cardinality(Workers)
      /\ Cardinality(Adding') \in Nat
  <2>1. Adding' \subseteq Workers
    BY DEF Adding
  <2> QED BY <2>1, ConstantsAssumption, FS_Subset, FS_CardinalityType
<1> QED BY <1>1, FiniteSets, ConstantsAssumption DEF DetailInv

LEMMA InitDetail == Init => DetailInv
<1> SUFFICES ASSUME Init PROVE DetailInv
  OBVIOUS
<1>1. Adding = {} /\ failures = {}
  BY DEF Init, Adding, Procs
<1>2. Cardinality({}) = 0 /\ Cardinality(Workers) \in Nat
  BY FS_EmptySet, FS_CardinalityType, ConstantsAssumption
<1> QED BY <1>1, <1>2, ConstantsAssumption DEF DetailInv

\* Every step keeps the entries within what the cap and the workers pay for.
LEMMA StepDetail ==
    TypeOK /\ TypeOK' /\ PcInv /\ DetailInv /\ [Next]_vars => DetailInv'
<1> SUFFICES ASSUME TypeOK, TypeOK', PcInv, DetailInv, [Next]_vars
             PROVE  DetailInv'
  OBVIOUS
<1> USE ConstantsAssumption DEF valkey, local, history, Procs, Goto
<1>rel. ASSUME NEW w \in Workers, NEW label, label # "record", Release(w, label)
        PROVE  Adding' \subseteq Adding \ {w}
  BY <1>rel DEF Release, Adding, TypeOK
<1>0. CASE UNCHANGED vars
  BY <1>0, DetailShrinks DEF vars, Adding
<1>a. ASSUME NEW a \in Admins, AdminStep(a)
      PROVE  DetailInv'
  <2>1. outcome' = outcome /\ \A w \in Workers : pc'[w] = pc[w]
    BY <1>a DEF AdminStep, StartLock, StartDelete, StartSeed, StartHset,
       RequestAborts, CancelExists, CancelReadState, CancelDelete, CancelFinish, TypeOK
  <2>2. failures' = failures \/ failures' = {}
    BY <1>a DEF AdminStep, StartLock, StartDelete, StartSeed, StartHset,
       RequestAborts, CancelExists, CancelReadState, CancelDelete, CancelFinish
  <2> QED BY <2>1, <2>2, DetailShrinks DEF Adding
<1>w. ASSUME NEW w \in Workers, WorkerLoop(w)
      PROVE  DetailInv'
  <2>1. CASE HasActiveRun(w) \/ CheckPause(w) \/ CheckoutPop(w)
             \/ CheckoutCount(w) \/ ExecuteRateLimited(w) \/ SetPause(w)
    <3>1. failures' = failures /\ outcome' = outcome
      BY <2>1 DEF HasActiveRun, CheckPause, CheckoutPop, CheckoutCount,
         ExecuteRateLimited, SetPause
    <3>2. Adding' \subseteq Adding
      BY <2>1, <3>1 DEF HasActiveRun, CheckPause, CheckoutPop, CheckoutCount,
         ExecuteRateLimited, SetPause, Adding, TypeOK
    <3> QED BY <3>1, <3>2, DetailShrinks
  <2>2. CASE ExecuteDone(w)
    <3>1. failures' = failures /\ Adding' \subseteq Adding
      BY <2>2 DEF ExecuteDone, Adding, TypeOK
    <3> QED BY <3>1, DetailShrinks
  <2>3. CASE CountFailures(w)
    <3>1. failures' = failures
      BY <2>3 DEF CountFailures
    <3>2. CASE Cardinality(failures) < MaxDetails
      BY <3>1, <3>2, DetailRoom
    <3>3. CASE ~(Cardinality(failures) < MaxDetails)
      <4>1. Adding' \subseteq Adding
        BY <2>3, <3>3 DEF CountFailures, Adding, TypeOK
      <4> QED BY <3>1, <4>1, DetailShrinks
    <3> QED BY <3>2, <3>3
  <2>4. CASE RecordOutcome(w)
    <3>1. Adding' \subseteq Adding \ {w}
      BY <2>4, <1>rel DEF RecordOutcome
    <3>2. CASE outcome[w].detail
      <4>1. w \in Adding /\ failures' = failures \cup {item[w]}
        BY <2>4, <3>2 DEF RecordOutcome, Recorded, Adding
      <4> QED BY <3>1, <4>1, DetailMoves
    <3>3. CASE ~outcome[w].detail
      BY <2>4, <3>1, <3>3, DetailShrinks DEF RecordOutcome, Recorded
    <3> QED BY <3>2, <3>3
  <2>5. CASE RequeueRateLimited(w) \/ RequeueStopping(w) \/ RequeueUnrecorded(w)
    BY <2>5, <1>rel, DetailShrinks DEF RequeueRateLimited, RequeueStopping,
       RequeueUnrecorded, Requeue
  <2> QED BY <1>w, <2>1, <2>2, <2>3, <2>4, <2>5 DEF WorkerLoop
<1>f. ASSUME NEW w \in Workers, WorkerFault(w)
      PROVE  DetailInv'
  <2>1. CASE PauseUnreadable(w) \/ Restart(w)
    BY <2>1, DetailShrinks DEF PauseUnreadable, Restart, Adding, TypeOK
  <2>2. CASE RecordFails(w)
    <3>1. Adding' \subseteq Adding \ {w}
      BY <2>2 DEF RecordFails, Adding, TypeOK
    <3>2. CASE failures' = failures
      BY <3>1, <3>2, DetailShrinks
    <3>3. CASE failures' # failures
      <4>1. w \in Adding /\ failures' = failures \cup {item[w]}
        BY <2>2, <3>3 DEF RecordFails, Recorded, Adding
      <4> QED BY <3>1, <4>1, DetailMoves
    <3> QED BY <3>2, <3>3
  <2>3. CASE TickFails(w) \/ Crash(w)
    BY <2>3, <1>rel, DetailShrinks DEF TickFails, Crash
  <2>4. CASE Stop(w)
    <3>1. failures' = failures
      BY <2>4 DEF Stop
    <3>2. CASE pc[w] = "exec"
      BY <2>4, <3>1, <3>2, DetailShrinks DEF Stop, Adding, TypeOK
    <3>3. CASE pc[w] # "exec"
      BY <2>4, <3>1, <3>3, <1>rel, DetailShrinks DEF Stop
    <3> QED BY <3>2, <3>3
  <2> QED BY <1>f, <2>1, <2>2, <2>3, <2>4 DEF WorkerFault
<1>p. ASSUME NEW p \in Procs, FinalizeCheck(p) \/ Finish(p)
      PROVE  DetailInv'
  <2>1. failures' = failures /\ Adding' \subseteq Adding
    BY <1>p DEF FinalizeCheck, Finish, Adding, TypeOK
  <2> QED BY <2>1, DetailShrinks
<1>k. CASE PauseExpires \/ LockExpires
  BY <1>k, DetailShrinks DEF PauseExpires, LockExpires, Adding
<1> QED BY <1>0, <1>a, <1>w, <1>f, <1>p, <1>k DEF Next

\* The cap on failure detail is exceeded by less than one entry per instance.
THEOREM DetailBound == Spec => []FailureDetailBound
<1> DEFINE I == TypeOK /\ PcInv /\ DetailInv
<1>1. Init => I
  BY InitTypes, InitDetail
<1>2. I /\ [Next]_vars => I'
  BY StepTypes, StepDetail
<1>3. I => FailureDetailBound
  BY FiniteSets, ConstantsAssumption DEF DetailInv, FailureDetailBound
<1> QED BY <1>1, <1>2, <1>3, PTL DEF Spec
-----------------------------------------------------------------------------
(* Held locks and lost projects.                                           *)

\* No request is between the DEL and the finish of a cancel.
Uncancelled == \A a \in Admins : pc[a] # "c_finish"

\* Without a fault a lock that is held is the last start's, and somebody is
\* starting that run or it runs.  Without an overlap one request starts.
LockInv ==
    faults = 0 =>
      /\ lock \in {0, lastRun}
      /\ run.id <= lastRun /\ \A a \in Starting : req[a].rid <= lastRun
      /\ lock # 0 /\ Starting = {} => run.state = "running" /\ (run.id = lock \/ overlapped)
      /\ ~overlapped =>
           /\ \A a, b \in Starting : a = b
           /\ \A a \in Starting : req[a].rid = lastRun /\ run.id < lastRun

\* The projects that are in some place.
Play == pending \cup Held \cup served

\* Without a fault or an overlap, what a start has seeded stays in play as long as its
\* lock is held.
KeptInv ==
    faults = 0 /\ ~overlapped =>
      /\ \A a \in Starting :
           /\ req[a].all \in {Projects, {}}
           /\ pc[a] = "delete" => req[a].left = req[a].all
           /\ pc[a] = "hset" => req[a].left = {}
           /\ pc[a] # "delete" /\ lock # 0 /\ Uncancelled =>
                req[a].all \subseteq Play \cup req[a].left
      /\ run.state = "running" /\ lock = run.id /\ run.total > 0 /\ Uncancelled =>
           Projects \subseteq Play

LEMMA InitLock == Init => LockInv /\ KeptInv
BY DEF Init, LockInv, KeptInv, Starting, EmptyRun, Procs

\* The steps of a worker, and a finalisation that does not write.
Works ==
    \/ \E w \in Workers : WorkerLoop(w) \/ Restart(w)
    \/ \E p \in Procs : FinalizeCheck(p)
    \/ PauseExpires
    \/ UNCHANGED vars

\* They leave the lock and the requests alone, and of the run change the counters.
LEMMA WorksAside ==
    ASSUME TypeOK, PcInv, Works
    PROVE  /\ UNCHANGED <<lock, req, lastRun, overlapped, faults>>
           /\ run'.id = run.id /\ run'.state = run.state /\ run'.total = run.total
           /\ Starting' = Starting
           /\ \A a \in Starting : pc'[a] = pc[a]
           /\ \A a \in Admins : pc'[a] = "c_finish" <=> pc[a] = "c_finish"
<1> USE ConstantsAssumption DEF valkey, local, history, Procs, Goto, Starting
<1>1. ASSUME NEW w \in Workers, WorkerLoop(w) \/ Restart(w)
      PROVE  /\ UNCHANGED <<lock, req, lastRun, overlapped, faults>>
             /\ \A a \in Admins : pc'[a] = pc[a]
  BY <1>1 DEF WorkerLoop, HasActiveRun, CheckPause, CheckoutPop, CheckoutCount, ExecuteDone,
     ExecuteRateLimited, CountFailures, RecordOutcome, RequeueRateLimited, RequeueStopping,
     RequeueUnrecorded, SetPause, Restart, Release, Requeue, TypeOK
<1>2. ASSUME NEW w \in Workers, WorkerLoop(w) \/ Restart(w)
      PROVE  run'.id = run.id /\ run'.state = run.state /\ run'.total = run.total
  <2>1. CASE CheckoutCount(w)
    BY <2>1 DEF CheckoutCount, TypeOK
  <2>2. CASE RequeueRateLimited(w) \/ RequeueStopping(w) \/ RequeueUnrecorded(w)
    BY <2>2 DEF RequeueRateLimited, RequeueStopping, RequeueUnrecorded, Requeue, TypeOK
  <2>3. CASE RecordOutcome(w)
    <3>1. outcome[w].kind \in Outcomes
      BY <2>3 DEF RecordOutcome, PcInv
    <3>2. outcome[w].kind \notin {"id", "state", "total"}
      BY <3>1 DEF Outcomes
    <3> QED BY <2>3, <3>2 DEF RecordOutcome, Recorded, TypeOK
  <2> QED BY <1>2, <2>1, <2>2, <2>3 DEF WorkerLoop, HasActiveRun, CheckPause, CheckoutPop,
     ExecuteDone, ExecuteRateLimited, CountFailures, SetPause, Restart
<1>3. CASE \E w \in Workers : WorkerLoop(w) \/ Restart(w)
  BY <1>1, <1>2, <1>3
<1>4. CASE \E p \in Procs : FinalizeCheck(p)
  BY <1>4 DEF FinalizeCheck, TypeOK
<1>5. CASE PauseExpires \/ UNCHANGED vars
  BY <1>5 DEF PauseExpires, vars
<1> QED BY <1>3, <1>4, <1>5 DEF Works

\* They take no project out of play: it is popped into a hand, handed back, or served.
LEMMA WorksKeepPlay ==
    ASSUME TypeOK, PcInv, Works
    PROVE  Play \subseteq Play'
<1> USE ConstantsAssumption DEF valkey, local, history, Procs, Goto, Play, Held
<1>1. ASSUME NEW w \in Workers, CheckoutPop(w)
      PROVE  Play \subseteq Play'
  <2>1. CASE UNCHANGED <<pending, item>>
    BY <1>1, <2>1 DEF CheckoutPop
  <2>2. ASSUME NEW p \in pending, pending' = pending \ {p}, item' = [item EXCEPT ![w] = p]
        PROVE  Play \subseteq Play'
    <3>1. item[w] = NoProject /\ p # NoProject /\ served' = served
      BY <1>1 DEF CheckoutPop, PcInv, Holding, TypeOK
    <3>2. \A v \in Workers : item'[v] = IF v = w THEN p ELSE item[v]
      BY <2>2 DEF TypeOK
    <3> QED BY <2>2, <3>1, <3>2
  <2> QED BY <1>1, <2>1, <2>2 DEF CheckoutPop
<1>2. ASSUME NEW w \in Workers, RecordOutcome(w)
      PROVE  Play \subseteq Play'
  <2>1. /\ pending' = pending /\ served' = served \cup {item[w]}
        /\ \A v \in Workers : item'[v] = IF v = w THEN NoProject ELSE item[v]
    BY <1>2 DEF RecordOutcome, Recorded, Release, TypeOK
  <2> QED BY <2>1
<1>3. ASSUME NEW w \in Workers,
             RequeueRateLimited(w) \/ RequeueStopping(w) \/ RequeueUnrecorded(w)
      PROVE  Play \subseteq Play'
  <2>1. /\ pending' = pending \cup {item[w]} /\ served' = served
        /\ \A v \in Workers : item'[v] = IF v = w THEN NoProject ELSE item[v]
    BY <1>3 DEF RequeueRateLimited, RequeueStopping, RequeueUnrecorded, Requeue, Release, TypeOK
  <2> QED BY <2>1
<1>4. ASSUME NEW w \in Workers,
             \/ HasActiveRun(w) \/ CheckPause(w) \/ CheckoutCount(w) \/ ExecuteDone(w)
             \/ ExecuteRateLimited(w) \/ CountFailures(w) \/ SetPause(w) \/ Restart(w)
      PROVE  Play \subseteq Play'
  BY <1>4 DEF HasActiveRun, CheckPause, CheckoutCount, ExecuteDone, ExecuteRateLimited,
     CountFailures, SetPause, Restart
<1>5. CASE (\E p \in Procs : FinalizeCheck(p)) \/ PauseExpires \/ UNCHANGED vars
  BY <1>5 DEF FinalizeCheck, PauseExpires, vars
<1> QED BY <1>1, <1>2, <1>3, <1>4, <1>5 DEF Works, WorkerLoop

\* The workers keep both invariants.
LEMMA WorksKeep ==
    ASSUME TypeOK, PcInv, LockInv, KeptInv, Works
    PROVE  LockInv' /\ KeptInv'
<1>1. LockInv'
  BY WorksAside DEF LockInv
<1>2. KeptInv'
  <2>1. Play \subseteq Play'
    BY WorksKeepPlay
  <2>2. Uncancelled' <=> Uncancelled
    BY WorksAside DEF Uncancelled
  <2> QED BY <2>1, <2>2, WorksAside DEF KeptInv
<1> QED BY <1>1, <1>2

\* A fault makes both hold trivially.
LEMMA FaultKeeps ==
    ASSUME TypeOK, faults' = faults + 1
    PROVE  LockInv' /\ KeptInv'
<1>1. faults' # 0
  BY DEF TypeOK
<1> QED BY <1>1 DEF LockInv, KeptInv

\* Finishing frees the lock, completed or cancelled.
LEMMA FreedKeeps ==
    ASSUME TypeOK, LockInv, KeptInv, NEW p \in Procs, NEW state \in {"completed", "cancelled"},
           pc[p] \in {"finish", "c_finish"}, Goto(p, "idle"),
           run' = [run EXCEPT !.state = state], lock' = 0,
           UNCHANGED <<pending, failures, paused, local, history>>
    PROVE  LockInv' /\ KeptInv'
<1>1. Starting' = Starting /\ \A a \in Starting : pc'[a] = pc[a]
  BY DEF Starting, Goto, TypeOK
<1>2. run'.id = run.id /\ run'.state = state
  BY DEF TypeOK
<1>3. LockInv'
  BY <1>1, <1>2 DEF LockInv, local, history
<1>4. KeptInv'
  BY <1>1, <1>2 DEF KeptInv, local, history
<1> QED BY <1>3, <1>4

\* A start takes a free lock under a new id, and seeds before it reports the run.
LEMMA StartKeeps ==
    ASSUME TypeOK, LockInv, KeptInv, faults = 0, NEW a \in Admins,
           StartLock(a) \/ StartDelete(a) \/ StartSeed(a) \/ StartHset(a)
    PROVE  LockInv' /\ KeptInv'
<1> USE ConstantsAssumption DEF Goto, Procs, Starting, local, history
<1>0. \A w \in Workers : w \notin Admins
  OBVIOUS
<1>1. CASE StartLock(a)
  <2>1. PICK all \in {Projects, {}} :
            req' = [req EXCEPT ![a] = [rid |-> lastRun + 1, all |-> all, left |-> all]]
    BY <1>1 DEF StartLock
  <2>2. /\ req'[a] = [rid |-> lastRun + 1, all |-> all, left |-> all]
        /\ pc'[a] = "delete" /\ Starting' = Starting \cup {a}
        /\ lastRun \in Nat /\ run.id <= lastRun /\ run.id \in Nat
    BY <1>1, <2>1 DEF StartLock, TypeOK, LockInv
  <2>3. /\ lock' = lastRun + 1 /\ lastRun' = lastRun + 1 /\ run' = run
        /\ overlapped' = (overlapped \/ Starting # {})
    BY <1>1 DEF StartLock
  <2>4. /\ \A b \in Starting : b # a /\ req'[b] = req[b] /\ pc'[b] = pc[b]
        /\ faults' = faults /\ \A b \in Admins : req[b].rid \in Nat
    BY <1>1, <2>1 DEF StartLock, TypeOK
  <2>a. /\ ~overlapped' => Starting' = {a}
        /\ req'[a].rid = lastRun' /\ req'[a].left = all /\ req'[a].all = all
    <3>1. ~overlapped' => Starting' = {a}
      <4>1. ~overlapped' => Starting = {}
        BY <2>3, Zenon
      <4> HIDE DEF Starting
      <4> QED BY <2>2, <4>1
    <3>2. req'[a].rid = lastRun + 1 /\ req'[a].left = all /\ req'[a].all = all
      BY <2>2
    <3> QED BY <2>3, <3>1, <3>2
  <2>5. LockInv'
    <3>1. lock' \in {0, lastRun'} /\ run'.id <= lastRun' /\ Starting' # {}
      BY <2>2, <2>3
    <3>2. \A b \in Starting' : req'[b].rid <= lastRun'
      BY <2>2, <2>3, <2>4 DEF LockInv
    <3>3. ~overlapped' => Starting' = {a} /\ req'[a].rid = lastRun' /\ run'.id < lastRun'
      BY <2>2, <2>3, <2>a
    <3> QED BY <3>1, <3>2, <3>3 DEF LockInv
  <2>6. KeptInv'
    <3>1. lock' # run'.id
      BY <2>2, <2>3
    <3>2. ~overlapped' => Starting' = {a} /\ req'[a].left = req'[a].all /\ req'[a].all \in {Projects, {}}
      BY <2>a
    <3> QED BY <2>2, <3>1, <3>2 DEF KeptInv
  <2> QED BY <2>5, <2>6
<1>2. CASE StartDelete(a)
  <2>1. /\ a \in Starting /\ Starting' = Starting /\ run'.id = 0 /\ run'.state = "none"
        /\ pc'[a] = IF req[a].all = {} THEN "hset" ELSE "seed"
        /\ lastRun \in Nat /\ run.id \in Nat
        /\ UNCHANGED <<lock, req, lastRun, overlapped, faults>>
    BY <1>2 DEF StartDelete, EmptyRun, TypeOK
  <2>2. LockInv'
    BY <2>1 DEF LockInv
  <2>3. KeptInv'
    <3>1. ~overlapped => \A b \in Starting : b = a
      BY <2>1 DEF LockInv
    <3>2. ~overlapped => req[a].left = req[a].all /\ req[a].all \in {Projects, {}}
      BY <1>2, <2>1 DEF StartDelete, KeptInv
    <3> QED BY <2>1, <3>1, <3>2 DEF KeptInv
  <2> QED BY <2>2, <2>3
<1>3. CASE StartSeed(a)
  <2>1. PICK chunk \in SUBSET req[a].left :
            /\ pending' = pending \cup chunk
            /\ req' = [req EXCEPT ![a].left = @ \ chunk]
            /\ pc' = [pc EXCEPT ![a] = IF req[a].left = chunk THEN "hset" ELSE "seed"]
    BY <1>3 DEF StartSeed
  <2>2. /\ a \in Starting /\ Starting' = Starting
        /\ req'[a].all = req[a].all /\ req'[a].rid = req[a].rid
        /\ req'[a].left = req[a].left \ chunk
        /\ \A b \in Admins : b # a => req'[b] = req[b] /\ pc'[b] = pc[b]
        /\ pc[a] = "seed" /\ pc'[a] \in {"seed", "hset"}
        /\ pc'[a] = "hset" => chunk = req[a].left
    BY <1>3, <2>1 DEF StartSeed, TypeOK
  <2>3. /\ UNCHANGED <<lock, run, lastRun, overlapped, served, faults, item>>
        /\ Play' = Play \cup chunk
    BY <1>3, <2>1 DEF StartSeed, Play, Held
  <2>4. Uncancelled' <=> Uncancelled
    BY <2>2 DEF Uncancelled
  <2>5. LockInv'
    <3>1. \A b \in Admins : req'[b].rid = req[b].rid
      BY <2>2
    <3> QED BY <2>2, <2>3, <3>1 DEF LockInv
  <2>6. KeptInv'
    <3>1. ~overlapped => \A b \in Starting : b = a
      BY <2>2 DEF LockInv
    <3> QED BY <2>2, <2>3, <2>4, <3>1 DEF KeptInv
  <2> QED BY <2>5, <2>6
<1>4. CASE StartHset(a)
  <2>1. /\ a \in Starting /\ Starting' = Starting \ {a}
        /\ \A b \in Admins : b # a => req'[b] = req[b] /\ pc'[b] = pc[b]
        /\ pc[a] = "hset" /\ pc'[a] \in {"fin_check", "idle"}
        /\ UNCHANGED <<lock, lastRun, overlapped, faults>> /\ Play' = Play
    BY <1>4 DEF StartHset, TypeOK, Play, Held
  <2>2. run'.id = req[a].rid /\ run'.state = "running" /\ run'.total = Cardinality(req[a].all)
    BY <1>4 DEF StartHset, EmptyRun
  <2>3. Uncancelled' <=> Uncancelled
    BY <2>1 DEF Uncancelled
  <2>4. req[a].rid <= lastRun
    BY <2>1 DEF LockInv
  <2>5. LockInv'
    BY <2>1, <2>2, <2>4 DEF LockInv
  <2>6. KeptInv'
    <3> SUFFICES ASSUME ~overlapped PROVE KeptInv'
      BY <2>1 DEF KeptInv
    <3>1. Starting = {a} /\ req[a].rid = lastRun /\ run.id < lastRun /\ run.id \in Nat
      BY <2>1 DEF LockInv, TypeOK
    <3>2. req[a].all \in {Projects, {}} /\ req[a].left = {}
      BY <2>1 DEF KeptInv
    <3>3. run'.total > 0 => req[a].all = Projects
      <4>1. run'.total = Cardinality(req[a].all)
        BY <2>2
      <4>2. Cardinality({}) = 0
        BY FS_EmptySet
      <4>3. CASE req[a].all = {}
        BY ONLY <4>1, <4>2, <4>3
      <4> QED BY <3>2, <4>3
    <3>4. lock = run'.id => lock # 0
      BY <2>2, <3>1 DEF TypeOK
    <3>5. lock # 0 /\ Uncancelled => req[a].all \subseteq Play
      BY <2>1, <3>2 DEF KeptInv
    <3> QED BY <2>1, <2>3, <3>1, <3>3, <3>4, <3>5 DEF KeptInv
  <2> QED BY <2>5, <2>6
<1> QED BY <1>1, <1>2, <1>3, <1>4

\* A cancel empties the pending set on its way to freeing the lock.
LEMMA CancelKeeps ==
    ASSUME TypeOK, LockInv, KeptInv, faults = 0, NEW a \in Admins,
           CancelExists(a) \/ CancelReadState(a) \/ CancelDelete(a)
    PROVE  LockInv' /\ KeptInv'
<1> USE ConstantsAssumption DEF Goto, Procs, Starting, valkey, local, history
<1>1. /\ Starting' = Starting /\ \A b \in Starting : pc'[b] = pc[b]
      /\ UNCHANGED <<lock, run, req, lastRun, overlapped, faults>>
  BY DEF CancelExists, CancelReadState, CancelDelete, TypeOK
<1>2. LockInv'
  BY <1>1 DEF LockInv
<1>3. CASE CancelDelete(a)
  <2>1. ~Uncancelled'
    BY <1>3 DEF CancelDelete, Uncancelled, TypeOK
  <2> QED BY <1>1, <1>2, <2>1 DEF KeptInv
<1>4. CASE CancelExists(a) \/ CancelReadState(a)
  <2>1. Play' = Play /\ (Uncancelled' => Uncancelled)
    BY <1>4 DEF CancelExists, CancelReadState, Uncancelled, Play, Held, TypeOK
  <2> QED BY <1>1, <1>2, <2>1 DEF KeptInv
<1> QED BY <1>3, <1>4

\* Every step keeps both.
LEMMA StepLock == TypeOK /\ PcInv /\ LockInv /\ KeptInv /\ [Next]_vars => LockInv' /\ KeptInv'
<1> SUFFICES ASSUME TypeOK, PcInv, LockInv, KeptInv, [Next]_vars
             PROVE  LockInv' /\ KeptInv'
  OBVIOUS
<1>0. CASE faults' = faults + 1
  BY <1>0, FaultKeeps
<1>a. ASSUME NEW a \in Admins, AdminStep(a), faults' # faults + 1
      PROVE  LockInv' /\ KeptInv'
  <2>1. CASE CancelFinish(a)
    BY <2>1, FreedKeeps DEF CancelFinish, Procs
  <2>2. CASE StartLock(a) \/ StartDelete(a) \/ StartSeed(a) \/ StartHset(a)
    <3>1. faults' = faults
      BY <2>2 DEF StartLock, StartDelete, StartSeed, StartHset, history
    <3>2. CASE faults = 0
      BY <2>2, <3>2, StartKeeps
    <3> QED BY <3>1, <3>2 DEF LockInv, KeptInv
  <2>3. CASE CancelExists(a) \/ CancelReadState(a) \/ CancelDelete(a)
    <3>1. faults' = faults
      BY <2>3 DEF CancelExists, CancelReadState, CancelDelete, history
    <3>2. CASE faults = 0
      BY <2>3, <3>2, CancelKeeps
    <3> QED BY <3>1, <3>2 DEF LockInv, KeptInv
  <2>4. CASE RequestAborts(a)
    BY <1>a, <2>4 DEF RequestAborts, Fault
  <2> QED BY <1>a, <2>1, <2>2, <2>3, <2>4 DEF AdminStep
<1>p. ASSUME NEW p \in Procs, Finish(p)
      PROVE  LockInv' /\ KeptInv'
  BY <1>p, FreedKeeps DEF Finish
<1>w. CASE Works
  BY <1>w, WorksKeep
<1>f. ASSUME NEW w \in Workers, WorkerFault(w), faults' # faults + 1
      PROVE  Restart(w)
  BY <1>f DEF WorkerFault, PauseUnreadable, RecordFails, TickFails, Stop, Crash, Fault
<1>k. LockExpires => faults' = faults + 1
  BY DEF LockExpires, Fault
<1> QED BY <1>0, <1>a, <1>p, <1>w, <1>f, <1>k DEF Next, Works

\* LockMeansRunning: without a fault a held lock is never left over from an earlier run.
THEOREM LockHeld == Spec => []LockMeansRunning
<1>1. TypeOK /\ PcInv /\ LockInv /\ KeptInv /\ [Next]_vars => (TypeOK /\ PcInv /\ LockInv /\ KeptInv)'
  BY StepTypes, StepLock
<1>2. LockInv => LockMeansRunning
  BY DEF LockInv, LockMeansRunning
<1> QED BY <1>1, <1>2, InitTypes, InitLock, PTL DEF Spec

\* NoProjectLost: without a fault or an overlap of starts no project of a running run is
\* out of play, however requeues, cancels and late finalisations interleave.
THEOREM NoneLost == Spec => []NoProjectLost
<1>1. TypeOK /\ PcInv /\ LockInv /\ KeptInv /\ [Next]_vars => (TypeOK /\ PcInv /\ LockInv /\ KeptInv)'
  BY StepTypes, StepLock
<1>2. KeptInv => NoProjectLost
  BY DEF KeptInv, NoProjectLost, Uncancelled, Play
<1> QED BY <1>1, <1>2, InitTypes, InitLock, PTL DEF Spec
=============================================================================
