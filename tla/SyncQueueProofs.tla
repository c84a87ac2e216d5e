------------------------- MODULE SyncQueueProofs -------------------------
(***************************************************************************)
(* Proofs about SyncQueue for any number of consumers, requests, projects  *)
(* and jobs, and every fault: types, no job is lost, entries are settled   *)
(* for the right reason, and the steps of the queue are steps of           *)
(* AtLeastOnce.                                                            *)
(***************************************************************************)
EXTENDS SyncQueue, FiniteSetTheorems, WellFoundedInduction, TLAPS

\* Entries that were delivered, and what the queue knows of them.
Known == pel \cup done \cup dlq

\* Control points at which a consumer is at an entry of its batch, and those
\* at which it has begun to run it.
AtEntry == Processing \cup {"check", "dlq_add", "dlq_ack", "ack", "pause"}
Begun == {"sync", "success", "unavailable", "error", "limited", "ack", "pause"}

\* What has been delivered is known, and nothing else is.
StreamInv ==
    /\ StreamTypeOK
    /\ delivered = -1 => base = Last
    /\ delivered # -1 => base <= delivered
    /\ Known \subseteq 1..delivered
    /\ (base + 1)..delivered \subseteq Known
    /\ done \subseteq started /\ started \subseteq Known
    /\ \A j \in dlq : deliveries[j] >= MaxDeliveries

\* What a consumer has in hand agrees with where it is.
WorkerInv(w) ==
    /\ pc[w] \in WorkerPc
    /\ pc[w] \notin {"ensure", "down"} => delivered # -1
    /\ pos[w] \in Nat \ {0} /\ batch[w] \in Seq(Jobs)
    /\ \A i \in 1..Len(batch[w]) : batch[w][i] \in Known
    /\ pc[w] \in AtEntry => pos[w] <= Len(batch[w])
    /\ pc[w] \in Begun => Entry(w) \in started
    /\ pc[w] = "dlq_add" => deliveries[Entry(w)] >= MaxDeliveries
    /\ pc[w] = "dlq_ack" => Entry(w) \in dlq

LocalInv ==
    /\ pc \in [Procs -> WorkerPc \cup RequestPc]
    /\ batch \in [Workers -> Seq(Jobs)] /\ pos \in [Workers -> Nat \ {0}]
    /\ claimed \in [Workers -> BOOLEAN]
    /\ \A w \in Workers : WorkerInv(w)

\* The rest of the types.
PlainTypes ==
    /\ debounce \subseteq Projects
    /\ paused \in BOOLEAN
    /\ status \in [Projects -> States] /\ lead \in [Projects -> -1..MaxSkew]
    /\ req \in [Requests -> RequestLocals]
    /\ hurried \subseteq Requests /\ slipped \subseteq Projects
    /\ faults \in 0..MaxFaults

IInv == StreamInv /\ LocalInv /\ PlainTypes

-----------------------------------------------------------------------------
(* What the operators of ValkeyStream return.                              *)

\* The n lowest numbers of an interval are an interval from its beginning.
LEMMA LowestInterval ==
    ASSUME NEW a \in Nat, NEW b \in Nat, NEW n \in Nat \ {0}, a <= b
    PROVE  \E m \in a..b : /\ Lowest(a..b, n) = a..m
                           /\ Cardinality(Lowest(a..b, n)) = m - a + 1
<1>1. \A x \in a..b : Below(x, a..b) = x - a
  <2> TAKE x \in a..b
  <2>1. {y \in a..b : y < x} = a..(x - 1)
    OBVIOUS
  <2>2. a \in Int /\ x - 1 \in Int
    OBVIOUS
  <2>3. Cardinality(a..(x - 1)) = IF a > x - 1 THEN 0 ELSE (x - 1) - a + 1
    BY <2>2, FS_Interval
  <2>4. Below(x, a..b) = Cardinality(a..(x - 1))
    BY <2>1, Zenon DEF Below
  <2> HIDE DEF Below
  <2> QED BY <2>3, <2>4
<1> DEFINE m == IF b <= a + n - 1 THEN b ELSE a + n - 1
<1>2. m \in a..b
  OBVIOUS
<1>3. Lowest(a..b, n) = a..m
  <2>1. ASSUME NEW x PROVE x \in Lowest(a..b, n) <=> x \in a..b /\ x - a < n
    BY <1>1 DEF Lowest
  <2>2. ASSUME NEW x PROVE x \in a..m <=> x \in a..b /\ x - a < n
    OBVIOUS
  <2> QED BY <2>1, <2>2
<1>4. Cardinality(a..m) = m - a + 1
  <2> HIDE DEF m
  <2> QED BY <1>2, FS_Interval
<1> QED BY <1>2, <1>3, <1>4

\* Whatever S is, Lowest takes something of it.
LEMMA LowestSome ==
    ASSUME NEW S \in SUBSET Nat, S # {}, NEW n \in Nat \ {0}
    PROVE  Lowest(S, n) # {}
<1>1. PICK x \in S : \A y \in S : ~(<<y, x>> \in OpToRel(<, Nat))
  BY NatLessThanWellFounded, WFMin
<1>2. \A y \in S : ~(y < x)
  BY <1>1 DEF OpToRel
<1>3. {y \in S : y < x} = {}
  BY <1>2
<1>4. Below(x, S) = 0
  BY <1>3, FS_EmptySet DEF Below
<1> QED BY <1>4 DEF Lowest

\* A listing of S holds its elements, and one at least unless S is empty.
LEMMA Listing ==
    ASSUME NEW S \in SUBSET Jobs, NEW s \in InOrder(S)
    PROVE  /\ s \in Seq(Jobs)
           /\ \A i \in 1..Len(s) : s[i] \in S
           /\ S # {} => Len(s) >= 1
<1>0. Jobs = 1..MaxJobs /\ MaxJobs \in Nat
  BY StreamAssumption DEF Jobs
<1>1. IsFiniteSet(S)
  <2>1. 1 \in Int /\ MaxJobs \in Int
    BY <1>0
  <2>2. IsFiniteSet(1..MaxJobs)
    BY <2>1, FS_Interval
  <2> QED BY <1>0, <2>2, FS_Subset
<1>2. Cardinality(S) \in Nat /\ (S # {} => Cardinality(S) # 0)
  BY <1>1, FS_CardinalityType, FS_EmptySet
<1> DEFINE n == Cardinality(S)
<1>3. s \in [1..n -> S]
  BY DEF InOrder
<1> HIDE DEF n
<1>4. n \in Nat /\ (S # {} => n >= 1)
  BY <1>2 DEF n
<1>5. s \in Seq(Jobs) /\ Len(s) = n
  BY <1>3, <1>4
<1> QED BY <1>3, <1>4, <1>5

-----------------------------------------------------------------------------
(* The stream, and the consumers that do not move.                         *)

\* What a step may do to the stream: entries stay known, settled and counted.
Progress ==
    /\ StreamInv'
    /\ Known \subseteq Known' /\ started \subseteq started'
    /\ dlq \subseteq dlq'
    /\ \A j \in Jobs : deliveries'[j] >= deliveries[j]
    /\ delivered # -1 => delivered' # -1

LEMMA KnownJobs == ASSUME StreamInv PROVE Known \subseteq Jobs /\ Known \subseteq 1..Last
<1> USE StreamAssumption
<1>1. Last \in Nat /\ Last <= MaxJobs /\ delivered \in Int /\ delivered <= Last
  BY DEF StreamInv, StreamTypeOK, Last
<1> QED BY <1>1 DEF StreamInv, Jobs

\* A consumer that does not move keeps its invariant.
LEMMA Frame ==
    ASSUME StreamInv, Progress, NEW v \in Workers, WorkerInv(v),
           pc'[v] = pc[v], pos'[v] = pos[v], batch'[v] = batch[v]
    PROVE  WorkerInv(v)'
<1> USE DEF Progress
<1>1. \A i \in 1..Len(batch[v]) : batch[v][i] \in Known /\ batch[v][i] \in Known'
  BY DEF WorkerInv
<1>2. pc[v] \in AtEntry => Entry(v) \in Known
  BY <1>1 DEF WorkerInv, Entry
<1>3. Entry(v)' = Entry(v)
  BY DEF Entry
<1>4. pc[v] = "dlq_add" => deliveries'[Entry(v)] >= MaxDeliveries
  <2> SUFFICES ASSUME pc[v] = "dlq_add" PROVE deliveries'[Entry(v)] >= MaxDeliveries
    OBVIOUS
  <2>1. Entry(v) \in Jobs
    BY <1>2, KnownJobs DEF AtEntry
  <2>2. deliveries'[Entry(v)] >= deliveries[Entry(v)]
    BY <2>1
  <2>3. deliveries[Entry(v)] \in Int /\ deliveries'[Entry(v)] \in Int
    BY <2>1 DEF StreamInv, StreamTypeOK
  <2> QED BY <2>2, <2>3, StreamAssumption DEF WorkerInv
<1>5. /\ pc'[v] \in Begun => Entry(v)' \in started'
      /\ pc'[v] = "dlq_ack" => Entry(v)' \in dlq'
  BY <1>3 DEF WorkerInv
<1>6. /\ pc'[v] \in WorkerPc
      /\ pc'[v] \notin {"ensure", "down"} => delivered' # -1
      /\ pos'[v] \in Nat \ {0} /\ batch'[v] \in Seq(Jobs)
      /\ pc'[v] \in AtEntry => pos'[v] <= Len(batch'[v])
  BY DEF WorkerInv
<1> QED BY <1>1, <1>3, <1>4, <1>5, <1>6 DEF WorkerInv

\* Steps that leave the stream alone.
LEMMA StillProgress ==
    ASSUME StreamInv, UNCHANGED <<stream, done, started>>
    PROVE  Progress
<1> SUFFICES ASSUME NEW j \in Jobs PROVE deliveries[j] >= deliveries[j]
  BY DEF Progress, StreamInv, stream, Known, StreamTypeOK, Last
<1> QED BY DEF StreamInv, StreamTypeOK

LEMMA AddProgress ==
    ASSUME StreamInv, NEW p \in Projects, AddEntry(p), UNCHANGED <<done, started>>
    PROVE  Progress /\ Last' = Last + 1
<1> USE StreamAssumption
<1>1. project \in Seq(Projects) /\ Last \in Nat
  BY DEF StreamInv, StreamTypeOK, Last
<1>2. project' \in Seq(Projects) /\ Last' = Last + 1
  BY <1>1 DEF AddEntry, Last
<1>3. StreamTypeOK'
  BY <1>1, <1>2 DEF StreamInv, StreamTypeOK, AddEntry
<1>4. StreamInv'
  BY <1>1, <1>2, <1>3 DEF StreamInv, StreamTypeOK, AddEntry, Known
<1> QED BY SMTT(30), <1>2, <1>4 DEF Progress, AddEntry, Known, StreamInv, StreamTypeOK

LEMMA GroupProgress ==
    ASSUME StreamInv, CreateGroup, UNCHANGED <<done, started>>
    PROVE  Progress /\ delivered' # -1
<1> USE StreamAssumption
<1>1. Last \in Nat /\ Last' = Last
  BY DEF StreamInv, StreamTypeOK, Last, CreateGroup
<1>2. StreamTypeOK'
  BY <1>1 DEF StreamInv, StreamTypeOK, CreateGroup
<1>3. Known' \subseteq 1..delivered'
  BY <1>1 DEF StreamInv, StreamTypeOK, CreateGroup, Known
<1>4. StreamInv'
  BY <1>1, <1>2, <1>3 DEF StreamInv, StreamTypeOK, CreateGroup, Known
<1> QED BY <1>1, <1>4 DEF Progress, CreateGroup, Known, StreamInv, StreamTypeOK

\* A delivery of new entries hands out the next ones.
LEMMA ReadMoves ==
    ASSUME StreamInv, delivered # -1, NEW S, S # {},
           S = Lowest((delivered + 1)..Last, BatchSize), ReadGroup(S)
    PROVE  /\ \E m \in (delivered + 1)..Last : S = (delivered + 1)..m /\ delivered' = m
           /\ Last \in Nat /\ Last' = Last /\ Last <= MaxJobs /\ delivered \in Nat
           /\ S \subseteq Waiting /\ Waiting' = Waiting \ S
           /\ S \cap Known = {}
<1> USE StreamAssumption
<1>1. Last \in Nat /\ Last' = Last /\ Last <= MaxJobs /\ delivered \in Nat
  BY DEF StreamInv, StreamTypeOK, Last, ReadGroup
<1>2. delivered + 1 <= Last
  <2> SUFFICES ASSUME ~(delivered + 1 <= Last) PROVE FALSE
    OBVIOUS
  <2>1. (delivered + 1)..Last = {}
    BY <1>1
  <2> QED BY <2>1 DEF Lowest
<1>3. PICK m \in (delivered + 1)..Last : S = (delivered + 1)..m /\ Cardinality(S) = m - delivered
  <2>1. delivered + 1 \in Nat
    BY <1>1
  <2>2. PICK m \in (delivered + 1)..Last :
            /\ Lowest((delivered + 1)..Last, BatchSize) = (delivered + 1)..m
            /\ Cardinality(Lowest((delivered + 1)..Last, BatchSize)) = m - (delivered + 1) + 1
    BY <1>1, <1>2, <2>1, LowestInterval, ConstantsAssumption
  <2>3. m - (delivered + 1) + 1 = m - delivered
    BY <1>1
  <2> QED BY <2>2, <2>3
<1>4. delivered' = m
  BY <1>1, <1>3 DEF ReadGroup
<1>5. S \subseteq Waiting /\ Waiting' = Waiting \ S
  <2>1. base <= delivered /\ base \in Nat /\ base' = base
    BY DEF StreamInv, StreamTypeOK, ReadGroup
  <2> QED BY <1>1, <1>3, <1>4, <2>1 DEF Waiting
<1>6. S \cap Known = {}
  BY <1>1, <1>3 DEF StreamInv
<1> QED BY <1>1, <1>3, <1>4, <1>5, <1>6

LEMMA ReadProgress ==
    ASSUME StreamInv, delivered # -1, NEW S, S # {},
           S = Lowest((delivered + 1)..Last, BatchSize),
           ReadGroup(S), UNCHANGED <<done, started>>
    PROVE  Progress /\ S \subseteq Known' /\ S \subseteq Jobs
<1> USE StreamAssumption
<1>1. Last \in Nat /\ Last' = Last /\ Last <= MaxJobs /\ delivered \in Nat
  BY ReadMoves
<1>2. PICK m \in (delivered + 1)..Last : S = (delivered + 1)..m /\ delivered' = m
  BY ReadMoves
<1>3. S = (delivered + 1)..m
  BY <1>2
<1>4. delivered' = m
  BY <1>2
<1>5. /\ pel' = pel \cup S /\ stale' = stale \ S
      /\ dlq' = dlq /\ base' = base /\ project' = project
      /\ deliveries' = [j \in Jobs |-> IF j \in S /\ deliveries[j] < MaxDeliveries
                                         THEN deliveries[j] + 1 ELSE deliveries[j]]
  BY DEF ReadGroup, CountDelivery
<1>6. \A j \in Jobs : deliveries'[j] >= deliveries[j] /\ deliveries'[j] \in 0..MaxDeliveries
  BY <1>5 DEF StreamInv, StreamTypeOK
<1>7. deliveries' \in [Jobs -> 0..MaxDeliveries]
  BY <1>5, <1>6
<1>8. S \subseteq 1..m /\ m \in 1..Last /\ Known' = Known \cup S
  BY <1>1, <1>3, <1>5 DEF Known
<1>9. StreamTypeOK'
  BY <1>1, <1>3, <1>4, <1>5, <1>7, <1>8 DEF StreamInv, StreamTypeOK, Known
<1>10. Known' \subseteq 1..m /\ (base' + 1)..m \subseteq Known'
  <2>1. Known \subseteq 1..m
    BY <1>1, <1>3 DEF StreamInv
  <2>2. ASSUME NEW j \in (base + 1)..m PROVE j \in Known \cup S
    BY <1>1, <1>3 DEF StreamInv, StreamTypeOK
  <2> QED BY <2>1, <2>2, <1>5, <1>8
<1>11. \A j \in dlq' : deliveries'[j] >= MaxDeliveries
  <2> SUFFICES ASSUME NEW j \in dlq PROVE deliveries'[j] >= MaxDeliveries
    BY <1>5
  <2>1. j \in Jobs
    BY KnownJobs DEF Known
  <2>2. deliveries[j] >= MaxDeliveries /\ deliveries[j] \in Int /\ deliveries'[j] \in Int
    BY <2>1, <1>6 DEF StreamInv, StreamTypeOK
  <2> QED BY <2>1, <2>2, <1>6
<1>12. StreamInv'
  BY <1>1, <1>3, <1>4, <1>5, <1>8, <1>9, <1>10, <1>11 DEF StreamInv, StreamTypeOK
<1> QED BY <1>1, <1>4, <1>5, <1>6, <1>8, <1>12 DEF Progress, Jobs

\* A redelivery hands out what is pending already.
LEMMA ClaimProgress ==
    ASSUME StreamInv, NEW S \in SUBSET stale, AutoClaim(S), UNCHANGED <<done, started>>
    PROVE  Progress /\ pel' = pel /\ S \subseteq Known' /\ S \subseteq Jobs
<1> USE StreamAssumption
<1>1. Last \in Nat /\ Last' = Last /\ Last <= MaxJobs
  BY DEF StreamInv, StreamTypeOK, Last, AutoClaim
<1>2. stale \subseteq pel
  BY DEF StreamInv, StreamTypeOK
<1>3. /\ pel' = pel /\ stale' = stale \ S
      /\ dlq' = dlq /\ base' = base /\ project' = project /\ delivered' = delivered
      /\ deliveries' = [j \in Jobs |-> IF j \in S /\ deliveries[j] < MaxDeliveries
                                         THEN deliveries[j] + 1 ELSE deliveries[j]]
  BY <1>2 DEF AutoClaim, CountDelivery
<1>4. \A j \in Jobs : deliveries'[j] >= deliveries[j] /\ deliveries'[j] \in 0..MaxDeliveries
  BY <1>3 DEF StreamInv, StreamTypeOK
<1>5. deliveries' \in [Jobs -> 0..MaxDeliveries]
  BY <1>3, <1>4
<1>6. Known' = Known
  BY <1>3 DEF Known
<1>7. StreamTypeOK'
  BY <1>1, <1>3, <1>5 DEF StreamInv, StreamTypeOK
<1>8. \A j \in dlq' : deliveries'[j] >= MaxDeliveries
  <2> SUFFICES ASSUME NEW j \in dlq PROVE deliveries'[j] >= MaxDeliveries
    BY <1>3
  <2>1. j \in Jobs
    BY KnownJobs DEF Known
  <2>2. deliveries[j] >= MaxDeliveries /\ deliveries[j] \in Int /\ deliveries'[j] \in Int
    BY <2>1, <1>4 DEF StreamInv, StreamTypeOK
  <2> QED BY <2>1, <2>2, <1>4
<1>9. StreamInv'
  BY <1>1, <1>3, <1>6, <1>7, <1>8 DEF StreamInv
<1>10. S \subseteq Known' /\ S \subseteq Jobs
  BY <1>2, <1>6, KnownJobs DEF Known
<1> QED BY <1>3, <1>4, <1>6, <1>9, <1>10 DEF Progress

\* Only what has used up its deliveries is dead-lettered.
LEMMA DeadProgress ==
    ASSUME StreamInv, NEW j \in Known, deliveries[j] >= MaxDeliveries,
           AddDeadLetter(j), UNCHANGED <<done, started>>
    PROVE  Progress /\ j \in dlq'
<1>1. Known' = Known /\ Last' = Last
  BY DEF AddDeadLetter, Known, Last
<1>2. j \in 1..Last
  BY KnownJobs
<1>3. StreamTypeOK'
  BY <1>1, <1>2 DEF StreamInv, StreamTypeOK, AddDeadLetter
<1>4. StreamInv'
  BY <1>1, <1>3 DEF StreamInv, AddDeadLetter
<1>5. \A k \in Jobs : deliveries[k] >= deliveries[k]
  BY DEF StreamInv, StreamTypeOK
<1> QED BY <1>1, <1>4, <1>5 DEF Progress, AddDeadLetter

\* Only what is settled, or is settled by this very step, is acknowledged.
LEMMA AckProgress ==
    ASSUME StreamInv, NEW j \in Known, Xack(j), started' = started,
           \/ done' = done /\ j \in dlq
           \/ done' = done \cup {j} /\ j \in started
    PROVE  Progress
<1>1. Known' = Known /\ Last' = Last
  BY DEF Xack, Known, Last
<1>3. StreamTypeOK'
  BY <1>1 DEF StreamInv, StreamTypeOK, Xack
<1>4. StreamInv'
  BY <1>1, <1>3 DEF StreamInv, Xack
<1>5. \A k \in Jobs : deliveries[k] >= deliveries[k]
  BY DEF StreamInv, StreamTypeOK
<1> QED BY <1>1, <1>4, <1>5 DEF Progress, Xack

\* The idle clock of an entry.
LEMMA ClockProgress ==
    ASSUME StreamInv, NEW j, GrowStale(j) \/ Renew(j), UNCHANGED <<done, started>>
    PROVE  Progress /\ pel' = pel
<1>1. Known' = Known /\ Last' = Last
  BY DEF GrowStale, Renew, Known, Last
<1>3. StreamTypeOK'
  BY <1>1 DEF StreamInv, StreamTypeOK, GrowStale, Renew
<1>4. StreamInv'
  BY <1>1, <1>3 DEF StreamInv, GrowStale, Renew
<1>5. \A k \in Jobs : deliveries[k] >= deliveries[k]
  BY DEF StreamInv, StreamTypeOK
<1> QED BY <1>1, <1>4, <1>5 DEF Progress, GrowStale, Renew

-----------------------------------------------------------------------------
(* The consumer that moves.                                                *)

\* A step of w leaves the other consumers alone.
LEMMA OthersKeep ==
    ASSUME StreamInv, LocalInv, Progress, NEW w \in Procs,
           \E label : Goto(w, label),
           \A v \in Workers : v # w => pos'[v] = pos[v] /\ batch'[v] = batch[v]
    PROVE  \A v \in Workers : v # w => WorkerInv(v)'
<1> TAKE v \in Workers
<1> HAVE v # w
<1>1. pc'[v] = pc[v]
  BY DEF Goto, LocalInv, Procs
<1> QED BY <1>1, Frame DEF LocalInv

\* w goes to another control point with its batch.
LEMMA GotoKeeps ==
    ASSUME StreamInv, LocalInv, Progress, NEW w \in Workers, NEW label \in WorkerPc,
           Goto(w, label), UNCHANGED local,
           label \notin {"ensure", "down"} => delivered' # -1,
           label \in AtEntry => pc[w] \in AtEntry,
           label \in Begun => Entry(w) \in started',
           label = "dlq_add" => deliveries'[Entry(w)] >= MaxDeliveries,
           label = "dlq_ack" => Entry(w) \in dlq'
    PROVE  LocalInv'
<1>1. \A v \in Workers : v # w => WorkerInv(v)'
  BY OthersKeep DEF local, Procs
<1>2. pc'[w] = label /\ pc' \in [Procs -> WorkerPc \cup RequestPc]
  BY DEF Goto, LocalInv, Procs
<1>3. Entry(w)' = Entry(w)
  BY DEF Entry, local
<1>4. WorkerInv(w)'
  BY <1>2, <1>3 DEF LocalInv, WorkerInv, Progress, local
<1> QED BY <1>1, <1>2, <1>4 DEF LocalInv, local

\* w gives up its batch.
LEMMA DropKeeps ==
    ASSUME StreamInv, LocalInv, Progress, NEW w \in Workers,
           NEW label \in WorkerPc \ AtEntry, Drop(w, label),
           label \notin {"ensure", "down"} => delivered' # -1
    PROVE  LocalInv'
<1>1. \A v \in Workers : v # w => WorkerInv(v)'
  BY OthersKeep DEF Drop, Procs, LocalInv
<1>2. pc'[w] = label /\ pc' \in [Procs -> WorkerPc \cup RequestPc]
  BY DEF Drop, Goto, LocalInv, Procs
<1>3. pos'[w] = 1 /\ batch'[w] = <<>>
  BY DEF Drop, LocalInv
<1>4. WorkerInv(w)'
  BY <1>2, <1>3 DEF WorkerInv, AtEntry, Begun, Processing
<1>5. /\ batch' \in [Workers -> Seq(Jobs)] /\ pos' \in [Workers -> Nat \ {0}]
      /\ claimed' \in [Workers -> BOOLEAN]
  BY DEF Drop, LocalInv
<1> QED BY <1>1, <1>2, <1>4, <1>5 DEF LocalInv

\* w goes on with the next entry of its batch, or back to polling.
LEMMA AdvanceKeeps ==
    ASSUME StreamInv, LocalInv, Progress, NEW w \in Workers,
           pc[w] \in AtEntry, Advance(w)
    PROVE  LocalInv'
<1>0. delivered' # -1 /\ WorkerInv(w)
  BY DEF LocalInv, WorkerInv, AtEntry, Processing, Progress
<1>1. CASE ~(pos[w] < Len(batch[w]))
  <2>1. Drop(w, AfterBatch(w))
    BY <1>1 DEF Advance
  <2>2. AfterBatch(w) \in WorkerPc \ AtEntry
    BY DEF AfterBatch, WorkerPc, AtEntry, Processing
  <2> QED BY <1>0, <2>1, <2>2, DropKeeps
<1>2. CASE pos[w] < Len(batch[w])
  <2>1. /\ pos' = [pos EXCEPT ![w] = @ + 1] /\ batch' = batch /\ claimed' = claimed
        /\ Goto(w, IF claimed[w] THEN "check" ELSE "begin")
    BY <1>2 DEF Advance
  <2>2. \A v \in Workers : v # w => WorkerInv(v)'
    BY <2>1, OthersKeep DEF Procs, LocalInv
  <2>3. pc'[w] \in {"check", "begin"} /\ pc' \in [Procs -> WorkerPc \cup RequestPc]
    BY <2>1 DEF Goto, LocalInv, Procs, WorkerPc, Processing
  <2>4. pos'[w] = pos[w] + 1 /\ batch'[w] = batch[w]
        /\ pos' \in [Workers -> Nat \ {0}]
    BY <2>1 DEF LocalInv
  <2>5. WorkerInv(w)'
    BY <1>0, <1>2, <2>3, <2>4 DEF WorkerInv, AtEntry, Begun, Processing, WorkerPc, Progress
  <2> QED BY <2>1, <2>2, <2>3, <2>4, <2>5 DEF LocalInv
<1> QED BY <1>1, <1>2

\* w is handed the entries of S.
LEMMA TakeKeeps ==
    ASSUME StreamInv, LocalInv, Progress, NEW w \in Workers, NEW S \in SUBSET Jobs,
           S # {}, S \subseteq Known', delivered' # -1,
           NEW reclaim \in BOOLEAN, NEW label \in {"check", "begin"},
           Take(w, S, reclaim, label)
    PROVE  LocalInv'
<1>1. PICK s \in InOrder(S) : batch' = [batch EXCEPT ![w] = s]
  BY DEF Take
<1>2. s \in Seq(Jobs) /\ Len(s) >= 1 /\ \A i \in 1..Len(s) : s[i] \in S
  BY <1>1, Listing
<1>3. \A v \in Workers : v # w => WorkerInv(v)'
  BY OthersKeep DEF Take, Procs, LocalInv
<1>4. pc'[w] = label /\ pc' \in [Procs -> WorkerPc \cup RequestPc]
  BY DEF Take, Goto, LocalInv, Procs, WorkerPc, Processing
<1>5. pos'[w] = 1 /\ batch'[w] = s
  BY <1>1 DEF Take, LocalInv
<1>6. WorkerInv(w)'
  BY <1>2, <1>4, <1>5 DEF WorkerInv, AtEntry, Begun, Processing, WorkerPc
<1>7. /\ batch' \in [Workers -> Seq(Jobs)] /\ pos' \in [Workers -> Nat \ {0}]
      /\ claimed' \in [Workers -> BOOLEAN]
  BY <1>1, <1>2 DEF Take, LocalInv
<1> QED BY <1>3, <1>4, <1>6, <1>7 DEF LocalInv

\* No consumer moves.
LEMMA RequestKeeps ==
    ASSUME StreamInv, LocalInv, Progress, UNCHANGED local,
           pc' = pc \/ \E r \in Requests, label \in RequestPc : Goto(r, label)
    PROVE  LocalInv'
<1>1. \A v \in Workers : pc'[v] = pc[v]
  BY ConstantsAssumption DEF Goto, LocalInv, Procs
<1>2. \A v \in Workers : WorkerInv(v)'
  BY <1>1, Frame DEF LocalInv, local
<1>3. pc' \in [Procs -> WorkerPc \cup RequestPc]
  BY DEF Goto, LocalInv, Procs
<1> QED BY <1>2, <1>3 DEF LocalInv, local

\* A consumer at an entry knows of it.
LEMMA EntryKnown ==
    ASSUME StreamInv, LocalInv, NEW w \in Workers, pc[w] \in AtEntry
    PROVE  /\ Entry(w) \in Known /\ Entry(w) \in Jobs /\ project[Entry(w)] \in Projects
           /\ delivered # -1
<1>1. WorkerInv(w)
  BY DEF LocalInv
<1>2. pos[w] \in 1..Len(batch[w])
  BY <1>1 DEF WorkerInv
<1>3. Entry(w) \in Known
  BY <1>1, <1>2 DEF WorkerInv, Entry
<1>4. Entry(w) \in Jobs /\ Entry(w) \in 1..Last
  BY <1>3, KnownJobs
<1>5. project[Entry(w)] \in Projects
  BY <1>4 DEF StreamInv, StreamTypeOK, Last
<1>6. delivered # -1
  BY <1>1 DEF WorkerInv, AtEntry, Processing
<1> QED BY <1>3, <1>4, <1>5, <1>6

\* A status write keeps what it writes to well typed.
LEMMA NodeTypes ==
    ASSUME PlainTypes, NEW p \in Projects, NEW s \in States, NEW d \in 0..MaxSkew,
           WriteNode(p, s, d)
    PROVE  status' \in [Projects -> States] /\ lead' \in [Projects -> -1..MaxSkew]
<1>1. status' \in [Projects -> States]
  BY DEF WriteNode, PlainTypes
<1>2. d \in -1..MaxSkew
  BY ConstantsAssumption
<1>3. lead' \in [Projects -> -1..MaxSkew]
  BY <1>2 DEF WriteNode, PlainTypes
<1> QED BY <1>1, <1>3

LEMMA NoticedTypes ==
    ASSUME PlainTypes, NEW p \in Projects, NEW d \in 0..MaxSkew
    PROVE  Noticed(p, d) \in [Requests -> RequestLocals]
<1>1. ASSUME NEW r \in Requests
      PROVE  [req[r] EXCEPT !.passed = d >= req[r].lead] \in RequestLocals
  <2>1. req[r] \in RequestLocals /\ (d >= req[r].lead) \in BOOLEAN
    BY DEF PlainTypes
  <2> DEFINE b == d >= req[r].lead
  <2>2. b \in BOOLEAN
    BY <2>1
  <2> HIDE DEF b
  <2>3. [req[r] EXCEPT !.passed = b] \in RequestLocals
    BY <2>1, <2>2 DEF RequestLocals
  <2> QED BY <2>3 DEF b
<1>2. \A r \in Requests : req[r] \in RequestLocals
  BY DEF PlainTypes
<1> QED BY <1>1, <1>2 DEF Noticed

LEMMA ForgottenTypes ==
    ASSUME NEW R \in [Requests -> RequestLocals], NEW r \in Requests
    PROVE  Forgotten(R, r) \in [Requests -> RequestLocals]
<1>1. R[r].project \in Projects
  BY DEF RequestLocals
<1>2. NoRequest(R[r].project) \in RequestLocals
  BY <1>1, ConstantsAssumption, StreamAssumption DEF NoRequest, RequestLocals
<1> QED BY <1>2 DEF Forgotten

LEMMA StatusTypes ==
    ASSUME PlainTypes, NEW p \in Projects, NEW s \in States, WriteStatus(p, s)
    PROVE  /\ status' \in [Projects -> States] /\ lead' \in [Projects -> -1..MaxSkew]
           /\ req' \in [Requests -> RequestLocals]
BY NodeTypes, NoticedTypes DEF WriteStatus

-----------------------------------------------------------------------------
(* The invariant.                                                          *)

\* Beginning with an entry.
LEMMA BeginProgress ==
    ASSUME StreamInv, NEW j \in Known, UNCHANGED <<stream, done>>,
           started' = started \cup {j}
    PROVE  Progress
<1>1. \A k \in Jobs : deliveries[k] >= deliveries[k]
  BY DEF StreamInv, StreamTypeOK
<1>2. StreamTypeOK'
  BY DEF StreamInv, StreamTypeOK, stream, Last
<1>3. StreamInv'
  BY <1>2 DEF StreamInv, stream, Known, Last
<1> QED BY <1>1, <1>3 DEF Progress, stream, Known

\* The variables that no consumer holds.
LEMMA PlainKeeps ==
    ASSUME PlainTypes, Progress, debounce' \subseteq Projects, paused' \in BOOLEAN,
           \/ UNCHANGED <<status, lead, req>>
           \/ \E p \in Projects, s \in States : WriteStatus(p, s),
           hurried' \subseteq Requests, slipped' \subseteq Projects,
           faults' = faults \/ \E kind : Fault(kind)
    PROVE  PlainTypes'
<1>1. /\ status' \in [Projects -> States] /\ lead' \in [Projects -> -1..MaxSkew]
      /\ req' \in [Requests -> RequestLocals]
  <2>1. CASE UNCHANGED <<status, lead, req>>
    BY <2>1 DEF PlainTypes
  <2>2. CASE \E p \in Projects, s \in States : WriteStatus(p, s)
    BY <2>2, StatusTypes
  <2> QED BY <2>1, <2>2
<1>2. faults' \in 0..MaxFaults
  BY ConstantsAssumption DEF PlainTypes, Fault
<1> QED BY <1>1, <1>2 DEF PlainTypes

\* What a step does to the stream and to what is settled.
StreamStep ==
    \/ UNCHANGED <<stream, done>>
    \/ /\ done' = done
       /\ \/ \E p \in Projects : AddEntry(p)
          \/ CreateGroup
          \/ \E S \in SUBSET Nat :
                /\ delivered # -1 /\ S # {}
                /\ S = Lowest((delivered + 1)..Last, BatchSize)
                /\ ReadGroup(S)
          \/ \E S \in SUBSET stale : AutoClaim(S)
          \/ \E j \in Known : AddDeadLetter(j)
          \/ \E j : GrowStale(j) \/ Renew(j)
    \/ \E j \in Known :
          /\ Xack(j)
          /\ (done' = done /\ j \in dlq) \/ done' = done \cup {j}

LEMMA InitInv == Init => IInv
<1> SUFFICES ASSUME Init PROVE IInv
  OBVIOUS
<1> USE ConstantsAssumption, StreamAssumption DEF Init, InitStream
<1>1. project = <<>> /\ Last = 0
  BY DEF Last
<1>2. StreamInv
  BY <1>1 DEF StreamInv, StreamTypeOK, Known
<1>3. PlainTypes
  <2>1. req \in [Requests -> RequestLocals]
    <3>1. PICK p \in Projects : req = [r \in Requests |-> NoRequest(p)]
      OBVIOUS
    <3>2. NoRequest(p) \in RequestLocals
      BY DEF NoRequest, RequestLocals
    <3> QED BY <3>1, <3>2
  <2>2. /\ paused \in BOOLEAN
        /\ faults \in 0..MaxFaults
    <3>1. paused \in BOOLEAN
      BY Zenon
    <3>2. faults \in 0..MaxFaults
      OBVIOUS
    <3> QED BY <3>1, <3>2
  <2>3. status \in [Projects -> States] /\ debounce \subseteq Projects
    BY DEF States
  <2>4. lead \in [Projects -> -1..MaxSkew] /\ hurried \subseteq Requests
        /\ slipped \subseteq Projects
    BY DEF Init
  <2> QED BY <2>1, <2>2, <2>3, <2>4 DEF PlainTypes
<1>4. \A w \in Workers : WorkerInv(w)
  BY DEF WorkerInv, WorkerPc, AtEntry, Begun, Processing, Procs
<1>5. pc \in [Procs -> WorkerPc \cup RequestPc]
  BY DEF WorkerPc, RequestPc
<1> QED BY <1>2, <1>3, <1>4, <1>5 DEF IInv, LocalInv

\* The steps of a request.
LEMMA RequestInv ==
    ASSUME IInv, NEW r \in Requests, RequestStep(r)
    PROVE  IInv' /\ StreamStep
<1> USE StreamAssumption, ConstantsAssumption
<1>0. /\ StreamInv /\ LocalInv /\ PlainTypes
      /\ req[r] \in RequestLocals
  BY DEF IInv, PlainTypes
<1>r. RequestStep(r) => hurried' \subseteq Requests /\ slipped' \subseteq Projects
  BY <1>0 DEF RequestStep, Debounce, EnqueueXadd, EnqueueFails, MarkQueued, MarkQueuedFails,
              Leave, history, PlainTypes, RequestLocals
<1>1. CASE Debounce(r)
  <2>1. Progress
    BY <1>0, <1>1, StillProgress DEF Debounce, history
  <2>2. LocalInv'
    BY <1>0, <1>1, <2>1, RequestKeeps DEF Debounce, RequestPc
  <2>3. req' \in [Requests -> RequestLocals]
    <3>1. PICK p \in Projects, d \in 0..MaxSkew :
             req' = [req EXCEPT ![r] = [project |-> p, id |-> 0, lead |-> d,
                                        passed |-> lead[p] >= d]]
      BY <1>1 DEF Debounce
    <3>2. (lead[p] >= d) \in BOOLEAN
      BY <1>0 DEF PlainTypes
    <3> DEFINE b == lead[p] >= d
    <3> HIDE DEF b
    <3>3. b \in BOOLEAN /\ req' = [req EXCEPT ![r] = [project |-> p, id |-> 0, lead |-> d,
                                                      passed |-> b]]
      BY <3>1, <3>2 DEF b
    <3>4. [project |-> p, id |-> 0, lead |-> d, passed |-> b] \in RequestLocals
      BY <3>3 DEF RequestLocals
    <3> QED BY <1>0, <3>3, <3>4 DEF PlainTypes
  <2>4. PlainTypes'
    BY <1>0, <1>1, <2>1, <2>3 DEF Debounce, PlainTypes, Progress, history, node
  <2> QED BY <1>1, <2>1, <2>2, <2>4 DEF IInv, Progress, StreamStep, Debounce, history
<1>2. CASE EnqueueXadd(r)
  <2>1. Progress /\ Last' = Last + 1
    BY <1>0, <1>2, AddProgress DEF EnqueueXadd, history, RequestLocals
  <2>2. LocalInv'
    BY <1>0, <1>2, <2>1, RequestKeeps DEF EnqueueXadd, RequestPc
  <2>3. Last + 1 \in 0..MaxJobs
    BY <1>0, <1>2 DEF EnqueueXadd, AddEntry, StreamInv, StreamTypeOK, Last
  <2>4. req' \in [Requests -> RequestLocals]
    <3>1. [req[r] EXCEPT !.id = Last + 1] \in RequestLocals
      BY <1>0, <2>3 DEF RequestLocals
    <3> QED BY <1>0, <1>2, <3>1 DEF EnqueueXadd, PlainTypes
  <2>5. PlainTypes'
    BY <1>0, <1>2, <2>1, <2>4 DEF EnqueueXadd, PlainTypes, Progress, history, node
  <2> QED BY <1>0, <1>2, <2>1, <2>2, <2>5
          DEF IInv, Progress, StreamStep, EnqueueXadd, history, RequestLocals
<1>3. CASE EnqueueFails(r)
  <2>1. Progress
    BY <1>0, <1>3, AddProgress, StillProgress DEF EnqueueFails, RequestLocals
  <2>2. LocalInv'
    BY <1>0, <1>3, <2>1, RequestKeeps DEF EnqueueFails, RequestPc, Leave
  <2>3. PlainTypes'
    <3>1. debounce' \subseteq Projects /\ faults' \in 0..MaxFaults
      BY <1>0, <1>3 DEF EnqueueFails, PlainTypes, Fault
    <3>2. req' \in [Requests -> RequestLocals]
      BY <1>0, <1>3, ForgottenTypes DEF EnqueueFails, PlainTypes
    <3> QED BY <1>0, <1>3, <1>r, <3>1, <3>2 DEF EnqueueFails, PlainTypes, RequestStep, node
  <2> QED BY <1>0, <1>3, <2>1, <2>2, <2>3 DEF IInv, Progress, StreamStep, EnqueueFails, RequestLocals
<1>4. CASE MarkQueued(r)
  <2>1. Progress
    BY <1>0, <1>4, StillProgress DEF MarkQueued
  <2>2. LocalInv'
    BY <1>0, <1>4, <2>1, RequestKeeps DEF MarkQueued, RequestPc, Leave
  <2>3. /\ status' \in [Projects -> States] /\ lead' \in [Projects -> -1..MaxSkew]
        /\ req' \in [Requests -> RequestLocals]
    <3>1. CASE req' = Forgotten(req, r) /\ UNCHANGED node
      BY <1>0, <3>1, ForgottenTypes DEF PlainTypes, node
    <3>2. CASE \E d \in 0..MaxSkew :
                  /\ WriteNode(req[r].project, "queued", d)
                  /\ req' = Forgotten(Noticed(req[r].project, d), r)
      <4>1. "queued" \in States /\ req[r].project \in Projects
        BY <1>0 DEF States, RequestLocals
      <4> QED BY <1>0, <3>2, <4>1, NodeTypes, NoticedTypes, ForgottenTypes
    <3> QED BY <1>4, <3>1, <3>2 DEF MarkQueued
  <2>4. PlainTypes'
    BY <1>0, <1>4, <1>r, <2>3 DEF MarkQueued, PlainTypes, RequestStep
  <2> QED BY <1>4, <2>1, <2>2, <2>4 DEF IInv, Progress, StreamStep, MarkQueued
<1>5. CASE MarkQueuedFails(r)
  <2>1. Progress
    BY <1>0, <1>5, StillProgress DEF MarkQueuedFails
  <2>2. LocalInv'
    BY <1>0, <1>5, <2>1, RequestKeeps DEF MarkQueuedFails, RequestPc, Leave
  <2>3. PlainTypes'
    <3>1. req' \in [Requests -> RequestLocals] /\ faults' \in 0..MaxFaults
      BY <1>0, <1>5, ForgottenTypes DEF MarkQueuedFails, PlainTypes, Fault
    <3> QED BY <1>0, <1>5, <1>r, <3>1 DEF MarkQueuedFails, PlainTypes, RequestStep, node
  <2> QED BY <1>5, <2>1, <2>2, <2>3 DEF IInv, Progress, StreamStep, MarkQueuedFails
<1> QED BY <1>1, <1>2, <1>3, <1>4, <1>5 DEF RequestStep

\* The steps of a consumer that goes on.
LEMMA LoopInv ==
    ASSUME IInv, NEW w \in Workers, ConsumerLoop(w)
    PROVE  IInv' /\ StreamStep
<1> USE StreamAssumption, ConstantsAssumption
<1>0. /\ StreamInv /\ LocalInv /\ PlainTypes /\ WorkerInv(w)
  BY DEF IInv, PlainTypes, LocalInv
<1>e. pc[w] \in AtEntry =>
         /\ Entry(w) \in Known /\ Entry(w) \in Jobs
         /\ project[Entry(w)] \in Projects /\ delivered # -1
  BY <1>0, EntryKnown
<1>d. pc[w] \notin {"ensure", "down"} => delivered # -1
  BY <1>0 DEF WorkerInv
<1> USE DEF history, local, node
<1>1. CASE EnsureGroup(w)
  <2>1. Progress
    BY <1>0, <1>e, <1>1, GroupProgress DEF EnsureGroup, WorkerPc, AtEntry, Begun, Processing
  <2>2. LocalInv'
    BY <1>0, <1>1, <2>1, GroupProgress, GotoKeeps DEF EnsureGroup, WorkerInv, Progress, WorkerPc, AtEntry, Begun, Processing
  <2>4. PlainTypes'
    BY <1>0, <1>e, <1>1, <2>1, PlainKeeps DEF EnsureGroup, PlainTypes, Progress
  <2> QED BY <1>0, <1>e, <1>1, <2>1, <2>2, <2>4 DEF IInv, Progress, StreamStep, EnsureGroup, WorkerPc, AtEntry, Begun, Processing
<1>2. CASE Poll(w)
  <2>1. Progress
    BY <1>0, <1>e, <1>2, StillProgress DEF Poll, WorkerPc, AtEntry, Begun, Processing
  <2>2. LocalInv'
    BY <1>0, <1>d, <1>2, <2>1, GotoKeeps DEF Poll, WorkerInv, Progress, WorkerPc, AtEntry, Begun, Processing
  <2>4. PlainTypes'
    BY <1>0, <1>e, <1>2, <2>1, PlainKeeps DEF Poll, PlainTypes, Progress
  <2> QED BY <1>0, <1>e, <1>2, <2>1, <2>2, <2>4 DEF IInv, Progress, StreamStep, Poll, WorkerPc, AtEntry, Begun, Processing
<1>3. CASE PollAgain(w)
  <2>1. Progress
    BY <1>0, <1>e, <1>3, StillProgress DEF PollAgain, WorkerPc, AtEntry, Begun, Processing
  <2>2. LocalInv'
    BY <1>0, <1>d, <1>3, <2>1, GotoKeeps DEF PollAgain, WorkerInv, Progress, WorkerPc, AtEntry, Begun, Processing
  <2>4. PlainTypes'
    BY <1>0, <1>e, <1>3, <2>1, PlainKeeps DEF PollAgain, PlainTypes, Progress
  <2> QED BY <1>0, <1>e, <1>3, <2>1, <2>2, <2>4 DEF IInv, Progress, StreamStep, PollAgain, WorkerPc, AtEntry, Begun, Processing
<1>4. CASE ClaimStale(w)
  <2>a. CASE stale = {}
    <3>1. Progress
      BY <1>0, <1>4, <2>a, StillProgress DEF ClaimStale
    <3>2. LocalInv'
      BY <1>0, <1>d, <1>4, <2>a, <3>1, GotoKeeps DEF ClaimStale, Progress, WorkerPc, AtEntry, Begun, Processing
    <3>3. PlainTypes'
      BY <1>0, <1>4, <3>1, PlainKeeps DEF ClaimStale, PlainTypes, Progress
    <3> QED BY <1>4, <2>a, <3>1, <3>2, <3>3 DEF IInv, Progress, StreamStep, ClaimStale
  <2>b. CASE stale # {}
    <3> DEFINE S == Lowest(stale, BatchSize)
    <3>1. /\ S \in SUBSET stale /\ stale \in SUBSET Nat
      BY <1>0 DEF Lowest, StreamInv, StreamTypeOK
    <3>2. S # {}
      BY <2>b, <3>1, LowestSome
    <3>3. Take(w, S, TRUE, "check") /\ AutoClaim(S) /\ delivered # -1
      BY <1>4, <2>b, <1>d DEF ClaimStale
    <3>4. UNCHANGED <<debounce, paused, node, req, history>>
      BY <1>4 DEF ClaimStale
    <3> HIDE DEF S
    <3>5. Progress /\ S \subseteq Known' /\ S \subseteq Jobs
      BY <1>0, <3>1, <3>3, <3>4, ClaimProgress
    <3>6. LocalInv'
      BY <1>0, <3>2, <3>3, <3>5, TakeKeeps DEF Progress
    <3>7. PlainTypes'
      BY <1>0, <3>4, <3>5, PlainKeeps DEF PlainTypes, Progress
    <3> QED BY <3>1, <3>3, <3>4, <3>5, <3>6, <3>7 DEF IInv, Progress, StreamStep
  <2> QED BY <2>a, <2>b
<1>5. CASE ReadNew(w)
  <2> DEFINE S == Lowest((delivered + 1)..Last, BatchSize)
  <2>a. CASE S = {}
    <3>1. Progress
      BY <1>0, <1>5, <2>a, StillProgress DEF ReadNew
    <3>2. LocalInv'
      BY <1>0, <1>d, <1>5, <2>a, <3>1, GotoKeeps DEF ReadNew, Progress, WorkerPc, AtEntry, Begun, Processing
    <3>3. PlainTypes'
      BY <1>0, <1>5, <3>1, PlainKeeps DEF ReadNew, PlainTypes, Progress
    <3> QED BY <1>5, <2>a, <3>1, <3>2, <3>3 DEF IInv, Progress, StreamStep, ReadNew
  <2>b. CASE S # {}
    <3>1. Take(w, S, FALSE, "begin") /\ ReadGroup(S) /\ delivered # -1
      BY <1>5, <2>b, <1>d DEF ReadNew
    <3>2. UNCHANGED <<debounce, paused, node, req, history>>
      BY <1>5 DEF ReadNew
    <3>3. S = Lowest((delivered + 1)..Last, BatchSize)
      OBVIOUS
    <3> HIDE DEF S
    <3>4. Progress /\ S \subseteq Known' /\ S \subseteq Jobs
      BY <1>0, <2>b, <3>1, <3>2, <3>3, ReadProgress
    <3>5. LocalInv'
      BY <1>0, <2>b, <3>1, <3>4, TakeKeeps DEF Progress
    <3>6. PlainTypes'
      BY <1>0, <3>2, <3>4, PlainKeeps DEF PlainTypes, Progress
    <3>7. S \in SUBSET Nat
      BY <3>4 DEF Jobs
    <3> QED BY <2>b, <3>1, <3>2, <3>3, <3>4, <3>5, <3>6, <3>7 DEF IInv, Progress, StreamStep
  <2> QED BY <2>a, <2>b
<1>6. CASE CheckDeliveries(w)
  <2>1. Progress
    BY <1>0, <1>e, <1>6, StillProgress DEF CheckDeliveries, WorkerPc, AtEntry, Begun, Processing
  <2>2. LocalInv'
    BY <1>0, <1>d, <1>6, <2>1, GotoKeeps DEF CheckDeliveries, Exhausted, Progress, stream, WorkerPc, AtEntry, Begun, Processing
  <2>4. PlainTypes'
    BY <1>0, <1>e, <1>6, <2>1, PlainKeeps DEF CheckDeliveries, PlainTypes, Progress
  <2> QED BY <1>0, <1>e, <1>6, <2>1, <2>2, <2>4 DEF IInv, Progress, StreamStep, CheckDeliveries, WorkerPc, AtEntry, Begun, Processing
<1>7. CASE DeadLetterAdd(w)
  <2>1. Progress
    BY <1>0, <1>e, <1>7, DeadProgress DEF DeadLetterAdd, WorkerPc, AtEntry, Begun, Processing, WorkerInv
  <2>2. LocalInv'
    BY <1>0, <1>e, <1>d, <1>7, <2>1, GotoKeeps DEF DeadLetterAdd, AddDeadLetter, Progress, WorkerPc, AtEntry, Begun, Processing
  <2>4. PlainTypes'
    BY <1>0, <1>e, <1>7, <2>1, PlainKeeps DEF DeadLetterAdd, PlainTypes, Progress
  <2> QED BY <1>0, <1>e, <1>7, <2>1, <2>2, <2>4 DEF IInv, Progress, StreamStep, DeadLetterAdd, WorkerPc, AtEntry, Begun, Processing
<1>8. CASE DeadLetterAck(w)
  <2>1. Progress
    BY <1>0, <1>e, <1>8, AckProgress DEF DeadLetterAck, WorkerPc, AtEntry, Begun, Processing, WorkerInv
  <2>2. LocalInv'
    BY <1>0, <1>8, <2>1, AdvanceKeeps DEF DeadLetterAck, WorkerPc, AtEntry, Begun, Processing
  <2>4. PlainTypes'
    BY <1>0, <1>e, <1>8, <2>1, PlainKeeps DEF DeadLetterAck, PlainTypes, Progress
  <2> QED BY <1>0, <1>e, <1>8, <2>1, <2>2, <2>4 DEF IInv, Progress, StreamStep, DeadLetterAck, WorkerPc, AtEntry, Begun, Processing, WorkerInv
<1>9. CASE Begin(w)
  <2>1. Progress
    BY <1>0, <1>e, <1>9, BeginProgress DEF Begin, WorkerPc, AtEntry, Begun, Processing
  <2>2. LocalInv'
    BY <1>0, <1>e, <1>d, <1>9, <2>1, GotoKeeps DEF Begin, Progress, WorkerPc, AtEntry, Begun, Processing
  <2>3. /\ UNCHANGED <<status, lead, req>> \/ \E p \in Projects, s \in States : WriteStatus(p, s)
        /\ hurried' \subseteq Requests /\ slipped' \subseteq Projects
        /\ faults' = faults \/ \E kind : Fault(kind)
    BY <1>0, <1>e, <1>9 DEF Begin, SetStatus, PlainTypes, States, WorkerPc, AtEntry, Begun, Processing
  <2>4. PlainTypes'
    BY <1>0, <1>e, <1>9, <2>1, <2>3, PlainKeeps DEF Begin, PlainTypes, Progress, WorkerPc, AtEntry, Begun, Processing
  <2> QED BY <1>0, <1>e, <1>9, <2>1, <2>2, <2>4 DEF IInv, Progress, StreamStep, Begin, WorkerPc, AtEntry, Begun, Processing
<1>10. CASE Sync(w)
  <2>1. Progress
    BY <1>0, <1>e, <1>10, StillProgress DEF Sync, WorkerPc, AtEntry, Begun, Processing
  <2>2. LocalInv'
    BY <1>0, <1>d, <1>10, <2>1, GotoKeeps DEF Sync, WorkerInv, Progress, WorkerPc, AtEntry, Begun, Processing
  <2>4. PlainTypes'
    BY <1>0, <1>e, <1>10, <2>1, PlainKeeps DEF Sync, PlainTypes, Progress
  <2> QED BY <1>0, <1>e, <1>10, <2>1, <2>2, <2>4 DEF IInv, Progress, StreamStep, Sync, WorkerPc, AtEntry, Begun, Processing
<1>11. CASE Conclude(w)
  <2>1. Progress
    BY <1>0, <1>e, <1>11, StillProgress DEF Conclude, WorkerPc, AtEntry, Begun, Processing
  <2>2. LocalInv'
    BY <1>0, <1>d, <1>11, <2>1, GotoKeeps DEF Conclude, WorkerInv, Progress, WorkerPc, AtEntry, Begun, Processing
  <2>3. /\ UNCHANGED <<status, lead, req>> \/ \E p \in Projects, s \in States : WriteStatus(p, s)
        /\ hurried' \subseteq Requests /\ slipped' \subseteq Projects
        /\ faults' = faults \/ \E kind : Fault(kind)
    BY <1>0, <1>e, <1>11 DEF Conclude, SetStatus, PlainTypes, States, WorkerPc, AtEntry, Begun, Processing
  <2>4. PlainTypes'
    BY <1>0, <1>e, <1>11, <2>1, <2>3, PlainKeeps DEF Conclude, PlainTypes, Progress, WorkerPc, AtEntry, Begun, Processing
  <2> QED BY <1>0, <1>e, <1>11, <2>1, <2>2, <2>4 DEF IInv, Progress, StreamStep, Conclude, WorkerPc, AtEntry, Begun, Processing
<1>12. CASE Ack(w)
  <2>1. Progress
    BY <1>0, <1>e, <1>12, AckProgress DEF Ack, WorkerPc, AtEntry, Begun, Processing, WorkerInv
  <2>2. LocalInv'
    BY <1>0, <1>12, <2>1, AdvanceKeeps DEF Ack, WorkerPc, AtEntry, Begun, Processing
  <2>4. PlainTypes'
    BY <1>0, <1>e, <1>12, <2>1, PlainKeeps DEF Ack, PlainTypes, Progress
  <2> QED BY <1>0, <1>e, <1>12, <2>1, <2>2, <2>4 DEF IInv, Progress, StreamStep, Ack, WorkerPc, AtEntry, Begun, Processing
<1>13. CASE Fail(w)
  <2>1. Progress
    BY <1>0, <1>e, <1>13, StillProgress DEF Fail, WorkerPc, AtEntry, Begun, Processing
  <2>2. LocalInv'
    BY <1>0, <1>13, <2>1, AdvanceKeeps DEF Fail, WorkerPc, AtEntry, Begun, Processing
  <2>3. /\ UNCHANGED <<status, lead, req>> \/ \E p \in Projects, s \in States : WriteStatus(p, s)
        /\ hurried' \subseteq Requests /\ slipped' \subseteq Projects
        /\ faults' = faults \/ \E kind : Fault(kind)
    BY <1>0, <1>e, <1>13 DEF Fail, SetStatus, PlainTypes, States, WorkerPc, AtEntry, Begun, Processing
  <2>4. PlainTypes'
    BY <1>0, <1>e, <1>13, <2>1, <2>3, PlainKeeps DEF Fail, PlainTypes, Progress, WorkerPc, AtEntry, Begun, Processing
  <2> QED BY <1>0, <1>e, <1>13, <2>1, <2>2, <2>4 DEF IInv, Progress, StreamStep, Fail, WorkerPc, AtEntry, Begun, Processing
<1>14. CASE LeaveQueued(w)
  <2>1. Progress
    BY <1>0, <1>e, <1>14, StillProgress DEF LeaveQueued, WorkerPc, AtEntry, Begun, Processing
  <2>2. LocalInv'
    BY <1>0, <1>d, <1>14, <2>1, GotoKeeps DEF LeaveQueued, WorkerInv, Progress, WorkerPc, AtEntry, Begun, Processing
  <2>3. /\ UNCHANGED <<status, lead, req>> \/ \E p \in Projects, s \in States : WriteStatus(p, s)
        /\ hurried' \subseteq Requests /\ slipped' \subseteq Projects
        /\ faults' = faults \/ \E kind : Fault(kind)
    BY <1>0, <1>e, <1>14 DEF LeaveQueued, SetStatus, PlainTypes, States, WorkerPc, AtEntry, Begun, Processing
  <2>4. PlainTypes'
    BY <1>0, <1>e, <1>14, <2>1, <2>3, PlainKeeps DEF LeaveQueued, PlainTypes, Progress, WorkerPc, AtEntry, Begun, Processing
  <2> QED BY <1>0, <1>e, <1>14, <2>1, <2>2, <2>4 DEF IInv, Progress, StreamStep, LeaveQueued, WorkerPc, AtEntry, Begun, Processing
<1>15. CASE PauseUntil(w)
  <2>1. Progress
    BY <1>0, <1>e, <1>15, StillProgress DEF PauseUntil, WorkerPc, AtEntry, Begun, Processing
  <2>2. LocalInv'
    <3>1. AfterBatch(w) \in {"poll", "poll2"}
      BY DEF AfterBatch
    <3> QED BY <1>0, <1>d, <1>15, <2>1, <3>1, DropKeeps DEF PauseUntil, Progress, WorkerPc, AtEntry, Begun, Processing
  <2>4. PlainTypes'
    BY <1>0, <1>e, <1>15, <2>1, PlainKeeps DEF PauseUntil, PlainTypes, Progress
  <2> QED BY <1>0, <1>e, <1>15, <2>1, <2>2, <2>4 DEF IInv, Progress, StreamStep, PauseUntil, WorkerPc, AtEntry, Begun, Processing
<1> QED BY <1>1, <1>2, <1>3, <1>4, <1>5, <1>6, <1>7, <1>8, <1>9, <1>10, <1>11, <1>12, <1>13, <1>14, <1>15 DEF ConsumerLoop

\* The faults of a consumer.
LEMMA FaultInv ==
    ASSUME IInv, NEW w \in Workers, ConsumerFault(w)
    PROVE  IInv' /\ StreamStep
<1> USE StreamAssumption, ConstantsAssumption
<1>0. /\ StreamInv /\ LocalInv /\ PlainTypes /\ WorkerInv(w)
  BY DEF IInv, PlainTypes, LocalInv
<1>e. pc[w] \in AtEntry =>
         /\ Entry(w) \in Known /\ Entry(w) \in Jobs
         /\ project[Entry(w)] \in Projects /\ delivered # -1
  BY <1>0, EntryKnown
<1>d. pc[w] \notin {"ensure", "down"} => delivered # -1
  BY <1>0 DEF WorkerInv
<1> USE DEF history, local, node
<1>1. CASE EnsureGroupFails(w)
  <2>1. Progress
    BY <1>0, <1>e, <1>1, StillProgress DEF EnsureGroupFails, WorkerPc, AtEntry, Begun, Processing
  <2>2. LocalInv'
    BY <1>0, <1>d, <1>1, <2>1, GotoKeeps DEF EnsureGroupFails, WorkerInv, Progress, WorkerPc, AtEntry, Begun, Processing
  <2>4. PlainTypes'
    BY <1>0, <1>e, <1>1, <2>1, PlainKeeps DEF EnsureGroupFails, PlainTypes, Progress, WorkerPc, AtEntry, Begun, Processing
  <2> QED BY <1>0, <1>e, <1>1, <2>1, <2>2, <2>4 DEF IInv, Progress, StreamStep, EnsureGroupFails, WorkerPc, AtEntry, Begun, Processing, WorkerInv
<1>2. CASE SyncRateLimited(w)
  <2>1. Progress
    BY <1>0, <1>e, <1>2, StillProgress DEF SyncRateLimited, WorkerPc, AtEntry, Begun, Processing
  <2>2. LocalInv'
    BY <1>0, <1>d, <1>2, <2>1, GotoKeeps DEF SyncRateLimited, WorkerInv, Progress, WorkerPc, AtEntry, Begun, Processing
  <2>4. PlainTypes'
    BY <1>0, <1>e, <1>2, <2>1, PlainKeeps DEF SyncRateLimited, PlainTypes, Progress, WorkerPc, AtEntry, Begun, Processing
  <2> QED BY <1>0, <1>e, <1>2, <2>1, <2>2, <2>4 DEF IInv, Progress, StreamStep, SyncRateLimited, WorkerPc, AtEntry, Begun, Processing, WorkerInv
<1>3. CASE ReadFails(w)
  <2>1. Progress
    BY <1>0, <1>e, <1>3, StillProgress DEF ReadFails, WorkerPc, AtEntry, Begun, Processing
  <2>2. LocalInv'
    <3>1. CASE pc[w] = "pause"
      <4>1. AfterBatch(w) \in {"poll", "poll2"} /\ Drop(w, AfterBatch(w))
        BY <1>3, <3>1 DEF AfterBatch, ReadFails
      <4> QED BY <1>0, <1>d, <2>1, <3>1, <4>1, DropKeeps DEF Progress, WorkerPc, AtEntry, Begun, Processing
    <3>2. CASE pc[w] # "pause"
      BY <1>0, <1>d, <1>3, <2>1, <3>2, GotoKeeps DEF ReadFails, Progress, WorkerPc, AtEntry, Begun, Processing
    <3> QED BY <3>1, <3>2
  <2>4. PlainTypes'
    BY <1>0, <1>e, <1>3, <2>1, PlainKeeps DEF ReadFails, PlainTypes, Progress, WorkerPc, AtEntry, Begun, Processing
  <2> QED BY <1>0, <1>e, <1>3, <2>1, <2>2, <2>4 DEF IInv, Progress, StreamStep, ReadFails, WorkerPc, AtEntry, Begun, Processing, WorkerInv
<1>4. CASE WriteFails(w)
  <2>0. /\ pc[w] \in AtEntry /\ Drop(w, "poll")
        /\ UNCHANGED <<debounce, paused, node, req, started, hurried, slipped>>
        /\ \E kind : Fault(kind)
    BY <1>4 DEF WriteFails, AtEntry
  <2>1. Progress /\ StreamStep
    <3>1. CASE UNCHANGED <<stream, done>>
      BY <1>0, <2>0, <3>1, StillProgress DEF StreamStep
    <3>2. CASE pc[w] = "dlq_add" /\ AddDeadLetter(Entry(w)) /\ done' = done
      BY <1>0, <1>e, <2>0, <3>2, DeadProgress DEF StreamStep, WorkerInv
    <3>3. CASE pc[w] = "dlq_ack" /\ Xack(Entry(w)) /\ done' = done
      BY <1>0, <1>e, <2>0, <3>3, AckProgress DEF StreamStep, WorkerInv
    <3>4. CASE pc[w] = "ack" /\ Xack(Entry(w)) /\ done' = done \cup {Entry(w)}
      BY <1>0, <1>e, <2>0, <3>4, AckProgress DEF StreamStep, WorkerInv, Begun
    <3> QED BY <1>4, <3>1, <3>2, <3>3, <3>4 DEF WriteFails
  <2>2. LocalInv'
    BY <1>0, <1>e, <2>0, <2>1, DropKeeps DEF Progress, WorkerPc, AtEntry, Processing
  <2>3. PlainTypes'
    BY <1>0, <2>0, <2>1, PlainKeeps DEF PlainTypes, Progress
  <2> QED BY <2>1, <2>2, <2>3 DEF IInv, Progress
<1>5. CASE Crash(w)
  <2>1. Progress
    BY <1>0, <1>e, <1>5, StillProgress DEF Crash, WorkerPc, AtEntry, Begun, Processing
  <2>2. LocalInv'
    BY <1>0, <1>5, <2>1, DropKeeps DEF Crash, WorkerPc, AtEntry, Begun, Processing
  <2>4. PlainTypes'
    BY <1>0, <1>e, <1>5, <2>1, PlainKeeps DEF Crash, PlainTypes, Progress, WorkerPc, AtEntry, Begun, Processing
  <2> QED BY <1>0, <1>e, <1>5, <2>1, <2>2, <2>4 DEF IInv, Progress, StreamStep, Crash, WorkerPc, AtEntry, Begun, Processing, WorkerInv
<1>6. CASE Restart(w)
  <2>1. Progress
    BY <1>0, <1>e, <1>6, StillProgress DEF Restart, WorkerPc, AtEntry, Begun, Processing
  <2>2. LocalInv'
    BY <1>0, <1>d, <1>6, <2>1, GotoKeeps DEF Restart, WorkerInv, Progress, WorkerPc, AtEntry, Begun, Processing
  <2>4. PlainTypes'
    BY <1>0, <1>e, <1>6, <2>1, PlainKeeps DEF Restart, PlainTypes, Progress, WorkerPc, AtEntry, Begun, Processing
  <2> QED BY <1>0, <1>e, <1>6, <2>1, <2>2, <2>4 DEF IInv, Progress, StreamStep, Restart, WorkerPc, AtEntry, Begun, Processing, WorkerInv
<1> QED BY <1>1, <1>2, <1>3, <1>4, <1>5, <1>6 DEF ConsumerFault

\* The renewal of a claim.
LEMMA RenewInv ==
    ASSUME IInv, NEW w \in Workers, RenewClaim(w)
    PROVE  IInv' /\ StreamStep
<1>0. StreamInv /\ LocalInv /\ PlainTypes
  BY DEF IInv, PlainTypes
<1>1. Progress
  BY <1>0, ClockProgress DEF RenewClaim, history
<1>2. LocalInv'
  BY <1>0, <1>1, RequestKeeps DEF RenewClaim
<1>3. PlainTypes'
  BY <1>0, <1>1, PlainKeeps DEF RenewClaim, PlainTypes, Progress, history, node
<1> QED BY <1>1, <1>2, <1>3 DEF IInv, Progress, StreamStep, RenewClaim, history

\* Time.
LEMMA TickLocals ==
    ASSUME PlainTypes, NEW r \in Requests
    PROVE  (IF req[r].lead = 0 THEN req[r] ELSE [req[r] EXCEPT !.lead = @ - 1])
               \in RequestLocals
<1>1. req[r] \in RequestLocals
  BY DEF PlainTypes
<1>2. CASE req[r].lead # 0
  <2> DEFINE n == req[r].lead - 1
  <2>1. n \in 0..MaxSkew
    BY <1>1, <1>2, ConstantsAssumption DEF RequestLocals
  <2> HIDE DEF n
  <2>2. [req[r] EXCEPT !.lead = n] \in RequestLocals
    BY <1>1, <2>1 DEF RequestLocals
  <2> QED BY <1>2, <2>2 DEF n
<1> QED BY <1>1, <1>2

LEMMA TimeInv ==
    ASSUME IInv, \/ \E p \in Projects : DebounceExpires(p)
                 \/ \E j \in Jobs : Age(j)
                 \/ PauseExpires \/ Tick
    PROVE  IInv' /\ StreamStep
<1>0. StreamInv /\ LocalInv /\ PlainTypes
  BY DEF IInv, PlainTypes
<1>1. CASE \E p \in Projects : DebounceExpires(p)
  <2>1. Progress
    BY <1>0, <1>1, StillProgress DEF DebounceExpires, history
  <2>2. LocalInv'
    BY <1>0, <1>1, <2>1, RequestKeeps DEF DebounceExpires
  <2>3. PlainTypes'
    BY <1>0, <1>1, <2>1, PlainKeeps DEF DebounceExpires, PlainTypes, Progress, history, node
  <2> QED BY <1>1, <2>1, <2>2, <2>3 DEF IInv, Progress, StreamStep, DebounceExpires, history
<1>2. CASE \E j \in Jobs : Age(j)
  <2>1. Progress
    BY <1>0, <1>2, ClockProgress DEF Age, history
  <2>2. LocalInv'
    BY <1>0, <1>2, <2>1, RequestKeeps DEF Age
  <2>3. PlainTypes'
    BY <1>0, <1>2, <2>1, PlainKeeps DEF Age, PlainTypes, Progress, history, node
  <2> QED BY <1>2, <2>1, <2>2, <2>3 DEF IInv, Progress, StreamStep, Age, history
<1>3. CASE PauseExpires
  <2>1. Progress
    BY <1>0, <1>3, StillProgress DEF PauseExpires, history
  <2>2. LocalInv'
    BY <1>0, <1>3, <2>1, RequestKeeps DEF PauseExpires
  <2>3. paused' \in BOOLEAN
    BY <1>3, Zenon DEF PauseExpires
  <2>4. PlainTypes'
    BY <1>0, <1>3, <2>1, <2>3, PlainKeeps DEF PauseExpires, PlainTypes, Progress, history, node
  <2> QED BY <1>3, <2>1, <2>2, <2>4 DEF IInv, Progress, StreamStep, PauseExpires, history
<1>4. CASE Tick
  <2>1. Progress
    BY <1>0, <1>4, StillProgress DEF Tick, history
  <2>2. LocalInv'
    BY <1>0, <1>4, <2>1, RequestKeeps DEF Tick
  <2>3. lead' \in [Projects -> -1..MaxSkew]
    <3>1. \A x \in -1..MaxSkew : (IF x = -1 THEN -1 ELSE x - 1) \in -1..MaxSkew
      BY ConstantsAssumption
    <3>2. \A p \in Projects : lead[p] \in -1..MaxSkew
      BY <1>0 DEF PlainTypes
    <3>3. \A p \in Projects :
             (IF lead[p] = -1 THEN -1 ELSE lead[p] - 1) \in -1..MaxSkew
      BY <3>1, <3>2
    <3>4. lead' = [p \in Projects |-> IF lead[p] = -1 THEN -1 ELSE lead[p] - 1]
      BY <1>4 DEF Tick
    <3> QED BY <3>3, <3>4
  <2>4. req' \in [Requests -> RequestLocals]
    BY <1>0, <1>4, TickLocals DEF Tick, PlainTypes
  <2>5. PlainTypes'
    BY <1>0, <1>4, <2>3, <2>4 DEF Tick, PlainTypes, history
  <2> QED BY <1>4, <2>1, <2>2, <2>5 DEF IInv, Progress, StreamStep, Tick, history
<1> QED BY <1>1, <1>2, <1>3, <1>4

\* The invariant is inductive.
LEMMA StepInv == IInv /\ [Next]_vars => IInv' /\ (StreamStep \/ UNCHANGED vars)
<1> SUFFICES ASSUME IInv, [Next]_vars
             PROVE  IInv' /\ (StreamStep \/ UNCHANGED vars)
  OBVIOUS
<1>0. CASE UNCHANGED vars
  <2>1. StreamInv /\ LocalInv /\ PlainTypes
    BY DEF IInv
  <2>2. Progress
    BY <1>0, <2>1, StillProgress DEF vars, history
  <2>3. LocalInv'
    BY <1>0, <2>1, <2>2, RequestKeeps DEF vars, local
  <2>4. PlainTypes'
    BY <1>0, <2>1, <2>2, PlainKeeps DEF vars, history, node, PlainTypes, Progress
  <2> QED BY <1>0, <2>2, <2>3, <2>4 DEF IInv, Progress
<1>1. ASSUME NEW r \in Requests, RequestStep(r) PROVE IInv' /\ StreamStep
  BY <1>1, RequestInv
<1>2. ASSUME NEW w \in Workers, ConsumerLoop(w) \/ ConsumerFault(w) \/ RenewClaim(w)
      PROVE  IInv' /\ StreamStep
  BY <1>2, LoopInv, FaultInv, RenewInv
<1>3. CASE \/ \E p \in Projects : DebounceExpires(p)
           \/ \E j \in Jobs : Age(j)
           \/ PauseExpires \/ Tick
  BY <1>3, TimeInv
<1> QED BY <1>0, <1>1, <1>2, <1>3 DEF Next

\* The invariant gives the properties.
LEMMA InvGives == IInv => TypeOK /\ NoJobLost /\ SettledRightly
<1> SUFFICES ASSUME IInv PROVE TypeOK /\ NoJobLost /\ SettledRightly
  OBVIOUS
<1>0. StreamInv /\ LocalInv /\ PlainTypes /\ Known \subseteq 1..Last
  BY KnownJobs DEF IInv
<1>1. SettledRightly
  BY <1>0 DEF StreamInv, SettledRightly
<1>2. NoJobLost
  <2> SUFFICES ASSUME NEW j \in (base + 1)..Last
               PROVE  j \in Waiting \cup pel \cup done \cup dlq
    BY DEF NoJobLost
  <2>1. CASE j > delivered
    BY <2>1 DEF Waiting
  <2>2. CASE ~(j > delivered)
    BY <1>0, <2>2 DEF StreamInv, StreamTypeOK, Known
  <2> QED BY <2>1, <2>2
<1>3. batch \in [Workers -> Seq(1..Last)] /\ pos \in [Workers -> Nat \ {0}]
  <2>1. ASSUME NEW w \in Workers PROVE batch[w] \in Seq(1..Last) /\ pos[w] \in Nat \ {0}
    <3> DEFINE s == batch[w]
               S == 1..Last
    <3>1. s \in Seq(Jobs) /\ \A i \in 1..Len(s) : s[i] \in S
      BY <1>0 DEF LocalInv, WorkerInv
    <3> HIDE DEF S, s
    <3>2. Len(s) \in Nat /\ s \in [1..Len(s) -> Jobs]
      BY <3>1
    <3>3. s \in [1..Len(s) -> S]
      BY <3>1, <3>2
    <3>4. s \in Seq(S)
      BY <3>2, <3>3
    <3> QED BY <1>0, <3>4 DEF LocalInv, WorkerInv, S, s
  <2> QED BY <1>0, <2>1 DEF LocalInv
<1>4. /\ done \subseteq 1..Last /\ started \subseteq 1..Last
  BY <1>0 DEF StreamInv, PlainTypes, Known
<1> QED BY <1>0, <1>1, <1>2, <1>3, <1>4 DEF TypeOK, StreamInv, LocalInv, PlainTypes

-----------------------------------------------------------------------------
(* Theorems.                                                               *)

LEMMA Invariant == Spec => []IInv
<1>1. IInv /\ [Next]_vars => IInv'
  BY StepInv
<1> QED BY InitInv, <1>1, PTL DEF Spec

\* Every reachable state is well typed.
THEOREM TypeCorrect == Spec => []TypeOK
BY Invariant, InvGives, PTL

\* No job that was added since the group exists is ever lost: it waits, is
\* pending, or is settled, whatever crashes and failed commands happen.
THEOREM JobsKept == Spec => []NoJobLost
BY Invariant, InvGives, PTL

\* An entry is acknowledged only once it was run or dead-lettered, and
\* dead-lettered only after MAX_DELIVERIES deliveries.
THEOREM Rightly == Spec => []SettledRightly
BY Invariant, InvGives, PTL

-----------------------------------------------------------------------------
(* The queue implements AtLeastOnce.                                       *)

\* An entry that is delivered, and not settled, is open.
LEMMA OpenOrSettled == Known = Open \cup Settled
BY DEF Known, Open, Settled

\* What a step does to the stream is a step of the abstract queue, or none.
LEMMA StreamStepMaps ==
    ASSUME IInv, IInv', StreamStep
    PROVE  Queue!Next \/ UNCHANGED Queue!vars
<1> USE StreamAssumption DEF Queue!vars
<1>0. /\ StreamInv /\ Last \in Nat /\ Last <= MaxJobs /\ delivered \in Int /\ base \in Nat
      /\ Known \subseteq 1..Last
  <2>1. StreamInv
    BY DEF IInv
  <2>2. project \in Seq(Projects) /\ Last <= MaxJobs
    BY <2>1 DEF StreamInv, StreamTypeOK
  <2>3. Last \in Nat
    BY <2>2 DEF Last
  <2>4. delivered \in -1..Last /\ base \in 0..Last
    BY <2>1 DEF StreamInv, StreamTypeOK
  <2> HIDE DEF Last
  <2>5. delivered \in Int /\ base \in Nat
    BY <2>3, <2>4
  <2>6. Known \subseteq 1..Last
    BY <2>1, KnownJobs
  <2> QED BY <2>1, <2>2, <2>3, <2>5, <2>6
<1>1. CASE UNCHANGED <<stream, done>>
  BY <1>1 DEF stream, Waiting, Open, Settled, Last
<1>2. CASE done' = done /\ \E p \in Projects : AddEntry(p)
  <2>1. PICK p \in Projects : AddEntry(p)
    BY <1>2
  <2>2. Last' = Last + 1 /\ Last < MaxJobs
    BY <1>0, <2>1 DEF AddEntry, StreamInv, StreamTypeOK, Last
  <2>3. Open' = Open /\ Settled' = Settled
    BY <1>2, <2>1 DEF AddEntry, Open, Settled
  <2>4. CASE delivered = -1
    <3>1. Waiting = {} /\ Waiting' = {}
      BY <1>0, <2>1, <2>2, <2>4 DEF AddEntry, Waiting, StreamInv
    <3> QED BY <2>3, <3>1
  <2>5. CASE delivered # -1
    <3>1. base <= delivered /\ delivered <= Last
      BY <1>0, <2>5 DEF StreamInv, StreamTypeOK
    <3>2. Waiting' = Waiting \cup {Last + 1}
      BY <1>0, <2>1, <2>2, <2>5, <3>1 DEF AddEntry, Waiting
    <3>3. Last + 1 \in Jobs /\ Last + 1 \notin Waiting \cup Open \cup Settled
      BY <1>0, <2>2, OpenOrSettled DEF Waiting, Jobs
    <3>4. Queue!Accept(Last + 1)
      BY <2>3, <3>2, <3>3 DEF Queue!Accept
    <3> QED BY <3>3, <3>4 DEF Queue!Next
  <2> QED BY <2>4, <2>5
<1>3. CASE done' = done /\ CreateGroup
  <2>1. Waiting' = Waiting
    BY <1>0, <1>3 DEF CreateGroup, Waiting, StreamInv, Last
  <2> QED BY <1>3, <2>1 DEF CreateGroup, Open, Settled
<1>4. CASE /\ done' = done
           /\ \E S \in SUBSET Nat :
                /\ delivered # -1 /\ S # {}
                /\ S = Lowest((delivered + 1)..Last, BatchSize)
                /\ ReadGroup(S)
  <2>1. PICK S \in SUBSET Nat :
                /\ delivered # -1 /\ S # {}
                /\ S = Lowest((delivered + 1)..Last, BatchSize)
                /\ ReadGroup(S)
    BY <1>4
  <2>2. S \subseteq Waiting /\ Waiting' = Waiting \ S /\ S \cap Known = {}
    BY <1>0, <2>1, ReadMoves
  <2>3. Open' = Open \cup S /\ Settled' = Settled
    BY <1>4, <2>1, <2>2 DEF ReadGroup, CountDelivery, Open, Settled, Known
  <2>4. Queue!Deliver
    BY <2>1, <2>2, <2>3 DEF Queue!Deliver
  <2> QED BY <2>4 DEF Queue!Next
<1>5. CASE done' = done /\ \E S \in SUBSET stale : AutoClaim(S)
  <2>1. pel' = pel /\ UNCHANGED <<project, base, delivered, dlq>>
    BY <1>0, <1>5 DEF AutoClaim, CountDelivery, StreamInv, StreamTypeOK
  <2> QED BY <1>5, <2>1 DEF Waiting, Open, Settled, Last
<1>6. CASE done' = done /\ \E j \in Known : AddDeadLetter(j)
  <2>1. PICK j \in Known : AddDeadLetter(j)
    BY <1>6
  <2>2. Waiting' = Waiting /\ Open' = Open \ {j} /\ Settled' = Settled \cup {j}
    BY <1>6, <2>1 DEF AddDeadLetter, Waiting, Open, Settled, Last
  <2>3. CASE j \in Open
    BY <1>0, <2>1, <2>2, <2>3, KnownJobs DEF Queue!Next, Queue!Settle
  <2>4. CASE j \in Settled
    BY <2>2, <2>4 DEF Open
  <2> QED BY <2>1, <2>3, <2>4, OpenOrSettled
<1>7. CASE done' = done /\ \E j : GrowStale(j) \/ Renew(j)
  BY <1>7 DEF GrowStale, Renew, Waiting, Open, Settled, Last
<1>8. CASE \E j \in Known :
              /\ Xack(j)
              /\ (done' = done /\ j \in dlq) \/ done' = done \cup {j}
  <2>1. PICK j \in Known : /\ Xack(j)
                           /\ (done' = done /\ j \in dlq) \/ done' = done \cup {j}
    BY <1>8
  <2>2. Waiting' = Waiting /\ Open' = Open \ {j} /\ Settled' = Settled \cup {j}
    BY <2>1 DEF Xack, Waiting, Open, Settled, Last
  <2>3. CASE j \in Open
    BY <1>0, <2>1, <2>2, <2>3, KnownJobs DEF Queue!Next, Queue!Settle
  <2>4. CASE j \in Settled
    BY <2>2, <2>4 DEF Open
  <2> QED BY <2>1, <2>3, <2>4, OpenOrSettled
<1> QED BY <1>1, <1>2, <1>3, <1>4, <1>5, <1>6, <1>7, <1>8 DEF StreamStep

\* Every step of the queue is a step of AtLeastOnce, or changes nothing it
\* speaks of: a job waits, is open and is settled, in this order, and never
\* leaves.
THEOREM ImplementsAtLeastOnce == Spec => Queue!SafeSpec
<1>1. Init => Queue!Init
  BY DEF Init, InitStream, Queue!Init, Waiting, Open, Settled, Last
<1>2. IInv /\ [Next]_vars => IInv'
  BY StepInv
<1>3. IInv /\ [Next]_vars => [Queue!Next]_(Queue!vars)
  <2> SUFFICES ASSUME IInv, [Next]_vars PROVE [Queue!Next]_(Queue!vars)
    OBVIOUS
  <2>1. IInv' /\ (StreamStep \/ UNCHANGED vars)
    BY StepInv
  <2>2. UNCHANGED vars => StreamStep
    BY DEF vars, history, StreamStep
  <2> QED BY <2>1, <2>2, StreamStepMaps
<1> QED BY InitInv, <1>1, <1>2, <1>3, PTL DEF Spec, Queue!SafeSpec

-----------------------------------------------------------------------------
(* The guarded write of "queued".                                          *)

\* The node's timestamp has reached only_if_before, which is no longer ahead.
Late(r) == req[r].lead = 0 /\ req[r].passed

\* What a request about to write knows of its job: it is on the stream, and
\* if a consumer has begun with it when only_if_before was no longer ahead, then
\* the timestamp on the node has reached it and stays there.
GuardInv ==
    \A r \in Requests :
        faults = 0 /\ pc[r] = "queued" =>
            /\ req[r].id \in 1..Last /\ project[req[r].id] = req[r].project
            /\ req[r].id \in started => r \in hurried \/ Late(r)

\* A request keeps what it has captured; a late one stays late.
SameRequest(r) ==
    /\ pc'[r] = pc[r]
    /\ req'[r].id = req[r].id /\ req'[r].project = req[r].project
    /\ Late(r) => Late(r)'
    /\ r \in hurried => r \in hurried'

\* What a status write does to a request: once only_if_before is not ahead, any
\* write on the node reaches it.
LEMMA Raised ==
    ASSUME PlainTypes, NEW p \in Projects, NEW d \in 0..MaxSkew, NEW r \in Requests,
           req'[r] = Noticed(p, d)[r]
    PROVE  /\ req'[r].id = req[r].id /\ req'[r].project = req[r].project
           /\ Late(r) => Late(r)'
           /\ req[r].project = p /\ pc[r] # "idle" /\ req[r].lead = 0 => Late(r)'
<1>1. req[r] \in RequestLocals
  BY DEF PlainTypes
<1>2. req'[r] = IF req[r].project = p /\ pc[r] # "idle"
                  THEN [req[r] EXCEPT !.passed = d >= req[r].lead] ELSE req[r]
  BY DEF Noticed
<1>3. CASE req[r].project = p /\ pc[r] # "idle"
  <2> DEFINE b == d >= req[r].lead
  <2>1. req[r].lead = 0 => b = TRUE
    BY ConstantsAssumption
  <2> HIDE DEF b
  <2>2. req'[r] = [project |-> req[r].project, id |-> req[r].id, lead |-> req[r].lead,
                   passed |-> b]
    BY <1>1, <1>2, <1>3 DEF RequestLocals, b
  <2>3. /\ req'[r].id = req[r].id /\ req'[r].project = req[r].project
        /\ req'[r].lead = req[r].lead /\ req'[r].passed = b
    BY <2>2
  <2> QED BY <2>1, <2>3 DEF Late
<1>4. CASE ~(req[r].project = p /\ pc[r] # "idle")
  BY <1>2, <1>4 DEF Late
<1> QED BY <1>3, <1>4

\* The steps of a consumer, as its requests see them.
LEMMA ConsumerFrame ==
    ASSUME IInv, NEW w \in Workers, ConsumerLoop(w) \/ ConsumerFault(w) \/ RenewClaim(w)
    PROVE  /\ project' = project /\ faults' >= faults
           /\ \A r \in Requests : SameRequest(r)
           /\ started' = started \/ Begin(w)
<1>0. /\ StreamInv /\ LocalInv /\ PlainTypes /\ faults \in Nat
  BY DEF IInv, PlainTypes
<1>p. pc[w] \in AtEntry => project[Entry(w)] \in Projects
  BY <1>0, EntryKnown
<1>g. ASSUME NEW label, Goto(w, label), NEW r \in Requests PROVE pc'[r] = pc[r]
  BY <1>0, <1>g, ConstantsAssumption DEF Goto, LocalInv, Procs
<1>m. \E label : Goto(w, label) \/ pc' = pc
  <2>1. ASSUME NEW label, Drop(w, label) PROVE Goto(w, label)
    BY <2>1 DEF Drop
  <2>2. Advance(w) => \E label : Goto(w, label)
    BY DEF Advance, Drop
  <2>3. CASE ConsumerLoop(w)
    BY <2>1, <2>2, <2>3 DEF ConsumerLoop, EnsureGroup, Poll, PollAgain, ClaimStale, ReadNew,
       CheckDeliveries, DeadLetterAdd, DeadLetterAck, Begin, Sync, Conclude,
       Ack, Fail, LeaveQueued, PauseUntil, Take
  <2>4. CASE ConsumerFault(w)
    BY <2>1, <2>4 DEF ConsumerFault, EnsureGroupFails, SyncRateLimited, ReadFails,
       WriteFails, Crash, Restart
  <2>5. CASE RenewClaim(w)
    BY <2>5 DEF RenewClaim
  <2> QED BY <2>3, <2>4, <2>5
<1>q. UNCHANGED req \/ \E s : SetStatus(w, s) /\ pc[w] \in AtEntry
  <2>3. CASE ConsumerLoop(w)
    BY <2>3 DEF ConsumerLoop, EnsureGroup, Poll, PollAgain, ClaimStale, ReadNew,
       CheckDeliveries, DeadLetterAdd, DeadLetterAck, Begin, Sync, Conclude,
       Ack, Fail, LeaveQueued, PauseUntil, AtEntry, Processing
  <2>4. CASE ConsumerFault(w)
    BY <2>4 DEF ConsumerFault, EnsureGroupFails, SyncRateLimited, ReadFails,
       WriteFails, Crash, Restart
  <2>5. CASE RenewClaim(w)
    BY <2>5 DEF RenewClaim
  <2> QED BY <2>3, <2>4, <2>5
<1>1. project' = project
  <2>3. CASE ConsumerLoop(w)
    BY <2>3 DEF ConsumerLoop, EnsureGroup, Poll, PollAgain, ClaimStale, ReadNew,
       CheckDeliveries, DeadLetterAdd, DeadLetterAck, Begin, Sync, Conclude,
       Ack, Fail, LeaveQueued, PauseUntil, stream, CreateGroup, AutoClaim,
       ReadGroup, AddDeadLetter, Xack
  <2>4. CASE ConsumerFault(w)
    BY <2>4 DEF ConsumerFault, EnsureGroupFails, SyncRateLimited, ReadFails,
       WriteFails, Crash, Restart, stream, AddDeadLetter, Xack
  <2>5. CASE RenewClaim(w)
    BY <2>5 DEF RenewClaim, Renew
  <2> QED BY <2>3, <2>4, <2>5
<1>2. faults' >= faults
  <2>1. faults' = faults \/ faults' = faults + 1
    <3>3. CASE ConsumerLoop(w)
      BY <3>3 DEF ConsumerLoop, EnsureGroup, Poll, PollAgain, ClaimStale, ReadNew,
         CheckDeliveries, DeadLetterAdd, DeadLetterAck, Begin, Sync, Conclude,
         Ack, Fail, LeaveQueued, PauseUntil, history, SetStatus, Fault
    <3>4. CASE ConsumerFault(w)
      BY <3>4 DEF ConsumerFault, EnsureGroupFails, SyncRateLimited, ReadFails,
         WriteFails, Crash, Restart, history, Fault
    <3>5. CASE RenewClaim(w)
      BY <3>5 DEF RenewClaim, history
    <3> QED BY <3>3, <3>4, <3>5
  <2> QED BY <1>0, <2>1
<1>3. started' = started \/ Begin(w)
  <2>3. CASE ConsumerLoop(w)
    BY <2>3 DEF ConsumerLoop, EnsureGroup, Poll, PollAgain, ClaimStale, ReadNew,
       CheckDeliveries, DeadLetterAdd, DeadLetterAck, Sync, Conclude,
       Ack, Fail, LeaveQueued, PauseUntil, history
  <2>4. CASE ConsumerFault(w)
    BY <2>4 DEF ConsumerFault, EnsureGroupFails, SyncRateLimited, ReadFails,
       WriteFails, Crash, Restart, history
  <2>5. CASE RenewClaim(w)
    BY <2>5 DEF RenewClaim, history
  <2> QED BY <2>3, <2>4, <2>5
<1>5. hurried \subseteq hurried'
  <2>3. CASE ConsumerLoop(w)
    BY <2>3 DEF ConsumerLoop, EnsureGroup, Poll, PollAgain, ClaimStale, ReadNew,
       CheckDeliveries, DeadLetterAdd, DeadLetterAck, Begin, Sync, Conclude,
       Ack, Fail, LeaveQueued, PauseUntil, history
  <2>4. CASE ConsumerFault(w)
    BY <2>4 DEF ConsumerFault, EnsureGroupFails, SyncRateLimited, ReadFails,
       WriteFails, Crash, Restart, history
  <2>5. CASE RenewClaim(w)
    BY <2>5 DEF RenewClaim, history
  <2> QED BY <2>3, <2>4, <2>5
<1>4. ASSUME NEW r \in Requests PROVE SameRequest(r)
  <2>1. pc'[r] = pc[r]
    BY <1>m, <1>g
  <2>2. /\ req'[r].id = req[r].id /\ req'[r].project = req[r].project
        /\ Late(r) => Late(r)'
    <3>1. CASE UNCHANGED req
      BY <3>1 DEF Late
    <3>2. CASE \E s : WriteStatus(project[Entry(w)], s) /\ pc[w] \in AtEntry
      <4>1. PICK d \in 0..MaxSkew : req' = Noticed(project[Entry(w)], d)
        BY <3>2 DEF WriteStatus
      <4> QED BY <1>0, <1>p, <3>2, <4>1, Raised
    <3> QED BY <1>q, <3>1, <3>2 DEF SetStatus
  <2>3. r \in hurried => r \in hurried'
    BY <1>5
  <2> QED BY <2>1, <2>2, <2>3 DEF SameRequest
<1> QED BY <1>1, <1>2, <1>3, <1>4

\* What a step that begins no run preserves.
LEMMA GuardFrame ==
    ASSUME IInv, GuardInv, started' = started, faults' >= faults, faults' \in Nat,
           Last' >= Last, Last' \in Nat, \A j \in 1..Last : project'[j] = project[j],
           NEW r \in Requests, SameRequest(r) \/ pc'[r] # "queued"
    PROVE  faults' = 0 /\ pc'[r] = "queued" =>
               /\ req'[r].id \in 1..Last' /\ project'[req'[r].id] = req'[r].project
               /\ req'[r].id \in started' => r \in hurried' \/ Late(r)'
<1> SUFFICES ASSUME faults' = 0, pc'[r] = "queued"
             PROVE  /\ req'[r].id \in 1..Last' /\ project'[req'[r].id] = req'[r].project
                    /\ req'[r].id \in started' => r \in hurried' \/ Late(r)'
  OBVIOUS
<1>1. faults = 0 /\ SameRequest(r) /\ Last \in Nat
  BY DEF IInv, PlainTypes, StreamInv, StreamTypeOK, Last
<1>2. pc[r] = "queued"
  BY <1>1 DEF SameRequest
<1>3. /\ req[r].id \in 1..Last /\ project[req[r].id] = req[r].project
      /\ req[r].id \in started => r \in hurried \/ Late(r)
  BY <1>1, <1>2 DEF GuardInv
<1> QED BY <1>1, <1>3 DEF SameRequest

\* A request's step, as the other requests see it.
LEMMA RequestFrame ==
    ASSUME IInv, NEW q \in Requests, RequestStep(q)
    PROVE  /\ started' = started /\ faults' >= faults /\ faults' \in Nat
           /\ Last' >= Last /\ Last' \in Nat /\ \A j \in 1..Last : project'[j] = project[j]
           /\ \A r \in Requests : r # q => SameRequest(r)
<1>0. /\ StreamInv /\ LocalInv /\ PlainTypes /\ faults \in Nat /\ Last \in Nat
      /\ project \in Seq(Projects)
  <2>1. StreamInv /\ LocalInv /\ PlainTypes
    BY DEF IInv
  <2>2. project \in Seq(Projects) /\ faults \in Nat
    BY <2>1 DEF PlainTypes, StreamInv, StreamTypeOK
  <2>3. Last \in Nat
    BY <2>2 DEF Last
  <2> QED BY <2>1, <2>2, <2>3
<1>1. started' = started
  BY DEF RequestStep, Debounce, EnqueueXadd, EnqueueFails, MarkQueued, MarkQueuedFails, history
<1>2. faults' = faults \/ faults' = faults + 1
  BY DEF RequestStep, Debounce, EnqueueXadd, EnqueueFails, MarkQueued, MarkQueuedFails,
         history, Fault
<1>3. project' = project \/ \E p \in Projects : project' = Append(project, p)
  BY <1>0 DEF RequestStep, Debounce, EnqueueXadd, EnqueueFails, MarkQueued, MarkQueuedFails,
         stream, AddEntry, PlainTypes, RequestLocals
<1>4. Last' >= Last /\ Last' \in Nat /\ \A j \in 1..Last : project'[j] = project[j]
  <2>1. CASE project' = project
    BY <1>0, <2>1 DEF Last
  <2>2. CASE \E p \in Projects : project' = Append(project, p)
    BY <1>0, <2>2 DEF Last
  <2> QED BY <1>3, <2>1, <2>2
<1>5. ASSUME NEW r \in Requests, r # q PROVE SameRequest(r)
  <2>1. pc'[r] = pc[r]
    <3>1. \E label : Goto(q, label)
      BY DEF RequestStep, Debounce, EnqueueXadd, EnqueueFails, MarkQueued, MarkQueuedFails,
             Leave
    <3> QED BY <1>0, <1>5, <3>1 DEF Goto, LocalInv, Procs
  <2>2. \/ req'[r] = req[r]
        \/ \E p \in Projects, d \in 0..MaxSkew : req'[r] = Noticed(p, d)[r]
    <3>1. CASE MarkQueued(q)
      <4>1. req[q].project \in Projects
        BY <1>0 DEF PlainTypes, RequestLocals
      <4>2. CASE req' = Forgotten(req, q)
        BY <1>0, <1>5, <4>2 DEF Forgotten, PlainTypes
      <4>3. CASE \E d \in 0..MaxSkew : req' = Forgotten(Noticed(req[q].project, d), q)
        BY <1>5, <4>1, <4>3 DEF Forgotten, Noticed
      <4> QED BY <3>1, <4>2, <4>3 DEF MarkQueued
    <3>2. CASE ~MarkQueued(q)
      BY <1>0, <1>5, <3>2 DEF RequestStep, Debounce, EnqueueXadd, EnqueueFails,
                              MarkQueuedFails, PlainTypes, Forgotten
    <3> QED BY <3>1, <3>2
  <2>3. /\ req'[r].id = req[r].id /\ req'[r].project = req[r].project
        /\ Late(r) => Late(r)'
    BY <1>0, <2>2, Raised DEF Late
  <2>4. r \in hurried => r \in hurried'
    BY <1>5 DEF RequestStep, Debounce, EnqueueXadd, EnqueueFails, MarkQueued, MarkQueuedFails,
            Leave, history
  <2> QED BY <2>1, <2>3, <2>4 DEF SameRequest
<1> QED BY <1>0, <1>1, <1>2, <1>4, <1>5

\* Every step keeps what the requests know of their jobs.
LEMMA StepGuard == IInv /\ GuardInv /\ [Next]_vars => GuardInv'
<1> SUFFICES ASSUME IInv, GuardInv, [Next]_vars, NEW r \in Requests
             PROVE  faults' = 0 /\ pc'[r] = "queued" =>
                        /\ req'[r].id \in 1..Last' /\ project'[req'[r].id] = req'[r].project
                        /\ req'[r].id \in started' => r \in hurried' \/ Late(r)'
  BY DEF GuardInv
<1>0. /\ StreamInv /\ LocalInv /\ PlainTypes /\ faults \in Nat /\ Last \in Nat
      /\ project \in Seq(Projects) /\ IInv' /\ faults' \in Nat
  <2>1. IInv'
    BY StepInv
  <2>2. faults' \in Nat
    BY <2>1 DEF IInv, PlainTypes
  <2>3. StreamInv /\ LocalInv /\ PlainTypes
    BY DEF IInv
  <2>4. project \in Seq(Projects) /\ faults \in Nat
    BY <2>3 DEF PlainTypes, StreamInv, StreamTypeOK
  <2>5. Last \in Nat
    BY <2>4 DEF Last
  <2> QED BY <2>1, <2>2, <2>3, <2>4, <2>5
<1>1. CASE UNCHANGED vars
  BY <1>0, <1>1, GuardFrame DEF vars, history, stream, Last, SameRequest, Late
<1>2. ASSUME NEW q \in Requests, RequestStep(q), q # r
      PROVE  faults' = 0 /\ pc'[r] = "queued" =>
                 /\ req'[r].id \in 1..Last' /\ project'[req'[r].id] = req'[r].project
                 /\ req'[r].id \in started' => r \in hurried' \/ Late(r)'
  BY <1>2, RequestFrame, GuardFrame
<1>3. CASE RequestStep(r)
  <2>1. CASE EnqueueXadd(r)
    <3>1. /\ project' = Append(project, req[r].project) /\ started' = started
          /\ req' = [req EXCEPT ![r].id = Last + 1]
      BY <2>1 DEF EnqueueXadd, AddEntry, history
    <3>2. req[r] \in RequestLocals
      BY <1>0 DEF PlainTypes
    <3>3. req'[r].id = Last + 1 /\ req'[r].project = req[r].project
      BY <1>0, <3>1, <3>2 DEF PlainTypes
    <3>4. Last' = Last + 1 /\ project'[Last + 1] = req[r].project
      BY <1>0, <3>1, <3>2 DEF Last
    <3>5. Last + 1 \notin started
      BY <1>0, KnownJobs DEF StreamInv
    <3>6. Last + 1 \in 1..Last'
      BY <1>0, <3>4
    <3>7. req'[r].id \notin started'
      BY <3>1, <3>3, <3>5
    <3>8. project'[req'[r].id] = req'[r].project
      BY <3>3, <3>4
    <3> QED BY <3>3, <3>6, <3>7, <3>8
  <2>2. CASE ~EnqueueXadd(r)
    <3>1. pc'[r] # "queued"
      BY <1>0, <1>3, <2>2 DEF RequestStep, Debounce, EnqueueFails, MarkQueued,
                              MarkQueuedFails, Leave, Goto, LocalInv, Procs
    <3> QED BY <3>1
  <2> QED BY <2>1, <2>2
<1>4. ASSUME NEW w \in Workers, ConsumerLoop(w) \/ ConsumerFault(w) \/ RenewClaim(w)
      PROVE  faults' = 0 /\ pc'[r] = "queued" =>
                 /\ req'[r].id \in 1..Last' /\ project'[req'[r].id] = req'[r].project
                 /\ req'[r].id \in started' => r \in hurried' \/ Late(r)'
  <2>1. /\ project' = project /\ faults' >= faults /\ SameRequest(r)
        /\ started' = started \/ Begin(w)
    BY <1>4, ConsumerFrame
  <2>2. Last' = Last /\ Last' >= Last
    BY <1>0, <2>1 DEF Last
  <2>3. CASE started' = started
    BY <1>0, <2>1, <2>2, <2>3, GuardFrame
  <2>4. CASE Begin(w)
    <3> SUFFICES ASSUME faults' = 0, pc'[r] = "queued"
                 PROVE  /\ req'[r].id \in 1..Last' /\ project'[req'[r].id] = req'[r].project
                        /\ req'[r].id \in started' => r \in hurried' \/ Late(r)'
      OBVIOUS
    <3>1. faults = 0 /\ pc[r] = "queued"
      BY <1>0, <2>1 DEF SameRequest
    <3>2. /\ req[r].id \in 1..Last /\ project[req[r].id] = req[r].project
          /\ req[r].id \in started => r \in hurried \/ Late(r)
      BY <3>1 DEF GuardInv
    <3>3. /\ started' = started \cup {Entry(w)}
          /\ hurried' = hurried \cup {x \in Requests : Waits(x, Entry(w)) /\ req[x].lead > 0}
          /\ WriteStatus(project[Entry(w)], "running") /\ pc[w] \in AtEntry
      BY <1>0, <2>4, <3>1 DEF Begin, SetStatus, Fault, AtEntry, Processing
    <3>4. project[Entry(w)] \in Projects
      BY <1>0, <3>3, EntryKnown
    <3>5. req[r].id = Entry(w) => r \in hurried' \/ Late(r)'
      <4> SUFFICES ASSUME req[r].id = Entry(w), r \notin hurried' PROVE Late(r)'
        OBVIOUS
      <4>1. req[r].lead \in Nat
        BY <1>0, ConstantsAssumption DEF PlainTypes, RequestLocals
      <4>2. req[r].lead = 0
        BY <3>1, <3>3, <4>1 DEF Waits
      <4>3. PICK d \in 0..MaxSkew : req' = Noticed(project[Entry(w)], d)
        BY <3>3 DEF WriteStatus
      <4> QED BY <1>0, <3>1, <3>2, <3>4, <4>2, <4>3, Raised
    <3> QED BY <2>1, <2>2, <3>2, <3>3, <3>5 DEF SameRequest
  <2> QED BY <2>1, <2>3, <2>4
<1>5. CASE \/ \E p \in Projects : DebounceExpires(p)
           \/ \E j \in Jobs : Age(j)
           \/ PauseExpires \/ Tick
  <2>1. UNCHANGED <<project, pc, started, hurried, faults>>
    BY <1>5 DEF DebounceExpires, Age, GrowStale, PauseExpires, Tick, stream, history
  <2>2. UNCHANGED req \/ Tick
    BY <1>5 DEF DebounceExpires, Age, PauseExpires
  <2>3. SameRequest(r)
    <3>1. CASE UNCHANGED req
      BY <2>1, <3>1 DEF SameRequest, Late
    <3>2. CASE Tick
      <4>1. req'[r] = IF req[r].lead = 0 THEN req[r] ELSE [req[r] EXCEPT !.lead = @ - 1]
        BY <3>2 DEF Tick
      <4>2. req[r] \in RequestLocals
        BY <1>0 DEF PlainTypes
      <4>3. req'[r].id = req[r].id /\ req'[r].project = req[r].project
        BY <4>1, <4>2 DEF RequestLocals
      <4> QED BY <2>1, <4>1, <4>3 DEF SameRequest, Late
    <3> QED BY <2>2, <3>1, <3>2
  <2> QED BY <1>0, <2>1, <2>3, GuardFrame DEF Last
<1> QED BY <1>1, <1>2, <1>3, <1>4, <1>5 DEF Next

\* With the timestamp guard, as in deployment_sync, and clocks that differ by
\* MaxSkew at most, the optimistic write of a request replaces what the run of
\* its own job has written only if that run began within MaxSkew of the capture.
THEOREM GuardHolds == Guarded => (Spec => QueuedNeverClobbers)
<1> SUFFICES ASSUME Guarded PROVE Spec => QueuedNeverClobbers
  OBVIOUS
<1>1. Init => GuardInv
  BY ConstantsAssumption DEF Init, GuardInv, Procs
<1>2. IInv /\ [Next]_vars => IInv'
  BY StepInv
<1>3. IInv /\ GuardInv /\ [Next]_vars =>
        [\A r \in Requests :
           faults = 0 /\ pc[r] = "queued" /\ pc'[r] = "idle" /\ status' # status
             => r \in hurried \/ req[r].id \notin started]_vars
  <2> SUFFICES ASSUME IInv, GuardInv, Next, NEW r \in Requests,
                      faults = 0, pc[r] = "queued", pc'[r] = "idle", status' # status
               PROVE  r \in hurried \/ req[r].id \notin started
    OBVIOUS
  <2>1. ASSUME NEW q \in Requests, RequestStep(q) PROVE q = r
    BY <2>1, RequestFrame DEF SameRequest
  <2>2. ASSUME NEW w \in Workers, ConsumerLoop(w) \/ ConsumerFault(w) \/ RenewClaim(w)
        PROVE  FALSE
    BY <2>2, ConsumerFrame DEF SameRequest
  <2>3. RequestStep(r)
    BY <2>1, <2>2 DEF Next, DebounceExpires, Age, PauseExpires, Tick, node
  <2>4. ~Late(r)
    BY <2>3 DEF RequestStep, Debounce, EnqueueXadd, EnqueueFails, MarkQueued, MarkQueuedFails,
                node, Late
  <2> QED BY <2>4 DEF GuardInv
<1> QED BY InitInv, <1>1, <1>2, <1>3, StepGuard, PTL DEF Spec, QueuedNeverClobbers

-----------------------------------------------------------------------------
(* The status a project is left with.                                      *)

\* Where a consumer has no batch.
Resting == {"ensure", "poll", "claim", "poll2", "read"}

\* w has been given j first, and will begin to run it.
ToBegin(w, j) ==
    /\ ~claimed[w]
    /\ \E i \in pos[w]..Len(batch[w]) :
          batch[w][i] = j /\ (i = pos[w] => pc[w] = "begin")

\* w runs an entry of p.
Runs(w, p) == pc[w] \in Processing \ {"begin"} /\ project[Entry(w)] = p

\* Without a fault no consumer is stopped or limited, and none lets go of an
\* entry it has not run: what nobody has begun is in somebody's hands.
HandsInv ==
    /\ \A w \in Workers : pc[w] \notin {"limited", "pause", "down"}
    /\ \A w \in Workers : pc[w] \in Resting => batch[w] = <<>>
    /\ \A j \in Known \ started : \E w \in Workers : ToBegin(w, j)

\* A project that is queued has a job that nobody has begun, or was written by
\* a hurried request; one that is running has a consumer that will conclude.
StatusInv ==
    /\ \A p \in Projects : status[p] = "queued" =>
          p \in slipped \/ \E j \in 1..Last : project[j] = p /\ j \notin started
    /\ \A p \in Projects : status[p] = "running" => \E w \in Workers : Runs(w, p)

SettleInv == faults = 0 => HandsInv /\ StatusInv

SameHands(w) ==
    /\ pc'[w] = pc[w] /\ pos'[w] = pos[w] /\ batch'[w] = batch[w]
    /\ claimed'[w] = claimed[w]

\* A consumer that does not move keeps what it has in hand, and what it runs.
LEMMA SameHandsKeep ==
    ASSUME IInv, NEW w \in Workers, SameHands(w),
           \A j \in 1..Last : project'[j] = project[j]
    PROVE  /\ \A j : ToBegin(w, j) => ToBegin(w, j)'
           /\ \A p : Runs(w, p) => Runs(w, p)'
<1>1. \A j : ToBegin(w, j) => ToBegin(w, j)'
  BY DEF ToBegin, SameHands
<1>2. ASSUME NEW p, Runs(w, p) PROVE Runs(w, p)'
  <2>1. Entry(w) \in Known /\ StreamInv
    BY <1>2, EntryKnown DEF IInv, Runs, AtEntry
  <2>2. Entry(w) \in 1..Last
    BY <2>1, KnownJobs
  <2>3. Entry(w)' = Entry(w)
    BY DEF Entry, SameHands
  <2> QED BY <1>2, <2>2, <2>3 DEF Runs, SameHands
<1> QED BY <1>1, <1>2

\* A step of anything but a consumer leaves the hands as they are.
LEMMA HandsStill ==
    ASSUME IInv, HandsInv, \A w \in Workers : SameHands(w), Known' = Known, started' = started,
           \A j \in 1..Last : project'[j] = project[j]
    PROVE  HandsInv'
<1>1. \A w \in Workers : /\ pc'[w] \notin {"limited", "pause", "down"}
                         /\ pc'[w] \in Resting => batch'[w] = <<>>
  BY DEF HandsInv, SameHands
<1>2. \A j \in Known' \ started' : \E w \in Workers : ToBegin(w, j)'
  BY SameHandsKeep DEF HandsInv
<1> QED BY <1>1, <1>2 DEF HandsInv

\* And the status, unless it is the status itself that is written.
LEMMA StatusStill ==
    ASSUME IInv, StatusInv, \A w \in Workers : SameHands(w), started' = started,
           \A j \in 1..Last : project'[j] = project[j], Last' >= Last, Last' \in Nat,
           \A p \in Projects : \/ status'[p] = status[p] /\ (p \in slipped => p \in slipped')
                               \/ /\ status'[p] = "queued"
                                  /\ \/ p \in slipped'
                                     \/ \E j \in 1..Last : project[j] = p /\ j \notin started
    PROVE  StatusInv'
<1>0. Last \in Nat
  BY DEF IInv, StreamInv, StreamTypeOK, Last
<1>1. ASSUME NEW p \in Projects, status'[p] = "queued", p \notin slipped'
      PROVE  \E j \in 1..Last' : project'[j] = p /\ j \notin started'
  <2>1. PICK j \in 1..Last : project[j] = p /\ j \notin started
    BY <1>1 DEF StatusInv
  <2>2. j \in 1..Last'
    BY <1>0
  <2> QED BY <2>1, <2>2
<1>2. ASSUME NEW p \in Projects, status'[p] = "running"
      PROVE  \E w \in Workers : Runs(w, p)'
  BY <1>2, SameHandsKeep DEF StatusInv
<1> QED BY <1>1, <1>2 DEF StatusInv

LEMMA RequestSettles ==
    ASSUME IInv, GuardInv, HandsInv, StatusInv, Guarded, faults = 0, faults' = 0,
           NEW q \in Requests, RequestStep(q)
    PROVE  HandsInv' /\ StatusInv'
<1>0. /\ LocalInv /\ PlainTypes
      /\ started' = started /\ Last' >= Last /\ Last' \in Nat
      /\ \A j \in 1..Last : project'[j] = project[j]
  BY RequestFrame DEF IInv
<1>1. \A w \in Workers : SameHands(w)
  BY <1>0, ConstantsAssumption
     DEF RequestStep, Debounce, EnqueueXadd, EnqueueFails, MarkQueued, MarkQueuedFails,
         Leave, local, Goto, LocalInv, Procs, SameHands
<1>2. ~EnqueueFails(q) /\ ~MarkQueuedFails(q)
  BY DEF EnqueueFails, MarkQueuedFails, Fault
<1>3. Known' = Known
  BY <1>2 DEF RequestStep, Debounce, EnqueueXadd, MarkQueued, AddEntry, stream, history, Known
<1>4. ASSUME NEW p \in Projects
      PROVE  \/ status'[p] = status[p] /\ (p \in slipped => p \in slipped')
             \/ /\ status'[p] = "queued"
                /\ p \in slipped' \/ \E j \in 1..Last : project[j] = p /\ j \notin started
  <2>1. CASE MarkQueued(q) /\ ~req[q].passed /\ p = req[q].project
    <3>1. status'[p] = "queued" /\ (q \in hurried => p \in slipped')
      BY <1>0, <2>1 DEF MarkQueued, WriteNode, PlainTypes
    <3>2. CASE q \notin hurried
      <4>1. req[q].id \in 1..Last /\ project[req[q].id] = p /\ req[q].id \notin started
        BY <2>1, <3>2 DEF MarkQueued, GuardInv, Late
      <4> QED BY <3>1, <4>1
    <3> QED BY <3>1, <3>2
  <2>2. CASE MarkQueued(q) /\ ~req[q].passed /\ p # req[q].project
    BY <1>0, <2>2 DEF MarkQueued, WriteNode, PlainTypes
  <2>3. CASE MarkQueued(q) /\ req[q].passed
    BY <2>3 DEF MarkQueued, node
  <2>4. CASE ~MarkQueued(q)
    BY <1>2, <2>4 DEF RequestStep, Debounce, EnqueueXadd, node, history
  <2> QED BY <2>1, <2>2, <2>3, <2>4
<1> QED BY <1>0, <1>1, <1>3, <1>4, HandsStill, StatusStill

\* The other consumers have what they had; w accounts for what it lets go of.
LEMMA OneHand ==
    ASSUME IInv, HandsInv, NEW w \in Workers, project' = project,
           \A v \in Workers : v # w => SameHands(v),
           pc'[w] \notin {"limited", "pause", "down"},
           pc'[w] \in Resting => batch'[w] = <<>>,
           \A j \in Known' \ started' :
               ToBegin(w, j)' \/ (j \in Known \ started /\ ~ToBegin(w, j))
    PROVE  HandsInv'
<1>1. \A v \in Workers : /\ pc'[v] \notin {"limited", "pause", "down"}
                         /\ pc'[v] \in Resting => batch'[v] = <<>>
  BY DEF HandsInv, SameHands
<1>2. ASSUME NEW j \in Known' \ started'
      PROVE  \E v \in Workers : ToBegin(v, j)'
  <2>1. CASE ToBegin(w, j)'
    BY <2>1
  <2>2. CASE j \in Known \ started /\ ~ToBegin(w, j)
    <3>1. PICK v \in Workers : ToBegin(v, j)
      BY <2>2 DEF HandsInv
    <3>2. v # w
      BY <2>2, <3>1
    <3> QED BY <3>1, <3>2, SameHandsKeep
  <2> QED BY <2>1, <2>2
<1> QED BY <1>1, <1>2 DEF HandsInv

LEMMA OneStatus ==
    ASSUME IInv, StatusInv, NEW w \in Workers, project' = project,
           \A v \in Workers : v # w => SameHands(v),
           \A p \in Projects : status'[p] = "queued" =>
               /\ status[p] = "queued" /\ (p \in slipped => p \in slipped')
               /\ \A j \in 1..Last : project[j] = p /\ j \notin started => j \notin started',
           \A p \in Projects : status'[p] = "running" =>
               Runs(w, p)' \/ (status[p] = "running" /\ ~Runs(w, p))
    PROVE  StatusInv'
<1>0. Last' = Last
  BY DEF Last
<1>1. ASSUME NEW p \in Projects, status'[p] = "queued"
      PROVE  p \in slipped' \/ \E j \in 1..Last' : project'[j] = p /\ j \notin started'
  BY <1>0, <1>1 DEF StatusInv
<1>2. ASSUME NEW p \in Projects, status'[p] = "running"
      PROVE  \E v \in Workers : Runs(v, p)'
  <2>1. CASE Runs(w, p)'
    BY <2>1
  <2>2. CASE status[p] = "running" /\ ~Runs(w, p)
    <3>1. PICK v \in Workers : Runs(v, p)
      BY <2>2 DEF StatusInv
    <3>2. v # w
      BY <2>2, <3>1
    <3> QED BY <3>1, <3>2, SameHandsKeep
  <2> QED BY <1>2, <2>1, <2>2
<1> QED BY <1>1, <1>2 DEF StatusInv

\* A consumer that goes on to its next entry keeps what it has still to begin.
LEMMA AdvanceHands ==
    ASSUME IInv, NEW w \in Workers, Advance(w), pc[w] \in {"dlq_ack", "ack", "error"}
    PROVE  /\ pc'[w] \in {"check", "begin", "poll", "poll2"}
           /\ pc'[w] \in Resting => batch'[w] = <<>>
           /\ \A j : ToBegin(w, j) => ToBegin(w, j)'
           /\ \A v \in Workers : v # w => SameHands(v)
<1>0. /\ LocalInv /\ WorkerInv(w) /\ pc[w] \in AtEntry
      /\ pos[w] \in Nat /\ Len(batch[w]) \in Nat /\ pos[w] <= Len(batch[w])
  BY DEF IInv, LocalInv, WorkerInv, AtEntry, Processing
<1>1. CASE pos[w] < Len(batch[w])
  <2>1. /\ pos'[w] = pos[w] + 1 /\ batch' = batch /\ claimed' = claimed
        /\ pc'[w] = (IF claimed[w] THEN "check" ELSE "begin")
        /\ \A v \in Workers : v # w => pc'[v] = pc[v] /\ pos'[v] = pos[v]
    BY <1>0, <1>1 DEF Advance, Goto, LocalInv, Procs
  <2>2. ASSUME NEW j, ToBegin(w, j) PROVE ToBegin(w, j)'
    <3>1. PICK i \in pos[w]..Len(batch[w]) :
             batch[w][i] = j /\ (i = pos[w] => pc[w] = "begin")
      BY <2>2 DEF ToBegin
    <3>2. i \in (pos[w] + 1)..Len(batch[w])
      BY <1>0, <3>1
    <3>3. ~claimed'[w] /\ pc'[w] = "begin"
      BY <2>1, <2>2 DEF ToBegin
    <3> QED BY <2>1, <3>1, <3>2, <3>3 DEF ToBegin
  <2> QED BY <2>1, <2>2 DEF Resting, SameHands
<1>2. CASE ~(pos[w] < Len(batch[w]))
  <2>1. Drop(w, AfterBatch(w))
    BY <1>2 DEF Advance
  <2>2. /\ pc'[w] \in {"poll", "poll2"} /\ batch'[w] = <<>>
        /\ \A v \in Workers : v # w => SameHands(v)
    BY <1>0, <2>1 DEF Drop, AfterBatch, Goto, LocalInv, Procs, SameHands
  <2>3. ASSUME NEW j, ToBegin(w, j) PROVE FALSE
    <3>1. PICK i \in pos[w]..Len(batch[w]) :
             batch[w][i] = j /\ (i = pos[w] => pc[w] = "begin")
      BY <2>3 DEF ToBegin
    <3> QED BY <1>0, <1>2, <3>1
  <2> QED BY <2>2, <2>3
<1> QED BY <1>1, <1>2

\* A consumer that moves without touching a batch, a status or a run.
LEMMA MoveSettles ==
    ASSUME IInv, HandsInv, StatusInv, NEW w \in Workers, NEW label \in WorkerPc, Goto(w, label),
           project' = project, Known' = Known, UNCHANGED <<local, status, started, slipped>>,
           pc[w] # "begin", label \notin {"limited", "pause", "down"},
           label \in Resting => pc[w] \in Resting,
           pc[w] \in Processing => label \in Processing \ {"begin"}
    PROVE  HandsInv' /\ StatusInv'
<1>0. pc'[w] = label /\ batch' = batch /\ pos' = pos /\ claimed' = claimed
  BY DEF Goto, IInv, LocalInv, Procs, local
<1>1. \A v \in Workers : v # w => SameHands(v)
  BY DEF Goto, IInv, LocalInv, Procs, local, SameHands
<1>2. \A j : ToBegin(w, j) => ToBegin(w, j)'
  BY <1>0 DEF ToBegin
<1>3. \A p : Runs(w, p) => Runs(w, p)'
  BY <1>0 DEF Runs, Entry
<1>4. HandsInv'
  BY <1>0, <1>1, <1>2, OneHand DEF HandsInv
<1>5. StatusInv'
  BY <1>1, <1>3, OneStatus
<1> QED BY <1>4, <1>5

\* A consumer without a batch is given one.
LEMMA TakeSettles ==
    ASSUME IInv, HandsInv, StatusInv, NEW w \in Workers, NEW S \in SUBSET Jobs, S # {},
           NEW reclaim \in BOOLEAN, NEW label \in {"check", "begin"},
           Take(w, S, reclaim, label), pc[w] \in Resting,
           project' = project, UNCHANGED <<status, started, slipped>>,
           Known' \subseteq Known \/ (Known' \subseteq Known \cup S /\ ~reclaim /\ label = "begin"),
           \A s \in InOrder(S) : \A j \in S : \E i \in 1..Len(s) : s[i] = j
    PROVE  HandsInv' /\ StatusInv'
<1>0. LocalInv /\ batch[w] = <<>> /\ pos[w] \in Nat \ {0}
  BY DEF IInv, LocalInv, HandsInv
<1>1. PICK s \in InOrder(S) : batch' = [batch EXCEPT ![w] = s]
  BY DEF Take
<1>2. /\ batch'[w] = s /\ pos'[w] = 1 /\ claimed'[w] = reclaim /\ pc'[w] = label
      /\ \A v \in Workers : v # w => SameHands(v)
  BY <1>0, <1>1 DEF Take, Goto, LocalInv, Procs, SameHands
<1>3. \A j : ~ToBegin(w, j)
  BY <1>0 DEF ToBegin
<1>4. ASSUME NEW j \in Known' \ started'
      PROVE  ToBegin(w, j)' \/ (j \in Known \ started /\ ~ToBegin(w, j))
  <2>1. CASE j \in Known
    BY <1>3, <1>4, <2>1
  <2>2. CASE j \notin Known
    <3>1. j \in S /\ ~reclaim /\ label = "begin"
      BY <1>4, <2>2
    <3>2. \E i \in 1..Len(s) : s[i] = j
      BY <3>1
    <3> QED BY <1>2, <3>1, <3>2 DEF ToBegin
  <2> QED BY <2>1, <2>2
<1>5. \A p : ~Runs(w, p)
  BY DEF Runs, Processing, Resting
<1>6. HandsInv'
  BY <1>2, <1>4, OneHand DEF Resting
<1>7. StatusInv'
  BY <1>2, <1>5, OneStatus
<1> QED BY <1>6, <1>7

\* What lists S in order lists all of it.
LEMMA ListsAll ==
    ASSUME NEW S \in SUBSET Jobs, NEW s \in InOrder(S)
    PROVE  \A j \in S : \E i \in 1..Len(s) : s[i] = j
<1> DEFINE n == Cardinality(S)
<1>0. IsFiniteSet(S) /\ n \in Nat
  <2>1. IsFiniteSet(Jobs)
    BY StreamAssumption, FS_Interval DEF Jobs
  <2> QED BY <2>1, FS_Subset, FS_CardinalityType
<1>1. s \in [1..n -> S] /\ \A i, k \in 1..n : i < k => s[i] < s[k]
  BY DEF InOrder
<1>2. \A i \in 1..n : s[i] \in Nat
  <2>1. S \subseteq Nat
    BY StreamAssumption DEF Jobs
  <2> HIDE DEF n
  <2> QED BY <1>1, <2>1
<1> HIDE DEF n
<1>3. Len(s) = n
  BY <1>0, <1>1
<1>4. s \in Injection(1..n, S)
  BY <1>0, <1>1, <1>2 DEF Injection, IsInjective
<1>5. IsFiniteSet(1..n) /\ Cardinality(1..n) = n
  BY <1>0, FS_Interval
<1>6. s \in Surjection(1..n, S)
  BY <1>0, <1>4, <1>5, FS_Injection, Zenon DEF n
<1> QED BY <1>3, <1>6 DEF Surjection

LEMMA ReadsSettle ==
    ASSUME IInv, HandsInv, StatusInv, NEW w \in Workers, ClaimStale(w) \/ ReadNew(w)
    PROVE  HandsInv' /\ StatusInv'
<1> USE StreamAssumption, ConstantsAssumption
<1>0. /\ StreamInv /\ LocalInv /\ stale \in SUBSET Jobs /\ stale \subseteq pel
      /\ Last \in Nat /\ Last <= MaxJobs /\ delivered \in Int
  <2>1. StreamInv /\ LocalInv
    BY DEF IInv
  <2>2. project \in Seq(Projects) /\ Last <= MaxJobs /\ delivered \in Int
        /\ pel \subseteq 1..Last /\ stale \subseteq pel
    BY <2>1 DEF StreamInv, StreamTypeOK
  <2>3. Last \in Nat
    BY <2>2 DEF Last
  <2> QED BY <2>1, <2>2, <2>3 DEF Jobs
<1>1. CASE ClaimStale(w) /\ stale = {}
  <2>1. Known' = Known /\ project' = project
    BY <1>1 DEF ClaimStale, stream, history, Known
  <2> QED BY <1>1, <2>1, MoveSettles
          DEF ClaimStale, Resting, WorkerPc, Processing, history, node
<1>2. CASE ClaimStale(w) /\ stale # {}
  <2> DEFINE S == Lowest(stale, BatchSize)
  <2>1. S \in SUBSET Jobs /\ S \subseteq stale
    BY <1>0 DEF Lowest
  <2>2. S # {}
    BY <1>0, <1>2, LowestSome DEF Jobs
  <2>3. /\ Take(w, S, TRUE, "check") /\ AutoClaim(S) /\ pc[w] = "claim"
        /\ UNCHANGED <<status, done, started, slipped>>
    BY <1>2 DEF ClaimStale, history, node
  <2> HIDE DEF S
  <2>4. Known' \subseteq Known /\ project' = project
    BY <1>0, <2>1, <2>3 DEF AutoClaim, CountDelivery, Known
  <2>5. \A s \in InOrder(S) : \A j \in S : \E i \in 1..Len(s) : s[i] = j
    BY <2>1, ListsAll
  <2> QED BY <2>1, <2>2, <2>3, <2>4, <2>5, TakeSettles DEF Resting
<1>3. CASE ReadNew(w)
  <2> DEFINE S == Lowest((delivered + 1)..Last, BatchSize)
  <2>1. CASE S = {}
    <3>1. Known' = Known /\ project' = project
      BY <1>3, <2>1 DEF ReadNew, stream, history, Known
    <3> QED BY <1>3, <2>1, <3>1, MoveSettles
            DEF ReadNew, Resting, WorkerPc, Processing, history, node
  <2>2. CASE S # {}
    <3>1. /\ Take(w, S, FALSE, "begin") /\ ReadGroup(S) /\ pc[w] = "read"
          /\ UNCHANGED <<status, done, started, slipped>>
      BY <1>3, <2>2 DEF ReadNew, history, node
    <3>2. S \in SUBSET Jobs
      <4>1. delivered # -1
        BY <1>0, <3>1 DEF LocalInv, WorkerInv
      <4>2. S \subseteq (delivered + 1)..Last
        BY DEF Lowest
      <4>3. delivered \in Nat
        BY <1>0, <4>1 DEF StreamInv, StreamTypeOK
      <4> QED BY <1>0, <4>2, <4>3 DEF Jobs
    <3> HIDE DEF S
    <3>3. Known' \subseteq Known \cup S /\ project' = project
      BY <3>1 DEF ReadGroup, CountDelivery, Known
    <3>4. \A s \in InOrder(S) : \A j \in S : \E i \in 1..Len(s) : s[i] = j
      BY <3>2, ListsAll
    <3> QED BY <2>2, <3>1, <3>2, <3>3, <3>4, TakeSettles DEF Resting
  <2> QED BY <2>1, <2>2
<1> QED BY <1>1, <1>2, <1>3

\* What w has begun is no longer to be begun, and its project runs.
LEMMA BeginSettles ==
    ASSUME IInv, HandsInv, StatusInv, faults = 0, faults' = 0, NEW w \in Workers, Begin(w)
    PROVE  HandsInv' /\ StatusInv'
<1>p. PICK p : p = project[Entry(w)]
  OBVIOUS
<1>0. /\ LocalInv /\ PlainTypes /\ pc[w] \in AtEntry /\ p \in Projects
      /\ Entry(w) \in Known
  BY <1>p, EntryKnown DEF IInv, Begin, AtEntry, Processing
<1>1. /\ started' = started \cup {Entry(w)} /\ pc'[w] = "sync" /\ UNCHANGED local
      /\ Known' = Known /\ project' = project /\ WriteStatus(p, "running")
      /\ slipped' = slipped \ {p}
      /\ \A v \in Workers : v # w => SameHands(v)
  BY <1>0, <1>p DEF Begin, SetStatus, Fault, Goto, LocalInv, Procs, local, stream, SameHands, Known
<1>2. ASSUME NEW j \in Known' \ started' PROVE ToBegin(w, j)' \/ ~ToBegin(w, j)
  <2>1. ASSUME ToBegin(w, j) PROVE ToBegin(w, j)'
    <3>1. PICK i \in pos[w]..Len(batch[w]) :
             batch[w][i] = j /\ (i = pos[w] => pc[w] = "begin")
      BY <2>1 DEF ToBegin
    <3>2. i # pos[w]
      BY <1>1, <1>2, <3>1 DEF Entry
    <3> QED BY <1>1, <2>1, <3>1, <3>2 DEF ToBegin, local
  <2> QED BY <2>1
<1>3. Entry(w)' = Entry(w)
  BY <1>1 DEF Entry, local
<1>4. Runs(w, p)'
  BY <1>p, <1>1, <1>3 DEF Runs, Processing
<1>5. \A x \in Projects : status'[x] = IF x = p THEN "running" ELSE status[x]
  BY <1>0, <1>1 DEF WriteStatus, WriteNode, PlainTypes
<1>6. HandsInv'
  <2>1. \A j \in Known' \ started' : j \in Known \ started
    BY <1>1
  <2> QED BY <1>1, <1>2, <2>1, OneHand DEF Resting
<1>7. StatusInv'
  <2>1. ASSUME NEW x \in Projects, status'[x] = "queued"
        PROVE  /\ status[x] = "queued" /\ (x \in slipped => x \in slipped')
               /\ \A j \in 1..Last : project[j] = x /\ j \notin started => j \notin started'
    BY <1>p, <1>1, <1>5, <2>1
  <2>2. ASSUME NEW x \in Projects, status'[x] = "running"
        PROVE  Runs(w, x)' \/ (status[x] = "running" /\ ~Runs(w, x))
    <3>1. ~Runs(w, x)
      BY DEF Runs, Begin
    <3>2. CASE x = p
      BY <1>4, <3>2
    <3>3. CASE x # p
      BY <1>5, <2>2, <3>1, <3>3
    <3> QED BY <3>2, <3>3
  <2> QED BY <1>1, <2>1, <2>2, OneStatus
<1> QED BY <1>6, <1>7

\* A run is concluded by a status of its own.
LEMMA EndSettles ==
    ASSUME IInv, HandsInv, StatusInv, faults = 0, faults' = 0, NEW w \in Workers,
           Conclude(w) \/ Fail(w)
    PROVE  HandsInv' /\ StatusInv'
<1> DEFINE p == project[Entry(w)]
<1>0. /\ LocalInv /\ PlainTypes /\ pc[w] \in AtEntry /\ p \in Projects
  BY EntryKnown DEF IInv, Conclude, Fail, AtEntry, Processing
<1>1. PICK s \in Terminal : WriteStatus(p, s) /\ slipped' = slipped \ {p}
  BY DEF Conclude, Fail, SetStatus, Fault, Terminal
<1>2. started' = started /\ Known' = Known /\ project' = project
  BY DEF Conclude, Fail, stream, Known
<1>3. /\ pc'[w] \notin {"limited", "pause", "down"}
      /\ pc'[w] \in Resting => batch'[w] = <<>>
      /\ \A j : ToBegin(w, j) => ToBegin(w, j)'
      /\ \A v \in Workers : v # w => SameHands(v)
  <2>1. CASE Conclude(w)
    <3>1. pc'[w] = "ack" /\ pc[w] # "begin" /\ UNCHANGED local
          /\ \A v \in Workers : v # w => SameHands(v)
      BY <1>0, <2>1 DEF Conclude, Goto, LocalInv, Procs, SameHands, local
    <3> QED BY <3>1 DEF Resting, ToBegin, local
  <2>2. CASE Fail(w)
    BY <2>2, AdvanceHands DEF Fail
  <2> QED BY <2>1, <2>2
<1> HIDE DEF p
<1>4. \A x \in Projects : status'[x] = IF x = p THEN s ELSE status[x]
  BY <1>0, <1>1 DEF WriteStatus, WriteNode, PlainTypes
<1>5. \A x \in Projects : Runs(w, x) => x = p
  BY DEF Runs, p
<1>6. HandsInv'
  BY <1>2, <1>3, OneHand
<1>7. StatusInv'
  BY <1>1, <1>2, <1>3, <1>4, <1>5, OneStatus DEF Terminal
<1> QED BY <1>6, <1>7

LEMMA ConsumerSettles ==
    ASSUME IInv, HandsInv, StatusInv, faults = 0, faults' = 0, NEW w \in Workers,
           ConsumerLoop(w) \/ ConsumerFault(w)
    PROVE  HandsInv' /\ StatusInv'
<1>0. /\ LocalInv /\ StreamInv
      /\ pc[w] \in AtEntry => Entry(w) \in Known
      /\ pc[w] \notin {"limited", "pause", "down"}
  BY EntryKnown DEF IInv, HandsInv
<1>1. CASE EnsureGroup(w) \/ Poll(w) \/ PollAgain(w) \/ CheckDeliveries(w) \/ DeadLetterAdd(w)
           \/ Sync(w)
  <2>1. PICK label \in WorkerPc :
          /\ Goto(w, label) /\ pc[w] # "begin" /\ label \notin {"limited", "pause", "down"}
          /\ label \in Resting => pc[w] \in Resting
          /\ pc[w] \in Processing => label \in Processing \ {"begin"}
    <3>1. CASE EnsureGroup(w)
      BY <3>1 DEF EnsureGroup, Resting, WorkerPc, Processing
    <3>2. CASE Poll(w)
      BY <3>2 DEF Poll, Resting, WorkerPc, Processing
    <3>3. CASE PollAgain(w)
      BY <3>3 DEF PollAgain, Resting, WorkerPc, Processing
    <3>4. CASE CheckDeliveries(w)
      BY <3>4 DEF CheckDeliveries, Resting, WorkerPc, Processing
    <3>5. CASE DeadLetterAdd(w)
      BY <3>5 DEF DeadLetterAdd, Resting, WorkerPc, Processing
    <3>6. CASE Sync(w)
      BY <3>6 DEF Sync, Resting, WorkerPc, Processing
    <3> QED BY <1>1, <3>1, <3>2, <3>3, <3>4, <3>5, <3>6
  <2>2. project' = project /\ Known' = Known /\ UNCHANGED <<local, status, started, slipped>>
    <3>1. CASE DeadLetterAdd(w)
      BY <1>0, <3>1 DEF DeadLetterAdd, AddDeadLetter, history, node, Known, AtEntry
    <3>2. CASE ~DeadLetterAdd(w)
      BY <1>1, <3>2 DEF EnsureGroup, CreateGroup, Poll, PollAgain, CheckDeliveries, Sync,
                        history, node, stream, Known
    <3> QED BY <3>1, <3>2
  <2> QED BY <2>1, <2>2, MoveSettles
<1>2. CASE ClaimStale(w) \/ ReadNew(w)
  BY <1>2, ReadsSettle
<1>3. CASE Begin(w)
  BY <1>3, BeginSettles
<1>4. CASE Conclude(w) \/ Fail(w)
  BY <1>4, EndSettles
<1>5. CASE DeadLetterAck(w) \/ Ack(w)
  <2>1. /\ Xack(Entry(w)) /\ Advance(w) /\ pc[w] \in {"dlq_ack", "ack"}
        /\ UNCHANGED <<status, started, slipped>> /\ project' = project /\ dlq' = dlq
        /\ pel' \subseteq pel /\ done' \subseteq done \cup {Entry(w)}
    BY <1>5 DEF DeadLetterAck, Ack, history, node, Xack
  <2>2. Known' \subseteq Known
    BY <1>0, <2>1 DEF Known, AtEntry
  <2>3. /\ pc'[w] \notin {"limited", "pause", "down"}
        /\ pc'[w] \in Resting => batch'[w] = <<>>
        /\ \A j : ToBegin(w, j) => ToBegin(w, j)'
        /\ \A v \in Workers : v # w => SameHands(v)
    BY <2>1, AdvanceHands
  <2>4. \A p : ~Runs(w, p)
    BY <2>1 DEF Runs, Processing
  <2>5. HandsInv'
    BY <2>1, <2>2, <2>3, OneHand
  <2>6. StatusInv'
    BY <2>1, <2>3, <2>4, OneStatus
  <2> QED BY <2>5, <2>6
<1>6. CASE LeaveQueued(w) \/ PauseUntil(w)
  BY <1>0, <1>6 DEF LeaveQueued, PauseUntil
<1>7. CASE ConsumerFault(w)
  BY <1>0, <1>7 DEF ConsumerFault, EnsureGroupFails, SyncRateLimited, ReadFails, WriteFails,
                    Crash, Restart, Fault
<1> QED BY <1>1, <1>2, <1>3, <1>4, <1>5, <1>6, <1>7 DEF ConsumerLoop

LEMMA StepSettles == Guarded /\ IInv /\ GuardInv /\ SettleInv /\ [Next]_vars => SettleInv'
<1> SUFFICES ASSUME Guarded, IInv, GuardInv, SettleInv, [Next]_vars, faults' = 0
             PROVE  HandsInv' /\ StatusInv'
  BY DEF SettleInv
<1>0. IInv' /\ faults \in Nat
  BY StepInv DEF IInv, PlainTypes
<1>1. faults = 0
  <2>1. faults' >= faults
    <3>1. ASSUME NEW q \in Requests, RequestStep(q) PROVE faults' >= faults
      BY <3>1, RequestFrame
    <3>2. ASSUME NEW w \in Workers, ConsumerLoop(w) \/ ConsumerFault(w) \/ RenewClaim(w)
          PROVE  faults' >= faults
      BY <3>2, ConsumerFrame
    <3>3. ASSUME \/ \E p \in Projects : DebounceExpires(p)
                 \/ \E j \in Jobs : Age(j)
                 \/ PauseExpires \/ Tick
                 \/ UNCHANGED vars
          PROVE  faults' >= faults
      BY <1>0, <3>3 DEF DebounceExpires, Age, PauseExpires, Tick, vars, history
    <3> QED BY <3>1, <3>2, <3>3 DEF Next
  <2> QED BY <1>0, <2>1
<1>2. HandsInv /\ StatusInv
  BY <1>1 DEF SettleInv
<1>3. ASSUME NEW q \in Requests, RequestStep(q) PROVE HandsInv' /\ StatusInv'
  BY <1>1, <1>2, <1>3, RequestSettles
<1>4. ASSUME NEW w \in Workers, ConsumerLoop(w) \/ ConsumerFault(w)
      PROVE  HandsInv' /\ StatusInv'
  BY <1>1, <1>2, <1>4, ConsumerSettles
<1>5. CASE \/ \E w \in Workers : RenewClaim(w)
           \/ \E p \in Projects : DebounceExpires(p)
           \/ \E j \in Jobs : Age(j)
           \/ PauseExpires \/ Tick
           \/ UNCHANGED vars
  <2>1. UNCHANGED <<project, pc, local, status, pel, done, dlq, started, slipped>>
    BY <1>5 DEF RenewClaim, Renew, DebounceExpires, Age, GrowStale, PauseExpires, Tick, vars,
                stream, history, node
  <2>2. Known' = Known /\ Last' = Last /\ Last \in Nat
    BY <2>1 DEF Known, Last, IInv, StreamInv, StreamTypeOK
  <2>3. \A w \in Workers : SameHands(w)
    BY <2>1 DEF SameHands, local
  <2> QED BY <1>2, <2>1, <2>2, <2>3, HandsStill, StatusStill
<1> QED BY <1>3, <1>4, <1>5 DEF Next

LEMMA SettleGives ==
    ASSUME IInv, SettleInv
    PROVE  StatusSettles
<1> SUFFICES ASSUME NEW p \in Projects, faults = 0,
                    \A j \in 1..Last : project[j] = p => j \in (done \cup dlq) \ pel,
                    \A w \in Workers : ~HasToRun(w, p), p \notin slipped
             PROVE  status[p] \in Terminal \cup {"idle"}
  BY DEF StatusSettles
<1>0. /\ StreamInv /\ LocalInv /\ status[p] \in States /\ HandsInv /\ StatusInv
  BY DEF IInv, PlainTypes, SettleInv
<1>1. status[p] # "queued"
  <2> SUFFICES ASSUME status[p] = "queued" PROVE FALSE
    OBVIOUS
  <2>1. PICK j \in 1..Last : project[j] = p /\ j \notin started
    BY <1>0 DEF StatusInv
  <2>2. j \in Known
    BY <2>1 DEF Known
  <2>3. PICK w \in Workers : ToBegin(w, j)
    BY <1>0, <2>1, <2>2 DEF HandsInv
  <2>4. HasToRun(w, p)
    BY <2>1, <2>3 DEF ToBegin, HasToRun, Processing
  <2> QED BY <2>4
<1>2. status[p] # "running"
  <2> SUFFICES ASSUME status[p] = "running" PROVE FALSE
    OBVIOUS
  <2>1. PICK w \in Workers : Runs(w, p)
    BY <1>0 DEF StatusInv
  <2>2. pos[w] \in Nat /\ pos[w] <= Len(batch[w]) /\ Len(batch[w]) \in Nat
    BY <1>0, <2>1 DEF LocalInv, WorkerInv, Runs, AtEntry
  <2>3. HasToRun(w, p)
    BY <2>1, <2>2 DEF Runs, Entry, HasToRun
  <2> QED BY <2>3
<1> QED BY <1>0, <1>1, <1>2 DEF States, Terminal

\* With the timestamp guard a project that nobody has anything left to do for is
\* neither queued nor running, whatever requests, reclaims and dead letters
\* interleave and whatever the clocks of the hosts read, but for the write of a
\* request whose job was begun within MaxSkew of the capture, and as long as no
\* fault strikes.
THEOREM Settles == Guarded => (Spec => []StatusSettles)
<1> SUFFICES ASSUME Guarded PROVE Spec => []StatusSettles
  OBVIOUS
<1>1. Init => GuardInv /\ SettleInv
  <2> SUFFICES ASSUME Init PROVE GuardInv /\ SettleInv
    OBVIOUS
  <2>1. GuardInv
    BY ConstantsAssumption DEF Init, GuardInv, Procs
  <2>2. HandsInv
    BY DEF Init, InitStream, HandsInv, Procs, Known
  <2>3. StatusInv
    BY DEF Init, StatusInv
  <2> QED BY <2>1, <2>2, <2>3 DEF SettleInv
<1>2. IInv /\ [Next]_vars => IInv'
  BY StepInv
<1> QED BY InitInv, <1>1, <1>2, StepGuard, StepSettles, SettleGives, PTL DEF Spec
=============================================================================
