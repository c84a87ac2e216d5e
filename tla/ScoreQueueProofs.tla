-------------------------- MODULE ScoreQueueProofs --------------------------
(***************************************************************************)
(* Proofs about ScoreQueue for any number of consumers, requests, projects *)
(* and entries, and every fault: its types, and that a stale score is one  *)
(* that somebody will still recompute.                                     *)
(***************************************************************************)
EXTENDS ScoreQueue, FiniteSetTheorems, WellFoundedInduction, TLAPS

WorkerPc == {"ensure", "claim", "read", "check", "dlq_add", "dlq_ack",
             "compute", "record", "ack"}

\* Where a consumer is at an entry of its batch.
AtEntry == {"check", "dlq_add", "dlq_ack", "compute", "record", "ack"}

\* Without a group nothing is to be delivered; with one, its beginning is
\* behind what was delivered last.
StreamInv ==
    /\ StreamTypeOK
    /\ delivered = -1 => base = Last
    /\ delivered # -1 => base <= delivered

RequestRecord == [todo : SUBSET Projects, accepted : SUBSET Projects,
                  bulk : BOOLEAN, version : [Projects -> Nat]]

\* A recorded score is not ahead of what it is computed from.
GraphInv ==
    /\ attr \in [Projects -> Nat] /\ score \in [Projects -> Nat]
    /\ \A p \in Projects : score[p] <= attr[p]
    /\ req \in [Requests -> RequestRecord]
    /\ missed \subseteq Projects /\ raced \subseteq Projects

\* The entries in hand exist, and what was read for one is not ahead either.
\* What a consumer recorded at the present version still stands when it comes
\* to acknowledge, unless an older read was written over it.
WorkerInv(w) ==
    /\ pc[w] \in AtEntry => pos[w] \in 1..Len(batch[w])
    /\ \A i \in 1..Len(batch[w]) : batch[w][i] \in 1..Last
    /\ pc[w] \in {"record", "ack"} => seen[w] <= attr[project[Entry(w)]]
    /\ LET p == project[Entry(w)]
       IN  pc[w] = "ack" /\ seen[w] = attr[p] =>
               score[p] = attr[p] \/ p \in raced

LocalInv ==
    /\ pc \in [Workers -> WorkerPc]
    /\ batch \in [Workers -> Seq(Jobs)] /\ pos \in [Workers -> Nat \ {0}]
    /\ claimed \in [Workers -> BOOLEAN] /\ seen \in [Workers -> Nat]
    /\ \A w \in Workers : WorkerInv(w)

IInv == StreamInv /\ GraphInv /\ LocalInv /\ StaleIsCovered
-----------------------------------------------------------------------------
(* What the operators of ValkeyStream return.                              *)

\* The n lowest numbers of an interval are an interval from its beginning.
LEMMA LowestInterval ==
    ASSUME NEW a \in Nat, NEW b \in Nat, NEW n \in Nat \ {0}, a <= b
    PROVE  \E m \in a..b : /\ Lowest(a..b, n) = a..m
                           /\ Cardinality(Lowest(a..b, n)) = m - a + 1
<1>1. \A x \in a..b : Below(x, a..b) = x - a
  <2> TAKE x \in a..b
  <2>1. {y \in a..b : y < x} = a..(x - 1)
    OBVIOUS
  <2>2. a \in Int /\ x - 1 \in Int
    OBVIOUS
  <2>3. Cardinality(a..(x - 1)) = IF a > x - 1 THEN 0 ELSE (x - 1) - a + 1
    BY <2>2, FS_Interval
  <2>4. Below(x, a..b) = Cardinality(a..(x - 1))
    BY <2>1, Zenon DEF Below
  <2> HIDE DEF Below
  <2> QED BY <2>3, <2>4
<1> DEFINE m == IF b <= a + n - 1 THEN b ELSE a + n - 1
<1>2. m \in a..b
  OBVIOUS
<1>3. Lowest(a..b, n) = a..m
  <2>1. ASSUME NEW x PROVE x \in Lowest(a..b, n) <=> x \in a..b /\ x - a < n
    BY <1>1 DEF Lowest
  <2>2. ASSUME NEW x PROVE x \in a..m <=> x \in a..b /\ x - a < n
    OBVIOUS
  <2> QED BY <2>1, <2>2
<1>4. Cardinality(a..m) = m - a + 1
  <2> HIDE DEF m
  <2> QED BY <1>2, FS_Interval
<1> QED BY <1>2, <1>3, <1>4

\* Whatever S is, Lowest takes something of it.
LEMMA LowestSome ==
    ASSUME NEW S \in SUBSET Nat, S # {}, NEW n \in Nat \ {0}
    PROVE  Lowest(S, n) # {}
<1>1. PICK x \in S : \A y \in S : ~(<<y, x>> \in OpToRel(<, Nat))
  BY NatLessThanWellFounded, WFMin
<1>2. \A y \in S : ~(y < x)
  BY <1>1 DEF OpToRel
<1>3. {y \in S : y < x} = {}
  BY <1>2
<1>4. Below(x, S) = 0
  BY <1>3, FS_EmptySet DEF Below
<1> QED BY <1>4 DEF Lowest

\* A listing of S holds its elements, and one at least unless S is empty.
LEMMA Listing ==
    ASSUME NEW S \in SUBSET Jobs, NEW s \in InOrder(S)
    PROVE  /\ s \in Seq(Jobs)
           /\ \A i \in 1..Len(s) : s[i] \in S
           /\ S # {} => Len(s) >= 1
<1>0. Jobs = 1..MaxJobs /\ MaxJobs \in Nat
  BY StreamAssumption DEF Jobs
<1>1. IsFiniteSet(S)
  <2>1. 1 \in Int /\ MaxJobs \in Int
    BY <1>0
  <2>2. IsFiniteSet(1..MaxJobs)
    BY <2>1, FS_Interval
  <2> QED BY <1>0, <2>2, FS_Subset
<1>2. Cardinality(S) \in Nat /\ (S # {} => Cardinality(S) # 0)
  BY <1>1, FS_CardinalityType, FS_EmptySet
<1> DEFINE n == Cardinality(S)
<1>3. s \in [1..n -> S]
  BY DEF InOrder
<1> HIDE DEF n
<1>4. n \in Nat /\ (S # {} => n >= 1)
  BY <1>2 DEF n
<1>5. s \in Seq(Jobs) /\ Len(s) = n
  BY <1>3, <1>4
<1> QED BY <1>3, <1>4, <1>5

-----------------------------------------------------------------------------
(* The stream.                                                             *)

\* What any step may do to the stream: entries stay what they are, and what
\* is to be delivered is delivered, or still to be delivered.
Progress ==
    /\ StreamInv'
    /\ Last' >= Last
    /\ \A j \in 1..Last : project'[j] = project[j]
    /\ Waiting \subseteq Waiting' \cup pel'

LEMMA LastType == ASSUME StreamInv PROVE Last \in Nat /\ Last <= MaxJobs /\ 1..Last \subseteq Jobs
<1>1. Last \in Nat /\ Last <= MaxJobs
  BY DEF StreamInv, StreamTypeOK, Last
<1> QED BY <1>1, StreamAssumption DEF Jobs

LEMMA StillProgress == ASSUME StreamInv, UNCHANGED stream PROVE Progress
<1>1. Last' = Last /\ Waiting' = Waiting /\ StreamTypeOK'
  BY DEF StreamInv, StreamTypeOK, stream, Last, Waiting
<1> QED BY <1>1, LastType DEF Progress, StreamInv, stream

\* A new entry is to be delivered if there is a group.
LEMMA AddProgress ==
    ASSUME StreamInv, NEW p \in Projects, AddEntry(p)
    PROVE  /\ Progress /\ pel' = pel
           /\ Last' = Last + 1 /\ project'[Last + 1] = p
           /\ delivered # -1 => Last + 1 \in Waiting'
<1> USE StreamAssumption
<1>1. project \in Seq(Projects) /\ Last \in Nat
  BY DEF StreamInv, StreamTypeOK, Last
<1>2. project' \in Seq(Projects) /\ Last' = Last + 1 /\ project'[Last + 1] = p
  BY <1>1 DEF AddEntry, Last
<1>3. \A j \in 1..Last : project'[j] = project[j]
  BY <1>1 DEF AddEntry, Last
<1>4. StreamTypeOK'
  BY <1>1, <1>2 DEF StreamInv, StreamTypeOK, AddEntry
<1>5. StreamInv'
  BY <1>1, <1>2, <1>4 DEF StreamInv, StreamTypeOK, AddEntry
<1>6. delivered \in Int /\ base \in Nat /\ delivered <= Last
  BY <1>1 DEF StreamInv, StreamTypeOK
<1>9. pel' = pel
  BY DEF AddEntry
<1>7. CASE delivered = -1
  <2>1. Waiting = {}
    BY <1>1, <1>7 DEF StreamInv, Waiting
  <2> QED BY <1>1, <1>2, <1>3, <1>5, <1>7, <1>9, <2>1 DEF Progress
<1>8. CASE delivered # -1
  <2>1. base' = base /\ delivered' = delivered /\ base <= Last
    BY <1>1, <1>8 DEF AddEntry, StreamInv, StreamTypeOK
  <2>2. Waiting \subseteq Waiting' /\ Last + 1 \in Waiting'
    BY <1>1, <1>2, <1>6, <2>1 DEF Waiting
  <2> QED BY <1>1, <1>2, <1>3, <1>5, <1>9, <2>2 DEF Progress
<1> QED BY <1>7, <1>8

LEMMA GroupProgress ==
    ASSUME StreamInv, CreateGroup
    PROVE  Progress /\ pel' = pel
<1> USE StreamAssumption
<1>1. Last \in Nat /\ Last' = Last /\ base' = base /\ base \in Nat /\ project' = project
  BY DEF StreamInv, StreamTypeOK, Last, CreateGroup
<1>2. StreamTypeOK'
  BY <1>1 DEF StreamInv, StreamTypeOK, CreateGroup
<1>3. StreamInv'
  BY <1>1, <1>2 DEF StreamInv, StreamTypeOK, CreateGroup
<1>4. CASE delivered = -1
  <2>1. Waiting = {}
    BY <1>1, <1>4 DEF StreamInv, Waiting
  <2> QED BY <1>1, <1>3, <2>1 DEF Progress, CreateGroup
<1>5. CASE delivered # -1
  <2>1. Waiting' = Waiting
    BY <1>1, <1>5 DEF Waiting, CreateGroup
  <2> QED BY <1>1, <1>3, <2>1 DEF Progress, CreateGroup
<1> QED BY <1>4, <1>5

\* A delivery of new entries hands out the next ones.
LEMMA ReadProgress ==
    ASSUME StreamInv, delivered # -1, NEW S, S # {},
           S = Lowest((delivered + 1)..Last, BatchSize), ReadGroup(S)
    PROVE  Progress /\ pel' = pel \cup S /\ S \subseteq 1..Last'
<1> USE StreamAssumption
<1>1. /\ Last \in Nat /\ Last' = Last /\ Last <= MaxJobs /\ delivered \in Nat
      /\ base' = base /\ base \in Nat /\ base <= delivered /\ project' = project
  BY DEF StreamInv, StreamTypeOK, Last, ReadGroup
<1>2. delivered + 1 <= Last
  <2> SUFFICES ASSUME ~(delivered + 1 <= Last) PROVE FALSE
    OBVIOUS
  <2>1. (delivered + 1)..Last = {}
    BY <1>1
  <2> QED BY <2>1 DEF Lowest
<1>3. PICK m \in (delivered + 1)..Last : S = (delivered + 1)..m /\ Cardinality(S) = m - delivered
  <2>1. delivered + 1 \in Nat
    BY <1>1
  <2>2. PICK m \in (delivered + 1)..Last :
            /\ Lowest((delivered + 1)..Last, BatchSize) = (delivered + 1)..m
            /\ Cardinality(Lowest((delivered + 1)..Last, BatchSize)) = m - (delivered + 1) + 1
    BY <1>1, <1>2, <2>1, LowestInterval, ConstantsAssumption
  <2>3. m - (delivered + 1) + 1 = m - delivered
    BY <1>1
  <2> QED BY <2>2, <2>3
<1>4. delivered' = m
  BY <1>1, <1>3 DEF ReadGroup
<1>5. /\ pel' = pel \cup S /\ stale' = stale \ S /\ dlq' = dlq
      /\ deliveries' = [j \in Jobs |-> IF j \in S /\ deliveries[j] < MaxDeliveries
                                         THEN deliveries[j] + 1 ELSE deliveries[j]]
  BY DEF ReadGroup, CountDelivery
<1>6. deliveries' \in [Jobs -> 0..MaxDeliveries]
  BY <1>5 DEF StreamInv, StreamTypeOK
<1>7. S \subseteq 1..Last
  BY <1>1, <1>3
<1>8. StreamTypeOK'
  BY <1>1, <1>3, <1>4, <1>5, <1>6, <1>7 DEF StreamInv, StreamTypeOK
<1>9. StreamInv'
  BY <1>1, <1>3, <1>4, <1>8 DEF StreamInv
<1>10. Waiting \subseteq Waiting' \cup S
  BY <1>1, <1>3, <1>4 DEF Waiting
<1> QED BY <1>1, <1>5, <1>7, <1>9, <1>10 DEF Progress

\* A redelivery hands out what is pending already.
LEMMA ClaimProgress ==
    ASSUME StreamInv, NEW S \in SUBSET stale, AutoClaim(S)
    PROVE  Progress /\ pel' = pel /\ S \subseteq 1..Last'
<1> USE StreamAssumption
<1>1. Last \in Nat /\ Last' = Last /\ Last <= MaxJobs
  BY DEF StreamInv, StreamTypeOK, Last, AutoClaim
<1>2. stale \subseteq pel
  BY DEF StreamInv, StreamTypeOK
<1>3. /\ pel' = pel /\ stale' = stale \ S
      /\ dlq' = dlq /\ base' = base /\ project' = project /\ delivered' = delivered
      /\ deliveries' = [j \in Jobs |-> IF j \in S /\ deliveries[j] < MaxDeliveries
                                         THEN deliveries[j] + 1 ELSE deliveries[j]]
  BY <1>2 DEF AutoClaim, CountDelivery
<1>4. deliveries' \in [Jobs -> 0..MaxDeliveries]
  BY <1>3 DEF StreamInv, StreamTypeOK
<1>5. StreamTypeOK'
  BY <1>1, <1>3, <1>4 DEF StreamInv, StreamTypeOK
<1>6. Waiting' = Waiting /\ StreamInv'
  BY <1>1, <1>3, <1>5 DEF StreamInv, Waiting
<1>7. S \subseteq 1..Last
  BY <1>2 DEF StreamInv, StreamTypeOK
<1> QED BY <1>1, <1>3, <1>6, <1>7 DEF Progress

\* The steps that deliver nothing and add nothing.
LEMMA DeadProgress ==
    ASSUME StreamInv, NEW j \in 1..Last, AddDeadLetter(j)
    PROVE  Progress /\ pel' = pel
<1>1. Last' = Last /\ Waiting' = Waiting
  BY DEF AddDeadLetter, Last, Waiting
<1>2. StreamTypeOK'
  BY <1>1 DEF StreamInv, StreamTypeOK, AddDeadLetter
<1> QED BY <1>1, <1>2, LastType DEF StreamInv, AddDeadLetter, Progress

LEMMA AckProgress ==
    ASSUME StreamInv, NEW j, Xack(j)
    PROVE  Progress /\ pel' = pel \ {j}
<1>1. Last' = Last /\ Waiting' = Waiting
  BY DEF Xack, Last, Waiting
<1>2. StreamTypeOK'
  BY <1>1 DEF StreamInv, StreamTypeOK, Xack
<1> QED BY <1>1, <1>2, LastType DEF StreamInv, Xack, Progress

LEMMA AgeProgress ==
    ASSUME StreamInv, NEW j, GrowStale(j)
    PROVE  Progress /\ pel' = pel
<1>1. Last' = Last /\ Waiting' = Waiting
  BY DEF GrowStale, Last, Waiting
<1>2. StreamTypeOK'
  BY <1>1 DEF StreamInv, StreamTypeOK, GrowStale
<1> QED BY <1>1, <1>2, LastType DEF StreamInv, GrowStale, Progress

-----------------------------------------------------------------------------
(* The consumers.                                                          *)

\* What a step may do to the versions: they only grow, and a score that is
\* up to date is replaced by an older one only with a note of it.
Versions ==
    /\ GraphInv'
    /\ \A p \in Projects : attr'[p] >= attr[p]
    /\ \A p \in Projects :
          attr'[p] = attr[p] /\ (score[p] = attr[p] \/ p \in raced) =>
              score'[p] = attr'[p] \/ p \in raced'

\* Where a consumer is at an entry, the entry is one of the stream.
LEMMA EntryKnown ==
    ASSUME StreamInv, NEW w \in Workers, WorkerInv(w), pc[w] \in AtEntry
    PROVE  /\ Entry(w) \in 1..Last /\ project[Entry(w)] \in Projects
           /\ pos[w] \in 1..Len(batch[w])
<1>1. Entry(w) \in 1..Last
  BY DEF WorkerInv, Entry
<1>2. project \in Seq(Projects)
  BY DEF StreamInv, StreamTypeOK
<1> QED BY <1>1, <1>2 DEF WorkerInv, Last

\* A consumer that does not move keeps its invariant.
LEMMA Frame ==
    ASSUME StreamInv, GraphInv, LocalInv, Progress, Versions, NEW v \in Workers,
           pc'[v] = pc[v], pos'[v] = pos[v], batch'[v] = batch[v], seen'[v] = seen[v]
    PROVE  WorkerInv(v)'
<1>1. WorkerInv(v) /\ seen[v] \in Nat /\ Entry(v)' = Entry(v) /\ Last \in Nat /\ Last' \in Nat
  BY LastType DEF LocalInv, Entry, Progress, StreamInv, StreamTypeOK, Last
<1>2. /\ pc'[v] \in AtEntry => pos'[v] \in 1..Len(batch'[v])
      /\ \A i \in 1..Len(batch'[v]) : batch'[v][i] \in 1..Last'
  BY <1>1 DEF WorkerInv, Progress
<1> SUFFICES ASSUME pc[v] \in {"record", "ack"}
             PROVE  /\ seen[v] <= attr'[project'[Entry(v)']]
                    /\ LET p == project'[Entry(v)']
                       IN  pc[v] = "ack" /\ seen[v] = attr'[p] =>
                               score'[p] = attr'[p] \/ p \in raced'
  BY <1>2 DEF WorkerInv
<1>3. Entry(v) \in 1..Last /\ project[Entry(v)] \in Projects
  BY <1>1, EntryKnown DEF AtEntry
<1> DEFINE p == project[Entry(v)]
<1>4. project'[Entry(v)'] = p
  BY <1>1, <1>3 DEF Progress
<1>5. attr[p] \in Nat /\ attr'[p] \in Nat /\ attr'[p] >= attr[p]
  BY <1>3 DEF GraphInv, Versions
<1>6. seen[v] <= attr[p] /\ (pc[v] = "ack" /\ seen[v] = attr[p] => score[p] = attr[p] \/ p \in raced)
  BY <1>1 DEF WorkerInv
<1>7. p \in Projects
  BY <1>3
<1> HIDE DEF p
<1>8. seen[v] <= attr'[p]
  BY <1>1, <1>5, <1>6
<1>9. ASSUME pc[v] = "ack", seen[v] = attr'[p] PROVE score'[p] = attr'[p] \/ p \in raced'
  <2>1. attr'[p] = attr[p]
    BY <1>1, <1>5, <1>6, <1>9
  <2> QED BY <1>6, <1>7, <1>9, <2>1 DEF Versions
<1> QED BY <1>4, <1>8, <1>9

\* No consumer moves.
LEMMA RequestKeeps ==
    ASSUME StreamInv, GraphInv, LocalInv, Progress, Versions, UNCHANGED <<pc, local>>
    PROVE  LocalInv'
<1>1. \A v \in Workers : WorkerInv(v)'
  BY Frame DEF local
<1> QED BY <1>1 DEF LocalInv, local

\* A step of w leaves the other consumers alone.
LEMMA OthersKeep ==
    ASSUME StreamInv, GraphInv, LocalInv, Progress, Versions, NEW w \in Workers,
           \E label : Goto(w, label),
           \A v \in Workers : v # w => pos'[v] = pos[v] /\ batch'[v] = batch[v]
                                       /\ seen'[v] = seen[v]
    PROVE  \A v \in Workers : v # w => WorkerInv(v)'
<1> TAKE v \in Workers
<1> HAVE v # w
<1>1. pc'[v] = pc[v]
  BY DEF Goto, LocalInv
<1> QED BY <1>1, Frame

\* w goes to another control point with its batch, where nothing was read.
LEMMA GotoKeeps ==
    ASSUME StreamInv, GraphInv, LocalInv, Progress, Versions, NEW w \in Workers,
           NEW label \in WorkerPc \ {"record", "ack"}, Goto(w, label), UNCHANGED local,
           label \in AtEntry => pc[w] \in AtEntry
    PROVE  LocalInv'
<1>1. \A v \in Workers : v # w => WorkerInv(v)'
  BY OthersKeep DEF local
<1>2. pc'[w] = label /\ pc' \in [Workers -> WorkerPc]
  BY DEF Goto, LocalInv
<1>3. WorkerInv(w) /\ Last \in Nat /\ Last' \in Nat /\ Last' >= Last
  BY LastType DEF LocalInv, Progress, StreamInv, StreamTypeOK, Last
<1>4. WorkerInv(w)'
  BY <1>2, <1>3 DEF WorkerInv, local
<1> QED BY <1>1, <1>2, <1>4 DEF LocalInv, local

\* w gives up its batch.
LEMMA DropKeeps ==
    ASSUME StreamInv, GraphInv, LocalInv, Progress, Versions, NEW w \in Workers,
           NEW label \in WorkerPc \ AtEntry, Drop(w, label)
    PROVE  LocalInv'
<1>1. \A v \in Workers : v # w => WorkerInv(v)'
  BY OthersKeep DEF Drop, LocalInv
<1>2. pc'[w] = label /\ pc' \in [Workers -> WorkerPc] /\ batch'[w] = <<>>
  BY DEF Drop, Goto, LocalInv
<1>3. WorkerInv(w)'
  BY <1>2 DEF WorkerInv, AtEntry
<1>4. /\ batch' \in [Workers -> Seq(Jobs)] /\ pos' \in [Workers -> Nat \ {0}]
      /\ claimed' \in [Workers -> BOOLEAN] /\ seen' \in [Workers -> Nat]
  BY DEF Drop, LocalInv
<1> QED BY <1>1, <1>2, <1>3, <1>4 DEF LocalInv

\* w goes on with the next entry of its batch, or back to polling.
LEMMA AdvanceKeeps ==
    ASSUME StreamInv, GraphInv, LocalInv, Progress, Versions, NEW w \in Workers,
           pc[w] \in AtEntry, Advance(w)
    PROVE  LocalInv' /\ pc'[w] \in WorkerPc \ {"record", "ack"}
                     /\ \E label : Goto(w, label)
<1>1. CASE ~(pos[w] < Len(batch[w]))
  <2>1. PICK label \in {"read", "claim"} : Drop(w, label)
    BY <1>1 DEF Advance
  <2>2. label \in WorkerPc \ AtEntry
    BY DEF WorkerPc, AtEntry
  <2>3. pc'[w] = label /\ label \notin {"record", "ack"}
    BY <2>1 DEF Drop, Goto, LocalInv
  <2> QED BY <2>1, <2>2, <2>3, DropKeeps DEF Drop
<1>2. CASE pos[w] < Len(batch[w])
  <2>1. /\ pos' = [pos EXCEPT ![w] = @ + 1] /\ batch' = batch /\ claimed' = claimed
        /\ seen' = [seen EXCEPT ![w] = 0]
        /\ Goto(w, IF claimed[w] THEN "check" ELSE "compute")
    BY <1>2 DEF Advance
  <2>2. \A v \in Workers : v # w => WorkerInv(v)'
    BY <2>1, OthersKeep DEF LocalInv
  <2>3. pc'[w] \in {"check", "compute"} /\ pc' \in [Workers -> WorkerPc]
    BY <2>1 DEF Goto, LocalInv, WorkerPc
  <2>4. /\ pos'[w] = pos[w] + 1 /\ batch'[w] = batch[w] /\ batch[w] \in Seq(Jobs)
        /\ pos' \in [Workers -> Nat \ {0}] /\ seen' \in [Workers -> Nat]
    BY <2>1 DEF LocalInv
  <2>5. WorkerInv(w) /\ Last \in Nat /\ Last' \in Nat /\ Last' >= Last
    BY LastType DEF LocalInv, Progress, StreamInv, StreamTypeOK, Last
  <2>6. WorkerInv(w)'
    BY <1>2, <2>3, <2>4, <2>5 DEF WorkerInv
  <2>7. pc'[w] \in WorkerPc \ {"record", "ack"}
    BY <2>3 DEF WorkerPc
  <2> QED BY <2>1, <2>2, <2>3, <2>4, <2>6, <2>7 DEF LocalInv
<1> QED BY <1>1, <1>2

\* w is handed the entries of S.
LEMMA TakeKeeps ==
    ASSUME StreamInv, GraphInv, LocalInv, Progress, Versions, NEW w \in Workers,
           NEW S, S # {}, S \subseteq 1..Last', NEW reclaim \in BOOLEAN,
           NEW label \in {"check", "compute"}, Take(w, S, reclaim, label)
    PROVE  LocalInv'
<1>0. S \in SUBSET Jobs
  <2>1. StreamInv'
    BY DEF Progress
  <2>2. Last' \in Nat /\ Last' <= MaxJobs
    BY <2>1 DEF StreamInv, StreamTypeOK, Last
  <2> QED BY <2>2, StreamAssumption DEF Jobs
<1>1. PICK s \in InOrder(S) : batch' = [batch EXCEPT ![w] = s]
  BY DEF Take
<1>2. s \in Seq(Jobs) /\ Len(s) >= 1 /\ \A i \in 1..Len(s) : s[i] \in S
  BY <1>0, <1>1, Listing
<1>3. \A v \in Workers : v # w => WorkerInv(v)'
  BY OthersKeep DEF Take, LocalInv
<1>4. pc'[w] = label /\ pc' \in [Workers -> WorkerPc]
  BY DEF Take, Goto, LocalInv, WorkerPc
<1>5. pos'[w] = 1 /\ batch'[w] = s
  BY <1>1 DEF Take, LocalInv
<1>6. WorkerInv(w)'
  <2>0. \A x \in S : x \in 1..Last'
    OBVIOUS
  <2>1. /\ pos'[w] \in 1..Len(batch'[w])
        /\ \A i \in 1..Len(batch'[w]) : batch'[w][i] \in 1..Last'
    <3>1. Len(s) \in Nat
      BY <1>2
    <3>2. 1 \in 1..Len(s)
      BY <1>2, <3>1
    <3>3. \A i \in 1..Len(s) : s[i] \in 1..Last'
      BY <1>2, <2>0, Zenon
    <3> QED BY <1>5, <3>2, <3>3
  <2>2. pc'[w] \notin {"record", "ack"}
    BY <1>4
  <2> QED BY <2>1, <2>2 DEF WorkerInv
<1>7. /\ batch' \in [Workers -> Seq(Jobs)] /\ pos' \in [Workers -> Nat \ {0}]
      /\ claimed' \in [Workers -> BOOLEAN] /\ seen' \in [Workers -> Nat]
  BY <1>1, <1>2 DEF Take, LocalInv
<1> QED BY <1>3, <1>4, <1>6, <1>7 DEF LocalInv

-----------------------------------------------------------------------------
(* Who is to recompute a score.                                            *)

\* A consumer that does not move is no later than it was.
LEMMA SpentFrame ==
    ASSUME StreamInv, Progress, NEW v \in Workers, NEW j \in 1..Last,
           pc'[v] = pc[v], pos'[v] = pos[v], batch'[v] = batch[v], seen'[v] = seen[v],
           attr'[project[j]] = attr[project[j]], Spent(v, j)'
    PROVE  Spent(v, j)
<1>1. project'[j] = project[j]
  BY DEF Progress
<1> QED BY <1>1 DEF Spent, Entry

\* An entry is as good as it was if it is not taken from the pending list and
\* nobody becomes too late for it.
LEMMA StaysFresh ==
    ASSUME StreamInv, Progress, NEW p, NEW j \in 1..Last, Serves(j, p),
           j \in pel => j \in pel', \A w \in Workers : Spent(w, j)' => Spent(w, j)
    PROVE  j \in 1..Last' /\ Serves(j, p)'
<1>1. StreamInv /\ StreamInv'
  BY DEF Progress
<1>2. Last \in Nat /\ Last' \in Nat
  BY <1>1 DEF StreamInv, StreamTypeOK, Last
<1>3. j \in 1..Last' /\ project'[j] = project[j]
  BY <1>2 DEF Progress
<1>4. j \in Waiting' \cup pel'
  BY DEF Serves, Fresh, Progress
<1> QED BY <1>3, <1>4 DEF Serves, Fresh

\* The step of a consumer w takes nothing from p unless it takes the entry
\* that serves p, or comes too late for it.
LEMMA ConsumerCovers ==
    ASSUME StreamInv, Progress, NEW w \in Workers, NEW p \in Projects,
           attr' = attr, req' = req, Covered(p),
           \A v \in Workers : v # w => pc'[v] = pc[v] /\ pos'[v] = pos[v]
                                       /\ batch'[v] = batch[v] /\ seen'[v] = seen[v],
           \A j \in 1..Last : Serves(j, p) =>
               (j \in pel => j \in pel') /\ (Spent(w, j)' => Spent(w, j))
    PROVE  Covered(p)'
<1>1. CASE \E r \in Requests : p \in Asking(r) /\ req[r].version[p] = attr[p]
  BY <1>1 DEF Covered, Asking
<1>2. CASE \E j \in 1..Last : Serves(j, p)
  <2>1. PICK j \in 1..Last : Serves(j, p)
    BY <1>2
  <2>2. \A v \in Workers : Spent(v, j)' => Spent(v, j)
    BY <2>1, SpentFrame
  <2>3. j \in 1..Last' /\ Serves(j, p)'
    BY <2>1, <2>2, StaysFresh
  <2> QED BY <2>3 DEF Covered
<1> QED BY <1>1, <1>2 DEF Covered

\* Without a step of a consumer, an entry serves as long as the version does.
LEMMA EntryServes ==
    ASSUME StreamInv, Progress, pel' = pel, UNCHANGED <<pc, local>>,
           NEW p \in Projects, attr'[p] = attr[p], NEW j \in 1..Last, Serves(j, p)
    PROVE  j \in 1..Last' /\ Serves(j, p)'
<1>1. project[j] = p
  BY DEF Serves
<1>2. \A v \in Workers : Spent(v, j)' => Spent(v, j)
  BY <1>1, SpentFrame DEF local
<1> QED BY <1>2, StaysFresh

\* The step of a request takes nothing from p if what it gives up of p is
\* served, asked for by another, or noted as missed.
LEMMA RequestCovers ==
    ASSUME StreamInv, Progress, StaleIsCovered, pel' = pel, UNCHANGED <<pc, local>>,
           NEW p \in Projects, attr'[p] = attr[p], score'[p] = score[p],
           p \in missed => p \in missed', p \in raced => p \in raced',
           \A r \in Requests :
               p \in Asking(r) /\ req[r].version[p] = attr[p] =>
                   \/ p \in missed'
                   \/ p \in Asking(r)' /\ req'[r].version[p] = attr[p]
                   \/ \E j \in 1..Last' : Serves(j, p)'
    PROVE  score'[p] < attr'[p] => Covered(p)' \/ p \in missed' \cup raced'
<1> SUFFICES ASSUME score[p] < attr[p], p \notin missed', p \notin raced'
             PROVE  Covered(p)'
  OBVIOUS
<1>1. Covered(p)
  BY DEF StaleIsCovered
<1>2. CASE \E r \in Requests : p \in Asking(r) /\ req[r].version[p] = attr[p]
  BY <1>2 DEF Covered
<1>3. CASE \E j \in 1..Last : Serves(j, p)
  BY <1>3, EntryServes DEF Covered
<1> QED BY <1>1, <1>2, <1>3 DEF Covered

-----------------------------------------------------------------------------
(* Requests.                                                               *)

LEMMA RemainKeeps ==
    ASSUME GraphInv, NEW r \in Requests, NEW todo \in SUBSET Projects,
           NEW accepted \in SUBSET Projects, Remain(r, todo, accepted)
    PROVE  /\ req' \in [Requests -> RequestRecord]
           /\ Asking(r)' = todo \cup accepted
           /\ todo \cup accepted # {} => req'[r].version = req[r].version
           /\ \A q \in Requests : q # r => req'[q] = req[q] /\ Asking(q)' = Asking(q)
<1>1. req[r] \in RequestRecord /\ req \in [Requests -> RequestRecord]
  BY DEF GraphInv
<1>2. NoRequest \in RequestRecord
  BY DEF NoRequest, RequestRecord
<1>3. [req[r] EXCEPT !.todo = todo, !.accepted = accepted] \in RequestRecord
  BY <1>1 DEF RequestRecord
<1> DEFINE left == IF todo \cup accepted = {} THEN NoRequest
                   ELSE [req[r] EXCEPT !.todo = todo, !.accepted = accepted]
<1>4. req' = [req EXCEPT ![r] = left]
  BY DEF Remain
<1>5. left \in RequestRecord
  BY <1>2, <1>3
<1>6. /\ left.todo \cup left.accepted = todo \cup accepted
      /\ todo \cup accepted # {} => left.version = req[r].version
  BY <1>1 DEF RequestRecord, NoRequest
<1> HIDE DEF left
<1>7. req'[r] = left /\ \A q \in Requests : q # r => req'[q] = req[q]
  BY <1>1, <1>4
<1>8. req' \in [Requests -> RequestRecord]
  BY <1>1, <1>4, <1>5
<1> QED BY <1>6, <1>7, <1>8 DEF Asking

\* A request that has not ended asks for nothing else, and at the version it
\* had; what it no longer asks for is noted as missed, or served.
LEMMA RemainInv ==
    ASSUME IInv, Progress, pel' = pel, UNCHANGED <<pc, local, graph, raced>>,
           NEW r \in Requests, NEW todo, NEW accepted,
           todo \cup accepted \subseteq Asking(r), Remain(r, todo, accepted),
           missed \subseteq missed', missed' \subseteq Projects,
           \A p \in Asking(r) : p \notin todo \cup accepted =>
               \/ req[r].version[p] = attr[p] => p \in missed'
               \/ \E j \in 1..Last' : Serves(j, p)'
    PROVE  IInv'
<1> USE DEF IInv
<1>1. Asking(r) \subseteq Projects
  BY DEF Asking, GraphInv, RequestRecord
<1>2. /\ req' \in [Requests -> RequestRecord]
      /\ Asking(r)' = todo \cup accepted
      /\ todo \cup accepted # {} => req'[r].version = req[r].version
      /\ \A q \in Requests : q # r => req'[q] = req[q] /\ Asking(q)' = Asking(q)
  BY <1>1, RemainKeeps
<1>3. GraphInv'
  BY <1>2 DEF GraphInv, graph
<1>4. Versions
  BY <1>3 DEF Versions, GraphInv, graph
<1>5. LocalInv'
  BY <1>4, RequestKeeps
<1>6. StaleIsCovered'
  <2> SUFFICES ASSUME NEW p \in Projects
               PROVE  score'[p] < attr'[p] => Covered(p)' \/ p \in missed' \cup raced'
    BY DEF StaleIsCovered
  <2>1. ASSUME NEW q \in Requests, p \in Asking(q), req[q].version[p] = attr[p]
        PROVE  \/ p \in missed'
               \/ p \in Asking(q)' /\ req'[q].version[p] = attr[p]
               \/ \E j \in 1..Last' : Serves(j, p)'
    <3>1. CASE q # r
      BY <1>2, <2>1, <3>1
    <3>2. CASE q = r /\ p \in todo \cup accepted
      BY <1>2, <2>1, <3>2
    <3>3. CASE q = r /\ p \notin todo \cup accepted
      BY <2>1, <3>3
    <3> QED BY <3>1, <3>2, <3>3
  <2> QED BY <2>1, RequestCovers DEF graph
<1> QED BY <1>3, <1>5, <1>6 DEF Progress

LEMMA CommitInv ==
    ASSUME IInv, NEW r \in Requests, NEW S \in SUBSET Projects, NEW bulk \in BOOLEAN,
           Commit(r, S, bulk)
    PROVE  IInv'
<1> USE DEF IInv
<1>1. Progress /\ pel' = pel /\ UNCHANGED <<pc, local>>
  BY StillProgress DEF Commit, stream
<1>2. \A p \in Projects : attr'[p] = IF p \in S THEN attr[p] + 1 ELSE attr[p]
  BY DEF Commit
<1>3. attr' \in [Projects -> Nat]
  BY DEF Commit, GraphInv
<1> DEFINE new == [todo |-> S, accepted |-> {}, bulk |-> bulk, version |-> attr']
<1>4. req' = [req EXCEPT ![r] = new] /\ req \in [Requests -> RequestRecord]
  BY DEF Commit, GraphInv
<1>5. new \in RequestRecord
  BY <1>3 DEF RequestRecord
<1>6. new.todo = S /\ new.accepted = {} /\ new.version = attr'
  OBVIOUS
<1> HIDE DEF new
<1>7. req'[r] = new /\ \A q \in Requests : q # r => req'[q] = req[q]
  BY <1>4
<1>8. req' \in [Requests -> RequestRecord]
  BY <1>4, <1>5
<1>9. score' = score /\ raced' = raced /\ missed' = missed \ S
  BY DEF Commit
<1>10. \A p \in Projects : attr[p] \in Nat /\ score[p] \in Nat /\ score[p] <= attr[p]
  BY DEF GraphInv
<1>11. \A p \in Projects : attr'[p] >= attr[p] /\ score[p] <= attr'[p]
  BY <1>2, <1>10
<1>12. GraphInv'
  BY <1>3, <1>8, <1>9, <1>11 DEF GraphInv
<1>13. Versions
  BY <1>9, <1>11, <1>12 DEF Versions
<1>14. LocalInv'
  BY <1>1, <1>13, RequestKeeps
<1>15. StaleIsCovered'
  <2> SUFFICES ASSUME NEW p \in Projects
               PROVE  score'[p] < attr'[p] => Covered(p)' \/ p \in missed' \cup raced'
    BY DEF StaleIsCovered
  <2>1. CASE p \in S
    <3>1. p \in Asking(r)' /\ req'[r].version[p] = attr'[p]
      BY <1>6, <1>7, <2>1 DEF Asking
    <3> QED BY <3>1 DEF Covered
  <2>2. CASE p \notin S
    <3>1. attr'[p] = attr[p]
      BY <1>2, <2>2
    <3>2. Asking(r) = {}
      BY DEF Commit
    <3>3. \A q \in Requests : q # r => Asking(q)' = Asking(q)
      BY <1>7 DEF Asking
    <3> QED BY <1>1, <1>7, <1>9, <2>2, <3>1, <3>2, <3>3, RequestCovers
  <2> QED BY <2>1, <2>2
<1> QED BY <1>1, <1>12, <1>14, <1>15 DEF Progress

LEMMA EnqueueAllInv ==
    ASSUME IInv, NEW r \in Requests, NEW bulk \in BOOLEAN, EnqueueAll(r, bulk)
    PROVE  IInv'
<1> USE DEF IInv
<1>1. Progress /\ pel' = pel /\ UNCHANGED <<pc, local, graph, missed, raced>>
  BY StillProgress DEF EnqueueAll, stream, history
<1> DEFINE new == [NoRequest EXCEPT !.todo = Projects, !.bulk = bulk]
<1>2. req' = [req EXCEPT ![r] = new] /\ req \in [Requests -> RequestRecord]
  BY DEF EnqueueAll, GraphInv
<1>3. new \in RequestRecord
  BY DEF RequestRecord, NoRequest
<1> HIDE DEF new
<1>4. req' \in [Requests -> RequestRecord]
      /\ \A q \in Requests : q # r => req'[q] = req[q]
  BY <1>2, <1>3
<1>5. GraphInv'
  BY <1>1, <1>4 DEF GraphInv, graph
<1>6. Versions
  BY <1>1, <1>5 DEF Versions, GraphInv, graph
<1>7. LocalInv'
  BY <1>1, <1>6, RequestKeeps
<1>8. Asking(r) = {}
  BY DEF EnqueueAll
<1>9. \A q \in Requests : q # r => Asking(q)' = Asking(q)
  BY <1>4 DEF Asking
<1>10. StaleIsCovered'
  <2> SUFFICES ASSUME NEW p \in Projects
               PROVE  score'[p] < attr'[p] => Covered(p)' \/ p \in missed' \cup raced'
    BY DEF StaleIsCovered
  <2> QED BY <1>1, <1>4, <1>8, <1>9, RequestCovers DEF graph
<1> QED BY <1>1, <1>5, <1>7, <1>10 DEF Progress

LEMMA AcquireInv ==
    ASSUME IInv, NEW r \in Requests, NEW p \in Projects, Acquire(r, p)
    PROVE  IInv'
<1> USE DEF IInv
<1>1. Progress /\ pel' = pel /\ UNCHANGED <<pc, local, graph, raced>>
  BY StillProgress DEF Acquire, stream
<1>2. missed \subseteq Projects
  BY DEF GraphInv
<1>3. CASE p \in debounce
  <2>1. Remain(r, req[r].todo \ {p}, req[r].accepted)
    BY <1>3 DEF Acquire
  <2>2. CASE \E j \in 1..Last : Serves(j, p)
    <3>1. missed' = missed
      BY <1>3, <2>2 DEF Acquire
    <3>2. \E j \in 1..Last' : Serves(j, p)'
      BY <1>1, <2>2, EntryServes DEF graph
    <3>3. \A x \in Asking(r) : x \notin (req[r].todo \ {p}) \cup req[r].accepted => x = p
      BY DEF Asking
    <3>4. (req[r].todo \ {p}) \cup req[r].accepted \subseteq Asking(r)
      BY DEF Asking
    <3> QED BY <1>1, <1>2, <2>1, <3>1, <3>2, <3>3, <3>4, RemainInv
  <2>3. CASE ~\E j \in 1..Last : Serves(j, p)
    <3>1. missed' = missed \cup {x \in {p} : req[r].version[x] = attr[x]}
      BY <1>3, <2>3 DEF Acquire, Miss
    <3>2. missed \subseteq missed' /\ missed' \subseteq Projects
          /\ (req[r].version[p] = attr[p] => p \in missed')
      BY <1>2, <3>1
    <3>3. \A x \in Asking(r) : x \notin (req[r].todo \ {p}) \cup req[r].accepted => x = p
      BY DEF Asking
    <3>4. (req[r].todo \ {p}) \cup req[r].accepted \subseteq Asking(r)
      BY DEF Asking
    <3> HIDE <3>1
    <3> QED BY <1>1, <2>1, <3>2, <3>3, <3>4, RemainInv
  <2> QED BY <2>2, <2>3
<1>4. CASE p \notin debounce
  <2>1. Remain(r, req[r].todo \ {p}, req[r].accepted \cup {p}) /\ missed' = missed
    BY <1>4 DEF Acquire
  <2>2. (req[r].todo \ {p}) \cup (req[r].accepted \cup {p}) = Asking(r)
    BY DEF Acquire, Asking
  <2> QED BY <1>1, <1>2, <2>1, <2>2, RemainInv
<1> QED BY <1>3, <1>4

LEMMA AddInv ==
    ASSUME IInv, NEW r \in Requests, NEW p \in Projects, Add(r, p)
    PROVE  IInv'
<1> USE DEF IInv
<1>1. /\ Progress /\ pel' = pel /\ Last' = Last + 1 /\ project'[Last + 1] = p
      /\ delivered # -1 => Last + 1 \in Waiting'
  BY AddProgress DEF Add
<1>2. UNCHANGED <<pc, local, graph, raced>> /\ missed \subseteq Projects
  BY DEF Add, GraphInv
<1>3. Remain(r, req[r].todo, req[r].accepted \ {p})
  BY DEF Add
<1>4. req[r].todo \cup (req[r].accepted \ {p}) \subseteq Asking(r)
  BY DEF Asking
<1>5. \A x \in Asking(r) : x \notin req[r].todo \cup (req[r].accepted \ {p}) => x = p
  BY DEF Asking
<1>6. CASE delivered = -1
  <2>1. missed' = missed \cup {x \in {p} : attr[x] = attr[x]}
    BY <1>6 DEF Add, Miss
  <2>2. missed \subseteq missed' /\ missed' \subseteq Projects /\ p \in missed'
    BY <1>2, <2>1
  <2> QED BY <1>1, <1>2, <1>3, <1>4, <1>5, <2>2, RemainInv
<1>7. CASE delivered # -1
  <2>1. missed' = missed
    BY <1>7 DEF Add
  <2>0. Last \in Nat
    BY LastType
  <2>2. PICK j \in Nat : j = Last + 1
    BY LastType
  <2>3. \A w \in Workers : ~Spent(w, j)'
    <3> SUFFICES ASSUME NEW w \in Workers, Spent(w, j)'
                 PROVE  FALSE
      OBVIOUS
    <3>1. pc[w] \in AtEntry /\ Entry(w) = j
      BY <1>2 DEF Spent, Entry, local, AtEntry
    <3>2. Entry(w) \in 1..Last
      BY <3>1, EntryKnown DEF LocalInv
    <3> QED BY <2>0, <2>2, <3>1, <3>2
  <2>4. j \in 1..Last' /\ project'[j] = p /\ j \in Waiting'
    BY <1>1, <1>7, <2>0, <2>2
  <2>5. Serves(j, p)'
    BY <2>3, <2>4 DEF Serves, Fresh
  <2> QED BY <1>1, <1>2, <1>3, <1>4, <1>5, <2>1, <2>4, <2>5, RemainInv
<1> QED BY <1>6, <1>7

LEMMA EnqueueFailsInv ==
    ASSUME IInv, NEW r \in Requests, NEW p \in Projects, EnqueueFails(r, p)
    PROVE  IInv'
<1> USE DEF IInv
<1>1. Progress /\ pel' = pel
  <2>1. AddEntry(p) \/ UNCHANGED stream
    BY DEF EnqueueFails
  <2> QED BY <2>1, AddProgress, StillProgress DEF stream
<1>2. UNCHANGED <<pc, local, graph, raced>> /\ missed \subseteq Projects
  BY DEF EnqueueFails, GraphInv
<1> DEFINE lost == IF req[r].bulk THEN Asking(r) ELSE {p}
<1>3. /\ Remain(r, req[r].todo \ lost, req[r].accepted \ lost)
      /\ missed' = missed \cup {x \in lost : req[r].version[x] = attr[x]}
      /\ p \in Asking(r)
  BY DEF EnqueueFails, Miss
<1>4. lost \subseteq Projects
  BY DEF Asking, GraphInv, RequestRecord
<1> HIDE DEF lost
<1>5. missed \subseteq missed' /\ missed' \subseteq Projects
      /\ \A x \in lost : req[r].version[x] = attr[x] => x \in missed'
  BY <1>2, <1>3, <1>4
<1>6. (req[r].todo \ lost) \cup (req[r].accepted \ lost) = Asking(r) \ lost
  BY DEF Asking
<1> QED BY <1>1, <1>2, <1>3, <1>5, <1>6, RemainInv

LEMMA RequestDiesInv ==
    ASSUME IInv, NEW r \in Requests, RequestDies(r)
    PROVE  IInv'
<1> USE DEF IInv
<1>1. Progress /\ pel' = pel /\ UNCHANGED <<pc, local, graph, raced>>
  BY StillProgress DEF RequestDies, stream
<1>2. Remain(r, {}, {})
  BY DEF RequestDies, Remain
<1>3. missed' = missed \cup {x \in Asking(r) : req[r].version[x] = attr[x]}
  BY DEF RequestDies, Miss
<1>4. Asking(r) \subseteq Projects /\ missed \subseteq Projects
  BY DEF Asking, GraphInv, RequestRecord
<1>5. missed \subseteq missed' /\ missed' \subseteq Projects
      /\ \A x \in Asking(r) : req[r].version[x] = attr[x] => x \in missed'
  BY <1>3, <1>4
<1> QED BY <1>1, <1>2, <1>5, RemainInv

-----------------------------------------------------------------------------
(* Consumers.                                                              *)

\* The projects and the requests are left alone.
LEMMA StillVersions ==
    ASSUME GraphInv, UNCHANGED <<attr, score, req>>, missed' \subseteq Projects,
           raced' = raced
    PROVE  Versions
<1>1. GraphInv'
  BY DEF GraphInv
<1> QED BY <1>1 DEF Versions, GraphInv

\* A step of w that records nothing keeps every stale score covered, if it
\* acknowledges only an entry that it has read for at the last version, and
\* notes what it gives up.
LEMMA ConsumerInv ==
    ASSUME IInv, Progress, LocalInv', NEW w \in Workers,
           UNCHANGED <<attr, score, req, raced>>, missed \subseteq missed',
           missed' \subseteq Projects,
           \A v \in Workers : v # w => pc'[v] = pc[v] /\ pos'[v] = pos[v]
                                       /\ batch'[v] = batch[v] /\ seen'[v] = seen[v],
           \A j \in 1..Last : Spent(w, j)' => Spent(w, j),
           \/ pel \subseteq pel'
           \/ /\ pc[w] \in {"dlq_ack", "ack"} /\ pel' = pel \ {Entry(w)}
              /\ pc[w] = "dlq_ack" => project[Entry(w)] \in missed'
    PROVE  IInv'
<1> USE DEF IInv
<1>1. GraphInv'
  BY StillVersions DEF Versions
<1>2. StaleIsCovered'
  <2> SUFFICES ASSUME NEW p \in Projects, score[p] < attr[p],
                      p \notin missed', p \notin raced
               PROVE  Covered(p)'
    BY DEF StaleIsCovered
  <2>1. Covered(p)
    BY DEF StaleIsCovered
  <2>2. ASSUME NEW j \in 1..Last, Serves(j, p), j \in pel PROVE j \in pel'
    <3> SUFFICES ASSUME j \notin pel' PROVE FALSE
      OBVIOUS
    <3>1. /\ pc[w] \in {"dlq_ack", "ack"} /\ Entry(w) = j
          /\ pc[w] = "dlq_ack" => p \in missed'
      BY <2>2 DEF Serves
    <3>2. pc[w] = "ack" /\ ~Spent(w, j)
      BY <2>2, <3>1 DEF Serves, Fresh
    <3>3. seen[w] <= attr[p] /\ ~(seen[w] < attr[p])
      BY <2>2, <3>1, <3>2 DEF Spent, Serves, LocalInv, WorkerInv
    <3>4. seen[w] = attr[p]
      BY <3>3 DEF LocalInv, GraphInv
    <3>5. score[p] = attr[p]
      BY <2>2, <3>1, <3>2, <3>4 DEF LocalInv, WorkerInv, Serves
    <3> QED BY <3>5 DEF GraphInv
  <2> QED BY <2>1, <2>2, ConsumerCovers
<1> QED BY <1>1, <1>2 DEF Progress

\* What the others hold is unchanged when w goes on.
LEMMA OthersStay ==
    ASSUME LocalInv, NEW w \in Workers,
           \/ UNCHANGED local /\ \E label : Goto(w, label)
           \/ \E label : Drop(w, label)
           \/ Advance(w)
           \/ \E S, reclaim, label : Take(w, S, reclaim, label)
    PROVE  \A v \in Workers : v # w => pc'[v] = pc[v] /\ pos'[v] = pos[v]
                                       /\ batch'[v] = batch[v] /\ seen'[v] = seen[v]
<1> TAKE v \in Workers
<1> HAVE v # w
<1>1. CASE UNCHANGED local /\ \E label : Goto(w, label)
  BY <1>1 DEF local, Goto, LocalInv
<1>2. CASE \E label : Drop(w, label)
  BY <1>2 DEF Drop, Goto, LocalInv
<1>3. CASE Advance(w)
  BY <1>3 DEF Advance, Drop, Goto, LocalInv
<1>4. CASE \E S, reclaim, label : Take(w, S, reclaim, label)
  BY <1>4 DEF Take, Goto, LocalInv
<1> QED BY <1>1, <1>2, <1>3, <1>4

\* Away from the write and the acknowledgement, w is late for nothing.
LEMMA NotSpent ==
    ASSUME NEW w \in Workers, pc'[w] \notin {"record", "ack"}
    PROVE  \A j \in 1..Last : Spent(w, j)' => Spent(w, j)
BY DEF Spent

LEMMA EnsureGroupInv ==
    ASSUME IInv, NEW w \in Workers, EnsureGroup(w)
    PROVE  IInv'
<1> USE DEF IInv
<1>1. Progress /\ pel' = pel
  <2>1. CreateGroup \/ UNCHANGED stream
    BY DEF EnsureGroup
  <2> QED BY <2>1, GroupProgress, StillProgress DEF stream
<1>2. Goto(w, "claim") /\ UNCHANGED <<graph, req, local, missed, raced>>
  BY DEF EnsureGroup
<1>3. Versions
  BY <1>2, StillVersions DEF graph, GraphInv
<1>4. LocalInv'
  BY <1>1, <1>2, <1>3, GotoKeeps DEF WorkerPc, AtEntry
<1>5. pc'[w] = "claim"
  BY <1>2 DEF Goto, LocalInv
<1> QED BY <1>1, <1>2, <1>4, <1>5, OthersStay, NotSpent, ConsumerInv DEF graph, GraphInv

LEMMA ClaimStaleInv ==
    ASSUME IInv, NEW w \in Workers, ClaimStale(w)
    PROVE  IInv'
<1> USE DEF IInv
<1>1. UNCHANGED <<graph, req, missed, raced>> /\ missed' \subseteq Projects
  BY DEF ClaimStale, GraphInv
<1>2. Versions
  BY <1>1, StillVersions DEF graph
<1> DEFINE S == Lowest(stale, BatchSize)
<1>3. CASE stale # {} /\ Take(w, S, TRUE, "check") /\ AutoClaim(S)
  <2>1. S \in SUBSET stale
    BY DEF Lowest
  <2>2. S # {}
    <3>1. stale \in SUBSET Nat
      BY DEF StreamInv, StreamTypeOK
    <3> QED BY <1>3, <3>1, LowestSome, ConstantsAssumption
  <2> HIDE DEF S
  <2>3. Progress /\ pel' = pel /\ S \subseteq 1..Last'
    BY <1>3, <2>1, ClaimProgress
  <2>4. LocalInv'
    BY <1>2, <1>3, <2>2, <2>3, TakeKeeps
  <2>5. pc'[w] = "check"
    BY <1>3 DEF Take, Goto, LocalInv
  <2>6. \A j \in 1..Last : Spent(w, j)' => Spent(w, j)
    BY <2>5, NotSpent
  <2>7. \A v \in Workers : v # w => pc'[v] = pc[v] /\ pos'[v] = pos[v]
                                    /\ batch'[v] = batch[v] /\ seen'[v] = seen[v]
    BY <1>3, OthersStay
  <2> QED BY <1>1, <2>3, <2>4, <2>6, <2>7, ConsumerInv DEF graph
<1>4. CASE Goto(w, "read") /\ UNCHANGED <<local, stream>>
  <2>1. Progress /\ pel' = pel
    BY <1>4, StillProgress DEF stream
  <2>2. LocalInv'
    BY <1>2, <1>4, <2>1, GotoKeeps DEF WorkerPc, AtEntry
  <2>3. pc'[w] = "read"
    BY <1>4 DEF Goto, LocalInv
  <2> QED BY <1>1, <1>4, <2>1, <2>2, <2>3, OthersStay, NotSpent, ConsumerInv DEF graph
<1> QED BY <1>3, <1>4 DEF ClaimStale

LEMMA ReadNewInv ==
    ASSUME IInv, NEW w \in Workers, ReadNew(w)
    PROVE  IInv'
<1> USE DEF IInv
<1>1. UNCHANGED <<graph, req, missed, raced>> /\ missed' \subseteq Projects
  BY DEF ReadNew, GraphInv, history
<1>2. Versions
  BY <1>1, StillVersions DEF graph
<1> DEFINE S == IF delivered = -1 THEN {}
                ELSE Lowest((delivered + 1)..Last, BatchSize)
<1>3. CASE S = {} /\ Goto(w, "claim") /\ UNCHANGED <<local, stream>>
  <2>1. Progress /\ pel' = pel
    BY <1>3, StillProgress DEF stream
  <2>2. LocalInv'
    BY <1>2, <1>3, <2>1, GotoKeeps DEF WorkerPc, AtEntry
  <2>3. pc'[w] = "claim"
    BY <1>3 DEF Goto, LocalInv
  <2> QED BY <1>1, <1>3, <2>1, <2>2, <2>3, OthersStay, NotSpent, ConsumerInv DEF graph
<1>4. CASE S # {} /\ Take(w, S, FALSE, "compute") /\ ReadGroup(S)
  <2>1. delivered # -1 /\ S = Lowest((delivered + 1)..Last, BatchSize)
    BY <1>4
  <2> HIDE DEF S
  <2>2. Progress /\ pel' = pel \cup S /\ S \subseteq 1..Last'
    BY <1>4, <2>1, ReadProgress
  <2>3. LocalInv'
    BY <1>2, <1>4, <2>2, TakeKeeps
  <2>4. pc'[w] = "compute"
    BY <1>4 DEF Take, Goto, LocalInv
  <2>5. \A j \in 1..Last : Spent(w, j)' => Spent(w, j)
    BY <2>4, NotSpent
  <2>6. \A v \in Workers : v # w => pc'[v] = pc[v] /\ pos'[v] = pos[v]
                                    /\ batch'[v] = batch[v] /\ seen'[v] = seen[v]
    BY <1>4, OthersStay
  <2> QED BY <1>1, <2>2, <2>3, <2>5, <2>6, ConsumerInv DEF graph
<1> QED BY <1>3, <1>4 DEF ReadNew

LEMMA CheckDeliveriesInv ==
    ASSUME IInv, NEW w \in Workers, CheckDeliveries(w)
    PROVE  IInv'
<1> USE DEF IInv
<1>1. UNCHANGED <<graph, req, missed, raced, local, stream>> /\ pc[w] = "check"
  BY DEF CheckDeliveries
<1>2. PICK label \in {"dlq_add", "compute"} : Goto(w, label)
  BY DEF CheckDeliveries
<1>3. Progress /\ pel' = pel /\ Versions
  BY <1>1, StillProgress, StillVersions DEF stream, graph, GraphInv
<1>4. LocalInv'
  BY <1>1, <1>2, <1>3, GotoKeeps DEF WorkerPc, AtEntry
<1>5. pc'[w] = label /\ label \notin {"record", "ack"}
  BY <1>2 DEF Goto, LocalInv
<1>6. \A j \in 1..Last : Spent(w, j)' => Spent(w, j)
  BY <1>5, NotSpent
<1> QED BY <1>1, <1>2, <1>3, <1>4, <1>6, OthersStay, ConsumerInv DEF graph, GraphInv

\* What Miss adds.
LEMMA MissGives ==
    ASSUME GraphInv, NEW p \in Projects, Miss({p}, attr)
    PROVE  missed \subseteq missed' /\ missed' \subseteq Projects /\ p \in missed'
<1>1. missed' = missed \cup {x \in {p} : attr[x] = attr[x]}
  BY DEF Miss
<1> QED BY <1>1 DEF GraphInv

LEMMA DeadLetterAddInv ==
    ASSUME IInv, NEW w \in Workers, DeadLetterAdd(w)
    PROVE  IInv'
<1> USE DEF IInv
<1>1. /\ UNCHANGED <<graph, req, raced, local>> /\ pc[w] = "dlq_add"
      /\ AddDeadLetter(Entry(w)) /\ Goto(w, "dlq_ack") /\ Miss({project[Entry(w)]}, attr)
  BY DEF DeadLetterAdd
<1>2. Entry(w) \in 1..Last /\ project[Entry(w)] \in Projects
  BY <1>1, EntryKnown DEF LocalInv, AtEntry
<1>3. missed \subseteq missed' /\ missed' \subseteq Projects
  BY <1>1, <1>2, MissGives
<1>4. Progress /\ pel' = pel /\ Versions
  BY <1>1, <1>2, <1>3, DeadProgress, StillVersions DEF graph
<1>5. LocalInv'
  BY <1>1, <1>4, GotoKeeps DEF WorkerPc, AtEntry
<1>6. pc'[w] = "dlq_ack"
  BY <1>1 DEF Goto, LocalInv
<1>7. \A j \in 1..Last : Spent(w, j)' => Spent(w, j)
  BY <1>6, NotSpent
<1> QED BY <1>1, <1>3, <1>4, <1>5, <1>7, OthersStay, ConsumerInv DEF graph

LEMMA DeadLetterAckInv ==
    ASSUME IInv, NEW w \in Workers, DeadLetterAck(w)
    PROVE  IInv'
<1> USE DEF IInv
<1>1. /\ UNCHANGED <<graph, req, raced>> /\ pc[w] = "dlq_ack"
      /\ Xack(Entry(w)) /\ Advance(w) /\ Miss({project[Entry(w)]}, attr)
  BY DEF DeadLetterAck
<1>2. project[Entry(w)] \in Projects
  BY <1>1, EntryKnown DEF LocalInv, AtEntry
<1>3. missed \subseteq missed' /\ missed' \subseteq Projects /\ project[Entry(w)] \in missed'
  BY <1>1, <1>2, MissGives
<1>4. Progress /\ pel' = pel \ {Entry(w)} /\ Versions
  BY <1>1, <1>3, AckProgress, StillVersions DEF graph
<1>5. LocalInv' /\ pc'[w] \notin {"record", "ack"}
  BY <1>1, <1>4, AdvanceKeeps DEF AtEntry
<1>6. \A j \in 1..Last : Spent(w, j)' => Spent(w, j)
  BY <1>5, NotSpent
<1> QED BY <1>1, <1>3, <1>4, <1>5, <1>6, OthersStay, ConsumerInv DEF graph

LEMMA AckInv ==
    ASSUME IInv, NEW w \in Workers, Ack(w)
    PROVE  IInv'
<1> USE DEF IInv
<1>1. /\ UNCHANGED <<graph, req, raced, missed>> /\ pc[w] = "ack"
      /\ Xack(Entry(w)) /\ Advance(w)
  BY DEF Ack, history
<1>2. missed' \subseteq Projects
  BY <1>1 DEF GraphInv
<1>3. Progress /\ pel' = pel \ {Entry(w)} /\ Versions
  BY <1>1, <1>2, AckProgress, StillVersions DEF graph
<1>4. LocalInv' /\ pc'[w] \notin {"record", "ack"}
  BY <1>1, <1>3, AdvanceKeeps DEF AtEntry
<1>5. \A j \in 1..Last : Spent(w, j)' => Spent(w, j)
  BY <1>4, NotSpent
<1> QED BY <1>1, <1>2, <1>3, <1>4, <1>5, OthersStay, ConsumerInv DEF graph

LEMMA RecomputeFailsInv ==
    ASSUME IInv, NEW w \in Workers, RecomputeFails(w)
    PROVE  IInv'
<1> USE DEF IInv
<1>1. /\ UNCHANGED <<graph, req, raced, missed, stream>>
      /\ pc[w] \in {"compute", "record"} /\ Advance(w)
  BY DEF RecomputeFails
<1>2. missed' \subseteq Projects
  BY <1>1 DEF GraphInv
<1>3. Progress /\ pel' = pel /\ Versions
  BY <1>1, <1>2, StillProgress, StillVersions DEF graph, stream
<1>4. LocalInv' /\ pc'[w] \notin {"record", "ack"}
  BY <1>1, <1>3, AdvanceKeeps DEF AtEntry
<1>5. \A j \in 1..Last : Spent(w, j)' => Spent(w, j)
  BY <1>4, NotSpent
<1> QED BY <1>1, <1>2, <1>3, <1>4, <1>5, OthersStay, ConsumerInv DEF graph

LEMMA CrashInv ==
    ASSUME IInv, NEW w \in Workers, Crash(w)
    PROVE  IInv'
<1> USE DEF IInv
<1>1. UNCHANGED <<graph, req, raced, missed, stream>> /\ Drop(w, "ensure")
  BY DEF Crash
<1>2. missed' \subseteq Projects
  BY <1>1 DEF GraphInv
<1>3. Progress /\ pel' = pel /\ Versions
  BY <1>1, <1>2, StillProgress, StillVersions DEF graph, stream
<1>4. LocalInv'
  BY <1>1, <1>3, DropKeeps DEF AtEntry, WorkerPc
<1>5. pc'[w] = "ensure"
  BY <1>1 DEF Drop, Goto, LocalInv
<1>6. \A j \in 1..Last : Spent(w, j)' => Spent(w, j)
  BY <1>5, NotSpent
<1> QED BY <1>1, <1>2, <1>3, <1>4, <1>6, OthersStay, ConsumerInv DEF graph

LEMMA TaskDiesInv ==
    ASSUME IInv, NEW w \in Workers, TaskDies(w)
    PROVE  IInv'
<1> USE DEF IInv
<1>1. /\ UNCHANGED <<graph, req, raced>> /\ pc[w] \in {"dlq_add", "dlq_ack", "ack"}
      /\ Drop(w, "ensure")
      /\ IF pc[w] = "ack" THEN UNCHANGED missed ELSE Miss({project[Entry(w)]}, attr)
  BY DEF TaskDies
<1>2. Entry(w) \in 1..Last /\ project[Entry(w)] \in Projects
  BY <1>1, EntryKnown DEF LocalInv, AtEntry
<1>3. /\ missed \subseteq missed' /\ missed' \subseteq Projects
      /\ pc[w] # "ack" => project[Entry(w)] \in missed'
  <2>1. CASE pc[w] = "ack"
    BY <1>1, <2>1 DEF GraphInv
  <2>2. CASE pc[w] # "ack"
    BY <1>1, <1>2, <2>2, MissGives
  <2> QED BY <2>1, <2>2
<1>4. /\ Progress
      /\ pel' = pel \/ (pc[w] \in {"dlq_ack", "ack"} /\ pel' = pel \ {Entry(w)})
  <2>1. \/ AddDeadLetter(Entry(w)) \/ UNCHANGED stream
        \/ pc[w] \in {"dlq_ack", "ack"} /\ Xack(Entry(w))
    BY DEF TaskDies
  <2> QED BY <1>2, <2>1, DeadProgress, StillProgress, AckProgress DEF stream
<1>5. Versions
  BY <1>1, <1>3, StillVersions DEF graph
<1>6. LocalInv'
  BY <1>1, <1>4, <1>5, DropKeeps DEF AtEntry, WorkerPc
<1>7. pc'[w] = "ensure"
  BY <1>1 DEF Drop, Goto, LocalInv
<1>8. \A j \in 1..Last : Spent(w, j)' => Spent(w, j)
  BY <1>7, NotSpent
<1>9. \A v \in Workers : v # w => pc'[v] = pc[v] /\ pos'[v] = pos[v]
                                  /\ batch'[v] = batch[v] /\ seen'[v] = seen[v]
  BY <1>1, OthersStay
<1> QED BY <1>1, <1>3, <1>4, <1>6, <1>8, <1>9, ConsumerInv DEF graph

\* What w reads for its entry is the present version.
LEMMA ComputeInv ==
    ASSUME IInv, NEW w \in Workers, Compute(w)
    PROVE  IInv'
<1> USE DEF IInv
<1>1. /\ UNCHANGED <<attr, score, req, raced, missed, stream, batch, pos, claimed>>
      /\ pc[w] = "compute" /\ Goto(w, "record")
      /\ seen' = [seen EXCEPT ![w] = attr[project[Entry(w)]]]
  BY DEF Compute, graph, history
<1>2. missed' \subseteq Projects /\ GraphInv
  BY <1>1 DEF GraphInv
<1>3. Progress /\ pel' = pel /\ Versions
  BY <1>1, <1>2, StillProgress, StillVersions DEF stream
<1>4. /\ Entry(w) \in 1..Last /\ project[Entry(w)] \in Projects
      /\ pos[w] \in 1..Len(batch[w])
  BY <1>1, EntryKnown DEF LocalInv, AtEntry
<1>5. project' = project /\ Entry(w)' = Entry(w) /\ Last' = Last
  BY <1>1 DEF stream, Entry, Last
<1>6. attr[project[Entry(w)]] \in Nat
  BY <1>2, <1>4 DEF GraphInv
<1>7. pc'[w] = "record" /\ pc' \in [Workers -> WorkerPc]
  BY <1>1 DEF Goto, LocalInv, WorkerPc
<1>8. seen'[w] = attr[project[Entry(w)]] /\ seen' \in [Workers -> Nat]
  BY <1>1, <1>6 DEF LocalInv
<1>9. \A v \in Workers : v # w => pc'[v] = pc[v] /\ pos'[v] = pos[v]
                                  /\ batch'[v] = batch[v] /\ seen'[v] = seen[v]
  BY <1>1 DEF Goto, LocalInv
<1>10. \A v \in Workers : v # w => WorkerInv(v)'
  BY <1>1, <1>3, <1>9, OthersKeep
<1>11. WorkerInv(w)'
  <2>1. WorkerInv(w)
    BY DEF LocalInv
  <2>2. seen'[w] <= attr'[project'[Entry(w)']]
    BY <1>1, <1>5, <1>6, <1>8
  <2> QED BY <1>1, <1>4, <1>5, <1>7, <2>1, <2>2 DEF WorkerInv
<1>12. LocalInv'
  BY <1>1, <1>7, <1>8, <1>10, <1>11 DEF LocalInv
<1>13. \A j \in 1..Last : Spent(w, j)' => Spent(w, j)
  <2> SUFFICES ASSUME NEW j \in 1..Last, Spent(w, j)' PROVE FALSE
    OBVIOUS
  <2>1. Entry(w) = j /\ seen'[w] < attr[project[j]]
    BY <1>1, <1>5 DEF Spent
  <2> QED BY <1>6, <1>8, <2>1
<1> QED BY <1>1, <1>2, <1>3, <1>9, <1>12, <1>13, ConsumerInv

\* What w writes is the version it has read: the present one, or an older one
\* that is noted if it replaces a later one.
LEMMA RecordInv ==
    ASSUME IInv, NEW w \in Workers, Record(w)
    PROVE  IInv'
<1> USE DEF IInv
<1> DEFINE p == project[Entry(w)]
<1>1. /\ UNCHANGED <<attr, stream, req, local>> /\ pc[w] = "record" /\ Goto(w, "ack")
      /\ score' = [score EXCEPT ![p] = seen[w]]
      /\ raced' = IF seen[w] < score[p] THEN raced \cup {p}
                  ELSE IF seen[w] = attr[p] THEN raced \ {p} ELSE raced
      /\ missed' = IF seen[w] = attr[p] THEN missed \ {p} ELSE missed
  BY DEF Record
<1>2. Progress /\ pel' = pel
  BY <1>1, StillProgress DEF stream
<1>3. /\ Entry(w) \in 1..Last /\ p \in Projects /\ pos[w] \in 1..Len(batch[w])
  BY <1>1, EntryKnown DEF LocalInv, AtEntry
<1>4. project' = project /\ Entry(w)' = Entry(w) /\ Last' = Last
  BY <1>1 DEF stream, Entry, Last, local
<1>5. WorkerInv(w) /\ seen[w] \in Nat /\ seen[w] <= attr[p]
  BY <1>1 DEF LocalInv, WorkerInv
<1>6. GraphInv /\ \A q \in Projects : attr[q] \in Nat /\ score[q] \in Nat /\ score[q] <= attr[q]
  BY DEF GraphInv
<1>same. p' = p
  BY <1>4
<1>own. WorkerInv(w)'
  <2>1. pc'[w] = "ack"
    BY <1>1 DEF Goto, LocalInv
  <2>2. seen'[w] <= attr'[p']
    BY <1>1, <1>5, <1>same DEF local
  <2>3. seen'[w] = attr'[p'] => score'[p'] = attr'[p']
    BY <1>1, <1>3, <1>same DEF local, GraphInv
  <2>4. /\ pos'[w] \in 1..Len(batch'[w])
        /\ \A i \in 1..Len(batch'[w]) : batch'[w][i] \in 1..Last'
    BY <1>1, <1>3, <1>4, <1>5 DEF local, WorkerInv
  <2> QED BY <2>1, <2>2, <2>3, <2>4 DEF WorkerInv
<1>late. \A j \in 1..Last : Spent(w, j)' => Spent(w, j)
  BY <1>1, <1>4 DEF Spent, local
<1> HIDE DEF p
<1>7. /\ score'[p] = seen[w] /\ \A q \in Projects : q # p => score'[q] = score[q]
      /\ score' \in [Projects -> Nat]
  BY <1>1, <1>3, <1>5 DEF GraphInv
<1>8. raced' \subseteq Projects /\ missed' \subseteq Projects
  BY <1>1, <1>3 DEF GraphInv
<1>9. \A q \in Projects : q # p => (q \in raced' <=> q \in raced) /\ (q \in missed' <=> q \in missed)
  BY <1>1
<1>10. /\ seen[w] < attr[p] => (p \in missed => p \in missed') /\ (p \in raced => p \in raced')
       /\ seen[w] < score[p] => p \in raced'
  BY <1>1, <1>3, <1>5, <1>6
<1>11. GraphInv'
  BY <1>1, <1>3, <1>5, <1>6, <1>7, <1>8 DEF GraphInv
<1>12. Versions
  <2> SUFFICES ASSUME NEW q \in Projects, score[q] = attr[q] \/ q \in raced
               PROVE  score'[q] = attr[q] \/ q \in raced'
    BY <1>1, <1>6, <1>11 DEF Versions
  <2>1. CASE q # p
    BY <1>7, <1>9, <2>1
  <2>2. CASE q = p /\ seen[w] = attr[p]
    BY <1>7, <2>2
  <2>3. CASE q = p /\ seen[w] < attr[p]
    BY <1>10, <2>3
  <2> QED BY <1>3, <1>5, <1>6, <2>1, <2>2, <2>3
<1>13. \A v \in Workers : v # w => pc'[v] = pc[v] /\ pos'[v] = pos[v]
                                   /\ batch'[v] = batch[v] /\ seen'[v] = seen[v]
  BY <1>1, OthersStay
<1>14. LocalInv'
  <2>1. \A v \in Workers : v # w => WorkerInv(v)'
    BY <1>1, <1>2, <1>12, <1>13, OthersKeep
  <2>2. pc' \in [Workers -> WorkerPc]
    BY <1>1 DEF Goto, LocalInv, WorkerPc
  <2> QED BY <1>1, <1>own, <2>1, <2>2 DEF LocalInv, local
<1>15. StaleIsCovered'
  <2> SUFFICES ASSUME NEW q \in Projects, score'[q] < attr[q], q \notin missed', q \notin raced'
               PROVE  Covered(q)'
    BY <1>1 DEF StaleIsCovered
  <2>1. score[q] < attr[q] /\ q \notin missed /\ q \notin raced
    <3>1. CASE q # p
      BY <1>7, <1>9, <3>1
    <3>2. CASE q = p
      <4>1. seen[w] < attr[p]
        BY <1>7, <3>2
      <4>2. ~(seen[w] < score[p]) /\ p \notin missed /\ p \notin raced
        BY <1>10, <3>2, <4>1
      <4> QED BY <1>3, <1>5, <1>6, <3>2, <4>1, <4>2
    <3> QED BY <3>1, <3>2
  <2>2. Covered(q)
    BY <2>1 DEF StaleIsCovered
  <2> QED BY <1>1, <1>2, <1>13, <1>late, <2>2, ConsumerCovers
<1> QED BY <1>2, <1>11, <1>14, <1>15 DEF Progress

-----------------------------------------------------------------------------
(* The invariant.                                                          *)

LEMMA InitInv == Init => IInv
<1> SUFFICES ASSUME Init PROVE IInv
  OBVIOUS
<1> USE StreamAssumption DEF Init
<1>1. StreamInv
  <2>1. Last = 0 /\ project \in Seq(Projects)
    BY DEF InitStream, Last
  <2>2. StreamTypeOK
    BY <2>1 DEF InitStream, StreamTypeOK
  <2> QED BY <2>1, <2>2 DEF InitStream, StreamInv
<1>2. GraphInv
  <2>1. NoRequest \in RequestRecord
    BY DEF NoRequest, RequestRecord
  <2> HIDE DEF NoRequest
  <2> QED BY <2>1 DEF GraphInv
<1>3. LocalInv
  BY DEF LocalInv, WorkerInv, WorkerPc, AtEntry
<1>4. StaleIsCovered
  BY DEF StaleIsCovered
<1> QED BY <1>1, <1>2, <1>3, <1>4 DEF IInv

\* What nobody asks for and no consumer does: keys expire, entries age.
LEMMA TimeInv ==
    ASSUME IInv, \/ \E p \in Projects : DebounceExpires(p)
                 \/ \E j \in Jobs : Age(j)
                 \/ UNCHANGED vars
    PROVE  IInv'
<1> USE DEF IInv
<1>1. UNCHANGED <<graph, req, pc, local, missed, raced>>
  BY DEF DebounceExpires, Age, vars, history
<1>2. Progress /\ pel' = pel
  <2>1. UNCHANGED stream \/ \E j \in Jobs : GrowStale(j)
    BY DEF DebounceExpires, Age, vars
  <2> QED BY <2>1, StillProgress, AgeProgress DEF stream
<1>3. Versions
  BY <1>1, StillVersions DEF graph, GraphInv
<1>4. LocalInv'
  BY <1>1, <1>2, <1>3, RequestKeeps
<1>5. StaleIsCovered'
  <2> SUFFICES ASSUME NEW p \in Projects
               PROVE  score'[p] < attr'[p] => Covered(p)' \/ p \in missed' \cup raced'
    BY DEF StaleIsCovered
  <2>1. \A r \in Requests : Asking(r)' = Asking(r)
    BY <1>1 DEF Asking
  <2> QED BY <1>1, <1>2, <2>1, RequestCovers DEF graph
<1> QED BY <1>2, <1>3, <1>4, <1>5 DEF Progress, Versions

LEMMA StepInv == IInv /\ [Next]_vars => IInv'
<1> SUFFICES ASSUME IInv, [Next]_vars PROVE IInv'
  OBVIOUS
<1>1. ASSUME NEW r \in Requests, Enqueue(r) PROVE IInv'
  BY <1>1, CommitInv, EnqueueAllInv, AcquireInv, AddInv, EnqueueFailsInv, RequestDiesInv
     DEF Enqueue
<1>2. ASSUME NEW w \in Workers, Consume(w) PROVE IInv'
  BY <1>2, EnsureGroupInv, ClaimStaleInv, ReadNewInv, CheckDeliveriesInv, DeadLetterAddInv,
     DeadLetterAckInv, ComputeInv, RecordInv, RecomputeFailsInv, AckInv, TaskDiesInv, CrashInv
     DEF Consume
<1> QED BY <1>1, <1>2, TimeInv DEF Next

LEMMA Invariant == Spec => []IInv
BY InitInv, StepInv, PTL DEF Spec

\* A score that is not what it would be computed to is one that a request is
\* still to enqueue at that version, or that an entry to be delivered, now or
\* again, will be computed for, with nobody past its reading: but for the
\* enqueues that came to nothing and the writes of older reads
\* (scoring/queue.py, enqueue_recompute and consume_recompute).
THEOREM StaleScoresServed == Spec => []StaleIsCovered
<1>1. IInv => StaleIsCovered
  BY DEF IInv
<1> QED BY <1>1, Invariant, PTL
=============================================================================
