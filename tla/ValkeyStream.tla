---------------------------- MODULE ValkeyStream ----------------------------
(***************************************************************************)
(* A Valkey stream with one consumer group and a dead-letter stream, as    *)
(* the queues of imbi_api use it (XADD, XGROUP CREATE $, XREADGROUP >,      *)
(* XAUTOCLAIM, XPENDING, XACK).  Entries are numbered by their position.   *)
(* Who owns a pending entry is left out: no consumer looks at it.          *)
(***************************************************************************)
EXTENDS Integers, FiniteSets, Sequences

CONSTANTS
    Projects,       \* what an entry is about
    MaxJobs,        \* bound: entries ever added to the stream
    MaxDeliveries   \* MAX_DELIVERIES

ASSUME StreamAssumption ==
    MaxJobs \in Nat \ {0} /\ MaxDeliveries \in Nat \ {0}

Jobs == 1..MaxJobs

VARIABLES
    project,     \* project of every entry added so far
    delivered,   \* last-delivered entry of the group, -1 without a group
    base,        \* entries added before the group existed
    pel,         \* pending entries list
    deliveries,  \* times_delivered of each entry, counted up to MaxDeliveries
    stale,       \* pending entries idle for CLAIM_IDLE_MS
    dlq          \* entries added to the dead-letter stream

stream == <<project, delivered, base, pel, deliveries, stale, dlq>>

Last == Len(project)

InitStream ==
    /\ project = <<>>
    /\ delivered = -1 /\ base = 0
    /\ pel = {} /\ stale = {} /\ dlq = {}
    /\ deliveries = [j \in Jobs |-> 0]

StreamTypeOK ==
    /\ project \in Seq(Projects) /\ Last <= MaxJobs
    /\ delivered \in -1..Last
    /\ base \in 0..Last
    /\ pel \subseteq 1..Last /\ stale \subseteq pel /\ dlq \subseteq 1..Last
    /\ deliveries \in [Jobs -> 0..MaxDeliveries]

\* Entries the group has still to deliver.
Waiting == {j \in (base + 1)..Last : j > delivered}

\* XADD
AddEntry(p) ==
    /\ Last < MaxJobs
    /\ project' = Append(project, p)
    /\ base' = IF delivered = -1 THEN Last + 1 ELSE base
    /\ UNCHANGED <<delivered, pel, deliveries, stale, dlq>>

\* XGROUP CREATE at '$': entries added before it are never delivered.
CreateGroup ==
    /\ delivered' = IF delivered = -1 THEN Last ELSE delivered
    /\ UNCHANGED <<project, base, pel, deliveries, stale, dlq>>

\* The n lowest entries of S, and what lists S in stream order.
Below(x, S) == Cardinality({y \in S : y < x})
Lowest(S, n) == {x \in S : Below(x, S) < n}
InOrder(S) == {s \in [1..Cardinality(S) -> S] :
                 \A i, k \in 1..Cardinality(S) : i < k => s[i] < s[k]}

\* A delivery is counted and restarts the idle clock.
CountDelivery(S) ==
    /\ deliveries' = [j \in Jobs |->
                        IF j \in S /\ deliveries[j] < MaxDeliveries
                          THEN deliveries[j] + 1 ELSE deliveries[j]]
    /\ pel' = pel \cup S
    /\ stale' = stale \ S

\* XREADGROUP of new entries.
ReadGroup(S) ==
    /\ CountDelivery(S)
    /\ delivered' = delivered + Cardinality(S)
    /\ UNCHANGED <<project, base, dlq>>

\* XAUTOCLAIM of idle entries.
AutoClaim(S) ==
    /\ CountDelivery(S)
    /\ UNCHANGED <<project, delivered, base, dlq>>

\* XACK; acknowledging an entry that is not pending does nothing.
Xack(j) ==
    /\ pel' = pel \ {j}
    /\ stale' = stale \ {j}
    /\ UNCHANGED <<project, delivered, base, deliveries, dlq>>

AddDeadLetter(j) ==
    /\ dlq' = dlq \cup {j}
    /\ UNCHANGED <<project, delivered, base, pel, deliveries, stale>>

\* An entry stays unacknowledged for CLAIM_IDLE_MS.
GrowStale(j) ==
    /\ j \in pel \ stale
    /\ stale' = stale \cup {j}
    /\ UNCHANGED <<project, delivered, base, pel, deliveries, dlq>>

\* XCLAIM JUSTID restarts the idle clock and counts no delivery.
Renew(j) ==
    /\ j \in stale
    /\ stale' = stale \ {j}
    /\ UNCHANGED <<project, delivered, base, pel, deliveries, dlq>>

\* XPENDING: the entry has used up its deliveries.
Exhausted(j) == j \in pel /\ deliveries[j] >= MaxDeliveries
=============================================================================
