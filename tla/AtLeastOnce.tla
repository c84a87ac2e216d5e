---------------------------- MODULE AtLeastOnce ----------------------------
(***************************************************************************)
(* What a job queue of imbi_api promises to the requests that enqueue: a   *)
(* job that was accepted waits, is handed to a worker, and stays the       *)
(* queue's concern until it is settled, which it is in the end.  Nothing   *)
(* is said of how often, or by how many workers at once, a job is run.     *)
(***************************************************************************)
CONSTANT Jobs

VARIABLES waiting, open, settled

vars == <<waiting, open, settled>>

Init == waiting = {} /\ open = {} /\ settled = {}

Accept(j) ==
    /\ j \notin waiting \cup open \cup settled
    /\ waiting' = waiting \cup {j}
    /\ UNCHANGED <<open, settled>>

\* A worker reads some of the waiting jobs.
Deliver ==
    \E batch \in SUBSET waiting :
        /\ batch # {}
        /\ waiting' = waiting \ batch
        /\ open' = open \cup batch
        /\ UNCHANGED settled

\* The job's outcome is final: it ran, cannot run, or is dead-lettered.
Settle(j) ==
    /\ j \in open
    /\ open' = open \ {j}
    /\ settled' = settled \cup {j}
    /\ UNCHANGED waiting

Next == Deliver \/ \E j \in Jobs : Accept(j) \/ Settle(j)

SafeSpec == Init /\ [][Next]_vars

\* Every accepted job is settled in the end.
Spec ==
    /\ SafeSpec
    /\ WF_vars(Deliver)
    /\ \A j \in Jobs : WF_vars(Settle(j))
=============================================================================
