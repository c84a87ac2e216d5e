------------------------------ MODULE Journal ------------------------------
(* The operations log (operations_log.py), a ReplacingMergeTree: nothing is   *)
(* updated, every change inserts the whole row again under a greater version, *)
(* and a reader's FINAL keeps the row of the greatest version.  Versions come *)
(* from the wall clock and from a guard each process keeps in memory.         *)
EXTENDS Naturals, FiniteSets

CONSTANTS
  LogIds,       \* entries of the log
  Processes,    \* API processes
  Writers,      \* changes in flight at a time
  Clock,        \* what a process may read off its clock, in any order
  MaxStamps,    \* bound: versions given out
  MaxRestarts   \* bound: restarts altogether

ASSUME JournalAssumption == /\ Clock \subseteq Nat
                            /\ MaxStamps \in Nat /\ MaxRestarts \in Nat

VARIABLES
  rows,     \* the rows inserted
  proc,     \* [Processes -> the guard (_row_version_last) and which life it is]
  wr,       \* [Writers -> a change: the row it has read and the one it sends]
  log       \* history the property reads and no handler does

journalVars == <<rows, proc, wr, log>>

\* What else an entry says is told apart by who stamped the row.
Row == [id : LogIds, ver : Nat, gone : BOOLEAN, done : BOOLEAN, by : Processes, life : Nat]
Resting == [at |-> "rest"]

Of(e) == {r \in rows : r.id = e}
Final(e) == {r \in Of(e) : \A s \in Of(e) : s.ver <= r.ver}

Biggest(a, b) == IF a < b THEN b ELSE a

\* _next_row_version
NextRowVersionGuarded(now, last, current) == Biggest(now, last + 1)
NextRowVersion(now, last, current) == Biggest(now, Biggest(last + 1, current + 1))

JournalInit == /\ rows = {}
               /\ proc = [p \in Processes |-> [last |-> 0, life |-> 0]]
               /\ wr = [w \in Writers |-> Resting]
               /\ log = [want |-> [e \in LogIds |-> {}], raced |-> {}, stamps |-> 0, restarts |-> 0]

\* A new entry: version 1, under an id of its own; the guard stays as it is.
CreateOperationLog == \E e \in LogIds, p \in Processes :
  /\ Of(e) = {}
  /\ LET r == [id |-> e, ver |-> 1, gone |-> FALSE, done |-> FALSE,
               by |-> p, life |-> proc[p].life] IN
     /\ rows' = rows \cup {r}
     /\ log' = [log EXCEPT !.want[e] = {r}]
  /\ UNCHANGED <<proc, wr>>

\* patch_operation_log, delete_operation_log and complete_opslog_entry read the
\* row they are about to write anew.
Change(r, op) == CASE op = "patch" -> r
                         [] op = "delete" -> [r EXCEPT !.gone = TRUE]
                         [] op = "complete" -> [r EXCEPT !.done = TRUE]

FetchCurrent(w) == \E p \in Processes, op \in {"patch", "delete", "complete"} :
  \E e \in LogIds : \E r \in Final(e) :
    /\ wr[w] = Resting
    /\ ~r.gone
    /\ op = "complete" => ~r.done
    /\ wr' = [wr EXCEPT ![w] = [at |-> "read", by |-> p, row |-> r, new |-> Change(r, op)]]
    /\ UNCHANGED <<rows, proc, log>>

Stamp(w) == \E now \in Clock :
  /\ wr[w].at = "read" /\ log.stamps < MaxStamps
  /\ LET p == wr[w].by
         v == NextRowVersion(now, proc[p].last, wr[w].row.ver) IN
     /\ proc' = [proc EXCEPT ![p].last = v]
     /\ wr' = [wr EXCEPT ![w] = [at |-> "send", by |-> p, row |-> wr[w].row,
                                 new |-> [wr[w].new EXCEPT !.ver = v, !.by = p, !.life = proc[p].life]]]
  /\ log' = [log EXCEPT !.stamps = @ + 1]
  /\ UNCHANGED rows

\* The insert lands. It was raced when the row it had read is no longer the one
\* FINAL keeps; a later one that had read that row ends the race.
InsertRow(w) ==
  /\ wr[w].at = "send"
  /\ LET e == wr[w].row.id IN
     /\ rows' = rows \cup {wr[w].new}
     /\ log' = [log EXCEPT
          !.want[e] = {wr[w].new},
          !.raced = IF wr[w].row \in Final(e) THEN @ \ {e} ELSE @ \cup {e}]
  /\ wr' = [wr EXCEPT ![w] = Resting]
  /\ UNCHANGED proc

\* The insert fails.
InsertLost(w) == /\ wr[w].at = "send"
                 /\ wr' = [wr EXCEPT ![w] = Resting]
                 /\ UNCHANGED <<rows, proc, log>>

\* The guard is gone, and the changes not yet sent.
Restart(p) == /\ log.restarts < MaxRestarts
              /\ log' = [log EXCEPT !.restarts = @ + 1]
              /\ proc' = [proc EXCEPT ![p] = [last |-> 0, life |-> @.life + 1]]
              /\ wr' = [w \in Writers |-> IF wr[w].at = "read" THEN
                          IF wr[w].by = p THEN Resting ELSE wr[w] ELSE wr[w]]
              /\ UNCHANGED rows

JournalNext ==
  \/ CreateOperationLog
  \/ \E w \in Writers : FetchCurrent(w) \/ Stamp(w) \/ InsertRow(w) \/ InsertLost(w)
  \/ \E p \in Processes : Restart(p)

JournalSpec == JournalInit /\ [][JournalNext]_journalVars

-----------------------------------------------------------------------------
\* Properties

JournalTypeOK ==
  /\ rows \subseteq Row
  /\ proc \in [Processes -> [last : Nat, life : Nat]]
  /\ wr \in [Writers -> {Resting} \cup [at : {"read", "send"}, by : Processes, row : Row, new : Row]]
  /\ log \in [want : [LogIds -> SUBSET Row], raced : SUBSET LogIds, stamps : Nat, restarts : Nat]

\* A reader's FINAL keeps one row of an entry, the last one written, unless that
\* write had read another row than FINAL kept when it landed; and whatever the
\* clocks do, two rows of one entry never have the same version when one life of
\* one process stamped both (_next_row_version, operations_log.py:268-284).
LogConverges ==
  /\ \A e \in LogIds \ log.raced : Final(e) = log.want[e]
  /\ \A r, s \in rows :
       r.id = s.id /\ r.ver = s.ver /\ r.by = s.by /\ r.life = s.life => r = s
=============================================================================
