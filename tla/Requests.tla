------------------------------ MODULE Requests ------------------------------
(* The request handlers of one API process under asyncio.  A handler runs     *)
(* until its next await without interruption, and every await is a place      *)
(* where any other handler may run.  One record per request slot says where   *)
(* the handler stands ("at") and holds the locals it reads after the await.   *)
(* A handler that dies (the client gone, the database refusing the statement, *)
(* the process stopped) leaves what it has written and nothing else.          *)
EXTENDS Naturals, Sequences, FiniteSets

CONSTANTS
  Slots,      \* the requests in flight at a time
  MaxBegun,   \* bound: requests begun altogether, for each set of groups
  MaxFaults,  \* bound: requests that die half way
  Mixes       \* the sets of handler groups that are called side by side

ASSUME RequestAssumption == MaxBegun \in [Mixes -> Nat] /\ MaxFaults \in Nat

VARIABLES
  req,        \* [Slots -> the handler's position and locals]
  begun,      \* requests begun so far
  faults,     \* requests that have died
  mix         \* the groups this behaviour's callers use

pool == <<req, begun, faults, mix>>

Idle == [at |-> "idle"]

PoolInit == /\ req = [q \in Slots |-> Idle]
            /\ begun = 0
            /\ faults = 0
            /\ mix \in Mixes

At(q, label) == req[q].at = label

InFlight == {q \in Slots : req[q] # Idle}

\* The handler runs up to its first await and leaves `next` behind; Idle when
\* it has answered.
Begin(q, next) == /\ req[q] = Idle
                  /\ begun < MaxBegun[mix]
                  /\ begun' = begun + 1
                  /\ req' = [req EXCEPT ![q] = next]
                  /\ UNCHANGED <<faults, mix>>

\* From the await `label` to the next one.
Step(q, label, next) == /\ At(q, label)
                        /\ req' = [req EXCEPT ![q] = next]
                        /\ UNCHANGED <<begun, faults, mix>>

\* The same locals at another await.
To(q, label) == [req[q] EXCEPT !.at = label]

\* The locals l, and new ones or new values beside them.
With(l, new) ==
  [f \in DOMAIN l \cup DOMAIN new |-> IF f \in DOMAIN new THEN new[f] ELSE l[f]]

Die(q) == /\ req[q] # Idle
          /\ faults < MaxFaults
          /\ faults' = faults + 1
          /\ req' = [req EXCEPT ![q] = Idle]
          /\ UNCHANGED <<begun, mix>>

PoolTypeOK == /\ DOMAIN req = Slots
              /\ mix \in Mixes
              /\ begun \in 0..MaxBegun[mix]
              /\ faults \in 0..MaxFaults
=============================================================================
