------------------------------ MODULE InFlight ------------------------------
(***************************************************************************)
(* pkg/driver/internal/inflight.go: the table of keys that have a request  *)
(* in flight.  Every controller replica is a process with a table of its   *)
(* own, in memory.  Insert and Delete are atomic: each runs under mux.     *)
(***************************************************************************)
EXTENDS FiniteSets

CONSTANTS
    Replicas,    \* the replicas of the controller
    NoReplica

ASSUME InFlightAssumption == NoReplica \notin Replicas

VARIABLE inFlight    \* inFlight[r]: the keys in the table of replica r

NewInFlight == inFlight = [r \in Replicas |-> {}]

\* Insert returns false.
Busy(r, key) == key \in inFlight[r]

\* Mutant of Insert: the key is put into the table without a look.
InsertUnchecked(r, key) == inFlight' = [inFlight EXCEPT ![r] = @ \cup {key}]

\* Insert returns true.
Insert(r, key) ==
    /\ ~Busy(r, key)
    /\ inFlight' = [inFlight EXCEPT ![r] = @ \cup {key}]

\* Delete; a key that is not in the table is no error.
Delete(r, key) == inFlight' = [inFlight EXCEPT ![r] = @ \ {key}]

\* A process that starts has an empty table.
Lose(r) == inFlight' = [inFlight EXCEPT ![r] = {}]

=============================================================================
