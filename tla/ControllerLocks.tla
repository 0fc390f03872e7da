--------------------------- MODULE ControllerLocks ---------------------------
(***************************************************************************)
(* The handlers of the controller and the tables of InFlight, together,    *)
(* are a keyed mutex.  A lock has no owner in the code: its holder is the  *)
(* handler that runs between Insert and the deferred Delete of the key.    *)
(***************************************************************************)
EXTENDS ControllerService

CONSTANT NoLock

ASSUME LocksAssumption == \A r \in Replicas, k \in Keys : NoLock # <<r, k>>

lockOf == [c \in Calls |-> IF Holds(c) THEN <<call[c].rep, Key(c)>> ELSE NoLock]

Mutex == INSTANCE KeyedMutex WITH lock <- lockOf

\* Through every interleaving, failure and restart the handlers use their
\* tables as the mutex allows: no handler enters under a key that is taken,
\* gives back a key that is not its own, or holds two.
ImplementsMutex == Mutex!Spec

=============================================================================
