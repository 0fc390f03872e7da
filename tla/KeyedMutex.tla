----------------------------- MODULE KeyedMutex -----------------------------
(***************************************************************************)
(* What the in-flight tables promise to the handlers: one lock per replica *)
(* and key.  A handler takes one lock at most, only a free one, and is the *)
(* only one to give it back; a replica that stops frees its own locks, all *)
(* at once, and no other replica's.                                        *)
(***************************************************************************)
CONSTANTS Replicas, Keys, Calls, NoLock

VARIABLE lock    \* lock[c]: what the call c has locked, <<replica, key>> or NoLock

Init == lock = [c \in Calls |-> NoLock]

Acquire(c, r, k) ==
    /\ lock[c] = NoLock
    /\ \A d \in Calls : lock[d] # <<r, k>>
    /\ lock' = [lock EXCEPT ![c] = <<r, k>>]

Release(c) ==
    /\ lock[c] # NoLock
    /\ lock' = [lock EXCEPT ![c] = NoLock]

Stop(r) ==
    lock' = [c \in Calls |-> IF \E k \in Keys : lock[c] = <<r, k>> THEN NoLock ELSE lock[c]]

Next ==
    \/ \E c \in Calls :
          \/ \E r \in Replicas, k \in Keys : Acquire(c, r, k)
          \/ Release(c)
    \/ \E r \in Replicas : Stop(r)

Spec == Init /\ [][Next]_lock

=============================================================================
