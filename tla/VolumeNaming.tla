----------------------------- MODULE VolumeNaming -----------------------------
(***************************************************************************)
(* What the controller promises to the CO about names: a name has no more  *)
(* volumes at a time than Copies; the CO is told of a volume only while    *)
(* there is one; a volume goes only when the CO, having been told of it,   *)
(* asks for that, and its ID never comes back.                             *)
(***************************************************************************)
EXTENDS Naturals, FiniteSets

CONSTANTS Volumes, Names, NoName, Copies

VARIABLES
    name,     \* name[v]: the name of volume v, while there is one
    fresh,    \* the IDs that have not been used
    told      \* the volumes CreateVolume has answered

Init ==
    /\ name = [v \in Volumes |-> NoName]
    /\ fresh = Volumes
    /\ told = {}

Make(v, nm) ==
    /\ v \in fresh
    /\ Cardinality({u \in Volumes : name[u] = nm}) < Copies
    /\ name' = [name EXCEPT ![v] = nm]
    /\ fresh' = fresh \ {v}
    /\ UNCHANGED told

Tell(v) ==
    /\ name[v] # NoName
    /\ told' = told \cup {v}
    /\ UNCHANGED <<name, fresh>>

Remove(v) ==
    /\ v \in told
    /\ name' = [name EXCEPT ![v] = NoName]
    /\ told' = told \ {v}
    /\ UNCHANGED fresh

Next ==
    \E v \in Volumes :
        \/ \E nm \in Names : Make(v, nm)
        \/ Tell(v)
        \/ Remove(v)

Spec == Init /\ [][Next]_<<name, fresh, told>>

=============================================================================
