---------------------------- MODULE MCController ----------------------------
(* Instances of ControllerService for TLC.                                 *)
EXTENDS ControllerAttachments, ControllerNaming, TLC

CONSTANTS r1, r2

\* One replica leads for all three sidecars.
OneLeader == [s \in Sidecars |-> {r1}]

\* The leases of the sidecars are separate: one replica serves the
\* provisioner, the other the attacher and the resizer.
SplitLeaders == [s \in Sidecars |-> IF s = "provisioner" THEN {r1} ELSE {r2}]

\* The leadership of every sidecar may be with either replica at any time.
AnyLeader == [s \in Sidecars |-> {r1, r2}]

Symmetry ==
    Permutations(Volumes) \cup Permutations(Instances) \cup Permutations(Names)
      \cup Permutations(Calls)

\* For a property about one instance.
SymmetryButInstances ==
    Permutations(Volumes) \cup Permutations(Names) \cup Permutations(Calls)

=============================================================================
