-------------------------- MODULE ControllerNaming --------------------------
(***************************************************************************)
(* The controller as the CO sees it through CreateVolume and DeleteVolume: *)
(* the description of a disk is where the name of a volume is kept.        *)
(***************************************************************************)
EXTENDS ControllerInvariant

nameOf  == [v \in Volumes |-> disk[v].name]
unused  == {v \in Volumes : disk[v].st = "unused"}

Naming == INSTANCE VolumeNaming
             WITH name <- nameOf, fresh <- unused, told <- known,
                  Copies <- Cardinality(Leaders["provisioner"])

\* However creations and deletions of a name overlap, expire, fail and are cut
\* off by restarts: a name gets no more volumes than there are replicas that may
\* receive CreateVolume at a time, with one leader never two, so that every
\* answer is the same volume until it is deleted; and DeleteVolume takes away no
\* volume that the CO does not know of, nor answers OK for one that stays.
ImplementsNaming == Naming!Spec

=============================================================================
