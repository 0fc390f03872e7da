------------------------ MODULE ControllerAttachments ------------------------
(***************************************************************************)
(* The controller as one node sees it: it keeps the promise of             *)
(* VolumeAttachment, on which NodeService is built.                        *)
(***************************************************************************)
EXTENDS ControllerInvariant

CONSTANT Observed    \* the instance of that node

ASSUME AttachmentsAssumption == Observed \in Instances

\* The disks the instance can use, and those the CO holds there.
AttachedThere == {v \in Volumes : Mapped(v, Observed)}
HeldThere     == {v \in Volumes : <<v, Observed>> \in published}

Attachment == INSTANCE VolumeAttachment
                 WITH attached <- AttachedThere, held <- HeldThere

\* What ControllerPublishVolume has answered OK, no handler and nothing left of
\* one takes away from the node, until the CO asks ControllerUnpublishVolume;
\* and it answers OK only for a disk the node can use at that moment.
ImplementsAttachment == Attachment!Spec

=============================================================================
