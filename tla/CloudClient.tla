----------------------------- MODULE CloudClient -----------------------------
(***************************************************************************)
(* pkg/cloud/cloud.go: the tests the cloud client makes on the answers of  *)
(* the NIFCLOUD API.  The sequences of calls they guard (CreateDisk,       *)
(* AttachDisk, DetachDisk, ResizeDisk) are the handlers' steps of module   *)
(* ControllerService.                                                      *)
(***************************************************************************)
EXTENDS Nifcloud

\* One poll of waitForVolume: the volume status is the awaited one.
VolumeStatusIs(v, status) ==
    CASE status = "in-use"    -> InUse(v)
      [] status = "available" -> IsAvailable(v)

\* Mutant of AttachmentStateIs: no attachment is not taken for "detached".
AttachmentStateIsListed(v, state) == HasAttachment(v) /\ disk[v].st = state

\* One poll of WaitForAttachmentState.  No attachment at all is what
\* "detached" waits for; otherwise some attachment has the awaited status,
\* whatever instance it is an attachment to.
AttachmentStateIs(v, state) ==
    IF HasAttachment(v) THEN disk[v].st = state ELSE state = "detached"

\* GetDiskByName compares the size of the disk it found with the rounded
\* size of the request: anything else is ErrDiskExistsDiffSize.
SameSize(v, size) == disk[v].size = size

\* What ResizeDisk does after it has read the current size.
ResizeDecision(current, desired) ==
    IF desired < current THEN "refuse"
    ELSE IF current > desired THEN "no need to resize"
    ELSE "extend"

\* Mutant of ResizeDone: the loop stops at the desired size, not beyond it.
ResizeDoneExactly(current, desired) == current = desired

\* The loop of ResizeDisk ends when the disk has reached the desired size.
ResizeDone(current, desired) == current >= desired

=============================================================================
