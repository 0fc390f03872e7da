------------------------------ MODULE Capacity ------------------------------
(***************************************************************************)
(* The arithmetic on sizes, from the bytes of a CSI capacity range to the  *)
(* GiB sent to the cloud and the bytes answered: getVolSizeBytes and       *)
(* ControllerExpandVolume (pkg/driver/controller.go), roundUpCapacity,     *)
(* CreateDisk, GetDiskByName and ResizeDisk (pkg/cloud/cloud.go), and      *)
(* pkg/util/util.go.                                                       *)
(*                                                                         *)
(* The constants stand for 2^30, 100, 1000 / 100, 2^63 - 1 and 2^32.  The  *)
(* assumption keeps what the arithmetic depends on: the largest int64 is   *)
(* less than two int32 ranges of GiB, and the unit does not divide 2^32.   *)
(***************************************************************************)
EXTENDS Integers

CONSTANTS GiB, Unit, MaxUnits, MaxInt64, Int32Modulus

ASSUME CapacityAssumption ==
    /\ {GiB, Unit, MaxUnits, MaxInt64, Int32Modulus} \subseteq Nat \ {0}
    /\ MaxInt64 + 1 = 2 * Int32Modulus * GiB
    /\ Int32Modulus % Unit # 0
    /\ 2 * Unit * MaxUnits < Int32Modulus

VARIABLES
    req,     \* the request, and the size of the disk it meets, in GiB
    stage,   \* how far the handler is
    size     \* the size in hand: bytes when checked and answered, else GiB

vars == <<req, stage, size>>

-----------------------------------------------------------------------------
(* Machine integers.                                                       *)

Wrap(x, modulus) == ((x + modulus \div 2) % modulus) - modulus \div 2

Int64(x) == Wrap(x, 2 * (MaxInt64 + 1))
Int32(x) == Wrap(x, Int32Modulus)

-----------------------------------------------------------------------------
(* pkg/util/util.go and roundUpCapacity.                                   *)

Overflow == -1

\* Mutant of RoundUpSize: the sum is not tested.
RoundUpSizeUntested(bytes, unit) ==
    IF bytes < 0 THEN Overflow ELSE Int64(bytes + unit - 1) \div unit

\* roundUpSize: the sum is tested after it has been computed in int64.
RoundUpSize(bytes, unit) ==
    IF bytes < 0 \/ Int64(bytes + unit - 1) < 0
      THEN Overflow
      ELSE Int64(bytes + unit - 1) \div unit

RoundUpBytes(bytes) ==
    LET n == RoundUpSize(bytes, GiB)
    IN  IF n = Overflow THEN Overflow ELSE Int64(n * GiB)

BytesToGiB(bytes) == bytes \div GiB
GiBToBytes(gib)   == Int64(gib * GiB)

\* Mutants of RoundUpCapacity: an unneeded unit more, and rounding down.
RoundUpCapacityStrictly(gib) == (gib \div Unit + 1) * Unit
RoundDownCapacity(gib)       == (gib \div Unit) * Unit

RoundUpCapacity(gib) ==
    IF gib % Unit = 0 THEN gib ELSE (gib \div Unit + 1) * Unit

DefaultVolumeSize == Unit * GiB

\* The sizes NIFCLOUD has disks of.
Offered(gib) == gib \in {k * Unit : k \in 1..MaxUnits}

-----------------------------------------------------------------------------

\* hasRange: the request has a capacity range (an expansion always has).
\* current: the size of the disk found by name or by ID; 0, no disk.
Requests ==
    {q \in [op       : {"create", "expand"},
            hasRange : BOOLEAN,
            required : -1..MaxInt64,
            limit    : -1..MaxInt64,
            current  : {k * Unit : k \in 0..MaxUnits}] :
        /\ q.op = "expand" => q.hasRange /\ q.current # 0
        /\ ~q.hasRange => q.required = 0 /\ q.limit = 0}

Init ==
    /\ req \in Requests
    /\ stage = "received"
    /\ size = 0

Become(st, n) ==
    /\ stage' = st
    /\ size' = n
    /\ UNCHANGED req

ExceedsLimit(bytes) == req.limit > 0 /\ req.limit < bytes

\* getVolSizeBytes, and the same lines of ControllerExpandVolume.
CheckRange ==
    /\ stage = "received"
    /\ LET bytes == RoundUpBytes(req.required)
       IN  IF ~req.hasRange THEN Become("checked", DefaultVolumeSize)
           ELSE IF bytes = Overflow \/ ExceedsLimit(bytes) THEN Become("refused", 0)
           ELSE Become("checked", bytes)

\* roundUpCapacity(util.BytesToGiB(size)): in GetDiskByName, CreateDisk and
\* ResizeDisk alike.
RoundToUnit ==
    /\ stage = "checked"
    /\ Become("rounded", RoundUpCapacity(BytesToGiB(size)))

\* GetDiskByName has found a disk: its size is the one asked for, or
\* ErrDiskExistsDiffSize.
AnswerExisting ==
    /\ stage = "rounded" /\ req.op = "create" /\ req.current # 0
    /\ IF req.current = size THEN Become("answered", GiBToBytes(req.current))
                             ELSE Become("refused", 0)

\* CreateDisk sends int32(capacity); the answer is the size of the disk the
\* cloud has created.
CreateOnCloud ==
    /\ stage = "rounded" /\ req.op = "create" /\ req.current = 0
    /\ IF Offered(Int32(size)) THEN Become("answered", GiBToBytes(Int32(size)))
                               ELSE Become("refused", 0)

\* ResizeDisk, alone on the disk: it refuses a smaller size, and extends by
\* a unit at least once, until the size is reached.
ExpandOnCloud ==
    /\ stage = "rounded" /\ req.op = "expand"
    /\ LET reached == IF size > req.current THEN size ELSE req.current + Unit
       IN  IF size >= req.current /\ Offered(reached)
             THEN Become("answered", GiBToBytes(reached))
             ELSE Become("refused", 0)

Next ==
    \/ CheckRange
    \/ RoundToUnit
    \/ AnswerExisting
    \/ CreateOnCloud
    \/ ExpandOnCloud

Spec == Init /\ [][Next]_vars

-----------------------------------------------------------------------------
(* Correctness.                                                            *)

\* A size that passes the check is the least multiple of a GiB that covers
\* the bytes required: the addition in roundUpSize never wraps unnoticed and
\* the product of RoundUpBytes never wraps at all.
RoundUpIsCeiling ==
    stage = "checked" /\ req.hasRange =>
        /\ size % GiB = 0
        /\ size >= req.required
        /\ size - GiB < req.required

\* CreateVolume answers the smallest disk on offer that covers the bytes
\* required, although the size goes through int32 on its way to the cloud: a
\* size that does not fit becomes one the cloud does not offer.
CreateAnswersLeastDisk ==
    stage = "answered" /\ req.op = "create" /\ req.hasRange =>
        /\ Offered(BytesToGiB(size))
        /\ size >= req.required
        /\ size - Unit * GiB < req.required

\* ControllerExpandVolume never answers less than the bytes required, nor
\* less than the disk had.
ExpandAnswersEnough ==
    stage = "answered" /\ req.op = "expand" =>
        /\ size >= req.required
        /\ BytesToGiB(size) >= req.current

\* No answer exceeds the limit of the capacity range, "After round-up".
LimitRespected ==
    stage = "answered" /\ req.limit > 0 => size <= req.limit

=============================================================================
