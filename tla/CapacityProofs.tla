---------------------------- MODULE CapacityProofs ----------------------------
(***************************************************************************)
(* The arithmetic on sizes, for every width of the integers and every unit *)
(* that CapacityAssumption allows.                                         *)
(***************************************************************************)
EXTENDS Capacity, TLAPS

USE CapacityAssumption

\* Division rounds down.
LEMMA DivBounds ==
    ASSUME NEW n \in Nat, NEW d \in Nat \ {0}
    PROVE  /\ n \div d \in Nat
           /\ (n \div d) * d <= n
           /\ n < (n \div d) * d + d
  BY SMTT(30)

LEMMA ModSmall ==
    ASSUME NEW n \in Nat, NEW m \in Nat \ {0}, n < m
    PROVE  n % m = n
  BY SMTT(30)

LEMMA ModNext ==
    ASSUME NEW n \in Nat, NEW m \in Nat \ {0}, m <= n, n < 2 * m
    PROVE  n % m = n - m
  BY SMTT(30)

LEMMA ModProduct ==
    ASSUME NEW n \in Nat, NEW m \in Nat \ {0}
    PROVE  (n * m) % m = 0 /\ (n * m) \div m = n
  BY SMTT(30)

LEMMA MulMonotone ==
    ASSUME NEW a \in Int, NEW b \in Int, NEW c \in Nat, a <= b
    PROVE  a * c <= b * c /\ a * c \in Int
  BY SMTT(30)

\* Two int64 values of at least 0 added, in int64.
LEMMA Int64Is ==
    ASSUME NEW x \in Nat, x < 2 * (MaxInt64 + 1)
    PROVE  Int64(x) = IF x <= MaxInt64 THEN x ELSE x - 2 * (MaxInt64 + 1)
<1> DEFINE K == MaxInt64 + 1
<1>1. K \in Nat \ {0} /\ K = MaxInt64 + 1
  OBVIOUS
<1> HIDE DEF K
<1>2. (2 * K) \div 2 = K
  BY <1>1, ModProduct
<1>3. Int64(x) = ((x + K) % (2 * K)) - K
  BY <1>1, <1>2 DEF Int64, Wrap
<1>4. 2 * K \in Nat \ {0} /\ x + K \in Nat
  BY <1>1
<1>5. CASE x < K
  <2>1. (x + K) % (2 * K) = x + K
    <3>1. x + K < 2 * K
      BY <1>1, <1>5
    <3> HIDE DEF K
    <3> QED
      BY <1>4, <3>1, ModSmall
  <2> QED
    BY <1>1, <1>3, <1>5, <2>1
<1>6. CASE ~(x < K)
  <2>1. (x + K) % (2 * K) = x + K - 2 * K
    BY <1>1, <1>4, <1>6, ModNext
  <2> QED
    BY <1>1, <1>3, <1>6, <2>1
<1> QED
  BY <1>5, <1>6

\* A number of GiB that an int64 can count in bytes, in int32.
LEMMA Widths ==
    /\ Int32Modulus * GiB \in Nat /\ 2 * (Int32Modulus * GiB) = MaxInt64 + 1
    /\ GiB <= Int32Modulus * GiB
    /\ Unit * MaxUnits \in Nat /\ 2 * (Unit * MaxUnits) < Int32Modulus
    /\ Unit <= Unit * MaxUnits
  BY SMTT(30)

\* What RoundUpBytes returns is the ceiling, or it reports the overflow.
LEMMA RoundUpBytesIs ==
    ASSUME NEW bytes \in -1..MaxInt64, RoundUpBytes(bytes) # Overflow
    PROVE  \E g \in Nat :
              /\ RoundUpBytes(bytes) = g * GiB
              /\ g * GiB \in bytes..MaxInt64
              /\ g * GiB - GiB < bytes
<1> DEFINE sum == bytes + GiB - 1
           g == sum \div GiB
<1>1. bytes \in Nat
  BY DEF RoundUpBytes, RoundUpSize, Overflow
<1>2. sum \in Nat /\ sum < 2 * (MaxInt64 + 1)
  BY <1>1, Widths
<1> HIDE DEF sum
<1>3. sum <= MaxInt64 /\ Int64(sum) = sum
  <2>1. ~(Int64(sum) < 0)
    BY DEF RoundUpBytes, RoundUpSize, sum, Overflow
  <2> QED
    BY <1>2, <2>1, Int64Is
<1>4. g \in Nat /\ g * GiB <= sum /\ sum < g * GiB + GiB
  BY <1>2, DivBounds
<1>5. RoundUpBytes(bytes) = Int64(g * GiB)
  <2>1. RoundUpSize(bytes, GiB) = g
    BY <1>1, <1>3 DEF RoundUpSize, sum
  <2>2. g # Overflow
    BY <1>4 DEF Overflow
  <2> HIDE DEF g
  <2> QED
    BY <2>1, <2>2 DEF RoundUpBytes
<1> HIDE DEF g
<1>6. g * GiB \in Nat
  BY <1>4
<1>7. Int64(g * GiB) = g * GiB
  BY <1>2, <1>3, <1>4, <1>6, Int64Is
<1>8. g * GiB \in bytes..MaxInt64 /\ g * GiB - GiB < bytes
  BY <1>1, <1>3, <1>4, <1>6 DEF sum
<1> QED
  BY <1>4, <1>5, <1>7, <1>8

\* roundUpCapacity returns the least multiple of the unit that is enough.
LEMMA RoundUpCapacityIs ==
    ASSUME NEW g \in Nat
    PROVE  \E k \in Nat : /\ RoundUpCapacity(g) = k * Unit
                          /\ g <= k * Unit /\ k * Unit < g + Unit
<1> DEFINE q == g \div Unit
<1>1. q \in Nat /\ q * Unit <= g /\ g < q * Unit + Unit
  BY DivBounds
<1>2. CASE g % Unit = 0
  <2>1. g = q * Unit
    BY <1>2, SMTT(30)
  <2> QED
    BY <1>1, <1>2, <2>1 DEF RoundUpCapacity
<1>3. CASE g % Unit # 0
  <2>1. g # q * Unit
    BY <1>1, <1>3, ModProduct
  <2>2. (q + 1) * Unit = q * Unit + Unit /\ q + 1 \in Nat
    BY <1>1, SMTT(30)
  <2>3. RoundUpCapacity(g) = (q + 1) * Unit
    BY <1>3 DEF RoundUpCapacity
  <2> HIDE DEF q
  <2>4. g <= (q + 1) * Unit /\ (q + 1) * Unit < g + Unit
    BY <1>1, <2>1, <2>2, SMTT(30)
  <2> QED
    BY <2>2, <2>3, <2>4
<1> QED
  BY <1>2, <1>3

\* int32 cuts a number of units short, but never to another number of units
\* the cloud has disks of.
LEMMA Int32Offered ==
    ASSUME NEW k \in Nat, k * Unit < 2 * Int32Modulus + Unit, Offered(Int32(k * Unit))
    PROVE  Int32(k * Unit) = k * Unit
<1> DEFINE x == k * Unit
           half == Int32Modulus \div 2
           q == (x + half) \div Int32Modulus
<1>1. x \in Nat /\ half \in Nat /\ half <= Int32Modulus /\ x + half \in Nat
  BY DivBounds, SMTT(30)
<1>2. PICK j \in 1..MaxUnits : Int32(x) = j * Unit
  BY DEF Offered
<1>3. q \in Nat /\ (x + half) % Int32Modulus = x + half - q * Int32Modulus
  BY <1>1, SMTT(30)
<1>4. Int32(x) = x - q * Int32Modulus
  BY <1>1, <1>3 DEF Int32, Wrap
<1> HIDE DEF q, half
<1>5. Unit <= j * Unit /\ j * Unit \in Nat
  BY <1>2, SMTT(30)
<1>6. CASE q = 0
  BY <1>1, <1>4, <1>6
<1>7. CASE q = 1
  <2>1. x = j * Unit + Int32Modulus
    BY <1>1, <1>2, <1>4, <1>5, <1>7
  <2>2. (k - j) * Unit = Int32Modulus
    <3>1. (k - j) * Unit = x - j * Unit
      BY SMTT(30)
    <3> QED
      BY <2>1, <1>5, <3>1
  <2>3. k - j \in Nat
    BY <2>2, SMTT(30)
  <2> QED
    BY <2>2, <2>3, ModProduct
<1>8. CASE q \in Nat /\ q > 1
  <2>1. 2 * Int32Modulus <= q * Int32Modulus /\ q * Int32Modulus \in Nat
    BY <1>8, SMTT(30)
  <2>2. x - q * Int32Modulus < Unit
    BY <1>1, <2>1
  <2> QED
    BY <1>2, <1>4, <1>5, <2>2
<1> QED
  BY <1>3, <1>6, <1>7, <1>8

-----------------------------------------------------------------------------
(* The invariant: what the size in hand is at each stage.                  *)

IsChecked ==
    /\ size \in 0..MaxInt64
    /\ req.hasRange => \E g \in Nat : /\ size = g * GiB
                                      /\ size >= req.required
                                      /\ size - GiB < req.required

IsRounded ==
    \E k \in Nat :
        /\ size = k * Unit
        /\ size < 2 * Int32Modulus + Unit
        /\ req.hasRange => /\ size * GiB >= req.required
                           /\ (size - Unit) * GiB < req.required

IsAnswered ==
    \E k \in 1..MaxUnits :
        /\ size = (k * Unit) * GiB
        /\ req.hasRange => size >= req.required
        /\ IF req.op = "create"
             THEN req.hasRange => size - Unit * GiB < req.required
             ELSE k * Unit >= req.current

CapacityInv ==
    /\ req \in Requests
    /\ stage \in {"received", "checked", "rounded", "answered", "refused"}
    /\ stage = "checked" => IsChecked
    /\ stage = "rounded" => IsRounded
    /\ stage = "answered" => IsAnswered

\* Bytes and back.
LEMMA OfferedBytes ==
    ASSUME NEW k \in 1..MaxUnits
    PROVE  /\ k * Unit \in Nat /\ (k * Unit) * GiB \in Nat
           /\ GiBToBytes(k * Unit) = (k * Unit) * GiB
           /\ BytesToGiB((k * Unit) * GiB) = k * Unit
           /\ Offered(k * Unit)
<1>1. k * Unit \in Nat /\ k * Unit <= MaxUnits * Unit
  BY SMTT(30)
<1>2. k * Unit <= Int32Modulus
  BY <1>1, Widths
<1>3. (k * Unit) * GiB \in Nat /\ (k * Unit) * GiB <= Int32Modulus * GiB
  BY <1>1, <1>2, MulMonotone, SMTT(30)
<1>4. (k * Unit) * GiB <= MaxInt64
  BY <1>3, Widths
<1>5. GiBToBytes(k * Unit) = (k * Unit) * GiB
  BY <1>3, <1>4, Int64Is DEF GiBToBytes
<1>6. BytesToGiB((k * Unit) * GiB) = k * Unit
  BY <1>1, ModProduct DEF BytesToGiB
<1> QED
  BY <1>1, <1>3, <1>5, <1>6 DEF Offered

LEMMA RequestTyped ==
    ASSUME NEW q \in Requests
    PROVE  /\ q.op \in {"create", "expand"} /\ q.hasRange \in BOOLEAN
           /\ q.required \in -1..MaxInt64 /\ q.limit \in -1..MaxInt64
           /\ \E k \in 0..MaxUnits : q.current = k * Unit
           /\ q.op = "expand" => q.hasRange /\ q.current # 0
  BY DEF Requests

LEMMA CheckedNext ==
    ASSUME CapacityInv, CheckRange
    PROVE  CapacityInv'
<1>1. req' = req /\ req \in Requests
  BY DEF CheckRange, Become, CapacityInv
<1>2. CASE ~req.hasRange
  <2>1. Unit * GiB \in 0..MaxInt64
    <3>1. Unit <= Int32Modulus
      BY Widths
    <3> QED
      BY <3>1, MulMonotone, Widths, SMTT(30)
  <2> QED
    BY <1>1, <1>2, <2>1 DEF CheckRange, Become, CapacityInv, IsChecked, DefaultVolumeSize
<1>3. CASE req.hasRange /\ RoundUpBytes(req.required) # Overflow
  <2>1. PICK g \in Nat : /\ RoundUpBytes(req.required) = g * GiB
                         /\ g * GiB \in req.required..MaxInt64
                         /\ g * GiB - GiB < req.required
    BY <1>1, <1>3, RoundUpBytesIs, RequestTyped
  <2>2. g * GiB \in 0..MaxInt64
    BY <1>1, <2>1, RequestTyped, SMTT(30)
  <2>3. stage' = "checked" => IsChecked'
    BY <1>1, <1>3, <2>1, <2>2 DEF CheckRange, Become, IsChecked
  <2> QED
    BY <1>1, <1>3, <2>3 DEF CheckRange, Become, CapacityInv
<1>4. CASE req.hasRange /\ RoundUpBytes(req.required) = Overflow
  BY <1>1, <1>4 DEF CheckRange, Become, CapacityInv
<1> QED
  BY <1>1, <1>2, <1>3, <1>4, RequestTyped

LEMMA RoundedNext ==
    ASSUME CapacityInv, RoundToUnit
    PROVE  CapacityInv'
<1>1. req' = req /\ req \in Requests /\ IsChecked
  BY DEF RoundToUnit, Become, CapacityInv
<1> DEFINE gib == BytesToGiB(size)
<1>2. gib \in Nat /\ gib * GiB <= size /\ size < gib * GiB + GiB
  <2>1. size \in Nat /\ GiB \in Nat \ {0}
    BY <1>1 DEF IsChecked
  <2> HIDE DEF IsChecked
  <2> QED
    BY <2>1, DivBounds DEF BytesToGiB
<1> HIDE DEF gib
<1>3. gib < 2 * Int32Modulus
  <2>1. ~(2 * Int32Modulus <= gib)
    <3>1. ASSUME 2 * Int32Modulus <= gib PROVE FALSE
      <4>1. (2 * Int32Modulus) * GiB <= gib * GiB
        BY <1>2, <3>1, MulMonotone
      <4>2. (2 * Int32Modulus) * GiB = MaxInt64 + 1
        BY Widths, SMTT(30)
      <4> QED
        BY <1>1, <1>2, <4>1, <4>2 DEF IsChecked
    <3> QED
      BY <3>1
  <2> QED
    BY <1>2, <2>1
<1>4. PICK k \in Nat : /\ RoundUpCapacity(gib) = k * Unit
                       /\ gib <= k * Unit /\ k * Unit < gib + Unit
  BY <1>2, RoundUpCapacityIs
<1>5. size' = k * Unit /\ k * Unit \in Nat
  BY <1>4 DEF RoundToUnit, Become, gib
<1>6. ASSUME req.hasRange
      PROVE  size' * GiB >= req.required /\ (size' - Unit) * GiB < req.required
  <2>1. PICK g \in Nat : /\ size = g * GiB
                         /\ size >= req.required /\ size - GiB < req.required
    BY <1>1, <1>6 DEF IsChecked
  <2>2. gib = g
    BY <2>1, ModProduct DEF gib, BytesToGiB
  <2>3. gib * GiB <= size' * GiB /\ size' * GiB \in Int
    BY <1>2, <1>4, <1>5, MulMonotone
  <2>4. (size' - Unit) * GiB <= (gib - 1) * GiB /\ (size' - Unit) * GiB \in Int
    BY <1>2, <1>4, <1>5, MulMonotone
  <2>5. (gib - 1) * GiB = gib * GiB - GiB
    BY <1>2, SMTT(30)
  <2>6. gib * GiB >= req.required /\ gib * GiB - GiB < req.required
    BY <2>1, <2>2
  <2>7. req.required \in Int /\ gib * GiB \in Int
    BY <1>1, <1>2, RequestTyped
  <2> QED
    BY <2>3, <2>4, <2>5, <2>6, <2>7
<1>7. IsRounded'
  BY <1>1, <1>2, <1>3, <1>4, <1>5, <1>6 DEF IsRounded
<1> QED
  BY <1>1, <1>7 DEF RoundToUnit, Become, CapacityInv

\* What CreateVolume answers, of a disk that has the rounded size.
LEMMA AnsweredDisk ==
    ASSUME CapacityInv, stage = "rounded", req.op = "create",
           Offered(size), Become("answered", GiBToBytes(size))
    PROVE  CapacityInv'
<1>1. req' = req /\ req \in Requests /\ IsRounded /\ stage' = "answered"
  BY DEF Become, CapacityInv
<1>2. PICK j \in 1..MaxUnits : size = j * Unit
  BY DEF Offered
<1>3. /\ j * Unit \in Nat /\ (j * Unit) * GiB \in Nat
      /\ GiBToBytes(j * Unit) = (j * Unit) * GiB
  BY OfferedBytes
<1>4. size' = (j * Unit) * GiB
  BY <1>2, <1>3 DEF Become
<1>5. ASSUME req.hasRange
      PROVE  size' >= req.required /\ size' - Unit * GiB < req.required
  <2>1. size * GiB >= req.required /\ (size - Unit) * GiB < req.required
    BY <1>1, <1>5 DEF IsRounded
  <2>2. (size - Unit) * GiB = size * GiB - Unit * GiB
    BY <1>2, <1>3, SMTT(30)
  <2> QED
    BY <1>2, <1>4, <2>1, <2>2
<1>6. IsAnswered'
  BY <1>1, <1>4, <1>5 DEF IsAnswered
<1> QED
  BY <1>1, <1>6 DEF CapacityInv

LEMMA ExistingNext ==
    ASSUME CapacityInv, AnswerExisting
    PROVE  CapacityInv'
<1>1. CASE req.current = size
  <2>1. PICK k \in 0..MaxUnits : req.current = k * Unit
    BY RequestTyped DEF CapacityInv
  <2>2. k # 0
    BY <2>1, SMTT(30) DEF AnswerExisting
  <2>3. Offered(size)
    BY <1>1, <2>1, <2>2 DEF Offered
  <2> QED
    BY <1>1, <2>3, AnsweredDisk DEF AnswerExisting
<1>2. CASE req.current # size
  BY <1>2 DEF AnswerExisting, Become, CapacityInv
<1> QED
  BY <1>1, <1>2

LEMMA CreateNext ==
    ASSUME CapacityInv, CreateOnCloud
    PROVE  CapacityInv'
<1>1. CASE Offered(Int32(size))
  <2>1. PICK k \in Nat : size = k * Unit /\ size < 2 * Int32Modulus + Unit
    BY DEF CreateOnCloud, CapacityInv, IsRounded
  <2>2. Int32(size) = size
    BY <1>1, <2>1, Int32Offered
  <2> QED
    BY <1>1, <2>2, AnsweredDisk DEF CreateOnCloud
<1>2. CASE ~Offered(Int32(size))
  BY <1>2 DEF CreateOnCloud, Become, CapacityInv
<1> QED
  BY <1>1, <1>2

LEMMA ExpandNext ==
    ASSUME CapacityInv, ExpandOnCloud
    PROVE  CapacityInv'
<1> DEFINE reached == IF size > req.current THEN size ELSE req.current + Unit
<1>1. req' = req /\ req \in Requests /\ IsRounded /\ req.op = "expand" /\ req.hasRange
  BY RequestTyped DEF ExpandOnCloud, Become, CapacityInv
<1>2. CASE size >= req.current /\ Offered(reached)
  <2>1. stage' = "answered" /\ size' = GiBToBytes(reached)
    BY <1>2 DEF ExpandOnCloud, Become
  <2>2. PICK j \in 1..MaxUnits : reached = j * Unit
    BY <1>2 DEF Offered
  <2>3. size' = (j * Unit) * GiB /\ j * Unit \in Nat
    BY <2>1, <2>2, OfferedBytes
  <2>4. size \in Nat /\ req.current \in Nat
    <3>1. PICK k \in Nat : size = k * Unit
      BY <1>1 DEF IsRounded
    <3>2. PICK i \in 0..MaxUnits : req.current = i * Unit
      BY <1>1, RequestTyped
    <3> QED
      BY <3>1, <3>2, SMTT(30)
  <2>5. size <= j * Unit /\ req.current <= j * Unit
    BY <1>2, <2>2, <2>4
  <2>6. size * GiB <= (j * Unit) * GiB /\ size * GiB \in Int
    BY <2>3, <2>4, <2>5, MulMonotone
  <2>7. size * GiB >= req.required /\ req.required \in Int
    BY <1>1, RequestTyped DEF IsRounded
  <2>8. (j * Unit) * GiB \in Int
    BY OfferedBytes
  <2>9. size' >= req.required
    BY <2>3, <2>6, <2>7, <2>8
  <2> HIDE DEF reached
  <2>10. IsAnswered'
    BY <1>1, <2>3, <2>5, <2>9 DEF IsAnswered
  <2> QED
    BY <1>1, <2>1, <2>10 DEF CapacityInv
<1>3. CASE ~(size >= req.current /\ Offered(reached))
  BY <1>1, <1>3 DEF ExpandOnCloud, Become, CapacityInv
<1> QED
  BY <1>2, <1>3

\* The invariant: what the size in hand is at each stage of a request, whose
\* parts the three theorems below draw on.
THEOREM CapacityCorrect == Spec => []CapacityInv
<1>1. Init => CapacityInv
  BY DEF Init, CapacityInv
<1>2. CapacityInv /\ [Next]_vars => CapacityInv'
  <2> SUFFICES ASSUME CapacityInv, [Next]_vars PROVE CapacityInv'
    OBVIOUS
  <2>1. CASE UNCHANGED vars
    BY <2>1 DEF vars, CapacityInv, IsChecked, IsRounded, IsAnswered
  <2> QED
    BY <2>1, CheckedNext, RoundedNext, ExistingNext, CreateNext, ExpandNext DEF Next
<1> QED
  BY <1>1, <1>2, PTL DEF Spec

\* roundUpSize and RoundUpBytes: a size that passes getVolSizeBytes is the
\* least number of GiB that covers the bytes required.  No addition has
\* wrapped unnoticed, and no product has wrapped, for an int64 of any width.
THEOREM RoundUpCorrect == Spec => []RoundUpIsCeiling
<1>1. CapacityInv => RoundUpIsCeiling
  <2> SUFFICES ASSUME CapacityInv, stage = "checked", req.hasRange
               PROVE  /\ size % GiB = 0 /\ size >= req.required
                      /\ size - GiB < req.required
    BY DEF RoundUpIsCeiling
  <2>1. PICK g \in Nat : /\ size = g * GiB /\ size >= req.required
                         /\ size - GiB < req.required
    BY DEF CapacityInv, IsChecked
  <2> QED
    BY <2>1, ModProduct
<1> QED
  BY <1>1, CapacityCorrect, PTL

\* CreateVolume answers the smallest disk on offer that covers the bytes
\* required: int32(capacity) in CreateDisk never turns a size that does not
\* fit into that of a smaller disk.
THEOREM CreateCorrect == Spec => []CreateAnswersLeastDisk
<1>1. CapacityInv => CreateAnswersLeastDisk
  BY OfferedBytes DEF CapacityInv, IsAnswered, CreateAnswersLeastDisk
<1> QED
  BY <1>1, CapacityCorrect, PTL

\* ControllerExpandVolume never answers less than the bytes required, nor
\* less than the disk had before ResizeDisk.
THEOREM ExpandCorrect == Spec => []ExpandAnswersEnough
<1>1. CapacityInv => ExpandAnswersEnough
  BY OfferedBytes, RequestTyped DEF CapacityInv, IsAnswered, ExpandAnswersEnough
<1> QED
  BY <1>1, CapacityCorrect, PTL

=============================================================================
