---------------------------- MODULE RangesProofs ----------------------------
(* What holds of split_ranges for every size and every number of ranges.     *)
EXTENDS Ranges, TLAPS

(* At least one range and never more than bytes or than asked for.           *)
LEMMA NumRangesBounds ==
  ASSUME NEW size \in Nat \ {0}, NEW n \in Int
  PROVE  /\ NumRanges(size, n) \in 1..size
         /\ n >= 1 => NumRanges(size, n) <= n
BY DEF NumRanges

(* The step of the loop: positive, and k steps fit into the file.            *)
LEMMA StepBounds ==
  ASSUME NEW size \in Nat \ {0}, NEW k \in 1..size
  PROVE  /\ size \div k \in 1..size
         /\ k * (size \div k) <= size
<1>1. /\ size \div k \in Nat
      /\ size = k * (size \div k) + (size % k)
      /\ size % k \in 0..(k - 1)
  OBVIOUS
<1>2. size \div k # 0
  <2>1. CASE size \div k = 0
    BY <2>1, <1>1
  <2> QED BY <2>1
<1> QED BY <1>1, <1>2

(* Offsets grow with the range's number.                                     *)
LEMMA TimesMonotone ==
  ASSUME NEW a \in Int, NEW b \in Int, NEW s \in Nat, a <= b
  PROVE  a * s <= b * s
<1>1. (b - a) * s >= 0
  OBVIOUS
<1>2. (b - a) * s = b * s - a * s
  OBVIOUS
<1> QED BY <1>1, <1>2

(* No range of split_ranges is empty and all lie in the file: the hazards of *)
(* a file smaller than the number of connections and of the remainder.       *)
THEOREM SegmentBounds ==
  ASSUME NEW size \in Nat \ {0}, NEW k \in 1..size, NEW i \in 1..k
  PROVE  /\ SegStart(size, k, i) \in Nat
         /\ SegEnd(size, k, i) \in Nat
         /\ SegStart(size, k, i) <= SegEnd(size, k, i)
         /\ SegEnd(size, k, i) <= size - 1
         /\ SegNeed(size, k, i) \in 1..size
<1> DEFINE s == size \div k
<1>1. s \in 1..size /\ k * s <= size
  BY StepBounds
<1> HIDE DEF s
<1>2. (i - 1) * s \in Nat /\ i * s = (i - 1) * s + s
  <2>1. 0 * s <= (i - 1) * s
    BY <1>1, TimesMonotone
  <2>2. (i - 1) * s = i * s - s
    BY <1>1
  <2> QED BY <1>1, <2>1, <2>2
<1>3. i * s <= k * s
  BY <1>1, TimesMonotone
<1>4. SegStart(size, k, i) = (i - 1) * s
      /\ SegEnd(size, k, i) = IF i = k THEN size - 1 ELSE i * s - 1
  BY DEF SegStart, SegEnd, s
<1> QED BY <1>1, <1>2, <1>3, <1>4 DEF SegNeed

(* The ranges of split_ranges do not overlap: no two workers own a byte.     *)
THEOREM SegmentsDisjoint ==
  ASSUME NEW size \in Nat \ {0}, NEW k \in 1..size, NEW i \in 1..k, NEW j \in 1..k, i < j
  PROVE  SegEnd(size, k, i) < SegStart(size, k, j)
<1> DEFINE s == size \div k
<1>1. s \in 1..size
  BY StepBounds
<1> HIDE DEF s
<1>2. i * s <= (j - 1) * s
  BY <1>1, TimesMonotone
<1>3. SegEnd(size, k, i) = i * s - 1 /\ SegStart(size, k, j) = (j - 1) * s
  BY DEF SegStart, SegEnd, s
<1>4. i * s \in Int /\ (j - 1) * s \in Int
  BY <1>1
<1> QED BY <1>2, <1>3, <1>4

(* The ranges of split_ranges cover the file: when every segment is complete *)
(* so is the file, which is what the integrity gate concludes.               *)
THEOREM SegmentsCover ==
  ASSUME NEW size \in Nat \ {0}, NEW k \in 1..size, NEW b \in 0..(size - 1)
  PROVE  \E i \in 1..k : b \in SegStart(size, k, i)..SegEnd(size, k, i)
<1> DEFINE s == size \div k
           q == b \div s
<1>1. s \in 1..size
  BY StepBounds
<1> HIDE DEF s
<1>2. q \in Nat /\ q * s <= b /\ b < (q + 1) * s
  <2>1. q \in Nat /\ b = s * q + (b % s) /\ b % s \in 0..(s - 1)
    BY <1>1
  <2>2. (q + 1) * s = s * q + s /\ q * s = s * q
    BY <2>1, <1>1
  <2> QED BY <2>1, <2>2, <1>1
<1> HIDE DEF q
<1>3. CASE q + 1 < k
  <2>1. SegStart(size, k, q + 1) = q * s /\ SegEnd(size, k, q + 1) = (q + 1) * s - 1
    BY <1>2, <1>3 DEF SegStart, SegEnd, s
  <2>2. q * s \in Int /\ (q + 1) * s \in Int
    BY <1>1, <1>2
  <2>3. q + 1 \in 1..k
    BY <1>2, <1>3
  <2> QED BY <2>1, <2>2, <2>3, <1>2
<1>4. CASE q + 1 >= k
  <2>1. (k - 1) * s <= q * s
    BY <1>1, <1>2, <1>4, TimesMonotone
  <2>2. SegStart(size, k, k) = (k - 1) * s /\ SegEnd(size, k, k) = size - 1
    BY DEF SegStart, SegEnd, s
  <2>3. (k - 1) * s \in Int /\ q * s \in Int
    BY <1>1, <1>2
  <2> QED BY <2>1, <2>2, <2>3, <1>2
<1> QED BY <1>2, <1>3, <1>4
=============================================================================
