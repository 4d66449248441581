---------------------------- MODULE SplitProofs ----------------------------
(* What split_ranges returns, for every size and every number of             *)
(* connections: its loop computes the closed form of Ranges, of which        *)
(* RangesProofs tells the rest.                                              *)
EXTENDS Split, RangesProofs

Args == size \in Nat \ {0} /\ n \in Int

(* What the loop carries along.                                              *)
LoopInv ==
  /\ Args /\ ranges \in Seq(Int \X Int) /\ Len(ranges) <= k
  /\ start = IF Len(ranges) = k THEN size ELSE Len(ranges) * (size \div k)
  /\ LoopIsClosedForm

LEMMA LoopInit == Init => LoopInv
<1> SUFFICES ASSUME Init PROVE LoopInv
  OBVIOUS
<1>1. Args
  BY SplitAssumption DEF Init, Args
<1>2. k \in 1..size /\ size \div k \in 1..size
  BY <1>1, NumRangesBounds, StepBounds DEF Args, k
<1> QED BY <1>1, <1>2 DEF Init, LoopInv, LoopIsClosedForm

LEMMA LoopStep == LoopInv /\ [Iterate]_vars => LoopInv'
<1> SUFFICES ASSUME LoopInv, Iterate PROVE LoopInv'
  BY DEF vars, LoopInv, LoopIsClosedForm, Args, k
<1> DEFINE i == Len(ranges) + 1
           s == size \div k
<1>1. Args' /\ k' = k /\ size' = size
  BY DEF Iterate, LoopInv, Args, k
<1>2. k \in 1..size /\ s \in 1..size /\ size \in Nat \ {0}
  BY NumRangesBounds, StepBounds DEF LoopInv, Args, k
<1>3. i \in 1..k /\ i - 1 = Len(ranges)
  BY <1>2 DEF Iterate, LoopInv
<1> HIDE DEF i
<1>4. start = (i - 1) * s
  BY <1>3 DEF LoopInv, Iterate
<1>5. start = SegStart(size, k, i) /\ End = SegEnd(size, k, i)
  <2>1. (i - 1) * s + s = i * s
    BY <1>2, <1>3
  <2> QED BY <1>2, <1>3, <1>4, <2>1 DEF SegStart, SegEnd, End
<1>6. start \in Int /\ End \in Int
  BY <1>2, <1>3, <1>5, SegmentBounds
<1>7. /\ ranges' \in Seq(Int \X Int) /\ Len(ranges') = i
      /\ DOMAIN ranges' = 1..i /\ DOMAIN ranges = 1..(i - 1)
      /\ ranges'[i] = <<start, End>>
      /\ \A j \in 1..(i - 1) : ranges'[j] = ranges[j]
  BY <1>3, <1>6 DEF Iterate, LoopInv
<1>8. start' = IF i = k THEN size ELSE i * s
  <2>1. i * s \in Int
    BY <1>2, <1>3
  <2> QED BY <1>2, <1>3, <1>5, <2>1 DEF Iterate, SegEnd
<1>9. LoopIsClosedForm'
  <2>1. \A j \in 1..(i - 1) : ranges'[j] = <<SegStart(size, k, j), SegEnd(size, k, j)>>
    BY <1>7 DEF LoopInv, LoopIsClosedForm
  <2>2. ranges'[i] = <<SegStart(size, k, i), SegEnd(size, k, i)>>
    BY <1>5, <1>7
  <2>3. \A j \in DOMAIN ranges' : j \in 1..(i - 1) \/ j = i
    BY <1>3, <1>7
  <2> QED BY <1>1, <2>1, <2>2, <2>3 DEF LoopIsClosedForm
<1> QED BY <1>1, <1>3, <1>7, <1>8, <1>9 DEF LoopInv

LEMMA LoopAlways == Spec => []LoopInv
BY LoopInit, LoopStep, PTL DEF Spec

(* The list the loop builds is the closed form at every iteration.           *)
THEOREM LoopComputesRanges == Spec => []LoopIsClosedForm
<1>1. LoopInv => LoopIsClosedForm
  BY DEF LoopInv
<1> QED BY <1>1, LoopAlways, PTL

(* When the loop has ended, its ranges are numbered 1..k.                    *)
LEMMA ReturnedRanges ==
  ASSUME LoopInv, Returned
  PROVE  /\ size \in Nat \ {0} /\ k \in 1..size /\ DOMAIN ranges = 1..k
         /\ \A i \in 1..k : /\ ranges[i][1] = SegStart(size, k, i)
                            /\ ranges[i][2] = SegEnd(size, k, i)
                            /\ SegStart(size, k, i) \in Int /\ SegEnd(size, k, i) \in Int
<1>1. size \in Nat \ {0} /\ k \in 1..size
  BY NumRangesBounds DEF LoopInv, Args, k
<1>2. DOMAIN ranges = 1..k
  BY <1>1 DEF LoopInv, Returned
<1>3. ASSUME NEW i \in 1..k
      PROVE  ranges[i] = <<SegStart(size, k, i), SegEnd(size, k, i)>>
  BY <1>2 DEF LoopInv, LoopIsClosedForm
<1> HIDE DEF k
<1>4. ASSUME NEW i \in 1..k PROVE SegStart(size, k, i) \in Int /\ SegEnd(size, k, i) \in Int
  BY <1>1, SegmentBounds
<1> QED BY <1>1, <1>2, <1>3, <1>4

(* split_ranges partitions every file into any number of ranges.             *)
THEOREM SplitPartitions == Spec => []PartitionsFile
<1>1. LoopInv => PartitionsFile
  <2> SUFFICES ASSUME LoopInv, Returned
               PROVE  /\ \A i \in DOMAIN ranges : Bytes(ranges[i]) \subseteq 0..(size - 1)
                      /\ \A b \in 0..(size - 1) :
                           \E i \in DOMAIN ranges :
                             /\ b \in Bytes(ranges[i])
                             /\ \A j \in DOMAIN ranges : b \in Bytes(ranges[j]) => j = i
    BY DEF PartitionsFile
  <2>1. /\ size \in Nat \ {0} /\ k \in 1..size /\ DOMAIN ranges = 1..k
        /\ \A i \in 1..k : /\ Bytes(ranges[i]) = SegStart(size, k, i)..SegEnd(size, k, i)
                           /\ SegStart(size, k, i) \in Int /\ SegEnd(size, k, i) \in Int
    BY ReturnedRanges DEF Bytes
  <2> HIDE DEF k
  <2>2. ASSUME NEW i \in 1..k PROVE Bytes(ranges[i]) \subseteq 0..(size - 1)
    <3>1. SegStart(size, k, i) \in Nat /\ SegEnd(size, k, i) <= size - 1
      BY <2>1, SegmentBounds
    <3> QED BY <2>1, <3>1
  <2>3. ASSUME NEW b \in 0..(size - 1)
        PROVE  \E i \in 1..k :
                 b \in Bytes(ranges[i]) /\ \A j \in 1..k : b \in Bytes(ranges[j]) => j = i
    <3>1. PICK i \in 1..k : b \in Bytes(ranges[i])
      BY <2>1, SegmentsCover
    <3>2. ASSUME NEW j \in 1..k, b \in Bytes(ranges[j]), j # i PROVE FALSE
      <4>1. CASE i < j
        <5>1. SegEnd(size, k, i) < SegStart(size, k, j)
          BY <2>1, <4>1, SegmentsDisjoint
        <5> QED BY <2>1, <3>1, <3>2, <5>1
      <4>2. CASE j < i
        <5>1. SegEnd(size, k, j) < SegStart(size, k, i)
          BY <2>1, <4>2, SegmentsDisjoint
        <5> QED BY <2>1, <3>1, <3>2, <5>1
      <4> QED BY <2>1, <3>2, <4>1, <4>2
    <3> QED BY <3>1, <3>2
  <2> QED BY <2>1, <2>2, <2>3
<1> QED BY <1>1, LoopAlways, PTL

(* None of its ranges is empty, all but the last are of one length, and it   *)
(* would return as many again.                                               *)
THEOREM SplitLeavesNoneEmpty == Spec => []NoEmptyRange
<1>1. LoopInv => NoEmptyRange
  <2> SUFFICES ASSUME LoopInv PROVE NoEmptyRange
    OBVIOUS
  <2>1. Len(ranges) <= (IF n < 1 THEN 1 ELSE n)
    BY NumRangesBounds DEF LoopInv, Args, k, NumRanges
  <2>2. ASSUME Returned
        PROVE  /\ NumRanges(size, Len(ranges)) = Len(ranges)
               /\ Size(ranges[1]) > 0
               /\ \A i \in DOMAIN ranges :
                    Size(ranges[i]) \in Size(ranges[1])..(Size(ranges[1]) + Len(ranges) - 1)
    <3> DEFINE s == size \div k
    <3>1. /\ size \in Nat \ {0} /\ k \in 1..size /\ DOMAIN ranges = 1..k
          /\ \A i \in 1..k : /\ Size(ranges[i]) = SegNeed(size, k, i)
                             /\ SegNeed(size, k, i) \in 1..size
      BY <2>2, ReturnedRanges, SegmentBounds DEF Size, SegNeed
    <3>2. Len(ranges) = k
      BY <2>2 DEF Returned
    <3> HIDE DEF k
    <3>3. s \in 1..size /\ k * s <= size /\ size - k * s <= k - 1
      <4>1. size = k * s + (size % k) /\ size % k \in 0..(k - 1)
        BY <3>1
      <4> QED BY <3>1, <4>1, StepBounds
    <3> HIDE DEF s
    <3>4. ASSUME NEW i \in 1..k
          PROVE  SegNeed(size, k, i) = IF i = k THEN size - (k - 1) * s ELSE s
      <4>1. i * s - (i - 1) * s = s /\ (i - 1) * s \in Int /\ i * s \in Int
        BY <3>1, <3>3
      <4>2. CASE i = k
        <5>1. SegStart(size, k, i) = (k - 1) * s /\ SegEnd(size, k, i) = size - 1
          BY <4>2 DEF SegStart, SegEnd, s
        <5>2. (k - 1) * s \in Int
          BY <4>1, <4>2
        <5> QED BY <3>1, <4>2, <5>1, <5>2 DEF SegNeed
      <4>3. CASE i # k
        <5>1. SegStart(size, k, i) = (i - 1) * s /\ SegEnd(size, k, i) = i * s - 1
          BY <4>3 DEF SegStart, SegEnd, s
        <5> QED BY <3>3, <4>1, <4>3, <5>1 DEF SegNeed
      <4> QED BY <4>2, <4>3
    <3>5. (k - 1) * s = k * s - s /\ k * s \in Int
      BY <3>1, <3>3
    <3>6. ASSUME NEW i \in 1..k
          PROVE  SegNeed(size, k, i) \in SegNeed(size, k, 1)..(SegNeed(size, k, 1) + k - 1)
      <4> DEFINE p == k * s
      <4>1. p \in Int /\ size - p <= k - 1 /\ p <= size /\ s \in 1..size /\ (k - 1) * s = p - s
        BY <3>3, <3>5
      <4> HIDE DEF p
      <4>0. size - (p - s) = size - p + s
        BY <3>1, <4>1
      <4>2. SegNeed(size, k, i) = IF i = k THEN size - p + s ELSE s
        BY <3>4, <4>0, <4>1
      <4>3. SegNeed(size, k, 1) = IF k = 1 THEN size - p + s ELSE s
        BY <3>1, <3>4, <4>0, <4>1
      <4>4. k \in Int /\ k >= 1 /\ size \in Int /\ p \in Int /\ s \in Int
        BY <3>1, <3>3, <4>1
      <4>5. CASE i = k /\ k # 1
        <5>1. SegNeed(size, k, i) = size - p + s /\ SegNeed(size, k, 1) = s
          BY <4>2, <4>3, <4>5
        <5> QED BY <4>1, <4>4, <5>1
      <4>6. CASE i # k \/ k = 1
        <5>1. SegNeed(size, k, i) = SegNeed(size, k, 1) /\ SegNeed(size, k, 1) \in Int
          BY <3>1, <4>1, <4>2, <4>3, <4>6
        <5> QED BY <4>4, <5>1
      <4> QED BY <4>5, <4>6
    <3>7. NumRanges(size, k) = k
      BY <3>1 DEF NumRanges
    <3> QED BY <3>1, <3>2, <3>6, <3>7
  <2> QED BY <2>1, <2>2 DEF NoEmptyRange
<1> QED BY <1>1, LoopAlways, PTL
=============================================================================
