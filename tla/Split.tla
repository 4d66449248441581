------------------------------- MODULE Split -------------------------------
(***************************************************************************)
(* The loop of engine.split_ranges: it builds the list of ranges from the  *)
(* front and carries `start` along, with the remainder of the division in  *)
(* the last range.  A step is an iteration, a behaviour one call.          *)
(***************************************************************************)
EXTENDS Ranges, Sequences

CONSTANTS
  Sizes,   \* sizes of files; the code refuses one that is not positive
  Counts   \* requested numbers of connections, 0 and less included

ASSUME SplitAssumption == Sizes \subseteq Nat \ {0} /\ Counts \subseteq Int

VARIABLES
  size, n,   \* the arguments
  start,     \* where the next range starts
  ranges     \* the list

vars == <<size, n, start, ranges>>

Init == size \in Sizes /\ n \in Counts /\ start = 0 /\ ranges = <<>>

k == NumRanges(size, n)

End == IF Len(ranges) + 1 = k THEN size - 1 ELSE start + size \div k - 1

(* Mutant of Iterate: a range starts where the one before it ends. *)
IterateOverlap ==
  /\ Len(ranges) < k
  /\ ranges' = Append(ranges, <<start, End>>) /\ start' = End
  /\ UNCHANGED <<size, n>>

Iterate ==
  /\ Len(ranges) < k
  /\ ranges' = Append(ranges, <<start, End>>) /\ start' = End + 1
  /\ UNCHANGED <<size, n>>

Spec == Init /\ [][Iterate]_vars

-----------------------------------------------------------------------------
(* Properties *)

Returned == Len(ranges) = k
Bytes(r) == r[1]..r[2]
Size(r) == r[2] - r[1] + 1

(* The loop of split_ranges appends the ranges that Ranges, and with it the  *)
(* engine's model, numbers 1 to k (engine.py:74-77).                         *)
LoopIsClosedForm ==
  \A i \in DOMAIN ranges : ranges[i] = <<SegStart(size, k, i), SegEnd(size, k, i)>>

(* What split_ranges returns partitions the bytes 0..size-1: each byte is in *)
(* exactly one range, so none is fetched twice and none is left out.         *)
PartitionsFile ==
  Returned =>
    /\ \A i \in DOMAIN ranges : Bytes(ranges[i]) \subseteq 0..(size - 1)
    /\ \A b \in 0..(size - 1) :
         \E i \in DOMAIN ranges :
           b \in Bytes(ranges[i]) /\ \A j \in DOMAIN ranges : b \in Bytes(ranges[j]) => j = i

(* split_ranges returns no empty range and at most n of them, and only the   *)
(* last is longer than the others, by less than their number.  It returns    *)
(* the same list when asked again for as many ranges as it returned, which   *)
(* _load_progress relies on (engine.py:216-219).                             *)
NoEmptyRange ==
  /\ Len(ranges) <= (IF n < 1 THEN 1 ELSE n)
  /\ Returned =>
       /\ NumRanges(size, Len(ranges)) = Len(ranges)
       /\ Size(ranges[1]) > 0
       /\ \A i \in DOMAIN ranges :
            Size(ranges[i]) \in Size(ranges[1])..(Size(ranges[1]) + Len(ranges) - 1)
=============================================================================
