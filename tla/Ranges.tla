------------------------------- MODULE Ranges -------------------------------
(***************************************************************************)
(* How a download of `size` bytes is cut into the byte ranges its          *)
(* connections fetch (engine.split_ranges).  Ranges are numbered 1..k, a   *)
(* range is the inclusive interval SegStart..SegEnd, and the last one      *)
(* takes the remainder of the division.                                    *)
(*                                                                         *)
(* This is the closed form, which the engine's model uses; Split has the   *)
(* loop that builds the list, and compares.                                *)
(***************************************************************************)
EXTENDS Integers

(* Mutant of NumRanges: the size does not limit it. *)
NumRangesUncapped(size, n) == IF n < 1 THEN 1 ELSE n

(* n = max(1, min(n, size)): never more ranges than bytes. *)
NumRanges(size, n) == IF n < 1 THEN 1 ELSE IF n > size THEN size ELSE n

SegStart(size, k, i) == (i - 1) * (size \div k)

(* Mutant of SegEnd: the last range is like the others. *)
SegEndNoRemainder(size, k, i) == i * (size \div k) - 1

SegEnd(size, k, i) == IF i = k THEN size - 1 ELSE i * (size \div k) - 1

SegNeed(size, k, i) == SegEnd(size, k, i) - SegStart(size, k, i) + 1
=============================================================================
