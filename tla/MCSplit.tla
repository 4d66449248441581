------------------------------ MODULE MCSplit ------------------------------
(* Every call of split_ranges for up to 24 bytes and 18 connections, and     *)
(* with no or a negative number of them, which an unclamped caller may pass. *)
EXTENDS Split

SmallSizes == 1..24
SmallCounts == -1..18
=============================================================================
