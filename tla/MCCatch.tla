------------------------------ MODULE MCCatch ------------------------------
(* The instance of Catch that TLC checks: downloads of one host. *)
EXTENDS Catch

OneHost == [d \in Ids |-> "h"]
=============================================================================
