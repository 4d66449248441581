------------------------------- MODULE Queue -------------------------------
(* What the service promises of each download it accepts (README.md:93-96,  *)
(* and tdm/service.py:76-81): it stays pending, over stops and crashes of   *)
(* the process, until it ends in one of three ways; only a failed one can   *)
(* be asked for again; the oldest ended ones may be forgotten.              *)
CONSTANTS Ids
VARIABLES stage

Ends == {"done", "error", "cancelled"}

Init == stage = [d \in Ids |-> "unknown"]

Accepted(d) == stage[d] = "unknown" /\ stage' = [stage EXCEPT ![d] = "pending"]
Ended(d) == stage[d] = "pending" /\ \E e \in Ends : stage' = [stage EXCEPT ![d] = e]
Again(d) == stage[d] = "error" /\ stage' = [stage EXCEPT ![d] = "pending"]

(* The process ends: what it had ended, it may no longer know of. *)
Forgotten ==
  \E lost \in SUBSET {d \in Ids : stage[d] \in Ends} :
    stage' = [d \in Ids |-> IF d \in lost THEN "unknown" ELSE stage[d]]

Next == Forgotten \/ \E d \in Ids : Accepted(d) \/ Ended(d) \/ Again(d)

Spec == Init /\ [][Next]_stage
=============================================================================
