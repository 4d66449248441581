----------------------------- MODULE MCManager -----------------------------
(* The instances of Manager that TLC checks: downloads of one host, or of    *)
(* two hosts, the first of which serves the first and the last download.     *)
EXTENDS Manager

OneHost == [d \in Ids |-> "h"]
TwoHosts == [d \in Ids |-> IF d = 2 THEN "g" ELSE "h"]
=============================================================================
