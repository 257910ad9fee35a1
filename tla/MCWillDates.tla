----------------------------- MODULE MCWillDates -----------------------------
(***************************************************************************)
(* The default delivery is four days off, the default Check Alive two days *)
(* before it.                                                              *)
(***************************************************************************)
EXTENDS WillDates

MCDefaultDays == [f \in Fields |-> IF f = "locktime" THEN 4 ELSE 2]
MCDurations == [f \in Fields |-> IF f = "locktime" THEN {2, 4} ELSE {1}]

=============================================================================
