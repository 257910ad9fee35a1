-------------------------- MODULE MCWillDelivery --------------------------
(* Values for the constants of WillDelivery.                               *)
EXTENDS WillDelivery

CONSTANTS item1, item2, we1, we2   \* items and executors

OneServer == [i \in Items |-> we1]
AllSelected == [c \in Callers |-> Servers]
=============================================================================
