----------------------------- MODULE MCPusher -----------------------------
(* Values for the constants of Pusher: a will of two transactions, the one *)
(* locked by time, the other, which spends its change, by height.          *)
EXTENDS Pusher

CONSTANTS parent, child

MCParents == [t \in Txids |-> IF t = child THEN {parent} ELSE {}]
MCLocktime == [t \in Txids |-> IF t = parent THEN 7 ELSE 2]
=============================================================================
