---------------------------- MODULE TxLifecycle ----------------------------
(***************************************************************************)
(* What bal-server and bal-pusher promise together about the rows of       *)
(* tbl_tx (docs/03, "State Machine"): a stored transaction waits until its *)
(* locktime, is then broadcast, and ends as sent or as failed for good.    *)
(***************************************************************************)

CONSTANT Txids

VARIABLES
  status,      \* status[t]: "absent", "waiting" (0), "sent" (1), "failed" (2)
  due,         \* the transactions whose locktime has passed
  broadcast    \* the transactions the network has accepted from the server

lifecycleVars == <<status, due, broadcast>>

LifecycleInit ==
  /\ status = [t \in Txids |-> "absent"]
  /\ due \in SUBSET Txids
  /\ broadcast = {}

Store(t) ==
  /\ status[t] = "absent"
  /\ status' = [status EXCEPT ![t] = "waiting"]
  /\ UNCHANGED <<due, broadcast>>

(* Time passes; a locktime that has passed stays passed.                   *)
Ripen ==
  /\ due \subseteq due'
  /\ due' \subseteq Txids
  /\ UNCHANGED <<status, broadcast>>

Broadcast(t) ==
  /\ status[t] = "waiting" /\ t \in due
  /\ broadcast' = broadcast \cup {t}
  /\ UNCHANGED <<status, due>>

MarkSent(t) ==
  /\ status[t] = "waiting" /\ t \in broadcast
  /\ status' = [status EXCEPT ![t] = "sent"]
  /\ UNCHANGED <<due, broadcast>>

MarkFailed(t) ==
  /\ status[t] = "waiting" /\ t \in due
  /\ status' = [status EXCEPT ![t] = "failed"]
  /\ UNCHANGED <<due, broadcast>>

LifecycleNext ==
  \/ Ripen
  \/ \E t \in Txids : Store(t) \/ Broadcast(t) \/ MarkSent(t) \/ MarkFailed(t)

LifecycleSpec == LifecycleInit /\ [][LifecycleNext]_lifecycleVars
=============================================================================
