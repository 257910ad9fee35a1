-------------------------- MODULE BalServerProofs --------------------------
(***************************************************************************)
(* Theorems about the two programs of bal-server, which share a database:  *)
(* the server and the pusher.                                              *)
(*                                                                         *)
(* Pusher, for every set of transactions, every locktime and all bounds:   *)
(* its types, the causes of a failed transaction, the refinement of        *)
(* TxLifecycle and the statistics.  The argument rests on what a run has   *)
(* in hand: a row read by get_pending_txs stays waiting and due until this *)
(* very run writes it down, since no other actor changes the status of a   *)
(* row, and a row in pushed_txs is known to the network.                   *)
(*                                                                         *)
(* AddressBook, for every set of networks, keys, clients and requests and  *)
(* for every bound.  AddressNotShared is not inductive: InfoInv adds what  *)
(* ties an address to the one index it came from.  BookInv and KeepsInv    *)
(* add what holds while no call of the database fails: what was handed out *)
(* is in the table, and who was answered is found there.                   *)
(*                                                                         *)
(* WillExecutorServer, for every set of requests, bodies and transactions: *)
(* its types, the two promises echo_push makes, that what is stored pays,  *)
(* that only a rival push makes an insert fail, and that the whole server  *)
(* behaves like its address book as far as /info goes.                     *)
(***************************************************************************)
EXTENDS WillExecutorServer, Pusher, FiniteSetTheorems, WellFoundedInduction,
        SequenceTheorems, TLAPS

-----------------------------------------------------------------------------
(* bal-pusher.                                                             *)

InHand == pending \cup pushed \cup invalid

(* The chain never falls behind what a run has read of it.                 *)
TipIsPast == tip.height <= height /\ tip.median <= median

InHandIsDue == \A t \in InHand : status[t] = "waiting" /\ Final(t)

PushedIsKnown == \A t \in pushed : node[t] # "unknown"

Trouble(t) == t \in spoiled \/ Parents[t] # {} \/ failures > 0 \/ crashes > 0

InvalidHasCause == \A t \in invalid : Trouble(t)

(* Without trouble, what the network knows is in hand or written down.     *)
KnownIsAccounted ==
  \A t \in Txids : node[t] # "unknown" => t \in pushed \/ status[t] = "sent" \/ Trouble(t)

PusherInv ==
  /\ TypeOK
  /\ TipIsPast
  /\ InHandIsDue
  /\ PushedIsKnown
  /\ InvalidHasCause
  /\ KnownIsAccounted
  /\ FailedHasCause

-----------------------------------------------------------------------------

(* A selected row is final for bitcoind: both comparisons of               *)
(* get_pending_txs are stricter than the consensus rule.                   *)
LEMMA SelectedIsFinal ==
  ASSUME TypeOK, TipIsPast, NEW t \in Txids, Selected(t, tip)
  PROVE  Final(t)
BY PusherAssumption DEF TypeOK, TipIsPast, Selected, Final

(* A transaction without trouble that is due is accepted, or already there.*)
LEMMA RefusedHasCause ==
  ASSUME PusherInv, NEW t \in pending, ~Acceptable(t)
  PROVE  Trouble(t)
<1>1. t \in Txids /\ Final(t) /\ status[t] = "waiting" /\ t \notin pushed
  BY DEF PusherInv, TypeOK, InHandIsDue, InHand
<1>2. SUFFICES ASSUME ~Trouble(t) PROVE FALSE
  OBVIOUS
<1>3. node[t] = "confirmed"
  BY <1>1, <1>2 DEF Acceptable, Trouble
<1>4. QED
  BY <1>1, <1>2, <1>3 DEF PusherInv, KnownIsAccounted

(* The counts of tbl_stats are numbers of transactions.                    *)
LEMMA CountsAreBounded ==
  ASSUME TypeOK
  PROVE  [totals |-> Cardinality(Txids) - Count("absent"),
          waiting |-> Count("waiting"), sent |-> Count("sent"), failed |-> Count("failed")] \in StatsRow
<1>1. ASSUME NEW s PROVE Count(s) \in 0 .. Cardinality(Txids)
  <2>1. {t \in Txids : status[t] = s} \subseteq Txids
    OBVIOUS
  <2>2. Cardinality({t \in Txids : status[t] = s}) <= Cardinality(Txids)
        /\ IsFiniteSet({t \in Txids : status[t] = s})
    BY <2>1, FS_Subset, PusherAssumption
  <2>3. Cardinality({t \in Txids : status[t] = s}) \in Nat /\ Cardinality(Txids) \in Nat
    BY <2>2, FS_CardinalityType, PusherAssumption
  <2>4. QED
    BY <2>2, <2>3 DEF Count
<1>2. Cardinality(Txids) \in Nat
  BY FS_CardinalityType, PusherAssumption
<1>3. Cardinality(Txids) - Count("absent") \in 0 .. Cardinality(Txids)
  BY <1>1, <1>2
<1>4. QED
  BY <1>1, <1>3 DEF StatsRow

(* Next, action by action, for the proofs that follow.                     *)
LEMMA TypeStep == TypeOK /\ [Next]_vars => TypeOK'
<1> SUFFICES ASSUME TypeOK, [Next]_vars PROVE TypeOK'
  OBVIOUS
<1> USE PusherAssumption
<1> DEFINE Idle == pc \notin {"send", "update"}
<1>1. CASE UNCHANGED vars
  BY <1>1 DEF TypeOK, vars, chainVars, procVars, countVars, StatsRow, Stages
<1>2. CASE Block
  <2>1. /\ height' \in StartHeight .. MaxHeight /\ median' \in Nat
        /\ node' \in [Txids -> {"unknown", "mempool", "confirmed"}]
        /\ inbox' \in 0 .. MaxInbox /\ lost' \in 0 .. MaxLost
    BY <1>2 DEF Block, TypeOK
  <2>2. QED
    BY <1>2, <2>1 DEF Block, TypeOK, procVars
<1>3. CASE Crash
  BY <1>3 DEF Crash, TypeOK, chainVars, Stages
<1>4. CASE \E t \in Txids : OwnerSpends(t) \/ Insert(t)
  BY <1>4 DEF OwnerSpends, Insert, TypeOK, chainVars, procVars, countVars
<1>5. CASE Start \/ Wake \/ Connect \/ SleepOver
  BY <1>5 DEF Start, Wake, Connect, SleepOver, TypeOK, chainVars, countVars, Stages
<1>6. CASE ConnectFails \/ QueryFails
  BY <1>6 DEF ConnectFails, QueryFails, Fault, TypeOK, chainVars, Stages
<1>7. CASE Query
  BY <1>7 DEF Query, TypeOK, chainVars, countVars, Stages
<1>8. CASE \E t \in Txids : Send(t) \/ SendFails(t)
  BY <1>8 DEF Send, SendFails, Fault, TypeOK, countVars
<1>9. CASE SendDone \/ UpdateDone
  BY <1>9 DEF SendDone, UpdateDone, TypeOK, chainVars, countVars, Stages
<1>10. CASE \E t \in Txids : UpdateSent(t) \/ UpdateFailed(t)
  BY <1>10 DEF UpdateSent, UpdateFailed, Fault, TypeOK, chainVars, countVars
<1>11. CASE DeleteStats
  BY <1>11 DEF DeleteStats, Fault, TypeOK, chainVars, countVars, Stages
<1>12. CASE InsertStats
  BY <1>12, CountsAreBounded DEF InsertStats, Fault, TypeOK, chainVars, countVars, Stages
<1>13. QED
  BY <1>1, <1>2, <1>3, <1>4, <1>5, <1>6, <1>7, <1>8, <1>9, <1>10, <1>11, <1>12
  DEF Next, PusherStep, Environment

(* bal-pusher keeps the types of its state.                                *)
THEOREM PusherTypeCorrect == Spec => []TypeOK
<1>1. Init => TypeOK
  BY PusherAssumption DEF Init, TypeOK, Stages
<1>2. QED
  BY <1>1, TypeStep, PTL DEF Spec

-----------------------------------------------------------------------------

(* The invariant holds at the start.                                       *)
LEMMA PusherInvInit == Init => PusherInv
<1>1. Init => TypeOK
  BY PusherAssumption DEF Init, TypeOK, Stages
<1>2. QED
  BY <1>1, PusherAssumption
  DEF Init, PusherInv, TipIsPast, InHandIsDue, InHand, PushedIsKnown, InvalidHasCause,
      KnownIsAccounted, FailedHasCause

(* The clock only goes forward, so what is due stays due.                  *)
LEMMA ClockStep ==
  ASSUME PusherInv, [Next]_vars
  PROVE  TipIsPast' /\ height <= height' /\ median <= median'
<1> USE PusherAssumption DEF PusherInv
<1>1. CASE Block
  BY <1>1 DEF Block, TipIsPast, TypeOK, procVars
<1>2. CASE Connect
  BY <1>2 DEF Connect, TipIsPast, TypeOK, chainVars
<1>3. CASE UNCHANGED <<height, median, tip>>
  BY <1>3 DEF TipIsPast, TypeOK
<1>4. ASSUME Next, ~Block, ~Connect PROVE UNCHANGED <<height, median, tip>>
  BY <1>4 DEF Next, PusherStep, Environment, Crash, OwnerSpends, Insert, Start, Wake, SleepOver,
    ConnectFails, Query, QueryFails, Send, SendFails, SendDone, UpdateSent, UpdateFailed,
    UpdateDone, DeleteStats, InsertStats, chainVars, procVars
<1>5. QED
  BY <1>1, <1>2, <1>3, <1>4 DEF vars, chainVars, procVars

(* What bitcoind takes for final stays final.                              *)
LEMMA FinalStays ==
  ASSUME PusherInv, [Next]_vars, NEW t \in Txids, Final(t)
  PROVE  Final(t)'
BY ClockStep, TypeStep, PusherAssumption DEF Final, PusherInv, TypeOK

(* Trouble is never over.                                                  *)
LEMMA TroubleStays ==
  ASSUME PusherInv, [Next]_vars, NEW t \in Txids, Trouble(t)
  PROVE  Trouble(t)'
<1> USE DEF PusherInv, TypeOK, Trouble
<1>1. CASE UNCHANGED <<spoiled, failures, crashes>>
  BY <1>1
<1>2. CASE Crash
  BY <1>2, PusherAssumption DEF Crash, chainVars
<1>3. CASE \E u \in Txids : OwnerSpends(u)
  BY <1>3 DEF OwnerSpends, countVars
<1>4. CASE spoiled' = spoiled /\ Fault
  BY <1>4, PusherAssumption DEF Fault
<1>5. ASSUME Next, ~Crash, ~(\E u \in Txids : OwnerSpends(u)), ~(spoiled' = spoiled /\ Fault)
      PROVE  UNCHANGED <<spoiled, failures, crashes>>
  BY <1>5 DEF Next, PusherStep, Environment, Block, Insert, Start, Wake, Connect, SleepOver,
    ConnectFails, Query, QueryFails, Send, SendFails, SendDone, UpdateSent, UpdateFailed,
    UpdateDone, DeleteStats, InsertStats, chainVars, countVars
<1>6. QED
  BY <1>1, <1>2, <1>3, <1>4, <1>5 DEF vars, chainVars, countVars

(* The rows in hand: only Query adds to them, and only the run that holds  *)
(* them changes their status.                                              *)
LEMMA InHandStep ==
  ASSUME PusherInv, [Next]_vars
  PROVE  InHandIsDue'
<1> SUFFICES ASSUME NEW t \in InHand' PROVE (status[t] = "waiting" /\ Final(t))'
  BY DEF InHandIsDue
<1>1. t \in Txids
  BY TypeStep DEF PusherInv, TypeOK, InHand
<1>2. CASE t \in InHand
  <2>1. status[t] = "waiting" /\ Final(t)
    BY <1>2 DEF PusherInv, InHandIsDue
  <2>2. Final(t)'
    BY <1>1, <2>1, FinalStays
  <2>3. status'[t] = "waiting"
    <3> USE <1>1, <1>2, <2>1 DEF PusherInv, TypeOK
    <3>1. CASE status' = status
      BY <3>1
    <3>2. CASE \E u \in Txids : Insert(u)
      BY <3>2 DEF Insert
    <3>3. CASE \E u \in Txids : UpdateSent(u) \/ UpdateFailed(u)
      BY <3>3 DEF UpdateSent, UpdateFailed, InHand
    <3>4. ASSUME Next, ~(\E u \in Txids : Insert(u) \/ UpdateSent(u) \/ UpdateFailed(u))
          PROVE  status' = status
      BY <3>4 DEF Next, PusherStep, Environment, Block, Crash, OwnerSpends, Start, Wake, Connect,
        SleepOver, ConnectFails, Query, QueryFails, Send, SendFails, SendDone, UpdateDone,
        DeleteStats, InsertStats
    <3>5. QED
      BY <3>1, <3>2, <3>3, <3>4 DEF vars
  <2>4. QED
    BY <2>2, <2>3
<1>3. CASE t \notin InHand
  <2>1. Query
    BY <1>3 DEF InHand, Next, PusherStep, Environment, Block, Crash, OwnerSpends, Insert, Start,
      Wake, Connect, SleepOver, ConnectFails, QueryFails, Send, SendFails, SendDone, UpdateSent,
      UpdateFailed, UpdateDone, DeleteStats, InsertStats, vars, chainVars, procVars
  <2>2. Selected(t, tip) /\ status' = status
    BY <1>3, <2>1 DEF Query, InHand
  <2>3. Final(t)
    BY <1>1, <2>2, SelectedIsFinal DEF PusherInv
  <2>4. QED
    BY <1>1, <2>2, <2>3, FinalStays DEF Selected
<1>4. QED
  BY <1>2, <1>3

(* What the network knows it does not forget.                              *)
LEMMA KnownStays ==
  ASSUME PusherInv, [Next]_vars, NEW t \in Txids, node[t] # "unknown"
  PROVE  node'[t] # "unknown"
<1> USE DEF PusherInv, TypeOK
<1>1. CASE Block
  BY <1>1 DEF Block
<1>2. CASE \E u \in Txids : Send(u) \/ SendFails(u)
  BY <1>2 DEF Send, SendFails
<1>3. ASSUME Next, ~Block, ~(\E u \in Txids : Send(u) \/ SendFails(u)) PROVE node' = node
  BY <1>3 DEF Next, PusherStep, Environment, Crash, OwnerSpends, Insert, Start, Wake, Connect,
    SleepOver, ConnectFails, Query, QueryFails, SendDone, UpdateSent, UpdateFailed, UpdateDone,
    DeleteStats, InsertStats, chainVars
<1>4. QED
  BY <1>1, <1>2, <1>3 DEF vars, chainVars

(* Every step keeps PushedIsKnown.                                         *)
LEMMA PushedStep ==
  ASSUME PusherInv, [Next]_vars
  PROVE  PushedIsKnown'
<1> SUFFICES ASSUME NEW t \in pushed' PROVE node'[t] # "unknown"
  BY DEF PushedIsKnown
<1>1. t \in Txids
  BY TypeStep DEF PusherInv, TypeOK
<1>2. CASE t \in pushed
  BY <1>1, <1>2, KnownStays DEF PusherInv, PushedIsKnown
<1>3. CASE t \notin pushed
  <2>1. Send(t)
    BY <1>3 DEF Next, PusherStep, Environment, Block, Crash, OwnerSpends, Insert, Start, Wake,
      Connect, SleepOver, ConnectFails, Query, QueryFails, Send, SendFails, SendDone, UpdateSent,
      UpdateFailed, UpdateDone, DeleteStats, InsertStats, vars, procVars
  <2>2. QED
    BY <1>1, <1>3, <2>1 DEF Send, PusherInv, TypeOK
<1>4. QED
  BY <1>2, <1>3

(* Every step keeps InvalidHasCause.                                       *)
LEMMA InvalidStep ==
  ASSUME PusherInv, [Next]_vars
  PROVE  InvalidHasCause'
<1> SUFFICES ASSUME NEW t \in invalid' PROVE Trouble(t)'
  BY DEF InvalidHasCause
<1>1. t \in Txids
  BY TypeStep DEF PusherInv, TypeOK
<1>2. CASE t \in invalid
  BY <1>1, <1>2, TroubleStays DEF PusherInv, InvalidHasCause
<1>3. CASE t \notin invalid
  <2>1. Send(t) \/ SendFails(t)
    BY <1>3 DEF Next, PusherStep, Environment, Block, Crash, OwnerSpends, Insert, Start, Wake,
      Connect, SleepOver, ConnectFails, Query, QueryFails, Send, SendFails, SendDone, UpdateSent,
      UpdateFailed, UpdateDone, DeleteStats, InsertStats, vars, procVars
  <2>2. CASE Send(t)
    <3>1. t \in pending /\ ~Acceptable(t)
      BY <1>3, <2>2 DEF Send
    <3>2. QED
      BY <1>1, <3>1, RefusedHasCause, TroubleStays
  <2>3. CASE SendFails(t)
    BY <2>3, PusherAssumption DEF SendFails, Fault, Trouble, PusherInv, TypeOK
  <2>4. QED
    BY <2>1, <2>2, <2>3
<1>4. QED
  BY <1>2, <1>3

(* "sent" and "failed" are final.                                          *)
LEMMA DecidedStays ==
  ASSUME PusherInv, [Next]_vars, NEW t \in Txids, status[t] \in {"sent", "failed"}
  PROVE  status'[t] = status[t]
<1> USE DEF PusherInv, TypeOK
<1>1. CASE \E u \in Txids : Insert(u)
  BY <1>1 DEF Insert
<1>2. CASE \E u \in Txids : UpdateSent(u) \/ UpdateFailed(u)
  <2>1. t \notin pushed /\ t \notin invalid
    BY DEF InHandIsDue, InHand
  <2>2. QED
    BY <1>2, <2>1 DEF UpdateSent, UpdateFailed
<1>3. ASSUME Next, ~(\E u \in Txids : Insert(u) \/ UpdateSent(u) \/ UpdateFailed(u))
      PROVE  status' = status
  BY <1>3 DEF Next, PusherStep, Environment, Block, Crash, OwnerSpends, Start, Wake, Connect,
    SleepOver, ConnectFails, Query, QueryFails, Send, SendFails, SendDone, UpdateDone,
    DeleteStats, InsertStats
<1>4. QED
  BY <1>1, <1>2, <1>3 DEF vars

(* Every step keeps KnownIsAccounted.                                      *)
LEMMA KnownStep ==
  ASSUME PusherInv, [Next]_vars
  PROVE  KnownIsAccounted'
<1> SUFFICES ASSUME NEW t \in Txids, node'[t] # "unknown"
             PROVE  t \in pushed' \/ status'[t] = "sent" \/ Trouble(t)'
  BY DEF KnownIsAccounted
<1> USE PusherAssumption
<1>1. CASE node[t] = "unknown"
  <2>1. CASE Block
    BY <1>1, <2>1 DEF Block, PusherInv, TypeOK
  <2>2. CASE \E u \in Txids : Send(u)
    BY <1>1, <2>2 DEF Send, PusherInv, TypeOK
  <2>3. CASE \E u \in Txids : SendFails(u)
    BY <2>3 DEF SendFails, Fault, Trouble, PusherInv, TypeOK
  <2>4. ASSUME Next, ~Block, ~(\E u \in Txids : Send(u) \/ SendFails(u)) PROVE node' = node
    BY <2>4 DEF Next, PusherStep, Environment, Crash, OwnerSpends, Insert, Start, Wake, Connect,
      SleepOver, ConnectFails, Query, QueryFails, SendDone, UpdateSent, UpdateFailed, UpdateDone,
      DeleteStats, InsertStats, chainVars
  <2>5. QED
    BY <1>1, <2>1, <2>2, <2>3, <2>4 DEF vars, chainVars
<1>2. CASE node[t] # "unknown" /\ t \in pushed
  <2>1. CASE Crash
    BY <2>1 DEF Crash, Trouble, PusherInv, TypeOK
  <2>2. CASE \E u \in Txids : UpdateSent(u)
    BY <1>2, <2>2 DEF UpdateSent, Fault, Trouble, PusherInv, TypeOK
  <2>3. ASSUME Next, ~Crash, ~(\E u \in Txids : UpdateSent(u)) PROVE pushed \subseteq pushed'
    BY <2>3 DEF Next, PusherStep, Environment, Block, OwnerSpends, Insert, Start, Wake, Connect,
      SleepOver, ConnectFails, Query, QueryFails, Send, SendFails, SendDone, UpdateFailed,
      UpdateDone, DeleteStats, InsertStats, procVars
  <2>4. QED
    BY <1>2, <2>1, <2>2, <2>3 DEF vars, procVars
<1>3. CASE node[t] # "unknown" /\ status[t] = "sent"
  BY <1>3, DecidedStays
<1>4. CASE Trouble(t)
  BY <1>4, TroubleStays
<1>5. QED
  BY <1>1, <1>2, <1>3, <1>4 DEF PusherInv, KnownIsAccounted

(* Every step keeps FailedHasCause.                                        *)
LEMMA FailedStep ==
  ASSUME PusherInv, [Next]_vars
  PROVE  FailedHasCause'
<1> SUFFICES ASSUME NEW t \in Txids, status'[t] = "failed" PROVE Trouble(t)'
  BY DEF FailedHasCause, Trouble
<1>1. CASE status[t] = "failed"
  BY <1>1, TroubleStays DEF PusherInv, FailedHasCause, Trouble
<1>2. CASE status[t] # "failed"
  <2>1. UpdateFailed(t)
    <3>1. CASE \E u \in Txids : Insert(u) \/ UpdateSent(u) \/ UpdateFailed(u)
      BY <1>2, <3>1 DEF Insert, UpdateSent, UpdateFailed, PusherInv, TypeOK
    <3>2. ASSUME Next, ~(\E u \in Txids : Insert(u) \/ UpdateSent(u) \/ UpdateFailed(u))
          PROVE  status' = status
      BY <3>2 DEF Next, PusherStep, Environment, Block, Crash, OwnerSpends, Start, Wake, Connect,
        SleepOver, ConnectFails, Query, QueryFails, Send, SendFails, SendDone, UpdateDone,
        DeleteStats, InsertStats
    <3>3. QED
      BY <1>2, <3>1, <3>2 DEF vars
  <2>2. t \in invalid
    BY <2>1 DEF UpdateFailed
  <2>3. QED
    BY <2>2, TroubleStays DEF PusherInv, InvalidHasCause
<1>3. QED
  BY <1>1, <1>2

(* The invariant of the process is inductive.                              *)
THEOREM PusherInvHolds == Spec => []PusherInv
<1>1. PusherInv /\ [Next]_vars => PusherInv'
  BY TypeStep, ClockStep, InHandStep, PushedStep, InvalidStep, KnownStep, FailedStep DEF PusherInv
<1>2. QED
  BY PusherInvInit, <1>1, PTL DEF Spec

(* A transaction is given up for a reason: its inputs were spent, it has a *)
(* parent, a call failed or the process died.                              *)
THEOREM FailureHasCause == Spec => []FailedHasCause
<1>1. PusherInv => FailedHasCause
  BY DEF PusherInv
<1>2. QED
  BY <1>1, PusherInvHolds, PTL

-----------------------------------------------------------------------------

(* The pusher starts where the life cycle does.                            *)
LEMMA LifecycleInitHolds == Init => Lifecycle!LifecycleInit
BY PusherAssumption DEF Init, Lifecycle!LifecycleInit

(* Every step of the system is a step of the life of one transaction, the  *)
(* passing of time, or invisible.                                          *)
LEMMA LifecycleStep ==
  ASSUME PusherInv, [Next]_vars
  PROVE  [Lifecycle!LifecycleNext]_(Lifecycle!lifecycleVars)
<1> DEFINE due == {t \in Txids : Final(t)}
           known == {t \in Txids : node[t] # "unknown"}
<1>1. CASE Block
  <2>1. status' = status
    BY <1>1 DEF Block
  <2>2. known' = known
    BY <1>1 DEF Block, PusherInv, TypeOK
  <2>3. due \subseteq due' /\ due' \subseteq Txids
    BY FinalStays
  <2>4. QED
    BY <2>1, <2>2, <2>3 DEF Lifecycle!LifecycleNext, Lifecycle!Ripen
<1>3. ASSUME NEW t \in Txids, Insert(t) PROVE Lifecycle!Store(t)
  <2>1. due' = due /\ known' = known
    BY <1>3 DEF Insert, chainVars, Final
  <2>2. QED
    BY <1>3, <2>1 DEF Insert, Lifecycle!Store
<1>4. ASSUME NEW t \in Txids, Send(t) \/ SendFails(t)
      PROVE  Lifecycle!Broadcast(t) \/ UNCHANGED Lifecycle!lifecycleVars
  <2>1. status' = status /\ due' = due
    BY <1>4 DEF Send, SendFails, Final
  <2>2. status[t] = "waiting" /\ t \in due
    BY <1>4 DEF Send, SendFails, PusherInv, InHandIsDue, InHand
  <2>3. known' = known \/ known' = known \cup {t}
    BY <1>4 DEF Send, SendFails, PusherInv, TypeOK
  <2>4. QED
    BY <2>1, <2>2, <2>3 DEF Lifecycle!Broadcast, Lifecycle!lifecycleVars
<1>5. ASSUME NEW t \in Txids, UpdateSent(t)
      PROVE  Lifecycle!MarkSent(t) \/ UNCHANGED Lifecycle!lifecycleVars
  <2>1. due' = due /\ known' = known
    BY <1>5 DEF UpdateSent, Final, chainVars
  <2>2. status[t] = "waiting" /\ t \in known
    BY <1>5 DEF UpdateSent, PusherInv, InHandIsDue, InHand, PushedIsKnown
  <2>3. QED
    BY <1>5, <2>1, <2>2 DEF UpdateSent, Lifecycle!MarkSent, Lifecycle!lifecycleVars
<1>6. ASSUME NEW t \in Txids, UpdateFailed(t)
      PROVE  Lifecycle!MarkFailed(t) \/ UNCHANGED Lifecycle!lifecycleVars
  <2>1. due' = due /\ known' = known
    BY <1>6 DEF UpdateFailed, Final, chainVars
  <2>2. status[t] = "waiting" /\ t \in due
    BY <1>6 DEF UpdateFailed, PusherInv, InHandIsDue, InHand
  <2>3. QED
    BY <1>6, <2>1, <2>2 DEF UpdateFailed, Lifecycle!MarkFailed, Lifecycle!lifecycleVars
<1>7. ASSUME UNCHANGED <<status, height, median, node>> PROVE UNCHANGED Lifecycle!lifecycleVars
  BY <1>7 DEF Lifecycle!lifecycleVars, Final
<1>8. ASSUME Next, ~Block,
             ~(\E t \in Txids : \/ Insert(t) \/ Send(t) \/ SendFails(t)
                              \/ UpdateSent(t) \/ UpdateFailed(t))
      PROVE  UNCHANGED <<status, height, median, node>>
  BY <1>8 DEF Next, PusherStep, Environment, Crash, OwnerSpends, Start, Wake, Connect, SleepOver,
    ConnectFails, Query, QueryFails, SendDone, UpdateDone, DeleteStats, InsertStats, chainVars
<1>9. QED
  BY <1>1, <1>3, <1>4, <1>5, <1>6, <1>7, <1>8 DEF Lifecycle!LifecycleNext, vars, chainVars

(* The process implements the life of a transaction of TxLifecycle.        *)
THEOREM PusherImplementsLifecycle == Spec => ImplementsLifecycle
<1>1. PusherInv /\ [Next]_vars => [Lifecycle!LifecycleNext]_(Lifecycle!lifecycleVars)
  BY LifecycleStep
<1>2. QED
  BY <1>1, LifecycleInitHolds, PusherInvHolds, PTL
  DEF Spec, ImplementsLifecycle, Lifecycle!LifecycleSpec

-----------------------------------------------------------------------------

(* The rows of one status, which Count counts.                             *)
Rows(s) == {t \in Txids : status[t] = s}

(* The rows of a status can be counted.                                    *)
LEMMA RowsAreFinite ==
  ASSUME NEW s
  PROVE  IsFiniteSet(Rows(s)) /\ Cardinality(Rows(s)) \in Nat /\ Count(s) = Cardinality(Rows(s))
<1>1. Rows(s) \subseteq Txids
  BY DEF Rows
<1>2. IsFiniteSet(Rows(s))
  BY <1>1, FS_Subset, PusherAssumption
<1>3. QED
  BY <1>2, FS_CardinalityType DEF Count, Rows

(* The sizes of disjoint sets add up.                                      *)
LEMMA DisjointCardinality ==
  ASSUME NEW S, IsFiniteSet(S), NEW T, IsFiniteSet(T), S \cap T = {}
  PROVE  IsFiniteSet(S \cup T) /\ Cardinality(S \cup T) = Cardinality(S) + Cardinality(T)
<1>1. Cardinality(S \cap T) = 0
  BY FS_EmptySet
<1>2. Cardinality(S) \in Nat /\ Cardinality(T) \in Nat
  BY FS_CardinalityType
<1>3. /\ IsFiniteSet(S \cup T)
      /\ Cardinality(S \cup T) = Cardinality(S) + Cardinality(T) - Cardinality(S \cap T)
  BY FS_Union
<1>4. QED
  BY <1>1, <1>2, <1>3

(* Every transaction has one status: the totals of the INSERT ... SELECT   *)
(* are the sum of its other three counts.                                  *)
LEMMA CountsAddUp ==
  ASSUME TypeOK
  PROVE  Cardinality(Txids) - Count("absent") = Count("waiting") + Count("sent") + Count("failed")
<1>1. /\ Txids = Rows("absent") \cup (Rows("waiting") \cup (Rows("sent") \cup Rows("failed")))
      /\ Rows("sent") \cap Rows("failed") = {}
      /\ Rows("waiting") \cap (Rows("sent") \cup Rows("failed")) = {}
      /\ Rows("absent") \cap (Rows("waiting") \cup (Rows("sent") \cup Rows("failed"))) = {}
  BY DEF TypeOK, Rows
<1> DEFINE decided == Rows("sent") \cup Rows("failed")
           stored == Rows("waiting") \cup decided
<1>2. IsFiniteSet(decided) /\ Cardinality(decided) = Count("sent") + Count("failed")
  <2>1. IsFiniteSet(Rows("sent")) /\ IsFiniteSet(Rows("failed"))
    BY RowsAreFinite
  <2>2. IsFiniteSet(decided) /\ Cardinality(decided) = Cardinality(Rows("sent")) + Cardinality(Rows("failed"))
    BY <1>1, <2>1, DisjointCardinality
  <2>3. QED
    BY <2>2, RowsAreFinite
<1> HIDE DEF decided
<1>3. IsFiniteSet(stored) /\ Cardinality(stored) = Count("waiting") + (Count("sent") + Count("failed"))
  <2>1. IsFiniteSet(Rows("waiting")) /\ Rows("waiting") \cap decided = {}
    BY <1>1, RowsAreFinite DEF decided
  <2>2. IsFiniteSet(stored) /\ Cardinality(stored) = Cardinality(Rows("waiting")) + Cardinality(decided)
    BY <1>2, <2>1, DisjointCardinality
  <2>3. QED
    BY <1>2, <2>2, RowsAreFinite
<1>4. Cardinality(Txids) = Count("absent") + (Count("waiting") + (Count("sent") + Count("failed")))
  <2>1. IsFiniteSet(Rows("absent")) /\ Rows("absent") \cap stored = {} /\ Txids = Rows("absent") \cup stored
    BY <1>1, RowsAreFinite DEF decided
  <2> HIDE DEF stored
  <2>2. Cardinality(Txids) = Cardinality(Rows("absent")) + Cardinality(stored)
    BY <1>3, <2>1, DisjointCardinality
  <2>3. QED
    BY <1>3, <2>2, RowsAreFinite
<1>5. /\ Count("absent") \in Nat /\ Count("waiting") \in Nat
      /\ Count("sent") \in Nat /\ Count("failed") \in Nat
  BY RowsAreFinite
<1>6. QED
  BY <1>4, <1>5

(* Storing a transaction only makes more of them wait.                     *)
LEMMA InsertCounts ==
  ASSUME TypeOK, NEW t \in Txids, Insert(t)
  PROVE  /\ Count("sent")' = Count("sent") /\ Count("failed")' = Count("failed")
         /\ Count("waiting") <= Count("waiting")' /\ Count("waiting")' \in Nat
<1>1. /\ Rows("sent")' = Rows("sent") /\ Rows("failed")' = Rows("failed")
      /\ Rows("waiting")' = Rows("waiting") \cup {t} /\ t \notin Rows("waiting")
  BY DEF TypeOK, Insert, Rows
<1>2. Cardinality(Rows("waiting") \cup {t}) = Cardinality(Rows("waiting")) + 1
  BY <1>1, RowsAreFinite, FS_AddElement
<1>3. \A x : Count(x)' = Cardinality(Rows(x)')
  BY DEF Count, Rows
<1>4. QED
  BY <1>1, <1>2, <1>3, RowsAreFinite

(* The process backs off only after a failed call, so without one it idles *)
(* only behind a written row of tbl_stats.                                 *)
StatsInv ==
  /\ TypeOK
  /\ pc = "backoff" => failures > 0
  /\ StatsUpToDate

(* Every step keeps StatsInv.                                              *)
LEMMA StatsStep == StatsInv /\ [Next]_vars => StatsInv'
<1> SUFFICES ASSUME StatsInv, [Next]_vars PROVE StatsInv'
  OBVIOUS
<1> USE PusherAssumption
<1>1. TypeOK /\ TypeOK'
  BY TypeStep DEF StatsInv
<1>2. (pc = "backoff" => failures > 0)'
  BY <1>1 DEF StatsInv, TypeOK, vars, chainVars, procVars, countVars, Next, PusherStep, Environment,
    Block, Crash, OwnerSpends, Insert, Start, Wake, Connect, ConnectFails, Fault, SleepOver, Query,
    QueryFails, Send, SendFails, SendDone, UpdateSent, UpdateFailed, UpdateDone, DeleteStats, InsertStats
<1>3. StatsUpToDate'
  <2> SUFFICES ASSUME pc' = "idle", failures' = 0
               PROVE  \E row \in tbl_stats' :
                        /\ row.sent = Count("sent")' /\ row.failed = Count("failed")'
                        /\ row.totals = row.waiting + row.sent + row.failed
                        /\ row.waiting <= Count("waiting")'
    BY DEF StatsUpToDate
  <2>1. CASE InsertStats
    <3> DEFINE row == [totals |-> Cardinality(Txids) - Count("absent"), waiting |-> Count("waiting"),
                       sent |-> Count("sent"), failed |-> Count("failed")]
    <3>1. tbl_stats' = {row} /\ status' = status
      BY <1>1, <2>1 DEF InsertStats, Fault, TypeOK
    <3>2. /\ Count("sent")' = Count("sent") /\ Count("failed")' = Count("failed")
          /\ Count("waiting")' = Count("waiting") /\ Count("waiting") \in Nat
      BY <3>1, RowsAreFinite DEF Count
    <3>3. row.totals = row.waiting + row.sent + row.failed
      BY <1>1, CountsAddUp
    <3>4. row \in tbl_stats'
      BY <3>1
    <3>5. row.sent = Count("sent")' /\ row.failed = Count("failed")' /\ row.waiting <= Count("waiting")'
      BY <3>2
    <3> HIDE DEF row
    <3>6. QED
      BY <3>3, <3>4, <3>5
  <2>2. CASE pc = "idle" /\ ~InsertStats
    <3>1. failures = 0 /\ tbl_stats' = tbl_stats
      BY <1>1, <2>2 DEF TypeOK, vars, chainVars, procVars, countVars, Next, PusherStep, Environment,
        Block, Crash, OwnerSpends, Insert, Start, Wake, Connect, ConnectFails, Fault, SleepOver, Query,
        QueryFails, Send, SendFails, SendDone, UpdateSent, UpdateFailed, UpdateDone, DeleteStats
    <3>2. PICK row \in tbl_stats :
              /\ row.sent = Count("sent") /\ row.failed = Count("failed")
              /\ row.totals = row.waiting + row.sent + row.failed
              /\ row.waiting <= Count("waiting")
      BY <2>2, <3>1 DEF StatsInv, StatsUpToDate
    <3>3. row \in StatsRow
      BY <1>1, <3>2 DEF TypeOK
    <3>4. row.waiting \in Nat
      BY <3>3, FS_CardinalityType DEF StatsRow
    <3>5. CASE \E t \in Txids : Insert(t)
      BY <1>1, <3>1, <3>2, <3>4, <3>5, InsertCounts, RowsAreFinite
    <3>6. CASE ~\E t \in Txids : Insert(t)
      <4>1. status' = status
        BY <2>2, <3>6 DEF vars, Next, PusherStep, Environment,
          Block, Crash, OwnerSpends, Start, Wake, Connect, ConnectFails, SleepOver, Query,
          QueryFails, Send, SendFails, SendDone, UpdateSent, UpdateFailed, UpdateDone, DeleteStats
      <4>2. QED
        BY <3>1, <3>2, <4>1 DEF Count
    <3>7. QED
      BY <3>5, <3>6
  <2>3. CASE pc # "idle" /\ ~InsertStats
    BY <1>1, <2>3 DEF StatsInv, TypeOK, vars, chainVars, procVars, countVars, Next, PusherStep, Environment,
      Block, Crash, OwnerSpends, Insert, Start, Wake, Connect, ConnectFails, Fault, SleepOver, Query,
      QueryFails, Send, SendFails, SendDone, UpdateSent, UpdateFailed, UpdateDone, DeleteStats
  <2>4. QED
    BY <2>1, <2>2, <2>3
<1>4. QED
  BY <1>1, <1>2, <1>3 DEF StatsInv

(* Without failed calls, a process that waits for a block has published    *)
(* the exact number of sent and failed transactions, through crashes too.  *)
THEOREM StatsAreUpToDate == Spec => []StatsUpToDate
<1>1. Init => StatsInv
  BY PusherAssumption DEF Init, StatsInv, TypeOK, StatsUpToDate, Stages
<1>2. StatsInv => StatsUpToDate
  BY DEF StatsInv
<1>3. QED
  BY <1>1, <1>2, StatsStep, PTL DEF Spec

-----------------------------------------------------------------------------
(* bal-server, and the address book in it.                                *)

USE NetworksAssumption, BoundsAssumption

(* The address of request i was derived from an index that get_next_-      *)
(* address_index took from row x for it, with key c[n] of a configuration. *)
Fresh(i) == info[i].source = "fresh"

FreshOK(i) ==
  LET n == info[i].network IN
  \E c \in Configs :
    /\ info[i].xpub = <<n, c[n]>>
    /\ <<n, c[n]>> \in tbl_xpub
    /\ info[i].idx \in Nat
    /\ info[i].idx <= path_idx[<<n, c[n]>>]
    /\ info[i].address = Address(n, c[n], info[i].idx)

(* What the handler of request i knows at each of its awaits.              *)
HandlerOK(i) ==
  /\ info[i].pc \in {"idle", "lookup", "index"} => info[i].source = "none"
  /\ info[i].pc \in {"lookup", "index", "save"} => info[i].network \in XpubNetworks
  /\ info[i].pc = "save" =>
       /\ info[i].source \in {"fresh", "fallback"}
       /\ info[i].address \in Addresses
  /\ info[i].source = "fallback" => info[i].xpub = None
  /\ Fresh(i) => info[i].network \in XpubNetworks /\ FreshOK(i)

TypeInv == InfoTypeOK /\ \A i \in Infos : HandlerOK(i)

(* No index is taken twice from one row.                                   *)
IndexesDiffer ==
  \A i, j \in Infos :
    (i # j /\ Fresh(i) /\ Fresh(j) /\ info[i].xpub = info[j].xpub)
      => info[i].idx # info[j].idx

(* Client remote took the index that address was derived from.             *)
Took(remote, address) ==
  \E k \in Infos : Fresh(k) /\ info[k].remote = remote /\ info[k].address = address

RowsTaken ==
  \A row \in tbl_address : row.xpub # None => Took(row.remote, row.address)

StoredTaken ==
  \A i \in Infos : info[i].source = "stored" => Took(info[i].remote, info[i].address)

InfoInv == TypeInv /\ IndexesDiffer /\ RowsTaken /\ StoredTaken

-----------------------------------------------------------------------------

(* A request keeps its derivation when its record keeps the fields that    *)
(* describe it and the indexes of the rows have only grown.                *)
LEMMA FreshKept ==
  ASSUME InfoTypeOK, NEW i \in Infos, FreshOK(i),
         info'[i].network = info[i].network, info'[i].xpub = info[i].xpub,
         info'[i].idx = info[i].idx, info'[i].address = info[i].address,
         path_idx' \in [XpubRows -> {-1} \cup Nat],
         \A x \in XpubRows : path_idx[x] <= path_idx'[x],
         tbl_xpub \subseteq tbl_xpub'
  PROVE  FreshOK(i)'
<1> DEFINE n == info[i].network
<1>1. n \in Networks
  BY DEF InfoTypeOK, InfoRecords
<1>2. PICK c \in Configs : /\ info[i].xpub = <<n, c[n]>>
                           /\ <<n, c[n]>> \in tbl_xpub
                           /\ info[i].idx \in Nat
                           /\ info[i].idx <= path_idx[<<n, c[n]>>]
                           /\ info[i].address = Address(n, c[n], info[i].idx)
  BY DEF FreshOK
<1>3. <<n, c[n]>> \in XpubRows
  BY <1>1 DEF XpubRows
<1>4. path_idx[<<n, c[n]>>] <= path_idx'[<<n, c[n]>>]
  BY <1>3
<1>5. info[i].idx <= path_idx'[<<n, c[n]>>]
  BY <1>2, <1>3, <1>4 DEF InfoTypeOK
<1> QED
  BY <1>2, <1>5 DEF FreshOK, Address, AddressOf

(* Nothing the handlers know is disturbed by a step that leaves their      *)
(* records and path_idx alone.                                             *)
LEMMA HandlerKept ==
  ASSUME InfoTypeOK, NEW i \in Infos, HandlerOK(i), info'[i] = info[i],
         path_idx' \in [XpubRows -> {-1} \cup Nat],
         \A x \in XpubRows : path_idx[x] <= path_idx'[x],
         tbl_xpub \subseteq tbl_xpub'
  PROVE  HandlerOK(i)'
<1>1. Fresh(i) => FreshOK(i)'
  BY FreshKept DEF HandlerOK
<1> QED
  BY <1>1 DEF HandlerOK, Fresh

(* The record a handler leaves behind when it goes on with the pair        *)
(* (xpub, idx): well typed, and fresh exactly when the row gave the index. *)
LEMMA DeriveOK ==
  ASSUME TypeInv, NEW i \in Infos, info[i].pc = "index",
         NEW source \in {"fresh", "fallback"}, NEW xpub \in XpubRows \cup {None},
         NEW idx \in Nat, Derive(i, source, xpub, idx),
         source = "fallback" => xpub = None,
         source = "fresh" => /\ xpub = <<info[i].network, config[info[i].network]>>
                             /\ xpub \in tbl_xpub /\ UNCHANGED tbl_xpub
                             /\ idx <= path_idx'[xpub]
  PROVE  /\ info' \in [Infos -> InfoRecords]
         /\ \A k \in Infos : k # i => info'[k] = info[k]
         /\ HandlerOK(i)'
         /\ Fresh(i)' => source = "fresh" /\ info'[i].xpub = xpub /\ info'[i].idx = idx
         /\ info'[i].source \in {"none", source}
<1> DEFINE n == info[i].network
           failed == [info[i] EXCEPT !.pc = "done", !.xpub = xpub, !.idx = idx]
           derived == [info[i] EXCEPT !.pc = "save", !.source = source, !.xpub = xpub,
                                      !.idx = idx, !.address = Address(n, config[n], idx)]
<1>1. info[i] \in InfoRecords /\ n \in Networks /\ config[n] \in Keys
  BY DEF TypeInv, InfoTypeOK, InfoRecords
<1>2. Address(n, config[n], idx) \in Addresses
  BY <1>1 DEF Address, AddressOf, Addresses
<1>3. failed \in InfoRecords
  BY <1>1 DEF InfoRecords
<1>4. derived \in InfoRecords
  BY <1>1, <1>2 DEF InfoRecords
<1>5. info' = [info EXCEPT ![i] = IF idx > MaxIndex THEN failed ELSE derived]
  BY DEF Derive
<1>6. info \in [Infos -> InfoRecords]
  BY DEF TypeInv, InfoTypeOK
<1>7. info[i].source = "none" /\ n \in XpubNetworks
  BY DEF TypeInv, HandlerOK
<1>8. CASE info'[i] = failed
  <2>1. /\ info'[i].pc = "done" /\ info'[i].source = "none"
    BY <1>1, <1>7, <1>8 DEF InfoRecords
  <2>2. HandlerOK(i)'
    BY <2>1 DEF HandlerOK, Fresh
  <2> QED
    BY <1>3, <1>4, <1>5, <1>6, <2>1, <2>2 DEF Fresh
<1>9. CASE info'[i] = derived
  <2>1. /\ info'[i].pc = "save" /\ info'[i].source = source /\ info'[i].xpub = xpub
        /\ info'[i].idx = idx /\ info'[i].network = n
        /\ info'[i].address = Address(n, config[n], idx)
    BY <1>1, <1>9 DEF InfoRecords
  <2>2. Fresh(i)' => FreshOK(i)'
    <3>1. config \in Configs
      BY DEF TypeInv, InfoTypeOK
    <3> QED
      BY <2>1, <3>1 DEF Fresh, FreshOK, Address, AddressOf
  <2>3. HandlerOK(i)'
    BY <1>2, <1>7, <2>1, <2>2 DEF HandlerOK
  <2> QED
    BY <1>3, <1>4, <1>5, <1>6, <2>1, <2>3 DEF Fresh
<1> QED
  BY <1>5, <1>6, <1>8, <1>9

(* The initial states.                                                     *)
LEMMA InfoInitInv == InfoInit => InfoInv
<1> SUFFICES ASSUME InfoInit PROVE InfoInv
  OBVIOUS
<1>1. InfoTypeOK
  <2>1. config \in [Networks -> Keys]
    BY DEF InfoInit
  <2>2. tbl_xpub \subseteq XpubRows
    BY <2>1 DEF InfoInit, XpubRows
  <2>3. info \in [Infos -> InfoRecords]
    BY DEF InfoInit, InfoRecords
  <2> QED
    BY <2>2, <2>3 DEF InfoInit, InfoTypeOK
<1>2. \A i \in Infos : info[i].pc = "idle" /\ info[i].source = "none"
  BY DEF InfoInit
<1> QED
  BY <1>1, <1>2 DEF InfoInit, InfoInv, TypeInv, HandlerOK, Fresh, IndexesDiffer,
                    RowsTaken, StoredTaken

(* What a step of handler i does to the parts the invariant speaks of: the *)
(* other records stay, the indexes only grow, and its own record becomes   *)
(* fresh only by taking the next index of its row.                         *)
InfoEffect(i) ==
  /\ \A k \in Infos : k # i => info'[k] = info[k]
  /\ path_idx' \in [XpubRows -> {-1} \cup Nat]
  /\ \A x \in XpubRows : path_idx[x] <= path_idx'[x]
  /\ tbl_xpub' = tbl_xpub
  /\ info'[i].remote = info[i].remote
  /\ \/ Fresh(i)' /\ Fresh(i) /\ /\ info'[i].xpub = info[i].xpub
                                 /\ info'[i].idx = info[i].idx
                                 /\ info'[i].address = info[i].address
     \/ ~Fresh(i)' /\ ~Fresh(i)
     \/ /\ Fresh(i)' /\ ~Fresh(i)
        /\ info'[i].xpub \in XpubRows
        /\ info'[i].idx = path_idx[info'[i].xpub] + 1

(* echo_info up to the lookup.                                             *)
LEMMA BeginStep ==
  ASSUME TypeInv, NEW i \in Infos, InfoBegin(i)
  PROVE  TypeInv' /\ InfoEffect(i) /\ info'[i].source # "stored"
<1> DEFINE n == info[i].network
<1>1. info[i] \in InfoRecords /\ n \in Networks /\ config[n] \in Keys
  BY DEF TypeInv, InfoTypeOK, InfoRecords
<1>2. Address(n, config[n], -1) \in Addresses
  BY <1>1 DEF Address, AddressOf, Addresses
<1>3. info \in [Infos -> InfoRecords] /\ info[i].source = "none"
  BY DEF InfoBegin, TypeInv, InfoTypeOK, HandlerOK
<1> DEFINE earlier == {j \in Infos : info[j].pc = "done"}
           refused == [info[i] EXCEPT !.pc = "done", !.after = earlier]
           plain   == [info[i] EXCEPT !.pc = "done", !.after = earlier, !.source = "plain",
                                      !.address = Address(n, config[n], -1)]
           looking == [info[i] EXCEPT !.pc = "lookup", !.after = earlier]
<1>a. refused \in InfoRecords /\ plain \in InfoRecords /\ looking \in InfoRecords
  BY <1>1, <1>2 DEF InfoRecords
<1>b. info' = [info EXCEPT ![i] = IF n \notin Enabled THEN refused
                                  ELSE IF n \notin XpubNetworks THEN plain ELSE looking]
  BY DEF InfoBegin
<1>c. UNCHANGED <<config, tbl_xpub, path_idx, tbl_address, now, faults, restarts>>
  BY DEF InfoBegin
<1>4. /\ info' \in [Infos -> InfoRecords]
      /\ \A k \in Infos : k # i => info'[k] = info[k]
  BY <1>3, <1>a, <1>b
<1>5. /\ info'[i].network = n /\ info'[i].remote = info[i].remote
      /\ info'[i].source \in {"none", "plain"}
      /\ info'[i].pc \in {"done", "lookup"}
      /\ info'[i].pc = "lookup" => n \in XpubNetworks
      /\ info'[i].pc = "lookup" => info'[i].source = "none"
  <2>1. info'[i] = refused \/ info'[i] = plain \/ (info'[i] = looking /\ n \in XpubNetworks)
    BY <1>3, <1>b
  <2>2. CASE info'[i] = refused
    BY <1>1, <1>3, <2>2 DEF InfoRecords
  <2>3. CASE info'[i] = plain
    BY <1>1, <1>3, <2>3 DEF InfoRecords
  <2>4. CASE info'[i] = looking /\ n \in XpubNetworks
    BY <1>1, <1>3, <2>4 DEF InfoRecords
  <2> QED
    BY <2>1, <2>2, <2>3, <2>4
<1>6. InfoTypeOK'
  BY <1>4, <1>c DEF TypeInv, InfoTypeOK
<1>7. path_idx' \in [XpubRows -> {-1} \cup Nat] /\ \A x \in XpubRows : path_idx[x] <= path_idx'[x]
  BY <1>c DEF TypeInv, InfoTypeOK
<1>8. \A k \in Infos : HandlerOK(k)'
  <2>1. HandlerOK(i)'
    BY <1>5 DEF HandlerOK, Fresh
  <2> QED
    BY <1>4, <1>7, <1>c, <2>1, HandlerKept DEF TypeInv
<1> QED
  BY <1>3, <1>4, <1>5, <1>6, <1>7, <1>8, <1>c DEF TypeInv, InfoEffect, Fresh

(* A step that only moves the program counter of a handler.                *)
LEMMA MoveStep ==
  ASSUME TypeInv, NEW i \in Infos,
         NEW to \in {"index", "done"},
         info' = [info EXCEPT ![i].pc = to],
         info[i].pc \in {"lookup", "save"}, info[i].pc = "save" => to = "done",
         UNCHANGED <<path_idx, tbl_xpub>>
  PROVE  /\ info' \in [Infos -> InfoRecords]
         /\ \A k \in Infos : HandlerOK(k)'
         /\ InfoEffect(i)
         /\ info'[i].source = info[i].source /\ info'[i].address = info[i].address
<1>1. info[i] \in InfoRecords /\ info \in [Infos -> InfoRecords]
  BY DEF TypeInv, InfoTypeOK
<1>2. /\ info' \in [Infos -> InfoRecords]
      /\ \A k \in Infos : k # i => info'[k] = info[k]
  BY <1>1 DEF InfoRecords
<1>3. /\ info'[i].pc = to /\ info'[i].network = info[i].network
      /\ info'[i].remote = info[i].remote /\ info'[i].source = info[i].source
      /\ info'[i].xpub = info[i].xpub /\ info'[i].idx = info[i].idx
      /\ info'[i].address = info[i].address
  BY <1>1 DEF InfoRecords
<1>4. path_idx' \in [XpubRows -> {-1} \cup Nat] /\ \A x \in XpubRows : path_idx[x] <= path_idx'[x]
  BY DEF TypeInv, InfoTypeOK
<1>5. HandlerOK(i)'
  <2>1. Fresh(i) => FreshOK(i)'
    BY <1>3, <1>4, FreshKept DEF TypeInv, HandlerOK
  <2> QED
    BY <1>3, <2>1 DEF TypeInv, HandlerOK, Fresh
<1>6. \A k \in Infos : HandlerOK(k)'
  BY <1>2, <1>4, <1>5, HandlerKept DEF TypeInv
<1> QED
  BY <1>2, <1>3, <1>4, <1>6 DEF InfoEffect, Fresh

(* get_last_used_address_by_ip, with the row it found.                     *)
LEMMA LookupStep ==
  ASSUME TypeInv, NEW i \in Infos, InfoLookup(i)
  PROVE  /\ TypeInv'
         /\ InfoEffect(i)
         /\ info'[i].source = "stored" =>
              \E row \in tbl_address : /\ row.xpub # None
                                       /\ row.remote = info[i].remote
                                       /\ row.address = info'[i].address
<1> DEFINE x == <<info[i].network, config[info[i].network]>>
<1>1. info[i] \in InfoRecords /\ info \in [Infos -> InfoRecords] /\ x \in XpubRows
  BY DEF TypeInv, InfoTypeOK, InfoRecords, XpubRows
<1>2. UNCHANGED <<config, tbl_xpub, path_idx, tbl_address, now, faults, restarts>>
  BY DEF InfoLookup
<1>3. info[i].pc = "lookup" /\ info[i].source = "none"
  BY DEF InfoLookup, TypeInv, HandlerOK
<1>4. CASE info' = [info EXCEPT ![i].pc = "index"]
  <2>1. /\ info' \in [Infos -> InfoRecords]
        /\ \A k \in Infos : HandlerOK(k)'
        /\ InfoEffect(i) /\ info'[i].source = "none"
    BY <1>2, <1>3, <1>4, MoveStep
  <2> QED
    BY <1>2, <2>1 DEF TypeInv, InfoTypeOK
<1>5. ASSUME NEW row \in tbl_address, row.remote = info[i].remote, row.xpub = x,
             AnswerStored(i, x, row.address)
      PROVE  /\ TypeInv' /\ InfoEffect(i) /\ row.xpub # None
             /\ row.address = info'[i].address
  <2> DEFINE answered == [info[i] EXCEPT !.pc = "done", !.source = "stored", !.xpub = x,
                                         !.address = row.address]
  <2>1. row.address \in Addresses
    BY DEF TypeInv, InfoTypeOK, AddressRows
  <2>2. answered \in InfoRecords
    BY <1>1, <2>1 DEF InfoRecords
  <2>3. info' = [info EXCEPT ![i] = answered]
    BY <1>1, <1>5 DEF AnswerStored, InfoRecords
  <2>4. /\ info' \in [Infos -> InfoRecords] /\ info'[i] = answered
        /\ \A k \in Infos : k # i => info'[k] = info[k]
    BY <1>1, <2>2, <2>3
  <2>5. /\ info'[i].pc = "done" /\ info'[i].source = "stored"
        /\ info'[i].address = row.address /\ info'[i].remote = info[i].remote
    BY <1>1, <2>4 DEF InfoRecords
  <2>6. /\ path_idx' \in [XpubRows -> {-1} \cup Nat]
        /\ \A y \in XpubRows : path_idx[y] <= path_idx'[y]
    BY <1>2 DEF TypeInv, InfoTypeOK
  <2>7. \A k \in Infos : HandlerOK(k)'
    <3>1. HandlerOK(i)'
      BY <2>5 DEF HandlerOK, Fresh
    <3> QED
      BY <1>2, <2>4, <2>6, <3>1, HandlerKept DEF TypeInv
  <2>8. row.xpub # None
    BY <1>1, <1>5, NoneAssumption DEF XpubRows
  <2> QED
    BY <1>2, <1>3, <2>4, <2>5, <2>6, <2>7, <2>8 DEF TypeInv, InfoTypeOK, InfoEffect, Fresh
<1> QED
  <2>1. CASE \E row \in tbl_address : row.remote = info[i].remote /\ row.xpub = x
                                      /\ AnswerStored(i, x, row.address)
    BY <1>5, <2>1
  <2>2. CASE info' = [info EXCEPT ![i].pc = "index"]
    <3>1. info'[i].source = "none"
      BY <1>2, <1>3, <2>2, MoveStep
    <3> QED
      BY <1>2, <1>3, <1>4, <2>2, <3>1
  <2> QED
    BY <2>1, <2>2 DEF InfoLookup, Latest, AddressesOf

(* The handler leaves get_next_address_index with an index it was given.   *)
LEMMA FreshIndexStep ==
  ASSUME TypeInv, NEW i \in Infos, info[i].pc = "index",
         NEW x \in tbl_xpub, x = <<info[i].network, config[info[i].network]>>,
         path_idx' = [path_idx EXCEPT ![x] = @ + 1],
         Derive(i, "fresh", x, path_idx[x] + 1),
         UNCHANGED <<config, tbl_xpub, tbl_address, now, faults, restarts>>
  PROVE  TypeInv' /\ InfoEffect(i) /\ info'[i].source # "stored"
<1>1. x \in XpubRows /\ path_idx \in [XpubRows -> {-1} \cup Nat]
  BY DEF TypeInv, InfoTypeOK, InfoRecords, XpubRows
<1>2. path_idx[x] + 1 \in Nat /\ path_idx'[x] = path_idx[x] + 1
  BY <1>1
<1>3. /\ path_idx' \in [XpubRows -> {-1} \cup Nat]
      /\ \A y \in XpubRows : path_idx[y] <= path_idx'[y]
  BY <1>1, <1>2
<1>4. path_idx[x] + 1 <= path_idx'[x]
  BY <1>2
<1>5. /\ info' \in [Infos -> InfoRecords]
      /\ \A k \in Infos : k # i => info'[k] = info[k]
      /\ HandlerOK(i)'
      /\ Fresh(i)' => info'[i].xpub = x /\ info'[i].idx = path_idx[x] + 1
      /\ info'[i].source \in {"none", "fresh"}
  BY <1>1, <1>2, <1>4, DeriveOK
<1>6. \A k \in Infos : HandlerOK(k)'
  BY <1>3, <1>5, HandlerKept DEF TypeInv
<1>7. ~Fresh(i)
  BY DEF Fresh, TypeInv, HandlerOK
<1>8. info'[i].remote = info[i].remote
  BY DEF Derive, TypeInv, InfoTypeOK, InfoRecords
<1> QED
  BY <1>1, <1>3, <1>5, <1>6, <1>7, <1>8 DEF TypeInv, InfoTypeOK, InfoEffect

(* The handler leaves it with the fallback (0, 0).                         *)
LEMMA FallbackStep ==
  ASSUME TypeInv, NEW i \in Infos, info[i].pc = "index",
         Derive(i, "fallback", None, 0),
         \/ UNCHANGED path_idx
         \/ path_idx' = [path_idx EXCEPT ![<<info[i].network, config[info[i].network]>>] = @ + 1],
         UNCHANGED <<config, tbl_xpub, tbl_address, now, restarts>>, faults' \in Nat
  PROVE  TypeInv' /\ InfoEffect(i) /\ info'[i].source # "stored"
<1> DEFINE x == <<info[i].network, config[info[i].network]>>
<1>1. x \in XpubRows /\ path_idx \in [XpubRows -> {-1} \cup Nat]
  BY DEF TypeInv, InfoTypeOK, InfoRecords, XpubRows
<1>2. path_idx[x] + 1 \in Nat
  BY <1>1
<1>3. /\ path_idx' \in [XpubRows -> {-1} \cup Nat]
      /\ \A y \in XpubRows : path_idx[y] <= path_idx'[y]
  BY <1>1, <1>2
<1>5. /\ info' \in [Infos -> InfoRecords]
      /\ \A k \in Infos : k # i => info'[k] = info[k]
      /\ HandlerOK(i)'
      /\ ~Fresh(i)'
      /\ info'[i].source \in {"none", "fallback"}
  BY DeriveOK
<1>6. \A k \in Infos : HandlerOK(k)'
  BY <1>3, <1>5, HandlerKept DEF TypeInv
<1>7. ~Fresh(i)
  BY DEF Fresh, TypeInv, HandlerOK
<1>8. info'[i].remote = info[i].remote
  BY DEF Derive, TypeInv, InfoTypeOK, InfoRecords
<1> QED
  BY <1>1, <1>3, <1>5, <1>6, <1>7, <1>8 DEF TypeInv, InfoTypeOK, InfoEffect

(* A step of any handler but save_new_address: the table of addresses is   *)
(* left alone.                                                             *)
LEMMA HandlerStep ==
  ASSUME TypeInv, NEW i \in Infos, InfoStep(i)
  PROVE  /\ TypeInv'
         /\ InfoEffect(i)
         /\ \/ tbl_address' = tbl_address
            \/ /\ info[i].pc = "save"
               /\ \E d : tbl_address' = tbl_address \cup
                    {[address |-> info[i].address, xpub |-> info[i].xpub,
                      remote |-> info[i].remote, date_create |-> d]}
         /\ (info'[i].source = "stored" /\ info[i].source # "stored") =>
              \E row \in tbl_address : /\ row.xpub # None
                                       /\ row.remote = info[i].remote
                                       /\ row.address = info'[i].address
         /\ info'[i].source = "stored" /\ info[i].source = "stored" =>
              info'[i].address = info[i].address
<1>1. CASE InfoBegin(i)
  <2>1. tbl_address' = tbl_address
    BY <1>1 DEF InfoBegin
  <2> QED
    BY <1>1, <2>1, BeginStep
<1>2. CASE InfoLookup(i)
  <2>1. tbl_address' = tbl_address /\ info[i].source # "stored"
    BY <1>2 DEF InfoLookup, TypeInv, HandlerOK
  <2> QED
    BY <1>2, <2>1, LookupStep
<1>3. CASE InfoLookupFails(i)
  <2>1. /\ UNCHANGED <<config, tbl_xpub, path_idx, tbl_address, now, restarts>>
        /\ info' = [info EXCEPT ![i].pc = "index"] /\ info[i].pc = "lookup"
        /\ faults' \in Nat
    BY <1>3 DEF InfoLookupFails, DbFault, TypeInv, InfoTypeOK
  <2>2. /\ info' \in [Infos -> InfoRecords]
        /\ \A k \in Infos : HandlerOK(k)'
        /\ InfoEffect(i)
        /\ info'[i].source = info[i].source /\ info'[i].address = info[i].address
    BY <2>1, MoveStep
  <2> QED
    BY <2>1, <2>2 DEF TypeInv, InfoTypeOK
<1>4. CASE InfoNextIndex(i)
  <2> DEFINE x == <<info[i].network, config[info[i].network]>>
  <2>1. tbl_address' = tbl_address /\ info[i].pc = "index"
    BY <1>4 DEF InfoNextIndex
  <2>2. CASE /\ x \in tbl_xpub /\ path_idx' = [path_idx EXCEPT ![x] = @ + 1]
             /\ Derive(i, "fresh", x, path_idx[x] + 1)
    BY <1>4, <2>1, <2>2, FreshIndexStep DEF InfoNextIndex
  <2>3. CASE Derive(i, "fallback", None, 0) /\ UNCHANGED path_idx
    <3>1. UNCHANGED <<config, tbl_xpub, tbl_address, now, restarts>> /\ faults' \in Nat
      BY <1>4 DEF InfoNextIndex, TypeInv, InfoTypeOK
    <3> QED
      BY <2>1, <2>3, <3>1, FallbackStep
  <2> QED
    BY <1>4, <2>2, <2>3 DEF InfoNextIndex
<1>5. CASE InfoNextIndexFails(i)
  <2>1. /\ UNCHANGED <<config, tbl_xpub, tbl_address, now, restarts>> /\ faults' \in Nat
        /\ info[i].pc = "index" /\ Derive(i, "fallback", None, 0)
        /\ \/ UNCHANGED path_idx
           \/ path_idx' = [path_idx EXCEPT ![<<info[i].network, config[info[i].network]>>] = @ + 1]
    BY <1>5 DEF InfoNextIndexFails, DbFault, TypeInv, InfoTypeOK
  <2> QED
    BY <2>1, FallbackStep
<1>6. CASE InfoSave(i)
  <2>1. /\ UNCHANGED <<config, tbl_xpub, path_idx, now, faults, restarts>>
        /\ info' = [info EXCEPT ![i].pc = "done"] /\ info[i].pc = "save"
    BY <1>6 DEF InfoSave
  <2>2. /\ info' \in [Infos -> InfoRecords]
        /\ \A k \in Infos : HandlerOK(k)'
        /\ InfoEffect(i)
        /\ info'[i].source = info[i].source /\ info'[i].address = info[i].address
    BY <2>1, MoveStep
  <2>3. tbl_address' \subseteq AddressRows
    BY <1>6 DEF InfoSave, TypeInv, InfoTypeOK, HandlerOK, AddressRows, InfoRecords
  <2>4. \/ tbl_address' = tbl_address
        \/ \E d : tbl_address' = tbl_address \cup
                    {[address |-> info[i].address, xpub |-> info[i].xpub,
                      remote |-> info[i].remote, date_create |-> d]}
    BY <1>6 DEF InfoSave
  <2> QED
    BY <2>1, <2>2, <2>3, <2>4 DEF TypeInv, InfoTypeOK
<1>7. CASE InfoSaveFails(i)
  <2>1. /\ UNCHANGED <<config, tbl_xpub, path_idx, tbl_address, now, restarts>>
        /\ info' = [info EXCEPT ![i].pc = "done"] /\ info[i].pc = "save"
        /\ faults' \in Nat
    BY <1>7 DEF InfoSaveFails, DbFault, TypeInv, InfoTypeOK
  <2>2. /\ info' \in [Infos -> InfoRecords]
        /\ \A k \in Infos : HandlerOK(k)'
        /\ InfoEffect(i)
        /\ info'[i].source = info[i].source /\ info'[i].address = info[i].address
    BY <2>1, MoveStep
  <2> QED
    BY <2>1, <2>2 DEF TypeInv, InfoTypeOK
<1> QED
  BY <1>1, <1>2, <1>3, <1>4, <1>5, <1>6, <1>7 DEF InfoStep

(* init_network only adds rows to tbl_xpub.                                *)
LEMMA XpubsGrow == InfoRestart => tbl_xpub \subseteq tbl_xpub'
<1> SUFFICES ASSUME InfoRestart PROVE tbl_xpub \subseteq tbl_xpub'
  OBVIOUS
<1>1. PICK c \in Configs :
        LET missing == {<<n, c[n]>> : n \in Networks} \ tbl_xpub IN
        \/ tbl_xpub' = tbl_xpub \cup missing
        \/ \E row \in missing : tbl_xpub' = tbl_xpub \cup (missing \ {row})
  BY DEF InfoRestart
<1>2. QED
  BY <1>1

(* A restart keeps what every request was given.                           *)
LEMMA RestartStep ==
  ASSUME TypeInv, InfoRestart
  PROVE  /\ TypeInv'
         /\ \A k \in Infos : /\ info'[k].source = info[k].source
                             /\ info'[k].xpub = info[k].xpub
                             /\ info'[k].idx = info[k].idx
                             /\ info'[k].remote = info[k].remote
                             /\ info'[k].address = info[k].address
<1>1. config' \in Configs /\ tbl_xpub' \subseteq XpubRows /\ faults' \in Nat
  BY DEF InfoRestart, DbFault, XpubRows, TypeInv, InfoTypeOK
<1>2. info' \in [Infos -> InfoRecords]
  BY DEF InfoRestart, InfoRecords, TypeInv, InfoTypeOK
<1>3. \A k \in Infos : /\ info'[k].source = info[k].source
                       /\ info'[k].network = info[k].network
                       /\ info'[k].xpub = info[k].xpub
                       /\ info'[k].idx = info[k].idx
                       /\ info'[k].remote = info[k].remote
                       /\ info'[k].address = info[k].address
                       /\ \/ info'[k].pc = "dropped"
                          \/ info'[k].pc = info[k].pc /\ info[k].pc \notin {"lookup", "index", "save"}
  BY DEF InfoRestart, InfoRecords, TypeInv, InfoTypeOK
<1>4. /\ path_idx' \in [XpubRows -> {-1} \cup Nat]
      /\ \A x \in XpubRows : path_idx[x] <= path_idx'[x]
  BY DEF InfoRestart, TypeInv, InfoTypeOK
<1>6. tbl_xpub \subseteq tbl_xpub'
  BY XpubsGrow
<1>5. ASSUME NEW k \in Infos PROVE HandlerOK(k)'
  <2>1. Fresh(k) => FreshOK(k)'
    BY <1>3, <1>4, <1>6, FreshKept DEF TypeInv, HandlerOK
  <2> QED
    BY <1>3, <2>1 DEF TypeInv, HandlerOK, Fresh
<1> QED
  BY <1>1, <1>2, <1>3, <1>5 DEF InfoRestart, TypeInv, InfoTypeOK

(* Took in the next state, of values that are not primed themselves.       *)
TookNext(remote, address) ==
  \E k \in Infos : Fresh(k)' /\ info'[k].remote = remote /\ info'[k].address = address

(* Once a client has taken an index, it has taken it for good.             *)
LEMMA TookKept ==
  ASSUME NEW i \in Infos, InfoEffect(i),
         NEW STATE remote, NEW STATE address, Took(remote, address)
  PROVE  TookNext(remote, address)
<1>1. PICK k \in Infos : Fresh(k) /\ info[k].remote = remote /\ info[k].address = address
  BY DEF Took
<1>2. Fresh(k)' /\ info'[k].remote = remote /\ info'[k].address = address
  BY <1>1 DEF InfoEffect, Fresh
<1> QED
  BY <1>2 DEF TookNext

(* The invariant is inductive.                                             *)
LEMMA InfoInvStep ==
  ASSUME InfoInv, [InfoNext]_infoVars
  PROVE  InfoInv'
<1> USE DEF InfoInv
<1>1. CASE UNCHANGED infoVars
  <2>1. UNCHANGED <<config, tbl_xpub, path_idx, tbl_address, now, info, faults, restarts>>
    BY <1>1 DEF infoVars
  <2>2. TypeInv'
    BY <2>1 DEF TypeInv, InfoTypeOK, HandlerOK, FreshOK, Fresh, Address, AddressOf
  <2>3. IndexesDiffer'
    BY <2>1 DEF IndexesDiffer, Fresh
  <2>4. RowsTaken' /\ StoredTaken'
    BY <2>1 DEF RowsTaken, StoredTaken, Took, Fresh
  <2> QED
    BY <2>2, <2>3, <2>4
<1>2. CASE Tick
  <2>1. /\ UNCHANGED <<config, tbl_xpub, path_idx, tbl_address, info, faults, restarts>>
        /\ now' \in Nat
    BY <1>2 DEF Tick, TypeInv, InfoTypeOK
  <2>2. InfoTypeOK' /\ \A i \in Infos : HandlerOK(i)'
    BY <2>1 DEF TypeInv, InfoTypeOK, HandlerOK, FreshOK, Fresh, Address, AddressOf
  <2> QED
    BY <2>1, <2>2 DEF TypeInv, IndexesDiffer, RowsTaken, StoredTaken, Took, Fresh
<1>3. CASE InfoRestart
  <2>1. /\ TypeInv'
        /\ \A k \in Infos : /\ info'[k].source = info[k].source
                            /\ info'[k].xpub = info[k].xpub
                            /\ info'[k].idx = info[k].idx
                            /\ info'[k].remote = info[k].remote
                            /\ info'[k].address = info[k].address
    BY <1>3, RestartStep
  <2>2. tbl_address' = tbl_address
    BY <1>3 DEF InfoRestart
  <2>3. IndexesDiffer' /\ RowsTaken' /\ StoredTaken'
    BY <2>1, <2>2 DEF IndexesDiffer, RowsTaken, StoredTaken, Took, Fresh
  <2> QED
    BY <2>1, <2>3
<1>4. ASSUME NEW i \in Infos, InfoStep(i)
      PROVE  InfoInv'
  <2>1. /\ TypeInv'
        /\ InfoEffect(i)
        /\ \/ tbl_address' = tbl_address
           \/ /\ info[i].pc = "save"
              /\ \E d : tbl_address' = tbl_address \cup
                   {[address |-> info[i].address, xpub |-> info[i].xpub,
                     remote |-> info[i].remote, date_create |-> d]}
        /\ (info'[i].source = "stored" /\ info[i].source # "stored") =>
             \E row \in tbl_address : /\ row.xpub # None
                                      /\ row.remote = info[i].remote
                                      /\ row.address = info'[i].address
        /\ info'[i].source = "stored" /\ info[i].source = "stored" =>
             info'[i].address = info[i].address
    BY <1>4, HandlerStep
  <2>2. IndexesDiffer'
    <3>1. ASSUME NEW j \in Infos, j # i, Fresh(i)', Fresh(j)', info'[i].xpub = info'[j].xpub
          PROVE  info'[i].idx # info'[j].idx
      <4>1. Fresh(j) /\ info'[j] = info[j]
        BY <2>1, <3>1 DEF InfoEffect, Fresh
      <4>2. CASE Fresh(i)
        <5>1. info'[i].xpub = info[i].xpub /\ info'[i].idx = info[i].idx
          BY <2>1, <3>1, <4>2 DEF InfoEffect
        <5> QED
          BY <3>1, <4>1, <4>2, <5>1 DEF IndexesDiffer
      <4>3. CASE ~Fresh(i)
        <5>1. info[j].idx \in Nat /\ info[j].idx <= path_idx[info[j].xpub]
          BY <4>1 DEF TypeInv, HandlerOK, FreshOK
        <5>2. info'[i].idx = path_idx[info[j].xpub] + 1 /\ info[j].xpub \in XpubRows
          BY <2>1, <3>1, <4>1, <4>3 DEF InfoEffect
        <5>3. path_idx[info[j].xpub] \in Int
          BY <5>2 DEF TypeInv, InfoTypeOK
        <5> QED
          BY <4>1, <5>1, <5>2, <5>3
      <4> QED
        BY <4>2, <4>3
    <3>2. \A j, k \in Infos : (j # i /\ k # i) => (info'[j] = info[j] /\ info'[k] = info[k])
      BY <2>1 DEF InfoEffect
    <3> QED
      BY <3>1, <3>2 DEF IndexesDiffer, Fresh
  <2>3. RowsTaken'
    <3>1. ASSUME NEW row \in tbl_address, row.xpub # None
          PROVE  TookNext(row.remote, row.address)
      <4>1. Took(row.remote, row.address)
        BY <3>1 DEF RowsTaken
      <4> QED
        BY <2>1, <4>1 DEF InfoEffect, Took, TookNext, Fresh
    <3>2. ASSUME info[i].pc = "save", info[i].xpub # None
          PROVE  TookNext(info[i].remote, info[i].address)
      <4>1. Fresh(i)
        BY <3>2 DEF TypeInv, HandlerOK, Fresh
      <4>2. Took(info[i].remote, info[i].address)
        BY <4>1 DEF Took
      <4> QED
        BY <2>1, <4>2, TookKept
    <3>3. ASSUME NEW row \in tbl_address', row.xpub # None
          PROVE  TookNext(row.remote, row.address)
      BY <2>1, <3>1, <3>2, <3>3
    <3> QED
      BY <3>3 DEF RowsTaken, Took, TookNext, Fresh
  <2>4. StoredTaken'
    <3>1. ASSUME NEW j \in Infos, info'[j].source = "stored"
          PROVE  TookNext(info'[j].remote, info'[j].address)
      <4>1. CASE info[j].source = "stored"
        <5>1. info'[j].remote = info[j].remote /\ info'[j].address = info[j].address
          BY <2>1, <3>1, <4>1 DEF InfoEffect
        <5>2. Took(info[j].remote, info[j].address)
          BY <4>1 DEF StoredTaken
        <5>3. TookNext(info[j].remote, info[j].address)
          BY <2>1, <5>2, TookKept
        <5> QED
          BY <5>1, <5>3
      <4>2. CASE info[j].source # "stored"
        <5>1. j = i
          BY <2>1, <3>1, <4>2 DEF InfoEffect
        <5>2. PICK row \in tbl_address : /\ row.xpub # None
                                         /\ row.remote = info[i].remote
                                         /\ row.address = info'[i].address
          BY <2>1, <3>1, <4>2, <5>1
        <5>3. Took(row.remote, row.address)
          BY <5>2 DEF RowsTaken
        <5>4. TookNext(row.remote, row.address)
          BY <2>1, <5>3 DEF InfoEffect, Took, TookNext, Fresh
        <5>5. info'[j].remote = row.remote /\ info'[j].address = row.address
          BY <2>1, <5>1, <5>2 DEF InfoEffect
        <5> QED
          BY <5>4, <5>5
      <4> QED
        BY <4>1, <4>2
    <3> QED
      BY <3>1 DEF StoredTaken, Took, TookNext, Fresh
  <2> QED
    BY <2>1, <2>2, <2>3, <2>4
<1> QED
  BY <1>1, <1>2, <1>3, <1>4 DEF InfoNext

(* address was derived from the account that row x of tbl_xpub names.      *)
Derived(address, x) ==
  /\ x \in XpubsInUse
  /\ address.hrp = Hrp[x[1]] /\ address.account = Account[x[2]]

(* A fresh address is derived from the account of its xpub.                *)
LEMMA FreshKey ==
  ASSUME TypeInv, NEW i \in Infos, Fresh(i)
  PROVE  /\ Derived(info[i].address, info[i].xpub) /\ info[i].address.idx = info[i].idx
         /\ info[i].xpub[1] = info[i].network
<1>1. PICK c \in Configs : /\ info[i].xpub = <<info[i].network, c[info[i].network]>>
                           /\ info[i].xpub \in tbl_xpub
                           /\ info[i].address = Address(info[i].network, c[info[i].network], info[i].idx)
  BY DEF TypeInv, HandlerOK, FreshOK
<1>2. info[i].network \in XpubNetworks
  BY DEF TypeInv, HandlerOK
<1>3. /\ info[i].address.hrp = Hrp[info[i].network]
      /\ info[i].address.account = Account[c[info[i].network]]
      /\ info[i].address.idx = info[i].idx
  BY <1>1 DEF Address, AddressOf
<1>4. info[i].xpub[1] = info[i].network /\ info[i].xpub[2] = c[info[i].network]
  BY <1>1
<1>5. QED
  BY <1>1, <1>2, <1>3, <1>4 DEF Derived, XpubsInUse

(* Two fresh addresses that are equal go back to one index of one row:     *)
(* they were derived for one request.                                      *)
LEMMA OneTaker ==
  ASSUME InfoInv, DistinctKeychains, NEW k \in Infos, NEW l \in Infos, Fresh(k), Fresh(l),
         info[k].address = info[l].address
  PROVE  k = l
<1>1. /\ info[k].xpub \in XpubsInUse /\ Hrp[info[k].xpub[1]] = info[k].address.hrp
      /\ Account[info[k].xpub[2]] = info[k].address.account
      /\ info[k].idx = info[k].address.idx
  BY FreshKey DEF InfoInv, Derived
<1>2. /\ info[l].xpub \in XpubsInUse /\ Hrp[info[l].xpub[1]] = info[l].address.hrp
      /\ Account[info[l].xpub[2]] = info[l].address.account
      /\ info[l].idx = info[l].address.idx
  BY FreshKey DEF InfoInv, Derived
<1>3. info[k].xpub = info[l].xpub
  BY <1>1, <1>2 DEF DistinctKeychains, SameKeychain
<1> QED
  BY <1>1, <1>2, <1>3 DEF InfoInv, IndexesDiffer

(* The strengthened invariant gives the property: two requests answered    *)
(* with one address go back to one index, taken by one client.             *)
LEMMA InfoInvNotShared ==
  ASSUME InfoInv
  PROVE  AddressNotShared
<1> SUFFICES ASSUME DistinctKeychains, NEW i \in Infos, NEW j \in Infos, FromDatabase(i), FromDatabase(j),
                    info[i].address = info[j].address
             PROVE  info[i].remote = info[j].remote
  BY DEF AddressNotShared
<1>1. ASSUME NEW k \in Infos, FromDatabase(k)
      PROVE  Took(info[k].remote, info[k].address)
  BY <1>1 DEF FromDatabase, InfoInv, StoredTaken, Took, Fresh
<1>2. PICK k \in Infos : Fresh(k) /\ info[k].remote = info[i].remote
                                  /\ info[k].address = info[i].address
  BY <1>1 DEF Took
<1>3. PICK l \in Infos : Fresh(l) /\ info[l].remote = info[j].remote
                                  /\ info[l].address = info[j].address
  BY <1>1 DEF Took
<1>4. k = l
  BY <1>2, <1>3, OneTaker
<1> QED
  BY <1>2, <1>3, <1>4

-----------------------------------------------------------------------------

(* The strengthened invariant holds in every reachable state.              *)
THEOREM InfoInvHolds == InfoSpec => []InfoInv
<1>1. InfoInit => InfoInv
  BY InfoInitInv
<1>2. InfoInv /\ [InfoNext]_infoVars => InfoInv'
  BY InfoInvStep
<1> QED
  BY <1>1, <1>2, PTL DEF InfoSpec

(* The types of echo_info's requests and of the tables it keeps.           *)
THEOREM InfoTypeCorrect == InfoSpec => []InfoTypeOK
<1>1. InfoInv => InfoTypeOK
  BY DEF InfoInv, TypeInv
<1> QED
  BY <1>1, InfoInvHolds, PTL

(* Two clients are never given the same derived address, whatever the      *)
(* interleaving, the failures, the restarts and the number of each, as     *)
(* long as no account has been configured twice, for two networks or in    *)
(* two encodings.                                                          *)
THEOREM AddressesNotShared == InfoSpec => []AddressNotShared
<1>1. InfoInv => AddressNotShared
  BY InfoInvNotShared
<1> QED
  BY <1>1, InfoInvHolds, PTL

-----------------------------------------------------------------------------
(* As long as no call of the database fails.                               *)

(* The row of the xpub a request works with.                               *)
XpubOf(i) == <<info[i].network, config[info[i].network]>>

(* init_network has its row for every network, so no request falls back,   *)
(* and what a finished request was given is in tbl_address, under an xpub  *)
(* of its account.                                                         *)
BookInOrder ==
  /\ \A n \in Networks : <<n, config[n]>> \in tbl_xpub
  /\ \A i \in Infos : info[i].source # "fallback"
  /\ \A i \in Infos : Fresh(i) => info[i].xpub \in tbl_xpub
  /\ \A row \in tbl_address : Derived(row.address, row.xpub)
  /\ \A i \in Infos : FromDatabase(i) =>
       /\ Derived(info[i].address, info[i].xpub) /\ info[i].xpub[1] = info[i].network
       /\ \E row \in tbl_address : row.address = info[i].address

(* A finished request stays as it is, and so do those it came after.       *)
AfterIsDone == \A j \in Infos : \A i \in info[j].after : i \in Infos /\ info[i].pc = "done"

BookInv == InfoInv /\ (faults = 0 => BookInOrder /\ AfterIsDone)

(* What the step of one handler does when no call fails: it begins, finds  *)
(* a row of its client or none, takes an index, or stores its address.     *)
Begins(i) ==
  /\ info[i].pc = "idle" /\ info'[i].source \in {"none", "plain"}
  /\ info'[i].pc \in {"done", "lookup"}
  /\ info'[i].after = {j \in Infos : info[j].pc = "done"}

FindsRow(i) ==
  /\ info[i].pc = "lookup" /\ info'[i].pc = "done" /\ info'[i].source = "stored"
  /\ info'[i].xpub = XpubOf(i)
  /\ \E row \in AddressesOf(info[i].remote, XpubOf(i)) : info'[i].address = row.address

FindsNone(i) ==
  /\ info[i].pc = "lookup" /\ info'[i].pc = "index" /\ info'[i].source = info[i].source
  /\ AddressesOf(info[i].remote, XpubOf(i)) = {}

TakesIndex(i) ==
  /\ info[i].pc = "index"
  /\ \/ info'[i].pc = "done" /\ info'[i].source = info[i].source
     \/ /\ info'[i].pc = "save" /\ info'[i].source = "fresh" /\ XpubOf(i) \in tbl_xpub
        /\ info'[i].xpub = XpubOf(i)
     \/ info'[i].pc = "save" /\ info'[i].source = "fallback" /\ XpubOf(i) \notin tbl_xpub

Stores(i) ==
  /\ info[i].pc = "save" /\ info'[i].pc = "done"
  /\ info'[i].source = info[i].source /\ info'[i].address = info[i].address
  /\ info'[i].xpub = info[i].xpub
  /\ \/ /\ \E row \in tbl_address : row.address = info[i].address
        /\ tbl_address' = tbl_address
     \/ \E d \in Nat : tbl_address' = tbl_address \cup
             {[address |-> info[i].address, xpub |-> info[i].xpub,
               remote |-> info[i].remote, date_create |-> d]}

(* The step of a handler, when no call fails, is one of the five.          *)
LEMMA HandlerMoves ==
  ASSUME TypeInv, NEW i \in Infos, InfoStep(i), faults' = 0
  PROVE  /\ faults = 0 /\ UNCHANGED <<config, tbl_xpub>>
         /\ \A k \in Infos : k # i => info'[k] = info[k]
         /\ info'[i].network = info[i].network /\ info'[i].remote = info[i].remote
         /\ Begins(i) \/ info'[i].after = info[i].after
         /\ Stores(i) \/ tbl_address' = tbl_address
         /\ Begins(i) \/ FindsRow(i) \/ FindsNone(i) \/ TakesIndex(i) \/ Stores(i)
<1>1. /\ info[i] \in InfoRecords /\ info \in [Infos -> InfoRecords] /\ faults \in Nat /\ now \in Nat
      /\ info[i].network \in Networks
  BY DEF TypeInv, InfoTypeOK, InfoRecords
<1>2. ~DbFault
  BY <1>1 DEF DbFault
<1>3. CASE InfoBegin(i)
  <2> DEFINE n == info[i].network
             earlier == {j \in Infos : info[j].pc = "done"}
             refused == [info[i] EXCEPT !.pc = "done", !.after = earlier]
             plain   == [info[i] EXCEPT !.pc = "done", !.after = earlier, !.source = "plain",
                                        !.address = Address(n, config[n], -1)]
             looking == [info[i] EXCEPT !.pc = "lookup", !.after = earlier]
  <2>1. info' = [info EXCEPT ![i] = IF n \notin Enabled THEN refused
                                    ELSE IF n \notin XpubNetworks THEN plain ELSE looking]
    BY <1>3 DEF InfoBegin
  <2>2. info'[i] \in {refused, plain, looking} /\ \A k \in Infos : k # i => info'[k] = info[k]
    BY <1>1, <2>1
  <2>3. info[i].source = "none" /\ info[i].pc = "idle"
    BY <1>3 DEF InfoBegin, TypeInv, HandlerOK
  <2>4. /\ info'[i].source \in {"none", "plain"} /\ info'[i].pc \in {"done", "lookup"}
        /\ info'[i].after = earlier
        /\ info'[i].network = n /\ info'[i].remote = info[i].remote
    BY <1>1, <2>2, <2>3 DEF InfoRecords
  <2>5. QED
    BY <1>3, <2>2, <2>3, <2>4 DEF InfoBegin, Begins
<1>4. CASE InfoLookup(i)
  <2>1. CASE \E row \in AddressesOf(info[i].remote, XpubOf(i)) : AnswerStored(i, XpubOf(i), row.address)
    <3>1. PICK row \in AddressesOf(info[i].remote, XpubOf(i)) : AnswerStored(i, XpubOf(i), row.address)
      BY <2>1
    <3>2. /\ info'[i] = [info[i] EXCEPT !.pc = "done", !.source = "stored", !.xpub = XpubOf(i),
                                        !.address = row.address]
          /\ \A k \in Infos : k # i => info'[k] = info[k]
      BY <1>1, <3>1 DEF AnswerStored, InfoRecords
    <3>3. /\ info'[i].pc = "done" /\ info'[i].source = "stored" /\ info'[i].address = row.address
          /\ info'[i].xpub = XpubOf(i)
          /\ info'[i].network = info[i].network /\ info'[i].remote = info[i].remote
          /\ info'[i].after = info[i].after
      BY <1>1, <3>2 DEF InfoRecords
    <3>4. QED
      BY <1>4, <3>2, <3>3 DEF InfoLookup, FindsRow
  <2>2. CASE AddressesOf(info[i].remote, XpubOf(i)) = {} /\ info' = [info EXCEPT ![i].pc = "index"]
    <3>1. /\ info'[i] = [info[i] EXCEPT !.pc = "index"]
          /\ \A k \in Infos : k # i => info'[k] = info[k]
      BY <1>1, <2>2
    <3>2. QED
      BY <1>1, <1>4, <2>2, <3>1 DEF InfoLookup, FindsNone, InfoRecords
  <2>3. QED
    BY <1>4, <2>1, <2>2 DEF InfoLookup, Latest, XpubOf
<1>5. CASE InfoNextIndex(i)
  <2> DEFINE n == info[i].network
  <2>1. \E source \in {"fresh", "fallback"} : \E xpub, idx :
           /\ Derive(i, source, xpub, idx)
           /\ source = "fresh" => xpub = XpubOf(i) /\ XpubOf(i) \in tbl_xpub
           /\ source = "fallback" => XpubOf(i) \notin tbl_xpub
    BY <1>5 DEF InfoNextIndex, XpubOf
  <2>2. PICK source \in {"fresh", "fallback"} : \E xpub, idx :
           /\ Derive(i, source, xpub, idx)
           /\ source = "fresh" => xpub = XpubOf(i) /\ XpubOf(i) \in tbl_xpub
           /\ source = "fallback" => XpubOf(i) \notin tbl_xpub
    BY <2>1
  <2>3. PICK xpub, idx :
           /\ Derive(i, source, xpub, idx)
           /\ source = "fresh" => xpub = XpubOf(i) /\ XpubOf(i) \in tbl_xpub
           /\ source = "fallback" => XpubOf(i) \notin tbl_xpub
    BY <2>2
  <2> DEFINE failed == [info[i] EXCEPT !.pc = "done", !.xpub = xpub, !.idx = idx]
             derived == [info[i] EXCEPT !.pc = "save", !.source = source, !.xpub = xpub,
                                        !.idx = idx, !.address = Address(n, config[n], idx)]
  <2>4. /\ info'[i] \in {failed, derived}
        /\ \A k \in Infos : k # i => info'[k] = info[k]
    BY <1>1, <2>3 DEF Derive
  <2>5. CASE info'[i] = failed
    <3>1. /\ info'[i].pc = "done" /\ info'[i].source = info[i].source
          /\ info'[i].network = n /\ info'[i].remote = info[i].remote /\ info'[i].after = info[i].after
      BY <1>1, <2>5 DEF InfoRecords
    <3>2. QED
      BY <1>5, <2>4, <3>1 DEF InfoNextIndex, TakesIndex
  <2>6. CASE info'[i] = derived
    <3>1. /\ info'[i].pc = "save" /\ info'[i].source = source /\ info'[i].xpub = xpub
          /\ info'[i].network = n /\ info'[i].remote = info[i].remote /\ info'[i].after = info[i].after
      BY <1>1, <2>6 DEF InfoRecords
    <3>3. TakesIndex(i)
      BY <1>5, <2>3, <3>1 DEF InfoNextIndex, TakesIndex
    <3>4. QED
      BY <1>5, <2>4, <3>1, <3>3 DEF InfoNextIndex
  <2>7. QED
    BY <2>4, <2>5, <2>6
<1>6. CASE InfoSave(i)
  <2>1. /\ info'[i] = [info[i] EXCEPT !.pc = "done"]
        /\ \A k \in Infos : k # i => info'[k] = info[k]
    BY <1>1, <1>6 DEF InfoSave
  <2>2. /\ info'[i].pc = "done" /\ info'[i].source = info[i].source
        /\ info'[i].address = info[i].address /\ info'[i].xpub = info[i].xpub
        /\ info'[i].network = info[i].network /\ info'[i].remote = info[i].remote
        /\ info'[i].after = info[i].after
    BY <1>1, <2>1 DEF InfoRecords
  <2>3. Stores(i)
    BY <1>1, <1>6, <2>2 DEF InfoSave, Stores
  <2>4. QED
    BY <1>6, <2>1, <2>2, <2>3 DEF InfoSave
<1>7. QED
  BY <1>2, <1>3, <1>4, <1>5, <1>6
     DEF InfoStep, InfoLookupFails, InfoNextIndexFails, InfoSaveFails

(* A handler's step keeps the order of the address book.                   *)
LEMMA BookHandlerStep ==
  ASSUME BookInv, NEW i \in Infos, InfoStep(i), faults' = 0
  PROVE  BookInOrder' /\ AfterIsDone'
<1>1. /\ faults = 0 /\ UNCHANGED <<config, tbl_xpub>>
      /\ \A k \in Infos : k # i => info'[k] = info[k]
      /\ info'[i].network = info[i].network /\ info'[i].remote = info[i].remote
      /\ Begins(i) \/ info'[i].after = info[i].after
      /\ Stores(i) \/ tbl_address' = tbl_address
      /\ Begins(i) \/ FindsRow(i) \/ FindsNone(i) \/ TakesIndex(i) \/ Stores(i)
  BY HandlerMoves DEF BookInv, InfoInv
<1>2. TypeInv /\ BookInOrder /\ AfterIsDone
  BY <1>1 DEF BookInv, InfoInv
<1>3. /\ tbl_address \subseteq tbl_address' /\ info[i].pc # "done"
      /\ info[i].pc \in {"idle", "lookup", "index"} => info[i].source = "none"
      /\ info[i].pc = "save" => info[i].source = "fresh"
      /\ info[i].network \in Networks
  BY <1>1, <1>2 DEF Begins, FindsRow, FindsNone, TakesIndex, Stores, TypeInv, HandlerOK, BookInOrder,
                    InfoTypeOK, InfoRecords
<1>4. XpubOf(i) \in tbl_xpub
  BY <1>2, <1>3 DEF BookInOrder, XpubOf
<1>5. \A k \in Infos : info'[k].source # "fallback"
  BY <1>1, <1>2, <1>3, <1>4 DEF BookInOrder, Begins, FindsRow, FindsNone, TakesIndex, Stores
<1>6. ASSUME NEW k \in Infos, info'[k].source = "fresh" PROVE info'[k].xpub \in tbl_xpub
  BY <1>1, <1>2, <1>3, <1>4, <1>6 DEF BookInOrder, Fresh, Begins, FindsRow, FindsNone, TakesIndex, Stores
<1>7. \A row \in tbl_address' : Derived(row.address, row.xpub)
  <2>1. CASE Stores(i)
    <3>1. Derived(info[i].address, info[i].xpub)
      BY <1>2, <1>3, <2>1, FreshKey DEF Stores, Fresh
    <3>2. QED
      BY <1>2, <2>1, <3>1 DEF Stores, BookInOrder
  <2>2. CASE tbl_address' = tbl_address
    BY <1>2, <2>2 DEF BookInOrder
  <2>3. QED
    BY <1>1, <2>1, <2>2
<1>8. ASSUME NEW k \in Infos, FromDatabase(k)'
      PROVE  /\ Derived(info'[k].address, info'[k].xpub) /\ info'[k].xpub[1] = info'[k].network
             /\ \E row \in tbl_address' : row.address = info'[k].address
  <2>1. CASE k # i
    <3>1. FromDatabase(k)
      BY <1>1, <1>8, <2>1 DEF FromDatabase, Answered
    <3>2. QED
      BY <1>1, <1>2, <1>3, <2>1, <3>1 DEF BookInOrder
  <2>2. CASE k = i /\ FindsRow(i)
    <3>1. PICK row \in tbl_address : row.xpub = XpubOf(i) /\ info'[i].address = row.address
      BY <2>2 DEF FindsRow, AddressesOf
    <3>2. Derived(info'[i].address, info'[i].xpub)
      BY <1>2, <2>2, <3>1 DEF FindsRow, BookInOrder
    <3>3. QED
      BY <1>1, <1>3, <2>2, <3>1, <3>2 DEF FindsRow, XpubOf
  <2>3. CASE k = i /\ Stores(i)
    <3>1. /\ info'[k].address = info[i].address
          /\ Derived(info'[k].address, info'[k].xpub) /\ info'[k].xpub[1] = info'[k].network
      BY <1>1, <1>2, <1>3, <2>3, FreshKey DEF Stores, Fresh
    <3>2. CASE \E row \in tbl_address : row.address = info[i].address
      BY <1>3, <3>1, <3>2
    <3>3. CASE \E d \in Nat : tbl_address' = tbl_address \cup
                 {[address |-> info[i].address, xpub |-> info[i].xpub,
                   remote |-> info[i].remote, date_create |-> d]}
      <4>1. PICK d \in Nat : tbl_address' = tbl_address \cup
                 {[address |-> info[i].address, xpub |-> info[i].xpub,
                   remote |-> info[i].remote, date_create |-> d]}
        BY <3>3
      <4>2. [address |-> info[i].address, xpub |-> info[i].xpub,
             remote |-> info[i].remote, date_create |-> d] \in tbl_address'
        BY <4>1
      <4>3. QED
        BY <3>1, <4>2
    <3>4. QED
      BY <2>3, <3>2, <3>3 DEF Stores
  <2>4. CASE k = i /\ (Begins(i) \/ FindsNone(i) \/ TakesIndex(i))
    BY <1>3, <1>8, <2>4 DEF FromDatabase, Answered, Begins, FindsNone, TakesIndex
  <2>5. QED
    BY <1>1, <2>1, <2>2, <2>3, <2>4
<1>9. BookInOrder'
  BY <1>1, <1>2, <1>5, <1>6, <1>7, <1>8 DEF BookInOrder, Fresh, Derived, XpubsInUse
<1>10. AfterIsDone'
  <2> SUFFICES ASSUME NEW j \in Infos, NEW k \in info'[j].after PROVE k \in Infos /\ info'[k].pc = "done"
    BY DEF AfterIsDone
  <2>1. k \in Infos /\ info[k].pc = "done"
    BY <1>1, <1>2 DEF AfterIsDone, Begins
  <2>2. k # i
    BY <1>3, <2>1
  <2>3. QED
    BY <1>1, <2>1, <2>2
<1>11. QED
  BY <1>9, <1>10

(* So does a restart.                                                      *)
LEMMA BookRestartStep ==
  ASSUME BookInv, InfoRestart, faults' = 0
  PROVE  BookInOrder' /\ AfterIsDone'
<1>1. faults \in Nat /\ info \in [Infos -> InfoRecords] /\ TypeInv
  BY DEF BookInv, InfoInv, TypeInv, InfoTypeOK
<1>2. PICK c \in Configs : config' = c /\ faults' = faults
                           /\ tbl_xpub' = tbl_xpub \cup {<<n, c[n]>> : n \in Networks}
  BY <1>1 DEF InfoRestart, DbFault
<1>3. BookInOrder /\ AfterIsDone /\ tbl_address' = tbl_address
  BY <1>2 DEF BookInv, InfoRestart
<1>4. ASSUME NEW k \in Infos
      PROVE  /\ info'[k].source = info[k].source /\ info'[k].xpub = info[k].xpub
             /\ info'[k].address = info[k].address /\ info'[k].after = info[k].after
             /\ info'[k].network = info[k].network
             /\ info'[k].pc \in {info[k].pc, "dropped"}
             /\ info[k].pc = "done" => info'[k].pc = "done"
  <2>1. info[k] \in InfoRecords
    BY <1>1
  <2>2. info'[k] = IF info[k].pc \in {"lookup", "index", "save"}
                   THEN [info[k] EXCEPT !.pc = "dropped"] ELSE info[k]
    BY DEF InfoRestart
  <2>3. CASE info'[k] = [info[k] EXCEPT !.pc = "dropped"] /\ info[k].pc # "done"
    BY <2>1, <2>3 DEF InfoRecords
  <2>4. CASE info'[k] = info[k]
    BY <2>4
  <2>5. QED
    BY <2>2, <2>3, <2>4
<1>5. BookInOrder'
  <2>1. \A n \in Networks : <<n, config'[n]>> \in tbl_xpub'
    BY <1>2
  <2>2. \A k \in Infos : Fresh(k)' => info'[k].xpub \in tbl_xpub'
    BY <1>2, <1>3, <1>4 DEF BookInOrder, Fresh
  <2>3. \A address, x : Derived(address, x) =>
          /\ x \in {y \in tbl_xpub' : y[1] \in XpubNetworks}
          /\ address.hrp = Hrp[x[1]] /\ address.account = Account[x[2]]
    BY <1>2 DEF Derived, XpubsInUse
  <2>4. \A row \in tbl_address' : Derived(row.address, row.xpub)'
    BY <1>3, <2>3 DEF BookInOrder, Derived, XpubsInUse
  <2>5. ASSUME NEW k \in Infos, FromDatabase(k)'
        PROVE  /\ Derived(info[k].address, info[k].xpub)' /\ info'[k].xpub[1] = info'[k].network
               /\ \E row \in tbl_address' : row.address = info'[k].address
    <3>1. FromDatabase(k)
      BY <1>4, <2>5 DEF FromDatabase, Answered
    <3>2. /\ Derived(info[k].address, info[k].xpub) /\ info[k].xpub[1] = info[k].network
          /\ \E row \in tbl_address : row.address = info[k].address
      BY <1>3, <3>1 DEF BookInOrder
    <3>3. QED
      BY <1>3, <1>4, <2>3, <3>2 DEF Derived, XpubsInUse
  <2>6. \A k \in Infos : info'[k].source # "fallback"
    BY <1>3, <1>4 DEF BookInOrder
  <2>7. QED
    BY <2>1, <2>2, <2>4, <2>5, <2>6 DEF BookInOrder
<1>6. AfterIsDone'
  BY <1>3, <1>4 DEF AfterIsDone
<1>7. QED
  BY <1>5, <1>6

(* Every step keeps BookInv.                                               *)
LEMMA BookStep == BookInv /\ [InfoNext]_infoVars => BookInv'
<1> SUFFICES ASSUME BookInv, [InfoNext]_infoVars, faults' = 0 PROVE BookInOrder' /\ AfterIsDone'
  BY InfoInvStep DEF BookInv
<1>1. CASE Tick \/ UNCHANGED infoVars
  <2>1. UNCHANGED <<config, tbl_xpub, tbl_address, info, faults>>
    BY <1>1 DEF Tick, infoVars
  <2>2. BookInOrder /\ AfterIsDone
    BY <2>1 DEF BookInv
  <2>3. QED
    BY <2>1, <2>2 DEF BookInOrder, AfterIsDone, Fresh, FromDatabase, Answered, Derived, XpubsInUse
<1>2. CASE InfoRestart
  BY <1>2, BookRestartStep
<1>3. CASE \E i \in Infos : InfoStep(i)
  BY <1>3, BookHandlerStep
<1>4. QED
  BY <1>1, <1>2, <1>3 DEF InfoNext

(* BookInv is an invariant.                                                *)
LEMMA BookAlways == InfoSpec => []BookInv
<1>1. InfoInit => BookInv
  <2> SUFFICES ASSUME InfoInit PROVE BookInv
    OBVIOUS
  <2>1. \A i \in Infos : /\ info[i].pc = "idle" /\ info[i].source = "none" /\ info[i].after = {}
    BY DEF InfoInit
  <2>2. BookInOrder /\ AfterIsDone
    BY <2>1 DEF InfoInit, BookInOrder, AfterIsDone, Fresh, FromDatabase, Answered
  <2>3. QED
    BY <2>2, InfoInitInv DEF BookInv
<1>2. QED
  BY <1>1, BookStep, PTL DEF InfoSpec

(* An address handed out from the database is one that echo_push finds     *)
(* among the known ones of its key, unless a call of the database failed   *)
(* or the operator has used another encoding of the account.               *)
THEOREM OffersAreRecognised == InfoSpec => []OfferedIsRecognised
<1>1. BookInv => OfferedIsRecognised
  <2> SUFFICES ASSUME BookInv, faults = 0, OneEncoding, NEW i \in Infos, FromDatabase(i),
                      info[i].xpub = XpubOf(i)
               PROVE  info[i].address \in KnownAddresses(config[info[i].network])
    BY DEF OfferedIsRecognised, XpubOf
  <2>1. PICK row \in tbl_address : row.address = info[i].address
    BY DEF BookInv, BookInOrder
  <2>2. Derived(row.address, row.xpub) /\ Derived(info[i].address, info[i].xpub)
    BY DEF BookInv, BookInOrder
  <2>3. row.xpub[2] = info[i].xpub[2]
    BY <2>1, <2>2 DEF OneEncoding, SameKeychain, Derived
  <2>4. row.xpub \in tbl_xpub /\ row.xpub[2] = config[info[i].network]
    BY <2>2, <2>3 DEF Derived, XpubsInUse, XpubOf
  <2>5. row.xpub # None
    BY <2>4, NoneAssumption DEF BookInv, InfoInv, TypeInv, InfoTypeOK, XpubRows
  <2>6. QED
    BY <2>1, <2>4, <2>5 DEF KnownAddresses
<1>2. QED
  BY <1>1, BookAlways, PTL

-----------------------------------------------------------------------------
(* A client that was answered, as long as no call of the database fails.   *)

(* A row carries the xpub of the request that took its index.              *)
RowsOfTakers ==
  \A row \in tbl_address : \E k \in Infos :
    /\ Fresh(k)
    /\ info[k].remote = row.remote /\ info[k].address = row.address /\ info[k].xpub = row.xpub

(* Client and xpub of a finished request lead to a row.                    *)
RowOf(i) ==
  \E row \in tbl_address :
    /\ row.address = info[i].address
    /\ row.remote = info[i].remote
    /\ row.xpub = info[i].xpub

SameClient(i, j) == info[i].remote = info[j].remote

(* A request that goes on to an index came after none of its own client    *)
(* that was answered under the same key, and so it stays once it has one.  *)
NoneBefore(j) ==
  \A i \in info[j].after : (FromDatabase(i) /\ SameClient(i, j)) =>
    /\ info[j].pc = "index" => info[i].xpub # XpubOf(j)
    /\ Fresh(j) => info[i].xpub # info[j].xpub

KeepsInOrder ==
  /\ RowsOfTakers
  /\ \A i \in Infos : FromDatabase(i) => RowOf(i)
  /\ \A j \in Infos : NoneBefore(j)

KeepsInv == BookInv /\ (faults = 0 /\ DistinctKeychains => KeepsInOrder)

(* A handler's step keeps KeepsInOrder.                                    *)
LEMMA KeepsHandlerStep ==
  ASSUME KeepsInv, DistinctKeychains, NEW i \in Infos, InfoStep(i), faults' = 0
  PROVE  KeepsInOrder'
<1>1. /\ faults = 0 /\ UNCHANGED <<config, tbl_xpub>>
      /\ \A k \in Infos : k # i => info'[k] = info[k]
      /\ info'[i].network = info[i].network /\ info'[i].remote = info[i].remote
      /\ Begins(i) \/ info'[i].after = info[i].after
      /\ Stores(i) \/ tbl_address' = tbl_address
      /\ Begins(i) \/ FindsRow(i) \/ FindsNone(i) \/ TakesIndex(i) \/ Stores(i)
  BY HandlerMoves DEF KeepsInv, BookInv, InfoInv
<1>2. TypeInv /\ InfoInv /\ BookInOrder /\ AfterIsDone /\ KeepsInOrder
  BY <1>1 DEF KeepsInv, BookInv, InfoInv
<1>3. /\ info[i].pc # "done" /\ info[i].network \in Networks
      /\ info[i].pc \in {"idle", "lookup", "index"} => info[i].source = "none"
      /\ info[i].pc = "save" => info[i].source = "fresh"
  BY <1>1, <1>2 DEF Begins, FindsRow, FindsNone, TakesIndex, Stores, TypeInv, HandlerOK, BookInOrder,
                    InfoTypeOK, InfoRecords
<1> DEFINE row(d) == [address |-> info[i].address, xpub |-> info[i].xpub,
                      remote |-> info[i].remote, date_create |-> d]
<1>4. tbl_address \subseteq tbl_address'
  BY <1>1 DEF Stores
<1>5. \A k \in Infos : Fresh(k) =>
        /\ Fresh(k)' /\ info'[k].remote = info[k].remote
        /\ info'[k].address = info[k].address /\ info'[k].xpub = info[k].xpub
  BY <1>1, <1>3 DEF Fresh, Begins, FindsRow, FindsNone, TakesIndex, Stores
<1>6. RowsOfTakers'
  <2> SUFFICES ASSUME NEW r \in tbl_address'
               PROVE  \E k \in Infos : /\ Fresh(k)' /\ info'[k].remote = r.remote
                                       /\ info'[k].address = r.address /\ info'[k].xpub = r.xpub
    BY DEF RowsOfTakers, Fresh
  <2>1. CASE r \in tbl_address
    <3>1. PICK k \in Infos : /\ Fresh(k) /\ info[k].remote = r.remote
                             /\ info[k].address = r.address /\ info[k].xpub = r.xpub
      BY <1>2, <2>1 DEF KeepsInOrder, RowsOfTakers
    <3>2. QED
      BY <1>5, <3>1
  <2>2. CASE r \notin tbl_address
    <3>1. Stores(i) /\ \E d \in Nat : r = row(d)
      BY <1>1, <2>2 DEF Stores
    <3>2. Fresh(i)
      BY <1>3, <3>1 DEF Stores, Fresh
    <3>3. r.address = info[i].address /\ r.xpub = info[i].xpub /\ r.remote = info[i].remote
      BY <3>1
    <3>4. QED
      BY <1>5, <3>2, <3>3
  <2>3. QED
    BY <2>1, <2>2
<1>7. ASSUME NEW k \in Infos, FromDatabase(k)' PROVE RowOf(k)'
  <2>1. CASE k # i
    <3>1. FromDatabase(k) /\ info'[k] = info[k]
      BY <1>1, <1>7, <2>1 DEF FromDatabase, Answered
    <3>2. RowOf(k)
      BY <1>2, <3>1 DEF KeepsInOrder
    <3>3. QED
      BY <1>4, <3>1, <3>2 DEF RowOf
  <2>2. CASE k = i /\ FindsRow(i)
    <3>1. PICK r \in tbl_address : /\ r.remote = info[i].remote /\ r.xpub = XpubOf(i)
                                   /\ r.address = info'[i].address
      BY <2>2 DEF FindsRow, AddressesOf
    <3>2. QED
      BY <1>1, <1>4, <2>2, <3>1 DEF RowOf, FindsRow
  <2>3. CASE k = i /\ Stores(i)
    <3>1. Fresh(i) /\ info'[i].address = info[i].address /\ info'[i].xpub = info[i].xpub
      BY <1>3, <2>3 DEF Stores, Fresh
    <3>2. \E r \in tbl_address' : /\ r.address = info[i].address
                                  /\ r.remote = info[i].remote /\ r.xpub = info[i].xpub
      <4>1. CASE \E r \in tbl_address : r.address = info[i].address
        <5>1. PICK r \in tbl_address : r.address = info[i].address
          BY <4>1
        <5>2. PICK l \in Infos : /\ Fresh(l) /\ info[l].remote = r.remote
                                 /\ info[l].address = r.address /\ info[l].xpub = r.xpub
          BY <1>2 DEF KeepsInOrder, RowsOfTakers
        <5>3. l = i
          BY <1>2, <3>1, <5>1, <5>2, OneTaker
        <5>4. QED
          BY <1>4, <5>1, <5>2, <5>3
      <4>2. CASE \E d \in Nat : tbl_address' = tbl_address \cup {row(d)}
        <5>1. PICK d \in Nat : tbl_address' = tbl_address \cup {row(d)}
          BY <4>2
        <5>2. row(d) \in tbl_address'
          BY <5>1
        <5>3. /\ row(d).address = info[i].address /\ row(d).remote = info[i].remote
              /\ row(d).xpub = info[i].xpub
          OBVIOUS
        <5>4. QED
          BY <5>2, <5>3
      <4>3. QED
        BY <2>3, <4>1, <4>2 DEF Stores
    <3>3. QED
      BY <1>1, <2>3, <3>1, <3>2 DEF RowOf
  <2>4. CASE k = i /\ (Begins(i) \/ FindsNone(i) \/ TakesIndex(i))
    BY <1>3, <1>7, <2>4 DEF FromDatabase, Answered, Begins, FindsNone, TakesIndex
  <2>5. QED
    BY <1>1, <2>1, <2>2, <2>3, <2>4
<1>8. ASSUME NEW j \in Infos PROVE NoneBefore(j)'
  <2> SUFFICES ASSUME NEW k \in info'[j].after, FromDatabase(k)', SameClient(k, j)'
               PROVE  /\ info'[j].pc = "index" => info'[k].xpub # XpubOf(j)'
                      /\ Fresh(j)' => info'[k].xpub # info'[j].xpub
    BY DEF NoneBefore
  <2>1. k \in Infos /\ info[k].pc = "done"
    BY <1>1, <1>2 DEF AfterIsDone, Begins
  <2>2. k # i /\ info'[k] = info[k]
    BY <1>1, <1>3, <2>1
  <2>3. FromDatabase(k) /\ SameClient(k, j)
    BY <1>1, <2>1, <2>2 DEF FromDatabase, Answered, SameClient
  <2>4. CASE j # i
    BY <1>1, <1>2, <2>2, <2>3, <2>4 DEF KeepsInOrder, NoneBefore, Fresh, XpubOf
  <2>5. CASE j = i /\ Begins(i)
    BY <2>5 DEF Begins, Fresh
  <2>6. CASE j = i /\ FindsRow(i)
    BY <2>6 DEF FindsRow, Fresh
  <2>7. CASE j = i /\ FindsNone(i)
    <3>1. PICK r \in tbl_address : /\ r.address = info[k].address /\ r.remote = info[k].remote
                                   /\ r.xpub = info[k].xpub
      BY <1>2, <2>1, <2>3 DEF KeepsInOrder, RowOf
    <3>2. r.xpub \in tbl_xpub
      BY <1>2 DEF BookInOrder, Derived, XpubsInUse
    <3>3. info[k].xpub # XpubOf(i)
      <4> SUFFICES ASSUME info[k].xpub = XpubOf(i) PROVE FALSE
        OBVIOUS
      <4>1. r.xpub = XpubOf(i) /\ r.remote = info[i].remote
        BY <2>3, <2>7, <3>1 DEF SameClient
      <4>2. r \in AddressesOf(info[i].remote, XpubOf(i))
        BY <3>2, <4>1 DEF AddressesOf
      <4>3. QED
        BY <2>7, <4>2 DEF FindsNone
    <3>4. ~Fresh(i)'
      BY <1>3, <2>7 DEF FindsNone, Fresh
    <3>5. QED
      BY <1>1, <2>2, <2>7, <3>3, <3>4 DEF XpubOf
  <2>8. CASE j = i /\ TakesIndex(i)
    <3>1. info[k].xpub # XpubOf(i)
      BY <1>1, <1>2, <2>3, <2>8, <2>1 DEF KeepsInOrder, NoneBefore, TakesIndex, Begins
    <3>2. QED
      BY <1>3, <2>2, <2>8, <3>1 DEF TakesIndex, Fresh
  <2>9. CASE j = i /\ Stores(i)
    <3>1. Fresh(i) /\ k \in info[i].after
      BY <1>1, <1>3, <2>9 DEF Stores, Fresh, Begins
    <3>2. QED
      BY <1>2, <2>2, <2>3, <2>9, <3>1 DEF KeepsInOrder, NoneBefore, Stores
  <2>10. QED
    BY <1>1, <2>4, <2>5, <2>6, <2>7, <2>8, <2>9
<1>9. QED
  BY <1>6, <1>7, <1>8 DEF KeepsInOrder

(* A restart drops the requests that are under way and keeps the others.   *)
LEMMA KeepsRestartStep ==
  ASSUME KeepsInv, DistinctKeychains, InfoRestart, faults' = 0
  PROVE  KeepsInOrder'
<1>1. faults = 0
  BY DEF InfoRestart, DbFault, KeepsInv, BookInv, InfoInv, TypeInv, InfoTypeOK
<1>2. TypeInv /\ AfterIsDone /\ KeepsInOrder /\ tbl_address' = tbl_address
  BY <1>1 DEF KeepsInv, BookInv, InfoInv, InfoRestart
<1>3. ASSUME NEW k \in Infos
      PROVE  /\ info'[k].network = info[k].network /\ info'[k].remote = info[k].remote
             /\ info'[k].source = info[k].source /\ info'[k].xpub = info[k].xpub
             /\ info'[k].address = info[k].address /\ info'[k].after = info[k].after
             /\ info'[k].pc # "index" /\ (info'[k].pc = "done" => info[k].pc = "done")
  <2>1. info[k] \in InfoRecords
    BY <1>2 DEF TypeInv, InfoTypeOK
  <2>2. info'[k] = IF info[k].pc \in {"lookup", "index", "save"}
                   THEN [info[k] EXCEPT !.pc = "dropped"] ELSE info[k]
    BY DEF InfoRestart
  <2>3. CASE info'[k] = [info[k] EXCEPT !.pc = "dropped"]
    BY <2>1, <2>3 DEF InfoRecords
  <2>4. CASE info'[k] = info[k] /\ info[k].pc # "index"
    BY <2>4
  <2>5. QED
    BY <2>2, <2>3, <2>4
<1>4. RowsOfTakers'
  BY <1>2, <1>3 DEF KeepsInOrder, RowsOfTakers, Fresh
<1>5. ASSUME NEW k \in Infos, FromDatabase(k)' PROVE RowOf(k)'
  <2>1. FromDatabase(k)
    BY <1>3, <1>5 DEF FromDatabase, Answered
  <2>2. RowOf(k)
    BY <1>2, <2>1 DEF KeepsInOrder
  <2>3. QED
    BY <1>2, <1>3, <2>2 DEF RowOf
<1>6. ASSUME NEW j \in Infos PROVE NoneBefore(j)'
  <2> SUFFICES ASSUME NEW k \in info'[j].after, FromDatabase(k)', SameClient(k, j)', Fresh(j)'
               PROVE  info'[k].xpub # info'[j].xpub
    BY <1>3 DEF NoneBefore
  <2>1. k \in info[j].after /\ k \in Infos
    BY <1>2, <1>3 DEF AfterIsDone
  <2>2. FromDatabase(k) /\ SameClient(k, j) /\ Fresh(j)
    BY <1>3, <2>1 DEF FromDatabase, Answered, SameClient, Fresh
  <2>3. info[k].xpub # info[j].xpub
    BY <1>2, <2>1, <2>2 DEF KeepsInOrder, NoneBefore
  <2>4. QED
    BY <1>3, <2>1, <2>3
<1>7. QED
  BY <1>4, <1>5, <1>6 DEF KeepsInOrder

(* Every step keeps KeepsInv.                                              *)
LEMMA KeepsStep ==
  ASSUME KeepsInv, [InfoNext]_infoVars
  PROVE  KeepsInv'
<1> SUFFICES ASSUME faults' = 0, DistinctKeychains' PROVE KeepsInOrder'
  BY BookStep DEF KeepsInv
<1>a. tbl_xpub \subseteq tbl_xpub'
  BY XpubsGrow DEF InfoNext, Tick, infoVars, InfoStep, InfoBegin, InfoLookup, InfoLookupFails,
                   InfoNextIndex, InfoNextIndexFails, InfoSave, InfoSaveFails
<1>b. DistinctKeychains
  BY <1>a DEF DistinctKeychains, XpubsInUse, SameKeychain
<1>1. CASE Tick \/ UNCHANGED infoVars
  <2>1. UNCHANGED <<config, tbl_xpub, tbl_address, info, faults>>
    BY <1>1 DEF Tick, infoVars
  <2>2. KeepsInOrder
    BY <1>b, <2>1 DEF KeepsInv
  <2>3. QED
    BY <2>1, <2>2 DEF KeepsInOrder, RowsOfTakers, RowOf, NoneBefore, SameClient, Fresh, XpubOf,
                      FromDatabase, Answered
<1>2. CASE InfoRestart
  BY <1>2, <1>b, KeepsRestartStep
<1>3. CASE \E i \in Infos : InfoStep(i)
  BY <1>3, <1>b, KeepsHandlerStep
<1>4. QED
  BY <1>1, <1>2, <1>3 DEF InfoNext

(* A client that comes back is given an address from before, and burns no  *)
(* index, as long as no call of the database fails, the key stays and no   *)
(* account has been configured twice (where one has, save_new_address can  *)
(* meet an address that another row of tbl_xpub has given away).           *)
THEOREM ClientsKeepAddress == InfoSpec => []AnsweredClientKeepsAddress
<1>1. InfoInit => KeepsInv
  <2> SUFFICES ASSUME InfoInit PROVE KeepsInv
    OBVIOUS
  <2>1. \A i \in Infos : /\ info[i].pc = "idle" /\ info[i].source = "none" /\ info[i].after = {}
    BY DEF InfoInit
  <2>2. KeepsInOrder
    BY <2>1 DEF InfoInit, KeepsInOrder, RowsOfTakers, NoneBefore, Fresh, FromDatabase, Answered
  <2>3. BookInOrder /\ AfterIsDone
    BY <2>1 DEF InfoInit, BookInOrder, AfterIsDone, Fresh, FromDatabase, Answered
  <2>4. QED
    BY <2>2, <2>3, InfoInitInv DEF BookInv, KeepsInv
<1>2. KeepsInv => AnsweredClientKeepsAddress
  <2> SUFFICES ASSUME KeepsInv, NEW i \in Infos, NEW j \in Infos, faults = 0, DistinctKeychains,
                      FromDatabase(i), FromDatabase(j), i \in info[j].after, SameClient(i, j),
                      info[i].xpub = info[j].xpub
               PROVE  info[j].source = "stored"
    BY DEF AnsweredClientKeepsAddress, SameClient
  <2>1. NoneBefore(j)
    BY DEF KeepsInv, KeepsInOrder
  <2>2. QED
    BY <2>1 DEF NoneBefore, Fresh, FromDatabase
<1>3. KeepsInv /\ [InfoNext]_infoVars => KeepsInv'
  BY KeepsStep
<1>4. QED
  BY <1>1, <1>2, <1>3, PTL DEF InfoSpec

-----------------------------------------------------------------------------
(* The whole server.                                                       *)

(* A non-empty set of positions has a last one.                            *)
LEMMA LastExists ==
  ASSUME NEW n \in Nat, NEW S \in SUBSET (1..n), S # {}
  PROVE  \E m \in S : \A q \in S : q <= m
<1> DEFINE From(o) == {q \in S : q >= o}
           T == {From(o) : o \in S}
           R == StrictSubsetOrdering(1..n)
<1>1. T \subseteq FiniteSubsetsOf(1..n)
  <2>1. IsFiniteSet(1..n)
    BY FS_Interval
  <2>2. ASSUME NEW o \in S
        PROVE  From(o) \in SUBSET (1..n) /\ IsFiniteSet(From(o))
    <3>1. From(o) \in SUBSET (1..n)
      OBVIOUS
    <3> HIDE DEF From
    <3> QED
      BY <2>1, <3>1, FS_Subset
  <2> QED
    BY <2>2 DEF FiniteSubsetsOf
<1>2. PICK U \in T : \A V \in T : ~(<<V, U>> \in R)
  <2>1. IsWellFoundedOn(R, FiniteSubsetsOf(1..n))
    BY FS_StrictSubsetOrderingWellFounded
  <2>2. T # {}
    <3>1. PICK o \in S : TRUE
      OBVIOUS
    <3>2. From(o) \in T
      BY Zenon
    <3> QED
      BY <3>2, Zenon
  <2> QED
    BY <1>1, <2>1, <2>2, WFMin
<1>3. PICK o \in S : U = From(o)
  OBVIOUS
<1>4. ASSUME NEW q \in S, q > o
      PROVE  FALSE
  <2>1. From(q) \subseteq From(o) /\ From(q) # From(o)
    <3>1. o \in From(o) /\ o \notin From(q)
      BY <1>4
    <3>2. ASSUME NEW r \in S, r >= q
          PROVE  r >= o
      <4>1. r \in Nat /\ q \in Nat /\ o \in Nat
        OBVIOUS
      <4> QED
        BY <1>4, <3>2, <4>1
    <3>3. From(q) \subseteq From(o)
      BY <3>2
    <3> HIDE DEF From
    <3> QED
      BY <3>1, <3>3
  <2>2. From(q) \in SUBSET (1..n) /\ From(o) \in SUBSET (1..n)
    OBVIOUS
  <2>3. <<From(q), From(o)>> \in R
    BY <2>1, <2>2 DEF StrictSubsetOrdering
  <2> QED
    BY <1>2, <1>3, <2>3
<1> QED
  BY <1>4

(* The row of a kept line is well typed.                                   *)
LEMMA NewRowType ==
  ASSUME NEW p \in Pushes, push[p] \in PushRecords, NEW tx \in Txs
  PROVE  NewRow(p, tx) \in TxRows /\ NewRow(p, tx).txid = tx /\ NewRow(p, tx).reqid = p
<1> USE TxsAssumption
<1> DEFINE n == push[p].network
           paying == PayingOutputs(tx, n, push[p].known)
           last == CHOOSE o \in paying : \A q \in paying : q <= o
           out == Outputs[tx][last]
<1>1. n \in Networks /\ Outputs[tx] \in Seq([account : Accounts, idx : {-1} \cup Nat, amount : Nat])
  BY DEF PushRecords
<1>2. paying \subseteq 1..Len(Outputs[tx]) /\ Len(Outputs[tx]) \in Nat
  BY <1>1 DEF PayingOutputs
<1>3. ASSUME paying # {}
      PROVE  AddressOf(n, out.account, out.idx) \in Addresses /\ out.amount \in Nat
  <2>1. last \in paying
    <3>1. \E m \in paying : \A q \in paying : q <= m
      BY <1>2, <1>3, LastExists
    <3> HIDE DEF paying
    <3>2. (CHOOSE o \in paying : \A q \in paying : q <= o) \in paying
      BY <3>1
    <3> QED
      BY <3>2
  <2>2. out \in [account : Accounts, idx : {-1} \cup Nat, amount : Nat]
    <3>1. last \in 1..Len(Outputs[tx])
      BY <1>2, <2>1
    <3> HIDE DEF last
    <3> QED
      BY <1>1, <3>1, ElementOfSeq
  <2> HIDE DEF out
  <2> QED
    BY <1>1, <2>2 DEF AddressOf, Addresses
<1>4. NewRow(p, tx) =
        [txid |-> tx, network |-> n, reqid |-> p,
         our_address |-> IF paying = {} THEN None ELSE AddressOf(n, out.account, out.idx),
         our_fees    |-> IF paying = {} THEN 0 ELSE out.amount]
  BY DEF NewRow
<1> HIDE DEF paying, out
<1> QED
  BY <1>1, <1>3, <1>4 DEF TxRows

-----------------------------------------------------------------------------

(* The lines of a push all stored.                                         *)
AllStored(p) == \A k \in push[p].accepted : Stored(push[p].body[k])

(* The two promises, for one push.                                         *)
Promises(p) ==
  /\ push[p].reply \in {"thx", "already present"} => AllStored(p)
  /\ (\E row \in tbl_tx : row.reqid = p) => AllStored(p)

(* What echo_push knows at each of its awaits.                             *)
PushOK(p) ==
  /\ push[p].accepted \subseteq {k \in 1..Len(push[p].body) : push[p].body[k] \in Txs}
  /\ push[p].pc \in {"idle", "load"} => push[p].accepted = {}
  /\ push[p].pc # "done" => push[p].reply = "none"
  /\ push[p].pc \in {"idle", "load", "check", "insert"} =>
       ~ \E row \in tbl_tx : row.reqid = p
  /\ push[p].pc = "insert" => \A t \in push[p].duplicates : Stored(t)

PushInv == ServerTypeOK /\ \A p \in Pushes : PushOK(p) /\ Promises(p)

(* A step of push p: rows are only added, all of them are p's, and the     *)
(* other pushes keep everything but their rivals.                          *)
PushEffect(p) ==
  /\ tbl_tx \subseteq tbl_tx'
  /\ tbl_tx' \subseteq TxRows
  /\ \A row \in tbl_tx' : row \in tbl_tx \/ row.reqid = p
  /\ \A q \in Pushes : q # p =>
       /\ push'[q].pc = push[q].pc
       /\ push'[q].body = push[q].body
       /\ push'[q].accepted = push[q].accepted
       /\ push'[q].duplicates = push[q].duplicates
       /\ push'[q].reply = push[q].reply

(* A push that a step does not touch keeps what is known of it.            *)
LEMMA PushKept ==
  ASSUME NEW p \in Pushes, PushOK(p), Promises(p),
         tbl_tx \subseteq tbl_tx',
         \A row \in tbl_tx' : row \in tbl_tx \/ row.reqid # p,
         \/ push'[p].pc = push[p].pc
         \/ push'[p].pc = "dropped" /\ Pending(p),
         push'[p].body = push[p].body, push'[p].accepted = push[p].accepted,
         push'[p].duplicates = push[p].duplicates, push'[p].reply = push[p].reply
  PROVE  PushOK(p)' /\ Promises(p)'
<1>1. \A t : Stored(t) => Stored(t)'
  BY DEF Stored, SearchTx
<1>2. AllStored(p) => AllStored(p)'
  BY <1>1 DEF AllStored, Stored, SearchTx
<1>3. \A t \in push[p].duplicates : Stored(t) => Stored(t)'
  BY <1>1
<1> QED
  BY <1>1, <1>2, <1>3 DEF PushOK, Promises, Pending, Stored, SearchTx

(* The lines of a body are parsed: what is kept are transactions of it.    *)
LEMMA ParseOK ==
  ASSUME NEW rec \in PushRecords, NEW known \in SUBSET Addresses
  PROVE  /\ Parse(rec, known) \in PushRecords
         /\ Parse(rec, known).body = rec.body
         /\ Parse(rec, known).accepted \subseteq {k \in 1..Len(rec.body) : rec.body[k] \in Txs}
         /\ \/ /\ Parse(rec, known).pc = "done" /\ Parse(rec, known).accepted = {}
               /\ Parse(rec, known).reply = "error"
            \/ /\ Parse(rec, known).pc = "check" /\ Parse(rec, known).reply = "none"
<1> DEFINE lines == Parsed(rec.body, rec.network, known)
<1>1. lines \subseteq {k \in 1..Len(rec.body) : rec.body[k] \in Txs}
  BY DEF Parsed
<1>2. Len(rec.body) \in Nat
  <2>1. rec.body \in Bodies
    BY DEF PushRecords
  <2>2. rec.body \in Seq(Txs \cup {None})
    BY <2>1, TxsAssumption
  <2> QED
    BY <2>2, LenProperties
<1>3. lines \in SUBSET Nat
  BY <1>1, <1>2
<1>4. Parse(rec, known) =
        [rec EXCEPT !.known = known, !.accepted = lines,
                    !.pc = IF lines = {} THEN "done" ELSE "check",
                    !.reply = IF lines = {} THEN "error" ELSE "none"]
  BY DEF Parse
<1> HIDE DEF lines
<1>5. Parse(rec, known) \in PushRecords
  BY <1>3, <1>4 DEF PushRecords
<1>6. /\ Parse(rec, known).body = rec.body /\ Parse(rec, known).accepted = lines
      /\ Parse(rec, known).pc = IF lines = {} THEN "done" ELSE "check"
      /\ Parse(rec, known).reply = IF lines = {} THEN "error" ELSE "none"
  BY <1>4 DEF PushRecords
<1> QED
  BY <1>1, <1>5, <1>6

(* What a step of push p must show.                                        *)
PushShown(p) == PushEffect(p) /\ ServerTypeOK' /\ PushOK(p)' /\ Promises(p)'

(* echo_push up to its first await.                                        *)
LEMMA PushBeginStep ==
  ASSUME PushInv, NEW p \in Pushes, PushBegin(p)
  PROVE  PushShown(p)
<1> DEFINE n == push[p].network
           others == {q \in Pushes : Pending(q)}
           rec == [push[p] EXCEPT !.rivals = others]
           refused == [rec EXCEPT !.pc = "done", !.reply = "error"]
           loading == [rec EXCEPT !.pc = "load"]
           mine == IF n \notin Enabled THEN refused
                   ELSE IF n \in XpubNetworks THEN loading ELSE Parse(rec, {})
<1>1. push \in [Pushes -> PushRecords] /\ push[p].pc = "idle" /\ UNCHANGED <<tbl_tx, push_faults>>
  BY DEF PushBegin, PushInv, ServerTypeOK
<1>2. push[p] \in PushRecords
  BY <1>1
<1>3. rec \in PushRecords /\ rec.body = push[p].body /\ rec.accepted = push[p].accepted
      /\ rec.reply = push[p].reply /\ rec.duplicates = push[p].duplicates
  BY <1>2 DEF PushRecords
<1>4. push[p].accepted = {} /\ push[p].reply = "none" /\ ~ \E row \in tbl_tx : row.reqid = p
  BY <1>1 DEF PushInv, PushOK
<1>5. push' = [q \in Pushes |->
                IF q = p THEN mine
                ELSE IF q \in others THEN [push[q] EXCEPT !.rivals = @ \cup {p}] ELSE push[q]]
  BY DEF PushBegin
<1>6. mine \in PushRecords /\ mine.body = push[p].body
      /\ mine.accepted \subseteq {k \in 1..Len(push[p].body) : push[p].body[k] \in Txs}
      /\ mine.pc \in {"done", "load", "check"}
      /\ (mine.pc = "load" => mine.accepted = {})
      /\ (mine.pc = "done" => mine.reply = "error")
      /\ (mine.pc # "done" => mine.reply = "none")
  <2>1. CASE mine = refused
    <3>1. refused \in PushRecords /\ refused.body = rec.body /\ refused.accepted = rec.accepted
          /\ refused.pc = "done" /\ refused.reply = "error"
      BY <1>3 DEF PushRecords
    <3> HIDE DEF rec, refused, mine
    <3> QED
      BY <1>3, <1>4, <2>1, <3>1
  <2>2. CASE mine = loading
    <3>1. loading \in PushRecords /\ loading.body = rec.body /\ loading.accepted = rec.accepted
          /\ loading.pc = "load" /\ loading.reply = rec.reply
      BY <1>3 DEF PushRecords
    <3> HIDE DEF rec, loading, mine
    <3> QED
      BY <1>3, <1>4, <2>2, <3>1
  <2>3. CASE mine = Parse(rec, {})
    <3> HIDE DEF rec, mine
    <3>1. {} \in SUBSET Addresses
      OBVIOUS
    <3> QED
      BY <1>3, <2>3, <3>1, ParseOK
  <2> QED
    BY <2>1, <2>2, <2>3
<1> HIDE DEF mine
<1>7. push'[p] = mine
  BY <1>5
<1>8. ASSUME NEW q \in Pushes, q # p
      PROVE  /\ push'[q] \in PushRecords /\ push'[q].pc = push[q].pc
             /\ push'[q].body = push[q].body /\ push'[q].accepted = push[q].accepted
             /\ push'[q].duplicates = push[q].duplicates /\ push'[q].reply = push[q].reply
  <2>1. push'[q] = [push[q] EXCEPT !.rivals = @ \cup {p}] \/ push'[q] = push[q]
    BY <1>5, <1>8
  <2>2. push[q] \in PushRecords
    BY <1>1
  <2>3. CASE push'[q] = [push[q] EXCEPT !.rivals = @ \cup {p}]
    <3>1. push[q].rivals \cup {p} \in SUBSET Pushes
      BY <2>2 DEF PushRecords
    <3> QED
      BY <2>2, <2>3, <3>1 DEF PushRecords
  <2>4. CASE push'[q] = push[q]
    BY <2>2, <2>4
  <2> QED
    BY <2>1, <2>3, <2>4
<1>9. push' \in [Pushes -> PushRecords]
  <2>1. push' = [q \in Pushes |-> push'[q]]
    BY <1>5
  <2>2. \A q \in Pushes : push'[q] \in PushRecords
    BY <1>6, <1>7, <1>8
  <2> QED
    BY <2>1, <2>2
<1>10. ServerTypeOK' /\ PushEffect(p)
  BY <1>1, <1>8, <1>9 DEF ServerTypeOK, PushInv, PushEffect
<1>11. PushOK(p)'
  BY <1>1, <1>4, <1>6, <1>7 DEF PushOK
<1>12. Promises(p)'
  <2>1. push'[p].reply \notin {"thx", "already present"}
    BY <1>6, <1>7
  <2> QED
    BY <1>1, <1>4, <2>1 DEF Promises
<1> QED
  BY <1>10, <1>11, <1>12 DEF PushShown

(* get_all_addresses_by_xpub and the parsing of the lines.                 *)
LEMMA PushLoadStep ==
  ASSUME PushInv, InfoTypeOK, NEW p \in Pushes, PushLoadAddresses(p)
  PROVE  PushShown(p)
<1> DEFINE known == KnownAddresses(config[push[p].network])
           mine == Parse(push[p], known)
<1>1. /\ push \in [Pushes -> PushRecords] /\ push[p].pc = "load"
      /\ UNCHANGED <<tbl_tx, push_faults>>
      /\ push' = [push EXCEPT ![p] = mine]
  BY DEF PushLoadAddresses, PushInv, ServerTypeOK
<1>2. push[p] \in PushRecords
  BY <1>1
<1>3. known \in SUBSET Addresses
  BY DEF KnownAddresses, InfoTypeOK, AddressRows
<1>4. push[p].reply = "none" /\ ~ \E row \in tbl_tx : row.reqid = p
  BY <1>1 DEF PushInv, PushOK
<1>5. /\ mine \in PushRecords /\ mine.body = push[p].body
      /\ mine.accepted \subseteq {k \in 1..Len(push[p].body) : push[p].body[k] \in Txs}
      /\ \/ mine.pc = "done" /\ mine.accepted = {} /\ mine.reply = "error"
         \/ mine.pc = "check" /\ mine.reply = "none"
  BY <1>2, <1>3, ParseOK
<1> HIDE DEF mine
<1>6. push' \in [Pushes -> PushRecords] /\ push'[p] = mine
      /\ \A q \in Pushes : q # p => push'[q] = push[q]
  BY <1>1, <1>5
<1>7. ServerTypeOK' /\ PushEffect(p)
  BY <1>1, <1>6 DEF ServerTypeOK, PushInv, PushEffect
<1>8. PushOK(p)' /\ Promises(p)'
  BY <1>1, <1>4, <1>5, <1>6 DEF PushOK, Promises
<1> QED
  BY <1>7, <1>8 DEF PushShown

(* check_duplicate_txids.                                                  *)
LEMMA PushCheckStep ==
  ASSUME PushInv, NEW p \in Pushes, PushCheckDuplicates(p)
  PROVE  PushShown(p)
<1> DEFINE txids == {push[p].body[k] : k \in push[p].accepted}
           present == {t \in txids : SearchTx(t) # {}}
           answered == [push[p] EXCEPT !.pc = "done", !.reply = "already present"]
           inserting == [push[p] EXCEPT !.pc = "insert", !.duplicates = present]
<1>1. /\ push \in [Pushes -> PushRecords] /\ push[p] \in PushRecords /\ push[p].pc = "check"
      /\ UNCHANGED <<tbl_tx, push_faults>>
      /\ \/ txids \subseteq present /\ push' = [push EXCEPT ![p] = answered]
         \/ push' = [push EXCEPT ![p] = inserting]
  BY DEF PushCheckDuplicates, PushInv, ServerTypeOK, Reply
<1>2. /\ push[p].accepted \subseteq {k \in 1..Len(push[p].body) : push[p].body[k] \in Txs}
      /\ push[p].reply = "none" /\ ~ \E row \in tbl_tx : row.reqid = p
  BY <1>1 DEF PushInv, PushOK
<1>3. present \in SUBSET Txs /\ \A t \in present : Stored(t)
  BY <1>2 DEF Stored
<1>4. CASE txids \subseteq present /\ push' = [push EXCEPT ![p] = answered]
  <2>1. /\ answered \in PushRecords /\ answered.pc = "done" /\ answered.body = push[p].body
        /\ answered.accepted = push[p].accepted
    BY <1>1 DEF PushRecords
  <2> HIDE DEF answered
  <2>2. push' \in [Pushes -> PushRecords] /\ push'[p] = answered
        /\ \A q \in Pushes : q # p => push'[q] = push[q]
    BY <1>1, <1>4, <2>1
  <2>3. ServerTypeOK' /\ PushEffect(p)
    BY <1>1, <2>2 DEF ServerTypeOK, PushInv, PushEffect
  <2>4. AllStored(p)'
    BY <1>1, <1>3, <1>4, <2>1, <2>2 DEF AllStored, Stored, SearchTx
  <2>5. PushOK(p)' /\ Promises(p)'
    BY <1>2, <2>1, <2>2, <2>4 DEF PushOK, Promises
  <2> QED
    BY <2>3, <2>5 DEF PushShown
<1>5. CASE push' = [push EXCEPT ![p] = inserting]
  <2>1. /\ inserting \in PushRecords /\ inserting.pc = "insert" /\ inserting.body = push[p].body
        /\ inserting.accepted = push[p].accepted /\ inserting.reply = push[p].reply
        /\ inserting.duplicates = present
    BY <1>1, <1>3 DEF PushRecords
  <2> HIDE DEF inserting
  <2>2. push' \in [Pushes -> PushRecords] /\ push'[p] = inserting
        /\ \A q \in Pushes : q # p => push'[q] = push[q]
    BY <1>1, <1>5, <2>1
  <2>3. ServerTypeOK' /\ PushEffect(p)
    BY <1>1, <2>2 DEF ServerTypeOK, PushInv, PushEffect
  <2>4. \A t \in push'[p].duplicates : Stored(t)'
    BY <1>1, <1>3, <2>1, <2>2 DEF Stored, SearchTx
  <2> HIDE DEF present
  <2>5. PushOK(p)' /\ Promises(p)'
    BY <1>1, <1>2, <2>1, <2>2, <2>4 DEF PushOK, Promises
  <2> QED
    BY <2>3, <2>5 DEF PushShown
<1> QED
  BY <1>1, <1>4, <1>5

(* The batch is written: afterwards every kept line is stored, by this     *)
(* push or, for the lines the duplicate check found, by an earlier one.    *)
LEMMA WriteStep ==
  ASSUME PushInv, NEW p \in Pushes, push[p].pc = "insert",
         tbl_tx' = tbl_tx \cup {NewRow(p, push[p].body[k]) : k \in NewLines(p)},
         NEW reply \in {"thx", "error"}, Reply(p, reply), push_faults' \in Nat
  PROVE  PushShown(p)
<1> DEFINE answered == [push[p] EXCEPT !.pc = "done", !.reply = reply]
<1>1. /\ push \in [Pushes -> PushRecords] /\ push[p] \in PushRecords
      /\ push' = [push EXCEPT ![p] = answered]
  BY DEF PushInv, ServerTypeOK, Reply
<1>2. /\ push[p].accepted \subseteq {k \in 1..Len(push[p].body) : push[p].body[k] \in Txs}
      /\ \A t \in push[p].duplicates : Stored(t)
  BY DEF PushInv, PushOK
<1>3. \A k \in NewLines(p) : /\ NewRow(p, push[p].body[k]) \in TxRows
                             /\ NewRow(p, push[p].body[k]).txid = push[p].body[k]
                             /\ NewRow(p, push[p].body[k]).reqid = p
  BY <1>1, <1>2, NewRowType DEF NewLines
<1>4. /\ answered \in PushRecords /\ answered.pc = "done" /\ answered.body = push[p].body
      /\ answered.accepted = push[p].accepted
  BY <1>1 DEF PushRecords
<1> HIDE DEF answered
<1>5. push' \in [Pushes -> PushRecords] /\ push'[p] = answered
      /\ \A q \in Pushes : q # p => push'[q] = push[q]
  BY <1>1, <1>4
<1>6. tbl_tx' \subseteq TxRows /\ tbl_tx \subseteq tbl_tx'
      /\ \A row \in tbl_tx' : row \in tbl_tx \/ row.reqid = p
  BY <1>3 DEF PushInv, ServerTypeOK
<1>7. ServerTypeOK' /\ PushEffect(p)
  BY <1>5, <1>6 DEF ServerTypeOK, PushInv, PushEffect
<1>8. AllStored(p)'
  <2>1. ASSUME NEW k \in push[p].accepted
        PROVE  \E row \in tbl_tx' : row.txid = push[p].body[k]
    <3>1. CASE k \in NewLines(p)
      BY <1>3, <3>1
    <3>2. CASE push[p].body[k] \in push[p].duplicates
      BY <1>2, <1>6, <3>2 DEF Stored, SearchTx
    <3> QED
      BY <3>1, <3>2 DEF NewLines
  <2> QED
    BY <1>4, <1>5, <2>1 DEF AllStored, Stored, SearchTx
<1>9. PushOK(p)' /\ Promises(p)'
  BY <1>2, <1>4, <1>5, <1>8 DEF PushOK, Promises
<1> QED
  BY <1>7, <1>9 DEF PushShown

(* A push ends with an error and writes nothing.                           *)
LEMMA ErrorStep ==
  ASSUME PushInv, NEW p \in Pushes, Pending(p), Reply(p, "error"),
         UNCHANGED tbl_tx, push_faults' \in Nat
  PROVE  PushShown(p)
<1> DEFINE answered == [push[p] EXCEPT !.pc = "done", !.reply = "error"]
<1>1. /\ push \in [Pushes -> PushRecords] /\ push[p] \in PushRecords
      /\ push' = [push EXCEPT ![p] = answered]
  BY DEF PushInv, ServerTypeOK, Reply
<1>2. /\ push[p].accepted \subseteq {k \in 1..Len(push[p].body) : push[p].body[k] \in Txs}
      /\ ~ \E row \in tbl_tx : row.reqid = p
  BY DEF PushInv, PushOK, Pending
<1>3. /\ answered \in PushRecords /\ answered.pc = "done" /\ answered.body = push[p].body
      /\ answered.accepted = push[p].accepted /\ answered.reply = "error"
  BY <1>1 DEF PushRecords
<1> HIDE DEF answered
<1>4. push' \in [Pushes -> PushRecords] /\ push'[p] = answered
      /\ \A q \in Pushes : q # p => push'[q] = push[q]
  BY <1>1, <1>3
<1>5. ServerTypeOK' /\ PushEffect(p)
  BY <1>4 DEF ServerTypeOK, PushInv, PushEffect
<1>6. PushOK(p)' /\ Promises(p)'
  BY <1>2, <1>3, <1>4 DEF PushOK, Promises
<1> QED
  BY <1>5, <1>6 DEF PushShown

(* One step of one push.                                                   *)
LEMMA PushStepShown ==
  ASSUME PushInv, InfoTypeOK, NEW p \in Pushes, PushStep(p)
  PROVE  PushShown(p)
<1>0. push_faults \in Nat
  BY DEF PushInv, ServerTypeOK
<1>1. CASE PushBegin(p)
  BY <1>1, PushBeginStep
<1>2. CASE PushLoadAddresses(p)
  BY <1>2, PushLoadStep
<1>3. CASE PushCheckDuplicates(p)
  BY <1>3, PushCheckStep
<1>4. CASE PushInsert(p)
  <2>1. push[p].pc = "insert" /\ Pending(p) /\ push_faults' \in Nat
    BY <1>0, <1>4 DEF PushInsert, Pending
  <2>2. CASE Reply(p, "error") /\ UNCHANGED tbl_tx
    BY <2>1, <2>2, ErrorStep
  <2>3. CASE /\ tbl_tx' = tbl_tx \cup {NewRow(p, push[p].body[k]) : k \in NewLines(p)}
             /\ Reply(p, "thx")
    BY <2>1, <2>3, WriteStep
  <2> QED
    BY <1>4, <2>2, <2>3 DEF PushInsert
<1>5. CASE PushFails(p)
  <2>1. Pending(p) /\ push_faults' \in Nat /\ Reply(p, "error")
    BY <1>0, <1>5 DEF PushFails, PushFault
  <2>2. CASE UNCHANGED tbl_tx
    BY <2>1, <2>2, ErrorStep
  <2>3. CASE /\ push[p].pc = "insert"
             /\ tbl_tx' = tbl_tx \cup {NewRow(p, push[p].body[k]) : k \in NewLines(p)}
    BY <2>1, <2>3, WriteStep
  <2> QED
    BY <1>5, <2>2, <2>3 DEF PushFails
<1> QED
  BY <1>1, <1>2, <1>3, <1>4, <1>5 DEF PushStep

(* The invariant holds at the start.                                       *)
LEMMA PushInitInv == PushInit => PushInv
<1> SUFFICES ASSUME PushInit PROVE PushInv
  OBVIOUS
<1>1. push \in [Pushes -> PushRecords]
  BY DEF PushInit, PushRecords
<1>2. \A p \in Pushes : push[p].pc = "idle" /\ push[p].reply = "none" /\ push[p].accepted = {}
  BY DEF PushInit
<1> QED
  BY <1>1, <1>2 DEF PushInit, PushInv, ServerTypeOK, PushOK, Promises

(* The invariant is inductive, given the types of the address book.        *)
LEMMA PushInvStep ==
  ASSUME PushInv, InfoTypeOK, [ServerNext]_serverVars
  PROVE  PushInv'
<1>1. CASE UNCHANGED pushVars
  <2>1. tbl_tx' = tbl_tx /\ push' = push /\ push_faults' = push_faults
    BY <1>1 DEF pushVars
  <2>2. ASSUME NEW p \in Pushes
        PROVE  PushOK(p)' /\ Promises(p)'
    <3>1. PushOK(p)'
      BY <2>1 DEF PushInv, PushOK, Stored, SearchTx
    <3>2. Promises(p)'
      BY <2>1 DEF PushInv, Promises, AllStored, Stored, SearchTx
    <3> QED
      BY <3>1, <3>2
  <2> QED
    BY <2>1, <2>2 DEF PushInv, ServerTypeOK
<1>2. ASSUME NEW p \in Pushes, PushStep(p)
      PROVE  PushInv'
  <2>1. PushShown(p)
    BY <1>2, PushStepShown
  <2>2. ASSUME NEW q \in Pushes, q # p
        PROVE  PushOK(q)' /\ Promises(q)'
    <3>1. /\ PushOK(q) /\ Promises(q) /\ tbl_tx \subseteq tbl_tx'
          /\ \A row \in tbl_tx' : row \in tbl_tx \/ row.reqid # q
          /\ push'[q].pc = push[q].pc /\ push'[q].body = push[q].body
          /\ push'[q].accepted = push[q].accepted
          /\ push'[q].duplicates = push[q].duplicates /\ push'[q].reply = push[q].reply
      BY <2>1, <2>2 DEF PushInv, PushShown, PushEffect
    <3> QED
      BY <3>1, PushKept
  <2> QED
    BY <2>1, <2>2 DEF PushInv, PushShown
<1>3. CASE Restart
  <2>1. push \in [Pushes -> PushRecords] /\ UNCHANGED <<tbl_tx, push_faults>>
    BY <1>3 DEF Restart, PushInv, ServerTypeOK
  <2>2. \A p \in Pushes :
          push'[p] = IF Pending(p) THEN [push[p] EXCEPT !.pc = "dropped"] ELSE push[p]
    BY <1>3 DEF Restart
  <2>3. push' \in [Pushes -> PushRecords]
    <3>1. ASSUME NEW p \in Pushes
          PROVE  push'[p] \in PushRecords
      <4>1. push[p] \in PushRecords
        BY <2>1
      <4> QED
        BY <2>2, <4>1 DEF PushRecords
    <3>2. push' = [p \in Pushes |-> push'[p]]
      BY <1>3 DEF Restart
    <3> QED
      BY <3>1, <3>2
  <2>4. ASSUME NEW p \in Pushes
        PROVE  PushOK(p)' /\ Promises(p)'
    <3>1. /\ push'[p].pc = push[p].pc \/ (push'[p].pc = "dropped" /\ Pending(p))
          /\ push'[p].body = push[p].body /\ push'[p].accepted = push[p].accepted
          /\ push'[p].duplicates = push[p].duplicates /\ push'[p].reply = push[p].reply
      BY <2>1, <2>2 DEF PushRecords
    <3>2. PushOK(p) /\ Promises(p) /\ tbl_tx \subseteq tbl_tx'
          /\ \A row \in tbl_tx' : row \in tbl_tx \/ row.reqid # p
      BY <2>1 DEF PushInv
    <3> QED
      BY <3>1, <3>2, PushKept
  <2> QED
    BY <2>1, <2>3, <2>4 DEF PushInv, ServerTypeOK
<1> QED
  BY <1>1, <1>2, <1>3 DEF ServerNext, serverVars

-----------------------------------------------------------------------------

(* As far as /info is concerned, the whole server is its address book:     *)
(* pushes never touch it.                                                  *)
THEOREM ServerHasAddressBook == ServerSpec => InfoSpec
<1>1. ServerInit => InfoInit
  BY DEF ServerInit
<1>2. [ServerNext]_serverVars => [InfoNext]_infoVars
  <2> SUFFICES ASSUME [ServerNext]_serverVars PROVE [InfoNext]_infoVars
    OBVIOUS
  <2>1. CASE Tick \/ \E i \in Infos : InfoStep(i)
    BY <2>1 DEF InfoNext
  <2>2. CASE UNCHANGED infoVars
    BY <2>2
  <2>3. CASE Restart
    BY <2>3 DEF Restart, InfoNext
  <2> QED
    BY <2>1, <2>2, <2>3 DEF ServerNext, serverVars
<1> QED
  BY <1>1, <1>2, PTL DEF ServerSpec, InfoSpec

(* So the whole server never gives two clients one derived address, as     *)
(* long as no account has been configured twice.                           *)
THEOREM ServerAddressesNotShared == ServerSpec => []AddressNotShared
  BY ServerHasAddressBook, AddressesNotShared, PTL

(* A push stores all the lines it accepted or none, and answers            *)
(* accordingly (echo_push): PushInv is an invariant of the whole server.   *)
THEOREM PushInvHolds == ServerSpec => []PushInv
<1>1. ServerInit => PushInv
  BY PushInitInv DEF ServerInit
<1>2. PushInv /\ InfoTypeOK /\ [ServerNext]_serverVars => PushInv'
  BY PushInvStep
<1>3. ServerSpec => []InfoTypeOK
  BY ServerHasAddressBook, InfoTypeCorrect, PTL
<1> QED
  BY <1>1, <1>2, <1>3, PTL DEF ServerSpec

(* The types of echo_push's requests and of the rows it writes.            *)
THEOREM ServerTypeCorrect == ServerSpec => []ServerTypeOK
<1>1. PushInv => ServerTypeOK
  BY DEF PushInv
<1> QED
  BY <1>1, PushInvHolds, PTL

(* A client told "thx" or "already present" finds every recognised line of *)
(* its body from then on.                                                  *)
THEOREM ThxIsKept == ServerSpec => []ThxMeansStored
<1>1. PushInv => ThxMeansStored
  BY DEF PushInv, Promises, AllStored, ThxMeansStored
<1> QED
  BY <1>1, PushInvHolds, PTL

(* The lines of a push are stored all together or not at all.              *)
THEOREM BatchesAreWhole == ServerSpec => []BatchStoredWhole
<1>1. PushInv => BatchStoredWhole
  <2> SUFFICES ASSUME PushInv, NEW row \in tbl_tx
               PROVE  \A k \in push[row.reqid].accepted : Stored(push[row.reqid].body[k])
    BY DEF BatchStoredWhole
  <2>1. row.reqid \in Pushes
    BY DEF PushInv, ServerTypeOK, TxRows
  <2> QED
    BY <2>1 DEF PushInv, Promises, AllStored
<1> QED
  BY <1>1, PushInvHolds, PTL

-----------------------------------------------------------------------------
(* What one step of one push does, in terms of its record: it begins, reads*)
(* the known addresses, checks for duplicates, inserts, or fails.          *)
KeepsLines(p) ==
  /\ push'[p].known = push[p].known /\ push'[p].accepted = push[p].accepted
  /\ push'[p].rivals = push[p].rivals

Writes(p) == tbl_tx' = tbl_tx \cup {NewRow(p, push[p].body[k]) : k \in NewLines(p)}

Begun(p) ==
  /\ push[p].pc = "idle" /\ push'[p].pc \in {"done", "load", "check"}
  /\ push'[p].rivals = {q \in Pushes : Pending(q)}
  /\ push'[p].pc # "check" => push'[p].accepted = {}
  /\ push'[p].pc = "check" =>
       /\ push'[p].known = {} /\ push'[p].reply = "none"
       /\ push'[p].accepted = Parsed(push[p].body, push[p].network, {})

Loaded(p) ==
  /\ push[p].pc = "load" /\ push'[p].pc \in {"done", "check"}
  /\ push'[p].rivals = push[p].rivals
  /\ push'[p].pc = "done" => push'[p].accepted = {}
  /\ push'[p].pc = "check" =>
       /\ push'[p].known = KnownAddresses(config[push[p].network]) /\ push'[p].reply = "none"
       /\ push'[p].accepted = Parsed(push[p].body, push[p].network, push'[p].known)

Checked(p) ==
  /\ push[p].pc = "check" /\ KeepsLines(p)
  /\ \/ push'[p].pc = "done" /\ push'[p].reply = "already present"
     \/ /\ push'[p].pc = "insert" /\ push'[p].reply = "none"
        /\ \A k \in push[p].accepted :
             push[p].body[k] \notin push'[p].duplicates => ~Stored(push[p].body[k])

Inserted(p) ==
  /\ push[p].pc = "insert" /\ push'[p].pc = "done" /\ KeepsLines(p)
  /\ \/ KeyConflict(p) /\ push'[p].reply = "error" /\ UNCHANGED tbl_tx
     \/ push'[p].reply = "thx" /\ Writes(p)

Failed(p) ==
  /\ Pending(p) /\ push'[p].pc = "done" /\ KeepsLines(p)
  /\ push_faults' # 0
  /\ UNCHANGED tbl_tx \/ (push[p].pc = "insert" /\ Writes(p))

(* Another push only learns that p has begun while it was in flight.       *)
PushUntouched(p, q) ==
  /\ push'[q].pc = push[q].pc /\ push'[q].network = push[q].network
  /\ push'[q].body = push[q].body /\ push'[q].known = push[q].known
  /\ push'[q].accepted = push[q].accepted /\ push'[q].duplicates = push[q].duplicates
  /\ push'[q].reply = push[q].reply
  /\ push[q].rivals \subseteq push'[q].rivals
  /\ (Begun(p) /\ Pending(q)) => p \in push'[q].rivals

(* Parse fills in the fields of the record it is given.                    *)
LEMMA ParseFields ==
  ASSUME NEW rec \in PushRecords, NEW known \in SUBSET Addresses
  PROVE  /\ Parse(rec, known).network = rec.network /\ Parse(rec, known).body = rec.body
         /\ Parse(rec, known).known = known /\ Parse(rec, known).rivals = rec.rivals
         /\ Parse(rec, known).accepted = Parsed(rec.body, rec.network, known)
         /\ \/ /\ Parse(rec, known).pc = "done" /\ Parse(rec, known).accepted = {}
            \/ /\ Parse(rec, known).pc = "check" /\ Parse(rec, known).reply = "none"
<1> DEFINE lines == Parsed(rec.body, rec.network, known)
<1>1. Parse(rec, known) =
        [rec EXCEPT !.known = known, !.accepted = lines,
                    !.pc = IF lines = {} THEN "done" ELSE "check",
                    !.reply = IF lines = {} THEN "error" ELSE "none"]
  BY DEF Parse
<1> HIDE DEF lines
<1>2. /\ Parse(rec, known).network = rec.network /\ Parse(rec, known).body = rec.body
      /\ Parse(rec, known).known = known /\ Parse(rec, known).rivals = rec.rivals
      /\ Parse(rec, known).accepted = lines
      /\ Parse(rec, known).pc = IF lines = {} THEN "done" ELSE "check"
      /\ Parse(rec, known).reply = IF lines = {} THEN "error" ELSE "none"
  BY <1>1 DEF PushRecords
<1> QED
  BY <1>2 DEF lines

(* The step of a push is one of the five.                                  *)
LEMMA PushMoves ==
  ASSUME PushInv, InfoTypeOK, NEW p \in Pushes, PushStep(p)
  PROVE  /\ push'[p].network = push[p].network /\ push'[p].body = push[p].body
         /\ \A q \in Pushes : q # p => PushUntouched(p, q)
         /\ \/ (Begun(p) \/ Loaded(p) \/ Checked(p)) /\ UNCHANGED tbl_tx
            \/ Inserted(p) \/ Failed(p)
<1>1. /\ push \in [Pushes -> PushRecords] /\ push[p] \in PushRecords /\ push_faults \in Nat
      /\ push[p].pc \in {"idle", "load"} => push[p].accepted = {}
      /\ push[p].pc # "done" => push[p].reply = "none"
  BY DEF PushInv, ServerTypeOK, PushOK
<1>2. CASE PushBegin(p)
  <2> DEFINE n == push[p].network
             others == {q \in Pushes : Pending(q)}
             rec == [push[p] EXCEPT !.rivals = others]
             refused == [rec EXCEPT !.pc = "done", !.reply = "error"]
             loading == [rec EXCEPT !.pc = "load"]
             mine == IF n \notin Enabled THEN refused
                     ELSE IF n \in XpubNetworks THEN loading ELSE Parse(rec, {})
  <2>1. push[p].pc = "idle" /\ UNCHANGED tbl_tx
    BY <1>2 DEF PushBegin
  <2>2. /\ rec \in PushRecords /\ rec.body = push[p].body /\ rec.network = n
        /\ rec.accepted = {} /\ rec.rivals = others
    BY <1>1, <2>1 DEF PushRecords
  <2>3. push' = [q \in Pushes |->
                  IF q = p THEN mine
                  ELSE IF q \in others THEN [push[q] EXCEPT !.rivals = @ \cup {p}] ELSE push[q]]
    BY <1>2 DEF PushBegin
  <2>4. /\ mine.network = n /\ mine.body = push[p].body /\ mine.rivals = others
        /\ mine.pc \in {"done", "load", "check"}
        /\ mine.pc # "check" => mine.accepted = {}
        /\ mine.pc = "check" => /\ mine.known = {} /\ mine.reply = "none"
                                /\ mine.accepted = Parsed(push[p].body, n, {})
    <3>1. CASE mine = refused
      <4>1. /\ refused.network = rec.network /\ refused.body = rec.body /\ refused.pc = "done"
            /\ refused.rivals = rec.rivals /\ refused.accepted = rec.accepted
        BY <2>2 DEF PushRecords
      <4> HIDE DEF rec, refused, mine, others
      <4>2. QED
        BY <2>2, <3>1, <4>1
    <3>2. CASE mine = loading
      <4>1. /\ loading.network = rec.network /\ loading.body = rec.body /\ loading.pc = "load"
            /\ loading.rivals = rec.rivals /\ loading.accepted = rec.accepted
        BY <2>2 DEF PushRecords
      <4> HIDE DEF rec, loading, mine, others
      <4>2. QED
        BY <2>2, <3>2, <4>1
    <3>3. CASE mine = Parse(rec, {})
      <4> HIDE DEF rec, mine, others
      <4>1. {} \in SUBSET Addresses
        OBVIOUS
      <4>2. QED
        BY <2>2, <3>3, <4>1, ParseFields
    <3>4. QED
      BY <3>1, <3>2, <3>3
  <2> HIDE DEF mine
  <2>5. push'[p] = mine
    BY <2>3
  <2>6. Begun(p)
    BY <2>1, <2>4, <2>5 DEF Begun
  <2>7. ASSUME NEW q \in Pushes, q # p PROVE PushUntouched(p, q)
    <3>1. push'[q] = IF Pending(q) THEN [push[q] EXCEPT !.rivals = @ \cup {p}] ELSE push[q]
      BY <2>3, <2>7
    <3>2. push[q] \in PushRecords
      BY <1>1
    <3>3. CASE Pending(q)
      BY <3>1, <3>2, <3>3 DEF PushRecords, PushUntouched
    <3>4. CASE ~Pending(q)
      BY <3>1, <3>4 DEF PushUntouched
    <3>5. QED
      BY <3>3, <3>4
  <2>8. QED
    BY <2>1, <2>4, <2>5, <2>6, <2>7
<1>3. ASSUME NEW mine, push' = [push EXCEPT ![p] = mine], push[p].pc # "idle"
      PROVE  push'[p] = mine /\ \A q \in Pushes : q # p => PushUntouched(p, q)
  BY <1>1, <1>3 DEF PushUntouched, Begun
<1>4. CASE PushLoadAddresses(p)
  <2> DEFINE known == KnownAddresses(config[push[p].network])
  <2>1. /\ push[p].pc = "load" /\ UNCHANGED tbl_tx
        /\ push' = [push EXCEPT ![p] = Parse(push[p], known)]
    BY <1>4 DEF PushLoadAddresses
  <2>2. known \in SUBSET Addresses
    BY DEF KnownAddresses, InfoTypeOK, AddressRows
  <2> HIDE DEF known
  <2>3. /\ push'[p] = Parse(push[p], known)
        /\ \A q \in Pushes : q # p => PushUntouched(p, q)
    BY <1>3, <2>1
  <2>4. /\ push'[p].network = push[p].network /\ push'[p].body = push[p].body
        /\ push'[p].known = known /\ push'[p].rivals = push[p].rivals
        /\ push'[p].accepted = Parsed(push[p].body, push[p].network, known)
        /\ \/ push'[p].pc = "done" /\ push'[p].accepted = {}
           \/ push'[p].pc = "check" /\ push'[p].reply = "none"
    BY <1>1, <2>2, <2>3, ParseFields
  <2>5. Loaded(p)
    BY <2>1, <2>4 DEF Loaded, known
  <2>6. QED
    BY <2>1, <2>3, <2>4, <2>5
<1>5. CASE PushCheckDuplicates(p)
  <2> DEFINE txids == {push[p].body[k] : k \in push[p].accepted}
             present == {t \in txids : SearchTx(t) # {}}
             answered == [push[p] EXCEPT !.pc = "done", !.reply = "already present"]
             inserting == [push[p] EXCEPT !.pc = "insert", !.duplicates = present]
  <2>1. /\ push[p].pc = "check" /\ UNCHANGED tbl_tx
        /\ push' = [push EXCEPT ![p] = answered] \/ push' = [push EXCEPT ![p] = inserting]
    BY <1>1, <1>5 DEF PushCheckDuplicates, Reply
  <2>2. /\ push'[p] \in {answered, inserting}
        /\ \A q \in Pushes : q # p => PushUntouched(p, q)
    BY <1>3, <2>1
  <2>3. CASE push'[p] = answered
    BY <1>1, <2>1, <2>2, <2>3 DEF PushRecords, Checked, KeepsLines
  <2>4. CASE push'[p] = inserting
    <3>1. \A k \in push[p].accepted : push[p].body[k] \notin present => ~Stored(push[p].body[k])
      BY DEF Stored
    <3> HIDE DEF present
    <3>2. /\ push'[p].network = push[p].network /\ push'[p].body = push[p].body
          /\ push'[p].pc = "insert" /\ push'[p].reply = "none" /\ KeepsLines(p)
          /\ push'[p].duplicates = present
      BY <1>1, <2>1, <2>4 DEF PushRecords, KeepsLines
    <3>3. QED
      BY <2>1, <2>2, <3>1, <3>2 DEF Checked
  <2>5. QED
    BY <2>2, <2>3, <2>4
<1>6. ASSUME NEW text, Reply(p, text), push[p].pc # "idle"
      PROVE  /\ push'[p].network = push[p].network /\ push'[p].body = push[p].body
             /\ push'[p].pc = "done" /\ push'[p].reply = text /\ KeepsLines(p)
             /\ \A q \in Pushes : q # p => PushUntouched(p, q)
  <2> DEFINE mine == [push[p] EXCEPT !.pc = "done", !.reply = text]
  <2>1. push' = [push EXCEPT ![p] = mine]
    BY <1>1, <1>6 DEF Reply
  <2>2. /\ mine.network = push[p].network /\ mine.body = push[p].body /\ mine.pc = "done"
        /\ mine.reply = text /\ mine.known = push[p].known
        /\ mine.accepted = push[p].accepted /\ mine.rivals = push[p].rivals
    BY <1>1 DEF PushRecords
  <2> HIDE DEF mine
  <2>3. QED
    BY <1>3, <1>6, <2>1, <2>2 DEF KeepsLines
<1>7. CASE PushInsert(p)
  <2>1. push[p].pc = "insert"
    BY <1>7 DEF PushInsert
  <2>2. CASE KeyConflict(p) /\ Reply(p, "error") /\ UNCHANGED tbl_tx
    BY <1>6, <2>1, <2>2 DEF Inserted
  <2>3. CASE Writes(p) /\ Reply(p, "thx")
    BY <1>6, <2>1, <2>3 DEF Inserted
  <2>4. QED
    BY <1>7, <2>2, <2>3 DEF PushInsert, Writes
<1>8. CASE PushFails(p)
  <2>1. /\ Pending(p) /\ push_faults' # 0 /\ Reply(p, "error")
        /\ UNCHANGED tbl_tx \/ (push[p].pc = "insert" /\ Writes(p))
    BY <1>1, <1>8 DEF PushFails, PushFault, Writes
  <2>2. QED
    BY <1>6, <2>1 DEF Failed, Pending
<1>9. QED
  BY <1>2, <1>4, <1>5, <1>7, <1>8 DEF PushStep

-----------------------------------------------------------------------------
(* The rows pay the server: between the awaits a push relies on addresses  *)
(* that stay in the table and on a configuration that stays in force.      *)
LinesPay(p) ==
  push[p].pc \in {"check", "insert"} =>
    /\ push[p].known \subseteq {r.address : r \in tbl_address}
    /\ \A k \in push[p].accepted :
         \/ FixedFee[push[p].network] = 0
         \/ PayingOutputs(push[p].body[k], push[p].network, push[p].known) # {}

RowPays(row) ==
  \/ FixedFee[row.network] = 0
  \/ /\ row.our_fees >= FixedFee[row.network]
     /\ \E o \in 1..Len(Outputs[row.txid]) :
          LET out == Outputs[row.txid][o] IN
          /\ row.our_address = AddressOf(row.network, out.account, out.idx)
          /\ row.our_fees = out.amount
     /\ IF row.network \in XpubNetworks
        THEN row.our_address \in {r.address : r \in tbl_address}
        ELSE \E c \in Configs : row.our_address = Address(row.network, c[row.network], -1)

PaysInv == (\A p \in Pushes : LinesPay(p)) /\ \A row \in tbl_tx : RowPays(row)

(* Two pushes in flight know of each other, and a line that has appeared   *)
(* in the table since the duplicate check was stored by one of them.       *)
MutualRivals ==
  \A p, q \in Pushes : (p # q /\ Pending(p) /\ Pending(q)) => q \in push[p].rivals

LateRows(p) ==
  push[p].pc = "insert" => \A k \in NewLines(p) : \A row \in SearchTx(push[p].body[k]) :
    row.reqid \in push[p].rivals

RejectedByRival(p) ==
  (/\ push[p].reply = "error" /\ push[p].accepted # {} /\ push_faults = 0
   /\ \A j, k \in push[p].accepted : push[p].body[j] = push[p].body[k] => j = k)
  => \E q \in push[p].rivals : \E k \in push[p].accepted : \E row \in tbl_tx :
       row.txid = push[p].body[k] /\ row.reqid = q

RivalInv == MutualRivals /\ \A p \in Pushes : LateRows(p) /\ RejectedByRival(p)

(* The row of a line that pays names the last output that does.            *)
LEMMA NewRowPays ==
  ASSUME InfoTypeOK, NEW p \in Pushes, push[p] \in PushRecords, NEW tx \in Txs,
         push[p].known \subseteq {r.address : r \in tbl_address},
         \/ FixedFee[push[p].network] = 0
         \/ PayingOutputs(tx, push[p].network, push[p].known) # {}
  PROVE  RowPays(NewRow(p, tx))
<1> USE TxsAssumption
<1> DEFINE n == push[p].network
           paying == PayingOutputs(tx, n, push[p].known)
           last == CHOOSE o \in paying : \A q \in paying : q <= o
           out == Outputs[tx][last]
<1>1. n \in Networks /\ Outputs[tx] \in Seq([account : Accounts, idx : {-1} \cup Nat, amount : Nat])
  BY DEF PushRecords
<1>2. paying \subseteq 1..Len(Outputs[tx]) /\ Len(Outputs[tx]) \in Nat
  BY <1>1 DEF PayingOutputs
<1>3. /\ NewRow(p, tx).txid = tx /\ NewRow(p, tx).network = n
      /\ NewRow(p, tx).our_address = (IF paying = {} THEN None ELSE AddressOf(n, out.account, out.idx))
      /\ NewRow(p, tx).our_fees = (IF paying = {} THEN 0 ELSE out.amount)
  BY DEF NewRow
<1>4. CASE FixedFee[n] = 0
  BY <1>3, <1>4 DEF RowPays
<1>5. CASE paying # {}
  <2>1. last \in paying
    <3>1. \E m \in paying : \A q \in paying : q <= m
      BY <1>2, <1>5, LastExists
    <3> HIDE DEF paying
    <3>2. (CHOOSE o \in paying : \A q \in paying : q <= o) \in paying
      BY <3>1
    <3> QED
      BY <3>2
  <2> HIDE DEF last
  <2>2. PaysUs(out, n, push[p].known) /\ last \in 1..Len(Outputs[tx])
    BY <1>2, <2>1 DEF PayingOutputs
  <2>3. /\ out.amount >= FixedFee[n]
        /\ n \in XpubNetworks => AddressOf(n, out.account, out.idx) \in {r.address : r \in tbl_address}
        /\ n \notin XpubNetworks => AddressOf(n, out.account, out.idx) = Address(n, config[n], -1)
    BY <2>2 DEF PaysUs
  <2>4. config \in Configs
    BY DEF InfoTypeOK
  <2>5. /\ NewRow(p, tx).our_address = AddressOf(n, Outputs[tx][last].account, Outputs[tx][last].idx)
        /\ NewRow(p, tx).our_fees = Outputs[tx][last].amount
    BY <1>3, <1>5
  <2>6. \E o \in 1..Len(Outputs[tx]) :
          /\ NewRow(p, tx).our_address = AddressOf(n, Outputs[tx][o].account, Outputs[tx][o].idx)
          /\ NewRow(p, tx).our_fees = Outputs[tx][o].amount
    BY <2>2, <2>5
  <2> HIDE DEF paying
  <2>7. IF n \in XpubNetworks
        THEN NewRow(p, tx).our_address \in {r.address : r \in tbl_address}
        ELSE \E c \in Configs : NewRow(p, tx).our_address = Address(n, c[n], -1)
    BY <2>3, <2>4, <2>5
  <2>8. NewRow(p, tx).our_fees >= FixedFee[n]
    BY <2>3, <2>5
  <2> HIDE DEF out, n
  <2>9. QED
    BY <1>3, <2>6, <2>7, <2>8 DEF RowPays
<1>6. QED
  BY <1>4, <1>5

(* A row goes on paying an address of the table, which only grows.         *)
LEMMA RowsStillPay ==
  ASSUME NEW row, RowPays(row), tbl_address \subseteq tbl_address'
  PROVE  RowPays(row)'
  BY DEF RowPays, Address

(* /info changes no configuration and deletes no address.                  *)
LEMMA BookMoves ==
  ASSUME Tick \/ \E i \in Infos : InfoStep(i)
  PROVE  config' = config /\ tbl_address \subseteq tbl_address'
  BY DEF Tick, InfoStep, InfoBegin, InfoLookup, InfoLookupFails, InfoNextIndex,
         InfoNextIndexFails, InfoSave, InfoSaveFails

(* The lines of a push go on paying while its record and the configuration *)
(* stay as they are.                                                       *)
LEMMA LinesStillPay ==
  ASSUME NEW p \in Pushes, LinesPay(p), config' = config, tbl_address \subseteq tbl_address',
         push'[p].pc \in {push[p].pc, "insert"}, push'[p].pc = "insert" => push[p].pc \in {"check", "insert"},
         push'[p].network = push[p].network, push'[p].body = push[p].body,
         push'[p].known = push[p].known, push'[p].accepted = push[p].accepted
  PROVE  LinesPay(p)'
<1> SUFFICES ASSUME push'[p].pc \in {"check", "insert"}
             PROVE  /\ push'[p].known \subseteq {r.address : r \in tbl_address'}
                    /\ \A k \in push'[p].accepted :
                         \/ FixedFee[push'[p].network] = 0
                         \/ PayingOutputs(push[p].body[k], push[p].network, push[p].known)' # {}
  BY DEF LinesPay
<1>1. push[p].pc \in {"check", "insert"}
  OBVIOUS
<1>2. \A k \in push[p].accepted : PayingOutputs(push[p].body[k], push[p].network, push[p].known)'
                                  = PayingOutputs(push[p].body[k], push[p].network, push[p].known)
  BY DEF PayingOutputs, PaysUs, Address
<1>3. QED
  BY <1>1, <1>2 DEF LinesPay

(* A step of a push keeps PaysInv.                                         *)
LEMMA PaysPushStep ==
  ASSUME PushInv, InfoTypeOK, PaysInv, NEW p \in Pushes, PushStep(p), UNCHANGED infoVars
  PROVE  PaysInv'
<1>1. config' = config /\ tbl_address' = tbl_address
  BY DEF infoVars
<1>2. /\ push'[p].network = push[p].network /\ push'[p].body = push[p].body
      /\ \A q \in Pushes : q # p => PushUntouched(p, q)
      /\ \/ (Begun(p) \/ Loaded(p) \/ Checked(p)) /\ UNCHANGED tbl_tx
         \/ Inserted(p) \/ Failed(p)
  BY PushMoves
<1>3. ASSUME NEW q \in Pushes, q # p PROVE LinesPay(q)'
  <2>1. PushUntouched(p, q) /\ LinesPay(q)
    BY <1>2, <1>3 DEF PaysInv
  <2>2. QED
    BY <1>1, <2>1, LinesStillPay DEF PushUntouched
<1>4. LinesPay(p)'
  <2> SUFFICES ASSUME push'[p].pc \in {"check", "insert"} PROVE LinesPay(p)'
    BY DEF LinesPay
  <2>1. ASSUME push'[p].accepted = Parsed(push[p].body, push[p].network, push'[p].known)
        PROVE  \A k \in push'[p].accepted :
                 \/ FixedFee[push'[p].network] = 0
                 \/ PayingOutputs(push[p].body[k], push[p].network, push[p].known)' # {}
    BY <1>1, <1>2, <2>1 DEF Parsed, PayingOutputs, PaysUs, Address
  <2>2. CASE Begun(p)
    <3>1. push'[p].accepted = Parsed(push[p].body, push[p].network, push'[p].known)
          /\ push'[p].known = {}
      BY <2>2 DEF Begun
    <3>2. QED
      BY <2>1, <3>1 DEF LinesPay
  <2>3. CASE Loaded(p)
    <3>1. /\ push'[p].accepted = Parsed(push[p].body, push[p].network, push'[p].known)
          /\ push'[p].known = KnownAddresses(config[push[p].network])
      BY <2>3 DEF Loaded
    <3>2. push'[p].known \subseteq {r.address : r \in tbl_address'}
      BY <1>1, <3>1 DEF KnownAddresses
    <3>3. QED
      BY <2>1, <3>1, <3>2 DEF LinesPay
  <2>4. CASE Checked(p)
    <3>1. LinesPay(p)
      BY DEF PaysInv
    <3>2. QED
      BY <1>1, <1>2, <2>4, <3>1, LinesStillPay DEF Checked, KeepsLines
  <2>5. QED
    BY <1>2, <2>2, <2>3, <2>4 DEF Inserted, Failed
<1>5. ASSUME NEW row \in tbl_tx' PROVE RowPays(row)'
  <2>1. CASE row \in tbl_tx
    <3>1. RowPays(row)
      BY <2>1 DEF PaysInv
    <3>2. QED
      BY <1>1, <3>1, RowsStillPay
  <2>2. CASE row \notin tbl_tx
    <3>1. push[p].pc = "insert" /\ Writes(p)
      BY <1>2, <1>5, <2>2 DEF Inserted, Failed
    <3>2. PICK k \in NewLines(p) : row = NewRow(p, push[p].body[k])
      BY <1>5, <2>2, <3>1 DEF Writes
    <3>3. k \in push[p].accepted /\ push[p].body[k] \in Txs /\ push[p] \in PushRecords
      BY <3>2 DEF NewLines, PushInv, PushOK, ServerTypeOK
    <3>4. /\ push[p].known \subseteq {r.address : r \in tbl_address}
          /\ \/ FixedFee[push[p].network] = 0
             \/ PayingOutputs(push[p].body[k], push[p].network, push[p].known) # {}
      BY <3>1, <3>3 DEF PaysInv, LinesPay
    <3>5. RowPays(NewRow(p, push[p].body[k]))
      BY <3>3, <3>4, NewRowPays
    <3>6. RowPays(row)
      BY <3>2, <3>5
    <3>7. QED
      BY <1>1, <3>6, RowsStillPay
  <2>3. QED
    BY <2>1, <2>2
<1>6. QED
  BY <1>3, <1>4, <1>5 DEF PaysInv

(* So does every step of the server.                                       *)
LEMMA PaysStep ==
  ASSUME PushInv, InfoTypeOK, PaysInv, [ServerNext]_serverVars
  PROVE  PaysInv'
<1>1. CASE (Tick \/ \E i \in Infos : InfoStep(i)) /\ UNCHANGED pushVars
  <2>1. /\ config' = config /\ tbl_address \subseteq tbl_address'
        /\ push' = push /\ tbl_tx' = tbl_tx
    BY <1>1, BookMoves DEF pushVars
  <2>2. ASSUME NEW q \in Pushes PROVE LinesPay(q)'
    <3>1. LinesPay(q)
      BY DEF PaysInv
    <3>2. QED
      BY <2>1, <3>1, LinesStillPay
  <2>3. ASSUME NEW row \in tbl_tx' PROVE RowPays(row)'
    <3>1. RowPays(row)
      BY <2>1, <2>3 DEF PaysInv
    <3>2. QED
      BY <2>1, <3>1, RowsStillPay
  <2>4. QED
    BY <2>2, <2>3 DEF PaysInv
<1>2. CASE (\E p \in Pushes : PushStep(p)) /\ UNCHANGED infoVars
  BY <1>2, PaysPushStep
<1>3. CASE Restart
  <2>1. tbl_address' = tbl_address /\ tbl_tx' = tbl_tx
    BY <1>3 DEF Restart, InfoRestart
  <2>2. ASSUME NEW q \in Pushes PROVE push'[q].pc \notin {"check", "insert"}
    <3>1. push'[q] = IF Pending(q) THEN [push[q] EXCEPT !.pc = "dropped"] ELSE push[q]
      BY <1>3 DEF Restart
    <3>2. push[q] \in PushRecords
      BY DEF PushInv, ServerTypeOK
    <3>3. QED
      BY <3>1, <3>2 DEF Pending, PushRecords
  <2>3. ASSUME NEW row \in tbl_tx' PROVE RowPays(row)'
    <3>1. RowPays(row)
      BY <2>1, <2>3 DEF PaysInv
    <3>2. QED
      BY <2>1, <3>1, RowsStillPay
  <2>4. QED
    BY <2>2, <2>3 DEF PaysInv, LinesPay
<1>4. CASE UNCHANGED serverVars
  <2>1. config' = config /\ tbl_address' = tbl_address /\ push' = push /\ tbl_tx' = tbl_tx
    BY <1>4 DEF serverVars, infoVars, pushVars
  <2>2. ASSUME NEW q \in Pushes PROVE LinesPay(q)'
    <3>1. LinesPay(q)
      BY DEF PaysInv
    <3>2. QED
      BY <2>1, <3>1, LinesStillPay
  <2>3. ASSUME NEW row \in tbl_tx' PROVE RowPays(row)'
    <3>1. RowPays(row)
      BY <2>1, <2>3 DEF PaysInv
    <3>2. QED
      BY <2>1, <3>1, RowsStillPay
  <2>4. QED
    BY <2>2, <2>3 DEF PaysInv
<1>5. QED
  BY <1>1, <1>2, <1>3, <1>4 DEF ServerNext

(* Every stored row pays this server the fee of its network, though the    *)
(* addresses were read two awaits before the row was written.              *)
THEOREM StoredRowsPay == ServerSpec => []StoredPaysUs
<1>1. ServerInit => PaysInv
  <2> SUFFICES ASSUME ServerInit PROVE PaysInv
    OBVIOUS
  <2>1. tbl_tx = {} /\ \A q \in Pushes : push[q].pc = "idle"
    BY DEF ServerInit, PushInit
  <2>2. QED
    BY <2>1 DEF PaysInv, LinesPay
<1>2. PushInv /\ InfoTypeOK /\ PaysInv /\ [ServerNext]_serverVars => PaysInv'
  BY PaysStep
<1>3. PaysInv => StoredPaysUs
  BY DEF PaysInv, RowPays, StoredPaysUs
<1>4. ServerSpec => []InfoTypeOK
  BY ServerHasAddressBook, InfoTypeCorrect, PTL
<1>5. QED
  BY <1>1, <1>2, <1>3, <1>4, PushInvHolds, PTL DEF ServerSpec

-----------------------------------------------------------------------------
(* Only a rival makes the server refuse a push.                            *)

(* A step of a push keeps RivalInv.                                        *)
LEMMA RivalPushStep ==
  ASSUME PushInv, InfoTypeOK, RivalInv, NEW p \in Pushes, PushStep(p)
  PROVE  RivalInv'
<1>1. /\ push'[p].network = push[p].network /\ push'[p].body = push[p].body
      /\ \A q \in Pushes : q # p => PushUntouched(p, q)
      /\ \/ (Begun(p) \/ Loaded(p) \/ Checked(p)) /\ UNCHANGED tbl_tx
         \/ Inserted(p) \/ Failed(p)
  BY PushMoves
<1>2. PushShown(p)
  BY PushStepShown
<1>3. /\ tbl_tx \subseteq tbl_tx'
      /\ \A row \in tbl_tx' : row \in tbl_tx \/ (row.reqid = p /\ push[p].pc = "insert")
  BY <1>1, <1>2 DEF PushShown, PushEffect, Inserted, Failed
<1>4. push_faults \in Nat /\ (push_faults' = 0 => push_faults = 0)
  <2>1. push_faults \in Nat
    BY DEF PushInv, ServerTypeOK
  <2>2. push_faults' = push_faults \/ push_faults' = push_faults + 1
    BY DEF PushStep, PushBegin, PushLoadAddresses, PushCheckDuplicates, PushInsert, PushFails, PushFault
  <2>3. QED
    BY <2>1, <2>2
<1>5. \A q \in Pushes : push[q].pc # "done" => push[q].reply = "none"
  BY DEF PushInv, PushOK
<1>6. MutualRivals'
  <2> SUFFICES ASSUME NEW q \in Pushes, NEW r \in Pushes, q # r, Pending(q)', Pending(r)'
               PROVE  r \in push'[q].rivals
    BY DEF MutualRivals
  <2>1. CASE q # p /\ r # p
    BY <1>1, <2>1 DEF RivalInv, MutualRivals, PushUntouched, Pending
  <2>2. CASE q = p
    <3>1. Pending(r)
      BY <1>1, <2>2 DEF PushUntouched, Pending
    <3>2. CASE Begun(p)
      BY <2>2, <3>1, <3>2 DEF Begun
    <3>3. CASE Loaded(p) \/ Checked(p)
      BY <2>2, <3>1, <3>3 DEF Loaded, Checked, KeepsLines, Pending, RivalInv, MutualRivals
    <3>4. QED
      BY <1>1, <2>2, <3>2, <3>3 DEF Inserted, Failed, Pending
  <2>3. CASE r = p
    <3>1. Pending(q) /\ PushUntouched(p, q)
      BY <1>1, <2>3 DEF PushUntouched, Pending
    <3>2. CASE Begun(p)
      BY <2>3, <3>1, <3>2 DEF PushUntouched
    <3>3. CASE Loaded(p) \/ Checked(p)
      BY <2>3, <3>1, <3>3 DEF Loaded, Checked, Pending, PushUntouched, RivalInv, MutualRivals
    <3>4. QED
      BY <1>1, <2>3, <3>2, <3>3 DEF Inserted, Failed, Pending
  <2>4. QED
    BY <2>1, <2>2, <2>3
<1>7. ASSUME NEW q \in Pushes PROVE LateRows(q)'
  <2> SUFFICES ASSUME push'[q].pc = "insert", NEW k \in NewLines(q)',
                      NEW row \in tbl_tx', row.txid = push'[q].body[k]
               PROVE  row.reqid \in push'[q].rivals
    BY DEF LateRows, SearchTx
  <2>1. CASE q # p
    <3>1. PushUntouched(p, q) /\ push[q].pc = "insert" /\ k \in NewLines(q)
      BY <1>1, <2>1 DEF PushUntouched, NewLines
    <3>2. CASE row \in tbl_tx
      <4>1. row \in SearchTx(push[q].body[k])
        BY <3>1, <3>2 DEF SearchTx, PushUntouched
      <4>2. QED
        BY <3>1, <4>1 DEF RivalInv, LateRows, PushUntouched
    <3>3. CASE row.reqid = p /\ push[p].pc = "insert"
      BY <2>1, <3>1, <3>3 DEF RivalInv, MutualRivals, Pending, PushUntouched
    <3>4. QED
      BY <1>3, <3>2, <3>3
  <2>2. CASE q = p
    <3>1. Checked(p) /\ UNCHANGED tbl_tx
      BY <1>1, <2>2 DEF Begun, Loaded, Inserted, Failed
    <3>2. ~Stored(push[p].body[k])
      BY <1>1, <2>2, <3>1 DEF Checked, KeepsLines, NewLines
    <3>3. row \in SearchTx(push[p].body[k])
      BY <1>1, <2>2, <3>1 DEF SearchTx
    <3>4. QED
      BY <3>2, <3>3 DEF Stored
  <2>3. QED
    BY <2>1, <2>2
<1>8. ASSUME NEW q \in Pushes PROVE RejectedByRival(q)'
  <2> SUFFICES ASSUME push'[q].reply = "error", push'[q].accepted # {}, push_faults' = 0,
                      \A j, k \in push'[q].accepted :
                        push'[q].body[j] = push'[q].body[k] => j = k
               PROVE  \E r \in push'[q].rivals : \E k \in push'[q].accepted : \E row \in tbl_tx' :
                        row.txid = push'[q].body[k] /\ row.reqid = r
    BY DEF RejectedByRival
  <2>1. CASE q # p
    <3>1. PushUntouched(p, q)
      BY <1>1, <2>1
    <3>2. \E r \in push[q].rivals : \E k \in push[q].accepted : \E row \in tbl_tx :
            row.txid = push[q].body[k] /\ row.reqid = r
      BY <1>4, <3>1 DEF RivalInv, RejectedByRival, PushUntouched
    <3>3. QED
      BY <1>3, <3>1, <3>2 DEF PushUntouched
  <2>2. CASE q = p
    <3>1. Inserted(p) /\ KeyConflict(p) /\ UNCHANGED tbl_tx
      BY <1>1, <2>2 DEF Begun, Loaded, Checked, Inserted, Failed
    <3>2. \A j, k \in NewLines(p) : push[p].body[j] = push[p].body[k] => j = k
      BY <1>1, <2>2, <3>1 DEF Inserted, KeepsLines, NewLines
    <3>3. PICK k \in NewLines(p) : SearchTx(push[p].body[k]) # {}
      BY <3>1, <3>2 DEF KeyConflict
    <3>4. PICK row \in tbl_tx : row.txid = push[p].body[k]
      BY <3>3 DEF SearchTx
    <3>5. row.reqid \in push[p].rivals
      BY <3>1, <3>3, <3>4 DEF Inserted, RivalInv, LateRows, SearchTx
    <3>6. QED
      BY <1>1, <2>2, <3>1, <3>3, <3>4, <3>5 DEF Inserted, KeepsLines, NewLines
  <2>3. QED
    BY <2>1, <2>2
<1>9. QED
  BY <1>6, <1>7, <1>8 DEF RivalInv

(* So does every step of the server.                                       *)
LEMMA RivalStep ==
  ASSUME PushInv, InfoTypeOK, RivalInv, [ServerNext]_serverVars
  PROVE  RivalInv'
<1>1. CASE UNCHANGED pushVars
  <2>1. push' = push /\ tbl_tx' = tbl_tx /\ push_faults' = push_faults
    BY <1>1 DEF pushVars
  <2>2. QED
    BY <2>1 DEF RivalInv, MutualRivals, LateRows, RejectedByRival, Pending, NewLines, SearchTx
<1>2. CASE (\E p \in Pushes : PushStep(p)) /\ UNCHANGED infoVars
  BY <1>2, RivalPushStep
<1>3. CASE Restart
  <2>1. tbl_tx' = tbl_tx /\ push_faults' = push_faults
    BY <1>3 DEF Restart
  <2>2. ASSUME NEW q \in Pushes
        PROVE  /\ ~Pending(q)' /\ push'[q].reply = push[q].reply /\ push'[q].body = push[q].body
               /\ push'[q].accepted = push[q].accepted /\ push'[q].rivals = push[q].rivals
    <3>1. push'[q] = IF Pending(q) THEN [push[q] EXCEPT !.pc = "dropped"] ELSE push[q]
      BY <1>3 DEF Restart
    <3>2. push[q] \in PushRecords
      BY DEF PushInv, ServerTypeOK
    <3>3. QED
      BY <3>1, <3>2 DEF Pending, PushRecords
  <2>3. MutualRivals'
    BY <2>2 DEF MutualRivals
  <2>4. \A q \in Pushes : LateRows(q)'
    BY <2>2 DEF LateRows, Pending
  <2>5. \A q \in Pushes : RejectedByRival(q)'
    BY <2>1, <2>2 DEF RivalInv, RejectedByRival
  <2>6. QED
    BY <2>3, <2>4, <2>5 DEF RivalInv
<1>4. QED
  BY <1>1, <1>2, <1>3 DEF ServerNext, serverVars

(* Without failures, and when no line comes twice, a push with a line worth*)
(* storing is refused only if another one, in flight at the same time, has *)
(* stored a line of it.                                                    *)
THEOREM RivalsReject == ServerSpec => []OnlyARivalRejects
<1>1. ServerInit => RivalInv
  <2> SUFFICES ASSUME ServerInit PROVE RivalInv
    OBVIOUS
  <2>1. \A q \in Pushes : push[q].pc = "idle" /\ push[q].reply = "none"
    BY DEF ServerInit, PushInit
  <2>2. QED
    BY <2>1 DEF RivalInv, MutualRivals, LateRows, RejectedByRival, Pending
<1>2. PushInv /\ InfoTypeOK /\ RivalInv /\ [ServerNext]_serverVars => RivalInv'
  BY RivalStep
<1>3. RivalInv => OnlyARivalRejects
  BY DEF RivalInv, RejectedByRival, OnlyARivalRejects
<1>4. ServerSpec => []InfoTypeOK
  BY ServerHasAddressBook, InfoTypeCorrect, PTL
<1>5. QED
  BY <1>1, <1>2, <1>3, <1>4, PushInvHolds, PTL DEF ServerSpec
=============================================================================
