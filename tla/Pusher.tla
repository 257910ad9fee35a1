------------------------------- MODULE Pusher -------------------------------
(***************************************************************************)
(* bal-pusher for one network: a process that wakes up at every block,     *)
(* sends the stored transactions whose locktime has passed to bitcoind and *)
(* writes down what became of them (main and main_result).                 *)
(*                                                                         *)
(* Around it: the chain, whose blocks are announced over ZMQ without any   *)
(* guarantee; bitcoind, which answers RPC calls or not; bal-server, which  *)
(* stores transactions at any time; the owner of a will, who may spend its *)
(* inputs; and the supervisor, which restarts the process when it dies.    *)
(***************************************************************************)
EXTENDS Integers, FiniteSets

CONSTANTS
  Txids,        \* the transactions, named by txid
  Parents,      \* Parents[t]: the transactions of Txids whose outputs t spends
  Locktime,     \* Locktime[t]: a height or, from Threshold on, a time
  Threshold,    \* LOCKTIME_THRESHOLD, 500_000_000
  StartHeight,  \* height and median time of the chain at the start
  StartTime,
  MaxHeight,    \* bound: from here on the chain grows without the number growing
  MaxMedian,    \* bound: the same for the median time
  MaxInbox,     \* bound: announcements queued in the ZMQ socket
  MaxLost,      \* bound: announcements lost while the process runs
  MaxFailures,  \* bound: failed RPC and database calls
  MaxCrashes    \* bound: crashes of the process

ASSUME PusherAssumption ==
  /\ IsFiniteSet(Txids)
  /\ Parents \in [Txids -> SUBSET Txids]
  /\ Locktime \in [Txids -> Nat]
  /\ {Threshold, StartHeight, StartTime, MaxHeight, MaxMedian} \subseteq Nat
  /\ StartHeight <= MaxHeight /\ MaxHeight <= Threshold
  /\ {MaxInbox, MaxLost, MaxFailures, MaxCrashes} \subseteq Nat

VARIABLES
  height, median,  \* the chain: best height and median time past
  node,            \* node[t]: "unknown", "mempool" or "confirmed"
  spoiled,         \* transactions whose inputs were spent by another
  status,          \* the column status of tbl_tx, "absent" without a row
  tbl_stats,       \* the counts in the row of tbl_stats, or {} without a row
  inbox,           \* hashblock announcements waiting in the socket
  pc,              \* where the process is
  tip,             \* bcinfo: height and median time read at the start of a run
  pending,         \* rows of get_pending_txs still to be sent
  pushed, invalid, \* pushed_txs and invalid_txs still to be written down
  lost, failures, crashes

chainVars == <<height, median, node, spoiled>>
procVars  == <<pc, tip, pending, pushed, invalid>>
countVars == <<lost, failures, crashes>>
vars == <<chainVars, status, tbl_stats, inbox, procVars, countVars>>

Stages == {"down", "connect", "backoff", "query", "send", "update", "stats", "insert", "idle"}

(* Faulty variants: the status forgotten, a locktime taken for passed when *)
(* it is reached, and only one kind of locktime looked at.                 *)
SelectedAgain(t, at) ==
  \/ Locktime[t] < at.height
  \/ Locktime[t] > Threshold /\ Locktime[t] < at.median

SelectedAtLocktime(t, at) ==
  /\ status[t] = "waiting"
  /\ Locktime[t] <= at.height \/ (Locktime[t] > Threshold /\ Locktime[t] <= at.median)

SelectedByHeight(t, at) == status[t] = "waiting" /\ Locktime[t] < at.height

(* get_pending_txs: the rows a run picks up, both comparisons strict.      *)
Selected(t, at) ==
  /\ status[t] = "waiting"
  /\ \/ Locktime[t] < at.height
     \/ Locktime[t] > Threshold /\ Locktime[t] < at.median

(* bitcoind: t could be in the next block.                                 *)
Final(t) ==
  IF Locktime[t] < Threshold THEN Locktime[t] <= height ELSE Locktime[t] < median

(* bitcoind: sendrawtransaction accepts t, or has it in the mempool.       *)
Acceptable(t) ==
  /\ node[t] # "confirmed"
  /\ t \notin spoiled
  /\ Final(t)
  /\ \A p \in Parents[t] : node[p] # "unknown"

Count(s) == Cardinality({t \in Txids : status[t] = s})

Fault == failures < MaxFailures /\ failures' = failures + 1 /\ UNCHANGED <<lost, crashes>>

-----------------------------------------------------------------------------

Init ==
  /\ height = StartHeight /\ median = StartTime
  /\ node = [t \in Txids |-> "unknown"]
  /\ spoiled = {}
  /\ status = [t \in Txids |-> "absent"]
  /\ tbl_stats = {}
  /\ inbox = 0
  /\ pc = "connect"
  /\ tip = [height |-> StartHeight, median |-> StartTime]
  /\ pending = {} /\ pushed = {} /\ invalid = {}
  /\ lost = 0 /\ failures = 0 /\ crashes = 0

(* A block: it confirms some of the mempool, a transaction only with its   *)
(* parents.  The announcement reaches the socket of a running process, or  *)
(* is dropped.                                                             *)
Block ==
  /\ height' = IF height < MaxHeight THEN height + 1 ELSE height
  /\ median' \in {m \in {median, median + 1} : m <= MaxMedian}
  /\ median = MaxMedian \/ height < MaxHeight \/ median' = median + 1
  /\ \E mined \in SUBSET {t \in Txids : node[t] = "mempool"} :
       /\ \A t \in mined : \A p \in Parents[t] : p \in mined \/ node[p] = "confirmed"
       /\ node' = [t \in Txids |-> IF t \in mined THEN "confirmed" ELSE node[t]]
  /\ \/ /\ pc # "down"
        /\ inbox' = IF inbox < MaxInbox THEN inbox + 1 ELSE inbox
        /\ UNCHANGED lost
     \/ pc # "down" /\ lost < MaxLost /\ lost' = lost + 1 /\ UNCHANGED inbox
     \/ pc = "down" /\ UNCHANGED <<inbox, lost>>
  /\ UNCHANGED <<spoiled, status, tbl_stats, procVars, failures, crashes>>

(* The owner spends the inputs of t elsewhere, as invalidating a will does.*)
OwnerSpends(t) ==
  /\ t \notin spoiled /\ node[t] = "unknown"
  /\ spoiled' = spoiled \cup {t}
  /\ UNCHANGED <<height, median, node, status, tbl_stats, inbox, procVars, countVars>>

(* bal-server stores t (execute_insert, status DEFAULT 0).                 *)
Insert(t) ==
  /\ status[t] = "absent"
  /\ status' = [status EXCEPT ![t] = "waiting"]
  /\ UNCHANGED <<chainVars, tbl_stats, inbox, procVars, countVars>>

-----------------------------------------------------------------------------

(* Faulty: no run before the first block.                                  *)
StartIdle ==
  /\ pc = "down"
  /\ pc' = "idle"
  /\ UNCHANGED <<chainVars, status, tbl_stats, inbox, tip, pending, pushed, invalid, countVars>>

(* The supervisor starts the process; main subscribes and makes a first    *)
(* run before it waits for a block.                                        *)
Start ==
  /\ pc = "down"
  /\ pc' = "connect"
  /\ UNCHANGED <<chainVars, status, tbl_stats, inbox, tip, pending, pushed, invalid, countVars>>

(* The process dies: what it had in memory and in its socket is gone.      *)
Crash ==
  /\ pc # "down"
  /\ crashes < MaxCrashes /\ crashes' = crashes + 1
  /\ pc' = "down"
  /\ inbox' = 0
  /\ pending' = {} /\ pushed' = {} /\ invalid' = {}
  /\ UNCHANGED <<chainVars, status, tbl_stats, tip, lost, failures>>

(* main: a hashblock message is received.                                  *)
Wake ==
  /\ pc = "idle" /\ inbox > 0
  /\ inbox' = inbox - 1
  /\ pc' = "connect"
  /\ UNCHANGED <<chainVars, status, tbl_stats, tip, pending, pushed, invalid, countVars>>

(* get_client: getblockchaininfo answers.                                  *)
Connect ==
  /\ pc = "connect"
  /\ tip' = [height |-> height, median |-> median]
  /\ pc' = "query"
  /\ UNCHANGED <<chainVars, status, tbl_stats, inbox, pending, pushed, invalid, countVars>>

(* It does not: the run sleeps five seconds and is over.                   *)
ConnectFails ==
  /\ pc = "connect"
  /\ Fault
  /\ pc' = "backoff"
  /\ UNCHANGED <<chainVars, status, tbl_stats, inbox, tip, pending, pushed, invalid>>

SleepOver ==
  /\ pc = "backoff"
  /\ pc' = "idle"
  /\ UNCHANGED <<chainVars, status, tbl_stats, inbox, tip, pending, pushed, invalid, countVars>>

(* get_pending_txs.                                                        *)
Query ==
  /\ pc = "query"
  /\ pending' = {t \in Txids : Selected(t, tip)}
  /\ pc' = "send"
  /\ UNCHANGED <<chainVars, status, tbl_stats, inbox, tip, pushed, invalid, countVars>>

(* The query fails and the run is over; the database cannot be opened and  *)
(* the process exits.                                                      *)
QueryFails ==
  /\ pc = "query"
  /\ Fault
  /\ \/ pc' = "idle" /\ UNCHANGED inbox
     \/ pc' = "down" /\ inbox' = 0
  /\ UNCHANGED <<chainVars, status, tbl_stats, tip, pending, pushed, invalid>>

(* send_raw_transaction, one row after the other in the order of the query,*)
(* which asks for none.                                                    *)
Send(t) ==
  /\ pc = "send" /\ t \in pending
  /\ pending' = pending \ {t}
  /\ \/ /\ Acceptable(t)
        /\ node' = [node EXCEPT ![t] = "mempool"]
        /\ pushed' = pushed \cup {t}
        /\ UNCHANGED invalid
     \/ /\ ~Acceptable(t)
        /\ invalid' = invalid \cup {t}
        /\ UNCHANGED <<node, pushed>>
  /\ UNCHANGED <<height, median, spoiled, status, tbl_stats, inbox, pc, tip, countVars>>

(* The call fails: bitcoind was not reached, or its answer was lost.       *)
SendFails(t) ==
  /\ pc = "send" /\ t \in pending
  /\ Fault
  /\ pending' = pending \ {t}
  /\ invalid' = invalid \cup {t}
  /\ \/ UNCHANGED node
     \/ Acceptable(t) /\ node' = [node EXCEPT ![t] = "mempool"]
  /\ UNCHANGED <<height, median, spoiled, status, tbl_stats, inbox, pc, tip, pushed>>

SendDone ==
  /\ pc = "send" /\ pending = {}
  /\ pc' = "update"
  /\ UNCHANGED <<chainVars, status, tbl_stats, inbox, tip, pending, pushed, invalid, countVars>>

(* update_tx_status(txid, 1): first every pushed transaction ...           *)
UpdateSent(t) ==
  /\ pc = "update" /\ t \in pushed
  /\ pushed' = pushed \ {t}
  /\ \/ status' = [status EXCEPT ![t] = "sent"] /\ UNCHANGED countVars
     \/ Fault /\ UNCHANGED status
  /\ UNCHANGED <<chainVars, tbl_stats, inbox, pc, tip, pending, invalid>>

(* ... then every invalid one.  A failed update is only logged.            *)
UpdateFailed(t) ==
  /\ pc = "update" /\ pushed = {} /\ t \in invalid
  /\ invalid' = invalid \ {t}
  /\ \/ status' = [status EXCEPT ![t] = "failed"] /\ UNCHANGED countVars
     \/ Fault /\ UNCHANGED status
  /\ UNCHANGED <<chainVars, tbl_stats, inbox, pc, tip, pending, pushed>>

UpdateDone ==
  /\ pc = "update" /\ pushed = {} /\ invalid = {}
  /\ pc' = "stats"
  /\ UNCHANGED <<chainVars, status, tbl_stats, inbox, tip, pending, pushed, invalid, countVars>>

(* calculate_and_upsert_stats: DELETE, then INSERT ... SELECT, with no     *)
(* database transaction around them.                                       *)
DeleteStats ==
  /\ pc = "stats"
  /\ \/ tbl_stats' = {} /\ pc' = "insert" /\ UNCHANGED countVars
     \/ Fault /\ pc' = "idle" /\ UNCHANGED tbl_stats
  /\ UNCHANGED <<chainVars, status, inbox, tip, pending, pushed, invalid>>

InsertStats ==
  /\ pc = "insert"
  /\ \/ /\ tbl_stats' = {[totals |-> Cardinality(Txids) - Count("absent"),
                          waiting |-> Count("waiting"),
                          sent |-> Count("sent"), failed |-> Count("failed")]}
        /\ UNCHANGED countVars
     \/ Fault /\ UNCHANGED tbl_stats
  /\ pc' = "idle"
  /\ UNCHANGED <<chainVars, status, inbox, tip, pending, pushed, invalid>>

PusherStep ==
  \/ Wake \/ Connect \/ ConnectFails \/ SleepOver \/ Query \/ QueryFails
  \/ SendDone \/ UpdateDone \/ DeleteStats \/ InsertStats
  \/ \E t \in Txids : Send(t) \/ SendFails(t) \/ UpdateSent(t) \/ UpdateFailed(t)

Environment == Block \/ Crash \/ \E t \in Txids : OwnerSpends(t) \/ Insert(t)

Next == PusherStep \/ Start \/ Environment

Spec == Init /\ [][Next]_vars

(* The process runs, systemd starts it again (Restart=always), and blocks  *)
(* go on being found.                                                      *)
FairSpec == Spec /\ WF_vars(PusherStep) /\ WF_vars(Start) /\ WF_vars(Block)

-----------------------------------------------------------------------------

StatsRow == [totals : 0 .. Cardinality(Txids), waiting : 0 .. Cardinality(Txids),
             sent : 0 .. Cardinality(Txids), failed : 0 .. Cardinality(Txids)]

(* Every variable keeps its type, and the rows a run has in hand lie in    *)
(* disjoint lists that are empty between runs.                             *)
TypeOK ==
  /\ height \in StartHeight .. MaxHeight /\ median \in Nat
  /\ node \in [Txids -> {"unknown", "mempool", "confirmed"}]
  /\ spoiled \subseteq Txids
  /\ status \in [Txids -> {"absent", "waiting", "sent", "failed"}]
  /\ tbl_stats = {} \/ \E row \in StatsRow : tbl_stats = {row}
  /\ inbox \in 0 .. MaxInbox
  /\ pc \in Stages
  /\ tip \in [height : Nat, median : Nat]
  /\ pending \subseteq Txids /\ pushed \subseteq Txids /\ invalid \subseteq Txids
  /\ pending \cap pushed = {} /\ pending \cap invalid = {} /\ pushed \cap invalid = {}
  /\ pc # "send" => pending = {}
  /\ pc \notin {"send", "update"} => pushed = {} /\ invalid = {}
  /\ lost \in 0 .. MaxLost /\ failures \in 0 .. MaxFailures /\ crashes \in 0 .. MaxCrashes

(* The process implements the life of a transaction that docs/03 describes:*)
(* nothing is broadcast or given up before its locktime has passed, "sent" *)
(* is only written of what the network has, and "sent" and "failed" are    *)
(* final, whatever crashes, lost answers and failed updates come between.  *)
Lifecycle == INSTANCE TxLifecycle WITH
  due <- {t \in Txids : Final(t)},
  broadcast <- {t \in Txids : node[t] # "unknown"}

ImplementsLifecycle == Lifecycle!LifecycleSpec

(* A transaction is given up for a reason: the owner spent its inputs, a   *)
(* parent of it may have been missing, a call failed or the process died.  *)
FailedHasCause ==
  \A t \in Txids :
    status[t] = "failed" =>
      t \in spoiled \/ Parents[t] # {} \/ failures > 0 \/ crashes > 0

(* Without failed calls, a process that waits for a block has published    *)
(* the exact number of sent and failed transactions: also after a crash    *)
(* between the updates of tbl_tx and those of tbl_stats, because a new     *)
(* process makes a run before it waits.  Later inserts can only be missing.*)
StatsUpToDate ==
  pc = "idle" /\ failures = 0 =>
    \E row \in tbl_stats :
      /\ row.sent = Count("sent") /\ row.failed = Count("failed")
      /\ row.totals = row.waiting + row.sent + row.failed
      /\ row.waiting <= Count("waiting")

(* Every stored transaction whose locktime has passed is decided sooner or *)
(* later: no crash, lost announcement or failed call leaves it behind, as  *)
(* long as these are finitely many.  A locktime of exactly Threshold is    *)
(* excepted: get_pending_txs selects it by neither comparison.             *)
EveryDueTxDecided ==
  \A t \in Txids :
    status[t] = "waiting" /\ Final(t) /\ Locktime[t] # Threshold
      ~> status[t] \in {"sent", "failed"}
=============================================================================
