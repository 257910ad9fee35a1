------------------------- MODULE WillExecutorServer -------------------------
(***************************************************************************)
(* The whole bal-server: the address book, and the POST /{network}/pushtxs *)
(* handler (echo_push), which stores the transactions of a will that pay   *)
(* the server.  echo_push waits for the database three times; the other    *)
(* handlers run between those waits.                                       *)
(***************************************************************************)
EXTENDS AddressBook, Sequences

CONSTANTS
  Pushes,         \* the requests for /pushtxs
  Txs,            \* the transactions clients send, named by txid
  Outputs,        \* Outputs[tx]: its outputs, [account, idx, amount]
  Bodies,         \* the request bodies: sequences of lines
  FixedFee,       \* FixedFee[n]: NetConfig.fixed_fee
  MaxPushFaults   \* bound: failed database calls of echo_push

ASSUME TxsAssumption ==
  /\ \A tx \in Txs : Outputs[tx] \in Seq([account : Accounts, idx : {-1} \cup Nat, amount : Nat])
  /\ \A b \in Bodies : b \in Seq(Txs \cup {None})   \* None: a line that is no transaction
  /\ None \notin Txs
  /\ FixedFee \in [Networks -> Nat]
  /\ MaxPushFaults \in Nat

VARIABLES
  tbl_tx,        \* the rows of tbl_tx
  push,          \* one record per request for /pushtxs
  push_faults    \* database calls of echo_push that failed so far

pushVars == <<tbl_tx, push, push_faults>>
serverVars == <<infoVars, pushVars>>

TxRows ==
  [txid : Txs, network : Networks, our_address : Addresses \cup {None},
   our_fees : Nat, reqid : Pushes]

PushRecords ==
  [pc         : {"idle", "load", "check", "insert", "done", "dropped"},
   network    : Networks,
   body       : Bodies,
   known      : SUBSET Addresses,
   accepted   : SUBSET Nat,
   duplicates : SUBSET Txs,
   reply      : {"none", "error", "already present", "thx"},
   rivals     : SUBSET Pushes]

Pending(p) == push[p].pc \in {"load", "check", "insert"}

(* search_tx: what /searchtx finds for a txid.                             *)
SearchTx(txid) == {row \in tbl_tx : row.txid = txid}

(* Faulty: the fee is compared the wrong way round.                        *)
PaysUsAtMost(out, n, known) ==
  LET address == AddressOf(n, out.account, out.idx) IN
  /\ IF n \in XpubNetworks THEN address \in known ELSE address = Address(n, config[n], -1)
  /\ out.amount <= FixedFee[n]

(* An output of at least the fixed fee to an address of the server.        *)
PaysUs(out, n, known) ==
  LET address == AddressOf(n, out.account, out.idx) IN
  /\ IF n \in XpubNetworks THEN address \in known ELSE address = Address(n, config[n], -1)
  /\ out.amount >= FixedFee[n]

PayingOutputs(tx, n, known) ==
  {o \in 1..Len(Outputs[tx]) : PaysUs(Outputs[tx][o], n, known)}

(* parse_request_transactions: the lines that are kept.                    *)
Parsed(body, n, known) ==
  {k \in 1..Len(body) :
     /\ body[k] \in Txs
     /\ FixedFee[n] = 0 \/ PayingOutputs(body[k], n, known) # {}}

(* The row of a kept line.  The outputs are scanned to the end, so the     *)
(* last one that pays names the address and the fee.                       *)
NewRow(p, tx) ==
  LET n      == push[p].network
      paying == PayingOutputs(tx, n, push[p].known)
      last   == CHOOSE o \in paying : \A q \in paying : q <= o
      out    == Outputs[tx][last]
  IN  [txid |-> tx, network |-> n, reqid |-> p,
       our_address |-> IF paying = {} THEN None ELSE AddressOf(n, out.account, out.idx),
       our_fees    |-> IF paying = {} THEN 0 ELSE out.amount]

(* Faulty: lines found by the duplicate check are inserted again.          *)
AllLines(p) == push[p].accepted

(* The kept lines that the duplicate check did not find.                   *)
NewLines(p) == {k \in push[p].accepted : push[p].body[k] \notin push[p].duplicates}

(* The primary key of tbl_tx refuses the batch: a line is stored already,  *)
(* or comes twice.                                                         *)
KeyConflict(p) ==
  \/ \E k \in NewLines(p) : SearchTx(push[p].body[k]) # {}
  \/ \E j, k \in NewLines(p) : j # k /\ push[p].body[j] = push[p].body[k]

Reply(p, text) == push' = [push EXCEPT ![p].pc = "done", ![p].reply = text]

PushFault == push_faults < MaxPushFaults /\ push_faults' = push_faults + 1

-----------------------------------------------------------------------------

PushInit ==
  /\ tbl_tx = {}
  /\ push \in [Pushes -> [pc : {"idle"}, network : Networks, body : Bodies,
                          known : {{}}, accepted : {{}}, duplicates : {{}},
                          reply : {"none"}, rivals : {{}}]]
  /\ push_faults = 0

(* The lines are parsed against the addresses known; none kept is an error.*)
Parse(rec, known) ==
  LET lines == Parsed(rec.body, rec.network, known) IN
  [rec EXCEPT !.known = known, !.accepted = lines,
              !.pc = IF lines = {} THEN "done" ELSE "check",
              !.reply = IF lines = {} THEN "error" ELSE "none"]

(* A request arrives.  rivals records the requests it runs together with.  *)
PushBegin(p) ==
  LET n      == push[p].network
      others == {q \in Pushes : Pending(q)}
      rec    == [push[p] EXCEPT !.rivals = others]
  IN
  /\ push[p].pc = "idle"
  /\ push' = [q \in Pushes |->
       IF q = p
       THEN IF n \notin Enabled THEN [rec EXCEPT !.pc = "done", !.reply = "error"]
            ELSE IF n \in XpubNetworks THEN [rec EXCEPT !.pc = "load"]
            ELSE Parse(rec, {})
       ELSE IF q \in others THEN [push[q] EXCEPT !.rivals = @ \cup {p}] ELSE push[q]]
  /\ UNCHANGED <<tbl_tx, push_faults>>

(* get_all_addresses_by_xpub answers.                                      *)
PushLoadAddresses(p) ==
  /\ push[p].pc = "load"
  /\ push' = [push EXCEPT ![p] = Parse(@, KnownAddresses(config[push[p].network]))]
  /\ UNCHANGED <<tbl_tx, push_faults>>

(* Faulty: the batch counts as present when one of its lines is.           *)
PushCheckOnePresent(p) ==
  LET txids   == {push[p].body[k] : k \in push[p].accepted}
      present == {t \in txids : SearchTx(t) # {}}
  IN
  /\ push[p].pc = "check"
  /\ \/ present # {} /\ Reply(p, "already present")
     \/ /\ present = {}
        /\ push' = [push EXCEPT ![p].pc = "insert", ![p].duplicates = present]
  /\ UNCHANGED <<tbl_tx, push_faults>>

(* check_duplicate_txids answers; it looks at the rows of every network.   *)
PushCheckDuplicates(p) ==
  LET txids   == {push[p].body[k] : k \in push[p].accepted}
      present == {t \in txids : SearchTx(t) # {}}
  IN
  /\ push[p].pc = "check"
  /\ \/ txids \subseteq present /\ Reply(p, "already present")
     \/ /\ ~(txids \subseteq present)
        /\ push' = [push EXCEPT ![p].pc = "insert", ![p].duplicates = present]
  /\ UNCHANGED <<tbl_tx, push_faults>>

(* Faulty: each line is inserted on its own, outside a transaction.        *)
PushInsertOneByOne(p) ==
  LET free == {k \in NewLines(p) : SearchTx(push[p].body[k]) = {}} IN
  /\ push[p].pc = "insert"
  /\ \/ \E some \in SUBSET free :
          /\ KeyConflict(p)
          /\ tbl_tx' = tbl_tx \cup {NewRow(p, push[p].body[k]) : k \in some}
          /\ Reply(p, "error")
     \/ /\ ~KeyConflict(p)
        /\ \E some \in SUBSET free :
             /\ tbl_tx' = tbl_tx \cup {NewRow(p, push[p].body[k]) : k \in some}
             /\ Reply(p, IF some = free THEN "thx" ELSE "error")
  /\ UNCHANGED push_faults

(* execute_insert: one database transaction for the batch, all or nothing. *)
PushInsert(p) ==
  /\ push[p].pc = "insert"
  /\ \/ KeyConflict(p) /\ Reply(p, "error") /\ UNCHANGED tbl_tx
     \/ /\ ~KeyConflict(p)
        /\ tbl_tx' = tbl_tx \cup {NewRow(p, push[p].body[k]) : k \in NewLines(p)}
        /\ Reply(p, "thx")
  /\ UNCHANGED push_faults

(* A query fails, or the insert does: rolled back, or committed with the   *)
(* confirmation lost.                                                      *)
PushFails(p) ==
  /\ Pending(p)
  /\ PushFault
  /\ Reply(p, "error")
  /\ \/ UNCHANGED tbl_tx
     \/ /\ push[p].pc = "insert" /\ ~KeyConflict(p)
        /\ tbl_tx' = tbl_tx \cup {NewRow(p, push[p].body[k]) : k \in NewLines(p)}

PushStep(p) ==
  \/ PushBegin(p)
  \/ PushLoadAddresses(p)
  \/ PushCheckDuplicates(p)
  \/ PushInsert(p)
  \/ PushFails(p)

(* The process restarts: the requests in flight are lost with it.          *)
Restart ==
  /\ InfoRestart
  /\ push' = [p \in Pushes |->
       IF Pending(p) THEN [push[p] EXCEPT !.pc = "dropped"] ELSE push[p]]
  /\ UNCHANGED <<tbl_tx, push_faults>>

ServerInit == InfoInit /\ PushInit

ServerNext ==
  \/ (Tick \/ \E i \in Infos : InfoStep(i)) /\ UNCHANGED pushVars
  \/ (\E p \in Pushes : PushStep(p)) /\ UNCHANGED infoVars
  \/ Restart

ServerSpec == ServerInit /\ [][ServerNext]_serverVars

-----------------------------------------------------------------------------
(* Properties.                                                             *)

ServerTypeOK ==
  /\ tbl_tx \subseteq TxRows
  /\ push \in [Pushes -> PushRecords]
  /\ push_faults \in Nat

Stored(tx) == SearchTx(tx) # {}

(* "thx" and "already present" are promises: every line of the body that   *)
(* the server recognised as paying it can be found by /searchtx from then  *)
(* on, whatever other pushes, failures and restarts come between.          *)
ThxMeansStored ==
  \A p \in Pushes : push[p].reply \in {"thx", "already present"} =>
    \A k \in push[p].accepted : Stored(push[p].body[k])

(* A will is stored whole or not at all: once one row of a push is there,  *)
(* so are all the lines it kept, even when the client was told "error" or  *)
(* was told nothing (execute_insert is one database transaction).          *)
BatchStoredWhole ==
  \A row \in tbl_tx : \A k \in push[row.reqid].accepted :
    Stored(push[row.reqid].body[k])

(* Every stored transaction pays the fee of its network to an address that *)
(* this server configured or derived and still has in its table, though    *)
(* the addresses were read two awaits before the row was written.          *)
StoredPaysUs ==
  \A row \in tbl_tx :
    \/ FixedFee[row.network] = 0
    \/ /\ row.our_fees >= FixedFee[row.network]
       /\ \E o \in 1..Len(Outputs[row.txid]) :
            LET out == Outputs[row.txid][o] IN
            /\ row.our_address = AddressOf(row.network, out.account, out.idx)
            /\ row.our_fees = out.amount
       /\ IF row.network \in XpubNetworks
          THEN row.our_address \in {r.address : r \in tbl_address}
          ELSE \E c \in Configs : row.our_address = Address(row.network, c[row.network], -1)

(* When the database does not fail and no line comes twice, a push with a  *)
(* line worth storing is refused only if another push, in flight at the    *)
(* same time, has stored one of its lines.                                 *)
OnlyARivalRejects ==
  \A p \in Pushes :
    (/\ push[p].reply = "error" /\ push[p].accepted # {} /\ push_faults = 0
     /\ \A j, k \in push[p].accepted : push[p].body[j] = push[p].body[k] => j = k)
    => \E q \in push[p].rivals : \E k \in push[p].accepted : \E row \in tbl_tx :
         row.txid = push[p].body[k] /\ row.reqid = q
=============================================================================
