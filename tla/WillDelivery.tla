---------------------------- MODULE WillDelivery ----------------------------
(***************************************************************************)
(* How the Electrum plugin delivers a will to its will-executors: the      *)
(* broadcast (pushtxs) and the check (searchtx) with their thread pools,   *)
(* deadlines and retries, and what they make of the status of a will item. *)
(*                                                                         *)
(* Three callers drive the pools: the wizard (loop_push), the window       *)
(* (push_transactions_to_willexecutors, check_transactions_task) and the   *)
(* command line (controller.py).  Only one operation runs at a time; the   *)
(* threads a deadline has given up on go on, into the next operation.      *)
(*                                                                         *)
(* On the other side are the servers of WillExecutorServer, reduced to     *)
(* what a client can see of /pushtxs and /searchtx.                        *)
(***************************************************************************)
EXTENDS Integers, FiniteSets

CONSTANTS
  Items,         \* the will items, one transaction each
  Servers,       \* the will-executors, by url
  ServerOf,      \* ServerOf[i]: willitem.we
  Selected,      \* Selected[c]: the executors the user selected, as c filters them
  Paying,        \* the items that pay their executor's fee
  PushRetries,   \* PUSH_MAX_RETRIES
  CheckRetries,  \* CHECK_MAX_RETRIES
  MaxWorkers,    \* max_workers of the pools
  MaxOps,        \* bound: operations the user starts
  MaxFaults      \* bound: timeouts and broken connections

Callers == {"wizard", "window", "cli"}

ASSUME DeliveryAssumption ==
  /\ ServerOf \in [Items -> Servers]
  /\ Selected \in [Callers -> SUBSET Servers]
  /\ Paying \subseteq Items
  /\ {PushRetries, CheckRetries, MaxWorkers, MaxOps, MaxFaults} \subseteq Nat

VARIABLES
  status,     \* status[i]: the flags of the STATUS table that are set
  op,         \* the operation in progress, or the last one
  worker,     \* the threads of the pools
  requests,   \* requests on their way to a server or in its hands
  replies,    \* answers on their way back
  stored,     \* the rows of tbl_tx, over all servers
  faults,     \* timeouts and broken connections so far
  deadlines   \* deadlines that passed so far

clientVars == <<status, op>>
networkVars == <<worker, requests, replies>>
vars == <<clientVars, networkVars, stored, faults, deadlines>>

Statuses == {"VALID", "COMPLETE", "PUSHED", "PUSH_FAIL", "CHECKED", "CHECK_FAIL"}

(* A thread is named by its operation and the server or the item it is for.*)
WorkerIds == (1 .. MaxOps) \X (Servers \cup Items)

NoWorker ==
  [kind |-> "push", body |-> {}, state |-> "none", attempt |-> 0, result |-> "none"]

Submitted(kind, body) ==
  [kind |-> kind, body |-> body, state |-> "queued", attempt |-> 0, result |-> "none"]

Retries(kind) == IF kind = "push" THEN PushRetries ELSE CheckRetries

-----------------------------------------------------------------------------
(* WillItem.                                                               *)

(* set_status(flag, True): nothing happens to a flag that is set already.  *)
SetStatus(st, flag) ==
  IF flag \in st THEN st
  ELSE (st \cup {flag} \cup (IF flag = "CHECKED" THEN {"PUSHED"} ELSE {}))
         \ (CASE flag = "PUSHED"  -> {"PUSH_FAIL", "CHECK_FAIL"}
              [] flag = "CHECKED" -> {"PUSH_FAIL"}
              [] OTHER            -> {})

(* set_check_willexecutor: the server showed this very transaction, or it  *)
(* did not.                                                                *)
SetCheck(st, answer) ==
  IF answer = "found"
  THEN SetStatus(SetStatus(st, "PUSHED"), "CHECKED")
  ELSE SetStatus(st, "CHECK_FAIL") \ {"PUSHED"}

NeedsServerCheck(i) ==
  {"VALID", "PUSHED"} \subseteq status[i] /\ "CHECKED" \notin status[i]

(* get_willexecutor_transactions.                                          *)
ToBePushed(c, force, chosen) ==
  {i \in chosen :
     /\ {"VALID", "COMPLETE"} \subseteq status[i]
     /\ force \/ "PUSHED" \notin status[i]
     /\ ServerOf[i] \in Selected[c]}

Set(items, flag) ==
  status' = [i \in Items |-> IF i \in items THEN SetStatus(status[i], flag) ELSE status[i]]

-----------------------------------------------------------------------------

Init ==
  /\ status = [i \in Items |-> {"VALID"}]
  /\ op = [n |-> 0, kind |-> "push", caller |-> "cli", phase |-> "idle",
           targets |-> {}, waiting |-> {}, verify |-> {},
           error |-> FALSE, outcome |-> "none"]
  /\ worker = [id \in WorkerIds |-> NoWorker]
  /\ requests = {} /\ replies = {}
  /\ stored = {}
  /\ faults = 0 /\ deadlines = 0

(* sign_transactions.                                                      *)
Sign(i) ==
  /\ op.phase = "idle"
  /\ "COMPLETE" \notin status[i]
  /\ status' = [status EXCEPT ![i] = SetStatus(@, "COMPLETE")]
  /\ UNCHANGED <<op, networkVars, stored, faults, deadlines>>

(* A pool is filled with one thread per key of bodies.                     *)
StartOp(c, kind, targets, bodies) ==
  LET n == op.n + 1
      ids == {<<n, k>> : k \in DOMAIN bodies}
  IN
  /\ op.phase = "idle" /\ n <= MaxOps
  /\ targets # {}
  /\ op' = [n |-> n, kind |-> kind, caller |-> c, phase |-> "wait",
            targets |-> targets, waiting |-> ids, verify |-> {},
            error |-> FALSE, outcome |-> "none"]
  /\ worker' = [id \in WorkerIds |->
       IF id \in ids THEN Submitted(kind, bodies[id[2]]) ELSE worker[id]]
  /\ UNCHANGED <<status, requests, replies, stored, faults, deadlines>>

(* One thread per executor pushes all its transactions.  The wizard and    *)
(* the toolbar push what is not pushed yet, the menu forces a selection,   *)
(* the command line does either.                                           *)
StartPush(c, force, chosen) ==
  LET targets == ToBePushed(c, force, chosen) IN
  /\ c = "wizard" => ~force
  /\ c \in {"wizard", "window"} /\ ~force => chosen = Items
  /\ StartOp(c, "push", targets,
             [s \in {ServerOf[i] : i \in targets} |-> {i \in targets : ServerOf[i] = s}])

(* One thread per item asks its executor.  The menu of the window asks for *)
(* any selection, all others for what needs a check.                       *)
StartCheck(c, chosen) ==
  LET targets == IF c = "window" THEN chosen ELSE {i \in chosen : NeedsServerCheck(i)} IN
  StartOp(c, "check", targets, [i \in targets |-> {i}])

-----------------------------------------------------------------------------
(* The threads: send_request with its retries.                             *)

Post(id, attempt) ==
  requests' = requests \cup
    {[id |-> id, attempt |-> attempt, checked |-> FALSE, dups |-> {}]}

Finish(id, result) ==
  worker' = [worker EXCEPT ![id].state = "finished", ![id].result = result]

(* The pool has a free thread.                                             *)
Run(id) ==
  /\ worker[id].state = "queued"
  /\ Cardinality({k \in WorkerIds : k[1] = id[1] /\ worker[k].state = "running"}) < MaxWorkers
  /\ worker' = [worker EXCEPT ![id].state = "running"]
  /\ Post(id, 0)
  /\ UNCHANGED <<clientVars, replies, stored, faults, deadlines>>

(* The answer arrives.  For push_transactions_to_willexecutor anything but *)
(* "thx" and "already present" is a failure; for check_transaction an      *)
(* error status of the server is an exception, and no answer.              *)
Receive(r) ==
  /\ worker[r.id].state = "running"
  /\ replies' = replies \ {r}
  /\ Finish(r.id, IF r.text = "error" /\ worker[r.id].kind = "check" THEN "none" ELSE r.text)
  /\ UNCHANGED <<clientVars, requests, stored, faults, deadlines>>

(* A timeout: the request, or its answer, may be lost or just late.  After *)
(* the last retry send_request returns None.                               *)
TimesOut(id) ==
  LET w == worker[id] IN
  /\ w.state = "running"
  /\ faults < MaxFaults /\ faults' = faults + 1
  /\ replies' = {r \in replies : r.id # id}
  /\ \/ /\ w.attempt < Retries(w.kind)
        /\ worker' = [worker EXCEPT ![id].attempt = @ + 1]
        /\ Post(id, w.attempt + 1)
     \/ /\ w.attempt >= Retries(w.kind)
        /\ Finish(id, "none")
        /\ UNCHANGED requests
  /\ UNCHANGED <<clientVars, stored, deadlines>>

(* Any other error ends the call at once.                                  *)
Breaks(id) ==
  /\ worker[id].state = "running"
  /\ faults < MaxFaults /\ faults' = faults + 1
  /\ replies' = {r \in replies : r.id # id}
  /\ Finish(id, "none")
  /\ UNCHANGED <<clientVars, requests, stored, deadlines>>

-----------------------------------------------------------------------------
(* The servers.                                                            *)

(* The server answers a request; a caller that gave up does not hear it.   *)
Answer(r, text) ==
  /\ requests' = requests \ {r}
  /\ replies' = replies \cup
       {reply \in {[id |-> r.id, attempt |-> r.attempt, text |-> text]} :
          worker[r.id].state = "running" /\ worker[r.id].attempt = r.attempt}

Accepted(r) == worker[r.id].body \cap Paying

(* echo_push up to the duplicate check.                                    *)
PushTxs(r) ==
  /\ worker[r.id].kind = "push" /\ ~r.checked
  /\ \/ Accepted(r) = {} /\ Answer(r, "error")
     \/ /\ Accepted(r) # {} /\ Accepted(r) \subseteq stored
        /\ Answer(r, "already present")
     \/ /\ ~(Accepted(r) \subseteq stored)
        /\ requests' = (requests \ {r}) \cup
             {[r EXCEPT !.checked = TRUE, !.dups = Accepted(r) \cap stored]}
        /\ UNCHANGED replies
  /\ UNCHANGED <<clientVars, worker, stored, faults, deadlines>>

(* Faulty: the answer is sent before the rows are inserted.                *)
PushInsertsNothing(r) ==
  /\ worker[r.id].kind = "push" /\ r.checked
  /\ Answer(r, "thx")
  /\ UNCHANGED <<clientVars, worker, stored, faults, deadlines>>

(* execute_insert: the rows not found before, all or nothing.              *)
PushInserts(r) ==
  LET new == Accepted(r) \ r.dups IN
  /\ worker[r.id].kind = "push" /\ r.checked
  /\ \/ new \cap stored # {} /\ Answer(r, "error") /\ UNCHANGED stored
     \/ new \cap stored = {} /\ Answer(r, "thx") /\ stored' = stored \cup new
  /\ UNCHANGED <<clientVars, worker, faults, deadlines>>

(* echo_search: an unknown transaction is an error.                        *)
SearchTx(r) ==
  /\ worker[r.id].kind = "check"
  /\ Answer(r, IF worker[r.id].body \subseteq stored THEN "found" ELSE "error")
  /\ UNCHANGED <<clientVars, worker, stored, faults, deadlines>>

-----------------------------------------------------------------------------
(* The caller's thread.                                                    *)

(* Faulty: "already present" is taken for a confirmation.                  *)
CollectTrusting(id) ==
  LET w == worker[id] IN
  /\ op.phase = "wait" /\ id \in op.waiting
  /\ w.state = "finished"
  /\ status' = [i \in Items |->
       IF i \notin w.body THEN status[i]
       ELSE IF w.result \in {"found", "already present"} THEN SetCheck(status[i], "found")
       ELSE IF w.result = "thx" THEN SetStatus(status[i], "PUSHED")
       ELSE SetStatus(status[i], "PUSH_FAIL")]
  /\ op' = [op EXCEPT !.waiting = @ \ {id}]
  /\ UNCHANGED <<networkVars, stored, faults, deadlines>>

(* Faulty: "already present" counts as a failed push.                      *)
CollectPresentFails(id) ==
  LET w == worker[id] IN
  /\ op.phase = "wait" /\ id \in op.waiting
  /\ w.state = "finished"
  /\ status' = [i \in Items |->
       IF i \notin w.body THEN status[i]
       ELSE IF op.kind = "check" THEN SetCheck(status[i], w.result)
       ELSE SetStatus(status[i], IF w.result = "thx" THEN "PUSHED" ELSE "PUSH_FAIL")]
  /\ op' = [op EXCEPT !.waiting = @ \ {id}]
  /\ UNCHANGED <<networkVars, stored, faults, deadlines>>

(* on_each.                                                                *)
Collect(id) ==
  LET w == worker[id] IN
  /\ op.phase = "wait" /\ id \in op.waiting
  /\ w.state = "finished"
  /\ \/ /\ op.kind = "check"
        /\ status' = [i \in Items |->
             IF i \in w.body THEN SetCheck(status[i], w.result) ELSE status[i]]
        /\ op' = [op EXCEPT !.waiting = @ \ {id}]
     \/ /\ op.kind = "push" /\ w.result = "thx"
        /\ Set(w.body, "PUSHED")
        /\ op' = [op EXCEPT !.waiting = @ \ {id}]
     \/ /\ op.kind = "push" /\ w.result = "already present"
        /\ op' = [op EXCEPT !.waiting = @ \ {id}, !.verify = @ \cup w.body]
        /\ UNCHANGED status
     \/ /\ op.kind = "push" /\ w.result \in {"error", "none"}
        /\ Set(w.body, "PUSH_FAIL")
        /\ op' = [op EXCEPT !.waiting = @ \ {id}, !.error = TRUE]
  /\ UNCHANGED <<networkVars, stored, faults, deadlines>>

(* The threads that have not started never will.                           *)
CancelQueued ==
  worker' = [id \in WorkerIds |->
    IF id \in op.waiting /\ worker[id].state = "queued"
    THEN [worker[id] EXCEPT !.state = "cancelled"] ELSE worker[id]]

(* Faulty: on_timeout forgotten.                                           *)
DeadlineUnmarked ==
  /\ op.phase = "wait" /\ op.waiting # {}
  /\ deadlines' = deadlines + 1
  /\ UNCHANGED status
  /\ op' = [op EXCEPT !.waiting = {}, !.phase = "verify"]
  /\ CancelQueued
  /\ UNCHANGED <<requests, replies, stored, faults>>

(* Faulty: the pool waits for its running threads when it is shut down.    *)
DeadlineWaits ==
  /\ \A id \in op.waiting : worker[id].state # "running"
  /\ op.phase = "wait" /\ op.waiting # {}
  /\ deadlines' = deadlines + 1
  /\ UNCHANGED status
  /\ op' = [op EXCEPT !.waiting = {}, !.phase = "verify"]
  /\ CancelQueued
  /\ UNCHANGED <<requests, replies, stored, faults>>

(* The global deadline: the caller turns away from the threads that have   *)
(* not been collected.  on_timeout marks their items, where the caller     *)
(* gave one.                                                               *)
Deadline ==
  LET missing == UNION {worker[id].body : id \in op.waiting} IN
  /\ op.phase = "wait" /\ op.waiting # {}
  /\ deadlines' = deadlines + 1
  /\ \/ /\ op.kind = "check"
        /\ status' = [i \in Items |->
             IF i \in missing THEN SetCheck(status[i], "none") ELSE status[i]]
     \/ op.kind = "push" /\ op.caller = "wizard" /\ Set(missing, "PUSH_FAIL")
     \/ op.kind = "push" /\ op.caller # "wizard" /\ UNCHANGED status
  /\ op' = [op EXCEPT !.waiting = {}, !.phase = "verify"]
  /\ CancelQueued
  /\ UNCHANGED <<requests, replies, stored, faults>>

AllAnswered ==
  /\ op.phase = "wait" /\ op.waiting = {}
  /\ op' = [op EXCEPT !.phase = "verify"]
  /\ UNCHANGED <<status, networkVars, stored, faults, deadlines>>

End(outcome) == op' = [op EXCEPT !.phase = "idle", !.outcome = outcome]

(* A transaction that was present already is looked up, one after the      *)
(* other, without a thread: it is found, or no answer comes, or there is   *)
(* an exception, as for a transaction the server does not have.  The       *)
(* command line takes that for a failed check; for the others it is the    *)
(* end of the operation.                                                   *)
Verify(i) ==
  LET fault == faults < MaxFaults /\ faults' = faults + 1
      failed == /\ status' = [status EXCEPT ![i] = SetCheck(@, "none")]
                /\ op' = [op EXCEPT !.verify = @ \ {i}]
  IN
  /\ op.phase = "verify" /\ i \in op.verify
  /\ \/ /\ i \in stored
        /\ status' = [status EXCEPT ![i] = SetCheck(@, "found")]
        /\ op' = [op EXCEPT !.verify = @ \ {i}]
        /\ UNCHANGED faults
     \/ fault /\ failed
     \/ /\ fault \/ (i \notin stored /\ UNCHANGED faults)
        /\ IF op.caller = "cli" THEN failed ELSE (End("aborted") /\ UNCHANGED status)
  /\ UNCHANGED <<networkVars, stored, deadlines>>

(* The user closes the dialog.                                             *)
Stop ==
  /\ op.phase = "verify" /\ op.verify # {} /\ op.caller # "cli"
  /\ End("stopped")
  /\ UNCHANGED <<status, networkVars, stored, faults, deadlines>>

Done ==
  /\ op.phase = "verify" /\ op.verify = {}
  /\ End(IF op.error THEN "error" ELSE "success")
  /\ UNCHANGED <<status, networkVars, stored, faults, deadlines>>

CallerStep ==
  \/ Deadline \/ AllAnswered \/ Stop \/ Done
  \/ \E id \in op.waiting : Collect(id)
  \/ \E i \in Items : Verify(i)

UserStep ==
  \/ \E i \in Items : Sign(i)
  \/ \E c \in Callers, chosen \in SUBSET Items :
       \/ \E force \in BOOLEAN : StartPush(c, force, chosen)
       \/ c # "wizard" /\ StartCheck(c, chosen)

ThreadStep ==
  \/ \E id \in WorkerIds : Run(id) \/ TimesOut(id) \/ Breaks(id)
  \/ \E r \in replies : Receive(r)

ServerStep == \E r \in requests : PushTxs(r) \/ PushInserts(r) \/ SearchTx(r)

Next == CallerStep \/ UserStep \/ ThreadStep \/ ServerStep

Spec == Init /\ [][Next]_vars

(* The caller's thread runs; nothing is assumed of servers and threads.    *)
FairSpec == Spec /\ WF_vars(CallerStep)

-----------------------------------------------------------------------------
(* Properties.                                                             *)

WorkerRecords ==
  [kind : {"push", "check"}, body : SUBSET Items,
   state : {"none", "queued", "running", "finished", "cancelled"},
   attempt : 0 .. (PushRetries + CheckRetries),
   result : {"none", "thx", "already present", "error", "found"}]

OpRecords ==
  [n : 0 .. MaxOps, kind : {"push", "check"}, caller : Callers,
   phase : {"idle", "wait", "verify"}, targets : SUBSET Items,
   waiting : SUBSET WorkerIds, verify : SUBSET Items,
   error : BOOLEAN, outcome : {"none", "success", "error", "aborted", "stopped"}]

RequestRecords == [id : WorkerIds, attempt : Nat, checked : BOOLEAN, dups : SUBSET Items]

ReplyRecords ==
  [id : WorkerIds, attempt : Nat, text : {"thx", "already present", "error", "found"}]

WithinRetries(w) == w.attempt <= IF w.kind = "push" THEN PushRetries ELSE CheckRetries

(* Types; a thread makes no more attempts than its kind allows.            *)
TypeOK ==
  /\ status \in [Items -> SUBSET Statuses]
  /\ op \in OpRecords
  /\ worker \in [WorkerIds -> WorkerRecords]
  /\ \A id \in WorkerIds : WithinRetries(worker[id])
  /\ requests \subseteq RequestRecords /\ replies \subseteq ReplyRecords
  /\ stored \subseteq Items
  /\ faults \in 0 .. MaxFaults /\ deadlines \in Nat

(* "Confirmed on server" is true: an item is CHECKED only if its executor  *)
(* has the transaction, whatever answers were lost or came late.           *)
CheckedIsStored == \A i \in Items : "CHECKED" \in status[i] => i \in stored

(* "Sent" is true of an item that pays: the executor stored it.  (Of a     *)
(* body with other lines "thx" says nothing about the lines left out.)     *)
PushedIsStored ==
  \A i \in Items : "PUSHED" \in status[i] /\ i \in Paying => i \in stored

(* A broadcast of the wizard that ran to its end has left a mark on every  *)
(* item it was for, on those of executors that never answered too.         *)
WizardMarksAll ==
  op.caller = "wizard" /\ op.outcome \in {"success", "error"} =>
    \A i \in op.targets : status[i] \cap {"PUSHED", "PUSH_FAIL", "CHECK_FAIL"} # {}

(* An item that pays is never marked as failed when no call failed and no  *)
(* deadline passed: pushing again what is there already is no failure.     *)
PushFailHasCause ==
  \A i \in Paying : "PUSH_FAIL" \in status[i] => faults > 0 \/ deadlines > 0

(* An operation comes to an end even if servers and threads hang forever.  *)
OperationsEnd == op.phase # "idle" ~> op.phase = "idle"
=============================================================================
