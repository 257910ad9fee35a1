------------------------- MODULE WillDeliveryProofs -------------------------
(***************************************************************************)
(* Type correctness of the delivery, the truth of the marks "Confirmed on  *)
(* server" and "Sent", that the wizard leaves no item without a mark, and  *)
(* that nothing fails without a cause, for every number of items,          *)
(* executors, threads, operations, retries and faults.                     *)
(***************************************************************************)
EXTENDS WillDelivery, TLAPS

(* What an answer says about the server stays true: rows are never deleted.*)
Says(id, text) ==
  /\ text \in {"thx", "already present"} => worker[id].body \cap Paying \subseteq stored
  /\ text = "found" => worker[id].body \subseteq stored

RepliesAreTrue == \A r \in replies : Says(r.id, r.text)
ResultsAreTrue == \A id \in WorkerIds : Says(id, worker[id].result)
DupsAreStored  == \A r \in requests : r.dups \subseteq stored

(* No message or thread is of an operation that has not begun.                *)
MessagesArePast ==
  /\ \A r \in requests : r.id[1] <= op.n
  /\ \A r \in replies : r.id[1] <= op.n
  /\ \A id \in WorkerIds : worker[id].state # "none" => id[1] <= op.n

Known == RepliesAreTrue /\ ResultsAreTrue /\ DupsAreStored /\ MessagesArePast

(* The marks of an item with the flags st.                                 *)
MarksOf(i, st) ==
  /\ "CHECKED" \in st => i \in stored
  /\ "PUSHED" \in st /\ i \in Paying => i \in stored

MarksAreTrue == CheckedIsStored /\ PushedIsStored

DeliveryInv ==
  /\ TypeOK
  /\ Known
  /\ MarksAreTrue

-----------------------------------------------------------------------------

LEMMA ConstantTypes ==
  /\ ServerOf \in [Items -> Servers] /\ Paying \subseteq Items
  /\ PushRetries \in Nat /\ CheckRetries \in Nat /\ MaxOps \in Nat /\ MaxFaults \in Nat
BY DeliveryAssumption DEF DeliveryAssumption

LEMMA SetStatusType ==
  ASSUME NEW st \in SUBSET Statuses, NEW flag \in Statuses
  PROVE  SetStatus(st, flag) \in SUBSET Statuses
BY DEF SetStatus, Statuses

LEMMA SetCheckType ==
  ASSUME NEW st \in SUBSET Statuses, NEW answer
  PROVE  SetCheck(st, answer) \in SUBSET Statuses
BY SetStatusType DEF SetCheck, Statuses

(* Only set_check_willexecutor on a transaction found sets CHECKED, and it *)
(* and a successful push alone set PUSHED.                                 *)
LEMMA SetStatusMarks ==
  ASSUME NEW st \in SUBSET Statuses, NEW flag \in {"COMPLETE", "PUSHED", "PUSH_FAIL", "CHECK_FAIL"}
  PROVE  /\ "CHECKED" \in SetStatus(st, flag) => "CHECKED" \in st
         /\ "PUSHED" \in SetStatus(st, flag) => flag = "PUSHED" \/ "PUSHED" \in st
BY DEF SetStatus

LEMMA SetCheckMarks ==
  ASSUME NEW st \in SUBSET Statuses, NEW answer, answer # "found"
  PROVE  /\ "CHECKED" \in SetCheck(st, answer) => "CHECKED" \in st
         /\ "PUSHED" \in SetCheck(st, answer) => "PUSHED" \in st
BY SetStatusMarks DEF SetCheck

-----------------------------------------------------------------------------

LEMMA TypeInit == Init => TypeOK
BY ConstantTypes
DEF Init, WithinRetries, TypeOK, OpRecords, WorkerRecords, NoWorker, Callers, Statuses, WorkerIds

LEMMA StartOpType ==
  ASSUME TypeOK, NEW c \in Callers, NEW kind \in {"push", "check"},
         NEW targets \in SUBSET Items, NEW bodies,
         DOMAIN bodies \subseteq Servers \cup Items,
         \A k \in DOMAIN bodies : bodies[k] \in SUBSET Items,
         StartOp(c, kind, targets, bodies)
  PROVE  TypeOK'
<1> DEFINE n == op.n + 1
           ids == {<<n, k>> : k \in DOMAIN bodies}
           new(id) == Submitted(kind, bodies[id[2]])
<1>1. n \in 1 .. MaxOps
  <2>1. op.n \in 0 .. MaxOps
    BY DEF TypeOK, OpRecords
  <2>2. op.n + 1 <= MaxOps
    BY DEF StartOp
  <2>3. QED
    BY <2>1, <2>2, ConstantTypes
<1>2. /\ op' = [n |-> n, kind |-> kind, caller |-> c, phase |-> "wait",
                targets |-> targets, waiting |-> ids, verify |-> {},
                error |-> FALSE, outcome |-> "none"]
      /\ worker' = [id \in WorkerIds |-> IF id \in ids THEN new(id) ELSE worker[id]]
      /\ UNCHANGED <<status, requests, replies, stored, faults, deadlines>>
  BY DEF StartOp
<1> HIDE DEF n
<1>3. ids \in SUBSET WorkerIds
  BY <1>1 DEF WorkerIds
<1>4. \A id \in ids : bodies[id[2]] \in SUBSET Items
  OBVIOUS
<1> HIDE DEF ids
<1>5. n \in 0 .. MaxOps
  BY <1>1, ConstantTypes
<1>6. op' \in OpRecords
  BY <1>2, <1>3, <1>5 DEF OpRecords
<1>7. \A id \in ids : new(id) \in WorkerRecords /\ WithinRetries(new(id))
  BY <1>4, ConstantTypes DEF WorkerRecords, Submitted, WithinRetries
<1> HIDE DEF new
<1>8. worker' \in [WorkerIds -> WorkerRecords]
  BY <1>2, <1>7 DEF TypeOK
<1>9. \A id \in WorkerIds : WithinRetries(worker[id])'
  <2>1. \A id \in WorkerIds : (worker'[id] = new(id) /\ id \in ids) \/ worker'[id] = worker[id]
    BY <1>2
  <2>2. QED
    BY <2>1, <1>7 DEF TypeOK, WithinRetries
<1>10. QED
  BY <1>2, <1>6, <1>8, <1>9 DEF TypeOK

(* The two ways a thread's record changes.                                 *)
LEMMA FinishType ==
  ASSUME TypeOK, NEW id \in WorkerIds,
         NEW result \in {"none", "thx", "already present", "error", "found"},
         Finish(id, result)
  PROVE  /\ worker' \in [WorkerIds -> WorkerRecords]
         /\ \A k \in WorkerIds : WithinRetries(worker[k])'
         /\ \A k \in WorkerIds : k # id => worker'[k] = worker[k]
         /\ worker'[id].body = worker[id].body
         /\ worker'[id].state = "finished"
         /\ worker'[id].result = result
<1> DEFINE w == [worker[id] EXCEPT !.state = "finished", !.result = result]
<1>1. worker[id] \in WorkerRecords /\ WithinRetries(worker[id])
  BY DEF TypeOK
<1>2. /\ w \in WorkerRecords /\ w.attempt = worker[id].attempt /\ w.kind = worker[id].kind
      /\ w.body = worker[id].body /\ w.state = "finished" /\ w.result = result
  BY <1>1 DEF WorkerRecords
<1>3. WithinRetries(w)
  BY <1>1, <1>2 DEF WithinRetries
<1>4. worker' = [worker EXCEPT ![id] = w]
  BY DEF Finish, TypeOK
<1> HIDE DEF w
<1>5. \A k \in WorkerIds : worker'[k] = IF k = id THEN w ELSE worker[k]
  BY <1>4 DEF TypeOK
<1>6. \A k \in WorkerIds : WithinRetries(worker[k])'
  BY <1>3, <1>5 DEF TypeOK, WithinRetries
<1>7. worker' \in [WorkerIds -> WorkerRecords]
  BY <1>2, <1>4 DEF TypeOK
<1>8. QED
  BY <1>2, <1>5, <1>6, <1>7

LEMMA PostType ==
  ASSUME TypeOK, NEW id \in WorkerIds, NEW attempt \in Nat, Post(id, attempt)
  PROVE  requests' \subseteq RequestRecords
<1>1. [id |-> id, attempt |-> attempt, checked |-> FALSE, dups |-> {}] \in RequestRecords
  BY DEF RequestRecords
<1>2. QED
  BY <1>1 DEF TypeOK, Post

LEMMA AnswerType ==
  ASSUME TypeOK, NEW r \in requests,
         NEW text \in {"thx", "already present", "error", "found"}, Answer(r, text)
  PROVE  requests' \subseteq RequestRecords /\ replies' \subseteq ReplyRecords
<1>1. [id |-> r.id, attempt |-> r.attempt, text |-> text] \in ReplyRecords
  BY DEF TypeOK, RequestRecords, ReplyRecords
<1>2. QED
  BY <1>1 DEF TypeOK, Answer

-----------------------------------------------------------------------------
(* One lemma per action.                                                   *)

LEMMA StartType ==
  ASSUME TypeOK, NEW c \in Callers, NEW chosen \in SUBSET Items, NEW force,
         StartPush(c, force, chosen) \/ StartCheck(c, chosen)
  PROVE  TypeOK'
<1>1. CASE StartPush(c, force, chosen)
  <2> DEFINE targets == ToBePushed(c, force, chosen)
             bodies == [s \in {ServerOf[i] : i \in targets} |-> {i \in targets : ServerOf[i] = s}]
  <2>1. targets \in SUBSET Items
    BY DEF ToBePushed
  <2>2. DOMAIN bodies \subseteq Servers \cup Items
    BY <2>1, ConstantTypes
  <2>3. \A k \in DOMAIN bodies : bodies[k] \in SUBSET Items
    BY <2>1
  <2>4. StartOp(c, "push", targets, bodies)
    BY <1>1 DEF StartPush
  <2> HIDE DEF targets, bodies
  <2>5. QED
    BY <2>1, <2>2, <2>3, <2>4, StartOpType
<1>2. CASE StartCheck(c, chosen)
  <2> DEFINE targets == IF c = "window" THEN chosen ELSE {i \in chosen : NeedsServerCheck(i)}
             bodies == [i \in targets |-> {i}]
  <2>1. targets \in SUBSET Items
    OBVIOUS
  <2>2. DOMAIN bodies \subseteq Servers \cup Items
    BY <2>1
  <2>3. \A k \in DOMAIN bodies : bodies[k] \in SUBSET Items
    BY <2>1
  <2>4. StartOp(c, "check", targets, bodies)
    BY <1>2 DEF StartCheck
  <2> HIDE DEF targets, bodies
  <2>5. QED
    BY <2>1, <2>2, <2>3, <2>4, StartOpType
<1>3. QED
  BY <1>1, <1>2

LEMMA RunType ==
  ASSUME TypeOK, NEW id \in WorkerIds, Run(id)
  PROVE  TypeOK'
<1> DEFINE w == [worker[id] EXCEPT !.state = "running"]
<1>1. w \in WorkerRecords /\ w.attempt = worker[id].attempt /\ w.kind = worker[id].kind
  BY DEF TypeOK, WorkerRecords
<1>2. worker' = [worker EXCEPT ![id] = w] /\ Post(id, 0)
  BY DEF Run
<1> HIDE DEF w
<1>3. worker' \in [WorkerIds -> WorkerRecords]
  BY <1>1, <1>2 DEF TypeOK
<1>4. \A k \in WorkerIds : WithinRetries(worker[k])'
  BY <1>1, <1>2 DEF TypeOK, WithinRetries
<1>5. requests' \subseteq RequestRecords
  BY <1>2, PostType
<1>6. QED
  BY <1>3, <1>4, <1>5 DEF Run, TypeOK, clientVars

LEMMA ReceiveType ==
  ASSUME TypeOK, NEW r \in replies, Receive(r)
  PROVE  TypeOK'
<1> DEFINE result == IF r.text = "error" /\ worker[r.id].kind = "check" THEN "none" ELSE r.text
<1>1. r.id \in WorkerIds
      /\ result \in {"none", "thx", "already present", "error", "found"}
  BY DEF TypeOK, ReplyRecords
<1>2. Finish(r.id, result)
  BY DEF Receive
<1> HIDE DEF result
<1>3. QED
  BY <1>1, <1>2, FinishType DEF Receive, TypeOK, clientVars

LEMMA TimesOutType ==
  ASSUME TypeOK, NEW id \in WorkerIds, TimesOut(id)
  PROVE  TypeOK'
<1> DEFINE w == [worker[id] EXCEPT !.attempt = @ + 1]
<1>1. /\ UNCHANGED <<status, op, stored, deadlines>> /\ faults' \in 0 .. MaxFaults
      /\ replies' \subseteq ReplyRecords
  BY ConstantTypes DEF TypeOK, TimesOut, clientVars
<1>2. CASE worker[id].attempt < Retries(worker[id].kind)
             /\ worker' = [worker EXCEPT ![id].attempt = @ + 1]
             /\ Post(id, worker[id].attempt + 1)
  <2>1. /\ worker[id] \in WorkerRecords
        /\ worker[id].attempt \in Nat
    <3>1. worker[id] \in WorkerRecords
      BY DEF TypeOK
    <3>2. worker[id].attempt \in 0 .. (PushRetries + CheckRetries)
      BY <3>1 DEF WorkerRecords
    <3>3. QED
      BY <3>1, <3>2, ConstantTypes
  <2>2. w.attempt = worker[id].attempt + 1 /\ w.kind = worker[id].kind
    BY <2>1 DEF WorkerRecords
  <2>3. WithinRetries(w)
    BY <1>2, <2>1, <2>2, ConstantTypes DEF WithinRetries, Retries
  <2>4. worker[id].attempt + 1 \in 0 .. (PushRetries + CheckRetries)
    BY <1>2, <2>1, ConstantTypes DEF Retries
  <2>5. w \in WorkerRecords
    BY <2>1, <2>4 DEF WorkerRecords
  <2>6. worker' = [worker EXCEPT ![id] = w]
    BY <1>2
  <2> HIDE DEF w
  <2>7. worker' \in [WorkerIds -> WorkerRecords]
    BY <2>5, <2>6 DEF TypeOK
  <2>8. \A k \in WorkerIds : WithinRetries(worker[k])'
    BY <2>3, <2>6 DEF TypeOK, WithinRetries
  <2>9. requests' \subseteq RequestRecords
    BY <1>2, <2>1, PostType
  <2>10. QED
    BY <1>1, <2>7, <2>8, <2>9 DEF TypeOK
<1>3. CASE Finish(id, "none") /\ UNCHANGED requests
  BY <1>1, <1>3, FinishType DEF TypeOK
<1>4. QED
  BY <1>2, <1>3 DEF TimesOut

LEMMA BreaksType ==
  ASSUME TypeOK, NEW id \in WorkerIds, Breaks(id)
  PROVE  TypeOK'
<1>1. Finish(id, "none") /\ faults' \in 0 .. MaxFaults /\ replies' \subseteq replies
  BY ConstantTypes DEF Breaks, TypeOK
<1>2. QED
  BY <1>1, FinishType DEF Breaks, TypeOK, clientVars

LEMMA ServerType ==
  ASSUME TypeOK, NEW r \in requests, PushTxs(r) \/ PushInserts(r) \/ SearchTx(r)
  PROVE  TypeOK'
<1>1. CASE PushTxs(r)
  <2>1. /\ UNCHANGED <<clientVars, worker, stored, faults, deadlines>>
        /\ \/ Answer(r, "error") \/ Answer(r, "already present")
           \/ /\ requests' = (requests \ {r}) \cup
                   {[r EXCEPT !.checked = TRUE, !.dups = Accepted(r) \cap stored]}
              /\ UNCHANGED replies
    BY <1>1 DEF PushTxs
  <2>2. [r EXCEPT !.checked = TRUE, !.dups = Accepted(r) \cap stored] \in RequestRecords
    <3>1. Accepted(r) \cap stored \in SUBSET Items
      BY DEF TypeOK
    <3>2. r \in RequestRecords
      BY DEF TypeOK
    <3>3. QED
      BY <3>1, <3>2 DEF RequestRecords
  <2>3. requests' \subseteq RequestRecords /\ replies' \subseteq ReplyRecords
    BY <2>1, <2>2, AnswerType DEF TypeOK
  <2>4. QED
    BY <2>1, <2>3 DEF TypeOK, clientVars
<1>2. CASE PushInserts(r)
  <2>1. /\ UNCHANGED <<clientVars, worker, faults, deadlines>>
        /\ Answer(r, "error") \/ Answer(r, "thx")
        /\ stored' = stored \/ stored' = stored \cup (Accepted(r) \ r.dups)
    BY <1>2 DEF PushInserts
  <2>2. Accepted(r) \subseteq Items
    BY ConstantTypes DEF Accepted
  <2>3. requests' \subseteq RequestRecords /\ replies' \subseteq ReplyRecords
    BY <2>1, AnswerType
  <2>4. QED
    BY <2>1, <2>2, <2>3 DEF TypeOK, clientVars
<1>3. CASE SearchTx(r)
  <2>1. requests' \subseteq RequestRecords /\ replies' \subseteq ReplyRecords
    BY <1>3, AnswerType DEF SearchTx
  <2>2. QED
    BY <1>3, <2>1 DEF SearchTx, TypeOK, clientVars
<1>4. QED
  BY <1>1, <1>2, <1>3

LEMMA SetType ==
  ASSUME TypeOK, NEW items, NEW flag \in Statuses, Set(items, flag)
  PROVE  status' \in [Items -> SUBSET Statuses]
BY SetStatusType DEF TypeOK, Set

LEMMA CollectType ==
  ASSUME TypeOK, NEW id \in op.waiting, Collect(id)
  PROVE  TypeOK'
<1>1. op \in OpRecords /\ id \in WorkerIds /\ worker[id].body \in SUBSET Items
  BY DEF TypeOK, OpRecords, WorkerRecords
<1>2. status' \in [Items -> SUBSET Statuses]
  <2>1. \/ status' = [i \in Items |->
             IF i \in worker[id].body THEN SetCheck(status[i], worker[id].result) ELSE status[i]]
        \/ Set(worker[id].body, "PUSHED") \/ Set(worker[id].body, "PUSH_FAIL")
        \/ UNCHANGED status
    BY DEF Collect
  <2>2. QED
    BY <2>1, SetType, SetCheckType DEF TypeOK, Statuses
<1>3. op' \in OpRecords
  <2>1. \/ op' = [op EXCEPT !.waiting = @ \ {id}]
        \/ op' = [op EXCEPT !.waiting = @ \ {id}, !.verify = @ \cup worker[id].body]
        \/ op' = [op EXCEPT !.waiting = @ \ {id}, !.error = TRUE]
    BY DEF Collect
  <2>2. CASE op' = [op EXCEPT !.waiting = @ \ {id}]
    BY <1>1, <2>2 DEF OpRecords
  <2>4. CASE op' = [op EXCEPT !.waiting = @ \ {id}, !.verify = @ \cup worker[id].body]
    BY <1>1, <2>4 DEF OpRecords
  <2>5. CASE op' = [op EXCEPT !.waiting = @ \ {id}, !.error = TRUE]
    BY <1>1, <2>5 DEF OpRecords
  <2>6. QED
    BY <2>1, <2>2, <2>4, <2>5
<1>4. QED
  BY <1>2, <1>3 DEF Collect, TypeOK, networkVars

LEMMA DeadlineType ==
  ASSUME TypeOK, Deadline
  PROVE  TypeOK'
<1>1. status' \in [Items -> SUBSET Statuses]
  BY SetType, SetCheckType DEF Deadline, TypeOK, Statuses
<1>2. op' \in OpRecords
  BY DEF Deadline, TypeOK, OpRecords
<1>3. /\ worker' \in [WorkerIds -> WorkerRecords]
      /\ \A id \in WorkerIds : WithinRetries(worker[id])'
  <2>1. \A id \in WorkerIds :
          /\ [worker[id] EXCEPT !.state = "cancelled"] \in WorkerRecords
          /\ WithinRetries([worker[id] EXCEPT !.state = "cancelled"])
    BY DEF TypeOK, WorkerRecords, WithinRetries
  <2>2. /\ CancelQueued
        /\ \A id \in WorkerIds :
             worker'[id] \in {[worker[id] EXCEPT !.state = "cancelled"], worker[id]}
    BY DEF Deadline, CancelQueued
  <2>3. \A id \in WorkerIds : worker'[id] \in WorkerRecords /\ WithinRetries(worker'[id])
    BY <2>1, <2>2 DEF TypeOK
  <2>4. QED
    BY <2>2, <2>3 DEF CancelQueued, WithinRetries
<1>4. deadlines' \in Nat
  BY DEF Deadline, TypeOK
<1>5. QED
  BY <1>1, <1>2, <1>3, <1>4 DEF Deadline, TypeOK

LEMMA EndType ==
  ASSUME TypeOK, AllAnswered \/ Stop \/ Done
  PROVE  TypeOK'
<1>1. op' \in OpRecords
  BY DEF AllAnswered, Stop, Done, End, TypeOK, OpRecords
<1>2. QED
  BY <1>1 DEF AllAnswered, Stop, Done, TypeOK, networkVars

LEMMA VerifyType ==
  ASSUME TypeOK, NEW i \in Items, Verify(i)
  PROVE  TypeOK'
<1>1. status' \in [Items -> SUBSET Statuses]
  BY SetCheckType DEF Verify, TypeOK
<1>2. op' \in OpRecords
  <2>1. op \in OpRecords
    BY DEF TypeOK
  <2>2. \/ op' = [op EXCEPT !.verify = @ \ {i}]
        \/ op' = [op EXCEPT !.phase = "idle", !.outcome = "aborted"]
    BY DEF Verify, End
  <2>3. CASE op' = [op EXCEPT !.verify = @ \ {i}]
    BY <2>1, <2>3 DEF OpRecords
  <2>5. CASE op' = [op EXCEPT !.phase = "idle", !.outcome = "aborted"]
    BY <2>1, <2>5 DEF OpRecords
  <2>6. QED
    BY <2>2, <2>3, <2>5
<1>3. faults' \in 0 .. MaxFaults
  BY ConstantTypes DEF Verify, TypeOK
<1>4. QED
  BY <1>1, <1>2, <1>3 DEF Verify, TypeOK, networkVars

LEMMA TypeStep ==
  ASSUME TypeOK, [Next]_vars
  PROVE  TypeOK'
<1>1. CASE CallerStep
  <2>1. op.waiting \subseteq WorkerIds
    BY DEF TypeOK, OpRecords
  <2>2. QED
    BY <1>1, CollectType, DeadlineType, EndType, VerifyType DEF CallerStep
<1>2. CASE UserStep
  <2>1. ASSUME NEW i \in Items, Sign(i) PROVE TypeOK'
    BY <2>1, SetStatusType DEF Sign, TypeOK, networkVars, Statuses
  <2>2. QED
    BY <1>2, <2>1, StartType DEF UserStep
<1>3. CASE ThreadStep
  BY <1>3, RunType, TimesOutType, BreaksType, ReceiveType DEF ThreadStep
<1>4. CASE ServerStep
  BY <1>4, ServerType DEF ServerStep
<1>5. CASE UNCHANGED vars
  BY <1>5 DEF vars, clientVars, networkVars, TypeOK
<1>6. QED
  BY <1>1, <1>2, <1>3, <1>4, <1>5 DEF Next

(* The records of the delivery keep their shape, and no thread makes more  *)
(* attempts than PUSH_MAX_RETRIES or CHECK_MAX_RETRIES allow.              *)
THEOREM DeliveryTypeCorrect == Spec => []TypeOK
BY TypeInit, TypeStep, PTL DEF Spec

-----------------------------------------------------------------------------
(* What is known of the servers, step by step.                             *)

LEMMA KnownInit == Init => Known
<1> SUFFICES ASSUME Init PROVE Known
  OBVIOUS
<1>1. \A id \in WorkerIds : worker[id].result = "none" /\ worker[id].state = "none"
  BY DEF Init, NoWorker
<1>2. requests = {} /\ replies = {}
  BY DEF Init
<1>3. ResultsAreTrue
  BY <1>1 DEF ResultsAreTrue, Says
<1>4. QED
  BY <1>1, <1>2, <1>3 DEF Known, RepliesAreTrue, DupsAreStored, MessagesArePast

(* Every step but the start of an operation: no thread changes its body,   *)
(* no row disappears, and what is new is true.                             *)
LEMMA KnownKept ==
  ASSUME TypeOK, Known, TypeOK',
         stored \subseteq stored', op'.n = op.n,
         \A id \in WorkerIds :
           /\ worker'[id].body = worker[id].body
           /\ worker'[id].result = worker[id].result \/ Says(id, worker'[id].result)
           /\ worker'[id].state # "none" => worker[id].state # "none",
         \A r \in replies' : r \in replies \/ (Says(r.id, r.text)' /\ r.id[1] <= op.n),
         \A r \in requests' : r \in requests \/ (r.dups \subseteq stored /\ r.id[1] <= op.n)
  PROVE  Known'
<1>1. ASSUME NEW id \in WorkerIds, NEW text, Says(id, text)
      PROVE  Says(id, text)'
  BY <1>1 DEF Says
<1>2. RepliesAreTrue'
  <2>1. \A r \in replies : r.id \in WorkerIds
    BY DEF TypeOK, ReplyRecords
  <2>2. QED
    BY <1>1, <2>1 DEF Known, RepliesAreTrue
<1>3. ResultsAreTrue'
  <2>1. \A id \in WorkerIds : Says(id, worker[id].result)
    BY DEF Known, ResultsAreTrue
  <2>2. \A id \in WorkerIds : Says(id, worker'[id].result)
    BY <2>1
  <2>3. QED
    BY <2>2 DEF ResultsAreTrue, Says
<1>4. DupsAreStored'
  BY DEF Known, DupsAreStored
<1>5. MessagesArePast'
  BY DEF Known, MessagesArePast
<1>6. QED
  BY <1>2, <1>3, <1>4, <1>5 DEF Known

LEMMA StartOpKnown ==
  ASSUME TypeOK, Known, NEW c, NEW kind, NEW targets, NEW bodies,
         StartOp(c, kind, targets, bodies)
  PROVE  Known'
<1> DEFINE n == op.n + 1
           ids == {<<n, k>> : k \in DOMAIN bodies}
<1>1. op.n \in Int
  BY ConstantTypes DEF TypeOK, OpRecords
<1>2. /\ op'.n = n
      /\ worker' = [id \in WorkerIds |->
           IF id \in ids THEN Submitted(kind, bodies[id[2]]) ELSE worker[id]]
      /\ UNCHANGED <<requests, replies, stored>>
  BY DEF StartOp
<1>3. \A id \in ids : id[1] = n
  OBVIOUS
<1> HIDE DEF ids
<1>4. \A id \in WorkerIds : id[1] \in Int
  BY DEF WorkerIds
<1>5. \A id \in WorkerIds : id[1] <= op.n => worker'[id] = worker[id]
  BY <1>1, <1>2, <1>3
<1>6. (\A r \in requests : r.id \in WorkerIds) /\ (\A r \in replies : r.id \in WorkerIds)
  BY DEF TypeOK, RequestRecords, ReplyRecords
<1>7. RepliesAreTrue'
  BY <1>2, <1>5, <1>6 DEF Known, RepliesAreTrue, MessagesArePast, Says
<1>8. ResultsAreTrue'
  <2>1. ASSUME NEW id \in WorkerIds
        PROVE  Says(id, worker[id].result)'
    <3>1. CASE id \in ids
      <4>1. worker'[id].result = "none"
        BY <1>2, <3>1 DEF Submitted
      <4>2. QED
        BY <4>1 DEF Says
    <3>2. CASE id \notin ids
      <4>1. worker'[id] = worker[id]
        BY <1>2, <3>2
      <4>2. QED
        BY <1>2, <4>1 DEF Known, ResultsAreTrue, Says
    <3>3. QED
      BY <3>1, <3>2
  <2>2. QED
    BY <2>1 DEF ResultsAreTrue
<1>9. DupsAreStored'
  BY <1>2 DEF Known, DupsAreStored
<1>10. MessagesArePast'
  <2>1. ASSUME NEW id \in WorkerIds, worker'[id].state # "none"
        PROVE  id[1] <= n
    <3>1. CASE id \in ids
      BY <1>1, <1>3, <3>1
    <3>2. CASE id \notin ids
      BY <1>1, <1>2, <1>4, <2>1, <3>2 DEF Known, MessagesArePast
    <3>3. QED
      BY <3>1, <3>2
  <2>2. /\ \A r \in requests : r.id[1] <= n
        /\ \A r \in replies : r.id[1] <= n
    BY <1>1, <1>4, <1>6 DEF Known, MessagesArePast
  <2>3. QED
    BY <1>2, <2>1, <2>2 DEF MessagesArePast
<1>11. QED
  BY <1>7, <1>8, <1>9, <1>10 DEF Known

(* The steps of the caller and the user leave what is known as it is.      *)
LEMMA CallerKnown ==
  ASSUME TypeOK, Known, TypeOK', CallerStep \/ (\E i \in Items : Sign(i)) \/ UNCHANGED vars
  PROVE  Known'
<1>1. op'.n = op.n
  <2>1. op \in OpRecords
    BY DEF TypeOK
  <2>2. QED
    BY <2>1 DEF CallerStep, Sign, vars, clientVars, Deadline, AllAnswered, Stop, Done, End,
                Collect, Verify, OpRecords
<1>2. UNCHANGED <<requests, replies, stored>>
  BY DEF CallerStep, Sign, vars, networkVars, Deadline, AllAnswered, Stop, Done, Collect, Verify
<1>3. worker' = worker \/ CancelQueued
  BY DEF CallerStep, Sign, vars, networkVars, Deadline, AllAnswered, Stop, Done, Collect, Verify
<1>4. \A id \in WorkerIds :
        /\ worker'[id].body = worker[id].body
        /\ worker'[id].result = worker[id].result
        /\ worker'[id].state # "none" => worker[id].state # "none"
  <2>1. CASE worker' = worker
    BY <2>1
  <2>2. CASE CancelQueued
    <3>1. ASSUME NEW id \in WorkerIds
          PROVE  \/ worker'[id] = worker[id]
                 \/ /\ worker'[id] = [worker[id] EXCEPT !.state = "cancelled"]
                    /\ worker[id].state = "queued"
      BY <2>2 DEF CancelQueued
    <3>2. \A id \in WorkerIds : worker[id] \in WorkerRecords
      BY DEF TypeOK
    <3>3. QED
      BY <3>1, <3>2 DEF WorkerRecords
  <2>3. QED
    BY <1>3, <2>1, <2>2
<1>5. QED
  BY <1>1, <1>2, <1>4, KnownKept

LEMMA UserKnown ==
  ASSUME TypeOK, Known, TypeOK', UserStep
  PROVE  Known'
<1>1. CASE \E i \in Items : Sign(i)
  BY <1>1, CallerKnown
<1>2. ASSUME NEW c, NEW force, NEW chosen, StartPush(c, force, chosen) \/ StartCheck(c, chosen)
      PROVE  Known'
  BY <1>2, StartOpKnown DEF StartPush, StartCheck
<1>3. QED
  BY <1>1, <1>2 DEF UserStep

LEMMA FinishKnown ==
  ASSUME TypeOK, Known, TypeOK', NEW id \in WorkerIds,
         NEW result \in {"none", "thx", "already present", "error", "found"},
         worker[id].state = "running", Finish(id, result), Says(id, result),
         replies' \subseteq replies, UNCHANGED <<op, requests, stored>>
  PROVE  Known'
<1>1. \A k \in WorkerIds :
        /\ worker'[k].body = worker[k].body
        /\ worker'[k].result = worker[k].result \/ Says(k, worker'[k].result)
        /\ worker'[k].state # "none" => worker[k].state # "none"
  BY FinishType
<1>2. QED
  BY <1>1, KnownKept

LEMMA PostKnown ==
  ASSUME TypeOK, Known, TypeOK', NEW id \in WorkerIds, NEW attempt,
         worker[id].state \in {"queued", "running"}, Post(id, attempt),
         \A k \in WorkerIds :
           /\ worker'[k].body = worker[k].body
           /\ worker'[k].result = worker[k].result
           /\ worker'[k].state # "none" => worker[k].state # "none",
         replies' \subseteq replies, UNCHANGED <<op, stored>>
  PROVE  Known'
<1>1. id[1] <= op.n
  BY DEF Known, MessagesArePast
<1>2. \A r \in requests' : r \in requests \/ (r.dups \subseteq stored /\ r.id[1] <= op.n)
  BY <1>1 DEF Post
<1>3. QED
  BY <1>2, KnownKept

LEMMA UpdateFields ==
  ASSUME TypeOK, NEW id \in WorkerIds, worker[id].state # "none",
         \/ worker' = [worker EXCEPT ![id].state = "running"]
         \/ worker' = [worker EXCEPT ![id].attempt = @ + 1]
  PROVE  \A k \in WorkerIds :
           /\ worker'[k].body = worker[k].body
           /\ worker'[k].result = worker[k].result
           /\ worker'[k].state # "none" => worker[k].state # "none"
<1>1. worker[id] \in WorkerRecords /\ worker \in [WorkerIds -> WorkerRecords]
  BY DEF TypeOK
<1>2. \A k \in WorkerIds : k # id => worker'[k] = worker[k]
  BY <1>1
<1>3. \/ worker'[id] = [worker[id] EXCEPT !.state = "running"]
      \/ worker'[id] = [worker[id] EXCEPT !.attempt = @ + 1]
  BY <1>1
<1>4. worker'[id].body = worker[id].body /\ worker'[id].result = worker[id].result
  BY <1>1, <1>3 DEF WorkerRecords
<1>5. QED
  BY <1>2, <1>4

LEMMA ThreadKnown ==
  ASSUME TypeOK, Known, TypeOK', ThreadStep
  PROVE  Known'
<1>1. ASSUME NEW id \in WorkerIds, Run(id)
      PROVE  Known'
  <2>1. worker' = [worker EXCEPT ![id].state = "running"] /\ worker[id].state = "queued"
        /\ Post(id, 0) /\ UNCHANGED <<op, replies, stored>>
    BY <1>1 DEF Run, clientVars
  <2>2. \A k \in WorkerIds :
          /\ worker'[k].body = worker[k].body
          /\ worker'[k].result = worker[k].result
          /\ worker'[k].state # "none" => worker[k].state # "none"
    BY <2>1, UpdateFields
  <2>3. QED
    BY <2>1, <2>2, PostKnown
<1>2. ASSUME NEW id \in WorkerIds, TimesOut(id)
      PROVE  Known'
  <2>1. worker[id].state = "running" /\ replies' \subseteq replies /\ UNCHANGED <<op, stored>>
    BY <1>2 DEF TimesOut, clientVars
  <2>2. CASE worker' = [worker EXCEPT ![id].attempt = @ + 1]
             /\ Post(id, worker[id].attempt + 1)
    <3>1. \A k \in WorkerIds :
            /\ worker'[k].body = worker[k].body
            /\ worker'[k].result = worker[k].result
            /\ worker'[k].state # "none" => worker[k].state # "none"
      BY <2>1, <2>2, UpdateFields
    <3>2. QED
      BY <2>1, <2>2, <3>1, PostKnown
  <2>3. CASE Finish(id, "none") /\ UNCHANGED requests
    BY <2>1, <2>3, FinishKnown DEF Says
  <2>4. QED
    BY <1>2, <2>2, <2>3 DEF TimesOut
<1>3. ASSUME NEW id \in WorkerIds, Breaks(id)
      PROVE  Known'
  BY <1>3, FinishKnown DEF Breaks, Says, clientVars
<1>4. ASSUME NEW r \in replies, Receive(r)
      PROVE  Known'
  <2> DEFINE result == IF r.text = "error" /\ worker[r.id].kind = "check" THEN "none" ELSE r.text
  <2>1. r.id \in WorkerIds
        /\ result \in {"none", "thx", "already present", "error", "found"}
    BY DEF TypeOK, ReplyRecords
  <2>2. Says(r.id, result)
    BY DEF Known, RepliesAreTrue, Says
  <2>3. /\ worker[r.id].state = "running" /\ Finish(r.id, result)
        /\ replies' \subseteq replies /\ UNCHANGED <<op, requests, stored>>
    BY <1>4 DEF Receive, clientVars
  <2> HIDE DEF result
  <2>4. QED
    BY <2>1, <2>2, <2>3, FinishKnown
<1>5. QED
  BY <1>1, <1>2, <1>3, <1>4 DEF ThreadStep

(* An answer is true when it is given.                                     *)
LEMMA AnswerKnown ==
  ASSUME TypeOK, Known, TypeOK', NEW r \in requests, NEW text, Answer(r, text),
         stored \subseteq stored', UNCHANGED <<op, worker>>, Says(r.id, text)'
  PROVE  Known'
<1>1. r.id[1] <= op.n
  BY DEF Known, MessagesArePast
<1>2. \A reply \in replies' :
        reply \in replies \/ (Says(reply.id, reply.text)' /\ reply.id[1] <= op.n)
  BY <1>1 DEF Answer
<1>3. requests' \subseteq requests
  BY DEF Answer
<1>4. QED
  BY <1>2, <1>3, KnownKept

LEMMA ServerKnown ==
  ASSUME TypeOK, Known, TypeOK', ServerStep
  PROVE  Known'
<1> SUFFICES ASSUME NEW r \in requests, PushTxs(r) \/ PushInserts(r) \/ SearchTx(r)
             PROVE  Known'
  BY DEF ServerStep
<1>1. UNCHANGED <<op, worker>> /\ stored \subseteq stored'
  BY DEF PushTxs, PushInserts, SearchTx, clientVars
<1>2. CASE PushTxs(r)
  <2>1. CASE Answer(r, "error")
    BY <1>1, <2>1, AnswerKnown DEF Says
  <2>2. CASE Accepted(r) \subseteq stored /\ Answer(r, "already present")
    BY <1>1, <2>2, AnswerKnown DEF Says, Accepted
  <2>3. CASE /\ requests' = (requests \ {r}) \cup
                  {[r EXCEPT !.checked = TRUE, !.dups = Accepted(r) \cap stored]}
             /\ UNCHANGED replies
    <3> DEFINE q == [r EXCEPT !.checked = TRUE, !.dups = Accepted(r) \cap stored]
    <3>1. r \in RequestRecords /\ r.id[1] <= op.n
      BY DEF TypeOK, Known, MessagesArePast
    <3>2. q.dups = Accepted(r) \cap stored /\ q.id = r.id
      BY <3>1 DEF RequestRecords
    <3>3. requests' = (requests \ {r}) \cup {q}
      BY <2>3
    <3> HIDE DEF q
    <3>4. \A k \in requests' : k \in requests \/ (k.dups \subseteq stored /\ k.id[1] <= op.n)
      BY <3>1, <3>2, <3>3
    <3>5. QED
      BY <1>1, <2>3, <3>4, KnownKept
  <2>4. QED
    BY <1>2, <2>1, <2>2, <2>3 DEF PushTxs
<1>3. CASE PushInserts(r)
  <2>1. CASE Answer(r, "error")
    BY <1>1, <2>1, AnswerKnown DEF Says
  <2>2. CASE Answer(r, "thx") /\ stored' = stored \cup (Accepted(r) \ r.dups)
    <3>1. r.dups \subseteq stored
      BY DEF Known, DupsAreStored
    <3>2. Says(r.id, "thx")'
      BY <1>1, <2>2, <3>1 DEF Says, Accepted
    <3>3. QED
      BY <1>1, <2>2, <3>2, AnswerKnown
  <2>3. QED
    BY <1>3, <2>1, <2>2 DEF PushInserts
<1>4. CASE SearchTx(r)
  <2>1. CASE worker[r.id].body \subseteq stored
    <3>1. Answer(r, "found")
      BY <1>4, <2>1 DEF SearchTx
    <3>2. QED
      BY <1>1, <2>1, <3>1, AnswerKnown DEF Says
  <2>2. CASE ~(worker[r.id].body \subseteq stored)
    <3>1. Answer(r, "error")
      BY <1>4, <2>2 DEF SearchTx
    <3>2. QED
      BY <1>1, <3>1, AnswerKnown DEF Says
  <2>3. QED
    BY <2>1, <2>2
<1>5. QED
  BY <1>2, <1>3, <1>4

LEMMA KnownStep ==
  ASSUME TypeOK, Known, [Next]_vars
  PROVE  Known'
BY TypeStep, CallerKnown, UserKnown, ThreadKnown, ServerKnown DEF Next

-----------------------------------------------------------------------------
(* The marks.                                                              *)

LEMMA MarksByItem == MarksAreTrue <=> \A i \in Items : MarksOf(i, status[i])
BY DEF MarksAreTrue, CheckedIsStored, PushedIsStored, MarksOf

(* A flag is set: PUSHED only on what is stored or does not pay.           *)
LEMMA SetKeepsMarks ==
  ASSUME NEW i \in Items, NEW st \in SUBSET Statuses, MarksOf(i, st),
         NEW flag \in {"COMPLETE", "PUSHED", "PUSH_FAIL", "CHECK_FAIL"},
         flag = "PUSHED" => (i \in Paying => i \in stored)
  PROVE  MarksOf(i, SetStatus(st, flag))
BY SetStatusMarks DEF MarksOf

(* A check is noted: found only if it is stored.                           *)
LEMMA CheckKeepsMarks ==
  ASSUME NEW i \in Items, NEW st \in SUBSET Statuses, MarksOf(i, st), NEW answer,
         answer = "found" => i \in stored
  PROVE  MarksOf(i, SetCheck(st, answer))
<1>1. CASE answer = "found"
  BY <1>1 DEF MarksOf
<1>2. CASE answer # "found"
  BY <1>2, SetCheckMarks DEF MarksOf
<1>3. QED
  BY <1>1, <1>2

LEMMA MarksKept ==
  ASSUME TypeOK, MarksAreTrue, stored \subseteq stored',
         \A i \in Items :
           status'[i] = status[i] \/ MarksOf(i, status'[i])
  PROVE  MarksAreTrue'
BY MarksByItem DEF MarksAreTrue, CheckedIsStored, PushedIsStored, MarksOf

LEMMA MarksStep ==
  ASSUME DeliveryInv, [Next]_vars
  PROVE  MarksAreTrue'
<1>1. /\ TypeOK /\ Known /\ MarksAreTrue
      /\ \A i \in Items : status[i] \in SUBSET Statuses /\ MarksOf(i, status[i])
  BY MarksByItem DEF DeliveryInv, TypeOK
<1>2. CASE CallerStep
  <2>1. stored' = stored
    BY <1>2 DEF CallerStep, Deadline, AllAnswered, Stop, Done, Collect, Verify, networkVars
  <2>2. ASSUME NEW id \in op.waiting, Collect(id)
        PROVE  MarksAreTrue'
    <3>1. Says(id, worker[id].result)
      BY <1>1 DEF TypeOK, OpRecords, Known, ResultsAreTrue
    <3>2. CASE status' = [i \in Items |->
                 IF i \in worker[id].body THEN SetCheck(status[i], worker[id].result) ELSE status[i]]
      <4>1. ASSUME NEW i \in Items
            PROVE  status'[i] = status[i] \/ MarksOf(i, status'[i])
        BY <1>1, <3>1, <3>2, CheckKeepsMarks DEF Says
      <4>2. QED
        BY <1>1, <2>1, <4>1, MarksKept
    <3>3. CASE worker[id].result = "thx" /\ Set(worker[id].body, "PUSHED")
      <4>1. ASSUME NEW i \in Items
            PROVE  status'[i] = status[i] \/ MarksOf(i, status'[i])
        BY <1>1, <3>1, <3>3, SetKeepsMarks DEF Says, Set
      <4>2. QED
        BY <1>1, <2>1, <4>1, MarksKept
    <3>4. CASE Set(worker[id].body, "PUSH_FAIL")
      <4>1. ASSUME NEW i \in Items
            PROVE  status'[i] = status[i] \/ MarksOf(i, status'[i])
        BY <1>1, <3>4, SetKeepsMarks DEF Set
      <4>2. QED
        BY <1>1, <2>1, <4>1, MarksKept
    <3>5. CASE UNCHANGED status
      BY <1>1, <2>1, <3>5, MarksKept
    <3>6. QED
      BY <2>2, <3>2, <3>3, <3>4, <3>5 DEF Collect
  <2>3. CASE Deadline
    <3>1. ASSUME NEW i \in Items
          PROVE  status'[i] = status[i] \/ MarksOf(i, status'[i])
      BY <1>1, <2>3, SetKeepsMarks, CheckKeepsMarks DEF Deadline, Set
    <3>2. QED
      BY <1>1, <2>1, <3>1, MarksKept
  <2>4. CASE AllAnswered \/ Stop \/ Done
    <3>1. UNCHANGED status
      BY <2>4 DEF AllAnswered, Stop, Done
    <3>2. QED
      BY <1>1, <2>1, <3>1, MarksKept
  <2>5. ASSUME NEW i \in Items, Verify(i)
        PROVE  MarksAreTrue'
    <3>1. \/ i \in stored /\ status' = [status EXCEPT ![i] = SetCheck(@, "found")]
          \/ status' = [status EXCEPT ![i] = SetCheck(@, "none")]
          \/ UNCHANGED status
      BY <2>5 DEF Verify
    <3>2. ASSUME NEW k \in Items
          PROVE  status'[k] = status[k] \/ MarksOf(k, status'[k])
      BY <1>1, <3>1, CheckKeepsMarks DEF TypeOK
    <3>3. QED
      BY <1>1, <2>1, <3>2, MarksKept
  <2>6. QED
    BY <1>2, <2>2, <2>3, <2>4, <2>5 DEF CallerStep
<1>3. CASE UserStep
  <2>1. ASSUME NEW i \in Items, Sign(i)
        PROVE  MarksAreTrue'
    <3>1. ASSUME NEW k \in Items
          PROVE  status'[k] = status[k] \/ MarksOf(k, status'[k])
      BY <1>1, <2>1, SetKeepsMarks DEF Sign, TypeOK
    <3>2. QED
      BY <1>1, <2>1, <3>1, MarksKept DEF Sign
  <2>2. ASSUME NEW c, NEW force, NEW chosen, StartPush(c, force, chosen) \/ StartCheck(c, chosen)
        PROVE  MarksAreTrue'
    BY <1>1, <2>2, MarksKept DEF StartPush, StartCheck, StartOp
  <2>3. QED
    BY <1>3, <2>1, <2>2 DEF UserStep
<1>4. CASE ThreadStep
  <2>1. UNCHANGED <<status, stored>>
    BY <1>4 DEF ThreadStep, Run, TimesOut, Breaks, Receive, clientVars
  <2>2. QED
    BY <1>1, <2>1, MarksKept
<1>5. CASE ServerStep
  <2>1. UNCHANGED status /\ stored \subseteq stored'
    BY <1>5 DEF ServerStep, PushTxs, PushInserts, SearchTx, clientVars
  <2>2. QED
    BY <1>1, <2>1, MarksKept
<1>6. CASE UNCHANGED vars
  BY <1>1, <1>6, MarksKept DEF vars, clientVars
<1>7. QED
  BY <1>2, <1>3, <1>4, <1>5, <1>6 DEF Next

LEMMA DeliveryInvHolds == Spec => []DeliveryInv
<1>1. Init => DeliveryInv
  <2>1. Init => MarksAreTrue
    BY DEF Init, MarksAreTrue, CheckedIsStored, PushedIsStored
  <2>2. QED
    BY <2>1, TypeInit, KnownInit DEF DeliveryInv
<1>2. DeliveryInv /\ [Next]_vars => DeliveryInv'
  BY TypeStep, KnownStep, MarksStep DEF DeliveryInv
<1>3. QED
  BY <1>1, <1>2, PTL DEF Spec

(* "Confirmed on server" is true of every item that says so, whatever      *)
(* timed out, broke or came late, with any number of executors, threads    *)
(* and operations.                                                         *)
THEOREM ConfirmationsAreTrue == Spec => []CheckedIsStored
<1>1. DeliveryInv => CheckedIsStored
  BY DEF DeliveryInv, MarksAreTrue
<1>2. QED
  BY <1>1, DeliveryInvHolds, PTL

(* "Sent" is true of every item that pays its executor.                    *)
THEOREM PushesAreTrue == Spec => []PushedIsStored
<1>1. DeliveryInv => PushedIsStored
  BY DEF DeliveryInv, MarksAreTrue
<1>2. QED
  BY <1>1, DeliveryInvHolds, PTL

-----------------------------------------------------------------------------
(* A broadcast of the wizard marks every item.                             *)

HasMark(st) == st \cap {"PUSHED", "PUSH_FAIL", "CHECK_FAIL"} # {}
Marked(i) == HasMark(status[i])

(* An item the wizard pushes has its mark, or is to be looked up, or is in *)
(* the hands of a thread the caller still waits for.                       *)
WizardInOrder ==
  /\ op.kind = "push"
  /\ op.phase = "wait" => \A i \in op.targets :
       Marked(i) \/ i \in op.verify \/ \E id \in op.waiting : i \in worker[id].body
  /\ op.phase = "verify" => \A i \in op.targets : Marked(i) \/ i \in op.verify
  /\ op.phase = "idle" /\ op.outcome \in {"success", "error"} => \A i \in op.targets : Marked(i)

WizardInv ==
  /\ op.phase # "idle" => op.outcome = "none"
  /\ op.caller = "wizard" => WizardInOrder

(* As long as no call has failed and no deadline has passed, every message *)
(* belongs to a thread the caller waits for, no two of them push the same  *)
(* item, and a push is refused only if none of its items pays.             *)
Refused(result) == result \notin {"thx", "already present"}

Calm ==
  /\ op.phase # "wait" => op.waiting = {}
  /\ \A id \in op.waiting :
       /\ id[1] = op.n /\ worker[id].kind = op.kind
       /\ op.kind = "push" => \A i \in worker[id].body : ServerOf[i] = id[2]
       /\ (op.kind = "push" /\ worker[id].state = "finished" /\ Refused(worker[id].result)) =>
            worker[id].body \cap Paying = {}
  /\ \A id \in WorkerIds : worker[id].state \in {"queued", "running"} => id \in op.waiting
  /\ \A r \in requests \cup replies : worker[r.id].state = "running"
  /\ \A r, s \in requests : r.id = s.id => r = s
  /\ \A r, s \in replies : r.id = s.id => r = s
  /\ \A r \in requests, s \in replies : r.id # s.id
  /\ \A r \in requests : r.checked => op.kind = "push" /\ Accepted(r) \cap stored \subseteq r.dups
  /\ \A r \in replies : (op.kind = "push" /\ Refused(r.text)) => worker[r.id].body \cap Paying = {}
  /\ \A i \in Paying : "PUSH_FAIL" \notin status[i]

CalmInv == faults = 0 /\ deadlines = 0 => Calm

-----------------------------------------------------------------------------
(* What a step does to the flags and to the bodies of the threads.         *)

Flags == {"COMPLETE", "PUSHED", "PUSH_FAIL", "CHECK_FAIL"}

StatusMoves(i) ==
  \/ status'[i] = status[i]
  \/ \E flag \in Flags : status'[i] = SetStatus(status[i], flag)
  \/ \E answer : status'[i] = SetCheck(status[i], answer)

LEMMA StatusStep ==
  ASSUME TypeOK, [Next]_vars, NEW i \in Items
  PROVE  StatusMoves(i)
<1>1. status \in [Items -> SUBSET Statuses]
  BY DEF TypeOK
<1>2. CASE UNCHANGED status
  BY <1>2 DEF StatusMoves
<1>3. ASSUME NEW items, NEW flag \in Flags, Set(items, flag) PROVE StatusMoves(i)
  BY <1>3 DEF StatusMoves, Set
<1>4. ASSUME NEW items, NEW answer,
             status' = [k \in Items |-> IF k \in items THEN SetCheck(status[k], answer) ELSE status[k]]
      PROVE  StatusMoves(i)
  <2>1. status'[i] = status[i] \/ status'[i] = SetCheck(status[i], answer)
    BY <1>4
  <2>2. QED
    BY <2>1 DEF StatusMoves
<1>5. ASSUME NEW k \in Items, NEW answer, status' = [status EXCEPT ![k] = SetCheck(@, answer)]
      PROVE  StatusMoves(i)
  <2>1. status'[i] = status[i] \/ status'[i] = SetCheck(status[i], answer)
    BY <1>1, <1>5
  <2>2. QED
    BY <2>1 DEF StatusMoves
<1>6. CASE CallerStep
  <2>1. ASSUME NEW id \in op.waiting, Collect(id) PROVE StatusMoves(i)
    <3>1. \/ status' = [k \in Items |->
               IF k \in worker[id].body THEN SetCheck(status[k], worker[id].result) ELSE status[k]]
          \/ Set(worker[id].body, "PUSHED") \/ Set(worker[id].body, "PUSH_FAIL")
          \/ UNCHANGED status
      BY <2>1 DEF Collect
    <3>2. QED
      BY <1>2, <1>3, <1>4, <3>1 DEF Flags
  <2>2. CASE Deadline
    <3> DEFINE missing == UNION {worker[id].body : id \in op.waiting}
    <3>1. \/ status' = [k \in Items |->
               IF k \in missing THEN SetCheck(status[k], "none") ELSE status[k]]
          \/ Set(missing, "PUSH_FAIL")
          \/ UNCHANGED status
      BY <2>2 DEF Deadline
    <3> HIDE DEF missing
    <3>2. QED
      BY <1>2, <1>3, <1>4, <3>1 DEF Flags
  <2>3. ASSUME NEW k \in Items, Verify(k) PROVE StatusMoves(i)
    <3>1. \/ status' = [status EXCEPT ![k] = SetCheck(@, "found")]
          \/ status' = [status EXCEPT ![k] = SetCheck(@, "none")]
          \/ UNCHANGED status
      BY <2>3 DEF Verify
    <3>2. QED
      BY <1>2, <1>5, <3>1
  <2>4. CASE AllAnswered \/ Stop \/ Done
    BY <1>2, <2>4 DEF AllAnswered, Stop, Done
  <2>5. QED
    BY <1>6, <2>1, <2>2, <2>3, <2>4 DEF CallerStep
<1>7. CASE UserStep
  <2>1. ASSUME NEW k \in Items, Sign(k) PROVE StatusMoves(i)
    <3>1. status'[i] = status[i] \/ status'[i] = SetStatus(status[i], "COMPLETE")
      BY <1>1, <2>1 DEF Sign
    <3>2. QED
      BY <3>1 DEF StatusMoves, Flags
  <2>2. ASSUME NEW c, NEW force, NEW chosen, StartPush(c, force, chosen) \/ StartCheck(c, chosen)
        PROVE  StatusMoves(i)
    BY <1>2, <2>2 DEF StartPush, StartCheck, StartOp
  <2>3. QED
    BY <1>7, <2>1, <2>2 DEF UserStep
<1>8. CASE ThreadStep \/ ServerStep \/ UNCHANGED vars
  BY <1>2, <1>8 DEF ThreadStep, ServerStep, Run, Receive, TimesOut, Breaks, PushTxs, PushInserts,
                    SearchTx, clientVars, vars
<1>9. QED
  BY <1>6, <1>7, <1>8 DEF Next

(* A mark may be replaced by another one, but never goes.                  *)
LEMMA SetStatusLeavesMark ==
  ASSUME NEW st \in SUBSET Statuses, NEW flag \in Flags
  PROVE  /\ HasMark(st) => HasMark(SetStatus(st, flag))
         /\ flag # "COMPLETE" => HasMark(SetStatus(st, flag))
BY DEF HasMark, SetStatus, Flags

LEMMA SetCheckLeavesMark ==
  ASSUME NEW st \in SUBSET Statuses, NEW answer
  PROVE  HasMark(SetCheck(st, answer))
BY DEF HasMark, SetCheck, SetStatus

LEMMA MarkedStays ==
  ASSUME TypeOK, [Next]_vars, NEW i \in Items, Marked(i)
  PROVE  Marked(i)'
<1>1. status[i] \in SUBSET Statuses
  BY DEF TypeOK
<1>2. StatusMoves(i)
  BY StatusStep
<1>3. QED
  BY <1>1, <1>2, SetStatusLeavesMark, SetCheckLeavesMark DEF StatusMoves, Marked

(* A thread keeps its items, and what it is for.                           *)
LEMMA BodiesKept ==
  ASSUME TypeOK, ThreadStep \/ ServerStep
  PROVE  /\ \A id \in WorkerIds : worker'[id].body = worker[id].body /\ worker'[id].kind = worker[id].kind
         /\ UNCHANGED <<status, op>>
<1>1. worker \in [WorkerIds -> WorkerRecords]
  BY DEF TypeOK
<1>3. CASE ThreadStep
  <2>1. UNCHANGED <<status, op>>
    BY <1>3 DEF ThreadStep, Run, Receive, TimesOut, Breaks, clientVars
  <2>2. PICK id \in WorkerIds :
          \/ worker' = [worker EXCEPT ![id].state = "running"]
          \/ worker' = [worker EXCEPT ![id].attempt = @ + 1]
          \/ \E result : Finish(id, result)
    <3>1. \A r \in replies : r.id \in WorkerIds
      BY DEF TypeOK, ReplyRecords
    <3>2. QED
      BY <1>3, <3>1 DEF ThreadStep, Run, Receive, TimesOut, Breaks
  <2>3. PICK w : /\ worker' = [worker EXCEPT ![id] = w]
                 /\ w.body = worker[id].body /\ w.kind = worker[id].kind
    <3>1. worker[id] \in WorkerRecords
      BY <1>1
    <3>2. CASE worker' = [worker EXCEPT ![id].state = "running"]
      <4> DEFINE v == [worker[id] EXCEPT !.state = "running"]
      <4>1. worker' = [worker EXCEPT ![id] = v]
        BY <3>2
      <4>2. v.body = worker[id].body /\ v.kind = worker[id].kind
        BY <3>1 DEF WorkerRecords
      <4> HIDE DEF v
      <4>3. QED
        BY <4>1, <4>2
    <3>3. CASE worker' = [worker EXCEPT ![id].attempt = @ + 1]
      <4> DEFINE v == [worker[id] EXCEPT !.attempt = @ + 1]
      <4>1. worker' = [worker EXCEPT ![id] = v]
        BY <3>3
      <4>2. v.body = worker[id].body /\ v.kind = worker[id].kind
        BY <3>1 DEF WorkerRecords
      <4> HIDE DEF v
      <4>3. QED
        BY <4>1, <4>2
    <3>4. CASE \E result : Finish(id, result)
      <4>1. PICK result : Finish(id, result)
        BY <3>4
      <4> DEFINE v == [worker[id] EXCEPT !.state = "finished", !.result = result]
      <4>2. worker' = [worker EXCEPT ![id] = v]
        BY <1>1, <4>1 DEF Finish
      <4>3. v.body = worker[id].body /\ v.kind = worker[id].kind
        BY <3>1 DEF WorkerRecords
      <4> HIDE DEF v
      <4>4. QED
        BY <4>2, <4>3
    <3>5. QED
      BY <2>2, <3>2, <3>3, <3>4
  <2>4. QED
    BY <1>1, <2>1, <2>3
<1>4. CASE ServerStep
  BY <1>4 DEF ServerStep, PushTxs, PushInserts, SearchTx, clientVars
<1>5. QED
  BY <1>3, <1>4

LEMMA WizardStep ==
  ASSUME TypeOK, WizardInv, [Next]_vars
  PROVE  WizardInv'
<1>1. op \in OpRecords /\ worker \in [WorkerIds -> WorkerRecords]
  BY DEF TypeOK
<1>2. \A i \in Items : Marked(i) => Marked(i)'
  BY MarkedStays
<1>3. op.targets \subseteq Items /\ op.waiting \subseteq WorkerIds
  BY <1>1 DEF OpRecords
<1>4. ASSUME UNCHANGED op, \A id \in WorkerIds : worker'[id].body = worker[id].body
      PROVE  WizardInv'
  BY <1>2, <1>3, <1>4 DEF WizardInv, WizardInOrder
<1>5. ASSUME NEW id \in op.waiting, Collect(id) PROVE WizardInv'
  <2> DEFINE w == worker[id]
  <2>1. /\ op.phase = "wait" /\ UNCHANGED worker
        /\ \/ op.kind = "check" /\ op' = [op EXCEPT !.waiting = @ \ {id}]
           \/ Set(w.body, "PUSHED") /\ op' = [op EXCEPT !.waiting = @ \ {id}]
           \/ op' = [op EXCEPT !.waiting = @ \ {id}, !.verify = @ \cup w.body]
           \/ Set(w.body, "PUSH_FAIL") /\ op' = [op EXCEPT !.waiting = @ \ {id}, !.error = TRUE]
    BY <1>5 DEF Collect, networkVars
  <2>2. /\ op'.kind = op.kind /\ op'.caller = op.caller /\ op'.phase = "wait"
        /\ op'.targets = op.targets /\ op'.outcome = op.outcome
        /\ op'.waiting = op.waiting \ {id} /\ op.verify \subseteq op'.verify
        /\ op.kind = "check" \/ Set(w.body, "PUSHED") \/ Set(w.body, "PUSH_FAIL") \/ w.body \subseteq op'.verify
    BY <1>1, <2>1 DEF OpRecords
  <2>3. op.kind = "push" => \A i \in Items : i \in w.body => Marked(i)' \/ i \in op'.verify
    <3> SUFFICES ASSUME NEW i \in Items, i \in w.body, op.kind = "push",
                        Set(w.body, "PUSHED") \/ Set(w.body, "PUSH_FAIL")
                 PROVE  Marked(i)'
      BY <2>2
    <3>1. status[i] \in SUBSET Statuses
      BY DEF TypeOK
    <3>2. status'[i] = SetStatus(status[i], "PUSHED") \/ status'[i] = SetStatus(status[i], "PUSH_FAIL")
      BY DEF Set
    <3>3. QED
      BY <3>1, <3>2, SetStatusLeavesMark DEF Marked, Flags
  <2>4. QED
    BY <1>2, <1>3, <2>1, <2>2, <2>3 DEF WizardInv, WizardInOrder
<1>6. CASE Deadline
  <2> DEFINE missing == UNION {worker[id].body : id \in op.waiting}
  <2>1. /\ op.phase = "wait" /\ op' = [op EXCEPT !.waiting = {}, !.phase = "verify"]
        /\ (op.kind = "push" /\ op.caller = "wizard") => Set(missing, "PUSH_FAIL")
    BY <1>6 DEF Deadline
  <2>2. /\ op'.kind = op.kind /\ op'.caller = op.caller /\ op'.phase = "verify"
        /\ op'.targets = op.targets /\ op'.outcome = op.outcome /\ op'.verify = op.verify
    BY <1>1, <2>1 DEF OpRecords
  <2>3. ASSUME NEW i \in Items, i \in missing, op.kind = "push", op.caller = "wizard"
        PROVE  Marked(i)'
    <3> HIDE DEF missing
    <3>1. status[i] \in SUBSET Statuses
      BY DEF TypeOK
    <3>2. status'[i] = SetStatus(status[i], "PUSH_FAIL")
      BY <2>1, <2>3 DEF Set
    <3>3. QED
      BY <3>1, <3>2, SetStatusLeavesMark DEF Marked, Flags
  <2>4. QED
    BY <1>2, <1>3, <2>1, <2>2, <2>3 DEF WizardInv, WizardInOrder
<1>7. CASE AllAnswered
  <2>1. /\ op.phase = "wait" /\ op.waiting = {} /\ op' = [op EXCEPT !.phase = "verify"]
    BY <1>7 DEF AllAnswered
  <2>2. /\ op'.kind = op.kind /\ op'.caller = op.caller /\ op'.phase = "verify"
        /\ op'.targets = op.targets /\ op'.outcome = op.outcome /\ op'.verify = op.verify
    BY <1>1, <2>1 DEF OpRecords
  <2>3. QED
    BY <1>2, <1>3, <2>1, <2>2 DEF WizardInv, WizardInOrder
<1>8. ASSUME NEW outcome, op' = [op EXCEPT !.phase = "idle", !.outcome = outcome],
             op.phase = "verify", outcome \in {"success", "error"} => op.verify = {}
      PROVE  WizardInv'
  <2>1. /\ op'.kind = op.kind /\ op'.caller = op.caller /\ op'.phase = "idle"
        /\ op'.targets = op.targets /\ op'.outcome = outcome
    BY <1>1, <1>8 DEF OpRecords
  <2>2. QED
    BY <1>2, <1>3, <1>8, <2>1 DEF WizardInv, WizardInOrder
<1>9. CASE Stop \/ Done
  BY <1>8, <1>9 DEF Stop, Done, End
<1>10. ASSUME NEW i \in Items, Verify(i) PROVE WizardInv'
  <2>1. op.phase = "verify"
    BY <1>10 DEF Verify
  <2>2. CASE /\ \E answer : status' = [status EXCEPT ![i] = SetCheck(@, answer)]
             /\ op' = [op EXCEPT !.verify = @ \ {i}]
    <3>1. /\ op'.kind = op.kind /\ op'.caller = op.caller /\ op'.phase = op.phase
          /\ op'.targets = op.targets /\ op'.outcome = op.outcome /\ op'.verify = op.verify \ {i}
      BY <1>1, <2>2 DEF OpRecords
    <3>2. Marked(i)'
      <4>1. status[i] \in SUBSET Statuses /\ status \in [Items -> SUBSET Statuses]
        BY DEF TypeOK
      <4>2. QED
        BY <2>2, <4>1, SetCheckLeavesMark DEF Marked
    <3>3. QED
      BY <1>2, <1>3, <2>1, <3>1, <3>2 DEF WizardInv, WizardInOrder
  <2>3. CASE op' = [op EXCEPT !.phase = "idle", !.outcome = "aborted"]
    BY <1>8, <2>1, <2>3
  <2>4. QED
    BY <1>10, <2>2, <2>3 DEF Verify, End
<1>11. ASSUME NEW i \in Items, Sign(i) PROVE WizardInv'
  BY <1>4, <1>11 DEF Sign, networkVars
<1>12. ASSUME NEW c \in Callers, NEW force, NEW chosen \in SUBSET Items,
              StartPush(c, force, chosen) \/ (c # "wizard" /\ StartCheck(c, chosen))
       PROVE  WizardInv'
  <2>1. op'.phase = "wait" /\ op'.outcome = "none" /\ op'.caller = c
    BY <1>12 DEF StartPush, StartCheck, StartOp
  <2>2. CASE StartPush(c, force, chosen)
    <3> DEFINE targets == ToBePushed(c, force, chosen)
               n == op.n + 1
               bodies == [s \in {ServerOf[i] : i \in targets} |-> {i \in targets : ServerOf[i] = s}]
               ids == {<<n, k>> : k \in DOMAIN bodies}
    <3>1. /\ op'.kind = "push" /\ op'.targets = targets /\ op'.waiting = ids
          /\ worker' = [id \in WorkerIds |->
                IF id \in ids THEN Submitted("push", bodies[id[2]]) ELSE worker[id]]
          /\ n <= MaxOps
      BY <2>2 DEF StartPush, StartOp
    <3>2. ASSUME NEW i \in targets PROVE \E id \in op'.waiting : i \in worker'[id].body
      <4> DEFINE id == <<n, ServerOf[i]>>
      <4>1. n \in 1 .. MaxOps /\ i \in Items /\ ServerOf[i] \in Servers
        <5>1. op.n \in 0 .. MaxOps
          BY <1>1 DEF OpRecords
        <5>2. i \in Items
          BY <3>2 DEF ToBePushed
        <5>3. QED
          BY <3>1, <5>1, <5>2, ConstantTypes
      <4>2. id \in WorkerIds /\ id \in ids
        BY <4>1 DEF WorkerIds
      <4>3. i \in bodies[id[2]]
        OBVIOUS
      <4> HIDE DEF bodies, ids, id
      <4>4. worker'[id].body = bodies[id[2]]
        BY <3>1, <4>2 DEF Submitted
      <4>5. QED
        BY <3>1, <4>2, <4>3, <4>4
    <3> HIDE DEF targets, ids, bodies
    <3>3. QED
      BY <2>1, <3>1, <3>2 DEF WizardInv, WizardInOrder
  <2>3. CASE c # "wizard"
    BY <2>1, <2>3 DEF WizardInv
  <2>4. QED
    BY <1>12, <2>2, <2>3
<1>13. CASE ThreadStep \/ ServerStep
  BY <1>4, <1>13, BodiesKept
<1>14. CASE UNCHANGED vars
  BY <1>4, <1>14 DEF vars, clientVars, networkVars
<1>15. QED
  BY <1>5, <1>6, <1>7, <1>9, <1>10, <1>11, <1>12, <1>13, <1>14 DEF Next, CallerStep, UserStep

(* Every item of a broadcast that the wizard saw to its end is marked, on  *)
(* executors that never answered too, whatever was lost or came late.      *)
THEOREM WizardMarks == Spec => []WizardMarksAll
<1>1. Init => WizardInv
  BY DEF Init, WizardInv
<1>2. TypeOK /\ WizardInv /\ [Next]_vars => WizardInv'
  BY WizardStep
<1>3. TypeOK /\ WizardInv => WizardMarksAll
  BY DEF WizardInv, WizardInOrder, WizardMarksAll, Marked, HasMark, TypeOK, OpRecords
<1>4. QED
  BY <1>1, <1>2, <1>3, DeliveryTypeCorrect, PTL DEF Spec

-----------------------------------------------------------------------------
(* Pushing again what is there already is no failure.                      *)

LEMMA CalmStart ==
  ASSUME TypeOK, Calm, NEW c \in Callers, NEW force, NEW chosen \in SUBSET Items,
         StartPush(c, force, chosen) \/ StartCheck(c, chosen)
  PROVE  Calm'
<1>1. requests = {} /\ replies = {} /\ op.n \in 0 .. MaxOps
      /\ \A id \in WorkerIds : worker[id].state \notin {"queued", "running"}
  <2>1. op.phase = "idle"
    BY DEF StartPush, StartCheck, StartOp
  <2>2. \A id \in WorkerIds : worker[id].state \notin {"queued", "running"}
    BY <2>1 DEF Calm
  <2>3. \A r \in requests \cup replies : r.id \in WorkerIds /\ worker[r.id].state = "running"
    BY DEF TypeOK, RequestRecords, ReplyRecords, Calm
  <2>4. op.n \in 0 .. MaxOps
    BY DEF TypeOK, OpRecords
  <2>5. QED
    BY <2>2, <2>3, <2>4
<1>2. \E kind, targets, bodies :
        /\ StartOp(c, kind, targets, bodies)
        /\ kind = "push" => \A s \in DOMAIN bodies : \A i \in bodies[s] : ServerOf[i] = s
  <2>1. CASE StartPush(c, force, chosen)
    <3> DEFINE targets == ToBePushed(c, force, chosen)
               bodies == [s \in {ServerOf[i] : i \in targets} |-> {i \in targets : ServerOf[i] = s}]
    <3>1. \A s \in DOMAIN bodies : \A i \in bodies[s] : ServerOf[i] = s
      OBVIOUS
    <3>2. StartOp(c, "push", targets, bodies)
      BY <2>1 DEF StartPush
    <3> HIDE DEF targets, bodies
    <3>3. QED
      BY <3>1, <3>2
  <2>2. CASE StartCheck(c, chosen)
    BY <2>2 DEF StartCheck
  <2>3. QED
    BY <2>1, <2>2
<1> PICK kind, targets, bodies :
        /\ StartOp(c, kind, targets, bodies)
        /\ kind = "push" => \A s \in DOMAIN bodies : \A i \in bodies[s] : ServerOf[i] = s
  BY <1>2
<1> DEFINE n == op.n + 1
           ids == {<<n, k>> : k \in DOMAIN bodies}
<1>3. /\ op'.phase = "wait" /\ op'.n = n /\ op'.kind = kind /\ op'.waiting = ids
      /\ worker' = [id \in WorkerIds |-> IF id \in ids THEN Submitted(kind, bodies[id[2]]) ELSE worker[id]]
      /\ requests' = {} /\ replies' = {} /\ UNCHANGED <<status, stored>>
  BY <1>1, <1>2 DEF StartOp
<1>4. TypeOK'
  BY StartType
<1>5. ASSUME NEW id \in ids
      PROVE  /\ id[1] = n /\ worker'[id].kind = kind /\ worker'[id].state = "queued"
             /\ worker'[id].body = bodies[id[2]] /\ id[2] \in DOMAIN bodies
  <2>1. id \in WorkerIds
    BY <1>3, <1>4 DEF TypeOK, OpRecords
  <2>2. id[1] = n /\ id[2] \in DOMAIN bodies
    OBVIOUS
  <2> HIDE DEF ids
  <2>3. QED
    BY <1>3, <2>1, <2>2 DEF Submitted
<1> HIDE DEF ids, n
<1>6. \A id \in WorkerIds : id \notin ids => worker'[id] = worker[id]
  BY <1>3
<1>7. QED
  BY <1>1, <1>2, <1>3, <1>5, <1>6 DEF Calm

(* Nothing but the record of one thread and the messages change.           *)
LEMMA CalmThread ==
  ASSUME TypeOK, Calm, ThreadStep, faults' = faults
  PROVE  Calm'
<1>1. /\ \A id \in WorkerIds : worker'[id].body = worker[id].body /\ worker'[id].kind = worker[id].kind
      /\ UNCHANGED <<status, op>>
  BY BodiesKept
<1>2. /\ op.waiting \subseteq WorkerIds /\ worker \in [WorkerIds -> WorkerRecords]
      /\ \A r \in requests \cup replies : r.id \in WorkerIds
  BY DEF TypeOK, OpRecords, RequestRecords, ReplyRecords
<1>3. ASSUME NEW id \in WorkerIds, Run(id) PROVE Calm'
  <2> DEFINE q == [id |-> id, attempt |-> 0, checked |-> FALSE, dups |-> {}]
  <2>1. /\ worker[id].state = "queued" /\ worker' = [worker EXCEPT ![id].state = "running"]
        /\ requests' = requests \cup {q} /\ UNCHANGED <<replies, stored>>
    BY <1>3 DEF Run, Post
  <2>2. /\ \A k \in WorkerIds : k # id => worker'[k] = worker[k]
        /\ worker'[id].state = "running"
    BY <1>2, <2>1 DEF WorkerRecords
  <2>3. q.id = id /\ q.checked = FALSE
    OBVIOUS
  <2> HIDE DEF q
  <2>4. id \in op.waiting
    BY <1>3, <2>1 DEF Calm
  <2>5. QED
    BY <1>1, <1>2, <2>1, <2>2, <2>3, <2>4 DEF Calm, Accepted
<1>4. ASSUME NEW r \in replies, Receive(r) PROVE Calm'
  <2> DEFINE result == IF r.text = "error" /\ worker[r.id].kind = "check" THEN "none" ELSE r.text
  <2>1. r.id \in WorkerIds /\ result \in {"none", "thx", "already present", "error", "found"}
    BY DEF TypeOK, ReplyRecords
  <2>2. /\ Finish(r.id, result) /\ replies' = replies \ {r} /\ UNCHANGED <<requests, stored>>
    BY <1>4 DEF Receive
  <2>3. worker[r.id].kind = "push" => result = r.text
    OBVIOUS
  <2> HIDE DEF result
  <2>4. /\ \A k \in WorkerIds : k # r.id => worker'[k] = worker[k]
        /\ worker'[r.id].state = "finished" /\ worker'[r.id].result = result
    BY <2>1, <2>2, FinishType
  <2>5. (op.kind = "push" /\ r.id \in op.waiting /\ Refused(result)) => worker[r.id].body \cap Paying = {}
    BY <2>3 DEF Calm
  <2>6. \A m \in requests' \cup replies' : m.id # r.id
    BY <2>2 DEF Calm
  <2>7. QED
    BY <1>1, <1>2, <2>2, <2>4, <2>5, <2>6 DEF Calm, Accepted
<1>5. ASSUME NEW id \in WorkerIds, TimesOut(id) \/ Breaks(id) PROVE FALSE
  <2>1. faults \in Nat
    BY ConstantTypes DEF TypeOK
  <2>2. faults' = faults + 1
    BY <1>5 DEF TimesOut, Breaks
  <2>3. QED
    BY <2>1, <2>2
<1>6. QED
  BY <1>3, <1>4, <1>5 DEF ThreadStep

(* The server answers: what it refuses does not pay, for nobody else has   *)
(* stored an item of this push since it looked for duplicates.             *)
LEMMA CalmAnswer ==
  ASSUME TypeOK, Calm, NEW r \in requests,
         NEW text \in {"thx", "already present", "error", "found"}, Answer(r, text),
         UNCHANGED <<status, op, worker>>,
         (op.kind = "push" /\ Refused(text)) => worker[r.id].body \cap Paying = {},
         \A s \in requests : (s # r /\ s.checked) => Accepted(s) \cap stored' \subseteq s.dups
  PROVE  Calm'
<1> DEFINE reply == [id |-> r.id, attempt |-> r.attempt, text |-> text]
<1>1. /\ requests' = requests \ {r}
      /\ \A s \in replies' : s \in replies \/ s = reply
  BY DEF Answer
<1>2. reply.id = r.id /\ reply.text = text
  OBVIOUS
<1> HIDE DEF reply
<1> USE DEF Accepted
<1>3. \A s \in requests' : s \in requests /\ s.id # reply.id
  BY <1>1, <1>2 DEF Calm
<1>4. /\ \A s, t \in requests' : s.id = t.id => s = t
      /\ \A s \in requests' : s.checked => op.kind = "push" /\ Accepted(s) \cap stored' \subseteq s.dups
  BY <1>1, <1>3 DEF Calm
<1>5. /\ \A s, t \in replies' : s.id = t.id => s = t
      /\ \A s \in requests', t \in replies' : s.id # t.id
      /\ \A s \in requests' \cup replies' : worker[s.id].state = "running"
      /\ \A s \in replies' : (op.kind = "push" /\ Refused(s.text)) => worker[s.id].body \cap Paying = {}
  <2>1. \A s \in replies : s.id # reply.id
    BY <1>2 DEF Calm
  <2>2. \A s, t \in replies' : s.id = t.id => s = t
    <3> SUFFICES ASSUME NEW s \in replies', NEW t \in replies', s.id = t.id PROVE s = t
      OBVIOUS
    <3>1. CASE s \in replies /\ t \in replies
      BY <3>1 DEF Calm
    <3>2. CASE s = reply \/ t = reply
      BY <1>1, <2>1, <3>2
    <3>3. QED
      BY <1>1, <3>1, <3>2
  <2>3. \A s \in requests', t \in replies' : s.id # t.id
    BY <1>1, <1>3 DEF Calm
  <2>4. \A s \in requests' \cup replies' : worker[s.id].state = "running"
    <3>1. worker[reply.id].state = "running"
      BY <1>2 DEF Calm
    <3>2. \A s \in requests \cup replies : worker[s.id].state = "running"
      BY DEF Calm
    <3>3. QED
      BY <1>1, <3>1, <3>2
  <2>5. \A s \in replies' : (op.kind = "push" /\ Refused(s.text)) => worker[s.id].body \cap Paying = {}
    BY <1>1, <1>2 DEF Calm
  <2>6. QED
    BY <2>2, <2>3, <2>4, <2>5
<1>6. QED
  BY <1>4, <1>5 DEF Calm

LEMMA CalmServer ==
  ASSUME TypeOK, Calm, ServerStep
  PROVE  Calm'
<1> SUFFICES ASSUME NEW r \in requests, PushTxs(r) \/ PushInserts(r) \/ SearchTx(r) PROVE Calm'
  BY DEF ServerStep
<1>1. /\ UNCHANGED <<status, op, worker>>
      /\ \A m \in requests : m \in RequestRecords /\ m.id \in WorkerIds /\ m.id \in op.waiting
  BY DEF PushTxs, PushInserts, SearchTx, clientVars, TypeOK, RequestRecords, Calm
<1>2. worker[r.id].kind = op.kind
  BY <1>1 DEF Calm
<1>3. \A s \in requests : s.checked => Accepted(s) \cap stored \subseteq s.dups
  BY DEF Calm
<1>4. CASE PushTxs(r)
  <2>1. CASE Accepted(r) = {} /\ Answer(r, "error")
    BY <1>1, <1>3, <1>4, <2>1, CalmAnswer DEF PushTxs, Accepted
  <2>2. CASE Answer(r, "already present")
    BY <1>1, <1>3, <1>4, <2>2, CalmAnswer DEF PushTxs, Refused
  <2>3. CASE /\ requests' = (requests \ {r}) \cup
                  {[r EXCEPT !.checked = TRUE, !.dups = Accepted(r) \cap stored]}
             /\ UNCHANGED replies
    <3> DEFINE q == [r EXCEPT !.checked = TRUE, !.dups = Accepted(r) \cap stored]
    <3>1. q.dups = Accepted(r) \cap stored /\ q.id = r.id
      BY <1>1 DEF RequestRecords
    <3>2. requests' = (requests \ {r}) \cup {q}
      BY <2>3
    <3> HIDE DEF q
    <3>3. Accepted(q) = Accepted(r) /\ op.kind = "push" /\ UNCHANGED stored
      BY <1>2, <1>4, <3>1 DEF Accepted, PushTxs
    <3>4. QED
      BY <1>1, <2>3, <3>1, <3>2, <3>3 DEF Calm, Accepted
  <2>4. QED
    BY <1>4, <2>1, <2>2, <2>3 DEF PushTxs
<1>5. CASE PushInserts(r)
  <2>1. r.checked /\ op.kind = "push"
    BY <1>2, <1>5 DEF PushInserts
  <2>2. (Accepted(r) \ r.dups) \cap stored = {}
    BY <1>3, <2>1
  <2>3. Answer(r, "thx") /\ stored' = stored \cup (Accepted(r) \ r.dups)
    BY <1>5, <2>2 DEF PushInserts
  <2>4. ASSUME NEW s \in requests, s # r, s.checked
        PROVE  Accepted(s) \cap stored' \subseteq s.dups
    <3>1. s.id # r.id /\ s.id[1] = op.n /\ r.id[1] = op.n
      BY <1>1, <2>4 DEF Calm
    <3>2. s.id[2] # r.id[2]
      BY <1>1, <3>1 DEF WorkerIds
    <3>3. /\ \A i \in worker[s.id].body : ServerOf[i] = s.id[2]
          /\ \A i \in worker[r.id].body : ServerOf[i] = r.id[2]
      BY <1>1, <2>1 DEF Calm
    <3>4. Accepted(s) \cap Accepted(r) = {}
      BY <3>2, <3>3 DEF Accepted
    <3>5. QED
      BY <1>3, <2>3, <2>4, <3>4
  <2>5. QED
    BY <1>1, <2>3, <2>4, CalmAnswer DEF Refused
<1>6. CASE SearchTx(r)
  <2>1. op.kind # "push" /\ UNCHANGED stored
    BY <1>2, <1>6 DEF SearchTx
  <2>2. Answer(r, "found") \/ Answer(r, "error")
    BY <1>6 DEF SearchTx
  <2>3. QED
    BY <1>1, <1>3, <2>1, <2>2, CalmAnswer
<1>7. QED
  BY <1>4, <1>5, <1>6

(* A flag other than PUSH_FAIL leaves PUSH_FAIL as it is or takes it away. *)
LEMMA NoNewPushFail ==
  ASSUME NEW st \in SUBSET Statuses, "PUSH_FAIL" \notin st
  PROVE  /\ \A flag \in Flags \ {"PUSH_FAIL"} : "PUSH_FAIL" \notin SetStatus(st, flag)
         /\ \A answer : "PUSH_FAIL" \notin SetCheck(st, answer)
<1>1. \A flag \in Statuses \ {"PUSH_FAIL"} : "PUSH_FAIL" \notin SetStatus(st, flag)
  BY DEF SetStatus, Statuses
<1>2. "PUSH_FAIL" \notin SetStatus(SetStatus(st, "PUSHED"), "CHECKED")
  BY DEF SetStatus
<1>3. QED
  BY <1>1, <1>2 DEF SetCheck, Flags, Statuses

LEMMA CalmCaller ==
  ASSUME TypeOK, Calm, CallerStep, deadlines' = deadlines
  PROVE  Calm'
<1>1. /\ op \in OpRecords /\ worker \in [WorkerIds -> WorkerRecords] /\ deadlines \in Nat
      /\ status \in [Items -> SUBSET Statuses]
      /\ op.waiting \subseteq WorkerIds /\ \A r \in requests \cup replies : r.id \in WorkerIds
  BY DEF TypeOK, OpRecords, RequestRecords, ReplyRecords
<1>2. Paying \subseteq Items
  BY ConstantTypes
<1>3. ~Deadline
  BY <1>1 DEF Deadline
<1>4. UNCHANGED <<worker, requests, replies, stored>>
  BY <1>3 DEF CallerStep, AllAnswered, Stop, Done, Collect, Verify, networkVars
<1>5. ASSUME op'.n = op.n, op'.kind = op.kind, op'.waiting = op.waiting,
             op'.phase # "wait" => op.waiting = {},
             \A i \in Paying : "PUSH_FAIL" \notin status'[i]
      PROVE  Calm'
  BY <1>1, <1>4, <1>5 DEF Calm, Accepted
<1>6. ASSUME NEW id \in op.waiting, Collect(id) PROVE Calm'
  <2> DEFINE w == worker[id]
  <2>1. /\ op.phase = "wait" /\ w.state = "finished"
        /\ \/ op' = [op EXCEPT !.waiting = @ \ {id}]
           \/ op' = [op EXCEPT !.waiting = @ \ {id}, !.verify = @ \cup w.body]
           \/ op' = [op EXCEPT !.waiting = @ \ {id}, !.error = TRUE]
    BY <1>6 DEF Collect
  <2>2. /\ op'.n = op.n /\ op'.kind = op.kind /\ op'.phase = op.phase
        /\ op'.waiting = op.waiting \ {id}
    BY <1>1, <2>1 DEF OpRecords
  <2>3. ASSUME NEW i \in Paying PROVE "PUSH_FAIL" \notin status'[i]
    <3>1. status[i] \in SUBSET Statuses /\ "PUSH_FAIL" \notin status[i] /\ i \in Items
      BY <1>1, <1>2 DEF Calm
    <3>2. CASE op.kind = "check" /\ status' = [k \in Items |->
                 IF k \in w.body THEN SetCheck(status[k], w.result) ELSE status[k]]
      BY <3>1, <3>2, NoNewPushFail
    <3>3. CASE Set(w.body, "PUSHED")
      BY <3>1, <3>3, NoNewPushFail DEF Set, Flags
    <3>4. CASE UNCHANGED status
      BY <3>1, <3>4
    <3>5. CASE op.kind = "push" /\ w.result \in {"error", "none"} /\ Set(w.body, "PUSH_FAIL")
      <4>1. i \notin w.body
        BY <2>1, <3>5 DEF Calm, Refused
      <4>2. QED
        BY <3>1, <3>5, <4>1 DEF Set
    <3>6. QED
      BY <1>6, <3>2, <3>3, <3>4, <3>5 DEF Collect
  <2>4. QED
    BY <1>1, <1>4, <2>1, <2>2, <2>3 DEF Calm, Accepted
<1>7. CASE AllAnswered
  <2>1. UNCHANGED status /\ op.waiting = {} /\ op' = [op EXCEPT !.phase = "verify"]
    BY <1>7 DEF AllAnswered
  <2>2. op'.n = op.n /\ op'.kind = op.kind /\ op'.waiting = op.waiting
    BY <1>1, <2>1 DEF OpRecords
  <2>3. \A i \in Paying : "PUSH_FAIL" \notin status'[i]
    BY <2>1 DEF Calm
  <2>4. QED
    BY <1>5, <2>1, <2>2, <2>3
<1>8. ASSUME NEW outcome, op' = [op EXCEPT !.phase = "idle", !.outcome = outcome],
             op.phase = "verify", UNCHANGED status
      PROVE  Calm'
  <2>1. op'.n = op.n /\ op'.kind = op.kind /\ op'.waiting = op.waiting /\ op.waiting = {}
    BY <1>1, <1>8 DEF OpRecords, Calm
  <2>2. \A i \in Paying : "PUSH_FAIL" \notin status'[i]
    BY <1>8 DEF Calm
  <2>3. QED
    BY <1>5, <2>1, <2>2
<1>9. CASE Stop \/ Done
  BY <1>8, <1>9 DEF Stop, Done, End
<1>10. ASSUME NEW i \in Items, Verify(i) PROVE Calm'
  <2>1. CASE op' = [op EXCEPT !.phase = "idle", !.outcome = "aborted"] /\ UNCHANGED status
    BY <1>8, <1>10, <2>1 DEF Verify
  <2>2. CASE /\ op' = [op EXCEPT !.verify = @ \ {i}]
             /\ \/ status' = [status EXCEPT ![i] = SetCheck(@, "found")]
                \/ status' = [status EXCEPT ![i] = SetCheck(@, "none")]
    <3>1. /\ op'.n = op.n /\ op'.kind = op.kind /\ op'.waiting = op.waiting
          /\ op'.phase = op.phase /\ op.waiting = {}
      BY <1>1, <1>10, <2>2 DEF OpRecords, Verify, Calm
    <3>2. ASSUME NEW k \in Paying PROVE "PUSH_FAIL" \notin status'[k]
      <4>1. status[k] \in SUBSET Statuses /\ "PUSH_FAIL" \notin status[k] /\ k \in Items
        BY <1>1, <1>2 DEF Calm
      <4>2. \E answer : status'[k] = status[k] \/ status'[k] = SetCheck(status[k], answer)
        BY <1>1, <2>2, <4>1
      <4>3. QED
        BY <4>1, <4>2, NoNewPushFail
    <3>3. QED
      BY <1>5, <3>1, <3>2
  <2>3. QED
    BY <1>10, <2>1, <2>2 DEF Verify, End
<1>11. QED
  BY <1>3, <1>6, <1>7, <1>9, <1>10 DEF CallerStep

LEMMA CalmStep ==
  ASSUME TypeOK, CalmInv, [Next]_vars
  PROVE  CalmInv'
<1> SUFFICES ASSUME faults' = 0, deadlines' = 0 PROVE Calm'
  BY DEF CalmInv
<1>1. faults' >= faults /\ deadlines' >= deadlines /\ faults \in Nat /\ deadlines \in Nat
  <2>1. faults \in Nat /\ deadlines \in Nat
    BY ConstantTypes DEF TypeOK
  <2> DEFINE Grow == faults' \in {faults, faults + 1} /\ deadlines' \in {deadlines, deadlines + 1}
  <2>2. ASSUME CallerStep PROVE Grow
    BY <2>2 DEF CallerStep, Deadline, AllAnswered, Stop, Done, Collect, Verify
  <2>3. ASSUME UserStep PROVE Grow
    BY <2>3 DEF UserStep, Sign, StartPush, StartCheck, StartOp
  <2>4. ASSUME ThreadStep PROVE Grow
    BY <2>4 DEF ThreadStep, Run, Receive, TimesOut, Breaks
  <2>5. ASSUME ServerStep PROVE Grow
    BY <2>5 DEF ServerStep, PushTxs, PushInserts, SearchTx
  <2>6. ASSUME UNCHANGED vars PROVE Grow
    BY <2>6 DEF vars
  <2>7. Grow
    BY <2>2, <2>3, <2>4, <2>5, <2>6 DEF Next
  <2> HIDE DEF Grow
  <2>8. QED
    BY <2>1, <2>7 DEF Grow
<1>2. faults = 0 /\ deadlines = 0 /\ Calm
  BY <1>1 DEF CalmInv
<1>3. CASE CallerStep
  BY <1>2, <1>3, CalmCaller
<1>4. CASE UserStep
  <2>1. ASSUME NEW i \in Items, Sign(i) PROVE Calm'
    <3>1. /\ UNCHANGED <<op, worker, requests, replies, stored>>
          /\ status' = [status EXCEPT ![i] = SetStatus(@, "COMPLETE")]
          /\ status \in [Items -> SUBSET Statuses] /\ Paying \subseteq Items
      BY <2>1, ConstantTypes DEF Sign, networkVars, TypeOK
    <3>2. ASSUME NEW k \in Paying PROVE "PUSH_FAIL" \notin status'[k]
      <4>1. status[k] \in SUBSET Statuses /\ "PUSH_FAIL" \notin status[k] /\ k \in Items
        BY <1>2, <3>1 DEF Calm
      <4>2. status'[k] = status[k] \/ status'[k] = SetStatus(status[k], "COMPLETE")
        BY <3>1, <4>1
      <4>3. QED
        BY <4>1, <4>2, NoNewPushFail DEF Flags
    <3>3. QED
      BY <1>2, <3>1, <3>2 DEF Calm, Accepted
  <2>2. QED
    BY <1>2, <1>4, <2>1, CalmStart DEF UserStep
<1>5. CASE ThreadStep
  BY <1>2, <1>5, CalmThread
<1>6. CASE ServerStep
  BY <1>2, <1>6, CalmServer
<1>7. CASE UNCHANGED vars
  BY <1>2, <1>7 DEF vars, clientVars, networkVars, Calm, Accepted
<1>8. QED
  BY <1>3, <1>4, <1>5, <1>6, <1>7 DEF Next

(* An item that pays is marked as failed only if a call failed or a        *)
(* deadline passed: the answers of the servers alone never do it.          *)
THEOREM FailuresHaveCause == Spec => []PushFailHasCause
<1>1. Init => CalmInv
  <2> SUFFICES ASSUME Init PROVE Calm
    BY DEF CalmInv
  <2>1. \A id \in WorkerIds : worker[id].state = "none"
    BY DEF Init, NoWorker
  <2>2. QED
    BY <2>1, ConstantTypes DEF Init, Calm
<1>2. TypeOK /\ CalmInv /\ [Next]_vars => CalmInv'
  BY CalmStep
<1>3. TypeOK /\ CalmInv => PushFailHasCause
  BY DEF CalmInv, Calm, PushFailHasCause, TypeOK
<1>4. QED
  BY <1>1, <1>2, <1>3, DeliveryTypeCorrect, PTL DEF Spec

=============================================================================
