------------------------------ MODULE WillPlan ------------------------------
(***************************************************************************)
(* How the plugin keeps a will up to date: the check that decides whether  *)
(* the will still is what the owner wants (is_will_valid), the rebuild     *)
(* that anticipates it so that it comes before the one it replaces         *)
(* (update_will), the invalidation that voids it (invalidate_will), and    *)
(* what drives them: the wizard, which Check runs too (gui/qt/dialogs.py), *)
(* the automatic rebuild and the Prepare of the menu (gui/qt/window.py),   *)
(* and the menu's other items, Sign, Broadcast and Invalidate.             *)
(*                                                                         *)
(* In between time passes, coins come and go, and whoever holds a signed   *)
(* transaction broadcasts it from its locktime on.                         *)
(*                                                                         *)
(* Time is counted in days, as delivery dates are.  Every transaction of   *)
(* the will spends coins of the wallet (no children), in basic mode (the   *)
(* reference date of a check is now).  A txid is what the transaction      *)
(* says: Electrum sorts the outputs, so the same will has the same txid.   *)
(***************************************************************************)
EXTENDS Integers, FiniteSets, FiniteSetsExt, Functions, TLC

CONSTANTS
  HeirSets,      \* the sets of heirs the owner may choose
  Executors,     \* the will-executors
  NoExecutor,    \* the executor of a backup transaction
  Recipes,       \* the delivery dates the owner may choose
  FeeRates,      \* the values of baltx_fees
  MaxDay,        \* bound: days that pass
  MaxCoins,      \* bound: coins the wallet ever receives
  MaxEdits,      \* bound: edits of the owner
  MaxElsewhere,  \* bound: coins the owner spends outside the plugin
  MaxRuns,       \* bound: runs of the wizard, of Prepare, of the automatic rebuild
  MaxMenu        \* bound: uses of the menu's Sign, Broadcast and Invalidate

ASSUME PlanAssumption ==
  /\ {} \notin HeirSets /\ HeirSets # {}
  /\ NoExecutor \notin Executors
  /\ Recipes \subseteq [kind : {"abs", "rel"}, days : Nat] /\ Recipes # {}
  /\ FeeRates # {}
  /\ {MaxDay, MaxCoins, MaxEdits, MaxElsewhere, MaxRuns, MaxMenu} \subseteq Nat /\ MaxCoins > 0

VARIABLES
  now,        \* today
  coins,      \* the coins received so far are 1 .. coins
  gone,       \* coins the owner spent, by an invalidation or elsewhere
  mined,      \* will transactions on the chain
  will,       \* willitems: from transactions to items
  held,       \* the transactions the will-executors hold
  settings,   \* heirs, delivery date, fee rate, executors, backup (NO_WILLEXECUTOR)
  flow,       \* the run of the wizard, of Prepare or of the automatic rebuild
  reasons,    \* why stored date and will may differ since the wizard aligned them
  edits, elsewhere, runs, uses

chainVars == <<now, coins, gone, mined, held, elsewhere>>
ownerVars == <<settings, edits>>
counters == <<runs, uses>>
vars == <<chainVars, ownerVars, will, flow, reasons, counters>>

-----------------------------------------------------------------------------
(* Dates.                                                                  *)

(* parse_locktime_string: "30d" is counted from today.                     *)
Due(recipe) == IF recipe.kind = "abs" THEN recipe.days ELSE now + recipe.days

(* resolve_locktime_against_tx: what the stored date means for a           *)
(* transaction that was built from the date `built`.                       *)
Resolved(current, built, locktime) ==
  IF current.kind = "rel" /\ built.kind = "rel"
  THEN locktime - built.days + current.days
  ELSE Due(current)

-----------------------------------------------------------------------------
(* Transactions and items.                                                 *)

Share(t, u) == t.coins \cap u.coins # {}

Spent(c) == c \in gone \/ \E t \in mined : c \in t.coins

Utxos == {c \in 1 .. coins : ~Spent(c)}

Live(t) == t.coins \subseteq Utxos

Has(w, t, flag) == flag \in w[t].status

Valid(w) == {t \in DOMAIN w : Has(w, t, "VALID")}

(* WillItem._id: the txid at the time of building, before search_anticipate*)
(* lowered the locktime.                                                   *)
Id(w, t) == [t EXCEPT !.locktime = w[t].born]

SetStatus(item, flag) ==
  [item EXCEPT !.status =
     (@ \cup {flag})
       \ (CASE flag \in {"INVALIDATED", "REPLACED"} -> {"VALID"}
            [] flag = "ONCHAIN"                    -> {"VALID", "INVALIDATED"}
            [] OTHER                               -> {})]

(* What is signed and in other hands: with an executor, or a backup that   *)
(* was given to the heirs.                                                 *)
Usable == held \cup {t \in DOMAIN will : t.we = NoExecutor /\ Has(will, t, "COMPLETE")}

-----------------------------------------------------------------------------
(* The check.                                                              *)

(* check_invalidated: a coin that is gone was spent by the item itself, or *)
(* by something else.                                                      *)
Invalidated(w) ==
  [t \in DOMAIN w |->
     IF Live(t) THEN w[t]
     ELSE SetStatus(w[t], IF t \in mined THEN "ONCHAIN" ELSE "INVALIDATED")]

(* check_will_expired *)
Expired(w) == \E t \in Valid(w) : t.locktime <= now

(* search_rai: an item gives way to one that comes before it.              *)
Replaced(w) ==
  [t \in DOMAIN w |->
     IF /\ t \in Valid(w)
        /\ \E u \in Valid(w) :
             Share(t, u) /\ u.locktime < t.locktime /\ Id(w, u) # Id(w, t)
     THEN SetStatus(w[t], "REPLACED") ELSE w[t]]

(* check_willexecutors_and_heirs: an heir of the item at his date.         *)
OnDate(w, t) == Resolved(settings.recipe, w[t].recipe, t.locktime) = t.locktime

Postponed(w, t) ==
  /\ Resolved(settings.recipe, w[t].recipe, t.locktime) > t.locktime
  /\ Has(w, t, "COMPLETE") \/ Has(w, t, "PUSHED")
  /\ t.heirs \cap settings.heirs # {}

(* Faulty: heirs the owner took out are not missed.                        *)
ChangedFees(w, t) == t.fee # settings.fee

Changed(w, t) == t.fee # settings.fee \/ ~(t.heirs \subseteq settings.heirs)

HeirsFound(w) ==
  UNION {t.heirs : t \in {u \in Valid(w) : OnDate(w, u)}} \cap settings.heirs

(* What check_willexecutors_and_heirs and is_will_valid find after the     *)
(* marks: the items are looked at in the order of a dictionary, and the    *)
(* first that is wrong decides.                                            *)
Verdicts(w) ==
  LET first == (IF Valid(w) = {} \/ \E t \in Valid(w) : Changed(w, t)
                THEN {"incomplete"} ELSE {})
               \cup (IF \E t \in Valid(w) : Postponed(w, t) THEN {"postponed"} ELSE {})
  IN
  IF first # {} THEN first
  ELSE IF HeirsFound(w) # settings.heirs THEN {"incomplete"}
  ELSE IF Due(settings.recipe) <= now THEN {"noheirs"}
  ELSE IF settings.backup /\ \A t \in Valid(w) : t.we # NoExecutor THEN {"nobackup"}
  ELSE IF ~(settings.executors \subseteq {t.we : t \in Valid(w)}) THEN {"noexecutor"}
  ELSE IF ~(Utxos \subseteq UNION {t.coins : t \in Valid(w)}) THEN {"incomplete"}
  ELSE {"ok"}

(* check_will and is_will_valid: the marks, and the outcomes.  An expired  *)
(* will is found out before the replaced items are marked.                 *)
Checked == IF Expired(Invalidated(will)) THEN Invalidated(will) ELSE Replaced(Invalidated(will))

FoundOut == IF Expired(Invalidated(will)) THEN {"expired"} ELSE Verdicts(Checked)

Outcomes == {"ok", "expired", "postponed", "noheirs", "nobackup", "noexecutor", "incomplete"}

-----------------------------------------------------------------------------
(* The rebuild.                                                            *)

(* buildTransactions: everything the wallet has, once per executor.        *)
Fresh(we, locktime) ==
  [coins |-> Utxos, locktime |-> locktime, we |-> we,
   fee |-> settings.fee, heirs |-> settings.heirs]

Wanted == settings.executors \cup (IF settings.backup THEN {NoExecutor} ELSE {})

(* Faulty: the heirs are not compared.                                     *)
AnticipatesFees(o, n) ==
  o.we = n.we /\ (o.fee # n.fee \/ (n.we = NoExecutor /\ o.coins # n.coins))

(* check_anticipate: must n come a day before o, which it replaces, or is  *)
(* the same day good enough?  Without executors the real amounts are       *)
(* compared, and they follow from coins and fee.                           *)
Anticipates(o, n) ==
  \/ o.heirs # n.heirs
  \/ o.we = n.we /\ (o.fee # n.fee \/ (n.we = NoExecutor /\ o.coins # n.coins))

(* Faulty: the new transactions follow the old ones also to a later date.  *)
NewLocktimeAsBefore ==
  Min(IF Valid(will) = {} THEN {Due(settings.recipe)} ELSE {t.locktime : t \in Valid(will)})

(* search_anticipate_rec: the locktime of the new transactions, which all  *)
(* spend the same coins, so that the lowest is everyone's.                 *)
NewLocktime ==
  LET wanted == Due(settings.recipe)
      before(o, n) == IF Anticipates(o, n) THEN o.locktime - 1 ELSE o.locktime
      new == {Fresh(we, wanted) : we \in Wanted}
      rivals == {r \in Valid(will) \X new : Share(r[1], r[2]) /\ Id(will, r[1]) # r[2]}
  IN Min({wanted} \cup {before(r[1], r[2]) : r \in rivals})

(* update_will: an item with the txid of a valid one and the same heirs is *)
(* the old item, with what it went through.                                *)
NewItem(t) ==
  IF t \in Valid(will) /\ will[t].recipe = settings.recipe THEN will[t]
  ELSE [born |-> Due(settings.recipe), recipe |-> settings.recipe, status |-> {"VALID"}]

NewWill ==
  LET new == {Fresh(we, NewLocktime) : we \in Wanted} IN
  [t \in new \cup DOMAIN will |-> IF t \in new THEN NewItem(t) ELSE will[t]]

-----------------------------------------------------------------------------
(* The invalidation spends one coin of every valid item, the first one it  *)
(* comes across.                                                           *)
InvalidationCoins(rank) ==
  {c \in UNION {t.coins : t \in Valid(will)} :
     \E t \in Valid(will) : c \in t.coins /\ \A d \in t.coins : rank[c] <= rank[d]}

(* It may be given up, or fail to be broadcast.                            *)
Invalidate(confirmed) ==
  IF confirmed
  THEN \E rank \in {r \in [1 .. coins -> 1 .. coins] : IsInjective(r)} :
         LET spent == InvalidationCoins(rank) \cap Utxos IN
         /\ spent # {} /\ coins < MaxCoins
         /\ gone' = gone \cup spent
         /\ coins' = coins + 1
         /\ UNCHANGED <<now, mined, held, elsewhere>>
  ELSE UNCHANGED chainVars

-----------------------------------------------------------------------------

Idle == [pc |-> "idle", caller |-> "gui", outcome |-> "none", invalidated |-> FALSE]

Init ==
  /\ now = 0 /\ coins = 1 /\ gone = {} /\ mined = {} /\ held = {}
  /\ will = <<>>
  /\ settings \in [heirs : HeirSets, recipe : {r \in Recipes : Due(r) > 0},
                   fee : FeeRates, executors : {Executors}, backup : {FALSE}]
  /\ flow = Idle
  /\ reasons = {}
  /\ edits = 0 /\ elsewhere = 0 /\ runs = 0 /\ uses = 0

Conclude(pc, outcome) ==
  flow' = [(IF pc = "idle" THEN Idle ELSE flow) EXCEPT !.pc = pc, !.outcome = outcome]

Goto(pc) == Conclude(pc, "none")

(* A run begins: "gui", the owner goes through the wizard or presses Check *)
(* (task_phase1); "menu", he chooses Prepare (build_inheritance_-          *)
(* transaction), which wants an executor or a backup and a date to come;   *)
(* or "auto", the wallet sees a transaction (_auto_rebuild_flow).          *)
Begin(caller) ==
  /\ flow.pc = "idle" /\ runs < MaxRuns
  /\ runs' = runs + 1
  /\ caller = "auto" => will # <<>>
  /\ caller = "menu" => Wanted # {} /\ Due(settings.recipe) > now
  /\ flow' = [pc |-> "check", caller |-> caller, outcome |-> "none", invalidated |-> FALSE]
  /\ UNCHANGED <<chainVars, ownerVars, will, reasons, uses>>

(* The wizard signs and sends what there is when the will is in order, the *)
(* others do nothing then.  After an invalidation the wizard does not ask  *)
(* for another one; Prepare opens the window of the classic one.           *)
CheckWill ==
  /\ flow.pc = "check"
  /\ will' = Checked
  /\ \E outcome \in FoundOut :
       Conclude(CASE outcome \in {"ok", "noheirs"} ->
                       IF flow.caller = "gui" THEN "sign" ELSE "idle"
                  [] outcome = "expired" ->
                       IF flow.caller = "auto" THEN "invalidate" ELSE "classic"
                  [] outcome = "postponed" ->
                       IF flow.invalidated THEN "idle"
                       ELSE IF flow.caller = "menu" THEN "classic" ELSE "invalidate"
                  [] OTHER -> "build", outcome)
  /\ UNCHANGED <<chainVars, ownerVars, reasons, counters>>

(* build_will.  When there is nothing to build, the wizard goes on to send *)
(* what there is, and Prepare checks the old will again.                   *)
Build ==
  /\ flow.pc = "build"
  /\ IF Wanted = {} THEN Goto("idle") /\ UNCHANGED will
     ELSE IF Utxos = {} \/ Due(settings.recipe) <= now
     THEN /\ Goto(CASE flow.caller = "gui"  -> "push"
                    [] flow.caller = "menu" -> "recheck"
                    [] OTHER                -> "idle")
          /\ UNCHANGED will
     ELSE Goto("recheck") /\ will' = NewWill
  /\ UNCHANGED <<chainVars, ownerVars, reasons, counters>>

(* Faulty: the date is left alone.                                         *)
KeepDate(w) == UNCHANGED settings /\ reasons' = {}

(* _sync_locktime_to_built_txs: the stored date becomes that of the will   *)
(* if the rebuild anticipated it.                                          *)
SyncDate(w) ==
  LET built == Min({t.locktime : t \in Valid(w)})
      anticipated == settings.recipe.kind = "abs" /\ built < settings.recipe.days
  IN
  /\ settings' = IF anticipated THEN [settings EXCEPT !.recipe.days = built] ELSE settings
  /\ reasons' = {}

(* The check of the rebuilt will.  What still is incomplete, or postponed  *)
(* by the anticipation, is taken for a will that needs to be signed; only  *)
(* the wizard then aligns the stored date.  Prepare stops here and leaves  *)
(* signing and sending to the owner, whatever comes out.                   *)
Recheck ==
  LET success == {"ok", "postponed", "incomplete"} IN
  /\ flow.pc = "recheck"
  /\ will' = Checked
  /\ \E outcome \in FoundOut :
       /\ IF flow.caller = "gui"
          THEN /\ Conclude(CASE outcome \in success \cup {"noexecutor"} -> "sign"
                             [] outcome = "expired"                     -> "classic"
                             [] OTHER                                   -> "idle", outcome)
               /\ IF outcome \in success /\ Valid(will') # {}
                  THEN SyncDate(will') ELSE UNCHANGED <<settings, reasons>>
          ELSE /\ IF flow.caller = "menu"
                  THEN Conclude(IF outcome = "expired" THEN "classic" ELSE "idle", outcome)
                  ELSE Conclude(CASE outcome \in {"expired", "postponed"} -> "invalidate"
                                  [] outcome = "noheirs"                  -> "idle"
                                  [] OTHER                                -> "sign", outcome)
               /\ reasons' = reasons \cup {flow.caller}
               /\ UNCHANGED settings
  /\ UNCHANGED <<chainVars, edits, counters>>

Marked(chosen, flag) ==
  [t \in DOMAIN will |-> IF t \in chosen THEN SetStatus(will[t], flag) ELSE will[t]]

(* sign_transactions, or the password is not given.                        *)
Sign ==
  /\ flow.pc = "sign"
  /\ Goto("push")
  /\ will' = Marked(Valid(will), "COMPLETE") \/ UNCHANGED will
  /\ UNCHANGED <<chainVars, ownerVars, reasons, counters>>

ToBePushed ==
  {t \in Valid(will) :
     /\ t.we # NoExecutor
     /\ Has(will, t, "COMPLETE") /\ ~Has(will, t, "PUSHED")
     /\ flow.caller = "gui" => t.we \in settings.executors}

(* Of what is sent some arrives, and some of that is confirmed.            *)
Send(sent) ==
  /\ \E arrived \in SUBSET sent :
       /\ held' = held \cup arrived
       /\ \E confirmed \in SUBSET arrived : will' = Marked(confirmed, "PUSHED")
  /\ UNCHANGED <<now, coins, gone, mined, elsewhere, ownerVars, reasons, runs>>

(* loop_push, and _auto_sign_save_push.                                    *)
Push ==
  /\ flow.pc = "push"
  /\ Goto("idle")
  /\ Send(ToBePushed)
  /\ UNCHANGED uses

(* The invalidation of a postponed will (invalidate_task, _auto_invalidate_*)
(* will): the wizard checks again afterwards, also when the broadcast      *)
(* failed, but only once.  Without a password nothing happens.             *)
InvalidateWill ==
  /\ flow.pc = "invalidate"
  /\ \/ Goto("idle") /\ Invalidate(FALSE)
     \/ /\ IF flow.caller = "gui"
           THEN flow' = [flow EXCEPT !.pc = "check", !.outcome = "none", !.invalidated = TRUE]
           ELSE Goto("idle")
        /\ \E confirmed \in BOOLEAN : Invalidate(confirmed)
  /\ UNCHANGED <<ownerVars, will, reasons, counters>>

(* The invalidation of an expired will is a transaction window: the owner  *)
(* signs and broadcasts it, or closes the window.                          *)
InvalidateClassic ==
  /\ flow.pc = "classic"
  /\ Goto("idle")
  /\ \E confirmed \in BOOLEAN : Invalidate(confirmed)
  /\ UNCHANGED <<ownerVars, will, reasons, counters>>

-----------------------------------------------------------------------------
(* The other items of the menu, and of the menu of chosen transactions.    *)

UseMenu == flow.pc = "idle" /\ uses < MaxMenu /\ uses' = uses + 1 /\ UNCHANGED flow

SignFromMenu ==
  /\ UseMenu
  /\ \E chosen \in SUBSET Valid(will) : will' = Marked(chosen, "COMPLETE")
  /\ UNCHANGED <<chainVars, ownerVars, reasons, runs>>

(* Chosen transactions are sent again even if they were sent before.       *)
BroadcastFromMenu ==
  /\ UseMenu
  /\ Send({t \in Valid(will) : t.we # NoExecutor /\ Has(will, t, "COMPLETE")})

InvalidateFromMenu ==
  /\ UseMenu
  /\ Invalidate(TRUE)
  /\ UNCHANGED <<ownerVars, will, reasons, runs>>

(* The wallet is closed and opened: a WillItem that is loaded has the txid *)
(* of its transaction.                                                     *)
Reload ==
  /\ flow.pc = "idle"
  /\ will' = [t \in DOMAIN will |-> [will[t] EXCEPT !.born = t.locktime]]
  /\ UNCHANGED <<chainVars, ownerVars, flow, reasons, counters>>

-----------------------------------------------------------------------------
(* The owner edits between two runs: the dialog of the wizard is modal.    *)
Edit(new) ==
  /\ flow.pc = "idle" /\ edits < MaxEdits
  /\ edits' = edits + 1
  /\ new # settings /\ settings' = new
  /\ UNCHANGED <<chainVars, will, flow, counters>>

EditHeirs == \E heirs \in HeirSets : Edit([settings EXCEPT !.heirs = heirs]) /\ UNCHANGED reasons

EditDate ==
  \E recipe \in Recipes :
    /\ Due(recipe) > now
    /\ Edit([settings EXCEPT !.recipe = recipe])
    /\ reasons' = reasons \cup {"edited"}

EditFees == \E fee \in FeeRates : Edit([settings EXCEPT !.fee = fee]) /\ UNCHANGED reasons

SelectExecutors ==
  \E executors \in SUBSET Executors, backup \in BOOLEAN :
    Edit([settings EXCEPT !.executors = executors, !.backup = backup]) /\ UNCHANGED reasons

-----------------------------------------------------------------------------
(* The world.                                                              *)

Day == now < MaxDay /\ now' = now + 1 /\ UNCHANGED <<coins, gone, mined, held, elsewhere>>

Receive ==
  /\ coins < MaxCoins /\ coins' = coins + 1
  /\ UNCHANGED <<now, gone, mined, held, elsewhere>>

SpendElsewhere ==
  /\ elsewhere < MaxElsewhere /\ elsewhere' = elsewhere + 1
  /\ \E c \in Utxos : gone' = gone \cup {c}
  /\ UNCHANGED <<now, coins, mined, held>>

(* A will-executor, or an heir with a backup, executes the will.           *)
Execute ==
  /\ \E t \in Usable : Live(t) /\ t.locktime <= now /\ mined' = mined \cup {t}
  /\ UNCHANGED <<now, coins, gone, held, elsewhere>>

World ==
  /\ Day \/ Receive \/ SpendElsewhere \/ Execute
  /\ UNCHANGED <<ownerVars, will, flow, reasons, counters>>

FlowStep ==
  CheckWill \/ Build \/ Recheck \/ Sign \/ Push \/ InvalidateWill \/ InvalidateClassic

Menu == SignFromMenu \/ BroadcastFromMenu \/ InvalidateFromMenu

Owner == EditHeirs \/ EditDate \/ EditFees \/ SelectExecutors \/ Reload

Callers == {"gui", "menu", "auto"}

Next == (\E caller \in Callers : Begin(caller)) \/ FlowStep \/ Menu \/ Owner \/ World

Spec == Init /\ [][Next]_vars

-----------------------------------------------------------------------------
(* Properties.                                                             *)

Statuses == {"VALID", "COMPLETE", "PUSHED", "INVALIDATED", "REPLACED", "ONCHAIN"}

Transactions ==
  [coins : SUBSET (1 .. MaxCoins), locktime : Int, we : Executors \cup {NoExecutor},
   fee : FeeRates, heirs : HeirSets]

(* Types; an item keeps the locktime it was built with or an earlier one.  *)
PlanTypeOK ==
  /\ now \in 0 .. MaxDay /\ coins \in 1 .. MaxCoins /\ gone \subseteq 1 .. coins
  /\ \A t \in mined \cup held \cup DOMAIN will : t \in Transactions
  /\ \A t \in DOMAIN will :
       /\ will[t].status \subseteq Statuses
       /\ will[t].born >= t.locktime
  /\ settings.heirs \in HeirSets /\ settings.fee \in FeeRates
  /\ settings.executors \subseteq Executors
  /\ flow.outcome \in Outcomes \cup {"none"}
  /\ reasons \subseteq {"edited", "menu", "auto"}

OnePlan == \A p, q \in Valid(will) : p.heirs = q.heirs

(* Once the will is signed, and as long as the owner spent none of the     *)
(* coins, a transaction of an earlier plan with other heirs never comes    *)
(* first: one with the heirs of the will is due before it.  An expired     *)
(* will may be left with two plans, as the check does not put the earlier  *)
(* one aside then.  PlanInOrder adds the types.                            *)
OldPlanNeverFirst ==
  /\ gone = {}
  /\ Expired(will) => OnePlan
  /\ \A p \in Valid(will) : Has(will, p, "COMPLETE")
  => \A t \in Usable, p \in Valid(will) :
       Live(t) /\ Live(p) /\ Share(t, p) /\ t.heirs # p.heirs
       => \E q \in Valid(will) :
            Share(t, q) /\ q.heirs = p.heirs /\ q.locktime < t.locktime

PlanInOrder == PlanTypeOK /\ OldPlanNeverFirst

(* A will the check calls valid pays exactly the heirs the owner chose:    *)
(* nothing of an earlier plan counts as valid any more.                    *)
OkMeansHeirsPaid ==
  [][flow'.outcome = "ok" /\ flow.outcome # "ok" =>
       \A t \in Valid(will') : t.heirs = settings.heirs]_vars

(* The wizard never takes a date it anticipated itself for one the owner   *)
(* put off: a will with a fixed date is postponed only after an edit of    *)
(* the date, or after a rebuild by Prepare or by itself, which do not      *)
(* align the date.                                                         *)
PostponedMeansMoved ==
  [][flow.pc = "check" /\ flow'.outcome = "postponed" /\ settings.recipe.kind = "abs"
       => reasons # {}]_vars

(* README.md: the coins of a postponed will "must be invalidated on-chain  *)
(* first, otherwise a will-executor could broadcast the old                *)
(* (earlier-locktime) transaction and execute the inheritance too early".  *)
(* One coin of each valid item is spent, and an executor may hold a        *)
(* transaction of an earlier plan, for other heirs, that spends only the   *)
(* others.                                                                 *)
EarlierTxIsVoid ==
  elsewhere = 0 =>
    \A t \in held, p \in Valid(will) :
      Live(t) /\ Live(p) /\ Share(t, p) /\ Has(will, p, "PUSHED") /\ t.heirs # p.heirs
      => \E q \in Valid(will) : Share(t, q) /\ q.locktime <= t.locktime
=============================================================================
