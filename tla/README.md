# Verification of Bitcoin-after-life

TLA+ models of the parts of Bitcoin-after-life (BAL) in which several processes,
threads, windows or people act at the same time: the will-executor server, the
process that broadcasts the stored transactions, the delivery of a will to its
executors, and, in the Electrum plugin, the planning of a will, the division of
the wallet among the heirs, the custody of its signatures, the list of
executors, the dates and reminders, and the transfer as QR codes.  The models
are checked with TLC on small instances.  All the safety properties that the
passing runs check, the action properties among them, are proved with TLAPS for
every value of the constants as well; liveness is only checked.

Paths are relative to `src/repos/`.  `server` abbreviates
`bal-server/source`, `plugin` abbreviates `bal-electrum-plugin/source`.

## 1. The system

A will is a set of ordinary, signed Bitcoin transactions with a locktime in the
future (the *delivery date*), each paying the heirs, and a fee to one
*will-executor*.  The owner signs them in Electrum and sends them to the
executors; each executor keeps them in a database and broadcasts them when the
locktime has passed.  As long as the owner lives he keeps putting the date off:
the plugin either *anticipates* (the new will is due a day before the old one
and so wins) or *invalidates* (spends a coin of the old one on the chain).

| component | state | operations | talks to |
|---|---|---|---|
| bal-server, address book (`server/src/bin/bal-server.rs`, `src/db/mod.rs`, `src/xpub.rs`) | `tbl_xpub` (a key chain per network, next index), `tbl_address` (address, client, second of creation) | `GET /{net}/info`, start-up (`init_network`) | plugin over HTTP; SQLite |
| bal-server, transactions (same files, `src/validation.rs`) | `tbl_tx` (txid, network, status, fee, address) | `POST /{net}/pushtxs`, `POST /searchtx` | plugin; SQLite; `tbl_address` |
| bal-server, the rest | rate-limit buckets, configuration | `/stats`, `/.pub_key.pem`, `/version`, rate limiting | plugin, welist |
| bal-pusher (`server/src/bin/bal-pusher.rs`) | `tbl_tx.status`, `tbl_stats`, the run in progress | a run per block: connect, query, send, update, statistics | bitcoind over RPC and ZMQ; SQLite; supervisor; welist |
| legacy bal-pusher (`bal-pusher/source`) | as above, plus the last ZMQ sequence number | as above | as above |
| plugin, delivery (`plugin/bal/core/willexecutors.py`, callers in `gui/qt/dialogs.py`, `gui/qt/window.py`, `cli/controller.py`) | status flags of the will items, thread pools, deadline | broadcast, check, verification of "already present" | executors over HTTP |
| plugin, executor list (`core/willexecutors.py`, `gui/qt/lists.py`, `window.py`, `dialogs.py`, `controller.py`) | the list in the configuration, the window and the open dialog; the request under way | edit, select, save, download, ping, synchronise, import, commands | welist, executors, configuration file |
| plugin, will tree and status (`plugin/bal/core/will.py`) | will items, their flags, fathers and children | check, replace, anticipate, invalidate | wallet |
| plugin, building (`plugin/bal/core/heirs.py`, `will.py`) | heirs, amounts | division of amounts, one transaction per executor | wallet |
| plugin, flows (`gui/qt/dialogs.py`, `window.py`, `lists.py`, `controller.py`) | settings, the run in progress, the stored will | wizard and check, the menu (prepare, sign, broadcast, invalidate), automatic rebuild, close flow, CLI | all of the above |
| plugin, custody (`window.py`, `dialogs.py`, `lists.py`, `core/will.py`) | signatures and `COMPLETE` flags of the items, the stored will, labelled copies in the local history, the import window | sign, save, export, import, merge, delete, check | wallet, cosigner, files |
| plugin, check-alive and reminders (`core/checkalive.py`, `core/reminders.py`, `gui/qt/widgets.py`) | the two dates, stored and shown in up to three places; the calendar's alarms | edit, switch editor and user type, check, anticipate, export a calendar | flows |
| plugin, QR transfer (`core/animated_qr.py`, `core/qrtransfer.py`, pages in `dialogs.py`; the Android reader holds a copy) | the code shown, the session of the receiver, slots and debounce of the import page | show, browse, slideshow, scan, paste, review | camera |
| plugin, widgets; documentation, website, backup script | none of their own | presentation | |

### What is hard

* **Server.** Every `.await` of a handler lets other handlers in: an index is
  taken, an address stored and a batch inserted in three different calls.  A
  failing database call is mostly logged and passed over.  The process may
  restart, with other keys, between any two calls.  Keys are compared as they are
  written, but an account may be written as an xpub, a zpub or a tpub.
* **Pusher.** ZMQ promises nothing, RPC answers are lost, the process may die
  between sending a transaction and writing that down, and the two statements
  that renew the statistics have no transaction around them.
* **Delivery.** Pools of threads with timeouts, retries and a global deadline.
  A thread the deadline gave up on goes on, posts again, and its transactions
  arrive during a later operation.
* **Amounts.** The shares depend on the fee, the fee on the size of the
  transaction, and that on who is paid; shares are worked out in floating point
  and rounded down, and dust is dropped, in each of up to ten rounds.
* **Plan.** The check sees only what is *valid* in the plugin, while executors
  keep whatever they once received.  Heirs, date, fees and coins all change
  between two runs, and one run anticipates while another one takes the
  anticipated date for a change of mind.

* **Custody.** A signature, the flag that says it is there, the saved copy and the
  copy in the history are four things, changed in different steps of a dozen
  flows, some of which raise half way.  A complete transaction is parsed back as
  one that no signature can be added to.
* **Executor list.** Lists are Python dictionaries that share their entries, and
  one of them may be the very dictionary of the configuration.  Threads answer
  after the window that asked was closed or the list was reloaded.
* **Dates.** One date is stored once and shown in three widgets with two editors
  that send each other their changes; it is resolved against now, against the
  settings or against the built will, and days go by in between.
* **QR.** Two of four formats do not name their transfer; codes are missed,
  repeated and changed under the camera; two timers and a deferred call decide
  when the transfer is complete.

What must be true:

* no two clients are given the same fee address, and what was offered is accepted,
  as long as no account is configured twice;
* a thank-you is a promise: the transaction stays findable, and a will is stored
  whole or not at all;
* nothing is broadcast before its locktime, and everything due is decided;
* the marks the owner sees ("sent", "confirmed") are true, and every operation
  ends;
* a transaction of an earlier plan never comes before the present one, a check
  that says "ok" means the chosen heirs are paid, and a date the plugin moved
  itself is not taken for one the owner moved;
* the heirs get all there is and no more, and the fee comes to rest;
* a transaction flagged complete is signed and saved, an import reaches the will
  by a merge and never takes from it what is committed;
* the executors and addresses the owner sees are those the next build pays;
* an unchanged will stays alive until its Check Alive date and no longer, and the
  reminders come before that; what is shown is what is stored;
* what is read from another screen is what was shown there, and the scan ends.

## 2. Modules

| module | models |
|---|---|
| `AddressBook` | `/info`, `tbl_xpub`, `tbl_address`, restart |
| `WillExecutorServer` (EXTENDS AddressBook) | the whole server: `/info` and `/pushtxs` on one database; `/searchtx` as the operator `SearchTx` |
| `TxLifecycle` | abstract: the life of a row of `tbl_tx` |
| `Pusher` | bal-pusher for one network, with chain, ZMQ, RPC, supervisor; implements `TxLifecycle` |
| `WillDelivery` | broadcast and check of a will by the plugin, with the servers as a client sees them |
| `WillPlan` | check, rebuild and invalidation of a will, in the wizard, in the menu and by the automatic rebuild, the owner and the world |
| `WillAmounts` | the division of the wallet among the heirs, the fee, the change, for each executor in turn |
| `Fountain` | pure: the fountain code of the UR 2 format, and its decoder |
| `QrTransfer` (EXTENDS Fountain) | export page, import page, Android reader, the four formats |
| `WillCustody` | signing, storing, carrying and merging a will of a Father and a child, with a cosigner |
| `ExecutorList` | the list of executors in configuration, window, dialog, wizard and commands |
| `WillDates` | delivery and Check Alive dates, their widgets and checks, the reminders |
| `MC…` | constants of small instances |
| `BalServerProofs` | theorems and proofs about bal-server's two programs: `AddressBook`, `WillExecutorServer`, `Pusher` |
| `…Proofs` | theorems and proofs about the module of that name |

`PROJECT.json` maps each definition to the lines it models.

### AddressBook

One action per stretch between two awaits of `echo_info`; what the handler
remembers across an await is its record in `info`, which doubles as history (a
request is used once).

| action | code |
|---|---|
| `InfoBegin` | checks of `enabled` and `xpub` up to the first await |
| `InfoLookup`, `InfoLookupFails` | `get_last_used_address_by_ip`; an error is read as "none yet" |
| `InfoNextIndex`, `InfoNextIndexFails` | `get_next_address_index` (one UPDATE … RETURNING), the fallback `(0, 0)`, and `new_address_from_xpub` |
| `InfoSave`, `InfoSaveFails` | `save_new_address`, whose error is logged |
| `Tick` | the clock of `date_create`, which has seconds |
| `InfoRestart` | process restart, `init_network` with perhaps other keys |

An address is the record `[hrp, account, idx]` (`AddressOf`), and `Account` says
which account a configured key stands for.  `convert_to` overwrites the version
bytes before the derivation, so an account yields the same addresses whether it
is written as an xpub, a zpub or a tpub (`Address`); but the rows of `tbl_xpub`, the
counters and the lookups go by the key as it is written.  Two networks with one
prefix and one account have the same addresses as well.  That no account is
configured twice is a state predicate on the rows of `tbl_xpub`, hence about
everything that was ever configured: `DistinctKeychains` (neither for two networks
of one prefix nor in two encodings) and `OneEncoding` (not in two encodings).
They are premises of the properties, no assumptions of the model: the instance
re-encodes and rotates keys.

### WillExecutorServer

`PushBegin` (up to the first await), `PushLoadAddresses`
(`get_all_addresses_by_xpub`, then parsing), `PushCheckDuplicates`,
`PushInsert` (`execute_insert`, one database transaction), `PushFails` (an error
of any of these calls; of the insert, before or after the commit).  A
transaction is a list of outputs `[key, idx, amount]`; parsing is what it does
to a line: keep it with address and fee, or skip it.

### Pusher and TxLifecycle

The stages of `pc` are those of `main_result`: connect, query, send (one
transaction per step), update (pushed ones first, then invalid ones), statistics
(DELETE, then INSERT).  `Block`, `OwnerSpends`, `Insert` and `Crash` are the
environment.  The refinement mapping is `due <- {t : Final(t)}` and
`broadcast <- {t : node[t] # "unknown"}`.  `TxLifecycle` says what the state
machine of `server/docs/03` says: stored, broadcast only when due, `sent` only
of what the network has, `sent` and `failed` final.

### WillDelivery

`worker` holds the threads of all operations, by operation and server (push) or
item (check); `requests` and `replies` are the network, and a request stays in
the server's hands after its thread gave up.  `Run`, `Receive`, `TimesOut`,
`Breaks` are `send_request`; `Collect` is `on_each`; `Deadline` is the timeout
branch of the pool together with `on_timeout`, which only the wizard gives;
`Verify` is the lookup of transactions that were present already; `Stop` is the
closed dialog.  `PushTxs`, `PushInserts`, `SearchTx` are `WillExecutorServer`
reduced to what a client sees (accepted lines, duplicates, all or nothing).

### WillPlan

Items are keyed by what their transaction says (coins, locktime, executor, fee
rate, heirs), since Electrum sorts inputs and outputs and equal transactions
have equal txids.  `Id` is `WillItem._id`, the txid at the time of building.
`Checked` and `FoundOut` are `check_will` and `is_will_valid`: the marks, and
the possible outcomes, several of them where the order of a dictionary decides.
`NewLocktime` is the fixpoint of `search_anticipate_rec`: all new transactions
spend the same coins, so the lowest locktime that any of them needs becomes
everyone's.  `InvalidationCoins` is `invalidate_will`, which takes the first
coin of each valid item in the order of a dictionary (`rank`).

Three flows go through the stages of `flow.pc`, and `flow.caller` says which:

| stage | `"gui"`: wizard, *Check* (`task_phase1`) | `"menu"`: *Prepare* (`build_inheritance_transaction`) | `"auto"` (`_auto_rebuild_flow`) |
|---|---|---|---|
| `Begin` | always | an executor or a backup, a date to come | a will, and a transaction seen |
| `CheckWill`: in order | sign | ends | ends |
| expired | window of the invalidation (`classic`) | the same | invalidate |
| postponed | invalidate, once | window of the invalidation | invalidate |
| else | build | build | build |
| `Build` with nothing to build | push | recheck | ends |
| `Recheck` | aligns the stored date (`SyncDate`), then sign | ends; the date stays | sign; the date stays |
| `Sign`, `Push` | yes | left to the owner | yes |

What *Prepare* leaves to the owner is `SignFromMenu` and `BroadcastFromMenu`, for
chosen items or all of them, and `InvalidateFromMenu`, at any later time.
`reasons` keeps what has parted the stored date and the will since the wizard
last aligned them: an edit, a *Prepare*, an automatic rebuild.

A push lets any subset arrive and any subset of that be confirmed, which is what
`WillDelivery` allows.

Time is in days; the wallet sees transactions at once; signatures are whole.

### WillAmounts

`pc`, `j` and `i` are where `buildTransactions` is: `NextExecutor` starts the ten
rounds for an executor, and a round is `PrepareLists`, `PrepareTransactions`,
`Settle`.  The division is pure: `FixedFirst`, `PercentPaid` and `FixedPaid` are
the three calls of `normalize_perc`, in the order and relative to the totals
that `prepare_lists` gives them.  `Raise` is an exception, which discards what
was built for earlier executors as well; `GiveUp` is the end of one executor.
`Rest` is the recursion of `get_transactions` over what is left.  `Taken` is the
coin after which no more are needed.  An entry of `built` keeps, with the
transaction, whom it pays and how many rounds it took.  The size of a
transaction is its inputs and outputs plus one.

The code divides in floating point and rounds the result down
(`heirs.py:404`), so that a sole heir with everything of 820 gets 819.  A quotient is
therefore any integer that a relative error of `1 / Precision` allows
(`Proportions`), in every one of the calls.  Two roundings of a double make
`Precision` 2^51, where the sum of the percentages is exact, as it is for whole
ones.  The assumption is that the wallet holds less than `Precision`: twenty-one
million bitcoins are 2^50.9 satoshis.

### Fountain and QrTransfer

Data is the set of fragments it is the exclusive or of, so the decoder's result
can be compared with what was sent.  `ReduceMixedBy` looks at the positions of the
mixed parts: those that become simple are queued, of the others the first with
its set of fragments stays (`Pick`).  `Receive` is the loop of `_receive`, with a
bound on its turns that is proved to be enough (`NoTurnsLeft`).  The two endpoints share nothing but the
code on the screen (`Shown`).  `ChangeExport` is any change at the export page,
`AutoStep` the timer of the slideshow, `Tick` a reading of the import page's
camera with its debounce (`qr_import_accept_frame`), `AddFrame` what every code,
scanned or pasted, goes through, `PhoneReads` the Android reader.
`ReviewAndSign` is pressed, or called from the timer of `_maybe_auto_finish`
(`deferred`).  A session is compared with what was shown by the pairs of will
and size its parts came from.

### WillCustody

`Sign` is a batch, of which a part may have been signed when it raises
(`Partway`): the flags stay, the signed copies are dropped.  `SignAndSave` is the
wizard's and the headless rebuild's, `SignFromCommandLine` the controller's.
`Linked` is `add_willtree`, `FallsOver` the exception of `set_invalidate`,
`Synced` the exchange with the local history, `Merged` the body of
`merge_will`.  `dlg` is the copy an import window works on, `file` the payload
on the way, `Cosign` what the other wallet does to it.  `thrown` and `loose`
are history: which signatures were dropped, which flags no save has followed.

### ExecutorList

Entries are cells of a heap; a list maps URLs to cells; `tie` says which list is
the dictionary of the configuration.  Requests have two steps, `Ask…` and
`Answer…`, and an answer is applied by `Apply…` in the thread of the window.
`net.modal` says that the wait window is still open, `net.alone` that nothing
else has changed a list since the request was sent, `net.picked` which
entries the list server itself marks as selected: `FromServer` selects what the old
list or the server selects, and prefers the old list's address.  `Restart` may come at any
point and reads `disk`.  `MaxCells` bounds the entries alive at a time, and has
room for one of every server and of every default.

### WillDates

Time is in half days, so now is never a midnight.  A stored date is a moment
or a duration; a widget has an editor (Raw, Date) and a value, and whatever is
edited goes through `Stored` and `UpdateAll`, as the signals do.  `DateToCheck`,
`GuardThreshold` and `Delivery` are the three readings of the settings; `Verdict`
is the order of the checks in `init_class_variables` and `is_will_valid`.
`Prepare` builds, anticipates with `Sync`, or invalidates.  `Offsets` is
`compute_reminder_offsets` with Python's rounding to even.  `alarm[p]` is what
the widgets of a place have worked out for their calendar, and `of` the dates
they did it from: that may be another date than is shown (section 6, 13).

## 3. Runs

| run | instance | shows |
|---|---|---|
| `address_book` | 4 networks (two with key chains, one plain, one disabled), 2 clients, 3 requests, a key that is rotated or re-encoded, 1 failure, 1 restart, 1 second | `AddressNotShared`, `OfferedIsRecognised`, `AnsweredClientKeepsAddress` |
| `server` | 3 networks (key chain, plain, free), 2 pushes with overlapping, damaged and repeated bodies, 2 `/info` requests of one client, 1 failure, 1 restart | `ThxMeansStored`, `BatchStoredWhole`, `StoredPaysUs`, `OnlyARivalRejects` |
| `pusher` | a parent locked by time and its child locked by height; 1 lost announcement, 1 failed call, 1 crash | `FailedHasCause`, `StatsUpToDate`, `ImplementsLifecycle`, `EveryDueTxDecided` |
| `delivery` | 2 items, of which one does not pay, 1 server, 1 thread per pool, 1 retry, 2 operations of any caller, 2 faults | `CheckedIsStored`, `PushedIsStored`, `WizardMarksAll`, `PushFailHasCause`, `OperationsEnd` |
| `will_plan` | 1 or 2 heirs, 1 executor and a backup, 2 fee rates, a fixed and a relative date, 2 coins, 1 day that passes, 1 edit, 1 coin spent elsewhere, 3 runs of a flow, 1 use of the menu's other items; the constraint `Few` follows a coin spent elsewhere between two runs, and without a use of the menu | `PlanInOrder` (types, `OldPlanNeverFirst`), `OkMeansHeirsPaid`, `PostponedMeansMoved` |
| `will_plan_earlier` | two fixed dates, 3 coins, 2 edits, 3 runs | **violated**: `EarlierTxIsVoid` |
| `amounts` | up to 3 heirs with 3 fixed amounts or 2 percentages, 28 wallets of up to 2 coins, 0 to 2 executors with fees 0, 3, 6, dust 3, divisions with a relative error of 1/40 | `AllAndNoMore` (types, `NeverMoreThanThere`, `Emptied`), `FixedHeirsKept`, `Settles`, `ReasonGiven` |
| `qr` | 2 wills, 4 formats, 2 sizes of code, up to 3 parts, both receivers, 1 change at the export page, 2 readings per code | `ImportInOrder` (types, `SessionOfOneHeader`, `SlotsMatchSession`, `FinishedOnce`), `MixedOnlyWithoutDigest` (of the step that decodes: the session may change afterwards), `FountainSound`, `ScanEnds` |
| `custody` | a Father and a child, two keys of which the wallet has one, 1 export, 6 steps | `CompleteIsTrue` (types, `CompleteHasCause`, `CompleteIsStored`), `ValidChildOfInvalid`, `CommittedIsKept`, `ImportedByMerge` (`ImportLeavesLiveAlone`, `MergeBringsSignatures`) |
| `custody_merge` | one key that the wallet has not, 6 steps | **violated**: `MergeKeepsSigned` |
| `executors` | a default server and another, both offered by the list servers, a first session or one in which both are stored and selected, 3 steps | `ShownIsTrue` (types, `ShownIsBuilt`, `ShownSurvives`), `NoSharedEntry`, `DownloadKeepsChoice`, `AutoSelectsAnswered` |
| `dates` | defaults of 4 and 2 days; to pick, durations of 2 and 4 days for the delivery and of 1 for Check Alive, and 2 days each; 3 reminders, 5 days, 3 edits or restarts | `WidgetsInOrder` (types, `ShownIsStored`), `UnchangedStaysAlive`, `GuardAgrees`, `CalendarMatchesWill` (`OnlyRawIsBehind`, `AlarmsMatchWill`, `RemindersInAlivePeriod`), `BasicKeepsDates` |

What is in parentheses are the named parts of the property before it; each part
has a faulty variant of the code that breaks it.  The type invariants of
`AddressBook`, `WillExecutorServer`, `Pusher` and `WillDelivery` are proved and
are in no run.

Runs switch the deadlock check off because the bounds stop them, and because
servers and flows may rest when nobody asks anything.

### Why the bounds are enough

* *Address book.*  A shared address needs two clients, a stale one a third
  request.  The restart may keep the key, rotate it, or write its account otherwise:
  the premises are false in the last case and true in the others.  Index 1 is the second index, so `MaxIndex = 1` lets three requests
  reach the index that cannot be derived.  One second tells "same second"
  from "later".  One failure and one restart may fall into any gap.
* *Server.*  Two pushes race in every order of their awaits; the bodies hold a
  line both have, a line only one has, a line that is not a transaction and the
  same line twice; the amounts are below, at and above the fee.  An `/info`
  request may give out the address a push depends on while the push is on its
  way.
* *Pusher.*  One locktime is a height, the other a time, and the child may be
  due before its parent; height 2 and 3 tell "reached" from "passed".  One crash
  and one failed call fall between any two steps.  From `MaxHeight` and `MaxMedian` on blocks go on
  without the numbers growing.
* *Delivery.*  Two faults lose an answer and its retry.  With one thread per
  pool a second one waits in the queue, so a deadline finds queued, running and
  finished threads.  Two operations are what it takes for a thread of one to
  arrive in the other.  A push has one thread per executor, so with one executor the
  limit binds only for checks.
* *Plan.*  One edit or none between three runs covers every pair (old plan, new
  plan) with a third run to look at the result; two coins tell "the same coins"
  from "more coins".  The dates are two days away, so an anticipated will falls on
  tomorrow and is overdue when the day has passed.  Two runs of *Prepare* around an
  edit, *Sign* from the menu and a check are three runs and one use: that is how a
  will nobody put off is found postponed.  A coin spent elsewhere matters to a plan
  and the check or rebuild after it, hence two runs around it (`Few` in `MCWillPlan`,
  which holds the two kinds of disturbance apart).
  `will_plan_earlier` needs a third coin and a second edit.
* *Amounts.*  The fixed amounts are dust (1), small (5) and large (12); wallets of
  every size from 2 to 24 run through the boundaries of too little for the fee,
  for the executor, for the fixed amounts, and exactly enough.  Three heirs are
  what it takes for rounding to leave something when all are equal; the ten
  rounds are those of the code.  With `Precision` 40 every quotient that is a whole
  number may come out one less, as in the code, and many others one more.
* *QR.*  A mixture takes two wills or two sizes and one change; three parts are
  what it takes for a mixed fountain part to be reduced twice.  Two readings are
  the debounce's need: see section 7 for faster slideshows.
* *Custody.*  Six steps are enough to sign, export, have cosigned, import and
  merge with a check or a crash in between; the Father and its child are the
  shortest tree.  The step bound is what ends a behaviour.
* *Executor list.*  A behaviour begins with nothing stored, or with every server
  stored and selected, and with the dialog closed; asking, answering and applying
  are three steps, and so are opening, editing and a command, a rebuild or a
  restart.  The faulty variants of every property are found within them.  No
  more than seven of the eight cells are ever in use.
* *Dates.*  The days span build, Check Alive date, delivery and the day after;
  three edits change both fields and the user type.  The number of reminders (3)
  is above the period's length and below, with the durations given.

## 4. Fairness

* `Pusher`: the process runs when it can (`WF(PusherStep)`), is started when it
  is down (`WF(Start)`: the installer writes `Restart=always`,
  `server/contrib/download_and_install_bal.sh:126,167`), and blocks go on
  (`WF(Block)`).  Failures, losses and crashes are finitely many; nothing is
  assumed of them otherwise.
* `WillDelivery`: only the caller's own thread runs (`WF(CallerStep)`).
  Nothing is assumed of servers or of pool threads: the deadline is a clock of
  the caller.  The operation ends even if they all hang.
* `QrTransfer`: the timers of the slideshow and of the deferred review, and a camera
  that reads what is held before it (`WF(AutoStep)`, `WF(Tick)`,
  `WF(PhoneReads)`, `WF(deferred /\ ReviewAndSign)`).  `ScanEnds` speaks of a
  slideshow that loops and of a user who does not turn it back forever.
* `WillCustody`, `ExecutorList`, `WillDates` state no liveness property: what goes
  on in them is the owner's choice.
* `WillPlan` states no liveness property.  A run takes finitely many steps: it
  goes back to the check once at most, because `flow.invalidated` is then set.

## 5. Proofs

The proof modules hold 43 results for every value of the constants.

| theorem | property | assumption beyond the named ASSUMEs |
|---|---|---|
| `InfoTypeCorrect` | `InfoTypeOK` | |
| `AddressesNotShared` | `AddressNotShared` (premise `DistinctKeychains`) | |
| `OffersAreRecognised` | `OfferedIsRecognised` (premise `OneEncoding`) | |
| `ClientsKeepAddress` | `AnsweredClientKeepsAddress` (premise `DistinctKeychains`) | |
| `ServerHasAddressBook` | `ServerSpec => InfoSpec` | |
| `ServerAddressesNotShared` | `AddressNotShared` of the whole server (premise `DistinctKeychains`) | |
| `ServerTypeCorrect` | `ServerTypeOK` | |
| `ThxIsKept` | `ThxMeansStored` | |
| `BatchesAreWhole` | `BatchStoredWhole` | |
| `StoredRowsPay` | `StoredPaysUs` | |
| `RivalsReject` | `OnlyARivalRejects` | |
| `PusherTypeCorrect` | `TypeOK` | |
| `FailureHasCause` | `FailedHasCause` | |
| `PusherImplementsLifecycle` | `ImplementsLifecycle` | |
| `StatsAreUpToDate` | `StatsUpToDate` | |
| `DeliveryTypeCorrect` | `TypeOK` | |
| `ConfirmationsAreTrue` | `CheckedIsStored` | |
| `PushesAreTrue` | `PushedIsStored` | |
| `WizardMarks` | `WizardMarksAll` | |
| `FailuresHaveCause` | `PushFailHasCause` | |
| `EarlierPlansComeLater` | `PlanInOrder` | |
| `OkPaysChosenHeirs` | `OkMeansHeirsPaid` (action) | |
| `PostponedOnlyWhenMoved` | `PostponedMeansMoved` (action) | |
| `HeirsGetAllAndNoMore` | `AllAndNoMore` | |
| `FixedAmountsAreKept` | `FixedHeirsKept` | |
| `RoundsSettle` | `Settles` | |
| `BuildsGiveReasons` | `ReasonGiven` | |
| `CompleteIsTrueAlways` | `CompleteIsTrue` | |
| `ValidChildAlways` | `ValidChildOfInvalid` | |
| `CommittedIsKeptAlways` | `CommittedIsKept` (action) | |
| `ImportedByMergeAlways` | `ImportedByMerge` (action) | |
| `ShownIsAlwaysTrue` | `ShownIsTrue` | |
| `EntriesStayUnshared` | `NoSharedEntry` (action) | |
| `DownloadsKeepChoice` | `DownloadKeepsChoice` (action) | |
| `AutoSelectionIsExact` | `AutoSelectsAnswered` (action) | |
| `WidgetsAlwaysInOrder` | `WidgetsInOrder` | |
| `UnchangedAlwaysAlive` | `UnchangedStaysAlive` | |
| `GuardAlwaysAgrees` | `GuardAgrees` | |
| `CalendarAlwaysMatches` | `CalendarMatchesWill` | |
| `BasicAlwaysKeepsDates` | `BasicKeepsDates` (action) | |
| `ImportAlwaysInOrder` | `ImportInOrder` | |
| `DecoderAlwaysSound` | `FountainSound` | |
| `MixturesLackDigest` | `MixedOnlyWithoutDigest` (action) | |

`DistinctKeychains` and `OneEncoding` are about the rows `tbl_xpub` has come to
hold: no two of them that give out addresses are of one account under one prefix,
or of one account written in two ways.  Nothing in the code enforces that, and
without it the properties fail (section 6, 15).  As rows are never deleted, a
premise that holds now held in every earlier state, which is how the proofs use it.

**The address book.**  `AddressNotShared` speaks of finished requests; that two
of them do not have the same address depends on counters and rows that other
requests wrote.  `InfoInv` adds: two requests that took an index of the same
row took different ones; every taken index is at most `path_idx` of its row;
and every row of `tbl_address` with an xpub was written from a taken index by a
request of that client (`IndexesDiffer`, `RowsTaken`, `StoredTaken`).  The
history needed for "was taken by" is `info` itself.  The whole server changes
the address book only by its own steps and by stuttering, so the theorem
carries over through `ServerHasAddressBook`.

The other two properties hold while no call of the database fails, and so do
their invariants.  `BookInv`: every network has its row in `tbl_xpub`, so no
request falls back to index 0, and what a request was given is in `tbl_address`
under the key it was derived from.  `KeepsInv`: the row of a finished request is
found by its client, network and key, and a request that goes on to an index
came after none of its client that was answered under this key.  Here the
distinct key chains are needed again: `save_new_address` of one network may meet
the address of another, and then the row keeps its first owner.

**The server.**  `ThxMeansStored` is not inductive: nothing in it says what the
duplicate check found stays stored, nor that a handler's list of duplicates is
of rows that exist.  `PushInv` says, for each request, what is true of its record
at each stage (`PushOK`), and what the answered ones were promised (`Promises`),
and rests on rows never being deleted.  That a batch is whole follows from every
line of a request being among its duplicates or in the insert.

`PaysInv` says of each accepted line, from parsing on, what `StoredPaysUs` says
of a row: the addresses of a push were read two awaits ago, and rows of
`tbl_address` are never deleted.  `RivalInv`: two pushes in flight know of each
other, and a line that has appeared in the table since the duplicate check was
stored by one of those.

**The pusher.**  `PusherInv`: what was read of the chain is in the past
(`TipIsPast`); what a run holds in hand was selected, hence is due
(`InHandIsDue`); what it will write down as sent is known to the network
(`PushedIsKnown`), what it will write down as failed has a cause
(`InvalidHasCause`); what is broadcast and still waiting is in hand, or a call
failed or a crash happened (`KnownIsAccounted`).  Every action is then a step of
the life cycle or a stutter.  The boundary between `Selected` (strict) and
`Final` (consensus) is the lemma `SelectedIsFinal`.  `StatsUpToDate` speaks of a
waiting process, and no step of the environment but an insert changes a status
then; that makes it inductive, but for the pause after a failed connection,
which counts as a fault (`StatsInv`).

**The delivery.**  A mark is made from a result, a result from a reply, a reply
by a server: `DeliveryInv` carries the truth along that way.  Each reply in
flight, each result of a thread and each duplicate list of a request is true of
`stored` (`RepliesAreTrue`, `ResultsAreTrue`, `DupsAreStored`), messages belong
to operations that started (`MessagesArePast`), and `stored` only grows.  That
deadlines, retries and late threads do not matter is the point: no timing
assumption appears.

`WizardInv`: an item the wizard pushes has its mark, or is to be looked up, or
is in the body of a thread that the caller still waits for.  The deadline empties
the last of these, and `on_timeout` marks what it takes out; a thread that comes
late can only add marks.  `CalmInv` is about the time before the first fault and
the first deadline: every message then belongs to a thread the caller waits for,
no two of them carry the same item, so "already present" is the worst answer an
item that pays can get.

**The plan.**  `PlanInOrder` compares transactions of plans that were made
under different heirs, dates and fees.  `PlanInv` adds that whatever was built
and may still be mined shares a coin with whatever else may (`LiveShare`); that
two valid plans are never due on the same day (`Apart`), and between a rebuild and
its check the signed one is due last (`RebuiltFirst`), so that the check puts it
aside; that once checked and not expired the valid items are of one plan, which the
owner may sign from the menu at any time (`Agreed`); and that what was put aside
gave way to something due before (`Superseded`, while no coin was spent elsewhere).
An expired check does not put the earlier of two plans aside, hence the premise
`OnePlan` for an expired will.
The check goes through the items in the order of a dictionary, but the valid one
that is due first gives way to nothing (`FirstStays`), and the rebuilt will is due
before all that it anticipates (`NewLocktimeComesFirst`).  `OkMeansHeirsPaid`
follows from the check alone.  For `PostponedMeansMoved`, `MovedInv` says that a
fixed date has nothing ahead of it after the wizard aligned it (`Aligned`, while
`reasons` is empty), except where something overdue keeps the check from looking,
and between a rebuild and its check; the menu's items leave date and locktimes
alone.

**The custody.**  `CompleteHasCause` and `CompleteIsStored` are inductive with
the types, once the lemmas say of each operator on wills (`Linked`, `Checked`,
`Synced`, `Merged`, ...) which signatures, flags and items it keeps.
`ValidChildOfInvalid` is not: a restart or a reload can bring back a will of
before.  `CustodyInv` adds that no item is invalidated before its coin was spent
elsewhere (`InvalidForACoin`), and that the will and its store have the same
items and never disagree about the Father (`NoneLeftBehind`).

**The executor list.**  `ExecInv` says what the three lists, the shipped one,
the file and the request in the air have to do with each other: the answer of a
list server is in nobody's cells yet (`AnswerApart`), a request that is alone
still has what it was given (`DownloadAlone`, `PingAlone`, `PingsTheList`), an
open list and the configuration differ in defaults put back only
(`ShownTogether`), and when all is saved the file has what the configuration
has, but for defaults put back and addresses cleaned on loading (`Synced`).
Cells that are free are taken by an injective choice, whose existence is the
lemma `SmallerFits`.  Most steps are instances of three lemmas, one for what
saves the open list, one for the commands, one for what loads.

**The dates.**  `DatesInv` has three parts.  The widgets show the stored dates, in
whatever order the signals fire (`WidgetsInv`); the locktime of an unchanged will
is the delivery that was asked for or would still be before it, and not before
the Check Alive date (`WillInv`); what a calendar was worked out from is known,
and was right for the will built with the same dates (`AlarmInv`).  The rest is
arithmetic of midnights: `Midnights`, `WholeDays`.

**The amounts.**  Sums over the heirs and sequences of reductions are recursive,
and the induction theorems of the library cannot be used.  What they compute is
proved by a smallest counterexample: if a statement fails for some subset of the
heirs, it fails for a smallest one, and taking an heir out of that one gives a
contradiction (`SmallestSet`, `LeastNatural`, from the well-foundedness of `<` and
of the strict subsets of a finite set).  `SumAdd`, `SumUnion`, `SumAtMost` and the
like come from there.  The lemmas `Normalized...` then say what one call of
`normalize_perc` gives away, with its rounding, `Listed...` what the three calls
of `prepare_lists` do together, and `Basics` ties the amounts listed to the fee
and the executor they were worked out for; `AllAndNoMore` and `FixedHeirsKept`
follow.  For `Settles`, `Settling` follows the rounds in an ample wallet: the first
pays no fee, the second the fee that the first found to be needed, both take
every coin, pay every heir and leave no change, so the second is the last.  The
proof asked for one premise of `Ample` more than TLC had found on the instance:
see section 7.  Of a quotient the proofs use two bounds (`ProportionsAre`): it is
above the exact value by no more than the error allows, and below it by less than
that and one unit; as no total reaches `Precision`, the quotients of all heirs
together exceed the total by less than one, so by nothing (`NormalizedFits`).

**The QR codes.**  `QrInv` says of a session that its parts are of one total and
one header, and that the numbers it has taken are the slots of the import page
(`Good`, `Receiving`).  Of the fountain decoder, `DecoderInv` says more.  Let F be
the sets of fragments that are the exclusive or of some of the parts taken.
Everything in the decoder is an item of F, with the data of its fragments
(`Items`), because reducing a part by another keeps it one (`ReduceKeeps`).  A part
more makes F at most twice as large, and F holds every single fragment when the
decoder is done; so n fragments need n parts (`SpanGrows`, `SpanOfAll`), and the
slots are enough whenever the session is done.  In the other direction a plain
part that came is there, since the loop of `_receive` does not stop before its
queue is empty: after the first turn, what is queued and what is mixed become
fewer at every turn (`NextTurn`).  The recursive functions of `Fountain` are
followed as the sums are, by the first step that would go wrong.

### What is only model-checked

* `EveryDueTxDecided`, `OperationsEnd`, `ScanEnds`: liveness under fairness is out of the
  prover's reach.
* No module declares a recursive operator; recursive functions are in `Fountain`
  and behind the sums of `WillAmounts`.

## 6. Where the code and its documentation disagree

Two claims have a run that refutes them:

1. `will_plan_earlier`.  The invalidation spends one coin per valid item.  A
   replaced item that an executor holds and that spends only the other coins
   stays usable and is due before the postponed will (`plugin/README.md:173`).
2. `custody_merge`.  A live transaction that was imported complete has no
   `COMPLETE` flag before the next check.  It cannot be combined, so merging an
   unsigned copy replaces it, although "an already-signed live transaction is
   left untouched" (`plugin/bal/gui/qt/window.py:1796`).

The models contain the following as well; the run is left out.

3. When `get_next_address_index` fails, the handler goes on with `(0, 0)` and
   answers the address of index 0.  Two clients then have one address, against
   "unique to the requesting IP" (`server/docs/05_api_reference.md:45`).
   `AddressNotShared` is about derived addresses, which these are not.
4. Any error of `sendrawtransaction`, a lost answer included, makes a row failed
   for good, although the network has the transaction
   (`server/docs/06_database_schema.md:113`).
5. The window's push passes no `on_timeout`: executors that miss the deadline
   leave no mark and no error, and the owner reads "All transactions are
   broadcasted" (`plugin/bal/gui/qt/window.py:1579`).
6. A will that was not signed is postponed by the owner; the rebuild takes over
   the old date and then sets the stored date back, although "a genuine
   user-chosen postpone is never silently overwritten"
   (`plugin/bal/gui/qt/dialogs.py:1133`).
7. Fixed amounts that are more than the wallet holds are cut down; if rounding
   leaves a unit, the third call of `normalize_perc` cuts the cut amounts again
   (three heirs of 100000 and a wallet of 100000: 11111 each, the rest is the
   owner's change), against "**all** the value in the wallet reaches the heirs"
   (`bal-docs/source/docs/user-guide/heirs.md:26`).
8. Signing in the review of an import keeps the signed copy for the file only;
   the QR codes of its last page show the unsigned one, although it "offers to
   export the signed transactions as a file and/or as QR codes"
   (`plugin/bal/gui/qt/dialogs.py:3982`).
9. A default executor that was deleted is back, and selected, at the next load
   (`core/willexecutors.py:181`), against "Delete — delete the server from the
   list" (`plugin/docs/manual/README.md:404`).  `Kept` excepts it.
10. In BASIC the calendar buttons always say "No reminders were saved: the
    delivery date is too close (or already passed)" (`gui/qt/widgets.py:1019`):
    the alarm has a time zone and `datetime.now()` in `reminders.py` has none.
11. The calendar of the build dialog (`gui/qt/dialogs.py:1816`, "for the current
    will data") is worked out from the settings, a duration from today on: its
    reminders may come after the delivery of the built will, while
    `core/reminders.py:22` says that they "always fall *before* the delivery
    deadline".
12. The Android reader announces "The QR switched to a different transfer; caller
    should rescan" (`BalDecoder.kt`, `CONFLICT`) only when the format changes;
    another transfer of the same format is ignored for good.
13. The calendar of a tab may be that of an earlier date, although it should be
    "for the current locktime/threshold values" (`gui/qt/widgets.py:1079`): a Raw
    editor that is given a text blocks its signals (`widgets.py:547`), so the
    alarm is not worked out again (`widgets.py:1128`).  A date that is edited in one
    tab and set back in the other leaves the first tab with the alarm of before.
    `alarm` keeps the dates it was worked out from, and `OnlyRawIsBehind` says
    that nothing else is behind.
14. A default executor that `get_willexecutors` puts back is the dictionary of the
    shipped list, not a copy (`core/willexecutors.py:177`).  Deleted, put back,
    renamed and put back again it is one entry under two URLs, so selecting one
    server selects two; edited, deleted and put back it is as it was edited, and
    that is not saved.  `InPlace` and `Pristine` are the premises that name this.
15. A restart with the xpub of before written in another encoding
    (`server/src/xpub.rs:173` overwrites the version bytes) adds a row to
    `tbl_xpub` that counts from 0 again (`server/src/db/mod.rs:229,305`): a second
    client is given the address of index 0, against "unique to the requesting IP"
    (`server/docs/05_api_reference.md:45`).  `save_new_address` then meets the row of
    the first client, and a push that pays an address offered under the other
    string is refused.  `DistinctKeychains` and `OneEncoding` are the premises that
    except it.

## 7. Other observations made while modelling

They are visible in the models or in the code, and have no run of their own.

* The same xpub configured for two test networks is counted per network, under
  one address prefix: both hand out the same addresses (`DistinctKeychains`, which
  excepts another encoding as well: section 6, 15).
* A second sending of a transaction whose status could not be written may be
  refused as confirmed, and its row is then failed: the life cycle allows that.
* The server's duplicate check and its insert are separate calls: of two
  overlapping pushes the second fails on the primary key, and valid transactions
  are answered 400, which `server/docs/05_api_reference.md:84` says of invalid
  ones.  `OnlyARivalRejects` says that nothing else does that.
* A connection that fails makes the pusher sleep five seconds and then ends the
  run; `server/docs/03` describes a retry.
* A check that gets no answer shows "Not on server" and clears `PUSHED`
  (`will.py:1517`); later checks ask only about items that have it
  (`will.py:98`, `gui/qt/lists.py:766`).
* `set_status` does nothing for a flag that is set (`will.py:1341`): the failure
  of a first push is not cleared by the success of a forced second one.
* New coins alone do not anticipate: with the same executor the rebuilt
  transaction has the same locktime as the one it replaces, while
  `window.py:1190` and `gui/qt/plugin.py:909` speak of one day earlier.  Both
  then stay valid.  With a relative date the later check takes
  the result for a postponement, hence the restriction of `PostponedMeansMoved`
  to fixed dates.
* If the owner spends a coin of the newest transaction elsewhere, that one is
  invalidated, and an older one it replaced stays `REPLACED`, held, and usable:
  `OldPlanNeverFirst` speaks of wallets in which no coin was spent (`gone = {}`).
* *Prepare* (`window.py:795`), the automatic rebuild and the command line do not
  align the stored date (`_sync_locktime_to_built_txs` is the wizard's), so once
  the anticipated will is signed the next check takes it for one the owner
  postponed, and wants an invalidation: *Prepare* after an edit of the heirs,
  *Sign* and *Check* are enough.
* What *Prepare* and its check find matters less than in the wizard: whatever
  comes out, the owner may sign and broadcast what is valid (`SignFromMenu`,
  `BroadcastFromMenu`), an expired will with two plans in it included.
* `_id` is the txid at building time.  An item that was anticipated is not seen
  by a rebuild that has the txid it had before, and both may stay valid, for
  the same heirs on different dates.
* An item rebuilt with the same txid after the stored date changed loses its
  signature, because the comparison of the heirs includes the date.
* The fee rounds may end without rest (a small share is dust in every other
  round): the tenth transaction is taken, with a fee for another size.  `Settles`
  is therefore about wallets in which nobody comes near dust.
* So may they with very many heirs: what rounding leaves is up to one unit
  per heir, which may be more than dust; it then becomes change, whose output
  raises the fee of the next round, in which it may be gone again.  `Settles` asks
  for no more heirs than the dust threshold.
* `prepare_transactions` counts the fee twice when it computes the change: it is
  in `out_amount` already.  Up to a fee more than needed goes to the miners.
* A fixed amount that is dust counts in the total the leftover is shared by, and
  is raised or dropped with it: dust of one heir lowers the others' amounts,
  hence the premise of `FixedHeirsKept`.
* A sole heir with 100% of 820 units is paid 819: `820 / 100.0 * 100.0` is below
  820 (`heirs.py:404`).  `Emptied` says that at most one unit per heir is left.
* If the executor's fee and the mining fee are exactly what there is, heirs with
  percentages are not listed at all, the test for "all dust" finds nobody, and a
  transaction that pays only the executor is built.
* If a coin below the dust threshold is not needed, `get_transactions` divides it
  as a rest, and the exception for a balance that is too low discards the
  transactions that were built (`Rest`).
* `set_invalidate` iterates `children.items()` (`will.py:562`), but
  `add_willtree` builds a list: the validity pass raises on the first invalidated
  Father that has children, and leaves them `VALID` (`fell`).  Deleting a Father
  makes `check_invalidated` raise as well.
* A batch that fails half way (`window.py:1116`) leaves `COMPLETE` flags without
  signatures.  Such an item is never signed again, is sent as it is, and cannot
  be repaired by merging a signed copy (`thrown`).
* `save_valid_transactions_to_history` removes every labelled transaction of a
  current label, without asking whether it is local.
* A cosigner's signature absorbed from the history by a check is lost if Electrum
  dies before the next save.
* A hand-added executor the window's list does not know is overwritten and
  deselected by a download; *Ping all* whose wait window was closed puts deleted
  and renamed entries back; a rebuild in the middle of the wizard makes the
  automatic selection use stale answers.  The premises of `NoSharedEntry`,
  `DownloadKeepsChoice` and `AutoSelectsAnswered` name these cases, and the
  last one asks for a list in which no two servers have one entry.
* A list server that marks an entry `"selected": true` selects it, also one the
  owner deselected (`core/willexecutors.py:770`): `DownloadKeepsChoice` says that
  nothing else is selected, and that nothing is deselected.
* The default lists are keyed `mainnet` while the chain is called `bitcoin`:
  mainnet has no default.
* A command that saves the list while a dialog is open is overwritten by the
  dialog's next save; the commands that ping and download hold up Electrum's
  asyncio loop; `bal_settings_*` always fail with "wallet not loaded".
* In ADVANCED the creation of a widget (a wizard, a page, a start of Electrum)
  replaces a stored absolute date by the default duration (`widgets.py:273`), and
  so does a change of editor or user type; `BasicKeepsDates` is therefore about
  BASIC.
* A rebuild for changed heirs that comes later than the Check Alive period after
  the will was built forces an invalidation: the date is then resolved against
  the fresh delivery.
* BAL QR and BBQr can mix two transfers with the same total; a garbled compressed
  BAL QR raises `zlib.error` in `_review_and_sign`, which catches other errors
  only, and the codes are kept.
* The slideshow may be set to ten codes a second, against a camera that looks five
  times and wants two equal readings: such a transfer may never be imported.
  `ScanEnds` is for slideshows of up to two codes a second (`ReadsPerCode`).
* `set_status` and `needs_server_check` (above) mean that a mark may be out of date
  for good; no property of `WillDelivery` asks for more than true marks.
* The legacy pusher compares ZMQ sequence numbers as little-endian byte strings
  (`bal-pusher/source/src/main.rs:404`) and drops blocks by it.

## 8. Not modelled, and why

* `/stats`, `/.pub_key.pem`, rate limiting, configuration: read-only or library.
* The signed report of bal-pusher to welist: it changes no local state.
* Cryptography, transaction formats, HTTP, SQL: represented by what they do.
* The legacy bal-pusher: `server/src/bin/bal-pusher.rs` took its place.
* Colours, sorting, texts and layout of widgets, the website, the backup script:
  presentation.
* In `WillAmounts`: heirs with different dates, OP_RETURN heirs, executors above
  the maximal fee (filtered before), addresses that cannot be decoded.
* In `WillPlan`: children (a *multiverse* will), amounts and dust, partial
  signatures, fees executors change, edits during an automatic run, the lag of
  the wallet's view, local copies in the history, advanced mode, the command
  line, and persistence; `WillCustody` and `WillDates` have the last four.
* In `WillCustody`: trees of more than two generations; database writes are
  atomic and immediate; the push that follows the signature.
* In `ExecutorList`: more than one request at a time, closing the list window with
  a request of its own under way, entries of the configuration that are not
  dictionaries, the bounds of the fee (part of "usable"), editing a URL in place
  (its delegate never calls `on_edited`).  The commands are atomic.
* In `WillDates`: time zones and Windows' limit of 2038, digits without a unit and
  an empty Raw editor, a missing stored date, the *Prepare* menu and the automatic
  rebuild (which do not align the date: `WillPlan` has that), the build dialog's
  calendar.
* In `QrTransfer`: codes that are misread (they have checksums), the limits of a
  session (`_MAX_SESSION_PARTS`), the audio transfer.
* The push of the close flow, which reads a `waiting_dialog` that may not exist
  (`window.py:1652`).

## 9. Plan

Done: 1 `AddressBook` and `WillExecutorServer`; 2 `TxLifecycle` and `Pusher`;
3 `WillDelivery`; 4 `WillPlan`; 5 `WillAmounts`; 6 `Fountain` and `QrTransfer`;
7 `WillCustody`; 8 `ExecutorList`; 9 `WillDates`; the proofs of all of them.

Abstract specifications worth stating: a register of the marks for
`WillDelivery`; "a transfer is what was shown" for `QrTransfer`; "at most one plan
comes first" for `WillPlan`.

## 10. How to run

    tlc -config AddressBook.cfg MCAddressBook
    tlapm BalServerProofs.tla

A configuration `X.cfg` belongs to the `MC` module whose name it starts with
(`WillPlanEarlier.cfg` to `MCWillPlan`, `WillCustodyMerge.cfg` to
`MCWillCustody`).  The largest run, `address_book`, has two million states and takes
about two minutes with two workers.
