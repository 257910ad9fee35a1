---------------------------- MODULE WillCustody ----------------------------
(***************************************************************************)
(* Who holds which signature of a will: the will items in memory, what     *)
(* the wallet's database and local history keep of them, the copy that an  *)
(* import window works on, and the file (or QR codes, or audio) that       *)
(* carries a will between the wallet and its cosigner.                     *)
(*                                                                         *)
(* A will transaction is known by its txid, which signing does not change. *)
(* Of its item are kept the signatures of the transaction, the COMPLETE    *)
(* flag, whether it is VALID, INVALIDATED or on the chain (CONFIRMED,      *)
(* MEMPOOL), and whether its Father has been recorded.  A transaction that *)
(* has every signature is serialised as a network transaction, and parsed  *)
(* back it is no longer one that signatures can be added to.               *)
(***************************************************************************)
EXTENDS Naturals, FiniteSets

CONSTANTS
    Txs,          \* the transactions of the will
    Root,         \* the transaction that spends a coin of the wallet; the
                  \* others spend an output of it
    Keys,         \* the signatures every transaction needs
    Mine,         \* those this wallet can make
    MaxExports,   \* bound: payloads written in a behaviour
    MaxSteps      \* bound: steps of a behaviour

ASSUME CustodyAssumption ==
    /\ Root \in Txs
    /\ Mine \subseteq Keys
    /\ Keys # {}
    /\ MaxExports \in Nat /\ MaxSteps \in Nat

VARIABLES
    live,         \* BalWindow.willitems
    stored,       \* BalWindow.will, a part of the wallet's database
    hist,         \* the labelled copies in the wallet's local history
    dlg,          \* the import window: its kind, its items, the pages left
    file,         \* the last payload written, and how many there were
    chain,        \* the transactions of the will on the chain
    elsewhere,    \* something else has spent the coin of Root
    fell,         \* the last validity pass over the live will raised
    thrown,       \* transactions whose signature was made and not kept
    loose,        \* items flagged COMPLETE that no save has followed
    steps         \* steps taken

vars == <<live, stored, hist, dlg, file, chain, elsewhere, fell, thrown, loose, steps>>

\* WillItem, reduced
Items == [sigs : SUBSET Keys, complete : BOOLEAN,
          st : {"valid", "invalidated", "chain"}, linked : BOOLEAN]

NoItem == [sigs |-> {}, complete |-> FALSE, st |-> "none", linked |-> FALSE]

\* WillItem({"tx": s}): the flags of a bare transaction are the default ones
Bare(sigs) == [sigs |-> sigs, complete |-> FALSE, st |-> "valid", linked |-> FALSE]

Wills == [Txs -> Items \cup {NoItem}]

Empty == [w \in Txs |-> NoItem]

In(will) == {w \in Txs : will[w] # NoItem}

Valid(will) == {w \in Txs : will[w].st = "valid"}

Signed(item) == item.sigs = Keys

NoCopy == [there |-> FALSE, sigs |-> {}]

Closed == [kind |-> "none", items |-> Empty, todo |-> {}]

----------------------------------------------------------------------------
(* core/will.py *)

\* A faulty version: every child gets a Father, in the will or not
LinkedAll(will) ==
    [w \in Txs |-> IF w # Root /\ Root \in In(will)
                   THEN [will[w] EXCEPT !.linked = TRUE] ELSE will[w]]

\* add_willtree: the Father of an item is recorded once and never forgotten
Linked(will) ==
    [w \in Txs |-> IF w \in In(will) /\ w # Root /\ Root \in In(will)
                   THEN [will[w] EXCEPT !.linked = TRUE] ELSE will[w]]

\* check_invalidated reads the item of a Father that was deleted, or
\* set_invalidate asks a list for its items(): either raises
FallsOver(will) ==
    \/ Root \notin In(will) /\ \E w \in In(will) : will[w].linked
    \/ Root \in In(will) /\ elsewhere /\ In(will) # {Root}

\* check_invalidated, for a pass that does not raise; a child is on the chain
\* only after its Father
SeenOnChain(will) ==
    [w \in Txs |->
        IF w \notin In(will) THEN NoItem
        ELSE IF w \in chain THEN [will[w] EXCEPT !.st = "chain"]
        ELSE IF w = Root /\ elsewhere THEN [will[w] EXCEPT !.st = "invalidated"]
        ELSE will[w]]

\* Util.get_available_utxos: an output of Root is there when Root is on the
\* chain or in the local history
Funded(w) == w = Root \/ Root \in chain \/ hist[Root].there

\* search_rai, what follows from the inputs: a child of an INVALIDATED item,
\* and an item whose coin is neither there, nor in the will, nor spent
Orphaned(will) ==
    [w \in Txs |->
        IF /\ will[w].st = "valid" /\ ~Funded(w)
           /\ IF Root \in In(will) THEN will[Root].st = "invalidated"
                                   ELSE ~hist[w].there
        THEN [will[w] EXCEPT !.st = "invalidated"] ELSE will[w]]

\* What a pass that raises has done: the Root it stumbled over is INVALIDATED
Stumbled(will) ==
    IF Root \in In(will) /\ elsewhere
    THEN [will EXCEPT ![Root].st = "invalidated"] ELSE will

\* add_willtree, check_invalidated, search_rai, check_signatures
Validity(will) ==
    IF FallsOver(Linked(will)) THEN Stumbled(Linked(will))
                               ELSE Orphaned(SeenOnChain(Linked(will)))

\* what wallet.db.get_transaction has of w
Copy(w) == IF w \in chain THEN Keys ELSE hist[w].sigs

\* _absorb_history_signatures
Absorbed(will) ==
    [w \in Txs |->
        IF w \in In(will) /\ ~Signed(will[w])
        THEN [will[w] EXCEPT !.sigs = @ \cup Copy(w),
                             !.complete = @ \/ will[w].sigs \cup Copy(w) = Keys]
        ELSE will[w]]

\* _add_transaction_to_history: combined with the copy that is there
AddedToHistory(w, sigs) == [there |-> TRUE, sigs |-> Copy(w) \cup sigs]

\* save_valid_transactions_to_history: valid items without all signatures are
\* added (the wallet refuses a conflict with what is on the chain), and once
\* an item is valid every other copy of that label is removed
Synced(will) ==
    [w \in Txs |->
        IF w \in Valid(will) /\ ~Signed(will[w]) /\ ~(w = Root /\ elsewhere)
        THEN AddedToHistory(w, will[w].sigs)
        ELSE IF Valid(will) # {} THEN NoCopy ELSE hist[w]]

----------------------------------------------------------------------------
(* Signing *)

\* sign_transactions: the valid ones among those asked for
Targets(will, asked) == Valid(will) \cap asked

Unsigned(will, asked) == {w \in Targets(will, asked) : ~will[w].complete}

\* _prepare_and_sign_tx signs a copy of the transaction; the item itself only
\* gets the flag
Flag(will, done) ==
    [w \in Txs |-> IF w \in done /\ will[w].sigs \cup Mine = Keys
                   THEN [will[w] EXCEPT !.complete = TRUE] ELSE will[w]]

\* A faulty version: the copies are forgotten
PutBackFlags(will, done) == Flag(will, done)

\* the callers put the copies back into the items
PutBack(will, done) ==
    [w \in Txs |-> IF w \in done THEN [Flag(will, done)[w] EXCEPT !.sigs = @ \cup Mine]
                                 ELSE will[w]]

\* those whose copy completed the transaction and went nowhere
Wasted(will, done) ==
    {w \in done : ~Signed(will[w]) /\ will[w].sigs \cup Mine = Keys}

\* flags that were set in memory only
Flagged == {w \in Txs : live'[w].complete /\ ~live[w].complete}

\* sign_transactions raised at one of the transactions and returned None
Partway(will, asked, done) == done \subseteq Unsigned(will, asked) /\ done # Unsigned(will, asked)

\* ask_password_and_sign_transactions on the live will: the Sign button, and
\* "sign" in the list
Sign(asked) ==
    /\ asked = Txs \/ \A w \in asked : ~live[w].complete
    /\ Targets(live, asked) # {}
    /\ \/ /\ live' = PutBack(live, Unsigned(live, asked))
          /\ stored' = [w \in Txs |-> IF w \in Targets(live, asked) THEN live'[w] ELSE stored[w]]
          /\ hist' = Synced(live')
          /\ loose' = loose \ Targets(live, asked)
          /\ UNCHANGED thrown
       \/ \E done \in SUBSET Txs :
             /\ Partway(live, asked, done)
             /\ live' = Flag(live, done)
             /\ thrown' = thrown \cup Wasted(live, done)
             /\ loose' = loose \cup Flagged
             /\ UNCHANGED <<stored, hist>>
    /\ UNCHANGED <<dlg, file, chain, elsewhere, fell>>

\* task_phase2 and on_success_phase2 of the wizard, and _auto_sign_save_push:
\* every valid transaction, and a save whether the signing raised or not
SignAndSave ==
    /\ \/ /\ live' = PutBack(live, Unsigned(live, Txs))
          /\ UNCHANGED thrown
       \/ \E done \in SUBSET Txs :
             /\ Partway(live, Txs, done)
             /\ live' = Flag(live, done)
             /\ thrown' = thrown \cup Wasted(live, done)
    /\ stored' = live'
    /\ hist' = Synced(live')
    /\ loose' = {}
    /\ UNCHANGED <<dlg, file, chain, elsewhere, fell>>

\* BalController.sign_transactions: each copy is put back at once, and an
\* exception leaves without saving
SignFromCommandLine(asked) ==
    /\ Targets(live, asked) # {}
    /\ \/ /\ live' = PutBack(live, Unsigned(live, asked))
          /\ stored' = live'
          /\ hist' = Synced(live')
          /\ loose' = {}
       \/ \E done \in SUBSET Txs :
             /\ Partway(live, asked, done)
             /\ live' = PutBack(live, done)
             /\ loose' = loose \cup Flagged
             /\ UNCHANGED <<stored, hist>>
    /\ UNCHANGED <<dlg, file, chain, elsewhere, fell, thrown>>

----------------------------------------------------------------------------
(* Checking, keeping and deleting *)

\* A faulty version: the exception is swallowed and the check passes
CheckWillQuietly ==
    /\ In(live) # {}
    /\ live' = Validity(Absorbed(live))
    /\ fell' = FALSE
    /\ loose' = loose \cup Flagged
    /\ UNCHANGED <<stored, hist, dlg, file, chain, elsewhere, thrown>>

\* Will.check_will on the live will; nothing is saved before the dialog ends
CheckWill ==
    /\ In(live) # {}
    /\ live' = Validity(Absorbed(live))
    /\ fell' = FallsOver(Linked(live))
    /\ loose' = loose \cup Flagged
    /\ UNCHANGED <<stored, hist, dlg, file, chain, elsewhere, thrown>>

\* PreviewList.delete; a copy in the history stays where it is
Delete(w) ==
    /\ w \in In(live)
    /\ live[w].st # "valid" \/ ~live[w].complete
    /\ live' = [live EXCEPT ![w] = NoItem]
    /\ stored' = [stored EXCEPT ![w] = NoItem]
    /\ loose' = loose \ {w}
    /\ UNCHANGED <<hist, dlg, file, chain, elsewhere, fell, thrown>>

\* on_close saves, and the next start loads what was saved
CloseWallet ==
    /\ stored' = live
    /\ dlg' = Closed
    /\ loose' = {}
    /\ UNCHANGED <<live, hist, file, chain, elsewhere, fell, thrown>>

\* Electrum dies; load_willitems starts from the database
Restart ==
    /\ live # stored
    /\ live' = stored
    /\ dlg' = Closed
    /\ loose' = {}
    /\ UNCHANGED <<stored, hist, file, chain, elsewhere, fell, thrown>>

----------------------------------------------------------------------------
(* Carrying *)

\* export_filter_options
Filters == {"All", "Valid", "Valid NC"}

Filtered(will, filter) ==
    [w \in Txs |->
        IF \/ filter = "All"
           \/ filter = "Valid" /\ will[w].st = "valid"
           \/ filter = "Valid NC" /\ will[w].st = "valid" /\ ~will[w].complete
        THEN will[w] ELSE NoItem]

\* A whole will, or the transactions only
Write(kind, items) ==
    /\ file.count < MaxExports
    /\ In(items) # {}
    /\ file' = [kind |-> kind, count |-> file.count + 1,
                items |-> IF kind = "will" THEN items
                          ELSE [w \in Txs |-> IF w \in In(items) THEN Bare(items[w].sigs)
                                                                ELSE NoItem]]

\* WillExportDialog on the live will, by whichever transport
Export(kind, filter) ==
    /\ Write(kind, Filtered(live, filter))
    /\ UNCHANGED <<live, stored, hist, dlg, chain, elsewhere, fell, thrown, loose>>

\* PreviewList.copy_tx_hexes, one transaction
CopyTx(w) ==
    /\ w \in In(live)
    /\ Write("txs", [v \in Txs |-> IF v = w THEN live[w] ELSE NoItem])
    /\ UNCHANGED <<live, stored, hist, dlg, chain, elsewhere, fell, thrown, loose>>

\* The cosigner's wallet signs what it was given
Cosign ==
    /\ In(file.items) # {}
    /\ file' = [file EXCEPT !.items = [w \in Txs |->
            IF w \in In(file.items)
            THEN [file.items[w] EXCEPT !.sigs = @ \cup (Keys \ Mine),
                              !.complete = @ \/ (file.kind = "will" /\ Signed([sigs |-> file.items[w].sigs \cup (Keys \ Mine)]))]
            ELSE NoItem]]
    /\ UNCHANGED <<live, stored, hist, dlg, chain, elsewhere, fell, thrown, loose>>

\* Electrum itself adds the cosigner's signature to the copy in the history
CosignHistory(w) ==
    /\ hist[w].there
    /\ hist' = [hist EXCEPT ![w].sigs = @ \cup (Keys \ Mine)]
    /\ UNCHANGED <<live, stored, dlg, file, chain, elsewhere, fell, thrown, loose>>

\* A faulty version: the transaction is always substituted
MergedReplacing(item, new) ==
    IF item = NoItem THEN new
    ELSE [item EXCEPT !.sigs = new.sigs, !.complete = @ \/ new.complete]

\* merge_will, one item: an item that is there keeps its flags and gets those
\* of the imported one; signatures are combined unless the transaction in the
\* will is COMPLETE, or is no longer one that can be combined
Merged(item, new) ==
    IF item = NoItem THEN new
    ELSE LET sigs == IF item.complete THEN item.sigs
                     ELSE IF Signed(item) THEN new.sigs
                     ELSE item.sigs \cup new.sigs
         IN  [item EXCEPT !.sigs = sigs,
                          !.complete = @ \/ new.complete \/ sigs = Keys,
                          !.st = IF new.st = "chain" THEN "chain" ELSE @]

\* A faulty version: nothing is saved
MergeWillUnsaved(items) ==
    LET both == [w \in Txs |-> IF w \in In(items) THEN Merged(live[w], items[w]) ELSE live[w]]
    IN  /\ live' = Validity(both)
        /\ fell' = FallsOver(Linked(both))
        /\ UNCHANGED <<stored, loose>>

\* A faulty version: only what the will does not have is taken
MergeWillNew(items) ==
    LET both == [w \in Txs |-> IF w \in In(items) \ In(live) THEN items[w] ELSE live[w]]
    IN  /\ live' = Validity(both)
        /\ stored' = live'
        /\ fell' = FallsOver(Linked(both))
        /\ loose' = {}

MergeWill(items) ==
    LET both == [w \in Txs |-> IF w \in In(items) THEN Merged(live[w], items[w]) ELSE live[w]]
    IN  /\ live' = Validity(both)
        /\ stored' = live'
        /\ fell' = FallsOver(Linked(both))
        /\ loose' = {}

\* merge_will_from_file
MergeFile ==
    /\ file.kind = "will"
    /\ MergeWill(file.items)
    /\ UNCHANGED <<hist, dlg, file, chain, elsewhere, thrown>>

\* merge_from_txn, merge_single_transaction
MergeTx ==
    /\ file.kind = "txs"
    /\ Cardinality(In(file.items)) = 1
    /\ MergeWill(file.items)
    /\ UNCHANGED <<hist, dlg, file, chain, elsewhere, thrown>>

----------------------------------------------------------------------------
(* The import windows, which work on a copy *)

\* _complete_import_will, import_will_into_details: a whole will is shown in
\* the detail window
OpenDetails ==
    /\ dlg.kind = "none"
    /\ file.kind = "will"
    /\ dlg' = [kind |-> "detail", items |-> Linked(file.items), todo |-> {}]
    /\ UNCHANGED <<live, stored, hist, file, chain, elsewhere, fell, thrown, loose>>

\* _complete_import_txs: the transactions valid in this wallet are reviewed
OpenReview ==
    /\ dlg.kind = "none"
    /\ file.kind = "txs"
    /\ Valid(Validity(file.items)) # {}
    /\ dlg' = [kind |-> "review", items |-> Validity(file.items),
               todo |-> Valid(Validity(file.items))]
    /\ UNCHANGED <<live, stored, hist, file, chain, elsewhere, fell, thrown, loose>>

CloseDialog ==
    /\ dlg.kind # "none"
    /\ dlg' = Closed
    /\ UNCHANGED <<live, stored, hist, file, chain, elsewhere, fell, thrown, loose>>

\* A faulty version: what was signed is stored as if it were the live will
SignImportedStored ==
    /\ dlg.kind = "detail"
    /\ Targets(dlg.items, Txs) # {}
    /\ dlg' = [dlg EXCEPT !.items = PutBack(@, Unsigned(dlg.items, Txs))]
    /\ stored' = [w \in Txs |-> IF w \in Targets(dlg.items, Txs) THEN dlg'.items[w] ELSE stored[w]]
    /\ UNCHANGED <<live, hist, file, chain, elsewhere, fell, thrown, loose>>

\* The Sign button of the detail window
SignImported ==
    /\ dlg.kind = "detail"
    /\ Targets(dlg.items, Txs) # {}
    /\ \/ /\ dlg' = [dlg EXCEPT !.items = PutBack(@, Unsigned(dlg.items, Txs))]
          /\ UNCHANGED thrown
       \/ \E done \in SUBSET Txs :
             /\ Partway(dlg.items, Txs, done)
             /\ dlg' = [dlg EXCEPT !.items = Flag(@, done)]
             /\ thrown' = thrown \cup Wasted(dlg.items, done)
    /\ UNCHANGED <<live, stored, hist, file, chain, elsewhere, fell, loose>>

\* WillDetailDialog.export_will
ExportImported ==
    /\ dlg.kind = "detail"
    /\ Write("will", dlg.items)
    /\ UNCHANGED <<live, stored, hist, dlg, chain, elsewhere, fell, thrown, loose>>

\* WillDetailDialog.merge_will; the window then shows the live will
MergeImported ==
    /\ dlg.kind = "detail"
    /\ MergeWill(dlg.items)
    /\ dlg' = Closed
    /\ UNCHANGED <<hist, file, chain, elsewhere, thrown>>

\* WillTxReviewSignDialog._sign_current: the signed copy is not put back
ReviewSign(w) ==
    /\ w \in dlg.todo
    /\ dlg' = [dlg EXCEPT !.items = Flag(@, {w} \cap Unsigned(dlg.items, Txs)), !.todo = @ \ {w}]
    /\ thrown' = thrown \cup Wasted(dlg.items, {w} \cap Unsigned(dlg.items, Txs))
    /\ UNCHANGED <<live, stored, hist, file, chain, elsewhere, fell, loose>>

\* Skip
ReviewSkip(w) ==
    /\ w \in dlg.todo
    /\ dlg' = [dlg EXCEPT !.todo = @ \ {w}]
    /\ UNCHANGED <<live, stored, hist, file, chain, elsewhere, fell, thrown, loose>>

\* "Save signed file", on the summary page
SaveSigned ==
    /\ dlg.kind = "review" /\ dlg.todo = {}
    /\ Write("will", dlg.items)
    /\ UNCHANGED <<live, stored, hist, dlg, chain, elsewhere, fell, thrown, loose>>

\* "Show signed QR": the items flagged COMPLETE
ShowSignedQr(kind) ==
    /\ dlg.kind = "review" /\ dlg.todo = {}
    /\ Write(kind, [w \in Txs |-> IF dlg.items[w].st = "valid" /\ dlg.items[w].complete
                                  THEN dlg.items[w] ELSE NoItem])
    /\ UNCHANGED <<live, stored, hist, dlg, chain, elsewhere, fell, thrown, loose>>

----------------------------------------------------------------------------
(* The chain *)

\* whoever holds every signature may send the transaction
Broadcast(w) ==
    /\ w \notin chain /\ ~elsewhere
    /\ w = Root \/ Root \in chain
    /\ \E item \in {live[w], stored[w], file.items[w], dlg.items[w]} : Signed(item)
    /\ chain' = chain \cup {w}
    /\ UNCHANGED <<live, stored, hist, dlg, file, elsewhere, fell, thrown, loose>>

\* the coin of Root is spent by something else: the wallet drops its local
\* copies of Root and of what spends it
SpendElsewhere ==
    /\ chain = {} /\ ~elsewhere
    /\ elsewhere' = TRUE
    /\ hist' = [w \in Txs |-> NoCopy]
    /\ UNCHANGED <<live, stored, dlg, file, chain, fell, thrown, loose>>

----------------------------------------------------------------------------
New == [w \in Txs |-> [Bare({}) EXCEPT !.linked = w # Root]]

\* A will that was just built and saved, or a wallet without one; and what
\* another wallet of the same keys may have written
Init ==
    /\ live \in {New, Empty}
    /\ stored = live
    /\ hist = [w \in Txs |-> NoCopy]
    /\ dlg = Closed
    /\ file \in {[kind |-> "none", count |-> 0, items |-> Empty],
                 [kind |-> "will", count |-> 0, items |-> New],
                 [kind |-> "txs", count |-> 0, items |-> [w \in Txs |-> Bare({})]]}
    /\ chain = {}
    /\ elsewhere = FALSE
    /\ fell = FALSE
    /\ thrown = {}
    /\ loose = {}
    /\ steps = 0

Step ==
    \/ \E asked \in SUBSET Txs : Sign(asked) \/ SignFromCommandLine(asked)
    \/ SignAndSave
    \/ CheckWill \/ CloseWallet \/ Restart
    \/ \E kind \in {"will", "txs"} : ShowSignedQr(kind) \/ \E f \in Filters : Export(kind, f)
    \/ Cosign \/ MergeFile \/ MergeTx
    \/ OpenDetails \/ OpenReview \/ CloseDialog
    \/ SignImported \/ ExportImported \/ MergeImported \/ SaveSigned
    \/ \E w \in Txs :
          \/ Delete(w) \/ CopyTx(w) \/ CosignHistory(w)
          \/ ReviewSign(w) \/ ReviewSkip(w) \/ Broadcast(w)
    \/ SpendElsewhere

Next == steps < MaxSteps /\ steps' = steps + 1 /\ Step

Spec == Init /\ [][Next]_vars

----------------------------------------------------------------------------
TypeOK ==
    /\ live \in Wills /\ stored \in Wills
    /\ hist \in [Txs -> [there : BOOLEAN, sigs : SUBSET Keys]]
    /\ dlg \in [kind : {"none", "detail", "review"}, items : Wills, todo : SUBSET Txs]
    /\ file \in [kind : {"none", "will", "txs"}, count : 0..MaxExports, items : Wills]
    /\ chain \subseteq Txs /\ thrown \subseteq Txs /\ loose \subseteq Txs
    /\ elsewhere \in BOOLEAN /\ fell \in BOOLEAN
    /\ steps \in 0..MaxSteps

\* COMPLETE, which decides what is sent to the executors, means that every
\* signature is there, in whatever place the item is, but for a transaction
\* whose signature was made by a batch that raised later on or by the review
\* wizard, and dropped
CompleteHasCause ==
    \A w \in Txs : \A item \in {live[w], stored[w], dlg.items[w], file.items[w]} :
        item.complete /\ ~Signed(item) => w \in thrown

\* A COMPLETE item that an interrupted signing or a check left in memory is
\* all that a crash can lose: whatever else is COMPLETE is stored so
CompleteIsStored ==
    \A w \in Txs : live[w].complete => stored[w].complete \/ w \in loose

\* The flag that decides what is sent is true, and kept
CompleteIsTrue == TypeOK /\ CompleteHasCause /\ CompleteIsStored

\* A validity pass that came to its end leaves no VALID child of an
\* INVALIDATED Father: the child that is left behind, and may be signed and
\* sent on, is the mark of a pass that raised, which the user is told
ValidChildOfInvalid ==
    \A w \in Txs \ {Root} :
        live[Root].st = "invalidated" /\ live[w].st = "valid" => fell

\* "Deleting them would silently drop a committed inheritance": short of a
\* restart, a COMPLETE and VALID item keeps its place, flag and signatures,
\* whatever is signed, merged, imported, checked or deleted around it
CommittedIsKept ==
    [][~Restart => \A w \in Txs :
          live[w].complete /\ live[w].st = "valid" =>
              /\ w \in In(live') /\ live'[w].complete
              /\ live[w].sigs \subseteq live'[w].sigs]_vars

\* "The live will is never touched": what is done in an import window before
\* its Merge is pressed leaves the will, its store and the history as they were
ImportLeavesLiveAlone ==
    [][dlg' # dlg /\ dlg' # Closed => UNCHANGED <<live, stored, hist>>]_vars

\* A merge brings every signature of the payload that the will did not have,
\* unless the item was flagged COMPLETE already
MergeBringsSignatures ==
    [][MergeFile \/ MergeTx => \A w \in In(file.items) :
          ~live[w].complete => file.items[w].sigs \subseteq live'[w].sigs]_vars

\* What is imported reaches the will by a merge only, and by a merge it does
ImportedByMerge == ImportLeavesLiveAlone /\ MergeBringsSignatures

\* merge_will: "an already-signed live transaction is left untouched"
MergeKeepsSigned ==
    [][MergeFile \/ MergeTx \/ MergeImported => \A w \in In(live) :
          Signed(live[w]) => Signed(live'[w])]_vars
=============================================================================
