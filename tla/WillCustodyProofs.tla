------------------------- MODULE WillCustodyProofs -------------------------
(***************************************************************************)
(* What a COMPLETE flag is worth, for every set of transactions and of     *)
(* keys and all bounds: it is true unless a signature was dropped, it is   *)
(* stored, and what it stands for is not lost; what an import window does  *)
(* reaches the will by a merge only; and a child of an INVALIDATED Father  *)
(* stays VALID only behind a validity pass that raised.                    *)
(*                                                                         *)
(* Most steps build a new will from an old one, item by item.  The lemmas  *)
(* say of each such operator what it keeps: the type of the will, the      *)
(* signatures and flags, the set of the items.                             *)
(***************************************************************************)
EXTENDS WillCustody, TLAPS

(* Every COMPLETE item of a will has its signatures, or lost them.         *)
Caused(will, lost) == \A w \in Txs : will[w].complete /\ ~Signed(will[w]) => w \in lost

(* Two wills of the same items with the same signatures and flags.         *)
SameSigned(old, new) ==
  /\ In(new) = In(old)
  /\ \A w \in Txs : new[w].sigs = old[w].sigs /\ new[w].complete = old[w].complete

(* An item is INVALIDATED only once its coin was spent by something else.  *)
InvalidHasCause(will) == will[Root].st = "invalidated" => elsewhere

LeftBehind(will, w) == will[Root].st = "invalidated" /\ will[w].st = "valid"

InvalidForACoin ==
  /\ InvalidHasCause(live) /\ InvalidHasCause(stored)
  /\ InvalidHasCause(dlg.items) /\ InvalidHasCause(file.items)
  /\ elsewhere => chain = {}

(* The will and its store have the same items and never disagree in this:  *)
(* a Root known to be INVALIDATED in the store is so in memory.            *)
NoneLeftBehind ==
  /\ In(live) = In(stored)
  /\ stored[Root].st = "invalidated" => live[Root].st = "invalidated"
  /\ \A w \in Txs \ {Root} : LeftBehind(live, w) \/ LeftBehind(stored, w) => fell

CustodyInv ==
  /\ TypeOK
  /\ CompleteHasCause
  /\ CompleteIsStored
  /\ InvalidForACoin
  /\ NoneLeftBehind

-----------------------------------------------------------------------------
(* The operators of core/will.py *)

LEMMA NoItemFields ==
  /\ NoItem.st = "none" /\ NoItem.complete = FALSE /\ NoItem.sigs = {}
  /\ NoItem \notin Items
BY DEF NoItem, Items

LEMMA EmptyTyped == Empty \in Wills /\ In(Empty) = {}
BY DEF Empty, Wills, In

(* add_willtree only records Fathers.                                      *)
LEMMA LinkedKeeps ==
  ASSUME NEW will \in Wills
  PROVE  /\ Linked(will) \in Wills
         /\ SameSigned(will, Linked(will))
         /\ \A w \in Txs : Linked(will)[w].st = will[w].st
BY NoItemFields DEF Linked, Wills, SameSigned, In, Items

LEMMA SeenOnChainKeeps ==
  ASSUME NEW will \in Wills
  PROVE  SeenOnChain(will) \in Wills /\ SameSigned(will, SeenOnChain(will))
BY NoItemFields DEF SeenOnChain, Wills, SameSigned, In, Items

LEMMA OrphanedKeeps ==
  ASSUME NEW will \in Wills
  PROVE  Orphaned(will) \in Wills /\ SameSigned(will, Orphaned(will))
<1>1. ASSUME NEW w \in Txs, will[w].st = "valid" PROVE will[w] \in Items
  BY <1>1, NoItemFields DEF Wills
<1>2. QED
  BY <1>1, NoItemFields DEF Orphaned, Wills, SameSigned, In, Items

LEMMA StumbledKeeps ==
  ASSUME NEW will \in Wills
  PROVE  Stumbled(will) \in Wills /\ SameSigned(will, Stumbled(will))
BY CustodyAssumption, NoItemFields DEF Stumbled, Wills, SameSigned, In, Items

LEMMA SameSignedTransitive ==
  ASSUME NEW a, NEW b, NEW c, SameSigned(a, b), SameSigned(b, c)
  PROVE  SameSigned(a, c)
BY DEF SameSigned

(* A validity pass keeps the items, their signatures and their flags,      *)
(* whether it raises or not.                                               *)
LEMMA ValidityKeeps ==
  ASSUME NEW will \in Wills
  PROVE  Validity(will) \in Wills /\ SameSigned(will, Validity(will))
<1> DEFINE l == Linked(will)
<1>1. l \in Wills /\ SameSigned(will, l)
  BY LinkedKeeps
<1>2. Stumbled(l) \in Wills /\ SameSigned(l, Stumbled(l))
  BY <1>1, StumbledKeeps
<1>3. SeenOnChain(l) \in Wills /\ SameSigned(l, SeenOnChain(l))
  BY <1>1, SeenOnChainKeeps
<1>4. Orphaned(SeenOnChain(l)) \in Wills /\ SameSigned(SeenOnChain(l), Orphaned(SeenOnChain(l)))
  BY <1>3, OrphanedKeeps
<1>5. SameSigned(will, Stumbled(l)) /\ SameSigned(will, Orphaned(SeenOnChain(l)))
  BY <1>1, <1>2, <1>3, <1>4, SameSignedTransitive
<1>6. QED
  BY <1>2, <1>4, <1>5 DEF Validity

(* A validity pass marks the Root INVALIDATED for a spent coin only.       *)
LEMMA ValidityHasCause ==
  ASSUME NEW will \in Wills, InvalidHasCause(will)
  PROVE  InvalidHasCause(Validity(will))
<1>1. Linked(will) \in Wills /\ InvalidHasCause(Linked(will))
  BY LinkedKeeps, CustodyAssumption DEF InvalidHasCause
<1>2. InvalidHasCause(Stumbled(Linked(will)))
  BY <1>1, CustodyAssumption DEF InvalidHasCause, Stumbled
<1>3. InvalidHasCause(SeenOnChain(Linked(will)))
  BY <1>1, CustodyAssumption, NoItemFields DEF InvalidHasCause, SeenOnChain, Wills, Items, In
<1>4. InvalidHasCause(Orphaned(SeenOnChain(Linked(will))))
  BY <1>3, CustodyAssumption, SeenOnChainKeeps, <1>1 DEF InvalidHasCause, Orphaned, Funded
<1>5. QED
  BY <1>2, <1>4 DEF Validity

(* A pass that comes to its end with the coin of Root spent elsewhere had  *)
(* no other item in the will to leave behind.                              *)
LEMMA PassLeavesNoneBehind ==
  ASSUME NEW will \in Wills, InvalidHasCause(will),
         NEW old \in Wills, In(old) = In(will), ~FallsOver(Linked(old)),
         NEW w \in Txs \ {Root}
  PROVE  ~LeftBehind(Validity(will), w)
<1> SUFFICES ASSUME LeftBehind(Validity(will), w) PROVE FALSE
  OBVIOUS
<1>1. Root \in In(Validity(will)) /\ w \in In(Validity(will)) /\ elsewhere
  BY ValidityHasCause, CustodyAssumption, NoItemFields DEF LeftBehind, InvalidHasCause, In
<1>2. Root \in In(Linked(old)) /\ w \in In(Linked(old))
  BY <1>1, ValidityKeeps, LinkedKeeps DEF SameSigned
<1>3. QED
  BY <1>1, <1>2 DEF FallsOver

(* Once INVALIDATED, and with nothing of the will on the chain, a Root      *)
(* stays so.                                                               *)
LEMMA ValidityStaysInvalid ==
  ASSUME NEW will \in Wills, will[Root].st = "invalidated", chain = {}
  PROVE  Validity(will)[Root].st = "invalidated"
<1> DEFINE l == Linked(will)
<1>1. l \in Wills /\ l[Root].st = "invalidated" /\ Root \in In(l)
  BY LinkedKeeps, CustodyAssumption, NoItemFields DEF In
<1> HIDE DEF l
<1>2. l[Root] \in Items
  BY <1>1, CustodyAssumption, NoItemFields DEF Wills, In
<1>3. Stumbled(l)[Root].st = "invalidated"
  BY <1>1, <1>2, CustodyAssumption DEF Stumbled, Wills, Items
<1>4. SeenOnChain(l)[Root].st = "invalidated"
  BY <1>1, <1>2, CustodyAssumption DEF SeenOnChain, Items
<1>5. Orphaned(SeenOnChain(l))[Root].st = "invalidated"
  BY <1>4, CustodyAssumption DEF Orphaned
<1>6. QED
  BY <1>3, <1>5 DEF Validity, l

LEMMA SameSignedIsCaused ==
  ASSUME NEW old, NEW new, SameSigned(old, new), NEW lost, Caused(old, lost)
  PROVE  Caused(new, lost)
BY DEF SameSigned, Caused, Signed

(* The histories and chain only add signatures, and the flag follows.      *)
LEMMA AbsorbedKeeps ==
  ASSUME TypeOK, NEW will \in Wills
  PROVE  /\ Absorbed(will) \in Wills
         /\ In(Absorbed(will)) = In(will)
         /\ \A w \in Txs : /\ Absorbed(will)[w].st = will[w].st
                           /\ will[w].sigs \subseteq Absorbed(will)[w].sigs
                           /\ will[w].complete => Absorbed(will)[w].complete
         /\ \A lost : Caused(will, lost) => Caused(Absorbed(will), lost)
<1>1. ASSUME NEW w \in Txs PROVE Copy(w) \subseteq Keys
  BY DEF Copy, TypeOK
<1>2. QED
  BY <1>1, NoItemFields DEF Absorbed, Wills, In, Items, Caused, Signed

-----------------------------------------------------------------------------
(* Signing *)

LEMMA UnsignedAreItems ==
  ASSUME NEW will \in Wills, NEW asked
  PROVE  /\ Unsigned(will, asked) \subseteq Targets(will, asked)
         /\ Unsigned(will, asked) \subseteq In(will)
         /\ Targets(will, asked) \subseteq In(will)
         /\ \A w \in Unsigned(will, asked) : ~will[w].complete
BY NoItemFields DEF Unsigned, Targets, Valid, In

(* The flag of an item whose copy was completed: true, or a wasted copy.   *)
LEMMA FlagKeeps ==
  ASSUME NEW will \in Wills, NEW done \in SUBSET In(will)
  PROVE  /\ Flag(will, done) \in Wills
         /\ In(Flag(will, done)) = In(will)
         /\ \A w \in Txs : /\ Flag(will, done)[w].st = will[w].st
                           /\ Flag(will, done)[w].sigs = will[w].sigs
                           /\ will[w].complete => Flag(will, done)[w].complete
                           /\ w \notin done => Flag(will, done)[w] = will[w]
         /\ \A lost : Caused(will, lost) => Caused(Flag(will, done), lost \cup Wasted(will, done))
BY NoItemFields DEF Flag, Wills, In, Items, Caused, Signed, Wasted

(* A copy that is put back brings the signatures its flag stands for.      *)
LEMMA PutBackKeeps ==
  ASSUME NEW will \in Wills, NEW done \in SUBSET In(will)
  PROVE  /\ PutBack(will, done) \in Wills
         /\ In(PutBack(will, done)) = In(will)
         /\ \A w \in Txs : /\ PutBack(will, done)[w].st = will[w].st
                           /\ will[w].sigs \subseteq PutBack(will, done)[w].sigs
                           /\ will[w].complete => PutBack(will, done)[w].complete
                           /\ w \notin done => PutBack(will, done)[w] = will[w]
         /\ \A lost : Caused(will, lost) => Caused(PutBack(will, done), lost)
<1>1. ASSUME NEW w \in Txs
      PROVE  PutBack(will, done)[w] = IF w \in done THEN [Flag(will, done)[w] EXCEPT !.sigs = @ \cup Mine] ELSE will[w]
  BY DEF PutBack
<1>2. ASSUME NEW w \in done
      PROVE  /\ w \in Txs /\ will[w] \in Items
             /\ Flag(will, done)[w] \in Items
             /\ Flag(will, done)[w].sigs = will[w].sigs
             /\ Flag(will, done)[w].st = will[w].st
             /\ Flag(will, done)[w].complete = (will[w].complete \/ will[w].sigs \cup Mine = Keys)
  BY NoItemFields DEF Flag, Wills, In, Items
<1>3. ASSUME NEW w \in done
      PROVE  /\ PutBack(will, done)[w] \in Items
             /\ PutBack(will, done)[w].sigs = will[w].sigs \cup Mine
             /\ PutBack(will, done)[w].st = will[w].st
             /\ PutBack(will, done)[w].complete = (will[w].complete \/ will[w].sigs \cup Mine = Keys)
  <2> DEFINE flagged == Flag(will, done)[w]
  <2>1. w \in Txs /\ PutBack(will, done)[w] = [flagged EXCEPT !.sigs = @ \cup Mine]
    BY <1>1, <1>2
  <2>2. /\ flagged \in Items /\ flagged.sigs = will[w].sigs /\ flagged.st = will[w].st
        /\ flagged.complete = (will[w].complete \/ will[w].sigs \cup Mine = Keys)
    BY <1>2
  <2> HIDE DEF flagged
  <2>3. [flagged EXCEPT !.sigs = @ \cup Mine] \in Items
        /\ [flagged EXCEPT !.sigs = @ \cup Mine].sigs = flagged.sigs \cup Mine
        /\ [flagged EXCEPT !.sigs = @ \cup Mine].st = flagged.st
        /\ [flagged EXCEPT !.sigs = @ \cup Mine].complete = flagged.complete
    BY <2>2, CustodyAssumption DEF Items
  <2>4. QED
    BY <2>1, <2>2, <2>3
<1>4. PutBack(will, done) \in Wills
  BY <1>1, <1>3 DEF PutBack, Wills
<1>5. In(PutBack(will, done)) = In(will)
  BY <1>1, <1>2, <1>3, NoItemFields DEF In
<1>6. ASSUME NEW w \in Txs
      PROVE  /\ PutBack(will, done)[w].st = will[w].st
             /\ will[w].sigs \subseteq PutBack(will, done)[w].sigs
             /\ will[w].complete => PutBack(will, done)[w].complete
             /\ w \notin done => PutBack(will, done)[w] = will[w]
  BY <1>1, <1>3
<1>7. ASSUME NEW lost, Caused(will, lost) PROVE Caused(PutBack(will, done), lost)
  <2> SUFFICES ASSUME NEW w \in Txs, PutBack(will, done)[w].complete,
                      ~Signed(PutBack(will, done)[w])
               PROVE  w \in lost
    BY DEF Caused
  <2>1. CASE w \notin done
    BY <1>1, <1>7, <2>1 DEF Caused
  <2>2. CASE w \in done
    BY <1>2, <1>3, <1>7, <2>2, CustodyAssumption DEF Caused, Signed, Items
  <2>3. QED
    BY <2>1, <2>2
<1>8. QED
  BY <1>4, <1>5, <1>6, <1>7

-----------------------------------------------------------------------------
(* Merging and carrying *)

(* One item of merge_will: it keeps the flag, loses no signature behind a  *)
(* flag, and gets the signatures of the payload when it has none.          *)
LEMMA MergedKeeps ==
  ASSUME NEW item \in Items \cup {NoItem}, NEW new \in Items
  PROVE  /\ Merged(item, new) \in Items
         /\ item.complete => Merged(item, new).complete /\ Merged(item, new).sigs = item.sigs
         /\ ~item.complete => new.sigs \subseteq Merged(item, new).sigs
         /\ Merged(item, new).complete /\ ~Signed(Merged(item, new))
              => \/ item.complete /\ ~Signed(item)
                 \/ new.complete /\ ~Signed(new)
         /\ Merged(item, new).st = "invalidated"
              => item.st = "invalidated" \/ new.st = "invalidated"
         /\ item.st = "valid" => Merged(item, new).st \in {"valid", "chain"}
BY NoItemFields DEF Merged, Items, Signed

Both(old, new) == [w \in Txs |-> IF w \in In(new) THEN Merged(old[w], new[w]) ELSE old[w]]

LEMMA BothKeeps ==
  ASSUME NEW old \in Wills, NEW new \in Wills
  PROVE  /\ Both(old, new) \in Wills
         /\ In(Both(old, new)) = In(old) \cup In(new)
         /\ \A w \in Txs : old[w].complete => /\ Both(old, new)[w].complete
                                              /\ Both(old, new)[w].sigs = old[w].sigs
         /\ \A w \in In(new) : ~old[w].complete => new[w].sigs \subseteq Both(old, new)[w].sigs
         /\ InvalidHasCause(old) /\ InvalidHasCause(new) => InvalidHasCause(Both(old, new))
         /\ \A lost : Caused(old, lost) /\ Caused(new, lost) => Caused(Both(old, new), lost)
<1>1. ASSUME NEW w \in In(new)
      PROVE  w \in Txs /\ new[w] \in Items /\ old[w] \in Items \cup {NoItem}
             /\ Both(old, new)[w] = Merged(old[w], new[w])
  BY DEF In, Wills, Both
<1>2. ASSUME NEW w \in Txs, w \notin In(new)
      PROVE  Both(old, new)[w] = old[w] /\ old[w] \in Items \cup {NoItem}
  BY <1>2 DEF Wills, Both
<1>3. Both(old, new) \in Wills
  BY <1>1, <1>2, MergedKeeps DEF Wills, Both
<1>4. In(Both(old, new)) = In(old) \cup In(new)
  BY <1>1, <1>2, MergedKeeps, NoItemFields DEF In
<1>5. \A w \in Txs : old[w].complete => /\ Both(old, new)[w].complete
                                        /\ Both(old, new)[w].sigs = old[w].sigs
  BY <1>1, <1>2, MergedKeeps
<1>6. \A w \in In(new) : ~old[w].complete => new[w].sigs \subseteq Both(old, new)[w].sigs
  BY <1>1, MergedKeeps
<1>7. InvalidHasCause(old) /\ InvalidHasCause(new) => InvalidHasCause(Both(old, new))
  BY <1>1, <1>2, MergedKeeps, CustodyAssumption DEF InvalidHasCause
<1>8. ASSUME NEW lost, Caused(old, lost), Caused(new, lost) PROVE Caused(Both(old, new), lost)
  BY <1>1, <1>2, <1>8, MergedKeeps DEF Caused
<1>9. QED
  BY <1>3, <1>4, <1>5, <1>6, <1>7, <1>8

(* A part of a will, whole items or bare transactions, as a payload.       *)
LEMMA FilteredKeeps ==
  ASSUME NEW will \in Wills, NEW filter
  PROVE  /\ Filtered(will, filter) \in Wills
         /\ \A w \in Txs : Filtered(will, filter)[w] \in {will[w], NoItem}
BY NoItemFields DEF Filtered, Wills

(* What a payload says of an item is no more than the item said.           *)
LEMMA WriteKeeps ==
  ASSUME TypeOK, NEW kind \in {"will", "txs"}, NEW items \in Wills, Write(kind, items)
  PROVE  /\ file' \in [kind : {"none", "will", "txs"}, count : 0..MaxExports, items : Wills]
         /\ InvalidHasCause(items) => InvalidHasCause(file'.items)
         /\ \A lost : Caused(items, lost) => Caused(file'.items, lost)
<1>1. ASSUME NEW w \in In(items) PROVE Bare(items[w].sigs) \in Items
  BY NoItemFields DEF Bare, Items, In, Wills
<1>2. [w \in Txs |-> IF w \in In(items) THEN Bare(items[w].sigs) ELSE NoItem] \in Wills
  BY <1>1 DEF Wills
<1>3. file.count + 1 \in 0 .. MaxExports
  BY CustodyAssumption DEF TypeOK, Write
<1>4. file' \in [kind : {"none", "will", "txs"}, count : 0..MaxExports, items : Wills]
  BY <1>2, <1>3 DEF Write
<1>5. CASE kind = "will"
  BY <1>4, <1>5 DEF Write
<1>6. CASE kind # "will"
  <2>1. ASSUME NEW w \in Txs PROVE ~file'.items[w].complete /\ file'.items[w].st # "invalidated"
    BY <1>6, NoItemFields DEF Write, Bare
  <2>2. QED
    BY <1>4, <2>1, CustodyAssumption DEF InvalidHasCause, Caused
<1>7. QED
  BY <1>5, <1>6

-----------------------------------------------------------------------------
(* The steps *)

LEMMA CauseByPlace ==
  CompleteHasCause <=> /\ Caused(live, thrown) /\ Caused(stored, thrown)
                       /\ Caused(dlg.items, thrown) /\ Caused(file.items, thrown)
BY DEF CompleteHasCause, Caused

LEMMA CausedByMore ==
  ASSUME NEW will, NEW lost, NEW more, Caused(will, lost), lost \subseteq more
  PROVE  Caused(will, more)
BY DEF Caused

LEMMA InitCustody == Init => CustodyInv
<1> SUFFICES ASSUME Init PROVE CustodyInv
  OBVIOUS
<1>1. New \in Wills /\ \A w \in Txs : New[w].st = "valid" /\ ~New[w].complete
  BY DEF New, Wills, Bare, Items
<1>2. /\ [w \in Txs |-> Bare({})] \in Wills
      /\ \A w \in Txs : Bare({}).st = "valid" /\ ~Bare({}).complete
  BY DEF Wills, Bare, Items
<1>3. Empty \in Wills /\ \A w \in Txs : Empty[w].st = "none" /\ ~Empty[w].complete
  BY EmptyTyped, NoItemFields DEF Empty
<1>4. /\ live \in {New, Empty} /\ stored = live
      /\ dlg.items = Empty
      /\ file.items \in {Empty, New, [w \in Txs |-> Bare({})]}
  BY DEF Init, Closed
<1>5. /\ live \in Wills /\ file.items \in Wills
      /\ \A w \in Txs : /\ ~live[w].complete /\ ~dlg.items[w].complete /\ ~file.items[w].complete
                        /\ live[w].st # "invalidated" /\ dlg.items[w].st # "invalidated"
                        /\ file.items[w].st # "invalidated"
  BY <1>1, <1>2, <1>3, <1>4
<1>6. TypeOK
  <2>1. 0 \in 0 .. MaxExports /\ 0 \in 0 .. MaxSteps
    BY CustodyAssumption
  <2>2. file \in [kind : {"none", "will", "txs"}, count : 0..MaxExports, items : Wills]
    BY <1>1, <1>2, <1>3, <2>1 DEF Init
  <2>3. dlg \in [kind : {"none", "detail", "review"}, items : Wills, todo : SUBSET Txs]
    BY <1>3 DEF Init, Closed
  <2>4. hist \in [Txs -> [there : BOOLEAN, sigs : SUBSET Keys]]
    BY DEF Init, NoCopy
  <2>5. QED
    BY <1>4, <1>5, <2>1, <2>2, <2>3, <2>4 DEF Init, TypeOK
<1>7. CompleteHasCause
  BY <1>4, <1>5, CauseByPlace DEF Caused
<1>8. CompleteIsStored
  BY <1>5 DEF CompleteIsStored
<1>9. InvalidForACoin /\ NoneLeftBehind
  BY <1>4, <1>5, CustodyAssumption DEF InvalidForACoin, NoneLeftBehind, InvalidHasCause, LeftBehind, Init
<1>10. QED
  BY <1>6, <1>7, <1>8, <1>9 DEF CustodyInv

(* A save keeps in the history only copies with signatures of the will.    *)
LEMMA SyncedTyped ==
  ASSUME TypeOK, NEW will \in Wills
  PROVE  Synced(will) \in [Txs -> [there : BOOLEAN, sigs : SUBSET Keys]]
<1>1. ASSUME NEW w \in Txs
      PROVE  Copy(w) \subseteq Keys /\ will[w].sigs \subseteq Keys /\ NoItem.sigs \subseteq Keys
             /\ hist[w] \in [there : BOOLEAN, sigs : SUBSET Keys]
  BY NoItemFields DEF TypeOK, Copy, Wills, Items
<1>2. ASSUME NEW w \in Txs
      PROVE  AddedToHistory(w, will[w].sigs) \in [there : BOOLEAN, sigs : SUBSET Keys]
             /\ NoCopy \in [there : BOOLEAN, sigs : SUBSET Keys]
  BY <1>1 DEF AddedToHistory, NoCopy
<1>3. QED
  BY <1>1, <1>2 DEF Synced

(* A signing that raised left flags in memory and lost the copies.         *)
LEMMA FlagStep ==
  ASSUME CustodyInv, NEW done \in SUBSET In(live),
         live' = Flag(live, done), thrown' = thrown \cup Wasted(live, done),
         loose' = loose \cup Flagged,
         UNCHANGED <<stored, hist, dlg, file, chain, elsewhere, fell>>, steps' \in 0 .. MaxSteps
  PROVE  CustodyInv'
<1>1. TypeOK /\ InvalidForACoin /\ NoneLeftBehind /\ CompleteIsStored
      /\ Caused(live, thrown) /\ Caused(stored, thrown)
      /\ Caused(dlg.items, thrown) /\ Caused(file.items, thrown)
  BY CauseByPlace DEF CustodyInv
<1>2. live \in Wills /\ stored \in Wills /\ thrown \subseteq Txs /\ loose \subseteq Txs
      /\ done \subseteq Txs
  BY <1>1 DEF TypeOK, In
<1>3. /\ live' \in Wills /\ In(live') = In(live)
      /\ \A w \in Txs : live'[w].st = live[w].st
      /\ Caused(live', thrown')
  BY <1>1, <1>2, FlagKeeps
<1>4. Wasted(live, done) \subseteq Txs /\ Flagged \subseteq Txs
  BY <1>2 DEF Wasted, Flagged
<1>5. TypeOK'
  BY <1>1, <1>2, <1>3, <1>4 DEF TypeOK
<1>6. CompleteHasCause'
  BY <1>1, <1>3 DEF CompleteHasCause, Caused
<1>7. CompleteIsStored'
  BY <1>1 DEF CompleteIsStored, Flagged
<1>8. InvalidForACoin' /\ NoneLeftBehind'
  BY <1>1, <1>3, CustodyAssumption DEF InvalidForACoin, InvalidHasCause, NoneLeftBehind, LeftBehind
<1>9. QED
  BY <1>5, <1>6, <1>7, <1>8 DEF CustodyInv

(* The Sign button, and "sign" in the list.                                *)
LEMMA SignStep ==
  ASSUME CustodyInv, NEW asked \in SUBSET Txs, Sign(asked), steps' \in 0 .. MaxSteps
  PROVE  CustodyInv'
<1> DEFINE targets == Targets(live, asked)
           unsigned == Unsigned(live, asked)
<1>1. TypeOK /\ InvalidForACoin /\ NoneLeftBehind /\ CompleteIsStored
      /\ Caused(live, thrown) /\ Caused(stored, thrown)
      /\ Caused(dlg.items, thrown) /\ Caused(file.items, thrown)
  BY CauseByPlace DEF CustodyInv
<1>2. live \in Wills /\ stored \in Wills /\ thrown \subseteq Txs /\ loose \subseteq Txs
  BY <1>1 DEF TypeOK
<1>3. unsigned \subseteq targets /\ targets \subseteq In(live) /\ In(live) \subseteq Txs
  BY <1>2, UnsignedAreItems DEF In
<1>4. CASE /\ live' = PutBack(live, unsigned)
           /\ stored' = [w \in Txs |-> IF w \in targets THEN live'[w] ELSE stored[w]]
           /\ hist' = Synced(live')
           /\ loose' = loose \ targets
           /\ UNCHANGED thrown
  <2>1. /\ live' \in Wills /\ In(live') = In(live)
        /\ \A w \in Txs : /\ live'[w].st = live[w].st
                          /\ w \notin unsigned => live'[w] = live[w]
        /\ Caused(live', thrown)
    BY <1>1, <1>2, <1>3, <1>4, PutBackKeeps
  <2>2. \A w \in Txs : stored'[w] = IF w \in targets THEN live'[w] ELSE stored[w]
    BY <1>4
  <2>3. stored' \in Wills /\ Caused(stored', thrown)
    BY <1>1, <1>2, <1>4, <2>1 DEF Wills, Caused
  <2>4. hist' \in [Txs -> [there : BOOLEAN, sigs : SUBSET Keys]]
    BY <1>4, <2>1, SyncedTyped, <1>1
  <2>5. TypeOK'
    BY <1>1, <1>2, <1>4, <2>1, <2>3, <2>4 DEF TypeOK, Sign
  <2>6. CompleteHasCause'
    BY <1>1, <1>4, <2>1, <2>3 DEF CompleteHasCause, Caused, Sign
  <2>7. CompleteIsStored'
    BY <1>1, <1>3, <1>4, <2>1, <2>2 DEF CompleteIsStored
  <2>8. In(stored') = In(live')
    BY <1>1, <1>3, <2>1, <2>2 DEF NoneLeftBehind, In
  <2>9. \A w \in targets : live[w].st = "valid"
    BY DEF Targets, Valid
  <2>10. InvalidForACoin'
    BY <1>1, <2>1, <2>2, CustodyAssumption DEF InvalidForACoin, InvalidHasCause, Sign
  <2>11. NoneLeftBehind'
    BY <1>1, <2>1, <2>2, <2>8, <2>9, CustodyAssumption DEF NoneLeftBehind, LeftBehind, Sign
  <2>12. QED
    BY <2>5, <2>6, <2>7, <2>10, <2>11 DEF CustodyInv
<1>5. CASE \E done \in SUBSET Txs :
             /\ Partway(live, asked, done)
             /\ live' = Flag(live, done)
             /\ thrown' = thrown \cup Wasted(live, done)
             /\ loose' = loose \cup Flagged
             /\ UNCHANGED <<stored, hist>>
  <2>1. PICK done \in SUBSET Txs :
             /\ Partway(live, asked, done)
             /\ live' = Flag(live, done)
             /\ thrown' = thrown \cup Wasted(live, done)
             /\ loose' = loose \cup Flagged
             /\ UNCHANGED <<stored, hist>>
    BY <1>5
  <2>2. done \subseteq In(live)
    BY <1>3, <2>1 DEF Partway
  <2>3. QED
    BY <1>1, <2>1, <2>2, FlagStep DEF Sign
<1>6. QED
  BY <1>4, <1>5 DEF Sign

(* The wizard and the automatic round, which save after any signing.       *)
LEMMA SignAndSaveStep ==
  ASSUME CustodyInv, SignAndSave, steps' \in 0 .. MaxSteps
  PROVE  CustodyInv'
<1>1. TypeOK /\ InvalidForACoin /\ NoneLeftBehind
      /\ Caused(live, thrown) /\ Caused(dlg.items, thrown) /\ Caused(file.items, thrown)
  BY CauseByPlace DEF CustodyInv
<1>2. live \in Wills /\ thrown \subseteq Txs
  BY <1>1 DEF TypeOK
<1>3. /\ live' \in Wills
      /\ \A w \in Txs : live'[w].st = live[w].st
      /\ Caused(live', thrown') /\ thrown \subseteq thrown' /\ thrown' \subseteq Txs
  <2>1. Unsigned(live, Txs) \subseteq In(live)
    BY <1>2, UnsignedAreItems
  <2>2. CASE live' = PutBack(live, Unsigned(live, Txs)) /\ UNCHANGED thrown
    BY <1>1, <1>2, <2>1, <2>2, PutBackKeeps
  <2>3. CASE \E done \in SUBSET Txs :
                 /\ Partway(live, Txs, done)
                 /\ live' = Flag(live, done)
                 /\ thrown' = thrown \cup Wasted(live, done)
    <3>1. PICK done \in SUBSET Txs : /\ Partway(live, Txs, done)
                                     /\ live' = Flag(live, done)
                                     /\ thrown' = thrown \cup Wasted(live, done)
      BY <2>3
    <3>2. done \subseteq In(live)
      BY <2>1, <3>1 DEF Partway
    <3>3. Wasted(live, done) \subseteq Txs
      BY DEF Wasted
    <3>4. QED
      BY <1>1, <1>2, <3>1, <3>2, <3>3, FlagKeeps
  <2>4. QED
    BY <2>2, <2>3 DEF SignAndSave
<1>4. hist' \in [Txs -> [there : BOOLEAN, sigs : SUBSET Keys]]
  BY <1>1, <1>3, SyncedTyped DEF SignAndSave
<1>5. TypeOK'
  BY <1>1, <1>3, <1>4 DEF TypeOK, SignAndSave
<1>6. CompleteHasCause' /\ CompleteIsStored'
  BY <1>1, <1>3 DEF CompleteHasCause, CompleteIsStored, Caused, SignAndSave
<1>7. InvalidForACoin' /\ NoneLeftBehind'
  BY <1>1, <1>3, CustodyAssumption
     DEF InvalidForACoin, InvalidHasCause, NoneLeftBehind, LeftBehind, SignAndSave
<1>8. QED
  BY <1>5, <1>6, <1>7 DEF CustodyInv

(* BalController.sign_transactions: kept in memory even when it raises.    *)
LEMMA SignFromCommandLineStep ==
  ASSUME CustodyInv, NEW asked \in SUBSET Txs, SignFromCommandLine(asked), steps' \in 0 .. MaxSteps
  PROVE  CustodyInv'
<1>1. TypeOK /\ InvalidForACoin /\ NoneLeftBehind /\ CompleteIsStored
      /\ Caused(live, thrown) /\ Caused(stored, thrown)
      /\ Caused(dlg.items, thrown) /\ Caused(file.items, thrown)
  BY CauseByPlace DEF CustodyInv
<1>2. live \in Wills
  BY <1>1 DEF TypeOK
<1>3. Unsigned(live, asked) \subseteq In(live)
  BY <1>2, UnsignedAreItems
<1>4. PICK done \in SUBSET Txs :
        /\ live' = PutBack(live, done) /\ done \subseteq In(live)
        /\ \/ stored' = live' /\ hist' = Synced(live') /\ loose' = {}
           \/ loose' = loose \cup Flagged /\ UNCHANGED <<stored, hist>>
  BY <1>3 DEF SignFromCommandLine, Partway, In
<1>5. /\ live' \in Wills /\ In(live') = In(live)
      /\ \A w \in Txs : live'[w].st = live[w].st
      /\ Caused(live', thrown)
  BY <1>1, <1>2, <1>4, PutBackKeeps
<1>6. TypeOK'
  <2>1. hist' \in [Txs -> [there : BOOLEAN, sigs : SUBSET Keys]]
    BY <1>1, <1>4, <1>5, SyncedTyped DEF TypeOK
  <2>2. loose' \subseteq Txs
    BY <1>1, <1>4 DEF TypeOK, Flagged
  <2>3. QED
    BY <1>1, <1>4, <1>5, <2>1, <2>2 DEF TypeOK, SignFromCommandLine
<1>7. CompleteHasCause'
  BY <1>1, <1>4, <1>5 DEF CompleteHasCause, Caused, SignFromCommandLine
<1>8. CompleteIsStored'
  BY <1>1, <1>4 DEF CompleteIsStored, Flagged
<1>9. InvalidForACoin' /\ NoneLeftBehind'
  BY <1>1, <1>4, <1>5, CustodyAssumption
     DEF InvalidForACoin, InvalidHasCause, NoneLeftBehind, LeftBehind, SignFromCommandLine
<1>10. QED
  BY <1>6, <1>7, <1>8, <1>9 DEF CustodyInv

(* Will.check_will, whether the pass raises or not.                        *)
LEMMA CheckWillStep ==
  ASSUME CustodyInv, CheckWill, steps' \in 0 .. MaxSteps
  PROVE  CustodyInv'
<1> DEFINE a == Absorbed(live)
<1>1. TypeOK /\ InvalidForACoin /\ NoneLeftBehind /\ CompleteIsStored
      /\ Caused(live, thrown) /\ Caused(stored, thrown)
      /\ Caused(dlg.items, thrown) /\ Caused(file.items, thrown)
  BY CauseByPlace DEF CustodyInv
<1>2. live \in Wills /\ stored \in Wills
  BY <1>1 DEF TypeOK
<1>3. /\ a \in Wills /\ In(a) = In(live) /\ Caused(a, thrown)
      /\ \A w \in Txs : a[w].st = live[w].st
  BY <1>1, <1>2, AbsorbedKeeps
<1>4. InvalidHasCause(a)
  BY <1>1, <1>3, CustodyAssumption DEF InvalidForACoin, InvalidHasCause
<1> HIDE DEF a
<1>5. /\ live' = Validity(a) /\ fell' = FallsOver(Linked(live)) /\ loose' = loose \cup Flagged
      /\ UNCHANGED <<stored, hist, dlg, file, chain, elsewhere, thrown>>
  BY DEF CheckWill, a
<1>6. /\ live' \in Wills /\ In(live') = In(live) /\ Caused(live', thrown)
      /\ InvalidHasCause(live)' /\ fell' \in BOOLEAN
  <2>1. Validity(a) \in Wills /\ SameSigned(a, Validity(a)) /\ InvalidHasCause(Validity(a))
    BY <1>3, <1>4, ValidityKeeps, ValidityHasCause
  <2>2. Caused(Validity(a), thrown) /\ In(Validity(a)) = In(live)
    BY <1>3, <2>1, SameSignedIsCaused DEF SameSigned
  <2>3. fell' \in BOOLEAN
    BY <1>5 DEF FallsOver
  <2>4. QED
    BY <1>5, <2>1, <2>2, <2>3 DEF InvalidHasCause
<1>7. TypeOK'
  BY <1>1, <1>5, <1>6 DEF TypeOK, Flagged
<1>8. CompleteHasCause'
  BY <1>1, <1>5, <1>6 DEF CompleteHasCause, Caused
<1>9. CompleteIsStored'
  BY <1>1, <1>5 DEF CompleteIsStored, Flagged
<1>10. InvalidForACoin'
  BY <1>1, <1>5, <1>6 DEF InvalidForACoin, InvalidHasCause
<1>11. NoneLeftBehind'
  <2>1. ASSUME NEW w \in Txs \ {Root}, LeftBehind(live', w) PROVE fell'
    BY <1>2, <1>3, <1>4, <1>5, <2>1, PassLeavesNoneBehind
  <2>2. ASSUME NEW w \in Txs \ {Root}, LeftBehind(stored, w) PROVE fell'
    <3>1. Root \in In(stored) /\ w \in In(stored) /\ elsewhere
      BY <1>1, <2>2, CustodyAssumption, NoItemFields DEF LeftBehind, InvalidForACoin, InvalidHasCause, In
    <3>2. Root \in In(Linked(live)) /\ w \in In(Linked(live))
      BY <1>1, <1>2, <3>1, LinkedKeeps DEF NoneLeftBehind, SameSigned
    <3>3. QED
      BY <1>5, <3>1, <3>2 DEF FallsOver
  <2>3. stored[Root].st = "invalidated" => live'[Root].st = "invalidated"
    BY <1>1, <1>3, <1>5, ValidityStaysInvalid, CustodyAssumption
       DEF NoneLeftBehind, InvalidForACoin, InvalidHasCause
  <2>4. QED
    BY <1>1, <1>5, <1>6, <2>1, <2>2, <2>3 DEF NoneLeftBehind, LeftBehind
<1>12. QED
  BY <1>7, <1>8, <1>9, <1>10, <1>11 DEF CustodyInv

(* A merge saves what it made of both wills.                               *)
LEMMA MergeStep ==
  ASSUME CustodyInv, NEW items \in Wills, MergeWill(items),
         Caused(items, thrown), InvalidHasCause(items),
         dlg' \in {dlg, Closed},
         UNCHANGED <<hist, file, chain, elsewhere, thrown>>, steps' \in 0 .. MaxSteps
  PROVE  CustodyInv'
<1> DEFINE both == Both(live, items)
<1>1. TypeOK /\ InvalidForACoin
      /\ Caused(live, thrown) /\ Caused(dlg.items, thrown) /\ Caused(file.items, thrown)
  BY CauseByPlace DEF CustodyInv
<1>2. live \in Wills /\ dlg \in [kind : {"none", "detail", "review"}, items : Wills, todo : SUBSET Txs]
  BY <1>1 DEF TypeOK
<1>3. both \in Wills /\ Caused(both, thrown) /\ InvalidHasCause(both)
  BY <1>1, <1>2, BothKeeps DEF InvalidForACoin
<1>4. /\ live' = Validity(both) /\ stored' = live' /\ loose' = {}
      /\ fell' = FallsOver(Linked(both))
  BY DEF MergeWill, Both
<1> HIDE DEF both
<1>5. /\ Validity(both) \in Wills /\ Caused(Validity(both), thrown)
      /\ InvalidHasCause(Validity(both))
  BY <1>3, ValidityKeeps, ValidityHasCause, SameSignedIsCaused
<1>6. /\ Closed \in [kind : {"none", "detail", "review"}, items : Wills, todo : SUBSET Txs]
      /\ \A w \in Txs : ~Closed.items[w].complete /\ Closed.items[w].st = "none"
  BY EmptyTyped, NoItemFields DEF Closed, Empty
<1>7. fell' \in BOOLEAN
  BY <1>4 DEF FallsOver
<1>8. TypeOK'
  BY <1>1, <1>2, <1>4, <1>5, <1>6, <1>7 DEF TypeOK
<1>9. CompleteHasCause'
  <2>1. Caused(dlg'.items, thrown)
    BY <1>1, <1>6 DEF Caused
  <2>2. QED
    BY <1>1, <1>4, <1>5, <2>1 DEF CompleteHasCause, Caused
<1>10. CompleteIsStored'
  BY <1>4 DEF CompleteIsStored
<1>11. InvalidForACoin'
  BY <1>1, <1>4, <1>5, <1>6, CustodyAssumption DEF InvalidForACoin, InvalidHasCause
<1>12. NoneLeftBehind'
  <2>1. ASSUME NEW w \in Txs \ {Root}, LeftBehind(live', w) PROVE fell'
    BY <1>3, <1>4, <2>1, PassLeavesNoneBehind
  <2>2. QED
    BY <1>4, <2>1 DEF NoneLeftBehind, LeftBehind
<1>13. QED
  BY <1>8, <1>9, <1>10, <1>11, <1>12 DEF CustodyInv

(* Deleting, saving at the end and starting again.                         *)
LEMMA KeepingStep ==
  ASSUME CustodyInv, (\E w \in Txs : Delete(w)) \/ CloseWallet \/ Restart, steps' \in 0 .. MaxSteps
  PROVE  CustodyInv'
<1>1. TypeOK /\ InvalidForACoin /\ NoneLeftBehind /\ CompleteIsStored
      /\ Caused(live, thrown) /\ Caused(stored, thrown)
      /\ Caused(dlg.items, thrown) /\ Caused(file.items, thrown)
  BY CauseByPlace DEF CustodyInv
<1>2. live \in Wills /\ stored \in Wills
  BY <1>1 DEF TypeOK
<1>3. /\ Closed \in [kind : {"none", "detail", "review"}, items : Wills, todo : SUBSET Txs]
      /\ \A w \in Txs : ~Closed.items[w].complete /\ Closed.items[w].st = "none"
  BY EmptyTyped, NoItemFields DEF Closed, Empty
<1>4. CASE \E w \in Txs : Delete(w)
  <2>1. PICK w \in Txs : Delete(w)
    BY <1>4
  <2>2. /\ live' = [live EXCEPT ![w] = NoItem] /\ stored' = [stored EXCEPT ![w] = NoItem]
        /\ loose' = loose \ {w}
        /\ UNCHANGED <<hist, dlg, file, chain, elsewhere, fell, thrown>>
    BY <2>1 DEF Delete
  <2>3. live' \in Wills /\ stored' \in Wills
    BY <1>2, <2>2 DEF Wills
  <2>4. /\ \A v \in Txs : live'[v] = IF v = w THEN NoItem ELSE live[v]
        /\ \A v \in Txs : stored'[v] = IF v = w THEN NoItem ELSE stored[v]
    BY <1>2, <2>2 DEF Wills
  <2>5. TypeOK'
    BY <1>1, <2>2, <2>3 DEF TypeOK
  <2>6. CompleteHasCause' /\ CompleteIsStored'
    BY <1>1, <2>2, <2>4, NoItemFields DEF CompleteHasCause, CompleteIsStored, Caused
  <2>7. InvalidForACoin' /\ NoneLeftBehind'
    BY <1>1, <2>2, <2>4, NoItemFields, CustodyAssumption
       DEF InvalidForACoin, InvalidHasCause, NoneLeftBehind, LeftBehind, In
  <2>8. QED
    BY <2>5, <2>6, <2>7 DEF CustodyInv
<1>5. CASE CloseWallet \/ Restart
  <2>1. /\ live' \in {live, stored} /\ stored' = live' /\ loose' = {} /\ dlg' = Closed
        /\ UNCHANGED <<hist, file, chain, elsewhere, fell, thrown>>
    BY <1>5 DEF CloseWallet, Restart
  <2>2. TypeOK'
    BY <1>1, <1>2, <1>3, <2>1 DEF TypeOK
  <2>3. CompleteHasCause' /\ CompleteIsStored'
    BY <1>1, <1>3, <2>1 DEF CompleteHasCause, CompleteIsStored, Caused
  <2>4. InvalidForACoin' /\ NoneLeftBehind'
    BY <1>1, <1>3, <2>1, CustodyAssumption DEF InvalidForACoin, InvalidHasCause, NoneLeftBehind, LeftBehind
  <2>5. QED
    BY <2>2, <2>3, <2>4 DEF CustodyInv
<1>6. QED
  BY <1>4, <1>5

(* Writing a payload: from the live will or from an import window.         *)
LEMMA WriteStep ==
  ASSUME CustodyInv, NEW kind \in {"will", "txs"}, NEW items \in Wills, Write(kind, items),
         Caused(items, thrown), InvalidHasCause(items),
         UNCHANGED <<live, stored, hist, dlg, chain, elsewhere, fell, thrown, loose>>,
         steps' \in 0 .. MaxSteps
  PROVE  CustodyInv'
<1>1. TypeOK /\ InvalidForACoin /\ NoneLeftBehind /\ CompleteIsStored
      /\ Caused(live, thrown) /\ Caused(stored, thrown) /\ Caused(dlg.items, thrown)
  BY CauseByPlace DEF CustodyInv
<1>2. /\ file' \in [kind : {"none", "will", "txs"}, count : 0..MaxExports, items : Wills]
      /\ InvalidHasCause(file'.items) /\ Caused(file'.items, thrown)
  BY <1>1, WriteKeeps
<1>3. TypeOK'
  BY <1>1, <1>2 DEF TypeOK
<1>4. CompleteHasCause' /\ CompleteIsStored'
  BY <1>1, <1>2 DEF CompleteHasCause, CompleteIsStored, Caused
<1>5. InvalidForACoin' /\ NoneLeftBehind'
  BY <1>1, <1>2 DEF InvalidForACoin, InvalidHasCause, NoneLeftBehind, LeftBehind
<1>6. QED
  BY <1>3, <1>4, <1>5 DEF CustodyInv

(* A part of a will is a payload without more flags than the will.         *)
LEMMA PartKeeps ==
  ASSUME NEW will \in Wills, NEW part, part = [w \in Txs |-> part[w]],
         \A w \in Txs : part[w] \in {will[w], NoItem}
  PROVE  /\ part \in Wills
         /\ InvalidHasCause(will) => InvalidHasCause(part)
         /\ \A lost : Caused(will, lost) => Caused(part, lost)
<1>1. ASSUME NEW w \in Txs PROVE part[w] \in Items \cup {NoItem}
  BY DEF Wills
<1>2. part \in Wills
  BY <1>1 DEF Wills
<1>3. QED
  BY <1>2, NoItemFields, CustodyAssumption DEF InvalidHasCause, Caused

LEMMA ExportStep ==
  ASSUME CustodyInv, steps' \in 0 .. MaxSteps,
         \/ \E kind \in {"will", "txs"} : ShowSignedQr(kind) \/ \E f \in Filters : Export(kind, f)
         \/ \E w \in Txs : CopyTx(w)
         \/ ExportImported \/ SaveSigned
  PROVE  CustodyInv'
<1>1. /\ live \in Wills /\ dlg.items \in Wills
      /\ Caused(live, thrown) /\ Caused(dlg.items, thrown)
      /\ InvalidHasCause(live) /\ InvalidHasCause(dlg.items)
  BY CauseByPlace DEF CustodyInv, TypeOK, InvalidForACoin
<1>2. CASE \E kind \in {"will", "txs"} : ShowSignedQr(kind)
  <2>1. PICK kind \in {"will", "txs"} : ShowSignedQr(kind)
    BY <1>2
  <2> DEFINE part == [w \in Txs |-> IF dlg.items[w].st = "valid" /\ dlg.items[w].complete
                                    THEN dlg.items[w] ELSE NoItem]
  <2>2. part \in Wills /\ Caused(part, thrown) /\ InvalidHasCause(part)
    <3>1. part = [w \in Txs |-> part[w]] /\ \A w \in Txs : part[w] \in {dlg.items[w], NoItem}
      OBVIOUS
    <3>2. QED
      BY <1>1, <3>1, PartKeeps
  <2>3. QED
    BY <2>1, <2>2, WriteStep DEF ShowSignedQr
<1>3. CASE \E kind \in {"will", "txs"} : \E f \in Filters : Export(kind, f)
  <2>1. PICK kind \in {"will", "txs"}, f \in Filters : Export(kind, f)
    BY <1>3
  <2>2. /\ Filtered(live, f) \in Wills /\ Caused(Filtered(live, f), thrown)
        /\ InvalidHasCause(Filtered(live, f))
    <3>1. /\ Filtered(live, f) = [w \in Txs |-> Filtered(live, f)[w]]
          /\ \A w \in Txs : Filtered(live, f)[w] \in {live[w], NoItem}
      BY DEF Filtered
    <3>2. QED
      BY <1>1, <3>1, PartKeeps
  <2>3. QED
    BY <2>1, <2>2, WriteStep DEF Export
<1>4. CASE \E w \in Txs : CopyTx(w)
  <2>1. PICK w \in Txs : CopyTx(w)
    BY <1>4
  <2> DEFINE part == [v \in Txs |-> IF v = w THEN live[w] ELSE NoItem]
  <2>2. part \in Wills /\ Caused(part, thrown) /\ InvalidHasCause(part)
    <3>1. part = [v \in Txs |-> part[v]] /\ \A v \in Txs : part[v] \in {live[v], NoItem}
      OBVIOUS
    <3>2. QED
      BY <1>1, <3>1, PartKeeps
  <2>3. QED
    BY <2>1, <2>2, WriteStep DEF CopyTx
<1>5. CASE ExportImported \/ SaveSigned
  BY <1>1, <1>5, WriteStep DEF ExportImported, SaveSigned
<1>6. QED
  BY <1>2, <1>3, <1>4, <1>5

(* The cosigner signs the file, or the copy in the history.                *)
LEMMA CosignStep ==
  ASSUME CustodyInv, Cosign \/ \E w \in Txs : CosignHistory(w), steps' \in 0 .. MaxSteps
  PROVE  CustodyInv'
<1>1. TypeOK /\ InvalidForACoin /\ NoneLeftBehind /\ CompleteIsStored
      /\ Caused(live, thrown) /\ Caused(stored, thrown)
      /\ Caused(dlg.items, thrown) /\ Caused(file.items, thrown)
  BY CauseByPlace DEF CustodyInv
<1>2. CASE Cosign
  <2> DEFINE old == file.items
             cosigned(w) == [old[w] EXCEPT !.sigs = @ \cup (Keys \ Mine),
                               !.complete = @ \/ (file.kind = "will" /\ Signed([sigs |-> old[w].sigs \cup (Keys \ Mine)]))]
  <2>1. old \in Wills
    BY <1>1 DEF TypeOK
  <2>2. file' = [file EXCEPT !.items = [w \in Txs |-> IF w \in In(old) THEN cosigned(w) ELSE NoItem]]
    BY <1>2 DEF Cosign
  <2>3. ASSUME NEW w \in In(old)
        PROVE  /\ cosigned(w) \in Items /\ cosigned(w).st = old[w].st
               /\ cosigned(w).sigs = old[w].sigs \cup (Keys \ Mine)
               /\ cosigned(w).complete => old[w].complete \/ old[w].sigs \cup (Keys \ Mine) = Keys
    <3>1. old[w] \in Items
      BY <2>1 DEF In, Wills
    <3>2. old[w].sigs \cup (Keys \ Mine) \subseteq Keys
      BY <3>1 DEF Items
    <3>3. QED
      BY <3>1, <3>2 DEF Items, Signed
  <2> HIDE DEF cosigned
  <2>4. \A w \in Txs : file'.items[w] = IF w \in In(old) THEN cosigned(w) ELSE NoItem
    BY <1>1, <2>2 DEF TypeOK
  <2>5. /\ file' \in [kind : {"none", "will", "txs"}, count : 0..MaxExports, items : Wills]
        /\ file'.items \in Wills
    <3>1. [w \in Txs |-> IF w \in In(old) THEN cosigned(w) ELSE NoItem] \in Wills
      BY <2>3 DEF Wills
    <3>2. QED
      BY <1>1, <2>2, <3>1 DEF TypeOK
  <2>6. Caused(file'.items, thrown)
    <3> SUFFICES ASSUME NEW w \in Txs, file'.items[w].complete, ~Signed(file'.items[w]) PROVE w \in thrown
      BY DEF Caused
    <3>1. w \in In(old) /\ file'.items[w] = cosigned(w)
      BY <2>4, NoItemFields
    <3>2. old[w] \in Items
      BY <2>1, <3>1 DEF In, Wills
    <3>3. old[w].complete /\ old[w].sigs \cup (Keys \ Mine) # Keys
      BY <2>3, <3>1 DEF Signed
    <3>4. ~Signed(old[w])
      BY <3>2, <3>3 DEF Signed, Items
    <3>5. QED
      BY <1>1, <3>3, <3>4 DEF Caused
  <2>7. TypeOK'
    BY <1>1, <1>2, <2>5 DEF TypeOK, Cosign
  <2>8. CompleteHasCause' /\ CompleteIsStored'
    BY <1>1, <1>2, <2>6 DEF CompleteHasCause, CompleteIsStored, Caused, Cosign
  <2>9. InvalidHasCause(file'.items)
    BY <1>1, <2>3, <2>4, NoItemFields, CustodyAssumption DEF InvalidForACoin, InvalidHasCause
  <2>10. InvalidForACoin' /\ NoneLeftBehind'
    BY <1>1, <1>2, <2>9 DEF InvalidForACoin, InvalidHasCause, NoneLeftBehind, LeftBehind, Cosign
  <2>11. QED
    BY <2>7, <2>8, <2>10 DEF CustodyInv
<1>3. CASE \E w \in Txs : CosignHistory(w)
  <2>1. PICK w \in Txs : CosignHistory(w)
    BY <1>3
  <2>2. hist' \in [Txs -> [there : BOOLEAN, sigs : SUBSET Keys]]
    BY <1>1, <2>1 DEF CosignHistory, TypeOK
  <2>3. QED
    BY <1>1, <2>1, <2>2 DEF CosignHistory, CustodyInv, TypeOK, CompleteHasCause, CompleteIsStored, Caused,
                            InvalidForACoin, InvalidHasCause, NoneLeftBehind, LeftBehind
<1>4. QED
  BY <1>2, <1>3

(* What happens in an import window stays there, but for the copies that   *)
(* are signed and dropped.                                                 *)
LEMMA WindowStep ==
  ASSUME CustodyInv, steps' \in 0 .. MaxSteps,
         dlg' \in [kind : {"none", "detail", "review"}, items : Wills, todo : SUBSET Txs],
         Caused(dlg'.items, thrown'), InvalidHasCause(dlg'.items),
         thrown \subseteq thrown', thrown' \subseteq Txs,
         UNCHANGED <<live, stored, hist, file, chain, elsewhere, fell, loose>>
  PROVE  CustodyInv'
<1>1. TypeOK /\ InvalidForACoin /\ NoneLeftBehind /\ CompleteIsStored
      /\ Caused(live, thrown) /\ Caused(stored, thrown) /\ Caused(file.items, thrown)
  BY CauseByPlace DEF CustodyInv
<1>2. TypeOK'
  BY <1>1 DEF TypeOK
<1>3. CompleteHasCause' /\ CompleteIsStored'
  BY <1>1 DEF CompleteHasCause, CompleteIsStored, Caused
<1>4. InvalidForACoin' /\ NoneLeftBehind'
  BY <1>1 DEF InvalidForACoin, InvalidHasCause, NoneLeftBehind, LeftBehind
<1>5. QED
  BY <1>2, <1>3, <1>4 DEF CustodyInv

LEMMA DialogStep ==
  ASSUME CustodyInv, steps' \in 0 .. MaxSteps,
         \/ OpenDetails \/ OpenReview \/ CloseDialog \/ SignImported
         \/ \E w \in Txs : ReviewSign(w) \/ ReviewSkip(w)
  PROVE  CustodyInv'
<1> DEFINE Dialogs == [kind : {"none", "detail", "review"}, items : Wills, todo : SUBSET Txs]
<1>1. /\ file.items \in Wills /\ Caused(file.items, thrown) /\ InvalidHasCause(file.items)
      /\ dlg.items \in Wills /\ Caused(dlg.items, thrown) /\ InvalidHasCause(dlg.items)
      /\ dlg \in Dialogs /\ thrown \subseteq Txs
  BY CauseByPlace DEF CustodyInv, TypeOK, InvalidForACoin
<1>2. CASE OpenDetails
  <2>1. /\ Linked(file.items) \in Wills /\ Caused(Linked(file.items), thrown)
        /\ InvalidHasCause(Linked(file.items))
    BY <1>1, LinkedKeeps, SameSignedIsCaused, CustodyAssumption DEF InvalidHasCause
  <2>2. QED
    BY <1>1, <1>2, <2>1, WindowStep DEF OpenDetails
<1>3. CASE OpenReview
  <2>1. /\ Validity(file.items) \in Wills /\ Caused(Validity(file.items), thrown)
        /\ InvalidHasCause(Validity(file.items))
    BY <1>1, ValidityKeeps, ValidityHasCause, SameSignedIsCaused
  <2>2. Valid(Validity(file.items)) \subseteq Txs
    BY DEF Valid
  <2>3. QED
    BY <1>1, <1>3, <2>1, <2>2, WindowStep DEF OpenReview
<1>4. CASE CloseDialog
  <2>1. /\ Closed \in Dialogs /\ Caused(Closed.items, thrown) /\ InvalidHasCause(Closed.items)
    BY EmptyTyped, NoItemFields, CustodyAssumption DEF Closed, Empty, Caused, InvalidHasCause
  <2>2. QED
    BY <1>1, <1>4, <2>1, WindowStep DEF CloseDialog
<1>5. CASE SignImported
  <2>1. Unsigned(dlg.items, Txs) \subseteq In(dlg.items)
    BY <1>1, UnsignedAreItems
  <2>2. CASE dlg' = [dlg EXCEPT !.items = PutBack(@, Unsigned(dlg.items, Txs))] /\ UNCHANGED thrown
    <3>1. LET new == PutBack(dlg.items, Unsigned(dlg.items, Txs))
          IN  new \in Wills /\ Caused(new, thrown) /\ InvalidHasCause(new)
      BY <1>1, <2>1, PutBackKeeps, CustodyAssumption DEF InvalidHasCause
    <3>2. dlg' \in Dialogs /\ dlg'.items = PutBack(dlg.items, Unsigned(dlg.items, Txs))
      BY <1>1, <2>2, <3>1
    <3>3. QED
      BY <1>1, <1>5, <2>2, <3>1, <3>2, WindowStep DEF SignImported
  <2>3. CASE \E done \in SUBSET Txs :
                 /\ Partway(dlg.items, Txs, done)
                 /\ dlg' = [dlg EXCEPT !.items = Flag(@, done)]
                 /\ thrown' = thrown \cup Wasted(dlg.items, done)
    <3>1. PICK done \in SUBSET Txs :
                 /\ Partway(dlg.items, Txs, done)
                 /\ dlg' = [dlg EXCEPT !.items = Flag(@, done)]
                 /\ thrown' = thrown \cup Wasted(dlg.items, done)
      BY <2>3
    <3>2. done \subseteq In(dlg.items)
      BY <2>1, <3>1 DEF Partway
    <3>3. /\ Flag(dlg.items, done) \in Wills
          /\ Caused(Flag(dlg.items, done), thrown') /\ InvalidHasCause(Flag(dlg.items, done))
          /\ thrown' \subseteq Txs
      BY <1>1, <3>1, <3>2, FlagKeeps, CustodyAssumption DEF InvalidHasCause, Wasted
    <3>4. dlg' \in Dialogs /\ dlg'.items = Flag(dlg.items, done)
      BY <1>1, <3>1, <3>3
    <3>5. QED
      BY <1>1, <1>5, <3>1, <3>3, <3>4, WindowStep DEF SignImported
  <2>4. QED
    BY <1>5, <2>2, <2>3 DEF SignImported
<1>6. CASE \E w \in Txs : ReviewSign(w)
  <2>1. PICK w \in Txs : ReviewSign(w)
    BY <1>6
  <2> DEFINE done == {w} \cap Unsigned(dlg.items, Txs)
  <2>2. done \subseteq In(dlg.items)
    BY <1>1, UnsignedAreItems
  <2>3. /\ Flag(dlg.items, done) \in Wills
        /\ Caused(Flag(dlg.items, done), thrown \cup Wasted(dlg.items, done))
        /\ InvalidHasCause(Flag(dlg.items, done))
        /\ thrown \cup Wasted(dlg.items, done) \subseteq Txs
    BY <1>1, <2>2, FlagKeeps, CustodyAssumption DEF InvalidHasCause, Wasted
  <2>4. dlg' \in Dialogs /\ dlg'.items = Flag(dlg.items, done)
    BY <1>1, <2>1, <2>3 DEF ReviewSign
  <2>5. QED
    BY <1>1, <2>1, <2>3, <2>4, WindowStep DEF ReviewSign
<1>7. CASE \E w \in Txs : ReviewSkip(w)
  <2>1. PICK w \in Txs : ReviewSkip(w)
    BY <1>7
  <2>2. dlg' \in Dialogs /\ dlg'.items = dlg.items
    BY <1>1, <2>1 DEF ReviewSkip
  <2>3. QED
    BY <1>1, <2>1, <2>2, WindowStep DEF ReviewSkip
<1>8. QED
  BY <1>2, <1>3, <1>4, <1>5, <1>6, <1>7

(* The chain moves; the wallet has not looked yet.                         *)
LEMMA ChainStep ==
  ASSUME CustodyInv, SpendElsewhere \/ \E w \in Txs : Broadcast(w), steps' \in 0 .. MaxSteps
  PROVE  CustodyInv'
<1>1. TypeOK /\ InvalidForACoin /\ NoneLeftBehind /\ CompleteIsStored /\ CompleteHasCause
  BY DEF CustodyInv
<1>2. /\ hist' \in [Txs -> [there : BOOLEAN, sigs : SUBSET Keys]] /\ chain' \subseteq Txs
      /\ elsewhere' \in BOOLEAN /\ (elsewhere => elsewhere') /\ (elsewhere' => chain' = {})
      /\ UNCHANGED <<live, stored, dlg, file, fell, thrown, loose>>
  <2>1. CASE SpendElsewhere
    BY <1>1, <2>1 DEF TypeOK, SpendElsewhere, NoCopy
  <2>2. CASE \E w \in Txs : Broadcast(w)
    BY <1>1, <2>2 DEF TypeOK, Broadcast
  <2>3. QED
    BY <2>1, <2>2
<1>3. TypeOK'
  BY <1>1, <1>2 DEF TypeOK
<1>4. CompleteHasCause' /\ CompleteIsStored'
  BY <1>1, <1>2 DEF CompleteHasCause, CompleteIsStored
<1>5. InvalidForACoin' /\ NoneLeftBehind'
  BY <1>1, <1>2 DEF InvalidForACoin, InvalidHasCause, NoneLeftBehind, LeftBehind
<1>6. QED
  BY <1>3, <1>4, <1>5 DEF CustodyInv

LEMMA CustodyStep == CustodyInv /\ [Next]_vars => CustodyInv'
<1> SUFFICES ASSUME CustodyInv, [Next]_vars PROVE CustodyInv'
  OBVIOUS
<1>1. CASE UNCHANGED vars
  BY <1>1 DEF vars, CustodyInv, TypeOK, CompleteHasCause, CompleteIsStored, InvalidForACoin,
              InvalidHasCause, NoneLeftBehind, LeftBehind
<1>2. CASE Next
  <2>1. Step /\ steps' \in 0 .. MaxSteps
    BY <1>2, CustodyAssumption DEF Next, CustodyInv, TypeOK
  <2>2. CASE \E asked \in SUBSET Txs : Sign(asked) \/ SignFromCommandLine(asked)
    BY <2>1, <2>2, SignStep, SignFromCommandLineStep
  <2>3. CASE SignAndSave
    BY <2>1, <2>3, SignAndSaveStep
  <2>4. CASE CheckWill
    BY <2>1, <2>4, CheckWillStep
  <2>5. CASE (\E w \in Txs : Delete(w)) \/ CloseWallet \/ Restart
    BY <2>1, <2>5, KeepingStep
  <2>6. CASE MergeFile \/ MergeTx \/ MergeImported
    <3>1. /\ file.items \in Wills /\ Caused(file.items, thrown) /\ InvalidHasCause(file.items)
          /\ dlg.items \in Wills /\ Caused(dlg.items, thrown) /\ InvalidHasCause(dlg.items)
      BY CauseByPlace DEF CustodyInv, TypeOK, InvalidForACoin
    <3>2. QED
      BY <2>1, <2>6, <3>1, MergeStep DEF MergeFile, MergeTx, MergeImported
  <2>7. CASE \/ \E kind \in {"will", "txs"} : ShowSignedQr(kind) \/ \E f \in Filters : Export(kind, f)
             \/ \E w \in Txs : CopyTx(w)
             \/ ExportImported \/ SaveSigned
    BY <2>1, <2>7, ExportStep
  <2>8. CASE Cosign \/ \E w \in Txs : CosignHistory(w)
    BY <2>1, <2>8, CosignStep
  <2>9. CASE \/ OpenDetails \/ OpenReview \/ CloseDialog \/ SignImported
             \/ \E w \in Txs : ReviewSign(w) \/ ReviewSkip(w)
    BY <2>1, <2>9, DialogStep
  <2>10. CASE SpendElsewhere \/ \E w \in Txs : Broadcast(w)
    BY <2>1, <2>10, ChainStep
  <2>11. QED
    BY <2>1, <2>2, <2>3, <2>4, <2>5, <2>6, <2>7, <2>8, <2>9, <2>10 DEF Step
<1>3. QED
  BY <1>1, <1>2

LEMMA CustodyAlways == Spec => []CustodyInv
BY InitCustody, CustodyStep, PTL DEF Spec

-----------------------------------------------------------------------------
(* The results *)

(* COMPLETE, by which sign and push decide, means every signature but for  *)
(* the copies that were dropped, in memory, in the store, in an import     *)
(* window and in a file, and a crash loses none but those of `loose`.      *)
THEOREM CompleteIsTrueAlways == Spec => []CompleteIsTrue
<1>1. CustodyInv => CompleteIsTrue
  BY DEF CustodyInv, CompleteIsTrue
<1>2. QED
  BY <1>1, CustodyAlways, PTL

(* A child of an INVALIDATED Father is VALID only where the last validity  *)
(* pass raised: check_will never leaves one behind silently.               *)
THEOREM ValidChildAlways == Spec => []ValidChildOfInvalid
<1>1. CustodyInv => ValidChildOfInvalid
  BY DEF CustodyInv, NoneLeftBehind, LeftBehind, ValidChildOfInvalid
<1>2. QED
  BY <1>1, CustodyAlways, PTL

(* A step that changes an import window without closing it is one of the   *)
(* window's own.                                                           *)
LEMMA WindowStepLeavesLiveAlone ==
  [Next]_vars => [dlg' # dlg /\ dlg' # Closed => UNCHANGED <<live, stored, hist>>]_vars
<1> SUFFICES ASSUME Next, dlg' # dlg, dlg' # Closed PROVE UNCHANGED <<live, stored, hist>>
  BY DEF vars
<1>1. ~ (\/ \E asked \in SUBSET Txs : Sign(asked) \/ SignFromCommandLine(asked)
         \/ SignAndSave \/ CheckWill \/ CloseWallet \/ Restart
         \/ \E kind \in {"will", "txs"} : ShowSignedQr(kind) \/ \E f \in Filters : Export(kind, f)
         \/ Cosign \/ MergeFile \/ MergeTx \/ CloseDialog
         \/ ExportImported \/ MergeImported \/ SaveSigned
         \/ (\E w \in Txs : Delete(w) \/ CopyTx(w) \/ CosignHistory(w) \/ Broadcast(w))
         \/ SpendElsewhere)
  BY DEF Sign, SignFromCommandLine, SignAndSave, CheckWill, CloseWallet, Restart, ShowSignedQr,
         Export, Cosign, MergeFile, MergeTx, CloseDialog, ExportImported, MergeImported, SaveSigned,
         Delete, CopyTx, CosignHistory, Broadcast, SpendElsewhere
<1>2. OpenDetails \/ OpenReview \/ SignImported \/ \E w \in Txs : ReviewSign(w) \/ ReviewSkip(w)
  BY <1>1 DEF Next, Step
<1>3. QED
  BY <1>2 DEF OpenDetails, OpenReview, SignImported, ReviewSign, ReviewSkip

(* merge_will takes every signature of the payload that the item, not yet  *)
(* COMPLETE, lacks; the validity pass after it drops none.                 *)
LEMMA MergeStepBringsSignatures ==
  CustodyInv /\ [Next]_vars
    => [MergeFile \/ MergeTx => \A w \in In(file.items) :
          ~live[w].complete => file.items[w].sigs \subseteq live'[w].sigs]_vars
<1> SUFFICES ASSUME CustodyInv, MergeFile \/ MergeTx, NEW w \in In(file.items), ~live[w].complete
             PROVE  file.items[w].sigs \subseteq live'[w].sigs
  BY DEF vars
<1>1. live \in Wills /\ file.items \in Wills /\ w \in Txs
  BY DEF CustodyInv, TypeOK, In
<1>2. live' = Validity(Both(live, file.items))
  BY DEF MergeFile, MergeTx, MergeWill, Both
<1>3. /\ Both(live, file.items) \in Wills
      /\ file.items[w].sigs \subseteq Both(live, file.items)[w].sigs
  BY <1>1, BothKeeps
<1>4. QED
  BY <1>1, <1>2, <1>3, ValidityKeeps DEF SameSigned

(* What is imported reaches the will by a merge only, and by a merge it    *)
(* does: "the live will is never touched" before Merge is pressed.         *)
THEOREM ImportedByMergeAlways == Spec => ImportedByMerge
<1>1. CustodyInv /\ [Next]_vars
        => /\ [dlg' # dlg /\ dlg' # Closed => UNCHANGED <<live, stored, hist>>]_vars
           /\ [MergeFile \/ MergeTx => \A w \in In(file.items) :
                  ~live[w].complete => file.items[w].sigs \subseteq live'[w].sigs]_vars
  BY WindowStepLeavesLiveAlone, MergeStepBringsSignatures
<1>2. QED
  BY <1>1, CustodyAlways, PTL DEF Spec, ImportedByMerge, ImportLeavesLiveAlone, MergeBringsSignatures

(* Short of a restart, no step drops or unflags a COMPLETE, VALID item.    *)
LEMMA CommittedStep ==
  ASSUME CustodyInv, Next, ~Restart, NEW w \in Txs, live[w].complete, live[w].st = "valid"
  PROVE  w \in In(live') /\ live'[w].complete /\ live[w].sigs \subseteq live'[w].sigs
<1>1. TypeOK /\ live \in Wills
  BY DEF CustodyInv, TypeOK
<1>2. w \in In(live)
  BY NoItemFields DEF In
<1>3. SUFFICES live'[w].complete /\ live[w].sigs \subseteq live'[w].sigs
  BY NoItemFields DEF In
<1>4. ASSUME NEW done, live' = PutBack(live, done), done \subseteq In(live)
      PROVE  live'[w].complete /\ live[w].sigs \subseteq live'[w].sigs
  BY <1>1, <1>4, PutBackKeeps
<1>5. ASSUME NEW done, live' = Flag(live, done), done \subseteq In(live)
      PROVE  live'[w].complete /\ live[w].sigs \subseteq live'[w].sigs
  BY <1>1, <1>5, FlagKeeps
<1>6. ASSUME NEW asked PROVE Unsigned(live, asked) \subseteq In(live)
  BY <1>1, UnsignedAreItems
<1>7. CASE \E asked \in SUBSET Txs : Sign(asked) \/ SignFromCommandLine(asked)
  BY <1>4, <1>5, <1>6, <1>7 DEF Sign, SignFromCommandLine, Partway
<1>8. CASE SignAndSave
  BY <1>4, <1>5, <1>6, <1>8 DEF SignAndSave, Partway
<1>9. CASE CheckWill
  <2>1. /\ Absorbed(live) \in Wills
        /\ Absorbed(live)[w].complete /\ live[w].sigs \subseteq Absorbed(live)[w].sigs
    BY <1>1, AbsorbedKeeps
  <2>2. QED
    BY <1>9, <2>1, ValidityKeeps DEF CheckWill, SameSigned
<1>10. CASE MergeFile \/ MergeTx \/ MergeImported
  <2>1. PICK items \in {file.items, dlg.items} : live' = Validity(Both(live, items))
    BY <1>10 DEF MergeFile, MergeTx, MergeImported, MergeWill, Both
  <2>2. items \in Wills
    BY <1>1, <2>1 DEF TypeOK
  <2>3. /\ Both(live, items) \in Wills
        /\ Both(live, items)[w].complete /\ Both(live, items)[w].sigs = live[w].sigs
    BY <1>1, <2>2, BothKeeps
  <2>4. QED
    BY <2>1, <2>3, ValidityKeeps DEF SameSigned
<1>11. CASE \E v \in Txs : Delete(v)
  BY <1>1, <1>11 DEF Delete, Wills
<1>12. CASE live' = live
  BY <1>12
<1>13. QED
  BY <1>7, <1>8, <1>9, <1>10, <1>11, <1>12
     DEF Next, Step, CloseWallet, ShowSignedQr, Export, Cosign, OpenDetails, OpenReview, CloseDialog,
         SignImported, ExportImported, SaveSigned, CopyTx, CosignHistory, ReviewSign, ReviewSkip,
         Broadcast, SpendElsewhere

(* "Deleting them would silently drop a committed inheritance": what is    *)
(* signed, merged, imported, checked or deleted around a COMPLETE and      *)
(* VALID item leaves it in its place with all its signatures.              *)
THEOREM CommittedIsKeptAlways == Spec => CommittedIsKept
<1>1. CustodyInv /\ [Next]_vars
        => [~Restart => \A w \in Txs :
              live[w].complete /\ live[w].st = "valid" =>
                  /\ w \in In(live') /\ live'[w].complete
                  /\ live[w].sigs \subseteq live'[w].sigs]_vars
  BY CommittedStep DEF vars
<1>2. QED
  BY <1>1, CustodyAlways, PTL DEF Spec, CommittedIsKept
=============================================================================
