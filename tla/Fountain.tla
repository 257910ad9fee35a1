------------------------------ MODULE Fountain ------------------------------
(***************************************************************************)
(* The fountain code of BC-UR version 2 (core/animated_qr.py).  A transfer *)
(* is cut into n fragments 0 .. n-1.  The parts 1 .. n carry one fragment  *)
(* each, every later part the exclusive or of a subset that both sides     *)
(* derive from the part's number.  Data is the set of the fragments it is  *)
(* the exclusive or of, so that Xor is the symmetric difference and what   *)
(* the decoder computes can be compared with what was sent.                *)
(***************************************************************************)
EXTENDS Naturals, FiniteSets, SequencesExt

Xor(a, b) == (a \ b) \cup (b \ a)

Fragments(n) == 0 .. n - 1

(* choose_fragments; what it chooses for a mixed part comes from a random  *)
(* generator that is seeded with the part and the checksum.                *)
ChooseFragments(seq, n, chosen) == IF seq <= n THEN {seq - 1} ELSE chosen[n][seq]

(* _mix_fragments, of the fragments of transfer t.                         *)
Mix(t, indexes) == {<<t, i>> : i \in indexes}

(* A part as the decoder keeps it.                                         *)
Item(indexes, data) == [indexes |-> indexes, data |-> data]

(* The dictionary of mixed parts keeps the order in which they came.  The  *)
(* order of the simple ones makes no difference: it only decides which of  *)
(* the fragments that are there is left over and dropped.                  *)
Empty == [simple |-> {}, mixed |-> <<>>, queue |-> <<>>]

Has(items, indexes) == \E k \in DOMAIN items : items[k].indexes = indexes

Received(d) == UNION {item.indexes : item \in d.simple}

(* Faulty: parts that overlap are reduced, not only those that contain.    *)
ReduceOverlapping(a, b) ==
  IF b.indexes # a.indexes /\ b.indexes \cap a.indexes # {}
  THEN Item(a.indexes \ b.indexes, Xor(a.data, b.data)) ELSE a

ReducePart(a, b) ==
  IF b.indexes # a.indexes /\ b.indexes \subseteq a.indexes
  THEN Item(a.indexes \ b.indexes, Xor(a.data, b.data)) ELSE a

(* The value of Op at x; the choice is among one, and TLC evaluates x once *)
(* instead of wherever Op uses it.                                         *)
Apply(Op(_), x) == CHOOSE y \in {Op(z) : z \in {x}} : TRUE

ReduceByAll(item, items) ==
  LET by[k \in 0 .. Len(items)] ==
        IF k = 0 THEN item ELSE Apply(LAMBDA a : ReducePart(a, items[k]), by[k - 1])
  IN by[Len(items)]

IsSimple(item) == Cardinality(item.indexes) = 1

Put(items, item) == IF Has(items, item.indexes) THEN items ELSE Append(items, item)

(* The items at some of the positions, in their order.                     *)
Pick(items, positions) ==
  [k \in 1 .. Cardinality(positions) |->
     items[CHOOSE l \in positions : Cardinality({m \in positions : m <= l}) = k]]

(* _reduce_mixed_by: what becomes simple is queued, the rest stays mixed,  *)
(* in a dictionary that has one entry for a set of fragments.              *)
ReduceMixedBy(d, item) ==
  LET reduced == [k \in DOMAIN d.mixed |-> ReducePart(d.mixed[k], item)]
      simple == {k \in DOMAIN reduced : IsSimple(reduced[k])}
      first == {k \in DOMAIN reduced \ simple :
                  \A l \in 1 .. k - 1 : reduced[l].indexes # reduced[k].indexes} IN
  [d EXCEPT !.queue = @ \o Pick(reduced, simple), !.mixed = Pick(reduced, first)]

(* Done, or found to be bad, when every fragment is there (_finish).       *)
Complete(d, n) == Received(d) = Fragments(n)

ProcessSimple(d, item, n) ==
  LET kept == [d EXCEPT !.simple = @ \cup {item}] IN
  IF item.indexes \subseteq Received(d) THEN d
  ELSE IF Complete(kept, n) THEN kept
  ELSE ReduceMixedBy(kept, item)

ProcessMixed(d, item) ==
  LET reduced == ReduceByAll(ReduceByAll(item, SetToSeq(d.simple)), d.mixed)
      rest == ReduceMixedBy(d, reduced) IN
  IF Has(d.mixed, item.indexes) THEN d
  ELSE IF IsSimple(reduced) THEN [d EXCEPT !.queue = Append(@, reduced)]
  ELSE [rest EXCEPT !.mixed = Put(@, reduced)]

(* One turn of the loop of _receive; it stops when all fragments are there *)
(* or nothing is queued.                                                   *)
Process(d, n) ==
  LET item == Head(d.queue)
      rest == [d EXCEPT !.queue = Tail(@)] IN
  IF Complete(d, n) \/ d.queue = <<>> THEN d
  ELSE IF IsSimple(item) THEN ProcessSimple(rest, item, n) ELSE ProcessMixed(rest, item)

(* Every turn takes one part off the queue.  A part is queued when it      *)
(* comes, once more when it is reduced, and every mixed one when it leaves *)
(* the mixed ones: more turns than this find nothing to do.                *)
Turns(d) == 2 + Len(d.mixed) + 1

(* _receive                                                                *)
Receive(d, indexes, data, n) ==
  LET start == [d EXCEPT !.queue = Append(@, Item(indexes, data))]
      after[k \in 0 .. Turns(d)] ==
        IF k = 0 THEN start ELSE Apply(LAMBDA e : Process(e, n), after[k - 1])
  IN IF Complete(d, n) THEN d ELSE after[Turns(d)]

(* The message passes its checksum.                                        *)
Genuine(d, t) == \A item \in d.simple : item.data = Mix(t, item.indexes)
=============================================================================
