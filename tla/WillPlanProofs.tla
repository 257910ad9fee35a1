---------------------------- MODULE WillPlanProofs ----------------------------
(***************************************************************************)
(* What WillPlan promises of an earlier plan, for any heirs, executors,    *)
(* dates, fees, and any number of days, coins, edits and runs: once the    *)
(* will is signed no transaction of an earlier plan comes first, a check   *)
(* that says ok means that exactly the chosen heirs are paid, and a date   *)
(* is called postponed only when the owner, a Prepare or an automatic      *)
(* rebuild moved it.                                                       *)
(***************************************************************************)
EXTENDS WillPlan, WellFoundedInduction, TLAPS

Settings ==
  [heirs : HeirSets, recipe : [kind : {"abs", "rel"}, days : Nat], fee : FeeRates,
   executors : SUBSET Executors, backup : BOOLEAN]

Items ==
  [born : Nat, recipe : [kind : {"abs", "rel"}, days : Nat], status : SUBSET Statuses]

Flows ==
  [pc : {"idle", "check", "build", "recheck", "sign", "push", "invalidate", "classic"},
   caller : Callers, outcome : Outcomes \cup {"none"}, invalidated : BOOLEAN]

(* Who is in other hands is in the will, and every transaction spends      *)
(* coins the wallet once had.                                              *)
PlanTypes ==
  /\ now \in 0 .. MaxDay /\ coins \in 1 .. MaxCoins /\ gone \subseteq 1 .. coins
  /\ settings \in Settings /\ flow \in Flows /\ reasons \subseteq {"edited", "menu", "auto"}
  /\ will \in [DOMAIN will -> Items]
  /\ \A t \in DOMAIN will :
       /\ t \in Transactions /\ t.locktime \in Nat /\ t.locktime <= will[t].born
       /\ t.coins # {} /\ t.coins \subseteq 1 .. coins
  /\ held \subseteq DOMAIN will /\ mined \subseteq DOMAIN will

(* Once a will is checked and is not expired, what is valid is of one      *)
(* plan.                                                                   *)
Agreed ==
  flow.pc = "build" \/ (flow.pc # "recheck" /\ ~Expired(will))
    => \A t, u \in Valid(will) : t.heirs = u.heirs

InTime == flow.pc = "build" => \A t \in Valid(will) : t.locktime > 0

(* Whatever was built spends all there was, so that what may still be      *)
(* mined cannot be mined together.                                         *)
LiveShare(w) ==
  \A t, u \in DOMAIN w : Live(t) /\ Live(u) => Share(t, u)

(* Two plans are not due on the same day.                                  *)
Apart(w) ==
  \A t, u \in Valid(w) :
    Live(t) /\ Live(u) /\ t.heirs # u.heirs => t.locktime # u.locktime

(* Of two plans the one that is signed is due last.                        *)
SignedLast(w) ==
  \A t, u \in Valid(w) :
    Live(t) /\ Live(u) /\ t.heirs # u.heirs /\ Has(w, u, "COMPLETE")
    => t.locktime < u.locktime

(* So it is between a rebuild and its check.                               *)
RebuiltFirst == flow.pc = "recheck" => SignedLast(will)

(* What was put aside gave way to something that is due before.            *)
Superseded(w) ==
  gone = {} =>
    \A t \in DOMAIN w :
      (Live(t) /\ t \notin Valid(w)) =>
        \E q \in Valid(w) : Live(q) /\ q.locktime < t.locktime

Ordered(w) == LiveShare(w) /\ Apart(w) /\ Superseded(w)

PlanInv == PlanTypes /\ Agreed /\ InTime /\ RebuiltFirst /\ Ordered(will)

-----------------------------------------------------------------------------
(* Least numbers.                                                          *)

LEMMA LeastNatural ==
  ASSUME NEW S, S \subseteq Nat, S # {}
  PROVE  \E m \in S : \A k \in S : m <= k
<1> DEFINE R == OpToRel(<, Nat)
<1>1. IsWellFoundedOn(R, Nat)
  BY NatLessThanWellFounded
<1>2. ASSUME NEW x \in Nat, NEW y \in Nat, ~(<<y, x>> \in R) PROVE x <= y
  <2>1. ~(y < x)
    BY <1>2 DEF OpToRel
  <2>2. QED
    BY <2>1
<1> HIDE DEF R
<1>3. PICK x \in S : \A y \in S : ~(<<y, x>> \in R)
  BY <1>1, WFMin
<1>4. \A y \in S : x <= y
  BY <1>2, <1>3
<1>5. QED
  BY <1>4

LEMMA MinOfNaturals ==
  ASSUME NEW S, S \subseteq Nat, S # {}
  PROVE  Min(S) \in S /\ \A k \in S : Min(S) <= k
BY LeastNatural DEF Min

-----------------------------------------------------------------------------
(* The marks.                                                              *)

LEMMA SetStatusMarks ==
  ASSUME NEW item \in Items,
         NEW flag \in {"COMPLETE", "PUSHED", "INVALIDATED", "REPLACED", "ONCHAIN"}
  PROVE  /\ SetStatus(item, flag) \in Items
         /\ SetStatus(item, flag).born = item.born /\ SetStatus(item, flag).recipe = item.recipe
         /\ "VALID" \in SetStatus(item, flag).status <=>
              "VALID" \in item.status /\ flag \in {"COMPLETE", "PUSHED"}
         /\ flag # "COMPLETE" =>
              ("COMPLETE" \in SetStatus(item, flag).status <=> "COMPLETE" \in item.status)
<1> DEFINE off == CASE flag \in {"INVALIDATED", "REPLACED"} -> {"VALID"}
                    [] flag = "ONCHAIN"                    -> {"VALID", "INVALIDATED"}
                    [] OTHER                               -> {}
           st == (item.status \cup {flag}) \ off
<1>1. /\ "VALID" \in off <=> flag \notin {"COMPLETE", "PUSHED"}
      /\ "COMPLETE" \notin off
  OBVIOUS
<1>2. SetStatus(item, flag) = [item EXCEPT !.status = st]
  BY DEF SetStatus, Items
<1> HIDE DEF off
<1>3. /\ st \in SUBSET Statuses
      /\ "VALID" \in st <=> "VALID" \in item.status /\ flag \in {"COMPLETE", "PUSHED"}
      /\ flag # "COMPLETE" => ("COMPLETE" \in st <=> "COMPLETE" \in item.status)
  BY <1>1 DEF Items, Statuses
<1> HIDE DEF st
<1>4. QED
  BY <1>2, <1>3 DEF Items

(* `m` is `w` with marks that are not signatures.                          *)
Remarked(m, w) ==
  /\ DOMAIN m = DOMAIN w /\ m \in [DOMAIN w -> Items]
  /\ \A t \in DOMAIN w :
       /\ m[t].born = w[t].born /\ m[t].recipe = w[t].recipe
       /\ Has(m, t, "COMPLETE") <=> Has(w, t, "COMPLETE")

LEMMA InvalidatedMarks ==
  ASSUME NEW w, w \in [DOMAIN w -> Items]
  PROVE  /\ Remarked(Invalidated(w), w)
         /\ \A t : t \in Valid(Invalidated(w)) <=> t \in Valid(w) /\ Live(t)
<1> DEFINE m == Invalidated(w)
<1>1. ASSUME NEW t \in DOMAIN w
      PROVE  /\ m[t] \in Items /\ m[t].born = w[t].born /\ m[t].recipe = w[t].recipe
             /\ Has(m, t, "COMPLETE") <=> Has(w, t, "COMPLETE")
             /\ Has(m, t, "VALID") <=> Has(w, t, "VALID") /\ Live(t)
  <2> DEFINE flag == IF t \in mined THEN "ONCHAIN" ELSE "INVALIDATED"
  <2>1. m[t] = IF Live(t) THEN w[t] ELSE SetStatus(w[t], flag)
    BY DEF Invalidated
  <2>2. CASE Live(t)
    BY <2>1, <2>2 DEF Has
  <2>3. CASE ~Live(t)
    <3>1. w[t] \in Items /\ flag \in {"ONCHAIN", "INVALIDATED"}
      OBVIOUS
    <3> HIDE DEF flag, m
    <3>2. QED
      BY <2>1, <2>3, <3>1, SetStatusMarks DEF Has
  <2>4. QED
    BY <2>2, <2>3
<1>2. DOMAIN m = DOMAIN w
  BY DEF Invalidated
<1>3. m \in [DOMAIN w -> Items]
  BY <1>1, <1>2 DEF Invalidated
<1> HIDE DEF m
<1>4. Remarked(m, w)
  BY <1>1, <1>2, <1>3 DEF Remarked
<1>5. \A t : t \in Valid(m) <=> t \in Valid(w) /\ Live(t)
  BY <1>1, <1>2 DEF Valid
<1>6. QED
  BY <1>4, <1>5 DEF m

LEMMA ReplacedMarks ==
  ASSUME NEW w, w \in [DOMAIN w -> Items]
  PROVE  /\ Remarked(Replaced(w), w)
         /\ \A t : t \in Valid(Replaced(w)) <=>
              /\ t \in Valid(w)
              /\ \A u \in Valid(w) :
                   Share(t, u) /\ u.locktime < t.locktime => Id(w, u) = Id(w, t)
<1> DEFINE m == Replaced(w)
           gives(t) == \E u \in Valid(w) :
                         Share(t, u) /\ u.locktime < t.locktime /\ Id(w, u) # Id(w, t)
<1>1. ASSUME NEW t \in DOMAIN w
      PROVE  /\ m[t] \in Items /\ m[t].born = w[t].born /\ m[t].recipe = w[t].recipe
             /\ Has(m, t, "COMPLETE") <=> Has(w, t, "COMPLETE")
             /\ Has(m, t, "VALID") <=> Has(w, t, "VALID") /\ ~gives(t)
  <2>1. m[t] = IF t \in Valid(w) /\ gives(t) THEN SetStatus(w[t], "REPLACED") ELSE w[t]
    BY DEF Replaced
  <2>2. t \in Valid(w) <=> Has(w, t, "VALID")
    BY DEF Valid
  <2> HIDE DEF gives, m
  <2>3. CASE t \in Valid(w) /\ gives(t)
    <3>1. w[t] \in Items
      OBVIOUS
    <3>2. QED
      BY <2>1, <2>3, <3>1, SetStatusMarks DEF Has
  <2>4. CASE ~(t \in Valid(w) /\ gives(t))
    BY <2>1, <2>2, <2>4 DEF Has
  <2>5. QED
    BY <2>3, <2>4
<1>2. DOMAIN m = DOMAIN w
  BY DEF Replaced
<1>3. m \in [DOMAIN w -> Items]
  BY <1>1, <1>2 DEF Replaced
<1> HIDE DEF m
<1>4. Remarked(m, w)
  BY <1>1, <1>2, <1>3 DEF Remarked
<1>5. \A t : t \in Valid(m) <=> t \in Valid(w) /\ ~gives(t)
  BY <1>1, <1>2 DEF Valid
<1>6. QED
  BY <1>4, <1>5 DEF m

-----------------------------------------------------------------------------
(* The check.                                                              *)

(* What a transaction of the will is, as far as dates are concerned.       *)
Dated(w) ==
  /\ w \in [DOMAIN w -> Items]
  /\ \A t \in DOMAIN w : t \in Transactions /\ t.locktime \in Nat

LEMMA HeirsInId ==
  ASSUME NEW w, NEW t \in Transactions, NEW u \in Transactions, t.heirs # u.heirs
  PROVE  Id(w, t) # Id(w, u)
<1>1. Id(w, t).heirs = t.heirs /\ Id(w, u).heirs = u.heirs
  BY DEF Id, Transactions
<1>2. QED
  BY <1>1

(* Marks that are not signatures leave the order of the plans alone, as    *)
(* long as what loses its mark has something that is due before it.        *)
LEMMA MarksKeepOrder ==
  ASSUME NEW w, NEW m, Remarked(m, w), Ordered(w), Valid(m) \subseteq Valid(w), Superseded(m)
  PROVE  Ordered(m)
<1>1. LiveShare(m)
  BY DEF Remarked, Ordered, LiveShare
<1>2. Apart(m)
  BY DEF Ordered, Apart
<1>3. QED
  BY <1>1, <1>2 DEF Ordered

LEMMA InvalidatedKeepsOrder ==
  ASSUME NEW w, Dated(w), Ordered(w)
  PROVE  Ordered(Invalidated(w))
<1>1. /\ Remarked(Invalidated(w), w)
      /\ \A t : t \in Valid(Invalidated(w)) <=> t \in Valid(w) /\ Live(t)
  BY InvalidatedMarks DEF Dated
<1> DEFINE m == Invalidated(w)
<1> HIDE DEF m
<1>2. DOMAIN m = DOMAIN w
  BY <1>1 DEF m, Remarked
<1>3. \A t : t \in Valid(m) <=> t \in Valid(w) /\ Live(t)
  BY <1>1 DEF m
<1>4. Superseded(m)
  BY <1>2, <1>3 DEF Ordered, Superseded
<1>5. Remarked(m, w) /\ Valid(m) \subseteq Valid(w)
  BY <1>1, <1>3 DEF m
<1>6. Ordered(m)
  BY <1>4, <1>5, MarksKeepOrder
<1>7. QED
  BY <1>6 DEF m

(* Of what is valid the one that is due first gives way to nothing.        *)
LEMMA FirstStays ==
  ASSUME NEW w, Dated(w), NEW t \in Valid(w)
  PROVE  \E q \in Valid(Replaced(w)) : q.locktime <= t.locktime
<1> DEFINE dates == {u.locktime : u \in Valid(w)}
<1>1. \A u \in Valid(w) : u.locktime \in Nat
  BY DEF Dated, Valid
<1>2. dates \subseteq Nat /\ t.locktime \in dates
  BY <1>1
<1>3. PICK first \in dates : \A k \in dates : first <= k
  <2> HIDE DEF dates
  <2>1. QED
    BY <1>2, LeastNatural
<1>4. PICK q \in Valid(w) : q.locktime = first
  OBVIOUS
<1>5. \A u \in Valid(w) : q.locktime <= u.locktime
  BY <1>3, <1>4
<1>6. \A u \in Valid(w) : ~(u.locktime < q.locktime)
  BY <1>1, <1>5
<1>7. q \in Valid(Replaced(w))
  BY <1>6, ReplacedMarks DEF Dated
<1>8. QED
  BY <1>5, <1>7

LEMMA ReplacedKeepsOrder ==
  ASSUME NEW w, Dated(w), Ordered(w), \A u \in Valid(w) : Live(u)
  PROVE  Ordered(Replaced(w))
<1>1. /\ Remarked(Replaced(w), w)
      /\ \A t : t \in Valid(Replaced(w)) <=>
           /\ t \in Valid(w)
           /\ \A u \in Valid(w) : Share(t, u) /\ u.locktime < t.locktime => Id(w, u) = Id(w, t)
  BY ReplacedMarks DEF Dated
<1>2. Valid(Replaced(w)) \subseteq Valid(w) /\ DOMAIN Replaced(w) = DOMAIN w
  BY <1>1 DEF Remarked
<1>3. ASSUME NEW t \in Valid(w)
      PROVE  \E q \in Valid(Replaced(w)) : q.locktime <= t.locktime
  BY <1>3, FirstStays
<1>4. Superseded(Replaced(w))
  <2> SUFFICES ASSUME gone = {}, NEW t \in DOMAIN w, Live(t), t \notin Valid(Replaced(w))
               PROVE  \E q \in Valid(Replaced(w)) : Live(q) /\ q.locktime < t.locktime
    BY <1>2 DEF Superseded
  <2>1. \E u \in Valid(w) : u.locktime < t.locktime
    <3>1. CASE t \in Valid(w)
      BY <1>1, <3>1
    <3>2. CASE t \notin Valid(w)
      BY <3>2 DEF Ordered, Superseded
    <3>3. QED
      BY <3>1, <3>2
  <2>2. PICK u \in Valid(w) : u.locktime < t.locktime
    BY <2>1
  <2>3. PICK q \in Valid(Replaced(w)) : q.locktime <= u.locktime
    BY <1>3
  <2>4. q.locktime \in Nat /\ u.locktime \in Nat /\ t.locktime \in Nat
    BY <1>2 DEF Dated, Valid
  <2>5. q.locktime < t.locktime /\ Live(q)
    BY <1>2, <2>2, <2>3, <2>4
  <2>6. QED
    BY <2>5
<1>5. QED
  BY <1>1, <1>2, <1>4, MarksKeepOrder

(* After a check that finds nothing due, what is valid is of one plan.     *)
LEMMA CheckKeepsOrder ==
  ASSUME Dated(will), Ordered(will), now \in Nat
  PROVE  /\ Remarked(Checked, will) /\ Ordered(Checked)
         /\ \A t \in Valid(Checked) : t \in Valid(will) /\ Live(t)
         /\ ~Expired(Invalidated(will)) =>
              /\ \A t, u \in Valid(Checked) : t.heirs = u.heirs
              /\ \A t \in Valid(Checked) : t.locktime > now
<1> DEFINE m == Invalidated(will)
           r == Replaced(m)
<1>1. /\ Remarked(m, will)
      /\ \A t : t \in Valid(m) <=> t \in Valid(will) /\ Live(t)
  BY InvalidatedMarks DEF Dated
<1>2. Ordered(m)
  BY InvalidatedKeepsOrder
<1>3. Checked = IF Expired(m) THEN m ELSE r
  BY DEF Checked
<1> HIDE DEF m
<1>4. Dated(m)
  BY <1>1 DEF Dated, Remarked
<1>5. \A t \in Valid(m) : Live(t) /\ t \in DOMAIN m
  BY <1>1 DEF Valid
<1>6. /\ Remarked(r, m)
      /\ \A t : t \in Valid(r) <=>
           /\ t \in Valid(m)
           /\ \A u \in Valid(m) : Share(t, u) /\ u.locktime < t.locktime => Id(m, u) = Id(m, t)
  BY <1>4, ReplacedMarks DEF Dated
<1>7. Ordered(r)
  BY <1>2, <1>4, <1>5, ReplacedKeepsOrder
<1> HIDE DEF r
<1>8. Remarked(r, will)
  BY <1>1, <1>6 DEF Remarked
<1>9. ASSUME NEW t \in Valid(r), NEW u \in Valid(r), t.heirs # u.heirs
      PROVE  FALSE
  <2>1. /\ t \in Valid(m) /\ u \in Valid(m)
        /\ Live(t) /\ Live(u) /\ t \in DOMAIN m /\ u \in DOMAIN m
    BY <1>5, <1>6
  <2>2. t.locktime # u.locktime /\ Share(t, u) /\ Share(u, t)
    BY <1>2, <1>9, <2>1 DEF Ordered, Apart, LiveShare
  <2>3. t.locktime \in Nat /\ u.locktime \in Nat /\ t \in Transactions /\ u \in Transactions
    BY <1>4, <2>1 DEF Dated
  <2>4. Id(m, t) # Id(m, u)
    BY <1>9, <2>3, HeirsInId
  <2>5. t.locktime < u.locktime \/ u.locktime < t.locktime
    BY <2>2, <2>3
  <2>6. QED
    BY <1>6, <2>1, <2>2, <2>4, <2>5
<1>10. ASSUME ~Expired(m), NEW t \in Valid(r)
       PROVE  t.locktime > now
  <2>1. t \in Valid(m) /\ t.locktime \in Nat
    BY <1>4, <1>5, <1>6 DEF Dated
  <2>2. QED
    BY <1>10, <2>1 DEF Expired
<1>11. CASE Expired(m)
  BY <1>1, <1>2, <1>3, <1>11 DEF m
<1>12. CASE ~Expired(m)
  BY <1>1, <1>3, <1>6, <1>7, <1>8, <1>9, <1>10, <1>12 DEF m
<1>13. QED
  BY <1>11, <1>12

-----------------------------------------------------------------------------
(* The chain.                                                              *)

LEMMA SameChainKeepsOrder ==
  ASSUME UNCHANGED <<coins, gone, mined>>, Ordered(will')
  PROVE  Ordered(will)'
<1>1. \A t : Live(t)' <=> Live(t)
  BY DEF Live, Utxos, Spent
<1>2. Valid(will)' = Valid(will')
  BY DEF Valid, Has
<1>3. QED
  BY <1>1, <1>2 DEF Ordered, LiveShare, Apart, Superseded, Has, Share

LEMMA PlanTypesDate ==
  ASSUME PlanTypes
  PROVE  Dated(will) /\ now \in Nat /\ coins \in Nat
BY PlanAssumption DEF PlanTypes, Dated

(* What happens on the chain revives nothing: either it leaves alone what  *)
(* is live, or nothing of the will is live any more, or the owner spent    *)
(* coins himself.                                                          *)
LEMMA ChainKeepsOrder ==
  ASSUME Ordered(will), UNCHANGED will,
         \A t \in DOMAIN will : Live(t)' => Live(t),
         \/ gone' # {}
         \/ gone = {} /\ \A t \in DOMAIN will : Live(t) => Live(t)'
         \/ \A t \in DOMAIN will : ~Live(t)'
  PROVE  Ordered(will)'
<1>1. Valid(will)' = Valid(will) /\ Valid(will) \subseteq DOMAIN will
  BY DEF Valid, Has
<1>2. LiveShare(will)'
  BY DEF Ordered, LiveShare, Share
<1>3. Apart(will)'
  BY <1>1 DEF Ordered, Apart, Has
<1>4. Superseded(will)'
  BY <1>1 DEF Ordered, Superseded
<1>5. QED
  BY <1>2, <1>3, <1>4 DEF Ordered

LEMMA ExecutionEndsAll ==
  ASSUME PlanTypes, Ordered(will), Execute, UNCHANGED will
  PROVE  /\ \A t \in DOMAIN will : ~Live(t)'
         /\ mined' \subseteq DOMAIN will
<1>1. PICK t \in Usable : Live(t) /\ mined' = mined \cup {t}
  BY DEF Execute
<1>2. t \in DOMAIN will
  BY DEF Usable, PlanTypes
<1>3. ASSUME NEW u \in DOMAIN will, Live(u)'
      PROVE  FALSE
  <2>1. Live(u)
    BY <1>1, <1>3 DEF Execute, Live, Utxos, Spent
  <2>2. Share(u, t)
    BY <1>1, <1>2, <2>1 DEF Ordered, LiveShare
  <2>3. PICK c \in u.coins : c \in t.coins
    BY <2>2 DEF Share
  <2>4. Spent(c)'
    BY <1>1, <2>3 DEF Spent
  <2>5. QED
    BY <1>3, <2>3, <2>4 DEF Live, Utxos
<1>4. mined' \subseteq DOMAIN will
  BY <1>1, <1>2 DEF PlanTypes
<1>5. QED
  BY <1>3, <1>4

LEMMA WorldKeepsOrder ==
  ASSUME PlanTypes, Ordered(will), UNCHANGED will, Day \/ Receive \/ SpendElsewhere \/ Execute
  PROVE  Ordered(will)'
<1>1. CASE Day
  <2>1. \A t : Live(t)' <=> Live(t)
    BY <1>1 DEF Day, Live, Utxos, Spent
  <2>2. gone' = gone
    BY <1>1 DEF Day
  <2>3. QED
    BY <2>1, <2>2, ChainKeepsOrder
<1>2. CASE Receive
  <2>1. ASSUME NEW t \in DOMAIN will
        PROVE  Live(t)' <=> Live(t)
    <3>1. t.coins \subseteq 1 .. coins /\ coins \in Nat /\ coins' = coins + 1
      BY <1>2, PlanTypesDate DEF PlanTypes, Receive
    <3>2. \A c : c \in 1 .. coins => c \in 1 .. coins'
      BY <3>1
    <3>3. \A c : Spent(c)' <=> Spent(c)
      BY <1>2 DEF Receive, Spent
    <3>4. QED
      BY <3>1, <3>2, <3>3 DEF Live, Utxos
  <2>2. gone' = gone
    BY <1>2 DEF Receive
  <2>3. QED
    BY <2>1, <2>2, ChainKeepsOrder
<1>3. CASE SpendElsewhere
  <2>1. gone' # {} /\ \A t : Live(t)' => Live(t)
    BY <1>3 DEF SpendElsewhere, Live, Utxos, Spent
  <2>2. QED
    BY <2>1, ChainKeepsOrder
<1>4. CASE Execute
  BY <1>4, ExecutionEndsAll, ChainKeepsOrder
<1>5. QED
  BY <1>1, <1>2, <1>3, <1>4

LEMMA InvalidationKeepsOrder ==
  ASSUME PlanTypes, Ordered(will), UNCHANGED will, NEW confirmed \in BOOLEAN, Invalidate(confirmed)
  PROVE  /\ Ordered(will)'
         /\ UNCHANGED <<now, mined, held>>
         /\ coins' \in coins .. MaxCoins /\ gone' \subseteq 1 .. coins'
<1>1. CASE ~confirmed
  <2>1. UNCHANGED chainVars
    BY <1>1 DEF Invalidate
  <2>2. Ordered(will')
    OBVIOUS
  <2>3. Ordered(will)'
    BY <2>1, <2>2, SameChainKeepsOrder DEF chainVars
  <2>4. QED
    BY <2>1, <2>3, PlanAssumption DEF chainVars, PlanTypes
<1>2. CASE confirmed
  <2>1. PICK spent \in SUBSET Utxos :
          /\ spent # {} /\ coins < MaxCoins
          /\ gone' = gone \cup spent /\ coins' = coins + 1
          /\ UNCHANGED <<now, mined, held>>
    <3>1. PICK rank : LET spent == InvalidationCoins(rank) \cap Utxos IN
                      /\ spent # {} /\ coins < MaxCoins
                      /\ gone' = gone \cup spent /\ coins' = coins + 1
                      /\ UNCHANGED <<now, mined, held, elsewhere>>
      BY <1>2 DEF Invalidate
    <3>2. InvalidationCoins(rank) \cap Utxos \in SUBSET Utxos
      OBVIOUS
    <3>3. QED
      BY <3>1, <3>2
  <2>2. /\ coins \in Nat /\ MaxCoins \in Nat
        /\ spent \subseteq 1 .. coins /\ gone \subseteq 1 .. coins
    BY PlanAssumption, PlanTypesDate DEF Utxos, PlanTypes
  <2>3. coins' \in coins .. MaxCoins
    BY <2>1, <2>2
  <2>4. \A c : c \in 1 .. coins => c \in 1 .. coins'
    BY <2>2, <2>3
  <2>5. gone' \subseteq 1 .. coins'
    BY <2>1, <2>2, <2>4
  <2>6. ASSUME NEW t \in DOMAIN will, Live(t)'
        PROVE  Live(t)
    <3>1. t.coins \subseteq 1 .. coins
      BY DEF PlanTypes
    <3>2. \A c : Spent(c) => Spent(c)'
      BY <2>1 DEF Spent
    <3>3. QED
      BY <2>6, <3>1, <3>2 DEF Live, Utxos
  <2>7. gone' # {}
    BY <2>1
  <2>8. Ordered(will)'
    BY <2>6, <2>7, ChainKeepsOrder
  <2>9. QED
    BY <2>1, <2>3, <2>5, <2>8
<1>3. QED
  BY <1>1, <1>2

LEMMA NothingRevives ==
  ASSUME PlanTypes,
         \/ Day \/ Receive \/ SpendElsewhere \/ Execute
         \/ \E confirmed \in BOOLEAN : Invalidate(confirmed)
         \/ UNCHANGED <<now, coins, gone, mined>>
  PROVE  /\ now' \in Nat /\ now <= now'
         /\ \A t \in Valid(will) : Live(t)' => Live(t)
<1>1. now \in Nat /\ coins \in Nat
  BY PlanTypesDate
<1>2. now' \in {now, now + 1} /\ gone \subseteq gone' /\ mined \subseteq mined'
  BY DEF Day, Receive, SpendElsewhere, Execute, Invalidate, chainVars
<1>3. ASSUME NEW t \in Valid(will), Live(t)'
      PROVE  Live(t)
  <2>1. t.coins \subseteq 1 .. coins
    BY DEF PlanTypes, Valid
  <2>2. \A c \in t.coins : ~Spent(c)'
    BY <1>3 DEF Live, Utxos
  <2>3. \A c \in t.coins : ~Spent(c)
    BY <1>2, <2>2 DEF Spent
  <2>4. QED
    BY <2>1, <2>3 DEF Live, Utxos
<1>4. QED
  BY <1>1, <1>2, <1>3

-----------------------------------------------------------------------------
(* The rebuild.                                                            *)

LEMMA DueIsNatural ==
  ASSUME PlanTypes PROVE Due(settings.recipe) \in Nat
BY PlanTypesDate DEF PlanTypes, Settings, Due

LEMMA FreshTransaction ==
  ASSUME PlanTypes, Utxos # {}, NEW we \in Wanted, NEW day \in Nat
  PROVE  /\ Fresh(we, day) \in Transactions
         /\ Fresh(we, day).coins = Utxos /\ Utxos \subseteq 1 .. coins
         /\ Fresh(we, day).locktime = day /\ Fresh(we, day).heirs = settings.heirs
<1>1. Utxos \subseteq 1 .. coins /\ coins \in Nat /\ coins \in 1 .. MaxCoins
  BY PlanTypesDate DEF Utxos, PlanTypes
<1>2. Utxos \in SUBSET (1 .. MaxCoins)
  BY <1>1, PlanAssumption
<1>3. we \in Executors \cup {NoExecutor} /\ settings.fee \in FeeRates /\ settings.heirs \in HeirSets
  BY DEF PlanTypes, Settings, Wanted
<1>4. QED
  BY <1>1, <1>2, <1>3 DEF Fresh, Transactions

(* The locktime of a rebuild is not after the owner's date, nor after that *)
(* of anything valid that is not one of the new transactions itself, and   *)
(* before that of anything valid that would be mined for other heirs.      *)
LEMMA NewLocktimeComesFirst ==
  ASSUME PlanTypes, Utxos # {}, Wanted # {}, \A t \in Valid(will) : t.locktime > 0
  PROVE  /\ NewLocktime \in Nat /\ NewLocktime <= Due(settings.recipe)
         /\ \A o \in Valid(will) :
              Live(o) /\ o.heirs # settings.heirs => NewLocktime < o.locktime
         /\ \A o \in Valid(will), we \in Wanted :
              Live(o) /\ Id(will, o) # Fresh(we, Due(settings.recipe)) => NewLocktime <= o.locktime
<1> DEFINE wanted == Due(settings.recipe)
           before(o, n) == IF Anticipates(o, n) THEN o.locktime - 1 ELSE o.locktime
           new == {Fresh(we, wanted) : we \in Wanted}
           rivals == {r \in Valid(will) \X new : Share(r[1], r[2]) /\ Id(will, r[1]) # r[2]}
           dates == {wanted} \cup {before(r[1], r[2]) : r \in rivals}
<1>1. NewLocktime = Min(dates)
  BY DEF NewLocktime
<1>2. wanted \in Nat
  BY DueIsNatural
<1>3. ASSUME NEW o \in Valid(will)
      PROVE  /\ o \in DOMAIN will /\ o \in Transactions /\ o.locktime \in Nat
             /\ o.locktime - 1 \in Nat
             /\ o.coins # {}
  <2>1. o \in DOMAIN will
    BY DEF Valid
  <2>2. o \in Transactions /\ o.locktime \in Nat /\ o.locktime > 0 /\ o.coins # {}
    BY <2>1 DEF PlanTypes
  <2>3. QED
    BY <2>1, <2>2
<1>4. \A r \in rivals : before(r[1], r[2]) \in Nat
  BY <1>3
<1>5. dates \subseteq Nat /\ wanted \in dates
  BY <1>2, <1>4
<1>6. ASSUME NEW o \in Valid(will), Live(o), NEW we \in Wanted, Id(will, o) # Fresh(we, wanted)
      PROVE  before(o, Fresh(we, wanted)) \in dates
  <2> DEFINE n == Fresh(we, wanted)
  <2>1. n.coins = Utxos /\ n \in new
    BY <1>2, FreshTransaction
  <2>2. Share(o, n)
    BY <1>3, <1>6, <2>1 DEF Share, Live
  <2>3. <<o, n>> \in rivals
    BY <1>6, <2>1, <2>2
  <2> HIDE DEF n, rivals
  <2>4. PICK r \in rivals : r[1] = o /\ r[2] = n
    BY <2>3
  <2>5. QED
    BY <2>4 DEF n
<1>7. ASSUME NEW o \in Valid(will), Live(o), o.heirs # settings.heirs
      PROVE  o.locktime - 1 \in dates
  <2>1. PICK we \in Wanted : TRUE
    OBVIOUS
  <2>2. Fresh(we, wanted).heirs = settings.heirs
    BY <1>2, FreshTransaction
  <2>3. Id(will, o).heirs = o.heirs
    BY <1>3 DEF Id, Transactions
  <2>4. before(o, Fresh(we, wanted)) \in dates
    BY <1>6, <1>7, <2>2, <2>3
  <2>5. Anticipates(o, Fresh(we, wanted))
    BY <1>7, <2>2 DEF Anticipates
  <2>6. QED
    BY <2>4, <2>5
<1>8. ASSUME NEW o \in Valid(will), Live(o), NEW we \in Wanted, Id(will, o) # Fresh(we, wanted)
      PROVE  \E d \in dates : d <= o.locktime
  <2>1. before(o, Fresh(we, wanted)) \in dates
    BY <1>6, <1>8
  <2>2. o.locktime \in Nat
    BY <1>3
  <2>3. before(o, Fresh(we, wanted)) <= o.locktime
    BY <2>2
  <2> HIDE DEF before, dates
  <2>4. QED
    BY <2>1, <2>3
<1> HIDE DEF dates
<1>9. Min(dates) \in Nat /\ \A k \in dates : Min(dates) <= k
  BY <1>5, MinOfNaturals
<1>10. Min(dates) <= wanted
  BY <1>5, <1>9
<1>11. ASSUME NEW o \in Valid(will), Live(o), o.heirs # settings.heirs
       PROVE  Min(dates) < o.locktime
  <2>1. o.locktime - 1 \in dates /\ o.locktime \in Nat
    BY <1>3, <1>7, <1>11
  <2>2. Min(dates) \in Nat /\ Min(dates) <= o.locktime - 1
    BY <1>9, <2>1
  <2>3. QED
    BY <2>1, <2>2
<1>12. ASSUME NEW o \in Valid(will), Live(o), NEW we \in Wanted, Id(will, o) # Fresh(we, wanted)
       PROVE  Min(dates) <= o.locktime
  <2>1. PICK d \in dates : d <= o.locktime
    BY <1>8, <1>12
  <2>2. Min(dates) <= d /\ Min(dates) \in Nat /\ d \in Nat /\ o.locktime \in Nat
    BY <1>3, <1>5, <1>9
  <2>3. QED
    BY <2>1, <2>2
<1>13. QED
  BY <1>1, <1>9, <1>10, <1>11, <1>12

(* A rebuild adds transactions that are due before all that are valid and  *)
(* for other heirs.                                                        *)
LEMMA RebuildKeepsOrder ==
  ASSUME PlanTypes, Ordered(will), Utxos # {}, Wanted # {},
         \A t \in Valid(will) : t.locktime > 0,
         \A t, u \in Valid(will) : t.heirs = u.heirs,
         NEW w, w = NewWill
  PROVE  /\ Ordered(w) /\ SignedLast(w)
         /\ DOMAIN will \subseteq DOMAIN w /\ w \in [DOMAIN w -> Items]
         /\ \A t \in DOMAIN w :
              /\ t \in Transactions /\ t.locktime \in Nat /\ t.locktime <= w[t].born
              /\ t.coins # {} /\ t.coins \subseteq 1 .. coins
<1> DEFINE N == {Fresh(we, NewLocktime) : we \in Wanted}
<1>1. /\ NewLocktime \in Nat /\ NewLocktime <= Due(settings.recipe)
      /\ \A o \in Valid(will) : Live(o) /\ o.heirs # settings.heirs => NewLocktime < o.locktime
  BY NewLocktimeComesFirst
<1>2. ASSUME NEW n \in N
      PROVE  /\ n \in Transactions /\ n.coins = Utxos
             /\ n.locktime = NewLocktime /\ n.heirs = settings.heirs
             /\ n.coins # {} /\ n.coins \subseteq 1 .. coins
             /\ Live(n)
  BY <1>1, FreshTransaction DEF Live
<1>3. /\ DOMAIN w = N \cup DOMAIN will
      /\ \A n \in N : w[n] = NewItem(n)
      /\ \A t \in DOMAIN will : t \notin N => w[t] = will[t]
      /\ w = [t \in DOMAIN w |-> w[t]]
  BY DEF NewWill
<1> HIDE DEF N
<1>4. ASSUME NEW n \in N
      PROVE  /\ NewItem(n) \in Items /\ "VALID" \in NewItem(n).status
             /\ n.locktime <= NewItem(n).born
             /\ "COMPLETE" \in NewItem(n).status => n \in Valid(will)
  <2>1. CASE n \in Valid(will) /\ will[n].recipe = settings.recipe
    <3>1. n \in DOMAIN will /\ "VALID" \in will[n].status
      BY <2>1 DEF Valid, Has
    <3>2. NewItem(n) = will[n]
      BY <2>1 DEF NewItem
    <3>3. QED
      BY <2>1, <3>1, <3>2 DEF PlanTypes
  <2>2. CASE ~(n \in Valid(will) /\ will[n].recipe = settings.recipe)
    <3>1. NewItem(n) =
            [born |-> Due(settings.recipe), recipe |-> settings.recipe, status |-> {"VALID"}]
      BY <2>2 DEF NewItem
    <3>2. settings.recipe \in [kind : {"abs", "rel"}, days : Nat]
      BY DEF PlanTypes, Settings
    <3>3. NewItem(n) \in Items
      BY <3>1, <3>2, DueIsNatural DEF Items, Statuses
    <3>4. QED
      BY <1>1, <1>2, <3>1, <3>3
  <2>3. QED
    BY <2>1, <2>2
<1>5. \A t \in DOMAIN will :
        /\ t \in Transactions /\ t.locktime \in Nat /\ t.locktime <= will[t].born
        /\ t.coins # {} /\ t.coins \subseteq 1 .. coins
        /\ will[t] \in Items
  BY DEF PlanTypes
<1>6. \A t \in DOMAIN w :
        /\ t \in Transactions /\ t.locktime \in Nat /\ t.locktime <= w[t].born
        /\ t.coins # {} /\ t.coins \subseteq 1 .. coins
        /\ w[t] \in Items
  BY <1>1, <1>2, <1>3, <1>4, <1>5
<1>7. w \in [DOMAIN w -> Items]
  BY <1>3, <1>6
<1>8. \A t : t \in Valid(w) <=> t \in N \/ (t \in Valid(will) /\ t \notin N)
  BY <1>3, <1>4 DEF Valid, Has
<1>9. LiveShare(w)
  <2> SUFFICES ASSUME NEW t \in DOMAIN w, NEW u \in DOMAIN w, Live(t), Live(u)
               PROVE  Share(t, u)
    BY DEF LiveShare
  <2>1. t.coins # {} /\ u.coins # {} /\ t.coins \subseteq Utxos /\ u.coins \subseteq Utxos
    BY <1>6 DEF Live
  <2>2. CASE t \in N \/ u \in N
    BY <1>2, <2>1, <2>2 DEF Share
  <2>3. CASE t \notin N /\ u \notin N
    BY <1>3, <2>3 DEF Ordered, LiveShare
  <2>4. QED
    BY <2>2, <2>3
<1>10. Apart(w) /\ SignedLast(w)
  <2> SUFFICES ASSUME NEW t \in Valid(w), NEW u \in Valid(w), Live(t), Live(u), t.heirs # u.heirs
               PROVE  /\ t.locktime # u.locktime
                      /\ Has(w, u, "COMPLETE") => t.locktime < u.locktime
    BY DEF Apart, SignedLast
  <2>1. ~(t \in N /\ u \in N)
    BY <1>2
  <2>2. ~(t \notin N /\ u \notin N)
    BY <1>8
  <2>3. t.locktime \in Nat /\ u.locktime \in Nat
    BY <1>6, <1>8, <1>3 DEF Valid
  <2>4. CASE t \in N /\ u \notin N
    <3>1. u \in Valid(will) /\ u.heirs # settings.heirs
      BY <1>2, <1>8, <2>4
    <3>2. t.locktime < u.locktime
      BY <1>1, <1>2, <2>4, <3>1
    <3>3. QED
      BY <2>3, <3>2
  <2>5. CASE u \in N /\ t \notin N
    <3>1. t \in Valid(will) /\ t.heirs # settings.heirs
      BY <1>2, <1>8, <2>5
    <3>2. u.locktime < t.locktime
      BY <1>1, <1>2, <2>5, <3>1
    <3>3. ~Has(w, u, "COMPLETE")
      <4>1. u \notin Valid(will)
        BY <3>1
      <4>2. QED
        BY <1>3, <1>4, <2>5, <4>1 DEF Has
    <3>4. QED
      BY <2>3, <3>2, <3>3
  <2>6. QED
    BY <2>1, <2>2, <2>4, <2>5
<1>11. Superseded(w)
  <2> SUFFICES ASSUME gone = {}, NEW t \in DOMAIN w, Live(t), t \notin Valid(w)
               PROVE  \E q \in Valid(w) : Live(q) /\ q.locktime < t.locktime
    BY DEF Superseded
  <2>1. t \in DOMAIN will /\ t \notin Valid(will)
    BY <1>3, <1>8
  <2>2. PICK q \in Valid(will) : Live(q) /\ q.locktime < t.locktime
    BY <2>1 DEF Ordered, Superseded
  <2>3. q \in Valid(w)
    BY <1>8, <2>2
  <2>4. QED
    BY <2>2, <2>3
<1>12. QED
  BY <1>3, <1>6, <1>7, <1>9, <1>10, <1>11 DEF Ordered

-----------------------------------------------------------------------------
(* Every step.                                                             *)

Steps == {"idle", "check", "build", "recheck", "sign", "push", "invalidate", "classic"}

LEMMA ConcludeFlow ==
  ASSUME flow \in Flows, NEW pc \in Steps, NEW outcome \in Outcomes \cup {"none"},
         Conclude(pc, outcome)
  PROVE  flow' \in Flows /\ flow'.pc = pc /\ flow'.outcome = outcome
<1>1. Idle \in Flows
  BY DEF Idle, Flows, Callers
<1>2. PICK f \in Flows : flow' = [f EXCEPT !.pc = pc, !.outcome = outcome]
  BY <1>1 DEF Conclude
<1>3. QED
  BY <1>2 DEF Flows, Steps

LEMMA GotoFlow ==
  ASSUME flow \in Flows, NEW pc \in Steps, Goto(pc)
  PROVE  flow' \in Flows /\ flow'.pc = pc /\ flow'.outcome = "none"
BY ConcludeFlow DEF Goto

LEMMA FoundOutcomes ==
  FoundOut \subseteq Outcomes /\ (Expired(Invalidated(will)) => FoundOut = {"expired"})
BY DEF FoundOut, Verdicts, Outcomes

(* A check marks, and when it finds nothing due what is valid is in time   *)
(* and of one plan.                                                        *)
LEMMA CheckStep ==
  ASSUME PlanTypes, Ordered(will), will' = Checked, UNCHANGED chainVars
  PROVE  /\ Ordered(will)'
         /\ DOMAIN will' = DOMAIN will /\ will' \in [DOMAIN will -> Items]
         /\ \A t \in DOMAIN will : will'[t].born = will[t].born
         /\ Valid(will)' \subseteq DOMAIN will
         /\ Expired(will)' \/ \A t, u \in Valid(will)' : t.heirs = u.heirs
         /\ ~Expired(Invalidated(will)) =>
              /\ \A t, u \in Valid(will)' : t.heirs = u.heirs
              /\ \A t \in Valid(will)' : t.locktime > now
<1>1. Dated(will) /\ now \in Nat
  BY PlanTypesDate
<1>2. /\ Remarked(will', will) /\ Ordered(will')
      /\ \A t \in Valid(will') : t \in Valid(will) /\ Live(t)
      /\ ~Expired(Invalidated(will)) =>
           /\ \A t, u \in Valid(will') : t.heirs = u.heirs
           /\ \A t \in Valid(will') : t.locktime > now
  BY <1>1, CheckKeepsOrder
<1>3. Ordered(will)'
  BY <1>2, SameChainKeepsOrder DEF chainVars
<1>4. Valid(will)' = Valid(will')
  BY DEF Valid, Has
<1>5. Valid(will) \subseteq DOMAIN will
  BY DEF Valid
<1>6. Expired(Invalidated(will)) => Expired(will)'
  <2> SUFFICES ASSUME Expired(Invalidated(will)) PROVE Expired(will)'
    OBVIOUS
  <2>1. will' = Invalidated(will) /\ now' = now
    BY DEF Checked, chainVars
  <2>2. PICK t \in Valid(Invalidated(will)) : t.locktime <= now
    BY DEF Expired
  <2>3. t \in Valid(will)'
    BY <1>4, <2>1, <2>2
  <2>4. QED
    BY <2>1, <2>2, <2>3 DEF Expired
<1>7. QED
  BY <1>2, <1>3, <1>4, <1>5, <1>6 DEF Remarked

LEMMA CheckWillStep ==
  ASSUME PlanTypes, Ordered(will), CheckWill
  PROVE  PlanInv'
<1>1. /\ will' = Checked
      /\ UNCHANGED <<now, coins, gone, mined, held, elsewhere, settings, reasons>>
  BY DEF CheckWill, chainVars, ownerVars
<1>2. UNCHANGED chainVars
  BY <1>1 DEF chainVars
<1>3. /\ Ordered(will)'
      /\ DOMAIN will' = DOMAIN will /\ will' \in [DOMAIN will -> Items]
      /\ \A t \in DOMAIN will : will'[t].born = will[t].born
      /\ Valid(will)' \subseteq DOMAIN will
      /\ Expired(will)' \/ \A t, u \in Valid(will)' : t.heirs = u.heirs
      /\ ~Expired(Invalidated(will)) =>
           /\ \A t, u \in Valid(will)' : t.heirs = u.heirs
           /\ \A t \in Valid(will)' : t.locktime > now
  BY <1>1, <1>2, CheckStep
<1>4. PICK outcome \in FoundOut :
        Conclude(CASE outcome \in {"ok", "noheirs"} ->
                        IF flow.caller = "gui" THEN "sign" ELSE "idle"
                   [] outcome = "expired" ->
                        IF flow.caller = "auto" THEN "invalidate" ELSE "classic"
                   [] outcome = "postponed" ->
                        IF flow.invalidated THEN "idle"
                        ELSE IF flow.caller = "menu" THEN "classic" ELSE "invalidate"
                   [] OTHER -> "build", outcome)
  BY DEF CheckWill
<1> DEFINE pc == CASE outcome \in {"ok", "noheirs"} ->
                        IF flow.caller = "gui" THEN "sign" ELSE "idle"
                   [] outcome = "expired" ->
                        IF flow.caller = "auto" THEN "invalidate" ELSE "classic"
                   [] outcome = "postponed" ->
                        IF flow.invalidated THEN "idle"
                        ELSE IF flow.caller = "menu" THEN "classic" ELSE "invalidate"
                   [] OTHER -> "build"
<1>5. pc \in Steps /\ pc # "recheck" /\ (pc = "build" => outcome # "expired")
  BY DEF Steps
<1>6. Conclude(pc, outcome)
  BY <1>4
<1> HIDE DEF pc
<1>7. outcome \in Outcomes /\ (outcome # "expired" => ~Expired(Invalidated(will)))
  BY FoundOutcomes
<1>8. flow' \in Flows /\ flow'.pc = pc
  BY <1>5, <1>6, <1>7, ConcludeFlow DEF PlanTypes
<1>9. PlanTypes'
  BY <1>1, <1>3, <1>8 DEF PlanTypes
<1>10. Agreed' /\ RebuiltFirst'
  BY <1>3, <1>5, <1>7, <1>8 DEF Agreed, RebuiltFirst
<1>11. InTime'
  <2>1. \A t \in Valid(will)' : t.locktime \in Nat /\ now \in Nat
    BY <1>3, PlanTypesDate DEF PlanTypes
  <2>2. ASSUME flow'.pc = "build", NEW t \in Valid(will)'
        PROVE  t.locktime > 0
    <3>1. t.locktime > now
      BY <1>3, <1>5, <1>7, <1>8, <2>2
    <3>2. QED
      BY <2>1, <3>1
  <2>3. QED
    BY <2>2 DEF InTime
<1>12. QED
  BY <1>3, <1>9, <1>10, <1>11 DEF PlanInv

LEMMA BuildStep ==
  ASSUME PlanInv, Build
  PROVE  PlanInv'
<1>1. /\ PlanTypes /\ Ordered(will) /\ flow \in Flows
      /\ \A t, u \in Valid(will) : t.heirs = u.heirs
      /\ \A t \in Valid(will) : t.locktime > 0
  BY DEF PlanInv, Build, Agreed, InTime, PlanTypes
<1>2. UNCHANGED <<now, coins, gone, mined, held, elsewhere, settings, reasons>>
  BY DEF Build, chainVars, ownerVars
<1>3. /\ flow' \in Flows /\ flow'.pc # "build"
      /\ \/ UNCHANGED will
         \/ will' = NewWill /\ Utxos # {} /\ Wanted # {} /\ flow'.pc = "recheck"
  <2>1. CASE Goto("idle") /\ UNCHANGED will
    BY <1>1, <2>1, GotoFlow DEF Steps
  <2>2. CASE Goto(CASE flow.caller = "gui"  -> "push"
                    [] flow.caller = "menu" -> "recheck"
                    [] OTHER                -> "idle") /\ UNCHANGED will
    <3> DEFINE pc == CASE flow.caller = "gui"  -> "push"
                    [] flow.caller = "menu" -> "recheck"
                    [] OTHER                -> "idle"
    <3>1. pc \in Steps /\ pc \in {"push", "recheck", "idle"} /\ Goto(pc)
      BY <2>2 DEF Steps
    <3> HIDE DEF pc
    <3>2. QED
      BY <1>1, <2>2, <3>1, GotoFlow
  <2>3. CASE Goto("recheck") /\ will' = NewWill /\ Utxos # {} /\ Wanted # {}
    BY <1>1, <2>3, GotoFlow DEF Steps
  <2>4. QED
    BY <2>1, <2>2, <2>3 DEF Build
<1>4. InTime'
  BY <1>3 DEF InTime
<1>5. CASE UNCHANGED will
  <2>1. Ordered(will')
    BY <1>1, <1>5
  <2>2. Ordered(will)'
    BY <1>2, <2>1, SameChainKeepsOrder
  <2>3. PlanTypes'
    BY <1>1, <1>2, <1>3, <1>5 DEF PlanTypes
  <2>4. Valid(will)' = Valid(will)
    BY <1>5 DEF Valid, Has
  <2>5. Agreed'
    BY <1>1, <2>4 DEF Agreed
  <2>6. RebuiltFirst'
    BY <1>1, <2>4 DEF RebuiltFirst, SignedLast
  <2>7. QED
    BY <1>4, <2>2, <2>3, <2>5, <2>6 DEF PlanInv
<1>6. CASE will' = NewWill /\ Utxos # {} /\ Wanted # {} /\ flow'.pc = "recheck"
  <2>1. /\ Ordered(NewWill) /\ SignedLast(NewWill)
        /\ DOMAIN will \subseteq DOMAIN NewWill /\ NewWill \in [DOMAIN NewWill -> Items]
        /\ \A t \in DOMAIN NewWill :
             /\ t \in Transactions /\ t.locktime \in Nat /\ t.locktime <= NewWill[t].born
             /\ t.coins # {} /\ t.coins \subseteq 1 .. coins
    BY <1>1, <1>6, RebuildKeepsOrder
  <2>2. Ordered(will)'
    BY <1>2, <1>6, <2>1, SameChainKeepsOrder
  <2> HIDE DEF NewWill
  <2>3. PlanTypes'
    BY <1>1, <1>2, <1>3, <1>6, <2>1 DEF PlanTypes
  <2>4. Agreed'
    BY <1>6 DEF Agreed
  <2>5. RebuiltFirst'
    <3>1. SignedLast(will')
      BY <1>6, <2>1
    <3>2. \A t : Live(t)' <=> Live(t)
      BY <1>2 DEF Live, Utxos, Spent
    <3>3. SignedLast(will)'
      BY <3>1, <3>2 DEF SignedLast, Valid, Has
    <3>4. QED
      BY <3>3 DEF RebuiltFirst
  <2>6. QED
    BY <1>4, <2>2, <2>3, <2>4, <2>5 DEF PlanInv
<1>7. QED
  BY <1>3, <1>5, <1>6

(* The date that is aligned is the first of the will's.                    *)
LEMMA SyncedSettings ==
  ASSUME PlanTypes, NEW w, Valid(w) # {}, \A t \in Valid(w) : t.locktime \in Nat, SyncDate(w)
  PROVE  settings' \in Settings /\ reasons' = {}
<1> DEFINE dates == {t.locktime : t \in Valid(w)}
<1>1. dates \subseteq Nat /\ dates # {}
  OBVIOUS
<1>2. settings' = IF settings.recipe.kind = "abs" /\ Min(dates) < settings.recipe.days
                  THEN [settings EXCEPT !.recipe.days = Min(dates)] ELSE settings
  BY DEF SyncDate
<1>3. settings \in Settings /\ reasons' = {}
  BY DEF PlanTypes, SyncDate
<1> HIDE DEF dates
<1>4. Min(dates) \in Nat
  BY <1>1, MinOfNaturals
<1>5. [settings EXCEPT !.recipe.days = Min(dates)] \in Settings
  BY <1>3, <1>4 DEF Settings
<1>6. QED
  BY <1>2, <1>3, <1>5

LEMMA RecheckStep ==
  ASSUME PlanTypes, Ordered(will), Recheck
  PROVE  PlanInv'
<1>1. /\ will' = Checked
      /\ UNCHANGED <<now, coins, gone, mined, held, elsewhere>>
      /\ UNCHANGED chainVars
  BY DEF Recheck, chainVars
<1>2. /\ Ordered(will)'
      /\ DOMAIN will' = DOMAIN will /\ will' \in [DOMAIN will -> Items]
      /\ \A t \in DOMAIN will : will'[t].born = will[t].born
      /\ Valid(will)' \subseteq DOMAIN will
      /\ Expired(will)' \/ \A t, u \in Valid(will)' : t.heirs = u.heirs
  BY <1>1, CheckStep
<1>3. Valid(will') = Valid(will)'
  BY DEF Valid, Has
<1>4. /\ flow' \in Flows /\ flow'.pc \notin {"build", "recheck"}
      /\ settings' \in Settings /\ reasons' \subseteq {"edited", "menu", "auto"}
  <2> DEFINE success == {"ok", "postponed", "incomplete"}
             guiPc(outcome) == CASE outcome \in success \cup {"noexecutor"} -> "sign"
                                 [] outcome = "expired"                     -> "classic"
                                 [] OTHER                                   -> "idle"
             menuPc(outcome) == IF outcome = "expired" THEN "classic" ELSE "idle"
             autoPc(outcome) == CASE outcome \in {"expired", "postponed"} -> "invalidate"
                                  [] outcome = "noheirs"                  -> "idle"
                                  [] OTHER                                -> "sign"
  <2>1. PICK outcome \in FoundOut :
          \/ /\ Conclude(guiPc(outcome), outcome)
             /\ \/ Valid(will') # {} /\ SyncDate(will')
                \/ UNCHANGED <<settings, reasons>>
          \/ /\ Conclude(menuPc(outcome), outcome) \/ Conclude(autoPc(outcome), outcome)
             /\ reasons' = reasons \cup {flow.caller} /\ flow.caller # "gui"
             /\ UNCHANGED settings
    BY DEF Recheck
  <2>2. outcome \in Outcomes
    BY FoundOutcomes
  <2> DEFINE next == {guiPc(outcome), menuPc(outcome), autoPc(outcome)}
  <2>3. \A pc \in next : pc \in Steps /\ pc \notin {"build", "recheck"}
    BY DEF Steps
  <2>4. PICK pc \in next : Conclude(pc, outcome)
    BY <2>1
  <2> HIDE DEF guiPc, menuPc, autoPc, next
  <2>5. /\ flow \in Flows /\ settings \in Settings /\ reasons \subseteq {"edited", "menu", "auto"}
        /\ flow.caller # "gui" => flow.caller \in {"menu", "auto"}
    BY DEF PlanTypes, Flows, Callers
  <2>6. flow' \in Flows /\ flow'.pc = pc
    BY <2>2, <2>3, <2>4, <2>5, ConcludeFlow
  <2>7. settings' \in Settings /\ reasons' \subseteq {"edited", "menu", "auto"}
    <3>1. CASE Valid(will') # {} /\ SyncDate(will')
      <4>1. \A t \in Valid(Checked) : t.locktime \in Nat
        BY <1>1, <1>2, <1>3 DEF PlanTypes
      <4>2. Valid(Checked) # {} /\ SyncDate(Checked)
        BY <1>1, <3>1
      <4>3. QED
        BY <4>1, <4>2, SyncedSettings
    <3>2. QED
      BY <2>1, <2>5, <3>1
  <2>8. QED
    BY <2>2, <2>3, <2>6, <2>7
<1>5. PlanTypes'
  BY <1>1, <1>2, <1>4 DEF PlanTypes
<1>6. Agreed' /\ InTime' /\ RebuiltFirst'
  BY <1>2, <1>4 DEF Agreed, InTime, RebuiltFirst
<1>7. QED
  BY <1>2, <1>5, <1>6 DEF PlanInv

LEMMA SameMarksKeepOrder ==
  ASSUME Ordered(will), UNCHANGED <<coins, gone, mined>>,
         DOMAIN will' = DOMAIN will, Valid(will)' = Valid(will)
  PROVE  Ordered(will)'
<1>1. \A t : Live(t)' <=> Live(t)
  BY DEF Live, Utxos, Spent
<1>2. LiveShare(will)'
  BY <1>1 DEF Ordered, LiveShare, Share
<1>3. Apart(will)'
  BY <1>1 DEF Ordered, Apart
<1>4. Superseded(will)'
  BY <1>1 DEF Ordered, Superseded
<1>5. QED
  BY <1>2, <1>3, <1>4 DEF Ordered

(* What neither builds nor revives leaves one plan one.                    *)
LEMMA SteadyKeepsAgreed ==
  ASSUME PlanInv, Valid(will)' = Valid(will), now' \in Nat, now <= now',
         flow.pc # "recheck", flow'.pc \notin {"build", "recheck"}
  PROVE  Agreed' /\ InTime' /\ RebuiltFirst'
<1>1. PlanTypes /\ Agreed
  BY DEF PlanInv
<1>2. now \in Nat /\ \A t \in Valid(will) : t.locktime \in Nat
  BY <1>1, PlanTypesDate DEF PlanTypes, Valid
<1>3. Expired(will) => Expired(will)'
  BY <1>2 DEF Expired
<1>4. Agreed'
  BY <1>1, <1>3 DEF Agreed
<1>5. QED
  BY <1>4 DEF InTime, RebuiltFirst

(* Signing and sending leave valid what is.                                *)
LEMMA MarkedItems ==
  ASSUME PlanTypes, NEW chosen, NEW flag \in {"COMPLETE", "PUSHED"},
         will' = Marked(chosen, flag)
  PROVE  /\ DOMAIN will' = DOMAIN will /\ will' \in [DOMAIN will -> Items]
         /\ \A t \in DOMAIN will : will'[t].born = will[t].born
         /\ Valid(will)' = Valid(will)
<1>1. /\ DOMAIN will' = DOMAIN will /\ will' = [t \in DOMAIN will |-> will'[t]]
      /\ \A t \in DOMAIN will :
           will'[t] = IF t \in chosen THEN SetStatus(will[t], flag) ELSE will[t]
  BY DEF Marked
<1>2. ASSUME NEW t \in DOMAIN will
      PROVE  /\ will'[t] \in Items /\ will'[t].born = will[t].born
             /\ "VALID" \in will'[t].status <=> "VALID" \in will[t].status
  <2>1. will[t] \in Items
    BY DEF PlanTypes
  <2>2. CASE t \in chosen
    BY <1>1, <2>1, <2>2, SetStatusMarks
  <2>3. CASE t \notin chosen
    BY <1>1, <2>1, <2>3
  <2>4. QED
    BY <2>2, <2>3
<1>3. Valid(will)' = Valid(will)
  BY <1>1, <1>2 DEF Valid, Has
<1>4. QED
  BY <1>1, <1>2, <1>3

LEMMA MarkStep ==
  ASSUME PlanInv, NEW chosen, NEW flag \in {"COMPLETE", "PUSHED"},
         will' = Marked(chosen, flag),
         UNCHANGED <<now, coins, gone, mined, settings, reasons>>, held' \subseteq DOMAIN will,
         flow.pc # "recheck", flow' \in Flows, flow'.pc \notin {"build", "recheck"}
  PROVE  PlanInv'
<1>1. PlanTypes /\ Ordered(will) /\ now \in Nat
  BY PlanTypesDate DEF PlanInv
<1>2. /\ DOMAIN will' = DOMAIN will /\ will' \in [DOMAIN will -> Items]
      /\ \A t \in DOMAIN will : will'[t].born = will[t].born
      /\ Valid(will)' = Valid(will)
  BY <1>1, MarkedItems
<1>3. Ordered(will)'
  BY <1>1, <1>2, SameMarksKeepOrder
<1>4. PlanTypes'
  BY <1>1, <1>2 DEF PlanTypes
<1>5. Agreed' /\ InTime' /\ RebuiltFirst'
  BY <1>1, <1>2, SteadyKeepsAgreed
<1>6. QED
  BY <1>3, <1>4, <1>5 DEF PlanInv

LEMMA SignStep ==
  ASSUME PlanInv, Sign \/ SignFromMenu
  PROVE  PlanInv'
<1>1. PlanTypes /\ flow \in Flows /\ held \subseteq DOMAIN will
  BY DEF PlanInv, PlanTypes
<1>2. /\ UNCHANGED <<now, coins, gone, mined, held, settings, reasons>>
      /\ flow.pc # "recheck"
      /\ Goto("push") \/ (UNCHANGED flow /\ flow.pc = "idle")
      /\ UNCHANGED will \/ \E chosen : will' = Marked(chosen, "COMPLETE")
  BY DEF Sign, SignFromMenu, UseMenu, chainVars, ownerVars
<1>3. flow' \in Flows /\ flow'.pc \notin {"build", "recheck"}
  BY <1>1, <1>2, GotoFlow DEF Steps
<1>4. CASE UNCHANGED will
  <2>1. will' = Marked({}, "COMPLETE")
    BY <1>1, <1>4 DEF Marked, PlanTypes
  <2>2. QED
    BY <1>1, <1>2, <1>3, <2>1, MarkStep
<1>5. QED
  BY <1>1, <1>2, <1>3, <1>4, MarkStep

LEMMA PushStep ==
  ASSUME PlanInv, Push \/ BroadcastFromMenu
  PROVE  PlanInv'
<1>1. PlanTypes /\ flow \in Flows /\ held \subseteq DOMAIN will
  BY DEF PlanInv, PlanTypes
<1>2. /\ \E sent \in SUBSET Valid(will) : Send(sent)
      /\ flow.pc # "recheck"
      /\ Goto("idle") \/ (UNCHANGED flow /\ flow.pc = "idle")
  BY DEF Push, BroadcastFromMenu, UseMenu, ToBePushed
<1>3. PICK arrived \in SUBSET Valid(will) :
        /\ held' = held \cup arrived
        /\ \E confirmed \in SUBSET arrived : will' = Marked(confirmed, "PUSHED")
        /\ UNCHANGED <<now, coins, gone, mined, settings, reasons>>
  BY <1>2 DEF Send, ownerVars
<1>4. held' \subseteq DOMAIN will
  BY <1>1, <1>3 DEF Valid
<1>5. flow' \in Flows /\ flow'.pc \notin {"build", "recheck"}
  BY <1>1, <1>2, GotoFlow DEF Steps
<1>6. QED
  BY <1>2, <1>3, <1>4, <1>5, MarkStep

LEMMA ReloadStep ==
  ASSUME PlanInv, Reload
  PROVE  PlanInv'
<1>1. /\ will' = [t \in DOMAIN will |-> [will[t] EXCEPT !.born = t.locktime]]
      /\ flow.pc = "idle"
      /\ UNCHANGED <<now, coins, gone, mined, held, settings, flow, reasons>>
      /\ PlanTypes /\ Ordered(will) /\ flow \in Flows
  BY DEF Reload, chainVars, ownerVars, PlanInv, PlanTypes
<1>2. ASSUME NEW t \in DOMAIN will
      PROVE  /\ will'[t] \in Items /\ will'[t].born = t.locktime
             /\ will'[t].status = will[t].status
  <2>1. will[t] \in Items /\ t.locktime \in Nat
    BY <1>1 DEF PlanTypes
  <2>2. QED
    BY <1>1, <2>1 DEF Items
<1>3. DOMAIN will' = DOMAIN will /\ will' = [t \in DOMAIN will |-> will'[t]]
  BY <1>1
<1>4. Valid(will)' = Valid(will)
  BY <1>2, <1>3 DEF Valid, Has
<1>5. Ordered(will)'
  BY <1>1, <1>3, <1>4, SameMarksKeepOrder
<1>6. PlanTypes'
  BY <1>1, <1>2, <1>3 DEF PlanTypes
<1>7. Agreed' /\ InTime' /\ RebuiltFirst'
  <2>1. now \in Nat /\ now <= now'
    BY <1>1, PlanTypesDate
  <2>2. QED
    BY <1>1, <1>4, <2>1, SteadyKeepsAgreed
<1>8. QED
  BY <1>5, <1>6, <1>7 DEF PlanInv

LEMMA ChainKeepsTypes ==
  ASSUME PlanTypes, UNCHANGED <<will, held, settings>>,
         flow' \in Flows, reasons' \subseteq {"edited", "menu", "auto"},
         now' \in 0 .. MaxDay, coins' \in coins .. MaxCoins, gone' \subseteq 1 .. coins',
         mined' \subseteq DOMAIN will
  PROVE  PlanTypes'
<1>1. coins \in Nat /\ coins >= 1 /\ MaxCoins \in Nat
  BY PlanAssumption DEF PlanTypes
<1>2. coins' \in 1 .. MaxCoins /\ \A c : c \in 1 .. coins => c \in 1 .. coins'
  BY <1>1
<1>3. QED
  BY <1>2 DEF PlanTypes

LEMMA InvalidationStep ==
  ASSUME PlanInv, NEW confirmed \in BOOLEAN, Invalidate(confirmed),
         UNCHANGED <<settings, will, reasons>>, flow.pc # "recheck",
         flow' \in Flows, flow'.pc \in {"idle", "check"}
  PROVE  PlanInv'
<1> USE DEF PlanInv
<1>1. /\ Ordered(will)'
      /\ UNCHANGED <<now, mined, held>>
      /\ coins' \in coins .. MaxCoins /\ gone' \subseteq 1 .. coins'
  BY InvalidationKeepsOrder
<1>2. /\ now \in 0 .. MaxDay /\ mined \subseteq DOMAIN will
      /\ reasons \subseteq {"edited", "menu", "auto"}
  BY DEF PlanTypes
<1>3. PlanTypes'
  BY <1>1, <1>2, ChainKeepsTypes
<1>4. Valid(will)' = Valid(will)
  BY DEF Valid, Has
<1>5. now' = now /\ now \in Nat
  BY <1>1, PlanTypesDate
<1>6. Agreed' /\ InTime' /\ RebuiltFirst'
  BY <1>4, <1>5, SteadyKeepsAgreed
<1>7. QED
  BY <1>1, <1>3, <1>6

LEMMA InvalidateStep ==
  ASSUME PlanInv, InvalidateWill \/ InvalidateClassic \/ InvalidateFromMenu
  PROVE  PlanInv'
<1>1. /\ UNCHANGED <<settings, will, reasons>> /\ flow \in Flows
      /\ flow.pc # "recheck"
  BY DEF InvalidateWill, InvalidateClassic, InvalidateFromMenu, UseMenu, ownerVars, PlanInv,
         PlanTypes
<1>2. /\ \E confirmed \in BOOLEAN : Invalidate(confirmed)
      /\ \/ UNCHANGED flow /\ flow.pc = "idle"
         \/ Goto("idle")
         \/ flow' = [flow EXCEPT !.pc = "check", !.outcome = "none", !.invalidated = TRUE]
  BY DEF InvalidateWill, InvalidateClassic, InvalidateFromMenu, UseMenu
<1>3. flow' \in Flows /\ flow'.pc \in {"idle", "check"}
  <2>1. CASE Goto("idle")
    BY <1>1, <2>1, GotoFlow DEF Steps
  <2>2. CASE flow' = [flow EXCEPT !.pc = "check", !.outcome = "none", !.invalidated = TRUE]
    BY <1>1, <2>2 DEF Flows
  <2>3. CASE UNCHANGED flow /\ flow.pc = "idle"
    BY <1>1, <2>3
  <2>4. QED
    BY <1>2, <2>1, <2>2, <2>3
<1>4. QED
  BY <1>1, <1>2, <1>3, InvalidationStep

LEMMA WorldStep ==
  ASSUME PlanInv, World
  PROVE  PlanInv'
<1>1. /\ UNCHANGED <<settings, will, flow, reasons>> /\ PlanTypes /\ Ordered(will)
      /\ Day \/ Receive \/ SpendElsewhere \/ Execute
  BY DEF World, ownerVars, PlanInv
<1>2. Ordered(will)'
  BY <1>1, WorldKeepsOrder
<1>3. /\ coins \in 1 .. MaxCoins /\ now \in 0 .. MaxDay /\ gone \subseteq 1 .. coins
      /\ flow \in Flows /\ reasons \subseteq {"edited", "menu", "auto"}
      /\ mined \subseteq DOMAIN will
  BY <1>1 DEF PlanTypes
<1>4. MaxDay \in Nat /\ MaxCoins \in Nat /\ coins \in coins .. MaxCoins
  BY <1>3, PlanAssumption
<1>5. PlanTypes'
  <2>1. CASE Day
    <3>1. now' \in 0 .. MaxDay
      BY <1>3, <1>4, <2>1 DEF Day
    <3>2. UNCHANGED <<coins, gone, mined, held>>
      BY <2>1 DEF Day
    <3>3. QED
      BY <1>1, <1>3, <1>4, <3>1, <3>2, ChainKeepsTypes
  <2>2. CASE Receive
    <3>1. coins' \in coins .. MaxCoins /\ \A c : c \in 1 .. coins => c \in 1 .. coins'
      BY <1>3, <1>4, <2>2 DEF Receive
    <3>2. gone' \subseteq 1 .. coins'
      BY <1>3, <2>2, <3>1 DEF Receive
    <3>3. UNCHANGED <<now, mined, held>>
      BY <2>2 DEF Receive
    <3>4. QED
      BY <1>1, <1>3, <3>1, <3>2, <3>3, ChainKeepsTypes
  <2>3. CASE SpendElsewhere
    <3>1. gone' \subseteq 1 .. coins' /\ UNCHANGED <<now, coins, mined, held>>
      BY <1>3, <2>3 DEF SpendElsewhere, Utxos
    <3>2. QED
      BY <1>1, <1>3, <1>4, <3>1, ChainKeepsTypes
  <2>4. CASE Execute
    <3>1. mined' \subseteq DOMAIN will
      BY <1>1, <2>4, ExecutionEndsAll
    <3>2. UNCHANGED <<now, coins, gone, held>>
      BY <2>4 DEF Execute
    <3>3. QED
      BY <1>1, <1>3, <1>4, <3>1, <3>2, ChainKeepsTypes
  <2>5. QED
    BY <1>1, <2>1, <2>2, <2>3, <2>4
<1>6. /\ Valid(will)' = Valid(will)
      /\ \A t \in DOMAIN will : Has(will, t, "COMPLETE")' <=> Has(will, t, "COMPLETE")
  BY <1>1 DEF Valid, Has
<1>7. now' \in Nat /\ now <= now' /\ \A t \in Valid(will) : Live(t)' => Live(t)
  BY <1>1, NothingRevives
<1>8. InTime'
  BY <1>1, <1>6 DEF PlanInv, InTime
<1>9. CASE flow.pc \notin {"build", "recheck"}
  <2>1. Agreed' /\ RebuiltFirst'
    BY <1>1, <1>6, <1>7, <1>9, SteadyKeepsAgreed
  <2>2. QED
    BY <1>2, <1>5, <1>8, <2>1 DEF PlanInv
<1>10. CASE flow.pc \in {"build", "recheck"}
  <2>1. Agreed'
    BY <1>1, <1>6, <1>10 DEF PlanInv, Agreed
  <2>2. Valid(will) \subseteq DOMAIN will
    BY DEF Valid
  <2>3. RebuiltFirst'
    BY <1>1, <1>6, <1>7, <2>2 DEF PlanInv, RebuiltFirst, SignedLast
  <2>4. QED
    BY <1>2, <1>5, <1>8, <2>1, <2>3 DEF PlanInv
<1>11. QED
  BY <1>9, <1>10

LEMMA EditStep ==
  ASSUME PlanInv, EditHeirs \/ EditDate \/ EditFees \/ SelectExecutors
  PROVE  PlanInv'
<1>1. /\ settings \in Settings /\ reasons \subseteq {"edited", "menu", "auto"}
      /\ PlanTypes /\ Ordered(will) /\ now \in Nat
  BY PlanTypesDate DEF PlanInv, PlanTypes
<1>2. PICK new \in Settings : Edit(new) /\ reasons' \subseteq {"edited", "menu", "auto"}
  <2>1. CASE EditHeirs
    <3>1. PICK heirs \in HeirSets : Edit([settings EXCEPT !.heirs = heirs]) /\ UNCHANGED reasons
      BY <2>1 DEF EditHeirs
    <3>2. [settings EXCEPT !.heirs = heirs] \in Settings
      BY <1>1 DEF Settings
    <3>3. QED
      BY <1>1, <3>1, <3>2
  <2>2. CASE EditDate
    <3>1. PICK recipe \in Recipes :
            Edit([settings EXCEPT !.recipe = recipe]) /\ reasons' = reasons \cup {"edited"}
      BY <2>2 DEF EditDate
    <3>2. recipe \in [kind : {"abs", "rel"}, days : Nat]
      BY PlanAssumption
    <3>3. [settings EXCEPT !.recipe = recipe] \in Settings
      BY <1>1, <3>2 DEF Settings
    <3>4. QED
      BY <1>1, <3>1, <3>3
  <2>3. CASE EditFees
    <3>1. PICK fee \in FeeRates : Edit([settings EXCEPT !.fee = fee]) /\ UNCHANGED reasons
      BY <2>3 DEF EditFees
    <3>2. [settings EXCEPT !.fee = fee] \in Settings
      BY <1>1 DEF Settings
    <3>3. QED
      BY <1>1, <3>1, <3>2
  <2>4. CASE SelectExecutors
    <3>1. PICK executors \in SUBSET Executors, backup \in BOOLEAN :
            /\ Edit([settings EXCEPT !.executors = executors, !.backup = backup])
            /\ UNCHANGED reasons
      BY <2>4 DEF SelectExecutors
    <3>2. [settings EXCEPT !.executors = executors, !.backup = backup] \in Settings
      BY <1>1 DEF Settings
    <3>3. QED
      BY <1>1, <3>1, <3>2
  <2>5. QED
    BY <2>1, <2>2, <2>3, <2>4
<1>3. /\ settings' = new /\ flow.pc = "idle"
      /\ UNCHANGED <<now, coins, gone, mined, held, will, flow>>
  BY <1>2 DEF Edit, chainVars
<1>4. Ordered(will')
  BY <1>1, <1>3
<1>5. Ordered(will)' /\ Valid(will)' = Valid(will)
  BY <1>3, <1>4, SameChainKeepsOrder DEF Valid, Has
<1>6. PlanTypes'
  BY <1>1, <1>2, <1>3 DEF PlanTypes
<1>7. Agreed' /\ InTime' /\ RebuiltFirst'
  BY <1>1, <1>3, <1>5, SteadyKeepsAgreed
<1>8. QED
  BY <1>5, <1>6, <1>7 DEF PlanInv

LEMMA BeginStep ==
  ASSUME PlanInv, NEW caller \in Callers, Begin(caller)
  PROVE  PlanInv'
<1>1. /\ flow' = [pc |-> "check", caller |-> caller, outcome |-> "none", invalidated |-> FALSE]
      /\ UNCHANGED <<now, coins, gone, mined, held, settings, will, reasons>>
      /\ flow.pc = "idle" /\ PlanTypes /\ Ordered(will) /\ now \in Nat
  BY PlanTypesDate DEF Begin, chainVars, ownerVars, PlanInv
<1>2. flow' \in Flows /\ flow'.pc = "check"
  BY <1>1 DEF Flows
<1>3. Ordered(will')
  BY <1>1
<1>4. Ordered(will)' /\ Valid(will)' = Valid(will)
  BY <1>1, <1>3, SameChainKeepsOrder DEF Valid, Has
<1>5. PlanTypes'
  BY <1>1, <1>2 DEF PlanTypes
<1>6. Agreed' /\ InTime' /\ RebuiltFirst'
  BY <1>1, <1>2, <1>4, SteadyKeepsAgreed
<1>7. QED
  BY <1>4, <1>5, <1>6 DEF PlanInv

LEMMA PlanInvInit == Init => PlanInv
<1> SUFFICES ASSUME Init PROVE PlanInv
  OBVIOUS
<1>1. /\ now = 0 /\ coins = 1 /\ gone = {} /\ mined = {} /\ held = {} /\ flow = Idle
      /\ reasons = {} /\ DOMAIN will = {} /\ will \in [DOMAIN will -> Items]
  <2>1. will = <<>>
    BY DEF Init
  <2>2. DOMAIN will = {} /\ will \in [{} -> Items]
    BY <2>1
  <2>3. QED
    BY <2>2 DEF Init
<1>2. settings \in Settings
  <2>1. settings \in [heirs : HeirSets, recipe : {r \in Recipes : Due(r) > 0},
                      fee : FeeRates, executors : {Executors}, backup : {FALSE}]
    BY DEF Init
  <2>2. {r \in Recipes : Due(r) > 0} \subseteq [kind : {"abs", "rel"}, days : Nat]
    BY PlanAssumption
  <2>3. QED
    BY <2>1, <2>2 DEF Settings
<1>3. flow \in Flows
  BY <1>1 DEF Idle, Flows, Callers
<1>4. 0 \in 0 .. MaxDay
  BY PlanAssumption
<1>5. coins \in 1 .. MaxCoins
  BY <1>1, PlanAssumption
<1>6. PlanTypes
  BY <1>1, <1>2, <1>3, <1>4, <1>5 DEF PlanTypes
<1>7. Agreed /\ InTime /\ RebuiltFirst
  BY <1>1 DEF Agreed, InTime, RebuiltFirst, Idle, Valid
<1>8. Ordered(will)
  BY <1>1 DEF Ordered, LiveShare, Apart, Superseded, Valid
<1>9. QED
  BY <1>6, <1>7, <1>8 DEF PlanInv

LEMMA PlanInvNext == PlanInv /\ [Next]_vars => PlanInv'
<1> SUFFICES ASSUME PlanInv, [Next]_vars
             PROVE  PlanInv'
  OBVIOUS
<1>1. PlanTypes /\ Ordered(will)
  BY DEF PlanInv
<1>2. ASSUME NEW caller \in Callers, Begin(caller)
      PROVE  PlanInv'
  BY <1>2, BeginStep
<1>3. CASE CheckWill
  BY <1>1, <1>3, CheckWillStep
<1>4. CASE Build
  BY <1>4, BuildStep
<1>5. CASE Recheck
  BY <1>1, <1>5, RecheckStep
<1>6. CASE Sign \/ SignFromMenu
  BY <1>6, SignStep
<1>7. CASE Push \/ BroadcastFromMenu
  BY <1>7, PushStep
<1>8. CASE InvalidateWill \/ InvalidateClassic \/ InvalidateFromMenu
  BY <1>8, InvalidateStep
<1>9. CASE EditHeirs \/ EditDate \/ EditFees \/ SelectExecutors
  BY <1>9, EditStep
<1>10. CASE Reload
  BY <1>10, ReloadStep
<1>11. CASE World
  BY <1>11, WorldStep
<1>12. CASE UNCHANGED vars
  <2>1. UNCHANGED <<now, coins, gone, mined, held, settings, will, flow, reasons>>
    BY <1>12 DEF vars, chainVars, ownerVars
  <2>2. Ordered(will')
    BY <1>1, <2>1
  <2>3. Ordered(will)'
    BY <2>1, <2>2, SameChainKeepsOrder
  <2>4. PlanTypes'
    BY <1>1, <2>1 DEF PlanTypes
  <2>5. Valid(will)' = Valid(will)
    BY <2>1 DEF Valid, Has
  <2>6. Agreed' /\ InTime'
    BY <2>1, <2>5 DEF PlanInv, Agreed, InTime, Expired
  <2>7. SignedLast(will)' <=> SignedLast(will)
    BY <2>1, <2>5 DEF SignedLast, Live, Utxos, Spent, Has
  <2>8. RebuiltFirst'
    BY <2>1, <2>7 DEF PlanInv, RebuiltFirst
  <2>9. QED
    BY <2>3, <2>4, <2>6, <2>8 DEF PlanInv
<1>13. QED
  BY <1>2, <1>3, <1>4, <1>5, <1>6, <1>7, <1>8, <1>9, <1>10, <1>11, <1>12
     DEF Next, FlowStep, Menu, Owner

LEMMA PlanInvAlways == Spec => []PlanInv
BY PlanInvInit, PlanInvNext, PTL DEF Spec

-----------------------------------------------------------------------------
(* Earlier plans.                                                          *)

LEMMA PlanInvTypes == PlanInv => PlanTypeOK
<1> SUFFICES ASSUME PlanInv PROVE PlanTypeOK
  OBVIOUS
<1>1. PlanTypes
  BY DEF PlanInv
<1>2. /\ settings.heirs \in HeirSets /\ settings.fee \in FeeRates
      /\ settings.executors \subseteq Executors
  BY <1>1 DEF PlanTypes, Settings
<1>3. flow.outcome \in Outcomes \cup {"none"}
  BY <1>1 DEF PlanTypes, Flows
<1>4. ASSUME NEW t \in DOMAIN will
      PROVE  will[t].status \subseteq Statuses /\ will[t].born >= t.locktime
  <2>1. will[t] \in Items /\ t.locktime \in Nat /\ t.locktime <= will[t].born
    BY <1>1 DEF PlanTypes
  <2>2. QED
    BY <2>1 DEF Items
<1>5. QED
  BY <1>1, <1>2, <1>3, <1>4 DEF PlanTypes, PlanTypeOK

(* What is signed and valid is of one plan, and whatever was put aside     *)
(* comes after something of it.                                            *)
LEMMA PlanInvOrder == PlanInv => OldPlanNeverFirst
<1> SUFFICES ASSUME PlanInv, gone = {}, Expired(will) => OnePlan,
                    \A p \in Valid(will) : Has(will, p, "COMPLETE"),
                    NEW t \in Usable, NEW p \in Valid(will),
                    Live(t), Live(p), Share(t, p), t.heirs # p.heirs
             PROVE  \E q \in Valid(will) :
                      Share(t, q) /\ q.heirs = p.heirs /\ q.locktime < t.locktime
  BY DEF OldPlanNeverFirst
<1>1. PlanTypes /\ Agreed /\ RebuiltFirst /\ Superseded(will) /\ LiveShare(will)
  BY DEF PlanInv, Ordered
<1>2. t \in DOMAIN will /\ Valid(will) \subseteq DOMAIN will
  BY <1>1 DEF Usable, Valid, PlanTypes
<1>3. ASSUME NEW u \in Valid(will), NEW v \in Valid(will), Live(u), Live(v), u.heirs # v.heirs
      PROVE  FALSE
  <2>1. flow.pc = "recheck"
    BY <1>1, <1>3 DEF Agreed, OnePlan
  <2>2. u.locktime < v.locktime /\ v.locktime < u.locktime
    BY <1>1, <1>3, <2>1 DEF RebuiltFirst, SignedLast
  <2>3. u.locktime \in Nat /\ v.locktime \in Nat
    BY <1>1, <1>2 DEF PlanTypes
  <2>4. QED
    BY <2>2, <2>3
<1>4. t \notin Valid(will)
  BY <1>3
<1>5. PICK q \in Valid(will) : Live(q) /\ q.locktime < t.locktime
  BY <1>1, <1>2, <1>4 DEF Superseded
<1>6. q.heirs = p.heirs
  BY <1>3, <1>5
<1>7. Share(t, q)
  BY <1>1, <1>2, <1>5 DEF LiveShare
<1>8. QED
  BY <1>5, <1>6, <1>7

(* Once the will is signed, and as long as the owner spent no coin of his, *)
(* no transaction of an earlier plan, with an executor or with the heirs,  *)
(* is the first that can be mined.                                         *)
THEOREM EarlierPlansComeLater == Spec => []PlanInOrder
<1>1. PlanInv => PlanInOrder
  BY PlanInvTypes, PlanInvOrder DEF PlanInOrder
<1>2. QED
  BY <1>1, PlanInvAlways, PTL

-----------------------------------------------------------------------------
(* The verdict.                                                            *)

LEMMA OkVerdict ==
  ASSUME "ok" \in Verdicts(Checked)
  PROVE  /\ \A t \in Valid(Checked) : t.heirs \subseteq settings.heirs
         /\ HeirsFound(Checked) = settings.heirs
<1> DEFINE first == (IF Valid(Checked) = {} \/ \E t \in Valid(Checked) : Changed(Checked, t)
                     THEN {"incomplete"} ELSE {})
                    \cup (IF \E t \in Valid(Checked) : Postponed(Checked, t)
                          THEN {"postponed"} ELSE {})
<1>1. "ok" \notin first
  OBVIOUS
<1>2. first = {} /\ HeirsFound(Checked) = settings.heirs
  BY <1>1 DEF Verdicts
<1>3. \A t \in Valid(Checked) : ~Changed(Checked, t)
  BY <1>2
<1>4. QED
  BY <1>2, <1>3 DEF Changed

LEMMA OkPaysHeirs ==
  ASSUME PlanInv, "ok" \in FoundOut
  PROVE  \A t \in Valid(Checked) : t.heirs = settings.heirs
<1>1. PlanTypes /\ Ordered(will)
  BY DEF PlanInv
<1>2. ~Expired(Invalidated(will)) /\ "ok" \in Verdicts(Checked)
  BY DEF FoundOut
<1>3. Dated(will) /\ now \in Nat
  BY <1>1, PlanTypesDate
<1>4. \A t, u \in Valid(Checked) : t.heirs = u.heirs
  BY <1>1, <1>2, <1>3, CheckKeepsOrder
<1>5. /\ \A t \in Valid(Checked) : t.heirs \subseteq settings.heirs
      /\ HeirsFound(Checked) = settings.heirs
  BY <1>2, OkVerdict
<1>6. ASSUME NEW t \in Valid(Checked), NEW h \in settings.heirs
      PROVE  h \in t.heirs
  <2>1. PICK u \in Valid(Checked) : h \in u.heirs
    BY <1>5, <1>6 DEF HeirsFound
  <2>2. QED
    BY <1>4, <2>1
<1>7. QED
  BY <1>5, <1>6

(* The heirs a valid will pays are those the owner chose, also when        *)
(* transactions of earlier plans are still in the will.                    *)
THEOREM OkPaysChosenHeirs == Spec => OkMeansHeirsPaid
<1> DEFINE Paid == flow'.outcome = "ok" /\ flow.outcome # "ok" =>
                     \A t \in Valid(will') : t.heirs = settings.heirs
<1>1. PlanInv /\ [Next]_vars => [Paid]_vars
  <2> SUFFICES ASSUME PlanInv, Next, flow'.outcome = "ok", flow.outcome # "ok"
               PROVE  \A t \in Valid(will') : t.heirs = settings.heirs
    OBVIOUS
  <2>1. flow \in Flows
    BY DEF PlanInv, PlanTypes
  <2>2. CASE CheckWill \/ Recheck
    <3>1. will' = Checked
      BY <2>2 DEF CheckWill, Recheck
    <3>2. ASSUME NEW pc, NEW outcome, Conclude(pc, outcome)
          PROVE  outcome = "ok"
      BY <2>1, <3>2 DEF Conclude, Idle, Flows
    <3>3. CheckWill => "ok" \in FoundOut
      BY <3>2 DEF CheckWill
    <3>4. Recheck => "ok" \in FoundOut
      BY <3>2 DEF Recheck
    <3>5. "ok" \in FoundOut
      BY <2>2, <3>3, <3>4
    <3>6. QED
      BY <3>1, <3>5, OkPaysHeirs
  <2>3. CASE ~(CheckWill \/ Recheck)
    <3>1. ASSUME NEW pc, Goto(pc)
          PROVE  flow'.outcome = "none"
      BY <2>1, <3>1 DEF Goto, Conclude, Idle, Flows
    <3>2. CASE \E caller \in Callers : Begin(caller)
      BY <3>2 DEF Begin
    <3>3. CASE Build \/ Sign \/ Push
      BY <3>1, <3>3 DEF Build, Sign, Push
    <3>4. CASE InvalidateWill \/ InvalidateClassic
      <4>1. \/ Goto("idle")
            \/ flow' = [flow EXCEPT !.pc = "check", !.outcome = "none", !.invalidated = TRUE]
        BY <3>4 DEF InvalidateWill, InvalidateClassic
      <4>2. QED
        BY <2>1, <3>1, <4>1 DEF Flows
    <3>5. CASE Menu \/ Owner \/ World
      BY <3>5 DEF Menu, SignFromMenu, BroadcastFromMenu, InvalidateFromMenu, UseMenu,
                  Owner, EditHeirs, EditDate, EditFees, SelectExecutors, Edit, Reload, World
    <3>6. QED
      BY <2>3, <3>2, <3>3, <3>4, <3>5 DEF Next, FlowStep
  <2>4. QED
    BY <2>2, <2>3
<1>2. QED
  BY <1>1, PlanInvAlways, PTL DEF Spec, OkMeansHeirsPaid

-----------------------------------------------------------------------------
(* Postponed wills.                                                        *)

(* What is valid and due before the stored date.                           *)
Ahead == {t \in Valid(will) : Live(t) /\ t.locktime < settings.recipe.days}

(* Something that is due keeps the check from looking at the dates, and is *)
(* there as long as what is ahead.                                         *)
Overdue ==
  \E o \in Valid(will) :
    Live(o) /\ o.locktime <= now /\ \A t \in Ahead : o.coins \subseteq t.coins

(* What is ahead was just built, for everyone it is wanted for, and gives  *)
(* way to nothing.                                                         *)
JustBuilt ==
  /\ \A we \in Wanted : Ahead # {} => \E t \in Ahead : t.we = we
  /\ \A t \in Ahead, u \in Ahead : t.coins = u.coins
  /\ \A t \in Ahead, u \in Valid(will) :
       Live(u) => u.coins \subseteq t.coins /\ (t.locktime <= u.locktime \/ Id(will, u) = Id(will, t))

(* Between two edits of the date, and without a Prepare or an automatic    *)
(* rebuild, nothing is ahead of a fixed date, except between a rebuild and *)
(* its check.                                                              *)
Aligned ==
  reasons = {} /\ settings.recipe.kind = "abs" =>
    \/ Ahead = {}
    \/ Overdue /\ flow.pc # "build"
    \/ JustBuilt /\ flow.pc = "recheck"

(* A check has no outcome before it is made.                               *)
NoOutcomeYet == flow.pc = "check" => flow.outcome = "none"

MovedInv == PlanInv /\ Aligned /\ NoOutcomeYet

(* What leaves marks and date alone, and revives nothing.                  *)
LEMMA SteadyKeepsAligned ==
  ASSUME PlanTypes, Aligned, Valid(will)' = Valid(will),
         settings'.recipe = settings.recipe, UNCHANGED reasons,
         now' \in Nat, now <= now', \A t \in Valid(will) : Live(t)' => Live(t),
         flow'.pc # "build" \/ flow'.pc = flow.pc,
         flow.pc = "recheck" => UNCHANGED <<settings, will, flow>>
  PROVE  Aligned'
<1> SUFFICES ASSUME reasons = {}, settings.recipe.kind = "abs"
             PROVE  \/ Ahead' = {}
                    \/ Overdue' /\ flow'.pc # "build"
                    \/ JustBuilt' /\ flow'.pc = "recheck"
  BY DEF Aligned
<1>1. Ahead' = {t \in Ahead : Live(t)'}
  BY DEF Ahead
<1>2. CASE Ahead = {}
  BY <1>1, <1>2
<1>3. CASE Overdue /\ flow.pc # "build"
  <2>1. PICK o \in Valid(will) :
          Live(o) /\ o.locktime <= now /\ \A t \in Ahead : o.coins \subseteq t.coins
    BY <1>3 DEF Overdue
  <2>2. o.locktime \in Nat /\ now \in Nat
    BY PlanTypesDate DEF PlanTypes, Valid
  <2>3. o.locktime <= now'
    BY <2>1, <2>2
  <2>4. CASE Live(o)'
    <3>1. Overdue'
      BY <1>1, <2>1, <2>3, <2>4 DEF Overdue
    <3>2. QED
      BY <1>3, <3>1
  <2>5. CASE ~Live(o)'
    <3>1. \A t \in Ahead : ~Live(t)'
      BY <2>1, <2>5 DEF Live
    <3>2. QED
      BY <1>1, <3>1
  <2>6. QED
    BY <2>4, <2>5
<1>4. CASE JustBuilt /\ flow.pc = "recheck"
  <2>1. UNCHANGED <<settings, will, flow>>
    BY <1>4
  <2>2. CASE Ahead' # {}
    <3>1. PICK t0 \in Ahead : Live(t0)'
      BY <1>1, <2>2
    <3>2. \A t \in Ahead : t.coins = t0.coins
      BY <1>4 DEF JustBuilt
    <3>3. \A t \in Ahead : Live(t)'
      BY <3>1, <3>2 DEF Live
    <3>4. Ahead' = Ahead
      BY <1>1, <3>3
    <3>5. Wanted' = Wanted
      BY <2>1 DEF Wanted
    <3>6. \A t : Id(will, t)' = Id(will, t)
      BY <2>1 DEF Id
    <3>7. JustBuilt'
      BY <1>4, <3>4, <3>5, <3>6 DEF JustBuilt
    <3>8. QED
      BY <1>4, <2>1, <3>7
  <2>3. QED
    BY <2>2
<1>5. QED
  BY <1>2, <1>3, <1>4 DEF Aligned

(* What a check leaves valid.                                              *)
LEMMA CheckedValid ==
  ASSUME Dated(will), now \in Nat
  PROVE  /\ \A t \in Valid(Checked) : t \in Valid(will) /\ Live(t)
         /\ Expired(Invalidated(will)) <=> \E o \in Valid(will) : Live(o) /\ o.locktime <= now
         /\ Expired(Invalidated(will)) =>
              \A t \in Valid(will) : Live(t) => t \in Valid(Checked)
         /\ \A t \in Valid(will) :
              /\ Live(t)
              /\ \A u \in Valid(will) :
                   Live(u) => t.locktime <= u.locktime \/ Id(will, u) = Id(will, t)
              => t \in Valid(Checked)
<1> DEFINE m == Invalidated(will)
           r == Replaced(m)
<1>1. /\ Remarked(m, will)
      /\ \A t : t \in Valid(m) <=> t \in Valid(will) /\ Live(t)
  BY InvalidatedMarks DEF Dated
<1>2. Checked = IF Expired(m) THEN m ELSE r
  BY DEF Checked
<1> HIDE DEF m
<1>3. /\ Remarked(r, m)
      /\ \A t : t \in Valid(r) <=>
           /\ t \in Valid(m)
           /\ \A u \in Valid(m) : Share(t, u) /\ u.locktime < t.locktime => Id(m, u) = Id(m, t)
  BY <1>1, ReplacedMarks DEF Dated, Remarked
<1> HIDE DEF r
<1>4. \A t \in DOMAIN will : Id(m, t) = Id(will, t)
  BY <1>1 DEF Id, Remarked
<1>5. \A t \in Valid(will) : t \in DOMAIN will /\ t.locktime \in Nat
  BY DEF Dated, Valid
<1>6. Expired(m) <=> \E o \in Valid(will) : Live(o) /\ o.locktime <= now
  BY <1>1 DEF Expired
<1>7. ASSUME NEW t \in Valid(will), Live(t),
             \A u \in Valid(will) :
               Live(u) => t.locktime <= u.locktime \/ Id(will, u) = Id(will, t)
      PROVE  t \in Valid(r)
  <2>1. ASSUME NEW u \in Valid(m), u.locktime < t.locktime
        PROVE  Id(m, u) = Id(m, t)
    <3>1. u \in Valid(will) /\ Live(u) /\ u.locktime \in Nat /\ t.locktime \in Nat
      BY <1>1, <1>5
    <3>2. Id(will, u) = Id(will, t)
      BY <1>7, <2>1, <3>1
    <3>3. QED
      BY <1>4, <1>5, <3>1, <3>2
  <2>2. QED
    BY <1>1, <1>3, <1>7, <2>1
<1>8. CASE Expired(m)
  BY <1>1, <1>2, <1>6, <1>8 DEF m
<1>9. CASE ~Expired(m)
  BY <1>1, <1>2, <1>3, <1>6, <1>7, <1>9 DEF m
<1>10. QED
  BY <1>8, <1>9

LEMMA VerdictReasons ==
  ASSUME NEW w
  PROVE  /\ "expired" \notin Verdicts(w)
         /\ "noheirs" \in Verdicts(w) => Due(settings.recipe) <= now
         /\ "nobackup" \in Verdicts(w) =>
              settings.backup /\ \A t \in Valid(w) : t.we # NoExecutor
         /\ "noexecutor" \in Verdicts(w) => ~(settings.executors \subseteq {t.we : t \in Valid(w)})
         /\ "postponed" \in Verdicts(w) => \E t \in Valid(w) : Postponed(w, t)
BY DEF Verdicts

(* What a rebuild puts ahead of the date it puts there for everyone.       *)
LEMMA RebuildIsJustBuilt ==
  ASSUME PlanTypes, Utxos # {}, Wanted # {}, \A t \in Valid(will) : t.locktime > 0,
         Ahead = {}, settings.recipe.kind = "abs",
         will' = NewWill, UNCHANGED <<coins, gone, mined, settings>>
  PROVE  JustBuilt'
<1> DEFINE N == {Fresh(we, NewLocktime) : we \in Wanted}
<1>1. /\ NewLocktime \in Nat
      /\ \A o \in Valid(will), we \in Wanted :
           Live(o) /\ Id(will, o) # Fresh(we, Due(settings.recipe)) => NewLocktime <= o.locktime
  BY NewLocktimeComesFirst
<1>2. settings.recipe.days = Due(settings.recipe) /\ Due(settings.recipe) \in Nat
  BY DueIsNatural DEF Due
<1>3. \A t : Live(t)' <=> Live(t)
  BY DEF Live, Utxos, Spent
<1>4. ASSUME NEW n \in N
      PROVE  n.coins = Utxos /\ n.locktime = NewLocktime /\ Live(n)
  BY <1>1, FreshTransaction DEF Live
<1>5. /\ DOMAIN will' = N \cup DOMAIN will
      /\ \A n \in N : will'[n] = NewItem(n)
      /\ \A t \in DOMAIN will : t \notin N => will'[t] = will[t]
  BY DEF NewWill
<1>6. \A we \in Wanted : Fresh(we, NewLocktime) \in N /\ Fresh(we, NewLocktime).we = we
  BY DEF Fresh
<1>7. \A n \in N : \E we \in Wanted : n = Fresh(we, NewLocktime)
  OBVIOUS
<1> HIDE DEF N
<1>8. ASSUME NEW n \in N
      PROVE  "VALID" \in NewItem(n).status
  BY DEF NewItem, Valid, Has
<1>9. \A t : t \in Valid(will)' <=> t \in N \/ (t \in Valid(will) /\ t \notin N)
  BY <1>5, <1>8 DEF Valid, Has
<1>10. ASSUME NEW t \in Ahead'
       PROVE  t \in N /\ NewLocktime < settings.recipe.days /\ t \notin Valid(will)
  <2>1. t \in Valid(will)' /\ Live(t) /\ t.locktime < settings.recipe.days
    BY <1>3, <1>10 DEF Ahead
  <2>2. t \notin Valid(will)
    BY <2>1 DEF Ahead
  <2>3. t \in N
    BY <1>9, <2>1, <2>2
  <2>4. QED
    BY <1>4, <2>1, <2>2, <2>3
<1>11. ASSUME NEW we \in Wanted, Ahead' # {}
       PROVE  \E t \in Ahead' : t.we = we
  <2>1. NewLocktime < settings.recipe.days
    BY <1>10, <1>11
  <2>2. Fresh(we, NewLocktime) \in Ahead'
    BY <1>3, <1>4, <1>6, <1>9, <2>1 DEF Ahead
  <2>3. QED
    BY <1>6, <2>2
<1>12. ASSUME NEW t \in Ahead', NEW u \in Valid(will)', Live(u)'
       PROVE  u.coins \subseteq t.coins /\ (t.locktime <= u.locktime \/ Id(will, u)' = Id(will, t)')
  <2>1. t \in N /\ t \notin Valid(will) /\ t.coins = Utxos /\ t.locktime = NewLocktime
    BY <1>4, <1>10
  <2>2. u.coins \subseteq t.coins
    BY <1>3, <1>12, <2>1 DEF Live
  <2>3. CASE u \in N
    BY <1>1, <1>4, <2>1, <2>2, <2>3
  <2>4. CASE u \notin N
    <3>1. u \in Valid(will) /\ Live(u) /\ u \in DOMAIN will /\ will'[u] = will[u]
      BY <1>3, <1>5, <1>9, <1>12, <2>4 DEF Valid
    <3>2. PICK we \in Wanted : t = Fresh(we, NewLocktime)
      BY <1>7, <2>1
    <3>3. NewItem(t).born = Due(settings.recipe)
      BY <2>1 DEF NewItem
    <3>4. Id(will, t)' = Fresh(we, Due(settings.recipe))
      <4>1. Id(will, t)' = [t EXCEPT !.locktime = Due(settings.recipe)]
        BY <1>5, <2>1, <3>3 DEF Id
      <4>2. [t EXCEPT !.locktime = Due(settings.recipe)] = Fresh(we, Due(settings.recipe))
        BY <3>2 DEF Fresh
      <4>3. QED
        BY <4>1, <4>2
    <3>5. Id(will, u)' = Id(will, u)
      BY <3>1 DEF Id
    <3>6. QED
      BY <1>1, <2>1, <2>2, <3>1, <3>4, <3>5
  <2>5. QED
    BY <2>3, <2>4
<1>13. \A t \in Ahead', u \in Ahead' : t.coins = u.coins
  BY <1>4, <1>10
<1>14. QED
  BY <1>11, <1>12, <1>13 DEF JustBuilt, Wanted

LEMMA CheckWillAligned ==
  ASSUME PlanInv, Aligned, CheckWill
  PROVE  /\ Aligned'
         /\ settings.recipe.kind = "abs" /\ flow'.outcome = "postponed" => reasons # {}
<1>1. /\ will' = Checked /\ flow.pc = "check"
      /\ UNCHANGED <<now, coins, gone, mined, settings, reasons>>
  BY DEF CheckWill, chainVars, ownerVars
<1>2. PlanTypes /\ Dated(will) /\ now \in Nat /\ flow \in Flows
  BY PlanTypesDate DEF PlanInv, PlanTypes
<1>3. /\ \A t \in Valid(Checked) : t \in Valid(will) /\ Live(t)
      /\ Expired(Invalidated(will)) <=> \E o \in Valid(will) : Live(o) /\ o.locktime <= now
      /\ Expired(Invalidated(will)) => \A t \in Valid(will) : Live(t) => t \in Valid(Checked)
  BY <1>2, CheckedValid
<1>4. Valid(will)' = Valid(Checked) /\ \A t : Live(t)' <=> Live(t)
  BY <1>1 DEF Valid, Has, Live, Utxos, Spent
<1>5. Ahead' \subseteq Ahead
  BY <1>1, <1>3, <1>4 DEF Ahead
<1>6. PICK outcome \in FoundOut :
        \E pc : Conclude(pc, outcome) /\ (outcome = "expired" => pc # "build")
  <2>1. PICK outcome \in FoundOut :
          Conclude(CASE outcome \in {"ok", "noheirs"} ->
                          IF flow.caller = "gui" THEN "sign" ELSE "idle"
                     [] outcome = "expired" ->
                          IF flow.caller = "auto" THEN "invalidate" ELSE "classic"
                     [] outcome = "postponed" ->
                          IF flow.invalidated THEN "idle"
                        ELSE IF flow.caller = "menu" THEN "classic" ELSE "invalidate"
                     [] OTHER -> "build", outcome)
    BY DEF CheckWill
  <2> DEFINE pc == CASE outcome \in {"ok", "noheirs"} ->
                          IF flow.caller = "gui" THEN "sign" ELSE "idle"
                     [] outcome = "expired" ->
                          IF flow.caller = "auto" THEN "invalidate" ELSE "classic"
                     [] outcome = "postponed" ->
                          IF flow.invalidated THEN "idle"
                        ELSE IF flow.caller = "menu" THEN "classic" ELSE "invalidate"
                     [] OTHER -> "build"
  <2>2. outcome = "expired" => pc # "build"
    OBVIOUS
  <2>3. Conclude(pc, outcome)
    BY <2>1
  <2> HIDE DEF pc
  <2>4. QED
    BY <2>2, <2>3
<1>7. flow'.outcome = outcome /\ (outcome = "expired" => flow'.pc # "build")
  BY <1>2, <1>6 DEF Conclude, Idle, Flows
<1>8. CASE reasons = {} /\ settings.recipe.kind = "abs"
  <2>1. CASE Ahead = {}
    <3>1. Aligned'
      BY <1>5, <2>1 DEF Aligned
    <3>2. flow'.outcome # "postponed"
      <4> SUFFICES ASSUME outcome = "postponed" PROVE FALSE
        BY <1>7
      <4>1. "postponed" \in Verdicts(Checked)
        BY <1>6, FoundOutcomes DEF FoundOut
      <4>2. PICK t \in Valid(Checked) : Postponed(Checked, t)
        BY <4>1, VerdictReasons
      <4>3. settings.recipe.days > t.locktime
        BY <1>8, <4>2 DEF Postponed, Resolved, Due
      <4>4. t \in Valid(will) /\ Live(t) /\ t.locktime \in Nat /\ settings.recipe.days \in Nat
        BY <1>2, <1>3 DEF Dated, Valid, PlanTypes, Settings
      <4>5. t \in Ahead
        BY <4>3, <4>4 DEF Ahead
      <4>6. QED
        BY <2>1, <4>5
    <3>3. QED
      BY <3>1, <3>2
  <2>2. CASE Overdue
    <3>1. PICK o \in Valid(will) :
            Live(o) /\ o.locktime <= now /\ \A t \in Ahead : o.coins \subseteq t.coins
      BY <2>2 DEF Overdue
    <3>2. o \in Valid(Checked) /\ FoundOut = {"expired"}
      BY <1>3, <3>1, FoundOutcomes
    <3>3. Overdue'
      BY <1>1, <1>4, <1>5, <3>1, <3>2 DEF Overdue
    <3>4. flow'.pc # "build" /\ flow'.outcome # "postponed"
      BY <1>6, <1>7, <3>2
    <3>5. QED
      BY <3>3, <3>4 DEF Aligned
  <2>3. QED
    BY <1>1, <1>8, <2>1, <2>2 DEF Aligned
<1>9. CASE ~(reasons = {} /\ settings.recipe.kind = "abs")
  BY <1>1, <1>9 DEF Aligned
<1>10. QED
  BY <1>8, <1>9

(* The first date of what is valid is after none of it.                    *)
LEMMA SyncedDateIsFirst ==
  ASSUME PlanTypes, NEW w, Valid(w) # {}, \A t \in Valid(w) : t.locktime \in Nat,
         settings.recipe.kind = "abs", SyncDate(w)
  PROVE  \A t \in Valid(w) : settings'.recipe.days <= t.locktime
<1> DEFINE dates == {t.locktime : t \in Valid(w)}
<1>1. dates \subseteq Nat /\ dates # {} /\ \A t \in Valid(w) : t.locktime \in dates
  OBVIOUS
<1>2. settings' = IF Min(dates) < settings.recipe.days
                  THEN [settings EXCEPT !.recipe.days = Min(dates)] ELSE settings
  BY DEF SyncDate
<1>3. settings \in Settings
  BY DEF PlanTypes
<1> HIDE DEF dates
<1>4. Min(dates) \in Nat /\ \A d \in dates : Min(dates) <= d
  BY <1>1, MinOfNaturals
<1>5. settings'.recipe.days <= Min(dates)
  <2>1. settings.recipe.days \in Nat
    BY <1>3 DEF Settings
  <2>2. CASE Min(dates) < settings.recipe.days
    BY <1>2, <1>3, <1>4, <2>2 DEF Settings
  <2>3. CASE ~(Min(dates) < settings.recipe.days)
    BY <1>2, <1>4, <2>1, <2>3
  <2>4. QED
    BY <2>2, <2>3
<1>6. settings'.recipe.days \in Nat
  BY <1>2, <1>3, <1>4 DEF Settings
<1>7. QED
  BY <1>1, <1>4, <1>5, <1>6

(* What was just built and is ahead passes the check whole, so that the    *)
(* wizard aligns the date with it.                                         *)
LEMMA RecheckAligned ==
  ASSUME PlanInv, Aligned, Recheck
  PROVE  Aligned'
<1>1. will' = Checked /\ flow.pc = "recheck" /\ UNCHANGED <<now, coins, gone, mined>>
  BY DEF Recheck, chainVars
<1>2. PlanTypes /\ Dated(will) /\ now \in Nat /\ flow \in Flows /\ settings \in Settings
  BY PlanTypesDate DEF PlanInv, PlanTypes
<1>3. /\ \A t \in Valid(Checked) : t \in Valid(will) /\ Live(t)
      /\ Expired(Invalidated(will)) <=> \E o \in Valid(will) : Live(o) /\ o.locktime <= now
      /\ Expired(Invalidated(will)) => \A t \in Valid(will) : Live(t) => t \in Valid(Checked)
      /\ \A t \in Valid(will) :
           /\ Live(t)
           /\ \A u \in Valid(will) :
                Live(u) => t.locktime <= u.locktime \/ Id(will, u) = Id(will, t)
           => t \in Valid(Checked)
  BY <1>2, CheckedValid
<1>4. Valid(will)' = Valid(Checked) /\ Valid(will') = Valid(Checked) /\ \A t : Live(t)' <=> Live(t)
  BY <1>1 DEF Valid, Has, Live, Utxos, Spent
<1>5. \A t \in Valid(will) : t.locktime \in Nat
  BY <1>2 DEF Dated, Valid
<1> DEFINE success == {"ok", "postponed", "incomplete"}
<1>6. PICK outcome \in FoundOut :
        \/ /\ flow'.outcome = outcome /\ (outcome = "expired" => flow'.pc # "build")
           /\ IF outcome \in success /\ Valid(will') # {}
              THEN SyncDate(will') ELSE UNCHANGED <<settings, reasons>>
        \/ reasons' = reasons \cup {flow.caller}
  <2>1. ASSUME NEW pc, NEW o, Conclude(pc, o)
        PROVE  flow'.outcome = o /\ flow'.pc = pc
    BY <1>2, <2>1 DEF Conclude, Idle, Flows
  <2>2. PICK o \in FoundOut :
          \/ /\ Conclude(CASE o \in success \cup {"noexecutor"} -> "sign"
                           [] o = "expired"                     -> "classic"
                           [] OTHER                             -> "idle", o)
             /\ IF o \in success /\ Valid(will') # {}
                THEN SyncDate(will') ELSE UNCHANGED <<settings, reasons>>
          \/ reasons' = reasons \cup {flow.caller}
    BY DEF Recheck
  <2> DEFINE pc == CASE o \in success \cup {"noexecutor"} -> "sign"
                     [] o = "expired"                     -> "classic"
                     [] OTHER                             -> "idle"
  <2>3. pc # "build"
    OBVIOUS
  <2>4. \/ Conclude(pc, o) /\ (IF o \in success /\ Valid(will') # {}
                               THEN SyncDate(will') ELSE UNCHANGED <<settings, reasons>>)
        \/ reasons' = reasons \cup {flow.caller}
    BY <2>2
  <2> HIDE DEF pc, success
  <2>5. QED
    BY <2>1, <2>3, <2>4
<1>7. CASE reasons' # {}
  BY <1>7 DEF Aligned
<1>8. CASE outcome \in success /\ Valid(will') # {} /\ SyncDate(will')
  <2>1. SyncDate(Checked) /\ Valid(Checked) # {} /\ \A t \in Valid(Checked) : t.locktime \in Nat
    BY <1>1, <1>3, <1>4, <1>5, <1>8
  <2>2. settings' \in Settings
    BY <1>2, <2>1, SyncedSettings
  <2>3. settings'.recipe.kind = settings.recipe.kind
    BY <1>2, <1>8 DEF SyncDate, Settings
  <2>4. CASE settings.recipe.kind = "abs"
    <3>1. \A t \in Valid(Checked) : settings'.recipe.days <= t.locktime
      BY <1>2, <2>1, <2>4, SyncedDateIsFirst
    <3>2. settings'.recipe.days \in Nat
      BY <2>2 DEF Settings
    <3>3. Ahead' = {}
      BY <1>4, <2>1, <3>1, <3>2 DEF Ahead
    <3>4. QED
      BY <3>3 DEF Aligned
  <2>5. QED
    BY <2>3, <2>4 DEF Aligned
<1>9. CASE UNCHANGED <<settings, reasons>> /\ reasons = {} /\ settings.recipe.kind = "abs"
           /\ ~(outcome \in success /\ Valid(will') # {}) /\ flow'.outcome = outcome
           /\ (outcome = "expired" => flow'.pc # "build")
  <2>1. Ahead' \subseteq Ahead
    BY <1>3, <1>4, <1>9 DEF Ahead
  <2>2. CASE Ahead = {} \/ Valid(will') = {}
    <3>1. Ahead' = {}
      BY <1>4, <2>1, <2>2 DEF Ahead
    <3>2. QED
      BY <3>1 DEF Aligned
  <2>3. CASE Ahead # {} /\ Expired(Invalidated(will))
    <3>1. outcome = "expired"
      BY <2>3, FoundOutcomes
    <3>2. \E o \in Valid(will) :
            Live(o) /\ o.locktime <= now /\ \A t \in Ahead : o.coins \subseteq t.coins
      <4>1. CASE Overdue
        BY <4>1 DEF Overdue
      <4>2. CASE JustBuilt
        BY <1>3, <2>3, <4>2 DEF JustBuilt
      <4>3. QED
        BY <1>9, <2>3, <4>1, <4>2 DEF Aligned
    <3>3. Overdue'
      BY <1>1, <1>3, <1>4, <2>1, <2>3, <3>2 DEF Overdue
    <3>4. QED
      BY <1>9, <3>1, <3>3 DEF Aligned
  <2>4. CASE Ahead # {} /\ ~Expired(Invalidated(will)) /\ Valid(will') # {}
    <3>1. JustBuilt
      BY <1>3, <1>9, <2>4 DEF Aligned, Overdue
    <3>2. outcome \in Verdicts(Checked) /\ outcome \in {"noheirs", "nobackup", "noexecutor"}
      BY <1>9, <2>4, FoundOutcomes, VerdictReasons DEF FoundOut, Outcomes
    <3>3. Ahead \subseteq Valid(Checked)
      BY <1>3, <3>1 DEF JustBuilt, Ahead
    <3>4. Wanted \subseteq {t.we : t \in Valid(Checked)}
      BY <2>4, <3>1, <3>3 DEF JustBuilt
    <3>5. outcome = "noheirs"
      BY <3>2, <3>4, VerdictReasons DEF Wanted
    <3>6. settings.recipe.days <= now /\ settings.recipe.days \in Nat
      BY <1>2, <1>9, <3>2, <3>5, VerdictReasons DEF Due, Settings
    <3>7. PICK t \in Ahead : TRUE
      BY <2>4
    <3>8. t \in Valid(will) /\ Live(t) /\ t.locktime < settings.recipe.days
      BY DEF Ahead
    <3>9. t.locktime <= now
      BY <1>2, <1>5, <3>6, <3>8
    <3>10. QED
      BY <1>3, <2>4, <3>8, <3>9
  <2>5. QED
    BY <2>2, <2>3, <2>4
<1>10. CASE UNCHANGED <<settings, reasons>> /\ ~(reasons = {} /\ settings.recipe.kind = "abs")
  BY <1>10 DEF Aligned
<1>11. QED
  <2>1. reasons' = reasons \cup {flow.caller} => reasons' # {}
    OBVIOUS
  <2>2. QED
    BY <1>6, <1>7, <1>8, <1>9, <1>10, <2>1

LEMMA ValidStays ==
  ASSUME PlanTypes, Sign \/ Push \/ SignFromMenu \/ BroadcastFromMenu \/ Reload
  PROVE  Valid(will)' = Valid(will)
<1>1. \/ UNCHANGED will
      \/ \E chosen : will' = Marked(chosen, "COMPLETE")
      \/ \E chosen : will' = Marked(chosen, "PUSHED")
      \/ Reload
  <2>1. Sign \/ SignFromMenu => UNCHANGED will \/ \E chosen : will' = Marked(chosen, "COMPLETE")
    BY DEF Sign, SignFromMenu
  <2>2. Push \/ BroadcastFromMenu => \E chosen : will' = Marked(chosen, "PUSHED")
    BY DEF Push, BroadcastFromMenu, Send
  <2>3. QED
    BY <2>1, <2>2
<1>2. CASE UNCHANGED will
  BY <1>2 DEF Valid, Has
<1>3. CASE \/ \E chosen : will' = Marked(chosen, "COMPLETE")
           \/ \E chosen : will' = Marked(chosen, "PUSHED")
  BY <1>3, MarkedItems
<1>4. CASE Reload
  <2>1. DOMAIN will' = DOMAIN will
    BY <1>4 DEF Reload
  <2>2. ASSUME NEW t \in DOMAIN will
        PROVE  will'[t].status = will[t].status
    <3>1. will[t] \in Items
      BY DEF PlanTypes
    <3>2. QED
      BY <1>4, <3>1 DEF Reload, Items
  <2>3. QED
    BY <2>1, <2>2 DEF Valid, Has
<1>5. QED
  BY <1>1, <1>2, <1>3, <1>4

LEMMA MovedInvInit == Init => MovedInv
<1>1. Init => Aligned /\ NoOutcomeYet
  BY DEF Init, Idle, Aligned, NoOutcomeYet, Ahead, Valid
<1>2. QED
  BY <1>1, PlanInvInit DEF MovedInv

LEMMA NoOutcomeNext ==
  ASSUME PlanTypes, NoOutcomeYet, [Next]_vars
  PROVE  NoOutcomeYet'
<1> SUFFICES ASSUME flow'.pc = "check"
             PROVE  flow'.outcome = "none"
  BY DEF NoOutcomeYet
<1>1. flow \in Flows
  BY DEF PlanTypes
<1>2. ASSUME NEW pc, Goto(pc)
      PROVE  flow'.outcome = "none"
  BY <1>1, <1>2 DEF Goto, Conclude, Idle, Flows
<1>3. ASSUME NEW pc, NEW outcome, Conclude(pc, outcome)
      PROVE  flow'.pc = pc
  BY <1>1, <1>3 DEF Conclude, Idle, Flows
<1>4. CASE \E caller \in Callers : Begin(caller)
  BY <1>4 DEF Begin
<1>5. ~CheckWill
  BY <1>3 DEF CheckWill
<1>6. ~Recheck
  BY <1>3 DEF Recheck
<1>7. CASE Build \/ Sign \/ Push
  BY <1>2, <1>7 DEF Build, Sign, Push
<1>8. CASE InvalidateWill \/ InvalidateClassic
  <2>1. \/ Goto("idle")
        \/ flow' = [flow EXCEPT !.pc = "check", !.outcome = "none", !.invalidated = TRUE]
    BY <1>8 DEF InvalidateWill, InvalidateClassic
  <2>2. QED
    BY <1>1, <1>2, <2>1 DEF Flows
<1>9. CASE Menu \/ Owner \/ World \/ UNCHANGED vars
  <2>1. flow' = flow
    BY <1>9 DEF Menu, SignFromMenu, BroadcastFromMenu, InvalidateFromMenu, UseMenu,
                  Owner, EditHeirs, EditDate, EditFees, SelectExecutors, Edit, Reload, World, vars
  <2>2. QED
    BY <2>1 DEF NoOutcomeYet
<1>10. QED
  BY <1>4, <1>5, <1>6, <1>7, <1>8, <1>9 DEF Next, FlowStep

LEMMA AlignedNext ==
  ASSUME PlanInv, Aligned, [Next]_vars
  PROVE  Aligned'
<1>1. PlanTypes /\ flow \in Flows /\ settings \in Settings
  BY DEF PlanInv, PlanTypes
<1>2. ASSUME NEW caller \in Callers, Begin(caller)
      PROVE  Aligned'
  <2>1. /\ UNCHANGED <<now, coins, gone, mined, settings, will, reasons>>
        /\ flow.pc = "idle" /\ flow'.pc = "check"
    BY <1>2 DEF Begin, chainVars, ownerVars
  <2>2. Valid(will)' = Valid(will)
    BY <2>1 DEF Valid, Has
  <2>3. QED
    BY <1>1, <2>1, <2>2, NothingRevives, SteadyKeepsAligned
<1>3. CASE CheckWill
  BY <1>3, CheckWillAligned
<1>4. CASE Build
  <2>1. /\ UNCHANGED <<now, coins, gone, mined, settings, reasons>> /\ flow.pc = "build"
        /\ \A t \in Valid(will) : t.locktime > 0
    BY <1>4 DEF Build, chainVars, ownerVars, PlanInv, InTime
  <2>2. CASE UNCHANGED will /\ \E pc \in {"idle", "push", "recheck"} : Goto(pc)
    <3>1. flow'.pc # "build"
      BY <1>1, <2>2, GotoFlow DEF Steps
    <3>2. Valid(will)' = Valid(will)
      BY <2>2 DEF Valid, Has
    <3>3. QED
      BY <1>1, <2>1, <3>1, <3>2, NothingRevives, SteadyKeepsAligned
  <2>3. CASE will' = NewWill /\ Goto("recheck") /\ Utxos # {} /\ Wanted # {}
    <3> SUFFICES ASSUME reasons = {}, settings.recipe.kind = "abs"
                 PROVE  JustBuilt' /\ flow'.pc = "recheck"
      BY <2>1 DEF Aligned
    <3>1. Ahead = {}
      BY <2>1 DEF Aligned
    <3>2. flow'.pc = "recheck"
      BY <1>1, <2>3, GotoFlow DEF Steps
    <3>3. QED
      BY <1>1, <2>1, <2>3, <3>1, <3>2, RebuildIsJustBuilt
  <2>4. QED
    BY <1>4, <2>2, <2>3 DEF Build
<1>5. CASE Recheck
  BY <1>5, RecheckAligned
<1>6. CASE Sign \/ Push \/ SignFromMenu \/ BroadcastFromMenu \/ Reload
  <2>1. /\ UNCHANGED <<now, coins, gone, mined, settings, reasons>>
        /\ flow.pc # "recheck" /\ (UNCHANGED flow \/ \E pc \in {"idle", "push"} : Goto(pc))
    BY <1>6 DEF Sign, Push, SignFromMenu, BroadcastFromMenu, UseMenu, Send, Reload, chainVars,
                ownerVars
  <2>2. flow'.pc # "build" \/ flow'.pc = flow.pc
    BY <1>1, <2>1, GotoFlow DEF Steps
  <2>3. QED
    BY <1>1, <1>6, <2>1, <2>2, ValidStays, NothingRevives, SteadyKeepsAligned
<1>7. CASE InvalidateWill \/ InvalidateClassic \/ InvalidateFromMenu
  <2>1. /\ UNCHANGED <<settings, will, reasons>> /\ flow.pc # "recheck"
        /\ \E confirmed \in BOOLEAN : Invalidate(confirmed)
        /\ \/ Goto("idle")
           \/ UNCHANGED flow /\ flow.pc = "idle"
           \/ flow' = [flow EXCEPT !.pc = "check", !.outcome = "none", !.invalidated = TRUE]
    BY <1>7 DEF InvalidateWill, InvalidateClassic, InvalidateFromMenu, UseMenu, ownerVars
  <2>2. flow'.pc # "build"
    BY <1>1, <2>1, GotoFlow DEF Steps, Flows
  <2>3. Valid(will)' = Valid(will)
    BY <2>1 DEF Valid, Has
  <2>4. QED
    BY <1>1, <2>1, <2>2, <2>3, NothingRevives, SteadyKeepsAligned
<1>8. CASE EditDate
  <2>1. reasons' # {}
    BY <1>8 DEF EditDate
  <2>2. QED
    BY <2>1 DEF Aligned
<1>9. CASE EditHeirs \/ EditFees \/ SelectExecutors
  <2>1. /\ UNCHANGED <<now, coins, gone, mined, will, flow, reasons>> /\ flow.pc = "idle"
    BY <1>9 DEF EditHeirs, EditFees, SelectExecutors, Edit, chainVars
  <2>2. settings'.recipe = settings.recipe
    BY <1>1, <1>9 DEF EditHeirs, EditFees, SelectExecutors, Edit, Settings
  <2>3. Valid(will)' = Valid(will)
    BY <2>1 DEF Valid, Has
  <2>4. QED
    BY <1>1, <2>1, <2>2, <2>3, NothingRevives, SteadyKeepsAligned
<1>10. CASE World \/ UNCHANGED vars
  <2>1. /\ UNCHANGED <<settings, will, flow, reasons>>
        /\ \/ Day \/ Receive \/ SpendElsewhere \/ Execute
           \/ UNCHANGED <<now, coins, gone, mined>>
    BY <1>10 DEF World, vars, chainVars, ownerVars
  <2>2. Valid(will)' = Valid(will)
    BY <2>1 DEF Valid, Has
  <2>3. QED
    BY <1>1, <2>1, <2>2, NothingRevives, SteadyKeepsAligned
<1>11. QED
  BY <1>2, <1>3, <1>4, <1>5, <1>6, <1>7, <1>8, <1>9, <1>10
     DEF Next, FlowStep, Menu, Owner

LEMMA MovedInvAlways == Spec => []MovedInv
<1>1. MovedInv /\ [Next]_vars => MovedInv'
  BY PlanInvNext, NoOutcomeNext, AlignedNext DEF MovedInv, PlanInv
<1>2. QED
  BY <1>1, MovedInvInit, PTL DEF Spec

(* A will with a fixed date is called postponed only after the owner moved *)
(* the date, or after a Prepare or an automatic rebuild: the date the      *)
(* wizard anticipates itself it aligns, whatever happens in between on the *)
(* chain or from the menu.                                                 *)
THEOREM PostponedOnlyWhenMoved == Spec => PostponedMeansMoved
<1> DEFINE Moved == flow.pc = "check" /\ flow'.outcome = "postponed"
                      /\ settings.recipe.kind = "abs" => reasons # {}
<1>1. MovedInv /\ [Next]_vars => [Moved]_vars
  <2> SUFFICES ASSUME MovedInv, Next, flow.pc = "check", flow'.outcome = "postponed",
                      settings.recipe.kind = "abs"
               PROVE  reasons # {}
    OBVIOUS
  <2>1. /\ PlanInv /\ Aligned /\ flow.outcome = "none" /\ flow' # flow
    BY DEF MovedInv, NoOutcomeYet
  <2>2. CASE CheckWill
    BY <2>1, <2>2, CheckWillAligned
  <2>3. CASE ~CheckWill
    BY <2>1, <2>3
       DEF Next, FlowStep, Owner, World, Menu, Begin, Build, Recheck, Sign, Push, InvalidateWill,
           InvalidateClassic, SignFromMenu, BroadcastFromMenu, InvalidateFromMenu, UseMenu,
           EditHeirs, EditDate, EditFees, SelectExecutors, Edit, Reload
  <2>4. QED
    BY <2>2, <2>3
<1>2. QED
  BY <1>1, MovedInvAlways, PTL DEF Spec, PostponedMeansMoved

=============================================================================
