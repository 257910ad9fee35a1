----------------------------- MODULE WillAmounts -----------------------------
(***************************************************************************)
(* How the wallet is divided among the heirs (core/heirs.py): for every    *)
(* will-executor, buildTransactions divides what is left after the fees    *)
(* (prepare_lists), builds a transaction (prepare_transactions), and tries *)
(* again until the fee fits its size, ten times at most.  OP_RETURN heirs, *)
(* who are paid nothing, are left out.                                     *)
(*                                                                         *)
(* All heirs have the one delivery date of the wallet.  The code divides   *)
(* in floating point and rounds down, so that a share may be one unit less *)
(* than the exact quotient rounded down, or one more: a quotient is any of *)
(* those that the relative error of the division allows.                   *)
(***************************************************************************)
EXTENDS Integers, Sequences, FiniteSets, Functions, TLC

CONSTANTS
  Names,      \* the heirs
  Shares,     \* what an heir may be given: [kind, amount], "fixed" or "percent"
  Wallets,    \* sequences of coins, in the order they are taken
  Choices,    \* sequences of fees, of the executors that are tried; 0: no executor
  FeeRate,    \* fee per input or output
  Dust,       \* dust_threshold
  Precision,  \* one over a bound on the relative error of a division: 2^51
              \* for whole percentages, whose sum is exact (two roundings)
  MaxRounds   \* 10

Sum(f, S) == SumFunctionOnSet(f, S)

ASSUME AmountsAssumption ==
  /\ IsFiniteSet(Names)
  /\ Shares \subseteq [kind : {"fixed", "percent"}, amount : Nat \ {0}]
  /\ Wallets \subseteq Seq(Nat \ {0}) /\ Choices \subseteq Seq(Nat)
  /\ FeeRate \in Nat /\ Dust \in Nat
  /\ MaxRounds \in Nat /\ MaxRounds > 1
  /\ Precision \in Nat \ {0}
  /\ \A wallet \in Wallets : Sum(wallet, DOMAIN wallet) < Precision

VARIABLES
  heirs,   \* from the names of the heirs to their shares
  coins,   \* the coins of the wallet
  fees,    \* base_fee of the executors tried
  pc,      \* where buildTransactions is
  j, i,    \* its counters: the executor, the round
  fee,     \* fees[locktime]: what the transaction of the last round needs
  paid,    \* HEIR_REAL_AMOUNT of the heirs that are listed; 0 for dust
  tx,      \* the transaction of the round
  built,   \* alltxs
  error    \* last_build_error, or the exception raised

inputVars == <<heirs, coins, fees>>
vars == <<inputVars, pc, j, i, fee, paid, tx, built, error>>

-----------------------------------------------------------------------------
(* The division.                                                           *)

Balance == Sum(coins, DOMAIN coins)

Amount == [h \in DOMAIN heirs |-> heirs[h].amount]

Fixed == {h \in DOMAIN heirs : heirs[h].kind = "fixed"}
Percent == DOMAIN heirs \ Fixed

Payable(amount) == IF amount > Dust THEN amount ELSE 0

(* Faulty: rounded up.                                                     *)
ProportionsUp(total, relative, amount) ==
  {(total * amount + relative - 1) \div relative}

(* What floor(total / relative * amount) may be.                           *)
Proportions(total, relative, amount) ==
  (total * amount * (Precision - 1)) \div (relative * Precision) ..
  (total * amount * (Precision + 1)) \div (relative * Precision)

(* The shares that the heirs of S may have of a total.                     *)
Quotients(S, total, relative, base) ==
  LET share == [h \in S |-> Proportions(total, relative, base[h])]
  IN  {q \in [S -> UNION {share[h] : h \in S}] : \A h \in S : q[h] \in share[h]}

(* normalize_perc                                                          *)
Normalized(S, total, relative, base) ==
  {[h \in S |-> Payable(q[h])] : q \in Quotients(S, total, relative, base)}

(* What is there for the heirs in this round.                              *)
Available == Balance - fee - fees[j]

FixedAmount == Sum(Amount, {h \in Fixed : Amount[h] > Dust})

Scarce == FixedAmount > Available

(* fixed_percent_lists_amount; when the fixed amounts are more than there  *)
(* is they are cut down.  An amount that is dust is kept as it is.         *)
Bases ==
  IF Scarce THEN Quotients(Fixed, Available, FixedAmount, Amount)
  ELSE {[h \in Fixed |-> Amount[h]]}

FixedFirst(base) == [h \in Fixed |-> Payable(base[h])]

(* The percentages share what the fixed amounts leave, whatever they add   *)
(* up to; they are not listed if that is nothing.                          *)
PercentPaid(base) ==
  LET rest == Available - Sum(FixedFirst(base), Fixed) IN
  Normalized(IF rest > 0 THEN Percent ELSE {}, rest, Sum(Amount, Percent), Amount)

(* What the fixed heirs and the percentages leave.                         *)
Left(base, percent) ==
  Available - Sum(FixedFirst(base), Fixed) - Sum(percent, DOMAIN percent)

(* Faulty: what is left is divided, but not what the fixed heirs had.      *)
FixedPaidLeftover(base, percent) ==
  IF Left(base, percent) > 0
  THEN Normalized(Fixed, Left(base, percent), Sum(Amount, Fixed), base)
  ELSE {FixedFirst(base)}

(* Faulty: what is left is not divided again.                              *)
FixedPaidOnce(base, percent) == {FixedFirst(base)}

(* If anything is left the fixed heirs share it, in proportion to what they*)
(* have, which is related to the amounts the owner wrote.                  *)
FixedPaid(base, percent) ==
  IF Left(base, percent) > 0
  THEN Normalized(Fixed, Left(base, percent) + Sum(FixedFirst(base), Fixed),
                  Sum(Amount, Fixed), base)
  ELSE {FixedFirst(base)}

(* The fixed heirs and, if anything is left for them, the percentages.     *)
Listed(fixed, percent) ==
  [h \in DOMAIN fixed \cup DOMAIN percent |->
     IF h \in DOMAIN fixed THEN fixed[h] ELSE percent[h]]

-----------------------------------------------------------------------------

NoTx == [ins |-> 0, outs |-> 0, value |-> 0, spent |-> 0, change |-> 0]

Init ==
  /\ heirs \in UNION {[S -> Shares] : S \in SUBSET Names}
  /\ coins \in Wallets
  /\ fees \in Choices
  /\ pc = "start"
  /\ j = 0 /\ i = 0 /\ fee = 0
  /\ paid = <<>> /\ tx = NoTx
  /\ built = <<>>
  /\ error = "none"

(* Nothing to divide, or nobody to divide it among.                        *)
Begin ==
  /\ pc = "start"
  /\ \/ heirs = <<>> /\ pc' = "end" /\ error' = "NO_HEIRS"
     \/ heirs # <<>> /\ coins = <<>> /\ pc' = "end" /\ error' = "NO_UTXO"
     \/ heirs # <<>> /\ coins # <<>> /\ pc' = "next" /\ UNCHANGED error
  /\ UNCHANGED <<inputVars, j, i, fee, paid, tx, built>>

NextExecutor ==
  /\ pc = "next" /\ j < Len(fees)
  /\ j' = j + 1 /\ i' = 0 /\ fee' = 0
  /\ pc' = "lists"
  /\ UNCHANGED <<inputVars, paid, tx, built, error>>

(* Faulty: no reason is recorded when no executor could be used.           *)
NoMoreExecutorsSilent ==
  /\ pc = "next" /\ j = Len(fees)
  /\ pc' = "rest"
  /\ UNCHANGED <<inputVars, j, i, fee, paid, tx, built, error>>

NoMoreExecutors ==
  /\ pc = "next" /\ j = Len(fees)
  /\ error' = IF fees = <<>> THEN "NO_WILLEXECUTOR_USABLE" ELSE error
  /\ pc' = "rest"
  /\ UNCHANGED <<inputVars, j, i, fee, paid, tx, built>>

Raise(exception) == pc' = "end" /\ error' = exception /\ built' = <<>> /\ UNCHANGED paid

GiveUp(reason) == pc' = "next" /\ error' = reason /\ UNCHANGED <<built, paid>>

(* prepare_lists.  An executor that is too expensive, or a list without    *)
(* anybody in it, is the end of this executor; an exception of all.        *)
PrepareLists ==
  /\ pc = "lists"
  /\ i' = i + 1
  /\ IF Balance < fee \/ Balance < Dust THEN Raise("BalanceTooLow")
     ELSE IF Available < 0 THEN GiveUp("WILLEXECUTOR_FEE")
     ELSE \E base \in Bases : \E percent \in PercentPaid(base) :
          \E fixed \in FixedPaid(base, percent) :
            LET listed == Listed(fixed, percent) IN
            IF listed # <<>> /\ \A h \in DOMAIN listed : listed[h] = 0
            THEN Raise("HeirAmountIsDust")
            ELSE IF listed = <<>> /\ fees[j] = 0 THEN GiveUp("NO_FUTURE_DATE")
            ELSE pc' = "tx" /\ paid' = listed /\ UNCHANGED <<error, built>>
  /\ UNCHANGED <<inputVars, j, fee, tx>>

Value(n) == Sum(coins, 1 .. n)

Count(amount) == IF amount > 0 THEN 1 ELSE 0

(* Faulty: no threshold.                                                   *)
ChangeOutputAlways(amount) == amount

(* get_change_output: nothing if it is dust                                *)
ChangeOutput(amount) == Payable(amount)

(* Coins are taken until they are enough.                                  *)
Taken(spent) ==
  CHOOSE k \in DOMAIN coins :
    /\ Value(k) >= spent \/ k = Len(coins)
    /\ \A l \in 1 .. k - 1 : Value(l) < spent

(* prepare_transactions.  The fee is in the amount to be spent already     *)
(* when the change is computed.                                            *)
PrepareTransactions ==
  LET value == Sum(paid, DOMAIN paid) + fees[j]
      spent == value + fee
      n == Taken(spent)
      change == ChangeOutput(Value(n) - spent - fee)
      outputs == Cardinality({h \in DOMAIN paid : paid[h] > 0}) + Count(fees[j]) + Count(change)
  IN
  /\ pc = "tx"
  /\ IF Value(n) < spent
     THEN pc' = "end" /\ error' = "TX_BUILD_FAILED" /\ built' = <<>> /\ UNCHANGED tx
     ELSE /\ tx' = [ins |-> n, outs |-> outputs, value |-> Value(n),
                    spent |-> value + change, change |-> change]
          /\ pc' = "fees"
          /\ UNCHANGED <<error, built>>
  /\ UNCHANGED <<inputVars, j, i, fee, paid>>

(* estimated_size times the fee rate                                       *)
Needed(t) == FeeRate * (1 + t.ins + t.outs)

(* Faulty: the first round is the last.                                    *)
SettleFirst ==
  /\ pc = "fees"
  /\ fee' = Needed(tx)
  /\ built' = Append(built, [tx |-> tx, executor |-> fees[j], paid |-> paid, rounds |-> i])
  /\ pc' = "next"
  /\ UNCHANGED <<inputVars, j, i, paid, tx, error>>

(* Another round if the fee does not fit, or coins were left out.          *)
Settle ==
  LET actual == tx.value - tx.spent
      redo == actual < Needed(tx) \/ actual > Needed(tx) + Dust \/ Balance - tx.value > Dust
  IN
  /\ pc = "fees"
  /\ fee' = Needed(tx)
  /\ \/ /\ redo /\ i < MaxRounds
        /\ pc' = "lists" /\ UNCHANGED built
     \/ /\ ~redo \/ i >= MaxRounds
        /\ built' = Append(built, [tx |-> tx, executor |-> fees[j], paid |-> paid, rounds |-> i])
        /\ pc' = "next"
  /\ UNCHANGED <<inputVars, j, i, paid, tx, error>>

(* get_transactions divides what a transaction leaves, its change and the  *)
(* coins it does not take, among the heirs with a later date.  There are   *)
(* none, so nothing is added; but less than Dust is an exception.          *)
Rest ==
  LET left(k) == Balance - built[k].tx.value + built[k].tx.change IN
  /\ pc = "rest"
  /\ IF \E k \in DOMAIN built : left(k) \in 1 .. Dust - 1
     THEN Raise("BalanceTooLow")
     ELSE /\ error' = IF \E k \in DOMAIN built : left(k) > 0 THEN "NO_FUTURE_DATE" ELSE error
          /\ pc' = "end" /\ UNCHANGED <<built, paid>>
  /\ UNCHANGED <<inputVars, j, i, fee, tx>>

Next ==
  \/ Begin \/ NextExecutor \/ PrepareLists \/ PrepareTransactions \/ Settle
  \/ NoMoreExecutors \/ Rest

Spec == Init /\ [][Next]_vars

-----------------------------------------------------------------------------
(* Properties.                                                             *)

(* Shapes of what is being built, for the invariants.                      *)
TypeOK ==
  /\ pc \in {"start", "next", "lists", "tx", "fees", "rest", "end"}
  /\ j \in 0 .. Len(fees) /\ i \in 0 .. MaxRounds /\ fee \in Nat
  /\ DOMAIN paid \subseteq DOMAIN heirs /\ \A h \in DOMAIN paid : paid[h] \in Nat
  /\ Len(built) <= j
  /\ tx.change \in Nat /\ tx.spent <= tx.value

Plenty == FixedAmount <= Available

NobodyIsDust == \A h \in DOMAIN heirs : h \in DOMAIN paid /\ paid[h] > 0

(* A division never gives away more than the wallet holds, however often   *)
(* the shares are divided again (the three calls in prepare_lists).        *)
NeverMoreThanThere == pc = "tx" => fee + fees[j] + Sum(paid, DOMAIN paid) <= Balance

(* If the fixed amounts fit and nobody's share is dust, the heirs get      *)
(* everything but the fees: at most one unit per heir is left, the rounding*)
(* ("always emptied", docs/user-guide/heirs.md).  It may be one unit for   *)
(* the only heir of all: the quotient is rounded down in floating point.   *)
Emptied ==
  pc = "tx" /\ Plenty /\ NobodyIsDust =>
    Available - Sum(paid, DOMAIN paid) <= Cardinality(DOMAIN heirs)

(* The heirs get all there is and no more, in amounts of the right types.  *)
AllAndNoMore == TypeOK /\ NeverMoreThanThere /\ Emptied

(* If the fixed amounts fit and none is dust, dividing what is left never  *)
(* gives an heir less than the amount the owner fixed.                     *)
FixedHeirsKept ==
  pc = "tx" /\ Plenty /\ (\A h \in Fixed : Amount[h] > Dust) =>
    \A h \in Fixed : paid[h] >= Amount[h]

(* What a transaction of every coin and every heir would pay.              *)
LargestFee == Needed([ins |-> Len(coins), outs |-> Cardinality(DOMAIN heirs) + 2])

(* After the largest fee every share is still paid.  What rounding leaves, *)
(* at most one unit per heir, is dust, and less than every coin.           *)
Ample(executor) ==
  LET rest == Balance - LargestFee - executor - FixedAmount
      written == Sum(Amount, Percent) IN
  /\ rest >= 0
  /\ \A h \in Fixed : Amount[h] > Dust
  /\ \A h \in Percent : rest * Amount[h] >= (Dust + 2) * written
  /\ Cardinality(DOMAIN heirs) <= Dust
  /\ \A n \in DOMAIN coins : coins[n] > Cardinality(DOMAIN heirs)

(* In an ample wallet the second round of buildTransactions is the last,   *)
(* long before the tenth, and the fee fits the transaction.                *)
Settles ==
  \A k \in DOMAIN built : Ample(built[k].executor) =>
    /\ built[k].rounds <= 2
    /\ built[k].tx.value - built[k].tx.spent >= Needed(built[k].tx)

(* A build without a transaction records why (last_build_error), or raises.*)
ReasonGiven == pc = "end" /\ built = <<>> => error # "none"
=============================================================================
