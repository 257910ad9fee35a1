----------------------------- MODULE MCWillPlan -----------------------------
(* Values for the constants of WillPlan.                                   *)
EXTENDS WillPlan

CONSTANTS heir1, heir2, we1, we2, fee1, fee2   \* heirs, executors and fee rates

OneOrBoth == {{heir1}, {heir1, heir2}}

Abs(n) == [kind |-> "abs", days |-> n]
Rel(n) == [kind |-> "rel", days |-> n]

BothKinds == {Abs(2), Rel(2)}
LateDates == {Abs(3), Abs(5)}

(* Bounds across the counters: a coin is spent elsewhere around two runs,  *)
(* without a use of the menu, or the menu is used around three.  What goes *)
(* beyond is checked, but not followed.                                    *)
Few == elsewhere + uses <= 1 /\ runs + elsewhere <= 3

Symmetry == Permutations(FeeRates)
=============================================================================
