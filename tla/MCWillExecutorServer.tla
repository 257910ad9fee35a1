------------------------ MODULE MCWillExecutorServer ------------------------
(***************************************************************************)
(* Small instances of WillExecutorServer: transactions that pay enough on  *)
(* one network, on all, or on none; bodies that overlap, hold a line that  *)
(* is no transaction, or the same line twice.                              *)
(***************************************************************************)
EXTENDS WillExecutorServer, TLC

CONSTANTS r1, r2, p1, p2, alice, t1, t2, t3

(* testnet derives its addresses from k1, signet has the plain address of  *)
(* kp, regtest has it too and asks no fee.                                 *)
MCNetworks == {"testnet", "signet", "regtest"}
WithXpub   == {"testnet"}
MCHrp      == [n \in MCNetworks |-> IF n = "regtest" THEN "bcrt" ELSE "tb"]
MCKeys     == {"k1", "kp"}
MCAccounts == MCKeys \cup {"other"}
MCAccount  == [k \in MCKeys |-> k]
MCConfigs  == {[n \in MCNetworks |-> IF n = "testnet" THEN "k1" ELSE "kp"]}
MCFixedFee == [n \in MCNetworks |-> IF n = "regtest" THEN 0 ELSE 2]

Out(account, idx, amount) == [account |-> account, idx |-> idx, amount |-> amount]

MCOutputs ==
  (t1 :> <<Out("k1", 0, 2), Out("other", 0, 9), Out("kp", -1, 3), Out("kp", -1, 2)>>) @@
  (t2 :> <<Out("k1", 0, 3), Out("k1", 1, 2), Out("kp", -1, 1)>>) @@
  (t3 :> <<Out("k1", 0, 1), Out("kp", -1, 2)>>)

MCBodies == {<<t1, t2>>, <<t3, None, t2>>, <<t1, t1>>}

Symmetry == Permutations({r1, r2}) \cup Permutations({p1, p2})
=============================================================================
