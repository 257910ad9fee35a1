--------------------------- MODULE MCAddressBook ---------------------------
(***************************************************************************)
(* Small instances of AddressBook: three requests of two clients over test *)
(* networks that share the address prefix "tb".                            *)
(***************************************************************************)
EXTENDS AddressBook, TLC

CONSTANTS r1, r2, r3, alice, bob

(* testnet and signet have an xpub, testnet4 a plain address, and regtest  *)
(* is disabled.                                                            *)
MCNetworks  == {"testnet", "signet", "testnet4", "regtest"}
WithXpub    == {"testnet", "signet"}
MCEnabled   == MCNetworks \ {"regtest"}

MCHrp       == [n \in MCNetworks |-> "tb"]
MCKeys      == {"k1", "z1", "k2", "k3", "k4", "k5"}

(* z1 is the account of k1 in another encoding.                            *)
MCAccount   == [k \in MCKeys |-> IF k = "z1" THEN "k1" ELSE k]
MCAccounts  == MCKeys \ {"z1"}

(* The operator may rotate the key of testnet, or only re-encode it.       *)
Rotating ==
  {[testnet |-> k, signet |-> "k3", testnet4 |-> "k4", regtest |-> "k5"] :
     k \in {"k1", "z1", "k2"}}

Symmetry == Permutations({r1, r2, r3}) \cup Permutations({alice, bob})
=============================================================================
