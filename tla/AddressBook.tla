---------------------------- MODULE AddressBook ----------------------------
(***************************************************************************)
(* The fee addresses of a bal-server: the GET /{network}/info handler      *)
(* (echo_info), the tables tbl_xpub and tbl_address it works on, and the   *)
(* start-up of the process (init_network).                                 *)
(*                                                                         *)
(* Handlers run concurrently on one database.  A handler gives the         *)
(* processor away at each .await, so an action is what one handler does    *)
(* from one await to the next; what it read before an await is kept in its *)
(* record of the variable info.  A request is used once, so info is also   *)
(* the history of everything the server was asked and answered.            *)
(***************************************************************************)
EXTENDS Integers, FiniteSets

CONSTANTS
  Networks,      \* the network names of the URL
  Enabled,       \* the networks whose NetConfig.enabled is set
  XpubNetworks,  \* the networks whose NetConfig.xpub is set
  Hrp,           \* Hrp[n]: the address prefix of n (shared by the test networks)
  Keys,          \* what NetConfig.address may hold: xpubs and plain addresses
  Accounts,      \* what they stand for: accounts of a wallet, plain addresses
  Account,       \* Account[key]: several encodings stand for one account
  Configs,       \* the configurations the operator may start the server with
  Clients,       \* the IP addresses requests come from
  Infos,         \* the requests for /info
  MaxIndex,      \* the last index the derivation path accepts (2^31 - 1)
  MaxTime,       \* bound: seconds of the database clock
  MaxFaults,     \* bound: failed database calls
  MaxRestarts,   \* bound: restarts of the process
  None           \* no value: no xpub row (id 0), no address in the answer

ASSUME NetworksAssumption ==
  /\ Enabled \subseteq Networks
  /\ XpubNetworks \subseteq Networks
  /\ Account \in [Keys -> Accounts]
  /\ Configs # {}
  /\ Configs \subseteq [Networks -> Keys]

ASSUME BoundsAssumption ==
  MaxIndex \in Nat /\ MaxTime \in Nat /\ MaxFaults \in Nat /\ MaxRestarts \in Nat

ASSUME NoneAssumption == \A n \in Networks, k \in Keys : None # <<n, k>>

VARIABLES
  config,       \* [Networks -> Keys]: NetConfig.address of the running process
  tbl_xpub,     \* the rows <<network, xpub>> of tbl_xpub
  path_idx,     \* the column path_idx of those rows
  tbl_address,  \* the rows of tbl_address
  info,         \* one record per request for /info
  now,          \* the clock behind date_create, in seconds
  faults,       \* database calls that failed so far
  restarts      \* restarts so far

infoVars == <<config, tbl_xpub, path_idx, tbl_address, info, now, faults, restarts>>

XpubRows == Networks \X Keys

(* The address an account has at an index on a network.  Index -1 stands   *)
(* for the plain address an operator configures instead of an xpub.        *)
AddressOf(n, account, idx) == [hrp |-> Hrp[n], account |-> account, idx |-> idx]

(* new_address_from_xpub: the version bytes that tell an xpub from a ypub, *)
(* zpub, tpub, vpub or upub are overwritten before the derivation, so the  *)
(* encodings of one account yield the same addresses.                      *)
Address(n, key, idx) == AddressOf(n, Account[key], idx)

Addresses ==
  [hrp : {Hrp[n] : n \in Networks}, account : Accounts, idx : {-1} \cup Nat]

AddressRows ==
  [address : Addresses, xpub : XpubRows \cup {None}, remote : Clients, date_create : Nat]

InfoRecords ==
  [pc      : {"idle", "lookup", "index", "save", "done", "dropped"},
   network : Networks,
   remote  : Clients,
   source  : {"none", "plain", "stored", "fresh", "fallback"},
   xpub    : XpubRows \cup {None},
   idx     : {-1} \cup Nat,
   address : Addresses \cup {None},
   after   : SUBSET Infos]

(* get_all_addresses_by_xpub: joined on the row's id and selected by the   *)
(* xpub as it is written, so a row stored with id 0 is not found, nor one  *)
(* of another encoding, and the network does not matter.                   *)
KnownAddresses(key) ==
  {row.address : row \in {r \in tbl_address :
                            r.xpub # None /\ r.xpub \in tbl_xpub /\ r.xpub[2] = key}}

(* Faulty: the client's rows are looked for in the current second only.    *)
AddressesOfThisSecond(remote, xpub) ==
  {row \in tbl_address :
     row.remote = remote /\ row.xpub = xpub /\ xpub \in tbl_xpub /\ row.date_create = now}

(* get_last_used_address_by_ip before ORDER BY and LIMIT.                  *)
AddressesOf(remote, xpub) ==
  {row \in tbl_address : row.remote = remote /\ row.xpub = xpub /\ xpub \in tbl_xpub}

(* ORDER BY date_create DESC LIMIT 1: one of the rows of the last second.  *)
Latest(rows) == {r \in rows : \A s \in rows : s.date_create <= r.date_create}

DbFault == faults < MaxFaults /\ faults' = faults + 1

(* The answer is the address of a row that hangs on row xpub of tbl_xpub.  *)
AnswerStored(i, xpub, address) ==
  info' = [info EXCEPT ![i] =
    [@ EXCEPT !.pc = "done", !.source = "stored", !.xpub = xpub, !.address = address]]

-----------------------------------------------------------------------------

InfoInit ==
  /\ config \in Configs
  /\ tbl_xpub = {<<n, config[n]>> : n \in Networks}
  /\ path_idx = [x \in XpubRows |-> -1]
  /\ tbl_address = {}
  /\ info \in [Infos -> [pc : {"idle"}, network : Networks, remote : Clients,
                         source : {"none"}, xpub : {None}, idx : {-1},
                         address : {None}, after : {{}}]]
  /\ now = 0
  /\ faults = 0
  /\ restarts = 0

(* A request arrives: the handler refuses a disabled network and answers a *)
(* plain one without touching the database.                                *)
InfoBegin(i) ==
  LET n == info[i].network
      earlier == {j \in Infos : info[j].pc = "done"}
  IN
  /\ info[i].pc = "idle"
  /\ info' = [info EXCEPT ![i] =
       IF n \notin Enabled THEN [@ EXCEPT !.pc = "done", !.after = earlier]
       ELSE IF n \notin XpubNetworks
       THEN [@ EXCEPT !.pc = "done", !.after = earlier, !.source = "plain",
                      !.address = Address(n, config[n], -1)]
       ELSE [@ EXCEPT !.pc = "lookup", !.after = earlier]]
  /\ UNCHANGED <<config, tbl_xpub, path_idx, tbl_address, now, faults, restarts>>

(* get_last_used_address_by_ip answers.                                    *)
InfoLookup(i) ==
  LET x    == <<info[i].network, config[info[i].network]>>
      rows == AddressesOf(info[i].remote, x)
  IN
  /\ info[i].pc = "lookup"
  /\ \/ \E row \in Latest(rows) : AnswerStored(i, x, row.address)
     \/ rows = {} /\ info' = [info EXCEPT ![i].pc = "index"]
  /\ UNCHANGED <<config, tbl_xpub, path_idx, tbl_address, now, faults, restarts>>

(* A failed query is logged and taken for "no address yet".                *)
InfoLookupFails(i) ==
  /\ info[i].pc = "lookup"
  /\ DbFault
  /\ info' = [info EXCEPT ![i].pc = "index"]
  /\ UNCHANGED <<config, tbl_xpub, path_idx, tbl_address, now, restarts>>

(* The handler goes on with the pair (xpub, idx) of get_next_address_index *)
(* and derives the address; an index the path cannot hold is an error.     *)
Derive(i, source, xpub, idx) ==
  LET n == info[i].network IN
  info' = [info EXCEPT ![i] =
    IF idx > MaxIndex
    THEN [@ EXCEPT !.pc = "done", !.xpub = xpub, !.idx = idx]
    ELSE [@ EXCEPT !.pc = "save", !.source = source, !.xpub = xpub, !.idx = idx,
                   !.address = Address(n, config[n], idx)]]

(* Faulty: the next index is the number of addresses stored for the row.   *)
InfoNextIndexByCount(i) ==
  LET x == <<info[i].network, config[info[i].network]>> IN
  /\ info[i].pc = "index"
  /\ Derive(i, "fresh", x, Cardinality({row \in tbl_address : row.xpub = x}))
  /\ UNCHANGED <<config, tbl_xpub, path_idx, tbl_address, now, faults, restarts>>

(* UPDATE tbl_xpub SET path_idx = path_idx + 1 ... RETURNING path_idx, id; *)
(* without a row the fallback (0, 0).                                      *)
InfoNextIndex(i) ==
  LET x == <<info[i].network, config[info[i].network]>> IN
  /\ info[i].pc = "index"
  /\ \/ /\ x \in tbl_xpub
        /\ path_idx' = [path_idx EXCEPT ![x] = @ + 1]
        /\ Derive(i, "fresh", x, path_idx[x] + 1)
     \/ /\ x \notin tbl_xpub
        /\ Derive(i, "fallback", None, 0)
        /\ UNCHANGED path_idx
  /\ UNCHANGED <<config, tbl_xpub, tbl_address, now, faults, restarts>>

(* The update fails, before or after the database applied it: (0, 0).      *)
InfoNextIndexFails(i) ==
  LET x == <<info[i].network, config[info[i].network]>> IN
  /\ info[i].pc = "index"
  /\ DbFault
  /\ Derive(i, "fallback", None, 0)
  /\ \/ UNCHANGED path_idx
     \/ x \in tbl_xpub /\ path_idx' = [path_idx EXCEPT ![x] = @ + 1]
  /\ UNCHANGED <<config, tbl_xpub, tbl_address, now, restarts>>

(* Faulty: the row is stored once per client instead of once per address.  *)
InfoSaveOncePerClient(i) ==
  LET taken == \E row \in tbl_address : row.remote = info[i].remote IN
  /\ info[i].pc = "save"
  /\ tbl_address' =
       IF taken THEN tbl_address
       ELSE tbl_address \cup {[address |-> info[i].address, xpub |-> info[i].xpub,
                               remote |-> info[i].remote, date_create |-> now]}
  /\ info' = [info EXCEPT ![i].pc = "done"]
  /\ UNCHANGED <<config, tbl_xpub, path_idx, now, faults, restarts>>

(* save_new_address: a row with the same address (the primary key) is an   *)
(* error, and an error is only logged; the client is answered either way.  *)
InfoSave(i) ==
  LET taken == \E row \in tbl_address : row.address = info[i].address IN
  /\ info[i].pc = "save"
  /\ tbl_address' =
       IF taken THEN tbl_address
       ELSE tbl_address \cup {[address |-> info[i].address, xpub |-> info[i].xpub,
                               remote |-> info[i].remote, date_create |-> now]}
  /\ info' = [info EXCEPT ![i].pc = "done"]
  /\ UNCHANGED <<config, tbl_xpub, path_idx, now, faults, restarts>>

InfoSaveFails(i) ==
  /\ info[i].pc = "save"
  /\ DbFault
  /\ info' = [info EXCEPT ![i].pc = "done"]
  /\ UNCHANGED <<config, tbl_xpub, path_idx, tbl_address, now, restarts>>

(* The database clock; date_create has a resolution of one second.         *)
Tick ==
  /\ now < MaxTime
  /\ now' = now + 1
  /\ UNCHANGED <<config, tbl_xpub, path_idx, tbl_address, info, faults, restarts>>

(* The process stops and is started again, perhaps with other keys: what   *)
(* was in flight is lost, the database stays, init_network adds the rows   *)
(* that are missing (a failed INSERT is only logged).                      *)
InfoRestart ==
  /\ restarts < MaxRestarts
  /\ restarts' = restarts + 1
  /\ info' = [i \in Infos |->
       IF info[i].pc \in {"lookup", "index", "save"}
       THEN [info[i] EXCEPT !.pc = "dropped"] ELSE info[i]]
  /\ \E c \in Configs :
       LET missing == {<<n, c[n]>> : n \in Networks} \ tbl_xpub IN
       /\ config' = c
       /\ \/ tbl_xpub' = tbl_xpub \cup missing /\ UNCHANGED faults
          \/ \E lost \in missing :
               DbFault /\ tbl_xpub' = tbl_xpub \cup (missing \ {lost})
  /\ UNCHANGED <<path_idx, tbl_address, now>>

InfoStep(i) ==
  \/ InfoBegin(i)
  \/ InfoLookup(i)
  \/ InfoLookupFails(i)
  \/ InfoNextIndex(i)
  \/ InfoNextIndexFails(i)
  \/ InfoSave(i)
  \/ InfoSaveFails(i)

InfoNext == Tick \/ InfoRestart \/ \E i \in Infos : InfoStep(i)

InfoSpec == InfoInit /\ [][InfoNext]_infoVars

-----------------------------------------------------------------------------
(* Properties.                                                             *)

InfoTypeOK ==
  /\ config \in Configs
  /\ tbl_xpub \subseteq XpubRows
  /\ path_idx \in [XpubRows -> {-1} \cup Nat]
  /\ tbl_address \subseteq AddressRows
  /\ info \in [Infos -> InfoRecords]
  /\ now \in Nat
  /\ faults \in Nat
  /\ restarts \in Nat

(* What the operator has configured so far is in tbl_xpub.  Two rows of it *)
(* are one key chain when they derive the same addresses.                  *)
SameKeychain(x, y) == Hrp[x[1]] = Hrp[y[1]] /\ Account[x[2]] = Account[y[2]]

XpubsInUse == {x \in tbl_xpub : x[1] \in XpubNetworks}

(* No account has been configured twice under one prefix: for two networks *)
(* or in two encodings.  Nothing in the code enforces it.                  *)
DistinctKeychains == \A x, y \in XpubsInUse : SameKeychain(x, y) => x = y

(* No account has been configured in two encodings; two networks may have  *)
(* it in the same one.                                                     *)
OneEncoding == \A x, y \in XpubsInUse : SameKeychain(x, y) => x[2] = y[2]

Answered(i) == info[i].pc = "done" /\ info[i].address # None

(* The address answered is derived from an index the database handed out,  *)
(* now or in an earlier request of the same client.                        *)
FromDatabase(i) == Answered(i) /\ info[i].source \in {"stored", "fresh"}

(* Whatever the interleaving of the handlers, the failures of the database *)
(* and the restarts, two clients are never given the same derived address  *)
(* (echo_info; "address reuse prevention"), as long as no account has been *)
(* configured twice: each row of tbl_xpub counts from 0.  The answers made *)
(* from the (0, 0) fallback of get_next_address_index are the exception.   *)
AddressNotShared ==
  DistinctKeychains =>
    \A i, j \in Infos :
      (FromDatabase(i) /\ FromDatabase(j) /\ info[i].address = info[j].address)
        => info[i].remote = info[j].remote

(* An address the server has handed out is one that echo_push will accept  *)
(* as its own, as long as no database call failed and the operator still   *)
(* uses the key it was derived from, never having used another encoding of *)
(* its account: a will that pays it is not refused.                        *)
OfferedIsRecognised ==
  \A i \in Infos :
    LET n == info[i].network IN
    (faults = 0 /\ OneEncoding /\ FromDatabase(i) /\ info[i].xpub = <<n, config[n]>>)
      => info[i].address \in KnownAddresses(config[n])

(* A client that was already answered is given, without failures, for the  *)
(* same key and with no account configured twice, an address it was given  *)
(* before: its later requests burn no index, however they interleave with  *)
(* the requests of others.                                                 *)
AnsweredClientKeepsAddress ==
  \A i, j \in Infos :
    (/\ faults = 0 /\ DistinctKeychains
     /\ FromDatabase(i) /\ FromDatabase(j)
     /\ i \in info[j].after
     /\ info[i].remote = info[j].remote
     /\ info[i].xpub = info[j].xpub)
    => info[j].source = "stored"
=============================================================================
