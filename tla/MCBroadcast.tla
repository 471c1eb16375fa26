---------------------------- MODULE MCBroadcast -----------------------------
(***************************************************************************)
(* Instances of Broadcast small enough for TLC.  alice owns both tenants.  *)
(***************************************************************************)
EXTENDS Broadcast, TLC

CONSTANTS alice, mallory, t1, t2, c1, c2

MCOwnerOf == [t \in Tenants |-> alice]

Coin(d, a) == [denom |-> d, amount |-> a]
SendMsg(from, coins) == [type |-> "send", from |-> from, coins |-> coins]
WithdrawMsg(q) == [type |-> "withdraw", asset |-> "usdc", quantums |-> q]

CosmosTx(signer, msgs) ==
  [rail |-> "cosmos", decodes |-> TRUE, signers |-> <<signer>>, msgs |-> msgs]

EvmTx(chain, to, value, amount) ==
  [rail |-> "evm", decodes |-> TRUE, signers |-> <<alice>>, chain |-> chain,
   to |-> to, value |-> value,
   call |-> [sel |-> "transfer", words |-> 2, from |-> alice, amount |-> amount]]

BankUsdc == CosmosTx(alice, <<SendMsg(alice, <<Coin("erc20/usdc", 1)>>)>>)
BankBoth == CosmosTx(alice, <<SendMsg(alice, <<Coin("asvp", 1), Coin("erc20/usdc", 1)>>)>>)
Erc20Usdc == EvmTx("home", "USDC", 0, 1)
Inbound == EvmTx("base", "USDC", 0, 1)
NotOwners == CosmosTx(mallory, <<SendMsg(mallory, <<Coin("erc20/usdc", 1)>>)>>)
Withdraw2 == CosmosTx(alice, <<WithdrawMsg(1), WithdrawMsg(1)>>)
WithdrawAll == CosmosTx(alice, <<WithdrawMsg(7), WithdrawMsg(7)>>)

MixedTxs == {BankBoth, Erc20Usdc, Inbound, NotOwners, Withdraw2, WithdrawAll}
OneTx == {BankUsdc}

MCCapValues == {1}
MCAmounts == {1}
MCForeign == {"base"}

Symmetry == Permutations(Requests)

Made == {r \in Requests : req[r].pc # "idle"}
TenantsOf(R) == {req[r].tenant : r \in R}
ClientsOf(R) == {req[r].client : r \in R}

(***************************************************************************)
(* Bound of the run on both handlers: t2 and c2 appear after t1 and c1.    *)
(* Two tenants, failing writes and late cap changes go with one kind of    *)
(* transaction on one client_id, where the clock and the date do not both  *)
(* move; both rails, every transaction and every client_id go with one     *)
(* tenant and one tick, where midnight and a cut-off call do not meet.     *)
(***************************************************************************)
InScope ==
  /\ t2 \in TenantsOf(Made) => t1 \in TenantsOf(Made)
  /\ c2 \in ClientsOf(Made) => c1 \in ClientsOf(Made)
  /\ \/ /\ \A r \in Made : req[r].tx = Erc20Usdc
        /\ ClientsOf(Made) \subseteq {c1}
        /\ now = 1 \/ today = 1
     \/ /\ TenantsOf(Made) \subseteq {t1}
        /\ now = 1 /\ ~writeFailed /\ recapped = {}
        /\ today = 1 \/ \A r \in Made : req[r].pc # "cut"

BoundedSpec == Init /\ [][Next /\ InScope']_vars
=============================================================================
