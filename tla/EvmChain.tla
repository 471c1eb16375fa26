------------------------------ MODULE EvmChain ------------------------------
(***************************************************************************)
(* The EVM chains as the server sees them through lib/mcp/chain/evm.go:    *)
(* accounts, contracts and the transaction pool of one node per chain.     *)
(* Everything here is external; only what the tools read or call is kept.  *)
(*                                                                         *)
(* A chain is a record: nonce counts the owner's mined transactions, pool  *)
(* holds the accepted ones still waiting, fate the mined ones with their   *)
(* outcome, bal and allow the balances and the allowances (Zero being the  *)
(* native coin), rate what the router pays on a path, nft the one token  *)
(* of the collection, and log the deposits the bridge contract recorded.   *)
(***************************************************************************)
EXTENDS Integers, Sequences, FiniteSets, Addresses

CONSTANTS
  Owner,       \* the tenant's address
  Router,      \* the swap router
  MaxUint256   \* the allowance a contract never lowers

Gives(c, token, to, amount) ==
  IF <<token, to>> \in DOMAIN c.bal THEN [c EXCEPT !.bal[<<token, to>>] = @ + amount] ELSE c
Takes(c, token, from, amount) == [c EXCEPT !.bal[<<token, from>>] = @ - amount]
Spends(c, token, from, spender) == c.allow[<<token, from, spender>>]

\* transferFrom by a contract or an account that was approved; {} is a revert.
Pulls(c, token, from, spender, amount) ==
  IF Spends(c, token, from, spender) >= amount /\ c.bal[<<token, from>>] >= amount
    THEN {Takes([c EXCEPT !.allow[<<token, from, spender>>] =
                   IF @ = MaxUint256 THEN @ ELSE @ - amount], token, from, amount)}
    ELSE {}

Sends(c, token, amount) ==
  IF c.bal[<<token, Owner>>] >= amount THEN {Takes(c, token, Owner, amount)} ELSE {}

\* getAmountsOut, and the swap that pays it; a pair without liquidity has no rate.
AmountsOut(c, amount, path) == IF path \in DOMAIN c.rate THEN amount * c.rate[path] ELSE 0

Swaps(c, call) ==
  LET paid == AmountsOut(c, call.amount, call.path)
      pulled == IF call.op = "swapExactSVPForTokens" THEN Sends(c, Zero, call.value)
                ELSE Pulls(c, call.path[1], Owner, Router, call.amount)
      out == IF call.op = "swapExactTokensForSVP" THEN Zero ELSE call.path[2]
  IN  IF paid >= call.min /\ paid > 0
        THEN {Gives(d, out, call.dest, paid) : d \in pulled} ELSE {}

MovesNft(c, call) ==
  IF /\ call.id = c.nft.id /\ call.from = c.nft.owner
     /\ c.nft.owner = Owner \/ c.nft.approved = Owner
  THEN {[c EXCEPT !.nft.owner = call.dest, !.nft.approved = Zero]} ELSE {}

\* What a call by the owner does to a chain: no result when it reverts.
Executes(c, call) ==
  CASE call.op = "transfer" ->
         {Gives(d, call.to, call.dest, call.amount) : d \in Sends(c, call.to, call.amount)}
    [] call.op = "transferFrom" ->
         {Gives(d, call.to, call.dest, call.amount) :
            d \in Pulls(c, call.to, call.from, Owner, call.amount)}
    [] call.op = "approve" -> {[c EXCEPT !.allow[<<call.to, Owner, call.dest>>] = call.amount]}
    [] call.op \in {"nftTransferFrom", "nftSafeTransferFrom"} -> MovesNft(c, call)
    [] call.op = "nftApprove" ->
         IF call.id = c.nft.id /\ c.nft.owner = Owner
           THEN {[c EXCEPT !.nft.approved = call.dest]} ELSE {}
    [] call.op = "setApprovalForAll" ->
         {[c EXCEPT !.nft.operators = IF call.approved THEN @ \cup {call.dest} ELSE @ \ {call.dest}]}
    [] call.op = "deposit" ->
         {[d EXCEPT !.log = Append(@, [target |-> call.target, token |-> call.targetToken,
                                       to |-> call.dest, amount |-> call.amount])] :
            d \in Pulls(c, call.token, Owner, call.to, call.amount)}
    [] call.op = "depositNative" ->
         {[d EXCEPT !.log = Append(@, [target |-> call.target, token |-> call.targetToken,
                                       to |-> call.dest, amount |-> call.value])] :
            d \in Sends(c, Zero, call.value)}
    [] OTHER -> Swaps(c, call)
-----------------------------------------------------------------------------
\* The next nonce, counting the transactions that wait in the pool.
PendingNonce(c) == c.nonce + Cardinality(c.pool)

\* eth_sendRawTransaction: neither a mined nonce nor one that waits is taken.
Takeable(c, tx) == tx.nonce >= c.nonce /\ \A t \in c.pool : t.nonce # tx.nonce

\* The waiting transaction whose turn it is leaves the pool with its outcome.
Mined(c, tx, ok) ==
  {[d EXCEPT !.nonce = @ + 1, !.pool = @ \ {tx},
             !.fate = @ \cup {[tx |-> tx, ok |-> ok]}] :
     d \in IF ok THEN Executes(c, tx.call) ELSE {c}}
=============================================================================
