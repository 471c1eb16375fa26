----------------------------- MODULE TxInspect ------------------------------
(***************************************************************************)
(* What the broadcast handlers read out of a signed transaction:           *)
(* lib/mcp/tools/cross.go (extractWithdrawQuantums, extractBankSends,      *)
(* signerAddressFromTxRaw), evm.go (decodeTransferOut, sender recovery)    *)
(* and the symbol registry of assets.go.                                   *)
(*                                                                         *)
(* A Cosmos transaction is [rail |-> "cosmos", decodes, signers, msgs]; a  *)
(* message is a withdraw [type, asset, quantums], a send [type, from,      *)
(* coins] or one of a type that is neither.  An EVM transaction is         *)
(* [rail |-> "evm", decodes, signers, chain, to, value, call], where call  *)
(* is [sel, words, from, amount]: the method selector, the number of       *)
(* complete argument words, and the decoded arguments.                     *)
(***************************************************************************)
EXTENDS Uint64, Sequences

LOCAL INSTANCE Folds

CONSTANTS
  Router, WSVP,    \* swap router and wrapped SVP; the zero address without swaps
  ForeignChains    \* chain ids of the configured foreign chains

NoAddress == "none"   \* tx.To() of a contract creation; an asset without contract
NoDenom == ""

TransferOutAssets == {
  [symbol |-> "svp", denom |-> "asvp", erc20 |-> NoAddress, native |-> TRUE],
  [symbol |-> "usdc", denom |-> "erc20/usdc", erc20 |-> "USDC", native |-> FALSE],
  [symbol |-> "usdv", denom |-> NoDenom, erc20 |-> "USDV", native |-> FALSE]}

AssetSymbols == {a.symbol : a \in TransferOutAssets}

\* The symbols a denom, a contract or a native value stands for: one or none.
SymbolForDenom(d) ==
  {a.symbol : a \in {b \in TransferOutAssets : b.denom # NoDenom /\ b.denom = d}}
SymbolForToken(t) ==
  {a.symbol : a \in {b \in TransferOutAssets : b.erc20 # NoAddress /\ b.erc20 = t}}
SymbolForNative == {a.symbol : a \in {b \in TransferOutAssets : b.native}}

\* A loop over seq that folds it into `base`, first element first.
FoldLeft(op(_, _), base, seq) ==
  MapThenFoldSet(LAMBDA x, total : op(total, x), base, LAMBDA i : seq[i],
                 LAMBDA S : CHOOSE i \in S : \A j \in S : j <= i, DOMAIN seq)

SumSeq(seq) == FoldLeft(LAMBDA total, n : total + n, 0, seq)

Overflow == -1

\* Mutant of AddWithdraw: the wrapped sum is kept.
AddWithdrawWrapping(total, m) ==
  IF m.type # "withdraw"
    THEN total
    ELSE IF m.asset = "usdc" THEN AddUint(total, m.quantums) ELSE total

\* One turn of the loop: uint64 addition wraps, and a wrapped sum is an error.
AddWithdraw(total, m) ==
  IF total = Overflow \/ m.type # "withdraw"
    THEN total
    ELSE IF m.asset # "usdc"
      THEN total
      ELSE LET sum == AddUint(total, m.quantums)
           IN  IF sum < total THEN Overflow ELSE sum

ExtractWithdrawQuantums(tx) == FoldLeft(AddWithdraw, 0, tx.msgs)

\* The signer's own sends of a symbol, over all messages and coins.
SentCoins(m, s, signer) ==
  IF m.type = "send"
    THEN IF m.from = signer
           THEN SumSeq([i \in 1..Len(m.coins) |->
                  IF s \in SymbolForDenom(m.coins[i].denom)
                    THEN m.coins[i].amount ELSE 0])
           ELSE 0
    ELSE 0

ExtractBankSends(tx, signer) ==
  [s \in AssetSymbols |->
     SumSeq([i \in 1..Len(tx.msgs) |-> SentCoins(tx.msgs[i], s, signer)])]

\* A plain value send, unless it is the value leg of a swap or a wrap.
NativeOut(tx, s) ==
  IF tx.to \notin {NoAddress, Router, WSVP} /\ s \in SymbolForNative
    THEN tx.value ELSE 0

\* A top-level transfer, or transferFrom the owner, on a known token.
TokenOut(tx, s, owner) ==
  IF /\ s \in SymbolForToken(tx.to)
     /\ \/ tx.call.sel = "transfer" /\ tx.call.words >= 2
        \/ tx.call.sel = "transferFrom" /\ tx.call.words >= 3 /\ tx.call.from = owner
    THEN tx.call.amount ELSE 0

DecodeTransferOut(tx, owner) ==
  [s \in AssetSymbols |-> NativeOut(tx, s) + TokenOut(tx, s, owner)]

IsHome(tx) == tx.rail = "cosmos" \/ tx.chain \notin ForeignChains

\* The transaction decodes and its one signer is the owner.
SignedBy(tx, owner) == tx.decodes /\ tx.signers = <<owner>>

\* Base units the transaction moves out, by cap symbol, as the handlers see it.
Outflow(tx, owner) ==
  CASE tx.rail = "cosmos" -> ExtractBankSends(tx, owner)
    [] tx.rail = "evm" /\ IsHome(tx) -> DecodeTransferOut(tx, owner)
    [] OTHER -> [s \in AssetSymbols |-> 0]

\* USDC quantums the transaction withdraws; only Cosmos messages withdraw.
Withdrawal(tx) ==
  IF tx.rail = "cosmos" THEN ExtractWithdrawQuantums(tx) ELSE 0
=============================================================================
