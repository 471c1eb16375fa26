---------------------------- MODULE MCTxInspect -----------------------------
(***************************************************************************)
(* Two questions about Cosmos transactions.  TxInspect against reference   *)
(* definitions: a transaction is composed one message at a time, and after *)
(* every message what the handlers would read out of it is compared with   *)
(* the sums taken over all messages at once.  CosmosTools: the payloads    *)
(* the build tools make, waiting together and sent in any order.           *)
(***************************************************************************)
EXTENDS CosmosTools

LOCAL INSTANCE FiniteSetsExt
LOCAL INSTANCE TLC

CONSTANT MaxMsgs   \* bound: messages in a transaction

VARIABLE tx

Wallets == {"alice", "bob"}
Coins == [denom : {"asvp", "erc20/usdc", "uatom"}, amount : 0..1]
Msgs ==
  [type : {"withdraw"}, asset : {"usdc", "other"}, quantums : {0, 1, MaxUint - 1, MaxUint}]
    \cup [type : {"send"}, from : Wallets, coins : {<<c>> : c \in Coins}]
    \cup [type : {"send"}, from : {"alice"},
          coins : {<<c, d>> : c \in Coins, d \in {[denom |-> "erc20/usdc", amount |-> 2]}}]
    \cup [type : {"order"}]

MCMarkets ==
  "BTC-USD" :> [pair |-> 0, atomic |-> -1, qce |-> 4, step |-> 5, tick |-> 4]
    @@ "ETH-USD" :> [pair |-> 1, atomic |-> 0, qce |-> 7, step |-> 0, tick |-> 3]
MCDecimals == "asvp" :> 2 @@ "erc20/usdc" :> 1

Decimal(n, d) == [n |-> n, d |-> d]
Sizes == {Decimal(-1, 2), Decimal(0, 0), Decimal(1, 0), Decimal(2, 0), Decimal(10, 0),
          Decimal(15, 1), Decimal(104, 2), Decimal(109, 2), Decimal(25, 1)}
Prices == {Decimal(0, 0), Decimal(2, 0), Decimal(4, 1), Decimal(81, 2), Decimal(24, 1),
           Decimal(60, 0), Decimal(95, 1), Decimal(333, 1), Decimal(900, 0), Decimal(1001, 0)}
Amounts == {Decimal(-1, 0), Decimal(0, 0), Decimal(1, 0), Decimal(5, 1), Decimal(15, 1),
            Decimal(155, 2), Decimal(10, 0)}

Limit(tickers, sides, sizes, prices, tifs, goodTils) ==
  [tool : {"limit"}, sub : {0}, client : {1}, ticker : tickers, side : sides,
   size : sizes, price : prices, tif : tifs, goodTil : goodTils]
Market(sizes, worsts, oracles, slippages) ==
  [tool : {"market"}, sub : {0}, client : {1}, ticker : {"BTC-USD", "ETH-USD"}, side : Sides,
   size : sizes, worst : worsts, oracle : oracles, bps : slippages, goodTil : {1}]
One == {Decimal(1, 0)}
Two == {Decimal(2, 0)}

MCRequests ==
  Limit({"BTC-USD", "ETH-USD"}, {"BUY"}, Sizes, Two, {"IOC"}, {1})
  \cup Limit({"BTC-USD", "ETH-USD"}, {"SELL"}, One, Prices, {""}, {1})
  \cup Limit({"BTC-USD", "NO-USD"}, {"SELL", "sell"}, One, Two, {"IOC", "FOK"}, 0..1)
  \cup Market(One, {Unset}, {Unset} \cup Prices, {0, 50, 1000, 10000})
  \cup Market({Decimal(109, 2)}, Prices, {Unset} \cup Two, {50})
  \cup [tool : {"conditional"}, sub : {0}, client : {1}, ticker : {"BTC-USD"},
        side : {"SELL"}, size : {Decimal(1, 0), Decimal(109, 2)}, price : {Decimal(2, 0), Decimal(81, 2)},
        trigger : Prices, condition : {"STOP_LOSS", ""}, tif : {""}, goodTil : 0..1]
  \cup [tool : {"cancel"}, sub : 0..1, client : {1}, flags : {0, 1, 32, 64},
        block : 0..1, time : 0..1]
  \cup [tool : {"batch"}, sub : {0}, batches : {<<>>, <<{1}>>, <<{1}, {}>>, <<{1, 2}, {1}>>},
        goodTil : 0..1]
  \cup [tool : {"deposit", "withdraw"}, sub : {0}, amount : Amounts]
  \cup [tool : {"transfer"}, sub : {0}, recipient : 0..2, amount : Amounts]
  \cup [tool : {"send"}, to : {"bob"}, denom : {"asvp", "erc20/usdc", "uatom"},
        amount : Amounts]

\* One of each class: short-term and stateful, with and without a cap.
MCFollowUps ==
  {in \in MCRequests :
     \/ in.tool = "cancel" /\ in.sub = 0 /\ in.flags \in {0, 64}
     \/ in.tool = "withdraw"}

\* Market orders that sell, far from the end of the uint64 range.
SellRequests ==
  {in \in Market(One, {Unset}, {Decimal(81, 2), Decimal(24, 1), Decimal(95, 1)}, {50}) :
     in.side = "SELL"}

Init ==
  /\ tx = [rail |-> "cosmos", decodes |-> TRUE, signers |-> <<"alice">>, msgs |-> <<>>]
  /\ CosmosInit

\* The two questions share no state: one behaviour is about one of them.
Compose ==
  /\ payloads = {} /\ sequence = 0
  /\ Len(tx.msgs) < MaxMsgs
  /\ \E m \in Msgs : tx' = [tx EXCEPT !.msgs = Append(@, m)]
  /\ UNCHANGED cosmosVars

UseTools == tx.msgs = <<>> /\ CosmosNext /\ UNCHANGED tx

Next == Compose \/ UseTools

Spec == Init /\ [][Next]_<<tx, cosmosVars>>
-----------------------------------------------------------------------------
Withdraws ==
  {i \in 1..Len(tx.msgs) : tx.msgs[i].type = "withdraw" /\ tx.msgs[i].asset = "usdc"}
WithdrawTotal == MapThenSumSet(LAMBDA i : tx.msgs[i].quantums, Withdraws)

CoinsOut(s) ==
  {p \in (1..Len(tx.msgs)) \X (1..2) :
     /\ tx.msgs[p[1]].type = "send"
     /\ tx.msgs[p[1]].from = "alice"
     /\ p[2] \in 1..Len(tx.msgs[p[1]].coins)
     /\ tx.msgs[p[1]].coins[p[2]].denom = (CASE s = "svp" -> "asvp"
                                             [] s = "usdc" -> "erc20/usdc"
                                             [] OTHER -> "no denom")}

(***************************************************************************)
(* The handler reads a transaction exactly, whatever the number and order  *)
(* of its messages.  extractWithdrawQuantums returns the sum of all USDC   *)
(* withdraws, and an error exactly when that sum does not fit a uint64: no *)
(* wrapped sum passes for a small one.  extractBankSends meters every coin *)
(* of every send of the signer under its symbol, and nothing else.         *)
(***************************************************************************)
InspectionIsExact ==
  /\ ExtractWithdrawQuantums(tx) =
       IF WithdrawTotal > MaxUint THEN Overflow ELSE WithdrawTotal
  /\ \A s \in AssetSymbols :
       ExtractBankSends(tx, "alice")[s] =
         MapThenSumSet(LAMBDA p : tx.msgs[p[1]].coins[p[2]].amount, CoinsOut(s))
=============================================================================
