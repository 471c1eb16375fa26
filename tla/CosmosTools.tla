----------------------------- MODULE CosmosTools ----------------------------
(***************************************************************************)
(* The Cosmos build tools and what becomes of their payloads: the trading  *)
(* tools (tools/trade.go, trade_v022.go, builder/orders.go, cancels.go),   *)
(* the funds tools (tools/funds.go, builder/funds.go), the assembler       *)
(* (builder/seq.go, tx.go) and the signer (lib/mcp/signer, cmd/devsign).   *)
(* One owner's account on the chain, external, is a sequence number; a     *)
(* payload carries the one its build read, and several payloads may be     *)
(* waiting for their signature when one of them is broadcast.  The         *)
(* expires_at of a payload (builder/tx.go:99) is left out: no code reads   *)
(* it.                                                                     *)
(*                                                                         *)
(* A request is a record of a tool's arguments; a request the tool refuses *)
(* has no message.                                                         *)
(***************************************************************************)
EXTENDS Units, WithdrawLedger, TxInspect, FiniteSets

CONSTANTS
  Owner, Tenant,
  Markets,             \* ticker -> MarketMeta [pair, atomic, qce, step, tick]
  Digits,              \* decimals of USDC: 6 in the code
  Decimals,            \* decimals of the denoms the server knows
  DepositMaxUSDC, TransferMaxUSDC,
  AllowedSubaccounts, FeeAmount,
  Requests, FollowUps, \* requests; those also made while a payload waits
  MaxPayloads, MaxSeq  \* bounds: payloads waiting, sequence numbers consumed

ASSUME DigitsAssumption == QuantumsPerUSDC = 10^Digits

VARIABLES
  sequence,   \* chain: the account's sequence number
  ledger,     \* withdraw ledger
  payloads    \* built and not yet accepted: [in, msgs, seq, short, fee, overtaken]

cosmosVars == <<sequence, ledger, payloads>>

Unset == [n |-> 0, d |-> -1]   \* an empty decimal

ShortTerm == 0
Conditional == 32
LongTerm == 64

\* ValidateBasic of the chain's messages, external.
ValidateBasic(m) ==
  CASE m.type = "order" ->
         /\ m.quantums > 0 /\ m.subticks > 0
         /\ m.flags = Conditional => m.trigger > 0
    [] m.type = "batch" -> m.ids # {}
    [] OTHER -> TRUE

Order(in, flags, subticks, trigger) ==
  [type |-> "order", pair |-> Markets[in.ticker].pair, client |-> in.client,
   flags |-> flags, side |-> in.side, trigger |-> trigger, subticks |-> subticks,
   quantums |-> SizeToQuantums(in.size, Markets[in.ticker])]

Sides == {"BUY", "SELL"}
TimesInForce == {"", "UNSPECIFIED", "IOC", "POST_ONLY"}
ConditionTypes == {"STOP_LOSS", "TAKE_PROFIT"}

\* The orders of a request: one, or none where a check or a conversion fails.
Checked(orders) ==
  {o \in orders : Bad \notin {o.quantums, o.subticks, o.trigger} /\ o.side \in Sides
                  /\ ValidateBasic(o)}

PlaceLimitOrder(in) ==
  IF in.ticker \in DOMAIN Markets /\ in.tif \in TimesInForce /\ in.goodTil # 0
    THEN Checked({Order(in, ShortTerm, PriceToSubticks(in.price, Markets[in.ticker]), 0)})
    ELSE {}

\* An explicit worst price wins over oracle price and slippage.
PlaceMarketOrder(in) ==
  IF in.ticker \in DOMAIN Markets /\ in.goodTil # 0
     /\ (in.worst # Unset \/ (in.oracle # Unset /\ in.bps > 0))
    THEN LET meta == Markets[in.ticker]
         IN  Checked({Order(in, ShortTerm,
                            IF in.worst # Unset THEN PriceToSubticks(in.worst, meta)
                            ELSE AggressiveSubticks(in.side, in.oracle, in.bps, meta), 0)})
    ELSE {}

PlaceConditionalOrder(in) ==
  IF in.ticker \in DOMAIN Markets /\ in.tif \in TimesInForce /\ in.goodTil # 0
     /\ in.condition \in ConditionTypes
    THEN LET meta == Markets[in.ticker]
         IN  Checked({Order(in, Conditional, PriceToSubticks(in.price, meta),
                            PriceToSubticks(in.trigger, meta))})
    ELSE {}

\* validateCancelFlags: a short-term cancel names a block, a stateful one a time.
ValidateCancelFlags(flags, block, time) ==
  \/ flags = ShortTerm /\ block # 0 /\ time = 0
  \/ flags \in {Conditional, LongTerm} /\ time # 0 /\ block = 0

CancelOrder(in) ==
  IF ValidateCancelFlags(in.flags, in.block, in.time)
    THEN {[type |-> "cancel", client |-> in.client, flags |-> in.flags]}
    ELSE {}

BatchCancelOrders(in) ==
  IF in.batches # <<>> /\ in.goodTil # 0 /\ \A i \in 1..Len(in.batches) : in.batches[i] # {}
    THEN {[type |-> "batch", ids |-> UNION {in.batches[i] : i \in 1..Len(in.batches)}]}
    ELSE {}
-----------------------------------------------------------------------------
\* limits.CheckPerTx of a tool with its own cap.
WithinCap(q, maxUSDC) == CapEnabled(maxUSDC) => q <= maxUSDC * QuantumsPerUSDC

\* limits.Enforce of build_withdraw_from_subaccount.
WithdrawFits(q) == EnforcePasses(ledger, Tenant, q)

\* A USDC amount of zero makes no message.
Quantums(in) == HumanToQuantums(in.amount, Digits)
USDCMsg(type, in) ==
  {m \in {[type |-> type, asset |-> "usdc", quantums |-> Quantums(in)]} : m.quantums > 0}

DepositToSubaccount(in) == USDCMsg("deposit", in)
WithdrawFromSubaccount(in) == USDCMsg("withdraw", in)
TransferBetweenSubaccounts(in) ==
  IF in.sub # in.recipient THEN USDCMsg("transfer", in) ELSE {}

\* A denom the server knows takes a decimal, any other a positive integer.
ResolveSendAmount(denom, amount) ==
  IF denom \in DOMAIN Decimals THEN HumanToBaseUnits(amount, Decimals[denom])
  ELSE IF amount.d = 0 /\ amount.n > 0 THEN amount.n ELSE Bad

BankSend(in, amount) ==
  {m \in {[type |-> "send", from |-> Owner, to |-> in.to,
           coins |-> <<[denom |-> in.denom, amount |-> amount]>>]} : amount > 0}
-----------------------------------------------------------------------------
\* Mutant of IsShortTermClobMsgs: every message of the order book counts.
IsShortTermAnyClob(msgs) == Len(msgs) = 1 /\ msgs[1].type \in {"order", "cancel", "batch"}

IsShortTermClobMsgs(msgs) ==
  /\ Len(msgs) = 1
  /\ \/ msgs[1].type \in {"order", "cancel"} /\ msgs[1].flags = ShortTerm
     \/ msgs[1].type = "batch"

\* The payload of one message, for the sequence number the handler has just read.
Assemble(in, m) ==
  LET short == IsShortTermClobMsgs(<<m>>)
  IN  /\ payloads' = payloads \cup
           {[in |-> in, msgs |-> <<m>>, seq |-> sequence, short |-> short,
             fee |-> IF short THEN 0 ELSE FeeAmount, overtaken |-> FALSE]}
      /\ UNCHANGED <<sequence, ledger>>

\* The production signer, external, signs the payload as it is; signer.Sign, which
\* devsign and the tests use, writes no fee into AuthInfo.
SignTransaction(p) == [msgs |-> p.msgs, seq |-> p.seq, fee |-> p.fee]
Sign(p) == [msgs |-> p.msgs, seq |-> p.seq, fee |-> 0]

\* The chain's ante handler, external: it asks no fee of a short-term order message
\* and does not increment the sequence for it.
ShortTermTx(msgs) ==
  /\ Len(msgs) = 1
  /\ \/ msgs[1].type \in {"order", "cancel"} /\ msgs[1].flags = ShortTerm
     \/ msgs[1].type = "batch"
Ante(tx) == tx.seq = sequence /\ (ShortTermTx(tx.msgs) \/ tx.fee >= FeeAmount)

CosmosInit ==
  /\ sequence = 0
  /\ ledger = NewMemoryLedger
  /\ payloads = {}

-----------------------------------------------------------------------------
\* The build tools: the subaccount gate, the caps, the account read, the builder.
CheckSubaccount(n) == n \in AllowedSubaccounts

BuildPlaceLimitOrder(in) ==
  /\ CheckSubaccount(in.sub)
  /\ \E m \in PlaceLimitOrder(in) : Assemble(in, m)

BuildPlaceMarketOrder(in) ==
  /\ CheckSubaccount(in.sub)
  /\ \E m \in PlaceMarketOrder(in) : Assemble(in, m)

BuildPlaceConditionalOrder(in) ==
  /\ CheckSubaccount(in.sub)
  /\ \E m \in PlaceConditionalOrder(in) : Assemble(in, m)

BuildCancelOrder(in) ==
  /\ CheckSubaccount(in.sub)
  /\ \E m \in CancelOrder(in) : Assemble(in, m)

BuildBatchCancelOrders(in) ==
  /\ CheckSubaccount(in.sub)
  /\ \E m \in BatchCancelOrders(in) : Assemble(in, m)

BuildDepositToSubaccount(in) ==
  /\ CheckSubaccount(in.sub)
  /\ Quantums(in) # Bad /\ WithinCap(Quantums(in), DepositMaxUSDC)
  /\ \E m \in DepositToSubaccount(in) : Assemble(in, m)

BuildWithdrawFromSubaccount(in) ==
  /\ CheckSubaccount(in.sub)
  /\ Quantums(in) # Bad /\ WithdrawFits(Quantums(in))
  /\ \E m \in WithdrawFromSubaccount(in) : Assemble(in, m)

BuildTransferBetweenSubaccounts(in) ==
  /\ CheckSubaccount(in.sub) /\ CheckSubaccount(in.recipient)
  /\ Quantums(in) # Bad /\ WithinCap(Quantums(in), TransferMaxUSDC)
  /\ \E m \in TransferBetweenSubaccounts(in) : Assemble(in, m)

BuildBankSend(in) ==
  LET amount == ResolveSendAmount(in.denom, in.amount)
  IN  amount # Bad /\ \E m \in BankSend(in, amount) : Assemble(in, m)

\* History: the tools whose transactions the chain numbers, and the payloads that
\* are left behind when one of them lands.
TakesNumber(in) ==
  \/ in.tool \in {"conditional", "deposit", "withdraw", "transfer", "send"}
  \/ in.tool = "cancel" /\ in.flags # ShortTerm
Overtaken(waiting, numbered) == {[p EXCEPT !.overtaken = @ \/ numbered] : p \in waiting}

\* broadcast_signed_tx (in full in Broadcast): the ledger decides and then records,
\* the chain takes the transaction.
BroadcastSigned(p, tx) ==
  LET q == ExtractWithdrawQuantums(tx)
  IN  /\ q > 0 => EnforcePasses(ledger, Tenant, q)
      /\ Ante(tx)
      /\ sequence' = IF ShortTermTx(tx.msgs) THEN sequence ELSE sequence + 1
      /\ ledger' = IF q > 0 THEN LedgerRecord(ledger, Tenant, q, ledger.day) ELSE ledger
      /\ payloads' = Overtaken(payloads \ {p}, TakesNumber(p.in))

BroadcastPayload ==
  /\ sequence < MaxSeq
  /\ \E p \in payloads : \E tx \in {SignTransaction(p), Sign(p)} : BroadcastSigned(p, tx)

\* Another wallet of the owner, or a payload this server did not build, is used.
OtherTx ==
  /\ sequence < MaxSeq
  /\ sequence' = sequence + 1
  /\ payloads' = Overtaken(payloads, TRUE)
  /\ UNCHANGED ledger

\* The calls of a tool the instance makes now.
Asked(tool) ==
  IF Cardinality(payloads) < MaxPayloads
    THEN {in \in IF payloads = {} THEN Requests ELSE FollowUps : in.tool = tool}
    ELSE {}

CosmosNext ==
  \/ \E in \in Asked("limit") : BuildPlaceLimitOrder(in)
  \/ \E in \in Asked("market") : BuildPlaceMarketOrder(in)
  \/ \E in \in Asked("conditional") : BuildPlaceConditionalOrder(in)
  \/ \E in \in Asked("cancel") : BuildCancelOrder(in)
  \/ \E in \in Asked("batch") : BuildBatchCancelOrders(in)
  \/ \E in \in Asked("deposit") : BuildDepositToSubaccount(in)
  \/ \E in \in Asked("withdraw") : BuildWithdrawFromSubaccount(in)
  \/ \E in \in Asked("transfer") : BuildTransferBetweenSubaccounts(in)
  \/ \E in \in Asked("send") : BuildBankSend(in)
  \/ BroadcastPayload
  \/ OtherTx
-----------------------------------------------------------------------------
(***************************************************************************)
(* A payload signed as it was built is taken by the chain until a          *)
(* transaction the chain numbers overtakes it, and from then on never: the *)
(* sequence number read at build time survives any number of limit and     *)
(* market orders, short-term cancels and batch cancels sent in between,    *)
(* and the fee is there exactly where the chain asks for one.  How long a  *)
(* payload waits does not matter, whatever its expires_at says.            *)
(* (GetSequence, IsShortTermClobMsgs, Assemble)                            *)
(***************************************************************************)
GoodUntilOvertaken ==
  \A p \in payloads : Ante(SignTransaction(p)) <=> ~p.overtaken

\* An exact price: num / den subticks.
Exact(price, meta) ==
  LET e == PriceExponent(meta)
  IN  [num |-> price.n * (IF e >= 0 THEN 10^e ELSE 1),
       den |-> 10^price.d * (IF e >= 0 THEN 1 ELSE 10^(-e))]
Worst(in) ==
  LET x == Exact(in.oracle, Markets[in.ticker])
  IN  [num |-> x.num * (IF in.side = "BUY" THEN BpsDenom + in.bps ELSE BpsDenom - in.bps),
       den |-> x.den * BpsDenom]

\* The greatest integer that is not above x, and how far subticks may be from a tick.
IsFloor(n, x) == n * x.den <= x.num /\ x.num < (n + 1) * x.den
Slack(meta) == IF meta.tick = 0 THEN 1 ELSE meta.tick

(***************************************************************************)
(* An order is the one asked for, to the grain of the market: its size is  *)
(* the size typed less a part of a quantum; the price of a limit, of a     *)
(* conditional order with its trigger, or of a market order with an        *)
(* explicit worst price is the price typed less a part of a subtick; the   *)
(* price of any other market order is within a tick of the worst price,    *)
(* for a BUY never above it.  Both lie on the grid and neither is zero.    *)
(* The parts are dropped without an error.  (SizeToQuantums,               *)
(* PriceToSubticks, AggressiveSubticks; a worst price within a tick of the *)
(* uint64 range wraps and is left out)                                     *)
(***************************************************************************)
OrderIsWhatWasAsked ==
  \A p \in payloads : p.in.tool \in {"limit", "market", "conditional"} =>
    LET in == p.in
        m == p.msgs[1]
        meta == Markets[in.ticker]
        worst == Worst(in)
    IN  /\ IsFloor(m.quantums, [num |-> in.size.n * 10^(-meta.atomic), den |-> 10^in.size.d])
        /\ CASE in.tool = "limit" -> IsFloor(m.subticks, Exact(in.price, meta))
             [] in.tool = "conditional" -> /\ IsFloor(m.subticks, Exact(in.price, meta))
                                           /\ IsFloor(m.trigger, Exact(in.trigger, meta))
             [] in.worst # Unset -> IsFloor(m.subticks, Exact(in.worst, meta))
             [] in.side = "BUY" -> /\ m.subticks * worst.den <= worst.num
                                   /\ worst.num < (m.subticks + Slack(meta)) * worst.den
             [] OTHER -> worst.num + Slack(meta) * worst.den <= MaxUint * worst.den =>
                           /\ worst.num < (m.subticks + 1) * worst.den
                           /\ (m.subticks - Slack(meta)) * worst.den < worst.num
        /\ meta.step > 0 => m.quantums % meta.step = 0
        /\ meta.tick > 0 => m.subticks % meta.tick = 0
        /\ m.quantums > 0 /\ m.subticks > 0

(***************************************************************************)
(* What the caps will be held against when a payload is broadcast is what  *)
(* the caller typed: a withdraw counts the typed USDC, a send the typed    *)
(* amount under its own symbol, and nothing else counts at all.            *)
(***************************************************************************)
CapsSeeWhatWasTyped ==
  \A p \in payloads :
    LET tx == [rail |-> "cosmos", decodes |-> TRUE, signers |-> <<Owner>>, msgs |-> p.msgs]
        out == Outflow(tx, Owner)
    IN  /\ p.in.tool = "withdraw" =>
             Withdrawal(tx) * 10^p.in.amount.d = p.in.amount.n * QuantumsPerUSDC
        /\ p.in.tool # "withdraw" => Withdrawal(tx) = 0
        /\ \A s \in AssetSymbols :
             IF p.in.tool = "send" /\ s \in SymbolForDenom(p.in.denom)
               THEN out[s] * 10^p.in.amount.d = p.in.amount.n * 10^Decimals[p.in.denom]
               ELSE out[s] = 0
-----------------------------------------------------------------------------
(***************************************************************************)
(* lib/mcp/units/market_order.go:64 says of the snapping to a tick "SELLs  *)
(* snap UP (don't undercut)", "preserving the worst-price guarantee": a    *)
(* market order priced from oracle and slippage never buys above nor sells *)
(* below the worst price.  The subticks of a SELL are truncated before     *)
(* they are snapped, so one that truncates to a tick undercuts it.         *)
(***************************************************************************)
WorstPriceKept ==
  \A p \in payloads : p.in.tool = "market" /\ p.in.worst = Unset =>
    IF p.in.side = "BUY"
      THEN p.msgs[1].subticks * Worst(p.in).den <= Worst(p.in).num
      ELSE p.msgs[1].subticks * Worst(p.in).den >= Worst(p.in).num
=============================================================================
