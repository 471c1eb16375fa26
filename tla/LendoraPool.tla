---------------------------- MODULE LendoraPool -----------------------------
(***************************************************************************)
(* The lending contracts as the lendora_* tools use them (builder/         *)
(* lendora.go): an account's cTokens and debts by market, the markets it   *)
(* entered as collateral, and the Comptroller's margin check.  External.   *)
(*                                                                         *)
(* Scale stands for 1e18.  A pool is [market, entered]: market maps a      *)
(* cToken to the account's tokens and debt, to the exchange rate and price *)
(* (mantissas) and to the cToken's allowance on the underlying.  The       *)
(* contracts are taken to round where the code does.                       *)
(***************************************************************************)
EXTENDS Integers, FiniteSetsExt

CONSTANTS
  Scale,        \* 1e18
  Factor,       \* cToken -> collateral factor mantissa
  RepayMax      \* 2^256 - 1, the repay-all sentinel

NativeValue(price, amount) == (price * amount) \div Scale
WeightedNative(price, amount, cf) == (NativeValue(price, amount) * cf) \div Scale
Supplied(k) == (k.tokens * k.rate) \div Scale

CollateralOf(pool, m) ==
  LET k == pool.market[m] IN WeightedNative(k.price, Supplied(k), Factor[m])
BorrowOf(pool, m) == NativeValue(pool.market[m].price, pool.market[m].debt)

\* Liquidity less shortfall: what getAccountLiquidity answers.
AccountLiquidity(pool) ==
  MapThenSumSet(LAMBDA m : CollateralOf(pool, m), pool.entered)
    - MapThenSumSet(LAMBDA m : BorrowOf(pool, m), DOMAIN pool.market)

\* getHypotheticalAccountLiquidity after redeeming tokens and borrowing amount.
HypotheticalLiquidity(pool, m, tokens, amount) ==
  LET left == [pool EXCEPT !.market[m].tokens = @ - tokens]
  IN  AccountLiquidity(pool) - NativeValue(pool.market[m].price, amount)
        - IF m \in pool.entered THEN CollateralOf(pool, m) - CollateralOf(left, m) ELSE 0

CTokens(amount, rate) == (amount * Scale) \div rate

\* Whether the Comptroller refuses a call for want of margin.
Short(pool, call) ==
  LET k == pool.market[call.market]
  IN  CASE call.op = "redeem" -> HypotheticalLiquidity(pool, call.market, call.amount, 0) < 0
        [] call.op = "redeemUnderlying" ->
             HypotheticalLiquidity(pool, call.market, CTokens(call.amount, k.rate), 0) < 0
        [] call.op = "borrow" -> HypotheticalLiquidity(pool, call.market, 0, call.amount) < 0
        [] call.op = "exitMarket" ->
             call.market \in pool.entered /\ HypotheticalLiquidity(pool, call.market, k.tokens, 0) < 0
        [] OTHER -> FALSE

Redeems(pool, m, tokens) ==
  IF tokens <= pool.market[m].tokens THEN {[pool EXCEPT !.market[m].tokens = @ - tokens]} ELSE {}

\* What a call does to the pool: no result when it reverts.
Applies(pool, call) ==
  LET m == call.market
      k == pool.market[m]
      pull == IF call.amount = RepayMax THEN k.debt ELSE call.amount
  IN  IF Short(pool, call) THEN {}
      ELSE CASE call.op = "mint" ->
                  IF k.allow >= call.amount
                    THEN {[pool EXCEPT !.market[m].tokens = @ + CTokens(call.amount, k.rate),
                                       !.market[m].allow = @ - call.amount]} ELSE {}
             [] call.op = "redeem" -> Redeems(pool, m, call.amount)
             [] call.op = "redeemUnderlying" -> Redeems(pool, m, CTokens(call.amount, k.rate))
             [] call.op = "borrow" ->
                  {[pool EXCEPT !.market[m].debt = @ + call.amount, !.entered = @ \cup {m}]}
             [] call.op = "repayBorrow" ->
                  IF pull <= k.debt /\ k.allow >= pull
                    THEN {[pool EXCEPT !.market[m].debt = @ - pull, !.market[m].allow = @ - pull]}
                    ELSE {}
             [] call.op = "enterMarkets" -> {[pool EXCEPT !.entered = @ \cup {m}]}
             [] call.op = "exitMarket" ->
                  IF k.debt = 0 THEN {[pool EXCEPT !.entered = @ \ {m}]} ELSE {}
=============================================================================
