---------------------------- MODULE LendoraTools ----------------------------
(***************************************************************************)
(* The lendora_build_* tools and the account reports (lib/mcp/tools/       *)
(* lendora.go, lendora_risk.go, lendora_ops.go and lendora_read.go): every *)
(* operation analyses the account (computeRisk), guards and simulates      *)
(* itself on that analysis, and builds a payload; a report answers with it. *)
(*                                                                         *)
(* Each step of op is a JSON-RPC read with what the handler does on its    *)
(* answer; prices move and interest accrues between any two.  cached is    *)
(* what the markets cache holds (LendoraCache); the tools also accept the  *)
(* address of a market outside it, which they load on demand.  The reads   *)
(* of collateral factors, which are constant, and of USD feeds, which only *)
(* format, are left out.                                                   *)
(***************************************************************************)
EXTENDS Units, Sequences, LendoraPool

CONSTANTS
  Listed,          \* the listed cTokens, in getAllMarkets order
  NativeMarket,    \* the CEther market
  Digits,          \* cToken -> decimals of its underlying
  Accounts,        \* [pool, cached, calls]: an account, the cache, what the agent asks
  Prices,          \* the prices the oracle may move to
  MaxMoves         \* bound: changes of the pool

VARIABLES
  account,    \* the initial choice
  pool,       \* LendoraPool state
  moves,      \* how often the pool has changed
  op,         \* the operation in progress, {} for none
  answer,     \* the last answer that is not a payload
  txs         \* payloads that the agent holds

lendoraVars == <<account, pool, moves, op, answer, txs>>

Omitted == [n |-> 0, d |-> -1]   \* an amount left out
FullLabel == [n |-> -1, d |-> -1]   \* the amount label "full"
-----------------------------------------------------------------------------
(* projectHF, riskBand and the risk analysis.                              *)

\* By health factor collateral / borrow: 1, 1.2 and 1.5 are the thresholds.
RiskBand(collateral, borrow) ==
  IF borrow <= 0 THEN "Low"
  ELSE IF collateral < borrow THEN "Critical"
  ELSE IF 10 * collateral < 12 * borrow THEN "High"
  ELSE IF 10 * collateral < 15 * borrow THEN "Medium" ELSE "Low"

ProjectHF(collateral, borrow) ==
  [collateral |-> collateral, borrow |-> borrow, level |-> RiskBand(collateral, borrow)]

NoRisk == [net |-> 0, entered |-> {}, snap |-> {}, positions |-> <<>>, borrow |-> 0]
Collateral(risk) == risk.net + risk.borrow
HasDebt(risk) == risk.borrow > 0

Position(risk, m) == {p \in {risk.positions[i] : i \in DOMAIN risk.positions} : p.market = m}
Enabled(risk, m) == \E p \in Position(risk, m) : p.enabled

\* Mutant of AccountSnapshot: a market without a supply is skipped, owed or not.
AccountSnapshotSupplied(risk, m) ==
  LET k == pool.market[m]
  IN  IF k.tokens = 0 THEN {}
      ELSE {[market |-> m, enabled |-> m \in risk.entered, supplied |-> Supplied(k),
             borrowed |-> k.debt]}

\* The snapshot of one market, skipped when the account has nothing in it.
AccountSnapshot(risk, m) ==
  LET k == pool.market[m]
  IN  IF k.tokens = 0 /\ k.debt = 0 THEN {}
      ELSE {[market |-> m, enabled |-> m \in risk.entered, supplied |-> Supplied(k),
             borrowed |-> k.debt]}

PriceOf(m) == pool.market[m].price
-----------------------------------------------------------------------------
Goes(o) == op' = {o} /\ UNCHANGED <<account, pool, moves, answer, txs>>

\* An answer without a payload; call is what would have been packed.  done is
\* for the debt there was when the agent had followed an "approve" answer.
Answers(o, kind, call, amount) ==
  /\ op' = {}
  /\ answer' = {[in |-> o.in, kind |-> kind, call |-> call, amount |-> amount,
                 since |-> o.since, followed |-> o.followed, done |-> {}]}
  /\ UNCHANGED <<account, pool, moves, txs>>

Call(o, name, amount) == [op |-> name, market |-> o.in.market, amount |-> amount]

Starts(o) ==
  /\ op = {} /\ op' = {o}
  /\ answer' = {}
  /\ UNCHANGED <<account, pool, moves, txs>>

\* A call that retries what it was told to approve first, the approval mined:
\* the debt at that time.
Followed(in) == UNION {a.done : a \in {x \in answer : x.in = in /\ x.kind = "approve"}}

\* resolveAsset and the native refusal of opCommon.
OpCommon(in) ==
  /\ in.market \in account.cached \/ in.byAddress
  /\ ~(in.tool \in {"supply", "repay"} /\ in.market = NativeMarket)
  /\ Starts([in |-> in, at |-> "liquidity", risk |-> NoRisk, since |-> moves, left |-> <<>>,
             call |-> [op |-> "", market |-> in.market, amount |-> 0], pull |-> 0,
             sim |-> ProjectHF(0, 0), full |-> FALSE, followed |-> Followed(in)])

\* The markets the account is in, and those it entered as collateral.
Positions == {m \in DOMAIN pool.market : pool.market[m].tokens > 0 \/ pool.market[m].debt > 0}
Stands == [positions |-> Positions, entered |-> pool.entered]

\* The reports take the address of the session's owner, or none.
LendoraOwner(in) ==
  /\ in.own
  /\ Starts([in |-> in, at |-> "liquidity", risk |-> NoRisk, since |-> moves, left |-> <<>>,
             from |-> Stands])

ReadLiquidity ==
  \E o \in op :
    /\ o.at = "liquidity"
    /\ Goes([o EXCEPT !.risk.net = AccountLiquidity(pool), !.at = "assets in"])

\* getAssetsIn; the markets looped over are the cached ones.
LendoraAssetsInSet ==
  \E o \in op :
    /\ o.at = "assets in"
    /\ Goes([o EXCEPT !.risk.entered = pool.entered, !.at = "markets",
                      !.left = SelectSeq(Listed, LAMBDA m : m \in account.cached)])

ReadSnapshot ==
  \E o \in op :
    /\ o.at = "markets" /\ o.left # <<>> /\ o.risk.snap = {}
    /\ LET snap == AccountSnapshot(o.risk, Head(o.left))
       IN  Goes([o EXCEPT !.risk.snap = snap, !.left = IF snap = {} THEN Tail(@) ELSE @])

\* The price of a market with a position: its debt is valued and added.
ReadPrice ==
  \E o \in op : \E p \in o.risk.snap :
    Goes([o EXCEPT !.risk.borrow = @ + NativeValue(PriceOf(p.market), p.borrowed),
                   !.risk.positions = Append(@, p), !.risk.snap = {}, !.left = Tail(@)])

Analysed(o, tool) == o.at = "markets" /\ o.left = <<>> /\ o.in.tool = tool
-----------------------------------------------------------------------------
(* The reports.                                                            *)

\* The liquidity is only valued when the cache has the native market and its
\* price feed answers.
NativeLiquidityUSD(risk) ==
  IF NativeMarket \in account.cached THEN {{Max({0, risk.net})}, {}} ELSE {{}}

Reports(o, level, room, positions) ==
  /\ op' = {}
  /\ answer' = {[in |-> o.in, kind |-> "report", since |-> o.since, from |-> o.from,
                 level |-> level, room |-> room, positions |-> positions]}
  /\ UNCHANGED <<account, pool, moves, txs>>

\* The level and the liquidity, and each market with a position.
Level(risk) == RiskBand(Collateral(risk), risk.borrow)
PositionDTOs(risk) == {risk.positions[i] : i \in DOMAIN risk.positions}

LendoraAssessRisk ==
  \E o \in op : \E room \in NativeLiquidityUSD(o.risk) :
    /\ Analysed(o, "assess_risk")
    /\ Reports(o, {Level(o.risk)}, room, PositionDTOs(o.risk))

LendoraGetAccountSummary ==
  \E o \in op : \E room \in NativeLiquidityUSD(o.risk) :
    /\ Analysed(o, "account_summary")
    /\ Reports(o, {Level(o.risk)}, room, {})

LendoraGetAccountPositions ==
  \E o \in op : Analysed(o, "account_positions") /\ Reports(o, {}, {}, PositionDTOs(o.risk))
-----------------------------------------------------------------------------
(* The operations.                                                         *)

\* Supplying raises the collateral of a market the account has entered.
SupplyTx ==
  \E o \in op :
    LET amount == HumanToBaseUnits(o.in.amount, Digits[o.in.market])
        added == IF Enabled(o.risk, o.in.market)
                   THEN WeightedNative(PriceOf(o.in.market), amount, Factor[o.in.market]) ELSE 0
    IN  /\ Analysed(o, "supply") /\ amount # Bad
        /\ Goes([o EXCEPT !.sim = ProjectHF(Collateral(o.risk) + added, o.risk.borrow),
                          !.call = Call(o, "mint", amount), !.pull = amount, !.at = "allowance"])

\* A full withdrawal redeems the cTokens held now, a partial one the amount
\* typed; pull is the cTokens it burns.
WithdrawTx ==
  \E o \in op :
    LET k == pool.market[o.in.market]
        full == o.in.full \/ o.in.amount = Omitted
        amount == HumanToBaseUnits(o.in.amount, Digits[o.in.market])
    IN  /\ Analysed(o, "withdraw")
        /\ IF full
             THEN IF k.tokens = 0 THEN Answers(o, "nothing", o.call, Omitted)
                  ELSE Goes([o EXCEPT !.call = Call(o, "redeem", k.tokens), !.full = TRUE,
                                      !.pull = k.tokens, !.at = "margin"])
             ELSE /\ amount # Bad
                  /\ Goes([o EXCEPT !.call = Call(o, "redeemUnderlying", amount),
                                    !.pull = CTokens(amount, k.rate), !.at = "margin"])

\* The Comptroller's margin after the withdrawal: negative is refused.
WithdrawMargin ==
  \E o \in op :
    LET net == HypotheticalLiquidity(pool, o.in.market, o.pull, 0)
    IN  /\ o.at = "margin" /\ o.in.tool = "withdraw"
        /\ IF net < 0 THEN Answers(o, "short", o.call, o.in.amount)
           ELSE Goes([o EXCEPT !.sim = ProjectHF(net + o.risk.borrow, o.risk.borrow),
                               !.at = "estimate"])

\* The margin after the borrow; pull keeps it for the projection.
BorrowTx ==
  \E o \in op :
    LET amount == HumanToBaseUnits(o.in.amount, Digits[o.in.market])
        net == HypotheticalLiquidity(pool, o.in.market, 0, amount)
    IN  /\ Analysed(o, "borrow") /\ amount # Bad
        /\ IF net < 0 THEN Answers(o, "short", Call(o, "borrow", amount), o.in.amount)
           ELSE Goes([o EXCEPT !.call = Call(o, "borrow", amount), !.pull = net, !.at = "price"])

BorrowPrice ==
  \E o \in op :
    LET borrow == o.risk.borrow + NativeValue(PriceOf(o.in.market), o.call.amount)
    IN  /\ o.at = "price"
        /\ Goes([o EXCEPT !.sim = ProjectHF(o.pull + borrow, borrow), !.at = "estimate"])

Debt(risk, m) == IF Position(risk, m) = {} THEN 0 ELSE (CHOOSE p \in Position(risk, m) : TRUE).borrowed

\* Mutant of RepayTx: a full repayment packs the debt that was read.
RepayTxExact ==
  \E o \in op :
    LET debt == Debt(o.risk, o.in.market)
        typed == IF o.in.amount = Omitted THEN 0
                 ELSE HumanToBaseUnits(o.in.amount, Digits[o.in.market])
        full == o.in.full \/ o.in.amount = Omitted \/ typed >= debt
        pull == IF full THEN debt ELSE typed
        rest == o.risk.borrow - NativeValue(PriceOf(o.in.market), pull)
    IN  /\ Analysed(o, "repay") /\ (o.in.full \/ typed # Bad)
        /\ IF full /\ debt = 0 THEN Answers(o, "nothing", o.call, Omitted)
           ELSE Goes([o EXCEPT !.sim = ProjectHF(Collateral(o.risk), IF rest < 0 THEN 0 ELSE rest),
                               !.call = Call(o, "repayBorrow", pull),
                               !.pull = pull, !.full = full, !.at = "allowance"])

\* Everything, or at least the debt, is repaid with the sentinel.
RepayTx ==
  \E o \in op :
    LET debt == Debt(o.risk, o.in.market)
        typed == IF o.in.amount = Omitted THEN 0
                 ELSE HumanToBaseUnits(o.in.amount, Digits[o.in.market])
        full == o.in.full \/ o.in.amount = Omitted \/ typed >= debt
        pull == IF full THEN debt ELSE typed
        rest == o.risk.borrow - NativeValue(PriceOf(o.in.market), pull)
    IN  /\ Analysed(o, "repay") /\ (o.in.full \/ typed # Bad)
        /\ IF full /\ debt = 0 THEN Answers(o, "nothing", o.call, Omitted)
           ELSE Goes([o EXCEPT !.sim = ProjectHF(Collateral(o.risk), IF rest < 0 THEN 0 ELSE rest),
                               !.call = Call(o, "repayBorrow", IF full THEN RepayMax ELSE pull),
                               !.pull = pull, !.full = full, !.at = "allowance"])

\* What enabling the market adds to the collateral, and disabling it takes away.
Contribution(risk, m) ==
  IF Position(risk, m) = {} THEN 0
  ELSE WeightedNative(PriceOf(m), (CHOOSE p \in Position(risk, m) : TRUE).supplied, Factor[m])

\* Mutant of DisableCollateral: the collateral left is not compared with the debt.
DisableCollateralAnyway ==
  \E o \in op :
    LET m == o.in.market
        rest == Collateral(o.risk) - IF Enabled(o.risk, m) THEN Contribution(o.risk, m) ELSE 0
    IN  /\ Analysed(o, "disable")
        /\ IF Debt(o.risk, m) > 0 THEN Answers(o, "owes", Call(o, "exitMarket", 0), Omitted)
           ELSE Goes([o EXCEPT !.sim = ProjectHF(rest, o.risk.borrow),
                               !.call = Call(o, "exitMarket", 0), !.at = "estimate"])

\* Refused while the market is borrowed from, or when the rest falls short.
DisableCollateral ==
  \E o \in op :
    LET m == o.in.market
        rest == Collateral(o.risk) - IF Enabled(o.risk, m) THEN Contribution(o.risk, m) ELSE 0
    IN  /\ Analysed(o, "disable")
        /\ IF Debt(o.risk, m) > 0 THEN Answers(o, "owes", Call(o, "exitMarket", 0), Omitted)
           ELSE IF Enabled(o.risk, m) /\ HasDebt(o.risk) /\ rest < o.risk.borrow
             THEN Answers(o, "short", Call(o, "exitMarket", 0), Omitted)
           ELSE Goes([o EXCEPT !.sim = ProjectHF(rest, o.risk.borrow),
                               !.call = Call(o, "exitMarket", 0), !.at = "estimate"])

\* Mutant of EnableCollateral: an entered market counts again.
EnableCollateralTwice ==
  \E o \in op :
    /\ Analysed(o, "enable")
    /\ Goes([o EXCEPT !.sim = ProjectHF(Collateral(o.risk) + Contribution(o.risk, o.in.market),
                                        o.risk.borrow),
                      !.call = Call(o, "enterMarkets", 0), !.at = "estimate"])

EnableCollateral ==
  \E o \in op :
    LET added == IF Enabled(o.risk, o.in.market) THEN 0 ELSE Contribution(o.risk, o.in.market)
    IN  /\ Analysed(o, "enable")
        /\ Goes([o EXCEPT !.sim = ProjectHF(Collateral(o.risk) + added, o.risk.borrow),
                          !.call = Call(o, "enterMarkets", 0), !.at = "estimate"])

\* Mutant of CheckLendoraAllowance: the hint asks for what is missing.
CheckLendoraAllowanceMissing ==
  \E o \in op :
    LET allow == pool.market[o.in.market].allow
    IN  /\ o.at = "allowance"
        /\ IF allow < o.pull
             THEN Answers(o, "approve", o.call,
                          IF o.full THEN FullLabel
                          ELSE [o.in.amount EXCEPT !.n = IF @ > allow THEN @ - allow ELSE @])
             ELSE Goes([o EXCEPT !.at = "estimate"])

\* Approve first, for the amount as typed or for "full".
CheckLendoraAllowance ==
  \E o \in op :
    /\ o.at = "allowance"
    /\ IF pool.market[o.in.market].allow < o.pull
         THEN Answers(o, "approve", o.call, IF o.full THEN FullLabel ELSE o.in.amount)
         ELSE Goes([o EXCEPT !.at = "estimate"])

\* finishOp: EVMAssembler.Assemble, whose gas estimate reverts with the call.
FinishOp ==
  \E o \in op :
    /\ o.at = "estimate"
    /\ IF Applies(pool, o.call) = {} THEN Answers(o, "reverts", o.call, Omitted)
       ELSE /\ op' = {}
            /\ txs' = {[in |-> o.in, call |-> o.call, sim |-> o.sim, full |-> o.full,
                        since |-> o.since, held |-> pool.market[o.in.market].tokens]}
            /\ UNCHANGED <<account, pool, moves, answer>>

\* A read fails, or an amount does not parse.
OpFails == op # {} /\ op' = {} /\ UNCHANGED <<account, pool, moves, answer, txs>>
-----------------------------------------------------------------------------
(* The pool: payloads are signed, sent and mined; interest accrues, prices *)
(* move, and approvals are given.  External.                               *)

Moves(new) ==
  /\ moves < MaxMoves /\ moves' = moves + 1
  /\ pool' = new
  /\ UNCHANGED <<account, op>>

MineOp ==
  \E t \in txs :
    \E new \in Applies(pool, t.call) :
      Moves(new) /\ txs' = txs \ {t} /\ UNCHANGED answer

\* An operation waits or is in progress on the pool.
PoolInUse == op # {} \/ txs # {}

Accrue ==
  \E m \in DOMAIN pool.market :
    /\ PoolInUse
    /\ \/ pool.market[m].debt > 0 /\ Moves([pool EXCEPT !.market[m].debt = @ + 1])
       \/ pool.market[m].tokens > 0 /\ Moves([pool EXCEPT !.market[m].rate = @ + 1])
    /\ UNCHANGED <<answer, txs>>

OracleMoves ==
  \E m \in DOMAIN pool.market, price \in Prices :
    /\ PoolInUse /\ m # NativeMarket /\ pool.market[m].price # price
    /\ Moves([pool EXCEPT !.market[m].price = price])
    /\ UNCHANGED <<answer, txs>>

\* Following an "approve first" answer sets the allowance to the amount typed.
\* "full" is not an amount: there the agent approves the debt it has now.
ApprovalMined ==
  \E a \in answer :
    LET m == a.in.market
        debt == pool.market[m].debt
        amount == IF a.amount = FullLabel THEN debt ELSE HumanToBaseUnits(a.amount, Digits[m])
    IN  /\ a.kind = "approve" /\ a.done = {}
        /\ Moves([pool EXCEPT !.market[m].allow = amount])
        /\ answer' = {[a EXCEPT !.done = {debt}]}
        /\ UNCHANGED txs
-----------------------------------------------------------------------------
LendoraInit ==
  /\ account \in Accounts
  /\ pool = account.pool
  /\ moves = 0 /\ op = {} /\ answer = {} /\ txs = {}

ReportTools == {"assess_risk", "account_summary", "account_positions"}

\* A bound: one payload waits at a time.
LendoraNext ==
  \/ \E in \in account.calls : txs = {} /\ in.tool \notin ReportTools /\ OpCommon(in)
  \/ \E in \in account.calls : in.tool \in ReportTools /\ LendoraOwner(in)
  \/ ReadLiquidity \/ LendoraAssetsInSet \/ ReadSnapshot \/ ReadPrice
  \/ LendoraAssessRisk \/ LendoraGetAccountSummary \/ LendoraGetAccountPositions
  \/ SupplyTx \/ WithdrawTx \/ WithdrawMargin \/ BorrowTx \/ BorrowPrice \/ RepayTx
  \/ DisableCollateral \/ EnableCollateral
  \/ CheckLendoraAllowance \/ FinishOp \/ OpFails
  \/ MineOp \/ Accrue \/ OracleMoves \/ ApprovalMined
-----------------------------------------------------------------------------
\* The account has no position outside the cache, which holds the call's market.
WhollyCached(in) == Positions \cup {in.market} \subseteq account.cached

(***************************************************************************)
(* The guards of the tools are the Comptroller's.  An operation refused    *)
(* for want of margin would have been refused by the Comptroller: a borrow *)
(* and a full withdrawal whatever moved since they began, the others when  *)
(* nothing did.  And when nothing moved, one whose gas estimate reverts    *)
(* was not refused for that, unless the account has a position outside the *)
(* cache.  In that case the sums of computeRisk miss it, and disabling a   *)
(* collateral is stopped by the gas estimate only.                         *)
(***************************************************************************)
GuardsAreTheComptrollers ==
  \A a \in answer :
    /\ a.kind = "short" /\ (a.since = moves \/ a.call.op \in {"borrow", "redeem"}) =>
         Short(pool, a.call)
    /\ a.kind = "reverts" /\ a.since = moves /\ WhollyCached(a.in) => ~Short(pool, a.call)

\* The sums of the account over all markets: the exact health factor.
TrueBorrow(p) == MapThenSumSet(LAMBDA m : BorrowOf(p, m), DOMAIN p.market)
TrueCollateral(p) == AccountLiquidity(p) + TrueBorrow(p)

\* Rounding: at most one cToken of the market and one unit of value.
Dust(m) == NativeValue(pool.market[m].price, (pool.market[m].rate \div Scale) + 1) + 1

(***************************************************************************)
(* The simulation never flatters.  When nothing moved since an operation   *)
(* on a wholly cached account began, signing its payload leaves the        *)
(* account with no more debt and no less collateral than the payload's     *)
(* simulation announced, dust apart.                                       *)
(***************************************************************************)
ProjectionComesTrue ==
  \A t \in {x \in txs : x.since = moves /\ WhollyCached(x.in)} :
    \A p \in Applies(pool, t.call) :
      /\ TrueBorrow(p) <= t.sim.borrow + 1
      /\ TrueCollateral(p) + Dust(t.in.market) >= t.sim.collateral

(***************************************************************************)
(* A report tells the truth, if no position is outside the cache.          *)
(* Whatever accrued or was repriced while it was put together, its         *)
(* positions are those of the account, each marked as collateral exactly   *)
(* when it is.  And when nothing moved since it was asked for, its level   *)
(* is that of the exact health factor over all markets, and the account    *)
(* can borrow the liquidity reported in the native coin, and no more.      *)
(***************************************************************************)
ReportIsTrue ==
  \A a \in {x \in answer : x.kind = "report" /\ Positions \subseteq account.cached} :
    /\ a.from = Stands /\ a.in.tool # "account_summary" =>
         /\ {p.market : p \in a.positions} = Positions
         /\ \A p \in a.positions : p.enabled <=> p.market \in pool.entered
    /\ a.since = moves =>
         /\ a.level \subseteq {RiskBand(TrueCollateral(pool), TrueBorrow(pool))}
         /\ \A room \in a.room :
              LET borrow(x) == [op |-> "borrow", market |-> NativeMarket, amount |-> x]
              IN  /\ AccountLiquidity(pool) >= 0 => ~Short(pool, borrow(room))
                  /\ Short(pool, borrow(room + 1))

(***************************************************************************)
(* Following an "approve first" answer ends the asking.  A call retried    *)
(* after the approval it asked for was mined is not told to approve again, *)
(* whatever accrues or moves until it reads the allowance, except in one   *)
(* case: its answer named "full" instead of an amount, and interest        *)
(* accrued on the debt after the agent approved what it owed.              *)
(* (LendoraApproval, tools/lendora.go: MinAmount is "human-units amount    *)
(* the approval must be >=")                                               *)
(***************************************************************************)
ApprovalSuffices ==
  \A a \in {x \in answer : x.kind = "approve"} : \A debt \in a.followed :
    a.amount = FullLabel /\ pool.market[a.in.market].debt > debt

(***************************************************************************)
(* Full means all.  A full repayment that is mined leaves no debt, however *)
(* much interest accrued after its payload was built, and a full           *)
(* withdrawal leaves no cTokens unless more were supplied meanwhile,       *)
(* whatever became of the exchange rate.                                   *)
(***************************************************************************)
FullMeansAll ==
  [][\A t \in txs \ txs' :
       LET before == pool.market[t.in.market]
           after == pool'.market[t.in.market]
       IN  /\ t.full /\ t.in.tool = "repay" => after.debt = 0
           /\ t.full /\ t.in.tool = "withdraw" => after.tokens = before.tokens - t.held
    ]_lendoraVars
=============================================================================
