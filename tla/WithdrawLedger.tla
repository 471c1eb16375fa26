--------------------------- MODULE WithdrawLedger ---------------------------
(***************************************************************************)
(* lib/mcp/limits/limits.go: the USDC withdraw limits.  MemoryLedger is a  *)
(* value [day, used]; each of its methods is an operator from the value    *)
(* before the lock section to the value after it.  Quantums are uint64.    *)
(***************************************************************************)
EXTENDS Uint64

CONSTANTS
  Tenants,               \* tenant ids
  QuantumsPerUSDC,       \* 10^6 in the code
  WithdrawMaxUSDC,       \* limits.withdraw_max_usdc, 0 disables
  DailyWithdrawCapUSDC   \* limits.daily_withdraw_cap_usdc, 0 disables

ASSUME LedgerAssumption ==
  /\ QuantumsPerUSDC \in Nat \ {0}
  /\ WithdrawMaxUSDC \in Nat
  /\ DailyWithdrawCapUSDC \in Nat

\* A cap is checked unless it is zero or too large to be written in quantums.
CapEnabled(usdc) == usdc > 0 /\ usdc <= MaxUint \div QuantumsPerUSDC

PerToolCapQuantums == WithdrawMaxUSDC * QuantumsPerUSDC
DailyCapQuantums == DailyWithdrawCapUSDC * QuantumsPerUSDC

\* MemoryLedger.capQuantums
LedgerCap == IF CapEnabled(DailyWithdrawCapUSDC) THEN DailyCapQuantums ELSE 0

CheckPerTx(q) == CapEnabled(WithdrawMaxUSDC) => q <= PerToolCapQuantums

NewMemoryLedger == [day |-> 0, used |-> [t \in Tenants |-> 0]]

LedgerRolled(l, day) ==
  IF l.day = day THEN l ELSE [day |-> day, used |-> [t \in Tenants |-> 0]]

Remaining(l, t) ==
  IF l.used[t] >= LedgerCap THEN 0 ELSE LedgerCap - l.used[t]

\* Mutant of EnforcePasses: the daily cap is compared with one transaction.
EnforcePassesPerTx(l, t, q) ==
  /\ CheckPerTx(q)
  /\ CapEnabled(DailyWithdrawCapUSDC) => q <= LedgerCap

\* Whether Enforce(cfg, ledger, t, ToolWithdraw, q) returns nil, l rolled over.
EnforcePasses(l, t, q) ==
  /\ CheckPerTx(q)
  /\ CapEnabled(DailyWithdrawCapUSDC) => q <= Remaining(l, t)

\* Enforce reaches the ledger, and rolls it over, only past the per-tx check.
LedgerAfterEnforce(l, day, q) ==
  IF CheckPerTx(q) /\ CapEnabled(DailyWithdrawCapUSDC)
    THEN LedgerRolled(l, day)
    ELSE l

\* Record: the sum is clamped where the uint64 addition would wrap around.
LedgerRecord(l, t, q, day) ==
  LET r == LedgerRolled(l, day)
      sum == AddUint(r.used[t], q)
  IN  [day |-> r.day,
       used |-> [r.used EXCEPT ![t] = IF sum < r.used[t] THEN MaxUint ELSE sum]]
=============================================================================
