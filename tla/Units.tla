-------------------------------- MODULE Units -------------------------------
(***************************************************************************)
(* The conversions between what a caller types and what the chain counts:  *)
(* lib/mcp/units (sizes and prices of orders), lib/mcp/limits/usdc.go      *)
(* (USDC) and humanToBaseUnits of lib/mcp/tools/account.go (coins).        *)
(*                                                                         *)
(* A typed decimal is [n, d], n with d digits after the point.  A          *)
(* conversion returns Bad where the code returns an error.                 *)
(***************************************************************************)
EXTENDS Uint64

Bad == -1

\* big.Int.Quo truncates towards zero; lib.BigIntMulPow10 rounds down.
Quo(a, b) == IF a >= 0 THEN a \div b ELSE -((-a) \div b)
MulPow10(n, e) == IF e >= 0 THEN n * 10^e ELSE n \div 10^(-e)

\* A result that must be a uint64 and a multiple of grid, 0 meaning no grid.
OnGrid(q, grid) ==
  IF q \notin Uint THEN Bad
  ELSE IF grid > 0 THEN IF q % grid = 0 THEN q ELSE Bad ELSE q

SizeToQuantums(size, meta) ==
  OnGrid(Quo(MulPow10(size.n, -meta.atomic), 10^size.d), meta.step)

QuoteAtomicResolution == -6
PriceExponent(meta) == -meta.qce + meta.atomic - QuoteAtomicResolution

PriceToSubticks(price, meta) ==
  OnGrid(Quo(MulPow10(price.n, PriceExponent(meta)), 10^price.d), meta.tick)

BpsDenom == 10000

\* Mutant of Snap: both sides snap down to a tick.
SnapDown(side, subticks, tick) == (subticks \div tick) * tick

\* A BUY snaps down to a tick, a SELL up, in uint64 arithmetic.
Snap(side, subticks, tick) ==
  IF tick = 0 THEN subticks
  ELSE IF side = "BUY" THEN (subticks \div tick) * tick
  ELSE IF subticks % tick # 0 THEN AddUint(subticks, tick - (subticks % tick))
  ELSE subticks

\* The worst price of a market order, from an oracle price and a slippage.
AggressiveSubticks(side, oracle, bps, meta) ==
  LET factor == IF side = "BUY" THEN BpsDenom + bps ELSE BpsDenom - bps
      worst == Quo(MulPow10(oracle.n * factor, PriceExponent(meta)), 10^oracle.d * BpsDenom)
      subticks == Snap(side, worst, meta.tick)
  IN  IF side \in {"BUY", "SELL"} /\ factor > 0 /\ worst \in Uint /\ subticks # 0
        THEN subticks ELSE Bad
-----------------------------------------------------------------------------
\* Mutant of HumanToQuantums: the digits are not padded to the resolution.
HumanToQuantumsUnpadded(h, digits) ==
  IF h.n >= 0 /\ h.d <= digits /\ h.n \in Uint THEN h.n ELSE Bad

\* At most as many decimals as a quantum resolves; trailing zeros count.
HumanToQuantums(h, digits) ==
  IF h.n >= 0 /\ h.d <= digits /\ h.n * 10^(digits - h.d) \in Uint
    THEN h.n * 10^(digits - h.d) ELSE Bad

\* Exactly representable and positive; coins are not bounded by a uint64.
HumanToBaseUnits(h, decimals) ==
  IF h.n > 0 /\ (h.n * 10^decimals) % 10^h.d = 0
    THEN (h.n * 10^decimals) \div 10^h.d ELSE Bad
=============================================================================
