------------------------------- MODULE Uint64 -------------------------------
(***************************************************************************)
(* Go's uint64 with its width as a parameter, so that TLC reaches the      *)
(* wrap-around: quantum amounts are uint64 all through the code.           *)
(***************************************************************************)
EXTENDS Integers

CONSTANT MaxUint   \* 2^64 - 1 in the code

ASSUME MaxUintAssumption == MaxUint \in Nat

Uint == 0..MaxUint

\* a + b in uint64 arithmetic.
AddUint(a, b) == (a + b) % (MaxUint + 1)
=============================================================================
