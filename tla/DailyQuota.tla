----------------------------- MODULE DailyQuota -----------------------------
(***************************************************************************)
(* What the per-symbol daily transfer-out meter promises, with nothing of  *)
(* how it is implemented: every owner has a limit and an amount spent      *)
(* today for every symbol, midnight sets every amount to zero AT midnight, *)
(* and a durable copy of the limits and amounts is what a crash leaves.    *)
(* The durable copy follows the current one, possibly some writes behind.  *)
(* TransferOutStore implements this with a day stamp and a lazy rollover.  *)
(***************************************************************************)
EXTENDS Integers

CONSTANTS Owners, Symbols, Limits, Amounts

VARIABLES
  quota,    \* [limit, spent]: the meter as the running process sees it
  durable   \* [limit, spent]: the meter as a crash would leave it

vars == <<quota, durable>>

Nothing == [o \in Owners |-> [s \in Symbols |-> 0]]

(***************************************************************************)
(* The durable copy takes the new meter, or the meter as it was just       *)
(* before the operation, or stays behind because the write failed.         *)
(***************************************************************************)
Follow == durable' \in {durable, quota, quota'}

Init ==
  /\ \E l \in [Owners -> [Symbols -> Limits]] :
       quota = [limit |-> l, spent |-> Nothing]
  /\ durable = quota

SetLimit(o, s, l) ==
  /\ quota' = [quota EXCEPT !.limit[o][s] = l]
  /\ Follow

Spend(o, s, a) ==
  /\ quota' = [quota EXCEPT !.spent[o][s] = @ + a]
  /\ Follow

Flush ==
  /\ durable' = quota
  /\ UNCHANGED quota

Midnight ==
  /\ quota' = [quota EXCEPT !.spent = Nothing]
  /\ durable' = [durable EXCEPT !.spent = Nothing]

Crash ==
  /\ quota' = durable
  /\ UNCHANGED durable

Next ==
  \/ \E o \in Owners, s \in Symbols :
       \/ \E l \in Limits : SetLimit(o, s, l)
       \/ \E a \in Amounts : Spend(o, s, a)
  \/ Flush
  \/ Midnight
  \/ Crash

Spec == Init /\ [][Next]_vars
=============================================================================
