---------------------------- MODULE Idempotency -----------------------------
(***************************************************************************)
(* lib/mcp/policy/idempotency.go: the table of claimed broadcast keys.     *)
(* The table is a function from <<tenant, client_id>> to the time at which *)
(* the reservation ends; 0 stands for a key that is not in the map.        *)
(***************************************************************************)
EXTENDS Integers

CONSTANTS
  EmptyID,   \* the empty client_id
  TTL        \* DefaultIdempotencyTTL, in ticks of the clock

ASSUME TTLAssumption == TTL \in Nat \ {0}

NewIdempotency(keys) == [k \in keys |-> 0]

\* Whether Claim(tenant, client) returns nil at time now.
ClaimPasses(seen, k, now) == k[2] # EmptyID /\ ~(seen[k] > now)

Claimed(seen, k, now) == [seen EXCEPT ![k] = now + TTL]
=============================================================================
