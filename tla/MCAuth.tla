------------------------------- MODULE MCAuth -------------------------------
(***************************************************************************)
(* Instances of Auth small enough for TLC.                                 *)
(***************************************************************************)
EXTENDS Auth, TLC

CONSTANT EarlyTime   \* bound: last tick with two challenges

Symmetry ==
  Permutations(Owners) \cup Permutations(Sessions) \cup Permutations(Calls)
    \cup Permutations(Nonces) \cup Permutations(Bearers)

(***************************************************************************)
(* Bound: while one challenge was issued, both wallets take part; two are  *)
(* issued to one wallet only, early, and outside the rate limit.           *)
(***************************************************************************)
InScope ==
  \/ Cardinality({n \in Nonces : issued[n] # None}) <= 1
  \/ /\ now <= EarlyTime
     /\ windows = Absent(IPs)
     /\ Cardinality({issued[n].owner : n \in {m \in Nonces : issued[m] # None}}
                      \cup {p[1] : p \in signed}) <= 1

BoundedSpec == Init /\ [][Next /\ InScope']_vars
=============================================================================
