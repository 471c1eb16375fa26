--------------------------- MODULE BridgeRegistry ---------------------------
(***************************************************************************)
(* lib/mcp/bridge/registry.go: the table of bridge routes read at start-up *)
(* and the lookups the bridge tools make in it.                            *)
(*                                                                         *)
(* A row of the routes file has the chain ids src and target, their names  *)
(* srcName and targetName ("" for none), the token addresses srcToken and  *)
(* targetToken, a symbol and decimals.  A chain argument is [id |-> n]     *)
(* when it is a number, [name |-> s] otherwise.                            *)
(***************************************************************************)
EXTENDS Integers, Sequences, Addresses

CONSTANT Folded   \* strings.ToLower on the strings that it changes

ToLower(s) == IF s \in DOMAIN Folded THEN Folded[s] ELSE s

MaxDecimals == 77

NoRegistry == [routes |-> <<>>, nameToID |-> <<>>]

RowOK(r) ==
  /\ r.src # 0 /\ r.target # 0
  /\ r.srcToken \in HexAddrs /\ r.targetToken \in HexAddrs
  /\ r.symbol # ""
  /\ r.decimals \in 0..MaxDecimals

SameLeg(r, s) == r.src = s.src /\ r.target = s.target

\* Mutant of Ambiguous: symbols are compared as they are written.
AmbiguousExact(r, s) ==
  SameLeg(r, s) /\ (r.srcToken = s.srcToken \/ r.symbol = s.symbol)

\* Two rows no lookup could tell apart.
Ambiguous(r, s) ==
  SameLeg(r, s) /\ (r.srcToken = s.srcToken \/ ToLower(r.symbol) = ToLower(s.symbol))

\* The name of a chain's last occurrence in the file decides its id.
LearnChains(rows) ==
  LET names == [i \in 1..(2 * Len(rows)) |->
                  LET r == rows[(i + 1) \div 2]
                  IN  IF i % 2 = 1 THEN [name |-> ToLower(r.srcName), id |-> r.src]
                      ELSE [name |-> ToLower(r.targetName), id |-> r.target]]
      last(n) == CHOOSE i \in DOMAIN names :
                   names[i].name = n /\ \A j \in DOMAIN names : names[j].name = n => j <= i
  IN  [n \in {names[i].name : i \in DOMAIN names} \ {""} |-> names[last(n)].id]

NewRegistry(rows) ==
  IF /\ \A i \in DOMAIN rows : RowOK(rows[i])
     /\ \A i, j \in DOMAIN rows : i # j => ~Ambiguous(rows[i], rows[j])
  THEN [routes |-> rows, nameToID |-> LearnChains(rows)]
  ELSE NoRegistry

LoadRegistry(rows) == IF rows = <<>> THEN NoRegistry ELSE NewRegistry(rows)
-----------------------------------------------------------------------------
RoutesFor(reg, src, target) ==
  SelectSeq(reg.routes, LAMBDA r : r.src = src /\ r.target = target)

\* The chain a query names, 0 when it is refused.
ResolveChain(reg, q, fixed, fixedIsTarget) ==
  LET named == IF "id" \in DOMAIN q THEN q.id
               ELSE IF ToLower(q.name) \in DOMAIN reg.nameToID
                      THEN reg.nameToID[ToLower(q.name)] ELSE 0
      routes == IF fixedIsTarget THEN RoutesFor(reg, named, fixed)
                ELSE RoutesFor(reg, fixed, named)
  IN  IF named # fixed /\ routes # <<>> THEN named ELSE 0

ResolveDestChain(reg, q, src) == ResolveChain(reg, q, src, FALSE)
ResolveSourceChain(reg, q, target) == ResolveChain(reg, q, target, TRUE)

\* The routes of a leg a token argument names: at most one, by Ambiguous.
Lookup(reg, src, target, q) ==
  LET routes == RoutesFor(reg, src, target)
      matches(r) == IF ToLower(q) \in {"", "native"} THEN r.srcToken = Zero
                    ELSE IF q \in HexAddrs THEN r.srcToken = q
                    ELSE ToLower(r.symbol) = ToLower(q)
      first == {i \in DOMAIN routes : matches(routes[i]) /\
                                      \A j \in 1..(i - 1) : ~matches(routes[j])}
  IN  {routes[i] : i \in first}
=============================================================================
