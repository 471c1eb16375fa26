----------------------------- MODULE MarketsCache ---------------------------
(***************************************************************************)
(* lib/mcp/markets/cache.go: the ticker table every trading tool resolves  *)
(* through.  A refresh makes two queries, ClobPairAll and then             *)
(* AllPerpetuals, joins them and swaps the table in; the chain may move    *)
(* between the two.                                                        *)
(*                                                                         *)
(* The chain is external: governance lists a perpetual before a pair that  *)
(* refers to it, may change a pair's parameters (here: its version), and   *)
(* removes neither.                                                        *)
(***************************************************************************)
EXTENDS RefreshLoop

CONSTANTS
  Perps, Tickers,   \* perpetual ids and their tickers
  TickerOf,         \* the ticker of a perpetual
  Pairs,            \* clob pair ids, numbers
  PerpOf,           \* the perpetual of a pair, or Spot
  Spot, None,
  MaxVersion        \* bound: parameter changes of a pair

\* The chain answers with a finite list of pairs, so any of them have a last one.
ASSUME PairsAssumption ==
  /\ Pairs \subseteq Nat
  /\ \A S \in SUBSET Pairs : S # {} => \E last \in S : \A c \in S : c <= last

VARIABLES
  perps,      \* chain: perpetuals listed
  pairs,      \* chain: version of each listed pair
  clobPairs,  \* the refresh's first read, None before it
  byTicker,   \* the table: ticker -> MarketMeta
  dropped     \* pairs the last refresh could not resolve, which it logs

chainMarkets == <<perps, pairs>>
marketsVars == <<perps, pairs, clobPairs, byTicker, dropped>>

ListPerpetual ==
  \E p \in Perps \ perps : perps' = perps \cup {p} /\ UNCHANGED pairs

ListPair ==
  \E c \in Pairs \ DOMAIN pairs :
    /\ PerpOf[c] = Spot \/ PerpOf[c] \in perps
    /\ pairs' = [d \in DOMAIN pairs \cup {c} |-> IF d = c THEN 0 ELSE pairs[d]]
    /\ UNCHANGED perps

UpdatePair ==
  \E c \in DOMAIN pairs :
    /\ pairs[c] < MaxVersion
    /\ pairs' = [pairs EXCEPT ![c] = @ + 1]
    /\ UNCHANGED perps

MarketsMove ==
  /\ ListPerpetual \/ ListPair \/ UpdatePair
  /\ UNCHANGED <<ctxDone, loop, clobPairs, byTicker, dropped>>
-----------------------------------------------------------------------------
\* Pairs whose perpetual the second query knows.
Resolvable(ps, known) == {c \in DOMAIN ps : PerpOf[c] \in known}

\* The table of a refresh: the last pair of a ticker wins.
Join(ps, known) ==
  [t \in {TickerOf[PerpOf[c]] : c \in Resolvable(ps, known)} |->
     LET same == {c \in Resolvable(ps, known) : TickerOf[PerpOf[c]] = t}
         last == CHOOSE c \in same : \A d \in same : d <= c
     IN  [pair |-> last, perp |-> PerpOf[last], version |-> ps[last]]]

ResolveTicker(t) == IF t \in DOMAIN byTicker THEN byTicker[t] ELSE None

MarketsInit ==
  /\ perps = {} /\ pairs = [c \in {} |-> 0]
  /\ clobPairs = None
  /\ byTicker = [t \in {} |-> None]
  /\ dropped = {}

InRefresh == loop["markets"].at = "refresh"

\* Mutant of QueryPairs: the table is emptied before it is rebuilt.
QueryPairsClearing ==
  /\ InRefresh /\ clobPairs = None
  /\ clobPairs' = pairs
  /\ byTicker' = [t \in {} |-> None]
  /\ UNCHANGED <<ctxDone, loop, chainMarkets, dropped>>

QueryPairs ==
  /\ InRefresh /\ clobPairs = None
  /\ clobPairs' = pairs
  /\ UNCHANGED <<ctxDone, loop, chainMarkets, byTicker, dropped>>

\* Mutant of QueryPerpetuals: a refresh only updates the tickers it knows.
QueryPerpetualsKnown ==
  /\ InRefresh /\ clobPairs # None
  /\ byTicker' = LET next == Join(clobPairs, perps)
                 IN  [t \in DOMAIN next \cap (IF loop["markets"].first THEN Tickers
                                                ELSE DOMAIN byTicker) |-> next[t]]
  /\ dropped' = DOMAIN clobPairs \ Resolvable(clobPairs, perps)
  /\ clobPairs' = None
  /\ RefreshDone("markets")
  /\ UNCHANGED <<ctxDone, chainMarkets>>

\* The second query, the join and the swap.
QueryPerpetuals ==
  /\ InRefresh /\ clobPairs # None
  /\ byTicker' = Join(clobPairs, perps)
  /\ dropped' = DOMAIN clobPairs \ Resolvable(clobPairs, perps)
  /\ clobPairs' = None
  /\ RefreshDone("markets")
  /\ UNCHANGED <<ctxDone, chainMarkets>>

\* Either query fails, as it does once the context is cancelled.
MarketsRefreshFails ==
  /\ InRefresh
  /\ clobPairs' = None
  /\ RefreshFailed("markets")
  /\ UNCHANGED <<ctxDone, chainMarkets, byTicker, dropped>>

\* Mutant of MarketsRefresh: the perpetuals are queried before the pairs (clobPairs
\* holds the pairs they would resolve).
MarketsRefreshSwapped ==
  \/ /\ InRefresh /\ clobPairs = None
     /\ clobPairs' = [c \in {d \in Pairs : PerpOf[d] \in perps} |-> 0]
     /\ UNCHANGED <<ctxDone, loop, chainMarkets, byTicker, dropped>>
  \/ /\ InRefresh /\ clobPairs # None
     /\ byTicker' = Join(pairs, {PerpOf[c] : c \in DOMAIN clobPairs})
     /\ dropped' = DOMAIN pairs \ DOMAIN clobPairs
     /\ clobPairs' = None
     /\ RefreshDone("markets")
     /\ UNCHANGED <<ctxDone, chainMarkets>>
  \/ MarketsRefreshFails

MarketsRefresh == QueryPairs \/ QueryPerpetuals \/ MarketsRefreshFails
=============================================================================
