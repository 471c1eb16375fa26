----------------------------- MODULE LendoraCache ---------------------------
(***************************************************************************)
(* lib/mcp/lendora/cache.go: the money-market table of the lendora tools.  *)
(* A refresh reads the Comptroller's oracle, the oracle's cEtherAddress    *)
(* (a failed read counts as "no native market"), the list of markets, and  *)
(* each market's metadata; a market whose metadata cannot be read is       *)
(* dropped from this snapshot only.                                        *)
(*                                                                         *)
(* The contracts are external: markets are listed and never delisted, the  *)
(* oracle stays and its cEtherAddress is the native market, which has no   *)
(* underlying().                                                           *)
(***************************************************************************)
EXTENDS RefreshLoop

CONSTANTS
  CTokens, Native,   \* markets; the native one
  NoAddr             \* the zero address

\* The Comptroller lists contracts, never the zero address.
ASSUME NoAddrAssumption == NoAddr \notin CTokens

VARIABLES
  listed,    \* Comptroller: markets
  lread,     \* the refresh under way: its next read, and the cEtherAddress it read
  lendora    \* the snapshot: [markets, oracleSet]

lendoraVars == <<listed, lread, lendora>>

NoLread == [cEther |-> NoAddr, stage |-> "oracle"]

LendoraInit ==
  /\ listed = {}
  /\ lread = NoLread
  /\ lendora = [markets |-> {}, oracleSet |-> FALSE]

LendoraMove ==
  /\ \E m \in CTokens \ listed : listed' = listed \cup {m}
  /\ UNCHANGED <<ctxDone, loop, lread, lendora>>
-----------------------------------------------------------------------------
LRefreshing(stage) == loop["lendora"].at = "refresh" /\ lread.stage = stage

ReadOracle ==
  /\ LRefreshing("oracle")
  /\ lread' = [lread EXCEPT !.stage = "cEther"]
  /\ UNCHANGED <<ctxDone, loop, listed, lendora>>

\* A failed or empty answer is the zero address.
ResolveCEther ==
  /\ LRefreshing("cEther")
  /\ \E a \in {Native, NoAddr} :
       lread' = [lread EXCEPT !.cEther = a, !.stage = "markets"]
  /\ UNCHANGED <<ctxDone, loop, listed, lendora>>

\* Mutant of LoadMarket: a market without underlying() is taken for an ERC-20 one.
LoadMarketAnyway(m, cEther) == {[ctoken |-> m, native |-> m = cEther]}

\* The market loadMarket returns when all its reads answer, none when it fails: the
\* native market, unless recognised, fails at underlying().
LoadMarket(m, cEther) ==
  IF m = Native /\ m # cEther
    THEN {}
    ELSE {[ctoken |-> m, native |-> m = cEther]}

\* getAllMarkets, the metadata of each market (any of which may fail), the swap.
LoadMarkets ==
  /\ LRefreshing("markets")
  /\ \E readable \in SUBSET listed :
       lendora' = [markets |-> UNION {LoadMarket(m, lread.cEther) : m \in readable},
                   oracleSet |-> TRUE]
  /\ lread' = NoLread
  /\ RefreshDone("lendora")
  /\ UNCHANGED <<ctxDone, listed>>

\* oracle() or getAllMarkets() fails, as they do once the context is cancelled.
LendoraRefreshFails ==
  /\ LRefreshing("oracle") \/ LRefreshing("markets")
  /\ lread' = NoLread
  /\ RefreshFailed("lendora")
  /\ UNCHANGED <<ctxDone, listed, lendora>>

LendoraRefresh == ReadOracle \/ ResolveCEther \/ LoadMarkets \/ LendoraRefreshFails

\* What a tool may resolve a cToken address to: the cached market, else the one
\* LoadMarket reads on demand, recognising the native market by the snapshot's oracle.
ResolveAsset(m) ==
  LET cached == {x \in lendora.markets : x.ctoken = m}
      cEthers == {NoAddr} \cup (IF lendora.oracleSet THEN {Native} ELSE {})
  IN  IF cached # {} THEN cached
        ELSE UNION {LoadMarket(m, a) : a \in cEthers}
=============================================================================
