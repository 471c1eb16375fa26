---------------------------- MODULE ServerProofs ----------------------------
(***************************************************************************)
(* The invariants and the action property of Server, for every             *)
(* configuration, routes file, set of markets and number of requests.      *)
(***************************************************************************)
EXTENDS Server, TLAPS

\* First-order leaves go to Zenon; the others name the prover they need.
USE Zenon

\* Where each goroutine may be while run() is at phase.
LifeInv ==
  /\ phase \in Phases
  /\ loop \in [Caches -> LoopStates]
  /\ phase \in {"load", "build"} => conn = "none"
  /\ phase \in {"load", "build", "built"} =>
       http = "off" /\ \A c \in Caches : loop[c].at = "off"
  /\ phase \in {"built", "select", "drain", "waitMarkets", "waitLendora"} => conn = "open"
  /\ phase \in {"drain", "waitMarkets", "waitLendora", "exit0"} => ctxDone
  /\ phase \in {"waitLendora", "exit0"} => loop["markets"].at = "returned"
  /\ phase = "exit0" => conn = "closed" /\ loop["lendora"].at \in {"off", "returned"}

\* What was checked of the configuration before a server is built from it.
WiringInv ==
  /\ phase = "load" => cfg \in ConfigType
  /\ phase \in {"build", "built"} => cfg \in ConfigType /\ Validate(cfg)
  /\ phase = "built" =>
       /\ deps = Wire(cfg)
       /\ cfg.rpc /\ cfg.bridge # "" => RoutesAccepted(cfg, file)

(***************************************************************************)
(* The table and the pairs a refresh has read are snapshots of the chain,  *)
(* the pairs read no older than the table, and every perpetual a snapshot  *)
(* refers to is listed.                                                    *)
(***************************************************************************)
Covers(ps, t) ==
  /\ byTicker[t].pair \in DOMAIN ps
  /\ byTicker[t].version <= ps[byTicker[t].pair]

ChainInv ==
  /\ DOMAIN pairs \subseteq Pairs
  /\ \A c \in DOMAIN pairs : pairs[c] \in Nat /\ (PerpOf[c] = Spot \/ PerpOf[c] \in perps)

SnapshotInv ==
  clobPairs # None =>
    /\ DOMAIN clobPairs \subseteq DOMAIN pairs
    /\ \A c \in DOMAIN clobPairs : clobPairs[c] \in Nat /\ clobPairs[c] <= pairs[c]

TableInv ==
  \A t \in DOMAIN byTicker :
    /\ byTicker[t].version \in Nat
    /\ PerpOf[byTicker[t].pair] \in perps
    /\ TickerOf[PerpOf[byTicker[t].pair]] = t
    /\ Covers(pairs, t)
    /\ clobPairs # None => Covers(clobPairs, t)

MarketsInv == ChainInv /\ SnapshotInv /\ TableInv /\ OnlySpotPairsDropped

LendoraInv ==
  /\ listed \subseteq CTokens
  /\ lread.cEther \in {Native, NoAddr} /\ lread = [cEther |-> lread.cEther, stage |-> lread.stage]
  /\ \A x \in lendora.markets : x.native = (x.ctoken = Native)
-----------------------------------------------------------------------------
\* Steps by what they leave alone.
LEMMA Frames ==
  ASSUME [Next]_vars
  PROVE  /\ UNCHANGED marketsVars \/ (MarketsStep /\ UNCHANGED mainVars)
              \/ (MarketsMove /\ UNCHANGED mainVars)
         /\ UNCHANGED lendoraVars \/ (LendoraStep /\ UNCHANGED mainVars)
              \/ (LendoraMove /\ UNCHANGED mainVars)
  BY DEF Next, vars, Start, BuildFails, BuildServer, RunStarts, Signal, HttpFails, RequestArrives,
         RequestEnds, SelectHttpError, SelectSignal, Drained, DrainTimeout, WaitMarkets,
         WaitLendora, MarketsStep, LendoraStep, LoopDone, LoopTick, ChainMoves
-----------------------------------------------------------------------------
LEMMA InitLendora == Init => LendoraInv
  BY SMT DEF Init, LendoraInit, NoLread, LendoraInv

LEMMA NextLendora == LendoraInv /\ [Next]_vars => LendoraInv'
  <1> SUFFICES ASSUME LendoraInv, [Next]_vars PROVE LendoraInv'
    OBVIOUS
  <1>1. CASE UNCHANGED lendoraVars
    BY <1>1 DEF LendoraInv, lendoraVars
  <1>2. CASE LendoraMove
    BY <1>2 DEF LendoraInv, LendoraMove
  <1>3. CASE ReadOracle \/ ResolveCEther
    BY <1>3 DEF LendoraInv, ReadOracle, ResolveCEther
  <1>4. CASE LendoraRefreshFails
    BY <1>4 DEF LendoraInv, LendoraRefreshFails, NoLread
  <1>5. CASE LoadMarkets
    <2>1. PICK readable \in SUBSET listed :
            lendora' = [markets |-> UNION {LoadMarket(m, lread.cEther) : m \in readable},
                        oracleSet |-> TRUE]
      BY <1>5 DEF LoadMarkets
    <2>2. lread' = NoLread /\ listed' = listed
      BY <1>5 DEF LoadMarkets
    <2>3. ASSUME NEW m \in readable, NEW x \in LoadMarket(m, lread.cEther)
          PROVE  x.native = (x.ctoken = Native)
      BY SMT, NoAddrAssumption DEF LoadMarket, LendoraInv
    <2>4. \A x \in lendora'.markets : x.native = (x.ctoken = Native)
      BY <2>1, <2>3
    <2> QED BY <2>2, <2>4 DEF LendoraInv, NoLread
  <1> QED BY <1>1, <1>2, <1>3, <1>4, <1>5, Frames DEF LendoraStep, LendoraRefresh

LEMMA LendoraNative == LendoraInv => NativeIsNative
  <1> SUFFICES ASSUME LendoraInv, NEW m \in listed, NEW x \in ResolveAsset(m)
               PROVE  x.native = (m = Native)
    BY DEF NativeIsNative
  <1> DEFINE cached == {y \in lendora.markets : y.ctoken = m}
  <1>1. CASE x \in cached
    BY <1>1 DEF LendoraInv
  <1>2. CASE x \notin cached
    <2>1. PICK a \in {NoAddr, Native} : x \in LoadMarket(m, a)
      BY <1>2 DEF ResolveAsset
    <2> QED BY SMT, <2>1, NoAddrAssumption DEF LoadMarket, LendoraInv
  <1> QED BY <1>1, <1>2

(***************************************************************************)
(* The native market is never taken for an ERC-20 one, nor the reverse,    *)
(* whichever reads of a refresh or of an on-demand load fail.              *)
(***************************************************************************)
THEOREM NativeIsRecognised == Spec => []NativeIsNative
  <1>1. Init => LendoraInv
    BY InitLendora
  <1>2. LendoraInv /\ [Next]_vars => LendoraInv'
    BY NextLendora
  <1>3. LendoraInv => NativeIsNative
    BY LendoraNative
  <1> QED BY <1>1, <1>2, <1>3, PTL DEF Spec
-----------------------------------------------------------------------------
\* What the table of a refresh has to do with the pairs and perpetuals read.
Tabulates(table, ps, known) ==
  /\ DOMAIN table = {TickerOf[PerpOf[c]] : c \in Resolvable(ps, known)}
  /\ \A t \in DOMAIN table :
       /\ table[t].pair \in Resolvable(ps, known)
       /\ TickerOf[PerpOf[table[t].pair]] = t
       /\ table[t].version = ps[table[t].pair]

LEMMA JoinTabulates ==
  ASSUME NEW ps, DOMAIN ps \in SUBSET Pairs, NEW known
  PROVE  Tabulates(Join(ps, known), ps, known)
  <1>1. DOMAIN Join(ps, known) = {TickerOf[PerpOf[c]] : c \in Resolvable(ps, known)}
    BY DEF Join
  <1>2. ASSUME NEW t \in DOMAIN Join(ps, known)
        PROVE  /\ Join(ps, known)[t].pair \in Resolvable(ps, known)
               /\ TickerOf[PerpOf[Join(ps, known)[t].pair]] = t
               /\ Join(ps, known)[t].version = ps[Join(ps, known)[t].pair]
    <2> DEFINE same == {c \in Resolvable(ps, known) : TickerOf[PerpOf[c]] = t}
               last == CHOOSE c \in same : \A d \in same : d <= c
    <2>1. same \in SUBSET Pairs /\ same # {}
      BY <1>1 DEF Resolvable
    <2>2. \E c \in same : \A d \in same : d <= c
      BY <2>1, PairsAssumption
    <2>3. last \in same
      BY <2>2
    <2>4. Join(ps, known)[t] = [pair |-> last, perp |-> PerpOf[last], version |-> ps[last]]
      BY <1>1, <1>2 DEF Join
    <2> HIDE DEF last
    <2> QED BY SMT, <2>3, <2>4
  <1> QED BY <1>1, <1>2 DEF Tabulates

LEMMA InitMarkets == Init => MarketsInv
  BY DEF Init, MarketsInit, MarketsInv, ChainInv, SnapshotInv, TableInv, OnlySpotPairsDropped

\* Listing and updating keep every snapshot a snapshot.
LEMMA MoveMarkets ==
  ASSUME MarketsInv, MarketsMove
  PROVE  MarketsInv'
  <1>1. clobPairs' = clobPairs /\ byTicker' = byTicker /\ dropped' = dropped
    BY DEF MarketsMove
  <1>2. ChainInv /\ SnapshotInv /\ TableInv /\ OnlySpotPairsDropped
    BY DEF MarketsInv
  <1>3. /\ perps \subseteq perps' /\ DOMAIN pairs \subseteq DOMAIN pairs'
        /\ \A c \in DOMAIN pairs : pairs'[c] \in Nat /\ pairs[c] <= pairs'[c]
        /\ ChainInv'
    <2>1. CASE ListPerpetual
      BY SMT, <1>2, <2>1 DEF ListPerpetual, ChainInv
    <2>2. CASE ListPair
      BY SMT, <1>2, <2>2 DEF ListPair, ChainInv
    <2>3. CASE UpdatePair
      <3>1. PICK c \in DOMAIN pairs : pairs' = [pairs EXCEPT ![c] = @ + 1] /\ perps' = perps
        BY <2>3 DEF UpdatePair
      <3>2. /\ DOMAIN pairs' = DOMAIN pairs
            /\ \A d \in DOMAIN pairs : pairs'[d] = IF d = c THEN pairs[c] + 1 ELSE pairs[d]
        BY <3>1
      <3> QED BY SMT, <1>2, <3>1, <3>2 DEF ChainInv
    <2> QED BY <2>1, <2>2, <2>3 DEF MarketsMove
  <1>4. SnapshotInv'
    BY SMT, <1>1, <1>2, <1>3 DEF SnapshotInv, ChainInv
  <1>5. ASSUME NEW t \in DOMAIN byTicker PROVE Covers(pairs, t)'
    BY SMT, <1>1, <1>2, <1>3 DEF TableInv, Covers, ChainInv
  <1>6. TableInv'
    BY <1>1, <1>2, <1>3, <1>5 DEF TableInv, Covers
  <1>7. OnlySpotPairsDropped'
    BY <1>1, <1>2 DEF OnlySpotPairsDropped
  <1> QED BY <1>3, <1>4, <1>6, <1>7 DEF MarketsInv

LEMMA PairsRead ==
  ASSUME MarketsInv, QueryPairs
  PROVE  MarketsInv'
  <1>1. /\ clobPairs' = pairs /\ byTicker' = byTicker /\ dropped' = dropped
        /\ perps' = perps /\ pairs' = pairs
    BY DEF QueryPairs, chainMarkets
  <1>2. ChainInv /\ TableInv /\ OnlySpotPairsDropped
    BY DEF MarketsInv
  <1>3. ChainInv' /\ OnlySpotPairsDropped'
    BY <1>1, <1>2 DEF ChainInv, OnlySpotPairsDropped
  <1>4. SnapshotInv'
    BY SMT, <1>1, <1>2 DEF ChainInv, SnapshotInv
  <1>5. TableInv'
    BY <1>1, <1>2 DEF TableInv, Covers
  <1> QED BY <1>3, <1>4, <1>5 DEF MarketsInv

\* The second query: nothing that resolved is lost and no pair gets older.
LEMMA TableSwapped ==
  ASSUME MarketsInv, QueryPerpetuals
  PROVE  /\ MarketsInv'
         /\ \A t \in DOMAIN byTicker :
              /\ t \in DOMAIN byTicker'
              /\ byTicker'[t].pair = byTicker[t].pair
                   => byTicker'[t].version >= byTicker[t].version
  <1>1. /\ clobPairs # None /\ clobPairs' = None
        /\ byTicker' = Join(clobPairs, perps)
        /\ dropped' = DOMAIN clobPairs \ Resolvable(clobPairs, perps)
        /\ perps' = perps /\ pairs' = pairs
    BY DEF QueryPerpetuals, chainMarkets
  <1>2. ChainInv /\ SnapshotInv /\ TableInv
    BY DEF MarketsInv
  <1>3. /\ DOMAIN clobPairs \subseteq DOMAIN pairs /\ DOMAIN clobPairs \subseteq Pairs
        /\ \A c \in DOMAIN clobPairs : clobPairs[c] \in Nat /\ clobPairs[c] <= pairs[c]
    BY <1>1, <1>2 DEF ChainInv, SnapshotInv
  <1>4. Tabulates(byTicker', clobPairs, perps)
    <2>1. DOMAIN clobPairs \in SUBSET Pairs
      BY <1>3
    <2>2. Tabulates(Join(clobPairs, perps), clobPairs, perps)
      BY <2>1, JoinTabulates
    <2> QED BY <1>1, <2>2
  <1>5. ChainInv' /\ SnapshotInv'
    BY <1>1, <1>2 DEF ChainInv, SnapshotInv
  <1>6. OnlySpotPairsDropped'
    BY <1>1, <1>2, <1>3 DEF OnlySpotPairsDropped, ChainInv, Resolvable
  <1>7. TableInv'
    BY SMT, <1>1, <1>3, <1>4 DEF TableInv, Covers, Resolvable, Tabulates
  <1>8. ASSUME NEW t \in DOMAIN byTicker
        PROVE  /\ t \in DOMAIN byTicker'
               /\ byTicker'[t].pair = byTicker[t].pair
                    => byTicker'[t].version >= byTicker[t].version
    <2>1. /\ PerpOf[byTicker[t].pair] \in perps /\ TickerOf[PerpOf[byTicker[t].pair]] = t
          /\ byTicker[t].pair \in DOMAIN clobPairs
          /\ byTicker[t].version <= clobPairs[byTicker[t].pair]
          /\ byTicker[t].version \in Nat
      BY <1>1, <1>2 DEF TableInv, Covers
    <2>2. t \in DOMAIN byTicker'
      BY ZenonT(30), <1>4, <2>1 DEF Resolvable, Tabulates
    <2> QED BY <1>3, <1>4, <2>1, <2>2 DEF Tabulates
  <1> QED BY <1>5, <1>6, <1>7, <1>8 DEF MarketsInv

LEMMA NextMarkets ==
  ASSUME MarketsInv, [Next]_vars
  PROVE  /\ MarketsInv'
         /\ \A t \in DOMAIN byTicker :
              /\ t \in DOMAIN byTicker'
              /\ byTicker'[t].pair = byTicker[t].pair
                   => byTicker'[t].version >= byTicker[t].version
  <1>0. \A t \in DOMAIN byTicker : byTicker[t].version >= byTicker[t].version
    BY SMT DEF MarketsInv, TableInv
  <1>1. CASE UNCHANGED marketsVars
    BY <1>0, <1>1 DEF marketsVars, MarketsInv, ChainInv, SnapshotInv, TableInv, Covers,
                      OnlySpotPairsDropped
  <1>2. CASE MarketsMove
    BY <1>0, <1>2, MoveMarkets DEF MarketsMove
  <1>3. CASE QueryPairs
    BY <1>0, <1>3, PairsRead DEF QueryPairs
  <1>4. CASE QueryPerpetuals
    BY <1>4, TableSwapped
  <1>5. CASE MarketsRefreshFails
    <2>1. /\ clobPairs' = None /\ byTicker' = byTicker /\ dropped' = dropped
          /\ perps' = perps /\ pairs' = pairs
      BY <1>5 DEF MarketsRefreshFails, chainMarkets
    <2> QED BY <1>0, <2>1 DEF MarketsInv, ChainInv, SnapshotInv, TableInv, Covers,
                              OnlySpotPairsDropped
  <1> QED BY <1>1, <1>2, <1>3, <1>4, <1>5, Frames DEF MarketsStep, MarketsRefresh

LEMMA MarketsInvariant == Spec => []MarketsInv
  <1>1. Init => MarketsInv
    BY InitMarkets
  <1>2. MarketsInv /\ [Next]_vars => MarketsInv'
    BY NextMarkets
  <1> QED BY <1>1, <1>2, PTL DEF Spec

(***************************************************************************)
(* The pairs are queried before the perpetuals: a pair listed between the  *)
(* two queries of Refresh is never dropped as one without a perpetual.     *)
(***************************************************************************)
THEOREM OnlySpotsAreDropped == Spec => []OnlySpotPairsDropped
  <1>1. MarketsInv => OnlySpotPairsDropped
    BY DEF MarketsInv
  <1> QED BY <1>1, MarketsInvariant, PTL

(***************************************************************************)
(* A refresh, successful or not, loses no ticker and never goes back to    *)
(* older parameters of a pair.                                             *)
(***************************************************************************)
THEOREM TickersStayResolved == Spec => ResolvedStaysResolved
  <1> DEFINE Kept == \A t \in DOMAIN byTicker :
                       /\ t \in DOMAIN byTicker'
                       /\ byTicker'[t].pair = byTicker[t].pair
                            => byTicker'[t].version >= byTicker[t].version
  <1>1. MarketsInv /\ [Next]_vars => [Kept]_vars
    BY NextMarkets
  <1> QED BY <1>1, MarketsInvariant, PTL DEF Spec, ResolvedStaysResolved
-----------------------------------------------------------------------------
\* A refresher that returned stays returned; one that never started stays off.
Onward ==
  /\ loop' \in [Caches -> LoopStates]
  /\ \A c \in Caches : /\ loop[c].at = "off" => loop'[c].at = "off"
                       /\ loop[c].at = "returned" => loop'[c].at = "returned"

LEMMA OneLoopMoves ==
  ASSUME loop \in [Caches -> LoopStates], NEW c \in Caches, NEW l \in LoopStates,
         loop' = [loop EXCEPT ![c] = l],
         loop[c].at \in {"refresh", "select"}
  PROVE  Onward
  <1>1. loop' \in [Caches -> LoopStates]
    OBVIOUS
  <1>2. \A d \in Caches : d # c => loop'[d] = loop[d]
    OBVIOUS
  <1>3. \A d \in Caches : /\ loop[d].at = "off" => loop'[d].at = "off"
                          /\ loop[d].at = "returned" => loop'[d].at = "returned"
    BY <1>2
  <1> QED BY <1>1, <1>3 DEF Onward

LEMMA LoopsGoOnward ==
  ASSUME LifeInv,
         MarketsStep \/ LendoraStep \/ (\E c \in Caches : LoopDone(c) \/ LoopTick(c)) \/ ChainMoves
  PROVE  Onward /\ UNCHANGED mainVars /\ ctxDone' = ctxDone
  <1>1. loop \in [Caches -> LoopStates]
    BY DEF LifeInv
  <1>2. UNCHANGED mainVars /\ ctxDone' = ctxDone
    BY DEF MarketsStep, MarketsRefresh, QueryPairs, QueryPerpetuals, MarketsRefreshFails,
           LendoraStep, LendoraRefresh, ReadOracle, ResolveCEther, LoadMarkets,
           LendoraRefreshFails, LoopDone, SelectDone, LoopTick, TickerFires, SelectTick,
           ChainMoves, MarketsMove, LendoraMove
  <1>3. loop' = loop \/ \E c \in Caches :
          \/ loop[c].at = "refresh" /\ (RefreshFailed(c) \/ RefreshDone(c))
          \/ TickerFires(c) \/ SelectTick(c) \/ SelectDone(c)
    BY DEF MarketsStep, MarketsRefresh, QueryPairs, QueryPerpetuals, MarketsRefreshFails,
           InRefresh, LendoraStep, LendoraRefresh, ReadOracle, ResolveCEther, LoadMarkets,
           LendoraRefreshFails, LRefreshing, LoopDone, LoopTick,
           ChainMoves, MarketsMove, LendoraMove, Caches
  <1>4. ASSUME loop' = loop PROVE Onward
    <2>1. \A c \in Caches : loop'[c].at = loop[c].at
      BY <1>4
    <2> QED BY <1>1, <1>4, <2>1 DEF Onward
  <1>5. ASSUME NEW c \in Caches, loop[c].at = "refresh", RefreshFailed(c) PROVE Onward
    <2> DEFINE l == [loop[c] EXCEPT !.at = IF loop[c].first THEN "returned" ELSE "select",
                                    !.err = loop[c].first]
    <2>1. l \in LoopStates
      BY <1>1 DEF LoopStates
    <2>2. loop' = [loop EXCEPT ![c] = l]
      BY <1>1, <1>5 DEF RefreshFailed
    <2> HIDE DEF l
    <2> QED BY <1>1, <1>5, <2>1, <2>2, OneLoopMoves
  <1>6. ASSUME NEW c \in Caches, loop[c].at = "refresh", RefreshDone(c) PROVE Onward
    <2> DEFINE l == [loop[c] EXCEPT !.at = "select", !.first = FALSE]
    <2>1. l \in LoopStates
      BY <1>1 DEF LoopStates
    <2>2. loop' = [loop EXCEPT ![c] = l]
      BY <1>1, <1>6 DEF RefreshDone
    <2> HIDE DEF l
    <2> QED BY <1>1, <1>6, <2>1, <2>2, OneLoopMoves
  <1>7. ASSUME NEW c \in Caches, TickerFires(c) \/ SelectTick(c) \/ SelectDone(c) PROVE Onward
    <2>1. CASE TickerFires(c)
      <3>1. [loop[c] EXCEPT !.tick = TRUE] \in LoopStates
        BY <1>1 DEF LoopStates
      <3>2. loop' = [loop EXCEPT ![c] = [loop[c] EXCEPT !.tick = TRUE]]
        BY <2>1 DEF TickerFires
      <3>3. loop[c].at \in {"refresh", "select"}
        BY <2>1 DEF TickerFires
      <3> QED BY <1>1, <3>1, <3>2, <3>3, OneLoopMoves
    <2>2. CASE SelectTick(c)
      <3> DEFINE l == [loop[c] EXCEPT !.at = "refresh", !.tick = FALSE]
      <3>1. l \in LoopStates
        BY <1>1 DEF LoopStates
      <3>2. loop' = [loop EXCEPT ![c] = l]
        BY <1>1, <2>2 DEF SelectTick
      <3>3. loop[c].at \in {"refresh", "select"}
        BY <2>2 DEF SelectTick
      <3> HIDE DEF l
      <3> QED BY <1>1, <3>1, <3>2, <3>3, OneLoopMoves
    <2>3. CASE SelectDone(c)
      <3>1. [loop[c] EXCEPT !.at = "returned"] \in LoopStates
        BY <1>1 DEF LoopStates
      <3>2. loop' = [loop EXCEPT ![c] = [loop[c] EXCEPT !.at = "returned"]]
        BY <2>3 DEF SelectDone
      <3>3. loop[c].at \in {"refresh", "select"}
        BY <2>3 DEF SelectDone
      <3> QED BY <1>1, <3>1, <3>2, <3>3, OneLoopMoves
    <2> QED BY <1>7, <2>1, <2>2, <2>3
  <1> QED BY <1>2, <1>3, <1>4, <1>5, <1>6, <1>7

LEMMA InitLife == Init => LifeInv
  BY SMT DEF Init, LoopInit, LifeInv, Phases, LoopStates, LoopOff

LEMMA NextLife == LifeInv /\ [Next]_vars => LifeInv'
  <1> SUFFICES ASSUME LifeInv, [Next]_vars PROVE LifeInv'
    OBVIOUS
  <1>1. CASE UNCHANGED vars
    BY <1>1 DEF LifeInv, vars, mainVars
  <1>2. CASE Start
    BY <1>2 DEF LifeInv, Start, Phases
  <1>3. CASE BuildFails
    BY <1>3 DEF LifeInv, BuildFails, Phases
  <1>4. CASE BuildServer
    BY <1>4 DEF LifeInv, BuildServer, Phases
  <1>5. CASE RunStarts
    BY <1>5 DEF LifeInv, RunStarts, Phases, LoopStarted, LoopOff, LoopStates
  <1>6. CASE Signal
    BY <1>6 DEF LifeInv, Signal, mainVars
  <1>7. CASE HttpFails
    BY <1>7 DEF LifeInv, HttpFails, Exited
  <1>8. CASE RequestArrives \/ RequestEnds
    BY <1>8 DEF LifeInv, RequestArrives, RequestEnds
  <1>9. CASE SelectHttpError
    BY <1>9 DEF LifeInv, SelectHttpError, Phases
  <1>10. CASE SelectSignal
    BY <1>10 DEF LifeInv, SelectSignal, Phases
  <1>11. CASE Drained \/ DrainTimeout
    BY <1>11 DEF LifeInv, Drained, DrainTimeout, Phases
  <1>12. CASE WaitMarkets
    BY <1>12 DEF LifeInv, WaitMarkets, Phases
  <1>13. CASE WaitLendora
    BY <1>13 DEF LifeInv, WaitLendora, Phases
  <1>14. CASE MarketsStep \/ LendoraStep \/ (\E c \in Caches : LoopDone(c) \/ LoopTick(c))
                 \/ ChainMoves
    <2>1. Onward /\ UNCHANGED mainVars /\ ctxDone' = ctxDone
      BY <1>14, LoopsGoOnward
    <2>2. phase \in {"waitLendora", "exit0"} => loop'["markets"].at = "returned"
      BY <2>1 DEF LifeInv, Onward, Caches
    <2>3. phase = "exit0" => loop'["lendora"].at \in {"off", "returned"}
      BY <2>1 DEF LifeInv, Onward, Caches
    <2>4. phase \in {"load", "build", "built"} => \A c \in Caches : loop'[c].at = "off"
      BY <2>1 DEF LifeInv, Onward
    <2> QED BY <2>1, <2>2, <2>3, <2>4 DEF LifeInv, Onward, mainVars
  <1> QED BY <1>1, <1>2, <1>3, <1>4, <1>5, <1>6, <1>7, <1>8, <1>9, <1>10, <1>11, <1>12, <1>13,
             <1>14 DEF Next

LEMMA LifeIsOrderly == LifeInv => OrderlyExit
  <1> SUFFICES ASSUME LifeInv PROVE OrderlyExit
    OBVIOUS
  <1>1. phase = "exit0" => /\ conn = "closed" /\ ctxDone
                           /\ \A c \in Caches : loop[c].at \in {"off", "returned"}
    BY DEF LifeInv, Caches
  <1>2. \A c \in Caches : (loop[c].at \in {"refresh", "select"} /\ ~Exited) => conn = "open"
    BY DEF LifeInv, Exited, Phases
  <1> QED BY <1>1, <1>2 DEF OrderlyExit

(***************************************************************************)
(* run() returns without an error only after a signal and once both        *)
(* refreshers returned, and no refresher outlives the connection while the *)
(* process runs.                                                           *)
(***************************************************************************)
THEOREM ExitIsOrderly == Spec => []OrderlyExit
  <1>1. Init => LifeInv
    BY InitLife
  <1>2. LifeInv /\ [Next]_vars => LifeInv'
    BY NextLife
  <1>3. LifeInv => OrderlyExit
    BY LifeIsOrderly
  <1> QED BY <1>1, <1>2, <1>3, PTL DEF Spec
-----------------------------------------------------------------------------
LEMMA DefaultsType ==
  ASSUME NEW c \in ConfigType
  PROVE  ApplyDefaults(c) \in ConfigType
  BY DEF ApplyDefaults, ConfigType

LEMMA InitWiring == Init => WiringInv
  BY ConfigsAssumption DEF Init, WiringInv

LEMMA NextWiring == WiringInv /\ [Next]_vars => WiringInv'
  <1> SUFFICES ASSUME WiringInv, [Next]_vars PROVE WiringInv'
    OBVIOUS
  <1>1. CASE Start
    BY <1>1, DefaultsType DEF WiringInv, Start, LoadConfig
  <1>2. CASE BuildServer
    BY <1>2 DEF WiringInv, BuildServer
  <1>3. CASE UNCHANGED <<phase, cfg, file, deps>>
    BY <1>3 DEF WiringInv
  <1>4. CASE phase' \notin {"load", "build", "built"}
    BY <1>4 DEF WiringInv
  <1>5. Start \/ BuildServer \/ UNCHANGED <<phase, cfg, file, deps>>
          \/ phase' \notin {"load", "build", "built"}
    BY DEF Next, vars, mainVars, BuildFails, RunStarts, Signal, HttpFails, RequestArrives,
           RequestEnds, SelectHttpError, SelectSignal, Drained, DrainTimeout, WaitMarkets,
           WaitLendora, MarketsStep, LendoraStep, LoopDone, LoopTick, ChainMoves
  <1> QED BY <1>1, <1>2, <1>3, <1>4, <1>5

LEMMA WiringAgrees == WiringInv => WiredAsConfigured
  <1> SUFFICES ASSUME WiringInv, phase = "built" PROVE WiredAsConfigured
    BY DEF WiredAsConfigured
  <1>1. /\ cfg \in ConfigType /\ Validate(cfg) /\ deps = Wire(cfg)
        /\ cfg.rpc /\ cfg.bridge # "" => RoutesAccepted(cfg, file)
    BY DEF WiringInv
  <1>2. /\ cfg.rpc \in BOOLEAN /\ cfg.home \in Nat
        /\ cfg.foreign \in Seq([id : Nat, rpc : BOOLEAN, bridge : Addrs])
    BY <1>1 DEF ConfigType
  <1>3. /\ (cfg.router # "") = (cfg.wsvp # "")
        /\ cfg.router # "" \/ cfg.oracle # "" \/ cfg.lendora # "" \/ cfg.bridge # "" => cfg.rpc
        /\ (cfg.bridge # "") = (cfg.home # 0)
        /\ cfg.foreign # <<>> => cfg.bridge # ""
    BY <1>1 DEF Validate, ValidateSwap, ValidateOracle, ValidateLendora, ValidateBridge,
                ValidateForeignChains
  <1>4. CASE ~cfg.rpc
    <2>1. deps = NoDeps /\ cfg.foreign = <<>> /\ cfg.home = 0
      BY <1>1, <1>2, <1>3, <1>4 DEF Wire
    <2>2. {cfg.foreign[i].id : i \in 1..Len(cfg.foreign)} = {}
      BY SMT, <2>1
    <2> QED BY <1>2, <1>3, <1>4, <2>1, <2>2 DEF WiredAsConfigured, NoDeps
  <1>5. CASE cfg.rpc
    <2>1. deps = [evm |-> TRUE, swap |-> cfg.router # "", oracle |-> cfg.oracle # "",
                  lendora |-> cfg.lendora # "", bridge |-> cfg.bridge # "",
                  home |-> IF cfg.bridge # "" THEN cfg.home ELSE 0,
                  foreign |-> IF cfg.bridge # ""
                                THEN {cfg.foreign[i].id : i \in 1..Len(cfg.foreign)} ELSE {}]
      BY <1>1, <1>5 DEF Wire
    <2>2. deps.foreign = {cfg.foreign[i].id : i \in 1..Len(cfg.foreign)}
      <3>1. cfg.bridge = "" => {cfg.foreign[i].id : i \in 1..Len(cfg.foreign)} = {}
        <4>1. cfg.bridge = "" => Len(cfg.foreign) = 0
          BY <1>3
        <4>2. ASSUME cfg.bridge = "", NEW f \in {cfg.foreign[i].id : i \in 1..Len(cfg.foreign)}
              PROVE  FALSE
          <5>1. PICK i \in 1..Len(cfg.foreign) : f = cfg.foreign[i].id
            BY <4>2
          <5>2. Len(cfg.foreign) = 0
            BY <4>1, <4>2, Zenon
          <5>3. i \in 1..0
            BY <5>2, Zenon
          <5> QED BY SMT, <5>3
        <4> QED BY <4>2
      <3> QED BY <2>1, <3>1
    <2>3. ASSUME NEW f \in deps.foreign PROVE deps.bridge /\ HasRoute(file, f, deps.home)
      <3>1. cfg.bridge # ""
        BY <2>1, <2>3
      <3>2. PICK i \in 1..Len(cfg.foreign) : f = cfg.foreign[i].id
        BY <2>2, <2>3
      <3>3. HasRoute(file, cfg.foreign[i].id, cfg.home)
        BY <1>1, <1>5, <3>1, <3>2 DEF RoutesAccepted
      <3>4. deps.home = cfg.home /\ deps.bridge
        BY <2>1, <3>1
      <3> QED BY <3>2, <3>3, <3>4
    <2> QED BY <1>2, <1>3, <1>5, <2>1, <2>2, <2>3 DEF WiredAsConfigured
  <1> QED BY <1>2, <1>4, <1>5

(***************************************************************************)
(* LoadConfig and BuildServer agree: a server that was built has exactly   *)
(* the tool families its configuration names, and what they rely on.       *)
(***************************************************************************)
THEOREM WiringIsSound == Spec => []WiredAsConfigured
  <1>1. Init => WiringInv
    BY InitWiring
  <1>2. WiringInv /\ [Next]_vars => WiringInv'
    BY NextWiring
  <1>3. WiringInv => WiredAsConfigured
    BY WiringAgrees
  <1> QED BY <1>1, <1>2, <1>3, PTL DEF Spec
=============================================================================
