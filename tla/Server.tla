------------------------------- MODULE Server -------------------------------
(***************************************************************************)
(* The life of the process: cmd/mcp-server main.go (run), config.go and    *)
(* wire.go (LoadConfig, BuildServer), server.go (Server.Run, Close) and    *)
(* transport/streamable_http.go, with the two cache goroutines Run starts. *)
(* Requests are only counted here; what they do is in the other modules.   *)
(***************************************************************************)
EXTENDS Integers, Config, MarketsCache, LendoraCache

CONSTANTS
  Configs, RouteFiles,   \* configurations and routes files to start from
  NoConfig,
  MaxRequests            \* bound: requests in flight

ASSUME ConfigsAssumption == Configs \subseteq ConfigType

VARIABLES
  phase,     \* where run() is
  cfg,       \* configuration; NoConfig once Run, which does not read it, is reached
  file,      \* the routes file
  deps,      \* the optional dependencies wired
  conn,      \* the chain gRPC connection
  http,      \* the HTTP server goroutine
  inflight   \* requests being handled

mainVars == <<phase, cfg, file, deps, conn, http, inflight>>
vars == <<mainVars, ctxDone, loop, marketsVars, lendoraVars>>

Exited == phase \in {"exit0", "exit1"}
Phases == {"load", "build", "built", "select", "drain", "waitMarkets", "waitLendora",
           "exit0", "exit1"}

Init ==
  /\ phase = "load"
  /\ cfg \in Configs /\ file \in RouteFiles
  /\ deps = NoDeps /\ conn = "none" /\ http = "off" /\ inflight = 0
  /\ LoopInit /\ MarketsInit /\ LendoraInit
-----------------------------------------------------------------------------
Start ==
  /\ phase = "load"
  /\ phase' = IF LoadConfig(cfg) THEN "build" ELSE "exit1"
  /\ cfg' = ApplyDefaults(cfg)
  /\ UNCHANGED <<file, deps, conn, http, inflight, ctxDone, loop, marketsVars, lendoraVars>>

\* BuildServer fails: dialling, a client, the routes file, each of which closes the
\* connection, or the transfer-out state file, which leaves it open.
BuildFails ==
  /\ phase = "build"
  /\ phase' = "exit1"
  /\ conn' \in {"none", "closed", "open"}
  /\ UNCHANGED <<cfg, file, deps, http, inflight, ctxDone, loop, marketsVars, lendoraVars>>

BuildServer ==
  /\ phase = "build"
  /\ cfg.rpc /\ cfg.bridge # "" => RoutesAccepted(cfg, file)
  /\ phase' = "built"
  /\ deps' = Wire(cfg) /\ conn' = "open"
  /\ UNCHANGED <<cfg, file, http, inflight, ctxDone, loop, marketsVars, lendoraVars>>

\* Run starts the refreshers and the HTTP server, and waits in its select.
RunStarts ==
  /\ phase = "built"
  /\ phase' = "select"
  /\ loop' = [c \in Caches |->
                IF c = "markets" \/ deps.lendora THEN LoopStarted ELSE LoopOff]
  /\ http' = "serving"
  /\ cfg' = NoConfig /\ file' = <<>>
  /\ deps' = [NoDeps EXCEPT !.lendora = deps.lendora]
  /\ UNCHANGED <<conn, inflight, ctxDone, marketsVars, lendoraVars>>

\* SIGINT or SIGTERM, once signal.NotifyContext is installed.
Signal ==
  /\ phase \notin {"load", "exit0", "exit1"} /\ ~ctxDone
  /\ ctxDone' = TRUE
  /\ UNCHANGED <<mainVars, loop, marketsVars, lendoraVars>>

\* ListenAndServe returns an error; it returns ErrServerClosed only after Shutdown.
HttpFails ==
  /\ http = "serving" /\ ~Exited
  /\ http' = "failed"
  /\ UNCHANGED <<phase, cfg, file, deps, conn, inflight, ctxDone, loop, marketsVars, lendoraVars>>

RequestArrives ==
  /\ http = "serving" /\ ~Exited /\ inflight < MaxRequests
  /\ inflight' = inflight + 1
  /\ UNCHANGED <<phase, cfg, file, deps, conn, http, ctxDone, loop, marketsVars, lendoraVars>>

RequestEnds ==
  /\ inflight > 0 /\ ~Exited
  /\ inflight' = inflight - 1
  /\ UNCHANGED <<phase, cfg, file, deps, conn, http, ctxDone, loop, marketsVars, lendoraVars>>

\* The select of Run: an HTTP error ends Run at once, a signal starts the shutdown,
\* which closes the listener.
SelectHttpError ==
  /\ phase = "select" /\ http = "failed"
  /\ phase' = "exit1" /\ conn' = "closed"
  /\ UNCHANGED <<cfg, file, deps, http, inflight, ctxDone, loop, marketsVars, lendoraVars>>

SelectSignal ==
  /\ phase = "select" /\ ctxDone
  /\ phase' = "drain" /\ http' = IF http = "serving" THEN "closed" ELSE http
  /\ UNCHANGED <<cfg, file, deps, conn, inflight, ctxDone, loop, marketsVars, lendoraVars>>

Drained ==
  /\ phase = "drain" /\ inflight = 0
  /\ phase' = "waitMarkets"
  /\ UNCHANGED <<cfg, file, deps, conn, http, inflight, ctxDone, loop, marketsVars, lendoraVars>>

\* Mutant of DrainTimeout: Shutdown waits for the last request.
DrainNeverTimesOut == phase = "drain" /\ inflight < 0 /\ UNCHANGED vars

\* DefaultShutdownTimeout elapses; the error is logged and the requests run on.
DrainTimeout ==
  /\ phase = "drain" /\ inflight > 0
  /\ phase' = "waitMarkets"
  /\ UNCHANGED <<cfg, file, deps, conn, http, inflight, ctxDone, loop, marketsVars, lendoraVars>>

WaitMarkets ==
  /\ phase = "waitMarkets" /\ loop["markets"].at = "returned"
  /\ phase' = "waitLendora"
  /\ UNCHANGED <<cfg, file, deps, conn, http, inflight, ctxDone, loop, marketsVars, lendoraVars>>

\* Mutant of WaitLendora: Run does not wait for the second refresher.
WaitLendoraNot ==
  /\ phase = "waitLendora"
  /\ phase' = "exit0" /\ conn' = "closed"
  /\ UNCHANGED <<cfg, file, deps, http, inflight, ctxDone, loop, marketsVars, lendoraVars>>

\* Run returns nil and run's deferred Close releases the connection.  Without Lendora
\* its channel holds a nil from the start.
WaitLendora ==
  /\ phase = "waitLendora" /\ loop["lendora"].at \in {"off", "returned"}
  /\ phase' = "exit0" /\ conn' = "closed"
  /\ UNCHANGED <<cfg, file, deps, http, inflight, ctxDone, loop, marketsVars, lendoraVars>>
-----------------------------------------------------------------------------
\* A refresher's goroutine; it ends with the process.
MarketsStep == ~Exited /\ MarketsRefresh /\ UNCHANGED <<mainVars, lendoraVars>>
LendoraStep == ~Exited /\ LendoraRefresh /\ UNCHANGED <<mainVars, marketsVars>>
LoopDone(c) == ~Exited /\ SelectDone(c) /\ UNCHANGED <<mainVars, marketsVars, lendoraVars>>
LoopTick(c) ==
  /\ ~Exited
  /\ TickerFires(c) \/ SelectTick(c)
  /\ UNCHANGED <<mainVars, marketsVars, lendoraVars>>

\* The chain is of interest while somebody may read it.  Bound: the caches share
\* nothing, so in a server with both, only what the lendora cache reads changes.
ChainMoves ==
  /\ phase \in {"select", "drain"}
  /\ \/ ~deps.lendora /\ MarketsMove /\ UNCHANGED <<mainVars, lendoraVars>>
     \/ deps.lendora /\ LendoraMove /\ UNCHANGED <<mainVars, marketsVars>>

Next ==
  \/ Start \/ BuildFails \/ BuildServer \/ RunStarts \/ Signal
  \/ HttpFails \/ RequestArrives \/ RequestEnds
  \/ SelectHttpError \/ SelectSignal \/ Drained \/ DrainTimeout
  \/ WaitMarkets \/ WaitLendora
  \/ MarketsStep \/ LendoraStep \/ \E c \in Caches : LoopDone(c) \/ LoopTick(c)
  \/ ChainMoves

\* run() and Run are one goroutine; a select that finds both cases ready picks at
\* random, so a case that is ready again and again is taken; a query returns once its
\* context is cancelled; the shutdown timer fires.
Fairness ==
  /\ WF_vars(RunStarts)
  /\ WF_vars(BuildServer \/ BuildFails)
  /\ WF_vars(SelectSignal \/ SelectHttpError)
  /\ WF_vars(Drained \/ DrainTimeout)
  /\ WF_vars(WaitMarkets) /\ WF_vars(WaitLendora)
  /\ WF_vars(ctxDone /\ MarketsStep) /\ WF_vars(ctxDone /\ LendoraStep)
  /\ \A c \in Caches : SF_vars(LoopDone(c))

Spec == Init /\ [][Next]_vars /\ Fairness
-----------------------------------------------------------------------------
(***************************************************************************)
(* Validation and wiring agree: a server that was built has every family   *)
(* the configuration names, no family the configuration does not, and      *)
(* nothing a gate of the tools relies on is missing (a foreign chain is    *)
(* never the home chain, comes with the bridge, and has a route home).     *)
(***************************************************************************)
WiredAsConfigured ==
  phase = "built" =>
    /\ deps.evm = cfg.rpc
    /\ deps.swap = (cfg.router # "") /\ deps.swap = (cfg.wsvp # "")
    /\ deps.oracle = (cfg.oracle # "") /\ deps.lendora = (cfg.lendora # "")
    /\ deps.bridge = (cfg.bridge # "") /\ deps.bridge = (deps.home # 0)
    /\ (deps.swap \/ deps.oracle \/ deps.lendora \/ deps.bridge) => deps.evm
    /\ deps.foreign = {cfg.foreign[i].id : i \in 1..Len(cfg.foreign)}
    /\ \A f \in deps.foreign : deps.bridge /\ HasRoute(file, f, deps.home)

(***************************************************************************)
(* Refresh queries the pairs before the perpetuals, so a pair listed       *)
(* between the two queries is not taken for one without a perpetual: only  *)
(* pairs that have no perpetual at all are dropped.                        *)
(***************************************************************************)
OnlySpotPairsDropped == \A c \in dropped : PerpOf[c] = Spot

(***************************************************************************)
(* A ticker that resolved keeps resolving, and never to older parameters   *)
(* of its pair, whatever fails: a failed refresh leaves the last table.    *)
(***************************************************************************)
ResolvedStaysResolved ==
  [][\A t \in DOMAIN byTicker :
       /\ t \in DOMAIN byTicker'
       /\ byTicker'[t].pair = byTicker[t].pair
            => byTicker'[t].version >= byTicker[t].version]_vars

(***************************************************************************)
(* A tool that resolves a lendora market never takes the native market for *)
(* an ERC-20 one or the reverse, though the read that tells them apart may *)
(* fail in any refresh and in any on-demand load.                          *)
(***************************************************************************)
NativeIsNative ==
  \A m \in listed : \A x \in ResolveAsset(m) : x.native = (m = Native)

(***************************************************************************)
(* run() ends without an error only after a signal, with both refreshers   *)
(* returned and the connection released, and no refresher of a running     *)
(* process ever queries over a connection that is closed.                  *)
(* (Server.Run waits for both goroutines before run's deferred Close)      *)
(***************************************************************************)
OrderlyExit ==
  /\ phase = "exit0" =>
       /\ conn = "closed" /\ ctxDone
       /\ \A c \in Caches : loop[c].at \in {"off", "returned"}
  /\ \A c \in Caches :
       (loop[c].at \in {"refresh", "select"} /\ ~Exited) => conn = "open"

(***************************************************************************)
(* A signal ends the process, although requests may never end, queries may *)
(* hang until their context is cancelled, and a refresher may have died.   *)
(***************************************************************************)
SignalEnds == ctxDone ~> Exited

(***************************************************************************)
(* If refreshes keep succeeding, a listed market becomes resolvable.  (A   *)
(* refresher whose first refresh failed has none that succeed.)            *)
(***************************************************************************)
ListedBecomesResolvable ==
  ([]<><<QueryPerpetuals>>_vars) =>
    \A c \in {d \in Pairs : PerpOf[d] # Spot} :
      (c \in DOMAIN pairs) ~> (ResolveTicker(TickerOf[PerpOf[c]]) # None)
-----------------------------------------------------------------------------
(***************************************************************************)
(* cmd/mcp-server/server.go:109 says of the markets cache "required to be  *)
(* populated before any build_* tool can run. Failure here is fatal", and  *)
(* server.go:118 of the lendora cache "Its initial refresh failing is      *)
(* fatal": a refresher that returned an error ends the process.  Run reads *)
(* the two channels only after a signal, and goes on serving.              *)
(***************************************************************************)
FirstRefreshIsFatal == \A c \in Caches : loop[c].err ~> Exited
=============================================================================
