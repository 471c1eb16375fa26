----------------------------- MODULE RefreshLoop ----------------------------
(***************************************************************************)
(* The Run loop both caches share, markets.Cache.Run and                   *)
(* lendora.Cache.Run: one refresh on entry whose error ends the goroutine, *)
(* then a ticker whose refresh errors are only logged, until the context   *)
(* is cancelled.  What a refresh reads is in MarketsCache and              *)
(* LendoraCache.                                                           *)
(***************************************************************************)
EXTENDS Naturals

VARIABLES
  ctxDone,   \* the process's signal context is cancelled
  loop       \* per cache: where its goroutine is

Caches == {"markets", "lendora"}

\* at: not started, in Refresh, in the select, returned.  first: the refresh on
\* entry has not succeeded yet.  tick: the ticker's channel (capacity 1) is full.
\* err: what Run returned is an error.
LoopStates ==
  [at : {"off", "refresh", "select", "returned"}, first : BOOLEAN,
   tick : BOOLEAN, err : BOOLEAN]

LoopOff == [at |-> "off", first |-> TRUE, tick |-> FALSE, err |-> FALSE]
LoopStarted == [LoopOff EXCEPT !.at = "refresh"]

LoopInit == ctxDone = FALSE /\ loop = [c \in Caches |-> LoopOff]

RefreshFailed(c) ==
  loop' = [loop EXCEPT ![c].at = IF loop[c].first THEN "returned" ELSE "select",
                       ![c].err = loop[c].first]

RefreshDone(c) == loop' = [loop EXCEPT ![c].at = "select", ![c].first = FALSE]

\* The ticker drops a tick its channel has no room for.
TickerFires(c) ==
  /\ loop[c].at \in {"refresh", "select"} /\ ~loop[c].first /\ ~loop[c].tick
  /\ loop' = [loop EXCEPT ![c].tick = TRUE]
  /\ UNCHANGED ctxDone

SelectTick(c) ==
  /\ loop[c].at = "select" /\ loop[c].tick
  /\ loop' = [loop EXCEPT ![c].at = "refresh", ![c].tick = FALSE]
  /\ UNCHANGED ctxDone

SelectDone(c) ==
  /\ loop[c].at = "select" /\ ctxDone
  /\ loop' = [loop EXCEPT ![c].at = "returned"]
  /\ UNCHANGED ctxDone
=============================================================================
