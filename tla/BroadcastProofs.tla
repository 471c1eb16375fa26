--------------------------- MODULE BroadcastProofs --------------------------
(***************************************************************************)
(* Proofs about Broadcast for every number of concurrent calls, every set  *)
(* of wallets, tenants and transactions, and all caps.                     *)
(***************************************************************************)
EXTENDS Broadcast, TransferOutStoreProofs

\* First-order leaves go to Zenon; the others name the prover they need.
USE Zenon

PCs == {"claim", "inspect", "check", "audit", "withdraw", "record",
        "ok", "answered", "failed", "cut"}
Replies == {"none", "denied", "accepted", "refused", "error"}

\* A step of call r that sets its local variables and keeps what it was made with.
Moves(r, pc, claimed, todo, reply) ==
  /\ req' \in [Requests -> Calls \cup {NoCall}]
  /\ \A q \in Requests \ {r} : req'[q] = req[q]
  /\ req'[r] \in Calls
  /\ req'[r].tenant = req[r].tenant /\ req'[r].client = req[r].client
  /\ req'[r].tx = req[r].tx
  /\ req'[r].pc = pc /\ req'[r].claimed = claimed
  /\ req'[r].todo = todo /\ req'[r].reply = reply
-----------------------------------------------------------------------------
LEMMA CallType ==
  ASSUME TypeOK, NEW r \in Requests, req[r].pc # "idle"
  PROVE  /\ req[r] \in Calls
         /\ req[r].tenant \in Tenants /\ req[r].client \in ClientIDs /\ req[r].tx \in Txs
         /\ req[r].claimed \in 0..MaxTime /\ req[r].todo \subseteq Symbols
         /\ req[r].pc \in PCs /\ req[r].reply \in Replies
         /\ Owner(r) \in Owners
         /\ Key(r) \in Keys
         /\ WithdrawalOf[req[r].tx] \in Uint \cup {Overflow}
         /\ \A s \in Symbols : Amount(r, s) \in Nat
  <1>1. req[r] \in Calls
    BY SMT DEF TypeOK, NoCall
  <1>2. /\ req[r].tenant \in Tenants /\ req[r].client \in ClientIDs /\ req[r].tx \in Txs
        /\ req[r].claimed \in 0..MaxTime /\ req[r].todo \subseteq Symbols
        /\ req[r].pc \in PCs /\ req[r].reply \in Replies
    BY <1>1 DEF Calls, PCs, Replies
  <1>3. Owner(r) \in Owners
    BY <1>2, BroadcastAssumption DEF Owner
  <1>4. \A s \in Symbols : Amount(r, s) \in Nat
    <2>1. OutflowOf[req[r].tx] \in [Owners -> [Symbols -> Nat]]
      BY <1>2, BroadcastAssumption
    <2> QED BY <1>3, <2>1 DEF Amount
  <1>5. WithdrawalOf[req[r].tx] \in Uint \cup {Overflow}
    BY <1>2, BroadcastAssumption
  <1>6. Key(r) \in Keys
    BY <1>2 DEF Key, Keys
  <1> QED BY <1>1, <1>2, <1>3, <1>4, <1>5, <1>6

\* The five ways in which a handler assigns its local variables.
LEMMA GotoMoves ==
  ASSUME TypeOK, NEW r \in Requests, req[r].pc # "idle", NEW pc \in PCs, req' = Goto(r, pc)
  PROVE  Moves(r, pc, req[r].claimed, req[r].todo, req[r].reply)
  <1>1. req[r] \in Calls /\ req \in [Requests -> Calls \cup {NoCall}]
    BY CallType DEF TypeOK
  <1> QED BY <1>1 DEF Goto, Moves, Calls, PCs

LEMMA TodoMoves ==
  ASSUME TypeOK, NEW r \in Requests, req[r].pc # "idle", NEW todo \in SUBSET Symbols,
         req' = [req EXCEPT ![r].todo = todo]
  PROVE  Moves(r, req[r].pc, req[r].claimed, todo, req[r].reply)
  <1>1. req[r] \in Calls /\ req \in [Requests -> Calls \cup {NoCall}]
    BY CallType DEF TypeOK
  <1> QED BY <1>1 DEF Moves, Calls

LEMMA GotoAnd ==
  ASSUME TypeOK, NEW r \in Requests, req[r].pc # "idle", NEW pc \in PCs
  PROVE  /\ \A t \in 0..MaxTime :
              req' = [req EXCEPT ![r].pc = pc, ![r].claimed = t]
                => Moves(r, pc, t, req[r].todo, req[r].reply)
         /\ \A todo \in SUBSET Symbols :
              req' = [req EXCEPT ![r].pc = pc, ![r].todo = todo]
                => Moves(r, pc, req[r].claimed, todo, req[r].reply)
         /\ \A reply \in Replies :
              req' = [req EXCEPT ![r].pc = pc, ![r].reply = reply]
                => Moves(r, pc, req[r].claimed, req[r].todo, reply)
  <1>1. req[r] \in Calls /\ req \in [Requests -> Calls \cup {NoCall}]
    BY CallType DEF TypeOK
  <1> DEFINE mid == Goto(r, pc)
  <1>2. /\ mid \in [Requests -> Calls \cup {NoCall}]
        /\ \A q \in Requests \ {r} : mid[q] = req[q]
        /\ mid[r] \in Calls
        /\ mid[r].tenant = req[r].tenant /\ mid[r].client = req[r].client
        /\ mid[r].tx = req[r].tx /\ mid[r].pc = pc /\ mid[r].claimed = req[r].claimed
        /\ mid[r].todo = req[r].todo /\ mid[r].reply = req[r].reply
    BY <1>1 DEF Goto, Calls, PCs
  <1>3. \A x : /\ [req EXCEPT ![r].pc = pc, ![r].claimed = x] = [mid EXCEPT ![r].claimed = x]
               /\ [req EXCEPT ![r].pc = pc, ![r].todo = x] = [mid EXCEPT ![r].todo = x]
               /\ [req EXCEPT ![r].pc = pc, ![r].reply = x] = [mid EXCEPT ![r].reply = x]
    BY DEF Goto
  <1> HIDE DEF mid
  <1>4. ASSUME NEW t \in 0..MaxTime, req' = [mid EXCEPT ![r].claimed = t]
        PROVE  Moves(r, pc, t, req[r].todo, req[r].reply)
    BY <1>2, <1>4 DEF Moves, Calls
  <1>5. ASSUME NEW todo \in SUBSET Symbols, req' = [mid EXCEPT ![r].todo = todo]
        PROVE  Moves(r, pc, req[r].claimed, todo, req[r].reply)
    BY <1>2, <1>5 DEF Moves, Calls
  <1>6. ASSUME NEW reply \in Replies, req' = [mid EXCEPT ![r].reply = reply]
        PROVE  Moves(r, pc, req[r].claimed, req[r].todo, reply)
    BY <1>2, <1>6 DEF Moves, Calls, Replies
  <1> QED BY <1>3, <1>4, <1>5, <1>6

LEMMA ClaimedMoves ==
  ASSUME TypeOK, NEW r \in Requests, req[r].pc # "idle", NEW pc \in PCs,
         NEW t \in 0..MaxTime, req' = [req EXCEPT ![r].pc = pc, ![r].claimed = t]
  PROVE  Moves(r, pc, t, req[r].todo, req[r].reply)
  BY GotoAnd, Zenon

LEMMA GotoTodoMoves ==
  ASSUME TypeOK, NEW r \in Requests, req[r].pc # "idle", NEW pc \in PCs,
         NEW todo \in SUBSET Symbols, req' = [req EXCEPT ![r].pc = pc, ![r].todo = todo]
  PROVE  Moves(r, pc, req[r].claimed, todo, req[r].reply)
  BY GotoAnd, Zenon

LEMMA ReplyMoves ==
  ASSUME TypeOK, NEW r \in Requests, req[r].pc # "idle", NEW pc \in PCs,
         NEW reply \in Replies, req' = [req EXCEPT ![r].pc = pc, ![r].reply = reply]
  PROVE  Moves(r, pc, req[r].claimed, req[r].todo, reply)
  BY GotoAnd, Zenon
-----------------------------------------------------------------------------
PastInspect(r) == req[r].pc \in {"check", "audit", "withdraw", "record", "ok"}

\* The handler of r knows that its transaction was accepted.
KnownSent(r) ==
  \/ req[r].pc = "audit" /\ req[r].reply = "accepted"
  \/ req[r].pc \in {"withdraw", "record", "ok"}

\* What the place of one call says about the tables it has been through.
CallFacts(r) ==
  /\ req[r].pc = "idle" => r \notin accepted /\ \A s \in Symbols : <<r, s>> \notin counted
  /\ req[r].pc # "idle" /\ req[r].claimed > 0
       => req[r].claimed <= now /\ req[r].claimed + TTL <= seen[Key(r)]
  /\ PastInspect(r) \/ r \in accepted
       => SignedBy(req[r].tx, Owner(r)) /\ WithdrawalOf[req[r].tx] \in Uint
  /\ KnownSent(r) => r \in accepted
  /\ req[r].pc \in {"check", "record"} => req[r].todo \subseteq OutSymbols(r)
  /\ req[r].pc = "record" => \A s \in OutSymbols(r) \ req[r].todo : <<r, s>> \in counted
  /\ req[r].pc = "ok" => \A s \in OutSymbols(r) : <<r, s>> \in counted
  /\ \A s \in Symbols : <<r, s>> \in counted => r \in accepted /\ Amount(r, s) > 0

CallsInv ==
  /\ TypeOK
  /\ StoreInv
  /\ \A r \in Requests : CallFacts(r)
  /\ ClaimsAreSpaced
-----------------------------------------------------------------------------
\* A call that a step does not touch keeps its facts.
LEMMA CallFrame ==
  ASSUME NEW q \in Requests, CallFacts(q), req'[q] = req[q],
         q \in accepted' <=> q \in accepted,
         \A s \in Symbols : <<q, s>> \in counted' <=> <<q, s>> \in counted,
         now \in Nat, now' \in Nat, now <= now',
         req[q].pc # "idle" =>
           /\ req[q].claimed \in Nat /\ seen[Key(q)] \in Nat /\ seen'[Key(q)] \in Nat
           /\ seen[Key(q)] <= seen'[Key(q)]
  PROVE  CallFacts(q)'
  <1>1. /\ Owner(q)' = Owner(q) /\ Key(q)' = Key(q) /\ OutSymbols(q)' = OutSymbols(q)
        /\ \A s \in Symbols : Amount(q, s)' = Amount(q, s)
    BY DEF Owner, Key, OutSymbols, Amount
  <1>2. (seen[Key(q)])' = seen'[Key(q)]
    BY <1>1
  <1>3. req[q].pc # "idle" /\ req[q].claimed > 0
          => req[q].claimed <= now' /\ req[q].claimed + TTL <= seen'[Key(q)]
    BY SMT, TTLAssumption DEF CallFacts
  <1>4. PastInspect(q)' = PastInspect(q) /\ KnownSent(q)' = KnownSent(q)
    BY DEF PastInspect, KnownSent
  <1>5. (PastInspect(q) \/ q \in accepted
          => SignedBy(req[q].tx, Owner(q)) /\ WithdrawalOf[req[q].tx] \in Uint)'
    BY <1>1, <1>4 DEF CallFacts, SignedBy
  <1>6. (/\ req[q].pc \in {"check", "record"} => req[q].todo \subseteq OutSymbols(q)
         /\ req[q].pc = "record" => \A s \in OutSymbols(q) \ req[q].todo : <<q, s>> \in counted
         /\ req[q].pc = "ok" => \A s \in OutSymbols(q) : <<q, s>> \in counted)'
    BY <1>1 DEF CallFacts, OutSymbols
  <1>7. (\A s \in Symbols : <<q, s>> \in counted => q \in accepted /\ Amount(q, s) > 0)'
    BY <1>1 DEF CallFacts
  <1> QED BY <1>1, <1>2, <1>3, <1>4, <1>5, <1>6, <1>7 DEF CallFacts

\* A step of call r leaves the other calls, and what r was made with, alone.
LEMMA MovesFrame ==
  ASSUME NEW r \in Requests, NEW pc, NEW claimed, NEW todo, NEW reply,
         Moves(r, pc, claimed, todo, reply)
  PROVE  /\ \A q \in Requests : /\ Owner(q)' = Owner(q) /\ Key(q)' = Key(q)
                                /\ OutSymbols(q)' = OutSymbols(q)
                                /\ req'[q].tx = req[q].tx
                                /\ req'[q].tenant = req[q].tenant
                                /\ \A s \in Symbols : Amount(q, s)' = Amount(q, s)
  BY DEF Moves, Owner, Key, OutSymbols, Amount

\* The facts about a call after a step of it, in terms of its assignments.
LEMMA MovedFacts ==
  ASSUME NEW r \in Requests, NEW pc, NEW claimed, NEW todo, NEW reply,
         Moves(r, pc, claimed, todo, reply), pc # "idle",
         claimed > 0 => claimed <= now' /\ claimed + TTL <= seen'[Key(r)],
         pc \in {"check", "audit", "withdraw", "record", "ok"} \/ r \in accepted'
           => SignedBy(req[r].tx, Owner(r)) /\ WithdrawalOf[req[r].tx] \in Uint,
         (pc = "audit" /\ reply = "accepted") \/ pc \in {"withdraw", "record", "ok"}
           => r \in accepted',
         pc \in {"check", "record"} => todo \subseteq OutSymbols(r),
         pc = "record" => \A s \in OutSymbols(r) \ todo : <<r, s>> \in counted',
         pc = "ok" => \A s \in OutSymbols(r) : <<r, s>> \in counted',
         \A s \in Symbols : <<r, s>> \in counted' => r \in accepted' /\ Amount(r, s) > 0
  PROVE  CallFacts(r)'
  <1>1. /\ req'[r].pc = pc /\ req'[r].claimed = claimed /\ req'[r].todo = todo
        /\ req'[r].reply = reply /\ req'[r].tx = req[r].tx
    BY DEF Moves
  <1>2. /\ Owner(r)' = Owner(r) /\ Key(r)' = Key(r) /\ OutSymbols(r)' = OutSymbols(r)
        /\ \A s \in Symbols : Amount(r, s)' = Amount(r, s)
    BY MovesFrame
  <1>3. (seen[Key(r)])' = seen'[Key(r)]
    BY <1>2
  <1>4. (SignedBy(req[r].tx, Owner(r)) /\ WithdrawalOf[req[r].tx] \in Uint)'
          = (SignedBy(req[r].tx, Owner(r)) /\ WithdrawalOf[req[r].tx] \in Uint)
    BY <1>1, <1>2 DEF SignedBy
  <1>5. /\ PastInspect(r)' = (pc \in {"check", "audit", "withdraw", "record", "ok"})
        /\ KnownSent(r)' = ((pc = "audit" /\ reply = "accepted")
                              \/ pc \in {"withdraw", "record", "ok"})
    BY <1>1 DEF PastInspect, KnownSent
  <1> QED BY <1>1, <1>2, <1>3, <1>4, <1>5 DEF CallFacts

\* What a step of call r has to show for the facts of all calls to stay true.
LEMMA CallStep ==
  ASSUME CallsInv, NEW r \in Requests, req[r].pc # "idle",
         NEW pc, NEW claimed, NEW todo, NEW reply, Moves(r, pc, claimed, todo, reply),
         pc # "idle", TypeOK', StoreInv', now' = now,
         \A q \in Requests \ {r} : q \in accepted' <=> q \in accepted,
         \A q \in Requests \ {r}, s \in Symbols : <<q, s>> \in counted' <=> <<q, s>> \in counted,
         \A k \in Keys : seen[k] <= seen'[k],
         claimed = req[r].claimed \/ (claimed = now /\ seen[Key(r)] <= now),
         CallFacts(r)'
  PROVE  CallsInv'
  <1> USE DEF CallsInv
  <1>1. /\ \A q \in Requests \ {r} : req'[q] = req[q]
        /\ req'[r].claimed = claimed /\ req'[r].pc = pc
    BY DEF Moves
  <1>2. \A q \in Requests : Key(q)' = Key(q)
    BY MovesFrame
  <1>3. now \in Nat /\ \A k \in Keys : seen[k] \in Nat /\ seen'[k] \in Nat
    BY SMT DEF TypeOK
  <1>4. \A q \in Requests : req[q].pc # "idle" => Key(q) \in Keys /\ req[q].claimed \in Nat
    BY SMT, CallType
  <1>5. ASSUME NEW q \in Requests \ {r} PROVE CallFacts(q)'
    <2>1. req[q].pc # "idle" => /\ req[q].claimed \in Nat /\ seen[Key(q)] \in Nat
                                /\ seen'[Key(q)] \in Nat /\ seen[Key(q)] <= seen'[Key(q)]
      BY <1>3, <1>4
    <2>2. CallFacts(q) /\ req'[q] = req[q]
      BY <1>1
    <2> QED BY SMT, <1>3, <2>1, <2>2, CallFrame
  <1>6. ClaimsAreSpaced'
    <2> SUFFICES ASSUME NEW r1 \in Requests, NEW r2 \in Requests, r1 # r2,
                        req'[r1].pc # "idle", req'[r2].pc # "idle", Key(r1)' = Key(r2)',
                        req'[r1].claimed > 0, req'[r2].claimed > 0
                 PROVE  \/ req'[r1].claimed + TTL <= req'[r2].claimed
                        \/ req'[r2].claimed + TTL <= req'[r1].claimed
      BY DEF ClaimsAreSpaced
    <2>1. Key(r1) = Key(r2)
      BY <1>2
    <2>2. req[r1].pc # "idle" /\ req[r2].pc # "idle"
      BY <1>1
    <2>3. CASE req'[r1].claimed = req[r1].claimed /\ req'[r2].claimed = req[r2].claimed
      BY <2>1, <2>2, <2>3 DEF ClaimsAreSpaced
    <2>4. ASSUME NEW q \in Requests, q # r, Key(q) = Key(r), req[q].pc # "idle",
                 req[q].claimed > 0, seen[Key(r)] <= now
          PROVE  req[q].claimed + TTL <= now
      <3>1. req[q].claimed + TTL <= seen[Key(q)]
        BY <2>4 DEF CallFacts
      <3> QED BY SMT, <2>4, <3>1, <1>3, <1>4, TTLAssumption
    <2>5. CASE r1 = r /\ claimed = now /\ seen[Key(r)] <= now
      BY <2>5, <2>4, <1>1, <2>1, <2>2
    <2>6. CASE r2 = r /\ claimed = now /\ seen[Key(r)] <= now
      BY <2>6, <2>4, <1>1, <2>1, <2>2
    <2> QED BY <1>1, <2>3, <2>5, <2>6
  <1> QED BY <1>5, <1>6
-----------------------------------------------------------------------------
LEMMA ArriveCalls ==
  ASSUME CallsInv, NEW r \in Requests, NEW t \in Tenants, NEW c \in ClientIDs, NEW tx \in Txs,
         Arrive(r, t, c, tx)
  PROVE  CallsInv'
  <1> DEFINE x == [pc |-> "claim", tenant |-> t, client |-> c, tx |-> tx,
                   claimed |-> 0, todo |-> {}, reply |-> "none"]
  <1>1. /\ req[r].pc = "idle" /\ req' = [req EXCEPT ![r] = x]
        /\ UNCHANGED <<storeVars, now, seen, ledger, accepted, audit, historyVars>>
    BY DEF Arrive
  <1>2. x \in Calls
    BY SMT, BroadcastAssumption DEF Calls
  <1>3. x.pc = "claim" /\ x.claimed = 0
    OBVIOUS
  <1> HIDE DEF x
  <1>4. /\ req' \in [Requests -> Calls \cup {NoCall}] /\ req'[r] = x
        /\ \A q \in Requests \ {r} : req'[q] = req[q]
    BY <1>1, <1>2 DEF CallsInv, TypeOK
  <1>5. StoreInv'
    BY <1>1, StutterInv DEF CallsInv
  <1>6. TypeOK'
    BY <1>1, <1>4, <1>5 DEF CallsInv, TypeOK, StoreInv, historyVars
  <1>7. CallFacts(r)'
    <2>1. CallFacts(r)
      BY DEF CallsInv
    <2> QED BY SMT, <1>1, <1>3, <1>4, <2>1 DEF CallFacts, PastInspect, KnownSent, historyVars
  <1>8. ASSUME NEW q \in Requests \ {r} PROVE CallFacts(q)'
    <2>1. now \in Nat /\ CallFacts(q) /\ req'[q] = req[q]
      BY SMT, <1>4 DEF CallsInv, TypeOK
    <2>2. req[q].pc # "idle" => req[q].claimed \in Nat /\ seen[Key(q)] \in Nat
      BY SMT, CallType DEF CallsInv, TypeOK
    <2>3. now' = now /\ seen' = seen /\ accepted' = accepted /\ counted' = counted
      BY <1>1 DEF historyVars
    <2> QED BY SMT, <2>1, <2>2, <2>3, CallFrame
  <1>9. ClaimsAreSpaced'
    <2>1. ClaimsAreSpaced
      BY DEF CallsInv
    <2> QED BY SMT, <1>3, <1>4, <2>1 DEF ClaimsAreSpaced, Key
  <1> QED BY <1>5, <1>6, <1>7, <1>8, <1>9 DEF CallsInv

LEMMA ClaimCalls ==
  ASSUME CallsInv, NEW r \in Requests, Claim(r)
  PROVE  CallsInv'
  <1>1. /\ req[r].pc = "claim"
        /\ UNCHANGED <<storeVars, now, ledger, accepted, audit, historyVars>>
    BY DEF Claim
  <1>2. TypeOK /\ CallFacts(r) /\ req[r].pc # "idle"
    BY <1>1 DEF CallsInv
  <1>3. Key(r) \in Keys /\ seen \in [Keys -> Nat] /\ now \in 0..MaxTime /\ now \in Nat
        /\ req[r].claimed \in Nat
    BY SMT, <1>2, CallType DEF TypeOK
  <1>4. StoreInv'
    BY <1>1, StutterInv DEF CallsInv
  <1>5. /\ \A q \in Requests \ {r} : q \in accepted' <=> q \in accepted
        /\ \A q \in Requests \ {r}, s \in Symbols : <<q, s>> \in counted' <=> <<q, s>> \in counted
        /\ now' = now
    BY <1>1 DEF historyVars
  <1>6. CASE ClaimPasses(seen, Key(r), now)
    <2>1. /\ seen' = [seen EXCEPT ![Key(r)] = now + TTL]
          /\ req' = [req EXCEPT ![r].pc = "inspect", ![r].claimed = now]
          /\ seen[Key(r)] <= now
      BY SMT, <1>3, <1>6 DEF Claim, Claimed, ClaimPasses
    <2>2. Moves(r, "inspect", now, req[r].todo, req[r].reply)
      <3>1. "inspect" \in PCs
        BY DEF PCs
      <3> QED BY <1>2, <1>3, <2>1, <3>1, ClaimedMoves
    <2>3. /\ seen' \in [Keys -> Nat] /\ \A k \in Keys : seen[k] <= seen'[k]
          /\ seen'[Key(r)] = now + TTL
      BY SMT, <1>3, <2>1, TTLAssumption
    <2>4. TypeOK'
      BY <1>1, <1>2, <1>4, <2>2, <2>3 DEF TypeOK, StoreInv, historyVars, Moves
    <2>5. CallFacts(r)'
      <3>1. now <= now' /\ now + TTL <= seen'[Key(r)]
        BY SMT, <1>3, <1>5, <2>3, TTLAssumption
      <3>2. /\ r \in accepted' => SignedBy(req[r].tx, Owner(r)) /\ WithdrawalOf[req[r].tx] \in Uint
            /\ \A s \in Symbols : <<r, s>> \in counted' => r \in accepted' /\ Amount(r, s) > 0
        BY <1>1, <1>2 DEF CallFacts, historyVars
      <3> QED BY SMT, <2>2, <3>1, <3>2, MovedFacts
    <2> QED BY <1>2, <1>4, <1>5, <2>1, <2>2, <2>3, <2>4, <2>5, CallStep
  <1>7. CASE ~ClaimPasses(seen, Key(r), now)
    <2>1. req' = Goto(r, "failed") /\ seen' = seen
      BY <1>7 DEF Claim
    <2>2. Moves(r, "failed", req[r].claimed, req[r].todo, req[r].reply)
      BY <1>2, <2>1, GotoMoves DEF PCs
    <2>3. TypeOK'
      BY <1>1, <1>2, <1>4, <2>1, <2>2 DEF TypeOK, StoreInv, historyVars, Moves
    <2>4. CallFacts(r)'
      <3>1. req[r].claimed > 0 => req[r].claimed <= now' /\ req[r].claimed + TTL <= seen'[Key(r)]
        BY <1>2, <1>5, <2>1 DEF CallFacts
      <3>2. /\ r \in accepted' => SignedBy(req[r].tx, Owner(r)) /\ WithdrawalOf[req[r].tx] \in Uint
            /\ \A s \in Symbols : <<r, s>> \in counted' => r \in accepted' /\ Amount(r, s) > 0
        BY <1>1, <1>2 DEF CallFacts, historyVars
      <3> QED BY SMT, <2>2, <3>1, <3>2, MovedFacts
    <2>5. \A k \in Keys : seen[k] <= seen'[k]
      BY SMT, <1>3, <2>1
    <2> QED BY <1>2, <1>4, <1>5, <2>2, <2>3, <2>4, <2>5, CallStep
  <1> QED BY <1>6, <1>7

\* The place call r goes to is one its history allows, if acc are the accepted
\* calls and cnt the counted symbols.
Justified(r, pc, todo, reply, acc, cnt) ==
  /\ pc # "idle"
  /\ pc \in {"check", "audit", "withdraw", "record", "ok"} \/ r \in acc
       => SignedBy(req[r].tx, Owner(r)) /\ WithdrawalOf[req[r].tx] \in Uint
  /\ (pc = "audit" /\ reply = "accepted") \/ pc \in {"withdraw", "record", "ok"}
       => r \in acc
  /\ pc \in {"check", "record"} => todo \subseteq OutSymbols(r)
  /\ pc = "record" => \A s \in OutSymbols(r) \ todo : <<r, s>> \in cnt
  /\ pc = "ok" => \A s \in OutSymbols(r) : <<r, s>> \in cnt
  /\ \A s \in Symbols : <<r, s>> \in cnt => r \in acc /\ Amount(r, s) > 0

\* The steps after Claim leave the clock and the reservations alone.
LEMMA LaterStep ==
  ASSUME CallsInv, NEW r \in Requests, req[r].pc # "idle", NEW pc, NEW todo, NEW reply,
         Moves(r, pc, req[r].claimed, todo, reply),
         Justified(r, pc, todo, reply, accepted', counted'),
         TypeOK', StoreInv', now' = now, seen' = seen,
         \A q \in Requests \ {r} : q \in accepted' <=> q \in accepted,
         \A q \in Requests \ {r}, s \in Symbols : <<q, s>> \in counted' <=> <<q, s>> \in counted
  PROVE  CallsInv'
  <1>1. req[r].claimed > 0 => req[r].claimed <= now' /\ req[r].claimed + TTL <= seen'[Key(r)]
    BY DEF CallsInv, CallFacts
  <1>2. CallFacts(r)'
    BY <1>1, MovedFacts DEF Justified
  <1>3. \A k \in Keys : seen[k] <= seen'[k]
    BY SMT DEF CallsInv, TypeOK
  <1>4. pc # "idle"
    BY DEF Justified
  <1> QED BY <1>2, <1>3, <1>4, CallStep

\* A step of call r that changes none of the tables the facts speak about.
LEMMA LocalStep ==
  ASSUME CallsInv, NEW r \in Requests, req[r].pc # "idle", NEW pc, NEW todo, NEW reply,
         Moves(r, pc, req[r].claimed, todo, reply),
         Justified(r, pc, todo, reply, accepted, counted), TypeOK', StoreInv',
         now' = now, seen' = seen, accepted' = accepted, counted' = counted
  PROVE  CallsInv'
  <1>1. Justified(r, pc, todo, reply, accepted', counted')
    OBVIOUS
  <1> QED BY <1>1, LaterStep

LEMMA InspectCalls ==
  ASSUME CallsInv, NEW r \in Requests, Inspect(r)
  PROVE  CallsInv'
  <1> DEFINE q == WithdrawalOf[req[r].tx]
             after == IF q > 0 THEN LedgerAfterEnforce(ledger, today, q) ELSE ledger
  <1>1. /\ req[r].pc = "inspect"
        /\ UNCHANGED <<storeVars, now, seen, accepted, audit,
                       moved, withdrawn, counted, excused, recapped>>
    BY DEF Inspect
  <1>2. TypeOK /\ CallFacts(r) /\ req[r].pc # "idle"
    BY <1>1 DEF CallsInv
  <1>3. req[r].tenant \in Tenants /\ OutSymbols(r) \subseteq Symbols
        /\ q \in Uint \cup {Overflow}
    BY <1>2, CallType DEF OutSymbols
  <1>4. StoreInv'
    BY <1>1, StutterInv DEF CallsInv
  <1>5. now' = now /\ seen' = seen /\ accepted' = accepted /\ counted' = counted
    BY <1>1
  <1>7. CASE ~SignedBy(req[r].tx, Owner(r)) \/ q = Overflow
    <2>1. req' = Goto(r, "failed") /\ ledger' = ledger /\ excusedT' = excusedT
      BY <1>7 DEF Inspect
    <2>2. Moves(r, "failed", req[r].claimed, req[r].todo, req[r].reply)
      BY <1>2, <2>1, GotoMoves DEF PCs
    <2>3. TypeOK'
      BY <1>1, <1>2, <1>4, <2>1, <2>2 DEF TypeOK, StoreInv, Moves
    <2>4. Justified(r, "failed", req[r].todo, req[r].reply, accepted, counted)
      BY <1>2 DEF Justified, CallFacts
    <2> QED BY <1>2, <1>4, <1>5, <2>2, <2>3, <2>4, LocalStep
  <1>8. CASE SignedBy(req[r].tx, Owner(r)) /\ q # Overflow
    <2> DEFINE passes == ~(q > 0 /\ ~EnforcePasses(after, req[r].tenant, q))
    <2>1. /\ ledger' = after
          /\ ~passes => req' = Denied(r) /\ excusedT' = excusedT
          /\ passes => /\ req' = [req EXCEPT ![r].pc = "check", ![r].todo = OutSymbols(r)]
                       /\ excusedT' = excusedT \cup
                            {u \in {req[r].tenant} :
                               q > 0 /\ ExposedWithdrawals(req[r].tenant) # {}}
      BY <1>8 DEF Inspect
    <2>2. ledger' \in [day : Days, used : [Tenants -> Uint]]
      BY SMT, <1>2, <2>1, MaxUintAssumption
         DEF LedgerAfterEnforce, LedgerRolled, TypeOK, StoreTypeOK, Uint
    <2>3. excusedT' \subseteq Tenants
      BY <1>2, <1>3, <2>1 DEF TypeOK
    <2>4. CASE ~passes
      <3>1. Moves(r, "failed", req[r].claimed, req[r].todo, "denied")
        BY <1>2, <2>1, <2>4, ReplyMoves DEF PCs, Replies, Denied
      <3>2. TypeOK'
        BY <1>1, <1>2, <1>4, <2>2, <2>3, <3>1 DEF TypeOK, StoreInv, Moves
      <3>3. Justified(r, "failed", req[r].todo, "denied", accepted, counted)
        BY <1>2 DEF Justified, CallFacts
      <3> QED BY <1>2, <1>4, <1>5, <3>1, <3>2, <3>3, LocalStep
    <2>5. CASE passes
      <3>1. Moves(r, "check", req[r].claimed, OutSymbols(r), req[r].reply)
        BY <1>2, <1>3, <2>1, <2>5, GotoTodoMoves DEF PCs
      <3>2. TypeOK'
        BY <1>1, <1>2, <1>4, <2>2, <2>3, <3>1 DEF TypeOK, StoreInv, Moves
      <3>3. Justified(r, "check", OutSymbols(r), req[r].reply, accepted, counted)
        BY <1>2, <1>3, <1>8 DEF Justified, CallFacts
      <3> QED BY <1>2, <1>4, <1>5, <3>1, <3>2, <3>3, LocalStep
    <2> QED BY <2>4, <2>5
  <1> QED BY <1>7, <1>8

LEMMA CheckCalls ==
  ASSUME CallsInv, NEW r \in Requests, NEW s \in Symbols, CheckSymbol(r, s)
  PROVE  CallsInv'
  <1>1. /\ req[r].pc = "check" /\ s \in req[r].todo /\ Check(Amount(r, s))
        /\ now' = now /\ seen' = seen /\ accepted' = accepted /\ counted' = counted
        /\ UNCHANGED <<now, seen, ledger, accepted, audit,
                       moved, withdrawn, counted, recapped, excusedT>>
    BY DEF CheckSymbol
  <1>2. TypeOK /\ CallFacts(r) /\ req[r].pc # "idle"
    BY <1>1 DEF CallsInv
  <1>3. Owner(r) \in Owners /\ req[r].todo \subseteq Symbols
    BY <1>2, CallType
  <1>4. StoreInv'
    BY <1>1, UsedSection, StutterInv DEF CallsInv, Check
  <1>5. CASE CheckPasses(Owner(r), s, Amount(r, s))
    <2>1. /\ req' = [req EXCEPT ![r].todo = req[r].todo \ {s}]
          /\ excused' \subseteq excused \cup {<<Owner(r), s>>}
      BY <1>5 DEF CheckSymbol
    <2>2. Moves(r, "check", req[r].claimed, req[r].todo \ {s}, req[r].reply)
      BY <1>1, <1>2, <1>3, <2>1, TodoMoves
    <2>3. TypeOK'
      BY SMT, <1>1, <1>2, <1>3, <1>4, <2>1, <2>2 DEF TypeOK, StoreInv, Moves
    <2>4. Justified(r, "check", req[r].todo \ {s}, req[r].reply, accepted, counted)
      BY <1>1, <1>2 DEF Justified, CallFacts, PastInspect
    <2> QED BY <1>1, <1>2, <1>4, <2>2, <2>3, <2>4, LocalStep
  <1>6. CASE ~CheckPasses(Owner(r), s, Amount(r, s))
    <2>1. req' = Denied(r) /\ excused' = excused
      BY <1>6 DEF CheckSymbol
    <2>2. Moves(r, "failed", req[r].claimed, req[r].todo, "denied")
      BY <1>2, <2>1, ReplyMoves DEF PCs, Replies, Denied
    <2>3. TypeOK'
      BY <1>1, <1>2, <1>4, <2>1, <2>2 DEF TypeOK, StoreInv, Moves
    <2>4. Justified(r, "failed", req[r].todo, "denied", accepted, counted)
      BY <1>2 DEF Justified, CallFacts
    <2> QED BY <1>1, <1>2, <1>4, <2>2, <2>3, <2>4, LocalStep
  <1> QED BY <1>5, <1>6

\* What Send does to the chain's side of the model.
SendsOnChain(r) ==
  /\ accepted' = accepted \cup {r}
  /\ moved' = [moved EXCEPT ![Owner(r)] = [s \in Symbols |-> moved[Owner(r)][s] + Amount(r, s)]]
  /\ withdrawn' = [withdrawn EXCEPT ![req[r].tenant] =
                     withdrawn[req[r].tenant] + WithdrawalOf[req[r].tx]]

LEMMA SendCalls ==
  ASSUME CallsInv, NEW r \in Requests, Send(r)
  PROVE  CallsInv'
  <1>1. /\ req[r].pc = "check" /\ req[r].todo = {}
        /\ UNCHANGED <<storeVars, now, seen, ledger, audit, counted, recapped>>
        /\ now' = now /\ seen' = seen /\ counted' = counted
    BY DEF Send
  <1>2. TypeOK /\ CallFacts(r) /\ req[r].pc # "idle"
    BY <1>1 DEF CallsInv
  <1>3. /\ Owner(r) \in Owners /\ req[r].tenant \in Tenants
        /\ \A s \in Symbols : Amount(r, s) \in Nat
    BY <1>2, CallType
  <1>4. WithdrawalOf[req[r].tx] \in Nat
    BY SMT, <1>1, <1>2, MaxUintAssumption DEF CallFacts, PastInspect, Uint
  <1>5. StoreInv'
    BY <1>1, StutterInv DEF CallsInv
  <1>6. PICK reply \in {"accepted", "refused", "error"}, onChain \in BOOLEAN :
          /\ reply = "accepted" => onChain
          /\ req' = [req EXCEPT ![r].pc = "audit", ![r].reply = reply]
          /\ onChain => SendsOnChain(r)
          /\ ~onChain => UNCHANGED <<accepted, moved, withdrawn>>
          /\ excused' \subseteq excused \cup OutPairs(r)
          /\ excusedT' \subseteq excusedT \cup {req[r].tenant}
    BY DEF Send, SendsOnChain
  <1>7. Moves(r, "audit", req[r].claimed, req[r].todo, reply)
    BY <1>2, <1>6, ReplyMoves DEF PCs, Replies
  <1>8. /\ moved' \in Usage
        /\ withdrawn' \in [Tenants -> Nat]
    <2>1. CASE ~onChain
      BY <1>2, <1>6, <2>1 DEF TypeOK
    <2>2. CASE onChain
      <3> DEFINE row == [s \in Symbols |-> moved[Owner(r)][s] + Amount(r, s)]
      <3>1. row \in [Symbols -> Nat]
        BY SMT, <1>2, <1>3 DEF TypeOK, Usage
      <3>2. moved' = [moved EXCEPT ![Owner(r)] = row]
        BY <1>6, <2>2 DEF SendsOnChain
      <3> HIDE DEF row
      <3>3. moved' \in Usage
        BY <1>2, <3>1, <3>2 DEF TypeOK, Usage
      <3>4. withdrawn' \in [Tenants -> Nat]
        BY SMT, <1>2, <1>3, <1>4, <1>6, <2>2 DEF TypeOK, SendsOnChain
      <3> QED BY <3>3, <3>4
    <2> QED BY <2>1, <2>2
  <1>9. OutPairs(r) \subseteq Owners \X Symbols
    BY SMT, <1>3 DEF OutPairs, OutSymbols
  <1>10. /\ accepted' \subseteq accepted \cup {r}
         /\ accepted \subseteq accepted'
         /\ reply = "accepted" => r \in accepted'
    BY <1>6 DEF SendsOnChain
  <1>11. TypeOK'
    BY <1>1, <1>2, <1>3, <1>5, <1>6, <1>7, <1>8, <1>9, <1>10 DEF TypeOK, StoreInv, Moves
  <1>12. Justified(r, "audit", req[r].todo, reply, accepted', counted')
    BY <1>1, <1>2, <1>10 DEF Justified, CallFacts, PastInspect
  <1>13. /\ \A q \in Requests \ {r} : q \in accepted' <=> q \in accepted
         /\ \A q \in Requests \ {r}, s \in Symbols : <<q, s>> \in counted' <=> <<q, s>> \in counted
    BY <1>1, <1>10
  <1> QED BY <1>1, <1>2, <1>5, <1>7, <1>11, <1>12, <1>13, LaterStep

LEMMA AuditCalls ==
  ASSUME CallsInv, NEW r \in Requests, Audit(r)
  PROVE  CallsInv'
  <1>1. /\ req[r].pc = "audit"
        /\ now' = now /\ seen' = seen /\ accepted' = accepted /\ counted' = counted
        /\ UNCHANGED <<storeVars, now, seen, ledger, accepted, historyVars>>
        /\ audit' \subseteq audit \cup {<<r, "broadcast">>, <<r, "chain_reject">>}
    BY DEF Audit, historyVars
  <1>2. PICK pc \in {"withdraw", "failed", "answered"} :
          /\ req' = Goto(r, pc)
          /\ pc = "withdraw" => req[r].reply = "accepted"
    BY DEF Audit
  <1>3. TypeOK /\ CallFacts(r) /\ req[r].pc # "idle"
    BY <1>1 DEF CallsInv
  <1>4. StoreInv'
    BY <1>1, StutterInv DEF CallsInv
  <1>5. Moves(r, pc, req[r].claimed, req[r].todo, req[r].reply)
    BY <1>2, <1>3, GotoMoves DEF PCs
  <1>6. TypeOK'
    BY SMT, <1>1, <1>3, <1>4, <1>5 DEF TypeOK, StoreInv, Moves, historyVars
  <1>7. Justified(r, pc, req[r].todo, req[r].reply, accepted, counted)
    BY <1>1, <1>2, <1>3 DEF Justified, CallFacts, PastInspect, KnownSent
  <1> QED BY <1>1, <1>3, <1>4, <1>5, <1>6, <1>7, LocalStep

LEMMA LedgerRecordType ==
  ASSUME NEW l \in [day : Days, used : [Tenants -> Uint]], NEW t \in Tenants,
         NEW q \in Uint, NEW day \in Days
  PROVE  /\ LedgerRecord(l, t, q, day) \in [day : Days, used : [Tenants -> Uint]]
         /\ LedgerRecord(l, t, q, day).day = day
  <1> DEFINE r == LedgerRolled(l, day)
             sum == AddUint(r.used[t], q)
             x == IF sum < r.used[t] THEN MaxUint ELSE sum
  <1>1. r \in [day : Days, used : [Tenants -> Uint]] /\ r.day = day
    BY SMT, MaxUintAssumption DEF LedgerRolled, Uint
  <1>2. r.used[t] \in Nat /\ q \in Nat
    BY SMT, <1>1, MaxUintAssumption DEF Uint
  <1>3. \A n \in Nat : n % (MaxUint + 1) \in 0..MaxUint
    BY SMT, MaxUintAssumption
  <1>4. sum \in Uint
    BY SMT, <1>2, <1>3 DEF AddUint, Uint
  <1>5. x \in Uint
    BY SMT, <1>4, MaxUintAssumption DEF Uint
  <1>6. LedgerRecord(l, t, q, day) = [day |-> r.day, used |-> [r.used EXCEPT ![t] = x]]
    BY DEF LedgerRecord
  <1> HIDE DEF r, x
  <1> QED BY SMT, <1>1, <1>5, <1>6

LEMMA RecordWithdrawCalls ==
  ASSUME CallsInv, NEW r \in Requests, RecordWithdraw(r)
  PROVE  CallsInv'
  <1> DEFINE q == WithdrawalOf[req[r].tx]
  <1>1. /\ req[r].pc = "withdraw"
        /\ ledger' = IF q > 0 THEN LedgerRecord(ledger, req[r].tenant, q, today) ELSE ledger
        /\ req' = [req EXCEPT ![r].pc = "record", ![r].todo = OutSymbols(r)]
        /\ UNCHANGED <<storeVars, now, seen, accepted, audit, historyVars>>
        /\ now' = now /\ seen' = seen /\ accepted' = accepted /\ counted' = counted
    BY DEF RecordWithdraw, historyVars
  <1>2. TypeOK /\ CallFacts(r) /\ req[r].pc # "idle"
    BY <1>1 DEF CallsInv
  <1>3. req[r].tenant \in Tenants /\ OutSymbols(r) \subseteq Symbols /\ q \in Uint
    BY <1>1, <1>2, CallType DEF OutSymbols, CallFacts, PastInspect
  <1>4. StoreInv'
    BY <1>1, StutterInv DEF CallsInv
  <1>5. ledger' \in [day : Days, used : [Tenants -> Uint]]
    <2>1. today \in Days /\ ledger \in [day : Days, used : [Tenants -> Uint]]
      BY <1>2 DEF TypeOK, StoreTypeOK
    <2> QED BY <1>1, <1>3, <2>1, LedgerRecordType
  <1>6. Moves(r, "record", req[r].claimed, OutSymbols(r), req[r].reply)
    BY <1>1, <1>2, <1>3, GotoTodoMoves DEF PCs
  <1>7. TypeOK'
    BY <1>1, <1>2, <1>4, <1>5, <1>6 DEF TypeOK, StoreInv, Moves, historyVars
  <1>8. Justified(r, "record", OutSymbols(r), req[r].reply, accepted, counted)
    BY <1>1, <1>2 DEF Justified, CallFacts, PastInspect, KnownSent
  <1> QED BY <1>1, <1>2, <1>4, <1>6, <1>7, <1>8, LocalStep

LEMMA RecordCalls ==
  ASSUME CallsInv, NEW r \in Requests, NEW s \in Symbols, RecordSymbol(r, s)
  PROVE  CallsInv'
  <1>1. /\ req[r].pc = "record" /\ s \in req[r].todo
        /\ Record(Owner(r), s, Amount(r, s))
        /\ counted' = counted \cup {<<r, s>>}
        /\ req' = [req EXCEPT ![r].todo = req[r].todo \ {s}]
        /\ UNCHANGED <<now, seen, ledger, accepted, audit,
                       moved, withdrawn, excused, recapped, excusedT>>
        /\ now' = now /\ seen' = seen /\ accepted' = accepted
    BY DEF RecordSymbol
  <1>2. TypeOK /\ CallFacts(r) /\ req[r].pc # "idle"
    BY <1>1 DEF CallsInv
  <1>3. Owner(r) \in Owners /\ Amount(r, s) \in Nat /\ req[r].todo \subseteq Symbols
    BY <1>2, CallType
  <1>4. StoreInv'
    BY <1>1, <1>3, RecordSection DEF CallsInv
  <1>5. Moves(r, "record", req[r].claimed, req[r].todo \ {s}, req[r].reply)
    BY <1>1, <1>2, <1>3, TodoMoves
  <1>6. TypeOK'
    BY SMT, <1>1, <1>2, <1>4, <1>5 DEF TypeOK, StoreInv, Moves
  <1>7. Justified(r, "record", req[r].todo \ {s}, req[r].reply, accepted', counted')
    <2>1. /\ r \in accepted /\ SignedBy(req[r].tx, Owner(r)) /\ WithdrawalOf[req[r].tx] \in Uint
          /\ req[r].todo \subseteq OutSymbols(r)
          /\ \A x \in OutSymbols(r) \ req[r].todo : <<r, x>> \in counted
          /\ \A x \in Symbols : <<r, x>> \in counted => Amount(r, x) > 0
      BY <1>1, <1>2 DEF CallFacts, PastInspect, KnownSent
    <2>2. Amount(r, s) > 0
      BY <1>1, <2>1 DEF OutSymbols
    <2>3. \A x : <<r, x>> \in counted' <=> <<r, x>> \in counted \/ x = s
      BY <1>1
    <2> QED BY <1>1, <2>1, <2>2, <2>3 DEF Justified
  <1>8. /\ \A q \in Requests \ {r} : q \in accepted' <=> q \in accepted
        /\ \A q \in Requests \ {r}, x \in Symbols : <<q, x>> \in counted' <=> <<q, x>> \in counted
    BY <1>1
  <1> QED BY <1>1, <1>2, <1>4, <1>5, <1>6, <1>7, <1>8, LaterStep

LEMMA FinishCalls ==
  ASSUME CallsInv, NEW r \in Requests, Finish(r)
  PROVE  CallsInv'
  <1>1. /\ req[r].pc = "record" /\ req[r].todo = {} /\ req' = Goto(r, "ok")
        /\ UNCHANGED <<storeVars, now, seen, ledger, accepted, audit, historyVars>>
        /\ now' = now /\ seen' = seen /\ accepted' = accepted /\ counted' = counted
    BY DEF Finish, historyVars
  <1>2. TypeOK /\ CallFacts(r) /\ req[r].pc # "idle"
    BY <1>1 DEF CallsInv
  <1>3. StoreInv'
    BY <1>1, StutterInv DEF CallsInv
  <1>4. Moves(r, "ok", req[r].claimed, req[r].todo, req[r].reply)
    BY <1>1, <1>2, GotoMoves DEF PCs
  <1>5. TypeOK'
    BY <1>1, <1>2, <1>3, <1>4 DEF TypeOK, StoreInv, Moves, historyVars
  <1>6. Justified(r, "ok", req[r].todo, req[r].reply, accepted, counted)
    BY <1>1, <1>2 DEF Justified, CallFacts, PastInspect, KnownSent
  <1> QED BY <1>1, <1>2, <1>3, <1>4, <1>5, <1>6, LocalStep

\* A step that touches no call, no reservation and no acceptance.
LEMMA NoCallStep ==
  ASSUME CallsInv, TypeOK', StoreInv', req' = req, seen' = seen, accepted' = accepted,
         counted' = counted, now <= now'
  PROVE  CallsInv'
  <1>1. ASSUME NEW q \in Requests PROVE CallFacts(q)'
    <2>1. /\ now \in Nat /\ now' \in Nat /\ CallFacts(q) /\ req'[q] = req[q]
          /\ q \in accepted' <=> q \in accepted
          /\ \A s \in Symbols : <<q, s>> \in counted' <=> <<q, s>> \in counted
      BY SMT DEF CallsInv, TypeOK
    <2>2. req[q].pc # "idle" => /\ req[q].claimed \in Nat /\ seen[Key(q)] \in Nat
                                /\ seen'[Key(q)] \in Nat /\ seen[Key(q)] <= seen'[Key(q)]
      <3>1. seen \in [Keys -> Nat] /\ seen' = seen
        BY DEF CallsInv, TypeOK
      <3>2. req[q].pc # "idle" => req[q].claimed \in 0..MaxTime /\ Key(q) \in Keys
        BY CallType DEF CallsInv
      <3> QED BY SMT, <3>1, <3>2, BroadcastAssumption
    <2> QED BY <2>1, <2>2, CallFrame
  <1>2. ClaimsAreSpaced'
    BY DEF CallsInv, ClaimsAreSpaced, Key
  <1> QED BY <1>1, <1>2 DEF CallsInv

LEMMA SetCapCalls ==
  ASSUME CallsInv, NEW o \in Owners, NEW s \in Symbols, SetTransferOutCap(o, s)
  PROVE  CallsInv'
  <1>1. UNCHANGED <<handlerVars, moved, withdrawn, counted, excused, excusedT>>
        /\ recapped' \subseteq recapped \cup {<<o, s>>}
    BY DEF SetTransferOutCap
  <1>2. StoreInv'
    BY CapSection DEF SetTransferOutCap, SetCap, SetUnlimited, CallsInv
  <1>3. TypeOK'
    BY SMT, <1>1, <1>2 DEF CallsInv, TypeOK, StoreInv, handlerVars
  <1>4. /\ req' = req /\ seen' = seen /\ accepted' = accepted /\ counted' = counted
        /\ now <= now'
    BY SMT, <1>1 DEF handlerVars, CallsInv, TypeOK
  <1> QED BY <1>2, <1>3, <1>4, NoCallStep

LEMMA WorldCalls ==
  ASSUME CallsInv, GetTransferOutCap \/ Tick \/ NewDay \/ UNCHANGED vars
  PROVE  CallsInv'
  <1>1. CASE GetTransferOutCap
    <2>1. StoreInv'
      BY <1>1, UsedSection DEF GetTransferOutCap, CallsInv
    <2>2. TypeOK'
      BY <1>1, <2>1 DEF GetTransferOutCap, CallsInv, TypeOK, StoreInv, handlerVars, historyVars
    <2>3. /\ req' = req /\ seen' = seen /\ accepted' = accepted /\ counted' = counted
          /\ now <= now'
      BY SMT, <1>1 DEF GetTransferOutCap, CallsInv, TypeOK, handlerVars, historyVars
    <2> QED BY <2>1, <2>2, <2>3, NoCallStep
  <1>2. CASE Tick
    <2>1. StoreInv'
      BY <1>2, StutterInv DEF Tick, CallsInv
    <2>2. TypeOK'
      <3>1. now \in 1..MaxTime /\ now < MaxTime /\ now' = now + 1
        BY <1>2 DEF Tick, CallsInv, TypeOK
      <3>2. now' \in 1..MaxTime
        BY SMT, <3>1, BroadcastAssumption
      <3> QED BY <1>2, <2>1, <3>2 DEF Tick, CallsInv, TypeOK, StoreInv, historyVars
    <2>3. /\ req' = req /\ seen' = seen /\ accepted' = accepted /\ counted' = counted
          /\ now <= now'
      BY SMT, <1>2 DEF Tick, CallsInv, TypeOK, historyVars
    <2> QED BY <2>1, <2>2, <2>3, NoCallStep
  <1>3. CASE NewDay
    <2>1. StoreInv'
      BY <1>3, MidnightInv DEF NewDay, CallsInv
    <2>2. TypeOK'
      BY <1>3, <2>1 DEF NewDay, CallsInv, TypeOK, StoreInv, handlerVars, Usage, NoUsage
    <2>3. /\ req' = req /\ seen' = seen /\ accepted' = accepted /\ counted' = counted
          /\ now <= now'
      BY SMT, <1>3 DEF NewDay, CallsInv, TypeOK, handlerVars
    <2> QED BY <2>1, <2>2, <2>3, NoCallStep
  <1>4. CASE UNCHANGED vars
    <2>1. StoreInv'
      BY <1>4, StutterInv DEF vars, CallsInv
    <2>2. TypeOK'
      BY <1>4, <2>1 DEF vars, CallsInv, TypeOK, StoreInv, handlerVars, historyVars
    <2>3. /\ req' = req /\ seen' = seen /\ accepted' = accepted /\ counted' = counted
          /\ now <= now'
      BY SMT, <1>4 DEF vars, CallsInv, TypeOK, handlerVars, historyVars
    <2> QED BY <2>1, <2>2, <2>3, NoCallStep
  <1> QED BY <1>1, <1>2, <1>3, <1>4

LEMMA CrashCalls ==
  ASSUME CallsInv, Crash
  PROVE  CallsInv'
  <1>1. /\ Restart /\ seen' = NewIdempotency(Keys) /\ ledger' = NewMemoryLedger
        /\ excused' = excused \cup Forgotten /\ excusedT' = {}
        /\ withdrawn' = [t \in Tenants |-> 0]
        /\ UNCHANGED <<now, accepted, audit, moved, counted, recapped>>
    BY DEF Crash
  <1>2. StoreInv'
    BY <1>1, RestartInv DEF CallsInv
  <1>3. req' \in [Requests -> Calls \cup {NoCall}]
    <2>1. \A r \in Requests : req'[r] \in Calls \cup {NoCall}
      <3> SUFFICES ASSUME NEW r \in Requests PROVE req'[r] \in Calls \cup {NoCall}
        OBVIOUS
      <3>1. CASE req[r].pc = "idle"
        BY <3>1 DEF Crash, InFlight, CallsInv, TypeOK
      <3>2. CASE req[r].pc # "idle"
        <4>1. req[r] \in Calls
          BY <3>2, CallType DEF CallsInv
        <4>2. req'[r] = IF InFlight(r) THEN [req[r] EXCEPT !.pc = "cut", !.claimed = 0]
                                       ELSE [req[r] EXCEPT !.claimed = 0]
          BY <3>2 DEF Crash
        <4>3. 0 \in 0..MaxTime
          BY SMT, BroadcastAssumption
        <4>4. [req[r] EXCEPT !.claimed = 0] \in Calls
          BY <4>1, <4>3 DEF Calls
        <4>5. [req[r] EXCEPT !.pc = "cut", !.claimed = 0] \in Calls
          BY <4>1, <4>3 DEF Calls
        <4> QED BY <4>2, <4>4, <4>5
      <3> QED BY <3>1, <3>2
    <2> QED BY <2>1 DEF Crash
  <1>4. ASSUME NEW r \in Requests
        PROVE  /\ req[r].pc = "idle" => req'[r] = req[r]
               /\ req[r].pc # "idle" =>
                    /\ req'[r].tenant = req[r].tenant /\ req'[r].client = req[r].client
                    /\ req'[r].tx = req[r].tx /\ req'[r].claimed = 0
                    /\ req'[r].pc = IF InFlight(r) THEN "cut" ELSE req[r].pc
    <2>1. CASE req[r].pc = "idle"
      BY <2>1 DEF Crash, InFlight
    <2>2. CASE req[r].pc # "idle"
      <3>1. req[r] \in Calls
        BY <2>2, CallType DEF CallsInv
      <3>2. req'[r] = IF InFlight(r) THEN [req[r] EXCEPT !.pc = "cut", !.claimed = 0]
                                     ELSE [req[r] EXCEPT !.claimed = 0]
        BY <2>2 DEF Crash
      <3> QED BY <2>2, <3>1, <3>2 DEF Calls
    <2> QED BY <2>1, <2>2
  <1>5. TypeOK'
    <2>1. seen' \in [Keys -> Nat]
      BY <1>1 DEF NewIdempotency
    <2>2. ledger' \in [day : Days, used : [Tenants -> Uint]]
      BY SMT, <1>1, StoreAssumption, MaxUintAssumption DEF NewMemoryLedger, Days, Uint
    <2>3. excused' \subseteq Owners \X Symbols
      BY <1>1 DEF Forgotten, CallsInv, TypeOK
    <2>4. withdrawn' \in [Tenants -> Nat] /\ excusedT' \in SUBSET Tenants
      BY <1>1
    <2> QED BY <1>1, <1>2, <1>3, <2>1, <2>2, <2>3, <2>4 DEF CallsInv, TypeOK, StoreInv
  <1>6. ASSUME NEW r \in Requests PROVE CallFacts(r)'
    <2>1. CallFacts(r)
      BY DEF CallsInv
    <2>2. CASE req[r].pc = "idle"
      BY <1>1, <1>4, <2>1, <2>2 DEF CallFacts, PastInspect, KnownSent
    <2>3. CASE req[r].pc # "idle"
      <3>1. /\ Owner(r)' = Owner(r) /\ OutSymbols(r)' = OutSymbols(r)
            /\ \A s \in Symbols : Amount(r, s)' = Amount(r, s)
        BY <1>4, <2>3 DEF Owner, Amount, OutSymbols
      <3>2. (SignedBy(req[r].tx, Owner(r)) /\ WithdrawalOf[req[r].tx] \in Uint)'
              = (SignedBy(req[r].tx, Owner(r)) /\ WithdrawalOf[req[r].tx] \in Uint)
        BY <1>4, <2>3, <3>1 DEF SignedBy
      <3>3. req'[r].pc \in {"cut", "ok", "answered", "failed"}
            /\ (req'[r].pc = "ok" => req[r].pc = "ok")
        BY <1>4, <2>3 DEF InFlight
      <3>4. req'[r].claimed = 0
        BY <1>4, <2>3
      <3>5. accepted' = accepted /\ counted' = counted
        BY <1>1
      <3>6. PastInspect(r)' => PastInspect(r)
        BY <3>3 DEF PastInspect
      <3>7. KnownSent(r)' => r \in accepted
        BY <2>1, <3>3 DEF KnownSent, CallFacts
      <3>8. (PastInspect(r) \/ r \in accepted
               => SignedBy(req[r].tx, Owner(r)) /\ WithdrawalOf[req[r].tx] \in Uint)'
        BY <2>1, <3>2, <3>5, <3>6 DEF CallFacts
      <3>9. (req[r].pc = "ok" => \A s \in OutSymbols(r) : <<r, s>> \in counted)'
        BY <2>1, <3>1, <3>3, <3>5 DEF CallFacts
      <3>10. (\A s \in Symbols : <<r, s>> \in counted => r \in accepted /\ Amount(r, s) > 0)'
        BY <2>1, <3>1, <3>5 DEF CallFacts
      <3>11. ~(req'[r].claimed > 0)
        BY SMT, <3>4
      <3> QED BY <3>3, <3>5, <3>7, <3>8, <3>9, <3>10, <3>11 DEF CallFacts
    <2> QED BY <2>2, <2>3
  <1>7. ClaimsAreSpaced'
    BY SMT, <1>4 DEF ClaimsAreSpaced
  <1> QED BY <1>2, <1>5, <1>6, <1>7 DEF CallsInv

LEMMA InitCalls == Init => CallsInv
  <1> SUFFICES ASSUME Init PROVE CallsInv
    OBVIOUS
  <1>1. StoreInv
    BY StoreInitInv DEF Init
  <1>2. \A r \in Requests : req[r] = NoCall /\ req[r].pc = "idle"
    BY DEF Init, NoCall
  <1>3. TypeOK
    <2>1. ledger \in [day : Days, used : [Tenants -> Uint]]
      BY SMT, StoreAssumption, MaxUintAssumption DEF Init, NewMemoryLedger, Days, Uint
    <2>2. moved \in Usage /\ withdrawn \in [Tenants -> Nat]
      BY DEF Init, NoUsage, Usage
    <2>3. now \in 1..MaxTime /\ seen \in [Keys -> Nat] /\ req \in [Requests -> Calls \cup {NoCall}]
      <3>1. now = 1 /\ seen = [k \in Keys |-> 0] /\ req = [r \in Requests |-> NoCall]
        BY DEF Init, NewIdempotency
      <3> QED BY SMT, <3>1, BroadcastAssumption
    <2> QED BY <1>1, <2>1, <2>2, <2>3 DEF TypeOK, StoreInv, Init
  <1>4. ASSUME NEW r \in Requests PROVE CallFacts(r)
    BY <1>2 DEF CallFacts, Init, PastInspect, KnownSent
  <1>5. ClaimsAreSpaced
    BY <1>2 DEF ClaimsAreSpaced
  <1> QED BY <1>1, <1>3, <1>4, <1>5 DEF CallsInv

LEMMA NextCalls == CallsInv /\ [Next]_vars => CallsInv'
  <1> SUFFICES ASSUME CallsInv, [Next]_vars PROVE CallsInv'
    OBVIOUS
  <1>1. ASSUME NEW r \in Requests, Step(r) PROVE CallsInv'
    BY <1>1, ArriveCalls, ClaimCalls, InspectCalls, CheckCalls, SendCalls, AuditCalls,
       RecordWithdrawCalls, RecordCalls, FinishCalls DEF Step
  <1>2. ASSUME NEW o \in Owners, NEW s \in CappedSymbols, SetTransferOutCap(o, s)
        PROVE  CallsInv'
    BY <1>2, SetCapCalls, BroadcastAssumption
  <1> QED BY <1>1, <1>2, WorldCalls, CrashCalls DEF Next
-----------------------------------------------------------------------------
(***************************************************************************)
(* The facts about the calls, the store's invariant and the types hold in  *)
(* every reachable state of the two broadcast tools.                       *)
(***************************************************************************)
THEOREM CallsInvariant == Spec => []CallsInv
  BY InitCalls, NextCalls, PTL DEF Spec

(***************************************************************************)
(* Idempotency.Claim: within one life of the process two calls of a tenant *)
(* with the same client_id get past Claim only a whole TTL apart.          *)
(***************************************************************************)
THEOREM RetriesAreSpaced == Spec => []ClaimsAreSpaced
  <1>1. CallsInv => ClaimsAreSpaced
    BY DEF CallsInv
  <1> QED BY <1>1, CallsInvariant, PTL

(***************************************************************************)
(* TransferOut.Record: what is counted against a cap was accepted by a     *)
(* chain, and a call that reports success was counted for every symbol.    *)
(***************************************************************************)
THEOREM MeterCountsAcceptedOnly == Spec => []CountsAcceptedOnly
  <1>1. CallsInv => CountsAcceptedOnly
    BY DEF CallsInv, CallFacts, KnownSent, CountsAcceptedOnly
  <1> QED BY <1>1, CallsInvariant, PTL
=============================================================================
