------------------------ MODULE BroadcastCapProofs --------------------------
(***************************************************************************)
(* The two daily caps of Broadcast bound what leaves a wallet, for every   *)
(* number of concurrent calls, wallets, tenants, transactions and caps.    *)
(***************************************************************************)
EXTENDS BroadcastProofs

\* First-order leaves go to Zenon; the others name the prover they need.
USE Zenon

Spent(o, s) == UsedToday(mem, o, s)

(***************************************************************************)
(* One wallet and one symbol, while nothing excuses them: at most one call *)
(* is exposed; what the chain moved is what the store knows, but for an    *)
(* exposed call that was sent; and both stay within a cap set in time.     *)
(***************************************************************************)
PairInv(o, s) ==
  <<o, s>> \notin excused =>
    /\ \A r, q \in ExposedCalls(o, s) : r = q
    /\ (\A r \in ExposedCalls(o, s) : req[r].pc = "check") => moved[o][s] <= Spent(o, s)
    /\ \A r \in ExposedCalls(o, s) : moved[o][s] <= Spent(o, s) + Amount(r, s)
    /\ <<o, s>> \notin recapped /\ mem.caps[o][s] # NoCap =>
         /\ Spent(o, s) <= mem.caps[o][s]
         /\ \A r \in ExposedCalls(o, s) : Spent(o, s) + Amount(r, s) <= mem.caps[o][s]

PairsInv == \A o \in Owners, s \in Symbols : PairInv(o, s)
-----------------------------------------------------------------------------
LEMMA ExposedType ==
  ASSUME CallsInv, NEW o \in Owners, NEW s \in Symbols
  PROVE  /\ Spent(o, s) \in Nat
         /\ moved[o][s] \in Nat
         /\ mem.caps[o][s] # NoCap => mem.caps[o][s] \in Nat
         /\ \A r \in ExposedCalls(o, s) :
              r \in Requests /\ req[r].pc # "idle" /\ Owner(r) = o /\ Amount(r, s) \in Nat
  <1>1. mem \in Snapshots /\ moved \in Usage
    BY DEF CallsInv, TypeOK, StoreTypeOK
  <1>2. Spent(o, s) \in Nat
    BY <1>1 DEF Spent, UsedToday, Snapshots, Usage
  <1>3. mem.caps[o][s] # NoCap => mem.caps[o][s] \in Nat
    <2>1. mem.caps[o][s] \in CapValues \cup {NoCap}
      BY <1>1 DEF Snapshots, Caps
    <2> QED BY <2>1, StoreAssumption
  <1>4. ASSUME NEW r \in ExposedCalls(o, s)
        PROVE  r \in Requests /\ req[r].pc # "idle" /\ Owner(r) = o /\ Amount(r, s) \in Nat
    <2>1. r \in Requests /\ req[r].pc # "idle" /\ Owner(r) = o
      BY <1>4 DEF ExposedCalls, Exposed
    <2> QED BY <2>1, CallType DEF CallsInv
  <1>5. moved[o][s] \in Nat
    BY <1>1 DEF Usage
  <1> QED BY <1>2, <1>3, <1>4, <1>5

(***************************************************************************)
(* A step that moves and meters nothing for the pair, and takes calls out  *)
(* of the exposed ones only if they were not sent.                         *)
(***************************************************************************)
LEMMA PairFrame ==
  ASSUME CallsInv, NEW o \in Owners, NEW s \in Symbols, PairInv(o, s),
         <<o, s>> \in excused => <<o, s>> \in excused',
         <<o, s>> \in recapped => <<o, s>> \in recapped',
         moved'[o][s] = moved[o][s], Spent(o, s)' = Spent(o, s),
         mem'.caps[o][s] = mem.caps[o][s],
         ExposedCalls(o, s)' \subseteq ExposedCalls(o, s),
         \A r \in ExposedCalls(o, s)' :
            /\ Amount(r, s)' = Amount(r, s)
            /\ req'[r].pc = "check" => req[r].pc = "check",
         \A r \in ExposedCalls(o, s) :
            r \notin ExposedCalls(o, s)' => req[r].pc = "check"
  PROVE  PairInv(o, s)'
  <1> SUFFICES ASSUME <<o, s>> \notin excused'
               PROVE  (/\ \A r, q \in ExposedCalls(o, s) : r = q
                       /\ (\A r \in ExposedCalls(o, s) : req[r].pc = "check")
                            => moved[o][s] <= Spent(o, s)
                       /\ \A r \in ExposedCalls(o, s) : moved[o][s] <= Spent(o, s) + Amount(r, s)
                       /\ <<o, s>> \notin recapped /\ mem.caps[o][s] # NoCap =>
                            /\ Spent(o, s) <= mem.caps[o][s]
                            /\ \A r \in ExposedCalls(o, s) :
                                 Spent(o, s) + Amount(r, s) <= mem.caps[o][s])'
    BY DEF PairInv
  <1>1. (\A r, q \in ExposedCalls(o, s) : r = q)'
    BY DEF PairInv
  <1>2. ((\A r \in ExposedCalls(o, s) : req[r].pc = "check") => moved[o][s] <= Spent(o, s))'
    BY DEF PairInv
  <1>3. (\A r \in ExposedCalls(o, s) : moved[o][s] <= Spent(o, s) + Amount(r, s))'
    BY DEF PairInv
  <1>4. (<<o, s>> \notin recapped /\ mem.caps[o][s] # NoCap =>
           /\ Spent(o, s) <= mem.caps[o][s]
           /\ \A r \in ExposedCalls(o, s) : Spent(o, s) + Amount(r, s) <= mem.caps[o][s])'
    BY DEF PairInv
  <1> QED BY <1>1, <1>2, <1>3, <1>4

\* A call at pc, with these local variables, may still move s unmetered.
ExposedAt(pc, todo, reply, s) ==
  \/ pc = "check" /\ s \notin todo
  \/ pc = "audit" /\ reply = "accepted"
  \/ pc = "withdraw"
  \/ pc = "record" /\ s \in todo

LEMMA ExposedNow ==
  ASSUME NEW r \in Requests, NEW o, NEW s
  PROVE  r \in ExposedCalls(o, s) <=>
           /\ ExposedAt(req[r].pc, req[r].todo, req[r].reply, s)
           /\ s \in OutSymbols(r) /\ Owner(r) = o
  BY DEF ExposedCalls, Exposed, ExposedAt

LEMMA ExposedAfter ==
  ASSUME NEW r \in Requests, NEW pc, NEW claimed, NEW todo, NEW reply,
         Moves(r, pc, claimed, todo, reply), NEW o, NEW s \in Symbols
  PROVE  /\ \A q \in Requests \ {r} :
              /\ q \in ExposedCalls(o, s)' <=> q \in ExposedCalls(o, s)
              /\ req'[q].pc = req[q].pc
         /\ r \in ExposedCalls(o, s)' <=>
              ExposedAt(pc, todo, reply, s) /\ s \in OutSymbols(r) /\ Owner(r) = o
         /\ \A q \in Requests : Amount(q, s)' = Amount(q, s)
  <1>1. /\ \A q \in Requests \ {r} : req'[q] = req[q]
        /\ req'[r].pc = pc /\ req'[r].todo = todo /\ req'[r].reply = reply
    BY DEF Moves
  <1>2. \A q \in Requests : /\ Owner(q)' = Owner(q) /\ OutSymbols(q)' = OutSymbols(q)
                            /\ Amount(q, s)' = Amount(q, s)
    BY MovesFrame
  <1>3. \A q \in Requests \ {r} : q \in ExposedCalls(o, s)' <=> q \in ExposedCalls(o, s)
    BY <1>1, <1>2 DEF ExposedCalls, Exposed
  <1>4. r \in ExposedCalls(o, s)' <=>
          ExposedAt(pc, todo, reply, s) /\ s \in OutSymbols(r) /\ Owner(r) = o
    BY <1>1, <1>2 DEF ExposedCalls, Exposed, ExposedAt
  <1> QED BY <1>1, <1>2, <1>3, <1>4

\* PairFrame for a step of call r.
LEMMA MovesPair ==
  ASSUME CallsInv, NEW o \in Owners, NEW s \in Symbols, PairInv(o, s),
         NEW r \in Requests, NEW pc, NEW claimed, NEW todo, NEW reply,
         Moves(r, pc, claimed, todo, reply),
         <<o, s>> \in excused => <<o, s>> \in excused',
         <<o, s>> \in recapped => <<o, s>> \in recapped',
         moved'[o][s] = moved[o][s], Spent(o, s)' = Spent(o, s),
         mem'.caps[o][s] = mem.caps[o][s],
         s \in OutSymbols(r) /\ Owner(r) = o =>
           /\ ExposedAt(pc, todo, reply, s) =>
                /\ ExposedAt(req[r].pc, req[r].todo, req[r].reply, s)
                /\ pc = "check" => req[r].pc = "check"
           /\ ExposedAt(req[r].pc, req[r].todo, req[r].reply, s) =>
                ExposedAt(pc, todo, reply, s) \/ req[r].pc = "check"
  PROVE  PairInv(o, s)'
  <1>1. /\ \A q \in Requests \ {r} :
             /\ q \in ExposedCalls(o, s)' <=> q \in ExposedCalls(o, s)
             /\ req'[q].pc = req[q].pc
        /\ r \in ExposedCalls(o, s)' <=>
             ExposedAt(pc, todo, reply, s) /\ s \in OutSymbols(r) /\ Owner(r) = o
        /\ \A q \in Requests : Amount(q, s)' = Amount(q, s)
    BY ExposedAfter
  <1>2. r \in ExposedCalls(o, s) <=>
          /\ ExposedAt(req[r].pc, req[r].todo, req[r].reply, s)
          /\ s \in OutSymbols(r) /\ Owner(r) = o
    BY ExposedNow
  <1>3. ExposedCalls(o, s) \subseteq Requests /\ ExposedCalls(o, s)' \subseteq Requests
    BY DEF ExposedCalls
  <1>4. req'[r].pc = pc
    BY DEF Moves
  <1>5. ExposedCalls(o, s)' \subseteq ExposedCalls(o, s)
    BY <1>1, <1>2, <1>3
  <1>6. \A q \in ExposedCalls(o, s)' :
          /\ Amount(q, s)' = Amount(q, s)
          /\ req'[q].pc = "check" => req[q].pc = "check"
    BY <1>1, <1>2, <1>3, <1>4
  <1>7. \A q \in ExposedCalls(o, s) : q \notin ExposedCalls(o, s)' => req[q].pc = "check"
    BY <1>1, <1>2, <1>3
  <1> QED BY <1>5, <1>6, <1>7, PairFrame

\* What the sections of the store do to the usage and the caps.
LEMMA QuietStore ==
  ASSUME StoreInv, UNCHANGED storeVars \/ Used, NEW o \in Owners, NEW s \in Symbols
  PROVE  Spent(o, s)' = Spent(o, s) /\ mem'.caps[o][s] = mem.caps[o][s]
  <1>1. CASE UNCHANGED storeVars
    BY <1>1 DEF storeVars, Spent, UsedToday
  <1>2. CASE Used
    <2>1. mem' = Rolled(mem) /\ today' = today
      BY <1>2 DEF Used, RolloverLocked
    <2>2. /\ Rolled(mem).day = today /\ Rolled(mem).caps = mem.caps
          /\ Rolled(mem).used[o][s] = UsedToday(mem, o, s)
      BY RolledType DEF StoreInv
    <2> QED BY <2>1, <2>2 DEF Spent, UsedToday
  <1> QED BY <1>1, <1>2

LEMMA RecordStore ==
  ASSUME StoreInv, NEW o \in Owners, NEW s \in Symbols, NEW a \in Nat \ {0}, Record(o, s, a)
  PROVE  /\ Spent(o, s)' = Spent(o, s) + a
         /\ \A p \in Owners, x \in Symbols :
              /\ mem'.caps[p][x] = mem.caps[p][x]
              /\ p # o \/ x # s => Spent(p, x)' = Spent(p, x)
  <1> DEFINE m == Rolled(mem)
  <1>1. mem' = WithUse(m, o, s, a) /\ today' = today
    BY DEF Record
  <1>2. /\ m \in Snapshots /\ m.day = today /\ m.caps = mem.caps
        /\ \A p \in Owners, x \in Symbols : m.used[p][x] = UsedToday(mem, p, x)
    BY RolledType DEF StoreInv
  <1> HIDE DEF m
  <1>3. /\ mem'.day = today /\ mem'.caps = mem.caps
        /\ mem'.used[o][s] = m.used[o][s] + a
        /\ \A p \in Owners, x \in Symbols : p # o \/ x # s => mem'.used[p][x] = m.used[p][x]
    BY SMT, <1>1, <1>2, WithUseType
  <1> QED BY SMT, <1>1, <1>2, <1>3 DEF Spent, UsedToday
-----------------------------------------------------------------------------
LEMMA ArrivePairs ==
  ASSUME CallsInv, PairsInv, NEW r \in Requests, NEW t \in Tenants, NEW c \in ClientIDs,
         NEW tx \in Txs, Arrive(r, t, c, tx), NEW o \in Owners, NEW s \in Symbols
  PROVE  PairInv(o, s)'
  <1>1. /\ UNCHANGED storeVars /\ moved' = moved /\ excused' = excused /\ recapped' = recapped
        /\ req[r].pc = "idle"
    BY DEF Arrive, historyVars
  <1>2. /\ \A q \in Requests \ {r} : req'[q] = req[q]
        /\ req'[r].pc = "claim"
    BY DEF Arrive, CallsInv, TypeOK
  <1>3. Spent(o, s)' = Spent(o, s) /\ mem'.caps[o][s] = mem.caps[o][s]
    BY <1>1, QuietStore DEF CallsInv
  <1>4. r \notin ExposedCalls(o, s) /\ r \notin ExposedCalls(o, s)'
    BY <1>1, <1>2 DEF ExposedCalls, Exposed
  <1>5. \A q \in Requests \ {r} :
          /\ q \in ExposedCalls(o, s)' <=> q \in ExposedCalls(o, s)
          /\ Amount(q, s)' = Amount(q, s)
    BY <1>2 DEF ExposedCalls, Exposed, OutSymbols, Owner, Amount
  <1>6. ExposedCalls(o, s) \subseteq Requests /\ ExposedCalls(o, s)' \subseteq Requests
    BY DEF ExposedCalls
  <1>7. PairInv(o, s)
    BY DEF PairsInv
  <1>8. ExposedCalls(o, s)' \subseteq ExposedCalls(o, s)
    BY <1>4, <1>5, <1>6
  <1>9. /\ \A q \in ExposedCalls(o, s)' : /\ Amount(q, s)' = Amount(q, s)
                                          /\ req'[q].pc = "check" => req[q].pc = "check"
        /\ \A q \in ExposedCalls(o, s) : q \notin ExposedCalls(o, s)' => req[q].pc = "check"
    BY <1>2, <1>4, <1>5, <1>6
  <1>10. moved'[o][s] = moved[o][s]
    BY <1>1
  <1> QED BY <1>1, <1>3, <1>7, <1>8, <1>9, <1>10, PairFrame

LEMMA ClaimPairs ==
  ASSUME CallsInv, PairsInv, NEW r \in Requests, Claim(r), NEW o \in Owners, NEW s \in Symbols
  PROVE  PairInv(o, s)'
  <1>1. /\ UNCHANGED storeVars /\ moved' = moved /\ excused' = excused /\ recapped' = recapped
        /\ req[r].pc = "claim"
    BY DEF Claim, historyVars
  <1>2. TypeOK /\ req[r].pc # "idle" /\ now \in 0..MaxTime /\ PairInv(o, s)
    BY SMT, <1>1 DEF CallsInv, TypeOK, PairsInv
  <1>3. PICK pc \in {"inspect", "failed"}, claimed \in 0..MaxTime :
          Moves(r, pc, claimed, req[r].todo, req[r].reply)
    <2>1. CASE req' = Goto(r, "failed")
      BY <1>2, <2>1, GotoMoves, CallType DEF PCs
    <2>2. CASE req' = [req EXCEPT ![r].pc = "inspect", ![r].claimed = now]
      <3>1. "inspect" \in PCs
        BY DEF PCs
      <3>2. Moves(r, "inspect", now, req[r].todo, req[r].reply)
        BY <1>2, <2>2, <3>1, ClaimedMoves
      <3> QED BY <1>2, <3>2
    <2> QED BY <2>1, <2>2 DEF Claim
  <1>4. Spent(o, s)' = Spent(o, s) /\ mem'.caps[o][s] = mem.caps[o][s]
    BY <1>1, QuietStore DEF CallsInv
  <1>5. ~ExposedAt(pc, req[r].todo, req[r].reply, s)
        /\ ~ExposedAt(req[r].pc, req[r].todo, req[r].reply, s)
    BY <1>1 DEF ExposedAt
  <1>6. moved'[o][s] = moved[o][s]
    BY <1>1
  <1> QED BY <1>1, <1>2, <1>3, <1>4, <1>5, <1>6, MovesPair

LEMMA InspectPairs ==
  ASSUME CallsInv, PairsInv, NEW r \in Requests, Inspect(r), NEW o \in Owners, NEW s \in Symbols
  PROVE  PairInv(o, s)'
  <1>1. /\ UNCHANGED storeVars /\ moved' = moved /\ excused' = excused /\ recapped' = recapped
        /\ req[r].pc = "inspect"
    BY DEF Inspect
  <1>2. TypeOK /\ req[r].pc # "idle" /\ PairInv(o, s)
    BY <1>1 DEF CallsInv, PairsInv
  <1>3. PICK pc, todo, reply :
          /\ Moves(r, pc, req[r].claimed, todo, reply)
          /\ pc = "failed" \/ (pc = "check" /\ todo = OutSymbols(r))
    <2>1. CASE req' = Goto(r, "failed")
      BY <1>2, <2>1, GotoMoves DEF PCs
    <2>2. CASE req' = Denied(r)
      BY <1>2, <2>2, ReplyMoves DEF PCs, Replies, Denied
    <2>3. CASE req' = [req EXCEPT ![r].pc = "check", ![r].todo = OutSymbols(r)]
      <3>1. "check" \in PCs /\ OutSymbols(r) \in SUBSET Symbols
        BY DEF PCs, OutSymbols
      <3>2. Moves(r, "check", req[r].claimed, OutSymbols(r), req[r].reply)
        BY <1>2, <2>3, <3>1, GotoTodoMoves
      <3> QED BY <3>2
    <2> QED BY <2>1, <2>2, <2>3 DEF Inspect
  <1>4. Spent(o, s)' = Spent(o, s) /\ mem'.caps[o][s] = mem.caps[o][s]
    BY <1>1, QuietStore DEF CallsInv
  <1>5. s \in OutSymbols(r) => /\ ~ExposedAt(pc, todo, reply, s)
                               /\ ~ExposedAt(req[r].pc, req[r].todo, req[r].reply, s)
    BY <1>1, <1>3 DEF ExposedAt
  <1>6. moved'[o][s] = moved[o][s]
    BY <1>1
  <1> QED BY <1>1, <1>2, <1>3, <1>4, <1>5, <1>6, MovesPair

LEMMA AuditPairs ==
  ASSUME CallsInv, PairsInv, NEW r \in Requests, Audit(r), NEW o \in Owners, NEW s \in Symbols
  PROVE  PairInv(o, s)'
  <1>1. /\ UNCHANGED storeVars /\ moved' = moved /\ excused' = excused /\ recapped' = recapped
        /\ req[r].pc = "audit"
    BY DEF Audit, historyVars
  <1>2. TypeOK /\ req[r].pc # "idle" /\ PairInv(o, s)
    BY <1>1 DEF CallsInv, PairsInv
  <1>3. PICK pc \in {"withdraw", "failed", "answered"} :
          /\ req' = Goto(r, pc)
          /\ pc = "withdraw" <=> req[r].reply = "accepted"
    BY DEF Audit
  <1>4. Moves(r, pc, req[r].claimed, req[r].todo, req[r].reply)
    BY <1>2, <1>3, GotoMoves DEF PCs
  <1>5. Spent(o, s)' = Spent(o, s) /\ mem'.caps[o][s] = mem.caps[o][s]
    BY <1>1, QuietStore DEF CallsInv
  <1>6. /\ ExposedAt(pc, req[r].todo, req[r].reply, s)
             <=> ExposedAt(req[r].pc, req[r].todo, req[r].reply, s)
        /\ pc # "check"
    BY <1>1, <1>3 DEF ExposedAt
  <1>7. moved'[o][s] = moved[o][s]
    BY <1>1
  <1> QED BY <1>1, <1>2, <1>4, <1>5, <1>6, <1>7, MovesPair

LEMMA RecordWithdrawPairs ==
  ASSUME CallsInv, PairsInv, NEW r \in Requests, RecordWithdraw(r),
         NEW o \in Owners, NEW s \in Symbols
  PROVE  PairInv(o, s)'
  <1>1. /\ UNCHANGED storeVars /\ moved' = moved /\ excused' = excused /\ recapped' = recapped
        /\ req[r].pc = "withdraw"
        /\ req' = [req EXCEPT ![r].pc = "record", ![r].todo = OutSymbols(r)]
    BY DEF RecordWithdraw, historyVars
  <1>2. TypeOK /\ req[r].pc # "idle" /\ PairInv(o, s)
    BY <1>1 DEF CallsInv, PairsInv
  <1>3. Moves(r, "record", req[r].claimed, OutSymbols(r), req[r].reply)
    <2>1. "record" \in PCs /\ OutSymbols(r) \in SUBSET Symbols
      BY DEF PCs, OutSymbols
    <2> QED BY <1>1, <1>2, <2>1, GotoTodoMoves
  <1>4. Spent(o, s)' = Spent(o, s) /\ mem'.caps[o][s] = mem.caps[o][s]
    BY <1>1, QuietStore DEF CallsInv
  <1>5. s \in OutSymbols(r) => /\ ExposedAt("record", OutSymbols(r), req[r].reply, s)
                               /\ ExposedAt(req[r].pc, req[r].todo, req[r].reply, s)
    BY <1>1 DEF ExposedAt
  <1>6. moved'[o][s] = moved[o][s]
    BY <1>1
  <1> QED BY <1>1, <1>2, <1>3, <1>4, <1>5, <1>6, MovesPair

LEMMA FinishPairs ==
  ASSUME CallsInv, PairsInv, NEW r \in Requests, Finish(r), NEW o \in Owners, NEW s \in Symbols
  PROVE  PairInv(o, s)'
  <1>1. /\ UNCHANGED storeVars /\ moved' = moved /\ excused' = excused /\ recapped' = recapped
        /\ req[r].pc = "record" /\ req[r].todo = {} /\ req' = Goto(r, "ok")
    BY DEF Finish, historyVars
  <1>2. TypeOK /\ req[r].pc # "idle" /\ PairInv(o, s)
    BY <1>1 DEF CallsInv, PairsInv
  <1>3. Moves(r, "ok", req[r].claimed, req[r].todo, req[r].reply)
    BY <1>1, <1>2, GotoMoves DEF PCs
  <1>4. Spent(o, s)' = Spent(o, s) /\ mem'.caps[o][s] = mem.caps[o][s]
    BY <1>1, QuietStore DEF CallsInv
  <1>5. /\ ~ExposedAt("ok", req[r].todo, req[r].reply, s)
        /\ ~ExposedAt(req[r].pc, req[r].todo, req[r].reply, s)
    BY <1>1 DEF ExposedAt
  <1>6. moved'[o][s] = moved[o][s]
    BY <1>1
  <1> QED BY <1>1, <1>2, <1>3, <1>4, <1>5, <1>6, MovesPair

LEMMA CheckPairs ==
  ASSUME CallsInv, PairsInv, NEW r \in Requests, NEW x \in Symbols, CheckSymbol(r, x),
         NEW o \in Owners, NEW s \in Symbols
  PROVE  PairInv(o, s)'
  <1>1. /\ req[r].pc = "check" /\ x \in req[r].todo /\ Check(Amount(r, x))
        /\ moved' = moved /\ recapped' = recapped
    BY DEF CheckSymbol
  <1>2. /\ TypeOK /\ req[r].pc # "idle" /\ PairInv(o, s) /\ CallFacts(r)
        /\ <<o, s>> \in excused => <<o, s>> \in excused'
    BY <1>1 DEF CallsInv, PairsInv, CheckSymbol
  <1>3. Spent(o, s)' = Spent(o, s) /\ mem'.caps[o][s] = mem.caps[o][s]
    BY <1>1, QuietStore DEF CallsInv, Check
  <1>4. moved'[o][s] = moved[o][s]
    BY <1>1
  <1>5. CASE ~CheckPasses(Owner(r), x, Amount(r, x))
    <2>1. req' = Denied(r)
      BY <1>5 DEF CheckSymbol
    <2>2. Moves(r, "failed", req[r].claimed, req[r].todo, "denied")
      BY <1>2, <2>1, ReplyMoves DEF PCs, Replies, Denied
    <2>3. ~ExposedAt("failed", req[r].todo, "denied", s)
      BY DEF ExposedAt
    <2> QED BY <1>1, <1>2, <1>3, <1>4, <2>2, <2>3, MovesPair
  <1>6. CASE CheckPasses(Owner(r), x, Amount(r, x))
    <2>1. /\ req' = [req EXCEPT ![r].todo = req[r].todo \ {x}]
          /\ excused' = excused \cup
               {p \in {<<Owner(r), x>>} : ExposedCalls(Owner(r), x) # {}}
      BY <1>6 DEF CheckSymbol
    <2>2. Moves(r, "check", req[r].claimed, req[r].todo \ {x}, req[r].reply)
      <3>1. req[r].todo \ {x} \in SUBSET Symbols
        BY <1>2, CallType
      <3> QED BY <1>1, <1>2, <2>1, <3>1, TodoMoves
    <2>3. CASE o # Owner(r) \/ s # x
      <3>1. s # x => (ExposedAt("check", req[r].todo \ {x}, req[r].reply, s)
                        <=> ExposedAt(req[r].pc, req[r].todo, req[r].reply, s))
        BY <1>1 DEF ExposedAt
      <3> QED BY <1>1, <1>2, <1>3, <1>4, <2>2, <2>3, <3>1, MovesPair
    <2>4. CASE o = Owner(r) /\ s = x
      <3>1. CASE ExposedCalls(o, s) # {}
        BY <2>1, <2>4, <3>1 DEF PairInv
      <3>2. CASE ExposedCalls(o, s) = {}
        <4>1. \A q \in ExposedCalls(o, s)' : q = r
          <5>1. \A q \in Requests \ {r} : q \in ExposedCalls(o, s)' <=> q \in ExposedCalls(o, s)
            BY <2>2, ExposedAfter
          <5>2. ExposedCalls(o, s)' \subseteq Requests
            BY DEF ExposedCalls
          <5> QED BY <3>2, <5>1, <5>2
        <4>2. Amount(r, s)' = Amount(r, s)
          BY <2>2, MovesFrame
        <4>3. Amount(r, s) \in Nat /\ Amount(r, s) > 0
          <5>1. x \in OutSymbols(r)
            BY <1>1, <1>2 DEF CallFacts
          <5> QED BY <1>2, <2>4, <5>1, CallType DEF OutSymbols
        <4>4. /\ Spent(o, s) \in Nat /\ moved[o][s] \in Nat
              /\ mem.caps[o][s] # NoCap => mem.caps[o][s] \in Nat
          BY ExposedType
        <4>5. mem.caps[o][s] # NoCap => Spent(o, s) + Amount(r, s) <= mem.caps[o][s]
          <5>1. Rolled(mem).used[o][s] = Spent(o, s)
            BY RolledType DEF CallsInv, StoreInv, Spent
          <5> QED BY SMT, <1>6, <2>4, <4>3, <5>1 DEF CheckPasses
        <4>6. <<o, s>> \notin excused => moved[o][s] <= Spent(o, s)
          BY <1>2, <3>2 DEF PairInv
        <4>7. ASSUME <<o, s>> \notin excused' PROVE <<o, s>> \notin excused
          BY <1>2, <4>7
        <4>8. (<<o, s>> \notin excused =>
                 /\ \A p, q \in ExposedCalls(o, s) : p = q
                 /\ moved[o][s] <= Spent(o, s)
                 /\ \A q \in ExposedCalls(o, s) : moved[o][s] <= Spent(o, s) + Amount(q, s))'
          BY SMT, <1>3, <1>4, <4>1, <4>2, <4>3, <4>4, <4>6, <4>7
        <4>9. (mem.caps[o][s] # NoCap =>
                 /\ Spent(o, s) <= mem.caps[o][s]
                 /\ \A q \in ExposedCalls(o, s) : Spent(o, s) + Amount(q, s) <= mem.caps[o][s])'
          BY SMT, <1>3, <4>1, <4>2, <4>3, <4>4, <4>5
        <4> QED BY <4>8, <4>9 DEF PairInv
      <3> QED BY <3>1, <3>2
    <2> QED BY <2>3, <2>4
  <1> QED BY <1>5, <1>6

LEMMA RecordPairs ==
  ASSUME CallsInv, PairsInv, NEW r \in Requests, NEW x \in Symbols, RecordSymbol(r, x),
         NEW o \in Owners, NEW s \in Symbols
  PROVE  PairInv(o, s)'
  <1>1. /\ req[r].pc = "record" /\ x \in req[r].todo
        /\ Record(Owner(r), x, Amount(r, x))
        /\ req' = [req EXCEPT ![r].todo = req[r].todo \ {x}]
        /\ moved' = moved /\ excused' = excused /\ recapped' = recapped
    BY DEF RecordSymbol
  <1>2. TypeOK /\ StoreInv /\ req[r].pc # "idle" /\ PairInv(o, s) /\ CallFacts(r)
    BY <1>1 DEF CallsInv, PairsInv
  <1>3. Owner(r) \in Owners /\ x \in OutSymbols(r) /\ Amount(r, x) \in Nat \ {0}
    <2>1. x \in OutSymbols(r) /\ Amount(r, x) \in Nat
      BY <1>1, <1>2, CallType DEF CallFacts
    <2> QED BY SMT, <1>2, <2>1, CallType DEF OutSymbols
  <1>4. Moves(r, "record", req[r].claimed, req[r].todo \ {x}, req[r].reply)
    <2>1. req[r].todo \ {x} \in SUBSET Symbols
      BY <1>2, CallType
    <2> QED BY <1>1, <1>2, <2>1, TodoMoves
  <1>5. /\ o = Owner(r) /\ s = x => Spent(o, s)' = Spent(o, s) + Amount(r, s)
        /\ mem'.caps[o][s] = mem.caps[o][s]
        /\ o # Owner(r) \/ s # x => Spent(o, s)' = Spent(o, s)
    <2>1. PICK w \in Owners, a \in Nat \ {0} : w = Owner(r) /\ a = Amount(r, x)
      BY <1>3
    <2>2. /\ Spent(w, x)' = Spent(w, x) + a
          /\ \A p \in Owners, y \in Symbols :
               /\ mem'.caps[p][y] = mem.caps[p][y]
               /\ p # w \/ y # x => Spent(p, y)' = Spent(p, y)
      <3>1. Record(w, x, a)
        BY <1>1, <2>1
      <3> QED BY <1>2, <3>1, RecordStore
    <2>3. o = w /\ s = x => Spent(o, s)' = Spent(o, s) + Amount(r, s)
      BY <2>1, <2>2
    <2>4. mem'.caps[o][s] = mem.caps[o][s] /\ (o # w \/ s # x => Spent(o, s)' = Spent(o, s))
      BY <2>2
    <2> QED BY <2>1, <2>3, <2>4
  <1>6. moved'[o][s] = moved[o][s]
    BY <1>1
  <1>7. CASE o # Owner(r) \/ s # x
    <2>1. s # x => (ExposedAt("record", req[r].todo \ {x}, req[r].reply, s)
                      <=> ExposedAt(req[r].pc, req[r].todo, req[r].reply, s))
      BY <1>1 DEF ExposedAt
    <2> QED BY <1>1, <1>2, <1>4, <1>5, <1>6, <1>7, <2>1, MovesPair
  <1>8. CASE o = Owner(r) /\ s = x
    <2>1. r \in ExposedCalls(o, s)
      BY <1>1, <1>3, <1>8 DEF ExposedCalls, Exposed
    <2>2. r \notin ExposedCalls(o, s)'
      <3>1. ~ExposedAt("record", req[r].todo \ {x}, req[r].reply, s)
        BY <1>8 DEF ExposedAt
      <3> QED BY <1>4, <3>1, ExposedAfter
    <2>3. <<o, s>> \notin excused => ExposedCalls(o, s)' = {}
      <3>1. \A q \in Requests \ {r} : q \in ExposedCalls(o, s)' <=> q \in ExposedCalls(o, s)
        BY <1>4, ExposedAfter
      <3>2. ExposedCalls(o, s)' \subseteq Requests
        BY DEF ExposedCalls
      <3>3. <<o, s>> \notin excused => \A q \in ExposedCalls(o, s) : q = r
        BY <1>2, <2>1 DEF PairInv
      <3> QED BY <2>2, <3>1, <3>2, <3>3
    <2>4. <<o, s>> \notin excused => moved[o][s] <= Spent(o, s)'
      BY <1>2, <1>5, <1>8, <2>1 DEF PairInv
    <2>5. <<o, s>> \notin excused /\ <<o, s>> \notin recapped /\ mem.caps[o][s] # NoCap
            => Spent(o, s)' <= mem.caps[o][s]
      BY <1>2, <1>5, <1>8, <2>1 DEF PairInv
    <2> QED BY <1>1, <1>5, <1>6, <2>3, <2>4, <2>5 DEF PairInv
  <1> QED BY <1>7, <1>8

LEMMA SendPairs ==
  ASSUME CallsInv, PairsInv, NEW r \in Requests, Send(r), NEW o \in Owners, NEW s \in Symbols
  PROVE  PairInv(o, s)'
  <1>1. /\ req[r].pc = "check" /\ req[r].todo = {}
        /\ UNCHANGED storeVars /\ recapped' = recapped
    BY DEF Send
  <1>2. TypeOK /\ req[r].pc # "idle" /\ PairInv(o, s)
    BY <1>1 DEF CallsInv, PairsInv
  <1>3. PICK reply \in {"accepted", "refused", "error"}, onChain \in BOOLEAN :
          /\ reply = "accepted" => onChain
          /\ reply = "refused" => ~onChain
          /\ req' = [req EXCEPT ![r].pc = "audit", ![r].reply = reply]
          /\ onChain => SendsOnChain(r)
          /\ ~onChain => moved' = moved
          /\ excused \subseteq excused'
          /\ onChain /\ reply = "error" => OutPairs(r) \subseteq excused'
    BY DEF Send, SendsOnChain
  <1>4. Moves(r, "audit", req[r].claimed, req[r].todo, reply)
    BY <1>2, <1>3, ReplyMoves DEF PCs, Replies
  <1>5. Spent(o, s)' = Spent(o, s) /\ mem'.caps[o][s] = mem.caps[o][s]
    BY <1>1, QuietStore DEF CallsInv
  <1>6. Amount(r, s) \in Nat /\ Owner(r) \in Owners /\ moved \in Usage
    BY <1>2, CallType DEF TypeOK
  <1>7. onChain => moved'[o][s] = IF o = Owner(r) THEN moved[o][s] + Amount(r, s)
                                                  ELSE moved[o][s]
    BY SMT, <1>3, <1>6 DEF SendsOnChain, Usage
  <1>8. CASE ~onChain
    <2>1. moved'[o][s] = moved[o][s]
      BY <1>3, <1>8
    <2>2. ~ExposedAt("audit", req[r].todo, reply, s)
      BY <1>3, <1>8 DEF ExposedAt
    <2> QED BY <1>1, <1>2, <1>3, <1>4, <1>5, <2>1, <2>2, MovesPair
  <1>9. CASE onChain /\ ~(s \in OutSymbols(r) /\ Owner(r) = o)
    <2>1. moved'[o][s] = moved[o][s]
      BY SMT, <1>6, <1>7, <1>9 DEF OutSymbols, Usage
    <2> QED BY <1>1, <1>2, <1>3, <1>4, <1>5, <1>9, <2>1, MovesPair
  <1>10. CASE onChain /\ s \in OutSymbols(r) /\ Owner(r) = o
    <2>1. CASE reply = "error"
      BY <1>3, <1>10, <2>1 DEF OutPairs, PairInv
    <2>2. CASE reply = "accepted"
      <3>1. r \in ExposedCalls(o, s)
        BY <1>1, <1>10 DEF ExposedCalls, Exposed
      <3>2. <<o, s>> \notin excused => \A q \in ExposedCalls(o, s) : q = r
        BY <1>2, <3>1 DEF PairInv
      <3>3. <<o, s>> \notin excused => moved[o][s] <= Spent(o, s)
        BY <1>1, <1>2, <3>2 DEF PairInv
      <3>4. /\ \A q \in Requests \ {r} : q \in ExposedCalls(o, s)' <=> q \in ExposedCalls(o, s)
            /\ r \in ExposedCalls(o, s)'
            /\ Amount(r, s)' = Amount(r, s)
        <4>1. ExposedAt("audit", req[r].todo, reply, s)
          BY <2>2 DEF ExposedAt
        <4> QED BY SMT, <1>4, <1>10, <4>1, ExposedAfter
      <3>5. <<o, s>> \notin excused => \A q \in ExposedCalls(o, s)' : q = r
        <4>1. ExposedCalls(o, s)' \subseteq Requests
          BY DEF ExposedCalls
        <4> QED BY <3>2, <3>4, <4>1
      <3>6. req'[r].pc = "audit"
        BY <1>4 DEF Moves
      <3>7. Spent(o, s) \in Nat /\ moved[o][s] \in Nat
        BY ExposedType
      <3>8. moved'[o][s] = moved[o][s] + Amount(r, s)
        BY <1>7, <1>10
      <3>9. ASSUME <<o, s>> \notin excused' PROVE <<o, s>> \notin excused
        BY <1>3, <3>9
      <3>10. (<<o, s>> \notin excused =>
                /\ \A p, q \in ExposedCalls(o, s) : p = q
                /\ ~(\A q \in ExposedCalls(o, s) : req[q].pc = "check")
                /\ \A q \in ExposedCalls(o, s) : moved[o][s] <= Spent(o, s) + Amount(q, s))'
        BY SMT, <1>5, <1>6, <3>3, <3>4, <3>5, <3>6, <3>7, <3>8, <3>9
      <3>11. (<<o, s>> \notin excused =>
               (<<o, s>> \notin recapped /\ mem.caps[o][s] # NoCap =>
                 /\ Spent(o, s) <= mem.caps[o][s]
                 /\ \A q \in ExposedCalls(o, s) : Spent(o, s) + Amount(q, s) <= mem.caps[o][s]))'
        BY <1>1, <1>2, <1>5, <3>1, <3>4, <3>5, <3>9 DEF PairInv
      <3> QED BY <3>10, <3>11 DEF PairInv
    <2>3. reply \in {"error", "accepted"}
      BY <1>3, <1>10
    <2> QED BY <2>1, <2>2, <2>3
  <1> QED BY <1>8, <1>9, <1>10

\* A step of no call: the exposed calls are what they were.
LEMMA SameExposed ==
  ASSUME req' = req, NEW o, NEW s
  PROVE  /\ ExposedCalls(o, s)' = ExposedCalls(o, s)
         /\ \A r \in ExposedCalls(o, s) : Amount(r, s)' = Amount(r, s)
  BY DEF ExposedCalls, Exposed, Owner, OutSymbols, Amount

LEMMA SetCapPairs ==
  ASSUME CallsInv, PairsInv, NEW p \in Owners, NEW x \in Symbols, SetTransferOutCap(p, x),
         NEW o \in Owners, NEW s \in Symbols
  PROVE  PairInv(o, s)'
  <1>1. /\ req' = req /\ moved' = moved /\ excused' = excused /\ today' = today
        /\ recapped \subseteq recapped'
    BY DEF SetTransferOutCap, handlerVars, SetCap, SetUnlimited
  <1>2. PICK c \in CapValues \cup {NoCap} :
          /\ mem' = WithCap(mem, p, x, c)
          /\ c # NoCap => (c < UsedToday(mem, p, x) \/ ExposedCalls(p, x) # {}
                             => <<p, x>> \in recapped')
    <2>1. CASE SetUnlimited(p, x)
      BY <2>1 DEF SetUnlimited
    <2>2. CASE ~SetUnlimited(p, x)
      <3>1. PICK c \in CapValues :
              /\ SetCap(p, x, c)
              /\ recapped' = recapped \cup
                   {y \in {<<p, x>>} : c < UsedToday(mem, p, x) \/ ExposedCalls(p, x) # {}}
        BY <2>2 DEF SetTransferOutCap
      <3>2. mem' = WithCap(mem, p, x, c)
        BY <3>1 DEF SetCap
      <3> QED BY <3>1, <3>2
    <2> QED BY <2>1, <2>2
  <1>3. mem \in Snapshots /\ PairInv(o, s)
    BY DEF CallsInv, TypeOK, StoreTypeOK, PairsInv
  <1>4. /\ mem'.day = mem.day /\ mem'.used = mem.used
        /\ mem'.caps = Put(mem.caps, p, x, c)
    BY <1>2, <1>3, WithCapType
  <1>5. mem'.caps[o][s] = IF o = p /\ s = x THEN c ELSE mem.caps[o][s]
    BY SMT, <1>3, <1>4 DEF Put, Snapshots, Caps
  <1>6. Spent(o, s)' = Spent(o, s)
    BY <1>1, <1>4 DEF Spent, UsedToday
  <1>7. /\ ExposedCalls(o, s)' = ExposedCalls(o, s)
        /\ \A r \in ExposedCalls(o, s) : Amount(r, s)' = Amount(r, s)
    BY <1>1, SameExposed
  <1>8. moved'[o][s] = moved[o][s]
    BY <1>1
  <1>9. CASE ~(o = p /\ s = x)
    <2>1. /\ mem'.caps[o][s] = mem.caps[o][s]
          /\ \A r \in ExposedCalls(o, s)' : /\ Amount(r, s)' = Amount(r, s)
                                            /\ req'[r].pc = "check" => req[r].pc = "check"
          /\ \A r \in ExposedCalls(o, s) : r \notin ExposedCalls(o, s)' => req[r].pc = "check"
      BY <1>1, <1>5, <1>7, <1>9
    <2> QED BY <1>1, <1>3, <1>6, <1>7, <1>8, <2>1, PairFrame
  <1>10. CASE o = p /\ s = x
    <2>1. Spent(o, s) \in Nat /\ (c # NoCap => c \in Nat)
      BY ExposedType, StoreAssumption
    <2>2. c # NoCap /\ <<o, s>> \notin recapped' => ExposedCalls(o, s) = {} /\ Spent(o, s) <= c
      BY SMT, <1>2, <1>10, <2>1 DEF Spent
    <2>3. (<<o, s>> \notin excused =>
             /\ \A r, q \in ExposedCalls(o, s) : r = q
             /\ (\A r \in ExposedCalls(o, s) : req[r].pc = "check") => moved[o][s] <= Spent(o, s)
             /\ \A r \in ExposedCalls(o, s) : moved[o][s] <= Spent(o, s) + Amount(r, s))'
      BY <1>1, <1>3, <1>6, <1>7, <1>8 DEF PairInv
    <2>4. (<<o, s>> \notin recapped /\ mem.caps[o][s] # NoCap =>
             /\ Spent(o, s) <= mem.caps[o][s]
             /\ \A r \in ExposedCalls(o, s) : Spent(o, s) + Amount(r, s) <= mem.caps[o][s])'
      BY <1>5, <1>6, <1>7, <1>10, <2>2
    <2> QED BY <2>3, <2>4 DEF PairInv
  <1> QED BY <1>9, <1>10

\* At midnight the usage and what was moved start again from zero.
LEMMA NewDayPairs ==
  ASSUME CallsInv, PairsInv, NewDay, NEW o \in Owners, NEW s \in Symbols
  PROVE  PairInv(o, s)'
  <1>1. /\ req' = req /\ mem' = mem /\ today' = today + 1 /\ moved' = NoUsage
        /\ excused' = {p \in excused : ExposedCalls(p[1], p[2]) # {}}
        /\ recapped' = {p \in recapped : ExposedCalls(p[1], p[2]) # {}}
    BY DEF NewDay, Midnight, handlerVars
  <1>2. PairInv(o, s) /\ mem.day <= today /\ today \in Nat /\ mem.day \in Nat
    BY SMT, StoreAssumption
       DEF PairsInv, CallsInv, StoreInv, StampsArePast, StoreTypeOK, Snapshots, Days
  <1>3. Spent(o, s)' = 0 /\ moved'[o][s] = 0
    BY SMT, <1>1, <1>2 DEF Spent, UsedToday, NoUsage
  <1>4. /\ ExposedCalls(o, s)' = ExposedCalls(o, s)
        /\ \A r \in ExposedCalls(o, s) : Amount(r, s)' = Amount(r, s)
    BY <1>1, SameExposed
  <1>5. /\ ExposedCalls(o, s) # {} /\ <<o, s>> \notin excused' => <<o, s>> \notin excused
        /\ ExposedCalls(o, s) # {} /\ <<o, s>> \notin recapped' => <<o, s>> \notin recapped
    BY <1>1
  <1>6. /\ Spent(o, s) \in Nat
        /\ mem.caps[o][s] # NoCap => mem.caps[o][s] \in Nat
        /\ \A r \in ExposedCalls(o, s) : Amount(r, s) \in Nat
    BY ExposedType
  <1>7. (/\ moved[o][s] <= Spent(o, s)
         /\ \A r \in ExposedCalls(o, s) : moved[o][s] <= Spent(o, s) + Amount(r, s))'
    BY SMT, <1>3, <1>4, <1>6
  <1>8. (<<o, s>> \notin excused => \A r, q \in ExposedCalls(o, s) : r = q)'
    BY <1>2, <1>4, <1>5 DEF PairInv
  <1>9. ASSUME <<o, s>> \notin excused', <<o, s>> \notin recapped', mem.caps[o][s] # NoCap
        PROVE  /\ 0 <= mem.caps[o][s]
               /\ \A r \in ExposedCalls(o, s) : 0 + Amount(r, s) <= mem.caps[o][s]
    <2>1. ASSUME NEW r \in ExposedCalls(o, s) PROVE 0 + Amount(r, s) <= mem.caps[o][s]
      <3>1. Spent(o, s) + Amount(r, s) <= mem.caps[o][s]
        BY <1>2, <1>5, <1>9, <2>1 DEF PairInv
      <3> QED BY SMT, <1>6, <1>9, <2>1, <3>1
    <2> QED BY SMT, <1>6, <1>9, <2>1
  <1>10. (<<o, s>> \notin excused =>
           (<<o, s>> \notin recapped /\ mem.caps[o][s] # NoCap =>
             /\ Spent(o, s) <= mem.caps[o][s]
             /\ \A q \in ExposedCalls(o, s) : Spent(o, s) + Amount(q, s) <= mem.caps[o][s]))'
    BY <1>1, <1>3, <1>4, <1>9
  <1> QED BY <1>7, <1>8, <1>10 DEF PairInv

\* A restart excuses the pairs with exposed calls and those the file lost.
LEMMA CrashPairs ==
  ASSUME CallsInv, PairsInv, Crash, NEW o \in Owners, NEW s \in Symbols
  PROVE  PairInv(o, s)'
  <1>1. /\ mem' = Load(file) /\ today' = today /\ moved' = moved /\ recapped' = recapped
        /\ excused' = excused \cup Forgotten
    BY DEF Crash, Restart
  <1>2. ExposedCalls(o, s)' = {}
    <2>1. ASSUME NEW r \in Requests PROVE req'[r].pc \in {"idle", "ok", "answered", "failed", "cut"}
      <3>1. CASE req[r].pc = "idle"
        BY <3>1 DEF Crash, InFlight
      <3>2. CASE req[r].pc # "idle"
        <4>1. req[r] \in Calls
          BY <3>2, CallType DEF CallsInv
        <4>2. req'[r] = IF InFlight(r) THEN [req[r] EXCEPT !.pc = "cut", !.claimed = 0]
                                       ELSE [req[r] EXCEPT !.claimed = 0]
          BY <3>2 DEF Crash
        <4> QED BY <4>1, <4>2 DEF Calls, InFlight
      <3> QED BY <3>1, <3>2
    <2> QED BY <2>1 DEF ExposedCalls, Exposed
  <1>3. ASSUME <<o, s>> \notin excused'
        PROVE  /\ <<o, s>> \notin excused /\ ExposedCalls(o, s) = {}
               /\ Spent(o, s)' = Spent(o, s) /\ mem'.caps[o][s] = mem.caps[o][s]
    <2>1. <<o, s>> \notin excused /\ <<o, s>> \notin Forgotten
      BY <1>1, <1>3
    <2>2. /\ Meter(Load(file)).limit[o][s] = Meter(mem).limit[o][s]
          /\ Meter(Load(file)).spent[o][s] = Meter(mem).spent[o][s]
          /\ ExposedCalls(o, s) = {}
      BY <2>1 DEF Forgotten
    <2>3. /\ Load(file).caps[o][s] = mem.caps[o][s]
          /\ UsedToday(Load(file), o, s) = UsedToday(mem, o, s)
      BY <2>2 DEF Meter
    <2>4. Spent(o, s)' = UsedToday(Load(file), o, s)
      BY <1>1 DEF Spent, UsedToday
    <2> QED BY <1>1, <2>1, <2>2, <2>3, <2>4 DEF Spent
  <1>4. PairInv(o, s) /\ moved'[o][s] = moved[o][s]
    BY <1>1 DEF PairsInv
  <1> QED BY <1>1, <1>2, <1>3, <1>4 DEF PairInv

LEMMA QuietPairs ==
  ASSUME CallsInv, PairsInv, GetTransferOutCap \/ Tick \/ UNCHANGED vars,
         NEW o \in Owners, NEW s \in Symbols
  PROVE  PairInv(o, s)'
  <1>1. /\ req' = req /\ moved' = moved /\ excused' = excused /\ recapped' = recapped
        /\ UNCHANGED storeVars \/ Used
    BY DEF GetTransferOutCap, Tick, vars, handlerVars, historyVars
  <1>2. Spent(o, s)' = Spent(o, s) /\ mem'.caps[o][s] = mem.caps[o][s]
    BY <1>1, QuietStore DEF CallsInv
  <1>3. /\ ExposedCalls(o, s)' = ExposedCalls(o, s)
        /\ \A r \in ExposedCalls(o, s) : Amount(r, s)' = Amount(r, s)
    BY <1>1, SameExposed
  <1>4. PairInv(o, s) /\ moved'[o][s] = moved[o][s]
    BY <1>1 DEF PairsInv
  <1>5. /\ \A r \in ExposedCalls(o, s)' : /\ Amount(r, s)' = Amount(r, s)
                                          /\ req'[r].pc = "check" => req[r].pc = "check"
        /\ \A r \in ExposedCalls(o, s) : r \notin ExposedCalls(o, s)' => req[r].pc = "check"
    BY <1>1, <1>3
  <1> QED BY <1>1, <1>2, <1>3, <1>4, <1>5, PairFrame
-----------------------------------------------------------------------------
LEMMA InitPairs == Init => PairsInv
  <1> SUFFICES ASSUME Init, NEW o \in Owners, NEW s \in Symbols PROVE PairInv(o, s)
    BY DEF PairsInv
  <1>1. \A r \in Requests : req[r].pc = "idle"
    BY DEF Init, NoCall
  <1>2. ExposedCalls(o, s) = {}
    BY <1>1 DEF ExposedCalls, Exposed
  <1>3. moved[o][s] = 0 /\ Spent(o, s) = 0 /\ mem.caps[o][s] = NoCap
    BY DEF Init, StoreInit, NewStore, NoCaps, NoUsage, Spent, UsedToday
  <1> QED BY SMT, <1>2, <1>3 DEF PairInv

LEMMA NextPairs == CallsInv /\ PairsInv /\ [Next]_vars => PairsInv'
  <1> SUFFICES ASSUME CallsInv, PairsInv, [Next]_vars, NEW o \in Owners, NEW s \in Symbols
               PROVE  PairInv(o, s)'
    BY DEF PairsInv
  <1>1. ASSUME NEW r \in Requests, Step(r) PROVE PairInv(o, s)'
    BY <1>1, ArrivePairs, ClaimPairs, InspectPairs, CheckPairs, SendPairs, AuditPairs,
       RecordWithdrawPairs, RecordPairs, FinishPairs DEF Step
  <1>2. ASSUME NEW p \in Owners, NEW x \in CappedSymbols, SetTransferOutCap(p, x)
        PROVE  PairInv(o, s)'
    BY <1>2, SetCapPairs, BroadcastAssumption
  <1>3. CASE GetTransferOutCap \/ Tick \/ UNCHANGED vars
    BY <1>3, QuietPairs
  <1>4. CASE NewDay
    BY <1>4, NewDayPairs
  <1>5. CASE Crash
    BY <1>5, CrashPairs
  <1> QED BY <1>1, <1>2, <1>3, <1>4, <1>5 DEF Next

LEMMA PairsBound == CallsInv /\ PairsInv => CapBoundsOutflow
  <1> SUFFICES ASSUME CallsInv, PairsInv, NEW o \in Owners, NEW s \in Symbols,
                      <<o, s>> \notin excused \cup recapped, mem.caps[o][s] # NoCap
               PROVE  moved[o][s] <= mem.caps[o][s]
    BY DEF CapBoundsOutflow
  <1>1. /\ Spent(o, s) \in Nat /\ moved[o][s] \in Nat /\ mem.caps[o][s] \in Nat
        /\ \A r \in ExposedCalls(o, s) : Amount(r, s) \in Nat
    BY ExposedType
  <1>2. PairInv(o, s)
    BY DEF PairsInv
  <1>3. CASE ExposedCalls(o, s) = {}
    BY SMT, <1>1, <1>2, <1>3 DEF PairInv
  <1>4. CASE ExposedCalls(o, s) # {}
    <2>1. PICK r \in ExposedCalls(o, s) : TRUE
      BY <1>4
    <2>2. /\ moved[o][s] <= Spent(o, s) + Amount(r, s)
          /\ Spent(o, s) + Amount(r, s) <= mem.caps[o][s]
      BY <1>2, <2>1 DEF PairInv
    <2> QED BY SMT, <1>1, <2>1, <2>2
  <1> QED BY <1>3, <1>4

(***************************************************************************)
(* Check before the send and Record after it: the daily transfer-out cap   *)
(* bounds what the home chain moved out of a wallet on a UTC date, for any *)
(* number of concurrent calls, unless one of the named excuses applies.    *)
(***************************************************************************)
THEOREM OutflowWithinCap == Spec => []CapBoundsOutflow
  <1>1. Init => PairsInv
    BY InitPairs
  <1>2. CallsInv /\ PairsInv /\ [Next]_vars => PairsInv'
    BY NextPairs
  <1>3. CallsInv /\ PairsInv => CapBoundsOutflow
    BY PairsBound
  <1> QED BY <1>1, <1>2, <1>3, CallsInvariant, PTL DEF Spec
=============================================================================
