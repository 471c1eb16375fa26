---------------------- MODULE BroadcastWithdrawProofs -----------------------
(***************************************************************************)
(* The daily withdraw cap of Broadcast bounds what a tenant withdraws, for *)
(* every number of concurrent calls, every width of the quantum counters   *)
(* and every cap.                                                          *)
(***************************************************************************)
EXTENDS BroadcastProofs

\* First-order leaves go to Zenon; the others name the prover they need.
USE Zenon

\* A cap that is enabled fits the counter.
LEMMA CapFits ==
  ASSUME CapEnabled(DailyWithdrawCapUSDC)
  PROVE  LedgerCap \in Uint
  <1> DEFINE c == DailyWithdrawCapUSDC
             n == QuantumsPerUSDC
             d == MaxUint \div n
  <1>1. c \in Nat /\ n \in Nat \ {0} /\ MaxUint \in Nat /\ c <= d /\ LedgerCap = c * n
    BY LedgerAssumption, MaxUintAssumption DEF CapEnabled, LedgerCap, DailyCapQuantums
  <1>2. d \in Nat /\ d * n <= MaxUint
    BY SMT, <1>1
  <1>3. \A x, y, z \in Nat : x <= y => x * z <= y * z
    BY SMT
  <1>4. c * n <= d * n
    BY <1>1, <1>2, <1>3
  <1>5. c * n \in Nat /\ d * n \in Nat
    BY SMT, <1>1, <1>2
  <1> QED BY SMT, <1>1, <1>2, <1>4, <1>5 DEF Uint
-----------------------------------------------------------------------------
\* What the ledger knows of today, and what the transaction of r withdraws.
Drawn(t) == IF ledger.day = today THEN ledger.used[t] ELSE 0
Draws(r) == WithdrawalOf[req[r].tx]

(***************************************************************************)
(* One tenant, while nothing excuses it: at most one call is exposed, what *)
(* was withdrawn is what the ledger knows, but for an exposed call that    *)
(* was sent, and both stay within the cap.                                 *)
(***************************************************************************)
TenantInv(t) ==
  t \notin excusedT =>
    /\ \A r, q \in ExposedWithdrawals(t) : r = q
    /\ (\A r \in ExposedWithdrawals(t) : req[r].pc = "check") => withdrawn[t] <= Drawn(t)
    /\ \A r \in ExposedWithdrawals(t) : withdrawn[t] <= Drawn(t) + Draws(r)
    /\ Drawn(t) <= LedgerCap
    /\ \A r \in ExposedWithdrawals(t) : Drawn(t) + Draws(r) <= LedgerCap

LedgerIsPast == ledger.day <= today
TenantsInv == \A t \in Tenants : TenantInv(t)
-----------------------------------------------------------------------------
LEMMA DrawnType ==
  ASSUME CallsInv, NEW t \in Tenants
  PROVE  /\ Drawn(t) \in Uint /\ Drawn(t) \in Nat /\ withdrawn[t] \in Nat
         /\ \A r \in ExposedWithdrawals(t) :
              /\ r \in Requests /\ req[r].pc # "idle" /\ req[r].tenant = t
              /\ Draws(r) \in Nat /\ Draws(r) \in Uint
  <1>1. Drawn(t) \in Uint /\ withdrawn[t] \in Nat
    BY SMT, MaxUintAssumption DEF CallsInv, TypeOK, Drawn, Uint
  <1>2. ASSUME NEW r \in ExposedWithdrawals(t)
        PROVE  /\ r \in Requests /\ req[r].pc # "idle" /\ req[r].tenant = t
               /\ Draws(r) \in Uint
    <2>1. /\ r \in Requests /\ req[r].pc # "idle" /\ req[r].tenant = t
          /\ PastInspect(r)
      BY <1>2 DEF ExposedWithdrawals, ExposedWithdrawal, PastInspect
    <2> QED BY <2>1 DEF CallsInv, CallFacts, Draws
  <1>3. \A n \in Uint : n \in Nat
    BY SMT, MaxUintAssumption DEF Uint
  <1> QED BY <1>1, <1>2, <1>3

(***************************************************************************)
(* A step that withdraws and records nothing for the tenant, and takes     *)
(* calls out of the exposed ones only if they were not sent.               *)
(***************************************************************************)
LEMMA TenantFrame ==
  ASSUME CallsInv, NEW t \in Tenants, TenantInv(t),
         t \in excusedT => t \in excusedT',
         withdrawn'[t] = withdrawn[t], Drawn(t)' = Drawn(t),
         ExposedWithdrawals(t)' \subseteq ExposedWithdrawals(t),
         \A r \in ExposedWithdrawals(t)' :
            /\ Draws(r)' = Draws(r)
            /\ req'[r].pc = "check" => req[r].pc = "check",
         \A r \in ExposedWithdrawals(t) :
            r \notin ExposedWithdrawals(t)' => req[r].pc = "check"
  PROVE  TenantInv(t)'
  <1> SUFFICES ASSUME t \notin excusedT'
               PROVE  (/\ \A r, q \in ExposedWithdrawals(t) : r = q
                       /\ (\A r \in ExposedWithdrawals(t) : req[r].pc = "check")
                            => withdrawn[t] <= Drawn(t)
                       /\ \A r \in ExposedWithdrawals(t) : withdrawn[t] <= Drawn(t) + Draws(r)
                       /\ Drawn(t) <= LedgerCap
                       /\ \A r \in ExposedWithdrawals(t) : Drawn(t) + Draws(r) <= LedgerCap)'
    BY DEF TenantInv
  <1>0. LedgerCap' = LedgerCap
    BY DEF LedgerCap, CapEnabled, DailyCapQuantums
  <1>1. (\A r, q \in ExposedWithdrawals(t) : r = q)'
    BY DEF TenantInv
  <1>2. ((\A r \in ExposedWithdrawals(t) : req[r].pc = "check") => withdrawn[t] <= Drawn(t))'
    BY DEF TenantInv
  <1>3. (\A r \in ExposedWithdrawals(t) : withdrawn[t] <= Drawn(t) + Draws(r))'
    BY DEF TenantInv
  <1>4. (/\ Drawn(t) <= LedgerCap
         /\ \A r \in ExposedWithdrawals(t) : Drawn(t) + Draws(r) <= LedgerCap)'
    BY <1>0 DEF TenantInv
  <1> QED BY <1>1, <1>2, <1>3, <1>4

\* A call at pc may still withdraw and is not recorded.
DrawsAt(pc, reply) ==
  pc \in {"check", "audit", "withdraw"} /\ (pc = "audit" => reply = "accepted")

LEMMA DrawsAfter ==
  ASSUME NEW r \in Requests, NEW pc, NEW claimed, NEW todo, NEW reply,
         Moves(r, pc, claimed, todo, reply), NEW t
  PROVE  /\ \A q \in Requests \ {r} :
              /\ q \in ExposedWithdrawals(t)' <=> q \in ExposedWithdrawals(t)
              /\ req'[q].pc = req[q].pc
         /\ r \in ExposedWithdrawals(t)' <=>
              DrawsAt(pc, reply) /\ Draws(r) > 0 /\ req[r].tenant = t
         /\ r \in ExposedWithdrawals(t) <=>
              DrawsAt(req[r].pc, req[r].reply) /\ Draws(r) > 0 /\ req[r].tenant = t
         /\ \A q \in Requests : Draws(q)' = Draws(q)
         /\ ExposedWithdrawals(t) \subseteq Requests /\ ExposedWithdrawals(t)' \subseteq Requests
         /\ req'[r].pc = pc
  <1>1. /\ \A q \in Requests \ {r} : req'[q] = req[q]
        /\ req'[r].pc = pc /\ req'[r].reply = reply
        /\ req'[r].tx = req[r].tx /\ req'[r].tenant = req[r].tenant
    BY DEF Moves
  <1>2. \A q \in Requests \ {r} : q \in ExposedWithdrawals(t)' <=> q \in ExposedWithdrawals(t)
    BY <1>1 DEF ExposedWithdrawals, ExposedWithdrawal
  <1>3. r \in ExposedWithdrawals(t)' <=>
          DrawsAt(pc, reply) /\ Draws(r) > 0 /\ req[r].tenant = t
    BY <1>1 DEF ExposedWithdrawals, ExposedWithdrawal, DrawsAt, Draws
  <1>4. r \in ExposedWithdrawals(t) <=>
          DrawsAt(req[r].pc, req[r].reply) /\ Draws(r) > 0 /\ req[r].tenant = t
    BY DEF ExposedWithdrawals, ExposedWithdrawal, DrawsAt, Draws
  <1>5. \A q \in Requests : Draws(q)' = Draws(q)
    BY <1>1 DEF Draws
  <1>6. ExposedWithdrawals(t) \subseteq Requests /\ ExposedWithdrawals(t)' \subseteq Requests
    BY DEF ExposedWithdrawals
  <1> QED BY <1>1, <1>2, <1>3, <1>4, <1>5, <1>6

\* TenantFrame for a step of call r.
LEMMA MovesTenant ==
  ASSUME CallsInv, NEW t \in Tenants, TenantInv(t), NEW r \in Requests,
         NEW pc, NEW claimed, NEW todo, NEW reply, Moves(r, pc, claimed, todo, reply),
         t \in excusedT => t \in excusedT',
         withdrawn'[t] = withdrawn[t], Drawn(t)' = Drawn(t),
         Draws(r) > 0 /\ req[r].tenant = t =>
           /\ DrawsAt(pc, reply) =>
                DrawsAt(req[r].pc, req[r].reply) /\ (pc = "check" => req[r].pc = "check")
           /\ DrawsAt(req[r].pc, req[r].reply) => DrawsAt(pc, reply) \/ req[r].pc = "check"
  PROVE  TenantInv(t)'
  <1>1. /\ \A q \in Requests \ {r} :
             /\ q \in ExposedWithdrawals(t)' <=> q \in ExposedWithdrawals(t)
             /\ req'[q].pc = req[q].pc
        /\ r \in ExposedWithdrawals(t)' <=>
             DrawsAt(pc, reply) /\ Draws(r) > 0 /\ req[r].tenant = t
        /\ r \in ExposedWithdrawals(t) <=>
             DrawsAt(req[r].pc, req[r].reply) /\ Draws(r) > 0 /\ req[r].tenant = t
        /\ \A q \in Requests : Draws(q)' = Draws(q)
        /\ ExposedWithdrawals(t) \subseteq Requests /\ ExposedWithdrawals(t)' \subseteq Requests
        /\ req'[r].pc = pc
    BY DrawsAfter
  <1>2. ExposedWithdrawals(t)' \subseteq ExposedWithdrawals(t)
    BY <1>1
  <1>3. \A q \in ExposedWithdrawals(t)' :
          /\ Draws(q)' = Draws(q)
          /\ req'[q].pc = "check" => req[q].pc = "check"
    BY <1>1
  <1>4. \A q \in ExposedWithdrawals(t) :
          q \notin ExposedWithdrawals(t)' => req[q].pc = "check"
    BY <1>1
  <1> QED BY <1>2, <1>3, <1>4, TenantFrame
-----------------------------------------------------------------------------
\* The steps that neither draw, record nor excuse.
QuietLedger ==
  ledger' = ledger /\ today' = today /\ withdrawn' = withdrawn /\ excusedT' = excusedT

LEMMA QuietDrawn ==
  ASSUME QuietLedger, NEW t \in Tenants
  PROVE  Drawn(t)' = Drawn(t) /\ withdrawn'[t] = withdrawn[t]
         /\ (t \in excusedT => t \in excusedT')
  BY DEF QuietLedger, Drawn

LEMMA ArriveTenant ==
  ASSUME CallsInv, TenantsInv, NEW r \in Requests, NEW u \in Tenants, NEW c \in ClientIDs,
         NEW tx \in Txs, Arrive(r, u, c, tx), NEW t \in Tenants
  PROVE  TenantInv(t)'
  <1>1. QuietLedger /\ req[r].pc = "idle"
    BY DEF Arrive, historyVars, storeVars, QuietLedger
  <1>2. /\ \A q \in Requests \ {r} : req'[q] = req[q]
        /\ req'[r].pc = "claim"
    BY DEF Arrive, CallsInv, TypeOK
  <1>3. r \notin ExposedWithdrawals(t) /\ r \notin ExposedWithdrawals(t)'
    BY <1>1, <1>2 DEF ExposedWithdrawals, ExposedWithdrawal
  <1>4. \A q \in Requests \ {r} : /\ q \in ExposedWithdrawals(t)' <=> q \in ExposedWithdrawals(t)
                                  /\ Draws(q)' = Draws(q)
    BY <1>2 DEF ExposedWithdrawals, ExposedWithdrawal, Draws
  <1>5. ExposedWithdrawals(t) \subseteq Requests /\ ExposedWithdrawals(t)' \subseteq Requests
    BY DEF ExposedWithdrawals
  <1>6. ExposedWithdrawals(t)' \subseteq ExposedWithdrawals(t)
    BY <1>3, <1>4, <1>5
  <1>7. /\ \A q \in ExposedWithdrawals(t)' : /\ Draws(q)' = Draws(q)
                                             /\ req'[q].pc = "check" => req[q].pc = "check"
        /\ \A q \in ExposedWithdrawals(t) :
             q \notin ExposedWithdrawals(t)' => req[q].pc = "check"
    BY <1>2, <1>3, <1>4, <1>5
  <1>8. /\ TenantInv(t) /\ Drawn(t)' = Drawn(t) /\ withdrawn'[t] = withdrawn[t]
        /\ (t \in excusedT => t \in excusedT')
    BY <1>1, QuietDrawn DEF TenantsInv
  <1> QED BY <1>6, <1>7, <1>8, TenantFrame

LEMMA ClaimTenant ==
  ASSUME CallsInv, TenantsInv, NEW r \in Requests, Claim(r), NEW t \in Tenants
  PROVE  TenantInv(t)'
  <1>1. QuietLedger /\ req[r].pc = "claim"
    BY DEF Claim, historyVars, storeVars, QuietLedger
  <1>2. TypeOK /\ req[r].pc # "idle" /\ now \in 0..MaxTime /\ TenantInv(t)
    BY SMT, <1>1 DEF CallsInv, TypeOK, TenantsInv
  <1>3. PICK pc \in {"inspect", "failed"}, claimed \in 0..MaxTime :
          Moves(r, pc, claimed, req[r].todo, req[r].reply)
    <2>1. CASE req' = Goto(r, "failed")
      BY <1>2, <2>1, GotoMoves, CallType DEF PCs
    <2>2. CASE req' = [req EXCEPT ![r].pc = "inspect", ![r].claimed = now]
      <3>1. "inspect" \in PCs
        BY DEF PCs
      <3>2. Moves(r, "inspect", now, req[r].todo, req[r].reply)
        BY <1>2, <2>2, <3>1, ClaimedMoves
      <3> QED BY <1>2, <3>2
    <2> QED BY <2>1, <2>2 DEF Claim
  <1>4. ~DrawsAt(pc, req[r].reply) /\ ~DrawsAt(req[r].pc, req[r].reply)
    BY <1>1 DEF DrawsAt
  <1>5. /\ Drawn(t)' = Drawn(t) /\ withdrawn'[t] = withdrawn[t]
        /\ (t \in excusedT => t \in excusedT')
    BY <1>1, QuietDrawn
  <1> QED BY <1>2, <1>3, <1>4, <1>5, MovesTenant

LEMMA CheckTenant ==
  ASSUME CallsInv, TenantsInv, NEW r \in Requests, NEW x \in Symbols, CheckSymbol(r, x),
         NEW t \in Tenants
  PROVE  TenantInv(t)'
  <1>1. QuietLedger /\ req[r].pc = "check"
    BY DEF CheckSymbol, Check, Used, storeVars, QuietLedger
  <1>2. TypeOK /\ req[r].pc # "idle" /\ TenantInv(t)
    BY <1>1 DEF CallsInv, TenantsInv
  <1>3. /\ Drawn(t)' = Drawn(t) /\ withdrawn'[t] = withdrawn[t]
        /\ (t \in excusedT => t \in excusedT')
    BY <1>1, QuietDrawn
  <1>4. CASE req' = Denied(r)
    <2>1. Moves(r, "failed", req[r].claimed, req[r].todo, "denied")
      BY <1>2, <1>4, ReplyMoves DEF PCs, Replies, Denied
    <2>2. ~DrawsAt("failed", "denied")
      BY DEF DrawsAt
    <2> QED BY <1>1, <1>2, <1>3, <2>1, <2>2, MovesTenant
  <1>5. CASE req' = [req EXCEPT ![r].todo = req[r].todo \ {x}]
    <2>1. req[r].todo \ {x} \in SUBSET Symbols
      BY <1>2, CallType
    <2>2. Moves(r, req[r].pc, req[r].claimed, req[r].todo \ {x}, req[r].reply)
      BY <1>2, <1>5, <2>1, TodoMoves
    <2> QED BY <1>2, <1>3, <2>2, MovesTenant
  <1> QED BY <1>4, <1>5 DEF CheckSymbol

LEMMA AuditTenant ==
  ASSUME CallsInv, TenantsInv, NEW r \in Requests, Audit(r), NEW t \in Tenants
  PROVE  TenantInv(t)'
  <1>1. QuietLedger /\ req[r].pc = "audit"
    BY DEF Audit, historyVars, storeVars, QuietLedger
  <1>2. TypeOK /\ req[r].pc # "idle" /\ TenantInv(t)
    BY <1>1 DEF CallsInv, TenantsInv
  <1>3. PICK pc \in {"withdraw", "failed", "answered"} :
          /\ req' = Goto(r, pc)
          /\ pc = "withdraw" <=> req[r].reply = "accepted"
    BY DEF Audit
  <1>4. Moves(r, pc, req[r].claimed, req[r].todo, req[r].reply)
    BY <1>2, <1>3, GotoMoves DEF PCs
  <1>5. (DrawsAt(pc, req[r].reply) <=> DrawsAt(req[r].pc, req[r].reply)) /\ pc # "check"
    BY <1>1, <1>3 DEF DrawsAt
  <1>6. /\ Drawn(t)' = Drawn(t) /\ withdrawn'[t] = withdrawn[t]
        /\ (t \in excusedT => t \in excusedT')
    BY <1>1, QuietDrawn
  <1> QED BY <1>2, <1>4, <1>5, <1>6, MovesTenant

LEMMA RecordTenant ==
  ASSUME CallsInv, TenantsInv, NEW r \in Requests, NEW x,
         RecordSymbol(r, x) \/ Finish(r), NEW t \in Tenants
  PROVE  TenantInv(t)'
  <1>1. QuietLedger /\ req[r].pc = "record"
    BY DEF RecordSymbol, Record, Finish, historyVars, storeVars, QuietLedger
  <1>2. TypeOK /\ req[r].pc # "idle" /\ TenantInv(t)
    BY <1>1 DEF CallsInv, TenantsInv
  <1>3. PICK pc \in {"record", "ok"}, todo \in SUBSET Symbols :
          Moves(r, pc, req[r].claimed, todo, req[r].reply)
    <2>1. CASE req' = Goto(r, "ok")
      BY <1>2, <2>1, GotoMoves, CallType DEF PCs
    <2>2. CASE req' = [req EXCEPT ![r].todo = req[r].todo \ {x}]
      <3>1. req[r].todo \ {x} \in SUBSET Symbols
        BY <1>2, CallType
      <3>2. Moves(r, "record", req[r].claimed, req[r].todo \ {x}, req[r].reply)
        BY <1>1, <1>2, <2>2, <3>1, TodoMoves
      <3> QED BY <3>1, <3>2
    <2> QED BY <2>1, <2>2 DEF RecordSymbol, Finish
  <1>4. ~DrawsAt(pc, req[r].reply) /\ ~DrawsAt(req[r].pc, req[r].reply)
    BY <1>1 DEF DrawsAt
  <1>5. /\ Drawn(t)' = Drawn(t) /\ withdrawn'[t] = withdrawn[t]
        /\ (t \in excusedT => t \in excusedT')
    BY <1>1, QuietDrawn
  <1> QED BY <1>2, <1>3, <1>4, <1>5, MovesTenant

LEMMA InspectTenant ==
  ASSUME CallsInv, TenantsInv, CapEnabled(DailyWithdrawCapUSDC), NEW r \in Requests,
         Inspect(r), NEW t \in Tenants
  PROVE  TenantInv(t)'
  <1> DEFINE q == Draws(r)
             after == IF q > 0 THEN LedgerAfterEnforce(ledger, today, q) ELSE ledger
  <1>1. /\ req[r].pc = "inspect" /\ today' = today /\ withdrawn' = withdrawn
        /\ ledger' = ledger \/ ledger' = after
    BY DEF Inspect, storeVars, Draws
  <1>2. TypeOK /\ req[r].pc # "idle" /\ TenantInv(t)
    BY <1>1 DEF CallsInv, TenantsInv
  <1>3. after = ledger \/ after = LedgerRolled(ledger, today)
    BY DEF LedgerAfterEnforce
  <1>4. Drawn(t)' = Drawn(t) /\ withdrawn'[t] = withdrawn[t]
    BY SMT, <1>1, <1>3 DEF Drawn, LedgerRolled
  <1>5. ~DrawsAt(req[r].pc, req[r].reply)
    BY <1>1 DEF DrawsAt
  <1>6. CASE req' = Goto(r, "failed") /\ excusedT' = excusedT
    <2>1. Moves(r, "failed", req[r].claimed, req[r].todo, req[r].reply)
      BY <1>2, <1>6, GotoMoves DEF PCs
    <2>2. ~DrawsAt("failed", req[r].reply)
      BY DEF DrawsAt
    <2> QED BY <1>2, <1>4, <1>5, <1>6, <2>1, <2>2, MovesTenant
  <1>7. CASE req' = Denied(r) /\ excusedT' = excusedT
    <2>1. Moves(r, "failed", req[r].claimed, req[r].todo, "denied")
      BY <1>2, <1>7, ReplyMoves DEF PCs, Replies, Denied
    <2>2. ~DrawsAt("failed", "denied")
      BY DEF DrawsAt
    <2> QED BY <1>2, <1>4, <1>5, <1>7, <2>1, <2>2, MovesTenant
  <1>8. ASSUME /\ req' = [req EXCEPT ![r].pc = "check", ![r].todo = OutSymbols(r)]
               /\ excusedT' = excusedT \cup
                    {u \in {req[r].tenant} : q > 0 /\ ExposedWithdrawals(req[r].tenant) # {}}
               /\ ledger' = after
               /\ q > 0 => EnforcePasses(after, req[r].tenant, q)
               /\ q # Overflow
        PROVE  TenantInv(t)'
    <2>1. "check" \in PCs /\ OutSymbols(r) \in SUBSET Symbols
      BY DEF PCs, OutSymbols
    <2>2. Moves(r, "check", req[r].claimed, OutSymbols(r), req[r].reply)
      BY <1>2, <1>8, <2>1, GotoTodoMoves
    <2>3. CASE ~(q > 0 /\ req[r].tenant = t)
      BY <1>2, <1>4, <1>8, <2>2, <2>3, MovesTenant
    <2>4. CASE q > 0 /\ req[r].tenant = t /\ ExposedWithdrawals(t) # {}
      BY <1>8, <2>4 DEF TenantInv
    <2>5. CASE q > 0 /\ req[r].tenant = t /\ ExposedWithdrawals(t) = {}
      <3>1. \A p \in ExposedWithdrawals(t)' : p = r
        <4>1. /\ \A p \in Requests \ {r} :
                   p \in ExposedWithdrawals(t)' <=> p \in ExposedWithdrawals(t)
              /\ ExposedWithdrawals(t)' \subseteq Requests
          BY <2>2, DrawsAfter
        <4> QED BY <2>5, <4>1
      <3>2. Draws(r)' = Draws(r)
        BY <2>2, DrawsAfter
      <3>3. q \in Nat
        BY SMT, <1>2, <1>8, CallType, MaxUintAssumption DEF Draws, Uint
      <3>4. Drawn(t) \in Nat /\ withdrawn[t] \in Nat /\ LedgerCap \in Nat
        BY SMT, DrawnType, CapFits, MaxUintAssumption DEF Uint
      <3>5. q <= Remaining(after, t) /\ CheckPerTx(q)
        BY <1>8, <2>5 DEF EnforcePasses
      <3>6. after = LedgerRolled(ledger, today)
        BY <2>5, <3>5 DEF LedgerAfterEnforce
      <3>7. after.used[t] = Drawn(t)
        BY SMT, <3>6 DEF LedgerRolled, Drawn
      <3>8. Drawn(t) + q <= LedgerCap
        BY SMT, <2>5, <3>3, <3>4, <3>5, <3>7 DEF Remaining
      <3>9. t \notin excusedT' => t \notin excusedT /\ withdrawn[t] <= Drawn(t)
        BY <1>2, <1>8, <2>5 DEF TenantInv
      <3>10. LedgerCap' = LedgerCap
        BY DEF LedgerCap, CapEnabled, DailyCapQuantums
      <3>11. (t \notin excusedT =>
               /\ \A p, u \in ExposedWithdrawals(t) : p = u
               /\ withdrawn[t] <= Drawn(t)
               /\ \A p \in ExposedWithdrawals(t) : withdrawn[t] <= Drawn(t) + Draws(p))'
        BY SMT, <1>4, <3>1, <3>2, <3>3, <3>4, <3>9
      <3>12. (/\ Drawn(t) <= LedgerCap
              /\ \A p \in ExposedWithdrawals(t) : Drawn(t) + Draws(p) <= LedgerCap)'
        BY SMT, <1>4, <3>1, <3>2, <3>3, <3>4, <3>8, <3>10
      <3> QED BY <3>11, <3>12 DEF TenantInv
    <2> QED BY <2>3, <2>4, <2>5
  <1> QED BY <1>6, <1>7, <1>8 DEF Inspect, Draws

LEMMA SendTenant ==
  ASSUME CallsInv, TenantsInv, NEW r \in Requests, Send(r), NEW t \in Tenants
  PROVE  TenantInv(t)'
  <1>1. req[r].pc = "check" /\ today' = today /\ ledger' = ledger
    BY DEF Send, storeVars
  <1>2. TypeOK /\ req[r].pc # "idle" /\ TenantInv(t)
    BY <1>1 DEF CallsInv, TenantsInv
  <1>3. PICK reply \in {"accepted", "refused", "error"}, onChain \in BOOLEAN :
          /\ reply = "accepted" => onChain
          /\ reply = "refused" => ~onChain
          /\ req' = [req EXCEPT ![r].pc = "audit", ![r].reply = reply]
          /\ onChain => SendsOnChain(r)
          /\ ~onChain => withdrawn' = withdrawn
          /\ excusedT \subseteq excusedT'
          /\ onChain /\ reply = "error" => req[r].tenant \in excusedT'
    BY DEF Send, SendsOnChain
  <1>4. Moves(r, "audit", req[r].claimed, req[r].todo, reply)
    BY <1>2, <1>3, ReplyMoves DEF PCs, Replies
  <1>5. Drawn(t)' = Drawn(t)
    BY <1>1 DEF Drawn
  <1>6. Draws(r) \in Nat /\ req[r].tenant \in Tenants /\ withdrawn \in [Tenants -> Nat]
    <2>1. Draws(r) \in Uint
      BY <1>1 DEF CallsInv, CallFacts, PastInspect, Draws
    <2> QED BY SMT, <1>2, <2>1, CallType, MaxUintAssumption DEF TypeOK, Uint
  <1>7. onChain => withdrawn'[t] = IF req[r].tenant = t THEN withdrawn[t] + Draws(r)
                                                        ELSE withdrawn[t]
    BY <1>3, <1>6 DEF SendsOnChain, Draws
  <1>8. CASE ~onChain
    <2>1. withdrawn'[t] = withdrawn[t] /\ (t \in excusedT => t \in excusedT')
      BY <1>3, <1>8
    <2>2. ~DrawsAt("audit", reply)
      BY <1>3, <1>8 DEF DrawsAt
    <2> QED BY <1>1, <1>2, <1>4, <1>5, <2>1, <2>2, MovesTenant
  <1>9. CASE onChain /\ ~(Draws(r) > 0 /\ req[r].tenant = t)
    <2>1. withdrawn'[t] = withdrawn[t] /\ (t \in excusedT => t \in excusedT')
      BY SMT, <1>3, <1>6, <1>7, <1>9
    <2> QED BY <1>2, <1>4, <1>5, <1>9, <2>1, MovesTenant
  <1>10. CASE onChain /\ Draws(r) > 0 /\ req[r].tenant = t
    <2>1. CASE reply = "error"
      BY <1>3, <1>10, <2>1 DEF TenantInv
    <2>2. CASE reply = "accepted"
      <3>1. DrawsAt("audit", reply) /\ DrawsAt(req[r].pc, req[r].reply)
        BY <1>1, <2>2 DEF DrawsAt
      <3>2. /\ \A p \in Requests \ {r} :
                 p \in ExposedWithdrawals(t)' <=> p \in ExposedWithdrawals(t)
            /\ r \in ExposedWithdrawals(t)' /\ r \in ExposedWithdrawals(t)
            /\ ExposedWithdrawals(t)' \subseteq Requests
            /\ Draws(r)' = Draws(r) /\ req'[r].pc = "audit"
        BY SMT, <1>4, <1>10, <3>1, DrawsAfter
      <3>3. t \notin excusedT => \A p \in ExposedWithdrawals(t) : p = r
        BY <1>2, <3>2 DEF TenantInv
      <3>4. t \notin excusedT => withdrawn[t] <= Drawn(t)
        BY <1>1, <1>2, <3>3 DEF TenantInv
      <3>5. t \notin excusedT => \A p \in ExposedWithdrawals(t)' : p = r
        BY <3>2, <3>3
      <3>6. Drawn(t) \in Nat /\ withdrawn[t] \in Nat
        BY DrawnType
      <3>7. t \notin excusedT' => t \notin excusedT
        BY <1>3
      <3>8. LedgerCap' = LedgerCap
        BY DEF LedgerCap, CapEnabled, DailyCapQuantums
      <3>9. withdrawn'[t] = withdrawn[t] + Draws(r)
        BY <1>7, <1>10
      <3>10. (t \notin excusedT =>
               /\ \A p, u \in ExposedWithdrawals(t) : p = u
               /\ ~(\A p \in ExposedWithdrawals(t) : req[p].pc = "check")
               /\ \A p \in ExposedWithdrawals(t) : withdrawn[t] <= Drawn(t) + Draws(p))'
        BY SMT, <1>5, <1>6, <3>2, <3>4, <3>5, <3>6, <3>7, <3>9
      <3>11. (t \notin excusedT =>
               /\ Drawn(t) <= LedgerCap
               /\ \A p \in ExposedWithdrawals(t) : Drawn(t) + Draws(p) <= LedgerCap)'
        BY <1>2, <1>5, <3>2, <3>5, <3>7, <3>8 DEF TenantInv
      <3> QED BY <3>10, <3>11 DEF TenantInv
    <2>3. reply \in {"error", "accepted"}
      BY <1>3, <1>10
    <2> QED BY <2>1, <2>2, <2>3
  <1> QED BY <1>8, <1>9, <1>10

\* The ledger adds a withdrawal that fits the cap without wrapping around.
LEMMA RecordsExactly ==
  ASSUME CallsInv, NEW u \in Tenants, NEW q \in Uint, Drawn(u) + q \in Uint, NEW t \in Tenants,
         ledger' = LedgerRecord(ledger, u, q, today), today' = today
  PROVE  Drawn(t)' = IF t = u THEN Drawn(t) + q ELSE Drawn(t)
  <1> DEFINE l == LedgerRolled(ledger, today)
             sum == AddUint(l.used[u], q)
  <1>1. ledger \in [day : Days, used : [Tenants -> Uint]] /\ today \in Days
    BY DEF CallsInv, TypeOK, StoreTypeOK
  <1>2. l \in [day : Days, used : [Tenants -> Uint]] /\ l.day = today
    BY SMT, <1>1, MaxUintAssumption DEF LedgerRolled, Uint
  <1>3. \A w \in Tenants : l.used[w] = Drawn(w)
    BY DEF LedgerRolled, Drawn
  <1>4. \A n \in Uint : n \in Nat /\ n % (MaxUint + 1) = n
    BY SMT, MaxUintAssumption DEF Uint
  <1>5. Drawn(u) \in Nat
    BY DrawnType
  <1>6. sum = Drawn(u) + q /\ ~(sum < l.used[u])
    BY SMT, <1>3, <1>4, <1>5 DEF AddUint
  <1>7. ledger'.day = l.day /\ ledger'.used = [l.used EXCEPT ![u] = sum]
    BY <1>6 DEF LedgerRecord
  <1> HIDE DEF l, sum
  <1>8. ledger'.used[t] = IF t = u THEN sum ELSE l.used[t]
    BY <1>2, <1>7
  <1> QED BY <1>2, <1>3, <1>6, <1>7, <1>8 DEF Drawn

LEMMA RecordWithdrawTenant ==
  ASSUME CallsInv, TenantsInv, CapEnabled(DailyWithdrawCapUSDC), NEW r \in Requests,
         RecordWithdraw(r), NEW t \in Tenants
  PROVE  TenantInv(t)'
  <1> DEFINE u == req[r].tenant
  <1>1. /\ req[r].pc = "withdraw" /\ today' = today
        /\ withdrawn' = withdrawn /\ excusedT' = excusedT
        /\ ledger' = IF Draws(r) > 0 THEN LedgerRecord(ledger, u, Draws(r), today) ELSE ledger
        /\ req' = [req EXCEPT ![r].pc = "record", ![r].todo = OutSymbols(r)]
    BY DEF RecordWithdraw, storeVars, historyVars, Draws
  <1>2. TypeOK /\ req[r].pc # "idle" /\ TenantInv(t)
    BY <1>1 DEF CallsInv, TenantsInv
  <1>3. "record" \in PCs /\ OutSymbols(r) \in SUBSET Symbols
    BY DEF PCs, OutSymbols
  <1>4. Moves(r, "record", req[r].claimed, OutSymbols(r), req[r].reply)
    BY <1>1, <1>2, <1>3, GotoTodoMoves
  <1>5. Draws(r) \in Uint /\ u \in Tenants
    <2>1. Draws(r) \in Uint
      BY <1>1 DEF CallsInv, CallFacts, PastInspect, Draws
    <2> QED BY <1>2, <2>1, CallType
  <1>6. CASE ~(Draws(r) > 0)
    <2>1. Drawn(t)' = Drawn(t)
      BY <1>1, <1>6 DEF Drawn
    <2> QED BY <1>1, <1>2, <1>4, <1>6, <2>1, MovesTenant
  <1>7. CASE Draws(r) > 0
    <2>1. r \in ExposedWithdrawals(u)
      BY <1>1, <1>7 DEF ExposedWithdrawals, ExposedWithdrawal, Draws
    <2>2. TenantInv(u)
      BY <1>5 DEF TenantsInv
    <2>3. CASE t \in excusedT
      BY <1>1, <2>3 DEF TenantInv
    <2>4. CASE u \in excusedT /\ t # u
      <3>1. Drawn(t)' = Drawn(t)
        <4>1. ledger \in [day : Days, used : [Tenants -> Uint]]
          BY DEF CallsInv, TypeOK
        <4>2. LedgerRolled(ledger, today).used[t] = Drawn(t)
          BY DEF LedgerRolled, Drawn
        <4>3. LedgerRolled(ledger, today).used \in [Tenants -> Uint]
          BY SMT, <4>1, MaxUintAssumption DEF LedgerRolled, Uint
        <4>4. LedgerRolled(ledger, today).day = today
          BY DEF LedgerRolled
        <4>5. ledger'.day = today /\ ledger'.used[t] = LedgerRolled(ledger, today).used[t]
          BY <1>1, <1>7, <2>4, <4>3, <4>4 DEF LedgerRecord
        <4> QED BY <1>1, <4>2, <4>5 DEF Drawn
      <3> QED BY <1>1, <1>2, <1>4, <2>4, <3>1, MovesTenant
    <2>5. CASE u \notin excusedT /\ t \notin excusedT
      <3>1. Drawn(u) + Draws(r) <= LedgerCap
        BY <2>1, <2>2, <2>5 DEF TenantInv
      <3>2. Drawn(u) \in Nat /\ Draws(r) \in Nat /\ LedgerCap \in Uint
        BY SMT, <1>5, CapFits, DrawnType, MaxUintAssumption DEF Uint
      <3>3. Drawn(u) + Draws(r) \in Uint
        BY SMT, <3>1, <3>2, MaxUintAssumption DEF Uint
      <3>4. Drawn(t)' = IF t = u THEN Drawn(t) + Draws(r) ELSE Drawn(t)
        BY <1>1, <1>5, <1>7, <3>3, RecordsExactly
      <3>5. CASE t # u
        BY <1>1, <1>2, <1>4, <3>4, <3>5, MovesTenant
      <3>6. CASE t = u
        <4>1. ~DrawsAt("record", req[r].reply)
          BY DEF DrawsAt
        <4>2. /\ \A p \in Requests \ {r} :
                   p \in ExposedWithdrawals(t)' <=> p \in ExposedWithdrawals(t)
              /\ r \notin ExposedWithdrawals(t)'
              /\ ExposedWithdrawals(t)' \subseteq Requests
          BY SMT, <1>4, <4>1, DrawsAfter
        <4>3. ExposedWithdrawals(t)' = {}
          BY <2>1, <2>2, <2>5, <3>6, <4>2 DEF TenantInv
        <4>4. withdrawn[t] <= Drawn(t) + Draws(r)
          BY <2>1, <2>2, <2>5, <3>6 DEF TenantInv
        <4>5. LedgerCap' = LedgerCap
          BY DEF LedgerCap, CapEnabled, DailyCapQuantums
        <4>6. withdrawn'[t] <= Drawn(t)' /\ Drawn(t)' <= LedgerCap'
          BY <1>1, <3>1, <3>4, <3>6, <4>4, <4>5
        <4> QED BY <4>3, <4>6 DEF TenantInv
      <3> QED BY <3>5, <3>6
    <2> QED BY <2>3, <2>4, <2>5
  <1> QED BY <1>6, <1>7
-----------------------------------------------------------------------------
LEMMA SameWithdrawals ==
  ASSUME req' = req, NEW t
  PROVE  /\ ExposedWithdrawals(t)' = ExposedWithdrawals(t)
         /\ \A r \in ExposedWithdrawals(t) : Draws(r)' = Draws(r)
  BY DEF ExposedWithdrawals, ExposedWithdrawal, Draws

LEMMA QuietTenant ==
  ASSUME CallsInv, TenantsInv, QuietLedger, req' = req, NEW t \in Tenants
  PROVE  TenantInv(t)'
  <1>1. TenantInv(t) /\ ExposedWithdrawals(t)' = ExposedWithdrawals(t)
    BY SameWithdrawals DEF TenantsInv
  <1>2. \A r \in ExposedWithdrawals(t)' : /\ Draws(r)' = Draws(r)
                                          /\ req'[r].pc = "check" => req[r].pc = "check"
    BY SameWithdrawals
  <1> QED BY <1>1, <1>2, QuietDrawn, TenantFrame

\* At midnight the ledger and what was withdrawn start again from zero.
LEMMA NewDayTenant ==
  ASSUME CallsInv, TenantsInv, LedgerIsPast, CapEnabled(DailyWithdrawCapUSDC), NewDay,
         NEW t \in Tenants
  PROVE  TenantInv(t)'
  <1>1. /\ req' = req /\ ledger' = ledger /\ today' = today + 1
        /\ withdrawn' = [w \in Tenants |-> 0]
        /\ excusedT' = {w \in excusedT : ExposedWithdrawals(w) # {}}
    BY DEF NewDay, Midnight, handlerVars
  <1>2. TenantInv(t) /\ ledger.day <= today /\ today \in Nat /\ ledger.day \in Nat
    BY SMT, StoreAssumption DEF TenantsInv, CallsInv, TypeOK, StoreTypeOK, Days, LedgerIsPast
  <1>3. Drawn(t)' = 0 /\ withdrawn'[t] = 0
    BY SMT, <1>1, <1>2 DEF Drawn
  <1>4. /\ ExposedWithdrawals(t)' = ExposedWithdrawals(t)
        /\ \A r \in ExposedWithdrawals(t) : Draws(r)' = Draws(r)
    BY <1>1, SameWithdrawals
  <1>5. ExposedWithdrawals(t) # {} /\ t \notin excusedT' => t \notin excusedT
    BY <1>1
  <1>6. /\ Drawn(t) \in Nat /\ LedgerCap \in Nat
        /\ \A r \in ExposedWithdrawals(t) : Draws(r) \in Nat
    BY SMT, DrawnType, CapFits, MaxUintAssumption DEF Uint
  <1>7. (/\ withdrawn[t] <= Drawn(t)
         /\ \A r \in ExposedWithdrawals(t) : withdrawn[t] <= Drawn(t) + Draws(r))'
    BY SMT, <1>3, <1>4, <1>6
  <1>8. (t \notin excusedT => \A r, q \in ExposedWithdrawals(t) : r = q)'
    BY <1>2, <1>4, <1>5 DEF TenantInv
  <1>9. ASSUME t \notin excusedT', NEW r \in ExposedWithdrawals(t)
        PROVE  0 + Draws(r) <= LedgerCap
    <2>1. Drawn(t) + Draws(r) <= LedgerCap
      BY <1>2, <1>5, <1>9 DEF TenantInv
    <2> QED BY SMT, <1>6, <2>1
  <1>10. LedgerCap' = LedgerCap
    BY DEF LedgerCap, CapEnabled, DailyCapQuantums
  <1>11. (t \notin excusedT =>
            /\ Drawn(t) <= LedgerCap
            /\ \A r \in ExposedWithdrawals(t) : Drawn(t) + Draws(r) <= LedgerCap)'
    BY SMT, <1>3, <1>4, <1>6, <1>9, <1>10
  <1> QED BY <1>7, <1>8, <1>11 DEF TenantInv

\* A restart cuts off every exposed call, and both counts start from zero.
LEMMA CrashTenant ==
  ASSUME CallsInv, CapEnabled(DailyWithdrawCapUSDC), Crash, NEW t \in Tenants
  PROVE  TenantInv(t)'
  <1>1. ledger' = NewMemoryLedger /\ withdrawn' = [u \in Tenants |-> 0]
    BY DEF Crash
  <1>2. ExposedWithdrawals(t)' = {}
    <2>1. ASSUME NEW r \in Requests
          PROVE  req'[r].pc \in {"idle", "ok", "answered", "failed", "cut"}
      <3>1. CASE req[r].pc = "idle"
        BY <3>1 DEF Crash, InFlight
      <3>2. CASE req[r].pc # "idle"
        <4>1. req[r] \in Calls
          BY <3>2, CallType DEF CallsInv
        <4>2. req'[r] = IF InFlight(r) THEN [req[r] EXCEPT !.pc = "cut", !.claimed = 0]
                                       ELSE [req[r] EXCEPT !.claimed = 0]
          BY <3>2 DEF Crash
        <4> QED BY <4>1, <4>2 DEF Calls, InFlight
      <3> QED BY <3>1, <3>2
    <2> QED BY <2>1 DEF ExposedWithdrawals, ExposedWithdrawal
  <1>3. Drawn(t)' = 0 /\ withdrawn'[t] = 0
    BY <1>1 DEF Drawn, NewMemoryLedger
  <1>4. LedgerCap' = LedgerCap
    BY DEF LedgerCap, CapEnabled, DailyCapQuantums
  <1>5. 0 <= LedgerCap
    BY SMT, CapFits, MaxUintAssumption DEF Uint
  <1>6. 0 <= 0
    BY SMT
  <1> QED BY <1>2, <1>3, <1>4, <1>5, <1>6 DEF TenantInv
-----------------------------------------------------------------------------
\* No step puts the date of the ledger after today.
LEMMA LedgerStaysPast == CallsInv /\ LedgerIsPast /\ [Next]_vars => LedgerIsPast'
  <1> SUFFICES ASSUME CallsInv, LedgerIsPast, [Next]_vars PROVE LedgerIsPast'
    OBVIOUS
  <1>1. /\ today \in Nat /\ ledger.day \in Nat /\ ledger.day <= today
        /\ ledger \in [day : Days, used : [Tenants -> Uint]]
    BY SMT, StoreAssumption DEF CallsInv, TypeOK, StoreTypeOK, Days, LedgerIsPast
  <1>2. ASSUME NEW r \in Requests, Step(r) PROVE LedgerIsPast'
    <2>1. today' = today
      BY <1>2 DEF Step, Arrive, Claim, Inspect, CheckSymbol, Send, Audit, RecordWithdraw,
                  RecordSymbol, Finish, storeVars, Check, Record, Used
    <2>2. ledger' = ledger \/ ledger'.day \in {ledger.day, today}
      <3>1. CASE Inspect(r)
        BY SMT, <3>1 DEF Inspect, LedgerAfterEnforce, LedgerRolled
      <3>2. CASE RecordWithdraw(r)
        BY <3>2 DEF RecordWithdraw, LedgerRecord, LedgerRolled
      <3> QED BY <1>2, <3>1, <3>2 DEF Step, Arrive, Claim, CheckSymbol, Send, Audit,
                                      RecordSymbol, Finish
    <2> QED BY SMT, <1>1, <2>1, <2>2 DEF LedgerIsPast
  <1>3. CASE UNCHANGED vars \/ GetTransferOutCap \/ Tick
                \/ \E o \in Owners, s \in CappedSymbols : SetTransferOutCap(o, s)
    BY <1>1, <1>3 DEF LedgerIsPast, vars, storeVars, handlerVars, GetTransferOutCap, Used, Tick,
                      SetTransferOutCap, SetCap, SetUnlimited
  <1>4. CASE NewDay
    BY SMT, <1>1, <1>4 DEF LedgerIsPast, NewDay, Midnight, handlerVars
  <1>5. CASE Crash
    <2>1. ledger' = NewMemoryLedger /\ today' = today
      BY <1>5 DEF Crash, Restart
    <2>2. ledger'.day = 0
      BY <2>1 DEF NewMemoryLedger
    <2> QED BY SMT, <1>1, <2>1, <2>2 DEF LedgerIsPast
  <1> QED BY <1>2, <1>3, <1>4, <1>5 DEF Next

WithdrawInv == LedgerIsPast /\ (CapEnabled(DailyWithdrawCapUSDC) => TenantsInv)

LEMMA InitTenants == Init => WithdrawInv
  <1> SUFFICES ASSUME Init PROVE WithdrawInv
    OBVIOUS
  <1>1. \A r \in Requests : req[r].pc = "idle"
    BY DEF Init, NoCall
  <1>2. ledger = NewMemoryLedger /\ today \in Nat /\ withdrawn = [t \in Tenants |-> 0]
    BY StoreAssumption DEF Init, StoreInit, Days
  <1>3. LedgerIsPast
    BY SMT, <1>2 DEF LedgerIsPast, NewMemoryLedger
  <1>4. ASSUME CapEnabled(DailyWithdrawCapUSDC), NEW t \in Tenants PROVE TenantInv(t)
    <2>1. ExposedWithdrawals(t) = {}
      BY <1>1 DEF ExposedWithdrawals, ExposedWithdrawal
    <2>2. Drawn(t) = 0 /\ withdrawn[t] = 0
      BY <1>2 DEF Drawn, NewMemoryLedger
    <2>3. 0 <= LedgerCap
      BY SMT, <1>4, CapFits, MaxUintAssumption DEF Uint
    <2> QED BY SMT, <2>1, <2>2, <2>3 DEF TenantInv
  <1> QED BY <1>3, <1>4 DEF WithdrawInv, TenantsInv

LEMMA NextTenants == CallsInv /\ WithdrawInv /\ [Next]_vars => WithdrawInv'
  <1> SUFFICES ASSUME CallsInv, WithdrawInv, [Next]_vars, CapEnabled(DailyWithdrawCapUSDC),
                      NEW t \in Tenants
               PROVE  TenantInv(t)'
    <2>1. LedgerIsPast' \/ ~(CallsInv /\ WithdrawInv /\ [Next]_vars)
      BY LedgerStaysPast DEF WithdrawInv
    <2>2. CapEnabled(DailyWithdrawCapUSDC)' = CapEnabled(DailyWithdrawCapUSDC)
      BY DEF CapEnabled
    <2> QED BY <2>1, <2>2 DEF WithdrawInv, TenantsInv
  <1>1. TenantsInv /\ LedgerIsPast
    BY DEF WithdrawInv
  <1>2. ASSUME NEW r \in Requests, Step(r) PROVE TenantInv(t)'
    BY <1>1, <1>2, ArriveTenant, ClaimTenant, InspectTenant, CheckTenant, SendTenant, AuditTenant,
       RecordWithdrawTenant, RecordTenant DEF Step
  <1>3. CASE UNCHANGED vars \/ GetTransferOutCap \/ Tick
                \/ \E o \in Owners, s \in CappedSymbols : SetTransferOutCap(o, s)
    <2>1. QuietLedger /\ req' = req
      BY <1>3 DEF QuietLedger, vars, storeVars, handlerVars, historyVars, GetTransferOutCap, Used,
                  Tick, SetTransferOutCap, SetCap, SetUnlimited
    <2> QED BY <1>1, <2>1, QuietTenant
  <1>4. CASE NewDay
    BY <1>1, <1>4, NewDayTenant
  <1>5. CASE Crash
    BY <1>5, CrashTenant
  <1> QED BY <1>2, <1>3, <1>4, <1>5 DEF Next

LEMMA TenantsBound == CallsInv /\ WithdrawInv => CapBoundsWithdrawals
  <1> SUFFICES ASSUME CallsInv, WithdrawInv, NEW t \in Tenants, t \notin excusedT,
                      CapEnabled(DailyWithdrawCapUSDC)
               PROVE  withdrawn[t] <= LedgerCap
    BY DEF CapBoundsWithdrawals
  <1>1. /\ Drawn(t) \in Nat /\ withdrawn[t] \in Nat /\ LedgerCap \in Nat
        /\ \A r \in ExposedWithdrawals(t) : Draws(r) \in Nat
    BY SMT, DrawnType, CapFits, MaxUintAssumption DEF Uint
  <1>2. TenantInv(t)
    BY DEF WithdrawInv, TenantsInv
  <1>3. CASE ExposedWithdrawals(t) = {}
    BY SMT, <1>1, <1>2, <1>3 DEF TenantInv
  <1>4. CASE ExposedWithdrawals(t) # {}
    <2>1. PICK r \in ExposedWithdrawals(t) : TRUE
      BY <1>4
    <2>2. withdrawn[t] <= Drawn(t) + Draws(r) /\ Drawn(t) + Draws(r) <= LedgerCap
      BY <1>2, <2>1 DEF TenantInv
    <2> QED BY SMT, <1>1, <2>1, <2>2
  <1> QED BY <1>3, <1>4

(***************************************************************************)
(* Enforce before the send and Record after it: the daily withdraw cap     *)
(* bounds what the chain withdrew for a tenant on a UTC date in one life   *)
(* of the process, for any number of concurrent calls and any width of the *)
(* quantum counter, unless one of the named excuses applies.               *)
(***************************************************************************)
THEOREM WithdrawalsWithinCap == Spec => []CapBoundsWithdrawals
  <1>1. Init => WithdrawInv
    BY InitTenants
  <1>2. CallsInv /\ WithdrawInv /\ [Next]_vars => WithdrawInv'
    BY NextTenants
  <1>3. CallsInv /\ WithdrawInv => CapBoundsWithdrawals
    BY TenantsBound
  <1> QED BY <1>1, <1>2, <1>3, CallsInvariant, PTL DEF Spec
=============================================================================
