----------------------------- MODULE Broadcast ------------------------------
(***************************************************************************)
(* The two broadcast tools, lib/mcp/tools/cross.go BroadcastSignedTx and   *)
(* evm.go BroadcastEVMTx, running concurrently over the state they share:  *)
(* the idempotency table, the withdraw ledger, the transfer-out store and  *)
(* the chain.  A handler is a sequence of steps; a step ends where the     *)
(* handler releases a lock or waits for the chain, so other requests, cap  *)
(* changes, midnight and a crash of the process happen between steps.      *)
(***************************************************************************)
EXTENDS TransferOutStore, WithdrawLedger, Idempotency, TxInspect, FiniteSets

CONSTANTS
  Requests,     \* tool calls; each is made at most once
  OwnerOf,      \* the owner wallet of each tenant; tenants may share a wallet
  ClientIDs,    \* values of client_id
  Txs,          \* signed transactions the calls carry
  EVMEnabled,   \* whether evm_rpc_url is configured
  CappedSymbols,\* bound: symbols whose cap the owners change
  MaxTime       \* bound: last tick of the clock the reservations use

VARIABLES
  now,       \* the clock, in ticks
  seen,      \* Idempotency.seen
  ledger,    \* MemoryLedger
  req,       \* the handlers: where each call is, and its local variables
  accepted,  \* the calls whose transaction a chain accepted
  audit,     \* the audit log: <<call, outcome>>
  moved,     \* history: base units the home chain moved out on the date `today`
  withdrawn, \* history: the same by tenant, in quantums, in this life of the process
  counted,   \* history: <<call, symbol>> pairs that were Recorded
  excused,   \* history: <<owner, symbol>> pairs today's calls escaped the cap of
  recapped,  \* history: <<owner, symbol>> pairs whose cap came too late today
  excusedT   \* history: tenants the withdraw cap does not bind today

handlerVars == <<now, seen, ledger, req, accepted, audit>>
historyVars == <<moved, withdrawn, counted, excused, recapped, excusedT>>
vars == <<storeVars, handlerVars, historyVars>>

Keys == Tenants \X ClientIDs

OutflowOf == [tx \in Txs |-> [o \in Owners |-> Outflow(tx, o)]]
WithdrawalOf == [tx \in Txs |-> Withdrawal(tx)]

ASSUME BroadcastAssumption ==
  /\ Symbols = AssetSymbols
  /\ CappedSymbols \subseteq Symbols
  /\ OwnerOf \in [Tenants -> Owners]
  /\ EVMEnabled \in BOOLEAN
  /\ MaxTime \in Nat \ {0}
  /\ \A tx \in Txs :
       /\ WithdrawalOf[tx] \in Uint \cup {Overflow}
       /\ OutflowOf[tx] \in [Owners -> [Symbols -> Nat]]

\* The locals of a call that has not been made.
NoCall == [pc |-> "idle"]

Owner(r) == OwnerOf[req[r].tenant]
Key(r) == <<req[r].tenant, req[r].client>>
Amount(r, s) == OutflowOf[req[r].tx][Owner(r)][s]
OutSymbols(r) == {s \in Symbols : Amount(r, s) > 0}
Goto(r, pc) == [req EXCEPT ![r].pc = pc]
\* A limit refuses the call.
Denied(r) == [req EXCEPT ![r].pc = "failed", ![r].reply = "denied"]
-----------------------------------------------------------------------------
(***************************************************************************)
(* The call r may still move s, and has not been metered for it: it passed *)
(* Check for s, its transaction was not refused, and s is not Recorded.    *)
(***************************************************************************)
Exposed(r, s) ==
  /\ \/ req[r].pc = "check" /\ s \notin req[r].todo
     \/ req[r].pc = "audit" /\ req[r].reply = "accepted"
     \/ req[r].pc = "withdraw"
     \/ req[r].pc = "record" /\ s \in req[r].todo
  /\ s \in OutSymbols(r)

ExposedCalls(o, s) == {r \in Requests : Exposed(r, s) /\ Owner(r) = o}

\* The same for the withdraw ledger: past Enforce, not refused, not Recorded.
ExposedWithdrawal(r) ==
  /\ req[r].pc \in {"check", "audit", "withdraw"}
  /\ WithdrawalOf[req[r].tx] > 0
  /\ req[r].pc = "audit" => req[r].reply = "accepted"

ExposedWithdrawals(t) ==
  {r \in Requests : ExposedWithdrawal(r) /\ req[r].tenant = t}

OutPairs(r) == {<<Owner(r), s>> : s \in OutSymbols(r)}
-----------------------------------------------------------------------------
Init ==
  /\ StoreInit
  /\ now = 1
  /\ seen = NewIdempotency(Keys)
  /\ ledger = NewMemoryLedger
  /\ req = [r \in Requests |-> NoCall]
  /\ accepted = {}
  /\ audit = {}
  /\ moved = NoUsage
  /\ withdrawn = [t \in Tenants |-> 0]
  /\ counted = {}
  /\ excused = {}
  /\ recapped = {}
  /\ excusedT = {}

\* A call that authorize passes; an EVM call needs the EVM client.  A call that
\* is refused here changes nothing.
Arrive(r, t, c, tx) ==
  /\ req[r].pc = "idle"
  /\ tx.rail = "evm" => EVMEnabled
  /\ req' = [req EXCEPT ![r] =
              [pc |-> "claim", tenant |-> t, client |-> c, tx |-> tx,
               claimed |-> 0, todo |-> {}, reply |-> "none"]]
  /\ UNCHANGED <<storeVars, now, seen, ledger, accepted, audit, historyVars>>

\* Mutant of Claim: the key is looked up but not reserved.
ClaimUnreserved(r) ==
  /\ req[r].pc = "claim"
  /\ IF ClaimPasses(seen, Key(r), now)
       THEN req' = [req EXCEPT ![r].pc = "inspect", ![r].claimed = now]
       ELSE req' = Goto(r, "failed")
  /\ UNCHANGED <<storeVars, now, seen, ledger, accepted, audit, historyVars>>

\* Idempotency.Claim, before anything is known about the transaction.
Claim(r) ==
  /\ req[r].pc = "claim"
  /\ IF ClaimPasses(seen, Key(r), now)
       THEN /\ seen' = Claimed(seen, Key(r), now)
            /\ req' = [req EXCEPT ![r].pc = "inspect", ![r].claimed = now]
       ELSE /\ req' = Goto(r, "failed")
            /\ UNCHANGED seen
  /\ UNCHANGED <<storeVars, now, ledger, accepted, audit, historyVars>>

\* Decoding, the signer check, and Enforce on the withdrawn quantums.
Inspect(r) ==
  /\ req[r].pc = "inspect"
  /\ LET t == req[r].tenant
         tx == req[r].tx
         q == WithdrawalOf[tx]
         after == IF q > 0 THEN LedgerAfterEnforce(ledger, today, q) ELSE ledger
     IN  IF ~SignedBy(tx, Owner(r)) \/ q = Overflow
           THEN /\ req' = Goto(r, "failed")
                /\ UNCHANGED <<ledger, excusedT>>
           ELSE /\ ledger' = after
                /\ IF q > 0 /\ ~EnforcePasses(after, t, q)
                     THEN req' = Denied(r) /\ UNCHANGED excusedT
                     ELSE /\ req' = [req EXCEPT ![r].pc = "check",
                                                ![r].todo = OutSymbols(r)]
                          /\ excusedT' = excusedT \cup
                               {u \in {t} : q > 0 /\ ExposedWithdrawals(t) # {}}
  /\ UNCHANGED <<storeVars, now, seen, accepted, audit,
                 moved, withdrawn, counted, excused, recapped>>

\* TransferOut.Check for one of the symbols, in the order of a Go map.
CheckSymbol(r, s) ==
  /\ req[r].pc = "check"
  /\ s \in req[r].todo
  /\ Check(Amount(r, s))
  /\ IF CheckPasses(Owner(r), s, Amount(r, s))
       THEN /\ req' = [req EXCEPT ![r].todo = @ \ {s}]
            /\ excused' = excused \cup
                 {p \in {<<Owner(r), s>>} : ExposedCalls(Owner(r), s) # {}}
       ELSE /\ req' = Denied(r)
            /\ UNCHANGED excused
  /\ UNCHANGED <<now, seen, ledger, accepted, audit,
                 moved, withdrawn, counted, recapped, excusedT>>

(***************************************************************************)
(* BroadcastSync, or SendTransaction on the chain the transaction was      *)
(* signed for: the chain accepts or refuses, and the answer may be lost,   *)
(* which the handler sees as an error.  A Cosmos refusal is an answer with *)
(* a code, an EVM refusal is an error.                                     *)
(***************************************************************************)
Send(r) ==
  /\ req[r].pc = "check"
  /\ req[r].todo = {}
  /\ \E reply \in {"accepted", "refused", "error"}, onChain \in BOOLEAN :
       /\ reply = "accepted" => onChain
       /\ reply = "refused" => ~onChain /\ req[r].tx.rail = "cosmos"
       /\ req' = [req EXCEPT ![r].pc = "audit", ![r].reply = reply]
       /\ IF onChain
            THEN /\ accepted' = accepted \cup {r}
                 /\ moved' = [moved EXCEPT ![Owner(r)] =
                                [s \in Symbols |-> @[s] + Amount(r, s)]]
                 /\ withdrawn' = [withdrawn EXCEPT ![req[r].tenant] =
                                    @ + WithdrawalOf[req[r].tx]]
            ELSE UNCHANGED <<accepted, moved, withdrawn>>
       /\ IF onChain /\ reply = "error"
            THEN /\ excused' = excused \cup OutPairs(r)
                 /\ excusedT' = excusedT \cup {req[r].tenant}
            ELSE UNCHANGED <<excused, excusedT>>
  /\ UNCHANGED <<storeVars, now, seen, ledger, audit, counted, recapped>>

\* Auditor.Append; every answer but an acceptance ends the call.  A refusal
\* that ParseBroadcastError does not know is returned with its code.
Audit(r) ==
  /\ req[r].pc = "audit"
  /\ audit' = audit \cup
       {<<r, IF req[r].reply = "accepted" THEN "broadcast" ELSE "chain_reject">>}
  /\ \E pc \in CASE req[r].reply = "accepted" -> {"withdraw"}
                 [] req[r].reply = "refused" -> {"failed", "answered"}
                 [] OTHER -> {"failed"} :
       req' = Goto(r, pc)
  /\ UNCHANGED <<storeVars, now, seen, ledger, accepted, historyVars>>

\* WithdrawLedger.Record, then on to the symbols.
RecordWithdraw(r) ==
  /\ req[r].pc = "withdraw"
  /\ LET q == WithdrawalOf[req[r].tx]
     IN  ledger' = IF q > 0 THEN LedgerRecord(ledger, req[r].tenant, q, today)
                            ELSE ledger
  /\ req' = [req EXCEPT ![r].pc = "record", ![r].todo = OutSymbols(r)]
  /\ UNCHANGED <<storeVars, now, seen, accepted, audit, historyVars>>

\* TransferOut.Record for one of the symbols, in the order of a Go map.
RecordSymbol(r, s) ==
  /\ req[r].pc = "record"
  /\ s \in req[r].todo
  /\ Record(Owner(r), s, Amount(r, s))
  /\ counted' = counted \cup {<<r, s>>}
  /\ req' = [req EXCEPT ![r].todo = @ \ {s}]
  /\ UNCHANGED <<now, seen, ledger, accepted, audit,
                 moved, withdrawn, excused, recapped, excusedT>>

\* Mutant of Finish: the call may end after the first symbol.
FinishEarly(r) ==
  /\ req[r].pc = "record"
  /\ Cardinality(req[r].todo) <= 1
  /\ req' = Goto(r, "ok")
  /\ UNCHANGED <<storeVars, now, seen, ledger, accepted, audit, historyVars>>

Finish(r) ==
  /\ req[r].pc = "record"
  /\ req[r].todo = {}
  /\ req' = Goto(r, "ok")
  /\ UNCHANGED <<storeVars, now, seen, ledger, accepted, audit, historyVars>>
-----------------------------------------------------------------------------
(***************************************************************************)
(* SetTransferOutCap: a finite cap, or "0" for unlimited.  A cap below     *)
(* what the owner already used, or set while a call is exposed, cannot     *)
(* bind what already happened.                                             *)
(***************************************************************************)
SetTransferOutCap(o, s) ==
  /\ \/ \E c \in CapValues :
          /\ SetCap(o, s, c)
          /\ recapped' = recapped \cup
               {p \in {<<o, s>>} : c < UsedToday(mem, o, s) \/ ExposedCalls(o, s) # {}}
     \/ /\ SetUnlimited(o, s)
        /\ UNCHANGED recapped
  /\ UNCHANGED <<handlerVars, moved, withdrawn, counted, excused, excusedT>>

GetTransferOutCap ==
  /\ Used
  /\ UNCHANGED <<handlerVars, historyVars>>

Tick ==
  /\ now < MaxTime
  /\ now' = now + 1
  /\ UNCHANGED <<storeVars, seen, ledger, req, accepted, audit, historyVars>>

\* The excuses of a day end with it, unless a call of that day is still exposed.
NewDay ==
  /\ Midnight
  /\ moved' = NoUsage
  /\ withdrawn' = [t \in Tenants |-> 0]
  /\ excused' = {p \in excused : ExposedCalls(p[1], p[2]) # {}}
  /\ recapped' = {p \in recapped : ExposedCalls(p[1], p[2]) # {}}
  /\ excusedT' = {t \in excusedT : ExposedWithdrawals(t) # {}}
  /\ UNCHANGED <<handlerVars, counted>>

(***************************************************************************)
(* The process dies and is started again: calls in flight are cut off, the *)
(* idempotency table and the withdraw ledger are empty, the transfer-out   *)
(* store is what its file holds.                                           *)
(***************************************************************************)
InFlight(r) == req[r].pc \notin {"idle", "ok", "answered", "failed", "cut"}

Forgotten ==
  {p \in Owners \X Symbols :
     \/ Meter(Load(file)).limit[p[1]][p[2]] # Meter(mem).limit[p[1]][p[2]]
     \/ Meter(Load(file)).spent[p[1]][p[2]] # Meter(mem).spent[p[1]][p[2]]
     \/ ExposedCalls(p[1], p[2]) # {}}

Crash ==
  /\ Restart
  /\ req' = [r \in Requests |->
               IF InFlight(r) THEN [req[r] EXCEPT !.pc = "cut", !.claimed = 0]
               ELSE IF req[r].pc = "idle" THEN req[r]
               ELSE [req[r] EXCEPT !.claimed = 0]]
  /\ seen' = NewIdempotency(Keys)
  /\ ledger' = NewMemoryLedger
  /\ excused' = excused \cup Forgotten
  /\ withdrawn' = [t \in Tenants |-> 0]
  /\ excusedT' = {}
  /\ UNCHANGED <<now, accepted, audit, moved, counted, recapped>>

Step(r) ==
  \/ \E t \in Tenants, c \in ClientIDs, tx \in Txs : Arrive(r, t, c, tx)
  \/ Claim(r)
  \/ Inspect(r)
  \/ \E s \in Symbols : CheckSymbol(r, s)
  \/ Send(r)
  \/ Audit(r)
  \/ RecordWithdraw(r)
  \/ \E s \in Symbols : RecordSymbol(r, s)
  \/ Finish(r)

Next ==
  \/ \E r \in Requests : Step(r)
  \/ \E o \in Owners, s \in CappedSymbols : SetTransferOutCap(o, s)
  \/ GetTransferOutCap
  \/ Tick
  \/ NewDay
  \/ Crash

Spec == Init /\ [][Next]_vars
-----------------------------------------------------------------------------
Calls ==
  [pc : {"claim", "inspect", "check", "audit", "withdraw", "record",
         "ok", "answered", "failed", "cut"},
   tenant : Tenants, client : ClientIDs, tx : Txs, claimed : 0..MaxTime,
   todo : SUBSET Symbols, reply : {"none", "denied", "accepted", "refused", "error"}]

(***************************************************************************)
(* Every table, local variable and history variable has its type.          *)
(***************************************************************************)
TypeOK ==
  /\ StoreTypeOK
  /\ now \in 1..MaxTime
  /\ seen \in [Keys -> Nat]
  /\ ledger \in [day : Days, used : [Tenants -> Uint]]
  /\ req \in [Requests -> Calls \cup {NoCall}]
  /\ accepted \in SUBSET Requests
  /\ audit \in SUBSET (Requests \X {"broadcast", "chain_reject", "policy_denied"})
  /\ moved \in Usage
  /\ withdrawn \in [Tenants -> Nat]
  /\ counted \in SUBSET (Requests \X Symbols)
  /\ excused \in SUBSET (Owners \X Symbols)
  /\ recapped \in SUBSET (Owners \X Symbols)
  /\ excusedT \in SUBSET Tenants

(***************************************************************************)
(* The daily transfer-out cap bounds what the home chain moved out of a    *)
(* wallet on a UTC date, over both rails and all tenants of the wallet,    *)
(* across midnight and restarts: unless two calls were exposed at the same *)
(* time, the cap was set below what was used or under an exposed call, an  *)
(* acceptance was answered by an error, or a restart lost state.           *)
(* (Check before the send, Record after it, in both broadcast handlers)    *)
(***************************************************************************)
CapBoundsOutflow ==
  \A o \in Owners, s \in Symbols :
    <<o, s>> \notin excused \cup recapped /\ mem.caps[o][s] # NoCap
      => moved[o][s] <= mem.caps[o][s]

(***************************************************************************)
(* The daily withdraw cap of a tenant bounds what is withdrawn on a UTC    *)
(* date in one life of the process, so that each restart gives the tenant  *)
(* one more cap and never more: unless two withdraws of the tenant were    *)
(* exposed at the same time or an acceptance was answered by an error.     *)
(* (Enforce before the send, Record after it)                              *)
(***************************************************************************)
CapBoundsWithdrawals ==
  \A t \in Tenants :
    t \notin excusedT /\ CapEnabled(DailyWithdrawCapUSDC) => withdrawn[t] <= LedgerCap

(***************************************************************************)
(* Within one life of the process, two calls get past Claim with the same  *)
(* tenant and client_id only if a whole TTL lies between their claims, so  *)
(* a retry inside the TTL never reaches the chain a second time.           *)
(***************************************************************************)
ClaimsAreSpaced ==
  \A r1, r2 \in Requests :
    /\ r1 # r2
    /\ req[r1].pc # "idle" /\ req[r2].pc # "idle"
    /\ Key(r1) = Key(r2)
    /\ req[r1].claimed > 0 /\ req[r2].claimed > 0
    => \/ req[r1].claimed + TTL <= req[r2].claimed
       \/ req[r2].claimed + TTL <= req[r1].claimed

(***************************************************************************)
(* The meter counts accepted transactions only: a refused or cut-off call  *)
(* never eats the cap, and a call that reports success has been counted    *)
(* for every symbol it moved.  (An accepted transaction whose answer was   *)
(* lost goes uncounted.)                                                   *)
(***************************************************************************)
CountsAcceptedOnly ==
  /\ \A r \in Requests, s \in Symbols :
       <<r, s>> \in counted => r \in accepted /\ Amount(r, s) > 0
  /\ \A r \in Requests :
       req[r].pc = "ok" => r \in accepted /\ \A s \in OutSymbols(r) : <<r, s>> \in counted
-----------------------------------------------------------------------------
(***************************************************************************)
(* docs/mcp-server-deploy.md:104 says the cap "Caps how much of each token *)
(* a tenant may move OUT of its wallet per UTC day": the running total of  *)
(* the day stays within a cap that was set in time.  Two calls that both   *)
(* pass Check before either is Recorded break it.                          *)
(***************************************************************************)
RunningTotalWithinCap ==
  \A o \in Owners, s \in Symbols :
    <<o, s>> \notin recapped /\ mem.caps[o][s] # NoCap
      => UsedToday(mem, o, s) <= mem.caps[o][s]

(***************************************************************************)
(* lib/mcp/policy/idempotency.go:9 says a client_id "is reserved after a   *)
(* successful broadcast": when no call with a key is in flight, the key is *)
(* reserved only if a transaction was accepted under it.  Claim reserves   *)
(* it first and no failure gives it back.                                  *)
(***************************************************************************)
ReservedAfterSuccess ==
  \A k \in Keys :
    seen[k] > now =>
      \E r \in Requests :
        req[r].pc # "idle" /\ Key(r) = k /\ (InFlight(r) \/ r \in accepted)

(***************************************************************************)
(* lib/mcp/policy/audit.go:12 says the server writes one entry per         *)
(* broadcast "plus one per policy denial".                                 *)
(***************************************************************************)
DenialsAreAudited ==
  \A r \in Requests :
    req[r].pc = "failed" /\ req[r].reply = "denied" => <<r, "policy_denied">> \in audit
=============================================================================
