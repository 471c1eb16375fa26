-------------------------------- MODULE Auth --------------------------------
(***************************************************************************)
(* Self-service authentication: the in-memory stores of lib/mcp/auth, the  *)
(* auth_challenge and auth_verify tools, the middleware that resolves the  *)
(* tenant of a call (cmd/mcp-server/mcp_auth.go) and the authorize prelude *)
(* of every other tool.  Calls run concurrently; a step ends where a store *)
(* releases its lock, so time may pass, and other calls may run, between   *)
(* two lookups of one call.  A restart empties every store.                *)
(***************************************************************************)
EXTENDS Integers, FiniteSets

CONSTANTS
  Owners,        \* wallet addresses
  Sessions,      \* values of Mcp-Session-Id
  IPs,           \* client addresses; None where RemoteAddr has no host
  Calls,         \* calls that may be in flight at the same time
  Nonces,        \* bound: challenges issued in a behaviour
  Bearers,       \* bound: bearers minted in a behaviour
  None,          \* an absent header, an absent map entry
  ChallengeTTL,  \* DefaultChallengeTTL, in ticks
  BearerTTL,     \* DefaultBearerTTL, in ticks
  RateMax,       \* DefaultIPChallengeRate
  RateWindow,    \* DefaultIPChallengeWindow, in ticks
  MaxTime        \* bound: last tick of the clock

\* What the stores hold, and what the history keeps of a bearer.
Challenges == [owner : Owners, expires : Nat]
Bindings == [bearer : Bearers, expires : Nat]
Mintings ==
  [owner : Owners, nonce : Nonces, session : Sessions \cup {None},
   consumed : Nat, at : Nat, alive : BOOLEAN]

ASSUME AuthAssumption ==
  /\ ChallengeTTL \in Nat \ {0}
  /\ BearerTTL \in Nat \ {0}
  /\ RateMax \in Nat
  /\ RateWindow \in Nat \ {0}
  /\ MaxTime \in Nat \ {0}
  /\ None \notin Owners \cup IPs \cup Sessions \cup Nonces \cup Bearers
  /\ None \notin Challenges \cup Bindings \cup Mintings

VARIABLES
  now,       \* the clock
  entries,   \* NonceStore.entries: nonce -> [owner, expires] or None
  tenants,   \* byBearer and byTenant: bearer -> [owner, expires] or None
  sessions,  \* SessionBearers.entries: session -> [bearer, expires] or None
  windows,   \* IPRateLimiter.entries: ip -> [count, start] or None
  calls,     \* the calls in flight and their local variables
  issued,    \* history: nonce -> [owner, expires] or None, for ever
  minted,    \* history: bearer -> how it was minted, or None
  signed,    \* history: <<wallet, nonce>>: the wallet signed that challenge
  allowed    \* history: challenges let through, by ip, in this process

vars == <<now, entries, tenants, sessions, windows, calls,
          issued, minted, signed, allowed>>
stores == <<entries, tenants, sessions, windows>>
history == <<issued, minted, signed, allowed>>

Idle == [pc |-> "idle"]
Return(c) == calls' = [calls EXCEPT ![c] = Idle]
Absent(S) == [x \in S |-> None]

\* Mutant of Live: !now.After(expires).
LiveAtExpiry(e) == e # None /\ now <= e.expires

\* now.Before(expires)
Live(e) == e # None /\ now < e.expires

Init ==
  /\ now = 1
  /\ entries = Absent(Nonces)
  /\ tenants = Absent(Bearers)
  /\ sessions = Absent(Sessions)
  /\ windows = Absent(IPs)
  /\ calls = [c \in Calls |-> Idle]
  /\ issued = Absent(Nonces)
  /\ minted = Absent(Bearers)
  /\ signed = {}
  /\ allowed = [ip \in IPs |-> 0]
-----------------------------------------------------------------------------
\* IPRateLimiter.Allow: the window after the call, and whether it passes.
Opens(ip) == windows[ip] = None \/ now - windows[ip].start >= RateWindow
Window(ip) ==
  IF Opens(ip)
    THEN [count |-> 1, start |-> now]
    ELSE [windows[ip] EXCEPT !.count = @ + 1]
\* Mutant of Allow: the count is compared before it is incremented.
AllowOneMore(ip) == ip = None \/ Opens(ip) \/ windows[ip].count <= RateMax

Allow(ip) == ip = None \/ Opens(ip) \/ windows[ip].count < RateMax

\* auth_challenge: the rate limit, then the test for a missing owner.
AuthChallenge(c, ip, o) ==
  /\ calls[c] = Idle
  /\ ip # None /\ windows[ip] # None => windows[ip].count <= RateMax   \* bound
  /\ windows' = IF ip = None THEN windows ELSE [windows EXCEPT ![ip] = Window(ip)]
  /\ IF Allow(ip)
       THEN /\ calls' = IF o = None THEN calls
                         ELSE [calls EXCEPT ![c] = [pc |-> "issue", owner |-> o]]
            /\ allowed' = IF ip = None THEN allowed ELSE [allowed EXCEPT ![ip] = @ + 1]
       ELSE UNCHANGED <<calls, allowed>>
  /\ UNCHANGED <<now, entries, tenants, sessions, issued, minted, signed>>

\* NonceStore.Issue; a nonce is 128 random bits, hence fresh.
Issue(c, n) ==
  /\ calls[c].pc = "issue"
  /\ issued[n] = None
  /\ LET e == [owner |-> calls[c].owner, expires |-> now + ChallengeTTL]
     IN  /\ entries' = [entries EXCEPT ![n] = e]
         /\ issued' = [issued EXCEPT ![n] = e]
  /\ Return(c)
  /\ UNCHANGED <<now, tenants, sessions, windows, minted, signed, allowed>>

\* A wallet's local signer signs a challenge that was issued.
SignChallenge(w, n) ==
  /\ issued[n] # None
  /\ signed' = signed \cup {<<w, n>>}
  /\ UNCHANGED <<now, stores, calls, issued, minted, allowed>>

\* auth_verify is called with a nonce and some wallet's signature.
AuthVerify(c, s, n, sig) ==
  /\ calls[c] = Idle
  /\ calls' = [calls EXCEPT ![c] =
                [pc |-> "consume", session |-> s, nonce |-> n, sig |-> sig]]
  /\ UNCHANGED <<now, stores, history>>

\* Mutant of Consume: the entry stays.
ConsumeAndKeep(c) ==
  /\ calls[c].pc = "consume"
  /\ LET n == calls[c].nonce
     IN  IF Live(entries[n])
           THEN calls' = [calls EXCEPT ![c] =
                  [pc |-> "recover", session |-> calls[c].session, nonce |-> n,
                   sig |-> calls[c].sig, owner |-> entries[n].owner, at |-> now]]
           ELSE Return(c)
  /\ UNCHANGED <<now, stores, history>>

\* NonceStore.Consume: the entry goes whether or not it expired.
Consume(c) ==
  /\ calls[c].pc = "consume"
  /\ LET n == calls[c].nonce
     IN  /\ entries' = [entries EXCEPT ![n] = None]
         /\ IF Live(entries[n])
              THEN calls' = [calls EXCEPT ![c] =
                     [pc |-> "recover", session |-> calls[c].session, nonce |-> n,
                      sig |-> calls[c].sig, owner |-> entries[n].owner, at |-> now]]
              ELSE Return(c)
  /\ UNCHANGED <<now, tenants, sessions, windows, history>>

\* The signature is over the challenge rebuilt from the nonce, or recovers
\* to an address nobody claimed.
Recovered(call) == IF call.sig[2] = call.nonce THEN call.sig[1] ELSE None

\* RecoverOwner, the comparison, and DynamicTenantStore.Mint.
Mint(c, b) ==
  /\ calls[c].pc = "recover"
  /\ Recovered(calls[c]) = calls[c].owner
  /\ minted[b] = None
  /\ tenants' = [tenants EXCEPT ![b] =
                  [owner |-> calls[c].owner, expires |-> now + BearerTTL]]
  /\ minted' = [minted EXCEPT ![b] =
                 [owner |-> calls[c].owner, nonce |-> calls[c].nonce,
                  session |-> calls[c].session, consumed |-> calls[c].at,
                  at |-> now, alive |-> TRUE]]
  /\ calls' = [calls EXCEPT ![c] =
                [pc |-> "bind", session |-> calls[c].session, bearer |-> b]]
  /\ UNCHANGED <<now, entries, sessions, windows, issued, signed, allowed>>

Mismatch(c) ==
  /\ calls[c].pc = "recover"
  /\ Recovered(calls[c]) # calls[c].owner
  /\ Return(c)
  /\ UNCHANGED <<now, stores, history>>

\* Mutant of Bind: a session that is bound already keeps its expiry.
BindKeepingExpiry(c) ==
  /\ calls[c].pc = "bind"
  /\ LET s == calls[c].session
     IN  sessions' =
           IF s = None THEN sessions
           ELSE [sessions EXCEPT ![s] =
                  [bearer |-> calls[c].bearer,
                   expires |-> IF sessions[s] = None THEN now + BearerTTL
                               ELSE sessions[s].expires]]
  /\ Return(c)
  /\ UNCHANGED <<now, entries, tenants, windows, history>>

\* SessionBearers.Bind; without a session id it does nothing.
Bind(c) ==
  /\ calls[c].pc = "bind"
  /\ sessions' =
       IF calls[c].session = None THEN sessions
       ELSE [sessions EXCEPT ![calls[c].session] =
              [bearer |-> calls[c].bearer, expires |-> now + BearerTTL]]
  /\ Return(c)
  /\ UNCHANGED <<now, entries, tenants, windows, history>>
-----------------------------------------------------------------------------
\* A call of a tenant-scoped tool, with the headers it carries.
ToolCall(c, s, token) ==
  /\ calls[c] = Idle
  /\ calls' = [calls EXCEPT ![c] =
                [pc |-> "header", session |-> s, bearer |-> token, via |-> "header"]]
  /\ UNCHANGED <<now, stores, history>>

Goto(c, pc) == calls' = [calls EXCEPT ![c].pc = pc]

\* Path 1 of the middleware: the Authorization header, if it resolves.
ResolveBearer(c) ==
  /\ calls[c].pc = "header"
  /\ IF calls[c].bearer # None /\ Live(tenants[calls[c].bearer])
       THEN Goto(c, "check")
       ELSE Goto(c, "session")
  /\ UNCHANGED <<now, stores, history>>

\* Mutant of ResolveSession: the lookup ignores which session asks.
ResolveAnySession(c) ==
  /\ calls[c].pc = "session"
  /\ \/ \E s \in Sessions :
          /\ Live(sessions[s])
          /\ calls' = [calls EXCEPT ![c] = [pc |-> "bound", session |-> calls[c].session,
                         bearer |-> sessions[s].bearer, via |-> "session"]]
     \/ /\ \A s \in Sessions : ~Live(sessions[s])
        /\ Return(c)
  /\ UNCHANGED <<now, stores, history>>

\* Path 2: SessionBearers.Lookup; unbound, the gate answers auth_required.
ResolveSession(c) ==
  /\ calls[c].pc = "session"
  /\ LET s == calls[c].session
     IN  IF s # None /\ Live(sessions[s])
           THEN calls' = [calls EXCEPT ![c] = [pc |-> "bound", session |-> s,
                            bearer |-> sessions[s].bearer, via |-> "session"]]
           ELSE Return(c)
  /\ UNCHANGED <<now, stores, history>>

\* LookupTenantByToken on the bound bearer, then the gate.
ResolveBound(c) ==
  /\ calls[c].pc = "bound"
  /\ IF Live(tenants[calls[c].bearer]) THEN Goto(c, "check") ELSE Return(c)
  /\ UNCHANGED <<now, stores, history>>

\* authorize: CheckTenant looks the tenant up ...
CheckTenant(c) ==
  /\ calls[c].pc = "check"
  /\ IF Live(tenants[calls[c].bearer]) THEN Goto(c, "policy") ELSE Return(c)
  /\ UNCHANGED <<now, stores, history>>

\* ... and Tenant looks it up again; the handler runs on this policy, unless
\* the rate limiter of the tool refuses.
Authorize(c) ==
  /\ calls[c].pc = "policy"
  /\ \/ /\ Live(tenants[calls[c].bearer])
        /\ calls' = [calls EXCEPT ![c] =
                      [pc |-> "run", session |-> calls[c].session,
                       bearer |-> calls[c].bearer, via |-> calls[c].via,
                       owner |-> tenants[calls[c].bearer].owner, at |-> now]]
     \/ Return(c)
  /\ UNCHANGED <<now, stores, history>>

\* The handler proper, on behalf of the owner, and its answer.
Run(c) ==
  /\ calls[c].pc = "run"
  /\ Return(c)
  /\ UNCHANGED <<now, stores, history>>
-----------------------------------------------------------------------------
Tick ==
  /\ now < MaxTime
  /\ now' = now + 1
  /\ UNCHANGED <<stores, calls, history>>

\* The stores live in memory only; calls in flight are cut off.
Restart ==
  /\ entries' = Absent(Nonces)
  /\ tenants' = Absent(Bearers)
  /\ sessions' = Absent(Sessions)
  /\ windows' = Absent(IPs)
  /\ calls' = [c \in Calls |-> Idle]
  /\ allowed' = [ip \in IPs |-> 0]
  /\ minted' = [b \in Bearers |-> IF minted[b] = None THEN None
                                  ELSE [minted[b] EXCEPT !.alive = FALSE]]
  /\ UNCHANGED <<now, issued, signed>>

\* The steps a call takes once it has been made.
Step(c) ==
  \/ \E n \in Nonces : Issue(c, n)
  \/ Consume(c)
  \/ \E b \in Bearers : Mint(c, b)
  \/ Mismatch(c)
  \/ Bind(c)
  \/ ResolveBearer(c)
  \/ ResolveSession(c)
  \/ ResolveBound(c)
  \/ CheckTenant(c)
  \/ Authorize(c)
  \/ Run(c)

Make(c) ==
  \/ \E ip \in IPs \cup {None}, o \in Owners \cup {None} : AuthChallenge(c, ip, o)
  \/ \E s \in Sessions \cup {None}, n \in Nonces, sig \in signed : AuthVerify(c, s, n, sig)
  \/ \E s \in Sessions \cup {None}, b \in Bearers \cup {None} : ToolCall(c, s, b)

Next ==
  \/ \E c \in Calls : Make(c) \/ Step(c)
  \/ \E w \in Owners, n \in Nonces : SignChallenge(w, n)
  \/ Tick
  \/ Restart

Spec == Init /\ [][Next]_vars

\* Handlers never wait for one another: each call that was made goes on.
FairSpec == Spec /\ WF_vars(Tick) /\ \A c \in Calls : WF_vars(Step(c))
-----------------------------------------------------------------------------
\* The local variables of a call, by where it is.
CallStates ==
  LET S == Sessions \cup {None}
      signature == Owners \X Nonces
      via == {"header", "session"}
  IN  [pc : {"idle"}]
        \cup [pc : {"issue"}, owner : Owners]
        \cup [pc : {"consume"}, session : S, nonce : Nonces, sig : signature]
        \cup [pc : {"recover"}, session : S, nonce : Nonces, sig : signature,
              owner : Owners, at : Nat]
        \cup [pc : {"bind"}, session : S, bearer : Bearers]
        \cup [pc : {"header", "session"}, session : S, bearer : Bearers \cup {None},
              via : {"header"}]
        \cup [pc : {"bound", "check", "policy"}, session : S, bearer : Bearers, via : via]
        \cup [pc : {"run"}, session : S, bearer : Bearers, via : via,
              owner : Owners, at : Nat]

(***************************************************************************)
(* Every store holds entries of its type, or none, and a call has the      *)
(* local variables its next step reads.                                    *)
(***************************************************************************)
TypeOK ==
  /\ now \in Nat
  /\ entries \in [Nonces -> Challenges \cup {None}]
  /\ tenants \in [Bearers -> Challenges \cup {None}]
  /\ sessions \in [Sessions -> Bindings \cup {None}]
  /\ calls \in [Calls -> CallStates]
  /\ issued \in [Nonces -> Challenges \cup {None}]
  /\ minted \in [Bearers -> Mintings \cup {None}]
  /\ signed \subseteq Owners \X Nonces

(***************************************************************************)
(* A nonce is single-use: however many auth_verify calls carry the same    *)
(* nonce at the same time, at most one bearer is ever minted from it.      *)
(* (NonceStore.Consume deletes under the lock it looks up under)           *)
(***************************************************************************)
OneBearerPerNonce ==
  \A b1, b2 \in Bearers :
    /\ b1 # b2
    /\ minted[b1] # None /\ minted[b2] # None
    => minted[b1].nonce # minted[b2].nonce

(***************************************************************************)
(* A tool runs for an owner only if that wallet itself signed a challenge  *)
(* that was issued to it, the challenge was redeemed before it expired and *)
(* in this life of the process, and the bearer minted for it had not       *)
(* expired when authorize looked it up for the last time.                  *)
(***************************************************************************)
RunsForSigner ==
  \A c \in Calls :
    calls[c].pc = "run" =>
      LET m == minted[calls[c].bearer]
      IN  /\ m # None
          /\ m.alive
          /\ m.owner = calls[c].owner
          /\ <<m.owner, m.nonce>> \in signed
          /\ issued[m.nonce].owner = m.owner
          /\ m.consumed < issued[m.nonce].expires
          /\ calls[c].at < m.at + BearerTTL

(***************************************************************************)
(* A call without a usable Authorization header runs only on a bearer that *)
(* an auth_verify on its own session minted: no session ever borrows the   *)
(* tenant of another.  (SessionBearers.Bind and Lookup, the middleware)    *)
(***************************************************************************)
SessionsAreIsolated ==
  \A c \in Calls :
    calls[c].pc = "run" /\ calls[c].via = "session" =>
      /\ calls[c].session # None
      /\ minted[calls[c].bearer].session = calls[c].session

(***************************************************************************)
(* "Entries inherit the bearer's TTL": as long as the bearer bound to a    *)
(* session is good, so is the binding, even when two auth_verify calls of  *)
(* one session bind in the opposite order of their mints.                  *)
(***************************************************************************)
SessionOutlivesBearer ==
  \A s \in Sessions :
    sessions[s] # None /\ Live(tenants[sessions[s].bearer]) => Live(sessions[s])

(***************************************************************************)
(* The fixed window lets at most RateMax challenges of a known address     *)
(* through per window, so at most RateMax per RateWindow ticks begun,      *)
(* however the calls of the address interleave.  (IPRateLimiter.Allow)     *)
(***************************************************************************)
ChallengesAreBounded ==
  \A ip \in IPs : allowed[ip] <= RateMax * ((now - 1) \div RateWindow + 1)
-----------------------------------------------------------------------------
(***************************************************************************)
(* lib/mcp/auth/nonce_store.go:101 says of Sweep "The server starts a      *)
(* background goroutine that calls this periodically": an entry that has   *)
(* expired is eventually removed.  Nothing in the server calls Sweep.      *)
(***************************************************************************)
ExpiredNoncesAreSwept ==
  \A n \in Nonces :
    (entries[n] # None /\ ~Live(entries[n])) ~> (entries[n] = None)
=============================================================================
