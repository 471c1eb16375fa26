----------------------------- MODULE AuthProofs -----------------------------
(***************************************************************************)
(* Proofs about Auth for every set of wallets, sessions, concurrent calls, *)
(* nonces and bearers, and all lifetimes.                                  *)
(***************************************************************************)
EXTENDS Auth, TLAPS

\* First-order leaves go to Zenon; the others name the prover they need.
USE Zenon

\* Call c redeems nonce n: it took the entry and has not minted yet.
Redeems(c, n) == calls[c].pc = "recover" /\ calls[c].nonce = n

MintedFrom(b, n) == minted[b] # None /\ minted[b].nonce = n

\* A nonce is in at most one place: the store, one call, or a bearer.
NonceInOnePlace ==
  \A n \in Nonces :
    /\ entries[n] # None =>
         /\ issued[n] = entries[n]
         /\ \A c \in Calls : ~Redeems(c, n)
         /\ \A b \in Bearers : ~MintedFrom(b, n)
    /\ \A c \in Calls : Redeems(c, n) =>
         /\ \A d \in Calls : Redeems(d, n) => d = c
         /\ \A b \in Bearers : ~MintedFrom(b, n)

\* What stands behind a bearer.
MintedForSigner ==
  \A b \in Bearers : minted[b] # None =>
    LET m == minted[b]
    IN  /\ issued[m.nonce] # None /\ issued[m.nonce].owner = m.owner
        /\ m.consumed < issued[m.nonce].expires
        /\ <<m.owner, m.nonce>> \in signed
        /\ m.at <= now

\* The tenant store holds bearers of this life of the process.
TenantsAreMinted ==
  \A b \in Bearers : tenants[b] # None =>
    /\ minted[b] # None /\ minted[b].alive
    /\ minted[b].owner = tenants[b].owner
    /\ tenants[b].expires = minted[b].at + BearerTTL

\* A session is bound only to a bearer minted on it, for no less than its life.
BoundOnOwnSession ==
  \A s \in Sessions : sessions[s] # None =>
    LET b == sessions[s].bearer
    IN  /\ minted[b] # None /\ minted[b].session = s
        /\ sessions[s].expires >= minted[b].at + BearerTTL

\* What a call in flight relies on.
CallOK(c) ==
  LET m == minted[calls[c].bearer]
      e == issued[calls[c].nonce]
  IN  /\ calls[c].pc \in {"consume", "recover"} => calls[c].sig \in signed
      /\ calls[c].pc = "recover" =>
           e # None /\ e.owner = calls[c].owner /\ calls[c].at < e.expires
      /\ calls[c].pc = "bind" => m # None /\ m.session = calls[c].session
      /\ calls[c].pc \in {"bound", "check", "policy", "run"} /\ calls[c].via = "session" =>
           calls[c].session # None /\ m # None /\ m.session = calls[c].session
      /\ calls[c].pc = "run" =>
           /\ m # None /\ m.alive /\ m.owner = calls[c].owner
           /\ calls[c].at < m.at + BearerTTL

AuthInv ==
  /\ TypeOK
  /\ NonceInOnePlace /\ OneBearerPerNonce
  /\ MintedForSigner /\ TenantsAreMinted /\ BoundOnOwnSession
  /\ \A c \in Calls : CallOK(c)
-----------------------------------------------------------------------------
\* The local variables of a call, by where it is.
LEMMA CallFields ==
  ASSUME TypeOK, NEW c \in Calls
  PROVE  /\ calls[c].pc = "issue" => calls[c].owner \in Owners
         /\ calls[c].pc \in {"consume", "recover"} =>
              /\ calls[c].session \in Sessions \cup {None}
              /\ calls[c].nonce \in Nonces
              /\ calls[c].sig \in Owners \X Nonces
         /\ calls[c].pc = "recover" => calls[c].owner \in Owners /\ calls[c].at \in Nat
         /\ calls[c].pc \in {"bind", "bound", "check", "policy", "run"} =>
              /\ calls[c].session \in Sessions \cup {None}
              /\ calls[c].bearer \in Bearers
         /\ calls[c].pc \in {"header", "session"} =>
              calls[c] \in [pc : {"header", "session"}, session : Sessions \cup {None},
                            bearer : Bearers \cup {None}, via : {"header"}]
         /\ calls[c].pc \in {"bound", "check", "policy"} =>
              calls[c] \in [pc : {"bound", "check", "policy"}, session : Sessions \cup {None},
                            bearer : Bearers, via : {"header", "session"}]
         /\ calls[c].pc = "run" =>
              calls[c].owner \in Owners /\ calls[c].at \in Nat
  <1>1. calls[c] \in CallStates
    BY DEF TypeOK
  <1> QED BY <1>1 DEF CallStates

\* The entries of the stores.
LEMMA StoreFields ==
  ASSUME TypeOK
  PROVE  /\ \A n \in Nonces : entries[n] # None =>
              entries[n].owner \in Owners /\ entries[n].expires \in Nat
         /\ \A n \in Nonces : issued[n] # None =>
              issued[n].owner \in Owners /\ issued[n].expires \in Nat
         /\ \A b \in Bearers : tenants[b] # None =>
              tenants[b].owner \in Owners /\ tenants[b].expires \in Nat
         /\ \A s \in Sessions : sessions[s] # None =>
              sessions[s].bearer \in Bearers /\ sessions[s].expires \in Nat
         /\ \A b \in Bearers : minted[b] # None =>
              /\ minted[b] \in Mintings
              /\ minted[b].nonce \in Nonces /\ minted[b].owner \in Owners
              /\ minted[b].at \in Nat /\ minted[b].consumed \in Nat
  BY DEF TypeOK, Challenges, Bindings, Mintings

\* Call d relies on its bearer having been minted.
Relies(d) ==
  \/ calls[d].pc \in {"bind", "run"}
  \/ calls[d].pc \in {"bound", "check", "policy"} /\ calls[d].via = "session"

\* A call whose locals, nonce and bearer a step leaves alone.
LEMMA CallFrame ==
  ASSUME NEW d \in Calls, CallOK(d), calls'[d] = calls[d], signed \subseteq signed',
         calls[d].pc = "recover" => issued'[calls[d].nonce] = issued[calls[d].nonce],
         Relies(d) => minted'[calls[d].bearer] = minted[calls[d].bearer]
  PROVE  CallOK(d)'
  BY DEF CallOK, Relies

\* A call that has returned.
LEMMA IdleCall ==
  ASSUME NEW d \in Calls, calls'[d].pc = "idle"
  PROVE  CallOK(d)'
  BY DEF CallOK

\* A step that changes one call only, which then redeems no nonce, need only
\* be looked at for that call.
LEMMA LocalStep ==
  ASSUME AuthInv, NEW c \in Calls, NEW x \in CallStates,
         calls' = [calls EXCEPT ![c] = x], x.pc # "recover",
         UNCHANGED <<now, entries, tenants, sessions, issued, minted, signed>>,
         CallOK(c)'
  PROVE  AuthInv'
  <1>1. TypeOK /\ TypeOK'
    BY DEF AuthInv, TypeOK
  <1>2. calls'[c] = x /\ \A d \in Calls \ {c} : calls'[d] = calls[d]
    BY <1>1 DEF TypeOK
  <1>3. NonceInOnePlace'
    BY SMT, <1>2 DEF AuthInv, NonceInOnePlace, Redeems, MintedFrom
  <1>4. /\ OneBearerPerNonce' /\ MintedForSigner'
        /\ TenantsAreMinted' /\ BoundOnOwnSession'
    BY DEF AuthInv, OneBearerPerNonce, MintedForSigner, TenantsAreMinted, BoundOnOwnSession
  <1>5. ASSUME NEW d \in Calls PROVE CallOK(d)'
    <2>1. CallOK(d) /\ signed \subseteq signed'
      BY DEF AuthInv
    <2> QED BY <1>2, <2>1, CallFrame
  <1> QED BY <1>1, <1>3, <1>4, <1>5 DEF AuthInv

\* A call that returns.
LEMMA ReturnStep ==
  ASSUME AuthInv, NEW c \in Calls, Return(c),
         UNCHANGED <<now, entries, tenants, sessions, issued, minted, signed>>
  PROVE  AuthInv'
  <1>1. Idle \in CallStates
    BY DEF Idle, CallStates
  <1>2. calls'[c] = Idle
    BY DEF Return, AuthInv, TypeOK
  <1>3. CallOK(c)'
    BY SMT, <1>2 DEF CallOK, Idle
  <1> QED BY <1>1, <1>3, LocalStep DEF Return, Idle
-----------------------------------------------------------------------------
\* The calls that begin.
LEMMA MakeStep ==
  ASSUME AuthInv, NEW c \in Calls, Make(c)
  PROVE  AuthInv'
  <1>0. calls \in [Calls -> CallStates] /\ signed \subseteq Owners \X Nonces
    BY DEF AuthInv, TypeOK
  <1>1. ASSUME NEW ip \in IPs \cup {None}, NEW o \in Owners \cup {None}, AuthChallenge(c, ip, o)
        PROVE  AuthInv'
    <2>1. CASE calls' = calls
      <3>1. calls' = [calls EXCEPT ![c] = Idle] /\ Idle \in CallStates
        BY <1>0, <1>1, <2>1 DEF AuthChallenge, CallStates, Idle
      <3> QED BY <1>1, <3>1, ReturnStep DEF AuthChallenge, Return
    <2>2. CASE calls' # calls
      <3> DEFINE x == [pc |-> "issue", owner |-> o]
      <3>1. calls' = [calls EXCEPT ![c] = x] /\ x \in CallStates /\ x.pc = "issue"
        BY <1>1, <2>2 DEF AuthChallenge, CallStates
      <3>2. CallOK(c)'
        BY <1>0, <3>1 DEF CallOK
      <3> QED BY <1>1, <3>1, <3>2, LocalStep DEF AuthChallenge
    <2> QED BY <2>1, <2>2
  <1>2. ASSUME NEW s \in Sessions \cup {None}, NEW n \in Nonces, NEW sig \in signed,
               AuthVerify(c, s, n, sig)
        PROVE  AuthInv'
    <2> DEFINE x == [pc |-> "consume", session |-> s, nonce |-> n, sig |-> sig]
    <2>1. calls' = [calls EXCEPT ![c] = x] /\ x \in CallStates /\ x.pc = "consume"
      BY <1>0, <1>2 DEF AuthVerify, CallStates
    <2>2. CallOK(c)'
      BY SMT, <1>0, <1>2, <2>1 DEF CallOK, AuthVerify, history
    <2> QED BY <1>2, <2>1, <2>2, LocalStep DEF AuthVerify, stores, history
  <1>3. ASSUME NEW s \in Sessions \cup {None}, NEW b \in Bearers \cup {None}, ToolCall(c, s, b)
        PROVE  AuthInv'
    <2> DEFINE x == [pc |-> "header", session |-> s, bearer |-> b, via |-> "header"]
    <2>1. calls' = [calls EXCEPT ![c] = x] /\ x \in CallStates /\ x.pc = "header"
      BY <1>3 DEF ToolCall, CallStates
    <2>2. CallOK(c)'
      BY <1>0, <2>1 DEF CallOK
    <2> QED BY <1>3, <2>1, <2>2, LocalStep DEF ToolCall, stores, history
  <1> QED BY <1>1, <1>2, <1>3 DEF Make

\* The lookups of the tenant, from the headers to the policy the handler runs on.
LEMMA LookupStep ==
  ASSUME AuthInv, NEW c \in Calls,
         \/ ResolveBearer(c) \/ ResolveSession(c) \/ ResolveBound(c)
         \/ CheckTenant(c) \/ Authorize(c) \/ Run(c)
  PROVE  AuthInv'
  <1>0. TypeOK /\ CallOK(c) /\ TenantsAreMinted /\ BoundOnOwnSession
    BY DEF AuthInv
  <1>1. UNCHANGED <<now, entries, tenants, sessions, issued, minted, signed>>
    BY DEF ResolveBearer, ResolveSession, ResolveBound, CheckTenant, Authorize, Run,
           stores, history
  <1>2. ASSUME NEW pc \in {"session", "check", "policy"}, Goto(c, pc),
               \/ calls[c].pc = "header" /\ pc = "session"
               \/ calls[c].pc = "header" /\ pc = "check" /\ calls[c].bearer # None
               \/ calls[c].pc \in {"bound", "check"} /\ pc \in {"check", "policy"}
        PROVE  AuthInv'
    <2> DEFINE x == [calls[c] EXCEPT !.pc = pc]
    <2>1. /\ x \in CallStates /\ x.pc = pc
          /\ x.bearer = calls[c].bearer /\ x.session = calls[c].session /\ x.via = calls[c].via
      BY ZenonT(30), <1>0, <1>2, CallFields DEF CallStates
    <2>2. calls' = [calls EXCEPT ![c] = x] /\ calls'[c] = x
      BY <1>0, <1>2 DEF Goto, TypeOK
    <2>3. calls[c].pc = "header" => calls[c].via = "header"
      BY <1>0, CallFields
    <2> HIDE DEF x
    <2>4. CallOK(c)'
      BY ZenonT(30), <1>0, <1>1, <1>2, <2>1, <2>2, <2>3 DEF CallOK
    <2> QED BY <1>1, <1>2, <2>1, <2>2, <2>4, LocalStep
  <1>3. CASE ResolveBearer(c)
    BY <1>2, <1>3 DEF ResolveBearer
  <1>4. CASE ResolveSession(c)
    <2>1. CASE Return(c)
      BY <1>1, <2>1, ReturnStep
    <2>2. CASE ~Return(c)
      <3> DEFINE s == calls[c].session
                 x == [pc |-> "bound", session |-> s,
                       bearer |-> sessions[s].bearer, via |-> "session"]
      <3>1. s \in Sessions /\ s # None /\ sessions[s] # None
        BY <1>0, <1>4, <2>2, CallFields DEF ResolveSession, Live
      <3>2. calls' = [calls EXCEPT ![c] = x] /\ x \in CallStates /\ x.pc = "bound"
        BY <1>0, <1>4, <2>2, <3>1, StoreFields DEF ResolveSession, CallStates
      <3>3. calls'[c] = x
        BY <1>0, <3>2 DEF TypeOK
      <3>4. minted[x.bearer] # None /\ minted[x.bearer].session = s
        BY <1>0, <3>1 DEF BoundOnOwnSession
      <3>5. x.pc = "bound" /\ x.session = s
        OBVIOUS
      <3> HIDE DEF x
      <3>6. CallOK(c)'
        BY <1>1, <3>1, <3>3, <3>4, <3>5 DEF CallOK
      <3> QED BY <1>1, <3>2, <3>6, LocalStep
    <2> QED BY <2>1, <2>2
  <1>5. CASE ResolveBound(c) \/ CheckTenant(c)
    BY <1>1, <1>2, <1>5, ReturnStep DEF ResolveBound, CheckTenant
  <1>6. CASE Authorize(c)
    <2>1. CASE Return(c)
      BY <1>1, <2>1, ReturnStep
    <2>2. CASE ~Return(c)
      <3> DEFINE b == calls[c].bearer
                 x == [pc |-> "run", session |-> calls[c].session, bearer |-> b,
                       via |-> calls[c].via, owner |-> tenants[b].owner, at |-> now]
      <3>1. /\ calls[c].pc = "policy" /\ b \in Bearers
            /\ tenants[b] # None /\ now < tenants[b].expires
        BY <1>0, <1>6, <2>2, CallFields DEF Authorize, Live
      <3>2. calls' = [calls EXCEPT ![c] = x]
        BY <1>6, <2>2 DEF Authorize
      <3>3. x \in CallStates /\ x.pc = "run"
        BY <1>0, <3>1, CallFields, StoreFields DEF CallStates, TypeOK
      <3>4. calls'[c] = x
        BY <1>0, <3>2 DEF TypeOK
      <3>5. CallOK(c)'
        BY SMT, <1>0, <1>1, <3>1, <3>4 DEF CallOK, TenantsAreMinted
      <3> QED BY <1>1, <3>2, <3>3, <3>5, LocalStep
    <2> QED BY <2>1, <2>2
  <1>7. CASE Run(c)
    BY <1>1, <1>7, ReturnStep DEF Run
  <1> QED BY <1>3, <1>4, <1>5, <1>6, <1>7
-----------------------------------------------------------------------------
\* A fresh nonce was never redeemed.
LEMMA IssueStep ==
  ASSUME AuthInv, NEW c \in Calls, NEW n \in Nonces, Issue(c, n)
  PROVE  AuthInv'
  <1> DEFINE e == [owner |-> calls[c].owner, expires |-> now + ChallengeTTL]
  <1>0. TypeOK /\ \A d \in Calls : CallOK(d)
    BY DEF AuthInv
  <1>1. e \in Challenges /\ Idle \in CallStates
    BY SMT, <1>0, CallFields, AuthAssumption DEF Issue, Challenges, TypeOK, CallStates, Idle
  <1>2. /\ issued' = [issued EXCEPT ![n] = e] /\ entries' = [entries EXCEPT ![n] = e]
        /\ calls' = [calls EXCEPT ![c] = Idle]
        /\ UNCHANGED <<now, tenants, sessions, minted, signed>>
    BY DEF Issue, Return
  <1> HIDE DEF e
  <1>3. TypeOK'
    BY <1>0, <1>1, <1>2 DEF TypeOK
  <1>4. /\ issued'[n] = e /\ entries'[n] = e /\ issued[n] = None
        /\ \A k \in Nonces \ {n} : issued'[k] = issued[k] /\ entries'[k] = entries[k]
        /\ calls'[c].pc = "idle" /\ \A d \in Calls \ {c} : calls'[d] = calls[d]
    BY <1>0, <1>2 DEF TypeOK, Idle, Issue
  <1>5. \A b \in Bearers : ~MintedFrom(b, n)
    BY <1>4 DEF AuthInv, MintedForSigner, MintedFrom
  <1>6. \A d \in Calls : ~Redeems(d, n)
    BY <1>0, <1>4 DEF CallOK, Redeems
  <1>7. NonceInOnePlace'
    BY SMT, <1>2, <1>4, <1>5, <1>6 DEF AuthInv, NonceInOnePlace, Redeems, MintedFrom
  <1>8. OneBearerPerNonce' /\ TenantsAreMinted' /\ BoundOnOwnSession'
    BY <1>2 DEF AuthInv, OneBearerPerNonce, TenantsAreMinted, BoundOnOwnSession
  <1>9. MintedForSigner'
    BY SMT, <1>0, <1>2, <1>4, <1>5, StoreFields DEF AuthInv, MintedForSigner, MintedFrom
  <1>10. ASSUME NEW d \in Calls PROVE CallOK(d)'
    <2>1. CASE d = c
      BY <1>4, <2>1, IdleCall
    <2>2. CASE d # c
      <3>1. CallOK(d) /\ calls'[d] = calls[d] /\ signed \subseteq signed'
        BY <1>0, <1>2, <1>4, <2>2
      <3>2. calls[d].pc = "recover" => calls[d].nonce \in Nonces \ {n}
        BY <1>0, <1>6, CallFields DEF Redeems
      <3> QED BY <1>2, <1>4, <3>1, <3>2, CallFrame
    <2> QED BY <2>1, <2>2
  <1> QED BY <1>3, <1>7, <1>8, <1>9, <1>10 DEF AuthInv

\* Consume takes the entry out of the store: the one call that found it redeems it.
LEMMA ConsumeStep ==
  ASSUME AuthInv, NEW c \in Calls, Consume(c)
  PROVE  AuthInv'
  <1> DEFINE n == calls[c].nonce
             x == [pc |-> "recover", session |-> calls[c].session, nonce |-> n,
                   sig |-> calls[c].sig, owner |-> entries[n].owner, at |-> now]
  <1>0. TypeOK /\ NonceInOnePlace /\ \A d \in Calls : CallOK(d)
    BY DEF AuthInv
  <1>1. n \in Nonces /\ calls[c].sig \in signed
    BY <1>0, CallFields DEF Consume, CallOK
  <1>2. /\ entries' = [entries EXCEPT ![n] = None]
        /\ UNCHANGED <<now, tenants, sessions, issued, minted, signed>>
    BY DEF Consume, history
  <1>3. PICK y \in CallStates :
          /\ calls' = [calls EXCEPT ![c] = y]
          /\ y = Idle \/ (Live(entries[n]) /\ y = x)
    <2>1. Idle \in CallStates
      BY DEF Idle, CallStates
    <2>2. Live(entries[n]) => x \in CallStates
      BY <1>0, <1>1, CallFields, StoreFields DEF CallStates, Live, TypeOK, Consume
    <2> QED BY <2>1, <2>2 DEF Consume, Return
  <1>4. y.pc \in {"idle", "recover"}
        /\ (y.pc = "recover" => /\ entries[n] # None /\ now < entries[n].expires
                                /\ y.nonce = n /\ y.sig = calls[c].sig
                                /\ y.owner = entries[n].owner /\ y.at = now)
    BY SMT, <1>3 DEF Idle, Live
  <1> HIDE DEF x
  <1>5. TypeOK'
    BY <1>0, <1>1, <1>2, <1>3 DEF TypeOK
  <1>6. /\ entries'[n] = None /\ \A k \in Nonces \ {n} : entries'[k] = entries[k]
        /\ calls'[c] = y /\ \A d \in Calls \ {c} : calls'[d] = calls[d]
    BY <1>0, <1>1, <1>2, <1>3 DEF TypeOK
  <1>7. NonceInOnePlace'
    BY SMT, <1>0, <1>1, <1>2, <1>4, <1>6 DEF NonceInOnePlace, Redeems, MintedFrom
  <1>8. /\ OneBearerPerNonce' /\ MintedForSigner'
        /\ TenantsAreMinted' /\ BoundOnOwnSession'
    BY <1>2 DEF AuthInv, OneBearerPerNonce, MintedForSigner, TenantsAreMinted,
                BoundOnOwnSession
  <1>9. ASSUME NEW d \in Calls PROVE CallOK(d)'
    <2>1. CASE d = c
      <3>1. entries[n] # None => issued'[n] = entries[n]
        BY <1>0, <1>1, <1>2 DEF NonceInOnePlace
      <3>2. calls'[d] = y /\ calls[c].sig \in signed'
        BY <1>1, <1>2, <1>6, <2>1
      <3> QED BY <1>4, <3>1, <3>2 DEF CallOK
    <2>2. CASE d # c
      BY <1>0, <1>2, <1>6, <2>2, CallFrame
    <2> QED BY <2>1, <2>2
  <1> QED BY <1>5, <1>7, <1>8, <1>9 DEF AuthInv

\* Mint moves the nonce from the call that redeems it to a new bearer.
LEMMA MintStep ==
  ASSUME AuthInv, NEW c \in Calls, NEW b \in Bearers, Mint(c, b)
  PROVE  AuthInv'
  <1> DEFINE n == calls[c].nonce
             o == calls[c].owner
             m == [owner |-> o, nonce |-> n, session |-> calls[c].session,
                   consumed |-> calls[c].at, at |-> now, alive |-> TRUE]
             t == [owner |-> o, expires |-> now + BearerTTL]
             x == [pc |-> "bind", session |-> calls[c].session, bearer |-> b]
  <1>0. /\ TypeOK /\ NonceInOnePlace /\ MintedForSigner /\ TenantsAreMinted
        /\ BoundOnOwnSession /\ OneBearerPerNonce /\ \A d \in Calls : CallOK(d)
    BY DEF AuthInv
  <1>1. /\ calls[c].pc = "recover" /\ minted[b] = None
        /\ tenants' = [tenants EXCEPT ![b] = t]
        /\ minted' = [minted EXCEPT ![b] = m]
        /\ calls' = [calls EXCEPT ![c] = x]
        /\ UNCHANGED <<now, entries, sessions, issued, signed>>
    BY DEF Mint
  <1>2. n \in Nonces /\ o \in Owners /\ now \in Nat /\ BearerTTL \in Nat
    BY <1>0, <1>1, CallFields, AuthAssumption DEF TypeOK
  <1>3. <<o, n>> \in signed
    <2>1. calls[c].sig \in Owners \X Nonces /\ o # None /\ Recovered(calls[c]) = o
      BY ZenonT(30), <1>0, <1>1, <1>2, CallFields, AuthAssumption DEF Mint
    <2>2. calls[c].sig = <<o, n>>
      BY SMT, <2>1 DEF Recovered
    <2> QED BY <1>0, <1>1, <2>2 DEF CallOK
  <1>4. m \in Mintings /\ t \in Challenges /\ x \in CallStates /\ m # None
    <2>1. calls[c].session \in Sessions \cup {None} /\ calls[c].at \in Nat
      BY <1>0, <1>1, CallFields
    <2>2. m \in Mintings /\ t \in Challenges
      BY SMT, <1>2, <2>1 DEF Mintings, Challenges
    <2>3. x \in CallStates
      BY <2>1 DEF CallStates
    <2>4. m # None
      BY <2>2, AuthAssumption
    <2> QED BY <2>2, <2>3, <2>4
  <1>5. /\ m.owner = o /\ m.nonce = n /\ m.session = calls[c].session
        /\ m.consumed = calls[c].at /\ m.at = now /\ m.alive
        /\ t.owner = o /\ t.expires = now + BearerTTL
        /\ x.pc = "bind" /\ x.session = calls[c].session /\ x.bearer = b
    OBVIOUS
  <1>6. Redeems(c, n)
    BY <1>1 DEF Redeems
  <1> HIDE DEF m, t, x, n, o
  <1>7. TypeOK'
    BY <1>0, <1>1, <1>4 DEF TypeOK
  <1>8. /\ minted'[b] = m /\ \A k \in Bearers \ {b} : minted'[k] = minted[k]
        /\ tenants'[b] = t /\ \A k \in Bearers \ {b} : tenants'[k] = tenants[k]
        /\ calls'[c] = x /\ \A d \in Calls \ {c} : calls'[d] = calls[d]
    BY <1>0, <1>1 DEF TypeOK
  <1>9. /\ \A k \in Bearers : ~MintedFrom(k, n)
        /\ \A d \in Calls : Redeems(d, n) => d = c
        /\ entries[n] = None
    BY <1>0, <1>2, <1>6 DEF NonceInOnePlace
  <1>10. NonceInOnePlace'
    BY SMT, <1>0, <1>1, <1>5, <1>8, <1>9 DEF NonceInOnePlace, Redeems, MintedFrom
  <1>11. OneBearerPerNonce'
    BY SMT, <1>0, <1>5, <1>8, <1>9 DEF OneBearerPerNonce, MintedFrom
  <1>12. MintedForSigner'
    <2>1. /\ issued[n] # None /\ issued[n].owner = o /\ calls[c].at < issued[n].expires
      BY <1>0, <1>1 DEF CallOK, n, o
    <2> QED BY SMT, <1>0, <1>1, <1>2, <1>3, <1>5, <1>8, <2>1 DEF MintedForSigner
  <1>13. TenantsAreMinted'
    BY SMT, <1>0, <1>4, <1>5, <1>8 DEF TenantsAreMinted
  <1>14. BoundOnOwnSession'
    BY SMT, <1>0, <1>1, <1>8, StoreFields DEF BoundOnOwnSession
  <1>15. ASSUME NEW d \in Calls PROVE CallOK(d)'
    <2>1. CASE d = c
      BY <1>4, <1>5, <1>8, <2>1 DEF CallOK
    <2>2. CASE d # c
      <3>1. CallOK(d) /\ calls'[d] = calls[d] /\ signed \subseteq signed' /\ issued' = issued
        BY <1>0, <1>1, <1>8, <2>2
      <3>2. ASSUME Relies(d)
            PROVE  minted'[calls[d].bearer] = minted[calls[d].bearer]
        <4>1. calls[d].bearer \in Bearers
          BY <1>0, <3>2, CallFields DEF Relies
        <4>2. minted[calls[d].bearer] # None
          BY <3>1, <3>2 DEF CallOK, Relies
        <4> QED BY <1>1, <1>8, <4>1, <4>2
      <3> QED BY <3>1, <3>2, CallFrame
    <2> QED BY <2>1, <2>2
  <1> QED BY <1>7, <1>10, <1>11, <1>12, <1>13, <1>14, <1>15 DEF AuthInv

\* Bind comes no earlier than the mint, so the binding lives as long as the bearer.
LEMMA BindStep ==
  ASSUME AuthInv, NEW c \in Calls, Bind(c)
  PROVE  AuthInv'
  <1> DEFINE s == calls[c].session
             b == calls[c].bearer
             e == [bearer |-> b, expires |-> now + BearerTTL]
  <1>0. TypeOK /\ MintedForSigner /\ BoundOnOwnSession /\ \A d \in Calls : CallOK(d)
    BY DEF AuthInv
  <1>1. CASE s = None
    BY <1>1, ReturnStep DEF Bind, history
  <1>2. CASE s # None
    <2>1. s \in Sessions /\ b \in Bearers /\ minted[b] # None /\ minted[b].session = s
      BY <1>0, <1>2, CallFields DEF Bind, CallOK
    <2>2. now \in Nat /\ BearerTTL \in Nat /\ minted[b].at \in Nat /\ minted[b].at <= now
      BY <1>0, <2>1, StoreFields, AuthAssumption DEF MintedForSigner, TypeOK
    <2>3. e \in Bindings /\ e.bearer = b /\ e.expires = now + BearerTTL
      BY SMT, <2>1, <2>2 DEF Bindings
    <2>4. /\ sessions' = [sessions EXCEPT ![s] = e]
          /\ calls' = [calls EXCEPT ![c] = Idle] /\ Idle \in CallStates
          /\ UNCHANGED <<now, entries, tenants, issued, minted, signed>>
      BY <1>2 DEF Bind, Return, history, Idle, CallStates
    <2> HIDE DEF e
    <2>5. TypeOK'
      BY <1>0, <2>3, <2>4 DEF TypeOK
    <2>6. /\ sessions'[s] = e /\ \A k \in Sessions \ {s} : sessions'[k] = sessions[k]
          /\ calls'[c].pc = "idle" /\ \A d \in Calls \ {c} : calls'[d] = calls[d]
      BY <1>0, <2>1, <2>4 DEF TypeOK, Idle
    <2>7. NonceInOnePlace'
      BY SMT, <2>4, <2>6 DEF AuthInv, NonceInOnePlace, Redeems, MintedFrom
    <2>8. OneBearerPerNonce' /\ MintedForSigner' /\ TenantsAreMinted'
      BY <2>4 DEF AuthInv, OneBearerPerNonce, MintedForSigner, TenantsAreMinted
    <2>9. BoundOnOwnSession'
      BY SMT, <1>0, <2>1, <2>2, <2>3, <2>4, <2>6 DEF BoundOnOwnSession
    <2>10. ASSUME NEW d \in Calls PROVE CallOK(d)'
      BY <1>0, <2>4, <2>6, CallFrame, IdleCall
    <2> QED BY <2>5, <2>7, <2>8, <2>9, <2>10 DEF AuthInv
  <1> QED BY <1>1, <1>2

\* What does not depend on the clock and the signatures.
LEMMA SamePlaces ==
  ASSUME NonceInOnePlace, OneBearerPerNonce, TenantsAreMinted, BoundOnOwnSession,
         UNCHANGED <<entries, tenants, sessions, calls, issued, minted>>
  PROVE  NonceInOnePlace' /\ OneBearerPerNonce' /\ TenantsAreMinted' /\ BoundOnOwnSession'
  <1>1. NonceInOnePlace'
    BY DEF NonceInOnePlace, Redeems, MintedFrom
  <1>2. OneBearerPerNonce' /\ TenantsAreMinted' /\ BoundOnOwnSession'
    BY DEF OneBearerPerNonce, TenantsAreMinted, BoundOnOwnSession
  <1> QED BY <1>1, <1>2

\* The world outside the calls: a wallet signs, time passes, the process restarts.
LEMMA WorldStep ==
  ASSUME AuthInv,
         \/ \E w \in Owners, n \in Nonces : SignChallenge(w, n)
         \/ Tick \/ Restart \/ UNCHANGED vars
  PROVE  AuthInv'
  <1>0. TypeOK /\ \A d \in Calls : CallOK(d)
    BY DEF AuthInv
  <1>1. ASSUME NEW w \in Owners, NEW n \in Nonces, SignChallenge(w, n) PROVE AuthInv'
    <2>1. /\ UNCHANGED <<now, entries, tenants, sessions, calls, issued, minted>>
          /\ signed \subseteq signed'
      BY <1>1 DEF SignChallenge, stores
    <2>2. TypeOK'
      BY SMT, <1>0, <1>1, <2>1 DEF TypeOK, SignChallenge
    <2>3. NonceInOnePlace' /\ OneBearerPerNonce' /\ TenantsAreMinted' /\ BoundOnOwnSession'
      BY <2>1, SamePlaces DEF AuthInv
    <2>4. MintedForSigner' /\ \A d \in Calls : CallOK(d)'
      BY <2>1 DEF AuthInv, MintedForSigner, CallOK
    <2> QED BY <2>2, <2>3, <2>4 DEF AuthInv
  <1>2. CASE Tick
    <2>1. /\ UNCHANGED <<entries, tenants, sessions, calls, issued, minted, signed>>
          /\ now \in Nat /\ now' = now + 1
      BY <1>0, <1>2 DEF Tick, stores, history, TypeOK
    <2>2. TypeOK'
      BY SMT, <1>0, <2>1 DEF TypeOK
    <2>3. NonceInOnePlace' /\ OneBearerPerNonce' /\ TenantsAreMinted' /\ BoundOnOwnSession'
      BY <2>1, SamePlaces DEF AuthInv
    <2>4. ASSUME NEW d \in Calls PROVE CallOK(d)'
      BY <1>0, <2>1, CallFrame
    <2>5. MintedForSigner'
      <3>1. ASSUME NEW b \in Bearers, minted[b] # None PROVE minted[b].at <= now'
        <4>1. minted[b].at \in Nat /\ minted[b].at <= now
          BY <1>0, <3>1, StoreFields DEF AuthInv, MintedForSigner
        <4> QED BY SMT, <2>1, <4>1
      <3> QED BY <2>1, <3>1 DEF AuthInv, MintedForSigner
    <2> QED BY <2>2, <2>3, <2>4, <2>5 DEF AuthInv
  <1>3. CASE Restart
    <2>1. /\ \A n \in Nonces : entries'[n] = None
          /\ \A b \in Bearers : tenants'[b] = None
          /\ \A s \in Sessions : sessions'[s] = None
          /\ \A d \in Calls : calls'[d].pc = "idle"
          /\ UNCHANGED <<now, issued, signed>>
      BY <1>3 DEF Restart, Absent, Idle
    <2>2. ASSUME NEW b \in Bearers
          PROVE  /\ minted[b] = None => minted'[b] = None
                 /\ minted[b] # None =>
                      /\ minted'[b] \in Mintings
                      /\ minted'[b].nonce = minted[b].nonce
                      /\ minted'[b].owner = minted[b].owner
                      /\ minted'[b].at = minted[b].at
                      /\ minted'[b].consumed = minted[b].consumed
      BY <1>0, <1>3, StoreFields DEF Restart, Mintings
    <2>3. minted' \in [Bearers -> Mintings \cup {None}]
      <3>1. minted' = [b \in Bearers |-> minted'[b]]
        BY <1>3 DEF Restart
      <3> QED BY <2>2, <3>1
    <2>4. TypeOK'
      <3>1. /\ entries' \in [Nonces -> Challenges \cup {None}]
            /\ tenants' \in [Bearers -> Challenges \cup {None}]
            /\ sessions' \in [Sessions -> Bindings \cup {None}]
        BY <1>3 DEF Restart, Absent
      <3>2. Idle \in CallStates
        BY DEF Idle, CallStates
      <3>3. calls' \in [Calls -> CallStates]
        BY <1>3, <3>2 DEF Restart
      <3> QED BY <1>0, <2>1, <2>3, <3>1, <3>3 DEF TypeOK
    <2>5. NonceInOnePlace' /\ TenantsAreMinted' /\ BoundOnOwnSession'
      BY <2>1 DEF NonceInOnePlace, Redeems, TenantsAreMinted, BoundOnOwnSession
    <2>6. OneBearerPerNonce'
      BY SMT, <2>2 DEF AuthInv, OneBearerPerNonce
    <2>7. MintedForSigner'
      <3>1. ASSUME NEW b \in Bearers, minted'[b] # None
            PROVE  LET m == minted'[b]
                   IN  /\ issued'[m.nonce] # None /\ issued'[m.nonce].owner = m.owner
                       /\ m.consumed < issued'[m.nonce].expires
                       /\ <<m.owner, m.nonce>> \in signed'
                       /\ m.at <= now'
        <4>1. /\ minted[b] # None
              /\ minted'[b].nonce = minted[b].nonce /\ minted'[b].owner = minted[b].owner
              /\ minted'[b].at = minted[b].at /\ minted'[b].consumed = minted[b].consumed
          BY <2>2, <3>1
        <4> QED BY <2>1, <4>1 DEF AuthInv, MintedForSigner
      <3> QED BY <3>1 DEF MintedForSigner
    <2>8. \A d \in Calls : CallOK(d)'
      BY <2>1 DEF CallOK
    <2> QED BY <2>4, <2>5, <2>6, <2>7, <2>8 DEF AuthInv
  <1>4. CASE UNCHANGED vars
    <2>1. UNCHANGED <<now, entries, tenants, sessions, calls, issued, minted, signed>>
      BY <1>4 DEF vars
    <2>2. TypeOK' /\ MintedForSigner'
      BY <2>1 DEF AuthInv, TypeOK, MintedForSigner
    <2>3. NonceInOnePlace' /\ OneBearerPerNonce' /\ TenantsAreMinted' /\ BoundOnOwnSession'
      BY <2>1, SamePlaces DEF AuthInv
    <2>4. ASSUME NEW d \in Calls PROVE CallOK(d)'
      BY <1>0, <2>1, CallFrame
    <2> QED BY <2>2, <2>3, <2>4 DEF AuthInv
  <1> QED BY <1>1, <1>2, <1>3, <1>4
-----------------------------------------------------------------------------
LEMMA InitAuthInv == Init => AuthInv
  <1> SUFFICES ASSUME Init PROVE AuthInv
    OBVIOUS
  <1>1. /\ \A n \in Nonces : entries[n] = None
        /\ \A b \in Bearers : minted[b] = None /\ tenants[b] = None
        /\ \A s \in Sessions : sessions[s] = None
        /\ \A c \in Calls : calls[c].pc = "idle"
    BY DEF Init, Absent, Idle
  <1>2. TypeOK
    <2>1. Idle \in CallStates
      BY DEF Idle, CallStates
    <2> QED BY <2>1 DEF Init, TypeOK, Absent
  <1>3. /\ NonceInOnePlace /\ OneBearerPerNonce /\ MintedForSigner
        /\ TenantsAreMinted /\ BoundOnOwnSession
    BY <1>1 DEF NonceInOnePlace, Redeems, OneBearerPerNonce, MintedForSigner,
                TenantsAreMinted, BoundOnOwnSession
  <1>4. \A c \in Calls : CallOK(c)
    BY <1>1 DEF CallOK
  <1> QED BY <1>2, <1>3, <1>4 DEF AuthInv

LEMMA NextAuthInv == AuthInv /\ [Next]_vars => AuthInv'
  <1> SUFFICES ASSUME AuthInv, [Next]_vars PROVE AuthInv'
    OBVIOUS
  <1>1. ASSUME NEW c \in Calls, Step(c) PROVE AuthInv'
    <2>1. CASE Mismatch(c)
      BY <2>1, ReturnStep DEF Mismatch, stores, history
    <2> QED BY <1>1, <2>1, IssueStep, ConsumeStep, MintStep, BindStep, LookupStep DEF Step
  <1> QED BY <1>1, MakeStep, WorldStep DEF Next

(***************************************************************************)
(* The inductive invariant holds throughout.                               *)
(***************************************************************************)
THEOREM AuthInvariant == Spec => []AuthInv
  BY InitAuthInv, NextAuthInv, PTL DEF Spec

(***************************************************************************)
(* Whatever auth_verify calls race for a nonce, one bearer at most is      *)
(* minted from it (NonceStore.Consume).                                    *)
(***************************************************************************)
THEOREM NonceIsSingleUse == Spec => []OneBearerPerNonce
  <1>1. AuthInv => OneBearerPerNonce
    BY DEF AuthInv
  <1> QED BY <1>1, AuthInvariant, PTL

(***************************************************************************)
(* A tool runs only for the wallet that signed the challenge its bearer    *)
(* was minted for, however the lookups of the middleware and of authorize  *)
(* interleave with expiry, other calls and restarts.                       *)
(***************************************************************************)
THEOREM ToolsRunForTheSigner == Spec => []RunsForSigner
  <1>1. AuthInv => RunsForSigner
    <2> SUFFICES ASSUME AuthInv, NEW c \in Calls, calls[c].pc = "run"
                 PROVE  LET m == minted[calls[c].bearer]
                        IN  /\ m # None
                            /\ m.alive
                            /\ m.owner = calls[c].owner
                            /\ <<m.owner, m.nonce>> \in signed
                            /\ issued[m.nonce].owner = m.owner
                            /\ m.consumed < issued[m.nonce].expires
                            /\ calls[c].at < m.at + BearerTTL
      BY DEF RunsForSigner
    <2>1. TypeOK /\ CallOK(c) /\ MintedForSigner
      BY DEF AuthInv
    <2>2. calls[c].bearer \in Bearers
      BY <2>1, CallFields
    <2> QED BY <2>1, <2>2 DEF CallOK, MintedForSigner
  <1> QED BY <1>1, AuthInvariant, PTL

(***************************************************************************)
(* A call that is let through by its session id runs on a bearer that was  *)
(* minted on that session (SessionBearers).                                *)
(***************************************************************************)
THEOREM SessionsDoNotLeak == Spec => []SessionsAreIsolated
  <1>1. AuthInv => SessionsAreIsolated
    BY DEF AuthInv, SessionsAreIsolated, CallOK
  <1> QED BY <1>1, AuthInvariant, PTL

(***************************************************************************)
(* A session's binding never ends before the bearer it is bound to.        *)
(***************************************************************************)
THEOREM BindingsOutliveBearers == Spec => []SessionOutlivesBearer
  <1>1. AuthInv => SessionOutlivesBearer
    <2> SUFFICES ASSUME AuthInv, NEW s \in Sessions,
                        sessions[s] # None, Live(tenants[sessions[s].bearer])
                 PROVE  Live(sessions[s])
      BY DEF SessionOutlivesBearer
    <2>1. TypeOK /\ TenantsAreMinted /\ BoundOnOwnSession
      BY DEF AuthInv
    <2>2. /\ sessions[s].bearer \in Bearers /\ sessions[s].expires \in Nat
          /\ now \in Nat
      BY <2>1, StoreFields DEF TypeOK
    <2>3. now < tenants[sessions[s].bearer].expires
          /\ tenants[sessions[s].bearer].expires <= sessions[s].expires
          /\ tenants[sessions[s].bearer].expires \in Nat
      BY <2>1, <2>2, StoreFields DEF Live, TenantsAreMinted, BoundOnOwnSession
    <2> QED BY SMT, <2>2, <2>3 DEF Live
  <1> QED BY <1>1, AuthInvariant, PTL
=============================================================================
