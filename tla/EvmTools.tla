------------------------------ MODULE EvmTools ------------------------------
(***************************************************************************)
(* The tools that build EVM transactions (lib/mcp/tools/erc.go, swap.go    *)
(* and bridge.go over builder/erc.go, uniswap.go, bridge.go and evm.go),   *)
(* the signing of their payloads (signer.SignEVM), their broadcast and the *)
(* status query (tools/evm.go).                                            *)
(*                                                                         *)
(* A handler is a series of JSON-RPC reads: allowance, quote, pending      *)
(* nonce, gas estimate.  The chains move between any two of them, and a    *)
(* payload waits for its signature as long as the agent likes.  job is the *)
(* build in progress ({} for none), hint the last "approve first" answer,  *)
(* failed the last build whose gas estimate said that the call reverts.    *)
(* The field pays of a bridge call is the source token that the caller     *)
(* means; only the properties read it.                                     *)
(* The caps, the idempotency table and the sender check of                 *)
(* broadcast_evm_tx are the subject of Broadcast.                          *)
(***************************************************************************)
EXTENDS Units, BridgeRegistry, EvmChain

CONSTANTS
  Home,              \* the chain id of the home JSON-RPC endpoint
  Foreign,           \* the chain ids of the configured foreign chains
  BridgeAt,          \* the bridge contract of a chain
  WSVP,              \* wrapped SVP
  KnownSwapTokens,   \* symbol -> address
  TokenDecimals,     \* address -> decimals(); Zero for the native coin
  Scenarios,         \* [rows, bridged, agent]: a routes file and an agent
  World,             \* the chains at the start
  Rates,             \* what a pair may pay for a unit
  MaxNonce           \* bound: transactions of the owner on a chain

Chains == {Home} \cup Foreign

VARIABLES
  deps,       \* EVMDeps: routes, and home, the HomeChainID it was wired with
  agent,      \* the calls it may make and, a bound, the payloads it keeps waiting
  evm,        \* chain id -> EvmChain state
  job, hint, failed,
  payloads    \* the payloads the agent holds

evmVars == <<deps, agent, evm, job, hint, failed, payloads>>

DefaultSlippageBps == 50
-----------------------------------------------------------------------------
(* Calldata: the packers of builder/erc.go, uniswap.go and bridge.go.      *)

PackERC20Transfer(token, to, amount) ==
  [op |-> "transfer", to |-> token, dest |-> to, amount |-> amount, value |-> 0]
PackERC20Approve(token, spender, amount) ==
  [op |-> "approve", to |-> token, dest |-> spender, amount |-> amount, value |-> 0]
PackERC20TransferFrom(token, from, to, amount) ==
  [op |-> "transferFrom", to |-> token, from |-> from, dest |-> to, amount |-> amount,
   value |-> 0]
PackERC721Transfer(op, contract, from, to, id) ==
  [op |-> op, to |-> contract, from |-> from, dest |-> to, id |-> id, value |-> 0]
PackERC721Approve(contract, spender, id) ==
  [op |-> "nftApprove", to |-> contract, dest |-> spender, id |-> id, value |-> 0]
PackERC721SetApprovalForAll(contract, operator, approved) ==
  [op |-> "setApprovalForAll", to |-> contract, dest |-> operator, approved |-> approved,
   value |-> 0]

\* Of a native input the amount rides as the value of the transaction.
PackSwap(plan, amount, min) ==
  [op |-> plan.kind, to |-> Router, path |-> plan.path, amount |-> amount, min |-> min,
   dest |-> Owner, value |-> IF plan.kind = "swapExactSVPForTokens" THEN amount ELSE 0]

\* Mutant of PackDeposit: the token released is the one that was locked.
PackDepositSameToken(leg, amount, to) ==
  [op |-> "deposit", to |-> BridgeAt[leg.src], token |-> leg.srcToken, amount |-> amount,
   target |-> leg.target, targetToken |-> leg.srcToken, dest |-> to, value |-> 0]

PackDeposit(leg, amount, to) ==
  [op |-> "deposit", to |-> BridgeAt[leg.src], token |-> leg.srcToken, amount |-> amount,
   target |-> leg.target, targetToken |-> leg.targetToken, dest |-> to, value |-> 0]
PackDepositNative(leg, amount, to) ==
  [op |-> "depositNative", to |-> BridgeAt[leg.src], target |-> leg.target,
   targetToken |-> leg.targetToken, dest |-> to, value |-> amount]
-----------------------------------------------------------------------------
(* EVMAssembler.Assemble: the nonce first, the gas estimate last.          *)

\* Mutant of PendingNonceAt: the nonce of the latest block.
PendingNonceAtLatest(chain) == evm[chain].nonce

PendingNonceAt(chain) == PendingNonce(evm[chain])

\* A handler starts.  floor remembers the nonce as it was, for the call whose
\* "approve first" answer this one follows; quiet is what the next steps of the
\* chain leave of it (Watched).
Begin(in, chain, call, at) ==
  /\ job = {}
  /\ job' = {[in |-> in, chain |-> chain, call |-> call, at |-> at, nonce |-> 0, quoted |-> 0,
              quiet |-> TRUE, floor |-> PendingNonce(evm[chain]),
              for |-> {h.for : h \in {x \in hint : x.follow = in}}]}
  /\ hint' = {} /\ failed' = {}
  /\ UNCHANGED <<deps, agent, evm, payloads>>

ReadNonce ==
  \E j \in job :
    /\ j.at = "nonce"
    /\ job' = {[j EXCEPT !.nonce = PendingNonceAt(j.chain), !.at = "estimate"]}
    /\ UNCHANGED <<deps, agent, evm, hint, failed, payloads>>

\* The node simulates the call on the latest block; a revert is an error.
EstimateGas ==
  \E j \in job :
    /\ j.at = "estimate"
    /\ job' = {}
    /\ IF Executes(evm[j.chain], j.call) # {}
         THEN /\ payloads' = payloads \cup {[in |-> j.in, chain |-> j.chain, nonce |-> j.nonce,
                                             call |-> j.call, quoted |-> j.quoted,
                                             floor |-> j.floor, for |-> j.for]}
              /\ UNCHANGED failed
         ELSE /\ failed' = {[in |-> j.in, quiet |-> j.quiet, allow |-> evm[j.chain].allow]}
              /\ UNCHANGED payloads
    /\ UNCHANGED <<deps, agent, evm, hint>>

\* Any read can fail; the handler answers with an error.
ReadFails ==
  /\ job # {} /\ job' = {}
  /\ UNCHANGED <<deps, agent, evm, hint, failed, payloads>>

AssembleERC(in, chain, call) == Begin(in, chain, call, "nonce")
-----------------------------------------------------------------------------
(* tools/erc.go.                                                           *)

IsAddr(s) == s \in HexAddrs
ERC20Decimals(token) == TokenDecimals[token]

BuildERC20Transfer(in) ==
  LET amount == HumanToBaseUnits(in.amount, ERC20Decimals(in.token))
  IN  /\ IsAddr(in.token) /\ IsAddr(in.to) /\ amount # Bad
      /\ AssembleERC(in, Home, PackERC20Transfer(in.token, in.to, amount))

\* The chain a chain_id argument selects; none when it is not configured.
EvmAssemblerFor(chain) ==
  IF chain \in {0, deps.home} THEN {Home} ELSE Foreign \cap {chain}

BuildERC20Approve(in) ==
  \E chain \in EvmAssemblerFor(in.chain) :
    LET amount == IF in.unlimited THEN MaxUint256
                  ELSE HumanToBaseUnits(in.amount, ERC20Decimals(in.token))
    IN  /\ IsAddr(in.token) /\ IsAddr(in.spender) /\ amount # Bad
        /\ AssembleERC(in, chain, PackERC20Approve(in.token, in.spender, amount))

BuildERC20TransferFrom(in) ==
  LET amount == HumanToBaseUnits(in.amount, ERC20Decimals(in.token))
  IN  /\ IsAddr(in.token) /\ IsAddr(in.from) /\ IsAddr(in.to) /\ amount # Bad
      /\ AssembleERC(in, Home, PackERC20TransferFrom(in.token, in.from, in.to, amount))

ParseTokenID(id) == id >= 0

BuildERC721Transfer(in, op) ==
  /\ IsAddr(in.token) /\ IsAddr(in.from) /\ IsAddr(in.to) /\ ParseTokenID(in.id)
  /\ AssembleERC(in, Home, PackERC721Transfer(op, in.token, in.from, in.to, in.id))
BuildERC721TransferFrom(in) == BuildERC721Transfer(in, "nftTransferFrom")
BuildERC721SafeTransferFrom(in) == BuildERC721Transfer(in, "nftSafeTransferFrom")

BuildERC721Approve(in) ==
  /\ IsAddr(in.token) /\ IsAddr(in.spender) /\ ParseTokenID(in.id)
  /\ AssembleERC(in, Home, PackERC721Approve(in.token, in.spender, in.id))

BuildERC721SetApprovalForAll(in) ==
  /\ IsAddr(in.token) /\ IsAddr(in.operator)
  /\ AssembleERC(in, Home, PackERC721SetApprovalForAll(in.token, in.operator, in.approved))
-----------------------------------------------------------------------------
(* tools/swap.go, all on the home chain.                                   *)

BadToken == "bad token"

\* Zero stands for native SVP.
ParseSwapToken(s) ==
  LET key == ToLower(s)
  IN  IF key \in {"", "native", "svp"} THEN Zero
      ELSE IF key \in DOMAIN KnownSwapTokens THEN KnownSwapTokens[key]
      ELSE IF IsAddr(s) THEN s ELSE BadToken

\* The router's entry point and path; a swap of a token for itself has none.
ResolveSwapPlan(in, out) ==
  IF in = Zero /\ out # Zero THEN {[kind |-> "swapExactSVPForTokens", path |-> <<WSVP, out>>]}
  ELSE IF out = Zero /\ in # Zero THEN {[kind |-> "swapExactTokensForSVP", path |-> <<in, WSVP>>]}
  ELSE IF in # out THEN {[kind |-> "swapExactTokensForTokens", path |-> <<in, out>>]}
  ELSE {}

\* Mutant of ApplySlippage: the tolerance is subtracted twice.
ApplySlippageTwice(out, bps) ==
  IF bps \in 0..(BpsDenom - 1)
    THEN (((out * (BpsDenom - bps)) \div BpsDenom) * (BpsDenom - bps)) \div BpsDenom ELSE Bad

ApplySlippage(out, bps) ==
  IF bps \in 0..(BpsDenom - 1) THEN (out * (BpsDenom - bps)) \div BpsDenom ELSE Bad

Slippage(in) == IF in.bps = 0 THEN DefaultSlippageBps ELSE in.bps

\* The parsed arguments of quote_swap and build_swap.
SwapArgs(in) ==
  LET tokenIn == ParseSwapToken(in.tokenIn)
      tokenOut == ParseSwapToken(in.tokenOut)
  IN  IF BadToken \in {tokenIn, tokenOut} THEN {}
      ELSE {[token |-> tokenIn, plan |-> plan,
             amount |-> HumanToBaseUnits(in.amount, TokenDecimals[tokenIn])] :
              plan \in ResolveSwapPlan(tokenIn, tokenOut)}

\* quoteAmountsOut: the router's getAmountsOut on the path, which reverts
\* when nothing comes out.
QuoteAmountsOut(amount, path) ==
  LET out == AmountsOut(evm[Home], amount, path) IN IF out > 0 THEN out ELSE Bad

\* Mutant of QuoteSwap: the first of the amounts is taken for the output.
QuoteSwapFirst(in) ==
  {a.amount : a \in {x \in SwapArgs(in) : x.amount # Bad}}

QuoteSwap(in) ==
  {QuoteAmountsOut(a.amount, a.plan.path) : a \in {x \in SwapArgs(in) : x.amount # Bad}} \ {Bad}

BuildTokenApproval(in) ==
  LET token == ParseSwapToken(in.token)
      amount == IF in.unlimited THEN MaxUint256
                ELSE HumanToBaseUnits(in.amount, TokenDecimals[token])
  IN  /\ token \notin {BadToken, Zero} /\ amount # Bad
      /\ Begin(in, Home, PackERC20Approve(token, Router, amount), "nonce")

BuildSwap(in) ==
  \E a \in SwapArgs(in) :
    /\ a.amount # Bad
    /\ Begin(in, Home, PackSwap(a.plan, a.amount, 0),
             IF a.token = Zero THEN "quote" ELSE "router allowance")

Answered(follow) ==
  /\ job' = {} /\ hint' = follow
  /\ UNCHANGED <<deps, agent, evm, failed, payloads>>

Continues(j, at) ==
  /\ job' = {[j EXCEPT !.at = at]}
  /\ UNCHANGED <<deps, agent, evm, hint, failed, payloads>>

\* Mutant of CheckAllowance: any allowance will do.
CheckAllowanceAny ==
  \E j \in job :
    /\ j.at = "router allowance"
    /\ LET token == j.call.path[1]
       IN  IF Spends(evm[Home], token, Owner, Router) = 0
             THEN Answered({[for |-> j.in,
                             follow |-> [tool |-> "token_approval", token |-> token,
                                         amount |-> j.in.amount, unlimited |-> FALSE]]})
             ELSE Continues(j, "quote")

\* checkAllowance: short of the amount the agent is told to approve first.
CheckAllowance ==
  \E j \in job :
    /\ j.at = "router allowance"
    /\ LET token == j.call.path[1]
       IN  IF Spends(evm[Home], token, Owner, Router) < j.call.amount
             THEN Answered({[for |-> j.in,
                             follow |-> [tool |-> "token_approval", token |-> token,
                                         amount |-> j.in.amount, unlimited |-> FALSE]]})
             ELSE Continues(j, "quote")

\* The quote, the minimum it allows, and the calldata packed with it.
QuoteBuild ==
  \E j \in job :
    /\ j.at = "quote"
    /\ LET out == QuoteAmountsOut(j.call.amount, j.call.path)
           min == IF out = Bad THEN Bad ELSE ApplySlippage(out, Slippage(j.in))
       IN  IF min > 0
             THEN Continues([j EXCEPT !.call.min = min, !.quoted = out], "nonce")
             ELSE Answered({})
-----------------------------------------------------------------------------
(* tools/bridge.go.                                                        *)

\* requireBridge and the outbound leg: from the home chain.
BridgeLeg(in) ==
  LET dest == ResolveDestChain(deps.routes, in.chain, deps.home)
  IN  IF deps.home = 0 \/ dest = 0 THEN {}
      ELSE Lookup(deps.routes, deps.home, dest, in.token)

\* requireInboundBridge and the inbound leg: from a configured foreign chain.
InboundLeg(in) ==
  LET src == ResolveSourceChain(deps.routes, in.chain, deps.home)
  IN  IF deps.home = 0 \/ src \notin Foreign THEN {}
      ELSE Lookup(deps.routes, src, deps.home, in.token)

BridgeParties(in) == IF in.recipient = "" THEN Owner ELSE in.recipient

\* The amount by the decimals of the route; the native coin needs no allowance.
AssembleBridgeDeposit(in, leg) ==
  LET amount == HumanToBaseUnits(in.amount, leg.decimals)
      to == BridgeParties(in)
  IN  /\ IsAddr(to) /\ amount # Bad
      /\ IF leg.srcToken = Zero
           THEN Begin(in, leg.src, PackDepositNative(leg, amount, to), "nonce")
           ELSE Begin(in, leg.src, PackDeposit(leg, amount, to), "bridge allowance")

BuildBridgeDeposit(in) == \E leg \in BridgeLeg(in) : AssembleBridgeDeposit(in, leg)
BuildBridgeDepositInbound(in) == \E leg \in InboundLeg(in) : AssembleBridgeDeposit(in, leg)

\* Mutant of CheckBridgeAllowance: the hint leaves the chain id out.
CheckBridgeAllowanceHome ==
  \E j \in job :
    /\ j.at = "bridge allowance"
    /\ IF Spends(evm[j.chain], j.call.token, Owner, j.call.to) < j.call.amount
         THEN Answered({[for |-> j.in,
                         follow |-> [tool |-> "erc20_approve", token |-> j.call.token,
                                     spender |-> j.call.to, amount |-> j.in.amount,
                                     unlimited |-> FALSE, chain |-> 0]]})
         ELSE Continues(j, "nonce")

\* checkBridgeAllowance: the arguments for build_erc20_approve, chain included.
CheckBridgeAllowance ==
  \E j \in job :
    /\ j.at = "bridge allowance"
    /\ IF Spends(evm[j.chain], j.call.token, Owner, j.call.to) < j.call.amount
         THEN Answered({[for |-> j.in,
                         follow |-> [tool |-> "erc20_approve", token |-> j.call.token,
                                     spender |-> j.call.to, amount |-> j.in.amount,
                                     unlimited |-> FALSE, chain |-> j.chain]]})
         ELSE Continues(j, "nonce")
-----------------------------------------------------------------------------
(* Signing, broadcast and status (signer.SignEVM, tools/evm.go).           *)

\* of is the payload that was signed, for the properties.
SignEVM(p) == [chain |-> p.chain, nonce |-> p.nonce, call |-> p.call, of |-> p]

\* The chain the server hands a transaction to: a foreign one by its id.
ClientOf(tx) == IF tx.chain \in Foreign THEN tx.chain ELSE Home

\* A refused transaction (its nonce is taken) leaves the payload with the agent.
BroadcastEVMTx ==
  \E p \in payloads :
    LET tx == SignEVM(p)
        c == ClientOf(tx)
    IN  /\ tx.chain = c /\ Takeable(evm[c], tx) /\ PendingNonce(evm[c]) < MaxNonce
        /\ evm' = [evm EXCEPT ![c].pool = @ \cup {tx}]
        /\ payloads' = payloads \ {p}
        /\ UNCHANGED <<deps, agent, job, hint, failed>>

EVMTxStatus(tx, chain) ==
  IF chain \notin {0, deps.home} \cup Foreign THEN "refused"
  ELSE LET c == IF chain \in {0, deps.home} THEN Home ELSE chain
       IN  IF [tx |-> tx, ok |-> TRUE] \in evm[c].fate THEN "success"
           ELSE IF [tx |-> tx, ok |-> FALSE] \in evm[c].fate THEN "failed" ELSE "pending"
-----------------------------------------------------------------------------
(* The chains: transactions are mined, prices move, and the owner's other  *)
(* wallet spends and revokes.  All external.                               *)

SwapOps == {"swapExactTokensForTokens", "swapExactSVPForTokens", "swapExactTokensForSVP"}

\* What a call pays with, and who pulls it.
PaysWith(call) ==
  CASE call.op \in {"transfer", "approve"} -> <<call.to, Owner, call.dest>>
    [] call.op = "transferFrom" -> <<call.to, call.from, Owner>>
    [] call.op = "deposit" -> <<call.token, Owner, call.to>>
    [] call.op \in SwapOps -> <<call.path[1], Owner, Router>>
    [] OTHER -> <<Zero, Owner, Zero>>

\* The build in progress is no longer quiet once the allowance that its call
\* needs is lowered.
Watched ==
  job' = {[j EXCEPT !.quiet = @ /\ LET k == PaysWith(j.call)
                                       old == evm[j.chain].allow
                                   IN  k \in DOMAIN old => evm'[j.chain].allow[k] >= old[k]]
            : j \in job}

\* A swap that waits past its deadline reverts.
Mine ==
  \E c \in Chains, ok \in BOOLEAN :
    \E tx \in evm[c].pool :
      /\ tx.nonce = evm[c].nonce
      /\ ~ok => Executes(evm[c], tx.call) = {} \/ tx.call.op \in SwapOps
      /\ \E d \in Mined(evm[c], tx, ok) : evm' = [evm EXCEPT ![c] = d]
      /\ Watched
      /\ UNCHANGED <<deps, agent, hint, failed, payloads>>

\* The calls in progress on a chain.  The chains move under them: a move that
\* touches none of them would only be another initial world.
InProgress(c) ==
  {j.call : j \in {x \in job \cup payloads : x.chain = c}} \cup {tx.call : tx \in evm[c].pool}

PriceMoves ==
  \E call \in {x \in InProgress(Home) : x.op \in SwapOps}, r \in Rates :
    /\ call.path \in DOMAIN evm[Home].rate
    /\ evm' = [evm EXCEPT ![Home].rate[call.path] = r]
    /\ UNCHANGED <<deps, agent, job, hint, failed, payloads>>

OtherWallet ==
  \E c \in Chains : \E call \in InProgress(c) :
    LET k == PaysWith(call)
    IN  /\ evm[c].pool = {} /\ evm[c].nonce < MaxNonce
        /\ \/ /\ <<k[1], k[2]>> \in DOMAIN evm[c].bal
              /\ evm' = [evm EXCEPT ![c].bal[<<k[1], k[2]>>] = 0, ![c].nonce = @ + 1]
           \/ /\ k \in DOMAIN evm[c].allow
              /\ evm' = [evm EXCEPT ![c].allow[k] = 0, ![c].nonce = @ + 1]
        /\ Watched
        /\ UNCHANGED <<deps, agent, hint, failed, payloads>>
-----------------------------------------------------------------------------
EvmInit ==
  \E s \in Scenarios :
    LET routes == LoadRegistry(s.rows)
    IN  /\ s.bridged => routes # NoRegistry
        /\ deps = IF s.bridged THEN [routes |-> routes, home |-> Home]
                  ELSE [routes |-> NoRegistry, home |-> 0]
        /\ agent = s.agent
        /\ evm = World
        /\ job = {} /\ hint = {} /\ failed = {} /\ payloads = {}

\* The calls of a tool, following an "approve first" answer included.
AskedFor(tool) ==
  IF Cardinality(payloads) < agent.keeps /\ job = {}
    THEN {in \in agent.calls \cup {h.follow : h \in hint} : in.tool = tool} ELSE {}

EvmNext ==
  \/ \E in \in AskedFor("erc20_transfer") : BuildERC20Transfer(in)
  \/ \E in \in AskedFor("erc20_approve") : BuildERC20Approve(in)
  \/ \E in \in AskedFor("erc20_transfer_from") : BuildERC20TransferFrom(in)
  \/ \E in \in AskedFor("erc721_transfer_from") : BuildERC721TransferFrom(in)
  \/ \E in \in AskedFor("erc721_safe_transfer_from") : BuildERC721SafeTransferFrom(in)
  \/ \E in \in AskedFor("erc721_approve") : BuildERC721Approve(in)
  \/ \E in \in AskedFor("erc721_set_approval_for_all") : BuildERC721SetApprovalForAll(in)
  \/ \E in \in AskedFor("token_approval") : BuildTokenApproval(in)
  \/ \E in \in AskedFor("swap") : BuildSwap(in)
  \/ \E in \in AskedFor("bridge_deposit") : BuildBridgeDeposit(in)
  \/ \E in \in AskedFor("bridge_deposit_inbound") : BuildBridgeDepositInbound(in)
  \/ CheckAllowance \/ CheckBridgeAllowance \/ QuoteBuild
  \/ ReadNonce \/ EstimateGas \/ ReadFails
  \/ BroadcastEVMTx \/ Mine \/ PriceMoves \/ OtherWallet
-----------------------------------------------------------------------------
(***************************************************************************)
(* A route file the server starts with names each of its routes without    *)
(* ambiguity: Lookup finds it under its own token address, and under its   *)
(* own symbol in any case (unless that is the reserved word "native"), and *)
(* finds nothing else; and a chain argument is only ever resolved to a     *)
(* chain that some route joins to the home chain in the direction asked.   *)
(***************************************************************************)
RoutesAreFound ==
  LET reg == deps.routes
      queries == {[id |-> r.src] : r \in {reg.routes[i] : i \in DOMAIN reg.routes}}
                   \cup {[name |-> n] : n \in DOMAIN reg.nameToID}
  IN  /\ \A i \in DOMAIN reg.routes :
           LET r == reg.routes[i]
           IN  /\ Lookup(reg, r.src, r.target, r.srcToken) = {r}
               /\ ToLower(r.symbol) # "native" =>
                    \A q \in {r.symbol, ToLower(r.symbol)} : Lookup(reg, r.src, r.target, q) = {r}
      /\ \A q \in queries :
           /\ LET dest == ResolveDestChain(reg, q, Home)
              IN  dest # 0 => \E i \in DOMAIN reg.routes :
                                reg.routes[i].src = Home /\ reg.routes[i].target = dest
           /\ LET src == ResolveSourceChain(reg, q, Home)
              IN  src # 0 => \E i \in DOMAIN reg.routes :
                               reg.routes[i].src = src /\ reg.routes[i].target = Home

(***************************************************************************)
(* A payload's nonce is beyond every transaction that had been accepted    *)
(* when its build began, on the chain it is for: building right after a    *)
(* broadcast never collides with it, whatever the chains do meanwhile      *)
(* (PendingNonceAt, builder/evm.go).                                       *)
(***************************************************************************)
NonceIsFree == \A p \in payloads : p.nonce >= p.floor

(***************************************************************************)
(* Short of allowance the agent is told to approve first; it is never left *)
(* with a gas estimate that reverts for want of one.  When the estimate of *)
(* a swap or a deposit reverts, the allowance covers the amount typed,     *)
(* whatever was mined, spent or repriced since the call came in, unless    *)
(* that allowance itself was spent or revoked in between (checkAllowance,  *)
(* checkBridgeAllowance).                                                  *)
(***************************************************************************)
ApproveFirst ==
  \A f \in {x \in failed : x.quiet} :
    LET token == IF f.in.tool = "swap" THEN ParseSwapToken(f.in.tokenIn) ELSE f.in.pays
        spenders == IF f.in.tool = "swap" THEN {Router} ELSE {BridgeAt[c] : c \in Chains}
    IN  f.in.tool \in {"swap", "bridge_deposit", "bridge_deposit_inbound"} =>
          \A s \in spenders : <<token, Owner, s>> \in DOMAIN f.allow =>
            f.allow[<<token, Owner, s>>] * 10^f.in.amount.d
              >= f.in.amount.n * 10^TokenDecimals[token]

(***************************************************************************)
(* The read-only tools answer what is.  A swap payload, executed on the    *)
(* chain as it is now, pays what quote_swap answers now for the same       *)
(* arguments; and evm_tx_status, asked with the chain id of a transaction, *)
(* tells what became of it.  (A server wired without a bridge does not     *)
(* know its own chain id; there it has to be left out.)                    *)
(***************************************************************************)
AnswersAreTrue ==
  /\ \A p \in {x \in payloads : x.in.tool = "swap"} :
       LET out == ParseSwapToken(p.in.tokenOut)
           c == evm[Home]
       IN  \A d \in Executes(c, p.call) :
             QuoteSwap(p.in) = {d.bal[<<out, Owner>>] - c.bal[<<out, Owner>>]}
  /\ \A c \in Chains :
       LET ask == IF c = Home /\ deps.home = 0 THEN 0 ELSE c
       IN  /\ \A f \in evm[c].fate :
                EVMTxStatus(f.tx, ask) = IF f.ok THEN "success" ELSE "failed"
           /\ \A tx \in evm[c].pool : EVMTxStatus(tx, ask) = "pending"

\* The transactions a step mines with success on a chain.
Succeeds(c) == {f.tx : f \in {x \in evm'[c].fate \ evm[c].fate : x.ok}}

\* By how much a step changes the owner's balance.
Gains(c, token) == evm'[c].bal[<<token, Owner>>] - evm[c].bal[<<token, Owner>>]

\* amount base units are what was typed.
IsTyped(amount, human, decimals) == amount * 10^human.d = human.n * 10^decimals

(***************************************************************************)
(* A mined swap takes exactly the amount typed and gives at least what     *)
(* was quoted when it was built less the slippage (default 50 bps), to the *)
(* base unit rounded down, however the price moved in between.             *)
(***************************************************************************)
SwapPaysItsFloor ==
  [][\A tx \in Succeeds(Home) :
       LET in == tx.of.in
           tokenIn == ParseSwapToken(in.tokenIn)
           bps == IF in.bps = 0 THEN DefaultSlippageBps ELSE in.bps
       IN  in.tool = "swap" =>
             /\ IsTyped(-Gains(Home, tokenIn), in.amount, TokenDecimals[tokenIn])
             /\ (Gains(Home, ParseSwapToken(in.tokenOut)) + 1) * BpsDenom
                  > tx.of.quoted * (BpsDenom - bps)]_evmVars

(***************************************************************************)
(* A mined bridge deposit is on the source chain of a route that the call  *)
(* named, takes the amount typed from the owner, and is recorded for the   *)
(* other end of that same route: its chain, its token, the recipient asked *)
(* for (the owner by default) and the same amount.                         *)
(***************************************************************************)
DepositReachesTheTwin ==
  [][\A c \in Chains : \A tx \in Succeeds(c) :
       LET in == tx.of.in
           names(q, id, name) == IF "id" \in DOMAIN q THEN q.id = id ELSE ToLower(q.name) = name
       IN  in.tool \in {"bridge_deposit", "bridge_deposit_inbound"} =>
             \E i \in DOMAIN deps.routes.routes :
               LET r == deps.routes.routes[i]
                   paid == -Gains(c, r.srcToken)
               IN  /\ c = r.src /\ in.pays = r.srcToken
                   /\ IF in.tool = "bridge_deposit"
                        THEN c = Home /\ names(in.chain, r.target, r.targetName)
                        ELSE r.target = Home /\ names(in.chain, r.src, r.srcName)
                   /\ IsTyped(paid, in.amount, TokenDecimals[r.srcToken])
                   /\ evm'[c].log = Append(evm[c].log,
                        [target |-> r.target, token |-> r.targetToken, amount |-> paid,
                         to |-> IF in.recipient = "" THEN Owner ELSE in.recipient])]_evmVars

(***************************************************************************)
(* Following an "approve first" answer works: once the approval it asks    *)
(* for is mined, the allowance that stopped the swap or the deposit is     *)
(* there, on the chain where it is needed.                                 *)
(***************************************************************************)
ApprovalUnblocks ==
  [][\A c \in Chains : \A tx \in Succeeds(c) : \A in \in tx.of.for :
       LET token == IF in.tool = "swap" THEN ParseSwapToken(in.tokenIn) ELSE in.pays
           needed == in.amount.n * 10^TokenDecimals[token]
           spender(d) == IF in.tool = "swap" THEN Router ELSE BridgeAt[d]
       IN  \E d \in Chains :
             /\ in.tool # "bridge_deposit_inbound" => d = Home
             /\ in.tool = "bridge_deposit_inbound" => d \in Foreign
             /\ <<token, Owner, spender(d)>> \in DOMAIN evm'[d].allow
             /\ Spends(evm'[d], token, Owner, spender(d)) * 10^in.amount.d >= needed]_evmVars
=============================================================================
