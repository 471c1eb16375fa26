------------------------------- MODULE MCEvm --------------------------------
(***************************************************************************)
(* The EVM tools on a home chain and one foreign chain, each scenario with *)
(* an agent that asks for one family of transactions; the registry on a    *)
(* family of routes files; and the lending tools on small accounts.        *)
(***************************************************************************)
EXTENDS EvmTools, LendoraTools

LOCAL INSTANCE TLC

MCHexAddrs == {"0x0", "0xme", "0xpeer", "0xusdc", "0xweth", "0xwsvp", "0xfusdc", "0xnft",
               "0xrouter", "0xbridge", "0xfbridge"}
MCFolded == "USDC" :> "usdc" @@ "SVP" :> "svp" @@ "ETH" :> "eth"
MCBridgeAt == 7 :> "0xbridge" @@ 3 :> "0xfbridge"
MCKnown == "usdv" :> "0xweth"
MCDecimals == "0x0" :> 1 @@ "0xusdc" :> 1 @@ "0xweth" :> 0 @@ "0xwsvp" :> 1 @@ "0xfusdc" :> 1

Human(n, d) == [n |-> n, d |-> d]

Row(src, target, srcToken, targetToken, symbol, decimals) ==
  LET name(id) == CASE id = 7 -> "svp" [] id = 3 -> "sepolia" [] OTHER -> ""
  IN  [src |-> src, srcName |-> name(src), target |-> target, targetName |-> name(target),
       srcToken |-> srcToken, targetToken |-> targetToken, symbol |-> symbol,
       decimals |-> decimals]

Rows == <<Row(7, 3, "0x0", "0xwsvp", "SVP", 1), Row(7, 3, "0xusdc", "0xfusdc", "USDC", 1),
          Row(3, 7, "0xfusdc", "0xusdc", "USDC", 1), Row(3, 7, "0x0", "0xweth", "ETH", 1),
          Row(5, 7, "0xfusdc", "0xusdc", "USDC", 1)>>

SmallRows == {Row(7, 3, token, "0xfusdc", symbol, 1) :
                token \in {"0x0", "0xusdc", "junk"}, symbol \in {"USDC", "usdc", "native", ""}}
               \cup {Row(3, 7, "0xusdc", "0x0", "USDC", 78), Row(0, 7, "0x0", "0x0", "ETH", 1)}
RouteFiles == {<<>>} \cup {<<r>> : r \in SmallRows} \cup {<<r, s>> : r, s \in SmallRows}

Swap(in, out, amount, bps) ==
  [tool |-> "swap", tokenIn |-> in, tokenOut |-> out, amount |-> amount, bps |-> bps]
Deposit(tool, chain, token, pays, amount, recipient) ==
  [tool |-> tool, chain |-> chain, token |-> token, pays |-> pays, amount |-> amount,
   recipient |-> recipient]
Approve(chain, token, spender, amount, unlimited) ==
  [tool |-> "erc20_approve", chain |-> chain, token |-> token, spender |-> spender,
   amount |-> amount, unlimited |-> unlimited]

SwapCalls ==
  {{Swap("0xusdc", "", Human(2, 0), 0),
    [tool |-> "token_approval", token |-> "0xusdc", amount |-> Human(5, 1), unlimited |-> TRUE]},
   {Swap("native", "usdv", Human(15, 1), 5000), Swap("usdv", "0xusdc", Human(3, 0), 50)},
   {Swap("svp", "0x0", Human(1, 0), 0), Swap("junk", "svp", Human(1, 0), 0),
    Swap("0xusdc", "svp", Human(15, 2), 0), Swap("SVP", "0xusdc", Human(1, 1), 10000)}}
BridgeCalls ==
  {{Deposit("bridge_deposit", [name |-> "sepolia"], "usdc", "0xusdc", Human(2, 0), ""),
    Deposit("bridge_deposit", [id |-> 3], "", "0x0", Human(5, 1), "0xpeer")},
   {Deposit("bridge_deposit_inbound", [id |-> 3], "0xfusdc", "0xfusdc", Human(2, 0), ""),
    Deposit("bridge_deposit_inbound", [name |-> "sepolia"], "ETH", "0x0", Human(1, 0), "0xpeer")},
   {Deposit("bridge_deposit_inbound", [id |-> 5], "USDC", "0xfusdc", Human(1, 0), ""),
    Deposit("bridge_deposit", [id |-> 7], "USDC", "0xusdc", Human(1, 0), ""),
    Deposit("bridge_deposit", [name |-> "base"], "USDC", "0xusdc", Human(1, 0), ""),
    Approve(3, "0xfusdc", "0xfbridge", Human(1, 0), TRUE)}}
TokenCalls ==
  {{[tool |-> "erc20_transfer", token |-> "0xusdc", to |-> "0xpeer", amount |-> Human(15, 1)],
    [tool |-> "erc20_transfer_from", token |-> "0xusdc", from |-> "0xpeer", to |-> "0xme",
     amount |-> Human(1, 0)]},
   {[tool |-> t, token |-> "0xnft", from |-> "0xme", to |-> "0xpeer", id |-> 1] :
      t \in {"erc721_transfer_from", "erc721_safe_transfer_from"}},
   {[tool |-> "erc721_approve", token |-> "0xnft", spender |-> "0xpeer", id |-> 1],
    [tool |-> "erc721_approve", token |-> "0xnft", spender |-> "0xpeer", id |-> -1],
    [tool |-> "erc721_set_approval_for_all", token |-> "0xnft", operator |-> "0xpeer",
     approved |-> TRUE]}}
UnbridgedCalls == {Approve(c, "0xusdc", "0xpeer", Human(1, 0), FALSE) : c \in {0, 7}}

Agents(keeps, families) == [calls : families, keeps : {keeps}]

MCScenarios ==
  {[rows |-> Rows, bridged |-> TRUE, agent |-> a] :
     a \in Agents(1, SwapCalls \cup BridgeCalls) \cup Agents(2, TokenCalls)}
    \cup {[rows |-> f, bridged |-> TRUE, agent |-> a] : f \in RouteFiles, a \in Agents(0, {{}})}
    \cup {[rows |-> <<>>, bridged |-> FALSE, agent |-> a] : a \in Agents(1, {UnbridgedCalls, {}})}

Chain(bal, allow, rate) ==
  [nonce |-> 0, pool |-> {}, fate |-> {}, bal |-> bal, allow |-> allow, rate |-> rate,
   nft |-> [id |-> 1, owner |-> "0xme", approved |-> Zero, operators |-> {}], log |-> <<>>]

MCWorld ==
  7 :> Chain([k \in {Zero, "0xusdc", "0xweth"} \X {"0xme"} \cup {<<"0xusdc", "0xpeer">>} |-> 20],
             <<"0xusdc", "0xme", "0xrouter">> :> 15 @@ <<"0xweth", "0xme", "0xrouter">> :> 3
               @@ <<"0xusdc", "0xme", "0xbridge">> :> 0 @@ <<"0xusdc", "0xme", "0xpeer">> :> 0
               @@ <<"0xusdc", "0xpeer", "0xme">> :> 10,
             <<"0xusdc", "0xwsvp">> :> 3 @@ <<"0xwsvp", "0xweth">> :> 3
               @@ <<"0xweth", "0xusdc">> :> 1)
  @@ 3 :> Chain([k \in {Zero, "0xfusdc"} \X {"0xme"} |-> 20],
                <<"0xfusdc", "0xme", "0xfbridge">> :> 5, <<>>)

MCRates == {1, 3}

-----------------------------------------------------------------------------
MCListed == <<"cA", "cB", "cN">>
MCFactor == "cA" :> 3 @@ "cB" :> 2 @@ "cN" :> 2
MCDigits == "cA" :> 1 @@ "cB" :> 0 @@ "cN" :> 0

Holding(tokens, debt, price, allow) ==
  [tokens |-> tokens, debt |-> debt, rate |-> 4, price |-> price, allow |-> allow]
Pool(a, b, n, entered) == [market |-> "cA" :> a @@ "cB" :> b @@ "cN" :> n, entered |-> entered]

Nothing == Holding(0, 0, 4, 0)
Op(tool, market, amount, full, byAddress) ==
  [tool |-> tool, market |-> market, amount |-> amount, full |-> full, byAddress |-> byAddress]
Pools == {Pool(Holding(12, 0, 4, 5), Holding(0, 3, 8, 2), Nothing, {"cA", "cB"}),
          Pool(Holding(10, 0, 4, 0), Holding(4, 0, 8, 4), Nothing, {"cA"}),
          Pool(Holding(9, 0, 4, 0), Holding(1, 4, 8, 9), Holding(10, 0, 4, 0), {"cA", "cB", "cN"})}
LendoraCalls ==
  {Op("supply", "cA", Human(5, 1), FALSE, FALSE), Op("supply", "cB", Human(3, 0), FALSE, FALSE),
   Op("supply", "cN", Human(1, 0), FALSE, FALSE), Op("supply", "cA", Human(55, 2), FALSE, FALSE),
   Op("withdraw", "cA", Human(4, 1), FALSE, FALSE), Op("withdraw", "cA", Omitted, TRUE, FALSE),
   Op("withdraw", "cN", Human(1, 0), TRUE, TRUE), Op("withdraw", "cB", Omitted, FALSE, TRUE),
   Op("borrow", "cB", Human(1, 0), FALSE, FALSE), Op("borrow", "cB", Human(4, 0), FALSE, TRUE),
   Op("borrow", "cN", Human(3, 0), FALSE, FALSE),
   Op("repay", "cB", Human(1, 0), FALSE, FALSE), Op("repay", "cB", Human(9, 0), FALSE, TRUE),
   Op("repay", "cB", Omitted, FALSE, FALSE), Op("repay", "cA", Human(1, 0), TRUE, FALSE),
   Op("enable", "cA", Omitted, FALSE, FALSE), Op("enable", "cB", Omitted, FALSE, TRUE),
   Op("disable", "cA", Omitted, FALSE, FALSE), Op("disable", "cB", Omitted, FALSE, FALSE),
   Op("disable", "cN", Omitted, FALSE, FALSE)}
    \cup [tool : {"assess_risk", "account_summary", "account_positions"}, own : {TRUE}]
    \cup [tool : {"assess_risk"}, own : {FALSE}]

MCAccounts ==
  {[pool |-> p, cached |-> cached, calls |-> {c}] :
     p \in Pools, cached \in {{"cA", "cB", "cN"}, {"cA", "cN"}}, c \in LendoraCalls}
    \cup {[pool |-> Pool(Nothing, Nothing, Nothing, {}), cached |-> {}, calls |-> {}]}
MCPrices == {4, 8}

\* The agent uses the token tools or the lending tools, whose states are apart.
Init == /\ EvmInit
        /\ LendoraInit
        /\ account.calls = {} \/ (agent.calls = {} /\ deps.routes = NoRegistry)
Next == \/ EvmNext /\ UNCHANGED lendoraVars
        \/ LendoraNext /\ UNCHANGED evmVars
Spec == Init /\ [][Next]_<<evmVars, lendoraVars>>
=============================================================================
