------------------------------ MODULE MCServer ------------------------------
(***************************************************************************)
(* Server with two perpetual pairs of one ticker and a spot pair; two      *)
(* lendora markets; configurations that vary one family at a time.         *)
(***************************************************************************)
EXTENDS Server

MCTickerOf == [p \in Perps |-> "BTC-USD"]
MCPerpOf == [c \in Pairs |-> IF c = 3 THEN Spot ELSE "perpBtc"]

Plain == [required |-> TRUE, fee |-> "absent", rpc |-> FALSE, router |-> "", wsvp |-> "",
          oracle |-> "", lendora |-> "", bridge |-> "", routes |-> "", home |-> 0,
          foreign |-> <<>>]
ForeignEntries == [id : 0..2, rpc : BOOLEAN, bridge : {"hex", "junk"}]

MCConfigs ==
  {[Plain EXCEPT !.required = r, !.fee = f] :
     r \in BOOLEAN, f \in {"absent", "valid", "invalid"}}
  \cup {[Plain EXCEPT !.rpc = e, !.router = a, !.wsvp = b, !.oracle = o] :
          e \in BOOLEAN, a \in Addrs, b \in Addrs, o \in Addrs}
  \cup {[Plain EXCEPT !.rpc = e, !.lendora = a, !.oracle = o] :
          e \in BOOLEAN, a \in Addrs, o \in Addrs}
  \cup {[Plain EXCEPT !.rpc = e, !.bridge = a, !.routes = r, !.home = h, !.foreign = f] :
          e \in BOOLEAN, a \in Addrs, r \in {"", "routes.json"}, h \in 0..1,
          f \in {<<>>} \cup {<<x>> : x \in ForeignEntries}}
  \cup {[Plain EXCEPT !.rpc = TRUE, !.bridge = "hex", !.routes = "routes.json", !.home = 1,
                      !.foreign = <<x, y>>] :
          x \in [id : 2..3, rpc : {TRUE}, bridge : {"hex"}],
          y \in [id : 2..3, rpc : {TRUE}, bridge : {"hex"}]}

\* The smallest server, and one with the lendora family.
SmallConfigs == {Plain, [Plain EXCEPT !.rpc = TRUE, !.lendora = "hex", !.oracle = "hex"]}
NoRoutes == {<<>>}

MCRouteFiles ==
  {<<>>, <<<<1, 2>>>>, <<<<1, 2>>, <<2, 1>>>>, <<<<2, 1>>>>, <<<<1, 2>>, <<2, 1>>, <<3, 1>>>>}
=============================================================================
