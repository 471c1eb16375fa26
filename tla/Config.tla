------------------------------- MODULE Config -------------------------------
(***************************************************************************)
(* cmd/mcp-server/config.go and the wiring decisions of BuildServer        *)
(* (wire.go): which configurations LoadConfig accepts, and which tool      *)
(* families a server built from one has.                                   *)
(*                                                                         *)
(* An address setting is "" (unset), "hex" or "junk" (set, not an          *)
(* address).  The required settings, which nothing else depends on, are    *)
(* one flag.  The routes file is a sequence of <<source, target>> chain    *)
(* ids; it is a file the configuration names, read by BuildServer.         *)
(***************************************************************************)
EXTENDS Naturals, Sequences

Addrs == {"", "hex", "junk"}

ConfigType ==
  [required : BOOLEAN, fee : {"absent", "valid", "invalid"}, rpc : BOOLEAN,
   router : Addrs, wsvp : Addrs, oracle : Addrs, lendora : Addrs,
   bridge : Addrs, routes : STRING, home : Nat,
   foreign : Seq([id : Nat, rpc : BOOLEAN, bridge : Addrs])]

ValidateSwap(c) ==
  \/ c.router = "" /\ c.wsvp = ""
  \/ c.router = "hex" /\ c.wsvp = "hex" /\ c.rpc

ValidateOracle(c) == c.oracle = "" \/ (c.oracle = "hex" /\ c.rpc)

\* Mutant of ValidateLendora: the JSON-RPC endpoint is not asked for.
ValidateLendoraAlone(c) == c.lendora \in {"", "hex"}

ValidateLendora(c) == c.lendora = "" \/ (c.lendora = "hex" /\ c.rpc)

\* The address, the routes path and the source chain id: all or none.
ValidateBridge(c) ==
  \/ c.bridge = "" /\ c.routes = "" /\ c.home = 0
  \/ c.bridge = "hex" /\ c.routes # "" /\ c.home # 0 /\ c.rpc

ValidateForeignChains(c) ==
  c.foreign # <<>> =>
    /\ c.bridge # ""
    /\ \A i \in 1..Len(c.foreign) :
         /\ c.foreign[i].id \notin {0, c.home}
         /\ \A j \in 1..(i - 1) : c.foreign[j].id # c.foreign[i].id
         /\ c.foreign[i].rpc /\ c.foreign[i].bridge = "hex"

\* An absent [fee] section is filled in by applyDefaults before it is validated.
ApplyDefaults(c) == [c EXCEPT !.fee = IF @ = "absent" THEN "valid" ELSE @]

Validate(c) ==
  /\ c.required /\ c.fee = "valid"
  /\ ValidateSwap(c) /\ ValidateOracle(c) /\ ValidateLendora(c)
  /\ ValidateBridge(c) /\ ValidateForeignChains(c)

LoadConfig(c) == Validate(ApplyDefaults(c))
-----------------------------------------------------------------------------
HasSource(file, src) == \E i \in 1..Len(file) : file[i][1] = src

\* ResolveSourceChain of a chain id: not the fixed chain, and a route leads from it.
HasRoute(file, src, target) ==
  src # target /\ \E i \in 1..Len(file) : file[i] = <<src, target>>

\* LoadRegistry and the two start-up guards on the routes file.
RoutesAccepted(c, file) ==
  /\ file # <<>> /\ HasSource(file, c.home)
  /\ \A i \in 1..Len(c.foreign) : HasRoute(file, c.foreign[i].id, c.home)

\* The optional dependencies of the handlers: EVMDeps and the lendora cache.
NoDeps == [evm |-> FALSE, swap |-> FALSE, oracle |-> FALSE, lendora |-> FALSE,
           bridge |-> FALSE, home |-> 0, foreign |-> {}]

Wire(c) ==
  IF ~c.rpc THEN NoDeps
  ELSE [evm |-> TRUE, swap |-> c.router # "", oracle |-> c.oracle # "",
        lendora |-> c.lendora # "", bridge |-> c.bridge # "",
        home |-> IF c.bridge # "" THEN c.home ELSE 0,
        foreign |-> IF c.bridge # ""
                      THEN {c.foreign[i].id : i \in 1..Len(c.foreign)} ELSE {}]
=============================================================================
