----------------------------- MODULE Addresses ------------------------------
(***************************************************************************)
(* The 0x addresses of the EVM tools.                                      *)
(***************************************************************************)
CONSTANTS
  HexAddrs,   \* the strings that are addresses
  Zero        \* the zero address, which stands for a chain's native coin

ASSUME ZeroAssumption == Zero \in HexAddrs
=============================================================================
