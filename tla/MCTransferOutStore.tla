------------------------- MODULE MCTransferOutStore -------------------------
(***************************************************************************)
(* Instances of TransferOutStore small enough for TLC.                     *)
(***************************************************************************)
EXTENDS TransferOutStore

MCCapValues == {1}
MCAmounts == {0, 1, 2}
=============================================================================
