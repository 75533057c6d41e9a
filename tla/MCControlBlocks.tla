---------------------------- MODULE MCControlBlocks ----------------------------
(***************************************************************************)
(* Two orders of one action each, and three control instant actions of     *)
(* any type at any time.                                                   *)
(***************************************************************************)
EXTENDS ControlBlocks, TLC

CONSTANTS drive, lift

MCAction     == {drive, lift}
MCBlockingOf == (drive :> "NONE") @@ (lift :> "NONE")
MCIdRank     == (drive :> 1) @@ (lift :> 2)
MCOrders     == << {drive}, {lift} >>
=============================================================================
