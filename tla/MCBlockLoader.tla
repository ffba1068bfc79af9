---------------------------- MODULE MCBlockLoader ----------------------------
(***************************************************************************)
(* TLC instance of BlockLoader under the history of use of BlockRecency.   *)
(***************************************************************************)
EXTENDS BlockRecency, TLC
=============================================================================
