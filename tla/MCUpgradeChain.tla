---------------------------- MODULE MCUpgradeChain ----------------------------
(***************************************************************************)
(* Instances of UpgradeChain.                                              *)
(***************************************************************************)
EXTENDS UpgradeChain
==============================================================================
