------------------------------ MODULE MCCaStore ------------------------------
(***************************************************************************)
(* Instances of CaStore: a few commands, one after another or at once.     *)
(* Commands are interchangeable but for what they run, which Init varies.  *)
(***************************************************************************)
EXTENDS CaStore, TLC

Symmetry == Permutations(Processes)
==============================================================================
