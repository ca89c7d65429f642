---------------------------- MODULE MCCycleSync ----------------------------
(***************************************************************************)
(* Instances of CycleSync for TLC.                                         *)
(***************************************************************************)
EXTENDS CycleSync, TLC

HandlerSymmetry == Permutations(Handler)

=============================================================================
