---------------------------- MODULE MCCecBridge ----------------------------
(* Small instances of CecBridge for TLC. *)
EXTENDS CecBridge, TLC

\* The posting threads are interchangeable.
Symmetry == Permutations(Posters)
=============================================================================
