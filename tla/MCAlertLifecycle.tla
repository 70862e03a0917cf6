-------------------------- MODULE MCAlertLifecycle --------------------------
(***************************************************************************)
(* AlertLifecycle for TLC.  Destinations and label sets are only compared  *)
(* for equality, so their permutations are symmetries.                     *)
(***************************************************************************)
EXTENDS AlertLifecycle, TLC

Symmetry == Permutations(Targets) \cup Permutations(LabelSets)
=============================================================================
