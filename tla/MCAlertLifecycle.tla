-------------------------- MODULE MCAlertLifecycle --------------------------
(* Small instances of AlertLifecycle for TLC.                              *)
EXTENDS AlertLifecycle, TLC

MCSymmetry == Permutations(Pod)
=============================================================================
