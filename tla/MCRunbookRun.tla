---------------------------- MODULE MCRunbookRun ----------------------------
(* Small instances of RunbookRun for TLC.                                  *)
EXTENDS RunbookRun, TLC

MCSymmetry == Permutations(Agent) \union Permutations(Operator)
=============================================================================
