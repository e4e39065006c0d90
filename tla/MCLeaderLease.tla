--------------------------- MODULE MCLeaderLease ---------------------------
(* A small instance of LeaderLease for TLC.                                *)
EXTENDS LeaderLease, TLC

=============================================================================
