----------------------------- MODULE MCSreDrain -----------------------------
(* Small instances of SreDrain for TLC.                                    *)
EXTENDS SreDrain, TLC

=============================================================================
