----------------------------- MODULE MCConsumer -----------------------------
(* Small instances of Consumer for TLC: the third item is twice as heavy,   *)
(* so that the byte budget refuses it while the channel still has room.     *)
EXTENDS Consumer, TLC

CONSTANTS i1, i2, i3

MCSize == (i1 :> 1) @@ (i2 :> 1) @@ (i3 :> 2)
MCSymmetry == Permutations(Producer) \union Permutations(Flusher)
=============================================================================
