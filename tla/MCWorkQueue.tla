----------------------------- MODULE MCWorkQueue -----------------------------
(* Two items that may share a key, two ticks that overtake each other, a   *)
(* resolve() that a replay can overtake.                                    *)
EXTENDS WorkQueue, TLC

Symmetry == Permutations(Items) \cup Permutations(Workers)
=============================================================================
