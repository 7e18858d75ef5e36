------------------------- MODULE MCCheckpointerSystem -------------------------
(* Instances of CheckpointerSystem for TLC. *)
EXTENDS CheckpointerSystem

CONSTANTS t1, t2, c1

MCHeights == <<2, 4, 6, 9>>
MCLastHeight == [e \in 0..MaxEpoch |-> MCHeights[e + 1]]

\* One epoch of two blocks, and the others of one.
MCShortHeights == <<1, 2, 3>>
MCShortLastHeight == [e \in 0..MaxEpoch |-> MCShortHeights[e + 1]]
=============================================================================
