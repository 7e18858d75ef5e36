------------------------- MODULE MCCheckpointManager -------------------------
(* Instances of CheckpointManager for TLC. *)
EXTENDS CheckpointManager

\* Epochs of different lengths, as Summit's getEpochBounds reports them:
\* 0..2, 3..4, 5..6, 7..9.
MCHeights == <<2, 4, 6, 9>>
MCLastHeight == [e \in 0..MaxEpoch |-> MCHeights[e + 1]]

\* Downloads are not part of this module, so no task is needed.
MCTasks == {}
=============================================================================
