---------------------------- MODULE MCSummitBundle ----------------------------
(* Instances of SummitBundle for TLC. *)
EXTENDS SummitBundle

CONSTANTS c1, c2    \* two chains

\* The first epoch ends at the same height on both chains, the later ones do not.
MCChains == {c1, c2}
MCLastHeight ==
  [c \in MCChains |-> [e \in 0..MaxEpoch |-> 2 * e + 2 + (IF c = c2 /\ e > 0 THEN 1 ELSE 0)]]
=============================================================================
