--------------------------- MODULE SnapshotCatalog ---------------------------
(***************************************************************************)
(* What the checkpoint manager promises to an operator who looks only at   *)
(* the whole snapshots on disk and at the epoch the state file records:    *)
(* snapshots appear one at a time and in epoch order, the state file only  *)
(* ever records an epoch whose snapshot is whole, it never goes back, and  *)
(* only the oldest snapshot, never a recorded one, is retired.             *)
(***************************************************************************)
EXTENDS Integers

CONSTANT Epochs         \* a set of natural numbers

VARIABLES catalog,      \* epochs with a whole snapshot
          recorded      \* the epoch in the state file, or -1

vars == <<catalog, recorded>>

Init == catalog = {} /\ recorded = -1

Publish(e) ==
  /\ \A f \in catalog : f < e
  /\ catalog' = catalog \cup {e}
  /\ UNCHANGED recorded

Record(e) ==
  /\ e \in catalog
  /\ \A f \in catalog : f <= e
  /\ recorded' = e
  /\ UNCHANGED catalog

Retire(e) ==
  /\ e \in catalog
  /\ e < recorded
  /\ \A f \in catalog : e <= f
  /\ catalog' = catalog \ {e}
  /\ UNCHANGED recorded

Next == \E e \in Epochs : Publish(e) \/ Record(e) \/ Retire(e)

Spec == Init /\ [][Next]_vars
=============================================================================
