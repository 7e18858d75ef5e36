---------------------------- MODULE ScheduleProofs ----------------------------
(***************************************************************************)
(* What the saturating schedule guarantees for every u64 width.            *)
(***************************************************************************)
EXTENDS Schedule, TLAPS

\* The saturating operations stay in 0..MaxU64 and never wrap around.
LEMMA SaturatingTypes ==
  ASSUME NEW a \in Nat, NEW b \in Nat
  PROVE  /\ SatAdd(a, b) \in 0..MaxU64
         /\ SatSub(a, b) \in 0..a
         /\ SatMul(a, b) \in 0..MaxU64
<1>1. a * b \in Nat
  OBVIOUS
<1> QED
  BY <1>1, MaxU64Assumption DEF SatAdd, SatSub, SatMul

\* Division of block numbers by the epoch length: an epoch's blocks are the
\* multiples of its length up to the next one.
LEMMA EpochOfBounds ==
  ASSUME NEW block \in Nat, NEW epochBlocks \in Nat \ {0}
  PROVE  /\ EpochOf(block, epochBlocks) \in Nat
         /\ epochBlocks * EpochOf(block, epochBlocks) <= block
         /\ block < epochBlocks * (EpochOf(block, epochBlocks) + 1)
BY SMT DEF EpochOf

\* The product with an epoch length is strictly monotone.
LEMMA ProductMonotone ==
  ASSUME NEW k \in Nat \ {0}, NEW a \in Nat, NEW b \in Nat, a < b
  PROVE  k * (a + 1) <= k * b
BY SMT

\* A later block is never in an earlier epoch.
LEMMA EpochOfMonotone ==
  ASSUME NEW a \in Nat, NEW b \in Nat, a <= b, NEW epochBlocks \in Nat \ {0}
  PROVE  EpochOf(a, epochBlocks) <= EpochOf(b, epochBlocks)
<1> DEFINE p == EpochOf(a, epochBlocks)
           q == EpochOf(b, epochBlocks)
<1>1. /\ p \in Nat /\ q \in Nat
      /\ epochBlocks * p <= a
      /\ b < epochBlocks * (q + 1)
  BY EpochOfBounds
<1>2. SUFFICES ASSUME q < p
               PROVE  FALSE
  BY <1>1
<1>3. epochBlocks * (q + 1) <= epochBlocks * p
  BY <1>1, <1>2, ProductMonotone
<1>4. epochBlocks * p \in Nat /\ epochBlocks * (q + 1) \in Nat
  BY <1>1
<1> HIDE DEF p, q
<1> QED
  BY <1>1, <1>3, <1>4

\* While the heights fit in a u64 (schedule.rs), an epoch that ends after block 0
\* becomes ready exactly delay + 2 blocks after the block its copy is unwound to,
\* so the copy always reaches past that block and past the end of the epoch.
THEOREM SummitReadyPastCheckpoint ==
  ASSUME NEW lastHeight \in Nat \ {0}, NEW delay \in Nat, lastHeight + 1 + delay <= MaxU64
  PROVE  LET s == SummitSchedule(lastHeight, delay)
         IN  s.ready = lastHeight + 1 + delay /\ s.checkpoint + 2 + delay = s.ready
BY MaxU64Assumption DEF SummitSchedule, SatAdd, SatSub

\* With epochs of equal length the two modes compute the same schedule, also
\* where the arithmetic saturates: an operator can turn Summit on without moving
\* the blocks at which snapshots are taken.
THEOREM SchedulesAgree ==
  ASSUME NEW epochBlocks \in Nat \ {0}, NEW currentEpoch \in Nat \ {0}, NEW delay \in Nat,
         epochBlocks * currentEpoch <= MaxU64
  PROVE  FixedSchedule(currentEpoch, epochBlocks, delay)
           = SummitSchedule(epochBlocks * currentEpoch - 1, delay)
<1> DEFINE boundary == epochBlocks * currentEpoch
<1>1. boundary \in Nat \ {0} /\ currentEpoch * epochBlocks = boundary /\ boundary <= MaxU64
  BY SMT
<1>2. ~(currentEpoch * epochBlocks > MaxU64)
  BY <1>1, MaxU64Assumption, SMT
<1>3. SatMul(currentEpoch, epochBlocks) = currentEpoch * epochBlocks
  BY <1>2, Zenon DEF SatMul
<1>4. SatMul(currentEpoch, epochBlocks) = boundary
  BY <1>1, <1>3, Zenon
<1> HIDE DEF boundary
<1>5. SatAdd(boundary - 1, 1) = boundary /\ SatSub(boundary - 1, 1) = SatSub(boundary, 2)
  BY <1>1, MaxU64Assumption DEF SatAdd, SatSub
<1>6. SummitSchedule(boundary - 1, delay)
        = [ready |-> SatAdd(boundary, delay), checkpoint |-> SatSub(boundary, 2)]
  BY <1>5 DEF SummitSchedule
<1>7. FixedSchedule(currentEpoch, epochBlocks, delay)
        = [ready |-> SatAdd(boundary, delay), checkpoint |-> SatSub(boundary, 2)]
  BY <1>4 DEF FixedSchedule
<1> QED
  BY <1>6, <1>7 DEF boundary
=============================================================================
