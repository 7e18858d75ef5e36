------------------------------ MODULE Schedule ------------------------------
(***************************************************************************)
(* When a completed epoch may be snapshotted, and at which block: the      *)
(* saturating u64 arithmetic of schedule.rs.  Pure operators, no state.    *)
(***************************************************************************)
EXTENDS Integers

CONSTANT MaxU64                      \* 2^64 - 1 in the program

ASSUME MaxU64Assumption == MaxU64 \in Nat

\* u64::saturating_add, saturating_sub and saturating_mul.
SatAdd(a, b) == IF a + b > MaxU64 THEN MaxU64 ELSE a + b
SatSub(a, b) == IF a < b THEN 0 ELSE a - b
SatMul(a, b) == IF a * b > MaxU64 THEN MaxU64 ELSE a * b

\* The epoch a block lies in when every epoch has epochBlocks blocks.
EpochOf(block, epochBlocks) == block \div epochBlocks

-----------------------------------------------------------------------------
\* Plausible mistakes in the schedule, used as mutants of the definitions below.

SummitReadyAtLastBlock(lastHeight, delay) ==
  [ready |-> SatAdd(lastHeight, delay), checkpoint |-> SatSub(lastHeight, 1)]

FixedScheduleOfCompletedEpoch(currentEpoch, epochBlocks, delay) ==
  LET boundary == SatMul(SatSub(currentEpoch, 1), epochBlocks)
  IN  [ready |-> SatAdd(boundary, delay), checkpoint |-> SatSub(boundary, 2)]
-----------------------------------------------------------------------------
\* lastHeight is the last block of the completed epoch; the state Summit
\* certifies is that of the block before it.
SummitSchedule(lastHeight, delay) ==
  [ready      |-> SatAdd(SatAdd(lastHeight, 1), delay),
   checkpoint |-> SatSub(lastHeight, 1)]

\* currentEpoch is the epoch that follows the completed one.
FixedSchedule(currentEpoch, epochBlocks, delay) ==
  LET boundary == SatMul(currentEpoch, epochBlocks)
  IN  [ready |-> SatAdd(boundary, delay), checkpoint |-> SatSub(boundary, 2)]
=============================================================================
