--------------------- MODULE CheckpointManagerBoundProofs ---------------------
(***************************************************************************)
(* The checkpoint manager without downloads: how far Reth is when a        *)
(* database is copied, and how many directories there may be, published    *)
(* ones and working ones.                                                  *)
(***************************************************************************)
EXTENDS CheckpointManagerProofs, WellFoundedInduction

-----------------------------------------------------------------------------
(* When a database is copied *)

\* From the decision to attempt an epoch to the end of the attempt Reth is where
\* the epoch's schedule wants it.
ReadyInv ==
  pc \in BuildStages \cup {"check", "rmFinal", "rmWork", "rename", "abort"}
    => head >= Ready(target)

\* As long as no block number saturates, a ready epoch is past its end by the
\* delay, and its checkpoint block is the one before its last, in both modes.
LEMMA ReadyIsPastEnd ==
  ASSUME NEW e \in Epochs, NEW h \in 0..MaxBlock, MaxBlock < MaxU64, h >= Ready(e)
  PROVE  h > EpochEnd(e) + DelayBlocks /\ CheckpointBlock(e) = SatSub(EpochEnd(e), 1)
<1>1. /\ e \in Nat /\ h \in Nat /\ MaxBlock \in Nat /\ MaxU64 \in Nat /\ h < MaxU64
      /\ DelayBlocks \in Nat /\ EpochBlocks \in Nat \ {0}
  BY CountsAssumption, EpochBlocksAssumption, MaxU64Assumption DEF Epochs
<1>2. CASE SummitEnabled
  <2>1. LastHeight[e] \in Nat
    BY LastHeightAssumption
  <2>2. h >= SatAdd(SatAdd(LastHeight[e], 1), DelayBlocks)
    BY <1>2 DEF Ready, ScheduleOf, SummitSchedule
  <2>3. h > LastHeight[e] + DelayBlocks
    BY <1>1, <2>1, <2>2 DEF SatAdd
  <2>4. CheckpointBlock(e) = SatSub(LastHeight[e], 1)
    BY <1>2 DEF CheckpointBlock, ScheduleOf, SummitSchedule
  <2> QED
    BY <1>2, <2>3, <2>4 DEF EpochEnd
<1>3. CASE ~SummitEnabled
  <2> DEFINE boundary == EpochBlocks * (e + 1)
  <2>1. boundary \in Nat \ {0} /\ (e + 1) * EpochBlocks = boundary
    <3>1. e + 1 \in Nat \ {0}
      BY <1>1
    <3>2. \A a, b \in Nat \ {0} : a * b \in Nat \ {0} /\ b * a = a * b
      BY SMT
    <3> QED
      BY <1>1, <3>1, <3>2
  <2>2. EpochEnd(e) = boundary - 1
    BY <1>3 DEF EpochEnd
  <2>3. SatMul(e + 1, EpochBlocks) = IF boundary > MaxU64 THEN MaxU64 ELSE boundary
    BY <2>1, Zenon DEF SatMul
  <2> HIDE DEF boundary
  <2>4. h >= SatAdd(SatMul(e + 1, EpochBlocks), DelayBlocks)
    BY <1>3 DEF Ready, ScheduleOf, FixedSchedule
  <2>5. SatMul(e + 1, EpochBlocks) = boundary /\ h >= boundary + DelayBlocks
    BY <1>1, <2>1, <2>3, <2>4 DEF SatAdd
  <2>6. CheckpointBlock(e) = SatSub(boundary, 2)
    BY <1>3, <2>5 DEF CheckpointBlock, ScheduleOf, FixedSchedule
  <2>7. SatSub(boundary, 2) = SatSub(boundary - 1, 1)
    BY <2>1 DEF SatSub
  <2> QED
    BY <1>1, <2>1, <2>2, <2>5, <2>6, <2>7
<1> QED
  BY <1>2, <1>3

LEMMA ReadyStep == IInv /\ ReadyInv /\ [Next]_vars => ReadyInv'
<1> SUFFICES ASSUME IInv, ReadyInv, [Next]_vars
             PROVE  ReadyInv'
  OBVIOUS
<1> USE DEF env, disk, locals, budget
<1> DEFINE Attempt == BuildStages \cup {"check", "rmFinal", "rmWork", "rename", "abort"}
<1>0. \A e : Ready(e)' = Ready(e)
  BY DEF Ready, ScheduleOf
<1>1. CASE StartupHead
  <2>1. target \in Epochs /\ head \in Nat
    BY <1>1 DEF StartupHead, IInv, TypeOK, Targeted
  <2>2. Ready(target) \in Nat
    BY <2>1, ScheduleTypes
  <2> QED
    BY <1>0, <1>1, <2>1, <2>2 DEF StartupHead, Rest, Goto, ReadyInv, BuildStages
<1>2. CASE MonitorDiscover
  <2>1. CASE Rest("idle")
    BY <2>1 DEF Rest, ReadyInv, BuildStages
  <2>2. CASE ~Rest("idle")
    <3>1. /\ pc = "polled" /\ seen >= Ready(Candidate(seen)) /\ target' = Candidate(seen)
          /\ head' = head
      <4>1. /\ pc = "polled" /\ ~(seen < Ready(Candidate(seen)))
            /\ target' = Candidate(seen) /\ head' = head /\ Candidate(seen) # NoEpoch
        BY <1>2, <2>2 DEF MonitorDiscover, NothingToDo
      <4>2. seen \in Nat /\ Candidate(seen) \in Epochs
        BY <4>1, CandidateType DEF IInv, TypeOK
      <4>3. Ready(Candidate(seen)) \in Nat
        BY <4>2, ScheduleTypes
      <4> QED
        BY <4>1, <4>2, <4>3
    <3>2. seen <= head /\ seen \in Nat /\ head \in Nat
      BY <3>1 DEF IInv, OrderInv, TypeOK
    <3>3. Candidate(seen) \in Epochs
      <4>1. Candidate(seen) # NoEpoch
        BY <1>2, <2>2 DEF MonitorDiscover, NothingToDo
      <4> QED
        BY <4>1, CandidateType DEF IInv, TypeOK
    <3>4. Ready(Candidate(seen)) \in Nat
      BY <3>3, ScheduleTypes
    <3> QED
      BY <1>0, <3>1, <3>2, <3>4 DEF ReadyInv
  <2> QED
    BY <2>1, <2>2
<1>3. CASE Environment
  <2>1. head' \in Nat /\ head \in Nat /\ head' >= head /\ UNCHANGED <<pc, target>>
    BY <1>3 DEF Environment, AdvanceHead, SummitCheckpoint, IInv, TypeOK
  <2>2. CASE pc \in Attempt
    <3>1. target \in Epochs
      BY <2>2 DEF IInv, TypeOK, Targeted
    <3>2. Ready(target) \in Nat
      BY <3>1, ScheduleTypes
    <3> QED
      BY <1>0, <2>1, <2>2, <3>2 DEF ReadyInv
  <2> QED
    BY <2>1, <2>2 DEF ReadyInv
<1>4. ASSUME Next, ~(StartupHead \/ MonitorDiscover \/ Environment)
      PROVE  pc' \in Attempt => pc \in Attempt /\ UNCHANGED <<head, target>>
  <2>1. CASE LoadState \/ StartupDiscover \/ StartupDecide \/ StartServer \/ Poll
    BY <2>1 DEF LoadState, StartupDiscover, StartupDecide, StartServer, Poll, Goto, Rest,
                SaveThen, BuildStages
  <2>2. CASE Check \/ RenameSucceeds \/ Abort
    BY <2>2 DEF Check, RenameSucceeds, Abort, Goto, SaveThen, Rest, BuildStages
  <2>3. CASE BuildStep
    BY <2>3 DEF BuildStep, Build, RmWork, Mkdir, CopyDb, CopyStatic, DeleteLock, Unwind,
                Bundle, WriteMetadata, Compress, Prune, WriteManifest, Goto, BuildStages
  <2>4. CASE SaveStep \/ RetentionStep
    BY <2>4 DEF SaveStep, SaveBegin, SaveFinish, RetentionStep, Retain, EvictEntry, EvictDone,
                Goto, Rest, BuildStages, IInv, TypeOK
  <2>5. CASE LoadFails \/ ServerStopped \/ Shutdown \/ Crash
    BY <2>5 DEF LoadFails, ServerStopped, Shutdown, Crash, ProcessDies, Goto, SaveThen, Rest,
                BuildStages
  <2>6. CASE Failure
    BY <2>6 DEF Failure, ToolsMissing, BuildFails, RmWorkFails, SaveFails, StepFails, Goto,
                Rest, BuildStages
  <2> QED
    BY <1>4, <2>1, <2>2, <2>3, <2>4, <2>5, <2>6 DEF Next, Progress, StartupStep, CreateStep
<1>5. CASE UNCHANGED vars
  BY <1>0, <1>5 DEF vars, ReadyInv
<1> QED
  BY <1>0, <1>1, <1>2, <1>3, <1>4, <1>5 DEF ReadyInv

\* A chain whose block numbers stay below u64::MAX is only copied once Reth is past
\* the epoch's end by the delay, although the monitor reads head and epoch at
\* different moments and both move on, and the copy is unwound to the block before
\* the epoch's last.  At u64::MAX itself ready saturates, and the claim is false.
THEOREM CopiesCoverTarget ==
  ASSUME MaxBlock < MaxU64
  PROVE  Spec => []CopyCoversTarget
<1>1. Init => ReadyInv
  BY DEF Init, ReadyInv, BuildStages
<1>2. IInv /\ ReadyInv => CopyCoversTarget
  BY ReadyIsPastEnd DEF ReadyInv, CopyCoversTarget, IInv, TypeOK, Targeted
<1> QED
  BY <1>1, <1>2, ReadyStep, Invariance, PTL DEF Spec
-----------------------------------------------------------------------------
(* How many published directories there are *)

\* Sets of epochs are finite, and counted by natural numbers.
LEMMA EpochSets ==
  ASSUME NEW S \in SUBSET Epochs
  PROVE  IsFiniteSet(S) /\ Cardinality(S) \in Nat /\ S \in SUBSET Nat
<1>1. IsFiniteSet(Epochs)
  BY FS_Interval, CountsAssumption DEF Epochs
<1>2. IsFiniteSet(S)
  BY <1>1, FS_Subset
<1> QED
  BY <1>2, FS_CardinalityType DEF Epochs

LEMMA SmallestOf ==
  ASSUME NEW S \in SUBSET Nat, S # {}
  PROVE  \E m \in S : \A n \in S : m <= n
<1> DEFINE R == {pair \in Nat \X Nat : pair[1] < pair[2]}
<1>1. IsWellFoundedOn(R, Nat)
  BY NatLessThanWellFounded DEF OpToRel
<1>2. PICK m \in S : \A n \in S : ~(<<n, m>> \in R)
  <2> HIDE DEF R
  <2> QED
    BY <1>1, WFMin
<1>3. \A n \in S : ~(n < m)
  BY <1>2
<1> QED
  BY <1>3

\* Without the excess at most max_snapshots directories are left: all but the
\* oldest of them are newer than it, and it is not in excess.
LEMMA ExcessLeavesMax ==
  ASSUME MaxSnapshots \in Nat \ {0}
  PROVE  Cardinality(Present \ Excess) <= MaxSnapshots
<1> DEFINE Kept == Present \ Excess
<1>1. Kept \in SUBSET Epochs /\ Kept \in SUBSET Nat /\ IsFiniteSet(Kept)
      /\ Cardinality(Kept) \in Nat
  BY EpochSets DEF Present
<1>2. CASE Kept = {}
  BY <1>2, FS_EmptySet
<1>3. CASE Kept # {}
  <2>1. PICK oldest \in Kept : \A e \in Kept : oldest <= e
    BY <1>1, <1>3, SmallestOf
  <2>2. Newer(oldest) \in SUBSET Epochs /\ Kept \ {oldest} \in SUBSET Newer(oldest)
    BY <1>1, <2>1 DEF Newer, Present, Epochs
  <2>3. Cardinality(Newer(oldest)) < MaxSnapshots /\ Cardinality(Newer(oldest)) \in Nat
    BY <2>1, <2>2, EpochSets DEF Excess
  <2>4. Cardinality(Kept \ {oldest}) <= Cardinality(Newer(oldest))
    BY <2>2, EpochSets, FS_Subset
  <2>5. Cardinality(Kept \ {oldest}) = Cardinality(Kept) - 1
    BY <1>1, <2>1, FS_RemoveElement
  <2>6. Cardinality(Kept \ {oldest}) \in Nat
    BY <2>2, EpochSets
  <2> DEFINE k == Cardinality(Kept)
             l == Cardinality(Kept \ {oldest})
             m == Cardinality(Newer(oldest))
  <2>7. k \in Nat /\ l \in Nat /\ m \in Nat /\ m < MaxSnapshots /\ l <= m /\ l = k - 1
    BY <1>1, <2>3, <2>4, <2>5, <2>6
  <2>8. k <= MaxSnapshots
    <3> HIDE DEF k, l, m
    <3> QED
      BY <2>7
  <2> QED
    BY <2>8
<1> QED
  BY <1>2, <1>3

\* The snapshot just published has not been through cleanup_old_snapshots yet.
Unretained == pc \in {"retain", "evict"} \/ (pc \in {"save", "saving"} /\ next = "retain")

\* One directory more than the bound only between publishing it and the end of
\* its retention, which leaves max_snapshots of them.
KeptInv ==
  /\ Cardinality(Present) <= MaxSnapshots + faults + crashes + 1
  /\ ~Unretained => Cardinality(Present) <= MaxSnapshots + faults + crashes
  /\ pc = "evict" => Cardinality(Present \ doomed) <= MaxSnapshots

\* Before its retention is over, other steps lead away only at the cost of a failure
\* or a crash.
LEMMA KeptFrame ==
  ASSUME IInv, Next,
         ~(RenameSucceeds \/ SaveFinish \/ Retain \/ EvictEntry \/ EvictDone)
  PROVE  /\ faults' + crashes' >= faults + crashes
         /\ Unretained => Unretained' \/ faults' + crashes' > faults + crashes
<1> USE DEF env, disk, locals, budget
<1>0. faults \in Nat /\ crashes \in Nat
  BY DEF IInv, TypeOK
<1>1. CASE StartupStep \/ Poll \/ MonitorDiscover
  BY <1>0, <1>1 DEF StartupStep, LoadState, StartupDiscover, StartupDecide, StartupHead,
       StartServer, Poll, MonitorDiscover, Goto, Rest, SaveThen, Stopped, Unretained
<1>2. CASE BuildStep
  <2>1. pc \notin {"retain", "evict", "save", "saving"} /\ UNCHANGED budget
    BY <1>2 DEF BuildStep, Build, RmWork, Mkdir, CopyDb, CopyStatic, DeleteLock, Unwind,
         Bundle, WriteMetadata, Compress, Prune, WriteManifest, Goto
  <2> QED
    BY <1>0, <2>1 DEF Unretained
<1>3. CASE Check \/ Abort \/ SaveBegin
  BY <1>0, <1>3 DEF Check, Abort, SaveBegin, Goto, Rest, SaveThen, Unretained
<1>4. CASE LoadFails \/ ServerStopped \/ Shutdown \/ Crash
  BY <1>0, <1>4 DEF LoadFails, ServerStopped, Shutdown, Crash, ProcessDies, Spending, Goto,
       Rest, SaveThen, Stopped, Unretained
<1>5. CASE Failure
  BY <1>0, <1>5 DEF Failure, ToolsMissing, BuildFails, RmWorkFails, SaveFails, StepFails,
       Failing, Goto, Rest, BuildStages, Unretained
<1>6. CASE Environment
  BY <1>0, <1>6 DEF Environment, AdvanceHead, SummitCheckpoint, Unretained
<1> QED
  BY <1>1, <1>2, <1>3, <1>4, <1>5, <1>6
     DEF Next, Progress, CreateStep, SaveStep, RetentionStep

LEMMA KeptStep ==
  ASSUME MaxSnapshots # 0, IInv, KeptInv, [Next]_vars
  PROVE  KeptInv'
<1> USE DEF env, disk, locals, budget
<1> DEFINE n == Cardinality(Present)
<1>0. /\ faults \in Nat /\ crashes \in Nat /\ MaxSnapshots \in Nat \ {0}
      /\ Present \in SUBSET Epochs /\ IsFiniteSet(Present) /\ n \in Nat /\ IInv'
      /\ DOMAIN dirs = Epochs
  BY CountsAssumption, EpochSets, StepInv DEF IInv, TypeOK, Present
<1>1. CASE RenameSucceeds
  <2>1. target \in Epochs /\ Present' = Present \cup {target}
    BY <1>1 DEF RenameSucceeds, IInv, TypeOK, Targeted, Present, BuildInv, StageInv, Intact
  <2>2. n' <= n + 1 /\ n' \in Nat
    <3>1. Cardinality(Present \cup {target}) \in {n, n + 1}
      BY <1>0, FS_AddElement
    <3> QED
      BY <1>0, <2>1, <3>1
  <2>3. ~Unretained /\ Unretained' /\ pc' # "evict" /\ UNCHANGED budget
    BY <1>1 DEF RenameSucceeds, SaveThen, Unretained
  <2> HIDE DEF n
  <2>4. n <= MaxSnapshots + faults + crashes
    BY <2>3 DEF KeptInv, n
  <2>5. n' <= MaxSnapshots + faults' + crashes' + 1
    BY <1>0, <2>2, <2>3, <2>4 DEF n
  <2> QED
    BY <2>3, <2>5 DEF KeptInv, n
<1>2. CASE SaveFinish
  <2>1. Present' = Present /\ Unretained' = Unretained /\ UNCHANGED budget /\ pc' # "evict"
    BY <1>2 DEF SaveFinish, Rest, Present, Unretained, IInv, TypeOK
  <2> QED
    BY <2>1 DEF KeptInv
<1>3. CASE Retain
  <2>1. Present' = Present /\ UNCHANGED budget
    BY <1>3 DEF Retain, Present
  <2>2. Cardinality(Present \ Excess) <= MaxSnapshots
    BY <1>0, ExcessLeavesMax
  <2>3. CASE Excess = {}
    <3>1. pc' = "idle" /\ ~Unretained' /\ Present \ Excess = Present
      BY <1>3, <2>3 DEF Retain, Rest, Unretained
    <3>2. n <= MaxSnapshots
      BY <2>2, <3>1
    <3> HIDE DEF n
    <3>3. n <= MaxSnapshots + faults + crashes /\ n <= MaxSnapshots + faults + crashes + 1
      BY <1>0, <3>2 DEF n
    <3> QED
      BY <2>1, <3>1, <3>3 DEF KeptInv, n
  <2>4. CASE Excess # {}
    BY <1>3, <2>1, <2>2, <2>4 DEF Retain, KeptInv, Unretained
  <2> QED
    BY <2>3, <2>4
<1>4. CASE EvictEntry
  <2>1. PICK e \in OldestDoomed : \E d \in WithoutOneEntry(dirs[e]) :
          dirs' = [dirs EXCEPT ![e] = d]
    BY <1>4 DEF EvictEntry
  <2>2. e \in Epochs /\ e \in Present /\ dirs[e] \in Dirs
    BY <1>4 DEF EvictEntry, OldestDoomed, IInv, TypeOK, PublishInv
  <2>3. \A d \in WithoutOneEntry(dirs[e]) : d.present
    BY <2>2 DEF WithoutOneEntry, Dirs, Present
  <2>4. Present' = Present
    BY <1>0, <2>1, <2>2, <2>3 DEF Present
  <2> QED
    BY <1>4, <2>4 DEF EvictEntry, KeptInv, Unretained
<1>5. CASE EvictDone
  <2>1. PICK e \in doomed :
          /\ dirs' = [dirs EXCEPT ![e] = AbsentDir]
          /\ IF doomed = {e}
               THEN Rest("idle")
               ELSE doomed' = doomed \ {e} /\ UNCHANGED <<pc, seen, target, next>>
    BY <1>5 DEF EvictDone, OldestDoomed
  <2>2. e \in Present /\ Present' = Present \ {e} /\ pc = "evict" /\ UNCHANGED budget
    BY <1>0, <1>5, <2>1 DEF EvictDone, IInv, PublishInv, Present, AbsentDir
  <2>3. n' = n - 1
    BY <1>0, <2>2, FS_RemoveElement
  <2>4. Cardinality(Present \ doomed) <= MaxSnapshots
    BY <2>2 DEF KeptInv
  <2>5. CASE doomed = {e}
    <3>1. pc' = "idle" /\ ~Unretained' /\ Present' = Present \ doomed
      BY <2>1, <2>2, <2>5 DEF Rest, Unretained
    <3>2. n' <= MaxSnapshots
      BY <2>4, <3>1
    <3> HIDE DEF n
    <3>3. n' \in Int
      BY <1>0, <2>3 DEF n
    <3>4. n' <= MaxSnapshots + faults + crashes /\ n' <= MaxSnapshots + faults + crashes + 1
      BY <1>0, <3>2, <3>3
    <3> QED
      BY <2>2, <3>1, <3>4 DEF KeptInv, n
  <2>6. CASE doomed # {e}
    <3>1. Present' \ doomed' = Present \ doomed /\ pc' = pc /\ Unretained' /\ Unretained
      BY <2>1, <2>2, <2>6 DEF Unretained
    <3>2. n <= MaxSnapshots + faults + crashes + 1
      BY <3>1 DEF KeptInv
    <3> HIDE DEF n
    <3>3. n' <= MaxSnapshots + faults + crashes + 1
      BY <1>0, <2>3, <3>2 DEF n
    <3> QED
      BY <2>2, <2>4, <3>1, <3>3 DEF KeptInv, n
  <2> QED
    BY <2>5, <2>6
<1>6. CASE Next /\ ~(RenameSucceeds \/ SaveFinish \/ Retain \/ EvictEntry \/ EvictDone)
  <2>1. Present' = Present
    BY <1>6, DirsFrame, NextSteps DEF Present
  <2>2. /\ faults' + crashes' >= faults + crashes
        /\ Unretained => Unretained' \/ faults' + crashes' > faults + crashes
        /\ pc' = "evict" => pc = "evict" /\ doomed' = doomed
    BY <1>6, KeptFrame, DoomedFrame DEF RetentionStep
  <2>3. faults' \in Nat /\ crashes' \in Nat
    BY <1>0 DEF IInv, TypeOK
  <2>4. /\ n <= MaxSnapshots + faults + crashes + 1
        /\ ~Unretained => n <= MaxSnapshots + faults + crashes
    BY DEF KeptInv
  <2> HIDE DEF n
  <2>5. {n, MaxSnapshots, faults, crashes, faults', crashes'} \subseteq Int
    BY <1>0, <2>3 DEF n
  <2>6. n <= MaxSnapshots + faults' + crashes' + 1
    BY <2>2, <2>4, <2>5
  <2>7. ~Unretained' => n <= MaxSnapshots + faults' + crashes'
    <3>1. CASE Unretained
      BY <2>2, <2>4, <2>5, <3>1
    <3>2. CASE ~Unretained
      BY <2>2, <2>4, <2>5, <3>2
    <3> QED
      BY <3>1, <3>2
  <2> QED
    BY <2>1, <2>2, <2>6, <2>7 DEF KeptInv, n
<1>7. CASE UNCHANGED vars
  BY <1>7 DEF vars, KeptInv, Unretained, Present
<1> QED
  BY <1>1, <1>2, <1>3, <1>4, <1>5, <1>6, <1>7

\* For any max_snapshots, and whatever fails or dies: the directories exceed it
\* only by the one just published, and by one for each failure or crash.
THEOREM RetentionBounded == Spec => []RetentionBound
<1>1. CASE MaxSnapshots = 0
  <2>1. RetentionBound
    BY <1>1 DEF RetentionBound
  <2> QED
    BY <2>1, PTL
<1>2. CASE MaxSnapshots # 0
  <2>1. Init => KeptInv
    <3> SUFFICES ASSUME Init
                 PROVE  KeptInv
      OBVIOUS
    <3>1. Present = {}
      BY DEF Init, Present, AbsentDir
    <3> QED
      BY <3>1, FS_EmptySet, CountsAssumption DEF Init, KeptInv, Unretained
  <2>2. IInv /\ KeptInv /\ [Next]_vars => KeptInv'
    BY <1>2, KeptStep
  <2>3. IInv /\ KeptInv => RetentionBound
    <3> SUFFICES ASSUME IInv, KeptInv
                 PROVE  RetentionBound
      OBVIOUS
    <3>1. /\ faults \in Nat /\ crashes \in Nat /\ MaxSnapshots \in Nat
          /\ Cardinality(Present) \in Nat
      BY CountsAssumption, EpochSets DEF IInv, TypeOK, Present
    <3> QED
      BY <3>1 DEF KeptInv, RetentionBound, Unretained
  <2> QED
    BY <2>1, <2>2, <2>3, Invariance, PTL DEF Spec
<1> QED
  BY <1>1, <1>2
-----------------------------------------------------------------------------
(* How many working directories there are *)

Worked == {e \in Epochs : work[e].present}
Building == BuildStages \cup {"rename", "abort"}

\* Only while an attempt runs may there be one working directory more.
LeftoverInv ==
  /\ Cardinality(Worked \ {target}) <= faults + crashes
  /\ pc \notin Building => Cardinality(Worked) <= faults + crashes

\* A step keeps the invariant when it changes the target's working directory at
\* most, and stays in the attempt, spends a failure or a crash, starts outside of an
\* attempt, or ends one without that directory.
LEMMA LeftoverKept ==
  ASSUME IInv, TypeOK', LeftoverInv,
         Worked' \ {target} = Worked \ {target},
         faults' + crashes' >= faults + crashes,
         \/ pc' \in Building /\ target' = target
         \/ faults' + crashes' > faults + crashes
         \/ pc \notin Building /\ Worked' \subseteq Worked
         \/ target \notin Worked'
  PROVE  LeftoverInv'
<1> DEFINE a == Cardinality(Worked \ {target})
           b == Cardinality(Worked')
           c == Cardinality(Worked' \ {target'})
           s == faults + crashes
           z == faults' + crashes'
<1>1. /\ Worked \in SUBSET Epochs /\ Worked' \in SUBSET Epochs
      /\ IsFiniteSet(Worked) /\ IsFiniteSet(Worked') /\ Cardinality(Worked) \in Nat
      /\ a \in Nat /\ b \in Nat /\ c \in Nat
  <2>1. /\ Worked \in SUBSET Epochs /\ Worked' \in SUBSET Epochs
        /\ Worked \ {target} \in SUBSET Epochs /\ Worked' \ {target'} \in SUBSET Epochs
    BY DEF Worked, Epochs
  <2> QED
    BY <2>1, EpochSets
<1>2. s \in Int /\ z \in Int /\ s <= z
  <2>1. {faults, crashes, faults', crashes'} \subseteq Int
    BY DEF IInv, TypeOK
  <2> QED
    BY <2>1
<1>3. a <= s /\ (pc \notin Building => Cardinality(Worked) <= s)
  BY DEF LeftoverInv
<1>4. c <= b
  BY <1>1, FS_Subset
<1>5. b <= a + 1
  <2>1. Cardinality(Worked' \ {target}) = IF target \in Worked' THEN b - 1 ELSE b
    BY <1>1, FS_RemoveElement
  <2> HIDE DEF b
  <2> QED
    BY <1>1, <2>1
<1>6. CASE pc' \in Building /\ target' = target
  <2>1. c = a
    BY <1>6
  <2>2. c <= z
    <3> HIDE DEF a, c, s, z
    <3> QED
      BY <1>1, <1>2, <1>3, <2>1
  <2> QED
    BY <1>6, <2>2 DEF LeftoverInv
<1>7. CASE z > s
  <2>1. b <= z /\ c <= z
    <3> HIDE DEF a, b, c, s, z
    <3> QED
      BY <1>1, <1>2, <1>3, <1>4, <1>5, <1>7
  <2> QED
    BY <2>1 DEF LeftoverInv
<1>8. CASE pc \notin Building /\ Worked' \subseteq Worked
  <2>1. b <= Cardinality(Worked)
    BY <1>1, <1>8, FS_Subset
  <2>2. b <= z /\ c <= z
    <3> HIDE DEF a, b, c, s, z
    <3> QED
      BY <1>1, <1>2, <1>3, <1>4, <1>8, <2>1
  <2> QED
    BY <2>2 DEF LeftoverInv
<1>9. CASE target \notin Worked'
  <2>1. Worked' = Worked \ {target}
    BY <1>9
  <2>2. b = a
    BY <2>1
  <2>3. b <= z /\ c <= z
    <3> HIDE DEF a, b, c, s, z
    <3> QED
      BY <1>1, <1>2, <1>3, <1>4, <2>2
  <2> QED
    BY <2>3 DEF LeftoverInv
<1> QED
  BY <1>6, <1>7, <1>8, <1>9

\* Of the working directories, steps write that of the target only.
LEMMA WorkedFrame ==
  ASSUME IInv, NEW d, work' = [work EXCEPT ![target] = d]
  PROVE  Worked' \ {target} = Worked \ {target} /\ (~d.present => target \notin Worked')
BY DEF Worked, IInv, TypeOK

LEMMA LeftoverStep == IInv /\ LeftoverInv /\ [Next]_vars => LeftoverInv'
<1> SUFFICES ASSUME IInv, LeftoverInv, [Next]_vars
             PROVE  LeftoverInv'
  OBVIOUS
<1> USE DEF env, disk, locals, budget
<1>0. TypeOK' /\ faults \in Nat /\ crashes \in Nat
  BY StepInv DEF IInv, TypeOK
<1> DEFINE s == faults + crashes
<1>a. s \in Int /\ s' \in Int
  <2>1. s \in Int
    BY <1>0
  <2>2. s' \in Int
    BY <1>0 DEF TypeOK
  <2> QED
    BY <2>1, <2>2
<1>1. CASE BuildStep
  <2>1. /\ pc' \in Building /\ target' = target /\ UNCHANGED budget
        /\ \E d : work' = [work EXCEPT ![target] = d]
    BY <1>1 DEF BuildStep, Build, RmWork, Mkdir, CopyDb, CopyStatic, DeleteLock, Unwind,
         Bundle, WriteMetadata, Compress, Prune, WriteManifest, Goto, Building, BuildStages
  <2>2. Worked' \ {target} = Worked \ {target}
    BY <2>1, WorkedFrame
  <2>3. s' >= s
    BY <1>0, <2>1
  <2> QED
    BY <1>0, <2>1, <2>2, <2>3, LeftoverKept
<1>2. CASE RenameSucceeds \/ Abort
  <2>1. work' = [work EXCEPT ![target] = AbsentDir] /\ UNCHANGED budget
    BY <1>2 DEF RenameSucceeds, Abort
  <2>2. Worked' \ {target} = Worked \ {target} /\ target \notin Worked'
    <3>1. ~AbsentDir.present
      BY DEF AbsentDir
    <3> QED
      BY <2>1, <3>1, WorkedFrame
  <2>3. s' >= s
    BY <1>0, <2>1
  <2> QED
    BY <1>0, <2>2, <2>3, LeftoverKept
<1>3. CASE Failure \/ Crash
  <2>1. faults' + crashes' > faults + crashes
    BY <1>0, <1>3 DEF Failure, ToolsMissing, BuildFails, RmWorkFails, SaveFails, StepFails,
                      Failing, Crash, ProcessDies, Spending
  <2>2. UNCHANGED work \/ \E d : work' = [work EXCEPT ![target] = d]
    BY <1>3 DEF Failure, ToolsMissing, BuildFails, RmWorkFails, SaveFails, StepFails,
                Crash, ProcessDies
  <2>3. Worked' \ {target} = Worked \ {target}
    BY <2>2, WorkedFrame DEF Worked
  <2>4. s' >= s
    <3>1. s' > s
      BY <2>1
    <3> HIDE DEF s
    <3> QED
      BY <1>a, <3>1
  <2> QED
    BY <1>0, <2>1, <2>3, <2>4, LeftoverKept
<1>4. CASE Environment \/ UNCHANGED vars
  BY <1>4 DEF Environment, AdvanceHead, SummitCheckpoint, vars, LeftoverInv, Worked
<1>5. CASE \/ StartupStep \/ Poll \/ MonitorDiscover \/ Check \/ SaveStep \/ RetentionStep
           \/ LoadFails \/ ServerStopped \/ Shutdown
  <2>1. pc \notin Building
    BY <1>5 DEF StartupStep, LoadState, StartupDiscover, StartupDecide, StartupHead,
         StartServer, Poll, MonitorDiscover, Check, SaveStep, SaveBegin, SaveFinish,
         RetentionStep, Retain, EvictEntry, EvictDone, LoadFails, ServerStopped, Shutdown,
         Stopped, Building, BuildStages
  <2>2. UNCHANGED work
    BY <1>5 DEF StartupStep, LoadState, StartupDiscover, StartupDecide, StartupHead,
         StartServer, Poll, MonitorDiscover, Check, SaveStep, SaveBegin, SaveFinish,
         RetentionStep, Retain, EvictEntry, EvictDone, LoadFails, ServerStopped, Shutdown
  <2>3. faults' + crashes' >= faults + crashes
    BY <1>0, <1>5 DEF StartupStep, LoadState, StartupDiscover, StartupDecide, StartupHead,
         StartServer, Poll, MonitorDiscover, Check, SaveStep, SaveBegin, SaveFinish,
         RetentionStep, Retain, EvictEntry, EvictDone, LoadFails, ServerStopped, Shutdown,
         Spending
  <2>4. Worked' = Worked
    BY <2>2 DEF Worked
  <2> QED
    BY <1>0, <2>1, <2>3, <2>4, LeftoverKept
<1> QED
  BY <1>1, <1>2, <1>3, <1>4, <1>5 DEF Next, Progress, CreateStep

\* Each failure or crash leaves at most one working directory behind, for any
\* number of epochs and attempts.
THEOREM LeftoversBounded == Spec => []LeftoverBound
<1>1. Init => LeftoverInv
  <2> SUFFICES ASSUME Init
               PROVE  LeftoverInv
    OBVIOUS
  <2>1. Worked = {} /\ Worked \ {target} = {}
    BY DEF Init, Worked, AbsentDir
  <2>2. faults + crashes = 0
    BY DEF Init
  <2> QED
    BY <2>1, <2>2, FS_EmptySet DEF LeftoverInv
<1>2. LeftoverInv => LeftoverBound
  <2>1. {e \in Epochs \ {target} : work[e].present} = Worked \ {target}
    BY DEF Worked
  <2> QED
    BY <2>1 DEF LeftoverInv, LeftoverBound
<1> QED
  BY <1>1, <1>2, LeftoverStep, Invariance, PTL DEF Spec
=============================================================================
