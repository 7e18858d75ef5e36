------------------------ MODULE CheckpointManagerProofs ------------------------
(***************************************************************************)
(* The checkpoint manager without downloads: type correctness, the         *)
(* inductive invariant, and what follows from it.  And what it keeps when  *)
(* others write the output directory too: of its own, and of the epochs    *)
(* they keep away from.                                                    *)
(***************************************************************************)
EXTENDS CheckpointManager, ScheduleProofs, FiniteSetTheorems

-----------------------------------------------------------------------------
(* The operators on directories and on the schedule keep to their types. *)

LEMMA FileTypes ==
  /\ NoFile \in Files /\ TornFile \in Files
  /\ \A parts \in SUBSET Parts, mixed \in BOOLEAN : BuiltFile(parts, mixed) \in Files
BY DEF NoFile, TornFile, BuiltFile, Files, Kinds

LEMMA DirTypes ==
  /\ AbsentDir \in Dirs /\ EmptyDir \in Dirs
  /\ \A d \in Dirs :
       /\ Created(d) \in Dirs
       /\ \A p \in SUBSET Parts : [d EXCEPT !.parts = p] \in Dirs
       /\ \A f \in Files : [d EXCEPT !.archive = f] \in Dirs /\ [d EXCEPT !.manifest = f] \in Dirs
       /\ WithoutOneEntry(d) \subseteq Dirs
BY FileTypes DEF AbsentDir, EmptyDir, Created, Dirs, WithoutOneEntry

LEMMA InterruptedType ==
  ASSUME NEW d \in Dirs, NEW stage
  PROVE  Interrupted(stage, d) \subseteq Dirs
<1>1. Remnants(d) \subseteq Dirs
  <2>1. \A gone : Without(d, gone) \in Dirs
    BY FileTypes DEF Without, Dirs
  <2> QED
    BY <2>1 DEF Remnants
<1>2. /\ [d EXCEPT !.archive = TornFile] \in Dirs
      /\ [d EXCEPT !.manifest = TornFile] \in Dirs
  BY FileTypes, DirTypes
<1>3. \A gone : [d EXCEPT !.parts = @ \ gone] \in Dirs
  BY DEF Dirs
<1> QED
  BY <1>1, <1>2, <1>3 DEF Interrupted

LEMMA ScheduleTypes ==
  ASSUME NEW e \in Epochs
  PROVE  Ready(e) \in Nat /\ CheckpointBlock(e) \in Nat
<1>1. e \in Nat /\ DelayBlocks \in Nat /\ EpochBlocks \in Nat /\ MaxU64 \in Nat
  BY CountsAssumption, EpochBlocksAssumption, MaxU64Assumption DEF Epochs
<1>2. LastHeight[e] \in Nat
  BY LastHeightAssumption
<1>3. \A a, b \in Nat : SatAdd(a, b) \in Nat /\ SatSub(a, b) \in Nat /\ SatMul(a, b) \in Nat
  BY SaturatingTypes, MaxU64Assumption
<1>4. SummitSchedule(LastHeight[e], DelayBlocks) \in [ready: Nat, checkpoint: Nat]
  BY <1>1, <1>2, <1>3 DEF SummitSchedule
<1>5. FixedSchedule(e + 1, EpochBlocks, DelayBlocks) \in [ready: Nat, checkpoint: Nat]
  <2>1. SatMul(e + 1, EpochBlocks) \in Nat
    <3>1. e + 1 \in Nat
      BY <1>1
    <3> QED
      BY <1>1, <1>3, <3>1
  <2> QED
    BY <1>1, <1>3, <2>1 DEF FixedSchedule
<1> QED
  BY <1>4, <1>5 DEF Ready, CheckpointBlock, ScheduleOf

\* The bound on blocks keeps every candidate within the bound on epochs.
LEMMA CandidateType ==
  ASSUME NEW h \in 0..MaxBlock, latest \in Epochs \cup {NoEpoch}
  PROVE  Candidate(h) \in Epochs \cup {NoEpoch}
<1> DEFINE q == EpochOf(h, EpochBlocks)
<1>1. h \in Nat /\ EpochBlocks \in Nat \ {0} /\ MaxEpoch \in Nat /\ MaxBlock \in Nat
  BY CountsAssumption, EpochBlocksAssumption
<1>2. q \in Nat /\ EpochBlocks * q <= h
  BY <1>1, EpochOfBounds
<1> HIDE DEF q
<1>3. q <= MaxEpoch + 1
  <2>1. SUFFICES ASSUME MaxEpoch + 1 < q
                 PROVE  FALSE
    BY <1>1, <1>2
  <2>2. EpochBlocks * ((MaxEpoch + 1) + 1) <= EpochBlocks * q
    BY <1>1, <1>2, <2>1, ProductMonotone
  <2>3. EpochBlocks * (MaxEpoch + 2) <= EpochBlocks * q
    <3>1. (MaxEpoch + 1) + 1 = MaxEpoch + 2
      BY <1>1
    <3> QED
      BY <2>2, <3>1
  <2>4. EpochBlocks * q \in Nat /\ EpochBlocks * (MaxEpoch + 2) \in Nat
    BY <1>1, <1>2
  <2> QED
    BY <1>1, <1>2, <2>3, <2>4, MaxBlockAssumption
<1>4. q - 1 \in Epochs \cup {NoEpoch}
  BY <1>1, <1>2, <1>3 DEF Epochs, NoEpoch
<1> QED
  BY <1>4 DEF Candidate, q
-----------------------------------------------------------------------------
(* Type correctness *)

LEMMA InitType == Init => TypeOK
<1> SUFFICES ASSUME Init
             PROVE  TypeOK
  OBVIOUS
<1>1. /\ 0 \in 0..MaxBlock /\ 0 \in 0..MaxFaults /\ 0 \in 0..MaxCrashes
  BY CountsAssumption
<1>2. dirs \in [Epochs -> Dirs] /\ work \in [Epochs -> Dirs]
  BY DirTypes DEF Init
<1>3. NoMark \in Marks
  BY DEF NoMark, Marks
<1>4. "down" \in PCs /\ "down" \notin Targeted
  BY DEF PCs, Stopped, Targeted, BuildStages
<1> QED
  BY <1>1, <1>2, <1>3, <1>4 DEF Init, TypeOK

\* A step of the attempt changes the working directory and the program counter.
LEMMA BuildType ==
  ASSUME TypeOK, NEW d \in Dirs,
         NEW stage \in BuildStages \cup {"rmWork"}, NEW after \in BuildStages \cup {"rename"},
         Build(stage, d, after)
  PROVE  TypeOK'
BY DEF Build, Goto, TypeOK, env, locals, budget, PCs, Targeted, Stopped, BuildStages

LEMMA BuildStepType == TypeOK /\ BuildStep => TypeOK'
<1> SUFFICES ASSUME TypeOK, BuildStep
             PROVE  TypeOK'
  OBVIOUS
<1> DEFINE w == work[target]
<1>1. pc \in BuildStages \cup {"rmWork"}
  BY DEF BuildStep, Build, RmWork, Mkdir, CopyDb, CopyStatic, DeleteLock, Unwind, Bundle,
         WriteMetadata, Compress, Prune, WriteManifest, BuildStages
<1>2. w \in Dirs
  BY <1>1 DEF TypeOK, Targeted, BuildStages
<1>3. w.parts \in SUBSET Parts /\ w.mixed \in BOOLEAN /\ w.archive \in Files
  BY <1>2 DEF Dirs
<1>4. \A new \in SUBSET Parts : Adding(new) \in Dirs
  BY <1>2, <1>3, DirTypes DEF Adding
<1>5. CASE RmWork
  BY <1>5, BuildType, DirTypes DEF RmWork, BuildStages
<1>6. CASE Mkdir
  BY <1>2, <1>6, BuildType, DirTypes DEF Mkdir, BuildStages
<1>7. CASE CopyDb
  BY <1>4, <1>7, BuildType DEF CopyDb, BuildStages, Parts
<1>8. CASE CopyStatic
  <2>1. PICK lock \in SUBSET {"lock"} :
          Build("copyStatic", Adding({"static"} \cup lock), "deleteLock")
    BY <1>8 DEF CopyStatic
  <2>2. Adding({"static"} \cup lock) \in Dirs
    BY <1>4 DEF Parts
  <2> QED
    BY <2>1, <2>2, BuildType DEF BuildStages
<1>9. CASE DeleteLock
  <2>1. [w EXCEPT !.parts = @ \ {"lock"}] \in Dirs
    BY <1>2, <1>3, DirTypes
  <2> QED
    BY <1>9, <2>1, BuildType DEF DeleteLock, BuildStages
<1>10. CASE Unwind
  BY <1>4, <1>10, BuildType DEF Unwind, BuildStages, Parts
<1>11. CASE Bundle
  <2>1. Adding(IF SummitEnabled THEN {"bundle"} ELSE {}) \in Dirs
    BY <1>4 DEF Parts
  <2> QED
    BY <1>11, <2>1, BuildType DEF Bundle, BuildStages
<1>12. CASE WriteMetadata
  BY <1>4, <1>12, BuildType DEF WriteMetadata, BuildStages, Parts
<1>13. CASE Compress
  <2>1. [w EXCEPT !.archive = BuiltFile(w.parts, w.mixed)] \in Dirs
    BY <1>2, <1>3, FileTypes, DirTypes
  <2> QED
    BY <1>13, <2>1, BuildType DEF Compress, BuildStages
<1>14. CASE Prune
  <2>1. [w EXCEPT !.parts = {"metadata"}] \in Dirs
    BY <1>2, DirTypes DEF Parts
  <2> QED
    BY <1>14, <2>1, BuildType DEF Prune, BuildStages
<1>15. CASE WriteManifest
  <2>1. (IF SummitEnabled THEN [w EXCEPT !.manifest = w.archive] ELSE w) \in Dirs
    BY <1>2, <1>3, DirTypes
  <2> QED
    BY <1>15, <2>1, BuildType DEF WriteManifest, BuildStages
<1> QED
  BY <1>5, <1>6, <1>7, <1>8, <1>9, <1>10, <1>11, <1>12, <1>13, <1>14, <1>15 DEF BuildStep

LEMMA StartupType == TypeOK /\ (StartupStep \/ LoadFails \/ ToolsMissing) => TypeOK'
<1> SUFFICES ASSUME TypeOK, StartupStep \/ LoadFails \/ ToolsMissing
             PROVE  TypeOK'
  OBVIOUS
<1> USE DEF TypeOK, env, disk, locals, budget, Goto, Rest, SaveThen, Failing,
            PCs, Targeted, Stopped, BuildStages
<1>1. CASE LoadState
  BY <1>1 DEF LoadState
<1>2. CASE StartupDiscover
  <2>1. Candidate(head) \in Epochs \cup {NoEpoch}
    BY CandidateType
  <2> QED
    BY <1>2, <2>1, CountsAssumption DEF StartupDiscover
<1>3. CASE StartupDecide
  BY <1>3, CountsAssumption DEF StartupDecide
<1>4. CASE StartupHead
  BY <1>4, CountsAssumption DEF StartupHead
<1>5. CASE StartServer
  BY <1>5 DEF StartServer
<1>6. CASE LoadFails
  BY <1>6 DEF LoadFails
<1>7. CASE ToolsMissing
  BY <1>7, CountsAssumption DEF ToolsMissing, NoMark, Marks
<1> QED
  BY <1>1, <1>2, <1>3, <1>4, <1>5, <1>6, <1>7 DEF StartupStep

LEMMA MonitorType == TypeOK /\ (Poll \/ MonitorDiscover) => TypeOK'
<1> SUFFICES ASSUME TypeOK, Poll \/ MonitorDiscover
             PROVE  TypeOK'
  OBVIOUS
<1> USE DEF TypeOK, env, disk, locals, budget, Rest, PCs, Targeted, Stopped, BuildStages
<1>1. CASE Poll
  BY <1>1 DEF Poll
<1>2. CASE MonitorDiscover
  <2>1. Candidate(seen) \in Epochs \cup {NoEpoch}
    BY CandidateType
  <2> QED
    BY <1>2, <2>1, CountsAssumption DEF MonitorDiscover, NothingToDo
<1> QED
  BY <1>1, <1>2

LEMMA CreateType ==
  TypeOK /\ (CreateStep \/ Contended \/ BuildFails \/ RmWorkFails) => TypeOK'
<1> SUFFICES ASSUME TypeOK, CreateStep \/ Contended \/ BuildFails \/ RmWorkFails
             PROVE  TypeOK'
  OBVIOUS
<1>1. CASE BuildStep
  BY <1>1, BuildStepType
<1> USE DEF TypeOK, env, disk, locals, budget, Goto, Rest, SaveThen, Failing,
            PCs, Targeted, Stopped, BuildStages
<1>2. CASE Check
  BY <1>2 DEF Check
<1>3. CASE RmFinalEntry
  <2>1. dirs[target] \in Dirs
    BY <1>3 DEF RmFinalEntry
  <2> QED
    BY <1>3, <2>1, DirTypes DEF RmFinalEntry
<1>4. CASE RmFinalDone
  BY <1>4, DirTypes DEF RmFinalDone
<1>5. CASE RenameSucceeds
  BY <1>5, DirTypes DEF RenameSucceeds
<1>6. CASE RenameRefused
  BY <1>6, CountsAssumption DEF RenameRefused
<1>7. CASE Abort
  BY <1>7, DirTypes, CountsAssumption DEF Abort
<1>8. CASE BuildFails
  <2>1. work[target] \in Dirs
    BY <1>8 DEF BuildFails
  <2> QED
    BY <1>8, <2>1, InterruptedType, CountsAssumption DEF BuildFails
<1>9. CASE RmWorkFails
  <2>1. work[target] \in Dirs
    BY <1>9 DEF RmWorkFails
  <2> QED
    BY <1>9, <2>1, InterruptedType, CountsAssumption DEF RmWorkFails
<1> QED
  BY <1>1, <1>2, <1>3, <1>4, <1>5, <1>6, <1>7, <1>8, <1>9 DEF CreateStep, Contended

\* What is saved is a mark, when the step that saves has a target or shuts down.
LEMMA MarkType ==
  ASSUME TypeOK, target \in Epochs \/ next = "down"
  PROVE  Mark \in Marks
<1>1. CASE next = "down"
  BY <1>1 DEF Mark, TypeOK
<1>2. CASE next # "down"
  BY <1>2, ScheduleTypes DEF Mark, Marks
<1> QED
  BY <1>1, <1>2

LEMMA SaveType == TypeOK /\ (SaveStep \/ SaveFails) => TypeOK'
<1> SUFFICES ASSUME TypeOK, SaveStep \/ SaveFails
             PROVE  TypeOK'
  OBVIOUS
<1>1. Mark \in Marks
  BY MarkType DEF TypeOK, SaveStep, SaveBegin, SaveFinish, SaveFails, Mark
<1>2. NoMark \in Marks
  BY DEF NoMark, Marks
<1> USE DEF TypeOK, env, disk, locals, budget, Goto, Rest, Failing,
            PCs, Targeted, Stopped, BuildStages
<1>3. CASE SaveBegin
  BY <1>1, <1>3 DEF SaveBegin
<1>4. CASE SaveFinish
  BY <1>2, <1>4, CountsAssumption DEF SaveFinish
<1>5. CASE SaveFails
  BY <1>1, <1>2, <1>5, CountsAssumption DEF SaveFails
<1> QED
  BY <1>3, <1>4, <1>5 DEF SaveStep

LEMMA RetentionType == TypeOK /\ RetentionStep => TypeOK'
<1> SUFFICES ASSUME TypeOK, RetentionStep
             PROVE  TypeOK'
  OBVIOUS
<1> USE DEF TypeOK, env, disk, locals, budget, Rest, PCs, Targeted, Stopped, BuildStages
<1>1. CASE Retain
  <2>1. Excess \in SUBSET Epochs
    BY DEF Excess, Present
  <2> QED
    BY <1>1, <2>1, CountsAssumption DEF Retain
<1>2. CASE EvictEntry
  <2>1. \A e \in OldestDoomed : e \in Epochs /\ dirs[e] \in Dirs
    BY DEF OldestDoomed
  <2> QED
    BY <1>2, <2>1, DirTypes DEF EvictEntry
<1>3. CASE EvictDone
  <2>1. dirs' \in [Epochs -> Dirs]
    BY <1>3, DirTypes DEF EvictDone
  <2>2. \/ Rest("idle")
        \/ \E e \in doomed : doomed' = doomed \ {e} /\ UNCHANGED <<pc, seen, target, next>>
    BY <1>3 DEF EvictDone, OldestDoomed
  <2>3. seen' \in 0..MaxBlock /\ doomed' \in SUBSET Epochs
    BY <2>2, CountsAssumption
  <2> QED
    BY <1>3, <2>1, <2>2, <2>3 DEF EvictDone
<1> QED
  BY <1>1, <1>2, <1>3 DEF RetentionStep

LEMMA StopType ==
  /\ TypeOK /\ dirs' \in [Epochs -> Dirs]
  /\ StepFails \/ Shutdown \/ ServerStopped \/ ProcessDies
  => TypeOK'
<1> SUFFICES ASSUME TypeOK, dirs' \in [Epochs -> Dirs],
                    StepFails \/ Shutdown \/ ServerStopped \/ ProcessDies
             PROVE  TypeOK'
  OBVIOUS
<1> USE DEF TypeOK, env, disk, locals, budget, Goto, Rest, SaveThen, Failing, Spending,
            PCs, Targeted, Stopped, BuildStages
<1>1. CASE StepFails
  BY <1>1, CountsAssumption DEF StepFails
<1>2. CASE Shutdown
  <2>1. crashes' \in 0..MaxCrashes
    BY <1>2, CountsAssumption DEF Shutdown
  <2> QED
    BY <1>2, <2>1 DEF Shutdown
<1>3. CASE ServerStopped
  BY <1>3 DEF ServerStopped
<1>4. CASE ProcessDies
  <2>1. work' \in [Epochs -> Dirs]
    <3>1. CASE target = NoEpoch
      BY <1>4, <3>1 DEF ProcessDies
    <3>2. CASE target # NoEpoch
      <4>1. work[target] \in Dirs
        BY <3>2
      <4> QED
        BY <1>4, <3>2, <4>1, InterruptedType DEF ProcessDies
    <3> QED
      BY <3>1, <3>2
  <2>2. NoMark \in Marks
    BY DEF NoMark, Marks
  <2>3. crashes' \in 0..MaxCrashes /\ seen' \in 0..MaxBlock
    BY <1>4, CountsAssumption DEF ProcessDies
  <2> QED
    BY <1>4, <2>1, <2>2, <2>3 DEF ProcessDies
<1> QED
  BY <1>1, <1>2, <1>3, <1>4

LEMMA EnvironmentType == TypeOK /\ Environment => TypeOK'
<1> SUFFICES ASSUME TypeOK, Environment
             PROVE  TypeOK'
  OBVIOUS
<1> USE DEF TypeOK, disk, locals, budget
<1>1. CASE AdvanceHead
  BY <1>1, CountsAssumption DEF AdvanceHead
<1>2. CASE SummitCheckpoint
  BY <1>2, CountsAssumption DEF SummitCheckpoint, Epochs, NoEpoch
<1> QED
  BY <1>1, <1>2 DEF Environment

LEMMA StutterType == TypeOK /\ UNCHANGED vars => TypeOK'
BY DEF TypeOK, vars, env, disk, locals, budget

\* The steps of the chain and of a process that lives; with the last two of OwnStep,
\* all there are when another writer shares the output directory: what becomes of the
\* directories in a crash is then not the manager's to say.
LivingStep ==
  Progress \/ LoadFails \/ ServerStopped \/ Failure \/ Shutdown \/ Environment

OwnStep == LivingStep \/ Contended \/ ProcessDies

LEMMA NextSteps == Next => LivingStep \/ Crash
BY DEF Next, LivingStep

LEMMA LivingType == TypeOK /\ (LivingStep \/ Contended) => TypeOK'
<1>1. TypeOK /\ (StepFails \/ Shutdown \/ ServerStopped) => dirs' \in [Epochs -> Dirs]
  BY DEF TypeOK, StepFails, Shutdown, ServerStopped, disk
<1> QED
  BY <1>1, StartupType, MonitorType, CreateType, SaveType, RetentionType, StopType,
     EnvironmentType DEF LivingStep, Progress, Failure

LEMMA OwnStepType == TypeOK /\ OwnStep /\ dirs' \in [Epochs -> Dirs] => TypeOK'
BY LivingType, StopType DEF OwnStep

LEMMA StepType == TypeOK /\ [Next]_vars => TypeOK'
<1>1. TypeOK /\ Crash => TypeOK'
  BY StopType DEF Crash, TypeOK
<1> QED
  BY <1>1, LivingType, StutterType, NextSteps

\* Whatever fails or crashes, the variables keep to their types, and a step that
\* works for an epoch has one.
THEOREM TypeCorrectness == Spec => []TypeOK
BY InitType, StepType, PTL DEF Spec
-----------------------------------------------------------------------------
(* The inductive invariant.  Each conjunct says what some step relies on.  *)

\* Which steps have a target, and where a save continues.
LocalsInv ==
  /\ pc \in {"down", "failed", "startup", "idle", "polled", "stopping"} => target = NoEpoch
  /\ pc \in {"save", "saving"} /\ next = "down" => target = NoEpoch
  /\ next # "idle" => pc \in {"save", "saving", "retain", "evict"}
  /\ next = "down" => pc \in {"save", "saving"}

\* A directory that is not there holds nothing.
AbsentInv == \A e \in Epochs : ~dirs[e].present => dirs[e] = AbsentDir

\* No directory is newer than the chain, than what the monitor is about to
\* consider, or than the target: this is where the order of epochs comes from.
OrderInv ==
  /\ \A e \in Present : e <= Candidate(head)
  /\ pc = "polled" => seen <= head /\ \A e \in Present : e <= Candidate(seen)
  /\ target # NoEpoch => target <= Candidate(head) /\ \A e \in Present : e <= target

\* Memory is ahead of the file only by snapshots that are whole.
MemoryInv ==
  /\ pc \in Stopped => mem = NoMark
  /\ pc \notin Stopped => mem.epoch >= stateFile.mark.epoch
  /\ stateFile.status = "absent" => stateFile.mark = NoMark
  /\ \A m \in {mem, stateFile.mark} :
       m.epoch = NoEpoch => m = NoMark

\* Only what cleanup_old_snapshots has begun to remove is not whole.
WholeInv == \A e \in Present : Intact(dirs[e]) \/ e < stateFile.mark.epoch

\* The working directory has these finished parts, of one attempt, and no manifest.
Holds(w, p) == w.present /\ w.parts = p /\ w.mixed = FALSE /\ w.manifest = NoFile

\* What the working directory w holds before each step of the attempt.
StageInv(stage, w) ==
  /\ stage = "mkdir" => w = AbsentDir
  /\ stage = "copyDb" => Holds(w, {})
  /\ stage = "copyStatic" => Holds(w, {"db"})
  /\ stage = "deleteLock" => \E lock \in SUBSET {"lock"} : Holds(w, {"db", "static"} \cup lock)
  /\ stage = "unwind" => Holds(w, {"db", "static"})
  /\ stage = "bundle" => Holds(w, {"db", "static", "unwound"})
  /\ stage = "metadata" => Holds(w, CompleteParts \ {"metadata"})
  /\ stage = "compress" => Holds(w, CompleteParts)
  /\ stage \in {"prune", "manifest"} =>
       w.present /\ CompleteArchive(w.archive) /\ w.manifest = NoFile
  /\ stage = "rename" => Intact(w)

BuildInv == StageInv(pc, work[target])

\* A snapshot is whole before it is recorded, and the newest when others go.
PublishInv ==
  /\ pc # "rmFinal"
  /\ pc \in {"rmWork", "mkdir", "copyDb", "copyStatic", "deleteLock", "unwind", "bundle",
            "metadata", "compress", "prune", "manifest", "rename"} => ~dirs[target].present
  /\ pc \in {"save", "saving"} /\ target # NoEpoch => Intact(dirs[target])
  /\ pc = "saving" => mem = Mark
  /\ pc \in {"retain", "evict"} => mem.epoch = target /\ stateFile.mark.epoch = target
                                   /\ dirs[target].present
  /\ pc = "evict" => doomed \subseteq Present /\ \A e \in doomed : e < target

IInv ==
  /\ TypeOK /\ LocalsInv /\ AbsentInv /\ OrderInv /\ MemoryInv /\ WholeInv
  /\ BuildInv /\ PublishInv /\ RecordedSnapshotIntact

\* Steps that touch neither the published directories nor the state.
LEMMA DiskFrame ==
  ASSUME IInv, UNCHANGED <<dirs, stateFile, mem>>
  PROVE  AbsentInv' /\ WholeInv' /\ RecordedSnapshotIntact' /\ Present' = Present
BY DEF IInv, AbsentInv, WholeInv, RecordedSnapshotIntact, Present, CheckpointBlock, ScheduleOf

\* What is recorded is on disk, and so not newer than the target.
LEMMA RecordedIsOld ==
  ASSUME IInv, target # NoEpoch
  PROVE  mem.epoch <= target /\ stateFile.mark.epoch <= target
<1>1. target \in Nat /\ mem.epoch \in Epochs \cup {NoEpoch}
      /\ stateFile.mark.epoch \in Epochs \cup {NoEpoch}
  BY DEF IInv, TypeOK, Marks, Epochs
<1>2. \A e \in Epochs : Intact(dirs[e]) => e <= target
  BY DEF IInv, OrderInv, Present, Intact
<1> QED
  BY <1>1, <1>2 DEF IInv, RecordedSnapshotIntact, NoEpoch

\* An archive at the target is a whole snapshot.
LEMMA ArchiveAtTarget ==
  ASSUME IInv, target # NoEpoch
  PROVE  /\ HasArchive(dirs[target]) => dirs[target].present
         /\ dirs[target].present => Intact(dirs[target]) /\ HasArchive(dirs[target])
<1>1. target \in Epochs /\ target \in Nat
  BY DEF IInv, TypeOK, Epochs
<1>2. HasArchive(dirs[target]) => dirs[target].present
  BY <1>1 DEF IInv, AbsentInv, HasArchive, AbsentDir, NoFile
<1>3. stateFile.mark.epoch <= target /\ stateFile.mark.epoch \in Int
  BY RecordedIsOld DEF IInv, TypeOK, Marks, Epochs, NoEpoch
<1>4. dirs[target].present => Intact(dirs[target])
  BY <1>1, <1>3 DEF IInv, WholeInv, Present
<1>5. Intact(dirs[target]) => HasArchive(dirs[target])
  BY DEF Intact, CompleteArchive, BuiltFile, HasArchive
<1> QED
  BY <1>2, <1>4, <1>5

LEMMA CandidateMonotone ==
  ASSUME NEW h \in Nat, NEW k \in Nat, h <= k, latest \in Epochs \cup {NoEpoch}
  PROVE  Candidate(h) <= Candidate(k)
<1>1. latest \in Int
  BY DEF Epochs, NoEpoch
<1>2. EpochOf(h, EpochBlocks) <= EpochOf(k, EpochBlocks)
      /\ EpochOf(h, EpochBlocks) \in Nat /\ EpochOf(k, EpochBlocks) \in Nat
  BY EpochOfMonotone, EpochOfBounds, EpochBlocksAssumption
<1> QED
  BY <1>1, <1>2 DEF Candidate

LEMMA InitInv == Init => IInv
<1> SUFFICES ASSUME Init
             PROVE  IInv
  OBVIOUS
<1>1. TypeOK
  BY InitType
<1>2. Present = {}
  BY DEF Init, Present, AbsentDir
<1>3. LocalsInv /\ MemoryInv /\ PublishInv
  BY DEF Init, LocalsInv, MemoryInv, PublishInv, Stopped, NoMark
<1>4. AbsentInv /\ OrderInv /\ WholeInv
  BY <1>2 DEF Init, AbsentInv, OrderInv, WholeInv
<1>5. BuildInv
  BY DEF Init, BuildInv, StageInv
<1>6. RecordedSnapshotIntact
  BY DEF Init, RecordedSnapshotIntact, NoMark
<1> QED
  BY <1>1, <1>3, <1>4, <1>5, <1>6 DEF IInv

\* A step that ends an operation, leaving directories and state alone.
LEMMA RestInv ==
  ASSUME IInv, TypeOK', Rest("idle"), pc \notin Stopped,
         UNCHANGED <<head, latest, dirs, stateFile, mem>>
  PROVE  IInv'
<1>1. LocalsInv'
  BY DEF Rest, LocalsInv
<1>2. OrderInv' /\ AbsentInv' /\ WholeInv'
  BY DEF Rest, IInv, OrderInv, AbsentInv, WholeInv, Present, Candidate
<1>3. RecordedSnapshotIntact'
  BY DEF IInv, RecordedSnapshotIntact, CheckpointBlock, ScheduleOf
<1>4. MemoryInv'
  BY DEF Rest, IInv, MemoryInv, Stopped
<1>5. BuildInv' /\ PublishInv'
  BY DEF Rest, BuildInv, PublishInv, StageInv
<1> QED
  BY <1>1, <1>2, <1>3, <1>4, <1>5 DEF IInv

LEMMA StartupInv == IInv /\ TypeOK' /\ (StartupStep \/ LoadFails \/ ToolsMissing) => IInv'
<1> SUFFICES ASSUME IInv, TypeOK', StartupStep \/ LoadFails \/ ToolsMissing
             PROVE  IInv'
  OBVIOUS
<1> USE DEF env, disk, locals, budget
<1>1. CASE LoadState
  <2>1. LocalsInv' /\ OrderInv' /\ BuildInv' /\ PublishInv'
    BY <1>1 DEF LoadState, Goto, IInv, LocalsInv, OrderInv, BuildInv, PublishInv,
                Present, Candidate, StageInv, Stopped
  <2>2. AbsentInv' /\ WholeInv' /\ RecordedSnapshotIntact'
    BY <1>1 DEF LoadState, IInv, AbsentInv, WholeInv, RecordedSnapshotIntact, Present,
                CheckpointBlock, ScheduleOf
  <2>3. MemoryInv'
    BY <1>1 DEF LoadState, Goto, IInv, MemoryInv, Stopped, TypeOK, Marks, Epochs, NoEpoch
  <2> QED
    BY <2>1, <2>2, <2>3 DEF IInv
<1>2. CASE StartupDiscover
  <2>1. CASE Rest("idle")
    BY <1>2, <2>1, RestInv DEF StartupDiscover, Stopped
  <2>2. CASE ~Rest("idle")
    <3>1. /\ pc = "startup" /\ pc' = "startupDecide" /\ target' = Candidate(head)
          /\ UNCHANGED <<seen, next, doomed>>
      BY <1>2, <2>2 DEF StartupDiscover
    <3>2. AbsentInv' /\ WholeInv' /\ RecordedSnapshotIntact' /\ Present' = Present
      BY <1>2, DiskFrame DEF StartupDiscover
    <3>3. LocalsInv' /\ MemoryInv' /\ BuildInv' /\ PublishInv'
      BY <1>2, <3>1 DEF StartupDiscover, IInv, LocalsInv, MemoryInv, BuildInv, PublishInv,
                        StageInv, Stopped
    <3>4. OrderInv'
      <4>1. Candidate(head)' = Candidate(head) /\ Candidate(head) \in Int
        BY <1>2, CandidateType DEF StartupDiscover, Candidate, IInv, TypeOK, Epochs, NoEpoch
      <4> QED
        BY <1>2, <3>1, <3>2, <4>1 DEF IInv, OrderInv
    <3> QED
      BY <3>2, <3>3, <3>4 DEF IInv
  <2> QED
    BY <2>1, <2>2
<1>3. CASE StartupDecide
  <2>1. CASE Rest("idle")
    BY <1>3, <2>1, RestInv DEF StartupDecide, Stopped
  <2>2. CASE ~Rest("idle")
    <3>1. /\ pc = "startupDecide" /\ UNCHANGED <<seen, target, doomed>>
          /\ \/ pc' = "save" /\ next' = "idle" /\ HasArchive(dirs[target])
             \/ pc' = "startupHead" /\ next' = next
      BY <1>3, <2>2 DEF StartupDecide, SaveThen, Goto
    <3>2. target # NoEpoch
      BY <3>1 DEF IInv, TypeOK, Targeted
    <3>3. AbsentInv' /\ WholeInv' /\ RecordedSnapshotIntact' /\ Present' = Present
      BY <1>3, DiskFrame DEF StartupDecide
    <3>4. LocalsInv' /\ OrderInv' /\ MemoryInv' /\ BuildInv'
      BY <1>3, <3>1, <3>2, <3>3 DEF StartupDecide, IInv, LocalsInv, OrderInv, MemoryInv,
                                    BuildInv, StageInv, Stopped, Candidate
    <3>5. PublishInv'
      BY <1>3, <3>1, <3>2, ArchiveAtTarget DEF StartupDecide, IInv, PublishInv
    <3> QED
      BY <3>3, <3>4, <3>5 DEF IInv
  <2> QED
    BY <2>1, <2>2
<1>4. CASE StartupHead
  <2>1. CASE Rest("idle")
    BY <1>4, <2>1, RestInv DEF StartupHead, Stopped
  <2>2. CASE Goto("check")
    <3>1. AbsentInv' /\ WholeInv' /\ RecordedSnapshotIntact' /\ Present' = Present
      BY <1>4, DiskFrame DEF StartupHead
    <3>2. LocalsInv' /\ OrderInv' /\ MemoryInv' /\ BuildInv' /\ PublishInv'
      BY <1>4, <2>2, <3>1 DEF StartupHead, Goto, IInv, LocalsInv, OrderInv, MemoryInv,
                              BuildInv, PublishInv, StageInv, Stopped, Candidate
    <3> QED
      BY <3>1, <3>2 DEF IInv
  <2> QED
    BY <1>4, <2>1, <2>2 DEF StartupHead
<1>5. CASE StartServer
  <2>1. AbsentInv' /\ WholeInv' /\ RecordedSnapshotIntact' /\ Present' = Present
    BY <1>5, DiskFrame DEF StartServer
  <2>2. LocalsInv' /\ OrderInv' /\ MemoryInv' /\ BuildInv' /\ PublishInv'
    BY <1>5, <2>1 DEF StartServer, IInv, LocalsInv, OrderInv, MemoryInv,
                      BuildInv, PublishInv, StageInv, Candidate, Mark
  <2> QED
    BY <2>1, <2>2 DEF IInv
<1>6. CASE LoadFails
  <2>1. AbsentInv' /\ WholeInv' /\ RecordedSnapshotIntact' /\ Present' = Present
    BY <1>6, DiskFrame DEF LoadFails
  <2>2. LocalsInv' /\ OrderInv' /\ MemoryInv' /\ BuildInv' /\ PublishInv'
    BY <1>6, <2>1 DEF LoadFails, Goto, IInv, LocalsInv, OrderInv, MemoryInv,
                      BuildInv, PublishInv, StageInv, Stopped, Candidate
  <2> QED
    BY <2>1, <2>2 DEF IInv
<1>7. CASE ToolsMissing
  <2>1. target = NoEpoch /\ next = "idle"
    BY <1>7 DEF ToolsMissing, IInv, LocalsInv
  <2>2. LocalsInv' /\ OrderInv' /\ BuildInv' /\ PublishInv'
    BY <1>7, <2>1 DEF ToolsMissing, Goto, IInv, LocalsInv, OrderInv, BuildInv, PublishInv,
                      StageInv, Present, Candidate
  <2>3. AbsentInv' /\ WholeInv' /\ RecordedSnapshotIntact' /\ MemoryInv'
    BY <1>7 DEF ToolsMissing, Goto, IInv, AbsentInv, WholeInv, RecordedSnapshotIntact,
                MemoryInv, Present, NoMark, Stopped, CheckpointBlock, ScheduleOf
  <2> QED
    BY <2>2, <2>3 DEF IInv
<1> QED
  BY <1>1, <1>2, <1>3, <1>4, <1>5, <1>6, <1>7 DEF StartupStep

LEMMA MonitorInv == IInv /\ TypeOK' /\ (Poll \/ MonitorDiscover) => IInv'
<1> SUFFICES ASSUME IInv, TypeOK', Poll \/ MonitorDiscover
             PROVE  IInv'
  OBVIOUS
<1> USE DEF env, disk, locals, budget
<1>0. AbsentInv' /\ WholeInv' /\ RecordedSnapshotIntact' /\ Present' = Present
  BY DiskFrame DEF Poll, MonitorDiscover
<1>1. CASE Poll
  <2>1. LocalsInv' /\ MemoryInv' /\ BuildInv' /\ PublishInv'
    BY <1>1 DEF Poll, IInv, LocalsInv, MemoryInv, BuildInv, PublishInv, StageInv, Stopped
  <2>2. target' = NoEpoch /\ seen' = head /\ head' = head /\ head \in Int
    BY <1>1 DEF Poll, IInv, LocalsInv, TypeOK
  <2>3. Candidate(head)' = Candidate(head) /\ Candidate(seen)' = Candidate(head)
    BY <1>1 DEF Poll, Candidate
  <2>4. OrderInv'
    BY <1>0, <2>2, <2>3 DEF IInv, OrderInv
  <2> QED
    BY <1>0, <2>1, <2>4 DEF IInv
<1>2. CASE MonitorDiscover
  <2>1. CASE Rest("idle")
    BY <1>2, <2>1, RestInv DEF MonitorDiscover, Stopped
  <2>2. CASE ~Rest("idle")
    <3>1. /\ pc = "polled" /\ pc' = "check" /\ target' = Candidate(seen)
          /\ UNCHANGED <<next, doomed>>
      BY <1>2, <2>2 DEF MonitorDiscover
    <3>2. LocalsInv' /\ MemoryInv' /\ BuildInv' /\ PublishInv'
      BY <1>2, <3>1 DEF MonitorDiscover, IInv, LocalsInv, MemoryInv, BuildInv, PublishInv,
                        StageInv, Stopped
    <3>3. Candidate(head)' = Candidate(head)
      BY <1>2 DEF MonitorDiscover, Candidate
    <3>4. Candidate(seen) <= Candidate(head)
      <4>1. seen \in Nat /\ head \in Nat /\ seen <= head /\ latest \in Epochs \cup {NoEpoch}
        BY <3>1 DEF IInv, TypeOK, OrderInv
      <4> QED
        BY <4>1, CandidateMonotone
    <3>5. OrderInv'
      BY <1>0, <3>1, <3>3, <3>4 DEF IInv, OrderInv
    <3> QED
      BY <1>0, <3>2, <3>5 DEF IInv
  <2> QED
    BY <2>1, <2>2
<1> QED
  BY <1>1, <1>2

-----------------------------------------------------------------------------
(* The attempt *)

\* What a step of the attempt other than the last leaves alone.
LEMMA BuildChanges ==
  ASSUME BuildStep
  PROVE  /\ pc \in BuildStages \cup {"rmWork"} /\ pc' \in BuildStages \cup {"rename"}
         /\ UNCHANGED <<env, dirs, stateFile, mem, locals, serving, budget>>
BY DEF BuildStep, Build, Goto, RmWork, Mkdir, CopyDb, CopyStatic, DeleteLock, Unwind, Bundle,
       WriteMetadata, Compress, Prune, WriteManifest, BuildStages

LEMMA BuildFrame ==
  ASSUME IInv, TypeOK', BuildStep, BuildInv'
  PROVE  IInv'
<1> USE BuildChanges DEF env, locals, budget
<1>1. AbsentInv' /\ WholeInv' /\ RecordedSnapshotIntact' /\ Present' = Present
  BY DiskFrame
<1>2. LocalsInv' /\ MemoryInv' /\ PublishInv'
  BY DEF IInv, LocalsInv, MemoryInv, PublishInv, BuildStages, Stopped
<1>3. OrderInv'
  BY <1>1 DEF IInv, OrderInv, BuildStages, Candidate
<1> QED
  BY <1>1, <1>2, <1>3 DEF IInv

\* The working directory holds what the step left in it.
LEMMA BuiltHere ==
  ASSUME TypeOK, NEW d, NEW stage \in BuildStages \cup {"rmWork"}, NEW after,
         Build(stage, d, after)
  PROVE  pc' = after /\ work'[target'] = d
<1>1. target \in Epochs /\ DOMAIN work = Epochs
  BY DEF Build, TypeOK, Targeted, BuildStages
<1> QED
  BY <1>1 DEF Build, Goto, locals

LEMMA HoldsWithParts ==
  ASSUME NEW w \in Dirs, NEW p, NEW q, Holds(w, p)
  PROVE  Holds([w EXCEPT !.parts = q], q)
BY DEF Holds, Dirs

\* A step of the attempt leaves what the next one starts from, whoever else writes
\* the output directory: the working directory is the manager's own.
LEMMA AttemptStep == TypeOK /\ BuildInv /\ BuildStep => BuildInv'
<1> SUFFICES ASSUME TypeOK, BuildInv, BuildStep
             PROVE  BuildInv'
  OBVIOUS
<1> DEFINE w == work[target]
           Set(q) == [w EXCEPT !.parts = q]
<1>1. StageInv(pc, w)
  BY DEF BuildInv
<1>d. pc \in BuildStages => w \in Dirs
  BY DEF TypeOK, Targeted, BuildStages
<1>2. ASSUME NEW d, NEW stage \in BuildStages \cup {"rmWork"},
             NEW after \in BuildStages \cup {"rename"},
             Build(stage, d, after), StageInv(after, d)
      PROVE  BuildInv'
  BY <1>2, BuiltHere DEF BuildInv
<1>3. CASE RmWork
  <2>1. Build("rmWork", AbsentDir, "mkdir") /\ StageInv("mkdir", AbsentDir)
    BY <1>3 DEF RmWork, StageInv
  <2> QED
    BY <2>1, <1>2 DEF BuildStages
<1>4. CASE Mkdir
  <2>1. Build("mkdir", Created(w), "copyDb") /\ w = AbsentDir
    BY <1>1, <1>4 DEF Mkdir, Build, StageInv
  <2>2. Created(w) = EmptyDir
    BY <2>1 DEF Created, AbsentDir
  <2>3. Holds(EmptyDir, {})
    BY DEF Holds, EmptyDir, AbsentDir
  <2> QED
    BY <2>1, <2>2, <2>3, <1>2 DEF BuildStages, StageInv
<1>5. CASE CopyDb
  <2>1. Build("copyDb", Adding({"db"}), "copyStatic") /\ w \in Dirs /\ Holds(w, {})
    BY <1>1, <1>d, <1>5 DEF CopyDb, Build, StageInv, BuildStages
  <2>2. Adding({"db"}) = Set({"db"})
    BY <2>1 DEF Adding, Holds
  <2> HIDE DEF w, Set
  <2>3. StageInv("copyStatic", Set({"db"}))
    BY <2>1, HoldsWithParts DEF StageInv, Set
  <2> QED
    BY <2>1, <2>2, <2>3, <1>2 DEF BuildStages
<1>6. CASE CopyStatic
  <2>1. PICK lock \in SUBSET {"lock"} :
          Build("copyStatic", Adding({"static"} \cup lock), "deleteLock")
    BY <1>6 DEF CopyStatic
  <2>2. w \in Dirs /\ Holds(w, {"db"})
    BY <1>1, <1>d, <2>1 DEF Build, StageInv, BuildStages
  <2>3. {"db"} \cup ({"static"} \cup lock) = {"db", "static"} \cup lock
    OBVIOUS
  <2>4. Adding({"static"} \cup lock) = Set({"db", "static"} \cup lock)
    BY <2>2, <2>3 DEF Adding, Holds
  <2> HIDE DEF w, Set
  <2>5. StageInv("deleteLock", Set({"db", "static"} \cup lock))
    BY <2>2, HoldsWithParts DEF StageInv, Set
  <2> QED
    BY <2>1, <2>4, <2>5, <1>2 DEF BuildStages
<1>7. CASE DeleteLock
  <2>1. Build("deleteLock", Set(w.parts \ {"lock"}), "unwind")
    BY <1>7 DEF DeleteLock
  <2>2. w \in Dirs /\ \E lock \in SUBSET {"lock"} : Holds(w, {"db", "static"} \cup lock)
    BY <1>1, <1>d, <2>1 DEF Build, StageInv, BuildStages
  <2>3. w.parts \ {"lock"} = {"db", "static"}
    BY <2>2 DEF Holds
  <2> HIDE DEF w, Set
  <2>4. StageInv("unwind", Set({"db", "static"}))
    BY <2>2, HoldsWithParts DEF StageInv, Set
  <2> QED
    BY <2>1, <2>3, <2>4, <1>2 DEF BuildStages
<1>8. CASE Unwind
  <2>1. Build("unwind", Adding({"unwound"}), "bundle") /\ w \in Dirs /\ Holds(w, {"db", "static"})
    BY <1>1, <1>d, <1>8 DEF Unwind, Build, StageInv, BuildStages
  <2>2. {"db", "static"} \cup {"unwound"} = {"db", "static", "unwound"}
    OBVIOUS
  <2>3. Adding({"unwound"}) = Set({"db", "static", "unwound"})
    BY <2>1, <2>2 DEF Adding, Holds
  <2> HIDE DEF w, Set
  <2>4. StageInv("bundle", Set({"db", "static", "unwound"}))
    BY <2>1, HoldsWithParts DEF StageInv, Set
  <2> QED
    BY <2>1, <2>3, <2>4, <1>2 DEF BuildStages
<1>9. CASE Bundle
  <2> DEFINE new == IF SummitEnabled THEN {"bundle"} ELSE {}
  <2>1. Build("bundle", Adding(new), "metadata") /\ w \in Dirs
        /\ Holds(w, {"db", "static", "unwound"})
    BY <1>1, <1>d, <1>9 DEF Bundle, Build, StageInv, BuildStages
  <2>2. {"db", "static", "unwound"} \cup new = CompleteParts \ {"metadata"}
    BY DEF CompleteParts
  <2>3. Adding(new) = Set(CompleteParts \ {"metadata"})
    BY <2>1, <2>2 DEF Adding, Holds
  <2> HIDE DEF w, Set
  <2>4. StageInv("metadata", Set(CompleteParts \ {"metadata"}))
    BY <2>1, HoldsWithParts DEF StageInv, Set
  <2> QED
    BY <2>1, <2>3, <2>4, <1>2 DEF BuildStages
<1>10. CASE WriteMetadata
  <2>1. Build("metadata", Adding({"metadata"}), "compress") /\ w \in Dirs
        /\ Holds(w, CompleteParts \ {"metadata"})
    BY <1>1, <1>d, <1>10 DEF WriteMetadata, Build, StageInv, BuildStages
  <2>2. (CompleteParts \ {"metadata"}) \cup {"metadata"} = CompleteParts
    BY DEF CompleteParts
  <2>3. Adding({"metadata"}) = Set(CompleteParts)
    BY <2>1, <2>2 DEF Adding, Holds
  <2> HIDE DEF w, Set
  <2>4. StageInv("compress", Set(CompleteParts))
    BY <2>1, HoldsWithParts DEF StageInv, Set
  <2> QED
    BY <2>1, <2>3, <2>4, <1>2 DEF BuildStages
<1>11. CASE Compress
  <2> DEFINE d == [w EXCEPT !.archive = BuiltFile(w.parts, w.mixed)]
  <2>1. Build("compress", d, "prune") /\ w \in Dirs /\ Holds(w, CompleteParts)
    BY <1>1, <1>d, <1>11 DEF Compress, Build, StageInv, BuildStages
  <2>2. d.present /\ CompleteArchive(d.archive) /\ d.manifest = NoFile
    BY <2>1 DEF CompleteArchive, Holds, Dirs
  <2> HIDE DEF d
  <2>3. StageInv("prune", d)
    BY <2>2 DEF StageInv
  <2> QED
    BY <2>1, <2>3, <1>2 DEF BuildStages
<1>12. CASE Prune
  <2> DEFINE d == [w EXCEPT !.parts = {"metadata"}]
  <2>1. Build("prune", d, "manifest") /\ w \in Dirs
        /\ w.present /\ CompleteArchive(w.archive) /\ w.manifest = NoFile
    BY <1>1, <1>d, <1>12 DEF Prune, Build, StageInv, BuildStages
  <2>2. d.present /\ CompleteArchive(d.archive) /\ d.manifest = NoFile
    BY <2>1 DEF Dirs
  <2> HIDE DEF d
  <2>3. StageInv("manifest", d)
    BY <2>2 DEF StageInv
  <2> QED
    BY <2>1, <2>3, <1>2 DEF BuildStages
<1>13. CASE WriteManifest
  <2> DEFINE d == IF SummitEnabled THEN [w EXCEPT !.manifest = w.archive] ELSE w
  <2>1. Build("manifest", d, "rename") /\ w \in Dirs
        /\ w.present /\ CompleteArchive(w.archive) /\ w.manifest = NoFile
    BY <1>1, <1>d, <1>13 DEF WriteManifest, Build, StageInv, BuildStages
  <2>2. Intact(d)
    BY <2>1 DEF Dirs, Intact, CommitsTo
  <2> HIDE DEF d
  <2>3. StageInv("rename", d)
    BY <2>2 DEF StageInv
  <2> QED
    BY <2>1, <2>3, <1>2 DEF BuildStages
<1> QED
  BY <1>3, <1>4, <1>5, <1>6, <1>7, <1>8, <1>9, <1>10, <1>11, <1>12, <1>13 DEF BuildStep

LEMMA BuildStepInv == IInv /\ TypeOK' /\ BuildStep => IInv'
BY AttemptStep, BuildFrame DEF IInv

LEMMA PublishedWhole ==
  ASSUME IInv, TypeOK', RenameSucceeds
  PROVE  IInv'
<1> USE DEF RenameSucceeds, SaveThen, env, budget
<1>1. target \in Epochs /\ target \in Nat /\ target # NoEpoch /\ DOMAIN dirs = Epochs
  BY DEF IInv, TypeOK, Targeted, Epochs, NoEpoch
<1>2. Intact(work[target])
  BY DEF IInv, BuildInv, StageInv
<1>3. dirs'[target] = work[target] /\ \A e \in Epochs \ {target} : dirs'[e] = dirs[e]
  BY <1>1
<1>4. \A e \in Present' : e \in Present \/ e = target
  BY <1>3 DEF Present
<1>5. LocalsInv' /\ MemoryInv' /\ BuildInv'
  BY <1>1 DEF IInv, LocalsInv, MemoryInv, BuildInv, StageInv, Stopped
<1>6. AbsentInv' /\ WholeInv'
  <2>1. dirs'[target].present
    BY <1>2, <1>3 DEF Intact
  <2>2. AbsentInv'
    BY <1>3, <2>1 DEF IInv, AbsentInv
  <2>3. WholeInv'
    BY <1>2, <1>3, <1>4 DEF IInv, WholeInv, Present
  <2> QED
    BY <2>2, <2>3
<1>7. OrderInv'
  <2>1. Candidate(head)' = Candidate(head)
    BY DEF Candidate
  <2> QED
    BY <1>1, <1>4, <2>1 DEF IInv, OrderInv
<1>8. PublishInv'
  BY <1>2, <1>3 DEF IInv, PublishInv
<1>9. RecordedSnapshotIntact'
  <2> SUFFICES ASSUME NEW m \in {mem, stateFile.mark}, m.epoch # NoEpoch
               PROVE  Intact(dirs'[m.epoch]) /\ m.block = CheckpointBlock(m.epoch)
    BY DEF RecordedSnapshotIntact, CheckpointBlock, ScheduleOf
  <2>1. m.epoch \in Epochs
    BY DEF IInv, TypeOK, Marks
  <2>2. Intact(dirs[m.epoch]) /\ m.block = CheckpointBlock(m.epoch)
    BY DEF IInv, RecordedSnapshotIntact
  <2> QED
    BY <1>2, <1>3, <2>1, <2>2
<1> QED
  BY <1>5, <1>6, <1>7, <1>8, <1>9 DEF IInv

LEMMA CreateInv ==
  IInv /\ TypeOK' /\ (CreateStep \/ BuildFails \/ RmWorkFails) => IInv'
<1> SUFFICES ASSUME IInv, TypeOK', CreateStep \/ BuildFails \/ RmWorkFails
             PROVE  IInv'
  OBVIOUS
<1> USE DEF env, disk, locals, budget
<1>1. CASE Check
  <2>1. pc = "check" /\ target # NoEpoch
    BY <1>1 DEF Check, IInv, TypeOK, Targeted
  <2>2. \/ Intact(dirs[target]) /\ SaveThen("idle")
        \/ ~dirs[target].present /\ Goto("rmWork")
    BY <1>1, <2>1, ArchiveAtTarget DEF Check
  <2>3. AbsentInv' /\ WholeInv' /\ RecordedSnapshotIntact' /\ Present' = Present
    BY <1>1, DiskFrame DEF Check
  <2>4. LocalsInv' /\ MemoryInv' /\ BuildInv' /\ PublishInv'
    BY <1>1, <2>1, <2>2 DEF Check, SaveThen, Goto, IInv, LocalsInv, MemoryInv, BuildInv,
                            StageInv, PublishInv, Stopped
  <2>5. OrderInv'
    BY <1>1, <2>2, <2>3 DEF Check, SaveThen, Goto, IInv, OrderInv, Candidate
  <2> QED
    BY <2>3, <2>4, <2>5 DEF IInv
<1>2. CASE BuildStep
  BY <1>2, BuildStepInv
<1>3. CASE RenameSucceeds
  BY <1>3, PublishedWhole
<1>4. CASE Abort
  BY <1>4, RestInv DEF Abort, Stopped
<1>5. CASE BuildFails
  <2>1. AbsentInv' /\ WholeInv' /\ RecordedSnapshotIntact' /\ Present' = Present
    BY <1>5, DiskFrame DEF BuildFails
  <2>2. LocalsInv' /\ MemoryInv' /\ BuildInv' /\ PublishInv'
    BY <1>5 DEF BuildFails, Goto, IInv, LocalsInv, MemoryInv, BuildInv, StageInv,
                PublishInv, BuildStages, Stopped
  <2>3. OrderInv'
    BY <1>5, <2>1 DEF BuildFails, Goto, IInv, OrderInv, BuildStages, Candidate
  <2> QED
    BY <2>1, <2>2, <2>3 DEF IInv
<1>6. CASE RmWorkFails
  BY <1>6, RestInv DEF RmWorkFails, Stopped
<1> QED
  BY <1>1, <1>2, <1>3, <1>4, <1>5, <1>6 DEF CreateStep

-----------------------------------------------------------------------------
(* Saving the state *)

\* What a save for a target records is the target, whole on disk.
LEMMA MarkInv ==
  ASSUME IInv, pc \in {"save", "saving"}
  PROVE  /\ Mark \in Marks
         /\ Mark.epoch >= mem.epoch /\ mem.epoch >= stateFile.mark.epoch
         /\ Mark.epoch # NoEpoch =>
              Intact(dirs[Mark.epoch]) /\ Mark.block = CheckpointBlock(Mark.epoch)
         /\ Mark.epoch = NoEpoch => Mark = NoMark
         /\ next # "down" => target \in Epochs /\ Mark.epoch = target
<1>1. Mark \in Marks
  BY MarkType DEF IInv, TypeOK
<1>2. mem.epoch >= stateFile.mark.epoch /\ mem \in Marks
  BY DEF IInv, MemoryInv, Stopped, TypeOK
<1>3. CASE next = "down"
  <2>1. Mark = mem
    BY <1>3 DEF Mark
  <2>2. mem.epoch \in Int
    BY <1>2 DEF Marks, Epochs, NoEpoch
  <2> QED
    BY <1>1, <1>2, <1>3, <2>1, <2>2 DEF IInv, RecordedSnapshotIntact, MemoryInv
<1>4. CASE next # "down"
  <2>1. target \in Epochs /\ target # NoEpoch
    BY <1>4 DEF IInv, TypeOK, Epochs, NoEpoch
  <2>2. Mark.epoch = target /\ Mark.block = CheckpointBlock(target)
    BY <1>4 DEF Mark
  <2>3. Intact(dirs[target])
    BY <2>1 DEF IInv, PublishInv
  <2>4. mem.epoch <= target
    BY <2>1, RecordedIsOld
  <2> QED
    BY <1>1, <1>2, <2>1, <2>2, <2>3, <2>4 DEF Marks, Epochs
<1> QED
  BY <1>3, <1>4

\* The published directories stay, and the file and the memory hold what was
\* recorded before or the mark of this save.
LEMMA SaveFrame ==
  ASSUME IInv, pc \in {"save", "saving"}, UNCHANGED <<head, latest, dirs>>,
         mem' \in {mem, Mark, NoMark}, stateFile'.mark \in {stateFile.mark, Mark},
         stateFile'.mark.epoch >= stateFile.mark.epoch
  PROVE  AbsentInv' /\ WholeInv' /\ RecordedSnapshotIntact' /\ Present' = Present
<1>1. AbsentInv' /\ Present' = Present
  BY DEF IInv, AbsentInv, Present
<1>2. WholeInv'
  <2> SUFFICES ASSUME NEW e \in Present
               PROVE  Intact(dirs[e]) \/ e < stateFile'.mark.epoch
    BY <1>1 DEF WholeInv
  <2>1. Intact(dirs[e]) \/ e < stateFile.mark.epoch
    BY DEF IInv, WholeInv
  <2>2. e \in Int /\ stateFile.mark.epoch \in Int /\ stateFile'.mark.epoch \in Int
    BY MarkInv DEF Present, IInv, TypeOK, Marks, Epochs, NoEpoch
  <2> QED
    BY <2>1, <2>2
<1>3. RecordedSnapshotIntact'
  <2> SUFFICES ASSUME NEW m \in {mem, Mark, NoMark, stateFile.mark}, m.epoch # NoEpoch
               PROVE  Intact(dirs[m.epoch]) /\ m.block = CheckpointBlock(m.epoch)
    BY DEF RecordedSnapshotIntact, CheckpointBlock, ScheduleOf
  <2> QED
    BY MarkInv DEF IInv, RecordedSnapshotIntact, NoMark
<1> QED
  BY <1>1, <1>2, <1>3

LEMMA SaveInv == IInv /\ TypeOK' /\ (SaveStep \/ SaveFails) => IInv'
<1> SUFFICES ASSUME IInv, TypeOK', SaveStep \/ SaveFails
             PROVE  IInv'
  OBVIOUS
<1> USE DEF env, disk, locals, budget
<1>1. /\ stateFile.mark.epoch \in Int /\ mem.epoch \in Int
      /\ pc \in {"save", "saving"} => Mark.epoch \in Int /\ Mark.epoch >= stateFile.mark.epoch
  <2>1. stateFile.mark.epoch \in Int /\ mem.epoch \in Int
    BY DEF IInv, TypeOK, Marks, Epochs, NoEpoch
  <2>2. pc \in {"save", "saving"} => Mark.epoch \in Int
    BY MarkInv DEF Marks, Epochs, NoEpoch
  <2> QED
    BY <2>1, <2>2, MarkInv
<1>2. CASE SaveBegin
  <2>1. stateFile'.mark = stateFile.mark /\ stateFile'.status = "torn"
    BY <1>2 DEF SaveBegin, IInv, TypeOK
  <2>2. AbsentInv' /\ WholeInv' /\ RecordedSnapshotIntact' /\ Present' = Present
    BY <1>1, <1>2, <2>1, SaveFrame DEF SaveBegin
  <2>3. LocalsInv' /\ BuildInv'
    BY <1>2 DEF SaveBegin, Goto, IInv, LocalsInv, BuildInv, StageInv, BuildStages
  <2>4. OrderInv'
    BY <1>2, <2>2 DEF SaveBegin, Goto, IInv, OrderInv, Candidate
  <2>5. MemoryInv'
    BY <1>1, <1>2, <2>1, MarkInv DEF SaveBegin, Goto, IInv, MemoryInv, Stopped
  <2>6. PublishInv'
    <3>1. Mark' = mem'
      BY <1>2 DEF SaveBegin, Goto, Mark, CheckpointBlock, ScheduleOf
    <3> QED
      BY <1>2, <3>1 DEF SaveBegin, Goto, IInv, PublishInv
  <2> QED
    BY <2>2, <2>3, <2>4, <2>5, <2>6 DEF IInv
<1>3. CASE SaveFinish
  <2>0. pc = "saving" /\ mem = Mark
    BY <1>3 DEF SaveFinish, IInv, PublishInv
  <2>1. stateFile'.mark = Mark /\ stateFile'.status = "ok"
    BY <1>3, <2>0 DEF SaveFinish
  <2>2. AbsentInv' /\ WholeInv' /\ RecordedSnapshotIntact' /\ Present' = Present
    BY <1>1, <1>3, <2>0, <2>1, SaveFrame DEF SaveFinish
  <2>3. CASE next = "retain"
    <3>1. pc' = "retain" /\ mem' = mem /\ UNCHANGED locals
      BY <1>3, <2>3 DEF SaveFinish
    <3>2. target \in Epochs /\ Mark.epoch = target /\ Intact(dirs[target])
      <4>1. target \in Epochs /\ Mark.epoch = target
        BY <2>0, <2>3, MarkInv
      <4> QED
        BY <2>0, <4>1 DEF IInv, PublishInv, Epochs, NoEpoch
    <3>3. LocalsInv' /\ BuildInv'
      BY <2>3, <3>1, <2>0 DEF IInv, LocalsInv, BuildInv, StageInv
    <3>4. OrderInv'
      BY <1>3, <2>2, <3>1 DEF SaveFinish, IInv, OrderInv, Candidate
    <3>5. MemoryInv'
      BY <1>1, <2>0, <2>1, <3>1 DEF IInv, MemoryInv, Stopped
    <3>6. PublishInv'
      BY <1>3, <2>0, <2>1, <3>1, <3>2 DEF SaveFinish, IInv, PublishInv, Intact
    <3> QED
      BY <2>2, <3>3, <3>4, <3>5, <3>6 DEF IInv
  <2>4. CASE next # "retain"
    <3>1. Rest(next) /\ next \in {"idle", "down"}
      BY <1>3, <2>4 DEF SaveFinish, IInv, TypeOK
    <3>2. LocalsInv' /\ BuildInv' /\ PublishInv'
      BY <3>1 DEF Rest, LocalsInv, BuildInv, StageInv, PublishInv
    <3>3. OrderInv'
      BY <1>3, <2>2, <3>1 DEF SaveFinish, Rest, IInv, OrderInv, Candidate
    <3>4. MemoryInv'
      BY <1>1, <1>3, <2>0, <2>1, <3>1 DEF SaveFinish, Rest, IInv, MemoryInv, Stopped, NoMark
    <3> QED
      BY <2>2, <3>2, <3>3, <3>4 DEF IInv
  <2> QED
    BY <2>3, <2>4
<1>4. CASE SaveFails
  <2>1. /\ pc \in {"save", "saving"} /\ UNCHANGED <<head, latest, dirs, stateFile>>
        /\ \/ Rest("down") /\ mem' = NoMark
           \/ Rest("idle") /\ mem' = Mark
    BY <1>4 DEF SaveFails
  <2>2. AbsentInv' /\ WholeInv' /\ RecordedSnapshotIntact' /\ Present' = Present
    BY <1>1, <2>1, SaveFrame
  <2>3. LocalsInv' /\ BuildInv' /\ PublishInv'
    BY <2>1 DEF Rest, LocalsInv, BuildInv, StageInv, PublishInv
  <2>4. OrderInv'
    BY <2>1, <2>2 DEF Rest, IInv, OrderInv, Candidate
  <2>5. MemoryInv'
    BY <1>1, <2>1, MarkInv DEF Rest, IInv, MemoryInv, Stopped, NoMark
  <2> QED
    BY <2>2, <2>3, <2>4, <2>5 DEF IInv
<1> QED
  BY <1>2, <1>3, <1>4 DEF SaveStep

-----------------------------------------------------------------------------
(* Retention *)

\* The newest directory is never in excess.
LEMMA TargetIsKept ==
  ASSUME IInv, target \in Epochs, MaxSnapshots # 0
  PROVE  \A e \in Excess : e \in Present /\ e < target
<1>1. \A e \in Present : e <= target
  BY DEF IInv, OrderInv, Epochs, NoEpoch
<1>2. \A e \in Present : e \in Nat
  BY DEF Present, Epochs
<1>3. target \notin Excess
  <2>1. Newer(target) = {}
    BY <1>1, <1>2 DEF Newer, Epochs
  <2>2. Cardinality(Newer(target)) = 0
    BY <2>1, FS_EmptySet
  <2> QED
    BY <2>2, CountsAssumption DEF Excess
<1> QED
  BY <1>1, <1>2, <1>3 DEF Excess, Epochs

\* The directory of one doomed epoch changes; what is recorded is another.
LEMMA EvictFrame ==
  ASSUME IInv, pc = "evict", NEW e \in doomed, NEW d,
         dirs' = [dirs EXCEPT ![e] = d], d = AbsentDir \/ d.present,
         UNCHANGED <<head, latest, stateFile, mem>>
  PROVE  /\ AbsentInv' /\ WholeInv' /\ RecordedSnapshotIntact' /\ Present' \subseteq Present
         /\ dirs'[target] = dirs[target]
         /\ d.present => Present' = Present
         /\ \A f \in Present : f = e \/ f \in Present'
<1>1. /\ target \in Epochs /\ mem.epoch = target /\ stateFile.mark.epoch = target
      /\ e \in Present /\ e \in Epochs /\ e < target /\ DOMAIN dirs = Epochs
  BY DEF IInv, TypeOK, PublishInv, Present, Targeted, Epochs, NoEpoch
<1>2. e # target
  BY <1>1 DEF Epochs
<1>3. dirs'[e] = d /\ \A f \in Epochs \ {e} : dirs'[f] = dirs[f]
  BY <1>1
<1>4. AbsentInv'
  BY <1>3 DEF IInv, AbsentInv
<1>5. Present' \subseteq Present /\ \A f \in Present : f = e \/ f \in Present'
  BY <1>1, <1>3 DEF Present
<1>6. d.present => Present' = Present
  BY <1>1, <1>3 DEF Present
<1>7. WholeInv'
  BY <1>1, <1>3, <1>5 DEF IInv, WholeInv, Present
<1>8. RecordedSnapshotIntact'
  BY <1>1, <1>2, <1>3 DEF IInv, RecordedSnapshotIntact, CheckpointBlock, ScheduleOf
<1> QED
  BY <1>1, <1>2, <1>3, <1>4, <1>5, <1>6, <1>7, <1>8

LEMMA RetentionInv == IInv /\ TypeOK' /\ RetentionStep => IInv'
<1> SUFFICES ASSUME IInv, TypeOK', RetentionStep
             PROVE  IInv'
  OBVIOUS
<1> USE DEF env, disk, locals, budget
<1>1. CASE Retain
  <2>1. CASE Rest("idle")
    BY <1>1, <2>1, RestInv DEF Retain, Stopped
  <2>2. CASE ~Rest("idle")
    <3>1. /\ pc = "retain" /\ MaxSnapshots # 0
          /\ pc' = "evict" /\ doomed' = Excess /\ UNCHANGED <<seen, target, next>>
      BY <1>1, <2>2 DEF Retain
    <3>2. AbsentInv' /\ WholeInv' /\ RecordedSnapshotIntact' /\ Present' = Present
      BY <1>1, DiskFrame DEF Retain
    <3>3. target \in Epochs
      BY <3>1 DEF IInv, TypeOK, Targeted
    <3>4. LocalsInv' /\ MemoryInv' /\ BuildInv'
      BY <1>1, <3>1 DEF Retain, IInv, LocalsInv, MemoryInv, BuildInv, StageInv, Stopped
    <3>5. OrderInv'
      BY <1>1, <3>1, <3>2 DEF Retain, IInv, OrderInv, Candidate
    <3>6. PublishInv'
      BY <1>1, <3>1, <3>2, <3>3, TargetIsKept DEF Retain, IInv, PublishInv
    <3> QED
      BY <3>2, <3>4, <3>5, <3>6 DEF IInv
  <2> QED
    BY <2>1, <2>2
<1>2. CASE EvictEntry
  <2>0. PICK e \in OldestDoomed :
          \E d \in WithoutOneEntry(dirs[e]) : dirs' = [dirs EXCEPT ![e] = d]
    BY <1>2 DEF EvictEntry
  <2>1. PICK d \in WithoutOneEntry(dirs[e]) : dirs' = [dirs EXCEPT ![e] = d]
    BY <2>0
  <2>2. pc = "evict" /\ e \in doomed /\ dirs[e] \in Dirs /\ dirs[e].present
    BY <1>2 DEF EvictEntry, OldestDoomed, IInv, TypeOK, PublishInv, Present
  <2>3. d.present
    BY <2>1, <2>2 DEF WithoutOneEntry, Dirs
  <2>4. /\ AbsentInv' /\ WholeInv' /\ RecordedSnapshotIntact' /\ Present' = Present
        /\ dirs'[target] = dirs[target]
    BY <1>2, <2>1, <2>2, <2>3, EvictFrame DEF EvictEntry
  <2>5. LocalsInv' /\ MemoryInv' /\ BuildInv'
    BY <1>2 DEF EvictEntry, IInv, LocalsInv, MemoryInv, BuildInv, StageInv
  <2>6. OrderInv' /\ PublishInv'
    BY <1>2, <2>4 DEF EvictEntry, IInv, OrderInv, PublishInv, Candidate
  <2> QED
    BY <2>4, <2>5, <2>6 DEF IInv
<1>3. CASE EvictDone
  <2>1. PICK e \in OldestDoomed :
          /\ dirs' = [dirs EXCEPT ![e] = AbsentDir]
          /\ IF doomed = {e}
               THEN Rest("idle")
               ELSE doomed' = doomed \ {e} /\ UNCHANGED <<pc, seen, target, next>>
    BY <1>3 DEF EvictDone
  <2>2. pc = "evict" /\ e \in doomed
    BY <1>3 DEF EvictDone, OldestDoomed
  <2>3. /\ AbsentInv' /\ WholeInv' /\ RecordedSnapshotIntact' /\ Present' \subseteq Present
        /\ dirs'[target] = dirs[target]
        /\ \A f \in Present : f = e \/ f \in Present'
    BY <1>3, <2>1, <2>2, EvictFrame DEF EvictDone
  <2>4. Candidate(head)' = Candidate(head)
    BY <1>3 DEF EvictDone, Candidate
  <2>5. CASE Rest("idle")
    <3>1. LocalsInv' /\ MemoryInv' /\ BuildInv' /\ PublishInv'
      BY <1>3, <2>2, <2>5 DEF EvictDone, Rest, IInv, LocalsInv, MemoryInv, BuildInv,
                              StageInv, PublishInv, Stopped
    <3>2. OrderInv'
      BY <2>3, <2>4, <2>5 DEF Rest, IInv, OrderInv
    <3> QED
      BY <2>3, <3>1, <3>2 DEF IInv
  <2>6. CASE doomed' = doomed \ {e} /\ UNCHANGED <<pc, seen, target, next>>
    <3>1. LocalsInv' /\ MemoryInv' /\ BuildInv'
      BY <1>3, <2>2, <2>6 DEF EvictDone, IInv, LocalsInv, MemoryInv, BuildInv, StageInv
    <3>2. OrderInv'
      BY <2>2, <2>3, <2>4, <2>6 DEF IInv, OrderInv
    <3>3. PublishInv'
      BY <1>3, <2>2, <2>3, <2>6 DEF EvictDone, IInv, PublishInv
    <3> QED
      BY <2>3, <3>1, <3>2, <3>3 DEF IInv
  <2> QED
    BY <2>1, <2>5, <2>6
<1> QED
  BY <1>1, <1>2, <1>3 DEF RetentionStep

-----------------------------------------------------------------------------
(* Failures, shutdown, crashes and the environment *)

LEMMA StopInv ==
  IInv /\ TypeOK' /\ (StepFails \/ Shutdown \/ ServerStopped \/ Crash) => IInv'
<1> SUFFICES ASSUME IInv, TypeOK', StepFails \/ Shutdown \/ ServerStopped \/ Crash
             PROVE  IInv'
  OBVIOUS
<1> USE DEF env, disk, locals, budget
<1>1. CASE StepFails
  BY <1>1, RestInv DEF StepFails, Stopped
<1>2. CASE Shutdown \/ ServerStopped
  <2>1. AbsentInv' /\ WholeInv' /\ RecordedSnapshotIntact' /\ Present' = Present
    BY <1>2, DiskFrame DEF Shutdown, ServerStopped
  <2>2. target = NoEpoch /\ target' = NoEpoch
    BY <1>2 DEF Shutdown, ServerStopped, SaveThen, IInv, LocalsInv
  <2>3. LocalsInv' /\ OrderInv' /\ MemoryInv' /\ BuildInv' /\ PublishInv'
    BY <1>2, <2>1, <2>2 DEF Shutdown, ServerStopped, SaveThen, IInv, LocalsInv, OrderInv,
         MemoryInv, BuildInv, StageInv, PublishInv, Stopped, Candidate
  <2> QED
    BY <2>1, <2>3 DEF IInv
<1>3. CASE Crash
  <2>1. /\ Rest("down") /\ mem' = NoMark
        /\ UNCHANGED <<head, latest, dirs, stateFile>>
    BY <1>3 DEF Crash, ProcessDies
  <2>2. LocalsInv' /\ BuildInv' /\ PublishInv' /\ AbsentInv' /\ WholeInv'
    BY <2>1 DEF Rest, IInv, LocalsInv, BuildInv, StageInv, PublishInv, AbsentInv, WholeInv,
                Present
  <2>3. OrderInv'
    BY <2>1 DEF Rest, IInv, OrderInv, Present, Candidate
  <2>4. MemoryInv' /\ RecordedSnapshotIntact'
    BY <2>1 DEF Rest, IInv, MemoryInv, RecordedSnapshotIntact, NoMark, Stopped,
                CheckpointBlock, ScheduleOf
  <2> QED
    BY <2>2, <2>3, <2>4 DEF IInv
<1> QED
  BY <1>1, <1>2, <1>3

LEMMA EnvironmentInv == IInv /\ TypeOK' /\ Environment => IInv'
<1> SUFFICES ASSUME IInv, TypeOK', Environment
             PROVE  IInv'
  OBVIOUS
<1> USE DEF disk, locals, budget
<1>1. UNCHANGED <<disk, pc, mem, locals, serving, budget>>
  BY DEF Environment, AdvanceHead, SummitCheckpoint
<1>2. AbsentInv' /\ WholeInv' /\ RecordedSnapshotIntact' /\ Present' = Present
  BY <1>1, DiskFrame
<1>3. LocalsInv' /\ MemoryInv' /\ BuildInv'
  BY <1>1 DEF IInv, LocalsInv, MemoryInv, BuildInv
<1>4. PublishInv'
  BY <1>1, <1>2 DEF IInv, PublishInv, Mark, CheckpointBlock, ScheduleOf
<1>5. /\ head \in Nat /\ head' \in Nat /\ head <= head' /\ seen \in Nat
      /\ latest \in Epochs \cup {NoEpoch} /\ latest' \in Epochs \cup {NoEpoch}
      /\ latest' >= latest
  BY DEF Environment, AdvanceHead, SummitCheckpoint, IInv, TypeOK, Epochs, NoEpoch, env
<1>6. /\ Candidate(head) <= Candidate(head)' /\ Candidate(seen) <= Candidate(seen)'
      /\ {Candidate(head), Candidate(seen), Candidate(head)', Candidate(seen)'} \subseteq Int
  <2>1. latest \in Int /\ latest' \in Int
    BY <1>5 DEF Epochs, NoEpoch
  <2>2. /\ EpochOf(head, EpochBlocks) <= EpochOf(head', EpochBlocks)
        /\ {EpochOf(head, EpochBlocks), EpochOf(head', EpochBlocks), EpochOf(seen, EpochBlocks)}
             \subseteq Nat
    BY <1>5, EpochOfMonotone, EpochOfBounds, EpochBlocksAssumption
  <2> QED
    BY <1>1, <1>5, <2>1, <2>2 DEF Candidate
<1>7. OrderInv'
  <2>1. \A e \in Present : e \in Int
    BY DEF Present, Epochs
  <2>2. target \in Int
    BY DEF IInv, TypeOK, Epochs, NoEpoch
  <2>3. \A e \in Present : e <= Candidate(head)'
    BY <1>6, <2>1 DEF IInv, OrderInv
  <2>4. pc = "polled" => seen <= head' /\ \A e \in Present : e <= Candidate(seen)'
    BY <1>5, <1>6, <2>1 DEF IInv, OrderInv
  <2>5. target # NoEpoch => target <= Candidate(head)' /\ \A e \in Present : e <= target
    BY <1>6, <2>2 DEF IInv, OrderInv
  <2> QED
    BY <1>1, <1>2, <2>3, <2>4, <2>5 DEF OrderInv
<1> QED
  BY <1>2, <1>3, <1>4, <1>7 DEF IInv

LEMMA StutterInv == IInv /\ UNCHANGED vars => IInv'
BY DEF vars, env, disk, locals, budget, IInv, TypeOK, LocalsInv, AbsentInv, OrderInv,
       MemoryInv, WholeInv, BuildInv, PublishInv, RecordedSnapshotIntact, Present,
       Candidate, Mark, CheckpointBlock, ScheduleOf

LEMMA StepInv == IInv /\ [Next]_vars => IInv'
<1> SUFFICES ASSUME IInv, [Next]_vars
             PROVE  IInv'
  OBVIOUS
<1>1. TypeOK'
  BY StepType DEF IInv
<1>2. CASE Next
  BY <1>1, <1>2, StartupInv, MonitorInv, CreateInv, SaveInv, RetentionInv, StopInv,
     EnvironmentInv DEF Next, Progress, Failure
<1> QED
  BY <1>2, StutterInv

\* The inductive invariant holds in every reachable state.
THEOREM Invariance == Spec => []IInv
BY InitInv, StepInv, PTL DEF Spec

LEMMA AloneUncontended == IInv => Uncontended /\ ~Contended
<1> SUFFICES ASSUME IInv
             PROVE  Uncontended /\ ~Contended
  OBVIOUS
<1>1. ASSUME pc = "rename"
      PROVE  IsEmptyDir(dirs[target])
  <2>1. target \in Epochs /\ ~dirs[target].present
    BY <1>1 DEF IInv, TypeOK, PublishInv, Targeted
  <2> QED
    BY <2>1 DEF IInv, AbsentInv, IsEmptyDir, AbsentDir, NoFile
<1>2. pc # "rmFinal"
  BY DEF IInv, PublishInv
<1> QED
  BY <1>1, <1>2 DEF Uncontended, Contended, RmFinalEntry, RmFinalDone, RenameRefused

\* Without another writer in the output directory the manager never has to remove
\* a published directory of its target, and its rename is never refused.
THEOREM NeverContended == Spec => []Uncontended
BY AloneUncontended, Invariance, PTL

\* The service never believes in a snapshot that is not on disk, whole and, in
\* Summit mode, certified by its manifest, nor in one of another block.
THEOREM RecordedIsIntact == Spec => []RecordedSnapshotIntact
<1>1. IInv => RecordedSnapshotIntact
  BY DEF IInv
<1> QED
  BY <1>1, Invariance, PTL

-----------------------------------------------------------------------------
(* What the process keeps, whoever else writes the output directory: its    *)
(* memory, its working directory, and so what it publishes and records.     *)

\* What the tracker holds is not newer than the target, once it was compared.
TargetInv ==
  /\ target # NoEpoch /\ pc # "startupDecide" => mem.epoch <= target
  /\ pc = "saving" => mem = Mark

\* Downloads do not work in a working directory.
WorkInv == \A e \in Epochs : work[e].temp = NoFile

OwnInv == TypeOK /\ LocalsInv /\ MemoryInv /\ TargetInv /\ WorkInv /\ BuildInv

\* The steps that write neither the state file nor the tracker's memory.
LEMMA StateFrame ==
  ASSUME LivingStep \/ Contended,
         ~(LoadState \/ ToolsMissing \/ SaveBegin \/ SaveFinish \/ SaveFails)
  PROVE  UNCHANGED <<stateFile, mem>>
<1> USE DEF env, disk, locals, budget
<1>1. CASE StartupStep
  BY <1>1 DEF StartupStep, StartupDiscover, StartupDecide, StartupHead, StartServer
<1>2. CASE Poll \/ MonitorDiscover \/ RetentionStep
  BY <1>2 DEF Poll, MonitorDiscover, RetentionStep, Retain, EvictEntry, EvictDone
<1>3. CASE BuildStep
  BY <1>3, BuildChanges
<1>4. CASE Check \/ RenameSucceeds \/ Abort \/ Contended
  BY <1>4 DEF Check, RenameSucceeds, Abort, Contended, RmFinalEntry, RmFinalDone, RenameRefused
<1>5. CASE LoadFails \/ ServerStopped \/ Shutdown \/ Environment
  BY <1>5 DEF LoadFails, ServerStopped, Shutdown, Environment, AdvanceHead, SummitCheckpoint
<1>6. CASE BuildFails \/ RmWorkFails \/ StepFails
  BY <1>6 DEF BuildFails, RmWorkFails, StepFails
<1> QED
  BY <1>1, <1>2, <1>3, <1>4, <1>5, <1>6 DEF LivingStep, Progress, CreateStep, SaveStep, Failure

\* The steps that leave the published directories alone.
LEMMA DirsFrame ==
  ASSUME LivingStep \/ Crash, ~(RenameSucceeds \/ EvictEntry \/ EvictDone)
  PROVE  UNCHANGED dirs
<1> USE DEF env, disk, locals, budget
<1>1. CASE StartupStep \/ Poll \/ MonitorDiscover \/ Retain
  BY <1>1 DEF StartupStep, LoadState, StartupDiscover, StartupDecide, StartupHead,
              StartServer, Poll, MonitorDiscover, Retain
<1>2. CASE BuildStep
  BY <1>2, BuildChanges
<1>3. CASE Check \/ Abort \/ SaveStep
  BY <1>3 DEF Check, Abort, SaveStep, SaveBegin, SaveFinish
<1>4. CASE LoadFails \/ ServerStopped \/ Shutdown \/ Crash \/ Environment
  BY <1>4 DEF LoadFails, ServerStopped, Shutdown, Crash, Environment, AdvanceHead,
              SummitCheckpoint
<1>5. CASE Failure
  BY <1>5 DEF Failure, ToolsMissing, BuildFails, RmWorkFails, SaveFails, StepFails
<1> QED
  BY <1>1, <1>2, <1>3, <1>4, <1>5 DEF LivingStep, Progress, CreateStep, RetentionStep

LEMMA StateStep ==
  ASSUME OwnInv, OwnStep
  PROVE  /\ stateFile'.mark.epoch >= stateFile.mark.epoch
         /\ mem'.epoch >= mem.epoch \/ pc' \in Stopped
<1> USE DEF disk
<1>1. /\ {stateFile.mark.epoch, mem.epoch} \subseteq Int /\ stateFile.mark.epoch >= NoEpoch
      /\ pc \notin Stopped => mem.epoch >= stateFile.mark.epoch
  BY DEF OwnInv, TypeOK, MemoryInv, Marks, Epochs, NoEpoch
<1>2. CASE UNCHANGED <<stateFile, mem>>
  BY <1>1, <1>2
<1>3. CASE LoadState
  BY <1>1, <1>3 DEF LoadState, OwnInv, MemoryInv, NoMark
<1>4. CASE ToolsMissing \/ ProcessDies
  BY <1>1, <1>4 DEF ToolsMissing, ProcessDies, Rest, Goto, Stopped
<1>5. CASE SaveBegin \/ SaveFails
  <2>1. Mark.epoch >= mem.epoch /\ stateFile'.mark = stateFile.mark
    BY <1>1, <1>5 DEF SaveBegin, SaveFails, OwnInv, TypeOK, TargetInv, Mark, Epochs, NoEpoch
  <2>2. mem' = Mark \/ pc' \in Stopped
    BY <1>5 DEF SaveBegin, SaveFails, Rest, Stopped
  <2> QED
    BY <1>1, <2>1, <2>2
<1>6. CASE SaveFinish
  <2>1. pc \notin Stopped /\ stateFile'.mark = mem
    BY <1>6 DEF SaveFinish, Stopped
  <2>2. mem' = mem \/ pc' \in Stopped
    BY <1>6 DEF SaveFinish, Rest, Stopped
  <2> QED
    BY <1>1, <2>1, <2>2
<1> QED
  BY <1>2, <1>3, <1>4, <1>5, <1>6, StateFrame DEF OwnStep

LEMMA InterruptedTemp ==
  ASSUME NEW d \in Dirs, NEW stage, NEW x \in Interrupted(stage, d)
  PROVE  x.temp = d.temp
BY DEF Interrupted, Remnants, Without, Dirs

LEMMA WorkStep == OwnInv /\ OwnStep => WorkInv'
<1> SUFFICES ASSUME OwnInv, OwnStep
             PROVE  WorkInv'
  OBVIOUS
<1> DEFINE w == work[target]
<1> USE DEF disk
<1>1. CASE UNCHANGED work
  BY <1>1 DEF OwnInv, WorkInv
<1>2. ASSUME NEW d, d.temp = NoFile, work' = [work EXCEPT ![target] = d]
      PROVE  WorkInv'
  BY <1>2 DEF OwnInv, TypeOK, WorkInv
<1>3. target # NoEpoch => w \in Dirs /\ w.temp = NoFile
  BY DEF OwnInv, TypeOK, WorkInv
<1>4. AbsentDir.temp = NoFile
  BY DEF AbsentDir
<1>5. ASSUME target # NoEpoch, NEW stage,
             \E d \in Interrupted(stage, w) : work' = [work EXCEPT ![target] = d]
      PROVE  WorkInv'
  BY <1>2, <1>3, <1>5, InterruptedTemp
<1>6. CASE BuildStep
  <2>1. target # NoEpoch
    BY <1>6, BuildChanges DEF OwnInv, TypeOK, Targeted
  <2>2. Created(w).temp = NoFile
    BY <1>3, <2>1 DEF Created, EmptyDir, AbsentDir, Dirs
  <2>3. \A new : Adding(new).temp = NoFile
    BY <1>3, <2>1 DEF Adding, Dirs
  <2>4. \A x : /\ [w EXCEPT !.parts = x].temp = NoFile /\ [w EXCEPT !.archive = x].temp = NoFile
               /\ [w EXCEPT !.manifest = x].temp = NoFile
    BY <1>3, <2>1 DEF Dirs
  <2>5. \E d : d.temp = NoFile /\ work' = [work EXCEPT ![target] = d]
    <3> USE DEF Build
    <3>1. CASE RmWork \/ Mkdir \/ CopyDb \/ CopyStatic \/ DeleteLock
      BY <1>4, <2>2, <2>3, <2>4, <3>1 DEF RmWork, Mkdir, CopyDb, CopyStatic, DeleteLock
    <3>2. CASE Unwind \/ Bundle \/ WriteMetadata \/ Prune
      BY <2>3, <2>4, <3>2 DEF Unwind, Bundle, WriteMetadata, Prune
    <3>3. CASE Compress
      BY <2>4, <3>3 DEF Compress
    <3>4. CASE WriteManifest
      BY <1>3, <2>1, <2>4, <3>4 DEF WriteManifest
    <3> QED
      BY <1>6, <3>1, <3>2, <3>3, <3>4 DEF BuildStep
  <2> QED
    BY <1>2, <2>5
<1>7. CASE RenameSucceeds \/ Abort
  BY <1>2, <1>4, <1>7 DEF RenameSucceeds, Abort
<1>8. CASE BuildFails \/ RmWorkFails
  <2>1. target # NoEpoch
    BY <1>8 DEF BuildFails, RmWorkFails, OwnInv, TypeOK, Targeted
  <2> QED
    BY <1>5, <1>8, <2>1 DEF BuildFails, RmWorkFails
<1>9. CASE ProcessDies
  BY <1>1, <1>5, <1>9 DEF ProcessDies
<1>10. CASE StartupStep \/ Poll \/ MonitorDiscover \/ Check \/ Contended \/ SaveStep \/ RetentionStep
  BY <1>1, <1>10 DEF StartupStep, LoadState, StartupDiscover, StartupDecide, StartupHead,
     StartServer, Poll, MonitorDiscover, Check, Contended, RmFinalEntry, RmFinalDone,
     RenameRefused, SaveStep, SaveBegin, SaveFinish, RetentionStep, Retain, EvictEntry, EvictDone
<1>11. CASE LoadFails \/ ServerStopped \/ Shutdown \/ Environment \/ ToolsMissing \/ SaveFails \/ StepFails
  BY <1>1, <1>11 DEF LoadFails, ServerStopped, Shutdown, Environment, AdvanceHead,
     SummitCheckpoint, ToolsMissing, SaveFails, StepFails
<1> QED
  BY <1>6, <1>7, <1>8, <1>9, <1>10, <1>11
     DEF OwnStep, LivingStep, Progress, CreateStep, Failure

\* A step that ends the operation and leaves the state alone.
LEMMA OwnRest ==
  ASSUME OwnInv, pc \notin Stopped, Rest("idle"), UNCHANGED <<stateFile, mem>>
  PROVE  LocalsInv' /\ MemoryInv' /\ TargetInv' /\ BuildInv'
BY DEF OwnInv, Rest, LocalsInv, MemoryInv, TargetInv, BuildInv, StageInv, Stopped

LEMMA OwnInvStep == OwnInv /\ OwnStep /\ TypeOK' => OwnInv'
<1> SUFFICES ASSUME OwnInv, OwnStep, TypeOK'
             PROVE  LocalsInv' /\ MemoryInv' /\ TargetInv' /\ BuildInv'
  BY WorkStep DEF OwnInv
<1> USE DEF env, disk, locals, budget
<1>e. {mem.epoch, target} \subseteq Int
  BY DEF OwnInv, TypeOK, Marks, Epochs, NoEpoch
<1>1. CASE LoadState \/ LoadFails \/ ToolsMissing \/ StartServer
  <2> USE DEF LoadState, LoadFails, ToolsMissing, StartServer, Goto, OwnInv
  <2>1. LocalsInv' /\ BuildInv'
    BY <1>1 DEF LocalsInv, BuildInv, StageInv, Stopped
  <2>2. TargetInv'
    BY <1>1 DEF LocalsInv, TargetInv, Stopped
  <2>3. MemoryInv'
    BY <1>1 DEF TypeOK, MemoryInv, Stopped, NoMark, Marks, Epochs, NoEpoch
  <2> QED
    BY <2>1, <2>2, <2>3
<1>2. CASE StartupDiscover \/ Poll
  BY <1>2 DEF StartupDiscover, Poll, Rest, OwnInv, LocalsInv, MemoryInv, TargetInv, BuildInv,
     StageInv, Stopped
<1>3. CASE StartupDecide
  BY <1>e, <1>3 DEF StartupDecide, Satisfied, Rest, Goto, SaveThen, OwnInv, LocalsInv,
     MemoryInv, TargetInv, BuildInv, StageInv, Stopped
<1>4. CASE StartupHead
  BY <1>4 DEF StartupHead, Rest, Goto, OwnInv, LocalsInv, MemoryInv, TargetInv, BuildInv,
     StageInv, Stopped
<1>5. CASE MonitorDiscover
  <2>1. Candidate(seen) \in Epochs \cup {NoEpoch}
    BY CandidateType DEF OwnInv, TypeOK
  <2>2. CASE Rest("idle")
    BY <1>5, <2>2, OwnRest DEF MonitorDiscover, Stopped
  <2>3. CASE ~Rest("idle")
    <3>1. /\ pc' = "check" /\ target' = Candidate(seen) /\ ~NothingToDo(Candidate(seen))
          /\ UNCHANGED <<next, doomed, mem, stateFile>> /\ pc = "polled"
      BY <1>5, <2>3 DEF MonitorDiscover
    <3>2. mem.epoch <= target'
      BY <1>e, <2>1, <3>1 DEF NothingToDo, Satisfied, Epochs, NoEpoch
    <3> QED
      BY <3>1, <3>2 DEF OwnInv, LocalsInv, MemoryInv, TargetInv, BuildInv, StageInv, Stopped
  <2> QED
    BY <2>2, <2>3
<1>6. CASE Check \/ RmFinalEntry \/ RmFinalDone \/ RenameSucceeds
  BY <1>6 DEF Check, RmFinalEntry, RmFinalDone, RenameSucceeds, Goto, SaveThen, OwnInv, TypeOK,
     Targeted, LocalsInv, MemoryInv, TargetInv, BuildInv, StageInv, Stopped
<1>7. CASE BuildStep
  BY <1>7, AttemptStep, BuildChanges DEF OwnInv, LocalsInv, MemoryInv, TargetInv, BuildStages,
     Stopped
<1>8. CASE BuildFails
  BY <1>8 DEF BuildFails, Goto, BuildStages, OwnInv, LocalsInv, MemoryInv, TargetInv, BuildInv,
     StageInv, Stopped
<1>9. CASE RenameRefused \/ Abort \/ RmWorkFails \/ StepFails
  BY <1>9, OwnRest DEF RenameRefused, Abort, RmWorkFails, StepFails, Stopped
<1>10. CASE SaveBegin
  <2>1. TargetInv'
    <3>1. pc' = "saving" /\ mem' = Mark /\ UNCHANGED locals
      BY <1>10 DEF SaveBegin, Goto
    <3>2. target' # NoEpoch => mem'.epoch = target'
      BY <1>10, <3>1 DEF SaveBegin, OwnInv, LocalsInv, Mark
    <3>3. mem' = Mark'
      BY <3>1 DEF Mark, CheckpointBlock, ScheduleOf
    <3> QED
      BY <1>e, <3>1, <3>2, <3>3 DEF TargetInv
  <2>2. MemoryInv'
    BY <1>10 DEF SaveBegin, Goto, OwnInv, TypeOK, TargetInv, MemoryInv, Mark, Stopped, Marks,
       Epochs, NoEpoch
  <2> QED
    BY <1>10, <2>1, <2>2 DEF SaveBegin, Goto, OwnInv, LocalsInv, BuildInv, StageInv
<1>11. CASE SaveFinish
  <2>1. MemoryInv'
    BY <1>e, <1>11 DEF SaveFinish, Rest, OwnInv, TypeOK, MemoryInv, LocalsInv, Stopped, NoMark
  <2>2. TargetInv' /\ LocalsInv'
    BY <1>11 DEF SaveFinish, Rest, OwnInv, TypeOK, TargetInv, LocalsInv
  <2> QED
    BY <1>11, <2>1, <2>2 DEF SaveFinish, Rest, OwnInv, TypeOK, BuildInv, StageInv
<1>12. CASE SaveFails
  <2>1. MemoryInv'
    BY <1>12 DEF SaveFails, Rest, OwnInv, TypeOK, TargetInv, MemoryInv, Mark, Stopped, Marks,
       Epochs, NoEpoch, NoMark
  <2> QED
    BY <1>12, <2>1 DEF SaveFails, Rest, OwnInv, LocalsInv, TargetInv, BuildInv, StageInv
<1>13. CASE Retain \/ EvictEntry \/ EvictDone
  BY <1>13 DEF Retain, EvictEntry, EvictDone, Rest, OwnInv, LocalsInv, MemoryInv, TargetInv,
     BuildInv, StageInv, Stopped
<1>14. CASE Shutdown \/ ServerStopped
  BY <1>14 DEF Shutdown, ServerStopped, SaveThen, OwnInv, LocalsInv, MemoryInv, TargetInv,
     BuildInv, StageInv, Stopped
<1>15. CASE ProcessDies
  BY <1>15 DEF ProcessDies, Rest, OwnInv, LocalsInv, MemoryInv, TargetInv, BuildInv, StageInv,
     Stopped, NoMark
<1>16. CASE Environment
  BY <1>16 DEF Environment, AdvanceHead, SummitCheckpoint, OwnInv, LocalsInv, MemoryInv,
     TargetInv, BuildInv, Mark, CheckpointBlock, ScheduleOf
<1> QED
  BY <1>1, <1>2, <1>3, <1>4, <1>5, <1>6, <1>7, <1>8, <1>9, <1>10, <1>11, <1>12, <1>13, <1>14,
     <1>15, <1>16 DEF OwnStep, LivingStep, Progress, StartupStep, CreateStep, Contended,
     SaveStep, RetentionStep, Failure

LEMMA OwnInit == Init => OwnInv
<1> SUFFICES ASSUME Init
             PROVE  OwnInv
  OBVIOUS
<1>1. IInv /\ AbsentDir.temp = NoFile
  BY InitInv DEF AbsentDir
<1> QED
  BY <1>1 DEF Init, IInv, OwnInv, TargetInv, WorkInv

\* The process keeps to OwnInv.
THEOREM OwnInvariance == Spec => []OwnInv
<1>1. Init => OwnInv
  BY OwnInit
<1>2. OwnInv /\ [Next]_vars => OwnInv'
  <2> SUFFICES ASSUME OwnInv, [Next]_vars
               PROVE  OwnInv'
    OBVIOUS
  <2>1. TypeOK'
    BY StepType DEF OwnInv
  <2>2. CASE Next
    BY <2>1, <2>2, OwnInvStep, NextSteps DEF OwnStep, Crash
  <2>3. CASE UNCHANGED vars
    BY <2>1, <2>3 DEF vars, disk, locals, OwnInv, LocalsInv, MemoryInv, TargetInv, WorkInv,
       BuildInv, Mark, CheckpointBlock, ScheduleOf
  <2> QED
    BY <2>2, <2>3
<1> QED
  BY <1>1, <1>2, PTL DEF Spec

\* No step takes the recorded epoch back, on disk or, while the process lives, in
\* memory: not a late sync, not a retry, not the save at shutdown.
THEOREM StateOnlyAdvances == Spec => StateNeverRegresses
<1>1. OwnInv /\ [Next]_vars =>
        [/\ stateFile'.mark.epoch >= stateFile.mark.epoch
         /\ mem'.epoch >= mem.epoch \/ pc' \in Stopped]_vars
  BY StateStep, NextSteps DEF OwnStep, Crash
<1> QED
  BY <1>1, OwnInvariance, PTL DEF Spec, StateNeverRegresses

-----------------------------------------------------------------------------
(* What is served.  A directory in eviction is not intact any more, but the   *)
(* archive in it, while it is there, still is.                                *)

\* Only cleanup_old_snapshots chooses what is to be evicted.
LEMMA DoomedFrame ==
  ASSUME IInv, Next, ~RetentionStep
  PROVE  pc' = "evict" => pc = "evict" /\ doomed' = doomed
<1> USE DEF env, disk, locals, budget
<1>1. CASE StartupStep \/ Poll \/ MonitorDiscover
  BY <1>1 DEF StartupStep, LoadState, StartupDiscover, StartupDecide, StartupHead,
              StartServer, Poll, MonitorDiscover, Goto, Rest, SaveThen
<1>2. CASE BuildStep
  BY <1>2 DEF BuildStep, Build, RmWork, Mkdir, CopyDb, CopyStatic, DeleteLock, Unwind,
              Bundle, WriteMetadata, Compress, Prune, WriteManifest, Goto
<1>3. CASE Check \/ RenameSucceeds \/ Abort \/ SaveStep
  BY <1>3 DEF Check, RenameSucceeds, Abort, SaveStep, SaveBegin, SaveFinish, Goto, Rest,
              SaveThen, IInv, TypeOK
<1>4. CASE LoadFails \/ ServerStopped \/ Shutdown \/ Crash
  BY <1>4 DEF LoadFails, ServerStopped, Shutdown, Crash, ProcessDies, Goto, Rest, SaveThen
<1>5. CASE Failure
  BY <1>5 DEF Failure, ToolsMissing, BuildFails, RmWorkFails, SaveFails, StepFails, Goto, Rest
<1>6. CASE Environment
  BY <1>6 DEF Environment, AdvanceHead, SummitCheckpoint
<1> QED
  BY <1>1, <1>2, <1>3, <1>4, <1>5, <1>6 DEF Next, Progress, CreateStep

\* The manager changes a directory by removing entries, or by publishing its own,
\* whole, where nothing was.
LEMMA OwnDirs ==
  ASSUME OwnInv, LivingStep \/ Contended, NEW e \in Epochs
  PROVE  /\ \/ dirs'[e].archive \in {dirs[e].archive, NoFile}
            \/ RenameSucceeds /\ e = target /\ Intact(dirs'[e])
         /\ dirs'[e].temp \in {dirs[e].temp, NoFile}
<1>1. DOMAIN dirs = Epochs /\ \A f \in Epochs : dirs[f] \in Dirs
  BY DEF OwnInv, TypeOK
<1>2. \A f \in Epochs : \A d \in WithoutOneEntry(dirs[f]) \cup {AbsentDir} :
        d.archive \in {dirs[f].archive, NoFile} /\ d.temp \in {dirs[f].temp, NoFile}
  BY <1>1 DEF WithoutOneEntry, AbsentDir, Dirs
<1>3. CASE UNCHANGED dirs
  BY <1>3
<1>4. CASE RenameSucceeds
  <2>1. Intact(work[target]) /\ work[target].temp = NoFile
    BY <1>4 DEF RenameSucceeds, OwnInv, TypeOK, WorkInv, BuildInv, StageInv, Targeted
  <2> QED
    BY <1>1, <1>4, <2>1 DEF RenameSucceeds
<1>5. CASE EvictEntry \/ EvictDone \/ RmFinalEntry \/ RmFinalDone
  <2>1. \E f \in Epochs : \E d \in WithoutOneEntry(dirs[f]) \cup {AbsentDir} :
          dirs' = [dirs EXCEPT ![f] = d]
    BY <1>5 DEF EvictEntry, EvictDone, RmFinalEntry, RmFinalDone, OldestDoomed, OwnInv, TypeOK,
                Targeted
  <2> QED
    BY <1>1, <1>2, <2>1
<1> QED
  BY <1>3, <1>4, <1>5, DirsFrame DEF Contended, RenameRefused, disk

LEMMA ServedStep ==
  OwnInv /\ ServedArchiveComplete /\ (LivingStep \/ Contended) => ServedArchiveComplete'
BY OwnDirs DEF ServedArchiveComplete, Intact, NoFile

\* Every archive built here and served is complete, whatever attempt it stems
\* from and however often that was interrupted, also while it is being evicted.
THEOREM ServedIsComplete == Spec => []ServedArchiveComplete
<1>1. Init => ServedArchiveComplete
  BY DEF Init, ServedArchiveComplete, AbsentDir, NoFile
<1>2. OwnInv /\ ServedArchiveComplete /\ [Next]_vars => ServedArchiveComplete'
  BY ServedStep, NextSteps DEF Crash, vars, disk, ServedArchiveComplete
<1> QED
  BY <1>1, <1>2, OwnInvariance, PTL DEF Spec

-----------------------------------------------------------------------------
(* The epochs from n up, as long as other writers keep away from them: what  *)
(* they do to older ones does not disturb these.                             *)

\* What the monitor and the target are bounded by, and what is recorded when
\* cleanup_old_snapshots runs.
ReachInv ==
  /\ pc = "polled" => seen <= head
  /\ target # NoEpoch => target <= Candidate(head)
  /\ pc \in {"retain", "evict"} => mem.epoch = target /\ stateFile.mark.epoch = target

\* The directory of e is not newer than the chain, than what the monitor is about to
\* consider, or than the target; it is whole until a newer one is recorded, and there
\* while it is; nothing of it is in the way of an attempt, and it is not evicted while
\* it is the newest.
DirInv(e) ==
  /\ ~dirs[e].present => dirs[e] = AbsentDir
  /\ dirs[e].present =>
       /\ Intact(dirs[e]) \/ e < stateFile.mark.epoch
       /\ e <= Candidate(head)
       /\ pc = "polled" => e <= Candidate(seen)
       /\ target # NoEpoch => e <= target
  /\ e \in {mem.epoch, stateFile.mark.epoch} => Intact(dirs[e])
  /\ target = e =>
       /\ pc # "rmFinal"
       /\ pc \in BuildStages \cup {"rmWork", "rename"} => ~dirs[e].present
       /\ pc \in {"save", "saving"} => Intact(dirs[e])
       /\ pc \in {"retain", "evict"} => dirs[e].present
  /\ pc = "evict" /\ e \in doomed => e < target

UpperInv(n) == ReachInv /\ \A e \in Epochs : e >= n => DirInv(e)

LEMMA UpperInit == Init => \A n \in Epochs : UpperInv(n)
<1> SUFFICES ASSUME Init, NEW e \in Epochs
             PROVE  ReachInv /\ DirInv(e)
  BY DEF UpperInv
<1>1. dirs[e] = AbsentDir /\ AbsentDir.present = FALSE
  BY DEF Init, AbsentDir
<1>2. e # NoEpoch
  BY CountsAssumption DEF Epochs, NoEpoch
<1> QED
  BY <1>1, <1>2 DEF Init, ReachInv, DirInv, NoMark, Stopped, BuildStages

LEMMA OwnEpochs ==
  ASSUME OwnInv
  PROVE  /\ \A e \in Epochs : e \in Int /\ e > NoEpoch
         /\ {mem.epoch, stateFile.mark.epoch, target, head, seen, NoEpoch} \subseteq Int
         /\ {mem.epoch, stateFile.mark.epoch, target} \subseteq Epochs \cup {NoEpoch}
         /\ Candidate(head) \in Int /\ Candidate(seen) \in Int
<1>1. \A e \in Epochs \cup {NoEpoch} : e \in Int
  BY DEF Epochs, NoEpoch
<1>2. Candidate(head) \in Epochs \cup {NoEpoch} /\ Candidate(seen) \in Epochs \cup {NoEpoch}
  BY CandidateType DEF OwnInv, TypeOK
<1>3. \A e \in Epochs : e > NoEpoch
  BY CountsAssumption DEF Epochs, NoEpoch
<1> QED
  BY <1>1, <1>2, <1>3 DEF OwnInv, TypeOK, Marks

\* The target is not older than what is recorded, and an archive at it is whole.
LEMMA UpperTarget ==
  ASSUME NEW n \in Epochs, OwnInv, UpperInv(n), target # NoEpoch, target >= n
  PROVE  /\ mem.epoch <= target /\ stateFile.mark.epoch <= target
         /\ HasArchive(dirs[target]) \/ dirs[target].present =>
              Intact(dirs[target]) /\ HasArchive(dirs[target])
<1>1. /\ target \in Epochs /\ DirInv(target) /\ {target, n} \subseteq Int
      /\ \A m \in {mem.epoch, stateFile.mark.epoch} : m \in Int /\ (m > target => m \in Epochs)
  BY OwnEpochs DEF UpperInv
<1>2. ASSUME NEW m \in {mem.epoch, stateFile.mark.epoch}
      PROVE  m <= target
  <2> SUFFICES ASSUME m > target
               PROVE  FALSE
    BY <1>1
  <2>1. m \in Epochs /\ m >= n
    BY <1>1
  <2>2. Intact(dirs[m])
    BY <2>1 DEF UpperInv, DirInv
  <2>3. m <= target
    BY <2>1, <2>2 DEF UpperInv, DirInv, Intact
  <2> QED
    BY <1>1, <2>3
<1>3. ~HasArchive(AbsentDir)
  BY DEF HasArchive, AbsentDir, NoFile
<1>4. Intact(dirs[target]) => HasArchive(dirs[target])
  BY DEF Intact, CompleteArchive, BuiltFile, HasArchive
<1> QED
  BY <1>1, <1>2, <1>3, <1>4 DEF DirInv

\* The steps of the chain are the only ones to move it.
LEMMA ChainFrame ==
  ASSUME OwnInv, LivingStep \/ Contended
  PROVE  /\ UNCHANGED <<disk, pc, mem, locals, serving, budget>> \/ UNCHANGED env
         /\ Candidate(head)' \in Int /\ Candidate(head)' >= Candidate(head)
         /\ Environment => Candidate(seen)' >= Candidate(seen) /\ Candidate(seen)' \in Int
                           /\ head' >= head
<1> USE DEF env
<1>1. CASE Environment
  <2>1. UNCHANGED <<disk, pc, mem, locals, serving, budget>>
    BY <1>1 DEF Environment, AdvanceHead, SummitCheckpoint
  <2>2. /\ head \in Nat /\ head' \in Nat /\ head <= head' /\ seen \in Nat /\ seen' = seen
        /\ {latest, latest'} \subseteq Int /\ latest' >= latest
    BY <1>1, <2>1, LivingType DEF Environment, AdvanceHead, SummitCheckpoint, OwnInv, TypeOK,
       Epochs, NoEpoch, locals
  <2>3. /\ EpochOf(head, EpochBlocks) <= EpochOf(head', EpochBlocks)
        /\ {EpochOf(head, EpochBlocks), EpochOf(head', EpochBlocks), EpochOf(seen, EpochBlocks)}
             \subseteq Nat
    BY <2>2, EpochOfMonotone, EpochOfBounds, EpochBlocksAssumption
  <2> QED
    BY <2>1, <2>2, <2>3 DEF Candidate
<1>2. CASE ~Environment
  <2>1. UNCHANGED env
    <3>1. CASE BuildStep
      BY <3>1, BuildChanges
    <3>2. CASE StartupStep \/ Poll \/ MonitorDiscover
      BY <3>2 DEF StartupStep, LoadState, StartupDiscover, StartupDecide, StartupHead,
         StartServer, Poll, MonitorDiscover
    <3>3. CASE Check \/ RenameSucceeds \/ Abort \/ Contended
      BY <3>3 DEF Check, RenameSucceeds, Abort, Contended, RmFinalEntry, RmFinalDone, RenameRefused
    <3>4. CASE SaveStep \/ RetentionStep
      BY <3>4 DEF SaveStep, SaveBegin, SaveFinish, RetentionStep, Retain, EvictEntry, EvictDone
    <3>5. CASE LoadFails \/ ServerStopped \/ Shutdown
      BY <3>5 DEF LoadFails, ServerStopped, Shutdown
    <3>6. CASE Failure
      BY <3>6 DEF Failure, ToolsMissing, BuildFails, RmWorkFails, SaveFails, StepFails
    <3> QED
      BY <1>2, <3>1, <3>2, <3>3, <3>4, <3>5, <3>6 DEF LivingStep, Progress, CreateStep
  <2> QED
    BY <1>2, <2>1, OwnEpochs DEF Candidate
<1> QED
  BY <1>1, <1>2

LEMMA ReachStep == OwnInv /\ ReachInv /\ (LivingStep \/ Contended) => ReachInv'
<1> SUFFICES ASSUME OwnInv, ReachInv, LivingStep \/ Contended
             PROVE  ReachInv'
  OBVIOUS
<1> USE DEF env, disk, locals, budget
<1>1. CASE Environment
  <2>1. UNCHANGED <<disk, pc, mem, locals, serving, budget>>
    BY <1>1 DEF Environment, AdvanceHead, SummitCheckpoint
  <2>2. /\ Candidate(head)' \in Int /\ Candidate(head)' >= Candidate(head)
        /\ head' >= head /\ head' \in Int
    BY <1>1, ChainFrame, LivingType DEF OwnInv, TypeOK
  <2> QED
    BY <2>1, <2>2, OwnEpochs DEF ReachInv
<1>2. CASE StartupDiscover
  BY <1>2, OwnEpochs DEF StartupDiscover, Rest, ReachInv, Candidate
<1>3. CASE Poll
  BY <1>3, OwnEpochs DEF Poll, ReachInv, OwnInv, LocalsInv
<1>4. CASE MonitorDiscover
  <2>1. pc = "polled" => Candidate(seen) <= Candidate(head)
    BY CandidateMonotone DEF OwnInv, TypeOK, ReachInv
  <2> QED
    BY <1>4, <2>1 DEF MonitorDiscover, Rest, ReachInv, Candidate
<1>5. CASE LoadState \/ LoadFails \/ ToolsMissing \/ StartServer \/ Shutdown \/ ServerStopped
  BY <1>5 DEF LoadState, LoadFails, ToolsMissing, StartServer, Shutdown, ServerStopped, SaveThen,
     Goto, OwnInv, LocalsInv, ReachInv, Stopped
<1>6. CASE StartupDecide \/ StartupHead \/ Check \/ Contended \/ RenameSucceeds
  BY <1>6 DEF StartupDecide, StartupHead, Check, Contended, RmFinalEntry, RmFinalDone,
     RenameRefused, RenameSucceeds, SaveThen, Goto, Rest, ReachInv, Candidate
<1>7. CASE BuildStep
  BY <1>7, BuildChanges DEF BuildStages, ReachInv, Candidate
<1>8. CASE Abort \/ BuildFails \/ RmWorkFails \/ StepFails \/ SaveFails
  BY <1>8 DEF Abort, BuildFails, RmWorkFails, StepFails, SaveFails, Goto, Rest, ReachInv, Candidate
<1>9. CASE SaveBegin
  BY <1>9 DEF SaveBegin, Goto, ReachInv, Candidate
<1>10. CASE SaveFinish
  <2>1. pc = "saving" /\ mem = Mark /\ stateFile'.mark = mem
    BY <1>10 DEF SaveFinish, OwnInv, TargetInv
  <2>2. CASE next = "retain"
    <3>1. mem.epoch = target /\ mem' = mem /\ UNCHANGED locals /\ pc' = "retain"
      BY <1>10, <2>1, <2>2 DEF SaveFinish, Mark
    <3> QED
      BY <1>10, <2>1, <3>1 DEF SaveFinish, ReachInv, Candidate
  <2>3. CASE next # "retain"
    BY <1>10, <2>3 DEF SaveFinish, Rest, ReachInv, OwnInv, TypeOK
  <2> QED
    BY <2>2, <2>3
<1>11. CASE Retain \/ EvictEntry \/ EvictDone
  BY <1>11 DEF Retain, EvictEntry, EvictDone, Rest, ReachInv, Candidate
<1> QED
  BY <1>1, <1>2, <1>3, <1>4, <1>5, <1>6, <1>7, <1>8, <1>9, <1>10, <1>11 DEF LivingStep, Progress,
     StartupStep, CreateStep, SaveStep, RetentionStep, Failure

\* When the operation is over, only what is recorded and the chain matter.
LEMMA DirRests ==
  ASSUME OwnInv, NEW e \in Epochs, DirInv(e), dirs'[e] = dirs[e],
         target' = NoEpoch, pc' \notin {"polled", "evict"},
         Candidate(head)' \in Int, Candidate(head)' >= Candidate(head),
         stateFile'.mark.epoch \in Int, stateFile'.mark.epoch >= stateFile.mark.epoch,
         e \in {mem'.epoch, stateFile'.mark.epoch} => Intact(dirs[e])
  PROVE  DirInv(e)'
BY OwnEpochs DEF DirInv

\* While the directory of e and what is recorded stay, so does what the operation has
\* brought it to.
LEMMA DirContinues ==
  ASSUME OwnInv, NEW e \in Epochs, DirInv(e), UNCHANGED <<env, stateFile, mem>>,
         dirs'[e] = dirs[e], target' = target, pc' \notin {"polled", "evict"},
         target = e =>
           /\ pc' # "rmFinal"
           /\ pc' \in BuildStages \cup {"rmWork", "rename"} => ~dirs[e].present
           /\ pc' \in {"save", "saving"} => Intact(dirs[e])
           /\ pc' \in {"retain", "evict"} => dirs[e].present
  PROVE  DirInv(e)'
BY DEF DirInv, Candidate, env

\* Beginning an attempt or carrying it on.
LEMMA DirAttempt ==
  ASSUME NEW n \in Epochs, OwnInv, UpperInv(n), NEW e \in Epochs, e >= n,
         StartupStep \/ LoadFails \/ ToolsMissing \/ Poll \/ MonitorDiscover \/ CreateStep
           \/ BuildFails \/ RmWorkFails \/ StepFails \/ Shutdown \/ ServerStopped
  PROVE  DirInv(e)'
<1> USE DEF env, disk, locals, budget
<1>1. DirInv(e) /\ DOMAIN dirs = Epochs
  BY DEF UpperInv, OwnInv, TypeOK
<1>2. /\ LivingStep /\ Candidate(head)' \in Int /\ Candidate(head)' >= Candidate(head)
      /\ {stateFile.mark.epoch, e, n} \subseteq Int /\ e # NoEpoch
  BY ChainFrame, OwnEpochs DEF LivingStep, Progress, Failure
<1>3. target = e => /\ target # NoEpoch /\ target >= n
                    /\ HasArchive(dirs[e]) \/ dirs[e].present =>
                         Intact(dirs[e]) /\ HasArchive(dirs[e])
  BY <1>2, UpperTarget
<1>4. ASSUME UNCHANGED <<dirs, stateFile, mem>>, target' = NoEpoch, pc' \notin {"polled", "evict"}
      PROVE  DirInv(e)'
  <2>1. e \in {mem'.epoch, stateFile'.mark.epoch} => Intact(dirs[e])
    BY <1>1, <1>4 DEF DirInv
  <2> QED
    BY <1>1, <1>2, <1>4, <2>1, DirRests
<1>5. CASE LoadState \/ LoadFails \/ ToolsMissing \/ StartServer \/ Shutdown \/ ServerStopped
  <2>1. /\ target' = NoEpoch /\ pc' \notin {"polled", "evict"} /\ UNCHANGED <<dirs, stateFile>>
        /\ mem' \in {mem, stateFile.mark, NoMark}
    BY <1>5 DEF LoadState, LoadFails, ToolsMissing, StartServer, Shutdown, ServerStopped, SaveThen,
       Goto, OwnInv, LocalsInv, Stopped
  <2>2. e \in {mem'.epoch, stateFile'.mark.epoch} => Intact(dirs[e])
    BY <1>1, <1>2, <2>1 DEF DirInv, NoMark
  <2> QED
    BY <1>1, <1>2, <2>1, <2>2, DirRests
<1>6. CASE StartupDiscover
  <2>1. CASE Rest("idle")
    BY <1>4, <1>6, <2>1 DEF StartupDiscover, Rest
  <2>2. CASE ~Rest("idle")
    BY <1>1, <1>6, <2>2 DEF StartupDiscover, DirInv, Candidate, BuildStages
  <2> QED
    BY <2>1, <2>2
<1>7. CASE Poll
  <2>1. target = NoEpoch /\ seen' = head
    BY <1>7 DEF Poll, OwnInv, LocalsInv
  <2> QED
    BY <1>1, <1>2, <1>7, <2>1 DEF Poll, DirInv, Candidate
<1>8. CASE MonitorDiscover
  <2>1. CASE Rest("idle")
    BY <1>4, <1>8, <2>1 DEF MonitorDiscover, Rest
  <2>2. CASE ~Rest("idle")
    BY <1>1, <1>8, <2>2 DEF MonitorDiscover, DirInv, Candidate, BuildStages
  <2> QED
    BY <2>1, <2>2
<1>9. CASE StartupDecide \/ StartupHead \/ Check
  <2>1. CASE target' = NoEpoch
    BY <1>4, <1>9, <2>1 DEF StartupDecide, StartupHead, Check, Rest, Goto, SaveThen, OwnInv, TypeOK,
       Targeted
  <2>2. CASE target' = target /\ pc' = "save"
    <3>1. HasArchive(dirs[target]) /\ UNCHANGED <<env, dirs, stateFile, mem>>
      BY <1>9, <2>2 DEF StartupDecide, StartupHead, Check, Rest, Goto, SaveThen
    <3> QED
      BY <1>1, <1>3, <2>2, <3>1, DirContinues DEF BuildStages
  <2>3. CASE target' = target /\ pc' # "save" /\ target # NoEpoch
    <3>1. /\ UNCHANGED <<env, dirs, stateFile, mem>>
          /\ \/ pc' \in {"startupHead", "check"}
             \/ pc' = "rmFinal" /\ dirs[target].present /\ ~HasArchive(dirs[target])
             \/ pc' = "rmWork" /\ ~dirs[target].present
      BY <1>9, <2>3 DEF StartupDecide, StartupHead, Check, Rest, Goto, SaveThen
    <3> QED
      BY <1>1, <1>3, <2>3, <3>1, DirContinues DEF BuildStages
  <2> QED
    BY <1>9, <2>1, <2>2, <2>3 DEF StartupDecide, StartupHead, Check, Rest, Goto, SaveThen
<1>10. CASE BuildStep
  <2>1. /\ pc \in BuildStages \cup {"rmWork"} /\ pc' \in BuildStages \cup {"rename"}
        /\ UNCHANGED <<env, dirs, stateFile, mem, target>>
    BY <1>10, BuildChanges
  <2> QED
    BY <1>1, <2>1, DirContinues DEF DirInv, BuildStages
<1>11. CASE BuildFails
  BY <1>1, <1>11, DirContinues DEF BuildFails, Goto, BuildStages
<1>12. CASE RenameSucceeds
  <2>1. /\ target \in Epochs /\ target # NoEpoch /\ Intact(work[target])
        /\ target <= Candidate(head)
    BY <1>12, OwnEpochs DEF RenameSucceeds, OwnInv, TypeOK, Targeted, BuildInv, StageInv, UpperInv,
       ReachInv
  <2>2. /\ dirs' = [dirs EXCEPT ![target] = work[target]] /\ pc' = "save"
        /\ UNCHANGED <<env, stateFile, mem, target>>
    BY <1>12 DEF RenameSucceeds, SaveThen
  <2>3. CASE e = target
    BY <1>1, <1>2, <2>1, <2>2, <2>3 DEF DirInv, Intact, Candidate, BuildStages
  <2>4. CASE e # target
    BY <1>1, <2>1, <2>2, <2>4, DirContinues DEF BuildStages
  <2> QED
    BY <2>3, <2>4
<1>13. CASE Abort \/ RmWorkFails \/ StepFails
  BY <1>4, <1>13 DEF Abort, RmWorkFails, StepFails, Rest
<1> QED
  BY <1>5, <1>6, <1>7, <1>8, <1>9, <1>10, <1>11, <1>12, <1>13 DEF StartupStep, CreateStep

\* A target another writer has been at is older than n.
LEMMA DirContended ==
  ASSUME NEW n \in Epochs, OwnInv, UpperInv(n), NEW e \in Epochs, e >= n, Contended
  PROVE  DirInv(e)' /\ target < n
<1> USE DEF env, disk, locals, budget
<1>1. /\ DirInv(e) /\ target \in Epochs /\ DOMAIN dirs = Epochs /\ {target, e, n} \subseteq Int
      /\ target # NoEpoch
  BY OwnEpochs DEF Contended, RmFinalEntry, RmFinalDone, RenameRefused, UpperInv, OwnInv, TypeOK,
     Targeted
<1>2. target < n
  <2> SUFFICES ASSUME target >= n
               PROVE  FALSE
    BY <1>1
  <2>1. pc = "rename" => dirs[target] = AbsentDir
    BY <1>1 DEF UpperInv, DirInv
  <2>2. pc # "rmFinal" /\ IsEmptyDir(AbsentDir)
    BY <1>1 DEF UpperInv, DirInv, IsEmptyDir, AbsentDir, NoFile
  <2> QED
    BY <2>1, <2>2 DEF Contended, RmFinalEntry, RmFinalDone, RenameRefused
<1>3. dirs'[e] = dirs[e]
  BY <1>1, <1>2 DEF Contended, RmFinalEntry, RmFinalDone, RenameRefused
<1>4. CASE target' = NoEpoch
  <2>1. UNCHANGED <<env, stateFile, mem>> /\ pc' \notin {"polled", "evict"}
    BY <1>1, <1>4 DEF Contended, RmFinalEntry, RmFinalDone, RenameRefused, Rest, Goto
  <2>2. Candidate(head)' = Candidate(head)
    BY <2>1 DEF Candidate
  <2>3. e \in {mem'.epoch, stateFile'.mark.epoch} => Intact(dirs[e])
    BY <1>1, <2>1 DEF DirInv
  <2>4. /\ Candidate(head)' \in Int /\ Candidate(head)' >= Candidate(head)
        /\ stateFile'.mark.epoch \in Int /\ stateFile'.mark.epoch >= stateFile.mark.epoch
    BY <2>1, <2>2, OwnEpochs
  <2> QED
    BY <1>1, <1>2, <1>3, <1>4, <2>1, <2>3, <2>4, DirRests
<1>5. CASE target' = target
  <2>1. UNCHANGED <<env, stateFile, mem>> /\ pc' \notin {"polled", "evict"}
    BY <1>5, <1>1 DEF Contended, RmFinalEntry, RmFinalDone, RenameRefused, Rest, Goto
  <2> QED
    BY <1>1, <1>2, <1>3, <1>5, <2>1, DirContinues
<1> QED
  BY <1>2, <1>4, <1>5 DEF Contended, RmFinalEntry, RmFinalDone, RenameRefused, Rest, Goto

\* Recording the target, which is whole.
LEMMA DirSaved ==
  ASSUME NEW n \in Epochs, OwnInv, UpperInv(n), NEW e \in Epochs, e >= n, SaveStep \/ SaveFails
  PROVE  DirInv(e)'
<1> USE DEF env, disk, locals, budget
<1>1. /\ DirInv(e) /\ {e, stateFile.mark.epoch} \subseteq Int /\ e # NoEpoch
      /\ pc \in {"save", "saving"} /\ UNCHANGED <<env, dirs>>
  BY OwnEpochs DEF UpperInv, SaveStep, SaveBegin, SaveFinish, SaveFails
<1>2. Candidate(head)' = Candidate(head) /\ Candidate(head) \in Int
  BY <1>1, OwnEpochs DEF Candidate
<1>3. stateFile'.mark.epoch \in Int /\ stateFile'.mark.epoch >= stateFile.mark.epoch
  <2>1. OwnStep
    BY DEF OwnStep, LivingStep, Progress, Failure
  <2>2. stateFile'.mark.epoch \in Epochs \cup {NoEpoch}
    BY LivingType DEF OwnInv, TypeOK, Marks, LivingStep, Progress, Failure
  <2> QED
    BY <2>1, <2>2, StateStep, OwnEpochs DEF Epochs, NoEpoch
<1>4. Mark.epoch = e => Intact(dirs[e])
  BY <1>1 DEF Mark, DirInv
<1>5. CASE SaveBegin
  <2>1. mem' = Mark /\ stateFile'.mark = stateFile.mark /\ UNCHANGED locals /\ pc' = "saving"
    BY <1>5 DEF SaveBegin, Goto, OwnInv, TypeOK
  <2> QED
    BY <1>1, <1>4, <2>1 DEF DirInv, Candidate, BuildStages
<1>6. CASE SaveFinish
  <2>1. mem = Mark /\ stateFile'.mark = Mark /\ mem' \in {Mark, NoMark}
    BY <1>6 DEF SaveFinish, OwnInv, TargetInv
  <2>2. e \in {mem'.epoch, stateFile'.mark.epoch} => Intact(dirs[e])
    BY <1>1, <1>4, <2>1 DEF NoMark
  <2>3. CASE next = "retain"
    <3>1. pc' = "retain" /\ UNCHANGED locals
      BY <1>6, <2>3 DEF SaveFinish
    <3>2. dirs[e].present => Intact(dirs[e]) \/ e < stateFile'.mark.epoch
      BY <1>1, <1>3 DEF DirInv
    <3>3. target = e => dirs[e].present
      BY <1>1 DEF DirInv, Intact
    <3> QED
      BY <1>1, <1>2, <2>2, <3>1, <3>2, <3>3 DEF DirInv, BuildStages
  <2>4. CASE next # "retain"
    BY <1>1, <1>2, <1>3, <1>6, <2>2, <2>4, DirRests DEF SaveFinish, Rest, OwnInv, TypeOK
  <2> QED
    BY <2>3, <2>4
<1>7. CASE SaveFails
  <2>1. mem' \in {Mark, NoMark} /\ UNCHANGED stateFile /\ target' = NoEpoch
        /\ pc' \notin {"polled", "evict"}
    BY <1>7 DEF SaveFails, Rest
  <2>2. e \in {mem'.epoch, stateFile'.mark.epoch} => Intact(dirs[e])
    BY <1>1, <1>4, <2>1 DEF DirInv, NoMark
  <2> QED
    BY <1>1, <1>2, <1>3, <2>1, <2>2, DirRests
<1> QED
  BY <1>5, <1>6, <1>7 DEF SaveStep

\* Retention keeps the newest, and so removes of these epochs only older ones.
LEMMA DirRetained ==
  ASSUME NEW n \in Epochs, OwnInv, UpperInv(n), NEW e \in Epochs, e >= n, RetentionStep
  PROVE  DirInv(e)'
<1> USE DEF env, disk, locals, budget
<1>1. /\ DirInv(e) /\ {e, n, target, stateFile.mark.epoch} \subseteq Int /\ e # NoEpoch
      /\ target \in Epochs /\ target # NoEpoch /\ DOMAIN dirs = Epochs
      /\ mem.epoch = target /\ stateFile.mark.epoch = target
      /\ UNCHANGED <<env, stateFile, mem>>
  BY OwnEpochs DEF UpperInv, ReachInv, RetentionStep, Retain, EvictEntry, EvictDone, OwnInv, TypeOK,
     Targeted
<1>2. Candidate(head)' = Candidate(head) /\ Candidate(head) \in Int
  BY <1>1, OwnEpochs DEF Candidate
<1>3. CASE Retain
  <2>1. CASE Rest("idle")
    <3>1. e \in {mem'.epoch, stateFile'.mark.epoch} => Intact(dirs[e])
      BY <1>1 DEF DirInv
    <3> QED
      BY <1>1, <1>2, <1>3, <2>1, <3>1, DirRests DEF Retain, Rest
  <2>2. CASE ~Rest("idle")
    <3>1. /\ MaxSnapshots # 0 /\ pc = "retain" /\ pc' = "evict" /\ doomed' = Excess
          /\ UNCHANGED <<seen, target, next, dirs>>
      BY <1>3, <2>2 DEF Retain
    <3>2. ASSUME e \in Excess
          PROVE  e < target
      <4>1. dirs[e].present /\ Cardinality(Newer(e)) >= MaxSnapshots
        BY <3>2 DEF Excess, Present
      <4>2. e <= target
        BY <1>1, <4>1 DEF DirInv
      <4>3. e = target => Newer(e) = {}
        <5> SUFFICES ASSUME e = target, NEW f \in Present, f > e
                     PROVE  FALSE
          BY DEF Newer
        <5>1. f \in Epochs /\ f \in Int /\ f >= n /\ dirs[f].present
          BY <1>1, OwnEpochs DEF Present
        <5>2. f <= target
          BY <1>1, <5>1 DEF UpperInv, DirInv
        <5> QED
          BY <1>1, <5>1, <5>2
      <4>4. Newer(e) # {}
        BY <3>1, <4>1, FS_EmptySet, CountsAssumption
      <4> QED
        BY <1>1, <4>2, <4>3, <4>4
    <3> QED
      BY <1>1, <1>2, <3>1, <3>2 DEF DirInv, BuildStages
  <2> QED
    BY <2>1, <2>2
<1>4. CASE EvictEntry \/ EvictDone
  <2>1. PICK f \in doomed : \E d \in WithoutOneEntry(dirs[f]) \cup {AbsentDir} :
          /\ dirs' = [dirs EXCEPT ![f] = d]
          /\ d = AbsentDir \/ (d \in WithoutOneEntry(dirs[f]) /\ EvictEntry)
    BY <1>4 DEF EvictEntry, EvictDone, OldestDoomed
  <2>2. PICK d \in WithoutOneEntry(dirs[f]) \cup {AbsentDir} : dirs' = [dirs EXCEPT ![f] = d]
    BY <2>1
  <2>3. f \in Epochs /\ pc = "evict" /\ dirs[f] \in Dirs
    BY <1>4 DEF OwnInv, TypeOK, EvictEntry, EvictDone
  <2>4. /\ \/ pc' = "evict" /\ doomed' \subseteq doomed /\ target' = target
           \/ pc' = "idle" /\ target' = NoEpoch
        /\ e = f => /\ e < target
                    /\ ~dirs'[e].present => dirs'[e] = AbsentDir
                    /\ dirs'[e].present => dirs[e].present
    <3>1. \/ pc' = "evict" /\ doomed' \subseteq doomed /\ target' = target
          \/ pc' = "idle" /\ target' = NoEpoch
      BY <1>4, <2>3 DEF EvictEntry, EvictDone, Rest
    <3>2. \A x \in WithoutOneEntry(dirs[f]) : x.present = dirs[f].present
      BY <2>3 DEF WithoutOneEntry, Dirs
    <3>3. WithoutOneEntry(AbsentDir) = {}
      BY DEF WithoutOneEntry, AbsentDir
    <3>4. ~AbsentDir.present
      BY DEF AbsentDir
    <3> QED
      BY <1>1, <2>2, <2>3, <3>1, <3>2, <3>3, <3>4 DEF DirInv
  <2>5. CASE e # f
    BY <1>1, <1>2, <2>2, <2>3, <2>4, <2>5 DEF DirInv, BuildStages
  <2>6. CASE e = f
    BY <1>1, <1>2, <2>2, <2>3, <2>4, <2>6 DEF DirInv, BuildStages
  <2> QED
    BY <2>5, <2>6
<1> QED
  BY <1>3, <1>4 DEF RetentionStep

\* Whatever other writers do to the older epochs, a step of the process or the chain
\* keeps these as they have to be.
LEMMA UpperStep ==
  ASSUME NEW n \in Epochs, OwnInv, UpperInv(n), LivingStep \/ Contended
  PROVE  UpperInv(n)'
<1>1. ReachInv'
  BY ReachStep DEF UpperInv
<1>2. ASSUME NEW e \in Epochs, e >= n, Environment
      PROVE  DirInv(e)'
  <2>1. UNCHANGED <<disk, pc, mem, locals, serving, budget>>
    BY <1>2 DEF Environment, AdvanceHead, SummitCheckpoint
  <2>2. /\ {e, Candidate(head), Candidate(seen), Candidate(head)', Candidate(seen)'} \subseteq Int
        /\ Candidate(head)' >= Candidate(head) /\ Candidate(seen)' >= Candidate(seen)
    BY <1>2, ChainFrame, OwnEpochs
  <2> QED
    BY <1>2, <2>1, <2>2 DEF UpperInv, DirInv, disk, locals
<1>3. ASSUME NEW e \in Epochs, e >= n
      PROVE  DirInv(e)'
  BY <1>2, <1>3, DirAttempt, DirContended, DirSaved, DirRetained
     DEF LivingStep, Progress, Failure
<1> QED
  BY <1>1, <1>3 DEF UpperInv

\* In a crash the files of other writers are closed, which these directories have not.
LEMMA UpperDies ==
  ASSUME NEW n \in Epochs, OwnInv, UpperInv(n), ProcessDies,
         \A e \in Epochs : e >= n => dirs'[e] = dirs[e]
  PROVE  UpperInv(n)'
<1>1. /\ pc' = "down" /\ target' = NoEpoch /\ mem' = NoMark
      /\ UNCHANGED <<head, latest, stateFile>>
  BY DEF ProcessDies, Rest, env
<1>2. ReachInv'
  BY <1>1 DEF ReachInv
<1>3. ASSUME NEW e \in Epochs, e >= n
      PROVE  DirInv(e)'
  <2>1. /\ Candidate(head)' = Candidate(head) /\ dirs'[e] = dirs[e] /\ DirInv(e)
        /\ Candidate(head)' \in Int /\ Candidate(head)' >= Candidate(head)
        /\ stateFile'.mark.epoch \in Int /\ stateFile'.mark.epoch >= stateFile.mark.epoch
    BY <1>1, <1>3, OwnEpochs DEF Candidate, UpperInv
  <2>2. e \in {mem'.epoch, stateFile'.mark.epoch} => Intact(dirs[e])
    BY <1>1, <2>1, OwnEpochs DEF DirInv, NoMark
  <2> QED
    BY <1>1, <2>1, <2>2, DirRests
<1> QED
  BY <1>2, <1>3 DEF UpperInv

\* What other writers do to older epochs.
LEMMA UpperFrame ==
  ASSUME NEW n \in Epochs, UpperInv(n), UNCHANGED <<env, stateFile, pc, mem, locals>>,
         \A e \in Epochs : e >= n => dirs'[e] = dirs[e]
  PROVE  UpperInv(n)'
BY DEF UpperInv, ReachInv, DirInv, Candidate, env, locals

\* Undisturbed, the manager takes the steps of the manager alone.
LEMMA UpperUncontended ==
  ASSUME OwnInv, UpperInv(0), LivingStep \/ Contended
  PROVE  Next
<1>1. 0 \in Epochs /\ 0 >= 0
  BY CountsAssumption DEF Epochs
<1>2. Contended => target \in Nat
  BY CountsAssumption DEF Contended, RmFinalEntry, RmFinalDone, RenameRefused, OwnInv, TypeOK,
     Targeted, Epochs, NoEpoch
<1>3. ~Contended
  BY <1>1, <1>2, DirContended
<1> QED
  BY <1>3 DEF LivingStep, Next

\* A whole snapshot of these epochs stays whole until a newer one is recorded.
LEMMA UpperWholeUntilRetired ==
  ASSUME NEW n \in Epochs, OwnInv, UpperInv(n), LivingStep \/ Contended,
         NEW e \in Epochs, e >= n, Intact(dirs[e])
  PROVE  Intact(dirs'[e]) \/ stateFile.mark.epoch > e
<1>1. DOMAIN dirs = Epochs /\ DirInv(e) /\ {e, n, target, stateFile.mark.epoch} \subseteq Int
  BY OwnEpochs DEF OwnInv, TypeOK, UpperInv
<1>2. CASE RenameSucceeds
  BY <1>1, <1>2 DEF RenameSucceeds, OwnInv, TypeOK, Targeted, BuildInv, StageInv
<1>3. CASE EvictEntry \/ EvictDone
  <2>1. PICK f \in doomed : \E d : dirs' = [dirs EXCEPT ![f] = d]
    BY <1>3 DEF EvictEntry, EvictDone, OldestDoomed
  <2>2. pc = "evict" /\ stateFile.mark.epoch = target
    BY <1>3 DEF EvictEntry, EvictDone, UpperInv, ReachInv
  <2> QED
    BY <1>1, <2>1, <2>2 DEF DirInv
<1>4. CASE Contended
  <2>1. target < n
    BY <1>4, DirContended
  <2>2. dirs'[e] = dirs[e]
    BY <1>1, <1>4, <2>1 DEF Contended, RmFinalEntry, RmFinalDone, RenameRefused, disk
  <2> QED
    BY <2>2
<1> QED
  BY <1>2, <1>3, <1>4, DirsFrame
=============================================================================
