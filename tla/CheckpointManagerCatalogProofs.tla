-------------------- MODULE CheckpointManagerCatalogProofs --------------------
(***************************************************************************)
(* The checkpoint manager without downloads implements SnapshotCatalog:    *)
(* every step publishes, records or retires one snapshot of the catalog,   *)
(* as the catalog allows, or leaves it alone.                              *)
(***************************************************************************)
EXTENDS CheckpointManagerProofs

\* The whole snapshots.
Whole == {e \in Epochs : Intact(dirs[e])}

\* Memory is ahead of the file only by the newest snapshot, so that recording it
\* late, at shutdown, still records the newest.
AheadInv ==
  mem.epoch > stateFile.mark.epoch /\ ~(pc = "save" /\ next # "down")
    => \A e \in Present : e <= mem.epoch

\* What is to be evicted are the oldest directories.
OldestInv == pc = "evict" => \A e \in doomed : \A f \in Present : f < e => f \in doomed

\* Manifests are only published in Summit mode, so that removing one entry of a
\* directory never makes it whole.
ManifestInv == ~SummitEnabled => \A e \in Epochs : dirs[e].manifest = NoFile

CatalogInv == AheadInv /\ OldestInv /\ ManifestInv

-----------------------------------------------------------------------------
(* The additional invariant *)

LEMMA CatalogInit == Init => CatalogInv
<1> SUFFICES ASSUME Init
             PROVE  CatalogInv
  OBVIOUS
<1>1. AheadInv
  BY DEF Init, AheadInv, NoMark, NoEpoch
<1> QED
  BY <1>1 DEF Init, CatalogInv, OldestInv, ManifestInv, AbsentDir

\* The excess is what is older than some directory that is kept.
LEMMA ExcessIsOldest ==
  ASSUME NEW e \in Excess, NEW f \in Present, f < e
  PROVE  f \in Excess
<1>1. /\ Present \in SUBSET Epochs /\ e \in Present /\ e \in Nat /\ f \in Nat
      /\ Newer(e) \in SUBSET Epochs /\ Newer(f) \in SUBSET Epochs
  BY DEF Excess, Present, Newer, Epochs
<1>2. IsFiniteSet(Newer(e)) /\ IsFiniteSet(Newer(f))
  <2>1. IsFiniteSet(Epochs)
    BY FS_Interval, CountsAssumption DEF Epochs
  <2> QED
    BY <1>1, <2>1, FS_Subset
<1>3. Newer(e) \in SUBSET Newer(f)
  BY <1>1 DEF Newer, Epochs
<1> DEFINE a == Cardinality(Newer(e))
           b == Cardinality(Newer(f))
<1>4. a <= b /\ a \in Nat /\ b \in Nat /\ a >= MaxSnapshots /\ MaxSnapshots \in Nat
  BY <1>2, <1>3, FS_Subset, FS_CardinalityType, CountsAssumption DEF Excess
<1>5. b >= MaxSnapshots
  <2> HIDE DEF a, b
  <2> QED
    BY <1>4
<1> QED
  BY <1>5 DEF Excess

LEMMA AheadStep == IInv /\ AheadInv /\ [Next]_vars => AheadInv'
<1> SUFFICES ASSUME IInv, AheadInv, [Next]_vars
             PROVE  AheadInv'
  OBVIOUS
<1> USE DEF env, disk, locals, budget
<1>1. /\ mem.epoch \in Int /\ stateFile.mark.epoch \in Int /\ stateFile.mark.epoch >= NoEpoch
      /\ \A e \in Present : e \in Int
      /\ target # NoEpoch => \A e \in Present : e <= target
  BY DEF IInv, TypeOK, OrderInv, Marks, Epochs, NoEpoch, Present
<1>2. CASE RenameSucceeds
  BY <1>2 DEF RenameSucceeds, SaveThen, AheadInv, IInv, LocalsInv
<1>3. CASE LoadState
  BY <1>1, <1>3 DEF LoadState, AheadInv
<1>4. CASE ToolsMissing \/ Crash
  <2>1. mem' = NoMark /\ stateFile' = stateFile
    BY <1>4 DEF ToolsMissing, Crash, ProcessDies
  <2>2. mem'.epoch = NoEpoch
    BY <2>1 DEF NoMark
  <2> QED
    BY <1>1, <2>1, <2>2 DEF AheadInv, NoEpoch
<1>5. CASE SaveBegin \/ SaveFails
  <2>1. stateFile'.mark = stateFile.mark /\ Present' = Present /\ pc \in {"save", "saving"}
    BY <1>5 DEF SaveBegin, SaveFails, Present, IInv, TypeOK
  <2>2. CASE next = "down"
    <3>1. mem' \in {mem, NoMark}
      BY <1>5, <2>2 DEF SaveBegin, SaveFails, Mark
    <3>2. CASE mem' = mem
      BY <1>1, <2>1, <2>2, <3>2 DEF AheadInv
    <3>3. CASE mem' = NoMark
      BY <1>1, <2>1, <3>3 DEF AheadInv, NoMark, NoEpoch
    <3> QED
      BY <3>1, <3>2, <3>3
  <2>3. CASE next # "down"
    <3>1. mem'.epoch = target /\ target # NoEpoch
      BY <1>5, <2>1, <2>3 DEF SaveBegin, SaveFails, Mark, IInv, TypeOK
    <3> QED
      BY <1>1, <2>1, <3>1 DEF AheadInv
  <2> QED
    BY <2>2, <2>3
<1>6. CASE SaveFinish
  <2>1. stateFile'.mark = mem /\ mem' \in {mem, NoMark}
    BY <1>6 DEF SaveFinish
  <2>2. NoMark.epoch = NoEpoch /\ mem.epoch >= NoEpoch
    BY DEF NoMark, NoEpoch, IInv, TypeOK, Marks, Epochs
  <2> QED
    BY <1>1, <2>1, <2>2 DEF AheadInv, NoEpoch
<1>7. ASSUME Present' \subseteq Present, UNCHANGED <<stateFile, mem>>,
             pc = "save" /\ next # "down" => pc' = "save" /\ next' = next
      PROVE  AheadInv'
  BY <1>7 DEF AheadInv
<1>8. ASSUME Next,
             ~(\/ RenameSucceeds \/ LoadState \/ ToolsMissing \/ Crash \/ SaveBegin
               \/ SaveFinish \/ SaveFails)
      PROVE  AheadInv'
  <2>1. UNCHANGED <<stateFile, mem>>
    BY <1>8, StateFrame, NextSteps
  <2>2. Present' \subseteq Present
    <3>1. CASE EvictEntry \/ EvictDone
      <4>1. PICK e \in doomed : \E d : dirs' = [dirs EXCEPT ![e] = d]
        BY <3>1 DEF EvictEntry, EvictDone, OldestDoomed
      <4>2. e \in Present /\ dirs \in [Epochs -> Dirs]
        BY <3>1 DEF EvictEntry, EvictDone, IInv, PublishInv, TypeOK
      <4> QED
        BY <4>1, <4>2 DEF Present
    <3>2. CASE UNCHANGED dirs
      BY <3>2 DEF Present
    <3> QED
      BY <1>8, <3>1, <3>2, DirsFrame, NextSteps
  <2>3. pc = "save" => pc' = "save" /\ next' = next
    <3>1. ASSUME pc = "save"
          PROVE  Environment
      BY <1>8, <3>1 DEF Next, Progress, Failure, StartupStep, LoadState, StartupDiscover,
         StartupDecide, StartupHead, StartServer, Poll, MonitorDiscover, CreateStep, Check,
         BuildStep, Build, RmWork, Mkdir, CopyDb, CopyStatic, DeleteLock, Unwind, Bundle,
         WriteMetadata, Compress, Prune, WriteManifest, Abort, SaveStep, RetentionStep,
         Retain, EvictEntry, EvictDone, LoadFails, ServerStopped, BuildFails, BuildStages,
         RmWorkFails, StepFails, Shutdown, Stopped
    <3> QED
      BY <3>1 DEF Environment, AdvanceHead, SummitCheckpoint
  <2> QED
    BY <1>7, <2>1, <2>2, <2>3
<1>9. CASE UNCHANGED vars
  BY <1>9 DEF vars, AheadInv, Present
<1> QED
  BY <1>2, <1>3, <1>4, <1>5, <1>6, <1>8, <1>9

LEMMA OldestStep == IInv /\ OldestInv /\ [Next]_vars => OldestInv'
<1> SUFFICES ASSUME IInv, OldestInv, [Next]_vars, pc' = "evict"
             PROVE  \A e \in doomed' : \A f \in Present' : f < e => f \in doomed'
  BY DEF OldestInv
<1> USE DEF disk
<1>1. CASE Retain
  <2>1. doomed' = Excess /\ Present' = Present
    BY <1>1 DEF Retain, Rest, Present
  <2> QED
    BY <2>1, ExcessIsOldest
<1>2. CASE EvictEntry
  <2>1. pc = "evict" /\ doomed' = doomed /\ Present' \subseteq Present
    <3>1. PICK e \in doomed : \E d : dirs' = [dirs EXCEPT ![e] = d]
      BY <1>2 DEF EvictEntry, OldestDoomed
    <3>2. pc = "evict" /\ doomed' = doomed /\ e \in Present /\ DOMAIN dirs = Epochs
      BY <1>2 DEF EvictEntry, IInv, PublishInv, TypeOK, locals
    <3> QED
      BY <3>1, <3>2 DEF Present
  <2> QED
    BY <2>1 DEF OldestInv
<1>3. CASE EvictDone
  <2>1. PICK e \in doomed :
          dirs' = [dirs EXCEPT ![e] = AbsentDir] /\ doomed' = doomed \ {e}
    BY <1>3 DEF EvictDone, OldestDoomed, Rest
  <2>2. pc = "evict" /\ e \in Present /\ DOMAIN dirs = Epochs
    BY <1>3 DEF EvictDone, IInv, PublishInv, TypeOK
  <2>3. Present' = Present \ {e}
    BY <2>1, <2>2 DEF Present, AbsentDir
  <2> QED
    BY <2>1, <2>2, <2>3 DEF OldestInv
<1>4. CASE Next /\ ~RetentionStep
  <2>1. pc = "evict" /\ doomed' = doomed
    BY <1>4, DoomedFrame
  <2>2. UNCHANGED dirs
    BY <1>4, <2>1, DirsFrame, NextSteps DEF RetentionStep, RenameSucceeds
  <2> QED
    BY <2>1, <2>2 DEF OldestInv, Present
<1>5. CASE UNCHANGED vars
  BY <1>5 DEF vars, locals, OldestInv, Present
<1> QED
  BY <1>1, <1>2, <1>3, <1>4, <1>5 DEF RetentionStep

LEMMA ManifestStep == IInv /\ ManifestInv /\ [Next]_vars => ManifestInv'
<1> SUFFICES ASSUME IInv, ManifestInv, [Next]_vars, ~SummitEnabled
             PROVE  \A e \in Epochs : dirs'[e].manifest = NoFile
  BY DEF ManifestInv
<1>1. dirs \in [Epochs -> Dirs] /\ \A e \in Epochs : dirs[e].manifest = NoFile
  BY DEF IInv, TypeOK, ManifestInv
<1>2. CASE RenameSucceeds
  <2>1. Intact(work[target]) /\ dirs' = [dirs EXCEPT ![target] = work[target]]
    BY <1>2 DEF RenameSucceeds, IInv, BuildInv, StageInv
  <2> QED
    BY <1>1, <2>1 DEF Intact
<1>3. CASE EvictEntry
  <2>1. PICK e \in Epochs : \E d \in WithoutOneEntry(dirs[e]) : dirs' = [dirs EXCEPT ![e] = d]
    BY <1>3 DEF EvictEntry, OldestDoomed, IInv, TypeOK
  <2>2. \A d \in WithoutOneEntry(dirs[e]) : d.manifest = NoFile
    <3>1. dirs[e] \in Dirs /\ dirs[e].manifest = NoFile
      BY <1>1
    <3> QED
      BY <3>1 DEF WithoutOneEntry, Dirs
  <2> QED
    BY <1>1, <2>1, <2>2
<1>4. CASE EvictDone
  <2>1. PICK e \in Epochs : dirs' = [dirs EXCEPT ![e] = AbsentDir]
    BY <1>4 DEF EvictDone, OldestDoomed, IInv, TypeOK
  <2> QED
    BY <1>1, <2>1 DEF AbsentDir
<1>5. CASE UNCHANGED dirs
  BY <1>1, <1>5
<1> QED
  BY <1>2, <1>3, <1>4, <1>5, DirsFrame, NextSteps DEF vars, disk

LEMMA CatalogStep == IInv /\ CatalogInv /\ [Next]_vars => CatalogInv'
BY AheadStep, OldestStep, ManifestStep DEF CatalogInv

-----------------------------------------------------------------------------
(* The refinement *)

\* What the catalog and the recorded epoch are taken from is left alone.
LEMMA CatalogStutter ==
  ASSUME UNCHANGED <<dirs, stateFile.mark>>
  PROVE  UNCHANGED Catalog!vars
BY DEF Catalog!vars

\* Removing an entry never makes a directory whole.
LEMMA LessIsNotWhole ==
  ASSUME IInv, CatalogInv, NEW e \in Epochs, NEW d \in WithoutOneEntry(dirs[e]), Intact(d)
  PROVE  Intact(dirs[e])
<1>1. dirs[e] \in Dirs /\ (~SummitEnabled => dirs[e].manifest = NoFile)
  BY DEF IInv, TypeOK, CatalogInv, ManifestInv
<1>2. /\ d.present = dirs[e].present /\ d.archive \in {dirs[e].archive, NoFile}
      /\ d.manifest \in {dirs[e].manifest, NoFile}
  BY <1>1 DEF WithoutOneEntry, Dirs
<1>3. CompleteArchive(d.archive) /\ d.archive # NoFile
  BY DEF Intact, CompleteArchive, BuiltFile, NoFile
<1>4. d.archive = dirs[e].archive
  BY <1>2, <1>3
<1>5. SummitEnabled => d.manifest = dirs[e].manifest
  BY <1>2, <1>3 DEF Intact, CommitsTo
<1> QED
  BY <1>1, <1>2, <1>3, <1>4, <1>5 DEF Intact, CommitsTo

\* The rename publishes the next snapshot.
LEMMA RenamePublishes ==
  ASSUME IInv, RenameSucceeds
  PROVE  Catalog!Publish(target) /\ target \in Epochs
<1>1. target \in Epochs /\ ~dirs[target].present /\ Intact(work[target])
      /\ dirs' = [dirs EXCEPT ![target] = work[target]] /\ DOMAIN dirs = Epochs
      /\ stateFile' = stateFile
  BY DEF RenameSucceeds, IInv, TypeOK, PublishInv, BuildInv, StageInv, Targeted
<1>2. \A e \in Whole : e < target
  <2>1. \A e \in Whole : e \in Present /\ e \in Nat /\ e # target
    BY <1>1 DEF Whole, Present, Intact, Epochs
  <2>2. \A e \in Present : e <= target
    BY <1>1 DEF IInv, OrderInv, Epochs, NoEpoch
  <2> QED
    BY <1>1, <2>1, <2>2 DEF Epochs
<1>3. Whole' = Whole \cup {target}
  BY <1>1 DEF Whole
<1> QED
  BY <1>1, <1>2, <1>3 DEF Catalog!Publish, Whole

\* Writing the state file records the newest snapshot, or what was recorded before.
LEMMA SaveRecords ==
  ASSUME IInv, CatalogInv, SaveFinish
  PROVE  (Catalog!Record(mem.epoch) /\ mem.epoch \in Epochs) \/ UNCHANGED Catalog!vars
<1>1. pc = "saving" /\ stateFile'.mark = mem /\ Whole' = Whole
  BY DEF SaveFinish, Whole
<1>2. /\ mem.epoch \in Epochs \cup {NoEpoch} /\ stateFile.mark.epoch \in Epochs \cup {NoEpoch}
      /\ mem.epoch >= stateFile.mark.epoch
  BY <1>1 DEF IInv, TypeOK, MemoryInv, Marks, Stopped
<1>3. CASE mem.epoch = stateFile.mark.epoch
  BY <1>1, <1>3 DEF Catalog!vars, Whole
<1>4. CASE mem.epoch > stateFile.mark.epoch
  <2>1. mem.epoch \in Epochs
    BY <1>2, <1>4 DEF Epochs, NoEpoch
  <2>2. mem.epoch \in Whole
    BY <2>1 DEF IInv, RecordedSnapshotIntact, Whole, Epochs, NoEpoch
  <2>3. \A e \in Whole : e <= mem.epoch
    BY <1>1, <1>4 DEF CatalogInv, AheadInv, Whole, Present, Intact
  <2> QED
    BY <1>1, <2>1, <2>2, <2>3 DEF Catalog!Record, Whole
<1> QED
  BY <1>2, <1>3, <1>4 DEF Epochs, NoEpoch

\* Eviction retires the oldest snapshot with the first entry that belongs to it.
LEMMA EvictionRetires ==
  ASSUME IInv, CatalogInv, EvictEntry
  PROVE  (\E e \in Epochs : Catalog!Retire(e)) \/ UNCHANGED Catalog!vars
<1>1. PICK e \in OldestDoomed :
        \E d \in WithoutOneEntry(dirs[e]) : dirs' = [dirs EXCEPT ![e] = d]
  BY DEF EvictEntry
<1>2. PICK d \in WithoutOneEntry(dirs[e]) : dirs' = [dirs EXCEPT ![e] = d]
  BY <1>1
<1>3. /\ pc = "evict" /\ e \in doomed /\ e \in Epochs /\ DOMAIN dirs = Epochs
      /\ e < stateFile.mark.epoch /\ stateFile' = stateFile
  BY DEF EvictEntry, OldestDoomed, IInv, PublishInv, TypeOK
<1>4. CASE Intact(dirs[e]) <=> Intact(d)
  BY <1>2, <1>3, <1>4 DEF Catalog!vars
<1>5. CASE Intact(dirs[e]) /\ ~Intact(d)
  <2>1. e \in Whole /\ Whole' = Whole \ {e}
    BY <1>2, <1>3, <1>5 DEF Whole
  <2>2. \A f \in Whole : e <= f
    <3>1. \A f \in Whole : f \in Present /\ f \in Int /\ e \in Int
      BY <1>3 DEF Whole, Present, Intact, Epochs
    <3>2. \A f \in doomed : e <= f
      BY DEF OldestDoomed
    <3>3. \A f \in Present : f < e => f \in doomed
      BY <1>3 DEF CatalogInv, OldestInv
    <3> QED
      BY <3>1, <3>2, <3>3
  <2> QED
    BY <1>3, <2>1, <2>2 DEF Catalog!Retire, Whole
<1> QED
  BY <1>2, <1>3, <1>4, <1>5, LessIsNotWhole

LEMMA StepKeepsPromise ==
  IInv /\ CatalogInv /\ [Next]_vars => [Catalog!Next]_(Catalog!vars)
<1> SUFFICES ASSUME IInv, CatalogInv, [Next]_vars
             PROVE  Catalog!Next \/ UNCHANGED Catalog!vars
  OBVIOUS
<1>1. CASE RenameSucceeds
  BY <1>1, RenamePublishes DEF Catalog!Next
<1>2. CASE SaveFinish
  BY <1>2, SaveRecords DEF Catalog!Next
<1>3. CASE EvictEntry
  BY <1>3, EvictionRetires DEF Catalog!Next
<1>4. CASE EvictDone
  <2>1. PICK e \in Epochs : IsEmptyDir(dirs[e]) /\ dirs' = [dirs EXCEPT ![e] = AbsentDir]
    BY <1>4 DEF EvictDone, OldestDoomed, IInv, TypeOK
  <2>2. ~Intact(dirs[e]) /\ ~Intact(AbsentDir)
    BY <2>1 DEF IsEmptyDir, Intact, CompleteArchive, BuiltFile, AbsentDir
  <2>3. stateFile' = stateFile /\ DOMAIN dirs = Epochs
    BY <1>4 DEF EvictDone, IInv, TypeOK
  <2> QED
    BY <2>1, <2>2, <2>3 DEF Catalog!vars
<1>5. CASE UNCHANGED vars
  BY <1>5, CatalogStutter DEF vars, disk
<1>6. CASE Next /\ ~(RenameSucceeds \/ SaveFinish \/ EvictEntry \/ EvictDone)
  <2>1. UNCHANGED dirs
    BY <1>6, DirsFrame, NextSteps
  <2>2. UNCHANGED stateFile.mark
    <3>1. CASE LoadState \/ ToolsMissing \/ SaveBegin \/ SaveFails \/ Crash
      BY <3>1 DEF LoadState, ToolsMissing, SaveBegin, SaveFails, Crash, ProcessDies, disk,
                  IInv, TypeOK
    <3> QED
      BY <1>6, <3>1, StateFrame, NextSteps
  <2> QED
    BY <2>1, <2>2, CatalogStutter
<1> QED
  BY <1>1, <1>2, <1>3, <1>4, <1>5, <1>6

\* The manager implements the catalog: for any constants and whatever fails, dies
\* or is retried, snapshots appear whole and in epoch order, only the newest is
\* recorded, and only the oldest, never a recorded one, is retired.
THEOREM CatalogPromiseKept == Spec => KeepsCatalogPromise
<1>1. Init => Catalog!Init
  BY DEF Init, Catalog!Init, Intact, AbsentDir, NoMark, NoEpoch
<1> QED
  BY <1>1, CatalogInit, CatalogStep, StepKeepsPromise, Invariance, PTL
     DEF Spec, KeepsCatalogPromise, Catalog!Spec
=============================================================================
