-------------------------- MODULE CheckpointManager --------------------------
(***************************************************************************)
(* The service process: start-up (main.rs), the block monitor (monitor.rs),*)
(* the checkpoint manager and its executor (checkpoint/), and the state    *)
(* tracker (state.rs), as one sequential program over the output directory *)
(* and the state file.  Between any two steps the process may crash, a     *)
(* step may fail, and Reth and Summit move on.                             *)
(*                                                                         *)
(* pc names the step about to run:                                         *)
(*   down, failed           not running; the last start could not load     *)
(*   startup .. startupHead ensure_latest_checkpoint                       *)
(*   idle, polled           the monitor loop                               *)
(*   check .. rename        create_checkpoint_with_expected_digest         *)
(*   abort                  its error branch                               *)
(*   save, saving           StateTracker::update_last_checkpoint and save  *)
(*   retain, evict          cleanup_old_snapshots                          *)
(*   stopping               the shutdown part of main                      *)
(***************************************************************************)
EXTENDS Schedule, SnapshotStore

CONSTANTS MaxEpoch,       \* bound: epochs 0..MaxEpoch
          MaxBlock,       \* bound: the highest block Reth reaches
          LastHeight,     \* Summit's getEpochBounds(e).last_height
          EpochBlocks,    \* config.checkpoint.epoch_blocks
          DelayBlocks,    \* config.checkpoint.checkpoint_delay_blocks
          MaxSnapshots,   \* config.checkpoint.max_snapshots, 0 for None
          MaxFaults,      \* bound: failing steps
          MaxCrashes      \* bound: crashes and shutdowns

Epochs == 0..MaxEpoch
NoEpoch == -1

ASSUME CountsAssumption ==
  {MaxEpoch, MaxBlock, DelayBlocks, MaxSnapshots, MaxFaults, MaxCrashes} \subseteq Nat

\* config.rs validate() refuses epoch_blocks = 0.
ASSUME EpochBlocksAssumption == EpochBlocks \in Nat \ {0}

ASSUME LastHeightAssumption ==
  /\ LastHeight \in [Epochs -> Nat]
  /\ \A e, f \in Epochs : e < f => LastHeight[e] < LastHeight[f]

\* The bound on blocks keeps the epochs of fixed-interval mode in Epochs.
ASSUME MaxBlockAssumption ==
  MaxBlock < EpochBlocks * (MaxEpoch + 2) /\ MaxBlock <= MaxU64

VARIABLES
  head,         \* Reth's block number
  latest,       \* Summit's latest checkpointed epoch, or NoEpoch
  dirs,         \* the published directories
  work,         \* the working directories
  stateFile,    \* its status and the last values written to it in full
  pc,
  mem,          \* StateTracker.state
  seen,         \* the head the monitor read
  target,       \* the epoch being checkpointed, or NoEpoch
  next,         \* where to go once the state is saved
  doomed,       \* the epochs cleanup_old_snapshots still has to remove
  serving,      \* the RPC server accepts requests
  faults, crashes

env == <<head, latest>>
disk == <<dirs, work, stateFile>>
locals == <<seen, target, next, doomed>>
budget == <<faults, crashes>>
vars == <<env, disk, pc, mem, locals, serving, budget>>

BuildStages == {"mkdir", "copyDb", "copyStatic", "deleteLock", "unwind", "bundle",
                "metadata", "compress", "prune", "manifest"}
\* The steps that work for a target epoch.
Targeted == {"startupDecide", "startupHead", "check", "rmFinal", "rmWork", "rename",
             "abort", "retain", "evict"} \cup BuildStages
Stopped == {"down", "failed"}
PCs == Stopped \cup Targeted \cup {"startup", "idle", "polled", "save", "saving", "stopping"}

Marks == [epoch: Epochs \cup {NoEpoch}, block: Nat]
NoMark == [epoch |-> NoEpoch, block |-> 0]

-----------------------------------------------------------------------------
(* Schedule *)

ScheduleOf(e) ==
  IF SummitEnabled THEN SummitSchedule(LastHeight[e], DelayBlocks)
                   ELSE FixedSchedule(e + 1, EpochBlocks, DelayBlocks)
Ready(e) == ScheduleOf(e).ready
CheckpointBlock(e) == ScheduleOf(e).checkpoint

\* The epoch to checkpoint when Reth is at block h.
Candidate(h) == IF SummitEnabled THEN latest ELSE EpochOf(h, EpochBlocks) - 1

\* Mutant: a recorded epoch is never looked at again.
SatisfiedByState(e) == mem.epoch >= e

\* checkpoint_is_satisfied: recorded, and its archive is (still) there.
Satisfied(e) == mem.epoch > e \/ (mem.epoch = e /\ HasArchive(dirs[e]))

-----------------------------------------------------------------------------
(* Init, and the steps several actions share *)

Init ==
  /\ head = 0 /\ latest = NoEpoch
  /\ dirs = [e \in Epochs |-> AbsentDir]
  /\ work = [e \in Epochs |-> AbsentDir]
  /\ stateFile = [status |-> "absent", mark |-> NoMark]
  /\ pc = "down" /\ mem = NoMark /\ serving = FALSE
  /\ seen = 0 /\ target = NoEpoch /\ next = "idle" /\ doomed = {}
  /\ faults = 0 /\ crashes = 0

\* The current operation is over; its local variables are gone.
Rest(p) ==
  /\ pc' = p
  /\ seen' = 0 /\ target' = NoEpoch /\ next' = "idle" /\ doomed' = {}

Goto(p) == pc' = p /\ UNCHANGED locals

\* Call the state tracker, and continue at p when it returns Ok.
SaveThen(p) ==
  /\ pc' = "save" /\ next' = p
  /\ UNCHANGED <<seen, target, doomed>>

\* One of the bounded number of failing steps.
Failing ==
  /\ faults < MaxFaults
  /\ faults' = faults + 1
  /\ UNCHANGED crashes

-----------------------------------------------------------------------------
(* Start-up: StateTracker::load, verify_checkpoint_tools, then             *)
(* ensure_latest_checkpoint, all before the RPC server and the monitor.    *)

LoadState ==
  /\ pc \in Stopped
  /\ stateFile.status # "torn"
  /\ mem' = stateFile.mark
  /\ Goto("startup")
  /\ UNCHANGED <<env, disk, serving, budget>>

\* main returns the decoding error of a torn state file.
LoadFails ==
  /\ pc \in Stopped
  /\ stateFile.status = "torn"
  /\ Goto("failed")
  /\ UNCHANGED <<env, disk, mem, serving, budget>>

\* mdbx_copy or reth cannot be executed: main returns.
ToolsMissing ==
  /\ pc = "startup"
  /\ Failing
  /\ mem' = NoMark
  /\ Goto("down")
  /\ UNCHANGED <<env, disk, serving>>

\* Mutant: the early return without a candidate is missing.
StartupForgetsNone ==
  /\ pc = "startup"
  /\ target' = Candidate(head)
  /\ pc' = "startupDecide"
  /\ UNCHANGED <<seen, next, doomed>>
  /\ UNCHANGED <<env, disk, mem, serving, budget>>

StartupDiscover ==
  /\ pc = "startup"
  /\ IF Candidate(head) = NoEpoch
       THEN Rest("idle")
       ELSE /\ target' = Candidate(head)
            /\ pc' = "startupDecide"
            /\ UNCHANGED <<seen, next, doomed>>
  /\ UNCHANGED <<env, disk, mem, serving, budget>>

\* An archive left by a crash before the state was saved is recorded.
StartupDecide ==
  /\ pc = "startupDecide"
  /\ \/ Satisfied(target) /\ Rest("idle")
     \/ /\ ~Satisfied(target) /\ HasArchive(dirs[target])
        /\ SaveThen("idle")
     \/ /\ ~Satisfied(target) /\ ~HasArchive(dirs[target])
        /\ Goto("startupHead")
  /\ UNCHANGED <<env, disk, mem, serving, budget>>

StartupHead ==
  /\ pc = "startupHead"
  /\ IF head < Ready(target) THEN Rest("idle") ELSE Goto("check")
  /\ UNCHANGED <<env, disk, mem, serving, budget>>

StartServer ==
  /\ pc = "idle" /\ ~serving
  /\ serving' = TRUE
  /\ UNCHANGED <<env, disk, pc, mem, locals, budget>>

-----------------------------------------------------------------------------
(* The monitor: one poll reads the head, then asks for the candidate. *)

\* Mutant: the head is read once, not at every poll.
PollKeepsFirstHead ==
  /\ pc = "idle" /\ serving
  /\ pc' = "polled" /\ seen' = 0
  /\ UNCHANGED <<env, disk, mem, target, next, doomed, serving, budget>>

Poll ==
  /\ pc = "idle" /\ serving
  /\ pc' = "polled" /\ seen' = head
  /\ UNCHANGED <<env, disk, mem, target, next, doomed, serving, budget>>

\* Mutant: epoch 0 is taken for "no epoch".
NothingToDoAtGenesis(e) == e <= 0 \/ Satisfied(e)

NothingToDo(e) == e = NoEpoch \/ Satisfied(e)

MonitorDiscover ==
  /\ pc = "polled"
  /\ LET e == Candidate(seen)
     IN  IF NothingToDo(e) \/ seen < Ready(e)
           THEN Rest("idle")
           ELSE /\ target' = e /\ seen' = 0
                /\ pc' = "check"
                /\ UNCHANGED <<next, doomed>>
  /\ UNCHANGED <<env, disk, mem, serving, budget>>

-----------------------------------------------------------------------------
(* create_checkpoint_with_expected_digest *)

Check ==
  /\ pc = "check"
  /\ \/ dirs[target].present /\ HasArchive(dirs[target]) /\ SaveThen("idle")
     \/ dirs[target].present /\ ~HasArchive(dirs[target]) /\ Goto("rmFinal")
     \/ ~dirs[target].present /\ Goto("rmWork")
  /\ UNCHANGED <<env, disk, mem, serving, budget>>

\* remove_dir_all of the published directory: entry by entry, then itself.
RmFinalEntry ==
  /\ pc = "rmFinal"
  /\ \E d \in WithoutOneEntry(dirs[target]) : dirs' = [dirs EXCEPT ![target] = d]
  /\ UNCHANGED <<env, work, stateFile, pc, mem, locals, serving, budget>>

RmFinalDone ==
  /\ pc = "rmFinal"
  /\ IsEmptyDir(dirs[target])
  /\ dirs' = [dirs EXCEPT ![target] = AbsentDir]
  /\ Goto("rmWork")
  /\ UNCHANGED <<env, work, stateFile, mem, serving, budget>>

\* One step of the attempt, which changes the working directory only.
Build(stage, d, after) ==
  /\ pc = stage
  /\ work' = [work EXCEPT ![target] = d]
  /\ Goto(after)
  /\ UNCHANGED <<env, dirs, stateFile, mem, serving, budget>>

\* Mutant: the leftovers of an earlier attempt stay.
RmWorkSkipped == Build("rmWork", work[target], "mkdir")

RmWork == Build("rmWork", AbsentDir, "mkdir")
Mkdir == Build("mkdir", Created(work[target]), "copyDb")

Adding(new) == [work[target] EXCEPT !.parts = @ \cup new]

CopyDb == Build("copyDb", Adding({"db"}), "copyStatic")

\* Reth may or may not hold the lock file when static_files is copied.
CopyStatic ==
  \E lock \in SUBSET {"lock"} : Build("copyStatic", Adding({"static"} \cup lock), "deleteLock")

\* Mutant: the lock file stays.
LockKept == Build("deleteLock", work[target], "unwind")

DeleteLock == Build("deleteLock", [work[target] EXCEPT !.parts = @ \ {"lock"}], "unwind")
Unwind == Build("unwind", Adding({"unwound"}), "bundle")

\* Mutant: the bundle is only written for epochs after the first.
BundleSkipsGenesis ==
  Build("bundle", Adding(IF SummitEnabled /\ target # 0 THEN {"bundle"} ELSE {}), "metadata")

\* write_summit_checkpoint, or nothing when Summit is disabled.
Bundle == Build("bundle", Adding(IF SummitEnabled THEN {"bundle"} ELSE {}), "metadata")

WriteMetadata == Build("metadata", Adding({"metadata"}), "compress")

\* tar packs every part that is there; metadata.json also stays beside it.
Compress ==
  LET w == work[target]
  IN  Build("compress", [w EXCEPT !.archive = BuiltFile(w.parts, w.mixed)], "prune")

\* Mutant: the snapshot is published before its manifest is written.
PruneThenRename == Build("prune", [work[target] EXCEPT !.parts = {"metadata"}], "rename")

Prune == Build("prune", [work[target] EXCEPT !.parts = {"metadata"}], "manifest")

\* Mutant: the manifest is not written.
ManifestSkipped == Build("manifest", work[target], "rename")

\* write_snapshot_manifest, or nothing when Summit is disabled.
WriteManifest ==
  LET w == work[target]
  IN  Build("manifest", IF SummitEnabled THEN [w EXCEPT !.manifest = w.archive] ELSE w,
            "rename")

\* Mutant: the finished directory is copied to its place, not moved.
PublishedByCopy ==
  /\ pc = "rename"
  /\ IsEmptyDir(dirs[target])
  /\ dirs' = [dirs EXCEPT ![target] = work[target]]
  /\ SaveThen("retain")
  /\ UNCHANGED <<env, work, stateFile, mem, serving, budget>>

\* rename(2) replaces an empty directory and refuses any other.
RenameSucceeds ==
  /\ pc = "rename"
  /\ IsEmptyDir(dirs[target])
  /\ dirs' = [dirs EXCEPT ![target] = work[target]]
  /\ work' = [work EXCEPT ![target] = AbsentDir]
  /\ SaveThen("retain")
  /\ UNCHANGED <<env, stateFile, mem, serving, budget>>

\* The working directory is left behind.
RenameRefused ==
  /\ pc = "rename"
  /\ ~IsEmptyDir(dirs[target])
  /\ Rest("idle")
  /\ UNCHANGED <<env, disk, mem, serving, budget>>

\* What a step that does not finish may leave of the directory it works on.
Interrupted(stage, d) ==
  {d} \cup
  (IF stage \in {"rmWork", "abort"} THEN Remnants(d) ELSE {}) \cup
  (IF stage = "compress" THEN {[d EXCEPT !.archive = TornFile]} ELSE {}) \cup
  (IF stage = "prune" THEN {[d EXCEPT !.parts = @ \ gone] : gone \in SUBSET (d.parts \ {"metadata"})} ELSE {}) \cup
  (IF stage = "manifest" THEN {[d EXCEPT !.manifest = TornFile]} ELSE {})

BuildFails ==
  /\ pc \in BuildStages
  /\ Failing
  /\ \E d \in Interrupted(pc, work[target]) : work' = [work EXCEPT ![target] = d]
  /\ Goto("abort")
  /\ UNCHANGED <<env, dirs, stateFile, mem, serving>>

\* The error branch; a removal that fails is only logged.
Abort ==
  /\ pc = "abort"
  /\ work' = [work EXCEPT ![target] = AbsentDir]
  /\ Rest("idle")
  /\ UNCHANGED <<env, dirs, stateFile, mem, serving, budget>>

\* The removals of the leftovers, by the error branch or by the next attempt.
RmWorkFails ==
  /\ pc \in {"rmWork", "abort"}
  /\ Failing
  /\ \E d \in Interrupted(pc, work[target]) : work' = [work EXCEPT ![target] = d]
  /\ Rest("idle")
  /\ UNCHANGED <<env, dirs, stateFile, mem, serving>>

-----------------------------------------------------------------------------
(* StateTracker::update_last_checkpoint, and save at shutdown.  The memory *)
(* changes first; tokio::fs::write truncates the file, then fills it.      *)

\* Mutant: the shutdown saves a fresh state.
MarkForgetsAtShutdown ==
  IF next = "down" THEN NoMark ELSE [epoch |-> target, block |-> CheckpointBlock(target)]

\* Mutant: the block recorded is the one before the epoch's boundary.
MarkWithLastBlock ==
  IF next = "down" THEN mem ELSE [epoch |-> target, block |-> CheckpointBlock(target) + 1]

\* What is saved: the target's, or at shutdown what memory holds.
Mark == IF next = "down" THEN mem ELSE [epoch |-> target, block |-> CheckpointBlock(target)]

SaveBegin ==
  /\ pc = "save"
  /\ mem' = Mark
  /\ stateFile' = [stateFile EXCEPT !.status = "torn"]
  /\ Goto("saving")
  /\ UNCHANGED <<env, dirs, work, serving, budget>>

SaveFinish ==
  /\ pc = "saving"
  /\ stateFile' = [status |-> "ok", mark |-> mem]
  /\ IF next = "retain"
       THEN pc' = "retain" /\ UNCHANGED locals
       ELSE Rest(next)
  /\ mem' = IF next = "down" THEN NoMark ELSE mem
  /\ UNCHANGED <<env, dirs, work, serving, budget>>

\* The file cannot be opened, or written once truncated.  The memory keeps the
\* new values; at shutdown main returns the error.
SaveFails ==
  /\ pc \in {"save", "saving"}
  /\ Failing
  /\ IF next = "down" THEN Rest("down") /\ mem' = NoMark
                      ELSE Rest("idle") /\ mem' = Mark
  /\ UNCHANGED <<env, disk, serving>>

-----------------------------------------------------------------------------
(* cleanup_old_snapshots *)

Present == {e \in Epochs : dirs[e].present}

Newer(e) == {f \in Present : f > e}

\* Mutants: the newest are taken instead of the oldest; one more, or less, is kept.
NewestAreExcess == {e \in Present : Cardinality({f \in Present : f < e}) >= MaxSnapshots}
OneMoreIsKept == {e \in Present : Cardinality(Newer(e)) > MaxSnapshots}
OneFewerIsKept == {e \in Present : Cardinality(Newer(e)) + 1 >= MaxSnapshots}

\* All but the max_snapshots newest directories, with or without an archive.
Excess == {e \in Present : Cardinality(Newer(e)) >= MaxSnapshots}

Retain ==
  /\ pc = "retain"
  /\ IF MaxSnapshots = 0 \/ Excess = {}
       THEN Rest("idle")
       ELSE /\ pc' = "evict" /\ doomed' = Excess
            /\ UNCHANGED <<seen, target, next>>
  /\ UNCHANGED <<env, disk, mem, serving, budget>>

\* Mutant: the newest of the excess goes first.
NewestDoomed == {e \in doomed : \A f \in doomed : e >= f}

OldestDoomed == {e \in doomed : \A f \in doomed : e <= f}

EvictEntry ==
  /\ pc = "evict"
  /\ \E e \in OldestDoomed : \E d \in WithoutOneEntry(dirs[e]) :
       dirs' = [dirs EXCEPT ![e] = d]
  /\ UNCHANGED <<env, work, stateFile, pc, mem, locals, serving, budget>>

EvictDone ==
  /\ pc = "evict"
  /\ \E e \in OldestDoomed :
       /\ IsEmptyDir(dirs[e])
       /\ dirs' = [dirs EXCEPT ![e] = AbsentDir]
       /\ IF doomed = {e}
            THEN Rest("idle")
            ELSE doomed' = doomed \ {e} /\ UNCHANGED <<pc, seen, target, next>>
  /\ UNCHANGED <<env, work, stateFile, mem, serving, budget>>

-----------------------------------------------------------------------------
(* Failures that end the current operation and change nothing on disk: an  *)
(* RPC call, a listing, a removal (also one that meets a new entry), the   *)
(* rename.  The monitor waits and polls again.                             *)
StepFails ==
  /\ pc \in {"startup", "startupHead", "polled", "rmFinal", "rename", "retain", "evict"}
  /\ Failing
  /\ Rest("idle")
  /\ UNCHANGED <<env, disk, mem, serving>>

Spending ==
  /\ crashes < MaxCrashes
  /\ crashes' = crashes + 1
  /\ UNCHANGED faults

\* Ctrl-C is only looked at between two polls; the server stops accepting.
Shutdown ==
  /\ pc = "idle" /\ serving
  /\ Spending
  /\ pc' = "stopping" /\ serving' = FALSE
  /\ UNCHANGED <<env, disk, mem, locals>>

\* Every request in flight is answered.
ServerStopped ==
  /\ pc = "stopping"
  /\ SaveThen("down")
  /\ UNCHANGED <<env, disk, mem, serving, budget>>

\* SIGKILL, a panic, an exit: memory and the half-done step are lost.  What
\* happens to the requests in flight is left to the module that has them.
ProcessDies ==
  /\ pc \notin Stopped
  /\ Spending
  /\ IF target = NoEpoch
       THEN UNCHANGED work
       ELSE \E d \in Interrupted(pc, work[target]) : work' = [work EXCEPT ![target] = d]
  /\ Rest("down") /\ mem' = NoMark /\ serving' = FALSE
  /\ UNCHANGED <<env, stateFile>>

Crash == ProcessDies /\ UNCHANGED dirs

-----------------------------------------------------------------------------
(* The environment: Reth and Summit move forward, in no fixed order. *)

AdvanceHead ==
  /\ head < MaxBlock
  /\ head' = head + 1
  /\ UNCHANGED <<latest, disk, pc, mem, locals, serving, budget>>

SummitCheckpoint ==
  /\ SummitEnabled /\ latest < MaxEpoch
  /\ latest' = latest + 1
  /\ UNCHANGED <<head, disk, pc, mem, locals, serving, budget>>

-----------------------------------------------------------------------------
StartupStep == LoadState \/ StartupDiscover \/ StartupDecide \/ StartupHead \/ StartServer

BuildStep ==
  \/ RmWork \/ Mkdir \/ CopyDb \/ CopyStatic \/ DeleteLock \/ Unwind \/ Bundle
  \/ WriteMetadata \/ Compress \/ Prune \/ WriteManifest

CreateStep == Check \/ BuildStep \/ RenameSucceeds \/ Abort

\* Steps that only another writer in the output directory makes possible.  The
\* manager alone is never at one (Uncontended, below); CheckpointerSystem, which
\* has the other writer, adds them.
Contended == RmFinalEntry \/ RmFinalDone \/ RenameRefused

SaveStep == SaveBegin \/ SaveFinish

RetentionStep == Retain \/ EvictEntry \/ EvictDone

\* What the process does next when nothing fails and nobody stops it.
Progress ==
  \/ StartupStep \/ Poll \/ MonitorDiscover \/ CreateStep \/ SaveStep \/ RetentionStep

Failure == ToolsMissing \/ BuildFails \/ RmWorkFails \/ SaveFails \/ StepFails

Environment == AdvanceHead \/ SummitCheckpoint

Next ==
  \/ Progress \/ LoadFails \/ ServerStopped
  \/ Failure \/ Shutdown \/ Crash \/ Environment

Spec == Init /\ [][Next]_vars

\* The process is restarted when it is down, and a running one makes steps;
\* nothing forces a failure, a shutdown, or the chain to move.
Fairness == WF_vars(Progress) /\ WF_vars(LoadFails) /\ WF_vars(ServerStopped)

FairSpec == Spec /\ Fairness

-----------------------------------------------------------------------------
(* Properties *)

\* Every variable keeps to the values the program can hold; a step that works
\* for a target epoch has one.
TypeOK ==
  /\ head \in 0..MaxBlock /\ latest \in Epochs \cup {NoEpoch}
  /\ dirs \in [Epochs -> Dirs] /\ work \in [Epochs -> Dirs]
  /\ stateFile \in [status: {"absent", "torn", "ok"}, mark: Marks]
  /\ pc \in PCs /\ mem \in Marks /\ serving \in BOOLEAN
  /\ seen \in 0..MaxBlock /\ target \in Epochs \cup {NoEpoch}
  /\ next \in {"idle", "retain", "down"} /\ doomed \in SUBSET Epochs
  /\ faults \in 0..MaxFaults /\ crashes \in 0..MaxCrashes
  /\ pc \in Targeted => target # NoEpoch
  /\ pc \in {"save", "saving"} => target # NoEpoch \/ next = "down"

\* An epoch the service believes to be done, in memory or after a restart, has a
\* whole snapshot on disk (certified by its manifest in Summit mode), whatever
\* was retained, retried, failed or crashed since; and the block recorded with it
\* is the one its database was unwound to.
RecordedSnapshotIntact ==
  \A m \in {mem, stateFile.mark} :
    m.epoch # NoEpoch => Intact(dirs[m.epoch]) /\ m.block = CheckpointBlock(m.epoch)

\* Whatever archive of its own the service offers holds every part, unwound,
\* without Reth's lock file and without the leftovers of another attempt.
ServedArchiveComplete ==
  \A e \in Epochs : dirs[e].archive.kind = "built" => CompleteArchive(dirs[e].archive)

\* The number of snapshot directories exceeds max_snapshots only by the one just
\* published, and by one for each time a failure or a crash kept
\* cleanup_old_snapshots from running to its end.
RetentionBound ==
  MaxSnapshots # 0 =>
    Cardinality(Present) <=
      MaxSnapshots + faults + crashes
        + (IF pc \in {"save", "saving", "retain", "evict"} THEN 1 ELSE 0)

\* Working directories, each as large as a database, are left behind only by
\* failures and crashes, at most one by each; what is not the epoch being built is
\* never removed later.
LeftoverBound ==
  Cardinality({e \in Epochs \ {target} : work[e].present}) <= faults + crashes

\* The last block of a completed epoch.
EpochEnd(e) == IF SummitEnabled THEN LastHeight[e] ELSE EpochBlocks * (e + 1) - 1

\* A database is only copied once Reth is past the epoch's end by the configured
\* delay, although head and epoch are read at different moments, so the copy can
\* be unwound to the block before the epoch's end.
CopyCoversTarget ==
  pc \in BuildStages =>
    /\ head > EpochEnd(target) + DelayBlocks
    /\ CheckpointBlock(target) = SatSub(EpochEnd(target), 1)

\* As long as nobody else writes the output directory, what is not a whole
\* snapshot there is never the target's: no published directory is removed to make
\* room for an attempt, and no rename is refused after hours of work.
Uncontended == pc # "rmFinal" /\ (pc = "rename" => IsEmptyDir(dirs[target]))

\* Neither the file nor, while the process lives, the memory goes back to an
\* earlier epoch: a snapshot synced late never overrides a newer one.
StateNeverRegresses ==
  [][/\ stateFile'.mark.epoch >= stateFile.mark.epoch
     /\ mem'.epoch >= mem.epoch \/ pc' \in Stopped]_vars

\* The manager keeps the promise of SnapshotCatalog: snapshots appear whole and
\* in epoch order, only a whole one is recorded, and only the oldest retired.
Catalog == INSTANCE SnapshotCatalog WITH
  catalog <- {e \in Epochs : Intact(dirs[e])},
  recorded <- stateFile.mark.epoch
KeepsCatalogPromise == Catalog!Spec

\* An epoch Reth is far enough past gets its snapshot, and the service knows it,
\* unless a newer epoch takes its place or the state file is torn.
EpochEventuallyCheckpointed ==
  \A e \in Epochs :
    (Candidate(head) = e /\ head >= Ready(e))
      ~> \/ mem.epoch >= e /\ HasArchive(dirs[e])
         \/ Candidate(head) > e
         \/ pc = "failed"

\* config.example.toml: the state file "is used to resume from the correct point
\* after a restart", so a restart finds a state file it can load.
RestartLoadsState == pc # "failed"

\* config.example.toml: checkpoint_delay_blocks is how long to wait "before
\* creating a checkpoint"; waiting longer than the delay of some completed epoch
\* must end in a checkpoint.
DelayEndsInCheckpoint ==
  \A e \in Epochs : head >= Ready(e) ~> mem.epoch # NoEpoch \/ pc = "failed"
=============================================================================
