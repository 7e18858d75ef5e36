# Specification of summit-checkpointer

summit-checkpointer is a sidecar of a Reth node. It watches Reth's block number
and Summit's checkpoints (or, without Summit, a fixed epoch length), takes a
snapshot of the database at the end of every epoch, publishes it in
`output_dir/epoch_N`, keeps a bounded number of them, and serves them to other
nodes, from which it can also download snapshots. This directory holds a TLA+
model of it, TLC configurations that check the model on small instances, and
proofs of its main properties for TLAPS. `PROJECT.json` lists the components,
runs, mutants, hazards and theorems, and maps each definition to source lines.

## 1. Inventory

| Part (under `src/src/`) | State | Operations | Interacts with |
|---|---|---|---|
| `schedule.rs` | none | `summit_checkpoint_schedule`, `fixed_interval_schedule` | called by monitor and manager |
| `monitor.rs` | none between polls | `run_until_cancelled`, `check_and_checkpoint` and its two variants | Reth, Summit, state tracker, manager |
| `state.rs` | last epoch and block, in memory and in the state file | `load`, `update_last_checkpoint`, `save` | manager, monitor, main |
| `main.rs` | the shutdown token | start-up sequence, Ctrl-C, shutdown sequence | everything |
| `checkpoint/manager.rs` | `epoch_N`, `.epoch_N.partial`, the header cache, all on disk | `ensure_latest_checkpoint`, `create_checkpoint_with_expected_digest`, `cleanup_old_snapshots`, `write_summit_checkpoint`, the identity checks | executor, state tracker, both RPC clients |
| `checkpoint/executor.rs` | none; changes the working directory | `mdbx_copy`, copying `static_files`, the lock file, `reth stage unwind`, `tar`, clean-up | external tools |
| `checkpoint/manifest.rs`, `metadata.rs` | none | file formats | manager |
| `rpc/*.rs` | none | `eth_blockNumber`, `eth_getBlockByNumber`, `getLatestCheckpointInfo`, `getEpochBounds`, `getCheckpoint`, `getFinalizedHeader` | Reth, Summit |
| `server/server.rs` | `epoch_N` (archive and partial download), on disk; open streams | `downloadEncryptedSnapshot`; the listings, GET of manifests and archives, `getEncryptedSnapshot` | shares the output directory with the manager, without a lock |
| `config.rs` | constants | `load`, `validate` | everything |

What makes it hard, and what makes each part correct:

* **Creation** is a dozen steps over minutes, each of which can fail, or be cut
  off by the death of the process; what it leaves behind meets the next attempt.
  Whatever is published must be whole, and of one attempt.
* **Three records of the same fact** - the directory, the memory, the state
  file - change at different moments. None may claim a snapshot that is not
  there, and none may go back.
* **Retention** removes directories entry by entry while the others are served.
  It may only take the oldest, and never what is recorded.
* **Downloads** run concurrently with each other and with the manager over the
  same directories, and check, remove, create, write and rename between awaits.
* **Readers** ask several questions one after the other - a listing looks at one
  archive after another, a manifest comes before its archive, a stream lasts for
  hours - while the answers change.
* **Summit's replies** carry four artifacts that must belong together and to the
  block Reth has; they may be of different moments, chains or epochs.
* **Heads and epochs are read at different moments**, from two programs that
  move on by themselves; a copy must still reach past the block it is unwound to.
* **Retry** is nothing but the next poll. Every ready epoch must get its
  snapshot after finitely many failures.
* **Boundaries**: delay against epoch length, saturation, epoch 0, an output
  directory at its limit.

The line where each of these bites, and the properties aimed at it, are listed
under `hazards` in `PROJECT.json`.

## 2. Modules

| Module | What it is |
|---|---|
| `Schedule` | the two schedules, with saturating arithmetic over 0..`MaxU64`; pure operators |
| `SnapshotStore` | the values a directory can hold; what an archive must hold; pure operators |
| `SnapshotCatalog` | the abstract specification: what an operator sees of the manager |
| `CheckpointManager` | start-up, monitor, manager, executor and state tracker as one sequential program, with failures, crashes and a moving chain; its properties |
| `SnapshotServer` | the download handler, one task per request |
| `SnapshotReaders` | the handlers that read, one session per client |
| `CheckpointerSystem` | manager, downloads and readers over the same directories and in the same process; its properties |
| `SummitIdentity` | what a `getCheckpoint` reply must show; pure operators |
| `SummitBundle` | inside one step of the manager: the calls to Summit and Reth, the checks of `SummitIdentity`, the header cache |
| `Configuration` | how settings come about, and what `validate` refuses; pure operators and a theorem |
| `MCCheckpointManager`, `MCCheckpointerSystem`, `MCSummitBundle` | the instances TLC checks |
| `ScheduleProofs`, `SummitIdentityProofs`, `SummitBundleProofs` | theorems and proofs about the module each is named after |
| `CheckpointManagerProofs` | the manager: types, the inductive invariant, what a step may do to its own state and to the directories |
| `CheckpointManagerBoundProofs` | the manager: how far Reth is when a copy is taken, how many directories there may be |
| `CheckpointManagerCatalogProofs` | the manager implements `SnapshotCatalog` |
| `CheckpointerSystemProofs` | the whole service: with any downloads, for the epochs they keep away from, and while they do not overlap |

### The output directory (`SnapshotStore`)

A directory is a record: whether it exists, which finished *parts* of a
checkpoint lie in it (the copied database, `static_files`, Reth's lock file in
it, the unwound state, the Summit bundle, `metadata.json`), whether it mixes
several attempts, its archive, its manifest and its partial download. The bytes
of a file are abstracted to where they come from: a completed `tar` (with the
parts that were packed), a downloaded body, an empty file, or something torn. A
manifest is the value of the archive it was hashed over, so "the manifest
commits to the archive" is an equality that a later replacement breaks. A file
remembers which tasks hold it open, since a write follows the inode, not the
name. The properties tell no more than this apart.

### The manager (`CheckpointManager`)

The program is sequential, so `pc` names the step about to run and each step up
to the next point where the process may die, another program may act or the call
may fail is one action:

* `LoadState`/`LoadFails`, `ToolsMissing`, `StartupDiscover`, `StartupDecide`,
  `StartupHead`, `StartServer`: `main.rs` up to the monitor loop, with
  `ensure_latest_checkpoint`;
* `Poll`, `MonitorDiscover`: one poll, which reads the head first and the
  candidate epoch later;
* `Check`, `RmFinalEntry`/`RmFinalDone`, `RmWork`, `Mkdir`, `CopyDb`,
  `CopyStatic`, `DeleteLock`, `Unwind`, `Bundle`, `WriteMetadata`, `Compress`,
  `Prune`, `WriteManifest`, `RenameSucceeds`/`RenameRefused`, and `Abort`, the
  error branch: `create_checkpoint_with_expected_digest`. `RmFinalEntry`,
  `RmFinalDone` and `RenameRefused` (together `Contended`) need another writer in
  the output directory: the manager's own `Next` is without them, which loses
  nothing because of `Uncontended`, and `CheckpointerSystem` adds them;
* `SaveBegin`, `SaveFinish`, `SaveFails`: the state tracker, whose memory changes
  first and whose file is truncated before it is filled;
* `Retain`, `EvictEntry`, `EvictDone`: `cleanup_old_snapshots`;
* `Shutdown`, `ServerStopped`, then a save: the end of `main`;
* `BuildFails`, `RmWorkFails`, `StepFails`, `ToolsMissing`: a failing call, with
  what it may leave on disk; `ProcessDies`: a crash at any step, with what the
  interrupted step may leave;
* `AdvanceHead`, `SummitCheckpoint`: Reth and Summit.

### The server (`SnapshotServer`, `SnapshotReaders`) and the system (`CheckpointerSystem`)

A download is accepted (`Request`), then fetches its body (`FetchEnds`,
`FetchFails`), which touches nothing and may take for ever; then each await of the
handler is a step: create the directory, look for a partial file, remove it, create
it, write, finish, rename. `WriteFails` is the full disk. A crash ends every request
and closes its files as they are. `touched` is history: the epochs that a download was
accepted for since the beginning, which no action reads.

A client of `SnapshotReaders` has one session. It may ask for the latest epoch:
`AskLatest` reads the names in the output directory, `CheckEntry` looks at one
archive after another in any order, `AnswerLatest` takes the newest. It goes on with
that epoch's manifest (`GetManifest`) and archive, or asks for any epoch without a
listing. GET opens the archive (`OpenArchive`), takes the length of the open file
(`SendHeader`) and streams it; the deprecated `getEncryptedSnapshot` looks first
(`LookForArchive`) and opens later (`ReadArchive`). An open file is followed by inode:
an eviction or a rename does not change what is sent, while a download that still
writes to that inode does (`Rewritten`). A session in which the archive asked for is
gone, after it was announced or seen, is `missing`; one whose manifest is gone is
`uncertified`. It records the epoch that was recorded when it began (`floor`), which only
a property reads.

`CheckpointerSystem` takes its instance of the manager from `CheckpointManagerProofs`,
which adds nothing to the model, so that the lemmas proved there can be cited of that
instance. In it requests are accepted while `serving` holds; the end of `main`
waits for all of them (`ServerStopped`), and a crash ends them all.

### The bundle (`SummitIdentity`, `SummitBundle`)

`Bundle` of the manager is one step that succeeds or fails. `SummitBundle` is what
happens in it, from the discovery of the epoch on: `Discover`, `GetBounds`,
`GetCheckpoint` (digest, artifacts and position), `ConfirmWithReth` (execution
identity), `FetchGenesis`, `ResetEntry`/`SeedCache`
(`prepare_finalized_header_cache`), then one header after another: `TakeGenesis`,
`TakeCached`, `FetchHeader`, `FetchTerminal`. Every call is answered by the chain
Summit is on at that moment. `GetMixedCheckpoint` is a Summit that does not read its
artifacts at one moment: checkpoint, header, block, digest and epoch of the reply are
then of up to two places, or empty. `Aborted` is a failing call or the death of the
process, which only the cache survives. Summit may change its chain at any moment;
Reth's database, which the attempt copies, only between attempts. Whether the epoch
is ready or done is the manager's part: here every attempt is made.

In `SummitIdentity` a checkpoint, header or block is its *place*, the chain and height
it is of, and a digest is the place it was computed from. An artifact may be taken
from anywhere, but it states its own epoch, parent and checkpoint truthfully: hashes do
not collide. `ArtifactsBound` is `decode_summit_checkpoint_identity` comparison by
comparison, `PositionMatches` `validate_summit_checkpoint_position`, with its overflow
check, and `ExecutionMatches` `validate_checkpoint_execution_identity`. The headers of
the cache and the bundle are abstracted further, to their chain, since the code
compares them as bytes only and never decodes them.

### Settings (`Configuration`)

Four sources, each a function from the keys it sets to values, laid over each other:
defaults, file, environment, command line. The environment reaches only keys of one
word: its separator is `_`, which the configuration library turns into the separator of
sections wherever it stands, so that `CHECKPOINTER_RETH_RPC_URL`, the example of
`config.rs:158`, names `reth.rpc.url` and changes nothing. (That is the library's
behaviour, hence marked external, and no run is made of it.)

## 3. Properties and runs

One type invariant per module. The others:

* `RecordedSnapshotIntact`: an epoch recorded in memory or in the state file has
  a whole snapshot on disk, certified by its manifest in Summit mode, and the
  block recorded with it is the one it was unwound to. (Without downloads: see
  run `manifest` for what they do to it.)
* `ServedArchiveComplete`: every archive built here holds every part, no lock
  file, and nothing of another attempt.
* `LeftoverBound`: working directories nobody works on any more are at most as many
  as there were failures and crashes: a refused rename or a failed removal leaves one
  behind, and nothing else does.
* `RetentionBound`: the number of directories exceeds `max_snapshots` by the one
  being published and by one for each failure or crash, never more.
* `CopyCoversTarget`: while a copy is taken and worked on, Reth is past the
  epoch's end by the delay, and the block it is unwound to is the one before
  that end, however head and epoch were read.
* `Uncontended`: without downloads, what an interrupted eviction leaves is never the
  target's directory, so nothing published is removed for an attempt and no
  rename is refused.
* `StateNeverRegresses` (action property): the recorded epoch never goes back.
* `KeepsCatalogPromise` (refinement): `CheckpointManager` implements
  `SnapshotCatalog` when `catalog` is the set of epochs with an intact snapshot
  and `recorded` the epoch in the state file: snapshots appear whole and in
  order, only whole ones are recorded, only the oldest is retired and only when
  a newer one is recorded.
* `EpochEventuallyCheckpointed`, `EpochEventuallyArchived` (liveness): a ready
  epoch is checkpointed, or superseded by a newer candidate, or the process
  cannot start because of a torn state file.
* `AppearsWithManifest` (action property): a built archive appears in one step,
  whole and with its manifest, also while others download next to it.
* `DownloadsAreWhole`: downloads that do not overlap publish the whole body or
  nothing, after a full disk, a crash or a shutdown too. The run that checks it has one
  task.
* `RecordedNotRebuilt`: no step of the hours an attempt takes works for an epoch that
  is recorded, as long as no download was asked for of that epoch or of a later one.
  (With one of a later epoch, retention takes the snapshot just built and the monitor
  builds it again: listed as a hazard.)
* `ShutdownCompletes` (liveness): a shutdown that does not wait for a fetch or for a
  client that does not read comes to its end.
* `StreamIsWhole`: while downloads do not overlap (the run that checks it has one task),
  what a client is sent is one archive, as long as its header said, and no half-written
  one, though it may be evicted or replaced meanwhile. Two overlapping downloads can put
  a torn archive in place, and a client is then sent that.
* `LatestCoversRecorded`: the latest epoch a client is told is no older than what was
  recorded when it asked, unless a newer one was recorded while the listing was made -
  in which case the answer may be older than both, or "No snapshots found". *Precondition:*
  no download was asked for, since the beginning, of the epoch recorded when the client
  asked or of a later one. Without it the statement is false: an empty body may be renamed
  over the recorded archive, which the manager then removes at the next poll, and the
  listing in between or after finds nothing.
* `AnnouncedStaysAvailable`: an archive that was announced to a client, or seen to exist
  for it, is missing only when a newer intact snapshot has taken its place; in Summit mode
  so is its manifest (without Summit there is none). *Precondition:* no download was asked
  for of that epoch or of a later one. Without it the statement is false: a downloaded
  epoch is announced, has no manifest, and need not have anything newer.

The last two and `RecordedNotRebuilt` name their precondition as `Undisturbed(e)`: every
epoch in `touched` is older than `e`. Downloads of older epochs are allowed, before and
meanwhile: they may bring an evicted epoch back, replace what is there, and be counted
and evicted by retention.

* `BundleIsOfOneChain`: a finished bundle holds one checkpoint of Reth's chain, the
  header and the block that end its epoch, every header of that chain up to it and none
  of another, and its database was unwound to the checkpoint's own block, whatever
  moment Summit's chain changed at and whatever it mixed up.
* `BundlesGetMade` (liveness): once Summit and Reth are on one chain for good,
  bundles get made, however the cache was left.

| Run | Mode and instance | Shows |
|---|---|---|
| `summit` | Summit, epochs 0..2 ending at 2, 4, 6, delay 1, one snapshot kept, 1 failure, 1 crash or shutdown | the safety properties, the refinement, and liveness |
| `fixed` | fixed interval, epochs 0..3 of 2 blocks, delay 1, two snapshots kept, 1 failure, 1 crash | the same |
| `one` | system, Summit, epochs 0..1, one task, two requests, 1 crash (1.0 million states) | safety with downloads |
| `two` | system, Summit, epoch 0, two tasks, two requests, 1 crash or shutdown | overlapping downloads into the epoch that is built; liveness of the archive and of the shutdown |
| `readers` | system, Summit, epochs 0..1, one snapshot kept, one client, one task and request, 1 crash or shutdown (0.8 million states) | what a client sees over a whole session |
| `older` | as `readers`, with epochs 0..2 and without crash and shutdown (1.0 million states) | what a client was told, while an older epoch is downloaded and newer ones are built |
| `bundle` | two chains, epochs 0..3, one change of chain of Summit and one of Reth, 1 abort or mixed reply | safety and liveness of the bundle |
| `delay`, `restart`, `manifest`, `return`, `removal` | small instances | each violates one statement of the repository's own text: section 5 |

**Bounds.** `MaxEpoch`, `MaxBlock`, `MaxFaults`, `MaxCrashes`, `MaxRequests`,
`MaxSwitches`, `MaxAborts`; the sets `Tasks` and `Clients`, with one session for each
client; and mixed replies of at most two places.
With one snapshot kept, three epochs let a snapshot be created, retained, evicted and
superseded while an older attempt is cut off; with two kept it takes four, and then
retention has two to choose from. Several epochs within the blocks of the run let head
and epoch be read across a boundary. One failure and one crash combine into the pairs that
matter (a failed save, then a crash; a failed removal, then a retry); `summit` and `fixed`
fire both at every step, `one`, `two` and `readers` the crash. All safety properties are proved without bounds
on any of these (section 4). Two requests are what it takes for one to meet what the other
left. Two epochs and one retained snapshot are what it takes for an announced snapshot
to be evicted, and for a listing to miss both; with a third, the oldest may be downloaded
without taking the promise away for the two after it (`older`). Clients do not disturb each
other, so one is enough. Run `two` has none, so of what a shutdown may wait for
(`Waiting` in `ShutdownCompletes`) only fetches occur in it; the safety runs `readers`
and `one` let a shutdown happen, but check no liveness.
A reply of two places can break any of the links between its artifacts; the theorem on
the checks has no such bound. `MaxU64` is 1000 in the runs, large enough that nothing
saturates, so that `CopyCoversTarget` is checked away from saturation only; saturation is in the
theorems of `ScheduleProofs`. In `SummitBundle` four epochs are
the first at which an attempt fetches one header and takes another from the cache;
`MaxSwitches = 1` is not a convenience: with two changes `BundleIsOfOneChain` is
false (run `return`).

**Fairness.** `Progress`, the steps of the process when nothing fails, is weakly
fair: a process that runs makes steps, and a dead one is started again by its
supervisor (`LoadState` is part of `Progress`; so are `LoadFails` and
`ServerStopped`). Request handlers, downloads and readers, are weakly fair, since the
runtime schedules every task; that a fetch ends or that a client reads what it is sent
(`FetchStep`, `StreamStep`) is not assumed, since there is no timeout for either, and
`EpochEventuallyArchived` and `ShutdownCompletes` name the wait as an outcome. Failures, crashes, shutdowns, requests and the chain have no fairness
and the first two are bounded: with failures for ever there is no progress in the
code either. Each attempt starts from the beginning, so no strong fairness is
needed. A tool that never returns would break the fairness of `Progress`; the code has no timeout for its tools, which `PROJECT.json` lists as
a hazard no property covers.

## 4. Proofs

`ScheduleProofs`: the saturating operators keep to their range
(`SaturatingTypes`), division into epochs is monotone (`EpochOfMonotone`), a
Summit epoch is ready exactly the delay and two blocks after its checkpoint block
(`SummitReadyPastCheckpoint`), and the two modes agree on epochs of equal length
(`SchedulesAgree`). Saturation is excluded by an assumption where the statement
would be false with it.

`CheckpointManagerProofs`, for all values of the constants, with the assumptions
named in the modules (`MaxU64Assumption`, `SummitEnabledAssumption`,
`CountsAssumption`, `EpochBlocksAssumption`, `LastHeightAssumption`,
`MaxBlockAssumption`):

* `TypeCorrectness`: `Spec => []TypeOK`. That a step with a target has one is
  part of it, because most other types depend on it.
* `Invariance`: `Spec => []IInv`. `RecordedSnapshotIntact` is not inductive: that
  an evicted directory is not a recorded one rests on the order of epochs, and
  that a published directory is whole on what each step of the attempt left.
  `IInv` adds: which steps have a target (`LocalsInv`); an absent directory is
  empty (`AbsentInv`); no directory is newer than the chain, than what a poll is
  about to consider, or than the target (`OrderInv`); memory is ahead of the file
  only by whole snapshots (`MemoryInv`); only directories older than the recorded
  epoch are not whole (`WholeInv`); what the working directory holds before every
  step (`StageInv`); what is whole before it is recorded and who is doomed
  (`PublishInv`).
* `RecordedIsIntact` and `NeverContended` follow from it.
* `OwnInvariance`: `Spec => []OwnInv`. `OwnInv` is the part of the invariant that speaks
  of the manager's own variables and working directories only, never of a published
  directory, and its steps include those another writer makes possible (`OwnStep`).
  `StateOnlyAdvances` and `ServedIsComplete` are proved from it alone, which is what lets
  them be proved of the whole service too.

`CheckpointManagerBoundProofs`:

* `CopiesCoverTarget`: `Spec => []CopyCoversTarget`, from `ReadyInv` (from the decision
  to attempt an epoch on, the head is at its ready block). It assumes
  `MaxBlock < MaxU64`: at the largest block number itself `ready` saturates
  (`schedule.rs:25`), the distance is lost, and the statement is false. No chain of the
  program gets there.
* `RetentionBounded`: `Spec => []RetentionBound`, by counting. `ExcessLeavesMax`: what
  is not in excess is at most `max_snapshots`, since all but its oldest are newer than
  that one. `KeptInv` follows the one directory too many from its publication to the end
  of the retention, and every other way out of that stretch spends a failure or a crash.
* `LeftoversBounded`: `Spec => []LeftoverBound`, from `LeftoverInv`: the target's
  working directory is one more only while an attempt runs, and an attempt ends without
  it or by a failure or a crash.

`CheckpointManagerCatalogProofs`: `CatalogPromiseKept`, `Spec => KeepsCatalogPromise`.
`RenameSucceeds` is `Publish`, `SaveFinish` is `Record` (or a stutter), the first entry
`EvictEntry` removes of a whole snapshot is `Retire`, everything else stutters. Beyond
`IInv` this needs that memory is ahead of the file only by the newest snapshot
(`AheadInv`), that the doomed are the oldest (`OldestInv`), and that without Summit there
is no manifest, so that a removal never completes a directory (`ManifestInv`).

`CheckpointerSystemProofs`, under the assumptions of the parts (`ConstantsAssumption`,
`RequestsAssumption`), for any number of requests, clients, epochs, failures and crashes:

* *Whatever is downloaded.* `SharedInvariance`: `Spec => []SharedInv`. Downloads break
  `OrderInv` and `WholeInv`: an epoch may be there that the chain has not reached, and
  a directory may hold anything. What is left is `OwnInv`, that an archive
  that looks built is whole, and that no partial file looks built. From it:
  `TypeCorrectness`, `ServedIsComplete`, `StateOnlyAdvances`, `AppearsWhole`. The
  argument on directories is `OwnDirs` for the manager, `HandlerDirs` for a handler,
  `CrashDirs` for a crash.
* *For the epochs that downloads keep away from.* `UndisturbedInv`: when no download was
  asked for of an epoch `n` or a later one, `Manager!UpperInv(n)` holds and nobody holds a
  file open in the directory of `n`. `UpperInv(n)` is `IInv` taken apart by directory
  (`DirInv(e)` for every `e >= n`: it is not newer than the chain and the target, it is
  whole until a newer one is recorded, there while it is recorded, out of the way of an
  attempt, not evicted while the newest), with what remains true of the manager's position
  (`ReachInv`). It is inductive by itself, because every order between directories the
  manager relies on looks upwards: retention spares the newest `max_snapshots`, so what a
  download puts among the older ones can never make it take a recorded one (`DirRetained`).
  `UndisturbedStep` combines the manager's steps (`UpperStep`), which are the only ones to
  change such a directory (`OthersKeepAway`), with the others (`UpperDies`, `UpperFrame`).
  From it `NotRebuilt`; and `ImplementsManager`,
  `Spec /\ [](requests = 0) => Manager!Spec`, since with no request every epoch is
  undisturbed, so that the theorems on the manager are about the service.
  `SessionsInv` says what an open session relies on: an undisturbed epoch that a client has
  seen is `Covered`, there or superseded by a recorded one (`CoveredStays`, from
  `UpperWholeUntilRetired`), and the epoch recorded when it asked is among the names it has
  still to look at or has found, unless a newer one was recorded. From it
  `ListingIsCurrent` and `AnnouncedIsReplaced`, with the precondition of their properties.
* *While downloads do not overlap.* `Apart`: at most one download at a time works in the
  directory of an epoch; several of different epochs may run, and fetches may overlap
  as they like. The code does not enforce this; two overlapping downloads do publish a
  mixture. `ApartInvariance`:
  `Spec /\ []Apart => [](SharedInv /\ DownloadInv /\ StreamInv)`. `DownloadInv`:
  a partial file is empty, torn or finished as the stage of its one writer says, or the
  manager has removed it; an archive has no writer (`HandlerKeeps`, step by step of the
  handler). `DownloadsPublishWhole` and `StreamsAreWhole` follow. The runs `one` and
  `readers`, with one task, are the special case `OneAtATime`.

`SummitIdentityProofs`, for any chains and epochs of strictly growing heights
(`ChainsAssumption`, `HeightsAssumption`): `AcceptedIsOneCheckpoint`, every reply that
passes the checks holds one checkpoint and the header and block that end its epoch, all
of the chain of the expected digest; and `HonestReplyAccepted`, the checks refuse no
honest reply for an epoch that has a block before its last. The first rests on the
header's being the end of some epoch of its chain, since no other commits to a
checkpoint, and on its stated epoch being the one asked for (`TerminalEpoch`).

`SummitBundleProofs`: `BundleTypes`, and `OneSwitchIsHarmless`: for `MaxSwitches <= 1`,
`Spec => []BundleIsOfOneChain`. The invariant: what an attempt keeps of a reply is one
checkpoint (`KeptIsOneCheckpoint`, from `AcceptedIsOneCheckpoint`); before the change
everything fetched is of the present chain (`BeforeInv`); a cache that starts with the
present chain's epoch 0 holds nothing else (`CacheInv`); and a checkpoint of the present
chain was followed by an epoch 0 and headers of the same (`AttemptInv`), so the
comparison of the last header with the checkpoint vouches for all of them.

`Configuration`: `AcceptedSettings`, whatever the sources, what `validate` accepts meets
what `CheckpointManager` assumes of the settings among its constants.

Only model-checked is liveness, since temporal reasoning about fairness is out of the
prover's reach: `EpochEventuallyCheckpointed`, `EpochEventuallyArchived`,
`ShutdownCompletes`, `BundlesGetMade`. Every other property of a passing run is the
statement of a theorem. Seven of them need a hypothesis. In the theorem it stands for
`CopyCoversTarget` (`MaxBlock < MaxU64`), `DownloadsAreWhole` and `StreamIsWhole`
(`Apart`), and `BundleIsOfOneChain` (`MaxSwitches <= 1`); each of these is met by the runs.
In the property itself it stands for `LatestCoversRecorded`, `AnnouncedStaysAvailable` and
`RecordedNotRebuilt` (`Undisturbed`: no download of that epoch or of a later one, see
section 3), so the runs decide it state by state. All seven are there because the
statement is false without them.

## 5. Where code and text disagree

* `manifest`: a download over an epoch built here keeps the old `manifest.json`
  (`server.rs:273`), which `config.example.toml:45` says commits to the exact
  archive bytes.
* `restart`: the state file is rewritten in place (`state.rs:88`); a crash in
  between leaves a file that no start can load, while `config.example.toml:102`
  says it is there to resume after a restart.
* `delay`: with `checkpoint_delay_blocks >= epoch_blocks` no epoch is ever ready
  while it is the candidate (`monitor.rs:168`); `config.example.toml:34` describes
  the delay as a wait before a checkpoint, and `validate` accepts it.
* `return`: only the cached header of epoch 0 is compared, once per attempt
  (`manager.rs:370`); if Summit answers for another chain later in that attempt and
  for the first one in the next, a header of the other chain is reused, while
  `manager.rs:360` says that refreshing epoch 0 excludes it.
* `removal`: the directory removed at `manager.rs:86` was judged at lines 69-70;
  a download that publishes in between loses its archive, though the message at
  line 83 says it has none.

## 6. What is not modelled, and assumptions

* Reth's head and Summit's latest epoch only grow (finality; the RPC endpoints do
  not go back), and a completed epoch's bounds do not change.
* A crash is the death of the process, not of the machine: what was written and
  renamed stays written and renamed.
* A crash ends the tools with the process. In the code `mdbx_copy`, `reth` and `tar` are
  started (`executor.rs:129`) without `kill_on_drop` and may outlive a parent that is
  killed; such a child goes on writing the working directory it was given, possibly while
  the next process removes it and starts over in a directory of the same name. The model
  has no such writer, so `ServedArchiveComplete` and `RecordedSnapshotIntact` are claimed
  for crashes after which no tool is left running.
* `checkpoint_is_satisfied` and the `checkpoint_exists` after it, at start-up, are
  one step: nothing else runs in the process before the server starts. `Check`
  reads `exists()` and `checkpoint_exists()` in one step.
* In `CheckpointManager`, `write_summit_checkpoint` is one step, and what its checks
  decide is whether it fails. An epoch that ends at height 0 never passes the
  position check; the liveness runs have none.
* In `SummitBundle` two chains share no header and no block, hashes do not collide, and
  `getFinalizedHeader` is answered honestly by the chain Summit is on: the code has no
  check on an intermediate header but that it is there, so nothing could be said of it.
* A listing reads the names in the output directory in one step; a directory of many
  entries is read in several batches.
* Two archives built for one epoch are taken to be equal, so that a client that gets one
  manifest and the other's archive, after an epoch was built twice, is not seen.
* A removal that loses a race with a download is one of the bounded failures.
* A client that disconnects in the middle of its request (which cancels the
  handler) is covered by the crash only.
* Settings do not change: one process has one set. A restart with another mode or epoch
  length makes recorded and candidate epochs incomparable (`manager.rs:769`), which is
  listed as a hazard without a property.
* What `mdbx_copy`, `reth` and `tar` compute; formats of JSON, hex and paths; parsing of
  settings and expansion of paths; logging; wire formats and their tests.
* The health check and the unimplemented restore, which have no state.

## 7. Plan

1. `CopyCoversTarget` and a bound on working directories for the whole service, where a
   refused rename leaves one behind without a failure.
2. What two overlapping downloads of one epoch may leave, stated and proved: which files
   may be mixed, and that the next download that does not overlap repairs it.
3. Settings that change between restarts, if the repository comes to say what a change
   is to do.
