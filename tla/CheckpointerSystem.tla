-------------------------- MODULE CheckpointerSystem --------------------------
(***************************************************************************)
(* The whole service: the checkpoint manager and the RPC server's          *)
(* downloads and readers, which meet in the output directory (dirs) and in *)
(* the process: requests are accepted only while it serves, a shutdown     *)
(* waits for those in flight, and a crash ends them all.                   *)
(***************************************************************************)
EXTENDS Integers, FiniteSets

CONSTANTS MaxU64, SummitEnabled, Tasks, MaxEpoch, MaxBlock, LastHeight, EpochBlocks,
          DelayBlocks, MaxSnapshots, MaxFaults, MaxCrashes, MaxRequests,
          Clients

ASSUME RequestsAssumption == MaxRequests \in Nat

VARIABLES head, latest, dirs, work, stateFile, pc, mem, seen, target, next, doomed,
          serving, faults, crashes,   \* of the manager
          tasks, requests, touched,   \* of the server: the downloads
          gets                        \* and the readers

\* CheckpointManager, with what is proved of it.
Manager == INSTANCE CheckpointManagerProofs
Server == INSTANCE SnapshotServer
Readers == INSTANCE SnapshotReaders

managerVars == <<head, latest, work, stateFile, pc, mem, seen, target, next, doomed,
                 serving, faults, crashes>>
downloadVars == <<tasks, requests, touched>>
serverVars == <<downloadVars, gets>>
vars == <<managerVars, dirs, serverVars>>

Epochs == Manager!Epochs

\* What the parts assume of the constants they share.
ASSUME ConstantsAssumption ==
  /\ SummitEnabled \in BOOLEAN
  /\ {MaxU64, MaxEpoch, MaxBlock, DelayBlocks, MaxSnapshots, MaxFaults, MaxCrashes} \subseteq Nat
  /\ EpochBlocks \in Nat \ {0}
  /\ MaxBlock < EpochBlocks * (MaxEpoch + 2) /\ MaxBlock <= MaxU64
  /\ LastHeight \in [Epochs -> Nat]
  /\ \A e, f \in Epochs : e < f => LastHeight[e] < LastHeight[f]

Init == Manager!Init /\ Server!ServerInit /\ Readers!ReadersInit

\* The monitor works whether requests are in flight or not.
ManagerProgress ==
  /\ Manager!Progress \/ Manager!Contended
  /\ UNCHANGED serverVars

ManagerStep ==
  /\ Manager!LoadFails \/ Manager!Failure \/ Manager!Shutdown \/ Manager!Environment
  /\ UNCHANGED serverVars

Accept ==
  /\ serving
  /\ \E t \in Tasks, e \in Epochs : Server!Request(t, e)
  /\ UNCHANGED <<managerVars, gets>>

FetchStep ==
  /\ \E t \in Tasks : Server!Fetched(t)
  /\ UNCHANGED <<managerVars, gets>>

HandleStep ==
  /\ \E t \in Tasks : Server!Handle(t) /\ Readers!Rewritten(t)
  /\ UNCHANGED managerVars

AskStep ==
  /\ serving
  /\ \E c \in Clients : Readers!AskLatest(c, mem.epoch) \/ Readers!Ask(c)
  /\ UNCHANGED <<managerVars, downloadVars>>

ServeStep ==
  /\ \E c \in Clients : Readers!Serve(c)
  /\ UNCHANGED <<managerVars, downloadVars>>

StreamStep ==
  /\ \E c \in Clients : Readers!StreamEnds(c)
  /\ UNCHANGED <<managerVars, downloadVars>>

\* server_handle.stopped() waits for the requests in flight.
ServerStopped ==
  /\ Server!Quiet /\ Readers!ReadersQuiet
  /\ Manager!ServerStopped
  /\ UNCHANGED serverVars

Crash == Manager!ProcessDies /\ Server!ServerDies /\ Readers!ReadersDie

Next ==
  \/ ManagerProgress \/ ManagerStep \/ Accept \/ FetchStep \/ HandleStep
  \/ AskStep \/ ServeStep \/ StreamStep \/ ServerStopped \/ Crash

Spec == Init /\ [][Next]_vars

\* The runtime schedules the monitor and every request.  No request has to come,
\* no fetch has to end, and no client has to read what it is sent.
Fairness ==
  /\ WF_vars(ManagerProgress)
  /\ WF_vars(Manager!LoadFails /\ UNCHANGED serverVars)
  /\ WF_vars(HandleStep)
  /\ WF_vars(ServeStep)
  /\ WF_vars(ServerStopped)

FairSpec == Spec /\ Fairness

-----------------------------------------------------------------------------
(* Properties *)

TypeOK == Manager!TypeOK /\ Server!ServerTypeOK /\ Readers!ReadersTypeOK

\* A built archive is whole, whatever is downloaded next to it meanwhile.
ServedArchiveComplete == Manager!ServedArchiveComplete

\* The state only moves forward, whatever is downloaded.
StateNeverRegresses ==
  [][/\ stateFile'.mark.epoch >= stateFile.mark.epoch
     /\ mem'.epoch >= mem.epoch \/ pc' \in Manager!Stopped]_vars

\* A snapshot built here becomes visible in one step, whole and with its
\* manifest: no client sees the archive before the manifest, or half of either.
AppearsWithManifest ==
  [][\A e \in Epochs :
       dirs[e].archive.kind # "built" /\ dirs'[e].archive.kind = "built"
         => Manager!Intact(dirs'[e])]_vars

\* Downloads that do not overlap publish the whole body or nothing, also after a
\* crash or a full disk in the middle of an earlier one.
DownloadsAreWhole ==
  \A e \in Epochs : dirs[e].archive.kind # "torn" /\ dirs[e].archive.writers = {}

\* While downloads do not overlap, a client is sent as many bytes as the header said,
\* of one archive and never of half of one, although the manager may evict that
\* snapshot and a download replace it meanwhile.
StreamIsWhole ==
  \A c \in Clients : Readers!In(c, "streaming") =>
    gets[c].length = gets[c].file /\ gets[c].file.kind # "torn"

\* No download was asked for of e or of an epoch after it, since the beginning.  Older
\* epochs may have been downloaded, over what was built or evicted, and may be so now.
Undisturbed(e) == \A f \in touched : f < e

\* The latest epoch a client is told is not older than what was recorded when it
\* asked, unless a newer one was recorded while the listing, which is not atomic,
\* was made.  Provided that no download was asked for of the recorded epoch or a later
\* one: it may put an empty archive in its place, which the manager then removes.
LatestCoversRecorded ==
  \A c \in Clients : Readers!In(c, "listed") /\ Undisturbed(gets[c].floor) =>
    gets[c].epoch >= gets[c].floor \/ stateFile.mark.epoch > gets[c].floor

\* An archive that was announced to a client, or seen to exist for it, is gone only
\* when a newer whole snapshot has taken its place; so is, in Summit mode, its
\* manifest.  Provided that no download was asked for of that epoch or a later one:
\* what is downloaded has no manifest, and counts as newer whatever it holds.
AnnouncedStaysAvailable ==
  \A c \in Clients :
    /\ Readers!In(c, "missing") \/ (Readers!In(c, "uncertified") /\ SummitEnabled)
    /\ Undisturbed(gets[c].epoch)
    => \E e \in Epochs : e > gets[c].epoch /\ Manager!Intact(dirs[e])

\* An epoch that is recorded is not built again, which takes hours: not after a
\* restart, nor because retention removed it, nor because of a download of an older
\* epoch.  Only a download of that epoch or of a later one can bring that about.
RecordedNotRebuilt ==
  pc \in Manager!BuildStages /\ mem.epoch >= target => ~Undisturbed(target)

\* Only a fetch, or a client that does not read, keeps a shutdown waiting.
Waiting ==
  \/ \E t \in Tasks : Server!At(t, "fetch")
  \/ \E c \in Clients : gets[c].stage \in {"exists", "opened", "streaming"}

ShutdownCompletes == (pc = "stopping" /\ ~Waiting) ~> (pc \in Manager!Stopped)

\* Downloads and removals in between do not keep a ready epoch from its archive;
\* only a request that a shutdown waits for does.
EpochEventuallyArchived ==
  \A e \in Epochs :
    (Manager!Candidate(head) = e /\ head >= Manager!Ready(e))
      ~> \/ Manager!HasArchive(dirs[e])
         \/ Manager!Candidate(head) > e
         \/ pc = "failed"
         \/ pc = "stopping" /\ Waiting

\* config.example.toml: the manifest "commits to the exact archive bytes".
ManifestCommitsToArchive ==
  \A e \in Epochs :
    dirs[e].manifest.kind # "none" /\ Manager!HasArchive(dirs[e])
      => Manager!CommitsTo(dirs[e].manifest, dirs[e].archive)

\* manager.rs: what is removed before an attempt is an output "without a
\* non-empty archive", so that step never removes a non-empty archive.
OnlyOutputWithoutArchiveRemoved ==
  [][pc = "rmFinal" /\ Manager!HasArchive(dirs[target])
       => Manager!HasArchive(dirs'[target])]_vars
=============================================================================
