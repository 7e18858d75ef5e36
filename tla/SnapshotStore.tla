---------------------------- MODULE SnapshotStore ----------------------------
(***************************************************************************)
(* What the service keeps on disk: for every epoch the published directory *)
(* epoch_N and the hidden working directory .epoch_N.partial (both are a   *)
(* Dirs value), and the state file.  Pure operators, no state.             *)
(*                                                                         *)
(* A file is abstracted to where its bytes come from.  Its kind is         *)
(*   "none"    there is no such file         "empty"  a file of length 0   *)
(*   "built"   the output of a completed tar "foreign" a downloaded body   *)
(*   "torn"    anything else: a prefix, or an interleaving of two writers  *)
(* parts says which finished parts of a checkpoint were packed, mixed that *)
(* the bytes may stem from more than one attempt, and writers which        *)
(* download tasks still hold the file open for writing.                    *)
(***************************************************************************)
EXTENDS Integers, FiniteSets

CONSTANTS SummitEnabled,    \* config.summit.enabled
          Tasks             \* concurrent download requests

ASSUME SummitEnabledAssumption == SummitEnabled \in BOOLEAN

\* "static" is the copied static_files directory, "lock" the lock file in it,
\* "unwound" says that the copied database was unwound to the checkpoint block.
Parts == {"db", "static", "lock", "unwound", "bundle", "metadata"}
Kinds == {"none", "empty", "built", "foreign", "torn"}

Files == [kind: Kinds, parts: SUBSET Parts, mixed: BOOLEAN, writers: SUBSET Tasks]

NoFile == [kind |-> "none", parts |-> {}, mixed |-> FALSE, writers |-> {}]
TornFile == [NoFile EXCEPT !.kind = "torn"]
BuiltFile(parts, mixed) ==
  [kind |-> "built", parts |-> parts, mixed |-> mixed, writers |-> {}]

\* temp is the partial file of a download, .epoch_N.tar.gz.partial.
Dirs == [present: BOOLEAN, parts: SUBSET Parts, mixed: BOOLEAN,
         archive: Files, manifest: Files, temp: Files]

AbsentDir == [present |-> FALSE, parts |-> {}, mixed |-> FALSE,
              archive |-> NoFile, manifest |-> NoFile, temp |-> NoFile]
EmptyDir == [AbsentDir EXCEPT !.present = TRUE]

\* create_dir_all.  A directory that is already there is kept with what it
\* holds, so whatever is built in it next mixes with the leftovers.
Created(d) == IF d.present THEN [d EXCEPT !.mixed = TRUE] ELSE EmptyDir

IsEmptyDir(d) ==
  d.parts = {} /\ {d.archive.kind, d.manifest.kind, d.temp.kind} = {"none"}

\* The directory after one of its entries is unlinked.
WithoutOneEntry(d) ==
  {[d EXCEPT !.archive = NoFile], [d EXCEPT !.manifest = NoFile],
   [d EXCEPT !.temp = NoFile], [d EXCEPT !.parts = {}]} \ {d}

\* What an interrupted remove_dir_all of a working directory may leave.
Without(d, gone) ==
  [d EXCEPT !.parts    = @ \ gone,
            !.archive  = IF "archive" \in gone THEN NoFile ELSE @,
            !.manifest = IF "manifest" \in gone THEN NoFile ELSE @]
Remnants(d) == {Without(d, gone) : gone \in SUBSET (d.parts \cup {"archive", "manifest"})}

-----------------------------------------------------------------------------
\* checkpoint_exists: the archive is a regular file of non-zero length.
HasArchive(d) == d.archive.kind \notin {"none", "empty"}

\* Everything an archive must hold to be restorable, and nothing else.
CompleteParts ==
  {"db", "static", "unwound", "metadata"} \cup (IF SummitEnabled THEN {"bundle"} ELSE {})

CompleteArchive(f) == f = BuiltFile(CompleteParts, FALSE)

\* The manifest was hashed over the archive that lies beside it.
CommitsTo(manifest, archive) == manifest = archive

\* A snapshot as the service promises it: whole, and in Summit mode certified.
Intact(d) ==
  /\ d.present
  /\ CompleteArchive(d.archive)
  /\ IF SummitEnabled THEN CommitsTo(d.manifest, d.archive) ELSE d.manifest = NoFile
=============================================================================
