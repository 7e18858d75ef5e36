--------------------------- MODULE SnapshotReaders ---------------------------
(***************************************************************************)
(* The RPC server's handlers that read (server.rs): the two listings,      *)
(* GET /snapshots/N/manifest, GET /snapshots/N, and the deprecated         *)
(* getEncryptedSnapshot.  They take no lock, so the manager and the        *)
(* downloads may change the output directory between any two of their      *)
(* system calls.                                                           *)
(*                                                                         *)
(* A client is modelled by one session: it asks for the latest epoch and   *)
(* then for that epoch's manifest and archive, or for the files of an      *)
(* epoch it knows otherwise.  Its stage is                                 *)
(*   listing    the directory was read, its entries are being checked      *)
(*   listed     answered with epoch, or with "No snapshots found"          *)
(*   certified  the announced epoch's manifest was served                  *)
(*   exists     getEncryptedSnapshot has seen the archive                  *)
(*   opened     GET has opened it       streaming   its bytes are sent     *)
(*   missing    an archive that was announced, or seen, is not there       *)
(*   uncertified  the manifest of an announced epoch is not there          *)
(*   over       the session has ended                                      *)
(***************************************************************************)
EXTENDS SnapshotStore

CONSTANTS MaxEpoch,     \* bound: epochs 0..MaxEpoch
          Clients       \* bound: one session each

Epochs == 0..MaxEpoch
NoEpoch == -1

VARIABLES dirs,         \* the published directories, shared with the manager
          gets          \* the sessions

Busy == {"listing", "exists", "opened", "streaming"}
Resting == {"idle", "listed", "certified", "missing", "uncertified", "over"}

\* left: names read and not yet checked; found: those with an archive; epoch:
\* the one announced or asked for; file: the open archive, followed by inode;
\* length: the file Content-Length was taken from.  floor is the epoch that was
\* recorded when the client asked, which only the properties read.
NewSession == [stage |-> "idle", left |-> {}, found |-> {}, epoch |-> NoEpoch,
               floor |-> NoEpoch, file |-> NoFile, length |-> NoFile]
Ended == [NewSession EXCEPT !.stage = "over"]

ReadersInit == gets = [c \in Clients |-> NewSession]

In(c, stage) == gets[c].stage = stage
Session(c, s) == gets' = [gets EXCEPT ![c] = s] /\ UNCHANGED dirs

-----------------------------------------------------------------------------
(* listAllEncryptedSnapshots, and the latest of them *)

\* read_dir: the names of the epoch directories at this moment.
AskLatest(c, recorded) ==
  /\ In(c, "idle")
  /\ Session(c, [NewSession EXCEPT !.stage = "listing", !.floor = recorded,
                                   !.left = {e \in Epochs : dirs[e].present}])

\* is_file, for one name after the other in the order the directory gave them.
CheckEntry(c) ==
  /\ In(c, "listing")
  /\ \E e \in gets[c].left :
       Session(c, [gets[c] EXCEPT !.left = @ \ {e},
                     !.found = IF dirs[e].archive.kind = "none" THEN @ ELSE @ \cup {e}])

\* Mutant: the first entry found is taken for the latest.
Oldest(found) == {e \in found : \A f \in found : e <= f}

Newest(found) == {e \in found : \A f \in found : e >= f}

AnswerLatest(c) ==
  /\ In(c, "listing") /\ gets[c].left = {}
  /\ \E e \in IF gets[c].found = {} THEN {NoEpoch} ELSE Newest(gets[c].found) :
       Session(c, [NewSession EXCEPT !.stage = "listed", !.epoch = e, !.floor = gets[c].floor])

-----------------------------------------------------------------------------
(* The files of one epoch *)

\* A client asks for what it was told, or for any epoch without asking first.
AsksFor(c, e) ==
  In(c, "idle") \/ (gets[c].stage \in {"listed", "certified"} /\ gets[c].epoch = e)

NotFound(c, e, stage) ==
  Session(c, IF In(c, "idle") THEN Ended
                              ELSE [NewSession EXCEPT !.stage = stage, !.epoch = e])

GetManifest(c, e) ==
  /\ AsksFor(c, e) /\ ~In(c, "certified")
  /\ IF dirs[e].manifest.kind = "none"
       THEN NotFound(c, e, "uncertified")
       ELSE Session(c, IF In(c, "idle") THEN Ended
                       ELSE [NewSession EXCEPT !.stage = "certified", !.epoch = e])

OpenArchive(c, e) ==
  /\ AsksFor(c, e)
  /\ IF dirs[e].archive.kind = "none"
       THEN NotFound(c, e, "missing")
       ELSE Session(c, [NewSession EXCEPT !.stage = "opened", !.epoch = e,
                                          !.file = dirs[e].archive])

\* Mutant: the length is asked of the path, not of the open file.
LengthOfPath(c) ==
  /\ In(c, "opened")
  /\ Session(c, [gets[c] EXCEPT !.stage = "streaming", !.length = dirs[gets[c].epoch].archive])

\* Content-Length is the length of the open file.
SendHeader(c) ==
  /\ In(c, "opened")
  /\ Session(c, [gets[c] EXCEPT !.stage = "streaming", !.length = gets[c].file])

\* getEncryptedSnapshot looks first and opens later.
LookForArchive(c, e) ==
  /\ AsksFor(c, e)
  /\ IF dirs[e].archive.kind = "none"
       THEN NotFound(c, e, "missing")
       ELSE Session(c, [gets[c] EXCEPT !.stage = "exists", !.epoch = e])

\* fs::read reads what it opens to the end: there is no header to match.
ReadArchive(c) ==
  /\ In(c, "exists")
  /\ LET f == dirs[gets[c].epoch].archive
     IN  Session(c, IF f.kind = "none" THEN [gets[c] EXCEPT !.stage = "missing"]
                    ELSE [gets[c] EXCEPT !.stage = "streaming", !.file = f, !.length = f])

\* The client has everything, or went away.
StreamEnds(c) == In(c, "streaming") /\ Session(c, Ended)

-----------------------------------------------------------------------------
\* The requests of a client, accepted only while the server serves.
Ask(c) ==
  \E e \in Epochs : GetManifest(c, e) \/ OpenArchive(c, e) \/ LookForArchive(c, e)

\* What the server does next for it, up to the sending of the bytes.
Serve(c) == CheckEntry(c) \/ AnswerLatest(c) \/ SendHeader(c) \/ ReadArchive(c)

\* No request is in flight.
ReadersQuiet == \A c \in Clients : gets[c].stage \in Resting

\* A download wrote to the file a client is being sent: it gets some of each.
Rewritten(t) ==
  gets' = [c \in Clients |->
            IF t \in gets[c].file.writers THEN [gets[c] EXCEPT !.file = TornFile] ELSE gets[c]]

\* The process dies, and with it every connection; a client keeps its answers.
ReadersDie ==
  gets' = [c \in Clients |-> IF gets[c].stage \in Busy THEN Ended ELSE gets[c]]

ReadersTypeOK ==
  gets \in [Clients -> [stage: Busy \cup Resting, left: SUBSET Epochs, found: SUBSET Epochs,
                        epoch: Epochs \cup {NoEpoch}, floor: Epochs \cup {NoEpoch},
                        file: Files, length: Files]]
=============================================================================
