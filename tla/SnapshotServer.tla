--------------------------- MODULE SnapshotServer ---------------------------
(***************************************************************************)
(* The RPC server's one handler that writes: downloadEncryptedSnapshot     *)
(* (server.rs).  Requests run concurrently with each other and with the    *)
(* checkpoint manager, over the same output directory and without a lock.  *)
(* A request is a task; between any two of its awaits others may run.      *)
(*                                                                         *)
(* A file follows its inode: a task writes to the file it opened, wherever *)
(* a rename has put it since, and to nothing the file system still shows   *)
(* once the file was unlinked or replaced.                                 *)
(***************************************************************************)
EXTENDS SnapshotStore

CONSTANTS MaxEpoch,     \* bound: epochs 0..MaxEpoch
          MaxRequests   \* bound: requests accepted

Epochs == 0..MaxEpoch

VARIABLES dirs,       \* the published directories, shared with the manager
          tasks,      \* what each request is about to do
          requests,   \* the number of requests accepted so far
          touched     \* the epochs they were for: history, which only properties read

Stages == {"idle", "fetch", "makeDir", "checkTemp", "rmTemp", "create", "write", "finish", "publish"}

\* What the URL answered with status 200: bytes, or an empty body.
Bodies == {"foreign", "empty"}

NoRequest == [stage |-> "idle", epoch |-> 0, body |-> "empty"]

ServerInit == tasks = [t \in Tasks |-> NoRequest] /\ requests = 0 /\ touched = {}

counts == <<requests, touched>>

At(t, stage) == tasks[t].stage = stage
Continue(t, stage) == tasks' = [tasks EXCEPT ![t].stage = stage] /\ UNCHANGED counts
Answer(t) == tasks' = [tasks EXCEPT ![t] = NoRequest] /\ UNCHANGED counts

DirOf(t) == dirs[tasks[t].epoch]
SetDir(t, d) == dirs' = [dirs EXCEPT ![tasks[t].epoch] = d]

\* A request comes in, and the server starts fetching the URL into memory.
Request(t, e) ==
  /\ At(t, "idle") /\ requests < MaxRequests
  /\ tasks' = [tasks EXCEPT ![t] = [NoRequest EXCEPT !.stage = "fetch", !.epoch = e]]
  /\ requests' = requests + 1 /\ touched' = touched \cup {e}
  /\ UNCHANGED dirs

\* The other server answers: there is no timeout, so it may take for ever.
FetchEnds(t, body) ==
  /\ At(t, "fetch")
  /\ tasks' = [tasks EXCEPT ![t].stage = "makeDir", ![t].body = body]
  /\ UNCHANGED <<dirs, counts>>

\* It cannot be reached, answers with another status, or breaks off.
FetchFails(t) == At(t, "fetch") /\ Answer(t) /\ UNCHANGED dirs

MakeDir(t) ==
  /\ At(t, "makeDir")
  /\ SetDir(t, IF DirOf(t).present THEN DirOf(t) ELSE EmptyDir)
  /\ Continue(t, "checkTemp")

CheckTemp(t) ==
  /\ At(t, "checkTemp")
  /\ Continue(t, IF DirOf(t).temp = NoFile THEN "create" ELSE "rmTemp")
  /\ UNCHANGED dirs

\* Another request may have removed or renamed the file since: an error.
RmTemp(t) ==
  /\ At(t, "rmTemp")
  /\ IF DirOf(t).temp = NoFile
       THEN Answer(t)
       ELSE Continue(t, "create")
  /\ SetDir(t, [DirOf(t) EXCEPT !.temp = NoFile])

\* File::create truncates the file that is there, under its other writers too,
\* and fails in a directory that was removed.
Create(t) ==
  /\ At(t, "create")
  /\ IF DirOf(t).present
       THEN /\ SetDir(t, [DirOf(t) EXCEPT !.temp =
                 [NoFile EXCEPT !.kind = "empty", !.writers = @ \cup {t} \cup DirOf(t).temp.writers,
                                !.mixed = DirOf(t).temp.writers # {}]])
            /\ Continue(t, "write")
       ELSE Answer(t) /\ UNCHANGED dirs

\* A file after t has written to it, if it is the one t holds open.
Written(t, f, kind) ==
  IF t \in f.writers /\ tasks[t].body # "empty" THEN [f EXCEPT !.kind = kind] ELSE f
Closed(t, f) == [f EXCEPT !.writers = @ \ {t}]

\* Part of the body has reached the file, under whichever name it has by now.
Write(t) ==
  /\ At(t, "write") /\ tasks[t].body # "empty"
  /\ SetDir(t, [DirOf(t) EXCEPT !.temp    = Written(t, @, "torn"),
                                !.archive = Written(t, @, "torn")])
  /\ Continue(t, "finish")

\* The rest is written and flushed, and the file closed.  Bytes of another
\* writer of the same file may remain between those of this one.
Finish(t) ==
  /\ At(t, IF tasks[t].body = "empty" THEN "write" ELSE "finish")
  /\ \E kind \in {"foreign", "torn"} :
       /\ kind = "torn" => \E f \in {DirOf(t).temp, DirOf(t).archive} : t \in f.writers /\ f.mixed
       /\ SetDir(t, [DirOf(t) EXCEPT !.temp    = Closed(t, Written(t, @, kind)),
                                     !.archive = Closed(t, Written(t, @, kind))])
  /\ Continue(t, "publish")

\* Mutant: the partial file is published although writing it failed.
FailurePublished(t) ==
  /\ At(t, "write") \/ At(t, "finish")
  /\ SetDir(t, [DirOf(t) EXCEPT !.temp = Closed(t, @), !.archive = Closed(t, @)])
  /\ Continue(t, "publish")

\* The disk is full: the file at the partial path is removed, whosever it is.
WriteFails(t) ==
  /\ At(t, "write") \/ At(t, "finish")
  /\ SetDir(t, [DirOf(t) EXCEPT !.temp = NoFile, !.archive = Closed(t, @)])
  /\ Answer(t)

\* Mutant: when the partial file is gone, it is written again to where it was.
PublishRetried(t) ==
  /\ At(t, "publish")
  /\ IF DirOf(t).temp = NoFile
       THEN /\ Continue(t, IF tasks[t].body = "empty" THEN "write" ELSE "finish")
            /\ UNCHANGED dirs
       ELSE /\ SetDir(t, [DirOf(t) EXCEPT !.archive = DirOf(t).temp, !.temp = NoFile])
            /\ Answer(t)

\* rename(2) of whatever is at the partial path over the archive, if any.
Publish(t) ==
  /\ At(t, "publish")
  /\ SetDir(t, IF DirOf(t).temp = NoFile THEN DirOf(t)
               ELSE [DirOf(t) EXCEPT !.archive = DirOf(t).temp, !.temp = NoFile])
  /\ Answer(t)

\* What the other server decides, and what this one then does.
Fetched(t) == FetchFails(t) \/ \E b \in Bodies : FetchEnds(t, b)

Handle(t) ==
  \/ MakeDir(t) \/ CheckTemp(t) \/ RmTemp(t) \/ Create(t) \/ Write(t) \/ Finish(t)
  \/ WriteFails(t) \/ Publish(t)

\* No request is in flight.
Quiet == \A t \in Tasks : At(t, "idle")

\* The process dies: requests are gone and their files closed as they are.
ServerDies ==
  /\ tasks' = [t \in Tasks |-> NoRequest]
  /\ dirs' = [e \in Epochs |-> [dirs[e] EXCEPT !.temp.writers = {}, !.archive.writers = {}]]
  /\ UNCHANGED counts

ServerTypeOK ==
  /\ tasks \in [Tasks -> [stage: Stages, epoch: Epochs, body: Bodies]]
  /\ requests \in 0..MaxRequests /\ touched \in SUBSET Epochs
=============================================================================
