----------------------- MODULE CheckpointerSystemProofs -----------------------
(***************************************************************************)
(* The whole service: what holds of the snapshots and of the state while   *)
(* downloads write the output directory; what holds of the epochs that     *)
(* downloads have kept away from, which is all the manager proves of       *)
(* itself; what a client may rely on for these; and what holds while       *)
(* downloads do not overlap.                                               *)
(***************************************************************************)
EXTENDS CheckpointerSystem, TLAPS

-----------------------------------------------------------------------------
(* The parts share these names; each has its own copy of them. *)

LEMMA Names ==
  /\ Epochs = 0..MaxEpoch
  /\ Manager!Epochs = Epochs /\ Server!Epochs = Epochs /\ Readers!Epochs = Epochs
  /\ Server!NoFile = Manager!NoFile /\ Readers!NoFile = Manager!NoFile
  /\ Server!EmptyDir = Manager!EmptyDir /\ Readers!TornFile = Manager!TornFile
  /\ Readers!Files = Manager!Files /\ Readers!NoEpoch = Manager!NoEpoch
BY DEF Epochs, Manager!Epochs, Server!Epochs, Readers!Epochs, Server!NoFile, Manager!NoFile,
       Readers!NoFile, Server!EmptyDir, Server!AbsentDir, Manager!EmptyDir, Manager!AbsentDir,
       Readers!TornFile, Manager!TornFile, Readers!Files, Readers!Kinds, Readers!Parts,
       Manager!Files, Manager!Kinds, Manager!Parts, Readers!NoEpoch, Manager!NoEpoch

\* What is proved of the manager holds of this one.
LEMMA ManagerDirs ==
  /\ Manager!NoFile \in Manager!Files /\ Manager!TornFile \in Manager!Files
  /\ Manager!AbsentDir \in Manager!Dirs /\ Manager!EmptyDir \in Manager!Dirs
  /\ \A d \in Manager!Dirs : Manager!WithoutOneEntry(d) \subseteq Manager!Dirs
BY Manager!FileTypes, Manager!DirTypes, ConstantsAssumption DEF Epochs, Manager!Epochs

LEMMA ManagerSteps ==
  /\ Manager!Init => Manager!OwnInv /\ Manager!IInv
  /\ Manager!TypeOK /\ (Manager!LivingStep \/ Manager!Contended) => Manager!TypeOK'
  /\ Manager!TypeOK /\ Manager!OwnStep /\ dirs' \in [Manager!Epochs -> Manager!Dirs]
       => Manager!TypeOK'
  /\ Manager!OwnInv /\ Manager!OwnStep /\ Manager!TypeOK' => Manager!OwnInv'
  /\ Manager!IInv /\ [Manager!Next]_(Manager!vars) => Manager!IInv'
  /\ /\ Manager!OwnInv /\ ServedArchiveComplete
     /\ Manager!LivingStep \/ Manager!Contended
     => ServedArchiveComplete'
BY Manager!OwnInit, Manager!InitInv, Manager!LivingType, Manager!OwnStepType, Manager!OwnInvStep, Manager!StepInv,
   Manager!ServedStep, ConstantsAssumption
   DEF Epochs, Manager!Epochs, ServedArchiveComplete

\* What a download does to a file it may hold open.
LEMMA FileOps ==
  ASSUME NEW t \in Tasks, NEW f \in Manager!Files, NEW kind \in {"torn", "foreign"}
  PROVE  /\ Server!Written(t, f, kind) \in Manager!Files /\ Server!Closed(t, f) \in Manager!Files
         /\ Server!Written(t, f, kind).kind \in {f.kind, kind}
         /\ Server!Written(t, f, kind).writers = f.writers
         /\ Server!Closed(t, f).kind = f.kind /\ Server!Closed(t, f).writers = f.writers \ {t}
         /\ f.writers = {} => Server!Written(t, f, kind) = f /\ Server!Closed(t, f) = f
BY DEF Server!Written, Server!Closed, Manager!Files, Manager!Kinds

-----------------------------------------------------------------------------
(* Whatever is downloaded *)

\* getEncryptedSnapshot opens what it has looked for.
AskedInv == \A c \in Clients : gets[c].stage = "exists" => gets[c].epoch \in Epochs

\* The manager keeps to what is its own, what it publishes is whole, and no partial
\* file of a download looks like a snapshot built here.
SharedInv ==
  /\ TypeOK /\ AskedInv /\ Manager!OwnInv
  /\ ServedArchiveComplete
  /\ \A e \in Epochs : dirs[e].temp.kind # "built"

LEMMA SharedTypes ==
  ASSUME TypeOK
  PROVE  /\ dirs \in [Epochs -> Manager!Dirs]
         /\ \A e \in Epochs : /\ dirs[e].archive \in Manager!Files /\ dirs[e].temp \in Manager!Files
                             /\ dirs[e].manifest \in Manager!Files
         /\ \A t \in Tasks : tasks[t].epoch \in Epochs
         /\ DOMAIN tasks = Tasks /\ DOMAIN gets = Clients
BY Names DEF TypeOK, Manager!TypeOK, Manager!Dirs, Server!ServerTypeOK, Readers!ReadersTypeOK

\* A handler replaces the directory of its epoch: what it may put there.
LEMMA HandlerDirs ==
  ASSUME SharedInv, NEW t \in Tasks, Server!Handle(t)
  PROVE  \E n \in Manager!Dirs :
           /\ dirs' = [dirs EXCEPT ![tasks[t].epoch] = n]
           /\ n.archive.kind = "built" => n.archive = dirs[tasks[t].epoch].archive
           /\ n.temp.kind # "built"
<1> DEFINE ep == tasks[t].epoch
           d == dirs[ep]
           Fits(n) == /\ n \in Manager!Dirs
                      /\ n.archive.kind = "built" => n.archive = d.archive
                      /\ n.temp.kind # "built"
<1>1. /\ ep \in Epochs /\ d \in Manager!Dirs /\ dirs = [dirs EXCEPT ![ep] = d]
      /\ d.archive \in Manager!Files /\ d.temp \in Manager!Files
  BY SharedTypes DEF SharedInv
<1>2. /\ d.archive.kind = "built" => d.archive.writers = {}
      /\ d.temp.kind # "built"
  BY <1>1, Names DEF SharedInv, ServedArchiveComplete, Manager!ServedArchiveComplete,
     Manager!CompleteArchive, Manager!BuiltFile
<1>3. /\ Manager!NoFile \in Manager!Files /\ Manager!NoFile.kind = "none"
      /\ Fits(Manager!EmptyDir)
  BY ManagerDirs DEF Manager!NoFile, Manager!EmptyDir, Manager!AbsentDir
<1>4. Fits(d)
  BY <1>1, <1>2
<1>5. ASSUME NEW a \in Manager!Files, NEW f \in Manager!Files,
             a.kind = "built" => a = d.archive, f.kind # "built"
      PROVE  Fits([d EXCEPT !.temp = f, !.archive = a])
  BY <1>1, <1>5 DEF Manager!Dirs
<1>6. \A f \in Manager!Files : f.kind # "built" => Fits([d EXCEPT !.temp = f])
  BY <1>1, <1>2 DEF Manager!Dirs
<1>w. ASSUME NEW kind \in {"torn", "foreign"}
      PROVE  /\ Fits([d EXCEPT !.temp    = Server!Written(t, @, kind),
                               !.archive = Server!Written(t, @, kind)])
             /\ Fits([d EXCEPT !.temp    = Server!Closed(t, Server!Written(t, @, kind)),
                               !.archive = Server!Closed(t, Server!Written(t, @, kind))])
  <2> DEFINE wa == Server!Written(t, d.archive, kind)
             wt == Server!Written(t, d.temp, kind)
  <2>1. /\ wa \in Manager!Files /\ wt \in Manager!Files
        /\ wa.kind = "built" => wa = d.archive
        /\ wt.kind # "built" /\ wa.writers = d.archive.writers
    BY <1>1, <1>2, FileOps
  <2>2. /\ Server!Closed(t, wa) \in Manager!Files /\ Server!Closed(t, wt) \in Manager!Files
        /\ Server!Closed(t, wa).kind = "built" => Server!Closed(t, wa) = d.archive
        /\ Server!Closed(t, wt).kind # "built"
    <3> HIDE DEF wa, wt
    <3> QED
      BY <1>2, <2>1, FileOps
  <2> HIDE DEF Fits
  <2> QED
    BY <1>5, <2>1, <2>2
<1> SUFFICES \E n : dirs' = [dirs EXCEPT ![ep] = n] /\ Fits(n)
  OBVIOUS
<1> HIDE DEF Fits
<1> USE DEF Server!SetDir, Server!DirOf
<1>7. CASE Server!MakeDir(t)
  BY <1>3, <1>4, <1>7, Names DEF Server!MakeDir
<1>8. CASE Server!CheckTemp(t)
  BY <1>1, <1>4, <1>8 DEF Server!CheckTemp
<1>9. CASE Server!RmTemp(t)
  BY <1>3, <1>6, <1>9, Names DEF Server!RmTemp
<1>10. CASE Server!Create(t)
  <2> DEFINE f == [Server!NoFile EXCEPT !.kind = "empty", !.writers = @ \cup {t} \cup d.temp.writers,
                                        !.mixed = d.temp.writers # {}]
  <2>1. f \in Manager!Files /\ f.kind # "built"
    BY <1>1, Names DEF Manager!NoFile, Manager!Files, Manager!Kinds
  <2>2. CASE d.present
    <3>1. dirs' = [dirs EXCEPT ![ep] = [d EXCEPT !.temp = f]]
      BY <1>10, <2>2 DEF Server!Create
    <3> QED
      BY <1>6, <2>1, <3>1
  <2>3. CASE ~d.present
    BY <1>1, <1>4, <1>10, <2>3 DEF Server!Create
  <2> QED
    BY <2>2, <2>3
<1>11. CASE Server!Write(t)
  BY <1>w, <1>11 DEF Server!Write
<1>12. CASE Server!Finish(t)
  BY <1>w, <1>12 DEF Server!Finish
<1>13. CASE Server!WriteFails(t)
  <2>1. Server!Closed(t, d.archive) \in Manager!Files
        /\ (Server!Closed(t, d.archive).kind = "built" => Server!Closed(t, d.archive) = d.archive)
    BY <1>1, <1>2, FileOps
  <2> QED
    BY <1>3, <1>5, <1>13, <2>1, Names DEF Server!WriteFails
<1>14. CASE Server!Publish(t)
  <2>1. Fits([d EXCEPT !.temp = Server!NoFile, !.archive = d.temp])
    BY <1>1, <1>2, <1>3, <1>5, Names
  <2>2. [d EXCEPT !.temp = Server!NoFile, !.archive = d.temp]
          = [d EXCEPT !.archive = d.temp, !.temp = Server!NoFile]
    BY <1>1 DEF Manager!Dirs
  <2> QED
    BY <1>4, <1>14, <2>1, <2>2 DEF Server!Publish
<1> QED
  BY <1>7, <1>8, <1>9, <1>10, <1>11, <1>12, <1>13, <1>14 DEF Server!Handle

LEMMA HandlerTypes ==
  ASSUME TypeOK, NEW t \in Tasks, Server!Handle(t)
  PROVE  /\ Server!ServerTypeOK' /\ UNCHANGED <<requests, touched>>
         /\ tasks[t].stage # "idle"
         /\ \E k : /\ tasks' = [tasks EXCEPT ![t] = k]
                   /\ k.stage = "idle" \/ k.epoch = tasks[t].epoch
<1> USE DEF TypeOK, Server!ServerTypeOK, Server!Continue, Server!Answer, Server!NoRequest,
            Server!Stages, Server!Bodies, Server!counts, Server!At
<1>0. 0 \in Server!Epochs
  BY ConstantsAssumption DEF Server!Epochs
<1>1. CASE Server!MakeDir(t) \/ Server!CheckTemp(t) \/ Server!Write(t) \/ Server!Finish(t)
  BY <1>1 DEF Server!MakeDir, Server!CheckTemp, Server!Write, Server!Finish
<1>2. CASE Server!RmTemp(t) \/ Server!Create(t) \/ Server!WriteFails(t) \/ Server!Publish(t)
  BY <1>0, <1>2 DEF Server!RmTemp, Server!Create, Server!WriteFails, Server!Publish
<1> QED
  BY <1>1, <1>2 DEF Server!Handle

LEMMA RequestTypes == TypeOK /\ (Accept \/ FetchStep) => Server!ServerTypeOK' /\ UNCHANGED dirs
<1> SUFFICES ASSUME TypeOK, Accept \/ FetchStep
             PROVE  Server!ServerTypeOK' /\ UNCHANGED dirs
  OBVIOUS
<1> USE DEF TypeOK, Server!ServerTypeOK, Server!Answer, Server!NoRequest, Server!Stages,
            Server!Bodies, Server!counts
<1>0. 0 \in Server!Epochs /\ Server!Epochs = Epochs
  BY ConstantsAssumption, Names DEF Server!Epochs
<1>1. CASE Accept
  <2>1. PICK t \in Tasks, e \in Epochs : Server!Request(t, e)
    BY <1>1 DEF Accept
  <2>2. requests' \in 0..MaxRequests
    BY <2>1, RequestsAssumption DEF Server!Request
  <2>3. /\ tasks' \in [Tasks -> [stage: Server!Stages, epoch: Server!Epochs, body: Server!Bodies]]
        /\ touched' \in SUBSET Server!Epochs
    BY <1>0, <2>1 DEF Server!Request
  <2> QED
    BY <2>1, <2>2, <2>3 DEF Server!Request
<1>2. CASE FetchStep
  BY <1>0, <1>2 DEF FetchStep, Server!Fetched, Server!FetchFails, Server!FetchEnds
<1> QED
  BY <1>1, <1>2

LEMMA SessionTypes ==
  ASSUME TypeOK, AskedInv,
         \/ AskStep \/ ServeStep \/ StreamStep \/ Readers!ReadersDie
         \/ \E t \in Tasks : Readers!Rewritten(t)
  PROVE  Readers!ReadersTypeOK' /\ AskedInv'
<1> DEFINE Records == [stage: Readers!Busy \cup Readers!Resting, left: SUBSET Epochs,
                       found: SUBSET Epochs, epoch: Epochs \cup {Readers!NoEpoch},
                       floor: Epochs \cup {Readers!NoEpoch},
                       file: Manager!Files, length: Manager!Files]
           Sessions == {g \in Records : g.stage = "exists" => g.epoch \in Epochs}
<1>1. gets \in [Clients -> Sessions]
  BY Names DEF TypeOK, Readers!ReadersTypeOK, AskedInv
<1>2. Readers!NewSession \in Sessions /\ Readers!Ended \in Sessions
  BY Names, ManagerDirs DEF Readers!NewSession, Readers!Ended, Readers!Busy, Readers!Resting
<1>3. ASSUME NEW c \in Clients, NEW g \in Sessions, Readers!Session(c, g)
      PROVE  gets' \in [Clients -> Sessions]
  BY <1>1, <1>3 DEF Readers!Session
<1>4. SUFFICES gets' \in [Clients -> Sessions]
  BY Names DEF Readers!ReadersTypeOK, AskedInv
<1>5. \A e \in Epochs : dirs[e].archive \in Manager!Files
  BY SharedTypes
<1>6. mem.epoch \in Epochs \cup {Readers!NoEpoch}
  BY Names DEF TypeOK, Manager!TypeOK, Manager!Marks
<1>7. Manager!TornFile \in Manager!Files /\ Readers!TornFile = Manager!TornFile
  BY Names, ManagerDirs
<1>8. \A c \in Clients : gets[c] \in Sessions
  BY <1>1
<1>10. CASE AskStep
  <2>1. PICK c \in Clients : Readers!AskLatest(c, mem.epoch) \/ Readers!Ask(c)
    BY <1>10 DEF AskStep
  <2>2. CASE Readers!AskLatest(c, mem.epoch)
    <3>1. [Readers!NewSession EXCEPT !.stage = "listing", !.floor = mem.epoch,
             !.left = {e \in Readers!Epochs : dirs[e].present}] \in Sessions
      BY <1>2, <1>6, Names DEF Readers!Busy
    <3> QED
      BY <1>3, <2>2, <3>1 DEF Readers!AskLatest
  <2>3. CASE Readers!Ask(c)
    <3>1. PICK e \in Epochs : \/ Readers!GetManifest(c, e) \/ Readers!OpenArchive(c, e)
                             \/ Readers!LookForArchive(c, e)
      BY <2>3, Names DEF Readers!Ask
    <3>2. /\ [Readers!NewSession EXCEPT !.stage = "missing", !.epoch = e] \in Sessions
          /\ [Readers!NewSession EXCEPT !.stage = "uncertified", !.epoch = e] \in Sessions
          /\ [Readers!NewSession EXCEPT !.stage = "certified", !.epoch = e] \in Sessions
          /\ [Readers!NewSession EXCEPT !.stage = "opened", !.epoch = e,
                                        !.file = dirs[e].archive] \in Sessions
          /\ [gets[c] EXCEPT !.stage = "exists", !.epoch = e] \in Sessions
      BY <1>2, <1>5, <1>8 DEF Readers!Busy, Readers!Resting
    <3>3. CASE Readers!GetManifest(c, e)
      BY <1>2, <1>3, <3>2, <3>3 DEF Readers!GetManifest, Readers!NotFound
    <3>4. CASE Readers!OpenArchive(c, e)
      BY <1>2, <1>3, <3>2, <3>4 DEF Readers!OpenArchive, Readers!NotFound
    <3>5. CASE Readers!LookForArchive(c, e)
      BY <1>2, <1>3, <3>2, <3>5 DEF Readers!LookForArchive, Readers!NotFound
    <3> QED
      BY <3>1, <3>3, <3>4, <3>5
  <2> QED
    BY <2>1, <2>2, <2>3
<1>11. CASE ServeStep
  <2>1. PICK c \in Clients : Readers!Serve(c)
    BY <1>11 DEF ServeStep
  <2>2. CASE Readers!CheckEntry(c)
    <3>1. PICK e \in gets[c].left :
            Readers!Session(c, [gets[c] EXCEPT !.left = @ \ {e},
              !.found = IF dirs[e].archive.kind = "none" THEN @ ELSE @ \cup {e}])
      BY <2>2 DEF Readers!CheckEntry
    <3>2. [gets[c] EXCEPT !.left = @ \ {e},
             !.found = IF dirs[e].archive.kind = "none" THEN @ ELSE @ \cup {e}] \in Sessions
      BY <1>8, <3>1
    <3> QED
      BY <1>3, <3>1, <3>2
  <2>3. CASE Readers!AnswerLatest(c)
    <3>1. PICK e \in Epochs \cup {Readers!NoEpoch} :
            Readers!Session(c, [Readers!NewSession EXCEPT !.stage = "listed", !.epoch = e,
                                                          !.floor = gets[c].floor])
      BY <1>8, <2>3 DEF Readers!AnswerLatest, Readers!Newest
    <3>2. [Readers!NewSession EXCEPT !.stage = "listed", !.epoch = e, !.floor = gets[c].floor]
            \in Sessions
      BY <1>2, <1>8, <3>1 DEF Readers!Resting
    <3> QED
      BY <1>3, <3>1, <3>2
  <2>4. CASE Readers!SendHeader(c)
    <3>1. [gets[c] EXCEPT !.stage = "streaming", !.length = gets[c].file] \in Sessions
      BY <1>8 DEF Readers!Busy
    <3> QED
      BY <1>3, <2>4, <3>1 DEF Readers!SendHeader
  <2>5. CASE Readers!ReadArchive(c)
    <3> DEFINE f == dirs[gets[c].epoch].archive
    <3>1. f \in Manager!Files
      BY <1>5, <1>8, <2>5 DEF Readers!ReadArchive, Readers!In
    <3> QED
      BY <1>3, <1>8, <2>5, <3>1 DEF Readers!ReadArchive, Readers!Busy, Readers!Resting
  <2> QED
    BY <2>1, <2>2, <2>3, <2>4, <2>5 DEF Readers!Serve
<1>12. CASE StreamStep
  BY <1>2, <1>3, <1>12 DEF StreamStep, Readers!StreamEnds
<1>13. CASE Readers!ReadersDie
  BY <1>1, <1>2, <1>13 DEF Readers!ReadersDie
<1>14. CASE \E t \in Tasks : Readers!Rewritten(t)
  BY <1>1, <1>7, <1>14 DEF Readers!Rewritten
<1> QED
  BY <1>10, <1>11, <1>12, <1>13, <1>14

\* Who takes a step: the manager and the chain, a download, or a reader.
ManagerActs == (Manager!LivingStep \/ Manager!Contended) /\ UNCHANGED serverVars
ReadStep == AskStep \/ ServeStep \/ StreamStep

LEMMA Actors ==
  /\ Next => ManagerActs \/ Accept \/ FetchStep \/ HandleStep \/ ReadStep \/ Crash
  /\ ReadStep => UNCHANGED <<managerVars, dirs, downloadVars>>
<1>1. ManagerProgress \/ ManagerStep \/ ServerStopped => ManagerActs
  BY DEF ManagerProgress, ManagerStep, ServerStopped, ManagerActs, Manager!LivingStep
<1>2. ReadStep => UNCHANGED <<managerVars, dirs, downloadVars>>
  BY DEF ReadStep, AskStep, ServeStep, StreamStep, Readers!AskLatest, Readers!Ask, Readers!Serve,
         Readers!CheckEntry, Readers!AnswerLatest, Readers!SendHeader, Readers!ReadArchive,
         Readers!GetManifest, Readers!OpenArchive, Readers!LookForArchive, Readers!NotFound,
         Readers!StreamEnds, Readers!Session
<1> QED
  BY <1>1, <1>2 DEF Next, ReadStep

\* Steps of others change the directories only.
LEMMA OthersAct ==
  ASSUME Manager!OwnInv, UNCHANGED managerVars, dirs' \in [Epochs -> Manager!Dirs]
  PROVE  Manager!OwnInv' /\ Manager!TypeOK'
<1> USE DEF managerVars
<1>1. Manager!TypeOK'
  BY Names DEF Manager!OwnInv, Manager!TypeOK
<1>2. Manager!LocalsInv' /\ Manager!MemoryInv' /\ Manager!WorkInv' /\ Manager!BuildInv'
  BY DEF Manager!OwnInv, Manager!LocalsInv, Manager!MemoryInv, Manager!WorkInv, Manager!BuildInv
<1>3. Manager!TargetInv'
  BY DEF Manager!OwnInv, Manager!TargetInv, Manager!Mark, Manager!CheckpointBlock,
         Manager!ScheduleOf
<1> QED
  BY <1>1, <1>2, <1>3 DEF Manager!OwnInv

\* A crash closes the files of the downloads.
LEMMA CrashDirs ==
  ASSUME TypeOK, Crash, NEW e \in Epochs
  PROVE  /\ dirs' \in [Epochs -> Manager!Dirs]
         /\ dirs'[e].archive.kind = dirs[e].archive.kind /\ dirs'[e].archive.writers = {}
         /\ dirs'[e].temp.kind = dirs[e].temp.kind /\ dirs'[e].temp.writers = {}
         /\ dirs[e].archive.writers = {} => dirs'[e].archive = dirs[e].archive
         /\ dirs[e].archive.writers = {} /\ dirs[e].temp.writers = {} => dirs'[e] = dirs[e]
<1> DEFINE Closed(d) == [d EXCEPT !.temp.writers = {}, !.archive.writers = {}]
<1>1. dirs' = [f \in Epochs |-> Closed(dirs[f])]
  BY Names DEF Crash, Server!ServerDies
<1>2. \A f \in Epochs : dirs[f] \in Manager!Dirs
  BY SharedTypes
<1>3. ASSUME NEW d \in Manager!Dirs
      PROVE  /\ Closed(d) \in Manager!Dirs
             /\ Closed(d).archive = [d.archive EXCEPT !.writers = {}]
             /\ Closed(d).temp = [d.temp EXCEPT !.writers = {}]
             /\ d.archive.writers = {} => Closed(d).archive = d.archive
             /\ d.archive.writers = {} /\ d.temp.writers = {} => Closed(d) = d
  <2> DEFINE a == [d.archive EXCEPT !.writers = {}]
             f == [d.temp EXCEPT !.writers = {}]
  <2>1. Closed(d) = [d EXCEPT !.temp = f, !.archive = a]
    BY DEF Manager!Dirs
  <2>2. a \in Manager!Files /\ f \in Manager!Files
    BY DEF Manager!Dirs, Manager!Files
  <2>3. /\ d.archive.writers = {} => a = d.archive
        /\ d.temp.writers = {} => f = d.temp
    BY DEF Manager!Dirs, Manager!Files
  <2>4. [d EXCEPT !.temp = f, !.archive = a].archive = a
        /\ [d EXCEPT !.temp = f, !.archive = a].temp = f
        /\ [d EXCEPT !.temp = f, !.archive = a] \in Manager!Dirs
    <3> HIDE DEF a, f
    <3> QED
      BY <2>2 DEF Manager!Dirs
  <2>5. a = d.archive /\ f = d.temp => [d EXCEPT !.temp = f, !.archive = a] = d
    <3> HIDE DEF a, f
    <3> QED
      BY DEF Manager!Dirs
  <2> HIDE DEF Closed
  <2> QED
    BY <2>1, <2>2, <2>3, <2>4, <2>5
<1> HIDE DEF Closed
<1>4. \A d \in Manager!Dirs : /\ [d.archive EXCEPT !.writers = {}].kind = d.archive.kind
                             /\ [d.archive EXCEPT !.writers = {}].writers = {}
                             /\ [d.temp EXCEPT !.writers = {}].kind = d.temp.kind
                             /\ [d.temp EXCEPT !.writers = {}].writers = {}
  BY DEF Manager!Dirs, Manager!Files
<1> QED
  BY <1>1, <1>2, <1>3, <1>4

\* The manager changes its variables, a download its directory, a crash closes files.
LEMMA SharedStep == SharedInv /\ [Next]_vars => SharedInv'
<1> SUFFICES ASSUME SharedInv, [Next]_vars
             PROVE  SharedInv'
  OBVIOUS
<1> DEFINE Whole == ServedArchiveComplete /\ \A e \in Epochs : dirs[e].temp.kind # "built"
<1> USE DEF downloadVars, serverVars
<1>0. /\ dirs \in [Epochs -> Manager!Dirs] /\ DOMAIN dirs = Epochs
      /\ \A e \in Epochs : dirs[e].archive.kind = "built" => dirs[e].archive.writers = {}
  BY SharedTypes, Names DEF SharedInv, ServedArchiveComplete, Manager!ServedArchiveComplete,
     Manager!CompleteArchive, Manager!BuiltFile
<1>1. CASE ManagerActs
  <2>1. Manager!OwnStep
    BY <1>1 DEF ManagerActs, Manager!OwnStep
  <2>2. dirs' \in [Epochs -> Manager!Dirs]
    BY <1>1, ManagerSteps, Names DEF ManagerActs, SharedInv, TypeOK, Manager!TypeOK
  <2>3. Manager!TypeOK' /\ Manager!OwnInv'
    BY <2>1, <2>2, ManagerSteps, Names DEF SharedInv, TypeOK
  <2>4. ServedArchiveComplete'
    BY <1>1, ManagerSteps DEF ManagerActs, SharedInv
  <2>5. \A e \in Epochs : dirs'[e].temp \in {dirs[e].temp, Manager!NoFile}
    BY <1>1, Names, Manager!OwnDirs, ConstantsAssumption DEF ManagerActs, SharedInv, Epochs, Manager!Epochs
  <2>6. Server!ServerTypeOK' /\ Readers!ReadersTypeOK' /\ AskedInv'
    BY <1>1 DEF ManagerActs, SharedInv, TypeOK, Server!ServerTypeOK, Readers!ReadersTypeOK, AskedInv
  <2> QED
    BY <2>3, <2>4, <2>5, <2>6 DEF SharedInv, TypeOK, Manager!NoFile
<1>2. CASE Accept \/ FetchStep
  <2>1. UNCHANGED <<managerVars, dirs, gets>> /\ Server!ServerTypeOK'
    BY <1>2, RequestTypes DEF Accept, FetchStep, SharedInv
  <2>2. Manager!OwnInv' /\ Manager!TypeOK'
    BY <1>0, <2>1, OthersAct DEF SharedInv
  <2> QED
    BY <2>1, <2>2 DEF SharedInv, TypeOK, Readers!ReadersTypeOK, AskedInv, ServedArchiveComplete,
       Manager!ServedArchiveComplete
<1>3. CASE HandleStep
  <2>1. PICK t \in Tasks : Server!Handle(t) /\ Readers!Rewritten(t) /\ UNCHANGED managerVars
    BY <1>3 DEF HandleStep
  <2>2. PICK n \in Manager!Dirs :
           /\ dirs' = [dirs EXCEPT ![tasks[t].epoch] = n]
           /\ n.archive.kind = "built" => n.archive = dirs[tasks[t].epoch].archive
           /\ n.temp.kind # "built"
    BY <2>1, HandlerDirs
  <2>3. Manager!OwnInv' /\ Manager!TypeOK'
    BY <1>0, <2>1, <2>2, OthersAct DEF SharedInv
  <2>4. Whole'
    BY <1>0, <2>2, Names DEF SharedInv, ServedArchiveComplete, Manager!ServedArchiveComplete,
       Manager!CompleteArchive
  <2>5. Server!ServerTypeOK' /\ Readers!ReadersTypeOK' /\ AskedInv'
    BY <2>1, HandlerTypes, SessionTypes DEF SharedInv
  <2> QED
    BY <2>3, <2>4, <2>5 DEF SharedInv, TypeOK
<1>4. CASE ReadStep
  <2>1. UNCHANGED <<managerVars, dirs, downloadVars>>
    BY <1>4, Actors
  <2>2. Manager!OwnInv' /\ Manager!TypeOK'
    BY <1>0, <2>1, OthersAct DEF SharedInv
  <2>3. Readers!ReadersTypeOK' /\ AskedInv'
    BY <1>4, SessionTypes DEF SharedInv, ReadStep
  <2> QED
    BY <2>1, <2>2, <2>3 DEF SharedInv, TypeOK, Server!ServerTypeOK, ServedArchiveComplete,
       Manager!ServedArchiveComplete
<1>5. CASE Crash
  <2>1. dirs' \in [Epochs -> Manager!Dirs]
    <3>1. 0 \in Epochs
      BY Names, ConstantsAssumption
    <3> QED
      BY <1>5, <3>1, CrashDirs DEF SharedInv
  <2>2. Manager!OwnStep
    BY <1>5 DEF Crash, Manager!OwnStep
  <2>3. Manager!OwnInv' /\ Manager!TypeOK'
    BY <2>1, <2>2, ManagerSteps, Names DEF SharedInv, TypeOK
  <2>4. \A e \in Epochs :
          /\ dirs'[e].temp.kind # "built"
          /\ dirs'[e].archive.kind = "built" => dirs'[e].archive = dirs[e].archive
    <3> SUFFICES ASSUME NEW e \in Epochs
                 PROVE  /\ dirs'[e].temp.kind # "built"
                        /\ dirs'[e].archive.kind = "built" => dirs'[e].archive = dirs[e].archive
      OBVIOUS
    <3>1. /\ dirs'[e].archive.kind = dirs[e].archive.kind
          /\ dirs'[e].temp.kind = dirs[e].temp.kind
          /\ dirs[e].archive.writers = {} => dirs'[e].archive = dirs[e].archive
      BY <1>5, CrashDirs DEF SharedInv
    <3>2. dirs[e].temp.kind # "built"
      BY DEF SharedInv
    <3> QED
      BY <1>0, <3>1, <3>2
  <2>w. Whole'
    BY <2>4, Names DEF SharedInv, ServedArchiveComplete, Manager!ServedArchiveComplete,
       Manager!CompleteArchive
  <2>5. Server!ServerTypeOK'
    <3>1. 0 \in Server!Epochs
      BY ConstantsAssumption DEF Server!Epochs
    <3> QED
      BY <1>5, <3>1 DEF Crash, Server!ServerDies, SharedInv, TypeOK, Server!ServerTypeOK,
         Server!NoRequest, Server!Stages, Server!Bodies, Server!counts
  <2>6. Readers!ReadersTypeOK' /\ AskedInv'
    BY <1>5, SessionTypes DEF Crash, SharedInv
  <2> QED
    BY <2>3, <2>w, <2>5, <2>6 DEF SharedInv, TypeOK
<1>6. CASE UNCHANGED vars
  <2>1. Manager!OwnInv' /\ Manager!TypeOK'
    BY <1>0, <1>6, OthersAct DEF SharedInv, vars
  <2> QED
    BY <1>6, <2>1 DEF vars, SharedInv, TypeOK, Server!ServerTypeOK, Readers!ReadersTypeOK,
       AskedInv, ServedArchiveComplete, Manager!ServedArchiveComplete
<1> QED
  BY <1>1, <1>2, <1>3, <1>4, <1>5, <1>6, Actors

LEMMA SharedInit == Init => SharedInv
<1> SUFFICES ASSUME Init
             PROVE  SharedInv
  OBVIOUS
<1>1. Manager!OwnInv /\ Manager!TypeOK
  BY ManagerSteps DEF Init, Manager!OwnInv
<1>2. \A e \in Epochs : dirs[e] = Manager!AbsentDir
  BY Names DEF Init, Manager!Init
<1>3. ServedArchiveComplete /\ \A e \in Epochs : dirs[e].temp.kind # "built"
  BY <1>2, Names DEF ServedArchiveComplete, Manager!ServedArchiveComplete, Manager!AbsentDir,
     Manager!NoFile
<1>4. Server!ServerTypeOK
  <2>1. 0 \in Server!Epochs
    BY ConstantsAssumption DEF Server!Epochs
  <2> QED
    BY <2>1, RequestsAssumption DEF Init, Server!ServerInit, Server!ServerTypeOK,
       Server!NoRequest, Server!Stages, Server!Bodies
<1>5. Readers!ReadersTypeOK /\ AskedInv
  BY Names, ManagerDirs DEF Init, Readers!ReadersInit, Readers!ReadersTypeOK, AskedInv,
     Readers!NewSession, Readers!Busy, Readers!Resting
<1> QED
  BY <1>1, <1>3, <1>4, <1>5 DEF SharedInv, TypeOK

\* Whatever downloads, readers, failures and crashes interleave with, the manager's own
\* variables keep to their invariant and a published archive of its own is whole.
THEOREM SharedInvariance == Spec => []SharedInv
BY SharedInit, SharedStep, PTL DEF Spec

\* Whatever the requests do to the files under the manager's hands, the variables of
\* all parts keep to their types; a reader that looked for an archive has an epoch.
THEOREM TypeCorrectness == Spec => []TypeOK
<1>1. SharedInv => TypeOK
  BY DEF SharedInv
<1> QED
  BY <1>1, SharedInvariance, PTL

\* No interleaving of downloads turns a snapshot built here into something that still
\* looks built but lacks a part: the archive is whole, or it was replaced.
THEOREM ServedIsComplete == Spec => []ServedArchiveComplete
<1>1. SharedInv => ServedArchiveComplete
  BY DEF SharedInv
<1> QED
  BY <1>1, SharedInvariance, PTL

LEMMA RecordedStep ==
  ASSUME SharedInv, [Next]_vars
  PROVE  /\ stateFile'.mark.epoch >= stateFile.mark.epoch
         /\ mem'.epoch >= mem.epoch \/ pc' \in Manager!Stopped
<1>1. Manager!OwnStep \/ UNCHANGED <<stateFile, mem>>
  BY Actors DEF ManagerActs, Manager!OwnStep, Accept, FetchStep, HandleStep, Crash, managerVars,
     vars
<1>2. CASE Manager!OwnStep
  BY <1>2, Manager!StateStep, ConstantsAssumption DEF SharedInv, Epochs, Manager!Epochs
<1>3. CASE UNCHANGED <<stateFile, mem>>
  <2>1. {stateFile.mark.epoch, mem.epoch} \subseteq Int
    BY Names DEF SharedInv, TypeOK, Manager!TypeOK, Manager!Marks, Manager!NoEpoch
  <2> QED
    BY <1>3, <2>1
<1> QED
  BY <1>1, <1>2, <1>3

\* The recorded epoch only advances, also when downloads bring archives of epochs the
\* manager has not reached, or take away what it works on.
THEOREM StateOnlyAdvances == Spec => StateNeverRegresses
BY SharedInvariance, RecordedStep, PTL DEF Spec, StateNeverRegresses

LEMMA AppearsStep ==
  ASSUME SharedInv, Next, NEW e \in Epochs,
         dirs[e].archive.kind # "built", dirs'[e].archive.kind = "built"
  PROVE  Manager!Intact(dirs'[e])
<1>1. CASE ManagerActs
  <2>1. dirs'[e].archive \in {dirs[e].archive, Manager!NoFile} \/ Manager!Intact(dirs'[e])
    BY <1>1, Names, Manager!OwnDirs, ConstantsAssumption
       DEF ManagerActs, SharedInv, Epochs, Manager!Epochs
  <2> QED
    BY <2>1 DEF Manager!NoFile
<1>2. CASE HandleStep
  <2>1. PICK t \in Tasks : Server!Handle(t)
    BY <1>2 DEF HandleStep
  <2> QED
    BY <2>1, HandlerDirs, SharedTypes DEF SharedInv
<1>3. CASE Crash
  BY <1>3, CrashDirs DEF SharedInv
<1>4. CASE UNCHANGED dirs
  BY <1>4
<1> QED
  BY <1>1, <1>2, <1>3, <1>4, Actors, RequestTypes DEF SharedInv

\* A snapshot built here becomes visible to clients in one step, whole and, in Summit
\* mode, with its manifest, even when a download works in the same directory.
THEOREM AppearsWhole == Spec => AppearsWithManifest
<1>1. SharedInv /\ [Next]_vars =>
        [\A e \in Epochs :
           dirs[e].archive.kind # "built" /\ dirs'[e].archive.kind = "built"
             => Manager!Intact(dirs'[e])]_vars
  BY AppearsStep
<1> QED
  BY <1>1, SharedInvariance, PTL DEF Spec, AppearsWithManifest
-----------------------------------------------------------------------------
(* The epochs that downloads have kept away from: n and all after it, when  *)
(* Undisturbed(n).  Older ones may have been downloaded, and may be so now. *)

\* A request only works in the directory of an epoch it was accepted for.  Above these
\* the manager's invariant holds, and nobody else holds a file open.
UndisturbedInv ==
  /\ requests = 0 => touched = {}
  /\ \A t \in Tasks : tasks[t].stage = "idle" \/ tasks[t].epoch \in touched
  /\ \A n \in Epochs : Undisturbed(n) =>
       /\ Manager!UpperInv(n)
       /\ dirs[n].archive.writers = {} /\ dirs[n].temp.writers = {}

Recorded == stateFile.mark.epoch

LEMMA EpochTypes ==
  ASSUME SharedInv
  PROVE  /\ \A e \in Epochs : e \in Int /\ e > Manager!NoEpoch
         /\ Recorded \in Epochs \cup {Manager!NoEpoch} /\ mem.epoch \in Epochs \cup {Manager!NoEpoch}
         /\ Manager!NoEpoch \in Int /\ touched \in SUBSET Epochs
         /\ \A c \in Clients : /\ gets[c].epoch \in Epochs \cup {Manager!NoEpoch}
                              /\ gets[c].floor \in Epochs \cup {Manager!NoEpoch}
                              /\ gets[c].left \in SUBSET Epochs /\ gets[c].found \in SUBSET Epochs
<1>1. \A e \in Epochs : e \in Int /\ e > Manager!NoEpoch
  BY Names, ConstantsAssumption DEF Manager!NoEpoch
<1>2. /\ Recorded \in Epochs \cup {Manager!NoEpoch} /\ mem.epoch \in Epochs \cup {Manager!NoEpoch}
      /\ Manager!NoEpoch \in Int /\ touched \in SUBSET Epochs
  BY Names DEF SharedInv, TypeOK, Manager!TypeOK, Manager!Marks, Recorded, Manager!NoEpoch,
     Server!ServerTypeOK
<1>3. \A c \in Clients : /\ gets[c].epoch \in Epochs \cup {Manager!NoEpoch}
                         /\ gets[c].floor \in Epochs \cup {Manager!NoEpoch}
                         /\ gets[c].left \in SUBSET Epochs /\ gets[c].found \in SUBSET Epochs
  BY Names DEF SharedInv, TypeOK, Readers!ReadersTypeOK
<1> QED
  BY <1>1, <1>2, <1>3

\* What is undisturbed has been so, and so are the epochs after it.
LEMMA UndisturbedBefore ==
  ASSUME SharedInv, [Next]_vars
  PROVE  /\ touched \subseteq touched'
         /\ \A n : Undisturbed(n)' => Undisturbed(n)
         /\ \A n, e \in Epochs : n <= e /\ Undisturbed(n) => Undisturbed(e)
<1>1. touched \subseteq touched'
  <2>1. CASE Accept
    BY <2>1 DEF Accept, Server!Request
  <2>2. CASE FetchStep
    BY <2>2 DEF FetchStep, Server!Fetched, Server!FetchFails, Server!FetchEnds, Server!Answer,
       Server!counts
  <2>3. CASE HandleStep
    BY <2>3, HandlerTypes DEF HandleStep, SharedInv
  <2>4. CASE ManagerActs \/ ReadStep \/ Crash \/ UNCHANGED vars
    BY <2>4, Actors DEF ManagerActs, Crash, Server!ServerDies, Server!counts, vars, serverVars,
       downloadVars
  <2> QED
    BY <2>1, <2>2, <2>3, <2>4, Actors
<1>2. \A n, e \in Epochs : n <= e /\ Undisturbed(n) => Undisturbed(e)
  <2>1. \A f \in touched : f \in Int
    BY EpochTypes
  <2>2. \A n \in Epochs : n \in Int
    BY EpochTypes
  <2> QED
    BY <2>1, <2>2 DEF Undisturbed
<1> QED
  BY <1>1, <1>2 DEF Undisturbed

\* Only the manager changes a directory that downloads have kept away from.
LEMMA OthersKeepAway ==
  ASSUME SharedInv, UndisturbedInv, [Next]_vars, ~ManagerActs, NEW e \in Epochs, Undisturbed(e)
  PROVE  dirs'[e] = dirs[e]
<1>1. CASE HandleStep
  <2>1. PICK t \in Tasks : Server!Handle(t)
    BY <1>1 DEF HandleStep
  <2>2. tasks[t].epoch \in touched /\ tasks[t].epoch \in Epochs
    BY <2>1, HandlerTypes, SharedTypes DEF SharedInv, UndisturbedInv
  <2>3. tasks[t].epoch # e
    BY <2>2, EpochTypes DEF Undisturbed
  <2> QED
    BY <2>1, <2>3, HandlerDirs, SharedTypes DEF SharedInv
<1>2. CASE Crash
  BY <1>2, CrashDirs DEF SharedInv, UndisturbedInv
<1>3. CASE UNCHANGED dirs
  BY <1>3
<1> QED
  BY <1>1, <1>2, <1>3, Actors, RequestTypes DEF SharedInv, vars

LEMMA UndisturbedInit == Init => UndisturbedInv
<1> SUFFICES ASSUME Init
             PROVE  UndisturbedInv
  OBVIOUS
<1>1. \A t \in Tasks : tasks[t].stage = "idle"
  BY DEF Init, Server!ServerInit, Server!NoRequest
<1>2. \A n \in Epochs : dirs[n].archive.writers = {} /\ dirs[n].temp.writers = {}
  BY Names DEF Init, Manager!Init, Manager!AbsentDir, Manager!NoFile
<1>3. \A n \in Epochs : Manager!UpperInv(n)
  BY Names, Manager!UpperInit, ConstantsAssumption DEF Init, Epochs, Manager!Epochs
<1> QED
  BY <1>1, <1>2, <1>3 DEF UndisturbedInv, Init, Server!ServerInit

LEMMA TasksTouch ==
  ASSUME SharedInv, UndisturbedInv, [Next]_vars
  PROVE  /\ requests' = 0 => touched' = {}
         /\ \A t \in Tasks : tasks'[t].stage = "idle" \/ tasks'[t].epoch \in touched'
<1> USE DEF UndisturbedInv
<1>1. requests \in Nat /\ touched \subseteq touched' /\ DOMAIN tasks = Tasks
  BY RequestsAssumption, UndisturbedBefore DEF SharedInv, TypeOK, Server!ServerTypeOK
<1>2. CASE Accept
  <2>1. PICK u \in Tasks, e \in Epochs : Server!Request(u, e)
    BY <1>2 DEF Accept
  <2>2. requests' > 0
    BY <1>1, <2>1 DEF Server!Request
  <2>3. \A t \in Tasks : t # u => tasks'[t] = tasks[t]
    BY <1>1, <2>1 DEF Server!Request
  <2>4. tasks'[u].epoch = e /\ e \in touched'
    BY <1>1, <2>1 DEF Server!Request, Server!NoRequest
  <2> QED
    BY <1>1, <2>2, <2>3, <2>4
<1>3. ASSUME UNCHANGED <<requests, touched>>, NEW u \in Tasks, NEW k,
             tasks' = [tasks EXCEPT ![u] = k],
             k.stage = "idle" \/ k.epoch = tasks[u].epoch, tasks[u].stage # "idle"
      PROVE  /\ requests' = 0 => touched' = {}
             /\ \A t \in Tasks : tasks'[t].stage = "idle" \/ tasks'[t].epoch \in touched'
  BY <1>1, <1>3
<1>4. CASE FetchStep
  <2>1. PICK u \in Tasks : Server!Fetched(u)
    BY <1>4 DEF FetchStep
  <2>2. CASE Server!FetchFails(u)
    BY <1>3, <2>2 DEF Server!FetchFails, Server!Answer, Server!At, Server!NoRequest, Server!counts
  <2>3. CASE \E b \in Server!Bodies : Server!FetchEnds(u, b)
    <3>1. PICK b \in Server!Bodies : Server!FetchEnds(u, b)
      BY <2>3
    <3> DEFINE k == [tasks[u] EXCEPT !.stage = "makeDir", !.body = b]
    <3>2. k.epoch = tasks[u].epoch
      BY DEF SharedInv, TypeOK, Server!ServerTypeOK
    <3>3. /\ UNCHANGED <<requests, touched>> /\ tasks' = [tasks EXCEPT ![u] = k]
          /\ tasks[u].stage # "idle"
      BY <3>1 DEF Server!FetchEnds, Server!counts, Server!At
    <3> HIDE DEF k
    <3> QED
      BY <1>3, <3>2, <3>3
  <2> QED
    BY <2>1, <2>2, <2>3 DEF Server!Fetched
<1>5. CASE HandleStep
  <2>1. PICK u \in Tasks : Server!Handle(u)
    BY <1>5 DEF HandleStep
  <2>2. UNCHANGED <<requests, touched>> /\ tasks[u].stage # "idle"
    BY <2>1, HandlerTypes DEF SharedInv
  <2>3. PICK k : /\ tasks' = [tasks EXCEPT ![u] = k]
                 /\ k.stage = "idle" \/ k.epoch = tasks[u].epoch
    BY <2>1, HandlerTypes DEF SharedInv
  <2> QED
    BY <1>3, <2>2, <2>3
<1>6. CASE Crash
  BY <1>6 DEF Crash, Server!ServerDies, Server!NoRequest, Server!counts
<1>7. CASE ManagerActs \/ ReadStep \/ UNCHANGED vars
  BY <1>7, Actors DEF ManagerActs, vars, serverVars, downloadVars
<1> QED
  BY <1>2, <1>4, <1>5, <1>6, <1>7, Actors

\* Downloads of older epochs change nothing of these, and the manager keeps them.
LEMMA UndisturbedStep == SharedInv /\ UndisturbedInv /\ [Next]_vars => UndisturbedInv'
<1> SUFFICES ASSUME SharedInv, UndisturbedInv, [Next]_vars
             PROVE  UndisturbedInv'
  OBVIOUS
<1>1. SUFFICES ASSUME NEW n \in Epochs, Undisturbed(n)'
               PROVE  /\ Manager!UpperInv(n)'
                      /\ dirs'[n].archive.writers = {} /\ dirs'[n].temp.writers = {}
  BY TasksTouch, Names DEF UndisturbedInv
<1>2. /\ \A e \in Epochs : e >= n => Undisturbed(e)
      /\ Manager!UpperInv(n) /\ dirs[n].archive.writers = {} /\ dirs[n].temp.writers = {}
      /\ n \in Int /\ n >= n
  <2>1. Undisturbed(n) /\ \A e \in Epochs : e \in Int
    BY <1>1, UndisturbedBefore, EpochTypes
  <2> QED
    BY <2>1, UndisturbedBefore DEF UndisturbedInv
<1>3. CASE ManagerActs
  <2>1. Manager!UpperInv(n)'
    BY <1>2, <1>3, Manager!UpperStep, ConstantsAssumption
       DEF ManagerActs, SharedInv, Epochs, Manager!Epochs
  <2>2. /\ dirs'[n].archive \in {dirs[n].archive, Manager!NoFile} \/ Manager!Intact(dirs'[n])
        /\ dirs'[n].temp \in {dirs[n].temp, Manager!NoFile}
    BY <1>3, Names, Manager!OwnDirs, ConstantsAssumption
       DEF ManagerActs, SharedInv, Epochs, Manager!Epochs
  <2>3. Manager!Intact(dirs'[n]) => dirs'[n].archive.writers = {}
    BY DEF Manager!Intact, Manager!CompleteArchive, Manager!BuiltFile
  <2> QED
    BY <1>2, <2>1, <2>2, <2>3 DEF Manager!NoFile
<1>4. CASE ~ManagerActs
  <2>1. \A e \in Epochs : e >= n => dirs'[e] = dirs[e]
    BY <1>2, <1>4, OthersKeepAway
  <2>2. CASE Crash
    <3>1. Manager!UpperInv(n)'
      BY <1>2, <2>1, <2>2, Manager!UpperDies, ConstantsAssumption
         DEF Crash, SharedInv, Epochs, Manager!Epochs
    <3> QED
      BY <1>2, <2>1, <3>1
  <2>3. CASE UNCHANGED managerVars
    <3>1. UNCHANGED <<Manager!env, stateFile, pc, mem, Manager!locals>>
      BY <2>3 DEF managerVars, Manager!env, Manager!locals
    <3>2. Manager!UpperInv(n)'
      BY <1>2, <2>1, <3>1, Manager!UpperFrame, ConstantsAssumption DEF Epochs, Manager!Epochs
    <3> QED
      BY <1>2, <2>1, <3>2
  <2> QED
    BY <1>4, <2>2, <2>3, Actors DEF Accept, FetchStep, HandleStep, vars
<1> QED
  BY <1>3, <1>4

\* The manager keeps the epochs that downloads keep away from, whatever they do to the
\* others.
THEOREM UndisturbedInvariance == Spec => [](SharedInv /\ UndisturbedInv)
<1>1. Init => SharedInv /\ UndisturbedInv
  BY SharedInit, UndisturbedInit
<1>2. (SharedInv /\ UndisturbedInv) /\ [Next]_vars => (SharedInv /\ UndisturbedInv)'
  BY SharedStep, UndisturbedStep
<1> QED
  BY <1>1, <1>2, PTL DEF Spec

\* An epoch that is recorded is not built a second time, which takes hours: not after a
\* restart or a retry, not because of retention, and not because of downloads of older
\* epochs.
THEOREM NotRebuilt == Spec => []RecordedNotRebuilt
<1>1. SharedInv /\ UndisturbedInv => RecordedNotRebuilt
  <2> SUFFICES ASSUME SharedInv, UndisturbedInv, pc \in Manager!BuildStages, Undisturbed(target)
               PROVE  ~(mem.epoch >= target)
    BY DEF RecordedNotRebuilt
  <2>1. target \in Epochs /\ target # Manager!NoEpoch
    BY Names DEF SharedInv, TypeOK, Manager!TypeOK, Manager!Targeted, Manager!BuildStages
  <2>2. {mem.epoch, target} \subseteq Int
    BY EpochTypes, <2>1
  <2>3. Manager!DirInv(target)
    BY <2>1, <2>2, Names DEF UndisturbedInv, Manager!UpperInv
  <2>4. mem.epoch <= target
    BY <2>1 DEF SharedInv, Manager!OwnInv, Manager!TargetInv, Manager!BuildStages
  <2>5. mem.epoch # target
    BY <2>3 DEF Manager!DirInv, Manager!Intact
  <2> QED
    BY <2>2, <2>4, <2>5
<1> QED
  BY <1>1, UndisturbedInvariance, PTL

LEMMA UnrequestedStep ==
  ASSUME SharedInv, UndisturbedInv, [Next]_vars, requests' = 0
  PROVE  [Manager!Next]_(Manager!vars)
<1>1. 0 \in Epochs /\ \A e \in Epochs : Undisturbed(e)
  <2>1. 0 \in Epochs
    BY Names, ConstantsAssumption
  <2>2. touched = {}
    BY UndisturbedBefore, UndisturbedStep DEF UndisturbedInv
  <2> QED
    BY <2>1, <2>2 DEF Undisturbed
<1>2. CASE ManagerActs
  BY <1>1, <1>2, Manager!UpperUncontended, ConstantsAssumption
     DEF ManagerActs, SharedInv, UndisturbedInv, Epochs, Manager!Epochs
<1>3. CASE ~ManagerActs
  <2>1. UNCHANGED dirs
    <3>1. \A e \in Epochs : dirs'[e] = dirs[e]
      BY <1>1, <1>3, OthersKeepAway
    <3>2. dirs \in [Epochs -> Manager!Dirs] /\ dirs' \in [Epochs -> Manager!Dirs]
      BY SharedStep, SharedTypes, Names DEF SharedInv, TypeOK, Manager!TypeOK
    <3> QED
      BY <3>1, <3>2
  <2>2. Crash => Manager!Next
    BY <2>1 DEF Crash, Manager!Crash, Manager!Next
  <2>3. UNCHANGED managerVars => UNCHANGED Manager!vars
    BY <2>1 DEF managerVars, Manager!vars, Manager!env, Manager!disk, Manager!locals,
       Manager!budget
  <2> QED
    BY <1>3, <2>2, <2>3, Actors DEF Accept, FetchStep, HandleStep, vars
<1> QED
  BY <1>2, <1>3

\* Without downloads, the service behaves as the manager alone does, whatever clients
\* read, and so keeps all of the manager's promises.
THEOREM ImplementsManager == Spec /\ [](requests = 0) => Manager!Spec
<1>1. Init => Manager!Init
  BY DEF Init
<1>2. SharedInv /\ UndisturbedInv /\ [Next]_vars /\ (requests = 0)'
        => [Manager!Next]_(Manager!vars)
  BY UnrequestedStep
<1> QED
  BY <1>1, <1>2, UndisturbedInvariance, PTL DEF Spec, Manager!Spec
-----------------------------------------------------------------------------
(* What a client may rely on for the epochs that downloads keep away from *)

\* The snapshot of e is there, or a newer one is and is recorded.
Covered(e) == Manager!Intact(dirs[e]) \/ Recorded > e

\* What a session g has seen is covered, as far as it is undisturbed.  The epoch
\* recorded when it asked is among the names left to check or found, unless a newer one
\* was recorded meanwhile.
Kept(g) ==
  /\ g.stage = "listing" =>
       /\ g.floor # Manager!NoEpoch /\ Undisturbed(g.floor) =>
            Covered(g.floor) /\ (g.floor \in g.left \cup g.found \/ Recorded > g.floor)
       /\ \A e \in g.found : Undisturbed(e) => Covered(e)
  /\ g.stage = "listed" /\ Undisturbed(g.floor) => g.epoch >= g.floor \/ Recorded > g.floor
  /\ /\ g.stage \in {"listed", "certified", "exists"} /\ g.epoch # Manager!NoEpoch
     /\ Undisturbed(g.epoch)
     => Covered(g.epoch)
  /\ /\ g.stage = "missing" \/ (g.stage = "uncertified" /\ SummitEnabled)
     /\ Undisturbed(g.epoch)
     => Recorded > g.epoch

SessionsInv == \A c \in Clients : Kept(gets[c])

LEMMA SessionsInit == Init => SessionsInv
BY DEF Init, Readers!ReadersInit, Readers!NewSession, SessionsInv, Kept

\* No step takes anything back of an epoch that stays undisturbed.
LEMMA CoveredStays ==
  ASSUME SharedInv, UndisturbedInv, [Next]_vars
  PROVE  /\ Recorded' \in Int /\ Recorded' >= Recorded
         /\ \A e \in Epochs : Undisturbed(e) /\ Covered(e) => Covered(e)'
<1>1. Recorded' \in Int /\ Recorded' >= Recorded
  <2>1. SharedInv'
    BY SharedStep
  <2>2. Recorded' \in Epochs \cup {Manager!NoEpoch} /\ Epochs \in SUBSET Int /\ Manager!NoEpoch \in Int
    BY <2>1, Names DEF SharedInv, TypeOK, Manager!TypeOK, Manager!Marks, Recorded,
       Manager!NoEpoch
  <2> QED
    BY <2>2, RecordedStep DEF Recorded
<1>2. ASSUME NEW e \in Epochs, Undisturbed(e), Manager!Intact(dirs[e])
      PROVE  Manager!Intact(dirs'[e]) \/ Recorded > e
  <2>1. Manager!UpperInv(e) /\ e >= e
    BY <1>2, EpochTypes DEF UndisturbedInv
  <2>2. CASE ManagerActs
    BY <1>2, <2>1, <2>2, Manager!UpperWholeUntilRetired, ConstantsAssumption
       DEF ManagerActs, SharedInv, Recorded, Epochs, Manager!Epochs
  <2>3. CASE ~ManagerActs
    BY <1>2, <2>3, OthersKeepAway
  <2> QED
    BY <2>2, <2>3
<1>3. \A e \in Epochs : Recorded > e => Recorded' > e
  BY <1>1, EpochTypes
<1> QED
  BY <1>1, <1>2, <1>3 DEF Covered

\* What was seen stays covered while others take steps, whatever happens to the file
\* that is being sent.
LEMMA KeptStays ==
  ASSUME SharedInv, UndisturbedInv, [Next]_vars, NEW c \in Clients, Kept(gets[c]),
         \A f \in {"stage", "left", "found", "epoch", "floor"} : gets'[c][f] = gets[c][f]
  PROVE  Kept(gets[c])'
<1> DEFINE g == gets[c]
<1>1. /\ g.epoch \in Epochs \cup {Manager!NoEpoch} /\ g.floor \in Epochs \cup {Manager!NoEpoch}
      /\ g.found \in SUBSET Epochs
  BY EpochTypes
<1>2. {g.epoch, g.floor, Recorded, Recorded'} \subseteq Int /\ Recorded' >= Recorded
  BY <1>1, EpochTypes, CoveredStays
<1>3. \A e \in Epochs : Undisturbed(e)' /\ Covered(e) => Undisturbed(e) /\ Covered(e)'
  BY CoveredStays, UndisturbedBefore
<1>4. \A e \in {g.epoch, g.floor} : Recorded > e => Recorded' > e
  BY <1>2
<1>5. \A e : Undisturbed(e)' => Undisturbed(e)
  BY UndisturbedBefore
<1>6. /\ g'.stage = g.stage /\ g'.left = g.left /\ g'.found = g.found /\ g'.epoch = g.epoch
      /\ g'.floor = g.floor
  OBVIOUS
<1>7. Kept(g)
  OBVIOUS
<1> HIDE DEF g
<1>8. Kept(g)'
  BY <1>1, <1>3, <1>4, <1>5, <1>6, <1>7 DEF Kept
<1> QED
  BY <1>8 DEF g

\* What a reader finds, or does not find, when it looks.
LEMMA Looked ==
  ASSUME SharedInv, UndisturbedInv, NEW e \in Epochs, Undisturbed(e)
  PROVE  /\ dirs[e].archive.kind # "none" => Covered(e)
         /\ dirs[e].archive.kind = "none" /\ Covered(e) => Recorded > e
         /\ dirs[e].manifest.kind = "none" /\ SummitEnabled /\ Covered(e) => Recorded > e
         /\ e = mem.epoch => Covered(e) /\ dirs[e].present
<1>1. {e, Recorded} \subseteq Int /\ Manager!DirInv(e)
  BY EpochTypes, Names DEF UndisturbedInv, Manager!UpperInv
<1>2. dirs[e].archive.kind # "none" => dirs[e].present
  BY <1>1 DEF Manager!DirInv, Manager!AbsentDir, Manager!NoFile
<1>3. dirs[e].present => Covered(e)
  BY <1>1 DEF Manager!DirInv, Covered, Recorded
<1>4. Manager!Intact(dirs[e]) =>
        /\ dirs[e].present /\ dirs[e].archive.kind = "built"
        /\ SummitEnabled => dirs[e].manifest.kind = "built"
  BY DEF Manager!Intact, Manager!CompleteArchive, Manager!BuiltFile, Manager!CommitsTo
<1>5. e = mem.epoch => Manager!Intact(dirs[e])
  BY <1>1 DEF Manager!DirInv
<1> QED
  BY <1>2, <1>3, <1>4, <1>5 DEF Covered

\* A request's first step.
LEMMA AskKept ==
  ASSUME SharedInv, UndisturbedInv, SessionsInv, NEW c \in Clients,
         Readers!AskLatest(c, mem.epoch) \/ Readers!Ask(c)
  PROVE  \E s : Readers!Session(c, s) /\ Kept(s)
<1> USE DEF Readers!NewSession, Readers!Ended, Readers!In
<1>1. Readers!NoEpoch = Manager!NoEpoch /\ Readers!Epochs = Epochs
  BY Names
<1>2. Kept(Readers!Ended)
  BY DEF Kept
<1>3. CASE Readers!AskLatest(c, mem.epoch)
  <2> DEFINE s == [Readers!NewSession EXCEPT !.stage = "listing", !.floor = mem.epoch,
                     !.left = {e \in Readers!Epochs : dirs[e].present}]
  <2>1. mem.epoch # Manager!NoEpoch /\ Undisturbed(mem.epoch) =>
          Covered(mem.epoch) /\ mem.epoch \in {e \in Epochs : dirs[e].present}
    BY EpochTypes, Looked
  <2>2. Kept(s)
    BY <1>1, <2>1 DEF Kept
  <2> QED
    BY <1>3, <2>2 DEF Readers!AskLatest
<1>4. CASE Readers!Ask(c)
  <2>1. PICK e \in Epochs : \/ Readers!GetManifest(c, e) \/ Readers!OpenArchive(c, e)
                           \/ Readers!LookForArchive(c, e)
    BY <1>1, <1>4 DEF Readers!Ask
  <2>2. ASSUME gets[c].stage \in {"listed", "certified"}, gets[c].epoch = e, Undisturbed(e)
        PROVE  Covered(e)
    BY <2>2, EpochTypes DEF SessionsInv, Kept
  <2>3. ASSUME NEW stage, Readers!NotFound(c, e, stage), Readers!AsksFor(c, e),
               \/ stage = "missing" /\ dirs[e].archive.kind = "none"
               \/ stage = "uncertified" /\ dirs[e].manifest.kind = "none"
        PROVE  \E s : Readers!Session(c, s) /\ Kept(s)
    <3> DEFINE s == [Readers!NewSession EXCEPT !.stage = stage, !.epoch = e]
    <3>1. CASE gets[c].stage = "idle"
      BY <1>2, <2>3, <3>1 DEF Readers!NotFound
    <3>2. CASE gets[c].stage # "idle"
      <4>1. (stage = "missing" \/ SummitEnabled) /\ Undisturbed(e) => Recorded > e
        BY <2>2, <2>3, <3>2, Looked DEF Readers!AsksFor
      <4>2. Kept(s)
        BY <2>3, <4>1 DEF Kept
      <4> QED
        BY <2>3, <3>2, <4>2 DEF Readers!NotFound
    <3> QED
      BY <3>1, <3>2
  <2>4. CASE Readers!GetManifest(c, e)
    <3> DEFINE s == [Readers!NewSession EXCEPT !.stage = "certified", !.epoch = e]
    <3>1. (Undisturbed(e) => Covered(e)) => Kept(s)
      BY DEF Kept
    <3> QED
      BY <1>2, <2>2, <2>3, <2>4, <3>1 DEF Readers!GetManifest, Readers!AsksFor
  <2>5. CASE Readers!OpenArchive(c, e)
    <3> DEFINE s == [Readers!NewSession EXCEPT !.stage = "opened", !.epoch = e,
                                               !.file = dirs[e].archive]
    <3>1. Kept(s)
      BY DEF Kept
    <3> QED
      BY <2>3, <2>5, <3>1 DEF Readers!OpenArchive
  <2>6. CASE Readers!LookForArchive(c, e)
    <3> DEFINE s == [gets[c] EXCEPT !.stage = "exists", !.epoch = e]
    <3>1. s.stage = "exists" /\ s.epoch = e
      BY DEF SharedInv, TypeOK, Readers!ReadersTypeOK
    <3>2. (Undisturbed(e) => Covered(e)) => Kept(s)
      <4> HIDE DEF s
      <4> QED
        BY <3>1 DEF Kept
    <3> QED
      BY <2>3, <2>6, <3>2, Looked DEF Readers!LookForArchive
  <2> QED
    BY <2>1, <2>4, <2>5, <2>6
<1> QED
  BY <1>3, <1>4

\* What the server does next for it.
LEMMA ServeKept ==
  ASSUME SharedInv, UndisturbedInv, SessionsInv, NEW c \in Clients,
         Readers!Serve(c) \/ Readers!StreamEnds(c)
  PROVE  \E s : Readers!Session(c, s) /\ Kept(s)
<1> USE DEF Readers!NewSession, Readers!Ended, Readers!In
<1> DEFINE g == gets[c]
<1>1. /\ Readers!NoEpoch = Manager!NoEpoch /\ Kept(g) /\ {g.floor, Recorded} \subseteq Int
      /\ g.floor \in Epochs \cup {Manager!NoEpoch} /\ g.found \in SUBSET Epochs
      /\ g.left \in SUBSET Epochs /\ Epochs \in SUBSET Int
  BY Names, EpochTypes DEF SessionsInv
<1>2. CASE Readers!CheckEntry(c)
  <2>1. PICK e \in g.left :
          Readers!Session(c, [g EXCEPT !.left = @ \ {e},
                                !.found = IF dirs[e].archive.kind = "none" THEN @ ELSE @ \cup {e}])
    BY <1>2 DEF Readers!CheckEntry
  <2> DEFINE found == IF dirs[e].archive.kind = "none" THEN g.found ELSE g.found \cup {e}
             s == [g EXCEPT !.left = @ \ {e}, !.found = found]
  <2>2. /\ s.stage = "listing" /\ s.floor = g.floor /\ s.left = g.left \ {e} /\ s.found = found
        /\ g.stage = "listing"
    BY <1>2 DEF Readers!CheckEntry, SharedInv, TypeOK, Readers!ReadersTypeOK
  <2>3. \A f \in found : Undisturbed(f) => Covered(f)
    BY <1>1, <2>2, Looked DEF Kept
  <2>4. g.floor # Manager!NoEpoch /\ Undisturbed(g.floor) =>
          Covered(g.floor) /\ (g.floor \in (g.left \ {e}) \cup found \/ Recorded > g.floor)
    BY <1>1, <2>2, Looked DEF Kept
  <2>5. Kept(s)
    <3> HIDE DEF s, found
    <3> QED
      BY <2>2, <2>3, <2>4 DEF Kept
  <2> QED
    BY <2>1, <2>5
<1>3. CASE Readers!AnswerLatest(c)
  <2>1. /\ g.stage = "listing" /\ g.left = {}
        /\ \E e \in IF g.found = {} THEN {Manager!NoEpoch} ELSE Readers!Newest(g.found) :
             Readers!Session(c, [Readers!NewSession EXCEPT !.stage = "listed", !.epoch = e,
                                                           !.floor = g.floor])
    BY <1>1, <1>3 DEF Readers!AnswerLatest
  <2>2. PICK e \in IF g.found = {} THEN {Manager!NoEpoch} ELSE Readers!Newest(g.found) :
          Readers!Session(c, [Readers!NewSession EXCEPT !.stage = "listed", !.epoch = e,
                                                        !.floor = g.floor])
    BY <2>1
  <2> DEFINE s == [Readers!NewSession EXCEPT !.stage = "listed", !.epoch = e, !.floor = g.floor]
  <2>3. e # Manager!NoEpoch /\ Undisturbed(e) => Covered(e)
    BY <1>1, <2>1 DEF Kept, Readers!Newest
  <2>4. g.floor \in g.found => e >= g.floor
    BY DEF Readers!Newest
  <2>5. g.floor = Manager!NoEpoch => e >= g.floor
    <3>1. e \in Epochs \cup {Manager!NoEpoch}
      BY <1>1 DEF Readers!Newest
    <3>2. e >= Manager!NoEpoch
      BY <3>1, EpochTypes
    <3> QED
      BY <3>2
  <2>6. Undisturbed(g.floor) => e >= g.floor \/ Recorded > g.floor
    BY <1>1, <2>1, <2>4, <2>5 DEF Kept
  <2>7. Kept(s)
    BY <2>3, <2>6 DEF Kept
  <2> QED
    BY <2>2, <2>7
<1>4. CASE Readers!SendHeader(c)
  <2> DEFINE s == [g EXCEPT !.stage = "streaming", !.length = g.file]
  <2>1. s.stage = "streaming"
    BY DEF SharedInv, TypeOK, Readers!ReadersTypeOK
  <2>2. Kept(s)
    <3> HIDE DEF s
    <3> QED
      BY <2>1 DEF Kept
  <2> QED
    BY <1>4, <2>2 DEF Readers!SendHeader
<1>5. CASE Readers!ReadArchive(c)
  <2> DEFINE f == dirs[g.epoch].archive
             lost == [g EXCEPT !.stage = "missing"]
             sent == [g EXCEPT !.stage = "streaming", !.file = f, !.length = f]
  <2>1. /\ lost.stage = "missing" /\ lost.epoch = g.epoch /\ sent.stage = "streaming"
        /\ g.stage = "exists"
    BY <1>5 DEF Readers!ReadArchive, SharedInv, TypeOK, Readers!ReadersTypeOK
  <2>2. g.epoch \in Epochs /\ (Undisturbed(g.epoch) => Covered(g.epoch))
    BY <1>1, <2>1, EpochTypes DEF Kept, SharedInv, AskedInv
  <2>3. f.kind = "none" => Kept(lost)
    <3>1. f.kind = "none" /\ Undisturbed(g.epoch) => Recorded > g.epoch
      BY <2>2, Looked
    <3> HIDE DEF lost, f
    <3> QED
      BY <2>1, <3>1 DEF Kept
  <2>4. Kept(sent)
    <3> HIDE DEF sent
    <3> QED
      BY <2>1 DEF Kept
  <2> QED
    BY <1>5, <2>3, <2>4 DEF Readers!ReadArchive
<1>6. CASE Readers!StreamEnds(c)
  BY <1>6 DEF Readers!StreamEnds, Kept
<1> QED
  BY <1>2, <1>3, <1>4, <1>5, <1>6 DEF Readers!Serve

\* A reader's step keeps its own session's promise, any other step those of all; a
\* download that comes in takes the promise away for its epoch and those before it.
LEMMA SessionsStep == SharedInv /\ UndisturbedInv /\ SessionsInv /\ [Next]_vars => SessionsInv'
<1> SUFFICES ASSUME SharedInv, UndisturbedInv, SessionsInv, [Next]_vars, NEW c \in Clients
             PROVE  Kept(gets[c])'
  BY DEF SessionsInv
<1>1. Kept(gets[c]) /\ DOMAIN gets = Clients
  BY SharedTypes DEF SessionsInv, SharedInv
<1>2. ASSUME \/ gets'[c] = gets[c]
             \/ \E f : gets'[c] = [gets[c] EXCEPT !.file = f]
      PROVE  Kept(gets[c])'
  <2>1. gets[c] \in [stage: Readers!Busy \cup Readers!Resting, left: SUBSET Readers!Epochs,
                     found: SUBSET Readers!Epochs, epoch: Readers!Epochs \cup {Readers!NoEpoch},
                     floor: Readers!Epochs \cup {Readers!NoEpoch},
                     file: Readers!Files, length: Readers!Files]
    BY DEF SharedInv, TypeOK, Readers!ReadersTypeOK
  <2>2. \A f \in {"stage", "left", "found", "epoch", "floor"} : gets'[c][f] = gets[c][f]
    BY <1>2, <2>1
  <2> QED
    BY <1>1, <2>2, KeptStays
<1>3. CASE ReadStep
  <2>1. PICK b \in Clients : \/ Readers!AskLatest(b, mem.epoch) \/ Readers!Ask(b)
                            \/ Readers!Serve(b) \/ Readers!StreamEnds(b)
    BY <1>3 DEF ReadStep, AskStep, ServeStep, StreamStep
  <2>2. PICK s : Readers!Session(b, s) /\ Kept(s)
    BY <2>1, AskKept, ServeKept
  <2>3. b = c => gets'[c] = s
    BY <1>1, <2>2 DEF Readers!Session
  <2>4. b # c => gets'[c] = gets[c]
    BY <1>1, <2>2 DEF Readers!Session
  <2>5. UNCHANGED <<dirs, stateFile, touched>>
    BY <1>3, Actors DEF managerVars, downloadVars
  <2>6. gets'[c] = s => Kept(gets[c])'
    BY <2>2, <2>5 DEF Kept, Covered, Recorded, Undisturbed
  <2> QED
    BY <1>2, <2>3, <2>4, <2>6
<1>4. CASE ManagerActs \/ Accept \/ FetchStep \/ UNCHANGED vars
  BY <1>2, <1>4 DEF ManagerActs, Accept, FetchStep, vars, serverVars
<1>5. CASE HandleStep
  BY <1>2, <1>5 DEF HandleStep, Readers!Rewritten
<1>6. CASE Crash
  <2>1. gets'[c] \in {gets[c], Readers!Ended}
    BY <1>6 DEF Crash, Readers!ReadersDie
  <2>2. gets'[c] = Readers!Ended => Kept(gets[c])'
    BY DEF Kept, Readers!Ended, Readers!NewSession
  <2> QED
    BY <1>2, <2>1, <2>2
<1> QED
  BY <1>3, <1>4, <1>5, <1>6, Actors

\* What a client was told of stays, or a newer snapshot than that is recorded, for the
\* epochs that downloads have kept away from.
THEOREM SessionsInvariance == Spec => [](SharedInv /\ UndisturbedInv /\ SessionsInv)
<1>1. SharedInv /\ UndisturbedInv /\ [Next]_vars => (SharedInv /\ UndisturbedInv)'
  BY SharedStep, UndisturbedStep
<1> QED
  BY <1>1, SharedInit, UndisturbedInit, SessionsInit, SessionsStep, PTL DEF Spec

\* The listing reads the directory and then looks at one entry after the other, while
\* retention removes some and downloads replace older ones: what it announces is still
\* not older than what was recorded when it was asked for, unless a newer snapshot was
\* recorded meanwhile.  Provided that no download was asked for of the epoch recorded
\* then, or of a later one: such a download may put an empty archive in its place.
THEOREM ListingIsCurrent == Spec => []LatestCoversRecorded
<1>1. SessionsInv => LatestCoversRecorded
  BY DEF SessionsInv, Kept, Recorded, LatestCoversRecorded, Readers!In
<1> QED
  BY <1>1, SessionsInvariance, PTL

\* A client that was told of a snapshot and finds its archive gone, or in Summit mode
\* its manifest, can ask for a newer one, which is whole.  Provided that no download was
\* asked for of that epoch or of a later one: what is downloaded has no manifest.
THEOREM AnnouncedIsReplaced == Spec => []AnnouncedStaysAvailable
<1>1. SharedInv /\ UndisturbedInv /\ SessionsInv => AnnouncedStaysAvailable
  <2> SUFFICES ASSUME SharedInv, UndisturbedInv, SessionsInv, NEW c \in Clients,
                      \/ gets[c].stage = "missing"
                      \/ gets[c].stage = "uncertified" /\ SummitEnabled,
                      Undisturbed(gets[c].epoch)
               PROVE  \E e \in Epochs : e > gets[c].epoch /\ Manager!Intact(dirs[e])
    BY DEF AnnouncedStaysAvailable, Readers!In
  <2>1. Recorded > gets[c].epoch
    BY DEF SessionsInv, Kept
  <2>2. Recorded \in Epochs /\ {Recorded, gets[c].epoch} \subseteq Int /\ \A f \in touched : f \in Int
    BY <2>1, EpochTypes
  <2>3. Undisturbed(Recorded)
    BY <2>1, <2>2 DEF Undisturbed
  <2>4. Manager!DirInv(Recorded)
    BY <2>2, <2>3, Names DEF UndisturbedInv, Manager!UpperInv
  <2>5. Manager!Intact(dirs[Recorded])
    BY <2>4 DEF Manager!DirInv, Recorded
  <2> QED
    BY <2>1, <2>2, <2>5
<1> QED
  BY <1>1, SessionsInvariance, PTL

-----------------------------------------------------------------------------
(* While downloads of one epoch do not overlap *)

\* At most one download at a time works in the directory of an epoch.
Working(t) == tasks[t].stage \notin {"idle", "fetch"}
Apart ==
  \A t, u \in Tasks : Working(t) /\ Working(u) /\ tasks[t].epoch = tasks[u].epoch => t = u

\* The partial file f, as a download t at this stage has left it; the manager may have
\* removed it with the directory.
PartialOf(t, stage, f) ==
  /\ stage = "write" =>
       f = Manager!NoFile \/ (f.kind = "empty" /\ f.writers = {t} /\ f.mixed = FALSE)
  /\ stage = "finish" =>
       f = Manager!NoFile \/ (f.kind = "torn" /\ f.writers = {t} /\ f.mixed = FALSE)
  /\ stage = "publish" => f.kind # "torn"

DownloadInv ==
  /\ DownloadsAreWhole
  /\ \A e \in Epochs : \A t \in dirs[e].temp.writers :
       tasks[t].stage \in {"write", "finish"} /\ tasks[t].epoch = e
  /\ \A t \in Tasks : PartialOf(t, tasks[t].stage, dirs[tasks[t].epoch].temp)

\* What a client is sent was whole when it was opened, and nobody writes to it.
StreamInv ==
  \A c \in Clients :
    /\ gets[c].file.writers = {}
    /\ gets[c].stage \in {"opened", "streaming"} => gets[c].file.kind # "torn"
    /\ gets[c].stage = "streaming" => gets[c].length = gets[c].file

\* What a download may leave: its directory n and its own record k.
LeftBy(t, n, k) ==
  /\ n.archive.kind # "torn" /\ n.archive.writers = {}
  /\ n.temp.writers = {} \/ (n.temp.writers = {t} /\ k.stage \in {"write", "finish"})
  /\ PartialOf(t, k.stage, n.temp)
  /\ k.stage = "idle" \/ k.epoch = tasks[t].epoch

\* The download that works in a directory is the only one to hold files there.
LEMMA AloneInDir ==
  ASSUME SharedInv, DownloadInv, Apart, NEW t \in Tasks, Working(t)
  PROVE  LET d == dirs[tasks[t].epoch]
         IN  /\ d \in Manager!Dirs /\ tasks[t].epoch \in Epochs
             /\ d.archive \in Manager!Files /\ d.temp \in Manager!Files
             /\ d.archive.kind # "torn" /\ d.archive.writers = {}
             /\ d.temp.writers = {}
                \/ (d.temp.writers = {t} /\ tasks[t].stage \in {"write", "finish"})
             /\ PartialOf(t, tasks[t].stage, d.temp)
<1> DEFINE d == dirs[tasks[t].epoch]
<1>1. /\ d \in Manager!Dirs /\ tasks[t].epoch \in Epochs
      /\ d.archive \in Manager!Files /\ d.temp \in Manager!Files
  BY SharedTypes DEF SharedInv
<1>2. d.temp.writers \in SUBSET Tasks
  BY <1>1 DEF Manager!Files
<1>3. \A u \in d.temp.writers : u = t /\ tasks[t].stage \in {"write", "finish"}
  BY <1>1, <1>2 DEF DownloadInv, Apart, Working
<1> QED
  BY <1>1, <1>3 DEF DownloadInv, DownloadsAreWhole

\* Each step of a handler.
LEMMA HandlerKeeps ==
  ASSUME SharedInv, DownloadInv, Apart, NEW t \in Tasks, Server!Handle(t)
  PROVE  /\ Working(t)
         /\ \E n, k : /\ dirs' = [dirs EXCEPT ![tasks[t].epoch] = n]
                      /\ tasks' = [tasks EXCEPT ![t] = k]
                      /\ LeftBy(t, n, k)
<1> DEFINE ep == tasks[t].epoch
           d == dirs[ep]
           At(stage) == [tasks[t] EXCEPT !.stage = stage]
<1> USE DEF Server!SetDir, Server!DirOf, Server!At
<1>0. Working(t)
  BY DEF Server!Handle, Server!MakeDir, Server!CheckTemp, Server!RmTemp, Server!Create,
         Server!Write, Server!Finish, Server!WriteFails, Server!Publish, Working
<1>1. /\ d \in Manager!Dirs /\ ep \in Epochs /\ dirs = [dirs EXCEPT ![ep] = d]
      /\ d.archive \in Manager!Files /\ d.temp \in Manager!Files
      /\ d.archive.kind # "torn" /\ d.archive.writers = {}
      /\ d.temp.writers = {} \/ (d.temp.writers = {t} /\ tasks[t].stage \in {"write", "finish"})
      /\ PartialOf(t, tasks[t].stage, d.temp)
  BY <1>0, AloneInDir, SharedTypes DEF SharedInv
<1>2. /\ Manager!NoFile.kind = "none" /\ Manager!NoFile.writers = {}
      /\ Manager!EmptyDir.temp = Manager!NoFile /\ Manager!EmptyDir.archive = Manager!NoFile
      /\ Server!NoFile = Manager!NoFile /\ Server!EmptyDir = Manager!EmptyDir
      /\ Server!NoRequest.stage = "idle"
  BY Names DEF Manager!NoFile, Manager!EmptyDir, Manager!AbsentDir, Server!NoRequest
<1>3. ASSUME NEW stage
      PROVE  /\ Server!Continue(t, stage) => tasks' = [tasks EXCEPT ![t] = At(stage)]
             /\ At(stage).stage = stage /\ At(stage).epoch = ep
  BY DEF Server!Continue, SharedInv, TypeOK, Server!ServerTypeOK
<1>4. Server!Answer(t) => tasks' = [tasks EXCEPT ![t] = Server!NoRequest]
  BY DEF Server!Answer

\* The archive stays as it was.
<1>5. ASSUME NEW f \in Manager!Files, NEW k, k.stage = "idle" \/ k.epoch = ep,
             f.writers = {} \/ (f.writers = {t} /\ k.stage \in {"write", "finish"}),
             PartialOf(t, k.stage, f)
      PROVE  /\ LeftBy(t, [d EXCEPT !.temp = f], k)
             /\ LeftBy(t, [d EXCEPT !.temp = f, !.archive = d.archive], k)
  BY <1>1, <1>5 DEF LeftBy, Manager!Dirs
<1>6. ASSUME NEW k, k.stage = "idle" \/ k.epoch = ep, k.stage \notin {"write", "finish"},
             d.temp.writers = {}, k.stage = "publish" => d.temp.kind # "torn"
      PROVE  LeftBy(t, d, k)
  BY <1>1, <1>6 DEF LeftBy, PartialOf
<1>7. /\ Manager!NoFile \in Manager!Files
      /\ \A stage : PartialOf(t, stage, Manager!NoFile)
  BY <1>2, ManagerDirs DEF PartialOf
<1>8. Server!Closed(t, d.archive) = d.archive
      /\ \A kind \in {"torn", "foreign"} : /\ Server!Written(t, d.archive, kind) = d.archive
                                           /\ Server!Closed(t, Server!Written(t, d.archive, kind)) = d.archive
  BY <1>1, FileOps
<1> SUFFICES \E n, k : /\ dirs' = [dirs EXCEPT ![ep] = n] /\ tasks' = [tasks EXCEPT ![t] = k]
                       /\ LeftBy(t, n, k)
  BY <1>0
<1> HIDE DEF d
<1>10. CASE Server!MakeDir(t)
  <2>1. LeftBy(t, Manager!EmptyDir, At("checkTemp"))
    BY <1>2, <1>3, <1>7 DEF LeftBy
  <2>2. LeftBy(t, d, At("checkTemp"))
    BY <1>1, <1>3, <1>6, <1>10 DEF Server!MakeDir
  <2> QED
    BY <1>1, <1>2, <1>3, <1>10, <2>1, <2>2 DEF Server!MakeDir, d
<1>11. CASE Server!CheckTemp(t)
  <2>1. LeftBy(t, d, At("create")) /\ LeftBy(t, d, At("rmTemp"))
    BY <1>1, <1>3, <1>6, <1>11 DEF Server!CheckTemp
  <2> QED
    BY <1>1, <1>3, <1>11, <2>1 DEF Server!CheckTemp, d
<1>12. CASE Server!RmTemp(t)
  <2>1. /\ LeftBy(t, [d EXCEPT !.temp = Manager!NoFile], At("create"))
        /\ LeftBy(t, [d EXCEPT !.temp = Manager!NoFile], Server!NoRequest)
    BY <1>2, <1>3, <1>5, <1>7
  <2> QED
    BY <1>2, <1>3, <1>4, <1>12, <2>1 DEF Server!RmTemp, d
<1>13. CASE Server!Create(t)
  <2> DEFINE f == [Manager!NoFile EXCEPT !.kind = "empty", !.writers = @ \cup {t} \cup d.temp.writers,
                                         !.mixed = d.temp.writers # {}]
  <2>1. CASE d.present
    <3>1. d.temp.writers = {}
      BY <1>1, <1>13 DEF Server!Create
    <3>2. f \in Manager!Files /\ f.kind = "empty" /\ f.writers = {t} /\ f.mixed = FALSE
      BY <3>1 DEF Manager!NoFile, Manager!Files, Manager!Kinds
    <3>3. LeftBy(t, [d EXCEPT !.temp = f], At("write"))
      <4> HIDE DEF f, At
      <4>1. PartialOf(t, "write", f)
        BY <3>2 DEF PartialOf
      <4> QED
        BY <1>3, <1>5, <3>2, <4>1
    <3> QED
      BY <1>2, <1>3, <1>13, <2>1, <3>3 DEF Server!Create, d
  <2>2. CASE ~d.present
    <3>1. LeftBy(t, d, Server!NoRequest)
      BY <1>1, <1>2, <1>6, <1>13 DEF Server!Create
    <3> QED
      BY <1>1, <1>4, <1>13, <2>2, <3>1 DEF Server!Create, d
  <2> QED
    BY <2>1, <2>2
<1>14. CASE Server!Write(t)
  <2> DEFINE f == Server!Written(t, d.temp, "torn")
  <2>1. tasks[t].stage = "write" /\ tasks[t].body # "empty"
    BY <1>14 DEF Server!Write
  <2>2. f \in Manager!Files
    BY <1>1, FileOps
  <2>3. f = Manager!NoFile \/ (f.kind = "torn" /\ f.writers = {t} /\ f.mixed = FALSE)
    BY <1>1, <1>2, <2>1 DEF PartialOf, Server!Written, Manager!Files
  <2>4. LeftBy(t, [d EXCEPT !.temp = f, !.archive = d.archive], At("finish"))
    <3> HIDE DEF f, At
    <3>1. PartialOf(t, "finish", f)
      BY <2>3 DEF PartialOf
    <3>2. f.writers = {} \/ f.writers = {t}
      BY <1>2, <2>3
    <3>3. At("finish").stage = "finish" /\ At("finish").epoch = ep
      BY <1>3
    <3> QED
      BY <1>5, <2>2, <3>1, <3>2, <3>3
  <2> QED
    BY <1>3, <1>8, <1>14, <2>4 DEF Server!Write, d
<1>15. CASE Server!Finish(t)
  <2>1. PICK kind \in {"foreign", "torn"} :
          /\ kind = "torn" => \E f \in {d.temp, d.archive} : t \in f.writers /\ f.mixed
          /\ dirs' = [dirs EXCEPT ![ep] =
               [d EXCEPT !.temp    = Server!Closed(t, Server!Written(t, d.temp, kind)),
                         !.archive = Server!Closed(t, Server!Written(t, d.archive, kind))]]
    BY <1>15 DEF Server!Finish, d
  <2> DEFINE w == Server!Written(t, d.temp, kind)
             f == Server!Closed(t, w)
  <2>2. tasks[t].stage = (IF tasks[t].body = "empty" THEN "write" ELSE "finish")
    BY <1>15 DEF Server!Finish
  <2>3. d.temp = Manager!NoFile \/ (d.temp.writers = {t} /\ d.temp.mixed = FALSE)
    BY <1>1, <2>2 DEF PartialOf
  <2>4. kind = "foreign"
    BY <1>1, <1>2, <2>1, <2>3
  <2>5. w \in Manager!Files /\ w.writers \subseteq {t}
    BY <1>1, <1>2, <2>3, FileOps
  <2>6. w.kind # "torn"
    BY <1>1, <1>2, <2>2, <2>4 DEF PartialOf, Server!Written, Manager!Files
  <2>7. f \in Manager!Files /\ f.writers = {} /\ f.kind # "torn"
    <3> HIDE DEF w
    <3> QED
      BY <2>5, <2>6, FileOps
  <2>8. LeftBy(t, [d EXCEPT !.temp = f, !.archive = d.archive], At("publish"))
    <3> HIDE DEF f, At
    <3>1. PartialOf(t, "publish", f)
      BY <2>7 DEF PartialOf
    <3> QED
      BY <1>3, <1>5, <2>7, <3>1
  <2> QED
    BY <1>3, <1>8, <1>15, <2>1, <2>8 DEF Server!Finish
<1>16. CASE Server!WriteFails(t)
  <2>1. LeftBy(t, [d EXCEPT !.temp = Manager!NoFile, !.archive = d.archive], Server!NoRequest)
    BY <1>2, <1>5, <1>7
  <2> QED
    BY <1>2, <1>4, <1>8, <1>16, <2>1 DEF Server!WriteFails, d
<1>17. CASE Server!Publish(t)
  <2>1. d.temp.writers = {} /\ d.temp.kind # "torn"
    BY <1>1, <1>17 DEF Server!Publish, PartialOf
  <2>2. LeftBy(t, d, Server!NoRequest)
    BY <1>2, <1>6, <2>1
  <2>3. LeftBy(t, [d EXCEPT !.archive = d.temp, !.temp = Manager!NoFile], Server!NoRequest)
    BY <1>1, <1>2, <1>7, <2>1 DEF LeftBy, Manager!Dirs
  <2> QED
    BY <1>1, <1>2, <1>4, <1>17, <2>2, <2>3 DEF Server!Publish, d
<1> QED
  BY <1>10, <1>11, <1>12, <1>13, <1>14, <1>15, <1>16, <1>17 DEF Server!Handle

\* A handler's step, seen from all directories and downloads.
LEMMA HandledStep ==
  ASSUME SharedInv, DownloadInv, Apart, NEW t \in Tasks, Server!Handle(t)
  PROVE  DownloadInv'
<1> DEFINE ep == tasks[t].epoch
<1>1. /\ ep \in Epochs /\ DOMAIN dirs = Epochs /\ DOMAIN tasks = Tasks /\ Working(t)
      /\ \A u \in Tasks : tasks[u].epoch \in Epochs
      /\ \A e \in Epochs : dirs[e].temp.writers \in SUBSET Tasks
  <2>1. \A e \in Epochs : dirs[e].temp \in Manager!Files
    BY SharedTypes DEF SharedInv
  <2> QED
    BY <2>1, SharedTypes, HandlerKeeps, Names DEF SharedInv, Manager!Files
<1>2. PICK n, k : /\ dirs' = [dirs EXCEPT ![ep] = n] /\ tasks' = [tasks EXCEPT ![t] = k]
                  /\ LeftBy(t, n, k)
  BY HandlerKeeps
<1>3. /\ dirs'[ep] = n /\ \A e \in Epochs : e # ep => dirs'[e] = dirs[e]
      /\ tasks'[t] = k /\ \A u \in Tasks : u # t => tasks'[u] = tasks[u]
  BY <1>1, <1>2

\* Another download in this directory has not begun, or has ended.
<1>4. ASSUME NEW u \in Tasks, u # t, tasks[u].epoch = ep
      PROVE  tasks[u].stage \in {"idle", "fetch"}
  BY <1>1, <1>4 DEF Apart, Working
<1>5. DownloadsAreWhole'
  BY <1>2, <1>3, Names DEF DownloadInv, DownloadsAreWhole, LeftBy
<1>6. ASSUME NEW e \in Epochs, NEW u \in dirs'[e].temp.writers
      PROVE  tasks'[u].stage \in {"write", "finish"} /\ tasks'[u].epoch = e
  <2>1. CASE e = ep
    BY <1>2, <1>3, <1>6, <2>1 DEF LeftBy
  <2>2. CASE e # ep
    BY <1>1, <1>3, <1>6, <2>2 DEF DownloadInv
  <2> QED
    BY <2>1, <2>2
<1>7. ASSUME NEW u \in Tasks
      PROVE  PartialOf(u, tasks'[u].stage, dirs'[tasks'[u].epoch].temp)
  <2>1. CASE u = t
    <3>1. CASE k.stage = "idle"
      BY <1>3, <2>1, <3>1 DEF PartialOf
    <3>2. CASE k.epoch = ep
      BY <1>2, <1>3, <2>1, <3>2 DEF LeftBy
    <3> QED
      BY <1>2, <3>1, <3>2 DEF LeftBy
  <2>2. CASE u # t /\ tasks[u].epoch = ep
    BY <1>3, <1>4, <2>2 DEF PartialOf
  <2>3. CASE u # t /\ tasks[u].epoch # ep
    BY <1>1, <1>3, <2>3 DEF DownloadInv
  <2> QED
    BY <2>1, <2>2, <2>3
<1> QED
  BY <1>5, <1>6, <1>7, Names DEF DownloadInv, PartialOf

\* A partial file is one download's alone: the manager and the full disk only remove it.
LEMMA DownloadStep == SharedInv /\ DownloadInv /\ Apart /\ [Next]_vars => DownloadInv'
<1> SUFFICES ASSUME SharedInv, DownloadInv, Apart, [Next]_vars
             PROVE  DownloadInv'
  OBVIOUS
<1>1. /\ DOMAIN tasks = Tasks /\ \A u \in Tasks : tasks[u].epoch \in Epochs
      /\ \A e \in Epochs : dirs[e].temp.writers \in SUBSET Tasks
  <2>1. \A e \in Epochs : dirs[e].temp \in Manager!Files
    BY SharedTypes DEF SharedInv
  <2> QED
    BY <2>1, SharedTypes DEF SharedInv, Manager!Files
<1>2. CASE ManagerActs
  <2>1. UNCHANGED tasks
    BY <1>2 DEF ManagerActs, serverVars, downloadVars
  <2>2. ASSUME NEW e \in Epochs
        PROVE  /\ dirs'[e].archive.kind # "torn" /\ dirs'[e].archive.writers = {}
               /\ dirs'[e].temp \in {dirs[e].temp, Manager!NoFile}
    <3>1. /\ dirs'[e].archive \in {dirs[e].archive, Manager!NoFile} \/ Manager!Intact(dirs'[e])
          /\ dirs'[e].temp \in {dirs[e].temp, Manager!NoFile}
      BY <1>2, Names, Manager!OwnDirs, ConstantsAssumption
         DEF ManagerActs, SharedInv, Epochs, Manager!Epochs
    <3>2. Manager!Intact(dirs'[e]) => dirs'[e].archive.writers = {} /\ dirs'[e].archive.kind = "built"
      BY DEF Manager!Intact, Manager!CompleteArchive, Manager!BuiltFile
    <3> QED
      BY <3>1, <3>2 DEF DownloadInv, DownloadsAreWhole, Manager!NoFile
  <2>3. /\ Manager!NoFile.writers = {}
        /\ \A t, stage : PartialOf(t, stage, Manager!NoFile)
    BY DEF PartialOf, Manager!NoFile
  <2>4. DownloadsAreWhole'
    BY <2>2, Names DEF DownloadsAreWhole
  <2>5. \A e \in Epochs : \A t \in dirs'[e].temp.writers :
          tasks'[t].stage \in {"write", "finish"} /\ tasks'[t].epoch = e
    BY <2>1, <2>2, <2>3 DEF DownloadInv
  <2>6. \A t \in Tasks : PartialOf(t, tasks'[t].stage, dirs'[tasks'[t].epoch].temp)
    BY <1>1, <2>1, <2>2, <2>3 DEF DownloadInv
  <2> QED
    BY <2>4, <2>5, <2>6, Names DEF DownloadInv, PartialOf
<1>3. CASE Accept \/ FetchStep
  <2>1. /\ UNCHANGED dirs
        /\ \E t \in Tasks : \E k : /\ tasks' = [tasks EXCEPT ![t] = k]
                                   /\ tasks[t].stage \in {"idle", "fetch"}
                                   /\ k.stage \in {"idle", "fetch", "makeDir"}
    <3>1. CASE Accept
      <4>1. PICK t \in Tasks, e \in Epochs : Server!Request(t, e)
        BY <3>1 DEF Accept
      <4> DEFINE k == [Server!NoRequest EXCEPT !.stage = "fetch", !.epoch = e]
      <4>2. /\ UNCHANGED dirs /\ tasks' = [tasks EXCEPT ![t] = k] /\ tasks[t].stage = "idle"
            /\ k.stage = "fetch"
        BY <4>1 DEF Server!Request, Server!NoRequest, Server!At
      <4> HIDE DEF k
      <4> QED
        BY <4>2
    <3>2. CASE FetchStep
      <4>1. PICK t \in Tasks : Server!Fetched(t)
        BY <3>2 DEF FetchStep
      <4>2. ASSUME Server!FetchFails(t)
            PROVE  /\ UNCHANGED dirs /\ tasks[t].stage = "fetch"
                   /\ tasks' = [tasks EXCEPT ![t] = Server!NoRequest]
                   /\ Server!NoRequest.stage = "idle"
        BY <4>2 DEF Server!FetchFails, Server!Answer, Server!NoRequest, Server!At
      <4>3. ASSUME NEW b \in Server!Bodies, Server!FetchEnds(t, b)
            PROVE  /\ UNCHANGED dirs /\ tasks[t].stage = "fetch"
                   /\ tasks' = [tasks EXCEPT ![t] = [tasks[t] EXCEPT !.stage = "makeDir", !.body = b]]
                   /\ [tasks[t] EXCEPT !.stage = "makeDir", !.body = b].stage = "makeDir"
        BY <4>3 DEF Server!FetchEnds, Server!At, SharedInv, TypeOK, Server!ServerTypeOK
      <4> QED
        BY <4>1, <4>2, <4>3 DEF Server!Fetched
    <3> QED
      BY <1>3, <3>1, <3>2
  <2>b. PICK t \in Tasks : \E k : /\ tasks' = [tasks EXCEPT ![t] = k]
                                  /\ tasks[t].stage \in {"idle", "fetch"}
                                  /\ k.stage \in {"idle", "fetch", "makeDir"}
    BY <2>1
  <2>2. PICK k : /\ tasks' = [tasks EXCEPT ![t] = k]
                 /\ tasks[t].stage \in {"idle", "fetch"}
                 /\ k.stage \in {"idle", "fetch", "makeDir"}
    BY <2>b
  <2>3. tasks'[t] = k /\ \A u \in Tasks : u # t => tasks'[u] = tasks[u]
    BY <1>1, <2>2
  <2>4. \A e \in Epochs : \A u \in dirs[e].temp.writers : u # t
    BY <2>2 DEF DownloadInv
  <2>5. PartialOf(t, k.stage, dirs'[k.epoch].temp)
    BY <2>2 DEF PartialOf
  <2>6. \A e \in Epochs : \A u \in dirs'[e].temp.writers :
          tasks'[u].stage \in {"write", "finish"} /\ tasks'[u].epoch = e
    BY <1>1, <2>1, <2>3, <2>4 DEF DownloadInv
  <2>7. \A u \in Tasks : PartialOf(u, tasks'[u].stage, dirs'[tasks'[u].epoch].temp)
    BY <2>1, <2>3, <2>5 DEF DownloadInv
  <2>8. DownloadsAreWhole'
    BY <2>1 DEF DownloadInv, DownloadsAreWhole
  <2> QED
    BY <2>6, <2>7, <2>8, Names DEF DownloadInv, PartialOf
<1>4. CASE HandleStep
  BY <1>4, HandledStep DEF HandleStep
<1>5. CASE ReadStep \/ UNCHANGED vars
  <2>1. UNCHANGED <<dirs, tasks>>
    BY <1>5, Actors DEF vars, serverVars, downloadVars
  <2> QED
    BY <2>1 DEF DownloadInv, DownloadsAreWhole, PartialOf
<1>6. CASE Crash
  <2>1. \A e \in Epochs : /\ dirs'[e].archive.kind # "torn" /\ dirs'[e].archive.writers = {}
                          /\ dirs'[e].temp.writers = {}
    BY <1>6, CrashDirs DEF SharedInv, DownloadInv, DownloadsAreWhole
  <2>2. \A t \in Tasks : tasks'[t].stage = "idle"
    BY <1>6 DEF Crash, Server!ServerDies, Server!NoRequest
  <2> QED
    BY <2>1, <2>2, Names DEF DownloadInv, DownloadsAreWhole, PartialOf
<1> QED
  BY <1>2, <1>3, <1>4, <1>5, <1>6, Actors

\* What is opened is nobody's partial file, so no write reaches it any more.
LEMMA StreamStepInv == SharedInv /\ DownloadInv /\ StreamInv /\ [Next]_vars => StreamInv'
<1> SUFFICES ASSUME SharedInv, DownloadInv, StreamInv, [Next]_vars
             PROVE  StreamInv'
  OBVIOUS
<1> DEFINE Fine(g) == /\ g.file.writers = {}
                      /\ g.stage \in {"opened", "streaming"} => g.file.kind # "torn"
                      /\ g.stage = "streaming" => g.length = g.file
<1>1. /\ DOMAIN gets = Clients /\ \A c \in Clients : Fine(gets[c])
      /\ \A c \in Clients : gets[c].stage = "exists" => gets[c].epoch \in Epochs
  BY SharedTypes DEF StreamInv, SharedInv, AskedInv
<1>2. SUFFICES ASSUME NEW c \in Clients
               PROVE  Fine(gets'[c])
  BY DEF StreamInv
<1>3. \A e \in Epochs : dirs[e].archive.writers = {} /\ dirs[e].archive.kind # "torn"
  BY DEF DownloadInv, DownloadsAreWhole
<1>4. \A g : Fine(g) <=> /\ g.file.writers = {}
                         /\ g.stage \in {"opened", "streaming"} => g.file.kind # "torn"
                         /\ g.stage = "streaming" => g.length = g.file
  OBVIOUS
<1>5. Readers!NewSession.file.writers = {} /\ Fine(Readers!Ended)
  BY DEF Readers!Ended, Readers!NewSession, Readers!NoFile
<1>6. gets[c] \in [stage: Readers!Busy \cup Readers!Resting, left: SUBSET Readers!Epochs,
                   found: SUBSET Readers!Epochs, epoch: Readers!Epochs \cup {Readers!NoEpoch},
                   floor: Readers!Epochs \cup {Readers!NoEpoch},
                   file: Readers!Files, length: Readers!Files]
  BY DEF SharedInv, TypeOK, Readers!ReadersTypeOK
<1> HIDE DEF Fine
<1>7. CASE UNCHANGED gets
  BY <1>1, <1>7
<1>8. CASE HandleStep
  BY <1>1, <1>4, <1>8 DEF HandleStep, Readers!Rewritten
<1>9. CASE Crash
  BY <1>1, <1>5, <1>9 DEF Crash, Readers!ReadersDie
<1>10. CASE ReadStep
  <2>1. PICK b \in Clients : \/ Readers!AskLatest(b, mem.epoch) \/ Readers!Ask(b)
                            \/ Readers!Serve(b) \/ Readers!StreamEnds(b)
    BY <1>10 DEF ReadStep, AskStep, ServeStep, StreamStep
  <2>2. ASSUME NEW g, Fine(g), Readers!Session(b, g)
        PROVE  Fine(gets'[c])
    BY <1>1, <2>2 DEF Readers!Session
  <2>3. CASE gets'[c] = gets[c]
    BY <1>1, <2>3
  <2>4. CASE b # c
    <3>1. \E g : Readers!Session(b, g)
      BY <2>1 DEF Readers!AskLatest, Readers!Ask, Readers!Serve, Readers!CheckEntry,
         Readers!AnswerLatest, Readers!SendHeader, Readers!ReadArchive, Readers!GetManifest,
         Readers!OpenArchive, Readers!LookForArchive, Readers!NotFound, Readers!StreamEnds
    <3> QED
      BY <1>1, <2>3, <2>4, <3>1 DEF Readers!Session
  <2>5. CASE b = c /\ Readers!Ask(c)
    <3>1. PICK e \in Epochs : \/ Readers!GetManifest(c, e) \/ Readers!OpenArchive(c, e)
                             \/ Readers!LookForArchive(c, e)
      BY <2>5, Names DEF Readers!Ask
    <3>2. /\ Fine([Readers!NewSession EXCEPT !.stage = "missing", !.epoch = e])
          /\ Fine([Readers!NewSession EXCEPT !.stage = "uncertified", !.epoch = e])
          /\ Fine([Readers!NewSession EXCEPT !.stage = "certified", !.epoch = e])
      BY <1>4, <1>5 DEF Readers!NewSession
    <3>3. Fine([Readers!NewSession EXCEPT !.stage = "opened", !.epoch = e,
                                          !.file = dirs[e].archive])
      BY <1>3, <1>4 DEF Readers!NewSession
    <3>4. Fine([gets[c] EXCEPT !.stage = "exists", !.epoch = e])
      BY <1>1, <1>4, <1>6
    <3>5. CASE Readers!GetManifest(c, e)
      BY <1>5, <2>2, <2>5, <3>2, <3>5 DEF Readers!GetManifest, Readers!NotFound
    <3>6. CASE Readers!OpenArchive(c, e)
      BY <1>5, <2>2, <2>5, <3>2, <3>3, <3>6 DEF Readers!OpenArchive, Readers!NotFound
    <3>7. CASE Readers!LookForArchive(c, e)
      BY <1>5, <2>2, <2>5, <3>2, <3>4, <3>7 DEF Readers!LookForArchive, Readers!NotFound
    <3> QED
      BY <3>1, <3>5, <3>6, <3>7
  <2>6. CASE b = c /\ Readers!AskLatest(c, mem.epoch)
    <3>1. Fine([Readers!NewSession EXCEPT !.stage = "listing", !.floor = mem.epoch,
                  !.left = {e \in Readers!Epochs : dirs[e].present}])
      BY <1>4, <1>5 DEF Readers!NewSession
    <3> QED
      BY <2>2, <2>6, <3>1 DEF Readers!AskLatest
  <2>7. CASE b = c /\ Readers!CheckEntry(c)
    <3>1. PICK left, found :
            Readers!Session(c, [gets[c] EXCEPT !.left = left, !.found = found])
      BY <2>7 DEF Readers!CheckEntry
    <3>2. Fine([gets[c] EXCEPT !.left = left, !.found = found])
      BY <1>1, <1>4, <1>6
    <3> QED
      BY <2>2, <2>7, <3>1, <3>2
  <2>8. CASE b = c /\ Readers!AnswerLatest(c)
    <3>1. PICK e : Readers!Session(c, [Readers!NewSession EXCEPT !.stage = "listed", !.epoch = e,
                                                               !.floor = gets[c].floor])
      BY <2>8 DEF Readers!AnswerLatest
    <3>2. Fine([Readers!NewSession EXCEPT !.stage = "listed", !.epoch = e,
                                          !.floor = gets[c].floor])
      BY <1>4, <1>5 DEF Readers!NewSession
    <3> QED
      BY <2>2, <2>8, <3>1, <3>2
  <2>9. CASE b = c /\ Readers!SendHeader(c)
    <3>1. gets[c].stage = "opened"
      BY <2>9 DEF Readers!SendHeader, Readers!In
    <3>2. Fine([gets[c] EXCEPT !.stage = "streaming", !.length = gets[c].file])
      BY <1>1, <1>4, <1>6, <3>1
    <3> QED
      BY <2>2, <2>9, <3>2 DEF Readers!SendHeader
  <2>10. CASE b = c /\ Readers!ReadArchive(c)
    <3> DEFINE f == dirs[gets[c].epoch].archive
    <3>1. f.writers = {} /\ f.kind # "torn"
      BY <1>1, <1>3, <2>10 DEF Readers!ReadArchive, Readers!In
    <3>2. Fine([gets[c] EXCEPT !.stage = "missing"])
      BY <1>1, <1>4, <1>6
    <3>3. Fine([gets[c] EXCEPT !.stage = "streaming", !.file = f, !.length = f])
      <4> HIDE DEF f
      <4> QED
        BY <1>4, <1>6, <3>1
    <3> QED
      BY <2>2, <2>10, <3>2, <3>3 DEF Readers!ReadArchive
  <2>11. CASE b = c /\ Readers!StreamEnds(c)
    BY <1>5, <2>2, <2>11 DEF Readers!StreamEnds
  <2> QED
    BY <2>1, <2>4, <2>5, <2>6, <2>7, <2>8, <2>9, <2>10, <2>11 DEF Readers!Serve
<1> QED
  BY <1>7, <1>8, <1>9, <1>10, Actors
     DEF ManagerActs, Accept, FetchStep, vars, serverVars

LEMMA DownloadInit == Init => DownloadInv /\ StreamInv
<1> SUFFICES ASSUME Init
             PROVE  DownloadInv /\ StreamInv
  OBVIOUS
<1>1. \A e \in Epochs : /\ dirs[e].archive.kind = "none" /\ dirs[e].archive.writers = {}
                        /\ dirs[e].temp.writers = {}
  BY Names DEF Init, Manager!Init, Manager!AbsentDir, Manager!NoFile
<1>2. \A t \in Tasks : tasks[t].stage = "idle"
  BY DEF Init, Server!ServerInit, Server!NoRequest
<1>3. \A c \in Clients : gets[c].file.writers = {} /\ gets[c].stage = "idle"
  BY DEF Init, Readers!ReadersInit, Readers!NewSession, Readers!NoFile
<1> QED
  BY <1>1, <1>2, <1>3 DEF DownloadInv, DownloadsAreWhole, PartialOf, StreamInv

\* However the downloads, the manager, the clients and crashes interleave: as long as no
\* two downloads work in the directory of one epoch, the invariant of both holds.
THEOREM ApartInvariance == Spec /\ []Apart => [](SharedInv /\ DownloadInv /\ StreamInv)
BY SharedInit, DownloadInit, SharedStep, DownloadStep, StreamStepInv, PTL DEF Spec

\* A deployment with one request at a time, as a run checks it, is a special case.
LEMMA OneAtATime == (\A t, u \in Tasks : t = u) => Apart
BY DEF Apart

\* Downloads that do not overlap publish the whole body or nothing, whatever the manager
\* removes or publishes in the same directory, after a crash, a full disk or a failure.
THEOREM DownloadsPublishWhole == Spec /\ []Apart => []DownloadsAreWhole
<1>1. DownloadInv => DownloadsAreWhole
  BY DEF DownloadInv
<1> QED
  BY <1>1, ApartInvariance, PTL

\* Under the same condition a client is sent one whole archive, of the length that the
\* header said, also when that archive is evicted or replaced meanwhile.
THEOREM StreamsAreWhole == Spec /\ []Apart => []StreamIsWhole
<1>1. StreamInv => StreamIsWhole
  BY DEF StreamInv, StreamIsWhole, Readers!In
<1> QED
  BY <1>1, ApartInvariance, PTL
=============================================================================
