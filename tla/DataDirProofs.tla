--------------------------- MODULE DataDirProofs ---------------------------
(***************************************************************************)
(* What DataDir guarantees for any number of processes, requests, blobs    *)
(* and workspaces, with and without failing file operations.               *)
(***************************************************************************)
EXTENDS DataDir, FiniteSetTheorems, TLAPS

(***************************************************************************)
(* The invariant has two halves.  Control: where an actor is determines    *)
(* who holds the lock and what its locals are.  Data: what the trees, the  *)
(* pool and the stage have to do with each other, at each of these places. *)
(***************************************************************************)

\* Exactly the calls in their locked part hold the lock.
LockInv == \A a \in Actor : pc[a] \in Locked <=> lock = a

\* The locals of a call belong to the place where it is.
CallInv(a) ==
    /\ pc[a] \in {"idle", "up", "down"} => job[a] = NoJob
    /\ pc[a] \in {"upload", "rename"} =>
          job[a].user \in User /\ job[a].arg \in Uploads
    /\ pc[a] \in {"stage", "prepare", "install"} \/ job[a].ret = "stage" =>
          job[a].user \in User /\ job[a].arg \in Archives
    /\ pc[a] = "replace" \/ job[a].ret = "replace" =>
          job[a].user \in User /\ job[a].arg \in Legacy
    /\ job[a].ret # "idle" => pc[a] \in Recovery
    /\ job[a].new # {} => pc[a] = "prepare"
    /\ pc[a] \in {"rename", "unlink"} => job[a].cur \in Blob
    /\ IF a \in Proc THEN pc[a] \in Recovery => job[a].ret = "up"
                     ELSE job[a].ret # "up"

Control == TypeOK /\ LockInv /\ \A a \in Actor : CallInv(a)

\* The staging directory: what is outside of it, and which files it shares.
StageInv ==
    /\ ~stageDir => copies = {} /\ journal = None
    /\ linked \subseteq copies \cap Content

\* A sweep holds a list of old files nobody references, and an upload writes no
\* old file.
SweepInv ==
    \A r \in Req :
        /\ pc[r] = "sweep" => /\ job[r].todo \cap Referenced = {}
                              /\ \A b \in job[r].todo : file[b] = "old"
        /\ \A b \in job[r].wrote : file[b] # "old"
        /\ pc[r] = "rename" => file[job[r].cur] # "old"

\* A rollback holds a list of blobs nobody references.
UndoInv ==
    \A a \in Actor :
        /\ pc[a] \in {"undo", "unlink"} => job[a].todo \cap Referenced = {}
        /\ pc[a] = "unlink" => job[a].cur \in job[a].todo

\* How far a restore has come.
PlanInv(r) ==
    /\ pc[r] = "stage" =>
          /\ journal = None
          /\ stageDir => job[r].arg \subseteq copies \cup job[r].todo
    /\ pc[r] = "prepare" =>
          /\ journal = None /\ stageDir
          /\ job[r].arg \subseteq copies
          /\ job[r].todo \cup job[r].new \subseteq job[r].arg
          /\ job[r].arg \subseteq Content \cup job[r].todo \cup job[r].new
    /\ pc[r] = "install" =>
          /\ journal # None /\ stageDir
          /\ job[r].todo \subseteq job[r].arg
          /\ job[r].arg \subseteq copies
          /\ job[r].arg \subseteq Content \cup job[r].todo
          /\ job[r].arg \subseteq Content \cup journal.new

Data ==
    /\ StageInv
    /\ JournalCoversInstalled
    /\ SweepInv
    /\ UndoInv
    /\ \A r \in Req : PlanInv(r)

IInv == Control /\ Data

\* A restore that was not committed can be undone from its journal at every
\* moment, ...
ResidueOf(a) ==
    /\ pc[a] = "clean" => installed \subseteq Referenced
    /\ pc[a] \in {"undo", "unlink"} =>
          installed \cap linked \subseteq Referenced \cup job[a].todo
    /\ pc[a] \in {"stage", "prepare"} => installed = {}
    /\ pc[a] = "prepare" => job[a].new \subseteq job[a].arg
    /\ pc[a] = "install" => journal # None /\ journal.hash = job[a].arg
    /\ pc[a] = "replace" => ~stageDir

Undoable ==
    /\ \A a \in Actor : ResidueOf(a)
    /\ ~stageDir => installed = {}
    /\ installed \subseteq linked \cup Referenced
    /\ journal = None => installed \subseteq Referenced
    /\ journal # None => installed \subseteq journal.new /\ journal.new \subseteq journal.hash

\* ... unless its rollback has failed.
Residue == abandoned \/ Undoable

\* The lock protocol and the types hold when every process is down.
THEOREM ControlInit == Init => Control
<1> SUFFICES ASSUME Init PROVE Control
  OBVIOUS
<1> USE ActorAssumption DEF Init, Actor
<1>1. \A a \in Actor : job[a] = NoJob /\ pc[a] \in {"idle", "down"}
  OBVIOUS
<1>2. NoJob \in Job
  BY DEF NoJob, Job, Return
<1>3. TypeOK
  BY <1>1, <1>2 DEF TypeOK, ReqPC, ProcPC, Locked, Recovery, Journal
<1>4. LockInv
  BY <1>1 DEF LockInv, Locked, Recovery
<1>5. \A a \in Actor : CallInv(a)
  BY <1>1 DEF CallInv, NoJob, Recovery
<1> QED
  BY <1>3, <1>4, <1>5 DEF Control

\* What TypeOK says of the calls.
CallTypes ==
    /\ job \in [Actor -> Job]
    /\ pc \in [Actor -> ReqPC \cup ProcPC]
    /\ \A r \in Req : pc[r] \in ReqPC
    /\ \A p \in Proc : pc[p] \in ProcPC

\* What TypeOK says of the data directory.
DiskTypes ==
    /\ tree \in [User -> SUBSET Blob]
    /\ file \in [Blob -> {"absent", "fresh", "old"}]
    /\ linked \subseteq Blob
    /\ stageDir \in BOOLEAN
    /\ copies \subseteq Blob
    /\ journal \in Journal \cup {None}
    /\ installed \subseteq Blob
    /\ abandoned \in BOOLEAN

\* The type invariant in two halves: the files on disk, and the running calls.
LEMMA TypeSplit == TypeOK <=> DiskTypes /\ CallTypes /\ lock \in Actor \cup {None}
  BY DEF TypeOK, DiskTypes, CallTypes

\* What a step of actor a leaves alone: the other calls, and a lock others hold.
Moves(a) ==
    /\ \A c \in Actor \ {a} : pc'[c] = pc[c] /\ job'[c] = job[c]
    /\ lock' = lock \/ {lock, lock'} \subseteq {a, None}
    /\ pc'[a] \in Locked <=> lock' = a

\* A step of one actor that enters or leaves the critical sections exactly as it
\* takes or gives up the store lock (Store.lock, Store.unlock), and keeps its own
\* locals in order, preserves the lock protocol.
LEMMA ControlFrame ==
    ASSUME Control, NEW a \in Actor, DiskTypes', CallTypes', Moves(a), CallInv(a)'
    PROVE  Control'
<1>1. TypeOK'
  BY TypeSplit DEF Control, Moves, TypeOK, DiskTypes, CallTypes
<1>2. LockInv'
  BY ActorAssumption DEF Control, TypeOK, LockInv, Moves, Actor
<1>3. ASSUME NEW c \in Actor, c # a PROVE CallInv(c)'
  <2>1. pc'[c] = pc[c] /\ job'[c] = job[c] /\ CallInv(c)
    BY <1>3 DEF Control, Moves
  <2> QED
    BY <2>1 DEF CallInv
<1> QED
  BY <1>1, <1>2, <1>3 DEF Control

\* The locals of an actor that runs no call are well typed.
LEMMA NoJobType == NoJob \in Job
  BY DEF NoJob, Job, Return

\* Entering a rollback (rollbackRestoreErrorLocked) keeps the locals well typed.
LEMMA UndoneType ==
    ASSUME NEW j \in Job
    PROVE  [j EXCEPT !.todo = {}, !.ret = "undone"] \in Job
  BY Zenon DEF Job, Return

\* A call that returns (Store.unlock included) leaves its actor idle and in order.
LEMMA LeaveCall ==
    ASSUME Control, NEW a \in Actor, Leave(a)
    PROVE  /\ CallTypes'
           /\ CallInv(a)'
           /\ pc'[a] \in {"idle", "down"} /\ job'[a] = NoJob
<1>1. pc'[a] = (IF a \in Proc THEN "down" ELSE "idle") /\ job'[a] = NoJob
  BY DEF Control, TypeOK, Leave, Goto
<1>2. CallTypes'
  BY NoJobType, ActorAssumption
     DEF Control, TypeOK, CallTypes, Leave, Goto, Actor, ReqPC, ProcPC
<1>3. CallInv(a)'
  BY <1>1 DEF CallInv, NoJob, Recovery
<1> QED
  BY <1>1, <1>2, <1>3

\* A recovery or cleanup that is done goes back to a caller that holds the lock,
\* or gives the lock up (recoverRestoreStagesLocked, cleanupRestoreStage).
LEMMA ResumeCall ==
    ASSUME Control, NEW a \in Actor, pc[a] \in Recovery, Resume(a)
    PROVE  CallTypes' /\ CallInv(a)' /\ Moves(a) /\ lock' \in {lock, None}
<1> USE ActorAssumption DEF Actor
<1>0. /\ job \in [Actor -> Job] /\ job[a] \in Job
      /\ pc \in [Actor -> ReqPC \cup ProcPC]
      /\ CallInv(a) /\ lock = a
  BY DEF Control, TypeOK, LockInv, Locked
<1>1. CASE job[a].ret = "up" /\ Goto(a, "up") /\ job' = [job EXCEPT ![a] = NoJob] /\ lock' = None
  <2>1. a \in Proc /\ pc'[a] = "up" /\ job'[a] = NoJob
    BY <1>0, <1>1 DEF CallInv, Goto
  <2>2. CallTypes'
    BY <1>1, <2>1, NoJobType DEF Control, TypeOK, CallTypes, Goto, ProcPC
  <2>3. CallInv(a)'
    BY <2>1 DEF CallInv, NoJob, Recovery
  <2> QED
    BY <1>0, <1>1, <2>1, <2>2, <2>3 DEF Moves, Goto, Locked, Recovery
<1>2. CASE /\ job[a].ret \in {"stage", "replace"} /\ Goto(a, job[a].ret)
           /\ job' = [job EXCEPT ![a].ret = "idle"] /\ UNCHANGED lock
  <2>1. /\ a \in Req \ Proc /\ pc'[a] = job[a].ret
        /\ job'[a] = [job[a] EXCEPT !.ret = "idle"]
    BY <1>0, <1>2 DEF CallInv, Goto
  <2>2. job'[a] \in Job
    BY <1>0, <2>1 DEF Job, Return
  <2>3. CallTypes'
    BY <1>2, <2>1, <2>2 DEF Control, TypeOK, CallTypes, Goto, ReqPC, Locked
  <2>4. CallInv(a)'
    BY <1>0, <1>2, <2>1 DEF CallInv, Job, NoJob, Recovery
  <2> QED
    BY <1>0, <1>2, <2>1, <2>3, <2>4 DEF Moves, Goto, Locked, Recovery
<1>3. CASE job[a].ret \in {"undone", "idle"} /\ Leave(a) /\ lock' = None
  <2> QED
    BY <1>0, <1>3, LeaveCall DEF Moves, Leave, Goto, Locked, Recovery
<1> QED
  BY <1>1, <1>2, <1>3 DEF Resume

\* Every step keeps the types, the lock protocol and the locals of every call:
\* whoever is in a critical section of the store holds its lock.
THEOREM ControlStep == Control /\ [Next]_vars => Control'
<1> SUFFICES ASSUME Control, [Next]_vars PROVE Control'
  OBVIOUS
<1> USE ActorAssumption, DataAssumption
        DEF Actor, disk, Goto, Content, ReqPC, ProcPC, Locked, Recovery, Return
<1>0. /\ job \in [Actor -> Job] /\ pc \in [Actor -> ReqPC \cup ProcPC]
      /\ CallTypes /\ DiskTypes
      /\ \A a \in Actor : job[a] \in Job /\ CallInv(a) /\ (pc[a] \in Locked <=> lock = a)
  BY TypeSplit DEF Control, CallTypes, LockInv
<1>1. ASSUME NEW r \in Req, NEW u \in User, NEW S \in Uploads, UploadBegin(r, u, S) PROVE Control'
  <2>1. DiskTypes'
    BY <1>0, <1>1 DEF DiskTypes, UploadBegin
  <2>2. CallTypes'
    <3>1. [NoJob EXCEPT !.user = u, !.arg = S, !.todo = S] \in Job
      BY NoJobType DEF Job
    <3> QED
      BY <1>0, <1>1, <3>1 DEF CallTypes, UploadBegin, Arrives
  <2>3. Moves(r)
    BY <1>0, <1>1 DEF Moves, UploadBegin, Arrives
  <2>4. CallInv(r)'
    BY <1>0, <1>1, SMTT(20) DEF CallInv, Job, NoJob, UploadBegin, Arrives
  <2> QED
    BY <2>1, <2>2, <2>3, <2>4, ControlFrame
<1>2. ASSUME NEW r \in Req, NEW b \in Blob, StatBlob(r, b) PROVE Control'
  <2>1. DiskTypes'
    BY <1>0, <1>2 DEF DiskTypes, StatBlob
  <2>2. CallTypes'
    BY <1>0, <1>2, SMTT(20) DEF CallTypes, Job, StatBlob
  <2>3. Moves(r)
    BY <1>0, <1>2 DEF Moves, StatBlob
  <2>4. CallInv(r)'
    BY <1>0, <1>2, SMTT(20) DEF CallInv, Job, NoJob, StatBlob
  <2> QED
    BY <2>1, <2>2, <2>3, <2>4, ControlFrame
<1>3. ASSUME NEW r \in Req, RenameBlob(r) PROVE Control'
  <2>1. DiskTypes'
    BY <1>0, <1>3 DEF DiskTypes, RenameBlob
  <2>2. CallTypes'
    BY <1>0, <1>3, SMTT(20) DEF CallTypes, Job, RenameBlob
  <2>3. Moves(r)
    BY <1>0, <1>3 DEF Moves, RenameBlob
  <2>4. CallInv(r)'
    BY <1>0, <1>3, SMTT(20) DEF CallInv, Job, NoJob, RenameBlob
  <2> QED
    BY <2>1, <2>2, <2>3, <2>4, ControlFrame
<1>4. ASSUME NEW r \in Req, Land(r) PROVE Control'
  <2>1. DiskTypes'
    BY <1>0, <1>4 DEF DiskTypes, Job, Land
  <2>2. CallTypes' /\ CallInv(r)' /\ pc'[r] \in {"idle", "down"}
    BY <1>4, LeaveCall DEF Land
  <2>3. Moves(r)
    BY <1>0, <1>4, <2>2 DEF Moves, Leave, Land
  <2> QED
    BY <2>1, <2>2, <2>3, ControlFrame
<1>5. ASSUME NEW r \in Req, UploadFail(r) PROVE Control'
  <2>1. DiskTypes'
    BY <1>0, <1>5 DEF DiskTypes, UploadFail
  <2>2. CallTypes' /\ CallInv(r)' /\ pc'[r] \in {"idle", "down"}
    BY <1>5, LeaveCall DEF UploadFail
  <2>3. Moves(r)
    BY <1>0, <1>5, <2>2 DEF Moves, Leave, UploadFail
  <2> QED
    BY <2>1, <2>2, <2>3, ControlFrame
<1>6. ASSUME NEW r \in Req, SweepBegin(r) PROVE Control'
  <2>1. DiskTypes'
    BY <1>0, <1>6 DEF DiskTypes, SweepBegin
  <2>2. CallTypes'
    BY <1>0, <1>6, SMTT(20) DEF CallTypes, Job, NoJob, SweepBegin, Arrives, Garbage
  <2>3. Moves(r)
    BY <1>0, <1>6 DEF Moves, SweepBegin, Arrives, Garbage
  <2>4. CallInv(r)'
    BY <1>0, <1>6, SMTT(20) DEF CallInv, Job, NoJob, SweepBegin, Arrives, Garbage
  <2> QED
    BY <2>1, <2>2, <2>3, <2>4, ControlFrame
<1>7. ASSUME NEW r \in Req, NEW u \in User, NEW S \in Archives, RestoreBegin(r, u, S) PROVE Control'
  <2>1. DiskTypes'
    BY <1>0, <1>7 DEF DiskTypes, RestoreBegin
  <2>2. CallTypes'
    <3>1. [NoJob EXCEPT !.user = u, !.arg = S, !.ret = "stage"] \in Job
      BY NoJobType DEF Job
    <3> QED
      BY <1>0, <1>7, <3>1 DEF CallTypes, RestoreBegin, Arrives
  <2>3. Moves(r)
    BY <1>0, <1>7 DEF Moves, RestoreBegin, Arrives
  <2>4. CallInv(r)'
    BY <1>0, <1>7, SMTT(20) DEF CallInv, Job, NoJob, RestoreBegin, Arrives
  <2> QED
    BY <2>1, <2>2, <2>3, <2>4, ControlFrame
<1>8. ASSUME NEW r \in Req, NEW u \in User, NEW S \in Legacy, LegacyBegin(r, u, S) PROVE Control'
  <2>1. DiskTypes'
    BY <1>0, <1>8 DEF DiskTypes, LegacyBegin
  <2>2. CallTypes'
    <3>1. [NoJob EXCEPT !.user = u, !.arg = S, !.ret = "replace"] \in Job
      BY NoJobType DEF Job
    <3> QED
      BY <1>0, <1>8, <3>1 DEF CallTypes, LegacyBegin, Arrives
  <2>3. Moves(r)
    BY <1>0, <1>8 DEF Moves, LegacyBegin, Arrives
  <2>4. CallInv(r)'
    BY <1>0, <1>8, SMTT(20) DEF CallInv, Job, NoJob, LegacyBegin, Arrives
  <2> QED
    BY <2>1, <2>2, <2>3, <2>4, ControlFrame
<1>9. ASSUME NEW r \in Req, NEW b \in Blob, SweepRemove(r, b) PROVE Control'
  <2>1. DiskTypes'
    BY <1>0, <1>9 DEF DiskTypes, Remove, SweepRemove
  <2>2. CallTypes'
    BY <1>0, <1>9, SMTT(20) DEF CallTypes, Job, SweepRemove, Remove
  <2>3. Moves(r)
    BY <1>0, <1>9 DEF Moves, SweepRemove, Remove
  <2>4. CallInv(r)'
    BY <1>0, <1>9, SMTT(20) DEF CallInv, Job, NoJob, SweepRemove, Remove
  <2> QED
    BY <2>1, <2>2, <2>3, <2>4, ControlFrame
<1>10. ASSUME NEW r \in Req, SweepEnd(r) PROVE Control'
  <2>1. DiskTypes'
    BY <1>0, <1>10 DEF DiskTypes, SweepEnd
  <2>2. CallTypes' /\ CallInv(r)' /\ pc'[r] \in {"idle", "down"}
    BY <1>10, LeaveCall DEF SweepEnd
  <2>3. Moves(r)
    BY <1>0, <1>10, <2>2 DEF Moves, Leave, SweepEnd
  <2> QED
    BY <2>1, <2>2, <2>3, ControlFrame
<1>11. ASSUME NEW r \in Req, StageOpen(r) PROVE Control'
  <2>1. DiskTypes'
    BY <1>0, <1>11 DEF DiskTypes, StageOpen
  <2>2. CallTypes'
    BY <1>0, <1>11, SMTT(20) DEF CallTypes, Job, StageOpen
  <2>3. Moves(r)
    BY <1>0, <1>11 DEF Moves, StageOpen
  <2>4. CallInv(r)'
    BY <1>0, <1>11, SMTT(20) DEF CallInv, Job, NoJob, StageOpen
  <2> QED
    BY <2>1, <2>2, <2>3, <2>4, ControlFrame
<1>12. ASSUME NEW r \in Req, NEW b \in Blob, StageCopy(r, b) PROVE Control'
  <2>1. DiskTypes'
    BY <1>0, <1>12 DEF DiskTypes, StageCopy
  <2>2. CallTypes'
    BY <1>0, <1>12, SMTT(20) DEF CallTypes, Job, StageCopy
  <2>3. Moves(r)
    BY <1>0, <1>12 DEF Moves, StageCopy
  <2>4. CallInv(r)'
    BY <1>0, <1>12, SMTT(20) DEF CallInv, Job, NoJob, StageCopy
  <2> QED
    BY <2>1, <2>2, <2>3, <2>4, ControlFrame
<1>13. ASSUME NEW r \in Req, StageDone(r) PROVE Control'
  <2>1. DiskTypes'
    BY <1>0, <1>13 DEF DiskTypes, StageDone
  <2>2. CallTypes'
    <3>1. job' \in [Actor -> Job]
      BY <1>0, <1>13, SMTT(20) DEF Job, StageDone
    <3> QED
      BY <1>0, <1>13, <3>1 DEF CallTypes, StageDone
  <2>3. Moves(r)
    BY <1>0, <1>13 DEF Moves, StageDone
  <2>4. CallInv(r)'
    BY <1>0, <1>13, SMTT(20) DEF CallInv, Job, NoJob, StageDone
  <2> QED
    BY <2>1, <2>2, <2>3, <2>4, ControlFrame
<1>14. ASSUME NEW r \in Req, StageReject(r) PROVE Control'
  <2>1. DiskTypes'
    BY <1>0, <1>14 DEF DiskTypes, StageReject
  <2>2. CASE Leave(r) /\ lock' = None
    <3>1. CallTypes' /\ CallInv(r)' /\ pc'[r] \in {"idle", "down"}
      BY <2>2, LeaveCall
    <3>2. Moves(r)
      BY <1>0, <1>14, <2>2, <3>1 DEF Moves, Leave, StageReject
    <3> QED
      BY <2>1, <3>1, <3>2, ControlFrame
  <2>3. CASE ~(Leave(r) /\ lock' = None)
    <3>1. CallTypes'
      BY <1>0, <1>14, <2>3, SMTT(20) DEF CallTypes, Job, StageReject
    <3>2. Moves(r)
      BY <1>0, <1>14, <2>3 DEF Moves, StageReject
    <3>3. CallInv(r)'
      BY <1>0, <1>14, <2>3, SMTT(20) DEF CallInv, Job, NoJob, StageReject
    <3> QED
      BY <2>1, <3>1, <3>2, <3>3, ControlFrame
  <2> QED
    BY <2>2, <2>3
<1>15. ASSUME NEW r \in Req, NEW b \in Blob, PrepareStat(r, b) PROVE Control'
  <2>1. DiskTypes'
    BY <1>0, <1>15 DEF DiskTypes, PrepareStat
  <2>2. CallTypes'
    <3>1. pc' = pc
      BY <1>15 DEF PrepareStat
    <3>2. \/ job' = [job EXCEPT ![r].todo = @ \ {b}]
          \/ job' = [job EXCEPT ![r].todo = @ \ {b}, ![r].new = @ \cup {b}]
      BY <1>15 DEF PrepareStat
    <3>3. job' \in [Actor -> Job]
      BY <1>0, <1>15, <3>2 DEF CallTypes, Job
    <3> QED
      BY <1>0, <3>1, <3>3 DEF CallTypes
  <2>3. Moves(r)
    BY <1>0, <1>15 DEF Moves, PrepareStat
  <2>4. CallInv(r)'
    BY <1>0, <1>15, SMTT(20) DEF CallInv, Job, NoJob, PrepareStat
  <2> QED
    BY <2>1, <2>2, <2>3, <2>4, ControlFrame
<1>16. ASSUME NEW r \in Req, WriteJournal(r) PROVE Control'
  <2>1. DiskTypes'
    BY <1>0, <1>16 DEF DiskTypes, CallInv, Job, Journal, WriteJournal
  <2>2. CallTypes'
    BY <1>0, <1>16, SMTT(20) DEF CallTypes, Job, WriteJournal
  <2>3. Moves(r)
    BY <1>0, <1>16 DEF Moves, WriteJournal
  <2>4. CallInv(r)'
    BY <1>0, <1>16, SMTT(20) DEF CallInv, Job, NoJob, WriteJournal
  <2> QED
    BY <2>1, <2>2, <2>3, <2>4, ControlFrame
<1>17. ASSUME NEW r \in Req, NEW b \in Blob, InstallBlob(r, b) PROVE Control'
  <2>1. DiskTypes'
    BY <1>0, <1>17 DEF DiskTypes, InstallBlob
  <2>2. CallTypes'
    BY <1>0, <1>17, SMTT(20) DEF CallTypes, Job, InstallBlob
  <2>3. Moves(r)
    BY <1>0, <1>17 DEF Moves, InstallBlob
  <2>4. CallInv(r)'
    BY <1>0, <1>17, SMTT(20) DEF CallInv, Job, NoJob, InstallBlob
  <2> QED
    BY <2>1, <2>2, <2>3, <2>4, ControlFrame
<1>18. ASSUME NEW r \in Req, InstallFail(r) PROVE Control'
  <2>1. DiskTypes'
    BY <1>0, <1>18 DEF DiskTypes, InstallFail
  <2>2. CallTypes'
    <3>1. job' \in [Actor -> Job]
      <4>1. [job[r] EXCEPT !.todo = {}, !.ret = "undone"] \in Job
        BY <1>0, <1>18, UndoneType
      <4> QED
        BY <1>0, <1>18, <4>1 DEF InstallFail
    <3> QED
      BY <1>0, <1>18, <3>1 DEF CallTypes, InstallFail
  <2>3. Moves(r)
    BY <1>0, <1>18 DEF Moves, InstallFail
  <2>4. CallInv(r)'
    BY <1>0, <1>18, SMTT(20) DEF CallInv, Job, NoJob, InstallFail
  <2> QED
    BY <2>1, <2>2, <2>3, <2>4, ControlFrame
<1>19. ASSUME NEW r \in Req, Commit(r) PROVE Control'
  <2>1. DiskTypes'
    BY <1>0, <1>19 DEF DiskTypes, Job, Commit
  <2>2. CASE Leave(r) /\ lock' = None
    <3>1. CallTypes' /\ CallInv(r)' /\ pc'[r] \in {"idle", "down"}
      BY <2>2, LeaveCall
    <3>2. Moves(r)
      BY <1>0, <1>19, <2>2, <3>1 DEF Moves, Leave, Commit
    <3> QED
      BY <2>1, <3>1, <3>2, ControlFrame
  <2>3. CASE ~(Leave(r) /\ lock' = None)
    <3>1. CallTypes'
      BY <1>0, <1>19, <2>3, SMTT(20) DEF CallTypes, Job, Commit
    <3>2. Moves(r)
      BY <1>0, <1>19, <2>3 DEF Moves, Commit
    <3>3. CallInv(r)'
      BY <1>0, <1>19, <2>3, SMTT(20) DEF CallInv, Job, NoJob, Commit
    <3> QED
      BY <2>1, <3>1, <3>2, <3>3, ControlFrame
  <2> QED
    BY <2>2, <2>3
<1>20. ASSUME NEW r \in Req, LegacyReplace(r) PROVE Control'
  <2>1. DiskTypes'
    BY <1>0, <1>20 DEF DiskTypes, Job, LegacyReplace
  <2>2. CallTypes' /\ CallInv(r)' /\ pc'[r] \in {"idle", "down"}
    BY <1>20, LeaveCall DEF LegacyReplace
  <2>3. Moves(r)
    BY <1>0, <1>20, <2>2 DEF Moves, Leave, LegacyReplace
  <2> QED
    BY <2>1, <2>2, <2>3, ControlFrame
<1>21. ASSUME NEW p \in Proc, Boot(p) PROVE Control'
  <2>1. DiskTypes'
    BY <1>0, <1>21 DEF DiskTypes, Boot
  <2>2. CallTypes'
    BY <1>0, <1>21, SMTT(20) DEF CallTypes, Job, Boot
  <2>3. Moves(p)
    BY <1>0, <1>21 DEF Moves, Boot
  <2>4. CallInv(p)'
    BY <1>0, <1>21, SMTT(20) DEF CallInv, Job, NoJob, Boot
  <2> QED
    BY <2>1, <2>2, <2>3, <2>4, ControlFrame
<1>22. ASSUME NEW a \in Actor, RecoverNothing(a) PROVE Control'
  <2>1. DiskTypes'
    BY <1>0, <1>22 DEF DiskTypes, RecoverNothing
  <2>2. CallTypes' /\ CallInv(a)' /\ Moves(a)
    BY <1>22, ResumeCall DEF RecoverNothing
  <2> QED
    BY <2>1, <2>2, ControlFrame
<1>23. ASSUME NEW a \in Actor, RecoverDone(a) PROVE Control'
  <2>1. DiskTypes'
    BY <1>0, <1>23 DEF DiskTypes, RecoverDone
  <2>2. CallTypes'
    BY <1>0, <1>23, SMTT(20) DEF CallTypes, Job, RecoverDone
  <2>3. Moves(a)
    BY <1>0, <1>23 DEF Moves, RecoverDone
  <2>4. CallInv(a)'
    BY <1>0, <1>23, SMTT(20) DEF CallInv, Job, NoJob, RecoverDone
  <2> QED
    BY <2>1, <2>2, <2>3, <2>4, ControlFrame
<1>24. ASSUME NEW a \in Actor, RecoverRollback(a) PROVE Control'
  <2>1. DiskTypes'
    BY <1>0, <1>24 DEF DiskTypes, RecoverRollback
  <2>2. CallTypes'
    <3>1. job' \in [Actor -> Job]
      BY <1>0, <1>24, SMTT(20) DEF Job, Journal, DiskTypes, RecoverRollback
    <3> QED
      BY <1>0, <1>24, <3>1 DEF CallTypes, RecoverRollback
  <2>3. Moves(a)
    BY <1>0, <1>24 DEF Moves, RecoverRollback
  <2>4. CallInv(a)'
    BY <1>0, <1>24, SMTT(20) DEF CallInv, Job, NoJob, RecoverRollback
  <2> QED
    BY <2>1, <2>2, <2>3, <2>4, ControlFrame
<1>25. ASSUME NEW a \in Actor, NEW b \in Blob, UndoCheck(a, b) PROVE Control'
  <2>1. DiskTypes'
    BY <1>0, <1>25 DEF DiskTypes, UndoCheck
  <2>2. CallTypes'
    BY <1>0, <1>25, SMTT(20) DEF CallTypes, Job, UndoCheck
  <2>3. Moves(a)
    BY <1>0, <1>25 DEF Moves, UndoCheck
  <2>4. CallInv(a)'
    BY <1>0, <1>25, SMTT(20) DEF CallInv, Job, NoJob, UndoCheck
  <2> QED
    BY <2>1, <2>2, <2>3, <2>4, ControlFrame
<1>26. ASSUME NEW a \in Actor, UndoUnlink(a) PROVE Control'
  <2>1. DiskTypes'
    BY <1>0, <1>26 DEF DiskTypes, Remove, UndoUnlink
  <2>2. CallTypes'
    BY <1>0, <1>26, SMTT(20) DEF CallTypes, Job, UndoUnlink, Remove
  <2>3. Moves(a)
    BY <1>0, <1>26 DEF Moves, UndoUnlink, Remove
  <2>4. CallInv(a)'
    BY <1>0, <1>26, SMTT(20) DEF CallInv, Job, NoJob, UndoUnlink, Remove
  <2> QED
    BY <2>1, <2>2, <2>3, <2>4, ControlFrame
<1>27. ASSUME NEW a \in Actor, UndoEnd(a) PROVE Control'
  <2>1. DiskTypes'
    BY <1>0, <1>27 DEF DiskTypes, UndoEnd
  <2>2. CallTypes'
    BY <1>0, <1>27, SMTT(20) DEF CallTypes, Job, UndoEnd
  <2>3. Moves(a)
    BY <1>0, <1>27 DEF Moves, UndoEnd
  <2>4. CallInv(a)'
    BY <1>0, <1>27, SMTT(20) DEF CallInv, Job, NoJob, UndoEnd
  <2> QED
    BY <2>1, <2>2, <2>3, <2>4, ControlFrame
<1>28. ASSUME NEW a \in Actor, NEW b \in Blob, CleanCopy(a, b) PROVE Control'
  <2>1. DiskTypes'
    BY <1>0, <1>28 DEF DiskTypes, CleanCopy
  <2>2. CallTypes'
    BY <1>0, <1>28, SMTT(20) DEF CallTypes, Job, CleanCopy
  <2>3. Moves(a)
    BY <1>0, <1>28 DEF Moves, CleanCopy
  <2>4. CallInv(a)'
    BY <1>0, <1>28, SMTT(20) DEF CallInv, Job, NoJob, CleanCopy
  <2> QED
    BY <2>1, <2>2, <2>3, <2>4, ControlFrame
<1>29. ASSUME NEW a \in Actor, CleanJournal(a) PROVE Control'
  <2>1. DiskTypes'
    BY <1>0, <1>29 DEF DiskTypes, CleanJournal
  <2>2. CallTypes'
    BY <1>0, <1>29, SMTT(20) DEF CallTypes, Job, CleanJournal
  <2>3. Moves(a)
    BY <1>0, <1>29 DEF Moves, CleanJournal
  <2>4. CallInv(a)'
    BY <1>0, <1>29, SMTT(20) DEF CallInv, Job, NoJob, CleanJournal
  <2> QED
    BY <2>1, <2>2, <2>3, <2>4, ControlFrame
<1>30. ASSUME NEW a \in Actor, CleanDir(a) PROVE Control'
  <2>1. DiskTypes'
    BY <1>0, <1>30 DEF DiskTypes, CleanDir
  <2>2. CallTypes' /\ CallInv(a)' /\ Moves(a)
    BY <1>30, ResumeCall DEF CleanDir
  <2> QED
    BY <2>1, <2>2, ControlFrame
<1>31. ASSUME NEW a \in Actor, RecoveryFail(a) PROVE Control'
  <2>1. DiskTypes'
    BY <1>0, <1>31 DEF DiskTypes, RecoveryFail
  <2>2. CASE Leave(a) /\ lock' = None
    <3>1. CallTypes' /\ CallInv(a)' /\ pc'[a] \in {"idle", "down"}
      BY <2>2, LeaveCall
    <3>2. Moves(a)
      BY <1>0, <1>31, <2>2, <3>1 DEF Moves, Leave, RecoveryFail
    <3> QED
      BY <2>1, <3>1, <3>2, ControlFrame
  <2>3. CASE ~(Leave(a) /\ lock' = None)
    <3>1. CallTypes'
      BY <1>0, <1>31, <2>3, SMTT(20) DEF CallTypes, Job, RecoveryFail
    <3>2. Moves(a)
      BY <1>0, <1>31, <2>3 DEF Moves, RecoveryFail
    <3>3. CallInv(a)'
      BY <1>0, <1>31, <2>3, SMTT(20) DEF CallInv, Job, NoJob, RecoveryFail
    <3> QED
      BY <2>1, <3>1, <3>2, <3>3, ControlFrame
  <2> QED
    BY <2>2, <2>3
<1>32. ASSUME NEW p \in Proc, Crash(p) PROVE Control'
  <2> DEFINE dead == {p} \cup {r \in Req : Host[r] = p}
  <2>1. \A a \in Actor :
           IF a \in dead
             THEN job'[a] = NoJob /\ pc'[a] = (IF a \in Proc THEN "down" ELSE "idle")
             ELSE job'[a] = job[a] /\ pc'[a] = pc[a]
    BY <1>32 DEF Crash
  <2>2. job' \in [Actor -> Job] /\ pc' \in [Actor -> ReqPC \cup ProcPC]
    BY <1>0, <1>32, NoJobType DEF Crash
  <2>3. TypeOK'
    BY <1>32, <2>1, <2>2 DEF Control, TypeOK, Crash
  <2>4. lock' = IF lock \in dead THEN None ELSE lock
    BY <1>32 DEF Crash
  <2>5. LockInv'
    BY <1>0, <2>1, <2>4 DEF Control, TypeOK, LockInv
  <2>6. ASSUME NEW a \in Actor PROVE CallInv(a)'
    <3>1. CASE a \in dead
      <4>1. job'[a] = NoJob /\ pc'[a] \in {"idle", "down"}
        BY <2>1, <3>1
      <4> QED
        BY <4>1 DEF CallInv, NoJob
    <3>2. CASE a \notin dead
      BY <1>0, <2>1, <3>2 DEF CallInv
    <3> QED
      BY <3>1, <3>2
  <2> QED
    BY <2>3, <2>5, <2>6 DEF Control
<1>33. ASSUME HourPasses PROVE Control'
  <2>1. UNCHANGED <<tree, linked, stageDir, copies, journal, installed, abandoned, lock, pc, job>>
    BY <1>33 DEF HourPasses
  <2>2. file' \in [Blob -> {"absent", "fresh", "old"}]
    BY <1>33 DEF Control, TypeOK, HourPasses
  <2> QED
    BY <2>1, <2>2 DEF Control, TypeOK, LockInv, CallInv
<1>34. CASE UNCHANGED vars
  BY <1>34 DEF Control, TypeOK, LockInv, CallInv, vars
<1> QED
  BY <1>1, <1>2, <1>3, <1>4, <1>5, <1>6, <1>7, <1>8, <1>9, <1>10, <1>11, <1>12, <1>13,
     <1>14, <1>15, <1>16, <1>17, <1>18, <1>19, <1>20, <1>21, <1>22, <1>23, <1>24, <1>25,
     <1>26, <1>27, <1>28, <1>29, <1>30, <1>31, <1>32, <1>33, <1>34 DEF Next, Upload,
     Begin, Work, Recover

\* The types, the lock protocol and the locals of every call, always.
THEOREM ControlInvariant == Spec => []Control
  BY ControlInit, ControlStep, PTL DEF Spec

\* Type correctness.
THEOREM TypeCorrect == Spec => []TypeOK
<1>1. Control => TypeOK
  BY DEF Control
<1> QED
  BY <1>1, ControlInvariant, PTL

----------------------------------------------------------------------------
(* Data.                                                                   *)

\* An empty data directory satisfies the data invariant.
LEMMA DataInit == Init => Data
  BY ActorAssumption
     DEF Init, Data, StageInv, JournalCoversInstalled, SweepInv, UndoInv, PlanInv,
         Actor, NoJob, Content

\* What the invariant says of every call, in one place.
LEMMA CallFacts ==
    Control => /\ job \in [Actor -> Job] /\ pc \in [Actor -> ReqPC \cup ProcPC]
               /\ DiskTypes
               /\ \A a \in Actor : /\ job[a] \in Job /\ CallInv(a)
                                   /\ pc[a] \in Locked <=> lock = a
  BY TypeSplit DEF Control, CallTypes, LockInv

\* Every step keeps journal, staging directory and pool in step: one stage at a
\* time, its journal written before the first link, its copies removed before its
\* journal, and nothing fresh on a list of the sweep.
THEOREM DataStep == Control /\ Data /\ [Next]_vars => Data'
<1> SUFFICES ASSUME Control, Data, [Next]_vars PROVE Data'
  OBVIOUS
<1>0. /\ job \in [Actor -> Job] /\ pc \in [Actor -> ReqPC \cup ProcPC]
      /\ DiskTypes
      /\ \A a \in Actor : job[a] \in Job /\ CallInv(a) /\ (pc[a] \in Locked <=> lock = a)
  BY CallFacts
<1> USE ActorAssumption, DataAssumption
        DEF Actor, disk, Goto, ReqPC, ProcPC, Locked, Recovery, Return,
            Data, StageInv, JournalCoversInstalled, SweepInv, UndoInv, PlanInv,
            DiskTypes, Job, Journal, CallInv, NoJob, Content, Referenced
<1>1. ASSUME NEW r \in Req, NEW u \in User, NEW S \in Uploads, UploadBegin(r, u, S) PROVE Data'
  BY <1>0, <1>1, SMTT(30) DEF UploadBegin, Arrives
<1>2. ASSUME NEW r \in Req, NEW b \in Blob, StatBlob(r, b) PROVE Data'
  BY <1>0, <1>2, SMTT(30) DEF StatBlob
<1>3. ASSUME NEW r \in Req, RenameBlob(r) PROVE Data'
  BY <1>0, <1>3, SMTT(60) DEF RenameBlob
<1>4. ASSUME NEW r \in Req, Land(r) PROVE Data'
  BY <1>0, <1>4, SMTT(30) DEF Land, Leave
<1>5. ASSUME NEW r \in Req, UploadFail(r) PROVE Data'
  BY <1>0, <1>5, SMTT(30) DEF UploadFail, Leave
<1>6. ASSUME NEW r \in Req, SweepBegin(r) PROVE Data'
  BY <1>0, <1>6, SMTT(30) DEF SweepBegin, Arrives, Garbage
<1>7. ASSUME NEW r \in Req, NEW u \in User, NEW S \in Archives, RestoreBegin(r, u, S) PROVE Data'
  BY <1>0, <1>7, SMTT(30) DEF RestoreBegin, Arrives
<1>8. ASSUME NEW r \in Req, NEW u \in User, NEW S \in Legacy, LegacyBegin(r, u, S) PROVE Data'
  BY <1>0, <1>8, SMTT(30) DEF LegacyBegin, Arrives
<1>9. ASSUME NEW r \in Req, NEW b \in Blob, SweepRemove(r, b) PROVE Data'
  BY <1>0, <1>9, SMTT(30) DEF SweepRemove, Remove
<1>10. ASSUME NEW r \in Req, SweepEnd(r) PROVE Data'
  BY <1>0, <1>10, SMTT(30) DEF SweepEnd, Leave
<1>11. ASSUME NEW r \in Req, StageOpen(r) PROVE Data'
  BY <1>0, <1>11, SMTT(30) DEF StageOpen
<1>12. ASSUME NEW r \in Req, NEW b \in Blob, StageCopy(r, b) PROVE Data'
  BY <1>0, <1>12, SMTT(30) DEF StageCopy
<1>13. ASSUME NEW r \in Req, StageDone(r) PROVE Data'
  BY <1>0, <1>13, SMTT(30) DEF StageDone
<1>14. ASSUME NEW r \in Req, StageReject(r) PROVE Data'
  BY <1>0, <1>14, SMTT(60) DEF StageReject, Leave
<1>15. ASSUME NEW r \in Req, NEW b \in Blob, PrepareStat(r, b) PROVE Data'
  BY <1>0, <1>15, SMTT(30) DEF PrepareStat
<1>16. ASSUME NEW r \in Req, WriteJournal(r) PROVE Data'
  <2>0. /\ pc[r] = "prepare" /\ job[r].todo = {} /\ lock = r /\ journal = None
        /\ journal' = [user |-> job[r].user, hash |-> job[r].arg, new |-> job[r].new]
        /\ journal' # None /\ journal'.new = job[r].new /\ journal'.hash = job[r].arg
        /\ UNCHANGED <<tree, file, linked, stageDir, copies, installed, abandoned>>
        /\ linked = {}
        /\ pc'[r] \in {"install", "clean"}
        /\ pc'[r] = "install" => job'[r].todo = job[r].arg
        /\ job'[r].arg = job[r].arg /\ job'[r].wrote = job[r].wrote /\ job'[r].new = {}
        /\ job'[r].ret = job[r].ret
        /\ \A c \in Actor \ {r} : pc'[c] = pc[c] /\ job'[c] = job[c]
    BY <1>0, <1>16, SMTT(30) DEF WriteJournal
  <2>1. StageInv' /\ JournalCoversInstalled'
    BY <1>0, <2>0
  <2>2. SweepInv' /\ UndoInv'
    BY <1>0, <1>16, <2>0, SMTT(30)
  <2>3. ASSUME NEW q \in Req PROVE PlanInv(q)'
    BY <1>0, <1>16, <2>0, <2>3, SMTT(30)
  <2> QED
    BY <2>1, <2>2, <2>3
<1>17. ASSUME NEW r \in Req, NEW b \in Blob, InstallBlob(r, b) PROVE Data'
  <2>0. /\ pc[r] = "install" /\ lock = r /\ b \in job[r].todo /\ pc' = pc
        /\ job'[r].todo = job[r].todo \ {b} /\ job'[r].new = job[r].new
        /\ job'[r].arg = job[r].arg /\ job'[r].wrote = job[r].wrote
        /\ \A c \in Actor \ {r} : job'[c] = job[c]
        /\ file' \in {file, [file EXCEPT ![b] = "fresh"]} /\ file'[b] # "absent"
        /\ linked' \in {linked, linked \cup {b}} /\ (linked' # linked => b \notin Content)
        /\ UNCHANGED <<tree, stageDir, copies, journal, lock>>
    BY <1>0, <1>17, SMTT(30) DEF InstallBlob
  <2>1. PlanInv(r) /\ b \in copies /\ journal # None /\ (b \notin Content => b \in journal.new)
    BY <1>17, <2>0
  <2>2. StageInv' /\ JournalCoversInstalled'
    BY <1>0, <1>17, <2>0, <2>1, SMTT(30)
  <2>3. SweepInv' /\ UndoInv'
    BY <1>0, <1>17, <2>0, SMTT(30)
  <2>4. ASSUME NEW q \in Req PROVE PlanInv(q)'
    BY <1>0, <1>17, <2>0, <2>4, SMTT(30)
  <2> QED
    BY <2>2, <2>3, <2>4
<1>18. ASSUME NEW r \in Req, InstallFail(r) PROVE Data'
  BY <1>0, <1>18, SMTT(30) DEF InstallFail
<1>19. ASSUME NEW r \in Req, Commit(r) PROVE Data'
  BY <1>0, <1>19, SMTT(30) DEF Commit, Leave
<1>20. ASSUME NEW r \in Req, LegacyReplace(r) PROVE Data'
  BY <1>0, <1>20, SMTT(30) DEF LegacyReplace, Leave
<1>21. ASSUME NEW p \in Proc, Boot(p) PROVE Data'
  BY <1>0, <1>21, SMTT(30) DEF Boot
<1>22. ASSUME NEW a \in Actor, RecoverNothing(a) PROVE Data'
  BY <1>0, <1>22, SMTT(30) DEF RecoverNothing, Resume, Leave
<1>23. ASSUME NEW a \in Actor, RecoverDone(a) PROVE Data'
  BY <1>0, <1>23, SMTT(30) DEF RecoverDone
<1>24. ASSUME NEW a \in Actor, RecoverRollback(a) PROVE Data'
  BY <1>0, <1>24, SMTT(30) DEF RecoverRollback
<1>25. ASSUME NEW a \in Actor, NEW b \in Blob, UndoCheck(a, b) PROVE Data'
  BY <1>0, <1>25, SMTT(30) DEF UndoCheck
<1>26. ASSUME NEW a \in Actor, UndoUnlink(a) PROVE Data'
  BY <1>0, <1>26, SMTT(30) DEF UndoUnlink, Remove
<1>27. ASSUME NEW a \in Actor, UndoEnd(a) PROVE Data'
  BY <1>0, <1>27, SMTT(60) DEF UndoEnd
<1>28. ASSUME NEW a \in Actor, NEW b \in Blob, CleanCopy(a, b) PROVE Data'
  BY <1>0, <1>28, SMTT(30) DEF CleanCopy
<1>29. ASSUME NEW a \in Actor, CleanJournal(a) PROVE Data'
  BY <1>0, <1>29, SMTT(30) DEF CleanJournal
<1>30. ASSUME NEW a \in Actor, CleanDir(a) PROVE Data'
  BY <1>0, <1>30, SMTT(30) DEF CleanDir, Resume, Leave
<1>31. ASSUME NEW a \in Actor, RecoveryFail(a) PROVE Data'
  BY <1>0, <1>31, SMTT(30) DEF RecoveryFail, Leave
<1>32. ASSUME NEW p \in Proc, Crash(p) PROVE Data'
  BY <1>0, <1>32, SMTT(30) DEF Crash
<1>33. ASSUME HourPasses PROVE Data'
  BY <1>0, <1>33, SMTT(30) DEF HourPasses
<1>34. CASE UNCHANGED vars
  BY <1>34 DEF vars
<1> HIDE DEF Data
<1> QED
  BY <1>1, <1>2, <1>3, <1>4, <1>5, <1>6, <1>7, <1>8, <1>9, <1>10, <1>11, <1>12, <1>13,
     <1>14, <1>15, <1>16, <1>17, <1>18, <1>19, <1>20, <1>21, <1>22, <1>23, <1>24, <1>25,
     <1>26, <1>27, <1>28, <1>29, <1>30, <1>31, <1>32, <1>33, <1>34 DEF Next, Upload,
     Begin, Work, Recover

\* The inductive invariant holds of every reachable state of the data directory.
THEOREM Invariant == Spec => []IInv
<1>1. Init => IInv
  BY ControlInit, DataInit DEF IInv
<1>2. IInv /\ [Next]_vars => IInv'
  BY ControlStep, DataStep DEF IInv
<1> QED
  BY <1>1, <1>2, PTL DEF Spec

\* Whatever a restore has linked into the pool is in the journal on disk.
THEOREM JournalAlwaysCovers == Spec => []JournalCoversInstalled
<1>1. IInv => JournalCoversInstalled
  BY DEF IInv, Data
<1> QED
  BY <1>1, Invariant, PTL

\* No sweep has a file on its list that an upload in flight has written.
THEOREM SweepsSpare == Spec => []SweepSparesUploads
<1>1. IInv => SweepSparesUploads
  BY DEF IInv, Data, SweepInv, SweepSparesUploads
<1> QED
  BY <1>1, Invariant, PTL

----------------------------------------------------------------------------
(* Rollback.                                                               *)

\* Every step but the failure of a rollback keeps a restore undoable: what the
\* present stage put into the pool is in use, or still linked and due to be
\* taken back.
LEMMA UndoableStep == Control /\ Data /\ Undoable /\ [Next]_vars => Residue'
<1> SUFFICES ASSUME Control, Data, Undoable, [Next]_vars PROVE Residue'
  OBVIOUS
<1>0. /\ job \in [Actor -> Job] /\ pc \in [Actor -> ReqPC \cup ProcPC]
      /\ DiskTypes
      /\ \A a \in Actor : job[a] \in Job /\ CallInv(a) /\ (pc[a] \in Locked <=> lock = a)
  BY CallFacts
<1> USE ActorAssumption, DataAssumption
        DEF Actor, disk, Goto, ReqPC, ProcPC, Locked, Recovery, Return,
            Data, StageInv, JournalCoversInstalled, PlanInv, Undoable, ResidueOf,
            DiskTypes, Job, Journal, CallInv, NoJob, Content, Referenced
<1>1. ASSUME NEW r \in Req, NEW u \in User, NEW S \in Uploads, UploadBegin(r, u, S) PROVE Undoable'
  BY <1>0, <1>1, SMTT(30) DEF UploadBegin, Arrives
<1>2. ASSUME NEW r \in Req, NEW b \in Blob, StatBlob(r, b) PROVE Undoable'
  <2>1. pc'[r] \in {"upload", "rename"} /\ job'[r].ret = job[r].ret
        /\ \A c \in Actor \ {r} : pc'[c] = pc[c] /\ job'[c] = job[c]
    BY <1>0, <1>2, SMTT(30) DEF StatBlob
  <2>2. UNCHANGED <<tree, file, linked, stageDir, journal, installed>>
    BY <1>2 DEF StatBlob
  <2>3. pc[r] = "upload" /\ job[r].ret = "idle"
    BY <1>0, <1>2 DEF StatBlob
  <2>4. ASSUME NEW c \in Actor PROVE ResidueOf(c)'
    BY <1>2, <2>1, <2>2, <2>3
  <2> QED
    BY <2>2, <2>4
<1>3. ASSUME NEW r \in Req, RenameBlob(r) PROVE Undoable'
  BY <1>0, <1>3, SMTT(60) DEF RenameBlob
<1>4. ASSUME NEW r \in Req, Land(r) PROVE Undoable'
  BY <1>0, <1>4, SMTT(30) DEF Land, Leave
<1>5. ASSUME NEW r \in Req, UploadFail(r) PROVE Undoable'
  BY <1>0, <1>5, SMTT(30) DEF UploadFail, Leave
<1>6. ASSUME NEW r \in Req, SweepBegin(r) PROVE Undoable'
  BY <1>0, <1>6, SMTT(30) DEF SweepBegin, Arrives, Garbage
<1>7. ASSUME NEW r \in Req, NEW u \in User, NEW S \in Archives, RestoreBegin(r, u, S) PROVE Undoable'
  BY <1>0, <1>7, SMTT(30) DEF RestoreBegin, Arrives
<1>8. ASSUME NEW r \in Req, NEW u \in User, NEW S \in Legacy, LegacyBegin(r, u, S) PROVE Undoable'
  BY <1>0, <1>8, SMTT(30) DEF LegacyBegin, Arrives
<1>9. ASSUME NEW r \in Req, NEW b \in Blob, SweepRemove(r, b) PROVE Undoable'
  BY <1>0, <1>9, SMTT(30) DEF SweepRemove, Remove
<1>10. ASSUME NEW r \in Req, SweepEnd(r) PROVE Undoable'
  BY <1>0, <1>10, SMTT(30) DEF SweepEnd, Leave
<1>11. ASSUME NEW r \in Req, StageOpen(r) PROVE Undoable'
  BY <1>0, <1>11, SMTT(30) DEF StageOpen
<1>12. ASSUME NEW r \in Req, NEW b \in Blob, StageCopy(r, b) PROVE Undoable'
  BY <1>0, <1>12, SMTT(30) DEF StageCopy
<1>13. ASSUME NEW r \in Req, StageDone(r) PROVE Undoable'
  BY <1>0, <1>13, SMTT(30) DEF StageDone
<1>14. ASSUME NEW r \in Req, StageReject(r) PROVE Undoable'
  BY <1>0, <1>14, SMTT(60) DEF StageReject, Leave
<1>15. ASSUME NEW r \in Req, NEW b \in Blob, PrepareStat(r, b) PROVE Undoable'
  BY <1>0, <1>15, SMTT(30) DEF PrepareStat
<1>16. ASSUME NEW r \in Req, WriteJournal(r) PROVE Undoable'
  <2>0. /\ pc[r] = "prepare" /\ job[r].todo = {} /\ lock = r /\ journal = None
        /\ journal' = [user |-> job[r].user, hash |-> job[r].arg, new |-> job[r].new]
        /\ journal' # None /\ journal'.new = job[r].new /\ journal'.hash = job[r].arg
        /\ UNCHANGED <<tree, file, linked, stageDir, copies, installed, abandoned>>
        /\ linked = {}
        /\ pc'[r] \in {"install", "clean"}
        /\ pc'[r] = "install" => job'[r].todo = job[r].arg
        /\ job'[r].arg = job[r].arg /\ job'[r].wrote = job[r].wrote /\ job'[r].new = {}
        /\ job'[r].ret = job[r].ret
        /\ \A c \in Actor \ {r} : pc'[c] = pc[c] /\ job'[c] = job[c]
    BY <1>0, <1>16, SMTT(30) DEF WriteJournal
  <2> QED
    BY <1>0, <1>16, <2>0, SMTT(30)
<1>17. ASSUME NEW r \in Req, NEW b \in Blob, InstallBlob(r, b) PROVE Undoable'
  BY <1>0, <1>17, SMTT(30) DEF InstallBlob
<1>18. ASSUME NEW r \in Req, InstallFail(r) PROVE Undoable'
  BY <1>0, <1>18, SMTT(30) DEF InstallFail
<1>19. ASSUME NEW r \in Req, Commit(r) PROVE Undoable'
  BY <1>0, <1>19, SMTT(30) DEF Commit, Leave
<1>20. ASSUME NEW r \in Req, LegacyReplace(r) PROVE Undoable'
  BY <1>0, <1>20, SMTT(30) DEF LegacyReplace, Leave
<1>21. ASSUME NEW p \in Proc, Boot(p) PROVE Undoable'
  BY <1>0, <1>21, SMTT(30) DEF Boot
<1>22. ASSUME NEW a \in Actor, RecoverNothing(a) PROVE Undoable'
  BY <1>0, <1>22, SMTT(30) DEF RecoverNothing, Resume, Leave
<1>23. ASSUME NEW a \in Actor, RecoverDone(a) PROVE Undoable'
  BY <1>0, <1>23, SMTT(30) DEF RecoverDone
<1>24. ASSUME NEW a \in Actor, RecoverRollback(a) PROVE Undoable'
  BY <1>0, <1>24, SMTT(30) DEF RecoverRollback
<1>25. ASSUME NEW a \in Actor, NEW b \in Blob, UndoCheck(a, b) PROVE Undoable'
  BY <1>0, <1>25, SMTT(30) DEF UndoCheck
<1>26. ASSUME NEW a \in Actor, UndoUnlink(a) PROVE Undoable'
  BY <1>0, <1>26, SMTT(30) DEF UndoUnlink, Remove
<1>27. ASSUME NEW a \in Actor, UndoEnd(a) PROVE Undoable'
  BY <1>0, <1>27, SMTT(60) DEF UndoEnd
<1>28. ASSUME NEW a \in Actor, NEW b \in Blob, CleanCopy(a, b) PROVE Undoable'
  BY <1>0, <1>28, SMTT(30) DEF CleanCopy
<1>29. ASSUME NEW a \in Actor, CleanJournal(a) PROVE Undoable'
  BY <1>0, <1>29, SMTT(30) DEF CleanJournal
<1>30. ASSUME NEW a \in Actor, CleanDir(a) PROVE Undoable'
  BY <1>0, <1>30, SMTT(30) DEF CleanDir, Resume, Leave
<1>31. ASSUME NEW a \in Actor, RecoveryFail(a) PROVE Residue'
  <2>1. CASE job[a].ret = "undone"
    <3>1. CASE pc[a] = "clean"
      <4>1. Undoable'
        BY <1>0, <1>31, <2>1, <3>1, SMTT(30) DEF RecoveryFail
      <4> QED
        BY <4>1 DEF Residue
    <3>2. CASE pc[a] # "clean"
      BY <1>31, <2>1, <3>2 DEF RecoveryFail, Residue
    <3> QED
      BY <3>1, <3>2
  <2>2. CASE job[a].ret # "undone"
    <3>1. Undoable'
      BY <1>0, <1>31, <2>2, SMTT(30) DEF RecoveryFail, Leave
    <3> QED
      BY <3>1 DEF Residue
  <2> QED
    BY <2>1, <2>2
<1>32. ASSUME NEW p \in Proc, Crash(p) PROVE Undoable'
  BY <1>0, <1>32, SMTT(30) DEF Crash
<1>33. ASSUME HourPasses PROVE Undoable'
  BY <1>0, <1>33, SMTT(30) DEF HourPasses
<1>34. ASSUME UNCHANGED vars PROVE Undoable'
  BY <1>34 DEF vars
<1> HIDE DEF Undoable
<1> QED
  BY <1>1, <1>2, <1>3, <1>4, <1>5, <1>6, <1>7, <1>8, <1>9, <1>10, <1>11, <1>12, <1>13,
     <1>14, <1>15, <1>16, <1>17, <1>18, <1>19, <1>20, <1>21, <1>22, <1>23, <1>24, <1>25,
     <1>26, <1>27, <1>28, <1>29, <1>30, <1>31, <1>32, <1>33, <1>34 DEF Next, Upload,
     Begin, Work, Recover, Residue

\* Only the end of its cleanup makes a step forget that a stage was abandoned,
\* or removes a staging directory.
LEMMA OnlyCleanDir ==
    ASSUME Next,
           \/ abandoned /\ ~abandoned'
           \/ stageDir /\ ~stageDir'
    PROVE  \E a \in Actor : CleanDir(a)
<1> USE DEF Next, Upload, Begin, Work, Recover, disk, UploadBegin, StatBlob, RenameBlob,
            Land, UploadFail, SweepBegin, RestoreBegin, LegacyBegin, SweepRemove,
            SweepEnd, StageOpen, StageCopy, StageDone, StageReject, PrepareStat,
            WriteJournal, InstallBlob, InstallFail, Commit, LegacyReplace, Boot,
            RecoverNothing, RecoverDone, RecoverRollback, UndoCheck, UndoUnlink, UndoEnd,
            CleanCopy, CleanJournal, RecoveryFail, Crash, HourPasses
<1>1. CASE abandoned /\ ~abandoned'
  BY <1>1, ZenonT(60)
<1>2. CASE stageDir /\ ~stageDir'
  BY <1>2, ZenonT(60)
<1> QED
  BY <1>1, <1>2

\* With a clean stage, there is nothing to undo, whatever was abandoned before.
LEMMA FreshStart ==
    ASSUME Control, Data, NEW a \in Actor, CleanDir(a)
    PROVE  Undoable'
<1> USE ActorAssumption DEF Actor, Goto, Locked, Recovery, ReqPC, ProcPC
<1>1. /\ installed' = {} /\ ~stageDir' /\ journal' = None
      /\ pc'[a] \in {"up", "stage", "replace", "idle", "down"}
      /\ \A c \in Actor \ {a} : pc'[c] = pc[c]
  BY DEF CleanDir, Resume, Leave, Control, TypeOK
<1>2. \A c \in Actor \ {a} : pc[c] \notin Locked
  BY DEF Control, LockInv, CleanDir
<1>3. \A c \in Actor : pc'[c] \notin {"prepare", "install"}
  BY <1>1, <1>2
<1> QED
  BY <1>1, <1>3 DEF Undoable, ResidueOf

\* Every step keeps a restore undoable or abandoned.
LEMMA ResidueStep == Control /\ Data /\ Residue /\ [Next]_vars => Residue'
<1> SUFFICES ASSUME Control, Data, Residue, [Next]_vars PROVE Residue'
  OBVIOUS
<1>1. CASE Undoable
  BY <1>1, UndoableStep
<1>2. CASE abandoned
  <2>1. CASE \E a \in Actor : CleanDir(a)
    BY <2>1, FreshStart DEF Residue
  <2>2. CASE Next /\ ~\E a \in Actor : CleanDir(a)
    BY <1>2, <2>2, OnlyCleanDir DEF Residue
  <2>3. CASE UNCHANGED vars
    BY <1>2, <2>3 DEF vars, disk, Residue
  <2> QED
    BY <2>1, <2>2, <2>3
<1> QED
  BY <1>1, <1>2 DEF Residue

\* Without a stage there is nothing to take back.
LEMMA ResidueInit == Init => Residue
  BY ActorAssumption DEF Init, Residue, Undoable, ResidueOf, NoJob, Actor

\* A restore that ends without its tree in place leaves nothing in the pool that
\* no tree references, wherever it was killed or failed, unless its rollback
\* failed in turn.
THEOREM RestoresAreUndone == Spec => AbortedRestoreUndone
<1>1. Control /\ Data /\ Residue /\ [Next]_vars => Residue'
  BY ResidueStep
<1>2. Residue /\ [Next]_vars
        => [stageDir /\ ~stageDir' => abandoned \/ installed \subseteq Referenced]_vars
  <2> SUFFICES ASSUME Residue, Next, stageDir, ~stageDir', ~abandoned
               PROVE  installed \subseteq Referenced
    OBVIOUS
  <2>1. PICK a \in Actor : CleanDir(a)
    BY OnlyCleanDir
  <2> QED
    BY <2>1 DEF CleanDir, Residue, Undoable, ResidueOf
<1>3. IInv => Control /\ Data
  BY DEF IInv
<1> QED
  BY <1>1, <1>2, <1>3, ResidueInit, Invariant, PTL DEF Spec, AbortedRestoreUndone

----------------------------------------------------------------------------
(* Progress of the holder of the lock.                                     *)

\* Lists of blobs are finite: one blob less is one less to go.
LEMMA OneLess ==
    ASSUME NEW S \in SUBSET Blob, NEW b \in S
    PROVE  /\ Cardinality(S) \in Nat /\ Cardinality(S \ {b}) \in Nat
           /\ Cardinality(S \ {b}) = Cardinality(S) - 1
<1>1. IsFiniteSet(S)
  BY FiniteAssumption, FS_Subset
<1> QED
  BY <1>1, FS_RemoveElement, FS_CardinalityType

\* Staging one more copy is at most one more to clean up.
LEMMA OneMore ==
    ASSUME NEW S \in SUBSET Blob, NEW b \in Blob
    PROVE  /\ Cardinality(S) \in Nat /\ Cardinality(S \cup {b}) \in Nat
           /\ Cardinality(S \cup {b}) <= Cardinality(S) + 1
<1>1. IsFiniteSet(S)
  BY FiniteAssumption, FS_Subset
<1> QED
  BY <1>1, FS_AddElement, FS_CardinalityType, SMTT(30)

\* While a holds the lock, only a works on the store: a step of anybody else leaves
\* its call and the stage alone (Store.lock, and the uploads that do not take it).
LEMMA OthersStandBack ==
    ASSUME Control, Next, NEW a \in Actor, lock = a, lock' = a
    PROVE  \/ UNCHANGED <<pc[a], job[a], stageDir, copies, journal>>
           \/ a \in Req /\ Work(a)
           \/ Recover(a)
<1> USE ActorAssumption DEF Actor, disk, Goto, Locked, Recovery, ReqPC, ProcPC
<1>0. /\ job \in [Actor -> Job] /\ pc \in [Actor -> ReqPC \cup ProcPC]
      /\ a # None /\ pc[a] \in Locked
      /\ \A c \in Actor \ {a} : pc[c] \notin Locked
  BY DEF Control, TypeOK, LockInv
<1>1. ASSUME NEW r \in Req, Upload(r)
      PROVE  UNCHANGED <<pc[a], job[a], stageDir, copies, journal>>
  <2>1. r # a
    BY <1>0, <1>1 DEF Upload, UploadBegin, Arrives, StatBlob, RenameBlob, Land, UploadFail
  <2>2. UNCHANGED <<stageDir, copies, journal>>
    BY <1>1 DEF Upload, UploadBegin, StatBlob, RenameBlob, Land, UploadFail
  <2>3. UNCHANGED <<pc[a], job[a]>>
    BY <1>0, <1>1, <2>1
       DEF Upload, UploadBegin, StatBlob, RenameBlob, Land, UploadFail, Leave
  <2> QED
    BY <2>2, <2>3
<1>2. ASSUME NEW r \in Req, Begin(r) PROVE FALSE
  BY <1>0, <1>2 DEF Begin, SweepBegin, RestoreBegin, LegacyBegin
<1>3. ASSUME NEW r \in Req, Work(r) PROVE r = a
  BY <1>0, <1>3
     DEF Work, SweepEnd, StageOpen, StageDone, StageReject, WriteJournal, InstallFail, Commit,
         LegacyReplace, SweepRemove, StageCopy, PrepareStat, InstallBlob
<1>4. ASSUME NEW c \in Actor, Recover(c) PROVE c = a
  BY <1>0, <1>4
     DEF Recover, RecoverNothing, RecoverDone, RecoverRollback, UndoUnlink, UndoEnd,
         CleanJournal, CleanDir, RecoveryFail, UndoCheck, CleanCopy
<1>5. ASSUME NEW p \in Proc, Boot(p) PROVE FALSE
  BY <1>0, <1>5 DEF Boot
<1>6. ASSUME NEW p \in Proc, Crash(p)
      PROVE  UNCHANGED <<pc[a], job[a], stageDir, copies, journal>>
  <2>1. a \notin {p} \cup {r \in Req : Host[r] = p}
    BY <1>0, <1>6 DEF Crash
  <2> QED
    BY <1>6, <2>1 DEF Crash
<1>7. ASSUME HourPasses PROVE FALSE
  BY <1>0, <1>7 DEF HourPasses
<1> QED
  BY <1>1, <1>2, <1>3, <1>4, <1>5, <1>6, <1>7, Zenon DEF Next

\* A step towards the end of the call.
Forward(a) ==
    \/ Phase(a)' < Phase(a)
    \/ Phase(a)' = Phase(a) /\ Left(a)' < Left(a)

\* The routine for stages goes forward: through the recovery of an old stage, the
\* rollback of the present one, and the cleanup of either.
LEMMA RecoveryGoesForward ==
    ASSUME Control, UndoInv, NEW a \in Actor, Recover(a), lock' = a
    PROVE  Forward(a)
<1> USE ActorAssumption DEF Actor, disk, Goto, Locked, Recovery, ReqPC, ProcPC, Phase
<1>0. /\ job \in [Actor -> Job] /\ pc \in [Actor -> ReqPC \cup ProcPC]
      /\ job[a] \in Job /\ a # None /\ CallInv(a) /\ copies \in SUBSET Blob
      /\ job[a].todo \in SUBSET Blob /\ job[a].ret \in Return
      /\ job[a].ret # "idle" => pc[a] \in Recovery
  BY DEF Control, TypeOK, Job, CallInv
<1>1. CASE pc[a] = "clean" /\ (\E b \in Blob : CleanCopy(a, b))
  <2>1. PICK b \in Blob : CleanCopy(a, b)
    BY <1>1
  <2>2. /\ Cardinality(copies) \in Nat
        /\ Cardinality(copies') = Cardinality(copies) - 1
    BY <1>0, <2>1, OneLess DEF CleanCopy
  <2>3. Cardinality(job[a].todo) \in Nat
    BY <1>0, FiniteAssumption, FS_Subset, FS_CardinalityType
  <2> QED
    BY <1>0, <2>1, <2>2, <2>3 DEF CleanCopy, Left, Forward, Return
<1>2. CASE CleanJournal(a)
  <2>1. Cardinality(copies) \in Nat /\ Cardinality(job[a].todo) \in Nat
    BY <1>0, FiniteAssumption, FS_Subset, FS_CardinalityType
  <2> QED
    BY <1>0, <1>2, <2>1 DEF CleanJournal, Left, Forward, Return
<1>3. CASE CleanDir(a)
  BY <1>0, <1>3 DEF CleanDir, Resume, Forward
<1>4. CASE RecoverNothing(a)
  BY <1>0, <1>4 DEF RecoverNothing, Resume, Forward
<1>5. CASE RecoverDone(a)
  BY <1>0, <1>5 DEF RecoverDone, Forward, Return
<1>6. CASE RecoverRollback(a)
  BY <1>0, <1>6 DEF RecoverRollback, Forward, Return, Job
<1>7. CASE UndoEnd(a)
  BY <1>0, <1>7 DEF UndoEnd, Forward, Return
<1>8. CASE RecoveryFail(a)
  BY <1>0, <1>8 DEF RecoveryFail, Forward, Job
<1>9. CASE UndoUnlink(a)
  <2>1. job[a].cur \in job[a].todo
    BY <1>9 DEF UndoUnlink, UndoInv
  <2>2. /\ pc'[a] = "undo" /\ pc[a] = "unlink"
        /\ job'[a].ret = job[a].ret /\ job'[a].todo = job[a].todo \ {job[a].cur}
        /\ UNCHANGED <<copies, journal>>
    BY <1>0, <1>9 DEF UndoUnlink, Job
  <2>3. /\ Cardinality(job[a].todo) \in Nat
        /\ Cardinality(job'[a].todo) = Cardinality(job[a].todo) - 1
    BY <1>0, <2>1, <2>2, OneLess
  <2>4. Cardinality(copies) \in Nat
    BY <1>0, FiniteAssumption, FS_Subset, FS_CardinalityType
  <2> QED
    BY <2>2, <2>3, <2>4 DEF Left, Forward
<1>10. CASE \E b \in Blob : UndoCheck(a, b)
  <2>1. PICK b \in Blob : UndoCheck(a, b)
    BY <1>10
  <2>2. /\ pc[a] = "undo" /\ b \in job[a].todo /\ job'[a].ret = job[a].ret
        /\ \/ pc'[a] = "unlink" /\ job'[a].todo = job[a].todo
           \/ pc'[a] = "undo" /\ job'[a].todo = job[a].todo \ {b}
        /\ UNCHANGED <<copies, journal>>
    BY <1>0, <2>1 DEF UndoCheck, Job
  <2>3. /\ Cardinality(job[a].todo) \in Nat
        /\ Cardinality(job[a].todo \ {b}) = Cardinality(job[a].todo) - 1
    BY <1>0, <2>2, OneLess
  <2>4. Cardinality(copies) \in Nat
    BY <1>0, FiniteAssumption, FS_Subset, FS_CardinalityType
  <2>5. Phase(a)' = Phase(a)
    BY <2>2
  <2>6. CASE pc'[a] = "unlink" /\ job'[a].todo = job[a].todo
    BY <2>2, <2>3, <2>4, <2>5, <2>6 DEF Left, Forward
  <2>7. CASE pc'[a] = "undo" /\ job'[a].todo = job[a].todo \ {b}
    <3>1. Cardinality(job'[a].todo) = Cardinality(job[a].todo) - 1
      BY <2>3, <2>7
    <3> QED
      BY <2>2, <2>3, <2>4, <2>5, <2>7, <3>1 DEF Left, Forward
  <2> QED
    BY <2>2, <2>6, <2>7
<1> QED
  BY <1>1, <1>2, <1>3, <1>4, <1>5, <1>6, <1>7, <1>8, <1>9, <1>10 DEF Recover, CleanCopy

\* A sweep and a restore go forward: through the files on their list, and from one
\* part of the restore to the next.
LEMMA WorkGoesForward ==
    ASSUME Control, NEW a \in Req, Work(a), lock' = a
    PROVE  Forward(a)
<1> USE ActorAssumption DEF Actor, disk, Goto, Locked, Recovery, ReqPC, ProcPC, Phase
<1>0. /\ job \in [Actor -> Job] /\ pc \in [Actor -> ReqPC \cup ProcPC]
      /\ job[a] \in Job /\ a # None /\ copies \in SUBSET Blob
      /\ job[a].todo \in SUBSET Blob
      /\ job[a].ret # "idle" => pc[a] \in Recovery
  BY DEF Control, TypeOK, Job, CallInv
<1>1. Cardinality(copies) \in Nat /\ Cardinality(job[a].todo) \in Nat
  BY <1>0, FiniteAssumption, FS_Subset, FS_CardinalityType
<1>2. CASE SweepEnd(a) \/ LegacyReplace(a)
  BY <1>0, <1>2 DEF SweepEnd, LegacyReplace
<1>3. CASE StageOpen(a)
  BY <1>0, <1>3 DEF StageOpen, Forward
<1>4. CASE StageDone(a)
  BY <1>0, <1>4 DEF StageDone, Forward
<1>5. CASE StageReject(a)
  BY <1>0, <1>5 DEF StageReject, Forward, Job
<1>6. CASE WriteJournal(a)
  BY <1>0, <1>6 DEF WriteJournal, Forward, Job
<1>7. CASE InstallFail(a)
  BY <1>0, <1>7 DEF InstallFail, Forward, Job
<1>8. CASE Commit(a)
  BY <1>0, <1>8 DEF Commit, Forward
<1>9. CASE \E b \in Blob : SweepRemove(a, b) \/ PrepareStat(a, b) \/ InstallBlob(a, b)
  <2>1. PICK b \in Blob : SweepRemove(a, b) \/ PrepareStat(a, b) \/ InstallBlob(a, b)
    BY <1>9
  <2>2. /\ pc[a] \in {"sweep", "prepare", "install"} /\ b \in job[a].todo
        /\ UNCHANGED <<pc, copies, journal>>
    BY <2>1 DEF SweepRemove, PrepareStat, InstallBlob
  <2>3. job'[a].todo = job[a].todo \ {b}
    BY <1>0, <2>1 DEF SweepRemove, PrepareStat, InstallBlob, Job
  <2>4. Cardinality(job'[a].todo) = Cardinality(job[a].todo) - 1
    BY <1>0, <2>2, <2>3, OneLess
  <2> QED
    BY <1>1, <2>2, <2>4 DEF Left, Forward
<1>10. CASE \E b \in Blob : StageCopy(a, b)
  <2>1. PICK b \in Blob : StageCopy(a, b)
    BY <1>10
  <2>2. /\ pc[a] = "stage" /\ stageDir /\ b \in job[a].todo
        /\ UNCHANGED <<pc, stageDir, journal>>
        /\ copies' = copies \cup {b} /\ job'[a].todo = job[a].todo \ {b}
    BY <1>0, <2>1 DEF StageCopy, Job
  <2>3. Cardinality(job'[a].todo) = Cardinality(job[a].todo) - 1
    BY <1>0, <2>2, OneLess
  <2>4. Cardinality(copies') \in Nat /\ Cardinality(copies') <= Cardinality(copies) + 1
    BY <1>0, <2>2, OneMore
  <2> QED
    BY <1>1, <2>2, <2>3, <2>4 DEF Left, Forward
<1> QED
  BY <1>2, <1>3, <1>4, <1>5, <1>6, <1>7, <1>8, <1>9, <1>10 DEF Work

\* A call that holds the lock only goes forward, whatever fails in it, and nobody
\* sets it back: it cannot keep the lock by going round in circles.
THEOREM HoldersAdvance == Spec => HolderAdvances
<1>1. IInv => Control /\ UndoInv
  BY DEF IInv, Data
<1>2. Control /\ UndoInv /\ [Next]_vars
        => [\A a \in Actor : lock = a /\ lock' = a =>
               \/ UNCHANGED <<pc[a], job[a], stageDir, copies, journal>>
               \/ Phase(a)' < Phase(a)
               \/ Phase(a)' = Phase(a) /\ Left(a)' < Left(a)]_vars
  <2> SUFFICES ASSUME Control, UndoInv, Next, NEW a \in Actor, lock = a, lock' = a
               PROVE  UNCHANGED <<pc[a], job[a], stageDir, copies, journal>> \/ Forward(a)
    BY DEF Forward
  <2> QED
    BY OthersStandBack, RecoveryGoesForward, WorkGoesForward
<1> QED
  BY <1>1, <1>2, Invariant, PTL DEF Spec, HolderAdvances

----------------------------------------------------------------------------
(* Refinement.                                                             *)

\* A step that leaves the trees and the pool alone is no step of the store.
LEMMA Stutter ==
    ASSUME UNCHANGED <<tree, file>>
    PROVE  UNCHANGED <<tree, Content>>
  BY DEF Content

\* One file comes into the pool, by an upload or a restore.
LEMMA ContentAdded ==
    ASSUME DiskTypes, NEW b \in Blob, file' = [file EXCEPT ![b] = "fresh"]
    PROVE  Content' = Content \cup {b}
  BY DEF DiskTypes, Content

\* One file goes, by the sweep or by recovery.
LEMMA ContentRemoved ==
    ASSUME DiskTypes, NEW b \in Blob, Remove(b)
    PROVE  Content' = Content \ {b}
  BY DEF DiskTypes, Content, Remove

\* Every step of the data directory is a step of the abstract store, or leaves
\* its trees and its content alone.
THEOREM StoreStep == Control /\ Data /\ [Next]_vars => [Store!Next]_<<tree, Content>>
<1> SUFFICES ASSUME Control, Data, [Next]_vars PROVE [Store!Next]_<<tree, Content>>
  OBVIOUS
<1> USE DEF disk
<1>0. DiskTypes /\ \A a \in Actor : CallInv(a)
  BY TypeSplit DEF Control
<1>1. ASSUME NEW r \in Req, RenameBlob(r) PROVE Store!Next
  <2>1. job[r].cur \in Blob
    BY <1>0, <1>1 DEF CallInv, RenameBlob, Actor
  <2>2. Content' = Content \cup {job[r].cur}
    BY <1>0, <1>1, <2>1, ContentAdded DEF RenameBlob
  <2> QED
    BY <1>1, <2>1, <2>2 DEF RenameBlob, Store!Next, Store!Store
<1>2. ASSUME NEW r \in Req, Land(r) PROVE Store!Next
  <2>1. job[r].user \in User /\ job[r].arg \in Uploads
    BY <1>0, <1>2 DEF CallInv, Land, Actor
  <2>2. Content' = Content
    BY <1>2 DEF Land, Content
  <2> QED
    BY <1>2, <2>1, <2>2 DEF Land, Store!Next, Store!Attach
<1>3. ASSUME NEW r \in Req, NEW b \in Blob, SweepRemove(r, b) PROVE Store!Next
  <2>1. b \notin Referenced
    BY <1>3 DEF SweepRemove, Data, SweepInv
  <2>2. Content' = Content \ {b}
    BY <1>0, <1>3, ContentRemoved DEF SweepRemove
  <2> QED
    BY <1>3, <2>1, <2>2 DEF SweepRemove, Store!Next, Store!Reclaim, Store!Referenced, Referenced
<1>4. ASSUME NEW a \in Actor, UndoUnlink(a) PROVE Store!Next
  <2>1. job[a].cur \in Blob
    BY <1>0, <1>4 DEF CallInv, UndoUnlink
  <2>2. job[a].cur \notin Referenced
    BY <1>4 DEF UndoUnlink, Data, UndoInv
  <2>3. Content' = Content \ {job[a].cur}
    BY <1>0, <1>4, <2>1, ContentRemoved DEF UndoUnlink
  <2> QED
    BY <1>4, <2>1, <2>2, <2>3
       DEF UndoUnlink, Store!Next, Store!Reclaim, Store!Referenced, Referenced
<1>5. ASSUME NEW r \in Req, NEW b \in Blob, InstallBlob(r, b) PROVE [Store!Next]_<<tree, Content>>
  <2>1. CASE UNCHANGED file
    BY <1>5, <2>1, Stutter DEF InstallBlob
  <2>2. CASE file' = [file EXCEPT ![b] = "fresh"]
    <3>1. Content' = Content \cup {b}
      BY <1>0, <1>5, <2>2, ContentAdded
    <3> QED
      BY <1>5, <3>1 DEF InstallBlob, Store!Next, Store!Store
  <2> QED
    BY <1>5, <2>1, <2>2 DEF InstallBlob
<1>6. ASSUME NEW r \in Req, Commit(r) PROVE Store!Next
  <2>1. job[r].user \in User /\ job[r].arg \in Archives
    BY <1>0, <1>6 DEF CallInv, Commit, Actor
  <2>2. job[r].arg \subseteq Content
    BY <1>6 DEF Commit, Data, PlanInv
  <2>3. Content' = Content
    BY <1>6 DEF Commit, Content
  <2> QED
    BY <1>6, <2>1, <2>2, <2>3 DEF Commit, Store!Next, Store!Replace
<1>7. ASSUME NEW r \in Req, LegacyReplace(r) PROVE [Store!Next]_<<tree, Content>>
  <2>1. job[r].user \in User /\ job[r].arg \in Legacy
    BY <1>0, <1>7 DEF CallInv, LegacyReplace, Actor
  <2>2. Content' = Content
    BY <1>7 DEF LegacyReplace, Content
  <2> QED
    BY <1>7, <2>1, <2>2 DEF LegacyReplace, Store!Next, Store!ReplaceLegacy
<1>8. ASSUME HourPasses PROVE UNCHANGED <<tree, Content>>
  BY <1>0, <1>8 DEF HourPasses, DiskTypes, Content
<1>9. CASE UNCHANGED <<tree, file>>
  BY <1>9, Stutter
<1>10. ASSUME NEW r \in Req,
              Begin(r) \/ Work(r) \/ Upload(r)
       PROVE  [Store!Next]_<<tree, Content>>
  BY <1>1, <1>2, <1>3, <1>5, <1>6, <1>7, <1>9, <1>10
     DEF Begin, Work, Upload, UploadBegin, StatBlob, UploadFail, SweepBegin, RestoreBegin,
         LegacyBegin, SweepEnd, StageOpen, StageCopy, StageDone, StageReject, PrepareStat,
         WriteJournal, InstallFail
<1>11. ASSUME NEW a \in Actor, Recover(a) PROVE [Store!Next]_<<tree, Content>>
  BY <1>4, <1>9, <1>11
     DEF Recover, RecoverNothing, RecoverDone, RecoverRollback, UndoCheck, UndoEnd,
         CleanCopy, CleanJournal, CleanDir, RecoveryFail
<1>12. ASSUME NEW p \in Proc, Boot(p) \/ Crash(p) PROVE [Store!Next]_<<tree, Content>>
  BY <1>9, <1>12 DEF Boot, Crash
<1> QED
  BY <1>8, <1>9, <1>10, <1>11, <1>12 DEF Next, vars

\* The data directory implements the store it promises to be: no interleaving,
\* kill or failing file operation removes content that a stored tree references,
\* half-applies an update or a restore, or commits a restore before its content.
THEOREM DataDirImplementsDocStore == Spec => ImplementsDocStore
<1>1. Init => Store!Init
  BY DEF Init, Store!Init, Content
<1>2. IInv => Control /\ Data
  BY DEF IInv
<1> QED
  BY <1>1, <1>2, StoreStep, Invariant, PTL DEF Spec, ImplementsDocStore, Store!Spec

\* A workspace whose content is all in the pool keeps it all for as long as its tree
\* stays as it is, whatever the other workspaces, the cleanup page, a failing
\* restore or a crash do to the pool they share.
THEOREM WorkspacesStayWhole ==
    Spec => [][\A u \in User : tree[u] \subseteq Content /\ tree'[u] = tree[u]
                                 => tree'[u] \subseteq Content']_vars
<1>1. Control /\ Data /\ [Next]_vars
        => [\A u \in User : tree[u] \subseteq Content /\ tree'[u] = tree[u]
                              => tree'[u] \subseteq Content']_vars
  <2> SUFFICES ASSUME Control, Data, [Next]_vars, NEW u \in User,
                      tree[u] \subseteq Content, tree'[u] = tree[u]
               PROVE  tree'[u] \subseteq Content'
    OBVIOUS
  <2>1. [Store!Next]_<<tree, Content>>
    BY StoreStep
  <2> QED
    BY <2>1 DEF Store!Next, Store!Store, Store!Attach, Store!Reclaim, Store!Replace,
                Store!ReplaceLegacy, Store!Referenced
<1>2. IInv => Control /\ Data
  BY DEF IInv
<1> QED
  BY <1>1, <1>2, Invariant, PTL DEF Spec
=============================================================================
