------------------------------ MODULE DataDir ------------------------------
(***************************************************************************)
(* The data directory of quester (src/storage.go, src/restore.go and the   *)
(* upload half of src/handlers.go): the task tree of every workspace, the  *)
(* blob pool they share, and the staging directory of an archive restore,  *)
(* worked on by the requests of several server processes that may be       *)
(* killed between any two steps.                                           *)
(*                                                                         *)
(* A tree is abstracted to the set of blobs its records reference, and the *)
(* hash in the restore journal to the tree it is the hash of.  (Two trees  *)
(* with the same references and different titles have different hashes;    *)
(* recovery then takes its other branch, which skips every referenced blob *)
(* and so leaves the same files.)                                          *)
(*                                                                         *)
(* A step is one visible file operation.  Store.Update keeps the lock from *)
(* loading the tree to the rename that replaces it, and nothing reads or   *)
(* writes a tree without the lock: it is one step.                         *)
(***************************************************************************)
EXTENDS Naturals, FiniteSets

CONSTANTS
    User,      \* workspaces (file IDs)
    Blob,      \* blob references
    Req,       \* request handlers, one request each at a time
    Proc,      \* server processes sharing the data directory
    Host,      \* Host[r]: the process that serves r
    None,      \* no actor, user, blob or journal
    Uploads,   \* the blob sets one attach request may carry
    Archives,  \* the blob sets a backup archive may carry
    Legacy,    \* the blob sets a bare tasks.json may reference
    IOErrors   \* whether file operations may fail

Actor == Req \cup Proc

\* restoreJournal: the workspace, the hash of the staged tree, the new blobs.
Journal == [user : User, hash : SUBSET Blob, new : SUBSET Blob]

ASSUME ActorAssumption ==
    /\ Req \cap Proc = {}
    /\ Host \in [Req -> Proc]
    /\ None \notin Actor \cup User \cup Blob \cup Journal

ASSUME DataAssumption ==
    /\ Uploads \subseteq SUBSET Blob
    /\ Archives \subseteq SUBSET Blob
    /\ Legacy \subseteq SUBSET Blob
    /\ IOErrors \in BOOLEAN

\* References are SHA-256 sums, of which there are finitely many.
ASSUME FiniteAssumption == IsFiniteSet(Blob)

VARIABLES
    tree,      \* tree[u]: the blobs referenced by <user>.json
    file,      \* file[b]: blobs/<b>, "absent", "fresh" or "old" (blobGCMinAge)
    linked,    \* the blobs whose file is the inode of the staged copy
    stageDir,  \* whether a .quester-restore- directory exists
    copies,    \* the blobs staged in it
    journal,   \* its journal.json, or None
    lock,      \* the holder of the store lock (mu and the file lock), or None
    pc,        \* pc[a]: where actor a is
    job,       \* job[a]: the local variables of a's call
    installed, \* ghost: the blobs in the pool that the present stage put there
    abandoned  \* ghost: whether a rollback failed before it was done

disk == <<tree, file, linked, stageDir, copies, journal, installed, abandoned>>
vars == <<disk, lock, pc, job>>

\* Where a call of recoverRestoreStagesLocked or cleanupRestoreStage returns:
\* to NewStore, into RestoreArchive, into Restore, out of a rollback, out of a
\* request.
Return == {"up", "stage", "replace", "undone", "idle"}

Recovery == {"recover", "undo", "unlink", "clean"}
Locked == Recovery \cup {"sweep", "stage", "replace", "prepare", "install"}
ReqPC == Locked \cup {"idle", "upload", "rename"}
ProcPC == Recovery \cup {"down", "up"}

Job == [user : User \cup {None}, arg : SUBSET Blob, todo : SUBSET Blob,
        cur : Blob \cup {None}, new : SUBSET Blob, wrote : SUBSET Blob,
        ret : Return]

NoJob == [user |-> None, arg |-> {}, todo |-> {}, cur |-> None, new |-> {},
          wrote |-> {}, ret |-> "idle"]

Content == {b \in Blob : file[b] # "absent"}

\* referencedBlobRefsLocked: deleted posts and superseded revisions included.
Referenced == UNION {tree[u] : u \in User}

\* Variant for a mutant: without the minimum age.
Garbage_AnyAge == {b \in Blob : file[b] # "absent"} \ Referenced

\* unreferencedBlobsLocked(blobGCMinAge)
Garbage == {b \in Blob : file[b] = "old"} \ Referenced

Init ==
    /\ tree = [u \in User |-> {}]
    /\ file = [b \in Blob |-> "absent"]
    /\ linked = {}
    /\ stageDir = FALSE
    /\ copies = {}
    /\ journal = None
    /\ lock = None
    /\ pc = [a \in Actor |-> IF a \in Proc THEN "down" ELSE "idle"]
    /\ job = [a \in Actor |-> NoJob]
    /\ installed = {}
    /\ abandoned = FALSE

----------------------------------------------------------------------------
(* Control: starting, continuing and leaving a call.                       *)

Goto(a, l) == pc' = [pc EXCEPT ![a] = l]

\* Variant for a mutant: a process that fails to start is taken for running.
Leave_StillUp(a) ==
    /\ Goto(a, "idle")
    /\ job' = [job EXCEPT ![a] = NoJob]

\* The call is over: it gives up its locals.
Leave(a) ==
    /\ Goto(a, IF a \in Proc THEN "down" ELSE "idle")
    /\ job' = [job EXCEPT ![a] = NoJob]

\* A request arrives at a running process.
Arrives(r) == pc[r] = "idle" /\ pc[Host[r]] = "up"

\* The routine for stages is done: its caller goes on, or is done too.
Resume(a) ==
    \/ /\ job[a].ret = "up"
       /\ Goto(a, "up")
       /\ job' = [job EXCEPT ![a] = NoJob]
       /\ lock' = None
    \/ /\ job[a].ret \in {"stage", "replace"}
       /\ Goto(a, job[a].ret)
       /\ job' = [job EXCEPT ![a].ret = "idle"]
       /\ UNCHANGED lock
    \/ /\ job[a].ret \in {"undone", "idle"}
       /\ Leave(a)
       /\ lock' = None

\* A file leaves the pool.
Remove(b) ==
    /\ file' = [file EXCEPT ![b] = "absent"]
    /\ linked' = linked \ {b}
    /\ installed' = installed \ {b}

----------------------------------------------------------------------------
(* Uploads: collectAttachments, attachDocument, apiAttachDocument.  SaveBlob *)
(* takes no lock.                                                            *)

UploadBegin(r, u, S) ==
    /\ Arrives(r)
    /\ Goto(r, "upload")
    /\ job' = [job EXCEPT ![r] = [NoJob EXCEPT !.user = u, !.arg = S, !.todo = S]]
    /\ UNCHANGED <<disk, lock>>

\* SaveBlob, os.Stat: a blob that is there already is not written again.
StatBlob(r, b) ==
    /\ pc[r] = "upload"
    /\ b \in job[r].todo
    /\ \/ /\ b \in Content
          /\ UNCHANGED pc
          /\ job' = [job EXCEPT ![r].todo = @ \ {b}]
       \/ /\ b \notin Content
          /\ Goto(r, "rename")
          /\ job' = [job EXCEPT ![r].cur = b]
    /\ UNCHANGED <<disk, lock>>

\* SaveBlob, os.Rename: replaces whatever is there by now.
RenameBlob(r) ==
    /\ pc[r] = "rename"
    /\ file' = [file EXCEPT ![job[r].cur] = "fresh"]
    /\ linked' = linked \ {job[r].cur}
    /\ installed' = installed \ {job[r].cur}
    /\ Goto(r, "upload")
    /\ job' = [job EXCEPT ![r].todo = @ \ {job[r].cur}, ![r].cur = None,
                          ![r].wrote = @ \cup {job[r].cur}]
    /\ UNCHANGED <<tree, stageDir, copies, journal, abandoned, lock>>

\* Store.Update with the attachment records.
Land(r) ==
    /\ pc[r] = "upload"
    /\ job[r].todo = {}
    /\ lock = None
    /\ tree' = [tree EXCEPT ![job[r].user] = @ \cup job[r].arg]
    /\ Leave(r)
    /\ UNCHANGED <<file, linked, stageDir, copies, journal, installed, abandoned, lock>>

\* Too large, no such task, the client went away: what was stored stays.
UploadFail(r) ==
    /\ pc[r] \in {"upload", "rename"}
    /\ Leave(r)
    /\ UNCHANGED <<disk, lock>>

----------------------------------------------------------------------------
(* The cleanup page: DeleteUnreferencedBlobs.                              *)

SweepBegin(r) ==
    /\ Arrives(r)
    /\ lock = None
    /\ lock' = r
    /\ Goto(r, "sweep")
    /\ job' = [job EXCEPT ![r] = [NoJob EXCEPT !.todo = Garbage]]
    /\ UNCHANGED disk

SweepRemove(r, b) ==
    /\ pc[r] = "sweep"
    /\ b \in job[r].todo
    /\ Remove(b)
    /\ job' = [job EXCEPT ![r].todo = @ \ {b}]
    /\ UNCHANGED <<tree, stageDir, copies, journal, abandoned, lock, pc>>

\* Variant for a mutant: an error return without unlock.
SweepEnd_NoUnlock(r) ==
    /\ pc[r] = "sweep"
    /\ job[r].todo = {} \/ IOErrors
    /\ lock' = IF job[r].todo = {} THEN None ELSE lock
    /\ Leave(r)
    /\ UNCHANGED disk

SweepEnd(r) ==
    /\ pc[r] = "sweep"
    /\ job[r].todo = {} \/ IOErrors
    /\ lock' = None
    /\ Leave(r)
    /\ UNCHANGED disk

----------------------------------------------------------------------------
(* recoverRestoreStages: at the start of a process, of Restore and of      *)
(* RestoreArchive, and (for its own stage) in the rollback of the latter.  *)

\* NewStore
Boot(p) ==
    /\ pc[p] = "down"
    /\ lock = None
    /\ lock' = p
    /\ Goto(p, "recover")
    /\ job' = [job EXCEPT ![p].ret = "up"]
    /\ UNCHANGED disk

RecoverNothing(a) ==
    /\ pc[a] = "recover"
    /\ ~stageDir
    /\ Resume(a)
    /\ UNCHANGED disk

\* Variant for a mutant: every stage is taken for a finished one.
RecoverDone_Always(a) ==
    /\ pc[a] = "recover"
    /\ stageDir
    /\ Goto(a, "clean")
    /\ UNCHANGED <<disk, lock, job>>

\* No journal, or the workspace holds the restored tree: only clean up.
RecoverDone(a) ==
    /\ pc[a] = "recover"
    /\ stageDir
    /\ journal # None => journal.hash = tree[journal.user]
    /\ Goto(a, "clean")
    /\ UNCHANGED <<disk, lock, job>>

\* Variant for a mutant: blobs that have come into use are taken back too.
RecoverRollback_All(a) ==
    /\ pc[a] = "recover"
    /\ stageDir
    /\ journal # None /\ journal.hash # tree[journal.user]
    /\ Goto(a, "undo")
    /\ job' = [job EXCEPT ![a].todo = journal.new]
    /\ UNCHANGED <<disk, lock>>

\* The tree was not replaced: take back the blobs that are not in use.
RecoverRollback(a) ==
    /\ pc[a] = "recover"
    /\ stageDir
    /\ journal # None /\ journal.hash # tree[journal.user]
    /\ Goto(a, "undo")
    /\ job' = [job EXCEPT ![a].todo = journal.new \ Referenced]
    /\ UNCHANGED <<disk, lock>>

\* Stat of the staged copy and of the file in the pool, and os.SameFile.
UndoCheck(a, b) ==
    /\ pc[a] = "undo"
    /\ b \in job[a].todo
    /\ \/ /\ b \in copies \cap Content \cap linked
          /\ Goto(a, "unlink")
          /\ job' = [job EXCEPT ![a].cur = b]
       \/ /\ b \notin copies \cap Content \cap linked
          /\ job' = [job EXCEPT ![a].todo = @ \ {b}]
          /\ UNCHANGED pc
    /\ UNCHANGED <<disk, lock>>

\* os.Remove, of whatever has that name by now.
UndoUnlink(a) ==
    /\ pc[a] = "unlink"
    /\ Remove(job[a].cur)
    /\ Goto(a, "undo")
    /\ job' = [job EXCEPT ![a].todo = @ \ {job[a].cur}, ![a].cur = None]
    /\ UNCHANGED <<tree, stageDir, copies, journal, abandoned, lock>>

UndoEnd(a) ==
    /\ pc[a] = "undo"
    /\ job[a].todo = {}
    /\ Goto(a, "clean")
    /\ UNCHANGED <<disk, lock, job>>

\* cleanupRestoreStage, in the order of the directory: the staged blobs, ...
CleanCopy(a, b) ==
    /\ pc[a] = "clean"
    /\ b \in copies
    /\ copies' = copies \ {b}
    /\ linked' = linked \ {b}
    /\ UNCHANGED <<tree, file, stageDir, journal, installed, abandoned, lock, pc, job>>

\* Variant for a mutant: the journal is removed first.
CleanJournal_First(a) ==
    /\ pc[a] = "clean"
    /\ journal # None
    /\ journal' = None
    /\ UNCHANGED <<tree, file, linked, stageDir, copies, installed, abandoned, lock, pc, job>>

\* ... journal.json, ...
CleanJournal(a) ==
    /\ pc[a] = "clean"
    /\ copies = {}
    /\ journal # None
    /\ journal' = None
    /\ UNCHANGED <<tree, file, linked, stageDir, copies, installed, abandoned, lock, pc, job>>

\* ... tasks.json, and the directory.
CleanDir(a) ==
    /\ pc[a] = "clean"
    /\ copies = {}
    /\ journal = None
    /\ stageDir' = FALSE
    /\ installed' = {}
    /\ abandoned' = FALSE
    /\ Resume(a)
    /\ UNCHANGED <<tree, file, linked, copies, journal>>

\* Variant for a mutant: a rollback that fails is tried again.
RecoveryFail_Retry(a) ==
    /\ IOErrors
    /\ pc[a] \in Recovery
    /\ \/ /\ job[a].ret = "undone"
          /\ Goto(a, "recover")
          /\ job' = [job EXCEPT ![a].todo = {}, ![a].cur = None]
          /\ UNCHANGED lock
       \/ /\ job[a].ret # "undone"
          /\ Leave(a)
          /\ lock' = None
    /\ UNCHANGED disk

\* A file operation of the routine fails.  The caller returns the error; after
\* a failed rollback the deferred cleanup of RestoreArchive runs all the same.
RecoveryFail(a) ==
    /\ IOErrors
    /\ pc[a] \in Recovery
    /\ \/ /\ job[a].ret = "undone"
          /\ abandoned' = (abandoned \/ pc[a] # "clean")
          /\ Goto(a, "clean")
          /\ job' = [job EXCEPT ![a].ret = "idle", ![a].todo = {}, ![a].cur = None]
          /\ UNCHANGED lock
       \/ /\ job[a].ret # "undone"
          /\ Leave(a)
          /\ lock' = None
          /\ UNCHANGED abandoned
    /\ UNCHANGED <<tree, file, linked, stageDir, copies, journal, installed>>

----------------------------------------------------------------------------
(* RestoreArchive, and Restore for a bare tasks.json.                      *)

RestoreBegin(r, u, S) ==
    /\ Arrives(r)
    /\ lock = None
    /\ lock' = r
    /\ Goto(r, "recover")
    /\ job' = [job EXCEPT ![r] =
                  [NoJob EXCEPT !.user = u, !.arg = S, !.ret = "stage"]]
    /\ UNCHANGED disk

\* stageRestoreArchiveLocked: the directory, ...
StageOpen(r) ==
    /\ pc[r] = "stage"
    /\ ~stageDir
    /\ stageDir' = TRUE
    /\ job' = [job EXCEPT ![r].todo = job[r].arg]
    /\ UNCHANGED <<tree, file, linked, copies, journal, installed, abandoned, lock, pc>>

\* ... a verified copy of each blob ...
StageCopy(r, b) ==
    /\ pc[r] = "stage"
    /\ stageDir
    /\ b \in job[r].todo
    /\ copies' = copies \cup {b}
    /\ job' = [job EXCEPT ![r].todo = @ \ {b}]
    /\ UNCHANGED <<tree, file, linked, stageDir, journal, installed, abandoned, lock, pc>>

\* ... and the staged tasks.json.
StageDone(r) ==
    /\ pc[r] = "stage"
    /\ stageDir
    /\ job[r].todo = {}
    /\ Goto(r, "prepare")
    /\ job' = [job EXCEPT ![r].todo = job[r].arg]
    /\ UNCHANGED <<disk, lock>>

\* The archive is not what it should be, or (prepare) the commit cannot start:
\* RestoreArchive returns the error and its deferred cleanup runs.
StageReject(r) ==
    /\ \/ pc[r] = "stage"
       \/ pc[r] = "prepare" /\ IOErrors
    /\ \/ /\ stageDir
          /\ Goto(r, "clean")
          /\ job' = [job EXCEPT ![r].todo = {}, ![r].new = {}]
          /\ UNCHANGED lock
       \/ /\ ~stageDir
          /\ Leave(r)
          /\ lock' = None
    /\ UNCHANGED disk

\* prepareRestoreCommitLocked: which blobs are missing from the pool ...
PrepareStat(r, b) ==
    /\ pc[r] = "prepare"
    /\ b \in job[r].todo
    /\ \/ b \in Content /\ job' = [job EXCEPT ![r].todo = @ \ {b}]
       \/ b \notin Content /\ job' = [job EXCEPT ![r].todo = @ \ {b},
                                                 ![r].new = @ \cup {b}]
    /\ UNCHANGED <<disk, lock, pc>>

\* ... goes into the journal, before the first of them is installed.  When the
\* directory cannot be synced the journal is written, and then cleaned up.
WriteJournal(r) ==
    /\ pc[r] = "prepare"
    /\ job[r].todo = {}
    /\ journal' = [user |-> job[r].user, hash |-> job[r].arg, new |-> job[r].new]
    /\ \/ /\ Goto(r, "install")
          /\ job' = [job EXCEPT ![r].todo = job[r].arg, ![r].new = {}]
       \/ /\ IOErrors
          /\ Goto(r, "clean")
          /\ job' = [job EXCEPT ![r].new = {}]
    /\ UNCHANGED <<tree, file, linked, stageDir, copies, installed, abandoned, lock>>

\* installRestoreBlobLocked: a hard link to the staged copy, unless the blob is
\* there, be it only since a moment ago.
InstallBlob(r, b) ==
    /\ pc[r] = "install"
    /\ b \in job[r].todo
    /\ \/ /\ b \in Content
          /\ UNCHANGED <<file, linked, installed>>
       \/ /\ b \notin Content
          /\ file' = [file EXCEPT ![b] = "fresh"]
          /\ linked' = linked \cup {b}
          /\ installed' = installed \cup {b}
    /\ job' = [job EXCEPT ![r].todo = @ \ {b}]
    /\ UNCHANGED <<tree, stageDir, copies, journal, abandoned, lock, pc>>

\* A blob cannot be installed or synced, or tasks.json cannot be replaced:
\* rollbackRestoreErrorLocked.
InstallFail(r) ==
    /\ IOErrors
    /\ pc[r] = "install"
    /\ Goto(r, "recover")
    /\ job' = [job EXCEPT ![r].todo = {}, ![r].ret = "undone"]
    /\ UNCHANGED <<disk, lock>>

\* The rename of the staged tasks.json.  When the directory cannot be synced
\* the stage is left to the next recovery.
Commit(r) ==
    /\ pc[r] = "install"
    /\ job[r].todo = {}
    /\ tree' = [tree EXCEPT ![job[r].user] = job[r].arg]
    /\ \/ /\ Goto(r, "clean")
          /\ UNCHANGED <<lock, job>>
       \/ /\ IOErrors
          /\ Leave(r)
          /\ lock' = None
    /\ UNCHANGED <<file, linked, stageDir, copies, journal, installed, abandoned>>

\* Restore
LegacyBegin(r, u, S) ==
    /\ Arrives(r)
    /\ lock = None
    /\ lock' = r
    /\ Goto(r, "recover")
    /\ job' = [job EXCEPT ![r] = [NoJob EXCEPT !.user = u, !.arg = S, !.ret = "replace"]]
    /\ UNCHANGED disk

LegacyReplace(r) ==
    /\ pc[r] = "replace"
    /\ \/ tree' = [tree EXCEPT ![job[r].user] = job[r].arg]
       \/ IOErrors /\ UNCHANGED tree
    /\ Leave(r)
    /\ lock' = None
    /\ UNCHANGED <<file, linked, stageDir, copies, journal, installed, abandoned>>

----------------------------------------------------------------------------
(* The environment.                                                        *)

\* A process is killed with all it was doing; the kernel releases its flock.
Crash(p) ==
    LET dead == {p} \cup {r \in Req : Host[r] = p}
    IN  /\ pc[p] # "down"
        /\ pc' = [a \in Actor |-> IF a \notin dead THEN pc[a]
                                  ELSE IF a \in Proc THEN "down" ELSE "idle"]
        /\ job' = [a \in Actor |-> IF a \in dead THEN NoJob ELSE job[a]]
        /\ lock' = IF lock \in dead THEN None ELSE lock
        /\ UNCHANGED disk

\* blobGCMinAge (an hour) goes by.  Assumed: no call lasts that long.
HourPasses ==
    /\ \A a \in Actor : pc[a] \in {"idle", "up", "down"}
    /\ file' = [b \in Blob |-> IF file[b] = "fresh" THEN "old" ELSE file[b]]
    /\ UNCHANGED <<tree, linked, stageDir, copies, journal, installed, abandoned, lock, pc, job>>

----------------------------------------------------------------------------

Recover(a) ==
    \/ RecoverNothing(a) \/ RecoverDone(a) \/ RecoverRollback(a)
    \/ UndoUnlink(a) \/ UndoEnd(a)
    \/ CleanJournal(a) \/ CleanDir(a)
    \/ RecoveryFail(a)
    \/ \E b \in Blob : UndoCheck(a, b) \/ CleanCopy(a, b)

\* The steps of a request that holds the lock.
Work(r) ==
    \/ SweepEnd(r)
    \/ StageOpen(r) \/ StageDone(r) \/ StageReject(r) \/ WriteJournal(r)
    \/ InstallFail(r) \/ Commit(r) \/ LegacyReplace(r)
    \/ \E b \in Blob : SweepRemove(r, b) \/ StageCopy(r, b)
                       \/ PrepareStat(r, b) \/ InstallBlob(r, b)

Upload(r) ==
    \/ \E u \in User, S \in Uploads : UploadBegin(r, u, S)
    \/ \E b \in Blob : StatBlob(r, b)
    \/ RenameBlob(r) \/ Land(r) \/ UploadFail(r)

Begin(r) ==
    \/ SweepBegin(r)
    \/ \E u \in User, S \in Archives : RestoreBegin(r, u, S)
    \/ \E u \in User, S \in Legacy : LegacyBegin(r, u, S)

Next ==
    \/ \E r \in Req : Upload(r) \/ Begin(r) \/ Work(r)
    \/ \E a \in Actor : Recover(a)
    \/ \E p \in Proc : Boot(p) \/ Crash(p)
    \/ HourPasses

Spec == Init /\ [][Next]_vars

\* A holder of the lock that is not killed goes on with its call: no step of it
\* waits for anything.
Fairness ==
    /\ \A a \in Actor : WF_vars(Recover(a))
    /\ \A r \in Req : WF_vars(Work(r))

FairSpec == Spec /\ Fairness

----------------------------------------------------------------------------
(* Properties                                                              *)

TypeOK ==
    /\ tree \in [User -> SUBSET Blob]
    /\ file \in [Blob -> {"absent", "fresh", "old"}]
    /\ linked \subseteq Blob
    /\ stageDir \in BOOLEAN
    /\ copies \subseteq Blob
    /\ journal \in Journal \cup {None}
    /\ lock \in Actor \cup {None}
    /\ pc \in [Actor -> ReqPC \cup ProcPC]
    /\ \A r \in Req : pc[r] \in ReqPC
    /\ \A p \in Proc : pc[p] \in ProcPC
    /\ job \in [Actor -> Job]
    /\ installed \subseteq Blob
    /\ abandoned \in BOOLEAN

\* The data directory keeps the promises of DocStore: whatever is killed, fails
\* or interleaves, a workspace changes only by a whole update or restore, a
\* restored archive takes effect with all of its content in the pool, and no
\* file is removed while a stored tree references it (DeleteUnreferencedBlobs,
\* recoverRestoreStageLocked, RestoreArchive).
Store == INSTANCE DocStore WITH content <- Content
ImplementsDocStore == Store!Spec

\* Whatever a restore has linked into the pool while its staged copy is there is
\* in the journal on disk, so that a crash at any point can be undone
\* (prepareRestoreCommitLocked before installRestoreBlobLocked, and the order in
\* which cleanupRestoreStage removes).
JournalCoversInstalled ==
    linked # {} => journal # None /\ linked \subseteq journal.new

\* The cleanup page never lists a file that an upload in flight has just
\* written, although the upload holds no lock and no record references the file
\* yet (the minimum age, handlers.go:44 and storage.go:210).
SweepSparesUploads ==
    \A g, r \in Req : pc[g] = "sweep" => job[g].todo \cap job[r].wrote = {}

\* When the staging directory of a restore goes away, whatever the restore put
\* in the pool is in use: an aborted restore leaves nothing behind
\* (recoverRestoreStageLocked; SPEC.md, "Backup and restore").  Except where its
\* rollback failed: RestoreArchive then cleans the stage up all the same, and
\* what was installed stays until the cleanup page is used.
AbortedRestoreUndone ==
    [][stageDir /\ ~stageDir' => abandoned \/ installed \subseteq Referenced]_vars

\* What an upload has stored is there when its record is about to land
\* (handlers.go:368, "Orphan blobs ... reused on the next upload").
SavedContentStays ==
    \A r \in Req : pc[r] = "upload" /\ job[r].todo = {} => job[r].arg \subseteq Content

\* How far the holder of the lock has come, counted down: the part of its call ...
Phase(a) ==
    LET again == job[a].ret = "undone"  \* in the rollback of a restore
    IN  CASE pc[a] \in {"sweep", "replace"}  -> 0
          [] pc[a] = "clean"               -> IF job[a].ret = "idle" THEN 1
                                              ELSE IF again THEN 2 ELSE 9
          [] pc[a] \in {"undo", "unlink"}   -> IF again THEN 3 ELSE 10
          [] pc[a] = "recover"             -> IF again THEN 4 ELSE 11
          [] pc[a] = "install"             -> 5
          [] pc[a] = "prepare"             -> 6
          [] pc[a] = "stage"               -> IF stageDir THEN 7 ELSE 8

\* ... and what is left in it: files to go through, files and a journal to remove.
Left(a) ==
    2 * Cardinality(job[a].todo) + Cardinality(copies)
      + (IF pc[a] = "undo" THEN 1 ELSE 0) + (IF journal # None THEN 1 ELSE 0)

\* A call that holds the lock only goes forward: a step of it ends the call, or brings
\* it closer to its end, errors and rollbacks included, and no step of another sets
\* it back.  So it can neither go round in circles nor be kept busy (RestoreArchive
\* and its deferred cleanup, recoverRestoreStagesLocked, DeleteUnreferencedBlobs).
HolderAdvances ==
    [][\A a \in Actor : lock = a /\ lock' = a =>
          \/ UNCHANGED <<pc[a], job[a], stageDir, copies, journal>>
          \/ Phase(a)' < Phase(a)
          \/ Phase(a)' = Phase(a) /\ Left(a)' < Left(a)]_vars

\* Whoever takes the store lock lets go of it: no request and no start of a
\* process waits for ever on a restore, a sweep or a recovery (Store.lock).
LockIsReleased == \A a \in Actor : lock = a ~> lock # a
============================================================================
