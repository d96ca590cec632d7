# quester in TLA+

quester keeps discussions as one task tree per workspace, in a plain directory:
`<user>.json` holds the tree, `blobs/` holds the content of attached documents
under their SHA-256, shared by all workspaces. A web form and a JSON API change
the tree, and backups are taken and restored as zip archives. There is no
database: atomicity, crash recovery and isolation are made of renames, hard
links, a journal file and two locks. This directory models that, checks it with
TLC on small instances and proves the central properties with TLAPS for all.

Everything is translated from the source; line numbers are those of the
repository this directory sits beside. `PROJECT.json` says for every definition
which lines it stands for.

## 1. Inventory

| Component | Source | State | Operations | Modelled in |
|---|---|---|---|---|
| Store lock, update | `storage.go` 28-139 | `<user>.json` per workspace, mutex of the process, `.quester.lock` | `NewStore`, `lock`, `Load`, `Update`, temp-file-and-rename save, `unlock` | `StoreUpdate`, as one lock in `DataDir` |
| Blob pool | `storage.go` 135-282 | `blobs/<sha256>`, modification times | `SaveBlob`, `OpenBlob`, unreferenced list, `DeleteUnreferencedBlobs` | `DataDir` |
| Restore | `restore.go` | `.quester-restore-*` directory: staged blobs, `tasks.json`, `journal.json` | stage, prepare, install, commit, roll back, recover, clean up; `Restore` of a bare `tasks.json` | `DataDir` |
| Uploads | `handlers.go` 357-460, `api.go` 418-517 | none of their own; files in the pool before the record lands | `collectAttachments`, `attachDocument`, `apiAttachDocument` | `DataDir` (files), `Documents` (records) |
| Task tree | `task.go`, `handlers.go`, `api.go` | nodes: parent, forum, title, flags; forums | create, reply, edit, move, promote, delete, restore, toggle, status, bulk actions, forums, downloads, exports of a selection, restores of what was downloaded | `TaskTree` |
| Pages | `views.go`, `handlers.go`, `api.go` | none | forum, detail, search and deleted pages and their API counterparts | `Pages` (which nodes), `Documents` (which documents) |
| Document revisions | `views.go` 180-475 | `Replaces` links among the attachments of a tree | documents in effect and their versions (`docTrail`), history page | `Documents` |
| Change feed | `api.go` 193-264 | `UpdatedAt` stamps; the client's newest one | `apiChanges`, `apiMentions` against all that stamps | `ChangeFeed` |
| Archive format, backup | `restore.go` 79-330, `handlers.go` 466-542 | the zip file | `writeBackupArchive`, entry validation, limits | `Archive` |
| Legacy migration | `migration.go` | source and destination directory | one-shot copy with cleanup | `Migration` |
| Input cleaning, paths | `task.go` | none | `cleanTitle`, `normalizeTree`, `FindTaskChain`, ... | in part (`TaskTree`) |
| Gate, CSRF | `auth.go`, `csrf.go` | none between requests | check of one request | no |
| Start, logging | `main.go`, `log_messages.go` | process lifetime | flags, listener, log lines | start only (`Boot`, `Start`, `Migrate`) |

**How they interact.** Every handler runs in a goroutine of some server process;
several processes may share a data directory. Whatever changes a tree does so
inside `Store.Update`, which takes the store lock, loads and normalises the
tree, calls the handler's closure, and saves by writing a temporary file and
renaming it. Restores, sweeps and recovery hold the same lock over many file
operations. `SaveBlob` holds none: an upload writes its files first and adds its
record in a later `Update`. So the pool is where lock holders and others meet,
and the directory is where a process that was killed meets its successors.

**What is hard.**

- A restore makes many files visible before the one rename that makes it take
  effect. It may be killed at any point, and so may the recovery from that.
- The sweep, recovery and rollback delete files in a pool others write to
  without the lock.
- What a handler learns from one critical section it uses in the next: a blob
  seen by `SaveBlob`, a node moved and looked up again by `apiMoveNode`, a tree
  loaded for a backup whose blobs are read later.
- The store lock has two levels, each of which may fail, and a failing unlock
  panics inside a server that survives panics.
- A new node bears the time its request arrived, not the time it became visible;
  clients poll by that time.
- Long sequences of legal tree changes: moves, promotions, deletions below
  deletions must never detach a subtree, mix forums in a thread, or bring
  deleted text back; nor must a backup or an export that is restored after them.
- Which revision of a document is in effect is worked out along a path, while
  the links between revisions go anywhere; nodes move under them.

**What makes each part correct.**

| Component | Correct when |
|---|---|
| Store | an update is made at once, on the current tree, at most once, and before it is reported; a workspace changes only by a whole update or restore; whoever takes the lock lets go of it |
| Blob pool | a referenced file is never removed; a file just uploaded is not swept before its record lands |
| Restore | it takes effect with all its content, or leaves nothing; at any moment a kill can be undone |
| Task tree | every node hangs from the root, in its thread's forum, which exists; done implies tracked; deleted stays hidden until restored; an export has each selected subtree once |
| Pages | each visible node on the page of its forum; what is shown is what requests accept; what is hidden can be found and restored |
| Documents | one document per family in effect, the newest, with the right version; superseded ones remain reachable; an upload supersedes only what it revises |
| Change feed | a client that polls from its last answer misses no change |
| Archives | the reader accepts what the format allows and nothing else; a backup that was taken can be restored |
| Migration | one run writes; the destination is complete or absent; nothing of others is removed |

The hazards, each with its line and the properties that watch it, are listed in
`PROJECT.json`.

## 2. Modules

```
AtomicStore         what Store.Update promises a handler    (abstract)
  ^ implemented by
StoreUpdate         mutex, file lock, load, save            (detailed)
  ^ extended by     MCStoreUpdate, StoreUpdateProofs

DocStore            what a data directory promises          (abstract)
  ^ implemented by
DataDir             store, blobs, restore, uploads, sweep   (detailed)
  ^ extended by     MCDataDir (instances), DataDirProofs (theorems)

Archive             a backup, and the verdict on it; runs on DocStore
  ^ extended by     MCArchive, ArchiveProofs

Migration           runs of the legacy migration and a server
  ^ extended by     MCMigration, MigrationProofs

TaskTree            one workspace's tree and its requests
  ^ extended by
Pages               what is shown of it
  ^ extended by     MCTaskTree, TaskTreeProofs

Documents           revisions, documents in effect, history
  ^ extended by     MCDocuments, DocumentsProofs

ChangeFeed          stamps, and a client that polls
  ^ extended by     MCChangeFeed, ChangeFeedProofs

Walks               what is computed along a path or a list is defined
  ^ extended by     ArchiveProofs, DocumentsProofs
```

The parts meet in few places. *An update is one step*: every module but one takes
a request's change of the tree as a single action, and `StoreUpdate` shows that
this is what `Store.Update` gives. *A tree is its references*: `DataDir` and
`Archive` see a tree as the set of blobs its records reference; what `TaskTree` and
`Documents` do to a tree inside one `Update` either leaves this set alone, adds to
it (`Land`) or replaces it (`Commit`, `LegacyReplace`): deleting a post or superseding
a revision does not drop a reference, because `referencedBlobRefsLocked` walks all of
the tree. *A directory is a DocStore*: `DataDir` is shown to implement it, and
`Archive` lets its data directory do whatever `DocStore` allows while a backup is
written. *An archive is accepted or not*: `DataDir` has `StageReject` for every
reason to refuse one; which archives are refused is in `Archive`.

### DataDir

A step is one visible file operation, by an *actor*: a request `r` served by
process `Host[r]`, or a process starting. `pc` says where the actor is in its
call, `job` holds its locals, and the rest is the disk.

| Variable | On disk |
|---|---|
| `tree[u]` | the blobs referenced by `<u>.json` |
| `file[b]` | `blobs/<b>`: absent, fresh, or older than `blobGCMinAge` |
| `stageDir`, `copies`, `journal` | the `.quester-restore-*` directory, the blobs in it, its `journal.json` |
| `linked` | the blobs for which `os.SameFile` finds the staged copy and the pool's file to be one |
| `lock` | mutex and file lock of the store together |
| `installed` | ghost: what the present restore has put in the pool |
| `abandoned` | ghost: whether a recovery or rollback of the present stage failed before it had undone everything, and left the stage to its cleanup |

| Actions | Code |
|---|---|
| `UploadBegin`, `StatBlob`, `RenameBlob`, `Land`, `UploadFail` | `collectAttachments` / `apiAttachDocument`: `SaveBlob` per file (stat; temporary file; rename), then `Update` |
| `SweepBegin`, `SweepRemove`, `SweepEnd` | `DeleteUnreferencedBlobs` |
| `Boot` | `NewStore` |
| `RecoverNothing`, `RecoverDone`, `RecoverRollback`, `UndoCheck`, `UndoUnlink`, `UndoEnd` | `recoverRestoreStagesLocked`, `recoverRestoreStageLocked` |
| `CleanCopy`, `CleanJournal`, `CleanDir` | `cleanupRestoreStage` (the order in which the directory is read: blobs, journal, tree) |
| `RestoreBegin`, `StageOpen`, `StageCopy`, `StageDone`, `StageReject` | `RestoreArchive`, `stageRestoreArchiveLocked` |
| `PrepareStat`, `WriteJournal` | `prepareRestoreCommitLocked` |
| `InstallBlob`, `InstallFail`, `Commit` | `installRestoreBlobLocked`, `rollbackRestoreErrorLocked`, `replaceFileLocked` |
| `LegacyBegin`, `LegacyReplace` | `Restore` |
| `RecoveryFail` | any error return of recovery, rollback or cleanup |
| `Crash`, `HourPasses` | a process is killed, with all its requests; time goes by |

One recovery routine serves four callers (start of a process, start of each kind
of restore, rollback of an install), which `job[a].ret` tells apart.

*What is assumed.* A kill, not a power cut: what was written stays written, and a
directory sync only succeeds or fails. `blobGCMinAge` (an hour) passes only
between calls: no request lasts that long. Temporary files left by a kill
(`blob.*.tmp`, `.<user>.json.*.tmp`) are not represented; nothing reads them and
nothing removes them. There is at most one staging directory, since every restore
recovers first and a failing recovery stops it. A tree is its reference set, and
the hash of a tree is that set: two trees with equal references and different
hashes send recovery into its other branch, which leaves the same files because it
skips each referenced blob.

### DocStore

The promise, without files, steps or locks: trees and content, changed by
`Store`, `Reclaim` (of unreferenced content only), `Attach`, `Replace` (only with
all of the content there) and `ReplaceLegacy`. `DataDir` implements it with
`content` mapped to the set of existing files; every step of `DataDir` is one
step of `DocStore` or none. DocStore does **not** promise that a freshly attached
record has its content; the run `reuse` shows why it cannot.

### StoreUpdate and AtomicStore

| Variable | In the code |
|---|---|
| `mu[p]` | the request that holds `Store.mu` of process `p` |
| `held[p]`, `flock` | what `flock.Flock` of `p` remembers; what the kernel grants |
| `copy[r]` | the tree `r` loaded |
| `done[r]` | whether its `Update` will return, or returned, nil |

| Actions | Code |
|---|---|
| `Arrive`, `LockMutex`, `LockFile`, `LockFail` | `Update`, `lock` and its error return |
| `Load`, `Refuse`, `Save` | `loadUnlocked`, an error of load, closure or save, `saveUnlocked` |
| `UnlockFile`, `UnlockMutex`, `UnlockFail` | `unlock`; the panic, after which the deferred mutex release and gin's recovery run |
| `Crash`, `Start` | a process is killed; another begins |

A `Flock` that remembers it is locked returns from `Lock` at once. So after a failed
unlock the process still has the file, no other process gets in, and its own next
request goes through. The update of request `r` flips `r` in the tree: a change
that is lost, undone or made twice shows. `AtomicStore` has `Ask`, `Apply`,
`Confirm` and `GiveUp`, the last both before and after `Apply`: an error, a panic
or a kill may follow the save, and the client cannot tell.

### Archive

`LoadTree`, `AddBlobEntry` and `FinishBackup` are `downloadAll` and
`writeBackupArchive`; between them the data directory takes steps of `DocStore`.
`EditFile` is what may happen to a finished file outside the program (an entry
removed, repeated, added, renamed, replaced or made irregular, up to `MaxEdits`
times). `Staged` is the loop of `stageRestoreArchiveLocked` with its running total, one
`TakeEntry` per entry; `Accepts` adds the checks around it. Sizes are natural numbers,
and content is known by its reference.

### Migration

Each run `m` of the command is at `pc[m]`; `written[m]` is what its cleanup will
remove. A file has an inode (which run created it) apart from its content, because
the server's save renames over a name while the command goes on writing to the file
it opened. `Begin` is the validation of all sources and the look at the destination,
then come `MakeDir`, and `CreateFile` and `WriteFile` (or `WriteFail`) per source,
`Succeed`, or `CleanFile`, `CleanEnd`, `CleanDir`. `ServerStart`, `ServerLoad`,
`ServerSave` and `ServerStop` are a server on the destination; `Discard` an operator.
The ghost `left` records that a kill or a failed removal left something behind.

### TaskTree

Each request changes the tree in one `Update`, so one action is one request:
its closure with the normalisation that follows, every guard included.

| Actions | Code |
|---|---|
| `CreatePost`, `CreateReply`, `CreateUnderRootID` | `addWaypoint`, `apiCreateNode` (the last: with the root's own ID as `parent_id`) |
| `CreateForum` | `addForum`, `apiCreateForum` |
| `MoveBeneath`, `Promote` | `moveTask` of `moveWaypoint` and `apiMoveNode` |
| `Delete`, `Restore`, `Edit`, `Toggle`, `SetStatus` | `deleteWaypoint`, `restoreWaypoint`, `editWaypoint`, `toggle`, `apiSetStatus` |
| `BulkCheck`, `BulkDelete` | `applyBulkTaskAction` |
| `Download` | `downloadAll`, which a client keeps |
| `Export` | `bulkTasks` with `export`: `selectedTaskExport`, which a client keeps |
| `RestoreArchive` | `restoreAll` of something kept: the tree there is gives way to that one; of a tree of schema 0, `normalizeForums` and `normalizeChildren` title and track every node and put it into the default forum |

`Subtree(n)` is the set of nodes that are in every set that contains `n` and is
closed under replies. That is what the recursive walks of `task.go` visit, and it
needs no recursion, so that the proofs can use it.

`archives` has what clients have kept: each backup and each export as it was when it
was made, and, from `Init` on, perhaps a legacy file (`Legacy`). Any of them can be
restored at any time, and again, however much has been moved, deleted, restored or
replaced since. The field `shown` of an archive is a ghost: which nodes were visible
when it was made. The properties of what comes into sight and goes out of it refer to
it, since an archive brings back its own time: `HiddenUntilRestored` says that no
archive shows a node that was hidden when it was made, though it may show one deleted
since, and `OnlyDeletionHides` that none hides a node that was visible when it was
made, though it may put one back below a post that was deleted then. A node that
either archive or tree lacks is not hidden but absent.

Node IDs are unique (`newTaskID` draws 16 random bytes). Trees a user edits by
hand, with repeated IDs or forums of their own making, are not modelled (section 6); nor are archives of
other workspaces, which share no node with this one. The root's own flags are left out: they decide nothing on any page.

### Pages

No state of its own: operators on the state of `TaskTree`. Requests find a node and
walk *up* (`Visible`, from `visibleTaskChain`); pages walk *down*: `ForumPage`
(`summary`, `apiForumNodes`), `DetailPage` (`detailed`, `apiGetNode`) and `SearchPage`
(`buildSearchResults`) over visible children, `DeletedPage` (`buildDeletedTaskNodes`)
over all. A page's set is, again, a least closed set. Filters (`filter=new`, the
search text) are left out: a page here is the page without one.

### Documents

The attachments of each place in order, the links between them, and just enough
of the tree (parents, deletions, restores of exports) to move documents about. An
export is made and restored in one step there: an older archive brings back a tree of
the same kind, and no property of `Documents` compares the tree before a restore with
the one after it.
`Trail` is `docTrail` with its three maps after each document in turn on the path from
the root (`Path`), `Snapshot` is `docTrail.snapshot` with the version of each document;
`Lineage` and `Below` are the two loops of `buildDocumentHistory`, the second, which
goes on until nothing is added, as a least closed set. All nodes are there
from the start and documents are attached one by one; a request with several files is
several steps.

### ChangeFeed

A small tree (parent, forum, content, deleted) whose nodes are stamped from a clock
that `Tick` advances, and one client, of one of the two feeds, that asks from
`Overlap` before the newest stamp it has received. `Compose` is `newTask`, before an
upload and the wait for the lock; `Land` the update that follows, at most `Patience`
later; `Abort` its failure. The other actions stamp inside their update. `Told(n)` is
what `apiNode` says of a node, `Due(n)` whether the next poll will report it,
`Poll` the poll. The ghost `passed` has the mentions that a poll has left out because
something above them was deleted.

## 3. Runs

Each run answers one question. Bounds: model values, in the `.cfg`.

| Run | Configuration | Instance | Shows |
|---|---|---|---|
| `faults` | `DataDirFaults` | 2 processes with one request each, 2 workspaces, 2 blobs, kills and I/O errors | `TypeOK`, `JournalCoversInstalled`, `SweepSparesUploads`, `AbortedRestoreUndone`, `HolderAdvances`, and that `DataDir` implements `DocStore` |
| `lock` | `DataDirLive` | 1 workspace, I/O errors, fairness | `LockIsReleased` |
| `update` | `StoreUpdate` | 2 processes with 2 requests each, failing locks and unlocks, kills, fairness | `CopyIsCurrent`, `NoDeadlock`, `SomebodyGetsIn`, and that `StoreUpdate` implements `AtomicStore` |
| `archive` | `Archive` | 3 blobs, up to 2 edits of the file | `VerdictIsRight`, `CompleteBackupRestores` |
| `migration` | `Migration` | 3 runs, 3 legacy files of 2 users, a server, errors and kills | `OneMigrator`, `NoHalfFiles`, `AllOrNothing` |
| `tree` | `TaskTree` | 3 nodes, 2 forums, 1 archive kept, within `Bounds` | `Rooted`, `RepliesShareForum`, `ForumsExist`, `CheckedIsTracked`, `ExportIsExact`, `HiddenUntilRestored`, `TitlesStay`; of `Pages`: `OnItsForumsPage`, `WalksAgree`, `HiddenIsRestorable`, `OnlyDeletionHides` |
| `documents` | `Documents` | 3 nodes and the root, 4 documents | `EffectIsNewest`, `VersionCountsFamily`, `SupersededIsInHistory`, `ReplacementsEnd`, `UploadSparesOthers` |
| `feed` | `ChangeFeed` | 2 nodes, 2 forums, 4 instants | `ChangesReachClient`, `MentionsReachClient` |
| `reuse`, `below`, `backup`, `migrate` | `DataDirReuse`, `DocumentsBelow`, `ArchiveBackup`, `MigrationServer` | as small as shows it | the findings of section 4 |

**Why these bounds are enough.** *DataDir*: every interaction in the code is between
two parties, a holder of the lock and one that does not need it (an upload), or a
killed process and its successor; two processes with one request each give all of
them, including a kill during a recovery from a kill. A third request that wants
the lock only waits. Two workspaces are needed for a blob that one references and
another restores; two blobs for an order between files. An archive holds one blob
or both; an upload carries both (singles in `lock`), one after the other, and may stop
in between. *StoreUpdate*: two requests contend for a mutex, two processes for the
file, and the second request of a process is the one that finds a lock its
predecessor could not give back. *Archive*: b1 and b2 together reach the limits of
the tree file, of the entries and of all blobs exactly, b3 alone that of a blob, and b1
with b3 exceeds one limit by one; two edits are the least with which one flaw can
hide another or make up for it. *Migration*: two sources with one user are a
collision, two with different users an order of files; a third run finds what the
second left of the first. *TaskTree*: three nodes make a chain of three, two
siblings and the moves among them; every operation touches one node, its new parent
and what is below, and a bulk action any subset. Two forums are the least with
something to mix up. `Bounds` in `MCTaskTree` keeps the run small once somebody has kept
an archive: one at a time, with no node done and every node tracked (status decides
nothing about sight), and, where there are three nodes, all titled and in one forum. An
archive of two nodes, a parent and a reply, and a workspace of three are what it takes
for every way an archive can disagree with the tree it replaces: a node moved out, moved
under another, deleted, restored, or missing. Without an archive the run has every tree
of three nodes. *Documents*: four documents make a chain with a branch; three
nodes and the root give sibling branches, one of them longer than the other, and a
path of four. *ChangeFeed*: a node
and a reply to it are what a move, a deletion or a restore acts on;
`Patience = Overlap = 1` makes the two exactly equal, where an error by one shows,
and `MaxTime = 3` leaves room for a poll before, during and after a request. The
theorems of section 5 remove the bounds wherever the table there says so. Symmetric
sets (users, nodes, documents, forums, runs of the migration) are declared in safety
runs only; no definition tells their members apart.

**Fairness.** `LockIsReleased` needs weak fairness of the steps of recovery and of a
request that holds the lock (`Fairness` in `DataDir`). Code under the lock waits for
nothing but the disk, takes no other lock and reads no network (an uploaded archive has
been received in full before `RestoreArchive` is called), so a goroutine in it goes on
until it returns or its process is killed. `SomebodyGetsIn` needs the same of a
request in `Update` (`Proceed`), and strong fairness of `LockMutex` of each
request: a waiter for a `sync.Mutex` goes into starvation mode after a millisecond and
is then handed the mutex. Nothing is assumed of the order in which processes get
the file lock, which the kernel does not promise; nothing is claimed about
one process being served. No fairness is assumed of arrivals, starts or kills.

**Deadlock** is checked in every run: with the whole system idle something can still
arrive.

## 4. Findings

Four runs check what a document or a comment of the repository says and TLC shows
otherwise. `PROJECT.json` quotes each place.

| Run | Said | What the code does |
|---|---|---|
| `reuse` | orphan blobs are harmless and reused on the next upload (`handlers.go:368`) | `SaveBlob` does not refresh the time of a file it finds; a sweep may remove an old orphan between that look and the record, which then has no content |
| `below` | Below lists revisions that descend from the selected one (`views.go:366`) | it also lists its siblings' |
| `backup` | a full backup has every referenced blob (`SPEC.md:64`) | a blob whose file is missing is skipped, the backup ends as a success, and a restore refuses it |
| `migrate` | reads and writes of trees take the data-directory lock (`SPEC.md:36`) | the migration takes none; its cleanup removes the tree a server has saved under a name it was about to create |

Seen on the way, and not given a run of their own:

- Recovery compares inodes and then removes by name (`restore.go:519`); an upload,
  which takes no lock, may rename its own file there in between, and `SPEC.md:66`
  says that recovery removes only what the restore installed. `DataDir` has the
  window (`UndoCheck`, `UndoUnlink`); what holds is that nothing *referenced* is lost.
- After a rollback that failed halfway the deferred cleanup removes the journal (`restore.go:93`),
  and the next open has nothing to go by. This is the exception `abandoned` in
  `AbortedRestoreUndone`.
- A top-level post may be untitled (`SPEC.md:52`): made with the root's ID as
  `parent_id` (`api.go:302`), or a restored export of an untitled reply. `TitlesStay`
  is about the other requests, and the nodes there are.
- A restore brings back its own time: a post deleted since is visible again, and a
  reply that has been moved out from under a deleted post is back under it. No document
  promises otherwise; what holds is in section 2, under TaskTree.
- The migration leaves what a kill leaves: a part of the destination, which it refuses
  the next time and which a server would open (`migration.go:55`).
- An update can be saved and still answered with an error (`storage.go:64`), so that a
  client repeats it: `GiveUp` after `Apply` in `AtomicStore`.
- `apiMoveNode` looks the moved node up once more after the update (`api.go:398`) and
  panics if a restore has removed it in between. It has answered nothing and changed
  nothing more by then.
- A replacement above the document it replaces, or on a sibling branch, starts a
  family of its own there (`views.go:245`; `SPEC.md:60` speaks of "each explicit
  revision family"). `EffectIsNewest` is about the families of one path.
- A move changes the forum of every reply in the thread and stamps only the moved node
  (`task.go:755`). A client of `apiChanges` that keeps the `forum_id` of a reply has a
  stale one; one that takes a reply's forum from its post does not, and this is the
  client of `ChangesReachClient`.
- A mention below a deleted post that is restored is not reported any more
  (`api.go:259`): the exception `passed` in `MentionsReachClient`.
- A server that saves into a destination while the migration has the file open makes
  the migration go on writing to an unlinked file, and report success
  (`migration.go:158`).
- A hand-made backup may bring in forums that do not exist and replies outside their
  post's forum (`task.go:266` fills in what is missing and keeps the rest); then
  neither `ForumsExist` nor `RepliesShareForum` holds.
- `apiSetStatus` with `none` makes a top-level post untracked, where `SPEC.md:5` says
  that one is a tracked task; and `README.md:41` still says that attachments sharing a
  name are versions of one document, which `SPEC.md:58` and the code have given up.

## 5. Proofs

Checked with tlapm 1.4.5 (SMT, Zenon, PTL); no step is left without a proof. The
assumptions are the named ones of the modules: disjoint names, types, a default
forum, one process for each request, and `Patience <= Overlap`. Only blob references
are assumed to be finitely many (`DataDir`, `Archive`): they are SHA-256 sums, and the
theorems that need it add up sizes or count files. No other set is assumed finite, and
no limit, size or number of edits has an assumption beyond its type.

| Module | For every | Proved |
|---|---|---|
| `DataDirProofs` | number of processes, requests, workspaces, blobs | `TypeOK`, `JournalCoversInstalled`, `SweepSparesUploads`, `AbortedRestoreUndone`, `HolderAdvances`, refinement of `DocStore`, and `WorkspacesStayWhole` from it |
| `StoreUpdateProofs` | number of processes and requests | `CopyIsCurrent`, `NoDeadlock`, refinement of `AtomicStore` |
| `ArchiveProofs` | number of blobs, their sizes, the limits, archives of any length | `VerdictIsRight`, `CompleteBackupRestores` |
| `MigrationProofs` | legacy directory, number of runs | `OneMigrator`, `NoHalfFiles`, `AllOrNothing` |
| `TaskTreeProofs` | number of nodes and forums | all properties of `TaskTree` and of `Pages` |
| `DocumentsProofs` | number of nodes and documents | all properties of run `documents` |
| `ChangeFeedProofs` | number of nodes and forums, all times | `ChangesReachClient`, `MentionsReachClient` |
| `Walks` | | lemmas only |

**`DataDirProofs`.** The properties are not inductive. `Invariant` proves the
conjunction of

- `Control`: types; exactly the actor in a locked section holds `lock`, so at most
  one is in one; the locals of a call are those of the place where it is;
- `Data`: journal, staged copies and pool fit together. No directory means no
  copies and no journal; linked files are staged and in the pool; before the install
  there is no journal; the archive is within what is staged and what is still to be
  staged, then within what is in the pool and what is still to be installed; what a
  sweep or a rollback has left to remove is referenced by nobody; what a sweep
  lists is old and what a running upload wrote is not.

From this follow `TypeCorrect`, `JournalAlwaysCovers`, `SweepsSpare` and the
refinement `DataDirImplementsDocStore`: the step `Commit` maps to `Replace` because
the data part says that when nothing is left to install the archive is in the
pool, and each removal maps to `Reclaim` because it says that the removed blob is
not referenced. `RestoresAreUndone` needs a third part, `Residue`: unless the stage
was abandoned, whatever it has installed is linked to its copy or referenced, and,
as long as there is a journal, in it; once there is none, or cleaning up has begun, it
is referenced. `HoldersAdvance` counts a call down in two numbers, the part of it that
is reached (`Phase`) and what is left to do in that part (`Left`): each step of the
holder lowers the first, or keeps it and lowers the second, and the others leave both
alone (`OthersStandBack`). The order of the parts is the argument: a rollback comes
after an install and its cleanup last, so that no error leads back.

**`StoreUpdateProofs`.** `IInv`: a request past the mutex is the one its process's
mutex names; a process remembers the file lock exactly while the kernel grants it;
between load and unlock a request is in such a process; what is about to be saved was
loaded from the tree as it is. Two requests inside have the same process by the second part
and are the same by the first (`OneInside`), so no save disturbs another's copy.
`UpdateIsAtomic` then maps `Save` to `Apply`, a return to `Confirm` or `GiveUp`, and
a kill to several at once. `NeverDeadlocked` adds that a process that remembers the
file lock and has nobody past the mutex got there by a failed unlock (`OrphanInv`). So if
every request waits, the file lock is free, or is held for a request that is past the
mutex and goes on, or such a failure is to blame.

**`Walks`.** What the code computes along a path or a list is a recursive function in
the model, which the provers do not expand by themselves. `WalkExists` shows that
the equations of a walk from a root through a tree without cycles have a solution, and
`LoopExists` the same of a loop of n steps, both by taking the least place where there
is none. From there on the proofs use the equations.

**`ArchiveProofs`.** `LoopIsRight` says where the loop is after i entries: it goes on
exactly as long as the entries so far have no flaw that SPEC.md names, and its locals
hold the names, the blobs, the tree and the total of what it has read. One step of
it is `ReadStep`, and that a flaw stays whatever follows is `FlawsStay`. With the
checks before and after the loop this is `AcceptsIs`; SPEC.md in the same terms
is `WellFormedIs`; and the two are equal. The invariant is `TypeOK`, that a file nobody
has changed is what `writeBackupArchive` makes (`Backup`: the tree first, and each blob
that is neither skipped nor still to come, once), and `VerdictIsRight`. The totals are
sums over sets of blobs, told as the number of their bytes (`SizeSums`).

**`MigrationProofs`.** `IInv` says for each phase of a run what is in the
destination: while it writes, the sources done so far and nothing that is not on its
list; while it cleans up, nothing that is not on its list; before the directory is
removed, nothing. `os.Mkdir` makes the run the only one in such a phase. The parts that
hold only without a server or a leftover say so.

**`TaskTreeProofs`.** `ShapeInvariant` proves the conjunction `Shape`: types, done implies
tracked, parents are in the tree, no set of
nodes hangs from itself, replies share the forum, forums exist, the default forum
among them (it must, since `CreateUnderRootID` relies on it). A move keeps the second
because a set closed under parents would contain, with the moved node, its whole
chain up to the new parent, and that is not in the moved subtree. The lemmas about
`Subtree` (reflexive, transitive, closed under replies, unchanged or shrunk by a
move) work with closed sets instead of induction. `ExportsAreExact` needs of a
selection that each node has a top-most selected node above it: the nodes without
one would hang from themselves. `DeletedStaysHidden` is the action property, by a
case for each kind of change (flags, parents, a restore). Of a restore it needs to know
what an archive is: `Shape` has a part for those kept (`GoodArchive`), that each is
itself a tree of that shape, and that the nodes it would show (those with nothing deleted
above them in it) are in `shown`, as is, the other way round, each of its nodes that was
visible. A backup is the tree at its time, so this is `Visible` again (`BackupGood`). A
selection consists of whole subtrees below visible nodes (`SelectionShows`). A restore
then makes the tree the archive's (`RestoreShows`).

*Pages* rest on `Shape` and add no invariant. A visible node is one that is
not deleted and replies to nothing or to a visible node (`VisibleStep`), so whatever a
page reaches is visible; and the topmost visible node a page missed would reply to
one it shows, which is absurd (`ForumPageIs`, `DetailPageIs`; `Rooted` gives the
topmost one). `OnlyDeletionsHide` follows from one lemma for each kind of change: no
node comes to be below a node that was deleted before; and, for archives, from
`RestoreShows`.

**`DocumentsProofs`.** `IInv` has three parts: types, with each document in one place,
once; no set of documents has all its replacements in itself; and no set of
nodes hangs from itself. A new document is in no older one's `Replaces`, because only
attached ones are and it was never attached. The third part makes `Path` a walk and
the second makes `Lineage` one (`Walks`), and `Trail` is a loop over the first. The
invariant of that loop is that `roots` maps each document so far to the first one of
its family, `counts` has the sizes of the families, and `current` the last
of each: this is `EffectIsAlwaysNewest` and `VersionsAreFamilySizes`.
For `NothingSupersededIsLost`, the last document of a family has the first one in its
chain, and so the whole family on its page, in the chain or below. For
`UploadsSpareOthers`, an upload inserts one document into the paths through its node and
changes no family of the others, so what it puts out of effect was the last of the family
that it joined.

**`ChangeFeedProofs`.** `IInv`: the cursor and all stamps are in the past; a node being
composed will land within `Patience` of its stamp; and the two properties, without
visibility. The step that matters is `Land`: the stamp is no further back than `Patience`,
the cursor no further on than now, and `Patience <= Overlap`.

**Only model-checked.** `LockIsReleased` and `SomebodyGetsIn`, the two liveness
properties: they need fairness and ENABLED, which the provers do not treat. What is
proved of them is their safety half: a holder of the lock goes nowhere but forward, and
the requests never all wait for one another.

## 6. Not modelled

- *Trees other programs wrote*, with the present schema: repeated IDs, unknown
  forums, cyclic `Replaces` links. Legacy trees are in (`Legacy`).
- *Archives of other workspaces*: they bring a tree with other nodes, and otherwise do
  what one's own do.
- *String functions*: titles, IDs, tags, paths, metadata, and the look-up of a node by
  a path instead of its ID. They keep no state and have unit tests.
- *Users, authors, due dates, priorities and tags* of nodes: stored and shown, and
  nothing depends on them. The text, order and filters of pages, and the version
  numbers of the history page.
- *Power loss*: a kill leaves what was written; `fsync` only succeeds or fails.
- *A directory with a tree that does not parse*, beyond making a step fail; temporary
  files that a kill leaves.
- *The gate and the CSRF token*: checks of a single request, without state.
- *Flags, listener, log lines, templates.*

What would come next: the restore of a backup in `ChangeFeed` (a client would have to
notice that stamps went back), the look-up by path in `Pages`, and the version
numbers of the history page in `Documents`, which count differently from those of a
node's page where a family branches.
