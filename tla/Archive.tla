------------------------------ MODULE Archive ------------------------------
(***************************************************************************)
(* A backup from downloadAll (src/handlers.go) to the verdict of           *)
(* stageRestoreArchiveLocked (src/restore.go) on the file it has become.   *)
(*                                                                         *)
(* The tree is read under the store lock and the blobs are streamed        *)
(* without it, while the data directory goes on as DocStore allows.  The   *)
(* finished file may be changed by hand or by accident before it is        *)
(* restored; what an accepted archive does to the data directory is        *)
(* DataDir's RestoreBegin to Commit.                                       *)
(***************************************************************************)
EXTENDS Integers, FiniteSets, SequencesExt

CONSTANTS
    User,      \* workspaces, of which any one is backed up
    Blob,      \* blob references
    Uploads, Archives, Legacy,  \* see DocStore
    Junk,      \* content that hashes to no reference, JSON that is no tree
    Other,     \* an entry name that is no part of a backup
    Size,      \* Size[c]: the bytes of content c
    Limits,    \* defaultRestoreLimits
    MaxEdits   \* bound: changes made to a finished file

\* A stored tree, as far as a backup is concerned: the size its attachment
\* records give for each blob they reference.
Tree == UNION {[S -> {Size[c] : c \in Blob \cup {Junk}}] : S \in SUBSET Blob}

ASSUME SizeAssumption ==
    /\ Size \in [Blob \cup {Junk} -> Nat]
    /\ Limits \in [archive : Nat, entries : Nat, task : Nat, blob : Nat, total : Nat]

\* References are SHA-256 sums, of which there are finitely many; a tree, a blob, an
\* entry's name and junk are different things.
ASSUME NameAssumption ==
    /\ IsFiniteSet(Blob)
    /\ Uploads \cup Archives \cup Legacy \subseteq SUBSET Blob
    /\ {Junk, Other, "tasks.json"} \cap Blob = {} /\ Other # "tasks.json"
    /\ (Blob \cup {Junk}) \cap Tree = {}

\* collectAttachments accepts no file above maxAttachmentBytes, the limit a
\* restore has for a blob.
ASSUME UploadAssumption == \A b \in Blob : Size[b] <= Limits.blob

VARIABLES
    tree, content,  \* the data directory, see DocStore
    at,       \* "none", "stream" (writeBackupArchive), "done" or "broken"
    saw,      \* the references in the tree that is backed up
    todo,     \* those still to be streamed
    entries,  \* the zip file
    edits,    \* how often it has been changed since
    verdict   \* what a restore of it has said, "none" before

backup == <<at, saw, todo, entries, edits, verdict>>
vars == <<tree, content, backup>>

Doc == INSTANCE DocStore

Entry(name, bytes) == [name |-> name, bytes |-> bytes, regular |-> TRUE]

Init ==
    /\ Doc!Init
    /\ at = "none"
    /\ saw = {}
    /\ todo = {}
    /\ entries = <<>>
    /\ edits = 0
    /\ verdict = "none"

----------------------------------------------------------------------------
(* downloadAll, downloadSelected                                           *)

\* Store.Load, and the entry tasks.json.
LoadTree(u) ==
    /\ at = "none"
    /\ at' = "stream"
    /\ saw' = tree[u]
    /\ todo' = tree[u]
    /\ entries' = <<Entry("tasks.json", [b \in tree[u] |-> Size[b]])>>
    /\ UNCHANGED <<tree, content, edits, verdict>>

\* addBlobEntry: a missing file is skipped.
AddBlobEntry(b) ==
    /\ at = "stream"
    /\ b \in todo
    /\ todo' = todo \ {b}
    /\ entries' = IF b \in content THEN Append(entries, Entry(b, b)) ELSE entries
    /\ UNCHANGED <<tree, content, at, saw, edits, verdict>>

\* archive.Close; or an error, which leaves a file without a directory.
FinishBackup ==
    /\ at = "stream"
    /\ at' \in IF todo = {} THEN {"done", "broken"} ELSE {"broken"}
    /\ UNCHANGED <<tree, content, saw, todo, entries, edits, verdict>>

----------------------------------------------------------------------------
(* What may become of the file.                                            *)

Damaged(e) ==
    {[e EXCEPT !.name = Other], [e EXCEPT !.regular = FALSE]}
    \cup {[e EXCEPT !.bytes = c] : c \in Blob \cup {Junk}}
    \cup IF e.bytes \in Tree
         THEN {[e EXCEPT !.bytes = [b \in DOMAIN e.bytes |-> Size[Junk]]]}
         ELSE {}

\* An entry is damaged, lost, repeated at the end, or added.
EditFile ==
    /\ at = "done" /\ verdict = "none"
    /\ edits < MaxEdits
    /\ edits' = edits + 1
    /\ \/ \E i \in DOMAIN entries :
             \/ \E e \in Damaged(entries[i]) : entries' = [entries EXCEPT ![i] = e]
             \/ entries' = RemoveAt(entries, i)
             \/ entries' = Append(entries, entries[i])
       \/ \E b \in Blob : entries' = Append(entries, Entry(b, b))
    /\ UNCHANGED <<tree, content, at, saw, todo, verdict>>

----------------------------------------------------------------------------
(* stageRestoreArchiveLocked                                               *)

\* A tree costs one byte, and one per reference.
Bytes(e) == IF e.bytes \in Tree THEN 1 + Cardinality(DOMAIN e.bytes) ELSE Size[e.bytes]

ArchiveBytes(es) ==
    LET B[i \in 0..Len(es)] == IF i = 0 THEN 0 ELSE B[i - 1] + Bytes(es[i])
    IN  B[Len(es)]

\* Where the loop over the entries is: what it has seen, tasksJSON, blobSize.
Start == [ok |-> TRUE, seen |-> {}, tasks |-> Junk, blobs |-> {}, total |-> 0]

\* validateRestoreEntryName, the duplicate check, and IsRegular.
Proper(s, e) == e.name \notin s.seen \cup {Other} /\ e.regular

\* Variant for a mutant: the limit of a blob is taken for that of all.
TakeBlob_NoTotal(s, e) ==
    [s EXCEPT !.ok = e.bytes = e.name /\ Bytes(e) <= Limits.blob,
              !.seen = @ \cup {e.name},
              !.blobs = @ \cup {e.name},
              !.total = @ + Bytes(e)]

\* stageRestoreBlob, and the sum of what it has staged.
TakeBlob(s, e) ==
    [s EXCEPT !.ok = /\ e.bytes = e.name
                     /\ Bytes(e) <= Limits.blob
                     /\ Bytes(e) <= Limits.total - s.total,
              !.seen = @ \cup {e.name},
              !.blobs = @ \cup {e.name},
              !.total = @ + Bytes(e)]

\* readRestoreEntry
TakeTasks(s, e) ==
    [s EXCEPT !.ok = Bytes(e) <= Limits.task,
              !.seen = @ \cup {e.name},
              !.tasks = e.bytes]

TakeEntry(s, e) ==
    IF ~s.ok \/ ~Proper(s, e) THEN [s EXCEPT !.ok = FALSE]
    ELSE IF e.name = "tasks.json" THEN TakeTasks(s, e) ELSE TakeBlob(s, e)

\* The loop, from the first entry to the last.
Staged(es) ==
    LET S[i \in 0..Len(es)] == IF i = 0 THEN Start ELSE TakeEntry(S[i - 1], es[i])
    IN  S[Len(es)]

\* Variant for a mutant: the entry tasks.json is not allowed for.
Fits_OneLess == ArchiveBytes(entries) <= Limits.archive /\ Len(entries) < Limits.entries

\* RestoreArchive and zip.NewReader, before anything is read.
Fits == ArchiveBytes(entries) <= Limits.archive /\ Len(entries) <= Limits.entries

\* decodeRestoredTask, validateRestoredAttachments, and that no blob is missing
\* or too many.
Accepts ==
    LET s == Staged(entries)
    IN  /\ at = "done"
        /\ Fits
        /\ s.ok
        /\ s.tasks \in Tree
        /\ s.blobs = DOMAIN s.tasks
        /\ \A b \in s.blobs : s.tasks[b] = Size[b]

Restore ==
    /\ at \in {"done", "broken"}
    /\ verdict = "none"
    /\ verdict' = IF Accepts THEN "accepted" ELSE "rejected"
    /\ UNCHANGED <<tree, content, at, saw, todo, entries, edits>>

----------------------------------------------------------------------------

Next ==
    \/ Doc!Next /\ UNCHANGED backup
    \/ \E u \in User : LoadTree(u)
    \/ \E b \in Blob : AddBlobEntry(b)
    \/ FinishBackup \/ EditFile \/ Restore

Spec == Init /\ [][Next]_vars

----------------------------------------------------------------------------
(* Properties                                                              *)

\* The size of the blobs S together: how many bytes, as (blob, position), they have.
SizeSum(S) == Cardinality(UNION {{b} \X (1..Size[b]) : b \in S})

\* What SPEC.md asks of an archive, whatever the order of its entries: every one
\* a regular file of the right name, none twice, the blobs those the tree
\* references, each with the content of its name and the recorded size, and no
\* limit exceeded.
WellFormed ==
    LET Named(n) == {i \in DOMAIN entries : entries[i].name = n}
        blobs == {b \in Blob : Named(b) # {}}
    IN  /\ at = "done"
        /\ \A i \in DOMAIN entries : entries[i].regular
        /\ \A n \in Blob \cup {"tasks.json"} : Cardinality(Named(n)) <= 1
        /\ Named(Other) = {}
        /\ \A b \in blobs, i \in DOMAIN entries : entries[i].name = b => entries[i].bytes = b
        /\ \E i \in Named("tasks.json") :
              entries[i].bytes = [b \in blobs |-> Size[b]] /\ Bytes(entries[i]) <= Limits.task
        /\ SizeSum(blobs) <= Limits.total
        /\ ArchiveBytes(entries) <= Limits.archive
        /\ Len(entries) <= Limits.entries

\* The reader accepts exactly the archives SPEC.md describes, wherever in the
\* file the flaw is and whatever stands before or after it (the loop with its
\* running total, and the checks after it).
VerdictIsRight == verdict # "none" => (verdict = "accepted" <=> WellFormed)

\* The limits leave room for a tree and each of its blobs.
WithinLimits(S) ==
    /\ 1 + Cardinality(S) <= Limits.task
    /\ 1 + Cardinality(S) <= Limits.entries
    /\ SizeSum(S) <= Limits.total
    /\ 1 + Cardinality(S) + SizeSum(S) <= Limits.archive

\* A backup that skipped nothing can be restored, whatever happened to the data
\* directory since, up to the very limits (writeBackupArchive and
\* stageRestoreArchiveLocked agree on the format).
Finished == at = "done" /\ edits = 0
CompleteBackupRestores ==
    /\ Finished /\ WithinLimits(saw)
    /\ saw \subseteq {entries[i].name : i \in DOMAIN entries}
    => Accepts

\* Every finished backup of a tree within the limits can be restored (SPEC.md:
\* "containing tasks.json and every referenced blob"; downloadAll: "self-contained").
BackupRestores == Finished /\ WithinLimits(saw) => Accepts
=============================================================================
