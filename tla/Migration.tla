----------------------------- MODULE Migration -----------------------------
(***************************************************************************)
(* quester -migrate-from (src/migration.go): a one-shot copy of legacy     *)
(* task files into a data directory that must not exist, with cleanup when *)
(* it fails; tried by several operators or boot scripts, killed at any     *)
(* step, and with a server that opens the destination meanwhile.           *)
(*                                                                         *)
(* The command takes no lock: its only guards are that it makes the        *)
(* directory and each file itself (os.Mkdir, O_EXCL).                      *)
(***************************************************************************)
CONSTANTS
    Source,    \* legacy *.json files
    File,      \* <user>.json files of a data directory
    Target,    \* Target[s]: safeUserID of the name of s
    Migrator,  \* runs of the command
    None,      \* no run, no file
    IOErrors   \* whether file operations may fail

ASSUME SourceAssumption == Source # {} /\ Target \in [Source -> File]
ASSUME MigratorAssumption == None \notin Migrator \cup File /\ IOErrors \in BOOLEAN

VARIABLES
    legacy,   \* the sources that are in the legacy directory
    dir,      \* whether the destination exists
    lockfile, \* whether it holds the .quester.lock of a server
    file,     \* file[f]: what is in f
    inode,    \* inode[f]: the run that created the file f is, or None
    pc,       \* pc[m]: where run m is
    todo,     \* todo[m]: the sources still to be written
    cur,      \* cur[m]: the one m has open
    written,  \* written[m]: the paths its cleanup will remove
    up,       \* whether a server runs on the destination
    update,   \* the updates it is in the middle of: one or none
    left      \* ghost: whether a kill or a failed removal left something behind

dest == <<dir, lockfile, file, inode>>
locals == <<todo, cur, written>>
server == <<up, update>>
vars == <<legacy, dest, pc, locals, server, left>>

\* "served": a tree a server has saved; "merged": one based on migrated data.
Saved == {"served", "merged"}
Contents == {"none", "empty", "partial", "migrated"} \cup Saved

\* Two legacy names may be the same user.
Collision == \E s, t \in legacy : s # t /\ Target[s] = Target[t]

Busy == {"mkdir", "create", "write", "cleanup", "rmdir"}
PC == {"idle", "ok"} \cup Busy

Init ==
    /\ legacy \in SUBSET Source
    /\ dir = FALSE
    /\ lockfile = FALSE
    /\ file = [f \in File |-> "none"]
    /\ inode = [f \in File |-> None]
    /\ pc = [m \in Migrator |-> "idle"]
    /\ todo = [m \in Migrator |-> {}]
    /\ cur = [m \in Migrator |-> None]
    /\ written = [m \in Migrator |-> {}]
    /\ up = FALSE
    /\ update = {}
    /\ left = FALSE

Goto(m, l) == pc' = [pc EXCEPT ![m] = l]

----------------------------------------------------------------------------
(* migrateLegacyData                                                       *)

\* The sources are read and validated, and the destination is looked for.
\* (A source that is invalid or cannot be read ends the run before it begins.)
Begin(m) ==
    /\ pc[m] \in {"idle", "ok"}
    /\ legacy # {}
    /\ ~Collision
    /\ ~dir
    /\ Goto(m, "mkdir")
    /\ todo' = [todo EXCEPT ![m] = legacy]
    /\ written' = [written EXCEPT ![m] = {}]
    /\ UNCHANGED <<dest, cur, server, left>>

\* Variant for a mutant: os.MkdirAll.
MakeDir_All(m) ==
    /\ pc[m] = "mkdir"
    /\ Goto(m, "create")
    /\ dir' = TRUE
    /\ UNCHANGED <<lockfile, file, inode, locals, server, left>>

\* os.Mkdir: it exists by now, or not.
MakeDir(m) ==
    /\ pc[m] = "mkdir"
    /\ Goto(m, IF dir THEN "idle" ELSE "create")
    /\ dir' = TRUE
    /\ UNCHANGED <<lockfile, file, inode, locals, server, left>>

\* Variant for a mutant: a path is recorded once its file is complete.
CreateFile_Unrecorded(m, s) ==
    /\ pc[m] = "create"
    /\ s \in todo[m]
    /\ todo' = [todo EXCEPT ![m] = @ \ {s}]
    /\ written' = [written EXCEPT ![m] = {Target[t] : t \in legacy \ todo[m]}]
    /\ \/ /\ file[Target[s]] = "none"
          /\ Goto(m, "write")
          /\ cur' = [cur EXCEPT ![m] = Target[s]]
          /\ file' = [file EXCEPT ![Target[s]] = "empty"]
          /\ inode' = [inode EXCEPT ![Target[s]] = m]
       \/ /\ file[Target[s]] # "none" \/ IOErrors
          /\ Goto(m, "cleanup")
          /\ UNCHANGED <<cur, file, inode>>
    /\ UNCHANGED <<dir, lockfile, server, left>>

\* The path is recorded, then the file is created exclusively.
CreateFile(m, s) ==
    /\ pc[m] = "create"
    /\ s \in todo[m]
    /\ todo' = [todo EXCEPT ![m] = @ \ {s}]
    /\ written' = [written EXCEPT ![m] = @ \cup {Target[s]}]
    /\ \/ /\ file[Target[s]] = "none"
          /\ Goto(m, "write")
          /\ cur' = [cur EXCEPT ![m] = Target[s]]
          /\ file' = [file EXCEPT ![Target[s]] = "empty"]
          /\ inode' = [inode EXCEPT ![Target[s]] = m]
       \/ /\ file[Target[s]] # "none" \/ IOErrors
          /\ Goto(m, "cleanup")
          /\ UNCHANGED <<cur, file, inode>>
    /\ UNCHANGED <<dir, lockfile, server, left>>

\* file.Write reaches the file it opened, whether that still has its name or not.
WriteFile(m) ==
    /\ pc[m] = "write"
    /\ \E c \in {"partial", "migrated"} :
          /\ file' = IF inode[cur[m]] = m THEN [file EXCEPT ![cur[m]] = c] ELSE file
          /\ IF c = "migrated" THEN Goto(m, "create") /\ cur' = [cur EXCEPT ![m] = None]
             ELSE UNCHANGED <<pc, cur>>
    /\ UNCHANGED <<dir, lockfile, inode, todo, written, server, left>>

\* Writing, syncing or closing fails.
WriteFail(m) ==
    /\ IOErrors
    /\ pc[m] = "write"
    /\ Goto(m, "cleanup")
    /\ cur' = [cur EXCEPT ![m] = None]
    /\ UNCHANGED <<dest, todo, written, server, left>>

Succeed(m) ==
    /\ pc[m] = "create"
    /\ todo[m] = {}
    /\ Goto(m, "ok")
    /\ written' = [written EXCEPT ![m] = {}]
    /\ UNCHANGED <<dest, todo, cur, server, left>>

\* cleanupMigrationDestination: each path, ...
CleanFile(m, f) ==
    /\ pc[m] = "cleanup"
    /\ f \in written[m]
    /\ written' = [written EXCEPT ![m] = @ \ {f}]
    /\ \/ /\ file' = [file EXCEPT ![f] = "none"]
          /\ inode' = [inode EXCEPT ![f] = None]
          /\ UNCHANGED left
       \/ /\ IOErrors
          /\ left' = TRUE
          /\ UNCHANGED <<file, inode>>
    /\ UNCHANGED <<dir, lockfile, pc, todo, cur, server>>

CleanEnd(m) ==
    /\ pc[m] = "cleanup"
    /\ written[m] = {}
    /\ Goto(m, "rmdir")
    /\ UNCHANGED <<dest, locals, server, left>>

\* Variant for a mutant: the files are removed, the directory stays.
CleanDir_Keeps(m) ==
    /\ pc[m] = "rmdir"
    /\ Goto(m, "idle")
    /\ todo' = [todo EXCEPT ![m] = {}]
    /\ UNCHANGED <<dest, cur, written, server, left>>

\* ... and the directory, if nothing else is in it.
CleanDir(m) ==
    /\ pc[m] = "rmdir"
    /\ Goto(m, "idle")
    /\ todo' = [todo EXCEPT ![m] = {}]
    /\ \/ /\ dir' = (dir /\ (lockfile \/ \E f \in File : file[f] # "none"))
          /\ UNCHANGED left
       \/ /\ IOErrors
          /\ left' = TRUE
          /\ UNCHANGED dir
    /\ UNCHANGED <<lockfile, file, inode, cur, written, server>>

Kill(m) ==
    /\ pc[m] \in Busy
    /\ Goto(m, "idle")
    /\ todo' = [todo EXCEPT ![m] = {}]
    /\ cur' = [cur EXCEPT ![m] = None]
    /\ written' = [written EXCEPT ![m] = {}]
    /\ left' = TRUE
    /\ UNCHANGED <<dest, server>>

----------------------------------------------------------------------------
(* A server with the destination as its data directory.                    *)

\* NewStore: os.MkdirAll, and the lock file.
ServerStart ==
    /\ ~up
    /\ up' = TRUE
    /\ dir' = TRUE
    /\ lockfile' = TRUE
    /\ UNCHANGED <<file, inode, pc, locals, update, left>>

\* loadUnlocked: no file or an empty one is an empty tree, a partial one an
\* error.
ServerLoad(f) ==
    /\ up
    /\ update = {}
    /\ file[f] # "partial"
    /\ update' = {[file |-> f, saves |-> IF file[f] \in {"migrated", "merged"} THEN "merged"
                                         ELSE "served"]}
    /\ UNCHANGED <<dest, pc, locals, up, left>>

\* saveUnlocked: the rename makes it another file.
ServerSave ==
    /\ \E u \in update :
          /\ file' = [file EXCEPT ![u.file] = u.saves]
          /\ inode' = [inode EXCEPT ![u.file] = None]
    /\ update' = {}
    /\ UNCHANGED <<dir, lockfile, pc, locals, up, left>>

ServerStop ==
    /\ up
    /\ up' = FALSE
    /\ update' = {}
    /\ UNCHANGED <<dest, pc, locals, left>>

\* The operator removes the directory by hand.
Discard ==
    /\ dir
    /\ ~up
    /\ \A m \in Migrator : pc[m] \notin Busy
    /\ dir' = FALSE
    /\ lockfile' = FALSE
    /\ file' = [f \in File |-> "none"]
    /\ inode' = [f \in File |-> None]
    /\ left' = FALSE
    /\ UNCHANGED <<pc, locals, server>>

----------------------------------------------------------------------------

Migrate(m) ==
    \/ Begin(m) \/ MakeDir(m) \/ WriteFile(m) \/ WriteFail(m) \/ Succeed(m)
    \/ CleanEnd(m) \/ CleanDir(m) \/ Kill(m)
    \/ \E s \in Source : CreateFile(m, s)
    \/ \E f \in File : CleanFile(m, f)

Next ==
    /\ \/ \E m \in Migrator : Migrate(m)
       \/ \E f \in File : ServerLoad(f)
       \/ ServerStart \/ ServerSave \/ ServerStop
       \/ Discard
    /\ UNCHANGED legacy

Spec == Init /\ [][Next]_vars

----------------------------------------------------------------------------
(* Properties                                                              *)

Writing(m) == pc[m] \in Busy \ {"mkdir"}

\* Of several runs into one destination, one writes (os.Mkdir, which fails on a
\* directory that has come into being since it was looked for).
OneMigrator == \A m, n \in Migrator : Writing(m) /\ Writing(n) => m = n

\* A run that returned, with or without an error, left no half-written file: what
\* is there can be loaded (cleanupMigrationDestination).  Except where it was
\* killed, or could not remove what it had written.
NoHalfFiles ==
    left \/ (\E m \in Migrator : Writing(m))
         \/ \A f \in File : file[f] \notin {"empty", "partial"}

\* Where no server has been, the destination has all of the legacy data or does
\* not exist (SPEC.md: it "validates and normalizes all source JSON files into
\* an unused destination").  With the same exceptions.
AllOrNothing ==
    left \/ lockfile \/ (\E m \in Migrator : Writing(m))
         \/ ~dir \/ \A s \in legacy : file[Target[s]] = "migrated"

\* What a server has saved, no run of the command removes or overwrites (SPEC.md:
\* "Task-tree reads and writes take both an in-process lock and an advisory
\* data-directory lock").
ServerDataStays ==
    [][\A m \in Migrator, f \in File : Migrate(m) /\ file[f] \in Saved => file'[f] = file[f]]_vars
=============================================================================
