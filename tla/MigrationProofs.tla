-------------------------- MODULE MigrationProofs --------------------------
(***************************************************************************)
(* Proofs about Migration: for any legacy directory, any number of runs    *)
(* and any failures, at most one run writes, and what the runs leave in a  *)
(* destination no server has opened is all or nothing.                     *)
(*                                                                         *)
(* The invariant says what the file system holds in each phase of a run:   *)
(* the sources done so far while it writes, nothing but what is on its     *)
(* list while it cleans up, nothing at all when only the directory is left.*)
(***************************************************************************)
EXTENDS Migration, TLAPS

Half == {"empty", "partial"}

TypeOK ==
    /\ legacy \subseteq Source
    /\ dir \in BOOLEAN
    /\ lockfile \in BOOLEAN
    /\ file \in [File -> Contents]
    /\ inode \in [File -> Migrator \cup {None}]
    /\ pc \in [Migrator -> PC]
    /\ todo \in [Migrator -> SUBSET Source]
    /\ cur \in [Migrator -> File \cup {None}]
    /\ written \in [Migrator -> SUBSET File]
    /\ up \in BOOLEAN
    /\ update \in SUBSET [file : File, saves : Saved]
    /\ left \in BOOLEAN

\* A run that writes made the directory, and it is there.
Owned == \A m \in Migrator : Writing(m) => dir

\* A server keeps the directory in place; without one nothing is saved.
ServerDir == /\ lockfile => dir
             /\ up => lockfile
             /\ update # {} => up

\* Files are in a directory.
Placed == ~dir => \A f \in File : file[f] = "none"

\* A half-written file is being written or is on the list of a cleanup.
Owns(m, f) == \/ pc[m] = "write" /\ cur[m] = f /\ inode[f] = m
              \/ pc[m] = "cleanup" /\ f \in written[m]

HalfOwned ==
    left \/ \A f \in File : file[f] \in Half => \E m \in Migrator : Owns(m, f)

\* Without a server the file a run has open keeps its name.
Own == ~lockfile => \A m \in Migrator : pc[m] = "write" => inode[cur[m]] = m

\* What a run has open is on its list, and the list is done before the directory
\* goes.
Listed ==
    \A m \in Migrator : /\ pc[m] = "write" => cur[m] \in written[m]
                        /\ pc[m] = "rmdir" => written[m] = {}

\* What is there, in each phase, where no server has been.
Phase(m) ==
    /\ pc[m] = "mkdir" => todo[m] = legacy
    /\ pc[m] = "create" => \A s \in legacy \ todo[m] : file[Target[s]] = "migrated"
    /\ pc[m] = "write" => \A s \in legacy \ todo[m] :
                              Target[s] = cur[m] \/ file[Target[s]] = "migrated"
    /\ Writing(m) => \A f \in File : file[f] # "none" => f \in written[m]

Phases == left \/ lockfile \/ \A m \in Migrator : Phase(m)

IInv == /\ TypeOK
        /\ OneMigrator
        /\ Owned
        /\ ServerDir
        /\ Placed
        /\ HalfOwned
        /\ Own
        /\ Listed
        /\ Phases
        /\ AllOrNothing

----------------------------------------------------------------------------
\* A run that begins has done nothing yet.
LEMMA BeginStep ==
    ASSUME IInv, UNCHANGED legacy, NEW m \in Migrator, Begin(m)
    PROVE  IInv'
<1> USE SourceAssumption, MigratorAssumption
         DEF IInv, Goto, Writing, Busy, dest, locals, server
<1>1. TypeOK'
  BY DEF TypeOK, PC, Begin
<1>2. OneMigrator'
  BY DEF TypeOK, OneMigrator, Owned, Begin
<1>3. Owned'
  BY DEF TypeOK, Owned, OneMigrator, Begin
<1>4. ServerDir'
  BY DEF TypeOK, ServerDir, Begin
<1>5. Placed'
  BY DEF TypeOK, Placed, Owned, ServerDir, OneMigrator, Begin
<1>6. HalfOwned'
  BY DEF TypeOK, HalfOwned, Half, Owns, Saved, Listed, Begin
<1>7. Own'
  BY DEF TypeOK, Own, OneMigrator, ServerDir, Begin
<1>8. Listed'
  BY DEF TypeOK, Listed, OneMigrator, Begin
<1>9. Phases'
  BY DEF TypeOK, Phases, Phase, Own, Listed, Placed, ServerDir, OneMigrator, Owned, Begin
<1>10. AllOrNothing'
  BY DEF TypeOK, AllOrNothing, Phases, Phase, ServerDir, Placed, Owned, Begin
<1> QED
  BY <1>1, <1>2, <1>3, <1>4, <1>5, <1>6, <1>7, <1>8, <1>9, <1>10

\* The directory did not exist: no other run writes, and nothing is in it.
LEMMA MakeDirStep ==
    ASSUME IInv, UNCHANGED legacy, NEW m \in Migrator, MakeDir(m)
    PROVE  IInv'
<1> USE SourceAssumption, MigratorAssumption
         DEF IInv, Goto, Writing, Busy, dest, locals, server
<1>1. TypeOK'
  BY DEF TypeOK, PC, MakeDir
<1>2. OneMigrator'
  BY DEF TypeOK, OneMigrator, Owned, MakeDir
<1>3. Owned'
  BY DEF TypeOK, Owned, OneMigrator, MakeDir
<1>4. ServerDir'
  BY DEF TypeOK, ServerDir, MakeDir
<1>5. Placed'
  BY DEF TypeOK, Placed, Owned, ServerDir, OneMigrator, MakeDir
<1>6. HalfOwned'
  BY DEF TypeOK, HalfOwned, Half, Owns, Saved, Listed, MakeDir
<1>7. Own'
  BY DEF TypeOK, Own, OneMigrator, ServerDir, MakeDir
<1>8. Listed'
  BY DEF TypeOK, Listed, OneMigrator, MakeDir
<1>9. Phases'
  BY DEF TypeOK, Phases, Phase, Own, Listed, Placed, ServerDir, OneMigrator, Owned, MakeDir
<1>10. AllOrNothing'
  BY DEF TypeOK, AllOrNothing, Phases, Phase, ServerDir, Placed, Owned, MakeDir
<1> QED
  BY <1>1, <1>2, <1>3, <1>4, <1>5, <1>6, <1>7, <1>8, <1>9, <1>10

\* The file that is created is on the list, and the run's own.
LEMMA CreateFileStep ==
    ASSUME IInv, UNCHANGED legacy, NEW m \in Migrator, NEW s \in Source, CreateFile(m, s)
    PROVE  IInv'
<1> USE SourceAssumption, MigratorAssumption
         DEF IInv, Goto, Writing, Busy, dest, locals, server
<1>1. TypeOK'
  BY DEF TypeOK, PC, CreateFile, Contents
<1>2. OneMigrator'
  BY DEF TypeOK, OneMigrator, Owned, CreateFile
<1>3. Owned'
  BY DEF TypeOK, Owned, OneMigrator, CreateFile
<1>4. ServerDir'
  BY DEF TypeOK, ServerDir, CreateFile
<1>5. Placed'
  BY DEF TypeOK, Placed, Owned, ServerDir, OneMigrator, CreateFile
<1>6. HalfOwned'
  BY DEF TypeOK, HalfOwned, Half, Owns, Saved, Listed, CreateFile
<1>7. Own'
  BY DEF TypeOK, Own, OneMigrator, ServerDir, CreateFile
<1>8. Listed'
  BY DEF TypeOK, Listed, OneMigrator, CreateFile
<1>9. Phases'
  BY DEF TypeOK, Phases, Phase, Own, Listed, Placed, ServerDir, OneMigrator, Owned, CreateFile
<1>10. AllOrNothing'
  BY DEF TypeOK, AllOrNothing, Phases, Phase, ServerDir, Placed, Owned, CreateFile
<1> QED
  BY <1>1, <1>2, <1>3, <1>4, <1>5, <1>6, <1>7, <1>8, <1>9, <1>10

\* What is written goes to the run's own file, or to one that a server has replaced.
LEMMA WriteFileStep ==
    ASSUME IInv, UNCHANGED legacy, NEW m \in Migrator, WriteFile(m)
    PROVE  IInv'
<1> USE SourceAssumption, MigratorAssumption
         DEF IInv, Goto, Writing, Busy, dest, locals, server
<1>1. TypeOK'
  <2>1. PICK c \in {"partial", "migrated"} :
            /\ file' = IF inode[cur[m]] = m THEN [file EXCEPT ![cur[m]] = c] ELSE file
            /\ pc' = [pc EXCEPT ![m] = "create"] \/ pc' = pc
            /\ cur' = [cur EXCEPT ![m] = None] \/ cur' = cur
    BY Zenon DEF WriteFile
  <2>2. file' \in [File -> Contents]
    BY <2>1 DEF TypeOK, Contents
  <2>3. pc' \in [Migrator -> PC]
    BY <2>1 DEF TypeOK, PC
  <2> QED
    BY <2>1, <2>2, <2>3 DEF TypeOK, WriteFile
<1>2. OneMigrator'
  BY DEF TypeOK, OneMigrator, Owned, WriteFile
<1>3. Owned'
  BY DEF TypeOK, Owned, OneMigrator, WriteFile
<1>4. ServerDir'
  BY DEF TypeOK, ServerDir, WriteFile
<1>5. Placed'
  BY DEF TypeOK, Placed, Owned, ServerDir, OneMigrator, WriteFile
<1>6. HalfOwned'
  <2> SUFFICES ASSUME ~left, NEW g \in File, file'[g] \in Half
               PROVE  \E n \in Migrator : Owns(n, g)'
    BY DEF HalfOwned, WriteFile
  <2>1. file[g] \in Half \/ (g = cur[m] /\ inode[g] = m)
    BY DEF WriteFile, TypeOK
  <2>2. PICK n \in Migrator : Owns(n, g)
    BY <2>1 DEF WriteFile, HalfOwned, Owns
  <2>3. CASE n = m
    <3>1. cur[m] = g /\ inode[g] = m /\ pc[m] = "write"
      BY <2>2, <2>3 DEF WriteFile, Owns
    <3>2. PICK c \in {"partial", "migrated"} :
              /\ file' = [file EXCEPT ![g] = c]
              /\ c = "migrated" \/ UNCHANGED <<pc, cur>>
      BY <3>1 DEF WriteFile
    <3>3. c # "migrated"
      BY <3>2 DEF TypeOK, Half
    <3>4. Owns(m, g)'
      BY <3>1, <3>2, <3>3 DEF WriteFile, Owns
    <3> QED
      BY <3>4
  <2>4. CASE n # m
    <3>1. pc'[n] = pc[n] /\ cur'[n] = cur[n] /\ UNCHANGED <<inode, written>>
      BY <2>4 DEF WriteFile, TypeOK
    <3>2. Owns(n, g)'
      BY <2>2, <3>1 DEF Owns
    <3> QED
      BY <2>2, <3>2
  <2> QED
    BY <2>3, <2>4
<1>7. Own'
  BY DEF TypeOK, Own, OneMigrator, ServerDir, WriteFile
<1>8. Listed'
  BY DEF TypeOK, Listed, OneMigrator, WriteFile
<1>9. Phases'
  <2> SUFFICES ASSUME ~left, ~lockfile, NEW n \in Migrator PROVE Phase(n)'
    BY DEF Phases, WriteFile
  <2>1. pc[m] = "write" /\ UNCHANGED <<todo, written, inode>> /\ inode[cur[m]] = m
    BY DEF WriteFile, Own
  <2>2. cur[m] \in File /\ cur[m] \in written[m] /\ Phase(m)
    <3>1. cur[m] \in written[m]
      BY <2>1 DEF Listed
    <3>2. written[m] \in SUBSET File
      BY Zenon DEF TypeOK
    <3> QED
      BY <3>1, <3>2 DEF Phases
  <2>3. CASE n # m
    <3>1. pc[n] \notin Busy \ {"mkdir"}
      BY <2>1, <2>3 DEF OneMigrator
    <3>2. pc'[n] = pc[n] /\ todo'[n] = todo[n]
      BY <2>1, <2>3 DEF WriteFile, TypeOK
    <3> QED
      BY <3>1, <3>2 DEF Phases, Phase
  <2>4. PICK c \in {"partial", "migrated"} :
            /\ file' = [file EXCEPT ![cur[m]] = c]
            /\ \/ c = "migrated" /\ pc' = [pc EXCEPT ![m] = "create"]
               \/ UNCHANGED <<pc, cur>>
    BY <2>1 DEF WriteFile
  <2>5. \A f \in File : file'[f] # "none" => f \in written'[m]
    BY <2>1, <2>2, <2>4 DEF Phase, TypeOK
  <2>6. CASE c = "migrated" /\ pc' = [pc EXCEPT ![m] = "create"] /\ n = m
    BY <2>1, <2>2, <2>4, <2>5, <2>6 DEF Phase, TypeOK
  <2>7. CASE UNCHANGED <<pc, cur>> /\ n = m
    BY <2>1, <2>2, <2>4, <2>5, <2>7 DEF Phase, TypeOK
  <2> QED
    BY <2>3, <2>4, <2>6, <2>7
<1>10. AllOrNothing'
  BY DEF TypeOK, AllOrNothing, Phases, Phase, ServerDir, Placed, Owned, WriteFile
<1> QED
  BY <1>1, <1>2, <1>3, <1>4, <1>5, <1>6, <1>7, <1>8, <1>9, <1>10

\* A half-written file is on the list.
LEMMA WriteFailStep ==
    ASSUME IInv, UNCHANGED legacy, NEW m \in Migrator, WriteFail(m)
    PROVE  IInv'
<1> USE SourceAssumption, MigratorAssumption
         DEF IInv, Goto, Writing, Busy, dest, locals, server
<1>1. TypeOK'
  BY DEF TypeOK, PC, WriteFail
<1>2. OneMigrator'
  BY DEF TypeOK, OneMigrator, Owned, WriteFail
<1>3. Owned'
  BY DEF TypeOK, Owned, OneMigrator, WriteFail
<1>4. ServerDir'
  BY DEF TypeOK, ServerDir, WriteFail
<1>5. Placed'
  BY DEF TypeOK, Placed, Owned, ServerDir, OneMigrator, WriteFail
<1>6. HalfOwned'
  <2>1. pc[m] = "write" /\ pc' = [pc EXCEPT ![m] = "cleanup"] /\ cur' = [cur EXCEPT ![m] = None]
        /\ UNCHANGED <<inode, written, file, left>>
    BY DEF WriteFail
  <2>2. \A f \in File : Owns(m, f) => Owns(m, f)'
    <3>1. cur[m] \in written[m]
      BY <2>1 DEF Listed
    <3>2. pc'[m] = "cleanup"
      BY <2>1 DEF TypeOK
    <3> QED
      BY <2>1, <3>1, <3>2 DEF Owns
  <2>3. \A n \in Migrator \ {m}, f \in File : Owns(n, f) => Owns(n, f)'
    BY <2>1 DEF TypeOK, Owns
  <2>4. \A n \in Migrator, f \in File : Owns(n, f) => Owns(n, f)'
    BY <2>2, <2>3
  <2> QED
    BY <2>1, <2>4 DEF HalfOwned
<1>7. Own'
  BY DEF TypeOK, Own, OneMigrator, ServerDir, WriteFail
<1>8. Listed'
  BY DEF TypeOK, Listed, OneMigrator, WriteFail
<1>9. Phases'
  BY DEF TypeOK, Phases, Phase, Own, Listed, Placed, ServerDir, OneMigrator, Owned, WriteFail
<1>10. AllOrNothing'
  BY DEF TypeOK, AllOrNothing, Phases, Phase, ServerDir, Placed, Owned, WriteFail
<1> QED
  BY <1>1, <1>2, <1>3, <1>4, <1>5, <1>6, <1>7, <1>8, <1>9, <1>10

\* With no source left, all of the data is there.
LEMMA SucceedStep ==
    ASSUME IInv, UNCHANGED legacy, NEW m \in Migrator, Succeed(m)
    PROVE  IInv'
<1> USE SourceAssumption, MigratorAssumption
         DEF IInv, Goto, Writing, Busy, dest, locals, server
<1>1. TypeOK'
  BY DEF TypeOK, PC, Succeed
<1>2. OneMigrator'
  BY DEF TypeOK, OneMigrator, Owned, Succeed
<1>3. Owned'
  BY DEF TypeOK, Owned, OneMigrator, Succeed
<1>4. ServerDir'
  BY DEF TypeOK, ServerDir, Succeed
<1>5. Placed'
  BY DEF TypeOK, Placed, Owned, ServerDir, OneMigrator, Succeed
<1>6. HalfOwned'
  BY DEF TypeOK, HalfOwned, Half, Owns, Saved, Listed, Succeed
<1>7. Own'
  BY DEF TypeOK, Own, OneMigrator, ServerDir, Succeed
<1>8. Listed'
  BY DEF TypeOK, Listed, OneMigrator, Succeed
<1>9. Phases'
  BY DEF TypeOK, Phases, Phase, Own, Listed, Placed, ServerDir, OneMigrator, Owned, Succeed
<1>10. AllOrNothing'
  BY DEF TypeOK, AllOrNothing, Phases, Phase, ServerDir, Placed, Owned, Succeed
<1> QED
  BY <1>1, <1>2, <1>3, <1>4, <1>5, <1>6, <1>7, <1>8, <1>9, <1>10

\* A file is removed, or left behind.
LEMMA CleanFileStep ==
    ASSUME IInv, UNCHANGED legacy, NEW m \in Migrator, NEW f \in File, CleanFile(m, f)
    PROVE  IInv'
<1> USE SourceAssumption, MigratorAssumption
         DEF IInv, Goto, Writing, Busy, dest, locals, server
<1>1. TypeOK'
  <2>1. file' \in [File -> Contents] /\ inode' \in [File -> Migrator \cup {None}]
    BY DEF TypeOK, CleanFile, Contents
  <2>2. written' \in [Migrator -> SUBSET File] /\ left' \in BOOLEAN
    BY DEF TypeOK, CleanFile
  <2> QED
    BY <2>1, <2>2 DEF TypeOK, CleanFile
<1>2. OneMigrator'
  BY DEF TypeOK, OneMigrator, Owned, CleanFile
<1>3. Owned'
  BY DEF TypeOK, Owned, OneMigrator, CleanFile
<1>4. ServerDir'
  BY DEF TypeOK, ServerDir, CleanFile
<1>5. Placed'
  BY DEF TypeOK, Placed, Owned, ServerDir, OneMigrator, CleanFile
<1>6. HalfOwned'
  BY DEF TypeOK, HalfOwned, Half, Owns, Saved, Listed, CleanFile
<1>7. Own'
  BY DEF TypeOK, Own, OneMigrator, ServerDir, CleanFile
<1>8. Listed'
  BY DEF TypeOK, Listed, OneMigrator, CleanFile
<1>9. Phases'
  BY DEF TypeOK, Phases, Phase, Own, Listed, Placed, ServerDir, OneMigrator, Owned, CleanFile
<1>10. AllOrNothing'
  BY DEF TypeOK, AllOrNothing, Phases, Phase, ServerDir, Placed, Owned, CleanFile
<1> QED
  BY <1>1, <1>2, <1>3, <1>4, <1>5, <1>6, <1>7, <1>8, <1>9, <1>10

\* With nothing on the list, nothing is there.
LEMMA CleanEndStep ==
    ASSUME IInv, UNCHANGED legacy, NEW m \in Migrator, CleanEnd(m)
    PROVE  IInv'
<1> USE SourceAssumption, MigratorAssumption
         DEF IInv, Goto, Writing, Busy, dest, locals, server
<1>1. TypeOK'
  BY DEF TypeOK, PC, CleanEnd
<1>2. OneMigrator'
  BY DEF TypeOK, OneMigrator, Owned, CleanEnd
<1>3. Owned'
  BY DEF TypeOK, Owned, OneMigrator, CleanEnd
<1>4. ServerDir'
  BY DEF TypeOK, ServerDir, CleanEnd
<1>5. Placed'
  BY DEF TypeOK, Placed, Owned, ServerDir, OneMigrator, CleanEnd
<1>6. HalfOwned'
  BY DEF TypeOK, HalfOwned, Half, Owns, Saved, Listed, CleanEnd
<1>7. Own'
  BY DEF TypeOK, Own, OneMigrator, ServerDir, CleanEnd
<1>8. Listed'
  BY DEF TypeOK, Listed, OneMigrator, CleanEnd
<1>9. Phases'
  BY DEF TypeOK, Phases, Phase, Own, Listed, Placed, ServerDir, OneMigrator, Owned, CleanEnd
<1>10. AllOrNothing'
  BY DEF TypeOK, AllOrNothing, Phases, Phase, ServerDir, Placed, Owned, CleanEnd
<1> QED
  BY <1>1, <1>2, <1>3, <1>4, <1>5, <1>6, <1>7, <1>8, <1>9, <1>10

\* The directory is empty or a server's.
LEMMA CleanDirStep ==
    ASSUME IInv, UNCHANGED legacy, NEW m \in Migrator, CleanDir(m)
    PROVE  IInv'
<1> USE SourceAssumption, MigratorAssumption
         DEF IInv, Goto, Writing, Busy, dest, locals, server
<1>1. TypeOK'
  <2>1. dir' \in BOOLEAN
    BY DEF TypeOK, CleanDir
  <2>2. left' \in BOOLEAN
    BY DEF TypeOK, CleanDir
  <2>3. pc' \in [Migrator -> PC] /\ todo' \in [Migrator -> SUBSET Source]
    BY DEF TypeOK, CleanDir, PC
  <2> QED
    BY <2>1, <2>2, <2>3 DEF TypeOK, CleanDir
<1>2. OneMigrator'
  BY DEF TypeOK, OneMigrator, Owned, CleanDir
<1>3. Owned'
  BY DEF TypeOK, Owned, OneMigrator, CleanDir
<1>4. ServerDir'
  BY DEF TypeOK, ServerDir, CleanDir
<1>5. Placed'
  BY DEF TypeOK, Placed, Owned, ServerDir, OneMigrator, CleanDir
<1>6. HalfOwned'
  BY DEF TypeOK, HalfOwned, Half, Owns, Saved, Listed, CleanDir
<1>7. Own'
  BY DEF TypeOK, Own, OneMigrator, ServerDir, CleanDir
<1>8. Listed'
  BY DEF TypeOK, Listed, OneMigrator, CleanDir
<1>9. Phases'
  BY DEF TypeOK, Phases, Phase, Own, Listed, Placed, ServerDir, OneMigrator, Owned, CleanDir
<1>10. AllOrNothing'
  <2> SUFFICES ASSUME ~left', ~lockfile PROVE ~dir'
    BY DEF AllOrNothing, CleanDir
  <2>1. \A f \in File : file[f] = "none"
    <3>1. ~left /\ pc[m] = "rmdir"
      BY DEF CleanDir, TypeOK
    <3>2. \A f \in File : file[f] # "none" => f \in written[m]
      BY <3>1 DEF Phases, Phase
    <3>3. written[m] = {}
      BY <3>1 DEF Listed
    <3> QED
      BY <3>2, <3>3
  <2> QED
    BY <2>1 DEF CleanDir, TypeOK
<1> QED
  BY <1>1, <1>2, <1>3, <1>4, <1>5, <1>6, <1>7, <1>8, <1>9, <1>10

\* What a kill leaves behind is excepted.
LEMMA KillStep ==
    ASSUME IInv, UNCHANGED legacy, NEW m \in Migrator, Kill(m)
    PROVE  IInv'
<1> USE SourceAssumption, MigratorAssumption
         DEF IInv, Goto, Writing, Busy, dest, locals, server
<1>1. TypeOK'
  BY DEF TypeOK, PC, Kill
<1>2. OneMigrator'
  BY DEF TypeOK, OneMigrator, Owned, Kill
<1>3. Owned'
  BY DEF TypeOK, Owned, OneMigrator, Kill
<1>4. ServerDir'
  BY DEF TypeOK, ServerDir, Kill
<1>5. Placed'
  BY DEF TypeOK, Placed, Owned, ServerDir, OneMigrator, Kill
<1>6. HalfOwned'
  BY DEF TypeOK, HalfOwned, Half, Owns, Saved, Listed, Kill
<1>7. Own'
  BY DEF TypeOK, Own, OneMigrator, ServerDir, Kill
<1>8. Listed'
  BY DEF TypeOK, Listed, OneMigrator, Kill
<1>9. Phases'
  BY DEF TypeOK, Phases, Phase, Own, Listed, Placed, ServerDir, OneMigrator, Owned, Kill
<1>10. AllOrNothing'
  BY DEF TypeOK, AllOrNothing, Phases, Phase, ServerDir, Placed, Owned, Kill
<1> QED
  BY <1>1, <1>2, <1>3, <1>4, <1>5, <1>6, <1>7, <1>8, <1>9, <1>10

\* From here on the directory is a server's.
LEMMA ServerStartStep ==
    ASSUME IInv, UNCHANGED legacy, ServerStart
    PROVE  IInv'
<1> USE SourceAssumption, MigratorAssumption
         DEF IInv, Goto, Writing, Busy, dest, locals, server
<1>1. TypeOK'
  BY DEF TypeOK, PC, ServerStart
<1>2. OneMigrator'
  BY DEF TypeOK, OneMigrator, Owned, ServerStart
<1>3. Owned'
  BY DEF TypeOK, Owned, OneMigrator, ServerStart
<1>4. ServerDir'
  BY DEF TypeOK, ServerDir, ServerStart
<1>5. Placed'
  BY DEF TypeOK, Placed, Owned, ServerDir, OneMigrator, ServerStart
<1>6. HalfOwned'
  BY DEF TypeOK, HalfOwned, Half, Owns, Saved, Listed, ServerStart
<1>7. Own'
  BY DEF TypeOK, Own, OneMigrator, ServerDir, ServerStart
<1>8. Listed'
  BY DEF TypeOK, Listed, OneMigrator, ServerStart
<1>9. Phases'
  BY DEF TypeOK, Phases, Phase, Own, Listed, Placed, ServerDir, OneMigrator, Owned, ServerStart
<1>10. AllOrNothing'
  BY DEF TypeOK, AllOrNothing, Phases, Phase, ServerDir, Placed, Owned, ServerStart
<1> QED
  BY <1>1, <1>2, <1>3, <1>4, <1>5, <1>6, <1>7, <1>8, <1>9, <1>10

\* A server that reads changes nothing.
LEMMA ServerLoadStep ==
    ASSUME IInv, UNCHANGED legacy, NEW f \in File, ServerLoad(f)
    PROVE  IInv'
<1> USE SourceAssumption, MigratorAssumption
         DEF IInv, Goto, Writing, Busy, dest, locals, server
<1>1. TypeOK'
  BY DEF TypeOK, Saved, ServerLoad
<1>2. OneMigrator'
  BY DEF TypeOK, OneMigrator, Owned, ServerLoad
<1>3. Owned'
  BY DEF TypeOK, Owned, OneMigrator, ServerLoad
<1>4. ServerDir'
  BY DEF TypeOK, ServerDir, ServerLoad
<1>5. Placed'
  BY DEF TypeOK, Placed, Owned, ServerDir, OneMigrator, ServerLoad
<1>6. HalfOwned'
  BY DEF TypeOK, HalfOwned, Half, Owns, Saved, Listed, ServerLoad
<1>7. Own'
  BY DEF TypeOK, Own, OneMigrator, ServerDir, ServerLoad
<1>8. Listed'
  BY DEF TypeOK, Listed, OneMigrator, ServerLoad
<1>9. Phases'
  BY DEF TypeOK, Phases, Phase, Own, Listed, Placed, ServerDir, OneMigrator, Owned, ServerLoad
<1>10. AllOrNothing'
  BY DEF TypeOK, AllOrNothing, Phases, Phase, ServerDir, Placed, Owned, ServerLoad
<1> QED
  BY <1>1, <1>2, <1>3, <1>4, <1>5, <1>6, <1>7, <1>8, <1>9, <1>10

\* A server saves into its own directory.
LEMMA ServerSaveStep ==
    ASSUME IInv, UNCHANGED legacy, ServerSave
    PROVE  IInv'
<1> USE SourceAssumption, MigratorAssumption
         DEF IInv, Goto, Writing, Busy, dest, locals, server
<1>1. TypeOK'
  <2>1. PICK u \in update : /\ file' = [file EXCEPT ![u.file] = u.saves]
                            /\ inode' = [inode EXCEPT ![u.file] = None]
    BY DEF ServerSave
  <2>2. u.file \in File /\ u.saves \in Contents
    BY DEF TypeOK, Contents
  <2>3. file' \in [File -> Contents] /\ inode' \in [File -> Migrator \cup {None}]
    BY <2>1, <2>2 DEF TypeOK
  <2> QED
    BY <2>3 DEF TypeOK, ServerSave
<1>2. OneMigrator'
  BY DEF TypeOK, OneMigrator, Owned, ServerSave
<1>3. Owned'
  BY DEF TypeOK, Owned, OneMigrator, ServerSave
<1>4. ServerDir'
  BY DEF TypeOK, ServerDir, ServerSave
<1>5. Placed'
  BY DEF TypeOK, Placed, Owned, ServerDir, OneMigrator, ServerSave
<1>6. HalfOwned'
  BY DEF TypeOK, HalfOwned, Half, Owns, Saved, Listed, ServerSave
<1>7. Own'
  BY DEF TypeOK, Own, OneMigrator, ServerDir, ServerSave
<1>8. Listed'
  BY DEF TypeOK, Listed, OneMigrator, ServerSave
<1>9. Phases'
  BY DEF TypeOK, Phases, Phase, Own, Listed, Placed, ServerDir, OneMigrator, Owned, ServerSave
<1>10. AllOrNothing'
  BY DEF TypeOK, AllOrNothing, Phases, Phase, ServerDir, Placed, Owned, ServerSave
<1> QED
  BY <1>1, <1>2, <1>3, <1>4, <1>5, <1>6, <1>7, <1>8, <1>9, <1>10

\* A server leaves its lock file behind.
LEMMA ServerStopStep ==
    ASSUME IInv, UNCHANGED legacy, ServerStop
    PROVE  IInv'
<1> USE SourceAssumption, MigratorAssumption
         DEF IInv, Goto, Writing, Busy, dest, locals, server
<1>1. TypeOK'
  BY DEF TypeOK, PC, ServerStop
<1>2. OneMigrator'
  BY DEF TypeOK, OneMigrator, Owned, ServerStop
<1>3. Owned'
  BY DEF TypeOK, Owned, OneMigrator, ServerStop
<1>4. ServerDir'
  BY DEF TypeOK, ServerDir, ServerStop
<1>5. Placed'
  BY DEF TypeOK, Placed, Owned, ServerDir, OneMigrator, ServerStop
<1>6. HalfOwned'
  BY DEF TypeOK, HalfOwned, Half, Owns, Saved, Listed, ServerStop
<1>7. Own'
  BY DEF TypeOK, Own, OneMigrator, ServerDir, ServerStop
<1>8. Listed'
  BY DEF TypeOK, Listed, OneMigrator, ServerStop
<1>9. Phases'
  BY DEF TypeOK, Phases, Phase, Own, Listed, Placed, ServerDir, OneMigrator, Owned, ServerStop
<1>10. AllOrNothing'
  BY DEF TypeOK, AllOrNothing, Phases, Phase, ServerDir, Placed, Owned, ServerStop
<1> QED
  BY <1>1, <1>2, <1>3, <1>4, <1>5, <1>6, <1>7, <1>8, <1>9, <1>10

\* Nobody is at work, and nothing is left.
LEMMA DiscardStep ==
    ASSUME IInv, UNCHANGED legacy, Discard
    PROVE  IInv'
<1> USE SourceAssumption, MigratorAssumption
         DEF IInv, Goto, Writing, Busy, dest, locals, server
<1>1. TypeOK'
  <2>1. file' \in [File -> Contents] /\ inode' \in [File -> Migrator \cup {None}]
    BY DEF Discard, Contents
  <2> QED
    BY <2>1 DEF TypeOK, Discard
<1>2. OneMigrator'
  BY DEF TypeOK, OneMigrator, Owned, Discard
<1>3. Owned'
  BY DEF TypeOK, Owned, OneMigrator, Discard
<1>4. ServerDir'
  BY DEF TypeOK, ServerDir, Discard
<1>5. Placed'
  BY DEF TypeOK, Placed, Owned, ServerDir, OneMigrator, Discard
<1>6. HalfOwned'
  BY DEF TypeOK, HalfOwned, Half, Owns, Saved, Listed, Discard
<1>7. Own'
  BY DEF TypeOK, Own, OneMigrator, ServerDir, Discard
<1>8. Listed'
  BY DEF TypeOK, Listed, OneMigrator, Discard
<1>9. Phases'
  BY DEF TypeOK, Phases, Phase, Own, Listed, Placed, ServerDir, OneMigrator, Owned, Discard
<1>10. AllOrNothing'
  BY DEF TypeOK, AllOrNothing, Phases, Phase, ServerDir, Placed, Owned, Discard
<1> QED
  BY <1>1, <1>2, <1>3, <1>4, <1>5, <1>6, <1>7, <1>8, <1>9, <1>10

\* Before the first run there is no destination.
LEMMA InvInit == Init => IInv
<1> SUFFICES ASSUME Init PROVE IInv
  OBVIOUS
<1> USE SourceAssumption, MigratorAssumption DEF Init
<1>1. TypeOK
  BY DEF TypeOK, PC, Contents
<1>2. \A m \in Migrator : ~Writing(m) /\ Phase(m) /\ pc[m] = "idle"
  BY DEF Writing, Busy, Phase
<1>3. HalfOwned /\ Placed /\ Owned /\ OneMigrator
  BY <1>2 DEF HalfOwned, Half, Placed, Owned, OneMigrator
<1> QED
  BY <1>1, <1>2, <1>3 DEF IInv, ServerDir, Own, Listed, Phases, AllOrNothing

\* Every step of a run of the command keeps the invariant.
LEMMA MigrateStep ==
    ASSUME IInv, UNCHANGED legacy, NEW m \in Migrator, Migrate(m)
    PROVE  IInv'
  BY Zenon, BeginStep, MakeDirStep, CreateFileStep, WriteFileStep, WriteFailStep, SucceedStep,
     CleanFileStep, CleanEndStep, CleanDirStep, KillStep DEF Migrate

\* Every step keeps it.
LEMMA InvStep == IInv /\ [Next]_vars => IInv'
<1> SUFFICES ASSUME IInv, [Next]_vars PROVE IInv'
  OBVIOUS
<1>1. CASE UNCHANGED vars
  BY <1>1 DEF vars, dest, locals, server, IInv, TypeOK, OneMigrator, Writing, Owned, ServerDir,
     Placed, HalfOwned, Owns, Own, Listed, Phases, Phase, AllOrNothing
<1>2. CASE UNCHANGED legacy /\ \E m \in Migrator : Migrate(m)
  BY <1>2, MigrateStep
<1>3. CASE UNCHANGED legacy /\ \E f \in File : ServerLoad(f)
  BY <1>3, ServerLoadStep
<1>4. CASE UNCHANGED legacy /\ (ServerStart \/ ServerSave \/ ServerStop \/ Discard)
  BY <1>4, ServerStartStep, ServerSaveStep, ServerStopStep, DiscardStep
<1> QED
  BY <1>1, <1>2, <1>3, <1>4, Zenon DEF Next

\* The inductive invariant: what each phase of a run has put into the destination, and
\* that at most one run is in such a phase (os.Mkdir).
THEOREM Invariant == Spec => []IInv
<1> QED
  BY InvInit, InvStep, PTL DEF Spec

\* Of several runs into one destination, one writes.
THEOREM OneRunWrites == Spec => []OneMigrator
<1>1. IInv => OneMigrator
  BY DEF IInv
<1> QED
  BY <1>1, Invariant, PTL

\* A run that returned left no half-written file, unless it was killed or could
\* not remove it.
THEOREM NoHalfFileStays == Spec => []NoHalfFiles
<1>1. IInv => NoHalfFiles
  BY DEF IInv, HalfOwned, Owns, Half, NoHalfFiles, Writing, Busy
<1> QED
  BY <1>1, Invariant, PTL

\* A destination has all of the legacy data or is gone, with the same exceptions
\* and until a server opens it.
THEOREM DestinationIsWhole == Spec => []AllOrNothing
<1>1. IInv => AllOrNothing
  BY DEF IInv
<1> QED
  BY <1>1, Invariant, PTL
=============================================================================
