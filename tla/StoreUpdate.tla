---------------------------- MODULE StoreUpdate ----------------------------
(***************************************************************************)
(* Store.Update (src/storage.go) step by step: the mutex of the process,   *)
(* the lock on the file .quester.lock that its processes share, the load,  *)
(* the change and the save.  The other modules take an update for one      *)
(* step; this one shows that they may (AtomicStore).                       *)
(*                                                                         *)
(* A flock.Flock (github.com/gofrs/flock) remembers that it is locked: its *)
(* Lock then returns at once, and an Unlock that fails leaves it locked.   *)
(* gin.Default recovers a handler that panics; its process lives on.       *)
(***************************************************************************)
CONSTANTS
    Req,        \* request handlers, one request each at a time
    Proc,       \* server processes sharing the data directory
    Host,       \* Host[r]: the process that serves r
    None,       \* no request, no process
    LockErrors  \* whether locking and unlocking the file may fail

ASSUME HostAssumption == Host \in [Req -> Proc]
ASSUME NoneAssumption == None \notin Req \cup Proc
ASSUME LockErrorsAssumption == LockErrors \in BOOLEAN

VARIABLES
    tree,   \* the stored tree (see AtomicStore)
    up,     \* the running processes
    mu,     \* mu[p]: the request of p that holds Store.mu, or None
    held,   \* held[p]: whether p's fileLock remembers that it is locked
    flock,  \* the process with the lock on .quester.lock, or None
    pc,     \* pc[r]: where r is
    copy,   \* copy[r]: the tree r has loaded and not yet dealt with
    done    \* done[r]: whether r's Update is about to return nil, or last did

vars == <<tree, up, mu, held, flock, pc, copy, done>>

Waiting == {"mutex", "file"}
PC == {"idle", "load", "update", "unlock", "free"} \cup Waiting

Flip(t, r) == IF r \in t THEN t \ {r} ELSE t \cup {r}

Init ==
    /\ tree = {}
    /\ up = Proc
    /\ mu = [p \in Proc |-> None]
    /\ held = [p \in Proc |-> FALSE]
    /\ flock = None
    /\ pc = [r \in Req |-> "idle"]
    /\ copy = [r \in Req |-> {}]
    /\ done = [r \in Req |-> FALSE]

Step(r, from, to) == pc[r] = from /\ pc' = [pc EXCEPT ![r] = to]

\* A handler calls Update.
Arrive(r) ==
    /\ Host[r] \in up
    /\ Step(r, "idle", "mutex")
    /\ done' = [done EXCEPT ![r] = FALSE]
    /\ UNCHANGED <<tree, up, mu, held, flock, copy>>

\* lock: s.mu.Lock
LockMutex(r) ==
    /\ mu[Host[r]] = None
    /\ Step(r, "mutex", "file")
    /\ mu' = [mu EXCEPT ![Host[r]] = r]
    /\ UNCHANGED <<tree, up, held, flock, copy, done>>

\* Variant for a mutant: the mutex alone.
LockFile_Skipped(r) ==
    /\ Step(r, "file", "load")
    /\ UNCHANGED <<tree, up, mu, held, flock, copy, done>>

\* lock: s.fileLock.Lock
LockFile(r) ==
    /\ held[Host[r]] \/ flock = None
    /\ Step(r, "file", "load")
    /\ held' = [held EXCEPT ![Host[r]] = TRUE]
    /\ flock' = Host[r]
    /\ UNCHANGED <<tree, up, mu, copy, done>>

\* Variant for a mutant: the error return keeps the mutex.
LockFail_KeepsMutex(r) ==
    /\ LockErrors
    /\ ~held[Host[r]]
    /\ Step(r, "file", "idle")
    /\ UNCHANGED <<tree, up, mu, held, flock, copy, done>>

\* lock: the file cannot be opened or locked.
LockFail(r) ==
    /\ LockErrors
    /\ ~held[Host[r]]
    /\ Step(r, "file", "idle")
    /\ mu' = [mu EXCEPT ![Host[r]] = None]
    /\ UNCHANGED <<tree, up, held, flock, copy, done>>

\* loadUnlocked
Load(r) ==
    /\ Step(r, "load", "update")
    /\ copy' = [copy EXCEPT ![r] = tree]
    /\ UNCHANGED <<tree, up, mu, held, flock, done>>

\* Variant for a mutant: the error is dropped.
Refuse_Nil(r) ==
    /\ \E l \in {"load", "update"} : Step(r, l, "unlock")
    /\ copy' = [copy EXCEPT ![r] = {}]
    /\ done' = [done EXCEPT ![r] = TRUE]
    /\ UNCHANGED <<tree, up, mu, held, flock>>

\* The tree cannot be loaded, the change is refused, or panics, or the new tree
\* cannot be written.  A call of Load takes the same steps.
Refuse(r) ==
    /\ \E l \in {"load", "update"} : Step(r, l, "unlock")
    /\ copy' = [copy EXCEPT ![r] = {}]
    /\ UNCHANGED <<tree, up, mu, held, flock, done>>

\* saveUnlocked, up to the rename.
Save(r) ==
    /\ Step(r, "update", "unlock")
    /\ tree' = Flip(copy[r], r)
    /\ copy' = [copy EXCEPT ![r] = {}]
    /\ done' = [done EXCEPT ![r] = TRUE]
    /\ UNCHANGED <<up, mu, held, flock>>

\* unlock: s.fileLock.Unlock
UnlockFile(r) ==
    /\ Step(r, "unlock", "free")
    /\ held' = [held EXCEPT ![Host[r]] = FALSE]
    /\ flock' = None
    /\ UNCHANGED <<tree, up, mu, copy, done>>

\* unlock: s.mu.Unlock
UnlockMutex(r) ==
    /\ Step(r, "free", "idle")
    /\ mu' = [mu EXCEPT ![Host[r]] = None]
    /\ UNCHANGED <<tree, up, held, flock, copy, done>>

\* unlock: the file cannot be unlocked.  The handler panics and the client gets
\* an error, whether its change was saved or not.
UnlockFail(r) ==
    /\ LockErrors
    /\ Step(r, "unlock", "idle")
    /\ mu' = [mu EXCEPT ![Host[r]] = None]
    /\ done' = [done EXCEPT ![r] = FALSE]
    /\ UNCHANGED <<tree, up, held, flock, copy>>

\* A process is killed with its requests; the kernel drops its file lock.
Crash(p) ==
    /\ p \in up
    /\ up' = up \ {p}
    /\ mu' = [mu EXCEPT ![p] = None]
    /\ held' = [held EXCEPT ![p] = FALSE]
    /\ flock' = IF flock = p THEN None ELSE flock
    /\ pc' = [r \in Req |-> IF Host[r] = p THEN "idle" ELSE pc[r]]
    /\ copy' = [r \in Req |-> IF Host[r] = p THEN {} ELSE copy[r]]
    /\ done' = [r \in Req |-> done[r] /\ (Host[r] = p => pc[r] = "idle")]
    /\ UNCHANGED tree

\* NewStore; its recovery, under the same lock, is DataDir's.
Start(p) ==
    /\ p \notin up
    /\ up' = up \cup {p}
    /\ UNCHANGED <<tree, mu, held, flock, pc, copy, done>>

Proceed(r) ==
    \/ LockMutex(r) \/ LockFile(r) \/ LockFail(r)
    \/ Load(r) \/ Save(r) \/ Refuse(r)
    \/ UnlockFile(r) \/ UnlockMutex(r) \/ UnlockFail(r)

Next ==
    \/ \E r \in Req : Arrive(r) \/ Proceed(r)
    \/ \E p \in Proc : Crash(p) \/ Start(p)

Spec == Init /\ [][Next]_vars

\* A request whose next step is possible does not stop there, and a sync.Mutex
\* is handed to its first waiter after a millisecond (starvation mode).  Nothing
\* is assumed of the order in which the kernel grants the file lock.
FairSpec ==
    /\ Spec
    /\ \A r \in Req : WF_vars(Proceed(r)) /\ SF_vars(LockMutex(r))

----------------------------------------------------------------------------
(* Properties                                                              *)

\* What a request has loaded is still what is stored when it decides on its
\* change and saves it, whatever other processes do, fail to lock or fail to
\* unlock (Store.lock takes the mutex and the file lock, in this order).
CopyIsCurrent == \A r \in Req : pc[r] = "update" => copy[r] = tree

\* Every update is made at once and at most once, and is made when Update
\* returns nil: no request of any process overwrites the change of another
\* (SPEC.md: processes "serialize updates instead of overwriting one another").
Seen(r) == IF pc[r] = "idle" THEN IF done[r] THEN "ok" ELSE "idle"
           ELSE IF done[r] THEN "applied" ELSE "asked"
Atomic == INSTANCE AtomicStore WITH status <- [r \in Req |-> Seen(r)]
ImplementsAtomicStore == Atomic!Spec

\* While a request waits, some request gets in: no error of the lock, panic or
\* kill leaves the store locked for all.  Except where unlocking the file failed
\* in another process: its lock stays until that process serves a request.
Orphaned(p) == held[p] /\ mu[p] = None
SomebodyGetsIn ==
    \A r \in Req :
        pc[r] \in Waiting ~> \/ pc[r] \notin Waiting
                             \/ \E q \in Req : pc[q] = "load"
                             \/ \E p \in Proc \ {Host[r]} : Orphaned(p)

\* The requests do not all wait for one another: while there is one in Update, one
\* can take its next step whatever the rest do, but where an unlock has failed as
\* above (lock takes mutex and file in one order in every request, and each error
\* return gives back what it has).
CanProceed(r) ==
    \/ pc[r] = "mutex" /\ mu[Host[r]] = None
    \/ pc[r] = "file" /\ (held[Host[r]] \/ flock = None)
    \/ pc[r] \in {"load", "update", "unlock", "free"}
NoDeadlock ==
    (\E r \in Req : pc[r] # "idle")
        => (\E q \in Req : CanProceed(q)) \/ (LockErrors /\ \E p \in Proc : Orphaned(p))
=============================================================================
