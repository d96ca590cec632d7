------------------------- MODULE StoreUpdateProofs -------------------------
(***************************************************************************)
(* Store.Update is atomic, for any number of processes and requests, and   *)
(* whatever is killed, fails to lock or fails to unlock.                   *)
(***************************************************************************)
EXTENDS StoreUpdate, TLAPS

TypeOK ==
    /\ tree \subseteq Req
    /\ up \subseteq Proc
    /\ mu \in [Proc -> Req \cup {None}]
    /\ held \in [Proc -> BOOLEAN]
    /\ flock \in Proc \cup {None}
    /\ pc \in [Req -> PC]
    /\ copy \in [Req -> SUBSET Req]
    /\ done \in [Req -> BOOLEAN]

\* Exactly a request between lock and unlock has the mutex of its process.
MutexInv == \A r \in Req : pc[r] \notin {"idle", "mutex"} <=> mu[Host[r]] = r

\* A process remembers the file lock exactly while the kernel grants it.
FileInv == \A p \in Proc : held[p] <=> flock = p

\* With both, a request works on a tree that is still the stored one.
WorkInv ==
    \A r \in Req :
        /\ pc[r] \in {"load", "update", "unlock"} => held[Host[r]]
        /\ pc[r] = "update" => copy[r] = tree
        /\ done[r] => pc[r] \in {"idle", "unlock", "free"}

IInv == TypeOK /\ MutexInv /\ FileInv /\ WorkInv

\* Two requests between load and unlock are the same one: the file lock makes
\* their processes equal, the mutex the requests.
LEMMA OneInside ==
    ASSUME IInv, NEW q \in Req, NEW r \in Req,
           pc[q] \in {"load", "update", "unlock"}, pc[r] \in {"load", "update", "unlock"}
    PROVE  q = r
<1>1. Host[q] = Host[r]
  BY HostAssumption, NoneAssumption DEF IInv, FileInv, WorkInv
<1>2. mu[Host[q]] = q /\ mu[Host[r]] = r
  BY DEF IInv, MutexInv
<1> QED
  BY <1>1, <1>2

\* The lock protocol holds while nothing has begun.
LEMMA InvInit == Init => IInv
  BY HostAssumption, NoneAssumption
  DEF Init, IInv, TypeOK, MutexInv, FileInv, WorkInv, PC, Waiting

\* Every step keeps the lock protocol.
THEOREM InvStep == IInv /\ [Next]_vars => IInv'
<1> SUFFICES ASSUME IInv, [Next]_vars PROVE IInv'
  OBVIOUS
<1> USE HostAssumption, NoneAssumption
        DEF IInv, TypeOK, MutexInv, FileInv, WorkInv, PC, Waiting, Step
<1>1. ASSUME NEW r \in Req, Arrive(r) PROVE IInv'
  BY <1>1 DEF Arrive
<1>2. ASSUME NEW r \in Req, LockMutex(r) PROVE IInv'
  BY <1>2 DEF LockMutex
<1>3. ASSUME NEW r \in Req, LockFile(r) PROVE IInv'
  BY <1>3 DEF LockFile
<1>4. ASSUME NEW r \in Req, LockFail(r) PROVE IInv'
  BY <1>4 DEF LockFail
<1>5. ASSUME NEW r \in Req, Load(r) PROVE IInv'
  BY <1>5 DEF Load
<1>6. ASSUME NEW r \in Req, Refuse(r) PROVE IInv'
  BY <1>6 DEF Refuse
<1>7. ASSUME NEW r \in Req, Save(r) PROVE IInv'
  <2>1. tree' \subseteq Req
    BY <1>7 DEF Save, Flip
  <2>2. \A q \in Req \ {r} : pc[q] # "update"
    BY <1>7, OneInside DEF Save
  <2> QED
    BY <1>7, <2>1, <2>2 DEF Save
<1>8. ASSUME NEW r \in Req, UnlockFile(r) PROVE IInv'
  <2>1. \A q \in Req \ {r} : pc[q] \notin {"load", "update", "unlock"}
    BY <1>8, OneInside DEF UnlockFile
  <2> QED
    BY <1>8, <2>1 DEF UnlockFile
<1>9. ASSUME NEW r \in Req, UnlockMutex(r) PROVE IInv'
  BY <1>9 DEF UnlockMutex
<1>10. ASSUME NEW r \in Req, UnlockFail(r) PROVE IInv'
  BY <1>10 DEF UnlockFail
<1>11. ASSUME NEW p \in Proc, Crash(p) PROVE IInv'
  BY <1>11 DEF Crash
<1>12. ASSUME NEW p \in Proc, Start(p) PROVE IInv'
  BY <1>12 DEF Start
<1>13. CASE UNCHANGED vars
  BY <1>13 DEF vars
<1> QED
  BY <1>1, <1>2, <1>3, <1>4, <1>5, <1>6, <1>7, <1>8, <1>9, <1>10, <1>11, <1>12, <1>13
  DEF Next, Proceed

\* The lock protocol holds in every reachable state.
THEOREM Invariant == Spec => []IInv
  BY InvInit, InvStep, PTL DEF Spec

\* No request ever saves a change to a tree that another has replaced meanwhile.
THEOREM CopiesAreCurrent == Spec => []CopyIsCurrent
<1>1. IInv => CopyIsCurrent
  BY DEF IInv, WorkInv, CopyIsCurrent
<1> QED
  BY <1>1, Invariant, PTL

----------------------------------------------------------------------------
(* Deadlock.                                                               *)

\* A mutex is held by a request of its process.  A process gives the file back before
\* the mutex, so that the file is left locked with nobody inside only where an unlock
\* has failed.
OrphanInv ==
    /\ \A p \in Proc : mu[p] # None => Host[mu[p]] = p
    /\ \A r \in Req : pc[r] = "free" => ~held[Host[r]]
    /\ \A p \in Proc : Orphaned(p) => LockErrors

\* The order of unlock keeps it.
LEMMA OrphanStep == IInv /\ OrphanInv /\ [Next]_vars => OrphanInv'
<1> SUFFICES ASSUME IInv, OrphanInv, [Next]_vars PROVE OrphanInv'
  OBVIOUS
<1> USE HostAssumption, NoneAssumption, LockErrorsAssumption
        DEF IInv, TypeOK, MutexInv, FileInv, WorkInv, OrphanInv, Orphaned, PC, Waiting, Step
<1>1. ASSUME NEW r \in Req, Arrive(r) PROVE OrphanInv'
  BY <1>1 DEF Arrive
<1>2. ASSUME NEW r \in Req, LockMutex(r) PROVE OrphanInv'
  BY <1>2 DEF LockMutex
<1>3. ASSUME NEW r \in Req, LockFile(r) PROVE OrphanInv'
  <2>1. mu[Host[r]] = r /\ \A q \in Req \ {r} : Host[q] = Host[r] => pc[q] # "free"
    BY <1>3 DEF LockFile
  <2> QED
    BY <1>3, <2>1 DEF LockFile
<1>4. ASSUME NEW r \in Req, LockFail(r) PROVE OrphanInv'
  BY <1>4 DEF LockFail
<1>5. ASSUME NEW r \in Req, Load(r) \/ Refuse(r) \/ Save(r) PROVE OrphanInv'
  BY <1>5 DEF Load, Refuse, Save
<1>6. ASSUME NEW r \in Req, UnlockFile(r) PROVE OrphanInv'
  BY <1>6 DEF UnlockFile
<1>7. ASSUME NEW r \in Req, UnlockMutex(r) PROVE OrphanInv'
  BY <1>7 DEF UnlockMutex
<1>8. ASSUME NEW r \in Req, UnlockFail(r) PROVE OrphanInv'
  BY <1>8 DEF UnlockFail
<1>9. ASSUME NEW p \in Proc, Crash(p) PROVE OrphanInv'
  BY <1>9 DEF Crash
<1>10. ASSUME NEW p \in Proc, Start(p) PROVE OrphanInv'
  BY <1>10 DEF Start
<1>11. CASE UNCHANGED vars
  BY <1>11 DEF vars
<1> QED
  BY <1>1, <1>2, <1>3, <1>4, <1>5, <1>6, <1>7, <1>8, <1>9, <1>10, <1>11 DEF Next, Proceed

\* Who waits for a mutex waits for a request past it; who waits for the file waits
\* for a process that has it; and its mutex is held by a request that does not wait.
LEMMA SomebodyCanProceed == IInv /\ OrphanInv => NoDeadlock
<1> SUFFICES ASSUME IInv, OrphanInv, NEW r \in Req, pc[r] # "idle",
                    \A p \in Proc : ~Orphaned(p)
             PROVE  \E q \in Req : CanProceed(q)
  BY DEF NoDeadlock, OrphanInv
<1> USE HostAssumption, NoneAssumption DEF IInv, TypeOK
<1>1. \A q \in Req : pc[q] \in {"load", "update", "unlock", "free"} => CanProceed(q)
  BY DEF CanProceed
<1>2. ASSUME NEW q \in Req, pc[q] = "file"
      PROVE  \E s \in Req : CanProceed(s)
  <2>1. CASE flock = None \/ held[Host[q]]
    BY <1>2, <2>1 DEF CanProceed
  <2>2. CASE flock # None
    <3>1. flock \in Proc /\ held[flock]
      BY <2>2 DEF FileInv
    <3>2. mu[flock] \in Req
      BY <3>1 DEF Orphaned
    <3> DEFINE s == mu[flock]
    <3>3. Host[s] = flock /\ pc[s] \notin {"idle", "mutex"}
      BY <3>1, <3>2 DEF MutexInv, OrphanInv
    <3>4. CASE pc[s] = "file"
      BY <3>1, <3>2, <3>3, <3>4 DEF CanProceed
    <3>5. CASE pc[s] # "file"
      BY <1>1, <3>2, <3>3, <3>5 DEF PC, Waiting
    <3> QED
      BY <3>4, <3>5
  <2> QED
    BY <2>1, <2>2
<1>3. CASE pc[r] = "mutex"
  <2>1. CASE mu[Host[r]] = None
    BY <1>3, <2>1 DEF CanProceed
  <2>2. CASE mu[Host[r]] # None
    <3> DEFINE q == mu[Host[r]]
    <3>1. q \in Req /\ Host[q] = Host[r] /\ pc[q] \notin {"idle", "mutex"}
      BY <2>2 DEF MutexInv, OrphanInv
    <3>2. pc[q] = "file" \/ pc[q] \in {"load", "update", "unlock", "free"}
      BY <3>1 DEF PC, Waiting
    <3> QED
      BY <1>1, <1>2, <3>1, <3>2
  <2> QED
    BY <2>1, <2>2
<1>4. CASE pc[r] # "mutex"
  <2>1. pc[r] = "file" \/ pc[r] \in {"load", "update", "unlock", "free"}
    BY <1>4 DEF PC, Waiting
  <2> QED
    BY <1>1, <1>2, <2>1
<1> QED
  BY <1>3, <1>4

\* The requests never all wait for one another, however many processes and requests
\* there are, and whatever fails (lock, unlock).
THEOREM NeverDeadlocked == Spec => []NoDeadlock
<1>1. Init => OrphanInv
  BY HostAssumption DEF Init, OrphanInv, Orphaned
<1>2. IInv /\ OrphanInv /\ [Next]_vars => OrphanInv'
  BY OrphanStep
<1>3. IInv /\ OrphanInv => NoDeadlock
  BY SomebodyCanProceed
<1> QED
  BY <1>1, <1>2, <1>3, Invariant, PTL DEF Spec

----------------------------------------------------------------------------
(* Refinement.                                                             *)

\* What the clients see, as a function of the requests.
Sight == [r \in Req |-> Seen(r)]

\* A step of one request changes what its own client sees, at most.
LEMMA SightOf ==
    ASSUME NEW r \in Req, \A q \in Req \ {r} : Seen(q)' = Seen(q)
    PROVE  Sight' = [Sight EXCEPT ![r] = Seen(r)']
  BY DEF Sight

\* Every step of the store is one of AtomicStore, or a stutter.
LEMMA StepRefines == IInv /\ [Next]_vars => [Atomic!Next]_<<tree, Sight>>
<1> SUFFICES ASSUME IInv, [Next]_vars PROVE [Atomic!Next]_<<tree, Sight>>
  OBVIOUS
<1> USE DEF IInv, TypeOK, Step, PC, Waiting
<1> DEFINE Same == UNCHANGED <<tree, Sight>>
<1>1. ASSUME NEW r \in Req, Arrive(r) PROVE Atomic!Ask(r)
  <2>1. Seen(r) \in {"idle", "ok"} /\ Seen(r)' = "asked" /\ tree' = tree
    BY <1>1 DEF Arrive, Seen
  <2>2. \A q \in Req \ {r} : Seen(q)' = Seen(q)
    BY <1>1 DEF Arrive, Seen
  <2> QED
    BY <2>1, <2>2, SightOf DEF Sight, Atomic!Ask
<1>2. ASSUME NEW r \in Req, Save(r) PROVE Atomic!Apply(r)
  <2>1. Seen(r) = "asked" /\ Seen(r)' = "applied"
    BY <1>2 DEF Save, Seen, WorkInv
  <2>2. \A q \in Req \ {r} : Seen(q)' = Seen(q)
    BY <1>2 DEF Save, Seen
  <2>3. tree' = Atomic!Flip(tree, r)
    BY <1>2 DEF Save, WorkInv, Flip, Atomic!Flip
  <2> QED
    BY <2>1, <2>2, <2>3, SightOf DEF Sight, Atomic!Apply
<1>3. ASSUME NEW r \in Req, UnlockMutex(r) PROVE Atomic!Confirm(r) \/ Atomic!GiveUp({r})
  <2>1. \A q \in Req \ {r} : Seen(q)' = Seen(q)
    BY <1>3 DEF UnlockMutex, Seen
  <2>2. CASE done[r]
    <3>1. Seen(r) = "applied" /\ Seen(r)' = "ok" /\ tree' = tree
      BY <1>3, <2>2 DEF UnlockMutex, Seen
    <3> QED
      BY <2>1, <3>1, SightOf DEF Sight, Atomic!Confirm
  <2>3. CASE ~done[r]
    <3>1. Seen(r)' = "idle" /\ tree' = tree
      BY <1>3, <2>3 DEF UnlockMutex, Seen
    <3> QED
      BY <2>1, <3>1 DEF Sight, Atomic!GiveUp
  <2> QED
    BY <2>2, <2>3
<1>4. ASSUME NEW r \in Req, LockFail(r) \/ UnlockFail(r) PROVE Atomic!GiveUp({r})
  <2>1. Seen(r)' = "idle" /\ tree' = tree
    BY <1>4 DEF LockFail, UnlockFail, Seen, WorkInv
  <2>2. \A q \in Req \ {r} : Seen(q)' = Seen(q)
    BY <1>4 DEF LockFail, UnlockFail, Seen
  <2> QED
    BY <2>1, <2>2 DEF Sight, Atomic!GiveUp
<1>5. ASSUME NEW p \in Proc, Crash(p)
      PROVE  Atomic!GiveUp({r \in Req : Host[r] = p /\ pc[r] # "idle"})
  <2>1. \A r \in Req : Seen(r)' = IF Host[r] = p /\ pc[r] # "idle" THEN "idle" ELSE Seen(r)
    BY <1>5 DEF Crash, Seen
  <2> QED
    BY <1>5, <2>1 DEF Crash, Sight, Atomic!GiveUp
<1>6. ASSUME NEW r \in Req,
             LockMutex(r) \/ LockFile(r) \/ Load(r) \/ Refuse(r) \/ UnlockFile(r)
      PROVE  Same
  <2>1. \A q \in Req : Seen(q)' = Seen(q)
    BY <1>6 DEF LockMutex, LockFile, Load, Refuse, UnlockFile, Seen
  <2>2. tree' = tree
    BY <1>6 DEF LockMutex, LockFile, Load, Refuse, UnlockFile
  <2> QED
    BY <2>1, <2>2 DEF Sight
<1>7. ASSUME NEW p \in Proc, Start(p) PROVE Same
  BY <1>7 DEF Start, Seen, Sight
<1>8. ASSUME UNCHANGED vars PROVE Same
  BY <1>8 DEF vars, Seen, Sight
<1>9. ASSUME NEW R \in SUBSET Req, Atomic!GiveUp(R) PROVE Atomic!Next
  BY <1>9 DEF Atomic!Next
<1>10. \A r \in Req : {r} \in SUBSET Req
  OBVIOUS
<1> QED
  BY <1>1, <1>2, <1>3, <1>4, <1>5, <1>6, <1>7, <1>8, <1>9, <1>10
  DEF Next, Proceed, Atomic!Next

\* Store.Update implements the atomic store: no update is lost, none is made
\* twice, and nil is returned only for one that was made.
THEOREM UpdateIsAtomic == Spec => ImplementsAtomicStore
<1>1. Init => Atomic!Init
  BY DEF Init, Atomic!Init, Seen
<1>2. IInv /\ [Next]_vars => [Atomic!Next]_<<tree, Sight>>
  BY StepRefines
<1> QED
  BY <1>1, <1>2, Invariant, PTL DEF Spec, ImplementsAtomicStore, Atomic!Spec, Sight
=============================================================================
