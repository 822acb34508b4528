------------------------ MODULE PlugInObjects_proofs -------------------------
(***************************************************************************)
(* Proofs about the mutexes and the objects of the plug-in.  CAMutex       *)
(* implements AbstractLock, for every number of threads and mutexes and    *)
(* every way of using it; the plug-in uses its mutexes as CAMutex allows,  *)
(* so that all their guarantees hold in it, and takes them in one order;   *)
(* the object map and the device list keep their types; and every use of   *)
(* an object is covered by a reference, so that none comes after the free. *)
(***************************************************************************)
EXTENDS PlugInObjects, FiniteSetTheorems, TLAPS

-----------------------------------------------------------------------------
(* The recursive mutex.                                                    *)

\* The owner has the pthread mutex.
OwnerHasMutex == \A m \in Mutexes : mOwner[m] # None => pmutex[m] = mOwner[m]

\* A thread is the owner exactly while it has Lockers.
OwnerHasLockers ==
  \A t \in Threads, m \in Mutexes : lockers[t][m] > 0 <=> mOwner[m] = t

\* Between storing or clearing the owner and the call of pthread there is none.
NoOwnerBetween ==
  \A t \in Threads : at[t] \in {"own", "unlock"} =>
    pmutex[wants[t]] = t /\ mOwner[wants[t]] = None

\* The oldest Locker of a thread on a mutex is the one that locked.
OldestReleases ==
  \A t \in Threads, m \in Mutexes :
    needs[t][m] = IF lockers[t][m] > 0 THEN {1} ELSE {}

LockInv == LockTypeOK /\ OwnerHasMutex /\ OwnerHasLockers /\ NoOwnerBetween /\ OldestReleases

-----------------------------------------------------------------------------
\* LockInv holds initially.
LEMMA LockInvInit == LockInit => LockInv
  <1> SUFFICES ASSUME LockInit PROVE LockInv
    OBVIOUS
  <1>1. LockTypeOK
    BY DEF LockInit, LockTypeOK, Steps
  <1>2. OwnerHasMutex /\ NoOwnerBetween
    BY DEF LockInit, OwnerHasMutex, NoOwnerBetween
  <1>3. OwnerHasLockers /\ OldestReleases
    BY NoneAssumption DEF LockInit, OwnerHasLockers, OldestReleases
  <1> QED
    BY <1>1, <1>2, <1>3 DEF LockInv

\* A Locker is constructed.
LEMMA LockKeeps ==
  ASSUME LockInv, NEW t \in Threads, NEW m \in Mutexes, Lock(t, m)
  PROVE  LockInv'
  <1>1. CASE mOwner[m] = t
    <2>1. /\ lockers' = [lockers EXCEPT ![t][m] = lockers[t][m] + 1]
          /\ UNCHANGED <<mOwner, pmutex, at, wants, needs>>
      BY <1>1 DEF Lock
    <2>2. lockers[t][m] \in Nat /\ lockers[t][m] > 0
      BY <1>1 DEF LockInv, LockTypeOK, OwnerHasLockers
    <2>3. LockTypeOK' /\ OwnerHasMutex' /\ NoOwnerBetween'
      BY <2>1, <2>2 DEF LockInv, LockTypeOK, OwnerHasMutex, NoOwnerBetween
    <2>4. OwnerHasLockers' /\ OldestReleases'
      BY <1>1, <2>1, <2>2 DEF LockInv, LockTypeOK, OwnerHasLockers, OldestReleases
    <2> QED
      BY <2>3, <2>4 DEF LockInv
  <1>2. CASE mOwner[m] # t
    <2>1. /\ at' = [at EXCEPT ![t] = "lock"] /\ wants' = [wants EXCEPT ![t] = m]
          /\ UNCHANGED <<lockers, needs, mOwner, pmutex>>
      BY <1>2 DEF Lock
    <2>2. LockTypeOK'
      BY <2>1 DEF LockInv, LockTypeOK, Steps
    <2>3. OwnerHasMutex' /\ OwnerHasLockers' /\ OldestReleases'
      BY <2>1 DEF LockInv, OwnerHasMutex, OwnerHasLockers, OldestReleases
    <2>4. NoOwnerBetween'
      BY <2>1 DEF LockInv, LockTypeOK, NoOwnerBetween
    <2> QED
      BY <2>2, <2>3, <2>4 DEF LockInv
  <1> QED
    BY <1>1, <1>2

\* The pthread mutex is locked.
LEMMA PthreadLockKeeps ==
  ASSUME LockInv, NEW t \in Threads, pthread_mutex_lock(t)
  PROVE  LockInv'
  <1>1. /\ wants[t] \in Mutexes /\ pmutex[wants[t]] = None
        /\ pmutex' = [pmutex EXCEPT ![wants[t]] = t] /\ at' = [at EXCEPT ![t] = "own"]
        /\ UNCHANGED <<mOwner, wants, lockers, needs>>
    BY DEF pthread_mutex_lock, LockInv, LockTypeOK
  <1>2. mOwner[wants[t]] = None
    BY <1>1, NoneAssumption DEF LockInv, LockTypeOK, OwnerHasMutex
  <1>3. LockTypeOK'
    BY <1>1 DEF LockInv, LockTypeOK, Steps
  <1>4. OwnerHasMutex'
    BY <1>1, <1>2 DEF LockInv, LockTypeOK, OwnerHasMutex
  <1>5. OwnerHasLockers' /\ OldestReleases'
    BY <1>1 DEF LockInv, OwnerHasLockers, OldestReleases
  <1>6. NoOwnerBetween'
    BY <1>1, <1>2, NoneAssumption DEF LockInv, LockTypeOK, NoOwnerBetween
  <1> QED
    BY <1>3, <1>4, <1>5, <1>6 DEF LockInv

\* What Locked starts from and does: nobody has a Locker, its thread gets the first.
LEMMA LockedFacts ==
  ASSUME LockInv, NEW t \in Threads, Locked(t)
  PROVE  /\ wants[t] \in Mutexes /\ pmutex[wants[t]] = t /\ mOwner[wants[t]] = None
         /\ \A u \in Threads : lockers[u][wants[t]] = 0 /\ needs[u][wants[t]] = {}
         /\ mOwner' = [mOwner EXCEPT ![wants[t]] = t]
         /\ lockers' = [lockers EXCEPT ![t][wants[t]] = 1]
         /\ needs' = [needs EXCEPT ![t][wants[t]] = {1}]
         /\ at' = [at EXCEPT ![t] = "out"] /\ wants' = [wants EXCEPT ![t] = None]
         /\ UNCHANGED pmutex
  <1>1. wants[t] \in Mutexes /\ pmutex[wants[t]] = t /\ mOwner[wants[t]] = None
    BY DEF Locked, LockInv, LockTypeOK, NoOwnerBetween
  <1>2. \A u \in Threads : lockers[u][wants[t]] = 0 /\ needs[u][wants[t]] = {}
    BY <1>1, NoneAssumption DEF LockInv, LockTypeOK, OwnerHasLockers, OldestReleases
  <1>3. lockers[t][wants[t]] + 1 = 1 /\ needs[t][wants[t]] \cup {1} = {1}
    BY <1>2
  <1> QED
    BY <1>1, <1>2, <1>3 DEF Locked

\* The thread becomes the owner.
LEMMA LockedKeeps ==
  ASSUME LockInv, NEW t \in Threads, Locked(t)
  PROVE  LockInv'
  <1> DEFINE m == wants[t]
  <1>1. /\ m \in Mutexes /\ pmutex[m] = t /\ mOwner[m] = None
        /\ \A u \in Threads : lockers[u][m] = 0 /\ needs[u][m] = {}
        /\ mOwner' = [mOwner EXCEPT ![m] = t]
        /\ lockers' = [lockers EXCEPT ![t][m] = 1]
        /\ needs' = [needs EXCEPT ![t][m] = {1}]
        /\ at' = [at EXCEPT ![t] = "out"] /\ wants' = [wants EXCEPT ![t] = None]
        /\ UNCHANGED pmutex
    BY LockedFacts
  <1> HIDE DEF m
  <1>2. LockTypeOK'
    BY <1>1 DEF LockInv, LockTypeOK, Steps
  <1>3. OwnerHasMutex'
    BY <1>1 DEF LockInv, LockTypeOK, OwnerHasMutex
  <1>4. OwnerHasLockers'
    BY <1>1, NoneAssumption DEF LockInv, LockTypeOK, OwnerHasLockers
  <1>5. OldestReleases'
    BY <1>1 DEF LockInv, LockTypeOK, OldestReleases
  <1>6. NoOwnerBetween'
    BY <1>1 DEF LockInv, LockTypeOK, NoOwnerBetween
  <1> QED
    BY <1>2, <1>3, <1>4, <1>5, <1>6 DEF LockInv

\* What Unlock does: the only Locker gives up the mutex, any other just goes.
LEMMA UnlockFacts ==
  ASSUME LockInv, NEW t \in Threads, NEW m \in Mutexes, Unlock(t, m)
  PROVE  /\ mOwner[m] = t /\ pmutex[m] = t /\ lockers[t][m] \in Nat
         /\ \/ /\ lockers[t][m] = 1
               /\ lockers' = [lockers EXCEPT ![t][m] = 0]
               /\ needs' = [needs EXCEPT ![t][m] = {}]
               /\ mOwner' = [mOwner EXCEPT ![m] = None]
               /\ at' = [at EXCEPT ![t] = "unlock"] /\ wants' = [wants EXCEPT ![t] = m]
               /\ UNCHANGED pmutex
            \/ /\ lockers[t][m] > 1
               /\ lockers' = [lockers EXCEPT ![t][m] = lockers[t][m] - 1]
               /\ needs' = [needs EXCEPT ![t][m] = {1}]
               /\ UNCHANGED <<mOwner, at, wants, pmutex>>
  <1>1. lockers[t][m] \in Nat /\ lockers[t][m] > 0
    BY DEF Unlock, LockInv, LockTypeOK
  <1>2. mOwner[m] = t /\ pmutex[m] = t
    BY <1>1, NoneAssumption DEF LockInv, OwnerHasLockers, OwnerHasMutex
  <1>3. needs[t][m] = {1}
    BY <1>1 DEF LockInv, OldestReleases
  <1>4. CASE lockers[t][m] = 1
    <2>1. needs[t][m] \ {lockers[t][m]} = {} /\ lockers[t][m] \in needs[t][m] /\ lockers[t][m] - 1 = 0
      BY <1>3, <1>4
    <2> QED
      BY <1>1, <1>2, <1>4, <2>1 DEF Unlock
  <1>5. CASE lockers[t][m] > 1
    <2>1. needs[t][m] \ {lockers[t][m]} = {1} /\ lockers[t][m] \notin needs[t][m]
      BY <1>1, <1>3, <1>5
    <2> QED
      BY <1>1, <1>2, <1>5, <2>1 DEF Unlock
  <1> QED
    BY <1>1, <1>4, <1>5

\* A Locker is destroyed.
LEMMA UnlockKeeps ==
  ASSUME LockInv, NEW t \in Threads, NEW m \in Mutexes, Unlock(t, m)
  PROVE  LockInv'
  <1>1. mOwner[m] = t /\ pmutex[m] = t /\ lockers[t][m] \in Nat
    BY UnlockFacts
  <1>2. CASE /\ lockers[t][m] = 1
             /\ lockers' = [lockers EXCEPT ![t][m] = 0]
             /\ needs' = [needs EXCEPT ![t][m] = {}]
             /\ mOwner' = [mOwner EXCEPT ![m] = None]
             /\ at' = [at EXCEPT ![t] = "unlock"] /\ wants' = [wants EXCEPT ![t] = m]
             /\ UNCHANGED pmutex
    <2>1. LockTypeOK'
      BY <1>1, <1>2 DEF LockInv, LockTypeOK, Steps
    <2>2. OwnerHasMutex'
      BY <1>1, <1>2 DEF LockInv, LockTypeOK, OwnerHasMutex
    <2>3. OwnerHasLockers'
      BY <1>1, <1>2, NoneAssumption DEF LockInv, LockTypeOK, OwnerHasLockers
    <2>4. OldestReleases'
      BY <1>1, <1>2 DEF LockInv, LockTypeOK, OldestReleases
    <2>5. NoOwnerBetween'
      BY <1>1, <1>2 DEF LockInv, LockTypeOK, NoOwnerBetween
    <2> QED
      BY <2>1, <2>2, <2>3, <2>4, <2>5 DEF LockInv
  <1>3. CASE /\ lockers[t][m] > 1
             /\ lockers' = [lockers EXCEPT ![t][m] = lockers[t][m] - 1]
             /\ needs' = [needs EXCEPT ![t][m] = {1}]
             /\ UNCHANGED <<mOwner, at, wants, pmutex>>
    <2>1. LockTypeOK' /\ OwnerHasMutex' /\ NoOwnerBetween'
      BY <1>1, <1>3 DEF LockInv, LockTypeOK, OwnerHasMutex, NoOwnerBetween
    <2>2. OwnerHasLockers'
      BY <1>1, <1>3 DEF LockInv, LockTypeOK, OwnerHasLockers
    <2>3. OldestReleases'
      BY <1>1, <1>3 DEF LockInv, LockTypeOK, OldestReleases
    <2> QED
      BY <2>1, <2>2, <2>3 DEF LockInv
  <1> QED
    BY <1>2, <1>3, UnlockFacts

\* The pthread mutex is unlocked.
LEMMA PthreadUnlockKeeps ==
  ASSUME LockInv, NEW t \in Threads, pthread_mutex_unlock(t)
  PROVE  LockInv'
  <1>1. /\ wants[t] \in Mutexes /\ pmutex[wants[t]] = t /\ mOwner[wants[t]] = None
        /\ pmutex' = [pmutex EXCEPT ![wants[t]] = None] /\ at' = [at EXCEPT ![t] = "out"]
        /\ wants' = [wants EXCEPT ![t] = None] /\ UNCHANGED <<mOwner, lockers, needs>>
    BY DEF pthread_mutex_unlock, LockInv, LockTypeOK, NoOwnerBetween
  <1>2. LockTypeOK'
    BY <1>1 DEF LockInv, LockTypeOK, Steps
  <1>3. OwnerHasMutex'
    BY <1>1 DEF LockInv, LockTypeOK, OwnerHasMutex
  <1>4. OwnerHasLockers' /\ OldestReleases'
    BY <1>1 DEF LockInv, OwnerHasLockers, OldestReleases
  <1>5. NoOwnerBetween'
    BY <1>1 DEF LockInv, LockTypeOK, NoOwnerBetween
  <1> QED
    BY <1>2, <1>3, <1>4, <1>5 DEF LockInv

\* Every step keeps LockInv.
LEMMA LockInvNext == LockInv /\ [LockNext]_lockVars => LockInv'
  <1> SUFFICES ASSUME LockInv, [LockNext]_lockVars PROVE LockInv'
    OBVIOUS
  <1>1. CASE UNCHANGED lockVars
    BY <1>1 DEF lockVars, LockInv, LockTypeOK, OwnerHasMutex, OwnerHasLockers, NoOwnerBetween,
                OldestReleases
  <1>2. CASE LockNext
    BY <1>2, LockKeeps, PthreadLockKeeps, LockedKeeps, UnlockKeeps, PthreadUnlockKeeps
       DEF LockNext, LockStep
  <1> QED
    BY <1>1, <1>2

\* The type invariant of the lock, for any users.
THEOREM LockTypeCorrect == LockSpec => []LockTypeOK
  <1>1. LockInv => LockTypeOK
    BY DEF LockInv
  <1> QED
    BY <1>1, LockInvInit, LockInvNext, PTL DEF LockSpec

\* The inductive invariant holds throughout.
LEMMA LockInvAlways == LockSpec => []LockInv
  BY LockInvInit, LockInvNext, PTL DEF LockSpec

\* Two threads are never inside Lockers on the same mutex (CAMutex.h, "A recursive mutex").
THEOREM MutualExclusion ==
  LockSpec => [](\A t, u \in Threads, m \in Mutexes : lockers[t][m] > 0 /\ lockers[u][m] > 0 => t = u)
  <1>1. LockInv => \A t, u \in Threads, m \in Mutexes : lockers[t][m] > 0 /\ lockers[u][m] > 0 => t = u
    BY DEF LockInv, OwnerHasLockers
  <1> QED
    BY <1>1, LockInvAlways, PTL

-----------------------------------------------------------------------------
(* Refinement.                                                             *)

\* A step that keeps who has Lockers is a stutter of the abstract lock.
LEMMA SameHolders ==
  ASSUME \A u \in Threads, n \in Mutexes : lockers'[u][n] > 0 <=> lockers[u][n] > 0
  PROVE  Holders' = Holders
  BY DEF Holders

\* Locked is the abstract Acquire: the mutex had no holder.
LEMMA LockedAcquires ==
  ASSUME LockInv, NEW t \in Threads, Locked(t)
  PROVE  Abs!Acquire(t, wants[t])
  <1> DEFINE m == wants[t]
  <1>1. /\ m \in Mutexes
        /\ \A u \in Threads : lockers[u][m] = 0
        /\ lockers' = [lockers EXCEPT ![t][m] = 1]
    BY LockedFacts
  <1> HIDE DEF m
  <1>2. /\ \A u \in Threads : lockers'[u][m] > 0 <=> u = t
        /\ \A u \in Threads, n \in Mutexes \ {m} : lockers'[u][n] = lockers[u][n]
    BY <1>1 DEF LockInv, LockTypeOK
  <1>3. Holders[m] = {} /\ Holders \in [Mutexes -> SUBSET Threads]
    BY <1>1 DEF Holders
  <1>4. Holders' = [Holders EXCEPT ![m] = {t}]
    <2>1. \A n \in Mutexes : {u \in Threads : lockers'[u][n] > 0} =
                               IF n = m THEN {t} ELSE {u \in Threads : lockers[u][n] > 0}
      BY <1>1, <1>2
    <2> QED
      BY <1>1, <2>1 DEF Holders
  <1> QED
    BY <1>3, <1>4 DEF Abs!Acquire, m

\* Unlock is the abstract Release when the last Locker goes, else a stutter.
LEMMA UnlockReleases ==
  ASSUME LockInv, NEW t \in Threads, NEW m \in Mutexes, Unlock(t, m)
  PROVE  Abs!Release(t, m) \/ Holders' = Holders
  <1>1. mOwner[m] = t /\ lockers[t][m] \in Nat
    BY UnlockFacts
  <1>2. CASE lockers[t][m] = 1 /\ lockers' = [lockers EXCEPT ![t][m] = 0]
    <2>1. \A u \in Threads : lockers[u][m] > 0 <=> u = t
      BY <1>1, <1>2 DEF LockInv, OwnerHasLockers
    <2>2. /\ \A u \in Threads : ~(lockers'[u][m] > 0)
          /\ \A u \in Threads, n \in Mutexes \ {m} : lockers'[u][n] = lockers[u][n]
      BY <1>2, <2>1 DEF LockInv, LockTypeOK
    <2>3. Holders[m] = {t} /\ Holders \in [Mutexes -> SUBSET Threads]
      BY <2>1 DEF Holders
    <2>4. \A n \in Mutexes : {u \in Threads : lockers'[u][n] > 0} =
                               IF n = m THEN {} ELSE {u \in Threads : lockers[u][n] > 0}
      BY <2>2
    <2>5. Holders' = [Holders EXCEPT ![m] = {}]
      BY <2>4 DEF Holders
    <2> QED
      BY <2>3, <2>5 DEF Abs!Release
  <1>3. CASE lockers[t][m] > 1 /\ lockers' = [lockers EXCEPT ![t][m] = lockers[t][m] - 1]
    <2>1. \A u \in Threads, n \in Mutexes : lockers'[u][n] > 0 <=> lockers[u][n] > 0
      BY <1>1, <1>3 DEF LockInv, LockTypeOK
    <2> QED
      BY <2>1, SameHolders
  <1> QED
    BY <1>2, <1>3, UnlockFacts

\* Lock and the calls of pthread are stutters: nobody enters or leaves a scope.
LEMMA OthersStutter ==
  ASSUME LockInv, NEW t \in Threads,
         \/ pthread_mutex_lock(t) \/ pthread_mutex_unlock(t)
         \/ \E m \in Mutexes : Lock(t, m)
  PROVE  Holders' = Holders
  <1>1. CASE lockers' = lockers
    BY <1>1, SameHolders
  <1>2. ASSUME NEW m \in Mutexes, Lock(t, m), mOwner[m] = t
        PROVE  Holders' = Holders
    <2>1. lockers[t][m] \in Nat /\ lockers[t][m] > 0 /\ lockers' = [lockers EXCEPT ![t][m] = lockers[t][m] + 1]
      BY <1>2 DEF Lock, LockInv, LockTypeOK, OwnerHasLockers
    <2>2. \A u \in Threads, n \in Mutexes : lockers'[u][n] > 0 <=> lockers[u][n] > 0
      BY <2>1 DEF LockInv, LockTypeOK
    <2> QED
      BY <2>2, SameHolders
  <1> QED
    BY <1>1, <1>2 DEF pthread_mutex_lock, pthread_mutex_unlock, Lock

\* CAMutex with Lockers implements the abstract lock, whatever its users do.
THEOREM LockRefinement == LockSpec => ImplementsLock
  <1>1. LockInit => Abs!Init
    BY DEF LockInit, Abs!Init, Holders
  <1>2. LockInv /\ [LockNext]_lockVars => [Abs!Next]_Holders
    <2> SUFFICES ASSUME LockInv, [LockNext]_lockVars
                 PROVE  Abs!Next \/ Holders' = Holders
      OBVIOUS
    <2>1. CASE UNCHANGED lockVars
      BY <2>1 DEF lockVars, Holders
    <2>2. ASSUME NEW t \in Threads, Locked(t) PROVE Abs!Next
      <3>1. wants[t] \in Mutexes /\ Abs!Acquire(t, wants[t])
        BY <2>2, LockedFacts, LockedAcquires
      <3> QED
        BY <3>1 DEF Abs!Next
    <2>3. ASSUME NEW t \in Threads, NEW m \in Mutexes, Unlock(t, m)
          PROVE  Abs!Next \/ Holders' = Holders
      BY <2>3, UnlockReleases DEF Abs!Next
    <2>4. CASE LockNext
      BY <2>2, <2>3, <2>4, OthersStutter DEF LockNext, LockStep
    <2> QED
      BY <2>1, <2>4
  <1> QED
    BY <1>1, <1>2, LockInvAlways, PTL DEF LockSpec, ImplementsLock, Abs!Spec

-----------------------------------------------------------------------------
(* The plug-in as a user of it.                                            *)

\* A step of the plug-in is one of the lock's, or does not touch the mutexes.
LEMMA ObjectStepIsLockStep == [ObjectNext]_vars => [LockNext]_lockVars
  <1> SUFFICES ASSUME [ObjectNext]_vars PROVE LockNext \/ UNCHANGED lockVars
    OBVIOUS
  <1>1. CASE UNCHANGED vars
    BY <1>1 DEF vars
  <1>2. ASSUME NEW t \in Threads, Step(t) PROVE LockNext \/ UNCHANGED lockVars
    <2>1. CASE Mutex(t)
      BY <2>1 DEF Mutex, LockNext
    <2>2. CASE Find(t) \/ Map(t) \/ Unmap(t) \/ Copy(t) \/ Release(t)
      BY <2>2 DEF Find, Map, Unmap, Copy, Release
    <2>3. CASE New(t) \/ DestroyObject(t) \/ HW_Open(t) \/ SetActive(t)
      BY <2>3 DEF New, DestroyObject, HW_Open, SetActive
    <2>4. CASE EditList(t) \/ Work(t) \/ Loaded(t)
      BY <2>4 DEF EditList, Work, Loaded
    <2> QED
      BY <1>2, <2>1, <2>2, <2>3, <2>4 DEF Step
  <1>3. ASSUME NEW t \in HalThreads, Call(t) PROVE UNCHANGED lockVars
    BY <1>3 DEF Call
  <1>4. CASE RunBlock
    BY <1>4 DEF RunBlock
  <1> QED
    BY <1>1, <1>2, <1>3, <1>4 DEF ObjectNext

\* The plug-in's threads behave as users of the lock.
LEMMA ObjectSpecIsLockSpec == ObjectSpec => LockSpec
  <1>1. ObjectInit => LockInit
    BY DEF ObjectInit
  <1> QED
    BY <1>1, ObjectStepIsLockStep, PTL DEF ObjectSpec, LockSpec

\* In the plug-in, the scopes of Lockers on one mutex never overlap between
\* threads, for any number of threads of coreaudiod and any number of calls.
THEOREM PlugInLocks == ObjectSpec => ImplementsLock
  BY ObjectSpecIsLockSpec, LockRefinement, PTL

-----------------------------------------------------------------------------
(* A calculus of the programs.  E is a set of triples <<instruction, state  *)
(* before, state after>>; Path(E, S, c, s, e) says that these lead through  *)
(* the instructions of c from state s to state e, by states in S.          *)

Instructions ==
  ({"lock", "unlock"} \X Mutexes)
    \cup ({"find ID", "map", "unmap", "copy", "check"} \X IDs)
    \cup ({"new"} \X Objects)
    \cup ({"add", "remove"} \X {DeviceID})
    \cup ({"find object", "release", "delete", "open", "activate", "deactivate",
           "remove all", "use", "loaded"} \X {Nil})

\* h is the state before each instruction, and in the end.
Trace(E, S, c, h) ==
  /\ h \in [1 .. Len(c) + 1 -> S]
  /\ \A i \in 1 .. Len(c) : <<c[i], h[i], h[i + 1]>> \in E

Path(E, S, c, s, e) ==
  /\ c \in Seq(Instructions)
  /\ \E h : Trace(E, S, c, h) /\ h[1] = s /\ h[Len(c) + 1] = e

\* The empty program changes nothing.
LEMMA PathNothing ==
  ASSUME NEW E, NEW S, NEW s \in S
  PROVE  Path(E, S, <<>>, s, s)
<1> DEFINE h == [i \in 1 .. Len(<<>>) + 1 |-> s]
<1>1. <<>> \in Seq(Instructions) /\ Len(<<>>) = 0
  OBVIOUS
<1>2. Trace(E, S, <<>>, h) /\ h[1] = s /\ h[Len(<<>>) + 1] = s
  BY <1>1 DEF Trace
<1> QED BY <1>1, <1>2 DEF Path

\* It does not change anything.
LEMMA NothingPath ==
  ASSUME NEW E, NEW S, NEW s, NEW e, Path(E, S, <<>>, s, e)
  PROVE  s = e
  BY DEF Path, Trace

\* A program of one instruction.
LEMMA PathOne ==
  ASSUME NEW E, NEW S, NEW x \in Instructions, NEW s \in S, NEW e \in S, <<x, s, e>> \in E
  PROVE  Path(E, S, <<x>>, s, e)
<1> DEFINE h == [i \in 1 .. Len(<<x>>) + 1 |-> IF i = 1 THEN s ELSE e]
<1>1. <<x>> \in Seq(Instructions) /\ Len(<<x>>) = 1 /\ <<x>>[1] = x
  OBVIOUS
<1>2. h \in [1 .. Len(<<x>>) + 1 -> S] /\ h[1] = s /\ h[2] = e
  BY <1>1
<1> HIDE DEF h
<1>3. Trace(E, S, <<x>>, h)
  BY <1>1, <1>2 DEF Trace
<1> QED BY <1>1, <1>2, <1>3 DEF Path

\* A program of two instructions.
LEMMA PathTwo ==
  ASSUME NEW E, NEW S, NEW x \in Instructions, NEW y \in Instructions,
         NEW s \in S, NEW m \in S, NEW e \in S, <<x, s, m>> \in E, <<y, m, e>> \in E
  PROVE  Path(E, S, <<x, y>>, s, e)
<1> DEFINE c == <<x, y>>
           h == [i \in 1 .. Len(c) + 1 |-> IF i = 1 THEN s ELSE IF i = 2 THEN m ELSE e]
<1>1. c \in Seq(Instructions) /\ Len(c) = 2 /\ c[1] = x /\ c[2] = y
  OBVIOUS
<1>2. h \in [1 .. Len(c) + 1 -> S] /\ h[1] = s /\ h[2] = m /\ h[3] = e
  BY <1>1
<1> HIDE DEF c, h
<1>3. Trace(E, S, c, h)
  BY <1>1, <1>2 DEF Trace
<1> QED BY <1>1, <1>2, <1>3 DEF Path, c

\* One program after another.
LEMMA PathThen ==
  ASSUME NEW E, NEW S, NEW c, NEW d, NEW s, NEW m, NEW e,
         Path(E, S, c, s, m), Path(E, S, d, m, e)
  PROVE  Path(E, S, c \o d, s, e)
<1>1. PICK h : Trace(E, S, c, h) /\ h[1] = s /\ h[Len(c) + 1] = m
  BY DEF Path
<1>2. PICK g : Trace(E, S, d, g) /\ g[1] = m /\ g[Len(d) + 1] = e
  BY DEF Path
<1>3. c \in Seq(Instructions) /\ d \in Seq(Instructions)
  BY DEF Path
<1> DEFINE cd == c \o d
           p == Len(c)
           q == Len(d)
           k == [i \in 1 .. Len(cd) + 1 |-> IF i <= p THEN h[i] ELSE g[i - p]]
<1>4. /\ cd \in Seq(Instructions) /\ Len(cd) = p + q /\ p \in Nat /\ q \in Nat
      /\ \A i \in 1 .. p : cd[i] = c[i]
      /\ \A i \in p + 1 .. p + q : cd[i] = d[i - p]
  BY <1>3
<1> HIDE DEF cd, p, q
<1>5. k \in [1 .. Len(cd) + 1 -> S]
  BY <1>1, <1>2, <1>4 DEF Trace, p, q
<1>6. \A i \in 1 .. p + 1 : k[i] = h[i]
  BY <1>1, <1>2, <1>4 DEF p
<1>7. \A i \in p + 1 .. p + q + 1 : k[i] = g[i - p]
  BY <1>1, <1>2, <1>4 DEF p
<1> HIDE DEF k
<1>8. ASSUME NEW i \in 1 .. Len(cd) PROVE <<cd[i], k[i], k[i + 1]>> \in E
  <2>1. CASE i <= p
    <3>1. <<c[i], h[i], h[i + 1]>> \in E
      BY <1>1, <1>4, <2>1 DEF Trace, p
    <3>2. cd[i] = c[i] /\ k[i] = h[i] /\ k[i + 1] = h[i + 1]
      BY <1>4, <1>6, <2>1
    <3> QED BY <3>1, <3>2
  <2>2. CASE ~(i <= p)
    <3>1. i - p \in 1 .. q
      BY <1>4, <2>2
    <3>2. <<d[i - p], g[i - p], g[i - p + 1]>> \in E
      BY <1>2, <3>1 DEF Trace, q
    <3>3. cd[i] = d[i - p] /\ k[i] = g[i - p] /\ k[i + 1] = g[i + 1 - p] /\ i + 1 - p = i - p + 1
      BY <1>4, <1>7, <2>2
    <3> QED BY <3>2, <3>3
  <2> QED BY <2>1, <2>2
<1>9. k[1] = s /\ k[Len(cd) + 1] = e
  BY <1>1, <1>2, <1>4, <1>6, <1>7 DEF q
<1> QED BY <1>4, <1>5, <1>8, <1>9 DEF Path, Trace, cd

\* The first instruction, and the rest.
LEMMA PathHead ==
  ASSUME NEW E, NEW S, NEW c, NEW s, NEW e, Path(E, S, c, s, e), c # <<>>
  PROVE  /\ Head(c) \in Instructions
         /\ \E m \in S : <<Head(c), s, m>> \in E /\ Path(E, S, Tail(c), m, e)
<1>1. c \in Seq(Instructions)
  BY DEF Path
<1>2. PICK h : Trace(E, S, c, h) /\ h[1] = s /\ h[Len(c) + 1] = e
  BY DEF Path
<1> DEFINE d == Tail(c)
           n == Len(c)
           g == [i \in 1 .. Len(d) + 1 |-> h[i + 1]]
<1>3. /\ n \in Nat \ {0} /\ d \in Seq(Instructions) /\ Len(d) = n - 1
      /\ \A i \in 1 .. n - 1 : d[i] = c[i + 1]
      /\ Head(c) = c[1] /\ c[1] \in Instructions
  BY <1>1
<1>4. h \in [1 .. n + 1 -> S] /\ \A i \in 1 .. n : <<c[i], h[i], h[i + 1]>> \in E
  BY <1>2 DEF Trace
<1> HIDE DEF d, n
<1>5. g \in [1 .. Len(d) + 1 -> S] /\ g[1] = h[2] /\ g[Len(d) + 1] = h[n + 1]
  BY <1>3, <1>4
<1>6. \A i \in 1 .. Len(d) : <<d[i], g[i], g[i + 1]>> \in E
  BY <1>3, <1>4
<1> HIDE DEF g
<1>7. Path(E, S, d, h[2], e)
  BY <1>2, <1>3, <1>5, <1>6 DEF Path, Trace, n
<1>8. h[2] \in S /\ <<Head(c), s, h[2]>> \in E
  BY <1>2, <1>3, <1>4
<1> QED BY <1>3, <1>7, <1>8 DEF d

-----------------------------------------------------------------------------
(* The programs and the mutexes.  Effect(x, s, e) says that instruction x   *)
(* may be executed by a thread that holds the mutexes s, and leaves it with *)
(* e; Runs(c, s, e) says the same of a sequence.                           *)

MapOperations == {"find ID", "find object", "map", "unmap", "copy", "release"}

\* A call that ends early, and a creation that fails, must hold no mutex; the map
\* is accessed under its own.
Effect(x, s, e) ==
  /\ x[1] = "lock" => e = s \cup {x[2]} /\ \A m \in s : Rank(m) < Rank(x[2])
  /\ x[1] = "unlock" => x[2] \in s /\ e = s \ {x[2]}
  /\ x[1] \notin {"lock", "unlock"} => e = s
  /\ x[1] \in {"check", "open"} => s = {}
  /\ x[1] \in MapOperations => MapMutex \in s

Effects ==
  {z \in Instructions \X (SUBSET Mutexes) \X (SUBSET Mutexes) : Effect(z[1], z[2], z[3])}

Runs(c, s, e) == Path(Effects, SUBSET Mutexes, c, s, e)

\* The triples of the relation.
LEMMA EffectsAre ==
  ASSUME NEW x, NEW s, NEW e
  PROVE  <<x, s, e>> \in Effects <=>
           x \in Instructions /\ s \in SUBSET Mutexes /\ e \in SUBSET Mutexes /\ Effect(x, s, e)
  BY DEF Effects

\* The empty program changes nothing.
LEMMA RunsNothing ==
  ASSUME NEW s \in SUBSET Mutexes
  PROVE  Runs(<<>>, s, s)
  BY PathNothing DEF Runs

\* A program of one instruction.
LEMMA RunsOne ==
  ASSUME NEW x \in Instructions, NEW s \in SUBSET Mutexes, NEW e \in SUBSET Mutexes,
         Effect(x, s, e)
  PROVE  Runs(<<x>>, s, e)
  BY PathOne, EffectsAre DEF Runs

\* One program after another.
LEMMA RunsThen ==
  ASSUME NEW c, NEW d, NEW s, NEW m, NEW e, Runs(c, s, m), Runs(d, m, e)
  PROVE  Runs(c \o d, s, e)
  BY PathThen DEF Runs

\* The first instruction, and the rest.
LEMMA RunsHead ==
  ASSUME NEW c, NEW s, NEW e, Runs(c, s, e), c # <<>>
  PROVE  /\ Head(c) \in Instructions
         /\ \E m \in SUBSET Mutexes : Effect(Head(c), s, m) /\ Runs(Tail(c), m, e)
<1>1. Path(Effects, SUBSET Mutexes, c, s, e)
  BY DEF Runs, Path
<1>2. /\ Head(c) \in Instructions
      /\ \E m \in SUBSET Mutexes :
           <<Head(c), s, m>> \in Effects /\ Path(Effects, SUBSET Mutexes, Tail(c), m, e)
  BY <1>1, PathHead
<1> QED BY <1>2, EffectsAre DEF Runs

\* The order of the mutexes.
LEMMA RankOf ==
  Rank(PlugInMutex) = 1 /\ Rank(StateMutex) = 2 /\ Rank(IOMutex) = 3 /\ Rank(MapMutex) = 4
<1> DEFINE order == <<PlugInMutex, StateMutex, IOMutex, MapMutex>>
<1>1. /\ order[1] = "plug-in" /\ order[2] = "state" /\ order[3] = "io" /\ order[4] = "map"
  BY DEF PlugInMutex, StateMutex, IOMutex, MapMutex
<1>2. \A i \in 1 .. 4 : i = 1 \/ i = 2 \/ i = 3 \/ i = 4
  OBVIOUS
<1> HIDE DEF order
<1>3. \A m : Rank(m) = CHOOSE i \in 1 .. 4 : order[i] = m
  BY DEF Rank, order
<1>4. Rank("plug-in") = 1
  BY <1>1, <1>2, <1>3
<1>5. Rank("state") = 2
  BY <1>1, <1>2, <1>3
<1>6. Rank("io") = 3
  BY <1>1, <1>2, <1>3
<1>7. Rank("map") = 4
  BY <1>1, <1>2, <1>3
<1> QED BY <1>4, <1>5, <1>6, <1>7 DEF PlugInMutex, StateMutex, IOMutex, MapMutex

\* The four mutexes.
LEMMA TheMutexes ==
  /\ PlugInMutex \in Mutexes /\ StateMutex \in Mutexes /\ IOMutex \in Mutexes
  /\ MapMutex \in Mutexes
  BY ObjectsAssumption

\* An instruction other than those of the mutexes leaves them as they are.
LEMMA RunsPlain ==
  ASSUME NEW x \in Instructions, NEW s \in SUBSET Mutexes,
         x[1] \notin {"lock", "unlock", "check", "open"} \cup MapOperations
  PROVE  Runs(<<x>>, s, s)
  BY RunsOne DEF Effect, MapOperations

\* A Locker on a mutex above all that are held, for the length of a scope.
LEMMA RunsScope ==
  ASSUME NEW m \in Mutexes, NEW s \in SUBSET Mutexes, NEW body,
         \A k \in s : Rank(k) < Rank(m), Rank(m) \in Nat, Runs(body, s \cup {m}, s \cup {m})
  PROVE  Runs(Scope(m, body), s, s)
<1> DEFINE lock == <<"lock", m>>
           unlock == <<"unlock", m>>
<1>1. lock \in Instructions /\ unlock \in Instructions
  BY DEF Instructions
<1>2. lock[1] = "lock" /\ lock[2] = m /\ unlock[1] = "unlock" /\ unlock[2] = m
  OBVIOUS
<1> HIDE DEF lock, unlock
<1>3. m \notin s
  OBVIOUS
<1>4. Effect(lock, s, s \cup {m}) /\ Effect(unlock, s \cup {m}, s)
  BY <1>2, <1>3 DEF Effect, MapOperations
<1>5. Runs(<<lock>>, s, s \cup {m}) /\ Runs(<<unlock>>, s \cup {m}, s)
  BY <1>1, <1>4, RunsOne
<1>6. Runs(<<lock>> \o body \o <<unlock>>, s, s)
  BY <1>5, RunsThen
<1> QED BY <1>6 DEF Scope, lock, unlock

\* Nothing is locked above the map's mutex, so the map is used anywhere below it.
LEMMA RunsInMap ==
  ASSUME NEW s \in SUBSET {PlugInMutex, StateMutex, IOMutex}, NEW body,
         Runs(body, s \cup {MapMutex}, s \cup {MapMutex})
  PROVE  Runs(Scope(MapMutex, body), s, s)
<1>1. \A k \in s : Rank(k) < Rank(MapMutex)
  BY RankOf
<1> QED BY <1>1, RunsScope, RankOf, TheMutexes

\* Two accesses to the map, under its mutex.
LEMMA RunsPair ==
  ASSUME NEW x \in Instructions, NEW y \in Instructions, NEW s \in SUBSET Mutexes,
         x[1] \in MapOperations, y[1] \in MapOperations, MapMutex \in s
  PROVE  Runs(<<x, y>>, s, s)
<1>1. Effect(x, s, s) /\ Effect(y, s, s)
  BY DEF Effect, MapOperations
<1> QED BY <1>1, PathTwo, EffectsAre DEF Runs

\* The operations of SA_ObjectMap take its mutex and no other.
LEMMA RunsMapOperation ==
  ASSUME NEW s \in SUBSET {PlugInMutex, StateMutex, IOMutex}, NEW id \in IDs
  PROVE  /\ Runs(MapObject(id), s, s) /\ Runs(UnmapObject(id), s, s)
         /\ Runs(CopyObject(id), s, s) /\ Runs(ReleaseObject, s, s)
<1> DEFINE f == <<"find ID", id>>
<1>1. s \cup {MapMutex} \in SUBSET Mutexes
  BY TheMutexes
<1>2. f \in Instructions /\ f[1] = "find ID"
  BY DEF Instructions
<1>3. ASSUME NEW op \in {"map", "unmap", "copy"}
      PROVE  Runs(Scope(MapMutex, <<f, <<op, id>>>>), s, s)
  <2>1. <<op, id>> \in Instructions /\ <<op, id>>[1] = op
    BY DEF Instructions
  <2>2. Runs(<<f, <<op, id>>>>, s \cup {MapMutex}, s \cup {MapMutex})
    BY <1>1, <1>2, <2>1, RunsPair DEF MapOperations
  <2> QED BY <2>2, RunsInMap
<1>4. Runs(ReleaseObject, s, s)
  <2> DEFINE x == <<"find object", Nil>>
             y == <<"release", Nil>>
  <2>1. x \in Instructions /\ y \in Instructions /\ x[1] = "find object" /\ y[1] = "release"
    BY DEF Instructions
  <2>2. Runs(<<x, y>>, s \cup {MapMutex}, s \cup {MapMutex})
    BY <1>1, <2>1, RunsPair DEF MapOperations
  <2> QED BY <2>2, RunsInMap DEF ReleaseObject
<1>5. Runs(MapObject(id), s, s)
  BY <1>3 DEF MapObject
<1>6. Runs(UnmapObject(id), s, s)
  BY <1>3 DEF UnmapObject
<1>7. Runs(CopyObject(id), s, s)
  BY <1>3 DEF CopyObject
<1> QED BY <1>4, <1>5, <1>6, <1>7

\* The instructions of the programs.
LEMMA PlainInstructions ==
  /\ \A o \in Objects : <<"new", o>> \in Instructions
  /\ \A op \in {"add", "remove"} : <<op, DeviceID>> \in Instructions
  /\ \A op \in {"delete", "open", "activate", "deactivate", "remove all", "use", "loaded"} :
       <<op, Nil>> \in Instructions
  /\ \A id \in IDs : <<"check", id>> \in Instructions
  BY DEF Instructions

\* One plain instruction under a Locker, when nothing is held.
LEMMA RunsLocked ==
  ASSUME NEW m \in {PlugInMutex, StateMutex}, NEW x \in Instructions,
         x[1] \notin {"lock", "unlock", "check", "open"} \cup MapOperations
  PROVE  Runs(Scope(m, <<x>>), {}, {})
<1>1. m \in Mutexes /\ {} \cup {m} \in SUBSET Mutexes /\ Rank(m) \in Nat
  BY TheMutexes, RankOf
<1>2. Runs(<<x>>, {} \cup {m}, {} \cup {m})
  BY <1>1, RunsPlain DEF MapOperations
<1> QED BY <1>1, <1>2, RunsScope

\* _AddDevice and _RemoveDevice under the plug-in's mutex.
LEMMA RunsDeviceList == Runs(AddDevice, {}, {}) /\ Runs(RemoveDevice, {}, {})
<1>1. ASSUME NEW op \in {"add", "remove"} PROVE Runs(Scope(PlugInMutex, <<<<op, DeviceID>>>>), {}, {})
  <2>1. <<op, DeviceID>> \in Instructions /\ <<op, DeviceID>>[1] = op
    BY PlainInstructions
  <2> QED BY <2>1, RunsLocked DEF MapOperations
<1> QED BY <1>1 DEF AddDevice, RemoveDevice

\* One plain instruction with nothing held.
LEMMA RunsFree ==
  ASSUME NEW op \in {"delete", "activate", "use", "loaded"}
  PROVE  Runs(<<<<op, Nil>>>>, {}, {})
<1>1. <<op, Nil>> \in Instructions /\ <<op, Nil>>[1] = op
  BY PlainInstructions
<1> QED BY <1>1, RunsPlain DEF MapOperations

\* The handler for an exception out of the device's Activate.
LEMMA RunsCreateFailed == Runs(CreateFailed, {}, {})
<1>1. Runs(ReleaseObject, {}, {})
  BY RunsMapOperation DEF IDs
<1>2. Runs(Return, {}, {})
  BY RunsFree DEF Return
<1> QED BY <1>1, <1>2, RunsDeviceList, RunsThen DEF CreateFailed

\* The creation of the plug-in and of the device.
LEMMA RunsStaticInitializer == Runs(StaticInitializer, {}, {})
<1>1. \A id \in IDs : Runs(MapObject(id), {}, {})
  BY RunsMapOperation
<1>2. ASSUME NEW o \in Objects PROVE Runs(<<<<"new", o>>>>, {}, {})
  <2>1. <<"new", o>> \in Instructions /\ <<"new", o>>[1] = "new"
    BY PlainInstructions
  <2> QED BY <2>1, RunsPlain DEF MapOperations
<1>3. Runs(<<<<"open", Nil>>>>, {}, {})
  <2>1. <<"open", Nil>> \in Instructions /\ <<"open", Nil>>[1] = "open"
    BY PlainInstructions
  <2>2. Effect(<<"open", Nil>>, {}, {})
    BY <2>1 DEF Effect, MapOperations
  <2> QED BY <2>1, <2>2, RunsOne
<1>4. Runs(DeviceActivate, {}, {})
  <2>1. Runs(<<<<"activate", Nil>>>>, {}, {})
    BY RunsFree
  <2>2. Runs(<<<<"open", Nil>>>> \o MapObject(StreamID), {}, {})
    BY <1>1, <1>3, RunsThen DEF IDs
  <2> QED BY <2>1, <2>2, RunsThen DEF DeviceActivate
<1>5. Runs(CreateDevices, {}, {})
  <2>1. Runs(<<<<"new", "device">>>> \o MapObject(DeviceID), {}, {})
    BY <1>1, <1>2, RunsThen DEF IDs, Objects
  <2>2. Runs(<<<<"new", "device">>>> \o MapObject(DeviceID) \o AddDevice, {}, {})
    BY <2>1, RunsDeviceList, RunsThen
  <2> QED BY <2>2, <1>4, RunsThen DEF CreateDevices
<1>6. Runs(Return, {}, {})
  BY RunsFree DEF Return
<1>7. Runs(<<<<"new", "plug-in">>>> \o MapObject(PlugInID), {}, {})
  BY <1>1, <1>2, RunsThen DEF IDs, Objects
<1>8. Runs(<<<<"new", "plug-in">>>> \o MapObject(PlugInID) \o CreateDevices, {}, {})
  BY <1>5, <1>7, RunsThen
<1> QED BY <1>6, <1>8, RunsThen DEF StaticInitializer

\* An entry point that takes its mutexes in order.
LEMMA RunsEntryPoint ==
  ASSUME NEW id \in IDs, NEW body, Runs(body, {}, {})
  PROVE  Runs(EntryPoint(id, body), {}, {})
<1>1. Runs(CopyObject(id), {}, {}) /\ Runs(ReleaseObject, {}, {})
  BY RunsMapOperation
<1>2. Runs(<<<<"check", id>>>>, {}, {})
  <2>1. <<"check", id>> \in Instructions /\ <<"check", id>>[1] = "check"
    BY PlainInstructions
  <2>2. Effect(<<"check", id>>, {}, {})
    BY <2>1 DEF Effect, MapOperations
  <2> QED BY <2>1, <2>2, RunsOne
<1>3. Runs(CopyObject(id) \o <<<<"check", id>>>>, {}, {})
  BY <1>1, <1>2, RunsThen
<1>4. Runs(CopyObject(id) \o <<<<"check", id>>>> \o body, {}, {})
  BY <1>3, RunsThen
<1> QED BY <1>1, <1>4, RunsThen DEF EntryPoint

\* SA_Device::Deactivate takes the state mutex, the IO mutex and the map's.
LEMMA RunsDeviceDeactivate == Runs(DeviceDeactivate, {}, {})
<1> DEFINE both == {StateMutex} \cup {IOMutex}
           inner == <<<<"deactivate", Nil>>>> \o UnmapObject(StreamID)
<1>1. both \in SUBSET Mutexes /\ both \in SUBSET {PlugInMutex, StateMutex, IOMutex}
  BY TheMutexes
<1>2. Runs(<<<<"deactivate", Nil>>>>, both, both)
  <2>1. <<"deactivate", Nil>> \in Instructions /\ <<"deactivate", Nil>>[1] = "deactivate"
    BY PlainInstructions
  <2> QED BY <1>1, <2>1, RunsPlain DEF MapOperations
<1>3. Runs(UnmapObject(StreamID), both, both)
  BY <1>1, RunsMapOperation DEF IDs
<1>4. Runs(inner, {StateMutex} \cup {IOMutex}, {StateMutex} \cup {IOMutex})
  BY <1>2, <1>3, RunsThen
<1> HIDE DEF inner
<1>5. Runs(Scope(IOMutex, inner), {StateMutex}, {StateMutex})
  <2>1. {StateMutex} \in SUBSET Mutexes /\ \A k \in {StateMutex} : Rank(k) < Rank(IOMutex)
    BY TheMutexes, RankOf
  <2> QED BY <1>4, <2>1, RunsScope, RankOf, TheMutexes
<1>6. Runs(Scope(StateMutex, Scope(IOMutex, inner)), {}, {})
  <2>1. {} \cup {StateMutex} = {StateMutex}
    OBVIOUS
  <2> QED BY <1>5, <2>1, RunsScope, RankOf, TheMutexes
<1> QED BY <1>6 DEF DeviceDeactivate, inner

\* Every call and every block takes the mutexes in order, and ends holding none.
LEMMA RunsCalls ==
  /\ \A c \in {StateCall(DeviceID), StateCall(StreamID), IOCall, DeviceList, Deactivate} :
       Runs(c, {}, {})
  /\ Runs(RemoveBlock, {}, {}) /\ Runs(DestroyBlock, {}, {})
<1> DEFINE use == <<"use", Nil>>
<1>1. use \in Instructions /\ use[1] = "use"
  BY PlainInstructions
<1> HIDE DEF use
<1>2. Runs(Scope(StateMutex, <<use>>), {}, {}) /\ Runs(Scope(PlugInMutex, <<use>>), {}, {})
  BY <1>1, RunsLocked DEF MapOperations
<1>3. DeviceID \in IDs /\ StreamID \in IDs /\ PlugInID \in IDs
  BY DEF IDs
<1>4. Runs(StateCall(DeviceID), {}, {}) /\ Runs(StateCall(StreamID), {}, {})
  BY <1>2, <1>3, RunsEntryPoint DEF StateCall, use
<1>5. Runs(IOCall, {}, {})
  BY <1>3, RunsFree, RunsEntryPoint DEF IOCall
<1>6. Runs(DeviceList, {}, {})
  BY <1>2, <1>3, RunsEntryPoint DEF DeviceList, use
<1>7. Runs(Deactivate, {}, {})
  <2>1. <<"remove all", Nil>> \in Instructions /\ <<"remove all", Nil>>[1] = "remove all"
    BY PlainInstructions
  <2> QED BY <2>1, RunsLocked DEF Deactivate, MapOperations
<1>8. Runs(RemoveBlock, {}, {})
  <2>1. Runs(ReleaseObject, {}, {})
    BY <1>3, RunsMapOperation
  <2>2. Runs(DeviceDeactivate \o ReleaseObject, {}, {})
    BY <2>1, RunsDeviceDeactivate, RunsThen
  <2> QED BY <1>3, <2>2, RunsEntryPoint DEF RemoveBlock
<1>9. Runs(DestroyBlock, {}, {})
  BY RunsFree DEF DestroyBlock
<1> QED BY <1>4, <1>5, <1>6, <1>7, <1>8, <1>9

-----------------------------------------------------------------------------
(* The order of the mutexes, as an invariant.                              *)

Held(t) == {m \in Mutexes : lockers[t][m] > 0}

\* Waits for the mutex it wants, or has just locked it.
Taking(t) == at[t] \in {"lock", "own"}

\* What the thread holds as soon as it has what it waits for.
Taken(t) == IF Taking(t) THEN Held(t) \cup {wants[t]} ELSE Held(t)

\* The rest of a thread's program releases what it has taken, in order.
ThreadInv(t) ==
  /\ Runs(code[t], Taken(t), {})
  /\ Taking(t) => \A m \in Held(t) : Rank(m) < Rank(wants[t])
  /\ \A m \in Mutexes : lockers[t][m] \in {0, 1}

CodeInv ==
  /\ code \in [Threads -> Seq(Instructions)]
  /\ \A t \in Threads : ThreadInv(t)

\* Every block on the queue is a program that begins and ends with no mutex.
Blocks   == [code : {c \in Seq(Instructions) : Runs(c, {}, {})}, ptr : Objects \cup {Nil}]
QueueInv == queue \in Seq(Blocks)

\* A thread goes on in some program; the mutexes stay as they are.
LEMMA CodeReplaced ==
  ASSUME CodeInv, NEW t \in Threads, NEW c, Runs(c, Taken(t), {}),
         code' = [code EXCEPT ![t] = c], UNCHANGED lockVars
  PROVE  CodeInv'
<1>1. c \in Seq(Instructions)
  BY DEF Runs, Path
<1>2. code' \in [Threads -> Seq(Instructions)]
  BY <1>1 DEF CodeInv
<1>3. ASSUME NEW u \in Threads PROVE ThreadInv(u)'
  <2>1. Taken(u)' = Taken(u) /\ Held(u)' = Held(u) /\ Taking(u)' = Taking(u)
    BY DEF Taken, Held, Taking, lockVars
  <2>2. Runs(code'[u], Taken(u), {})
    BY DEF CodeInv, ThreadInv
  <2> QED BY <2>1, <2>2 DEF CodeInv, ThreadInv, lockVars
<1> QED BY <1>2, <1>3 DEF CodeInv

\* What the program of a thread tells about its next instruction.
LEMMA NextInstruction ==
  ASSUME CodeInv, NEW t \in Threads, NEW op, At(t, op)
  PROVE  /\ Head(code[t]) \in Instructions /\ Head(code[t])[1] = op
         /\ Taken(t) = Held(t)
         /\ \E e \in SUBSET Mutexes : Effect(Head(code[t]), Held(t), e) /\ Runs(Tail(code[t]), e, {})
<1>1. code[t] # <<>> /\ Head(code[t])[1] = op /\ at[t] = "out"
  BY DEF At
<1>2. Taken(t) = Held(t)
  BY <1>1 DEF Taken, Taking
<1>3. Runs(code[t], Held(t), {})
  BY <1>2 DEF CodeInv, ThreadInv
<1> QED BY <1>1, <1>2, <1>3, RunsHead

\* An instruction that is none of the mutexes'.
LEMMA CodeAdvances ==
  ASSUME CodeInv, NEW t \in Threads, NEW op, At(t, op), op \notin {"lock", "unlock"},
         Advance(t), UNCHANGED lockVars
  PROVE  CodeInv'
<1>1. Runs(Tail(code[t]), Taken(t), {})
  BY NextInstruction DEF Effect
<1>2. code' = [code EXCEPT ![t] = Tail(code[t])]
  BY DEF Advance, CodeInv
<1> QED BY <1>1, <1>2, CodeReplaced

\* The types of the arguments.
LEMMA ArgTypes ==
  ASSUME CodeInv, NEW t \in Threads, NEW op, At(t, op)
  PROVE  /\ op \in {"lock", "unlock"} => Arg(t) \in Mutexes
         /\ op \in {"find ID", "map", "unmap", "copy", "check"} => Arg(t) \in IDs
         /\ op = "new" => Arg(t) \in Objects
         /\ op \in {"add", "remove"} => Arg(t) = DeviceID
<1>1. Head(code[t]) \in Instructions /\ Head(code[t])[1] = op
  BY NextInstruction
<1> QED BY <1>1 DEF Arg, Instructions

\* A Locker is constructed: its mutex comes after all that the thread holds.
LEMMA CodeLocks ==
  ASSUME LockInv, CodeInv, NEW t \in Threads, NEW m \in Mutexes,
         At(t, "lock"), m = Arg(t), Lock(t, m), Advance(t)
  PROVE  CodeInv'
<1>1. PICK e \in SUBSET Mutexes : Effect(Head(code[t]), Held(t), e) /\ Runs(Tail(code[t]), e, {})
  BY NextInstruction
<1>2. e = Held(t) \cup {m} /\ \A k \in Held(t) : Rank(k) < Rank(m)
  BY <1>1, NextInstruction DEF Effect, Arg
<1>3. m \notin Held(t)
  <2>1. Rank(m) \in Nat
    BY RankOf, ObjectsAssumption
  <2> QED BY <1>2, <2>1
<1>4. mOwner[m] # t
  BY <1>3 DEF Held, LockInv, OwnerHasLockers
<1>5. /\ at' = [at EXCEPT ![t] = "lock"] /\ wants' = [wants EXCEPT ![t] = m]
      /\ lockers' = lockers
  BY <1>4 DEF Lock
<1>6. at \in [Threads -> Steps] /\ wants \in [Threads -> Mutexes \cup {None}]
  BY DEF LockInv, LockTypeOK
<1>7. code' = [code EXCEPT ![t] = Tail(code[t])]
  BY DEF Advance, CodeInv
<1>8. \A u \in Threads : Held(u)' = Held(u)
  BY <1>5 DEF Held
<1>9. ThreadInv(t)'
  <2>1. Taking(t)' /\ wants'[t] = m
    BY <1>5, <1>6 DEF Taking
  <2>2. Taken(t)' = e
    BY <1>2, <1>8, <2>1 DEF Taken
  <2>3. Runs(code'[t], e, {})
    BY <1>1, <1>7 DEF CodeInv
  <2> QED BY <1>2, <1>5, <1>8, <2>1, <2>2, <2>3 DEF CodeInv, ThreadInv
<1>10. ASSUME NEW u \in Threads, u # t PROVE ThreadInv(u)'
  <2>1. at'[u] = at[u] /\ wants'[u] = wants[u] /\ code'[u] = code[u] /\ Held(u)' = Held(u)
    BY <1>5, <1>6, <1>7, <1>8, <1>10 DEF CodeInv
  <2>2. (Taking(u)' <=> Taking(u)) /\ Taken(u)' = Taken(u)
    BY <2>1 DEF Taking, Taken
  <2> QED BY <1>5, <2>1, <2>2 DEF CodeInv, ThreadInv
<1>11. Tail(code[t]) \in Seq(Instructions)
  BY <1>1 DEF Runs, Path
<1>12. code' \in [Threads -> Seq(Instructions)]
  BY <1>7, <1>11 DEF CodeInv
<1> QED BY <1>9, <1>10, <1>12 DEF CodeInv

\* The other threads are where they were.
LEMMA OthersKeepTheirs ==
  ASSUME LockInv, CodeInv, NEW u \in Threads,
         at'[u] = at[u], wants'[u] = wants[u], code'[u] = code[u], lockers'[u] = lockers[u]
  PROVE  ThreadInv(u)'
<1>1. Held(u)' = Held(u)
  BY DEF Held
<1>2. (Taking(u)' <=> Taking(u)) /\ Taken(u)' = Taken(u)
  BY <1>1 DEF Taking, Taken
<1> QED BY <1>1, <1>2 DEF CodeInv, ThreadInv

\* A Locker is destroyed.
LEMMA CodeUnlocks ==
  ASSUME LockInv, CodeInv, NEW t \in Threads, NEW m \in Mutexes,
         At(t, "unlock"), m = Arg(t), Unlock(t, m), Advance(t)
  PROVE  CodeInv'
<1>1. PICK e \in SUBSET Mutexes : Effect(Head(code[t]), Held(t), e) /\ Runs(Tail(code[t]), e, {})
  BY NextInstruction
<1>2. e = Held(t) \ {m}
  BY <1>1, NextInstruction DEF Effect, Arg
<1>3. lockers[t][m] \in {0, 1}
  BY DEF CodeInv, ThreadInv
<1>4. /\ at' = [at EXCEPT ![t] = "unlock"] /\ wants' = [wants EXCEPT ![t] = m]
      /\ lockers' = [lockers EXCEPT ![t][m] = 0]
  BY <1>3, UnlockFacts
<1>5. /\ at \in [Threads -> Steps] /\ wants \in [Threads -> Mutexes \cup {None}]
      /\ lockers \in [Threads -> [Mutexes -> Nat]]
  BY DEF LockInv, LockTypeOK
<1>6. code' = [code EXCEPT ![t] = Tail(code[t])]
  BY DEF Advance, CodeInv
<1>7. ThreadInv(t)'
  <2>1. ~Taking(t)' /\ code'[t] = Tail(code[t])
    BY <1>4, <1>5, <1>6 DEF Taking, CodeInv
  <2>2. Held(t)' = e
    BY <1>2, <1>4, <1>5 DEF Held
  <2>3. \A n \in Mutexes : lockers'[t][n] \in {0, 1}
    BY <1>4, <1>5 DEF CodeInv, ThreadInv
  <2> QED BY <1>1, <2>1, <2>2, <2>3 DEF ThreadInv, Taken
<1>8. ASSUME NEW u \in Threads, u # t PROVE ThreadInv(u)'
  <2>1. at'[u] = at[u] /\ wants'[u] = wants[u] /\ code'[u] = code[u] /\ lockers'[u] = lockers[u]
    BY <1>4, <1>5, <1>6, <1>8 DEF CodeInv
  <2> QED BY <2>1, OthersKeepTheirs
<1>9. Tail(code[t]) \in Seq(Instructions)
  BY <1>1 DEF Runs, Path
<1>10. code' \in [Threads -> Seq(Instructions)]
  BY <1>6, <1>9 DEF CodeInv
<1> QED BY <1>7, <1>8, <1>10 DEF CodeInv

\* The steps within Lock and Unlock.
LEMMA CodeLockSteps ==
  ASSUME LockInv, CodeInv, NEW t \in Threads, LockStep(t), UNCHANGED code
  PROVE  CodeInv'
<1>1. /\ at \in [Threads -> Steps] /\ wants \in [Threads -> Mutexes \cup {None}]
      /\ lockers \in [Threads -> [Mutexes -> Nat]]
  BY DEF LockInv, LockTypeOK
<1>2. ASSUME NEW u \in Threads, u # t PROVE ThreadInv(u)'
  <2>1. at'[u] = at[u] /\ wants'[u] = wants[u] /\ code'[u] = code[u] /\ lockers'[u] = lockers[u]
    BY <1>1, <1>2 DEF LockStep, pthread_mutex_lock, Locked, pthread_mutex_unlock
  <2> QED BY <2>1, OthersKeepTheirs
<1>3. CASE pthread_mutex_lock(t)
  <2>1. /\ at[t] = "lock" /\ at'[t] = "own" /\ wants' = wants /\ lockers' = lockers
    BY <1>1, <1>3 DEF pthread_mutex_lock
  <2>2. Held(t)' = Held(t) /\ Taking(t) /\ Taking(t)' /\ Taken(t)' = Taken(t)
    BY <2>1 DEF Held, Taking, Taken
  <2>3. ThreadInv(t)'
    BY <2>1, <2>2 DEF CodeInv, ThreadInv
  <2> QED BY <1>2, <2>3 DEF CodeInv
<1>4. CASE Locked(t)
  <2> DEFINE m == wants[t]
  <2>1. /\ m \in Mutexes /\ lockers' = [lockers EXCEPT ![t][m] = 1] /\ at' = [at EXCEPT ![t] = "out"]
    BY <1>4, LockedFacts
  <2>2. at[t] = "own"
    BY <1>4 DEF Locked
  <2>3. Held(t)' = Held(t) \cup {m}
    BY <1>1, <2>1 DEF Held
  <2>4. Taking(t) /\ ~Taking(t)' /\ Taken(t)' = Taken(t)
    BY <1>1, <2>1, <2>2, <2>3 DEF Taking, Taken
  <2>5. \A n \in Mutexes : lockers'[t][n] \in {0, 1}
    BY <1>1, <2>1 DEF CodeInv, ThreadInv
  <2>6. ThreadInv(t)'
    BY <2>4, <2>5 DEF CodeInv, ThreadInv
  <2> QED BY <1>2, <2>6 DEF CodeInv
<1>5. CASE pthread_mutex_unlock(t)
  <2>1. /\ at[t] = "unlock" /\ at'[t] = "out" /\ lockers' = lockers
    BY <1>1, <1>5 DEF pthread_mutex_unlock
  <2>2. Held(t)' = Held(t) /\ ~Taking(t) /\ ~Taking(t)' /\ Taken(t)' = Taken(t)
    BY <2>1 DEF Held, Taking, Taken
  <2>3. ThreadInv(t)'
    BY <2>1, <2>2 DEF CodeInv, ThreadInv
  <2> QED BY <1>2, <2>3 DEF CodeInv
<1> QED BY <1>3, <1>4, <1>5 DEF LockStep

-----------------------------------------------------------------------------
(* The steps.                                                              *)

\* The inductive invariant.
ObjectInv == LockInv /\ ObjectTypeOK /\ CodeInv /\ QueueInv

\* Every step of a thread keeps the programs in order.
LEMMA CodeStep ==
  ASSUME ObjectInv, [ObjectNext]_vars
  PROVE  CodeInv'
<1> USE DEF ObjectInv
<1>1. ASSUME NEW t \in Threads, Mutex(t) PROVE CodeInv'
  BY <1>1, CodeLocks, CodeUnlocks, CodeLockSteps DEF Mutex
<1>2. ASSUME NEW t \in Threads,
             \/ Find(t) \/ Map(t) \/ Unmap(t) \/ Copy(t) \/ Release(t) \/ New(t)
             \/ DestroyObject(t) \/ SetActive(t) \/ EditList(t) \/ Loaded(t)
      PROVE  CodeInv'
  <2>1. Advance(t) /\ UNCHANGED lockVars
    BY <1>2 DEF Find, Map, Unmap, Copy, Release, New, DestroyObject, SetActive, EditList, Loaded
  <2>2. \E op \in {"find ID", "find object", "map", "unmap", "copy", "release", "new", "delete",
                   "activate", "deactivate", "add", "remove", "remove all", "loaded"} : At(t, op)
    BY <1>2 DEF Find, Map, Unmap, Copy, Release, New, DestroyObject, SetActive, EditList, Loaded
  <2> QED BY <2>1, <2>2, CodeAdvances
<1>3. ASSUME NEW t \in Threads, HW_Open(t) PROVE CodeInv'
  <2>1. At(t, "open") /\ UNCHANGED lockVars
    BY <1>3 DEF HW_Open
  <2>2. CASE Advance(t)
    BY <2>1, <2>2, CodeAdvances
  <2>3. CASE code' = [code EXCEPT ![t] = CreateFailed]
    <3>1. Taken(t) = {}
      BY <2>1, NextInstruction DEF Effect, MapOperations
    <3> QED BY <2>1, <2>3, <3>1, RunsCreateFailed, CodeReplaced
  <2> QED BY <1>3, <2>2, <2>3 DEF HW_Open
<1>4. ASSUME NEW t \in Threads, Work(t) PROVE CodeInv'
  <2>1. UNCHANGED lockVars
    BY <1>4 DEF Work
  <2>2. CASE At(t, "use") /\ Advance(t)
    BY <2>1, <2>2, CodeAdvances
  <2>3. CASE At(t, "check") /\ code' = [code EXCEPT ![t] = IF ptr[t] = Nil THEN <<>> ELSE Tail(code[t])]
    <3>1. Taken(t) = {} /\ Runs(Tail(code[t]), Taken(t), {})
      BY <2>3, NextInstruction DEF Effect
    <3>2. Runs(<<>>, {}, {})
      BY RunsNothing
    <3> QED BY <2>1, <2>3, <3>1, <3>2, CodeReplaced
  <2> QED BY <1>4, <2>2, <2>3 DEF Work, CodeInv
<1>5. ASSUME NEW t \in Threads, Free(t), NEW c, Runs(c, {}, {}), UNCHANGED lockVars,
             code' = [code EXCEPT ![t] = c]
      PROVE  CodeInv'
  <2>1. Runs(<<>>, Taken(t), {})
    BY <1>5 DEF Free, CodeInv, ThreadInv
  <2>2. Taken(t) = {}
    BY <2>1, NothingPath DEF Runs
  <2> QED BY <1>5, <2>2, CodeReplaced
<1>6. ASSUME NEW t \in HalThreads, Call(t) PROVE CodeInv'
  <2>1. t \in Threads /\ Free(t) /\ UNCHANGED lockVars
    BY <1>6, ObjectsAssumption DEF Call
  <2>2. PICK c \in {StateCall(DeviceID), StateCall(StreamID), IOCall, DeviceList, Deactivate} :
          code' = [code EXCEPT ![t] = c]
    BY <1>6 DEF Call
  <2> QED BY <1>5, <2>1, <2>2, RunsCalls
<1>7. CASE RunBlock
  <2>1. Queue \in Threads /\ Free(Queue) /\ UNCHANGED lockVars
        /\ code' = [code EXCEPT ![Queue] = Head(queue).code]
    BY <1>7, ObjectsAssumption DEF RunBlock
  <2>2. Head(queue) \in Blocks
    BY <1>7 DEF RunBlock, QueueInv
  <2>3. Runs(Head(queue).code, {}, {})
    BY <2>2 DEF Blocks
  <2> QED BY <1>5, <2>1, <2>3
<1>8. CASE UNCHANGED vars
  <2>1. UNCHANGED lockVars /\ code' = code
    BY <1>8 DEF vars, objVars
  <2>2. \A t \in Threads : ThreadInv(t)'
    BY <2>1, OthersKeepTheirs DEF lockVars
  <2> QED BY <2>1, <2>2 DEF CodeInv
<1> QED BY <1>1, <1>2, <1>3, <1>4, <1>6, <1>7, <1>8 DEF ObjectNext, Step

\* A block that destroys and one that removes are both in order.
LEMMA BlockTypes ==
  /\ \A o \in Objects : Block(DestroyBlock, o) \in Blocks
  /\ Block(RemoveBlock, Nil) \in Blocks /\ Block(<<>>, Nil) \in Blocks
<1>1. Runs(DestroyBlock, {}, {}) /\ Runs(RemoveBlock, {}, {}) /\ Runs(<<>>, {}, {})
  BY RunsCalls, RunsNothing
<1> QED BY <1>1 DEF Block, Blocks, Runs, Path

\* Every step appends only such blocks to the queue.
LEMMA QueueStep ==
  ASSUME ObjectInv, [ObjectNext]_vars
  PROVE  QueueInv'
<1> USE DEF ObjectInv, QueueInv
<1>1. ASSUME NEW o \in Objects, Erase(o) PROVE QueueInv'
  BY <1>1, BlockTypes DEF Erase
<1>2. ASSUME NEW t \in Threads, Unmap(t) \/ Release(t) PROVE QueueInv'
  <2>1. iter[t] \in Objects \cup {Nil}
    BY DEF ObjectTypeOK
  <2>2. UNCHANGED queue \/ (iter[t] # Nil /\ Erase(iter[t]))
    BY <1>2 DEF Unmap, Release
  <2> QED BY <1>1, <2>1, <2>2
<1>3. ASSUME NEW t \in Threads, EditList(t) PROVE QueueInv'
  <2>1. CASE UNCHANGED queue
    BY <2>1
  <2>2. CASE queue' = queue \o [i \in DOMAIN list |->
                                 Block(IF list[i] = DeviceID THEN RemoveBlock ELSE <<>>, Nil)]
    <3>1. list \in Seq({DeviceID, Nil})
      BY DEF ObjectTypeOK
    <3>2. \A i \in DOMAIN list : Block(IF list[i] = DeviceID THEN RemoveBlock ELSE <<>>, Nil) \in Blocks
      BY BlockTypes
    <3>3. [i \in DOMAIN list |-> Block(IF list[i] = DeviceID THEN RemoveBlock ELSE <<>>, Nil)]
            \in Seq(Blocks)
      BY <3>1, <3>2
    <3> QED BY <2>2, <3>3
  <2> QED BY <1>3, <2>1, <2>2 DEF EditList
<1>4. CASE RunBlock
  BY <1>4 DEF RunBlock
<1>5. ASSUME NEW t \in Threads,
             \/ Mutex(t) \/ Find(t) \/ Map(t) \/ Copy(t) \/ New(t) \/ DestroyObject(t)
             \/ HW_Open(t) \/ SetActive(t) \/ Work(t) \/ Loaded(t)
      PROVE  QueueInv'
  BY <1>5 DEF Mutex, Find, Map, Copy, New, DestroyObject, HW_Open, SetActive, Work, Loaded
<1>6. ASSUME NEW t \in HalThreads, Call(t) PROVE QueueInv'
  BY <1>6 DEF Call
<1>7. CASE UNCHANGED vars
  BY <1>7 DEF vars, objVars
<1> QED BY <1>2, <1>3, <1>4, <1>5, <1>6, <1>7 DEF ObjectNext, Step

\* Erasing an entry leaves a list.
LEMMA WithoutType ==
  ASSUME NEW S, NEW s \in Seq(S), NEW id
  PROVE  Without(s, id) \in Seq(S)
<1> DEFINE found == {i \in DOMAIN s : s[i] = id /\ \A j \in 1 .. i - 1 : s[j] # id}
           k == CHOOSE i \in found : TRUE
<1>1. CASE found = {}
  BY <1>1 DEF Without
<1>2. CASE found # {}
  <2>1. k \in 1 .. Len(s)
    <3>1. k \in found
      BY <1>2
    <3> QED BY <3>1
  <2> HIDE DEF k
  <2>2. SubSeq(s, 1, k - 1) \in Seq(S) /\ SubSeq(s, k + 1, Len(s)) \in Seq(S)
    BY <2>1
  <2>3. SubSeq(s, 1, k - 1) \o SubSeq(s, k + 1, Len(s)) \in Seq(S)
    BY <2>2
  <2>4. Without(s, id) = SubSeq(s, 1, k - 1) \o SubSeq(s, k + 1, Len(s))
    BY <1>2 DEF Without, k
  <2> QED BY <2>3, <2>4
<1> QED BY <1>1, <1>2

\* The map's part of the type invariant: an object that has an ID has a reference.
MapOK ==
  /\ ids \in [Objects -> SUBSET IDs] /\ refs \in [Objects -> Nat]
  /\ \A o \in Objects : ids[o] # {} => refs[o] > 0

\* The operations of the map keep it so.
LEMMA MapStep ==
  ASSUME ObjectInv, [ObjectNext]_vars
  PROVE  MapOK'
<1>0. /\ MapOK
      /\ ptr \in [Threads -> Objects \cup {Nil}] /\ iter \in [Threads -> Objects \cup {Nil}]
  BY DEF ObjectInv, ObjectTypeOK, MapOK
<1>1. ASSUME NEW t \in Threads, Map(t) PROVE MapOK'
  <2>1. Arg(t) \in IDs
    BY <1>1, ArgTypes DEF Map, ObjectInv
  <2>2. CASE iter[t] = Nil
    BY <1>0, <1>1, <2>1, <2>2 DEF Map, MapOK
  <2>3. CASE iter[t] # Nil
    BY <1>0, <1>1, <2>3 DEF Map, MapOK, mapVars
  <2> QED BY <2>2, <2>3
<1>2. ASSUME NEW t \in Threads, Unmap(t) PROVE MapOK'
  <2>1. CASE iter[t] # Nil /\ iter[t] = ptr[t]
    <3>1. iter[t] \in Objects
      BY <1>0, <2>1
    <3>2. CASE ids[iter[t]] = {Arg(t)}
      BY <1>0, <1>2, <2>1, <3>1, <3>2 DEF Unmap, Erase, MapOK
    <3>3. CASE ids[iter[t]] # {Arg(t)}
      BY <1>0, <1>2, <2>1, <3>1, <3>3 DEF Unmap, MapOK
    <3> QED BY <3>2, <3>3
  <2>2. CASE ~(iter[t] # Nil /\ iter[t] = ptr[t])
    BY <1>0, <1>2, <2>2 DEF Unmap, MapOK
  <2> QED BY <2>1, <2>2
<1>3. ASSUME NEW t \in Threads, Copy(t) PROVE MapOK'
  BY <1>0, <1>3 DEF Copy, MapOK
<1>4. ASSUME NEW t \in Threads, Release(t) PROVE MapOK'
  <2>1. CASE iter[t] # Nil /\ refs[iter[t]] > 0
    <3>1. iter[t] \in Objects /\ refs[iter[t]] \in Nat
      BY <1>0, <2>1 DEF MapOK
    <3>2. refs' = [refs EXCEPT ![iter[t]] = @ - 1]
      BY <1>4, <2>1 DEF Release
    <3>3. CASE refs[iter[t]] = 1
      <4>1. ids' = [ids EXCEPT ![iter[t]] = {}]
        BY <1>4, <2>1, <3>3 DEF Release, Erase
      <4> QED BY <1>0, <3>1, <3>2, <3>3, <4>1 DEF MapOK
    <3>4. CASE refs[iter[t]] # 1
      <4>1. ids' = ids
        BY <1>4, <2>1, <3>4 DEF Release
      <4> QED BY <1>0, <2>1, <3>1, <3>2, <3>4, <4>1 DEF MapOK
    <3> QED BY <3>3, <3>4
  <2>2. CASE ~(iter[t] # Nil /\ refs[iter[t]] > 0)
    BY <1>0, <1>4, <2>2 DEF Release, MapOK, mapVars
  <2> QED BY <2>1, <2>2
<1>5. ASSUME NEW t \in Threads,
             \/ Mutex(t) \/ Find(t) \/ New(t) \/ DestroyObject(t) \/ HW_Open(t) \/ SetActive(t)
             \/ EditList(t) \/ Work(t) \/ Loaded(t)
      PROVE  MapOK'
  <2>1. UNCHANGED mapVars
    BY <1>5 DEF Mutex, Find, New, DestroyObject, HW_Open, SetActive, EditList, Work, Loaded
  <2> QED BY <1>0, <2>1 DEF MapOK, mapVars
<1>6. ASSUME NEW t \in HalThreads, Call(t) PROVE MapOK'
  BY <1>0, <1>6 DEF Call, MapOK, mapVars
<1>7. CASE RunBlock
  BY <1>0, <1>7 DEF RunBlock, MapOK, mapVars
<1>8. CASE UNCHANGED vars
  BY <1>0, <1>8 DEF vars, objVars, MapOK, mapVars
<1> QED BY <1>1, <1>2, <1>3, <1>4, <1>5, <1>6, <1>7, <1>8 DEF ObjectNext, Step

\* The rest of the type invariant.
PointersOK == ptr \in [Threads -> Objects \cup {Nil}] /\ iter \in [Threads -> Objects \cup {Nil}]
ObjectsOK  == mem \in [Objects -> {"none", "alive", "deleted"}] /\ list \in Seq({DeviceID, Nil})
FlagsOK    == mIsActive \in BOOLEAN /\ loaded \in BOOLEAN
CallsOK    == calls \in 0 .. MaxCalls

\* The type invariant by its parts.
LEMMA TypeParts ==
  ObjectTypeOK <=> LockTypeOK /\ MapOK /\ PointersOK /\ ObjectsOK /\ FlagsOK /\ CallsOK
  BY DEF ObjectTypeOK, MapOK, PointersOK, ObjectsOK, FlagsOK, CallsOK

\* Pointers point to objects.
LEMMA PointersStep ==
  ASSUME ObjectInv, [ObjectNext]_vars
  PROVE  PointersOK'
<1> USE DEF PointersOK
<1>0. PointersOK
  BY TypeParts DEF ObjectInv
<1>1. ASSUME NEW t \in Threads, Find(t) PROVE PointersOK'
  BY <1>0, <1>1 DEF Find
<1>2. ASSUME NEW t \in Threads, New(t) PROVE PointersOK'
  <2>1. Arg(t) \in Objects
    BY <1>2, ArgTypes DEF New, ObjectInv
  <2> QED BY <1>0, <1>2, <2>1 DEF New
<1>3. ASSUME NEW t \in Threads, Map(t) \/ Unmap(t) \/ Copy(t) \/ Release(t) \/ Loaded(t)
      PROVE  PointersOK'
  BY <1>0, <1>3 DEF Map, Unmap, Copy, Release, Loaded
<1>4. ASSUME NEW t \in Threads,
             \/ Mutex(t) \/ DestroyObject(t) \/ HW_Open(t) \/ SetActive(t) \/ EditList(t) \/ Work(t)
      PROVE  PointersOK'
  BY <1>0, <1>4 DEF Mutex, DestroyObject, HW_Open, SetActive, EditList, Work
<1>5. ASSUME NEW t \in HalThreads, Call(t) PROVE PointersOK'
  BY <1>0, <1>5 DEF Call
<1>6. CASE RunBlock
  <2>1. Head(queue) \in Blocks
    BY <1>6 DEF RunBlock, ObjectInv, QueueInv
  <2>2. Head(queue).ptr \in Objects \cup {Nil}
    BY <2>1 DEF Blocks
  <2> QED BY <1>0, <1>6, <2>2 DEF RunBlock
<1>7. CASE UNCHANGED vars
  BY <1>0, <1>7 DEF vars, objVars
<1> QED BY <1>1, <1>2, <1>3, <1>4, <1>5, <1>6, <1>7 DEF ObjectNext, Step

\* Objects are constructed and deleted, and listed by their ID or 0.
LEMMA ObjectsStep ==
  ASSUME ObjectInv, [ObjectNext]_vars
  PROVE  ObjectsOK'
<1> USE DEF ObjectsOK
<1>0. ObjectsOK
  BY TypeParts DEF ObjectInv
<1>1. ASSUME NEW t \in Threads, EditList(t) PROVE ObjectsOK'
  <2>1. mem' = mem
    BY <1>1 DEF EditList
  <2>2. CASE At(t, "add") /\ list' = Append(list, Arg(t))
    <3>1. Arg(t) = DeviceID
      BY <2>2, ArgTypes DEF ObjectInv
    <3> QED BY <1>0, <2>1, <2>2, <3>1
  <2>3. CASE list' = Without(list, Arg(t))
    BY <1>0, <2>1, <2>3, WithoutType
  <2>4. CASE list' = [i \in DOMAIN list |-> Nil]
    BY <1>0, <2>1, <2>4
  <2> QED BY <1>1, <2>2, <2>3, <2>4 DEF EditList
<1>2. ASSUME NEW t \in Threads, New(t) \/ DestroyObject(t) PROVE ObjectsOK'
  BY <1>0, <1>2 DEF New, DestroyObject
<1>3. ASSUME NEW t \in Threads,
             \/ Mutex(t) \/ Find(t) \/ Map(t) \/ Unmap(t) \/ Copy(t) \/ Release(t) \/ HW_Open(t)
             \/ SetActive(t) \/ Work(t) \/ Loaded(t)
      PROVE  ObjectsOK'
  BY <1>0, <1>3 DEF Mutex, Find, Map, Unmap, Copy, Release, HW_Open, SetActive, Work, Loaded
<1>4. ASSUME NEW t \in HalThreads, Call(t) PROVE ObjectsOK'
  BY <1>0, <1>4 DEF Call
<1>5. CASE RunBlock
  BY <1>0, <1>5 DEF RunBlock
<1>6. CASE UNCHANGED vars
  BY <1>0, <1>6 DEF vars, objVars
<1> QED BY <1>1, <1>2, <1>3, <1>4, <1>5, <1>6 DEF ObjectNext, Step

\* The flags and the number of calls.
LEMMA FlagsStep ==
  ASSUME ObjectInv, [ObjectNext]_vars
  PROVE  FlagsOK' /\ CallsOK'
<1>0. FlagsOK /\ CallsOK
  BY TypeParts DEF ObjectInv
<1>1. ASSUME NEW t \in Threads, Step(t) PROVE FlagsOK' /\ CallsOK'
  <2>1. calls' = calls
    BY <1>1 DEF Step, Mutex, Find, Map, Unmap, Copy, Release, New, DestroyObject, HW_Open,
                SetActive, EditList, Work, Loaded
  <2>2. mIsActive' = mIsActive \/ mIsActive' = TRUE \/ mIsActive' = FALSE
    BY <1>1 DEF Step, Mutex, Find, Map, Unmap, Copy, Release, New, DestroyObject, HW_Open,
                SetActive, EditList, Work, Loaded
  <2>3. loaded' = loaded \/ loaded' = TRUE
    BY <1>1 DEF Step, Mutex, Find, Map, Unmap, Copy, Release, New, DestroyObject, HW_Open,
                SetActive, EditList, Work, Loaded
  <2>4. FlagsOK'
    BY <1>0, <2>2, <2>3, Zenon DEF FlagsOK
  <2> QED BY <1>0, <2>1, <2>4 DEF CallsOK
<1>2. ASSUME NEW t \in HalThreads, Call(t) PROVE FlagsOK' /\ CallsOK'
  <2>1. FlagsOK'
    BY <1>0, <1>2 DEF Call, FlagsOK
  <2> QED BY <1>0, <1>2, <2>1, ObjectsAssumption DEF Call, CallsOK
<1>3. CASE RunBlock \/ UNCHANGED vars
  <2>1. mIsActive' = mIsActive /\ loaded' = loaded /\ calls' = calls
    BY <1>3 DEF RunBlock, vars, objVars
  <2> QED BY <1>0, <2>1 DEF FlagsOK, CallsOK
<1> QED BY <1>1, <1>2, <1>3 DEF ObjectNext

\* The invariant holds when coreaudiod begins to load the plug-in.
LEMMA ObjectInvInit == ObjectInit => ObjectInv
<1> SUFFICES ASSUME ObjectInit PROVE ObjectInv
  OBVIOUS
<1>1. LockInv
  BY LockInvInit DEF ObjectInit
<1>2. ObjectTypeOK
  <2>1. LockTypeOK
    BY <1>1 DEF LockInv
  <2>2. MapOK /\ PointersOK
    BY DEF ObjectInit, MapOK, PointersOK
  <2>3. ObjectsOK
    BY DEF ObjectInit, ObjectsOK
  <2>4. FlagsOK
    BY DEF ObjectInit, FlagsOK
  <2>5. CallsOK
    BY ObjectsAssumption DEF ObjectInit, CallsOK
  <2> QED BY <2>1, <2>2, <2>3, <2>4, <2>5, TypeParts
<1>3. CodeInv
  <2>1. PICK l \in HalThreads : code = [u \in Threads |-> IF u = l THEN StaticInitializer ELSE <<>>]
    BY DEF ObjectInit
  <2>2. \A t \in Threads : Held(t) = {} /\ ~Taking(t)
    <3>1. \A t \in Threads : at[t] = "out" /\ \A m \in Mutexes : lockers[t][m] = 0
      BY DEF ObjectInit, LockInit
    <3>2. \A t \in Threads : \A m \in Mutexes : ~(lockers[t][m] > 0)
      BY <3>1
    <3>3. \A t \in Threads : Held(t) = {}
      BY <3>2, Zenon DEF Held
    <3>4. \A t \in Threads : ~Taking(t)
      BY <3>1 DEF Taking
    <3> QED BY <3>3, <3>4
  <2>3. \A t \in Threads : Runs(code[t], {}, {})
    BY <2>1, RunsStaticInitializer, RunsNothing
  <2>4. \A t \in Threads : ThreadInv(t)
    BY <2>2, <2>3 DEF ThreadInv, Taken, ObjectInit, LockInit
  <2>5. code \in [Threads -> Seq(Instructions)]
    BY <2>1, RunsStaticInitializer DEF Runs, Path
  <2> QED BY <2>4, <2>5 DEF CodeInv
<1>4. QueueInv
  BY DEF ObjectInit, QueueInv
<1> QED BY <1>1, <1>2, <1>3, <1>4 DEF ObjectInv

\* Every step keeps the invariant.
LEMMA ObjectInvNext == ObjectInv /\ [ObjectNext]_vars => ObjectInv'
<1> SUFFICES ASSUME ObjectInv, [ObjectNext]_vars PROVE ObjectInv'
  OBVIOUS
<1>1. LockInv'
  BY ObjectStepIsLockStep, LockInvNext DEF ObjectInv
<1>2. ObjectTypeOK'
  <2>1. LockTypeOK'
    BY <1>1 DEF LockInv
  <2>2. MapOK' /\ PointersOK' /\ ObjectsOK' /\ FlagsOK' /\ CallsOK'
    BY MapStep, PointersStep, ObjectsStep, FlagsStep
  <2> QED
    BY <2>1, <2>2 DEF ObjectTypeOK, MapOK, PointersOK, ObjectsOK, FlagsOK, CallsOK
<1> QED BY <1>1, <1>2, CodeStep, QueueStep DEF ObjectInv

\* The inductive invariant holds throughout.
LEMMA ObjectInvAlways == ObjectSpec => []ObjectInv
  BY ObjectInvInit, ObjectInvNext, PTL DEF ObjectSpec

\* The object map, the device list and the threads keep their types, and an
\* object that SA_ObjectMap lists has a reference, for any threads and calls.
THEOREM ObjectTypeCorrect == ObjectSpec => []ObjectTypeOK
<1>1. ObjectInv => ObjectTypeOK
  BY DEF ObjectInv
<1> QED BY <1>1, ObjectInvAlways, PTL

\* Every thread waits for a mutex only while it holds mutexes that come before
\* it, so that the plug-in, SA_Device::Deactivate and SA_ObjectMap cannot wait
\* for each other in a circle, for any number of threads and calls.
THEOREM MutexesAreOrdered == ObjectSpec => []LockOrder
<1>1. ObjectInv => LockOrder
  BY DEF ObjectInv, CodeInv, ThreadInv, Taking, Held, LockOrder
<1> QED BY <1>1, ObjectInvAlways, PTL

-----------------------------------------------------------------------------
(* Waiting.                                                                *)

\* Who has locked a pthread mutex is its owner, or in the midst of Lock or Unlock.
LockedBy ==
  \A m \in Mutexes : pmutex[m] # None =>
    mOwner[m] = pmutex[m] \/ (at[pmutex[m]] \in {"own", "unlock"} /\ wants[pmutex[m]] = m)

\* Every step of the lock keeps it so.
LEMMA LockedByNext ==
  ASSUME LockInv, LockedBy, [LockNext]_lockVars
  PROVE  LockedBy'
<1>1. LockTypeOK
  BY DEF LockInv
<1>2. ASSUME NEW t \in Threads, NEW m \in Mutexes, Lock(t, m) PROVE LockedBy'
  <2>1. at[t] = "out" /\ UNCHANGED <<mOwner, pmutex>>
        /\ (UNCHANGED <<at, wants>>
            \/ (at' = [at EXCEPT ![t] = "lock"] /\ wants' = [wants EXCEPT ![t] = m]))
    BY <1>2 DEF Lock
  <2> QED BY <1>1, <2>1 DEF LockTypeOK, LockedBy
<1>3. ASSUME NEW t \in Threads, pthread_mutex_lock(t) PROVE LockedBy'
  BY <1>1, <1>3 DEF pthread_mutex_lock, LockTypeOK, LockedBy
<1>4. ASSUME NEW t \in Threads, Locked(t) PROVE LockedBy'
  <2> DEFINE m == wants[t]
  <2>1. /\ m \in Mutexes /\ pmutex[m] = t /\ pmutex' = pmutex
        /\ mOwner' = [mOwner EXCEPT ![m] = t]
        /\ at' = [at EXCEPT ![t] = "out"] /\ wants' = [wants EXCEPT ![t] = None]
    BY <1>4, LockedFacts
  <2> HIDE DEF m
  <2>2. at[t] = "own" /\ wants[t] = m
    BY <1>4 DEF Locked, m
  <2> QED BY <1>1, <2>1, <2>2 DEF LockTypeOK, LockedBy
<1>5. ASSUME NEW t \in Threads, NEW m \in Mutexes, Unlock(t, m) PROVE LockedBy'
  <2>1. at[t] = "out" /\ pmutex[m] = t /\ pmutex' = pmutex
    BY <1>5, UnlockFacts DEF Unlock
  <2>2. CASE UNCHANGED <<mOwner, at, wants>>
    BY <2>1, <2>2 DEF LockedBy
  <2>3. CASE /\ mOwner' = [mOwner EXCEPT ![m] = None]
             /\ at' = [at EXCEPT ![t] = "unlock"] /\ wants' = [wants EXCEPT ![t] = m]
    <3>1. at'[t] = "unlock" /\ wants'[t] = m
      BY <1>1, <2>3 DEF LockTypeOK
    <3>2. \A u \in Threads : u # t => at'[u] = at[u] /\ wants'[u] = wants[u]
      BY <1>1, <2>3 DEF LockTypeOK
    <3>3. \A k \in Mutexes : k # m => mOwner'[k] = mOwner[k]
      BY <1>1, <2>3 DEF LockTypeOK
    <3>4. ASSUME NEW k \in Mutexes, pmutex[k] # None
          PROVE  mOwner'[k] = pmutex[k]
                 \/ (at'[pmutex[k]] \in {"own", "unlock"} /\ wants'[pmutex[k]] = k)
      <4>1. CASE k = m
        BY <2>1, <3>1, <4>1
      <4>2. CASE k # m
        <5>1. mOwner[k] = pmutex[k] \/ (at[pmutex[k]] \in {"own", "unlock"} /\ wants[pmutex[k]] = k)
          BY <3>4 DEF LockedBy
        <5>2. pmutex[k] \in Threads /\ mOwner'[k] = mOwner[k]
          BY <1>1, <3>3, <3>4, <4>2 DEF LockTypeOK
        <5>3. pmutex[k] = t => mOwner[k] = t
          BY <2>1, <5>1
        <5> QED BY <3>2, <5>1, <5>2, <5>3
      <4> QED BY <4>1, <4>2
    <3> QED BY <2>1, <3>4 DEF LockedBy
  <2> QED BY <1>5, <2>2, <2>3, UnlockFacts
<1>6. ASSUME NEW t \in Threads, pthread_mutex_unlock(t) PROVE LockedBy'
  BY <1>1, <1>6 DEF pthread_mutex_unlock, LockTypeOK, LockedBy
<1>7. CASE UNCHANGED lockVars
  BY <1>7 DEF lockVars, LockedBy
<1> QED BY <1>2, <1>3, <1>4, <1>5, <1>6, <1>7 DEF LockNext, LockStep

WaitInv == ObjectInv /\ LockedBy

\* The plug-in keeps both.
LEMMA WaitInvAlways == ObjectSpec => []WaitInv
<1>1. ObjectInit => WaitInv
  <2>1. ObjectInit => LockedBy
    BY DEF ObjectInit, LockInit, LockedBy
  <2> QED BY <2>1, ObjectInvInit DEF WaitInv
<1>2. WaitInv /\ [ObjectNext]_vars => WaitInv'
  <2> SUFFICES ASSUME WaitInv, [ObjectNext]_vars PROVE WaitInv'
    OBVIOUS
  <2>1. ObjectInv /\ LockedBy
    BY DEF WaitInv
  <2>2. LockedBy'
    BY <2>1, ObjectStepIsLockStep, LockedByNext DEF ObjectInv
  <2> QED BY <2>1, <2>2, ObjectInvNext DEF WaitInv
<1> QED BY <1>1, <1>2, PTL DEF ObjectSpec

\* t waits for a mutex that u has locked.
WaitsFor(t, u) == at[t] = "lock" /\ pmutex[wants[t]] = u

\* The thread that is waited for holds the mutex, unless it is in the midst of
\* taking or leaving it.
LEMMA WaitedForHolds ==
  ASSUME WaitInv, NEW t \in Threads, NEW u \in Threads, WaitsFor(t, u)
  PROVE  /\ wants[t] \in Mutexes
         /\ wants[t] \in Held(u) \/ at[u] \in {"own", "unlock"}
<1>1. wants[t] \in Mutexes /\ pmutex[wants[t]] = u /\ u # None
  BY NoneAssumption DEF WaitsFor, WaitInv, ObjectInv, LockInv, LockTypeOK
<1>2. mOwner[wants[t]] = u \/ at[u] \in {"own", "unlock"}
  BY <1>1 DEF WaitInv, LockedBy
<1>3. mOwner[wants[t]] = u => lockers[u][wants[t]] > 0
  BY <1>1 DEF WaitInv, ObjectInv, LockInv, OwnerHasLockers
<1> QED BY <1>1, <1>2, <1>3 DEF Held

\* If it waits as well, then for a later mutex.
LEMMA Climbs ==
  ASSUME WaitInv, NEW t \in Threads, NEW u \in Threads, WaitsFor(t, u), at[u] = "lock"
  PROVE  Rank(wants[t]) < Rank(wants[u])
<1>1. wants[t] \in Held(u) /\ Taking(u)
  BY WaitedForHolds DEF Taking
<1>2. ThreadInv(u)
  BY DEF WaitInv, ObjectInv, CodeInv
<1> QED BY <1>1, <1>2 DEF ThreadInv

\* In the plug-in, a thread that another waits for goes on, or waits for a later
\* mutex than the one it has: following who waits for whom, the mutexes climb,
\* so that no circle of threads is deadlocked, however many there are.
THEOREM WaitingClimbs ==
  ObjectSpec => [](\A t, u \in Threads :
                     WaitsFor(t, u) /\ at[u] = "lock" => Rank(wants[t]) < Rank(wants[u]))
<1> DEFINE Climbing == \A t, u \in Threads :
                         WaitsFor(t, u) /\ at[u] = "lock" => Rank(wants[t]) < Rank(wants[u])
<1>1. WaitInv => Climbing
  BY Climbs
<1> HIDE DEF Climbing
<1>2. ObjectSpec => []Climbing
  BY <1>1, WaitInvAlways, PTL
<1> QED BY <1>2 DEF Climbing

\* The thread waits for a mutex that somebody has locked.
Blocked(t) == at[t] = "lock" /\ pmutex[wants[t]] # None

\* The thread has locked a mutex, does not wait, and has something to do.
FreesOne(t) ==
  /\ \E m \in Mutexes : pmutex[m] = t
  /\ ~Blocked(t) /\ ~Free(t)

\* A thread that is waited for frees a mutex, or is blocked at a later one.
LEMMA WaitedForGoesOn ==
  ASSUME WaitInv, NEW t \in Threads, Blocked(t)
  PROVE  \E u \in Threads : FreesOne(u) \/ (Blocked(u) /\ Rank(wants[t]) < Rank(wants[u]))
<1>1. /\ wants[t] \in Mutexes /\ pmutex[wants[t]] \in Threads \cup {None}
  BY DEF WaitInv, ObjectInv, LockInv, LockTypeOK, Blocked
<1>2. PICK u \in Threads : u = pmutex[wants[t]]
  BY <1>1 DEF Blocked
<1>3. WaitsFor(t, u)
  BY <1>2 DEF Blocked, WaitsFor
<1>4. CASE Blocked(u)
  BY <1>3, <1>4, Climbs DEF Blocked
<1>5. CASE ~Blocked(u)
  <2>1. ~Free(u)
    <3>1. SUFFICES ASSUME at[u] = "out", code[u] = <<>> PROVE FALSE
      BY DEF Free
    <3>2. wants[t] \in Held(u)
      BY <1>3, <3>1, WaitedForHolds
    <3>3. Runs(<<>>, Held(u), {})
      <4>1. ThreadInv(u)
        BY DEF WaitInv, ObjectInv, CodeInv
      <4>2. Taken(u) = Held(u)
        BY <3>1 DEF Taken, Taking
      <4> QED BY <3>1, <4>1, <4>2 DEF ThreadInv
    <3>4. Held(u) = {}
      BY <3>3, NothingPath DEF Runs
    <3> QED BY <3>2, <3>4
  <2> QED BY <1>1, <1>2, <1>5, <2>1 DEF FreesOne
<1> QED BY <1>4, <1>5

\* There are four mutexes in the order.
LEMMA RankType == ASSUME NEW m \in Mutexes PROVE Rank(m) \in 1 .. 4
  BY RankOf, ObjectsAssumption

\* Some thread frees a mutex whenever one is blocked at the n-th mutex or later.
Frees(n) ==
  \A t \in Threads : Blocked(t) /\ Rank(wants[t]) >= n => \E u \in Threads : FreesOne(u)

\* From one mutex to the one before it.
LEMMA FreesBefore ==
  ASSUME WaitInv, NEW n \in 1 .. 4, Frees(n + 1)
  PROVE  Frees(n)
<1> SUFFICES ASSUME NEW t \in Threads, Blocked(t), Rank(wants[t]) >= n
             PROVE  \E u \in Threads : FreesOne(u)
  BY DEF Frees
<1>1. PICK u \in Threads : FreesOne(u) \/ (Blocked(u) /\ Rank(wants[t]) < Rank(wants[u]))
  BY WaitedForGoesOn
<1>2. CASE FreesOne(u)
  BY <1>2
<1>3. CASE Blocked(u) /\ Rank(wants[t]) < Rank(wants[u])
  <2>1. wants[t] \in Mutexes /\ wants[u] \in Mutexes
    BY <1>3 DEF WaitInv, ObjectInv, LockInv, LockTypeOK, Blocked
  <2>2. Rank(wants[t]) \in 1 .. 4 /\ Rank(wants[u]) \in 1 .. 4
    BY <2>1, RankType
  <2>3. Rank(wants[u]) >= n + 1
    BY <1>3, <2>2
  <2> QED BY <1>3, <2>3 DEF Frees
<1> QED BY <1>1, <1>2, <1>3

\* Whenever a thread is blocked at a mutex, some thread that has locked one is
\* not blocked and has not ended its call: the plug-in is never deadlocked, and
\* nobody goes away with a mutex.
THEOREM DeadlockFree ==
  ObjectSpec => [](\A t \in Threads : Blocked(t) => \E u \in Threads : FreesOne(u))
<1> DEFINE Live == \A t \in Threads : Blocked(t) => \E u \in Threads : FreesOne(u)
<1>1. WaitInv => Live
  <2> SUFFICES ASSUME WaitInv, NEW t \in Threads, Blocked(t)
               PROVE  \E u \in Threads : FreesOne(u)
    OBVIOUS
  <2>1. \A u \in Threads : Blocked(u) => Rank(wants[u]) \in 1 .. 4
    <3>1. \A u \in Threads : Blocked(u) => wants[u] \in Mutexes
      BY DEF WaitInv, ObjectInv, LockInv, LockTypeOK, Blocked
    <3> QED BY <3>1, RankType
  <2>2. Frees(5)
    BY <2>1 DEF Frees
  <2>3. Frees(4)
    BY <2>2, FreesBefore
  <2>4. Frees(3)
    BY <2>3, FreesBefore
  <2>5. Frees(2)
    BY <2>4, FreesBefore
  <2>6. Frees(1)
    BY <2>5, FreesBefore
  <2> QED BY <2>1, <2>6 DEF Frees
<1> HIDE DEF Live
<1>2. ObjectSpec => []Live
  BY <1>1, WaitInvAlways, PTL
<1> QED BY <1>2 DEF Live

-----------------------------------------------------------------------------
(* What is left to do.                                                     *)

\* The program may still fail to open the shared memory.
Opens(c) == \E i \in 1 .. Len(c) : c[i][1] = "open"

\* The steps of a program, no instruction taking more than three and the handler
\* of a failure being shorter than 9 instructions.
Length(c) == 3 * Len(c) + (IF Opens(c) THEN 24 ELSE 0)

\* The steps that are left of what the thread is in.
Left(t) == Length(code[t]) + (IF at[t] = "out" THEN 0 ELSE IF at[t] = "lock" THEN 2 ELSE 1)

\* A program of n instructions that cannot fail.
Safe(c, n) == c \in Seq(Instructions) /\ Len(c) = n /\ ~Opens(c)

\* One instruction.
LEMMA SafeOne ==
  ASSUME NEW x \in Instructions, x[1] # "open"
  PROVE  Safe(<<x>>, 1)
<1>1. <<x>> \in Seq(Instructions) /\ Len(<<x>>) = 1 /\ <<x>>[1] = x
  OBVIOUS
<1>2. \A i \in 1 .. 1 : i = 1
  OBVIOUS
<1> QED BY <1>1, <1>2 DEF Safe, Opens

\* One program after another.
LEMMA SafeThen ==
  ASSUME NEW c, NEW d, NEW m \in Nat, NEW n \in Nat, Safe(c, m), Safe(d, n)
  PROVE  Safe(c \o d, m + n)
<1>1. /\ c \in Seq(Instructions) /\ d \in Seq(Instructions) /\ Len(c) = m /\ Len(d) = n
      /\ \A i \in 1 .. m : c[i][1] # "open"
      /\ \A i \in 1 .. n : d[i][1] # "open"
  BY DEF Safe, Opens
<1>2. c \o d \in Seq(Instructions) /\ Len(c \o d) = m + n
  BY <1>1
<1>3. ASSUME NEW i \in 1 .. m + n PROVE (c \o d)[i][1] # "open"
  <2>1. CASE i <= m
    <3>1. (c \o d)[i] = c[i] /\ i \in 1 .. m
      BY <1>1, <2>1
    <3> QED BY <1>1, <3>1
  <2>2. CASE i > m
    <3>1. (c \o d)[i] = d[i - m] /\ i - m \in 1 .. n
      BY <1>1, <2>2
    <3> QED BY <1>1, <3>1
  <2>3. i <= m \/ i > m
    OBVIOUS
  <2> QED BY <2>1, <2>2, <2>3
<1> QED BY <1>2, <1>3 DEF Safe, Opens

\* Two instructions.
LEMMA SafeTwo ==
  ASSUME NEW x \in Instructions, NEW y \in Instructions, x[1] # "open", y[1] # "open"
  PROVE  Safe(<<x, y>>, 2)
<1> DEFINE c == <<x, y>>
<1>1. c \in Seq(Instructions) /\ Len(c) = 2 /\ c[1] = x /\ c[2] = y
  OBVIOUS
<1>2. \A i \in 1 .. 2 : i = 1 \/ i = 2
  OBVIOUS
<1> HIDE DEF c
<1>3. Safe(c, 2)
  BY <1>1, <1>2 DEF Safe, Opens
<1> QED BY <1>3 DEF c

\* A scope.
LEMMA SafeScope ==
  ASSUME NEW m \in Mutexes, NEW c, NEW n \in Nat, Safe(c, n)
  PROVE  Safe(Scope(m, c), n + 2)
<1>1. <<"lock", m>> \in Instructions /\ <<"unlock", m>> \in Instructions
  BY DEF Instructions
<1>2. Safe(<<<<"lock", m>>>>, 1) /\ Safe(<<<<"unlock", m>>>>, 1)
  BY <1>1, SafeOne
<1>3. Safe(<<<<"lock", m>>>> \o c, 1 + n)
  BY <1>2, SafeThen
<1>4. Safe((<<<<"lock", m>>>> \o c) \o <<<<"unlock", m>>>>, (1 + n) + 1)
  BY <1>2, <1>3, SafeThen
<1>5. (1 + n) + 1 = n + 2
  OBVIOUS
<1> QED BY <1>4, <1>5 DEF Scope

\* The handler of a failed creation.
LEMMA SafeCreateFailed == Safe(CreateFailed, 8)
<1>1. /\ <<"remove", DeviceID>> \in Instructions /\ <<"find object", Nil>> \in Instructions
      /\ <<"release", Nil>> \in Instructions /\ <<"loaded", Nil>> \in Instructions
  BY DEF Instructions
<1>2. Safe(<<<<"remove", DeviceID>>>>, 1) /\ Safe(Return, 1)
  BY <1>1, SafeOne DEF Return
<1>3. Safe(RemoveDevice, 3)
  <2>1. Safe(RemoveDevice, 1 + 2)
    BY <1>2, SafeScope, TheMutexes DEF RemoveDevice
  <2> QED BY <2>1
<1>4. Safe(ReleaseObject, 4)
  <2>1. Safe(<<<<"find object", Nil>>, <<"release", Nil>>>>, 2)
    BY <1>1, SafeTwo
  <2>2. Safe(ReleaseObject, 2 + 2)
    BY <2>1, SafeScope, TheMutexes DEF ReleaseObject
  <2> QED BY <2>2
<1>5. Safe(RemoveDevice \o ReleaseObject, 3 + 4)
  BY <1>3, <1>4, SafeThen
<1>6. PICK c : c = RemoveDevice \o ReleaseObject
  OBVIOUS
<1>7. Safe(c, 7)
  BY <1>5, <1>6
<1>8. Safe(c \o Return, 7 + 1)
  BY <1>2, <1>7, SafeThen
<1> QED BY <1>6, <1>8 DEF CreateFailed

\* Lengths, of a program that goes on, ends or fails.
LEMMA Lengths ==
  ASSUME NEW c \in Seq(Instructions), c # <<>>
  PROVE  /\ Length(c) \in Nat /\ Length(Tail(c)) \in Nat /\ Length(Tail(c)) <= Length(c) - 3
         /\ Length(<<>>) \in Nat /\ Length(<<>>) <= Length(c) - 3
         /\ Head(c)[1] = "open" => Length(CreateFailed) \in Nat /\ Length(CreateFailed) <= Length(c) - 3
<1>1. /\ Len(c) \in Nat /\ Len(c) >= 1 /\ Len(Tail(c)) = Len(c) - 1 /\ Head(c) = c[1]
      /\ \A i \in 1 .. Len(c) - 1 : Tail(c)[i] = c[i + 1]
  OBVIOUS
<1>2. Opens(Tail(c)) => Opens(c)
  BY <1>1 DEF Opens
<1>3. Len(<<>>) = 0 /\ ~Opens(<<>>)
  BY DEF Opens
<1>4. Head(c)[1] = "open" => Opens(c)
  BY <1>1 DEF Opens
<1>5. Len(CreateFailed) = 8 /\ ~Opens(CreateFailed)
  BY SafeCreateFailed DEF Safe
<1> HIDE DEF Opens
<1>6. /\ Length(c) \in Nat /\ Length(Tail(c)) \in Nat
      /\ Length(Tail(c)) <= Length(c) - 3
  <2>1. CASE Opens(c)
    BY <1>1, <2>1 DEF Length
  <2>2. CASE ~Opens(c)
    BY <1>1, <1>2, <2>2 DEF Length
  <2> QED BY <2>1, <2>2
<1>7. Length(<<>>) = 0 /\ Length(c) >= 3
  BY <1>1, <1>3 DEF Length
<1>8. Head(c)[1] = "open" => Length(CreateFailed) = 24 /\ Length(c) >= 27
  BY <1>1, <1>4, <1>5 DEF Length
<1> QED BY <1>6, <1>7, <1>8

\* A step of a thread leaves it less to do, and the others as much as they had.
LEMMA StepShortens ==
  ASSUME ObjectInv, NEW t \in Threads, Step(t)
  PROVE  /\ Left(t) \in Nat /\ Left(t)' \in Nat /\ Left(t)' < Left(t)
         /\ \A u \in Threads : u # t => Left(u)' = Left(u)
<1>1. /\ code \in [Threads -> Seq(Instructions)] /\ at \in [Threads -> Steps] /\ code[t] \in Seq(Instructions)
      /\ at[t] \in Steps
  BY DEF ObjectInv, CodeInv, LockInv, LockTypeOK
<1>2. ASSUME at[t] = "out", code[t] # <<>>, NEW c, code' = [code EXCEPT ![t] = c],
             Length(c) \in Nat, Length(c) <= Length(code[t]) - 3,
             NEW a \in {"out", "lock", "unlock"}, at' = [at EXCEPT ![t] = a]
      PROVE  /\ Left(t) \in Nat /\ Left(t)' \in Nat /\ Left(t)' < Left(t)
             /\ \A u \in Threads : u # t => Left(u)' = Left(u)
  <2>1. code'[t] = c /\ at'[t] = a /\ \A u \in Threads : u # t => code'[u] = code[u] /\ at'[u] = at[u]
    BY <1>1, <1>2
  <2>2. Length(code[t]) \in Nat
    BY <1>1, <1>2, Lengths
  <2>3. Left(t) = Length(code[t]) /\ Left(t)' <= Length(c) + 2 /\ Left(t)' \in Nat
    BY <1>2, <2>1, <2>2 DEF Left
  <2>4. \A u \in Threads : u # t => Left(u)' = Left(u)
    BY <2>1 DEF Left
  <2> QED BY <1>2, <2>2, <2>3, <2>4
<1>3. ASSUME NEW op, At(t, op), Advance(t), NEW a \in {"out", "lock", "unlock"}, at' = [at EXCEPT ![t] = a]
      PROVE  /\ Left(t) \in Nat /\ Left(t)' \in Nat /\ Left(t)' < Left(t)
             /\ \A u \in Threads : u # t => Left(u)' = Left(u)
  <2>1. at[t] = "out" /\ code[t] # <<>> /\ code' = [code EXCEPT ![t] = Tail(code[t])]
    BY <1>3 DEF At, Advance
  <2> QED BY <1>1, <1>2, <1>3, <2>1, Lengths
<1>4. ASSUME at[t] # "out", UNCHANGED code, NEW a \in {"own", "out"}, at' = [at EXCEPT ![t] = a],
             a = "own" => at[t] = "lock"
      PROVE  /\ Left(t) \in Nat /\ Left(t)' \in Nat /\ Left(t)' < Left(t)
             /\ \A u \in Threads : u # t => Left(u)' = Left(u)
  <2>1. at'[t] = a /\ \A u \in Threads : u # t => at'[u] = at[u]
    BY <1>1, <1>4
  <2>2. Length(code[t]) \in Nat /\ code'[t] = code[t]
    BY <1>1, <1>4 DEF Length
  <2>3. Left(t) \in Nat /\ Left(t)' \in Nat /\ Left(t)' < Left(t)
    BY <1>1, <1>4, <2>1, <2>2 DEF Left, Steps
  <2>4. \A u \in Threads : u # t => Left(u)' = Left(u)
    BY <1>4, <2>1 DEF Left
  <2> QED BY <2>3, <2>4
<1>5. CASE Mutex(t)
  <2>1. ASSUME NEW m \in Mutexes, At(t, "lock"), Lock(t, m), Advance(t)
        PROVE  at' = [at EXCEPT ![t] = "lock"] \/ at' = [at EXCEPT ![t] = "out"]
    BY <1>1, <2>1 DEF Lock
  <2>2. ASSUME NEW m \in Mutexes, At(t, "unlock"), Unlock(t, m), Advance(t)
        PROVE  at' = [at EXCEPT ![t] = "unlock"] \/ at' = [at EXCEPT ![t] = "out"]
    BY <1>1, <2>2 DEF Unlock
  <2>3. CASE LockStep(t) /\ UNCHANGED code
    <3>1. /\ at[t] # "out"
          /\ \/ at[t] = "lock" /\ at' = [at EXCEPT ![t] = "own"]
             \/ at' = [at EXCEPT ![t] = "out"]
      BY <2>3 DEF LockStep, pthread_mutex_lock, Locked, pthread_mutex_unlock
    <3> QED BY <1>4, <2>3, <3>1
  <2>4. CASE \E m \in Mutexes : At(t, "lock") /\ m = Arg(t) /\ Lock(t, m) /\ Advance(t)
    BY <1>3, <2>1, <2>4
  <2>5. CASE \E m \in Mutexes : At(t, "unlock") /\ m = Arg(t) /\ Unlock(t, m) /\ Advance(t)
    BY <1>3, <2>2, <2>5
  <2> QED BY <1>5, <2>3, <2>4, <2>5 DEF Mutex
<1>6. ASSUME UNCHANGED lockVars, NEW op, At(t, op) PROVE at' = [at EXCEPT ![t] = "out"]
  BY <1>1, <1>6 DEF At, lockVars
<1>7. CASE \/ Find(t) \/ Map(t) \/ Unmap(t) \/ Copy(t) \/ Release(t)
           \/ New(t) \/ DestroyObject(t) \/ SetActive(t) \/ EditList(t) \/ Loaded(t)
  <2>1. UNCHANGED lockVars /\ Advance(t) /\ \E op : At(t, op)
    BY <1>7 DEF Find, Map, Unmap, Copy, Release, New, DestroyObject, SetActive, EditList, Loaded
  <2> QED BY <1>3, <1>6, <2>1
<1>8. CASE HW_Open(t)
  <2>1. At(t, "open") /\ UNCHANGED lockVars /\ (Advance(t) \/ code' = [code EXCEPT ![t] = CreateFailed])
    BY <1>8 DEF HW_Open
  <2>2. at' = [at EXCEPT ![t] = "out"]
    BY <1>6, <2>1
  <2>3. at[t] = "out" /\ code[t] # <<>> /\ Head(code[t])[1] = "open"
    BY <2>1 DEF At
  <2>4. Length(CreateFailed) \in Nat /\ Length(CreateFailed) <= Length(code[t]) - 3
    BY <1>1, <2>3, Lengths
  <2>5. CASE Advance(t)
    BY <1>3, <2>1, <2>2, <2>5
  <2>6. CASE code' = [code EXCEPT ![t] = CreateFailed]
    BY <1>2, <2>2, <2>3, <2>4, <2>6
  <2> QED BY <2>1, <2>5, <2>6
<1>9. CASE Work(t)
  <2>1. /\ At(t, "check") \/ At(t, "use") 
        /\ UNCHANGED lockVars
        /\ code' = [code EXCEPT ![t] = <<>>] \/ code' = [code EXCEPT ![t] = Tail(code[t])]
    BY <1>9 DEF Work, Advance
  <2>2. at' = [at EXCEPT ![t] = "out"] /\ at[t] = "out" /\ code[t] # <<>>
    BY <1>6, <2>1 DEF At
  <2>3. /\ Length(<<>>) \in Nat /\ Length(<<>>) <= Length(code[t]) - 3
        /\ Length(Tail(code[t])) \in Nat /\ Length(Tail(code[t])) <= Length(code[t]) - 3
    BY <1>1, <2>2, Lengths
  <2> QED BY <1>2, <2>1, <2>2, <2>3
<1> QED BY <1>5, <1>7, <1>8, <1>9 DEF Step

\* What is left of a call or a block is a number that every step of its thread
\* lowers and that no step of another thread, no call and no block raises: with
\* DeadlockFree, the safety part of that every call returns.  It holds through
\* failed creations too, which replace the rest of a program by another one.
THEOREM CallsShorten ==
  ObjectSpec => [][\A t \in Threads :
                     /\ Step(t) => Left(t) \in Nat /\ Left(t)' \in Nat /\ Left(t)' < Left(t)
                     /\ ~Free(t) /\ ~Step(t) => Left(t)' = Left(t)]_vars
<1> DEFINE Shorten == \A t \in Threads :
                        /\ Step(t) => Left(t) \in Nat /\ Left(t)' \in Nat /\ Left(t)' < Left(t)
                        /\ ~Free(t) /\ ~Step(t) => Left(t)' = Left(t)
<1>1. ASSUME ObjectInv, ObjectNext PROVE Shorten
  <2> SUFFICES ASSUME NEW t \in Threads, ~Free(t), ~Step(t) PROVE Left(t)' = Left(t)
    BY <1>1, StepShortens
  <2>1. CASE \E u \in Threads : Step(u)
    BY <1>1, <2>1, StepShortens
  <2>2. ASSUME NEW u \in Threads, Free(u), NEW c, code' = [code EXCEPT ![u] = c], UNCHANGED lockVars
        PROVE  Left(t)' = Left(t)
    <3>1. t # u
      BY <2>2
    <3>2. code'[t] = code[t] /\ at' = at
      BY <1>1, <2>2, <3>1 DEF ObjectInv, CodeInv, lockVars
    <3> QED BY <3>2 DEF Left
  <2>3. CASE \E u \in HalThreads : Call(u)
    BY <2>2, <2>3, ObjectsAssumption DEF Call
  <2>4. CASE RunBlock
    BY <2>2, <2>4, ObjectsAssumption DEF RunBlock
  <2> QED BY <1>1, <2>1, <2>3, <2>4 DEF ObjectNext
<1> HIDE DEF Shorten
<1>2. ObjectSpec => [][Shorten]_vars
  BY <1>1, ObjectInvAlways, PTL DEF ObjectSpec
<1> QED BY <1>2 DEF Shorten

-----------------------------------------------------------------------------
(* The programs and the references.  A thread is at each point of a program *)
(* in a role, which says what references it holds, and has or has not found *)
(* an entry of the map.                                                    *)

\* The loading thread before the device is mapped, and with the reference that
\* mapping it gave.
Early    == {"start", "new plug-in", "made plug-in", "new device"}
Creating == {"mapped", "listed", "opened"}
\* The queue's thread in the block that removes the device, with the reference
\* that the device list had.
Removing == {"owner", "owner asked", "both", "inactive"}
\* Threads with a reference from _CopyObjectByObjectID to the object they work
\* on; the asking ones have not looked yet whether there is one.
Borrowing == {"asked", "borrow", "owner asked", "both", "inactive"}

Roles == Early \cup Creating \cup Removing \cup Borrowing \cup {"none", "destroy"}

\* What the thread has searched for and not yet used: an ID, or its object.
Founds == IDs \cup {"object", "no"}
Uses   == [role : Roles, found : Founds]

As(role) == [role |-> role, found |-> "no"]

\* How an instruction that is neither of a mutex nor a search changes the role.
Move(op, a, r, q) ==
  /\ op = "new" => \/ a = "plug-in" /\ r = "start" /\ q = "new plug-in"
                   \/ a = "device" /\ r = "made plug-in" /\ q = "new device"
  /\ op = "map" => \/ a = PlugInID /\ r = "new plug-in" /\ q = "made plug-in"
                   \/ a = DeviceID /\ r = "new device" /\ q = "mapped"
                   \/ a = StreamID /\ r = "listed" /\ q = "opened"
  /\ op = "unmap" => a = StreamID /\ r = "inactive" /\ q = "inactive"
  /\ op = "copy" => \/ r = "none" /\ q = "asked"
                    \/ a = DeviceID /\ r = "owner" /\ q = "owner asked"
  /\ op = "check" => \/ r = "asked" /\ q = "borrow"
                     \/ a = DeviceID /\ r = "owner asked" /\ q = "both"
  /\ op = "release" => \/ r \in {"mapped", "borrow"} /\ q = "none"
                       \/ r = "inactive" /\ q = "borrow"
  /\ op = "delete" => r = "destroy" /\ q = "none"
  /\ op = "open" => r = "listed" /\ q = "listed"
  /\ op = "activate" => r = "opened" /\ q = "opened"
  /\ op = "deactivate" => r = "both" /\ q = "inactive"
  /\ op = "add" => r = "mapped" /\ q = "listed"
  /\ op = "remove" => r = "listed" /\ q = "mapped"
  /\ op = "remove all" => r = "none" /\ q = "none"
  /\ op = "use" => r = "borrow" /\ q = "borrow"
  /\ op = "loaded" => r \in {"none", "opened"} /\ q = "none"

\* The device's own mutexes need the device; who destroys it does nothing else.
UseEffect(op, a, s, e) ==
  /\ IF op \in {"lock", "unlock", "find ID", "find object"}
       THEN e.role = s.role /\ s.role # "destroy" ELSE Move(op, a, s.role, e.role)
  /\ op \in {"lock", "unlock"} /\ a \in {StateMutex, IOMutex} =>
       s.role \in {"borrow", "both", "inactive"}
  /\ s.found = IF op \in {"map", "unmap", "copy"} THEN a
               ELSE IF op = "release" THEN "object" ELSE "no"
  /\ e.found = IF op = "find ID" THEN a
               ELSE IF op = "find object" THEN "object" ELSE "no"

UseEffects ==
  {z \in Instructions \X Uses \X Uses : UseEffect(z[1][1], z[1][2], z[2], z[3])}

Leads(c, s, e) == Path(UseEffects, Uses, c, s, e)

\* The triples of the relation.
LEMMA UseEffectsAre ==
  ASSUME NEW x, NEW s, NEW e
  PROVE  <<x, s, e>> \in UseEffects <=>
           x \in Instructions /\ s \in Uses /\ e \in Uses /\ UseEffect(x[1], x[2], s, e)
  BY DEF UseEffects

\* The names of the roles are their own.
LEMMA AsType ==
  ASSUME NEW r \in Roles
  PROVE  As(r) \in Uses /\ As(r).role = r /\ As(r).found = "no"
  BY DEF As, Uses, Founds

\* One program after another.
LEMMA LeadsThen ==
  ASSUME NEW c, NEW d, NEW s, NEW m, NEW e, Leads(c, s, m), Leads(d, m, e)
  PROVE  Leads(c \o d, s, e)
  BY PathThen DEF Leads

\* One instruction that moves from role to role.
LEMMA LeadsOne ==
  ASSUME NEW x \in Instructions, NEW r \in Roles, NEW q \in Roles, Move(x[1], x[2], r, q),
         x[1] \notin {"lock", "unlock"} \cup MapOperations
  PROVE  Leads(<<x>>, As(r), As(q))
<1>1. UseEffect(x[1], x[2], As(r), As(q))
  BY AsType DEF UseEffect, MapOperations
<1> QED BY <1>1, PathOne, UseEffectsAre, AsType DEF Leads

\* A scope of a mutex, which the role allows.
LEMMA LeadsScope ==
  ASSUME NEW m \in Mutexes, NEW r \in Roles, NEW q \in Roles, NEW body,
         m \in {StateMutex, IOMutex} =>
           r \in {"borrow", "both", "inactive"} /\ q \in {"borrow", "both", "inactive"},
         r # "destroy", q # "destroy", Leads(body, As(r), As(q))
  PROVE  Leads(Scope(m, body), As(r), As(q))
<1> DEFINE lock == <<"lock", m>>
           unlock == <<"unlock", m>>
<1>1. lock \in Instructions /\ unlock \in Instructions
  BY DEF Instructions
<1>2. lock[1] = "lock" /\ lock[2] = m /\ unlock[1] = "unlock" /\ unlock[2] = m
  OBVIOUS
<1> HIDE DEF lock, unlock
<1>3. UseEffect(lock[1], lock[2], As(r), As(r)) /\ UseEffect(unlock[1], unlock[2], As(q), As(q))
  BY <1>2, AsType DEF UseEffect
<1>4. Leads(<<lock>>, As(r), As(r)) /\ Leads(<<unlock>>, As(q), As(q))
  BY <1>1, <1>3, PathOne, UseEffectsAre, AsType DEF Leads
<1>5. Leads(<<lock>> \o body \o <<unlock>>, As(r), As(q))
  BY <1>4, LeadsThen
<1> QED BY <1>5 DEF Scope, lock, unlock

\* An operation of the map: a search and the use of what it found.
LEMMA LeadsMapOperation ==
  ASSUME NEW x \in Instructions, NEW y \in Instructions, NEW r \in Roles, NEW q \in Roles,
         Move(y[1], y[2], r, q),
         \/ x[1] = "find ID" /\ y[1] \in {"map", "unmap", "copy"} /\ x[2] = y[2] /\ x[2] \in IDs
         \/ x[1] = "find object" /\ y[1] = "release"
  PROVE  Leads(Scope(MapMutex, <<x, y>>), As(r), As(q))
<1> DEFINE f == IF x[1] = "find ID" THEN x[2] ELSE "object"
           m == [role |-> r, found |-> f]
<1>0. r # "destroy" /\ q # "destroy"
  BY DEF Move
<1>1. f \in Founds
  BY DEF Founds
<1>2. m \in Uses /\ m.role = r /\ m.found = f
  BY <1>1 DEF Uses
<1> HIDE DEF m
<1>3. UseEffect(x[1], x[2], As(r), m) /\ UseEffect(y[1], y[2], m, As(q))
  BY <1>0, <1>2, AsType DEF UseEffect
<1>4. Leads(<<x, y>>, As(r), As(q))
  BY <1>2, <1>3, PathTwo, UseEffectsAre, AsType DEF Leads
<1>5. MapMutex \in Mutexes /\ MapMutex \notin {StateMutex, IOMutex}
  BY TheMutexes DEF MapMutex, StateMutex, IOMutex
<1> QED BY <1>0, <1>4, <1>5, LeadsScope

\* MapObject, UnmapObject, CopyObjectByObjectID and ReleaseObject.
LEMMA LeadsMap ==
  ASSUME NEW r \in Roles, NEW q \in Roles, NEW id \in IDs
  PROVE  /\ Move("map", id, r, q) => Leads(MapObject(id), As(r), As(q))
         /\ Move("unmap", id, r, q) => Leads(UnmapObject(id), As(r), As(q))
         /\ Move("copy", id, r, q) => Leads(CopyObject(id), As(r), As(q))
         /\ Move("release", Nil, r, q) => Leads(ReleaseObject, As(r), As(q))
<1> DEFINE f == <<"find ID", id>>
           o == <<"find object", Nil>>
           y == <<"release", Nil>>
<1>1. f \in Instructions /\ f[1] = "find ID" /\ f[2] = id
  BY DEF Instructions
<1>2. /\ o \in Instructions /\ o[1] = "find object"
      /\ y \in Instructions /\ y[1] = "release" /\ y[2] = Nil
  BY DEF Instructions
<1>3. ASSUME NEW op \in {"map", "unmap", "copy"}, Move(op, id, r, q)
      PROVE  Leads(Scope(MapMutex, <<f, <<op, id>>>>), As(r), As(q))
  <2> DEFINE x == <<op, id>>
  <2>1. x \in Instructions /\ x[1] = op /\ x[2] = id
    BY DEF Instructions
  <2> HIDE DEF x, f
  <2>2. Leads(Scope(MapMutex, <<f, x>>), As(r), As(q))
    BY <1>1, <1>3, <2>1, LeadsMapOperation DEF x
  <2> QED BY <2>2 DEF x
<1>4. ASSUME Move("release", Nil, r, q) PROVE Leads(Scope(MapMutex, <<o, y>>), As(r), As(q))
  <2> HIDE DEF o, y
  <2> QED BY <1>2, <1>4, LeadsMapOperation
<1> QED BY <1>3, <1>4 DEF MapObject, UnmapObject, CopyObject, ReleaseObject

\* The roles, one by one.
LEMMA TheRoles ==
  \A r \in {"start", "new plug-in", "made plug-in", "new device", "mapped", "listed", "opened",
            "owner", "owner asked", "both", "inactive", "asked", "borrow", "none", "destroy"} :
    r \in Roles
  BY DEF Roles, Early, Creating, Removing, Borrowing

\* One plain instruction.
LEMMA LeadsPlain ==
  ASSUME NEW r \in Roles, NEW q \in Roles
  PROVE  /\ \A o \in Objects : Move("new", o, r, q) =>
              Leads(<<<<"new", o>>>>, As(r), As(q))
         /\ \A id \in IDs : Move("check", id, r, q) =>
              Leads(<<<<"check", id>>>>, As(r), As(q))
         /\ \A op \in {"add", "remove"} : Move(op, DeviceID, r, q) =>
              Leads(<<<<op, DeviceID>>>>, As(r), As(q))
         /\ \A op \in {"delete", "open", "activate", "deactivate", "remove all", "use", "loaded"} :
              Move(op, Nil, r, q) => Leads(<<<<op, Nil>>>>, As(r), As(q))
<1>1. ASSUME NEW op \in {"new", "check", "add", "remove", "delete", "open", "activate",
                         "deactivate", "remove all", "use", "loaded"},
             NEW a, <<op, a>> \in Instructions, Move(op, a, r, q)
      PROVE  Leads(<<<<op, a>>>>, As(r), As(q))
  <2> DEFINE x == <<op, a>>
  <2>1. x \in Instructions /\ x[1] \notin {"lock", "unlock"} \cup MapOperations
    BY <1>1 DEF MapOperations
  <2>2. Move(x[1], x[2], r, q)
    BY <1>1
  <2> HIDE DEF x
  <2>3. Leads(<<x>>, As(r), As(q))
    BY <2>1, <2>2, LeadsOne
  <2> QED BY <2>3 DEF x
<1> QED BY <1>1, PlainInstructions

\* The scopes of the plug-in's mutex and of the device's.
LEMMA LeadsLocked ==
  ASSUME NEW r \in Roles, NEW q \in Roles, NEW body, Leads(body, As(r), As(q)),
         r # "destroy", q # "destroy"
  PROVE  /\ Leads(Scope(PlugInMutex, body), As(r), As(q))
         /\ r \in {"borrow", "both", "inactive"} /\ q \in {"borrow", "both", "inactive"} =>
              /\ Leads(Scope(StateMutex, body), As(r), As(q))
              /\ Leads(Scope(IOMutex, body), As(r), As(q))
<1>1. PlugInMutex \notin {StateMutex, IOMutex}
  BY DEF PlugInMutex, StateMutex, IOMutex
<1> QED BY <1>1, LeadsScope, TheMutexes

\* The creation of the plug-in and of the device leaves the device to the list.
LEMMA LeadsStaticInitializer == Leads(StaticInitializer, As("start"), As("none"))
<1> USE TheRoles DEF Move
<1>0. PlugInID \in IDs /\ DeviceID \in IDs /\ StreamID \in IDs /\ "plug-in" \in Objects /\ "device" \in Objects
  BY DEF IDs, Objects
<1>1. Leads(<<<<"new", "plug-in">>>>, As("start"), As("new plug-in"))
  BY <1>0, LeadsPlain
<1>2. Leads(MapObject(PlugInID), As("new plug-in"), As("made plug-in"))
  BY <1>0, LeadsMap
<1>3. Leads(<<<<"new", "device">>>>, As("made plug-in"), As("new device"))
  BY <1>0, LeadsPlain
<1>4. Leads(MapObject(DeviceID), As("new device"), As("mapped"))
  BY <1>0, LeadsMap
<1>5. Leads(AddDevice, As("mapped"), As("listed"))
  <2>1. Leads(<<<<"add", DeviceID>>>>, As("mapped"), As("listed"))
    BY LeadsPlain
  <2> QED BY <2>1, LeadsLocked DEF AddDevice
<1>6. Leads(<<<<"open", Nil>>>>, As("listed"), As("listed"))
  BY LeadsPlain
<1>7. Leads(MapObject(StreamID), As("listed"), As("opened"))
  BY <1>0, LeadsMap
<1>8. Leads(<<<<"activate", Nil>>>>, As("opened"), As("opened"))
  BY LeadsPlain
<1>9. Leads(DeviceActivate, As("listed"), As("opened"))
  <2>1. Leads(<<<<"open", Nil>>>> \o MapObject(StreamID), As("listed"), As("opened"))
    BY <1>6, <1>7, LeadsThen
  <2> QED BY <1>8, <2>1, LeadsThen DEF DeviceActivate
<1>10. Leads(CreateDevices, As("made plug-in"), As("opened"))
  <2>1. Leads(<<<<"new", "device">>>> \o MapObject(DeviceID), As("made plug-in"), As("mapped"))
    BY <1>3, <1>4, LeadsThen
  <2>2. Leads(<<<<"new", "device">>>> \o MapObject(DeviceID) \o AddDevice, As("made plug-in"), As("listed"))
    BY <1>5, <2>1, LeadsThen
  <2> QED BY <1>9, <2>2, LeadsThen DEF CreateDevices
<1>11. Leads(Return, As("opened"), As("none"))
  BY LeadsPlain DEF Return
<1>12. Leads(<<<<"new", "plug-in">>>> \o MapObject(PlugInID), As("start"), As("made plug-in"))
  BY <1>1, <1>2, LeadsThen
<1>13. Leads(<<<<"new", "plug-in">>>> \o MapObject(PlugInID) \o CreateDevices, As("start"), As("opened"))
  BY <1>10, <1>12, LeadsThen
<1> QED BY <1>11, <1>13, LeadsThen DEF StaticInitializer

\* The handler of a failed creation takes the device from the list and releases it.
LEMMA LeadsCreateFailed == Leads(CreateFailed, As("listed"), As("none"))
<1> USE TheRoles DEF Move
<1>1. Leads(RemoveDevice, As("listed"), As("mapped"))
  <2>1. Leads(<<<<"remove", DeviceID>>>>, As("listed"), As("mapped"))
    BY LeadsPlain
  <2> QED BY <2>1, LeadsLocked DEF RemoveDevice
<1>2. Leads(ReleaseObject, As("mapped"), As("none"))
  BY LeadsMap DEF IDs
<1>3. Leads(Return, As("none"), As("none"))
  BY LeadsPlain DEF Return
<1>4. Leads(RemoveDevice \o ReleaseObject, As("listed"), As("none"))
  BY <1>1, <1>2, LeadsThen
<1> QED BY <1>3, <1>4, LeadsThen DEF CreateFailed

\* An entry point borrows its object and gives it back.
LEMMA LeadsEntryPoint ==
  ASSUME NEW id \in IDs, NEW body, Leads(body, As("borrow"), As("borrow"))
  PROVE  Leads(EntryPoint(id, body), As("none"), As("none"))
<1> USE TheRoles DEF Move
<1>1. Leads(CopyObject(id), As("none"), As("asked"))
  BY LeadsMap
<1>2. Leads(<<<<"check", id>>>>, As("asked"), As("borrow"))
  BY LeadsPlain
<1>3. Leads(ReleaseObject, As("borrow"), As("none"))
  BY LeadsMap
<1>4. Leads(CopyObject(id) \o <<<<"check", id>>>>, As("none"), As("borrow"))
  BY <1>1, <1>2, LeadsThen
<1>5. Leads(CopyObject(id) \o <<<<"check", id>>>> \o body, As("none"), As("borrow"))
  BY <1>4, LeadsThen
<1> QED BY <1>3, <1>5, LeadsThen DEF EntryPoint

\* The block that removes the device releases the list's reference and its own.
LEMMA LeadsRemoveBlock == Leads(RemoveBlock, As("owner"), As("none"))
<1> USE TheRoles DEF Move
<1>0. DeviceID \in IDs /\ StreamID \in IDs
  BY DEF IDs
<1>1. Leads(CopyObject(DeviceID), As("owner"), As("owner asked"))
  BY <1>0, LeadsMap
<1>2. Leads(<<<<"check", DeviceID>>>>, As("owner asked"), As("both"))
  BY <1>0, LeadsPlain
<1>3. Leads(DeviceDeactivate, As("both"), As("inactive"))
  <2> DEFINE body == <<<<"deactivate", Nil>>>> \o UnmapObject(StreamID)
  <2>1. Leads(<<<<"deactivate", Nil>>>>, As("both"), As("inactive"))
    BY LeadsPlain
  <2>2. Leads(UnmapObject(StreamID), As("inactive"), As("inactive"))
    BY <1>0, LeadsMap
  <2>3. Leads(body, As("both"), As("inactive"))
    BY <2>1, <2>2, LeadsThen
  <2> HIDE DEF body
  <2>4. Leads(Scope(IOMutex, body), As("both"), As("inactive"))
    BY <2>3, LeadsLocked
  <2>5. Leads(Scope(StateMutex, Scope(IOMutex, body)), As("both"), As("inactive"))
    BY <2>4, LeadsLocked
  <2> QED BY <2>5 DEF DeviceDeactivate, body
<1>4. Leads(ReleaseObject, As("inactive"), As("borrow")) /\ Leads(ReleaseObject, As("borrow"), As("none"))
  BY <1>0, LeadsMap
<1>5. Leads(DeviceDeactivate \o ReleaseObject, As("both"), As("borrow"))
  BY <1>3, <1>4, LeadsThen
<1>6. Leads(CopyObject(DeviceID) \o <<<<"check", DeviceID>>>>, As("owner"), As("both"))
  BY <1>1, <1>2, LeadsThen
<1>7. Leads(CopyObject(DeviceID) \o <<<<"check", DeviceID>>>> \o (DeviceDeactivate \o ReleaseObject),
            As("owner"), As("borrow"))
  BY <1>5, <1>6, LeadsThen
<1> QED BY <1>4, <1>7, LeadsThen DEF RemoveBlock, EntryPoint

\* A call into the plug-in, and the block that destroys.
LEMMA LeadsCalls ==
  /\ \A c \in {StateCall(DeviceID), StateCall(StreamID), IOCall, DeviceList, Deactivate} :
       Leads(c, As("none"), As("none"))
  /\ Leads(DestroyBlock, As("destroy"), As("none"))
  /\ Leads(<<>>, As("none"), As("none"))
<1> USE TheRoles DEF Move
<1>1. Leads(<<<<"use", Nil>>>>, As("borrow"), As("borrow"))
  BY LeadsPlain
<1>2. /\ Leads(Scope(StateMutex, <<<<"use", Nil>>>>), As("borrow"), As("borrow"))
      /\ Leads(Scope(PlugInMutex, <<<<"use", Nil>>>>), As("borrow"), As("borrow"))
  BY <1>1, LeadsLocked
<1>3. DeviceID \in IDs /\ StreamID \in IDs /\ PlugInID \in IDs
  BY DEF IDs
<1>4. Leads(StateCall(DeviceID), As("none"), As("none")) /\ Leads(StateCall(StreamID), As("none"), As("none"))
  BY <1>2, <1>3, LeadsEntryPoint DEF StateCall
<1>5. Leads(IOCall, As("none"), As("none"))
  BY <1>1, <1>3, LeadsEntryPoint DEF IOCall
<1>6. Leads(DeviceList, As("none"), As("none"))
  BY <1>2, <1>3, LeadsEntryPoint DEF DeviceList
<1>7. Leads(Deactivate, As("none"), As("none"))
  <2>1. Leads(<<<<"remove all", Nil>>>>, As("none"), As("none"))
    BY LeadsPlain
  <2> QED BY <2>1, LeadsLocked DEF Deactivate
<1>8. Leads(DestroyBlock, As("destroy"), As("none"))
  BY LeadsPlain DEF DestroyBlock
<1>9. Leads(<<>>, As("none"), As("none"))
  BY PathNothing, AsType DEF Leads
<1> QED BY <1>4, <1>5, <1>6, <1>7, <1>8, <1>9

-----------------------------------------------------------------------------
(* The references, as an invariant.  g tells the role of each thread and    *)
(* what it has found, l is the thread that loads the plug-in, and s is the  *)
(* stage that the device is in: who has the reference that MapObject gave.  *)

Stages == {"early", "creating", "listed", "queued", "removing", "gone"}

\* Every thread follows its program.
FollowInv(g) ==
  /\ g \in [Threads -> Uses]
  /\ \A t \in Threads : Leads(code[t], g[t], As("none"))

\* What a thread has found is what the map holds.
FoundOK(t, f) ==
  /\ f = "no" => iter[t] = Nil
  /\ f # "no" => at[t] = "out"
  /\ f = "object" => IF iter[t] = Nil THEN ptr[t] = Nil \/ ids[ptr[t]] = {}
                     ELSE iter[t] = ptr[t] /\ ids[iter[t]] # {}
  /\ f \in IDs => IF iter[t] = Nil THEN \A o \in Objects : f \notin ids[o]
                  ELSE f \in ids[iter[t]]

FoundInv(g) == \A t \in Threads : FoundOK(t, g[t].found)

\* The object that a thread works on is the one its role speaks of, and only who
\* keeps the device is in the midst of locking one of its mutexes.
RoleOK(t, r) ==
  /\ r \in {"new plug-in", "made plug-in"} => ptr[t] = "plug-in"
  /\ r \in {"new device", "owner asked", "both", "inactive", "destroy"} \cup Creating =>
       ptr[t] = "device"
  /\ r = "borrow" => ptr[t] # Nil
  /\ at[t] # "out" /\ wants[t] \in {StateMutex, IOMutex} => r \in {"borrow", "both", "inactive"}

RoleInv(g) == \A t \in Threads : RoleOK(t, g[t].role)

Borrowers(g, o) == {t \in Threads : g[t].role \in Borrowing /\ ptr[t] = o}

\* The plug-in is never released by its creator, the device is at the end.
Kept(o, s) ==
  \/ o = "plug-in" /\ ids[o] # {}
  \/ o = "device" /\ s \in {"creating", "listed", "queued", "removing"}

\* An object that is in the map has at least as many references as are in use.
Counted(g, s, o) ==
  /\ IsFiniteSet(Borrowers(g, o))
  /\ ids[o] = {} <=> refs[o] = 0
  /\ refs[o] >= Cardinality(Borrowers(g, o)) + (IF Kept(o, s) THEN 1 ELSE 0)

AccountInv(g, s) == \A o \in Objects : Counted(g, s, o)

\* What the map holds of an object, which lives.
EntryInv ==
  /\ ids["plug-in"] \subseteq {PlugInID}
  /\ ids["device"] # {} => DeviceID \in ids["device"] /\ ids["device"] \subseteq {DeviceID, StreamID}
  /\ \A o \in Objects : ids[o] # {} => mem[o] = "alive"

\* What the loading thread has not constructed yet.
Unmade(r) ==
  /\ r = "start" => mem["plug-in"] = "none"
  /\ r # "new device" => mem["device"] = "none"

\* While the plug-in is loaded no other thread is in it.
LoadInv(g, l, s) ==
  /\ s \in {"early", "creating"} =>
       /\ ~loaded /\ queue = <<>>
       /\ \A t \in Threads : t # l => g[t] = As("none") /\ code[t] = <<>>
  /\ s = "early" =>
       /\ g[l].role \in Early /\ list = <<>> /\ ids["device"] = {}
       /\ g[l].role = "new plug-in" => mem["plug-in"] = "alive"
       /\ g[l].role = "new device" => mem["device"] = "alive"
       /\ Unmade(g[l].role)
  /\ s = "creating" =>
       /\ g[l].role \in Creating
       /\ list = IF g[l].role = "mapped" THEN <<>> ELSE <<DeviceID>>
       /\ g[l].role = "opened" => StreamID \in ids["device"]
  /\ s \notin {"early", "creating"} => \A t \in Threads : g[t].role \notin Early \cup Creating

\* Who else has the device: the list, a block on the queue, or the queue's thread.
StageInv(g, s) ==
  /\ s = "listed" => list = <<DeviceID>>
  /\ s \in {"queued", "removing"} => list = <<Nil>>
  /\ s = "gone" => list \in {<<>>, <<Nil>>}
  /\ s = "queued" <=> \E i \in DOMAIN queue : queue[i].code = RemoveBlock
  /\ \A i, j \in DOMAIN queue : queue[i].code = RemoveBlock /\ queue[j].code = RemoveBlock => i = j
  /\ s = "removing" <=> g[Queue].role \in Removing
  /\ \A t \in HalThreads : g[t].role \notin Removing \cup {"destroy"}

\* A device that is active has its streams mapped; one that is being created or
\* has been deactivated is not active.
ActiveInv(g, l, s) ==
  /\ mIsActive => StreamID \in ids["device"]
  /\ mIsActive => s \notin {"early", "gone"}
  /\ mIsActive /\ s = "creating" => g[l].role = "opened"
  /\ mIsActive /\ s = "removing" => g[Queue].role # "inactive"

\* The device is destroyed once, and after it has left the map.
DestroyInv(g) ==
  /\ \A i \in DOMAIN queue :
       queue[i] \in {Block(<<>>, Nil), Block(RemoveBlock, Nil), Block(DestroyBlock, "device")}
  /\ \A i, j \in DOMAIN queue : queue[i].code = DestroyBlock /\ queue[j].code = DestroyBlock => i = j
  /\ g[Queue].role = "destroy" => \A i \in DOMAIN queue : queue[i].code # DestroyBlock
  /\ g[Queue].role = "destroy" \/ (\E i \in DOMAIN queue : queue[i].code = DestroyBlock) =>
       ids["device"] = {} /\ mem["device"] = "alive"

Refer(g, l, s) ==
  /\ l \in HalThreads /\ s \in Stages
  /\ FollowInv(g) /\ FoundInv(g) /\ RoleInv(g)
  /\ AccountInv(g, s) /\ EntryInv
  /\ LoadInv(g, l, s) /\ StageInv(g, s) /\ ActiveInv(g, l, s) /\ DestroyInv(g)

ReferenceInv == \E g, l, s : Refer(g, l, s)

\* An instruction is an operation and its argument.
LEMMA Pairs ==
  ASSUME NEW x \in Instructions
  PROVE  x = <<x[1], x[2]>>
<1>1. \A A, B : x \in A \X B => x = <<x[1], x[2]>>
  OBVIOUS
<1> QED BY <1>1, Zenon DEF Instructions

\* The use of an instruction.
LEMMA NextUse ==
  ASSUME CodeInv, NEW g, FollowInv(g), NEW t \in Threads, NEW op, At(t, op)
  PROVE  /\ <<op, Arg(t)>> \in Instructions /\ <<op, Arg(t)>> = Head(code[t])
         /\ g[t] \in Uses
         /\ \E e \in Uses : UseEffect(op, Arg(t), g[t], e) /\ Leads(Tail(code[t]), e, As("none"))
<1>1. code[t] # <<>> /\ Head(code[t])[1] = op
  BY DEF At
<1>2. Leads(code[t], g[t], As("none")) /\ g[t] \in Uses
  BY DEF FollowInv
<1>3. /\ Head(code[t]) \in Instructions
      /\ \E e \in Uses : <<Head(code[t]), g[t], e>> \in UseEffects /\ Leads(Tail(code[t]), e, As("none"))
  BY <1>1, <1>2, PathHead DEF Leads
<1>4. Head(code[t]) = <<op, Arg(t)>>
  BY <1>1, <1>3, Pairs DEF Arg
<1>5. \A e : <<Head(code[t]), g[t], e>> \in UseEffects => UseEffect(op, Arg(t), g[t], e)
  BY <1>1, UseEffectsAre DEF Arg
<1> QED BY <1>2, <1>3, <1>4, <1>5

\* A thread without a program holds nothing.
LEMMA NoProgram ==
  ASSUME NEW g, FollowInv(g), NEW t \in Threads, code[t] = <<>>
  PROVE  g[t] = As("none")
  BY NothingPath DEF FollowInv, Leads

\* A thread takes a step in its program, or begins another one.
LEMMA FollowStep ==
  ASSUME NEW g, FollowInv(g), NEW t \in Threads, NEW e \in Uses, NEW c,
         Leads(c, e, As("none")), code \in [Threads -> Seq(Instructions)],
         code' = [code EXCEPT ![t] = c]
  PROVE  FollowInv([g EXCEPT ![t] = e])'
<1> DEFINE h == [g EXCEPT ![t] = e]
<1>1. h \in [Threads -> Uses] /\ h[t] = e /\ \A u \in Threads : u # t => h[u] = g[u]
  BY DEF FollowInv
<1>2. code'[t] = c /\ \A u \in Threads : u # t => code'[u] = code[u]
  OBVIOUS
<1>3. \A u \in Threads : Leads(code'[u], h[u], As("none"))
  BY <1>1, <1>2 DEF FollowInv
<1> QED BY <1>1, <1>3 DEF FollowInv

\* Whoever has found something is within the map's mutex.
LEMMA FoundInMap ==
  ASSUME ObjectInv, NEW g, FollowInv(g), FoundInv(g), NEW t \in Threads, g[t].found # "no"
  PROVE  \E op \in MapOperations : At(t, op)
<1>1. at[t] = "out"
  BY DEF FoundInv, FoundOK
<1>2. code[t] # <<>>
  <2>1. As("none").found = "no"
    BY AsType, TheRoles
  <2> QED BY <2>1, NoProgram
<1> DEFINE op == Head(code[t])[1]
<1>3. At(t, op)
  BY <1>1, <1>2 DEF At
<1> HIDE DEF op
<1>4. PICK e \in Uses : UseEffect(op, Arg(t), g[t], e)
  BY <1>3, NextUse DEF ObjectInv
<1>5. op \notin {"map", "unmap", "copy", "release"} => g[t].found = "no"
  BY <1>4 DEF UseEffect
<1> QED BY <1>3, <1>5 DEF MapOperations

\* Two threads are not in the map together.
LEMMA AloneInMap ==
  ASSUME ObjectInv, NEW t \in Threads, NEW u \in Threads, NEW op \in MapOperations,
         NEW oq \in MapOperations, At(t, op), At(u, oq)
  PROVE  t = u
<1>1. MapMutex \in Held(t) /\ MapMutex \in Held(u)
  <2>1. ASSUME NEW v \in Threads, NEW o \in MapOperations, At(v, o) PROVE MapMutex \in Held(v)
    BY <2>1, NextInstruction DEF Effect, ObjectInv
  <2> QED BY <2>1
<1>2. lockers[t][MapMutex] > 0 /\ lockers[u][MapMutex] > 0
  BY <1>1 DEF Held
<1> QED BY <1>2, TheMutexes DEF ObjectInv, LockInv, OwnerHasLockers

\* While a thread works on the map, no other has found anything.
LEMMA OthersFindNothing ==
  ASSUME ObjectInv, NEW g, FollowInv(g), FoundInv(g), NEW t \in Threads, NEW op \in MapOperations,
         At(t, op), NEW u \in Threads, u # t
  PROVE  g[u].found = "no"
  BY FoundInMap, AloneInMap

\* Who borrows an object, and who keeps the device, finds it alive.
LEMMA StillThere ==
  ASSUME ObjectInv, NEW g, NEW l, NEW s, Refer(g, l, s), NEW o \in Objects
  PROVE  /\ Kept(o, s) => ids[o] # {} /\ mem[o] = "alive"
         /\ \A t \in Threads : t \in Borrowers(g, o) => ids[o] # {} /\ mem[o] = "alive"
<1>1. Counted(g, s, o) /\ refs[o] \in Nat
  BY DEF Refer, AccountInv, ObjectInv, ObjectTypeOK
<1>2. Cardinality(Borrowers(g, o)) \in Nat
  BY <1>1, FS_CardinalityType DEF Counted
<1>3. (\E t \in Threads : t \in Borrowers(g, o)) => Cardinality(Borrowers(g, o)) # 0
  BY <1>1, FS_EmptySet DEF Counted
<1>4. Kept(o, s) \/ (\E t \in Threads : t \in Borrowers(g, o)) => ids[o] # {}
  BY <1>1, <1>2, <1>3 DEF Counted
<1> QED BY <1>4 DEF Refer, EntryInv

\* A thread in a role of the creation is the loading one, at that stage.
LEMMA CreatingStage ==
  ASSUME NEW g, NEW l, NEW s, Refer(g, l, s), NEW t \in Threads
  PROVE  /\ g[t].role \in Early => t = l /\ s = "early"
         /\ g[t].role \in Creating => t = l /\ s = "creating"
<1>1. As("none").role = "none" /\ "none" \notin Early \cup Creating
  BY AsType, TheRoles DEF Early, Creating
<1>2. LoadInv(g, l, s) /\ s \in Stages
  BY DEF Refer
<1>3. Early \cap Creating = {}
  BY DEF Early, Creating
<1>4. CASE s = "early"
  BY <1>1, <1>2, <1>3, <1>4 DEF LoadInv
<1>5. CASE s = "creating"
  BY <1>1, <1>2, <1>3, <1>5 DEF LoadInv
<1>6. CASE s \notin {"early", "creating"}
  BY <1>2, <1>6 DEF LoadInv
<1> QED BY <1>4, <1>5, <1>6

\* The invariant implies that nothing is used after it was deleted.
LEMMA ReferencesSuffice ==
  ASSUME ObjectInv, ReferenceInv
  PROVE  NoUseAfterFree
<1>1. PICK g, l, s : Refer(g, l, s)
  BY DEF ReferenceInv
<1>2. /\ FollowInv(g) /\ FoundInv(g) /\ RoleInv(g) /\ DestroyInv(g) /\ CodeInv
      /\ ptr \in [Threads -> Objects \cup {Nil}] /\ iter \in [Threads -> Objects \cup {Nil}]
  BY <1>1 DEF Refer, ObjectInv, ObjectTypeOK
<1>3. ASSUME NEW t \in Threads, g[t].role \in {"borrow", "both", "inactive"}
      PROVE  ptr[t] # Nil /\ mem[ptr[t]] = "alive"
  <2>1. ptr[t] # Nil
    BY <1>2, <1>3 DEF RoleInv, RoleOK, Nil
  <2>2. ptr[t] \in Objects /\ t \in Borrowers(g, ptr[t])
    BY <1>2, <1>3, <2>1 DEF Borrowers, Borrowing
  <2> QED BY <1>1, <2>1, <2>2, StillThere
<1>4. ASSUME NEW t \in Threads, g[t].role \in Creating
      PROVE  ptr[t] # Nil /\ mem[ptr[t]] = "alive"
  <2>1. s = "creating" /\ ptr[t] = "device" /\ "device" \in Objects
    BY <1>1, <1>2, <1>4, CreatingStage DEF RoleInv, RoleOK, Objects
  <2> QED BY <1>1, <2>1, StillThere DEF Kept, Nil
<1>5. ASSUME NEW t \in Threads, g[t].role = "destroy"
      PROVE  ptr[t] # Nil /\ mem[ptr[t]] = "alive"
  <2>1. t = Queue /\ ptr[t] = "device"
    BY <1>1, <1>2, <1>5, ObjectsAssumption DEF RoleInv, RoleOK, Refer, StageInv
  <2> QED BY <1>2, <1>5, <2>1 DEF DestroyInv, Nil
<1>6. ASSUME NEW t \in Threads, NEW op, At(t, op),
             \/ op \in {"use", "open", "activate", "deactivate", "add", "remove", "delete"}
             \/ op \in {"lock", "unlock"} /\ Arg(t) \in {StateMutex, IOMutex}
      PROVE  g[t].role \in {"borrow", "both", "inactive", "destroy"} \cup Creating
  <2>1. PICK e \in Uses : UseEffect(op, Arg(t), g[t], e)
    BY <1>2, <1>6, NextUse
  <2>2. CASE op \in {"lock", "unlock"} /\ Arg(t) \in {StateMutex, IOMutex}
    BY <2>1, <2>2 DEF UseEffect
  <2>3. CASE op \in {"use", "open", "activate", "deactivate", "add", "remove", "delete"}
    <3>1. Move(op, Arg(t), g[t].role, e.role)
      BY <2>1, <2>3 DEF UseEffect
    <3>2. g[t].role \in {"borrow", "both", "destroy", "mapped", "listed", "opened"}
      BY <2>3, <3>1 DEF Move
    <3> QED BY <3>2 DEF Creating
  <2> QED BY <1>6, <2>2, <2>3
<1>7. ASSUME NEW t \in Threads, Touches(t) PROVE ptr[t] # Nil /\ mem[ptr[t]] = "alive"
  <2>1. g[t].role \in {"borrow", "both", "inactive", "destroy"} \cup Creating
    <3>1. CASE at[t] # "out" /\ wants[t] \in {StateMutex, IOMutex}
      BY <1>2, <3>1 DEF RoleInv, RoleOK
    <3>2. CASE \E op \in {"use", "open", "activate", "deactivate", "add", "remove", "delete"} : At(t, op)
      BY <1>6, <3>2
    <3>3. CASE (At(t, "lock") \/ At(t, "unlock")) /\ Arg(t) \in {StateMutex, IOMutex}
      BY <1>6, <3>3
    <3> QED BY <1>7, <3>1, <3>2, <3>3 DEF Touches
  <2> QED BY <1>3, <1>4, <1>5, <2>1
<1>8. ASSUME NEW t \in Threads, iter[t] # Nil PROVE ids[iter[t]] # {}
  <2>1. g[t].found \in Founds /\ FoundOK(t, g[t].found)
    BY <1>2 DEF FollowInv, Uses, FoundInv
  <2> QED BY <1>8, <2>1 DEF Founds, FoundOK
<1> QED BY <1>7, <1>8 DEF NoUseAfterFree

\* The invariant implies that what is published resolves.
LEMMA ReferencesResolve ==
  ASSUME ObjectInv, ReferenceInv
  PROVE  PublishedResolve
<1>1. PICK g, l, s : Refer(g, l, s)
  BY DEF ReferenceInv
<1>2. ASSUME DeviceID \in Published PROVE DeviceID \in ids["device"] /\ mem["device"] = "alive"
  <2>1. list # <<>> /\ list # <<Nil>>
    <3>1. PICK i \in DOMAIN list : list[i] = DeviceID
      BY <1>2 DEF Published
    <3>2. DeviceID # Nil
      BY DEF DeviceID, Nil
    <3>3. DOMAIN <<>> = {} /\ \A j \in DOMAIN <<Nil>> : <<Nil>>[j] = Nil
      OBVIOUS
    <3> QED BY <3>1, <3>2, <3>3
  <2>2. s \in {"creating", "listed"}
    BY <1>1, <2>1 DEF Refer, Stages, LoadInv, StageInv
  <2>3. Kept("device", s) /\ "device" \in Objects
    BY <2>2 DEF Kept, Objects
  <2>4. ids["device"] # {} /\ mem["device"] = "alive"
    BY <1>1, <2>3, StillThere
  <2> QED BY <1>1, <2>4 DEF Refer, EntryInv
<1>3. mIsActive => StreamID \in ids["device"]
  BY <1>1 DEF Refer, ActiveInv
<1> QED BY <1>2, <1>3 DEF PublishedResolve

-----------------------------------------------------------------------------
(* The steps.                                                              *)

\* What a step of one thread does to the role and to the findings of the others.
LEMMA OthersStay ==
  ASSUME NEW g, FollowInv(g), FoundInv(g), RoleInv(g), NEW t \in Threads, NEW e \in Uses,
         \A u \in Threads : u # t =>
           /\ iter'[u] = iter[u] /\ ptr'[u] = ptr[u]
           /\ at'[u] = at[u] /\ wants'[u] = wants[u]
           /\ ids' = ids \/ g[u].found = "no",
         FoundOK(t, e.found)', RoleOK(t, e.role)'
  PROVE  FoundInv([g EXCEPT ![t] = e])' /\ RoleInv([g EXCEPT ![t] = e])'
<1> DEFINE h == [g EXCEPT ![t] = e]
<1>1. h[t] = e /\ \A u \in Threads : u # t => h[u] = g[u]
  BY DEF FollowInv
<1> HIDE DEF h
<1>2. ASSUME NEW u \in Threads PROVE FoundOK(u, h[u].found)' /\ RoleOK(u, h[u].role)'
  <2>1. CASE u = t
    BY <1>1, <2>1
  <2>2. CASE u # t
    <3>1. FoundOK(u, g[u].found) /\ RoleOK(u, g[u].role)
      BY DEF FoundInv, RoleInv
    <3>2. FoundOK(u, g[u].found)'
      <4>1. CASE ids' = ids
        BY <2>2, <3>1, <4>1 DEF FoundOK
      <4>2. CASE g[u].found = "no"
        BY <2>2, <3>1, <4>2 DEF FoundOK, IDs, PlugInID, DeviceID, StreamID
      <4> QED BY <2>2, <4>1, <4>2
    <3>3. RoleOK(u, g[u].role)'
      BY <2>2, <3>1 DEF RoleOK
    <3> QED BY <1>1, <2>2, <3>2, <3>3
  <2> QED BY <2>1, <2>2
<1> QED BY <1>2 DEF FoundInv, RoleInv, h

\* Who borrows an object, after a step of one thread.
LEMMA BorrowersAfter ==
  ASSUME NEW g, FollowInv(g), NEW t \in Threads, NEW e \in Uses, NEW o,
         \A u \in Threads : u # t => ptr'[u] = ptr[u]
  PROVE  /\ e.role \in Borrowing /\ ptr'[t] = o =>
              Borrowers([g EXCEPT ![t] = e], o)' = Borrowers(g, o) \cup {t}
         /\ ~(e.role \in Borrowing /\ ptr'[t] = o) =>
              Borrowers([g EXCEPT ![t] = e], o)' = Borrowers(g, o) \ {t}
<1> DEFINE h == [g EXCEPT ![t] = e]
<1>1. h[t] = e /\ \A u \in Threads : u # t => h[u] = g[u]
  BY DEF FollowInv
<1> HIDE DEF h
<1>2. Borrowers(h, o)' = {u \in Threads : h[u].role \in Borrowing /\ ptr'[u] = o}
  BY DEF Borrowers
<1>3. /\ e.role \in Borrowing /\ ptr'[t] = o => Borrowers(h, o)' = Borrowers(g, o) \cup {t}
      /\ ~(e.role \in Borrowing /\ ptr'[t] = o) => Borrowers(h, o)' = Borrowers(g, o) \ {t}
  BY <1>1, <1>2 DEF Borrowers
<1> QED BY <1>3 DEF h

\* The account of an object that the step does not concern.
LEMMA SameAccount ==
  ASSUME NEW g, NEW s, AccountInv(g, s), FollowInv(g), NEW t \in Threads, NEW e \in Uses,
         NEW k, NEW o \in Objects, \A u \in Threads : u # t => ptr'[u] = ptr[u],
         (e.role \in Borrowing /\ ptr'[t] = o) <=> (g[t].role \in Borrowing /\ ptr[t] = o),
         ids'[o] = {} <=> ids[o] = {}, refs'[o] = refs[o],
         o = "device" => (Kept(o, s) <=> Kept(o, k))
  PROVE  Counted([g EXCEPT ![t] = e], k, o)'
<1> DEFINE h == [g EXCEPT ![t] = e]
<1>1. Counted(g, s, o)
  BY DEF AccountInv
<1>2. Borrowers(h, o)' = Borrowers(g, o)
  BY BorrowersAfter DEF Borrowers
<1> HIDE DEF h
<1>3. Kept(o, k)' <=> Kept(o, s)
  BY DEF Kept
<1>4. Counted(h, k, o)'
  BY <1>1, <1>2, <1>3 DEF Counted
<1> QED BY <1>4 DEF h

\* Moves within the roles of a caller, and of the remover before it deactivates.
Alike(r, q) ==
  \/ r = q
  \/ r \in {"none", "asked", "borrow"} /\ q \in {"none", "asked", "borrow"}
  \/ r \in {"owner", "owner asked", "both"} /\ q \in {"owner", "owner asked", "both"}

\* A step that does not alter the life of an object.
LEMMA QuietStep ==
  ASSUME ObjectInv, NEW g, NEW l, NEW s, Refer(g, l, s), NEW t \in Threads, NEW e \in Uses,
         Alike(g[t].role, e.role),
         FollowInv([g EXCEPT ![t] = e])', FoundInv([g EXCEPT ![t] = e])',
         RoleInv([g EXCEPT ![t] = e])', AccountInv([g EXCEPT ![t] = e], s)',
         \A u \in Threads : u # t => code'[u] = code[u],
         code[t] # <<>> \/ loaded \/ (code' = code /\ e = g[t]),
         UNCHANGED <<ids, mem, mIsActive, list, queue>>,
         loaded' = loaded \/ s \notin {"early", "creating"}
  PROVE  Refer([g EXCEPT ![t] = e], l, s)'
<1> DEFINE h == [g EXCEPT ![t] = e]
<1>1. h[t] = e /\ \A u \in Threads : u # t => h[u] = g[u]
  BY DEF Refer, FollowInv
<1>2. l \in HalThreads /\ s \in Stages /\ l \in Threads /\ Queue \in Threads
  BY ObjectsAssumption DEF Refer
<1>3. FollowInv(h)' /\ FoundInv(h)' /\ RoleInv(h)' /\ AccountInv(h, s)'
  OBVIOUS
<1> HIDE DEF h
<1>4. EntryInv'
  BY DEF Refer, EntryInv
<1>5. \A u \in Threads : Alike(g[u].role, h[u].role)
  BY <1>1 DEF Alike
<1>6. /\ \A u \in Threads : g[u].role \in Early \cup Creating \/ h[u].role \in Early \cup Creating =>
           h[u].role = g[u].role
      /\ \A u \in Threads : h[u].role \in Removing <=> g[u].role \in Removing
      /\ \A u \in Threads : h[u].role = "destroy" <=> g[u].role = "destroy"
      /\ \A u \in Threads : h[u].role = "inactive" <=> g[u].role = "inactive"
  BY <1>5 DEF Alike, Early, Creating, Removing
<1>7. LoadInv(h, l, s)'
  <2>1. LoadInv(g, l, s)
    BY DEF Refer
  <2>2. s \in {"early", "creating"} =>
          \A u \in Threads : u # l => h[u] = As("none") /\ code'[u] = <<>>
    BY <1>1, <2>1 DEF LoadInv
  <2>3. s \in {"early", "creating"} => h[l].role = g[l].role
    BY <1>2, <1>6, <2>1 DEF LoadInv
  <2>4. CASE s \in {"early", "creating"}
    <3>1. loaded' = loaded
      BY <2>4
    <3>2. Unmade(g[l].role)' = Unmade(g[l].role)
      BY DEF Unmade
    <3> QED BY <1>2, <1>6, <2>1, <2>2, <2>3, <2>4, <3>1, <3>2 DEF LoadInv
  <2>5. CASE s \notin {"early", "creating"}
    BY <1>6, <2>1, <2>5 DEF LoadInv
  <2> QED BY <2>4, <2>5
<1>8. StageInv(h, s)'
  BY <1>2, <1>6, ObjectsAssumption DEF Refer, StageInv
<1>9. ActiveInv(h, l, s)'
  <2>1. ActiveInv(g, l, s) /\ LoadInv(g, l, s)
    BY DEF Refer
  <2>2. s = "creating" => h[l].role = g[l].role
    BY <1>2, <1>6, <2>1 DEF LoadInv
  <2> QED BY <1>2, <1>6, <2>1, <2>2 DEF ActiveInv
<1>10. DestroyInv(h)'
  BY <1>2, <1>6 DEF Refer, DestroyInv
<1> QED BY <1>2, <1>3, <1>4, <1>7, <1>8, <1>9, <1>10 DEF Refer, h

\* The types, and the parts of the invariant that every step uses.
LEMMA ReferTypes ==
  ASSUME ObjectInv, NEW g, NEW l, NEW s, Refer(g, l, s)
  PROVE  /\ FollowInv(g) /\ FoundInv(g) /\ RoleInv(g) /\ AccountInv(g, s) /\ CodeInv
         /\ code \in [Threads -> Seq(Instructions)]
         /\ ptr \in [Threads -> Objects \cup {Nil}] /\ iter \in [Threads -> Objects \cup {Nil}]
         /\ ids \in [Objects -> SUBSET IDs] /\ refs \in [Objects -> Nat]
         /\ at \in [Threads -> Steps] /\ wants \in [Threads -> Mutexes \cup {None}]
         /\ g \in [Threads -> Uses]
  BY DEF Refer, FollowInv, ObjectInv, ObjectTypeOK, LockTypeOK, CodeInv

\* Two uses with the same role and finding are the same.
LEMMA SameUse ==
  ASSUME NEW u \in Uses, NEW v \in Uses, u.role = v.role, u.found = v.found
  PROVE  u = v
  BY DEF Uses

\* The names of IDs are not taken for anything else.
LEMMA IDsApart ==
  /\ "no" \notin IDs /\ "object" \notin IDs /\ Nil \notin Objects
  /\ PlugInID # DeviceID /\ PlugInID # StreamID /\ DeviceID # StreamID
  /\ PlugInID \in IDs /\ DeviceID \in IDs /\ StreamID \in IDs
  BY DEF IDs, PlugInID, DeviceID, StreamID, Nil, Objects

\* A thread goes on with what it holds.
LEMMA StandStill ==
  ASSUME ObjectInv, NEW g, NEW l, NEW s, Refer(g, l, s), NEW t \in Threads, NEW c,
         Leads(c, g[t], As("none")), code' = [code EXCEPT ![t] = c],
         code[t] # <<>> \/ loaded \/ code' = code,
         g[t].found = "no", RoleOK(t, g[t].role)',
         \A u \in Threads : u # t => at'[u] = at[u] /\ wants'[u] = wants[u],
         ptr' = ptr \/ (g[t].role = "none" /\ \E p : ptr' = [ptr EXCEPT ![t] = p]),
         UNCHANGED <<iter, ids, refs, mem, mIsActive, list, queue>>,
         loaded' = loaded \/ s \notin {"early", "creating"}
  PROVE  ReferenceInv'
<1> DEFINE e == g[t]
           h == [g EXCEPT ![t] = e]
<1>1. e \in Uses /\ e.found = "no" /\ (g[t].role = "none" => e.role \notin Borrowing)
  BY ReferTypes DEF Borrowing
<1>2. \A u \in Threads : u # t => ptr'[u] = ptr[u] /\ code'[u] = code[u]
  BY ReferTypes
<1>3. FollowInv(h)'
  BY <1>1, ReferTypes, FollowStep
<1>4. FoundInv(h)' /\ RoleInv(h)'
  <2>1. FoundOK(t, e.found)'
    <3>1. FoundOK(t, "no")
      BY ReferTypes DEF FoundInv
    <3> QED BY <1>1, <3>1, IDsApart DEF FoundOK
  <2>2. \A u \in Threads : u # t =>
           /\ iter'[u] = iter[u] /\ ptr'[u] = ptr[u] /\ at'[u] = at[u] /\ wants'[u] = wants[u]
           /\ ids' = ids
    BY <1>2
  <2> HIDE DEF e
  <2>3. RoleOK(t, e.role)'
    BY DEF e
  <2> QED BY <1>1, <2>1, <2>2, <2>3, ReferTypes, OthersStay
<1>5. AccountInv(h, s)'
  <2>1. \A o \in Objects : (e.role \in Borrowing /\ ptr'[t] = o) <=> (g[t].role \in Borrowing /\ ptr[t] = o)
    BY <1>1
  <2>2. \A o \in Objects : Counted(h, s, o)'
    BY <1>1, <1>2, <2>1, ReferTypes, SameAccount
  <2> QED BY <2>2 DEF AccountInv
<1>6. Alike(g[t].role, e.role)
  BY DEF Alike
<1> HIDE DEF e
<1>7. code[t] # <<>> \/ loaded \/ (code' = code /\ e = g[t])
  BY DEF e
<1>8. Refer(h, l, s)'
  BY <1>1, <1>2, <1>3, <1>4, <1>5, <1>6, <1>7, QuietStep
<1> QED BY <1>8 DEF ReferenceInv

\* The mutexes.
LEMMA UseMutex ==
  ASSUME ObjectInv, NEW g, NEW l, NEW s, Refer(g, l, s), NEW t \in Threads, Mutex(t)
  PROVE  ReferenceInv'
<1>1. UNCHANGED <<ptr, iter, ids, refs, mem, mIsActive, list, queue, loaded>>
  BY DEF Mutex, mapVars
<1>2. /\ \A u \in Threads : u # t => at'[u] = at[u] /\ wants'[u] = wants[u]
      /\ g[t].found = "no"
      /\ RoleOK(t, g[t].role)'
      /\ \E c : /\ Leads(c, g[t], As("none")) /\ code' = [code EXCEPT ![t] = c]
                /\ code[t] # <<>> \/ code' = code
  <2> USE ReferTypes
  <2>0. RoleOK(t, g[t].role)
    BY DEF RoleInv
  <2>1. CASE \E m \in Mutexes : At(t, "lock") /\ m = Arg(t) /\ Lock(t, m) /\ Advance(t)
    <3>1. PICK m \in Mutexes : At(t, "lock") /\ m = Arg(t) /\ Lock(t, m) /\ Advance(t)
      BY <2>1
    <3>2. PICK e \in Uses : UseEffect("lock", Arg(t), g[t], e) /\ Leads(Tail(code[t]), e, As("none"))
      BY <3>1, NextUse
    <3>3. /\ e.role = g[t].role /\ g[t].found = "no" /\ e.found = "no"
          /\ m \in {StateMutex, IOMutex} => g[t].role \in {"borrow", "both", "inactive"}
      BY <3>1, <3>2 DEF UseEffect
    <3>4. e = g[t]
      BY <3>3, SameUse
    <3>5. \/ UNCHANGED <<at, wants>>
          \/ at' = [at EXCEPT ![t] = "lock"] /\ wants' = [wants EXCEPT ![t] = m]
      BY <3>1 DEF Lock
    <3>6. RoleOK(t, g[t].role)'
      BY <1>1, <2>0, <3>3, <3>5 DEF RoleOK
    <3>7. code[t] # <<>> /\ code' = [code EXCEPT ![t] = Tail(code[t])]
      BY <3>1 DEF At, Advance
    <3> QED BY <3>2, <3>3, <3>4, <3>5, <3>6, <3>7
  <2>2. CASE \E m \in Mutexes : At(t, "unlock") /\ m = Arg(t) /\ Unlock(t, m) /\ Advance(t)
    <3>1. PICK m \in Mutexes : At(t, "unlock") /\ m = Arg(t) /\ Unlock(t, m) /\ Advance(t)
      BY <2>2
    <3>2. PICK e \in Uses : UseEffect("unlock", Arg(t), g[t], e) /\ Leads(Tail(code[t]), e, As("none"))
      BY <3>1, NextUse
    <3>3. /\ e.role = g[t].role /\ g[t].found = "no" /\ e.found = "no"
          /\ m \in {StateMutex, IOMutex} => g[t].role \in {"borrow", "both", "inactive"}
      BY <3>1, <3>2 DEF UseEffect
    <3>4. e = g[t]
      BY <3>3, SameUse
    <3>5. \/ UNCHANGED <<at, wants>>
          \/ at' = [at EXCEPT ![t] = "unlock"] /\ wants' = [wants EXCEPT ![t] = m]
      BY <3>1 DEF Unlock
    <3>6. RoleOK(t, g[t].role)'
      BY <1>1, <2>0, <3>3, <3>5 DEF RoleOK
    <3>7. code[t] # <<>> /\ code' = [code EXCEPT ![t] = Tail(code[t])]
      BY <3>1 DEF At, Advance
    <3> QED BY <3>2, <3>3, <3>4, <3>5, <3>6, <3>7
  <2>3. CASE LockStep(t) /\ UNCHANGED code
    <3>1. /\ at[t] # "out"
          /\ \/ at' = [at EXCEPT ![t] = "own"] /\ wants' = wants
             \/ at' = [at EXCEPT ![t] = "out"] /\ wants' = [wants EXCEPT ![t] = None]
      BY <2>3 DEF LockStep, pthread_mutex_lock, Locked, pthread_mutex_unlock
    <3>2. g[t].found = "no"
      BY <3>1 DEF FoundInv, FoundOK
    <3>3. RoleOK(t, g[t].role)'
      BY <1>1, <2>0, <3>1 DEF RoleOK
    <3>4. code' = [code EXCEPT ![t] = code[t]] /\ Leads(code[t], g[t], As("none"))
      BY <2>3 DEF FollowInv
    <3> QED BY <2>3, <3>1, <3>2, <3>3, <3>4
  <2> QED BY <2>1, <2>2, <2>3 DEF Mutex
<1>3. PICK c : /\ Leads(c, g[t], As("none")) /\ code' = [code EXCEPT ![t] = c]
               /\ code[t] # <<>> \/ code' = code
  BY <1>2
<1>4. g[t].found = "no" /\ RoleOK(t, g[t].role)'
  BY <1>2
<1>5. \A u \in Threads : u # t => at'[u] = at[u] /\ wants'[u] = wants[u]
  BY <1>2
<1> QED BY <1>1, <1>3, <1>4, <1>5, StandStill

\* An instruction that is not of a mutex, and the use that it leads to.
LEMMA Advanced ==
  ASSUME ObjectInv, NEW g, NEW l, NEW s, Refer(g, l, s), NEW t \in Threads, NEW op, At(t, op),
         Advance(t), UNCHANGED lockVars
  PROVE  /\ code[t] # <<>> /\ at' = at /\ wants' = wants /\ at[t] = "out" /\ g[t] \in Uses
         /\ \A u \in Threads : u # t => code'[u] = code[u]
         /\ \E e \in Uses : UseEffect(op, Arg(t), g[t], e) /\ FollowInv([g EXCEPT ![t] = e])'
<1>1. PICK e \in Uses : UseEffect(op, Arg(t), g[t], e) /\ Leads(Tail(code[t]), e, As("none"))
  BY NextUse, ReferTypes
<1>2. code' = [code EXCEPT ![t] = Tail(code[t])]
  BY DEF Advance
<1>3. FollowInv([g EXCEPT ![t] = e])'
  BY <1>1, <1>2, ReferTypes, FollowStep
<1>4. code[t] # <<>> /\ at[t] = "out" /\ at' = at /\ wants' = wants
  BY DEF At, lockVars
<1>5. \A u \in Threads : u # t => code'[u] = code[u]
  BY <1>2, ReferTypes
<1> QED BY <1>1, <1>3, <1>4, <1>5, ReferTypes

\* A search in the map.
LEMMA UseFind ==
  ASSUME ObjectInv, NEW g, NEW l, NEW s, Refer(g, l, s), NEW t \in Threads, Find(t)
  PROVE  ReferenceInv'
<1>1. /\ UNCHANGED <<ptr, ids, refs, mem, mIsActive, list, queue, loaded>> /\ UNCHANGED lockVars
      /\ Advance(t)
  BY DEF Find, mapVars
<1>2. PICK op \in {"find ID", "find object"} :
        /\ At(t, op)
        /\ op = "find ID" => iter' = [iter EXCEPT ![t] = IF \E o \in Objects : Arg(t) \in ids[o]
                                         THEN CHOOSE o \in Objects : Arg(t) \in ids[o] ELSE Nil]
        /\ op = "find object" => iter' = [iter EXCEPT ![t] = IF \E o \in Objects : o = ptr[t] /\ ids[o] # {}
                                         THEN ptr[t] ELSE Nil]
  BY DEF Find
<1>3. PICK e \in Uses : UseEffect(op, Arg(t), g[t], e) /\ FollowInv([g EXCEPT ![t] = e])'
  BY <1>1, <1>2, Advanced
<1>4. /\ code[t] # <<>> /\ at' = at /\ wants' = wants /\ at[t] = "out" /\ g[t] \in Uses
      /\ \A u \in Threads : u # t => code'[u] = code[u]
  BY <1>1, <1>2, Advanced
<1>5. /\ e.role = g[t].role
      /\ op = "find ID" => e.found = Arg(t)
      /\ op = "find object" => e.found = "object"
  BY <1>2, <1>3 DEF UseEffect
<1>6. op = "find ID" => Arg(t) \in IDs
  BY <1>2, ArgTypes, ReferTypes
<1>7. FoundOK(t, e.found)'
  <2>1. CASE op = "find ID"
    <3> DEFINE a == Arg(t)
    <3>1. e.found = a /\ a \in IDs /\ a # "no" /\ a # "object"
      BY <1>5, <1>6, <2>1, IDsApart
    <3>2. iter'[t] = IF \E o \in Objects : a \in ids[o] THEN CHOOSE o \in Objects : a \in ids[o] ELSE Nil
      BY <1>2, <2>1, ReferTypes
    <3> HIDE DEF a
    <3>3. IF iter'[t] = Nil THEN \A o \in Objects : a \notin ids[o] ELSE a \in ids[iter'[t]]
      BY <3>2, IDsApart
    <3> QED BY <1>1, <1>4, <3>1, <3>3 DEF FoundOK
  <2>2. CASE op = "find object"
    <3>1. e.found = "object" /\ e.found \notin IDs
      BY <1>5, <2>2, IDsApart
    <3>2. iter'[t] = IF \E o \in Objects : o = ptr[t] /\ ids[o] # {} THEN ptr[t] ELSE Nil
      BY <1>2, <2>2, ReferTypes
    <3>3. IF iter'[t] = Nil THEN ptr[t] = Nil \/ ids[ptr[t]] = {}
          ELSE iter'[t] = ptr[t] /\ ids[iter'[t]] # {}
      BY <3>2, IDsApart, ReferTypes
    <3> QED BY <1>1, <1>4, <3>1, <3>3 DEF FoundOK
  <2> QED BY <1>2, <2>1, <2>2
<1>8. RoleOK(t, e.role)'
  <2>1. RoleOK(t, g[t].role)
    BY ReferTypes DEF RoleInv
  <2> QED BY <1>1, <1>4, <1>5, <2>1 DEF RoleOK
<1>9. \A u \in Threads : u # t =>
         /\ iter'[u] = iter[u] /\ ptr'[u] = ptr[u] /\ at'[u] = at[u] /\ wants'[u] = wants[u]
         /\ ids' = ids
  BY <1>1, <1>2, <1>4, ReferTypes
<1>10. FoundInv([g EXCEPT ![t] = e])' /\ RoleInv([g EXCEPT ![t] = e])'
  BY <1>7, <1>8, <1>9, ReferTypes, OthersStay
<1>11. AccountInv([g EXCEPT ![t] = e], s)'
  <2>1. \A o \in Objects : Counted([g EXCEPT ![t] = e], s, o)'
    BY <1>1, <1>5, ReferTypes, SameAccount
  <2> QED BY <2>1 DEF AccountInv
<1>12. Refer([g EXCEPT ![t] = e], l, s)'
  BY <1>1, <1>3, <1>4, <1>5, <1>10, <1>11, QuietStep DEF Alike
<1> QED BY <1>12 DEF ReferenceInv

\* An entry point looks whether it has got an object, and works on it.
LEMMA UseWork ==
  ASSUME ObjectInv, NEW g, NEW l, NEW s, Refer(g, l, s), NEW t \in Threads, Work(t)
  PROVE  ReferenceInv'
<1>1. UNCHANGED <<ptr, iter, ids, refs, mem, mIsActive, list, queue, loaded, at, wants>>
  BY DEF Work, mapVars, lockVars
<1>2. PICK op \in {"check", "use"} :
        At(t, op) /\ (code' = [code EXCEPT ![t] = Tail(@)]
                        \/ (code' = [code EXCEPT ![t] = <<>>] /\ op = "check" /\ ptr[t] = Nil))
  BY DEF Work, Advance
<1>3. PICK e \in Uses : UseEffect(op, Arg(t), g[t], e) /\ Leads(Tail(code[t]), e, As("none"))
  BY <1>2, NextUse, ReferTypes
<1>4. /\ g[t].found = "no" /\ e.found = "no"
      /\ op = "use" => g[t].role = "borrow" /\ e.role = "borrow"
      /\ op = "check" => \/ g[t].role = "asked" /\ e.role = "borrow"
                         \/ g[t].role = "owner asked" /\ e.role = "both"
  BY <1>2, <1>3 DEF UseEffect, Move
<1>5. g[t].role = "owner asked" => ptr[t] = "device"
  BY ReferTypes DEF RoleInv, RoleOK
<1>6. code[t] # <<>> /\ at[t] = "out" /\ \A u \in Threads : u # t => code'[u] = code[u]
  BY <1>2, ReferTypes DEF At
<1>7. ASSUME NEW d \in Uses, NEW c, Leads(c, d, As("none")), code' = [code EXCEPT ![t] = c],
             d.found = "no", Alike(g[t].role, d.role), d.role # "inactive",
             RoleOK(t, d.role)', (d.role \in Borrowing /\ ptr[t] # Nil) <=> (g[t].role \in Borrowing /\ ptr[t] # Nil)
      PROVE  ReferenceInv'
  <2>1. FollowInv([g EXCEPT ![t] = d])'
    BY <1>7, ReferTypes, FollowStep
  <2>2. FoundOK(t, d.found)'
    BY <1>1, <1>4, <1>7, ReferTypes, IDsApart DEF FoundInv, FoundOK
  <2>3. FoundInv([g EXCEPT ![t] = d])' /\ RoleInv([g EXCEPT ![t] = d])'
    BY <1>1, <1>7, <2>2, ReferTypes, OthersStay
  <2>4. AccountInv([g EXCEPT ![t] = d], s)'
    <3>1. \A o \in Objects : Counted([g EXCEPT ![t] = d], s, o)'
      BY <1>1, <1>7, ReferTypes, SameAccount, IDsApart
    <3> QED BY <3>1 DEF AccountInv
  <2>5. Refer([g EXCEPT ![t] = d], l, s)'
    BY <1>1, <1>6, <1>7, <2>1, <2>3, <2>4, QuietStep
  <2> QED BY <2>5 DEF ReferenceInv
<1>8. CASE op = "check" /\ ptr[t] = Nil
  <2>1. g[t].role = "asked"
    BY <1>4, <1>5, <1>8 DEF Nil
  <2>2. As("none") \in Uses /\ As("none").role = "none" /\ As("none").found = "no"
    BY AsType, TheRoles
  <2>3. code' = [code EXCEPT ![t] = <<>>]
    BY <1>2, <1>8 DEF Work, At
  <2>4. RoleOK(t, "none")'
    BY <1>1, <1>6 DEF RoleOK, Creating
  <2>5. Alike("asked", "none")
    BY DEF Alike
  <2> QED BY <1>7, <1>8, <2>1, <2>2, <2>3, <2>4, <2>5, LeadsCalls
<1>9. CASE ~(op = "check" /\ ptr[t] = Nil)
  <2>1. code' = [code EXCEPT ![t] = Tail(code[t])]
    BY <1>2, <1>9
  <2>2. RoleOK(t, e.role)'
    BY <1>1, <1>2, <1>4, <1>5, <1>6, <1>9, ReferTypes DEF RoleInv, RoleOK, Creating
  <2>3. Alike(g[t].role, e.role) /\ e.role # "inactive"
    BY <1>2, <1>4 DEF Alike
  <2>4. e.role \in Borrowing /\ g[t].role \in Borrowing
    BY <1>2, <1>4 DEF Borrowing
  <2> QED BY <1>3, <1>4, <1>7, <2>1, <2>2, <2>3, <2>4
<1> QED BY <1>8, <1>9

\* The device opens the shared memory, or its creation fails.
LEMMA UseOpen ==
  ASSUME ObjectInv, NEW g, NEW l, NEW s, Refer(g, l, s), NEW t \in Threads, HW_Open(t)
  PROVE  ReferenceInv'
<1>1. UNCHANGED <<ptr, iter, ids, refs, mem, mIsActive, list, queue, loaded, at, wants>>
  BY DEF HW_Open, mapVars, lockVars
<1>2. At(t, "open") /\ (code' = [code EXCEPT ![t] = Tail(code[t])] \/ code' = [code EXCEPT ![t] = CreateFailed])
  BY DEF HW_Open, Advance
<1>3. PICK e \in Uses : UseEffect("open", Arg(t), g[t], e) /\ Leads(Tail(code[t]), e, As("none"))
  BY <1>2, NextUse, ReferTypes
<1>4. g[t].role = "listed" /\ g[t].found = "no" /\ e.role = "listed" /\ e.found = "no"
  BY <1>3 DEF UseEffect, Move
<1>5. e = g[t] /\ g[t] = As("listed")
  <2>1. g[t] \in Uses /\ As("listed") \in Uses /\ As("listed").role = "listed" /\ As("listed").found = "no"
    BY ReferTypes, AsType, TheRoles
  <2> QED BY <1>4, <2>1, SameUse
<1>6. RoleOK(t, g[t].role)'
  <2>1. RoleOK(t, g[t].role)
    BY ReferTypes DEF RoleInv
  <2> QED BY <1>1, <2>1 DEF RoleOK
<1>7. code[t] # <<>>
  BY <1>2 DEF At
<1>8. \E c : Leads(c, g[t], As("none")) /\ code' = [code EXCEPT ![t] = c]
  BY <1>2, <1>3, <1>5, LeadsCreateFailed
<1> QED BY <1>1, <1>4, <1>6, <1>7, <1>8, StandStill

\* coreaudiod calls in.
LEMMA UseCall ==
  ASSUME ObjectInv, NEW g, NEW l, NEW s, Refer(g, l, s), NEW t \in HalThreads, Call(t)
  PROVE  ReferenceInv'
<1>1. UNCHANGED <<iter, ids, refs, mem, mIsActive, list, queue, loaded, at, wants>> /\ t \in Threads
  BY ObjectsAssumption DEF Call, mapVars, lockVars
<1>2. PICK c \in {StateCall(DeviceID), StateCall(StreamID), IOCall, DeviceList, Deactivate} :
        code' = [code EXCEPT ![t] = c]
  BY DEF Call
<1>3. loaded /\ code[t] = <<>> /\ at[t] = "out" /\ ptr' = [ptr EXCEPT ![t] = Nil]
  BY DEF Call, Free
<1>4. g[t] = As("none") /\ g[t].role = "none" /\ g[t].found = "no"
  <2>1. t \in Threads /\ code[t] = <<>> /\ FollowInv(g)
    BY <1>1, <1>3, ReferTypes
  <2>2. g[t] = As("none")
    BY <2>1, NoProgram
  <2>3. As("none").role = "none" /\ As("none").found = "no"
    BY AsType, TheRoles
  <2> QED BY <2>2, <2>3
<1>5. RoleOK(t, g[t].role)'
  BY <1>1, <1>3, <1>4 DEF RoleOK, Creating
<1>6. Leads(c, g[t], As("none"))
  BY <1>4, LeadsCalls
<1> QED BY <1>1, <1>2, <1>3, <1>4, <1>5, <1>6, StandStill

\* Only the queue's thread removes or destroys, and at one stage.
LEMMA RemovingStage ==
  ASSUME NEW g, NEW l, NEW s, Refer(g, l, s), NEW t \in Threads
  PROVE  /\ g[t].role \in Removing => t = Queue /\ s = "removing"
         /\ g[t].role = "destroy" => t = Queue
  BY ObjectsAssumption DEF Refer, StageInv

\* A device ID is found at the device.
LEMMA FoundWhere ==
  ASSUME ObjectInv, NEW g, NEW l, NEW s, Refer(g, l, s), NEW t \in Threads, g[t].found \in IDs
  PROVE  /\ iter[t] = "plug-in" => g[t].found = PlugInID
         /\ iter[t] = "device" => g[t].found \in {DeviceID, StreamID}
         /\ iter[t] = Nil => \A o \in Objects : g[t].found \notin ids[o]
         /\ iter[t] # Nil => iter[t] \in Objects /\ g[t].found \in ids[iter[t]]
<1>1. FoundOK(t, g[t].found)
  BY DEF Refer, FoundInv
<1>2. iter[t] \in Objects \cup {Nil}
  BY ReferTypes
<1>3. iter[t] # Nil => iter[t] \in Objects /\ g[t].found \in ids[iter[t]]
  BY <1>1, <1>2 DEF FoundOK
<1>4. iter[t] = Nil => \A o \in Objects : g[t].found \notin ids[o]
  BY <1>1 DEF FoundOK
<1> QED BY <1>3, <1>4, IDsApart DEF Refer, EntryInv, Objects

\* _CopyObjectByObjectID adds a reference to what it has found.
LEMMA UseCopy ==
  ASSUME ObjectInv, NEW g, NEW l, NEW s, Refer(g, l, s), NEW t \in Threads, Copy(t)
  PROVE  ReferenceInv'
<1>1. /\ UNCHANGED <<ids, mem, mIsActive, list, queue, loaded>> /\ UNCHANGED lockVars
      /\ Advance(t) /\ At(t, "copy")
      /\ ptr' = [ptr EXCEPT ![t] = iter[t]] /\ iter' = [iter EXCEPT ![t] = Nil]
      /\ refs' = IF iter[t] # Nil THEN [refs EXCEPT ![iter[t]] = @ + 1] ELSE refs
  BY DEF Copy
<1>2. PICK e \in Uses : UseEffect("copy", Arg(t), g[t], e) /\ FollowInv([g EXCEPT ![t] = e])'
  BY <1>1, Advanced
<1>3. /\ code[t] # <<>> /\ at' = at /\ wants' = wants /\ at[t] = "out" /\ g[t] \in Uses
      /\ \A u \in Threads : u # t => code'[u] = code[u]
  BY <1>1, Advanced
<1>4. /\ g[t].found = Arg(t) /\ e.found = "no"
      /\ \/ g[t].role = "none" /\ e.role = "asked"
         \/ Arg(t) = DeviceID /\ g[t].role = "owner" /\ e.role = "owner asked"
  BY <1>2 DEF UseEffect, Move
<1>5. Arg(t) \in IDs
  BY <1>1, ArgTypes, ReferTypes
<1>6. /\ iter[t] = Nil => \A o \in Objects : Arg(t) \notin ids[o]
      /\ iter[t] # Nil => iter[t] \in Objects /\ Arg(t) \in ids[iter[t]]
      /\ iter[t] = "plug-in" => Arg(t) = PlugInID
  <2>1. g[t].found \in IDs
    BY <1>4, <1>5
  <2>2. /\ iter[t] = Nil => \A o \in Objects : g[t].found \notin ids[o]
        /\ iter[t] # Nil => iter[t] \in Objects /\ g[t].found \in ids[iter[t]]
        /\ iter[t] = "plug-in" => g[t].found = PlugInID
    BY <2>1, FoundWhere
  <2> QED BY <1>4, <2>2
<1>7. ptr'[t] = iter[t] /\ iter'[t] = Nil
      /\ \A u \in Threads : u # t => ptr'[u] = ptr[u] /\ iter'[u] = iter[u]
  BY <1>1, ReferTypes
<1>8. e.role = "owner asked" => ptr'[t] = "device"
  <2> SUFFICES ASSUME g[t].role = "owner", Arg(t) = DeviceID PROVE iter[t] = "device"
    BY <1>4, <1>7
  <2>1. s = "removing" /\ "device" \in Objects
    BY RemovingStage DEF Removing, Objects
  <2>2. ids["device"] # {}
    BY <2>1, StillThere DEF Kept
  <2>3. DeviceID \in ids["device"]
    BY <2>2 DEF Refer, EntryInv
  <2>4. iter[t] # Nil /\ iter[t] # "plug-in"
    BY <1>6, <2>1, <2>3, IDsApart
  <2> QED BY <1>6, <2>4 DEF Objects
<1>9. RoleOK(t, e.role)'
  BY <1>3, <1>4, <1>8 DEF RoleOK, Creating
<1>10. FoundOK(t, e.found)'
  BY <1>4, <1>7, IDsApart DEF FoundOK
<1>11. FoundInv([g EXCEPT ![t] = e])' /\ RoleInv([g EXCEPT ![t] = e])'
  BY <1>1, <1>3, <1>7, <1>9, <1>10, ReferTypes, OthersStay
<1>12. e.role \in Borrowing /\ g[t].role \notin Borrowing
  BY <1>4 DEF Borrowing
<1>13. ASSUME NEW o \in Objects PROVE Counted([g EXCEPT ![t] = e], s, o)'
  <2>1. CASE iter[t] # o
    <3>1. (e.role \in Borrowing /\ ptr'[t] = o) <=> (g[t].role \in Borrowing /\ ptr[t] = o)
      BY <1>7, <1>12, <2>1
    <3>2. ids'[o] = ids[o] /\ refs'[o] = refs[o]
      BY <1>1, <2>1, ReferTypes
    <3> QED BY <1>7, <3>1, <3>2, ReferTypes, SameAccount
  <2>2. CASE iter[t] = o
    <3> DEFINE h == [g EXCEPT ![t] = e]
               B == Borrowers(g, o)
    <3>1. Counted(g, s, o) /\ refs[o] \in Nat
      BY ReferTypes DEF AccountInv
    <3>2. Borrowers(h, o)' = B \cup {t}
      <4>1. FollowInv(g) /\ ptr'[t] = o /\ \A u \in Threads : u # t => ptr'[u] = ptr[u]
        BY <1>7, <2>2, ReferTypes
      <4> QED BY <1>12, <4>1, BorrowersAfter
    <3>3. t \notin B /\ IsFiniteSet(B)
      BY <1>12, <3>1 DEF Borrowers, Counted
    <3>4. IsFiniteSet(B \cup {t}) /\ Cardinality(B \cup {t}) = Cardinality(B) + 1 /\ Cardinality(B) \in Nat
      BY <3>3, FS_AddElement, FS_CardinalityType
    <3>5. refs'[o] = refs[o] + 1 /\ ids[o] # {}
      BY <1>1, <1>6, <2>2, IDsApart, ReferTypes
    <3>6. Kept(o, s)' <=> Kept(o, s)
      BY <1>1 DEF Kept
    <3> HIDE DEF h, B
    <3>7. refs[o] >= Cardinality(B) + (IF Kept(o, s) THEN 1 ELSE 0)
      BY <3>1 DEF Counted, B
    <3>8. Counted(h, s, o)'
      BY <1>1, <3>1, <3>2, <3>4, <3>5, <3>6, <3>7 DEF Counted
    <3> QED BY <3>8 DEF h
  <2> QED BY <2>1, <2>2
<1>14. AccountInv([g EXCEPT ![t] = e], s)'
  BY <1>13 DEF AccountInv
<1>15. Alike(g[t].role, e.role)
  BY <1>4 DEF Alike
<1>16. Refer([g EXCEPT ![t] = e], l, s)'
  BY <1>1, <1>2, <1>3, <1>11, <1>14, <1>15, QuietStep
<1> QED BY <1>16 DEF ReferenceInv

\* The empty sequence.
LEMMA EmptyDomain == DOMAIN <<>> = {}
  OBVIOUS

\* The loading thread goes on, and the device is not in the list's hands yet.
LEMMA LoaderStep ==
  ASSUME NEW g, NEW l, NEW s, Refer(g, l, s), s \in {"early", "creating"}, NEW e \in Uses,
         NEW k \in {"early", "creating"}, e.role \in (IF k = "early" THEN Early ELSE Creating),
         FollowInv([g EXCEPT ![l] = e])', FoundInv([g EXCEPT ![l] = e])',
         RoleInv([g EXCEPT ![l] = e])', AccountInv([g EXCEPT ![l] = e], k)', EntryInv',
         \A u \in Threads : u # l => code'[u] = code[u],
         UNCHANGED <<queue, loaded>>,
         k = "early" => /\ list' = <<>> /\ ids'["device"] = {}
                        /\ e.role = "new plug-in" => mem'["plug-in"] = "alive"
                        /\ e.role = "new device" => mem'["device"] = "alive"
                        /\ Unmade(e.role)',
         k = "creating" => /\ list' = IF e.role = "mapped" THEN <<>> ELSE <<DeviceID>>
                           /\ e.role = "opened" => StreamID \in ids'["device"],
         mIsActive' => e.role = "opened"
  PROVE  Refer([g EXCEPT ![l] = e], l, k)'
<1> DEFINE h == [g EXCEPT ![l] = e]
<1>1. l \in HalThreads /\ l \in Threads /\ Queue \in Threads /\ Queue # l /\ k \in Stages
  BY ObjectsAssumption DEF Refer, Stages
<1>2. h[l] = e /\ \A u \in Threads : u # l => h[u] = g[u]
  BY <1>1 DEF Refer, FollowInv
<1>3. FollowInv(h)' /\ FoundInv(h)' /\ RoleInv(h)' /\ AccountInv(h, k)'
  OBVIOUS
<1> HIDE DEF h
<1>4. /\ ~loaded' /\ queue' = <<>>
      /\ \A u \in Threads : u # l => h[u] = As("none") /\ code'[u] = <<>>
  BY <1>2 DEF Refer, LoadInv
<1>5. As("none").role = "none"
  BY AsType, TheRoles
<1>6. LoadInv(h, l, k)'
  <2>1. CASE k = "early"
    BY <1>2, <1>4, <2>1 DEF LoadInv
  <2>2. CASE k = "creating"
    BY <1>2, <1>4, <2>2 DEF LoadInv
  <2> QED BY <2>1, <2>2
<1>7. /\ h[Queue].role = "none"
      /\ \A u \in HalThreads : h[u].role \notin Removing \cup {"destroy"}
  <2>1. e.role \notin Removing \cup {"destroy"} /\ "none" \notin Removing \cup {"destroy"}
    BY DEF Early, Creating, Removing
  <2> QED BY <1>1, <1>2, <1>4, <1>5, <2>1, ObjectsAssumption
<1>8. DOMAIN queue' = {}
  BY <1>4, EmptyDomain, Zenon
<1>9. StageInv(h, k)'
  BY <1>7, <1>8 DEF StageInv, Removing
<1>10. ActiveInv(h, l, k)'
  <2>1. mIsActive' => e.role = "opened" /\ k = "creating"
    BY DEF Early
  <2> QED BY <1>2, <2>1 DEF ActiveInv
<1>11. DestroyInv(h)'
  BY <1>7, <1>8 DEF DestroyInv
<1> QED BY <1>1, <1>3, <1>6, <1>9, <1>10, <1>11 DEF Refer, h

\* Nobody creates the device any more.
LEMMA LaterStep ==
  ASSUME NEW g, NEW l, NEW s, Refer(g, l, s), NEW t \in Threads, NEW e \in Uses,
         t = l \/ s \notin {"early", "creating"}, e.role \notin Early \cup Creating,
         NEW k \in {"listed", "queued", "removing", "gone"},
         FollowInv([g EXCEPT ![t] = e])', FoundInv([g EXCEPT ![t] = e])',
         RoleInv([g EXCEPT ![t] = e])', AccountInv([g EXCEPT ![t] = e], k)', EntryInv',
         StageInv([g EXCEPT ![t] = e], k)', ActiveInv([g EXCEPT ![t] = e], l, k)',
         DestroyInv([g EXCEPT ![t] = e])'
  PROVE  ReferenceInv'
<1> DEFINE h == [g EXCEPT ![t] = e]
<1>1. h[t] = e /\ \A u \in Threads : u # t => h[u] = g[u]
  BY DEF Refer, FollowInv
<1>2. /\ FollowInv(h)' /\ FoundInv(h)' /\ RoleInv(h)' /\ AccountInv(h, k)'
      /\ StageInv(h, k)' /\ ActiveInv(h, l, k)' /\ DestroyInv(h)'
  OBVIOUS
<1> HIDE DEF h
<1>3. \A u \in Threads : h[u].role \notin Early \cup Creating
  <2>1. ASSUME NEW u \in Threads, u # t PROVE g[u].role \notin Early \cup Creating
    BY <2>1, CreatingStage
  <2> QED BY <1>1, <2>1
<1>4. LoadInv(h, l, k)'
  BY <1>3 DEF LoadInv
<1>5. l \in HalThreads /\ k \in Stages
  BY DEF Refer, Stages
<1> QED BY <1>2, <1>4, <1>5 DEF Refer, ReferenceInv

\* An object is constructed.
LEMMA UseNew ==
  ASSUME ObjectInv, NEW g, NEW l, NEW s, Refer(g, l, s), NEW t \in Threads, New(t)
  PROVE  ReferenceInv'
<1>1. /\ UNCHANGED <<iter, ids, refs, mIsActive, list, queue, loaded>> /\ UNCHANGED lockVars
      /\ Advance(t) /\ At(t, "new")
      /\ mem' = [mem EXCEPT ![Arg(t)] = "alive"] /\ ptr' = [ptr EXCEPT ![t] = Arg(t)]
  BY DEF New, mapVars
<1>2. PICK e \in Uses : UseEffect("new", Arg(t), g[t], e) /\ FollowInv([g EXCEPT ![t] = e])'
  BY <1>1, Advanced
<1>3. /\ code[t] # <<>> /\ at' = at /\ wants' = wants /\ at[t] = "out" /\ g[t] \in Uses
      /\ \A u \in Threads : u # t => code'[u] = code[u]
  BY <1>1, Advanced
<1>4. /\ g[t].found = "no" /\ e.found = "no"
      /\ \/ Arg(t) = "plug-in" /\ g[t].role = "start" /\ e.role = "new plug-in"
         \/ Arg(t) = "device" /\ g[t].role = "made plug-in" /\ e.role = "new device"
  BY <1>2 DEF UseEffect, Move
<1>5. t = l /\ s = "early" /\ e.role \in Early
  <2>1. g[t].role \in Early /\ e.role \in Early
    BY <1>4 DEF Early
  <2> QED BY <2>1, CreatingStage
<1>6. ptr'[t] = Arg(t) /\ \A u \in Threads : u # t => ptr'[u] = ptr[u]
  BY <1>1, ReferTypes
<1>7. mem'[Arg(t)] = "alive" /\ \A o \in Objects : mem[o] = "alive" => mem'[o] = "alive"
  <2>1. mem \in [Objects -> {"none", "alive", "deleted"}] /\ Arg(t) \in Objects
    BY <1>4 DEF ObjectInv, ObjectTypeOK, Objects
  <2> QED BY <1>1, <2>1
<1>8. FoundOK(t, e.found)'
  BY <1>1, <1>4, ReferTypes, IDsApart DEF FoundInv, FoundOK
<1>9. RoleOK(t, e.role)'
  BY <1>3, <1>4, <1>6 DEF RoleOK, Creating
<1>10. FoundInv([g EXCEPT ![t] = e])' /\ RoleInv([g EXCEPT ![t] = e])'
  BY <1>1, <1>3, <1>6, <1>8, <1>9, ReferTypes, OthersStay
<1>11. AccountInv([g EXCEPT ![t] = e], s)'
  <2>1. e.role \notin Borrowing /\ g[t].role \notin Borrowing
    BY <1>4 DEF Borrowing
  <2>2. \A o \in Objects : Counted([g EXCEPT ![t] = e], s, o)'
    BY <1>1, <1>6, <2>1, ReferTypes, SameAccount
  <2> QED BY <2>2 DEF AccountInv
<1>12. EntryInv'
  BY <1>1, <1>7 DEF Refer, EntryInv
<1>13. /\ list' = <<>> /\ ids'["device"] = {} /\ ~mIsActive'
       /\ e.role = "new plug-in" => mem'["plug-in"] = "alive"
       /\ e.role = "new device" => mem'["device"] = "alive"
       /\ Unmade(e.role)'
  <2>1. list = <<>> /\ ids["device"] = {} /\ ~mIsActive
    BY <1>5 DEF Refer, LoadInv, ActiveInv
  <2>2. Unmade(e.role)'
    <3>1. Unmade(g[t].role)
      BY <1>5 DEF Refer, LoadInv
    <3>2. mem'["device"] = mem["device"] \/ Arg(t) = "device"
      BY <1>1, <1>4 DEF ObjectInv, ObjectTypeOK, Objects
    <3> QED BY <1>4, <3>1, <3>2 DEF Unmade
  <2> QED BY <1>1, <1>4, <1>7, <2>1, <2>2
<1>14. Refer([g EXCEPT ![t] = e], l, s)'
  BY <1>1, <1>2, <1>3, <1>5, <1>10, <1>11, <1>12, <1>13, LoaderStep
<1> QED BY <1>14 DEF ReferenceInv

\* While the plug-in is loaded nothing is borrowed.
LEMMA NoBorrowersYet ==
  ASSUME NEW g, NEW l, NEW s, Refer(g, l, s), s \in {"early", "creating"}
  PROVE  \A t \in Threads : g[t].role \notin Borrowing
<1>1. As("none").role = "none"
  BY AsType, TheRoles
<1>2. "none" \notin Borrowing /\ Borrowing \cap Early = {} /\ Borrowing \cap Creating = {}
  BY DEF Borrowing, Early, Creating
<1>3. LoadInv(g, l, s)
  BY DEF Refer
<1>4. g[l].role \in Early \cup Creating /\ \A t \in Threads : t # l => g[t] = As("none")
  BY <1>3 DEF LoadInv
<1> QED BY <1>1, <1>2, <1>4

\* MapObject: the plug-in and the device get their entries, with a reference,
\* and the device a stream ID.
LEMMA UseMap ==
  ASSUME ObjectInv, NEW g, NEW l, NEW s, Refer(g, l, s), NEW t \in Threads, Map(t)
  PROVE  ReferenceInv'
<1>1. /\ UNCHANGED <<ptr, mem, mIsActive, list, queue, loaded>> /\ UNCHANGED lockVars
      /\ Advance(t) /\ At(t, "map") /\ iter' = [iter EXCEPT ![t] = Nil]
      /\ iter[t] = Nil => /\ ids' = [ids EXCEPT ![ptr[t]] = @ \cup {Arg(t)}]
                          /\ ids[ptr[t]] = {} => refs' = [refs EXCEPT ![ptr[t]] = 1]
                          /\ ids[ptr[t]] # {} => refs' = refs
      /\ iter[t] # Nil => ids' = ids /\ refs' = refs
  BY DEF Map, mapVars
<1>2. PICK e \in Uses : UseEffect("map", Arg(t), g[t], e) /\ FollowInv([g EXCEPT ![t] = e])'
  BY <1>1, Advanced
<1>3. /\ code[t] # <<>> /\ at' = at /\ wants' = wants /\ at[t] = "out" /\ g[t] \in Uses
      /\ \A u \in Threads : u # t => code'[u] = code[u]
  BY <1>1, Advanced
<1>4. /\ g[t].found = Arg(t) /\ e.found = "no"
      /\ \/ Arg(t) = PlugInID /\ g[t].role = "new plug-in" /\ e.role = "made plug-in"
         \/ Arg(t) = DeviceID /\ g[t].role = "new device" /\ e.role = "mapped"
         \/ Arg(t) = StreamID /\ g[t].role = "listed" /\ e.role = "opened"
  BY <1>2 DEF UseEffect, Move
<1> DEFINE k == IF e.role \in Early THEN "early" ELSE "creating"
           o == ptr[t]
<1>5. /\ t = l /\ s = IF g[t].role = "listed" THEN "creating" ELSE "early"
      /\ e.role \in (IF k = "early" THEN Early ELSE Creating)
      /\ k = IF e.role = "made plug-in" THEN "early" ELSE "creating"
  <2>1. /\ g[t].role \in (IF g[t].role = "listed" THEN Creating ELSE Early)
        /\ e.role \in (IF e.role = "made plug-in" THEN Early ELSE Creating)
        /\ e.role # "made plug-in" => e.role \notin Early
    BY <1>4 DEF Early, Creating
  <2> QED BY <2>1, CreatingStage
<1>6. /\ o \in Objects /\ mem[o] = "alive"
      /\ o = IF e.role = "made plug-in" THEN "plug-in" ELSE "device"
  <2>1. RoleOK(t, g[t].role) /\ LoadInv(g, l, s)
    BY ReferTypes DEF RoleInv, Refer
  <2>2. o = IF e.role = "made plug-in" THEN "plug-in" ELSE "device"
    BY <1>4, <2>1 DEF RoleOK, Creating
  <2>3. g[t].role # "listed" => mem[o] = "alive"
    BY <1>4, <1>5, <2>1, <2>2 DEF LoadInv
  <2>4. "device" \in Objects /\ "plug-in" \in Objects
    BY DEF Objects
  <2>5. g[t].role = "listed" => mem["device"] = "alive"
    BY <1>5, <2>4, StillThere DEF Kept
  <2> QED BY <1>4, <2>2, <2>3, <2>4, <2>5
<1>7. /\ e.role = "mapped" => ids["device"] = {}
      /\ e.role = "opened" => ids["device"] # {}
  <2>1. "device" \in Objects
    BY DEF Objects
  <2>2. e.role = "opened" => Kept("device", s)
    BY <1>4, <1>5 DEF Kept
  <2>3. e.role = "mapped" => s = "early"
    BY <1>4, <1>5
  <2> QED BY <2>1, <2>2, <2>3, StillThere DEF Refer, LoadInv
<1>8. iter[t] # Nil => Arg(t) \in ids[o]
  <2>1. Arg(t) \in IDs /\ g[t].found = Arg(t)
    BY <1>4, IDsApart
  <2>2. /\ iter[t] = "plug-in" => Arg(t) = PlugInID
        /\ iter[t] = "device" => Arg(t) \in {DeviceID, StreamID}
        /\ iter[t] # Nil => iter[t] \in Objects /\ Arg(t) \in ids[iter[t]]
    BY <2>1, FoundWhere
  <2>3. iter[t] # Nil => iter[t] = o
    BY <1>4, <1>6, <2>2, IDsApart DEF Objects
  <2> QED BY <2>2, <2>3
<1>9. /\ ids'[o] = ids[o] \cup {Arg(t)}
      /\ \A x \in Objects : x # o => ids'[x] = ids[x] /\ refs'[x] = refs[x]
      /\ refs'[o] = IF ids[o] = {} THEN 1 ELSE refs[o]
  <2>1. CASE iter[t] = Nil
    BY <1>1, <1>6, <2>1, ReferTypes
  <2>2. CASE iter[t] # Nil
    BY <1>1, <1>6, <1>8, <2>2, ReferTypes
  <2> QED BY <2>1, <2>2
<1>10. FoundInv([g EXCEPT ![t] = e])' /\ RoleInv([g EXCEPT ![t] = e])'
  <2>1. iter'[t] = Nil /\ \A u \in Threads : u # t => iter'[u] = iter[u] /\ g[u].found = "no"
    <3>1. "map" \in MapOperations
      BY DEF MapOperations
    <3> QED BY <1>1, <3>1, ReferTypes, OthersFindNothing
  <2>2. FoundOK(t, e.found)'
    BY <1>4, <2>1, IDsApart DEF FoundOK
  <2>3. RoleOK(t, e.role)'
    BY <1>1, <1>3, <1>4, <1>6 DEF RoleOK, Creating
  <2> QED BY <1>1, <1>3, <2>1, <2>2, <2>3, ReferTypes, OthersStay
<1>11. ASSUME NEW x \in Objects PROVE Counted([g EXCEPT ![t] = e], k, x)'
  <2> DEFINE h == [g EXCEPT ![t] = e]
  <2>1. g[t].role \notin Borrowing /\ e.role \notin Borrowing
    BY <1>4 DEF Borrowing
  <2>2. Counted(g, s, x) /\ refs[x] \in Nat
    BY ReferTypes DEF AccountInv
  <2>3. CASE x # o
    <3>1. x = "device" => (Kept(x, s) <=> Kept(x, k))
      BY <1>4, <1>5, <1>6, <2>3 DEF Kept
    <3> QED BY <1>1, <1>9, <2>1, <2>3, <3>1, ReferTypes, SameAccount
  <2>4. CASE x = o
    <3>1. Borrowers(h, x)' = {}
      <4>1. FollowInv(g) /\ \A u \in Threads : u # t => ptr'[u] = ptr[u]
        BY <1>1, ReferTypes
      <4>2. Borrowers(h, x)' = Borrowers(g, x) \ {t}
        BY <2>1, <4>1, BorrowersAfter
      <4>3. Borrowers(g, x) = {}
        BY <1>5, NoBorrowersYet DEF Borrowers
      <4> QED BY <4>2, <4>3
    <3>2. refs'[x] \in Nat /\ refs'[x] # 0 /\ ids'[x] # {}
      BY <1>9, <2>2, <2>4 DEF Counted
    <3> HIDE DEF h, k
    <3>3. Counted(h, k, x)'
      BY <3>1, <3>2, FS_EmptySet DEF Counted
    <3> QED BY <3>3 DEF h
  <2> QED BY <2>3, <2>4
<1>12. AccountInv([g EXCEPT ![t] = e], k)'
  BY <1>11 DEF AccountInv
<1>13. EntryInv'
  <2>1. EntryInv
    BY DEF Refer
  <2>2. \A x \in Objects : ids'[x] # {} => mem'[x] = "alive"
    BY <1>1, <1>6, <1>9, <2>1 DEF EntryInv
  <2>3. "device" \in Objects /\ "plug-in" \in Objects
    BY DEF Objects
  <2>4. ids'["plug-in"] \subseteq {PlugInID}
    BY <1>4, <1>6, <1>9, <2>1, <2>3 DEF EntryInv
  <2>5. ids'["device"] # {} => DeviceID \in ids'["device"] /\ ids'["device"] \subseteq {DeviceID, StreamID}
    BY <1>4, <1>6, <1>7, <1>9, <2>1, <2>3 DEF EntryInv
  <2> QED BY <2>2, <2>4, <2>5 DEF EntryInv
<1>14. /\ k = "early" => /\ list' = <<>> /\ ids'["device"] = {}
                         /\ e.role = "made plug-in" /\ Unmade(e.role)'
       /\ k = "creating" => /\ list' = IF e.role = "mapped" THEN <<>> ELSE <<DeviceID>>
                            /\ e.role = "opened" => StreamID \in ids'["device"]
       /\ mIsActive' => e.role = "opened"
  <2>1. LoadInv(g, l, s) /\ ActiveInv(g, l, s)
    BY DEF Refer
  <2>2. s = "early" => list' = <<>> /\ ids["device"] = {} /\ ~mIsActive'
    BY <1>1, <2>1 DEF LoadInv, ActiveInv
  <2>3. s = "creating" => list' = <<DeviceID>> /\ ~mIsActive'
    BY <1>1, <1>4, <1>5, <2>1 DEF LoadInv, ActiveInv
  <2>4. "device" \in Objects
    BY DEF Objects
  <2>5. e.role = "made plug-in" => Unmade(e.role)'
    <3>1. e.role = "made plug-in" => Unmade(g[t].role)
      BY <1>4, <1>5, <2>1 DEF LoadInv
    <3> QED BY <1>1, <1>4, <3>1 DEF Unmade
  <2> QED BY <1>4, <1>5, <1>6, <1>9, <2>2, <2>3, <2>4, <2>5
<1>15. Refer([g EXCEPT ![t] = e], l, k)'
  <2>1. k \in {"early", "creating"} /\ s \in {"early", "creating"}
    BY <1>5
  <2> HIDE DEF k
  <2> QED BY <1>1, <1>2, <1>3, <1>5, <1>10, <1>12, <1>13, <1>14, <2>1, LoaderStep
<1> QED BY <1>15 DEF ReferenceInv

\* The device stays where it is.
LEMMA SameStage ==
  ASSUME NEW g, NEW l, NEW s, Refer(g, l, s), NEW t \in Threads, NEW e \in Uses,
         e.role \in Removing <=> g[t].role \in Removing,
         e.role = "destroy" <=> g[t].role = "destroy",
         UNCHANGED <<list, queue>>, ids["device"] = {} => ids'["device"] = {},
         mem'["device"] = mem["device"]
  PROVE  StageInv([g EXCEPT ![t] = e], s)' /\ DestroyInv([g EXCEPT ![t] = e])'
<1> DEFINE h == [g EXCEPT ![t] = e]
<1>1. h[t] = e /\ \A u \in Threads : u # t => h[u] = g[u]
  BY DEF Refer, FollowInv
<1> HIDE DEF h
<1>2. \A u \in Threads : /\ h[u].role \in Removing <=> g[u].role \in Removing
                         /\ h[u].role = "destroy" <=> g[u].role = "destroy"
  BY <1>1
<1>3. Queue \in Threads /\ HalThreads \subseteq Threads
  BY ObjectsAssumption
<1>4. StageInv(h, s)'
  BY <1>2, <1>3 DEF Refer, StageInv
<1>5. DestroyInv(h)'
  BY <1>2, <1>3 DEF Refer, DestroyInv
<1> QED BY <1>4, <1>5 DEF h

\* Activate and Deactivate, of the device.
LEMMA UseSetActive ==
  ASSUME ObjectInv, NEW g, NEW l, NEW s, Refer(g, l, s), NEW t \in Threads, SetActive(t)
  PROVE  ReferenceInv'
<1>1. /\ UNCHANGED <<ptr, iter, ids, refs, mem, list, queue, loaded>> /\ UNCHANGED lockVars
      /\ Advance(t)
  BY DEF SetActive, mapVars
<1>2. PICK op \in {"activate", "deactivate"} : At(t, op) /\ (op = "deactivate" => mIsActive' = FALSE)
  BY DEF SetActive
<1>3. PICK e \in Uses : UseEffect(op, Arg(t), g[t], e) /\ FollowInv([g EXCEPT ![t] = e])'
  BY <1>1, <1>2, Advanced
<1>4. /\ code[t] # <<>> /\ at' = at /\ wants' = wants /\ at[t] = "out" /\ g[t] \in Uses
      /\ \A u \in Threads : u # t => code'[u] = code[u]
  BY <1>1, <1>2, Advanced
<1>5. /\ g[t].found = "no" /\ e.found = "no"
      /\ op = "activate" => g[t].role = "opened" /\ e.role = "opened"
      /\ op = "deactivate" => g[t].role = "both" /\ e.role = "inactive"
  BY <1>2, <1>3 DEF UseEffect, Move
<1>6. FoundInv([g EXCEPT ![t] = e])' /\ RoleInv([g EXCEPT ![t] = e])'
  <2>1. FoundOK(t, e.found)'
    BY <1>1, <1>5, ReferTypes, IDsApart DEF FoundInv, FoundOK
  <2>2. RoleOK(t, e.role)'
    BY <1>1, <1>2, <1>4, <1>5, ReferTypes DEF RoleInv, RoleOK, Creating
  <2> QED BY <1>1, <1>4, <2>1, <2>2, ReferTypes, OthersStay
<1>7. AccountInv([g EXCEPT ![t] = e], s)'
  <2>1. e.role \in Borrowing <=> g[t].role \in Borrowing
    BY <1>2, <1>5 DEF Borrowing
  <2>2. \A o \in Objects : Counted([g EXCEPT ![t] = e], s, o)'
    BY <1>1, <2>1, ReferTypes, SameAccount
  <2> QED BY <2>2 DEF AccountInv
<1>8. EntryInv'
  BY <1>1 DEF Refer, EntryInv
<1>9. CASE op = "activate"
  <2>1. g[t].role \in Creating /\ e.role \in Creating /\ e.role = "opened" /\ g[t].role = "opened"
    BY <1>5, <1>9 DEF Creating
  <2>2. t = l /\ s = "creating"
    BY <2>1, CreatingStage
  <2>3. list' = <<DeviceID>> /\ StreamID \in ids'["device"]
    BY <1>1, <2>1, <2>2 DEF Refer, LoadInv
  <2>4. Refer([g EXCEPT ![t] = e], l, s)'
    BY <1>1, <1>3, <1>4, <1>6, <1>7, <1>8, <2>1, <2>2, <2>3, LoaderStep
  <2> QED BY <2>4 DEF ReferenceInv
<1>10. CASE op = "deactivate"
  <2>1. /\ g[t].role \in Removing /\ e.role \in Removing /\ e.role \notin Early \cup Creating
        /\ g[t].role # "destroy" /\ e.role # "destroy"
    BY <1>5, <1>10 DEF Removing, Early, Creating
  <2>2. t = Queue /\ s = "removing"
    BY <2>1, RemovingStage
  <2>3. StageInv([g EXCEPT ![t] = e], s)' /\ DestroyInv([g EXCEPT ![t] = e])'
    BY <1>1, <2>1, SameStage
  <2>4. ActiveInv([g EXCEPT ![t] = e], l, s)'
    BY <1>2, <1>10 DEF ActiveInv
  <2> QED BY <1>3, <1>6, <1>7, <1>8, <2>1, <2>2, <2>3, <2>4, LaterStep
<1> QED BY <1>2, <1>9, <1>10

\* Deactivate unmaps the streams; the device keeps its own ID, and its entry.
LEMMA UseUnmap ==
  ASSUME ObjectInv, NEW g, NEW l, NEW s, Refer(g, l, s), NEW t \in Threads, Unmap(t)
  PROVE  ReferenceInv'
<1>1. /\ UNCHANGED <<ptr, refs, mem, mIsActive, list, loaded>> /\ UNCHANGED lockVars
      /\ Advance(t) /\ At(t, "unmap") /\ iter' = [iter EXCEPT ![t] = Nil]
  BY DEF Unmap
<1>2. PICK e \in Uses : UseEffect("unmap", Arg(t), g[t], e) /\ FollowInv([g EXCEPT ![t] = e])'
  BY <1>1, Advanced
<1>3. /\ code[t] # <<>> /\ at' = at /\ wants' = wants /\ at[t] = "out" /\ g[t] \in Uses
      /\ \A u \in Threads : u # t => code'[u] = code[u]
  BY <1>1, Advanced
<1>4. /\ g[t].found = Arg(t) /\ e.found = "no" /\ Arg(t) = StreamID
      /\ g[t].role = "inactive" /\ e.role = "inactive"
  BY <1>2 DEF UseEffect, Move
<1>5. t = Queue /\ s = "removing" /\ "device" \in Objects
  <2>1. g[t].role \in Removing
    BY <1>4 DEF Removing
  <2> QED BY <2>1, RemovingStage DEF Objects
<1>6. DeviceID \in ids["device"] /\ ~mIsActive
  <2>1. ids["device"] # {}
    BY <1>5, StillThere DEF Kept
  <2> QED BY <1>4, <1>5, <2>1 DEF Refer, EntryInv, ActiveInv
<1>7. iter[t] \in {Nil, "device"}
  <2>1. g[t].found \in IDs
    BY <1>4, IDsApart
  <2>2. iter[t] # "plug-in" /\ iter[t] \in Objects \cup {Nil}
    BY <1>4, <2>1, FoundWhere, IDsApart, ReferTypes
  <2> QED BY <2>2 DEF Objects
<1>8. /\ queue' = queue
      /\ ids' = ids \/ ids' = [ids EXCEPT !["device"] = @ \ {StreamID}]
  <2>1. ids["device"] # {Arg(t)}
    BY <1>4, <1>6, IDsApart
  <2> QED BY <1>4, <1>7, <2>1, IDsApart DEF Unmap
<1>9. /\ DeviceID \in ids'["device"] /\ ids'["device"] \subseteq ids["device"]
      /\ \A o \in Objects : ids'[o] = {} <=> ids[o] = {}
      /\ ids'["plug-in"] = ids["plug-in"]
  BY <1>6, <1>8, IDsApart, ReferTypes DEF Objects
<1>10. FoundInv([g EXCEPT ![t] = e])' /\ RoleInv([g EXCEPT ![t] = e])'
  <2>1. iter'[t] = Nil /\ \A u \in Threads : u # t => iter'[u] = iter[u] /\ g[u].found = "no"
    <3>1. "unmap" \in MapOperations
      BY DEF MapOperations
    <3> QED BY <1>1, <3>1, ReferTypes, OthersFindNothing
  <2>2. FoundOK(t, e.found)'
    BY <1>4, <2>1, IDsApart DEF FoundOK
  <2>3. RoleOK(t, e.role)'
    BY <1>1, <1>3, <1>4, ReferTypes DEF RoleInv, RoleOK
  <2> QED BY <1>1, <1>3, <2>1, <2>2, <2>3, ReferTypes, OthersStay
<1>11. AccountInv([g EXCEPT ![t] = e], s)'
  <2>1. \A o \in Objects : Counted([g EXCEPT ![t] = e], s, o)'
    BY <1>1, <1>4, <1>9, ReferTypes, SameAccount
  <2> QED BY <2>1 DEF AccountInv
<1>12. EntryInv'
  BY <1>1, <1>9 DEF Refer, EntryInv
<1>13. StageInv([g EXCEPT ![t] = e], s)' /\ DestroyInv([g EXCEPT ![t] = e])'
  BY <1>1, <1>4, <1>5, <1>8, <1>9, SameStage
<1>14. ActiveInv([g EXCEPT ![t] = e], l, s)'
  BY <1>1, <1>6 DEF ActiveInv
<1>15. e.role \notin Early \cup Creating
  BY <1>4 DEF Early, Creating
<1> QED BY <1>2, <1>5, <1>10, <1>11, <1>12, <1>13, <1>14, <1>15, LaterStep

\* The block that destroys the device.
LEMMA UseDestroy ==
  ASSUME ObjectInv, NEW g, NEW l, NEW s, Refer(g, l, s), NEW t \in Threads, DestroyObject(t)
  PROVE  ReferenceInv'
<1>1. /\ UNCHANGED <<ptr, iter, ids, refs, mIsActive, list, queue, loaded>> /\ UNCHANGED lockVars
      /\ Advance(t) /\ At(t, "delete") /\ mem' = [mem EXCEPT ![ptr[t]] = "deleted"]
  BY DEF DestroyObject, mapVars
<1>2. PICK e \in Uses : UseEffect("delete", Arg(t), g[t], e) /\ FollowInv([g EXCEPT ![t] = e])'
  BY <1>1, Advanced
<1>3. /\ code[t] # <<>> /\ at' = at /\ wants' = wants /\ at[t] = "out" /\ g[t] \in Uses
      /\ \A u \in Threads : u # t => code'[u] = code[u]
  BY <1>1, Advanced
<1>4. /\ g[t].found = "no" /\ e.found = "no" /\ g[t].role = "destroy" /\ e.role = "none"
  BY <1>2 DEF UseEffect, Move
<1>5. t = Queue /\ ptr[t] = "device" /\ s \notin {"early", "creating"}
  <2>1. t = Queue
    BY <1>4, RemovingStage
  <2>2. ptr[t] = "device"
    BY <1>4, ReferTypes DEF RoleInv, RoleOK
  <2>3. Queue # l
    BY ObjectsAssumption DEF Refer
  <2> QED BY <1>3, <2>1, <2>2, <2>3 DEF Refer, LoadInv
<1>6. FoundInv([g EXCEPT ![t] = e])' /\ RoleInv([g EXCEPT ![t] = e])'
  <2>1. FoundOK(t, e.found)'
    BY <1>1, <1>4, ReferTypes, IDsApart DEF FoundInv, FoundOK
  <2>2. RoleOK(t, e.role)'
    BY <1>1, <1>3, <1>4 DEF RoleOK, Creating
  <2> QED BY <1>1, <1>3, <2>1, <2>2, ReferTypes, OthersStay
<1>7. AccountInv([g EXCEPT ![t] = e], s)'
  <2>1. e.role \notin Borrowing /\ g[t].role \notin Borrowing
    BY <1>4 DEF Borrowing
  <2>2. \A o \in Objects : Counted([g EXCEPT ![t] = e], s, o)'
    BY <1>1, <2>1, ReferTypes, SameAccount
  <2> QED BY <2>2 DEF AccountInv
<1>8. ids["device"] = {} /\ \A i \in DOMAIN queue : queue[i].code # DestroyBlock
  BY <1>4, <1>5 DEF Refer, DestroyInv
<1>9. EntryInv'
  <2>1. \A o \in Objects : o # "device" => mem'[o] = mem[o]
    BY <1>1, <1>5 DEF ObjectInv, ObjectTypeOK
  <2> QED BY <1>1, <1>8, <2>1 DEF Refer, EntryInv
<1> DEFINE h == [g EXCEPT ![t] = e]
<1>10. h[t] = e /\ \A u \in Threads : u # t => h[u] = g[u]
  BY DEF Refer, FollowInv
<1> HIDE DEF h
<1>11. StageInv(h, s)'
  <2>1. "none" \notin Removing /\ "destroy" \notin Removing
    BY DEF Removing
  <2> QED BY <1>1, <1>4, <1>5, <1>10, <2>1, ObjectsAssumption DEF Refer, StageInv
<1>12. DestroyInv(h)'
  BY <1>1, <1>4, <1>5, <1>8, <1>10 DEF Refer, DestroyInv
<1>13. ActiveInv(h, l, s)'
  <2>1. ActiveInv(g, l, s) /\ s # "creating" /\ (s = "removing" => g[Queue].role \in Removing)
    BY <1>5 DEF Refer, StageInv
  <2>2. s # "removing"
    BY <1>4, <1>5, <2>1 DEF Removing
  <2> QED BY <1>1, <2>1, <2>2 DEF ActiveInv
<1>14. s \in {"listed", "queued", "removing", "gone"}
  BY <1>5 DEF Refer, Stages
<1>15. e.role \notin Early \cup Creating
  BY <1>4 DEF Early, Creating
<1> QED BY <1>2, <1>5, <1>6, <1>7, <1>9, <1>11, <1>12, <1>13, <1>14, <1>15, LaterStep DEF h

\* A thread that is in the plug-in and does not create anything.
LEMMA AfterLoading ==
  ASSUME NEW g, NEW l, NEW s, Refer(g, l, s), NEW t \in Threads, code[t] # <<>>,
         g[t].role \notin Early \cup Creating
  PROVE  s \in {"listed", "queued", "removing", "gone"}
<1>1. LoadInv(g, l, s) /\ s \in Stages
  BY DEF Refer
<1>2. s \notin {"early", "creating"}
  BY <1>1 DEF LoadInv
<1> QED BY <1>1, <1>2 DEF Stages

\* SA_Create returns: the device is the list's, or its creation has failed.
LEMMA UseLoaded ==
  ASSUME ObjectInv, NEW g, NEW l, NEW s, Refer(g, l, s), NEW t \in Threads, Loaded(t)
  PROVE  ReferenceInv'
<1>1. /\ UNCHANGED <<iter, ids, refs, mem, mIsActive, list, queue>> /\ UNCHANGED lockVars
      /\ Advance(t) /\ At(t, "loaded") /\ ptr' = [ptr EXCEPT ![t] = Nil]
  BY DEF Loaded, mapVars
<1>2. /\ code[t] # <<>> /\ at' = at /\ wants' = wants /\ at[t] = "out" /\ g[t] \in Uses
      /\ \A u \in Threads : u # t => code'[u] = code[u]
  BY <1>1, Advanced
<1>3. PICK e \in Uses : UseEffect("loaded", Arg(t), g[t], e) /\ Leads(Tail(code[t]), e, As("none"))
  BY <1>1, NextUse, ReferTypes
<1>4. g[t].found = "no" /\ e.found = "no" /\ g[t].role \in {"none", "opened"} /\ e.role = "none"
  BY <1>3 DEF UseEffect, Move
<1>5. code' = [code EXCEPT ![t] = Tail(code[t])]
  BY <1>1 DEF Advance
<1>6. RoleOK(t, "none")'
  BY <1>2 DEF RoleOK, Creating
<1>7. "none" \notin Early \cup Creating \cup Borrowing \cup Removing
  BY DEF Early, Creating, Borrowing, Removing
<1>8. CASE g[t].role = "none"
  <2>1. e = g[t]
    BY <1>2, <1>4, <1>8, SameUse
  <2>2. s \notin {"early", "creating"}
    BY <1>2, <1>7, <1>8, AfterLoading
  <2>3. g[t].role = "none" /\ g[t].found = "no" /\ Leads(Tail(code[t]), g[t], As("none"))
    BY <1>3, <1>4, <1>8, <2>1
  <2>4. RoleOK(t, g[t].role)'
    BY <1>6, <1>8
  <2> QED BY <1>1, <1>2, <1>5, <2>2, <2>3, <2>4, StandStill
<1>9. CASE g[t].role = "opened"
  <2> DEFINE h == [g EXCEPT ![t] = e]
  <2>1. t = l /\ s = "creating"
    <3>1. g[t].role \in Creating
      BY <1>9 DEF Creating
    <3> QED BY <3>1, CreatingStage
  <2>2. FollowInv([g EXCEPT ![t] = e])'
    BY <1>3, <1>5, ReferTypes, FollowStep
  <2>3. FoundInv([g EXCEPT ![t] = e])' /\ RoleInv([g EXCEPT ![t] = e])'
    <3>1. FoundOK(t, e.found)'
      BY <1>1, <1>4, ReferTypes, IDsApart DEF FoundInv, FoundOK
    <3>2. RoleOK(t, e.role)'
      BY <1>4, <1>6
    <3> QED BY <1>1, <1>2, <3>1, <3>2, ReferTypes, OthersStay
  <2>4. AccountInv([g EXCEPT ![t] = e], "listed")'
    <3>1. e.role \notin Borrowing /\ g[t].role \notin Borrowing
      BY <1>4, <1>7, <1>9 DEF Borrowing
    <3>2. \A o \in Objects : o = "device" => (Kept(o, s) <=> Kept(o, "listed"))
      BY <2>1 DEF Kept
    <3>3. \A o \in Objects : Counted([g EXCEPT ![t] = e], "listed", o)'
      BY <1>1, <3>1, <3>2, ReferTypes, SameAccount
    <3> QED BY <3>3 DEF AccountInv
  <2>5. EntryInv'
    BY <1>1 DEF Refer, EntryInv
  <2>6. /\ list = <<DeviceID>> /\ queue = <<>> /\ (mIsActive => StreamID \in ids["device"])
        /\ \A u \in Threads : u # l => g[u] = As("none")
    BY <1>9, <2>1 DEF Refer, LoadInv, ActiveInv
  <2>7. h[t] = e /\ \A u \in Threads : u # t => h[u] = g[u]
    BY DEF Refer, FollowInv
  <2> HIDE DEF h
  <2>8. \A u \in Threads : h[u].role = "none"
    <3>1. As("none").role = "none"
      BY AsType, TheRoles
    <3> QED BY <1>4, <2>1, <2>6, <2>7, <3>1
  <2>9. DOMAIN queue' = {}
    BY <1>1, <2>6, EmptyDomain, Zenon
  <2>10. StageInv(h, "listed")' /\ DestroyInv(h)'
    BY <1>1, <1>7, <2>6, <2>8, <2>9, ObjectsAssumption DEF StageInv, DestroyInv
  <2>11. ActiveInv(h, l, "listed")'
    BY <1>1, <2>6 DEF ActiveInv
  <2>12. e.role \notin Early \cup Creating
    BY <1>4, <1>7
  <2> QED BY <2>1, <2>2, <2>3, <2>4, <2>5, <2>10, <2>11, <2>12, LaterStep DEF h
<1> QED BY <1>4, <1>8, <1>9

\* Lists of one device.
LEMMA OneDevice == Append(<<>>, DeviceID) = <<DeviceID>>
  OBVIOUS

LEMMA WithoutTheDevice == Without(<<DeviceID>>, DeviceID) = <<>>
<1> DEFINE d == <<DeviceID>>
           found == {i \in DOMAIN d : d[i] = DeviceID /\ \A j \in 1 .. i - 1 : d[j] # DeviceID}
<1>1. d \in Seq({DeviceID}) /\ Len(d) = 1 /\ DOMAIN d = {1} /\ d[1] = DeviceID
  OBVIOUS
<1> HIDE DEF d
<1>2. found = {1}
  BY <1>1
<1> HIDE DEF found
<1>3. (CHOOSE i \in found : TRUE) = 1
  BY <1>2
<1>4. SubSeq(d, 1, 0) = <<>> /\ SubSeq(d, 2, 1) = <<>>
  BY <1>1
<1>5. Without(d, DeviceID) = SubSeq(d, 1, 0) \o SubSeq(d, 2, 1)
  BY <1>1, <1>2, <1>3 DEF Without, found
<1> QED BY <1>4, <1>5 DEF d

\* The blocks are told apart by what they do.
LEMMA BlocksApart == RemoveBlock # <<>> /\ DestroyBlock # <<>> /\ RemoveBlock # DestroyBlock
<1>1. As("owner").role = "owner" /\ As("none").role = "none" /\ As("destroy").role = "destroy"
  BY AsType, TheRoles
<1>2. RemoveBlock # <<>> /\ DestroyBlock # <<>>
  BY <1>1, LeadsRemoveBlock, LeadsCalls, NothingPath DEF Leads
<1>3. PICK e \in Uses : <<Head(RemoveBlock), As("owner"), e>> \in UseEffects
  BY <1>2, LeadsRemoveBlock, PathHead DEF Leads
<1>4. UseEffect(Head(RemoveBlock)[1], Head(RemoveBlock)[2], As("owner"), e)
  BY <1>3, UseEffectsAre
<1>5. Head(DestroyBlock)[1] = "delete"
  BY DEF DestroyBlock
<1>6. Head(RemoveBlock)[1] # "delete"
  BY <1>1, <1>4 DEF UseEffect, Move
<1> QED BY <1>2, <1>5, <1>6

\* What the list of devices becomes, and the blocks for it.
LEMMA BlocksOfList ==
  ASSUME NEW d
  PROVE  LET none == [i \in DOMAIN d |-> Nil]
             more == [i \in DOMAIN d |-> Block(IF d[i] = DeviceID THEN RemoveBlock ELSE <<>>, Nil)]
         IN  /\ d = <<DeviceID>> => none = <<Nil>> /\ more = <<Block(RemoveBlock, Nil)>>
             /\ d = <<Nil>> => none = <<Nil>> /\ more = <<Block(<<>>, Nil)>>
             /\ d = <<>> => none = <<>> /\ more = <<>>
<1>1. DeviceID # Nil
  BY DEF DeviceID, Nil
<1>2. CASE d = <<DeviceID>>
  BY <1>1, <1>2
<1>3. CASE d = <<Nil>>
  BY <1>1, <1>3
<1>4. CASE d = <<>>
  BY <1>1, <1>4
<1> QED BY <1>1, <1>2, <1>3, <1>4

\* Nothing is added to the queue.
LEMMA NothingGrows ==
  ASSUME NEW S, NEW q \in Seq(S)
  PROVE  q \o <<>> = q
  OBVIOUS

\* A block is added at the end of the queue.
LEMMA QueueGrows ==
  ASSUME QueueInv, NEW b, queue' = Append(queue, b) \/ queue' = queue \o <<b>>
  PROVE  \E n : /\ n \notin DOMAIN queue /\ DOMAIN queue' = DOMAIN queue \cup {n}
                /\ queue'[n] = b /\ \A i \in DOMAIN queue : queue'[i] = queue[i]
<1> DEFINE n == Len(queue) + 1
<1>1. queue \in Seq(Blocks) /\ Len(queue) \in Nat /\ DOMAIN queue = 1 .. Len(queue)
  BY DEF QueueInv
<1>2. CASE queue' = Append(queue, b)
  <2>1. DOMAIN queue' = 1 .. n /\ queue'[n] = b /\ \A i \in 1 .. Len(queue) : queue'[i] = queue[i]
    BY <1>1, <1>2
  <2> QED BY <1>1, <2>1
<1>3. CASE queue' = queue \o <<b>>
  <2>1. Len(<<b>>) = 1 /\ <<b>>[1] = b /\ <<b>> \in Seq({b})
    OBVIOUS
  <2>2. DOMAIN queue' = 1 .. n /\ queue'[n] = b /\ \A i \in 1 .. Len(queue) : queue'[i] = queue[i]
    BY <1>1, <1>3, <2>1
  <2> QED BY <1>1, <2>2
<1> QED BY <1>2, <1>3

\* The device list.
LEMMA UseEditList ==
  ASSUME ObjectInv, NEW g, NEW l, NEW s, Refer(g, l, s), NEW t \in Threads, EditList(t)
  PROVE  ReferenceInv'
<1>1. /\ UNCHANGED <<ptr, iter, ids, refs, mem, mIsActive, loaded>> /\ UNCHANGED lockVars
      /\ Advance(t)
  BY DEF EditList, mapVars
<1>2. PICK op \in {"add", "remove", "remove all"} :
        /\ At(t, op)
        /\ op = "add" => list' = Append(list, Arg(t)) /\ queue' = queue
        /\ op = "remove" => list' = Without(list, Arg(t)) /\ queue' = queue
        /\ op = "remove all" =>
             /\ list' = [i \in DOMAIN list |-> Nil]
             /\ queue' = queue \o [i \in DOMAIN list |->
                                     Block(IF list[i] = DeviceID THEN RemoveBlock ELSE <<>>, Nil)]
  BY DEF EditList
<1>3. PICK e \in Uses : UseEffect(op, Arg(t), g[t], e) /\ FollowInv([g EXCEPT ![t] = e])'
  BY <1>1, <1>2, Advanced
<1>4. /\ code[t] # <<>> /\ at' = at /\ wants' = wants /\ at[t] = "out" /\ g[t] \in Uses
      /\ \A u \in Threads : u # t => code'[u] = code[u]
  BY <1>1, <1>2, Advanced
<1>5. /\ g[t].found = "no" /\ e.found = "no"
      /\ op = "add" => g[t].role = "mapped" /\ e.role = "listed"
      /\ op = "remove" => g[t].role = "listed" /\ e.role = "mapped"
      /\ op = "remove all" => g[t].role = "none" /\ e.role = "none"
  BY <1>2, <1>3 DEF UseEffect, Move
<1>6. FoundInv([g EXCEPT ![t] = e])' /\ RoleInv([g EXCEPT ![t] = e])'
  <2>1. FoundOK(t, e.found)'
    BY <1>1, <1>5, ReferTypes, IDsApart DEF FoundInv, FoundOK
  <2>2. RoleOK(t, e.role)'
    BY <1>1, <1>2, <1>4, <1>5, ReferTypes DEF RoleInv, RoleOK, Creating
  <2> QED BY <1>1, <1>4, <2>1, <2>2, ReferTypes, OthersStay
<1>7. ASSUME NEW k, Kept("device", s) <=> Kept("device", k)
      PROVE  AccountInv([g EXCEPT ![t] = e], k)'
  <2>1. e.role \notin Borrowing /\ g[t].role \notin Borrowing
    BY <1>2, <1>5 DEF Borrowing
  <2>2. \A o \in Objects : Counted([g EXCEPT ![t] = e], k, o)'
    BY <1>1, <1>7, <2>1, ReferTypes, SameAccount
  <2> QED BY <2>2 DEF AccountInv
<1>8. EntryInv'
  BY <1>1 DEF Refer, EntryInv
<1>9. CASE op \in {"add", "remove"}
  <2>1. g[t].role \in Creating /\ e.role \in Creating /\ e.role # "opened" /\ g[t].role # "opened"
    BY <1>5, <1>9 DEF Creating
  <2>2. t = l /\ s = "creating"
    BY <2>1, CreatingStage
  <2>3. Arg(t) = DeviceID
    BY <1>2, <1>9, ArgTypes, ReferTypes
  <2>4. list = (IF g[l].role = "mapped" THEN <<>> ELSE <<DeviceID>>) /\ ~mIsActive
    BY <2>1, <2>2 DEF Refer, LoadInv, ActiveInv
  <2>5. list' = IF e.role = "mapped" THEN <<>> ELSE <<DeviceID>>
    BY <1>2, <1>5, <1>9, <2>2, <2>3, <2>4, OneDevice, WithoutTheDevice
  <2>6. AccountInv([g EXCEPT ![t] = e], s)' /\ ~mIsActive' /\ queue' = queue
    BY <1>1, <1>2, <1>7, <1>9, <2>4
  <2>7. Refer([g EXCEPT ![t] = e], l, s)'
    BY <1>1, <1>3, <1>4, <1>6, <1>8, <2>1, <2>2, <2>5, <2>6, LoaderStep
  <2> QED BY <2>7 DEF ReferenceInv
<1>10. CASE op = "remove all"
  <2> DEFINE h == [g EXCEPT ![t] = e]
             k == IF s = "listed" THEN "queued" ELSE s
             more == [i \in DOMAIN list |-> Block(IF list[i] = DeviceID THEN RemoveBlock ELSE <<>>, Nil)]
  <2>1. /\ e.role = "none" /\ e.role \notin Early \cup Creating
        /\ g[t].role = "none" /\ g[t].role \notin Early \cup Creating
    BY <1>5, <1>10 DEF Early, Creating
  <2>2. s \in {"listed", "queued", "removing", "gone"} /\ k \in {"queued", "removing", "gone"}
    <3>1. s \in {"listed", "queued", "removing", "gone"}
      BY <1>4, <2>1, AfterLoading
    <3> QED BY <3>1
  <2>3. /\ s = "listed" => list = <<DeviceID>>
        /\ s # "listed" => list \in {<<>>, <<Nil>>}
    BY <2>2 DEF Refer, StageInv
  <2>4. e = g[t] /\ h = g
    BY <1>4, <1>5, <2>1, SameUse, ReferTypes
  <2>5. /\ list = <<DeviceID>> => list' = <<Nil>> /\ more = <<Block(RemoveBlock, Nil)>>
        /\ list = <<Nil>> => list' = <<Nil>> /\ more = <<Block(<<>>, Nil)>>
        /\ list = <<>> => list' = <<>> /\ more = <<>>
    BY <1>2, <1>10, BlocksOfList
  <2>6. queue' = queue \o more
    BY <1>2, <1>10
  <2> HIDE DEF more, h
  <2>7. Queue \in Threads /\ HalThreads \subseteq Threads
    BY ObjectsAssumption
  <2>8. StageInv(g, s) /\ DestroyInv(g) /\ ActiveInv(g, l, s) /\ QueueInv
    BY DEF Refer, ObjectInv
  <2>9. StageInv(g, k)' /\ DestroyInv(g)'
    <3>1. CASE list = <<>>
      <4>1. list' = <<>> /\ queue' = queue /\ k = s
        <5>1. queue \o <<>> = queue
          BY <2>8, NothingGrows DEF QueueInv
        <5>2. <<>> # <<DeviceID>>
          OBVIOUS
        <5> QED BY <2>3, <2>5, <2>6, <3>1, <5>1, <5>2
      <4>2. StageInv(g, k)'
        BY <2>8, <3>1, <4>1 DEF StageInv
      <4>3. DestroyInv(g)'
        BY <1>1, <2>8, <4>1 DEF DestroyInv
      <4> QED BY <4>2, <4>3
    <3>2. CASE list # <<>>
      <4> DEFINE c == IF s = "listed" THEN RemoveBlock ELSE <<>>
                 b == Block(c, Nil)
      <4>1. list' = <<Nil>> /\ queue' = queue \o <<b>>
        BY <2>3, <2>5, <2>6, <3>2
      <4>2. b.code = c /\ b \in {Block(<<>>, Nil), Block(RemoveBlock, Nil)}
        BY DEF Block
      <4> HIDE DEF b
      <4>3. PICK n : /\ n \notin DOMAIN queue /\ DOMAIN queue' = DOMAIN queue \cup {n}
                     /\ queue'[n] = b /\ \A i \in DOMAIN queue : queue'[i] = queue[i]
        BY <2>8, <4>1, QueueGrows
      <4>4. c # DestroyBlock /\ (c = RemoveBlock <=> s = "listed")
        BY BlocksApart
      <4> HIDE DEF c
      <4>5. StageInv(g, k)'
        <5>1. \A i \in DOMAIN queue : s = "listed" => queue[i].code # RemoveBlock
          BY <2>8 DEF StageInv
        <5>2. \A i, j \in DOMAIN queue' :
                queue'[i].code = RemoveBlock /\ queue'[j].code = RemoveBlock => i = j
          BY <2>8, <4>2, <4>3, <4>4, <5>1 DEF StageInv
        <5>3. k = "queued" <=> \E i \in DOMAIN queue' : queue'[i].code = RemoveBlock
          BY <2>2, <2>8, <4>2, <4>3, <4>4 DEF StageInv
        <5> HIDE DEF k
        <5>4. k = "removing" <=> s = "removing"
          BY <2>2 DEF k
        <5> QED BY <2>2, <2>8, <4>1, <5>2, <5>3, <5>4 DEF StageInv
      <4>6. DestroyInv(g)'
        BY <1>1, <2>8, <4>2, <4>3, <4>4 DEF DestroyInv
      <4> QED BY <4>5, <4>6
    <3> QED BY <3>1, <3>2
  <2>10. ActiveInv(g, l, k)'
    BY <1>1, <2>2, <2>8 DEF ActiveInv
  <2>11. AccountInv([g EXCEPT ![t] = e], k)'
    BY <1>7, <2>2 DEF Kept
  <2> HIDE DEF k
  <2>12. g = [g EXCEPT ![t] = e]
    BY <2>4 DEF h
  <2> DEFINE f == [g EXCEPT ![t] = e]
  <2>13. f = g
    BY <2>12
  <2> HIDE DEF f
  <2>14. StageInv(f, k)' /\ DestroyInv(f)' /\ ActiveInv(f, l, k)'
    BY <2>9, <2>10, <2>13
  <2>15. /\ StageInv([g EXCEPT ![t] = e], k)' /\ DestroyInv([g EXCEPT ![t] = e])'
         /\ ActiveInv([g EXCEPT ![t] = e], l, k)'
    BY <2>14 DEF f
  <2>16. /\ k \in {"listed", "queued", "removing", "gone"} /\ s \notin {"early", "creating"}
         /\ e.role \notin Early \cup Creating
    BY <2>1, <2>2
  <2> HIDE DEF h
  <2> QED BY <1>3, <1>6, <1>8, <2>11, <2>15, <2>16, LaterStep, ZenonT(20)
<1> QED BY <1>2, <1>9, <1>10

\* What a release finds: the entry of the object that the thread works on, which
\* goes with its last reference.  That is the device, when nobody keeps it.
LEMMA ReleaseFacts ==
  ASSUME ObjectInv, NEW g, NEW l, NEW s, Refer(g, l, s), NEW t \in Threads, Release(t),
         NEW e \in Uses, UseEffect("release", Arg(t), g[t], e), code[t] # <<>>, NEW k,
         k = IF g[t].role = "borrow" THEN s ELSE "gone"
  PROVE  /\ ptr[t] \in Objects /\ iter[t] = ptr[t] /\ ids[ptr[t]] # {} /\ mem[ptr[t]] = "alive"
         /\ g[t].role \in {"mapped", "inactive"} => ptr[t] = "device"
         /\ g[t].role = "mapped" => t = l /\ s = "creating"
         /\ g[t].role = "inactive" => t = Queue /\ s = "removing"
         /\ g[t].role = "borrow" => s \in {"listed", "queued", "removing", "gone"}
         /\ \/ g[t].role = "mapped" /\ e.role = "none"
            \/ g[t].role = "borrow" /\ e.role = "none"
            \/ g[t].role = "inactive" /\ e.role = "borrow"
         /\ refs' = [refs EXCEPT ![ptr[t]] = @ - 1]
         /\ refs[ptr[t]] # 1 => ids' = ids /\ queue' = queue
         /\ refs[ptr[t]] = 1 => /\ ptr[t] = "device" /\ k = "gone"
                                /\ ids' = [ids EXCEPT !["device"] = {}]
                                /\ queue' = Append(queue, Block(DestroyBlock, "device"))
<1> DEFINE o == ptr[t]
<1>1. /\ g[t].found = "object"
      /\ \/ g[t].role = "mapped" /\ e.role = "none"
         \/ g[t].role = "borrow" /\ e.role = "none"
         \/ g[t].role = "inactive" /\ e.role = "borrow"
  BY DEF UseEffect, Move
<1>2. /\ g[t].role = "mapped" => t = l /\ s = "creating"
      /\ g[t].role = "inactive" => t = Queue /\ s = "removing"
  <2>1. "mapped" \in Creating /\ "inactive" \in Removing
    BY DEF Creating, Removing
  <2> QED BY <2>1, CreatingStage, RemovingStage
<1>3. g[t].role = "borrow" => s \in {"listed", "queued", "removing", "gone"}
  <2>1. "borrow" \notin Early \cup Creating
    BY DEF Early, Creating
  <2> QED BY <2>1, AfterLoading
<1>4. o \in Objects /\ (g[t].role \in {"mapped", "inactive"} => o = "device")
  <2>1. RoleOK(t, g[t].role) /\ ptr[t] \in Objects \cup {Nil}
    BY ReferTypes DEF RoleInv
  <2> QED BY <1>1, <2>1 DEF RoleOK, Creating, Objects
<1> HIDE DEF o
<1>5. ids[o] # {} /\ mem[o] = "alive"
  <2>1. CASE g[t].role = "mapped"
    BY <1>2, <1>4, <2>1, StillThere DEF Kept
  <2>2. CASE g[t].role # "mapped"
    <3>1. t \in Borrowers(g, o)
      BY <1>1, <2>2 DEF Borrowers, Borrowing, o
    <3> QED BY <1>4, <3>1, StillThere
  <2> QED BY <2>1, <2>2
<1>6. iter[t] = o
  <2>1. FoundOK(t, "object")
    BY <1>1, ReferTypes DEF FoundInv
  <2> QED BY <1>4, <1>5, <2>1, IDsApart DEF FoundOK, o
<1>7. refs[o] \in Nat /\ refs[o] # 0 /\ Counted(g, s, o)
  <2>1. Counted(g, s, o) /\ refs[o] \in Nat
    BY <1>4, ReferTypes DEF AccountInv
  <2> QED BY <1>5, <2>1 DEF Counted
<1>8. o # Nil /\ refs[o] > 0
  BY <1>4, <1>7, IDsApart
<1>9. /\ refs' = [refs EXCEPT ![o] = @ - 1]
      /\ refs[o] # 1 => ids' = ids /\ queue' = queue
      /\ refs[o] = 1 => Erase(o)
  BY <1>6, <1>8 DEF Release
<1>10. refs[o] = 1 => o = "device" /\ k = "gone"
  <2> SUFFICES ASSUME refs[o] = 1 PROVE o = "device" /\ k = "gone"
    OBVIOUS
  <2>1. CASE g[t].role = "mapped"
    BY <1>4, <2>1
  <2>2. CASE g[t].role # "mapped"
    <3>1. t \in Borrowers(g, o) /\ IsFiniteSet(Borrowers(g, o))
      BY <1>1, <1>7, <2>2 DEF Borrowers, Borrowing, o, Counted
    <3>2. Cardinality(Borrowers(g, o)) \in Nat /\ Cardinality(Borrowers(g, o)) # 0
      BY <3>1, FS_CardinalityType, FS_EmptySet
    <3>3. ~Kept(o, s)
      BY <1>7, <3>2 DEF Counted
    <3>4. o = "device" /\ s \notin {"creating", "listed", "queued", "removing"}
      BY <1>4, <1>5, <3>3 DEF Kept, Objects
    <3> QED BY <1>1, <1>2, <1>3, <2>2, <3>4
  <2> QED BY <2>1, <2>2
<1> QED BY <1>1, <1>2, <1>3, <1>4, <1>5, <1>6, <1>9, <1>10 DEF o, Erase

\* _ReleaseObject gives a reference back.
LEMMA ReleaseAccount ==
  ASSUME ObjectInv, NEW g, NEW l, NEW s, Refer(g, l, s), NEW t \in Threads, Release(t),
         NEW e \in Uses, UseEffect("release", Arg(t), g[t], e), code[t] # <<>>, NEW k,
         k = IF g[t].role = "borrow" THEN s ELSE "gone"
  PROVE  AccountInv([g EXCEPT ![t] = e], k)'
<1> DEFINE h == [g EXCEPT ![t] = e]
<1>0. PICK o \in Objects : o = ptr[t]
  BY ReleaseFacts
<1>1. /\ o \in Objects /\ ids[o] # {}
      /\ g[t].role \in {"mapped", "inactive"} => o = "device"
      /\ g[t].role = "mapped" => s = "creating"
      /\ g[t].role = "inactive" => s = "removing"
      /\ \/ g[t].role = "mapped" /\ e.role = "none"
         \/ g[t].role = "borrow" /\ e.role = "none"
         \/ g[t].role = "inactive" /\ e.role = "borrow"
      /\ refs' = [refs EXCEPT ![o] = @ - 1]
      /\ refs[o] # 1 => ids' = ids
      /\ refs[o] = 1 => o = "device" /\ ids' = [ids EXCEPT !["device"] = {}]
  BY <1>0, ReleaseFacts
<1>2. ptr' = ptr /\ FollowInv(g) /\ ptr[t] = o
  BY <1>0, ReferTypes DEF Release
<1>3. ASSUME NEW x \in Objects, x # o PROVE Counted(h, k, x)'
  <2>1. ids'[x] = ids[x] /\ refs'[x] = refs[x]
    BY <1>1, <1>3, ReferTypes
  <2>2. x = "device" => (Kept(x, s) <=> Kept(x, k))
    BY <1>1, <1>3
  <2> QED BY <1>2, <1>3, <2>1, <2>2, ReferTypes, SameAccount
<1>4. Counted(h, k, o)'
  <2> DEFINE B == Borrowers(g, o)
             C == Borrowers(h, o)'
  <2>1. Counted(g, s, o) /\ refs[o] \in Nat
    BY <1>1, ReferTypes DEF AccountInv
  <2>2. refs[o] # 0 /\ IsFiniteSet(B) /\ refs[o] >= Cardinality(B) + (IF Kept(o, s) THEN 1 ELSE 0)
    BY <1>1, <2>1 DEF Counted
  <2>3. C = IF e.role = "borrow" THEN B \cup {t} ELSE B \ {t}
    <3>1. ptr'[t] = o /\ (\A u \in Threads : u # t => ptr'[u] = ptr[u])
      BY <1>2
    <3>2. e.role \in Borrowing <=> e.role = "borrow"
      BY <1>1 DEF Borrowing
    <3>3. CASE e.role = "borrow"
      BY <1>2, <3>1, <3>2, <3>3, BorrowersAfter
    <3>4. CASE e.role # "borrow"
      BY <1>2, <3>1, <3>2, <3>4, BorrowersAfter
    <3> QED BY <3>3, <3>4
  <2>4. t \in B <=> g[t].role # "mapped"
    BY <1>1, <1>2 DEF Borrowers, Borrowing
  <2>5. refs'[o] = refs[o] - 1 /\ (ids'[o] = {} <=> refs[o] = 1)
    BY <1>1, ReferTypes
  <2>6. Kept(o, k)' <=> Kept(o, s) /\ g[t].role = "borrow"
    BY <1>1 DEF Kept, Objects
  <2> HIDE DEF B, C, h
  <2>7. Cardinality(B) \in Nat /\ (t \in B => Cardinality(B) # 0)
    BY <2>2, FS_CardinalityType, FS_EmptySet
  <2>8. Kept(o, s) \/ g[t].role = "borrow"
    BY <1>1 DEF Kept
  <2>9. IsFiniteSet(C) /\ refs[o] - 1 >= Cardinality(C) + (IF Kept(o, k)' THEN 1 ELSE 0)
    <3>1. CASE g[t].role = "borrow"
      <4>1. IsFiniteSet(C) /\ Cardinality(C) = Cardinality(B) - 1
        BY <1>1, <2>2, <2>3, <2>4, <3>1, FS_RemoveElement
      <4> QED BY <2>1, <2>2, <2>6, <2>7, <3>1, <4>1
    <3>2. CASE g[t].role # "borrow"
      <4>1. C = B
        BY <1>1, <2>3, <2>4, <3>2
      <4> QED BY <2>1, <2>2, <2>6, <2>7, <2>8, <3>2, <4>1
    <3> QED BY <3>1, <3>2
  <2>10. IsFiniteSet(Borrowers(h, o)') /\ refs'[o] >= Cardinality(Borrowers(h, o)') + (IF Kept(o, k)' THEN 1 ELSE 0)
    BY <2>5, <2>9 DEF C
  <2>11. ids'[o] = {} <=> refs'[o] = 0
    BY <2>1, <2>5
  <2> QED BY <2>10, <2>11 DEF Counted
<1> QED BY <1>3, <1>4 DEF AccountInv

\* _ReleaseObject, and the erasure and dispatch when it was the last reference.
LEMMA UseRelease ==
  ASSUME ObjectInv, NEW g, NEW l, NEW s, Refer(g, l, s), NEW t \in Threads, Release(t)
  PROVE  ReferenceInv'
<1>1. /\ UNCHANGED <<ptr, mem, mIsActive, list, loaded>> /\ UNCHANGED lockVars
      /\ Advance(t) /\ At(t, "release") /\ iter' = [iter EXCEPT ![t] = Nil]
  BY DEF Release
<1>2. PICK e \in Uses : UseEffect("release", Arg(t), g[t], e) /\ FollowInv([g EXCEPT ![t] = e])'
  BY <1>1, Advanced
<1>3. /\ code[t] # <<>> /\ at' = at /\ wants' = wants /\ at[t] = "out" /\ g[t] \in Uses
      /\ \A u \in Threads : u # t => code'[u] = code[u]
  BY <1>1, Advanced
<1>4. PICK k : k = IF g[t].role = "borrow" THEN s ELSE "gone"
  OBVIOUS
<1>5. /\ ptr[t] \in Objects /\ ids[ptr[t]] # {} /\ mem[ptr[t]] = "alive"
      /\ g[t].role = "mapped" => t = l /\ s = "creating"
      /\ g[t].role = "inactive" => t = Queue /\ s = "removing"
      /\ g[t].role = "borrow" => s \in {"listed", "queued", "removing", "gone"}
      /\ \/ g[t].role = "mapped" /\ e.role = "none"
         \/ g[t].role = "borrow" /\ e.role = "none"
         \/ g[t].role = "inactive" /\ e.role = "borrow"
      /\ refs[ptr[t]] # 1 => ids' = ids /\ queue' = queue
      /\ refs[ptr[t]] = 1 => /\ ptr[t] = "device" /\ k = "gone"
                             /\ ids' = [ids EXCEPT !["device"] = {}]
                             /\ queue' = Append(queue, Block(DestroyBlock, "device"))
  BY <1>2, <1>3, <1>4, ReleaseFacts
<1>6. AccountInv([g EXCEPT ![t] = e], k)'
  BY <1>2, <1>3, <1>4, ReleaseAccount
<1>7. /\ e.found = "no"
      /\ e.role = "borrow" => ptr[t] # Nil
      /\ e.role \notin Early \cup Creating \cup Removing \cup {"destroy"}
  <2>1. e.found = "no"
    BY <1>2 DEF UseEffect
  <2> QED BY <1>5, <2>1, IDsApart DEF Early, Creating, Removing
<1>8. FoundInv([g EXCEPT ![t] = e])' /\ RoleInv([g EXCEPT ![t] = e])'
  <2>1. iter'[t] = Nil /\ \A u \in Threads : u # t => iter'[u] = iter[u] /\ g[u].found = "no"
    <3>1. "release" \in MapOperations
      BY DEF MapOperations
    <3> QED BY <1>1, <3>1, ReferTypes, OthersFindNothing
  <2>2. FoundOK(t, e.found)'
    BY <1>7, <2>1, IDsApart DEF FoundOK
  <2>3. RoleOK(t, e.role)'
    BY <1>1, <1>3, <1>5, <1>7 DEF RoleOK, Creating
  <2> QED BY <1>1, <1>3, <2>1, <2>2, <2>3, ReferTypes, OthersStay
<1>9. EntryInv'
  <2>1. /\ ids'["plug-in"] = ids["plug-in"]
        /\ ids'["device"] = {} \/ ids'["device"] = ids["device"]
    BY <1>5, ReferTypes DEF Objects
  <2> QED BY <1>1, <2>1 DEF Refer, EntryInv, Objects
<1>10. k \in {"listed", "queued", "removing", "gone"} /\ (t = l \/ s \notin {"early", "creating"})
  BY <1>4, <1>5
<1> DEFINE h == [g EXCEPT ![t] = e]
<1>11. h[t] = e /\ \A u \in Threads : u # t => h[u] = g[u]
  BY DEF Refer, FollowInv
<1>12. Queue \in Threads /\ HalThreads \subseteq Threads /\ l \in HalThreads /\ Queue \notin HalThreads
  BY ObjectsAssumption DEF Refer
<1> HIDE DEF h
<1>13. LoadInv(g, l, s) /\ StageInv(g, s) /\ ActiveInv(g, l, s) /\ DestroyInv(g) /\ QueueInv
  BY DEF Refer, ObjectInv
<1>14. /\ k = "gone" => list \in {<<>>, <<Nil>>} /\ ~mIsActive
       /\ k # "gone" => k = s /\ g[t].role = "borrow"
       /\ k = "queued" <=> s = "queued"
       /\ k # "removing" /\ g[t].role # "inactive" => s # "removing"
  <2>1. CASE g[t].role = "mapped"
    <3>1. list = <<>> /\ ~mIsActive
      BY <1>5, <1>13, <2>1 DEF LoadInv, ActiveInv
    <3> QED BY <1>4, <1>5, <2>1, <3>1
  <2>2. CASE g[t].role = "inactive"
    <3>1. list = <<Nil>> /\ ~mIsActive
      BY <1>5, <1>13, <2>2 DEF StageInv, ActiveInv
    <3> QED BY <1>4, <1>5, <2>2, <3>1
  <2>3. CASE g[t].role = "borrow"
    <3>1. s = "gone" => list \in {<<>>, <<Nil>>} /\ ~mIsActive
      BY <1>13 DEF StageInv, ActiveInv
    <3> QED BY <1>4, <2>3, <3>1
  <2> QED BY <1>5, <2>1, <2>2, <2>3
<1>15. /\ \A u \in HalThreads : h[u].role \notin Removing \cup {"destroy"}
       /\ k = "removing" <=> h[Queue].role \in Removing
       /\ k = "removing" => h[Queue].role = g[Queue].role
       /\ h[Queue].role = "destroy" => g[Queue].role = "destroy"
  <2>1. \A u \in HalThreads : h[u].role \notin Removing \cup {"destroy"}
    BY <1>7, <1>11, <1>12, <1>13 DEF StageInv
  <2>2. s = "removing" <=> g[Queue].role \in Removing
    BY <1>13 DEF StageInv
  <2>3. "borrow" \notin Removing
    BY DEF Removing
  <2>4. CASE t = Queue
    <3>1. h[Queue].role \notin Removing \cup {"destroy"}
      BY <1>7, <1>11, <2>4
    <3>2. k # "removing"
      BY <1>4, <2>2, <2>3, <2>4
    <3> QED BY <2>1, <3>1, <3>2
  <2>5. CASE t # Queue
    <3>1. h[Queue] = g[Queue] /\ g[t].role # "inactive"
      BY <1>5, <1>11, <1>12, <2>5
    <3>2. k = "removing" <=> s = "removing"
      BY <1>14, <3>1
    <3> QED BY <2>1, <2>2, <3>1, <3>2
  <2> QED BY <2>4, <2>5
<1>16. ActiveInv(h, l, k)'
  <2>1. k # "gone" => ids' = ids
    BY <1>5
  <2>2. mIsActive' => /\ k # "gone" /\ StreamID \in ids["device"]
                      /\ k = "removing" => g[Queue].role # "inactive"
    BY <1>1, <1>13, <1>14 DEF ActiveInv
  <2> QED BY <1>10, <1>15, <2>1, <2>2 DEF ActiveInv
<1>17. StageInv(h, k)' /\ DestroyInv(h)'
  <2>1. CASE refs[ptr[t]] # 1
    <3>1. ids' = ids /\ queue' = queue
      BY <1>5, <2>1
    <3>2. StageInv(h, k)'
      BY <1>1, <1>10, <1>13, <1>14, <1>15, <3>1 DEF StageInv
    <3>3. DestroyInv(h)'
      BY <1>1, <1>13, <1>15, <3>1 DEF DestroyInv
    <3> QED BY <3>2, <3>3
  <2>2. CASE refs[ptr[t]] = 1
    <3> DEFINE b == Block(DestroyBlock, "device")
    <3>1. /\ ids["device"] # {} /\ mem["device"] = "alive" /\ queue' = Append(queue, b)
          /\ ids'["device"] = {} /\ k = "gone"
      BY <1>5, <2>2, ReferTypes DEF Objects
    <3>2. b.code = DestroyBlock /\ b.code # RemoveBlock
      BY BlocksApart DEF Block
    <3>3. b \in {Block(<<>>, Nil), Block(RemoveBlock, Nil), Block(DestroyBlock, "device")}
      OBVIOUS
    <3> HIDE DEF b
    <3>4. PICK n : /\ n \notin DOMAIN queue /\ DOMAIN queue' = DOMAIN queue \cup {n}
                   /\ queue'[n] = b /\ \A i \in DOMAIN queue : queue'[i] = queue[i]
      BY <1>13, <3>1, QueueGrows
    <3>5. g[Queue].role # "destroy" /\ \A i \in DOMAIN queue : queue[i].code # DestroyBlock
      BY <1>13, <3>1 DEF DestroyInv
    <3>6. StageInv(h, k)'
      <4>1. \A i, j \in DOMAIN queue' :
              queue'[i].code = RemoveBlock /\ queue'[j].code = RemoveBlock => i = j
        BY <1>13, <3>2, <3>4 DEF StageInv
      <4>2. k = "queued" <=> \E i \in DOMAIN queue' : queue'[i].code = RemoveBlock
        BY <1>13, <1>14, <3>2, <3>4 DEF StageInv
      <4> QED BY <1>1, <1>14, <1>15, <3>1, <4>1, <4>2 DEF StageInv
    <3>7. DestroyInv(h)'
      BY <1>1, <1>13, <1>15, <3>1, <3>2, <3>3, <3>4, <3>5 DEF DestroyInv
    <3> QED BY <3>6, <3>7
  <2> QED BY <2>1, <2>2
<1>18. e.role \notin Early \cup Creating
  BY <1>7
<1> QED BY <1>2, <1>6, <1>8, <1>9, <1>10, <1>16, <1>17, <1>18, LaterStep DEF h

\* The serial queue takes its first block.
LEMMA UseRunBlock ==
  ASSUME ObjectInv, NEW g, NEW l, NEW s, Refer(g, l, s), RunBlock
  PROVE  ReferenceInv'
<1>1. /\ UNCHANGED <<iter, ids, refs, mem, mIsActive, list, loaded, at, wants>>
      /\ code' = [code EXCEPT ![Queue] = Head(queue).code]
      /\ ptr' = [ptr EXCEPT ![Queue] = Head(queue).ptr]
      /\ queue' = Tail(queue) /\ queue # <<>> /\ at[Queue] = "out" /\ code[Queue] = <<>>
  BY DEF RunBlock, Free, mapVars, lockVars
<1>2. Queue \in Threads /\ HalThreads \subseteq Threads /\ l \in HalThreads /\ Queue \notin HalThreads
  BY ObjectsAssumption DEF Refer
<1>3. LoadInv(g, l, s) /\ StageInv(g, s) /\ ActiveInv(g, l, s) /\ DestroyInv(g) /\ QueueInv /\ s \in Stages
  BY DEF Refer, ObjectInv
<1>4. s \in {"listed", "queued", "removing", "gone"}
  BY <1>1, <1>3 DEF LoadInv, Stages
<1>5. g[Queue] = As("none") /\ g[Queue].role = "none" /\ g[Queue].found = "no"
  <2>1. g[Queue] = As("none")
    BY <1>1, <1>2, ReferTypes, NoProgram
  <2> QED BY <2>1, AsType, TheRoles
<1>6. /\ s # "removing" /\ "none" \notin Removing
  BY <1>3, <1>5 DEF StageInv, Removing
<1>7. PICK b : b = Head(queue)
  OBVIOUS
<1>8. /\ 1 \in DOMAIN queue /\ queue[1] = b
      /\ \A i \in DOMAIN queue' : i + 1 \in DOMAIN queue /\ i + 1 # 1 /\ queue'[i] = queue[i + 1]
      /\ \A i \in DOMAIN queue : i # 1 => i - 1 \in DOMAIN queue' /\ queue'[i - 1] = queue[i]
      /\ \A i, j \in DOMAIN queue' : i + 1 = j + 1 => i = j
  <2>1. queue \in Seq(Blocks) /\ Len(queue) \in Nat /\ Len(queue) # 0 /\ DOMAIN queue = 1 .. Len(queue)
    BY <1>1, <1>3 DEF QueueInv
  <2>2. /\ DOMAIN queue' = 1 .. Len(queue) - 1
        /\ \A i \in 1 .. Len(queue) - 1 : queue'[i] = queue[i + 1]
    BY <1>1, <2>1
  <2>3. queue[1] = b
    BY <1>7, <2>1
  <2> QED BY <2>1, <2>2, <2>3
<1>9. b \in {Block(<<>>, Nil), Block(RemoveBlock, Nil), Block(DestroyBlock, "device")}
  BY <1>3, <1>8 DEF DestroyInv
<1>10. PICK r : r = IF b.code = RemoveBlock THEN "owner" ELSE IF b.code = DestroyBlock THEN "destroy" ELSE "none"
  OBVIOUS
<1>11. /\ r = "owner" <=> b.code = RemoveBlock
       /\ r = "destroy" <=> b.code = DestroyBlock
       /\ r = "none" <=> b.code = <<>>
       /\ r = "destroy" => b.ptr = "device"
       /\ r \in {"owner", "destroy", "none"}
  BY <1>9, <1>10, BlocksApart DEF Block
<1>12. PICK e \in Uses : e = As(r) /\ e.role = r /\ e.found = "no"
  <2>1. r \in Roles
    BY <1>11, TheRoles
  <2>2. As(r) \in Uses /\ As(r).role = r /\ As(r).found = "no"
    BY <2>1, AsType
  <2> QED BY <2>2
<1>13. Leads(b.code, e, As("none"))
  BY <1>11, <1>12, LeadsRemoveBlock, LeadsCalls
<1>14. FollowInv([g EXCEPT ![Queue] = e])'
  BY <1>1, <1>2, <1>7, <1>13, ReferTypes, FollowStep
<1>15. ptr'[Queue] = b.ptr /\ \A u \in Threads : u # Queue => ptr'[u] = ptr[u]
  BY <1>1, <1>2, <1>7, ReferTypes
<1>16. FoundInv([g EXCEPT ![Queue] = e])' /\ RoleInv([g EXCEPT ![Queue] = e])'
  <2>1. FoundOK(Queue, e.found)'
    BY <1>1, <1>2, <1>5, <1>12, ReferTypes, IDsApart DEF FoundInv, FoundOK
  <2>2. RoleOK(Queue, e.role)'
    BY <1>1, <1>11, <1>12, <1>15 DEF RoleOK, Creating
  <2> QED BY <1>1, <1>2, <1>15, <2>1, <2>2, ReferTypes, OthersStay
<1>17. PICK k : k = IF r = "owner" THEN "removing" ELSE s
  OBVIOUS
<1>18. /\ r = "owner" => s = "queued" /\ list = <<Nil>>
       /\ k \in {"listed", "queued", "removing", "gone"}
       /\ r # "owner" => k = s
       /\ r = "owner" => k = "removing"
  BY <1>3, <1>4, <1>8, <1>11, <1>17 DEF StageInv
<1>19. AccountInv([g EXCEPT ![Queue] = e], k)'
  <2>1. e.role \notin Borrowing /\ g[Queue].role \notin Borrowing
    BY <1>5, <1>11, <1>12 DEF Borrowing
  <2>2. Kept("device", s) <=> Kept("device", k)
    BY <1>18 DEF Kept
  <2>3. \A o \in Objects : Counted([g EXCEPT ![Queue] = e], k, o)'
    <3>1. AccountInv(g, s) /\ FollowInv(g) /\ Queue \in Threads /\ e \in Uses
      BY <1>2, ReferTypes
    <3>2. \A o \in Objects : ids'[o] = ids[o] /\ refs'[o] = refs[o]
      BY <1>1
    <3> QED BY <1>15, <2>1, <2>2, <3>1, <3>2, SameAccount
  <2> QED BY <2>3 DEF AccountInv
<1>20. EntryInv'
  BY <1>1 DEF Refer, EntryInv
<1> DEFINE h == [g EXCEPT ![Queue] = e]
<1>21. h[Queue] = e /\ \A u \in Threads : u # Queue => h[u] = g[u]
  BY <1>2 DEF Refer, FollowInv
<1> HIDE DEF h
<1>22. StageInv(h, k)'
  <2>1. \A u \in HalThreads : h[u].role \notin Removing \cup {"destroy"}
    BY <1>2, <1>3, <1>21 DEF StageInv
  <2>2. k = "removing" <=> h[Queue].role \in Removing
    BY <1>6, <1>11, <1>12, <1>18, <1>21 DEF Removing
  <2>3. k = "queued" <=> \E i \in DOMAIN queue' : queue'[i].code = RemoveBlock
    <3>1. CASE r = "owner"
      BY <1>3, <1>8, <1>11, <1>18, <3>1 DEF StageInv
    <3>2. CASE r # "owner"
      BY <1>3, <1>8, <1>11, <1>18, <3>2 DEF StageInv
    <3> QED BY <3>1, <3>2
  <2>4. \A i, j \in DOMAIN queue' : queue'[i].code = RemoveBlock /\ queue'[j].code = RemoveBlock => i = j
    BY <1>3, <1>8 DEF StageInv
  <2>5. /\ k = "listed" => list' = <<DeviceID>>
        /\ k \in {"queued", "removing"} => list' = <<Nil>>
        /\ k = "gone" => list' \in {<<>>, <<Nil>>}
    BY <1>1, <1>3, <1>18 DEF StageInv
  <2> QED BY <2>1, <2>2, <2>3, <2>4, <2>5 DEF StageInv
<1>23. DestroyInv(h)'
  <2>1. \A i \in DOMAIN queue' :
          queue'[i] \in {Block(<<>>, Nil), Block(RemoveBlock, Nil), Block(DestroyBlock, "device")}
    BY <1>3, <1>8 DEF DestroyInv
  <2>2. \A i, j \in DOMAIN queue' : queue'[i].code = DestroyBlock /\ queue'[j].code = DestroyBlock => i = j
    BY <1>3, <1>8 DEF DestroyInv
  <2>3. r = "destroy" => \A i \in DOMAIN queue' : queue'[i].code # DestroyBlock
    BY <1>3, <1>8, <1>11 DEF DestroyInv
  <2>4. r = "destroy" \/ (\E i \in DOMAIN queue' : queue'[i].code = DestroyBlock) =>
          ids["device"] = {} /\ mem["device"] = "alive"
    BY <1>3, <1>8, <1>11 DEF DestroyInv
  <2> QED BY <1>1, <1>12, <1>21, <2>1, <2>2, <2>3, <2>4 DEF DestroyInv
<1>24. ActiveInv(h, l, k)'
  BY <1>1, <1>3, <1>6, <1>11, <1>12, <1>18, <1>21 DEF ActiveInv
<1>25. e.role \notin Early \cup Creating /\ s \notin {"early", "creating"}
  BY <1>4, <1>11, <1>12 DEF Early, Creating
<1> QED BY <1>2, <1>14, <1>16, <1>18, <1>19, <1>20, <1>22, <1>23, <1>24, <1>25, LaterStep DEF h

\* When the plug-in is loaded one thread is about to create everything.
LEMMA ReferInit == ObjectInit => ReferenceInv
<1> SUFFICES ASSUME ObjectInit PROVE ReferenceInv
  OBVIOUS
<1>1. PICK l \in HalThreads : code = [u \in Threads |-> IF u = l THEN StaticInitializer ELSE <<>>]
  BY DEF ObjectInit
<1>2. /\ ptr = [t \in Threads |-> Nil] /\ iter = [t \in Threads |-> Nil]
      /\ ids = [o \in Objects |-> {}] /\ refs = [o \in Objects |-> 0]
      /\ mem = [o \in Objects |-> "none"] /\ mIsActive = FALSE
      /\ list = <<>> /\ queue = <<>> /\ loaded = FALSE
      /\ at = [t \in Threads |-> "out"]
  BY DEF ObjectInit, LockInit
<1>3. l \in Threads /\ Queue \in Threads /\ Queue # l /\ HalThreads \subseteq Threads
  BY ObjectsAssumption
<1> DEFINE g == [u \in Threads |-> IF u = l THEN As("start") ELSE As("none")]
<1>4. /\ As("start") \in Uses /\ As("start").role = "start" /\ As("start").found = "no"
      /\ As("none") \in Uses /\ As("none").role = "none" /\ As("none").found = "no"
  BY AsType, TheRoles
<1>5. g \in [Threads -> Uses] /\ g[l] = As("start") /\ \A u \in Threads : u # l => g[u] = As("none")
  BY <1>3, <1>4
<1> HIDE DEF g
<1>6. \A u \in Threads : g[u].found = "no" /\ g[u].role \in {"start", "none"}
  BY <1>4, <1>5
<1>7. FollowInv(g)
  <2>1. \A u \in Threads : Leads(code[u], g[u], As("none"))
    BY <1>1, <1>5, LeadsStaticInitializer, LeadsCalls
  <2> QED BY <1>5, <2>1 DEF FollowInv
<1>8. FoundInv(g)
  <2>1. \A u \in Threads : FoundOK(u, "no")
    BY <1>2, IDsApart DEF FoundOK
  <2> QED BY <1>6, <2>1 DEF FoundInv
<1>9. RoleInv(g)
  <2>1. \A u \in Threads : RoleOK(u, "start") /\ RoleOK(u, "none")
    BY <1>2 DEF RoleOK, Creating
  <2> QED BY <1>6, <2>1 DEF RoleInv
<1>10. AccountInv(g, "early")
  <2>1. ASSUME NEW o \in Objects PROVE Counted(g, "early", o)
    <3>1. Borrowers(g, o) = {}
      BY <1>6 DEF Borrowers, Borrowing
    <3>2. ids[o] = {} /\ refs[o] = 0 /\ ~Kept(o, "early")
      BY <1>2 DEF Kept
    <3> QED BY <3>1, <3>2, FS_EmptySet DEF Counted
  <2> QED BY <2>1 DEF AccountInv
<1>11. "device" \in Objects /\ "plug-in" \in Objects
  BY DEF Objects
<1>12. EntryInv
  BY <1>2, <1>11 DEF EntryInv
<1>13. LoadInv(g, l, "early")
  <2>1. Unmade(g[l].role)
    BY <1>2, <1>11 DEF Unmade
  <2> QED BY <1>1, <1>2, <1>4, <1>5, <1>11, <2>1 DEF LoadInv, Early
<1>14. DOMAIN queue = {}
  BY <1>2, EmptyDomain, Zenon
<1>15. StageInv(g, "early")
  BY <1>3, <1>6, <1>14 DEF StageInv, Removing
<1>16. ActiveInv(g, l, "early") /\ "early" \in Stages
  BY <1>2 DEF ActiveInv, Stages
<1>17. DestroyInv(g)
  BY <1>3, <1>6, <1>14 DEF DestroyInv
<1>18. Refer(g, l, "early")
  BY <1>7, <1>8, <1>9, <1>10, <1>12, <1>13, <1>15, <1>16, <1>17 DEF Refer
<1> QED BY <1>18 DEF ReferenceInv

\* Every step accounts for the references that it takes and gives.
LEMMA ReferNext == ObjectInv /\ ReferenceInv /\ [ObjectNext]_vars => ReferenceInv'
<1> SUFFICES ASSUME ObjectInv, ReferenceInv, [ObjectNext]_vars PROVE ReferenceInv'
  OBVIOUS
<1>1. PICK g, l, s : Refer(g, l, s)
  BY DEF ReferenceInv
<1>2. ASSUME NEW t \in Threads, Step(t) PROVE ReferenceInv'
  BY <1>1, <1>2, UseMutex, UseFind, UseMap, UseUnmap, UseCopy, UseRelease, UseNew, UseDestroy,
     UseOpen, UseSetActive, UseEditList, UseWork, UseLoaded DEF Step
<1>3. ASSUME NEW t \in HalThreads, Call(t) PROVE ReferenceInv'
  BY <1>1, <1>3, UseCall
<1>4. CASE RunBlock
  BY <1>1, <1>4, UseRunBlock
<1>5. CASE UNCHANGED vars
  <2>1. UNCHANGED <<code, ptr, iter, ids, refs, mem, mIsActive, list, queue, loaded, at, wants>>
    BY <1>5 DEF vars, objVars, mapVars, lockVars
  <2>2. Refer(g, l, s)'
    <3>1. FollowInv(g)' /\ FoundInv(g)' /\ RoleInv(g)'
      BY <1>1, <2>1 DEF Refer, FollowInv, FoundInv, FoundOK, RoleInv, RoleOK
    <3>2. \A o \in Objects : (Borrowers(g, o)' = Borrowers(g, o)) /\ (Kept(o, s)' <=> Kept(o, s))
      BY <2>1 DEF Borrowers, Kept
    <3>3. AccountInv(g, s)'
      BY <1>1, <2>1, <3>2 DEF Refer, AccountInv, Counted
    <3>4. EntryInv' /\ StageInv(g, s)' /\ ActiveInv(g, l, s)' /\ DestroyInv(g)'
      BY <1>1, <2>1 DEF Refer, EntryInv, StageInv, ActiveInv, DestroyInv
    <3>5. LoadInv(g, l, s)'
      <4>1. Unmade(g[l].role)' = Unmade(g[l].role)
        BY <2>1 DEF Unmade
      <4> QED BY <1>1, <2>1, <4>1 DEF Refer, LoadInv
    <3> QED BY <1>1, <3>1, <3>3, <3>4, <3>5 DEF Refer
  <2> QED BY <2>2 DEF ReferenceInv
<1> QED BY <1>2, <1>3, <1>4, <1>5 DEF ObjectNext

\* The references are accounted for in every state.
LEMMA ReferencesAlways == ObjectSpec => []ReferenceInv
  BY ReferInit, ReferNext, ObjectInvAlways, PTL DEF ObjectSpec

\* SA_Object.h:133, for any number of threads and calls: a thread holds a
\* reference while it uses an object, so that no step of a call, of the creation
\* or of the removal touches one that _DestroyObject has deleted, the device is
\* deleted at most once, and what std::find found is still in the list when it
\* is used.
THEOREM NothingIsUsedAfterFree == ObjectSpec => []NoUseAfterFree
<1>1. ObjectInv /\ ReferenceInv => NoUseAfterFree
  BY ReferencesSuffice
<1> QED BY <1>1, ObjectInvAlways, ReferencesAlways, PTL

\* A device ID that SA_PlugIn publishes resolves to a live object, and so do the
\* stream IDs of an active device, whatever calls cross its creation or removal.
THEOREM PublishedIDsResolve == ObjectSpec => []PublishedResolve
<1>1. ObjectInv /\ ReferenceInv => PublishedResolve
  BY ReferencesResolve
<1> QED BY <1>1, ObjectInvAlways, ReferencesAlways, PTL

-----------------------------------------------------------------------------
(* The lives of the objects.                                               *)

\* The program deletes an object next.
Deletes(c) == c # <<>> /\ Head(c)[1] = "delete"

\* Exactly the thread that destroys is about to delete.
LEMMA DeletesIsARole ==
  ASSUME NEW c, NEW u \in Uses, Leads(c, u, As("none"))
  PROVE  Deletes(c) <=> u.role = "destroy"
<1>1. CASE c = <<>>
  <2>1. u = As("none") /\ As("none").role = "none"
    BY <1>1, NothingPath, AsType, TheRoles DEF Leads
  <2> QED BY <1>1, <2>1 DEF Deletes
<1>2. CASE c # <<>>
  <2>1. /\ Head(c) \in Instructions
        /\ \E e \in Uses : <<Head(c), u, e>> \in UseEffects
    BY <1>2, PathHead DEF Leads
  <2>2. PICK e \in Uses : UseEffect(Head(c)[1], Head(c)[2], u, e)
    BY <2>1, UseEffectsAre
  <2>3. PICK op, a : op = Head(c)[1] /\ a = Head(c)[2]
    OBVIOUS
  <2>4. op = "delete" => u.role = "destroy"
    BY <2>2, <2>3 DEF UseEffect, Move
  <2>5. u.role = "destroy" => op = "delete"
    <3>1. op \in {"lock", "unlock", "find ID", "map", "unmap", "copy", "check", "new", "add",
                  "remove", "find object", "release", "delete", "open", "activate", "deactivate",
                  "remove all", "use", "loaded"}
      BY <2>1, <2>3 DEF Instructions
    <3> QED BY <2>2, <2>3, <3>1 DEF UseEffect, Move
  <2> QED BY <1>2, <2>3, <2>4, <2>5 DEF Deletes
<1> QED BY <1>1, <1>2

\* No instruction leads to a deletion.
LEMMA NothingLeadsToDelete ==
  ASSUME NEW op, NEW a, <<op, a>> \in Instructions, NEW u, NEW e, UseEffect(op, a, u, e)
  PROVE  e.role # "destroy"
<1>1. op \in {"lock", "unlock", "find ID", "map", "unmap", "copy", "check", "new", "add",
              "remove", "find object", "release", "delete", "open", "activate", "deactivate",
              "remove all", "use", "loaded"}
  BY DEF Instructions
<1> QED BY <1>1 DEF UseEffect, Move

\* No step but the queue's begins or ends a deletion.
LEMMA SameBegun ==
  ASSUME ObjectInv, NEW g, NEW l, NEW s, Refer(g, l, s), NEW t \in Threads, NEW op, At(t, op),
         op # "delete", \A u \in Threads : u # t => ptr'[u] = ptr[u],
         NEW c \in {Tail(code[t]), <<>>, CreateFailed}, code' = [code EXCEPT ![t] = c]
  PROVE  \A o : Begun(o)' <=> Begun(o)
<1>1. ~Deletes(code[t])
  BY DEF Deletes, At
<1>2. ~Deletes(Tail(code[t]))
  <2>1. PICK e \in Uses : UseEffect(op, Arg(t), g[t], e) /\ Leads(Tail(code[t]), e, As("none"))
    BY NextUse, ReferTypes
  <2>2. <<op, Arg(t)>> \in Instructions
    BY NextUse, ReferTypes
  <2> QED BY <2>1, <2>2, NothingLeadsToDelete, DeletesIsARole
<1>3. ~Deletes(CreateFailed)
  <2>1. As("listed") \in Uses /\ As("listed").role # "destroy"
    BY AsType, TheRoles
  <2> QED BY <2>1, LeadsCreateFailed, DeletesIsARole
<1>4. ~Deletes(<<>>)
  BY DEF Deletes
<1>5. code'[t] = c /\ \A u \in Threads : u # t => code'[u] = code[u]
  BY ReferTypes
<1>6. Queue \in Threads
  BY ObjectsAssumption
<1>7. CASE t = Queue
  <2>1. ~Deletes(code[Queue]) /\ ~Deletes(code'[Queue])
    BY <1>1, <1>2, <1>3, <1>4, <1>5, <1>7
  <2> QED BY <2>1 DEF Begun, Deletes
<1>8. CASE t # Queue
  BY <1>5, <1>6, <1>8 DEF Begun
<1> QED BY <1>7, <1>8

\* What becomes of one object.
LEMMA OneLife ==
  ASSUME NEW o \in Objects, NEW b, NEW a, Life[o] = b, Life'[o] = a,
         \A x \in Objects : x # o => Life'[x] = Life[x]
  PROVE  Lives!Becomes(o, b, a)
<1>1. Life' = [Life EXCEPT ![o] = a]
  BY DEF Life
<1> QED BY <1>1 DEF Lives!Becomes

\* An object that the step does not concern.
LEMMA SameLifeOf ==
  ASSUME NEW o \in Objects, mem'[o] = mem[o], ids'[o] = {} <=> ids[o] = {},
         Dispatched(o)' <=> Dispatched(o), Begun(o)' <=> Begun(o)
  PROVE  Life'[o] = Life[o]
  BY DEF Life

\* No object that the step concerns.
LEMMA SameLife ==
  ASSUME \A o \in Objects : Life'[o] = Life[o]
  PROVE  Life' = Life
  BY DEF Life

\* The entry of an object is erased and its destruction dispatched.
LEMMA EraseDrops ==
  ASSUME ObjectInv, EntryInv, NEW o \in Objects, ids[o] # {}, Erase(o), mem' = mem,
         \A x : Begun(x)' <=> Begun(x)
  PROVE  Lives!Drop(o)
<1>1. mem[o] = "alive"
  BY DEF EntryInv
<1>2. ids'[o] = {} /\ \A x \in Objects : x # o => ids'[x] = ids[x]
  BY DEF Erase, ObjectInv, ObjectTypeOK
<1>3. PICK n : /\ n \notin DOMAIN queue /\ DOMAIN queue' = DOMAIN queue \cup {n}
               /\ queue'[n] = Block(DestroyBlock, o)
               /\ \A i \in DOMAIN queue : queue'[i] = queue[i]
  BY QueueGrows DEF Erase, ObjectInv
<1>4. Dispatched(o)'
  BY <1>3 DEF Dispatched
<1>5. ASSUME NEW x \in Objects, x # o PROVE Dispatched(x)' <=> Dispatched(x)
  <2>1. Block(DestroyBlock, o) # Block(DestroyBlock, x)
    BY <1>5 DEF Block
  <2> QED BY <1>3, <2>1 DEF Dispatched
<1>6. Life[o] = "mapped" /\ Life'[o] = "doomed"
  BY <1>1, <1>2, <1>4 DEF Life
<1>7. \A x \in Objects : x # o => Life'[x] = Life[x]
  BY <1>2, <1>5, SameLifeOf
<1> QED BY <1>6, <1>7, OneLife DEF Lives!Drop

\* An instruction that only goes on.
LEMMA AdvanceKeepsBegun ==
  ASSUME ObjectInv, NEW g, NEW l, NEW s, Refer(g, l, s), NEW t \in Threads, NEW op, At(t, op),
         op # "delete", \A u \in Threads : u # t => ptr'[u] = ptr[u], Advance(t)
  PROVE  \A o : Begun(o)' <=> Begun(o)
<1>1. code' = [code EXCEPT ![t] = Tail(code[t])]
  BY DEF Advance
<1> QED BY <1>1, SameBegun

\* The steps that do not alter the map, the queue or what is constructed.
LEMMA LifeQuiet ==
  ASSUME ObjectInv, NEW g, NEW l, NEW s, Refer(g, l, s), NEW t \in Threads,
         Mutex(t) \/ Find(t) \/ Copy(t) \/ HW_Open(t) \/ SetActive(t) \/ Work(t) \/ Loaded(t)
  PROVE  Life' = Life
<1>1. UNCHANGED <<ids, mem, queue>>
  BY DEF Mutex, Find, Copy, HW_Open, SetActive, Work, Loaded, mapVars
<1>2. \A u \in Threads : u # t => ptr'[u] = ptr[u]
  BY ReferTypes DEF Mutex, Find, Copy, HW_Open, SetActive, Work, Loaded
<1>3. \A o : Begun(o)' <=> Begun(o)
  <2>1. CASE UNCHANGED <<code, ptr>>
    BY <2>1 DEF Begun
  <2>2. ASSUME NEW op, At(t, op), op # "delete",
               NEW c \in {Tail(code[t]), <<>>, CreateFailed}, code' = [code EXCEPT ![t] = c]
        PROVE  \A o : Begun(o)' <=> Begun(o)
    BY <1>2, <2>2, SameBegun
  <2>3. CASE Mutex(t)
    BY <2>1, <2>2, <2>3 DEF Mutex, Advance
  <2>4. CASE Find(t) \/ Copy(t) \/ SetActive(t) \/ Loaded(t)
    BY <2>2, <2>4 DEF Find, Copy, SetActive, Loaded, Advance
  <2>5. CASE HW_Open(t)
    BY <2>2, <2>5 DEF HW_Open, Advance
  <2>6. CASE Work(t)
    <3>1. At(t, "check") \/ At(t, "use")
      BY <2>6 DEF Work
    <3>2. code' = [code EXCEPT ![t] = Tail(code[t])] \/ code' = [code EXCEPT ![t] = <<>>]
      BY <2>6 DEF Work, Advance
    <3> QED BY <2>2, <3>1, <3>2
  <2> QED BY <2>3, <2>4, <2>5, <2>6
<1>4. \A o \in Objects : Life'[o] = Life[o]
  BY <1>1, <1>3, SameLifeOf DEF Dispatched
<1> QED BY <1>4, SameLife

\* Who is being loaded has nothing on the queue.
LEMMA NothingDoomed ==
  ASSUME NEW g, NEW l, NEW s, Refer(g, l, s), s \in {"early", "creating"}
  PROVE  \A o : ~Dispatched(o) /\ ~Begun(o)
<1>1. Queue \in Threads /\ Queue # l
  BY ObjectsAssumption DEF Refer
<1>2. queue = <<>> /\ code[Queue] = <<>>
  BY <1>1 DEF Refer, LoadInv
<1>3. DOMAIN queue = {}
  BY <1>2, EmptyDomain, Zenon
<1> QED BY <1>2, <1>3 DEF Dispatched, Begun

\* Construction.
LEMMA LifeNew ==
  ASSUME ObjectInv, NEW g, NEW l, NEW s, Refer(g, l, s), NEW t \in Threads, New(t)
  PROVE  \E o \in Objects : Lives!Construct(o)
<1>1. PICK o : o = Arg(t)
  OBVIOUS
<1>2. /\ At(t, "new") /\ Advance(t) /\ UNCHANGED <<ids, queue>>
      /\ mem' = [mem EXCEPT ![o] = "alive"] /\ ptr' = [ptr EXCEPT ![t] = o]
  BY <1>1 DEF New, mapVars
<1>3. PICK e \in Uses : UseEffect("new", o, g[t], e)
  BY <1>1, <1>2, NextUse, ReferTypes
<1>4. \/ o = "plug-in" /\ g[t].role = "start"
      \/ o = "device" /\ g[t].role = "made plug-in"
  BY <1>3 DEF UseEffect, Move
<1>5. t = l /\ s = "early" /\ o \in Objects
  <2>1. g[t].role \in Early
    BY <1>4 DEF Early
  <2> QED BY <1>4, <2>1, CreatingStage DEF Objects
<1>6. mem[o] = "none"
  <2>1. Unmade(g[t].role)
    BY <1>5 DEF Refer, LoadInv
  <2> QED BY <1>4, <2>1 DEF Unmade
<1>7. ids'[o] = {}
  <2>1. ids[o] # {} => mem[o] = "alive"
    BY <1>5 DEF Refer, EntryInv
  <2> QED BY <1>2, <1>6, <2>1
<1>8. mem'[o] = "alive" /\ \A x \in Objects : x # o => mem'[x] = mem[x]
  BY <1>2, <1>5 DEF ObjectInv, ObjectTypeOK
<1>9. \A x : Begun(x)' <=> Begun(x)
  <2>1. \A u \in Threads : u # t => ptr'[u] = ptr[u]
    BY <1>2, ReferTypes
  <2> QED BY <1>2, <2>1, AdvanceKeepsBegun
<1>10. \A x : Dispatched(x)' <=> Dispatched(x)
  BY <1>2 DEF Dispatched
<1>11. ~Dispatched(o)' /\ ~Begun(o)'
  BY <1>5, <1>9, <1>10, NothingDoomed
<1>12. Life[o] = "none" /\ Life'[o] = "made"
  BY <1>5, <1>6, <1>7, <1>8, <1>11 DEF Life
<1>13. \A x \in Objects : x # o => Life'[x] = Life[x]
  BY <1>2, <1>8, <1>9, <1>10, SameLifeOf
<1> QED BY <1>5, <1>12, <1>13, OneLife DEF Lives!Construct

\* MapObject: the first ID of an object enters it.
LEMMA LifeMap ==
  ASSUME ObjectInv, NEW g, NEW l, NEW s, Refer(g, l, s), NEW t \in Threads, Map(t)
  PROVE  (\E o \in Objects : Lives!Enter(o)) \/ Life' = Life
<1>1. /\ At(t, "map") /\ Advance(t) /\ UNCHANGED <<ptr, mem, queue>>
      /\ iter[t] = Nil => ids' = [ids EXCEPT ![ptr[t]] = @ \cup {Arg(t)}]
      /\ iter[t] # Nil => ids' = ids
  BY DEF Map, mapVars
<1>2. \A x : (Begun(x)' <=> Begun(x)) /\ (Dispatched(x)' <=> Dispatched(x))
  <2>1. \A u \in Threads : u # t => ptr'[u] = ptr[u]
    BY <1>1
  <2>2. \A x : Begun(x)' <=> Begun(x)
    BY <1>1, <2>1, AdvanceKeepsBegun
  <2> QED BY <1>1, <2>2 DEF Dispatched
<1>3. PICK e \in Uses : UseEffect("map", Arg(t), g[t], e)
  BY <1>1, NextUse, ReferTypes
<1>4. g[t].role \in {"new plug-in", "new device", "listed"}
  BY <1>3 DEF UseEffect, Move
<1>5. t = l /\ s = IF g[t].role = "listed" THEN "creating" ELSE "early"
  <2>1. g[t].role \in (IF g[t].role = "listed" THEN Creating ELSE Early)
    BY <1>4 DEF Early, Creating
  <2> QED BY <2>1, CreatingStage
<1>6. PICK o : o = ptr[t]
  OBVIOUS
<1>7. o \in Objects /\ mem[o] = "alive"
  <2>1. RoleOK(t, g[t].role) /\ LoadInv(g, l, s)
    BY ReferTypes DEF RoleInv, Refer
  <2>2. o = IF g[t].role = "new plug-in" THEN "plug-in" ELSE "device"
    BY <1>4, <1>6, <2>1 DEF RoleOK, Creating
  <2>3. g[t].role # "listed" => mem[o] = "alive"
    BY <1>4, <1>5, <2>1, <2>2 DEF LoadInv
  <2>4. "device" \in Objects /\ "plug-in" \in Objects
    BY DEF Objects
  <2>5. g[t].role = "listed" => mem["device"] = "alive"
    BY <1>5, <2>4, StillThere DEF Kept
  <2> QED BY <1>4, <2>2, <2>3, <2>4, <2>5
<1>8. \A x \in Objects : x # o => ids'[x] = ids[x]
  BY <1>1, <1>6, ReferTypes
<1>9. \A x \in Objects : x # o => Life'[x] = Life[x]
  BY <1>1, <1>2, <1>8, SameLifeOf
<1>10. CASE iter[t] = Nil /\ ids[o] = {}
  <2>1. ids'[o] = ids[o] \cup {Arg(t)}
    BY <1>1, <1>6, <1>7, <1>10, ReferTypes
  <2>2. ~Dispatched(o) /\ ~Begun(o)
    BY <1>5, NothingDoomed
  <2>3. Life[o] = "made" /\ Life'[o] = "mapped"
    <3>1. ids'[o] # {}
      BY <2>1
    <3> QED BY <1>1, <1>7, <1>10, <2>2, <3>1 DEF Life
  <2> QED BY <1>7, <1>9, <2>3, OneLife DEF Lives!Enter
<1>11. CASE ~(iter[t] = Nil /\ ids[o] = {})
  <2>1. ids'[o] = {} <=> ids[o] = {}
    BY <1>1, <1>6, <1>7, <1>11, ReferTypes
  <2>2. Life'[o] = Life[o]
    BY <1>1, <1>2, <1>7, <2>1, SameLifeOf
  <2> QED BY <1>9, <2>2, SameLife
<1> QED BY <1>10, <1>11

\* The last ID goes, or the last reference.
LEMMA LifeDrop ==
  ASSUME ObjectInv, NEW g, NEW l, NEW s, Refer(g, l, s), NEW t \in Threads, Unmap(t) \/ Release(t)
  PROVE  (\E o \in Objects : Lives!Drop(o)) \/ Life' = Life
<1>1. PICK op \in {"unmap", "release"} : At(t, op)
  BY DEF Unmap, Release
<1>2. Advance(t) /\ UNCHANGED <<ptr, mem>>
  BY DEF Unmap, Release
<1>3. \A x : Begun(x)' <=> Begun(x)
  <2>1. \A u \in Threads : u # t => ptr'[u] = ptr[u]
    BY <1>2
  <2> QED BY <1>1, <1>2, <2>1, AdvanceKeepsBegun
<1>4. PICK o : o = iter[t]
  OBVIOUS
<1>5. o # Nil => o \in Objects /\ ids[o] # {}
  <2>1. NoUseAfterFree
    BY ReferencesSuffice DEF ReferenceInv
  <2>2. o \in Objects \cup {Nil}
    BY <1>4, ReferTypes
  <2> QED BY <1>4, <2>1, <2>2 DEF NoUseAfterFree
<1>6. \/ o # Nil /\ Erase(o)
      \/ UNCHANGED <<ids, queue>>
      \/ o # Nil /\ ids' = [ids EXCEPT ![o] = @ \ {Arg(t)}] /\ ids[o] # {Arg(t)} /\ queue' = queue
  BY <1>4 DEF Unmap, Release, mapVars
<1>7. CASE o # Nil /\ Erase(o)
  <2>1. EntryInv
    BY DEF Refer
  <2>2. Lives!Drop(o)
    BY <1>2, <1>3, <1>5, <1>7, <2>1, EraseDrops
  <2> QED BY <1>5, <1>7, <2>2
<1>8. ASSUME \A x \in Objects : ids'[x] = {} <=> ids[x] = {}, queue' = queue
      PROVE  Life' = Life
  <2>1. \A x \in Objects : Life'[x] = Life[x]
    BY <1>2, <1>3, <1>8, SameLifeOf DEF Dispatched
  <2> QED BY <2>1, SameLife
<1>9. CASE UNCHANGED <<ids, queue>>
  BY <1>8, <1>9
<1>10. CASE o # Nil /\ ids' = [ids EXCEPT ![o] = @ \ {Arg(t)}] /\ ids[o] # {Arg(t)} /\ queue' = queue
  <2>1. \A x \in Objects : x # o => ids'[x] = ids[x]
    BY <1>10, ReferTypes
  <2>2. ids'[o] = ids[o] \ {Arg(t)}
    BY <1>5, <1>10, ReferTypes
  <2>3. ids'[o] # {}
    BY <1>5, <1>10, <2>2
  <2> QED BY <1>5, <1>8, <1>10, <2>1, <2>3
<1> QED BY <1>6, <1>7, <1>9, <1>10

\* The block that deletes.
LEMMA LifeDestroy ==
  ASSUME ObjectInv, NEW g, NEW l, NEW s, Refer(g, l, s), NEW t \in Threads, DestroyObject(t)
  PROVE  \E o \in Objects : Lives!Delete(o)
<1>1. /\ At(t, "delete") /\ Advance(t) /\ UNCHANGED <<ptr, ids, queue>>
      /\ mem' = [mem EXCEPT ![ptr[t]] = "deleted"]
  BY DEF DestroyObject, mapVars
<1>2. PICK e \in Uses : UseEffect("delete", Arg(t), g[t], e)
  BY <1>1, NextUse, ReferTypes
<1>3. g[t].role = "destroy"
  BY <1>2 DEF UseEffect, Move
<1>4. t = Queue /\ ptr[t] = "device" /\ "device" \in Objects
  <2>1. t = Queue
    BY <1>3, RemovingStage
  <2>2. ptr[t] = "device"
    BY <1>3, ReferTypes DEF RoleInv, RoleOK
  <2> QED BY <2>1, <2>2 DEF Objects
<1>5. ids["device"] = {} /\ mem["device"] = "alive"
  BY <1>3, <1>4 DEF Refer, DestroyInv
<1>6. Begun("device")
  BY <1>1, <1>4 DEF Begun, At
<1>7. mem'["device"] = "deleted" /\ \A x \in Objects : x # "device" => mem'[x] = mem[x]
  BY <1>1, <1>4 DEF ObjectInv, ObjectTypeOK
<1>8. Life["device"] = "doomed" /\ Life'["device"] = "deleted"
  BY <1>4, <1>5, <1>6, <1>7 DEF Life
<1>9. ASSUME NEW x \in Objects, x # "device" PROVE Life'[x] = Life[x]
  <2>1. ~Begun(x) /\ ~Begun(x)'
    BY <1>1, <1>4, <1>9 DEF Begun
  <2>2. (Dispatched(x)' <=> Dispatched(x)) /\ mem'[x] = mem[x] /\ (ids'[x] = {} <=> ids[x] = {})
    BY <1>1, <1>7, <1>9 DEF Dispatched
  <2> QED BY <2>1, <2>2, SameLifeOf
<1> QED BY <1>4, <1>8, <1>9, OneLife DEF Lives!Delete

\* The sequence z is q and then r.
Joins(q, r, z) == \E S, T : q \in Seq(S) /\ r \in Seq(T) /\ z = q \o r

\* A block that is not among the new ones is on the queue only if it was.
LEMMA AmongBoth ==
  ASSUME NEW q, NEW r, NEW z, Joins(q, r, z), NEW b, \A i \in DOMAIN r : r[i] # b
  PROVE  (\E i \in DOMAIN z : z[i] = b) <=> (\E i \in DOMAIN q : q[i] = b)
<1> DEFINE n == Len(q)
           m == Len(r)
<1>0. PICK S, T : q \in Seq(S) /\ r \in Seq(T) /\ z = q \o r
  BY DEF Joins
<1>1. n \in Nat /\ m \in Nat /\ DOMAIN q = 1 .. n /\ DOMAIN r = 1 .. m
  BY <1>0
<1>2. /\ DOMAIN z = 1 .. n + m
      /\ \A i \in 1 .. n : z[i] = q[i]
      /\ \A i \in n + 1 .. n + m : z[i] = r[i - n]
  BY <1>0
<1> HIDE DEF n, m
<1>3. ASSUME NEW i \in DOMAIN z, z[i] = b PROVE i \in DOMAIN q /\ q[i] = b
  <2>1. i \in 1 .. n \/ i \in n + 1 .. n + m
    BY <1>1, <1>2
  <2>2. i \in n + 1 .. n + m => i - n \in 1 .. m
    BY <1>1
  <2> QED BY <1>1, <1>2, <1>3, <2>1, <2>2
<1>4. ASSUME NEW i \in DOMAIN q, q[i] = b PROVE i \in DOMAIN z /\ z[i] = b
  BY <1>1, <1>2, <1>4
<1> QED BY <1>3, <1>4

\* A function of the elements of a sequence is a sequence.
LEMMA MapSequence ==
  ASSUME NEW S, NEW q \in Seq(S), NEW T, NEW r \in [DOMAIN q -> T]
  PROVE  r \in Seq(T)
  OBVIOUS

\* The device list: the blocks for it delete nothing.
LEMMA LifeEditList ==
  ASSUME ObjectInv, NEW g, NEW l, NEW s, Refer(g, l, s), NEW t \in Threads, EditList(t)
  PROVE  Life' = Life
<1>1. PICK op : At(t, op) /\ op # "delete"
  <2> DEFINE Ops == {"add", "remove", "remove all"}
  <2>1. \E o \in Ops : At(t, o)
    BY DEF EditList
  <2>2. "delete" \notin Ops
    OBVIOUS
  <2> HIDE DEF Ops
  <2> QED BY <2>1, <2>2
<1>2. Advance(t) /\ UNCHANGED <<ptr, mem, ids>>
  BY DEF EditList, mapVars
<1>3. \A x : Begun(x)' <=> Begun(x)
  <2>1. \A u \in Threads : u # t => ptr'[u] = ptr[u]
    BY <1>2
  <2> QED BY <1>1, <1>2, <2>1, AdvanceKeepsBegun
<1>4. ASSUME NEW x \in Objects PROVE Dispatched(x)' <=> Dispatched(x)
  <2> DEFINE more == [i \in DOMAIN list |->
                       Block(IF list[i] = DeviceID THEN RemoveBlock ELSE <<>>, Nil)]
             old == Block(DestroyBlock, x)
  <2>1. queue' = queue \/ queue' = queue \o more
    BY DEF EditList
  <2>2. queue \in Seq(Blocks) /\ list \in Seq({DeviceID, Nil})
    BY DEF ObjectInv, QueueInv, ObjectTypeOK
  <2>3. \A i \in DOMAIN more : more[i].ptr = Nil
    BY DEF Block
  <2>4. old.ptr = x /\ x # Nil
    BY IDsApart DEF Block
  <2>5. PICK T : more \in Seq(T)
    <3>1. PICK d : d = list
      OBVIOUS
    <3> DEFINE T == {Block(RemoveBlock, Nil), Block(<<>>, Nil)}
    <3>2. more \in [DOMAIN d -> T]
      BY <3>1
    <3> HIDE DEF T, more
    <3>3. more \in Seq(T)
      BY <2>2, <3>1, <3>2, MapSequence
    <3> QED BY <3>3
  <2>6. PICK r : r = more
    OBVIOUS
  <2>7. PICK b : b = old
    OBVIOUS
  <2> HIDE DEF more, old
  <2>8. \A i \in DOMAIN r : r[i] # b
    BY <2>3, <2>4, <2>6, <2>7
  <2>9. ASSUME queue' = queue \o more
        PROVE  (\E i \in DOMAIN queue' : queue'[i] = b) <=> (\E i \in DOMAIN queue : queue[i] = b)
    <3>1. PICK q \in Seq(Blocks) : q = queue
      BY <2>2
    <3>2. PICK z : z = queue'
      OBVIOUS
    <3>3. Joins(q, r, z)
      <4>1. r \in Seq(T) /\ z = q \o r
        BY <2>5, <2>6, <2>9, <3>1, <3>2
      <4> QED BY <3>1, <4>1 DEF Joins
    <3>4. (\E i \in DOMAIN z : z[i] = b) <=> (\E i \in DOMAIN q : q[i] = b)
      BY <2>8, <3>3, AmongBoth
    <3> QED BY <3>1, <3>2, <3>4
  <2>10. /\ Dispatched(x) <=> \E i \in DOMAIN queue : queue[i] = b
         /\ Dispatched(x)' <=> \E i \in DOMAIN queue' : queue'[i] = b
    BY <2>7 DEF Dispatched, old
  <2> QED BY <2>1, <2>9, <2>10
<1>5. \A o \in Objects : Life'[o] = Life[o]
  BY <1>2, <1>3, <1>4, SameLifeOf
<1> QED BY <1>5, SameLife

\* A sequence is its first element and the rest.
LEMMA AmongHead ==
  ASSUME NEW S, NEW q \in Seq(S), q # <<>>, NEW z, z = Tail(q), NEW b
  PROVE  (\E i \in DOMAIN q : q[i] = b) <=> (Head(q) = b \/ \E i \in DOMAIN z : z[i] = b)
<1> DEFINE n == Len(q)
<1>1. n \in Nat /\ n > 0 /\ DOMAIN q = 1 .. n /\ Head(q) = q[1]
  OBVIOUS
<1>2. DOMAIN z = 1 .. n - 1 /\ \A i \in 1 .. n - 1 : z[i] = q[i + 1]
  OBVIOUS
<1> HIDE DEF n
<1>3. ASSUME NEW i \in DOMAIN q, q[i] = b PROVE q[1] = b \/ \E j \in DOMAIN z : z[j] = b
  <2>1. i = 1 \/ i - 1 \in 1 .. n - 1
    BY <1>1
  <2>2. i - 1 \in 1 .. n - 1 => z[i - 1] = q[i]
    BY <1>1, <1>2
  <2> QED BY <1>2, <1>3, <2>1, <2>2
<1>4. ASSUME NEW i \in DOMAIN z, z[i] = b PROVE \E j \in DOMAIN q : q[j] = b
  <2>1. i + 1 \in 1 .. n /\ q[i + 1] = b
    BY <1>1, <1>2, <1>4
  <2> QED BY <1>1, <2>1
<1>5. 1 \in DOMAIN q
  BY <1>1
<1> QED BY <1>1, <1>3, <1>4, <1>5

\* The queue's thread begins with the block that was on the queue.
LEMMA LifeRunBlock ==
  ASSUME ObjectInv, NEW g, NEW l, NEW s, Refer(g, l, s), RunBlock
  PROVE  Life' = Life
<1>1. /\ UNCHANGED <<ids, mem>> /\ code[Queue] = <<>> /\ queue # <<>> /\ queue' = Tail(queue)
      /\ code' = [code EXCEPT ![Queue] = Head(queue).code]
      /\ ptr' = [ptr EXCEPT ![Queue] = Head(queue).ptr]
  BY DEF RunBlock, Free, mapVars
<1>2. PICK b : b = Head(queue)
  OBVIOUS
<1>3. code'[Queue] = b.code /\ ptr'[Queue] = b.ptr
  <2>1. Queue \in Threads
    BY ObjectsAssumption
  <2> QED BY <1>1, <1>2, <2>1, ReferTypes
<1>4. queue \in Seq(Blocks)
  BY DEF ObjectInv, QueueInv
<1>5. b \in {Block(<<>>, Nil), Block(RemoveBlock, Nil), Block(DestroyBlock, "device")}
  <2>1. 1 \in DOMAIN queue /\ queue[1] = b
    BY <1>1, <1>2, <1>4
  <2> QED BY <2>1 DEF Refer, DestroyInv
<1>6. Deletes(DestroyBlock) /\ ~Deletes(RemoveBlock) /\ ~Deletes(<<>>)
  <2>1. /\ As("owner") \in Uses /\ As("owner").role # "destroy"
        /\ As("destroy") \in Uses /\ As("destroy").role = "destroy"
    BY AsType, TheRoles
  <2>2. Deletes(DestroyBlock) /\ ~Deletes(RemoveBlock)
    BY <2>1, LeadsRemoveBlock, LeadsCalls, DeletesIsARole
  <2> QED BY <2>2 DEF Deletes
<1>7. ASSUME NEW x \in Objects PROVE Dispatched(x)' \/ Begun(x)' <=> Dispatched(x) \/ Begun(x)
  <2>1. Begun(x)' <=> Deletes(b.code) /\ b.ptr = x
    BY <1>3 DEF Begun, Deletes
  <2>2. Deletes(b.code) /\ b.ptr = x <=> b = Block(DestroyBlock, x)
    <3>1. CASE b = Block(<<>>, Nil)
      BY <1>6, <3>1, BlocksApart DEF Block
    <3>2. CASE b = Block(RemoveBlock, Nil)
      BY <1>6, <3>2, BlocksApart DEF Block
    <3>3. CASE b = Block(DestroyBlock, "device")
      BY <1>6, <3>3 DEF Block
    <3> QED BY <1>5, <3>1, <3>2, <3>3
  <2>3. Dispatched(x) <=> b = Block(DestroyBlock, x) \/ Dispatched(x)'
    <3>1. PICK d : d = Block(DestroyBlock, x)
      OBVIOUS
    <3>2. PICK q \in Seq(Blocks) : q = queue
      BY <1>4
    <3>3. PICK z : z = queue'
      OBVIOUS
    <3>4. q # <<>> /\ z = Tail(q) /\ b = Head(q)
      BY <1>1, <1>2, <3>2, <3>3
    <3>5. (\E i \in DOMAIN q : q[i] = d) <=> (Head(q) = d \/ \E i \in DOMAIN z : z[i] = d)
      BY <3>4, AmongHead
    <3> QED BY <3>1, <3>2, <3>3, <3>4, <3>5 DEF Dispatched
  <2>4. ~Begun(x)
    BY <1>1 DEF Begun
  <2> QED BY <2>1, <2>2, <2>3, <2>4
<1>8. \A x \in Objects : Life'[x] = Life[x]
  BY <1>1, <1>7 DEF Life
<1> QED BY <1>8, SameLife

\* A call does not concern the queue.
LEMMA LifeCall ==
  ASSUME ObjectInv, NEW t \in HalThreads, Call(t)
  PROVE  Life' = Life
<1>1. UNCHANGED <<ids, mem, queue>>
  BY DEF Call, mapVars
<1>2. code'[Queue] = code[Queue] /\ ptr'[Queue] = ptr[Queue]
  <2>1. /\ Queue \in Threads /\ Queue # t /\ t \in Threads
        /\ code \in [Threads -> Seq(Instructions)] /\ ptr \in [Threads -> Objects \cup {Nil}]
    BY ObjectsAssumption DEF ObjectInv, CodeInv, ObjectTypeOK
  <2> QED BY <2>1 DEF Call
<1>3. \A x \in Objects : Life'[x] = Life[x]
  BY <1>1, <1>2, SameLifeOf DEF Dispatched, Begun
<1> QED BY <1>3, SameLife

\* The object map and the dispatch queue give every object one life: it is
\* constructed once, mapped once, dropped by _UnmapObject or _ReleaseObject once,
\* and deleted by _DestroyObject once, in this order, for any number of threads and
\* calls.  PlugInObjects implements ObjectLife under the mapping Life.
THEOREM ObjectsHaveOneLife == ObjectSpec => ImplementsLife
<1>1. ObjectInit => Lives!Init
  BY DEF ObjectInit, Lives!Init, Life
<1>2. ObjectInv /\ ReferenceInv /\ [ObjectNext]_vars => [Lives!Next]_Life
  <2> SUFFICES ASSUME ObjectInv, ReferenceInv, [ObjectNext]_vars
               PROVE  Lives!Next \/ Life' = Life
    OBVIOUS
  <2>1. PICK g, l, s : Refer(g, l, s)
    BY DEF ReferenceInv
  <2>2. ASSUME NEW t \in Threads, Step(t) PROVE Lives!Next \/ Life' = Life
    <3>1. CASE New(t)
      BY <2>1, <3>1, LifeNew DEF Lives!Next
    <3>2. CASE Map(t)
      BY <2>1, <3>2, LifeMap DEF Lives!Next
    <3>3. CASE Unmap(t) \/ Release(t)
      BY <2>1, <3>3, LifeDrop DEF Lives!Next
    <3>4. CASE DestroyObject(t)
      BY <2>1, <3>4, LifeDestroy DEF Lives!Next
    <3>5. CASE EditList(t)
      BY <2>1, <3>5, LifeEditList
    <3>6. CASE Mutex(t) \/ Find(t) \/ Copy(t) \/ HW_Open(t) \/ SetActive(t) \/ Work(t) \/ Loaded(t)
      BY <2>1, <3>6, LifeQuiet
    <3> QED BY <2>2, <3>1, <3>2, <3>3, <3>4, <3>5, <3>6 DEF Step
  <2>3. CASE \E t \in HalThreads : Call(t)
    BY <2>3, LifeCall
  <2>4. CASE RunBlock
    BY <2>1, <2>4, LifeRunBlock
  <2>5. CASE UNCHANGED vars
    BY <2>5 DEF vars, objVars, mapVars, Life, Dispatched, Begun
  <2> QED BY <2>2, <2>3, <2>4, <2>5 DEF ObjectNext
<1> QED
  BY <1>1, <1>2, ObjectInvAlways, ReferencesAlways, PTL DEF ObjectSpec, ImplementsLife, Lives!Spec
=============================================================================
