------------------------------- MODULE CAMutex -------------------------------
(***************************************************************************)
(* CAMutex makes a pthread mutex recursive: it keeps the owner beside it,  *)
(* tests that without holding the mutex, and lets a thread that is the     *)
(* owner pass.  A Locker takes it for a scope and remembers whether it was *)
(* the one that locked.  Lockers are scoped, so those of one thread on one *)
(* mutex end in the reverse order of their beginning.                      *)
(*                                                                         *)
(* The owner is read unsynchronised, and the test is only whether it is    *)
(* the reader: no other thread ever stores or clears that value, so a      *)
(* thread reads what it stored itself last, whatever the others do.        *)
(* External: pthread_mutex.  Only the branch for macOS is built; Try,      *)
(* Tryer and Unlocker have no users in the driver.                         *)
(***************************************************************************)
EXTENDS Integers

CONSTANTS Threads, Mutexes,
  None   \* no thread: mOwner = 0

ASSUME NoneAssumption == None \notin Threads

VARIABLES
  mOwner,    \* of each mutex
  pmutex,    \* who has locked the pthread mutex
  at,        \* where a thread stands in the lock's code: "out" of it, about to
             \* "lock" the pthread mutex, to store itself as the "own"er, or to
             \* "unlock" the pthread mutex
  wants,     \* the mutex that is about
  lockers,   \* how many Lockers a thread has on a mutex
  needs      \* those of them, oldest first from 1, whose mNeedsRelease is set

lockVars == <<mOwner, pmutex, at, wants, lockers, needs>>

LockInit ==
  /\ mOwner = [m \in Mutexes |-> None]
  /\ pmutex = [m \in Mutexes |-> None]
  /\ at = [t \in Threads |-> "out"]
  /\ wants = [t \in Threads |-> None]
  /\ lockers = [t \in Threads |-> [m \in Mutexes |-> 0]]
  /\ needs = [t \in Threads |-> [m \in Mutexes |-> {}]]

-----------------------------------------------------------------------------
\* A Locker is constructed: its thread owns the mutex, or goes to lock it.
Lock(t, m) ==
  /\ at[t] = "out"
  /\ IF mOwner[m] = t
       THEN /\ lockers' = [lockers EXCEPT ![t][m] = @ + 1]
            /\ UNCHANGED <<at, wants>>
       ELSE /\ at' = [at EXCEPT ![t] = "lock"] /\ wants' = [wants EXCEPT ![t] = m]
            /\ UNCHANGED lockers
  /\ UNCHANGED <<mOwner, pmutex, needs>>

pthread_mutex_lock(t) ==
  /\ at[t] = "lock" /\ pmutex[wants[t]] = None
  /\ pmutex' = [pmutex EXCEPT ![wants[t]] = t]
  /\ at' = [at EXCEPT ![t] = "own"]
  /\ UNCHANGED <<mOwner, wants, lockers, needs>>

\* Mutant of Locked: the Locker does not learn that it has locked.
Locked_NotNeeded(t) ==
  /\ at[t] = "own"
  /\ mOwner' = [mOwner EXCEPT ![wants[t]] = t]
  /\ lockers' = [lockers EXCEPT ![t][wants[t]] = @ + 1]
  /\ at' = [at EXCEPT ![t] = "out"] /\ wants' = [wants EXCEPT ![t] = None]
  /\ UNCHANGED <<pmutex, needs>>

\* The thread stores itself as the owner, and Lock returns true.
Locked(t) ==
  LET m == wants[t]
      n == lockers[t][m] + 1
  IN /\ at[t] = "own"
     /\ mOwner' = [mOwner EXCEPT ![m] = t]
     /\ lockers' = [lockers EXCEPT ![t][m] = n]
     /\ needs' = [needs EXCEPT ![t][m] = @ \cup {n}]
     /\ at' = [at EXCEPT ![t] = "out"] /\ wants' = [wants EXCEPT ![t] = None]
     /\ UNCHANGED pmutex

\* Mutant of Unlock: the owner is not cleared.
Unlock_KeepsOwner(t, m) ==
  LET n == lockers[t][m]
  IN /\ at[t] = "out" /\ n > 0
     /\ lockers' = [lockers EXCEPT ![t][m] = n - 1]
     /\ needs' = [needs EXCEPT ![t][m] = @ \ {n}]
     /\ IF n \in needs[t][m] /\ mOwner[m] = t
          THEN at' = [at EXCEPT ![t] = "unlock"] /\ wants' = [wants EXCEPT ![t] = m]
          ELSE UNCHANGED <<at, wants>>
     /\ UNCHANGED <<mOwner, pmutex>>

\* A Locker is destroyed: the one that locked clears the owner, and only then ...
Unlock(t, m) ==
  LET n == lockers[t][m]
  IN /\ at[t] = "out" /\ n > 0
     /\ lockers' = [lockers EXCEPT ![t][m] = n - 1]
     /\ needs' = [needs EXCEPT ![t][m] = @ \ {n}]
     /\ IF n \in needs[t][m] /\ mOwner[m] = t
          THEN /\ mOwner' = [mOwner EXCEPT ![m] = None]
               /\ at' = [at EXCEPT ![t] = "unlock"] /\ wants' = [wants EXCEPT ![t] = m]
          ELSE UNCHANGED <<mOwner, at, wants>>
     /\ UNCHANGED pmutex

\* ... unlocks the pthread mutex.
pthread_mutex_unlock(t) ==
  /\ at[t] = "unlock"
  /\ pmutex' = [pmutex EXCEPT ![wants[t]] = None]
  /\ at' = [at EXCEPT ![t] = "out"] /\ wants' = [wants EXCEPT ![t] = None]
  /\ UNCHANGED <<mOwner, lockers, needs>>

LockStep(t) == pthread_mutex_lock(t) \/ Locked(t) \/ pthread_mutex_unlock(t)

\* Any users: they construct and destroy Lockers as they like.
LockNext ==
  \E t \in Threads :
    LockStep(t) \/ \E m \in Mutexes : Lock(t, m) \/ Unlock(t, m)

LockSpec == LockInit /\ [][LockNext]_lockVars

-----------------------------------------------------------------------------
(* Properties.                                                             *)

Steps == {"out", "lock", "own", "unlock"}

\* Every variable stays in its type.
LockTypeOK ==
  /\ mOwner \in [Mutexes -> Threads \cup {None}]
  /\ pmutex \in [Mutexes -> Threads \cup {None}]
  /\ at \in [Threads -> Steps]
  /\ wants \in [Threads -> Mutexes \cup {None}]
  /\ \A t \in Threads : at[t] # "out" => wants[t] \in Mutexes
  /\ lockers \in [Threads -> [Mutexes -> Nat]]
  /\ needs \in [Threads -> [Mutexes -> SUBSET Nat]]

Holders == [m \in Mutexes |-> {t \in Threads : lockers[t][m] > 0}]

Abs == INSTANCE AbstractLock WITH holders <- Holders

\* A thread inside a Locker's scope is alone there, from the first of its Lockers
\* on that mutex to the last, although Lock tests mOwner without the mutex and
\* Unlock clears it before it gives up the mutex.
ImplementsLock == Abs!Spec
=============================================================================
