---------------------------- MODULE AbstractLock ----------------------------
(***************************************************************************)
(* What a mutex promises its users: at most one thread at a time is inside *)
(* the scope of a Locker on it, and it goes from one to the next only      *)
(* through nobody.                                                         *)
(***************************************************************************)
CONSTANTS Threads, Mutexes

VARIABLE holders   \* for each mutex, the threads inside a scope that locks it

Init == holders = [m \in Mutexes |-> {}]

Acquire(t, m) ==
  /\ holders[m] = {}
  /\ holders' = [holders EXCEPT ![m] = {t}]

Release(t, m) ==
  /\ holders[m] = {t}
  /\ holders' = [holders EXCEPT ![m] = {}]

Next == \E t \in Threads, m \in Mutexes : Acquire(t, m) \/ Release(t, m)

Spec == Init /\ [][Next]_holders
=============================================================================
