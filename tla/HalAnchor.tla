------------------------------ MODULE HalAnchor ------------------------------
(***************************************************************************)
(* The HAL publishes its IO cycle times to the daemon under a sequence     *)
(* lock: BeginIOOperation makes shmHalAnchorSeq odd, stores the fields and *)
(* makes it even again; check_progress, on the JACK thread, retries until  *)
(* it reads the same even count on both sides of its load.  The daemon     *)
(* loads one field, shmHalInputReadHead, so it stands for all of them; its *)
(* value is the number of the IO cycle that published it.                  *)
(*                                                                         *)
(* The accesses are C++ atomics.  A release store does not hold back later *)
(* relaxed stores and an acquire load does not hold back earlier relaxed   *)
(* loads, so the field may be stored before the odd count lands, and may   *)
(* be loaded after the second load of the count.                           *)
(*                                                                         *)
(* check_progress also drains the xrun counter that JACK's notification    *)
(* thread increments.                                                      *)
(***************************************************************************)
EXTENDS Integers

CONSTANTS
  MaxPubs,            \* bound: publications explored
  MaxXRuns,           \* bound: xruns explored
  DiesPublishing      \* whether coreaudiod may die within a publication

ASSUME MaxPubsAssumption  == MaxPubs \in Nat \ {0}
ASSUME MaxXRunsAssumption == MaxXRuns \in Nat
ASSUME FaultAssumption    == DiesPublishing \in BOOLEAN

VARIABLES
  shmHalAnchorSeq, shmHalInputReadHead,
  seq,          \* BeginIOOperation's local count
  stores,       \* its stores that have not landed: subset of {"odd", "head"}
  wpc,          \* "idle" or "publish"
  cycle,        \* the IO cycle of the HAL
  rpc,          \* check_progress: "idle", "first", "snapshot"
  loads,        \* its loads still to do: subset of {"head", "second"}
  s1, s2, halReadHead,
  mXRunCount,
  snap,         \* history: the last accepted snapshot, its count and head
  at,           \* history: the head published under each even count
  xruns,        \* history: xruns JACK has notified
  reported      \* history: xruns the health trace has reported

writerVars == <<seq, stores, wpc, cycle, at>>
readerVars == <<rpc, loads, s1, s2, halReadHead, snap>>
xrunVars   == <<mXRunCount, xruns, reported>>
vars       == <<shmHalAnchorSeq, shmHalInputReadHead, writerVars, readerVars, xrunVars>>

Init ==
  /\ shmHalAnchorSeq = 0 /\ shmHalInputReadHead = 0
  /\ seq = 0 /\ stores = {} /\ wpc = "idle" /\ cycle = 0
  /\ rpc = "idle" /\ loads = {} /\ s1 = 0 /\ s2 = 0 /\ halReadHead = 0
  /\ mXRunCount = 0 /\ xruns = 0 /\ reported = 0
  /\ snap = [s |-> 0, head |-> 0] /\ at = [s \in {0} |-> 0]

-----------------------------------------------------------------------------
(* SA_Device::BeginIOOperation                                             *)

\* Mutant of BeginIOOperation: the count goes down.
BeginIOOperation_Down ==
  /\ wpc = "idle" /\ cycle < MaxPubs
  /\ wpc' = "publish"
  /\ cycle' \in {cycle, cycle + 1} \ {0}
  /\ shmHalAnchorSeq < 2 * MaxPubs
  /\ seq' = shmHalAnchorSeq - 1
  /\ stores' = {"odd", "head"}
  /\ UNCHANGED <<shmHalAnchorSeq, shmHalInputReadHead, at, readerVars, xrunVars>>

\* ReadInput begins an IO cycle, WriteMix belongs to the one ReadInput began;
\* both publish.
BeginIOOperation ==
  /\ wpc = "idle" /\ cycle < MaxPubs
  /\ wpc' = "publish"
  /\ cycle' \in {cycle, cycle + 1} \ {0}
  /\ shmHalAnchorSeq < 2 * MaxPubs
  /\ seq' = shmHalAnchorSeq + 1
  /\ stores' = {"odd", "head"}
  /\ UNCHANGED <<shmHalAnchorSeq, shmHalInputReadHead, at, readerVars, xrunVars>>

PublishStore(w) ==
  /\ wpc = "publish" /\ w \in stores
  /\ stores' = stores \ {w}
  /\ shmHalAnchorSeq' = IF w = "odd" THEN seq ELSE shmHalAnchorSeq
  /\ shmHalInputReadHead' = IF w = "head" THEN cycle ELSE shmHalInputReadHead
  /\ UNCHANGED <<seq, wpc, cycle, at, readerVars, xrunVars>>

\* The closing store is a release: everything above has landed.
PublishEven ==
  /\ wpc = "publish" /\ stores = {}
  /\ shmHalAnchorSeq' = seq + 1
  /\ wpc' = "idle"
  /\ at' = [s \in DOMAIN at \cup {seq + 1} |-> IF s = seq + 1 THEN cycle ELSE at[s]]
  /\ UNCHANGED <<shmHalInputReadHead, seq, stores, cycle, readerVars, xrunVars>>

\* coreaudiod dies and is restarted; the shared memory keeps what has landed,
\* and _HW_Open does not touch the count.
CoreaudiodRestart ==
  /\ wpc = "publish" => DiesPublishing
  /\ wpc' = "idle" /\ stores' = {} /\ seq' = 0
  /\ UNCHANGED <<shmHalAnchorSeq, shmHalInputReadHead, cycle, at, readerVars, xrunVars>>

-----------------------------------------------------------------------------
(* JackBridge::check_progress and xrun_callback                            *)

LoadFirst ==
  /\ rpc \in {"idle", "first"}
  /\ s1' = shmHalAnchorSeq
  /\ loads' = {"head", "second"}
  /\ rpc' = "snapshot"
  /\ UNCHANGED <<shmHalAnchorSeq, shmHalInputReadHead, writerVars, s2, halReadHead,
                 snap, xrunVars>>

SnapshotLoad(l) ==
  /\ rpc = "snapshot" /\ l \in loads
  /\ loads' = loads \ {l}
  /\ halReadHead' = IF l = "head" THEN shmHalInputReadHead ELSE halReadHead
  /\ s2' = IF l = "second" THEN shmHalAnchorSeq ELSE s2
  /\ UNCHANGED <<shmHalAnchorSeq, shmHalInputReadHead, writerVars, rpc, s1, snap, xrunVars>>

\* Mutant of Unstable: an odd count is accepted.
Unstable_OddAccepted == s1 # s2

Unstable == s1 % 2 = 1 \/ s1 # s2

\* Mutant of Retry: the first count is not loaded again.
Retry_StaleFirst ==
  /\ rpc = "snapshot" /\ loads = {} /\ Unstable
  /\ loads' = {"head", "second"}
  /\ UNCHANGED <<shmHalAnchorSeq, shmHalInputReadHead, writerVars, rpc, s1, s2,
                 halReadHead, snap, xrunVars>>

Retry ==
  /\ rpc = "snapshot" /\ loads = {} /\ Unstable
  /\ rpc' = "first"
  /\ UNCHANGED <<shmHalAnchorSeq, shmHalInputReadHead, writerVars, loads, s1, s2,
                 halReadHead, snap, xrunVars>>

\* Mutant of Accept: the counter is reset at every snapshot, reported or not.
Accept_AlwaysReset ==
  /\ rpc = "snapshot" /\ loads = {} /\ ~Unstable
  /\ rpc' = "idle"
  /\ snap' = [s |-> s1, head |-> halReadHead]
  /\ reported' \in {reported, reported + mXRunCount} /\ mXRunCount' = 0
  /\ UNCHANGED <<shmHalAnchorSeq, shmHalInputReadHead, writerVars, loads, s1, s2,
                 halReadHead, xruns>>

\* The loop ends; when a trace window ends too, the xrun counter is exchanged
\* with zero and reported.
Accept ==
  /\ rpc = "snapshot" /\ loads = {} /\ ~Unstable
  /\ rpc' = "idle"
  /\ snap' = [s |-> s1, head |-> halReadHead]
  /\ \/ reported' = reported + mXRunCount /\ mXRunCount' = 0
     \/ UNCHANGED <<reported, mXRunCount>>
  /\ UNCHANGED <<shmHalAnchorSeq, shmHalInputReadHead, writerVars, loads, s1, s2,
                 halReadHead, xruns>>

xrun_callback ==
  /\ xruns < MaxXRuns
  /\ xruns' = xruns + 1
  /\ mXRunCount' = mXRunCount + 1
  /\ UNCHANGED <<shmHalAnchorSeq, shmHalInputReadHead, writerVars, readerVars, reported>>

Next ==
  \/ BeginIOOperation \/ (\E w \in {"odd", "head"} : PublishStore(w)) \/ PublishEven
  \/ CoreaudiodRestart
  \/ LoadFirst \/ (\E l \in {"head", "second"} : SnapshotLoad(l)) \/ Retry \/ Accept
  \/ xrun_callback

\* Both threads are scheduled; a publication that has begun is finished, and
\* IO cycles are not so dense that every snapshot meets one (MaxPubs of them).
Fairness ==
  /\ WF_vars(\E w \in {"odd", "head"} : PublishStore(w))
  /\ WF_vars(PublishEven)
  /\ WF_vars(rpc # "idle" /\ LoadFirst)
  /\ WF_vars(\E l \in {"head", "second"} : SnapshotLoad(l))
  /\ WF_vars(Retry)
  /\ WF_vars(Accept)

Spec     == Init /\ [][Next]_vars
FairSpec == Spec /\ Fairness

-----------------------------------------------------------------------------
(* Properties.                                                             *)

\* Every variable stays in its type.
TypeOK ==
  /\ shmHalAnchorSeq \in Nat /\ shmHalInputReadHead \in Nat
  /\ seq \in Nat /\ stores \subseteq {"odd", "head"} /\ wpc \in {"idle", "publish"}
  /\ cycle \in Nat
  /\ rpc \in {"idle", "first", "snapshot"} /\ loads \subseteq {"head", "second"}
  /\ s1 \in Nat /\ s2 \in Nat /\ halReadHead \in Nat
  /\ mXRunCount \in Nat /\ xruns \in Nat /\ reported \in Nat
  /\ snap \in [s : Nat, head : Nat]

\* JackBridge.h:77, "even=stable, odd=write in progress": between publications
\* the count is even, so the daemon's retry loop can end.
EvenWhenStable == wpc = "idle" => shmHalAnchorSeq % 2 = 0

\* The head the daemon accepts is never older than the publication whose count
\* it accepted it under, even with the loads and stores reordered.
SnapshotNotStale ==
  /\ snap.s \in DOMAIN at
  /\ snap.head >= at[snap.s]

\* No xrun is lost or reported twice between JACK's notification thread and
\* the health trace of the process thread.
XRunsConserved == reported + mXRunCount = xruns

\* The retry loop on the JACK realtime thread always ends.
SnapshotEnds == (rpc # "idle") ~> (rpc = "idle")
=============================================================================
