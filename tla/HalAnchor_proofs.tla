--------------------------- MODULE HalAnchor_proofs ---------------------------
(***************************************************************************)
(* Proofs about HalAnchor, for any number of publications and of xruns:    *)
(* the types; that no xrun is lost between the notification thread and the *)
(* health trace; and, as long as coreaudiod does not die within a          *)
(* publication, that a count at rest is even and that the head the daemon  *)
(* accepts is not older than its count.                                    *)
(***************************************************************************)
EXTENDS HalAnchor, TLAPS

Even(n) == n % 2 = 0

\* A publication raises the count from an even one to seq and then to seq + 1.
WriterInv ==
  /\ wpc = "idle" => stores = {} /\ Even(shmHalAnchorSeq) /\ shmHalAnchorSeq \in DOMAIN at
  /\ wpc = "publish" =>
       /\ seq # 0 /\ Even(seq - 1) /\ seq - 1 \in DOMAIN at
       /\ shmHalAnchorSeq = IF "odd" \in stores THEN seq - 1 ELSE seq
       /\ "head" \notin stores => shmHalInputReadHead = cycle

\* What was published lies in the past: under counts up to the present one, with
\* heads up to the present one.
PublishedInv ==
  /\ DOMAIN at \subseteq Nat
  /\ \A s \in DOMAIN at : at[s] \in Nat /\ s <= shmHalAnchorSeq /\ at[s] <= shmHalInputReadHead
  /\ shmHalInputReadHead <= cycle

\* A first count that is even names a publication, and a head loaded after it is
\* at least that publication's.
ReaderInv ==
  rpc = "snapshot" /\ Even(s1) =>
    /\ s1 \in DOMAIN at
    /\ "head" \notin loads => halReadHead >= at[s1]

\* The inductive invariant.
Inv == TypeOK /\ WriterInv /\ PublishedInv /\ ReaderInv /\ SnapshotNotStale

-----------------------------------------------------------------------------
\* The parities of a count and of the next ones.
LEMMA Parity ==
  ASSUME NEW n \in Nat
  PROVE  /\ Even(n) => ~Even(n + 1) /\ Even(n + 2)
         /\ ~Even(n) <=> n % 2 = 1
         /\ n # 0 /\ Even(n - 1) => ~Even(n) /\ Even(n + 1)
  BY DEF Even

\* What publications, snapshots and xruns do to their variables stays in their
\* types, for every bound: BeginIOOperation, check_progress and xrun_callback.
THEOREM TypeCorrect == Spec => []TypeOK
<1>1. Init => TypeOK
  BY DEF Init, TypeOK
<1>2. TypeOK /\ [Next]_vars => TypeOK'
  <2> SUFFICES ASSUME TypeOK, [Next]_vars PROVE TypeOK'
    OBVIOUS
  <2> USE DEF TypeOK, writerVars, readerVars, xrunVars
  <2>1. CASE BeginIOOperation
    BY <2>1 DEF BeginIOOperation
  <2>2. ASSUME NEW w \in {"odd", "head"}, PublishStore(w) PROVE TypeOK'
    BY <2>2 DEF PublishStore
  <2>3. CASE PublishEven
    BY <2>3 DEF PublishEven
  <2>4. CASE CoreaudiodRestart
    BY <2>4 DEF CoreaudiodRestart
  <2>5. CASE LoadFirst
    BY <2>5 DEF LoadFirst
  <2>6. ASSUME NEW l \in {"head", "second"}, SnapshotLoad(l) PROVE TypeOK'
    BY <2>6 DEF SnapshotLoad
  <2>7. CASE Retry
    BY <2>7 DEF Retry
  <2>8. CASE Accept
    BY <2>8 DEF Accept
  <2>9. CASE xrun_callback
    BY <2>9 DEF xrun_callback
  <2>10. CASE UNCHANGED vars
    BY <2>10 DEF vars
  <2> QED
    BY <2>1, <2>2, <2>3, <2>4, <2>5, <2>6, <2>7, <2>8, <2>9, <2>10 DEF Next
<1> QED
  BY <1>1, <1>2, PTL DEF Spec

\* An xrun that xrun_callback counts is reported once by check_progress or still
\* in mXRunCount, whenever the two threads run: the exchange with zero and the
\* increment cannot lose one, and a death of coreaudiod has no part in it.
THEOREM NoXRunIsLost == Spec => []XRunsConserved
<1>1. Init => XRunsConserved
  BY DEF Init, XRunsConserved
<1>2. TypeOK /\ XRunsConserved /\ [Next]_vars => XRunsConserved'
  <2> SUFFICES ASSUME TypeOK, XRunsConserved, [Next]_vars PROVE XRunsConserved'
    OBVIOUS
  <2> mXRunCount \in Nat /\ xruns \in Nat /\ reported \in Nat
    BY DEF TypeOK
  <2>1. CASE Accept
    BY <2>1 DEF Accept, XRunsConserved
  <2>2. CASE xrun_callback
    BY <2>2 DEF xrun_callback, XRunsConserved
  <2>3. CASE UNCHANGED xrunVars
    BY <2>3 DEF xrunVars, XRunsConserved
  <2>4. Accept \/ xrun_callback \/ UNCHANGED xrunVars
    BY DEF Next, vars, BeginIOOperation, PublishStore, PublishEven, CoreaudiodRestart,
           LoadFirst, SnapshotLoad, Retry
  <2> QED
    BY <2>1, <2>2, <2>3, <2>4
<1> QED
  BY <1>1, <1>2, TypeCorrect, PTL DEF Spec

-----------------------------------------------------------------------------
(* The sequence lock.                                                      *)

\* Before the first publication the fields are zero under the count zero.
LEMMA InitInv == Init => Inv
<1> SUFFICES ASSUME Init PROVE Inv
  OBVIOUS
<1>1. Even(shmHalAnchorSeq)
  BY DEF Init, Even
<1>2. DOMAIN at = {0} /\ at[0] = 0
  BY DEF Init
<1> QED
  BY <1>1, <1>2 DEF Init, Inv, TypeOK, WriterInv, PublishedInv, ReaderInv, SnapshotNotStale

\* The steps of BeginIOOperation keep the invariant.
LEMMA WriterKeepsInv ==
  ASSUME Inv, TypeOK',
         BeginIOOperation \/ (\E w \in {"odd", "head"} : PublishStore(w)) \/ PublishEven
  PROVE  Inv'
<1> UNCHANGED readerVars
  BY DEF BeginIOOperation, PublishStore, PublishEven
<1> UNCHANGED <<rpc, loads, s1, s2, halReadHead, snap>>
  BY DEF readerVars
<1> USE DEF Inv, TypeOK
<1>1. CASE BeginIOOperation
  <2>1. /\ WriterInv' /\ PublishedInv'
    <3>1. stores' = {"odd", "head"} /\ wpc' = "publish" /\ seq' = shmHalAnchorSeq + 1
      BY <1>1 DEF BeginIOOperation
    <3>2. UNCHANGED <<shmHalAnchorSeq, shmHalInputReadHead, at>> /\ cycle' >= cycle
      BY <1>1 DEF BeginIOOperation
    <3>3. wpc = "idle"
      BY <1>1 DEF BeginIOOperation
    <3> QED
      BY <3>1, <3>2, <3>3 DEF WriterInv, PublishedInv
  <2>2. ReaderInv' /\ SnapshotNotStale'
    BY <1>1 DEF BeginIOOperation, ReaderInv, SnapshotNotStale
  <2> QED
    BY <2>1, <2>2
<1>2. ASSUME NEW w \in {"odd", "head"}, PublishStore(w) PROVE Inv'
  <2>1. /\ wpc = "publish" /\ w \in stores /\ stores' = stores \ {w}
        /\ shmHalAnchorSeq' = IF w = "odd" THEN seq ELSE shmHalAnchorSeq
        /\ shmHalInputReadHead' = IF w = "head" THEN cycle ELSE shmHalInputReadHead
        /\ UNCHANGED <<seq, wpc, cycle, at>>
    BY <1>2 DEF PublishStore
  <2>2. shmHalAnchorSeq <= shmHalAnchorSeq' /\ shmHalInputReadHead <= shmHalInputReadHead'
    BY <2>1 DEF WriterInv, PublishedInv
  <2>3. WriterInv'
    BY <2>1 DEF WriterInv
  <2>4. PublishedInv'
    BY <2>1, <2>2 DEF PublishedInv
  <2>5. ReaderInv' /\ SnapshotNotStale'
    BY <2>1 DEF ReaderInv, SnapshotNotStale
  <2> QED
    BY <2>3, <2>4, <2>5
<1>3. CASE PublishEven
  <2>1. /\ wpc = "publish" /\ stores = {} /\ shmHalAnchorSeq' = seq + 1 /\ wpc' = "idle"
        /\ UNCHANGED <<shmHalInputReadHead, seq, stores, cycle>>
    BY <1>3 DEF PublishEven
  <2>2. /\ DOMAIN at' = DOMAIN at \cup {seq + 1}
        /\ at'[seq + 1] = cycle
        /\ \A s \in DOMAIN at : s # seq + 1 => at'[s] = at[s]
    BY <1>3 DEF PublishEven
  <2>3. shmHalAnchorSeq = seq /\ shmHalInputReadHead = cycle /\ Even(seq + 1)
    BY <2>1, Parity DEF WriterInv
  <2>4. seq + 1 \notin DOMAIN at
    BY <2>3 DEF PublishedInv
  <2>5. \A s \in DOMAIN at : s \in DOMAIN at' /\ at'[s] = at[s]
    BY <2>2, <2>4
  <2>6. WriterInv'
    BY <2>1, <2>2, <2>3 DEF WriterInv
  <2>7. PublishedInv'
    BY <2>1, <2>2, <2>3, <2>5 DEF PublishedInv
  <2>8. ReaderInv' /\ SnapshotNotStale'
    BY <2>5 DEF ReaderInv, SnapshotNotStale
  <2> QED
    BY <2>6, <2>7, <2>8
<1> QED
  BY <1>1, <1>2, <1>3

\* The steps of check_progress keep the invariant.
LEMMA ReaderKeepsInv ==
  ASSUME Inv, TypeOK',
         LoadFirst \/ (\E l \in {"head", "second"} : SnapshotLoad(l)) \/ Retry \/ Accept
  PROVE  Inv'
<1> UNCHANGED <<shmHalAnchorSeq, shmHalInputReadHead, seq, stores, wpc, cycle, at>>
  BY DEF LoadFirst, SnapshotLoad, Retry, Accept, writerVars
<1>1. WriterInv' /\ PublishedInv'
  BY DEF Inv, WriterInv, PublishedInv
<1> USE DEF Inv, TypeOK
<1>2. CASE LoadFirst
  <2>1. s1' = shmHalAnchorSeq /\ loads' = {"head", "second"} /\ UNCHANGED snap
    BY <1>2 DEF LoadFirst
  <2>2. Even(s1') => s1' \in DOMAIN at
    BY <2>1, Parity DEF WriterInv
  <2> QED
    BY <1>1, <2>1, <2>2 DEF ReaderInv, SnapshotNotStale
<1>3. ASSUME NEW l \in {"head", "second"}, SnapshotLoad(l) PROVE Inv'
  <2>1. /\ rpc = "snapshot" /\ loads' = loads \ {l} /\ UNCHANGED <<rpc, s1, snap>>
        /\ halReadHead' = IF l = "head" THEN shmHalInputReadHead ELSE halReadHead
    BY <1>3 DEF SnapshotLoad
  <2>2. ReaderInv'
    BY <2>1 DEF ReaderInv, PublishedInv
  <2> QED
    BY <1>1, <2>1, <2>2 DEF SnapshotNotStale
<1>4. CASE Retry
  <2>1. rpc' = "first" /\ UNCHANGED snap
    BY <1>4 DEF Retry
  <2> QED
    BY <1>1, <2>1 DEF ReaderInv, SnapshotNotStale
<1>5. CASE Accept
  <2>1. /\ rpc = "snapshot" /\ loads = {} /\ ~Unstable /\ rpc' = "idle"
        /\ snap' = [s |-> s1, head |-> halReadHead]
    BY <1>5 DEF Accept
  <2>2. Even(s1)
    BY <2>1, Parity DEF Unstable
  <2> QED
    BY <1>1, <2>1, <2>2 DEF ReaderInv, SnapshotNotStale
<1> QED
  BY <1>2, <1>3, <1>4, <1>5

\* The whole sequence lock, as long as coreaudiod does not die within a
\* publication.
LEMMA SeqlockInv ==
  ASSUME ~DiesPublishing
  PROVE  Spec => []Inv
<1>1. Inv /\ TypeOK' /\ [Next]_vars => Inv'
  <2> SUFFICES ASSUME Inv, TypeOK', [Next]_vars PROVE Inv'
    OBVIOUS
  <2>1. CASE BeginIOOperation \/ (\E w \in {"odd", "head"} : PublishStore(w)) \/ PublishEven
    BY <2>1, WriterKeepsInv
  <2>2. CASE CoreaudiodRestart
    <3>1. /\ wpc = "idle" /\ wpc' = "idle" /\ stores' = {}
          /\ UNCHANGED <<shmHalAnchorSeq, shmHalInputReadHead, cycle, at, readerVars>>
      BY <2>2 DEF CoreaudiodRestart, Inv, TypeOK
    <3> QED
      BY <3>1 DEF readerVars, Inv, WriterInv, PublishedInv, ReaderInv, SnapshotNotStale
  <2>3. CASE LoadFirst \/ (\E l \in {"head", "second"} : SnapshotLoad(l)) \/ Retry \/ Accept
    BY <2>3, ReaderKeepsInv
  <2>4. CASE xrun_callback \/ UNCHANGED vars
    <3>1. UNCHANGED <<shmHalAnchorSeq, shmHalInputReadHead, writerVars, readerVars>>
      BY <2>4 DEF xrun_callback, vars
    <3> QED
      BY <3>1 DEF writerVars, readerVars, Inv, WriterInv, PublishedInv, ReaderInv,
                  SnapshotNotStale
  <2> QED
    BY <2>1, <2>2, <2>3, <2>4 DEF Next
<1> QED
  BY <1>1, InitInv, TypeCorrect, PTL DEF Spec

\* The head that check_progress accepts is never older than the publication
\* whose count it read, for any number of publications and restarts and any
\* order in which the relaxed stores of BeginIOOperation land and the loads are
\* done.  The death of coreaudiod within a publication is what breaks it.
THEOREM SnapshotIsNotStale ==
  ASSUME ~DiesPublishing
  PROVE  Spec => []SnapshotNotStale
<1>1. Inv => SnapshotNotStale
  BY DEF Inv
<1> QED
  BY <1>1, SeqlockInv, PTL

\* JackBridge.h:77 holds where coreaudiod does not die within a publication:
\* between publications the count is even.
THEOREM EvenAtRest ==
  ASSUME ~DiesPublishing
  PROVE  Spec => []EvenWhenStable
<1>1. Inv => EvenWhenStable
  BY DEF Inv, WriterInv, EvenWhenStable, Even
<1> QED
  BY <1>1, SeqlockInv, PTL
===============================================================================
