--------------------------- MODULE Timeline_proofs ----------------------------
(***************************************************************************)
(* Proofs about the device clock, for every period, ring size, host time   *)
(* and number of restarts: the types, that no stamp is dated early, and    *)
(* that successive stamps under one seed stay near a line.                 *)
(***************************************************************************)
EXTENDS Timeline, TLAPS

\* The daemon is within a callback.
Busy == dpc \notin {"idle", "down"}

\* Where the callback stands tells what it has found and done so far.
CallbackInv ==
  /\ stamped => pub \in Stamp
  /\ Busy => ran /\ mLastDriverStatus = STARTED
  /\ ~isActive => FrameNumber = 0
  /\ dpc \in {"boundary", "boundary_t", "boundary_n", "copy"} => isActive
  /\ dpc \in {"boundary_t", "boundary_n"} => FrameNumber % FramesPerBuffer = 0
  /\ Busy /\ stamped => pub.t = now /\ pub.n = FrameNumber \div FramesPerBuffer

\* As long as the HAL has not stored a register, the time register is not behind
\* the last complete pair; the same for the pair whose number the HAL has loaded.
PairInv ==
  /\ pub # NoStamp => pub.t <= now
  /\ pub # NoStamp /\ ~halWrote => pub.t <= shmZeroHostTime
  /\ seen # NoStamp => seen.t <= now
  /\ hpc = "load_t" /\ seen # NoStamp => seen.t <= shmZeroHostTime
  /\ hpc \notin {"load_t", "seed"} => seen = NoStamp

\* The last stamp was made under the present seed.
SameSeed == line # NoStamp /\ line.seed = shmSeed

\* Every callback since the last stamp has advanced the frame number, and a jump is
\* not still to be announced.
Continuing ==
  SameSeed /\ isActive /\ mLastDriverStatus = STARTED
    /\ dpc \notin {"reanchor_t", "reanchor_n", "reanchor_seed"}

\* The frame at which this period's callback begins.
Frame == IF ran /\ ~Busy THEN FrameNumber - Period ELSE FrameNumber

\* Carried back by the callbacks since the last stamp, the frame lies in the ring
\* buffer that was stamped.  A stamp that is not of a boundary comes with a new seed.
LineInv ==
  /\ line # NoStamp => line.seed <= shmSeed
  /\ Continuing =>
       LET back == Frame - Period * (now - line.t - missed)
       IN line.n * FramesPerBuffer <= back /\ back < line.n * FramesPerBuffer + FramesPerBuffer
  /\ SameSeed /\ stamped /\ dpc \notin {"idle", "down", "reanchor_seed"} =>
       FrameNumber % FramesPerBuffer = 0

\* The inductive invariant.
Inv == TypeOK /\ CallbackInv /\ PairInv /\ LineInv /\ StampNotEarly
-----------------------------------------------------------------------------
(* Arithmetic of periods and ring buffers.                                 *)

\* Multiples of the period are at least a period apart.
LEMMA MultiplesApart ==
  ASSUME NEW p \in Nat \ {0}, NEW u \in Int, NEW v \in Int, u < v
  PROVE  p * u + p <= p * v
  OBVIOUS

\* Quotient and remainder, as the callback computes them from FrameNumber.
LEMMA DivMod ==
  ASSUME NEW n \in Nat \ {0}, NEW a \in Nat
  PROVE  /\ a \div n \in Nat
         /\ a % n \in 0 .. n - 1
         /\ a = n * (a \div n) + (a % n)
  OBVIOUS

\* A ring buffer is a whole number of periods (theHostTicksPerRingBuffer).
LEMMA BufferIsTicks ==
  /\ Period \in Nat \ {0} /\ FramesPerBuffer \in Nat \ {0}
  /\ RingTicks \in Nat \ {0}
  /\ FramesPerBuffer = Period * RingTicks
<1>1. Period \in Nat \ {0} /\ FramesPerBuffer \in Nat \ {0} /\ FramesPerBuffer % Period = 0
  BY PeriodAssumption, BufferAssumption
<1>2. FramesPerBuffer \div Period \in Nat
      /\ FramesPerBuffer = Period * (FramesPerBuffer \div Period) + (FramesPerBuffer % Period)
  BY <1>1, DivMod
<1>3. RingTicks \in Nat /\ FramesPerBuffer = Period * RingTicks
  BY <1>1, <1>2 DEF RingTicks
<1>4. RingTicks # 0
  BY <1>1, <1>3
<1> QED BY <1>1, <1>3, <1>4

\* A multiple of p between 0 and p * r is p times a number below r.
LEMMA Quotient ==
  ASSUME NEW p \in Nat \ {0}, NEW r \in Nat \ {0}, NEW d \in Int,
         0 <= p * d, p * d < p * r
  PROVE  d \in 0 .. r - 1
<1>1. ~(d < 0)
  <2>1. SUFFICES ASSUME d < 0 PROVE FALSE
    OBVIOUS
  <2>2. p * d + p <= p * 0
    BY <2>1, MultiplesApart
  <2> QED BY <2>2
<1>2. ~(r < d)
  <2>1. SUFFICES ASSUME r < d PROVE FALSE
    OBVIOUS
  <2>2. p * r + p <= p * d
    BY <2>1, MultiplesApart
  <2>3. p * r \in Int /\ p * d \in Int
    OBVIOUS
  <2> QED BY <2>2, <2>3
<1>3. r # d
  OBVIOUS
<1> QED BY <1>1, <1>2, <1>3

\* The boundary q * b, carried back by a ticks of p frames, lies in buffer n
\* exactly if the stamp is less than a buffer ahead of the line through n.
LEMMA JumpBound ==
  ASSUME NEW p \in Nat \ {0}, NEW r \in Nat \ {0}, NEW b \in Nat, b = p * r,
         NEW q \in Nat, NEW n \in Nat, NEW a \in Int,
         n * b <= q * b - p * a, q * b - p * a < n * b + b
  PROVE  (q - n) * r - a \in 0 .. r - 1
<1> DEFINE d == (q - n) * r - a
<1>1. d \in Int
  OBVIOUS
<1>2. p * d = q * b - p * a - n * b
  <2>1. q * b = p * (q * r) /\ n * b = p * (n * r)
    OBVIOUS
  <2>2. (q - n) * r = q * r - n * r
    OBVIOUS
  <2>3. p * d = p * (q * r) - p * (n * r) - p * a
    BY <2>2
  <2> QED BY <2>1, <2>3
<1>3. q * b \in Int /\ n * b \in Int /\ p * a \in Int
  OBVIOUS
<1>4. 0 <= p * d /\ p * d < p * r
  BY <1>2, <1>3
<1> HIDE DEF d
<1>5. d \in 0 .. r - 1
  BY <1>1, <1>4, Quotient
<1> QED BY <1>5 DEF d

\* A period more is one product more.
LEMMA TickProduct ==
  ASSUME NEW p \in Nat, NEW a \in Int, NEW t \in Int
  PROVE  p * (a + 1 - t) = p * (a - t) + p
  OBVIOUS
-----------------------------------------------------------------------------
(* The step lemmas: one case per load and store.                            *)

\* Every load and store keeps every variable in its type.
LEMMA TypeStep ==
  ASSUME TypeOK, CallbackInv, [Next]_vars
  PROVE  TypeOK'
<1> USE DEF TypeOK, Stamp
<1>1. CASE LoadStatus
  <2>1. /\ ran' = TRUE /\ stamped' = FALSE /\ mLastDriverStatus' = shmDriverStatus
        /\ dpc' \in {"idle", "reanchor_t", "active"}
    BY <1>1 DEF LoadStatus
  <2>2. UNCHANGED <<now, shmDriverStatus, shmSyncMode, shmSeed, stampVars, FrameNumber, isActive,
                    pending, halVars, pub, line, halWrote, seen, missed, faults>>
    BY <1>1 DEF LoadStatus
  <2>3. ran' \in BOOLEAN /\ stamped' \in BOOLEAN /\ mLastDriverStatus' \in {INIT, ACTIVE, STARTED}
    BY <2>1
  <2>4. UNCHANGED stampVars /\ UNCHANGED halVars
    BY <2>2
  <2> QED BY <2>1, <2>2, <2>3, <2>4 DEF stampVars, halVars
<1>2. CASE StampTime
  <2>1. now \in Nat
    BY BootAssumption, BoundsAssumption
  <2> QED BY <1>2, <2>1 DEF StampTime, halVars, historyVars
<1>3. CASE StampNumber
  <2>1. FrameNumber \div FramesPerBuffer \in Nat
    BY BufferIsTicks, DivMod
  <2>2. now \in Nat
    BY BootAssumption, BoundsAssumption
  <2>3. /\ ran' = ran /\ isActive' = isActive /\ stamped' = TRUE
        /\ halWrote' = (shmZeroHostTime # now)
    BY <1>3 DEF StampNumber, halVars
  <2>4. ran' \in BOOLEAN /\ isActive' \in BOOLEAN /\ stamped' \in BOOLEAN /\ halWrote' \in BOOLEAN
    BY <2>3, Zenon
  <2> QED BY <1>3, <2>1, <2>2, <2>4 DEF StampNumber, halVars
<1>4. CASE ReanchorSeed
  BY <1>4 DEF ReanchorSeed, stampVars, halVars, historyVars
<1>5. CASE Activate
  <2>1. /\ FrameNumber' \in Nat /\ pending' \subseteq {"sync", "number"}
        /\ dpc' \in {"boundary", "engage"}
    <3>1. CASE isActive
      BY <1>5, <3>1 DEF Activate
    <3>2. CASE ~isActive
      BY <1>5, <3>2 DEF Activate
    <3> QED BY <3>1, <3>2
  <2> QED BY <1>5, <2>1 DEF Activate, stampVars, halVars, historyVars
<1>6. CASE \E s \in {"sync", "number"} : EngageStore(s)
  BY <1>6 DEF EngageStore, halVars, historyVars
<1>7. CASE EngageSeed
  BY <1>7 DEF EngageSeed, stampVars, halVars, historyVars
<1>8. CASE Boundary
  BY <1>8 DEF Boundary, stampVars, halVars, historyVars
<1>9. CASE Advance
  <2>1. FrameNumber + Period \in Nat
    BY BufferIsTicks
  <2>2. stamped => pub.n \in Nat /\ pub.t \in Nat
    BY DEF CallbackInv
  <2> QED BY <1>9, <2>1, <2>2 DEF Advance, stampVars, halVars
<1>10. CASE Kill \/ on_shutdown
  <2>1. faults' \in 0 .. MaxFaults
    BY <1>10, BoundsAssumption DEF Kill, on_shutdown, Die
  <2>2. /\ isActive' = FALSE /\ ran' = ran /\ stamped' = stamped /\ halWrote' = halWrote
        /\ io' = io
    BY <1>10 DEF Kill, on_shutdown, Die, halVars
  <2>3. /\ isActive' \in BOOLEAN /\ ran' \in BOOLEAN /\ stamped' \in BOOLEAN
        /\ halWrote' \in BOOLEAN /\ io' \in BOOLEAN
    BY <2>2, Zenon
  <2> QED BY <1>10, <2>1, <2>3
          DEF Kill, on_shutdown, Die, stampVars, halVars, INIT, ACTIVE, STARTED
<1>11. CASE StartIO
  BY <1>11 DEF StartIO, stampVars, daemonVars, historyVars, INIT, ACTIVE, STARTED
<1>12. CASE StopIO
  <2>1. shmDriverStatus' \in {INIT, ACTIVE, STARTED}
    BY <1>12 DEF StopIO, ACTIVE
  <2>2. io' \in BOOLEAN
    BY <1>12 DEF StopIO
  <2> QED BY <1>12, <2>1, <2>2 DEF StopIO, stampVars, daemonVars, halVars, historyVars,
          INIT, ACTIVE, STARTED
<1>13. CASE LoadSyncMode
  BY <1>13 DEF LoadSyncMode, stampVars, daemonVars, historyVars
<1>14. CASE LoadNumber
  BY <1>14 DEF LoadNumber, stampVars, daemonVars
<1>15. CASE LoadTime
  BY <1>15 DEF LoadTime, stampVars, daemonVars, historyVars
<1>16. CASE StoreNumber
  BY <1>16 DEF StoreNumber, daemonVars
<1>17. CASE StoreTime
  <2>1. gNumberTimeStamps * RingTicks \in Nat
    BY BufferIsTicks
  <2> QED BY <1>17, <2>1 DEF StoreTime, daemonVars
<1>18. CASE LoadSeed
  BY <1>18 DEF LoadSeed, stampVars, daemonVars
<1>19. CASE HW_Open
  <2>1. shmDriverStatus' \in {INIT, ACTIVE, STARTED}
    BY <1>19 DEF HW_Open, ACTIVE
  <2>2. io' \in BOOLEAN
    BY <1>19 DEF HW_Open
  <2> QED BY <1>19, <2>1, <2>2, BoundsAssumption DEF HW_Open, stampVars, daemonVars,
          INIT, ACTIVE, STARTED
<1>20. CASE Tick
  <2>1. now \in Int /\ Boot \in Nat /\ MaxTicks \in Nat
    BY BootAssumption, BoundsAssumption
  <2>2. now' \in Boot .. Boot + MaxTicks
    BY <1>20, <2>1 DEF Tick
  <2>3. ran' \in BOOLEAN
    BY <1>20 DEF Tick
  <2> QED BY <1>20, <2>2, <2>3 DEF Tick, stampVars, halVars, historyVars
<1>21. CASE UNCHANGED vars
  BY <1>21 DEF vars, stampVars, daemonVars, halVars, historyVars
<1>22. CASE JackBridge
  BY <1>22 DEF JackBridge, stampVars, halVars, historyVars
<1> QED BY <1>1, <1>2, <1>3, <1>4, <1>5, <1>6, <1>7, <1>8, <1>9, <1>10, <1>11,
            <1>12, <1>13, <1>14, <1>15, <1>16, <1>17, <1>18, <1>19, <1>20, <1>21, <1>22
            DEF Next, process_callback, GetZeroTimeStamp

\* What the place in the callback tells is kept by every step of both sides.
LEMMA CallbackStep ==
  ASSUME TypeOK, CallbackInv, [Next]_vars
  PROVE  CallbackInv'
<1> USE DEF TypeOK, Stamp, CallbackInv, Busy
<1>1. CASE LoadStatus
  BY <1>1 DEF LoadStatus, stampVars, halVars
<1>2. CASE StampTime
  BY <1>2 DEF StampTime, halVars, historyVars
<1>3. CASE StampNumber
  <2>1. FrameNumber \div FramesPerBuffer \in Nat
    BY BufferIsTicks, DivMod
  <2>2. now \in Nat
    BY BootAssumption, BoundsAssumption
  <2> QED BY <1>3, <2>1, <2>2 DEF StampNumber, halVars
<1>4. CASE ReanchorSeed
  BY <1>4 DEF ReanchorSeed, stampVars, halVars, historyVars
<1>5. CASE Activate
  BY <1>5 DEF Activate, stampVars, halVars, historyVars
<1>6. CASE \E s \in {"sync", "number"} : EngageStore(s)
  BY <1>6 DEF EngageStore, halVars, historyVars
<1>7. CASE EngageSeed
  BY <1>7 DEF EngageSeed, stampVars, halVars, historyVars
<1>8. CASE Boundary
  BY <1>8 DEF Boundary, stampVars, halVars, historyVars
<1>9. CASE Advance
  BY <1>9 DEF Advance, stampVars, halVars
<1>10. CASE Kill \/ on_shutdown
  BY <1>10 DEF Kill, on_shutdown, Die, stampVars, halVars
<1>11. CASE StartIO
  BY <1>11 DEF StartIO, stampVars, daemonVars, historyVars
<1>12. CASE StopIO
  BY <1>12 DEF StopIO, stampVars, daemonVars, halVars, historyVars
<1>13. CASE LoadSyncMode
  BY <1>13 DEF LoadSyncMode, stampVars, daemonVars, historyVars
<1>14. CASE LoadNumber
  BY <1>14 DEF LoadNumber, stampVars, daemonVars
<1>15. CASE LoadTime
  BY <1>15 DEF LoadTime, stampVars, daemonVars, historyVars
<1>16. CASE StoreNumber
  BY <1>16 DEF StoreNumber, daemonVars
<1>17. CASE StoreTime
  BY <1>17 DEF StoreTime, daemonVars
<1>18. CASE LoadSeed
  BY <1>18 DEF LoadSeed, stampVars, daemonVars
<1>19. CASE HW_Open
  BY <1>19 DEF HW_Open, stampVars, daemonVars
<1>20. CASE Tick
  BY <1>20 DEF Tick, stampVars, halVars, historyVars
<1>21. CASE UNCHANGED vars
  BY <1>21 DEF vars, stampVars, daemonVars, halVars, historyVars
<1>22. CASE JackBridge
  BY <1>22 DEF JackBridge, stampVars, halVars, historyVars
<1> QED BY <1>1, <1>2, <1>3, <1>4, <1>5, <1>6, <1>7, <1>8, <1>9, <1>10, <1>11,
            <1>12, <1>13, <1>14, <1>15, <1>16, <1>17, <1>18, <1>19, <1>20, <1>21, <1>22
            DEF Next, process_callback, GetZeroTimeStamp

\* No store of the daemon or of the HAL puts the time register behind a complete
\* pair, as long as the HAL has not stored one of its own.
LEMMA PairStep ==
  ASSUME TypeOK, CallbackInv, PairInv, [Next]_vars
  PROVE  PairInv'
<1> USE DEF TypeOK, Stamp, PairInv
<1>0. now \in Nat
  BY BootAssumption, BoundsAssumption
<1>1. CASE LoadStatus
  BY <1>1, <1>0 DEF LoadStatus, stampVars, halVars
<1>2. CASE StampTime
  BY <1>2, <1>0 DEF StampTime, halVars, historyVars
<1>3. CASE StampNumber
  <2>1. pub' = [n |-> FrameNumber \div FramesPerBuffer, t |-> now]
    BY <1>3 DEF StampNumber
  <2>2. halWrote' = (shmZeroHostTime # now)
    BY <1>3 DEF StampNumber
  <2>3. ~halWrote' => shmZeroHostTime = now
    BY <2>2, Zenon
  <2>4. pub'.t = now
    BY <2>1
  <2>5. now' = now /\ seen' = seen /\ hpc' = hpc /\ shmZeroHostTime' = shmZeroHostTime
    BY <1>3 DEF StampNumber, halVars
  <2> QED BY <1>0, <2>3, <2>4, <2>5
<1>4. CASE ReanchorSeed
  BY <1>4, <1>0 DEF ReanchorSeed, stampVars, halVars, historyVars
<1>5. CASE Activate
  BY <1>5, <1>0 DEF Activate, stampVars, halVars, historyVars
<1>6. CASE \E s \in {"sync", "number"} : EngageStore(s)
  BY <1>6, <1>0 DEF EngageStore, halVars, historyVars
<1>7. CASE EngageSeed
  BY <1>7, <1>0 DEF EngageSeed, stampVars, halVars, historyVars
<1>8. CASE Boundary
  BY <1>8, <1>0 DEF Boundary, stampVars, halVars, historyVars
<1>9. CASE Advance
  BY <1>9, <1>0 DEF Advance, stampVars, halVars
<1>10. CASE Kill \/ on_shutdown
  BY <1>10, <1>0 DEF Kill, on_shutdown, Die, stampVars, halVars
<1>11. CASE StartIO
  BY <1>11, <1>0 DEF StartIO, stampVars, daemonVars, historyVars
<1>12. CASE StopIO
  BY <1>12, <1>0 DEF StopIO, stampVars, daemonVars, halVars, historyVars
<1>13. CASE LoadSyncMode
  BY <1>13, <1>0 DEF LoadSyncMode, stampVars, daemonVars, historyVars
<1>14. CASE LoadNumber
  BY <1>14, <1>0 DEF LoadNumber, stampVars, daemonVars
<1>15. CASE LoadTime
  BY <1>15, <1>0 DEF LoadTime, stampVars, daemonVars, historyVars
<1>16. CASE StoreNumber
  BY <1>16, <1>0 DEF StoreNumber, daemonVars
<1>17. CASE StoreTime
  BY <1>17, <1>0 DEF StoreTime, daemonVars
<1>18. CASE LoadSeed
  BY <1>18, <1>0 DEF LoadSeed, stampVars, daemonVars
<1>19. CASE HW_Open
  BY <1>19, <1>0 DEF HW_Open, stampVars, daemonVars
<1>20. CASE Tick
  BY <1>20, <1>0 DEF Tick, stampVars, halVars, historyVars
<1>21. CASE UNCHANGED vars
  BY <1>21, <1>0 DEF vars, stampVars, daemonVars, halVars, historyVars
<1>22. CASE JackBridge
  BY <1>22, <1>0 DEF JackBridge, stampVars, halVars, historyVars
<1> QED BY <1>1, <1>2, <1>3, <1>4, <1>5, <1>6, <1>7, <1>8, <1>9, <1>10, <1>11,
            <1>12, <1>13, <1>14, <1>15, <1>16, <1>17, <1>18, <1>19, <1>20, <1>21, <1>22
            DEF Next, process_callback, GetZeroTimeStamp

\* The time that completes a stamp is loaded after its number.
LEMMA EarlyStep ==
  ASSUME TypeOK, PairInv, StampNotEarly, [Next]_vars
  PROVE  StampNotEarly'
<1> USE DEF TypeOK, Stamp, PairInv, StampNotEarly
<1>1. CASE LoadStatus
  BY <1>1 DEF LoadStatus, stampVars, halVars
<1>2. CASE StampTime
  BY <1>2 DEF StampTime, halVars, historyVars
<1>3. CASE StampNumber
  BY <1>3 DEF StampNumber, halVars
<1>4. CASE ReanchorSeed
  BY <1>4 DEF ReanchorSeed, stampVars, halVars, historyVars
<1>5. CASE Activate
  BY <1>5 DEF Activate, stampVars, halVars, historyVars
<1>6. CASE \E s \in {"sync", "number"} : EngageStore(s)
  BY <1>6 DEF EngageStore, halVars, historyVars
<1>7. CASE EngageSeed
  BY <1>7 DEF EngageSeed, stampVars, halVars, historyVars
<1>8. CASE Boundary
  BY <1>8 DEF Boundary, stampVars, halVars, historyVars
<1>9. CASE Advance
  BY <1>9 DEF Advance, stampVars, halVars
<1>10. CASE Kill \/ on_shutdown
  BY <1>10 DEF Kill, on_shutdown, Die, stampVars, halVars
<1>11. CASE StartIO
  BY <1>11 DEF StartIO, stampVars, daemonVars, historyVars
<1>12. CASE StopIO
  BY <1>12 DEF StopIO, stampVars, daemonVars, halVars, historyVars
<1>13. CASE LoadSyncMode
  BY <1>13 DEF LoadSyncMode, stampVars, daemonVars, historyVars
<1>14. CASE LoadNumber
  BY <1>14 DEF LoadNumber, stampVars, daemonVars
<1>15. CASE LoadTime
  BY <1>15 DEF LoadTime, stampVars, daemonVars, historyVars
<1>16. CASE StoreNumber
  BY <1>16 DEF StoreNumber, daemonVars
<1>17. CASE StoreTime
  BY <1>17 DEF StoreTime, daemonVars
<1>18. CASE LoadSeed
  BY <1>18 DEF LoadSeed, stampVars, daemonVars
<1>19. CASE HW_Open
  BY <1>19 DEF HW_Open, stampVars, daemonVars
<1>20. CASE Tick
  BY <1>20 DEF Tick, stampVars, halVars, historyVars
<1>21. CASE UNCHANGED vars
  BY <1>21 DEF vars, stampVars, daemonVars, halVars, historyVars
<1>22. CASE JackBridge
  BY <1>22 DEF JackBridge, stampVars, halVars, historyVars
<1> QED BY <1>1, <1>2, <1>3, <1>4, <1>5, <1>6, <1>7, <1>8, <1>9, <1>10, <1>11,
            <1>12, <1>13, <1>14, <1>15, <1>16, <1>17, <1>18, <1>19, <1>20, <1>21, <1>22
            DEF Next, process_callback, GetZeroTimeStamp

\* The line through the last stamp is left only under a new seed.
LEMMA LineStep ==
  ASSUME TypeOK, CallbackInv, LineInv, [Next]_vars
  PROVE  LineInv'
<1> USE DEF TypeOK, Stamp, CallbackInv, Busy, LineInv, SameSeed, Continuing, Frame
<1>0. now \in Nat /\ Period \in Nat \ {0} /\ FramesPerBuffer \in Nat \ {0}
  BY BufferIsTicks, BootAssumption, BoundsAssumption
<1>1. CASE LoadStatus
  BY <1>1, <1>0 DEF LoadStatus, stampVars, halVars
<1>2. CASE StampTime
  BY <1>2, <1>0 DEF StampTime, halVars, historyVars
<1>3. CASE StampNumber
  BY <1>3, <1>0 DEF StampNumber, halVars
<1>4. CASE ReanchorSeed
  BY <1>4, <1>0 DEF ReanchorSeed, stampVars, halVars, historyVars
<1>5. CASE Activate
  BY <1>5, <1>0 DEF Activate, stampVars, halVars, historyVars
<1>6. CASE \E s \in {"sync", "number"} : EngageStore(s)
  BY <1>6, <1>0 DEF EngageStore, halVars, historyVars
<1>7. CASE EngageSeed
  BY <1>7, <1>0 DEF EngageSeed, stampVars, halVars, historyVars
<1>8. CASE Boundary
  BY <1>8, <1>0 DEF Boundary, stampVars, halVars, historyVars
<1>9. CASE Advance
  <2>1. /\ dpc = "copy" /\ dpc' = "idle" /\ FrameNumber' = FrameNumber + Period
        /\ line' = IF stamped THEN [n |-> pub.n, t |-> pub.t, seed |-> shmSeed] ELSE line
        /\ now' = now /\ shmSeed' = shmSeed /\ ran' = ran /\ isActive' = isActive
        /\ mLastDriverStatus' = mLastDriverStatus
        /\ missed' = IF stamped THEN 0 ELSE missed
    BY <1>9 DEF Advance, stampVars, halVars
  <2>2. ran /\ Frame' = FrameNumber /\ Frame = FrameNumber
    BY <1>0, <2>1
  <2>3. CASE ~stamped
    BY <1>0, <2>1, <2>2, <2>3
  <2>4. CASE stamped
    <3> DEFINE q == FrameNumber \div FramesPerBuffer
    <3>1. line' = [n |-> q, t |-> now, seed |-> shmSeed]
      BY <2>1, <2>4
    <3>2. q \in Nat /\ q * FramesPerBuffer <= FrameNumber
          /\ FrameNumber < q * FramesPerBuffer + FramesPerBuffer
      <4>1. FrameNumber % FramesPerBuffer \in 0 .. FramesPerBuffer - 1
            /\ q \in Nat
            /\ FrameNumber = FramesPerBuffer * q + (FrameNumber % FramesPerBuffer)
        BY <1>0, DivMod
      <4> HIDE DEF q
      <4> QED BY <1>0, <4>1
    <3> HIDE DEF q
    <3>3. line'.n = q /\ line'.t = now /\ line'.seed = shmSeed
      BY <3>1
    <3>4. Period * (now - now - missed') = 0
      BY <1>0, <2>1, <2>4
    <3> QED BY <1>0, <2>1, <2>2, <3>2, <3>3, <3>4
  <2> QED BY <2>3, <2>4
<1>10. CASE Kill \/ on_shutdown
  BY <1>10, <1>0 DEF Kill, on_shutdown, Die, stampVars, halVars
<1>11. CASE StartIO
  BY <1>11, <1>0 DEF StartIO, stampVars, daemonVars, historyVars
<1>12. CASE StopIO
  BY <1>12, <1>0 DEF StopIO, stampVars, daemonVars, halVars, historyVars
<1>13. CASE LoadSyncMode
  BY <1>13, <1>0 DEF LoadSyncMode, stampVars, daemonVars, historyVars
<1>14. CASE LoadNumber
  BY <1>14, <1>0 DEF LoadNumber, stampVars, daemonVars
<1>15. CASE LoadTime
  BY <1>15, <1>0 DEF LoadTime, stampVars, daemonVars, historyVars
<1>16. CASE StoreNumber
  BY <1>16, <1>0 DEF StoreNumber, daemonVars
<1>17. CASE StoreTime
  BY <1>17, <1>0 DEF StoreTime, daemonVars
<1>18. CASE LoadSeed
  BY <1>18, <1>0 DEF LoadSeed, stampVars, daemonVars
<1>19. CASE HW_Open
  BY <1>19, <1>0 DEF HW_Open, stampVars, daemonVars
<1>20. CASE Tick
  <2>1. /\ dpc \in {"idle", "down"} /\ now' = now + 1 /\ ran' = FALSE /\ dpc' = dpc
        /\ line' = line /\ shmSeed' = shmSeed /\ isActive' = isActive
        /\ mLastDriverStatus' = mLastDriverStatus /\ FrameNumber' = FrameNumber
        /\ missed' = IF ran THEN missed ELSE missed + 1
    BY <1>20 DEF Tick, stampVars, halVars
  <2>2. Frame' = FrameNumber /\ Frame = IF ran THEN FrameNumber - Period ELSE FrameNumber
    BY <2>1
  <2>3. ASSUME SameSeed
        PROVE  /\ line.t \in Nat /\ line.n * FramesPerBuffer \in Nat
               /\ Period * (now - line.t - missed) \in Int
    <3>1. line.t \in Nat /\ line.n \in Nat
      BY <2>3
    <3> QED BY <1>0, <3>1
  <2>4. ASSUME SameSeed
        PROVE  Period * (now' - line.t - missed')
                 = Period * (now - line.t - missed) + (IF ran THEN Period ELSE 0)
    <3> DEFINE m == line.t + missed
    <3>1. m \in Int
      BY <2>3, <2>4
    <3>2. /\ now - line.t - missed = now - m
          /\ now' - line.t - missed' = IF ran THEN now + 1 - m ELSE now - m
      BY <1>0, <2>1, <2>3, <2>4
    <3> HIDE DEF m
    <3>3. Period * (now + 1 - m) = Period * (now - m) + Period /\ Period * (now - m) \in Int
      BY <1>0, <3>1, TickProduct
    <3> QED BY <1>0, <3>2, <3>3
  <2> QED BY <1>0, <2>1, <2>2, <2>3, <2>4
<1>21. CASE UNCHANGED vars
  BY <1>21, <1>0 DEF vars, stampVars, daemonVars, halVars, historyVars
<1>22. CASE JackBridge
  BY <1>22, <1>0 DEF JackBridge, stampVars, halVars, historyVars
<1> QED BY <1>1, <1>2, <1>3, <1>4, <1>5, <1>6, <1>7, <1>8, <1>9, <1>10, <1>11,
            <1>12, <1>13, <1>14, <1>15, <1>16, <1>17, <1>18, <1>19, <1>20, <1>21, <1>22
            DEF Next, process_callback, GetZeroTimeStamp

-----------------------------------------------------------------------------
(* The theorems.                                                           *)

\* The constructor of the daemon and _HW_Open leave a consistent pair.
LEMMA InitInv == Init => Inv
<1> SUFFICES ASSUME Init PROVE Inv
  OBVIOUS
<1>1. TypeOK
  <2>1. /\ now \in Boot .. Boot + MaxTicks /\ faults \in 0 .. MaxFaults
    BY BootAssumption, BoundsAssumption DEF Init
  <2>2. isActive \in BOOLEAN /\ ran \in BOOLEAN /\ stamped \in BOOLEAN /\ halWrote \in BOOLEAN
    BY DEF Init
  <2> QED BY <2>1, <2>2 DEF Init, TypeOK, Stamp, INIT, ACTIVE, STARTED
<1>2. CallbackInv /\ PairInv /\ LineInv /\ StampNotEarly
  BY DEF Init, CallbackInv, Busy, PairInv, LineInv, SameSeed, Continuing, StampNotEarly
<1> QED BY <1>1, <1>2 DEF Inv

\* The invariant is inductive.
LEMMA NextInv == Inv /\ [Next]_vars => Inv'
  BY TypeStep, CallbackStep, PairStep, LineStep, EarlyStep DEF Inv

\* Only the end of a callback moves the line.
LEMMA LineMoves ==
  ASSUME [Next]_vars, line' # line, line' # NoStamp
  PROVE  Advance
  BY DEF Next, process_callback, GetZeroTimeStamp, LoadStatus, StampTime, StampNumber,
     ReanchorSeed, Activate, EngageStore, EngageSeed, Boundary, Kill, on_shutdown, Die,
     JackBridge, StartIO, StopIO, LoadSyncMode, LoadNumber, LoadTime, StoreNumber, StoreTime, LoadSeed, HW_Open,
     Tick, vars, historyVars

\* A callback that ends with a second stamp under the same seed has stamped a
\* boundary, less than a ring buffer ahead of the line through the first, which is
\* not continued over the periods without a callback.
LEMMA JumpStep ==
  ASSUME Inv, [Next]_vars, NewStampSameSeed
  PROVE  Jump + missed \in 0 .. RingTicks - 1
<1>1. Advance
  BY LineMoves DEF NewStampSameSeed
<1>2. stamped /\ line' = [n |-> pub.n, t |-> pub.t, seed |-> shmSeed] /\ dpc = "copy"
  BY <1>1 DEF Advance, NewStampSameSeed
<1>3. SameSeed
  BY <1>2 DEF NewStampSameSeed, SameSeed
<1>4. Continuing /\ Busy /\ Frame = FrameNumber
  BY <1>2, <1>3 DEF Inv, CallbackInv, Continuing, Busy, Frame
<1> DEFINE q == FrameNumber \div FramesPerBuffer
<1>5. pub.t = now /\ pub.n = q
  BY <1>2, <1>4 DEF Inv, CallbackInv
<1>6. FrameNumber % FramesPerBuffer = 0
  BY <1>2, <1>3 DEF Inv, LineInv
<1>7. /\ now \in Nat /\ FrameNumber \in Nat /\ line.n \in Nat /\ line.t \in Nat
      /\ missed \in Nat
      /\ Period \in Nat \ {0} /\ FramesPerBuffer \in Nat \ {0}
      /\ RingTicks \in Nat \ {0} /\ FramesPerBuffer = Period * RingTicks
  BY <1>3, BufferIsTicks, BootAssumption, BoundsAssumption DEF Inv, TypeOK, SameSeed
<1>8. q \in Nat /\ FrameNumber = q * FramesPerBuffer
  <2>1. q \in Nat /\ FrameNumber = FramesPerBuffer * q + (FrameNumber % FramesPerBuffer)
    BY <1>7, DivMod
  <2> HIDE DEF q
  <2> QED BY <1>6, <1>7, <2>1
<1> HIDE DEF q
<1>9. /\ line.n * FramesPerBuffer <= q * FramesPerBuffer - Period * (now - line.t - missed)
      /\ q * FramesPerBuffer - Period * (now - line.t - missed)
           < line.n * FramesPerBuffer + FramesPerBuffer
  BY <1>4, <1>8 DEF Inv, LineInv
<1>10. (q - line.n) * RingTicks - (now - line.t - missed) \in 0 .. RingTicks - 1
  <2>1. now - line.t - missed \in Int
    BY <1>7
  <2> QED BY <1>7, <1>8, <1>9, <2>1, JumpBound
<1>11. line'.n = q /\ line'.t = now
  BY <1>2, <1>5
<1> QED BY <1>7, <1>8, <1>10, <1>11 DEF Jump

\* The inductive invariant holds of every behaviour.
LEMMA InvHolds == Spec => []Inv
  BY InitInv, NextInv, PTL DEF Spec

\* Every register of the clock and every local of the callback and of
\* GetZeroTimeStamp keeps its type, for every period, ring size and restart.
THEOREM TypeCorrect == Spec => []TypeOK
<1>1. Inv => TypeOK
  BY DEF Inv
<1> QED BY <1>1, InvHolds, PTL

\* A stamp that GetZeroTimeStamp returns in sync mode never dates a boundary
\* before the daemon reached it, although neither side takes a lock.
THEOREM StampIsNotEarly == Spec => []StampNotEarly
<1>1. Inv => StampNotEarly
  BY DEF Inv
<1> QED BY <1>1, InvHolds, PTL

\* Two successive stamps under one seed lie on a common line, but for the periods
\* without a callback and less than one ring buffer ahead, whatever stops, starts
\* and restarts lie between them.
THEOREM StampsStayNearLine == Spec => StampsNearLine
<1>1. Inv /\ [Next]_vars => [NewStampSameSeed => Jump + missed \in 0 .. RingTicks - 1]_vars
  BY JumpStep
<1> QED BY <1>1, InvHolds, PTL DEF Spec, StampsNearLine
===============================================================================
