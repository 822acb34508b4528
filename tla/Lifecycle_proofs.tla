--------------------------- MODULE Lifecycle_proofs ---------------------------
(***************************************************************************)
(* Proofs about the status register and the heartbeat watchdog, for every  *)
(* ring size, sampling gap, counter width and number of IO clients.        *)
(*                                                                         *)
(* The watchdog compares a counter that it samples with a host time that   *)
(* it recorded itself.  Its correctness rests on how four ages stand to    *)
(* one another: that of the last beat (quiet), that of the last change     *)
(* sampled (aliveAge), that of the last sample (sampleAge), and how many   *)
(* beats there have been since (Behind).                                   *)
(***************************************************************************)
EXTENDS Lifecycle, TLAPS

\* The constants, as the proofs use them.
LEMMA Constants ==
  /\ Threshold \in Nat /\ Horizon \in Nat
  /\ Horizon = Threshold + 2 * SampleGap + 1
  /\ SampleGap \in Nat \ {0} /\ MaxStart \in Nat \ {0}
  /\ HBMod \in Nat /\ HBMod > SampleGap + 1
  BY RingTicksAssumption, SampleGapAssumption, HBModAssumption, MaxStartAssumption
  DEF Threshold, Horizon

\* The heartbeat counter wraps to zero.
LEMMA Beat ==
  ASSUME NEW n \in Nat \ {0}, NEW b \in 0 .. n - 1
  PROVE  (b + 1) % n = IF b + 1 = n THEN 0 ELSE b + 1
  OBVIOUS

-----------------------------------------------------------------------------
(* The inductive invariant.                                                *)

\* Only an environment that may lose jackd loses it.
JackdInv == jackd = "down" => JackdMayFail

\* Beats by which the register is ahead of the driver's sample.
Behind == IF shmDaemonAlive >= mLastDaemonAlive
            THEN shmDaemonAlive - mLastDaemonAlive
            ELSE shmDaemonAlive - mLastDaemonAlive + HBMod

\* A change not sampled yet is younger than the last sample, the last beat is
\* at most a sampling gap older than the change the driver recorded, and a
\* device is alive only if that was fresh at the last sample.
Ages ==
  Running =>
    /\ shmDaemonAlive # mLastDaemonAlive => quiet <= sampleAge
    /\ quiet <= aliveAge + SampleGap
    /\ mDeviceIsAlive => aliveAge <= Threshold + sampleAge

\* There is at most one beat a period, so the counter cannot wrap between two
\* samples: one that has not moved has not been written.
Beats ==
  Running /\ ~zeroed =>
    /\ Behind <= sampleAge + (IF called THEN 1 ELSE 0)
    /\ Behind = 0 => quiet >= aliveAge

\* The inductive invariant.
Inv == TypeOK /\ JackdInv /\ StatusFollowsIO /\ Ages /\ Beats

\* Nothing runs in the beginning.
LEMMA InitInv == Init => Inv
<1> SUFFICES ASSUME Init PROVE Inv
  OBVIOUS
<1>1. TypeOK
  <2>1. /\ 0 \in 0 .. HBMod - 1 /\ 0 \in 0 .. MaxStart /\ Horizon \in 0 .. Horizon
        /\ 0 \in 0 .. SampleGap
    BY Constants
  <2> QED BY <2>1 DEF Init, TypeOK, INIT, ACTIVE, STARTED
<1> QED BY <1>1 DEF Init, Inv, JackdInv, StatusFollowsIO, Ages, Beats, Running

\* The ages saturate at the horizon.
LEMMA OlderAge ==
  ASSUME NEW a \in 0 .. Horizon
  PROVE  Older(a) \in 0 .. Horizon /\ (Older(a) = a + 1 \/ (a = Horizon /\ Older(a) = a))
  BY Constants DEF Older

\* Every variable keeps its type.
LEMMA TypeStep == Inv /\ [Next]_vars => TypeOK'
<1> SUFFICES ASSUME Inv, [Next]_vars PROVE TypeOK'
  OBVIOUS
<1> USE DEF Inv, TypeOK, INIT, ACTIVE, STARTED
<1>1. CASE DaemonStart
  BY <1>1 DEF DaemonStart, halVars
<1>2. CASE process_callback
  <2>1. HBMod \in Nat \ {0}
    BY Constants
  <2>2. (shmDaemonAlive + 1) % HBMod \in 0 .. HBMod - 1
    BY <2>1
  <2> QED BY <1>2, <2>2, Constants DEF process_callback, halVars
<1>3. CASE on_shutdown
  BY <1>3, Constants DEF on_shutdown, halVars
<1>4. CASE Terminate
  <2>1. daemon' = "down" /\ isActive' = FALSE /\ transferring' = FALSE
    BY <1>4 DEF Terminate
  <2>2. UNCHANGED <<jackd, shmVars, halVars, quiet, zeroed, called>>
    BY <1>4 DEF Terminate
  <2>3. isActive' \in BOOLEAN /\ transferring' \in BOOLEAN /\ daemon' \in {"down", "up", "exiting"}
    BY <2>1
  <2>4. UNCHANGED shmVars /\ UNCHANGED halVars
    BY <2>2
  <2> QED BY <2>2, <2>3, <2>4 DEF shmVars, halVars
<1>5. CASE HW_Open
  BY <1>5, Constants DEF HW_Open, daemonVars
<1>6. CASE StartIO
  <2>1. mStartCount' \in 0 .. MaxStart /\ 0 \in 0 .. Horizon /\ 0 \in 0 .. SampleGap
    BY <1>6, Constants DEF StartIO
  <2>2. CASE mStartCount = 0
    BY <1>6, <2>1, <2>2 DEF StartIO, daemonVars
  <2>3. CASE mStartCount # 0
    BY <1>6, <2>1, <2>3 DEF StartIO, daemonVars
  <2> QED BY <2>2, <2>3
<1>7. CASE StopIO
  BY <1>7, Constants DEF StopIO, daemonVars
<1>8. CASE GetZeroTimeStamp
  <2>1. 0 \in 0 .. Horizon /\ 0 \in 0 .. SampleGap
    BY Constants
  <2>2. mDeviceIsAlive' \in BOOLEAN /\ zeroed' \in BOOLEAN
    BY <1>8 DEF GetZeroTimeStamp
  <2>3. aliveAge' \in 0 .. Horizon /\ mLastDaemonAlive' \in 0 .. HBMod - 1
    BY <1>8, <2>1 DEF GetZeroTimeStamp, shmVars
  <2> QED BY <1>8, <2>1, <2>2, <2>3 DEF GetZeroTimeStamp, daemonVars, shmVars
<1>9. CASE CoreaudiodKilled \/ JackdDown \/ JackdUp
  BY <1>9 DEF CoreaudiodKilled, JackdDown, JackdUp, daemonVars, shmVars, halVars
<1>10. CASE Tick
  <2>1. Older(aliveAge) \in 0 .. Horizon /\ Older(quiet) \in 0 .. Horizon
    BY OlderAge
  <2>2. sampleAge' \in 0 .. SampleGap
    BY <1>10, Constants DEF Tick, Running
  <2>3. called' \in BOOLEAN /\ aliveAge' \in 0 .. Horizon /\ quiet' \in 0 .. Horizon
    BY <1>10, <2>1 DEF Tick
  <2> QED BY <1>10, <2>2, <2>3 DEF Tick, daemonVars, shmVars
<1>11. CASE UNCHANGED vars
  BY <1>11 DEF vars, daemonVars, shmVars, halVars
<1> QED BY <1>1, <1>2, <1>3, <1>4, <1>5, <1>6, <1>7, <1>8, <1>9, <1>10, <1>11 DEF Next

\* Starts and stops move the status register with the count of clients; only
\* on_shutdown, which needs a jackd that went away, overwrites it.
LEMMA StatusStep == Inv /\ [Next]_vars => JackdInv' /\ StatusFollowsIO'
<1> SUFFICES ASSUME Inv, [Next]_vars PROVE JackdInv' /\ StatusFollowsIO'
  OBVIOUS
<1> USE DEF Inv, JackdInv, StatusFollowsIO, INIT, ACTIVE, STARTED
<1>1. mStartCount \in Nat
  BY Constants DEF TypeOK
<1>2. CASE on_shutdown
  BY <1>2 DEF on_shutdown, halVars
<1>3. CASE HW_Open
  BY <1>3 DEF HW_Open
<1>4. CASE StartIO
  BY <1>1, <1>4 DEF StartIO
<1>5. CASE StopIO
  BY <1>1, <1>5 DEF StopIO
<1>6. CASE CoreaudiodKilled \/ JackdDown \/ JackdUp
  BY <1>6 DEF CoreaudiodKilled, JackdDown, JackdUp, shmVars, halVars
<1>7. CASE DaemonStart \/ process_callback \/ Terminate \/ GetZeroTimeStamp \/ Tick
           \/ UNCHANGED vars
  BY <1>7 DEF DaemonStart, process_callback, Terminate, GetZeroTimeStamp, Tick, vars,
              shmVars, halVars
<1> QED BY <1>2, <1>3, <1>4, <1>5, <1>6, <1>7 DEF Next

\* Ages and Beats.
LEMMA WatchdogStep == Inv /\ [Next]_vars => Ages' /\ Beats'
<1> SUFFICES ASSUME Inv, [Next]_vars PROVE Ages' /\ Beats'
  OBVIOUS
<1> USE DEF Inv
<1>0. /\ shmDaemonAlive \in 0 .. HBMod - 1 /\ mLastDaemonAlive \in 0 .. HBMod - 1
      /\ aliveAge \in 0 .. Horizon /\ sampleAge \in 0 .. SampleGap /\ quiet \in 0 .. Horizon
      /\ mStartCount \in 0 .. MaxStart
      /\ mDeviceIsAlive \in BOOLEAN /\ zeroed \in BOOLEAN /\ called \in BOOLEAN
  BY DEF TypeOK
<1>1. CASE process_callback
  <2>1. shmDaemonAlive' = IF shmDaemonAlive + 1 = HBMod THEN 0 ELSE shmDaemonAlive + 1
    BY <1>0, <1>1, Constants, Beat DEF process_callback
  <2>2. /\ quiet' = 0 /\ ~called /\ called'
        /\ UNCHANGED <<hal, mStartCount, mDeviceIsAlive, mLastDaemonAlive, aliveAge,
                       sampleAge, zeroed>>
    BY <1>1 DEF process_callback, halVars
  <2>3. Ages'
    BY <1>0, <2>2, Constants DEF Ages, Running
  <2>4. Beats'
    BY <1>0, <2>1, <2>2, Constants DEF Beats, Behind, Running
  <2> QED BY <2>3, <2>4
<1>2. CASE on_shutdown
  BY <1>0, <1>2, Constants DEF on_shutdown, halVars, Ages, Beats, Running
<1>3. CASE HW_Open
  BY <1>3 DEF HW_Open, Ages, Beats, Running
<1>4. CASE StartIO
  <2>1. CASE mStartCount = 0
    BY <1>0, <1>4, <2>1, Constants DEF StartIO, Ages, Beats, Behind, Running
  <2>2. CASE mStartCount # 0
    BY <1>0, <1>4, <2>2, Constants DEF StartIO, Ages, Beats, Behind, Running
  <2> QED BY <2>1, <2>2
<1>5. CASE StopIO
  BY <1>0, <1>5, Constants DEF StopIO, Ages, Beats, Behind, Running
<1>6. CASE GetZeroTimeStamp
  <2>1. /\ Running /\ sampleAge' = 0
        /\ UNCHANGED <<hal, mStartCount, shmDaemonAlive, quiet, called>>
    BY <1>6 DEF GetZeroTimeStamp, shmVars
  <2>2. CASE shmDaemonAlive # mLastDaemonAlive
    <3>1. aliveAge' = 0 /\ mLastDaemonAlive' = shmDaemonAlive
      BY <1>6, <2>2 DEF GetZeroTimeStamp
    <3>2. quiet <= sampleAge
      BY <2>1, <2>2 DEF Ages
    <3>3. Ages'
      BY <1>0, <2>1, <3>1, <3>2, Constants DEF Ages
    <3>4. Beats'
      BY <1>0, <2>1, <3>1, Constants DEF Beats, Behind
    <3> QED BY <3>3, <3>4
  <2>3. CASE shmDaemonAlive = mLastDaemonAlive
    <3>1. /\ UNCHANGED <<aliveAge, mLastDaemonAlive>>
          /\ mDeviceIsAlive' => aliveAge <= Threshold
      BY <1>6, <2>3 DEF GetZeroTimeStamp
    <3>2. zeroed' <=> zeroed
      BY <1>6, <2>3 DEF GetZeroTimeStamp
    <3>3. Ages'
      BY <1>0, <2>1, <2>3, <3>1, Constants DEF Ages, Running
    <3>4. Beats'
      BY <1>0, <2>1, <2>3, <3>1, <3>2, Constants DEF Beats, Behind, Running
    <3> QED BY <3>3, <3>4
  <2> QED BY <2>2, <2>3
<1>7. CASE Tick
  <2>1. /\ Older(aliveAge) = aliveAge + 1 \/ (aliveAge = Horizon /\ Older(aliveAge) = aliveAge)
        /\ Older(quiet) = quiet + 1 \/ (quiet = Horizon /\ Older(quiet) = quiet)
    BY <1>0, OlderAge
  <2>2. /\ aliveAge' = Older(aliveAge) /\ quiet' = Older(quiet) /\ ~called'
        /\ Running => sampleAge' = sampleAge + 1
        /\ UNCHANGED <<hal, mStartCount, shmDaemonAlive, mDeviceIsAlive, mLastDaemonAlive,
                       zeroed>>
    BY <1>0, <1>7 DEF Tick, shmVars
  <2>3. Ages'
    BY <1>0, <2>1, <2>2, Constants DEF Ages, Running
  <2>4. Beats'
    BY <1>0, <2>1, <2>2, Constants DEF Beats, Behind, Running
  <2> QED BY <2>3, <2>4
<1>8. CASE DaemonStart \/ Terminate \/ CoreaudiodKilled \/ JackdDown \/ JackdUp
           \/ UNCHANGED vars
  BY <1>8 DEF DaemonStart, Terminate, CoreaudiodKilled, JackdDown, JackdUp, vars,
              daemonVars, shmVars, halVars, Ages, Beats, Behind, Running
<1> QED BY <1>1, <1>2, <1>3, <1>4, <1>5, <1>6, <1>7, <1>8 DEF Next

\* The invariant holds of every behaviour.
THEOREM Invariance == Spec => []Inv
<1>1. Inv /\ [Next]_vars => Inv'
  BY TypeStep, StatusStep, WatchdogStep DEF Inv
<1> QED BY InitInv, <1>1, PTL DEF Spec

-----------------------------------------------------------------------------
(* What the invariant gives.                                               *)

\* Every variable keeps its type.
THEOREM TypeCorrect == Spec => []TypeOK
<1>1. Inv => TypeOK
  BY DEF Inv
<1> QED BY Invariance, <1>1, PTL

\* The status register says whether some client of the loaded HAL runs IO.
THEOREM StatusCorrect == Spec => []StatusFollowsIO
<1>1. Inv => StatusFollowsIO
  BY DEF Inv
<1> QED BY Invariance, <1>1, PTL

\* A heartbeat that stopped is noticed within the threshold and two samples.
THEOREM DetectionBounded == Spec => []DetectionBound
<1>1. Inv => DetectionBound
  BY Constants DEF Inv, TypeOK, Ages, DetectionBound
<1> QED BY Invariance, <1>1, PTL

\* A heartbeat that goes on is never declared dead.
THEOREM NoFalsePositive == Spec => NoFalseDeath
<1>1. Inv /\ [Next]_vars =>
        [mDeviceIsAlive /\ ~mDeviceIsAlive' /\ ~zeroed => quiet > Threshold]_vars
  <2> SUFFICES ASSUME Inv, Next, mDeviceIsAlive, ~mDeviceIsAlive', ~zeroed
               PROVE  quiet > Threshold
    BY DEF vars
  <2>1. GetZeroTimeStamp
    BY DEF Next, DaemonStart, process_callback, on_shutdown, Terminate, HW_Open, StartIO,
           StopIO, CoreaudiodKilled, JackdDown, JackdUp, Tick, halVars
  <2>2. Running /\ shmDaemonAlive = mLastDaemonAlive /\ ~(aliveAge <= Threshold)
    BY <2>1 DEF GetZeroTimeStamp
  <2>3. Behind = 0 => quiet >= aliveAge
    BY <2>2 DEF Inv, Beats
  <2> QED BY <2>2, <2>3, Constants DEF Inv, TypeOK, Behind
<1> QED BY Invariance, <1>1, PTL DEF Spec, NoFalseDeath
==============================================================================
