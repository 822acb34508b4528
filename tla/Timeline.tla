------------------------------ MODULE Timeline -------------------------------
(***************************************************************************)
(* The device clock: the daemon's process callback stamps the pair         *)
(* (shmNumberTimeStamps, shmZeroHostTime) at every ring-buffer boundary    *)
(* and GetZeroTimeStamp, on CoreAudio's IO thread in another process,      *)
(* returns it together with shmSeed.  Neither side locks anything, so every *)
(* load and store of a register is a step of its own here, in program      *)
(* order; the two relaxed stores of the activation may land in either      *)
(* order.  Watchdog and heartbeat, parts of the same handlers, are         *)
(* modelled in Lifecycle.                                                  *)
(*                                                                         *)
(* Host time is counted in JACK periods and starts at Boot.  A period may  *)
(* pass without a callback: JACK skips a client at an xrun, a backend drops *)
(* a cycle, or there is no daemon.  A callback ends in its own period.      *)
(***************************************************************************)
EXTENDS Integers

CONSTANTS
  Period,           \* nframes of a JACK cycle
  FramesPerBuffer,  \* frames of the ring buffer, STRBUFNUM/2
  Boot,             \* host time when the model starts
  MaxTicks,         \* bound: host ticks explored
  MaxFaults,        \* bound: restarts of the daemon or of coreaudiod
  NoStamp           \* no stamp recorded

ASSUME PeriodAssumption   == Period \in Nat \ {0}
ASSUME BufferAssumption   == FramesPerBuffer \in Nat \ {0} /\ FramesPerBuffer % Period = 0
ASSUME BootAssumption     == Boot \in Nat
ASSUME BoundsAssumption   == MaxTicks \in Nat /\ MaxFaults \in Nat

INIT    == 0   \* JB_DRV_STATUS_INIT
ACTIVE  == 1   \* JB_DRV_STATUS_ACTIVE
STARTED == 2   \* JB_DRV_STATUS_STARTED

\* Host ticks per ring buffer (theHostTicksPerRingBuffer).
RingTicks == FramesPerBuffer \div Period

VARIABLES
  now,                  \* mach_absolute_time()
  shmDriverStatus, shmSyncMode, shmSeed, shmNumberTimeStamps, shmZeroHostTime,
  FrameNumber, isActive, mLastDriverStatus,
  dpc,                  \* where the callback stands; "down": there is no daemon
  pending,              \* relaxed stores of the activation still to land
  ran,                  \* the callback of this period has been started
  io,                   \* mStartCount > 0
  gNumberTimeStamps,    \* gDevice_NumberTimeStamps, the HAL's own count
  hpc,                  \* where GetZeroTimeStamp stands
  out,                  \* its out parameters so far
  \* history variables
  pub,                  \* the pair the daemon last made complete
  stamped,              \* this callback stamped
  line,                 \* the last stamp of an earlier callback, with its seed
  halWrote,             \* the HAL stored a register since pub was stamped
  seen,                 \* pub when out.n was loaded, NoStamp if halWrote
  missed,               \* periods without a callback since the last stamp
  faults

daemonVars  == <<FrameNumber, isActive, mLastDriverStatus, dpc, pending, ran>>
stampVars   == <<shmNumberTimeStamps, shmZeroHostTime>>
halVars     == <<io, gNumberTimeStamps, hpc, out>>
historyVars == <<pub, stamped, line, halWrote, seen, missed, faults>>
vars        == <<now, shmDriverStatus, shmSyncMode, shmSeed, stampVars,
                 daemonVars, halVars, historyVars>>

Init ==
  /\ now = Boot
  /\ shmDriverStatus = ACTIVE /\ shmSyncMode = 0 /\ shmSeed = 1
  /\ shmNumberTimeStamps = 0 /\ shmZeroHostTime = 0
  /\ FrameNumber = 0 /\ isActive = FALSE /\ mLastDriverStatus = ACTIVE
  /\ dpc = "idle" /\ pending = {} /\ ran = FALSE
  /\ io = FALSE
  /\ gNumberTimeStamps = 0 /\ hpc = "idle" /\ out = [n |-> 0, t |-> 0, sync |-> 0]
  /\ pub = NoStamp /\ stamped = FALSE /\ line = NoStamp
  /\ halWrote = FALSE /\ seen = NoStamp /\ missed = 0 /\ faults = 0

-----------------------------------------------------------------------------
(* JackBridge::process_callback                                            *)

\* The callback loads the driver status once and keeps it.
LoadStatus ==
  /\ dpc = "idle" /\ ~ran
  /\ ran' = TRUE
  /\ stamped' = FALSE
  /\ mLastDriverStatus' = shmDriverStatus
  /\ dpc' = IF shmDriverStatus # STARTED THEN "idle"   \* zero buffers, return
            ELSE IF mLastDriverStatus # STARTED THEN "reanchor_t"
            ELSE "active"
  /\ UNCHANGED <<now, shmDriverStatus, shmSyncMode, shmSeed, stampVars, FrameNumber,
                 isActive, pending, halVars, pub, line, halWrote, seen, missed, faults>>

\* A store of the host time, at a re-anchor or at a boundary.
StampTime ==
  /\ dpc \in {"reanchor_t", "boundary_t"}
  /\ shmZeroHostTime' = now
  /\ dpc' = IF dpc = "reanchor_t" THEN "reanchor_n" ELSE "boundary_n"
  /\ UNCHANGED <<now, shmDriverStatus, shmSyncMode, shmSeed, shmNumberTimeStamps,
                 FrameNumber, isActive, mLastDriverStatus, pending, ran, halVars,
                 historyVars>>

\* Mutant of StampNumber: the buffer before the one that begins is stamped.
StampNumber_Previous ==
  /\ dpc \in {"reanchor_n", "boundary_n"}
  /\ shmNumberTimeStamps' = FrameNumber \div FramesPerBuffer - 1
  /\ pub' = [n |-> FrameNumber \div FramesPerBuffer, t |-> now]
  /\ stamped' = TRUE
  /\ halWrote' = (shmZeroHostTime # now)
  /\ dpc' = IF dpc = "reanchor_n" THEN "reanchor_seed" ELSE "copy"
  /\ UNCHANGED <<now, shmDriverStatus, shmSyncMode, shmSeed, shmZeroHostTime,
                 FrameNumber, isActive, mLastDriverStatus, pending, ran, halVars,
                 line, seen, missed, faults>>

\* The store of the stamp number that completes the pair.
StampNumber ==
  /\ dpc \in {"reanchor_n", "boundary_n"}
  /\ shmNumberTimeStamps' = FrameNumber \div FramesPerBuffer
  /\ pub' = [n |-> FrameNumber \div FramesPerBuffer, t |-> now]
  /\ stamped' = TRUE
  /\ halWrote' = (shmZeroHostTime # now)
  /\ dpc' = IF dpc = "reanchor_n" THEN "reanchor_seed" ELSE "copy"
  /\ UNCHANGED <<now, shmDriverStatus, shmSyncMode, shmSeed, shmZeroHostTime,
                 FrameNumber, isActive, mLastDriverStatus, pending, ran, halVars,
                 line, seen, missed, faults>>

\* Mutant of ReanchorSeed: the jump is not announced.
ReanchorSeed_Silent ==
  /\ dpc = "reanchor_seed"
  /\ dpc' = "active"
  /\ UNCHANGED <<now, shmDriverStatus, shmSyncMode, shmSeed, stampVars, FrameNumber,
                 isActive, mLastDriverStatus, pending, ran, halVars, historyVars>>

ReanchorSeed ==
  /\ dpc = "reanchor_seed"
  /\ shmSeed' = shmSeed + 1
  /\ dpc' = "active"
  /\ UNCHANGED <<now, shmDriverStatus, shmSyncMode, stampVars, FrameNumber, isActive,
                 mLastDriverStatus, pending, ran, halVars, historyVars>>

\* The first started callback of the process begins the timeline at zero.
Activate ==
  /\ dpc = "active"
  /\ IF isActive
       THEN UNCHANGED <<FrameNumber, pending>> /\ dpc' = "boundary"
       ELSE FrameNumber' = 0 /\ pending' = {"sync", "number"} /\ dpc' = "engage"
  /\ UNCHANGED <<now, shmDriverStatus, shmSyncMode, shmSeed, stampVars, isActive,
                 mLastDriverStatus, ran, halVars, historyVars>>

EngageStore(s) ==
  /\ dpc = "engage" /\ s \in pending
  /\ pending' = pending \ {s}
  /\ shmSyncMode' = IF s = "sync" THEN 1 ELSE shmSyncMode
  /\ shmNumberTimeStamps' = IF s = "number" THEN 0 ELSE shmNumberTimeStamps
  /\ UNCHANGED <<now, shmDriverStatus, shmSeed, shmZeroHostTime, FrameNumber, isActive,
                 mLastDriverStatus, dpc, ran, halVars, historyVars>>

EngageSeed ==
  /\ dpc = "engage" /\ pending = {}
  /\ shmSeed' = shmSeed + 1
  /\ isActive' = TRUE
  /\ dpc' = "boundary"
  /\ UNCHANGED <<now, shmDriverStatus, shmSyncMode, stampVars, FrameNumber,
                 mLastDriverStatus, pending, ran, halVars, historyVars>>

Boundary ==
  /\ dpc = "boundary"
  /\ dpc' = IF FrameNumber % FramesPerBuffer = 0 THEN "boundary_t" ELSE "copy"
  /\ UNCHANGED <<now, shmDriverStatus, shmSyncMode, shmSeed, stampVars, FrameNumber,
                 isActive, mLastDriverStatus, pending, ran, halVars, historyVars>>

\* The ring copies (RingTransfer) and the end of the callback.
Advance ==
  /\ dpc = "copy"
  /\ FrameNumber' = FrameNumber + Period
  /\ dpc' = "idle"
  /\ line' = IF stamped THEN [n |-> pub.n, t |-> pub.t, seed |-> shmSeed] ELSE line
  /\ missed' = IF stamped THEN 0 ELSE missed
  /\ UNCHANGED <<now, shmDriverStatus, shmSyncMode, shmSeed, stampVars, isActive,
                 mLastDriverStatus, pending, ran, halVars, pub, stamped, halWrote,
                 seen, faults>>

process_callback ==
  \/ LoadStatus \/ StampTime \/ StampNumber \/ ReanchorSeed \/ Activate
  \/ \E s \in {"sync", "number"} : EngageStore(s)
  \/ EngageSeed \/ Boundary \/ Advance

\* The process is gone, and with it the members of JackBridge.
Die ==
  /\ dpc # "down" /\ faults < MaxFaults
  /\ faults' = faults + 1
  /\ dpc' = "down" /\ pending' = {}
  /\ FrameNumber' = 0 /\ isActive' = FALSE /\ mLastDriverStatus' = ACTIVE
  /\ UNCHANGED <<now, shmSyncMode, shmSeed, stampVars, ran, halVars,
                 pub, stamped, line, halWrote, seen, missed>>

\* The daemon is killed anywhere in its callback.
Kill == Die /\ UNCHANGED shmDriverStatus

\* jackd goes away between two callbacks: the status is cleared before the exit.
on_shutdown == dpc = "idle" /\ Die /\ shmDriverStatus' = INIT

\* launchd starts the daemon again, periods later; the constructor of JackBridge.
JackBridge ==
  /\ dpc = "down"
  /\ dpc' = "idle"
  /\ shmSyncMode' = 0
  /\ UNCHANGED <<now, shmDriverStatus, shmSeed, stampVars, FrameNumber, isActive,
                 mLastDriverStatus, pending, ran, halVars, historyVars>>

-----------------------------------------------------------------------------
(* SA_Device                                                               *)

\* The first StartIO and the last StopIO: neither looks at the status it replaces.
StartIO ==
  /\ ~io
  /\ io' = TRUE
  /\ gNumberTimeStamps' = 0
  /\ shmDriverStatus' = STARTED
  /\ UNCHANGED <<now, shmSyncMode, shmSeed, stampVars, daemonVars, hpc, out, historyVars>>

StopIO ==
  /\ io /\ hpc = "idle"
  /\ io' = FALSE
  /\ shmDriverStatus' = ACTIVE
  /\ UNCHANGED <<now, shmSyncMode, shmSeed, stampVars, daemonVars, gNumberTimeStamps, hpc,
                 out, historyVars>>

\* GetZeroTimeStamp advances its own count by at most one, then picks its
\* source.  gDevice_AnchorHostTime is 0 from _HW_StartIO on.
LoadSyncMode ==
  /\ hpc = "idle" /\ io
  /\ gNumberTimeStamps' = IF (gNumberTimeStamps + 1) * RingTicks <= now
                            THEN gNumberTimeStamps + 1 ELSE gNumberTimeStamps
  /\ out' = [out EXCEPT !.sync = shmSyncMode]
  /\ hpc' = IF shmSyncMode = 1 THEN "load_n" ELSE "store_n"
  /\ UNCHANGED <<now, shmDriverStatus, shmSyncMode, shmSeed, stampVars, daemonVars, io,
                 historyVars>>

LoadNumber ==
  /\ hpc = "load_n"
  /\ out' = [out EXCEPT !.n = shmNumberTimeStamps]
  /\ seen' = IF halWrote \/ shmNumberTimeStamps # pub.n THEN NoStamp ELSE pub
  /\ hpc' = "load_t"
  /\ UNCHANGED <<now, shmDriverStatus, shmSyncMode, shmSeed, stampVars, daemonVars, io,
                 gNumberTimeStamps, pub, stamped, line, halWrote, missed, faults>>

LoadTime ==
  /\ hpc = "load_t"
  /\ out' = [out EXCEPT !.t = shmZeroHostTime]
  /\ hpc' = "seed"
  /\ UNCHANGED <<now, shmDriverStatus, shmSyncMode, shmSeed, stampVars, daemonVars, io,
                 gNumberTimeStamps, historyVars>>

\* Without sync mode the HAL free-runs and stores its own pair.
StoreNumber ==
  /\ hpc = "store_n"
  /\ shmNumberTimeStamps' = gNumberTimeStamps
  /\ out' = [out EXCEPT !.n = gNumberTimeStamps]
  /\ halWrote' = TRUE
  /\ hpc' = "store_t"
  /\ UNCHANGED <<now, shmDriverStatus, shmSyncMode, shmSeed, shmZeroHostTime, daemonVars,
                 io, gNumberTimeStamps, pub, stamped, line, seen, missed, faults>>

StoreTime ==
  /\ hpc = "store_t"
  /\ shmZeroHostTime' = gNumberTimeStamps * RingTicks
  /\ out' = [out EXCEPT !.t = gNumberTimeStamps * RingTicks]
  /\ halWrote' = TRUE
  /\ hpc' = "seed"
  /\ UNCHANGED <<now, shmDriverStatus, shmSyncMode, shmSeed, shmNumberTimeStamps,
                 daemonVars, io, gNumberTimeStamps, pub, stamped, line, seen, missed, faults>>

\* The seed is loaded last and the stamp returned.
LoadSeed ==
  /\ hpc = "seed"
  /\ hpc' = "idle"
  /\ seen' = NoStamp
  /\ UNCHANGED <<now, shmDriverStatus, shmSyncMode, shmSeed, stampVars, daemonVars, io,
                 gNumberTimeStamps, out, pub, stamped, line, halWrote, missed, faults>>

\* Mutant of GetZeroTimeStamp: the time is loaded before the number.
LoadTime_Early ==
  /\ hpc = "load_n"
  /\ out' = [out EXCEPT !.t = shmZeroHostTime]
  /\ hpc' = "load_t"
  /\ UNCHANGED <<now, shmDriverStatus, shmSyncMode, shmSeed, stampVars, daemonVars, io,
                 gNumberTimeStamps, historyVars>>

LoadNumber_Late ==
  /\ hpc = "load_t"
  /\ out' = [out EXCEPT !.n = shmNumberTimeStamps]
  /\ seen' = IF halWrote \/ shmNumberTimeStamps # pub.n THEN NoStamp ELSE pub
  /\ hpc' = "seed"
  /\ UNCHANGED <<now, shmDriverStatus, shmSyncMode, shmSeed, stampVars, daemonVars, io,
                 gNumberTimeStamps, pub, stamped, line, halWrote, missed, faults>>

GetZeroTimeStamp_TimeFirst ==
  LoadSyncMode \/ LoadTime_Early \/ LoadNumber_Late \/ StoreNumber \/ StoreTime \/ LoadSeed

GetZeroTimeStamp ==
  LoadSyncMode \/ LoadNumber \/ LoadTime \/ StoreNumber \/ StoreTime \/ LoadSeed

\* coreaudiod is killed anywhere and the plug-in is opened again.
HW_Open ==
  /\ faults < MaxFaults
  /\ faults' = faults + 1
  /\ shmSeed' = 1 /\ shmSyncMode' = 0 /\ shmDriverStatus' = ACTIVE
  /\ io' = FALSE
  /\ gNumberTimeStamps' = 0 /\ hpc' = "idle" /\ out' = [n |-> 0, t |-> 0, sync |-> 0]
  /\ line' = NoStamp /\ seen' = NoStamp
  /\ UNCHANGED <<now, stampVars, daemonVars, pub, stamped, halWrote, missed>>

\* A period passes: the callback has run to its end, or there was none.
Tick ==
  /\ now < Boot + MaxTicks
  /\ dpc \in {"idle", "down"}
  /\ now' = now + 1
  /\ ran' = FALSE
  /\ missed' = IF ran THEN missed ELSE missed + 1
  /\ UNCHANGED <<shmDriverStatus, shmSyncMode, shmSeed, stampVars, FrameNumber, isActive,
                 mLastDriverStatus, dpc, pending, halVars, pub, stamped, line, halWrote,
                 seen, faults>>

Next == process_callback \/ Kill \/ on_shutdown \/ JackBridge \/ StartIO \/ StopIO
        \/ GetZeroTimeStamp \/ HW_Open \/ Tick

Spec == Init /\ [][Next]_vars
-----------------------------------------------------------------------------
(* Properties.                                                             *)

Stamp == [n : Nat, t : Nat]

\* Every variable stays in its type.
TypeOK ==
  /\ now \in Boot .. Boot + MaxTicks
  /\ shmDriverStatus \in {INIT, ACTIVE, STARTED}
  /\ mLastDriverStatus \in {INIT, ACTIVE, STARTED}
  /\ shmSyncMode \in {0, 1} /\ shmSeed \in Nat
  /\ shmNumberTimeStamps \in Nat /\ shmZeroHostTime \in Nat
  /\ FrameNumber \in Nat /\ isActive \in BOOLEAN
  /\ dpc \in {"down", "idle", "reanchor_t", "reanchor_n", "reanchor_seed", "active",
              "engage", "boundary", "boundary_t", "boundary_n", "copy"}
  /\ pending \subseteq {"sync", "number"}
  /\ ran \in BOOLEAN
  /\ io \in BOOLEAN /\ gNumberTimeStamps \in Nat
  /\ hpc \in {"idle", "load_n", "load_t", "store_n", "store_t", "seed"}
  /\ out \in [n : Nat, t : Nat, sync : {0, 1}]
  /\ pub \in Stamp \cup {NoStamp} /\ seen \in Stamp \cup {NoStamp}
  /\ stamped \in BOOLEAN /\ halWrote \in BOOLEAN
  /\ line \in [n : Nat, t : Nat, seed : Nat] \cup {NoStamp}
  /\ missed \in Nat /\ faults \in 0 .. MaxFaults

\* A stamp returned in sync mode never dates a boundary before the daemon
\* reached it, although number and time are stored and loaded one at a time
\* without a lock: time is stored before number and loaded after it.
StampNotEarly ==
  hpc = "seed" /\ seen # NoStamp => out.t >= seen.t

\* How far the newest stamp is ahead of the line through the one before it.
Jump == (line'.n - line.n) * RingTicks - (line'.t - line.t)

NewStampSameSeed ==
  line # NoStamp /\ line' # NoStamp /\ line' # line /\ line'.seed = line.seed

\* Two successive stamps under one seed lie on a common line, but for the periods
\* without a callback between them and less than one ring buffer ahead, whatever
\* stops, starts and restarts happened: a frame is one period for each callback
\* JACK made, and anything else is announced to the HAL by a new seed.
StampsNearLine ==
  [][NewStampSameSeed => Jump + missed \in 0 .. RingTicks - 1]_vars
=============================================================================
