------------------------------ MODULE Lifecycle ------------------------------
(***************************************************************************)
(* The control plane that the JackBridge daemon (daemon/JackBridge.cpp)    *)
(* and the HAL plug-in (driver/.../SA_Device.cpp, inside coreaudiod) share *)
(* through the registers of the /JackBridge shared memory: the driver      *)
(* status, the daemon's heartbeat and the sync mode.  jackd, launchd       *)
(* (KeepAlive) and the DAW are the environment.                            *)
(*                                                                         *)
(* One tick of host time is one JACK period.  Host times are kept as ages  *)
(* (now minus the recorded time), saturated at Horizon, because the code   *)
(* only compares them with the staleness threshold.  The time stamps and   *)
(* the audio data moved by the same handlers are the subject of Timeline   *)
(* and RingTransfer.                                                       *)
(***************************************************************************)
EXTENDS Integers

CONSTANTS
  RingTicks,         \* host ticks in one ring buffer (mRingBufferFrameSize)
  SampleGap,         \* CoreAudio calls GetZeroTimeStamp at least this often
  HBMod,             \* the heartbeat counter wraps here (2^64 in the code)
  MaxStart,          \* bound on mStartCount (UINT64_MAX in the code)
  JackdMayFail,      \* whether jackd goes away
  CoreaudiodMayFail  \* whether coreaudiod is killed and restarted

INIT    == 0   \* JB_DRV_STATUS_INIT
ACTIVE  == 1   \* JB_DRV_STATUS_ACTIVE
STARTED == 2   \* JB_DRV_STATUS_STARTED

\* The heartbeat is declared stalled when it is older than five ring buffers.
Threshold == 5 * RingTicks

\* Ages above this are not told apart.
Horizon == Threshold + 2 * SampleGap + 1

ASSUME RingTicksAssumption == RingTicks \in Nat \ {0}
ASSUME SampleGapAssumption == SampleGap \in Nat \ {0}
ASSUME HBModAssumption     == HBMod \in Nat /\ HBMod > SampleGap + 1
ASSUME MaxStartAssumption  == MaxStart \in Nat \ {0}
ASSUME FaultsAssumption    == JackdMayFail \in BOOLEAN /\ CoreaudiodMayFail \in BOOLEAN

VARIABLES
  jackd,            \* "up" or "down"
  daemon,           \* "down", "up", or "exiting": on_shutdown ran, SIGTERM pending
  isActive,         \* daemon: sync mode has been engaged by this process
  transferring,     \* daemon: its last callback went past the status gate
  shmExists,        \* the shared memory object has been created by a HAL
  shmDriverStatus,
  shmDaemonAlive,
  shmSyncMode,
  hal,              \* coreaudiod with the plug-in loaded: "up" or "down"
  mDriverStatus,
  mStartCount,
  mDeviceIsAlive,
  mLastDaemonAlive,
  aliveAge,         \* now - mLastDaemonAliveHostTime
  sampleAge,        \* ticks since the last GetZeroTimeStamp of this IO session
  quiet,            \* history: ticks since the heartbeat was written or IO was armed
  zeroed,           \* history: zeroed by on_shutdown, and no change sampled since
  called            \* jackd has run the callback in this period

daemonVars == <<daemon, isActive, transferring>>
shmVars    == <<shmExists, shmDriverStatus, shmDaemonAlive, shmSyncMode>>
halVars    == <<hal, mDriverStatus, mStartCount, mDeviceIsAlive,
                mLastDaemonAlive, aliveAge, sampleAge>>
vars       == <<jackd, daemonVars, shmVars, halVars, quiet, zeroed, called>>

Running  == hal = "up" /\ mStartCount > 0
Older(a) == IF a < Horizon THEN a + 1 ELSE a

Init ==
  /\ jackd = "up"
  /\ daemon = "down" /\ isActive = FALSE /\ transferring = FALSE
  /\ shmExists = FALSE
  /\ shmDriverStatus = INIT /\ shmDaemonAlive = 0 /\ shmSyncMode = 0
  /\ hal = "down" /\ mDriverStatus = INIT /\ mStartCount = 0
  /\ mDeviceIsAlive = TRUE /\ mLastDaemonAlive = 0
  /\ aliveAge = Horizon /\ sampleAge = 0
  /\ quiet = Horizon /\ zeroed = FALSE /\ called = FALSE

-----------------------------------------------------------------------------
(* The daemon.                                                             *)

\* Mutant of DaemonStart: a new process believes that sync mode is engaged.
DaemonStart_SyncAssumed ==
  /\ daemon = "down" /\ jackd = "up" /\ shmExists
  /\ daemon' = "up"
  /\ isActive' = TRUE
  /\ shmSyncMode' = 0
  /\ UNCHANGED <<jackd, transferring, shmExists, shmDriverStatus,
                 shmDaemonAlive, halVars, quiet, zeroed, called>>

\* The constructor.  Without a shared memory object or a jackd it exits with
\* an error and launchd respawns it, so a start is one that succeeds.
DaemonStart ==
  /\ daemon = "down" /\ jackd = "up" /\ shmExists
  /\ daemon' = "up"
  /\ isActive' = FALSE
  /\ shmSyncMode' = 0
  /\ UNCHANGED <<jackd, transferring, shmExists, shmDriverStatus,
                 shmDaemonAlive, halVars, quiet, zeroed, called>>

\* One period: beat, then stop at the gate unless the driver is started; the
\* first started period of the process engages sync mode.
process_callback ==
  /\ daemon = "up" /\ jackd = "up" /\ ~called
  /\ called' = TRUE
  /\ shmDaemonAlive' = (shmDaemonAlive + 1) % HBMod
  /\ quiet' = 0
  /\ transferring' = (shmDriverStatus = STARTED)
  /\ isActive' = (isActive \/ shmDriverStatus = STARTED)
  /\ shmSyncMode' = IF shmDriverStatus = STARTED /\ ~isActive THEN 1 ELSE shmSyncMode
  /\ UNCHANGED <<jackd, daemon, shmExists, shmDriverStatus, halVars, zeroed>>

\* jackd is gone: libjack's thread runs the shutdown callback.
on_shutdown ==
  /\ daemon = "up" /\ jackd = "down"
  /\ shmDaemonAlive' = 0
  /\ quiet' = 0 /\ zeroed' = TRUE
  /\ shmDriverStatus' = INIT
  /\ daemon' = "exiting"
  /\ UNCHANGED <<jackd, isActive, transferring, shmExists, shmSyncMode, halVars, called>>

\* main leaves the sigwait loop on SIGTERM: from on_shutdown, from launchd at
\* any time, or the process is killed.  No register is written on the way out.
Terminate ==
  /\ daemon \in {"up", "exiting"}
  /\ daemon' = "down"
  /\ isActive' = FALSE /\ transferring' = FALSE
  /\ UNCHANGED <<jackd, shmVars, halVars, quiet, zeroed, called>>

-----------------------------------------------------------------------------
(* The HAL plug-in.                                                        *)

\* coreaudiod loads the plug-in: the device is constructed and activated.
HW_Open ==
  /\ hal = "down"
  /\ hal' = "up"
  /\ shmExists' = TRUE
  /\ shmSyncMode' = 0
  /\ mDriverStatus' = ACTIVE
  /\ shmDriverStatus' = ACTIVE
  /\ mStartCount' = 0
  /\ mDeviceIsAlive' = TRUE /\ mLastDaemonAlive' = 0
  /\ aliveAge' = Horizon /\ sampleAge' = 0
  /\ UNCHANGED <<jackd, daemonVars, shmDaemonAlive, quiet, zeroed, called>>

\* Mutant of StartIO: the watchdog is not re-armed.
StartIO_NotArmed ==
  /\ hal = "up" /\ mStartCount < MaxStart
  /\ mStartCount = 0 => mDriverStatus # INIT
  /\ mStartCount' = mStartCount + 1
  /\ IF mStartCount = 0
       THEN /\ mDriverStatus' = STARTED /\ shmDriverStatus' = STARTED
            /\ mDeviceIsAlive' = TRUE
            /\ sampleAge' = 0 /\ quiet' = 0 /\ zeroed' = FALSE
       ELSE UNCHANGED <<mDriverStatus, shmDriverStatus, mDeviceIsAlive, sampleAge,
                        quiet, zeroed>>
  /\ UNCHANGED <<jackd, daemonVars, shmExists, shmDaemonAlive, shmSyncMode, hal,
                 mLastDaemonAlive, aliveAge, called>>

\* The first client starts the hardware; the others are only counted.
StartIO ==
  /\ hal = "up" /\ mStartCount < MaxStart
  /\ mStartCount = 0 => mDriverStatus # INIT
  /\ mStartCount' = mStartCount + 1
  /\ IF mStartCount = 0
       THEN /\ mDriverStatus' = STARTED
            /\ shmDriverStatus' = STARTED
            /\ mLastDaemonAlive' = shmDaemonAlive
            /\ mDeviceIsAlive' = TRUE
            /\ aliveAge' = 0 /\ sampleAge' = 0 /\ quiet' = 0 /\ zeroed' = FALSE
       ELSE UNCHANGED <<mDriverStatus, shmDriverStatus, mLastDaemonAlive,
                        mDeviceIsAlive, aliveAge, sampleAge, quiet, zeroed>>
  /\ UNCHANGED <<jackd, daemonVars, shmExists, shmDaemonAlive, shmSyncMode, hal, called>>

\* Mutant of StopIO: a stop with no client running is not ignored.
StopIO_Unguarded ==
  /\ hal = "up"
  /\ mStartCount' = mStartCount - 1
  /\ IF mStartCount = 1
       THEN mDriverStatus' = ACTIVE /\ shmDriverStatus' = ACTIVE
       ELSE UNCHANGED <<mDriverStatus, shmDriverStatus>>
  /\ UNCHANGED <<jackd, daemonVars, shmExists, shmDaemonAlive, shmSyncMode, hal,
                 mDeviceIsAlive, mLastDaemonAlive, aliveAge, sampleAge, quiet, zeroed, called>>

\* Mutant of StopIO: every stop stops the hardware.
StopIO_First ==
  /\ hal = "up" /\ mStartCount > 0
  /\ mStartCount' = mStartCount - 1
  /\ mDriverStatus' = ACTIVE /\ shmDriverStatus' = ACTIVE
  /\ UNCHANGED <<jackd, daemonVars, shmExists, shmDaemonAlive, shmSyncMode, hal,
                 mDeviceIsAlive, mLastDaemonAlive, aliveAge, sampleAge, quiet, zeroed, called>>

\* The last client stops the hardware.
StopIO ==
  /\ hal = "up" /\ mStartCount > 0
  /\ mStartCount' = mStartCount - 1
  /\ IF mStartCount = 1
       THEN mDriverStatus' = ACTIVE /\ shmDriverStatus' = ACTIVE
       ELSE UNCHANGED <<mDriverStatus, shmDriverStatus>>
  /\ UNCHANGED <<jackd, daemonVars, shmExists, shmDaemonAlive, shmSyncMode, hal,
                 mDeviceIsAlive, mLastDaemonAlive, aliveAge, sampleAge, quiet, zeroed, called>>

\* Mutant of GetZeroTimeStamp: every sample counts as a beat.
GetZeroTimeStamp_AlwaysFresh ==
  /\ Running
  /\ sampleAge' = 0
  /\ zeroed' = (zeroed /\ shmDaemonAlive = mLastDaemonAlive)
  /\ mLastDaemonAlive' = shmDaemonAlive
  /\ mDeviceIsAlive' = (mDeviceIsAlive /\ aliveAge <= Threshold)
  /\ aliveAge' = 0
  /\ UNCHANGED <<jackd, daemonVars, shmVars, hal, mDriverStatus, mStartCount, quiet, called>>

\* Mutant of GetZeroTimeStamp: a device declared dead stays dead.
GetZeroTimeStamp_NoRevival ==
  /\ Running
  /\ sampleAge' = 0
  /\ zeroed' = (zeroed /\ shmDaemonAlive = mLastDaemonAlive)
  /\ IF shmDaemonAlive # mLastDaemonAlive
       THEN mLastDaemonAlive' = shmDaemonAlive /\ aliveAge' = 0 /\ UNCHANGED mDeviceIsAlive
       ELSE /\ mDeviceIsAlive' = (mDeviceIsAlive /\ aliveAge <= Threshold)
            /\ UNCHANGED <<mLastDaemonAlive, aliveAge>>
  /\ UNCHANGED <<jackd, daemonVars, shmVars, hal, mDriverStatus, mStartCount, quiet, called>>

\* The staleness watchdog in GetZeroTimeStamp.  CoreAudio calls it while IO runs.
GetZeroTimeStamp ==
  /\ Running
  /\ sampleAge' = 0
  /\ zeroed' = (zeroed /\ shmDaemonAlive = mLastDaemonAlive)
  /\ IF shmDaemonAlive # mLastDaemonAlive
       THEN /\ mLastDaemonAlive' = shmDaemonAlive
            /\ aliveAge' = 0
            /\ mDeviceIsAlive' = TRUE
       ELSE /\ mDeviceIsAlive' = (mDeviceIsAlive /\ aliveAge <= Threshold)
            /\ UNCHANGED <<mLastDaemonAlive, aliveAge>>
  /\ UNCHANGED <<jackd, daemonVars, shmVars, hal, mDriverStatus, mStartCount, quiet, called>>

-----------------------------------------------------------------------------
(* The environment.                                                        *)

CoreaudiodKilled ==
  /\ CoreaudiodMayFail
  /\ hal = "up"
  /\ hal' = "down"
  /\ UNCHANGED <<jackd, daemonVars, shmVars, mDriverStatus, mStartCount,
                 mDeviceIsAlive, mLastDaemonAlive, aliveAge, sampleAge, quiet, zeroed, called>>

JackdDown ==
  /\ JackdMayFail
  /\ jackd = "up"
  /\ jackd' = "down"
  /\ UNCHANGED <<daemonVars, shmVars, halVars, quiet, zeroed, called>>

\* A new jackd does not adopt the clients of the old one: it comes up for the
\* daemon only after the shutdown callback of the old connection.
JackdUp ==
  /\ jackd = "down" /\ daemon # "up"
  /\ jackd' = "up"
  /\ UNCHANGED <<daemonVars, shmVars, halVars, quiet, zeroed, called>>

\* One period of host time.  CoreAudio's IO thread is not late by more than
\* SampleGap; the daemon may be.
Tick ==
  /\ Running => sampleAge < SampleGap
  /\ called' = FALSE
  /\ aliveAge' = Older(aliveAge)
  /\ sampleAge' = IF Running THEN sampleAge + 1 ELSE sampleAge
  /\ quiet' = Older(quiet)
  /\ UNCHANGED <<jackd, daemonVars, shmVars, hal, mDriverStatus, mStartCount,
                 mDeviceIsAlive, mLastDaemonAlive, zeroed>>

Next ==
  \/ DaemonStart \/ process_callback \/ on_shutdown \/ Terminate
  \/ HW_Open \/ StartIO \/ StopIO \/ GetZeroTimeStamp
  \/ CoreaudiodKilled \/ JackdDown \/ JackdUp \/ Tick

\* The JACK server calls the process callback every period, libjack delivers
\* the shutdown, SIGTERM ends main, launchd keeps jackd, the daemon and
\* coreaudiod alive, CoreAudio samples a running device, and time passes.
\* Nothing makes the DAW start or stop.
Fairness ==
  /\ WF_vars(DaemonStart)
  /\ WF_vars(process_callback)
  /\ WF_vars(on_shutdown)
  /\ WF_vars(daemon = "exiting" /\ Terminate)
  /\ WF_vars(HW_Open)
  /\ WF_vars(GetZeroTimeStamp)
  /\ WF_vars(JackdUp)
  /\ WF_vars(Tick)

Spec     == Init /\ [][Next]_vars
FairSpec == Spec /\ Fairness

-----------------------------------------------------------------------------
(* Properties.                                                             *)

\* Every variable stays in its type, and the ages stay within their bounds.
TypeOK ==
  /\ jackd \in {"up", "down"}
  /\ daemon \in {"down", "up", "exiting"}
  /\ isActive \in BOOLEAN /\ transferring \in BOOLEAN
  /\ shmExists \in BOOLEAN
  /\ shmDriverStatus \in {INIT, ACTIVE, STARTED}
  /\ shmDaemonAlive \in 0 .. HBMod - 1
  /\ shmSyncMode \in {0, 1}
  /\ hal \in {"up", "down"}
  /\ mDriverStatus \in {INIT, ACTIVE, STARTED}
  /\ mStartCount \in 0 .. MaxStart
  /\ mDeviceIsAlive \in BOOLEAN
  /\ mLastDaemonAlive \in 0 .. HBMod - 1
  /\ aliveAge \in 0 .. Horizon
  /\ sampleAge \in 0 .. SampleGap
  /\ quiet \in 0 .. Horizon
  /\ zeroed \in BOOLEAN /\ called \in BOOLEAN

\* While a HAL is loaded, the status register the daemon gates on says exactly
\* whether some client runs IO, whatever the order of starts and stops of
\* several clients; only a jackd shutdown can replace it by INIT.
StatusFollowsIO ==
  hal = "up" =>
    \/ shmDriverStatus = IF mStartCount > 0 THEN STARTED ELSE ACTIVE
    \/ JackdMayFail /\ shmDriverStatus = INIT

\* A running device whose heartbeat has not been written for the threshold
\* plus two sampling gaps has been declared dead, however the daemon went away
\* (GetZeroTimeStamp's watchdog; _HW_StartIO re-arms it).
DetectionBound ==
  Running /\ quiet > Threshold + 2 * SampleGap => ~mDeviceIsAlive

\* The watchdog never declares a device dead whose heartbeat was written, or
\* whose IO was started, within the last five ring buffers: not across restarts
\* of the daemon and of coreaudiod and not when the counter wraps.  The one
\* exception is a counter that on_shutdown set to zero and that is, at zero or
\* counting up again from there, sampled at the very value sampled before.
NoFalseDeath ==
  [][mDeviceIsAlive /\ ~mDeviceIsAlive' /\ ~zeroed => quiet > Threshold]_vars

\* A running device whose daemon is gone is eventually declared dead, unless
\* the daemon comes back or IO stops first.
DeadDaemonDetected ==
  (Running /\ daemon # "up") ~> (~mDeviceIsAlive \/ daemon = "up" \/ ~Running)

\* When the daemon is back, a device that was declared dead is eventually
\* declared alive again without the DAW doing anything.
HeartbeatResumes ==
  (Running /\ daemon = "up") ~> (mDeviceIsAlive \/ daemon # "up" \/ ~Running)

\* A daemon that is up while the DAW runs IO eventually moves audio.
\* plans/PLAN.md:63, "Restart jackd, confirm the daemon reattaches without
\* manual intervention", has it after restarts of jackd too.
AudioResumes ==
  (Running /\ daemon = "up") ~> (transferring \/ daemon # "up" \/ ~Running)

\* As long as jackd stays up, restarts of the daemon and of coreaudiod need no
\* action by the user for the daemon to move audio again.
AudioResumesUnderJackd == [](jackd = "up") => AudioResumes

\* While the daemon moves audio for a running device, the HAL's clock is
\* eventually the one that the daemon stamps (sync mode is engaged):
\* docs/idiosyncrasies.md:57, "uses the daemon's `zeroHostTime` directly".
SyncEngages ==
  (Running /\ transferring) ~> (shmSyncMode = 1 \/ ~transferring \/ ~Running)

\* As long as coreaudiod, once started, stays up, the HAL gets onto the
\* daemon's clock after any restart of jackd and of the daemon.
SyncEngagesUnderHal == [](shmExists => hal = "up") => SyncEngages
=============================================================================
