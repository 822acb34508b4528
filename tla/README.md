# A TLA+ verification of JackBridge

JackBridge presents a virtual audio device to macOS applications and backs it
with a JACK client. Two programs do the work and share one region of memory:

- the **daemon** (`daemon/JackBridge.cpp`), a JACK client run by launchd;
- the **driver** (`driver/JackBridge/Plug-In/`), an AudioServerPlugIn that runs
  inside coreaudiod, in another process and under another user.

Neither ever waits for the other. They exchange audio frames through two rings
and everything else through atomic registers (`shared/JackBridge.h`), without a
lock, and each must survive the other's death. That is what these modules are
about.

## 1. Inventory

| Component | State | Operations | Talks to |
|---|---|---|---|
| Daemon control plane (`JackBridge.cpp`) | `isActive`, `mLastDriverStatus`, the heartbeat register | constructor, `process_callback`, `on_shutdown`, `main`'s exit | driver, through `shmDriverStatus`, `shmDaemonAlive`, `shmSyncMode`; jackd |
| Driver control plane (`SA_Device.cpp`) | `mStartCount`, `mDriverStatus`, `mDeviceIsAlive`, last sampled heartbeat and its host time | `_HW_Open`, `StartIO`, `StopIO`, watchdog in `GetZeroTimeStamp` | daemon, through the same registers; CoreAudio's clients |
| Clock stamps | `shmNumberTimeStamps`, `shmZeroHostTime`, `shmSeed`; `FrameNumber`; the HAL's own count | boundary stamp, re-anchor and activation in `process_callback`; `GetZeroTimeStamp` | each other, register by register |
| Audio rings (`RingProjector.hpp`, `RingCopy.hpp`, `SA_Device.cpp`) | one ring per direction, the daemon's cursor | send, receive and consume, advance; `ReadInputData`, `WriteOutputData` | each other, only through the clock |
| HAL anchor and health counters | `shmHalAnchorSeq` and its fields, `mXRunCount` | `BeginIOOperation`, `check_progress`, `xrun_callback` | HAL to daemon; JACK's notification thread to its process thread |
| Auto-wiring | `g_wire_dirty`, a pending SIGUSR1 | registration callback, `sigwait` loop, `auto_wire` | jackd's ports and connections |
| Daemon process (`main`, `jackClient.cpp`) | where `main` stands, the JACK client, pending signals | the steps of start-up, each of which may exit, backend check included; `on_shutdown`; the destructors | jackd, launchd |
| Device and stream properties (`SA_Device.cpp`, `SA_PlugIn.cpp`, `SA_Object.cpp`) | sample rate, stream activity, queued configuration changes | has, settable, size, get, set; perform, abort | the HAL host, the dispatch queue |
| Object map (`SA_Object.cpp`) | map of object IDs, reference counts | map, unmap, copy, retain, release, destroy | every plug-in entry point |
| Shared memory handshake (`JackBridge.h`) | the shm object, its size and version word | `create_shm`, `attach_shm`, `check_protocol_version` | both programs |
| Audio workgroup (`workgroup.cpp`) | the acquired workgroup, whether it was joined, the backoff | acquire with backoff, join and drop on the JACK thread, release by the destructor | coreaudiod |
| Mutex and queue (`CAMutex.cpp`, `CADispatchQueue.cpp`) | owner of a mutex, blocks of the serial queue | `Lock`, `Unlock`, `Locker`; `Dispatch` | every object of the plug-in |
| Route watcher, launchers, Pi scripts, `jackbridge-ctl` | files and the routing table | shell | macOS |

What is hard here, and hardly reached by a test:

- **restarts in any order.** jackd, the daemon and coreaudiod are restarted by
  launchd independently; each restart re-initialises only its own half of the
  shared registers;
- **unlocked pairs.** a stamp is two registers, the anchor is several, and the
  reader is in another process, on a weakly ordered machine;
- **open-loop rings.** no position is exchanged, so correctness is a matter of
  timing slack and modular arithmetic, with a cursor that starts at zero and a
  receive offset that underflows;
- **timeouts against late answers.** the watchdog decides from samples of a
  counter whether another process lives;
- **wake-ups.** signals coalesce, ports vanish between being listed and connected;
- **half a start.** jackd, coreaudiod or the process itself goes between two steps
  of the daemon's start-up, some of which nobody is told of;
- **objects in use.** the device is created, fails to be created or is removed
  while coreaudiod's threads are inside it, under four mutexes and a queue;
- **asynchronous changes.** a property is set now and takes effect after the HAL
  host comes back through a queue.

The properties that make each component correct are the ones of section 3; the
hazards, line by line, are in `PROJECT.json`.

## 2. Modules

Each module has one action per handler, or per load and store where two
processes race. State keeps the source's names.

**Lifecycle** - the control plane of both programs. `DaemonStart`,
`process_callback`, `on_shutdown`, `Terminate` are the daemon; `HW_Open`,
`StartIO`, `StopIO`, `GetZeroTimeStamp` the driver; `JackdDown`, `JackdUp`,
`CoreaudiodKilled`, `Tick` the environment. A tick is one JACK period. Host times
are kept as ages, since the code only compares `now - mLastDaemonAliveHostTime`
with five ring buffers; ages above `Horizon` are not told apart. `quiet`,
`zeroed` are history. The heartbeat wraps at `HBMod`, not at 2^64, so that the
wrap is reached.

**Timeline** - the same two handlers seen as writer and reader of the stamp
registers. Every load and store is a step, with a program counter per process
(`dpc`, `hpc`). The two relaxed stores of the activation may land in either
order. The daemon is killed between any two steps (`Kill`) or leaves between two
callbacks (`on_shutdown`, with its store of `INIT`) and is back any number of
periods later (`JackBridge`); coreaudiod restarts between any two steps
(`HW_Open`). A period may pass without a callback, because JACK skipped the client
or there is no daemon; `missed` counts these since the last stamp. A callback
that does run ends in its own period.

**RingTransfer** - `process_callback`'s copies and CoreAudio's IO cycles over
both rings. A frame is its sample time, so that "the right frame" can be said; a
tick is one frame. Either side may run late by its bound (`DaemonLate`,
`HalLate`). `send_offset`, `recv_offset`, `ring_write`, `ring_read` and
`ring_clear` are RingProjector and RingCopy, cursor width included; `HalSlot` is
the pair of `memcpy` calls of the HAL.

**HalAnchor** - the sequence lock of `BeginIOOperation` and `check_progress`,
under the orders C++ guarantees: the field's relaxed store may land before the
odd count, and its relaxed load may happen after the second load of the count.
One field stands for all; the value is the number of the IO cycle. The xrun
counter is drained by the same reader.

**AudioLink** - what the bridge promises the audio on either side, without
rings, clock or lateness: two streams, each turn going on where the last one
ended, only captured frames recorded, no frame sent too late to be played, at
most `Capacity` frames on their way. RingTransfer implements it (`ImplementsLink`):
`due` is the cursor less a period, `next` the IO cycle less its lead, the
capacity the ring.

**AutoWire** - the wiring of slave ports: notification thread, signal, main
thread, and jackd with ports that come and go between any two steps.
`jack_connect` of a port that has gone fails, as in the code. Taking the signal
(`SigWait`) and the flag (`ExchangeDirty`) are two steps. It is a library of
actions without a specification of its own.

**DaemonProcess** - extends AutoWire to the whole process. `life` says where
`main` stands: `JackClient`, `attach_shm`, `check_jack_backend`, `register_ports`,
`AcquireFirst`, `SetCallbacks`, `activate` are start-up, `Wire` and `Woken` the
signal loop, `Terminate`, `DestroyJackBridge`, `DestroyJackClient` the way out.
`rt` is JACK's process thread in the workgroup block of `process_callback`, with
acquisition, join and drop as steps; `on_shutdown` runs on libjack's thread.
`attach_shm` exits when there is no memory or its version is another build's.
jackd, its backend, coreaudiod, slaves, SIGTERM and kills are environment;
`missed` is history. The registers that these handlers also write are in
Lifecycle and Timeline.

**DeviceProperties** - the five switches of plug-in, device, streams and base
object as operators over (object, selector, scope, element), the client's
two-call pattern (size, then get with that much room), the setters and the way
of a rate change: `CompareRate` under the state mutex, `DispatchRate` after it has
been released (`comparing` has the calls between the two), then `dispatched` (the
plug-in's serial queue) and `requested` (the HAL host). An exception is `Error`. An index past the end of
`mOutputStreamIsActive` reads an arbitrary value.

**ShmHandshake** - the way from a program's start to shared memory: `create_shm`
(`create_shm`, `resize`, `recreate`, `truncate`), `attach_shm` (`attach_shm`,
`map_shm`) and `check_protocol_version` (the load; `publish_version` is the
store), each system call or access that the other program can see being a step
of its own. The calls of `resize` are one step, because between them the object and
its name are as before, and an error return is a crash at that step. Objects are numbered, so that one which was unlinked while mapped
is told from its successor. `pc` says where a program stands; either may die
anywhere (`Crash`), and the object stays. **MCShmHandshake** lists the leftovers.

**AbstractLock** - what a mutex promises: at most one thread inside, and it
passes from one to the next through nobody.

**CAMutex** - the recursive mutex of PublicUtility with its `Locker`, in steps:
the test of `mOwner` (made without the mutex), the pthread mutex, the store of the
owner, its clearing and the unlock. `ImplementsLock` is the refinement: a thread
holds a mutex in AbstractLock while it has a `Locker` on it (`Holders`).

**PlugInObjects** - extends CAMutex to the plug-in's objects. A thread holds the
instructions that are ahead of it in the call it is in, and each access to the
object map, the device list or an object is one instruction, so that only the
mutexes keep threads apart. `StaticInitializer` creates the device, `CreateFailed`
is its exception handler, `RemoveBlock` and `DestroyBlock` are the blocks on the
serial queue, `EntryPoint` is what every entry point does with
`SA_ObjectReleaser`. `SA_PlugIn::Deactivate`, which removes the device, is
offered to coreaudiod as the class offers it; no entry point of this build
calls it (`SA_DestroyDevice` is unsupported), and the device is created before
`SA_Create` has returned. What the runs and theorems say of removal, of the
block that waits for a reference and of calls that cross creation or removal is
about the classes and goes beyond what this build does; the failed creation,
the mutexes and the entry points are within it.

**ObjectLife** - what the object map and the dispatch queue promise an object: it
is constructed, enters the map, is dropped from it and is deleted, each once and
in this order. PlugInObjects implements it (`ImplementsLife`) under the mapping
`Life`, which reads the state of an object off its memory, its IDs and the queue.

**Lifecycle_proofs**, **RingTransfer_proofs**, **ShmHandshake_proofs**,
**Timeline_proofs**, **HalAnchor_proofs**, **DaemonProcess_proofs**,
**DeviceProperties_proofs** and **PlugInObjects_proofs**, which also has the proofs
about CAMutex - the theorems (section 5).

ShmHandshake comes before everything else. The other modules about the bridge
divide one program by its shared variables: Lifecycle says whether and when the
two sides take part, Timeline what time it is, RingTransfer what the frames are
given that time, HalAnchor what the daemon can see of it. They meet in
`mDeviceIsAlive`, which RingTransfer lets change at any time, and in the status
and sync registers, which Timeline lets change in all the ways Lifecycle does.
DaemonProcess and PlugInObjects are the two processes around that: AutoWire
composed with the life of the daemon, and CAMutex composed with its users.

## 3. Runs

| Run | Question | Result |
|---|---|---|
| `Lifecycle_faults` | All faults. Does the status register the daemon gates on follow the IO clients (`StatusFollowsIO`)? Is a silent daemon declared dead in bounded time (`DetectionBound`, `DeadDaemonDetected`), a beating one never (`NoFalseDeath`), and one that is back noticed (`HeartbeatResumes`)? Does audio resume by itself if jackd stays up (`AudioResumesUnderJackd`), and does the HAL get onto the daemon's clock if coreaudiod stays up (`SyncEngagesUnderHal`)? | holds |
| `Lifecycle_jackd_restart` | `AudioResumes`, when jackd restarts under a running DAW | violated |
| `Lifecycle_coreaudiod_restart` | `SyncEngages`, when coreaudiod restarts under a running daemon | violated |
| `Timeline_stamps` | Is a stamp never dated before the daemon made it (`StampNotEarly`)? Are stamps under one seed, but for the cycles that JACK skipped, within a ring buffer of a common line (`StampsNearLine`)? | holds |
| `RingTransfer` | Is every frame recorded and played the right one, every copy inside the ring, and the whole a link without rings (`ImplementsLink`)? | holds |
| `HalAnchor_snapshot` | coreaudiod restarts, but not inside a publication. Is no stale head accepted (`SnapshotNotStale`), does the retry loop on the realtime thread end (`SnapshotEnds`), are xruns conserved (`XRunsConserved`)? | holds |
| `Daemon_process` | jackd, coreaudiod, a slave and the process come and go anywhere. Is no port forgotten and no wake-up lost (`NoPortForgotten`), and everything wired in the end (`SteadyWires`)? Are workgroup references neither lost nor released twice (`WorkgroupBalanced`), and is the workgroup asked for until it is joined (`RetriesUntilJoined`)? Does the daemon serve a jackd that stays up (`ReattachesUnlessMissed`)? | holds |
| `Daemon_startup` | The same without the exception (`Reattaches`) | violated |
| `Daemon_two_slaves` | Is everything wired in the end, when a slave is there under two names (`SteadyWires`)? | violated |
| `DeviceProperties_queries` | Do the has, settable, size and get switches and the two label tables agree for every address (`SwitchesAgree`)? With several clients setting rates, does the one dispatched last win (`RateReadsBack`), and is activity read back (`ActiveReadsBack`)? | holds |
| `ShmHandshake` | Whatever was left over and whoever dies when: is everyone who is up on memory of its own size and version (`LayoutAgreed`), and on the same object (`SameMemory`)? Do the two end up attached (`EventuallyShared`)? | holds |
| `PlugInObjects` | Calls cross creation, failed creation and removal of the device. Is a deleted object never touched (`NoUseAfterFree`)? Do published IDs resolve (`PublishedResolve`)? Do the mutexes exclude (`ImplementsLock`), in one order (`LockOrder`)? Does every object have one life (`ImplementsLife`)? Does every call return (`EveryCallReturns`), and is a removed device deleted (`RemovedIsDestroyed`)? | holds |

### What the violated runs show

- **jackd restart.** `on_shutdown` stores `INIT` in `shmDriverStatus`. Only the
  driver writes it otherwise, on `StartIO` of the first client or when the
  plug-in is loaded. A DAW that keeps IO running does neither, so the restarted
  daemon stays at its status gate. `AudioResumes` holds as long as jackd is up
  (`AudioResumesUnderJackd`), which isolates the cause.
- **coreaudiod restart.** `_HW_Open` stores 0 in `shmSyncMode`; the daemon engages
  sync mode once per process. The HAL free-runs from then on. `SyncEngages`
  holds as long as coreaudiod is up (`SyncEngagesUnderHal`).
- **death during start-up.** `jack_on_shutdown` is set in `activate`, after the
  shared memory, the backend check and the ports. A jackd that dies before that
  is reported to nobody, the result of `jack_activate` is ignored, and `main`
  sits in `sigwait` with a dead client: it does not exit, so launchd does not
  restart it. `ReattachesUnlessMissed` shows that this window is the only one.
- **two slaves.** The registration callback ignores departures. When a slave is back
  under a second name while its old ports still exist, a pass connects to the
  first match, the old ones may be it, and nothing starts a pass when they go: the
  new ports stay unwired. The attempt to prove `NoPortForgotten` for any slaves
  found it; for one slave it is proved.

### Differences from comments seen while modelling, without a run

- `JackBridge.cpp:384` expects zeroing the heartbeat to flip DeviceIsAlive at
  once. Zero is a changed value and counts as a beat (`SA_Device.cpp:1449`), so
  the device stays alive for up to five more ring buffers. In the model `zeroed`
  records it and `NoFalseDeath` has to make an exception for it.
- A re-anchor rounds the frame number down (`JackBridge.cpp:279`), so the next
  boundary comes early under the same seed: hence "within a ring buffer" in
  `StampsNearLine`, and not "on a line".
- The frame number counts callbacks (`JackBridge.cpp:347`). A cycle that JACK skips at
  an xrun puts it a period behind the host clock; the xrun is counted for the
  health trace only and no seed announces the step. In the model `missed` records
  it, and `StampsNearLine` says that this and the rounding are the only deviations.
- `GetZeroTimeStamp` can store a free-running stamp after the daemon has engaged
  sync mode and stamped (`SA_Device.cpp:1508`), although `docs/architecture.md:95`
  has only the daemon write it. `StampNotEarly` leaves out a pair the HAL has
  written into (`halWrote`).
- Under the C++ orders a snapshot can be accepted with the head of the *next*
  publication, so `SnapshotNotStale` says "not older" and not "the same";
  `JackBridge.h:136` promises the latter.
- A death of coreaudiod inside a publication leaves the anchor's count odd, nothing
  resets it, and every later publication continues from there: even and odd have
  changed roles, and the daemon retries while the count is odd, on the JACK
  thread. `HalAnchor_snapshot` excludes it, and the theorems `EvenAtRest` and
  `SnapshotIsNotStale` name it as their hypothesis (`~DiesPublishing`).
- Stream activity is read from the array of the address's *scope*
  (`SA_Device.cpp:1165`), so an input stream asked in global scope answers for an
  output stream; `ActiveReadsBack` is about the stream's own scope and does not
  catch it.
- An object of the right size and another version is refused by both programs
  for as long as it exists: no code unlinks it, which is why `plans/PLAN.md:50`
  has a tool for it. `EventuallyShared` names it as the exception.
- A requested rate is compared with the current one and not with the one already
  queued (`SA_Device.cpp:994`): setting a new rate and then the old one again,
  before the first change is performed, drops the second. `RateReadsBack` names
  it as the exception, and does not catch it.
- `~JackBridge` releases the workgroup before `jack_client_close` has stopped the
  JACK thread, which may then drop it a second time (`JackBridge.cpp:159`).
  `WorkgroupBalanced` holds up to the teardown.
- Joining is one-shot: a joined workgroup of a coreaudiod that has gone is kept
  (`JackBridge.cpp:229` says so), and `RetriesUntilJoined` is satisfied by it.
- `SA_Device.cpp:1646` says that Deactivate holds `mIOMutex` to gate the IO
  routines off. They take no mutex; what protects their memory is the reference of
  the entry point.
- `ElementName` is missing from both settable switches; `SwitchesAgree` names it
  as the exception.

## 4. Bounds and fairness

| Module | Bounds | Why they are enough |
|---|---|---|
| Lifecycle | ring of 1 tick (threshold 5), sample gap 1-2, heartbeat modulo 3-4, 1-2 clients | the counter wraps several times within a threshold; two clients tell first and last from any; every restart can happen at every age. Ages saturate, so runs are unbounded in time |
| Timeline | ring of two periods, 6 ticks, 1 fault | three ring buffers: a boundary, a stop inside a buffer, a re-anchor and the boundary after it, with one restart and skipped periods anywhere |
| RingTransfer | ring 9, period 3, IO buffer 2, 22 ticks; cursor modulo 18 | more than two laps of the ring and a wrap of the cursor; 2 does not divide 9, so HAL transfers wrap in the middle |
| HalAnchor | 3 publications, 2 xruns | two publications can fall into one snapshot, a third follows |
| DaemonProcess | one slave, one channel each way, 2 registrations under the daemon, 2 backends, backoff of 2, memory of this version or another, one kill or SIGTERM | the slave leaves and returns, wholly or in part, in the middle of a pass or of start-up; a refused and an accepted backend; the backoff counts and wraps; jackd and coreaudiod restart without bound |
| DeviceProperties | the real 2 input streams and 1 output stream; 2 changes under way, 1 IO client | all selectors, scopes and the elements that the code tells apart; two sets that cross between comparison and dispatch, and a set while another change is under way, need two |
| ShmHandshake | no leftover, or one without a size, without a version, of this build, of another version or of another size; 2 crashes | every case that `create_shm` and the version check tell apart; both programs can die once, or one twice, at every step |
| PlugInObjects | 2 HAL threads and the queue's, 3 calls after loading | two calls and a removal overlap in every order, and a call can follow the removal |

Runs with `CHECK_DEADLOCK FALSE` end at a bound on time or on the number of
events, or have nothing left to do (ShmHandshake, PlugInObjects once its calls are
made). Lifecycle, DaemonProcess and DeviceProperties never stop and are checked
for deadlock.

Fairness (weak throughout) is assumed where something schedules the step: jackd
calls the process callback every period, libjack delivers the shutdown and port
notifications, a pending signal is delivered, launchd's KeepAlive restarts jackd,
the daemon and coreaudiod, CoreAudio samples a running device, threads in a
publication or a snapshot are not suspended forever. Nothing is assumed of
starts, stops, faults, registrations or departures. `SnapshotEnds` uses that
publications are not so dense that each attempt meets one; the bound `MaxPubs`
expresses it, and IO cycles are milliseconds apart. In PlugInObjects every
thread that can go on does. Weak fairness is enough for a thread that waits for
a mutex because the calls are bounded; that a pthread mutex is never snatched
for good by others is not claimed. Nothing makes coreaudiod call in, and nothing
makes jackd, coreaudiod or a slave of DaemonProcess come or go.

## 5. Theorems

The proof modules work by an inductive invariant `Inv`, with `Init => Inv`,
preservation action by action, and the properties as consequences.

**RingTransfer_proofs**, for every ring, period, IO buffer, safety offset and
lateness that satisfy `RingAssumption` ... `SlackAssumption`: the period divides
the ring and the ring divides the machine word (4096 frames, 2^64), a callback is
late by less than the safety offset, an IO cycle by at most its lead, and the ring
holds a period, the lead and the lateness on either side. Theorems:
`TypeCorrect`, `CopiesStayInRing`, `AudioDelivered`, `RingsAreALink`. (RingTransfer's
`TypeOK` is proved for all parameters and not repeated in the run.)

The properties speak of the last transfer and are not inductive. `Inv` adds what
the rings hold: the capture ring the last lap before the cursor (`DownHolds`), the
playback ring, for the lap from the next frame to be played, what the HAL has
written of it and silence elsewhere (`UpHolds`), and where the clock lets the two
heads be (`Timing`). The work is modular: two sample times less than a lap apart
never share a slot (`SameSlot`), a period never crosses the end of the ring
(`PeriodFits`), the two `memcpy` calls amount to "modulo the ring" (`HalSlots`),
and the word that underflows on the first receive still gives the right offset
(`ModMod`, `Offsets`), which needs that the ring divides the word.

`RingsAreALink` is the refinement of AudioLink. A callback is the link's `Play`
and an IO cycle its `Record`, with `Send` or without; watchdog and clock are
stuttering steps. That the right frames move is `UpHolds` and `DownHolds`
(`PlayedFrames`, `RecordedFrames`). The guards of the link are not tested by the
code at all: that what is recorded has been captured, and that what is sent can
still be played, follow from `Timing` alone (`CycleRecords`), the first from the
safety offset and the second from the lead.

**Lifecycle_proofs**, for every ring size, sampling gap, counter width above the
sampling gap plus one, number of clients and set of faults: `TypeCorrect`,
`StatusCorrect`, `DetectionBounded`, `NoFalsePositive`.

The watchdog sees neither the last beat nor the last sample, only the last change
it noticed. `Ages` relates the three ages while a device runs; `Beats` bounds how
many beats the register is ahead of the sample (`Behind`), since there is at most
one a period: it cannot go round between two samples, so an unchanged counter was
not written. The exception `zeroed` is there because `on_shutdown` breaks the
counting.

**ShmHandshake_proofs**, for every region size, version, set of leftovers that
satisfies `LeftoversAssumption` and number of crashes: `TypeCorrect`,
`LayoutSafe`, `SharedOne`. The assumption says that an object of another size
comes from a build that had published its version; an older build that died
between creating the object and publishing is left out.

That both programs are on one object does not follow from what each has checked.
`Inv` adds that an object of another size carries another version (`Tagged`) and
that an object of a size the driver keeps is the one the path names (`Named`), so
there is at most one: the driver unlinks only the others, and a program that came
past the version check is not on one of those. `Holds` is what each program knows
of its object at each step, also while the other one alters it (`AlterInv`).

**Timeline_proofs**, for every period, ring of whole periods, boot time and number
of restarts: `TypeCorrect`, `StampIsNotEarly`, `StampsStayNearLine` (an action
property).

`PairInv` carries the time of the last complete pair through the moments between
two stores or two loads; `CallbackInv` says what a callback that stands at a given
store has found. For the line, `LineInv` extrapolates the frame number back to the
last stamp: the result lies, but for the periods that passed without a callback
(`missed`), within the ring buffer that the stamp named, since the daemon makes at
most one callback per tick and a jump is followed by a new seed. What the
re-anchor rounds off is the width of that interval. The lemmas (`Quotient`,
`TickProduct`, `JumpBound`) are the arithmetic of ticks, periods and buffers.

**HalAnchor_proofs**, for any number of publications and xruns: `TypeCorrect`,
`NoXRunIsLost`, and, if coreaudiod does not die within a publication,
`SnapshotIsNotStale` and `EvenAtRest`. The invariant says that a publication starts
from an even count and how far its stores have landed (`WriterInv`), that counts
and heads only grow (`PublishedInv`), and that a first load of an even count names a
publication which a head loaded later is not older than (`ReaderInv`).

**DaemonProcess_proofs**, for any ports, backends, backoff and number of kills:
`ProcessTypeCorrect`, `WorkgroupsBalance`, and, for one slave (`OneSlave`),
`NoPortIsForgotten`. `GroupInv` accounts for the reference through acquisition, join
and drop, including the callback that outlives `~JackBridge`, where it goes to -1;
`DirtyWakesMain` says that a raised flag has a signal, a thread about to send one,
or a main thread about to take the flag, behind it. For the wiring, a port without a connection is one that has an
event, the flag or a pass ahead of it (`UnwiredIsPending`).

**DeviceProperties_proofs**, for every number of streams, changes under way and
clients: `TypeCorrect`, `SwitchesDoAgree`, `RateIsReadBack`, `ActivityIsReadBack`.
The switches are compared case by case: what a get fills with a buffer of the size
that was told is that size. The rate needs one invariant, that the last change in
the way of the queue and of the HAL host, or else the rate itself, is the one
wanted (`RateInv`). A comparison and a dispatch keep it on their own
(`CompareKeeps`, `DispatchKeeps`), whatever came between them.

**PlugInObjects_proofs**. First the mutex alone, for any threads and mutexes and any
users that construct and destroy Lockers, nested as they like: `LockTypeCorrect`,
`MutualExclusion`, `LockRefinement` (`LockSpec => ImplementsLock`, initial states and
every step). The recursive branch of `Lock`, which the plug-in never takes, is
covered here only.

That holders are alone says nothing of `mOwner`, which is tested without the
mutex. `LockInv` adds that the owner has the pthread mutex (`OwnerHasMutex`) and a
Locker (`OwnerHasLockers`), that a thread between the pthread mutex and the store
or after the clearing finds no owner (`NoOwnerBetween`), and that of the nested
Lockers exactly the oldest releases (`OldestReleases`).

Then the plug-in, for any number of HAL threads and calls. Each step of it is a step
of its mutexes or leaves them alone (`ObjectStepIsLockStep`), so `PlugInLocks`:
`ObjectSpec => ImplementsLock`. Further `ObjectTypeCorrect`, `MutexesAreOrdered`
(`LockOrder`) and `WaitingClimbs`: a thread that waits for one that waits itself
wants a mutex that comes before the other's, so no circle of waiting threads
exists. `DeadlockFree` draws the conclusion: while any thread is blocked, one that
has locked a mutex is neither blocked nor at the end of its call (`Frees`, from the
last mutex down to the first). `CallsShorten` adds that every step of a thread
lowers a natural number, `Left`, which no other thread's step changes, a failed
creation included. These speak of what lies ahead of a thread, not only of where it is. A
small calculus says of a program that it runs, from a given set of held mutexes,
to its end with none held, taking mutexes upwards (`Effect`, `Runs`; `Path` has the
rules for sequence, scope and call, for any relation of instructions and states).
The invariant is that this holds for the rest of every thread's program and for
every block on the queue (`CodeInv`, `QueueInv`).

Last the references: `NothingIsUsedAfterFree` (`NoUseAfterFree`) and
`PublishedIDsResolve` (`PublishedResolve`), for any number of HAL threads and calls
and every interleaving of creation, failed creation, calls, removal and deletion. A
thread does not record which references it owns; that follows from where it is in
its program. So the calculus is used a second time: `Leads` says that a program
takes a thread from one role to another (`Roles`: creating, borrowing, removing,
destroying, none), where `Move` gives each instruction the roles it may be executed
in. The invariant `ReferenceInv` says that there is an assignment of roles, a
loading thread and a stage of the device (`Stages`: who has the reference that
`MapObject` gave, be it the creator, the list, a queued block or the thread that
runs it) under which

* every program leads from its thread's role to "none" (`FollowInv`), and what a
  search found is still what the map holds, because only one thread is within
  the map's mutex (`FoundInv`, `OthersFindNothing`);
* the count of an object is at least the number of borrowers, plus one while the
  first reference is in somebody's hands (`Counted`), and an object leaves the map
  exactly when its count is 0, so a borrower's object is mapped and alive
  (`StillThere`);
* the stage agrees with the list, the queue, `mIsActive` and the roles (`LoadInv`,
  `StageInv`, `ActiveInv`), and at most one block deletes the device, after it has left
  the map (`DestroyInv`).

A release that takes the count to 0 is then one where nobody borrows and nobody
keeps the device, and it is never the plug-in's (`ReleaseFacts`). These invariants
quantify over traces and roles; they are proved, but not evaluated by TLC.

`ObjectsHaveOneLife` is the refinement of ObjectLife from the same invariant. An
object is constructed while its creator is at a stage where it does not exist yet
(`Unmade`); it enters the map while nothing is on the queue (`NothingDoomed`); whoever
drops it leaves the one block that deletes it there (`EraseDrops`), which the queue's
thread takes over without a gap (`LifeRunBlock`), and no other program ever comes to
a deletion (`DeletesIsARole`).

**Only model-checked.** Every invariant and every action property of the passing
runs is also a theorem. What is left to TLC is liveness: `DeadDaemonDetected`,
`HeartbeatResumes`, `AudioResumesUnderJackd`, `SyncEngagesUnderHal`, `SnapshotEnds`,
`RetriesUntilJoined`, `SteadyWires`, `ReattachesUnlessMissed`, `EventuallyShared`,
`EveryCallReturns` and `RemovedIsDestroyed` rest on fairness, and the prover handles
neither fairness nor `ENABLED`. Of `EveryCallReturns` the part that is safety is
proved: `DeadlockFree` and `CallsShorten`. Three theorems have a hypothesis that
the runs share: no death within a publication (HalAnchor, two theorems) and one
slave (`NoPortIsForgotten`).

## 6. Not modelled

The MIDI bridge is compiled out. Of `jackClient.cpp` the transport calls and the
sync and timebase callbacks have no user, nor have `workgroup_leave_self`,
`RetainObject`, `Try`, `Tryer`, `Unlocker`, delayed dispatch and the Mach port
sources. The COM reference count of the driver is kept and never acted on. The
options and the configuration file `main` reads are constants. The statistics
behind the health trace (leads, deficits, margins) feed a log line. The CF
wrappers of PublicUtility are pure API use. Shell scripts, tools and the Pi's side
have no state in common with the bridge. Buffer contents other than the identity
of a frame, wording and logging are abstracted away.

Left out on purpose in what is modelled: a callback that ends in a later period than
its own (Timeline); leftover objects of another size without a version
(`LeftoversAssumption`); in PlugInObjects an exception from the constructor of the
device, before there is anything to take back, and the handler around the whole
of `StaticInitializer`; `_HW_Close`, which only stores a status that is the
driver's own; a reference count at its maximum.

## 7. Plan

Done: the modules of the bridge, the driver and their mutex, with their runs,
the proofs of all the invariants and action properties that the runs check, and
the three refinements (AbstractLock, AudioLink, ObjectLife).

What could follow:

1. the safety half of the other liveness properties, as `CallsShorten` is that of
   `EveryCallReturns`: the ranking that each of them descends, as an action
   property;
2. the route watcher of the daemon with the routing table as its environment.
