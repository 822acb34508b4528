---------------------------- MODULE DaemonProcess ----------------------------
(***************************************************************************)
(* The daemon as a process: main() opens a JACK client, attaches the       *)
(* shared memory, checks jackd's backend, registers ports, fetches the     *)
(* HAL device's audio workgroup, activates the client and waits for        *)
(* signals, wiring slave ports as in AutoWire.  Any start-up step may exit *)
(* the process, and launchd starts it anew.  Beside the main thread run    *)
(* JACK's process thread, which joins the workgroup, JACK's notification   *)
(* thread (AutoWire) and the thread on which libjack reports that jackd    *)
(* has gone.                                                               *)
(*                                                                         *)
(* External: jackd with the backend it was started on, launchd, coreaudiod *)
(* with the device, and libjack, which delivers registrations to active    *)
(* clients only and on_shutdown only if it was set when the server died.   *)
(* The shared registers that these handlers also write are in Lifecycle    *)
(* and Timeline, the steps of attach_shm in ShmHandshake.                  *)
(***************************************************************************)
EXTENDS AutoWire

CONSTANTS
  Backends,    \* backends jackd may be started on
  MaxBackoff,  \* 750: callbacks between two attempts to get the workgroup
  MaxKills     \* bound: times the process is killed or asked to go

ASSUME ProcessAssumption == MaxBackoff \in Nat \ {0} /\ MaxKills \in Nat

VARIABLES
  jackd,       \* "up" or "down"
  backend,     \* the backend of the running jackd
  hal,         \* "never" started, so that there is no shared memory, "down" or "up"
  version,     \* whose protocol version the memory has: "ours" or an "other" package's
  life,        \* where main stands: the next step of start-up, "loop", the
               \* destructors "release" and "close", or "exited"
  client,      \* connection to jackd: "none", "live" or "dead"
  sigterm,     \* SIGTERM is pending for the process
  shutdown,    \* libjack is about to call on_shutdown
  missed,      \* history: jackd died before this process had set on_shutdown
  rt,          \* process thread: "off", "idle" between callbacks, or in the
               \* workgroup block at "acquire", "join" or "drop"
  mWorkgroup,  \* "NULL" or "held"
  mWorkgroupJoined, mWorkgroupAcquireBackoff,
  owned,       \* references to workgroups acquired and not released
  kills        \* times the process was killed or asked to go

worldVars  == <<jackd, backend, hal, version>>
signalVars == <<client, sigterm, shutdown, missed>>
groupVars  == <<mWorkgroup, mWorkgroupJoined, mWorkgroupAcquireBackoff, owned>>
procVars   == <<worldVars, life, signalVars, rt, groupVars, kills>>
allVars    == <<vars, procVars>>

Versions    == {"ours", "other"}
Starting    == {"open", "shm", "backend", "ports", "workgroup", "callbacks", "activate"}
ShutdownSet == {"activate", "loop", "release"}   \* on_shutdown is set and not yet destroyed
Serving     == client = "live" /\ rt # "off"      \* the client is active in a live server

\* No process yet.  In a new one nothing is pending, and its first wiring pass
\* is ahead.
ProcessInit ==
  /\ ports = {} /\ conns = {} /\ events = <<>> /\ regs = 0
  /\ jackd = "down" /\ backend \in Backends /\ hal \in {"never", "up"} /\ version \in Versions
  /\ life = "exited" /\ kills = 0
  /\ g_wire_dirty = FALSE /\ usr1 = FALSE /\ npc = "idle"
  /\ mpc = "list" /\ dir = 1 /\ listed = {} /\ todo = {}
  /\ client = "none" /\ sigterm = FALSE /\ shutdown = FALSE /\ missed = FALSE
  /\ rt = "off" /\ mWorkgroup = "NULL" /\ mWorkgroupJoined = FALSE
  /\ mWorkgroupAcquireBackoff = 0 /\ owned = 0

-----------------------------------------------------------------------------
(* The outside world.                                                      *)

JackdUp ==
  /\ jackd = "down"
  /\ jackd' = "up" /\ backend' \in Backends
  /\ UNCHANGED <<vars, hal, version, life, signalVars, rt, groupVars, kills>>

\* jackd takes its ports with it.  Its clients learn of it if they have set
\* on_shutdown by then.
JackdDown ==
  /\ jackd = "up"
  /\ jackd' = "down"
  /\ ports' = {} /\ conns' = {} /\ events' = <<>>
  /\ IF client = "live"
       THEN /\ client' = "dead"
            /\ shutdown' = (life \in ShutdownSet)
            /\ missed' = (life \in Starting \ ShutdownSet)
       ELSE UNCHANGED <<client, shutdown, missed>>
  /\ UNCHANGED <<regs, g_wire_dirty, usr1, npc, mainVars, backend, hal, version, life,
                 sigterm, rt, groupVars, kills>>

\* coreaudiod starts, with the driver installed by then, and stops; the memory it
\* has created stays.
HalUp ==
  /\ hal # "up"
  /\ hal' = "up" /\ version' \in Versions
  /\ UNCHANGED <<vars, jackd, backend, life, signalVars, rt, groupVars, kills>>

HalDown ==
  /\ hal = "up"
  /\ hal' = "down"
  /\ UNCHANGED <<vars, jackd, backend, version, life, signalVars, rt, groupVars, kills>>

\* A slave's port appears while no active client is there to be told.
EarlyPort(p) ==
  /\ jackd = "up" /\ p \notin ports /\ ~Serving
  /\ ports' = ports \cup {p}
  /\ UNCHANGED <<conns, events, regs, g_wire_dirty, usr1, npc, mainVars, procVars>>

\* A slave's port appears, or a slave goes, under an active client.
SlaveStep ==
  /\ jackd = "up"
  /\ \/ Serving /\ \E p \in Ports : RegisterPort(p)
     \/ \E s \in Slaves : SlaveGone(s)
  /\ UNCHANGED procVars

\* launchctl or the user asks the daemon to go; the signal is blocked in every
\* thread and stays pending until sigwait.
SigTerm ==
  /\ life # "exited" /\ ~sigterm /\ kills < MaxKills
  /\ sigterm' = TRUE /\ kills' = kills + 1
  /\ UNCHANGED <<vars, worldVars, life, client, shutdown, missed, rt, groupVars>>

-----------------------------------------------------------------------------
(* Start-up.                                                               *)

\* The end of the process, however it comes about: jackd drops the client with
\* its ports, and the next process starts with fresh variables.
Exit ==
  /\ life' = "exited"
  /\ g_wire_dirty' = FALSE /\ usr1' = FALSE /\ npc' = "idle"
  /\ mpc' = "list" /\ dir' = 1 /\ listed' = {} /\ todo' = {}
  /\ client' = "none" /\ sigterm' = FALSE /\ shutdown' = FALSE /\ missed' = FALSE
  /\ rt' = "off" /\ mWorkgroup' = "NULL" /\ mWorkgroupJoined' = FALSE
  /\ mWorkgroupAcquireBackoff' = 0 /\ owned' = 0
  /\ conns' = {} /\ events' = <<>>
  /\ UNCHANGED <<ports, regs, worldVars>>

\* main returns or calls exit.
Leave == Exit /\ UNCHANGED kills

\* The process dies at any point.
Killed == life # "exited" /\ kills < MaxKills /\ kills' = kills + 1 /\ Exit

\* launchd has KeepAlive set.
Launch ==
  /\ life = "exited"
  /\ life' = "open"
  /\ UNCHANGED <<vars, worldVars, signalVars, rt, groupVars, kills>>

JackClient ==
  /\ life = "open"
  /\ IF jackd = "up"
       THEN /\ life' = "shm" /\ client' = "live"
            /\ UNCHANGED <<vars, worldVars, sigterm, shutdown, missed, rt, groupVars, kills>>
       ELSE Leave

\* The step succeeds and main stands at next.
Continue(next) == life' = next /\ UNCHANGED <<vars, worldVars, signalVars, rt, groupVars, kills>>

\* The memory has to be there and of the version the daemon was built for.
attach_shm ==
  /\ life = "shm"
  /\ IF hal # "never" /\ version = "ours" THEN Continue("backend") ELSE Leave

\* Only a CoreAudio backend, clocked by another device than JackBridge, has a
\* playback port with an alias that is fit.  A dead server answers anything.
check_jack_backend ==
  /\ life = "backend"
  /\ \/ (client = "dead" \/ backend = "coreaudio") /\ Continue("ports")
     \/ (client = "dead" \/ backend # "coreaudio") /\ Leave

register_ports == life = "ports" /\ Continue("workgroup")

\* The device is looked up by its UID and asked for its workgroup; either may
\* fail although coreaudiod is up.
workgroup_acquire_by_uid ==
  \/ hal = "up" /\ mWorkgroup' = "held" /\ owned' = owned + 1
  \/ mWorkgroup' = "NULL" /\ UNCHANGED owned

AcquireFirst ==
  /\ life = "workgroup"
  /\ workgroup_acquire_by_uid
  /\ life' = "callbacks"
  /\ UNCHANGED <<vars, worldVars, signalVars, rt, mWorkgroupJoined, mWorkgroupAcquireBackoff, kills>>

\* Process, xrun and shutdown callbacks are set ...
SetCallbacks == life = "callbacks" /\ Continue("activate")

\* ... and the client is activated; that this fails on a dead server is ignored.
activate ==
  /\ life = "activate"
  /\ life' = "loop"
  /\ rt' = IF client = "live" THEN "idle" ELSE "off"
  /\ UNCHANGED <<vars, worldVars, signalVars, groupVars, kills>>

-----------------------------------------------------------------------------
(* The signal loop and the wiring passes of AutoWire.                      *)

\* A wiring pass on a live server.
Wire ==
  /\ life = "loop" /\ client = "live"
  /\ GetPorts \/ (\E l \in Locals : Connect(l)) \/ Wired
  /\ UNCHANGED procVars

\* On a dead server what is left of a pass lists and connects nothing.
WireDead ==
  /\ life = "loop" /\ client = "dead" /\ mpc \in {"list", "connect"}
  /\ mpc' = "sigwait" /\ listed' = {} /\ todo' = {}
  /\ UNCHANGED <<jackVars, g_wire_dirty, usr1, npc, dir, procVars>>

Woken == life = "loop" /\ (SigWait \/ ExchangeDirty) /\ UNCHANGED procVars

\* JACK's notification thread runs until the client is closed.
Notify ==
  /\ life # "exited" /\ rt # "off"
  /\ NotifyDirty \/ NotifySignal
  /\ UNCHANGED procVars

\* The other signals end the loop.
Terminate ==
  /\ life = "loop" /\ mpc = "sigwait" /\ sigterm
  /\ Continue("release")

\* ~JackBridge drops the workgroup while JACK's threads still run ...
DestroyJackBridge ==
  /\ life = "release"
  /\ life' = "close"
  /\ mWorkgroup' = "NULL"
  /\ owned' = IF mWorkgroup # "NULL" THEN owned - 1 ELSE owned
  /\ UNCHANGED <<vars, worldVars, signalVars, rt, mWorkgroupJoined, mWorkgroupAcquireBackoff, kills>>

\* ... and ~JackClient closes the client, once their callbacks have returned.
DestroyJackClient ==
  /\ life = "close" /\ rt \in {"off", "idle"} /\ npc = "idle"
  /\ Leave

-----------------------------------------------------------------------------
(* JACK's threads.                                                         *)

\* Mutant of on_shutdown: main's sigwait is not nudged.
on_shutdown_Silent ==
  /\ shutdown
  /\ shutdown' = FALSE
  /\ UNCHANGED <<vars, worldVars, life, client, sigterm, missed, rt, groupVars, kills>>

\* jackd has gone: SIGTERM to ourselves.  Once ~JackBridge has run the call
\* reaches the base class, which does nothing.
on_shutdown ==
  /\ shutdown
  /\ shutdown' = FALSE
  /\ sigterm' = (sigterm \/ life # "close")
  /\ UNCHANGED <<vars, worldVars, life, client, missed, rt, groupVars, kills>>

\* Mutant of process_callback: the backoff is not reset.
process_callback_NoReset ==
  /\ rt = "idle" /\ client = "live" /\ life \in {"loop", "release"}
  /\ ~mWorkgroupJoined
  /\ IF mWorkgroup = "NULL"
       THEN /\ mWorkgroupAcquireBackoff' =
                 IF mWorkgroupAcquireBackoff <= MaxBackoff THEN mWorkgroupAcquireBackoff + 1
                                                          ELSE mWorkgroupAcquireBackoff
            /\ rt' = IF mWorkgroupAcquireBackoff' = MaxBackoff THEN "acquire" ELSE "idle"
       ELSE rt' = "join" /\ UNCHANGED mWorkgroupAcquireBackoff
  /\ UNCHANGED <<vars, worldVars, life, signalVars, mWorkgroup, mWorkgroupJoined, owned, kills>>

\* The workgroup block of the process callback: every MaxBackoff callbacks it
\* tries to get a workgroup, and as soon as it has one to join it.
process_callback ==
  /\ rt = "idle" /\ client = "live" /\ life \in {"loop", "release"}
  /\ ~mWorkgroupJoined
  /\ IF mWorkgroup = "NULL"
       THEN LET due == mWorkgroupAcquireBackoff + 1 >= MaxBackoff
            IN /\ mWorkgroupAcquireBackoff' = IF due THEN 0 ELSE mWorkgroupAcquireBackoff + 1
               /\ rt' = IF due THEN "acquire" ELSE "idle"
       ELSE rt' = "join" /\ UNCHANGED mWorkgroupAcquireBackoff
  /\ UNCHANGED <<vars, worldVars, life, signalVars, mWorkgroup, mWorkgroupJoined, owned, kills>>

AcquireAgain ==
  /\ rt = "acquire"
  /\ workgroup_acquire_by_uid
  /\ rt' = IF mWorkgroup' = "NULL" THEN "idle" ELSE "join"
  /\ UNCHANGED <<vars, worldVars, life, signalVars, mWorkgroupJoined, mWorkgroupAcquireBackoff, kills>>

\* Joining may fail, for a device that has gone as for any other reason.
workgroup_join_self ==
  /\ rt = "join"
  /\ \/ rt' = "idle" /\ mWorkgroupJoined' = TRUE
     \/ rt' = "drop" /\ UNCHANGED mWorkgroupJoined
  /\ UNCHANGED <<vars, worldVars, life, signalVars, mWorkgroup, mWorkgroupAcquireBackoff, owned, kills>>

\* Mutant of DropWorkgroup: the pointer is kept.
DropWorkgroup_Kept ==
  /\ rt = "drop"
  /\ rt' = "idle" /\ owned' = owned - 1
  /\ UNCHANGED <<vars, worldVars, life, signalVars, mWorkgroup, mWorkgroupJoined,
                 mWorkgroupAcquireBackoff, kills>>

\* Drop the workgroup rather than try to join it in every callback.  The pointer
\* is the one read before: if ~JackBridge has run since, it is released twice.
DropWorkgroup ==
  /\ rt = "drop"
  /\ rt' = "idle" /\ owned' = owned - 1 /\ mWorkgroup' = "NULL"
  /\ UNCHANGED <<vars, worldVars, life, signalVars, mWorkgroupJoined, mWorkgroupAcquireBackoff, kills>>

-----------------------------------------------------------------------------
StartUp ==
  \/ JackClient \/ attach_shm \/ check_jack_backend \/ register_ports
  \/ AcquireFirst \/ SetCallbacks \/ activate

ProcessNext ==
  \/ JackdUp \/ JackdDown \/ HalUp \/ HalDown
  \/ (\E p \in Ports : EarlyPort(p)) \/ SlaveStep
  \/ SigTerm \/ Killed \/ Launch \/ StartUp
  \/ Wire \/ WireDead \/ Woken \/ Notify
  \/ Terminate \/ DestroyJackBridge \/ DestroyJackClient
  \/ on_shutdown \/ process_callback \/ AcquireAgain \/ workgroup_join_self \/ DropWorkgroup

\* launchd restarts the job, the threads of the process are scheduled, jackd
\* calls the process callback and libjack delivers what it has to deliver.
\* Nothing makes jackd, coreaudiod or a slave come or go, or a kill happen.
ProcessFairness ==
  /\ WF_allVars(Launch) /\ WF_allVars(StartUp)
  /\ WF_allVars(Wire) /\ WF_allVars(WireDead) /\ WF_allVars(Woken)
  /\ WF_allVars(Notify) /\ WF_allVars(on_shutdown)
  /\ WF_allVars(Terminate) /\ WF_allVars(DestroyJackBridge) /\ WF_allVars(DestroyJackClient)
  /\ WF_allVars(process_callback \/ AcquireAgain \/ workgroup_join_self \/ DropWorkgroup)

ProcessSpec     == ProcessInit /\ [][ProcessNext]_allVars
ProcessFairSpec == ProcessSpec /\ ProcessFairness

-----------------------------------------------------------------------------
(* Properties.                                                             *)

\* Every variable stays in its type, and a connection is one of a live client.
ProcessTypeOK ==
  /\ TypeOK
  /\ jackd \in {"up", "down"} /\ backend \in Backends /\ hal \in {"never", "down", "up"}
  /\ version \in Versions
  /\ life \in Starting \cup {"loop", "release", "close", "exited"}
  /\ client \in {"none", "live", "dead"} /\ (conns # {} => client = "live")
  /\ sigterm \in BOOLEAN /\ shutdown \in BOOLEAN /\ missed \in BOOLEAN
  /\ rt \in {"off", "idle", "acquire", "join", "drop"}
  /\ mWorkgroup \in {"NULL", "held"} /\ mWorkgroupJoined \in BOOLEAN
  /\ mWorkgroupAcquireBackoff \in 0 .. MaxBackoff - 1
  /\ owned \in -1 .. 1 /\ kills \in 0 .. MaxKills

\* workgroup.hpp:24, "Caller owns one reference and must os_release it": until the
\* destructors run, the main thread's first attempt, the process thread's later
\* ones and its drop after a failed join leave exactly the reference that
\* mWorkgroup holds, and a callback that joins or drops has one.
WorkgroupBalanced ==
  life \notin {"release", "close"} =>
    /\ owned = IF mWorkgroup = "NULL" THEN 0 ELSE 1
    /\ rt \in {"join", "drop"} => mWorkgroup = "held"
    /\ mWorkgroupJoined => mWorkgroup = "held"

Steady == life = "loop" /\ client = "live"

\* JackBridge.cpp:229, "retried until acquisition succeeds": a process thread that
\* keeps running joins a workgroup or asks for one again and again, also after a
\* workgroup of a coreaudiod that has gone could not be joined.
RetriesUntilJoined == <>[]Steady => []<>(mWorkgroupJoined \/ rt = "acquire")

\* While the client is active on a live server, a slave port that is not wired is
\* on its way to be wired, whether it came before the daemon or after.
NoPortForgotten == (Steady => UnwiredIsPending) /\ (life = "loop" => DirtyWakesMain)

\* A daemon that keeps running wires every local port that a slave port matches.
SteadyWires ==
  \A l \in Locals :
    LET available == \E p \in ports : LocalOf(p) = l
    IN <>[]Steady => [](available => <>(Connected(l) \/ ~available))

WorldFit == jackd = "up" /\ backend = "coreaudio" /\ hal # "never" /\ version = "ours"

\* JackBridge.cpp:386, "LaunchAgent KeepAlive brings us back when jackd is back":
\* once a fit jackd stays up, beside a driver of the same package, the daemon serves
\* it again.
Reattaches == <>[]WorldFit => []<>Steady

\* The same for all but a process whose jackd died between jack_client_open and
\* jack_on_shutdown: every other one leaves its dead server, also when jackd
\* dies while it activates, wires or is being torn down.
ReattachesUnlessMissed == <>[]WorldFit => []<>(Steady \/ missed)
=============================================================================
