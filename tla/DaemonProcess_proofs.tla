------------------------- MODULE DaemonProcess_proofs -------------------------
(***************************************************************************)
(* Proofs about the daemon process, for any ports, backends, retry period  *)
(* and number of kills: the types; that no reference to a workgroup is     *)
(* lost or released twice before the destructors run; and, for one slave,  *)
(* that no slave port is forgotten.                                        *)
(***************************************************************************)
EXTENDS DaemonProcess, TLAPS

\* The type invariant in three parts: flags, wiring, and the rest of the process.
FlagsOK ==
  /\ g_wire_dirty \in BOOLEAN /\ usr1 \in BOOLEAN
  /\ sigterm \in BOOLEAN /\ shutdown \in BOOLEAN /\ missed \in BOOLEAN
  /\ mWorkgroupJoined \in BOOLEAN

WireOK ==
  /\ ports \subseteq Ports /\ conns \subseteq ports /\ events \in Seq(Ports)
  /\ npc \in {"idle", "signal"} /\ mpc \in {"sigwait", "woken", "list", "connect"}
  /\ dir \in 1 .. 2 /\ listed \subseteq Ports /\ todo \subseteq Locals
  /\ regs \in Nat

RestOK ==
  /\ jackd \in {"up", "down"} /\ backend \in Backends /\ hal \in {"never", "down", "up"}
  /\ version \in Versions
  /\ life \in Starting \cup {"loop", "release", "close", "exited"}
  /\ client \in {"none", "live", "dead"} /\ (conns # {} => client = "live")
  /\ rt \in {"off", "idle", "acquire", "join", "drop"}
  /\ mWorkgroup \in {"NULL", "held"}
  /\ mWorkgroupAcquireBackoff \in 0 .. MaxBackoff - 1
  /\ owned \in -1 .. 1 /\ kills \in 0 .. MaxKills

\* The references that mWorkgroup accounts for.
Held == IF mWorkgroup = "NULL" THEN 0 ELSE 1

\* Before main activates the client no thread of JACK's runs and the first wiring
\* pass is ahead; a client that is active on a live server has its threads.
LifeInv ==
  /\ life \in Starting \cup {"exited"} => rt = "off" /\ mpc = "list" /\ dir = 1
  /\ Steady => rt # "off"

\* Once ~JackBridge has run, a callback that was about to join or to drop works
\* with the pointer it has read; only then may a reference be released twice.
GroupInv ==
  /\ owned = Held \/ (life = "close" /\ rt = "idle" /\ mWorkgroup = "NULL" /\ owned = -1)
  /\ rt = "acquire" => mWorkgroup = "NULL"
  /\ rt # "idle" => ~mWorkgroupJoined
  /\ life # "close" => (rt \in {"join", "drop"} \/ mWorkgroupJoined => mWorkgroup = "held")
  /\ life \in {"exited", "open", "shm", "backend", "ports", "workgroup"} => mWorkgroup = "NULL"

\* The inductive invariant of the process.
Inv == FlagsOK /\ WireOK /\ RestOK /\ LifeInv /\ GroupInv /\ DirtyWakesMain

\* The parts make up the type invariant.
LEMMA TypeParts == ProcessTypeOK <=> FlagsOK /\ WireOK /\ RestOK
  BY DEF ProcessTypeOK, TypeOK, FlagsOK, WireOK, RestOK

-----------------------------------------------------------------------------
\* No process runs at first.
LEMMA InitInv == ProcessInit => Inv
<1> SUFFICES ASSUME ProcessInit PROVE Inv
  OBVIOUS
<1>1. FlagsOK
  BY DEF ProcessInit, FlagsOK
<1>2. WireOK
  BY DEF ProcessInit, WireOK
<1>3. RestOK
  BY ProcessAssumption DEF ProcessInit, RestOK
<1>4. LifeInv /\ GroupInv /\ DirtyWakesMain
  BY DEF ProcessInit, LifeInv, Steady, GroupInv, Held, DirtyWakesMain
<1> QED
  BY <1>1, <1>2, <1>3, <1>4 DEF Inv

\* What the end of a process leaves behind is what a new one finds.
LEMMA ExitKeepsInv ==
  ASSUME Inv, Exit, kills' \in 0 .. MaxKills
  PROVE  Inv'
<1>1. FlagsOK'
  BY DEF Exit, FlagsOK
<1>2. WireOK'
  BY DEF Exit, Inv, WireOK
<1>3. RestOK'
  BY ProcessAssumption DEF Exit, worldVars, Inv, RestOK
<1>4. LifeInv' /\ GroupInv' /\ DirtyWakesMain'
  BY DEF Exit, LifeInv, Steady, GroupInv, Held, DirtyWakesMain
<1> QED
  BY <1>1, <1>2, <1>3, <1>4 DEF Inv

\* main goes on to the next step of start-up, or out of the signal loop.
LEMMA ContinueKeepsInv ==
  ASSUME Inv, NEW next \in Starting \cup {"release"}, Continue(next),
         next \in Starting => life \in Starting /\ next # "open",
         next \in {"shm", "backend", "ports", "workgroup"} => mWorkgroup = "NULL",
         next = "release" => life = "loop"
  PROVE  Inv'
<1>1. life' = next
  BY DEF Continue
<1>2. UNCHANGED <<vars, jackd, backend, hal, version, client, sigterm, shutdown, missed, rt,
                  mWorkgroup, mWorkgroupJoined, mWorkgroupAcquireBackoff, owned, kills>>
  BY DEF Continue, worldVars, signalVars, groupVars
<1> USE DEF vars, jackVars, mainVars
<1>3. FlagsOK' /\ DirtyWakesMain'
  BY <1>2 DEF Inv, FlagsOK, DirtyWakesMain
<1>4. WireOK'
  BY <1>2 DEF Inv, WireOK
<1>5. RestOK'
  BY <1>1, <1>2 DEF Inv, RestOK
<1>6. LifeInv'
  BY <1>1, <1>2 DEF Inv, LifeInv, Steady, Starting
<1>7. life \notin {"close", "exited"} /\ life' \notin {"close", "exited", "open"}
  BY <1>1, <1>2 DEF Starting, Inv, RestOK
<1>8. GroupInv'
  BY <1>1, <1>2, <1>7 DEF Inv, FlagsOK, GroupInv, Held
<1> QED
  BY <1>3, <1>4, <1>5, <1>6, <1>8 DEF Inv

\* jackd, coreaudiod, launchd and the user.
LEMMA WorldKeepsInv ==
  ASSUME Inv, JackdUp \/ JackdDown \/ HalUp \/ HalDown \/ SigTerm \/ Launch
  PROVE  Inv'
<1> USE DEF vars, jackVars, mainVars, worldVars, signalVars, groupVars
<1>1. UNCHANGED <<regs, g_wire_dirty, usr1, npc, mpc, dir, listed, todo, rt, mWorkgroup,
                  mWorkgroupJoined, mWorkgroupAcquireBackoff, owned>>
  BY DEF JackdUp, JackdDown, HalUp, HalDown, SigTerm, Launch
<1>2. \/ UNCHANGED <<ports, conns, events>>
      \/ ports' = {} /\ conns' = {} /\ events' = <<>>
  BY DEF JackdUp, JackdDown, HalUp, HalDown, SigTerm, Launch
<1>3. /\ client' = client \/ (client' = "dead" /\ client = "live" /\ conns' = {})
      /\ life' = life \/ (life' = "open" /\ life = "exited")
  <2>1. CASE JackdDown
    BY <2>1 DEF JackdDown
  <2>2. CASE JackdUp \/ HalUp \/ HalDown \/ SigTerm \/ Launch
    BY <2>2 DEF JackdUp, HalUp, HalDown, SigTerm, Launch
  <2> QED
    BY <2>1, <2>2
<1>4. FlagsOK' /\ DirtyWakesMain'
  <2>1. CASE JackdDown
    <3>1. CASE client = "live"
      <4>1. /\ UNCHANGED sigterm /\ shutdown' = (life \in ShutdownSet)
            /\ missed' = (life \in Starting \ ShutdownSet)
        BY <2>1, <3>1 DEF JackdDown
      <4> QED
        BY <1>1, <4>1 DEF Inv, FlagsOK, DirtyWakesMain
    <3>2. CASE client # "live"
      <4>1. UNCHANGED <<sigterm, shutdown, missed>>
        BY <2>1, <3>2 DEF JackdDown
      <4> QED
        BY <1>1, <4>1 DEF Inv, FlagsOK, DirtyWakesMain
    <3> QED
      BY <3>1, <3>2
  <2>2. CASE SigTerm
    BY <2>2 DEF SigTerm, Inv, FlagsOK, DirtyWakesMain
  <2>3. CASE JackdUp \/ HalUp \/ HalDown \/ Launch
    BY <2>3 DEF JackdUp, HalUp, HalDown, Launch, Inv, FlagsOK, DirtyWakesMain
  <2> QED
    BY <2>1, <2>2, <2>3
<1>5. WireOK'
  <2>1. CASE UNCHANGED <<ports, conns, events>>
    BY <1>1, <2>1 DEF Inv, WireOK
  <2>2. CASE ports' = {} /\ conns' = {} /\ events' = <<>>
    BY <1>1, <2>2 DEF Inv, WireOK
  <2> QED
    BY <1>2, <2>1, <2>2
<1>6. /\ jackd' \in {"up", "down"} /\ backend' \in Backends /\ hal' \in {"never", "down", "up"}
      /\ version' \in Versions /\ kills' \in 0 .. MaxKills
  <2>1. CASE SigTerm
    BY <2>1, ProcessAssumption DEF SigTerm, Inv, RestOK
  <2>2. CASE JackdUp \/ JackdDown \/ HalUp \/ HalDown \/ Launch
    BY <2>2 DEF JackdUp, JackdDown, HalUp, HalDown, Launch, Inv, RestOK
  <2> QED
    BY <2>1, <2>2
<1>7. RestOK'
  BY <1>1, <1>2, <1>3, <1>6 DEF Inv, RestOK, Starting
<1>8. LifeInv' /\ GroupInv'
  BY <1>1, <1>3 DEF Inv, RestOK, LifeInv, Steady, GroupInv, Held, Starting
<1> QED
  BY <1>4, <1>5, <1>7, <1>8 DEF Inv

\* A step of AutoWire's that leaves the process alone, taken while the process may
\* take it, keeps the types of the wiring and the signal for the flag.
LEMMA WiringKeepsInv ==
  ASSUME Inv, UNCHANGED procVars, WireOK', FlagsOK', DirtyWakesMain',
         conns' # {} => client = "live",
         life \in Starting \cup {"exited"} => UNCHANGED <<mpc, dir>>
  PROVE  Inv'
<1>1. UNCHANGED <<jackd, backend, hal, version, life, client, sigterm, shutdown, missed, rt,
                  mWorkgroup, mWorkgroupJoined, mWorkgroupAcquireBackoff, owned, kills>>
  BY DEF procVars, worldVars, signalVars, groupVars
<1>2. RestOK'
  BY <1>1 DEF Inv, RestOK
<1>3. LifeInv' /\ GroupInv'
  BY <1>1 DEF Inv, LifeInv, Steady, GroupInv, Held
<1> QED
  BY <1>2, <1>3 DEF Inv

\* The steps of jackd, of the notification thread and of the wiring pass.
LEMMA WireStepsKeepInv ==
  ASSUME Inv,
         (\E p \in Ports : EarlyPort(p)) \/ SlaveStep \/ Wire \/ WireDead \/ Woken \/ Notify
  PROVE  Inv'
<1> USE DEF jackVars, mainVars
<1>1. ASSUME NEW p \in Ports, EarlyPort(p) PROVE Inv'
  <2>1. WireOK' /\ UNCHANGED <<conns, g_wire_dirty, usr1, npc, mpc, dir, procVars>>
    BY <1>1 DEF EarlyPort, Inv, WireOK
  <2>2. FlagsOK' /\ DirtyWakesMain'
    BY <2>1 DEF Inv, FlagsOK, DirtyWakesMain, procVars, signalVars, groupVars
  <2> QED
    BY <2>1, <2>2, WiringKeepsInv DEF Inv, RestOK
<1>2. ASSUME NEW p \in Ports, RegisterPort(p), UNCHANGED procVars PROVE Inv'
  <2>1. WireOK' /\ UNCHANGED <<conns, g_wire_dirty, usr1, npc, mpc, dir>>
    BY <1>2 DEF RegisterPort, Inv, WireOK
  <2>2. FlagsOK' /\ DirtyWakesMain'
    BY <1>2, <2>1 DEF Inv, FlagsOK, DirtyWakesMain, procVars, signalVars, groupVars
  <2> QED
    BY <1>2, <2>1, <2>2, WiringKeepsInv DEF Inv, RestOK
<1>3. ASSUME NEW s \in Slaves, SlaveGone(s), UNCHANGED procVars PROVE Inv'
  <2>1. /\ WireOK' /\ UNCHANGED <<g_wire_dirty, usr1, npc, mpc, dir>>
        /\ conns' # {} => conns # {}
    BY <1>3 DEF SlaveGone, Inv, WireOK
  <2>2. FlagsOK' /\ DirtyWakesMain'
    BY <1>3, <2>1 DEF Inv, FlagsOK, DirtyWakesMain, procVars, signalVars, groupVars
  <2> QED
    BY <1>3, <2>1, <2>2, WiringKeepsInv DEF Inv, RestOK
<1>4. CASE Wire \/ WireDead
  <2>1. /\ life = "loop" /\ UNCHANGED <<g_wire_dirty, usr1, npc, procVars>>
        /\ client = "live" \/ UNCHANGED conns
        /\ mpc # "woken"
    BY <1>4 DEF Wire, WireDead, GetPorts, Connect, Wired
  <2>2. WireOK'
    <3>1. CASE WireDead
      BY <3>1 DEF WireDead, Inv, WireOK
    <3>2. CASE GetPorts
      BY <3>2 DEF GetPorts, Inv, WireOK
    <3>3. ASSUME NEW l \in Locals, Connect(l) PROVE WireOK'
      <4>1. conns' \subseteq ports
        BY <3>3 DEF Connect, Inv, WireOK
      <4> QED
        BY <3>3, <4>1 DEF Connect, Inv, WireOK
    <3>4. CASE Wired
      BY <3>4 DEF Wired, Roles, Inv, WireOK
    <3> QED
      BY <1>4, <3>1, <3>2, <3>3, <3>4 DEF Wire
  <2>3. FlagsOK' /\ DirtyWakesMain'
    BY <2>1 DEF Inv, FlagsOK, DirtyWakesMain, procVars, signalVars, groupVars
  <2> QED
    BY <2>1, <2>2, <2>3, WiringKeepsInv DEF Inv, RestOK, Starting
<1>5. CASE Woken
  <2>1. life = "loop" /\ UNCHANGED <<conns, npc, procVars>> /\ WireOK'
    BY <1>5 DEF Woken, SigWait, ExchangeDirty, Inv, WireOK
  <2>2. \/ UNCHANGED g_wire_dirty /\ usr1' = FALSE /\ mpc' = "woken"
        \/ g_wire_dirty' = FALSE /\ UNCHANGED usr1
    BY <1>5 DEF Woken, SigWait, ExchangeDirty
  <2>3. FlagsOK' /\ DirtyWakesMain'
    BY <2>1, <2>2 DEF Inv, FlagsOK, DirtyWakesMain, procVars, signalVars, groupVars
  <2> QED
    BY <2>1, <2>3, WiringKeepsInv DEF Inv, RestOK, Starting
<1>6. CASE Notify
  <2>1. UNCHANGED <<conns, mpc, dir, procVars>> /\ WireOK'
    <3>1. CASE NotifyDirty
      <4>1. events # <<>> /\ events' = Tail(events) /\ npc' \in {npc, "signal"}
        BY <3>1 DEF NotifyDirty
      <4>2. events' \in Seq(Ports)
        BY <4>1 DEF Inv, WireOK
      <4> QED
        BY <1>6, <3>1, <4>1, <4>2 DEF Notify, NotifyDirty, Inv, WireOK
    <3>2. CASE NotifySignal
      BY <1>6, <3>2 DEF Notify, NotifySignal, Inv, WireOK
    <3> QED
      BY <1>6, <3>1, <3>2 DEF Notify
  <2>2. \/ UNCHANGED <<g_wire_dirty, usr1, npc>>
        \/ g_wire_dirty' = TRUE /\ npc' = "signal" /\ UNCHANGED usr1
        \/ usr1' = TRUE /\ UNCHANGED g_wire_dirty
    BY <1>6 DEF Notify, NotifyDirty, NotifySignal
  <2>3. DirtyWakesMain'
    BY <2>1, <2>2 DEF Inv, DirtyWakesMain, NotifySignal
  <2>4. FlagsOK'
    <3>1. g_wire_dirty' \in BOOLEAN /\ usr1' \in BOOLEAN
      BY <2>2 DEF Inv, FlagsOK
    <3> QED
      BY <2>1, <3>1 DEF Inv, FlagsOK, procVars, signalVars, groupVars
  <2> QED
    BY <2>1, <2>3, <2>4, WiringKeepsInv DEF Inv, RestOK
<1> QED
  BY <1>1, <1>2, <1>3, <1>4, <1>5, <1>6 DEF SlaveStep

\* Start-up, from launch to the signal loop.
LEMMA StartUpKeepsInv ==
  ASSUME Inv, StartUp
  PROVE  Inv'
<1> kills \in 0 .. MaxKills
  BY DEF Inv, RestOK
<1>1. CASE Leave
  BY <1>1, ExitKeepsInv DEF Leave
<1>2. CASE life = "open" /\ life' = "shm" /\ client' = "live"
           /\ UNCHANGED <<vars, worldVars, sigterm, shutdown, missed, rt, groupVars, kills>>
  <2> USE DEF vars, jackVars, mainVars, worldVars, groupVars
  <2>1. FlagsOK' /\ DirtyWakesMain'
    BY <1>2 DEF Inv, FlagsOK, DirtyWakesMain
  <2>2. WireOK'
    BY <1>2 DEF Inv, WireOK
  <2>3. RestOK'
    BY <1>2 DEF Inv, RestOK, Starting
  <2>4. LifeInv'
    BY <1>2 DEF Inv, LifeInv, Steady, Starting
  <2>5. GroupInv'
    BY <1>2 DEF Inv, FlagsOK, GroupInv, Held
  <2> QED
    BY <2>1, <2>2, <2>3, <2>4, <2>5 DEF Inv
<1>3. JackClient => Inv'
  BY <1>1, <1>2 DEF JackClient
<1>4. attach_shm => Inv'
  BY <1>1, ContinueKeepsInv DEF attach_shm, Starting, Inv, GroupInv
<1>5. check_jack_backend => Inv'
  BY <1>1, ContinueKeepsInv DEF check_jack_backend, Starting, Inv, GroupInv
<1>6. register_ports => Inv'
  BY ContinueKeepsInv DEF register_ports, Starting, Inv, GroupInv
<1>7. SetCallbacks => Inv'
  BY ContinueKeepsInv DEF SetCallbacks, Starting
<1>8. CASE AcquireFirst
  <2> USE DEF vars, jackVars, mainVars, worldVars, signalVars
  <2>1. /\ life = "workgroup" /\ life' = "callbacks"
        /\ \/ mWorkgroup' = "held" /\ owned' = owned + 1
           \/ mWorkgroup' = "NULL" /\ UNCHANGED owned
    BY <1>8 DEF AcquireFirst, workgroup_acquire_by_uid
  <2>2. UNCHANGED <<vars, worldVars, signalVars, rt, mWorkgroupJoined,
                    mWorkgroupAcquireBackoff, kills>>
    BY <1>8 DEF AcquireFirst
  <2>3. FlagsOK' /\ DirtyWakesMain'
    BY <2>2 DEF Inv, FlagsOK, DirtyWakesMain
  <2>4. WireOK'
    BY <2>2 DEF Inv, WireOK
  <2>5. LifeInv'
    BY <2>1, <2>2 DEF Inv, LifeInv, Steady, Starting
  <2>6. owned = 0 /\ rt = "off"
    BY <2>1 DEF Inv, GroupInv, Held, LifeInv, Starting
  <2>7. GroupInv'
    BY <2>1, <2>2, <2>6 DEF Inv, FlagsOK, GroupInv, Held
  <2>8. RestOK'
    BY <2>1, <2>2, <2>6 DEF Inv, RestOK, Starting
  <2> QED
    BY <2>3, <2>4, <2>5, <2>7, <2>8 DEF Inv
<1>9. CASE activate
  <2> USE DEF vars, jackVars, mainVars, worldVars, signalVars, groupVars
  <2>1. /\ life = "activate" /\ life' = "loop"
        /\ rt' = IF client = "live" THEN "idle" ELSE "off"
        /\ UNCHANGED <<vars, worldVars, signalVars, groupVars, kills>>
    BY <1>9 DEF activate
  <2>2. FlagsOK' /\ DirtyWakesMain'
    BY <2>1 DEF Inv, FlagsOK, DirtyWakesMain
  <2>3. WireOK'
    BY <2>1 DEF Inv, WireOK
  <2>4. LifeInv'
    BY <2>1 DEF LifeInv, Steady, Starting
  <2>5. rt = "off"
    BY <2>1 DEF Inv, LifeInv, Starting
  <2>6. GroupInv'
    BY <2>1, <2>5 DEF Inv, FlagsOK, GroupInv, Held
  <2>7. RestOK'
    BY <2>1 DEF Inv, RestOK
  <2> QED
    BY <2>2, <2>3, <2>4, <2>6, <2>7 DEF Inv
<1> QED
  BY <1>3, <1>4, <1>5, <1>6, <1>7, <1>8, <1>9 DEF StartUp

\* The end of the process, the two destructors and a kill.
LEMMA TeardownKeepsInv ==
  ASSUME Inv, Killed \/ Terminate \/ DestroyJackBridge \/ DestroyJackClient
  PROVE  Inv'
<1>1. CASE Killed
  <2>1. kills' \in 0 .. MaxKills /\ Exit
    BY <1>1, ProcessAssumption DEF Killed, Inv, RestOK
  <2> QED
    BY <2>1, ExitKeepsInv
<1>2. CASE Terminate
  BY <1>2, ContinueKeepsInv DEF Terminate, Starting
<1>3. CASE DestroyJackClient
  BY <1>3, ExitKeepsInv DEF DestroyJackClient, Leave, Inv, RestOK
<1>4. CASE DestroyJackBridge
  <2> USE DEF vars, jackVars, mainVars, worldVars, signalVars
  <2>1. /\ life = "release" /\ life' = "close" /\ mWorkgroup' = "NULL"
        /\ owned' = IF mWorkgroup # "NULL" THEN owned - 1 ELSE owned
        /\ UNCHANGED <<vars, worldVars, signalVars, rt, mWorkgroupJoined,
                       mWorkgroupAcquireBackoff, kills>>
    BY <1>4 DEF DestroyJackBridge
  <2>2. owned' = 0
    BY <2>1 DEF Inv, GroupInv, Held
  <2>3. FlagsOK' /\ DirtyWakesMain'
    BY <2>1 DEF Inv, FlagsOK, DirtyWakesMain
  <2>4. WireOK'
    BY <2>1 DEF Inv, WireOK
  <2>5. LifeInv'
    BY <2>1 DEF LifeInv, Steady, Starting
  <2>6. GroupInv'
    BY <2>1, <2>2 DEF Inv, FlagsOK, GroupInv, Held
  <2>7. RestOK'
    BY <2>1, <2>2 DEF Inv, RestOK
  <2> QED
    BY <2>3, <2>4, <2>5, <2>6, <2>7 DEF Inv
<1> QED
  BY <1>1, <1>2, <1>3, <1>4

\* The callback's workgroup block and on_shutdown.
LEMMA CallbacksKeepInv ==
  ASSUME Inv,
         \/ on_shutdown \/ process_callback
         \/ AcquireAgain \/ workgroup_join_self \/ DropWorkgroup
  PROVE  Inv'
<1> USE DEF vars, jackVars, mainVars, worldVars
<1>1. UNCHANGED <<vars, worldVars, life, client, missed, kills>>
  BY DEF on_shutdown, process_callback, AcquireAgain, workgroup_join_self, DropWorkgroup,
         signalVars
<1>2. WireOK' /\ DirtyWakesMain'
  BY <1>1 DEF Inv, WireOK, DirtyWakesMain
<1>3. CASE on_shutdown
  <2>1. shutdown' = FALSE /\ sigterm' = (sigterm \/ life # "close") /\ UNCHANGED <<rt, groupVars>>
    BY <1>3 DEF on_shutdown
  <2>2. FlagsOK'
    BY <1>1, <2>1 DEF Inv, FlagsOK, groupVars
  <2>3. RestOK'
    BY <1>1, <2>1 DEF Inv, RestOK, groupVars
  <2>4. LifeInv' /\ GroupInv'
    BY <1>1, <2>1 DEF Inv, LifeInv, Steady, GroupInv, Held, groupVars
  <2> QED
    BY <1>2, <2>2, <2>3, <2>4 DEF Inv
<1>4. rt # "off" => life \notin Starting \cup {"exited"}
  BY DEF Inv, LifeInv
<1>5. ASSUME FlagsOK', GroupInv', rt # "off", rt' \in {"idle", "acquire", "join", "drop"},
             mWorkgroup' \in {"NULL", "held"}, mWorkgroupAcquireBackoff' \in 0 .. MaxBackoff - 1
      PROVE  Inv'
  <2>1. RestOK'
    BY <1>1, <1>5 DEF Inv, RestOK, GroupInv, Held
  <2>2. LifeInv'
    BY <1>1, <1>4, <1>5 DEF Inv, LifeInv
  <2> QED
    BY <1>2, <1>5, <2>1, <2>2 DEF Inv
<1>6. CASE process_callback
  <2>1. FlagsOK'
    BY <1>1, <1>6 DEF process_callback, signalVars, Inv, FlagsOK
  <2>2. mWorkgroupAcquireBackoff' \in 0 .. MaxBackoff - 1
    BY <1>6, ProcessAssumption DEF process_callback, Inv, RestOK
  <2>3. GroupInv' /\ rt' \in {"idle", "acquire", "join", "drop"}
    BY <1>1, <1>6 DEF process_callback, Inv, FlagsOK, RestOK, GroupInv, Held
  <2> QED
    BY <1>5, <1>6, <2>1, <2>2, <2>3 DEF process_callback, Inv, RestOK
<1>7. CASE AcquireAgain
  <2>1. FlagsOK'
    BY <1>1, <1>7 DEF AcquireAgain, signalVars, Inv, FlagsOK
  <2>2. /\ rt = "acquire" /\ UNCHANGED <<mWorkgroupJoined, mWorkgroupAcquireBackoff>>
        /\ \/ mWorkgroup' = "held" /\ owned' = owned + 1 /\ rt' = "join"
           \/ mWorkgroup' = "NULL" /\ owned' = owned /\ rt' = "idle"
    BY <1>7 DEF AcquireAgain, workgroup_acquire_by_uid
  <2>3. GroupInv'
    BY <1>1, <1>4, <2>2 DEF Inv, FlagsOK, GroupInv, Held, Starting
  <2> QED
    BY <1>5, <2>1, <2>2, <2>3 DEF Inv, RestOK
<1>8. CASE workgroup_join_self
  <2>1. /\ rt = "join" /\ UNCHANGED <<mWorkgroup, mWorkgroupAcquireBackoff, owned, sigterm, shutdown>>
        /\ \/ rt' = "idle" /\ mWorkgroupJoined' = TRUE
           \/ rt' = "drop" /\ UNCHANGED mWorkgroupJoined
    BY <1>8 DEF workgroup_join_self, signalVars
  <2>2. FlagsOK'
    BY <1>1, <2>1 DEF Inv, FlagsOK
  <2>3. GroupInv'
    BY <1>1, <1>4, <2>1 DEF Inv, FlagsOK, GroupInv, Held
  <2> QED
    BY <1>5, <2>1, <2>2, <2>3 DEF Inv, RestOK
<1>9. CASE DropWorkgroup
  <2>1. /\ rt = "drop" /\ rt' = "idle" /\ owned' = owned - 1 /\ mWorkgroup' = "NULL"
        /\ UNCHANGED <<mWorkgroupJoined, mWorkgroupAcquireBackoff, sigterm, shutdown>>
    BY <1>9 DEF DropWorkgroup, signalVars
  <2>2. FlagsOK'
    BY <1>1, <2>1 DEF Inv, FlagsOK
  <2>3. GroupInv'
    BY <1>1, <2>1 DEF Inv, FlagsOK, RestOK, GroupInv, Held
  <2> QED
    BY <1>5, <2>1, <2>2, <2>3 DEF Inv, RestOK
<1> QED
  BY <1>3, <1>6, <1>7, <1>8, <1>9

\* Every step keeps the invariant.
LEMMA NextKeepsInv == Inv /\ [ProcessNext]_allVars => Inv'
<1> SUFFICES ASSUME Inv, [ProcessNext]_allVars PROVE Inv'
  OBVIOUS
<1>1. CASE UNCHANGED allVars
  <2>1. UNCHANGED <<vars, procVars>>
    BY <1>1 DEF allVars
  <2>2. WireOK' /\ UNCHANGED <<conns, g_wire_dirty, usr1, npc, mpc, dir>>
    BY <2>1 DEF vars, jackVars, mainVars, Inv, WireOK
  <2>3. FlagsOK' /\ DirtyWakesMain'
    BY <2>1, <2>2 DEF procVars, signalVars, groupVars, Inv, FlagsOK, DirtyWakesMain
  <2> QED
    BY <2>1, <2>2, <2>3, WiringKeepsInv DEF Inv, RestOK
<1> QED
  BY <1>1, WorldKeepsInv, WireStepsKeepInv, StartUpKeepsInv, TeardownKeepsInv, CallbacksKeepInv
     DEF ProcessNext

\* The inductive invariant holds throughout.
LEMMA ProcessInv == ProcessSpec => []Inv
  BY InitInv, NextKeepsInv, PTL DEF ProcessSpec

\* Through start-up, wiring, kills, restarts of jackd and teardown every variable
\* of the process stays in its type: the process holds at most one reference to
\* a workgroup and releases at most one too many, the backoff of
\* process_callback stays below its limit, and only a live client is connected.
THEOREM ProcessTypeCorrect == ProcessSpec => []ProcessTypeOK
<1>1. Inv => ProcessTypeOK
  BY TypeParts DEF Inv
<1> QED
  BY <1>1, ProcessInv, PTL

\* workgroup.hpp:24 for any retry period and any sequence of failed joins, lost
\* devices and restarts: before the destructors run, the references that main and
\* the process callback have acquired and not released are the one in mWorkgroup.
THEOREM WorkgroupsBalance == ProcessSpec => []WorkgroupBalanced
<1>1. Inv => WorkgroupBalanced
  BY DEF Inv, GroupInv, Held, WorkgroupBalanced
<1> QED
  BY <1>1, ProcessInv, PTL

-----------------------------------------------------------------------------
(* No slave port is forgotten.                                             *)

\* jackd knows one slave.  With two, the one that is wired may leave while the
\* other stays: the daemon does not look at departures, and nothing wires what
\* is left.
OneSlave == \A s1, s2 \in Slaves : s1 = s2

\* p is wired or on its way to be.
Pending(p) ==
  \/ Connected(LocalOf(p))
  \/ \E i \in 1 .. Len(events) : events[i] = p
  \/ g_wire_dirty
  \/ PassCovers(p)

\* A port is of one of the two roles, and so is its local port.
LEMMA PortFacts ==
  ASSUME NEW p \in Ports
  PROVE  /\ LocalOf(p) \in Locals
         /\ RoleOf(LocalOf(p)) = Roles[1] \/ RoleOf(LocalOf(p)) = Roles[2]
  BY DEF Ports, Locals, LocalOf, RoleOf, Roles

\* With one slave, a port is known by its local port.
LEMMA OnePort ==
  ASSUME OneSlave, NEW p \in Ports, NEW q \in Ports, LocalOf(p) = LocalOf(q)
  PROVE  p = q
  BY DEF OneSlave, Ports, LocalOf

\* A registration or a departure under an active client.
LEMMA SlaveStepPending ==
  ASSUME OneSlave, Inv, UnwiredIsPending, SlaveStep
  PROVE  UnwiredIsPending'
<1> USE DEF jackVars, mainVars
<1>1. ASSUME NEW q \in Ports, RegisterPort(q), NEW p \in ports' PROVE Pending(p)'
  <2>1. /\ events' = Append(events, q) /\ ports' = ports \cup {q} /\ events \in Seq(Ports)
        /\ UNCHANGED <<conns, g_wire_dirty, mpc, dir, listed, todo>>
    BY <1>1 DEF RegisterPort, Inv, WireOK
  <2>2. CASE p = q
    <3>1. Len(events') = Len(events) + 1 /\ events'[Len(events) + 1] = p
      BY <2>1, <2>2
    <3> QED
      BY <2>1, <3>1 DEF Pending
  <2>3. CASE p # q
    <3>1. Pending(p)
      BY <2>1, <2>3 DEF UnwiredIsPending, Pending
    <3>2. \A i \in 1 .. Len(events) : i \in 1 .. Len(events') /\ events'[i] = events[i]
      BY <2>1
    <3> QED
      BY <2>1, <3>1, <3>2 DEF Pending, Connected, PassCovers
  <2> QED
    BY <2>2, <2>3
<1>2. ASSUME NEW s \in Slaves, SlaveGone(s) PROVE ports' = {}
  BY <1>2 DEF SlaveGone, Inv, WireOK, Ports, OneSlave
<1> QED
  BY <1>1, <1>2 DEF SlaveStep, UnwiredIsPending, Pending

\* A notification: what it takes from the queue it puts into the flag.
LEMMA NotifyPending ==
  ASSUME Inv, UnwiredIsPending, NotifyDirty \/ NotifySignal
  PROVE  UnwiredIsPending'
<1> USE DEF jackVars, mainVars
<1> SUFFICES ASSUME NEW p \in ports PROVE Pending(p)'
  BY DEF NotifyDirty, NotifySignal, UnwiredIsPending, Pending
<1> Pending(p) /\ events \in Seq(Ports) /\ UNCHANGED <<ports, conns, mpc, dir, listed, todo>>
  BY DEF NotifyDirty, NotifySignal, UnwiredIsPending, Pending, Inv, WireOK
<1>1. CASE NotifySignal
  BY <1>1 DEF NotifySignal, Pending, Connected, PassCovers
<1>2. CASE NotifyDirty
  <2>1. /\ events # <<>> /\ events' = Tail(events)
        /\ g_wire_dirty' = TRUE \/ (Head(events) \notin ports /\ g_wire_dirty' = g_wire_dirty)
    BY <1>2 DEF NotifyDirty
  <2>2. CASE g_wire_dirty' = TRUE
    BY <2>2 DEF Pending
  <2>3. CASE Head(events) \notin ports /\ g_wire_dirty' = g_wire_dirty
    <3>1. ASSUME NEW i \in 1 .. Len(events), events[i] = p
          PROVE  i - 1 \in 1 .. Len(events') /\ events'[i - 1] = p
      <4>1. i # 1
        BY <2>1, <2>3, <3>1
      <4> QED
        BY <2>1, <3>1, <4>1
    <3> QED
      BY <2>3, <3>1 DEF Pending, Connected, PassCovers
  <2> QED
    BY <2>1, <2>2, <2>3
<1> QED
  BY <1>1, <1>2

\* The wiring pass: a port leaves it only when it is connected.
LEMMA WirePending ==
  ASSUME OneSlave, Inv, UnwiredIsPending,
         SigWait \/ ExchangeDirty \/ GetPorts \/ (\E l \in Locals : Connect(l)) \/ Wired
  PROVE  UnwiredIsPending'
<1> USE DEF jackVars, mainVars
<1> UNCHANGED <<ports, events>>
  BY DEF SigWait, ExchangeDirty, GetPorts, Connect, Wired
<1> SUFFICES ASSUME NEW p \in ports PROVE Pending(p)'
  BY DEF UnwiredIsPending, Pending
<1>0. Pending(p) /\ p \in Ports /\ dir \in 1 .. 2
  BY DEF UnwiredIsPending, Pending, Inv, WireOK
<1>1. CASE SigWait \/ ExchangeDirty
  <2>1. mpc \in {"sigwait", "woken"} /\ UNCHANGED conns
    BY <1>1 DEF SigWait, ExchangeDirty
  <2>2. CASE g_wire_dirty
    <3>1. g_wire_dirty' \/ (mpc' = "list" /\ dir' = 1)
      BY <1>1, <2>2 DEF SigWait, ExchangeDirty
    <3> QED
      BY <1>0, <3>1, PortFacts DEF Pending, PassCovers
  <2>3. CASE ~g_wire_dirty
    <3>1. Connected(LocalOf(p)) \/ \E i \in 1 .. Len(events) : events[i] = p
      BY <1>0, <2>1, <2>3 DEF Pending, PassCovers
    <3> QED
      BY <2>1, <3>1 DEF Pending, Connected
  <2> QED
    BY <2>2, <2>3
<1>2. CASE GetPorts
  <2>1. /\ mpc = "list" /\ mpc' = "connect" /\ UNCHANGED <<conns, g_wire_dirty, dir>>
        /\ listed' = {q \in ports : RoleOf(LocalOf(q)) = Roles[dir]}
        /\ todo' = {l \in Locals : RoleOf(l) = Roles[dir]}
    BY <1>2 DEF GetPorts
  <2>2. PassCovers(p) => PassCovers(p)'
    BY <1>0, <2>1, PortFacts DEF PassCovers
  <2> QED
    BY <1>0, <2>1, <2>2 DEF Pending, Connected
<1>3. ASSUME NEW l \in Locals, Connect(l) PROVE Pending(p)'
  <2>1. /\ mpc = "connect" /\ l \in todo /\ todo' = todo \ {l} /\ listed \subseteq Ports
        /\ UNCHANGED <<g_wire_dirty, mpc, dir, listed>>
    BY <1>3 DEF Connect, Inv, WireOK
  <2>2. conns \subseteq conns'
    BY <1>3 DEF Connect
  <2>3. CASE p \in listed /\ LocalOf(p) = l
    <3>1. {q \in listed : LocalOf(q) = l} = {p}
      BY <1>0, <2>1, <2>3, OnePort
    <3>2. p \in conns'
      BY <1>3, <3>1 DEF Connect
    <3> QED
      BY <3>2 DEF Pending, Connected
  <2>4. CASE ~(p \in listed /\ LocalOf(p) = l)
    <3>1. PassCovers(p) => PassCovers(p)'
      BY <2>1, <2>4 DEF PassCovers
    <3> QED
      BY <1>0, <2>1, <2>2, <3>1 DEF Pending, Connected
  <2> QED
    BY <2>3, <2>4
<1>4. CASE Wired
  <2>1. /\ mpc = "connect" /\ todo = {} /\ UNCHANGED <<conns, g_wire_dirty>>
        /\ dir = 1 => mpc' = "list" /\ dir' = 2
    BY <1>0, <1>4 DEF Wired, Roles
  <2>2. PassCovers(p) => PassCovers(p)'
    BY <1>0, <2>1 DEF PassCovers
  <2> QED
    BY <1>0, <2>1, <2>2 DEF Pending, Connected
<1> QED
  BY <1>1, <1>2, <1>3, <1>4

\* A client that is active on a live server was so before the step, unless it has
\* just been activated; the steps that touch the wiring are AutoWire's.
LEMMA SteadyStep ==
  ASSUME Inv, [ProcessNext]_allVars, Steady'
  PROVE  \/ activate
         \/ Steady /\ (SlaveStep \/ Wire \/ Woken \/ Notify \/ UNCHANGED vars)
<1>1. CASE UNCHANGED allVars
  BY <1>1 DEF allVars, procVars, signalVars, Steady
<1>2. CASE JackdUp \/ JackdDown \/ HalUp \/ HalDown \/ SigTerm \/ Launch
  BY <1>2 DEF JackdUp, JackdDown, HalUp, HalDown, SigTerm, Launch, signalVars, Steady
<1>3. ASSUME NEW p \in Ports, EarlyPort(p) PROVE FALSE
  BY <1>3 DEF EarlyPort, Serving, Steady, procVars, signalVars, Inv, LifeInv
<1>4. CASE SlaveStep \/ Wire \/ Woken \/ Notify
  BY <1>4 DEF SlaveStep, Wire, Woken, Notify, procVars, signalVars, Steady
<1>5. CASE WireDead
  BY <1>5 DEF WireDead, procVars, signalVars, Steady
<1>6. CASE StartUp /\ ~activate
  BY <1>6 DEF StartUp, JackClient, attach_shm, check_jack_backend, register_ports, AcquireFirst,
              SetCallbacks, Continue, Leave, Exit, Steady
<1>7. CASE Killed \/ Terminate \/ DestroyJackBridge \/ DestroyJackClient
  BY <1>7 DEF Killed, Terminate, DestroyJackBridge, DestroyJackClient, Continue, Leave, Exit, Steady
<1>8. CASE on_shutdown \/ process_callback \/ AcquireAgain \/ workgroup_join_self \/ DropWorkgroup
  BY <1>8 DEF on_shutdown, process_callback, AcquireAgain, workgroup_join_self, DropWorkgroup,
              signalVars, Steady
<1> QED
  BY <1>1, <1>2, <1>3, <1>4, <1>5, <1>6, <1>7, <1>8 DEF ProcessNext

\* With one slave, any number of channels, registrations, coalesced signals and
\* restarts: a port that auto_wire has not connected is queued for notification,
\* flagged, or ahead of the wiring pass, and a flag that is set wakes main.
THEOREM NoPortIsForgotten ==
  ASSUME OneSlave
  PROVE  ProcessSpec => []NoPortForgotten
<1>1. ProcessInit => (Steady => UnwiredIsPending)
  BY DEF ProcessInit, Steady
<1>2. Inv /\ (Steady => UnwiredIsPending) /\ [ProcessNext]_allVars => (Steady => UnwiredIsPending)'
  <2> SUFFICES ASSUME Inv, Steady => UnwiredIsPending, [ProcessNext]_allVars, Steady'
               PROVE  UnwiredIsPending'
    OBVIOUS
  <2>1. CASE activate
    <3>1. ports' \subseteq Ports /\ mpc' = "list" /\ dir' = 1
      BY <2>1 DEF activate, vars, jackVars, mainVars, Inv, WireOK, LifeInv, Starting
    <3> QED
      BY <3>1, PortFacts DEF UnwiredIsPending, PassCovers
  <2>2. CASE Steady /\ SlaveStep
    BY <2>2, SlaveStepPending
  <2>3. CASE Steady /\ (Wire \/ Woken)
    BY <2>3, WirePending DEF Wire, Woken
  <2>4. CASE Steady /\ Notify
    BY <2>4, NotifyPending DEF Notify
  <2>5. CASE Steady /\ UNCHANGED vars
    BY <2>5 DEF vars, jackVars, mainVars, UnwiredIsPending, Connected, PassCovers
  <2> QED
    BY <2>1, <2>2, <2>3, <2>4, <2>5, SteadyStep
<1>3. Inv /\ (Steady => UnwiredIsPending) => NoPortForgotten
  BY DEF Inv, NoPortForgotten
<1> QED
  BY <1>1, <1>2, <1>3, ProcessInv, PTL DEF ProcessSpec
===============================================================================
