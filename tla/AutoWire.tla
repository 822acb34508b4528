------------------------------- MODULE AutoWire ------------------------------
(***************************************************************************)
(* The daemon connects the ports of netmanager's slaves to its own.  JACK  *)
(* forbids jack_connect in its notification thread, so the registration    *)
(* callback only sets g_wire_dirty and signals SIGUSR1 to the main thread, *)
(* which sits in sigwait and runs auto_wire.  Slaves come and go at any    *)
(* point of that.                                                          *)
(*                                                                         *)
(* jackd is external: it keeps the ports and connections, drops the        *)
(* connections of a port that goes away, and queues one notification per   *)
(* registration.  jack_get_ports lists ports in no order to rely on.       *)
(* DaemonProcess composes these actions with the rest of the process.      *)
(***************************************************************************)
EXTENDS Integers, Sequences

CONSTANTS
  Slaves,    \* netmanager's names for slaves, pistomp, pistomp-01, ...
  Channels,  \* channel numbers wired in each direction
  MaxRegs    \* bound: port registrations explored

ASSUME MaxRegsAssumption == MaxRegs \in Nat

Roles  == <<"from_slave", "to_slave">>       \* in the order auto_wire takes them
Locals == {"from_slave", "to_slave"} \X Channels
Ports  == Slaves \X Locals                   \* slave:role_channel

LocalOf(p) == p[2]
RoleOf(l)  == l[1]

VARIABLES
  ports,         \* jackd: registered slave ports
  conns,         \* jackd: slave ports connected to the local port they match
  events,        \* jackd: registrations not yet notified
  g_wire_dirty,
  usr1,          \* SIGUSR1 is pending for the main thread
  npc,           \* notification thread: "idle" or "signal"
  mpc,           \* main: "sigwait", "woken" by SIGUSR1, "list" (jack_get_ports)
                 \* or "connect"
  dir,           \* direction of the wiring pass, an index of Roles
  listed,        \* what jack_get_ports returned
  todo,          \* local ports of this direction still to be wired
  regs           \* registrations so far

jackVars == <<ports, conns, events, regs>>
mainVars == <<mpc, dir, listed, todo>>
vars     == <<jackVars, g_wire_dirty, usr1, npc, mainVars>>

-----------------------------------------------------------------------------
(* jackd and the slaves                                                    *)

RegisterPort(p) ==
  /\ p \notin ports /\ regs < MaxRegs
  /\ ports' = ports \cup {p}
  /\ events' = Append(events, p)
  /\ regs' = regs + 1
  /\ UNCHANGED <<conns, g_wire_dirty, usr1, npc, mainVars>>

\* A slave leaves with all its ports and their connections.
SlaveGone(s) ==
  /\ \E p \in ports : p[1] = s
  /\ ports' = {p \in ports : p[1] # s}
  /\ conns' = {p \in conns : p[1] # s}
  /\ UNCHANGED <<events, regs, g_wire_dirty, usr1, npc, mainVars>>

-----------------------------------------------------------------------------
(* The notification thread: _port_registration_callback                    *)

\* Mutant of NotifyDirty: the signal is left out.
NotifyDirty_NoSignal ==
  /\ npc = "idle" /\ events # <<>>
  /\ events' = Tail(events)
  /\ g_wire_dirty' = (g_wire_dirty \/ Head(events) \in ports)
  /\ UNCHANGED <<ports, conns, regs, usr1, npc, mainVars>>

\* Only appearances matter, and only if the port can still be looked up.
NotifyDirty ==
  /\ npc = "idle" /\ events # <<>>
  /\ events' = Tail(events)
  /\ IF Head(events) \in ports
       THEN g_wire_dirty' = TRUE /\ npc' = "signal"
       ELSE UNCHANGED <<g_wire_dirty, npc>>
  /\ UNCHANGED <<ports, conns, regs, usr1, mainVars>>

NotifySignal ==
  /\ npc = "signal"
  /\ npc' = "idle"
  /\ usr1' = TRUE
  /\ UNCHANGED <<jackVars, g_wire_dirty, mainVars>>

-----------------------------------------------------------------------------
(* The main thread                                                         *)

\* sigwait takes the pending signal ...
SigWait ==
  /\ mpc = "sigwait" /\ usr1
  /\ mpc' = "woken"
  /\ usr1' = FALSE
  /\ UNCHANGED <<jackVars, g_wire_dirty, npc, dir, listed, todo>>

\* ... and then the flag is exchanged with false, before the pass it asks for.
ExchangeDirty ==
  /\ mpc = "woken"
  /\ g_wire_dirty' = FALSE
  /\ IF g_wire_dirty THEN mpc' = "list" /\ dir' = 1
                     ELSE mpc' = "sigwait" /\ UNCHANGED dir
  /\ UNCHANGED <<jackVars, usr1, npc, listed, todo>>

\* wire_direction lists the ports of its direction once.
GetPorts ==
  /\ mpc = "list"
  /\ listed' = {p \in ports : RoleOf(LocalOf(p)) = Roles[dir]}
  /\ todo' = {l \in Locals : RoleOf(l) = Roles[dir]}
  /\ mpc' = "connect"
  /\ UNCHANGED <<jackVars, g_wire_dirty, usr1, npc, dir>>

\* One local port: connect it to the first listed match.  A pair that is
\* connected already is fine; a port that has gone since is only logged.
Connect(l) ==
  /\ mpc = "connect" /\ l \in todo
  /\ todo' = todo \ {l}
  /\ LET matches == {p \in listed : LocalOf(p) = l}
     IN IF matches = {}
          THEN UNCHANGED conns
          ELSE \E p \in matches : conns' = IF p \in ports THEN conns \cup {p} ELSE conns
  /\ UNCHANGED <<ports, events, regs, g_wire_dirty, usr1, npc, mpc, dir, listed>>

\* Mutant of Wired: the flag is cleared at the end of a pass.
Wired_ClearsFlag ==
  /\ mpc = "connect" /\ todo = {}
  /\ IF dir < Len(Roles) THEN mpc' = "list" /\ dir' = dir + 1
                         ELSE mpc' = "sigwait" /\ UNCHANGED dir
  /\ listed' = {}
  /\ g_wire_dirty' = FALSE
  /\ UNCHANGED <<jackVars, usr1, npc, todo>>

\* The direction is done: the next one, or back to sigwait.
Wired ==
  /\ mpc = "connect" /\ todo = {}
  /\ IF dir < Len(Roles) THEN mpc' = "list" /\ dir' = dir + 1
                         ELSE mpc' = "sigwait" /\ UNCHANGED dir
  /\ listed' = {}
  /\ UNCHANGED <<jackVars, g_wire_dirty, usr1, npc, todo>>

-----------------------------------------------------------------------------
(* Properties.                                                             *)

Connected(l) == \E p \in conns : LocalOf(p) = l

\* Every variable stays in its type, and connected ports exist.
TypeOK ==
  /\ ports \subseteq Ports /\ conns \subseteq ports
  /\ events \in Seq(Ports)
  /\ g_wire_dirty \in BOOLEAN /\ usr1 \in BOOLEAN
  /\ npc \in {"idle", "signal"} /\ mpc \in {"sigwait", "woken", "list", "connect"}
  /\ dir \in 1 .. 2 /\ listed \subseteq Ports /\ todo \subseteq Locals
  /\ regs \in Nat

\* A request to wire is never forgotten: whenever the flag is set, SIGUSR1 is
\* pending or about to be sent, or main is about to take the flag, however signals
\* coalesce.
DirtyWakesMain == g_wire_dirty => usr1 \/ npc = "signal" \/ mpc = "woken"

\* The pass under way still lists or connects the local port of p.
PassCovers(p) ==
  LET l == LocalOf(p)
  IN \/ mpc = "list" /\ RoleOf(l) = Roles[dir]
     \/ mpc \in {"list", "connect"} /\ dir = 1 /\ RoleOf(l) = Roles[2]
     \/ mpc = "connect" /\ l \in todo /\ p \in listed

\* Every slave port whose local port is unconnected is still on its way to be
\* wired: its notification is queued, or the main thread will be woken, or the
\* pass under way will reach it.  Nothing falls between snapshot and flag.
UnwiredIsPending ==
  \A p \in ports :
    \/ Connected(LocalOf(p))
    \/ \E i \in 1 .. Len(events) : events[i] = p
    \/ g_wire_dirty
    \/ PassCovers(p)
=============================================================================
