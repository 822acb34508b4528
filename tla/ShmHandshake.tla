----------------------------- MODULE ShmHandshake -----------------------------
(***************************************************************************)
(* How driver and daemon come to share memory: the driver creates the      *)
(* object under JACK_SHMPATH or takes over what an earlier process left    *)
(* there (create_shm), both map it (attach_shm) and compare protocol       *)
(* versions (check_protocol_version).  Nobody unlinks the object on exit,  *)
(* so it outlives both programs, and either may die at any step.           *)
(*                                                                         *)
(* The kernel is external.  As on macOS, ftruncate works once per object,  *)
(* on the fresh one, and mmap fails beyond the end of the object.          *)
(***************************************************************************)
EXTENDS Integers, Sequences

CONSTANTS
  Region,      \* JACK_SHMSIZE of this build, the size it maps
  Version,     \* JACKBRIDGE_PROTOCOL_VERSION of this build
  Leftovers,   \* objects that may be found: records of a size and a version
  MaxCrashes   \* bound: processes killed

Objects == [size : Nat, version : Nat]

Fresh == [size |-> 0, version |-> 0]

ASSUME BuildAssumption     == Region \in Nat \ {0} /\ Version \in Nat \ {0}
ASSUME LeftoversAssumption ==
  /\ Leftovers \subseteq Objects
  \* An object of another size comes from a build that published its version.
  /\ \A o \in Leftovers : o.size \in {0, Region} \/ o.version \notin {0, Version}
  /\ \A o \in Leftovers : o.size = 0 => o.version = 0
ASSUME BoundAssumption     == MaxCrashes \in Nat

Programs == {"driver", "daemon"}
None     == 0

VARIABLES
  object,    \* kernel: object 1 may be left over, the others are created
  name,      \* kernel: the object that JACK_SHMPATH names, or None
  pc,        \* where each program stands
  mapped,    \* the object each program has opened or mapped, or None
  crashes

vars == <<object, name, pc, mapped, crashes>>

Init ==
  /\ \/ object = <<>> /\ name = None
     \/ \E o \in Leftovers : object = <<o>> /\ name = 1
  /\ pc = [p \in Programs |-> "down"]
  /\ mapped = [p \in Programs |-> None]
  /\ crashes = 0

Goto(p, l) == pc' = [pc EXCEPT ![p] = l]

Size(p) == object[mapped[p]].size

\* shm_open with O_CREAT.
OpenOrCreate(p) ==
  IF name = None
    THEN /\ object' = Append(object, Fresh)
         /\ name' = Len(object) + 1
         /\ mapped' = [mapped EXCEPT ![p] = Len(object) + 1]
    ELSE /\ mapped' = [mapped EXCEPT ![p] = name]
         /\ UNCHANGED <<object, name>>

-----------------------------------------------------------------------------
(* SA_Device::_HW_Open and the constructor of the daemon                   *)

\* A failing constructor ends the daemon, and launchd starts it again; a
\* failing _HW_Open leaves coreaudiod without the device.
Fail(p) ==
  /\ Goto(p, IF p = "driver" THEN "failed" ELSE "down")
  /\ mapped' = [mapped EXCEPT ![p] = None]
  /\ UNCHANGED <<object, name, crashes>>

DriverStart ==
  /\ pc["driver"] = "down"
  /\ Goto("driver", "create")
  /\ UNCHANGED <<object, name, mapped, crashes>>

\* Mutant of DaemonStart: the daemon creates the object, too.
DaemonStart_Creates ==
  /\ pc["daemon"] = "down"
  /\ Goto("daemon", "create")
  /\ UNCHANGED <<object, name, mapped, crashes>>

DaemonStart ==
  /\ pc["daemon"] = "down"
  /\ Goto("daemon", "attach")
  /\ UNCHANGED <<object, name, mapped, crashes>>

-----------------------------------------------------------------------------
(* create_shm                                                              *)

create_shm(p) ==
  /\ pc[p] = "create"
  /\ OpenOrCreate(p)
  /\ Goto(p, "resize")
  /\ UNCHANGED crashes

\* Mutant of resize: an object of the right size is replaced as well.
resize_Always(p) ==
  /\ pc[p] = "resize"
  /\ name' = None /\ mapped' = [mapped EXCEPT ![p] = None]
  /\ Goto(p, "recreate")
  /\ UNCHANGED <<object, crashes>>

\* Mutant of resize: an object that cannot be resized is kept.
resize_Kept(p) ==
  /\ pc[p] = "resize"
  /\ object' = IF Size(p) = 0 THEN [object EXCEPT ![mapped[p]].size = Region] ELSE object
  /\ Goto(p, "attach")
  /\ UNCHANGED <<name, mapped, crashes>>

\* fstat and ftruncate: an object of the wrong size is resized if that is
\* possible, and otherwise closed and unlinked.  Between these calls the object
\* and its name are as before, and the other program changes neither, so they
\* are one step.  A call that fails leaves the program down, as a crash does.
resize(p) ==
  /\ pc[p] = "resize"
  /\ \/ /\ Size(p) \in {0, Region}
        /\ object' = [object EXCEPT ![mapped[p]].size = Region]
        /\ Goto(p, "attach")
        /\ UNCHANGED <<name, mapped>>
     \/ /\ Size(p) \notin {0, Region}
        /\ name' = None /\ mapped' = [mapped EXCEPT ![p] = None]
        /\ Goto(p, "recreate")
        /\ UNCHANGED object
  /\ UNCHANGED crashes

recreate(p) ==
  /\ pc[p] = "recreate"
  /\ OpenOrCreate(p)
  /\ Goto(p, "truncate")
  /\ UNCHANGED crashes

\* A failure of the second ftruncate is only logged.
truncate(p) ==
  /\ pc[p] = "truncate"
  /\ object' = IF Size(p) = 0 THEN [object EXCEPT ![mapped[p]].size = Region] ELSE object
  /\ Goto(p, "attach")
  /\ UNCHANGED <<name, mapped, crashes>>

-----------------------------------------------------------------------------
(* attach_shm                                                              *)

attach_shm(p) ==
  /\ pc[p] = "attach"
  /\ \/ name = None /\ Fail(p)
     \/ /\ name # None
        /\ mapped' = [mapped EXCEPT ![p] = name]
        /\ Goto(p, "mmap")
        /\ UNCHANGED <<object, name, crashes>>

\* A wrong size is only logged; mmap fails if the object is too small.
map_shm(p) ==
  /\ pc[p] = "mmap"
  /\ \/ Size(p) < Region /\ Fail(p)
     \/ Size(p) >= Region /\ Goto(p, "check") /\ UNCHANGED <<object, name, mapped, crashes>>

-----------------------------------------------------------------------------
(* check_protocol_version                                                  *)

Observed(p) == object[mapped[p]].version

\* Mutant of check_protocol_version: any published version will do.
check_protocol_version_Any(p) ==
  /\ pc[p] = "check"
  /\ Goto(p, IF Observed(p) = 0 THEN "publish" ELSE "up")
  /\ UNCHANGED <<object, name, mapped, crashes>>

check_protocol_version(p) ==
  /\ pc[p] = "check"
  /\ \/ Observed(p) \notin {0, Version} /\ Fail(p)
     \/ /\ Observed(p) \in {0, Version}
        /\ Goto(p, IF Observed(p) = 0 THEN "publish" ELSE "up")
        /\ UNCHANGED <<object, name, mapped, crashes>>

\* The store, some time after the load.
publish_version(p) ==
  /\ pc[p] = "publish"
  /\ object' = [object EXCEPT ![mapped[p]].version = Version]
  /\ Goto(p, "up")
  /\ UNCHANGED <<name, mapped, crashes>>

-----------------------------------------------------------------------------

\* A program dies at any point; what it mapped or created stays.
Crash(p) ==
  /\ pc[p] # "down" /\ crashes < MaxCrashes
  /\ crashes' = crashes + 1
  /\ Goto(p, "down")
  /\ mapped' = [mapped EXCEPT ![p] = None]
  /\ UNCHANGED <<object, name>>

Step(p) ==
  \/ create_shm(p) \/ resize(p) \/ recreate(p) \/ truncate(p)
  \/ attach_shm(p) \/ map_shm(p)
  \/ check_protocol_version(p) \/ publish_version(p)

Next == DriverStart \/ DaemonStart \/ (\E p \in Programs : Step(p) \/ Crash(p))

\* launchd keeps coreaudiod and the daemon alive; both are scheduled.
Fairness ==
  /\ WF_vars(DriverStart) /\ WF_vars(DaemonStart)
  /\ \A p \in Programs : WF_vars(Step(p))

Spec     == Init /\ [][Next]_vars
FairSpec == Spec /\ Fairness

-----------------------------------------------------------------------------
(* Properties.                                                             *)

DaemonPlaces == {"down", "attach", "mmap", "check", "publish", "up"}
DriverPlaces == DaemonPlaces \cup {"create", "resize", "recreate", "truncate", "failed"}

\* Every variable stays in its type; the daemon never creates the object, which
\* the HAL owns (JackBridge.cpp:787).
TypeOK ==
  /\ object \in Seq(Objects)
  /\ name \in 0 .. Len(object)
  /\ pc["driver"] \in DriverPlaces /\ pc["daemon"] \in DaemonPlaces
  /\ \A p \in Programs : mapped[p] \in 0 .. Len(object)
  /\ crashes \in 0 .. MaxCrashes

\* No program goes on with memory of another layout: what it has mapped is
\* large enough and carries its version, whatever it found, whoever published
\* first and wherever the other one died.
LayoutAgreed ==
  \A p \in Programs :
    pc[p] = "up" => Size(p) >= Region /\ Observed(p) = Version

\* Two programs that are up talk to each other: neither sits on an object that
\* was unlinked while it attached.
SameMemory ==
  (\A p \in Programs : pc[p] = "up") => mapped["driver"] = mapped["daemon"]

\* From every leftover except one of the same size and another version, which
\* both refuse, the two end up attached, whatever died on the way.
EventuallyShared ==
  (object = <<>> \/ object[1].size # Region \/ object[1].version \in {0, Version})
    => <>[](\A p \in Programs : pc[p] = "up")
===============================================================================
