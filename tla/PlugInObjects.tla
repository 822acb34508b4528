---------------------------- MODULE PlugInObjects ----------------------------
(***************************************************************************)
(* The life of the plug-in's objects.  SA_ObjectMap maps object IDs to     *)
(* reference counted objects; every entry point of the plug-in copies a    *)
(* reference for the length of the call.  SA_PlugIn creates the device     *)
(* when the plug-in is loaded, publishes it in its device list, and can    *)
(* remove it again through blocks on a serial dispatch queue; an object    *)
(* that is fully released is deleted on that queue too.                    *)
(*                                                                         *)
(* A thread holds the rest of the instructions of the call it is in: taking *)
(* and leaving a mutex (CAMutex), and between them one instruction per     *)
(* access to shared state, so that nothing but the mutexes protects it.    *)
(* External: coreaudiod, whose threads call in once SA_Create has returned, *)
(* and libdispatch.  SA_PlugIn::Deactivate is offered to it as the class   *)
(* offers it; this build's entry points do not call it.                    *)
(*                                                                         *)
(* One device with one stream ID stands for the device and its streams:    *)
(* _CreateDevices is called for one, and the streams are mapped and        *)
(* unmapped alike.  IDs are distinct because a counter under the map's     *)
(* mutex deals them out.                                                   *)
(***************************************************************************)
EXTENDS CAMutex, Sequences

CONSTANTS
  HalThreads,   \* coreaudiod's threads; one of them loads the plug-in
  Queue,        \* the thread of the global serial queue
  MaxCalls      \* bound: calls made once the plug-in is loaded

PlugInID == "plug-in ID"
DeviceID == "device ID"
StreamID == "stream ID"
IDs      == {PlugInID, DeviceID, StreamID}
Objects  == {"plug-in", "device"}
Nil      == "nil"       \* a NULL pointer, the end of the list, and ID 0

PlugInMutex == "plug-in"
StateMutex  == "state"
IOMutex     == "io"
MapMutex    == "map"

ASSUME ObjectsAssumption ==
  /\ Mutexes = {PlugInMutex, StateMutex, IOMutex, MapMutex}
  /\ Threads = HalThreads \cup {Queue} /\ Queue \notin HalThreads
  /\ MaxCalls \in Nat

VARIABLES
  code,     \* of each thread, the instructions ahead
  ptr,      \* of each thread, the object it works on
  iter,     \* of each thread, what std::find found in the object list
  ids,      \* mObjectInfoList: the IDs of each object; none if it is not listed
  refs,     \* mObjectInfoList: reference counts
  mem,      \* "none" before an object is constructed, "alive" or "deleted"
  mIsActive,
  list,     \* mDeviceInfoList
  queue,    \* blocks on the serial queue
  loaded,   \* SA_Create has returned
  calls     \* calls so far

mapVars == <<ids, refs>>
objVars == <<code, ptr, iter, mapVars, mem, mIsActive, list, queue, loaded, calls>>
vars    == <<lockVars, objVars>>

-----------------------------------------------------------------------------
(* The code, as sequences of instructions <<operation, argument>>.         *)

Scope(m, body) == <<<<"lock", m>>>> \o body \o <<<<"unlock", m>>>>

MapObject(id)     == Scope(MapMutex, <<<<"find ID", id>>, <<"map", id>>>>)
UnmapObject(id)   == Scope(MapMutex, <<<<"find ID", id>>, <<"unmap", id>>>>)
CopyObject(id)    == Scope(MapMutex, <<<<"find ID", id>>, <<"copy", id>>>>)
ReleaseObject     == Scope(MapMutex, <<<<"find object", Nil>>, <<"release", Nil>>>>)

AddDevice    == Scope(PlugInMutex, <<<<"add", DeviceID>>>>)
RemoveDevice == Scope(PlugInMutex, <<<<"remove", DeviceID>>>>)

Return == <<<<"loaded", Nil>>>>

\* Mutant of CreateFailed: the device is released before it is unpublished.
CreateFailed_ReleaseFirst == ReleaseObject \o RemoveDevice \o Return

\* The handler for an exception out of the device's Activate.
CreateFailed == RemoveDevice \o ReleaseObject \o Return

\* SA_Device::Activate opens the shared memory, which may throw, and maps the streams.
DeviceActivate == <<<<"open", Nil>>>> \o MapObject(StreamID) \o <<<<"activate", Nil>>>>

\* Mutant of DeviceDeactivate: the two mutexes in the other order.
DeviceDeactivate_IOFirst ==
  Scope(IOMutex, Scope(StateMutex, <<<<"deactivate", Nil>>>> \o UnmapObject(StreamID)))

DeviceDeactivate ==
  Scope(StateMutex, Scope(IOMutex, <<<<"deactivate", Nil>>>> \o UnmapObject(StreamID)))

CreateDevices ==
  <<<<"new", "device">>>> \o MapObject(DeviceID) \o AddDevice \o DeviceActivate

StaticInitializer ==
  <<<<"new", "plug-in">>>> \o MapObject(PlugInID) \o CreateDevices \o Return

\* An entry point: an SA_ObjectReleaser keeps the object for the call.
EntryPoint(id, body) == CopyObject(id) \o <<<<"check", id>>>> \o body \o ReleaseObject

\* Property queries and StartIO/StopIO work under the device's state mutex; the
\* operations of an IO cycle take none.
StateCall(id) == EntryPoint(id, Scope(StateMutex, <<<<"use", Nil>>>>))
IOCall        == EntryPoint(DeviceID, <<<<"use", Nil>>>>)
DeviceList    == EntryPoint(PlugInID, Scope(PlugInMutex, <<<<"use", Nil>>>>))
Deactivate    == Scope(PlugInMutex, <<<<"remove all", Nil>>>>)

\* Mutant of RemoveBlock: the list's reference is not released.
RemoveBlock_Leaks == EntryPoint(DeviceID, DeviceDeactivate)

\* The block that _RemoveAllDevices dispatches, and the one that destroys.
RemoveBlock  == EntryPoint(DeviceID, DeviceDeactivate \o ReleaseObject)
DestroyBlock == <<<<"delete", Nil>>>>

ObjectInit ==
  /\ LockInit
  /\ \E t \in HalThreads : code = [u \in Threads |-> IF u = t THEN StaticInitializer ELSE <<>>]
  /\ ptr = [t \in Threads |-> Nil] /\ iter = [t \in Threads |-> Nil]
  /\ ids = [o \in Objects |-> {}] /\ refs = [o \in Objects |-> 0]
  /\ mem = [o \in Objects |-> "none"] /\ mIsActive = FALSE
  /\ list = <<>> /\ queue = <<>> /\ loaded = FALSE /\ calls = 0

-----------------------------------------------------------------------------
(* The instructions.                                                       *)

At(t, op)  == at[t] = "out" /\ code[t] # <<>> /\ Head(code[t])[1] = op
Arg(t)     == Head(code[t])[2]
Advance(t) == code' = [code EXCEPT ![t] = Tail(@)]

\* A thread constructs or destroys a Locker, or is in the midst of that.
Mutex(t) ==
  /\ \/ \E m \in Mutexes : At(t, "lock") /\ m = Arg(t) /\ Lock(t, m) /\ Advance(t)
     \/ \E m \in Mutexes : At(t, "unlock") /\ m = Arg(t) /\ Unlock(t, m) /\ Advance(t)
     \/ LockStep(t) /\ UNCHANGED code
  /\ UNCHANGED <<ptr, iter, mapVars, mem, mIsActive, list, queue, loaded, calls>>

\* std::find by ID or by pointer.
Find(t) ==
  /\ \/ /\ At(t, "find ID")
        /\ iter' = [iter EXCEPT ![t] = IF \E o \in Objects : Arg(t) \in ids[o]
                                         THEN CHOOSE o \in Objects : Arg(t) \in ids[o] ELSE Nil]
     \/ /\ At(t, "find object")
        /\ iter' = [iter EXCEPT ![t] = IF \E o \in Objects : o = ptr[t] /\ ids[o] # {}
                                         THEN ptr[t] ELSE Nil]
  /\ Advance(t)
  /\ UNCHANGED <<lockVars, ptr, mapVars, mem, mIsActive, list, queue, loaded, calls>>

\* Mutant of Map: a new entry starts without a reference.
Map_NoReference(t) ==
  /\ At(t, "map")
  /\ IF iter[t] = Nil THEN ids' = [ids EXCEPT ![ptr[t]] = @ \cup {Arg(t)}] ELSE UNCHANGED ids
  /\ Advance(t) /\ iter' = [iter EXCEPT ![t] = Nil]
  /\ UNCHANGED <<lockVars, ptr, refs, mem, mIsActive, list, queue, loaded, calls>>

\* An ID that is not taken is added to the object's entry, or to a new one.
Map(t) ==
  /\ At(t, "map")
  /\ IF iter[t] = Nil
       THEN /\ ids' = [ids EXCEPT ![ptr[t]] = @ \cup {Arg(t)}]
            /\ refs' = IF ids[ptr[t]] = {} THEN [refs EXCEPT ![ptr[t]] = 1] ELSE refs
       ELSE UNCHANGED mapVars
  /\ Advance(t) /\ iter' = [iter EXCEPT ![t] = Nil]
  /\ UNCHANGED <<lockVars, ptr, mem, mIsActive, list, queue, loaded, calls>>

Block(body, o) == [code |-> body, ptr |-> o]

\* Mutant of Erase: the entry stays in the map.
Erase_Kept(o) == UNCHANGED ids /\ queue' = Append(queue, Block(DestroyBlock, o))

\* The object's entry is erased and its destruction dispatched.
Erase(o) ==
  /\ ids' = [ids EXCEPT ![o] = {}]
  /\ queue' = Append(queue, Block(DestroyBlock, o))

\* An object loses an ID, and with the last one goes whatever its count is.
Unmap(t) ==
  /\ At(t, "unmap")
  /\ IF iter[t] # Nil /\ iter[t] = ptr[t]
       THEN IF ids[iter[t]] = {Arg(t)}
              THEN Erase(iter[t])
              ELSE ids' = [ids EXCEPT ![iter[t]] = @ \ {Arg(t)}] /\ UNCHANGED queue
       ELSE UNCHANGED <<ids, queue>>
  /\ Advance(t) /\ iter' = [iter EXCEPT ![t] = Nil]
  /\ UNCHANGED <<lockVars, ptr, refs, mem, mIsActive, list, loaded, calls>>

\* Mutant of Copy: the reference is not counted.
Copy_NotCounted(t) ==
  /\ At(t, "copy")
  /\ ptr' = [ptr EXCEPT ![t] = iter[t]]
  /\ Advance(t) /\ iter' = [iter EXCEPT ![t] = Nil]
  /\ UNCHANGED <<lockVars, mapVars, mem, mIsActive, list, queue, loaded, calls>>

Copy(t) ==
  /\ At(t, "copy")
  /\ ptr' = [ptr EXCEPT ![t] = iter[t]]
  /\ refs' = IF iter[t] # Nil THEN [refs EXCEPT ![iter[t]] = @ + 1] ELSE refs
  /\ Advance(t) /\ iter' = [iter EXCEPT ![t] = Nil]
  /\ UNCHANGED <<lockVars, ids, mem, mIsActive, list, queue, loaded, calls>>

\* An object that is fully released goes.
Release(t) ==
  /\ At(t, "release")
  /\ IF iter[t] # Nil /\ refs[iter[t]] > 0
       THEN /\ refs' = [refs EXCEPT ![iter[t]] = @ - 1]
            /\ IF refs[iter[t]] = 1 THEN Erase(iter[t]) ELSE UNCHANGED <<ids, queue>>
       ELSE UNCHANGED <<mapVars, queue>>
  /\ Advance(t) /\ iter' = [iter EXCEPT ![t] = Nil]
  /\ UNCHANGED <<lockVars, ptr, mem, mIsActive, list, loaded, calls>>

-----------------------------------------------------------------------------
\* An object is constructed, or deleted by its destroy block.
New(t) ==
  /\ At(t, "new")
  /\ mem' = [mem EXCEPT ![Arg(t)] = "alive"] /\ ptr' = [ptr EXCEPT ![t] = Arg(t)]
  /\ Advance(t)
  /\ UNCHANGED <<lockVars, iter, mapVars, mIsActive, list, queue, loaded, calls>>

DestroyObject(t) ==
  /\ At(t, "delete")
  /\ mem' = [mem EXCEPT ![ptr[t]] = "deleted"]
  /\ Advance(t)
  /\ UNCHANGED <<lockVars, ptr, iter, mapVars, mIsActive, list, queue, loaded, calls>>

\* _HW_Open throws when the shared memory cannot be had.
HW_Open(t) ==
  /\ At(t, "open")
  /\ Advance(t) \/ code' = [code EXCEPT ![t] = CreateFailed]
  /\ UNCHANGED <<lockVars, ptr, iter, mapVars, mem, mIsActive, list, queue, loaded, calls>>

\* SA_Object::Activate and Deactivate, of the device.
SetActive(t) ==
  /\ \/ At(t, "activate") /\ mIsActive' = TRUE
     \/ At(t, "deactivate") /\ mIsActive' = FALSE
  /\ Advance(t)
  /\ UNCHANGED <<lockVars, ptr, iter, mapVars, mem, list, queue, loaded, calls>>

\* _RemoveDevice erases the first entry that has the ID, if there is one.
Without(s, id) ==
  LET found == {i \in DOMAIN s : s[i] = id /\ \A j \in 1 .. i - 1 : s[j] # id}
  IN IF found = {} THEN s
     ELSE LET i == CHOOSE i \in found : TRUE
          IN SubSeq(s, 1, i - 1) \o SubSeq(s, i + 1, Len(s))

\* The device list: _AddDevice, _RemoveDevice, and _RemoveAllDevices, which leaves
\* the entries in place with ID 0 and dispatches a block for each.
EditList(t) ==
  /\ \/ At(t, "add") /\ list' = Append(list, Arg(t)) /\ UNCHANGED queue
     \/ At(t, "remove") /\ list' = Without(list, Arg(t)) /\ UNCHANGED queue
     \/ /\ At(t, "remove all")
        /\ list' = [i \in DOMAIN list |-> Nil]
        /\ queue' = queue \o [i \in DOMAIN list |->
                                Block(IF list[i] = DeviceID THEN RemoveBlock ELSE <<>>, Nil)]
  /\ Advance(t)
  /\ UNCHANGED <<lockVars, ptr, iter, mapVars, mem, mIsActive, loaded, calls>>

\* An ID that does not resolve ends the call; else the object does the work.
Work(t) ==
  /\ \/ At(t, "check") /\ code' = [code EXCEPT ![t] = IF ptr[t] = Nil THEN <<>> ELSE Tail(@)]
     \/ At(t, "use") /\ Advance(t)
  /\ UNCHANGED <<lockVars, ptr, iter, mapVars, mem, mIsActive, list, queue, loaded, calls>>

Loaded(t) ==
  /\ At(t, "loaded")
  /\ loaded' = TRUE /\ ptr' = [ptr EXCEPT ![t] = Nil]
  /\ Advance(t)
  /\ UNCHANGED <<lockVars, iter, mapVars, mem, mIsActive, list, queue, calls>>

Step(t) ==
  \/ Mutex(t) \/ Find(t) \/ Map(t) \/ Unmap(t) \/ Copy(t) \/ Release(t)
  \/ New(t) \/ DestroyObject(t) \/ HW_Open(t) \/ SetActive(t) \/ EditList(t)
  \/ Work(t) \/ Loaded(t)

Free(t) == at[t] = "out" /\ code[t] = <<>>

\* coreaudiod calls in on a thread of its own.
Call(t) ==
  /\ loaded /\ Free(t) /\ calls < MaxCalls
  /\ calls' = calls + 1 /\ ptr' = [ptr EXCEPT ![t] = Nil]
  /\ \E c \in {StateCall(DeviceID), StateCall(StreamID), IOCall, DeviceList, Deactivate} :
       code' = [code EXCEPT ![t] = c]
  /\ UNCHANGED <<lockVars, iter, mapVars, mem, mIsActive, list, queue, loaded>>

\* The serial queue runs its blocks one after another.
RunBlock ==
  /\ Free(Queue) /\ queue # <<>>
  /\ code' = [code EXCEPT ![Queue] = Head(queue).code]
  /\ ptr' = [ptr EXCEPT ![Queue] = Head(queue).ptr]
  /\ queue' = Tail(queue)
  /\ UNCHANGED <<lockVars, iter, mapVars, mem, mIsActive, list, loaded, calls>>

ObjectNext ==
  \/ \E t \in Threads : Step(t)
  \/ \E t \in HalThreads : Call(t)
  \/ RunBlock

\* Every thread that can go on does, and the queue runs what it is given.
\* Nothing makes coreaudiod call.
ObjectFairness == (\A t \in Threads : WF_vars(Step(t))) /\ WF_vars(RunBlock)

ObjectSpec     == ObjectInit /\ [][ObjectNext]_vars
ObjectFairSpec == ObjectSpec /\ ObjectFairness

-----------------------------------------------------------------------------
(* Properties.                                                             *)

\* Every variable stays in its type, and an object in the map has references.
ObjectTypeOK ==
  /\ LockTypeOK
  /\ ptr \in [Threads -> Objects \cup {Nil}] /\ iter \in [Threads -> Objects \cup {Nil}]
  /\ ids \in [Objects -> SUBSET IDs] /\ refs \in [Objects -> Nat]
  /\ \A o \in Objects : ids[o] # {} => refs[o] > 0
  /\ mem \in [Objects -> {"none", "alive", "deleted"}]
  /\ mIsActive \in BOOLEAN /\ loaded \in BOOLEAN /\ calls \in 0 .. MaxCalls
  /\ list \in Seq({DeviceID, Nil})

\* The thread is about to read or write a member of the object it works on, its
\* mutexes included, or is in the midst of locking one of them.
Touches(t) ==
  \/ at[t] # "out" /\ wants[t] \in {StateMutex, IOMutex}
  \/ \E op \in {"use", "open", "activate", "deactivate", "add", "remove", "delete"} : At(t, op)
  \/ (At(t, "lock") \/ At(t, "unlock")) /\ Arg(t) \in {StateMutex, IOMutex}

\* SA_Object.h:133, "a thread retain and hold a reference while it is using an
\* SA_Object": no thread uses a deleted object, and none deletes one twice,
\* however calls cross the removal of the device.  An entry that a search
\* found is still there when it is used.
NoUseAfterFree ==
  \A t \in Threads :
    /\ Touches(t) => ptr[t] # Nil /\ mem[ptr[t]] = "alive"
    /\ iter[t] # Nil => ids[iter[t]] # {}

Published == {list[i] : i \in DOMAIN list}

\* A device ID that the plug-in publishes resolves to a live object, and so do
\* the stream IDs of an active device, also while one is being created,
\* fails to be created, or is removed.
PublishedResolve ==
  /\ DeviceID \in Published => DeviceID \in ids["device"] /\ mem["device"] = "alive"
  /\ mIsActive => StreamID \in ids["device"]

Rank(m) == CHOOSE i \in 1 .. 4 : <<PlugInMutex, StateMutex, IOMutex, MapMutex>>[i] = m

\* A thread waits for a mutex only while all it holds come before that one:
\* SA_Device::Deactivate, the map and the plug-in cannot wait for each other.
LockOrder ==
  \A t \in Threads : at[t] = "lock" =>
    \A m \in Mutexes : lockers[t][m] > 0 => Rank(m) < Rank(wants[t])

\* The block that deletes the object is on the queue, or about to delete it.
Dispatched(o) == \E i \in DOMAIN queue : queue[i] = Block(DestroyBlock, o)
Begun(o)      == code[Queue] # <<>> /\ Head(code[Queue])[1] = "delete" /\ ptr[Queue] = o

Life == [o \in Objects |-> IF mem[o] # "alive" THEN mem[o]
                          ELSE IF ids[o] # {} THEN "mapped"
                          ELSE IF Dispatched(o) \/ Begun(o) THEN "doomed" ELSE "made"]

Lives == INSTANCE ObjectLife WITH life <- Life

\* No object comes back: one that has lost its last reference or its last ID is
\* never mapped again, is deleted at most once and only after that, and none is
\* constructed twice, whatever calls cross a creation, its failure or a removal.
ImplementsLife == Lives!Spec

\* Every call into the plug-in returns and every block ends: no mutex is left
\* locked and no two threads wait for each other.
EveryCallReturns == \A t \in Threads : (code[t] # <<>>) ~> Free(t)

\* A device that is no longer published, because it was removed or could not be
\* created, is deleted in the end: no reference is lost on any path.
RemovedIsDestroyed == (loaded /\ DeviceID \notin Published) ~> (mem["device"] = "deleted")
=============================================================================
