--------------------------- MODULE DeviceProperties ---------------------------
(***************************************************************************)
(* The property surface of the HAL plug-in.  Five hand-written switch      *)
(* statements per object (has, settable, size, get, set) in SA_Device.cpp, *)
(* SA_PlugIn.cpp and SA_Object.cpp have to agree with one another, and the *)
(* properties a client can change (sample rate, stream formats, stream     *)
(* activity) are read back while changes are queued: a rate change goes    *)
(* through the global serial dispatch queue to the HAL, which performs or  *)
(* aborts it once IO is stopped.                                           *)
(*                                                                         *)
(* Values that nothing here depends on (names, UIDs, layout, and whether   *)
(* the device is alive, which Lifecycle models) are the one value Fixed.   *)
(***************************************************************************)
EXTENDS Integers, Sequences

CONSTANTS
  NumInputStreams,   \* NUM_INPUT_STREAMS
  NumOutputStreams,  \* NUM_OUTPUT_STREAMS
  MaxRequests,       \* bound: configuration changes on their way
  MaxStart           \* bound on mStartCount

ASSUME StreamsAssumption == NumInputStreams \in Nat \ {0} /\ NumOutputStreams \in Nat \ {0}
ASSUME BoundsAssumption  == MaxRequests \in Nat \ {0} /\ MaxStart \in Nat \ {0}

PlugIn  == <<"plugin", 0>>
Device  == <<"device", 0>>
Inputs  == {<<"in", i>> : i \in 0 .. NumInputStreams - 1}
Outputs == {<<"out", i>> : i \in 0 .. NumOutputStreams - 1}
Streams == Inputs \cup Outputs
Objects == {PlugIn, Device} \cup Streams

IsInputStreamID(o) == o[1] = "in"
getStreamID(o)     == o[2]

Rates == {44100, 48000}
Fixed == "fixed"
Error == -1      \* an exception, kAudioHardwareUnknownPropertyError or bad size

-----------------------------------------------------------------------------
(* Property addresses.                                                     *)

ObjectProps == {"BaseClass", "Class", "Owner", "OwnedObjects"}

PlugInProps == {"Manufacturer", "DeviceList", "TranslateUIDToDevice", "ResourceBundle"}

DeviceProps ==
  {"Name", "Manufacturer", "DeviceUID", "ModelUID", "TransportType", "RelatedDevices",
   "ClockDomain", "DeviceIsAlive", "DeviceIsRunning", "ControlList", "NominalSampleRate",
   "AvailableNominalSampleRates", "IsHidden", "ZeroTimeStampPeriod", "Streams"}

DeviceScopedProps ==
  {"Latency", "SafetyOffset", "PreferredChannelsForStereo", "PreferredChannelLayout",
   "DeviceCanBeDefaultDevice", "DeviceCanBeDefaultSystemDevice"}

FormatProps          == {"VirtualFormat", "PhysicalFormat"}
AvailableFormatProps == {"AvailableVirtualFormats", "AvailablePhysicalFormats"}

StreamProps ==
  {"IsActive", "Direction", "TerminalType", "StartingChannel", "StreamLatency", "ElementName"}
    \cup FormatProps \cup AvailableFormatProps

Scopes    == {"global", "input", "output"}
Elements  == 0 .. 5      \* main, and channels 1-4 with one beyond
Selectors == ObjectProps \cup PlugInProps \cup DeviceProps \cup DeviceScopedProps \cup StreamProps

\* Only element names look at the element.
Addresses ==
  {a \in [sel : Selectors, scope : Scopes, elem : Elements] :
     a.sel # "ElementName" => a.elem = 0}

-----------------------------------------------------------------------------
(* HasProperty                                                             *)

Object_HasProperty(a) == a.sel \in ObjectProps

PlugIn_HasProperty(a) == a.sel \in PlugInProps \/ Object_HasProperty(a)

Device_HasProperty(a) ==
  \/ a.sel \in DeviceProps
  \/ a.sel \in DeviceScopedProps /\ a.scope \in {"input", "output"}
  \/ /\ a.sel = "ElementName"
     /\ \/ a.scope = "input" /\ a.elem \in 1 .. 4
        \/ a.scope = "output" /\ a.elem \in 1 .. 2
  \/ Object_HasProperty(a)

Stream_HasProperty(a) == a.sel \in StreamProps \/ Object_HasProperty(a)

HasProperty(o, a) ==
  CASE o = PlugIn    -> PlugIn_HasProperty(a)
    [] o = Device    -> Device_HasProperty(a)
    [] o \in Streams -> Stream_HasProperty(a)

-----------------------------------------------------------------------------
(* IsPropertySettable: "yes", "no" or "throws"                             *)

Object_IsPropertySettable(a) == IF a.sel \in ObjectProps THEN "no" ELSE "throws"

PlugIn_IsPropertySettable(a) ==
  IF a.sel \in PlugInProps THEN "no" ELSE Object_IsPropertySettable(a)

Device_IsPropertySettable(a) ==
  CASE a.sel = "NominalSampleRate"                 -> "yes"
    [] a.sel \in (DeviceProps \cup DeviceScopedProps) \ {"NominalSampleRate"} -> "no"
    [] OTHER                                       -> Object_IsPropertySettable(a)

Stream_IsPropertySettable(a) ==
  CASE a.sel \in {"IsActive"} \cup FormatProps -> "yes"
    [] a.sel \in {"Direction", "TerminalType", "StartingChannel", "StreamLatency"}
                   \cup AvailableFormatProps   -> "no"
    [] OTHER                                   -> Object_IsPropertySettable(a)

IsPropertySettable(o, a) ==
  CASE o = PlugIn    -> PlugIn_IsPropertySettable(a)
    [] o = Device    -> Device_IsPropertySettable(a)
    [] o \in Streams -> Stream_IsPropertySettable(a)

-----------------------------------------------------------------------------
(* GetPropertyDataSize, in bytes                                           *)

ID        == 4     \* AudioObjectID, AudioClassID, UInt32
Ref       == 8     \* CFStringRef
F64       == 8     \* Float64
Range     == 16    \* AudioValueRange
Layout    == 52    \* AudioChannelLayout with two descriptions
Format    == 40    \* AudioStreamBasicDescription
RangedFmt == 56    \* AudioStreamRangedDescription

\* The streams of a scope, in the order in which they are listed.
StreamList(scope) ==
  LET ins  == [i \in 1 .. NumInputStreams |-> <<"in", i - 1>>]
      outs == [i \in 1 .. NumOutputStreams |-> <<"out", i - 1>>]
  IN CASE scope = "global" -> ins \o outs [] scope = "input" -> ins [] scope = "output" -> outs

Object_GetPropertyDataSize(a) ==
  CASE a.sel \in {"BaseClass", "Class", "Owner"} -> ID
    [] a.sel = "OwnedObjects"                    -> 0
    [] OTHER                                     -> Error

\* The plug-in owns the one device that _CreateDevices makes.
PlugIn_GetPropertyDataSize(a) ==
  CASE a.sel \in {"OwnedObjects", "DeviceList"}     -> Len(<<Device>>) * ID
    [] a.sel = "TranslateUIDToDevice"               -> ID
    [] a.sel \in {"Manufacturer", "ResourceBundle"} -> Ref
    [] OTHER                                        -> Object_GetPropertyDataSize(a)

DeviceRefProps == {"Name", "Manufacturer", "DeviceUID", "ModelUID", "ElementName"}
DeviceWordProps ==
  {"TransportType", "ClockDomain", "DeviceIsAlive", "DeviceIsRunning", "IsHidden",
   "DeviceCanBeDefaultDevice", "DeviceCanBeDefaultSystemDevice", "Latency",
   "SafetyOffset", "ZeroTimeStampPeriod"}

\* Mutant of Device_GetPropertyDataSize: the streams of every scope are counted.
Device_GetPropertyDataSize_Unscoped(a) ==
  CASE a.sel \in {"OwnedObjects", "Streams"}       -> Len(StreamList("global")) * ID
    [] a.sel = "ControlList"                       -> 0
    [] a.sel \in DeviceRefProps                    -> Ref
    [] a.sel \in DeviceWordProps \cup {"RelatedDevices"} -> ID
    [] a.sel = "NominalSampleRate"                 -> F64
    [] a.sel = "AvailableNominalSampleRates"       -> 2 * Range
    [] a.sel = "PreferredChannelsForStereo"        -> 2 * ID
    [] a.sel = "PreferredChannelLayout"            -> Layout
    [] OTHER                                       -> Object_GetPropertyDataSize(a)

Device_GetPropertyDataSize(a) ==
  CASE a.sel \in {"OwnedObjects", "Streams"}       -> Len(StreamList(a.scope)) * ID
    [] a.sel = "ControlList"                       -> 0
    [] a.sel \in DeviceRefProps                    -> Ref
    [] a.sel \in DeviceWordProps \cup {"RelatedDevices"} -> ID
    [] a.sel = "NominalSampleRate"                 -> F64
    [] a.sel = "AvailableNominalSampleRates"       -> 2 * Range
    [] a.sel = "PreferredChannelsForStereo"        -> 2 * ID
    [] a.sel = "PreferredChannelLayout"            -> Layout
    [] OTHER                                       -> Object_GetPropertyDataSize(a)

StreamWordProps == {"IsActive", "Direction", "TerminalType", "StartingChannel", "StreamLatency"}

Stream_GetPropertyDataSize(a) ==
  CASE a.sel \in StreamWordProps      -> ID
    [] a.sel \in FormatProps          -> Format
    [] a.sel \in AvailableFormatProps -> 2 * RangedFmt
    [] a.sel = "ElementName"          -> Ref
    [] OTHER                          -> Object_GetPropertyDataSize(a)

GetPropertyDataSize(o, a) ==
  CASE o = PlugIn    -> PlugIn_GetPropertyDataSize(a)
    [] o = Device    -> Device_GetPropertyDataSize(a)
    [] o \in Streams -> Stream_GetPropertyDataSize(a)

-----------------------------------------------------------------------------
VARIABLES
  mSampleRateShadow,
  mStartCount,
  active,      \* mInputStreamIsActive and mOutputStreamIsActive
  comparing,   \* by rate, the calls that found it new and have not dispatched it yet
  dispatched,  \* rate changes on the global serial queue
  requested,   \* rate changes the HAL has been asked for
  call,        \* the property call of a client and what it returned
  wanted       \* history: the rate set last, or Error when that change was aborted
               \* or the set was dropped with another change under way

vars == <<mSampleRateShadow, mStartCount, active, comparing, dispatched, requested, call, wanted>>

(* GetPropertyData: how many bytes are filled, and with what               *)

Filled(size, val) == [size |-> size, val |-> val]
Thrown            == Filled(Error, Fixed)

\* A value of a fixed size; the buffer must have at least min bytes.
Value(min, size, val, room) == IF room < min THEN Thrown ELSE Filled(size, val)

\* As much of a list as fits.
List(items, size, room) ==
  LET n == IF room \div size > Len(items) THEN Len(items) ELSE room \div size
  IN Filled(n * size, SubSeq(items, 1, n))

Object_GetPropertyData(a, room) ==
  CASE a.sel \in {"BaseClass", "Class", "Owner"} -> Value(ID, ID, Fixed, room)
    [] a.sel = "OwnedObjects"                    -> Filled(0, <<>>)
    [] OTHER                                     -> Thrown

PlugIn_GetPropertyData(a, room) ==
  CASE a.sel \in {"OwnedObjects", "DeviceList"} -> List(<<Device>>, ID, room)
    [] a.sel = "Manufacturer"                   -> Value(Ref, Ref, Fixed, room)
    [] a.sel = "TranslateUIDToDevice"           -> Value(ID, ID, Fixed, room)
    [] a.sel = "ResourceBundle"                 -> Value(ID, Ref, Fixed, room)
    [] OTHER                                    -> Object_GetPropertyData(a, room)

\* Channel labels at device scope.
DeviceElementName(scope, elem) ==
  CASE scope = "input"  /\ elem \in 1 .. 4 -> <<"In1", "In2", "ModOut1", "ModOut2">>[elem]
    [] scope = "output" /\ elem \in 1 .. 2 -> <<"Out1", "Out2">>[elem]
    [] OTHER -> ""

DeviceStatus(a, room) ==
  Value(ID, ID, IF a.sel = "DeviceIsRunning" THEN mStartCount > 0 ELSE Fixed, room)

DeviceRates(a, room) ==
  CASE a.sel = "NominalSampleRate"           -> Value(F64, F64, mSampleRateShadow, room)
    [] a.sel = "AvailableNominalSampleRates" -> List(<<44100, 48000>>, Range, room)

DeviceLayout(a, room) ==
  CASE a.sel = "PreferredChannelsForStereo" -> Value(2 * ID, 2 * ID, Fixed, room)
    [] a.sel = "PreferredChannelLayout"     -> Value(Layout, Layout, Fixed, room)

Device_GetPropertyData(a, room) ==
  CASE a.sel \in {"OwnedObjects", "Streams"}     -> List(StreamList(a.scope), ID, room)
    [] a.sel = "RelatedDevices"                  -> List(<<Device>>, ID, room)
    [] a.sel = "ControlList"                     -> Filled(0, <<>>)
    [] a.sel \in DeviceWordProps                 -> DeviceStatus(a, room)
    [] a.sel \in DeviceRefProps \ {"ElementName"} -> Value(ID, Ref, Fixed, room)
    [] a.sel = "ElementName" ->
         Value(Ref, Ref, DeviceElementName(a.scope, a.elem), room)
    [] a.sel \in {"NominalSampleRate", "AvailableNominalSampleRates"} -> DeviceRates(a, room)
    [] a.sel \in {"PreferredChannelsForStereo", "PreferredChannelLayout"} ->
         DeviceLayout(a, room)
    [] OTHER -> Object_GetPropertyData(a, room)

\* The first channel of a stream, as the device numbers channels.
StartingChannel(o) == getStreamID(o) * 2 + 1

\* Channel labels at stream scope.
StreamElementName(o, elem) ==
  CASE o = <<"in", 0>>  /\ elem \in 1 .. 2 -> <<"In1", "In2">>[elem]
    [] o = <<"in", 1>>  /\ elem \in 1 .. 2 -> <<"ModOut1", "ModOut2">>[elem]
    [] o = <<"out", 0>> /\ elem \in 1 .. 2 -> <<"Out1", "Out2">>[elem]
    [] OTHER -> ""

\* Mutant of StreamActivity: the first stream of the scope is read.
StreamActivity_First(o, a) == {active[<<IF a.scope = "input" THEN "in" ELSE "out", 0>>]}

\* Which array is read depends on the scope of the address, not on the stream;
\* an index past the end of mOutputStreamIsActive reads whatever lies there.
StreamActivity(o, a) ==
  LET read == <<IF a.scope = "input" THEN "in" ELSE "out", getStreamID(o)>>
  IN IF read \in Streams THEN {active[read]} ELSE BOOLEAN

Stream_GetPropertyData(o, a, room, activity) ==
  CASE a.sel = "IsActive"             -> Value(ID, ID, activity, room)
    [] a.sel = "Direction"            -> Value(ID, ID, IsInputStreamID(o), room)
    [] a.sel = "StartingChannel"      -> Value(ID, ID, StartingChannel(o), room)
    [] a.sel \in {"TerminalType", "StreamLatency"} -> Value(ID, ID, Fixed, room)
    [] a.sel \in FormatProps          -> Value(Format, Format, mSampleRateShadow, room)
    [] a.sel \in AvailableFormatProps -> List(<<44100, 48000>>, RangedFmt, room)
    [] a.sel = "ElementName"          -> Value(Ref, Ref, StreamElementName(o, a.elem), room)
    [] OTHER                          -> Object_GetPropertyData(a, room)

\* The possible answers of GetPropertyData.
GetPropertyData(o, a, room) ==
  CASE o = PlugIn    -> {PlugIn_GetPropertyData(a, room)}
    [] o = Device    -> {Device_GetPropertyData(a, room)}
    [] o \in Streams -> {Stream_GetPropertyData(o, a, room, x) : x \in StreamActivity(o, a)}

-----------------------------------------------------------------------------
(* The entry points that the HAL calls.                                    *)

Idle == [op |-> "idle"]

Init ==
  /\ mSampleRateShadow = 48000 /\ mStartCount = 0
  /\ active = [o \in Streams |-> TRUE]
  /\ comparing = [r \in Rates |-> 0] /\ dispatched = <<>> /\ requested = <<>>
  /\ call = Idle
  /\ wanted = 48000

deviceVars == <<mSampleRateShadow, mStartCount, active, comparing, dispatched, requested, wanted>>

SA_IsPropertySettable(o, a) ==
  /\ call = Idle /\ HasProperty(o, a)
  /\ call' = [op |-> "settable", obj |-> o, addr |-> a, answer |-> IsPropertySettable(o, a)]
  /\ UNCHANGED deviceVars

SA_GetPropertyDataSize(o, a) ==
  /\ call = Idle /\ HasProperty(o, a)
  /\ call' = [op |-> "size", obj |-> o, addr |-> a, room |-> GetPropertyDataSize(o, a)]
  /\ UNCHANGED deviceVars

\* The client comes back with a buffer of the size it was told.
SA_GetPropertyData ==
  /\ call.op = "size"
  /\ \E got \in GetPropertyData(call.obj, call.addr, call.room) :
       call' = [op |-> "get", obj |-> call.obj, addr |-> call.addr, room |-> call.room,
                size |-> got.size, val |-> got.val]
  /\ UNCHANGED deviceVars

Return ==
  /\ call # Idle
  /\ call' = Idle
  /\ UNCHANGED deviceVars

\* Rate changes on their way, from the comparison to the HAL's answer.
UnderWay == Len(dispatched) + Len(requested) + comparing[44100] + comparing[48000]

\* A rate is compared with the current one, not with a change under way, and
\* dropped if it is the same.
CompareRate(r) ==
  /\ IF r # mSampleRateShadow
       THEN /\ UnderWay < MaxRequests
            /\ comparing' = [comparing EXCEPT ![r] = @ + 1]
            /\ UNCHANGED wanted
       ELSE /\ wanted' = IF dispatched \o requested = <<>> THEN r ELSE Error
            /\ UNCHANGED comparing
  /\ UNCHANGED <<mSampleRateShadow, mStartCount, active, dispatched, requested, call>>

\* The state mutex has been released: other calls may compare, dispatch and be
\* performed before this one is dispatched.
DispatchRate(r) ==
  /\ comparing[r] > 0
  /\ comparing' = [comparing EXCEPT ![r] = @ - 1]
  /\ dispatched' = Append(dispatched, r)
  /\ wanted' = r
  /\ UNCHANGED <<mSampleRateShadow, mStartCount, active, requested, call>>

\* The setters look at the selector only.
Settable(o, sel) ==
  LET a == [sel |-> sel, scope |-> "global", elem |-> 0]
  IN HasProperty(o, a) /\ IsPropertySettable(o, a) = "yes"

Device_SetPropertyData(r) == Settable(Device, "NominalSampleRate") /\ CompareRate(r)

\* The scan by object ID finds the one entry of the stream.
Stream_SetActive(o, on) ==
  /\ Settable(o, "IsActive")
  /\ active' = [active EXCEPT ![o] = on]
  /\ UNCHANGED <<mSampleRateShadow, mStartCount, comparing, dispatched, requested, call,
                 wanted>>

\* Of a format that the device supports only the rate can be new.
Stream_SetFormat(o, r) == (\E sel \in FormatProps : Settable(o, sel)) /\ CompareRate(r)

SA_SetPropertyData ==
  \/ \E r \in Rates : Device_SetPropertyData(r) \/ DispatchRate(r)
  \/ \E o \in Streams : \/ \E on \in BOOLEAN : Stream_SetActive(o, on)
                        \/ \E r \in Rates : Stream_SetFormat(o, r)

\* Mutant of Host_RequestDeviceConfigurationChange: the blocks run on a
\* concurrent queue.
Host_RequestDeviceConfigurationChange_Concurrent ==
  \E i \in 1 .. Len(dispatched) :
    /\ requested' = Append(requested, dispatched[i])
    /\ dispatched' = SubSeq(dispatched, 1, i - 1) \o SubSeq(dispatched, i + 1, Len(dispatched))
    /\ UNCHANGED <<mSampleRateShadow, mStartCount, active, comparing, call, wanted>>

\* The serial queue hands the change to the HAL.
Host_RequestDeviceConfigurationChange ==
  /\ dispatched # <<>>
  /\ requested' = Append(requested, Head(dispatched))
  /\ dispatched' = Tail(dispatched)
  /\ UNCHANGED <<mSampleRateShadow, mStartCount, active, comparing, call, wanted>>

\* The rate after a change; an action that is no supported rate is ignored.
PerformConfigChange(r) == IF r \in Rates THEN r ELSE mSampleRateShadow

\* The HAL performs the changes in order, with IO stopped.
SA_PerformDeviceConfigurationChange ==
  /\ requested # <<>> /\ mStartCount = 0
  /\ requested' = Tail(requested)
  /\ mSampleRateShadow' = PerformConfigChange(Head(requested))
  /\ UNCHANGED <<mStartCount, active, comparing, dispatched, call, wanted>>

SA_AbortDeviceConfigurationChange ==
  /\ requested # <<>>
  /\ requested' = Tail(requested)
  /\ wanted' = IF Len(dispatched \o requested) = 1 THEN Error ELSE wanted
  /\ UNCHANGED <<mSampleRateShadow, mStartCount, active, comparing, dispatched, call>>

SA_StartIO ==
  /\ mStartCount < MaxStart
  /\ mStartCount' = mStartCount + 1
  /\ UNCHANGED <<mSampleRateShadow, active, comparing, dispatched, requested, call, wanted>>

\* Mutant of SA_StopIO: a stop with no client running is not ignored.
SA_StopIO_Unguarded ==
  /\ mStartCount' = mStartCount - 1
  /\ UNCHANGED <<mSampleRateShadow, active, comparing, dispatched, requested, call, wanted>>

SA_StopIO ==
  /\ mStartCount > 0
  /\ mStartCount' = mStartCount - 1
  /\ UNCHANGED <<mSampleRateShadow, active, comparing, dispatched, requested, call, wanted>>

Next ==
  \/ \E o \in Objects, a \in Addresses :
       SA_IsPropertySettable(o, a) \/ SA_GetPropertyDataSize(o, a)
  \/ SA_GetPropertyData \/ Return \/ SA_SetPropertyData
  \/ Host_RequestDeviceConfigurationChange
  \/ SA_PerformDeviceConfigurationChange \/ SA_AbortDeviceConfigurationChange
  \/ SA_StartIO \/ SA_StopIO

Spec == Init /\ [][Next]_vars

-----------------------------------------------------------------------------
(* Properties.                                                             *)

\* Every variable stays in its type.
TypeOK ==
  /\ mSampleRateShadow \in Rates /\ wanted \in Rates \cup {Error}
  /\ mStartCount \in 0 .. MaxStart
  /\ active \in [Streams -> BOOLEAN]
  /\ comparing \in [Rates -> Nat]
  /\ dispatched \in Seq(Rates) /\ requested \in Seq(Rates)

\* The size reported for a property is the size that fetching it then needs
\* and fills, exactly, whatever changed in between.
SizedAsFilled ==
  /\ call.op = "size" => call.room >= 0
  /\ call.op = "get" => call.size = call.room

\* Asking whether a property can be set is answered, but for ElementName, which
\* no settable switch knows: kAudioHardwareUnknownPropertyError.
SettableAnswered ==
  call.op = "settable" => (call.answer = "throws" <=> call.addr.sel = "ElementName")

\* A channel has the same label for a host that walks the streams as for one
\* that asks the device by absolute channel number.
LabelsAgree ==
  call.op = "get" /\ call.obj \in Streams /\ call.addr.sel = "ElementName"
    /\ call.addr.elem \in 1 .. 2
    => call.val = DeviceElementName(IF IsInputStreamID(call.obj) THEN "input" ELSE "output",
                                    StartingChannel(call.obj) + call.addr.elem - 1)

\* The hand-written switches of plug-in, device, streams and base class agree for
\* every selector, scope and element that HasProperty admits: what has a
\* property sizes it as it fills it and says whether it can be set, and
\* the two tables of channel labels name a channel alike.
SwitchesAgree == SizedAsFilled /\ SettableAnswered /\ LabelsAgree

\* SA_PlugIn.cpp:840: SA_SetPropertyData "changes the value of the given
\* property".  When every queued change has been performed, the rate is the one
\* that was set last, in the order in which concurrent sets are dispatched.  Two
\* sets do not count: one whose change the HAL aborted, and one for the rate in
\* force while another change was queued, which is dropped at SA_Device.cpp:994.
RateReadsBack ==
  dispatched = <<>> /\ requested = <<>> /\ wanted # Error => mSampleRateShadow = wanted

\* In its own scope a stream reads back the activity last set for it, whatever
\* was set for the other streams: setting scans both arrays by object ID,
\* reading indexes one of them.
ActiveReadsBack ==
  [][call' # call /\ call'.op = "get" /\ call'.addr.sel = "IsActive"
       /\ call'.addr.scope = (IF IsInputStreamID(call'.obj) THEN "input" ELSE "output")
       => call'.val = active[call'.obj]]_vars
===============================================================================
