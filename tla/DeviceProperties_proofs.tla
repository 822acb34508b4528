----------------------- MODULE DeviceProperties_proofs ------------------------
(***************************************************************************)
(* Proofs about the property surface, for every number of streams, changes *)
(* and clients: the types, that the switches agree, and that a rate and    *)
(* the activity of a stream read back as they were set.                    *)
(***************************************************************************)
EXTENDS DeviceProperties, TLAPS

(* What a switch fills is what another one sized.                          *)

\* A value that is asked for with a buffer of its size fills it.
LEMMA ValueFills ==
  ASSUME NEW min \in Nat, NEW size \in Nat, min <= size, NEW val
  PROVE  Value(min, size, val, size) = Filled(size, val)
  BY DEF Value

\* A list that is asked for with a buffer for all of it fills it.
LEMMA ListFills ==
  ASSUME NEW items, Len(items) \in Nat, NEW size \in {ID, Range, RangedFmt}
  PROVE  List(items, size, Len(items) * size).size = Len(items) * size
<1> DEFINE n == Len(items)
<1>1. (n * size) \div size = n
  BY DEF ID, Range, RangedFmt
<1> QED BY <1>1 DEF List, Filled

\* The streams of a scope.
LEMMA StreamListLen ==
  ASSUME NEW scope \in Scopes
  PROVE  Len(StreamList(scope)) \in Nat
<1> DEFINE ins  == [i \in 1 .. NumInputStreams |-> <<"in", i - 1>>]
           outs == [i \in 1 .. NumOutputStreams |-> <<"out", i - 1>>]
<1>1. ins \in Seq(Streams) /\ outs \in Seq(Streams)
  <2>1. \A i \in 1 .. NumInputStreams : <<"in", i - 1>> \in Streams
    BY StreamsAssumption DEF Streams, Inputs
  <2>2. \A i \in 1 .. NumOutputStreams : <<"out", i - 1>> \in Streams
    BY StreamsAssumption DEF Streams, Outputs
  <2> QED BY <2>1, <2>2, StreamsAssumption
<1> HIDE DEF ins, outs
<1>2. StreamList(scope) \in {ins, outs, ins \o outs}
  BY DEF StreamList, Scopes, ins, outs
<1> QED BY <1>1, <1>2

\* What SA_Object answers for every object.
LEMMA ObjectFills ==
  ASSUME NEW a, a.sel \in ObjectProps
  PROVE  /\ Object_GetPropertyDataSize(a) \in Nat
         /\ Object_GetPropertyData(a, Object_GetPropertyDataSize(a)).size
              = Object_GetPropertyDataSize(a)
<1>1. CASE a.sel \in {"BaseClass", "Class", "Owner"}
  <2>1. Object_GetPropertyDataSize(a) = ID
    BY <1>1 DEF Object_GetPropertyDataSize
  <2>2. Object_GetPropertyData(a, ID) = Value(ID, ID, Fixed, ID)
    BY <1>1 DEF Object_GetPropertyData
  <2> QED BY <2>1, <2>2, ValueFills DEF ID, Filled
<1>2. CASE a.sel = "OwnedObjects"
  BY <1>2 DEF Object_GetPropertyDataSize, Object_GetPropertyData, Filled
<1> QED BY <1>1, <1>2 DEF ObjectProps

\* The plug-in's switches.
LEMMA PlugInFills ==
  ASSUME NEW a, PlugIn_HasProperty(a)
  PROVE  /\ PlugIn_GetPropertyDataSize(a) \in Nat
         /\ PlugIn_GetPropertyData(a, PlugIn_GetPropertyDataSize(a)).size
              = PlugIn_GetPropertyDataSize(a)
<1>1. CASE a.sel \in {"OwnedObjects", "DeviceList"}
  <2>1. PlugIn_GetPropertyDataSize(a) = Len(<<Device>>) * ID
    BY <1>1 DEF PlugIn_GetPropertyDataSize
  <2>2. PlugIn_GetPropertyData(a, Len(<<Device>>) * ID) = List(<<Device>>, ID, Len(<<Device>>) * ID)
    BY <1>1 DEF PlugIn_GetPropertyData
  <2>3. Len(<<Device>>) \in Nat
    OBVIOUS
  <2>4. List(<<Device>>, ID, Len(<<Device>>) * ID).size = Len(<<Device>>) * ID
    BY <2>3, ListFills
  <2>5. Len(<<Device>>) * ID \in Nat
    BY <2>3 DEF ID
  <2> QED BY <2>1, <2>2, <2>4, <2>5
<1>2. CASE a.sel = "TranslateUIDToDevice"
  BY <1>2, ValueFills DEF PlugIn_GetPropertyDataSize, PlugIn_GetPropertyData, ID, Filled
<1>3. CASE a.sel \in {"Manufacturer", "ResourceBundle"}
  BY <1>3, ValueFills DEF PlugIn_GetPropertyDataSize, PlugIn_GetPropertyData, ID, Ref, Filled
<1>4. CASE a.sel \in ObjectProps \ {"OwnedObjects"}
  <2>1. PlugIn_GetPropertyDataSize(a) = Object_GetPropertyDataSize(a)
    BY <1>4 DEF PlugIn_GetPropertyDataSize, ObjectProps
  <2>2. \A room : PlugIn_GetPropertyData(a, room) = Object_GetPropertyData(a, room)
    BY <1>4 DEF PlugIn_GetPropertyData, ObjectProps
  <2> QED BY <1>4, <2>1, <2>2, ObjectFills
<1> QED BY <1>1, <1>2, <1>3, <1>4 DEF PlugIn_HasProperty, Object_HasProperty, PlugInProps, ObjectProps

\* A value of the device or of a stream, whose size is also its least.
LEMMA SizedValue ==
  ASSUME NEW size \in Nat, NEW val
  PROVE  Value(size, size, val, size).size = size /\ Value(size, size, val, size).val = val
  BY ValueFills DEF Filled

\* The device's switches.
LEMMA DeviceFills ==
  ASSUME NEW a, a.scope \in Scopes, Device_HasProperty(a)
  PROVE  /\ Device_GetPropertyDataSize(a) \in Nat
         /\ Device_GetPropertyData(a, Device_GetPropertyDataSize(a)).size
              = Device_GetPropertyDataSize(a)
<1> DEFINE size == Device_GetPropertyDataSize(a)
           got(room) == Device_GetPropertyData(a, room)
<1>1. CASE a.sel \in {"OwnedObjects", "Streams"}
  <2> DEFINE items == StreamList(a.scope)
  <2>1. size = Len(items) * ID
    BY <1>1 DEF Device_GetPropertyDataSize, DeviceRefProps, DeviceWordProps
  <2>2. got(Len(items) * ID) = List(items, ID, Len(items) * ID)
    BY <1>1 DEF Device_GetPropertyData, DeviceRefProps, DeviceWordProps
  <2>3. Len(items) \in Nat
    BY StreamListLen
  <2> HIDE DEF items
  <2>4. List(items, ID, Len(items) * ID).size = Len(items) * ID
    BY <2>3, ListFills
  <2>5. Len(items) * ID \in Nat
    BY <2>3 DEF ID
  <2> QED BY <2>1, <2>2, <2>4, <2>5
<1>2. CASE a.sel = "RelatedDevices"
  <2>1. size = ID
    BY <1>2 DEF Device_GetPropertyDataSize, DeviceRefProps, DeviceWordProps
  <2>2. got(ID) = List(<<Device>>, ID, ID)
    BY <1>2 DEF Device_GetPropertyData, DeviceRefProps, DeviceWordProps
  <2>3. Len(<<Device>>) = 1 /\ Len(<<Device>>) \in Nat
    OBVIOUS
  <2>4. List(<<Device>>, ID, Len(<<Device>>) * ID).size = Len(<<Device>>) * ID
    BY <2>3, ListFills
  <2>5. Len(<<Device>>) * ID = ID /\ ID \in Nat
    BY <2>3 DEF ID
  <2> QED BY <2>1, <2>2, <2>4, <2>5
<1>3. CASE a.sel = "ControlList"
  BY <1>3 DEF Device_GetPropertyDataSize, Device_GetPropertyData, Filled,
                   DeviceRefProps, DeviceWordProps
<1>4. CASE a.sel \in DeviceWordProps
  <2>1. size = ID
    BY <1>4 DEF Device_GetPropertyDataSize, DeviceWordProps, DeviceRefProps
  <2>2. got(ID) = DeviceStatus(a, ID)
    BY <1>4 DEF Device_GetPropertyData, DeviceRefProps, DeviceWordProps
  <2>3. DeviceStatus(a, ID).size = ID /\ ID \in Nat
    BY SizedValue DEF DeviceStatus, ID
  <2> QED BY <2>1, <2>2, <2>3
<1>5. CASE a.sel \in DeviceRefProps \ {"ElementName"}
  <2>1. size = Ref
    BY <1>5 DEF Device_GetPropertyDataSize, DeviceRefProps, DeviceWordProps
  <2>2. got(Ref) = Value(ID, Ref, Fixed, Ref)
    BY <1>5 DEF Device_GetPropertyData, DeviceRefProps, DeviceWordProps
  <2>3. Value(ID, Ref, Fixed, Ref) = Filled(Ref, Fixed) /\ Ref \in Nat
    BY ValueFills DEF ID, Ref
  <2> QED BY <2>1, <2>2, <2>3 DEF Filled
<1>6. CASE a.sel = "ElementName"
  <2>1. size = Ref
    BY <1>6 DEF Device_GetPropertyDataSize, DeviceRefProps, DeviceWordProps
  <2>2. got(Ref) = Value(Ref, Ref, DeviceElementName(a.scope, a.elem), Ref)
    BY <1>6 DEF Device_GetPropertyData, DeviceRefProps, DeviceWordProps
  <2>3. Ref \in Nat
    BY DEF Ref
  <2> QED BY <2>1, <2>2, <2>3, SizedValue
<1>7. CASE a.sel = "NominalSampleRate"
  <2>1. size = F64
    BY <1>7 DEF Device_GetPropertyDataSize, DeviceRefProps, DeviceWordProps
  <2>2. got(F64) = Value(F64, F64, mSampleRateShadow, F64)
    BY <1>7 DEF Device_GetPropertyData, DeviceRefProps, DeviceWordProps, DeviceRates
  <2>3. F64 \in Nat
    BY DEF F64
  <2> QED BY <2>1, <2>2, <2>3, SizedValue
<1>8. CASE a.sel = "AvailableNominalSampleRates"
  <2> DEFINE items == <<44100, 48000>>
  <2>1. size = 2 * Range
    BY <1>8 DEF Device_GetPropertyDataSize, DeviceRefProps, DeviceWordProps
  <2>2. got(2 * Range) = List(items, Range, 2 * Range)
    BY <1>8 DEF Device_GetPropertyData, DeviceRefProps, DeviceWordProps, DeviceRates
  <2>3. Len(items) = 2 /\ Len(items) \in Nat
    OBVIOUS
  <2> HIDE DEF items
  <2>4. List(items, Range, Len(items) * Range).size = Len(items) * Range
    BY <2>3, ListFills
  <2> QED BY <2>1, <2>2, <2>3, <2>4 DEF Range
<1>9. CASE a.sel = "PreferredChannelsForStereo"
  <2>1. size = 2 * ID
    BY <1>9 DEF Device_GetPropertyDataSize, DeviceRefProps, DeviceWordProps
  <2>2. got(2 * ID) = Value(2 * ID, 2 * ID, Fixed, 2 * ID)
    BY <1>9 DEF Device_GetPropertyData, DeviceRefProps, DeviceWordProps, DeviceLayout
  <2>3. 2 * ID \in Nat
    BY DEF ID
  <2> QED BY <2>1, <2>2, <2>3, SizedValue
<1>10. CASE a.sel = "PreferredChannelLayout"
  <2>1. size = Layout
    BY <1>10 DEF Device_GetPropertyDataSize, DeviceRefProps, DeviceWordProps
  <2>2. got(Layout) = Value(Layout, Layout, Fixed, Layout)
    BY <1>10 DEF Device_GetPropertyData, DeviceRefProps, DeviceWordProps, DeviceLayout
  <2>3. Layout \in Nat
    BY DEF Layout
  <2> QED BY <2>1, <2>2, <2>3, SizedValue
<1>11. CASE a.sel \in ObjectProps \ {"OwnedObjects"}
  <2>1. size = Object_GetPropertyDataSize(a)
    BY <1>11 DEF Device_GetPropertyDataSize, ObjectProps, DeviceRefProps, DeviceWordProps
  <2>2. \A room : got(room) = Object_GetPropertyData(a, room)
    BY <1>11 DEF Device_GetPropertyData, ObjectProps, DeviceRefProps, DeviceWordProps
  <2> QED BY <1>11, <2>1, <2>2, ObjectFills
<1>12. a.sel \in DeviceProps \cup DeviceScopedProps \cup ObjectProps \cup {"ElementName"}
  BY DEF Device_HasProperty, Object_HasProperty
<1> HIDE DEF size, got
<1>13. \/ a.sel \in {"OwnedObjects", "Streams"} \/ a.sel = "RelatedDevices"
       \/ a.sel = "ControlList" \/ a.sel \in DeviceWordProps
       \/ a.sel \in DeviceRefProps \ {"ElementName"} \/ a.sel = "ElementName"
       \/ a.sel = "NominalSampleRate" \/ a.sel = "AvailableNominalSampleRates"
       \/ a.sel = "PreferredChannelsForStereo" \/ a.sel = "PreferredChannelLayout"
       \/ a.sel \in ObjectProps \ {"OwnedObjects"}
  BY <1>12 DEF DeviceProps, DeviceScopedProps, ObjectProps, DeviceWordProps, DeviceRefProps
<1> QED BY <1>1, <1>2, <1>3, <1>4, <1>5, <1>6, <1>7, <1>8, <1>9, <1>10, <1>11, <1>13 DEF size, got

\* The streams' switches, and what they answer for names and activity.
LEMMA StreamFills ==
  ASSUME NEW o, NEW a, NEW x, Stream_HasProperty(a)
  PROVE  LET size == Stream_GetPropertyDataSize(a)
             got  == Stream_GetPropertyData(o, a, size, x)
         IN /\ size \in Nat
            /\ got.size = size
            /\ a.sel = "ElementName" => got.val = StreamElementName(o, a.elem)
            /\ a.sel = "IsActive" => got.val = x
<1> DEFINE size == Stream_GetPropertyDataSize(a)
           got(room) == Stream_GetPropertyData(o, a, room, x)
<1> USE DEF StreamWordProps, FormatProps, AvailableFormatProps
<1>1. CASE a.sel \in StreamWordProps
  <2>1. size = ID
    BY <1>1 DEF Stream_GetPropertyDataSize
  <2>2. \E v : got(ID) = Value(ID, ID, v, ID) /\ (a.sel = "IsActive" => v = x)
    BY <1>1 DEF Stream_GetPropertyData
  <2>3. ID \in Nat
    BY DEF ID
  <2>4. a.sel # "ElementName"
    BY <1>1
  <2> QED BY <2>1, <2>2, <2>3, <2>4, SizedValue
<1>2. CASE a.sel \in FormatProps
  <2>1. size = Format
    BY <1>2 DEF Stream_GetPropertyDataSize
  <2>2. got(Format) = Value(Format, Format, mSampleRateShadow, Format)
    BY <1>2 DEF Stream_GetPropertyData
  <2>3. Format \in Nat
    BY DEF Format
  <2>4. a.sel # "ElementName" /\ a.sel # "IsActive"
    BY <1>2
  <2> QED BY <2>1, <2>2, <2>3, <2>4, SizedValue
<1>3. CASE a.sel \in AvailableFormatProps
  <2> DEFINE items == <<44100, 48000>>
  <2>1. size = 2 * RangedFmt
    BY <1>3 DEF Stream_GetPropertyDataSize
  <2>2. got(2 * RangedFmt) = List(items, RangedFmt, 2 * RangedFmt)
    BY <1>3 DEF Stream_GetPropertyData
  <2>3. Len(items) = 2 /\ Len(items) \in Nat
    OBVIOUS
  <2> HIDE DEF items
  <2>4. List(items, RangedFmt, Len(items) * RangedFmt).size = Len(items) * RangedFmt
    BY <2>3, ListFills
  <2>5. a.sel # "ElementName" /\ a.sel # "IsActive"
    BY <1>3
  <2> QED BY <2>1, <2>2, <2>3, <2>4, <2>5 DEF RangedFmt
<1>4. CASE a.sel = "ElementName"
  <2>1. size = Ref
    BY <1>4 DEF Stream_GetPropertyDataSize
  <2>2. got(Ref) = Value(Ref, Ref, StreamElementName(o, a.elem), Ref)
    BY <1>4 DEF Stream_GetPropertyData
  <2>3. Ref \in Nat
    BY DEF Ref
  <2> QED BY <1>4, <2>1, <2>2, <2>3, SizedValue
<1>5. CASE a.sel \in ObjectProps
  <2>1. size = Object_GetPropertyDataSize(a)
    BY <1>5 DEF Stream_GetPropertyDataSize, ObjectProps
  <2>2. \A room : got(room) = Object_GetPropertyData(a, room)
    BY <1>5 DEF Stream_GetPropertyData, ObjectProps
  <2>3. a.sel # "ElementName" /\ a.sel # "IsActive"
    BY <1>5 DEF ObjectProps
  <2> QED BY <1>5, <2>1, <2>2, <2>3, ObjectFills
<1>6. a.sel \in StreamProps \cup ObjectProps
  BY DEF Stream_HasProperty, Object_HasProperty
<1> QED BY <1>1, <1>2, <1>3, <1>4, <1>5, <1>6 DEF StreamProps

\* Plug-in, device and streams are different objects.
LEMMA ObjectsDiffer ==
  /\ PlugIn # Device
  /\ \A o \in Streams : o # PlugIn /\ o # Device
  /\ \A o \in Inputs : o[1] = "in" /\ o[2] \in Nat /\ o = <<"in", o[2]>>
  /\ \A o \in Outputs : o[1] = "out" /\ o[2] \in Nat /\ o = <<"out", o[2]>>
<1>1. \A o \in Inputs : o[1] = "in" /\ o[2] \in Nat /\ o = <<"in", o[2]>>
  BY StreamsAssumption DEF Inputs
<1>2. \A o \in Outputs : o[1] = "out" /\ o[2] \in Nat /\ o = <<"out", o[2]>>
  BY StreamsAssumption DEF Outputs
<1>3. PlugIn[1] = "plugin" /\ Device[1] = "device"
  BY DEF PlugIn, Device
<1> QED BY <1>1, <1>2, <1>3 DEF Streams

\* The device's labels, by channel.
LEMMA DeviceLabels ==
  /\ \A c \in 1 .. 4 : DeviceElementName("input", c) = <<"In1", "In2", "ModOut1", "ModOut2">>[c]
  /\ \A c \in 1 .. 2 : DeviceElementName("output", c) = <<"Out1", "Out2">>[c]
  /\ \A c \in Nat : c > 4 => DeviceElementName("input", c) = ""
  /\ \A c \in Nat : c > 2 => DeviceElementName("output", c) = ""
<1>1. ASSUME NEW c \in 1 .. 4
      PROVE  DeviceElementName("input", c) = <<"In1", "In2", "ModOut1", "ModOut2">>[c]
  BY DEF DeviceElementName
<1>2. ASSUME NEW c \in 1 .. 2 PROVE DeviceElementName("output", c) = <<"Out1", "Out2">>[c]
  BY DEF DeviceElementName
<1>3. ASSUME NEW c \in Nat, c > 4 PROVE DeviceElementName("input", c) = ""
  <2>1. c \notin 1 .. 4
    BY <1>3
  <2> QED BY <2>1 DEF DeviceElementName
<1>4. ASSUME NEW c \in Nat, c > 2 PROVE DeviceElementName("output", c) = ""
  <2>1. c \notin 1 .. 2
    BY <1>4
  <2> QED BY <2>1 DEF DeviceElementName
<1> QED BY <1>1, <1>2, <1>3, <1>4

\* The channels of a stream have the labels that the device gives them.
LEMMA SameLabels ==
  ASSUME NEW o \in Streams, NEW elem \in 1 .. 2
  PROVE  StreamElementName(o, elem)
           = DeviceElementName(IF IsInputStreamID(o) THEN "input" ELSE "output",
                               StartingChannel(o) + elem - 1)
<1>1. elem = 1 \/ elem = 2
  OBVIOUS
<1>2. CASE o \in Inputs
  <2> DEFINE i == o[2]
             c == i * 2 + 1 + elem - 1
  <2>1. o = <<"in", i>> /\ i \in Nat /\ IsInputStreamID(o) /\ StartingChannel(o) = i * 2 + 1
    BY <1>2, ObjectsDiffer DEF IsInputStreamID, StartingChannel, getStreamID
  <2> HIDE DEF i
  <2>2. CASE i = 0
    <3>1. StreamElementName(o, elem) = <<"In1", "In2">>[elem]
      <4>1. o = <<"in", 0>> /\ o # <<"in", 1>> /\ o # <<"out", 0>>
        BY <2>1, <2>2
      <4> QED BY <4>1 DEF StreamElementName
    <3>2. c = elem /\ DeviceElementName("input", c) = <<"In1", "In2", "ModOut1", "ModOut2">>[c]
      <4>1. c = elem /\ c \in 1 .. 4
        BY <1>1, <2>1, <2>2
      <4> HIDE DEF c
      <4> QED BY <4>1, DeviceLabels
    <3> QED BY <1>1, <2>1, <3>1, <3>2
  <2>3. CASE i = 1
    <3>1. StreamElementName(o, elem) = <<"ModOut1", "ModOut2">>[elem]
      <4>1. o = <<"in", 1>> /\ o # <<"in", 0>> /\ o # <<"out", 0>>
        BY <2>1, <2>3
      <4> QED BY <4>1 DEF StreamElementName
    <3>2. c = elem + 2 /\ DeviceElementName("input", c) = <<"In1", "In2", "ModOut1", "ModOut2">>[c]
      <4>1. c = elem + 2 /\ c \in 1 .. 4
        BY <1>1, <2>1, <2>3
      <4> HIDE DEF c
      <4> QED BY <4>1, DeviceLabels
    <3> QED BY <1>1, <2>1, <3>1, <3>2
  <2>4. CASE i > 1
    <3>1. o # <<"in", 0>> /\ o # <<"in", 1>> /\ o # <<"out", 0>>
      BY <2>1, <2>4
    <3>2. StreamElementName(o, elem) = ""
      BY <3>1 DEF StreamElementName
    <3>3. c > 4 /\ c \in Nat
      BY <1>1, <2>1, <2>4
    <3> HIDE DEF c
    <3>4. DeviceElementName("input", c) = ""
      BY <3>3, DeviceLabels
    <3> QED BY <2>1, <3>2, <3>4 DEF c
  <2> QED BY <2>1, <2>2, <2>3, <2>4
<1>3. CASE o \in Outputs
  <2> DEFINE i == o[2]
             c == i * 2 + 1 + elem - 1
  <2>1. o = <<"out", i>> /\ i \in Nat /\ ~IsInputStreamID(o) /\ StartingChannel(o) = i * 2 + 1
    BY <1>3, ObjectsDiffer DEF IsInputStreamID, StartingChannel, getStreamID
  <2> HIDE DEF i
  <2>2. CASE i = 0
    <3>1. StreamElementName(o, elem) = <<"Out1", "Out2">>[elem]
      BY <2>1, <2>2 DEF StreamElementName
    <3>2. c = elem /\ DeviceElementName("output", c) = <<"Out1", "Out2">>[c]
      <4>1. c = elem /\ c \in 1 .. 2
        BY <1>1, <2>1, <2>2
      <4> HIDE DEF c
      <4> QED BY <4>1, DeviceLabels
    <3> QED BY <1>1, <2>1, <3>1, <3>2
  <2>3. CASE i > 0
    <3>1. o # <<"in", 0>> /\ o # <<"in", 1>> /\ o # <<"out", 0>>
      BY <2>1, <2>3
    <3>2. StreamElementName(o, elem) = ""
      BY <3>1 DEF StreamElementName
    <3>3. c > 2 /\ c \in Nat
      BY <1>1, <2>1, <2>3
    <3> HIDE DEF c
    <3>4. DeviceElementName("output", c) = ""
      BY <3>3, DeviceLabels
    <3> QED BY <2>1, <3>2, <3>4 DEF c
  <2> QED BY <2>1, <2>2, <2>3
<1> QED BY <1>2, <1>3 DEF Streams

\* The dispatch by object ID.
LEMMA Dispatch ==
  ASSUME NEW a
  PROVE  /\ HasProperty(PlugIn, a) = PlugIn_HasProperty(a)
         /\ HasProperty(Device, a) = Device_HasProperty(a)
         /\ \A o \in Streams : HasProperty(o, a) = Stream_HasProperty(a)
         /\ IsPropertySettable(PlugIn, a) = PlugIn_IsPropertySettable(a)
         /\ IsPropertySettable(Device, a) = Device_IsPropertySettable(a)
         /\ \A o \in Streams : IsPropertySettable(o, a) = Stream_IsPropertySettable(a)
         /\ GetPropertyDataSize(PlugIn, a) = PlugIn_GetPropertyDataSize(a)
         /\ GetPropertyDataSize(Device, a) = Device_GetPropertyDataSize(a)
         /\ \A o \in Streams : GetPropertyDataSize(o, a) = Stream_GetPropertyDataSize(a)
<1>1. HasProperty(PlugIn, a) = PlugIn_HasProperty(a)
  BY ObjectsDiffer DEF HasProperty
<1>2. HasProperty(Device, a) = Device_HasProperty(a)
  BY ObjectsDiffer DEF HasProperty
<1>3. \A o \in Streams : HasProperty(o, a) = Stream_HasProperty(a)
  BY ObjectsDiffer DEF HasProperty
<1>4. IsPropertySettable(PlugIn, a) = PlugIn_IsPropertySettable(a)
  BY ObjectsDiffer DEF IsPropertySettable
<1>5. IsPropertySettable(Device, a) = Device_IsPropertySettable(a)
  BY ObjectsDiffer DEF IsPropertySettable
<1>6. \A o \in Streams : IsPropertySettable(o, a) = Stream_IsPropertySettable(a)
  BY ObjectsDiffer DEF IsPropertySettable
<1>7. GetPropertyDataSize(PlugIn, a) = PlugIn_GetPropertyDataSize(a)
  BY ObjectsDiffer DEF GetPropertyDataSize
<1>8. GetPropertyDataSize(Device, a) = Device_GetPropertyDataSize(a)
  BY ObjectsDiffer DEF GetPropertyDataSize
<1>9. \A o \in Streams : GetPropertyDataSize(o, a) = Stream_GetPropertyDataSize(a)
  BY ObjectsDiffer DEF GetPropertyDataSize
<1> QED BY <1>1, <1>2, <1>3, <1>4, <1>5, <1>6, <1>7, <1>8, <1>9

\* Of the properties that an object has, no settable switch knows ElementName,
\* and each knows all the others.
LEMMA Settables ==
  ASSUME NEW o \in Objects, NEW a, HasProperty(o, a)
  PROVE  IsPropertySettable(o, a) = "throws" <=> a.sel = "ElementName"
<1>1. CASE o = PlugIn
  <2>1. PlugIn_HasProperty(a)
    BY <1>1, Dispatch
  <2>2. a.sel # "ElementName"
    BY <2>1 DEF PlugIn_HasProperty, Object_HasProperty, PlugInProps, ObjectProps
  <2>3. PlugIn_IsPropertySettable(a) = "no"
    BY <2>1 DEF PlugIn_HasProperty, Object_HasProperty, PlugIn_IsPropertySettable,
                Object_IsPropertySettable
  <2> QED BY <1>1, <2>2, <2>3, Dispatch
<1>2. CASE o = Device
  <2>1. Device_HasProperty(a)
    BY <1>2, Dispatch
  <2>2. a.sel \in DeviceProps \cup DeviceScopedProps \cup ObjectProps \cup {"ElementName"}
    BY <2>1 DEF Device_HasProperty, Object_HasProperty
  <2>3. CASE a.sel = "NominalSampleRate"
    <3>1. Device_IsPropertySettable(a) = "yes"
      BY <2>3 DEF Device_IsPropertySettable
    <3> QED BY <1>2, <2>3, <3>1, Dispatch
  <2>4. CASE a.sel \in (DeviceProps \cup DeviceScopedProps) \ {"NominalSampleRate"}
    <3>1. Device_IsPropertySettable(a) = "no"
      BY <2>4 DEF Device_IsPropertySettable
    <3>2. a.sel # "ElementName"
      BY <2>4 DEF DeviceProps, DeviceScopedProps
    <3> QED BY <1>2, <3>1, <3>2, Dispatch
  <2>5. CASE a.sel \in ObjectProps \cup {"ElementName"}
    <3>1. Device_IsPropertySettable(a) = Object_IsPropertySettable(a)
      BY <2>5 DEF Device_IsPropertySettable, DeviceProps, DeviceScopedProps, ObjectProps
    <3>2. Object_IsPropertySettable(a) = "throws" <=> a.sel = "ElementName"
      BY <2>5 DEF Object_IsPropertySettable, ObjectProps
    <3> QED BY <1>2, <3>1, <3>2, Dispatch
  <2> QED BY <2>2, <2>3, <2>4, <2>5
<1>3. CASE o \in Streams
  <2>1. a.sel \in StreamProps \cup ObjectProps
    BY <1>3, Dispatch DEF Stream_HasProperty, Object_HasProperty
  <2>2. CASE a.sel \in {"IsActive"} \cup FormatProps
    <3>1. Stream_IsPropertySettable(a) = "yes"
      BY <2>2 DEF Stream_IsPropertySettable, FormatProps, AvailableFormatProps
    <3> QED BY <1>3, <2>2, <3>1, Dispatch DEF FormatProps
  <2>3. CASE a.sel \in {"Direction", "TerminalType", "StartingChannel", "StreamLatency"}
                         \cup AvailableFormatProps
    <3>1. Stream_IsPropertySettable(a) = "no"
      BY <2>3 DEF Stream_IsPropertySettable, FormatProps, AvailableFormatProps
    <3> QED BY <1>3, <2>3, <3>1, Dispatch DEF AvailableFormatProps
  <2>4. CASE a.sel \in ObjectProps \cup {"ElementName"}
    <3>1. Stream_IsPropertySettable(a) = Object_IsPropertySettable(a)
      BY <2>4 DEF Stream_IsPropertySettable, FormatProps, AvailableFormatProps, ObjectProps
    <3>2. Object_IsPropertySettable(a) = "throws" <=> a.sel = "ElementName"
      BY <2>4 DEF Object_IsPropertySettable, ObjectProps
    <3> QED BY <1>3, <3>1, <3>2, Dispatch
  <2> QED BY <2>1, <2>2, <2>3, <2>4 DEF StreamProps
<1> QED BY <1>1, <1>2, <1>3 DEF Objects

\* Whatever object and property: the size that is reported is filled.
LEMMA GetFills ==
  ASSUME NEW o \in Objects, NEW a \in Addresses, HasProperty(o, a),
         NEW got \in GetPropertyData(o, a, GetPropertyDataSize(o, a))
  PROVE  /\ GetPropertyDataSize(o, a) \in Nat
         /\ got.size = GetPropertyDataSize(o, a)
         /\ o \in Streams /\ a.sel = "ElementName" => got.val = StreamElementName(o, a.elem)
         /\ o \in Streams /\ a.sel = "IsActive" => got.val \in StreamActivity(o, a)
<1>0. a.scope \in Scopes
  BY DEF Addresses
<1>1. CASE o = PlugIn
  <2>1. PlugIn_HasProperty(a) /\ GetPropertyDataSize(o, a) = PlugIn_GetPropertyDataSize(a)
    BY <1>1, Dispatch
  <2>2. got = PlugIn_GetPropertyData(a, GetPropertyDataSize(o, a)) /\ o \notin Streams
    BY <1>1, ObjectsDiffer DEF GetPropertyData
  <2> QED BY <2>1, <2>2, PlugInFills
<1>2. CASE o = Device
  <2>1. Device_HasProperty(a) /\ GetPropertyDataSize(o, a) = Device_GetPropertyDataSize(a)
    BY <1>2, Dispatch
  <2>2. got = Device_GetPropertyData(a, GetPropertyDataSize(o, a)) /\ o \notin Streams
    BY <1>2, ObjectsDiffer DEF GetPropertyData
  <2> QED BY <1>0, <2>1, <2>2, DeviceFills
<1>3. CASE o \in Streams
  <2>1. Stream_HasProperty(a) /\ GetPropertyDataSize(o, a) = Stream_GetPropertyDataSize(a)
    BY <1>3, Dispatch
  <2>2. PICK x \in StreamActivity(o, a) :
          got = Stream_GetPropertyData(o, a, GetPropertyDataSize(o, a), x)
    BY <1>3, ObjectsDiffer DEF GetPropertyData
  <2> QED BY <2>1, <2>2, StreamFills
<1> QED BY <1>1, <1>2, <1>3 DEF Objects

\* Only streams have an activity.
LEMMA ActivityIsAStreams ==
  ASSUME NEW o \in Objects, NEW a, HasProperty(o, a), a.sel = "IsActive"
  PROVE  o \in Streams
<1>1. ~PlugIn_HasProperty(a)
  BY DEF PlugIn_HasProperty, Object_HasProperty, PlugInProps, ObjectProps
<1>2. ~Device_HasProperty(a)
  BY DEF Device_HasProperty, Object_HasProperty, DeviceProps, DeviceScopedProps, ObjectProps
<1> QED BY <1>1, <1>2, Dispatch DEF Objects

\* Asked in its own scope, a stream looks at its own entry.
LEMMA OwnActivity ==
  ASSUME NEW o \in Streams, NEW a,
         a.scope = (IF IsInputStreamID(o) THEN "input" ELSE "output")
  PROVE  StreamActivity(o, a) = {active[o]}
<1>1. CASE o \in Inputs
  <2>1. o = <<"in", o[2]>> /\ IsInputStreamID(o)
    BY <1>1, ObjectsDiffer DEF IsInputStreamID
  <2>2. <<IF a.scope = "input" THEN "in" ELSE "out", getStreamID(o)>> = o
    BY <2>1 DEF getStreamID
  <2> QED BY <2>2 DEF StreamActivity
<1>2. CASE o \in Outputs
  <2>1. o = <<"out", o[2]>> /\ ~IsInputStreamID(o)
    BY <1>2, ObjectsDiffer DEF IsInputStreamID
  <2>2. <<IF a.scope = "input" THEN "in" ELSE "out", getStreamID(o)>> = o
    BY <2>1 DEF getStreamID
  <2> QED BY <2>2 DEF StreamActivity
<1> QED BY <1>1, <1>2 DEF Streams

-----------------------------------------------------------------------------
(* The inductive invariant.                                                *)

\* The rate that will be in force once the changes under way are performed.
LastRate ==
  IF dispatched # <<>> THEN dispatched[Len(dispatched)]
  ELSE IF requested # <<>> THEN requested[Len(requested)]
  ELSE mSampleRateShadow

RateInv == wanted # Error => LastRate = wanted

\* What a client was told for property a of object o.
Told(o, a) ==
  \/ call = [op |-> "settable", obj |-> o, addr |-> a, answer |-> IsPropertySettable(o, a)]
  \/ call = [op |-> "size", obj |-> o, addr |-> a, room |-> GetPropertyDataSize(o, a)]
  \/ \E v : /\ call = [op |-> "get", obj |-> o, addr |-> a, room |-> GetPropertyDataSize(o, a),
                       size |-> GetPropertyDataSize(o, a), val |-> v]
            /\ o \in Streams /\ a.sel = "ElementName" => v = StreamElementName(o, a.elem)

CallInv ==
  call = Idle \/ \E o \in Objects, a \in Addresses : HasProperty(o, a) /\ Told(o, a)

Inv == TypeOK /\ RateInv /\ CallInv

\* What is being asked.
LEMMA SizeCall ==
  ASSUME CallInv, call.op = "size"
  PROVE  /\ call.obj \in Objects /\ call.addr \in Addresses /\ HasProperty(call.obj, call.addr)
         /\ call.room = GetPropertyDataSize(call.obj, call.addr)
<1>1. call # Idle
  BY DEF Idle
<1>2. PICK o \in Objects, a \in Addresses : HasProperty(o, a) /\ Told(o, a)
  BY <1>1 DEF CallInv
<1>3. call = [op |-> "size", obj |-> o, addr |-> a, room |-> GetPropertyDataSize(o, a)]
  BY <1>2 DEF Told
<1> QED BY <1>2, <1>3

\* The calls of a client.
LEMMA CallStep ==
  ASSUME Inv, [Next]_vars
  PROVE  CallInv'
<1>1. CASE call' = call
  BY <1>1 DEF Inv, CallInv, Told
<1>2. CASE Return
  BY <1>2 DEF Return, CallInv
<1>3. ASSUME NEW o \in Objects, NEW a \in Addresses,
             SA_IsPropertySettable(o, a) \/ SA_GetPropertyDataSize(o, a)
      PROVE  CallInv'
  <2>1. HasProperty(o, a) /\ Told(o, a)'
    BY <1>3 DEF SA_IsPropertySettable, SA_GetPropertyDataSize, Told
  <2> QED BY <2>1 DEF CallInv
<1>4. CASE SA_GetPropertyData
  <2>1. PICK o \in Objects, a \in Addresses :
          /\ o = call.obj /\ a = call.addr /\ HasProperty(o, a)
          /\ call.room = GetPropertyDataSize(o, a)
    BY <1>4, SizeCall DEF SA_GetPropertyData, Inv
  <2>2. PICK got \in GetPropertyData(o, a, GetPropertyDataSize(o, a)) :
          call' = [op |-> "get", obj |-> o, addr |-> a, room |-> GetPropertyDataSize(o, a),
                   size |-> got.size, val |-> got.val]
    BY <1>4, <2>1 DEF SA_GetPropertyData
  <2>3. /\ got.size = GetPropertyDataSize(o, a)
        /\ o \in Streams /\ a.sel = "ElementName" => got.val = StreamElementName(o, a.elem)
    BY <2>1, <2>2, GetFills
  <2>4. Told(o, a)'
    BY <2>2, <2>3 DEF Told
  <2> QED BY <2>1, <2>4 DEF CallInv
<1>5. CASE SA_SetPropertyData
  BY <1>1, <1>5 DEF SA_SetPropertyData, Device_SetPropertyData, Stream_SetActive, Stream_SetFormat, CompareRate,
     DispatchRate
<1>6. CASE Host_RequestDeviceConfigurationChange \/ SA_PerformDeviceConfigurationChange
           \/ SA_AbortDeviceConfigurationChange \/ SA_StartIO \/ SA_StopIO \/ UNCHANGED vars
  BY <1>1, <1>6 DEF Host_RequestDeviceConfigurationChange, SA_PerformDeviceConfigurationChange,
     SA_AbortDeviceConfigurationChange, SA_StartIO, SA_StopIO, vars
<1> QED BY <1>2, <1>3, <1>4, <1>5, <1>6 DEF Next

\* A rate is compared: nothing is queued, and a set for the rate in force is the
\* last one if no change is queued.
LEMMA CompareKeeps ==
  ASSUME TypeOK, RateInv, NEW r \in Rates, CompareRate(r)
  PROVE  TypeOK' /\ RateInv'
<1>1. UNCHANGED <<mSampleRateShadow, mStartCount, active, dispatched, requested>>
  BY DEF CompareRate
<1>2. CASE r # mSampleRateShadow
  <2>1. comparing' = [comparing EXCEPT ![r] = @ + 1] /\ wanted' = wanted
    BY <1>2 DEF CompareRate
  <2>2. comparing' \in [Rates -> Nat]
    BY <2>1 DEF TypeOK
  <2> QED BY <1>1, <2>1, <2>2 DEF TypeOK, RateInv, LastRate
<1>3. CASE r = mSampleRateShadow
  <2>1. /\ comparing' = comparing
        /\ wanted' = IF dispatched \o requested = <<>> THEN r ELSE Error
    BY <1>3 DEF CompareRate
  <2>2. CASE dispatched = <<>> /\ requested = <<>>
    BY <1>1, <1>3, <2>1, <2>2 DEF TypeOK, RateInv, LastRate
  <2>3. CASE ~(dispatched = <<>> /\ requested = <<>>)
    <3>1. dispatched \o requested # <<>>
      BY <2>3 DEF TypeOK
    <3> QED BY <1>1, <2>1, <3>1 DEF TypeOK, RateInv
  <2> QED BY <2>2, <2>3
<1> QED BY <1>2, <1>3

\* A compared rate is dispatched, behind every other one.
LEMMA DispatchKeeps ==
  ASSUME TypeOK, RateInv, NEW r \in Rates, DispatchRate(r)
  PROVE  TypeOK' /\ RateInv'
<1>1. /\ UNCHANGED <<mSampleRateShadow, mStartCount, active, requested>>
      /\ comparing[r] > 0 /\ comparing' = [comparing EXCEPT ![r] = @ - 1]
      /\ dispatched' = Append(dispatched, r) /\ wanted' = r
  BY DEF DispatchRate
<1>2. comparing' \in [Rates -> Nat]
  BY <1>1 DEF TypeOK
<1>3. dispatched' \in Seq(Rates) /\ dispatched' # <<>> /\ dispatched'[Len(dispatched')] = r
  BY <1>1 DEF TypeOK
<1> QED BY <1>1, <1>2, <1>3 DEF TypeOK, RateInv, LastRate

\* A queue that is not empty has one entry or more.
LEMMA OneOrMore ==
  ASSUME NEW n \in Nat \ {0}
  PROVE  n = 1 \/ n > 1
  OBVIOUS

\* A change passes from the queue to the HAL.
LEMMA RequestKeeps ==
  ASSUME TypeOK, RateInv, Host_RequestDeviceConfigurationChange
  PROVE  TypeOK' /\ RateInv'
<1>1. /\ dispatched # <<>> /\ requested' = Append(requested, Head(dispatched))
      /\ dispatched' = Tail(dispatched)
      /\ UNCHANGED <<mSampleRateShadow, mStartCount, active, comparing, wanted>>
  BY DEF Host_RequestDeviceConfigurationChange
<1>2. /\ dispatched \in Seq(Rates) /\ requested \in Seq(Rates) /\ Len(dispatched) \in Nat \ {0}
      /\ Head(dispatched) = dispatched[1] /\ dispatched[1] \in Rates
  BY <1>1 DEF TypeOK
<1>3. /\ requested' \in Seq(Rates) /\ requested' # <<>>
      /\ requested'[Len(requested')] = dispatched[1]
      /\ dispatched' \in Seq(Rates) /\ Len(dispatched') = Len(dispatched) - 1
      /\ \A i \in 1 .. Len(dispatched) - 1 : dispatched'[i] = dispatched[i + 1]
  BY <1>1, <1>2
<1>4. TypeOK'
  BY <1>1, <1>3 DEF TypeOK
<1>5. LastRate' = LastRate
  <2>1. LastRate = dispatched[Len(dispatched)]
    BY <1>1 DEF LastRate
  <2>2. CASE Len(dispatched) = 1
    <3>1. dispatched' = <<>>
      BY <1>3, <2>2
    <3> QED BY <1>3, <2>1, <2>2, <3>1 DEF LastRate
  <2>3. CASE Len(dispatched) > 1
    <3>1. dispatched' # <<>> /\ dispatched'[Len(dispatched')] = dispatched[Len(dispatched)]
      BY <1>2, <1>3, <2>3
    <3> QED BY <2>1, <3>1 DEF LastRate
  <2>4. Len(dispatched) = 1 \/ Len(dispatched) > 1
    BY <1>2, OneOrMore
  <2> QED BY <2>2, <2>3, <2>4
<1> QED BY <1>1, <1>4, <1>5 DEF RateInv

\* The change that the HAL answers is not the last one, if there are others.
LEMMA AbovePerformed ==
  ASSUME dispatched' = dispatched, requested # <<>>, requested \in Seq(Rates),
         requested' \in Seq(Rates), Len(requested') = Len(requested) - 1,
         \A i \in 1 .. Len(requested) - 1 : requested'[i] = requested[i + 1],
         dispatched # <<>> \/ Len(requested) > 1
  PROVE  LastRate' = LastRate
<1>1. CASE dispatched # <<>>
  BY <1>1 DEF LastRate
<1>2. CASE dispatched = <<>> /\ Len(requested) > 1
  <2>1. requested' # <<>> /\ requested'[Len(requested')] = requested[Len(requested)]
    BY <1>2
  <2> QED BY <1>2, <2>1 DEF LastRate
<1> QED BY <1>1, <1>2

\* The HAL performs a change, or aborts it.
LEMMA PerformKeeps ==
  ASSUME TypeOK, RateInv,
         SA_PerformDeviceConfigurationChange \/ SA_AbortDeviceConfigurationChange
  PROVE  TypeOK' /\ RateInv'
<1>1. /\ requested # <<>> /\ requested' = Tail(requested)
      /\ UNCHANGED <<mStartCount, active, comparing, dispatched>>
  BY DEF SA_PerformDeviceConfigurationChange, SA_AbortDeviceConfigurationChange
<1>2. /\ dispatched \in Seq(Rates) /\ requested \in Seq(Rates) /\ Len(requested) \in Nat \ {0}
      /\ Head(requested) = requested[1] /\ requested[1] \in Rates
  BY <1>1 DEF TypeOK
<1>3. /\ requested' \in Seq(Rates) /\ Len(requested') = Len(requested) - 1
      /\ \A i \in 1 .. Len(requested) - 1 : requested'[i] = requested[i + 1]
  BY <1>1, <1>2
<1>4. CASE SA_AbortDeviceConfigurationChange
  <2>1. /\ mSampleRateShadow' = mSampleRateShadow
        /\ wanted' = IF Len(dispatched \o requested) = 1 THEN Error ELSE wanted
    BY <1>4 DEF SA_AbortDeviceConfigurationChange
  <2>2. TypeOK'
    BY <1>1, <1>3, <2>1 DEF TypeOK
  <2>3. CASE dispatched = <<>> /\ Len(requested) = 1
    <3>1. Len(dispatched \o requested) = 1
      BY <1>2, <2>3
    <3> QED BY <2>1, <2>2, <3>1 DEF RateInv
  <2>4. CASE dispatched # <<>> \/ Len(requested) > 1
    <3>1. LastRate' = LastRate
      BY <1>1, <1>2, <1>3, <2>4, AbovePerformed
    <3> QED BY <2>1, <2>2, <3>1 DEF RateInv
  <2>5. Len(requested) = 1 \/ Len(requested) > 1
    BY <1>2, OneOrMore
  <2> QED BY <2>3, <2>4, <2>5
<1>5. CASE SA_PerformDeviceConfigurationChange
  <2>1. wanted' = wanted /\ mSampleRateShadow' = requested[1]
    BY <1>2, <1>5 DEF SA_PerformDeviceConfigurationChange, PerformConfigChange
  <2>2. TypeOK'
    BY <1>1, <1>2, <1>3, <2>1 DEF TypeOK
  <2>3. LastRate' = LastRate
    <3>1. CASE dispatched = <<>> /\ Len(requested) = 1
      <4>1. requested' = <<>>
        BY <1>3, <3>1
      <4> QED BY <1>1, <2>1, <3>1, <4>1 DEF LastRate
    <3>2. CASE dispatched # <<>> \/ Len(requested) > 1
      BY <1>1, <1>2, <1>3, <3>2, AbovePerformed
    <3>3. Len(requested) = 1 \/ Len(requested) > 1
      BY <1>2, OneOrMore
    <3> QED BY <3>1, <3>2, <3>3
  <2> QED BY <2>1, <2>2, <2>3 DEF RateInv
<1> QED BY <1>4, <1>5

\* Every step keeps the invariant.
LEMMA NextInv == Inv /\ [Next]_vars => Inv'
<1> SUFFICES ASSUME Inv, [Next]_vars PROVE TypeOK' /\ RateInv'
  BY CallStep DEF Inv
<1> USE DEF Inv
<1>1. ASSUME UNCHANGED <<mSampleRateShadow, active, comparing, dispatched, requested, wanted>>,
             mStartCount' \in 0 .. MaxStart
      PROVE  TypeOK' /\ RateInv'
  BY <1>1 DEF TypeOK, RateInv, LastRate
<1>2. ASSUME NEW o \in Objects, NEW a \in Addresses,
             SA_IsPropertySettable(o, a) \/ SA_GetPropertyDataSize(o, a)
      PROVE  TypeOK' /\ RateInv'
  BY <1>1, <1>2 DEF SA_IsPropertySettable, SA_GetPropertyDataSize, deviceVars, TypeOK
<1>3. CASE SA_GetPropertyData \/ Return \/ UNCHANGED vars
  BY <1>1, <1>3 DEF SA_GetPropertyData, Return, deviceVars, vars, TypeOK
<1>4. CASE SA_StartIO \/ SA_StopIO
  <2>1. mStartCount' \in 0 .. MaxStart
    BY <1>4, BoundsAssumption DEF SA_StartIO, SA_StopIO, TypeOK
  <2> QED BY <1>1, <1>4, <2>1 DEF SA_StartIO, SA_StopIO
<1>5. CASE SA_SetPropertyData
  <2>1. ASSUME NEW r \in Rates, CompareRate(r) \/ DispatchRate(r) PROVE TypeOK' /\ RateInv'
    BY <2>1, CompareKeeps, DispatchKeeps
  <2>2. ASSUME NEW o \in Streams, NEW on \in BOOLEAN, Stream_SetActive(o, on)
        PROVE  TypeOK' /\ RateInv'
    <3>1. active' = [active EXCEPT ![o] = on]
          /\ UNCHANGED <<mSampleRateShadow, mStartCount, comparing, dispatched, requested, wanted>>
      BY <2>2 DEF Stream_SetActive
    <3>2. active' \in [Streams -> BOOLEAN]
      BY <3>1 DEF TypeOK
    <3> QED BY <3>1, <3>2 DEF TypeOK, RateInv, LastRate
  <2> QED BY <1>5, <2>1, <2>2 DEF SA_SetPropertyData, Device_SetPropertyData, Stream_SetFormat
<1>6. CASE Host_RequestDeviceConfigurationChange
  BY <1>6, RequestKeeps
<1>7. CASE SA_PerformDeviceConfigurationChange \/ SA_AbortDeviceConfigurationChange
  BY <1>7, PerformKeeps
<1> QED BY <1>2, <1>3, <1>4, <1>5, <1>6, <1>7 DEF Next

\* The device starts idle at 48 kHz with every stream active.
LEMMA InitInv == Init => Inv
<1> SUFFICES ASSUME Init PROVE Inv
  OBVIOUS
<1>1. TypeOK
  BY BoundsAssumption DEF Init, TypeOK, Rates
<1>2. RateInv /\ CallInv
  BY DEF Init, RateInv, LastRate, CallInv
<1> QED BY <1>1, <1>2 DEF Inv

\* The inductive invariant holds throughout.
LEMMA InvHolds == Spec => []Inv
  BY InitInv, NextInv, PTL DEF Spec

\* The properties' state keeps its type, for every number of streams and changes.
THEOREM TypeCorrect == Spec => []TypeOK
<1>1. Inv => TypeOK
  BY DEF Inv
<1> QED BY <1>1, InvHolds, PTL

\* Once every queued change has been performed, the sample rate is the one that
\* was dispatched last, unless the HAL aborted that change or a later set was
\* dropped at SA_Device.cpp:994, for any number of concurrent sets.
THEOREM RateIsReadBack == Spec => []RateReadsBack
<1>1. Inv => RateReadsBack
  BY DEF Inv, RateInv, LastRate, RateReadsBack
<1> QED BY <1>1, InvHolds, PTL

\* What the switches of SA_PlugIn, SA_Device and SA_Object told a client agrees.
LEMMA CallsAgree == Inv => SwitchesAgree
<1> SUFFICES ASSUME Inv, call # Idle PROVE SwitchesAgree
  BY DEF SwitchesAgree, SizedAsFilled, SettableAnswered, LabelsAgree, Idle
<1>1. PICK o \in Objects, a \in Addresses : HasProperty(o, a) /\ Told(o, a)
  BY DEF Inv, CallInv
<1>2. CASE call = [op |-> "settable", obj |-> o, addr |-> a, answer |-> IsPropertySettable(o, a)]
  <2>1. call.op = "settable" /\ call.answer = IsPropertySettable(o, a) /\ call.addr = a
    BY <1>2
  <2> QED BY <1>1, <2>1, Settables DEF SwitchesAgree, SizedAsFilled, SettableAnswered, LabelsAgree
<1>3. CASE call = [op |-> "size", obj |-> o, addr |-> a, room |-> GetPropertyDataSize(o, a)]
  <2>1. call.op = "size" /\ call.room = GetPropertyDataSize(o, a)
    BY <1>3
  <2>2. \E got : got \in GetPropertyData(o, a, GetPropertyDataSize(o, a))
    <3>1. o \in Streams => StreamActivity(o, a) # {}
      BY DEF StreamActivity
    <3> QED BY <3>1, ObjectsDiffer DEF GetPropertyData, Objects
  <2>3. GetPropertyDataSize(o, a) \in Nat
    BY <1>1, <2>2, GetFills
  <2> QED BY <2>1, <2>3 DEF SwitchesAgree, SizedAsFilled, SettableAnswered, LabelsAgree
<1>4. ASSUME NEW v,
             call = [op |-> "get", obj |-> o, addr |-> a, room |-> GetPropertyDataSize(o, a),
                     size |-> GetPropertyDataSize(o, a), val |-> v],
             o \in Streams /\ a.sel = "ElementName" => v = StreamElementName(o, a.elem)
      PROVE  SwitchesAgree
  <2>1. /\ call.op = "get" /\ call.obj = o /\ call.addr = a /\ call.val = v
        /\ call.size = call.room
    BY <1>4
  <2>2. LabelsAgree
    BY <1>4, <2>1, SameLabels DEF LabelsAgree
  <2> QED BY <2>1, <2>2 DEF SwitchesAgree, SizedAsFilled, SettableAnswered
<1> QED BY <1>1, <1>2, <1>3, <1>4 DEF Told

\* The five hand-written switches of every object agree on every property that
\* HasProperty admits, and so do the two tables of channel labels, for every
\* number of streams.
THEOREM SwitchesDoAgree == Spec => []SwitchesAgree
  BY CallsAgree, InvHolds, PTL

\* A read of IsActive in the stream's own scope answers what was set for it.
LEMMA ActivityStep ==
  ASSUME Inv, [Next]_vars, call' # call, call'.op = "get", call'.addr.sel = "IsActive",
         call'.addr.scope = (IF IsInputStreamID(call'.obj) THEN "input" ELSE "output")
  PROVE  call'.val = active[call'.obj]
<1>1. SA_GetPropertyData
  <2>1. ~Return
    BY DEF Return, Idle
  <2>2. \A o \in Objects, a \in Addresses :
          ~SA_IsPropertySettable(o, a) /\ ~SA_GetPropertyDataSize(o, a)
    BY DEF SA_IsPropertySettable, SA_GetPropertyDataSize
  <2>3. ~SA_SetPropertyData
    BY DEF SA_SetPropertyData, Device_SetPropertyData, Stream_SetActive, Stream_SetFormat,
           CompareRate, DispatchRate
  <2>4. ~(Host_RequestDeviceConfigurationChange \/ SA_PerformDeviceConfigurationChange
          \/ SA_AbortDeviceConfigurationChange \/ SA_StartIO \/ SA_StopIO \/ UNCHANGED vars)
    BY DEF Host_RequestDeviceConfigurationChange, SA_PerformDeviceConfigurationChange,
       SA_AbortDeviceConfigurationChange, SA_StartIO, SA_StopIO, vars
  <2> QED BY <2>1, <2>2, <2>3, <2>4 DEF Next
<1> DEFINE o == call.obj
           a == call.addr
<1>2. /\ o \in Objects /\ a \in Addresses /\ HasProperty(o, a)
      /\ call.room = GetPropertyDataSize(o, a)
  BY <1>1, SizeCall DEF SA_GetPropertyData, Inv
<1>3. PICK got \in GetPropertyData(o, a, call.room) :
        call' = [op |-> "get", obj |-> o, addr |-> a, room |-> call.room,
                 size |-> got.size, val |-> got.val]
  BY <1>1 DEF SA_GetPropertyData
<1> HIDE DEF o, a
<1>4. call'.obj = o /\ call'.addr = a /\ call'.val = got.val
  BY <1>3
<1>5. o \in Streams
  BY <1>2, <1>4, ActivityIsAStreams
<1>6. got.val \in StreamActivity(o, a)
  BY <1>2, <1>3, <1>4, <1>5, GetFills
<1>7. StreamActivity(o, a) = {active[o]}
  BY <1>4, <1>5, OwnActivity
<1> QED BY <1>4, <1>6, <1>7

\* In its own scope a stream reads back the activity last set for it, whatever
\* was set for the others, for every number of streams.
THEOREM ActivityIsReadBack == Spec => ActiveReadsBack
<1> DEFINE A == call' # call /\ call'.op = "get" /\ call'.addr.sel = "IsActive"
                  /\ call'.addr.scope = (IF IsInputStreamID(call'.obj) THEN "input" ELSE "output")
                  => call'.val = active[call'.obj]
<1>1. Inv /\ [Next]_vars => [A]_vars
  BY ActivityStep
<1> QED BY <1>1, InvHolds, PTL DEF Spec, ActiveReadsBack
===============================================================================
