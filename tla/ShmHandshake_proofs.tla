-------------------------- MODULE ShmHandshake_proofs --------------------------
(***************************************************************************)
(* Driver and daemon that are up share one object of their own layout, for *)
(* every build, every leftover and any number of crashes.                  *)
(*                                                                         *)
(* An object that a program of this build can end up on has the size the   *)
(* driver accepts, and there is never more than one of those: the one that *)
(* JACK_SHMPATH names.                                                     *)
(***************************************************************************)
EXTENDS ShmHandshake, TLAPS

\* Sizes that the driver keeps.
Usable == {0, Region}

\* The objects of another size carry another version.
Tagged ==
  \A i \in 1 .. Len(object) :
    object[i].size \in Usable \/ object[i].version \notin {0, Version}

\* An object of a usable size is the one that the path names.
Named == \A i \in 1 .. Len(object) : object[i].size \in Usable => name = i

\* What each program knows of the object it has open.
Holds(p) ==
  /\ pc[p] \in {"resize", "truncate", "mmap", "check", "publish", "up"} => mapped[p] # None
  /\ pc[p] \in {"resize", "truncate"} => mapped[p] = name
  /\ pc[p] = "recreate" => name = None
  /\ pc[p] = "truncate" => Size(p) \in Usable
  /\ pc[p] \in {"check", "publish", "up"} => Size(p) >= Region
  /\ pc[p] = "publish" => Observed(p) \in {0, Version}
  /\ pc[p] = "up" => Observed(p) = Version

\* The inductive invariant; pc and mapped are functions, which TypeOK leaves open.
Inv ==
  /\ TypeOK
  /\ pc \in [Programs -> DriverPlaces] /\ mapped \in [Programs -> Nat]
  /\ Tagged /\ Named
  /\ \A p \in Programs : Holds(p)

LEMMA InitInv == Init => Inv
<1> SUFFICES ASSUME Init PROVE Inv
  OBVIOUS
<1> USE DEF Init, Programs, None
<1>1. pc \in [Programs -> DriverPlaces] /\ mapped \in [Programs -> Nat]
  BY DEF DriverPlaces, DaemonPlaces
<1>2. \A p \in Programs : Holds(p)
  BY DEF Holds
<1>3. CASE object = <<>> /\ name = None
  BY <1>1, <1>2, <1>3, BoundAssumption
  DEF Inv, TypeOK, Tagged, Named, DriverPlaces, DaemonPlaces
<1>4. ASSUME NEW o \in Leftovers, object = <<o>>, name = 1 PROVE Inv
  <2>1. object \in Seq(Objects) /\ Len(object) = 1 /\ object[1] = o
    BY <1>4, LeftoversAssumption
  <2>2. Tagged /\ Named
    BY <1>4, <2>1, LeftoversAssumption DEF Tagged, Named, Usable
  <2> QED BY <1>1, <1>2, <1>4, <2>1, <2>2, BoundAssumption
      DEF Inv, TypeOK, DriverPlaces, DaemonPlaces
<1> QED BY <1>3, <1>4

\* A sequence of objects with another size for one of them.
Sized(s, m, r) == [s EXCEPT ![m].size = r]

\* What ftruncate does to a sequence of objects.
LEMMA SetSize ==
  ASSUME NEW s \in Seq(Objects), NEW m \in 1 .. Len(s), NEW r \in Nat,
         NEW t, t = Sized(s, m, r)
  PROVE  /\ t \in Seq(Objects) /\ Len(t) = Len(s)
         /\ \A i \in 1 .. Len(s) : i # m => t[i] = s[i]
         /\ t[m].size = r /\ t[m].version = s[m].version
<1> DEFINE o == [s[m] EXCEPT !.size = r]
<1>1. s[m] \in Objects
  OBVIOUS
<1>2. o \in Objects /\ o.size = r /\ o.version = s[m].version
  BY <1>1 DEF Objects
<1>3. t = [s EXCEPT ![m] = o]
  BY DEF Sized
<1> HIDE DEF o
<1> QED BY <1>2, <1>3

\* What the store of the version does to it.
LEMMA SetVersion ==
  ASSUME NEW s \in Seq(Objects), NEW m \in 1 .. Len(s), NEW r \in Nat,
         NEW t, t = [s EXCEPT ![m].version = r]
  PROVE  /\ t \in Seq(Objects) /\ Len(t) = Len(s)
         /\ \A i \in 1 .. Len(s) : i # m => t[i] = s[i]
         /\ t[m].size = s[m].size /\ t[m].version = r
<1> DEFINE o == [s[m] EXCEPT !.version = r]
<1>1. s[m] \in Objects
  OBVIOUS
<1>2. o \in Objects /\ o.size = s[m].size /\ o.version = r
  BY <1>1 DEF Objects
<1>3. t = [s EXCEPT ![m] = o]
  OBVIOUS
<1> HIDE DEF o
<1> QED BY <1>2, <1>3

\* Only the driver stands at the places of create_shm.
LEMMA Creator ==
  ASSUME TypeOK, NEW p \in Programs, pc[p] \in {"create", "resize", "recreate", "truncate"}
  PROVE  p = "driver"
  BY DEF TypeOK, Programs, DaemonPlaces

\* A step that leaves the objects alone and moves one program keeps what the
\* other one knows.
LEMMA MoveInv ==
  ASSUME Inv, NEW p \in Programs, NEW l \in DriverPlaces, NEW m \in 0 .. Len(object),
         Goto(p, l), mapped' = [mapped EXCEPT ![p] = m], UNCHANGED <<object, name>>,
         crashes' \in 0 .. MaxCrashes,
         p = "daemon" => l \in DaemonPlaces,
         Holds(p)'
  PROVE  Inv'
<1> USE DEF Inv
<1>1. pc' \in [Programs -> DriverPlaces] /\ mapped' \in [Programs -> Nat]
  BY DEF Goto, TypeOK
<1>2. \A q \in Programs : q # p => pc'[q] = pc[q] /\ mapped'[q] = mapped[q]
  BY DEF Goto
<1>3. pc'[p] = l /\ mapped'[p] = m
  BY DEF Goto
<1>4. TypeOK'
  BY <1>2, <1>3 DEF TypeOK, Programs
<1>5. Tagged' /\ Named'
  BY DEF Tagged, Named
<1>6. ASSUME NEW q \in Programs PROVE Holds(q)'
  <2>1. CASE q = p
    BY <2>1
  <2>2. CASE q # p
    BY <1>2, <2>2 DEF Holds, Size, Observed
  <2> QED BY <2>1, <2>2
<1> QED BY <1>1, <1>4, <1>5, <1>6

\* A program that gives up lets go of its object.
LEMMA FailInv == ASSUME Inv, NEW p \in Programs, Fail(p) PROVE Inv'
<1> DEFINE l == IF p = "driver" THEN "failed" ELSE "down"
<1>1. /\ Goto(p, l) /\ mapped' = [mapped EXCEPT ![p] = 0] /\ UNCHANGED <<object, name>>
      /\ crashes' \in 0 .. MaxCrashes
  BY DEF Fail, None, Inv, TypeOK
<1>2. /\ l \in DriverPlaces /\ (p = "daemon" => l \in DaemonPlaces)
      /\ 0 \in 0 .. Len(object)
  BY DEF DriverPlaces, DaemonPlaces, Inv, TypeOK
<1>3. pc'[p] \in {"failed", "down"}
  BY <1>1 DEF Goto, Inv
<1>4. Holds(p)'
  BY <1>3 DEF Holds
<1> QED BY <1>1, <1>2, <1>4, MoveInv

-----------------------------------------------------------------------------
(* create_shm                                                              *)

\* Opening takes the named object or, when there is none, a fresh one; there
\* is then no other of a usable size.
LEMMA OpenInv ==
  ASSUME Inv, NEW p \in Programs, p = "driver", OpenOrCreate(p), UNCHANGED crashes,
         NEW l \in {"resize", "truncate"}, Goto(p, l),
         l = "truncate" => name = None
  PROVE  Inv'
<1> USE DEF Inv, None
<1>1. /\ pc' \in [Programs -> DriverPlaces]
      /\ pc'[p] = l /\ pc'["daemon"] = pc["daemon"]
  BY DEF Goto, Programs, DriverPlaces
<1>2. CASE name = None
  <2>1. /\ object' = Append(object, Fresh) /\ name' = Len(object) + 1
        /\ mapped' = [mapped EXCEPT ![p] = Len(object) + 1]
    BY <1>2 DEF OpenOrCreate
  <2>2. /\ object' \in Seq(Objects) /\ Len(object') = Len(object) + 1
        /\ \A i \in 1 .. Len(object) : object'[i] = object[i]
        /\ object'[Len(object) + 1] = Fresh
    BY <2>1 DEF TypeOK, Fresh, Objects
  <2>3. /\ mapped' \in [Programs -> Nat]
        /\ mapped'[p] = Len(object) + 1 /\ mapped'["daemon"] = mapped["daemon"]
    BY <2>1 DEF Programs, TypeOK
  <2>4. TypeOK'
    BY <1>1, <2>1, <2>2, <2>3 DEF TypeOK, Programs, DriverPlaces
  <2>5. Tagged' /\ Named'
    <3>1. \A i \in 1 .. Len(object) : object[i].size \notin Usable
      BY <1>2 DEF Named
    <3>2. Fresh.size \in Usable
      BY DEF Fresh, Usable
    <3>3. ASSUME NEW i \in 1 .. Len(object')
          PROVE  i \in 1 .. Len(object) \/ (i = Len(object) + 1 /\ object'[i] = Fresh)
      BY <2>2 DEF TypeOK
    <3> QED BY <2>1, <2>2, <3>1, <3>2, <3>3 DEF Tagged, Named
  <2>6. Holds("daemon")'
    <3>1. mapped["daemon"] \in 0 .. Len(object) /\ Holds("daemon")
      BY DEF TypeOK, Programs
    <3>2. pc["daemon"] \notin {"resize", "recreate", "truncate"}
      BY DEF TypeOK, DaemonPlaces
    <3>3. mapped["daemon"] # 0 => object'[mapped'["daemon"]] = object[mapped["daemon"]]
      BY <2>2, <2>3, <3>1 DEF TypeOK
    <3> QED BY <1>1, <2>3, <3>1, <3>2, <3>3 DEF Holds, Size, Observed
  <2>7. Holds(p)'
    BY <1>1, <2>1, <2>2, <2>3 DEF Holds, Size, Fresh, Usable, TypeOK
  <2> QED BY <1>1, <2>3, <2>4, <2>5, <2>6, <2>7 DEF Programs
<1>3. CASE name # None
  <2>1. mapped' = [mapped EXCEPT ![p] = name] /\ UNCHANGED <<object, name>>
    BY <1>3 DEF OpenOrCreate
  <2>2. Holds(p)'
    BY <1>1, <1>3, <2>1 DEF Holds, Size
  <2> QED BY <1>3, <2>1, <2>2, MoveInv DEF TypeOK, DriverPlaces
<1> QED BY <1>2, <1>3

\* Resizing and publishing alter an object of a usable size and take nothing
\* away from the other program.
LEMMA AlterInv ==
  ASSUME Inv, NEW p \in Programs, NEW l \in {"attach", "up"}, Goto(p, l), mapped[p] # None,
         UNCHANGED <<name, mapped, crashes>>,
         object' \in Seq(Objects), Len(object') = Len(object),
         \A i \in 1 .. Len(object) : i # mapped[p] => object'[i] = object[i],
         Size(p) \in Usable, object'[mapped[p]].size \in Usable,
         object'[mapped[p]].size >= Size(p),
         Observed(p) \in {0, Version} => object'[mapped[p]].version \in {0, Version},
         Observed(p) = Version => object'[mapped[p]].version = Version,
         Holds(p)'
  PROVE  Inv'
<1> USE DEF Inv, None
<1> DEFINE m == mapped[p]
<1>1. /\ pc' \in [Programs -> DriverPlaces]
      /\ \A q \in Programs : q # p => pc'[q] = pc[q]
      /\ pc'[p] = l
  BY DEF Goto, DriverPlaces, DaemonPlaces
<1>2. m \in 1 .. Len(object) /\ name = m
  BY DEF TypeOK, Named, Size
<1>3. TypeOK'
  BY <1>1 DEF TypeOK, Programs, DriverPlaces, DaemonPlaces
<1>4. Tagged' /\ Named'
  BY <1>2 DEF Tagged, Named, Size
<1>5. ASSUME NEW q \in Programs PROVE Holds(q)'
  <2>1. CASE q = p
    BY <2>1
  <2>2. CASE q # p
    <3>1. Holds(q) /\ mapped[q] \in 0 .. Len(object) /\ pc'[q] = pc[q]
      BY <1>1, <2>2 DEF TypeOK
    <3>2. mapped[q] # 0 =>
            /\ object'[mapped[q]].size >= object[mapped[q]].size
            /\ object[mapped[q]].size \in Usable => object'[mapped[q]].size \in Usable
            /\ object[mapped[q]].version \in {0, Version}
                 => object'[mapped[q]].version \in {0, Version}
            /\ object[mapped[q]].version = Version => object'[mapped[q]].version = Version
      <4>1. CASE mapped[q] = m
        BY <4>1 DEF Size, Observed
      <4>2. CASE mapped[q] # m /\ mapped[q] # 0
        <5>1. object'[mapped[q]] = object[mapped[q]]
          BY <3>1, <4>2
        <5>2. object[mapped[q]] \in Objects
          BY <3>1, <4>2 DEF TypeOK
        <5> QED BY <5>1, <5>2 DEF Objects
      <4> QED BY <4>1, <4>2
    <3>3. mapped[q] # 0 => /\ object'[mapped[q]] \in Objects
                           /\ object[mapped[q]] \in Objects
      BY <3>1 DEF TypeOK
    <3> QED BY <3>1, <3>2, <3>3, BuildAssumption DEF Holds, Size, Observed, Objects
  <2> QED BY <2>1, <2>2
<1> QED BY <1>1, <1>3, <1>4, <1>5

\* The driver makes a fresh object usable and unlinks one of another size.
LEMMA ResizeInv == ASSUME Inv, NEW p \in Programs, resize(p) PROVE Inv'
<1> USE DEF None
<1>1. /\ p = "driver" /\ pc[p] = "resize" /\ mapped[p] \in 1 .. Len(object)
      /\ object \in Seq(Objects) /\ crashes \in 0 .. MaxCrashes
  BY Creator DEF resize, Inv, Holds, TypeOK
<1>2. CASE Size(p) \in {0, Region}
  <2>1. /\ object' = [object EXCEPT ![mapped[p]].size = Region]
        /\ Goto(p, "attach") /\ UNCHANGED <<name, mapped, crashes>>
    BY <1>2 DEF resize
  <2>2. /\ object' \in Seq(Objects) /\ Len(object') = Len(object)
        /\ \A i \in 1 .. Len(object) : i # mapped[p] => object'[i] = object[i]
        /\ object'[mapped[p]].size = Region
        /\ object'[mapped[p]].version = object[mapped[p]].version
    <3>1. mapped[p] \in 1 .. Len(object) /\ object \in Seq(Objects) /\ Region \in Nat
      BY <1>1, BuildAssumption
    <3>2. object' = Sized(object, mapped[p], Region)
      BY <2>1 DEF Sized
    <3> QED BY <3>1, <3>2, SetSize
  <2>3. pc'[p] = "attach"
    BY <2>1 DEF Goto, Inv
  <2>4. Holds(p)'
    BY <2>3 DEF Holds
  <2>5. Region >= Size(p) /\ Region \in Usable /\ Size(p) \in Usable
    BY <1>2, BuildAssumption DEF Usable
  <2>6. mapped[p] # 0
    BY <1>1
  <2> HIDE DEF Usable
  <2> QED BY <2>1, <2>2, <2>4, <2>5, <2>6, AlterInv DEF Observed
<1>3. CASE Size(p) \notin {0, Region}
  <2> USE DEF Inv
  <2>1. /\ name' = 0 /\ mapped' = [mapped EXCEPT ![p] = 0] /\ Goto(p, "recreate")
        /\ UNCHANGED <<object, crashes>>
    BY <1>3 DEF resize
  <2>2. /\ pc' \in [Programs -> DriverPlaces] /\ mapped' \in [Programs -> Nat]
        /\ pc'[p] = "recreate" /\ pc'["daemon"] = pc["daemon"]
        /\ mapped'[p] = 0 /\ mapped'["daemon"] = mapped["daemon"]
    BY <1>1, <2>1 DEF Goto, Programs, DriverPlaces
  <2>3. TypeOK'
    BY <1>1, <2>1, <2>2 DEF TypeOK, Programs, DriverPlaces
  <2>4. mapped[p] = name
    BY <1>1 DEF Holds
  <2>5. Tagged' /\ Named'
    BY <1>3, <2>1, <2>4 DEF Tagged, Named, Size, Usable
  <2>6. Holds("daemon")'
    <3>1. Holds("daemon") /\ pc["daemon"] \notin {"resize", "recreate", "truncate"}
      BY DEF TypeOK, Programs, DaemonPlaces
    <3> QED BY <2>1, <2>2, <3>1 DEF Holds, Size, Observed
  <2>7. Holds(p)'
    BY <2>1, <2>2 DEF Holds
  <2> QED BY <1>1, <2>2, <2>3, <2>5, <2>6, <2>7 DEF Programs
<1> QED BY <1>2, <1>3

\* The recreated object is fresh, so its ftruncate works.
LEMMA TruncateInv == ASSUME Inv, NEW p \in Programs, truncate(p) PROVE Inv'
<1> USE DEF None
<1>1. /\ p = "driver" /\ mapped[p] \in 1 .. Len(object) /\ Size(p) \in Usable
      /\ object \in Seq(Objects)
  BY Creator DEF truncate, Inv, Holds, TypeOK
<1>2. /\ object' = IF Size(p) = 0 THEN [object EXCEPT ![mapped[p]].size = Region] ELSE object
      /\ Goto(p, "attach") /\ UNCHANGED <<name, mapped, crashes>>
  BY DEF truncate
<1>3. /\ object' \in Seq(Objects) /\ Len(object') = Len(object)
      /\ \A i \in 1 .. Len(object) : i # mapped[p] => object'[i] = object[i]
      /\ object'[mapped[p]].size = Region
      /\ object'[mapped[p]].version = object[mapped[p]].version
  <2>1. CASE Size(p) = 0
    <3>1. mapped[p] \in 1 .. Len(object) /\ object \in Seq(Objects) /\ Region \in Nat
      BY <1>1, BuildAssumption
    <3>2. object' = Sized(object, mapped[p], Region)
      BY <1>2, <2>1 DEF Sized
    <3> QED BY <3>1, <3>2, SetSize
  <2>2. CASE Size(p) # 0
    BY <1>1, <1>2, <2>2 DEF Size, Usable
  <2> QED BY <2>1, <2>2
<1>4. pc'[p] = "attach"
  BY <1>2 DEF Goto, Inv
<1>5. Holds(p)'
  BY <1>4 DEF Holds
<1>6. Region >= Size(p) /\ Region \in Usable /\ mapped[p] # 0
  BY <1>1, BuildAssumption DEF Usable
<1> QED BY <1>1, <1>2, <1>3, <1>5, <1>6, AlterInv DEF Observed

-----------------------------------------------------------------------------
(* attach_shm and check_protocol_version                                   *)

\* Whoever publishes is on an unversioned object of a usable size, or on one
\* that the other program has published the same version on since.
LEMMA PublishInv == ASSUME Inv, NEW p \in Programs, publish_version(p) PROVE Inv'
<1> USE DEF None
<1>1. /\ mapped[p] \in 1 .. Len(object) /\ Size(p) >= Region
      /\ Observed(p) \in {0, Version} /\ object \in Seq(Objects)
  BY DEF publish_version, Inv, Holds, TypeOK
<1>2. Size(p) \in Usable
  BY <1>1 DEF Inv, Tagged, Size, Observed
<1>3. /\ object' = [object EXCEPT ![mapped[p]].version = Version]
      /\ Goto(p, "up") /\ UNCHANGED <<name, mapped, crashes>>
  BY DEF publish_version
<1>4. /\ object' \in Seq(Objects) /\ Len(object') = Len(object)
      /\ \A i \in 1 .. Len(object) : i # mapped[p] => object'[i] = object[i]
      /\ object'[mapped[p]].size = Size(p) /\ object'[mapped[p]].version = Version
  BY <1>1, <1>3, BuildAssumption, SetVersion DEF Size
<1>5. pc'[p] = "up"
  BY <1>3 DEF Goto, Inv
<1>6. Holds(p)'
  BY <1>1, <1>3, <1>4, <1>5 DEF Holds, Size, Observed
<1>7. object[mapped[p]] \in Objects
  BY <1>1
<1>8. Size(p) >= Size(p) /\ mapped[p] # 0
  BY <1>1, <1>7 DEF Size, Objects
<1> QED BY <1>2, <1>3, <1>4, <1>6, <1>8, AlterInv

\* A step that only moves one program.
LEMMA GotoInv ==
  ASSUME Inv, NEW p \in Programs, NEW l \in DriverPlaces, Goto(p, l),
         UNCHANGED <<object, name, mapped, crashes>>,
         p = "daemon" => l \in DaemonPlaces,
         Holds(p)'
  PROVE  Inv'
<1>1. mapped[p] \in 0 .. Len(object) /\ mapped' = [mapped EXCEPT ![p] = mapped[p]]
  BY DEF Inv, TypeOK
<1>2. crashes' \in 0 .. MaxCrashes
  BY DEF Inv, TypeOK
<1> QED BY <1>1, <1>2, MoveInv

\* Attaching takes whatever the path names, or fails.
LEMMA AttachInv == ASSUME Inv, NEW p \in Programs, attach_shm(p) PROVE Inv'
<1>1. CASE Fail(p)
  BY <1>1, FailInv
<1>2. CASE ~ Fail(p)
  <2>1. /\ name # None /\ mapped' = [mapped EXCEPT ![p] = name] /\ Goto(p, "mmap")
        /\ UNCHANGED <<object, name, crashes>>
    BY <1>2 DEF attach_shm
  <2>2. pc'[p] = "mmap" /\ mapped'[p] = name
    BY <2>1 DEF Goto, Inv
  <2>3. Holds(p)'
    BY <2>1, <2>2 DEF Holds
  <2>4. name \in 0 .. Len(object) /\ crashes' \in 0 .. MaxCrashes
    BY <2>1 DEF Inv, TypeOK
  <2>5. "mmap" \in DriverPlaces /\ "mmap" \in DaemonPlaces
    BY DEF DriverPlaces, DaemonPlaces
  <2> QED BY <2>1, <2>3, <2>4, <2>5, MoveInv
<1> QED BY <1>1, <1>2

\* mmap fails on an object that is too small.
LEMMA MapInv == ASSUME Inv, NEW p \in Programs, map_shm(p) PROVE Inv'
<1>1. CASE Fail(p)
  BY <1>1, FailInv
<1>2. CASE ~ Fail(p)
  <2>1. /\ Size(p) >= Region /\ Goto(p, "check")
        /\ UNCHANGED <<object, name, mapped, crashes>>
    BY <1>2 DEF map_shm
  <2>2. pc'[p] = "check"
    BY <2>1 DEF Goto, Inv
  <2>3. mapped[p] # None
    BY DEF map_shm, Inv, Holds
  <2>4. Holds(p)'
    BY <2>1, <2>2, <2>3 DEF Holds, Size
  <2>5. "check" \in DriverPlaces /\ "check" \in DaemonPlaces
    BY DEF DriverPlaces, DaemonPlaces
  <2> QED BY <2>1, <2>4, <2>5, GotoInv
<1> QED BY <1>1, <1>2

\* The load decides: publish, go on or give up.
LEMMA CheckInv == ASSUME Inv, NEW p \in Programs, check_protocol_version(p) PROVE Inv'
<1>1. CASE Fail(p)
  BY <1>1, FailInv
<1>2. CASE ~ Fail(p)
  <2> DEFINE l == IF Observed(p) = 0 THEN "publish" ELSE "up"
  <2>1. /\ Observed(p) \in {0, Version} /\ Goto(p, l)
        /\ UNCHANGED <<object, name, mapped, crashes>>
    BY <1>2 DEF check_protocol_version
  <2>2. pc'[p] = l
    BY <2>1 DEF Goto, Inv
  <2>3. mapped[p] # None /\ Size(p) >= Region
    BY DEF check_protocol_version, Inv, Holds
  <2>4. Holds(p)'
    BY <2>1, <2>2, <2>3 DEF Holds, Size, Observed
  <2>5. l \in DriverPlaces /\ l \in DaemonPlaces
    BY DEF DriverPlaces, DaemonPlaces
  <2> HIDE DEF l
  <2> QED BY <2>1, <2>4, <2>5, GotoInv
<1> QED BY <1>1, <1>2

-----------------------------------------------------------------------------
(* The whole system                                                        *)

\* Starting opens nothing, and dying lets go of everything.
LEMMA StartInv ==
  ASSUME Inv, DriverStart \/ DaemonStart
  PROVE  Inv'
<1> USE DEF Programs
<1>1. "create" \in DriverPlaces /\ "attach" \in DriverPlaces /\ "attach" \in DaemonPlaces
  BY DEF DriverPlaces, DaemonPlaces
<1>2. CASE DriverStart
  <2>1. pc'["driver"] = "create"
    BY <1>2 DEF DriverStart, Goto, Inv
  <2>2. Holds("driver")'
    BY <2>1 DEF Holds
  <2> QED BY <1>1, <1>2, <2>2, GotoInv DEF DriverStart
<1>3. CASE DaemonStart
  <2>1. pc'["daemon"] = "attach"
    BY <1>3 DEF DaemonStart, Goto, Inv
  <2>2. Holds("daemon")'
    BY <2>1 DEF Holds
  <2> QED BY <1>1, <1>3, <2>2, GotoInv DEF DaemonStart
<1> QED BY <1>2, <1>3

LEMMA CrashInv == ASSUME Inv, NEW p \in Programs, Crash(p) PROVE Inv'
<1>1. crashes' \in 0 .. MaxCrashes
  BY BoundAssumption DEF Crash, Inv, TypeOK
<1>2. pc'[p] = "down"
  BY DEF Crash, Goto, Inv
<1>3. Holds(p)'
  BY <1>2 DEF Holds
<1>4. "down" \in DriverPlaces /\ "down" \in DaemonPlaces /\ None \in 0 .. Len(object)
  BY DEF DriverPlaces, DaemonPlaces, None, Inv, TypeOK
<1> QED BY <1>1, <1>3, <1>4, MoveInv DEF Crash

LEMMA StepInv == ASSUME Inv, NEW p \in Programs, Step(p) PROVE Inv'
<1>1. CASE create_shm(p)
  <2>1. p = "driver"
    BY <1>1, Creator DEF create_shm, Inv
  <2> QED BY <1>1, <2>1, OpenInv DEF create_shm
<1>2. CASE recreate(p)
  <2>1. p = "driver" /\ name = None
    BY <1>2, Creator DEF recreate, Inv, Holds
  <2> QED BY <1>2, <2>1, OpenInv DEF recreate
<1> QED BY <1>1, <1>2, ResizeInv, TruncateInv, AttachInv, MapInv, CheckInv, PublishInv
    DEF Step

\* Inv holds in every reachable state.
THEOREM Invariance == Spec => []Inv
<1>1. Inv /\ [Next]_vars => Inv'
  <2> SUFFICES ASSUME Inv, [Next]_vars PROVE Inv'
    OBVIOUS
  <2>1. CASE UNCHANGED vars
    BY <2>1 DEF Inv, TypeOK, Tagged, Named, Holds, Size, Observed, vars
  <2>2. CASE Next
    BY <2>2, StartInv, StepInv, CrashInv DEF Next
  <2> QED BY <2>1, <2>2
<1> QED BY <1>1, InitInv, PTL DEF Spec

\* The daemon never stands at a place of create_shm, and nobody names or maps
\* an object that was not created.
THEOREM TypeCorrect == Spec => []TypeOK
BY Invariance, PTL DEF Inv

\* Whatever was left over and wherever programs died, a program that is up has
\* mapped an object that is large enough and carries its version.
THEOREM LayoutSafe == Spec => []LayoutAgreed
<1>1. Inv => LayoutAgreed
  BY DEF Inv, LayoutAgreed, Holds
<1> QED BY <1>1, Invariance, PTL

\* Driver and daemon that are both up have mapped the same object: the object
\* of their version has a usable size, hence is the one the path names.
THEOREM SharedOne == Spec => []SameMemory
<1>1. Inv => SameMemory
  <2> SUFFICES ASSUME Inv, \A p \in Programs : pc[p] = "up"
               PROVE  mapped["driver"] = mapped["daemon"]
    BY DEF SameMemory
  <2>1. ASSUME NEW p \in Programs PROVE mapped[p] = name
    <3>1. /\ mapped[p] # 0 /\ Observed(p) = Version /\ mapped[p] \in 0 .. Len(object)
          /\ Len(object) \in Nat
      BY DEF Inv, Holds, None, TypeOK
    <3>2. mapped[p] \in 1 .. Len(object)
      BY <3>1
    <3>3. Size(p) \in Usable
      BY <3>1, <3>2 DEF Inv, Tagged, Size, Observed
    <3> QED BY <3>2, <3>3 DEF Inv, Named, Size
  <2> QED BY <2>1 DEF Programs
<1> QED BY <1>1, Invariance, PTL
===============================================================================
