------------------------- MODULE RingTransfer_proofs -------------------------
(***************************************************************************)
(* Proofs that the ring transfer delivers the right frames, for every ring *)
(* size, period, IO buffer size, safety offset and lateness that satisfy   *)
(* the assumptions of RingTransfer.                                        *)
(*                                                                         *)
(* The properties are not inductive: that a reader meets the right frames  *)
(* depends on where the clock lets the heads be (Timing), on what the last *)
(* lap of the capture ring holds (DownHolds), and on what the next lap of  *)
(* the playback ring holds (UpHolds).                                      *)
(***************************************************************************)
EXTENDS RingTransfer, TLAPS

-----------------------------------------------------------------------------
(* Division with remainder.                                                *)

\* Distinct multiples of p are at least p apart.
LEMMA MultiplesApart ==
  ASSUME NEW p \in Nat \ {0}, NEW u \in Int, NEW v \in Int, u < v
  PROVE  p * u + p <= p * v
  OBVIOUS

\* Quotient and remainder of any integer, the negative ones included.
LEMMA DivMod ==
  ASSUME NEW n \in Nat \ {0}, NEW a \in Int
  PROVE  /\ a \div n \in Int
         /\ a % n \in 0 .. n - 1
         /\ a = n * (a \div n) + (a % n)
  OBVIOUS

\* The remainder is unique.
LEMMA ModUnique ==
  ASSUME NEW n \in Nat \ {0}, NEW q \in Int, NEW r \in 0 .. n - 1
  PROVE  (n * q + r) % n = r
<1> DEFINE a == n * q + r
           d == a \div n
           m == a % n
<1>1. a \in Int
  OBVIOUS
<1>2. d \in Int /\ m \in 0 .. n - 1 /\ a = n * d + m
  BY <1>1, DivMod
<1> HIDE DEF d, m
<1>3. ~(d < q)
  <2>1. SUFFICES ASSUME d < q PROVE FALSE
    OBVIOUS
  <2>2. n * d + n <= n * q
    BY <1>2, <2>1, MultiplesApart
  <2> QED BY <1>2, <2>2
<1>4. ~(q < d)
  <2>1. SUFFICES ASSUME q < d PROVE FALSE
    OBVIOUS
  <2>2. n * q + n <= n * d
    BY <1>2, <2>1, MultiplesApart
  <2> QED BY <1>2, <2>2
<1>5. d = q
  BY <1>2, <1>3, <1>4
<1>6. m = r
  BY <1>2, <1>5
<1> QED BY <1>6 DEF m

\* Going on by less than what is left of a lap does not wrap.
LEMMA ModAdd ==
  ASSUME NEW n \in Nat \ {0}, NEW a \in Int, NEW i \in Nat, (a % n) + i < n
  PROVE  (a + i) % n = (a % n) + i
<1> DEFINE d == a \div n
           m == a % n
<1>1. d \in Int /\ m \in 0 .. n - 1 /\ a = n * d + m
  BY DivMod
<1> HIDE DEF d
<1>2. m + i \in 0 .. n - 1
  BY <1>1
<1>3. (n * d + (m + i)) % n = m + i
  BY <1>1, <1>2, ModUnique
<1>4. a + i = n * d + (m + i)
  BY <1>1
<1> QED BY <1>3, <1>4

\* A lap later is the same slot.
LEMMA ModLap ==
  ASSUME NEW n \in Nat \ {0}, NEW a \in Int
  PROVE  (a + n) % n = a % n
<1> DEFINE d == a \div n
           m == a % n
<1>1. d \in Int /\ m \in 0 .. n - 1 /\ a = n * d + m
  BY DivMod
<1> HIDE DEF d, m
<1>2. d + 1 \in Int /\ a + n = n * (d + 1) + m
  BY <1>1
<1>3. (n * (d + 1) + m) % n = m
  BY <1>1, <1>2, ModUnique
<1> QED BY <1>2, <1>3 DEF m

\* Two times in one slot are at least a lap apart.
LEMMA SameSlot ==
  ASSUME NEW n \in Nat \ {0}, NEW a \in Int, NEW b \in Int, a % n = b % n, a < b
  PROVE  b - a >= n
<1> DEFINE c == a \div n
           d == b \div n
           r == a % n
<1>1. c \in Int /\ d \in Int /\ r \in 0 .. n - 1 /\ a = n * c + r /\ b = n * d + r
  BY DivMod
<1> HIDE DEF c, d, r
<1>2. c < d
  <2>1. SUFFICES ASSUME d < c \/ c = d PROVE FALSE
    BY <1>1
  <2>2. CASE c = d
    BY <1>1, <2>2
  <2>3. CASE d < c
    <3>1. n * d + n <= n * c
      BY <1>1, <2>3, MultiplesApart
    <3> QED BY <1>1, <3>1
  <2> QED BY <2>1, <2>2, <2>3
<1>3. n * c + n <= n * d
  BY <1>1, <1>2, MultiplesApart
<1> QED BY <1>1, <1>3

\* A counter that wraps at a multiple of n keeps its slot.
LEMMA ModMod ==
  ASSUME NEW n \in Nat \ {0}, NEW w \in Nat \ {0}, NEW a \in Int, w % n = 0
  PROVE  (a % w) % n = a % n
<1> DEFINE d == a \div w
           m == a % w
           e == w \div n
           f == m \div n
           r == m % n
<1>1. d \in Int /\ m \in Int /\ a = w * d + m
  BY DivMod
<1>2. e \in Int /\ w = n * e + (w % n)
  BY DivMod
<1>3. f \in Int /\ r \in 0 .. n - 1 /\ m = n * f + r
  BY <1>1, DivMod
<1> HIDE DEF d, m, e, f, r
<1>4. w = n * e
  BY <1>2
<1>5. w * d = n * (e * d)
  BY <1>1, <1>2, <1>4
<1>6. a = n * (e * d + f) + r
  BY <1>1, <1>2, <1>3, <1>5
<1>7. e * d + f \in Int
  BY <1>1, <1>2, <1>3
<1>8. a % n = r
  BY <1>3, <1>6, <1>7, ModUnique
<1> QED BY <1>8 DEF r, m

\* A remainder of a multiple of p by a multiple of p is a multiple of p.
LEMMA ModMultiple ==
  ASSUME NEW p \in Nat \ {0}, NEW n \in Nat \ {0}, NEW a \in Int, n % p = 0, a % p = 0
  PROVE  (a % n) % p = 0
  BY ModMod

\* A multiple of p below a multiple of p leaves room for p.
LEMMA PeriodFits ==
  ASSUME NEW p \in Nat \ {0}, NEW n \in Nat \ {0}, NEW x \in 0 .. n - 1,
         n % p = 0, x % p = 0
  PROVE  x + p <= n
<1> DEFINE u == x \div p
           v == n \div p
<1>1. u \in Int /\ v \in Int /\ x = p * u + (x % p) /\ n = p * v + (n % p)
  BY DivMod
<1> HIDE DEF u, v
<1>2. x = p * u /\ n = p * v
  BY <1>1
<1>3. u < v
  <2>1. SUFFICES ASSUME v < u \/ u = v PROVE FALSE
    BY <1>1
  <2>2. CASE u = v
    BY <1>2, <2>2
  <2>3. CASE v < u
    <3>1. p * v + p <= p * u
      BY <1>1, <2>3, MultiplesApart
    <3> QED BY <1>2, <3>1
  <2> QED BY <2>1, <2>2, <2>3
<1> QED BY <1>1, <1>2, <1>3, MultiplesApart

-----------------------------------------------------------------------------
(* The inductive invariant.                                                *)

\* Where the clock lets the heads be, and how far ahead the HAL has written.
Timing ==
  /\ clock <= FrameNumber + DaemonLate
  /\ clock <= cycle + HalLate
  /\ FrameNumber <= clock + Period
  /\ Lead <= cycle
  /\ \A t \in written : t < clock + Lead + IOFrames

\* The capture ring holds the last lap of captured frames.
DownHolds ==
  \A t \in FrameNumber - Ring .. FrameNumber - 1 : t >= 0 => buf_down[t % Ring] = t

\* The playback ring holds what is written of the lap that is played next, and
\* silence in the rest of it.
UpHolds ==
  \A t \in FrameNumber - Period .. FrameNumber - Period + Ring - 1 :
    buf_up[t % Ring] = IF t \in written THEN t ELSE Silence

\* What has been played lies before what is played next.
PlayedPast ==
  /\ played.at \in Int
  /\ \A i \in DOMAIN played.frames : i \in Int /\ played.at + i < FrameNumber - Period

\* The inductive invariant.
Inv == /\ TypeOK /\ Timing /\ DownHolds /\ UpHolds /\ PlayedPast
       /\ CopiesInRing /\ InputIntact /\ OutputIntact

-----------------------------------------------------------------------------
(* Where the copies land.                                                  *)

\* The constants, as the proofs use them.
LEMMA Constants ==
  /\ Ring \in Nat \ {0} /\ Word \in Nat \ {0} /\ Period \in Nat \ {0}
  /\ Ring % Period = 0 /\ Word % Ring = 0
  /\ IOFrames \in 1 .. Ring /\ Lead \in Nat
  /\ SafetyOffset \in Nat /\ DaemonLate \in Nat /\ HalLate \in Nat
  /\ Lead = IOFrames - 1 + SafetyOffset
  /\ DaemonLate < SafetyOffset /\ HalLate <= Lead
  /\ Period + Lead + HalLate <= Ring
  /\ Period + Lead + IOFrames + DaemonLate <= Ring
<1>1. IOFrames \in 1 .. Ring /\ Ring \in Nat /\ SafetyOffset \in Nat
  BY RingAssumption, IOAssumption, SlackAssumption
<1>2. Lead \in Nat /\ Lead = IOFrames - 1 + SafetyOffset
  BY <1>1 DEF Lead
<1> QED
  BY <1>1, <1>2, RingAssumption, WordAssumption, PeriodAssumption, SlackAssumption

\* send_offset is the slot of the cursor's frame, and recv_offset that of the
\* frame a period before, the wrapped first one included.
LEMMA Offsets ==
  ASSUME NEW f \in Nat
  PROVE  /\ send_offset(f % Word) = f % Ring
         /\ recv_offset(f % Word) = (f - Period) % Ring
<1>1. /\ Word \in Nat \ {0} /\ Ring \in Nat \ {0} /\ Word % Ring = 0
      /\ Period \in Int /\ f \in Int /\ f - Period \in Int
  BY Constants
<1>2. (f % Word) % Ring = f % Ring
  BY <1>1, ModMod
<1> DEFINE d == f \div Word
           m == f % Word
           g == m - Period
           e == g \div Word
           r == g % Word
<1>3. d \in Int /\ m \in Int /\ f = Word * d + m
  BY <1>1, DivMod
<1>4. g \in Int
  BY <1>1, <1>3
<1> HIDE DEF g
<1>5. e \in Int /\ r \in 0 .. Word - 1 /\ g = Word * e + r
  BY <1>1, <1>4, DivMod
<1> HIDE DEF d, m, e, r
<1>6. d + e \in Int /\ f - Period = Word * (d + e) + r
  BY <1>1, <1>3, <1>5 DEF g
<1>7. (Word * (d + e) + r) % Word = r
  BY <1>1, <1>5, <1>6, ModUnique
<1>8. ((f - Period) % Word) % Ring = (f - Period) % Ring
  BY <1>1, ModMod
<1>9. r % Ring = (f - Period) % Ring
  BY <1>6, <1>7, <1>8
<1> QED BY <1>2, <1>9 DEF send_offset, recv_offset, r, g, m

\* A copy that starts on a period boundary stays inside the ring, and copies
\* frame f + i to the slot of f + i.
LEMMA CopyInRing ==
  ASSUME NEW f \in Int, f % Period = 0
  PROVE  /\ f % Ring \in Slots /\ (f % Ring) + Period <= Ring
         /\ Copied(f % Ring) \subseteq Slots
         /\ \A i \in 0 .. Period - 1 : (f + i) % Ring = (f % Ring) + i
<1>1. f % Ring \in 0 .. Ring - 1
  BY Constants, DivMod
<1>2. (f % Ring) % Period = 0
  BY Constants, ModMultiple
<1>3. (f % Ring) + Period <= Ring
  BY <1>1, <1>2, Constants, PeriodFits
<1>4. \A i \in 0 .. Period - 1 : (f + i) % Ring = (f % Ring) + i
  <2> TAKE i \in 0 .. Period - 1
  <2>1. i \in Nat /\ (f % Ring) + i < Ring
    BY <1>1, <1>3, Constants
  <2> QED BY <2>1, Constants, ModAdd
<1>5. Copied(f % Ring) \subseteq Slots
  BY <1>1, <1>3, Constants DEF Copied, Slots
<1> QED BY <1>1, <1>3, <1>4, <1>5 DEF Slots

\* Of the frames within a lap, exactly those of the copy have a copied slot.
LEMMA CopiedFrames ==
  ASSUME NEW f \in Int, f % Period = 0, NEW t \in Int,
         f + Period - Ring <= t, t < f + Ring
  PROVE  t % Ring \in Copied(f % Ring) <=> t \in f .. f + Period - 1
<1>1. /\ f % Ring \in 0 .. Ring - 1 /\ (f % Ring) + Period <= Ring
      /\ \A i \in 0 .. Period - 1 : (f + i) % Ring = (f % Ring) + i
  BY CopyInRing DEF Slots
<1>2. ASSUME t \in f .. f + Period - 1
      PROVE  t % Ring \in Copied(f % Ring)
  <2>1. t - f \in 0 .. Period - 1 /\ t = f + (t - f)
    BY <1>2, Constants
  <2>2. t % Ring = (f % Ring) + (t - f)
    BY <1>1, <2>1
  <2> QED BY <1>1, <2>1, <2>2, Constants DEF Copied
<1>3. ASSUME t % Ring \in Copied(f % Ring), t \notin f .. f + Period - 1
      PROVE  FALSE
  <2> DEFINE i == (t % Ring) - (f % Ring)
  <2>1. t % Ring \in Int
    BY Constants, DivMod
  <2>2. i \in 0 .. Period - 1
    BY <1>1, <1>3, <2>1, Constants DEF Copied
  <2>3. (f + i) % Ring = t % Ring
    BY <1>1, <2>1, <2>2
  <2> DEFINE g == f + i
  <2>4. g \in Int /\ g \in f .. f + Period - 1 /\ Ring \in Nat \ {0}
    BY <2>2, Constants
  <2>5. g % Ring = t % Ring /\ g # t
    BY <1>3, <2>3, <2>4
  <2> HIDE DEF g
  <2>6. CASE t < g
    <3>1. g - t >= Ring
      BY <2>4, <2>5, <2>6, SameSlot
    <3> QED BY <2>4, <3>1, Constants
  <2>7. CASE g < t
    <3>1. t - g >= Ring
      BY <2>4, <2>5, <2>7, SameSlot
    <3> QED BY <2>4, <3>1, Constants
  <2> QED BY <2>4, <2>5, <2>6, <2>7
<1> QED BY <1>2, <1>3

\* The two memcpy calls of an IO cycle put frame s + i into its slot.
LEMMA HalSlots ==
  ASSUME NEW s \in Int, NEW i \in 0 .. IOFrames - 1
  PROVE  HalSlot(s, i) = (s + i) % Ring
<1> DEFINE d == s \div Ring
           m == s % Ring
<1>1. d \in Int /\ m \in 0 .. Ring - 1 /\ s = Ring * d + m
  BY Constants, DivMod
<1>2. CASE m + i < Ring
  <2>1. (s + i) % Ring = m + i
    BY <1>2, Constants, ModAdd
  <2> QED BY <1>1, <1>2, <2>1, Constants DEF HalSlot
<1>3. CASE m + i >= Ring
  <2>1. HalSlot(s, i) = m + i - Ring
    BY <1>1, <1>3, Constants DEF HalSlot
  <2> HIDE DEF d, m
  <2>2. m + i - Ring \in 0 .. Ring - 1
    BY <1>1, <1>3, Constants
  <2>3. d + 1 \in Int /\ s + i = Ring * (d + 1) + (m + i - Ring)
    BY <1>1, Constants
  <2>4. (Ring * (d + 1) + (m + i - Ring)) % Ring = m + i - Ring
    BY <2>2, <2>3, Constants, ModUnique
  <2> QED BY <2>1, <2>3, <2>4
<1> QED BY <1>1, <1>2, <1>3, Constants

-----------------------------------------------------------------------------
(* The invariant is kept.                                                  *)

\* Both rings start out silent and nothing has been written or played.
LEMMA InitInv == Init => Inv
<1> SUFFICES ASSUME Init PROVE Inv
  OBVIOUS
<1> USE DEF Init
<1>1. cycle \in Nat /\ Lead <= cycle
  BY Constants DEF FirstCycles
<1>2. FrameNumber % Period = 0
  <2>1. (Period * 0 + 0) % Period = 0
    BY Constants, ModUnique
  <2> QED BY <2>1, Constants
<1>3. TypeOK
  BY <1>1, <1>2 DEF TypeOK, Frame, Silence
<1>4. Timing
  BY <1>1, Constants DEF Timing
<1>5. DownHolds
  BY Constants DEF DownHolds
<1>6. UpHolds
  <2> SUFFICES ASSUME NEW t \in FrameNumber - Period .. FrameNumber - Period + Ring - 1
               PROVE  buf_up[t % Ring] = IF t \in written THEN t ELSE Silence
    BY DEF UpHolds
  <2>1. Ring \in Nat \ {0} /\ t \in Int
    BY Constants
  <2>2. t % Ring \in Slots
    BY <2>1, DivMod DEF Slots
  <2> QED BY <2>2
<1>7. CopiesInRing
  BY DEF CopiesInRing
<1>8. PlayedPast /\ InputIntact /\ OutputIntact
  BY DEF PlayedPast, InputIntact, OutputIntact
<1> QED BY <1>3, <1>4, <1>5, <1>6, <1>7, <1>8 DEF Inv

\* A callback plays the period before its own: what has been written of it.
LEMMA PlayedFrames ==
  ASSUME Inv, process_callback
  PROVE  /\ played' = [at |-> FrameNumber - Period,
                       frames |-> [i \in 0 .. Period - 1 |->
                                     IF FrameNumber - Period + i \in written
                                       THEN FrameNumber - Period + i ELSE Silence]]
         /\ FrameNumber' = FrameNumber + Period
         /\ UNCHANGED <<cycle, got, written>>
<1> DEFINE G == FrameNumber - Period
<1>1. FrameNumber \in Nat /\ G \in Int /\ FrameNumber % Period = 0
  BY Constants DEF Inv, TypeOK
<1>2. G % Period = 0
  <2>1. (G + Period) % Period = G % Period
    BY <1>1, Constants, ModLap
  <2>2. G + Period = FrameNumber
    BY <1>1, Constants
  <2> QED BY <1>1, <2>1, <2>2
<1>3. recv_offset(FrameNumber % Word) = G % Ring
  BY <1>1, Offsets
<1>4. /\ played' = [at |-> G, frames |-> ring_read(buf_up, G % Ring)]
      /\ FrameNumber' = FrameNumber + Period
      /\ UNCHANGED <<cycle, got, written>>
  BY <1>3 DEF process_callback, advance
<1>5. ASSUME NEW i \in 0 .. Period - 1
      PROVE  buf_up[(G % Ring) + i] = IF G + i \in written THEN G + i ELSE Silence
  <2>1. G + i \in FrameNumber - Period .. FrameNumber - Period + Ring - 1
    BY <1>1, Constants
  <2>2. (G + i) % Ring = (G % Ring) + i
    BY <1>1, <1>2, CopyInRing
  <2> QED BY <2>1, <2>2 DEF Inv, UpHolds
<1> QED BY <1>4, <1>5 DEF ring_read

\* An IO cycle records the frames a lead ago when the device is alive, and
\* either sends those a lead ahead or none.
LEMMA RecordedFrames ==
  ASSUME Inv, DoIOOperation
  PROVE  /\ got' = [at |-> cycle - Lead, live |-> mDeviceIsAlive,
                    frames |-> [i \in 0 .. IOFrames - 1 |->
                                  IF mDeviceIsAlive THEN cycle - Lead + i ELSE Silence]]
         /\ cycle' = cycle + IOFrames
         /\ \/ written' = written
            \/ written' = written \cup (cycle + Lead .. cycle + Lead + IOFrames - 1)
         /\ UNCHANGED <<FrameNumber, played>>
<1> DEFINE s == cycle - Lead
<1>1. FrameNumber \in Nat /\ clock \in Nat /\ cycle \in Nat /\ s \in Int
  BY Constants DEF Inv, TypeOK
<1>2. clock >= cycle /\ ReadInputData(s)
  BY DEF DoIOOperation
<1>3. ASSUME NEW i \in 0 .. IOFrames - 1
      PROVE  buf_down[HalSlot(s, i)] = s + i
  <2>1. s + i \in FrameNumber - Ring .. FrameNumber - 1 /\ s + i >= 0
    BY <1>1, <1>2, Constants DEF Inv, Timing
  <2>2. HalSlot(s, i) = (s + i) % Ring
    BY <1>1, HalSlots
  <2> QED BY <2>1, <2>2 DEF Inv, DownHolds
<1>4. got' = [at |-> s, live |-> mDeviceIsAlive,
              frames |-> [i \in 0 .. IOFrames - 1 |-> IF mDeviceIsAlive THEN s + i ELSE Silence]]
  BY <1>2, <1>3 DEF ReadInputData
<1>5. /\ cycle' = cycle + IOFrames
      /\ \/ written' = written
         \/ written' = written \cup (cycle + Lead .. cycle + Lead + IOFrames - 1)
      /\ UNCHANGED <<FrameNumber, played>>
  BY DEF DoIOOperation, WriteOutputData
<1> QED BY <1>4, <1>5

\* The callback: the capture copy lands on the oldest period of the lap, the
\* playback copy takes the period that is due and leaves silence for the next.
LEMMA CallbackInv == Inv /\ process_callback => Inv'
<1> SUFFICES ASSUME Inv, process_callback PROVE Inv'
  OBVIOUS
<1> USE DEF Inv
<1> DEFINE F == FrameNumber
           G == FrameNumber - Period
           captured == [i \in 0 .. Period - 1 |-> F + i]
<1>1. F \in Nat /\ G \in Int /\ F % Period = 0 /\ clock \in Nat /\ cycle \in Nat
  BY Constants DEF TypeOK
<1>2. G % Period = 0
  <2>1. (G + Period) % Period = G % Period
    BY <1>1, Constants, ModLap
  <2>2. G + Period = F
    BY <1>1, Constants
  <2> QED BY <1>1, <2>1, <2>2
<1>3. send_offset(F % Word) = F % Ring /\ recv_offset(F % Word) = G % Ring
  BY <1>1, Offsets
<1>4. /\ clock >= F
      /\ buf_down' = ring_write(buf_down, F % Ring, captured)
      /\ played' = [at |-> G, frames |-> ring_read(buf_up, G % Ring)]
      /\ buf_up' = ring_clear(buf_up, G % Ring)
      /\ touched' = Copied(F % Ring) \cup Copied(G % Ring)
      /\ FrameNumber' = F + Period
      /\ UNCHANGED <<clock, cycle, mDeviceIsAlive, got, written>>
  BY <1>3 DEF process_callback, advance
<1>5. /\ Copied(F % Ring) \subseteq Slots
      /\ \A i \in 0 .. Period - 1 : (F + i) % Ring = (F % Ring) + i
  BY <1>1, CopyInRing
<1>6. /\ Copied(G % Ring) \subseteq Slots
      /\ \A i \in 0 .. Period - 1 : (G + i) % Ring = (G % Ring) + i
  BY <1>1, <1>2, CopyInRing
<1>7. F % Ring \in Int /\ G % Ring \in Int
  BY <1>1, Constants, DivMod
<1> HIDE DEF F, G
<1>8. TypeOK'
  <2>1. FrameNumber' \in Nat /\ FrameNumber' % Period = 0
    <3>1. F \in Int /\ Period \in Nat \ {0}
      BY <1>1, Constants
    <3>2. (F + Period) % Period = F % Period
      BY <3>1, ModLap
    <3> QED BY <1>1, <1>4, <3>2, Constants
  <2>2. buf_down' \in [Slots -> Frame]
    <3> SUFFICES ASSUME NEW k \in Slots
                 PROVE  (IF k \in Copied(F % Ring) THEN captured[k - (F % Ring)]
                                                   ELSE buf_down[k]) \in Frame
      BY <1>4 DEF ring_write
    <3>1. CASE k \in Copied(F % Ring)
      BY <1>1, <1>7, <3>1, Constants DEF Copied, Frame
    <3>2. CASE k \notin Copied(F % Ring)
      BY <3>2 DEF TypeOK
    <3> QED BY <3>1, <3>2
  <2>3. buf_up' \in [Slots -> Frame]
    BY <1>4 DEF ring_clear, TypeOK, Frame
  <2> QED BY <1>4, <2>1, <2>2, <2>3 DEF TypeOK
<1>9. Timing'
  BY <1>1, <1>4, Constants DEF Timing, F
<1>10. DownHolds'
  <2> SUFFICES ASSUME NEW t \in F + Period - Ring .. F + Period - 1, t >= 0
               PROVE  buf_down'[t % Ring] = t
    <3>1. FrameNumber' = F + Period
      BY <1>4
    <3>2. /\ FrameNumber' - Ring = F + Period - Ring
          /\ FrameNumber' - 1 = F + Period - 1
      BY <1>1, <3>1, Constants
    <3> QED BY <3>2 DEF DownHolds
  <2>1. t \in Int /\ t % Ring \in Slots
    BY <1>1, Constants, DivMod DEF Slots
  <2>2. t % Ring \in Copied(F % Ring) <=> t \in F .. F + Period - 1
    <3>1. F \in Int /\ F + Period - Ring <= t /\ t < F + Ring
      BY <1>1, <2>1, Constants
    <3> QED BY <1>1, <2>1, <3>1, CopiedFrames
  <2>3. buf_down'[t % Ring] = IF t % Ring \in Copied(F % Ring)
                                THEN captured[(t % Ring) - (F % Ring)]
                                ELSE buf_down[t % Ring]
    BY <1>4, <2>1 DEF ring_write
  <2>4. CASE t \in F .. F + Period - 1
    <3>1. t - F \in 0 .. Period - 1 /\ F + (t - F) = t
      BY <1>1, <2>4, Constants
    <3>2. t % Ring = (F % Ring) + (t - F)
      BY <1>5, <3>1
    <3>3. (t % Ring) - (F % Ring) = t - F
      BY <1>1, <1>7, <2>1, <3>2
    <3> QED BY <2>2, <2>3, <2>4, <3>1, <3>3
  <2>5. CASE t \notin F .. F + Period - 1
    <3>1. t \in F - Ring .. F - 1
      BY <1>1, <2>1, <2>5, Constants
    <3>2. buf_down[t % Ring] = t
      BY <3>1 DEF DownHolds, F
    <3> QED BY <2>2, <2>3, <2>5, <3>2
  <2> QED BY <2>4, <2>5
<1>11. UpHolds'
  <2>1. \A t \in F .. F + Ring - 1 :
          buf_up'[t % Ring] = IF t \in written THEN t ELSE Silence
    <3> SUFFICES ASSUME NEW t \in F .. F + Ring - 1
                 PROVE  buf_up'[t % Ring] = IF t \in written THEN t ELSE Silence
      OBVIOUS
    <3>1. t \in Int /\ t % Ring \in Slots
      BY <1>1, Constants, DivMod DEF Slots
    <3>2. buf_up'[t % Ring] = IF t % Ring \in Copied(G % Ring) THEN Silence
                                                               ELSE buf_up[t % Ring]
      BY <1>4, <3>1 DEF ring_clear
    <3>3. CASE t < G + Ring
      <4>1. t % Ring \in Copied(G % Ring) <=> t \in G .. G + Period - 1
        <5>1. G + Period - Ring <= t
          BY <1>1, <3>1, Constants DEF F, G
        <5> QED BY <1>1, <1>2, <3>1, <3>3, <5>1, CopiedFrames
      <4>2. t % Ring \notin Copied(G % Ring)
        BY <1>1, <4>1, Constants DEF F, G
      <4>3. t \in FrameNumber - Period .. FrameNumber - Period + Ring - 1
        BY <1>1, <3>1, <3>3, Constants DEF F, G
      <4> QED BY <3>2, <4>2, <4>3 DEF UpHolds
    <3>4. CASE t >= G + Ring
      <4> DEFINE u == t - Ring
      <4>1. u \in Int /\ u + Ring = t /\ u \in G .. G + Period - 1
        BY <1>1, <3>1, <3>4, Constants DEF F, G
      <4> HIDE DEF u
      <4>2. u % Ring = t % Ring
        BY <4>1, Constants, ModLap
      <4>3. u % Ring \in Copied(G % Ring)
        <5>1. G + Period - Ring <= u /\ u < G + Ring
          BY <1>1, <4>1, Constants
        <5> QED BY <1>1, <1>2, <4>1, <5>1, CopiedFrames
      <4>4. t \notin written
        BY <1>1, <1>4, <3>1, <3>4, Constants DEF Timing, F, G
      <4> QED BY <3>2, <4>2, <4>3, <4>4
    <3> QED BY <1>1, <3>1, <3>3, <3>4, Constants
  <2>2. FrameNumber' - Period = F
    BY <1>1, <1>4, Constants
  <2> QED BY <1>4, <2>1, <2>2 DEF UpHolds
<1>12. CopiesInRing' /\ PlayedPast'
  <2>1. CopiesInRing'
    BY <1>4, <1>5, <1>6 DEF CopiesInRing
  <2>2. PlayedPast'
    <3>1. played'.at = G /\ DOMAIN played'.frames = 0 .. Period - 1
      BY <1>4 DEF ring_read
    <3>2. FrameNumber' - Period = F
      <4>1. FrameNumber' = F + Period
        BY <1>4
      <4> QED BY <1>1, <4>1, Constants
    <3>3. \A i \in 0 .. Period - 1 : i \in Int /\ G + i < F
      BY <1>1, Constants DEF F, G
    <3> QED BY <1>1, <3>1, <3>2, <3>3 DEF PlayedPast
  <2> QED BY <2>1, <2>2
<1>13. InputIntact'
  BY <1>4 DEF InputIntact
<1>14. OutputIntact'
  BY <1>4, PlayedFrames DEF OutputIntact
<1> QED BY <1>8, <1>9, <1>10, <1>11, <1>12, <1>13, <1>14

\* An IO cycle: the frames it reads are in the last captured lap, and those it
\* writes are in the lap that is played next.
LEMMA IOInv == Inv /\ DoIOOperation => Inv'
<1> SUFFICES ASSUME Inv, DoIOOperation PROVE Inv'
  OBVIOUS
<1> USE DEF Inv
<1> DEFINE s == cycle - Lead
           w == cycle + Lead
           IO == 0 .. IOFrames - 1
<1>1. /\ FrameNumber \in Nat /\ clock \in Nat /\ cycle \in Nat
      /\ s \in Nat /\ w \in Nat /\ s \in Int /\ w \in Int
  BY Constants DEF TypeOK, Timing
<1>2. /\ clock >= cycle
      /\ ReadInputData(s)
      /\ WriteOutputData(w) \/ UNCHANGED <<buf_up, written>>
      /\ cycle' = cycle + IOFrames
      /\ UNCHANGED <<clock, FrameNumber, buf_down, mDeviceIsAlive, played, touched>>
  BY DEF DoIOOperation
<1> HIDE DEF s, w
<1>3. \A i \in IO : HalSlot(s, i) = (s + i) % Ring /\ HalSlot(w, i) = (w + i) % Ring
  BY <1>1, HalSlots
<1>4. \A i \in IO : w + i \in FrameNumber - Period .. FrameNumber - Period + Ring - 1
  BY <1>1, <1>2, Constants DEF Timing, w
<1>5. InputIntact'
  <2>1. PICK h : h = [i \in IO |-> IF mDeviceIsAlive THEN cycle - Lead + i ELSE Silence]
    OBVIOUS
  <2>2. got' = [at |-> cycle - Lead, live |-> mDeviceIsAlive, frames |-> h]
    BY <2>1, RecordedFrames
  <2>3. got'.at = cycle - Lead /\ got'.live = mDeviceIsAlive /\ got'.frames = h
    BY <2>2
  <2>4. /\ DOMAIN got'.frames = IO /\ got'.live = mDeviceIsAlive
        /\ \A i \in IO : got'.frames[i] = IF mDeviceIsAlive THEN got'.at + i ELSE Silence
    BY <2>1, <2>3
  <2> QED BY <2>4 DEF InputIntact
<1>6. Timing'
  <2>1. /\ clock' <= FrameNumber' + DaemonLate
        /\ clock' <= cycle' + HalLate
        /\ FrameNumber' <= clock' + Period
        /\ Lead <= cycle'
    BY <1>1, <1>2, Constants DEF Timing
  <2>2. ASSUME NEW t \in written' PROVE t < clock' + Lead + IOFrames
    <3>1. CASE t \in written
      BY <1>2, <3>1 DEF Timing
    <3>2. CASE t \in w .. w + IOFrames - 1
      BY <1>1, <1>2, <3>2, Constants DEF w
    <3> QED BY <1>2, <2>2, <3>1, <3>2 DEF WriteOutputData
  <2> QED BY <2>1, <2>2 DEF Timing
<1>7. CASE UNCHANGED <<buf_up, written>>
  <2>1. TypeOK'
    BY <1>1, <1>2, <1>7, Constants DEF TypeOK
  <2>2. DownHolds' /\ UpHolds' /\ PlayedPast' /\ CopiesInRing' /\ OutputIntact'
    BY <1>2, <1>7 DEF DownHolds, UpHolds, PlayedPast, CopiesInRing, OutputIntact
  <2> QED BY <1>5, <1>6, <2>1, <2>2
<1>8. CASE WriteOutputData(w)
  <2>1. /\ written' = written \cup (w .. w + IOFrames - 1)
        /\ buf_up' = [k \in Slots |->
                        IF \E i \in IO : HalSlot(w, i) = k
                          THEN w + (CHOOSE i \in IO : HalSlot(w, i) = k)
                          ELSE buf_up[k]]
    BY <1>8 DEF WriteOutputData
  <2>2. TypeOK'
    <3>1. written' \subseteq Nat
      BY <1>1, <2>1, Constants DEF TypeOK
    <3>2. buf_up' \in [Slots -> Frame]
      <4> SUFFICES ASSUME NEW k \in Slots PROVE buf_up'[k] \in Frame
        BY <2>1
      <4>1. CASE \E i \in IO : HalSlot(w, i) = k
        <5>1. (CHOOSE i \in IO : HalSlot(w, i) = k) \in IO
          BY <4>1
        <5>2. buf_up'[k] = w + (CHOOSE i \in IO : HalSlot(w, i) = k)
          BY <2>1, <4>1
        <5> QED BY <1>1, <5>1, <5>2, Constants DEF Frame
      <4>2. CASE ~ \E i \in IO : HalSlot(w, i) = k
        BY <2>1, <4>2 DEF TypeOK
      <4> QED BY <4>1, <4>2
    <3> QED BY <1>1, <1>2, <3>1, <3>2, Constants DEF TypeOK
  <2>3. UpHolds'
    <3> SUFFICES ASSUME NEW t \in FrameNumber - Period .. FrameNumber - Period + Ring - 1
                 PROVE  buf_up'[t % Ring] = IF t \in written' THEN t ELSE Silence
      BY <1>2 DEF UpHolds
    <3>1. t \in Int /\ Ring \in Nat \ {0}
      BY <1>1, Constants
    <3>2. t % Ring \in Slots
      BY <3>1, DivMod DEF Slots
    <3>3. ASSUME NEW i \in IO, HalSlot(w, i) = t % Ring
          PROVE  t = w + i
      <4> DEFINE v == w + i
      <4>1. v \in FrameNumber - Period .. FrameNumber - Period + Ring - 1
        BY <1>4
      <4>2. v % Ring = t % Ring
        BY <1>3, <3>3
      <4>3. v \in Int
        BY <1>1, <4>1, Constants
      <4> HIDE DEF v
      <4>4. ~(v < t)
        <5>1. SUFFICES ASSUME v < t PROVE FALSE
          OBVIOUS
        <5>2. t - v >= Ring
          BY <3>1, <4>2, <4>3, <5>1, SameSlot
        <5> QED BY <1>1, <3>1, <4>1, <4>3, <5>2, Constants
      <4>5. ~(t < v)
        <5>1. SUFFICES ASSUME t < v PROVE FALSE
          OBVIOUS
        <5>2. v - t >= Ring
          BY <3>1, <4>2, <4>3, <5>1, SameSlot
        <5> QED BY <1>1, <3>1, <4>1, <4>3, <5>2, Constants
      <4>6. t = v
        BY <3>1, <4>3, <4>4, <4>5
      <4> QED BY <4>6 DEF v
    <3>4. CASE t \in w .. w + IOFrames - 1
      <4>1. t - w \in IO /\ w + (t - w) = t
        BY <1>1, <3>1, <3>4, Constants
      <4>2. HalSlot(w, t - w) = t % Ring
        BY <1>3, <4>1
      <4>3. PICK i \in IO : i = (CHOOSE j \in IO : HalSlot(w, j) = t % Ring)
                            /\ HalSlot(w, i) = t % Ring
        BY <4>1, <4>2
      <4>4. buf_up'[t % Ring] = w + i
        BY <2>1, <3>2, <4>3
      <4>5. t = w + i
        BY <3>3, <4>3
      <4> QED BY <2>1, <3>4, <4>4, <4>5
    <3>5. CASE t \notin w .. w + IOFrames - 1
      <4>1. ASSUME NEW i \in IO PROVE HalSlot(w, i) # t % Ring
        <5>1. w + i \in w .. w + IOFrames - 1
          BY <1>1, Constants
        <5> QED BY <3>3, <3>5, <5>1
      <4>2. buf_up'[t % Ring] = buf_up[t % Ring]
        BY <2>1, <3>2, <4>1
      <4>3. t \in written' <=> t \in written
        BY <2>1, <3>5
      <4> QED BY <4>2, <4>3 DEF UpHolds
    <3> QED BY <3>4, <3>5
  <2>4. OutputIntact'
    <3>1. \A i \in DOMAIN played.frames : played.at + i \notin w .. w + IOFrames - 1
      <4>1. 0 \in IO /\ w >= FrameNumber - Period
        BY <1>1, <1>4, Constants
      <4> QED BY <1>1, <4>1, Constants DEF PlayedPast
    <3> QED BY <1>2, <2>1, <3>1 DEF OutputIntact
  <2>5. DownHolds' /\ PlayedPast' /\ CopiesInRing'
    BY <1>2 DEF DownHolds, PlayedPast, CopiesInRing
  <2> QED BY <1>5, <1>6, <2>2, <2>3, <2>4, <2>5
<1> QED BY <1>2, <1>7, <1>8

\* The watchdog and the clock change neither rings nor heads.
LEMMA OtherInv == Inv /\ (Watchdog \/ Tick \/ UNCHANGED vars) => Inv'
<1> SUFFICES ASSUME Inv, Watchdog \/ Tick \/ UNCHANGED vars PROVE Inv'
  OBVIOUS
<1> USE DEF Inv
<1>1. UNCHANGED <<FrameNumber, cycle, buf_down, buf_up, got, played, written, touched>>
  BY DEF Watchdog, Tick, vars
<1>2. DownHolds' /\ UpHolds' /\ PlayedPast' /\ CopiesInRing' /\ InputIntact' /\ OutputIntact'
  BY <1>1 DEF DownHolds, UpHolds, PlayedPast, CopiesInRing, InputIntact, OutputIntact
<1>3. CASE Tick
  <2>1. TypeOK'
    BY <1>1, <1>3 DEF Tick, TypeOK
  <2>2. clock \in Nat /\ FrameNumber \in Nat /\ cycle \in Nat /\ written \subseteq Nat
    BY DEF TypeOK
  <2>3. Timing'
    BY <1>1, <1>3, <2>2, Constants DEF Tick, Timing
  <2> QED BY <1>2, <2>1, <2>3
<1>4. CASE Watchdog \/ UNCHANGED vars
  <2>1. TypeOK'
    <3>1. mDeviceIsAlive' \in BOOLEAN
      BY <1>4 DEF Watchdog, vars, TypeOK
    <3> QED BY <1>1, <1>4, <3>1 DEF Watchdog, vars, TypeOK
  <2>2. Timing'
    BY <1>1, <1>4 DEF Watchdog, vars, Timing
  <2> QED BY <1>2, <2>1, <2>2
<1> QED BY <1>3, <1>4

\* The invariant holds of every behaviour.
THEOREM Invariance == Spec => []Inv
<1>1. Inv /\ [Next]_vars => Inv'
  BY CallbackInv, IOInv, OtherInv DEF Next
<1> QED BY InitInv, <1>1, PTL DEF Spec

-----------------------------------------------------------------------------
(* What the invariant gives.                                               *)

\* Every variable keeps its type and the cursor stays on a period boundary.
THEOREM TypeCorrect == Spec => []TypeOK
<1>1. Inv => TypeOK
  BY DEF Inv
<1> QED BY Invariance, <1>1, PTL

\* RingCopy's precondition: no copy of the daemon leaves the ring.
THEOREM CopiesStayInRing == Spec => []CopiesInRing
<1>1. Inv => CopiesInRing
  BY DEF Inv
<1> QED BY Invariance, <1>1, PTL

\* ReadInputData returns the captured frames of its sample times, in order, and
\* the daemon plays what WriteOutputData wrote, once and at its sample time.
THEOREM AudioDelivered == Spec => []AudioIntact
<1>1. Inv => AudioIntact
  BY DEF Inv, AudioIntact
<1> QED BY Invariance, <1>1, PTL

-----------------------------------------------------------------------------
(* The refinement.                                                         *)

\* A callback is JACK's turn of the link.
LEMMA CallbackPlays == ASSUME Inv, process_callback PROVE Link!Play
<1>1. FrameNumber \in Nat /\ Period \in Nat
  BY Constants DEF Inv, TypeOK
<1>2. FrameNumber' - Period = (FrameNumber - Period) + Period
  BY <1>1, PlayedFrames
<1> QED BY <1>2, PlayedFrames DEF Link!Play

\* An IO cycle is CoreAudio's turn.  The clock has the callback far enough ahead
\* for what it records, and not so far that what it sends is too late.
LEMMA CycleRecords ==
  ASSUME Inv, DoIOOperation
  PROVE  /\ Link!Record(mDeviceIsAlive)
         /\ Link!Send \/ UNCHANGED written
         /\ UNCHANGED <<FrameNumber - Period, played>>
<1>1. FrameNumber \in Nat /\ clock \in Nat /\ cycle \in Nat
  BY DEF Inv, TypeOK
<1>2. clock >= cycle
  BY DEF DoIOOperation
<1>3. /\ cycle - Lead + IOFrames <= FrameNumber - Period + Period
      /\ FrameNumber - Period + Period <= cycle - Lead + Ring
      /\ FrameNumber - Period <= cycle - Lead + 2 * Lead
      /\ cycle - Lead + 2 * Lead + IOFrames <= FrameNumber - Period + Ring
  BY <1>1, <1>2, Constants DEF Inv, Timing
<1>4. cycle' - Lead = cycle - Lead + IOFrames
  BY <1>1, Constants, RecordedFrames
<1>5. Link!Record(mDeviceIsAlive)
  BY <1>3, <1>4, RecordedFrames DEF Link!Record
<1>6. Link!Send \/ UNCHANGED written
  <2>1. cycle + Lead = cycle - Lead + 2 * Lead
    BY <1>1, Constants
  <2> QED BY <1>3, <2>1, RecordedFrames DEF Link!Send
<1> QED BY <1>5, <1>6, RecordedFrames

\* To JACK and to CoreAudio the two rings are one link that delivers every
\* frame at its sample time.
THEOREM RingsAreALink == Spec => ImplementsLink
<1>1. Init => Link!Init
  <2> SUFFICES ASSUME Init PROVE Link!Init
    OBVIOUS
  <2>1. FrameNumber - Period = -Period /\ cycle - Lead \in 0 .. IOFrames - 1
    BY Constants DEF Init, FirstCycles
  <2> QED BY <2>1 DEF Init, Link!Init
<1>2. Inv /\ [Next]_vars => [Link!Next]_(Link!vars)
  <2> SUFFICES ASSUME Inv, [Next]_vars PROVE Link!Next \/ UNCHANGED Link!vars
    OBVIOUS
  <2>1. CASE process_callback
    BY <2>1, CallbackPlays DEF Link!Next
  <2>2. CASE DoIOOperation
    <3>1. mDeviceIsAlive \in BOOLEAN
      BY DEF Inv, TypeOK
    <3>2. PICK live \in BOOLEAN : live = mDeviceIsAlive
      BY <3>1
    <3>3. Link!Record(live) /\ (Link!Send \/ UNCHANGED written)
          /\ UNCHANGED <<FrameNumber - Period, played>>
      BY <2>2, <3>2, CycleRecords
    <3> QED BY <3>3 DEF Link!Next
  <2>3. CASE Watchdog \/ Tick \/ UNCHANGED vars
    BY <2>3 DEF Watchdog, Tick, vars, Link!vars
  <2> QED BY <2>1, <2>2, <2>3 DEF Next
<1> QED BY <1>1, <1>2, Invariance, PTL DEF Spec, ImplementsLink, Link!Spec
=============================================================================
