---------------------------- MODULE RingTransfer -----------------------------
(***************************************************************************)
(* The audio rings of the shared memory.  The daemon's callback writes     *)
(* Period captured frames into buf_down and consumes (reads, then zeroes)  *)
(* Period played frames from buf_up, at offsets that RingProjector derives *)
(* from its open-loop FrameNumber; RingCopy does not handle a wrap.        *)
(* CoreAudio's IO cycle reads buf_down and writes buf_up around its own    *)
(* sample time, wrapping.  The two never look at each other's position:    *)
(* only the clock, the safety offset and the ring size keep them apart.    *)
(*                                                                         *)
(* A frame is its sample time; one tick of the clock is one frame.  Every  *)
(* stream is copied by the same loop, so one ring per direction stands for *)
(* all of them.                                                            *)
(***************************************************************************)
EXTENDS Integers

CONSTANTS
  Ring,          \* FramesPerBuffer = mRingBufferFrameSize
  Word,          \* the cursor is an unsigned integer modulo this (2^64)
  Period,        \* nframes of a JACK callback
  IOFrames,      \* inIOBufferFrameSize of an IO cycle
  SafetyOffset,  \* mSafetyOffsetFrames, from JitterFrames
  DaemonLate,    \* how many frames a JACK callback may run late
  HalLate,       \* how many frames an IO cycle may run late
  MaxClock       \* bound: frames of host time explored

Silence == -1    \* a zeroed slot, and what the rings hold before any write

ASSUME RingAssumption   == Ring \in Nat \ {0} /\ Ring % Period = 0
ASSUME WordAssumption   == Word \in Nat \ {0} /\ Word % Ring = 0
ASSUME PeriodAssumption == Period \in Nat \ {0}
ASSUME IOAssumption     == IOFrames \in 1 .. Ring
ASSUME BoundAssumption  == MaxClock \in Nat

\* The lead BeginIOOperation expects between an IO cycle and its input and
\* output times: a buffer, less the fence post, and the safety offset.
Lead == IOFrames - 1 + SafetyOffset

\* What keeps the heads apart: a callback is late by less than the safety
\* offset, an IO cycle by no more than its lead, and the ring holds a period,
\* the lead, and the lateness on either side.
ASSUME SlackAssumption  ==
  /\ SafetyOffset \in Nat /\ DaemonLate \in Nat /\ HalLate \in Nat
  /\ DaemonLate < SafetyOffset /\ HalLate <= Lead
  /\ Period + Lead + HalLate <= Ring
  /\ Period + Lead + IOFrames + DaemonLate <= Ring

VARIABLES
  clock,        \* host time, in frames
  FrameNumber,  \* the daemon's cursor, unwrapped; its callback is due when clock reaches it
  cycle,        \* sample time of the next IO cycle (mCurrentTime); due likewise
  buf_down,     \* daemon -> HAL
  buf_up,       \* HAL -> daemon
  mDeviceIsAlive,
  got,          \* the last ReadInput: sample time, device alive, frames
  played,       \* the last callback's output: sample time and frames
  written,      \* history: the frames the HAL has written
  touched       \* history: the slots of the last daemon copy

vars == <<clock, FrameNumber, cycle, buf_down, buf_up, mDeviceIsAlive, got, played,
          written, touched>>

Slots == 0 .. Ring - 1

-----------------------------------------------------------------------------
(* RingProjector and RingCopy; a cursor is a machine word.                 *)

\* Mutant of send_offset: the copy starts a slot ahead.
send_offset_OffByOne(cursor) == (cursor + 1) % Ring

send_offset(cursor) == cursor % Ring

\* The subtraction wraps below zero on the first callback.
recv_offset(cursor) == ((cursor - Period) % Word) % Ring

\* Slots written by a copy of Period frames; the loop does not wrap.
Copied(offset) == offset .. offset + Period - 1

ring_write(ring, offset, in) ==
  [k \in Slots |-> IF k \in Copied(offset) THEN in[k - offset] ELSE ring[k]]

ring_read(ring, offset) == [i \in 0 .. Period - 1 |-> ring[offset + i]]

\* Mutant of ring_clear: what was read is left in the ring.
ring_clear_Kept(ring, offset) == ring

\* ring_consume reads, then clears what it read.
ring_clear(ring, offset) ==
  [k \in Slots |-> IF k \in Copied(offset) THEN Silence ELSE ring[k]]

-----------------------------------------------------------------------------

\* An IO session begins late enough for its input times not to be negative.
FirstCycles == Lead .. Lead + IOFrames - 1

Init ==
  /\ clock = 0 /\ FrameNumber = 0
  /\ cycle \in FirstCycles
  /\ buf_down = [k \in Slots |-> Silence] /\ buf_up = [k \in Slots |-> Silence]
  /\ mDeviceIsAlive = TRUE
  /\ got = [at |-> 0, live |-> FALSE, frames |-> <<>>] /\ played = [at |-> 0, frames |-> <<>>]
  /\ written = {}
  /\ touched = {}

\* Mutant of advance: a frame short.
advance_Short(cursor) == cursor + Period - 1

advance(cursor) == cursor + Period

\* sendToCoreAudio, receiveFromCoreAudio and the advance of the cursor, in the
\* callback that is due when the clock reaches FrameNumber.
process_callback ==
  /\ clock >= FrameNumber
  /\ LET send == send_offset(FrameNumber % Word)
         recv == recv_offset(FrameNumber % Word)
     IN /\ buf_down' = ring_write(buf_down, send,
                                  [i \in 0 .. Period - 1 |-> FrameNumber + i])
        /\ played' = [at |-> FrameNumber - Period, frames |-> ring_read(buf_up, recv)]
        /\ buf_up' = ring_clear(buf_up, recv)
        /\ touched' = Copied(send) \cup Copied(recv)
  /\ FrameNumber' = advance(FrameNumber)
  /\ UNCHANGED <<clock, cycle, mDeviceIsAlive, got, written>>

\* Where frame i of a transfer at sample time s lies: the two memcpy calls of
\* ReadInputData and WriteOutputData split the transfer at the ring's end.
HalSlot(s, i) ==
  LET start == s % Ring
      first == IF start + IOFrames > Ring THEN Ring - start ELSE IOFrames
  IN IF i < first THEN start + i ELSE i - first

ReadInputData(s) ==
  got' = [at |-> s, live |-> mDeviceIsAlive,
          frames |-> [i \in 0 .. IOFrames - 1 |->
                        IF mDeviceIsAlive THEN buf_down[HalSlot(s, i)] ELSE Silence]]

WriteOutputData(s) ==
  /\ buf_up' = [k \in Slots |->
                 IF \E i \in 0 .. IOFrames - 1 : HalSlot(s, i) = k
                   THEN s + (CHOOSE i \in 0 .. IOFrames - 1 : HalSlot(s, i) = k)
                   ELSE buf_up[k]]
  /\ written' = written \cup (s .. s + IOFrames - 1)

\* One IO cycle: ReadInput of the frames a lead ago and, when an output client
\* is running, WriteMix of those a lead ahead.
DoIOOperation ==
  /\ clock >= cycle
  /\ ReadInputData(cycle - Lead)
  /\ \/ WriteOutputData(cycle + Lead)
     \/ UNCHANGED <<buf_up, written>>
  /\ cycle' = cycle + IOFrames
  /\ UNCHANGED <<clock, FrameNumber, buf_down, mDeviceIsAlive, played, touched>>

\* The watchdog (Lifecycle) flips DeviceIsAlive.
Watchdog ==
  /\ mDeviceIsAlive' = ~mDeviceIsAlive
  /\ UNCHANGED <<clock, FrameNumber, cycle, buf_down, buf_up, got, played, written, touched>>

\* A frame of host time; neither side is later than its bound.
Tick ==
  /\ clock < MaxClock
  /\ clock < FrameNumber + DaemonLate
  /\ clock < cycle + HalLate
  /\ clock' = clock + 1
  /\ UNCHANGED <<FrameNumber, cycle, buf_down, buf_up, mDeviceIsAlive, got, played,
                 written, touched>>

Next == process_callback \/ DoIOOperation \/ Watchdog \/ Tick

Spec == Init /\ [][Next]_vars

-----------------------------------------------------------------------------
(* Properties.                                                             *)

Frame == Nat \cup {Silence}

\* Every variable stays in its type; the cursor stays on a period boundary.
TypeOK ==
  /\ clock \in Nat /\ FrameNumber \in Nat /\ cycle \in Nat
  /\ FrameNumber % Period = 0
  /\ buf_down \in [Slots -> Frame] /\ buf_up \in [Slots -> Frame]
  /\ mDeviceIsAlive \in BOOLEAN
  /\ written \subseteq Nat

\* RingCopy.hpp:27, "Caller must guarantee offset + nframes <= ring_frames":
\* no copy of the daemon leaves the ring, whatever the cursor, the wrapped
\* first receive included.
CopiesInRing == touched \subseteq Slots

\* The audio the DAW records is the captured audio, in order and without gaps
\* or repeats: each ReadInput of a live device returns exactly the frames of
\* its sample times, although writer and reader share nothing but a clock.
InputIntact ==
  \A i \in DOMAIN got.frames :
    got.frames[i] = IF got.live THEN got.at + i ELSE Silence

\* The daemon plays each frame the DAW wrote once, at its sample time, and
\* silence where the DAW wrote nothing: never a frame of an earlier lap of the
\* ring (consuming zeroes it), never a frame early, none skipped.
OutputIntact ==
  \A i \in DOMAIN played.frames :
    played.frames[i] = IF played.at + i \in written THEN played.at + i ELSE Silence

\* Neither direction loses, repeats or shifts audio.
AudioIntact == InputIntact /\ OutputIntact

-----------------------------------------------------------------------------
(* The rings implement a link without rings.                               *)

Link == INSTANCE AudioLink
          WITH Delay    <- 2 * Lead,
               Capacity <- Ring,
               due      <- FrameNumber - Period,
               next     <- cycle - Lead,
               sent     <- written,
               recorded <- got

\* To JACK and to CoreAudio the two rings are one link: every callback and
\* every IO cycle goes on exactly where the last one ended and moves a whole
\* buffer, only captured frames are recorded, no frame is sent too late to be
\* played, and never more than a ring is on its way.
ImplementsLink == Link!Spec
=============================================================================
