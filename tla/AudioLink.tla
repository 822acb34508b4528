------------------------------ MODULE AudioLink ------------------------------
(***************************************************************************)
(* What the bridge promises the audio on its two sides, with no rings, no  *)
(* clock and no lateness: JACK captures and plays Period frames at a time, *)
(* CoreAudio records and sends IOFrames at a time, every turn goes on      *)
(* exactly where the one before ended, and each frame arrives at its       *)
(* sample time.  A frame is its sample time.                               *)
(***************************************************************************)
EXTENDS Integers

CONSTANTS
  Period, IOFrames,
  Delay,     \* what is sent in a turn is this much later than what is recorded
  Capacity,  \* the most frames that are on their way in one direction
  Silence    \* what is not a frame

VARIABLES
  due,       \* the next frame to be played; what is captured ends a period later
  next,      \* the next frame to be recorded
  sent,      \* every frame that has been sent
  recorded,  \* the last frames recorded, and whether the device was alive
  played     \* the last frames played

vars == <<due, next, sent, recorded, played>>

Init ==
  /\ due = -Period
  /\ next \in 0 .. IOFrames - 1
  /\ sent = {}
  /\ recorded = [at |-> 0, live |-> FALSE, frames |-> <<>>]
  /\ played = [at |-> 0, frames |-> <<>>]

\* JACK's turn: another period is captured, and the one that is due is played.
Play ==
  /\ played' = [at |-> due,
                frames |-> [i \in 0 .. Period - 1 |-> IF due + i \in sent THEN due + i ELSE Silence]]
  /\ due' = due + Period
  /\ UNCHANGED <<next, sent, recorded>>

\* CoreAudio's turn: frames that are captured, and not too old, are recorded.
Record(live) ==
  /\ next + IOFrames <= due + Period
  /\ due + Period <= next + Capacity
  /\ recorded' = [at |-> next, live |-> live,
                  frames |-> [i \in 0 .. IOFrames - 1 |-> IF live THEN next + i ELSE Silence]]
  /\ next' = next + IOFrames

\* In its turn it may send frames too, none too late to be played.
Send ==
  LET first == next + Delay
  IN /\ due <= first /\ first + IOFrames <= due + Capacity
     /\ sent' = sent \cup (first .. first + IOFrames - 1)

Next ==
  \/ Play
  \/ /\ \E live \in BOOLEAN : Record(live)
     /\ Send \/ UNCHANGED sent
     /\ UNCHANGED <<due, played>>

Spec == Init /\ [][Next]_vars
=============================================================================
