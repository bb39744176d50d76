------------------------------- MODULE HpsBus -------------------------------
(***************************************************************************)
(* What the HPS transport promises to the slaves on the bus: a frame is    *)
(* opened, its words arrive one by one, each of them once and in order,    *)
(* and it is closed when all of them have arrived.                         *)
(***************************************************************************)
EXTENDS Naturals, Sequences

CONSTANT Frames     \* the frames that may be sent: [to, words]

VARIABLES
  frame,            \* the frame that is open, or NoFrame
  taken             \* the words of it that the slave has taken

busVars == <<frame, taken>>

NoFrame == [to |-> "none", words |-> <<>>]

Init == frame = NoFrame /\ taken = <<>>

Open(f) ==
  /\ frame = NoFrame
  /\ frame' = f /\ taken' = <<>>

Take ==
  /\ frame # NoFrame
  /\ Len(taken) < Len(frame.words)
  /\ taken' = Append(taken, frame.words[Len(taken) + 1])
  /\ UNCHANGED frame

Close ==
  /\ frame # NoFrame
  /\ taken = frame.words
  /\ frame' = NoFrame /\ taken' = <<>>

Next == (\E f \in Frames : Open(f)) \/ Take \/ Close

Spec == Init /\ [][Next]_busVars

FairSpec == Spec /\ WF_busVars(Take) /\ WF_busVars(Close)
=============================================================================
