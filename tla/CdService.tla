----------------------------- MODULE CdService ------------------------------
(***************************************************************************)
(* What the CD drive promises the console's software: a command is         *)
(* answered by its data, piece by piece and in order, and by one status    *)
(* after them.  The status may cut the data short only to say that         *)
(* something went wrong.  A reset, and nothing else, forgets the command.  *)
(***************************************************************************)
EXTENDS Naturals, Sequences

CONSTANTS
  Commands, NoCommand,
  Statuses, GOOD,
  Replies     \* what each command may return

VARIABLES
  asked,      \* the command under way, or NoCommand
  data,       \* what it returns
  got,        \* the pieces of that received so far
  status,     \* empty, or the one status on the bus
  resets      \* how often the console has reset the drive

serviceVars == <<asked, data, got, status, resets>>

Init == asked = NoCommand /\ data = <<>> /\ got = <<>> /\ status = {} /\ resets = 0

Ask(c) ==
  /\ asked = NoCommand
  /\ asked' = c /\ data' \in Replies[c] /\ got' = <<>>
  /\ UNCHANGED <<status, resets>>

Deliver ==
  /\ asked # NoCommand /\ status = {} /\ Len(got) < Len(data)
  /\ got' = Append(got, data[Len(got) + 1])
  /\ UNCHANGED <<asked, data, status, resets>>

Answer(s) ==
  /\ asked # NoCommand /\ status = {}
  /\ s = GOOD => got = data
  /\ status' = {s}
  /\ UNCHANGED <<asked, data, got, resets>>

Take ==
  /\ status # {}
  /\ asked' = NoCommand /\ data' = <<>> /\ status' = {}
  /\ UNCHANGED <<got, resets>>

Reset ==
  /\ asked' = NoCommand /\ data' = <<>> /\ got' = <<>> /\ status' = {}
  /\ resets' = resets + 1

Next ==
  \/ \E c \in Commands : Ask(c)
  \/ Deliver
  \/ \E s \in Statuses : Answer(s)
  \/ Take \/ Reset

Spec == Init /\ [][Next]_serviceVars
=============================================================================
