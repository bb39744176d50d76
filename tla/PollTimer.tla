----------------------------- MODULE PollTimer ------------------------------
(***************************************************************************)
(* The clock of the drive: pcecd_poll (pcecd.cpp) runs in every turn of    *)
(* the main loop and lets the drive make a step when poll_timer, a value   *)
(* of the millisecond counter, has been reached.  Each step moves the      *)
(* deadline on, never the time of the poll, so a late poll costs nothing.  *)
(***************************************************************************)
EXTENDS Integers

CONSTANTS
  Range,     \* number of values of the millisecond counter, 2^32
  MaxTurn,   \* bound: milliseconds between two polls
  Resets,    \* whether the console resets the drive
  Wraps      \* whether the machine runs until the counter wraps around

ASSUME TimerAssumption ==
  /\ Range \in Nat /\ Range > 32
  /\ MaxTurn \in 1..12

ASSUME ScopeAssumption == Resets \in BOOLEAN /\ Wraps \in BOOLEAN

VARIABLES
  millisecond_counter,
  poll_timer, adj, need_reset,
  turn,     \* history: milliseconds since the last poll
  lag,      \* history: by how much true time is past the deadline
  drift     \* history: thirds of a millisecond by which the deadlines of the
            \* steps that do not read are behind 13.33 ms each

vars == <<millisecond_counter, poll_timer, adj, need_reset, turn, lag, drift>>

Init ==
  /\ millisecond_counter \in 0..(Range - 33)
  /\ poll_timer = 0 /\ adj = 0 /\ need_reset = FALSE
  /\ turn = 0 /\ lag = 0 /\ drift = 0

RISCGetTimer2(fraction) == (millisecond_counter + fraction) % Range

(* Mutant: the comparison is the wrong way round. *)
RISCCheckTimer2Swapped(time) == time = 0 \/ RISCGetTimer2(0) <= time

RISCCheckTimer2(time) == time = 0 \/ RISCGetTimer2(0) >= time

(* Mutant: adj has to go below zero, which a byte cannot. *)
NextAdjBelow(a) ==
  LET capped == IF a > 3 THEN 3 ELSE a IN (capped + 255) % 256

(* adj is a byte: 0 - 1 is 255, capped to 3 in the next step.              *)
NextAdj(a) ==
  LET capped == IF a > 3 THEN 3 ELSE a
      less   == (capped + 255) % 256
  IN IF less <= 0 THEN 3 ELSE less

(* Milliseconds to the next step.                                          *)
Frame == IF adj = 3 THEN 14 ELSE 13
Advance(reading) == IF reading THEN 16 ELSE Frame

Step(deadline, late, reading) ==
  /\ poll_timer' = (deadline + Advance(reading)) % Range
  /\ lag' = late - Advance(reading)
  /\ adj' = IF reading THEN adj ELSE NextAdj(adj)
  /\ drift' = IF reading THEN drift ELSE drift + 3 * Frame - 40

(* pcecd_poll up to cue.Update: reading is the drive in state READ with    *)
(* its latency spent, which a reset, done first, ends.  After a reset true *)
(* time owes a step at once.                                               *)
Poll(reading) ==
  LET armed    == IF poll_timer = 0 THEN RISCGetTimer2(13) ELSE poll_timer
      deadline == IF need_reset THEN 0 ELSE armed
      late     == IF need_reset THEN 0 ELSE IF poll_timer = 0 THEN -13 ELSE lag
  IN /\ reading => ~need_reset
     /\ turn' = 0
     /\ IF RISCCheckTimer2(deadline) THEN Step(deadline, late, reading)
        ELSE poll_timer' = deadline /\ lag' = late /\ UNCHANGED <<adj, drift>>
     /\ need_reset' = FALSE
     /\ UNCHANGED millisecond_counter

(* A reset message, later in the same poll.                                *)
ResetMessage ==
  /\ Resets /\ ~need_reset /\ poll_timer # 0
  /\ need_reset' = TRUE
  /\ UNCHANGED <<millisecond_counter, poll_timer, adj, turn, lag, drift>>

Millisecond ==
  /\ turn < MaxTurn
  /\ Wraps \/ millisecond_counter < Range - 17
  /\ millisecond_counter' = (millisecond_counter + 1) % Range
  /\ turn' = turn + 1
  /\ lag' = IF poll_timer = 0 THEN 0 ELSE lag + 1
  /\ UNCHANGED <<poll_timer, adj, need_reset, drift>>

Next == (\E reading \in BOOLEAN : Poll(reading)) \/ ResetMessage \/ Millisecond

Spec == Init /\ [][Next]_vars
-----------------------------------------------------------------------------

TypeOK ==
  /\ millisecond_counter \in 0..Range-1 /\ poll_timer \in 0..Range-1
  /\ adj \in {0, 255, 3, 2, 1} /\ need_reset \in BOOLEAN
  /\ turn \in 0..MaxTurn /\ lag \in Int /\ drift \in Int

(* No step of the drive is made before its time, and none is left out or   *)
(* put off by more than one turn of the loop, however the polls fall       *)
(* (pcecd.cpp: 16.0 ms between frames if reading data, 13.33 otherwise).   *)
OnPace == -16 <= lag /\ lag <= MaxTurn

(* The deadline is never more than one step ahead of the clock, so a burst *)
(* of steps that are due at once, as after a reset, ends when the deadline *)
(* has caught up.                                                          *)
DeadlineNear == poll_timer <= millisecond_counter + 16

(* The steps of 13 and 14 ms that adj deals out average 13.33 ms: after    *)
(* any number of them the deadlines are less than 1.4 ms behind it and     *)
(* never ahead.                                                            *)
NoDrift == -4 <= drift /\ drift <= 0
-----------------------------------------------------------------------------
(* What makes these inductive.                                             *)

CounterTellsLag ==
  /\ ~need_reset /\ millisecond_counter < Range - 16
  /\ poll_timer # 0 => poll_timer = millisecond_counter - lag
  /\ poll_timer = 0 => lag = 0
  /\ lag <= turn

AdjTellsDrift ==
  \/ adj = 0 /\ drift = 0
  \/ adj = 255 /\ drift = -1
  \/ adj = 2 /\ drift = -2
  \/ adj = 1 /\ drift = -3
  \/ adj = 3 /\ drift = -4

PaceInv == TypeOK /\ OnPace /\ CounterTellsLag
DriftInv == TypeOK /\ AdjTellsDrift
NearInv == TypeOK /\ millisecond_counter < Range - 16 /\ DeadlineNear
=============================================================================
