----------------------------- MODULE MCMainLoop -----------------------------
(***************************************************************************)
(* The main loop and what it runs on, in one model: the steps of the drive *)
(* (PollTimer), the seeks that take a number of them (SeekTime, CdAddress),*)
(* the screens, notices and resets (MainLoop), and the allocator (Heap).   *)
(* They share no variable (MainLoop counts its timers down, and has the    *)
(* request for a reset as loop_need_reset), so a behaviour is one of them, *)
(* the one that `part' names, and the others rest.                         *)
(***************************************************************************)
EXTENDS PollTimer, SeekTime, MainLoop, Heap

VARIABLE part
-----------------------------------------------------------------------------
(* The first and the last sector of some groups, and sectors as far from   *)
(* the ends and the middle of the disc as the steps of the time function.  *)
MCTargets ==
  {0, 3, 6, 809, 810, 1609, 1610, 6449, 6450, 12572, 12573,
   29000, 30240, 30244, 30245, 31000, 32000, 49524, 70408,
   142703, 142704, 229457, 333012}

MCStops == {30245, 49524, 333013}

(* Three tracks, the second with a pregap that lies in no track.           *)
MCTracks == << [start |-> 0, end |-> 30240, type |-> 0],
               [start |-> 30245, end |-> 142704, type |-> 1],
               [start |-> 142704, end |-> 333013, type |-> 0] >>

(* Times in units of 100 ms and more: what matters is that the notice      *)
(* outlasts the info screen.                                               *)
MCFiles == {"a", "b"}
MCMissing == {"b"}
MCWaits == {0, 1}

(* The statistics are called when malloc has nothing to give.              *)
MCStatisticsWhen == {TRUE}
-----------------------------------------------------------------------------
allVars == <<part, vars, seekVars, loopVars, heapVars>>

AllInit ==
  /\ part \in {"clock", "seek", "screen", "heap"}
  /\ Init /\ SeekInit /\ LoopInit /\ HeapInit
  /\ part # "clock" => millisecond_counter = 0

InPart(name, A) == part = name /\ A /\ UNCHANGED part
OnScreen(A)  == InPart("screen", A) /\ UNCHANGED <<vars, seekVars, heapVars>>

AllNext ==
  \/ InPart("clock", Next) /\ UNCHANGED <<seekVars, loopVars, heapVars>>
  \/ InPart("seek", SeekNext) /\ UNCHANGED <<vars, loopVars, heapVars>>
  \/ OnScreen(LoopNext)
  \/ InPart("heap", HeapNext) /\ UNCHANGED <<vars, seekVars, loopVars>>

AllSpec ==
  /\ AllInit /\ [][AllNext]_allVars
  /\ WF_allVars(OnScreen(Loop))
  /\ WF_allVars(OnScreen(DisplayMillisecond))
=============================================================================
