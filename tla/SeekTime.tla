------------------------------ MODULE SeekTime ------------------------------
(***************************************************************************)
(* The seek time model of seektime.cpp: how long the head takes from one   *)
(* sector to another, and what cue.cpp makes of it in steps of the drive   *)
(* for a READ6 and for a SAPSP.  The console names the sector it means in  *)
(* one of the ways of CdAddress; a SAPEP names where the sound stops.      *)
(***************************************************************************)
EXTENDS CdAddress

CONSTANTS
  Targets,    \* sectors of the disc that are sought
  Stops       \* sectors at which sound is to stop

ASSUME SeekAssumption ==
  /\ Disc
  /\ \A t \in Targets : t \in Nat /\ t < toc_end
  /\ \A e \in Stops : e \in Nat /\ e <= toc_end

Group(revolution, start, end, rotation) ==
  [sec_per_revolution |-> revolution, sec_start |-> start, sec_end |-> end,
   rotation_ms |-> rotation]

sector_list ==
  << Group(10, 0, 12572, 133),       Group(11, 12573, 30244, 146),
     Group(12, 30245, 49523, 161),   Group(13, 49524, 70408, 174),
     Group(14, 70409, 92900, 187),   Group(15, 92901, 116998, 201),
     Group(16, 116999, 142703, 213), Group(17, 142704, 170014, 226),
     Group(18, 170015, 198932, 240), Group(19, 198933, 229456, 253),
     Group(20, 229457, 261587, 267), Group(21, 261588, 295324, 281),
     Group(22, 295325, 330668, 294), Group(23, 330669, 333012, 307) >>

(* The first group that has the sector, the first of all if none has.      *)
find_group(s) ==
  LET has(i) == sector_list[i].sec_start <= s /\ s <= sector_list[i].sec_end IN
  IF \E i \in DOMAIN sector_list : has(i)
  THEN CHOOSE i \in DOMAIN sector_list : has(i) /\ \A j \in 1..i-1 : ~has(j)
  ELSE 1

Apart(a, b) == IF a < b THEN b - a ELSE a - b

(* Mutant: the groups between are one too many. *)
TrackDifferenceFar(from, to) ==
  LET i == find_group(from)   g == sector_list[i]
      j == find_group(to)     h == sector_list[j]
  IN IF i = j THEN Apart(from, to) \div h.sec_per_revolution
     ELSE IF i < j
     THEN (g.sec_end - from) \div g.sec_per_revolution
          + (to - h.sec_start) \div h.sec_per_revolution + 1607 * (j - i)
     ELSE (from - g.sec_start) \div g.sec_per_revolution
          + (h.sec_end - to) \div h.sec_per_revolution + 1607 * (i - j)

track_difference(from, to) ==
  LET i == find_group(from)   g == sector_list[i]
      j == find_group(to)     h == sector_list[j]
  IN IF i = j THEN Apart(from, to) \div h.sec_per_revolution
     ELSE IF i < j
     THEN (g.sec_end - from) \div g.sec_per_revolution
          + (to - h.sec_start) \div h.sec_per_revolution + 1607 * (j - i - 1)
     ELSE (from - g.sec_start) \div g.sec_per_revolution
          + (h.sec_end - to) \div h.sec_per_revolution + 1607 * (i - j - 1)

(* The times are sixtieths of a second in milliseconds, rounded down.      *)
get_cd_seek_ms(from, to) ==
  LET sectors  == Apart(from, to)
      tracks   == track_difference(from, to)
      rotation == sector_list[find_group(to)].rotation_ms
  IN CASE sectors <= 3 -> 33
       [] sectors \in 4..6 -> 150 + rotation
       [] sectors > 6 /\ tracks <= 80 -> 283 + rotation
       [] sectors > 6 /\ tracks \in 81..160 -> 366 + rotation
       [] tracks \in 161..644 -> 366 + rotation + ((tracks - 161) * 17) \div 80
       [] tracks > 644 -> 600 + rotation + ((tracks - 644) * 17) \div 195
-----------------------------------------------------------------------------
VARIABLES
  lba,                  \* where the head is
  index,                \* the track it is on, counted from 0
  CDDAEnd,              \* where the sound stops
  latency, audiodelay,  \* steps of the drive before it delivers
  seek,                 \* history: the seek under way, [from, to, ms]
  meant                 \* history: the place and the stop the console meant

seekVars == <<lba, index, CDDAEnd, latency, audiodelay, seek, meant>>

SeekInit ==
  /\ lba = 0 /\ index = 0 /\ CDDAEnd = 0 /\ latency = 0 /\ audiodelay = 0
  /\ seek = [from |-> 0, to |-> 0, ms |-> 0]
  /\ meant = [place |-> 0, stop |-> 0]

Move(new_lba) ==
  /\ lba' = new_lba
  /\ index' = GetTrackByLBA(new_lba)
  /\ seek' = [from |-> lba, to |-> new_lba, ms |-> get_cd_seek_ms(lba, new_lba)]

(* READ6 without the fast seek flag and not the next piece of a stream.    *)
Read6(comm) ==
  /\ Move(Read6Place(comm))
  /\ latency' = seek'.ms \div 13 /\ audiodelay' = 0
  /\ UNCHANGED CDDAEnd

(* Mutant: the audio delay is not taken off the latency. *)
SapspTwice(comm) ==
  /\ Move(SapspPlace(comm))
  /\ CDDAEnd' = toc_end
  /\ LET ticks == seek'.ms \div 13   audio == 220 \div 13 IN
     IF ticks > audio THEN latency' = ticks /\ audiodelay' = audio
     ELSE latency' = ticks /\ audiodelay' = 0

(* SAPSP: the last 220 ms of a longer seek are counted as audio delay.     *)
Sapsp(comm) ==
  /\ Move(SapspPlace(comm))
  /\ CDDAEnd' = toc_end
  /\ LET ticks == seek'.ms \div 13   audio == 220 \div 13 IN
     IF ticks > audio THEN latency' = ticks - audio /\ audiodelay' = audio
     ELSE latency' = ticks /\ audiodelay' = 0

Sapep(comm) ==
  /\ CDDAEnd' = SapepPlace(comm)
  /\ UNCHANGED <<lba, index, latency, audiodelay, seek>>

SeekNext ==
  \/ \E t \in Targets : \E comm \in Read6Commands(t) :
       Read6(comm) /\ meant' = [meant EXCEPT !.place = t]
  \/ \E t \in Targets : \E comm \in SapspCommands(t) :
       Sapsp(comm) /\ meant' = [place |-> t, stop |-> toc_end]
  \/ \E e \in Stops : \E comm \in SapepCommands(e) :
       Sapep(comm) /\ meant' = [meant EXCEPT !.stop = e]

SeekSpec == SeekInit /\ [][SeekNext]_seekVars
-----------------------------------------------------------------------------
(* The first track of each group, those before it put together (GroupTable *)
(* of MainLoopProofs), and the track a sector lies on, counted from the    *)
(* middle of the disc.                                                     *)
FirstTrack ==
  << 0, 1257, 2863, 4469, 6075, 7681, 9287, 10893, 12499, 14105, 15711,
     17317, 18923, 20529 >>

Track(s) ==
  LET i == find_group(s)   g == sector_list[i]
  IN FirstTrack[i] + (s - g.sec_start) \div g.sec_per_revolution

(* seektime.cpp: the number of tracks that the head crosses, put together  *)
(* from the ends of the two groups and 1607 for each group between, is the *)
(* distance of the two tracks, but for the roundings.                      *)
CrossesTheTracks ==
  LET groups == Apart(find_group(seek.from), find_group(seek.to))
  IN Apart(track_difference(seek.from, seek.to), Apart(Track(seek.from), Track(seek.to)))
       <= 2 + groups

(* Outward, a drive that is to go further does not deliver earlier,        *)
(* whether data (latency alone) or sound, for which the last 220 ms of the *)
(* seek are an audio delay (cue.cpp:568 and 627).                          *)
FurtherIsLater ==
  \A t \in Targets : seek.from <= seek.to /\ seek.to <= t
    => latency + audiodelay <= get_cd_seek_ms(seek.from, t) \div 13

(* However the console names the place, by a sector number, a time of its  *)
(* own or of the directory or a track, the head goes there and the sound   *)
(* stops there (cue.cpp:593 and 657); and READSUBQ then tells this place,  *)
(* on the disc and, within a track, from the track's start (cue.cpp:705).  *)
PlaceIsMeant ==
  LET subq  == ReadSubQ(index, lba)
      track == U8(subq[1])
  IN /\ lba = meant.place /\ CDDAEnd = meant.stop
     /\ Sectors(TimeAt(subq, 6)) = meant.place + 150
     /\ lba >= Tracks[track].start
        => Sectors(TimeAt(subq, 3)) = meant.place - Tracks[track].start
-----------------------------------------------------------------------------
(* What makes PlaceIsMeant inductive: the head is on the disc, and on one  *)
(* of its tracks or in the pregap before it.                               *)
PlaceInv ==
  /\ meant \in [place : Nat, stop : Nat]
  /\ lba = meant.place /\ CDDAEnd = meant.stop
  /\ lba < toc_end /\ index \in 0..toc_last-1
=============================================================================
