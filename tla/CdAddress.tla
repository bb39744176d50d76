----------------------------- MODULE CdAddress ------------------------------
(***************************************************************************)
(* How the console and the drive name a place on the disc to each other:   *)
(* the bytes of GETDIRINFO, READ6, SAPSP, SAPEP and READSUBQ of cue.cpp.   *)
(* A place is a sector number, a time in minutes, seconds and frames, in   *)
(* decimal digits and from 150 sectors before the first, or a track.       *)
(***************************************************************************)
EXTENDS Integers, Sequences

CONSTANT Tracks     \* toc.tracks, a sequence of [start, end, type]

(* What LoadCUE makes of a sheet: at least one track, none overlapping.    *)
TocAssumption ==
  /\ Len(Tracks) \in 1..99
  /\ \A i \in 1..Len(Tracks) :
       /\ Tracks[i].start \in Nat /\ Tracks[i].end \in Nat
       /\ Tracks[i].start < Tracks[i].end
       /\ \A j \in 1..i-1 : Tracks[j].end <= Tracks[i].start

toc_last == Len(Tracks)
toc_end  == Tracks[toc_last].end

(* Less than 100 minutes of sectors, and a disc whose times are.           *)
Fits(l) == l \in Nat /\ (l \div 75) \div 60 <= 99

Disc ==
  /\ TocAssumption
  /\ \A i \in 1..toc_last : Fits(Tracks[i].start + 150)
  /\ Fits(toc_end + 150)

(* A slot behind the last track is blank.                                  *)
Blank   == [start |-> 0, end |-> 0, type |-> 0]
Slot(i) == IF i < toc_last THEN Tracks[i + 1] ELSE Blank

GetTrackByLBA(lba) ==
  CHOOSE i \in 0..toc_last : /\ i = toc_last \/ Slot(i).end > lba
                             /\ \A j \in 0..i-1 : Slot(j).end <= lba
-----------------------------------------------------------------------------
Byte(n) == n % 256

(* The macros BCD and U8: two decimal digits in a byte, and back.          *)
BCD(v) == Byte((v \div 10) * 16 + (v % 10))
U8(v)  == (v \div 16) * 10 + (v % 16)

(* C divides toward zero; a negative distance leaves a byte below 256.     *)
Quotient(a, b)  == IF a >= 0 THEN a \div b ELSE -((-a) \div b)
Remainder(a, b) == a - b * Quotient(a, b)

LBAToMSF(lba) ==
  [m |-> Byte(Quotient(Quotient(lba, 75), 60)),
   s |-> Byte(Remainder(Quotient(lba, 75), 60)),
   f |-> Byte(Remainder(lba, 75))]

(* Mutant: the time counts from the first sector. *)
MSFToLBAFromFirst(m, s, f) == f + s * 75 + m * 60 * 75

MSFToLBA(m, s, f) == f + s * 75 + m * 60 * 75 - 150

Digits(lba) ==
  LET msf == LBAToMSF(lba) IN <<BCD(msf.m), BCD(msf.s), BCD(msf.f)>>
-----------------------------------------------------------------------------
(* Commands are the bytes comm[1], comm[2], ... behind the opcode; replies *)
(* are the bytes buf[2], buf[3], ... behind the length.                    *)

(* GETDIRINFO: the number of tracks, the end of the disc, or where a track *)
(* starts and of what type it is.                                          *)
DirInfo(digits, info) == <<digits[1], digits[2], digits[3], info>>

GetDirInfo(comm) ==
  CASE comm[1] = 1 -> DirInfo(Digits(toc_end + 150), 0)
    [] comm[1] = 2 -> LET track == Slot(U8(comm[2]) - 1)
                      IN DirInfo(Digits(track.start + 150), Byte(track.type * 4))
    [] OTHER       -> DirInfo(<<1, BCD(toc_last), 0>>, 0)

(* READSUBQ: the track and the index, the time since the start of the      *)
(* track and the time on the disc.  The drive's state comes before them.   *)
ReadSubQ(index, lba) ==
  LET rel == Digits(lba - Slot(index).start)
      abs == Digits(lba + 150)
  IN <<BCD(index + 1), BCD(index), rel[1], rel[2], rel[3], abs[1], abs[2], abs[3]>>

(* Three bytes, the highest first.                                         *)
Three(high, mid, low) == (high * 256 + mid) * 256 + low

Read6Place(comm) == Three(comm[1] % 32, comm[2], comm[3])

(* The upper two bits of comm[9] say how SAPSP and SAPEP name the place.   *)
AddressMode(comm) == (comm[9] \div 64) * 64

(* The place in the two modes in which both commands read it alike.        *)
PlaceByTime(comm) ==
  IF AddressMode(comm) = 64
  THEN MSFToLBA(U8(comm[2]), U8(comm[3]), U8(comm[4]))
  ELSE Three(comm[3], comm[4], comm[5])

(* A search by track stays within the tracks there are.                    *)
SapspPlace(comm) ==
  IF AddressMode(comm) # 128 THEN PlaceByTime(comm)
  ELSE LET track == U8(comm[2])
       IN Slot((IF track = 0 THEN 1 ELSE IF track > toc_last THEN toc_last
                ELSE track) - 1).start

(* Sound that is to stop at a track behind the last stops at the end.      *)
SapepPlace(comm) ==
  IF AddressMode(comm) # 128 THEN PlaceByTime(comm)
  ELSE LET track == IF U8(comm[2]) = 0 THEN 1 ELSE U8(comm[2])
       IN IF track - 1 >= toc_last THEN toc_end ELSE Slot(track - 1).start
-----------------------------------------------------------------------------
(***************************************************************************)
(* The console (external): it names the place it means by its sector       *)
(* number, by its time, or, the start of a track, by the track's number.   *)
(* The times of the tracks it takes from the directory as they come.       *)
(***************************************************************************)
High(lba)  == (lba \div 256) \div 256
Mid(lba)   == Byte(lba \div 256)
ByLba(lba) == <<0, 0, High(lba), Mid(lba), Byte(lba), 0, 0, 0, 0>>
ByTime(digits) == <<0, digits[1], digits[2], digits[3], 0, 0, 0, 0, 64>>
ByTrack(track) == <<0, BCD(track), 0, 0, 0, 0, 0, 0, 128>>

(* The three digit pairs that start at byte i of a reply.                  *)
TimeAt(reply, i) == <<reply[i], reply[i + 1], reply[i + 2]>>

Directory(comm) == TimeAt(GetDirInfo(comm), 1)

StartCommands(place) ==
  UNION {{ByTrack(t), ByTime(Directory(<<2, BCD(t)>>))} :
           t \in {u \in 1..toc_last : Tracks[u].start = place}}

EndCommands(place) ==
  IF place = toc_end THEN {ByTrack(toc_last + 1), ByTime(Directory(<<1>>))} ELSE {}

(* All commands that mean this place, for a search and for a stop.         *)
SapspCommands(place) == {ByLba(place), ByTime(Digits(place + 150))} \cup StartCommands(place)
SapepCommands(place) == SapspCommands(place) \cup EndCommands(place)
Read6Commands(place) == {<<High(place), Mid(place), Byte(place)>>}

(* What the console reads from three digit pairs, as a number of sectors.  *)
Sectors(digits) == (U8(digits[1]) * 60 + U8(digits[2])) * 75 + U8(digits[3])
=============================================================================
