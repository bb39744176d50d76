--------------------------- MODULE MainLoopProofs ---------------------------
(***************************************************************************)
(* Proofs about the three models of MCMainLoop.                            *)
(*                                                                         *)
(* CdAddress and SeekTime, for every table of contents of a disc whose     *)
(* times have two digits of minutes: whichever command names it, a place   *)
(* is the one that was meant, and so the head and the end of the sound are *)
(* always where the console meant.                                         *)
(*                                                                         *)
(* SeekTime besides, for all sectors that its table covers: the tracks are *)
(* counted right, and outward a seek that goes further takes longer.       *)
(*                                                                         *)
(* PollTimer, for every width of the counter: the steps of the drive keep  *)
(* their pace until the counter wraps around or the drive is reset, their  *)
(* deadline stays near until it wraps around, and their average is 13.33   *)
(* ms whatever happens.                                                    *)
(*                                                                         *)
(* MainLoop, for all files, waits and times: the error that is set is the  *)
(* one that is shown, and only the notice goes by itself.                  *)
(***************************************************************************)
EXTENDS PollTimer, SeekTime, MainLoop, TLAPS, WellFoundedInduction

(***************************************************************************)
(* The addresses (CdAddress).                                              *)
(***************************************************************************)
(* Two decimal digits survive a byte, and so does the track behind the 99th. *)
LEMMA DigitsOfByte ==
  ASSUME NEW v \in 0..99
  PROVE  U8(BCD(v)) = v
BY DEF BCD, U8, Byte

LEMMA TrackOfByte ==
  ASSUME NEW v \in 1..100
  PROVE  U8(BCD(v)) = v
BY DEF BCD, U8, Byte

(* A number of sectors below 100 minutes has minutes, seconds and frames.  *)
LEMMA TimeOfSectors ==
  ASSUME NEW l, Fits(l)
  PROVE  \E m \in 0..99, s \in 0..99, f \in 0..99 :
           LBAToMSF(l) = [m |-> m, s |-> s, f |-> f] /\ (m * 60 + s) * 75 + f = l
<1> DEFINE q == l \div 75
<1>1. l \in Nat /\ q \in Nat /\ l = 75 * q + (l % 75) /\ l % 75 \in 0..74
  BY DEF Fits
<1>2. q \div 60 \in 0..99
  BY <1>1 DEF Fits
<1>3. q % 60 \in 0..59 /\ q = 60 * (q \div 60) + (q % 60)
  BY <1>1
<1>4. Quotient(l, 75) = q /\ Quotient(q, 60) = q \div 60
  BY <1>1 DEF Quotient
<1>5. Remainder(l, 75) = l % 75 /\ Remainder(q, 60) = q % 60
  BY <1>1, <1>3, <1>4 DEF Remainder
<1>6. LBAToMSF(l) = [m |-> q \div 60, s |-> q % 60, f |-> l % 75]
  BY <1>1, <1>2, <1>3, <1>4, <1>5 DEF LBAToMSF, Byte
<1>7. ((q \div 60) * 60 + (q % 60)) * 75 + (l % 75) = l
  BY <1>1, <1>2, <1>3
<1>8. q \div 60 \in 0..99 /\ q % 60 \in 0..99 /\ l % 75 \in 0..99
  BY <1>1, <1>2, <1>3
<1> HIDE DEF q
<1> USE <1>8
<1> WITNESS q \div 60 \in 0..99, q % 60 \in 0..99, l % 75 \in 0..99
<1> QED
  BY <1>6, <1>7

(* The digits of a time, read back, are that time.                         *)
LEMMA DigitsTell ==
  ASSUME NEW l, Fits(l)
  PROVE  Sectors(Digits(l)) = l
<1>1. PICK m \in 0..99, s \in 0..99, f \in 0..99 :
         LBAToMSF(l) = [m |-> m, s |-> s, f |-> f] /\ (m * 60 + s) * 75 + f = l
  BY TimeOfSectors
<1>2. U8(BCD(m)) = m /\ U8(BCD(s)) = s /\ U8(BCD(f)) = f
  BY <1>1, DigitsOfByte
<1> QED
  BY <1>1, <1>2 DEF Digits, Sectors

(* Three bytes are the number they were taken from.                        *)
LEMMA ThreeBytes ==
  ASSUME NEW l \in Nat
  PROVE  Three(High(l), Mid(l), Byte(l)) = l
<1>1. l = 256 * (l \div 256) + (l % 256) /\ l \div 256 \in Nat
  OBVIOUS
<1>2. ASSUME NEW a \in Nat PROVE a = 256 * (a \div 256) + (a % 256)
  OBVIOUS
<1> QED
  BY <1>1, <1>2 DEF Three, High, Mid, Byte
-----------------------------------------------------------------------------
LEMMA TracksOnDisc ==
  ASSUME Disc
  PROVE  toc_last \in 1..99
BY DEF Disc, TocAssumption, toc_last

(* Its tracks end behind the first sector, and the last ends it.           *)
LEMMA EndOfDisc ==
  ASSUME Disc
  PROVE  /\ \A i \in 1..toc_last : Tracks[i].end \in Nat \ {0}
         /\ toc_end \in Nat \ {0} /\ Slot(toc_last - 1).end = toc_end
<1>1. toc_last \in 1..99
  BY TracksOnDisc
<1>2. ASSUME NEW i \in 1..toc_last PROVE Tracks[i].end \in Nat \ {0}
  <2>1. i \in 1..Len(Tracks)
    BY DEF toc_last
  <2>2. Tracks[i].start \in Nat /\ Tracks[i].end \in Nat /\ Tracks[i].start < Tracks[i].end
    BY <2>1 DEF Disc, TocAssumption
  <2> QED
    BY <2>2
<1>3. toc_end \in Nat \ {0}
  BY <1>1, <1>2 DEF toc_end
<1>4. Slot(toc_last - 1).end = toc_end
  BY <1>1 DEF toc_end, Slot
<1> QED
  BY <1>2, <1>3, <1>4

(* A command by time goes to the sector whose time it has.                 *)
LEMMA TimeGoesThere ==
  ASSUME NEW l, Fits(l)
  PROVE  /\ AddressMode(ByTime(Digits(l))) = 64
         /\ PlaceByTime(ByTime(Digits(l))) = l - 150
<1> DEFINE comm == ByTime(Digits(l))
<1>1. PICK m \in 0..99, s \in 0..99, f \in 0..99 :
         LBAToMSF(l) = [m |-> m, s |-> s, f |-> f] /\ (m * 60 + s) * 75 + f = l
  BY TimeOfSectors
<1>2. U8(BCD(m)) = m /\ U8(BCD(s)) = s /\ U8(BCD(f)) = f
  BY <1>1, DigitsOfByte
<1>3. comm = <<0, BCD(m), BCD(s), BCD(f), 0, 0, 0, 0, 64>>
  BY <1>1 DEF ByTime, Digits
<1>4. AddressMode(comm) = 64
  BY <1>3 DEF AddressMode
<1>5. PlaceByTime(comm) = MSFToLBA(m, s, f)
  BY <1>2, <1>3, <1>4 DEF PlaceByTime
<1>6. MSFToLBA(m, s, f) = l - 150
  BY <1>1 DEF MSFToLBA
<1> QED
  BY <1>4, <1>5, <1>6

(* A command by sector number goes to this sector.                         *)
LEMMA NumberGoesThere ==
  ASSUME NEW l \in Nat
  PROVE  AddressMode(ByLba(l)) = 0 /\ PlaceByTime(ByLba(l)) = l
<1>1. AddressMode(ByLba(l)) = 0
  BY DEF AddressMode, ByLba
<1> QED
  BY <1>1, ThreeBytes DEF PlaceByTime, ByLba

(* The directory tells where a track starts.                               *)
LEMMA DirectoryTellsStart ==
  ASSUME Disc, NEW t \in 1..toc_last
  PROVE  Directory(<<2, BCD(t)>>) = Digits(Tracks[t].start + 150)
<1>1. toc_last \in 1..99
  BY TracksOnDisc
<1>2. t \in 1..100
  BY <1>1
<1>3. U8(BCD(t)) = t
  BY <1>2, TrackOfByte
<1>4. Slot(t - 1) = Tracks[t]
  BY <1>1 DEF Slot
<1>5. GetDirInfo(<<2, BCD(t)>>)
        = DirInfo(Digits(Tracks[t].start + 150), Byte(Tracks[t].type * 4))
  BY <1>3, <1>4 DEF GetDirInfo
<1> QED
  BY <1>5 DEF Directory, TimeAt, DirInfo, Digits
-----------------------------------------------------------------------------
(* For every disc and every sector that is meant, each command by which    *)
(* the console can name it makes the drive search this sector (SAPSP).     *)
THEOREM SearchGoesThere ==
  ASSUME Disc, NEW place \in Nat, Fits(place + 150), NEW comm \in SapspCommands(place)
  PROVE  SapspPlace(comm) = place
<1>1. CASE comm = ByLba(place)
  BY <1>1, NumberGoesThere DEF SapspPlace
<1>2. CASE comm = ByTime(Digits(place + 150))
  BY <1>2, TimeGoesThere DEF SapspPlace
<1>3. CASE comm \in StartCommands(place)
  <2>1. PICK t \in 1..toc_last :
          /\ Tracks[t].start = place
          /\ comm = ByTrack(t) \/ comm = ByTime(Directory(<<2, BCD(t)>>))
    BY <1>3 DEF StartCommands
  <2>2. CASE comm = ByTrack(t)
    <3>1. toc_last \in 1..99 /\ t \in 1..100
      BY <2>1, TracksOnDisc
    <3>2. U8(BCD(t)) = t
      BY <3>1, TrackOfByte
    <3>3. AddressMode(comm) = 128 /\ U8(comm[2]) = t
      BY <2>2, <3>2 DEF AddressMode, ByTrack
    <3>4. Slot(t - 1) = Tracks[t]
      BY <2>1, <3>1 DEF Slot
    <3> QED
      BY <2>1, <3>1, <3>3, <3>4 DEF SapspPlace
  <2>3. CASE comm = ByTime(Directory(<<2, BCD(t)>>))
    <3>1. comm = ByTime(Digits(place + 150))
      BY <2>1, <2>3, DirectoryTellsStart
    <3> QED
      BY <1>2, <3>1, TimeGoesThere DEF SapspPlace
  <2> QED
    BY <2>1, <2>2, <2>3
<1> QED
  BY <1>1, <1>2, <1>3 DEF SapspCommands

(* And makes the sound stop there (SAPEP), the end of the disc included.   *)
THEOREM SoundStopsThere ==
  ASSUME Disc, NEW place \in Nat, Fits(place + 150), NEW comm \in SapepCommands(place)
  PROVE  SapepPlace(comm) = place
<1>1. CASE comm = ByLba(place)
  BY <1>1, NumberGoesThere DEF SapepPlace
<1>2. ASSUME comm = ByTime(Digits(place + 150))
      PROVE  SapepPlace(comm) = place
  BY <1>2, TimeGoesThere DEF SapepPlace
<1>3. CASE comm \in StartCommands(place)
  <2>1. PICK t \in 1..toc_last :
          /\ Tracks[t].start = place
          /\ comm = ByTrack(t) \/ comm = ByTime(Directory(<<2, BCD(t)>>))
    BY <1>3 DEF StartCommands
  <2>2. CASE comm = ByTrack(t)
    <3>1. toc_last \in 1..99 /\ t \in 1..100
      BY <2>1, TracksOnDisc
    <3>2. U8(BCD(t)) = t
      BY <3>1, TrackOfByte
    <3>3. AddressMode(comm) = 128 /\ U8(comm[2]) = t
      BY <2>2, <3>2 DEF AddressMode, ByTrack
    <3>4. Slot(t - 1) = Tracks[t]
      BY <2>1, <3>1 DEF Slot
    <3> QED
      BY <2>1, <3>1, <3>3, <3>4 DEF SapepPlace
  <2>3. CASE comm = ByTime(Directory(<<2, BCD(t)>>))
    <3>1. comm = ByTime(Digits(place + 150))
      BY <2>1, <2>3, DirectoryTellsStart
    <3> QED
      BY <1>2, <3>1
  <2> QED
    BY <2>1, <2>2, <2>3
<1>4. CASE comm \in EndCommands(place)
  <2>1. place = toc_end
    BY <1>4 DEF EndCommands
  <2>2. CASE comm = ByTime(Directory(<<1>>))
    <3>1. Directory(<<1>>) = Digits(toc_end + 150)
      BY DEF Directory, TimeAt, GetDirInfo, DirInfo, Digits
    <3> QED
      BY <1>2, <2>1, <2>2, <3>1
  <2>3. CASE comm = ByTrack(toc_last + 1)
    <3>1. toc_last \in 1..99 /\ toc_last + 1 \in 1..100
      BY TracksOnDisc
    <3>2. U8(BCD(toc_last + 1)) = toc_last + 1
      BY <3>1, TrackOfByte
    <3>3. AddressMode(comm) = 128 /\ U8(comm[2]) = toc_last + 1
      BY <2>3, <3>2 DEF AddressMode, ByTrack
    <3> QED
      BY <2>1, <3>1, <3>3 DEF SapepPlace
  <2> QED
    BY <1>4, <2>2, <2>3 DEF EndCommands
<1> QED
  BY <1>1, <1>2, <1>3, <1>4 DEF SapepCommands, SapspCommands

(* And makes a READ6 start there, as far as its 21 bits reach.             *)
THEOREM ReadStartsThere ==
  ASSUME NEW place \in Nat, High(place) < 32, NEW comm \in Read6Commands(place)
  PROVE  Read6Place(comm) = place
<1>1. comm = <<High(place), Mid(place), Byte(place)>>
  BY DEF Read6Commands
<1>2. High(place) \in 0..31
  BY DEF High
<1>3. comm[1] % 32 = High(place)
  BY <1>1, <1>2
<1> QED
  BY <1>1, <1>3, ThreeBytes DEF Read6Place

(* What fits into two digits of minutes does so when it is less.           *)
LEMMA LessFits ==
  ASSUME NEW a \in Nat, NEW b \in Nat, a <= b, Fits(b)
  PROVE  Fits(a)
<1>1. ASSUME NEW x \in Nat, NEW y \in Nat, x <= y
      PROVE  x \div 75 <= y \div 75 /\ x \div 60 <= y \div 60
  BY <1>1
<1>2. a \div 75 \in Nat /\ b \div 75 \in Nat /\ a \div 75 <= b \div 75
  BY <1>1
<1>3. (a \div 75) \div 60 <= (b \div 75) \div 60
  BY <1>1, <1>2
<1>4. (a \div 75) \div 60 \in Nat /\ (b \div 75) \div 60 \in Nat
  BY <1>2
<1> QED
  BY <1>3, <1>4 DEF Fits

(* READSUBQ tells the console the track and the place of the head on the   *)
(* disc, and from the start of the track, unless the head is in the pregap *)
(* before it.                                                              *)
THEOREM SubQTells ==
  ASSUME Disc, NEW i \in 0..toc_last-1, NEW l \in Nat, Fits(l + 150)
  PROVE  LET subq == ReadSubQ(i, l) IN
         /\ U8(subq[1]) = i + 1
         /\ Sectors(TimeAt(subq, 6)) = l + 150
         /\ l >= Tracks[i + 1].start
              => Sectors(TimeAt(subq, 3)) = l - Tracks[i + 1].start
<1> DEFINE start == Tracks[i + 1].start
           subq  == ReadSubQ(i, l)
<1>1. toc_last \in 1..99 /\ i + 1 \in 1..100 /\ i + 1 \in 1..toc_last /\ i < toc_last
  BY TracksOnDisc
<1>2. start \in Nat /\ Slot(i) = Tracks[i + 1]
  BY <1>1 DEF Disc, TocAssumption, toc_last, Slot
<1>3. Sectors(Digits(l + 150)) = l + 150
  BY DigitsTell
<1>4. ASSUME l >= start PROVE Sectors(Digits(l - start)) = l - start
  <2>1. Fits(l - start)
    BY <1>2, <1>4, LessFits
  <2> QED
    BY <2>1, DigitsTell
<1>5. U8(BCD(i + 1)) = i + 1
  BY <1>1, TrackOfByte
<1>6. /\ subq[1] = BCD(i + 1)
      /\ TimeAt(subq, 3) = Digits(l - start)
      /\ TimeAt(subq, 6) = Digits(l + 150)
  BY <1>2 DEF ReadSubQ, TimeAt, Digits
<1> QED
  BY <1>3, <1>4, <1>5, <1>6
-----------------------------------------------------------------------------
(***************************************************************************)
(* The head (SeekTime): the commands above, one after the other.           *)
(***************************************************************************)
LEMMA LeastNat ==
  ASSUME NEW T \in SUBSET Nat, T # {}
  PROVE  \E m \in T : \A k \in T : m <= k
<1> DEFINE Less == OpToRel(<, Nat)
<1>1. IsWellFoundedOn(Less, Nat) /\ T \subseteq Nat
  BY NatLessThanWellFounded
<1> HIDE DEF Less
<1>2. PICK m \in T : \A k \in T : ~(<<k, m>> \in Less)
  BY <1>1, WFMin
<1>3. \A k \in T : ~(k < m)
  BY <1>2 DEF Less, OpToRel
<1> QED
  BY <1>3

(* The first track that ends behind a sector of the disc is a track.       *)
LEMMA TrackOfSector ==
  ASSUME Disc, NEW l \in Nat, l < toc_end
  PROVE  GetTrackByLBA(l) \in 0..toc_last-1
<1> DEFINE Ends(i) == i = toc_last \/ Slot(i).end > l
           T == {i \in 0..toc_last : Ends(i)}
           First(i) == Ends(i) /\ \A j \in 0..i-1 : Slot(j).end <= l
<1>1. toc_last \in 1..99 /\ toc_end \in Nat /\ \A i \in Nat : Slot(i).end \in Nat
  <2>1. ASSUME NEW i \in Nat PROVE Slot(i).end \in Nat
    <3>1. CASE i < toc_last
      <4>1. i + 1 \in 1..toc_last /\ Slot(i) = Tracks[i + 1]
        BY <3>1, TracksOnDisc DEF Slot
      <4> QED
        BY <4>1, EndOfDisc
    <3>2. CASE ~(i < toc_last)
      BY <3>2 DEF Slot, Blank
    <3> QED
      BY <3>1, <3>2
  <2> QED
    BY <2>1, TracksOnDisc, EndOfDisc
<1>2. T \in SUBSET Nat /\ toc_last - 1 \in T
  BY <1>1, EndOfDisc
<1>3. PICK m \in T : \A k \in T : m <= k
  <2> HIDE DEF T
  <2> QED
    BY <1>2, LeastNat
<1>4. m \in 0..toc_last /\ First(m)
  <2> SUFFICES ASSUME NEW j \in 0..m-1 PROVE Slot(j).end <= l
    BY <1>1
  <2>1. j \in 0..toc_last /\ j \notin T
    BY <1>1, <1>3
  <2> QED
    BY <1>1, <2>1
<1>5. GetTrackByLBA(l) = CHOOSE i \in 0..toc_last : First(i)
  BY DEF GetTrackByLBA
<1>6. GetTrackByLBA(l) \in 0..toc_last /\ First(GetTrackByLBA(l))
  <2> HIDE DEF First
  <2> QED
    BY <1>4, <1>5
<1>7. GetTrackByLBA(l) # toc_last
  <2> SUFFICES ASSUME GetTrackByLBA(l) = toc_last PROVE FALSE
    OBVIOUS
  <2>1. Slot(toc_last - 1).end <= l
    BY <1>1, <1>6
  <2> QED
    BY <1>1, <2>1, EndOfDisc
<1> QED
  BY <1>1, <1>6, <1>7

(* A sector of the disc has a time and fits into 21 bits.                  *)
LEMMA SectorFits ==
  ASSUME Disc, NEW l \in Nat, l <= toc_end
  PROVE  Fits(l + 150) /\ High(l) < 32
<1>1. toc_end \in Nat
  BY EndOfDisc
<1>2. Fits(l + 150)
  BY <1>1, LessFits DEF Disc
<1>3. (l + 150) \div 75 <= 60 * 99 + 59
  BY <1>2 DEF Fits
<1>4. l < 75 * 6000
  BY <1>3
<1>5. l \div 256 < 1800
  BY <1>4
<1>6. (l \div 256) \div 256 < 32
  BY <1>5
<1> QED
  BY <1>2, <1>6 DEF High

(* Every command keeps the head where it was meant.                        *)
LEMMA StepKeepsPlace ==
  ASSUME PlaceInv, [SeekNext]_seekVars
  PROVE  PlaceInv'
<1>1. Disc /\ toc_end \in Nat /\ toc_last \in Nat
  BY SeekAssumption, TracksOnDisc, EndOfDisc
<1>2. ASSUME NEW t \in Targets
      PROVE  /\ t \in Nat /\ t < toc_end /\ Fits(t + 150) /\ High(t) < 32
             /\ GetTrackByLBA(t) \in 0..toc_last-1
  BY <1>1, SeekAssumption, SectorFits, TrackOfSector
<1>3. ASSUME NEW t \in Targets, NEW comm \in Read6Commands(t),
             Read6(comm), meant' = [meant EXCEPT !.place = t]
      PROVE  PlaceInv'
  <2>1. lba' = t /\ index' = GetTrackByLBA(t) /\ CDDAEnd' = CDDAEnd
    BY <1>2, <1>3, ReadStartsThere DEF Read6, Move
  <2>2. meant' \in [place : Nat, stop : Nat] /\ meant'.place = t /\ meant'.stop = meant.stop
    BY <1>2, <1>3 DEF PlaceInv
  <2> QED
    BY <1>2, <2>1, <2>2 DEF PlaceInv
<1>4. ASSUME NEW t \in Targets, NEW comm \in SapspCommands(t),
             Sapsp(comm), meant' = [place |-> t, stop |-> toc_end]
      PROVE  PlaceInv'
  <2>1. lba' = t /\ index' = GetTrackByLBA(t) /\ CDDAEnd' = toc_end
    BY <1>1, <1>2, <1>4, SearchGoesThere DEF Sapsp, Move
  <2>2. meant' \in [place : Nat, stop : Nat] /\ meant'.place = t /\ meant'.stop = toc_end
    BY <1>1, <1>2, <1>4
  <2> QED
    BY <1>2, <2>1, <2>2 DEF PlaceInv
<1>5. ASSUME NEW e \in Stops, NEW comm \in SapepCommands(e),
             Sapep(comm), meant' = [meant EXCEPT !.stop = e]
      PROVE  PlaceInv'
  <2>1. e \in Nat /\ Fits(e + 150)
    BY <1>1, SeekAssumption, SectorFits
  <2>2. CDDAEnd' = e /\ UNCHANGED <<lba, index>>
    BY <1>1, <1>5, <2>1, SoundStopsThere DEF Sapep
  <2>3. meant' \in [place : Nat, stop : Nat] /\ meant'.place = meant.place /\ meant'.stop = e
    BY <1>5, <2>1 DEF PlaceInv
  <2> QED
    BY <2>2, <2>3 DEF PlaceInv
<1>6. CASE UNCHANGED seekVars
  BY <1>6 DEF seekVars, PlaceInv
<1> QED
  BY <1>3, <1>4, <1>5, <1>6 DEF SeekNext

LEMMA InitPlace == SeekInit => PlaceInv
<1>1. Disc /\ toc_end \in Nat /\ toc_last \in 1..99 /\ 0 < toc_end
  BY SeekAssumption, TracksOnDisc, EndOfDisc
<1> QED
  BY <1>1 DEF SeekInit, PlaceInv

(* cue.cpp: whatever commands the console gives, each naming its place in  *)
(* the way it likes, the head and the end of the sound are where it meant, *)
(* and READSUBQ tells it so, for every disc.                               *)
THEOREM HeadIsWhereMeant == SeekSpec => []PlaceIsMeant
<1>1. Disc /\ toc_end \in Nat /\ toc_last \in 1..99 /\ 0 < toc_end
  BY SeekAssumption, TracksOnDisc, EndOfDisc
<1>2. SeekInit => PlaceInv
  BY InitPlace
<1>3. PlaceInv /\ [SeekNext]_seekVars => PlaceInv'
  BY StepKeepsPlace
<1>4. PlaceInv => PlaceIsMeant
  <2> SUFFICES ASSUME PlaceInv PROVE PlaceIsMeant
    OBVIOUS
  <2> DEFINE subq == ReadSubQ(index, lba)
  <2>1. /\ lba = meant.place /\ CDDAEnd = meant.stop /\ lba \in Nat /\ lba < toc_end
        /\ index \in 0..toc_last-1
    BY DEF PlaceInv
  <2>2. Fits(lba + 150)
    BY <1>1, <2>1, SectorFits
  <2>3. /\ U8(subq[1]) = index + 1
        /\ Sectors(TimeAt(subq, 6)) = lba + 150
        /\ lba >= Tracks[index + 1].start
             => Sectors(TimeAt(subq, 3)) = lba - Tracks[index + 1].start
    BY <1>1, <2>1, <2>2, SubQTells
  <2> QED
    BY <2>1, <2>3 DEF PlaceIsMeant
<1> QED
  BY <1>2, <1>3, <1>4, PTL DEF SeekSpec
-----------------------------------------------------------------------------
(***************************************************************************)
(* The seek times (SeekTime).                                              *)
(***************************************************************************)
Rev(i)   == sector_list[i].sec_per_revolution
Start(i) == sector_list[i].sec_start
End(i)   == sector_list[i].sec_end
Rotation(i) == sector_list[i].rotation_ms
InGroup(s, i) == Start(i) <= s /\ s <= End(i)

(* The last sector that is in a group.                                     *)
LastSector == 333012
Covered(s) == s \in Nat /\ s <= LastSector

(* Tracks between the first and the last sector of a group.                *)
Width(i) == IF i = 1 THEN 1257 ELSE IF i = 14 THEN 101 ELSE 1606

(* The table of groups (seektime.cpp:31): its groups follow each other, and *)
(* FirstTrack adds up how many tracks they have.                           *)
LEMMA GroupTable ==
  ASSUME NEW i \in 1..14
  PROVE  /\ Rev(i) \in 10..23 /\ Start(i) \in Nat /\ End(i) \in Nat /\ Start(i) <= End(i)
         /\ Rotation(i) \in Nat /\ i \in DOMAIN sector_list /\ End(i) <= LastSector
         /\ Width(i) = (End(i) - Start(i)) \div Rev(i)
         /\ FirstTrack[i] = IF i = 1 THEN 0 ELSE 1257 + 1606 * (i - 2)
         /\ i < 14 => /\ Start(i + 1) = End(i) + 1
                      /\ FirstTrack[i + 1] =
                           FirstTrack[i] + (End(i) + 1 - Start(i)) \div Rev(i)
                      /\ Rotation(i) < Rotation(i + 1)
<1> USE DEF sector_list, Group, FirstTrack, Rev, Start, End, Width, Rotation, LastSector
<1>1. CASE i = 1
  BY <1>1
<1>2. CASE i = 2
  BY <1>2
<1>3. CASE i = 3
  BY <1>3
<1>4. CASE i = 4
  BY <1>4
<1>5. CASE i = 5
  BY <1>5
<1>6. CASE i = 6
  BY <1>6
<1>7. CASE i = 7
  BY <1>7
<1>8. CASE i = 8
  BY <1>8
<1>9. CASE i = 9
  BY <1>9
<1>10. CASE i = 10
  BY <1>10
<1>11. CASE i = 11
  BY <1>11
<1>12. CASE i = 12
  BY <1>12
<1>13. CASE i = 13
  BY <1>13
<1>14. CASE i = 14
  BY <1>14
<1> HIDE DEF sector_list, Group, FirstTrack, Rev, Start, End, Width, Rotation, LastSector
<1> QED
  BY <1>1, <1>2, <1>3, <1>4, <1>5, <1>6, <1>7, <1>8, <1>9, <1>10, <1>11, <1>12, <1>13, <1>14

LEMMA GroupsInOrder ==
  ASSUME NEW i \in 1..14, NEW j \in 1..14, i < j
  PROVE  End(i) < Start(j) /\ Rotation(i) < Rotation(j)
<1> DEFINE Good(k) == End(i) < Start(k) /\ Rotation(i) < Rotation(k)
           T == {k \in i+1..14 : ~Good(k)}
<1>1. SUFFICES ASSUME T # {} PROVE FALSE
  OBVIOUS
<1>2. PICK m \in T : \A k \in T : m <= k
  <2>1. T \in SUBSET Nat
    OBVIOUS
  <2> HIDE DEF T
  <2> QED
    BY <1>1, <2>1, LeastNat
<1>3. m \in i+1..14 /\ ~Good(m) /\ m - 1 \in 1..14
  BY <1>2
<1>4. m - 1 = i \/ (m - 1 \in i+1..14 /\ Good(m - 1))
  BY <1>2, <1>3
<1>5. /\ Start(m) = End(m - 1) + 1 /\ Start(m - 1) <= End(m - 1)
      /\ Rotation(m - 1) < Rotation(m)
      /\ End(i) \in Nat /\ End(m - 1) \in Nat /\ Start(m - 1) \in Nat
      /\ Rotation(i) \in Nat /\ Rotation(m - 1) \in Nat /\ Rotation(m) \in Nat
  <2>1. (m - 1) + 1 = m /\ m - 1 < 14
    BY <1>3
  <2> QED
    BY <1>3, <2>1, GroupTable
<1> QED
  BY <1>3, <1>4, <1>5

(* A sector that the table covers is in one group, which find_group finds. *)
LEMMA GroupFound ==
  ASSUME NEW s, Covered(s)
  PROVE  find_group(s) \in 1..14 /\ InGroup(s, find_group(s))
<1> DEFINE T == {i \in 1..14 : s <= End(i)}
           has(i) == sector_list[i].sec_start <= s /\ s <= sector_list[i].sec_end
           First(i) == has(i) /\ \A j \in 1..i-1 : ~has(j)
<1>1. DOMAIN sector_list = 1..14 /\ End(14) = LastSector /\ Start(1) = 0
  BY DEF sector_list, Group, End, Start, LastSector
<1>2. PICK m \in T : \A k \in T : m <= k
  <2>1. T \in SUBSET Nat /\ 14 \in T
    BY <1>1 DEF Covered
  <2> HIDE DEF T
  <2> QED
    BY <2>1, LeastNat
<1>3. m \in 1..14 /\ s <= End(m) /\ s \in Nat
  BY <1>2 DEF Covered
<1>4. ASSUME NEW j \in 1..m-1 PROVE End(j) < s
  <2>1. j \in 1..14 /\ j \notin T
    BY <1>2, <1>3
  <2> QED
    BY <1>3, <2>1, GroupTable
<1>5. Start(m) <= s
  <2>1. CASE m = 1
    BY <1>1, <1>3, <2>1
  <2>2. CASE m # 1
    <3>1. m - 1 \in 1..m-1 /\ m - 1 \in 1..14 /\ m - 1 < 14 /\ (m - 1) + 1 = m
      BY <1>3, <2>2
    <3>2. End(m - 1) < s /\ Start(m) = End(m - 1) + 1 /\ End(m - 1) \in Nat
      BY <1>4, <3>1, GroupTable
    <3> QED
      BY <1>3, <3>2
  <2> QED
    BY <2>1, <2>2
<1>6. First(m) /\ m \in DOMAIN sector_list
  <2>1. has(m)
    BY <1>3, <1>5 DEF Start, End
  <2>2. ASSUME NEW j \in 1..m-1 PROVE ~has(j)
    <3>1. End(j) < s /\ j \in 1..14 /\ End(j) \in Nat
      BY <1>3, <1>4, GroupTable
    <3> QED
      BY <1>3, <3>1 DEF End
  <2> QED
    BY <1>1, <1>3, <2>1, <2>2
<1>7. find_group(s) = CHOOSE i \in DOMAIN sector_list : First(i)
  <2>1. \E i \in DOMAIN sector_list : has(i)
    BY <1>6
  <2> QED
    BY <2>1 DEF find_group
<1>8. find_group(s) \in DOMAIN sector_list /\ First(find_group(s))
  <2> HIDE DEF First
  <2> QED
    BY <1>6, <1>7
<1> QED
  BY <1>1, <1>8 DEF InGroup, Start, End

(* Outward, the groups come in order.                                      *)
LEMMA GroupsOutward ==
  ASSUME NEW s, NEW t, Covered(s), Covered(t), s <= t
  PROVE  find_group(s) <= find_group(t)
<1>1. /\ find_group(s) \in 1..14 /\ InGroup(s, find_group(s))
      /\ find_group(t) \in 1..14 /\ InGroup(t, find_group(t))
  BY GroupFound
<1>2. SUFFICES ASSUME find_group(t) < find_group(s) PROVE FALSE
  BY <1>1
<1>3. /\ End(find_group(t)) < Start(find_group(s))
      /\ End(find_group(t)) \in Nat /\ Start(find_group(s)) \in Nat
  BY <1>1, <1>2, GroupsInOrder, GroupTable
<1> QED
  BY <1>1, <1>3 DEF InGroup, Covered

(* Division by the number of sectors of a revolution.                      *)
LEMMA Parts ==
  ASSUME NEW r \in 10..23, NEW a \in Nat, NEW b \in Nat, a <= b
  PROVE  /\ a \div r \in Nat /\ b \div r \in Nat /\ (b - a) \div r \in Nat
         /\ a \div r <= b \div r
         /\ b \div r - a \div r - 1 <= (b - a) \div r
         /\ (b - a) \div r <= b \div r - a \div r
<1> DEFINE Goal(q) == /\ a \div q \in Nat /\ b \div q \in Nat /\ (b - a) \div q \in Nat
                      /\ a \div q <= b \div q
                      /\ b \div q - a \div q - 1 <= (b - a) \div q
                      /\ (b - a) \div q <= b \div q - a \div q
<1>10. Goal(10)
  OBVIOUS
<1>11. Goal(11)
  OBVIOUS
<1>12. Goal(12)
  OBVIOUS
<1>13. Goal(13)
  OBVIOUS
<1>14. Goal(14)
  OBVIOUS
<1>15. Goal(15)
  OBVIOUS
<1>16. Goal(16)
  OBVIOUS
<1>17. Goal(17)
  OBVIOUS
<1>18. Goal(18)
  OBVIOUS
<1>19. Goal(19)
  OBVIOUS
<1>20. Goal(20)
  OBVIOUS
<1>21. Goal(21)
  OBVIOUS
<1>22. Goal(22)
  OBVIOUS
<1>23. Goal(23)
  OBVIOUS
<1> HIDE DEF Goal
<1>1. Goal(r)
  BY <1>10, <1>11, <1>12, <1>13, <1>14, <1>15, <1>16, <1>17, <1>18, <1>19, <1>20, <1>21, <1>22, <1>23
<1> QED
  BY <1>1 DEF Goal

(* A sector splits its group into the tracks before and behind it.         *)
Inside(s, i)  == (s - Start(i)) \div Rev(i)
Outside(s, i) == (End(i) - s) \div Rev(i)

LEMMA GroupSplits ==
  ASSUME NEW s, Covered(s), NEW i \in 1..14, InGroup(s, i)
  PROVE  /\ Inside(s, i) \in Nat /\ Outside(s, i) \in Nat
         /\ Inside(s, i) <= Width(i) /\ Outside(s, i) <= Width(i)
         /\ Width(i) - 1 <= Inside(s, i) + Outside(s, i)
         /\ Inside(s, i) + Outside(s, i) <= Width(i)
<1> DEFINE a == s - Start(i)
           b == End(i) - Start(i)
<1>1. /\ Rev(i) \in 10..23 /\ Start(i) \in Nat /\ End(i) \in Nat /\ s \in Nat
      /\ Start(i) <= s /\ s <= End(i) /\ Width(i) = b \div Rev(i)
  BY GroupTable DEF InGroup, Covered
<1>2. a \in Nat /\ b \in Nat /\ a <= b /\ b - a = End(i) - s
  BY <1>1
<1>3. /\ a \div Rev(i) \in Nat /\ b \div Rev(i) \in Nat /\ (b - a) \div Rev(i) \in Nat
      /\ b \div Rev(i) - a \div Rev(i) - 1 <= (b - a) \div Rev(i)
      /\ (b - a) \div Rev(i) <= b \div Rev(i) - a \div Rev(i)
  <2> HIDE DEF a, b
  <2> QED
    BY <1>1, <1>2, Parts
<1>4. Inside(s, i) = a \div Rev(i) /\ Outside(s, i) = (b - a) \div Rev(i)
  BY <1>2 DEF Inside, Outside
<1> HIDE DEF a, b
<1> QED
  BY <1>1, <1>3, <1>4

(* What track_difference makes of two sectors, by their groups.            *)
LEMMA DifferenceByGroup ==
  ASSUME NEW s, NEW t, NEW i, NEW j, i = find_group(s), j = find_group(t)
  PROVE  /\ i = j => track_difference(s, t) = Apart(s, t) \div Rev(j)
         /\ i # j /\ i < j
              => track_difference(s, t) = Outside(s, i) + Inside(t, j) + 1607 * (j - i - 1)
         /\ i # j /\ ~(i < j)
              => track_difference(s, t) = Inside(s, i) + Outside(t, j) + 1607 * (i - j - 1)
         /\ Track(s) = FirstTrack[i] + Inside(s, i)
BY DEF track_difference, Track, Outside, Inside, Rev, Start, End

(* From a group to one further out: each group between counts 1607.        *)
LEMMA TracksBetween ==
  ASSUME NEW s, NEW t, Covered(s), Covered(t), NEW i \in 1..14, NEW j \in 1..14,
         InGroup(s, i), InGroup(t, j), i < j,
         NEW d, d = Outside(s, i) + Inside(t, j) + 1607 * (j - i - 1)
  PROVE  LET far == (FirstTrack[j] + Inside(t, j)) - (FirstTrack[i] + Inside(s, i))
         IN /\ d \in Nat /\ far \in Nat /\ far - 1 <= d
            /\ d <= far + (j - i - 1)
<1>1. /\ Inside(s, i) \in Nat /\ Outside(s, i) \in Nat /\ Inside(t, j) \in Nat
      /\ Inside(s, i) <= Width(i)
      /\ Width(i) - 1 <= Inside(s, i) + Outside(s, i)
      /\ Inside(s, i) + Outside(s, i) <= Width(i)
  BY GroupSplits
<1>2. FirstTrack[j] - FirstTrack[i] = Width(i) + 1606 * (j - i - 1)
  <2>1. FirstTrack[j] = 1257 + 1606 * (j - 2)
    BY GroupTable
  <2>2. FirstTrack[i] = IF i = 1 THEN 0 ELSE 1257 + 1606 * (i - 2)
    BY GroupTable
  <2>3. Width(i) = IF i = 1 THEN 1257 ELSE 1606
    BY DEF Width
  <2> QED
    BY <2>1, <2>2, <2>3
<1>3. FirstTrack[i] \in Nat /\ FirstTrack[j] \in Nat
  BY GroupTable
<1>4. Width(i) \in Nat
  BY DEF Width
<1> QED
  BY <1>1, <1>2, <1>3, <1>4

(* The count of the tracks between two sectors is right, but for one of    *)
(* each group and the roundings.                                           *)
LEMMA DifferenceIsDistance ==
  ASSUME NEW s, NEW t, Covered(s), Covered(t)
  PROVE  Apart(track_difference(s, t), Apart(Track(s), Track(t)))
           <= 2 + Apart(find_group(s), find_group(t))
<1> DEFINE i == find_group(s)
           j == find_group(t)
           d == track_difference(s, t)
<1>1. i \in 1..14 /\ InGroup(s, i) /\ j \in 1..14 /\ InGroup(t, j)
  BY GroupFound
<1>2. Track(s) = FirstTrack[i] + Inside(s, i) /\ Track(t) = FirstTrack[j] + Inside(t, j)
  BY DifferenceByGroup
<1>3. FirstTrack[i] \in Nat /\ FirstTrack[j] \in Nat
  BY <1>1, GroupTable
<1>4. CASE i = j
  <2> DEFINE a == s - Start(i)
             b == t - Start(i)
             r == Rev(i)
  <2>1. d = Apart(s, t) \div r
    BY <1>4, DifferenceByGroup
  <2>2. r \in 10..23 /\ Start(i) \in Nat /\ s \in Nat /\ t \in Nat
        /\ Start(i) <= s /\ Start(i) <= t
    BY <1>1, <1>4, GroupTable DEF InGroup, Covered
  <2>3. a \in Nat /\ b \in Nat /\ Apart(s, t) = Apart(a, b)
        /\ Apart(a, b) = IF a <= b THEN b - a ELSE a - b
    BY <2>2 DEF Apart
  <2>4. Inside(s, i) = a \div r /\ Inside(t, j) = b \div r
    BY <1>4 DEF Inside
  <2> HIDE DEF a, b, r, i, j, d
  <2>5. /\ a \div r \in Nat /\ b \div r \in Nat /\ d \in Nat
        /\ Apart(d, Apart(a \div r, b \div r)) \in 0..1
    <3>1. CASE a <= b
      BY <2>1, <2>2, <2>3, <3>1, Parts DEF Apart
    <3>2. CASE b <= a
      BY <2>1, <2>2, <2>3, <3>2, Parts, SMTT(20) DEF Apart
    <3> QED
      BY <2>3, <3>1, <3>2
  <2>6. Apart(Track(s), Track(t)) = Apart(a \div r, b \div r)
    BY <1>2, <1>3, <1>4, <2>4, <2>5 DEF Apart
  <2>7. Apart(i, j) = 0
    BY <1>1, <1>4 DEF Apart
  <2>8. Apart(d, Apart(Track(s), Track(t))) <= 2 + Apart(i, j)
    BY <2>5, <2>6, <2>7
  <2> QED
    BY <2>8 DEF i, j, d
<1>5. CASE i < j
  <2>1. d = Outside(s, i) + Inside(t, j) + 1607 * (j - i - 1)
    BY <1>1, <1>5, DifferenceByGroup
  <2> DEFINE far == (FirstTrack[j] + Inside(t, j)) - (FirstTrack[i] + Inside(s, i))
  <2> HIDE DEF i, j, d
  <2>2. d \in Nat /\ far \in Nat /\ far - 1 <= d /\ d <= far + (j - i - 1)
    BY <1>1, <1>5, <2>1, TracksBetween
  <2>3. Inside(s, i) \in Nat /\ Inside(t, j) \in Nat
    BY <1>1, GroupSplits
  <2>4. Apart(Track(s), Track(t)) = far
    BY <1>2, <1>3, <2>2, <2>3 DEF Apart
  <2> HIDE DEF far
  <2>5. Apart(i, j) = j - i /\ Apart(d, far) <= 2 + (j - i)
    BY <1>1, <1>5, <2>2 DEF Apart
  <2> QED
    BY <2>4, <2>5 DEF i, j, d
<1>6. CASE j < i
  <2>1. d = Outside(t, j) + Inside(s, i) + 1607 * (i - j - 1)
    <3>1. d = Inside(s, i) + Outside(t, j) + 1607 * (i - j - 1)
      BY <1>1, <1>6, DifferenceByGroup
    <3>2. Inside(s, i) \in Nat /\ Outside(t, j) \in Nat
      BY <1>1, GroupSplits
    <3> HIDE DEF i, j, d
    <3> QED
      BY <1>1, <3>1, <3>2
  <2> DEFINE far == (FirstTrack[i] + Inside(s, i)) - (FirstTrack[j] + Inside(t, j))
  <2> HIDE DEF i, j, d
  <2>2. d \in Nat /\ far \in Nat /\ far - 1 <= d /\ d <= far + (i - j - 1)
    BY <1>1, <1>6, <2>1, TracksBetween
  <2>3. Inside(s, i) \in Nat /\ Inside(t, j) \in Nat
    BY <1>1, GroupSplits
  <2>4. Apart(Track(s), Track(t)) = far
    BY <1>2, <1>3, <2>2, <2>3 DEF Apart
  <2> HIDE DEF far
  <2>5. Apart(i, j) = i - j /\ Apart(d, far) <= 2 + (i - j)
    BY <1>1, <1>6, <2>2 DEF Apart
  <2> QED
    BY <2>4, <2>5 DEF i, j, d
<1> QED
  BY <1>1, <1>4, <1>5, <1>6

(* Outward, the count grows with the distance.                             *)
LEMMA DifferenceOutward ==
  ASSUME NEW s, NEW t, NEW u, Covered(s), Covered(t), Covered(u), s <= t, t <= u
  PROVE  /\ track_difference(s, t) \in Nat /\ track_difference(s, u) \in Nat
         /\ track_difference(s, t) <= track_difference(s, u)
<1> DEFINE i == find_group(s)
           j == find_group(t)
           k == find_group(u)
<1>1. /\ i \in 1..14 /\ InGroup(s, i) /\ j \in 1..14 /\ InGroup(t, j)
      /\ k \in 1..14 /\ InGroup(u, k) /\ s \in Nat /\ t \in Nat /\ u \in Nat
  BY GroupFound DEF Covered
<1>2. i <= j /\ j <= k
  BY GroupsOutward
<1>3. /\ i = j => track_difference(s, t) = Apart(s, t) \div Rev(j)
      /\ i < j => track_difference(s, t) = Outside(s, i) + Inside(t, j) + 1607 * (j - i - 1)
      /\ i = k => track_difference(s, u) = Apart(s, u) \div Rev(k)
      /\ i < k => track_difference(s, u) = Outside(s, i) + Inside(u, k) + 1607 * (k - i - 1)
  BY <1>1, DifferenceByGroup
<1>4. Apart(s, t) = t - s /\ Apart(s, u) = u - s /\ s <= u
  BY <1>1 DEF Apart
<1>5. Rev(i) \in 10..23 /\ Rev(j) \in 10..23 /\ Rev(k) \in 10..23 /\ Start(j) \in Nat /\ End(i) \in Nat
  BY <1>1, GroupTable
<1>6. /\ Outside(s, i) \in Nat /\ Inside(t, j) \in Nat /\ Inside(u, k) \in Nat
      /\ Inside(t, j) <= Width(j) /\ Width(j) <= 1607 /\ Width(j) \in Nat
  BY <1>1, GroupSplits DEF Width
<1> HIDE DEF i, j, k
<1>7. CASE i = k
  <2>1. i = j
    BY <1>1, <1>2, <1>7
  <2>2. t - s \in Nat /\ u - s \in Nat /\ t - s <= u - s
    BY <1>1
  <2> QED
    BY <1>3, <1>4, <1>5, <1>7, <2>1, <2>2, Parts
<1>8. CASE i = j /\ j < k
  <2>1. t - s \in Nat /\ End(i) - s \in Nat /\ t - s <= End(i) - s
    BY <1>1, <1>5, <1>8 DEF InGroup
  <2>2. /\ (t - s) \div Rev(i) \in Nat
        /\ (t - s) \div Rev(i) <= Outside(s, i)
    BY <1>5, <2>1, Parts DEF Outside
  <2> QED
    BY <1>1, <1>3, <1>4, <1>6, <1>8, <2>2
<1>9. CASE i < j /\ j = k
  <2>1. t - Start(j) \in Nat /\ u - Start(j) \in Nat /\ t - Start(j) <= u - Start(j)
    BY <1>1, <1>5, <1>9 DEF InGroup
  <2>2. Inside(t, j) <= Inside(u, k)
    BY <1>5, <1>9, <2>1, Parts DEF Inside
  <2> QED
    BY <1>1, <1>3, <1>6, <1>9, <2>2
<1>10. CASE i < j /\ j < k
  <2>1. 1607 * (k - i - 1) >= 1607 * (j - i - 1) + 1607
    BY <1>1, <1>10
  <2> QED
    BY <1>1, <1>3, <1>6, <1>10, <2>1
<1> QED
  BY <1>1, <1>2, <1>7, <1>8, <1>9, <1>10

(* Sectors next to each other are on tracks next to each other.            *)
LEMMA NearIsFew ==
  ASSUME NEW s, NEW t, Covered(s), Covered(t), s <= t, t - s <= 6
  PROVE  track_difference(s, t) <= 80
<1> DEFINE i == find_group(s)
           j == find_group(t)
<1>1. /\ i \in 1..14 /\ InGroup(s, i) /\ j \in 1..14 /\ InGroup(t, j)
      /\ s \in Nat /\ t \in Nat /\ i <= j
  BY GroupFound, GroupsOutward DEF Covered
<1>2. /\ i = j => track_difference(s, t) = Apart(s, t) \div Rev(j)
      /\ i < j => track_difference(s, t) = Outside(s, i) + Inside(t, j) + 1607 * (j - i - 1)
  BY <1>1, DifferenceByGroup
<1>3. /\ Rev(i) \in 10..23 /\ Rev(j) \in 10..23
      /\ Start(i) \in Nat /\ End(i) \in Nat /\ Start(j) \in Nat
  BY <1>1, GroupTable
<1>4. Apart(s, t) = t - s
  BY <1>1 DEF Apart
<1> HIDE DEF i, j
<1>5. ASSUME NEW n \in 0..6, NEW r \in 10..23 PROVE n \div r = 0
  BY <1>5, SMT
<1>6. CASE i = j
  <2>1. t - s \in 0..6
    BY <1>1
  <2> QED
    BY <1>1, <1>2, <1>3, <1>4, <1>5, <1>6, <2>1
<1>7. CASE i < j
  <2>1. End(i) < Start(j)
    BY <1>1, <1>7, GroupsInOrder
  <2>2. End(i) - s \in 0..6 /\ t - Start(j) \in 0..6
    BY <1>1, <1>3, <2>1 DEF InGroup
  <2>3. Outside(s, i) = 0 /\ Inside(t, j) = 0
    BY <1>3, <1>5, <2>2 DEF Outside, Inside
  <2>4. j = i + 1
    <3> SUFFICES ASSUME i + 1 < j PROVE FALSE
      BY <1>1, <1>7
    <3>1. i + 1 \in 1..14
      BY <1>1
    <3>2. End(i) < Start(i + 1) /\ End(i + 1) < Start(j)
      BY <1>1, <3>1, GroupsInOrder
    <3>3. /\ Start(i + 1) \in Nat /\ End(i + 1) \in Nat /\ Start(i + 1) <= End(i + 1)
          /\ Width(i + 1) = (End(i + 1) - Start(i + 1)) \div Rev(i + 1) /\ Rev(i + 1) \in 10..23
      BY <3>1, GroupTable
    <3>4. End(i + 1) - Start(i + 1) \in 0..6
      BY <1>1, <1>3, <3>2, <3>3 DEF InGroup
    <3>5. Width(i + 1) = 0
      BY <1>5, <3>3, <3>4
    <3> QED
      BY <1>1, <3>5 DEF Width
  <2> QED
    BY <1>1, <1>2, <1>7, <2>3, <2>4
<1> QED
  BY <1>1, <1>6, <1>7

(* Outward, so does the time, from the first sector to the last.           *)
LEMMA TimeOutward ==
  ASSUME NEW s, NEW t, NEW u, Covered(s), Covered(t), Covered(u), s <= t, t <= u
  PROVE  /\ get_cd_seek_ms(s, t) \in Nat /\ get_cd_seek_ms(s, u) \in Nat
         /\ get_cd_seek_ms(s, t) <= get_cd_seek_ms(s, u)
<1> DEFINE d == track_difference(s, t)
           e == track_difference(s, u)
           p == sector_list[find_group(t)].rotation_ms
           q == sector_list[find_group(u)].rotation_ms
           Time(apart, tracks, rotation) ==
             CASE apart <= 3 -> 33
               [] apart \in 4..6 -> 150 + rotation
               [] apart > 6 /\ tracks <= 80 -> 283 + rotation
               [] apart > 6 /\ tracks \in 81..160 -> 366 + rotation
               [] tracks \in 161..644 -> 366 + rotation + ((tracks - 161) * 17) \div 80
               [] tracks > 644 -> 600 + rotation + ((tracks - 644) * 17) \div 195
<1>1. get_cd_seek_ms(s, t) = Time(Apart(s, t), d, p) /\ get_cd_seek_ms(s, u) = Time(Apart(s, u), e, q)
  BY DEF get_cd_seek_ms
<1>2. d \in Nat /\ e \in Nat /\ d <= e
  BY DifferenceOutward
<1>3. s \in Nat /\ t \in Nat /\ u \in Nat
  BY DEF Covered
<1>4. Apart(s, t) = t - s /\ Apart(s, u) = u - s /\ t - s \in Nat /\ u - s \in Nat /\ t - s <= u - s
  BY <1>3 DEF Apart
<1>5. p \in Nat /\ q \in Nat /\ p <= q
  <2>1. find_group(t) \in 1..14 /\ find_group(u) \in 1..14 /\ find_group(t) <= find_group(u)
    BY GroupFound, GroupsOutward
  <2>2. p = Rotation(find_group(t)) /\ q = Rotation(find_group(u))
    BY DEF Rotation
  <2>3. Rotation(find_group(t)) \in Nat /\ Rotation(find_group(u)) \in Nat
    BY <2>1, GroupTable
  <2>4. find_group(t) = find_group(u) \/ Rotation(find_group(t)) < Rotation(find_group(u))
    BY <2>1, GroupsInOrder
  <2> QED
    BY <2>2, <2>3, <2>4
<1>6. (t - s <= 6 => d <= 80) /\ (u - s <= 6 => e <= 80)
  <2>1. s <= u
    BY <1>3
  <2> QED
    BY <2>1, NearIsFew
<1> HIDE DEF d, e, p, q
<1> DEFINE a == t - s
           b == u - s
<1>7. Time(a, d, p) =
        IF a <= 3 THEN 33 ELSE IF a <= 6 THEN 150 + p ELSE IF d <= 80 THEN 283 + p
        ELSE IF d <= 160 THEN 366 + p
        ELSE IF d <= 644 THEN 366 + p + ((d - 161) * 17) \div 80
        ELSE 600 + p + ((d - 644) * 17) \div 195
  BY <1>2, <1>4, <1>5, <1>6
<1>8. Time(b, e, q) =
        IF b <= 3 THEN 33 ELSE IF b <= 6 THEN 150 + q ELSE IF e <= 80 THEN 283 + q
        ELSE IF e <= 160 THEN 366 + q
        ELSE IF e <= 644 THEN 366 + q + ((e - 161) * 17) \div 80
        ELSE 600 + q + ((e - 644) * 17) \div 195
  BY <1>2, <1>4, <1>5, <1>6
<1> HIDE DEF Time
<1>9. a \in Nat /\ b \in Nat /\ a <= b
  BY <1>4
<1> HIDE DEF a, b
<1> QED
  BY <1>1, <1>2, <1>4, <1>5, <1>7, <1>8, <1>9 DEF a, b

LEMMA TimeIsNat ==
  ASSUME NEW s, NEW t, Covered(s), Covered(t)
  PROVE  get_cd_seek_ms(s, t) \in Nat
<1> DEFINE i == find_group(s)
           j == find_group(t)
<1>1. i \in 1..14 /\ InGroup(s, i) /\ j \in 1..14 /\ InGroup(t, j) /\ s \in Nat /\ t \in Nat
  BY GroupFound DEF Covered
<1>2. Rev(j) \in 10..23 /\ Rotation(j) \in Nat
  BY <1>1, GroupTable
<1>3. Apart(s, t) \in Nat
  BY <1>1 DEF Apart
<1>4. track_difference(s, t) \in Nat
  <2>1. Apart(s, t) \div Rev(j) \in Nat
    BY <1>2, <1>3, Parts
  <2>2. /\ Inside(s, i) \in Nat /\ Outside(s, i) \in Nat
        /\ Inside(t, j) \in Nat /\ Outside(t, j) \in Nat
    BY <1>1, GroupSplits
  <2>3. /\ i = j => track_difference(s, t) = Apart(s, t) \div Rev(j)
        /\ i < j => track_difference(s, t) = Outside(s, i) + Inside(t, j) + 1607 * (j - i - 1)
        /\ j < i => track_difference(s, t) = Inside(s, i) + Outside(t, j) + 1607 * (i - j - 1)
    BY <1>1, DifferenceByGroup
  <2> HIDE DEF i, j
  <2> QED
    BY <1>1, <2>1, <2>2, <2>3
<1>5. sector_list[find_group(t)].rotation_ms \in Nat
  BY <1>2 DEF Rotation
<1> QED
  BY <1>3, <1>4, <1>5 DEF get_cd_seek_ms

(***************************************************************************)
(* The seek under way is between sectors of the table; without the last    *)
(* sectors of a disc of more than 74 minutes, which are in none of its     *)
(* groups.                                                                 *)
(***************************************************************************)
TableCovers == \A t \in Targets : t <= LastSector

SeekInv ==
  /\ PlaceInv
  /\ Covered(lba) /\ Covered(seek.from) /\ Covered(seek.to)
  /\ latency \in Nat /\ audiodelay \in Nat
  /\ latency + audiodelay <= get_cd_seek_ms(seek.from, seek.to) \div 13

LEMMA MoveKeepsSeek ==
  ASSUME TableCovers, SeekInv, NEW t \in Targets, t \in Nat, Move(t),
         PlaceInv', latency' \in Nat, audiodelay' \in Nat,
         latency' + audiodelay' = seek'.ms \div 13
  PROVE  SeekInv'
<1>1. /\ lba' = t /\ seek'.from = lba /\ seek'.to = t
      /\ seek'.ms = get_cd_seek_ms(lba, t)
  BY DEF Move
<1>2. Covered(t) /\ Covered(lba)
  BY DEF TableCovers, Covered, SeekInv
<1>3. seek'.ms \div 13 <= seek'.ms \div 13
  <2>1. get_cd_seek_ms(lba, t) \in Nat
    BY <1>2, TimeIsNat
  <2> QED
    BY <1>1, <2>1
<1> QED
  BY <1>1, <1>2, <1>3 DEF SeekInv, Covered

LEMMA StepKeepsSeek ==
  ASSUME TableCovers, SeekInv, [SeekNext]_seekVars
  PROVE  SeekInv'
<1>1. PlaceInv'
  BY StepKeepsPlace DEF SeekInv
<1>2. ASSUME NEW t \in Targets PROVE t \in Nat /\ Fits(t + 150) /\ High(t) < 32 /\ Covered(t)
  BY <1>2, SeekAssumption, EndOfDisc, SectorFits DEF TableCovers, Covered
<1>3. Covered(lba)
  BY DEF SeekInv
<1>4. ASSUME NEW t \in Targets, NEW comm \in Read6Commands(t), Read6(comm)
      PROVE  SeekInv'
  <2>1. Move(t) /\ latency' = seek'.ms \div 13 /\ audiodelay' = 0
    BY <1>2, <1>4, ReadStartsThere DEF Read6
  <2>2. seek'.ms \in Nat
    BY <1>2, <1>3, <2>1, TimeIsNat DEF Move
  <2>3. latency' \in Nat /\ audiodelay' \in Nat /\ latency' + audiodelay' = seek'.ms \div 13
    BY <2>1, <2>2
  <2> QED
    BY <1>1, <1>2, <2>1, <2>3, MoveKeepsSeek
<1>5. ASSUME NEW t \in Targets, NEW comm \in SapspCommands(t), Sapsp(comm)
      PROVE  SeekInv'
  <2>1. Move(t)
    BY <1>2, <1>5, SeekAssumption, SearchGoesThere DEF Sapsp
  <2>2. seek'.ms \in Nat
    BY <1>2, <1>3, <2>1, TimeIsNat DEF Move
  <2>3. LET ticks == seek'.ms \div 13 IN
        \/ ticks > 16 /\ latency' = ticks - 16 /\ audiodelay' = 16
        \/ latency' = ticks /\ audiodelay' = 0
    BY <1>5 DEF Sapsp
  <2>4. latency' \in Nat /\ audiodelay' \in Nat /\ latency' + audiodelay' = seek'.ms \div 13
    BY <2>2, <2>3
  <2> QED
    BY <1>1, <1>2, <2>1, <2>4, MoveKeepsSeek
<1>6. ASSUME UNCHANGED <<lba, seek, latency, audiodelay>> PROVE SeekInv'
  BY <1>1, <1>6 DEF SeekInv, Covered
<1> QED
  BY <1>4, <1>5, <1>6 DEF SeekNext, Sapep, seekVars

LEMMA SeekInvariant == ASSUME TableCovers PROVE SeekSpec => []SeekInv
<1>1. TableCovers
  OBVIOUS
<1>2. SeekInit => SeekInv
  <2> SUFFICES ASSUME SeekInit PROVE SeekInv
    OBVIOUS
  <2>1. PlaceInv
    BY InitPlace
  <2>2. lba = 0 /\ seek.from = 0 /\ seek.to = 0 /\ latency = 0 /\ audiodelay = 0
    BY DEF SeekInit
  <2>3. Covered(0)
    BY DEF Covered, LastSector
  <2>4. get_cd_seek_ms(0, 0) \in Nat
    BY <2>3, TimeIsNat
  <2> QED
    BY <2>1, <2>2, <2>3, <2>4 DEF SeekInv
<1>3. SeekInv /\ [SeekNext]_seekVars => SeekInv'
  BY <1>1, StepKeepsSeek
<1> QED
  BY <1>2, <1>3, PTL DEF SeekSpec

(* The number of tracks that seektime.cpp counts between two sectors is    *)
(* their distance on the disc, for every two sectors that its table has.   *)
THEOREM TracksAreCounted == ASSUME TableCovers PROVE SeekSpec => []CrossesTheTracks
<1>1. SeekInv => CrossesTheTracks
  BY DifferenceIsDistance DEF SeekInv, CrossesTheTracks
<1> QED
  BY <1>1, SeekInvariant, PTL

(* cue.cpp:568 and 627: outward, a drive that is to go further does not    *)
(* deliver earlier, for every three sectors that the table has.            *)
THEOREM FurtherTakesLonger == ASSUME TableCovers PROVE SeekSpec => []FurtherIsLater
<1>1. TableCovers
  OBVIOUS
<1>2. SeekInv => FurtherIsLater
  <2> SUFFICES ASSUME SeekInv, NEW t \in Targets, seek.from <= seek.to, seek.to <= t
               PROVE  latency + audiodelay <= get_cd_seek_ms(seek.from, t) \div 13
    BY DEF FurtherIsLater
  <2>1. Covered(seek.from) /\ Covered(seek.to) /\ Covered(t)
    BY <1>1, SeekAssumption DEF SeekInv, TableCovers, Covered
  <2> DEFINE short == get_cd_seek_ms(seek.from, seek.to)
             long  == get_cd_seek_ms(seek.from, t)
  <2>2. short \in Nat /\ long \in Nat /\ short <= long
    BY <2>1, TimeOutward
  <2>3. latency + audiodelay <= short \div 13 /\ latency \in Nat /\ audiodelay \in Nat
    BY DEF SeekInv
  <2> HIDE DEF short, long
  <2>4. short \div 13 <= long \div 13 /\ short \div 13 \in Nat /\ long \div 13 \in Nat
    BY <2>2
  <2>5. latency + audiodelay <= long \div 13
    BY <2>3, <2>4
  <2> QED
    BY <2>5 DEF long
<1> QED
  BY <1>2, SeekInvariant, PTL
-----------------------------------------------------------------------------
(***************************************************************************)
(* The clock of the drive (PollTimer).                                     *)
(***************************************************************************)
USE TimerAssumption

(* No reset, and the machine does not run until the counter wraps around.  *)
Undisturbed == ~Resets /\ ~Wraps

LEMMA NoWrap ==
  /\ \A x \in 0..Range-1 : x % Range = x
  /\ \A x \in Int : x % Range \in 0..Range-1
  OBVIOUS

LEMMA Bytes ==
  /\ NextAdj(0) = 255 /\ NextAdj(255) = 2 /\ NextAdj(3) = 2
  /\ NextAdj(2) = 1 /\ NextAdj(1) = 3
  BY DEF NextAdj

LEMMA InitTypeOK == ASSUME Init PROVE TypeOK
<1>1. millisecond_counter \in 0..Range-1 /\ poll_timer \in 0..Range-1
  BY DEF Init
<1>2. adj \in {0, 255, 3, 2, 1} /\ need_reset \in BOOLEAN
  BY DEF Init
<1>3. turn \in 0..MaxTurn /\ lag \in Int /\ drift \in Int
  BY DEF Init
<1> QED
  BY <1>1, <1>2, <1>3 DEF TypeOK

LEMMA StepType ==
  ASSUME TypeOK, NEW deadline \in Int, NEW late \in Int, NEW reading \in BOOLEAN,
         Step(deadline, late, reading)
  PROVE  /\ poll_timer' \in 0..Range-1 /\ adj' \in {0, 255, 3, 2, 1}
         /\ lag' \in Int /\ drift' \in Int
<1>1. Advance(reading) \in {13, 14, 16} /\ Frame \in {13, 14}
  BY DEF Advance, Frame
<1>2. deadline + Advance(reading) \in Int
  BY <1>1
<1>3. poll_timer' \in 0..Range-1
  BY <1>2, NoWrap DEF Step
<1>4. adj' \in {0, 255, 3, 2, 1}
  BY Bytes DEF Step, TypeOK
<1>5. lag' \in Int
  BY <1>1 DEF Step
<1>6. drift' \in Int
  <2>1. drift \in Int /\ drift + 3 * Frame - 40 \in Int
    BY <1>1 DEF TypeOK
  <2> QED
    BY <2>1 DEF Step
<1> QED
  BY <1>3, <1>4, <1>5, <1>6

(* What Poll works with: the deadline it tests, and how late it is.        *)
LEMMA PollCases ==
  ASSUME TypeOK, NEW reading \in BOOLEAN, Poll(reading)
  PROVE  \E deadline \in 0..Range-1, late \in Int :
           /\ ~need_reset =>
                /\ deadline = IF poll_timer = 0 THEN RISCGetTimer2(13) ELSE poll_timer
                /\ late = IF poll_timer = 0 THEN -13 ELSE lag
           /\ IF RISCCheckTimer2(deadline) THEN Step(deadline, late, reading)
              ELSE poll_timer' = deadline /\ lag' = late /\ UNCHANGED <<adj, drift>>
           /\ turn' = 0 /\ need_reset' = FALSE /\ UNCHANGED millisecond_counter
<1> DEFINE armed    == IF poll_timer = 0 THEN RISCGetTimer2(13) ELSE poll_timer
           deadline == IF need_reset THEN 0 ELSE armed
           late     == IF need_reset THEN 0 ELSE IF poll_timer = 0 THEN -13 ELSE lag
<1>1. millisecond_counter + 13 \in Int
  BY DEF TypeOK
<1>2. RISCGetTimer2(13) \in 0..Range-1
  BY <1>1, NoWrap DEF RISCGetTimer2
<1>3. deadline \in 0..Range-1 /\ late \in Int
  BY <1>2 DEF TypeOK
<1>4. /\ IF RISCCheckTimer2(deadline) THEN Step(deadline, late, reading)
         ELSE poll_timer' = deadline /\ lag' = late /\ UNCHANGED <<adj, drift>>
      /\ turn' = 0 /\ need_reset' = FALSE /\ UNCHANGED millisecond_counter
  BY DEF Poll
<1>5. ~need_reset => deadline = armed /\ late = IF poll_timer = 0 THEN -13 ELSE lag
  OBVIOUS
<1> HIDE DEF deadline, late
<1> QED
  BY <1>3, <1>4, <1>5

LEMMA NextTypeOK == ASSUME TypeOK, [Next]_vars PROVE TypeOK'
<1>1. ASSUME NEW reading \in BOOLEAN, Poll(reading) PROVE TypeOK'
  <2>1. PICK deadline \in 0..Range-1, late \in Int :
           /\ IF RISCCheckTimer2(deadline) THEN Step(deadline, late, reading)
              ELSE poll_timer' = deadline /\ lag' = late /\ UNCHANGED <<adj, drift>>
           /\ turn' = 0 /\ need_reset' = FALSE /\ UNCHANGED millisecond_counter
    BY <1>1, PollCases
  <2>4. need_reset' \in BOOLEAN /\ turn' \in 0..MaxTurn /\ millisecond_counter' \in 0..Range-1
    <3>1. need_reset' = FALSE /\ turn' = 0 /\ millisecond_counter' = millisecond_counter
      BY <2>1
    <3>2. need_reset' \in BOOLEAN
      BY <3>1
    <3> QED
      BY <3>1, <3>2 DEF TypeOK
  <2>2. CASE RISCCheckTimer2(deadline)
    <3>1. Step(deadline, late, reading) /\ deadline \in Int
      BY <2>1, <2>2
    <3>2. /\ poll_timer' \in 0..Range-1 /\ adj' \in {0, 255, 3, 2, 1}
          /\ lag' \in Int /\ drift' \in Int
      BY <3>1, StepType
    <3> QED
      BY <2>4, <3>2 DEF TypeOK
  <2>3. CASE ~RISCCheckTimer2(deadline)
    <3>1. /\ poll_timer' \in 0..Range-1 /\ adj' \in {0, 255, 3, 2, 1}
          /\ lag' \in Int /\ drift' \in Int
      BY <2>1, <2>3 DEF TypeOK
    <3> QED
      BY <2>4, <3>1 DEF TypeOK
  <2> QED
    BY <2>2, <2>3
<1>2. CASE ResetMessage
  BY <1>2 DEF ResetMessage, TypeOK
<1>3. CASE Millisecond
  <2>1. millisecond_counter + 1 \in Int
    BY DEF TypeOK
  <2>2. millisecond_counter' \in 0..Range-1
    BY <1>3, <2>1, NoWrap DEF Millisecond
  <2> QED
    BY <1>3, <2>2 DEF Millisecond, TypeOK
<1>4. CASE UNCHANGED vars
  BY <1>4 DEF vars, TypeOK
<1> QED
  BY <1>1, <1>2, <1>3, <1>4 DEF Next
-----------------------------------------------------------------------------

LEMMA StepKeepsAdj ==
  ASSUME TypeOK, AdjTellsDrift, NEW deadline, NEW late, NEW reading \in BOOLEAN,
         Step(deadline, late, reading)
  PROVE  AdjTellsDrift'
<1>1. CASE reading
  BY <1>1 DEF Step, AdjTellsDrift
<1>2. CASE ~reading
  <2>1. adj' = NextAdj(adj) /\ drift' = drift + 3 * Frame - 40
    BY <1>2 DEF Step
  <2>2. Frame = IF adj = 3 THEN 14 ELSE 13
    BY DEF Frame
  <2>3. CASE adj = 0 /\ drift = 0
    <3>1. adj' = 255 /\ drift' = -1
      BY <2>1, <2>2, <2>3, Bytes
    <3> QED
      BY <3>1 DEF AdjTellsDrift
  <2>4. CASE adj = 255 /\ drift = -1
    <3>1. adj' = 2 /\ drift' = -2
      BY <2>1, <2>2, <2>4, Bytes
    <3> QED
      BY <3>1 DEF AdjTellsDrift
  <2>5. CASE adj = 2 /\ drift = -2
    <3>1. adj' = 1 /\ drift' = -3
      BY <2>1, <2>2, <2>5, Bytes
    <3> QED
      BY <3>1 DEF AdjTellsDrift
  <2>6. CASE adj = 1 /\ drift = -3
    <3>1. adj' = 3 /\ drift' = -4
      BY <2>1, <2>2, <2>6, Bytes
    <3> QED
      BY <3>1 DEF AdjTellsDrift
  <2>7. CASE adj = 3 /\ drift = -4
    <3>1. adj' = 2 /\ drift' = -2
      BY <2>1, <2>2, <2>7, Bytes
    <3> QED
      BY <3>1 DEF AdjTellsDrift
  <2> QED
    BY <2>3, <2>4, <2>5, <2>6, <2>7 DEF AdjTellsDrift
<1> QED
  BY <1>1, <1>2

LEMMA NextAdjTellsDrift == ASSUME TypeOK, AdjTellsDrift, [Next]_vars PROVE AdjTellsDrift'
<1>1. ASSUME NEW reading \in BOOLEAN, Poll(reading) PROVE AdjTellsDrift'
  <2>1. PICK deadline \in 0..Range-1, late \in Int :
           IF RISCCheckTimer2(deadline) THEN Step(deadline, late, reading)
           ELSE poll_timer' = deadline /\ lag' = late /\ UNCHANGED <<adj, drift>>
    BY <1>1, PollCases
  <2>2. CASE RISCCheckTimer2(deadline)
    BY <2>1, <2>2, StepKeepsAdj
  <2>3. CASE ~RISCCheckTimer2(deadline)
    BY <2>1, <2>3 DEF AdjTellsDrift
  <2> QED
    BY <2>2, <2>3
<1>2. CASE ResetMessage \/ Millisecond \/ UNCHANGED vars
  BY <1>2 DEF ResetMessage, Millisecond, vars, AdjTellsDrift
<1> QED
  BY <1>1, <1>2 DEF Next

(* pcecd.cpp: the steps that do not read average 13.33 ms, over any number *)
(* of steps, resets and turns of the counter.                              *)
THEOREM Average == Spec => []NoDrift
<1>1. Init => DriftInv
  BY InitTypeOK DEF Init, DriftInv, AdjTellsDrift
<1>2. DriftInv /\ [Next]_vars => DriftInv'
  BY NextTypeOK, NextAdjTellsDrift DEF DriftInv
<1>3. DriftInv => NoDrift
  BY DEF DriftInv, AdjTellsDrift, NoDrift
<1> QED
  BY <1>1, <1>2, <1>3, PTL DEF Spec
-----------------------------------------------------------------------------

LEMMA PollKeepsPace ==
  ASSUME PaceInv, NEW reading \in BOOLEAN, Poll(reading)
  PROVE  OnPace' /\ CounterTellsLag'
<1> DEFINE now == millisecond_counter
<1>1. /\ TypeOK /\ ~need_reset /\ now \in Nat /\ now < Range - 16 /\ lag \in Int
      /\ -16 <= lag /\ lag <= turn /\ turn \in Nat /\ turn <= MaxTurn /\ MaxTurn <= 12
      /\ poll_timer \in Nat
      /\ poll_timer # 0 => poll_timer = now - lag
  BY DEF PaceInv, OnPace, CounterTellsLag, TypeOK
<1>2. PICK deadline \in 0..Range-1, late \in Int :
        /\ deadline = IF poll_timer = 0 THEN RISCGetTimer2(13) ELSE poll_timer
        /\ late = IF poll_timer = 0 THEN -13 ELSE lag
        /\ IF RISCCheckTimer2(deadline) THEN Step(deadline, late, reading)
           ELSE poll_timer' = deadline /\ lag' = late /\ UNCHANGED <<adj, drift>>
        /\ turn' = 0 /\ need_reset' = FALSE /\ UNCHANGED now
  BY <1>1, PollCases
<1>8. ~need_reset'
  BY <1>2
<1>3. RISCGetTimer2(13) = now + 13 /\ RISCGetTimer2(0) = now
  <2>1. now + 13 \in 0..Range-1 /\ now + 0 \in 0..Range-1 /\ now + 0 = now
    BY <1>1
  <2> QED
    BY <2>1, NoWrap DEF RISCGetTimer2
<1>4. deadline = now - late /\ deadline # 0 /\ -16 <= late /\ late <= 12
  BY <1>1, <1>2, <1>3
<1>5. RISCCheckTimer2(deadline) <=> late >= 0
  BY <1>1, <1>2, <1>3, <1>4 DEF RISCCheckTimer2
<1>6. CASE late >= 0
  <2>1. poll_timer' = (deadline + Advance(reading)) % Range /\ lag' = late - Advance(reading)
    BY <1>2, <1>5, <1>6 DEF Step
  <2>2. Advance(reading) \in {13, 14, 16}
    BY DEF Advance, Frame
  <2>3. deadline + Advance(reading) \in 0..Range-1
    BY <1>1, <1>4, <1>6, <2>2
  <2>4. poll_timer' = deadline + Advance(reading)
    BY <2>1, <2>3, NoWrap
  <2>5. poll_timer' = now - lag' /\ lag' \in Int /\ -16 <= lag' /\ lag' < 0 /\ poll_timer' # 0
    BY <1>1, <1>2, <1>4, <1>6, <2>1, <2>2, <2>4
  <2>6. OnPace'
    BY <1>1, <2>5 DEF OnPace
  <2>7. now' < Range - 16 /\ poll_timer' = now' - lag' /\ lag' <= turn'
    BY <1>1, <1>2, <2>5
  <2> QED
    BY <1>8, <2>5, <2>6, <2>7 DEF CounterTellsLag
<1>7. CASE ~(late >= 0)
  <2>1. poll_timer' = deadline /\ lag' = late
    BY <1>2, <1>5, <1>7
  <2>2. OnPace'
    BY <1>1, <1>4, <1>7, <2>1 DEF OnPace
  <2>3. now' < Range - 16 /\ poll_timer' # 0 /\ poll_timer' = now' - lag' /\ lag' <= turn'
    BY <1>1, <1>2, <1>4, <1>7, <2>1
  <2> QED
    BY <1>8, <2>2, <2>3 DEF CounterTellsLag
<1> QED
  BY <1>6, <1>7

LEMMA MillisecondKeepsPace ==
  ASSUME Undisturbed, PaceInv, Millisecond PROVE OnPace' /\ CounterTellsLag'
<1>1. millisecond_counter < Range - 17 /\ turn < MaxTurn
  BY DEF Undisturbed, Millisecond
<1>2. millisecond_counter + 1 \in 0..Range-1
  BY <1>1 DEF PaceInv, TypeOK
<1>3. millisecond_counter' = millisecond_counter + 1
  BY <1>2, NoWrap DEF Millisecond
<1> QED
  BY <1>1, <1>3 DEF Millisecond, PaceInv, TypeOK, OnPace, CounterTellsLag

(* pcecd.cpp: no step of the drive is early, left out or put off, as long  *)
(* as the counter does not wrap around and the drive is not reset.         *)
THEOREM Pace == ASSUME Undisturbed PROVE Spec => []OnPace
<1>1. Init => PaceInv
  <2> SUFFICES ASSUME Init PROVE PaceInv
    OBVIOUS
  <2>1. ~need_reset /\ TypeOK
    BY InitTypeOK DEF Init
  <2>2. /\ millisecond_counter < Range - 16 /\ poll_timer = 0 /\ lag = 0 /\ lag <= turn
        /\ -16 <= lag /\ lag <= MaxTurn
    BY DEF Init
  <2> QED
    BY <2>1, <2>2 DEF PaceInv, OnPace, CounterTellsLag
<1>2. ASSUME PaceInv, [Next]_vars PROVE PaceInv'
  <2>1. TypeOK'
    BY <1>2, NextTypeOK DEF PaceInv
  <2>2. ASSUME NEW reading \in BOOLEAN, Poll(reading) PROVE OnPace' /\ CounterTellsLag'
    BY <1>2, <2>2, PollKeepsPace
  <2>3. ~ResetMessage
    BY DEF ResetMessage, Undisturbed
  <2>4. ASSUME Millisecond PROVE OnPace' /\ CounterTellsLag'
    BY <1>2, <2>4, MillisecondKeepsPace
  <2>5. ASSUME UNCHANGED vars PROVE OnPace' /\ CounterTellsLag'
    BY <1>2, <2>5 DEF PaceInv, vars, OnPace, CounterTellsLag
  <2>6. OnPace' /\ CounterTellsLag'
    <3>1. (\E reading \in BOOLEAN : Poll(reading)) \/ ResetMessage \/ Millisecond \/ UNCHANGED vars
      BY <1>2 DEF Next
    <3> QED
      BY <2>2, <2>3, <2>4, <2>5, <3>1
  <2> QED
    BY <2>1, <2>6 DEF PaceInv
<1>3. PaceInv => OnPace
  BY DEF PaceInv
<1> QED
  BY <1>1, <1>2, <1>3, PTL DEF Spec
-----------------------------------------------------------------------------

LEMMA PollKeepsDeadline ==
  ASSUME NearInv, NEW reading \in BOOLEAN, Poll(reading) PROVE NearInv'
<1> DEFINE now == millisecond_counter
<1>1. /\ TypeOK /\ now \in Nat /\ now < Range - 16 /\ poll_timer \in Nat
      /\ poll_timer <= now + 16
  BY DEF NearInv, DeadlineNear, TypeOK
<1>2. RISCGetTimer2(13) = now + 13 /\ RISCGetTimer2(0) = now
  <2>1. now + 13 \in 0..Range-1 /\ now + 0 \in 0..Range-1 /\ now + 0 = now
    BY <1>1
  <2> QED
    BY <2>1, NoWrap DEF RISCGetTimer2
<1>3. now' = now
  BY DEF Poll
<1>4. PICK deadline \in 0..now+16 :
        \/ deadline <= now /\ poll_timer' = (deadline + Advance(reading)) % Range
        \/ poll_timer' = deadline
  <2>1. CASE need_reset
    BY <1>1, <2>1 DEF Poll, Step, RISCCheckTimer2
  <2>2. CASE ~need_reset /\ poll_timer = 0
    BY <1>1, <1>2, <2>2 DEF Poll, Step, RISCCheckTimer2
  <2>3. CASE ~need_reset /\ poll_timer # 0
    BY <1>1, <1>2, <2>3 DEF Poll, Step, RISCCheckTimer2
  <2> QED
    BY <2>1, <2>2, <2>3
<1>5. CASE deadline <= now /\ poll_timer' = (deadline + Advance(reading)) % Range
  <2>1. Advance(reading) \in {13, 14, 16}
    BY DEF Advance, Frame
  <2>2. deadline + Advance(reading) \in 0..Range-1
    BY <1>1, <1>5, <2>1
  <2>3. poll_timer' = deadline + Advance(reading)
    BY <1>5, <2>2, NoWrap
  <2>4. poll_timer' <= now + 16
    BY <1>1, <1>5, <2>1, <2>3
  <2> QED
    BY <1>1, <1>3, <2>4, NextTypeOK DEF NearInv, DeadlineNear, Next
<1>6. CASE poll_timer' = deadline
  BY <1>1, <1>3, <1>6, NextTypeOK DEF NearInv, DeadlineNear, Next
<1> QED
  BY <1>4, <1>5, <1>6

(* pcecd.cpp: the deadline is never more than one step ahead of the clock, *)
(* resets or not, as long as the counter does not wrap around.             *)
THEOREM DeadlineStaysNear == ASSUME ~Wraps PROVE Spec => []DeadlineNear
<1>1. Init => NearInv
  <2> SUFFICES ASSUME Init PROVE NearInv
    OBVIOUS
  <2>1. millisecond_counter < Range - 16 /\ poll_timer <= millisecond_counter + 16
    BY DEF Init
  <2> QED
    BY <2>1, InitTypeOK DEF NearInv, DeadlineNear
<1>2. ASSUME NearInv, [Next]_vars PROVE NearInv'
  <2>1. TypeOK'
    BY <1>2, NextTypeOK DEF NearInv
  <2>2. ASSUME NEW reading \in BOOLEAN, Poll(reading) PROVE NearInv'
    BY <1>2, <2>2, PollKeepsDeadline
  <2>3. CASE ResetMessage \/ UNCHANGED vars
    BY <1>2, <2>1, <2>3 DEF ResetMessage, vars, NearInv, DeadlineNear
  <2>4. CASE Millisecond
    <3>1. millisecond_counter < Range - 17
      BY <2>4 DEF Millisecond
    <3>2. millisecond_counter + 1 \in 0..Range-1
      BY <1>2, <3>1 DEF NearInv, TypeOK
    <3>3. millisecond_counter' = millisecond_counter + 1 /\ poll_timer' = poll_timer
      BY <2>4, <3>2, NoWrap DEF Millisecond
    <3> QED
      BY <1>2, <2>1, <3>1, <3>3 DEF NearInv, DeadlineNear, TypeOK
  <2> QED
    BY <1>2, <2>2, <2>3, <2>4 DEF Next
<1>3. NearInv => DeadlineNear
  BY DEF NearInv
<1> QED
  BY <1>1, <1>2, <1>3, PTL DEF Spec
-----------------------------------------------------------------------------
(***************************************************************************)
(* The screens (MainLoop).                                                 *)
(***************************************************************************)
(* What a screen of an error leaves in its rows.                           *)
LEMMA ScreenIsError ==
  ASSUME NEW code, NEW file, ErrorScreen(code, file)
  PROVE  /\ osd'.on
         /\ \A r \in 0..osd'.height-1 :
              \/ osd'.rows[r].kind = "error" /\ osd'.rows[r].n = code
              \/ r = 7 /\ code \notin {NOTICE, RESTARTED}
<1>1. ASSUME NEW rows \in SUBSET (0..15), NEW height \in 0..16, NEW name,
             Show(rows, height, Text("error", code, name))
      PROVE  /\ osd'.on /\ osd'.height = height
             /\ \A r \in rows : osd'.rows[r].kind = "error" /\ osd'.rows[r].n = code
  BY <1>1 DEF Show, Text
<1>2. CASE code = NOTICE
  <2>1. Show(0..11, 12, Text("error", code, "none"))
    BY <1>2 DEF ErrorScreen, NOTICE, RESTARTED
  <2>2. 0..11 \in SUBSET (0..15) /\ 12 \in 0..16 /\ 12 - 1 = 11
    OBVIOUS
  <2> QED
    BY <1>1, <2>1, <2>2
<1>3. CASE code = RESTARTED
  <2>1. Show(0..10, 11, Text("error", code, "none"))
    BY <1>3 DEF ErrorScreen, NOTICE, RESTARTED
  <2>2. 0..10 \in SUBSET (0..15) /\ 11 \in 0..16 /\ 11 - 1 = 10
    OBVIOUS
  <2> QED
    BY <1>1, <2>1, <2>2
<1>4. CASE code \notin {NOTICE, RESTARTED}
  <2>1. Show((0..14) \ {7}, 15, Text("error", code, file))
    BY <1>4 DEF ErrorScreen
  <2>2. (0..14) \ {7} \in SUBSET (0..15) /\ 15 \in 0..16 /\ 15 - 1 = 14
    OBVIOUS
  <2>3. /\ osd'.on /\ osd'.height = 15
        /\ \A r \in (0..14) \ {7} : osd'.rows[r].kind = "error" /\ osd'.rows[r].n = code
    BY <1>1, <2>1, <2>2
  <2> QED
    BY <1>4, <2>3
<1> QED
  BY <1>2, <1>3, <1>4

(* A screen has one of four heights.                                       *)
LEMMA ScreenHeight ==
  ASSUME NEW code, NEW file, ErrorScreen(code, file)
  PROVE  osd'.height \in {0, 2, 11, 12, 15}
<1>1. ASSUME NEW rows, NEW height, NEW text, Show(rows, height, text)
      PROVE  osd'.height = height
  BY <1>1 DEF Show
<1> QED
  BY <1>1, Zenon DEF ErrorScreen

LEMMA StepKeepsTypes ==
  ASSUME LoopTypeOK, [LoopNext]_loopVars
  PROVE  LoopTypeOK'
<1> USE LoopAssumption DEF LoopTypeOK
<1>1. /\ NOTICE \in Codes /\ NOT_FOUND \in Codes /\ LOAD_FAILED \in Codes
      /\ RESTARTED \in Codes /\ 0 \in Codes
  BY DEF Codes
<1>2. ASSUME NEW f, Open(f) PROVE file_error_code' \in Codes
  BY <1>1, <1>2 DEF Open
<1> HIDE DEF Codes
<1>3. CASE CheckUpdate
  BY <1>1, <1>3 DEF CheckUpdate, Go, screenVars, outputs
<1>4. CASE Remount
  <2>1. file_error_code' \in Codes /\ osd'.height \in {0, 2, 11, 12, 15}
    <3>1. ASSUME NEW f \in Files, Open(f), UNCHANGED screenVars
          PROVE  file_error_code' \in Codes /\ osd'.height \in {0, 2, 11, 12, 15}
      BY <1>2, <3>1 DEF screenVars
    <3>2. ASSUME file_error_code' = LOAD_FAILED, UNCHANGED <<aft, screenVars>>
          PROVE  file_error_code' \in Codes /\ osd'.height \in {0, 2, 11, 12, 15}
      BY <1>1, <3>2 DEF screenVars
    <3>3. ASSUME NEW result \in {100, -1}, ErrorScreen(result, aft), UNCHANGED errorVars
          PROVE  file_error_code' \in Codes /\ osd'.height \in {0, 2, 11, 12, 15}
      BY <3>3, ScreenHeight DEF errorVars
    <3> QED
      BY <1>4, <3>1, <3>2, <3>3 DEF Remount
  <2>2. /\ pc' = "tick" /\ UNCHANGED <<display_cd, frame_counter, running>> /\ pc = "poll"
    BY <1>4 DEF Remount, outputs, screenVars
  <2> QED
    BY <2>1, <2>2
<1>5. CASE NoRemount
  BY <1>5 DEF NoRemount, Go, screenVars, errorVars, outputs
<1>6. CASE Tick
  <2>1. file_error_code' \in Codes /\ frame_counter' \in 0..2
    BY <1>2, <1>6 DEF Tick, errorVars
  <2>2. pc' = "mail" /\ pc = "tick" /\ UNCHANGED <<display_cd, osd, running>>
    BY <1>6 DEF Tick, Go, outputs
  <2> QED
    BY <2>1, <2>2
<1>7. CASE Mail
  BY <1>1, <1>7 DEF Mail, Go, screenVars, outputs
<1>8. CASE CoreRegUpdate
  BY <1>8 DEF CoreRegUpdate, Go, screenVars, errorVars
<1>9. CASE Expire
  <2>1. ASSUME InfoScreen
        PROVE  frame_counter' \in 0..2 /\ osd'.height \in {0, 2, 11, 12, 15}
    <3>1. CASE menu
      <4>1. osd'.height = 2
        BY <2>1, <3>1 DEF InfoScreen, Show
      <4>2. frame_counter' \in 0..2
        BY <2>1, <3>1 DEF InfoScreen
      <4> QED
        BY <4>1, <4>2
    <3>2. CASE ~menu
      <4>1. osd' = [osd EXCEPT !.on = FALSE] /\ frame_counter' = frame_counter
        BY <2>1, <3>2 DEF InfoScreen
      <4>2. osd'.height = osd.height
        BY <4>1
      <4> QED
        BY <4>1, <4>2
    <3> QED
      BY <3>1, <3>2
  <2>2. /\ file_error_code' \in Codes /\ display_cd' \in 0..NoticeTime
        /\ frame_counter' \in 0..2 /\ osd'.height \in {0, 2, 11, 12, 15}
    BY <1>1, <1>9, <2>1 DEF Expire, screenVars
  <2>3. pc' = "show" /\ pc = "expire" /\ UNCHANGED running
    BY <1>9 DEF Expire, Go, outputs
  <2> QED
    BY <2>2, <2>3
<1>10. CASE ShowError
  <2>1. osd'.height \in {0, 2, 11, 12, 15} /\ frame_counter' \in 0..2
    BY <1>10, ScreenHeight DEF ShowError, screenVars
  <2>2. pc' = "reset" /\ pc = "show" /\ UNCHANGED <<running, file_error_code, display_cd>>
    BY <1>10 DEF ShowError, Go, outputs, errorVars
  <2> QED
    BY <2>1, <2>2
<1>11. CASE FullCoreReset
  BY <1>11 DEF FullCoreReset, screenVars, errorVars
<1>12. CASE LetCoreGo
  BY <1>12 DEF LetCoreGo, Go, screenVars, errorVars
<1>13. CASE DisplayMillisecond
  BY <1>13 DEF DisplayMillisecond, screenVars, errorVars, outputs
<1>14. CASE Event
  BY <1>14 DEF Event, screenVars, errorVars, outputs
<1>15. CASE UNCHANGED loopVars
  BY <1>15 DEF loopVars, screenVars, errorVars, outputs
<1> QED
  BY <1>3, <1>4, <1>5, <1>6, <1>7, <1>8, <1>9, <1>10, <1>11, <1>12, <1>13, <1>14, <1>15
     DEF LoopNext, Loop

(* main.cpp: whatever happens, the code is one that a screen exists for,   *)
(* no screen has more rows than there are, and the core is held by         *)
(* full_core_reset alone, which lets it go.                                *)
THEOREM ScreenTypes == LoopSpec => []LoopTypeOK
<1>1. LoopInit => LoopTypeOK
  BY LoopAssumption DEF LoopInit, LoopTypeOK, Codes
<1>2. LoopTypeOK /\ [LoopNext]_loopVars => LoopTypeOK'
  BY StepKeepsTypes
<1> QED
  BY <1>1, <1>2, PTL DEF LoopSpec

(* Only ShowError comes to the end of a turn, and nothing that happens     *)
(* there before the next turn changes the error or the screen.             *)
LEMMA StepShowsError ==
  ASSUME ErrorShown, [LoopNext]_loopVars
  PROVE  ErrorShown'
<1> SUFFICES ASSUME pc' = "reset", file_error_code' # 0
             PROVE  /\ osd'.on
                    /\ \A r \in 0..osd'.height-1 :
                         \/ osd'.rows[r].kind = "error" /\ osd'.rows[r].n = file_error_code'
                         \/ r = 7 /\ file_error_code' \notin {NOTICE, RESTARTED}
  BY DEF ErrorShown
<1>1. CASE ShowError
  <2>1. ErrorScreen(file_error_code, aft) /\ file_error_code' = file_error_code
    BY <1>1 DEF ShowError, errorVars
  <2> QED
    BY <2>1, ScreenIsError
<1>2. CASE DisplayMillisecond \/ Event \/ UNCHANGED loopVars
  <2>1. UNCHANGED <<pc, osd, file_error_code>>
    BY <1>2 DEF DisplayMillisecond, Event, loopVars, errorVars, screenVars
  <2> QED
    BY <2>1 DEF ErrorShown
<1>3. CASE \/ CheckUpdate \/ Remount \/ NoRemount \/ Tick \/ Mail \/ CoreRegUpdate
           \/ Expire \/ FullCoreReset \/ LetCoreGo
  BY <1>3 DEF CheckUpdate, Remount, NoRemount, Tick, Mail, CoreRegUpdate, Expire,
     FullCoreReset, LetCoreGo, Go
<1> QED
  BY <1>1, <1>2, <1>3 DEF LoopNext, Loop

(* osd_menu.cpp, main.cpp: at the end of every turn the screen shows the   *)
(* error that is set, row by row, whatever user, console and host do.      *)
THEOREM ErrorIsShown == LoopSpec => []ErrorShown
<1>1. LoopInit => ErrorShown
  BY DEF LoopInit, ErrorShown
<1>2. ErrorShown /\ [LoopNext]_loopVars => ErrorShown'
  BY StepShowsError
<1> QED
  BY <1>1, <1>2, PTL DEF LoopSpec
=============================================================================
