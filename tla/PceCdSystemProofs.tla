------------------------- MODULE PceCdSystemProofs --------------------------
(***************************************************************************)
(* Proofs about PceCdSystem, for every disc, every set of commands and     *)
(* every size of the FIFO and of the message counter.                      *)
(***************************************************************************)
EXTENDS PceCdSystem, TLAPS, SequenceTheorems, WellFoundedInduction

(* What most steps need to know of the constants.                          *)
LEMMA Sizes ==
  /\ NumTracks \in Nat \ {0} /\ Chunks \in Nat \ {0}
  /\ SeekTicks \subseteq Nat
  /\ AudioDelayTicks \in Nat /\ MountTicks \in Nat /\ SherlockTicks \in Nat
  /\ FifoCap \in Nat \ {0}
  /\ ReqMod \in Nat \ {0, 1} /\ MaxResets \in Nat
  BY DiscAssumption, DriveAssumption, FifoAssumption, SystemAssumption

USE Sizes

-----------------------------------------------------------------------------
(* The table of contents.                                                  *)
LEMMA LeastNat ==
  ASSUME NEW T \in SUBSET Nat, T # {}
  PROVE  \E m \in T : \A k \in T : m <= k
<1>1. PICK m \in T : \A k \in T : <<k, m>> \notin OpToRel(<, Nat)
  BY WFMin, NatLessThanWellFounded, Zenon
<1>2. \A k \in T : ~(k < m)
  BY <1>1, Zenon DEF OpToRel
<1> QED
  BY <1>2

LEMMA TrackTypes ==
  ASSUME last \in 0..NumTracks
  PROVE  /\ \A i \in Int : StartOf(i) \in Nat /\ EndOf(i) \in Nat
         /\ TocEnd \in Nat
<1>1. \A i \in 0..last-1 : TrackStart[i] \in Nat /\ TrackEnd[i] \in Nat
  BY DiscAssumption
<1>2. \A i \in Int : StartOf(i) \in Nat /\ EndOf(i) \in Nat
  BY <1>1 DEF StartOf, EndOf
<1>3. last - 1 \in Int
  OBVIOUS
<1> QED
  BY <1>2, <1>3, Zenon DEF TocEnd

(* The track that GetTrackByLBA chooses exists: it is the first one that   *)
(* ends behind the sector, or the slot behind the last track.              *)
LEMMA GetTrackByLBAFound ==
  ASSUME last \in 0..NumTracks, NEW l \in Nat
  PROVE  /\ GetTrackByLBA(l) \in 0..last
         /\ GetTrackByLBA(l) = last \/ EndOf(GetTrackByLBA(l)) > l
         /\ \A j \in 0..GetTrackByLBA(l)-1 : EndOf(j) <= l
<1> DEFINE T == {i \in 0..last : i = last \/ EndOf(i) > l}
<1>1. T \in SUBSET Nat /\ T # {}
  <2>1. last \in T /\ T \subseteq 0..last
    OBVIOUS
  <2>2. 0..last \subseteq Nat
    OBVIOUS
  <2> QED
    BY <2>1, <2>2, Zenon
<1>2. PICK m \in T : \A k \in T : m <= k
  <2> HIDE DEF T
  <2> QED
    BY <1>1, LeastNat
<1>3. \A j \in 0..m-1 : EndOf(j) <= l
  <2> SUFFICES ASSUME NEW j \in 0..m-1 PROVE EndOf(j) <= l
    OBVIOUS
  <2>1. j \in 0..last /\ j # last /\ ~(m <= j)
    BY <1>2
  <2>2. ~(EndOf(j) > l)
    BY <1>2, <2>1
  <2> QED
    BY <2>1, <2>2, TrackTypes
<1> DEFINE P(i) == (i = last \/ EndOf(i) > l) /\ \A j \in 0..i-1 : EndOf(j) <= l
<1>4. \E i \in 0..last : P(i)
  BY <1>2, <1>3
<1>5. GetTrackByLBA(l) = CHOOSE i \in 0..last : P(i)
  BY DEF GetTrackByLBA
<1>6. GetTrackByLBA(l) \in 0..last /\ P(GetTrackByLBA(l))
  <2> HIDE DEF P
  <2> QED
    BY <1>4, <1>5
<1> QED
  BY <1>6

LEMMA GetTrackByLBAType ==
  ASSUME last \in 0..NumTracks, NEW l \in Nat
  PROVE  GetTrackByLBA(l) \in 0..last
  BY GetTrackByLBAFound

(* There is one such track only.                                           *)
LEMMA GetTrackByLBAUnique ==
  ASSUME last \in 0..NumTracks, NEW l \in Nat, NEW i \in 0..last,
         i = last \/ EndOf(i) > l, \A j \in 0..i-1 : EndOf(j) <= l
  PROVE  GetTrackByLBA(l) = i
<1> DEFINE g == GetTrackByLBA(l)
<1>1. /\ g \in 0..last
      /\ g = last \/ EndOf(g) > l
      /\ \A j \in 0..g-1 : EndOf(j) <= l
  BY GetTrackByLBAFound
<1>2. \A j \in 0..last : EndOf(j) \in Nat
  BY TrackTypes
<1> HIDE DEF g
<1>3. ~(g < i)
  <2> SUFFICES ASSUME g < i PROVE FALSE
    OBVIOUS
  <2>1. g \in 0..i-1 /\ g # last
    BY <1>1
  <2> QED
    BY <1>1, <1>2, <2>1
<1>4. ~(i < g)
  <2> SUFFICES ASSUME i < g PROVE FALSE
    OBVIOUS
  <2>1. i \in 0..g-1 /\ i # last
    BY <1>1
  <2> QED
    BY <1>1, <1>2, <2>1
<1>5. g = i
  BY <1>1, <1>3, <1>4
<1> QED
  BY <1>5 DEF g

(* The next track ends behind the end of this one.                         *)
LEMMA TracksInOrder ==
  ASSUME last \in 0..NumTracks, NEW i \in 0..last-1, i + 1 < last
  PROVE  EndOf(i) < EndOf(i + 1)
<1>1. EndKnown
  BY DEF EndKnown
<1>2. EndOf(i) = TrackEnd[i] /\ EndOf(i + 1) = TrackEnd[i + 1]
  BY <1>1 DEF EndOf
<1>3. /\ i \in 0..NumTracks-1 /\ i + 1 \in 1..NumTracks-1 /\ (i + 1) - 1 = i
      /\ i + 1 \in 0..NumTracks-1
  OBVIOUS
<1>4. TrackEnd[i] <= TrackStart[i + 1] /\ TrackStart[i + 1] < TrackEnd[i + 1]
  BY <1>3, DiscAssumption
<1>5. TrackEnd[i] \in Nat /\ TrackStart[i + 1] \in Nat /\ TrackEnd[i + 1] \in Nat
  BY <1>3, DiscAssumption
<1> QED
  BY <1>2, <1>4, <1>5

(* One sector on, the track is the same or, at its end, the next.          *)
LEMMA NextSectorTrack ==
  ASSUME last \in 0..NumTracks, NEW l \in Nat, GetTrackByLBA(l) < last
  PROVE  LET i == GetTrackByLBA(l)
         IN  GetTrackByLBA(l + 1) = IF l + 1 >= EndOf(i) THEN i + 1 ELSE i
<1> DEFINE i == GetTrackByLBA(l)
<1>1. /\ i \in 0..last-1 /\ EndOf(i) > l
      /\ \A j \in 0..i-1 : EndOf(j) <= l
  BY GetTrackByLBAFound
<1>2. \A j \in 0..last : EndOf(j) \in Nat
  BY TrackTypes
<1> HIDE DEF i
<1>3. CASE l + 1 >= EndOf(i)
  <2>1. i + 1 \in 0..last /\ \A j \in 0..(i + 1) - 1 : EndOf(j) <= l + 1
    BY <1>1, <1>2, <1>3
  <2>2. i + 1 = last \/ EndOf(i + 1) > l + 1
    BY <1>1, <1>2, TracksInOrder
  <2>3. GetTrackByLBA(l + 1) = i + 1
    BY <2>1, <2>2, GetTrackByLBAUnique
  <2> QED
    BY <1>3, <2>3 DEF i
<1>4. CASE ~(l + 1 >= EndOf(i))
  <2>1. EndOf(i) > l + 1 /\ \A j \in 0..i-1 : EndOf(j) <= l + 1
    BY <1>1, <1>2, <1>4
  <2>2. GetTrackByLBA(l + 1) = i
    BY <1>1, <2>1, GetTrackByLBAUnique
  <2> QED
    BY <1>4, <2>2 DEF i
<1> QED
  BY <1>3, <1>4
-----------------------------------------------------------------------------
(* What is written to the ports.                                           *)
DataKinds == {"datareq", "reply", "data", "audio", "mount"}

LEMMA ItemTypes ==
  /\ \A s \in {GOOD, CHECK} : [kind |-> "status", n |-> s] \in Item
  /\ \A k \in DataKinds, n \in Nat : [kind |-> k, n |-> n] \in Item
  BY DEF Item, DataKinds

LEMMA WriteTypes ==
  /\ <<>> \in Seq(Item)
  /\ \A s \in {GOOD, CHECK} : SendStatus(s) \in Seq(Item)
  /\ SendDataRequest \in Seq(Item)
  /\ \A on \in {0, 1} : NotifyMount(on) \in Seq(Item)
<1>1. \A x \in Item : <<x>> \in Seq(Item)
  OBVIOUS
<1>2. \A s \in {GOOD, CHECK} : SendStatus(s) \in Seq(Item)
  BY <1>1, ItemTypes DEF SendStatus, Write
<1>3. \A k \in DataKinds, n \in Nat : Write(k, n) \in Seq(Item)
  BY <1>1, ItemTypes, Zenon DEF Write
<1>4. SendDataRequest \in Seq(Item)
  BY <1>3 DEF SendDataRequest, DataKinds
<1>5. \A on \in {0, 1} : NotifyMount(on) \in Seq(Item)
  BY <1>3 DEF NotifyMount, DataKinds
<1>6. <<>> \in Seq(Item)
  BY EmptySeq
<1> QED
  BY <1>2, <1>4, <1>5, <1>6

LEMMA JoinTypes ==
  \A s, t \in Seq(Item) : s \o t \in Seq(Item)
  OBVIOUS

LEMMA PiecesTypes ==
  ASSUME NEW k \in DataKinds, NEW n \in Nat
  PROVE  SendPieces(k, n) \in Seq(Item)
<1>1. [kind |-> k, n |-> n] \in Item
  BY ItemTypes
<1>2. \A x \in Item : [i \in 1..Chunks |-> x] \in Seq(Item)
  OBVIOUS
<1> QED
  BY <1>1, <1>2, Zenon DEF SendPieces

LEMMA ReadCDDATypes ==
  ASSUME NEW l \in Nat, NEW n \in Nat
  PROVE  ReadCDDA(l, n) \in Seq(Item)
<1> DEFINE e(i) == [kind |-> "audio", n |-> l + i - 1]
<1>1. \A i \in 1..n : l + i - 1 \in Nat
  OBVIOUS
<1>2. \A i \in 1..n : e(i) \in Item
  BY <1>1, ItemTypes DEF DataKinds
<1>3. ReadCDDA(l, n) = [i \in 1..n |-> e(i)]
  BY DEF ReadCDDA
<1> HIDE DEF e
<1>4. [i \in 1..n |-> e(i)] \in [1..n -> Item]
  BY <1>2
<1> QED
  BY <1>3, <1>4

LEMMA SendDataTypes ==
  ASSUME NEW l \in Nat
  PROVE  /\ SendData \in Seq(Item)
         /\ ReadData(l) \in Seq(Item)
<1>1. SendPieces("reply", 0) \in Seq(Item) /\ SendPieces("data", l) \in Seq(Item)
  BY PiecesTypes DEF DataKinds
<1> QED
  BY <1>1, WriteTypes DEF SendData, ReadData
-----------------------------------------------------------------------------
(* The drive: its flags, its numbers and its queue.                        *)
FlagTypes ==
  /\ pc \in {"reset", "tick", "update", "mail"}
  /\ need_reset \in BOOLEAN /\ loaded \in BOOLEAN /\ send_data \in BOOLEAN
  /\ state \in {"IDLE", "NODISC", "READ", "PLAY", "PAUSE"}
  /\ can_read_next \in BOOLEAN
  /\ has_status \in BOOLEAN /\ data_req \in BOOLEAN
  /\ sense \in {"none", "no disc", "invalid command"}

NumberTypes ==
  /\ last \in 0..NumTracks /\ index \in 0..NumTracks
  /\ latency \in Nat /\ audiodelay \in Nat /\ lba \in Nat /\ cnt \in Int
  /\ CDDAStart \in Nat /\ CDDAEnd \in Nat /\ CDDAMode \in Nat
  /\ CDDAFirst \in 0..1

LEMMA DriveTypeParts ==
  /\ DriveTypeOK => FlagTypes /\ NumberTypes /\ out \in Seq(Item)
  /\ FlagTypes' /\ NumberTypes' /\ out' \in Seq(Item) => DriveTypeOK'
<1>1. {0, 1} = 0..1
  OBVIOUS
<1> QED
  BY <1>1, Zenon DEF DriveTypeOK, FlagTypes, NumberTypes

USE DEF media, transport, cdda, answer

LEMMA DriveUnchanged ==
  ASSUME DriveTypeOK, UNCHANGED driveVars
  PROVE  DriveTypeOK'
<1>1. FlagTypes'
  BY DriveTypeParts DEF FlagTypes, driveVars
<1>2. NumberTypes' /\ out' \in Seq(Item)
  BY DriveTypeParts DEF NumberTypes, driveVars
<1> QED
  BY <1>1, <1>2, DriveTypeParts

LEMMA PollResetTypes ==
  ASSUME DriveTypeOK, PollReset
  PROVE  DriveTypeOK'
<1> USE DriveTypeParts
<1>1. CASE NoReset
  <2>1. FlagTypes'
    BY <1>1 DEF NoReset, FlagTypes
  <2>2. NumberTypes' /\ out' \in Seq(Item)
    BY <1>1 DEF NoReset, NumberTypes
  <2> QED
    BY <2>1, <2>2
<1>2. ASSUME NEW result \in LoadResults, Remount(result)
      PROVE  DriveTypeOK'
  <2>1. result \in {"mounted", "missing", "failed"}
    BY DriveAssumption
  <2>2. out' \in Seq(Item)
    BY <1>2, WriteTypes DEF Remount
  <2>3. FlagTypes'
    BY <1>2 DEF Remount, FlagTypes
  <2>4. NumberTypes'
    <3>1. last' = NumTracks \/ last' \in 0..NumTracks-1 \/ last' = 0
      BY <1>2, <2>1, Zenon DEF Remount
    <3>2. latency' \in {0, MountTicks}
      BY <1>2, Zenon DEF Remount
    <3>3. /\ audiodelay' = 0 /\ index' = 0 /\ lba' = 0 /\ cnt' = cnt
          /\ CDDAStart' = 0 /\ CDDAEnd' = 0 /\ CDDAMode' = 0
          /\ CDDAFirst' = CDDAFirst
      BY <1>2 DEF Remount, SILENT
    <3> QED
      BY <3>1, <3>2, <3>3 DEF NumberTypes
  <2> QED
    BY <2>2, <2>3, <2>4
<1> QED
  BY <1>1, <1>2 DEF PollReset

LEMMA PollTimerTypes ==
  ASSUME DriveTypeOK, PollTimer
  PROVE  DriveTypeOK'
<1> USE DriveTypeParts
<1>1. out' \in Seq(Item)
  BY WriteTypes, Zenon DEF PollTimer, TimerRunning, TimerExpired, GOOD
<1>2. FlagTypes'
  BY ZenonT(30) DEF PollTimer, TimerRunning, TimerExpired, FlagTypes
<1>3. UNCHANGED <<last, transport, cdda>>
  BY DEF PollTimer, TimerRunning, TimerExpired
<1>4. NumberTypes'
  BY <1>3 DEF NumberTypes
<1> QED
  BY <1>1, <1>2, <1>4
-----------------------------------------------------------------------------
(* cue_t::Update.                                                          *)
LEMMA UpdateReadSectorTypes ==
  ASSUME DriveTypeOK, UpdateReadSector
  PROVE  DriveTypeOK'
<1> USE DriveTypeParts
<1>1. FlagTypes'
  BY DEF UpdateReadSector, AtUpdate, FlagTypes
<1>2. out' \in Seq(Item)
  <2>1. lba \in Nat
    BY DEF NumberTypes
  <2>2. ReadData(lba) \in Seq(Item) /\ <<>> \in Seq(Item)
    BY <2>1, SendDataTypes, WriteTypes
  <2> QED
    BY <2>2, Zenon DEF UpdateReadSector
<1>3. NumberTypes'
  <2>1. /\ index < last
        /\ cnt' = cnt - 1 /\ lba' = lba + 1
        /\ index' = index \/ index' = index + 1
        /\ UNCHANGED <<latency, audiodelay, cdda, last>>
    BY DEF UpdateReadSector, AtUpdate
  <2> QED
    BY <2>1, SMTT(20) DEF NumberTypes
<1> QED
  BY <1>1, <1>2, <1>3

LEMMA UpdatePlayTypes ==
  ASSUME DriveTypeOK, UpdatePlay
  PROVE  DriveTypeOK'
<1> USE DriveTypeParts
<1>1. FlagTypes'
  BY DEF UpdatePlay, AtUpdate, FlagTypes
<1>2. /\ lba \in Nat /\ last \in 0..NumTracks /\ CDDAFirst \in 0..1
      /\ CDDAStart \in Nat /\ 1 + CDDAFirst \in Nat
  BY DEF NumberTypes
<1>3. out' \in Seq(Item)
  <2> DEFINE audio == IF KindOf(GetTrackByLBA(lba)) = "data" THEN <<>>
                      ELSE ReadCDDA(lba, 1 + CDDAFirst)
  <2>1. audio \in Seq(Item)
    BY <1>2, ReadCDDATypes, WriteTypes
  <2>2. SendStatus(GOOD) \in Seq(Item) /\ <<>> \in Seq(Item)
    BY WriteTypes
  <2>3. out' = audio \o SendStatus(GOOD) \/ out' = audio \o <<>>
    BY Zenon DEF UpdatePlay
  <2> HIDE DEF audio
  <2> QED
    BY <2>1, <2>2, <2>3, JoinTypes
<1>4. NumberTypes'
  <2>1. GetTrackByLBA(lba) \in 0..last
    BY <1>2, GetTrackByLBAType
  <2>2. index' = GetTrackByLBA(lba)
    BY DEF UpdatePlay
  <2>3. lba' = CDDAStart \/ lba' = lba + (1 + CDDAFirst)
    BY Zenon DEF UpdatePlay
  <2>4. /\ CDDAFirst' = 0
        /\ UNCHANGED <<last, latency, audiodelay, cnt, CDDAStart, CDDAEnd, CDDAMode>>
    BY DEF UpdatePlay, AtUpdate
  <2>5. index' \in 0..NumTracks /\ lba' \in Nat
    BY <1>2, <2>1, <2>2, <2>3
  <2> QED
    BY <2>4, <2>5 DEF NumberTypes
<1> QED
  BY <1>1, <1>3, <1>4

LEMMA UpdateTypes ==
  ASSUME DriveTypeOK, Update
  PROVE  DriveTypeOK'
<1> USE DriveTypeParts
<1>1. CASE UpdateLatency \/ UpdateAudioDelay
  <2>1. FlagTypes'
    BY <1>1 DEF UpdateLatency, UpdateAudioDelay, AtUpdate, FlagTypes
  <2>2. /\ \/ latency > 0 /\ latency' = latency - 1 /\ audiodelay' = audiodelay
           \/ audiodelay > 0 /\ audiodelay' = audiodelay - 1 /\ latency' = latency
        /\ UNCHANGED <<last, index, lba, cnt, cdda, out>>
    BY <1>1 DEF UpdateLatency, UpdateAudioDelay, AtUpdate
  <2>3. NumberTypes'
    BY <2>2 DEF NumberTypes
  <2> QED
    BY <2>1, <2>2, <2>3
<1>2. CASE UpdateReadEnd \/ UpdateReadWait \/ UpdateNothing
  <2>1. FlagTypes'
    BY <1>2, ZenonT(20) DEF UpdateReadEnd, UpdateReadWait, UpdateNothing, AtUpdate, FlagTypes
  <2>2. UNCHANGED <<last, latency, audiodelay, index, lba, cnt, cdda, out>>
    BY <1>2 DEF UpdateReadEnd, UpdateReadWait, UpdateNothing, AtUpdate
  <2>3. NumberTypes'
    BY <2>2 DEF NumberTypes
  <2> QED
    BY <2>1, <2>2, <2>3
<1> QED
  BY <1>1, <1>2, UpdateReadSectorTypes, UpdatePlayTypes DEF Update
-----------------------------------------------------------------------------
(* The commands.                                                           *)
LEMMA CommandParts ==
  ASSUME NEW c \in Command \cup {NoCommand}
  PROVE  c.n \in Nat /\ c.arg \in Nat
  BY DEF Command, NoCommand

LEMMA SearchTargetsTypes ==
  ASSUME NumberTypes, NEW c \in Command \cup {NoCommand}
  PROVE  /\ SearchTargets(c) \subseteq Nat
         /\ StopTarget(c) \in Nat
<1>1. c.n \in Nat /\ last \in 0..NumTracks
  BY CommandParts DEF NumberTypes
<1>2. /\ \A i \in Int : StartOf(i) \in Nat
      /\ TocEnd \in Nat
  BY <1>1, TrackTypes
<1>3. SearchTargets(c) \subseteq Nat
  <2> DEFINE i == (IF c.n = 0 THEN 1 ELSE IF c.n > last THEN last ELSE c.n) - 1
  <2>1. StartOf(i) \in Nat
    <3>1. i \in Int
      BY <1>1
    <3> HIDE DEF i
    <3> QED
      BY <1>2, <3>1
  <2> SUFFICES ASSUME NEW t \in SearchTargets(c) PROVE t \in Nat
    OBVIOUS
  <2>2. t = c.n \/ t = 0 \/ t \in 0..LbaBound \/ t = StartOf(i)
    BY Zenon DEF SearchTargets
  <2> HIDE DEF i
  <2> QED
    BY <1>1, <2>1, <2>2
<1>4. StopTarget(c) \in Nat
  <2> DEFINE i == (IF c.n = 0 THEN 1 ELSE c.n) - 1
  <2>1. StartOf(i) \in Nat
    <3>1. i \in Int
      BY <1>1
    <3> HIDE DEF i
    <3> QED
      BY <1>2, <3>1
  <2>2. StopTarget(c) \in {c.n, TocEnd, StartOf(i)}
    BY Zenon DEF StopTarget
  <2> HIDE DEF i
  <2> QED
    BY <1>1, <1>2, <2>1, <2>2
<1> QED
  BY <1>3, <1>4

LEMMA Read6Types ==
  ASSUME NumberTypes, NEW c \in Command \cup {NoCommand}, NEW fast, Read6(c, fast),
         last' = last
  PROVE  NumberTypes'
<1>1. c.n \in Nat /\ c.arg \in Nat /\ last \in 0..NumTracks
  BY CommandParts DEF NumberTypes
<1>2. index' \in 0..last
  BY <1>1, GetTrackByLBAType DEF Read6
<1>3. ReadLatency(c, fast) \subseteq Nat
  <2> SUFFICES ASSUME NEW t \in ReadLatency(c, fast) PROVE t \in Nat
    OBVIOUS
  <2>1. t = 0 \/ t = SherlockTicks \/ t \in SeekTicks
    BY DEF ReadLatency
  <2>2. 0 \in Nat
    OBVIOUS
  <2> QED
    BY <2>1, <2>2, Zenon
<1>4. latency' \in Nat
  BY <1>3, Zenon DEF Read6
<1>5. audiodelay' = 0 \/ audiodelay' = audiodelay
  BY Zenon DEF Read6
<1>6. lba' = c.n /\ cnt' = c.arg /\ UNCHANGED cdda
  BY DEF Read6
<1> QED
  BY <1>1, <1>2, <1>4, <1>5, <1>6 DEF NumberTypes

LEMMA SapspTypes ==
  ASSUME NumberTypes, NEW c \in Command \cup {NoCommand}, NEW fast, Sapsp(c, fast),
         last' = last
  PROVE  NumberTypes'
<1>1. c.arg \in Nat /\ last \in 0..NumTracks
  BY CommandParts DEF NumberTypes
<1>2. PICK target \in SearchTargets(c), seek \in IF fast THEN {0} ELSE SeekTicks :
        /\ latency' = IF seek > AudioDelayTicks THEN seek - AudioDelayTicks ELSE seek
        /\ audiodelay' = IF seek > AudioDelayTicks THEN AudioDelayTicks ELSE 0
        /\ lba' = target
        /\ index' = GetTrackByLBA(target)
        /\ CDDAStart' = target
        /\ CDDAEnd' = TocEnd
        /\ CDDAMode' = c.arg
        /\ CDDAFirst' = 1
        /\ cnt' = cnt
  BY Zenon DEF Sapsp
<1>3. target \in Nat /\ seek \in Nat
  BY SearchTargetsTypes
<1>4. index' \in 0..last
  BY <1>1, <1>2, <1>3, GetTrackByLBAType
<1>5. TocEnd \in Nat
  BY <1>1, TrackTypes
<1>6. latency' \in Nat /\ audiodelay' \in Nat
  BY <1>2, <1>3
<1> QED
  BY <1>1, <1>2, <1>3, <1>4, <1>5, <1>6 DEF NumberTypes

LEMMA CommandExecTypes ==
  ASSUME DriveTypeOK, NEW c \in Command \cup {NoCommand}, NEW fast,
         CommandExec(c, fast), pc' = "reset"
  PROVE  DriveTypeOK'
<1> USE DriveTypeParts
<1>1. c.n \in Nat /\ c.arg \in Nat
  BY CommandParts
<1>2. UNCHANGED <<need_reset, media>>
  BY DEF CommandExec
<1>3. /\ SendStatus(GOOD) \in Seq(Item) /\ SendStatus(CHECK) \in Seq(Item)
      /\ SendData \o SendStatus(GOOD) \in Seq(Item)
  BY WriteTypes, SendDataTypes, JoinTypes
<1>4. CASE \/ TestUnit \/ RequestSense \/ ReplyOnly \/ Pause \/ UnknownCommand
  <2>1. FlagTypes'
    BY <1>2, <1>4, ZenonT(30) DEF TestUnit, RequestSense, ReplyOnly, Pause, UnknownCommand,
                      FlagTypes
  <2>2. UNCHANGED <<latency, audiodelay, index, lba, cnt, cdda>>
    BY <1>4 DEF TestUnit, RequestSense, ReplyOnly, Pause, UnknownCommand
  <2>3. NumberTypes'
    BY <1>2, <2>2 DEF NumberTypes
  <2>4. out' \in Seq(Item)
    BY <1>3, <1>4, Zenon DEF TestUnit, RequestSense, ReplyOnly, Pause, UnknownCommand
  <2> QED
    BY <2>1, <2>3, <2>4
<1>5. CASE ModeSelect6(c)
  <2>1. FlagTypes'
    BY <1>2, <1>5 DEF ModeSelect6, FlagTypes
  <2>2. NumberTypes'
    BY <1>2, <1>5 DEF ModeSelect6, NumberTypes
  <2>3. out' \in Seq(Item)
    BY <1>3, <1>5, Zenon DEF ModeSelect6
  <2> QED
    BY <2>1, <2>2, <2>3
<1>6. CASE Read6(c, fast)
  <2>1. FlagTypes'
    BY <1>2, <1>6 DEF Read6, FlagTypes
  <2>2. NumberTypes'
    BY <1>2, <1>6, Read6Types
  <2>3. out' = out
    BY <1>6 DEF Read6
  <2> QED
    BY <2>1, <2>2, <2>3
<1>7. CASE Sapsp(c, fast)
  <2>1. FlagTypes'
    BY <1>2, <1>7 DEF Sapsp, FlagTypes
  <2>2. NumberTypes'
    BY <1>2, <1>7, SapspTypes
  <2>3. out' = out
    BY <1>7 DEF Sapsp
  <2> QED
    BY <2>1, <2>2, <2>3
<1>8. CASE Sapep(c)
  <2>1. FlagTypes'
    BY <1>2, <1>8 DEF Sapep, FlagTypes
  <2>2. /\ CDDAMode' = c.arg /\ CDDAEnd' = StopTarget(c)
        /\ UNCHANGED <<latency, audiodelay, index, lba, cnt, CDDAStart, CDDAFirst>>
    BY <1>8 DEF Sapep
  <2>3. StopTarget(c) \in Nat
    BY SearchTargetsTypes
  <2>4. NumberTypes'
    BY <1>1, <1>2, <2>2, <2>3 DEF NumberTypes
  <2>5. out' \in Seq(Item)
    BY <1>3, <1>8, Zenon DEF Sapep
  <2> QED
    BY <2>1, <2>4, <2>5
<1> QED
  BY <1>4, <1>5, <1>6, <1>7, <1>8, Zenon DEF CommandExec

LEMMA MailTypes ==
  ASSUME DriveTypeOK, slot \in Message, NoMessage \/ TakeMessage
  PROVE  DriveTypeOK'
<1> USE DriveTypeParts
<1>1. CASE /\ TakeMessage
           /\ slot.kind = "command" /\ CommandExec(slot.cmd, slot.fast)
  <2>1. slot.cmd \in Command \cup {NoCommand}
    BY SystemAssumption DEF Message
  <2> QED
    BY <1>1, <2>1, CommandExecTypes DEF TakeMessage
<1>2. CASE \/ NoMessage
           \/ TakeMessage /\ (DataOutReceived \/ DataEndReceived \/ ResetReceived)
  <2>1. FlagTypes'
    <3>1. pc' = "reset"
      BY <1>2, Zenon DEF NoMessage, TakeMessage
    <3>2. /\ UNCHANGED <<media, state, has_status, data_req, sense>>
          /\ need_reset' = need_reset \/ need_reset' = TRUE
          /\ can_read_next' = can_read_next \/ can_read_next' = TRUE
      BY <1>2 DEF NoMessage, DataOutReceived, DataEndReceived, ResetReceived
    <3> QED
      BY <3>1, <3>2 DEF FlagTypes
  <2>2. UNCHANGED <<last, latency, audiodelay, index, lba, cnt, cdda>>
    BY <1>2 DEF NoMessage, DataOutReceived, DataEndReceived, ResetReceived
  <2>3. NumberTypes'
    BY <2>2 DEF NumberTypes
  <2>4. out' \in Seq(Item)
    BY <1>2, WriteTypes, Zenon DEF NoMessage, DataOutReceived, DataEndReceived,
                                   ResetReceived
  <2> QED
    BY <2>1, <2>3, <2>4
<1> QED
  BY <1>1, <1>2, Zenon DEF TakeMessage
-----------------------------------------------------------------------------
(* The target.                                                             *)
LEMMA SettleTypes ==
  ASSUME NEW stat, NEW fifo, NEW dout
  PROVE  /\ Settle(stat, fifo, dout) \in {"FREE", "DATAIN", "DATAOUT"}
         /\ Settle(stat, fifo, dout) = "DATAIN" => fifo # <<>>
  BY DEF Settle

LEMMA ArriveTypes ==
  ASSUME TargetTypeOK(Item),
         NEW stat \in BOOLEAN, NEW dout \in BOOLEAN, NEW fifo \in Seq(Item),
         Len(fifo) <= FifoCap, FIFO # <<>> => fifo # <<>>,
         Arrive(stat, fifo, dout),
         rst' = rst, DBO' = DBO, STATUS' \in {0, 1}
  PROVE  TargetTypeOK(Item)'
<1>1. /\ SP' \in {"FREE", "DATAIN", "DATAOUT", "STAT"}
      /\ SP' = "DATAIN" => fifo # <<>>
  BY SettleTypes, Zenon DEF Arrive, TargetTypeOK
<1>2. FIFO' = fifo /\ STAT_PEND' \in BOOLEAN
  BY DEF Arrive
<1>3. DOUT_PEND' \in BOOLEAN /\ BSY' \in BOOLEAN
  BY DEF Arrive, TargetTypeOK
<1>4. rst' \in BOOLEAN /\ DBO' \in {0, 1}
  BY DEF TargetTypeOK
<1> QED
  BY <1>1, <1>2, <1>3, <1>4, Zenon DEF TargetTypeOK

LEMMA TargetStepTypes ==
  ASSUME TargetTypeOK(Item),
         \/ SelectAndCommand \/ StatusPhase \/ StatusTaken \/ DataTaken
         \/ ParametersGiven \/ AssertReset \/ ReleaseReset
  PROVE  TargetTypeOK(Item)'
<1>1. CASE SelectAndCommand \/ StatusTaken \/ ParametersGiven
  <2>1. SP' = Settle(STAT_PEND, FIFO, DOUT_PEND)
    BY <1>1 DEF SelectAndCommand, StatusTaken, ParametersGiven
  <2>2. /\ SP' \in {"FREE", "DATAIN", "DATAOUT"}
        /\ SP' = "DATAIN" => FIFO # <<>>
    BY <2>1, SettleTypes
  <2>3. /\ UNCHANGED <<rst, STAT_PEND, STATUS, DBO, FIFO>>
        /\ BSY' \in BOOLEAN /\ DOUT_PEND' \in BOOLEAN
    BY <1>1 DEF SelectAndCommand, StatusTaken, ParametersGiven, TargetTypeOK
  <2> QED
    BY <2>2, <2>3 DEF TargetTypeOK
<1>2. CASE DataTaken
  <2>1. FIFO \in Seq(Item) /\ FIFO # <<>> /\ Len(FIFO) <= FifoCap
    BY <1>2 DEF DataTaken, TargetTypeOK
  <2>2. Tail(FIFO) \in Seq(Item) /\ Len(Tail(FIFO)) <= FifoCap
    BY <2>1
  <2>3. FIFO' = Tail(FIFO)
    BY <1>2 DEF DataTaken
  <2>4. /\ SP' \in {"FREE", "DATAIN", "DATAOUT"}
        /\ SP' = "DATAIN" => Tail(FIFO) # <<>>
    BY <1>2, SettleTypes, Zenon DEF DataTaken
  <2>5. /\ UNCHANGED <<rst, BSY, STAT_PEND, STATUS, DBO>>
        /\ DOUT_PEND' \in BOOLEAN
    BY <1>2 DEF DataTaken, TargetTypeOK
  <2> QED
    BY <2>2, <2>3, <2>4, <2>5 DEF TargetTypeOK
<1>3. CASE StatusPhase
  BY <1>3 DEF StatusPhase, TargetTypeOK
<1>4. CASE AssertReset
  <2>1. <<>> \in Seq(Item) /\ Len(<<>>) <= FifoCap
    BY WriteTypes
  <2>2. /\ rst' = TRUE /\ SP' = "FREE" /\ BSY' = FALSE
        /\ STAT_PEND' = FALSE /\ DOUT_PEND' = FALSE /\ FIFO' = <<>>
        /\ UNCHANGED <<STATUS, DBO>>
    BY <1>4 DEF AssertReset
  <2> QED
    BY <2>1, <2>2, Zenon DEF TargetTypeOK
<1>5. CASE ReleaseReset
  BY <1>5 DEF ReleaseReset, TargetTypeOK
<1> QED
  BY <1>1, <1>2, <1>3, <1>4, <1>5

LEMMA AcceptTypes ==
  ASSUME TargetTypeOK(Item), NEW w \in Item,
         \/ w.kind = "status" /\ AcceptStatus(w.n)
         \/ AcceptDataRequest
         \/ AcceptData(w)
  PROVE  TargetTypeOK(Item)'
<1>1. /\ FIFO \in Seq(Item) /\ Len(FIFO) <= FifoCap
      /\ STAT_PEND \in BOOLEAN /\ DOUT_PEND \in BOOLEAN /\ STATUS \in {0, 1}
  BY DEF TargetTypeOK
<1>2. /\ rst' = rst /\ DBO' = DBO /\ STATUS' \in {0, 1}
  <2>1. w.kind = "status" => w.n \in {0, 1}
    BY DEF Item, GOOD, CHECK
  <2> QED
    BY <1>1, <2>1 DEF AcceptStatus, AcceptDataRequest, AcceptData
<1>3. CASE rst
  <2>1. UNCHANGED <<SP, BSY, STAT_PEND, DOUT_PEND, FIFO>>
    BY <1>3 DEF AcceptStatus, AcceptDataRequest, AcceptData
  <2> QED
    BY <1>2, <2>1 DEF TargetTypeOK
<1>4. CASE ~rst /\ Arrive(TRUE, FIFO, DOUT_PEND)
  BY <1>1, <1>2, <1>4, ArriveTypes
<1>5. CASE ~rst /\ Arrive(STAT_PEND, FIFO, TRUE)
  BY <1>1, <1>2, <1>5, ArriveTypes
<1>6. CASE ~rst /\ Len(FIFO) < FifoCap /\ Arrive(STAT_PEND, Append(FIFO, w), DOUT_PEND)
  <2>1. /\ Append(FIFO, w) \in Seq(Item) /\ Append(FIFO, w) # <<>>
        /\ Len(Append(FIFO, w)) <= FifoCap
    BY <1>1, <1>6
  <2> QED
    BY <1>1, <1>2, <1>6, <2>1, ArriveTypes
<1> QED
  BY <1>3, <1>4, <1>5, <1>6, Zenon DEF AcceptStatus, AcceptDataRequest, AcceptData
-----------------------------------------------------------------------------
(* The mailbox and the console.                                            *)
MailTypeOK ==
  /\ slot \in Message
  /\ req \in 0..ReqMod-1 /\ last_req \in 0..ReqMod-1 /\ cd_en \in BOOLEAN

ConsoleTypeOK ==
  /\ asked \in Commands \cup {NoCommand}
  /\ got \in Seq(Item) /\ resets \in 0..MaxResets

LEMMA PostTypes ==
  ASSUME MailTypeOK, NEW k \in {"command", "dataout", "dataend", "reset"},
         NEW c \in Commands \cup {NoCommand}, Post(k, c)
  PROVE  MailTypeOK'
<1>1. slot' \in Message
  BY DEF Post, Message, MailTypeOK
<1>2. req' \in 0..ReqMod-1
  BY DEF Post, MailTypeOK
<1>3. UNCHANGED <<last_req, cd_en>>
  BY DEF Post
<1> QED
  BY <1>1, <1>2, <1>3 DEF MailTypeOK

LEMMA ConsoleTypes ==
  ASSUME TypeOK, Console
  PROVE  TypeOK'
<1>1. DriveTypeOK /\ TargetTypeOK(Item) /\ MailTypeOK /\ ConsoleTypeOK
  BY DEF TypeOK, MailTypeOK, ConsoleTypeOK
<1>2. DriveTypeOK'
  <2>1. UNCHANGED driveVars
    BY Zenon DEF Console, IssueCommand, TakeStatus, TakeData, GiveParameters,
                 HoldReset, EndReset
  <2> QED
    BY <1>1, <2>1, DriveUnchanged
<1>3. TargetTypeOK(Item)'
  <2>1. \/ SelectAndCommand \/ StatusTaken \/ DataTaken
        \/ ParametersGiven \/ AssertReset \/ ReleaseReset
    BY Zenon DEF Console, IssueCommand, TakeStatus, TakeData, GiveParameters,
                 HoldReset, EndReset
  <2> QED
    BY <1>1, <2>1, TargetStepTypes
<1>4. MailTypeOK'
  <2>1. \/ \E c \in Commands : Post("command", c)
        \/ Post("dataend", NoCommand) \/ Post("dataout", NoCommand)
        \/ Post("reset", NoCommand)
        \/ UNCHANGED mailVars
    BY Zenon DEF Console, IssueCommand, TakeStatus, TakeData, GiveParameters,
                 HoldReset, EndReset
  <2>2. CASE UNCHANGED mailVars
    BY <1>1, <2>2 DEF MailTypeOK, mailVars
  <2> QED
    BY <1>1, <2>1, <2>2, PostTypes
<1>5. ConsoleTypeOK'
  <2>1. asked' \in Commands \cup {NoCommand}
    BY <1>1 DEF Console, IssueCommand, TakeStatus, TakeData, GiveParameters,
                HoldReset, EndReset, ConsoleTypeOK, consoleVars
  <2>2. resets' \in 0..MaxResets
    <3>1. \/ resets < MaxResets /\ resets' = resets + 1
          \/ resets' = resets
      BY Zenon DEF Console, IssueCommand, TakeStatus, TakeData, GiveParameters,
                   HoldReset, EndReset, consoleVars
    <3> QED
      BY <1>1, <3>1 DEF ConsoleTypeOK
  <2>3. got' \in Seq(Item)
    <3>1. CASE TakeData
      <4>1. FIFO \in Seq(Item) /\ FIFO # <<>>
        BY <1>1, <3>1 DEF TakeData, DataTaken, TargetTypeOK
      <4>2. got \in Seq(Item) /\ Head(FIFO) \in Item
        BY <1>1, <4>1 DEF ConsoleTypeOK
      <4> QED
        BY <3>1, <4>2 DEF TakeData
    <3>2. CASE ~TakeData
      <4>1. got' = <<>> \/ got' = got
        BY <3>2, Zenon DEF Console, IssueCommand, TakeStatus, GiveParameters,
                           HoldReset, EndReset, consoleVars
      <4> QED
        BY <1>1, <4>1, WriteTypes, Zenon DEF ConsoleTypeOK
    <3> QED
      BY <3>1, <3>2
  <2> QED
    BY <2>1, <2>2, <2>3 DEF ConsoleTypeOK
<1> QED
  BY <1>2, <1>3, <1>4, <1>5, Zenon DEF TypeOK, MailTypeOK, ConsoleTypeOK
-----------------------------------------------------------------------------
(* The firmware.                                                           *)
LEMMA PortWriteTypes ==
  ASSUME TypeOK, PortWrite
  PROVE  TypeOK'
<1>1. DriveTypeOK /\ TargetTypeOK(Item) /\ MailTypeOK /\ ConsoleTypeOK
  BY DEF TypeOK, MailTypeOK, ConsoleTypeOK
<1>2. out \in Seq(Item) /\ out # <<>>
  BY <1>1 DEF DriveTypeOK, PortWrite
<1>3. Head(out) \in Item /\ Tail(out) \in Seq(Item)
  BY <1>2
<1>4. DriveTypeOK'
  <2>1. FlagTypes'
    BY <1>1, DriveTypeParts DEF PortWrite, FlagTypes
  <2>2. NumberTypes'
    BY <1>1, DriveTypeParts DEF PortWrite, NumberTypes
  <2>3. out' = Tail(out)
    BY DEF PortWrite
  <2> QED
    BY <1>3, <2>1, <2>2, <2>3, DriveTypeParts
<1>5. TargetTypeOK(Item)'
  <2> DEFINE w == Head(out)
  <2>1. \/ w.kind = "status" /\ AcceptStatus(w.n)
        \/ AcceptDataRequest
        \/ AcceptData(w)
        \/ UNCHANGED targetVars
    BY Zenon DEF PortWrite
  <2>2. CASE UNCHANGED targetVars
    BY <1>1, <2>2 DEF TargetTypeOK, targetVars
  <2> QED
    BY <1>1, <1>3, <2>1, <2>2, AcceptTypes
<1>6. MailTypeOK'
  <2>1. cd_en' \in BOOLEAN
    BY <1>1 DEF PortWrite, MailTypeOK
  <2>2. UNCHANGED <<slot, req, last_req>>
    BY DEF PortWrite
  <2> QED
    BY <1>1, <2>1, <2>2 DEF MailTypeOK
<1>7. ConsoleTypeOK'
  BY <1>1 DEF PortWrite, ConsoleTypeOK, consoleVars
<1> QED
  BY <1>4, <1>5, <1>6, <1>7, Zenon DEF TypeOK, MailTypeOK, ConsoleTypeOK

LEMMA FirmwareTypes ==
  ASSUME TypeOK, Firmware
  PROVE  TypeOK'
<1>1. DriveTypeOK /\ TargetTypeOK(Item) /\ MailTypeOK /\ ConsoleTypeOK
  BY DEF TypeOK, MailTypeOK, ConsoleTypeOK
<1>2. CASE PortWrite
  BY <1>2, PortWriteTypes
<1>3. CASE ~PortWrite
  <2>1. UNCHANGED <<targetVars, consoleVars>>
    BY <1>3, Zenon DEF Firmware
  <2>2. TargetTypeOK(Item)'
    BY <1>1, <2>1 DEF TargetTypeOK, targetVars
  <2>3. ConsoleTypeOK'
    BY <1>1, <2>1 DEF ConsoleTypeOK, consoleVars
  <2>4. MailTypeOK'
    <3>1. \/ last_req' = req
          \/ last_req' = last_req
      BY <1>3 DEF Firmware, NoMessage, TakeMessage, mailVars
    <3>2. UNCHANGED <<slot, req, cd_en>>
      BY <1>3 DEF Firmware, NoMessage, TakeMessage, mailVars
    <3> QED
      BY <1>1, <3>1, <3>2 DEF MailTypeOK
  <2>5. DriveTypeOK'
    <3>1. slot \in Message
      BY <1>1 DEF MailTypeOK
    <3> QED
      BY <1>1, <1>3, <3>1, PollResetTypes, PollTimerTypes, UpdateTypes, MailTypes,
         Zenon DEF Firmware
  <2> QED
    BY <2>2, <2>3, <2>4, <2>5, Zenon DEF TypeOK, MailTypeOK, ConsoleTypeOK
<1> QED
  BY <1>2, <1>3

LEMMA TypeStep ==
  ASSUME TypeOK, [Next]_vars
  PROVE  TypeOK'
<1>1. DriveTypeOK /\ TargetTypeOK(Item) /\ MailTypeOK /\ ConsoleTypeOK
  BY DEF TypeOK, MailTypeOK, ConsoleTypeOK
<1>2. ASSUME UNCHANGED <<driveVars, mailVars, consoleVars>>, TargetTypeOK(Item)'
      PROVE  TypeOK'
  <2>1. DriveTypeOK'
    BY <1>1, <1>2, DriveUnchanged
  <2>2. MailTypeOK' /\ ConsoleTypeOK'
    BY <1>1, <1>2 DEF MailTypeOK, ConsoleTypeOK, mailVars, consoleVars
  <2> QED
    BY <1>2, <2>1, <2>2, Zenon DEF TypeOK, MailTypeOK, ConsoleTypeOK
<1>3. CASE Target
  BY <1>1, <1>2, <1>3, TargetStepTypes, Zenon DEF Target
<1>4. CASE UNCHANGED vars
  <2>1. TargetTypeOK(Item)'
    BY <1>1, <1>4 DEF TargetTypeOK, targetVars, vars
  <2> QED
    BY <1>2, <1>4, <2>1 DEF vars
<1> QED
  BY <1>3, <1>4, ConsoleTypes, FirmwareTypes, Zenon DEF Next

LEMMA InitTypes ==
  ASSUME Init
  PROVE  TypeOK
<1>1. <<>> \in Seq(Item) /\ Len(<<>>) <= FifoCap
  BY WriteTypes
<1>2. FlagTypes
  BY DEF Init, DriveInit, FlagTypes
<1>3. NumberTypes
  BY DEF Init, DriveInit, NumberTypes, SILENT
<1>4. DriveTypeOK
  <2>1. out \in Seq(Item)
    BY <1>1, Zenon DEF Init, DriveInit
  <2>2. CDDAFirst \in {0, 1}
    BY DEF Init, DriveInit
  <2> QED
    BY <1>2, <1>3, <2>1, <2>2, Zenon DEF DriveTypeOK, FlagTypes, NumberTypes
<1>5. TargetTypeOK(Item)
  BY <1>1 DEF Init, TargetInit, TargetTypeOK
<1>6. MailTypeOK
  <2>1. slot = [kind |-> "none", cmd |-> NoCommand, fast |-> FALSE]
    BY DEF Init
  <2>2. slot \in Message
    BY <2>1 DEF Message
  <2>3. req = 0 /\ last_req = 0 /\ cd_en = FALSE /\ 0 \in 0..ReqMod-1
    BY DEF Init
  <2> QED
    BY <2>2, <2>3 DEF MailTypeOK
<1>7. ConsoleTypeOK
  BY <1>1 DEF Init, ConsoleTypeOK
<1> QED
  BY <1>4, <1>5, <1>6, <1>7, Zenon DEF TypeOK, MailTypeOK, ConsoleTypeOK

(***************************************************************************)
(* Every variable keeps its type, the track index stays within the table   *)
(* of contents, the FIFO never takes more than its pieces and the target   *)
(* never hands over data that it does not have (cue.cpp, SCSI.vhd).        *)
(***************************************************************************)
THEOREM TypeCorrect == Spec => []TypeOK
<1>1. Init => TypeOK
  BY InitTypes
<1>2. TypeOK /\ [Next]_vars => TypeOK'
  BY TypeStep
<1> QED
  BY <1>1, <1>2, PTL DEF Spec
-----------------------------------------------------------------------------
(* What the parts of pcecd_poll() write: nothing but the remount says that *)
(* a disc is mounted, and a CHECK CONDITION stands alone.                  *)
GoodItem == [kind : {"status"}, n : {GOOD}]
              \cup [kind : {"datareq", "reply", "data", "audio"}, n : Nat]

LEMMA GoodWrites ==
  /\ <<>> \in Seq(GoodItem)
  /\ SendStatus(GOOD) \in Seq(GoodItem)
  /\ SendDataRequest \in Seq(GoodItem)
  /\ SendData \in Seq(GoodItem)
  /\ \A l \in Nat : ReadData(l) \in Seq(GoodItem)
  /\ \A l, n \in Nat : ReadCDDA(l, n) \in Seq(GoodItem)
<1>1. /\ [kind |-> "status", n |-> GOOD] \in GoodItem
      /\ \A k \in {"datareq", "reply", "data", "audio"}, n \in Nat :
           [kind |-> k, n |-> n] \in GoodItem
  BY DEF GoodItem
<1>2. \A x \in GoodItem : <<x>> \in Seq(GoodItem) /\ [i \in 1..Chunks |-> x] \in Seq(GoodItem)
  OBVIOUS
<1>3. SendStatus(GOOD) \in Seq(GoodItem) /\ SendDataRequest \in Seq(GoodItem)
  BY <1>1, <1>2, Zenon DEF SendStatus, SendDataRequest, Write
<1>4. \A k \in {"reply", "data"}, n \in Nat : SendPieces(k, n) \in Seq(GoodItem)
  BY <1>1, <1>2, Zenon DEF SendPieces
<1>5. <<>> \in Seq(GoodItem)
  BY EmptySeq
<1>6. SendData \in Seq(GoodItem) /\ \A l \in Nat : ReadData(l) \in Seq(GoodItem)
  BY <1>4, <1>5 DEF SendData, ReadData
<1>7. ASSUME NEW l \in Nat, NEW n \in Nat PROVE ReadCDDA(l, n) \in Seq(GoodItem)
  <2> DEFINE e(i) == [kind |-> "audio", n |-> l + i - 1]
  <2>1. \A i \in 1..n : l + i - 1 \in Nat
    OBVIOUS
  <2>2. \A i \in 1..n : e(i) \in GoodItem
    BY <1>1, <2>1
  <2>3. ReadCDDA(l, n) = [i \in 1..n |-> e(i)]
    BY DEF ReadCDDA
  <2> HIDE DEF e
  <2>4. [i \in 1..n |-> e(i)] \in [1..n -> GoodItem]
    BY <2>2
  <2> QED
    BY <2>3, <2>4
<1> QED
  BY <1>3, <1>5, <1>6, <1>7, Zenon

LEMMA UpdateWrites ==
  ASSUME TypeOK, Update
  PROVE  /\ out = <<>> /\ UNCHANGED <<media, sense>>
         /\ out' \in Seq(GoodItem)
<1>1. out = <<>> /\ UNCHANGED <<media, sense>>
  BY DEF Update, UpdateLatency, UpdateReadEnd, UpdateReadWait, UpdateReadSector,
         UpdateAudioDelay, UpdatePlay, UpdateNothing, AtUpdate
<1>2. lba \in Nat /\ 1 + CDDAFirst \in Nat
  <2>1. lba \in Nat /\ CDDAFirst \in 0..1
    BY DriveTypeParts DEF TypeOK, NumberTypes
  <2> QED
    BY <2>1
<1>3. CASE UpdatePlay
  <2> DEFINE audio == IF KindOf(GetTrackByLBA(lba)) = "data" THEN <<>>
                      ELSE ReadCDDA(lba, 1 + CDDAFirst)
  <2>1. out' = audio \o SendStatus(GOOD) \/ out' = audio \o <<>>
    BY <1>3, Zenon DEF UpdatePlay
  <2>2. audio \in Seq(GoodItem)
    BY <1>2, GoodWrites
  <2> HIDE DEF audio
  <2>3. SendStatus(GOOD) \in Seq(GoodItem) /\ <<>> \in Seq(GoodItem)
    BY GoodWrites
  <2>4. \A s, t \in Seq(GoodItem) : s \o t \in Seq(GoodItem)
    OBVIOUS
  <2> QED
    BY <1>1, <2>1, <2>2, <2>3, <2>4, Zenon
<1>4. CASE ~UpdatePlay
  <2>1. out' = out \/ out' = <<>> \/ out' = ReadData(lba)
    BY <1>4, Zenon DEF Update, UpdateLatency, UpdateReadEnd, UpdateReadWait,
                       UpdateReadSector, UpdateAudioDelay, UpdateNothing
  <2> QED
    BY <1>1, <1>2, <2>1, GoodWrites
<1> QED
  BY <1>3, <1>4

LEMMA MessageWrites ==
  ASSUME TakeMessage
  PROVE  /\ out = <<>> /\ UNCHANGED media
         /\ \/ out' \in Seq(GoodItem)
            \/ out' = SendStatus(CHECK) /\ sense' # "none"
         /\ sense' = "none" => sense = "none" \/ slot.kind = "command"
<1>1. out = <<>> /\ UNCHANGED media
  BY DEF TakeMessage, CommandExec, DataOutReceived, DataEndReceived, ResetReceived
<1>2. SendData \o SendStatus(GOOD) \in Seq(GoodItem)
  <2>1. \A s, t \in Seq(GoodItem) : s \o t \in Seq(GoodItem)
    OBVIOUS
  <2> QED
    BY <2>1, GoodWrites, Zenon
<1>3. CASE slot.kind = "command" /\ CommandExec(slot.cmd, slot.fast)
  <2>1. CASE TestUnit \/ UnknownCommand
    <3>1. \/ out' = SendStatus(GOOD)
          \/ out' = SendStatus(CHECK) /\ sense' # "none"
      BY <2>1, Zenon DEF TestUnit, UnknownCommand
    <3> QED
      BY <1>1, <1>3, <3>1, GoodWrites
  <2>2. CASE ~(TestUnit \/ UnknownCommand)
    <3>1. \/ out' = out \/ out' = SendStatus(GOOD)
          \/ out' = SendData \o SendStatus(GOOD)
      BY <1>3, <2>2, Zenon DEF CommandExec, RequestSense, ReplyOnly, Read6,
                               ModeSelect6, Sapsp, Sapep, Pause
    <3> QED
      BY <1>1, <1>2, <1>3, <3>1, GoodWrites
  <2> QED
    BY <2>1, <2>2
<1>4. CASE DataOutReceived \/ DataEndReceived \/ ResetReceived
  <2>1. sense' = sense /\ (out' = out \/ out' = SendStatus(GOOD))
    BY <1>4 DEF DataOutReceived, DataEndReceived, ResetReceived
  <2> QED
    BY <1>1, <2>1, GoodWrites
<1> QED
  BY <1>3, <1>4, Zenon DEF TakeMessage

LEMMA PollWrites ==
  ASSUME TypeOK,
         NoReset \/ PollTimer \/ Update \/ NoMessage \/ TakeMessage
  PROVE  /\ out = <<>> /\ UNCHANGED media
         /\ \/ out' \in Seq(GoodItem)
            \/ out' = SendStatus(CHECK) /\ sense' # "none"
         /\ sense' = "none" =>
              \/ sense = "none"
              \/ TakeMessage /\ slot.kind = "command"
<1>1. CASE NoReset \/ NoMessage \/ PollTimer
  <2>1. out = <<>> /\ UNCHANGED <<media, sense>>
    BY <1>1 DEF NoReset, NoMessage, PollTimer, TimerRunning, TimerExpired
  <2>2. out' = out \/ out' = SendStatus(GOOD) \/ out' = SendDataRequest
    BY <1>1, Zenon DEF NoReset, NoMessage, PollTimer, TimerRunning, TimerExpired
  <2> QED
    BY <2>1, <2>2, GoodWrites
<1>2. CASE Update
  BY <1>2, UpdateWrites
<1>3. CASE TakeMessage
  BY <1>3, MessageWrites
<1> QED
  BY <1>1, <1>2, <1>3

LEMMA MountStep ==
  ASSUME TypeOK, MountNotified, [Next]_vars
  PROVE  MountNotified'
<1>1. ASSUME UNCHANGED <<out, loaded, cd_en>> PROVE MountNotified'
  BY <1>1 DEF MountNotified
<1>2. CASE Console \/ Target \/ UNCHANGED vars
  <2>1. UNCHANGED driveVars
    BY <1>2, Zenon DEF Console, IssueCommand, TakeStatus, TakeData, GiveParameters,
                       HoldReset, EndReset, Target, vars
  <2>2. cd_en' = cd_en
    BY <1>2 DEF Console, IssueCommand, TakeStatus, TakeData, GiveParameters,
                HoldReset, EndReset, Target, Post, mailVars, vars
  <2> QED
    BY <1>1, <2>1, <2>2 DEF driveVars
<1>3. ASSUME NEW result \in LoadResults, Remount(result) PROVE MountNotified'
  <2>1. /\ out' = <<[kind |-> "mount", n |-> IF result = "failed" THEN 0 ELSE 1]>>
        /\ loaded' = (result # "failed")
    BY <1>3 DEF Remount, NotifyMount, Write
  <2>2. DOMAIN out' = {1} /\ out'[1].kind = "mount" /\ (out'[1].n = 1) = loaded'
    BY <2>1
  <2> QED
    BY <2>2 DEF MountNotified
<1>4. CASE /\ NoReset \/ PollTimer \/ Update \/ NoMessage \/ TakeMessage
           /\ cd_en' = cd_en
  <2>1. out = <<>> /\ loaded' = loaded
    BY <1>4, PollWrites
  <2>2. \A i \in DOMAIN out' : out'[i].kind # "mount"
    <3>1. CASE out' \in Seq(GoodItem)
      <4>1. \A i \in DOMAIN out' : out'[i] \in GoodItem
        BY <3>1
      <4> QED
        BY <4>1 DEF GoodItem
    <3>2. CASE out' = SendStatus(CHECK)
      BY <3>2 DEF SendStatus, Write
    <3> QED
      BY <1>4, <3>1, <3>2, PollWrites
  <2>3. cd_en = loaded
    BY <2>1 DEF MountNotified
  <2> QED
    BY <1>4, <2>1, <2>2, <2>3 DEF MountNotified
<1>5. CASE PortWrite
  <2>1. /\ out \in Seq(Item) /\ out # <<>> /\ out' = Tail(out)
        /\ loaded' = loaded
        /\ IF Head(out).kind = "mount" THEN cd_en' = (Head(out).n = 1)
           ELSE cd_en' = cd_en
    BY <1>5 DEF PortWrite, TypeOK, DriveTypeOK
  <2>2. /\ 1 \in DOMAIN out /\ Head(out) = out[1]
        /\ \A i \in DOMAIN out' : i + 1 \in DOMAIN out /\ out'[i] = out[i + 1]
        /\ \A i \in DOMAIN out : i # 1 => i - 1 \in DOMAIN out' /\ out'[i - 1] = out[i]
    <3>1. \A s \in Seq(Item) : s # <<>> =>
            /\ Len(s) \in Nat \ {0} /\ DOMAIN s = 1..Len(s) /\ Head(s) = s[1]
            /\ DOMAIN Tail(s) = 1..Len(s)-1
            /\ \A i \in 1..Len(s)-1 : Tail(s)[i] = s[i + 1]
      OBVIOUS
    <3>2. /\ Len(out) \in Nat \ {0} /\ DOMAIN out = 1..Len(out) /\ Head(out) = out[1]
          /\ DOMAIN out' = 1..Len(out)-1
          /\ \A i \in 1..Len(out)-1 : out'[i] = out[i + 1]
      BY <2>1, <3>1
    <3> QED
      BY <3>2
  <2>3. \A i \in DOMAIN out' : out'[i].kind = "mount" => (out'[i].n = 1) = loaded'
    BY <2>1, <2>2 DEF MountNotified
  <2>4. ASSUME \A i \in DOMAIN out' : out'[i].kind # "mount" PROVE cd_en' = loaded'
    <3>1. CASE Head(out).kind = "mount"
      BY <2>1, <2>2, <3>1 DEF MountNotified
    <3>2. CASE Head(out).kind # "mount"
      BY <2>1, <2>2, <2>4, <3>2 DEF MountNotified
    <3> QED
      BY <3>1, <3>2
  <2> QED
    BY <2>3, <2>4 DEF MountNotified
<1>6. CASE Firmware
  <2>1. TakeMessage \/ NoMessage => cd_en' = cd_en
    BY DEF TakeMessage, NoMessage, mailVars
  <2>2. UNCHANGED mailVars => cd_en' = cd_en
    BY DEF mailVars
  <2> QED
    BY <1>3, <1>4, <1>5, <1>6, <2>1, <2>2, Zenon DEF Firmware, PollReset
<1> QED
  BY <1>2, <1>6 DEF Next

(* What the console sees of the drive bay (bit 0 of comm[13], cd_en) is    *)
(* what the firmware last mounted, whatever resets, failed loads and       *)
(* commands come in between (notify_mount in pcecd.cpp).                   *)
THEOREM MountIsNotified == Spec => []MountNotified
<1>1. Init => MountNotified
  <2>1. Init => out = <<>> /\ cd_en = FALSE /\ loaded = FALSE
    BY Zenon DEF Init, DriveInit
  <2>2. DOMAIN <<>> = {}
    OBVIOUS
  <2> QED
    BY <2>1, <2>2, Zenon DEF MountNotified
<1>2. TypeOK /\ MountNotified /\ [Next]_vars => MountNotified'
  BY MountStep
<1> QED
  BY <1>1, <1>2, TypeCorrect, PTL DEF Spec
-----------------------------------------------------------------------------
(* The track of the sector that is read.                                   *)
LEMMA IndexStep ==
  ASSUME TypeOK, IndexTracksLba, [Next]_vars
  PROVE  IndexTracksLba'
<1>1. last \in 0..NumTracks /\ lba \in Nat
  BY DriveTypeParts DEF TypeOK, NumberTypes
<1>2. ASSUME UNCHANGED <<last, index, lba>>, state' = "READ" => state = "READ"
      PROVE  IndexTracksLba'
  BY <1>2 DEF IndexTracksLba, GetTrackByLBA, EndOf, EndKnown
<1>3. ASSUME state' # "READ" PROVE IndexTracksLba'
  BY <1>3 DEF IndexTracksLba
<1>4. CASE Console \/ Target \/ PortWrite \/ NoReset \/ PollTimer \/ NoMessage
           \/ UNCHANGED vars
  <2>1. UNCHANGED <<last, index, lba, state>>
    BY <1>4 DEF Console, IssueCommand, TakeStatus, TakeData, GiveParameters,
                HoldReset, EndReset, Target, PortWrite, NoReset, PollTimer,
                TimerRunning, TimerExpired, NoMessage, driveVars, vars
  <2> QED
    BY <1>2, <2>1
<1>5. ASSUME NEW result \in LoadResults, Remount(result) PROVE IndexTracksLba'
  BY <1>3, <1>5 DEF Remount
<1>6. CASE UpdateReadSector
  <2>1. /\ index = GetTrackByLBA(lba) /\ index < last
        /\ lba' = lba + 1 /\ last' = last
        /\ index' = IF lba + 1 >= EndOf(index) THEN index + 1 ELSE index
    BY <1>6 DEF IndexTracksLba, UpdateReadSector, AtUpdate
  <2>2. GetTrackByLBA(lba + 1) = index'
    BY <1>1, <2>1, NextSectorTrack
  <2>3. PICK l : l = lba + 1
    OBVIOUS
  <2>4. index' = GetTrackByLBA(l) /\ lba' = l /\ last' = last
    BY <2>1, <2>2, <2>3
  <2> QED
    BY <2>4 DEF IndexTracksLba, GetTrackByLBA, EndOf, EndKnown
<1>7. CASE Update /\ ~UpdateReadSector
  <2>1. CASE UpdatePlay
    BY <1>3, <2>1 DEF UpdatePlay
  <2>2. CASE ~UpdatePlay
    <3>1. /\ UNCHANGED <<last, index, lba>>
          /\ state' = state \/ state' = "IDLE"
      BY <1>7, <2>2 DEF Update, UpdateLatency, UpdateReadEnd, UpdateReadWait,
                        UpdateAudioDelay, UpdateNothing, AtUpdate
    <3> QED
      BY <1>2, <3>1
  <2> QED
    BY <2>1, <2>2
<1>8. CASE TakeMessage
  <2>1. CASE slot.kind = "command" /\ CommandExec(slot.cmd, slot.fast)
    <3> DEFINE c == slot.cmd
    <3>1. UNCHANGED media
      BY <2>1 DEF CommandExec
    <3>2. CASE Read6(c, slot.fast)
      <4>1. index' = GetTrackByLBA(c.n) /\ lba' = c.n /\ last' = last
        BY <3>1, <3>2 DEF Read6
      <4> QED
        BY <4>1 DEF IndexTracksLba, GetTrackByLBA, EndOf, EndKnown
    <3>3. CASE Sapsp(c, slot.fast) \/ Sapep(c) \/ Pause
      <4>1. state' # "READ"
        BY <3>3, Zenon DEF Sapsp, Sapep, Pause
      <4> QED
        BY <1>3, <4>1
    <3>4. CASE TestUnit \/ RequestSense \/ ReplyOnly \/ ModeSelect6(c) \/ UnknownCommand
      <4>1. UNCHANGED <<last, index, lba, state>>
        BY <3>1, <3>4 DEF TestUnit, RequestSense, ReplyOnly, ModeSelect6, UnknownCommand
      <4> QED
        BY <1>2, <4>1
    <3> QED
      BY <2>1, <3>2, <3>3, <3>4, Zenon DEF CommandExec
  <2>2. CASE DataOutReceived \/ DataEndReceived \/ ResetReceived
    <3>1. UNCHANGED <<last, index, lba, state>>
      BY <2>2 DEF DataOutReceived, DataEndReceived, ResetReceived
    <3> QED
      BY <1>2, <3>1
  <2> QED
    BY <1>8, <2>1, <2>2, Zenon DEF TakeMessage
<1>9. CASE Firmware
  BY <1>4, <1>5, <1>6, <1>7, <1>8, <1>9, Zenon DEF Firmware, PollReset
<1> QED
  BY <1>4, <1>9, Zenon DEF Next

(* READ6 looks the track of its first sector up and Update only counts on  *)
(* from there (cue.cpp:337-376).  On every disc, tracks of one sector,     *)
(* gaps between tracks and a table of contents cut short included, the     *)
(* drive is always in the track that a new look-up would find.             *)
THEOREM IndexIsTrack == Spec => []IndexTracksLba
<1>1. Init => IndexTracksLba
  BY DEF Init, DriveInit, IndexTracksLba
<1>2. TypeOK /\ IndexTracksLba /\ [Next]_vars => IndexTracksLba'
  BY IndexStep
<1> QED
  BY <1>1, <1>2, TypeCorrect, PTL DEF Spec
=============================================================================
