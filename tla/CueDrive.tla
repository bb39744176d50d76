------------------------------ MODULE CueDrive ------------------------------
(***************************************************************************)
(* The CD drive that the firmware emulates: class cue_t of cue.cpp and the *)
(* polling loop of pcecd.cpp.                                              *)
(*                                                                         *)
(* The firmware is one thread.  pcecd_poll() is cut where the FPGA can act *)
(* between two of its parts: the reset part, the timer part (pending       *)
(* status, then cue.Update()) and the mailbox part.  A handler computes    *)
(* its whole effect in one step and leaves what it writes to the FPGA, in  *)
(* program order, in the queue out; the thread goes on only when that      *)
(* queue is empty, because every port write blocks until the FPGA took it. *)
(*                                                                         *)
(* Time is abstract: whether poll_timer has expired is a free choice, and  *)
(* latencies are counted in timer ticks, as the code counts them.  The     *)
(* error code, the OSD and the seeks in the BIN files that some handlers   *)
(* also cause never feed back into the drive and are left out.             *)
(***************************************************************************)
EXTENDS Integers, Sequences

CONSTANTS
  NumTracks,        \* tracks of the disc
  TrackStart,       \* toc.tracks[i].start, i \in 0..NumTracks-1
  TrackEnd,         \* toc.tracks[i].end
  TrackKind,        \* toc.tracks[i].type: "audio" (0), "data" (1), "cdg" (2)
  SeekTicks,        \* values get_cd_seek_ms(..)/13 may take
  AudioDelayTicks,  \* 220/13
  MountTicks,       \* latency set by pcecd_set_image (10)
  HuVideoBlocks,    \* 120: read length of a HuVideo stream
  SherlockBlocks,   \* 252: read length of a Sherlock Holmes stream
  SherlockTicks,    \* 5
  LbaBound,         \* bound: largest LBA the model looks at
  LoadResults,      \* outcomes of LoadCUE considered
  Chunks            \* pieces in which the FPGA receives a sector or a reply

Kinds   == {"audio", "data", "cdg"}
Ops     == {"TESTUNIT", "REQUESTSENSE", "GETDIRINFO", "READ6", "MODESELECT6",
            "SAPSP", "SAPEP", "PAUSE", "READSUBQ", "OTHER"}
Modes   == 0..3
SILENT  == 0
LOOP    == 1
INTERRUPT == 2
GOOD    == 0
CHECK   == 1

(* n is an LBA, a track number or a parameter length; arg is a sector      *)
(* count (READ6) or a CDDA mode.                                           *)
Command == [op : Ops, by : {"lba", "track"}, n : Nat, arg : Nat]

ASSUME DiscAssumption ==
  /\ NumTracks \in 1..98
  /\ TrackStart \in [0..NumTracks-1 -> Nat]
  /\ TrackEnd \in [0..NumTracks-1 -> Nat]
  /\ TrackKind \in [0..NumTracks-1 -> Kinds]
  /\ \A i \in 0..NumTracks-1 : TrackStart[i] < TrackEnd[i]
  /\ \A i \in 1..NumTracks-1 : TrackEnd[i-1] <= TrackStart[i]

ASSUME DriveAssumption ==
  /\ SeekTicks \subseteq Nat /\ SeekTicks # {}
  /\ AudioDelayTicks \in Nat /\ MountTicks \in Nat /\ SherlockTicks \in Nat
  /\ HuVideoBlocks \in Nat /\ SherlockBlocks \in Nat
  /\ LbaBound \in Nat
  /\ LoadResults \subseteq {"mounted", "missing", "failed"}
  /\ LoadResults # {}
  /\ Chunks \in Nat \ {0}

VARIABLES
  pc,             \* where pcecd_poll() stands: "reset", "tick", "update", "mail"
  need_reset,
  loaded, last,   \* cue.loaded, toc.last
  send_data,      \* cue.SendData is set: a disc has been mounted before
  state, latency, audiodelay, index, lba, cnt,
  can_read_next,
  has_status, data_req,
  CDDAStart, CDDAEnd, CDDAMode, CDDAFirst,
  sense,          \* sense.asc: "none", "no disc", "invalid command"
  out             \* port writes not yet taken by the FPGA

media     == <<loaded, last, send_data>>
transport == <<state, latency, audiodelay, index, lba, cnt, can_read_next>>
cdda      == <<CDDAStart, CDDAEnd, CDDAMode, CDDAFirst>>
answer    == <<has_status, data_req, sense>>
driveVars == <<pc, need_reset, media, transport, cdda, answer, out>>

(***************************************************************************)
(* The table of contents.  Slots from toc.last on are blank: Unload clears *)
(* the slots of the old disc and Reset forgets how many there were.  When  *)
(* LoadCUE stops at the second BIN file the first track has no end yet,    *)
(* for that is computed when the second TRACK line is read.                *)
(***************************************************************************)
EndKnown   == last # 1 \/ NumTracks = 1
StartOf(i) == IF i \in 0..last-1 THEN TrackStart[i] ELSE 0
EndOf(i)   == IF i \in 0..last-1 /\ EndKnown THEN TrackEnd[i] ELSE 0
KindOf(i)  == IF i \in 0..last-1 THEN TrackKind[i] ELSE "audio"
TocEnd     == EndOf(last - 1)

GetTrackByLBA(l) ==
  CHOOSE i \in 0..last : /\ i = last \/ EndOf(i) > l
                         /\ \A j \in 0..i-1 : EndOf(j) <= l

(* What one port write is: a status word, a request for parameter data, a  *)
(* piece of a reply or of a data sector, an audio sector, cd_en.           *)
Item == [kind : {"status"}, n : {GOOD, CHECK}]
          \cup [kind : {"datareq", "reply", "data", "audio", "mount"}, n : Nat]

Write(k, n)      == <<[kind |-> k, n |-> n]>>
SendStatus(s)    == Write("status", s)
SendDataRequest  == Write("datareq", 0)
(* Mutant: a failed load is not notified. *)
NotifyMountOnlyOn(on) == IF on = 1 THEN Write("mount", 1) ELSE <<>>

NotifyMount(on)  == Write("mount", on)

SendPieces(k, n) == [i \in 1..Chunks |-> [kind |-> k, n |-> n]]
SendData         == IF send_data THEN SendPieces("reply", 0) ELSE <<>>
ReadData(l)      == SendPieces("data", l)
ReadCDDA(l, n)   == [i \in 1..n |-> [kind |-> "audio", n |-> l + i - 1]]
-----------------------------------------------------------------------------
DriveInit ==
  /\ pc = "reset" /\ need_reset = FALSE
  /\ loaded = FALSE /\ last = 0 /\ send_data = FALSE
  /\ state = "NODISC" /\ latency = 0 /\ audiodelay = 0
  /\ index = 0 /\ lba = 0 /\ cnt = 0 /\ can_read_next = FALSE
  /\ CDDAStart = 0 /\ CDDAEnd = 0 /\ CDDAMode = SILENT /\ CDDAFirst = 0
  /\ has_status = FALSE /\ data_req = FALSE /\ sense = "none"
  /\ out = <<>>

(***************************************************************************)
(* pcecd_poll(), reset part: cue.Unload(), cue.Reset(), pcecd_set_image(). *)
(* "missing" is the outcome in which LoadCUE returns 1 because a BIN file  *)
(* of the sheet cannot be opened: the disc mounts with the tracks before   *)
(* it.  "failed" stands for no cue sheet (100) and for a file type that is *)
(* not known (-1).                                                         *)
(***************************************************************************)
NoReset ==
  /\ pc = "reset" /\ out = <<>> /\ ~need_reset
  /\ pc' = "tick"
  /\ UNCHANGED <<need_reset, media, transport, cdda, answer, out>>

(* Mutant: Reset() forgets has_status. *)
RemountKeepsStatus(result) ==
  /\ pc = "reset" /\ out = <<>> /\ need_reset
  /\ pc' = "tick" /\ need_reset' = FALSE
  /\ loaded' = (result # "failed")
  /\ last' = IF result = "mounted" THEN NumTracks ELSE 0
  /\ send_data' = (send_data \/ result # "failed")
  /\ state' = IF result = "failed" THEN "NODISC" ELSE "IDLE"
  /\ latency' = 0
  /\ audiodelay' = 0 /\ index' = 0 /\ lba' = 0 /\ can_read_next' = FALSE
  /\ data_req' = FALSE
  /\ out' = NotifyMount(IF result = "failed" THEN 0 ELSE 1)
  /\ UNCHANGED <<cnt, cdda, has_status, sense>>

(* Mutant: the request for a reset is not cleared, and every poll remounts. *)
RemountForever(result) ==
  /\ pc = "reset" /\ out = <<>> /\ need_reset
  /\ pc' = "tick"
  /\ loaded' = TRUE /\ last' = NumTracks /\ send_data' = TRUE
  /\ state' = "IDLE" /\ latency' = MountTicks
  /\ audiodelay' = 0 /\ index' = 0 /\ lba' = 0 /\ can_read_next' = FALSE
  /\ has_status' = FALSE /\ data_req' = FALSE
  /\ out' = NotifyMount(1)
  /\ UNCHANGED <<need_reset, cnt, cdda, sense>>

Remount(result) ==
  /\ pc = "reset" /\ out = <<>> /\ need_reset
  /\ pc' = "tick" /\ need_reset' = FALSE
  /\ loaded' = (result # "failed")
  /\ CASE result = "mounted" -> last' = NumTracks
       [] result = "missing" -> last' \in 0..NumTracks-1
       [] result = "failed"  -> last' = 0
  /\ send_data' = (send_data \/ result # "failed")
  /\ state' = IF result = "failed" THEN "NODISC" ELSE "IDLE"
  /\ latency' = IF result = "failed" THEN 0 ELSE MountTicks
  /\ audiodelay' = 0 /\ index' = 0 /\ lba' = 0 /\ can_read_next' = FALSE
  /\ CDDAStart' = 0 /\ CDDAEnd' = 0 /\ CDDAMode' = SILENT
  /\ has_status' = FALSE /\ data_req' = FALSE
  /\ out' = NotifyMount(IF result = "failed" THEN 0 ELSE 1)
  /\ UNCHANGED <<cnt, CDDAFirst, sense>>

(***************************************************************************)
(* pcecd_poll(), timer part.                                               *)
(***************************************************************************)
TimerRunning ==
  /\ pc = "tick" /\ out = <<>>
  /\ pc' = "mail"
  /\ UNCHANGED <<need_reset, media, transport, cdda, answer, out>>

(* Mutant: the request for parameters is sent at every tick. *)
TimerExpiredAsksAgain ==
  /\ pc = "tick" /\ out = <<>>
  /\ pc' = "update"
  /\ out' = IF has_status /\ latency = 0 THEN SendStatus(GOOD)
            ELSE IF data_req THEN SendDataRequest ELSE <<>>
  /\ has_status' = (has_status /\ latency # 0)
  /\ UNCHANGED <<need_reset, media, transport, cdda, sense, data_req>>

TimerExpired ==
  /\ pc = "tick" /\ out = <<>>
  /\ pc' = "update"
  /\ \/ /\ has_status /\ latency = 0
        /\ out' = SendStatus(GOOD)
        /\ has_status' = FALSE
        /\ UNCHANGED data_req
     \/ /\ ~(has_status /\ latency = 0) /\ data_req
        /\ out' = SendDataRequest
        /\ data_req' = FALSE
        /\ UNCHANGED has_status
     \/ /\ ~(has_status /\ latency = 0) /\ ~data_req
        /\ UNCHANGED <<out, has_status, data_req>>
  /\ UNCHANGED <<need_reset, media, transport, cdda, sense>>

AtUpdate ==
  /\ pc = "update" /\ out = <<>>
  /\ pc' = "mail"
  /\ UNCHANGED <<need_reset, media, sense, data_req>>

UpdateLatency ==
  /\ AtUpdate
  /\ state \in {"READ", "PLAY", "PAUSE"} /\ latency > 0
  /\ latency' = latency - 1
  /\ UNCHANGED <<state, audiodelay, index, lba, cnt, can_read_next,
                 cdda, has_status, out>>

(* The read runs off the table of contents: the drive stops, and no status *)
(* is pended.                                                              *)
UpdateReadEnd ==
  /\ AtUpdate
  /\ state = "READ" /\ latency = 0 /\ index >= last
  /\ state' = "IDLE"
  /\ UNCHANGED <<latency, audiodelay, index, lba, cnt, can_read_next,
                 cdda, has_status, out>>

UpdateReadWait ==
  /\ AtUpdate
  /\ state = "READ" /\ latency = 0 /\ index < last /\ ~can_read_next
  /\ UNCHANGED <<transport, cdda, has_status, out>>

(* Mutant: the sector counter advances before the sector is sent. *)
UpdateReadNextSector ==
  /\ AtUpdate
  /\ state = "READ" /\ latency = 0 /\ index < last /\ can_read_next
  /\ can_read_next' = FALSE
  /\ out' = IF KindOf(index) = "data" THEN ReadData(lba + 1) ELSE <<>>
  /\ cnt' = cnt - 1
  /\ has_status' = (has_status \/ cnt = 1)
  /\ state' = IF cnt = 1 THEN "IDLE" ELSE "READ"
  /\ lba' = lba + 1
  /\ index' = IF lba + 1 >= EndOf(index) THEN index + 1 ELSE index
  /\ UNCHANGED <<latency, audiodelay, cdda>>

(* Mutant: the track ends one sector late. *)
UpdateReadSectorLate ==
  /\ AtUpdate
  /\ state = "READ" /\ latency = 0 /\ index < last /\ can_read_next
  /\ can_read_next' = FALSE
  /\ out' = IF KindOf(index) = "data" THEN ReadData(lba) ELSE <<>>
  /\ cnt' = cnt - 1
  /\ has_status' = (has_status \/ cnt = 1)
  /\ state' = IF cnt = 1 THEN "IDLE" ELSE "READ"
  /\ lba' = lba + 1
  /\ index' = IF lba + 1 > EndOf(index) THEN index + 1 ELSE index
  /\ UNCHANGED <<latency, audiodelay, cdda>>

UpdateReadSector ==
  /\ AtUpdate
  /\ state = "READ" /\ latency = 0 /\ index < last /\ can_read_next
  /\ can_read_next' = FALSE
  /\ out' = IF KindOf(index) = "data" THEN ReadData(lba) ELSE <<>>
  /\ cnt' = cnt - 1
  /\ has_status' = (has_status \/ cnt = 1)
  /\ state' = IF cnt = 1 THEN "IDLE" ELSE "READ"
  /\ lba' = lba + 1
  /\ index' = IF lba + 1 >= EndOf(index) THEN index + 1 ELSE index
  /\ UNCHANGED <<latency, audiodelay, cdda>>

UpdateAudioDelay ==
  /\ AtUpdate
  /\ state = "PLAY" /\ latency = 0 /\ audiodelay > 0
  /\ audiodelay' = audiodelay - 1
  /\ UNCHANGED <<state, latency, index, lba, cnt, can_read_next,
                 cdda, has_status, out>>

(* One audio sector, two on the first tick of a play; then the end test.   *)
UpdatePlay ==
  LET track  == GetTrackByLBA(lba)
      played == 1 + CDDAFirst
      audio  == IF KindOf(track) = "data" THEN <<>> ELSE ReadCDDA(lba, played)
      atEnd  == \/ lba + played > CDDAEnd
                \/ KindOf(track) # "audio"
                \/ track > last
  IN
  /\ AtUpdate
  /\ state = "PLAY" /\ latency = 0 /\ audiodelay = 0
  /\ index' = track
  /\ CDDAFirst' = 0
  /\ lba' = IF atEnd /\ CDDAMode = LOOP THEN CDDAStart ELSE lba + played
  /\ state' = IF atEnd /\ CDDAMode # LOOP THEN "IDLE" ELSE "PLAY"
  /\ out' = audio \o (IF atEnd /\ CDDAMode = INTERRUPT
                      THEN SendStatus(GOOD) ELSE <<>>)
  /\ UNCHANGED <<latency, audiodelay, cnt, can_read_next,
                 CDDAStart, CDDAEnd, CDDAMode, has_status>>

UpdateNothing ==
  /\ AtUpdate
  /\ \/ state \in {"IDLE", "NODISC"}
     \/ state = "PAUSE" /\ latency = 0
  /\ UNCHANGED <<transport, cdda, has_status, out>>

Update ==
  \/ UpdateLatency \/ UpdateReadEnd \/ UpdateReadWait \/ UpdateReadSector
  \/ UpdateAudioDelay \/ UpdatePlay \/ UpdateNothing
-----------------------------------------------------------------------------
(***************************************************************************)
(* pcecd_poll(), mailbox part.  The composing module gives these actions   *)
(* the message it read and advances pc to "reset".                         *)
(***************************************************************************)
(* Mutant: no sense data for a missing disc. *)
TestUnitUnexplained ==
  /\ out' = SendStatus(IF state = "NODISC" THEN CHECK ELSE GOOD)
  /\ UNCHANGED <<transport, cdda, answer>>

TestUnit ==
  /\ sense' = IF state = "NODISC" THEN "no disc" ELSE sense
  /\ out' = SendStatus(IF state = "NODISC" THEN CHECK ELSE GOOD)
  /\ UNCHANGED <<transport, cdda, has_status, data_req>>

RequestSense ==
  /\ sense' = "none"
  /\ out' = SendData \o SendStatus(GOOD)
  /\ UNCHANGED <<transport, cdda, has_status, data_req>>

(* GETDIRINFO and READSUBQ differ in the bytes they reply only.            *)
ReplyOnly ==
  /\ out' = SendData \o SendStatus(GOOD)
  /\ UNCHANGED <<transport, cdda, answer>>

(* The lengths 120 and 252 are recognised when the read goes on where the  *)
(* last one ended.  fast is bit 7 of comm[13].                             *)
ReadLatency(c, fast) ==
  CASE lba = c.n /\ c.arg = HuVideoBlocks  -> {0}
    [] lba = c.n /\ c.arg = SherlockBlocks /\ c.arg # HuVideoBlocks -> {SherlockTicks}
    [] OTHER -> IF fast THEN {0} ELSE SeekTicks

SeeksSlowly(c, fast) ==
  ~fast /\ ~(lba = c.n /\ c.arg \in {HuVideoBlocks, SherlockBlocks})

Read6(c, fast) ==
  /\ index' = GetTrackByLBA(c.n)
  /\ latency' \in ReadLatency(c, fast)
  /\ audiodelay' = IF SeeksSlowly(c, fast) THEN 0 ELSE audiodelay
  /\ lba' = c.n /\ cnt' = c.arg
  /\ can_read_next' = TRUE
  /\ state' = "READ"
  /\ UNCHANGED <<cdda, answer, out>>

ModeSelect6(c) ==
  /\ data_req' = (data_req \/ c.n > 0)
  /\ out' = IF c.n > 0 THEN out ELSE SendStatus(GOOD)
  /\ UNCHANGED <<transport, cdda, has_status, sense>>

(* Where a search goes.  With no track in the table a track number selects *)
(* tracks[-1], whose contents are whatever lies before the array.          *)
SearchTargets(c) ==
  IF c.by = "lba" THEN {c.n}
  ELSE IF last = 0 THEN (IF c.n = 0 THEN {0} ELSE 0..LbaBound)
  ELSE {StartOf((IF c.n = 0 THEN 1 ELSE IF c.n > last THEN last ELSE c.n) - 1)}

Sapsp(c, fast) ==
  \E target \in SearchTargets(c) :
  \E seek \in IF fast THEN {0} ELSE SeekTicks :
    /\ latency' = IF seek > AudioDelayTicks THEN seek - AudioDelayTicks ELSE seek
    /\ audiodelay' = IF seek > AudioDelayTicks THEN AudioDelayTicks ELSE 0
    /\ lba' = target
    /\ index' = GetTrackByLBA(target)
    /\ CDDAStart' = target
    /\ CDDAEnd' = TocEnd
    /\ CDDAMode' = c.arg
    /\ CDDAFirst' = 1
    /\ state' = IF c.arg = SILENT THEN "PAUSE" ELSE "PLAY"
    /\ has_status' = TRUE
    /\ UNCHANGED <<cnt, can_read_next, data_req, sense, out>>

StopTarget(c) ==
  IF c.by = "lba" THEN c.n
  ELSE LET track == IF c.n = 0 THEN 1 ELSE c.n
       IN IF track - 1 >= last THEN TocEnd ELSE StartOf(track - 1)

(* Mutant: SAPEP answers at once in every mode. *)
SapepAnswersTwice(c) ==
  /\ CDDAMode' = c.arg
  /\ CDDAEnd' = StopTarget(c)
  /\ state' = IF c.arg = SILENT THEN "IDLE" ELSE "PLAY"
  /\ out' = SendStatus(GOOD)
  /\ UNCHANGED <<latency, audiodelay, index, lba, cnt, can_read_next,
                 CDDAStart, CDDAFirst, answer>>

Sapep(c) ==
  /\ CDDAMode' = c.arg
  /\ CDDAEnd' = StopTarget(c)
  /\ state' = IF c.arg = SILENT THEN "IDLE" ELSE "PLAY"
  /\ out' = IF c.arg = INTERRUPT THEN out ELSE SendStatus(GOOD)
  /\ UNCHANGED <<latency, audiodelay, index, lba, cnt, can_read_next,
                 CDDAStart, CDDAFirst, answer>>

Pause ==
  /\ state' = "PAUSE"
  /\ out' = SendStatus(GOOD)
  /\ UNCHANGED <<latency, audiodelay, index, lba, cnt, can_read_next,
                 cdda, answer>>

UnknownCommand ==
  /\ sense' = "invalid command"
  /\ has_status' = FALSE
  /\ out' = SendStatus(CHECK)
  /\ UNCHANGED <<transport, cdda, data_req>>

CommandExec(c, fast) ==
  /\ \/ c.op = "TESTUNIT" /\ TestUnit
     \/ c.op = "REQUESTSENSE" /\ RequestSense
     \/ c.op \in {"GETDIRINFO", "READSUBQ"} /\ ReplyOnly
     \/ c.op = "READ6" /\ Read6(c, fast)
     \/ c.op = "MODESELECT6" /\ ModeSelect6(c)
     \/ c.op = "SAPSP" /\ Sapsp(c, fast)
     \/ c.op = "SAPEP" /\ Sapep(c)
     \/ c.op = "PAUSE" /\ Pause
     \/ c.op = "OTHER" /\ UnknownCommand
  /\ UNCHANGED <<need_reset, media>>

DataOutReceived ==
  /\ out' = SendStatus(GOOD)
  /\ UNCHANGED <<need_reset, media, transport, cdda, answer>>

(* Mutant: the end of a sector is noticed and not noted. *)
DataEndForgotten ==
  UNCHANGED <<need_reset, media, transport, cdda, answer, out>>

DataEndReceived ==
  /\ can_read_next' = TRUE
  /\ UNCHANGED <<need_reset, media, state, latency, audiodelay, index, lba, cnt,
                 cdda, answer, out>>

ResetReceived ==
  /\ need_reset' = TRUE
  /\ UNCHANGED <<media, transport, cdda, answer, out>>
-----------------------------------------------------------------------------
DriveTypeOK ==
  /\ pc \in {"reset", "tick", "update", "mail"}
  /\ need_reset \in BOOLEAN /\ loaded \in BOOLEAN /\ send_data \in BOOLEAN
  /\ last \in 0..NumTracks
  /\ state \in {"IDLE", "NODISC", "READ", "PLAY", "PAUSE"}
  /\ latency \in Nat /\ audiodelay \in Nat
  /\ index \in 0..NumTracks /\ lba \in Nat /\ cnt \in Int
  /\ can_read_next \in BOOLEAN
  /\ has_status \in BOOLEAN /\ data_req \in BOOLEAN
  /\ CDDAStart \in Nat /\ CDDAEnd \in Nat /\ CDDAMode \in Nat
  /\ CDDAFirst \in {0, 1}
  /\ sense \in {"none", "no disc", "invalid command"}
  /\ out \in Seq(Item)
=============================================================================
