---------------------------- MODULE PceCdSystem -----------------------------
(***************************************************************************)
(* The drive firmware (CueDrive) and the SCSI target (ScsiTarget), joined  *)
(* by the mailbox of main.sv and hps_ext.v, with the console's CD software *)
(* at the other end.                                                       *)
(*                                                                         *)
(* Towards the firmware the mailbox is one slot, cd_in, and a counter that *)
(* hps_ext.v advances on every message: the firmware notices that the      *)
(* count has changed and takes whatever is in the slot by then.            *)
(***************************************************************************)
EXTENDS CueDrive, ScsiTarget

CONSTANTS
  Commands,       \* commands the console software sends
  ReqMod,         \* values of the 8-bit message counter (256)
  MaxResets,      \* bound: resets the console asserts
  PatientReset,   \* it holds SCSI_RST until the firmware has remounted
  CarefulConsole  \* it asks only for what the disc in the drive can give

NoCommand == [op |-> "NONE", by |-> "lba", n |-> 0, arg |-> 0]

ASSUME SystemAssumption ==
  /\ Commands \subseteq Command
  /\ \A c \in Commands : c.op = "READ6" => c.by = "lba" /\ c.arg > 0
  /\ \A c \in Commands : c.op \in {"SAPSP", "SAPEP"} => c.arg \in Modes
  /\ ReqMod \in Nat \ {0, 1} /\ MaxResets \in Nat
  /\ PatientReset \in BOOLEAN /\ CarefulConsole \in BOOLEAN

VARIABLES
  slot,      \* cd_in: the last message to the firmware
  req,       \* cd_req of hps_ext.v
  last_req,  \* last_req of pcecd_poll
  cd_en,     \* what the firmware last notified: a disc is mounted
  asked,     \* the command the console waits for, or NoCommand
  got,       \* data it has received for that command
  resets     \* resets asserted so far

mailVars    == <<slot, req, last_req, cd_en>>
consoleVars == <<asked, got, resets>>
vars == <<driveVars, targetVars, mailVars, consoleVars>>

Message == [kind : {"none", "command", "dataout", "dataend", "reset"},
            cmd : Commands \cup {NoCommand}, fast : BOOLEAN]

Unread(k) == req # last_req /\ slot.kind = k

Init ==
  /\ DriveInit /\ TargetInit
  /\ slot = [kind |-> "none", cmd |-> NoCommand, fast |-> FALSE]
  /\ req = 0 /\ last_req = 0 /\ cd_en = FALSE
  /\ asked = NoCommand /\ got = <<>> /\ resets = 0

(* A message replaces the one in the slot, read or not.                    *)
Post(k, c) ==
  /\ slot' = [kind |-> k, cmd |-> c, fast |-> k = "command" /\ cd_en]
  /\ req' = (req + 1) % ReqMod
  /\ UNCHANGED <<last_req, cd_en>>
-----------------------------------------------------------------------------
(* The console.                                                            *)
ResetSettled == ~need_reset /\ ~Unread("reset")

(* Software that has read the table of contents reads sectors of data      *)
(* tracks only, plays when there are tracks to play, and leaves the end of *)
(* play interrupt to SAPEP.                                                *)
Readable(l) == GetTrackByLBA(l) < last /\ KindOf(GetTrackByLBA(l)) = "data"

Sensible(c) ==
  /\ c.op = "READ6" => \A l \in c.n .. c.n + c.arg - 1 : Readable(l)
  /\ c.op \in {"SAPSP", "SAPEP", "PAUSE"} => last > 0
  /\ c.op = "SAPSP" => c.arg # INTERRUPT

IssueCommand(c) ==
  /\ asked = NoCommand /\ ~BSY
  /\ CarefulConsole => Sensible(c)
  /\ lba <= LbaBound
  /\ SelectAndCommand
  /\ Post("command", c)
  /\ asked' = c /\ got' = <<>>
  /\ UNCHANGED <<driveVars, resets>>

TakeStatus ==
  /\ StatusTaken
  /\ asked' = NoCommand
  /\ UNCHANGED <<driveVars, mailVars, got, resets>>

(* CD_DATA_END is raised whenever the FIFO runs empty, at the end of a     *)
(* sector or in the middle of one.                                         *)
TakeData ==
  /\ DataTaken
  /\ got' = Append(got, Head(FIFO))
  /\ IF Len(FIFO) = 1 THEN Post("dataend", NoCommand) ELSE UNCHANGED mailVars
  /\ UNCHANGED <<driveVars, asked, resets>>

GiveParameters ==
  /\ ParametersGiven
  /\ Post("dataout", NoCommand)
  /\ UNCHANGED <<driveVars, consoleVars>>

HoldReset ==
  /\ resets < MaxResets
  /\ AssertReset
  /\ Post("reset", NoCommand)
  /\ asked' = NoCommand /\ got' = <<>>
  /\ resets' = resets + 1
  /\ UNCHANGED driveVars

EndReset ==
  /\ PatientReset => ResetSettled
  /\ ReleaseReset
  /\ UNCHANGED <<driveVars, mailVars, consoleVars>>

Console ==
  \/ \E c \in Commands : IssueCommand(c)
  \/ TakeStatus \/ TakeData \/ GiveParameters \/ HoldReset \/ EndReset
-----------------------------------------------------------------------------
(* The firmware's thread.                                                  *)
PollReset == NoReset \/ \E result \in LoadResults : Remount(result)

PollTimer == TimerRunning \/ TimerExpired

NoMessage ==
  /\ pc = "mail" /\ out = <<>> /\ req = last_req
  /\ pc' = "reset"
  /\ UNCHANGED <<need_reset, media, transport, cdda, answer, out, mailVars>>

TakeMessage ==
  /\ pc = "mail" /\ out = <<>> /\ req # last_req
  /\ pc' = "reset" /\ last_req' = req
  /\ \/ slot.kind = "command" /\ CommandExec(slot.cmd, slot.fast)
     \/ slot.kind = "dataout" /\ DataOutReceived
     \/ slot.kind = "dataend" /\ DataEndReceived
     \/ slot.kind = "reset" /\ ResetReceived
  /\ UNCHANGED <<slot, req, cd_en>>

(* One write of the queue reaches the FPGA.  Audio goes to a FIFO of its   *)
(* own that drains with the sample clock.                                  *)
PortWrite ==
  /\ out # <<>>
  /\ out' = Tail(out)
  /\ LET w == Head(out) IN
       \/ w.kind = "status" /\ AcceptStatus(w.n) /\ UNCHANGED cd_en
       \/ w.kind = "datareq" /\ AcceptDataRequest /\ UNCHANGED cd_en
       \/ w.kind \in {"reply", "data"} /\ AcceptData(w) /\ UNCHANGED cd_en
       \/ w.kind = "audio" /\ UNCHANGED <<targetVars, cd_en>>
       \/ w.kind = "mount" /\ cd_en' = (w.n = 1) /\ UNCHANGED targetVars
  /\ UNCHANGED <<pc, need_reset, media, transport, cdda, answer,
                 slot, req, last_req, consoleVars>>

Firmware ==
  \/ PollReset /\ UNCHANGED <<targetVars, mailVars, consoleVars>>
  \/ PollTimer /\ UNCHANGED <<targetVars, mailVars, consoleVars>>
  \/ Update /\ UNCHANGED <<targetVars, mailVars, consoleVars>>
  \/ NoMessage /\ UNCHANGED <<targetVars, consoleVars>>
  \/ TakeMessage /\ UNCHANGED <<targetVars, consoleVars>>
  \/ PortWrite

Target == StatusPhase /\ UNCHANGED <<driveVars, mailVars, consoleVars>>

Next == Console \/ Firmware \/ Target

Spec == Init /\ [][Next]_vars

(***************************************************************************)
(* The firmware polls for ever and its timer keeps expiring, the target    *)
(* is clocked, and console software goes on with a transfer it is in.      *)
(***************************************************************************)
Fairness ==
  /\ WF_vars(Firmware)
  /\ SF_vars(TimerExpired /\ UNCHANGED <<targetVars, mailVars, consoleVars>>)
  /\ WF_vars(Target)
  /\ WF_vars(TakeStatus) /\ WF_vars(TakeData) /\ WF_vars(GiveParameters)
  /\ WF_vars(EndReset)

FairSpec == Spec /\ Fairness
-----------------------------------------------------------------------------
TypeOK ==
  /\ DriveTypeOK /\ TargetTypeOK(Item)
  /\ slot \in Message
  /\ req \in 0..ReqMod-1 /\ last_req \in 0..ReqMod-1 /\ cd_en \in BOOLEAN
  /\ asked \in Commands \cup {NoCommand}
  /\ got \in Seq(Item) /\ resets \in 0..MaxResets

(***************************************************************************)
(* Where the answer to the outstanding command can be: on its way to the   *)
(* firmware, owed by the drive, in the port queue, or in the target.       *)
(***************************************************************************)
IsAnswer(w) == w.kind \in {"status", "datareq"}
InQueue     == \E i \in DOMAIN out : IsAnswer(out[i])
LoneAnswer  == \A i, j \in DOMAIN out : IsAnswer(out[i]) /\ IsAnswer(out[j]) => i = j

One(b) == IF b THEN 1 ELSE 0

MailOwes   == One(Unread("command")) + One(Unread("dataout"))
DriveOwes  == One(has_status) + One(data_req) + One(state = "READ")
                + One(state = "PLAY" /\ CDDAMode = INTERRUPT)
TargetOwes == One(STAT_PEND) + One(DOUT_PEND) + One(SP = "STAT") + One(SP = "DATAOUT")

Owed == MailOwes + DriveOwes + One(InQueue) + TargetOwes

(* A console that waits is owed exactly one status, and one that does not  *)
(* wait will not be given any.  (PendStatus, SendStatus and the SAPEP      *)
(* INTERRUPT end of play in cue.cpp, STAT_PEND in SCSI.vhd.)               *)
OneAnswer == ~rst => LoneAnswer /\ Owed = One(asked # NoCommand)

(* Also for commands that no drive could carry out, a second status never  *)
(* follows the first, and none comes unasked.                              *)
NoSecondAnswer == ~rst => LoneAnswer /\ Owed <= One(asked # NoCommand)

(* The data a command returns before a GOOD status.                        *)
DataOf(c) ==
  IF c.op = "READ6"
  THEN [i \in 1..c.arg * Chunks |->
          [kind |-> "data", n |-> c.n + (i - 1) \div Chunks]]
  ELSE IF c.op \in {"REQUESTSENSE", "GETDIRINFO", "READSUBQ"}
  THEN SendData
  ELSE <<>>

(* What it may return, with a disc mounted or none so far.                 *)
Replies ==
  [c \in Commands |->
     IF c.op = "READ6"
     THEN {[i \in 1..c.arg * Chunks |->
              [kind |-> "data", n |-> c.n + (i - 1) \div Chunks]]}
     ELSE IF c.op \in {"REQUESTSENSE", "GETDIRINFO", "READSUBQ"}
     THEN {<<>>, SendPieces("reply", 0)}
     ELSE {<<>>}]

(* To its software the console is connected with a drive that answers each *)
(* command with its data and one status, and with nothing else: no piece   *)
(* and no status comes unasked, twice or out of order, and no command is   *)
(* dropped but by a reset.                                                 *)
Service == INSTANCE CdService WITH
             Statuses <- {GOOD, CHECK},
             data     <- DataOf(asked),
             status   <- IF SP = "STAT" THEN {DBO} ELSE {}
ServiceGiven == Service!Spec

(* When the status phase begins the console has received all the data of   *)
(* the command, every sector once and in order, and the FIFO is empty: the *)
(* status neither overtakes a sector nor cuts one off, even when the FIFO  *)
(* runs empty inside a sector and CD_DATA_END comes early.                 *)
AnswerComplete ==
  SP = "STAT" /\ DBO = GOOD => got = DataOf(asked) /\ FIFO = <<>>

(* While a read is under way the track index that Update advances step by  *)
(* step is the one GetTrackByLBA would find for the current sector, also   *)
(* when that is toc.last because the read has run off the disc.            *)
IndexTracksLba ==
  state = "READ" => index = GetTrackByLBA(lba)

(* A CHECK CONDITION that the console has not acted upon yet, in the port  *)
(* queue, pending or on the bus, can still be explained: CommandError has  *)
(* filled in the sense data and no REQUESTSENSE has cleared them.          *)
CheckConditionExplained ==
  (\/ SP = "STAT" /\ DBO = CHECK
   \/ STAT_PEND /\ STATUS = CHECK
   \/ \E i \in DOMAIN out : out[i].kind = "status" /\ out[i].n = CHECK)
    => sense # "none"

(* cd_en in the FPGA says whether a disc is loaded, or the write that will *)
(* make it say so is on its way.                                           *)
MountNotified ==
  LET Notices == {i \in DOMAIN out : out[i].kind = "mount"}
  IN /\ Notices = {} => cd_en = loaded
     /\ \A i \in Notices : (out[i].n = 1) = loaded

(* One slot is enough: a command the firmware has not taken is replaced by *)
(* nothing but a reset.                                                    *)
CommandKept ==
  [][Unread("command") /\ slot' # slot => slot'.kind = "reset"]_vars

(* The sectors of a disc are those before toc.end ("Total size of CD rom", *)
(* cue.h:101), so a play sends no other one to the audio FIFO.             *)
PlayStaysOnDisc ==
  \A i \in DOMAIN out :
    out[i].kind = "audio" => \E t \in 0..NumTracks-1 : out[i].n < TrackEnd[t]

(* Bit 7 of comm[13] is the "fast seek (OSD setting)" of cue.cpp:562, and  *)
(* there is no such setting: a READ6 away from the current sector has the  *)
(* latency of a seek.                                                      *)
SeekTakesTime ==
  [][TakeMessage /\ slot.kind = "command" /\ slot.cmd.op = "READ6"
       /\ lba # slot.cmd.n => latency' \in SeekTicks]_vars

(* Every command is answered, unless the console resets the drive.         *)
CommandAnswered == asked # NoCommand ~> asked = NoCommand

(* A reset leads to a drive at rest, mounted or without a disc, with       *)
(* nothing pending.                                                        *)
ResetServed ==
  Unread("reset") ~> ~need_reset /\ state \in {"IDLE", "NODISC"} /\ Owed = 0
=============================================================================
