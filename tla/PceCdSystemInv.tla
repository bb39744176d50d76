--------------------------- MODULE PceCdSystemInv ---------------------------
(***************************************************************************)
(* Why no answer comes twice or unasked: the invariant that the steps of   *)
(* PceCdSystem preserve when the console holds a reset until the drive has *)
(* remounted and leaves the end of play interrupt to SAPEP.                *)
(***************************************************************************)
EXTENDS PceCdSystem

(* What the invariant needs: patient resets, plays that leave the status   *)
(* to one place, and a counter that the end-of-data messages of one sector *)
(* cannot bring round to where it was.                                     *)
Orderly ==
  /\ PatientReset
  /\ \A c \in Commands : c.op = "SAPSP" => c.arg # INTERRUPT
  /\ ReqMod > Chunks + 2

(* Messages that the firmware has not noticed yet.                         *)
Unseen == IF req >= last_req THEN req - last_req ELSE req - last_req + ReqMod

IsPiece(w)    == w.kind \in {"reply", "data"}
DrivePending  == \/ has_status \/ data_req \/ state = "READ"
                 \/ state = "PLAY" /\ CDDAMode = INTERRUPT
AnswerUnderway ==
  InQueue \/ STAT_PEND \/ DOUT_PEND \/ SP \in {"STAT", "DATAOUT"}

(* Before the firmware looks into the mailbox again the counter can reach  *)
(* at most n: the FIFO may run empty now and after every further piece.    *)
CountBelow(n) ==
  /\ Unseen + One(FIFO # <<>>) <= n
  /\ \A i \in DOMAIN out : IsPiece(out[i]) => Unseen + One(FIFO # <<>>) + i <= n

(* A reset is over when the firmware has taken note of it and remounted.   *)
ResetOver == ~rst => ResetSettled

(* While it lasts the target is at rest, and the drive is at rest or about *)
(* to be.                                                                  *)
ResetAtRest ==
  rst => /\ slot.kind = "reset" /\ asked = NoCommand
         /\ SP = "FREE" /\ ~STAT_PEND /\ ~DOUT_PEND /\ FIFO = <<>>
         /\ \/ ~ResetSettled
            \/ /\ ~DrivePending /\ ~InQueue
               /\ \A i \in DOMAIN out : ~IsPiece(out[i])

Bus ==
  /\ SP # "FREE" => BSY
  /\ SP = "FREE" /\ FIFO # <<>> => STAT_PEND

(* Data on its way to the target belongs to an answer still to come.       *)
PieceBeforeAnswer ==
  ~rst => \A i \in DOMAIN out : IsPiece(out[i]) =>
            \/ has_status \/ state = "READ"
            \/ \E j \in DOMAIN out : j > i /\ IsAnswer(out[j])

(* A new command finds the FIFO empty.                                     *)
CommandAlone == ~rst /\ Unread("command") => FIFO = <<>>

CounterBehind ==
  ~rst => /\ CountBelow(Chunks + 1)
          /\ asked = NoCommand \/ AnswerUnderway => CountBelow(Chunks)
          /\ DrivePending /\ pc # "mail" => CountBelow(1)

AnswerInv ==
  /\ TypeOK
  /\ NoSecondAnswer
  /\ ResetOver /\ ResetAtRest /\ Bus
  /\ PieceBeforeAnswer /\ CommandAlone /\ CounterBehind
-----------------------------------------------------------------------------
(***************************************************************************)
(* Why the answer comes at all, and all its data before it: what the steps *)
(* preserve besides when the console is careful, that is when it reads no  *)
(* sector but those of data tracks.                                        *)
(***************************************************************************)
AwaitsParameters ==
  \/ data_req \/ DOUT_PEND \/ SP = "DATAOUT" \/ Unread("dataout")
  \/ \E i \in DOMAIN out : out[i].kind = "datareq"

(* The command in the mailbox is the one that the console waits for, and   *)
(* the disc has not changed since it was thought out.                      *)
CommandMeant ==
  ~rst /\ Unread("command") => slot.cmd = asked /\ Sensible(asked)

(* A read still has sectors before it, and all of them can be read.        *)
ReadGoesOn ==
  ~rst /\ state = "READ" =>
    /\ asked.op = "READ6"
    /\ cnt > 0 /\ asked.n <= lba /\ lba + cnt = asked.n + asked.arg
    /\ \A l \in lba..lba+cnt-1 : Readable(l)

(* Parameters are asked for by commands that return no data: no CD_DATA_END *)
(* takes the place of the message that they have been given.               *)
ParametersAlone ==
  ~rst /\ AwaitsParameters => FIFO = <<>> /\ \A i \in DOMAIN out : ~IsPiece(out[i])

(* A console that waits is owed something.                                 *)
AnswerComes ==
  ~rst /\ asked # NoCommand =>
    Unread("command") \/ Unread("dataout") \/ DrivePending \/ AnswerUnderway

(* What is in the FIFO is being read.                                      *)
FifoIsRead == FIFO # <<>> => SP = "DATAIN"

(* Of the data of the command, how much the drive has sent so far, and how *)
(* much of that still stands in the queue.                                 *)
Sent ==
  IF Unread("command") THEN 0
  ELSE IF state = "READ" THEN (lba - asked.n) * Chunks
  ELSE Len(DataOf(asked))

Queued == Sent - Len(got) - Len(FIFO)

(* What the console has got, the FIFO and the pieces in the queue are, one *)
(* behind the other, the beginning of the data of the command.             *)
DataInOrder ==
  ~rst /\ asked # NoCommand =>
    /\ Sent <= Len(DataOf(asked)) /\ Queued \in 0..Len(out)
    /\ \A i \in DOMAIN out : IsPiece(out[i]) <=> i <= Queued
    /\ \A i \in 1..Len(got) : got[i] = DataOf(asked)[i]
    /\ \A i \in 1..Len(FIFO) : FIFO[i] = DataOf(asked)[Len(got) + i]
    /\ \A i \in 1..Queued : out[i] = DataOf(asked)[Len(got) + Len(FIFO) + i]

SoundInv ==
  /\ AnswerInv /\ IndexTracksLba
  /\ CommandMeant /\ ReadGoesOn /\ ParametersAlone
  /\ AnswerComes /\ FifoIsRead /\ DataInOrder
=============================================================================
