----------------------------- MODULE ScsiTarget -----------------------------
(***************************************************************************)
(* The SCSI target of SCSI.vhd, between the console (its CPU, through the  *)
(* registers of cd.vhd) and the drive firmware.                            *)
(*                                                                         *)
(* A bus phase is one step per unit the phase moves: a whole command, a    *)
(* status with its message byte, one piece of data, one parameter block.   *)
(* SP_FREE leaves for a data phase in the clock after its condition holds, *)
(* long before firmware or console can act, so Settle takes that step      *)
(* together with its cause; the status phase starts 45000 clocks after     *)
(* STAT_PEND and is a step of its own.                                     *)
(***************************************************************************)
EXTENDS Integers, Sequences

CONSTANTS
  FifoCap     \* pieces the FIFO takes before it is almost full

ASSUME FifoAssumption == FifoCap \in Nat \ {0}

VARIABLES
  rst,        \* the console holds SCSI_RST
  SP,         \* phase: "FREE", "DATAIN", "DATAOUT", "STAT"
  BSY,
  STAT_PEND, STATUS,
  DBO,        \* status byte on the bus in the status phase
  DOUT_PEND,
  FIFO        \* data not yet read by the console

targetVars == <<rst, SP, BSY, STAT_PEND, STATUS, DBO, DOUT_PEND, FIFO>>

TargetInit ==
  /\ rst = FALSE /\ SP = "FREE" /\ BSY = FALSE
  /\ STAT_PEND = FALSE /\ STATUS = 0 /\ DBO = 0 /\ DOUT_PEND = FALSE
  /\ FIFO = <<>>

(* SP_FREE, without a selection: a pending status blocks the data phases.  *)
Settle(stat, fifo, dout) ==
  IF stat THEN "FREE"
  ELSE IF fifo # <<>> THEN "DATAIN"
  ELSE IF dout THEN "DATAOUT"
  ELSE "FREE"

(* What the target does when the pending flags or the FIFO change.         *)
Arrive(stat, fifo, dout) ==
  LET sp == IF SP = "FREE" THEN Settle(stat, fifo, dout) ELSE SP
  IN /\ STAT_PEND' = stat /\ FIFO' = fifo
     /\ SP' = sp
     /\ DOUT_PEND' = (dout /\ ~(SP = "FREE" /\ sp = "DATAOUT"))
     /\ BSY' = (BSY \/ (SP = "FREE" /\ sp # "FREE"))

(* The drive's writes.  Under SCSI_RST the process is held in reset: the   *)
(* FIFO stays clear and the requests are not latched.                      *)
AcceptStatus(s) ==
  /\ STATUS' = s
  /\ IF rst THEN UNCHANGED <<SP, BSY, STAT_PEND, DOUT_PEND, FIFO>>
            ELSE Arrive(TRUE, FIFO, DOUT_PEND)
  /\ UNCHANGED <<rst, DBO>>

AcceptDataRequest ==
  /\ STATUS' = 0
  /\ IF rst THEN UNCHANGED <<SP, BSY, STAT_PEND, DOUT_PEND, FIFO>>
            ELSE Arrive(STAT_PEND, FIFO, TRUE)
  /\ UNCHANGED <<rst, DBO>>

(* Mutant: nothing holds the writer back when the FIFO is almost full. *)
AcceptDataAnyway(d) ==
  /\ IF rst THEN UNCHANGED <<SP, BSY, STAT_PEND, DOUT_PEND, FIFO>>
            ELSE Arrive(STAT_PEND, Append(FIFO, d), DOUT_PEND)
  /\ UNCHANGED <<rst, STATUS, DBO>>

AcceptData(d) ==
  /\ Len(FIFO) < FifoCap
  /\ IF rst THEN UNCHANGED <<SP, BSY, STAT_PEND, DOUT_PEND, FIFO>>
            ELSE Arrive(STAT_PEND, Append(FIFO, d), DOUT_PEND)
  /\ UNCHANGED <<rst, STATUS, DBO>>

(* Selection and the command phase, up to COMM_SEND.                       *)
SelectAndCommand ==
  /\ SP = "FREE" /\ ~rst
  /\ BSY' = TRUE
  /\ SP' = Settle(STAT_PEND, FIFO, DOUT_PEND)
  /\ DOUT_PEND' = (DOUT_PEND /\ SP' # "DATAOUT")
  /\ UNCHANGED <<rst, STAT_PEND, STATUS, DBO, FIFO>>

StatusPhase ==
  /\ SP = "FREE" /\ ~rst /\ STAT_PEND
  /\ SP' = "STAT" /\ STAT_PEND' = FALSE /\ BSY' = TRUE
  /\ DBO' = STATUS
  /\ UNCHANGED <<rst, STATUS, DOUT_PEND, FIFO>>

(* Status byte, message byte, bus free.                                    *)
StatusTaken ==
  LET sp == Settle(STAT_PEND, FIFO, DOUT_PEND)
  IN /\ SP = "STAT" /\ ~rst
     /\ SP' = sp
     /\ BSY' = (sp # "FREE")
     /\ DOUT_PEND' = (DOUT_PEND /\ sp # "DATAOUT")
     /\ UNCHANGED <<rst, STAT_PEND, STATUS, DBO, FIFO>>

(* The console acknowledges one piece.                                     *)
DataTaken ==
  LET rest == Tail(FIFO)
      sp   == IF rest # <<>> THEN "DATAIN" ELSE Settle(STAT_PEND, rest, DOUT_PEND)
  IN /\ SP = "DATAIN" /\ ~rst
     /\ FIFO' = rest
     /\ SP' = sp
     /\ DOUT_PEND' = (DOUT_PEND /\ sp # "DATAOUT")
     /\ UNCHANGED <<rst, BSY, STAT_PEND, STATUS, DBO>>

ParametersGiven ==
  LET sp == Settle(STAT_PEND, FIFO, DOUT_PEND)
  IN /\ SP = "DATAOUT" /\ ~rst
     /\ SP' = sp
     /\ DOUT_PEND' = (DOUT_PEND /\ sp # "DATAOUT")
     /\ UNCHANGED <<rst, BSY, STAT_PEND, STATUS, DBO, FIFO>>

AssertReset ==
  /\ ~rst
  /\ rst' = TRUE /\ SP' = "FREE" /\ BSY' = FALSE
  /\ STAT_PEND' = FALSE /\ DOUT_PEND' = FALSE /\ FIFO' = <<>>
  /\ UNCHANGED <<STATUS, DBO>>

ReleaseReset ==
  /\ rst
  /\ rst' = FALSE
  /\ UNCHANGED <<SP, BSY, STAT_PEND, STATUS, DBO, DOUT_PEND, FIFO>>

(* The phase DATAIN needs something to hand over.                          *)
TargetTypeOK(Data) ==
  /\ rst \in BOOLEAN /\ BSY \in BOOLEAN
  /\ SP \in {"FREE", "DATAIN", "DATAOUT", "STAT"}
  /\ STAT_PEND \in BOOLEAN /\ STATUS \in {0, 1} /\ DBO \in {0, 1}
  /\ DOUT_PEND \in BOOLEAN
  /\ FIFO \in Seq(Data) /\ Len(FIFO) <= FifoCap
  /\ SP = "DATAIN" => FIFO # <<>>
=============================================================================
