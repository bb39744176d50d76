------------------------------- MODULE HpsSpi -------------------------------
(***************************************************************************)
(* The HPS transport: the firmware's strobe and acknowledge loop of        *)
(* spi.cpp, the port of MPU_AFP_CORE.v with its three clocks of delay, and *)
(* the slaves' side of hps_ext.v and osd.v.                                *)
(*                                                                         *)
(* The firmware runs at 74.25 MHz and the port at 42.95 MHz: between two   *)
(* accesses of the firmware any number of port clocks (Tick) may pass, and *)
(* at least Gap of them between the access that ends a call and the next   *)
(* load of the output register, which is what the nops are there for.      *)
(* Sampling a store that is under way is not modelled: a store that        *)
(* changes a word never changes the strobe as well.                        *)
(***************************************************************************)
EXTENDS HpsFrames

CONSTANTS
  Frames,       \* the frames the firmware sends, each of at least one word
  BusyWords,    \* CD_STATS, CD_SET and CD_DATA: words after which the slave waits
  Gap           \* port clocks between a store and the next load of the register:
                \* three, the length of the way from the register to the pins

ASSUME SpiAssumption ==
  /\ Gap \in Nat /\ Gap >= 3
  /\ BusyWords \subseteq Nat
  /\ \A f \in Frames :
       /\ f = Frame(f.to, f.words) /\ f.to \in {"io", "fpga", "osd"}
       /\ f.words \in Seq(Nat) /\ f.words # <<>>

VARIABLES
  spi_pc,       \* where the firmware is in the frame
  job, sent,    \* the frame it sends and how many words it has sent
  gpo, age,     \* its copy of the register; port clocks since the last store (up to Gap)
  result,       \* what HPS_fpga_spi returned
  gp_out, gp_outd, gp_outr,  \* the register and its way to the pins
  pins,         \* io_ss0..2, io_clk and IO_DOUT
  rack, io_ack,
  full, filling, dout_en,    \* IO_WAIT: FIFOs almost full, or about to be; the slave's wait
  io_dout,      \* the answer on the bus: the number of the word it answers
  frame, taken  \* the frame that is open at the slave and the words it has taken

firmVars == <<spi_pc, job, sent, gpo, result>>
portVars == <<gp_outd, gp_outr, pins, rack, io_ack>>
slaveVars == <<full, filling, dout_en, io_dout, frame, taken>>
spiVars == <<firmVars, age, gp_out, portVars, slaveVars>>

NoFrame == [to |-> "none", words |-> <<>>]

(* What is on the way: the selection, io_clk and the sixteen bits.         *)
Line == [ss : SUBSET {"io", "fpga", "osd"}, strobe : {0, 1}, word : Nat]

Bits(ss, strobe, word) == [ss |-> ss, strobe |-> strobe, word |-> word]

Quiet == Bits({}, 0, 0)

(* Bits 18..20 that a frame sets: the OSD takes all of them.               *)
Mask(to) ==
  CASE to = "io"   -> {"io"}
    [] to = "fpga" -> {"fpga"}
    [] to = "osd"  -> {"io", "fpga", "osd"}
    [] OTHER       -> {}

(* IO_OSD, IO_FPGA and IO_UIO.                                             *)
Selected(ss) ==
  CASE "osd" \in ss -> "osd"
    [] "osd" \notin ss /\ "io" \in ss -> "io"
    [] "osd" \notin ss /\ "io" \notin ss /\ "fpga" \in ss -> "fpga"
    [] OTHER -> "none"

SpiInit ==
  /\ spi_pc = "idle" /\ job = NoFrame /\ sent = 0
  /\ gpo = Quiet /\ age = Gap /\ result = 0
  /\ gp_out = Quiet /\ gp_outd = Quiet /\ gp_outr = Quiet /\ pins = Quiet
  /\ rack = FALSE /\ io_ack = FALSE
  /\ full = FALSE /\ filling = FALSE /\ dout_en = FALSE
  /\ io_dout = 0 /\ frame = NoFrame /\ taken = <<>>
-----------------------------------------------------------------------------
(* Mutant: no nops.                                                        *)
InAHurry == TRUE

(* A load returns the pins, not the register: what was stored less than    *)
(* three port clocks ago is not in it.                                     *)
Settled == age >= Gap

Store(value) == gp_out' = value /\ age' = 0

Begin(f) ==
  /\ spi_pc = "idle"
  /\ job' = f /\ sent' = 0 /\ spi_pc' = "enable"
  /\ UNCHANGED <<gpo, result, age, gp_out>>

(* HPS_fpga_spi_en(mask, 1): load, set the bits, store.                    *)
LoadToEnable ==
  /\ spi_pc = "enable" /\ Settled
  /\ gpo' = pins /\ spi_pc' = "select"
  /\ UNCHANGED <<job, sent, result, age, gp_out>>

Select ==
  /\ spi_pc = "select"
  /\ Store(Bits(gpo.ss \cup Mask(job.to), gpo.strobe, gpo.word))
  /\ spi_pc' = "load"
  /\ UNCHANGED <<job, sent, gpo, result>>

(* HPS_fpga_spi: the first load follows Select, the others the end of the  *)
(* previous word.                                                          *)
LoadForWord ==
  /\ spi_pc = "load" /\ (sent = 0 => Settled)
  /\ gpo' = Bits(pins.ss, 0, job.words[sent + 1])
  /\ spi_pc' = "present"
  /\ UNCHANGED <<job, sent, result, age, gp_out>>

Present ==
  /\ spi_pc = "present" /\ Store(gpo) /\ spi_pc' = "strobe"
  /\ UNCHANGED <<job, sent, gpo, result>>

Strobe ==
  /\ spi_pc = "strobe" /\ Store(Bits(gpo.ss, 1, gpo.word)) /\ spi_pc' = "ack"
  /\ UNCHANGED <<job, sent, gpo, result>>

(* Mutant: the word is not waited for, as in HPS_fpga_spi_write_fast.      *)
SeeAckAnyway ==
  /\ spi_pc = "ack" /\ spi_pc' = "release"
  /\ UNCHANGED <<job, sent, gpo, result, age, gp_out>>

SeeAck ==
  /\ spi_pc = "ack" /\ io_ack /\ spi_pc' = "release"
  /\ UNCHANGED <<job, sent, gpo, result, age, gp_out>>

Release ==
  /\ spi_pc = "release" /\ Store(gpo) /\ spi_pc' = "unack"
  /\ UNCHANGED <<job, sent, gpo, result>>

SeeNoAck ==
  /\ spi_pc = "unack" /\ ~io_ack
  /\ result' = io_dout /\ sent' = sent + 1
  /\ spi_pc' = IF sent' = Len(job.words) THEN "disable" ELSE "load"
  /\ UNCHANGED <<job, gpo, age, gp_out>>

(* HPS_fpga_spi_en(mask, 0).                                               *)
LoadToDisable ==
  /\ spi_pc = "disable"
  /\ gpo' = pins /\ spi_pc' = "deselect"
  /\ UNCHANGED <<job, sent, result, age, gp_out>>

Deselect ==
  /\ spi_pc = "deselect"
  /\ Store(Bits(gpo.ss \ Mask(job.to), gpo.strobe, gpo.word))
  /\ spi_pc' = "idle"
  /\ UNCHANGED <<job, sent, gpo, result>>

SpiFirmware ==
  /\ \/ LoadToEnable \/ Select \/ LoadForWord \/ Present \/ Strobe \/ SeeAck
     \/ Release \/ SeeNoAck \/ LoadToDisable \/ Deselect
  /\ UNCHANGED <<portVars, slaveVars>>
-----------------------------------------------------------------------------
IO_STROBE == ~rack /\ pins.strobe = 1
IO_WAIT   == full \/ dout_en

(* Mutant: rack and io_ack advance in the clock of the strobe only.        *)
PortStrobeOnly ==
  /\ gp_outd' = gp_out /\ gp_outr' = gp_outd /\ pins' = gp_outr
  /\ IF IO_STROBE
     THEN rack' = (pins.strobe = 1) /\ io_ack' = rack
     ELSE UNCHANGED <<rack, io_ack>>
  /\ age' = IF age < Gap THEN age + 1 ELSE age

(* One clock of the port.  The strobe is one clock long; while the slave   *)
(* asks to wait, the acknowledge is held.                                  *)
Port ==
  /\ gp_outd' = gp_out /\ gp_outr' = gp_outd /\ pins' = gp_outr
  /\ IF ~IO_WAIT \/ IO_STROBE
     THEN rack' = (pins.strobe = 1) /\ io_ack' = rack
     ELSE UNCHANGED <<rack, io_ack>>
  /\ age' = IF age < Gap THEN age + 1 ELSE age

SlaveIdle == Selected(pins.ss) = "none"

SlaveDeselected ==
  /\ SlaveIdle
  /\ frame' = NoFrame /\ taken' = <<>>
  /\ UNCHANGED filling

(* The slave sees that it is selected; a strobe in the same clock counts.  *)
SlaveSelected ==
  /\ ~SlaveIdle
  /\ frame' = IF frame = NoFrame THEN job ELSE frame
  /\ IF IO_STROBE
     THEN taken' = Append(taken, pins.word) /\ filling' = TRUE
     ELSE UNCHANGED <<taken, filling>>

(* hps_ext.v answers a word in the clock that takes it; it is reset while  *)
(* another slave is selected.                                              *)
Answer ==
  LET io == Selected(pins.ss) = "io"
  IN /\ io_dout' = IF ~io THEN 0 ELSE IF IO_STROBE THEN Len(taken) + 1 ELSE io_dout
     /\ dout_en' = (io /\ IO_STROBE /\ pins.word \in BusyWords)

Tick ==
  /\ Port /\ (SlaveDeselected \/ SlaveSelected) /\ Answer
  /\ UNCHANGED <<firmVars, gp_out, full>>

(* A word the slave took makes the CD or the audio FIFO almost full, now   *)
(* or some clocks later; then the console or the DAC makes room.           *)
Fill ==
  /\ filling /\ full' = TRUE /\ filling' = FALSE
  /\ UNCHANGED <<firmVars, age, gp_out, portVars, dout_en, io_dout, frame, taken>>

Drain ==
  /\ full /\ full' = FALSE
  /\ UNCHANGED <<firmVars, age, gp_out, portVars, filling, dout_en, io_dout, frame, taken>>

SpiNext ==
  \/ (\E f \in Frames : Begin(f)) /\ UNCHANGED <<portVars, slaveVars>>
  \/ SpiFirmware \/ Tick \/ Fill \/ Drain

SpiSpec == SpiInit /\ [][SpiNext]_spiVars

(* The firmware goes on, the port is clocked and the FIFOs are emptied.    *)
SpiFairSpec ==
  SpiSpec /\ WF_spiVars(SpiFirmware) /\ WF_spiVars(Tick) /\ WF_spiVars(Drain)
-----------------------------------------------------------------------------
SpiTypeOK ==
  /\ spi_pc \in {"idle", "enable", "select", "load", "present", "strobe", "ack",
             "release", "unack", "disable", "deselect"}
  /\ job \in Frames \cup {NoFrame} /\ frame \in Frames \cup {NoFrame}
  /\ sent \in 0..Len(job.words) /\ age \in 0..Gap /\ result \in Nat /\ io_dout \in Nat
  /\ {gpo, gp_out, gp_outd, gp_outr, pins} \subseteq Line
  /\ {rack, io_ack, full, filling, dout_en} \subseteq BOOLEAN
  /\ taken \in Seq(Nat)

(* The slaves see what HpsBus promises: every word of every frame once and *)
(* in order, between a selection and a deselection of the right slave.     *)
Bus == INSTANCE HpsBus
FramesArrive == Bus!Spec

(* With the firmware running and the FIFOs being emptied, every frame that *)
(* is opened is closed.                                                    *)
FramesEnd == Bus!FairSpec

(* HPS_fpga_spi returns the slave's answer to the word it sent, not to the *)
(* one before it, although the answer is read in a loop that watches only  *)
(* the acknowledge.                                                        *)
ReplyIsToThisWord ==
  [][SeeNoAck /\ job.to = "io" => result' = sent']_spiVars
-----------------------------------------------------------------------------
(* What makes these inductive.                                             *)

SpiTypes ==
  /\ {gpo, gp_out, gp_outd, gp_outr, pins} \subseteq Line
  /\ {rack, io_ack, full, filling, dout_en} \subseteq BOOLEAN
  /\ age \in 0..Gap /\ sent \in Nat /\ taken \in Seq(Nat)
  /\ frame \in Frames \cup {NoFrame}
  /\ spi_pc \in {"idle", "enable", "select", "load", "present", "strobe", "ack",
                 "release", "unack", "disable", "deselect"}
  /\ spi_pc # "idle" => job \in Frames

NoStrobe ==
  /\ gp_out.strobe = 0 /\ gp_outd.strobe = 0 /\ gp_outr.strobe = 0 /\ pins.strobe = 0
  /\ ~rack /\ ~io_ack

(* Between two frames the selection leaves the way to the pins, a clock    *)
(* for each step of it; the frame stays open until it has left the pins.   *)
Resting ==
  spi_pc \in {"idle", "enable", "select"} =>
    /\ NoStrobe /\ taken = frame.words /\ gp_out.ss = {}
    /\ gp_outd.ss # {} => age = 0 /\ gp_outr.ss # {}
    /\ gp_outr.ss # {} => age <= 1 /\ pins.ss # {}
    /\ pins.ss # {} => age <= 2 /\ frame # NoFrame
    /\ spi_pc # "idle" => sent = 0
    /\ spi_pc = "select" => age = Gap /\ gpo.ss = {} /\ gpo.strobe = 0

(* Before the first word the selection enters it.                          *)
Opening ==
  spi_pc = "load" /\ sent = 0 =>
    /\ NoStrobe /\ gp_out.ss = Mask(job.to)
    /\ gp_outd.ss = IF age >= 1 THEN Mask(job.to) ELSE {}
    /\ gp_outr.ss = IF age >= 2 THEN Mask(job.to) ELSE {}
    /\ pins.ss = IF age >= 3 THEN Mask(job.to) ELSE {}
    /\ IF age = 0 THEN taken = frame.words
       ELSE taken = <<>> /\ frame \in {NoFrame, job} /\ (frame # NoFrame => age >= 3)

InFrame ==
  \/ spi_pc \in {"present", "strobe", "ack", "release", "unack", "disable", "deselect"}
  \/ spi_pc = "load" /\ sent > 0

(* The slave has taken the word that is being sent.                        *)
Got == spi_pc \in {"release", "unack"} \/ (spi_pc = "ack" /\ rack)

Sending ==
  InFrame =>
    /\ \A line \in {gp_out, gp_outd, gp_outr, pins} : line.ss = Mask(job.to)
    /\ \/ frame = job
       \/ /\ frame = NoFrame /\ sent = 0 /\ spi_pc \in {"present", "strobe", "ack"}
          /\ gp_outd.strobe = 0
    /\ Len(taken) = sent + (IF Got THEN 1 ELSE 0)
    /\ \A i \in 1..Len(taken) : taken[i] = job.words[i]
    /\ IF spi_pc \in {"disable", "deselect"} THEN sent = Len(job.words)
                                            ELSE sent < Len(job.words)
    /\ Got /\ job.to = "io" => io_dout = sent + 1

(* The strobe and its end travel one behind the other; a clock at which    *)
(* the strobe is on the pins comes with its word.                          *)
Strobing ==
  /\ InFrame /\ spi_pc \notin {"ack", "release", "unack"} => NoStrobe
  /\ spi_pc \in {"present", "strobe", "ack", "release"} =>
       gpo = Bits(Mask(job.to), 0, job.words[sent + 1])
  /\ spi_pc = "deselect" => gpo.ss = Mask(job.to) /\ gpo.strobe = 0
  /\ spi_pc = "ack" =>
       /\ gp_out.strobe = 1 /\ gp_outr.strobe <= gp_outd.strobe
       /\ pins.strobe <= gp_outr.strobe
       /\ rack => pins.strobe = 1
       /\ io_ack => rack
       /\ \A line \in {gp_out, gp_outd, gp_outr, pins} :
            line.strobe = 1 => line.word = job.words[sent + 1]
  /\ spi_pc = "release" =>
       /\ gp_out.strobe = 1 /\ gp_outd.strobe = 1 /\ gp_outr.strobe = 1 /\ pins.strobe = 1
       /\ rack /\ io_ack
  /\ spi_pc = "unack" =>
       /\ gp_out.strobe = 0 /\ gp_outd.strobe <= gp_outr.strobe
       /\ gp_outr.strobe <= pins.strobe
       /\ pins.strobe = 1 => rack
       /\ rack => io_ack

SpiInv == SpiTypes /\ Resting /\ Opening /\ Sending /\ Strobing
=============================================================================
