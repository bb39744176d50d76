---------------------------- MODULE HpsSpiProofs ----------------------------
(***************************************************************************)
(* Proofs about HpsSpi, for all frames of at least one word, all words     *)
(* that make the slave wait and every Gap of three clocks or more.  SpiInv *)
(* follows a selection and a strobe on their way of three clocks to the    *)
(* pins; from it HpsSpi implements HpsBus, and a reply is the one to the   *)
(* word that was sent.                                                     *)
(***************************************************************************)
EXTENDS HpsSpi, TLAPS

USE SpiAssumption
USE DEF spiVars, firmVars, portVars, slaveVars

(* A frame has a slave and words; a closed line is no frame.              *)
LEMMA FrameFields ==
  /\ \A f \in Frames : /\ f.to \in {"io", "fpga", "osd"} /\ f.words \in Seq(Nat)
                       /\ Len(f.words) \in Nat \ {0} /\ f # NoFrame
  /\ NoFrame.words = <<>> /\ NoFrame \notin Frames
<1>1. NoFrame.words = <<>>
  BY DEF NoFrame
<1>2. ASSUME NEW f \in Frames
      PROVE  /\ f.to \in {"io", "fpga", "osd"} /\ f.words \in Seq(Nat)
             /\ Len(f.words) \in Nat \ {0} /\ f # NoFrame
  <2>1. f.words \in Seq(Nat) /\ f.words # <<>>
    OBVIOUS
  <2>2. Len(f.words) \in Nat \ {0}
    BY <2>1
  <2> QED
    BY <1>1, <2>1, <2>2
<1> QED
  BY <1>1, <1>2

(* The OSD's mask has all three bits, and each mask selects its slave.     *)
LEMMA Masks ==
  /\ \A to \in {"io", "fpga", "osd"} :
       /\ Mask(to) \in SUBSET {"io", "fpga", "osd"} /\ Mask(to) # {}
       /\ Selected(Mask(to)) = to
  /\ \A ss \in SUBSET {"io", "fpga", "osd"} : Selected(ss) = "none" <=> ss = {}
<1>1. ASSUME NEW ss \in SUBSET {"io", "fpga", "osd"}
      PROVE  Selected(ss) = "none" <=> ss = {}
  <2>1. CASE ss = {}
    BY <2>1 DEF Selected
  <2>2. CASE ss # {}
    BY <2>2 DEF Selected
  <2> QED
    BY <2>1, <2>2
<1>2. /\ Mask("io") = {"io"} /\ Mask("fpga") = {"fpga"}
      /\ Mask("osd") = {"io", "fpga", "osd"}
  BY DEF Mask
<1>3. Selected({"io"}) = "io" /\ Selected({"fpga"}) = "fpga"
      /\ Selected({"io", "fpga", "osd"}) = "osd"
  BY DEF Selected
<1> QED
  BY <1>1, <1>2, <1>3

(* The fields of a line.                                                   *)
LEMMA Lines ==
  /\ \A g \in Line :
       g.ss \in SUBSET {"io", "fpga", "osd"} /\ g.strobe \in {0, 1} /\ g.word \in Nat
  /\ \A s, b, w :
       /\ Bits(s, b, w).ss = s /\ Bits(s, b, w).strobe = b /\ Bits(s, b, w).word = w
       /\ s \subseteq {"io", "fpga", "osd"} /\ b \in {0, 1} /\ w \in Nat =>
            Bits(s, b, w) \in Line
<1>1. ASSUME NEW s, NEW b, NEW w
      PROVE  /\ Bits(s, b, w).ss = s /\ Bits(s, b, w).strobe = b /\ Bits(s, b, w).word = w
             /\ s \subseteq {"io", "fpga", "osd"} /\ b \in {0, 1} /\ w \in Nat =>
                  Bits(s, b, w) \in Line
  BY DEF Bits, Line
<1>2. ASSUME NEW g \in Line
      PROVE  g.ss \in SUBSET {"io", "fpga", "osd"} /\ g.strobe \in {0, 1} /\ g.word \in Nat
  BY DEF Line
<1> QED
  BY <1>1, <1>2

LEMMA StrobeBits ==
  ASSUME SpiTypes
  PROVE  /\ gp_out.strobe \in {0, 1} /\ gp_outd.strobe \in {0, 1}
         /\ gp_outr.strobe \in {0, 1} /\ pins.strobe \in {0, 1}
  BY Lines DEF SpiTypes

LEMMA QuietLine == Quiet \in Line /\ Quiet.ss = {} /\ Quiet.strobe = 0
  BY Lines DEF Quiet

(* After the reset nothing is selected and nothing is on the way.          *)
LEMMA InitSpiInv == SpiInit => SpiInv
<1> SUFFICES ASSUME SpiInit PROVE SpiInv
  OBVIOUS
<1>1. SpiTypes
  <2>1. {gpo, gp_out, gp_outd, gp_outr, pins} \subseteq Line
    BY QuietLine DEF SpiInit
  <2>2. {rack, io_ack, full, filling, dout_en} \subseteq BOOLEAN
    BY DEF SpiInit
  <2>3. age \in 0..Gap /\ sent \in Nat
    BY DEF SpiInit
  <2>4. taken \in Seq(Nat) /\ frame = NoFrame /\ spi_pc = "idle"
    BY DEF SpiInit
  <2> QED
    BY <2>1, <2>2, <2>3, <2>4 DEF SpiTypes
<1>2. Resting
  BY QuietLine, FrameFields DEF SpiInit, Resting, NoStrobe
<1>3. Opening /\ Sending /\ Strobing
  BY DEF SpiInit, Opening, Sending, Strobing, InFrame
<1> QED
  BY <1>1, <1>2, <1>3 DEF SpiInv
-----------------------------------------------------------------------------
(* The firmware, access by access.  A load is of pins that have settled,   *)
(* and a store changes the register, the first stage of the way.           *)
LEMMA BeginKeeps ==
  ASSUME SpiInv, NEW f \in Frames, Begin(f), UNCHANGED <<portVars, slaveVars>>
  PROVE  SpiInv'
<1>1. /\ spi_pc = "idle" /\ spi_pc' = "enable" /\ job' = f /\ sent' = 0
      /\ UNCHANGED <<gpo, result, age, gp_out, portVars, slaveVars>>
  BY DEF Begin
<1>2. SpiTypes'
  BY <1>1 DEF SpiInv, SpiTypes
<1>3. Resting'
  BY <1>1 DEF SpiInv, Resting, NoStrobe
<1>4. Opening' /\ Sending' /\ Strobing'
  BY <1>1 DEF Opening, Sending, Strobing, InFrame
<1> QED
  BY <1>2, <1>3, <1>4 DEF SpiInv

LEMMA LoadToEnableKeeps ==
  ASSUME SpiInv, LoadToEnable, UNCHANGED <<portVars, slaveVars>>
  PROVE  SpiInv'
<1>1. /\ spi_pc = "enable" /\ spi_pc' = "select" /\ gpo' = pins /\ age >= Gap
      /\ UNCHANGED <<job, sent, result, age, gp_out, portVars, slaveVars>>
  BY DEF LoadToEnable, Settled
<1>2. SpiTypes'
  BY <1>1 DEF SpiInv, SpiTypes
<1>3. age = Gap /\ age >= 3
  BY <1>1 DEF SpiInv, SpiTypes
<1>4. Resting'
  BY <1>1, <1>3 DEF SpiInv, Resting, NoStrobe
<1>5. Opening' /\ Sending' /\ Strobing'
  BY <1>1 DEF Opening, Sending, Strobing, InFrame
<1> QED
  BY <1>2, <1>4, <1>5 DEF SpiInv

LEMMA SelectKeeps ==
  ASSUME SpiInv, Select, UNCHANGED <<portVars, slaveVars>>
  PROVE  SpiInv'
<1>1. /\ spi_pc = "select" /\ spi_pc' = "load" /\ age' = 0
      /\ gp_out' = Bits(gpo.ss \cup Mask(job.to), gpo.strobe, gpo.word)
      /\ UNCHANGED <<job, sent, gpo, result, portVars, slaveVars>>
  BY DEF Select, Store
<1>2. /\ job \in Frames /\ gpo \in Line /\ gpo.ss = {} /\ gpo.strobe = 0 /\ age = Gap /\ age >= 3
      /\ NoStrobe /\ taken = frame.words
      /\ gp_outd.ss = {} /\ gp_outr.ss = {} /\ pins.ss = {}
  BY <1>1 DEF SpiInv, SpiTypes, Resting
<1>3. Mask(job.to) \in SUBSET {"io", "fpga", "osd"}
  BY <1>2, FrameFields, Masks
<1>4. gp_out' \in Line /\ gp_out'.ss = Mask(job.to) /\ gp_out'.strobe = 0
  <2>1. gpo.ss \cup Mask(job.to) = Mask(job.to) /\ gpo.strobe \in {0, 1} /\ gpo.word \in Nat
    BY <1>2, Lines
  <2> QED
    BY <1>1, <1>2, <1>3, <2>1, Lines
<1>5. SpiTypes'
  BY <1>1, <1>2, <1>4 DEF SpiInv, SpiTypes
<1>6. sent = 0
  BY <1>1 DEF SpiInv, Resting
<1>7. Opening'
  BY <1>1, <1>2, <1>4 DEF Opening, NoStrobe
<1>8. Resting' /\ Sending' /\ Strobing'
  BY <1>1, <1>6 DEF Resting, Sending, Strobing, InFrame
<1> QED
  BY <1>5, <1>7, <1>8 DEF SpiInv

(* What a load of the register leads to.                                   *)
LEMMA LoadForWordKeeps ==
  ASSUME SpiInv, LoadForWord, UNCHANGED <<portVars, slaveVars>>
  PROVE  SpiInv'
<1>1. /\ spi_pc = "load" /\ spi_pc' = "present" /\ (sent = 0 => age >= Gap)
      /\ gpo' = Bits(pins.ss, 0, job.words[sent + 1])
      /\ UNCHANGED <<job, sent, result, age, gp_out, portVars, slaveVars>>
  BY DEF LoadForWord, Settled
<1>2. /\ job \in Frames /\ pins \in Line /\ sent \in Nat
      /\ age >= Gap => age >= 3
  BY <1>1 DEF SpiInv, SpiTypes
<1>3. /\ \A line \in {gp_out, gp_outd, gp_outr, pins} : line.ss = Mask(job.to)
      /\ NoStrobe /\ sent < Len(job.words)
      /\ Len(taken) = sent /\ \A i \in 1..Len(taken) : taken[i] = job.words[i]
      /\ frame = job \/ (frame = NoFrame /\ sent = 0)
  <2>1. CASE sent = 0
    <3>1. age >= 3 /\ age # 0
      BY <1>1, <1>2, <2>1
    <3>2. /\ NoStrobe /\ taken = <<>> /\ frame \in {NoFrame, job}
          /\ \A line \in {gp_out, gp_outd, gp_outr, pins} : line.ss = Mask(job.to)
      BY <1>1, <2>1, <3>1 DEF SpiInv, SpiTypes, Opening
    <3>3. sent < Len(job.words)
      BY <1>2, <2>1, FrameFields
    <3> QED
      BY <2>1, <3>2, <3>3
  <2>2. CASE sent > 0
    <3>1. InFrame /\ ~Got
      BY <1>1, <2>2 DEF InFrame, Got
    <3> QED
      BY <1>1, <1>2, <2>2, <3>1 DEF SpiInv, Sending, Strobing
  <2> QED
    BY <1>2, <2>1, <2>2
<1>4. job.words[sent + 1] \in Nat /\ pins.ss = Mask(job.to)
  BY <1>2, <1>3, FrameFields
<1>5. gpo' \in Line
  BY <1>1, <1>2, <1>4, Lines
<1>6. SpiTypes'
  BY <1>1, <1>2, <1>5 DEF SpiInv, SpiTypes
<1>7. ~Got'
  BY <1>1 DEF Got
<1>8. gp_outd.strobe = 0
  BY <1>3 DEF NoStrobe
<1>9. Sending'
  <2>1. \A line \in {gp_out', gp_outd', gp_outr', pins'} : line.ss = Mask(job'.to)
    BY <1>1, <1>3
  <2>2. frame' = job' \/ (frame' = NoFrame /\ sent' = 0 /\ gp_outd'.strobe = 0)
    BY <1>1, <1>3, <1>8
  <2>3. Len(taken') = sent' + 0 /\ sent' < Len(job'.words)
    BY <1>1, <1>2, <1>3
  <2>4. \A i \in 1..Len(taken') : taken'[i] = job'.words[i]
    <3>1. taken' = taken /\ job' = job
      BY <1>1
    <3> QED
      BY <1>3, <3>1
  <2> QED
    BY <1>1, <1>7, <2>1, <2>2, <2>3, <2>4 DEF Sending
<1>10. Strobing'
  BY <1>1, <1>3, <1>4 DEF Strobing, NoStrobe
<1>11. Resting' /\ Opening'
  BY <1>1 DEF Resting, Opening
<1> QED
  BY <1>6, <1>9, <1>10, <1>11 DEF SpiInv

LEMMA PresentKeeps ==
  ASSUME SpiInv, Present, UNCHANGED <<portVars, slaveVars>>
  PROVE  SpiInv'
<1>1. /\ spi_pc = "present" /\ spi_pc' = "strobe" /\ gp_out' = gpo /\ age' = 0
      /\ UNCHANGED <<job, sent, gpo, result, portVars, slaveVars>>
  BY DEF Present, Store
<1>2. /\ job \in Frames /\ gpo \in Line /\ sent \in Nat /\ InFrame /\ NoStrobe
      /\ gpo = Bits(Mask(job.to), 0, job.words[sent + 1])
  BY <1>1 DEF SpiInv, SpiTypes, Strobing, InFrame
<1>3. gpo.ss = Mask(job.to) /\ gpo.strobe = 0
  BY <1>2 DEF Bits
<1>9. gp_out' \in Line
  BY <1>1, <1>2
<1>4. SpiTypes'
  BY <1>1, <1>9 DEF SpiInv, SpiTypes
<1>5. ~Got /\ ~Got'
  BY <1>1 DEF Got
<1>6. Sending'
  BY <1>1, <1>2, <1>3, <1>5 DEF SpiInv, Sending
<1>7. Strobing'
  <2>1. NoStrobe'
    BY <1>1, <1>2, <1>3 DEF NoStrobe
  <2>2. gpo' = Bits(Mask(job'.to), 0, job'.words[sent' + 1])
    BY <1>1, <1>2
  <2> QED
    BY <1>1, <2>1, <2>2 DEF Strobing
<1>8. Resting' /\ Opening'
  BY <1>1 DEF Resting, Opening
<1> QED
  BY <1>4, <1>6, <1>7, <1>8 DEF SpiInv

LEMMA StrobeKeeps ==
  ASSUME SpiInv, Strobe, UNCHANGED <<portVars, slaveVars>>
  PROVE  SpiInv'
<1>1. /\ spi_pc = "strobe" /\ spi_pc' = "ack" /\ age' = 0
      /\ gp_out' = Bits(gpo.ss, 1, gpo.word)
      /\ UNCHANGED <<job, sent, gpo, result, portVars, slaveVars>>
  BY DEF Strobe, Store
<1>2. /\ job \in Frames /\ gpo \in Line /\ sent \in Nat /\ InFrame /\ NoStrobe
      /\ gpo = Bits(Mask(job.to), 0, job.words[sent + 1])
  BY <1>1 DEF SpiInv, SpiTypes, Strobing, InFrame
<1>3. gpo.ss = Mask(job.to) /\ gpo.word = job.words[sent + 1]
  BY <1>2 DEF Bits
<1>4. /\ gp_out' \in Line /\ gp_out'.ss = Mask(job.to) /\ gp_out'.strobe = 1
      /\ gp_out'.word = job.words[sent + 1]
  <2>1. gpo.ss \in SUBSET {"io", "fpga", "osd"} /\ gpo.word \in Nat /\ 1 \in {0, 1}
    BY <1>2, Lines
  <2>2. /\ Bits(gpo.ss, 1, gpo.word) \in Line
        /\ Bits(gpo.ss, 1, gpo.word).ss = gpo.ss
        /\ Bits(gpo.ss, 1, gpo.word).strobe = 1
        /\ Bits(gpo.ss, 1, gpo.word).word = gpo.word
    BY <2>1, Lines
  <2> QED
    BY <1>1, <1>3, <2>2
<1>5. SpiTypes'
  BY <1>1, <1>4 DEF SpiInv, SpiTypes
<1>6. ~Got /\ ~Got'
  BY <1>1, <1>2 DEF Got, NoStrobe
<1>7. Sending'
  BY <1>1, <1>2, <1>4, <1>6 DEF SpiInv, Sending
<1>8. Strobing'
  <2>1. gp_outd'.strobe = 0 /\ gp_outr'.strobe = 0 /\ pins'.strobe = 0 /\ ~rack' /\ ~io_ack'
    BY <1>1, <1>2 DEF NoStrobe
  <2>2. gpo' = Bits(Mask(job'.to), 0, job'.words[sent' + 1])
    BY <1>1, <1>2
  <2>3. gp_out'.strobe = 1 /\ gp_out'.word = job'.words[sent' + 1]
    BY <1>1, <1>4
  <2> QED
    BY <1>1, <2>1, <2>2, <2>3 DEF Strobing
<1>9. Resting' /\ Opening'
  BY <1>1 DEF Resting, Opening
<1> QED
  BY <1>5, <1>7, <1>8, <1>9 DEF SpiInv

LEMMA SeeAckKeeps ==
  ASSUME SpiInv, SeeAck, UNCHANGED <<portVars, slaveVars>>
  PROVE  SpiInv'
<1>1. /\ spi_pc = "ack" /\ spi_pc' = "release" /\ io_ack
      /\ UNCHANGED <<job, sent, gpo, result, age, gp_out, portVars, slaveVars>>
  BY DEF SeeAck
<1>2. /\ gp_out.strobe = 1 /\ gp_outd.strobe = 1 /\ gp_outr.strobe = 1 /\ pins.strobe = 1 /\ rack
  BY <1>1, StrobeBits DEF SpiInv, Strobing
<1>3. Got /\ Got' /\ InFrame
  BY <1>1, <1>2 DEF Got, InFrame
<1>4. SpiTypes'
  BY <1>1 DEF SpiInv, SpiTypes
<1>5. Sending'
  BY <1>1, <1>2, <1>3 DEF SpiInv, Sending
<1>6. Strobing'
  BY <1>1, <1>2 DEF SpiInv, Strobing
<1>7. Resting' /\ Opening'
  BY <1>1 DEF Resting, Opening
<1> QED
  BY <1>4, <1>5, <1>6, <1>7 DEF SpiInv

LEMMA ReleaseKeeps ==
  ASSUME SpiInv, Release, UNCHANGED <<portVars, slaveVars>>
  PROVE  SpiInv'
<1>1. /\ spi_pc = "release" /\ spi_pc' = "unack" /\ gp_out' = gpo /\ age' = 0
      /\ UNCHANGED <<job, sent, gpo, result, portVars, slaveVars>>
  BY DEF Release, Store
<1>2. /\ gpo \in Line /\ gpo = Bits(Mask(job.to), 0, job.words[sent + 1])
      /\ gp_outd.strobe = 1 /\ gp_outr.strobe = 1 /\ pins.strobe = 1 /\ rack /\ io_ack
  BY <1>1 DEF SpiInv, SpiTypes, Strobing
<1>3. gpo.ss = Mask(job.to) /\ gpo.strobe = 0
  BY <1>2 DEF Bits
<1>4. Got /\ Got' /\ InFrame
  BY <1>1 DEF Got, InFrame
<1>9. gp_out' \in Line
  BY <1>1, <1>2
<1>5. SpiTypes'
  BY <1>1, <1>9 DEF SpiInv, SpiTypes
<1>6. Sending'
  BY <1>1, <1>3, <1>4 DEF SpiInv, Sending
<1>7. Strobing'
  <2>1. gp_out'.strobe = 0 /\ gp_outd'.strobe = 1 /\ gp_outr'.strobe = 1 /\ pins'.strobe = 1 /\ rack' /\ io_ack'
    BY <1>1, <1>2, <1>3
  <2> QED
    BY <1>1, <2>1 DEF Strobing
<1>8. Resting' /\ Opening'
  BY <1>1 DEF Resting, Opening
<1> QED
  BY <1>5, <1>6, <1>7, <1>8 DEF SpiInv

LEMMA SeeNoAckKeeps ==
  ASSUME SpiInv, SeeNoAck, UNCHANGED <<portVars, slaveVars>>
  PROVE  SpiInv'
<1>1. /\ spi_pc = "unack" /\ ~io_ack /\ sent' = sent + 1
      /\ spi_pc' = IF sent' = Len(job.words) THEN "disable" ELSE "load"
      /\ UNCHANGED <<job, gpo, age, gp_out, portVars, slaveVars>>
  BY DEF SeeNoAck
<1>2. NoStrobe
  BY <1>1, StrobeBits DEF SpiInv, Strobing, NoStrobe
<1>3. Got /\ ~Got' /\ InFrame /\ sent \in Nat /\ job \in Frames
  BY <1>1 DEF Got, InFrame, SpiInv, SpiTypes
<1>4. sent < Len(job.words) /\ sent' > 0 /\ sent' \in Nat
  BY <1>1, <1>3 DEF SpiInv, Sending
<1>5. SpiTypes'
  BY <1>1, <1>3, <1>4 DEF SpiInv, SpiTypes
<1>6. Sending'
  <2>1. sent' = Len(job.words) \/ sent' < Len(job.words)
    BY <1>1, <1>3, <1>4, FrameFields
  <2> QED
    BY <1>1, <1>3, <1>4, <2>1 DEF SpiInv, Sending
<1>7. Strobing'
  BY <1>1, <1>2 DEF Strobing, NoStrobe
<1>8. Resting' /\ Opening'
  BY <1>1, <1>4 DEF Resting, Opening
<1> QED
  BY <1>5, <1>6, <1>7, <1>8 DEF SpiInv

LEMMA LoadToDisableKeeps ==
  ASSUME SpiInv, LoadToDisable, UNCHANGED <<portVars, slaveVars>>
  PROVE  SpiInv'
<1>1. /\ spi_pc = "disable" /\ spi_pc' = "deselect" /\ gpo' = pins
      /\ UNCHANGED <<job, sent, result, age, gp_out, portVars, slaveVars>>
  BY DEF LoadToDisable
<1>2. InFrame /\ ~Got /\ ~Got' /\ NoStrobe /\ pins.ss = Mask(job.to)
  BY <1>1 DEF InFrame, Got, SpiInv, Strobing, Sending
<1>3. SpiTypes'
  BY <1>1 DEF SpiInv, SpiTypes
<1>4. Sending'
  BY <1>1, <1>2 DEF SpiInv, Sending
<1>5. Strobing'
  BY <1>1, <1>2 DEF Strobing, NoStrobe
<1>6. Resting' /\ Opening'
  BY <1>1 DEF Resting, Opening
<1> QED
  BY <1>3, <1>4, <1>5, <1>6 DEF SpiInv

LEMMA DeselectKeeps ==
  ASSUME SpiInv, Deselect, UNCHANGED <<portVars, slaveVars>>
  PROVE  SpiInv'
<1>1. /\ spi_pc = "deselect" /\ spi_pc' = "idle" /\ age' = 0
      /\ gp_out' = Bits(gpo.ss \ Mask(job.to), gpo.strobe, gpo.word)
      /\ UNCHANGED <<job, sent, gpo, result, portVars, slaveVars>>
  BY DEF Deselect, Store
<1>2. /\ job \in Frames /\ gpo \in Line /\ InFrame /\ ~Got /\ NoStrobe
      /\ gpo.ss = Mask(job.to) /\ gpo.strobe = 0 /\ frame = job
      /\ taken \in Seq(Nat)
  BY <1>1 DEF SpiInv, SpiTypes, Strobing, Sending, InFrame, Got
<1>3. /\ gp_out' \in Line /\ gp_out'.ss = {} /\ gp_out'.strobe = 0
  <2>1. gpo.ss \ Mask(job.to) = {} /\ {} \in SUBSET {"io", "fpga", "osd"}
    BY <1>2
  <2>2. gpo.strobe \in {0, 1} /\ gpo.word \in Nat
    BY <1>2, Lines
  <2> QED
    BY <1>1, <1>2, <2>1, <2>2, Lines
<1>4. taken = frame.words
  <2>1. /\ Len(taken) = Len(job.words) /\ \A i \in 1..Len(taken) : taken[i] = job.words[i]
    BY <1>1, <1>2 DEF SpiInv, SpiTypes, Sending
  <2> QED
    BY <1>2, <2>1, FrameFields
<1>5. gp_outd.ss # {} /\ gp_outr.ss # {} /\ pins.ss # {} /\ frame # NoFrame
  <2>1. gp_outd.ss = Mask(job.to) /\ gp_outr.ss = Mask(job.to) /\ pins.ss = Mask(job.to)
    BY <1>2 DEF SpiInv, Sending
  <2> QED
    BY <1>2, <2>1, FrameFields, Masks
<1>6. SpiTypes'
  BY <1>1, <1>2, <1>3 DEF SpiInv, SpiTypes
<1>7. Resting'
  <2>1. NoStrobe'
    BY <1>1, <1>2, <1>3 DEF NoStrobe
  <2>2. /\ taken' = frame'.words /\ gp_out'.ss = {} /\ frame' # NoFrame
        /\ gp_outd'.ss # {} /\ gp_outr'.ss # {} /\ pins'.ss # {}
    BY <1>1, <1>3, <1>4, <1>5
  <2>3. spi_pc' = "idle" /\ age' = 0 /\ age' <= 1 /\ age' <= 2
    BY <1>1
  <2> QED
    BY ONLY <2>1, <2>2, <2>3 DEF Resting
<1>8. Opening' /\ Sending' /\ Strobing'
  BY <1>1 DEF Opening, Sending, Strobing, InFrame
<1> QED
  BY <1>6, <1>7, <1>8 DEF SpiInv
-----------------------------------------------------------------------------
(* What a clock of the port does, and the slave in it.                     *)
LEMMA TickEffects ==
  ASSUME SpiTypes, Tick
  PROVE  /\ UNCHANGED <<firmVars, gp_out, full>>
         /\ gp_outd' = gp_out /\ gp_outr' = gp_outd /\ pins' = gp_outr
         /\ \/ rack' = (pins.strobe = 1) /\ io_ack' = rack
            \/ ~IO_STROBE /\ rack' = rack /\ io_ack' = io_ack
         /\ age' = IF age < Gap THEN age + 1 ELSE age
         /\ pins.ss = {} => frame' = NoFrame /\ taken' = <<>>
         /\ pins.ss # {} =>
              /\ frame' = IF frame = NoFrame THEN job ELSE frame
              /\ taken' = IF IO_STROBE THEN Append(taken, pins.word) ELSE taken
         /\ Selected(pins.ss) = "io" =>
              io_dout' = IF IO_STROBE THEN Len(taken) + 1 ELSE io_dout
<1>1. pins \in Line /\ (SlaveIdle <=> pins.ss = {})
  BY Lines, Masks DEF SpiTypes, SlaveIdle
<1>2. /\ gp_outd' = gp_out /\ gp_outr' = gp_outd /\ pins' = gp_outr
      /\ age' = IF age < Gap THEN age + 1 ELSE age
      /\ \/ rack' = (pins.strobe = 1) /\ io_ack' = rack
         \/ ~IO_STROBE /\ rack' = rack /\ io_ack' = io_ack
  BY DEF Tick, Port
<1>3. UNCHANGED <<firmVars, gp_out, full>>
  BY DEF Tick
<1>4. pins.ss = {} => frame' = NoFrame /\ taken' = <<>>
  BY <1>1 DEF Tick, SlaveDeselected, SlaveSelected
<1>5. pins.ss # {} =>
        /\ frame' = IF frame = NoFrame THEN job ELSE frame
        /\ taken' = IF IO_STROBE THEN Append(taken, pins.word) ELSE taken
  BY <1>1 DEF Tick, SlaveDeselected, SlaveSelected
<1>6. Selected(pins.ss) = "io" =>
        io_dout' = IF IO_STROBE THEN Len(taken) + 1 ELSE io_dout
  BY DEF Tick, Answer
<1> QED
  BY <1>2, <1>3, <1>4, <1>5, <1>6

(* A word that is taken is one of a frame; a frame that opens is the job.  *)
LEMMA TickTypes == ASSUME SpiInv, Tick PROVE SpiTypes'
<1>1. SpiTypes
  BY DEF SpiInv
<1>2. {gpo', gp_out', gp_outd', gp_outr', pins'} \subseteq Line
  BY <1>1, TickEffects DEF SpiTypes
<1>3. rack' \in BOOLEAN /\ io_ack' \in BOOLEAN
  BY <1>1, TickEffects DEF SpiTypes
<1>4. full' \in BOOLEAN /\ filling' \in BOOLEAN /\ dout_en' \in BOOLEAN
  <2>1. filling' \in {filling, TRUE} /\ full' = full
    BY DEF Tick, SlaveDeselected, SlaveSelected
  <2>2. dout_en' \in BOOLEAN
    BY DEF Tick, Answer
  <2> QED
    BY <1>1, <2>1, <2>2 DEF SpiTypes
<1>5. age' \in 0..Gap /\ sent' \in Nat
  BY <1>1, TickEffects DEF SpiTypes
<1>6. taken' \in Seq(Nat)
  <2>1. taken \in Seq(Nat) /\ pins.word \in Nat
    BY <1>1, Lines DEF SpiTypes
  <2>2. Append(taken, pins.word) \in Seq(Nat) /\ <<>> \in Seq(Nat)
    BY <2>1
  <2>3. CASE pins.ss = {}
    BY <1>1, <2>2, <2>3, TickEffects
  <2>4. CASE pins.ss # {}
    BY <1>1, <2>1, <2>2, <2>4, TickEffects
  <2> QED
    BY <2>3, <2>4
<1>7. frame' \in Frames \cup {NoFrame}
  <2>1. CASE pins.ss = {}
    BY <1>1, <2>1, TickEffects
  <2>2. CASE pins.ss # {} /\ frame # NoFrame
    BY <1>1, <2>2, TickEffects DEF SpiTypes
  <2>3. CASE pins.ss # {} /\ frame = NoFrame
    <3>1. spi_pc # "idle"
      BY <2>3 DEF SpiInv, Resting
    <3> QED
      BY <1>1, <2>3, <3>1, TickEffects DEF SpiTypes
  <2> QED
    BY <2>1, <2>2, <2>3
<1>8. UNCHANGED <<spi_pc, job>>
  BY <1>1, TickEffects
<1>9. {rack', io_ack', full', filling', dout_en'} \subseteq BOOLEAN
  BY <1>3, <1>4
<1> QED
  BY <1>1, <1>2, <1>5, <1>6, <1>7, <1>8, <1>9 DEF SpiTypes

(* Without a strobe on the way none is seen and none acknowledged.         *)
LEMMA TickNoStrobe ==
  ASSUME SpiTypes, NoStrobe, Tick PROVE NoStrobe' /\ ~IO_STROBE
<1>1. ~IO_STROBE
  BY DEF NoStrobe, IO_STROBE
<1>2. gp_out'.strobe = 0 /\ gp_outd'.strobe = 0 /\ gp_outr'.strobe = 0 /\ pins'.strobe = 0
  BY TickEffects DEF NoStrobe
<1>3. (pins.strobe = 1) = FALSE /\ rack = FALSE /\ io_ack = FALSE
  BY DEF NoStrobe, SpiTypes
<1>4. (rack' = (pins.strobe = 1) /\ io_ack' = rack) \/ (rack' = rack /\ io_ack' = io_ack)
  BY TickEffects
<1>5. rack' = FALSE /\ io_ack' = FALSE
  <2> DEFINE strobing == (pins.strobe = 1)
  <2>1. strobing = FALSE
    BY <1>3
  <2>2. (rack' = strobing /\ io_ack' = rack) \/ (rack' = rack /\ io_ack' = io_ack)
    BY <1>4
  <2> HIDE DEF strobing
  <2> QED
    BY <1>3, <2>1, <2>2
<1> QED
  BY <1>1, <1>2, <1>5 DEF NoStrobe

(* A clock moves the end of a selection on by one.                         *)
LEMMA TickResting == ASSUME SpiInv, Tick PROVE Resting'
<1> SUFFICES ASSUME spi_pc' \in {"idle", "enable", "select"}
             PROVE  /\ NoStrobe' /\ taken' = frame'.words /\ gp_out'.ss = {}
                    /\ gp_outd'.ss # {} => age' = 0 /\ gp_outr'.ss # {}
                    /\ gp_outr'.ss # {} => age' <= 1 /\ pins'.ss # {}
                    /\ pins'.ss # {} => age' <= 2 /\ frame' # NoFrame
                    /\ spi_pc' # "idle" => sent' = 0
                    /\ spi_pc' = "select" => age' = Gap /\ gpo'.ss = {} /\ gpo'.strobe = 0
  BY DEF Resting
<1>1. SpiTypes /\ UNCHANGED <<spi_pc, sent, gpo, gp_out, job>>
  BY TickEffects DEF SpiInv
<1>2. /\ NoStrobe /\ taken = frame.words /\ gp_out.ss = {}
      /\ gp_outd.ss # {} => age = 0 /\ gp_outr.ss # {}
      /\ gp_outr.ss # {} => age <= 1 /\ pins.ss # {}
      /\ pins.ss # {} => age <= 2 /\ frame # NoFrame
      /\ spi_pc # "idle" => sent = 0
      /\ spi_pc = "select" => age = Gap /\ gpo.ss = {} /\ gpo.strobe = 0
  BY <1>1 DEF SpiInv, Resting
<1>3. NoStrobe' /\ ~IO_STROBE
  BY <1>1, <1>2, TickNoStrobe
<1>4. taken' = frame'.words /\ (pins.ss # {} => frame' # NoFrame)
  BY <1>1, <1>2, <1>3, FrameFields, TickEffects
<1>5. age \in Nat /\ age' = (IF age < Gap THEN age + 1 ELSE age)
  BY <1>1, TickEffects DEF SpiTypes
<1>6. gp_outd'.ss = gp_out.ss /\ gp_outr'.ss = gp_outd.ss /\ pins'.ss = gp_outr.ss
  BY <1>1, TickEffects
<1>7. /\ gp_outd'.ss # {} => age' = 0 /\ gp_outr'.ss # {}
      /\ gp_outr'.ss # {} => age' <= 1 /\ pins'.ss # {}
      /\ pins'.ss # {} => age' <= 2 /\ frame' # NoFrame
  BY <1>2, <1>4, <1>5, <1>6
<1>8. spi_pc' = "select" => age' = Gap
  BY <1>1, <1>2, <1>5
<1> QED
  BY <1>1, <1>2, <1>3, <1>4, <1>7, <1>8

(* A clock moves the selection on by one; with the third the frame opens.  *)
LEMMA TickOpening == ASSUME SpiInv, Tick PROVE Opening'
<1> DEFINE M == Mask(job.to)
<1>1. SpiTypes /\ UNCHANGED <<spi_pc, sent, gpo, gp_out, job>>
  BY TickEffects DEF SpiInv
<1> SUFFICES ASSUME spi_pc = "load", sent = 0 PROVE Opening'
  BY <1>1 DEF Opening
<1>2. /\ NoStrobe /\ gp_out.ss = M
      /\ gp_outd.ss = IF age >= 1 THEN M ELSE {}
      /\ gp_outr.ss = IF age >= 2 THEN M ELSE {}
      /\ pins.ss = IF age >= 3 THEN M ELSE {}
      /\ IF age = 0 THEN taken = frame.words
         ELSE taken = <<>> /\ frame \in {NoFrame, job} /\ (frame # NoFrame => age >= 3)
  BY DEF SpiInv, Opening
<1>3. NoStrobe' /\ ~IO_STROBE
  BY <1>1, <1>2, TickNoStrobe
<1>4. M # {} /\ job \in Frames
  BY <1>1, FrameFields, Masks DEF SpiTypes
<1>5. age \in Nat /\ age' = (IF age < Gap THEN age + 1 ELSE age)
  BY <1>1, TickEffects DEF SpiTypes
<1>6. gp_outd'.ss = gp_out.ss /\ gp_outr'.ss = gp_outd.ss /\ pins'.ss = gp_outr.ss
  BY <1>1, TickEffects
<1>7. /\ gp_outd'.ss = IF age' >= 1 THEN M ELSE {}
      /\ gp_outr'.ss = IF age' >= 2 THEN M ELSE {}
      /\ pins'.ss = IF age' >= 3 THEN M ELSE {}
  BY <1>2, <1>5, <1>6
<1>8. age' # 0 /\ taken' = <<>> /\ frame' \in {NoFrame, job} /\ (frame' # NoFrame => age' >= 3)
  <2>1. CASE age < 3
    BY <1>1, <1>2, <1>5, <2>1, TickEffects
  <2>2. CASE age >= 3
    BY <1>1, <1>2, <1>3, <1>4, <1>5, <2>2, TickEffects
  <2> QED
    BY <1>5, <2>1, <2>2
<1> QED
  BY <1>1, <1>2, <1>3, <1>7, <1>8 DEF Opening

(* The slave in a frame: it takes the word with the first clock of the     *)
(* strobe, and no other.                                                   *)
LEMMA TickSending ==
  ASSUME SpiInv, Tick, InFrame
  PROVE  /\ Sending' /\ frame' = job
         /\ IO_STROBE => /\ spi_pc = "ack" /\ frame = job /\ Len(taken) = sent
                         /\ taken' = Append(taken, job.words[sent + 1])
         /\ ~IO_STROBE => taken' = taken
<1> DEFINE M == Mask(job.to)
<1>1. SpiTypes /\ UNCHANGED <<spi_pc, sent, gpo, gp_out, job>> /\ InFrame'
  BY TickEffects DEF SpiInv, InFrame
<1>2. /\ \A line \in {gp_out, gp_outd, gp_outr, pins} : line.ss = M
      /\ \/ frame = job
         \/ /\ frame = NoFrame /\ sent = 0 /\ spi_pc \in {"present", "strobe", "ack"}
            /\ gp_outd.strobe = 0
      /\ Len(taken) = sent + (IF Got THEN 1 ELSE 0)
      /\ \A i \in 1..Len(taken) : taken[i] = job.words[i]
      /\ IF spi_pc \in {"disable", "deselect"} THEN sent = Len(job.words)
                                              ELSE sent < Len(job.words)
      /\ Got /\ job.to = "io" => io_dout = sent + 1
  BY DEF SpiInv, Sending
<1>3. job \in Frames /\ M # {} /\ Selected(M) = job.to /\ job # NoFrame /\ sent \in Nat
  BY <1>1, FrameFields, Masks DEF SpiTypes, InFrame
<1>4. /\ \A line \in {gp_out', gp_outd', gp_outr', pins'} : line.ss = M
      /\ pins.ss = M
  BY <1>1, <1>2, TickEffects
<1>5. frame' = job /\ taken' = IF IO_STROBE THEN Append(taken, pins.word) ELSE taken
  BY <1>1, <1>2, <1>3, TickEffects
<1>6. CASE IO_STROBE
  <2>1. pins.strobe = 1 /\ ~rack
    BY <1>6 DEF IO_STROBE
  <2>2. spi_pc = "ack"
    <3>1. ~NoStrobe
      BY <2>1 DEF NoStrobe
    <3> QED
      BY <2>1, <3>1 DEF SpiInv, Strobing
  <2>3. gp_outd.strobe = 1 /\ pins.word = job.words[sent + 1]
    BY <1>1, <2>1, <2>2, StrobeBits DEF SpiInv, Strobing
  <2>4. frame = job /\ ~Got /\ Len(taken) = sent
    BY <1>2, <1>3, <2>1, <2>2, <2>3 DEF Got
  <2>5. rack' /\ Got'
    BY <1>1, <1>6, <2>1, <2>2, TickEffects DEF Got
  <2>6. taken' = Append(taken, job.words[sent + 1]) /\ taken \in Seq(Nat)
    BY <1>1, <1>5, <1>6, <2>3 DEF SpiTypes
  <2>7. Len(taken') = sent + 1 /\ \A i \in 1..Len(taken') : taken'[i] = job.words[i]
    BY <1>2, <1>3, <2>4, <2>6
  <2>8. job.to = "io" => io_dout' = sent + 1
    BY <1>1, <1>3, <1>4, <1>6, <2>4, TickEffects
  <2> QED
    BY <1>1, <1>2, <1>4, <1>5, <1>6, <2>2, <2>4, <2>5, <2>6, <2>7, <2>8 DEF Sending
<1>7. CASE ~IO_STROBE
  <2>1. taken' = taken
    BY <1>5, <1>7
  <2>2. Got' <=> Got
    <3>1. spi_pc = "ack" => (rack' <=> rack)
      <4> SUFFICES ASSUME spi_pc = "ack" PROVE rack' <=> rack
        OBVIOUS
      <4>1. rack => pins.strobe = 1
        BY DEF SpiInv, Strobing
      <4>2. CASE rack' = (pins.strobe = 1)
        BY <1>7, <4>1, <4>2 DEF IO_STROBE
      <4>3. CASE rack' = rack
        BY <4>3
      <4> QED
        BY <1>1, <4>2, <4>3, TickEffects
    <3> QED
      BY <1>1, <3>1 DEF Got
  <2>3. Got /\ job.to = "io" => io_dout' = sent + 1
    BY <1>1, <1>2, <1>3, <1>4, <1>7, TickEffects
  <2> QED
    BY <1>1, <1>2, <1>4, <1>5, <1>7, <2>1, <2>2, <2>3 DEF Sending
<1> QED
  BY <1>6, <1>7

(* The strobe and its end move on by one; rack follows the pins.           *)
LEMMA TickStrobing == ASSUME SpiInv, Tick PROVE Strobing'
<1>1. SpiTypes /\ UNCHANGED <<spi_pc, sent, gpo, gp_out, job>>
  BY TickEffects DEF SpiInv
<1>2. gp_outd' = gp_out /\ gp_outr' = gp_outd /\ pins' = gp_outr
  BY <1>1, TickEffects
<1>3. /\ gp_out.strobe \in {0, 1} /\ gp_outd.strobe \in {0, 1}
      /\ gp_outr.strobe \in {0, 1} /\ pins.strobe \in {0, 1}
      /\ rack \in BOOLEAN /\ io_ack \in BOOLEAN
  BY <1>1, StrobeBits DEF SpiTypes
<1>4. /\ rack /\ pins.strobe = 1 => rack'
      /\ ~rack => ~io_ack' \/ io_ack' = io_ack
      /\ rack' => rack \/ pins.strobe = 1
      /\ pins.strobe = 1 => rack'
      /\ rack => io_ack' \/ io_ack' = io_ack
  <2>1. CASE rack' = (pins.strobe = 1) /\ io_ack' = rack
    BY <1>3, <2>1
  <2>2. CASE ~IO_STROBE /\ rack' = rack /\ io_ack' = io_ack
    BY <1>3, <2>2 DEF IO_STROBE
  <2> QED
    BY <1>1, <2>1, <2>2, TickEffects
<1>5. CASE InFrame /\ spi_pc \notin {"ack", "release", "unack"}
  <2>1. NoStrobe'
    BY <1>1, <1>5, TickNoStrobe DEF SpiInv, Strobing
  <2>2. /\ spi_pc \in {"present", "strobe"} =>
             gpo = Bits(Mask(job.to), 0, job.words[sent + 1])
        /\ spi_pc = "deselect" => gpo.ss = Mask(job.to) /\ gpo.strobe = 0
    BY DEF SpiInv, Strobing
  <2> QED
    BY <1>1, <1>5, <2>1, <2>2 DEF Strobing
<1>6. CASE spi_pc = "ack"
  <2>1. /\ gp_out.strobe = 1 /\ gp_outr.strobe <= gp_outd.strobe
        /\ pins.strobe <= gp_outr.strobe
        /\ rack => pins.strobe = 1
        /\ io_ack => rack
        /\ \A line \in {gp_out, gp_outd, gp_outr, pins} :
             line.strobe = 1 => line.word = job.words[sent + 1]
        /\ gpo = Bits(Mask(job.to), 0, job.words[sent + 1])
    BY <1>6 DEF SpiInv, Strobing
  <2>2. /\ gp_out'.strobe = 1 /\ gp_outr'.strobe <= gp_outd'.strobe
        /\ pins'.strobe <= gp_outr'.strobe
    BY <1>1, <1>2, <1>3, <2>1
  <2>3. rack' => pins'.strobe = 1
    BY <1>2, <1>3, <1>4, <2>1
  <2>4. io_ack' => rack'
    BY <1>3, <1>4, <2>1
  <2>5. \A line \in {gp_out', gp_outd', gp_outr', pins'} :
          line.strobe = 1 => line.word = job'.words[sent' + 1]
    BY <1>1, <1>2, <2>1
  <2> QED
    BY <1>1, <1>6, <2>1, <2>2, <2>3, <2>4, <2>5 DEF Strobing
<1>7. CASE spi_pc = "release"
  <2>1. /\ gp_out.strobe = 1 /\ gp_outd.strobe = 1 /\ gp_outr.strobe = 1 /\ pins.strobe = 1
        /\ rack /\ io_ack
        /\ gpo = Bits(Mask(job.to), 0, job.words[sent + 1])
    BY <1>7 DEF SpiInv, Strobing
  <2>2. /\ gp_out'.strobe = 1 /\ gp_outd'.strobe = 1 /\ gp_outr'.strobe = 1 /\ pins'.strobe = 1
        /\ rack' /\ io_ack'
    BY <1>1, <1>2, <1>4, <2>1
  <2> QED
    BY <1>1, <1>7, <2>1, <2>2 DEF Strobing
<1>8. CASE spi_pc = "unack"
  <2>1. /\ gp_out.strobe = 0 /\ gp_outd.strobe <= gp_outr.strobe
        /\ gp_outr.strobe <= pins.strobe
        /\ pins.strobe = 1 => rack
        /\ rack => io_ack
    BY <1>8 DEF SpiInv, Strobing
  <2>2. /\ gp_out'.strobe = 0 /\ gp_outd'.strobe <= gp_outr'.strobe
        /\ gp_outr'.strobe <= pins'.strobe
    BY <1>1, <1>2, <1>3, <2>1
  <2>3. pins'.strobe = 1 => rack'
    BY <1>2, <1>3, <1>4, <2>1
  <2>4. rack' => io_ack'
    BY <1>3, <1>4, <2>1
  <2> QED
    BY <1>1, <1>8, <2>2, <2>3, <2>4 DEF Strobing
<1>9. CASE ~InFrame
  BY <1>1, <1>9 DEF Strobing, InFrame
<1> QED
  BY <1>5, <1>6, <1>7, <1>8, <1>9

(* One clock of the port, whatever the firmware waits for.                 *)
LEMMA TickKeeps == ASSUME SpiInv, Tick PROVE SpiInv'
<1>1. Sending'
  <2>1. CASE InFrame
    BY <2>1, TickSending
  <2>2. CASE ~InFrame
    <3>1. UNCHANGED <<spi_pc, sent>>
      BY TickEffects DEF SpiInv
    <3> QED
      BY <2>2, <3>1 DEF Sending, InFrame
  <2> QED
    BY <2>1, <2>2
<1> QED
  BY <1>1, TickTypes, TickResting, TickOpening, TickStrobing DEF SpiInv

(* A FIFO that fills or empties changes the wait only.                     *)
LEMMA FifoKeeps == ASSUME SpiInv, Fill \/ Drain PROVE SpiInv'
<1>1. /\ UNCHANGED <<firmVars, age, gp_out, portVars, dout_en, io_dout, frame, taken>>
      /\ full' \in BOOLEAN /\ filling' \in BOOLEAN
  BY DEF Fill, Drain, SpiInv, SpiTypes
<1>2. SpiTypes'
  BY <1>1 DEF SpiInv, SpiTypes
<1>3. Resting' /\ Opening'
  BY <1>1 DEF SpiInv, Resting, Opening, NoStrobe
<1>4. Sending' /\ Strobing'
  BY <1>1 DEF SpiInv, Sending, Strobing, NoStrobe, InFrame, Got
<1> QED
  BY <1>2, <1>3, <1>4 DEF SpiInv

LEMMA StutterKeeps == ASSUME SpiInv, UNCHANGED spiVars PROVE SpiInv'
<1>2. SpiTypes'
  BY DEF SpiInv, SpiTypes
<1>3. Resting' /\ Opening'
  BY DEF SpiInv, Resting, Opening, NoStrobe
<1>4. Sending' /\ Strobing'
  BY DEF SpiInv, Sending, Strobing, NoStrobe, InFrame, Got
<1> QED
  BY <1>2, <1>3, <1>4 DEF SpiInv

(* One step of firmware, port or FIFO.                                     *)
LEMMA StepKeepsSpiInv == SpiInv /\ [SpiNext]_spiVars => SpiInv'
<1> SUFFICES ASSUME SpiInv, [SpiNext]_spiVars PROVE SpiInv'
  OBVIOUS
<1>1. ASSUME NEW f \in Frames, Begin(f), UNCHANGED <<portVars, slaveVars>> PROVE SpiInv'
  BY <1>1, BeginKeeps
<1>2. CASE SpiFirmware
  BY <1>2, LoadToEnableKeeps, SelectKeeps, LoadForWordKeeps, PresentKeeps, StrobeKeeps,
     SeeAckKeeps, ReleaseKeeps, SeeNoAckKeeps, LoadToDisableKeeps, DeselectKeeps
     DEF SpiFirmware
<1>3. CASE Tick
  BY <1>3, TickKeeps
<1>4. CASE Fill \/ Drain
  BY <1>4, FifoKeeps
<1>5. CASE UNCHANGED spiVars
  BY <1>5, StutterKeeps
<1> QED
  BY <1>1, <1>2, <1>3, <1>4, <1>5 DEF SpiNext

(* spi.cpp, MPU_AFP_CORE.v: the strobe, its acknowledge and the selection  *)
(* stay in step, for all frames, however the clocks and the FIFOs fall.    *)
THEOREM StrobeInvariant == SpiSpec => []SpiInv
  BY InitSpiInv, StepKeepsSpiInv, PTL DEF SpiSpec

(* The job, the count of its words and the two answers.                    *)
JobTypes ==
  /\ job \in Frames \cup {NoFrame} /\ sent \in 0..Len(job.words)
  /\ result \in Nat /\ io_dout \in Nat

LEMMA StepKeepsJobTypes ==
  ASSUME SpiInv, JobTypes, [SpiNext]_spiVars
  PROVE  JobTypes'
<1>1. ASSUME NEW f \in Frames, Begin(f), UNCHANGED slaveVars PROVE JobTypes'
  <2>1. job' = f /\ sent' = 0 /\ UNCHANGED <<result, io_dout>>
    BY <1>1 DEF Begin
  <2> QED
    BY <2>1, FrameFields DEF JobTypes
<1>2. CASE SpiFirmware
  <2>1. CASE SeeNoAck
    <3>1. /\ spi_pc = "unack" /\ sent' = sent + 1 /\ result' = io_dout
          /\ UNCHANGED <<job, io_dout>>
      BY <1>2, <2>1 DEF SpiFirmware, SeeNoAck
    <3>2. job \in Frames /\ sent \in Nat /\ sent < Len(job.words)
      BY <3>1 DEF SpiInv, SpiTypes, Sending, InFrame
    <3>3. Len(job.words) \in Nat
      BY <3>2, FrameFields
    <3>4. sent' \in 0..Len(job'.words)
      BY <3>1, <3>2, <3>3
    <3> QED
      BY <3>1, <3>4 DEF JobTypes
  <2>2. CASE ~SeeNoAck
    <3>1. UNCHANGED <<job, sent, result, io_dout>>
      BY <1>2, <2>2 DEF SpiFirmware, LoadToEnable, Select, LoadForWord, Present, Strobe,
                        SeeAck, Release, LoadToDisable, Deselect
    <3> QED
      BY <3>1 DEF JobTypes
  <2> QED
    BY <2>1, <2>2
<1>3. CASE Tick
  <2>1. UNCHANGED <<job, sent, result>>
    BY <1>3, TickEffects DEF SpiInv
  <2>2. io_dout' \in {0, Len(taken) + 1, io_dout} /\ Len(taken) \in Nat
    BY <1>3 DEF Tick, Answer, SpiInv, SpiTypes
  <2> QED
    BY <2>1, <2>2 DEF JobTypes
<1>4. CASE Fill \/ Drain \/ UNCHANGED spiVars
  <2>1. UNCHANGED <<job, sent, result, io_dout>>
    BY <1>4 DEF Fill, Drain
  <2> QED
    BY <2>1 DEF JobTypes
<1> QED
  BY <1>1, <1>2, <1>3, <1>4 DEF SpiNext

(* spi.cpp: the firmware never counts past the frame it sends, and what is *)
(* on the way is always a selection, a strobe and a word.                  *)
THEOREM SpiTypesHold == SpiSpec => []SpiTypeOK
<1>1. SpiInit => JobTypes
  BY FrameFields DEF SpiInit, JobTypes
<1>2. SpiInv /\ JobTypes => SpiTypeOK
  BY DEF SpiInv, SpiTypes, JobTypes, SpiTypeOK
<1> QED
  BY <1>1, <1>2, InitSpiInv, StepKeepsSpiInv, StepKeepsJobTypes, PTL DEF SpiSpec
-----------------------------------------------------------------------------
(***************************************************************************)
(* HpsSpi implements HpsBus: what the slave has in hand changes in a clock *)
(* of the port only, and there a frame is opened, a word taken or a frame  *)
(* closed.                                                                 *)
(***************************************************************************)
LEMMA FirmwareIsUnseen ==
  ASSUME (\E f \in Frames : Begin(f) /\ UNCHANGED <<portVars, slaveVars>>)
           \/ SpiFirmware \/ Fill \/ Drain \/ UNCHANGED spiVars
  PROVE  UNCHANGED <<frame, taken>>
  BY DEF SpiFirmware, Fill, Drain

(* A clock opens a frame, takes a word, closes a frame or changes nothing. *)
LEMMA TickIsOnTheBus == ASSUME SpiInv, Tick PROVE [Bus!Next]_(Bus!busVars)
<1>1. SpiTypes
  BY DEF SpiInv
<1>2. CASE InFrame
  <2>1. /\ frame' = job
        /\ IO_STROBE => /\ spi_pc = "ack" /\ frame = job /\ Len(taken) = sent
                        /\ taken' = Append(taken, job.words[sent + 1])
        /\ ~IO_STROBE => taken' = taken
    BY <1>2, TickSending
  <2>2. job \in Frames /\ job # NoFrame
    BY <1>1, <1>2, FrameFields DEF SpiTypes, InFrame
  <2>3. CASE IO_STROBE
    <3>1. Len(taken) < Len(job.words)
      BY <1>2, <2>1, <2>3 DEF SpiInv, Sending
    <3>2. Bus!Take
      BY <2>1, <2>2, <2>3, <3>1 DEF Bus!Take, Bus!NoFrame, NoFrame
    <3> QED
      BY <3>2 DEF Bus!Next
  <2>4. CASE ~IO_STROBE /\ frame = job
    BY <2>1, <2>4 DEF Bus!busVars
  <2>5. CASE ~IO_STROBE /\ frame # job
    <3>1. /\ frame = NoFrame /\ sent = 0 /\ spi_pc \in {"present", "strobe", "ack"}
          /\ gp_outd.strobe = 0
      BY <1>2, <2>5 DEF SpiInv, Sending
    <3>2. spi_pc = "ack" => ~rack
      <4>1. SUFFICES ASSUME spi_pc = "ack" PROVE pins.strobe # 1
        BY <3>1, <4>1 DEF SpiInv, Strobing
      <4>2. gp_outr.strobe <= 0 /\ pins.strobe <= gp_outr.strobe
        BY <3>1, <4>1 DEF SpiInv, Strobing
      <4> QED
        BY <1>1, <4>2, StrobeBits
    <3>3. ~Got
      BY <3>1, <3>2 DEF Got
    <3>4. Len(taken) = 0
      BY <1>2, <3>1, <3>3 DEF SpiInv, Sending
    <3>5. taken = <<>>
      BY <1>1, <3>4 DEF SpiTypes
    <3>6. Bus!Open(job)
      BY <2>1, <2>5, <3>1, <3>5 DEF Bus!Open, Bus!NoFrame, NoFrame
    <3> QED
      BY <2>2, <3>6 DEF Bus!Next
  <2> QED
    BY <2>3, <2>4, <2>5
<1>3. CASE ~InFrame
  <2>1. NoStrobe
    BY <1>1, <1>3 DEF SpiInv, Resting, Opening, InFrame, SpiTypes
  <2>2. ~IO_STROBE
    BY <1>1, <2>1, TickNoStrobe
  <2>3. CASE taken = frame.words /\ (pins.ss # {} => frame # NoFrame)
    <3>1. CASE pins.ss # {}
      BY <1>1, <2>2, <2>3, <3>1, TickEffects DEF Bus!busVars
    <3>2. CASE pins.ss = {} /\ frame = NoFrame
      BY <1>1, <2>3, <3>2, TickEffects, FrameFields DEF Bus!busVars
    <3>3. CASE pins.ss = {} /\ frame # NoFrame
      <4>1. Bus!Close
        BY <1>1, <2>3, <3>3, TickEffects DEF Bus!Close, Bus!NoFrame, NoFrame
      <4> QED
        BY <4>1 DEF Bus!Next
    <3> QED
      BY <3>1, <3>2, <3>3
  <2>4. CASE spi_pc = "load" /\ sent = 0
    <3>1. /\ pins.ss = IF age >= 3 THEN Mask(job.to) ELSE {}
          /\ IF age = 0 THEN taken = frame.words
             ELSE taken = <<>> /\ frame \in {NoFrame, job} /\ (frame # NoFrame => age >= 3)
          /\ age \in Nat
      BY <1>1, <2>4 DEF SpiInv, Opening, SpiTypes
    <3>2. CASE age = 0
      BY <2>3, <3>1, <3>2
    <3>3. CASE age # 0 /\ frame = NoFrame
      <4>1. taken' = taken
        BY <1>1, <2>2, <3>1, <3>3, TickEffects
      <4>2. CASE pins.ss = {}
        BY <1>1, <3>3, <4>1, <4>2, TickEffects DEF Bus!busVars
      <4>3. CASE pins.ss # {}
        <5>1. frame' = job /\ job \in Frames
          BY <1>1, <2>4, <3>3, <4>3, TickEffects DEF SpiTypes
        <5>2. Bus!Open(job)
          BY <3>1, <3>3, <4>1, <5>1 DEF Bus!Open, Bus!NoFrame, NoFrame
        <5> QED
          BY <5>1, <5>2 DEF Bus!Next
      <4> QED
        BY <4>2, <4>3
    <3>4. CASE age # 0 /\ frame # NoFrame
      <4>1. pins.ss # {}
        BY <1>1, <2>4, <3>1, <3>4, FrameFields, Masks DEF SpiTypes
      <4> QED
        BY <1>1, <2>2, <3>4, <4>1, TickEffects DEF Bus!busVars
    <3> QED
      BY <3>2, <3>3, <3>4
  <2>5. CASE spi_pc \in {"idle", "enable", "select"}
    BY <2>3, <2>5 DEF SpiInv, Resting
  <2> QED
    BY <1>1, <1>3, <2>4, <2>5 DEF SpiTypes, InFrame
<1> QED
  BY <1>2, <1>3

(* spi.cpp, MPU_AFP_CORE.v, hps_ext.v: the slaves see every word of every  *)
(* frame once and in order, between a selection and a deselection of the   *)
(* right slave, whatever the frames are and however the two clocks and the *)
(* FIFOs fall.                                                             *)
THEOREM FramesArriveWhole == SpiSpec => FramesArrive
<1>1. SpiInit => Bus!Init
  BY DEF SpiInit, Bus!Init, Bus!NoFrame, NoFrame
<1>2. SpiInv /\ [SpiNext]_spiVars => [Bus!Next]_(Bus!busVars)
  <2> SUFFICES ASSUME SpiInv, [SpiNext]_spiVars PROVE [Bus!Next]_(Bus!busVars)
    OBVIOUS
  <2>1. CASE Tick
    BY <2>1, TickIsOnTheBus
  <2>2. CASE ~Tick
    <3>1. UNCHANGED <<frame, taken>>
      BY <2>2, FirmwareIsUnseen DEF SpiNext
    <3> QED
      BY <3>1 DEF Bus!busVars
  <2> QED
    BY <2>1, <2>2
<1> QED
  BY <1>1, <1>2, StrobeInvariant, PTL DEF SpiSpec, FramesArrive, Bus!Spec

(* spi.cpp: HPS_fpga_spi returns the answer to the word it sent.           *)
THEOREM ReplyBelongs == SpiSpec => ReplyIsToThisWord
<1>1. ASSUME SpiInv, SeeNoAck, job.to = "io" PROVE result' = sent'
  <2>1. InFrame /\ Got /\ result' = io_dout /\ sent' = sent + 1
    BY <1>1 DEF SeeNoAck, InFrame, Got
  <2> QED
    BY <1>1, <2>1 DEF SpiInv, Sending
<1>2. SpiInv /\ [SpiNext]_spiVars => [SeeNoAck /\ job.to = "io" => result' = sent']_spiVars
  BY <1>1
<1> QED
  BY <1>2, StrobeInvariant, PTL DEF SpiSpec, ReplyIsToThisWord
=============================================================================
