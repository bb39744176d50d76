----------------------------- MODULE CdMailbox ------------------------------
(***************************************************************************)
(* The mailbox between the target in the FPGA and the drive firmware, word *)
(* by word: the message registers of main.sv, the command decoder of       *)
(* hps_ext.v and the calls of the firmware that go through it.  A word     *)
(* crosses the bus in one step (HpsSpi shows that it arrives once and in   *)
(* order); what the FPGA does between two words is the subject.            *)
(***************************************************************************)
EXTENDS HpsFrames

CONSTANTS
  ReqMod,       \* values of the message counter: 256 in hps_ext.v
  MaxPosts,     \* messages posted in a run
  Statuses,     \* status words the firmware sends
  Regions,      \* values of cue.region
  Mounts,       \* what notify_mount is called with
  Blocks        \* what it sends as data, as sequences of bytes

ASSUME CountersAssumption == ReqMod \in Nat /\ ReqMod > 1 /\ MaxPosts \in Nat

Octet == 0..255

(* The length of a block has twelve bits in main.sv.                       *)
ASSUME CallsAssumption ==
  /\ Statuses \subseteq Nat /\ Regions \subseteq BOOLEAN /\ Mounts \subseteq Nat
  /\ \A b \in Blocks : b \in Seq(Octet) /\ Len(b) < 4096

VARIABLES
  cd_in,        \* the message: 1..6 the post that wrote the word, 7 the type
  posted,       \* how many messages were posted
  recent,       \* the messages as they were posted, from the one that pcecd_poll found
  req,          \* cd_req, the message counter of hps_ext.v
  byte_cnt, cmd, cd_out,    \* the decoder
  stat,         \* status word, request and region bits that main.sv took last
  cd_en,        \* a disc is in
  head_pos, cd_dat_len, cd_dat_cnt, fifo,   \* the data path of main.sv
  pc, words,    \* what the firmware does and the words it has yet to send
  arg,          \* the argument of the call it is in
  last_req, data_in,        \* pcecd_poll: counter it saw last, words it has read
  acted         \* the message it acted on last, and whether it was ever posted

mailVars == <<cd_in, posted, req>>
outVars  == <<cd_out, stat, cd_en>>
dataVars == <<head_pos, cd_dat_len, cd_dat_cnt, fifo>>
pollVars == <<last_req, data_in, recent, acted>>
vars == <<mailVars, byte_cnt, cmd, outVars, dataVars, pc, words, arg, pollVars>>

Nothing == [msg |-> <<>>, whole |-> TRUE]

(* The types of message that main.sv puts into the last word.              *)
COMMAND == 0
DATAOUT == 1
DATAEND == 2
RESET   == 255
Kinds   == {COMMAND, DATAOUT, DATAEND, RESET}

Init ==
  /\ cd_in = [i \in 1..7 |-> 0] /\ posted = 0 /\ req = 0
  /\ byte_cnt = 0 /\ cmd = 0
  /\ cd_out = <<0, 0>> /\ stat = <<0, 0>> /\ cd_en = FALSE
  /\ head_pos = FALSE /\ cd_dat_len = 0 /\ cd_dat_cnt = 0 /\ fifo = <<>>
  /\ pc = "loop" /\ words = <<>> /\ arg = <<>>
  /\ last_req = 0 /\ data_in = <<>> /\ recent = {} /\ acted = Nothing
-----------------------------------------------------------------------------
(* A message replaces the words it has something to say about: a command   *)
(* all of them, data of the console five, the others the type alone.       *)
Fields(kind) ==
  CASE kind = COMMAND -> 1..6
    [] kind = DATAOUT -> 1..5
    [] OTHER          -> {}

(* The counter would come round to the value that the firmware saw last    *)
(* after 256 messages; no console posts that many between two polls.       *)
CounterHasRoom == (req + 1) % ReqMod # last_req

(* Mutant: a reset does not move the counter.                              *)
PostUncounted(kind) ==
  /\ posted < MaxPosts /\ CounterHasRoom
  /\ cd_in' = [i \in 1..7 |-> IF i = 7 THEN kind
                              ELSE IF i \in Fields(kind) THEN posted + 1
                              ELSE cd_in[i]]
  /\ posted' = posted + 1
  /\ req' = IF kind = RESET THEN req ELSE (req + 1) % ReqMod
  /\ recent' = IF pc = "message" THEN recent \cup {cd_in'} ELSE {}
  /\ UNCHANGED <<byte_cnt, cmd, outVars, dataVars, pc, words, arg, last_req, data_in, acted>>

Post(kind) ==
  /\ posted < MaxPosts /\ CounterHasRoom
  /\ cd_in' = [i \in 1..7 |-> IF i = 7 THEN kind
                              ELSE IF i \in Fields(kind) THEN posted + 1
                              ELSE cd_in[i]]
  /\ posted' = posted + 1
  /\ req' = (req + 1) % ReqMod
  /\ recent' = IF pc = "message" THEN recent \cup {cd_in'} ELSE {}
  /\ UNCHANGED <<byte_cnt, cmd, outVars, dataVars, pc, words, arg, last_req, data_in, acted>>
-----------------------------------------------------------------------------
(* Mutant: main.sv takes every word of a CD_SET over as it arrives.        *)
TakeSetAtOnce(w) ==
  /\ cd_out' = IF cmd = UIO_CD_SET /\ byte_cnt \in 1..2
               THEN [cd_out EXCEPT ![byte_cnt] = w] ELSE cd_out
  /\ stat' = cd_out'

(* The decoder takes a word; the first one of a frame is the command.      *)
TakeSet(w) ==
  /\ cd_out' = IF cmd = UIO_CD_SET /\ byte_cnt \in 1..2
               THEN [cd_out EXCEPT ![byte_cnt] = w] ELSE cd_out
  /\ UNCHANGED stat

TakeStats(w) ==
  cd_en' = IF cmd = UIO_SET_SDSTAT /\ byte_cnt = 1 THEN w % 2 = 1 ELSE cd_en

(* Of the last word only the low byte is taken if the number is odd.       *)
BytesIn(w) ==
  IF cd_dat_cnt >= cd_dat_len - 1 THEN <<w % 256>> ELSE <<w % 256, w \div 256>>

BlockBegins == head_pos' = FALSE /\ cd_dat_len' = 0 /\ cd_dat_cnt' = 0 /\ fifo' = fifo

(* The first word of the data says how many bytes follow.                  *)
TakeLength(w) ==
  head_pos' = TRUE /\ cd_dat_len' = w % 4096 /\ cd_dat_cnt' = 0 /\ fifo' = fifo

TakeBytes(w) ==
  /\ fifo' = fifo \o BytesIn(w) /\ cd_dat_cnt' = cd_dat_cnt + Len(BytesIn(w))
  /\ head_pos' = head_pos /\ cd_dat_len' = cd_dat_len

TakeData(w) ==
  \/ byte_cnt = 0 /\ w = UIO_CD_DATA /\ BlockBegins
  \/ /\ byte_cnt # 0 /\ cmd = UIO_CD_DATA
     /\ \/ ~head_pos /\ TakeLength(w)
        \/ head_pos /\ cd_dat_cnt < cd_dat_len /\ TakeBytes(w)
        \/ head_pos /\ cd_dat_cnt >= cd_dat_len /\ UNCHANGED dataVars

NoData(w) == (IF byte_cnt = 0 THEN w ELSE cmd) # UIO_CD_DATA /\ UNCHANGED dataVars

TakeWord(w) ==
  /\ cmd' = IF byte_cnt = 0 THEN w ELSE cmd
  /\ byte_cnt' = byte_cnt + 1
  /\ TakeSet(w) /\ TakeStats(w) /\ (TakeData(w) \/ NoData(w))

(* io_enable falls: a CD_SET is complete, and main.sv takes it over.       *)
DeselectIO ==
  /\ byte_cnt' = 0 /\ cmd' = 0
  /\ stat' = IF cmd = UIO_CD_SET THEN cd_out ELSE stat
  /\ UNCHANGED <<cd_out, cd_en, head_pos, cd_dat_len, cd_dat_cnt>>
-----------------------------------------------------------------------------
(* pcecd_poll: the counter comes with the command word; when it has moved  *)
(* the seven words of the message follow.                                  *)
PollCounter ==
  /\ pc = "loop"
  /\ IF req # last_req
     THEN /\ TakeWord(UIO_CD_GET)
          /\ last_req' = req /\ data_in' = <<>> /\ recent' = {cd_in}
          /\ pc' = "message"
     ELSE UNCHANGED <<byte_cnt, cmd, outVars, dataVars, last_req, data_in, recent, pc>>
  /\ UNCHANGED <<mailVars, words, arg, acted>>

ReadWord ==
  /\ pc = "message" /\ Len(data_in) < 7
  /\ TakeWord(0)
  /\ data_in' = Append(data_in, cd_in[byte_cnt])
  /\ UNCHANGED <<mailVars, pc, words, arg, last_req, recent, acted>>

(* Mutant: the counter is read after the words.                            *)
ActAndForget ==
  /\ pc = "message" /\ Len(data_in) = 7
  /\ DeselectIO
  /\ acted' = [msg |-> data_in, whole |-> data_in \in recent]
  /\ data_in' = <<>> /\ recent' = {} /\ pc' = "loop"
  /\ last_req' = req
  /\ UNCHANGED <<mailVars, fifo, words, arg>>

ActOnMessage ==
  /\ pc = "message" /\ Len(data_in) = 7
  /\ DeselectIO
  /\ acted' = [msg |-> data_in, whole |-> data_in \in recent]
  /\ data_in' = <<>> /\ recent' = {} /\ pc' = "loop"
  /\ UNCHANGED <<mailVars, fifo, words, arg, last_req>>

(* The calls that send: a frame of spi.cpp, its words one by one.          *)
Call(frame, a) ==
  /\ pc = "loop" /\ pc' = "send" /\ words' = frame.words /\ arg' = a
  /\ UNCHANGED <<mailVars, byte_cnt, cmd, outVars, dataVars, pollVars>>

(* SendStatus and SendDataRequest (status 0, request bit 1).               *)
SendStatus(s, region) ==
  Call(Frame("io", <<UIO_CD_SET, s, IF region THEN 2 ELSE 0>>),
       <<"set", <<s, IF region THEN 2 ELSE 0>> >>)

SendDataRequest(region) ==
  Call(Frame("io", <<UIO_CD_SET, 0, (IF region THEN 2 ELSE 0) + 1>>),
       <<"set", <<0, (IF region THEN 2 ELSE 0) + 1>> >>)

notify_mount(load) ==
  Call(HPS_spi_uio_cmd8(UIO_SET_SDSTAT, load), <<"mount", load>>)

(* Two bytes of length and flags, then the data.                           *)
SendBlock(bytes) ==
  /\ Call(HPS_io_file_tx_data(<<Len(bytes), 128>> \o bytes, UIO_CD_DATA), <<"data", bytes>>)

SendWord ==
  /\ pc = "send" /\ words # <<>>
  /\ TakeWord(Head(words)) /\ words' = Tail(words)
  /\ UNCHANGED <<mailVars, pc, arg, pollVars>>

(* The FIFO is emptied by the console before the next block.               *)
EndCall ==
  /\ pc = "send" /\ words = <<>>
  /\ DeselectIO
  /\ pc' = "loop" /\ arg' = <<>> /\ fifo' = <<>>
  /\ UNCHANGED <<mailVars, words, pollVars>>

Firmware ==
  \/ PollCounter \/ ReadWord \/ ActOnMessage
  \/ (\E s \in Statuses, r \in Regions : SendStatus(s, r))
  \/ (\E r \in Regions : SendDataRequest(r))
  \/ (\E load \in Mounts : notify_mount(load))
  \/ (\E b \in Blocks : SendBlock(b))
  \/ SendWord \/ EndCall

Next == (\E k \in Kinds : Post(k)) \/ Firmware

Spec == Init /\ [][Next]_vars

(* The main loop calls pcecd_poll in every turn, whatever it sent before,  *)
(* and a call that was begun is ended.                                     *)
FairSpec ==
  Spec /\ SF_vars(PollCounter)
       /\ WF_vars(ReadWord \/ ActOnMessage \/ SendWord \/ EndCall)
-----------------------------------------------------------------------------
TypeOK ==
  /\ cd_in[7] \in Kinds /\ \A i \in 1..6 : cd_in[i] \in 0..MaxPosts
  /\ posted \in 0..MaxPosts /\ {req, last_req} \subseteq 0..ReqMod-1
  /\ byte_cnt \in Nat /\ cmd \in Nat /\ cd_en \in BOOLEAN
  /\ head_pos \in BOOLEAN /\ cd_dat_len \in 0..4095 /\ cd_dat_cnt \in 0..cd_dat_len
  /\ pc \in {"loop", "message", "send"}

(* pcecd_poll reads the counter before the seven words, and main.sv may    *)
(* replace the message between any two of them.  A message put together    *)
(* from two posts is never the last word: the counter has moved on, so the *)
(* next poll reads again.                                                  *)
TornIsReread ==
  pc # "message" /\ ~acted.whole => req # last_req

(* When the console falls silent the firmware has acted, as its last act,  *)
(* on the last message, whole.                                             *)
LastMessageActedOn == <>[](posted > 0 => acted = [msg |-> cd_in, whole |-> TRUE])

(* main.sv takes over the status, the request bit and the region of one    *)
(* SendStatus or SendDataRequest together, when the frame ends, and at no  *)
(* other time.                                                             *)
StatusWhole ==
  [][IF EndCall /\ arg[1] = "set" THEN stat' = arg[2] ELSE stat' = stat]_vars

(* The data path passes on exactly the bytes of the block, also when their *)
(* number is odd or zero and the last word carries one byte or none.       *)
BlockWhole ==
  pc = "send" /\ words = <<>> /\ arg[1] = "data" => fifo = arg[2]
-----------------------------------------------------------------------------
(* What makes these inductive.                                             *)

AtRest ==
  /\ pc = "loop" => byte_cnt = 0 /\ cmd = 0
  /\ pc # "send" => fifo = <<>>

(* Until another message comes, the words read are the first of the one    *)
(* that is there.                                                          *)
Polling ==
  pc = "message" =>
    /\ byte_cnt = Len(data_in) + 1 /\ Len(data_in) <= 7 /\ cmd = UIO_CD_GET
    /\ req = last_req => /\ cd_in \in recent
                        /\ \A i \in 1..Len(data_in) : data_in[i] = cd_in[i]

Setting ==
  pc = "send" /\ arg[1] = "set" =>
    LET s == arg[2][1]   r == arg[2][2] IN
      /\ s \in Nat /\ r \in Nat /\ arg[2] = <<s, r>>
      /\ \/ byte_cnt = 0 /\ words = <<UIO_CD_SET, s, r>>
         \/ byte_cnt = 1 /\ words = <<s, r>> /\ cmd = UIO_CD_SET
         \/ byte_cnt = 2 /\ words = <<r>> /\ cmd = UIO_CD_SET /\ cd_out[1] = s
         \/ byte_cnt = 3 /\ words = <<>> /\ cmd = UIO_CD_SET /\ cd_out = <<s, r>>

Mounting ==
  pc = "send" /\ arg[1] = "mount" =>
    IF byte_cnt = 0 THEN words # <<>> /\ Head(words) = UIO_SET_SDSTAT
                    ELSE cmd = UIO_SET_SDSTAT

DataWords(bytes) == <<UIO_CD_DATA>> \o Wide(<<Len(bytes), 128>> \o bytes)

(* The words of a block that are still to be sent, and the bytes that the  *)
(* words sent have brought into the FIFO.                                  *)
Streaming ==
  pc = "send" /\ arg[1] = "data" =>
    /\ arg[2] \in Blocks
    /\ byte_cnt + Len(words) = Len(DataWords(arg[2]))
    /\ \A i \in 1..Len(words) : words[i] = DataWords(arg[2])[byte_cnt + i]
    /\ byte_cnt >= 1 => cmd = UIO_CD_DATA
    /\ byte_cnt = 1 => ~head_pos
    /\ byte_cnt < 2 => fifo = <<>>
    /\ byte_cnt >= 2 =>
         /\ head_pos /\ cd_dat_len = Len(arg[2])
         /\ cd_dat_cnt = IF 2 * (byte_cnt - 2) < Len(arg[2]) THEN 2 * (byte_cnt - 2)
                                                            ELSE Len(arg[2])
         /\ Len(fifo) = cd_dat_cnt
         /\ \A i \in 1..cd_dat_cnt : fifo[i] = arg[2][i]

MailTypes ==
  /\ cd_in \in [1..7 -> Nat] /\ posted \in Nat
  /\ {req, last_req} \subseteq 0..ReqMod-1
  /\ byte_cnt \in Nat /\ cmd \in Nat /\ cd_out \in Seq(Nat) /\ Len(cd_out) = 2
  /\ pc \in {"loop", "message", "send"}
  /\ words \in Seq(Nat) /\ data_in \in Seq(Nat)
  /\ fifo \in Seq(Octet)
  /\ acted.whole \in BOOLEAN
  /\ pc = "send" => arg[1] \in {"set", "mount", "data"}

MailInv ==
  /\ MailTypes /\ AtRest /\ Polling /\ TornIsReread
  /\ Setting /\ Mounting /\ Streaming
=============================================================================
