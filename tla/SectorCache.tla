---------------------------- MODULE SectorCache -----------------------------
(***************************************************************************)
(* The two-buffer read-ahead cache of fileio.cpp, in front of the host's   *)
(* data slot, and the executor in core_bridge_cmd.v that carries the       *)
(* firmware's OPEN and READ commands to the host.                          *)
(*                                                                         *)
(* The firmware's thread is cut where it waits for the host: RISCFileSeek  *)
(* is a step up to each wait, RISCFileReadAdv delivers one cell a step,    *)
(* while the host moves the cells of a READ one by one.  A cell stands for *)
(* a run of bytes; its content is the place in a file it was read from.    *)
(* Both buffers are one array: the cells of buffer 1 follow buffer 0's.    *)
(***************************************************************************)
EXTENDS Integers, Sequences

CONSTANTS
  Files,         \* BIN files the cue sheet names
  NoFile,        \* no file
  Missing,       \* those of them the host does not find
  FileSize,      \* cells of a file
  Offsets,       \* where requests may start
  BufSize,       \* MEM_BUFFER_SIZE_C (8 KiB)
  SectorSize,    \* cells of a sector, one size for all tracks
  ScratchAddress, \* APF_SCRACH_ADDRESS_OFFSET, larger than any file
  ReadsMayFail,  \* the host may fail a READ
  SlowHost       \* a READ outlasts the 100 polls for its acknowledgement

ASSUME CacheAssumption ==
  /\ NoFile \notin Files /\ Missing \subseteq Files /\ Offsets \subseteq Nat
  /\ FileSize \in [Files -> Nat \ {0}]
  /\ ScratchAddress \in Nat /\ \A f \in Files : FileSize[f] < ScratchAddress
  /\ BufSize \in Nat /\ SectorSize \in 1..BufSize-1
  /\ ReadsMayFail \in BOOLEAN /\ SlowHost \in BOOLEAN

VARIABLES
  pc,             \* "idle", "seek", "opening", "load", "acking", "loading",
                  \* "load1", "use0", "use1", "deliver"
  want,           \* the request: file, offset, and whether cells are to be sent
  delivered,      \* cells sent for it so far
  aft_filename,   \* the file the firmware takes to be open
  sector_buffer0_address, sector_buffer1_address,
  sector_buffer_selector, sector_buffer_offset,
  sector_buffer_processing,  \* the other buffer is loaded or being loaded
  cache_enabled,  \* cache_buffer_0_enabled and cache_buffer_1_enabled
  file_error_code, \* the last error set: the notice that main.cpp ends stays
  scratch,        \* the cells of both buffers
  regs,           \* data slot registers: where a READ goes to and comes from
  readq, openq,   \* commands the executor has not taken yet
  op,             \* the command the host carries out
  moved,          \* cells moved for it
  done, err,      \* target_dataslot_done, target_dataslot_err
  host_file,      \* the file the host has open in the slot
  lost            \* history: a command has failed, and no OPEN has since been
                  \* seen to be carried out

cacheVars == <<aft_filename, sector_buffer0_address, sector_buffer1_address,
               sector_buffer_selector, sector_buffer_offset,
               sector_buffer_processing, cache_enabled>>
bridgeVars == <<regs, readq, openq, op, moved, done, err>>
hostVars == <<host_file, lost>>
vars == <<pc, want, delivered, cacheVars, file_error_code, scratch, bridgeVars,
          hostVars>>

Addresses == 0..2*BufSize-1
Cell      == [file : Files \cup {NoFile}, pos : Nat \cup {-1}]
Blank     == [file |-> NoFile, pos |-> 0]
NameOf(f) == [file |-> f, pos |-> -1]   \* the file's name, put there for an OPEN

CellAt(f, p) ==
  IF f \in Files /\ p < FileSize[f] THEN [file |-> f, pos |-> p] ELSE Blank

Wanted    == [file : Files \cup {NoFile}, offset : Nat, send : BOOLEAN]
Registers == [base : {0, BufSize}, offset : Nat, len : 0..BufSize]
Command   == [kind : {"none", "open", "read"}, base : {0, BufSize},
              offset : Nat, len : 0..BufSize]

NoOp   == [kind |-> "none", base |-> 0, offset |-> 0, len |-> 0]
OpenOp == [kind |-> "open", base |-> 0, offset |-> 0, len |-> 0]
ReadOp(r) == [kind |-> "read", base |-> r.base, offset |-> r.offset, len |-> r.len]

(* dataslot_size(101): the host keeps it up to date for the open file.     *)
SlotSize == IF host_file = NoFile THEN 0 ELSE FileSize[host_file]

Init ==
  /\ pc = "idle" /\ delivered = <<>>
  /\ want = [file |-> NoFile, offset |-> 0, send |-> FALSE]
  /\ aft_filename \in (Files \ Missing) /\ host_file = aft_filename
  /\ sector_buffer0_address = 0 /\ sector_buffer1_address = 0
  /\ sector_buffer_selector = 0 /\ sector_buffer_offset = 0
  /\ sector_buffer_processing = FALSE /\ cache_enabled = FALSE
  /\ file_error_code = 0
  /\ scratch = [cell \in Addresses |-> Blank]
  /\ regs = [base |-> 0, offset |-> 0, len |-> 0]
  /\ readq = FALSE /\ openq = FALSE /\ op = NoOp /\ moved = 0
  /\ done = TRUE /\ err = 0 /\ lost = FALSE
-----------------------------------------------------------------------------
(***************************************************************************)
(* The registers.  An idle executor takes a command within three clocks,   *)
(* long before the firmware looks at the flags; a busy one queues it and   *)
(* reads the registers when it gets to it, a READ before an OPEN.  For one *)
(* clock between two commands done is seen: a firmware whose poll falls    *)
(* into that clock goes on, and the executor has taken the next command    *)
(* before the firmware writes anything.                                    *)
(***************************************************************************)
Current == IF op # NoOp THEN op
           ELSE IF readq THEN ReadOp(regs)
           ELSE IF openq THEN OpenOp
           ELSE NoOp

(* What is left of the queue then, and the flags of a command taken.       *)
readLeft == readq /\ op # NoOp
openLeft == openq /\ (op # NoOp \/ readq)
movedOf  == IF op # NoOp THEN moved ELSE 0

IssueRead(r) ==
  /\ regs' = r
  /\ op' = IF Current = NoOp THEN ReadOp(r) ELSE Current
  /\ readq' = (Current # NoOp) /\ openq' = openLeft
  /\ moved' = movedOf /\ done' = FALSE
  /\ UNCHANGED err

IssueOpen ==
  /\ regs' = [regs EXCEPT !.base = 0, !.offset = ScratchAddress]
  /\ op' = IF Current = NoOp THEN OpenOp ELSE Current
  /\ readq' = readLeft /\ openq' = (Current # NoOp)
  /\ moved' = movedOf /\ done' = FALSE
  /\ UNCHANGED err

(* The executor takes what is queued, if it is free.                       *)
Take ==
  /\ op' = Current /\ readq' = readLeft /\ openq' = openLeft
  /\ IF op = Current THEN UNCHANGED <<moved, done>>
     ELSE moved' = 0 /\ done' = FALSE
  /\ UNCHANGED err

(* The part of a buffer that lies inside the file.                         *)
LoadSize(offset) ==
  IF SlotSize - offset > BufSize THEN BufSize
  ELSE IF offset >= SlotSize THEN 0
  ELSE SlotSize - offset

(* dataslot_read_lba_set and dataslot_read_lba or .._fast: a READ of       *)
(* nothing is not issued, though its address registers are written.        *)
StartLoad(base, offset) ==
  IF LoadSize(offset) > 0
  THEN IssueRead([base |-> base, offset |-> offset, len |-> LoadSize(offset)])
  ELSE /\ regs' = [regs EXCEPT !.base = base, !.offset = offset]
       /\ Take
-----------------------------------------------------------------------------
(***************************************************************************)
(* The host (APF framework).                                               *)
(***************************************************************************)
hostLeaves == <<pc, want, delivered, cacheVars, file_error_code, regs>>

StartQueued ==
  /\ op = NoOp /\ (readq \/ openq)
  /\ Take
  /\ UNCHANGED <<hostLeaves, scratch, hostVars>>

MoveCell ==
  /\ op.kind = "read" /\ moved < op.len
  /\ scratch' = [scratch EXCEPT ![op.base + moved] = CellAt(host_file, op.offset + moved)]
  /\ moved' = moved + 1
  /\ UNCHANGED <<hostLeaves, readq, openq, op, done, err, hostVars>>

(* Mutant: the host may finish before its acknowledgement was polled. *)
FinishAtOnce(result) ==
  /\ op' = NoOp /\ done' = TRUE /\ err' = result
  /\ UNCHANGED <<hostLeaves, scratch, readq, openq, moved>>

Finish(result) ==
  /\ SlowHost => pc # "acking"
  /\ op' = NoOp /\ done' = TRUE /\ err' = result
  /\ UNCHANGED <<hostLeaves, scratch, readq, openq, moved>>

ReadFinished ==
  /\ op.kind = "read" /\ moved = op.len
  /\ Finish(0)
  /\ UNCHANGED hostVars

ReadFails ==
  /\ ReadsMayFail /\ op.kind = "read" /\ moved < op.len
  /\ Finish(1)
  /\ lost' = TRUE
  /\ UNCHANGED host_file

(* The host takes the file's name from the start of buffer 0.              *)
OpenFinished ==
  /\ op.kind = "open"
  /\ \/ \E f \in Files \ Missing :
          scratch[0] = NameOf(f) /\ host_file' = f /\ Finish(0)
          /\ UNCHANGED lost
     \/ /\ ~ \E f \in Files \ Missing : scratch[0] = NameOf(f)
        /\ Finish(2)
        /\ lost' = TRUE
        /\ UNCHANGED host_file

Host == StartQueued \/ MoveCell \/ ReadFinished \/ ReadFails \/ OpenFinished
-----------------------------------------------------------------------------
(***************************************************************************)
(* RISCFileSeek.                                                           *)
(***************************************************************************)
BufferEnd0 == sector_buffer0_address + BufSize
BufferEnd1 == sector_buffer1_address + BufSize
From  == want.offset
Until == want.offset + SectorSize

cache_buffer_0 ==
  Until < BufferEnd0 /\ From >= sector_buffer0_address /\ cache_enabled
cache_buffer_1 ==
  Until < BufferEnd1 /\ From >= sector_buffer1_address /\ cache_enabled
cache_buffer_0_swap ==
  /\ From >= sector_buffer0_address /\ From < sector_buffer1_address
  /\ Until < BufferEnd1 /\ BufferEnd0 = sector_buffer1_address
cache_buffer_1_swap ==
  /\ From >= sector_buffer1_address /\ From < sector_buffer0_address
  /\ Until < BufferEnd0 /\ BufferEnd1 = sector_buffer0_address

Straddles == ~cache_buffer_0 /\ ~cache_buffer_1
               /\ (cache_buffer_0_swap \/ cache_buffer_1_swap)
Uses0 == cache_buffer_0 \/ cache_buffer_0_swap
Uses1 == cache_buffer_1 \/ cache_buffer_1_swap

SeekEnd == IF want.send THEN "deliver" ELSE "idle"

Request(f, offset, send) ==
  /\ pc = "idle"
  /\ pc' = "seek"
  /\ want' = [file |-> f, offset |-> offset, send |-> send]
  /\ delivered' = <<>>
  /\ UNCHANGED <<cacheVars, file_error_code, scratch, bridgeVars, hostVars>>

(* OpenFileNameDataSlot writes the name over the start of buffer 0 and     *)
(* takes the file to be open before the host has answered.                 *)
SeekOtherFile ==
  /\ pc = "seek" /\ want.file # aft_filename
  /\ pc' = "opening"
  /\ scratch' = [scratch EXCEPT ![0] = NameOf(want.file)]
  /\ aft_filename' = want.file
  /\ IssueOpen
  /\ UNCHANGED <<want, delivered, sector_buffer0_address, sector_buffer1_address,
                 sector_buffer_selector, sector_buffer_offset,
                 sector_buffer_processing, cache_enabled, file_error_code, hostVars>>

(* The poll looks at the error bits first, those of an earlier command     *)
(* included, and the caller of RISCFileSeek does not look at its result.   *)
OpenError ==
  /\ pc = "opening" /\ err # 0
  /\ file_error_code' = 2
  /\ pc' = SeekEnd
  /\ UNCHANGED <<want, delivered, cacheVars, scratch, bridgeVars, hostVars>>

(* The end of a READ before it, with the OPEN still queued, is taken for   *)
(* the end of the OPEN.                                                    *)
OpenDone ==
  /\ pc = "opening" /\ err = 0 /\ done
  /\ Take
  /\ lost' = (lost /\ Current # NoOp)
  /\ cache_enabled' = FALSE
  /\ pc' = "load"
  /\ UNCHANGED <<want, delivered, aft_filename, sector_buffer0_address,
                 sector_buffer1_address, sector_buffer_selector,
                 sector_buffer_offset, sector_buffer_processing,
                 file_error_code, scratch, regs, host_file>>

(* A sector that straddles the buffers waits for the host here.            *)
SeekSameFile ==
  /\ pc = "seek" /\ want.file = aft_filename
  /\ Straddles => done
  /\ sector_buffer_processing' =
       (/\ sector_buffer_processing
        /\ ~(cache_buffer_0 /\ sector_buffer_selector = 1)
        /\ ~(cache_buffer_1 /\ sector_buffer_selector = 0))
  /\ pc' = IF Uses0 THEN "use0" ELSE IF Uses1 THEN "use1" ELSE "load"
  /\ UNCHANGED <<want, delivered, aft_filename, sector_buffer0_address,
                 sector_buffer1_address, sector_buffer_selector,
                 sector_buffer_offset, cache_enabled,
                 file_error_code, scratch, bridgeVars, hostVars>>

(* Mutant: a full load does not wait for the transfer in the background. *)
LoadFirstHasty ==
  /\ pc = "load"
  /\ sector_buffer0_address' = want.offset /\ sector_buffer1_address' = 0
  /\ sector_buffer_selector' = 0 /\ sector_buffer_offset' = 0
  /\ StartLoad(0, want.offset)
  /\ pc' = IF LoadSize(want.offset) > 0 THEN "acking" ELSE "load1"
  /\ UNCHANGED <<want, delivered, aft_filename, sector_buffer_processing,
                 cache_enabled, file_error_code, scratch, hostVars>>

LoadFirst ==
  /\ pc = "load" /\ done
  /\ sector_buffer0_address' = want.offset /\ sector_buffer1_address' = 0
  /\ sector_buffer_selector' = 0 /\ sector_buffer_offset' = 0
  /\ StartLoad(0, want.offset)
  /\ pc' = IF LoadSize(want.offset) > 0 THEN "acking" ELSE "load1"
  /\ UNCHANGED <<want, delivered, aft_filename, sector_buffer_processing,
                 cache_enabled, file_error_code, scratch, hostVars>>

(* dataslot_read_lba first polls for the acknowledgement, which is taken   *)
(* back when the command completes.                                        *)
Acknowledged ==
  /\ pc = "acking" /\ op # NoOp
  /\ pc' = "loading"
  /\ UNCHANGED <<want, delivered, cacheVars, file_error_code, scratch,
                 bridgeVars, hostVars>>

(* Then it waits for the end, or for error bits, which it does not report. *)
FirstLoaded ==
  /\ pc = "loading" /\ (err # 0 \/ done)
  /\ pc' = "load1"
  /\ UNCHANGED <<want, delivered, cacheVars, file_error_code, scratch,
                 bridgeVars, hostVars>>

LoadSecond ==
  /\ pc = "load1"
  /\ IF SlotSize > BufSize
     THEN /\ sector_buffer1_address' = want.offset + BufSize
          /\ StartLoad(BufSize, want.offset + BufSize)
     ELSE UNCHANGED <<sector_buffer1_address, bridgeVars>>
  /\ cache_enabled' = TRUE /\ sector_buffer_processing' = TRUE
  /\ pc' = SeekEnd
  /\ UNCHANGED <<want, delivered, aft_filename, sector_buffer0_address,
                 sector_buffer_selector, sector_buffer_offset,
                 file_error_code, scratch, hostVars>>

Use0 ==
  /\ pc = "use0"
  /\ sector_buffer_selector' = 0
  /\ sector_buffer_offset' = want.offset - sector_buffer0_address
  /\ IF sector_buffer_processing
     THEN UNCHANGED <<sector_buffer1_address, bridgeVars>>
     ELSE /\ done
          /\ sector_buffer1_address' = BufferEnd0
          /\ StartLoad(BufSize, BufferEnd0)
  /\ sector_buffer_processing' = TRUE
  /\ pc' = SeekEnd
  /\ UNCHANGED <<want, delivered, aft_filename, sector_buffer0_address,
                 cache_enabled, file_error_code, scratch, hostVars>>

(* Mutant: the offset into buffer 1 is taken from buffer 0's address. *)
Use1FromBuffer0 ==
  /\ pc = "use1"
  /\ sector_buffer_selector' = 1
  /\ sector_buffer_offset' = want.offset - sector_buffer0_address
  /\ IF sector_buffer_processing
     THEN UNCHANGED <<sector_buffer0_address, bridgeVars>>
     ELSE /\ done
          /\ sector_buffer0_address' = BufferEnd1
          /\ StartLoad(0, BufferEnd1)
  /\ sector_buffer_processing' = TRUE
  /\ pc' = SeekEnd
  /\ UNCHANGED <<want, delivered, aft_filename, sector_buffer1_address,
                 cache_enabled, file_error_code, scratch, hostVars>>

Use1 ==
  /\ pc = "use1"
  /\ sector_buffer_selector' = 1
  /\ sector_buffer_offset' = want.offset - sector_buffer1_address
  /\ IF sector_buffer_processing
     THEN UNCHANGED <<sector_buffer0_address, bridgeVars>>
     ELSE /\ done
          /\ sector_buffer0_address' = BufferEnd1
          /\ StartLoad(0, BufferEnd1)
  /\ sector_buffer_processing' = TRUE
  /\ pc' = SeekEnd
  /\ UNCHANGED <<want, delivered, aft_filename, sector_buffer1_address,
                 cache_enabled, file_error_code, scratch, hostVars>>

(***************************************************************************)
(* RISCFileReadAdv.  A sector that reaches the end of its buffer goes on   *)
(* at the start of the other one.                                          *)
(***************************************************************************)
BaseOf(selector) == IF selector = 0 THEN 0 ELSE BufSize
Wrap(at) == IF at < 2*BufSize THEN at ELSE at - 2*BufSize

Deliver ==
  LET at == BaseOf(sector_buffer_selector) + sector_buffer_offset + Len(delivered)
  IN
  /\ pc = "deliver"
  /\ delivered' = Append(delivered, scratch[Wrap(at)])
  /\ pc' = IF Len(delivered) + 1 = SectorSize THEN "idle" ELSE "deliver"
  /\ UNCHANGED <<want, cacheVars, file_error_code, scratch, bridgeVars, hostVars>>

Seek == SeekOtherFile \/ OpenError \/ OpenDone \/ SeekSameFile
          \/ LoadFirst \/ Acknowledged \/ FirstLoaded \/ LoadSecond \/ Use0 \/ Use1

Firmware ==
  \/ \E f \in Files : \E offset \in Offsets : \E send \in BOOLEAN :
       Request(f, offset, send)
  \/ Seek
  \/ Deliver

Next == Firmware \/ Host

Spec == Init /\ [][Next]_vars

(* The firmware runs on through a seek and a delivery, and the host        *)
(* carries out what it is given.                                           *)
FairSpec == Spec /\ WF_vars(Seek) /\ WF_vars(Deliver) /\ WF_vars(Host)
-----------------------------------------------------------------------------
TypeOK ==
  /\ pc \in {"idle", "seek", "opening", "load", "acking", "loading",
             "load1", "use0", "use1", "deliver"}
  /\ want \in Wanted
  /\ delivered \in Seq(Cell) /\ Len(delivered) <= SectorSize
  /\ aft_filename \in Files /\ host_file \in Files
  /\ sector_buffer0_address \in Nat /\ sector_buffer1_address \in Nat
  /\ sector_buffer_selector \in {0, 1} /\ sector_buffer_offset \in 0..BufSize-1
  /\ sector_buffer_processing \in BOOLEAN /\ cache_enabled \in BOOLEAN
  /\ file_error_code \in {0, 2}
  /\ scratch \in [Addresses -> Cell]
  /\ regs \in Registers
  /\ readq \in BOOLEAN /\ openq \in BOOLEAN
  /\ op \in Command
  /\ moved \in 0..BufSize /\ done \in BOOLEAN /\ err \in 0..2
  /\ lost \in BOOLEAN

(* What was sent so far is the requested place of the requested file.      *)
Right ==
  \A i \in DOMAIN delivered :
    LET p == want.offset + i - 1
    IN p < FileSize[want.file] => delivered[i] = CellAt(want.file, p)

(* Every sector is delivered as it stands in its file, whichever buffer it *)
(* is in, across the buffers, while the host loads the other buffer, after *)
(* any jump, and after a change of file while the host still reads ahead.  *)
(* What a failed command spoils ends with the next change of file that the *)
(* firmware sees carried out.  An OPEN fails too when the transfer before  *)
(* it writes over the name in buffer 0 (apf.cpp:400).                      *)
DeliveredRight == Right \/ lost

(* README.md:59 and 136: a file that cannot be read is shown as an error,  *)
(* so that no wrong sector is delivered before one.                        *)
WrongIsReported == Right \/ file_error_code # 0

(* Every request is served: none of the waits for the host is for ever,    *)
(* whether its commands succeed or fail and whenever they are issued.      *)
RequestServed == pc = "seek" ~> pc = "idle"
=============================================================================
