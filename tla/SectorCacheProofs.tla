------------------------- MODULE SectorCacheProofs --------------------------
(***************************************************************************)
(* Proofs about SectorCache: its types, for every value of the constants,  *)
(* and, for files longer than a buffer, that every sector is delivered as  *)
(* it stands in its file, up to a command that fails and again from the    *)
(* next change of file that is seen carried out.                           *)
(***************************************************************************)
EXTENDS SectorCacheInv, TLAPS

USE CacheAssumption
USE DEF vars, cacheVars, bridgeVars, hostVars, hostLeaves

(* The part of a buffer to be loaded fits into the buffer.                 *)
LEMMA LoadSizeType ==
  ASSUME host_file \in Files, NEW offset \in Nat
  PROVE  /\ SlotSize = FileSize[host_file]
         /\ SlotSize \in Nat
         /\ LoadSize(offset) \in 0..BufSize
  BY DEF SlotSize, LoadSize

LEMMA CommandTypes ==
  /\ NoOp \in Command /\ OpenOp \in Command
  /\ \A r \in Registers : ReadOp(r) \in Command
  BY DEF NoOp, OpenOp, ReadOp, Command, Registers

(* What the executor works on, and what is left of its queue.              *)
LEMMA CurrentType ==
  ASSUME TypeInv
  PROVE  /\ Current \in Command
         /\ readLeft \in BOOLEAN /\ openLeft \in BOOLEAN /\ movedOf \in 0..BufSize
  BY CommandTypes DEF Current, readLeft, openLeft, movedOf, TypeInv, TypeOK

LEMMA TakeType ==
  ASSUME TypeInv, Take
  PROVE  /\ readq' \in BOOLEAN /\ openq' \in BOOLEAN
         /\ op' \in Command
         /\ moved' \in 0..BufSize /\ done' \in BOOLEAN /\ err' \in 0..2
<1>1. readq' = readLeft /\ openq' = openLeft /\ op' = Current
  BY DEF Take
<1>2. moved' \in {moved, 0} /\ done' \in {done, FALSE} /\ err' = err
  BY DEF Take
<1>3. moved \in 0..BufSize /\ done \in BOOLEAN /\ err \in 0..2
  BY DEF TypeInv, TypeOK
<1>4. moved' \in 0..BufSize
  BY <1>2, <1>3
<1>5. done' \in BOOLEAN
  BY <1>2, <1>3
<1> QED
  BY <1>1, <1>2, <1>3, <1>4, <1>5, CurrentType

(* The registers and the executor keep their types when a load is started. *)
LEMMA StartLoadType ==
  ASSUME TypeInv, NEW base \in {0, BufSize}, NEW offset \in Nat,
         StartLoad(base, offset)
  PROVE  /\ regs' \in Registers
         /\ readq' \in BOOLEAN /\ openq' \in BOOLEAN
         /\ op' \in Command
         /\ moved' \in 0..BufSize /\ done' \in BOOLEAN /\ err' \in 0..2
<1> DEFINE r == [base |-> base, offset |-> offset, len |-> LoadSize(offset)]
<1>1. LoadSize(offset) \in 0..BufSize
  BY LoadSizeType DEF TypeInv, TypeOK
<1>2. CASE LoadSize(offset) > 0
  <2>1. IssueRead(r)
    BY <1>2 DEF StartLoad
  <2>2. r \in Registers
    BY <1>1 DEF Registers
  <2> HIDE DEF r
  <2>3. ReadOp(r) \in Command
    BY <2>2, CommandTypes
  <2>4. err \in 0..2
    BY DEF TypeInv, TypeOK
  <2> QED
    BY <2>1, <2>2, <2>3, <2>4, CurrentType DEF IssueRead
<1>3. CASE ~(LoadSize(offset) > 0)
  <2>1. /\ regs' = [regs EXCEPT !.base = base, !.offset = offset]
        /\ Take
    BY <1>3 DEF StartLoad
  <2>2. regs' \in Registers
    BY <2>1 DEF TypeInv, TypeOK, Registers
  <2> QED
    BY <2>1, <2>2, TakeType
<1> QED
  BY <1>2, <1>3

LEMMA InitTypeInv == Init => TypeInv
<1> SUFFICES ASSUME Init PROVE TypeInv
  OBVIOUS
<1>1. scratch \in [Addresses -> Cell]
  BY DEF Init, Blank, Cell
<1>2. want \in Wanted /\ regs \in Registers
  BY DEF Init, Wanted, Registers
<1>3. /\ delivered \in Seq(Cell) /\ Len(delivered) <= SectorSize
      /\ aft_filename \in Files /\ host_file \in Files
  BY DEF Init
<1>4. /\ sector_buffer0_address \in Nat /\ sector_buffer1_address \in Nat
      /\ sector_buffer_selector \in {0, 1} /\ sector_buffer_offset \in 0..BufSize-1
      /\ moved \in 0..BufSize /\ err \in 0..2 /\ op \in Command
  BY CommandTypes DEF Init
<1>5. /\ sector_buffer_processing \in BOOLEAN /\ cache_enabled \in BOOLEAN
      /\ readq \in BOOLEAN /\ openq \in BOOLEAN /\ done \in BOOLEAN
  BY DEF Init
<1>6. pc = "idle" /\ file_error_code = 0 /\ lost = FALSE
  BY DEF Init
<1> QED
  BY <1>1, <1>2, <1>3, <1>4, <1>5, <1>6 DEF TypeInv, TypeOK, Shape

LEMMA HostTypeInv == TypeInv /\ Host => TypeInv'
<1> SUFFICES ASSUME TypeInv, Host PROVE TypeInv'
  OBVIOUS
<1> USE DEF TypeInv, TypeOK, Shape, BufferEnd0, BufferEnd1
<1>1. CASE StartQueued
  BY <1>1, TakeType DEF StartQueued
<1>2. CASE MoveCell
  <2>1. moved' \in 0..BufSize
    BY <1>2 DEF MoveCell, Command
  <2>2. scratch' \in [Addresses -> Cell]
    <3>1. op.base + moved \in Addresses
      BY <1>2 DEF MoveCell, Command, Addresses
    <3>2. CellAt(host_file, op.offset + moved) \in Cell
      BY <1>2 DEF MoveCell, Command, CellAt, Cell, Blank
    <3> QED
      BY <1>2, <3>1, <3>2 DEF MoveCell
  <2> QED
    BY <1>2, <2>1, <2>2 DEF MoveCell
<1>3. CASE ReadFinished
  BY <1>3, CommandTypes DEF ReadFinished, Finish
<1>4. CASE ReadFails
  BY <1>4, CommandTypes DEF ReadFails, Finish
<1>5. CASE OpenFinished
  <2>1. host_file' \in Files /\ lost' \in BOOLEAN
    BY <1>5 DEF OpenFinished
  <2>2. \E result \in {0, 2} : Finish(result)
    BY <1>5 DEF OpenFinished
  <2> QED
    BY <1>5, <2>1, <2>2, CommandTypes DEF Finish
<1> QED
  BY <1>1, <1>2, <1>3, <1>4, <1>5 DEF Host

LEMMA SeekTypeInv == TypeInv /\ Seek => TypeInv'
<1> SUFFICES ASSUME TypeInv, Seek PROVE TypeInv'
  OBVIOUS
<1> USE DEF TypeInv, TypeOK, Shape, BufferEnd0, BufferEnd1, SeekEnd
<1>0. /\ want.offset \in Nat /\ want.send \in BOOLEAN
      /\ BufSize \in {0, BufSize} /\ 0 \in {0, BufSize}
  BY DEF Wanted
<1>1. CASE SeekOtherFile
  <2>1. scratch' \in [Addresses -> Cell]
    BY <1>1 DEF SeekOtherFile, Addresses, Cell, NameOf
  <2>2. regs' \in Registers
    BY <1>1 DEF SeekOtherFile, IssueOpen, Registers
  <2>3. IssueOpen
    BY <1>1 DEF SeekOtherFile
  <2>4. op' \in Command /\ moved' \in 0..BufSize
    BY <2>3, CurrentType, CommandTypes DEF IssueOpen
  <2>5. readq' \in BOOLEAN /\ openq' \in BOOLEAN /\ done' \in BOOLEAN
    BY <2>3, CurrentType DEF IssueOpen
  <2>6. err' \in 0..2
    BY <2>3 DEF IssueOpen
  <2> QED
    BY <1>1, <2>1, <2>2, <2>4, <2>5, <2>6 DEF SeekOtherFile
<1>2. CASE OpenError
  BY <1>2 DEF OpenError
<1>3. CASE OpenDone
  BY <1>3, TakeType DEF OpenDone
<1>4. CASE SeekSameFile
  BY <1>0, <1>4, SMTT(30) DEF SeekSameFile, Uses0, Uses1, cache_buffer_0, cache_buffer_1,
       cache_buffer_0_swap, cache_buffer_1_swap, From, Until
<1>5. CASE LoadFirst
  BY <1>0, <1>5, StartLoadType DEF LoadFirst
<1>6. CASE Acknowledged
  BY <1>6 DEF Acknowledged
<1>7. CASE FirstLoaded
  BY <1>7 DEF FirstLoaded
<1>8. CASE LoadSecond
  BY <1>0, <1>8, StartLoadType DEF LoadSecond
<1>9. CASE Use0
  <2>1. /\ pc = "use0" /\ pc' = SeekEnd /\ sector_buffer_selector' = 0
        /\ sector_buffer_offset' = want.offset - sector_buffer0_address
        /\ sector_buffer_processing' = TRUE
        /\ UNCHANGED <<want, delivered, aft_filename, sector_buffer0_address,
                       cache_enabled, file_error_code, scratch, hostVars>>
    BY <1>9 DEF Use0
  <2>2. sector_buffer_offset' \in 0..BufSize-1
    BY <1>0, <2>1
  <2>3. /\ regs' \in Registers /\ op' \in Command /\ sector_buffer1_address' \in Nat
        /\ readq' \in BOOLEAN /\ openq' \in BOOLEAN /\ done' \in BOOLEAN
        /\ moved' \in 0..BufSize /\ err' \in 0..2
    <3>1. CASE sector_buffer_processing
      BY <1>9, <3>1 DEF Use0
    <3>2. CASE ~sector_buffer_processing
      <4>1. /\ sector_buffer1_address' = BufferEnd0 /\ BufferEnd0 \in Nat
            /\ StartLoad(BufSize, BufferEnd0)
        BY <1>9, <3>2 DEF Use0
      <4> QED
        BY <1>0, <4>1, StartLoadType
    <3> QED
      BY <3>1, <3>2
  <2> QED
    BY <1>0, <2>1, <2>2, <2>3
<1>10. CASE Use1
  <2>1. /\ pc = "use1" /\ pc' = SeekEnd /\ sector_buffer_selector' = 1
        /\ sector_buffer_offset' = want.offset - sector_buffer1_address
        /\ sector_buffer_processing' = TRUE
        /\ UNCHANGED <<want, delivered, aft_filename, sector_buffer1_address,
                       cache_enabled, file_error_code, scratch, hostVars>>
    BY <1>10 DEF Use1
  <2>2. sector_buffer_offset' \in 0..BufSize-1
    BY <1>0, <2>1
  <2>3. /\ regs' \in Registers /\ op' \in Command /\ sector_buffer0_address' \in Nat
        /\ readq' \in BOOLEAN /\ openq' \in BOOLEAN /\ done' \in BOOLEAN
        /\ moved' \in 0..BufSize /\ err' \in 0..2
    <3>1. CASE sector_buffer_processing
      BY <1>10, <3>1 DEF Use1
    <3>2. CASE ~sector_buffer_processing
      <4>1. /\ sector_buffer0_address' = BufferEnd1 /\ BufferEnd1 \in Nat
            /\ StartLoad(0, BufferEnd1)
        BY <1>10, <3>2 DEF Use1
      <4> QED
        BY <1>0, <4>1, StartLoadType
    <3> QED
      BY <3>1, <3>2
  <2> QED
    BY <1>0, <2>1, <2>2, <2>3
<1> HIDE DEF TypeInv, TypeOK, Shape
<1> QED
  BY <1>1, <1>2, <1>3, <1>4, <1>5, <1>6, <1>7, <1>8, <1>9, <1>10 DEF Seek

LEMMA RequestTypeInv ==
  ASSUME TypeInv, NEW f \in Files, NEW offset \in Offsets,
         NEW send \in BOOLEAN, Request(f, offset, send)
  PROVE  TypeInv'
<1>1. want' \in Wanted /\ want'.file \in Files
  BY DEF Request, Wanted
<1> QED
  BY <1>1 DEF Request, TypeInv, TypeOK, Shape, BufferEnd0, BufferEnd1

LEMMA DeliverTypeInv == TypeInv /\ Deliver => TypeInv'
<1> SUFFICES ASSUME TypeInv, Deliver PROVE TypeInv'
  OBVIOUS
<1> USE DEF TypeInv, TypeOK, Shape, BufferEnd0, BufferEnd1
<1> DEFINE at == BaseOf(sector_buffer_selector) + sector_buffer_offset + Len(delivered)
<1>1. Wrap(at) \in Addresses
  <2>1. BaseOf(sector_buffer_selector) \in {0, BufSize}
    BY DEF BaseOf
  <2>2. sector_buffer_offset \in 0..BufSize-1 /\ Len(delivered) \in 0..BufSize-1
    BY DEF Deliver
  <2>3. at \in 0..3*BufSize
    BY <2>1, <2>2
  <2> HIDE DEF at
  <2> QED
    BY <2>3 DEF Wrap, Addresses
<1>2. scratch[Wrap(at)] \in Cell
  BY <1>1
<1>3. /\ delivered' = Append(delivered, scratch[Wrap(at)])
      /\ pc' = IF Len(delivered) + 1 = SectorSize THEN "idle" ELSE "deliver"
  BY DEF Deliver
<1> HIDE DEF at
<1>4. delivered' \in Seq(Cell) /\ Len(delivered') = Len(delivered) + 1
  BY <1>2, <1>3
<1> QED
  BY <1>3, <1>4 DEF Deliver

LEMMA StepTypeInv == TypeInv /\ [Next]_vars => TypeInv'
<1> SUFFICES ASSUME TypeInv, [Next]_vars PROVE TypeInv'
  OBVIOUS
<1>1. CASE Next
  BY <1>1, HostTypeInv, SeekTypeInv, RequestTypeInv, DeliverTypeInv DEF Next, Firmware
<1>2. CASE UNCHANGED vars
  BY <1>2 DEF TypeInv, TypeOK, Shape, BufferEnd0, BufferEnd1
<1> QED
  BY <1>1, <1>2

(* The variables keep their types: among them, no buffer offset lies       *)
(* outside its buffer, no cell is read or written outside the two buffers, *)
(* and no READ is longer than a buffer, for every host.                    *)
THEOREM TypeCorrect == Spec => []TypeOK
<1>1. Spec => []TypeInv
  BY InitTypeInv, StepTypeInv, PTL DEF Spec
<1>2. TypeInv => TypeOK
  BY DEF TypeInv
<1> QED
  BY <1>1, <1>2, PTL
-----------------------------------------------------------------------------
(***************************************************************************)
(* DeliveredRight, up to a command that fails and from the next OPEN on.   *)
(* The assumption is the one without which it is false: a file no longer   *)
(* than a buffer leaves the address of buffer 1 at zero.                   *)
(***************************************************************************)
LongFiles == \A f \in Files : FileSize[f] > BufSize

LEMMA NoOpKind == NoOp.kind = "none"
  BY DEF NoOp

(* While the firmware waits for its OPEN: whatever ends, the OPEN ends     *)
(* last, and shows an error unless it opened the wanted file.              *)
LEMMA OpeningInv ==
  ASSUME TypeInv, Opening, [Next]_vars
  PROVE  Opening'
<1> DEFINE Waiting ==
      pc = "opening" =>
        /\ want.file = aft_filename /\ Named
        /\ ~openq => /\ ~readq
                     /\ op.kind = "open" \/ op = NoOp
                     /\ op = NoOp /\ err = 0 => host_file = want.file
<1>1. ASSUME UNCHANGED <<op, done>> \/ ~done' \/ op' = NoOp
      PROVE  done' => op' = NoOp
  BY <1>1 DEF Opening
<1>2. ASSUME Take
      PROVE  done' => op' = NoOp
  BY <1>2 DEF Take, Opening
<1>3. ASSUME NEW base, NEW offset, StartLoad(base, offset)
      PROVE  done' => op' = NoOp
  BY <1>2, <1>3 DEF StartLoad, IssueRead
<1>4. CASE StartQueued
  <2>1. Take /\ UNCHANGED <<hostLeaves, scratch, hostVars>>
    BY <1>4 DEF StartQueued
  <2>2. Waiting'
    <3> SUFFICES ASSUME pc' = "opening" PROVE Waiting'
      OBVIOUS
    <3>1. want'.file = aft_filename' /\ Named'
      BY <2>1 DEF Opening, Named, NameOf
    <3>2. ~openq' => op' = OpenOp /\ ~readq'
      BY <1>4, <2>1 DEF StartQueued, Take, Current, readLeft, openLeft, Opening
    <3>3. OpenOp.kind = "open" /\ OpenOp # NoOp
      BY DEF OpenOp, NoOp
    <3> QED
      BY <3>1, <3>2, <3>3
  <2> QED
    BY <1>2, <2>1, <2>2 DEF Opening
<1>5. CASE MoveCell
  <2>1. /\ op.kind = "read" /\ moved < op.len
        /\ scratch' = [scratch EXCEPT ![op.base + moved] =
                           CellAt(host_file, op.offset + moved)]
        /\ UNCHANGED <<pc, want, aft_filename, readq, openq, op, done, err, host_file>>
    BY <1>5 DEF MoveCell
  <2>2. scratch'[0] = scratch[0] \/ scratch'[0].pos # -1
    <3>1. CellAt(host_file, op.offset + moved).pos # -1
      BY DEF TypeInv, TypeOK, Command, CellAt, Blank
    <3>2. scratch \in [Addresses -> Cell] /\ 0 \in Addresses
      BY DEF TypeInv, TypeOK, Addresses
    <3> QED
      BY <2>1, <3>1, <3>2
  <2>3. Waiting'
    BY <2>1, <2>2 DEF Opening, Named, NameOf
  <2> QED
    BY <1>1, <2>1, <2>3 DEF Opening
<1>6. CASE ReadFinished \/ ReadFails
  <2>1. /\ op.kind = "read" /\ op' = NoOp
        /\ UNCHANGED <<pc, want, aft_filename, scratch, readq, openq>>
    BY <1>6 DEF ReadFinished, ReadFails, Finish
  <2>2. Waiting'
    BY <2>1, NoOpKind DEF Opening, Named, NameOf
  <2> QED
    BY <1>1, <2>1, <2>2 DEF Opening
<1>7. CASE OpenFinished
  <2>1. /\ op' = NoOp /\ op.kind = "open"
        /\ UNCHANGED <<pc, want, aft_filename, scratch, readq, openq>>
        /\ err' = 0 => \E f \in Files : scratch[0] = NameOf(f) /\ host_file' = f
    BY <1>7 DEF OpenFinished, Finish
  <2>2. ASSUME Named, err' = 0
        PROVE  host_file' = want.file
    <3>1. PICK f \in Files : scratch[0] = NameOf(f) /\ host_file' = f
      BY <2>1, <2>2
    <3>2. NameOf(f).pos = -1 /\ NameOf(f).file = f /\ NameOf(want.file).file = want.file
      BY DEF NameOf
    <3>3. scratch[0] = NameOf(want.file)
      BY <2>2, <3>1, <3>2 DEF Named
    <3> QED
      BY <3>1, <3>2, <3>3
  <2>3. Waiting'
    BY <2>1, <2>2 DEF Opening, Named, NameOf
  <2> QED
    BY <1>1, <2>1, <2>3 DEF Opening
<1>8. CASE SeekOtherFile
  <2>1. /\ scratch' = [scratch EXCEPT ![0] = NameOf(want.file)]
        /\ aft_filename' = want.file /\ want' = want /\ IssueOpen
    BY <1>8 DEF SeekOtherFile
  <2>2. Named'
    BY <2>1 DEF Named, TypeInv, TypeOK, Addresses, NameOf
  <2>3. ~openq' => op' = OpenOp /\ ~readq'
    BY <2>1 DEF IssueOpen, Current, readLeft
  <2>4. OpenOp.kind = "open" /\ OpenOp # NoOp
    BY DEF OpenOp, NoOp
  <2>5. Waiting' /\ ~done'
    BY <2>1, <2>2, <2>3, <2>4 DEF IssueOpen
  <2> QED
    BY <1>1, <2>5 DEF Opening
<1>9. CASE OpenDone
  BY <1>2, <1>9 DEF OpenDone, Opening
<1>10. CASE LoadFirst
  <2>1. StartLoad(0, want.offset) /\ pc' # "opening"
    BY <1>10 DEF LoadFirst
  <2> QED
    BY <1>3, <2>1 DEF Opening
<1>11. CASE LoadSecond
  <2>1. pc' # "opening" /\ (UNCHANGED <<op, done>> \/ \E b, o : StartLoad(b, o))
    BY <1>11 DEF LoadSecond, SeekEnd
  <2> QED
    BY <1>1, <1>3, <2>1 DEF Opening
<1>12. CASE Use0
  <2>1. pc' # "opening" /\ (UNCHANGED <<op, done>> \/ \E b, o : StartLoad(b, o))
    BY <1>12 DEF Use0, SeekEnd
  <2> QED
    BY <1>1, <1>3, <2>1 DEF Opening
<1>13. CASE Use1
  <2>1. pc' # "opening" /\ (UNCHANGED <<op, done>> \/ \E b, o : StartLoad(b, o))
    BY <1>13 DEF Use1, SeekEnd
  <2> QED
    BY <1>1, <1>3, <2>1 DEF Opening
<1>14. CASE OpenError \/ SeekSameFile \/ Acknowledged \/ FirstLoaded \/ Deliver
  <2>1. pc' # "opening" /\ UNCHANGED <<op, done>>
    BY <1>14 DEF OpenError, SeekSameFile, Acknowledged, FirstLoaded, Deliver, SeekEnd
  <2> QED
    BY <1>1, <2>1 DEF Opening
<1>15. ASSUME NEW f, NEW offset, NEW send, Request(f, offset, send)
       PROVE  Opening'
  <2>1. pc' # "opening" /\ UNCHANGED <<op, done>>
    BY <1>15 DEF Request
  <2> QED
    BY <1>1, <2>1 DEF Opening
<1>16. CASE UNCHANGED vars
  BY <1>16 DEF Opening, Named, NameOf
<1> QED
  BY <1>4, <1>5, <1>6, <1>7, <1>8, <1>9, <1>10, <1>11, <1>12, <1>13, <1>14, <1>15, <1>16
  DEF Next, Host, Firmware, Seek

(* An idle executor takes a load at once, or there is nothing to load.     *)
LEMMA StartLoadEffect ==
  ASSUME TypeInv, OneCommand, op = NoOp, pc # "opening",
         NEW base \in {0, BufSize}, NEW offset \in Nat, StartLoad(base, offset)
  PROVE  /\ err' = 0 /\ ~readq' /\ ~openq'
         /\ \/ /\ LoadSize(offset) = 0 /\ op' = NoOp
            \/ /\ LoadSize(offset) > 0 /\ ~done' /\ moved' = 0
               /\ op'.kind = "read" /\ op'.base = base /\ op'.offset = offset
               /\ op'.len = LoadSize(offset)
<1>1. LoadSize(offset) \in 0..BufSize
  BY LoadSizeType DEF TypeInv, TypeOK
<1>2. Current = NoOp /\ ~openLeft /\ ~readLeft /\ movedOf = 0 /\ err = 0
  BY DEF OneCommand, Current, openLeft, readLeft, movedOf
<1>3. CASE LoadSize(offset) > 0
  <2> DEFINE r == [base |-> base, offset |-> offset, len |-> LoadSize(offset)]
  <2>1. IssueRead(r)
    BY <1>3 DEF StartLoad
  <2>2. op' = ReadOp(r) /\ moved' = 0 /\ done' = FALSE
    BY <1>2, <2>1 DEF IssueRead
  <2>3. readq' = FALSE /\ openq' = openLeft /\ err' = err
    BY <1>2, <2>1 DEF IssueRead
  <2> QED
    BY <1>2, <1>3, <2>2, <2>3 DEF ReadOp
<1>4. CASE LoadSize(offset) = 0
  <2>1. Take
    BY <1>4 DEF StartLoad
  <2> QED
    BY <1>2, <1>4, <2>1 DEF Take
<1> QED
  BY <1>1, <1>3, <1>4

(* A buffer whose load has just been started is good.                      *)
LEMMA FreshBuffer ==
  ASSUME TypeInv, TypeInv', NEW selector \in {0, 1},
         aft_filename' = host_file,
         \/ LoadSize(Address(selector)') = 0
         \/ /\ op'.kind = "read" /\ op'.base = BaseOf(selector) /\ moved' = 0
  PROVE  Good(selector)'
<1> SUFFICES ASSUME NEW k \in 0..BufSize-1 PROVE CellGood(selector, k)'
  BY DEF Good
<1>1. Address(selector)' \in Nat
  BY DEF TypeInv, TypeOK, Address
<1>2. CASE LoadSize(Address(selector)') = 0
  <2>1. Address(selector)' >= SlotSize
    BY <1>1, <1>2, LoadSizeType, SMTT(30) DEF LoadSize, TypeInv, TypeOK
  <2>2. FileSize[aft_filename'] = SlotSize /\ SlotSize \in Nat
    BY LoadSizeType DEF TypeInv, TypeOK
  <2>3. Address(selector)' + k >= FileSize[aft_filename']
    BY <1>1, <2>1, <2>2
  <2> QED
    BY <2>3 DEF CellGood
<1>3. CASE op'.kind = "read" /\ op'.base = BaseOf(selector) /\ moved' = 0
  BY <1>3 DEF CellGood
<1> QED
  BY <1>2, <1>3

(* A good buffer that the host is not loading stays good.                  *)
LEMMA KeptBuffer ==
  ASSUME op = NoOp, NEW selector, Good(selector),
         scratch' = scratch, aft_filename' = aft_filename,
         Address(selector)' = Address(selector)
  PROVE  Good(selector)'
  BY NoOpKind DEF Good, CellGood

(* The host moves a cell: into the buffer its READ is for, at the place    *)
(* that stands for the cell's place in the file.                           *)
LEMMA MoveCellInv ==
  ASSUME Inv, TypeInv', Opening', MoveCell
  PROVE  Inv'
<1>1. /\ op.kind = "read" /\ moved < op.len
      /\ scratch' = [scratch EXCEPT ![op.base + moved] = CellAt(host_file, op.offset + moved)]
      /\ moved' = moved + 1
      /\ UNCHANGED <<hostLeaves, readq, openq, op, done, err, host_file>>
  BY DEF MoveCell
<1>2. op # NoOp
  BY <1>1, NoOpKind
<1>3. pc # "opening" =>
        /\ pc # "load1" /\ host_file = aft_filename
        /\ op.base = 0 => op.offset = sector_buffer0_address
        /\ op.base = BufSize => op.offset = sector_buffer1_address
  BY <1>1 DEF Inv, Transfer, OpenFile
<1>4. /\ op.base \in {0, BufSize} /\ op.offset \in Nat /\ op.len \in 0..BufSize
      /\ moved \in 0..BufSize /\ scratch \in [Addresses -> Cell]
  BY DEF Inv, TypeInv, TypeOK, Command
<1>5. ASSUME NEW selector \in {0, 1}, Good(selector), pc # "opening"
      PROVE  Good(selector)'
  <2> SUFFICES ASSUME NEW k \in 0..BufSize-1 PROVE CellGood(selector, k)'
    BY DEF Good
  <2>1. CellGood(selector, k)
    BY <1>5 DEF Good
  <2>2. BaseOf(selector) + k \in Addresses /\ BaseOf(selector) \in {0, BufSize}
    BY DEF BaseOf, Addresses
  <2>3. CASE op.base = BaseOf(selector) /\ k = moved
    <3>1. op.offset = Address(selector) /\ host_file = aft_filename
      BY <1>3, <1>5, <2>3 DEF Address, BaseOf
    <3>2. scratch'[BaseOf(selector) + k] = CellAt(host_file, Address(selector) + k)
      BY <1>1, <1>4, <2>2, <2>3, <3>1
    <3> QED
      BY <1>1, <3>1, <3>2 DEF CellGood, Address, CellAt, Blank
  <2>4. CASE ~(op.base = BaseOf(selector) /\ k = moved)
    <3>1. BaseOf(selector) + k # op.base + moved
      BY <1>1, <1>4, <2>2, <2>4
    <3>2. scratch'[BaseOf(selector) + k] = scratch[BaseOf(selector) + k]
      BY <1>1, <1>4, <2>2, <3>1
    <3>3. op.base = BaseOf(selector) /\ k >= moved => k >= moved'
      BY <1>1, <1>4, <2>4
    <3> QED
      BY <1>1, <2>1, <3>2, <3>3 DEF CellGood, Address, CellAt, Blank
  <2> QED
    BY <2>3, <2>4
<1>6. Buffers'
  BY <1>1, <1>5 DEF Inv, Buffers, Serving, BufferEnd0, BufferEnd1
<1>7. OneCommand' /\ OpenFile'
  BY <1>1, <1>2, <1>3 DEF Inv, OneCommand, OpenFile
<1>8. Transfer'
  BY <1>1, <1>4 DEF Inv, Transfer, LoadSize, SlotSize
<1>9. Decision' /\ Delivery'
  BY <1>1, <1>2 DEF Inv, Decision, Delivery, Address, cache_buffer_0, cache_buffer_1,
     cache_buffer_0_swap, cache_buffer_1_swap, BufferEnd0, BufferEnd1, From, Until
<1>10. Right'
  BY <1>1 DEF Inv, Right, CellAt, Blank
<1> QED
  BY <1>6, <1>7, <1>8, <1>9, <1>10 DEF Inv

(* The host finishes a READ: the cells beyond it lie beyond the file.      *)
LEMMA ReadFinishedInv ==
  ASSUME Inv, TypeInv', Opening', ReadFinished
  PROVE  Inv'
<1>1. /\ op.kind = "read" /\ moved = op.len
      /\ op' = NoOp /\ err' = 0
      /\ UNCHANGED <<hostLeaves, scratch, readq, openq, moved, host_file>>
  BY DEF ReadFinished, Finish
<1>2. pc # "opening" =>
        /\ pc # "load1" /\ host_file = aft_filename
        /\ op.base = 0 => op.offset = sector_buffer0_address
        /\ op.base = BufSize => op.offset = sector_buffer1_address
        /\ op.len = LoadSize(op.offset)
  BY <1>1 DEF Inv, Transfer, OpenFile
<1>3. /\ op.offset \in Nat /\ moved \in 0..BufSize
      /\ SlotSize = FileSize[host_file] /\ SlotSize \in Nat
  BY LoadSizeType DEF Inv, TypeInv, TypeOK, Command
<1>4. ASSUME NEW selector \in {0, 1}, Good(selector), pc # "opening"
      PROVE  Good(selector)'
  <2> SUFFICES ASSUME NEW k \in 0..BufSize-1 PROVE CellGood(selector, k)'
    BY DEF Good
  <2>1. CellGood(selector, k)
    BY <1>4 DEF Good
  <2>2. CASE op.base = BaseOf(selector) /\ k >= moved
    <3>1. op.offset = Address(selector) /\ host_file = aft_filename
      BY <1>2, <1>4, <2>2 DEF Address, BaseOf
    <3>2. op.offset + k >= SlotSize
      BY <1>1, <1>2, <1>3, <1>4, <2>2 DEF LoadSize
    <3> QED
      BY <1>1, <1>3, <3>1, <3>2 DEF CellGood, Address
  <2>3. CASE ~(op.base = BaseOf(selector) /\ k >= moved)
    BY <1>1, <2>1, <2>3 DEF CellGood, Address, CellAt, Blank
  <2> QED
    BY <2>2, <2>3
<1>5. Buffers'
  BY <1>1, <1>4 DEF Inv, Buffers, Serving, BufferEnd0, BufferEnd1
<1>6. OneCommand' /\ OpenFile' /\ Transfer'
  BY <1>1, <1>2, NoOpKind DEF Inv, OneCommand, OpenFile, Transfer
<1>7. Decision' /\ Delivery'
  BY <1>1 DEF Inv, Decision, Delivery, Address, cache_buffer_0, cache_buffer_1,
     cache_buffer_0_swap, cache_buffer_1_swap, BufferEnd0, BufferEnd1, From, Until
<1>8. Right'
  BY <1>1 DEF Inv, Right, CellAt, Blank
<1> QED
  BY <1>5, <1>6, <1>7, <1>8 DEF Inv

(* The host ends an OPEN: the one waited for, or one taken for done before. *)
LEMMA OpenFinishedInv ==
  ASSUME Inv, TypeInv', Opening', OpenFinished, lost' = lost
  PROVE  lost \/ Inv'
<1> SUFFICES ASSUME ~lost PROVE Inv'
  OBVIOUS
<1>1. op.kind = "open" /\ pc \in {"opening", "load"} /\ want.file = aft_filename /\ Named
  BY DEF OpenFinished, Inv, OpenFile
<1>2. PICK f \in Files \ Missing : scratch[0] = NameOf(f) /\ host_file' = f /\ Finish(0)
  BY DEF OpenFinished
<1>3. f = want.file
  BY <1>1, <1>2 DEF NameOf, Named
<1>4. /\ op' = NoOp /\ err' = 0 /\ host_file' = want.file
      /\ UNCHANGED <<hostLeaves, scratch, readq, openq, moved>>
  BY <1>2, <1>3 DEF Finish
<1>5. OneCommand' /\ OpenFile' /\ Transfer'
  BY <1>1, <1>4, NoOpKind DEF Inv, OneCommand, OpenFile, Transfer
<1>6. Buffers' /\ Decision' /\ Delivery'
  BY <1>1, <1>4 DEF Buffers, Decision, Delivery, Serving
<1>7. Right'
  BY <1>4 DEF Inv, Right, CellAt, Blank
<1> QED
  BY <1>5, <1>6, <1>7 DEF Inv

(* The executor takes the OPEN that waited for a READ.                     *)
LEMMA StartQueuedInv ==
  ASSUME Inv, TypeInv', Opening', StartQueued
  PROVE  Inv'
<1>1. /\ op = NoOp /\ openq /\ ~readq /\ pc = "opening"
      /\ Take /\ UNCHANGED <<hostLeaves, scratch, hostVars>>
  BY DEF StartQueued, Inv, OneCommand
<1>2. op' = OpenOp /\ ~readq' /\ ~openq' /\ err' = err
  BY <1>1 DEF Take, Current, readLeft, openLeft
<1>3. op'.kind = "open"
  BY <1>2 DEF OpenOp
<1>4. OneCommand' /\ OpenFile' /\ Transfer'
  BY <1>1, <1>2, <1>3 DEF Inv, Opening, OneCommand, OpenFile, Transfer, Named, NameOf
<1>5. Buffers' /\ Decision' /\ Delivery'
  BY <1>1 DEF Buffers, Decision, Delivery, Serving
<1>6. Right'
  BY <1>1 DEF Inv, Right, CellAt, Blank
<1> QED
  BY <1>4, <1>5, <1>6 DEF Inv

LEMMA HostInv ==
  ASSUME Inv, TypeInv', Opening', Host, ~lost'
  PROVE  Inv'
<1>1. CASE OpenFinished
  <2>1. lost' = lost
    BY <1>1 DEF OpenFinished
  <2> QED
    BY <1>1, <2>1, OpenFinishedInv
<1>2. ~ReadFails
  BY DEF ReadFails
<1> QED
  BY <1>1, <1>2, StartQueuedInv, MoveCellInv, ReadFinishedInv DEF Host

(* Steps that leave the buffers, their addresses, the executor and the     *)
(* open file alone.                                                        *)
LEMMA SameBuffers ==
  ASSUME UNCHANGED <<aft_filename, sector_buffer0_address, sector_buffer1_address,
                     scratch, op, moved>>,
         NEW selector, Good(selector)
  PROVE  Good(selector)'
  BY DEF Good, CellGood, Address, CellAt, Blank

LEMMA RequestInv ==
  ASSUME Inv, TypeInv', Opening',
         NEW f \in Files, NEW offset \in Offsets,
         NEW send \in BOOLEAN, Request(f, offset, send)
  PROVE  Inv'
<1>1. /\ pc = "idle" /\ pc' = "seek" /\ delivered' = <<>>
      /\ want' = [file |-> f, offset |-> offset, send |-> send]
      /\ UNCHANGED <<cacheVars, file_error_code, scratch, bridgeVars, host_file>>
  BY DEF Request
<1>2. OneCommand' /\ OpenFile' /\ Transfer'
  BY <1>1 DEF Inv, OneCommand, OpenFile, Transfer, LoadSize, SlotSize
<1>3. Buffers'
  BY <1>1, SameBuffers DEF Inv, Buffers, Serving, BufferEnd0, BufferEnd1
<1>4. Decision' /\ Delivery'
  BY <1>1 DEF Inv, Decision, Delivery
<1>5. Right'
  BY <1>1 DEF Right
<1> QED
  BY <1>2, <1>3, <1>4, <1>5 DEF Inv

(* A cell of the wanted place is in the buffer, or in the other one.       *)
LEMMA DeliverInv ==
  ASSUME Inv, TypeInv', Opening', Deliver
  PROVE  Inv'
<1> DEFINE n  == Len(delivered)
           k  == sector_buffer_offset + n
           at == BaseOf(sector_buffer_selector) + k
           p  == want.offset + n
<1>1. /\ pc = "deliver" /\ delivered' = Append(delivered, scratch[Wrap(at)])
      /\ pc' \in {"idle", "deliver"}
      /\ UNCHANGED <<want, cacheVars, file_error_code, scratch, bridgeVars, host_file>>
  <2>1. BaseOf(sector_buffer_selector) \in Nat
    BY DEF BaseOf
  <2>2. sector_buffer_offset \in Nat /\ n \in Nat
    BY DEF Inv, TypeInv, TypeOK
  <2>3. at = BaseOf(sector_buffer_selector) + sector_buffer_offset + n
    BY <2>1, <2>2
  <2> QED
    BY <2>3 DEF Deliver
<1>2. /\ n \in Nat /\ n < SectorSize /\ delivered \in Seq(Cell)
      /\ sector_buffer_offset \in 0..BufSize-1 /\ sector_buffer_selector \in {0, 1}
      /\ want.offset \in Nat /\ want.file = aft_filename
      /\ FileSize[aft_filename] \in Nat
      /\ Address(0) \in Nat /\ Address(1) \in Nat
  BY <1>1 DEF Inv, TypeInv, TypeOK, Shape, OpenFile, Wanted, Address
<1>3. /\ Good(0) /\ Good(1)
      /\ op.kind = "read" => op.base = BaseOf(Other(sector_buffer_selector))
  BY <1>1 DEF Inv, Buffers, Serving, Transfer
<1>4. /\ want.offset = Address(sector_buffer_selector) + sector_buffer_offset
      /\ \/ sector_buffer_offset + SectorSize < BufSize
         \/ /\ op = NoOp
            /\ Address(Other(sector_buffer_selector))
                 = Address(sector_buffer_selector) + BufSize
  BY <1>1 DEF Inv, Delivery
<1>5. ASSUME p < FileSize[want.file]
      PROVE  scratch[Wrap(at)] = CellAt(want.file, p)
  <2>1. CASE k < BufSize
    <3>1. CellGood(sector_buffer_selector, k)
      BY <1>2, <1>3, <2>1 DEF Good
    <3>2. Wrap(at) = BaseOf(sector_buffer_selector) + k
      BY <1>2, <2>1 DEF Wrap, BaseOf
    <3>3. ~(op.kind = "read" /\ op.base = BaseOf(sector_buffer_selector))
      BY <1>2, <1>3 DEF BaseOf, Other
    <3>4. Address(sector_buffer_selector) + k = p
      BY <1>2, <1>4
    <3> QED
      BY <1>2, <1>5, <3>1, <3>2, <3>3, <3>4 DEF CellGood
  <2>2. CASE k >= BufSize
    <3> DEFINE s == Other(sector_buffer_selector)
               j == k - BufSize
    <3>1. op = NoOp /\ Address(s) = Address(sector_buffer_selector) + BufSize
      BY <1>2, <1>4, <2>2
    <3>2. s \in {0, 1} /\ j \in 0..BufSize-1
      BY <1>2, <2>2 DEF Other
    <3>3. CellGood(s, j)
      BY <1>3, <3>2 DEF Good
    <3>4. Wrap(at) = BaseOf(s) + j
      <4>1. CASE sector_buffer_selector = 0
        BY <1>2, <2>2, <4>1 DEF Wrap, BaseOf, Other
      <4>2. CASE sector_buffer_selector = 1
        BY <1>2, <2>2, <4>2 DEF Wrap, BaseOf, Other
      <4> QED
        BY <1>2, <4>1, <4>2
    <3>5. Address(s) + j = p
      BY <1>2, <1>4, <3>1
    <3> HIDE DEF s, j
    <3> QED
      BY <1>2, <1>5, <3>1, <3>3, <3>4, <3>5, NoOpKind DEF CellGood
  <2> QED
    BY <1>2, <2>1, <2>2
<1>6. scratch[Wrap(at)] \in Cell
  <2>1. at \in 0..3*BufSize
    BY <1>2 DEF BaseOf
  <2>2. Wrap(at) \in Addresses
    BY <2>1 DEF Wrap, Addresses
  <2> QED
    BY <2>2 DEF Inv, TypeInv, TypeOK
<1>7. Right'
  <2> SUFFICES ASSUME NEW i \in DOMAIN delivered',
                      want.offset + i - 1 < FileSize[want.file]
               PROVE  delivered'[i] = CellAt(want.file, want.offset + i - 1)
    BY <1>1 DEF Right, CellAt, Blank
  <2>1. CASE i = n + 1
    BY <1>1, <1>2, <1>5, <1>6, <2>1
  <2>2. CASE i # n + 1
    BY <1>1, <1>2, <1>6, <2>2, SMTT(30) DEF Inv, Right
  <2> QED
    BY <2>1, <2>2
<1> HIDE DEF at
<1>8. OneCommand' /\ OpenFile' /\ Transfer'
  BY <1>1 DEF Inv, OneCommand, OpenFile, Transfer, LoadSize, SlotSize, NameOf
<1>9. Buffers'
  BY <1>1, SameBuffers DEF Inv, Buffers, Serving, BufferEnd0, BufferEnd1
<1>10. Decision' /\ Delivery'
  BY <1>1 DEF Inv, Buffers, Serving, Decision, Delivery, Address
<1> QED
  BY <1>7, <1>8, <1>9, <1>10 DEF Inv

(* Nothing is delivered during a seek.                                     *)
LEMMA SeekRight ==
  ASSUME TypeInv, pc \notin {"idle", "deliver"}, delivered' = delivered
  PROVE  Right'
  BY DEF TypeInv, Shape, Right

LEMMA SeekOtherFileInv ==
  ASSUME Inv, TypeInv', Opening', SeekOtherFile
  PROVE  Inv'
<1>1. /\ pc = "seek" /\ want.file # aft_filename /\ pc' = "opening"
      /\ scratch' = [scratch EXCEPT ![0] = NameOf(want.file)]
      /\ aft_filename' = want.file /\ IssueOpen
      /\ UNCHANGED <<want, delivered>>
  BY DEF SeekOtherFile
<1>2. ~readq' /\ err' = 0 /\ (op' = op \/ op' = OpenOp)
  BY <1>1 DEF Inv, OneCommand, IssueOpen, Current, readLeft
<1>3. scratch'[0] = NameOf(want.file)
  BY <1>1 DEF Inv, TypeInv, TypeOK, Addresses
<1>4. OneCommand' /\ OpenFile' /\ Transfer'
  BY <1>1, <1>2, <1>3 DEF OneCommand, OpenFile, Transfer, Named, NameOf
<1>5. Buffers' /\ Decision' /\ Delivery'
  BY <1>1 DEF Buffers, Decision, Delivery, Serving
<1> QED
  BY <1>1, <1>4, <1>5, SeekRight DEF Inv

(* The OPEN is done and its file is open, or a READ before it is done, and *)
(* the OPEN is taken.  With nothing before it, what was lost is made good. *)
LEMMA OpenDoneInv ==
  ASSUME TypeInv, Opening, lost \/ Inv, TypeInv', Opening', OpenDone, ~lost'
  PROVE  Inv'
<1>1. /\ pc = "opening" /\ pc' = "load" /\ op = NoOp /\ err = 0 /\ err' = 0
      /\ want.file = aft_filename /\ Named
      /\ UNCHANGED <<want, delivered, aft_filename, scratch, regs, host_file>>
      /\ Take /\ lost' = (lost /\ Current # NoOp)
  BY DEF OpenDone, Opening, Take
<1>2. Named'
  BY <1>1 DEF Named, NameOf
<1>3. CASE Current = NoOp
  <2>1. ~readq /\ ~openq /\ op' = NoOp /\ ~readq' /\ ~openq'
    <3>1. ReadOp(regs) # NoOp /\ OpenOp # NoOp
      BY DEF ReadOp, OpenOp, NoOp
    <3>2. ~readq /\ ~openq
      BY <1>1, <1>3, <3>1 DEF Current
    <3> QED
      BY <1>1, <1>3, <3>2 DEF Take, readLeft, openLeft
  <2>2. host_file = want.file
    BY <1>1, <2>1 DEF Opening
  <2> QED
    BY <1>1, <2>1, <2>2, NoOpKind, SeekRight DEF Inv, OneCommand, OpenFile, Transfer,
       Buffers, Decision, Delivery, Serving
<1>4. CASE Current # NoOp
  <2>1. Inv
    BY <1>1, <1>4
  <2>2. ~readq /\ openq
    BY <1>1, <1>4, <2>1 DEF Inv, OneCommand, Current
  <2>3. op' = OpenOp /\ ~readq' /\ ~openq'
    BY <1>1, <2>2 DEF Take, Current, readLeft, openLeft
  <2>4. op'.kind = "open"
    BY <2>3 DEF OpenOp
  <2> QED
    BY <1>1, <1>2, <2>3, <2>4, SeekRight DEF Inv, OneCommand, OpenFile, Transfer,
       Buffers, Decision, Delivery, Serving
<1> QED
  BY <1>3, <1>4

(* The decision: a buffer that holds the sector, two that hold its parts   *)
(* and are both loaded, or a load.                                         *)
LEMMA SeekSameFileInv ==
  ASSUME Inv, TypeInv', Opening', SeekSameFile
  PROVE  Inv'
<1>1. /\ pc = "seek" /\ want.file = aft_filename
      /\ pc' = IF Uses0 THEN "use0" ELSE IF Uses1 THEN "use1" ELSE "load"
      /\ UNCHANGED <<want, delivered, aft_filename, sector_buffer0_address,
                     sector_buffer1_address, sector_buffer_selector,
                     sector_buffer_offset, cache_enabled, scratch, bridgeVars, host_file>>
  BY DEF SeekSameFile
<1>2. /\ sector_buffer0_address \in Nat /\ sector_buffer1_address \in Nat
      /\ want.offset \in Nat /\ sector_buffer_selector \in {0, 1}
      /\ sector_buffer_processing \in BOOLEAN
  BY DEF Inv, TypeInv, TypeOK, Wanted
<1>3. ~cache_enabled => pc' = "load"
  <2> SUFFICES ASSUME ~cache_enabled PROVE ~Uses0 /\ ~Uses1
    BY <1>1
  <2>1. sector_buffer0_address = 0 /\ sector_buffer1_address = 0
    BY <1>1 DEF Inv, Buffers, Serving
  <2>2. ~cache_buffer_0_swap /\ ~cache_buffer_1_swap
    BY <1>2, <2>1 DEF cache_buffer_0_swap, cache_buffer_1_swap, From
  <2> QED
    BY <2>2 DEF Uses0, Uses1, cache_buffer_0, cache_buffer_1
<1>4. OneCommand' /\ OpenFile' /\ Transfer'
  BY <1>1 DEF Inv, OneCommand, OpenFile, Transfer, LoadSize, SlotSize, NameOf
<1>5. Buffers'
  BY <1>1, <1>3, SameBuffers DEF Inv, Buffers, Serving, BufferEnd0, BufferEnd1
<1>6. Decision'
  <2>1. /\ cache_buffer_0' = cache_buffer_0 /\ cache_buffer_1' = cache_buffer_1
        /\ cache_buffer_0_swap' = cache_buffer_0_swap
        /\ cache_buffer_1_swap' = cache_buffer_1_swap
    BY <1>1 DEF cache_buffer_0, cache_buffer_1, cache_buffer_0_swap,
       cache_buffer_1_swap, From, Until, BufferEnd0, BufferEnd1
  <2>2. /\ cache_buffer_0_swap => ~cache_buffer_1
        /\ cache_buffer_1_swap => ~cache_buffer_0
    BY <1>2 DEF cache_buffer_0, cache_buffer_1, cache_buffer_0_swap,
       cache_buffer_1_swap, From
  <2>3. cache_buffer_0_swap \/ cache_buffer_1_swap => sector_buffer_processing
    BY <1>1, <1>2, <1>3 DEF Inv, Decision, Uses0, Uses1
  <2>4. Straddles => op = NoOp
    BY DEF SeekSameFile, Inv, Opening
  <2>5. CASE Uses0
    <3>1. pc' = "use0"
      BY <1>1, <2>5
    <3>2. CASE cache_buffer_0
      <4>1. sector_buffer_processing' => sector_buffer_selector # 1
        BY <3>2 DEF SeekSameFile
      <4> QED
        BY <1>1, <1>2, <2>1, <3>1, <3>2, <4>1 DEF Decision
    <3>3. CASE ~cache_buffer_0
      <4>1. cache_buffer_0_swap /\ ~cache_buffer_1 /\ Straddles
        BY <2>2, <2>5, <3>3 DEF Uses0, Straddles
      <4>2. sector_buffer_processing'
        BY <2>3, <3>3, <4>1 DEF SeekSameFile
      <4> QED
        BY <1>1, <2>1, <2>4, <3>1, <4>1, <4>2 DEF Decision
    <3> QED
      BY <3>2, <3>3
  <2>6. CASE ~Uses0 /\ Uses1
    <3>1. pc' = "use1"
      BY <1>1, <2>6
    <3>2. CASE cache_buffer_1
      <4>1. sector_buffer_processing' => sector_buffer_selector # 0
        BY <3>2 DEF SeekSameFile
      <4> QED
        BY <1>1, <1>2, <2>1, <3>1, <3>2, <4>1 DEF Decision
    <3>3. CASE ~cache_buffer_1
      <4>1. cache_buffer_1_swap /\ ~cache_buffer_0 /\ Straddles
        BY <2>2, <2>6, <3>3 DEF Uses1, Straddles
      <4>2. sector_buffer_processing'
        BY <2>3, <3>3, <4>1 DEF SeekSameFile
      <4> QED
        BY <1>1, <2>1, <2>4, <3>1, <4>1, <4>2 DEF Decision
    <3> QED
      BY <3>2, <3>3
  <2>7. CASE ~Uses0 /\ ~Uses1
    BY <1>1, <2>7 DEF Decision
  <2> QED
    BY <2>5, <2>6, <2>7
<1>7. Delivery'
  BY <1>1 DEF Delivery
<1> QED
  BY <1>1, <1>4, <1>5, <1>6, <1>7, SeekRight DEF Inv

LEMMA LoadFirstInv ==
  ASSUME Inv, TypeInv', Opening', LoadFirst
  PROVE  Inv'
<1>1. /\ pc = "load" /\ op = NoOp /\ want.file = aft_filename /\ host_file = aft_filename
      /\ sector_buffer0_address' = want.offset
      /\ sector_buffer_selector' = 0 /\ sector_buffer_offset' = 0
      /\ StartLoad(0, want.offset)
      /\ pc' = IF LoadSize(want.offset) > 0 THEN "acking" ELSE "load1"
      /\ UNCHANGED <<want, delivered, aft_filename, scratch, host_file>>
  BY NoOpKind DEF LoadFirst, Inv, Opening, OpenFile
<1>2. want.offset \in Nat /\ 0 \in {0, BufSize}
  BY DEF Inv, TypeInv, TypeOK, Wanted
<1>3. /\ err' = 0 /\ ~readq' /\ ~openq'
      /\ \/ /\ LoadSize(want.offset) = 0 /\ op' = NoOp
         \/ /\ LoadSize(want.offset) > 0 /\ ~done' /\ moved' = 0
            /\ op'.kind = "read" /\ op'.base = 0 /\ op'.offset = want.offset
            /\ op'.len = LoadSize(want.offset)
  BY <1>1, <1>2, StartLoadEffect DEF Inv
<1>4. OneCommand' /\ OpenFile'
  BY <1>1, <1>3, NoOpKind DEF Inv, OneCommand, OpenFile
<1>5. Transfer'
  <2>1. LoadSize(want.offset)' = LoadSize(want.offset)
    BY <1>1 DEF LoadSize, SlotSize
  <2>2. LoadSize(want.offset) \in Nat
    <3>1. host_file \in Files
      BY DEF Inv, TypeInv, TypeOK
    <3>2. LoadSize(want.offset) \in 0..BufSize
      BY <1>2, <3>1, LoadSizeType
    <3> QED
      BY <3>2
  <2>3. CASE op' = NoOp
    BY <2>3, NoOpKind DEF Transfer
  <2>4. CASE op'.kind = "read" /\ LoadSize(want.offset) > 0
    <3>1. pc' = "acking" /\ op'.base # BufSize
      BY <1>1, <1>3, <2>4, NoOpKind
    <3>2. moved' = 0 /\ op'.base = 0 /\ op'.offset = want.offset
          /\ op'.len = LoadSize(want.offset)
      BY <1>3, <2>4
    <3>3. op'.len = LoadSize(op.offset)'
      BY <1>1, <3>2 DEF LoadSize, SlotSize
    <3>4. moved' <= op'.len
      BY <2>2, <3>2
    <3> QED
      BY <1>1, <3>1, <3>2, <3>3, <3>4 DEF Transfer
  <2> QED
    BY <1>3, <2>3, <2>4
<1>6. Good(0)'
  BY <1>1, <1>3, FreshBuffer DEF Inv, Address, BaseOf
<1>7. Buffers' /\ Decision' /\ Delivery'
  BY <1>1, <1>6 DEF Buffers, Decision, Delivery, Serving
<1> QED
  BY <1>1, <1>4, <1>5, <1>7, SeekRight DEF Inv

LEMMA AcknowledgedInv ==
  ASSUME Inv, TypeInv', Opening', Acknowledged \/ FirstLoaded
  PROVE  Inv'
<1>1. /\ \/ pc = "acking" /\ pc' = "loading"
         \/ pc = "loading" /\ pc' = "load1" /\ op = NoOp
      /\ UNCHANGED <<want, delivered, cacheVars, file_error_code, scratch,
                     bridgeVars, host_file>>
  BY DEF Acknowledged, FirstLoaded, Inv, Opening, OneCommand
<1>2. OneCommand' /\ OpenFile' /\ Transfer'
  BY <1>1, NoOpKind DEF Inv, OneCommand, OpenFile, Transfer, LoadSize, SlotSize
<1>3. Buffers' /\ Decision' /\ Delivery'
  BY <1>1, SameBuffers DEF Inv, Buffers, Decision, Delivery, Serving
<1> QED
  BY <1>1, <1>2, <1>3, SeekRight DEF Inv

(* The other buffer is reloaded while buffer s is served.                  *)
LEMMA Refill ==
  ASSUME Inv, TypeInv', Opening', op = NoOp, host_file = aft_filename,
         pc # "opening", NEW s \in {0, 1}, NEW offset \in Nat, Good(s),
         StartLoad(BaseOf(Other(s)), offset),
         Address(Other(s))' = offset, Address(s)' = Address(s),
         sector_buffer_selector' = s, pc' \in {"idle", "deliver"},
         UNCHANGED <<aft_filename, host_file, scratch>>
  PROVE  /\ OneCommand' /\ Transfer' /\ op'.kind # "open"
         /\ Good(0)' /\ Good(1)'
<1> DEFINE base == BaseOf(Other(s))
<1>1. base \in {0, BufSize} /\ Other(s) \in {0, 1} /\ Other(s) # s
  BY DEF BaseOf, Other
<1>2. /\ err' = 0 /\ ~readq' /\ ~openq'
      /\ \/ /\ LoadSize(offset) = 0 /\ op' = NoOp
         \/ /\ LoadSize(offset) > 0 /\ ~done' /\ moved' = 0
            /\ op'.kind = "read" /\ op'.base = base /\ op'.offset = offset
            /\ op'.len = LoadSize(offset)
  BY <1>1, StartLoadEffect DEF Inv
<1>3. Good(s)'
  <2> SUFFICES ASSUME NEW k \in 0..BufSize-1 PROVE CellGood(s, k)'
    BY DEF Good
  <2>1. CellGood(s, k)
    BY DEF Good
  <2> QED
    BY <2>1, NoOpKind DEF CellGood, Address, CellAt, Blank
<1>4. Good(Other(s))'
  BY <1>1, <1>2, FreshBuffer DEF Inv
<1>5. Good(0)' /\ Good(1)'
  BY <1>3, <1>4 DEF Other
<1>6. OneCommand'
  BY <1>2 DEF OneCommand
<1>7. Transfer'
  <2>1. CASE op' = NoOp
    BY <2>1, NoOpKind DEF Transfer
  <2>2. CASE op' # NoOp
    <3>1. /\ LoadSize(offset) > 0 /\ moved' = 0 /\ op'.base = base
          /\ op'.offset = offset /\ op'.len = LoadSize(offset)
      BY <1>2, <2>2
    <3>2. LoadSize(offset) \in 0..BufSize
      <4>1. host_file \in Files
        BY DEF Inv, TypeInv, TypeOK
      <4> QED
        BY <4>1, LoadSizeType
    <3>3. op'.len = LoadSize(op.offset)' /\ moved' <= op'.len
      BY <3>1, <3>2 DEF LoadSize, SlotSize
    <3>4. /\ op'.base = 0 => op'.offset = sector_buffer0_address'
          /\ op'.base = BufSize => op'.offset = sector_buffer1_address'
      BY <1>1, <3>1 DEF BaseOf, Address
    <3> QED
      BY <3>1, <3>3, <3>4 DEF Transfer, BaseOf, Other
  <2> QED
    BY <2>1, <2>2
<1>8. op'.kind # "open"
  BY <1>2, NoOpKind
<1> QED
  BY <1>5, <1>6, <1>7, <1>8

LEMMA LoadSecondInv ==
  ASSUME Inv, TypeInv', Opening', LongFiles, LoadSecond
  PROVE  Inv'
<1>1. /\ pc = "load1" /\ op = NoOp /\ want.file = aft_filename /\ host_file = aft_filename
      /\ Good(0) /\ sector_buffer0_address = want.offset
      /\ sector_buffer_selector = 0 /\ sector_buffer_offset = 0
  BY DEF LoadSecond, Inv, OneCommand, OpenFile, Buffers
<1>2. SlotSize > BufSize
  BY LoadSizeType DEF Inv, TypeInv, TypeOK, LongFiles
<1>3. /\ sector_buffer1_address' = want.offset + BufSize
      /\ StartLoad(BufSize, want.offset + BufSize)
      /\ cache_enabled' = TRUE /\ sector_buffer_processing' = TRUE
      /\ pc' \in {"idle", "deliver"}
      /\ UNCHANGED <<want, delivered, aft_filename, sector_buffer0_address,
                     sector_buffer_selector, sector_buffer_offset, scratch, host_file>>
  BY <1>2 DEF LoadSecond, SeekEnd
<1>4. want.offset \in Nat /\ want.offset + BufSize \in Nat
  BY SMTT(30) DEF Inv, TypeInv, TypeOK, Wanted
<1>5. /\ BaseOf(Other(0)) = BufSize
      /\ Address(Other(0))' = want.offset + BufSize /\ Address(0)' = Address(0)
  BY <1>3 DEF BaseOf, Other, Address
<1>6. /\ OneCommand' /\ Transfer' /\ op'.kind # "open"
      /\ Good(0)' /\ Good(1)'
  BY <1>1, <1>3, <1>4, <1>5, Refill
<1>7. OpenFile'
  BY <1>1, <1>3, <1>6 DEF OpenFile
<1>8. Buffers' /\ Decision'
  BY <1>1, <1>3, <1>6 DEF Buffers, Serving, Decision, BufferEnd0, BufferEnd1
<1>9. Delivery'
  <2>1. want.offset = Address(0)' + 0 /\ 0 + SectorSize < BufSize
    BY <1>1, <1>4, <1>5 DEF Address
  <2> QED
    BY <1>1, <1>3, <2>1 DEF Delivery
<1> QED
  BY <1>1, <1>3, <1>6, <1>7, <1>8, <1>9, SeekRight DEF Inv

LEMMA Use0Inv ==
  ASSUME Inv, TypeInv', Opening', Use0
  PROVE  Inv'
<1>1. /\ pc = "use0" /\ want.file = aft_filename /\ host_file = aft_filename
      /\ cache_enabled /\ Good(0) /\ Good(1)
      /\ sector_buffer_selector' = 0
      /\ sector_buffer_offset' = want.offset - sector_buffer0_address
      /\ sector_buffer_processing' = TRUE /\ pc' \in {"idle", "deliver"}
      /\ UNCHANGED <<want, delivered, aft_filename, sector_buffer0_address,
                     cache_enabled, scratch, host_file>>
  BY DEF Use0, SeekEnd, Inv, OpenFile, Buffers, Serving
<1>2. /\ want.offset \in Nat /\ sector_buffer0_address \in Nat
      /\ sector_buffer1_address \in Nat
      /\ sector_buffer_processing \in BOOLEAN
  BY DEF Inv, TypeInv, TypeOK, Wanted
<1>3. want.offset = Address(0)' + sector_buffer_offset'
  BY <1>1, <1>2 DEF Address
<1>4. cache_buffer_0 => sector_buffer_offset' + SectorSize < BufSize
  BY <1>1, <1>2 DEF cache_buffer_0, Until, BufferEnd0
<1>5. CASE ~sector_buffer_processing
  <2>1. /\ op = NoOp /\ cache_buffer_0 /\ sector_buffer1_address' = BufferEnd0
        /\ StartLoad(BufSize, BufferEnd0)
    BY <1>1, <1>5 DEF Use0, Inv, Opening, Decision
  <2>2. /\ BaseOf(Other(0)) = BufSize /\ BufferEnd0 \in Nat
        /\ Address(Other(0))' = BufferEnd0 /\ Address(0)' = Address(0)
    BY <1>1, <1>2, <2>1 DEF BaseOf, Other, Address, BufferEnd0
  <2>3. /\ OneCommand' /\ Transfer' /\ op'.kind # "open"
        /\ Good(0)' /\ Good(1)'
    BY <1>1, <2>1, <2>2, Refill
  <2>4. OpenFile' /\ Decision'
    BY <1>1, <2>3 DEF OpenFile, Decision
  <2>5. Buffers'
    BY <1>1, <2>1, <2>3 DEF Buffers, Serving, BufferEnd0, BufferEnd1
  <2>6. Delivery'
    BY <1>1, <1>3, <1>4, <2>1 DEF Delivery
  <2> QED
    BY <1>1, <2>3, <2>4, <2>5, <2>6, SeekRight DEF Inv
<1>6. CASE sector_buffer_processing
  <2>1. UNCHANGED <<sector_buffer1_address, bridgeVars>>
    BY <1>6 DEF Use0
  <2>2. \/ cache_buffer_0 /\ sector_buffer_selector = 0
        \/ cache_buffer_0_swap /\ op = NoOp
    BY <1>1, <1>6 DEF Inv, Decision
  <2>3. OneCommand' /\ OpenFile' /\ Decision'
    BY <1>1, <2>1 DEF Inv, OneCommand, OpenFile, Decision
  <2>4. Transfer'
    BY <1>1, <2>1, <2>2, NoOpKind DEF Inv, Transfer, LoadSize, SlotSize
  <2>5. Buffers'
    BY <1>1, <2>1, SameBuffers DEF Inv, Buffers, Serving, BufferEnd0, BufferEnd1
  <2>6. Delivery'
    <3>1. cache_buffer_0_swap => Address(1)' = Address(0)' + BufSize
      BY <1>1, <2>1 DEF cache_buffer_0_swap, BufferEnd0, Address
    <3> QED
      BY <1>1, <1>3, <1>4, <2>1, <2>2, <3>1 DEF Delivery, Other, Address
  <2> QED
    BY <1>1, <2>3, <2>4, <2>5, <2>6, SeekRight DEF Inv
<1> QED
  BY <1>2, <1>5, <1>6

LEMMA Use1Inv ==
  ASSUME Inv, TypeInv', Opening', Use1
  PROVE  Inv'
<1>1. /\ pc = "use1" /\ want.file = aft_filename /\ host_file = aft_filename
      /\ cache_enabled /\ Good(0) /\ Good(1)
      /\ sector_buffer_selector' = 1
      /\ sector_buffer_offset' = want.offset - sector_buffer1_address
      /\ sector_buffer_processing' = TRUE /\ pc' \in {"idle", "deliver"}
      /\ UNCHANGED <<want, delivered, aft_filename, sector_buffer1_address,
                     cache_enabled, scratch, host_file>>
  BY DEF Use1, SeekEnd, Inv, OpenFile, Buffers, Serving
<1>2. /\ want.offset \in Nat /\ sector_buffer1_address \in Nat
      /\ sector_buffer0_address \in Nat
      /\ sector_buffer_processing \in BOOLEAN
  BY DEF Inv, TypeInv, TypeOK, Wanted
<1>3. want.offset = Address(1)' + sector_buffer_offset'
  BY <1>1, <1>2 DEF Address
<1>4. cache_buffer_1 => sector_buffer_offset' + SectorSize < BufSize
  BY <1>1, <1>2 DEF cache_buffer_1, Until, BufferEnd1
<1>5. CASE ~sector_buffer_processing
  <2>1. /\ op = NoOp /\ cache_buffer_1 /\ sector_buffer0_address' = BufferEnd1
        /\ StartLoad(0, BufferEnd1)
    BY <1>1, <1>5 DEF Use1, Inv, Opening, Decision
  <2>2. /\ BaseOf(Other(1)) = 0 /\ BufferEnd1 \in Nat
        /\ Address(Other(1))' = BufferEnd1 /\ Address(1)' = Address(1)
    BY <1>1, <1>2, <2>1 DEF BaseOf, Other, Address, BufferEnd1
  <2>3. /\ OneCommand' /\ Transfer' /\ op'.kind # "open"
        /\ Good(0)' /\ Good(1)'
    BY <1>1, <2>1, <2>2, Refill
  <2>4. OpenFile' /\ Decision'
    BY <1>1, <2>3 DEF OpenFile, Decision
  <2>5. Buffers'
    BY <1>1, <2>1, <2>3 DEF Buffers, Serving, BufferEnd1, BufferEnd0
  <2>6. Delivery'
    BY <1>1, <1>3, <1>4, <2>1 DEF Delivery
  <2> QED
    BY <1>1, <2>3, <2>4, <2>5, <2>6, SeekRight DEF Inv
<1>6. CASE sector_buffer_processing
  <2>1. UNCHANGED <<sector_buffer0_address, bridgeVars>>
    BY <1>6 DEF Use1
  <2>2. \/ cache_buffer_1 /\ sector_buffer_selector = 1
        \/ cache_buffer_1_swap /\ op = NoOp
    BY <1>1, <1>6 DEF Inv, Decision
  <2>3. OneCommand' /\ OpenFile' /\ Decision'
    BY <1>1, <2>1 DEF Inv, OneCommand, OpenFile, Decision
  <2>4. Transfer'
    BY <1>1, <2>1, <2>2, NoOpKind DEF Inv, Transfer, LoadSize, SlotSize
  <2>5. Buffers'
    BY <1>1, <2>1, SameBuffers DEF Inv, Buffers, Serving, BufferEnd1, BufferEnd0
  <2>6. Delivery'
    <3>1. cache_buffer_1_swap => Address(0)' = Address(1)' + BufSize
      BY <1>1, <2>1 DEF cache_buffer_1_swap, BufferEnd1, Address
    <3> QED
      BY <1>1, <1>3, <1>4, <2>1, <2>2, <3>1 DEF Delivery, Other, Address
  <2> QED
    BY <1>1, <2>3, <2>4, <2>5, <2>6, SeekRight DEF Inv
<1> QED
  BY <1>2, <1>5, <1>6

LEMMA SeekInv == Inv /\ TypeInv' /\ Opening' /\ LongFiles /\ ~lost' /\ Seek => Inv'
<1> SUFFICES ASSUME Inv, TypeInv', Opening', LongFiles, ~lost', Seek PROVE Inv'
  OBVIOUS
<1>1. ~OpenError
  BY DEF OpenError, Inv, OneCommand
<1>2. CASE OpenDone
  BY <1>2, OpenDoneInv DEF Inv
<1> QED
  BY <1>1, <1>2, SeekOtherFileInv, SeekSameFileInv, LoadFirstInv,
     AcknowledgedInv, LoadSecondInv, Use0Inv, Use1Inv DEF Seek

LEMMA InitInv == Init => Inv
<1> SUFFICES ASSUME Init PROVE Inv
  OBVIOUS
<1>1. TypeInv
  BY InitTypeInv
<1>2. /\ pc = "idle" /\ delivered = <<>> /\ cache_enabled = FALSE
      /\ host_file = aft_filename /\ op = NoOp
  BY DEF Init
<1>3. Opening /\ OneCommand /\ OpenFile /\ Transfer
  BY <1>2, NoOpKind DEF Init, Opening, OneCommand, OpenFile, Transfer
<1>4. Buffers
  BY <1>2 DEF Init, Buffers, Serving
<1>5. Decision /\ Delivery /\ Right
  BY <1>2 DEF Decision, Delivery, Right
<1> QED
  BY <1>1, <1>3, <1>4, <1>5 DEF Inv

(* Only the end of an OPEN that was waited for makes good what was lost.   *)
LEMMA StepInv ==
  ASSUME LostInv, TypeInv', Opening', LongFiles, [Next]_vars
  PROVE  lost' \/ Inv'
<1> SUFFICES ASSUME ~lost' PROVE Inv'
  OBVIOUS
<1>1. CASE OpenDone
  BY <1>1, OpenDoneInv DEF LostInv
<1>2. CASE ~OpenDone
  <2>1. Inv
    <3>1. lost => lost'
      <4>1. CASE Host \/ UNCHANGED vars
        BY <4>1 DEF Host, StartQueued, MoveCell, ReadFinished, ReadFails, OpenFinished
      <4>2. CASE Seek
        BY <1>2, <4>2 DEF Seek, SeekOtherFile, OpenError, SeekSameFile, LoadFirst,
           Acknowledged, FirstLoaded, LoadSecond, Use0, Use1
      <4>3. CASE Deliver
        BY <4>3 DEF Deliver
      <4>4. ASSUME NEW f, NEW offset, NEW send, Request(f, offset, send)
            PROVE  lost => lost'
        BY <4>4 DEF Request
      <4> QED
        BY <4>1, <4>2, <4>3, <4>4 DEF Next, Firmware
    <3> QED
      BY <3>1 DEF LostInv
  <2>2. CASE Next
    BY <2>1, <2>2, HostInv, SeekInv, RequestInv, DeliverInv DEF Next, Firmware
  <2>3. CASE UNCHANGED vars
    <3>1. OneCommand' /\ OpenFile' /\ Transfer'
      BY <2>1, <2>3 DEF Inv, OneCommand, OpenFile, Transfer, LoadSize, SlotSize, Named, NameOf
    <3>2. Buffers'
      BY <2>1, <2>3, SameBuffers DEF Inv, Buffers, Serving, BufferEnd0, BufferEnd1
    <3>3. Decision' /\ Delivery'
      BY <2>1, <2>3 DEF Inv, Decision, Delivery, Address, cache_buffer_0, cache_buffer_1,
         cache_buffer_0_swap, cache_buffer_1_swap, BufferEnd0, BufferEnd1, From, Until
    <3>4. Right'
      BY <2>1, <2>3 DEF Inv, Right, CellAt, Blank
    <3> QED
      BY <3>1, <3>2, <3>3, <3>4 DEF Inv
  <2> QED
    BY <2>2, <2>3
<1> QED
  BY <1>1, <1>2

(* fileio.cpp: whatever the host does, with whatever files missing, and    *)
(* wherever the drive moves while the host still reads ahead, every cell   *)
(* delivered is the cell of the wanted file at the wanted place: whichever *)
(* buffer serves it, across the two buffers, and while the host loads the  *)
(* other one.  A command that fails suspends this until the firmware sees  *)
(* the next OPEN carried out, and no longer.                               *)
THEOREM DeliveryCorrect ==
  ASSUME LongFiles
  PROVE  Spec => []DeliveredRight
<1>1. LongFiles
  OBVIOUS
<1>2. Init => LostInv
  BY InitInv DEF Inv, LostInv
<1>3. LostInv /\ [Next]_vars => LostInv'
  <2> SUFFICES ASSUME LostInv, [Next]_vars PROVE LostInv'
    OBVIOUS
  <2>1. TypeInv'
    BY StepTypeInv DEF LostInv
  <2>2. Opening'
    BY OpeningInv DEF LostInv
  <2> QED
    BY <1>1, <2>1, <2>2, StepInv DEF LostInv
<1>4. LostInv => DeliveredRight
  BY DEF LostInv, Inv, DeliveredRight
<1> QED
  BY <1>2, <1>3, <1>4, PTL DEF Spec
=============================================================================
