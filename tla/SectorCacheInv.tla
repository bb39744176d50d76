--------------------------- MODULE SectorCacheInv ---------------------------
(***************************************************************************)
(* The inductive invariant behind SectorCache!DeliveredRight.              *)
(***************************************************************************)
EXTENDS SectorCache

Address(selector) ==
  IF selector = 0 THEN sector_buffer0_address ELSE sector_buffer1_address
Other(selector) == 1 - selector

(* Strengthens TypeOK to an inductive invariant.                           *)
Shape ==
  /\ pc \notin {"idle"} => want.file \in Files
  /\ pc \notin {"idle", "deliver"} => delivered = <<>>
  /\ pc = "deliver" => Len(delivered) < SectorSize
  /\ pc = "use0" => /\ sector_buffer0_address <= want.offset
                    /\ want.offset < BufferEnd0
  /\ pc = "use1" => /\ sector_buffer1_address <= want.offset
                    /\ want.offset < BufferEnd1

TypeInv == TypeOK /\ Shape

(* The name an OPEN under way is given, unless a READ has written over it. *)
Named == scratch[0] = NameOf(want.file) \/ scratch[0].pos # -1

(* What holds whatever has failed: the command that ends last while the    *)
(* firmware waits for its OPEN is that OPEN, and opened the wanted file if *)
(* it shows no error.                                                      *)
Opening ==
  /\ done => op = NoOp
  /\ pc = "opening" =>
       /\ want.file = aft_filename /\ Named
       /\ ~openq => /\ ~readq
                    /\ op.kind = "open" \/ op = NoOp
                    /\ op = NoOp /\ err = 0 => host_file = want.file

(* None failed, and only an OPEN waits for a command before it.            *)
OneCommand ==
  /\ err = 0 /\ ~readq
  /\ openq => pc = "opening"
  /\ pc = "load1" => op = NoOp

(* Which file is open, and when it is changed.  An OPEN is under way       *)
(* during the load only if the end of the READ before it was taken for     *)
(* its own.                                                                *)
OpenFile ==
  /\ pc \notin {"opening", "load"} => host_file = aft_filename
  /\ pc \notin {"idle", "seek"} => want.file = aft_filename
  /\ op.kind = "open" => pc \in {"opening", "load"} /\ Named
  /\ pc = "load" /\ op.kind # "open" => host_file = want.file

(* The transfer under way, if any, loads one buffer with what its address  *)
(* says, the one not in use once the first load is over.                   *)
Transfer ==
  op.kind = "read" /\ pc # "opening" =>
    /\ pc # "load1"
    /\ moved <= op.len /\ op.len = LoadSize(op.offset)
    /\ op.base = 0 => op.offset = sector_buffer0_address
    /\ op.base = BufSize => op.offset = sector_buffer1_address
    /\ IF pc \in {"acking", "loading"} THEN op.base = 0
       ELSE op.base = BaseOf(Other(sector_buffer_selector))

(* Cell k of a buffer that stands for an address.                          *)
CellGood(selector, k) ==
  LET p == Address(selector) + k
      c == BaseOf(selector) + k
  IN \/ p >= FileSize[aft_filename]
     \/ scratch[c] = CellAt(aft_filename, p)
     \/ op.kind = "read" /\ op.base = BaseOf(selector) /\ k >= moved

Good(selector) == \A k \in 0..BufSize-1 : CellGood(selector, k)

Serving == pc \in {"idle", "seek", "use0", "use1", "deliver"}

Buffers ==
  /\ cache_enabled /\ Serving => Good(0) /\ Good(1)
  /\ pc \in {"acking", "loading", "load1"} => Good(0)
  /\ cache_enabled /\ Serving =>
       \/ sector_buffer1_address = BufferEnd0
       \/ sector_buffer0_address = BufferEnd1
  /\ ~cache_enabled /\ Serving =>
       /\ pc \in {"idle", "seek"}
       /\ sector_buffer0_address = 0 /\ sector_buffer1_address = 0
  /\ pc \in {"acking", "loading", "load1"} =>
       /\ sector_buffer0_address = want.offset
       /\ sector_buffer_selector = 0 /\ sector_buffer_offset = 0

(* How the seek decided, and that the buffer not in use is loaded or being *)
(* loaded whenever no seek is deciding.                                    *)
Decision ==
  /\ cache_enabled /\ pc \in {"idle", "seek", "deliver"} => sector_buffer_processing
  /\ pc = "use0" =>
       \/ /\ cache_buffer_0
          /\ sector_buffer_processing => sector_buffer_selector = 0
       \/ cache_buffer_0_swap /\ op = NoOp /\ sector_buffer_processing
  /\ pc = "use1" =>
       \/ /\ cache_buffer_1
          /\ sector_buffer_processing => sector_buffer_selector = 1
       \/ cache_buffer_1_swap /\ op = NoOp /\ sector_buffer_processing

(* The cells to be delivered are loaded, and stay so.                      *)
Delivery ==
  pc = "deliver" =>
    /\ want.offset = Address(sector_buffer_selector) + sector_buffer_offset
    /\ \/ sector_buffer_offset + SectorSize < BufSize
       \/ /\ op = NoOp
          /\ Address(Other(sector_buffer_selector))
               = Address(sector_buffer_selector) + BufSize

(* While nothing is lost.                                                  *)
Inv == TypeInv /\ Opening /\ OneCommand /\ OpenFile /\ Transfer /\ Buffers
         /\ Decision /\ Delivery /\ Right

LostInv == TypeInv /\ Opening /\ (lost \/ Inv)
=============================================================================
