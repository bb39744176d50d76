--------------------------- MODULE MCPceCdSystem ----------------------------
(***************************************************************************)
(* A disc of three tracks and the commands that the console sends to it.   *)
(***************************************************************************)
EXTENDS PceCdSystemInv

FromZero(s) == [i \in 0..Len(s)-1 |-> s[i+1]]

(* Audio, data, audio; one-sector audio tracks, a data track of two.       *)
MCStart == FromZero(<<0, 1, 3>>)
MCEnd   == FromZero(<<1, 3, 4>>)
MCKind  == FromZero(<<"audio", "data", "audio">>)

(* Data, CD+G, with a gap between them that belongs to no track.           *)
GapStart == FromZero(<<0, 3>>)
GapEnd   == FromZero(<<2, 4>>)
GapKind  == FromZero(<<"data", "cdg">>)

(* One audio track of three sectors, 0, 1 and 2.                           *)
AudioStart == FromZero(<<0>>)
AudioEnd   == FromZero(<<3>>)
AudioKind  == FromZero(<<"audio">>)

Cmd(o, b, n, a) == [op |-> o, by |-> b, n |-> n, arg |-> a]

(* Every operation; reads inside the data track, one of them long enough   *)
(* to be taken for a stream (HuVideoBlocks) when it continues the last.    *)
SoundCommands ==
  {Cmd(o, "lba", 0, 0) :
     o \in {"TESTUNIT", "REQUESTSENSE", "GETDIRINFO", "PAUSE", "OTHER", "MODESELECT6"}}
    \cup {Cmd("MODESELECT6", "lba", 1, 0),
          Cmd("READ6", "lba", 1, 2), Cmd("READ6", "lba", 2, 1),
          Cmd("SAPSP", "lba", 1, LOOP), Cmd("SAPSP", "track", 3, SILENT),
          Cmd("SAPEP", "lba", 2, INTERRUPT), Cmd("SAPEP", "track", 9, 3)}

(* Reads that leave the data track or the disc, plays from nowhere, and    *)
(* commands on a disc with no or not all tracks.                           *)
AnyCommands ==
  {Cmd("TESTUNIT", "lba", 0, 0), Cmd("MODESELECT6", "lba", 1, 0),
   Cmd("READSUBQ", "lba", 0, 0),
   Cmd("READ6", "lba", 1, 1), Cmd("READ6", "lba", 1, 2), Cmd("READ6", "lba", 2, 3),
   Cmd("READ6", "lba", 4, 1),
   Cmd("SAPSP", "lba", 0, LOOP), Cmd("SAPSP", "track", 2, 3),
   Cmd("SAPEP", "track", 0, INTERRUPT)}

(* One command of each way in which the drive answers.                     *)
LiveCommands ==
  {Cmd("REQUESTSENSE", "lba", 0, 0), Cmd("MODESELECT6", "lba", 1, 0),
   Cmd("READ6", "lba", 1, 2),
   Cmd("SAPSP", "lba", 0, LOOP), Cmd("SAPEP", "lba", 1, INTERRUPT)}

PlayCommands == {Cmd("TESTUNIT", "lba", 0, 0), Cmd("SAPSP", "track", 1, 3)}
=============================================================================
