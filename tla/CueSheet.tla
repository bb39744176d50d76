------------------------------ MODULE CueSheet ------------------------------
(***************************************************************************)
(* LoadCUE of cue.cpp: one pass over the lines of a CUE sheet that fills   *)
(* the table of contents, with the reset and mount around it.  One action  *)
(* takes one line.  A line is a record; what sscanf and strstr would find  *)
(* in its text is in its fields, times are in sectors.                     *)
(*                                                                         *)
(* A disc is what its author put on it (track, for the properties) and the *)
(* lines that say so.  Integer division is that of the RISC-V CPU.         *)
(***************************************************************************)
EXTENDS Integers, Sequences, CueName

CONSTANTS
  Discs,      \* what may be in the slots: [lines, track]
  LostFiles,  \* files that the host does not have
  FileSize,   \* bytes of each file beside the sheet
  MaxLoads    \* bound: mounts in a run

ASSUME CueAssumption ==
  /\ \A d \in Discs : Len(d.lines) \in Nat /\ Len(d.track) \in Nat

VARIABLES
  disc, line,                  \* the disc and the next line of its sheet
  cue_pc,                      \* "reset", "parse", "mount", "done"
  toc, tracks,                 \* toc.last and toc.end; toc.tracks
  hdr, pregap, bb, File_processesd,   \* locals of LoadCUE
  aft,                         \* the data slot: name and size of the open file
  result, loaded,              \* what LoadCUE returned; cue.loaded
  file_error,                  \* file_error_code is "File Not Found"
  spilt,                       \* tracks[-1] was written: the flags before toc
  loads

locals == <<line, hdr, pregap, bb, File_processesd>>
table  == <<toc, tracks>>
drive  == <<result, loaded, spilt>>
cueVars == <<disc, locals, cue_pc, table, aft, drive, file_error, loads>>

Track == [name |-> Zeroed, opened |-> FALSE, size |-> 0, offset |-> 0,
          start |-> 0, end |-> 0, type |-> 0, sector_size |-> 0]

(* DIV of the CPU: towards zero, and -1 for a division by zero.            *)
Quotient(a, b) == IF b = 0 THEN -1 ELSE IF a >= 0 THEN a \div b ELSE -((-a) \div b)

(* Where tracks[i] ends when its file, or the rest of it, is its own.      *)
EndByFile(t) == t.start + Quotient(t.size - t.offset, t.sector_size)

SectorSize == [MODE2048 |-> 2048, MODE2352 |-> 2352, AUDIO |-> 2352, CDG |-> 2448]
TypeOf     == [MODE2048 |-> 1, MODE2352 |-> 1, AUDIO |-> 0, CDG |-> 2]

CueInit ==
  /\ disc \in Discs
  /\ cue_pc = "reset" /\ line = 0 /\ loads = 0
  /\ toc = [last |-> 0, end |-> 0] /\ tracks = [i \in Slots |-> Track]
  /\ hdr = 0 /\ pregap = 0 /\ bb = 0 /\ File_processesd = FALSE
  /\ aft = [name |-> <<>>, size |-> 0]
  /\ result = 0 /\ loaded = FALSE /\ file_error = FALSE /\ spilt = FALSE
-----------------------------------------------------------------------------

Cleared == [i \in Slots |->
  IF i < toc.last THEN [Track EXCEPT !.name = tracks[i].name] ELSE tracks[i]]

(* Mutant: Unload leaves the tracks as they are. *)
UnloadCounts ==
  /\ loaded' = FALSE
  /\ tracks' = tracks
  /\ toc' = IF loaded THEN [last |-> 0, end |-> 0] ELSE toc

(* Unload: nothing unless something is loaded; the names stay.             *)
Unload ==
  /\ loaded' = FALSE
  /\ tracks' = IF loaded THEN Cleared ELSE tracks
  /\ toc' = IF loaded THEN [last |-> 0, end |-> 0] ELSE toc

SheetName == <<"c", "u", "e">>

(* The reset part of pcecd_poll and the head of LoadCUE: the local bb has  *)
(* no first value, and the data slot holds the sheet itself.               *)
Reset ==
  /\ cue_pc = "reset" /\ loads < MaxLoads /\ loads' = loads + 1
  /\ Unload
  /\ spilt' = FALSE
  /\ aft' = [name |-> SheetName, size |-> 0]
  /\ hdr' = 0 /\ pregap' = 0 /\ bb' \in {0, 1} /\ File_processesd' = FALSE
  /\ IF disc.lines = <<>>
     THEN cue_pc' = "mount" /\ result' = 100 /\ line' = 0
     ELSE cue_pc' = "parse" /\ result' = 0 /\ line' = 1
  /\ UNCHANGED <<disc, file_error>>

(* sgets: FALSE at the end of the sheet, and at a line with no character.  *)
HaveLine == line <= Len(disc.lines) /\ disc.lines[line].cmd # "empty"
Cmd      == disc.lines[line]

At(commands) == cue_pc = "parse" /\ HaveLine /\ Cmd.cmd \in commands

NextLine == line' = line + 1 /\ cue_pc' = "parse" /\ result' = result

Return(r) == cue_pc' = "mount" /\ result' = r /\ UNCHANGED line

(* What the host finds beside the sheet under a name.                      *)
Found(name) == Trim(name) \in DOMAIN FileSize \ LostFiles

(* A FILE line whose name leaves the text given in the table.              *)
Opened(name) ==
  /\ aft' = [name |-> name, size |-> FileSize[Trim(name)]]
  /\ File_processesd' = TRUE
  /\ hdr' = IF Cmd.wav THEN 44 ELSE hdr
  /\ pregap' = 0
  /\ IF Cmd.kind THEN NextLine ELSE Return(-1)

NotOpened(name) ==
  /\ aft' = [aft EXCEPT !.name = name]
  /\ Return(1)
  /\ UNCHANGED <<File_processesd, hdr, pregap>>

(* Mutant: a file that cannot be opened is only skipped. *)
FileUnreported ==
  /\ At({"FILE"})
  /\ LET name == NameOver(tracks[toc.last].name, Cmd) IN
     /\ tracks' = [tracks EXCEPT ![toc.last].name = name]
     /\ IF Found(Text(name)) THEN Opened(Text(name)) ELSE NotOpened(Text(name))
  /\ UNCHANGED <<disc, bb, toc, loaded, spilt, loads, file_error>>

(* FILE: the host opens it, or LoadCUE returns what it has so far.         *)
File ==
  /\ At({"FILE"})
  /\ LET name == NameOver(tracks[toc.last].name, Cmd) IN
     /\ tracks' = [tracks EXCEPT ![toc.last].name = name]
     /\ IF Found(Text(name)) THEN Opened(Text(name)) /\ UNCHANGED file_error
                             ELSE NotOpened(Text(name)) /\ file_error' = TRUE
  /\ UNCHANGED <<disc, bb, toc, loaded, spilt, loads>>

(* Leave the loop: the last track, unless a file of its own has told its   *)
(* end, reaches to the end of the file.  With no track at all this is      *)
(* tracks[-1], whose fields are the flags of cue_t, all zero after Reset,  *)
(* and whose sector_size and type are toc.last and toc.end.                *)
CloseLast(tr, tc) ==
  LET i     == tc.last - 1
      close == ~tr[i].opened
      e     == IF close THEN EndByFile(tr[i]) ELSE tr[i].end
      total == IF close THEN e ELSE tc.end
      bare  == e = 0
  IN IF tc.last = 0
     THEN spilt' = TRUE /\ toc' = [tc EXCEPT !.end = -1] /\ tracks' = tr
     ELSE /\ toc' = [tc EXCEPT !.end = IF bare THEN total + pregap ELSE total]
          /\ tracks' = [tr EXCEPT ![i].end = IF bare THEN total + pregap ELSE e]
          /\ spilt' = spilt

EndOfSheet ==
  /\ cue_pc = "parse" /\ ~HaveLine
  /\ CloseLast(tracks, toc) /\ Return(1)
  /\ UNCHANGED <<disc, hdr, pregap, bb, File_processesd, aft, loaded, file_error, loads>>

(* TRACK n, and a line of spaces, for which sscanf returns -1 and leaves   *)
(* in bb what the line before has put there.                               *)
NewTrack(i, n, mode) ==
  LET t    == [tracks[i] EXCEPT
                 !.size        = aft.size,
                 !.sector_size = IF mode \in DOMAIN TypeOf THEN SectorSize[mode] ELSE @,
                 !.type        = IF mode \in DOMAIN TypeOf THEN TypeOf[mode] ELSE @,
                 !.name        = IF File_processesd THEN @ ELSE StrCpy(@, aft.name),
                 !.opened      = File_processesd /\ i >= 1]
      split == File_processesd /\ i = 1
      first == [tracks[0] EXCEPT !.end = EndByFile(tracks[0]), !.opened = TRUE]
  IN /\ bb' = n
     /\ IF n # i + 1
        THEN /\ CloseLast(tracks, toc) /\ Return(1)
             /\ UNCHANGED File_processesd
        ELSE /\ tracks' = IF split THEN [tracks EXCEPT ![1] = t, ![0] = first]
                                   ELSE [tracks EXCEPT ![i] = t]
             /\ toc' = IF split THEN [toc EXCEPT !.end = first.end] ELSE toc
             /\ File_processesd' = FALSE
             /\ NextLine /\ UNCHANGED spilt

TrackLine ==
  /\ At({"TRACK", "blank"})
  /\ IF Cmd.cmd = "TRACK" THEN NewTrack(toc.last, Cmd.n, Cmd.mode)
                          ELSE NewTrack(toc.last, bb, "none")
  /\ UNCHANGED <<disc, hdr, pregap, aft, loaded, file_error, loads>>

Pregap ==
  /\ At({"PREGAP"})
  /\ pregap' = pregap + Cmd.t /\ bb' = Cmd.t
  /\ NextLine
  /\ UNCHANGED <<disc, hdr, File_processesd, table, aft, loaded, file_error, spilt, loads>>

(* INDEX 00 tells where the track before ends, if nothing else has.        *)
Index0 ==
  /\ At({"INDEX0"})
  /\ bb' = Cmd.t
  /\ tracks' = IF toc.last > 0 /\ tracks[toc.last - 1].end = 0
               THEN [tracks EXCEPT ![toc.last - 1].end = Cmd.t + pregap] ELSE tracks
  /\ NextLine
  /\ UNCHANGED <<disc, hdr, pregap, File_processesd, toc, aft, loaded, file_error, spilt, loads>>

(* INDEX 01 in a file of several tracks: its time counts from the start of *)
(* the disc.                                                               *)
WithinFile(i, t) ==
  LET start == t + pregap
      new   == [tracks[i] EXCEPT !.start = start, !.offset = start * tracks[i].sector_size - hdr]
  IN [j \in DOMAIN tracks |->
        CASE j = i -> new
          [] j = i - 1 /\ tracks[j].end = 0 -> [tracks[j] EXCEPT !.end = start]
          [] OTHER -> tracks[j]]

(* Mutant: the place in the file is counted from INDEX 01. *)
OwnFileFromIndex(i, t) ==
  LET start == toc.end + pregap
      ss    == tracks[i].sector_size
  IN [tracks EXCEPT
        ![i].start  = start + t,
        ![i].offset = (start + t) * ss - hdr,
        ![i].end    = start + Quotient(tracks[i].size - hdr + ss - 1, ss)]

(* INDEX 01 in a file of its own: its time counts from the end of the      *)
(* tracks before.                                                          *)
OwnFile(i, t) ==
  LET start == toc.end + pregap
      ss    == tracks[i].sector_size
  IN [tracks EXCEPT
        ![i].start  = start + t,
        ![i].offset = start * ss - hdr,
        ![i].end    = start + Quotient(tracks[i].size - hdr + ss - 1, ss)]

Index1 ==
  /\ At({"INDEX1"})
  /\ bb' = Cmd.t
  /\ LET i  == toc.last
         tr == IF tracks[i].opened THEN OwnFile(i, Cmd.t) ELSE WithinFile(i, Cmd.t)
         tc == [last |-> i + 1, end |-> IF tracks[i].opened THEN tr[i].end ELSE toc.end]
     IN IF i + 1 = MaxTracks
        THEN CloseLast(tr, tc) /\ Return(1)
        ELSE tracks' = tr /\ toc' = tc /\ NextLine /\ UNCHANGED spilt
  /\ UNCHANGED <<disc, hdr, pregap, File_processesd, aft, loaded, file_error, loads>>

OtherLine ==
  /\ At({"REM"})
  /\ NextLine
  /\ UNCHANGED <<disc, hdr, pregap, bb, File_processesd, table, aft, loaded, file_error, spilt, loads>>

(* Load and pcecd_set_image: any result but 1 unloads what was read.       *)
SetImage ==
  /\ cue_pc = "mount" /\ cue_pc' = "done"
  /\ IF result = 1
     THEN loaded' = TRUE /\ UNCHANGED table
     ELSE loaded' = FALSE /\ tracks' = Cleared /\ toc' = [last |-> 0, end |-> 0]
  /\ UNCHANGED <<disc, locals, aft, result, file_error, spilt, loads>>

(* The user puts another disc in the slots, and the console resets the     *)
(* drive; or the same disc is mounted again.  The notice of an exchange or *)
(* of a reset may take the place of the error code.                        *)
OtherDisc ==
  /\ cue_pc = "done" /\ cue_pc' = "reset"
  /\ disc' \in Discs
  /\ file_error' \in {FALSE, file_error}
  /\ UNCHANGED <<locals, table, aft, drive, loads>>

CueNext ==
  \/ Reset \/ File \/ TrackLine \/ Pregap \/ Index0 \/ Index1 \/ OtherLine
  \/ EndOfSheet \/ SetImage \/ OtherDisc

CueSpec == CueInit /\ [][CueNext]_cueVars
-----------------------------------------------------------------------------

(* Where sector l of track i begins in the file: ReadData and the play part*)
(* of Update.  The 16 bytes of sync and header that ReadData skips in a    *)
(* data sector of 2352 bytes are left out: they do not move the sector.    *)
PlaceOf(i, l) ==
  l * tracks[i].sector_size - (IF tracks[i].opened THEN tracks[i].offset ELSE 0)

Mounted == cue_pc = "done" /\ result = 1

(* Types and ranges: the flags before the table are spilt into when, and   *)
(* only when, LoadCUE has come to the end of a sheet without any track.    *)
CueTypeOK ==
  /\ cue_pc \in {"reset", "parse", "mount", "done"} /\ disc \in Discs
  /\ toc.last \in 0..MaxTracks /\ result \in {0, 1, 100, -1}
  /\ \A i \in Slots : tracks[i].type \in 0..2 /\ tracks[i].sector_size \in {0, 2048, 2352, 2448}
  /\ loaded => result \in {1}
  /\ spilt => toc.last = 0

(***************************************************************************)
(* Plain sheets and the discs they describe.  A line that may be left out  *)
(* is a REM where it is.                                                   *)
(***************************************************************************)
Gap(l) == IF l.cmd = "PREGAP" THEN l.t ELSE 0

(* A file for each track, all of them BIN or all WAV: FILE, TRACK, PREGAP  *)
(* or not, INDEX 00 or not, INDEX 01.  The first track starts with its     *)
(* file.                                                                   *)
OwnFiles(d) ==
  /\ Len(d.track) \in 2..MaxTracks /\ Len(d.lines) = 5 * Len(d.track)
  /\ \A i \in 1..Len(d.track) :
       LET l(k)  == d.lines[5 * (i - 1) + k]
           w     == d.track[i]
           first == (IF i = 1 THEN 0 ELSE d.track[i-1].end) + Gap(l(3))
           head  == IF d.lines[1].wav THEN 44 ELSE 0
           ss    == SectorSize[l(2).mode]
       IN /\ l(1).cmd = "FILE" /\ l(1).kind /\ l(1).wav = d.lines[1].wav
          /\ IsEntry(l(1))
          /\ l(2).cmd = "TRACK" /\ l(2).n = i /\ l(2).mode \in DOMAIN SectorSize
          /\ l(3).cmd \in {"PREGAP", "REM"} /\ Gap(l(3)) \in Nat
          /\ l(4).cmd \in {"INDEX0", "REM"}
          /\ l(5).cmd = "INDEX1" /\ l(5).t \in Nat
          /\ i = 1 => Gap(l(3)) = 0 /\ l(5).t = 0
          /\ w.file = l(1).base /\ w.type = TypeOf[l(2).mode]
          /\ w.start = first + l(5).t /\ w.byte = head + ss * l(5).t
          /\ w.end \in Nat /\ w.start < w.end
          /\ FileSize[w.file] = head + ss * (w.end - first)

(* One BIN file with all tracks, of one sector size: FILE, then for each   *)
(* track TRACK, INDEX 00 or not, INDEX 01.                                 *)
OneFile(d) ==
  /\ Len(d.track) \in 1..MaxTracks /\ Len(d.lines) = 1 + 3 * Len(d.track)
  /\ d.lines[1].cmd = "FILE" /\ d.lines[1].kind /\ ~d.lines[1].wav
  /\ IsEntry(d.lines[1])
  /\ \A i \in 1..Len(d.track) :
       LET l(k) == d.lines[1 + 3 * (i - 1) + k]
           w    == d.track[i]
           ss   == SectorSize[d.lines[2].mode]
           then == d.lines[1 + 3 * i + (IF d.lines[1 + 3 * i + 2].cmd = "INDEX0" THEN 2 ELSE 3)]
       IN /\ l(1).cmd = "TRACK" /\ l(1).n = i
          /\ l(1).mode \in DOMAIN SectorSize /\ SectorSize[l(1).mode] = ss
          /\ l(2).cmd \in {"INDEX0", "REM"}
          /\ l(3).cmd = "INDEX1" /\ l(3).t \in Nat
          /\ w.file = d.lines[1].base /\ w.type = TypeOf[l(1).mode]
          /\ w.start = l(3).t /\ w.byte = ss * l(3).t
          /\ w.end \in Nat /\ w.start < w.end
          /\ IF i < Len(d.track) THEN w.end = then.t /\ w.end <= d.track[i+1].start
                                 ELSE FileSize[w.file] = ss * w.end

Plain(d) == OwnFiles(d) \/ OneFile(d)

(* No file beside the sheet has a name that goes on, after a blank, where  *)
(* that of a FILE line ends.                                               *)
FilesApart ==
  \A d \in Discs : \A k \in 1..Len(d.lines) : d.lines[k].cmd = "FILE" =>
    \A f \in DOMAIN FileSize : ~IsPrefix(Append(d.lines[k].base, Blank), f)

(* Whatever was mounted before, and however that load ended, a disc whose  *)
(* sheet is plain is mounted with every track of its sheet: its kind, its  *)
(* file, its first sector and its end, not after the track that follows,   *)
(* as CueDrive assumes of every disc (LoadCUE, Unload, the fields they do  *)
(* not clear).                                                             *)
TracksAsWritten ==
  Mounted /\ Plain(disc) /\ ~file_error =>
    /\ toc.last = Len(disc.track)
    /\ \A i \in 1..toc.last :
         LET t == tracks[i-1] w == disc.track[i] IN
         /\ t.type = w.type /\ Trim(Text(t.name)) = w.file /\ t.start = w.start
         /\ t.start < t.end /\ t.end = w.end
         /\ i < toc.last => t.end <= tracks[i].start

(* The sectors of a track are sought where its file holds them: INDEX 01   *)
(* at its byte, the last one inside the file (offset and opened, and their *)
(* use in ReadData and Update).                                            *)
SectorsInPlace ==
  Mounted /\ Plain(disc) /\ ~file_error =>
    \A i \in 1..toc.last :
      LET w == disc.track[i] IN
      /\ PlaceOf(i-1, w.start) = w.byte
      /\ PlaceOf(i-1, tracks[i-1].end) <= FileSize[w.file]

(* A disc that is mounted with fewer tracks than its sheet has was         *)
(* reported on the screen (OpenFileNameDataSlot sets the error code).      *)
LossIsReported ==
  Mounted /\ Plain(disc) /\ toc.last < Len(disc.track) => file_error
=============================================================================
