------------------------------ MODULE MCMount -------------------------------
(***************************************************************************)
(* A mount in its two halves, in one model: what it asks of the host       *)
(* (SheetMount) and what LoadCUE makes of the lines it has read            *)
(* (CueSheet).  They share no variable, so a behaviour is one of the       *)
(* requests (`requests') or one of the parser (`lines').                   *)
(***************************************************************************)
EXTENDS SheetMount, CueSheet

CONSTANTS root, deep

VARIABLE half
-----------------------------------------------------------------------------
(* Two sheets.  One lies in the root; its first name is short and that of  *)
(* two tracks, and its second FILE line has a directory that is longer     *)
(* than the name behind it.  The other lies in a directory; its name is    *)
(* longer, and the directory before it is there as well, with a file of    *)
(* that name inside.                                                       *)
Line(k, n, d, b) == [first |-> k, count |-> n, dirs |-> d, base |-> b]

MCSheets == {root, deep}

MCPathOf ==
  [s \in MCSheets |->
    CASE s = root -> <<"/", "r">>
      [] s = deep -> <<"/", "a", "/", "d">>]

MCBinsOf ==
  [s \in MCSheets |->
    CASE s = root -> <<Line(0, 2, <<>>, <<"p">>),
                       Line(2, 1, <<<<"e", "f", "/">>>>, <<"x">>)>>
      [] s = deep -> <<Line(0, 1, <<<<"a", "/">>>>, <<"p", "q", "r">>)>>]

MCOnDisk ==
  {<<"/", "p">>, <<"/", "x">>} \cup
  {<<"/", "a", "/", "p", "q", "r">>, <<"/", "a", "/", "a", "/", "p", "q", "r">>}

ASSUME NamesOnDiskDiffer == NoneLonger
-----------------------------------------------------------------------------
(* Discs.  Plain ones: one BIN file with all tracks, with INDEX 00, and    *)
(* one file for each track, BIN or WAV, with pregaps in the file or        *)
(* declared by PREGAP.  Others: the same with a line left out or put in.   *)
(* The names have different lengths, so the tail of a longer one is left   *)
(* behind a shorter one in its slot; lostbin is lost because the directory *)
(* before it is longer than the name, lostwav because it is not there.     *)
onebin == <<"o">>
abin   == <<"a", "n", "b">>
bbin   == <<"b">>
cbin   == <<"c", "n">>
awav   == <<"a", "w">>
bwav   == <<"b", "w", "v">>
badmp3 == <<"m">>
lostbin == <<"l">>
lostwav == <<"l", "w">>

DirsBefore(f) ==
  CASE f = bbin -> <<<<"d", "/">>>>
    [] f = cbin -> <<<<"d", "/">>, <<"e", "\\">>>>
    [] f = lostbin -> <<<<"d", "e", "/">>>>
    [] OTHER -> <<>>

L(c)        == [cmd |-> c]
FileL(f, w) == [cmd |-> "FILE", dirs |-> DirsBefore(f), base |-> f, wav |-> w, kind |-> f # badmp3]
TrackL(n, m) == [cmd |-> "TRACK", n |-> n, mode |-> m]
Time(c, t)  == [cmd |-> c, t |-> t]
Is(f, ty, s, e, b) == [file |-> f, type |-> ty, start |-> s, end |-> e, byte |-> b]

MCLostFiles == {lostwav}

MCFileSize == [f \in {onebin, abin, bbin, lostbin, cbin, awav, bwav, badmp3} \cup MCLostFiles |->
  CASE f = onebin -> 9 * 2352
    [] f = abin -> 2 * 2352 [] f \in {bbin, lostbin} -> 4 * 2048
    [] f = cbin -> 3 * 2352
    [] f \in {awav, lostwav} -> 2 * 2352 + 44 [] f = bwav -> 3 * 2352 + 44
    [] OTHER -> 1000]

Authored(l, t) == [lines |-> l, track |-> t]
Odd(l)         == [lines |-> l, track |-> <<>>]

OneBin == Authored(
  <<FileL(onebin, FALSE),
    TrackL(1, "AUDIO"), L("REM"), Time("INDEX1", 0),
    TrackL(2, "MODE2352"), Time("INDEX0", 2), Time("INDEX1", 4),
    TrackL(3, "AUDIO"), L("REM"), Time("INDEX1", 7)>>,
  <<Is(onebin, 0, 0, 2, 0), Is(onebin, 1, 4, 7, 4 * 2352),
    Is(onebin, 0, 7, 9, 7 * 2352)>>)

(* The second file has a gap of 1 declared and one of 1 inside.            *)
FilesWith(b) == Authored(
  <<FileL(abin, FALSE), TrackL(1, "AUDIO"), L("REM"), L("REM"), Time("INDEX1", 0),
    FileL(b, FALSE), TrackL(2, "MODE2048"), Time("PREGAP", 1), Time("INDEX0", 0), Time("INDEX1", 1),
    FileL(cbin, FALSE), TrackL(3, "AUDIO"), L("REM"), L("REM"), Time("INDEX1", 0)>>,
  <<Is(abin, 0, 0, 2, 0), Is(b, 1, 4, 7, 2048), Is(cbin, 0, 7, 10, 0)>>)

WavsWith(a) == Authored(
  <<FileL(a, TRUE), TrackL(1, "AUDIO"), L("REM"), L("REM"), Time("INDEX1", 0),
    FileL(bwav, TRUE), TrackL(2, "AUDIO"), L("REM"), L("REM"), Time("INDEX1", 0)>>,
  <<Is(a, 0, 0, 2, 44), Is(bwav, 0, 2, 5, 44)>>)

GoodDiscs == {OneBin, FilesWith(bbin), WavsWith(awav)}

DropAt(s, k)   == [j \in 1..Len(s)-1 |-> IF j < k THEN s[j] ELSE s[j+1]]
PutAt(s, k, x) == [j \in 1..Len(s)+1 |-> IF j < k THEN s[j] ELSE IF j = k THEN x ELSE s[j-1]]

OddLines == {L("blank"), L("empty"), TrackL(2, "CDG"), TrackL(1, "OTHER"),
             FileL(badmp3, FALSE), Time("INDEX1", 1), Time("PREGAP", 1)}

BentDiscs ==
  UNION {{Odd(DropAt(d.lines, k)) : k \in {j \in DOMAIN d.lines : d.lines[j] # L("REM")}} :
           d \in GoodDiscs}
    \cup UNION {{Odd(PutAt(d.lines, k, x)) : k \in {3, 6}, x \in OddLines} : d \in GoodDiscs}

MCDiscs == GoodDiscs \cup BentDiscs
             \cup {FilesWith(lostbin), WavsWith(lostwav), Odd(<<>>)}

ASSUME NamesOfFilesDiffer == FilesApart

(* The discs that have tracks are those with a plain sheet.                *)
ASSUME AuthoredArePlain == \A d \in MCDiscs : Plain(d) <=> d.track # <<>>
-----------------------------------------------------------------------------
mountVars == <<half, vars, cueVars>>

MountInit ==
  /\ half \in {"requests", "lines"}
  /\ Init /\ CueInit
  /\ half = "requests" => disc = OneBin
  /\ half = "lines" => sheet = NoSheet

InHalf(h, A) == half = h /\ A /\ UNCHANGED half

MountNext ==
  \/ InHalf("requests", Next) /\ UNCHANGED cueVars
  \/ InHalf("lines", CueNext) /\ UNCHANGED vars

(* The fairness of SheetMount; the parser's half needs none.               *)
MountSpec ==
  /\ MountInit /\ [][MountNext]_mountVars
  /\ WF_mountVars(half = "requests" /\ LoadCUE /\ UNCHANGED <<half, cueVars>>)
  /\ WF_mountVars(half = "requests" /\ Host /\ UNCHANGED <<half, cueVars>>)
=============================================================================
