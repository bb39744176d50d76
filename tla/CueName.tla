------------------------------- MODULE CueName -------------------------------
(***************************************************************************)
(* The name field of a track (cue.h) and what LoadCUE of cue.cpp does to   *)
(* it at a FILE line.  The field is a C string in a buffer of its own that *)
(* nobody clears: a name is written over what the buffer held, and what is *)
(* read is the text up to the first NUL.  For the real program NameSize is *)
(* 128 and MaxTracks 99.                                                   *)
(*                                                                         *)
(* A FILE line is a record; its name is in two parts, the directories      *)
(* (dirs, each with the slash or backslash that ends it) and what follows  *)
(* them (base).  Characters are strings: those of length one, and two      *)
(* names for what one would not see in print.                              *)
(***************************************************************************)
EXTENDS Integers, Sequences, SequencesExt

CONSTANTS
  NameSize,   \* sizeof name
  MaxTracks   \* room in toc.tracks

ASSUME NameAssumption == NameSize \in Nat \ {0} /\ MaxTracks \in Nat \ {0}

NUL    == "NUL"
Blank  == "blank"
Slots  == 0..MaxTracks-1
Zeroed == [p \in 1..NameSize |-> NUL]

(* Characters are written over the start of a buffer.                      *)
Over(b, s) == [p \in 1..NameSize |-> IF p <= Len(s) THEN s[p] ELSE b[p]]

StrCpy(b, s) == Over(b, Append(s, NUL))

Length(b) == Max({n \in 0..NameSize : \A p \in 1..n : b[p] # NUL})
Text(b)   == [p \in 1..Length(b) |-> b[p]]

(* Mutant: the directories of a FILE line are not stripped. *)
NameOverWhole(b, entry) ==
  Over(b, Append(FlattenSeq(entry.dirs) \o entry.base, Blank))

(* The copy loop of a FILE line starts over behind each slash.  Quotes are *)
(* written over.  It ends when it has copied the blank behind the name; no *)
(* NUL is written.                                                         *)
NameOver(b, entry) ==
  Over(FoldLeft(Over, b, entry.dirs), Append(entry.base, Blank))

(* The host pays no attention to blanks at the end of a path: every name   *)
(* that LoadCUE opens has one.                                             *)
Trim(path) == SubSeq(path, 1, SelectLastInSeq(path, LAMBDA c : c # Blank))

(* The name of a FILE line, as an author writes it: something is left when *)
(* the directories are stripped, it fits, and no blank ends it.            *)
IsEntry(entry) ==
  /\ entry.base \in Seq(STRING) /\ Len(entry.base) \in 1..NameSize-1
  /\ \A p \in DOMAIN entry.base : entry.base[p] \notin {NUL, "/", "\\"}
  /\ Last(entry.base) # Blank
=============================================================================
