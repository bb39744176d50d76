----------------------------- MODULE SheetMount ------------------------------
(***************************************************************************)
(* What a mount asks of the host before and while LoadCUE reads the sheet: *)
(* GETFILENAME for the sheet's directory, READ for its text, one OPEN for  *)
(* each FILE line, and the executor of core_bridge_cmd.v that carries the  *)
(* commands one after the other.                                           *)
(*                                                                         *)
(* The firmware is cut where it polls the command register.  Of the        *)
(* scratch memory two areas matter: the start of buffer 0, where names are *)
(* exchanged, and the sheet's place behind it (memory_offset_cue).  A path *)
(* is a sequence of characters, since its decoding counts them; a sheet's  *)
(* text is its FILE lines, each with the tracks that follow it: count of   *)
(* them, from slot first of the table on.                                  *)
(***************************************************************************)
EXTENDS Integers, Sequences, FiniteSets, SequencesExt, CueName

CONSTANTS
  Sheets,     \* the sheets a user may choose for slot 100
  NoSheet,    \* nothing chosen
  PathOf,     \* path of a sheet, as GETFILENAME gives it
  BinsOf,     \* its FILE lines
  OnDisk,     \* paths of the files that the host has
  ReadAhead,  \* the sector cache may have a READ under way when a mount begins
  HostFails,  \* GETFILENAME and READ may fail
  MaxPath,    \* bounds: a mount begins with a path of this length at most
  MaxUnended  \* and with this many commands of earlier mounts not yet ended

ASSUME MountAssumption ==
  /\ NoSheet \notin Sheets
  /\ \A s \in Sheets :
       /\ PathOf[s] \in Seq(STRING) /\ \E i \in DOMAIN PathOf[s] : PathOf[s][i] = "/"
       /\ \A k \in DOMAIN BinsOf[s] : BinsOf[s][k].first \in Slots /\ IsEntry(BinsOf[s][k])

VARIABLES
  pc,               \* "idle", "getting", "got", "sized", "acking", "reading",
                    \* "parse", "opening"
  next,             \* FILE line the parser is at
  aft_filepath, aft_filename,
  names,            \* toc.tracks[].name, from one sheet to the next
  mem,              \* contents of the areas "name" and "sheet"
  file_error_code,
  regs,             \* the data slot registers
  queue,            \* commands the executor has not taken yet
  op,               \* the command the host carries out
  done, err,        \* target_dataslot_done, target_dataslot_err
  sheet,            \* what is in slot 100
  updated,          \* DATASLOT_UPDATE_REG
  steady,           \* history: slot 100 has not changed since the mount began
  alone,            \* history: the host had nothing under way when the mount began
  failed            \* history: the host failed a command of this mount

tableVars  == <<next, names>>
firmVars   == <<pc, next, aft_filepath, aft_filename, names, file_error_code>>
bridgeVars == <<regs, queue, op, done, err>>
history    == <<steady, alone, failed>>
vars == <<firmVars, mem, bridgeVars, sheet, updated, history>>

Kinds == {"get", "read", "open"}
Sectors == <<"?">>     \* CD data of the read-ahead

(* Slot, where in the scratch memory, and whether the offset is inside the *)
(* file: the commands that pass a name leave an address in that register.  *)
Registers == [slot : {100, 101}, at : {"name", "sheet"}, inside : BOOLEAN]
GetRegs  == [slot |-> 100, at |-> "name",  inside |-> FALSE]
ReadRegs == [slot |-> 100, at |-> "sheet", inside |-> TRUE]
OpenRegs == [slot |-> 101, at |-> "name",  inside |-> FALSE]

NoOp == [kind |-> "none", regs |-> OpenRegs]
Operation(kind, r) == [kind |-> kind, regs |-> r]

(* dataslot_pathname_file_decode.  path_count is the index of the last     *)
(* slash, counted from 0, and 0 when there is none.                        *)
LastSlash(data) == SelectLastInSeq(data, LAMBDA c : c = "/")

PathCount(data) == IF LastSlash(data) = 0 THEN 0 ELSE LastSlash(data) - 1
FilePath(data)  == SubSeq(data, 1, Min({PathCount(data) + 1, Len(data)}))
FileName(data)  == SubSeq(data, PathCount(data) + 2, Len(data))

Init ==
  /\ pc = "idle" /\ next = 1
  /\ aft_filepath = <<>> /\ aft_filename = <<>>
  /\ names = [i \in Slots |-> Zeroed]
  /\ mem = [area \in {"name", "sheet"} |-> <<>>]
  /\ file_error_code = 0
  /\ regs = OpenRegs /\ queue = {} /\ op = NoOp /\ done = FALSE /\ err = 0
  /\ sheet \in Sheets \cup {NoSheet}
  /\ updated = FALSE /\ steady = TRUE /\ alone = TRUE /\ failed = FALSE
-----------------------------------------------------------------------------
(***************************************************************************)
(* The executor.  A command given to an idle one is taken within three     *)
(* clocks; a busy one queues it and reads the registers when it gets to    *)
(* it.  In between, at most a poll of the flags fits (Settled).            *)
(***************************************************************************)
HostIdle == op = NoOp /\ queue = {}
Settled  == op = NoOp => queue = {}

Issue(kind, r) ==
  /\ regs' = r
  /\ IF op = NoOp THEN op' = Operation(kind, r) /\ done' = FALSE /\ UNCHANGED queue
                  ELSE queue' = queue \cup {kind} /\ UNCHANGED <<op, done>>
  /\ UNCHANGED err

First == IF "read" \in queue THEN "read" ELSE IF "get" \in queue THEN "get" ELSE "open"

Take ==
  /\ op = NoOp /\ queue # {}
  /\ op' = Operation(First, regs) /\ queue' = queue \ {First} /\ done' = FALSE
  /\ UNCHANGED <<firmVars, mem, regs, err, sheet, updated, history>>

Finish(result) ==
  /\ op' = NoOp /\ done' = TRUE /\ err' = result
  /\ failed' = (failed \/ (result # 0 /\ op.kind # "ahead" /\ pc # "idle"))
  /\ UNCHANGED <<firmVars, regs, queue, sheet, updated, steady, alone>>

(* The host needs longer for a command than the firmware for the 1000      *)
(* polls that dataslot_read makes for an acknowledgement; LoadCUE would    *)
(* wait for ever otherwise.                                                *)
InTime == pc # "acking"

Succeed ==
  /\ InTime
  /\ \/ /\ op.kind = "get" /\ op.regs.slot = 100 /\ sheet # NoSheet
        /\ mem' = [mem EXCEPT ![op.regs.at] = PathOf[sheet]]
     \/ /\ op.kind = "read" /\ op.regs.slot = 100 /\ sheet # NoSheet /\ op.regs.inside
        /\ mem' = [mem EXCEPT ![op.regs.at] = sheet]
     \/ /\ op.kind = "open" /\ Trim(mem["name"]) \in OnDisk
        /\ UNCHANGED mem
     \/ /\ op.kind = "ahead"
        /\ mem' \in {mem, [area \in DOMAIN mem |-> Sectors]}
  /\ Finish(0)

Fail ==
  /\ \/ op.kind = "open" /\ Trim(mem["name"]) \notin OnDisk
     \/ op.kind \in {"get", "read"} /\ (sheet = NoSheet \/ HostFails)
     \/ op.kind \in {"get", "read"} /\ op.regs.slot # 100
     \/ op.kind = "read" /\ ~op.regs.inside
     \/ op.kind = "ahead" /\ HostFails
  /\ Finish(2)
  /\ UNCHANGED mem

Host == Take \/ Succeed \/ Fail
-----------------------------------------------------------------------------
(***************************************************************************)
(* The user and the drive.  The main loop's notice of an exchange takes    *)
(* the place of an error and goes after 15 seconds, longer than any        *)
(* command takes.                                                          *)
(***************************************************************************)
Exchange(s) ==
  /\ sheet' = s /\ updated' = TRUE /\ steady' = FALSE
  /\ UNCHANGED <<firmVars, mem, bridgeVars, alone, failed>>

Notice ==
  /\ pc = "idle" /\ updated /\ HostIdle
  /\ updated' = FALSE /\ file_error_code' = 0
  /\ UNCHANGED <<pc, next, aft_filepath, aft_filename, names, mem, bridgeVars,
                 sheet, history>>

ReadAheadStarts ==
  /\ ReadAhead /\ pc = "idle" /\ HostIdle
  /\ op' = Operation("ahead", regs) /\ done' = FALSE
  /\ UNCHANGED <<firmVars, mem, regs, queue, err, sheet, updated, history>>
-----------------------------------------------------------------------------
(***************************************************************************)
(* LoadCUE.  It looks at the result of no call but OPEN.                   *)
(***************************************************************************)
Continue(p) == pc' = p /\ UNCHANGED <<sheet, updated>>

Unended == Cardinality(queue) + (IF op.kind \in Kinds THEN 1 ELSE 0)

Mount ==
  /\ pc = "idle" /\ Continue("getting")
  /\ Len(aft_filepath) <= MaxPath /\ Unended <= MaxUnended
  /\ Issue("get", GetRegs)
  /\ steady' = TRUE /\ alone' = HostIdle /\ failed' = FALSE
  /\ UNCHANGED <<tableVars, aft_filepath, aft_filename, file_error_code, mem>>

(* GetFileNameDataSlot polls the error bits first, then done.              *)
GetError ==
  /\ pc = "getting" /\ err # 0 /\ Continue("sized")
  /\ file_error_code' = 2
  /\ UNCHANGED <<tableVars, aft_filepath, aft_filename, mem, bridgeVars, history>>

GetDone ==
  /\ pc = "getting" /\ err = 0 /\ done /\ Continue("got")
  /\ UNCHANGED <<tableVars, aft_filepath, aft_filename, file_error_code, mem,
                 bridgeVars, history>>

Decode ==
  /\ pc = "got" /\ Settled /\ Continue("sized")
  /\ aft_filepath' = FilePath(mem["name"]) /\ aft_filename' = FileName(mem["name"])
  /\ UNCHANGED <<tableVars, file_error_code, mem, bridgeVars, history>>

(* An empty slot 100 ends the mount here, without an error code.           *)
NothingToRead ==
  /\ pc = "sized" /\ Settled /\ sheet = NoSheet /\ Continue("idle")
  /\ UNCHANGED <<tableVars, aft_filepath, aft_filename, file_error_code, mem,
                 bridgeVars, history>>

(* Both buffers are cleared before the sheet is read.                      *)
ReadSheet ==
  /\ pc = "sized" /\ Settled /\ sheet # NoSheet /\ Continue("acking")
  /\ mem' = [area \in DOMAIN mem |-> <<>>]
  /\ Issue("read", ReadRegs)
  /\ UNCHANGED <<tableVars, aft_filepath, aft_filename, file_error_code, history>>

ReadAck ==
  /\ pc = "acking" /\ err = 0 /\ op # NoOp /\ Continue("reading")
  /\ UNCHANGED <<tableVars, aft_filepath, aft_filename, file_error_code, mem,
                 bridgeVars, history>>

(* Mutant: a sheet that cannot be read is reported by the result alone,    *)
(* as in dataslot_read_lba.                                                *)
ReadErrorSilent ==
  /\ pc \in {"acking", "reading"} /\ err # 0 /\ Continue("parse")
  /\ next' = 1 /\ UNCHANGED names
  /\ UNCHANGED <<aft_filepath, aft_filename, file_error_code, mem, bridgeVars,
                 history>>

ReadError ==
  /\ pc \in {"acking", "reading"} /\ err # 0 /\ Continue("parse")
  /\ file_error_code' = 3 /\ next' = 1 /\ UNCHANGED names
  /\ UNCHANGED <<aft_filepath, aft_filename, mem, bridgeVars, history>>

(* Mutant: the end of the READ is not waited for. *)
ReadDoneHasty ==
  /\ pc = "reading" /\ err = 0 /\ Continue("parse")
  /\ next' = 1 /\ UNCHANGED names
  /\ UNCHANGED <<aft_filepath, aft_filename, file_error_code, mem, bridgeVars,
                 history>>

ReadDone ==
  /\ pc = "reading" /\ err = 0 /\ done /\ Continue("parse")
  /\ next' = 1 /\ UNCHANGED names
  /\ UNCHANGED <<aft_filepath, aft_filename, file_error_code, mem, bridgeVars,
                 history>>

MoreFiles == mem["sheet"] \in Sheets /\ next \in DOMAIN BinsOf[mem["sheet"]]
FileLine  == BinsOf[mem["sheet"]][next]

(* The line's name goes into the slot of its first track.  sprintf puts    *)
(* aft_filepath before the text that is then there; OpenFileNameDataSlot   *)
(* decodes the whole again.                                                *)
OpenBin ==
  /\ pc = "parse" /\ Settled /\ MoreFiles /\ Continue("opening")
  /\ \E name \in {NameOver(names[FileLine.first], FileLine)} :
     \E s \in {aft_filepath \o Text(name)} :
       /\ names' = [names EXCEPT ![FileLine.first] = name]
       /\ mem' = [mem EXCEPT !["name"] = s]
       /\ aft_filepath' = FilePath(s) /\ aft_filename' = FileName(s)
  /\ Issue("open", OpenRegs)
  /\ UNCHANGED <<next, file_error_code, history>>

OpenError ==
  /\ pc = "opening" /\ err # 0 /\ Continue("idle")
  /\ file_error_code' = 2
  /\ UNCHANGED <<tableVars, aft_filepath, aft_filename, mem, bridgeVars, history>>

(* The further tracks of the file get their names from the data slot.      *)
Further ==
  {i \in Slots : MoreFiles /\ i > FileLine.first /\ i < FileLine.first + FileLine.count}

OpenDone ==
  /\ pc = "opening" /\ err = 0 /\ done /\ Continue("parse")
  /\ next' = next + 1
  /\ names' = [i \in Slots |-> IF i \in Further THEN StrCpy(names[i], aft_filename)
                                              ELSE names[i]]
  /\ UNCHANGED <<aft_filepath, aft_filename, file_error_code, mem, bridgeVars,
                 history>>

(* Mutant: a sheet without text is parsed again. *)
ParsedAgain ==
  /\ pc = "parse" /\ Settled /\ ~MoreFiles
  /\ Continue(IF mem["sheet"] \in Sheets THEN "idle" ELSE "parse")
  /\ UNCHANGED <<tableVars, aft_filepath, aft_filename, file_error_code, mem,
                 bridgeVars, history>>

Parsed ==
  /\ pc = "parse" /\ Settled /\ ~MoreFiles /\ Continue("idle")
  /\ UNCHANGED <<tableVars, aft_filepath, aft_filename, file_error_code, mem,
                 bridgeVars, history>>

LoadCUE ==
  \/ GetError \/ GetDone \/ Decode \/ NothingToRead
  \/ ReadSheet \/ ReadAck \/ ReadError \/ ReadDone
  \/ OpenBin \/ OpenError \/ OpenDone \/ Parsed

Next ==
  \/ Mount \/ LoadCUE \/ Host
  \/ \E s \in Sheets : Exchange(s)
  \/ Notice \/ ReadAheadStarts

Spec == Init /\ [][Next]_vars

(* The firmware runs on and the host carries out what it is given.         *)
FairSpec == Spec /\ WF_vars(LoadCUE) /\ WF_vars(Host)
-----------------------------------------------------------------------------
(* Every variable has its type, and who waits for a command that is no     *)
(* longer under way finds done set.                                        *)
TypeOK ==
  /\ pc \in {"idle", "getting", "got", "sized", "acking", "reading", "parse", "opening"}
  /\ next \in Nat \ {0}
  /\ file_error_code \in {0, 2, 3}
  /\ mem["sheet"] \in Sheets \cup {<<>>, Sectors} \cup {PathOf[s] : s \in Sheets}
  /\ mem["name"] \notin Sheets
  /\ regs \in Registers /\ queue \subseteq Kinds
  /\ op.kind \in Kinds \cup {"none", "ahead"} /\ op.regs \in Registers
  /\ pc \in {"getting", "acking", "reading", "opening"} /\ HostIdle => done
  /\ done \in BOOLEAN /\ err \in {0, 2}
  /\ sheet \in Sheets \cup {NoSheet}
  /\ {updated, steady, alone, failed} \subseteq BOOLEAN

(* A mount that began with nothing under way, not even a READ of the       *)
(* cache, and went on undisturbed and without an error.                    *)
Trusted == steady /\ alone /\ file_error_code = 0

(* LoadCUE parses the sheet that is in slot 100, the whole of it, and      *)
(* looks for the BINs beside it, unless an error code is set (cue.cpp:89). *)
Directory(path) ==
  CHOOSE d \in Prefixes(path) :
    /\ d # <<>> /\ Last(d) = "/"
    /\ \A i \in Len(d)+1..Len(path) : path[i] # "/"

SheetIsRight ==
  pc \in {"parse", "opening"} /\ Trusted =>
    /\ mem["sheet"] = sheet
    /\ pc = "parse" => aft_filepath = Directory(PathOf[sheet])

(* The file of the line that is parsed, beside the sheet.                  *)
FileMeant == Directory(PathOf[sheet]) \o BinsOf[sheet][next].base

(* The names on the disk are such that one does not go on, after a blank,  *)
(* where a FILE line's name ends.                                          *)
NoneLonger ==
  \A path \in OnDisk, s \in Sheets : \A k \in DOMAIN BinsOf[s] :
    ~IsPrefix(Append(Directory(PathOf[s]) \o BinsOf[s][k].base, Blank), path)

(* A file that the firmware has opened is the one that the sheet names and *)
(* lies beside it, whatever the names in the table and the directories in  *)
(* the lines were, also for the later files, whose path is what the        *)
(* decoding of the one before left (cue.cpp:104, apf.cpp:331).             *)
OpenedBesideTheSheet == [][OpenDone /\ Trusted => Trim(mem["name"]) = FileMeant]_vars

(* What is asked for is the name of the FILE line without its directories: *)
(* "strip out path info" (cue.cpp:107).                                    *)
PathStripped == pc = "opening" /\ Trusted => Trim(mem["name"]) = FileMeant

(* A mount that began with nothing under way and of which a command failed *)
(* leaves an error code, though LoadCUE looks at no result but that of     *)
(* OPEN (cue.cpp:82).  An empty slot has a result of its own.              *)
FailureIsReported ==
  [][LoadCUE /\ pc' = "idle" /\ alone /\ failed /\ sheet # NoSheet
       => file_error_code' # 0]_vars

(* The error that GetFileNameDataSlot reports is that of its own command   *)
(* (apf.cpp:354).                                                          *)
GetErrorIsOwn == [][GetError => failed]_vars

(* A mount ends, whatever fails (apf.cpp:130).                             *)
MountEnds == pc # "idle" ~> pc = "idle"
=============================================================================
