# A TLA+ model of the PC Engine CD core for the Analogue Pocket

The repository holds the openFPGA core of the PC Engine / TurboGrafx CD: the
console in an FPGA (`src/fpga/core`), a RISC-V soft CPU beside it
(`src/fpga/MPU`) and the firmware of that CPU (`src/cdfw`), which plays the CD
drive. This directory models what is this project's own: the emulated drive,
its link to the SCSI target, the transport under that link, the cache through
which it reads the disc image from the host, the mount of a disc, and the main
loop around all of it. Paths below are relative to the repository's `src/`
directory.

## 1. Inventory

| Part | Code | State | Operations |
|---|---|---|---|
| CD drive | `cdfw/drivers/cue/cue.cpp`, `cue.h` | transport state, current sector and track, latencies, play range, pending status and data request, sense data, table of contents | `Update` (one tick), `CommandExec` (nine SCSI commands and "unknown"), `Load`, `Unload`, `Reset` |
| Drive polling loop | `cdfw/app/pcecd.cpp` | `need_reset`, `last_req`, poll timer | `pcecd_poll`: reset part, timer part, mailbox part; `pcecd_set_image` |
| SCSI target | `fpga/core/rtl/cd/SCSI.vhd` | bus phase, pending status, pending data-out, FIFO | select, command, data-in, data-out, status, message, reset |
| CD registers | `fpga/core/rtl/cd/cd.vhd`, `MSM5205.vhd` | interrupt and reset registers, ADPCM, fader | register reads and writes of the console |
| Drive mailbox | `fpga/core/main.sv`, `fpga/core/rtl/hps_ext.v` | one message slot `cd_in`, message counter `cd_req`, `cd_en`, FIFO back-pressure | post a message, read it word by word, write status / data / mount |
| Sector cache | `cdfw/drivers/apf/fileio.cpp` | two 8 KiB buffers, their addresses, which is in use, whether the other is loaded | `RISCFileSeek`, `RISCFileReadAdv` |
| Data slot driver | `cdfw/drivers/apf/apf.cpp` | data slot registers, name of the open file | OPEN, READ (waiting and not waiting), WRITE, GETFILENAME |
| Bridge executor | `fpga/MPU/core_bridge_cmd.v` | queued and current command, ack / done / err bits | target commands to the host; host commands to the core |
| Cue sheet parser | `cue.cpp` `LoadCUE` | table of contents, pregaps, file names | get the sheet, one pass over its lines, open its files |
| Addresses | `cue.cpp` (`CommandExec`, `LBAToMSF`, `MSFToLBA`), `cue.h` | none | sector numbers, BCD times and track numbers in commands and replies |
| Seek time model | `cdfw/drivers/cue/seektime.cpp` | none (tables) | `get_cd_seek_ms` |
| HPS transport | `cdfw/drivers/hps/spi.cpp`, `fpga/MPU/MPU_AFP_CORE.v` | strobe and acknowledge lines, three clocks of delay | word-wise command frames |
| Main loop, errors, OSD | `cdfw/app/main.cpp`, `core.cpp`, `cdfw/drivers/osd` | error code, OSD visibility, update latch, slot numbers | poll everything, show an error |
| Timers | `cdfw/arch/riscv/timer.cpp` | millisecond counter | arm, check |
| MPU bus | `fpga/MPU/MPU_AFP_CORE.v` | address decoding, update latch, HPS wait states | |
| Heap | `cdfw/lib/malloc.c` | free pointer, headers of the blocks | `malloc`, `calloc`, `free`, two statistics; linked, not called |

How they interact: the console's CPU drives the SCSI target through registers.
A command that is complete, a parameter block, "FIFO empty" and the SCSI reset
become messages in a single mailbox slot, and a counter tells the firmware that
there is a new one. The firmware polls: at most one message a turn, and one
drive tick whenever its timer has run out. Status bytes, requests for
parameters, sectors and "a disc is mounted" travel the other way as port writes,
each of which blocks until the FPGA takes it. A sector is first sought through
the cache, which asks the host for 8 KiB at a time, partly in the background.

What is hard here:

* there is one message slot, no queue, and an answer may be sent at once, pended
  to a later tick, left to the end of a read or to the end of a play;
* the console may reset the drive between any two of these steps;
* the FIFO between firmware and console runs full, and it runs empty inside a
  sector, which looks like the end of one;
* the host fills one buffer while the other is delivered, sectors straddle the
  two, and they swap roles;
* a message is seven words that the FPGA may replace between any two, and a word
  is a strobe and an acknowledge between two clock domains;
* a mount talks to the host in a dozen commands whose results the parser does
  not look at, and the table of contents is filled by a single pass that leaves
  in each slot what it does not write, the end of a longer name included;
* the done and error bits of the host interface describe the last command
  that ended, which need not be the one the firmware waits for.

`PROJECT.json` lists every such hazard with its line and the properties that
would catch it.

What makes each part correct:

* drive, loop, target and mailbox together: every command is answered exactly
  once, with all of its data before its status, in the right order, and a reset
  at any moment leaves a drive at rest;
* cache, slot driver and executor together: what is delivered is what the file
  holds at that place, until a command fails and again from the next file on,
  and no wait lasts for ever;
* transport and mailbox: every word arrives once and in order, the last message is
  acted on whole, a status or a block is taken over whole (a message posted
  while another is read may be acted on then, whole or mixed with that one, and is
  acted on at the next poll in any case);
* mount and parser: the sheet in the slot is the one that is parsed, each track
  has the sectors its sheet gives it, whatever was mounted before, and what
  could not be opened or read is reported;
* addresses and seek times: the head goes where the console meant, and farther
  takes longer;
* timers and main loop: the drive's steps keep their average, the screen shows
  the error that is set;
* heap: no two owners of a word.

## 2. Modules

| Module | Models | Composes |
|---|---|---|
| `CueDrive` | `cue_t` and `pcecd_poll` | |
| `ScsiTarget` | the target at phase level | |
| `CdService` | abstract: what the drive promises the console's software | |
| `PceCdSystem` | mailbox, console software, fairness, the system's properties, implementing `CdService` | `CueDrive`, `ScsiTarget`, `CdService` |
| `PceCdSystemInv` | the inductive invariants of the answer proofs, and their conditions | `PceCdSystem` |
| `PceCdSystemProofs` | types, the mount flag, the track index | `PceCdSystem`, TLAPS |
| `PceCdAnswerProofs` | answers: none twice, none missing, all complete, with sense data; no command lost; the refinement | `PceCdSystemInv`, `PceCdSystemProofs` |
| `MCPceCdSystem` | discs and command sets for TLC | `PceCdSystemInv` |
| `SectorCache` | `fileio.cpp`, the OPEN and READ paths of `apf.cpp`, the executor, the host | |
| `SectorCacheInv` | the inductive invariant of the delivery proof | `SectorCache` |
| `SectorCacheProofs` | types, right delivery | `SectorCacheInv`, TLAPS |
| `MCSectorCache` | files for TLC, and two hosts | `SectorCacheInv` |
| `HpsBus` | abstract: what the transport promises to a slave | |
| `HpsFrames` | the frames that the functions of `spi.cpp` send | |
| `HpsSpi` | strobe, acknowledge and port, implementing `HpsBus` | `HpsFrames`, `HpsBus` |
| `HpsSpiProofs` | strobes in step, the refinement, replies | `HpsSpi`, TLAPS |
| `CdMailbox` | `main.sv` and `hps_ext.v` word by word, and the firmware's calls | |
| `CdMailboxProofs` | torn messages, whole blocks, whole statuses | `CdMailbox`, TLAPS |
| `MCHpsLink` | frames, blocks and statuses for TLC | `CdMailbox`, `HpsSpi` |
| `CueName` | the name field of a track, and how `LoadCUE` writes over it | |
| `CueSheet` | `LoadCUE` line by line, with unload, reset and mount | `CueName` |
| `SheetMount` | GETFILENAME, READ of the sheet, OPENs, and the executor | `CueName` |
| `MountProofs` | the mount and the parser | `SheetMount`, `CueSheet`, TLAPS |
| `MCMount` | discs, sheets and paths for TLC | `SheetMount`, `CueSheet` |
| `CdAddress` | places in commands and replies | |
| `SeekTime` | `seektime.cpp`, the latencies of READ6 and SAPSP | `CdAddress` |
| `PollTimer` | `timer.cpp` and the timer part of `pcecd_poll` | |
| `MainLoop` | `main.cpp`, `core.cpp`, `osd_menu.cpp`: errors, info screen, settings, reset | |
| `MainLoopProofs` | addresses, seek times, pace of the steps, screens | `PollTimer`, `SeekTime`, `MainLoop`, TLAPS |
| `MCMainLoop` | a disc, sample sectors and times for TLC | `PollTimer`, `SeekTime`, `MainLoop`, `Heap` |
| `Allocator` | abstract: what a heap promises its callers | |
| `Heap` | `malloc.c`, implementing `Allocator` | `Allocator` |
| `HeapProofs` | no overlap, the refinement, no needless NULL | `Heap`, TLAPS |

`MCHpsLink`, `MCMount` and `MCMainLoop` are sums: they hold
models that share no variable, and one variable (`level`, `half`, `part`),
which never changes, says which of them moves while the others rest.
The states of a sum are those of its parts side by side, so a property of a part
holds in the sum exactly when it holds in the part; the fairness of a part is
stated with the others unchanged. `MCSectorCache` holds
`SectorCache` twice over the same variables, with different constants: `host`,
which never changes either, says which instance runs.

Definitions keep the names of the code. Operators whose comment begins with
"Mutant" are variants with a plausible bug; nothing uses them, they exist to
show that each property can fail.

### CueDrive, ScsiTarget, PceCdSystem

The firmware is one thread. `pc` says which part of `pcecd_poll` comes next; a
handler computes its whole effect in one step and leaves its port writes in
`out`, in program order; nothing else of the firmware runs until
`PortWrite` has emptied it. FPGA and console steps may come between any two of
these writes. `Update` is one action per branch (`UpdateLatency`,
`UpdateReadEnd`, ...), `CommandExec` one operator per SCSI command.

In `ScsiTarget` one step moves one unit of a phase. `SP_FREE` enters a data
phase one clock after its condition holds, faster than anything else in the
system, so `Settle` takes that transition together with its cause; the status
phase is delayed by 45000 clocks in the code and so is an action of its own.
A sector or reply is `Chunks` pieces, so the FIFO can run full or empty inside it.

The console is external. It issues any command of `Commands` when the bus is
free and it waits for nothing. Two switches say how well it behaves:
`PatientReset` (it holds the reset line until the firmware has remounted) and
`CarefulConsole` (it asks only for what the disc in the drive can give).

`CdService` is all of this from outside: the command under way, the data it
returns, what of that has been received, and the status on the bus. A command is
asked, its data are delivered piece by piece, one status answers it (with GOOD
only behind all the data) and is taken, and a reset forgets it.
`ServiceGiven` maps the system to it: `asked` and `got` are the console's, the data are
`DataOf(asked)`, the status is what the bus shows in the status phase. Port queue, mailbox, FIFO and
poll are hidden.

Abstractions: the poll timer expires whenever it likes; the result of the seek
time tables is any value of `SeekTicks`; the bytes of a reply are one kind of
piece; the error code and OSD are left out, as they feed nothing back. A poll of the mailbox
takes counter and message in one step, where `pcecd.cpp:67-80` reads eight words: so a command
that is posted between the counter and its words, acted on then and again at the next
poll, is not in this model. `CdMailbox` has the words.
`toc.tracks[-1]`, which a search by track number reads when no track is
mounted, is any sector up to `LbaBound`.

### SectorCache

A cell is a run of bytes, and its content is the place it was read from, so a
wrong delivery is visible as such. The firmware's thread is cut at each wait for
the host (`pc` from `seek` to `use1`) and at each cell delivered; the host moves
a READ cell by cell. `StartLoad` is `dataslot_read_lba_set` and the read that
follows it, `IssueRead` the executor's queueing. `OpenFinished`, `MoveCell` and
the failure of a read are the host framework, which is external: what it may do
is bounded by `Missing`, `ReadsMayFail` and `SlowHost`. The last excludes a hang: a host
that ends a READ within the 100 polls for its acknowledgement leaves the firmware waiting
for ever (`apf.cpp:211`; the mutant `FinishAtOnce` is that host). The drive asks for any file
at any time. Requests start anywhere from the file's start on, also behind its end; negative places,
which the code would wrap around, are not modelled. `Current` and `Take` are the one clock for which the
executor shows `done` between two commands: a poll that falls into it goes on, but before
the firmware has written anything the next command is taken. The history `lost` says that a command
has failed and that no OPEN has been seen to succeed since.

### HpsBus, HpsFrames, HpsSpi

`HpsBus` says what the slaves may rely on: a frame is opened, its words arrive
once and in order, it is closed. `HpsFrames` has the frames, function by function
(`HPS_io_file_tx_data`, `OSD_HPS_spi_write`, ...). `HpsSpi` is the strobe loop:
the firmware loads and stores the output register, whose copy it reads back
is three port clocks old; the port turns a rising strobe into a one-clock
pulse and holds the acknowledge while the slave asks it to wait. `FramesArrive`
is the refinement: `INSTANCE HpsBus` with the history variables `frame` and
`taken`. `Gap` says how many port clocks lie at least between a store at the
end of a call and the next load of the register: 3, for which the nops in
`spi.cpp` are there (74.25 MHz against 42.95 MHz; with 0 the enable of a frame
is lost, which is the mutant). The slave behind `IO_FPGA` is not connected in
this core.

### CdMailbox

A word crosses the bus in one step, which is what `HpsSpi` shows. The FPGA posts
messages between any two words; `CommandWord` is the poll of the counter,
`ReadWord` a word of the message, `SendWord` a word of a status, a mount or a
block, `EndCall` the end of a frame. A message is remembered by the post its
words came from, so one put together from two posts can be told apart. `BlockBegins`,
`TakeLength` and `TakeBytes` are the data path of `main.sv` with its twelve bit
byte count.

### CueSheet, SheetMount

`CueName` is the name field of a track: a buffer of `NameSize` characters, which a FILE line
is written over from its start, again from the start behind every slash, without a NUL at
the end, and which nobody clears. What is opened is the text up to the first NUL: the name, a
blank, and what is left of the longer directory or name before. A name is thus a sequence of characters, in both
modules that extend it. The blank behind the name is always there; since the core works, the
host ignores blanks at the end of a path (`Trim`).

`CueSheet` takes a line a step. A line is a record of what `sscanf` and
`strstr` find in it; times are in sectors. The table of contents outlives a
mount (`Unload` clears as many slots as `toc.last` says, and none of their names), so a run mounts twice.
The error of a mount may be gone before the next, when the notice of another disc has taken its place and expired.
`spilt` records that `tracks[-1]` was written, which happens when the sheet has
no track. Its specification is `CueSpec`; `Spec` is that of `SheetMount`.
`TracksAsWritten` compares the table with what the author put on the
disc, `SectorsInPlace` the byte offsets that `ReadData` and `Update` compute
with the bytes of the file. Both speak of sheets that are `Plain`, in one of two
layouts. `OwnFiles`: a file for each track, all BIN or all WAV, with or without
PREGAP and INDEX 00, the first track starting with its file. `OneFile`: one BIN file
with all tracks, of one sector size, with or without INDEX 00. What the parser makes of
others is in section 5. `PlaceOf` is where a sector begins: the 16 bytes of sync and header that `ReadData`
skips in a data sector of 2352 bytes come after that.

`SheetMount` is the other half, the talk with the host. The firmware is cut
where it polls the command register; the registers keep the done and error
bits of the last command that ended. It assumes that a READ outlasts the 1000
polls that `dataslot_read` makes for an acknowledgement (`InTime`), or the firmware
hangs (`apf.cpp:116`), which `MountEnds` therefore does not see; that one poll
at most falls into the three clocks between a command and its being taken
(`Settled`); that a user's change of the slot is noticed while the host has
nothing under way; and that paths contain a slash. `SheetIsRight`,
`OpenedBesideTheSheet` and `FailureIsReported` speak of a mount that found nothing
under way at the host (the history `alone`): when the cache still reads ahead,
`GetFileNameDataSlot` sees the done bit of that READ. `OpenedBesideTheSheet` speaks of the files
that were opened: a name with something left behind it is asked for, too (`PathStripped` is
false), and the host does not have it. That it does not is `NoneLonger` here and `FilesApart` in
`CueSheet`: no file beside the sheet has a name that goes on, behind a blank, where one
of a FILE line ends.

### CdAddress, SeekTime

`CdAddress` has the bytes: BCD digits, the 150 sectors of lead-in, the three
address modes of SAPSP and SAPEP, the 21 bits of READ6, and what GETDIRINFO and
READSUBQ answer. The console's part, external, is every command by which a
place can be named, the times of the directory included. `SeekTime` is the table
and the time function of `seektime.cpp`, and the actions `Read6`, `Sapsp` and
`Sapep` on a disc of three tracks without the fast seek bit; the history `meant`
is what the console had in mind.

### PollTimer, MainLoop

`PollTimer` keeps the millisecond counter and `poll_timer` modulo `Range`, and
as history the true time past the deadline (`lag`) and the drift of the
13/14 ms pattern. `adj` is a byte. `MainLoop` follows the turn of `main.cpp`:
notice, settings, polls, info or expiry, error screen, reset. A timer in it is
the time that is left. `pcecd_poll` is there what it does to errors and
screens.

### Heap

Addresses are words. `free` reads and writes a header in two steps and takes no
lock, so it falls between any two header accesses of `malloc`, the compactor or
a statistic, of which one runs at a time. `StatisticsWhen` restricts the
statistics to a heap that is full: called at any time they leave the free
pointer on a block they have joined to another (`malloc.c:249`), and `NoOverlap`
fails. Its specification is `HeapSpec`. `Allocates` is the refinement: `want` is the size of the call under way,
`owned` what callers hold, with lengths; the compactor, a statistic and the two halves
of `free` but the first are steps that no caller sees.

## 3. Runs

| Run | Shows |
|---|---|
| `sound_console` | `OneAnswer`: a waiting console is owed exactly one answer, wherever it is on its way, and one that does not wait is owed none. `AnswerComplete`: at the status phase all data of the command has been received, in order. `CheckConditionExplained`, `CommandKept`: sense data, the mailbox slot. `ServiceGiven`: drive, mailbox and target implement `CdService`. Three tracks, thirteen commands, a reset at any point, a mount that may fail, a FIFO of two pieces. |
| `any_console` | `NoSecondAnswer`, `IndexTracksLba` and `MountNotified` for a console that also reads past the track and the disc, plays where there is nothing, and drives whose disc was mounted with some or none of its tracks (a BIN file missing); two resets. |
| `live_console` | `CommandAnswered` and `ResetServed` under `FairSpec`. |
| `cache` | `DeliveredRight`: for any requests in two files, with changes of file at any time, what is delivered is right unless a command has failed and no file was opened since. `RequestServed`: with a missing file and failing READs too, the firmware never waits for ever (for a host that is slow enough, see above). One host finds both files and fails no READ, the other lacks one and fails READs. |
| `hps_link` | `FramesArrive` (the refinement), `FramesEnd`, `ReplyIsToThisWord` for the transport; `TornIsReread`, `LastMessageActedOn`, `StatusWhole`, `BlockWhole` for the mailbox on it. |
| `mount` | `SheetIsRight`, `OpenedBesideTheSheet`, `FailureIsReported`, `MountEnds` for what a mount asks of the host; `TracksAsWritten`, `SectorsInPlace`, `LossIsReported` for what the parser makes of the sheet. |
| `main_loop` | `NoDrift`, `DeadlineNear` (steps of the drive); `CrossesTheTracks`, `FurtherIsLater` (seek times), `PlaceIsMeant` (addresses); `ErrorShown`, `NoticeGoes` (screens); `NoOverlap`, `NullMeansFull` and the refinement `Allocates` (heap, with `free` between any two header accesses). |
| `play_past_end` | finding: one sector behind the disc is played. |
| `seek_latency` | finding: seeks take no time once a disc is mounted. |
| `mount_stale_error` | finding: `GetFileNameDataSlot` takes an earlier command's error for its own. |
| `mount_names` | finding: what is opened is not the FILE line's name without its directories. |
| `read_unreported` | finding: a READ that fails is not shown, and what is sent is not in the file. |

### Bounds

* `ReqMod` of `PceCdSystem` 5 instead of 256: with the bounds below at most four
  messages are posted between two polls (two or three times "FIFO empty", a
  command, a reset), so a counter modulo 5 never comes round to the value last
  seen, as one modulo 256 does not.
* Tracks of one or two sectors, reads of one to three: enough for a read to end
  inside a track, at its end, in the next track of another kind and behind the
  disc, and for `HuVideoBlocks` and `SherlockBlocks` (120 and 252 in the code)
  to be recognised or not.
* `Chunks` 2 with a FIFO of 2 or 3: full and empty inside a sector, and two
  sectors in the FIFO at once.
* `MaxResets` 1 or 2, `LbaBound` 5 (a play that never ends is cut by the
  guard of `IssueCommand`).
* Cache: buffers of 3 cells and sectors of 2, which lie inside a buffer, end with it or
  straddle two; files of 8 and 4 cells; requests at 0, 3, 5 and 8 with the good host (the start, the next
  buffer, the middle of one, the end and, in the shorter file, behind it), at 0 and 8 with the bad one.
* Transport: five frames, one of each kind of call, of two to four words; a FIFO
  that fills at any word; `Gap` 3. Mailbox: `ReqMod` 4 with `MaxPosts` 2 a
  run, blocks of 0, 2 and 3 bytes, two statuses, both regions.
* Mount: two sheets, in the root and in a directory, the user may change between them at any
  time; names of one to three characters in fields of six, a line with a directory longer than its name,
  a directory that exists below the sheet's too; a path is followed as long as it has four characters at
  most when a mount begins (`MaxPath`: it grows with each mount whose GETFILENAME fails after a slash has moved it), and a
  mount begins when no command of the mount before is under way (`MaxUnended`). Discs for the parser, from three good ones (one file; a
  file for each track with both kinds of pregap; WAV files), each with a line
  left out or one of seven put in, and two of which a file is not found: one is not there, one has a longer
  directory before it; two mounts a run, so that each sheet follows each
  other one; room for three tracks, so that the table runs full.
* Main loop: a counter of 50 values that starts anywhere and stops short of
  wrapping around (where `DeadlineNear` ends; `Average` is proved beyond it), polls up to 5 ms apart; 23 sectors at the ends of groups and at the steps of the time function,
  every pair of them, with three tracks and a pregap; a notice of 3 units that outlasts an info
  screen of 2; two files of which one is missing; two events a run.
* Heap: 7 words and requests of 1 to 3, enough for three blocks, for the
  compactor to join two and three, and for a request that does not fit.

### Fairness

`FairSpec` of `PceCdSystem` assumes what the code's structure gives: the main
loop polls for ever (weak fairness of `Firmware`), the millisecond timer runs
on (strong fairness of `TimerExpired`, as it is enabled only in one part of
each poll), the target is clocked, and console software that is in a transfer goes
on with it and releases a reset line it holds. No fairness on issuing commands
or resets. `FairSpec` of `SectorCache`: the firmware goes on with a seek and a
delivery, the host carries out what it was given. `HpsSpi`: the firmware goes
on, the port is clocked, a full FIFO is drained (by the console or the DAC).
`CdMailbox`: a call that was begun is ended, and the loop comes to `pcecd_poll`
again however many other calls it makes (strong fairness of `PollCounter`, which is
disabled during them). `SheetMount`: `LoadCUE` runs on and the host carries
out what it is given. `MainLoop`: the loop turns, the counter counts. Nothing is
assumed of users and consoles.

## 4. Proofs

All theorems hold for every value of the constants that the modules' named
assumptions and the conditions given here allow.

### The system (`PceCdSystemProofs`)

* `TypeCorrect`: `Spec => []TypeOK`, without further conditions. Beside the
  types it says that the track index stays within the table of contents, that
  the FIFO never takes more than it can and that a data phase has data to hand
  over.
* `MountIsNotified`: `Spec => []MountNotified`. The port queue is followed write by
  write: the last mount write in it, or `cd_en` if there is none, agrees with
  `loaded`.
* `IndexIsTrack`: `Spec => []IndexTracksLba`. A read advances its index by one track at
  most for each sector, and `GetTrackByLBA` is the one track that ends behind
  the sector and has none before it that does (`GetTrackByLBAUnique`); so the two agree also in
  the gap before a track and behind the last.

### The answers (`PceCdAnswerProofs`)

Under `Orderly`:

* `NoAnswerTwice`: `Spec => []NoSecondAnswer`.
* `CommandNotLost`: `Spec => CommandKept`, an action property.
* `CheckIsExplained`: `Spec => []CheckConditionExplained`.

Under `Orderly` and `CarefulConsole`:

* `ExactlyOneAnswer`: `Spec => []OneAnswer`.
* `AnswerIsComplete`: `Spec => []AnswerComplete`.
* `DriveServes`: `Spec => ServiceGiven`, the refinement of `CdService`.

`Orderly` is

- `PatientReset`: a reset lasts until the firmware has remounted. `SCSI_RST`
  is a level, but the firmware sees only the message it causes, so an answer that is
  in the port queue when a short reset ends would arrive unasked.
- no SAPSP in mode INTERRUPT: the code answers one at once and again at the
  end of the play (`cue.cpp:653`, listed as a hazard).
- `ReqMod > Chunks + 2`: the counter in `hps_ext.v` has 8 bits, and "FIFO
  empty" is posted as often as the FIFO runs empty. If it ran empty after every
  word of a sector, 256 of these messages could fall between two polls and
  the firmware would see no change. The proof needs room for the pieces of
  one sector, a message before them and a command or reset after.

`CarefulConsole` says that the console reads no sector but those of data tracks
that are mounted: a READ6 that leaves the table of contents ends without a status (`cue.cpp:328`, listed
as a hazard), and one of two or more sectors is cut short.

None of these is inductive. `AnswerInv` adds what
carries the first three: `ResetOver` and `ResetAtRest` say when a reset has ended and that
nothing is owed then; `PieceBeforeAnswer` says that data in the port queue is
followed by its answer, so that `CommandAlone` holds: a new command finds the
FIFO empty, and no "FIFO empty" can overwrite it in the slot;
`CounterBehind` bounds how far the counter can run before the next poll;
`Bus` ties phase, FIFO and pending status together. `Owed` counts the places
where an answer can be, and each lemma shows that its step moves an answer from one
of them to another or takes it away. There is one lemma per action;
`ThreadStepKeeps`, `WriteKeeps` and `OutsideKeeps` hold what the steps of the
firmware, of the port queue and of the other side have in common, `AnswerStep`
puts them together.

`SoundInv` (`SoundInvariant`) adds what
makes an answer come and be whole. `CommandMeant`: the command in the slot is the one the
console waits for. `ReadGoesOn`: a read has its remaining sectors before it
and all of them are readable. `AnswerComes`: a waiting console is owed something
somewhere. `DataInOrder`: what the console has got, the FIFO and the pieces in
the queue are, one behind the other, the data of the command up to what
the drive has sent. `FifoIsRead` and `ParametersAlone` say that a FIFO that is not empty
is in its data phase, and that no "FIFO empty" can take the place of parameters. At the status phase nothing is left in queue or FIFO,
so all of the data is at the console.

For the refinement `NothingLeft` is added: between two commands the FIFO is
empty. There is one lemma per action of `CdService`: `IssueAsks`, `TakeDataDelivers`,
`TargetStepAnswers`, `TakeStatusTakes`, `HoldResetResets`; `FirmwareUnseen` says that the
other steps, the port writes among them, change nothing the software sees.
`DataSettled` is what they share: the data a command returns depend on the mounted
disc, and that changes only within a reset, when no command is under way.

### The sector cache (`SectorCacheProofs`)

* `TypeCorrect`: `Spec => []TypeOK`. The invariant is `TypeInv` = `TypeOK` and
  `Shape`; `Shape` is needed because the offset into a buffer is computed from
  an address two steps after the address was compared.
* `DeliveryCorrect`: `Spec => []DeliveredRight`, from `LongFiles`: every file is
  longer than a buffer, for a file no longer than one leaves buffer 1 enabled with
  address 0 and never loaded (`fileio.cpp:162`). Files may be missing, READs may
  fail, and the drive may ask for another file while the cache reads ahead
  (`fileio.cpp:113-118`). `DeliveredRight` excuses the cells
  delivered while `lost`, that is after a command has failed and before an OPEN is
  seen to succeed: what these cells are is finding `read_unreported`.

`DeliveredRight` speaks of cells already
sent, so the invariant must say that the cells still to be sent are right.
`LostInv` is `TypeInv`, `Opening` and, unless `lost`, `Inv`. `Opening` holds whatever
has failed: the executor takes a queued OPEN when the command before it ends, and
before the firmware has written a register, so the OPEN the firmware waits for is the one that
ends last, and if it shows no error the file of its name is open. It is what restores `Inv` after a failure.
`Inv` has these parts.
`Buffers` says that every cell of both buffers is what its address says, lies
behind the end of the file, or belongs to the transfer under way. `Transfer`
says that this transfer loads the buffer that is *not* in use. `Decision` says
why: a sector inside the buffer in use needs no other cell; a sector inside the
other buffer makes that one the buffer in use, and the step that does so waits
for the transfer and reloads the first; a sector across the two waits as well.
`Delivery` carries this through the delivery itself. `OneCommand` and
`OpenFile` say that the done bit belongs to the command in question and the
file open at the host is the one the firmware takes to be open, or will be when the OPEN
behind a READ has ended. There is one
lemma per action; `Refill` and `FreshBuffer` are the two steps that start a
load, `MoveCellInv`, `ReadFinishedInv`, `OpenFinishedInv` and `StartQueuedInv` the host's part.

### The transport (`HpsSpiProofs`)

For all frames of a word or more, all words that make a slave wait, and every `Gap` of 3 or more:

* `StrobeInvariant`: `SpiSpec => []SpiInv`.
* `FramesArriveWhole`: `SpiSpec => FramesArrive`, that is, every step of `HpsSpi` is a
  step of `HpsBus` or changes none of its variables.
* `ReplyBelongs`: `SpiSpec => ReplyIsToThisWord`.
* `SpiTypesHold`: `SpiSpec => []SpiTypeOK`, among it that the firmware never counts past the
  words of its frame.

`SpiInv` follows the output register on its way to the pins: `Resting` between
frames, `Opening` until the first word (the selection moves one stage further with each
clock, which is where `Gap` is used), `Sending` (how many words the slave has
taken), `Strobing` (a strobe, and its end, are never overtaken: each of the four stages is
at most as far as the one before, and acknowledge and reply come after the last).

### The mailbox (`CdMailboxProofs`)

From `CallsAssumption` (a block has fewer than 4096 bytes, the width of the byte
count in `main.sv`; the firmware sends at most 2448):

* `TornHolds`: `Spec => []TornIsReread`, a message put together from two posts
  is never the last one, for the counter, read first, has moved on since.
* `BlockTakenWhole`: `Spec => []BlockWhole`, exactly the bytes of a block reach the
  FIFO, with an odd number of them or none too.
* `StatusTakenWhole`: `Spec => StatusWhole`, an action property.

The invariant `MailInv` has one part for each kind of call: `AtRest`, `Polling`
(until another message comes, the words read are the first of the one that is
there), `Setting`, `Mounting`, `Streaming` (the bytes taken and the words
still to be sent make up the block).

### The mount (`MountProofs`)

The talk with the host, for all sheets, names, files and paths that contain a slash:

* `ParsesItsSheet`: `Spec => []SheetIsRight`, and
* `OpensBesideItsSheet`: `Spec => []OpenedBesideTheSheet`, both from `NoneLonger`: no file of the
  disk has a name that goes on behind a blank where the name of a FILE line ends. That file is
  what a tail left in the slot could name (`cue.cpp:104-111`), and opens (finding `mount_names`);
  any other tail names no file, and the mount ends in an error.
* `FailedMountIsReported`: `Spec => FailureIsReported`, an action property, without conditions.

`MountInv` follows a mount that is `Undisturbed`: it began with nothing under way
at the host and has met no error. `Phases` then says for each place where the firmware waits
that the one command at the host is its own (`Waiting`), and that what the command
leaves, if it ends well, is what the next step will use: the name of the sheet, its directory,
its text, the file beside it. A command that fails is the one waited for, and
every wait ends in an error code then, which stays until the mount is over (`CodeStays`).
`TextBegins`, `TrimmedName` and `BesideSheet` follow the name of a FILE line into the
path that is opened: the slot begins with the base name, a NUL or a blank comes behind it, and a
slash in what follows makes it another name than any file has. `PathIsDirectory` is what
the loop over the path does: the path up to its last slash.

The parser, for all discs, any number of tracks and loads. The first three have the
condition `FilesApart`, which is `NoneLonger` for the names of `CueSheet`; an error of an earlier mount
may stand or have been cleared (`main.cpp:91`).

* `MountsWhatIsWritten`: `CueSpec => []TracksAsWritten`.
* `SeeksWhereItIs`: `CueSpec => []SectorsInPlace`.
* `ShortDiscIsReported`: `CueSpec => []LossIsReported`.
* `ParserTypes`: `CueSpec => []CueTypeOK`, for every sheet, plain or not: no more tracks than room,
  a type and a sector size that exist for each, and `tracks[-1]`, which is the
  flags of the drive, written only by a sheet without any track.

What `LoadCUE` makes of a sheet depends on all of its lines, on what the table held
before, and on how the load before it ended. `TableInv` deals with the last two: slots
beyond `toc.last` have no end (`Unused`), which is the one field a load reads before
writing it. In `PlainInv` the place of the next line tells the state of the parser: at
line `s` of the `i`th track the tracks before are done and this one is half
done. `OwnAt` says how, for a file for each track: the first track has no end until the second
FILE is followed by a TRACK (`OwnBegun`), every other has its end with its INDEX 01. `OneAt` says it for one file:
a track's end comes with the next track's INDEX 00, or 01 if there is none. `OwnStep` and
`OneStep` take this from line to line, `OwnAllRight` and `OneAllRight` past the last to
`AllRight`, the table that must come out. `OwnSays` and `OneSays` are what a plain sheet says of
one track, `WholeSectors` the division of a file's size by that of a sector, `CopiedText` and `FoundName`
that a file that was found is that of its line.

### The main loop (`MainLoopProofs`)

Addresses, for every table of contents that `LoadCUE` can make and whose times have two
digits of minutes (`Disc`):

* `SearchGoesThere`, `SoundStopsThere`, `ReadStartsThere`: whichever
  command names the place, by number, time, the directory's time or track, SAPSP,
  SAPEP and READ6 compute this place, the end of the disc and a track behind the 99th
  included.
* `SubQTells`: the times of READSUBQ are those of the sector, except in a pregap.
* `HeadIsWhereMeant`: `SeekSpec => []PlaceIsMeant`, any sequence of commands.

The argument: two digits
survive BCD (`DigitsOfByte`), minutes, seconds and frames put together again
are the number they were taken from (`TimeOfSectors`, `DigitsTell`), and so are
three bytes (`ThreeBytes`).

Seek times, of the branch without the fast bit and for targets that the table of `seektime.cpp` covers (`TableCovers`: its
groups end with sector 333012, 74 minutes):

* `TracksAreCounted`: `SeekSpec => []CrossesTheTracks`.
* `FurtherTakesLonger`: `SeekSpec => []FurtherIsLater`.

`GroupTable` looks the table up group by group: the groups follow each other, have 1606
tracks each but the first and the last, and `FirstTrack` adds them up.
`GroupSplits` says that a sector splits the tracks of its group in two, one lost to rounding
at most; so `DifferenceIsDistance` and, as 1607 for a group between is not
too few, `DifferenceOutward`. `TimeOutward` passes that through the steps of the time
function, for which `NearIsFew` is needed: sectors at most 6 apart are not on far tracks.

The clock, for every width of the counter and every spacing of polls below a frame:

* `Pace`: before the counter wraps and without a reset no step is early and
  none is put off by more than a turn of the loop.
* `Average`: `Spec => []NoDrift`, with resets and wrap-arounds.
* `DeadlineStaysNear`: `Spec => []DeadlineNear`, with resets, before the counter wraps.

`CounterTellsLag` says
that the difference of counter and deadline is the true lag, `AdjTellsDrift` that
the value of `adj` is the phase of the 13/14 ms pattern.

The screen, for all files, waits and times: `ErrorIsShown`: `LoopSpec => []ErrorShown` (of all
rows but the seventh, which no screen clears, `osd_menu.cpp:183-188`), and the types of the loop's state, `ScreenTypes`:
`LoopSpec => []LoopTypeOK` (this one assumes that a notice is shown for at least as long as the
information screen, `LoopAssumption`).

### The heap (`HeapProofs`)

With the statistics called only on a full heap: `NoOverlapHolds`, `NullOnlyWhenFull`
and `HeapAllocates`: `HeapSpec => Allocates`. The invariant `IInv`: the headers are a chain without a gap from the
first word to the end node, whatever `free` does in between (`blocks` is the
history of where they are); what callers own is used blocks of it (`Owned`); `MemFree`
is a free block except while the compactor looks for another (`FreePointer`);
and the run that the compactor has gathered is free blocks and nothing else
(`Run`). So what is cut off the free block is nobody's and as long as asked for
(`TakeGives`, `FreeSpaceFound`), and joining blocks changes nothing that is owned
(`MergeSparesOwned`). `NothingPassed` adds, for a call during which nothing is freed, that every run
of words the compactor has left behind and that is long enough has a used block in it.

### Only model-checked

* Liveness (`CommandAnswered`, `ResetServed`, `RequestServed`, `FramesEnd`,
  `LastMessageActedOn`, `MountEnds`, `NoticeGoes`), which is out of the prover's
  reach; `FramesEnd` is the fairness of `HpsBus`, the other half of the refinement.

## 5. Findings

1. `play_past_end`: `Update` advances `lba` before it tests `lba > CDDAEnd`
   (`cue.cpp:419`); with `CDDAEnd = toc.end` the sector behind the disc is
   played and a file with no name is sought.
2. `seek_latency`: bit 7 of the command's last byte is "fast seek (OSD
   setting)" for the firmware (`cue.cpp:562`) and `cd_en` in `main.sv:320`.
3. `mount_stale_error`: the error bits keep the result of the command before
   until the new one ends, and `GetFileNameDataSlot` tests them from its first
   poll (`apf.cpp:354`); `MPU_AFP_CORE.v:60` says they are the result of the
   command. They may be the result of any earlier command, also of a READ of the cache.
4. `mount_names`: the loop that is to "strip out path info" (`cue.cpp:107`) starts
   over at `name[0]` behind a slash and writes no NUL, so the line
   `FILE "Dracula X/t.bin"` opens `t.bin a X/`; a longer name that an earlier sheet left in the
   slot does the same, for `Unload` (`cue.cpp:270-288`) clears no names.
5. `read_unreported`: a READ of the cache that fails sets no error code
   (`apf.cpp:224`), and the drive sends what the buffer holds, with GOOD;
   `src/README.md:136` says that a problem with reading a file is shown, `src/README.md:59` that it
   is checked at run time.

Seen while modelling; no text of the repository contradicts them, so no run
claims them:

* `apf.cpp:418`, `core_bridge_cmd.v:537`: an OPEN queued behind a READ sees the end of the
  READ if the poll falls in the one clock between the two, and goes on while the OPEN is under way;
  harmless unless the OPEN then fails. It does when the READ, a transfer into buffer 0, writes over
  the name: then the data of the file before are delivered, with error 2, or without one in that clock.
  `apf.cpp:421`: an OPEN may report the error of an earlier command.
* `apf.cpp:211`, `apf.cpp:116`: a host that ends a command within the polls for its acknowledgement
  leaves the firmware waiting for ever.
* `pcecd.cpp:67-80`: a command posted between the counter and its seven words is acted on, and,
  its count being new, again at the next poll.
* `cue.cpp:653`: SAPSP in mode INTERRUPT is answered at once and again at the end of the play.
* `apf.cpp:330`: the clearing loop of the path goes one byte past its end.
* `cue.cpp:64`: a line with no character ends the sheet. `cue.cpp:109`: a FILE
  line with a directory reads `name[-1]`. `cue.cpp:120`: the 44 bytes of a WAV
  header stay for the next file. `cue.cpp:169`: a file of several tracks followed
  by another file has a wrong end; the first track of a sheet with a file for each
  track, which only the second FILE's TRACK line tells from these, has a wrong place or end when it has a
  PREGAP or its INDEX 01 is not 0. `cue.cpp:233`: so has a PREGAP inside a file
  of several tracks. `cue.cpp:232`: a sheet without a track writes `tracks[-1]`.
* `cue.cpp:87`: a remount clears both buffers and leaves the caches enabled for
  the same name.
* `cue.cpp:706`: READSUBQ in the pregap before a track answers with bytes that
  are no digits.
* `pcecd.cpp:37`: after a reset the deadline is 0, and every poll is a step
  until it has caught up. `timer.cpp:132`: the comparison fails once every 49
  days.
* `pcecd.cpp:148`: a result of `LoadCUE` that sets no error code is shown once, and
  the info screen takes its place within 200 ms. `osd_menu.cpp:200`: the screen names the file opened last, which need
  not be the one that failed. `pcecd.cpp:101`: `apf_data_already_streamed` is never
  cleared.
* `seektime.cpp:50`: a sector behind 333012, on a disc of more than 74 minutes, is in no
  group and is taken for one of the first.
* `malloc.c:249`: the statistics may leave the free pointer inside a joined block.

## 6. Not modelled

* Not this project's logic, or none: the console CPU, video, sound and memory
  cores, the generated RISC-V CPU, the drawing of characters, UART, printf and scanf,
  the platform's JSON files.
* The REQ/ACK handshake of a single byte in `SCSI.vhd`, ADPCM, the fader and the
  interrupts of `cd.vhd`: phases are what the firmware can see of them.
* The host side of `core_bridge_cmd.v` (the host's commands to the core) and
  `dataslot_write`, which the drive does not use.
* A remount under the sector cache and two sector sizes in one file: `SectorCache`
  has one size and no remount. Negative offsets of a request, and the 16 bytes that `ReadData`
  skips in a data sector of 2352 bytes (`cue.cpp:809`).
* The transitions between the parts of a sum, for they have none: `SeekTime`
  gives `CueDrive` the values of `SeekTicks`, `CueSheet` its discs and
  `LoadResults`, `PollTimer` its ticks, `HpsSpi` its port writes, each as an
  assumption of the other module that its own run checks.
