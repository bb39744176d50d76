------------------------------ MODULE MainLoop ------------------------------
(***************************************************************************)
(* The loop of main.cpp: the notice of a changed data slot, the error code *)
(* and what it puts on the screen, the settings of the menu and the reset  *)
(* that the user asks for.  pcecd_poll is here only what it does to these: *)
(* it may mount a disc, open files, stream sectors and take a reset        *)
(* message of the console (CueDrive has the rest of it).                   *)
(*                                                                         *)
(* A timer is the time it has left, so its counter does not wrap around    *)
(* here (PollTimer has that).  A row of the screen is what was written to  *)
(* it; a text and the rows it takes are one thing.                         *)
(***************************************************************************)
EXTENDS Integers

CONSTANTS
  Files,        \* BIN files of the disc
  Missing,      \* those the host does not have
  NoticeTime, InfoTime,   \* 15000 and 200 ms
  Waits,        \* what timer_disply_for_wait counts
  MaxDelay,     \* bound: sum of these waits that the info screen comes to show
  MaxEvents     \* bound: what user and console do in a run

ASSUME LoopAssumption == NoticeTime \in Nat /\ InfoTime \in 0..NoticeTime

VARIABLES
  pc,                       \* the next part of the loop
  file_error_code, display_cd,
  aft,                      \* the name in aft: the file opened last
  osd,                      \* the on-screen display: [on, height, rows]
  timer_wait_value, frame_counter,
  apf_data_already_streamed, loop_need_reset,
  update,                   \* latch of MPU_AFP_CORE: a data slot was changed
  restart, menu, settings,  \* AFP_REGISTOR 0, 2 and 1
  region, core_output, running,
  message,                  \* a reset message of the console waits
  events

screenVars == <<osd, timer_wait_value, frame_counter>>
errorVars  == <<file_error_code, aft>>
driveVars  == <<apf_data_already_streamed, loop_need_reset>>
inputs     == <<update, restart, menu, settings, message, events>>
outputs    == <<region, core_output, running>>
loopVars == <<pc, errorVars, display_cd, screenVars, driveVars, inputs, outputs>>

NOTICE      == 6
NOT_FOUND   == 2
LOAD_FAILED == 3
RESTARTED   == 5
Codes  == {0, NOT_FOUND, LOAD_FAILED, RESTARTED, NOTICE}

(* The text of a row: an error (with the file it names), the debug info    *)
(* (with the delay it shows), or nothing.                                  *)
Text(kind, n, file) == [kind |-> kind, n |-> n, file |-> file]
BlankRow == Text("blank", 0, "none")

LoopInit ==
  /\ pc = "update"
  /\ file_error_code = 0 /\ display_cd = InfoTime /\ aft = "none"
  /\ osd = [on |-> FALSE, height |-> 0, rows |-> [r \in 0..15 |-> BlankRow]]
  /\ timer_wait_value = 0 /\ frame_counter = 0
  /\ apf_data_already_streamed = FALSE /\ loop_need_reset = FALSE
  /\ update = FALSE /\ restart = FALSE /\ menu = FALSE /\ settings = {} /\ message = FALSE
  /\ region = 0 /\ core_output = 0 /\ running = TRUE
  /\ events = 0
-----------------------------------------------------------------------------

(* OsdWrite, OsdUpdate, OsdClear for each row of a message, InfoEnable.    *)
Show(rows, height, text) ==
  osd' = [on |-> TRUE, height |-> height,
          rows |-> [r \in 0..15 |-> IF r \in rows THEN text ELSE osd.rows[r]]]

(* Mutant: the notice is shown with one row too many. *)
ErrorScreenTall(code, file) ==
  CASE code = NOTICE    -> Show(0..11, 13, Text("error", code, "none"))
    [] code = RESTARTED -> Show(0..10, 11, Text("error", code, "none"))
    [] OTHER            -> Show((0..14) \ {7}, 15, Text("error", code, file))

(* osd_display_error_dataslot: nothing is written to row 7 of the third.   *)
ErrorScreen(code, file) ==
  CASE code = NOTICE    -> Show(0..11, 12, Text("error", code, "none"))
    [] code = RESTARTED -> Show(0..10, 11, Text("error", code, "none"))
    [] OTHER            -> Show((0..14) \ {7}, 15, Text("error", code, file))

(* osd_display_info.                                                       *)
InfoScreen ==
  IF menu
  THEN /\ Show(0..1, 2, Text("info", timer_wait_value, "none"))
       /\ IF frame_counter # 0
          THEN frame_counter' = frame_counter - 1 /\ UNCHANGED timer_wait_value
          ELSE timer_wait_value' = 0 /\ UNCHANGED frame_counter
  ELSE /\ osd' = [osd EXCEPT !.on = FALSE]
       /\ UNCHANGED <<timer_wait_value, frame_counter>>

(* OpenFileNameDataSlot as far as the user sees it.                        *)
Open(f) ==
  /\ aft' = f
  /\ IF f \in Missing \cup {"none"} THEN file_error_code' = NOT_FOUND
                                     ELSE UNCHANGED file_error_code

Go(from, to) == pc = from /\ pc' = to

-----------------------------------------------------------------------------

(* The latch is cleared by the read.                                       *)
CheckUpdate ==
  /\ Go("update", "poll")
  /\ IF update
     THEN update' = FALSE /\ file_error_code' = NOTICE /\ display_cd' = NoticeTime
     ELSE UNCHANGED <<update, file_error_code, display_cd>>
  /\ UNCHANGED <<aft, screenVars, driveVars, restart, menu, settings, message, events, outputs>>

(* pcecd_poll: LoadCUE opens files up to the first that is missing, cannot *)
(* read the sheet (error 3, and no tracks), or returns another result, for *)
(* which pcecd_set_image shows an error of its own.                        *)
Remount ==
  /\ pc = "poll" /\ loop_need_reset /\ pc' = "tick"
  /\ loop_need_reset' = FALSE
  /\ \/ \E f \in Files : Open(f) /\ UNCHANGED screenVars
     \/ file_error_code' = LOAD_FAILED /\ UNCHANGED <<aft, screenVars>>
     \/ \E result \in {100, -1} :
          /\ ErrorScreen(result, aft)
          /\ UNCHANGED <<errorVars, timer_wait_value, frame_counter>>
  /\ UNCHANGED <<display_cd, apf_data_already_streamed, inputs, outputs>>

NoRemount == Go("poll", "tick") /\ ~loop_need_reset
             /\ UNCHANGED <<errorVars, display_cd, screenVars, driveVars, inputs, outputs>>

(* A drive tick without a sector, or with one: the file of the track is    *)
(* opened if it is another one (the slot behind the last track has no      *)
(* name; no track has a file that LoadCUE could not open), and what the    *)
(* seek waited for is added up for the info (osd_display_info_update).     *)
(* Only a sector of data counts as streamed.                               *)
Tick ==
  /\ Go("tick", "mail")
  /\ \/ UNCHANGED <<errorVars, apf_data_already_streamed, timer_wait_value, frame_counter>>
     \/ \E f \in (Files \ Missing) \cup {"none"}, w \in Waits, data \in BOOLEAN :
          /\ timer_wait_value + w <= MaxDelay
          /\ IF f = aft THEN UNCHANGED errorVars ELSE Open(f)
          /\ apf_data_already_streamed' = (apf_data_already_streamed \/ data)
          /\ timer_wait_value' = IF menu THEN timer_wait_value + w ELSE timer_wait_value
          /\ frame_counter' = IF menu /\ w > 0 THEN 2 ELSE frame_counter
  /\ UNCHANGED <<display_cd, osd, loop_need_reset, inputs, outputs>>

Mail ==
  /\ Go("mail", "regs")
  /\ IF message
     THEN /\ message' = FALSE /\ loop_need_reset' = TRUE
          /\ file_error_code' = IF apf_data_already_streamed THEN RESTARTED ELSE file_error_code
     ELSE UNCHANGED <<message, loop_need_reset, file_error_code>>
  /\ UNCHANGED <<aft, display_cd, screenVars, apf_data_already_streamed,
                 update, restart, menu, settings, events, outputs>>

CoreRegUpdate ==
  /\ Go("regs", "expire")
  /\ region' = IF "region" \in settings THEN 1 ELSE 0
  /\ core_output' = IF "arcade" \in settings THEN 2 ELSE 0
  /\ UNCHANGED <<errorVars, display_cd, screenVars, driveVars, inputs, running>>

(* Mutant: the notice does not go. *)
ExpireNever ==
  /\ Go("expire", "show")
  /\ IF display_cd = 0 /\ file_error_code = 0
     THEN InfoScreen /\ display_cd' = InfoTime
     ELSE UNCHANGED <<display_cd, screenVars>>
  /\ UNCHANGED <<errorVars, driveVars, inputs, outputs>>

Expire ==
  /\ Go("expire", "show")
  /\ IF display_cd = 0 /\ file_error_code = 0
     THEN InfoScreen /\ display_cd' = InfoTime /\ UNCHANGED file_error_code
     ELSE IF display_cd = 0 /\ file_error_code = NOTICE
     THEN display_cd' = InfoTime /\ file_error_code' = 0 /\ UNCHANGED screenVars
     ELSE UNCHANGED <<display_cd, file_error_code, screenVars>>
  /\ UNCHANGED <<aft, driveVars, inputs, outputs>>

ShowError ==
  /\ Go("show", "reset")
  /\ IF file_error_code # 0
     THEN ErrorScreen(file_error_code, aft) /\ UNCHANGED <<timer_wait_value, frame_counter>>
     ELSE UNCHANGED screenVars
  /\ UNCHANGED <<errorVars, display_cd, driveVars, inputs, outputs>>

(* full_core_reset: hold the core, take the request back, let the core go. *)
FullCoreReset ==
  /\ pc = "reset"
  /\ IF restart THEN pc' = "hold" /\ running' = FALSE /\ restart' = FALSE
                ELSE pc' = "update" /\ UNCHANGED <<running, restart>>
  /\ UNCHANGED <<errorVars, display_cd, screenVars, driveVars, update, menu, settings,
                 message, events, region, core_output>>

LetCoreGo ==
  /\ Go("hold", "update") /\ running' = TRUE
  /\ UNCHANGED <<errorVars, display_cd, screenVars, driveVars, inputs, region, core_output>>

Loop ==
  \/ CheckUpdate \/ Remount \/ NoRemount \/ Tick \/ Mail \/ CoreRegUpdate
  \/ Expire \/ ShowError \/ FullCoreReset \/ LetCoreGo

(* RISCGetTimer2 and RISCCheckTimer2 of display_cd: the time goes on.      *)
DisplayMillisecond ==
  /\ display_cd > 0 /\ display_cd' = display_cd - 1
  /\ UNCHANGED <<pc, errorVars, screenVars, driveVars, inputs, outputs>>

(* The user changes a slot, presses reset, works the menu; the console     *)
(* resets its drive.                                                       *)
Event ==
  /\ events < MaxEvents /\ events' = events + 1
  /\ \/ update' = TRUE /\ UNCHANGED <<restart, menu, settings, message>>
     \/ restart' = TRUE /\ UNCHANGED <<update, menu, settings, message>>
     \/ menu' = ~menu /\ UNCHANGED <<update, restart, settings, message>>
     \/ settings' \in SUBSET {"region", "arcade"} /\ UNCHANGED <<update, restart, menu, message>>
     \/ message' = TRUE /\ UNCHANGED <<update, restart, menu, settings>>
  /\ UNCHANGED <<pc, errorVars, display_cd, screenVars, driveVars, outputs>>

LoopNext == Loop \/ DisplayMillisecond \/ Event

LoopSpec     == LoopInit /\ [][LoopNext]_loopVars
(* The loop polls for ever and the counter counts.                         *)
LoopFairSpec == LoopSpec /\ WF_loopVars(Loop) /\ WF_loopVars(DisplayMillisecond)
-----------------------------------------------------------------------------

LoopTypeOK ==
  /\ pc \in {"update", "poll", "tick", "mail", "regs", "expire", "show", "reset", "hold"}
  /\ file_error_code \in Codes
  /\ display_cd \in 0..NoticeTime /\ frame_counter \in 0..2
  /\ osd.height \in {0, 2, 11, 12, 15}
  /\ running \/ pc = "hold"

(* At the end of every turn the screen shows the error that is set, and    *)
(* every row of it is this error's, the one that is never written apart    *)
(* (osd_display_error_dataslot and its place in the loop, behind all that  *)
(* may raise or clear an error).                                           *)
ErrorShown ==
  pc = "reset" /\ file_error_code # 0 =>
    /\ osd.on
    /\ \A r \in 0..osd.height-1 :
         \/ osd.rows[r].kind = "error" /\ osd.rows[r].n = file_error_code
         \/ r = 7 /\ file_error_code \notin {NOTICE, RESTARTED}

(* The notice goes, or another error takes its place.                      *)
NoticeGoes == file_error_code = NOTICE ~> file_error_code # NOTICE
=============================================================================
