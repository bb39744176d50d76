------------------------- MODULE PceCdAnswerProofs --------------------------
(***************************************************************************)
(* Proofs about the answers of PceCdSystem, for every disc, every set of   *)
(* commands and every size of the FIFO, of the pieces and of the counter,  *)
(* as long as the conditions of Orderly hold: no answer comes twice or     *)
(* unasked, no command is lost in the mailbox, a CHECK CONDITION can be    *)
(* explained; and, if the console asks only for what the disc can give,    *)
(* each command has exactly one answer, with all its data before it.       *)
(***************************************************************************)
EXTENDS PceCdSystemInv, PceCdSystemProofs

USE Sizes
USE DEF GOOD, CHECK, media, transport, cdda, answer

-----------------------------------------------------------------------------
(* Counting.                                                               *)
LEMMA OneType == \A b : One(b) \in {0, 1}
  BY DEF One

LEMMA MailOwesNothing ==
  /\ MailOwes \in Nat
  /\ MailOwes = 0 <=> ~Unread("command") /\ ~Unread("dataout")
  /\ MailOwes' \in Nat
  /\ MailOwes' = 0 <=> ~Unread("command")' /\ ~Unread("dataout")'
  BY DEF MailOwes, One

LEMMA DriveOwesNothing ==
  /\ DriveOwes \in Nat
  /\ DriveOwes = 0 <=> ~DrivePending
  /\ DriveOwes' \in Nat
  /\ DriveOwes' = 0 <=> ~DrivePending'
  BY DEF DriveOwes, DrivePending, One

LEMMA TargetOwesNothing ==
  /\ TargetOwes \in Nat /\ One(InQueue) \in {0, 1}
  /\ One(InQueue) + TargetOwes = 0 <=> ~AnswerUnderway
  /\ One(InQueue) = 0 <=> ~InQueue
  /\ TargetOwes' \in Nat /\ One(InQueue)' \in {0, 1}
  /\ One(InQueue)' + TargetOwes' = 0 <=> ~AnswerUnderway'
  /\ One(InQueue)' = 0 <=> ~InQueue'
  BY DEF TargetOwes, AnswerUnderway, One

(* Out of a reset the console is owed one thing at most.                   *)
LEMMA OwedOnce ==
  ASSUME NoSecondAnswer, ~rst
  PROVE  /\ MailOwes + DriveOwes + One(InQueue) + TargetOwes <= 1
         /\ asked = NoCommand => /\ MailOwes = 0 /\ DriveOwes = 0
                                 /\ One(InQueue) = 0 /\ TargetOwes = 0
<1>1. Owed <= One(asked # NoCommand)
  BY DEF NoSecondAnswer
<1>2. One(asked # NoCommand) <= 1 /\ (asked = NoCommand => One(asked # NoCommand) = 0)
  BY DEF One
<1>3. Owed = MailOwes + DriveOwes + One(InQueue) + TargetOwes
  BY DEF Owed
<1>4. /\ MailOwes \in Nat /\ DriveOwes \in Nat
      /\ One(InQueue) \in Nat /\ TargetOwes \in Nat
  BY MailOwesNothing, DriveOwesNothing, TargetOwesNothing
<1>5. One(asked # NoCommand) \in 0..1
  BY DEF One
<1> HIDE DEF One
<1> QED
  BY <1>1, <1>2, <1>3, <1>4, <1>5

LEMMA UnseenType ==
  ASSUME MailTypeOK
  PROVE  /\ Unseen \in 0..ReqMod-1
         /\ Unseen = 0 <=> req = last_req
  BY DEF Unseen, MailTypeOK

(* A message advances the counter by one.                                  *)
LEMMA PostCounts ==
  ASSUME MailTypeOK, Unseen + 1 < ReqMod, NEW k, NEW c, Post(k, c)
  PROVE  /\ Unseen' = Unseen + 1
         /\ req' # last_req'
<1>1. req \in 0..ReqMod-1 /\ last_req \in 0..ReqMod-1
  BY DEF MailTypeOK
<1>2. req' = (req + 1) % ReqMod /\ last_req' = last_req
  BY DEF Post
<1>3. req' = IF req + 1 = ReqMod THEN 0 ELSE req + 1
  BY <1>1, <1>2
<1> QED
  BY <1>1, <1>2, <1>3 DEF Unseen
-----------------------------------------------------------------------------
(* A step of the firmware's thread.  It finds its queue empty and leaves   *)
(* the target, the console and the slot alone.                             *)
NoPieces == \A i \in DOMAIN out : ~IsPiece(out[i])

ThreadStep ==
  /\ out = <<>>
  /\ UNCHANGED <<targetVars, consoleVars, slot, req>>
  /\ last_req' = last_req \/ last_req' = req

LEMMA EmptyQueue ==
  /\ out = <<>> => ~InQueue /\ NoPieces /\ LoneAnswer
  /\ out' = <<>> => ~InQueue' /\ NoPieces' /\ LoneAnswer'
  BY DEF InQueue, NoPieces, LoneAnswer

LEMMA ThreadStepUnread ==
  ASSUME ThreadStep
  PROVE  /\ \A k : Unread(k)' => Unread(k)
         /\ MailOwes' <= MailOwes
         /\ TargetOwes' = TargetOwes
<1>1. \A k : Unread(k)' => Unread(k)
  BY DEF ThreadStep, Unread
<1>2. MailOwes' <= MailOwes
  BY <1>1 DEF MailOwes, One
<1>3. TargetOwes' = TargetOwes
  BY DEF ThreadStep, targetVars, TargetOwes
<1> QED
  BY <1>1, <1>2, <1>3

(* A step that takes no answer from the mailbox.                           *)
LEMMA DriveOnly ==
  ASSUME ThreadStep, DriveOwes' + One(InQueue)' <= DriveOwes
  PROVE  MailOwes' + DriveOwes' + One(InQueue)' <= MailOwes + DriveOwes
<1>1. /\ MailOwes' \in Nat /\ MailOwes \in Nat /\ DriveOwes \in Nat
      /\ DriveOwes' \in Nat /\ One(InQueue)' \in Nat
  BY MailOwesNothing, DriveOwesNothing, TargetOwesNothing
<1>2. MailOwes' <= MailOwes
  BY ThreadStepUnread
<1> QED
  BY <1>1, <1>2

(* A step with which the drive puts the answer it owes into the queue.     *)
LEMMA DriveHandsOver ==
  ASSUME DriveOwes' + 1 = DriveOwes
  PROVE  DriveOwes' + One(InQueue)' <= DriveOwes
<1>1. DriveOwes' \in Nat /\ DriveOwes \in Nat /\ One(InQueue)' \in {0, 1}
  BY DriveOwesNothing, TargetOwesNothing
<1>2. \A d, e \in Nat, x \in {0, 1} : d + 1 = e => d + x <= e
  OBVIOUS
<1> QED
  BY <1>1, <1>2, Zenon

LEMMA DriveKeeps ==
  ASSUME DriveOwes' <= DriveOwes, ~InQueue'
  PROVE  DriveOwes' + One(InQueue)' <= DriveOwes
<1>1. DriveOwes' \in Nat /\ DriveOwes \in Nat /\ One(InQueue)' = 0
  BY DriveOwesNothing, TargetOwesNothing
<1>2. \A d, e \in Nat : d <= e => d + 0 <= e
  OBVIOUS
<1> QED
  BY <1>1, <1>2, Zenon

LEMMA ThreadStepKeeps ==
  ASSUME AnswerInv, TypeOK', ThreadStep,
         ~rst => MailOwes' + DriveOwes' + One(InQueue)' <= MailOwes + DriveOwes,
         ~rst => LoneAnswer',
         need_reset' => need_reset \/ Unread("reset"),
         rst /\ ResetSettled' => ~DrivePending' /\ ~InQueue' /\ NoPieces',
         PieceBeforeAnswer', CounterBehind'
  PROVE  AnswerInv'
<1>1. /\ rst' = rst /\ asked' = asked /\ SP' = SP /\ BSY' = BSY /\ FIFO' = FIFO
      /\ STAT_PEND' = STAT_PEND /\ DOUT_PEND' = DOUT_PEND /\ slot' = slot
  BY DEF ThreadStep, targetVars, consoleVars
<1>2. NoSecondAnswer'
  <2> SUFFICES ASSUME ~rst PROVE LoneAnswer' /\ Owed' <= One(asked # NoCommand)'
    BY <1>1 DEF NoSecondAnswer
  <2>1. Owed <= One(asked # NoCommand)
    BY DEF AnswerInv, NoSecondAnswer
  <2>2. ~InQueue
    BY EmptyQueue DEF ThreadStep
  <2>3. /\ Owed = MailOwes + DriveOwes + One(InQueue) + TargetOwes
        /\ Owed' = MailOwes' + DriveOwes' + One(InQueue)' + TargetOwes'
    BY DEF Owed
  <2>4. One(asked # NoCommand)' = One(asked # NoCommand) /\ One(asked # NoCommand) \in 0..1
    BY <1>1 DEF One
  <2>5. One(InQueue) = 0 /\ TargetOwes' = TargetOwes
    BY <2>2, TargetOwesNothing, ThreadStepUnread
  <2> HIDE DEF One
  <2>6. Owed' <= Owed
    BY <2>3, <2>5, MailOwesNothing, DriveOwesNothing, TargetOwesNothing
  <2>7. Owed \in Nat /\ Owed' \in Nat
    BY <2>3, MailOwesNothing, DriveOwesNothing, TargetOwesNothing
  <2> QED
    BY <2>1, <2>4, <2>6, <2>7
<1>3. ResetOver'
  <2>1. ~rst => ~need_reset /\ ~Unread("reset")
    BY DEF AnswerInv, ResetOver, ResetSettled
  <2> QED
    BY <1>1, <2>1, ThreadStepUnread DEF ResetOver, ResetSettled
<1>4. ResetAtRest'
  BY <1>1 DEF AnswerInv, ResetAtRest, NoPieces
<1>5. Bus' /\ CommandAlone'
  BY <1>1, ThreadStepUnread DEF AnswerInv, Bus, CommandAlone
<1> QED
  BY <1>2, <1>3, <1>4, <1>5, Zenon DEF AnswerInv

(* How far the counter can run.                                            *)
LEMMA CountKept ==
  ASSUME ThreadStep, last_req' = last_req, NoPieces', NEW n, CountBelow(n)
  PROVE  CountBelow(n)'
<1>1. Unseen' = Unseen /\ One(FIFO # <<>>)' = One(FIFO # <<>>)
  BY DEF ThreadStep, targetVars, Unseen, One
<1> QED
  BY <1>1 DEF CountBelow, NoPieces

LEMMA CountAtPoll ==
  ASSUME TypeOK, ThreadStep, last_req' = req
  PROVE  /\ Unseen' = 0 /\ Unseen' + One(FIFO # <<>>)' \in 0..1
         /\ NoPieces' => CountBelow(1)'
<1>1. req \in Nat /\ req' = req
  BY DEF TypeOK, ThreadStep
<1>2. Unseen' = 0
  BY <1>1 DEF Unseen
<1>3. Unseen' + One(FIFO # <<>>)' \in 0..1
  BY <1>2 DEF One
<1> QED
  BY <1>2, <1>3 DEF CountBelow, NoPieces

LEMMA CountMore ==
  ASSUME TypeOK, TypeOK', NEW m \in Nat, NEW n \in Nat, m <= n
  PROVE  /\ CountBelow(m) => CountBelow(n)
         /\ CountBelow(m)' => CountBelow(n)'
<1>1. Unseen + One(FIFO # <<>>) \in Int /\ Unseen' + One(FIFO # <<>>)' \in Int
  BY DEF TypeOK, Unseen, One
<1>2. DOMAIN out \subseteq Nat /\ DOMAIN out' \subseteq Nat
  <2>1. out \in Seq(Item) /\ out' \in Seq(Item)
    BY DEF TypeOK, DriveTypeOK
  <2>2. \A s \in Seq(Item) : DOMAIN s \subseteq Nat
    BY LenProperties
  <2> QED
    BY <2>1, <2>2, Zenon
<1> DEFINE u == Unseen + One(FIFO # <<>>)
           v == (Unseen + One(FIFO # <<>>))'
<1>3. /\ CountBelow(m) => u <= m /\ \A i \in DOMAIN out : IsPiece(out[i]) => u + i <= m
      /\ CountBelow(m)' => v <= m /\ \A i \in DOMAIN out' : IsPiece(out'[i]) => v + i <= m
  BY Zenon DEF CountBelow, IsPiece
<1>4. /\ (u <= n /\ \A i \in DOMAIN out : IsPiece(out[i]) => u + i <= n) => CountBelow(n)
      /\ (v <= n /\ \A i \in DOMAIN out' : IsPiece(out'[i]) => v + i <= n) => CountBelow(n)'
  BY Zenon DEF CountBelow, IsPiece
<1>5. u \in Int /\ v \in Int
  BY <1>1
<1> HIDE DEF u, v
<1> QED
  BY <1>2, <1>3, <1>4, <1>5

(* Nothing is due out of a pending answer but what it takes at once.       *)
LEMMA QuietPoll ==
  ASSUME TypeOK, TypeOK', ThreadStep, last_req' = req, NoPieces'
  PROVE  CounterBehind'
<1>1. CountBelow(1)'
  BY CountAtPoll
<1>2. CountBelow(Chunks)' /\ CountBelow(Chunks + 1)'
  BY <1>1, CountMore
<1> QED
  BY <1>1, <1>2 DEF CounterBehind

LEMMA IdleStep ==
  ASSUME AnswerInv, TypeOK', ThreadStep, CounterBehind',
         UNCHANGED <<need_reset, transport, cdda, answer, out, last_req>>
  PROVE  AnswerInv'
<1>1. ~InQueue' /\ NoPieces' /\ LoneAnswer' /\ ~InQueue
  BY EmptyQueue DEF ThreadStep
<1>2. MailOwes' + DriveOwes' + One(InQueue)' <= MailOwes + DriveOwes
  <2>1. DriveOwes' = DriveOwes
    BY DEF DriveOwes
  <2>2. One(InQueue)' = 0
    BY <1>1, TargetOwesNothing
  <2>3. DriveOwes' + One(InQueue)' <= DriveOwes
    BY <2>1, <2>2, DriveOwesNothing
  <2> QED
    BY <2>3, DriveOnly
<1>3. DrivePending' <=> DrivePending
  BY DEF DrivePending
<1>4. rst /\ ResetSettled' => ~DrivePending'
  <2> SUFFICES ASSUME rst, ResetSettled', DrivePending' PROVE FALSE
    OBVIOUS
  <2>1. ~ResetSettled
    BY <1>3 DEF AnswerInv, ResetAtRest
  <2>2. ResetSettled' <=> ResetSettled
    BY DEF ResetSettled, Unread, ThreadStep
  <2> QED
    BY <2>1, <2>2
<1>5. PieceBeforeAnswer'
  BY <1>1 DEF PieceBeforeAnswer, NoPieces
<1> QED
  BY <1>1, <1>2, <1>4, <1>5, ThreadStepKeeps

(* A step between two polls that sends no data.                            *)
LEMMA QuietTick ==
  ASSUME AnswerInv, TypeOK', ThreadStep, last_req' = last_req, NoPieces',
         AnswerUnderway' => AnswerUnderway \/ (DrivePending /\ pc # "mail"),
         DrivePending' /\ pc' # "mail" => DrivePending /\ pc # "mail"
  PROVE  CounterBehind'
<1> SUFFICES ASSUME ~rst'
             PROVE  /\ CountBelow(Chunks + 1)'
                    /\ asked' = NoCommand \/ AnswerUnderway' => CountBelow(Chunks)'
                    /\ DrivePending' /\ pc' # "mail" => CountBelow(1)'
  BY DEF CounterBehind
<1>1. ~rst /\ asked' = asked
  BY DEF ThreadStep, targetVars, consoleVars
<1>2. /\ CountBelow(Chunks + 1)
      /\ asked = NoCommand \/ AnswerUnderway => CountBelow(Chunks)
      /\ DrivePending /\ pc # "mail" => CountBelow(1)
  BY <1>1 DEF AnswerInv, CounterBehind
<1>3. CountBelow(1) => CountBelow(Chunks)
  BY CountMore DEF AnswerInv
<1> QED
  BY <1>1, <1>2, <1>3, CountKept

(* The target and the slot do not change, so an answer that gets under way *)
(* does so in the queue.                                                   *)
LEMMA UnderwayInQueue ==
  ASSUME ThreadStep
  PROVE  AnswerUnderway' => AnswerUnderway \/ InQueue'
  BY DEF ThreadStep, targetVars, AnswerUnderway

LEMMA NoResetAnswers ==
  ASSUME AnswerInv, TypeOK', NoReset \/ TimerRunning,
         UNCHANGED <<targetVars, mailVars, consoleVars>>
  PROVE  AnswerInv'
<1>1. /\ ThreadStep /\ out' = out /\ last_req' = last_req
      /\ UNCHANGED <<need_reset, transport, cdda, answer, out, last_req>>
  BY DEF NoReset, TimerRunning, ThreadStep, mailVars
<1>2. ~InQueue' /\ NoPieces'
  BY <1>1, EmptyQueue DEF ThreadStep
<1>3. DrivePending' <=> DrivePending
  BY <1>1 DEF DrivePending
<1>4. pc' # "mail" => pc # "mail"
  BY DEF NoReset, TimerRunning
<1>5. CounterBehind'
  BY <1>1, <1>2, <1>3, <1>4, QuietTick, UnderwayInQueue
<1> QED
  BY <1>1, <1>5, IdleStep

LEMMA NoMessageAnswers ==
  ASSUME AnswerInv, TypeOK', NoMessage, UNCHANGED <<targetVars, consoleVars>>
  PROVE  AnswerInv'
<1>1. /\ ThreadStep /\ last_req' = last_req /\ last_req' = req
      /\ UNCHANGED <<need_reset, transport, cdda, answer, out, last_req>>
  BY DEF NoMessage, ThreadStep, mailVars
<1>2. NoPieces'
  BY <1>1, EmptyQueue DEF ThreadStep
<1>3. CounterBehind'
  BY <1>1, <1>2, QuietPoll DEF AnswerInv
<1> QED
  BY <1>1, <1>3, IdleStep

LEMMA SingleWrite ==
  ASSUME NEW w, out' = <<w>>
  PROVE  /\ LoneAnswer'
         /\ InQueue' <=> IsAnswer(w)
         /\ ~IsPiece(w) => NoPieces'
  BY DEF LoneAnswer, InQueue, NoPieces

LEMMA RemountAnswers ==
  ASSUME AnswerInv, TypeOK', NEW result \in LoadResults, Remount(result),
         UNCHANGED <<targetVars, mailVars, consoleVars>>
  PROVE  AnswerInv'
<1>1. ThreadStep /\ last_req' = last_req /\ need_reset' = FALSE /\ pc = "reset"
  BY DEF Remount, ThreadStep, mailVars
<1>2. ~DrivePending'
  <2>1. has_status' = FALSE /\ data_req' = FALSE /\ state' \in {"NODISC", "IDLE"}
    BY DEF Remount
  <2> QED
    BY <2>1 DEF DrivePending
<1>3. ~InQueue' /\ NoPieces' /\ LoneAnswer'
  <2> DEFINE w == [kind |-> "mount", n |-> IF result = "failed" THEN 0 ELSE 1]
  <2>1. out' = <<w>>
    BY DEF Remount, NotifyMount, Write
  <2>2. ~IsAnswer(w) /\ ~IsPiece(w)
    BY DEF IsAnswer, IsPiece
  <2> HIDE DEF w
  <2> QED
    BY <2>1, <2>2, SingleWrite
<1>4. DriveOwes' + One(InQueue)' <= DriveOwes
  <2>1. DriveOwes' = 0 /\ One(InQueue)' = 0
    BY <1>2, <1>3, DriveOwesNothing, TargetOwesNothing
  <2> QED
    BY <2>1, DriveOwesNothing
<1>5. CounterBehind'
  BY <1>1, <1>2, <1>3, QuietTick, UnderwayInQueue
<1>6. PieceBeforeAnswer'
  BY <1>3 DEF PieceBeforeAnswer, NoPieces
<1> QED
  BY <1>1, <1>2, <1>3, <1>4, <1>5, <1>6, DriveOnly, ThreadStepKeeps

(* A step between two polls that sends no data and asks for nothing new.   *)
LEMMA QuietStep ==
  ASSUME AnswerInv, TypeOK', ThreadStep, last_req' = last_req,
         need_reset' = need_reset, pc # "mail",
         NoPieces', LoneAnswer', DriveOwes' + One(InQueue)' <= DriveOwes,
         InQueue' => DrivePending, DrivePending' => DrivePending
  PROVE  AnswerInv'
<1>1. CounterBehind'
  BY QuietTick, UnderwayInQueue
<1>2. PieceBeforeAnswer'
  BY DEF PieceBeforeAnswer, NoPieces
<1>3. rst /\ ResetSettled' => ~DrivePending' /\ ~InQueue'
  <2>1. ResetSettled' => ResetSettled
    BY DEF ResetSettled, Unread, ThreadStep
  <2>2. rst /\ ResetSettled => ~DrivePending
    BY DEF AnswerInv, ResetAtRest
  <2> QED
    BY <2>1, <2>2
<1> QED
  BY <1>1, <1>2, <1>3, DriveOnly, ThreadStepKeeps

LEMMA TimerExpiredAnswers ==
  ASSUME AnswerInv, TypeOK', TimerExpired,
         UNCHANGED <<targetVars, mailVars, consoleVars>>
  PROVE  AnswerInv'
<1>1. /\ ThreadStep /\ last_req' = last_req /\ pc = "tick"
      /\ UNCHANGED <<need_reset, state, CDDAMode>>
  BY DEF TimerExpired, ThreadStep, mailVars
<1>2. /\ NoPieces' /\ LoneAnswer' /\ DriveOwes' + One(InQueue)' <= DriveOwes
      /\ InQueue' => DrivePending
      /\ DrivePending' => DrivePending
  <2>1. CASE out' = out
    <3>1. ~InQueue' /\ NoPieces' /\ LoneAnswer'
      BY <1>1, <2>1, EmptyQueue DEF ThreadStep
    <3>2. has_status' = has_status /\ data_req' = data_req
      <4>1. out = <<>>
        BY <1>1 DEF ThreadStep
      <4>2. SendStatus(GOOD) # <<>> /\ SendDataRequest # <<>>
        BY DEF SendStatus, SendDataRequest, Write
      <4> QED
        BY <2>1, <4>1, <4>2 DEF TimerExpired
    <3>3. DriveOwes' = DriveOwes /\ (DrivePending' => DrivePending)
      BY <1>1, <3>2 DEF DriveOwes, DrivePending
    <3>4. One(InQueue)' = 0
      BY <3>1, TargetOwesNothing
    <3> QED
      BY <3>1, <3>3, <3>4, DriveOwesNothing
  <2>2. CASE /\ has_status /\ has_status' = FALSE /\ data_req' = data_req
             /\ out' = SendStatus(GOOD)
    <3>1. NoPieces' /\ LoneAnswer'
      BY <2>2, SingleWrite DEF SendStatus, Write, IsPiece
    <3>2. DriveOwes' + 1 = DriveOwes
      BY <1>1, <2>2 DEF DriveOwes, One
    <3>3. DrivePending
      BY <2>2 DEF DrivePending
    <3> QED
      BY <3>1, <3>2, <3>3, DriveHandsOver
  <2>3. CASE /\ data_req /\ data_req' = FALSE /\ has_status' = has_status
             /\ out' = SendDataRequest
    <3>1. NoPieces' /\ LoneAnswer'
      BY <2>3, SingleWrite DEF SendDataRequest, Write, IsPiece
    <3>2. DriveOwes' + 1 = DriveOwes
      BY <1>1, <2>3 DEF DriveOwes, One
    <3>3. DrivePending
      BY <2>3 DEF DrivePending
    <3> QED
      BY <3>1, <3>2, <3>3, DriveHandsOver
  <2> QED
    BY <2>1, <2>2, <2>3, Zenon DEF TimerExpired
<1> QED
  BY <1>1, <1>2, QuietStep

(* What is written at the end of a play: audio, then at most one status.   *)
LEMMA PlayWrites ==
  ASSUME NEW l \in Nat, NEW n \in Nat, NEW audio, NEW tail,
         audio = <<>> \/ audio = ReadCDDA(l, n),
         tail = <<>> \/ tail = SendStatus(GOOD), out' = audio \o tail
  PROVE  /\ NoPieces' /\ LoneAnswer'
         /\ tail = <<>> <=> ~InQueue'
         /\ \A i \in DOMAIN out' : out'[i].kind # "datareq"
<1>1. audio \in Seq(Item) /\ tail \in Seq(Item)
  BY ReadCDDATypes, WriteTypes
<1>2. \A i \in 1..Len(audio) : audio[i].kind = "audio"
  <2>1. CASE audio = <<>>
    BY <2>1
  <2>2. CASE audio = ReadCDDA(l, n)
    <3>1. DOMAIN ReadCDDA(l, n) = 1..n
      BY DEF ReadCDDA
    <3>2. \A i \in 1..n : ReadCDDA(l, n)[i].kind = "audio"
      BY DEF ReadCDDA
    <3>3. DOMAIN audio = 1..Len(audio)
      BY <1>1, LenProperties
    <3> QED
      BY <2>2, <3>1, <3>2, <3>3
  <2> QED
    BY <2>1, <2>2
<1>3. Len(tail) \in 0..1 /\ \A i \in 1..Len(tail) : tail[i].kind = "status"
  BY DEF SendStatus, Write
<1>4. tail = <<>> => Len(tail) = 0
  OBVIOUS
<1>5. /\ DOMAIN out' = 1..Len(audio) + Len(tail)
      /\ Len(audio) \in Nat
      /\ \A i \in DOMAIN out' :
           /\ i \in Nat
           /\ i <= Len(audio) => out'[i].kind = "audio"
           /\ i > Len(audio) => out'[i].kind = "status" /\ i = Len(audio) + 1
                                /\ Len(tail) = 1
  <2>1. /\ audio \o tail \in Seq(Item)
        /\ Len(audio \o tail) = Len(audio) + Len(tail)
        /\ \A i \in 1..Len(audio) + Len(tail) : (audio \o tail)[i] =
             IF i <= Len(audio) THEN audio[i] ELSE tail[i - Len(audio)]
    BY <1>1, ConcatProperties
  <2>2. DOMAIN out' = 1..Len(audio) + Len(tail) /\ Len(audio) \in Nat
    BY <1>1, <2>1, LenProperties
  <2> QED
    BY <1>2, <1>3, <2>1, <2>2
<1>6. NoPieces'
  BY <1>5, SMTT(20) DEF NoPieces, IsPiece
<1>7. LoneAnswer'
  BY <1>5 DEF LoneAnswer, IsAnswer
<1>8. tail = <<>> => ~InQueue'
  BY <1>4, <1>5 DEF InQueue, IsAnswer
<1>9. ASSUME tail # <<>> PROVE InQueue'
  <2>1. Len(tail) = 1
    BY <1>9 DEF SendStatus, Write
  <2>2. Len(audio) + 1 \in DOMAIN out' /\ out'[Len(audio) + 1].kind = "status"
    BY <1>5, <2>1
  <2> QED
    BY <2>2 DEF InQueue, IsAnswer
<1>10. \A i \in DOMAIN out' : out'[i].kind # "datareq"
  BY <1>5
<1> QED
  BY <1>6, <1>7, <1>8, <1>9, <1>10

LEMMA UpdatePlayAnswers ==
  ASSUME AnswerInv, TypeOK', UpdatePlay,
         UNCHANGED <<targetVars, mailVars, consoleVars>>
  PROVE  AnswerInv'
<1> DEFINE played == 1 + CDDAFirst
           track  == GetTrackByLBA(lba)
           atEnd  == lba + played > CDDAEnd \/ KindOf(track) # "audio" \/ track > last
           audio  == IF KindOf(track) = "data" THEN <<>> ELSE ReadCDDA(lba, played)
           tail   == IF atEnd /\ CDDAMode = INTERRUPT THEN SendStatus(GOOD) ELSE <<>>
<1>1. /\ ThreadStep /\ last_req' = last_req /\ need_reset' = need_reset
      /\ pc = "update" /\ state = "PLAY"
      /\ UNCHANGED <<has_status, data_req, CDDAMode>>
  BY DEF UpdatePlay, AtUpdate, ThreadStep, mailVars
<1>2. /\ out' = audio \o tail
      /\ state' = IF atEnd /\ CDDAMode # LOOP THEN "IDLE" ELSE "PLAY"
  BY DEF UpdatePlay
<1>3. lba \in Nat /\ played \in Nat
  <2>1. lba \in Nat /\ CDDAFirst \in {0, 1}
    BY Zenon DEF AnswerInv, TypeOK, DriveTypeOK
  <2> QED
    BY <2>1
<1>4. /\ audio = <<>> \/ audio = ReadCDDA(lba, played)
      /\ tail = <<>> \/ tail = SendStatus(GOOD)
  OBVIOUS
<1> HIDE DEF audio, played
<1>5. NoPieces' /\ LoneAnswer' /\ (tail = <<>> => ~InQueue')
  <2> HIDE DEF tail, track, atEnd
  <2>1. out' = audio \o tail
    BY <1>2
  <2> QED
    BY <1>3, <1>4, <2>1, PlayWrites, Zenon
<1>6. CASE atEnd /\ CDDAMode = INTERRUPT
  <2>1. state' = "IDLE"
    BY <1>2, <1>6 DEF INTERRUPT, LOOP
  <2>2. DriveOwes' + 1 = DriveOwes
    BY <1>1, <1>6, <2>1 DEF DriveOwes, One
  <2>3. DrivePending
    BY <1>1, <1>6 DEF DrivePending
  <2> QED
    BY <1>1, <1>5, <2>2, <2>3, DriveHandsOver, QuietStep DEF AnswerInv
<1>7. CASE ~(atEnd /\ CDDAMode = INTERRUPT)
  <2>1. ~InQueue'
    BY <1>5, <1>7
  <2>2. state' = "PLAY" \/ (state' = "IDLE" /\ CDDAMode # INTERRUPT)
    BY <1>2, <1>7
  <2>3. DriveOwes' = DriveOwes
    BY <1>1, <2>2 DEF DriveOwes, One
  <2>4. DrivePending' => DrivePending
    BY <1>1, <2>2 DEF DrivePending
  <2>5. DriveOwes' + One(InQueue)' <= DriveOwes
    BY <2>1, <2>3, DriveKeeps, DriveOwesNothing
  <2> QED
    BY <1>1, <1>5, <2>1, <2>4, <2>5, QuietStep DEF AnswerInv
<1> QED
  BY <1>6, <1>7

LEMMA UpdateReadSectorAnswers ==
  ASSUME AnswerInv, TypeOK', UpdateReadSector,
         UNCHANGED <<targetVars, mailVars, consoleVars>>
  PROVE  AnswerInv'
<1>1. /\ ThreadStep /\ last_req' = last_req /\ need_reset' = need_reset
      /\ pc = "update" /\ pc' = "mail" /\ state = "READ"
      /\ UNCHANGED <<data_req, CDDAMode>>
  BY DEF UpdateReadSector, AtUpdate, ThreadStep, mailVars
<1>2. DrivePending
  BY <1>1 DEF DrivePending
<1>3. has_status' \/ state' = "READ"
  BY DEF UpdateReadSector
<1>4. DriveOwes' <= DriveOwes
  <2>1. \/ has_status' = TRUE /\ state' = "IDLE"
        \/ has_status' = has_status /\ state' = "READ"
    BY DEF UpdateReadSector, AnswerInv, TypeOK, DriveTypeOK
  <2> QED
    BY <1>1, <2>1 DEF DriveOwes, One
<1>5. \A i \in DOMAIN out' : i \in 1..Chunks /\ out'[i].kind = "data"
  <2>1. out' = <<>> \/ out' = ReadData(lba)
    BY DEF UpdateReadSector
  <2> QED
    BY <2>1 DEF ReadData, SendPieces
<1>6. ~InQueue' /\ LoneAnswer'
  BY <1>5 DEF InQueue, LoneAnswer, IsAnswer
<1>7. DriveOwes' + One(InQueue)' <= DriveOwes
  BY <1>4, <1>6, DriveKeeps
<1>8. PieceBeforeAnswer'
  BY <1>3 DEF PieceBeforeAnswer
<1>9. ~(rst /\ ResetSettled')
  <2>1. ResetSettled' => ResetSettled
    BY <1>1 DEF ResetSettled, Unread, ThreadStep
  <2> QED
    BY <1>2, <2>1 DEF AnswerInv, ResetAtRest
<1>10. CounterBehind'
  <2> SUFFICES ASSUME ~rst'
               PROVE  /\ CountBelow(Chunks + 1)'
                      /\ asked' = NoCommand \/ AnswerUnderway' => CountBelow(Chunks)'
                      /\ DrivePending' /\ pc' # "mail" => CountBelow(1)'
    BY DEF CounterBehind
  <2>1. ~rst /\ asked' = asked
    BY <1>1 DEF ThreadStep, targetVars, consoleVars
  <2>2. asked # NoCommand /\ ~AnswerUnderway
    <3>1. DriveOwes # 0
      BY <1>2, DriveOwesNothing
    <3>2. /\ MailOwes + DriveOwes + One(InQueue) + TargetOwes <= 1
          /\ asked = NoCommand => DriveOwes = 0
      BY <2>1, OwedOnce DEF AnswerInv
    <3>3. One(InQueue) + TargetOwes = 0
      <4>1. /\ MailOwes \in Nat /\ DriveOwes \in Nat
            /\ One(InQueue) \in Nat /\ TargetOwes \in Nat
        BY MailOwesNothing, DriveOwesNothing, TargetOwesNothing
      <4> QED
        BY <3>1, <3>2, <4>1
    <3> QED
      BY <3>1, <3>2, <3>3, TargetOwesNothing
  <2>3. ~AnswerUnderway'
    BY <1>1, <1>6, <2>2, UnderwayInQueue
  <2>4. CountBelow(1)
    BY <1>1, <1>2, <2>1 DEF AnswerInv, CounterBehind
  <2>5. Unseen' + One(FIFO # <<>>)' = Unseen + One(FIFO # <<>>)
    BY <1>1 DEF ThreadStep, targetVars, Unseen, One
  <2>6. CountBelow(Chunks + 1)'
    <3> DEFINE u == Unseen + One(FIFO # <<>>)
    <3>1. u <= 1 /\ u \in Int
      BY <2>4 DEF CountBelow, AnswerInv, TypeOK, Unseen, One
    <3>2. (Unseen + One(FIFO # <<>>))' = u
      BY <2>5
    <3> HIDE DEF u
    <3>3. u <= Chunks + 1 /\ \A i \in 1..Chunks : u + i <= Chunks + 1
      BY <3>1
    <3> QED
      BY <1>5, <3>2, <3>3 DEF CountBelow
  <2> QED
    BY <1>1, <2>1, <2>2, <2>3, <2>6
<1> QED
  BY <1>1, <1>6, <1>7, <1>8, <1>9, <1>10, DriveOnly, ThreadStepKeeps

LEMMA UpdateAnswers ==
  ASSUME AnswerInv, TypeOK', Update,
         UNCHANGED <<targetVars, mailVars, consoleVars>>
  PROVE  AnswerInv'
<1>1. CASE \/ UpdateLatency \/ UpdateAudioDelay \/ UpdateReadWait
           \/ UpdateNothing \/ UpdateReadEnd
  <2>1. /\ ThreadStep /\ last_req' = last_req /\ need_reset' = need_reset
        /\ pc = "update" /\ out' = out
        /\ UNCHANGED <<has_status, data_req, CDDAMode>>
    BY <1>1 DEF UpdateLatency, UpdateAudioDelay, UpdateReadWait, UpdateNothing,
                UpdateReadEnd, AtUpdate, ThreadStep, mailVars
  <2>2. state' = state \/ state' = "IDLE"
    BY <1>1 DEF UpdateLatency, UpdateAudioDelay, UpdateReadWait, UpdateNothing,
                UpdateReadEnd
  <2>3. ~InQueue' /\ NoPieces' /\ LoneAnswer'
    BY <2>1, EmptyQueue DEF ThreadStep
  <2>4. DriveOwes' <= DriveOwes
    BY <2>1, <2>2 DEF DriveOwes, One
  <2>5. DrivePending' => DrivePending
    BY <2>1, <2>2 DEF DrivePending
  <2>6. DriveOwes' + One(InQueue)' <= DriveOwes
    BY <2>3, <2>4, DriveKeeps
  <2> QED
    BY <2>1, <2>3, <2>5, <2>6, QuietStep
<1> QED
  BY <1>1, UpdatePlayAnswers, UpdateReadSectorAnswers DEF Update
-----------------------------------------------------------------------------
(* The mailbox part.  When the firmware takes a command, or the parameters *)
(* of one, nothing else is owed; what it does must owe one answer at most. *)
LEMMA Taken ==
  ASSUME AnswerInv, TakeMessage, UNCHANGED <<targetVars, consoleVars>>,
         slot.kind \in {"command", "dataout"}
  PROVE  /\ ThreadStep /\ last_req' = req /\ ~rst /\ pc' = "reset"
         /\ MailOwes' = 0 /\ MailOwes = 1
         /\ ~DrivePending /\ asked # NoCommand
         /\ slot.kind = "command" => FIFO = <<>>
<1>1. /\ ThreadStep /\ last_req' = req /\ req # last_req /\ pc' = "reset"
  BY DEF TakeMessage, ThreadStep
<1>2. ~rst
  BY DEF AnswerInv, ResetAtRest
<1>3. Unread("command") \/ Unread("dataout")
  BY <1>1 DEF Unread
<1>4. MailOwes' = 0
  <2>1. ~Unread("command")' /\ ~Unread("dataout")'
    BY <1>1 DEF Unread, ThreadStep
  <2> QED
    BY <2>1, MailOwesNothing
<1>5. /\ MailOwes # 0 /\ MailOwes \in Nat /\ DriveOwes \in Nat
      /\ One(InQueue) \in Nat /\ TargetOwes \in Nat
  BY <1>3, MailOwesNothing, DriveOwesNothing, TargetOwesNothing
<1>6. /\ MailOwes + DriveOwes + One(InQueue) + TargetOwes <= 1
      /\ asked = NoCommand => MailOwes = 0
  BY <1>2, OwedOnce DEF AnswerInv
<1>7. MailOwes = 1 /\ DriveOwes = 0
  BY <1>5, <1>6
<1>8. ~DrivePending
  BY <1>7, DriveOwesNothing
<1>9. slot.kind = "command" => FIFO = <<>>
  BY <1>1, <1>2 DEF AnswerInv, CommandAlone, Unread
<1> QED
  BY <1>1, <1>2, <1>4, <1>5, <1>6, <1>7, <1>8, <1>9

LEMMA TakenKeeps ==
  ASSUME AnswerInv, TypeOK', TakeMessage, UNCHANGED <<targetVars, consoleVars>>,
         slot.kind \in {"command", "dataout"}, need_reset' = need_reset,
         DriveOwes' + One(InQueue)' <= 1,
         LoneAnswer', PieceBeforeAnswer', CounterBehind'
  PROVE  AnswerInv'
<1>1. /\ ThreadStep /\ ~rst /\ MailOwes' = 0 /\ MailOwes = 1
  BY Taken
<1>2. /\ DriveOwes \in Nat /\ DriveOwes' \in Nat /\ One(InQueue)' \in Nat
  BY DriveOwesNothing, TargetOwesNothing
<1>3. \A a, b, c \in Nat : a + b <= 1 => 0 + a + b <= 1 + c
  OBVIOUS
<1>4. MailOwes' + DriveOwes' + One(InQueue)' <= MailOwes + DriveOwes
  BY <1>1, <1>2, <1>3, Zenon
<1> QED
  BY <1>1, <1>4, ThreadStepKeeps

(* It answers with a status.                                               *)
LEMMA StatusAnswers ==
  ASSUME AnswerInv, TypeOK', TakeMessage, UNCHANGED <<targetVars, consoleVars>>,
         slot.kind \in {"command", "dataout"}, need_reset' = need_reset,
         ~DrivePending', NEW s, out' = SendStatus(s)
  PROVE  AnswerInv'
<1>1. NoPieces' /\ LoneAnswer'
  BY SingleWrite DEF SendStatus, Write, IsPiece
<1>2. DriveOwes' = 0 /\ One(InQueue)' \in {0, 1}
  BY DriveOwesNothing, TargetOwesNothing
<1>3. \A x \in {0, 1} : 0 + x <= 1
  OBVIOUS
<1>4. DriveOwes' + One(InQueue)' <= 1
  BY <1>2, <1>3, Zenon
<1>5. PieceBeforeAnswer'
  BY <1>1 DEF PieceBeforeAnswer, NoPieces
<1>6. CounterBehind'
  BY <1>1, Taken, QuietPoll DEF AnswerInv
<1> QED
  BY <1>1, <1>4, <1>5, <1>6, TakenKeeps

(* It leaves the answer to a later tick.                                   *)
LEMMA LaterAnswers ==
  ASSUME AnswerInv, TypeOK', TakeMessage, UNCHANGED <<targetVars, consoleVars>>,
         slot.kind \in {"command", "dataout"}, need_reset' = need_reset,
         DriveOwes' <= 1, out' = out
  PROVE  AnswerInv'
<1>1. NoPieces' /\ LoneAnswer' /\ ~InQueue'
  BY EmptyQueue DEF TakeMessage
<1>2. DriveOwes' \in Nat /\ One(InQueue)' = 0
  BY <1>1, DriveOwesNothing, TargetOwesNothing
<1>3. \A d \in Nat : d <= 1 => d + 0 <= 1
  OBVIOUS
<1>4. DriveOwes' + One(InQueue)' <= 1
  BY <1>2, <1>3, Zenon
<1>5. PieceBeforeAnswer'
  BY <1>1 DEF PieceBeforeAnswer, NoPieces
<1>6. CounterBehind'
  BY <1>1, Taken, QuietPoll DEF AnswerInv
<1> QED
  BY <1>1, <1>4, <1>5, <1>6, TakenKeeps

(* It sends data, and a status behind them.                                *)
LEMMA ReplyAnswers ==
  ASSUME AnswerInv, TypeOK', TakeMessage, UNCHANGED <<targetVars, consoleVars>>,
         slot.kind = "command", need_reset' = need_reset,
         ~DrivePending', out' = SendData \o SendStatus(GOOD)
  PROVE  AnswerInv'
<1> DEFINE data == SendData
           l    == Len(data)
<1>1. data \in Seq(Item) /\ SendStatus(GOOD) \in Seq(Item)
  BY SendDataTypes, WriteTypes
<1>2. l \in 0..Chunks /\ \A i \in 1..l : data[i].kind = "reply"
  <2>1. CASE data = <<>>
    BY <2>1
  <2>2. CASE data = SendPieces("reply", 0)
    <3>1. DOMAIN data = 1..Chunks /\ \A i \in 1..Chunks : data[i].kind = "reply"
      BY <2>2 DEF SendPieces
    <3>2. DOMAIN data = 1..l /\ l \in Nat
      BY <1>1, LenProperties
    <3>3. l = Chunks
      <4> HIDE DEF data, l
      <4>1. 1..l = 1..Chunks /\ Chunks \in Nat \ {0} /\ l \in Nat
        BY <3>1, <3>2
      <4>2. \A a \in Nat, b \in Nat \ {0} : 1..a = 1..b => a = b
        OBVIOUS
      <4> QED
        BY <4>1, <4>2, Zenon
    <3> QED
      BY <3>1, <3>3
  <2> QED
    BY <2>1, <2>2 DEF SendData
<1> HIDE DEF data
<1>3. Len(SendStatus(GOOD)) = 1 /\ SendStatus(GOOD)[1].kind = "status"
  BY DEF SendStatus, Write
<1>4. /\ DOMAIN out' = 1..l + 1
      /\ \A i \in 1..l : out'[i].kind = "reply"
      /\ out'[l + 1].kind = "status"
  <2>1. out' = data \o SendStatus(GOOD)
    BY DEF data
  <2>2. /\ data \o SendStatus(GOOD) \in Seq(Item)
        /\ Len(data \o SendStatus(GOOD)) = l + 1
        /\ \A i \in 1..l + 1 : (data \o SendStatus(GOOD))[i] =
             IF i <= l THEN data[i] ELSE SendStatus(GOOD)[i - l]
    <3> DEFINE t == SendStatus(GOOD)
    <3> HIDE DEF t
    <3>1. /\ data \o t \in Seq(Item)
          /\ Len(data \o t) = Len(data) + Len(t)
          /\ \A i \in 1..Len(data) + Len(t) :
               (data \o t)[i] = IF i <= Len(data) THEN data[i] ELSE t[i - Len(data)]
      BY <1>1, ConcatProperties DEF t
    <3>2. Len(t) = 1
      BY <1>3 DEF t
    <3>3. /\ data \o t \in Seq(Item)
          /\ Len(data \o t) = l + 1
          /\ \A i \in 1..l + 1 : (data \o t)[i] = IF i <= l THEN data[i] ELSE t[i - l]
      BY <3>1, <3>2, Zenon
    <3> QED
      BY <3>3, Zenon DEF t
  <2>3. DOMAIN out' = 1..l + 1
    BY <2>1, <2>2, LenProperties
  <2> QED
    BY <1>2, <1>3, <2>1, <2>2, <2>3
<1> HIDE DEF l
<1>5. LoneAnswer'
  BY <1>2, <1>4 DEF LoneAnswer, IsAnswer
<1>6. DriveOwes' + One(InQueue)' <= 1
  <2>1. DriveOwes' = 0 /\ One(InQueue)' \in {0, 1}
    BY DriveOwesNothing, TargetOwesNothing
  <2>2. \A x \in {0, 1} : 0 + x <= 1
    OBVIOUS
  <2> QED
    BY <2>1, <2>2, Zenon
<1>7. PieceBeforeAnswer'
  <2>1. \A i \in DOMAIN out' : IsPiece(out'[i]) =>
          \E j \in DOMAIN out' : j > i /\ IsAnswer(out'[j])
    BY <1>2, <1>4 DEF IsPiece, IsAnswer
  <2> QED
    BY <2>1 DEF PieceBeforeAnswer, IsPiece, IsAnswer
<1>8. CounterBehind'
  <2>1. FIFO' = <<>> /\ Unseen' = 0
    BY Taken, CountAtPoll DEF AnswerInv, ThreadStep, targetVars
  <2>2. Unseen' + One(FIFO # <<>>)' = 0
    BY <2>1 DEF One
  <2>3. \A i \in DOMAIN out' : IsPiece(out'[i]) => i \in 1..Chunks
    BY <1>2, <1>4 DEF IsPiece
  <2>4. \A i \in 1..Chunks : 0 + i <= Chunks /\ 0 + i <= Chunks + 1
    OBVIOUS
  <2>5. CountBelow(Chunks)' /\ CountBelow(Chunks + 1)'
    BY <2>2, <2>3, <2>4 DEF CountBelow, IsPiece
  <2> QED
    BY <2>5 DEF CounterBehind
<1> QED
  BY <1>5, <1>6, <1>7, <1>8, TakenKeeps

LEMMA CommandAnswers ==
  ASSUME AnswerInv, TypeOK', Orderly, TakeMessage,
         UNCHANGED <<targetVars, consoleVars>>,
         slot.kind = "command", CommandExec(slot.cmd, slot.fast)
  PROVE  AnswerInv'
<1> DEFINE c == slot.cmd
<1>1. need_reset' = need_reset /\ out = <<>>
  BY DEF CommandExec, TakeMessage
<1>2. ~DrivePending
  BY Taken
<1>3. ~has_status /\ ~data_req /\ state # "READ" /\ ~(state = "PLAY" /\ CDDAMode = INTERRUPT)
  BY <1>2 DEF DrivePending
<1>4. c.op = "SAPSP" => c.arg # INTERRUPT
  <2>1. c \in Commands \/ c = NoCommand
    BY DEF AnswerInv, TypeOK, Message
  <2>2. CASE c \in Commands
    BY <2>2 DEF Orderly
  <2>3. CASE c = NoCommand
    BY <2>3 DEF NoCommand
  <2> QED
    BY <2>1, <2>2, <2>3
<1> HIDE DEF c
<1>5. CASE TestUnit \/ Pause \/ UnknownCommand
  <2>1. \E s : out' = SendStatus(s)
    BY <1>5 DEF TestUnit, Pause, UnknownCommand
  <2>2. ~DrivePending'
    BY <1>3, <1>5 DEF TestUnit, Pause, UnknownCommand, DrivePending
  <2> QED
    BY <1>1, <2>1, <2>2, StatusAnswers
<1>6. CASE RequestSense \/ ReplyOnly
  <2>1. out' = SendData \o SendStatus(GOOD)
    BY <1>6 DEF RequestSense, ReplyOnly
  <2>2. ~DrivePending'
    BY <1>3, <1>6 DEF RequestSense, ReplyOnly, DrivePending
  <2> QED
    BY <1>1, <2>1, <2>2, ReplyAnswers
<1>7. CASE ModeSelect6(c)
  <2>1. CASE c.n > 0
    <3>1. out' = out
      BY <1>7, <2>1 DEF ModeSelect6
    <3>2. has_status' = has_status /\ state' = state /\ CDDAMode' = CDDAMode
      BY <1>7 DEF ModeSelect6
    <3>3. DriveOwes' <= 1
      BY <1>3, <3>2 DEF DriveOwes, One
    <3> QED
      BY <1>1, <3>1, <3>3, LaterAnswers
  <2>2. CASE ~(c.n > 0)
    <3>1. out' = SendStatus(GOOD)
      BY <1>7, <2>2 DEF ModeSelect6
    <3>2. ~DrivePending'
      BY <1>3, <1>7, <2>2 DEF ModeSelect6, DrivePending
    <3> QED
      BY <1>1, <3>1, <3>2, StatusAnswers
  <2> QED
    BY <2>1, <2>2
<1>8. CASE Read6(c, slot.fast)
  <2>1. /\ out' = out /\ state' = "READ"
        /\ has_status' = has_status /\ data_req' = data_req
    BY <1>8 DEF Read6
  <2>2. DriveOwes' <= 1
    BY <1>3, <2>1 DEF DriveOwes, One
  <2> QED
    BY <1>1, <2>1, <2>2, LaterAnswers
<1>9. CASE Sapsp(c, slot.fast) /\ c.op = "SAPSP"
  <2>1. /\ out' = out /\ state' \in {"PAUSE", "PLAY"} /\ data_req' = data_req
        /\ CDDAMode' = c.arg
    BY <1>9 DEF Sapsp
  <2>2. DriveOwes' <= 1
    BY <1>3, <1>4, <1>9, <2>1 DEF DriveOwes, One
  <2> QED
    BY <1>1, <2>1, <2>2, LaterAnswers
<1>10. CASE Sapep(c)
  <2>1. /\ has_status' = has_status /\ data_req' = data_req
        /\ state' \in {"IDLE", "PLAY"} /\ CDDAMode' = c.arg
    BY <1>10 DEF Sapep
  <2>2. CASE c.arg = INTERRUPT
    <3>1. out' = out
      BY <1>10, <2>2 DEF Sapep
    <3>2. DriveOwes' <= 1
      BY <1>3, <2>1 DEF DriveOwes, One
    <3> QED
      BY <1>1, <3>1, <3>2, LaterAnswers
  <2>3. CASE c.arg # INTERRUPT
    <3>1. out' = SendStatus(GOOD)
      BY <1>10, <2>3 DEF Sapep
    <3>2. ~DrivePending'
      BY <1>3, <2>1, <2>3 DEF DrivePending
    <3> QED
      BY <1>1, <3>1, <3>2, StatusAnswers
  <2> QED
    BY <2>2, <2>3
<1> QED
  BY <1>5, <1>6, <1>7, <1>8, <1>9, <1>10, Zenon DEF CommandExec, c

LEMMA TakeMessageAnswers ==
  ASSUME AnswerInv, TypeOK', Orderly, TakeMessage,
         UNCHANGED <<targetVars, consoleVars>>
  PROVE  AnswerInv'
<1>1. ThreadStep /\ last_req' = req /\ req # last_req
  BY DEF TakeMessage, ThreadStep
<1>2. CASE slot.kind = "command" /\ CommandExec(slot.cmd, slot.fast)
  BY <1>2, CommandAnswers
<1>3. CASE slot.kind = "dataout" /\ DataOutReceived
  <2>1. ~DrivePending
    BY <1>3, Taken
  <2>2. /\ need_reset' = need_reset /\ out' = SendStatus(GOOD)
        /\ ~DrivePending'
    BY <1>3, <2>1 DEF DataOutReceived, DrivePending
  <2> QED
    BY <1>3, <2>2, StatusAnswers
<1>4. CASE slot.kind = "dataend" /\ DataEndReceived
  <2>1. /\ out' = out /\ need_reset' = need_reset
        /\ UNCHANGED <<has_status, data_req, state, CDDAMode>>
    BY <1>4 DEF DataEndReceived
  <2>2. NoPieces' /\ LoneAnswer' /\ ~InQueue'
    BY <1>1, <2>1, EmptyQueue DEF ThreadStep
  <2>3. ~rst
    BY <1>4 DEF AnswerInv, ResetAtRest
  <2>4. DriveOwes' <= DriveOwes
    BY <2>1, DriveOwesNothing DEF DriveOwes
  <2>5. DriveOwes' + One(InQueue)' <= DriveOwes
    BY <2>2, <2>4, DriveKeeps
  <2>6. CounterBehind' /\ PieceBeforeAnswer'
    BY <1>1, <2>2, QuietPoll DEF AnswerInv, PieceBeforeAnswer, NoPieces
  <2> QED
    BY <1>1, <2>1, <2>2, <2>3, <2>5, <2>6, DriveOnly, ThreadStepKeeps
<1>5. CASE slot.kind = "reset" /\ ResetReceived
  <2>1. Unread("reset")
    BY <1>1, <1>5 DEF Unread
  <2>2. rst
    BY <2>1 DEF AnswerInv, ResetOver, ResetSettled
  <2>3. rst' /\ need_reset' = TRUE
    BY <1>1, <1>5, <2>2 DEF ThreadStep, targetVars, ResetReceived
  <2>4. CounterBehind' /\ PieceBeforeAnswer' /\ ~ResetSettled'
    BY <2>3 DEF CounterBehind, PieceBeforeAnswer, ResetSettled
  <2> QED
    BY <1>1, <2>1, <2>2, <2>4, ThreadStepKeeps
<1> QED
  BY <1>2, <1>3, <1>4, <1>5, Zenon DEF TakeMessage
-----------------------------------------------------------------------------
(* The FPGA takes one write off the queue.                                 *)
LEMMA QueueTail ==
  ASSUME TypeOK, out # <<>>, out' = Tail(out)
  PROVE  /\ 1 \in DOMAIN out /\ out[1] = Head(out)
         /\ \A i \in DOMAIN out' : /\ i \in Nat /\ i + 1 \in DOMAIN out
                                   /\ out'[i] = out[i + 1]
         /\ \A j \in DOMAIN out : /\ j \in Nat
                                  /\ j # 1 => /\ j - 1 \in DOMAIN out'
                                              /\ out'[j - 1] = out[j]
<1>1. out \in Seq(Item)
  BY DEF TypeOK, DriveTypeOK
<1>2. \A s \in Seq(Item) : s # <<>> =>
        /\ Len(s) \in Nat \ {0} /\ DOMAIN s = 1..Len(s) /\ Head(s) = s[1]
        /\ DOMAIN Tail(s) = 1..Len(s)-1
        /\ \A i \in 1..Len(s)-1 : Tail(s)[i] = s[i + 1]
  OBVIOUS
<1>3. /\ Len(out) \in Nat \ {0} /\ DOMAIN out = 1..Len(out) /\ Head(out) = out[1]
      /\ DOMAIN out' = 1..Len(out)-1
      /\ \A i \in 1..Len(out)-1 : out'[i] = out[i + 1]
  BY <1>1, <1>2
<1> QED
  BY <1>3

LEMMA QueueTailAnswers ==
  ASSUME TypeOK, out # <<>>, out' = Tail(out), LoneAnswer
  PROVE  /\ LoneAnswer'
         /\ InQueue' => InQueue
         /\ IsAnswer(Head(out)) => InQueue /\ ~InQueue'
<1>1. \A i \in DOMAIN out' : IsAnswer(out'[i]) => IsAnswer(out[i + 1])
  BY QueueTail
<1>2. LoneAnswer'
  <2> SUFFICES ASSUME NEW i \in DOMAIN out', NEW j \in DOMAIN out',
                      IsAnswer(out'[i]), IsAnswer(out'[j])
               PROVE  i = j
    BY DEF LoneAnswer, IsAnswer
  <2>1. i + 1 = j + 1 /\ i \in Nat /\ j \in Nat
    BY <1>1, QueueTail DEF LoneAnswer
  <2> QED
    BY <2>1
<1>3. InQueue' => InQueue
  BY <1>1, QueueTail DEF InQueue, IsAnswer
<1>4. ASSUME IsAnswer(Head(out)) PROVE InQueue /\ ~InQueue'
  <2>1. InQueue /\ 1 \in DOMAIN out /\ IsAnswer(out[1])
    BY <1>4, QueueTail DEF InQueue
  <2>2. ASSUME NEW i \in DOMAIN out', IsAnswer(out'[i]) PROVE FALSE
    <3>1. i + 1 = 1 /\ i \in Nat /\ i # 0
      <4>1. out \in Seq(Item)
        BY DEF TypeOK, DriveTypeOK
      <4>2. i # 0
        BY <4>1
      <4> QED
        BY <1>1, <2>1, <2>2, <4>2, QueueTail DEF LoneAnswer
    <3> QED
      BY <3>1
  <2> QED
    BY <2>1, <2>2 DEF InQueue, IsAnswer
<1> QED
  BY <1>2, <1>3, <1>4

(* What each write does to the target.                                     *)
LEMMA AcceptStatusEffect ==
  ASSUME ~rst, NEW s, AcceptStatus(s), Bus
  PROVE  /\ rst' = rst /\ FIFO' = FIFO /\ Bus'
         /\ TargetOwes' <= TargetOwes + 1
<1>1. /\ rst' = rst /\ FIFO' = FIFO /\ STAT_PEND' = TRUE /\ SP' = SP
      /\ (DOUT_PEND' <=> DOUT_PEND) /\ (BSY' <=> BSY)
  BY DEF AcceptStatus, Arrive, Settle
<1>2. Bus'
  BY <1>1 DEF Bus
<1>3. TargetOwes' <= TargetOwes + 1
  BY <1>1 DEF TargetOwes, One
<1> QED
  BY <1>1, <1>2, <1>3

LEMMA AcceptDataRequestEffect ==
  ASSUME ~rst, AcceptDataRequest, Bus
  PROVE  /\ rst' = rst /\ FIFO' = FIFO /\ Bus'
         /\ TargetOwes' <= TargetOwes + 1
<1>1. rst' = rst /\ FIFO' = FIFO /\ STAT_PEND' = STAT_PEND
  BY DEF AcceptDataRequest, Arrive
<1>2. CASE SP = "FREE" /\ ~STAT_PEND
  <2>1. FIFO = <<>>
    BY <1>2 DEF Bus
  <2>2. SP' = "DATAOUT" /\ ~DOUT_PEND' /\ BSY'
    BY <1>2, <2>1 DEF AcceptDataRequest, Arrive, Settle
  <2>3. Bus' /\ TargetOwes' <= TargetOwes + 1
    BY <1>1, <1>2, <2>1, <2>2 DEF Bus, TargetOwes, One
  <2> QED
    BY <1>1, <2>3
<1>3. CASE ~(SP = "FREE" /\ ~STAT_PEND)
  <2>1. SP' = SP /\ (BSY' <=> BSY)
    BY <1>3 DEF AcceptDataRequest, Arrive, Settle
  <2>2. Bus' /\ TargetOwes' <= TargetOwes + 1
    BY <1>1, <1>3, <2>1 DEF Bus, TargetOwes, One
  <2> QED
    BY <1>1, <2>2
<1> QED
  BY <1>2, <1>3

LEMMA AcceptDataEffect ==
  ASSUME TypeOK, ~rst, NEW w \in Item, AcceptData(w), Bus
  PROVE  /\ rst' = rst /\ FIFO' # <<>> /\ Bus'
         /\ TargetOwes' = TargetOwes
         /\ UNCHANGED <<STAT_PEND, DOUT_PEND>>
         /\ SP' = SP \/ SP' = "DATAIN"
<1>1. FIFO' # <<>> /\ rst' = rst /\ STAT_PEND' = STAT_PEND
  <2>1. FIFO \in Seq(Item)
    BY DEF TypeOK, TargetTypeOK
  <2>2. \A s \in Seq(Item) : Append(s, w) # <<>>
    OBVIOUS
  <2>3. FIFO' = Append(FIFO, w) /\ rst' = rst /\ STAT_PEND' = STAT_PEND
    BY DEF AcceptData, Arrive
  <2> QED
    BY <2>1, <2>2, <2>3
<1>2. Append(FIFO, w) # <<>>
  BY <1>1 DEF AcceptData, Arrive
<1>3. /\ SP' = IF SP = "FREE" /\ ~STAT_PEND THEN "DATAIN" ELSE SP
      /\ BSY' <=> BSY \/ (SP = "FREE" /\ ~STAT_PEND)
  BY <1>2 DEF AcceptData, Arrive, Settle
<1>4. DOUT_PEND' = DOUT_PEND
  <2>1. DOUT_PEND' = (DOUT_PEND /\ TRUE)
    BY <1>2 DEF AcceptData, Arrive, Settle
  <2>2. DOUT_PEND \in BOOLEAN
    BY DEF TypeOK, TargetTypeOK
  <2> QED
    BY <2>1, <2>2
<1>5. Bus'
  BY <1>1, <1>3 DEF Bus
<1>6. TargetOwes' = TargetOwes
  BY <1>1, <1>3, <1>4 DEF TargetOwes, One
<1> QED
  BY <1>1, <1>3, <1>4, <1>5, <1>6

LEMMA WriteOwes ==
  ASSUME TypeOK, out # <<>>, out' = Tail(out), LoneAnswer,
         \/ TargetOwes' <= TargetOwes
         \/ IsAnswer(Head(out)) /\ TargetOwes' <= TargetOwes + 1
  PROVE  /\ One(InQueue)' + TargetOwes' <= One(InQueue) + TargetOwes
         /\ AnswerUnderway' => AnswerUnderway
<1>1. /\ TargetOwes \in Nat /\ TargetOwes' \in Nat
      /\ One(InQueue) \in {0, 1} /\ One(InQueue)' \in {0, 1}
      /\ One(InQueue) = 0 <=> ~InQueue
      /\ One(InQueue)' = 0 <=> ~InQueue'
  BY TargetOwesNothing
<1>2. \A a, b \in {0, 1}, c, d \in Nat :
        \/ d <= c /\ (a = 0 => b = 0)
        \/ d <= c + 1 /\ b = 0 /\ a # 0
        => b + d <= a + c
  OBVIOUS
<1>3. \/ TargetOwes' <= TargetOwes /\ (One(InQueue) = 0 => One(InQueue)' = 0)
      \/ TargetOwes' <= TargetOwes + 1 /\ One(InQueue)' = 0 /\ One(InQueue) # 0
  BY <1>1, QueueTailAnswers, Zenon
<1>4. One(InQueue)' + TargetOwes' <= One(InQueue) + TargetOwes
  BY <1>1, <1>2, <1>3, Zenon
<1>5. \A a, b \in {0, 1}, c, d \in Nat : b + d <= a + c /\ a + c = 0 => b + d = 0
  OBVIOUS
<1>6. AnswerUnderway' => AnswerUnderway
  BY <1>1, <1>4, <1>5, TargetOwesNothing, Zenon
<1> QED
  BY <1>4, <1>6

(* The pieces left move up by one, and one that enters the FIFO was        *)
(* counted in the queue.                                                   *)
LEMMA WriteCounts ==
  ASSUME TypeOK, TypeOK', out # <<>>, out' = Tail(out),
         UNCHANGED <<req, last_req>>, NEW n \in Nat, CountBelow(n),
         \/ FIFO' = FIFO
         \/ IsPiece(Head(out))
  PROVE  CountBelow(n)'
<1>1. Unseen' = Unseen /\ Unseen \in Int
  BY DEF Unseen, TypeOK
<1>2. One(FIFO # <<>>) \in {0, 1} /\ One(FIFO # <<>>)' \in {0, 1}
  BY DEF One
<1> DEFINE f == One(FIFO # <<>>)
           g == One(FIFO # <<>>)'
<1>3. \/ g = f
      \/ Unseen + f + 1 <= n
  BY QueueTail DEF CountBelow, One
<1>4. Unseen + f <= n
  BY DEF CountBelow
<1>5. \A i \in DOMAIN out' : i \in Nat /\ (IsPiece(out'[i]) => Unseen + f + (i + 1) <= n)
  BY QueueTail DEF CountBelow, IsPiece
<1>6. f \in {0, 1} /\ g \in {0, 1}
  BY <1>2
<1>7. /\ (Unseen' + g <= n /\ \A i \in DOMAIN out' : IsPiece(out'[i]) => Unseen' + g + i <= n)
         => CountBelow(n)'
  BY Zenon DEF CountBelow, IsPiece
<1> HIDE DEF f, g
<1>8. Unseen + g <= n
  BY <1>1, <1>3, <1>4, <1>6
<1>9. \A i \in DOMAIN out' : IsPiece(out'[i]) => Unseen + g + i <= n
  BY <1>1, <1>5, <1>6
<1> QED
  BY <1>1, <1>7, <1>8, <1>9

LEMMA WriteKeeps ==
  ASSUME AnswerInv, TypeOK', out # <<>>, out' = Tail(out),
         UNCHANGED <<pc, need_reset, media, transport, cdda, answer,
                     slot, req, last_req, consoleVars, rst>>,
         rst => UNCHANGED <<SP, STAT_PEND, DOUT_PEND, FIFO>>,
         Bus',
         ~rst => \/ TargetOwes' <= TargetOwes
                 \/ IsAnswer(Head(out)) /\ TargetOwes' <= TargetOwes + 1,
         \/ FIFO' = FIFO
         \/ IsPiece(Head(out))
  PROVE  AnswerInv'
<1>1. TypeOK /\ asked' = asked
  BY DEF AnswerInv, consoleVars
<1>2. /\ DrivePending' <=> DrivePending
      /\ \A k : Unread(k)' <=> Unread(k)
      /\ ResetSettled' <=> ResetSettled
      /\ MailOwes' = MailOwes /\ DriveOwes' = DriveOwes
  BY DEF DrivePending, Unread, ResetSettled, MailOwes, DriveOwes
<1>3. NoSecondAnswer'
  <2> SUFFICES ASSUME ~rst PROVE LoneAnswer' /\ Owed' <= One(asked # NoCommand)'
    BY DEF NoSecondAnswer
  <2>1. LoneAnswer /\ Owed <= One(asked # NoCommand)
    BY DEF AnswerInv, NoSecondAnswer
  <2>2. One(InQueue)' + TargetOwes' <= One(InQueue) + TargetOwes
    BY <1>1, <2>1, WriteOwes
  <2>3. /\ Owed = MailOwes + DriveOwes + One(InQueue) + TargetOwes
        /\ Owed' = MailOwes' + DriveOwes' + One(InQueue)' + TargetOwes'
    BY DEF Owed
  <2>4. One(asked # NoCommand)' = One(asked # NoCommand) /\ One(asked # NoCommand) \in Nat
    BY <1>1 DEF One
  <2>5. /\ MailOwes \in Nat /\ DriveOwes \in Nat /\ TargetOwes \in Nat
        /\ TargetOwes' \in Nat /\ One(InQueue) \in Nat /\ One(InQueue)' \in Nat
    BY MailOwesNothing, DriveOwesNothing, TargetOwesNothing
  <2>6. \A m, d, q, t, r, u, a \in Nat :
          r + u <= q + t /\ m + d + q + t <= a => m + d + r + u <= a
    OBVIOUS
  <2>7. Owed' <= One(asked # NoCommand)'
    BY <1>2, <2>1, <2>2, <2>3, <2>4, <2>5, <2>6, Zenon
  <2> QED
    BY <1>1, <2>1, <2>7, QueueTailAnswers
<1>4. ResetOver'
  BY <1>2 DEF AnswerInv, ResetOver
<1>5. ResetAtRest'
  <2>1. NoPieces => NoPieces'
    BY <1>1, QueueTail DEF NoPieces, IsPiece
  <2>2. ~InQueue => ~InQueue'
    BY <1>1, QueueTail DEF InQueue, IsAnswer
  <2> QED
    BY <1>1, <1>2, <2>1, <2>2 DEF AnswerInv, ResetAtRest, NoPieces
<1>6. PieceBeforeAnswer'
  <2> SUFFICES ASSUME ~rst, NEW i \in DOMAIN out', IsPiece(out'[i])
               PROVE  \/ has_status' \/ state' = "READ"
                      \/ \E j \in DOMAIN out' : j > i /\ IsAnswer(out'[j])
    BY DEF PieceBeforeAnswer, IsPiece, IsAnswer
  <2>1. i \in Nat /\ i + 1 \in DOMAIN out /\ IsPiece(out[i + 1])
    BY <1>1, QueueTail
  <2>2. \/ has_status \/ state = "READ"
        \/ \E j \in DOMAIN out : j > i + 1 /\ IsAnswer(out[j])
    BY <2>1 DEF AnswerInv, PieceBeforeAnswer
  <2>3. ASSUME NEW j \in DOMAIN out, j > i + 1, IsAnswer(out[j])
        PROVE  \E k \in DOMAIN out' : k > i /\ IsAnswer(out'[k])
    <3>1. j \in Nat
      BY <1>1, QueueTail
    <3>2. j # 1 /\ j - 1 > i
      BY <2>1, <2>3, <3>1
    <3>3. j - 1 \in DOMAIN out' /\ out'[j - 1] = out[j]
      BY <1>1, <3>2, QueueTail
    <3> QED
      BY <2>3, <3>2, <3>3
  <2> QED
    BY <2>2, <2>3
<1>7. CommandAlone'
  <2> SUFFICES ASSUME ~rst, Unread("command"), IsPiece(Head(out)) PROVE FALSE
    BY <1>2 DEF AnswerInv, CommandAlone
  <2>1. DrivePending \/ InQueue
    BY <1>1, QueueTail DEF AnswerInv, PieceBeforeAnswer, DrivePending, InQueue
  <2>2. MailOwes # 0 /\ (DriveOwes # 0 \/ One(InQueue) # 0)
    BY <2>1, MailOwesNothing, DriveOwesNothing, TargetOwesNothing
  <2>3. MailOwes + DriveOwes + One(InQueue) + TargetOwes <= 1
    BY OwedOnce DEF AnswerInv
  <2>4. \A m, d, q, t \in Nat : m # 0 /\ (d # 0 \/ q # 0) => ~(m + d + q + t <= 1)
    OBVIOUS
  <2>5. /\ MailOwes \in Nat /\ DriveOwes \in Nat /\ TargetOwes \in Nat
        /\ One(InQueue) \in Nat
    BY MailOwesNothing, DriveOwesNothing, TargetOwesNothing
  <2> QED
    BY <2>2, <2>3, <2>4, <2>5, Zenon
<1>8. CounterBehind'
  <2> SUFFICES ASSUME ~rst
               PROVE  /\ CountBelow(Chunks + 1)'
                      /\ asked' = NoCommand \/ AnswerUnderway' => CountBelow(Chunks)'
                      /\ DrivePending' /\ pc' # "mail" => CountBelow(1)'
    BY DEF CounterBehind
  <2>1. /\ CountBelow(Chunks + 1)
        /\ asked = NoCommand \/ AnswerUnderway => CountBelow(Chunks)
        /\ DrivePending /\ pc # "mail" => CountBelow(1)
    BY DEF AnswerInv, CounterBehind
  <2>2. AnswerUnderway' => AnswerUnderway
    BY <1>1, WriteOwes DEF AnswerInv, NoSecondAnswer
  <2>3. \A n \in Nat : CountBelow(n) => CountBelow(n)'
    BY <1>1, WriteCounts
  <2>4. Chunks \in Nat /\ Chunks + 1 \in Nat /\ 1 \in Nat
    OBVIOUS
  <2> QED
    BY <1>1, <1>2, <2>1, <2>2, <2>3, <2>4
<1> QED
  BY <1>3, <1>4, <1>5, <1>6, <1>7, <1>8, Zenon DEF AnswerInv

LEMMA PortWriteAnswers ==
  ASSUME AnswerInv, TypeOK', PortWrite
  PROVE  AnswerInv'
<1> DEFINE w == Head(out)
<1>1. /\ out # <<>> /\ out' = Tail(out)
      /\ UNCHANGED <<pc, need_reset, media, transport, cdda, answer,
                     slot, req, last_req, consoleVars>>
  BY DEF PortWrite
<1>2. TypeOK /\ Bus
  BY DEF AnswerInv
<1>3. w \in Item
  BY <1>1, <1>2, HeadTailProperties DEF TypeOK, DriveTypeOK
<1>4. CASE /\ UNCHANGED <<rst, SP, BSY, STAT_PEND, DOUT_PEND, FIFO>>
  <2>1. Bus' /\ TargetOwes' = TargetOwes
    BY <1>2, <1>4 DEF Bus, TargetOwes
  <2>2. TargetOwes' <= TargetOwes
    BY <2>1, TargetOwesNothing
  <2> QED
    BY <1>1, <1>4, <2>1, <2>2, WriteKeeps
<1>5. CASE ~rst /\ w.kind = "status" /\ AcceptStatus(w.n)
  BY <1>1, <1>2, <1>5, AcceptStatusEffect, WriteKeeps DEF IsAnswer
<1>6. CASE ~rst /\ w.kind = "datareq" /\ AcceptDataRequest
  BY <1>1, <1>2, <1>6, AcceptDataRequestEffect, WriteKeeps DEF IsAnswer
<1>7. CASE ~rst /\ w.kind \in {"reply", "data"} /\ AcceptData(w)
  <2>1. TargetOwes' <= TargetOwes
    BY <1>2, <1>3, <1>7, AcceptDataEffect, TargetOwesNothing
  <2>2. rst' = rst /\ Bus'
    BY <1>2, <1>3, <1>7, AcceptDataEffect
  <2> QED
    BY <1>1, <1>7, <2>1, <2>2, WriteKeeps DEF IsPiece
<1>8. \/ UNCHANGED <<rst, SP, BSY, STAT_PEND, DOUT_PEND, FIFO>>
      \/ ~rst /\ w.kind = "status" /\ AcceptStatus(w.n)
      \/ ~rst /\ w.kind = "datareq" /\ AcceptDataRequest
      \/ ~rst /\ w.kind \in {"reply", "data"} /\ AcceptData(w)
  BY DEF PortWrite, targetVars, AcceptStatus, AcceptDataRequest, AcceptData
<1> QED
  BY <1>4, <1>5, <1>6, <1>7, <1>8, Zenon
-----------------------------------------------------------------------------
(* The target and the console leave the drive and its queue alone, and     *)
(* send the firmware at most one message.                                  *)
LEMMA SameQueueCounts ==
  ASSUME TypeOK, TypeOK', out' = out, NEW n \in Nat, NEW k \in {0, 1},
         CountBelow(n),
         Unseen' + One(FIFO # <<>>)' <= Unseen + One(FIFO # <<>>) + k
  PROVE  CountBelow(n + k)'
<1> DEFINE u == Unseen + One(FIFO # <<>>)
           v == Unseen' + One(FIFO # <<>>)'
<1>1. u \in Int /\ v \in Int
  BY DEF TypeOK, Unseen, One
<1>2. \A i \in DOMAIN out : i \in Nat
  <2>1. out \in Seq(Item)
    BY DEF TypeOK, DriveTypeOK
  <2> QED
    BY <2>1, LenProperties
<1>3. u <= n /\ \A i \in DOMAIN out : IsPiece(out[i]) => u + i <= n
  BY Zenon DEF CountBelow
<1>4. /\ v <= n + k /\ \A i \in DOMAIN out : IsPiece(out[i]) => v + i <= n + k
      => CountBelow(n + k)'
  BY Zenon DEF CountBelow, IsPiece
<1>5. v <= u + k
  OBVIOUS
<1> HIDE DEF u, v
<1>6. v <= n + k
  BY <1>1, <1>3, <1>5
<1>7. \A i \in DOMAIN out : IsPiece(out[i]) => v + i <= n + k
  BY <1>1, <1>2, <1>3, <1>5
<1> QED
  BY <1>4, <1>6, <1>7

(* What is owed when the target has something to hand over or to ask for.  *)
LEMMA OwedByTarget ==
  ASSUME NoSecondAnswer, ~rst,
         SP = "STAT" \/ SP = "DATAOUT" \/ STAT_PEND
  PROVE  /\ asked # NoCommand /\ MailOwes = 0 /\ DriveOwes = 0
         /\ One(InQueue) = 0 /\ TargetOwes = 1
         /\ SP \in {"STAT", "DATAOUT"} => ~STAT_PEND /\ ~DOUT_PEND
<1>1. /\ MailOwes + DriveOwes + One(InQueue) + TargetOwes <= 1
      /\ asked = NoCommand => TargetOwes = 0
  BY OwedOnce
<1>2. /\ MailOwes \in Nat /\ DriveOwes \in Nat /\ TargetOwes \in Nat
      /\ One(InQueue) \in Nat
  BY MailOwesNothing, DriveOwesNothing, TargetOwesNothing
<1>3. TargetOwes # 0
  BY DEF TargetOwes, One
<1>4. \A m, d, q, t \in Nat :
        m + d + q + t <= 1 /\ t # 0 => m = 0 /\ d = 0 /\ q = 0 /\ t = 1
  OBVIOUS
<1>5. MailOwes = 0 /\ DriveOwes = 0 /\ One(InQueue) = 0 /\ TargetOwes = 1
  BY <1>1, <1>2, <1>3, <1>4, Zenon
<1>6. SP \in {"STAT", "DATAOUT"} => ~STAT_PEND /\ ~DOUT_PEND
  BY <1>5 DEF TargetOwes, One
<1> QED
  BY <1>1, <1>3, <1>5, <1>6

LEMMA OutsideKeeps ==
  ASSUME AnswerInv, TypeOK', ~rst, ~rst', UNCHANGED driveVars,
         Owed' <= One(asked # NoCommand)',
         Unread("reset")' => Unread("reset"),
         Bus', CommandAlone', CounterBehind'
  PROVE  AnswerInv'
<1>1. /\ UNCHANGED <<out, state, has_status, need_reset>>
      /\ ~ResetSettled' => ~ResetSettled
  BY DEF driveVars, ResetSettled
<1>2. NoSecondAnswer' /\ PieceBeforeAnswer'
  BY <1>1 DEF AnswerInv, NoSecondAnswer, LoneAnswer, PieceBeforeAnswer
<1>3. ResetOver' /\ ResetAtRest'
  BY <1>1 DEF AnswerInv, ResetOver, ResetAtRest
<1> QED
  BY <1>2, <1>3, Zenon DEF AnswerInv

LEMMA StatusPhaseAnswers ==
  ASSUME AnswerInv, TypeOK', Target
  PROVE  AnswerInv'
<1>1. /\ SP = "FREE" /\ ~rst /\ STAT_PEND /\ SP' = "STAT" /\ ~STAT_PEND' /\ BSY'
      /\ UNCHANGED <<rst, DOUT_PEND, FIFO, driveVars, mailVars, asked>>
  BY DEF Target, StatusPhase, consoleVars
<1>2. /\ TypeOK /\ NoSecondAnswer
      /\ UNCHANGED <<out, pc, has_status, data_req, state, CDDAMode, slot, req, last_req>>
  BY <1>1 DEF AnswerInv, driveVars, mailVars
<1>3. TargetOwes' = TargetOwes
  BY <1>1 DEF TargetOwes, One
<1>4. /\ MailOwes' = MailOwes /\ DriveOwes' = DriveOwes
      /\ One(InQueue)' = One(InQueue) /\ One(asked # NoCommand)' = One(asked # NoCommand)
  BY <1>1, <1>2 DEF MailOwes, DriveOwes, Unread, InQueue
<1>5. Owed' <= One(asked # NoCommand)'
  BY <1>1, <1>2, <1>3, <1>4 DEF NoSecondAnswer, Owed
<1>6. Bus'
  BY <1>1 DEF Bus
<1>7. CommandAlone' /\ (Unread("reset")' => Unread("reset"))
  BY <1>1, <1>2 DEF AnswerInv, CommandAlone, Unread
<1>8. CounterBehind'
  <2>1. AnswerUnderway /\ (DrivePending' <=> DrivePending)
    BY <1>1, <1>2 DEF AnswerUnderway, DrivePending
  <2>2. \A n : CountBelow(n)' <=> CountBelow(n)
    BY <1>1, <1>2 DEF CountBelow, Unseen
  <2> QED
    BY <1>1, <1>2, <2>1, <2>2 DEF AnswerInv, CounterBehind
<1> QED
  BY <1>1, <1>5, <1>6, <1>7, <1>8, OutsideKeeps

LEMMA TakeStatusAnswers ==
  ASSUME AnswerInv, TypeOK', TakeStatus
  PROVE  AnswerInv'
<1>1. /\ SP = "STAT" /\ ~rst /\ asked' = NoCommand
      /\ UNCHANGED <<rst, STAT_PEND, FIFO, driveVars, mailVars>>
  BY DEF TakeStatus, StatusTaken
<1>2. /\ TypeOK /\ NoSecondAnswer
      /\ UNCHANGED <<out, pc, has_status, data_req, state, CDDAMode, slot, req, last_req>>
  BY <1>1 DEF AnswerInv, driveVars, mailVars
<1>3. /\ MailOwes = 0 /\ DriveOwes = 0 /\ One(InQueue) = 0
      /\ ~STAT_PEND /\ ~DOUT_PEND
  BY <1>1, <1>2, OwedByTarget
<1>4. /\ SP' = IF FIFO # <<>> THEN "DATAIN" ELSE "FREE"
      /\ ~STAT_PEND' /\ ~DOUT_PEND' /\ (BSY' <=> SP' # "FREE")
  <2>1. Settle(STAT_PEND, FIFO, DOUT_PEND) = IF FIFO # <<>> THEN "DATAIN" ELSE "FREE"
    BY <1>3 DEF Settle
  <2>2. /\ SP' = Settle(STAT_PEND, FIFO, DOUT_PEND)
        /\ STAT_PEND' = STAT_PEND
        /\ DOUT_PEND' = (DOUT_PEND /\ SP' # "DATAOUT")
        /\ BSY' = (SP' # "FREE")
    BY DEF TakeStatus, StatusTaken
  <2>3. ~DOUT_PEND' /\ (BSY' <=> SP' # "FREE")
    BY <1>3, <2>2, Zenon
  <2> QED
    BY <1>3, <2>1, <2>2, <2>3
<1>5. TargetOwes' = 0
  BY <1>4 DEF TargetOwes, One
<1>6. MailOwes' = MailOwes /\ DriveOwes' = DriveOwes /\ One(InQueue)' = One(InQueue)
  BY <1>1, <1>2 DEF MailOwes, DriveOwes, Unread, InQueue
<1>7. Owed' <= One(asked # NoCommand)'
  <2>1. Owed' = 0
    BY <1>3, <1>5, <1>6 DEF Owed
  <2> QED
    BY <2>1 DEF One
<1>8. Bus'
  BY <1>1, <1>4 DEF Bus
<1>9. CommandAlone' /\ (Unread("reset")' => Unread("reset"))
  BY <1>1, <1>2 DEF AnswerInv, CommandAlone, Unread
<1>10. CounterBehind'
  <2>1. AnswerUnderway /\ (DrivePending' <=> DrivePending)
    BY <1>1, <1>2 DEF AnswerUnderway, DrivePending
  <2>2. \A n : CountBelow(n)' <=> CountBelow(n)
    BY <1>1, <1>2 DEF CountBelow, Unseen
  <2> QED
    BY <1>1, <1>2, <2>1, <2>2 DEF AnswerInv, CounterBehind
<1> QED
  BY <1>1, <1>7, <1>8, <1>9, <1>10, OutsideKeeps

(* There is room for another message before the counter comes round.       *)
LEMMA CounterRoom ==
  ASSUME AnswerInv, Orderly, ~rst
  PROVE  MailTypeOK /\ Unseen \in Nat /\ Unseen + 1 < ReqMod
<1>1. MailTypeOK /\ Chunks \in Nat /\ ReqMod \in Nat /\ ReqMod > Chunks + 2
  BY SystemAssumption DEF AnswerInv, TypeOK, MailTypeOK, Orderly
<1>2. Unseen \in Nat /\ One(FIFO # <<>>) \in {0, 1}
  BY <1>1, UnseenType DEF One
<1>3. Unseen + One(FIFO # <<>>) <= Chunks + 1
  BY DEF AnswerInv, CounterBehind, CountBelow
<1> QED
  BY <1>1, <1>2, <1>3

LEMMA IssueCommandAnswers ==
  ASSUME AnswerInv, TypeOK', Orderly, NEW c \in Commands, IssueCommand(c)
  PROVE  AnswerInv'
<1>1. /\ asked = NoCommand /\ asked' = c /\ SP = "FREE" /\ ~rst /\ BSY'
      /\ UNCHANGED <<rst, STAT_PEND, FIFO, driveVars>> /\ Post("command", c)
  BY DEF IssueCommand, SelectAndCommand
<1>2. TypeOK /\ NoSecondAnswer /\ Bus
  BY DEF AnswerInv
<1>3. asked' # NoCommand
  BY <1>1, SystemAssumption DEF NoCommand, Command, Ops
<1>4. MailOwes = 0 /\ DriveOwes = 0 /\ One(InQueue) = 0 /\ TargetOwes = 0
  BY <1>1, <1>2, OwedOnce
<1>5. ~STAT_PEND /\ ~DOUT_PEND
  BY <1>4 DEF TargetOwes, One
<1>6. FIFO = <<>>
  BY <1>1, <1>2, <1>5 DEF Bus
<1>7. SP' = "FREE" /\ ~DOUT_PEND'
  BY <1>1, <1>5, <1>6 DEF IssueCommand, SelectAndCommand, Settle
<1>8. Unseen' = Unseen + 1 /\ req' # last_req' /\ slot'.kind = "command"
  BY <1>1, CounterRoom, PostCounts DEF Post
<1>9. UNCHANGED <<out, pc, has_status, data_req, state, CDDAMode>>
  BY <1>1 DEF driveVars
<1>10. Owed' <= One(asked # NoCommand)'
  <2>1. TargetOwes' = 0 /\ MailOwes' = 1
    BY <1>1, <1>5, <1>7, <1>8 DEF TargetOwes, MailOwes, Unread, One
  <2>2. DriveOwes' = 0 /\ One(InQueue)' = 0
    BY <1>4, <1>9 DEF DriveOwes, InQueue
  <2>3. Owed' = 1
    BY <2>1, <2>2 DEF Owed
  <2> QED
    BY <1>3, <2>3 DEF One
<1>11. Bus' /\ CommandAlone' /\ ~Unread("reset")'
  BY <1>1, <1>6, <1>8 DEF Bus, CommandAlone, Unread
<1>12. CounterBehind'
  <2>1. CountBelow(Chunks)
    BY <1>1 DEF AnswerInv, CounterBehind
  <2>2. Unseen' + One(FIFO # <<>>)' <= Unseen + One(FIFO # <<>>) + 1
    <3>1. One(FIFO # <<>>)' = 0 /\ One(FIFO # <<>>) = 0
      BY <1>1, <1>6 DEF One
    <3> QED
      BY <1>1, <1>8, <3>1, CounterRoom
  <2>3. CountBelow(Chunks + 1)'
    BY <1>2, <1>9, <2>1, <2>2, SameQueueCounts
  <2>4. ~AnswerUnderway'
    BY <1>1, <1>4, <1>5, <1>7, <1>9, TargetOwesNothing DEF AnswerUnderway, InQueue
  <2>5. ~DrivePending'
    BY <1>4, <1>9, DriveOwesNothing DEF DrivePending
  <2> QED
    BY <1>3, <2>3, <2>4, <2>5 DEF CounterBehind
<1> QED
  BY <1>1, <1>10, <1>11, <1>12, OutsideKeeps

LEMMA GiveParametersAnswers ==
  ASSUME AnswerInv, TypeOK', Orderly, GiveParameters
  PROVE  AnswerInv'
<1>1. /\ SP = "DATAOUT" /\ ~rst
      /\ UNCHANGED <<rst, BSY, STAT_PEND, FIFO, driveVars, asked>>
      /\ Post("dataout", NoCommand)
  BY DEF GiveParameters, ParametersGiven, consoleVars
<1>2. TypeOK /\ NoSecondAnswer /\ Bus
  BY DEF AnswerInv
<1>3. /\ asked # NoCommand /\ DriveOwes = 0 /\ One(InQueue) = 0
      /\ ~STAT_PEND /\ ~DOUT_PEND
  BY <1>1, <1>2, OwedByTarget
<1>4. SP' = (IF FIFO # <<>> THEN "DATAIN" ELSE "FREE") /\ ~DOUT_PEND'
  BY <1>3 DEF GiveParameters, ParametersGiven, Settle
<1>5. Unseen' = Unseen + 1 /\ req' # last_req' /\ slot'.kind = "dataout"
  BY <1>1, CounterRoom, PostCounts DEF Post
<1>6. UNCHANGED <<out, pc, has_status, data_req, state, CDDAMode>>
  BY <1>1 DEF driveVars
<1>7. Owed' <= One(asked # NoCommand)'
  <2>1. TargetOwes' = 0 /\ MailOwes' = 1
    BY <1>1, <1>3, <1>4, <1>5 DEF TargetOwes, MailOwes, Unread, One
  <2>2. DriveOwes' = 0 /\ One(InQueue)' = 0
    BY <1>3, <1>6 DEF DriveOwes, InQueue
  <2>3. Owed' = 1
    BY <2>1, <2>2 DEF Owed
  <2> QED
    BY <1>1, <1>3, <2>3 DEF One
<1>8. Bus' /\ CommandAlone' /\ ~Unread("reset")'
  BY <1>1, <1>2, <1>4, <1>5 DEF Bus, CommandAlone, Unread
<1>9. CounterBehind'
  <2>1. CountBelow(Chunks)
    BY <1>1 DEF AnswerInv, CounterBehind, AnswerUnderway
  <2>2. Unseen' + One(FIFO # <<>>)' <= Unseen + One(FIFO # <<>>) + 1
    <3>1. One(FIFO # <<>>)' = One(FIFO # <<>>) /\ One(FIFO # <<>>) \in {0, 1}
      BY <1>1 DEF One
    <3> QED
      BY <1>1, <1>5, <3>1, CounterRoom
  <2>3. CountBelow(Chunks + 1)'
    BY <1>2, <1>6, <2>1, <2>2, SameQueueCounts
  <2>4. ~AnswerUnderway'
    BY <1>1, <1>3, <1>4, <1>6, TargetOwesNothing DEF AnswerUnderway, InQueue
  <2>5. ~DrivePending'
    BY <1>3, <1>6, DriveOwesNothing DEF DrivePending
  <2> QED
    BY <1>1, <1>3, <2>3, <2>4, <2>5 DEF CounterBehind
<1> QED
  BY <1>1, <1>7, <1>8, <1>9, OutsideKeeps

(* The FIFO runs empty only if what was in it had been counted.            *)
LEMMA TakeDataAnswers ==
  ASSUME AnswerInv, TypeOK', Orderly, TakeData
  PROVE  AnswerInv'
<1>1. /\ SP = "DATAIN" /\ ~rst /\ FIFO' = Tail(FIFO)
      /\ UNCHANGED <<rst, BSY, STAT_PEND, driveVars, asked>>
  BY DEF TakeData, DataTaken
<1>2. TypeOK /\ NoSecondAnswer /\ Bus
  BY DEF AnswerInv
<1>3. UNCHANGED <<out, pc, has_status, data_req, state, CDDAMode>>
  BY <1>1 DEF driveVars
<1>4. /\ FIFO # <<>>
      /\ Len(FIFO) = 1 <=> FIFO' = <<>>
  <2>1. FIFO \in Seq(Item) /\ FIFO # <<>>
    BY <1>1, <1>2 DEF TypeOK, TargetTypeOK
  <2>2. /\ Len(FIFO) \in Nat /\ Tail(FIFO) \in Seq(Item)
        /\ Len(Tail(FIFO)) = Len(FIFO) - 1
    BY <2>1, HeadTailProperties, LenProperties
  <2>3. \A s \in Seq(Item) : Len(s) = 0 <=> s = <<>>
    BY EmptySeq
  <2>4. Len(Tail(FIFO)) = 0 <=> Tail(FIFO) = <<>>
    BY <2>2, <2>3, Zenon
  <2>5. Len(FIFO) = 1 <=> Len(Tail(FIFO)) = 0
    BY <2>2
  <2> QED
    BY <1>1, <2>1, <2>4, <2>5
<1>5. /\ SP' = IF FIFO' # <<>> THEN "DATAIN"
               ELSE IF STAT_PEND THEN "FREE"
               ELSE IF DOUT_PEND THEN "DATAOUT" ELSE "FREE"
      /\ DOUT_PEND' <=> DOUT_PEND /\ SP' # "DATAOUT"
  BY <1>1 DEF TakeData, DataTaken, Settle
<1>6. TargetOwes' = TargetOwes
  BY <1>1, <1>5 DEF TargetOwes, One
<1>7. Bus'
  BY <1>1, <1>2, <1>5 DEF Bus
<1>8. DriveOwes' = DriveOwes /\ One(InQueue)' = One(InQueue)
  BY <1>3 DEF DriveOwes, InQueue
<1>9. /\ \A k \in {"command", "dataout", "reset"} : Unread(k)' => Unread(k)
      /\ Unread("command")' => FIFO' # <<>> /\ Unread("command")
      /\ Unseen' + One(FIFO # <<>>)' <= Unseen + One(FIFO # <<>>) + 0
  <2>1. CASE Len(FIFO) = 1
    <3>1. Post("dataend", NoCommand)
      BY <2>1 DEF TakeData
    <3>2. Unseen' = Unseen + 1 /\ slot'.kind = "dataend"
      BY <1>1, <3>1, CounterRoom, PostCounts DEF Post
    <3>3. One(FIFO # <<>>)' = 0 /\ One(FIFO # <<>>) = 1
      BY <1>4, <2>1 DEF One
    <3>4. Unseen \in Nat
      BY <1>1, CounterRoom
    <3> QED
      BY <3>2, <3>3, <3>4 DEF Unread
  <2>2. CASE Len(FIFO) # 1
    <3>1. UNCHANGED mailVars
      BY <2>2 DEF TakeData
    <3>2. UNCHANGED <<slot, req, last_req>>
      BY <3>1 DEF mailVars
    <3>3. One(FIFO # <<>>)' = 1 /\ One(FIFO # <<>>) = 1
      BY <1>4, <2>2 DEF One
    <3>4. Unseen' = Unseen /\ Unseen \in Nat
      BY <1>1, <3>2, CounterRoom DEF Unseen
    <3> QED
      BY <1>4, <2>2, <3>2, <3>3, <3>4 DEF Unread
  <2> QED
    BY <2>1, <2>2
<1>10. Owed' <= One(asked # NoCommand)'
  <2>1. MailOwes' <= MailOwes
    BY <1>9 DEF MailOwes, One
  <2>2. Owed <= One(asked # NoCommand)
    BY <1>1, <1>2 DEF NoSecondAnswer
  <2>3. One(asked # NoCommand)' = One(asked # NoCommand) /\ One(asked # NoCommand) \in Nat
    BY <1>1 DEF One
  <2>4. /\ Owed = MailOwes + DriveOwes + One(InQueue) + TargetOwes
        /\ Owed' = MailOwes' + DriveOwes' + One(InQueue)' + TargetOwes'
    BY DEF Owed
  <2>5. /\ MailOwes \in Nat /\ MailOwes' \in Nat /\ DriveOwes \in Nat
        /\ TargetOwes \in Nat /\ One(InQueue) \in Nat
    BY MailOwesNothing, DriveOwesNothing, TargetOwesNothing
  <2>6. \A m, n, d, q, t, a \in Nat :
          n <= m /\ m + d + q + t <= a => n + d + q + t <= a
    OBVIOUS
  <2> QED
    BY <1>6, <1>8, <2>1, <2>2, <2>3, <2>4, <2>5, <2>6, Zenon
<1>11. CommandAlone'
  BY <1>1, <1>4, <1>9 DEF AnswerInv, CommandAlone
<1>12. CounterBehind'
  <2>1. AnswerUnderway' => AnswerUnderway
    BY <1>1, <1>3, <1>5 DEF AnswerUnderway, InQueue
  <2>2. DrivePending' <=> DrivePending
    BY <1>3 DEF DrivePending
  <2>3. \A n \in Nat : CountBelow(n) => CountBelow(n + 0)'
    BY <1>2, <1>3, <1>9, SameQueueCounts
  <2>4. \A n \in Nat : n + 0 = n
    OBVIOUS
  <2>5. CountBelow(Chunks + 1) => CountBelow(Chunks + 1)'
    BY <2>3, <2>4
  <2>6. CountBelow(Chunks) => CountBelow(Chunks)'
    BY <2>3, <2>4
  <2>7. CountBelow(1) => CountBelow(1)'
    BY <2>3, <2>4
  <2> QED
    BY <1>1, <1>3, <2>1, <2>2, <2>5, <2>6, <2>7 DEF AnswerInv, CounterBehind
<1> QED
  BY <1>1, <1>7, <1>9, <1>10, <1>11, <1>12, OutsideKeeps

LEMMA HoldResetAnswers ==
  ASSUME AnswerInv, TypeOK', Orderly, HoldReset
  PROVE  AnswerInv'
<1>1. /\ ~rst /\ rst' /\ SP' = "FREE" /\ ~STAT_PEND' /\ ~DOUT_PEND'
      /\ FIFO' = <<>> /\ asked' = NoCommand /\ Post("reset", NoCommand)
  BY DEF HoldReset, AssertReset
<1>2. req' # last_req' /\ slot'.kind = "reset"
  BY <1>1, CounterRoom, PostCounts DEF Post
<1>3. ~ResetSettled'
  BY <1>2 DEF ResetSettled, Unread
<1>4. NoSecondAnswer' /\ ResetOver' /\ PieceBeforeAnswer' /\ CommandAlone' /\ CounterBehind'
  BY <1>1 DEF NoSecondAnswer, ResetOver, PieceBeforeAnswer, CommandAlone, CounterBehind
<1>5. ResetAtRest'
  BY <1>1, <1>2, <1>3 DEF ResetAtRest
<1>6. Bus'
  BY <1>1 DEF Bus
<1> QED
  BY <1>4, <1>5, <1>6, Zenon DEF AnswerInv

(* The reset ends when the drive is at rest and the mailbox read.          *)
LEMMA EndResetAnswers ==
  ASSUME AnswerInv, TypeOK', Orderly, EndReset
  PROVE  AnswerInv'
<1>1. /\ rst /\ ~rst' /\ ResetSettled
      /\ UNCHANGED <<SP, STAT_PEND, DOUT_PEND, FIFO, driveVars, mailVars, asked>>
  BY DEF EndReset, ReleaseReset, Orderly, consoleVars
<1>2. /\ slot.kind = "reset" /\ asked = NoCommand
      /\ SP = "FREE" /\ ~STAT_PEND /\ ~DOUT_PEND /\ FIFO = <<>>
      /\ ~DrivePending /\ ~InQueue /\ NoPieces
  BY <1>1 DEF AnswerInv, ResetAtRest, NoPieces
<1>3. /\ UNCHANGED <<out, pc, has_status, data_req, state, CDDAMode, need_reset>>
      /\ UNCHANGED <<slot, req, last_req>>
  BY <1>1 DEF driveVars, mailVars
<1>4. req = last_req
  BY <1>1, <1>2 DEF ResetSettled, Unread
<1>5. /\ slot'.kind = "reset" /\ asked' = NoCommand
      /\ SP' = "FREE" /\ ~STAT_PEND' /\ ~DOUT_PEND' /\ FIFO' = <<>>
      /\ ~DrivePending' /\ ~InQueue' /\ NoPieces' /\ req' = last_req'
      /\ ResetSettled'
  BY <1>1, <1>2, <1>3, <1>4 DEF DrivePending, InQueue, NoPieces, ResetSettled, Unread
<1>6. NoSecondAnswer'
  <2>1. MailOwes' = 0 /\ DriveOwes' = 0 /\ One(InQueue)' = 0 /\ TargetOwes' = 0
    <3>1. MailOwes' = 0
      BY <1>5, MailOwesNothing DEF Unread
    <3>2. DriveOwes' = 0 /\ One(InQueue)' = 0
      BY <1>5, DriveOwesNothing, TargetOwesNothing
    <3>3. TargetOwes' = 0
      BY <1>5 DEF TargetOwes, One
    <3> QED
      BY <3>1, <3>2, <3>3
  <2>2. Owed' = 0
    BY <2>1 DEF Owed
  <2>3. Owed' <= One(asked # NoCommand)'
    BY <2>2 DEF One
  <2>4. LoneAnswer'
    BY <1>5 DEF LoneAnswer, InQueue
  <2> QED
    BY <2>3, <2>4 DEF NoSecondAnswer
<1>7. ResetOver' /\ ResetAtRest' /\ Bus' /\ PieceBeforeAnswer' /\ CommandAlone'
  BY <1>1, <1>5 DEF ResetOver, ResetAtRest, Bus, PieceBeforeAnswer, NoPieces, CommandAlone
<1>8. CounterBehind'
  <2>1. Unseen' + One(FIFO # <<>>)' = 0
    <3>1. Unseen' = 0
      <4>1. last_req' \in Nat
        BY DEF TypeOK
      <4>2. req' = last_req'
        BY <1>5
      <4>3. \A n \in Nat : n >= n /\ n - n = 0
        OBVIOUS
      <4> QED
        BY <4>1, <4>2, <4>3 DEF Unseen
    <3>2. One(FIFO # <<>>)' = 0
      BY <1>5 DEF One
    <3> QED
      BY <3>1, <3>2
  <2>2. CountBelow(Chunks)' /\ CountBelow(Chunks + 1)'
    BY <1>5, <2>1 DEF CountBelow, NoPieces
  <2> QED
    BY <1>5, <2>2 DEF CounterBehind
<1> QED
  BY <1>6, <1>7, <1>8, Zenon DEF AnswerInv
-----------------------------------------------------------------------------
(* Nothing else has happened before the program starts.                    *)
LEMMA InitAnswers ==
  ASSUME Init
  PROVE  AnswerInv
<1>1. TypeOK
  BY InitTypes
<1>2. /\ out = <<>> /\ ~has_status /\ ~data_req /\ state = "NODISC" /\ ~need_reset
      /\ ~rst /\ SP = "FREE" /\ ~STAT_PEND /\ ~DOUT_PEND /\ FIFO = <<>>
      /\ slot.kind = "none" /\ req = 0 /\ last_req = 0 /\ asked = NoCommand
  BY DEF Init, DriveInit, TargetInit
<1>3. ~InQueue /\ NoPieces /\ LoneAnswer
  BY <1>2, EmptyQueue
<1>4. NoSecondAnswer
  <2>1. MailOwes = 0 /\ DriveOwes = 0 /\ One(InQueue) = 0 /\ TargetOwes = 0
    BY <1>2, <1>3 DEF MailOwes, DriveOwes, TargetOwes, Unread, One
  <2>2. Owed = 0
    BY <2>1 DEF Owed
  <2>3. Owed <= One(asked # NoCommand)
    BY <2>2 DEF One
  <2> QED
    BY <1>3, <2>3 DEF NoSecondAnswer
<1>5. /\ ResetOver /\ ResetAtRest /\ Bus /\ PieceBeforeAnswer /\ CommandAlone
  BY <1>2, <1>3 DEF ResetOver, ResetSettled, Unread, ResetAtRest, Bus,
                    PieceBeforeAnswer, NoPieces, CommandAlone
<1>6. CounterBehind
  <2>1. Unseen + One(FIFO # <<>>) = 0
    BY <1>2 DEF Unseen, One
  <2>2. CountBelow(Chunks) /\ CountBelow(Chunks + 1) /\ CountBelow(1)
    BY <1>3, <2>1 DEF CountBelow, NoPieces
  <2> QED
    BY <2>2 DEF CounterBehind
<1> QED
  BY <1>1, <1>4, <1>5, <1>6, Zenon DEF AnswerInv

LEMMA StutterAnswers ==
  ASSUME AnswerInv, TypeOK', UNCHANGED vars
  PROVE  AnswerInv'
<1>1. UNCHANGED <<rst, SP, BSY, STAT_PEND, DOUT_PEND, FIFO, slot, req, last_req, asked,
                  out, pc, has_status, data_req, state, CDDAMode, need_reset>>
  BY DEF vars, driveVars, targetVars, mailVars, consoleVars
<1>2. /\ LoneAnswer' = LoneAnswer /\ Owed' = Owed
      /\ One(asked # NoCommand)' = One(asked # NoCommand)
  BY <1>1 DEF LoneAnswer, Owed, MailOwes, DriveOwes, TargetOwes, InQueue, Unread
<1>3. NoSecondAnswer'
  BY <1>1, <1>2 DEF AnswerInv, NoSecondAnswer
<1>4. ResetSettled' = ResetSettled /\ DrivePending' = DrivePending /\ InQueue' = InQueue
  BY <1>1 DEF ResetSettled, DrivePending, InQueue, Unread
<1>5. ResetOver' /\ ResetAtRest' /\ Bus' /\ PieceBeforeAnswer' /\ CommandAlone'
  BY <1>1, <1>4 DEF AnswerInv, ResetOver, ResetAtRest, Bus, PieceBeforeAnswer,
                    CommandAlone, Unread
<1>6. CounterBehind'
  <2>1. \A n : CountBelow(n)' <=> CountBelow(n)
    BY <1>1 DEF CountBelow, Unseen
  <2>2. AnswerUnderway' <=> AnswerUnderway
    BY <1>1, <1>4 DEF AnswerUnderway
  <2> QED
    BY <1>1, <1>4, <2>1, <2>2 DEF AnswerInv, CounterBehind
<1> QED
  BY <1>3, <1>5, <1>6, Zenon DEF AnswerInv

LEMMA AnswerStep ==
  ASSUME Orderly, AnswerInv, [Next]_vars
  PROVE  AnswerInv'
<1>1. TypeOK'
  BY TypeStep DEF AnswerInv
<1>2. CASE Console
  BY <1>1, <1>2, IssueCommandAnswers, TakeStatusAnswers, TakeDataAnswers,
     GiveParametersAnswers, HoldResetAnswers, EndResetAnswers DEF Console
<1>3. CASE Firmware
  BY <1>1, <1>3, NoResetAnswers, RemountAnswers, TimerExpiredAnswers, UpdateAnswers,
     NoMessageAnswers, TakeMessageAnswers, PortWriteAnswers
     DEF Firmware, PollReset, PollTimer
<1>4. CASE Target
  BY <1>1, <1>4, StatusPhaseAnswers
<1>5. CASE UNCHANGED vars
  BY <1>1, <1>5, StutterAnswers
<1> QED
  BY <1>2, <1>3, <1>4, <1>5 DEF Next

(* With resets that last until the drive has remounted, plays that leave   *)
(* the end of play interrupt to SAPEP, and a counter that does not come    *)
(* round within a sector, the invariant holds throughout.                  *)
THEOREM AnswerInvariant ==
  ASSUME Orderly
  PROVE  Spec => []AnswerInv
<1>1. Init => AnswerInv
  BY InitAnswers
<1>2. AnswerInv /\ [Next]_vars => AnswerInv'
  BY AnswerStep
<1> QED
  BY <1>1, <1>2, PTL DEF Spec

(* However the firmware's poll, its timer, the mailbox, the target and the *)
(* console interleave, a second status never follows the first, and none   *)
(* comes unasked or after a reset.                                         *)
THEOREM NoAnswerTwice ==
  ASSUME Orderly
  PROVE  Spec => []NoSecondAnswer
<1>1. AnswerInv => NoSecondAnswer
  BY DEF AnswerInv
<1> QED
  BY <1>1, AnswerInvariant, PTL

(* The one slot of the mailbox loses no command: nothing but a reset       *)
(* replaces a command that pcecd_poll has not taken.                       *)
LEMMA SlotStep ==
  ASSUME Orderly, AnswerInv, [Next]_vars, Unread("command"), slot' # slot
  PROVE  slot'.kind = "reset"
<1>1. ~rst => MailOwes # 0 /\ asked # NoCommand
  <2>1. MailOwes # 0
    BY MailOwesNothing
  <2> QED
    BY <2>1, OwedOnce DEF AnswerInv
<1>2. CASE HoldReset
  BY <1>2 DEF HoldReset, Post
<1>3. ASSUME NEW c \in Commands, IssueCommand(c) PROVE FALSE
  BY <1>1, <1>3 DEF IssueCommand, SelectAndCommand
<1>4. ASSUME TakeData PROVE FALSE
  BY <1>4 DEF TakeData, DataTaken, AnswerInv, TypeOK, TargetTypeOK, CommandAlone
<1>5. ASSUME GiveParameters PROVE FALSE
  BY <1>1, <1>5, OwedByTarget DEF GiveParameters, ParametersGiven, AnswerInv
<1>6. ASSUME TakeStatus \/ EndReset \/ Firmware \/ Target \/ UNCHANGED vars
      PROVE  FALSE
  BY <1>6 DEF TakeStatus, EndReset, Firmware, NoMessage, TakeMessage, PortWrite,
              Target, vars, mailVars
<1> QED
  BY <1>2, <1>3, <1>4, <1>5, <1>6 DEF Next, Console

THEOREM CommandNotLost ==
  ASSUME Orderly
  PROVE  Spec => CommandKept
<1>1. AnswerInv /\ [Next]_vars
        => [Unread("command") /\ slot' # slot => slot'.kind = "reset"]_vars
  BY SlotStep
<1> QED
  BY <1>1, AnswerInvariant, PTL DEF Spec, CommandKept
-----------------------------------------------------------------------------
(* A CHECK CONDITION keeps its explanation.  The only step that takes one  *)
(* away is the REQUESTSENSE of a console that has no other answer coming.  *)
LEMMA CheckStep ==
  ASSUME AnswerInv, AnswerInv', CheckConditionExplained, [Next]_vars
  PROVE  CheckConditionExplained'
<1>1. ASSUME UNCHANGED <<STATUS, DBO, sense, out>>,
             SP' = "STAT" => SP = "STAT", STAT_PEND' => STAT_PEND
      PROVE  CheckConditionExplained'
  BY <1>1 DEF CheckConditionExplained
<1>2. CASE Console
  <2>1. UNCHANGED <<STATUS, DBO, sense, out>>
    BY <1>2 DEF Console, IssueCommand, SelectAndCommand, TakeStatus, StatusTaken,
                TakeData, DataTaken, GiveParameters, ParametersGiven, HoldReset,
                AssertReset, EndReset, ReleaseReset, driveVars
  <2>2. SP' # "STAT" \/ SP' = SP
    BY <1>2, SettleTypes, Zenon
       DEF Console, IssueCommand, SelectAndCommand, TakeStatus, StatusTaken,
           TakeData, DataTaken, GiveParameters, ParametersGiven, HoldReset,
           AssertReset, EndReset, ReleaseReset
  <2>3. STAT_PEND' => STAT_PEND
    BY <1>2 DEF Console, IssueCommand, SelectAndCommand, TakeStatus, StatusTaken,
                TakeData, DataTaken, GiveParameters, ParametersGiven, HoldReset,
                AssertReset, EndReset, ReleaseReset
  <2> QED
    BY <1>1, <2>1, <2>2, <2>3
<1>3. CASE Target
  <2>1. /\ STAT_PEND /\ ~STAT_PEND' /\ DBO' = STATUS
        /\ UNCHANGED <<STATUS, out, sense>>
    BY <1>3 DEF Target, StatusPhase, driveVars
  <2> QED
    BY <2>1 DEF CheckConditionExplained
<1>4. CASE UNCHANGED vars
  BY <1>1, <1>4 DEF vars, driveVars, targetVars
<1>5. CASE PortWrite
  <2>1. /\ TypeOK /\ out # <<>> /\ out' = Tail(out) /\ sense' = sense
        /\ rst => ~STAT_PEND /\ SP = "FREE"
    BY <1>5 DEF PortWrite, AnswerInv, ResetAtRest
  <2>2. \A i \in DOMAIN out' : i + 1 \in DOMAIN out /\ out'[i] = out[i + 1]
    BY <2>1, QueueTail
  <2>3. CASE UNCHANGED <<STATUS, DBO, SP, STAT_PEND>>
    BY <2>1, <2>2, <2>3 DEF CheckConditionExplained
  <2>4. CASE Head(out).kind = "status" /\ ~rst /\ AcceptStatus(Head(out).n)
    <3>1. /\ STATUS' = Head(out).n /\ DBO' = DBO /\ SP' = SP
      BY <2>4 DEF AcceptStatus, Arrive, Settle
    <3>2. 1 \in DOMAIN out /\ out[1] = Head(out)
      BY <2>1, QueueTail
    <3> QED
      BY <2>1, <2>2, <2>4, <3>1, <3>2 DEF CheckConditionExplained
  <2>5. CASE ~rst /\ AcceptData(Head(out))
    <3>1. UNCHANGED <<STATUS, DBO, STAT_PEND>> /\ (SP' = "STAT" => SP = "STAT")
      BY <2>5 DEF AcceptData, Arrive, Settle
    <3> QED
      BY <2>1, <2>2, <3>1 DEF CheckConditionExplained
  <2>6. CASE rst /\ Head(out).kind = "status" /\ AcceptStatus(Head(out).n)
    <3>1. UNCHANGED <<DBO, SP, STAT_PEND>>
      BY <2>6 DEF AcceptStatus
    <3> QED
      BY <2>1, <2>2, <2>6, <3>1 DEF CheckConditionExplained
  <2>7. CASE AcceptDataRequest
    <3>1. STATUS' = 0 /\ DBO' = DBO /\ (SP' = "STAT" => SP = "STAT")
      BY <2>7 DEF AcceptDataRequest, Arrive, Settle
    <3> QED
      BY <2>1, <2>2, <3>1 DEF CheckConditionExplained, CHECK
  <2> QED
    BY <1>5, <2>3, <2>4, <2>5, <2>6, <2>7 DEF PortWrite, targetVars, AcceptData
<1>6. CASE Firmware /\ ~PortWrite
  <2>1. out = <<>> /\ UNCHANGED <<STATUS, DBO, SP, STAT_PEND, targetVars, consoleVars>>
    BY <1>6 DEF Firmware, PollReset, NoReset, Remount, PollTimer, TimerRunning,
                TimerExpired, Update, UpdateLatency, UpdateReadEnd, UpdateReadWait,
                UpdateReadSector, UpdateAudioDelay, UpdatePlay, UpdateNothing,
                AtUpdate, NoMessage, TakeMessage, targetVars
  <2>2. CASE \E result \in LoadResults : Remount(result)
    <3>1. /\ sense' = sense
          /\ \A i \in DOMAIN out' : out'[i].kind = "mount"
      BY <2>2 DEF Remount, NotifyMount, Write
    <3> QED
      BY <2>1, <3>1 DEF CheckConditionExplained
  <2>3. CASE NoReset \/ PollTimer \/ Update \/ NoMessage \/ TakeMessage
    <3>1. /\ \/ out' \in Seq(GoodItem)
             \/ out' = SendStatus(CHECK) /\ sense' # "none"
          /\ sense' = "none" =>
               \/ sense = "none"
               \/ TakeMessage /\ slot.kind = "command"
      BY <2>3, PollWrites DEF AnswerInv
    <3>2. CASE sense' # "none"
      BY <3>2 DEF CheckConditionExplained
    <3>3. CASE out' \in Seq(GoodItem)
      <4>1. \A i \in DOMAIN out' : out'[i] \in GoodItem
        BY <3>3
      <4>2. \A i \in DOMAIN out' : ~(out'[i].kind = "status" /\ out'[i].n = CHECK)
        BY <4>1 DEF GoodItem
      <4>3. CASE sense = "none"
        BY <2>1, <4>2, <4>3 DEF CheckConditionExplained
      <4>4. CASE TakeMessage /\ slot.kind = "command"
        <5>1. ~rst /\ MailOwes = 1
          BY <2>1, <4>4, Taken
        <5>2. ~(SP = "STAT" \/ STAT_PEND)
          BY <5>1, OwedByTarget DEF AnswerInv
        <5> QED
          BY <2>1, <4>2, <5>2 DEF CheckConditionExplained
      <4>5. CASE sense # "none" /\ sense' # "none"
        BY <4>5 DEF CheckConditionExplained
      <4> QED
        BY <3>1, <4>3, <4>4, <4>5
    <3> QED
      BY <3>1, <3>2, <3>3
  <2> QED
    BY <1>6, <2>2, <2>3, Zenon DEF Firmware, PollReset
<1> QED
  BY <1>2, <1>3, <1>4, <1>5, <1>6 DEF Next

(* Whatever else the console asks for, plays or resets, the sense data     *)
(* that CommandError set (cue.cpp) outlast the CHECK CONDITION they        *)
(* explain, from the port queue to the status byte on the bus.             *)
THEOREM CheckIsExplained ==
  ASSUME Orderly
  PROVE  Spec => []CheckConditionExplained
<1>1. Init => CheckConditionExplained
  <2>1. Init => SP = "FREE" /\ STAT_PEND = FALSE /\ out = <<>>
    BY DEF Init, TargetInit, DriveInit
  <2>2. DOMAIN <<>> = {}
    OBVIOUS
  <2> QED
    BY <2>1, <2>2 DEF CheckConditionExplained
<1>2. AnswerInv /\ AnswerInv' /\ CheckConditionExplained /\ [Next]_vars
        => CheckConditionExplained'
  BY CheckStep
<1> QED
  BY <1>1, <1>2, AnswerInvariant, PTL DEF Spec
-----------------------------------------------------------------------------
(***************************************************************************)
(* The answer comes, and all the data before it.  First what the invariant *)
(* so far says of the places in which an answer can be.                    *)
(***************************************************************************)
LEMMA Exclusive ==
  ASSUME AnswerInv, ~rst
  PROVE  /\ Unread("command") =>
              ~Unread("dataout") /\ ~DrivePending /\ ~AnswerUnderway
         /\ Unread("dataout") => ~DrivePending /\ ~AnswerUnderway
         /\ DrivePending => ~AnswerUnderway
         /\ state = "READ" => ~has_status /\ ~data_req
         /\ InQueue => ~STAT_PEND /\ ~DOUT_PEND /\ SP \notin {"STAT", "DATAOUT"}
         /\ asked = NoCommand => /\ ~Unread("command") /\ ~Unread("dataout")
                                 /\ ~DrivePending /\ ~AnswerUnderway
         /\ \A i \in DOMAIN out : IsPiece(out[i]) => DrivePending \/ InQueue
<1>1. /\ MailOwes + DriveOwes + One(InQueue) + TargetOwes <= 1
      /\ asked = NoCommand => /\ MailOwes = 0 /\ DriveOwes = 0
                              /\ One(InQueue) = 0 /\ TargetOwes = 0
  BY OwedOnce DEF AnswerInv
<1>2. /\ MailOwes \in Nat /\ DriveOwes \in Nat /\ TargetOwes \in Nat
      /\ One(InQueue) \in Nat
  BY MailOwesNothing, DriveOwesNothing, TargetOwesNothing
<1>3. /\ MailOwes # 0 => DriveOwes = 0 /\ One(InQueue) = 0 /\ TargetOwes = 0
      /\ DriveOwes # 0 => MailOwes = 0 /\ One(InQueue) = 0 /\ TargetOwes = 0
      /\ One(InQueue) # 0 => MailOwes = 0 /\ DriveOwes = 0 /\ TargetOwes = 0
      /\ MailOwes <= 1 /\ DriveOwes <= 1
  <2>1. \A m, d, q, t \in Nat : m + d + q + t <= 1 =>
          /\ m # 0 => d = 0 /\ q = 0 /\ t = 0
          /\ d # 0 => m = 0 /\ q = 0 /\ t = 0
          /\ q # 0 => m = 0 /\ d = 0 /\ t = 0
          /\ m <= 1 /\ d <= 1
    OBVIOUS
  <2> QED
    BY <1>1, <1>2, <2>1, Zenon
<1>4. /\ MailOwes # 0 <=> Unread("command") \/ Unread("dataout")
      /\ DriveOwes # 0 <=> DrivePending
      /\ One(InQueue) + TargetOwes # 0 <=> AnswerUnderway
      /\ One(InQueue) # 0 <=> InQueue
  BY MailOwesNothing, DriveOwesNothing, TargetOwesNothing
<1>5. AnswerUnderway => One(InQueue) # 0 \/ TargetOwes # 0
  BY <1>2, <1>4
<1>6. Unread("command") => ~Unread("dataout")
  BY <1>3 DEF MailOwes, One
<1>7. state = "READ" => ~has_status /\ ~data_req
  BY <1>3 DEF DriveOwes, One
<1>8. TargetOwes = 0 => ~STAT_PEND /\ ~DOUT_PEND /\ SP \notin {"STAT", "DATAOUT"}
  BY DEF TargetOwes, One
<1>9. \A i \in DOMAIN out : IsPiece(out[i]) => DrivePending \/ InQueue
  BY DEF AnswerInv, PieceBeforeAnswer, DrivePending, InQueue
<1> QED
  BY <1>1, <1>3, <1>4, <1>5, <1>6, <1>7, <1>8, <1>9

(* A drive that reads awaits no parameters, nor does one that has a        *)
(* command before it.                                                      *)
LEMMA NoneAwaited ==
  ASSUME AnswerInv, ~rst, Unread("command") \/ state = "READ"
  PROVE  ~AwaitsParameters
<1>1. ~Unread("dataout") /\ ~AnswerUnderway /\ ~data_req
  BY Exclusive DEF DrivePending
<1> QED
  BY <1>1 DEF AwaitsParameters, AnswerUnderway, InQueue, IsAnswer
-----------------------------------------------------------------------------
(* The data of a command.                                                  *)
LEMMA LenIs ==
  ASSUME NEW S, NEW s \in Seq(S), NEW n \in Nat, DOMAIN s = 1..n
  PROVE  Len(s) = n
<1>1. Len(s) \in Nat /\ 1..Len(s) = 1..n
  BY LenProperties
<1>2. \A a, b \in Nat : 1..a = 1..b => a = b
  OBVIOUS
<1> QED
  BY <1>1, <1>2, Zenon

LEMMA AskedType ==
  ASSUME TypeOK
  PROVE  /\ asked.n \in Nat /\ asked.arg \in Nat
         /\ asked.op = "READ6" => asked.arg > 0
<1>1. asked \in Commands \/ asked = NoCommand
  BY DEF TypeOK
<1>2. \A c \in Commands : c \in Command /\ (c.op = "READ6" => c.arg > 0)
  BY SystemAssumption
<1> QED
  BY <1>1, <1>2 DEF Command, NoCommand

LEMMA ReadDataOf ==
  ASSUME NEW c, c.op = "READ6", c.n \in Nat, c.arg \in Nat
  PROVE  /\ DataOf(c) \in Seq(Item)
         /\ Len(DataOf(c)) = c.arg * Chunks
         /\ \A k \in 0..c.arg-1 : \A i \in 1..Chunks :
              /\ k * Chunks + i \in 1..c.arg * Chunks
              /\ DataOf(c)[k * Chunks + i] = [kind |-> "data", n |-> c.n + k]
<1> DEFINE N == c.arg * Chunks
           e(i) == [kind |-> "data", n |-> c.n + (i - 1) \div Chunks]
<1>1. N \in Nat
  OBVIOUS
<1>2. \A i \in 1..N : (i - 1) \div Chunks \in Nat
  OBVIOUS
<1>3. \A i \in 1..N : e(i) \in Item
  BY <1>2, ItemTypes DEF DataKinds
<1>4. DataOf(c) = [i \in 1..N |-> e(i)]
  BY DEF DataOf
<1> HIDE DEF e
<1>5. DataOf(c) \in Seq(Item) /\ DOMAIN DataOf(c) = 1..N
  <2>1. [i \in 1..N |-> e(i)] \in [1..N -> Item]
    BY <1>3
  <2> QED
    BY <1>1, <1>4, <2>1
<1>6. Len(DataOf(c)) = N
  BY <1>1, <1>5, LenIs
<1>7. ASSUME NEW k \in 0..c.arg-1, NEW i \in 1..Chunks
      PROVE  /\ k * Chunks + i \in 1..N
             /\ DataOf(c)[k * Chunks + i] = [kind |-> "data", n |-> c.n + k]
  <2>1. k * Chunks + i \in 1..N
    <3>1. k \in Nat /\ k + 1 <= c.arg /\ k * Chunks \in Nat
      OBVIOUS
    <3>2. (k + 1) * Chunks <= c.arg * Chunks /\ (k + 1) * Chunks = k * Chunks + Chunks
      BY <3>1
    <3> QED
      BY <1>1, <3>1, <3>2
  <2>2. (k * Chunks + i - 1) \div Chunks = k
    <3>1. \A C \in Nat \ {0}, q \in Nat : \A j \in 0..C-1 : (q * C + j) \div C = q
      OBVIOUS
    <3>2. i - 1 \in 0..Chunks-1 /\ k \in Nat
      OBVIOUS
    <3>3. (k * Chunks + (i - 1)) \div Chunks = k
      BY <3>1, <3>2
    <3>4. k * Chunks + (i - 1) = k * Chunks + i - 1
      BY <2>1
    <3> QED
      BY <3>3, <3>4
  <2>3. DataOf(c)[k * Chunks + i] = e(k * Chunks + i)
    BY <1>4, <2>1
  <2>4. e(k * Chunks + i) = [kind |-> "data", n |-> c.n + k]
    BY <2>2 DEF e
  <2> QED
    BY <2>1, <2>3, <2>4
<1> QED
  BY <1>5, <1>6, <1>7

LEMMA DataOfType ==
  ASSUME TypeOK
  PROVE  DataOf(asked) \in Seq(Item) /\ Len(DataOf(asked)) \in Nat
<1>1. DataOf(asked) \in Seq(Item)
  <2>1. CASE asked.op = "READ6"
    BY <2>1, AskedType, ReadDataOf
  <2>2. CASE asked.op # "READ6"
    BY <2>2, SendDataTypes, WriteTypes DEF DataOf
  <2> QED
    BY <2>1, <2>2
<1> QED
  BY <1>1, LenProperties

LEMMA SentType ==
  ASSUME TypeOK
  PROVE  Sent \in Int /\ Len(got) \in Nat /\ Len(FIFO) \in Nat /\ Len(out) \in Nat
<1>1. lba \in Int /\ asked.n \in Int
  <2>1. lba \in Nat /\ asked.n \in Nat
    BY AskedType, DriveTypeParts DEF TypeOK, NumberTypes
  <2> QED
    BY <2>1
<1>2. got \in Seq(Item) /\ FIFO \in Seq(Item) /\ out \in Seq(Item)
  BY DEF TypeOK, TargetTypeOK, DriveTypeOK
<1>3. (lba - asked.n) * Chunks \in Int
  BY <1>1
<1>4. Sent \in Int
  BY <1>3, DataOfType DEF Sent
<1> QED
  BY <1>2, <1>4, LenProperties
-----------------------------------------------------------------------------
(* The parts of the invariant that come on top.  A step of the thread      *)
(* disturbs neither the slot nor the FIFO.                                 *)
LEMMA ReadableKept ==
  ASSUME UNCHANGED media
  PROVE  \A l : Readable(l)' <=> Readable(l)
  BY DEF Readable, KindOf, GetTrackByLBA, EndOf, EndKnown

LEMMA MeantKept ==
  ASSUME CommandMeant,
         ~rst' => /\ ~rst /\ UNCHANGED <<media, slot, asked>>
                  /\ Unread("command")' => Unread("command")
  PROVE  CommandMeant'
<1> SUFFICES ASSUME ~rst', Unread("command")'
             PROVE  slot'.cmd = asked' /\ Sensible(asked)'
  BY DEF CommandMeant
<1>1. slot.cmd = asked /\ Sensible(asked) /\ UNCHANGED <<media, slot, asked>>
  BY DEF CommandMeant
<1>2. Sensible(asked)'
  BY <1>1, ReadableKept DEF Sensible
<1> QED
  BY <1>1, <1>2

LEMMA ReadKept ==
  ASSUME ReadGoesOn,
         ~rst' /\ state' = "READ" =>
           ~rst /\ state = "READ" /\ UNCHANGED <<media, asked, lba, cnt>>
  PROVE  ReadGoesOn'
  BY ReadableKept DEF ReadGoesOn

LEMMA ThreadKeeps ==
  ASSUME SoundInv, ThreadStep, ~rst => UNCHANGED media
  PROVE  CommandMeant' /\ FifoIsRead'
<1>1. /\ UNCHANGED <<rst, slot, asked, SP, FIFO>>
      /\ Unread("command")' => Unread("command")
  BY ThreadStepUnread DEF ThreadStep, targetVars, consoleVars
<1>2. CommandMeant'
  BY <1>1, MeantKept DEF SoundInv
<1> QED
  BY <1>1, <1>2 DEF SoundInv, FifoIsRead

LEMMA ThreadParameters ==
  ASSUME SoundInv, ThreadStep,
         ~rst /\ AwaitsParameters' => AwaitsParameters /\ NoPieces'
  PROVE  ParametersAlone'
  BY DEF SoundInv, ParametersAlone, NoPieces, IsPiece, ThreadStep, targetVars

(* What the drive owed, or was to be told, it now owes or has written.     *)
LEMMA ThreadComes ==
  ASSUME SoundInv, ThreadStep,
         ~rst /\ (Unread("command") \/ Unread("dataout") \/ DrivePending) =>
           Unread("command")' \/ Unread("dataout")' \/ DrivePending' \/ InQueue'
  PROVE  AnswerComes'
<1>1. /\ UNCHANGED <<rst, asked, STAT_PEND, DOUT_PEND, SP>> /\ ~InQueue
  BY EmptyQueue DEF ThreadStep, targetVars, consoleVars
<1> QED
  BY <1>1 DEF SoundInv, AnswerComes, AnswerUnderway

LEMMA ThreadData ==
  ASSUME SoundInv, ThreadStep,
         ~rst /\ asked # NoCommand =>
           /\ send_data' = send_data
           /\ \E k \in Nat :
                /\ Sent' = Sent + k /\ Sent' <= Len(DataOf(asked)) /\ k <= Len(out')
                /\ \A i \in DOMAIN out' : IsPiece(out'[i]) <=> i <= k
                /\ \A i \in 1..k : out'[i] = DataOf(asked)[Sent + i]
  PROVE  DataInOrder'
<1>1. UNCHANGED <<rst, asked, got, FIFO>> /\ out = <<>>
  BY DEF ThreadStep, targetVars, consoleVars
<1> SUFFICES ASSUME ~rst, asked # NoCommand
             PROVE  /\ Sent' <= Len(DataOf(asked))' /\ Queued' \in 0..Len(out')
                    /\ \A i \in DOMAIN out' : IsPiece(out'[i]) <=> i <= Queued'
                    /\ \A i \in 1..Len(got)' : got'[i] = DataOf(asked)'[i]
                    /\ \A i \in 1..Len(FIFO)' :
                         FIFO'[i] = DataOf(asked)'[Len(got)' + i]
                    /\ \A i \in 1..Queued' :
                         out'[i] = DataOf(asked)'[Len(got)' + Len(FIFO)' + i]
  BY <1>1 DEF DataInOrder, IsPiece
<1>2. PICK k \in Nat :
        /\ Sent' = Sent + k /\ Sent' <= Len(DataOf(asked)) /\ k <= Len(out')
        /\ \A i \in DOMAIN out' : IsPiece(out'[i]) <=> i <= k
        /\ \A i \in 1..k : out'[i] = DataOf(asked)[Sent + i]
  OBVIOUS
<1>3. DataOf(asked)' = DataOf(asked)
  BY <1>1 DEF DataOf, SendData
<1>4. Sent \in Int /\ Len(got) \in Nat /\ Len(FIFO) \in Nat
  BY SentType DEF SoundInv, AnswerInv
<1>5. Sent = Len(got) + Len(FIFO)
  <2>1. Queued \in 0..0
    BY <1>1 DEF SoundInv, DataInOrder
  <2>2. \A a \in Int, b, c \in Nat : a - b - c \in 0..0 => a = b + c
    OBVIOUS
  <2> QED
    BY <1>4, <2>1, <2>2, Zenon DEF Queued
<1>6. Queued' = k
  BY <1>1, <1>2, <1>4, <1>5 DEF Queued
<1>7. /\ \A i \in 1..Len(got) : got[i] = DataOf(asked)[i]
      /\ \A i \in 1..Len(FIFO) : FIFO[i] = DataOf(asked)[Len(got) + i]
  BY DEF SoundInv, DataInOrder
<1>8. k \in 0..Len(out')
  BY <1>2, SentType
<1> QED
  BY <1>1, <1>2, <1>3, <1>5, <1>6, <1>7, <1>8

LEMMA QuietData ==
  ASSUME SoundInv, ThreadStep, NoPieces', out' \in Seq(Item),
         ~rst => /\ send_data' = send_data
                 /\ Unread("command")' <=> Unread("command")
                 /\ state' = "READ" <=> state = "READ"
                 /\ state = "READ" => lba' = lba
  PROVE  DataInOrder'
<1> SUFFICES ASSUME ~rst, asked # NoCommand
             PROVE  /\ Sent' = Sent + 0 /\ Sent' <= Len(DataOf(asked))
                    /\ 0 <= Len(out')
                    /\ \A i \in DOMAIN out' : IsPiece(out'[i]) <=> i <= 0
                    /\ \A i \in 1..0 : out'[i] = DataOf(asked)[Sent + i]
  <2>1. 0 \in Nat
    OBVIOUS
  <2> QED
    BY <2>1, ThreadData, Zenon
<1>1. asked' = asked
  BY DEF ThreadStep, consoleVars
<1>2. Sent' = Sent /\ Sent \in Int /\ Sent <= Len(DataOf(asked))
  <2>1. Sent' = Sent
    <3>1. DataOf(asked)' = DataOf(asked)
      BY <1>1 DEF DataOf, SendData
    <3>2. CASE Unread("command")
      BY <3>2 DEF Sent
    <3>3. CASE ~Unread("command") /\ state = "READ"
      <4>1. lba' = lba /\ asked' = asked /\ state' = "READ" /\ ~Unread("command")'
        BY <1>1, <3>3
      <4> QED
        BY <3>3, <4>1, Zenon DEF Sent
    <3>4. CASE ~Unread("command") /\ state # "READ"
      BY <3>1, <3>4 DEF Sent
    <3> QED
      BY <3>2, <3>3, <3>4
  <2> QED
    BY <2>1, SentType DEF SoundInv, AnswerInv, DataInOrder
<1>3. Len(out') \in Nat /\ DOMAIN out' = 1..Len(out')
  BY LenProperties
<1> QED
  BY <1>2, <1>3 DEF NoPieces

(* A step of the thread that neither reads, nor starts or ends a read.     *)
LEMMA QuietSound ==
  ASSUME SoundInv, AnswerInv', IndexTracksLba', ThreadStep, NoPieces',
         ~rst =>
           /\ UNCHANGED media
           /\ Unread("command")' <=> Unread("command")
           /\ state' = "READ" <=> state = "READ"
           /\ state = "READ" => UNCHANGED <<lba, cnt>>
           /\ Unread("command") \/ Unread("dataout") \/ DrivePending =>
                Unread("command")' \/ Unread("dataout")' \/ DrivePending' \/ InQueue'
           /\ AwaitsParameters' => AwaitsParameters
  PROVE  SoundInv'
<1>1. CommandMeant' /\ FifoIsRead'
  BY ThreadKeeps
<1>2. ReadGoesOn'
  <2>1. rst' = rst /\ asked' = asked
    BY DEF ThreadStep, targetVars, consoleVars
  <2> QED
    BY <2>1, ReadKept DEF SoundInv
<1>3. ParametersAlone'
  BY ThreadParameters
<1>4. AnswerComes'
  BY ThreadComes
<1>5. DataInOrder'
  <2>1. out' \in Seq(Item)
    BY DEF AnswerInv, TypeOK, DriveTypeOK
  <2> QED
    BY <2>1, QuietData
<1> QED
  BY <1>1, <1>2, <1>3, <1>4, <1>5 DEF SoundInv
-----------------------------------------------------------------------------
(* The steps of the thread outside the mailbox.                            *)
LEMMA IdleSound ==
  ASSUME SoundInv, AnswerInv', IndexTracksLba', ThreadStep,
         last_req' = last_req \/ slot.kind \in {"none", "dataend"},
         out' = out, UNCHANGED <<media, state, lba, cnt, CDDAMode, has_status, data_req>>
  PROVE  SoundInv'
<1>1. NoPieces'
  BY EmptyQueue DEF ThreadStep
<1>2. \A k \in {"command", "dataout"} : Unread(k)' <=> Unread(k)
  BY DEF ThreadStep, Unread
<1>3. DrivePending' <=> DrivePending
  BY DEF DrivePending
<1>4. AwaitsParameters' => AwaitsParameters
  BY <1>2 DEF AwaitsParameters, ThreadStep, targetVars
<1> QED
  BY <1>1, <1>2, <1>3, <1>4, QuietSound

LEMMA ResetPartSound ==
  ASSUME SoundInv, AnswerInv', IndexTracksLba', PollReset,
         UNCHANGED <<targetVars, mailVars, consoleVars>>
  PROVE  SoundInv'
<1>1. CASE NoReset
  <2>1. /\ ThreadStep /\ last_req' = last_req /\ out' = out
        /\ UNCHANGED <<media, state, lba, cnt, CDDAMode, has_status, data_req>>
    BY <1>1 DEF NoReset, ThreadStep, mailVars
  <2> QED
    BY <2>1, IdleSound
<1>2. ASSUME NEW result \in LoadResults, Remount(result) PROVE SoundInv'
  <2>1. /\ ThreadStep /\ need_reset
        /\ out' = NotifyMount(IF result = "failed" THEN 0 ELSE 1)
    BY <1>2 DEF Remount, ThreadStep, mailVars
  <2>2. rst
    BY <2>1 DEF SoundInv, AnswerInv, ResetOver, ResetSettled
  <2>3. NoPieces'
    BY <2>1 DEF NotifyMount, Write, NoPieces, IsPiece
  <2> QED
    BY <2>1, <2>2, <2>3, QuietSound
<1> QED
  BY <1>1, <1>2 DEF PollReset

LEMMA TimerPartSound ==
  ASSUME SoundInv, AnswerInv', IndexTracksLba', PollTimer,
         UNCHANGED <<targetVars, mailVars, consoleVars>>
  PROVE  SoundInv'
<1>1. CASE TimerRunning
  <2>1. /\ ThreadStep /\ last_req' = last_req /\ out' = out
        /\ UNCHANGED <<media, state, lba, cnt, CDDAMode, has_status, data_req>>
    BY <1>1 DEF TimerRunning, ThreadStep, mailVars
  <2> QED
    BY <2>1, IdleSound
<1>2. CASE TimerExpired
  <2>1. /\ ThreadStep /\ UNCHANGED <<media, state, lba, cnt, CDDAMode, mailVars>>
    BY <1>2 DEF TimerExpired, ThreadStep, mailVars
  <2>2. CASE UNCHANGED <<out, has_status, data_req>>
    BY <2>1, <2>2, IdleSound DEF mailVars
  <2>3. CASE /\ has_status /\ has_status' = FALSE /\ data_req' = data_req
             /\ out' = SendStatus(GOOD)
    <3>1. NoPieces' /\ InQueue' /\ \A i \in DOMAIN out' : out'[i].kind = "status"
      BY <2>3 DEF SendStatus, Write, NoPieces, IsPiece, InQueue, IsAnswer
    <3>2. \A k : Unread(k)' <=> Unread(k)
      BY <2>1 DEF mailVars, Unread
    <3>3. AwaitsParameters' => AwaitsParameters
      BY <2>1, <2>3, <3>1, <3>2 DEF AwaitsParameters, ThreadStep, targetVars
    <3> QED
      BY <2>1, <3>1, <3>2, <3>3, QuietSound
  <2>4. CASE /\ data_req /\ data_req' = FALSE /\ has_status' = has_status
             /\ out' = SendDataRequest
    <3>1. NoPieces' /\ InQueue'
      BY <2>4 DEF SendDataRequest, Write, NoPieces, IsPiece, InQueue, IsAnswer
    <3>2. \A k : Unread(k)' <=> Unread(k)
      BY <2>1 DEF mailVars, Unread
    <3>3. AwaitsParameters
      BY <2>4 DEF AwaitsParameters
    <3> QED
      BY <2>1, <3>1, <3>2, <3>3, QuietSound
  <2> QED
    BY <1>2, <2>2, <2>3, <2>4, Zenon DEF TimerExpired
<1> QED
  BY <1>1, <1>2 DEF PollTimer

(* A read with all its sectors before it does not run off the disc.        *)
LEMMA ReadOnDisc ==
  ASSUME SoundInv, ~rst, state = "READ"
  PROVE  /\ asked.op = "READ6" /\ cnt \in Nat \ {0} /\ lba \in Nat
         /\ index = GetTrackByLBA(lba) /\ Readable(lba) /\ index < last
<1>1. lba \in Nat /\ cnt \in Int
  BY DriveTypeParts DEF SoundInv, AnswerInv, TypeOK, NumberTypes
<1>2. /\ asked.op = "READ6" /\ cnt > 0 /\ \A l \in lba..lba+cnt-1 : Readable(l)
  BY DEF SoundInv, ReadGoesOn
<1>3. Readable(lba)
  BY <1>1, <1>2
<1>4. index = GetTrackByLBA(lba)
  BY DEF SoundInv, IndexTracksLba
<1> QED
  BY <1>1, <1>2, <1>3, <1>4 DEF Readable

LEMMA UpdatePlaySound ==
  ASSUME SoundInv, AnswerInv', IndexTracksLba', UpdatePlay,
         UNCHANGED <<targetVars, mailVars, consoleVars>>
  PROVE  SoundInv'
<1> DEFINE played == 1 + CDDAFirst
           track  == GetTrackByLBA(lba)
           atEnd  == lba + played > CDDAEnd \/ KindOf(track) # "audio" \/ track > last
           audio  == IF KindOf(track) = "data" THEN <<>> ELSE ReadCDDA(lba, played)
           tail   == IF atEnd /\ CDDAMode = INTERRUPT THEN SendStatus(GOOD) ELSE <<>>
<1>1. /\ ThreadStep /\ state = "PLAY"
      /\ UNCHANGED <<media, has_status, data_req, CDDAMode, mailVars, targetVars>>
      /\ out' = audio \o tail
      /\ state' = IF atEnd /\ CDDAMode # LOOP THEN "IDLE" ELSE "PLAY"
  BY DEF UpdatePlay, AtUpdate, ThreadStep, mailVars
<1>2. lba \in Nat /\ played \in Nat
  BY DriveTypeParts DEF SoundInv, AnswerInv, TypeOK, NumberTypes
<1>3. /\ audio = <<>> \/ audio = ReadCDDA(lba, played)
      /\ tail = <<>> \/ tail = SendStatus(GOOD)
  OBVIOUS
<1> HIDE DEF audio, played
<1>4. /\ NoPieces' /\ (tail # <<>> => InQueue')
      /\ \A i \in DOMAIN out' : out'[i].kind # "datareq"
  <2> HIDE DEF tail, track, atEnd
  <2>1. out' = audio \o tail
    BY <1>1
  <2> QED
    BY <1>2, <1>3, <2>1, PlayWrites, Zenon
<1>5. \A k : Unread(k)' <=> Unread(k)
  BY <1>1 DEF mailVars, Unread
<1>6. AwaitsParameters' => AwaitsParameters
  BY <1>1, <1>4, <1>5 DEF AwaitsParameters, targetVars
<1>7. DrivePending => DrivePending' \/ InQueue'
  <2>1. tail # <<>> => InQueue'
    BY <1>4
  <2>2. SendStatus(GOOD) # <<>>
    BY DEF SendStatus, Write
  <2> QED
    BY <1>1, <2>1, <2>2 DEF DrivePending, INTERRUPT, LOOP
<1>8. state' # "READ"
  BY <1>1
<1> QED
  BY <1>1, <1>4, <1>5, <1>6, <1>7, <1>8, QuietSound

LEMMA UpdateQuietSound ==
  ASSUME SoundInv, AnswerInv', IndexTracksLba',
         \/ UpdateLatency \/ UpdateAudioDelay \/ UpdateReadWait
         \/ UpdateNothing \/ UpdateReadEnd,
         UNCHANGED <<targetVars, mailVars, consoleVars>>
  PROVE  SoundInv'
<1>1. /\ ThreadStep /\ last_req' = last_req /\ out' = out
      /\ UNCHANGED <<media, lba, cnt, CDDAMode, has_status, data_req>>
      /\ state' = state \/ UpdateReadEnd
  BY DEF UpdateLatency, UpdateAudioDelay, UpdateReadWait, UpdateNothing,
         UpdateReadEnd, AtUpdate, ThreadStep, mailVars
<1>2. CASE state' = state
  BY <1>1, <1>2, IdleSound
<1>3. CASE UpdateReadEnd
  <2>1. rst
    <3>1. state = "READ" /\ index >= last
      BY <1>3 DEF UpdateReadEnd
    <3>2. index \in Nat /\ last \in Nat
      BY DriveTypeParts DEF SoundInv, AnswerInv, TypeOK, NumberTypes
    <3> QED
      BY <3>1, <3>2, ReadOnDisc
  <2>2. NoPieces'
    BY <1>1, EmptyQueue DEF ThreadStep
  <2> QED
    BY <1>1, <2>1, <2>2, QuietSound
<1> QED
  BY <1>1, <1>2, <1>3

LEMMA UpdateReadSectorSound ==
  ASSUME SoundInv, AnswerInv', IndexTracksLba', UpdateReadSector,
         UNCHANGED <<targetVars, mailVars, consoleVars>>
  PROVE  SoundInv'
<1>1. /\ ThreadStep /\ state = "READ" /\ DrivePending
      /\ UNCHANGED <<media, mailVars, targetVars, consoleVars, data_req, CDDAMode>>
      /\ cnt' = cnt - 1 /\ lba' = lba + 1
      /\ has_status' = (has_status \/ cnt = 1)
      /\ state' = IF cnt = 1 THEN "IDLE" ELSE "READ"
      /\ out' = IF KindOf(index) = "data" THEN ReadData(lba) ELSE <<>>
  BY DEF UpdateReadSector, AtUpdate, ThreadStep, mailVars, DrivePending
<1>2. /\ UNCHANGED <<rst, asked, slot, req, last_req>>
      /\ \A k : Unread(k)' <=> Unread(k)
  BY <1>1 DEF targetVars, consoleVars, mailVars, Unread
<1>3. TypeOK /\ TypeOK'
  BY DEF SoundInv, AnswerInv
<1>4. DrivePending'
  BY <1>1 DEF DrivePending
<1>5. CommandMeant' /\ FifoIsRead'
  BY <1>1, ThreadKeeps
<1>6. AnswerComes'
  BY <1>1, <1>4, ThreadComes
<1>7. ParametersAlone'
  <2>1. ~rst => ~AwaitsParameters
    BY <1>1, NoneAwaited DEF SoundInv
  <2>2. \A i \in DOMAIN out' : out'[i].kind # "datareq"
    BY <1>1 DEF ReadData, SendPieces
  <2>3. AwaitsParameters' => AwaitsParameters
    BY <1>1, <1>2, <2>2 DEF AwaitsParameters, targetVars
  <2> QED
    BY <1>1, <2>1, <2>3, ThreadParameters
<1>8. ReadGoesOn'
  <2> SUFFICES ASSUME ~rst, state' = "READ"
               PROVE  /\ asked'.op = "READ6" /\ cnt' > 0 /\ asked'.n <= lba'
                      /\ lba' + cnt' = asked'.n + asked'.arg
                      /\ \A l \in lba'..lba'+cnt'-1 : Readable(l)'
    BY <1>2 DEF ReadGoesOn
  <2>1. /\ asked.op = "READ6" /\ cnt > 0 /\ asked.n <= lba
        /\ lba + cnt = asked.n + asked.arg
        /\ \A l \in lba..lba+cnt-1 : Readable(l)
    BY <1>1 DEF SoundInv, ReadGoesOn
  <2>2. cnt \in Nat \ {0, 1} /\ lba \in Nat /\ asked.n \in Nat /\ asked.arg \in Nat
    BY <1>1, <1>3, <2>1, AskedType, ReadOnDisc
  <2>3. lba'..lba'+cnt'-1 \subseteq lba..lba+cnt-1
    BY <1>1, <2>2
  <2>4. \A l : Readable(l)' <=> Readable(l)
    BY <1>1, ReadableKept
  <2> QED
    BY <1>1, <1>2, <2>1, <2>2, <2>3, <2>4
<1>9. DataInOrder'
  <2> SUFFICES ASSUME ~rst, asked # NoCommand
               PROVE  /\ send_data' = send_data
                      /\ Sent' = Sent + Chunks /\ Sent' <= Len(DataOf(asked))
                      /\ Chunks <= Len(out')
                      /\ \A i \in DOMAIN out' : IsPiece(out'[i]) <=> i <= Chunks
                      /\ \A i \in 1..Chunks : out'[i] = DataOf(asked)[Sent + i]
    BY <1>1, ThreadData, Zenon
  <2> DEFINE k == lba - asked.n
  <2>1. /\ asked.op = "READ6" /\ cnt \in Nat \ {0} /\ lba \in Nat
        /\ KindOf(index) = "data"
    BY <1>1, ReadOnDisc DEF Readable
  <2>2. asked.n \in Nat /\ asked.arg \in Nat
    BY <1>3, AskedType
  <2>3. k \in 0..asked.arg-1 /\ asked.arg - k = cnt /\ asked.n + k = lba
    <3>1. asked.n <= lba /\ lba + cnt = asked.n + asked.arg
      BY <1>1 DEF SoundInv, ReadGoesOn
    <3> QED
      BY <2>1, <2>2, <3>1
  <2>4. ~Unread("command") /\ ~Unread("command")'
    BY <1>1, <1>2, Exclusive DEF SoundInv
  <2>5. Sent = k * Chunks
    BY <1>1, <2>4 DEF Sent
  <2>6. /\ Len(DataOf(asked)) = asked.arg * Chunks
        /\ \A i \in 1..Chunks :
             DataOf(asked)[k * Chunks + i] = [kind |-> "data", n |-> asked.n + k]
    BY <2>1, <2>2, <2>3, ReadDataOf
  <2>7. DataOf(asked)' = DataOf(asked) /\ send_data' = send_data
    BY <1>1, <1>2 DEF DataOf, SendData
  <2>8. k \in Nat /\ k + 1 <= asked.arg /\ (k + 1) * Chunks = k * Chunks + Chunks
        /\ (k + 1) * Chunks <= asked.arg * Chunks
    <3>1. k \in Nat /\ k + 1 <= asked.arg
      BY <2>2, <2>3
    <3>2. \A a, b \in Nat : a + 1 <= b => (a + 1) * Chunks = a * Chunks + Chunks
                                          /\ (a + 1) * Chunks <= b * Chunks
      OBVIOUS
    <3> QED
      BY <2>2, <3>1, <3>2, Zenon
  <2>9. Sent' = (k + 1) * Chunks
    <3>1. CASE cnt = 1
      <4>1. Sent' = Len(DataOf(asked)) /\ k + 1 = asked.arg
        BY <1>1, <2>2, <2>3, <2>4, <2>7, <3>1 DEF Sent
      <4> QED
        BY <2>6, <4>1
    <3>2. CASE cnt # 1
      <4>1. Sent' = (lba' - asked'.n) * Chunks
        BY <1>1, <2>4, <3>2 DEF Sent
      <4>2. lba' - asked'.n = k + 1
        BY <1>1, <1>2, <2>1, <2>2
      <4> QED
        BY <4>1, <4>2
    <3> QED
      BY <3>1, <3>2
  <2>10. /\ out' \in Seq(Item) /\ DOMAIN out' = 1..Chunks
         /\ \A i \in 1..Chunks : out'[i] = [kind |-> "data", n |-> lba]
    <3>1. out' \in Seq(Item)
      BY <1>3 DEF TypeOK, DriveTypeOK
    <3> QED
      BY <1>1, <2>1, <3>1 DEF ReadData, SendPieces
  <2>11. Len(out') = Chunks
    BY <2>10, LenIs
  <2> HIDE DEF k
  <2>12. Sent' = Sent + Chunks /\ Sent' <= Len(DataOf(asked))
    BY <2>5, <2>6, <2>8, <2>9
  <2>13. \A i \in DOMAIN out' : IsPiece(out'[i]) <=> i <= Chunks
    BY <2>10 DEF IsPiece
  <2>14. \A i \in 1..Chunks : out'[i] = DataOf(asked)[Sent + i]
    BY <2>3, <2>5, <2>6, <2>10
  <2> QED
    BY <2>7, <2>11, <2>12, <2>13, <2>14
<1> QED
  BY <1>5, <1>6, <1>7, <1>8, <1>9 DEF SoundInv

-----------------------------------------------------------------------------
(* The mailbox part.  When the firmware takes a command the console has    *)
(* received nothing for it yet.                                            *)
LEMMA TakenCommand ==
  ASSUME SoundInv, TakeMessage, UNCHANGED <<targetVars, consoleVars>>,
         slot.kind = "command"
  PROVE  /\ ThreadStep /\ ~rst /\ asked # NoCommand /\ ~DrivePending
         /\ slot.cmd = asked /\ Sensible(asked)
         /\ FIFO = <<>> /\ Sent = 0 /\ Len(got) = 0
         /\ \A k : ~Unread(k)'
<1>1. /\ ThreadStep /\ ~rst /\ asked # NoCommand /\ ~DrivePending /\ FIFO = <<>>
      /\ last_req' = req
  BY Taken DEF SoundInv
<1>2. Unread("command")
  BY DEF TakeMessage, Unread
<1>3. slot.cmd = asked /\ Sensible(asked)
  BY <1>1, <1>2 DEF SoundInv, CommandMeant
<1>4. Sent = 0
  BY <1>2 DEF Sent
<1>5. Len(got) = 0
  <2>1. Queued \in 0..Len(out)
    BY <1>1 DEF SoundInv, DataInOrder
  <2>2. Len(got) \in Nat /\ Len(FIFO) \in Nat /\ Len(out) \in Nat
    BY SentType DEF SoundInv, AnswerInv
  <2>3. Queued = 0 - Len(got) - Len(FIFO)
    BY <1>4 DEF Queued
  <2>4. \A q, g, f, n \in Int : q = 0 - g - f /\ q >= 0 /\ g >= 0 /\ f >= 0 => g = 0
    OBVIOUS
  <2>5. Queued \in Int /\ Queued >= 0
    BY <2>1, <2>2
  <2> QED
    BY <2>2, <2>3, <2>4, <2>5
<1>6. \A k : ~Unread(k)'
  BY <1>1 DEF ThreadStep, Unread
<1> QED
  BY <1>1, <1>3, <1>4, <1>5, <1>6

LEMMA CommandSound ==
  ASSUME SoundInv, AnswerInv', IndexTracksLba', TakeMessage,
         UNCHANGED <<targetVars, consoleVars, media>>, slot.kind = "command",
         DrivePending' \/ InQueue',
         NoPieces' \/ ~AwaitsParameters', ReadGoesOn', DataInOrder'
  PROVE  SoundInv'
<1>1. ThreadStep /\ FIFO = <<>>
  BY TakenCommand
<1>2. CommandMeant' /\ FifoIsRead'
  BY <1>1, ThreadKeeps
<1>3. AnswerComes'
  BY <1>1, ThreadComes
<1>4. ParametersAlone'
  <2>1. FIFO' = <<>>
    BY <1>1 DEF targetVars
  <2> QED
    BY <2>1 DEF ParametersAlone, NoPieces, IsPiece
<1> QED
  BY <1>2, <1>3, <1>4 DEF SoundInv

(* Commands that return no data.                                           *)
LEMMA NoDataSound ==
  ASSUME SoundInv, AnswerInv', IndexTracksLba', TakeMessage,
         UNCHANGED <<targetVars, consoleVars, media>>, slot.kind = "command",
         DataOf(asked) = <<>>, state' # "READ", NoPieces', DrivePending' \/ InQueue'
  PROVE  SoundInv'
<1>1. ReadGoesOn'
  BY DEF ReadGoesOn
<1>2. DataInOrder'
  <2>1. /\ ThreadStep /\ Sent = 0 /\ \A k : ~Unread(k)'
    BY TakenCommand
  <2>2. DataOf(asked)' = DataOf(asked)
    BY DEF consoleVars, DataOf, SendData
  <2>3. Sent' = 0
    BY <2>1, <2>2 DEF Sent
  <2>4. out' \in Seq(Item)
    BY DEF AnswerInv, TypeOK, DriveTypeOK
  <2>5. DOMAIN out' = 1..Len(out') /\ Len(out') \in Nat
    BY <2>4, LenProperties
  <2>6. /\ Sent' = Sent + 0 /\ Sent' <= Len(DataOf(asked)) /\ 0 <= Len(out')
        /\ \A i \in DOMAIN out' : IsPiece(out'[i]) <=> i <= 0
        /\ \A i \in 1..0 : out'[i] = DataOf(asked)[Sent + i]
    BY <2>1, <2>3, <2>5 DEF NoPieces
  <2>7. send_data' = send_data /\ 0 \in Nat
    OBVIOUS
  <2> QED
    BY <2>1, <2>6, <2>7, ThreadData, Zenon
<1> QED
  BY <1>1, <1>2, CommandSound

LEMMA SoleStatus ==
  ASSUME NEW s, out' = SendStatus(s)
  PROVE  NoPieces' /\ InQueue' /\ \A i \in DOMAIN out' : out'[i].kind = "status"
  BY DEF SendStatus, Write, NoPieces, IsPiece, InQueue, IsAnswer

(* Commands that send their data at once, and the status behind them.      *)
LEMMA ReplySound ==
  ASSUME SoundInv, AnswerInv', IndexTracksLba', TakeMessage,
         UNCHANGED <<targetVars, consoleVars, media, has_status, data_req, state>>,
         slot.kind = "command", DataOf(asked) = SendData,
         out' = SendData \o SendStatus(GOOD)
  PROVE  SoundInv'
<1> DEFINE l == Len(SendData)
           t == SendStatus(GOOD)
<1>1. /\ ThreadStep /\ Sent = 0 /\ ~DrivePending /\ ~rst /\ \A k : ~Unread(k)'
  BY TakenCommand
<1>2. /\ SendData \in Seq(Item) /\ t \in Seq(Item) /\ l \in Nat
      /\ Len(t) = 1 /\ t[1].kind = "status"
  <2>1. SendData \in Seq(Item) /\ t \in Seq(Item)
    BY SendDataTypes, WriteTypes
  <2> QED
    BY <2>1, LenProperties DEF SendStatus, Write
<1>3. \A i \in 1..l : SendData[i].kind = "reply"
  BY <1>2 DEF SendData, SendPieces
<1> HIDE DEF t
<1>4. /\ DOMAIN out' = 1..l + 1 /\ Len(out') = l + 1
      /\ \A i \in 1..l : out'[i] = SendData[i]
      /\ out'[l + 1].kind = "status"
  <2>1. /\ SendData \o t \in Seq(Item)
        /\ Len(SendData \o t) = Len(SendData) + Len(t)
        /\ \A i \in 1..Len(SendData) + Len(t) : (SendData \o t)[i] =
             IF i <= Len(SendData) THEN SendData[i] ELSE t[i - Len(SendData)]
    BY <1>2, ConcatProperties
  <2>2. out' = SendData \o t
    BY DEF t
  <2>3. DOMAIN out' = 1..Len(out')
    BY <2>1, <2>2, LenProperties
  <2> HIDE DEF l
  <2>4. /\ out' \in Seq(Item) /\ Len(out') = l + 1
        /\ \A i \in 1..l + 1 : out'[i] = IF i <= l THEN SendData[i] ELSE t[i - l]
    BY <1>2, <2>1, <2>2 DEF l
  <2>5. out'[l + 1] = t[1] /\ \A i \in 1..l : out'[i] = SendData[i]
    <3>1. l \in Nat /\ l + 1 \in 1..l+1 /\ ~(l + 1 <= l) /\ (l + 1) - l = 1
      BY <1>2 DEF l
    <3>2. \A i \in 1..l : i \in 1..l+1 /\ i <= l
      BY <3>1
    <3>3. out'[l + 1] = t[(l + 1) - l]
      BY <2>4, <3>1
    <3> QED
      BY <2>4, <3>1, <3>2, <3>3
  <2> QED
    BY <1>2, <2>3, <2>4, <2>5
<1> HIDE DEF l
<1>5. /\ InQueue' /\ \A i \in DOMAIN out' : out'[i].kind # "datareq"
  BY <1>2, <1>3, <1>4 DEF InQueue, IsAnswer
<1>6. ~AwaitsParameters'
  <2>1. ~(data_req \/ DOUT_PEND \/ SP = "DATAOUT")
    <3>1. Unread("command")
      BY DEF TakeMessage, Unread
    <3> QED
      BY <1>1, <3>1, NoneAwaited DEF SoundInv, AwaitsParameters
  <2> QED
    BY <1>1, <1>5, <2>1 DEF AwaitsParameters, targetVars
<1>7. state' # "READ"
  BY <1>1 DEF DrivePending
<1>8. ReadGoesOn'
  BY <1>7 DEF ReadGoesOn
<1>9. DataInOrder'
  <2>1. DataOf(asked)' = DataOf(asked)
    BY DEF consoleVars, DataOf, SendData
  <2>2. Sent' = l
    BY <1>1, <1>7, <2>1 DEF Sent, l
  <2>3. /\ Sent' = Sent + l /\ Sent' <= Len(DataOf(asked)) /\ l <= Len(out')
    BY <1>1, <1>2, <1>4, <2>2 DEF l
  <2>4. \A i \in DOMAIN out' : IsPiece(out'[i]) <=> i <= l
    BY <1>2, <1>3, <1>4 DEF IsPiece
  <2>5. \A i \in 1..l : out'[i] = DataOf(asked)[Sent + i]
    BY <1>1, <1>2, <1>4
  <2>6. send_data' = send_data
    OBVIOUS
  <2> QED
    BY <1>1, <1>2, <2>3, <2>4, <2>5, <2>6, ThreadData, Zenon
<1> QED
  BY <1>5, <1>6, <1>8, <1>9, CommandSound

LEMMA Read6Sound ==
  ASSUME SoundInv, AnswerInv', IndexTracksLba', TakeMessage,
         UNCHANGED <<targetVars, consoleVars, media>>, slot.kind = "command",
         asked.op = "READ6", Read6(asked, slot.fast)
  PROVE  SoundInv'
<1>1. /\ ThreadStep /\ ~rst /\ asked # NoCommand /\ ~DrivePending /\ Sensible(asked)
      /\ FIFO = <<>> /\ Sent = 0 /\ Len(got) = 0 /\ \A k : ~Unread(k)'
  BY TakenCommand
<1>2. /\ lba' = asked.n /\ cnt' = asked.arg /\ state' = "READ" /\ out' = <<>>
      /\ asked' = asked /\ UNCHANGED <<data_req, send_data>>
  BY <1>1 DEF Read6, consoleVars, ThreadStep
<1>3. asked.n \in Nat /\ asked.arg \in Nat /\ asked.arg > 0
  BY AskedType DEF SoundInv, AnswerInv
<1>4. NoPieces' /\ DrivePending'
  BY <1>2 DEF NoPieces, DrivePending
<1>5. ReadGoesOn'
  <2>1. \A l \in lba'..lba'+cnt'-1 : Readable(l)'
    BY <1>1, <1>2, ReadableKept DEF Sensible
  <2> QED
    BY <1>2, <1>3, <2>1 DEF ReadGoesOn
<1>6. DataInOrder'
  <2>1. Sent' = 0
    <3>1. Sent' = (lba' - asked'.n) * Chunks
      BY <1>1, <1>2 DEF Sent
    <3>2. lba' - asked'.n = 0
      BY <1>2, <1>3
    <3> QED
      BY <3>1, <3>2
  <2>2. Len(DataOf(asked)) \in Nat
    BY DataOfType DEF SoundInv, AnswerInv
  <2>3. /\ Sent' = Sent + 0 /\ Sent' <= Len(DataOf(asked)) /\ 0 <= Len(out')
        /\ \A i \in DOMAIN out' : IsPiece(out'[i]) <=> i <= 0
        /\ \A i \in 1..0 : out'[i] = DataOf(asked)[Sent + i]
    BY <1>1, <1>2, <2>1, <2>2
  <2>4. send_data' = send_data /\ 0 \in Nat
    BY <1>2
  <2> QED
    BY <1>1, <2>3, <2>4, ThreadData, Zenon
<1> QED
  BY <1>4, <1>5, <1>6, CommandSound

LEMMA ExecSound ==
  ASSUME SoundInv, AnswerInv', IndexTracksLba', TakeMessage,
         UNCHANGED <<targetVars, consoleVars>>,
         slot.kind = "command", CommandExec(slot.cmd, slot.fast)
  PROVE  SoundInv'
<1> DEFINE c == asked
<1>1. /\ ~DrivePending /\ slot.cmd = c /\ out = <<>> /\ UNCHANGED media
  BY TakenCommand DEF CommandExec, TakeMessage
<1>2. state # "READ"
  BY <1>1 DEF DrivePending
<1> HIDE DEF c
<1>3. ASSUME c.op \notin {"REQUESTSENSE", "GETDIRINFO", "READSUBQ", "READ6"},
             state' # "READ", NEW s, out' = SendStatus(s)
      PROVE  SoundInv'
  <2>1. DataOf(asked) = <<>>
    BY <1>3 DEF c, DataOf
  <2> QED
    BY <1>1, <1>3, <2>1, SoleStatus, NoDataSound
<1>4. ASSUME c.op \notin {"REQUESTSENSE", "GETDIRINFO", "READSUBQ", "READ6"},
             state' # "READ", out' = out, DrivePending'
      PROVE  SoundInv'
  <2>1. DataOf(asked) = <<>>
    BY <1>4 DEF c, DataOf
  <2>2. NoPieces'
    BY <1>1, <1>4, EmptyQueue
  <2> QED
    BY <1>1, <1>4, <2>1, <2>2, NoDataSound
<1>5. CASE c.op = "TESTUNIT" /\ TestUnit
  BY <1>2, <1>3, <1>5 DEF TestUnit
<1>6. CASE \/ c.op = "REQUESTSENSE" /\ RequestSense
           \/ c.op \in {"GETDIRINFO", "READSUBQ"} /\ ReplyOnly
  <2>1. /\ UNCHANGED <<has_status, data_req, state>>
        /\ out' = SendData \o SendStatus(GOOD)
    BY <1>6 DEF RequestSense, ReplyOnly
  <2>2. DataOf(asked) = SendData
    BY <1>6 DEF c, DataOf
  <2> QED
    BY <1>1, <2>1, <2>2, ReplySound
<1>7. CASE c.op = "READ6" /\ Read6(c, slot.fast)
  BY <1>1, <1>7, Read6Sound DEF c
<1>8. CASE c.op = "MODESELECT6" /\ ModeSelect6(c)
  <2>1. state' # "READ"
    BY <1>2, <1>8 DEF ModeSelect6
  <2>2. CASE c.n > 0
    BY <1>4, <1>8, <2>1, <2>2 DEF ModeSelect6, DrivePending
  <2>3. CASE ~(c.n > 0)
    BY <1>3, <1>8, <2>1, <2>3 DEF ModeSelect6
  <2> QED
    BY <2>2, <2>3
<1>9. CASE c.op = "SAPSP" /\ Sapsp(c, slot.fast)
  <2>1. has_status' /\ state' # "READ" /\ out' = out
    BY <1>9 DEF Sapsp
  <2> QED
    BY <1>4, <1>9, <2>1 DEF DrivePending
<1>10. CASE c.op = "SAPEP" /\ Sapep(c)
  <2>1. state' # "READ"
    BY <1>10 DEF Sapep
  <2>2. CASE c.arg = INTERRUPT
    <3>1. state' = "PLAY" /\ CDDAMode' = INTERRUPT /\ out' = out
      BY <1>10, <2>2 DEF Sapep, INTERRUPT, SILENT
    <3> QED
      BY <1>4, <1>10, <2>1, <3>1 DEF DrivePending
  <2>3. CASE c.arg # INTERRUPT
    BY <1>3, <1>10, <2>1, <2>3 DEF Sapep
  <2> QED
    BY <2>2, <2>3
<1>11. CASE c.op = "PAUSE" /\ Pause
  BY <1>3, <1>11 DEF Pause
<1>12. CASE c.op = "OTHER" /\ UnknownCommand
  BY <1>2, <1>3, <1>12 DEF UnknownCommand
<1>13. CommandExec(c, slot.fast)
  BY <1>1
<1> QED
  BY <1>5, <1>6, <1>7, <1>8, <1>9, <1>10, <1>11, <1>12, <1>13, Zenon DEF CommandExec

LEMMA TakeMessageSound ==
  ASSUME SoundInv, AnswerInv', IndexTracksLba', TakeMessage,
         UNCHANGED <<targetVars, consoleVars>>
  PROVE  SoundInv'
<1>1. ThreadStep /\ req # last_req /\ AnswerInv
  BY DEF TakeMessage, ThreadStep, SoundInv
<1>2. CASE slot.kind = "command" /\ CommandExec(slot.cmd, slot.fast)
  BY <1>2, ExecSound
<1>3. CASE slot.kind = "dataout" /\ DataOutReceived
  <2>1. /\ out' = SendStatus(GOOD)
        /\ UNCHANGED <<media, state, lba, cnt, data_req>>
    BY <1>3 DEF DataOutReceived
  <2>2. NoPieces' /\ InQueue' /\ \A i \in DOMAIN out' : out'[i].kind = "status"
    BY <2>1, SoleStatus
  <2>3. /\ ~Unread("command") /\ ~Unread("command")'
        /\ Unread("dataout")' => Unread("dataout")
    BY <1>1, <1>3, ThreadStepUnread DEF Unread
  <2>4. AwaitsParameters' => AwaitsParameters
    BY <1>1, <2>1, <2>2, <2>3 DEF AwaitsParameters, ThreadStep, targetVars
  <2> QED
    BY <1>1, <2>1, <2>2, <2>3, <2>4, QuietSound
<1>4. CASE slot.kind = "dataend" /\ DataEndReceived
  <2>1. /\ out' = out
        /\ UNCHANGED <<media, state, lba, cnt, CDDAMode, has_status, data_req>>
    BY <1>4 DEF DataEndReceived
  <2> QED
    BY <1>1, <1>4, <2>1, IdleSound
<1>5. CASE slot.kind = "reset" /\ ResetReceived
  <2>1. rst
    BY <1>1, <1>5 DEF AnswerInv, ResetOver, ResetSettled, Unread
  <2>2. out' = out
    BY <1>5 DEF ResetReceived
  <2>3. NoPieces'
    BY <1>1, <2>2, EmptyQueue DEF ThreadStep
  <2> QED
    BY <1>1, <2>1, <2>3, QuietSound
<1> QED
  BY <1>2, <1>3, <1>4, <1>5, Zenon DEF TakeMessage

LEMMA NoMessageSound ==
  ASSUME SoundInv, AnswerInv', IndexTracksLba', NoMessage,
         UNCHANGED <<targetVars, consoleVars>>
  PROVE  SoundInv'
<1>1. /\ ThreadStep /\ last_req' = last_req /\ out' = out
      /\ UNCHANGED <<media, state, lba, cnt, CDDAMode, has_status, data_req>>
  BY DEF NoMessage, ThreadStep, mailVars
<1> QED
  BY <1>1, IdleSound

-----------------------------------------------------------------------------
(* A write of the queue reaches the FPGA: an answer goes on, and a piece   *)
(* of data moves from the head of the queue to the end of the FIFO.        *)
LEMMA WriteEffect ==
  ASSUME TypeOK, PortWrite, ~rst, Bus
  PROVE  /\ rst' = rst /\ (SP # "FREE" => SP' = SP)
         /\ STAT_PEND \/ Head(out).kind = "status" => STAT_PEND'
         /\ DOUT_PEND \/ Head(out).kind = "datareq" => DOUT_PEND' \/ SP' = "DATAOUT"
         /\ DOUT_PEND' \/ SP' = "DATAOUT" =>
              DOUT_PEND \/ SP = "DATAOUT" \/ Head(out).kind = "datareq"
         /\ IF IsPiece(Head(out))
            THEN /\ FIFO' = Append(FIFO, Head(out))
                 /\ SP = "FREE" /\ ~STAT_PEND => SP' = "DATAIN"
            ELSE FIFO' = FIFO
<1> DEFINE w == Head(out)
<1>1. w \in Item
  <2>1. out # <<>> /\ out \in Seq(Item)
    BY DEF PortWrite, TypeOK, DriveTypeOK
  <2> QED
    BY <2>1, HeadTailProperties
<1>2. \/ w.kind = "status" /\ AcceptStatus(w.n)
      \/ w.kind = "datareq" /\ AcceptDataRequest
      \/ w.kind \in {"reply", "data"} /\ AcceptData(w)
      \/ w.kind = "audio" /\ UNCHANGED targetVars
      \/ w.kind = "mount" /\ UNCHANGED targetVars
  BY DEF PortWrite
<1> HIDE DEF w
<1>3. CASE w.kind = "status" /\ AcceptStatus(w.n)
  <2>1. /\ rst' = rst /\ STAT_PEND' = TRUE /\ FIFO' = FIFO /\ SP' = SP
        /\ DOUT_PEND' <=> DOUT_PEND
    BY <1>3 DEF AcceptStatus, Arrive, Settle
  <2> QED
    BY <1>3, <2>1 DEF w, IsPiece
<1>4. CASE w.kind = "datareq" /\ AcceptDataRequest
  <2>1. /\ rst' = rst /\ STAT_PEND' = STAT_PEND /\ FIFO' = FIFO
        /\ SP # "FREE" => SP' = SP
        /\ DOUT_PEND' <=> ~(SP = "FREE" /\ SP' = "DATAOUT")
    BY <1>4 DEF AcceptDataRequest, Arrive
  <2> QED
    BY <1>4, <2>1 DEF w, IsPiece
<1>5. CASE w.kind \in {"reply", "data"} /\ AcceptData(w)
  <2>1. FIFO' = Append(FIFO, w)
    BY <1>5 DEF AcceptData, Arrive
  <2>2. /\ rst' = rst /\ FIFO' # <<>> /\ UNCHANGED <<STAT_PEND, DOUT_PEND>>
        /\ SP' = SP \/ SP' = "DATAIN"
    BY <1>1, <1>5, AcceptDataEffect
  <2>3. SP' = IF SP = "FREE" /\ ~STAT_PEND THEN "DATAIN" ELSE SP
    BY <1>5, <2>1, <2>2 DEF AcceptData, Arrive, Settle
  <2> QED
    BY <1>5, <2>1, <2>2, <2>3 DEF w, IsPiece
<1>6. CASE w.kind \in {"audio", "mount"} /\ UNCHANGED targetVars
  BY <1>6 DEF targetVars, w, IsPiece
<1> QED
  BY <1>2, <1>3, <1>4, <1>5, <1>6

LEMMA WriteInReset ==
  ASSUME PortWrite
  PROVE  rst' = rst /\ (rst => UNCHANGED <<SP, BSY, STAT_PEND, DOUT_PEND, FIFO>>)
<1> DEFINE w == Head(out)
<1>1. \/ w.kind = "status" /\ AcceptStatus(w.n)
      \/ w.kind = "datareq" /\ AcceptDataRequest
      \/ w.kind \in {"reply", "data"} /\ AcceptData(w)
      \/ UNCHANGED targetVars
  BY DEF PortWrite
<1> HIDE DEF w
<1> QED
  BY <1>1 DEF AcceptStatus, AcceptDataRequest, AcceptData, targetVars

LEMMA WriteData ==
  ASSUME SoundInv, TypeOK', PortWrite
  PROVE  DataInOrder'
<1>1. /\ out # <<>> /\ out' = Tail(out)
      /\ UNCHANGED <<state, lba, send_data, slot, req, last_req, asked, got>>
  BY DEF PortWrite, consoleVars
<1>2. TypeOK /\ Bus /\ rst' = rst
  BY WriteInReset DEF SoundInv, AnswerInv
<1> SUFFICES ASSUME ~rst, asked # NoCommand
             PROVE  DataInOrder'
  BY <1>1, <1>2 DEF DataInOrder
<1> DEFINE D == DataOf(asked)
           w == Head(out)
<1>3. D' = D /\ Sent' = Sent
  <2>1. DataOf(asked)' = DataOf(asked)
    BY <1>1 DEF DataOf, SendData
  <2>2. Unread("command")' <=> Unread("command")
    BY <1>1 DEF Unread
  <2>3. Sent' = Sent
    BY <1>1, <2>1, <2>2 DEF Sent
  <2> QED
    BY <2>1, <2>3
<1>4. /\ Sent <= Len(D) /\ Queued \in 0..Len(out)
      /\ \A i \in DOMAIN out : IsPiece(out[i]) <=> i <= Queued
      /\ \A i \in 1..Len(got) : got[i] = D[i]
      /\ \A i \in 1..Len(FIFO) : FIFO[i] = D[Len(got) + i]
      /\ \A i \in 1..Queued : out[i] = D[Len(got) + Len(FIFO) + i]
  BY DEF SoundInv, DataInOrder
<1>5. /\ Sent \in Int /\ Len(got) \in Nat /\ Len(FIFO) \in Nat /\ Len(out) \in Nat
      /\ Len(out) > 0 /\ Len(out') = Len(out) - 1 /\ DOMAIN out' = 1..Len(out)-1
      /\ w \in Item /\ w = out[1] /\ 1 \in DOMAIN out
      /\ \A i \in 1..Len(out)-1 : out'[i] = out[i + 1] /\ i + 1 \in DOMAIN out
  <2>1. out \in Seq(Item)
    BY <1>2 DEF TypeOK, DriveTypeOK
  <2>2. \A s \in Seq(Item) : s # <<>> =>
          /\ Len(s) > 0 /\ Len(Tail(s)) = Len(s) - 1 /\ DOMAIN Tail(s) = 1..Len(s)-1
          /\ Head(s) \in Item /\ Head(s) = s[1] /\ 1 \in DOMAIN s
          /\ \A i \in 1..Len(s)-1 : Tail(s)[i] = s[i + 1] /\ i + 1 \in DOMAIN s
    OBVIOUS
  <2> QED
    BY <1>1, <1>2, <2>1, <2>2, SentType
<1>6. rst' = rst /\ FIFO' = IF IsPiece(w) THEN Append(FIFO, w) ELSE FIFO
  BY <1>2, WriteEffect
<1>7. IsPiece(w) <=> 1 <= Queued
  BY <1>4, <1>5
<1> HIDE DEF D, w
<1>8. CASE IsPiece(w)
  <2>1. /\ Len(FIFO') = Len(FIFO) + 1 /\ FIFO'[Len(FIFO) + 1] = w
        /\ \A i \in 1..Len(FIFO) : FIFO'[i] = FIFO[i]
    <3>1. FIFO \in Seq(Item)
      BY <1>2 DEF TypeOK, TargetTypeOK
    <3> QED
      BY <1>5, <1>6, <1>8, <3>1
  <2>2. Queued' = Queued - 1 /\ Queued \in 1..Len(out)
    <3>1. Queued' = Sent - Len(got) - (Len(FIFO) + 1)
      BY <1>1, <1>3, <2>1 DEF Queued
    <3>2. Queued = Sent - Len(got) - Len(FIFO)
      BY DEF Queued
    <3> QED
      BY <1>4, <1>5, <1>7, <1>8, <3>1, <3>2
  <2>3. w = D[Len(got) + Len(FIFO) + 1]
    BY <1>4, <1>5, <2>2
  <2>4. \A i \in 1..Len(FIFO)+1 : FIFO'[i] = D[Len(got) + i]
    <3>1. Len(got) + Len(FIFO) + 1 = Len(got) + (Len(FIFO) + 1)
      BY <1>5
    <3>2. \A i \in 1..Len(FIFO)+1 : i \in 1..Len(FIFO) \/ i = Len(FIFO) + 1
      BY <1>5
    <3> QED
      BY <1>4, <2>1, <2>3, <3>1, <3>2
  <2>5. \A i \in 1..Queued-1 : out'[i] = D[Len(got) + (Len(FIFO) + 1) + i]
    <3> SUFFICES ASSUME NEW i \in 1..Queued-1
                 PROVE  out'[i] = D[Len(got) + (Len(FIFO) + 1) + i]
      OBVIOUS
    <3>1. i \in 1..Len(out)-1 /\ i + 1 \in 1..Queued
      BY <1>5, <2>2
    <3>2. out'[i] = D[Len(got) + Len(FIFO) + (i + 1)]
      BY <1>4, <1>5, <3>1
    <3>3. Len(got) + Len(FIFO) + (i + 1) = Len(got) + (Len(FIFO) + 1) + i
      BY <1>5, <3>1
    <3> QED
      BY <3>2, <3>3
  <2>6. \A i \in DOMAIN out' : IsPiece(out'[i]) <=> i <= Queued - 1
    <3> SUFFICES ASSUME NEW i \in DOMAIN out'
                 PROVE  IsPiece(out'[i]) <=> i <= Queued - 1
      OBVIOUS
    <3>1. i \in Int /\ out'[i] = out[i + 1] /\ i + 1 \in DOMAIN out
      BY <1>5
    <3>2. IsPiece(out'[i]) <=> i + 1 <= Queued
      BY <1>4, <3>1
    <3> QED
      BY <2>2, <3>1, <3>2
  <2>7. Queued' \in 0..Len(out')
    BY <1>5, <2>2
  <2> QED
    BY <1>1, <1>3, <1>4, <1>6, <2>1, <2>2, <2>4, <2>5, <2>6, <2>7, SMTT(20)
       DEF DataInOrder, D, IsPiece
<1>9. CASE ~IsPiece(w)
  <2>1. FIFO' = FIFO /\ Queued = 0
    BY <1>4, <1>5, <1>6, <1>7, <1>9
  <2>2. Queued' = 0
    BY <1>1, <1>3, <2>1 DEF Queued
  <2>3. ASSUME NEW i \in DOMAIN out' PROVE ~IsPiece(out'[i]) /\ ~(i <= 0)
    <3>1. i \in 1..Len(out)-1 /\ out'[i] = out[i + 1] /\ i + 1 \in DOMAIN out
      BY <1>5
    <3>2. ~(i <= 0) /\ ~(i + 1 <= 0)
      BY <1>5, <3>1
    <3> QED
      BY <1>4, <2>1, <3>1, <3>2
  <2>4. 0 \in 0..Len(out')
    BY <1>5
  <2> QED
    BY <1>1, <1>3, <1>4, <1>6, <2>1, <2>2, <2>3, <2>4 DEF DataInOrder, D, IsPiece
<1> QED
  BY <1>8, <1>9

LEMMA PortWriteSound ==
  ASSUME SoundInv, AnswerInv', IndexTracksLba', PortWrite
  PROVE  SoundInv'
<1>1. /\ out # <<>> /\ out' = Tail(out)
      /\ UNCHANGED <<media, state, lba, cnt, CDDAMode, has_status, data_req,
                     slot, req, last_req, asked, got>>
  BY DEF PortWrite, consoleVars
<1>2. /\ AnswerInv /\ TypeOK /\ Bus
      /\ rst' = rst /\ (rst => UNCHANGED <<SP, FIFO>>)
  BY WriteInReset DEF SoundInv, AnswerInv
<1>3. \A k : Unread(k)' <=> Unread(k)
  BY <1>1 DEF Unread
<1>4. DrivePending' <=> DrivePending
  BY <1>1 DEF DrivePending
<1>5. 1 \in DOMAIN out /\ out[1] = Head(out)
  BY <1>1, <1>2, QueueTail
<1>6. CommandMeant'
  BY <1>1, <1>2, <1>3, MeantKept DEF SoundInv
<1>7. ReadGoesOn'
  BY <1>1, <1>2, ReadKept DEF SoundInv
<1>8. ParametersAlone'
  <2> SUFFICES ASSUME ~rst, AwaitsParameters'
               PROVE  FIFO' = <<>> /\ \A i \in DOMAIN out' : ~IsPiece(out'[i])
    BY <1>2 DEF ParametersAlone, IsPiece
  <2>1. AwaitsParameters
    <3>1. CASE data_req' \/ Unread("dataout")'
      BY <1>1, <1>3, <3>1 DEF AwaitsParameters
    <3>2. CASE DOUT_PEND' \/ SP' = "DATAOUT"
      BY <1>2, <1>5, <3>2, WriteEffect DEF AwaitsParameters
    <3>3. CASE \E i \in DOMAIN out' : out'[i].kind = "datareq"
      BY <1>1, <1>2, <3>3, QueueTail DEF AwaitsParameters
    <3> QED
      BY <3>1, <3>2, <3>3 DEF AwaitsParameters
  <2>2. FIFO = <<>> /\ \A i \in DOMAIN out : ~IsPiece(out[i])
    BY <2>1 DEF SoundInv, ParametersAlone
  <2>3. FIFO' = <<>>
    BY <1>2, <1>5, <2>2, WriteEffect
  <2> QED
    BY <1>1, <1>2, <2>2, <2>3, QueueTail
<1>9. AnswerComes'
  <2> SUFFICES ASSUME ~rst, AnswerUnderway
               PROVE  AnswerUnderway'
    BY <1>1, <1>2, <1>3, <1>4 DEF SoundInv, AnswerComes
  <2>1. CASE InQueue
    <3>1. PICK j \in DOMAIN out : IsAnswer(out[j])
      BY <2>1 DEF InQueue
    <3>2. CASE j = 1
      BY <1>2, <1>5, <3>1, <3>2, WriteEffect DEF IsAnswer, AnswerUnderway
    <3>3. CASE j # 1
      BY <1>1, <1>2, <3>1, <3>3, QueueTail DEF InQueue, IsAnswer, AnswerUnderway
    <3> QED
      BY <3>2, <3>3
  <2>2. CASE STAT_PEND \/ DOUT_PEND \/ SP \in {"STAT", "DATAOUT"}
    BY <1>2, <2>2, WriteEffect DEF AnswerUnderway
  <2> QED
    BY <2>1, <2>2 DEF AnswerUnderway
<1>10. FifoIsRead'
  <2> SUFFICES ASSUME FIFO' # <<>> PROVE SP' = "DATAIN"
    BY DEF FifoIsRead
  <2>1. FIFO # <<>> => SP = "DATAIN"
    BY DEF SoundInv, FifoIsRead
  <2>2. CASE rst
    BY <1>2, <2>1, <2>2
  <2>3. CASE ~rst /\ IsPiece(Head(out))
    <3>1. ~STAT_PEND /\ SP \notin {"STAT", "DATAOUT"}
      <4>1. DrivePending \/ InQueue
        BY <1>2, <1>5, <2>3, Exclusive
      <4> QED
        BY <1>2, <2>3, <4>1, Exclusive DEF AnswerUnderway
    <3>2. SP \in {"FREE", "DATAIN"}
      BY <1>2, <3>1 DEF TypeOK, TargetTypeOK
    <3> QED
      BY <1>2, <2>3, <3>1, <3>2, WriteEffect
  <2>4. CASE ~rst /\ ~IsPiece(Head(out))
    BY <1>2, <2>1, <2>4, WriteEffect
  <2> QED
    BY <2>2, <2>3, <2>4
<1>11. DataInOrder'
  BY WriteData DEF AnswerInv
<1> QED
  BY <1>6, <1>7, <1>8, <1>9, <1>10, <1>11 DEF SoundInv

-----------------------------------------------------------------------------
(* The steps of the target and the console.                                *)
LEMMA StillSound ==
  ASSUME SoundInv, AnswerInv', IndexTracksLba',
         UNCHANGED <<driveVars, mailVars, asked, got, FIFO>>, rst' <=> rst,
         SP' = SP \/ (SP = "FREE" /\ STAT_PEND /\ SP' = "STAT"),
         STAT_PEND' = STAT_PEND \/ SP' = "STAT", DOUT_PEND' = DOUT_PEND
  PROVE  SoundInv'
<1>1. /\ UNCHANGED <<media, state, lba, cnt, send_data, out, has_status, data_req,
                     CDDAMode, slot, req, last_req>>
  BY DEF driveVars, mailVars
<1>2. \A k : Unread(k)' <=> Unread(k)
  BY <1>1 DEF Unread
<1>3. CommandMeant' /\ ReadGoesOn'
  BY <1>1, <1>2, MeantKept, ReadKept DEF SoundInv
<1>4. ParametersAlone'
  <2>1. AwaitsParameters' => AwaitsParameters
    BY <1>1, <1>2 DEF AwaitsParameters
  <2> QED
    BY <1>1, <2>1 DEF SoundInv, ParametersAlone, IsPiece
<1>5. AnswerComes'
  <2>1. DrivePending => DrivePending'
    BY <1>1 DEF DrivePending
  <2>2. AnswerUnderway => AnswerUnderway'
    BY <1>1 DEF AnswerUnderway, InQueue, IsAnswer
  <2> QED
    BY <1>2, <2>1, <2>2 DEF SoundInv, AnswerComes
<1>6. FifoIsRead'
  BY DEF SoundInv, FifoIsRead
<1>7. DataInOrder'
  <2>1. DataOf(asked)' = DataOf(asked)
    BY <1>1 DEF DataOf, SendData
  <2>2. Sent' = Sent
    BY <1>1, <1>2, <2>1 DEF Sent
  <2>3. Queued' = Queued
    BY <2>2 DEF Queued
  <2>4. rst' <=> rst
    OBVIOUS
  <2> QED
    BY <1>1, <2>1, <2>2, <2>3, <2>4 DEF SoundInv, DataInOrder, IsPiece
<1> QED
  BY <1>3, <1>4, <1>5, <1>6, <1>7 DEF SoundInv

LEMMA StatusPhaseSound ==
  ASSUME SoundInv, AnswerInv', IndexTracksLba', Target
  PROVE  SoundInv'
  BY StillSound DEF Target, StatusPhase, consoleVars

LEMMA StutterSound ==
  ASSUME SoundInv, AnswerInv', IndexTracksLba', UNCHANGED vars
  PROVE  SoundInv'
<1>1. /\ UNCHANGED <<driveVars, mailVars, asked, got, FIFO, SP, STAT_PEND, DOUT_PEND>>
      /\ rst' <=> rst
  BY DEF vars, targetVars, consoleVars
<1> QED
  BY <1>1, StillSound

LEMMA TakeStatusSound ==
  ASSUME SoundInv, AnswerInv', IndexTracksLba', TakeStatus
  PROVE  SoundInv'
<1>1. /\ SP = "STAT" /\ ~rst /\ asked' = NoCommand /\ FIFO' = FIFO
      /\ UNCHANGED <<driveVars, mailVars>>
      /\ SP' = Settle(STAT_PEND, FIFO, DOUT_PEND)
      /\ DOUT_PEND' => DOUT_PEND
  BY DEF TakeStatus, StatusTaken
<1>2. /\ UNCHANGED <<state, out, data_req, slot, req, last_req>>
  BY <1>1 DEF driveVars, mailVars
<1>3. ~DOUT_PEND /\ ~Unread("command") /\ ~DrivePending
  BY <1>1, OwedByTarget, Exclusive DEF SoundInv, AnswerInv, AnswerUnderway
<1>4. FIFO' = <<>>
  BY <1>1 DEF SoundInv, FifoIsRead
<1>5. \A k : Unread(k)' <=> Unread(k)
  BY <1>2 DEF Unread
<1>6. CommandMeant' /\ ReadGoesOn'
  BY <1>2, <1>3, <1>5 DEF CommandMeant, ReadGoesOn, DrivePending
<1>7. ParametersAlone'
  <2>1. AwaitsParameters' => AwaitsParameters
    BY <1>1, <1>2, <1>3, <1>5 DEF AwaitsParameters, Settle
  <2> QED
    BY <1>1, <1>2, <2>1 DEF SoundInv, ParametersAlone, IsPiece
<1> QED
  BY <1>1, <1>4, <1>6, <1>7 DEF SoundInv, AnswerComes, FifoIsRead, DataInOrder

LEMMA ResetSound ==
  ASSUME SoundInv, Orderly, AnswerInv', IndexTracksLba', HoldReset \/ EndReset
  PROVE  SoundInv'
<1>1. FIFO' = <<>> /\ asked' = NoCommand
  BY DEF SoundInv, AnswerInv, ResetAtRest, HoldReset, AssertReset, EndReset,
         ReleaseReset, consoleVars
<1>2. CASE HoldReset
  <2>1. rst'
    BY <1>2 DEF HoldReset, AssertReset
  <2> QED
    BY <1>1, <2>1 DEF SoundInv, CommandMeant, ReadGoesOn, ParametersAlone,
                      AnswerComes, FifoIsRead, DataInOrder
<1>3. CASE EndReset
  <2>1. /\ rst /\ ResetSettled
        /\ UNCHANGED <<state, out, slot>>
    BY <1>3 DEF Orderly, EndReset, ReleaseReset, driveVars, mailVars
  <2>2. /\ slot'.kind = "reset" /\ state' # "READ"
        /\ \A i \in DOMAIN out' : ~IsPiece(out'[i])
    BY <2>1 DEF SoundInv, AnswerInv, ResetAtRest, DrivePending, IsPiece
  <2>3. ~Unread("command")'
    BY <2>2 DEF Unread
  <2> QED
    BY <1>1, <2>2, <2>3 DEF SoundInv, CommandMeant, ReadGoesOn, ParametersAlone,
                            AnswerComes, FifoIsRead, DataInOrder, IsPiece
<1> QED
  BY <1>2, <1>3

LEMMA GiveParametersSound ==
  ASSUME SoundInv, Orderly, AnswerInv', IndexTracksLba', GiveParameters
  PROVE  SoundInv'
<1>1. /\ SP = "DATAOUT" /\ ~rst /\ ~rst' /\ FIFO' = FIFO
      /\ UNCHANGED <<driveVars, asked, got>>
      /\ Post("dataout", NoCommand)
  BY DEF GiveParameters, ParametersGiven, consoleVars
<1>2. UNCHANGED <<media, state, lba, cnt, send_data, out>>
  BY <1>1 DEF driveVars
<1>3. Unread("dataout")' /\ ~Unread("command")' /\ ~Unread("command")
  <2>1. req' # last_req' /\ slot'.kind = "dataout"
    BY <1>1, CounterRoom, PostCounts DEF SoundInv, Post
  <2> QED
    BY <1>1, <2>1, Exclusive DEF SoundInv, AnswerUnderway, Unread
<1>4. /\ FIFO' = <<>> /\ \A i \in DOMAIN out' : ~IsPiece(out'[i])
  BY <1>1, <1>2 DEF SoundInv, ParametersAlone, AwaitsParameters, IsPiece
<1>5. CommandMeant' /\ ParametersAlone' /\ AnswerComes' /\ FifoIsRead'
  BY <1>3, <1>4 DEF CommandMeant, ParametersAlone, AnswerComes, FifoIsRead, IsPiece
<1>6. ReadGoesOn'
  BY <1>1, <1>2, ReadKept DEF SoundInv
<1>7. DataInOrder'
  <2>1. DataOf(asked)' = DataOf(asked)
    BY <1>1, <1>2 DEF DataOf, SendData
  <2>2. Sent' = Sent
    BY <1>1, <1>2, <1>3, <2>1 DEF Sent
  <2>3. Queued' = Queued
    BY <1>1, <2>2 DEF Queued
  <2> QED
    BY <1>1, <1>2, <2>1, <2>2, <2>3 DEF SoundInv, DataInOrder, IsPiece
<1> QED
  BY <1>5, <1>6, <1>7 DEF SoundInv

LEMMA IssueCommandSound ==
  ASSUME SoundInv, Orderly, CarefulConsole, AnswerInv', IndexTracksLba',
         NEW c \in Commands, IssueCommand(c)
  PROVE  SoundInv'
<1>1. /\ SP = "FREE" /\ ~rst /\ FIFO' = FIFO /\ UNCHANGED driveVars
      /\ Post("command", c) /\ asked = NoCommand /\ asked' = c /\ got' = <<>>
      /\ Sensible(c)
  BY DEF IssueCommand, SelectAndCommand
<1>2. UNCHANGED <<media, state, out>>
  BY <1>1 DEF driveVars
<1>3. Unread("command")' /\ slot'.cmd = c
  <2>1. req' # last_req'
    BY <1>1, CounterRoom, PostCounts DEF SoundInv
  <2> QED
    BY <1>1, <2>1 DEF Post, Unread
<1>4. FIFO' = <<>>
  BY <1>1 DEF SoundInv, FifoIsRead
<1>5. /\ state' # "READ" /\ \A i \in DOMAIN out' : ~IsPiece(out'[i])
  <2>1. ~DrivePending /\ ~InQueue
    BY <1>1, Exclusive DEF SoundInv, AnswerUnderway
  <2> QED
    BY <1>1, <1>2, <2>1, Exclusive DEF SoundInv, DrivePending, IsPiece
<1>6. CommandMeant'
  <2>1. Sensible(c)'
    BY <1>1, <1>2, ReadableKept DEF Sensible
  <2> QED
    BY <1>1, <1>3, <2>1 DEF CommandMeant
<1>7. ReadGoesOn' /\ ParametersAlone' /\ AnswerComes' /\ FifoIsRead'
  BY <1>3, <1>4, <1>5 DEF ReadGoesOn, ParametersAlone, AnswerComes, FifoIsRead, IsPiece
<1>8. DataInOrder'
  <2>1. Sent' = 0
    BY <1>3 DEF Sent
  <2>2. Len(got') = 0 /\ Len(FIFO') = 0
    BY <1>1, <1>4
  <2>3. Queued' = 0
    BY <2>1, <2>2 DEF Queued
  <2>4. TypeOK'
    BY DEF AnswerInv
  <2>5. Len(DataOf(asked))' \in Nat /\ Len(out') \in Nat
    <3>1. DataOf(asked)' \in Seq(Item) /\ out' \in Seq(Item)
      <4>1. out' \in Seq(Item)
        BY <2>4 DEF TypeOK, DriveTypeOK
      <4>2. CASE c.op = "READ6"
        <5>1. c.n \in Nat /\ c.arg \in Nat
          BY SystemAssumption, CommandParts
        <5>2. DataOf(c) \in Seq(Item) /\ DataOf(c)' = DataOf(c)
          BY <4>2, <5>1, ReadDataOf DEF DataOf
        <5> QED
          BY <1>1, <4>1, <5>2 DEF DataOf
      <4>3. CASE c.op # "READ6"
        <5>1. DataOf(c) \in Seq(Item)
          BY <4>3, SendDataTypes, WriteTypes DEF DataOf
        <5>2. DataOf(asked)' = DataOf(c)
          BY <1>1, <1>2, <4>3 DEF DataOf, SendData
        <5> QED
          BY <4>1, <5>1, <5>2
      <4> QED
        BY <4>2, <4>3
    <3> QED
      BY <3>1, LenProperties
  <2>6. \A i \in DOMAIN out' : ~(i <= 0)
    <3>1. out' \in Seq(Item)
      BY <2>4 DEF TypeOK, DriveTypeOK
    <3> QED
      BY <3>1, LenProperties
  <2> QED
    BY <1>5, <2>1, <2>2, <2>3, <2>5, <2>6 DEF DataInOrder, IsPiece
<1> QED
  BY <1>6, <1>7, <1>8 DEF SoundInv

LEMMA TakeDataOrder ==
  ASSUME SoundInv, TakeData, TypeOK', Unread("command")' <=> Unread("command")
  PROVE  DataInOrder'
<1>1. /\ SP = "DATAIN" /\ ~rst /\ FIFO' = Tail(FIFO) /\ got' = Append(got, Head(FIFO))
      /\ UNCHANGED <<driveVars, asked>>
  BY DEF TakeData, DataTaken
<1>2. UNCHANGED <<state, lba, send_data, out>>
  BY <1>1 DEF driveVars
<1> SUFFICES ASSUME asked # NoCommand
             PROVE  DataInOrder'
  BY <1>1 DEF DataInOrder
<1> DEFINE D == DataOf(asked)
<1>3. D' = D /\ Sent' = Sent
  <2>1. DataOf(asked)' = DataOf(asked)
    BY <1>1, <1>2 DEF DataOf, SendData
  <2>2. Sent' = Sent
    BY <1>1, <1>2, <2>1 DEF Sent
  <2> QED
    BY <2>1, <2>2
<1>4. /\ Sent <= Len(D) /\ Queued \in 0..Len(out)
      /\ \A i \in DOMAIN out : IsPiece(out[i]) <=> i <= Queued
      /\ \A i \in 1..Len(got) : got[i] = D[i]
      /\ \A i \in 1..Len(FIFO) : FIFO[i] = D[Len(got) + i]
      /\ \A i \in 1..Queued : out[i] = D[Len(got) + Len(FIFO) + i]
  BY <1>1 DEF SoundInv, DataInOrder
<1>5. Sent \in Int /\ Len(got) \in Nat /\ Len(FIFO) \in Nat /\ Len(out) \in Nat
  BY SentType DEF SoundInv, AnswerInv
<1>6. /\ Len(FIFO) > 0 /\ Len(FIFO') = Len(FIFO) - 1 /\ Head(FIFO) = FIFO[1]
      /\ \A i \in 1..Len(FIFO)-1 : FIFO'[i] = FIFO[i + 1]
      /\ Len(got') = Len(got) + 1 /\ got'[Len(got) + 1] = Head(FIFO)
      /\ \A i \in 1..Len(got) : got'[i] = got[i]
  <2>1. FIFO \in Seq(Item) /\ FIFO # <<>> /\ got \in Seq(Item)
    BY <1>1 DEF SoundInv, AnswerInv, TypeOK, TargetTypeOK
  <2>2. \A s \in Seq(Item) : s # <<>> =>
          /\ Len(s) > 0 /\ Len(Tail(s)) = Len(s) - 1 /\ Head(s) = s[1]
          /\ Head(s) \in Item
          /\ \A i \in 1..Len(s)-1 : Tail(s)[i] = s[i + 1]
    OBVIOUS
  <2>3. \A s \in Seq(Item), w \in Item :
          /\ Len(Append(s, w)) = Len(s) + 1 /\ Append(s, w)[Len(s) + 1] = w
          /\ \A i \in 1..Len(s) : Append(s, w)[i] = s[i]
    OBVIOUS
  <2> QED
    BY <1>1, <2>1, <2>2, <2>3
<1> HIDE DEF D
<1>7. Queued' = Queued
  BY <1>3, <1>5, <1>6 DEF Queued
<1>8. \A i \in 1..Len(got)+1 : got'[i] = D[i]
  <2>1. Head(FIFO) = D[Len(got) + 1]
    BY <1>4, <1>5, <1>6
  <2>2. \A i \in 1..Len(got)+1 : i \in 1..Len(got) \/ i = Len(got) + 1
    BY <1>5
  <2> QED
    BY <1>4, <1>6, <2>1, <2>2
<1>9. \A i \in 1..Len(FIFO)-1 : FIFO'[i] = D[(Len(got) + 1) + i]
  <2> SUFFICES ASSUME NEW i \in 1..Len(FIFO)-1
               PROVE  FIFO'[i] = D[(Len(got) + 1) + i]
    OBVIOUS
  <2>1. i + 1 \in 1..Len(FIFO) /\ Len(got) + (i + 1) = (Len(got) + 1) + i
    BY <1>5
  <2> QED
    BY <1>4, <1>6, <2>1
<1>10. \A i \in 1..Queued : out[i] = D[(Len(got) + 1) + (Len(FIFO) - 1) + i]
  <2> SUFFICES ASSUME NEW i \in 1..Queued
               PROVE  out[i] = D[(Len(got) + 1) + (Len(FIFO) - 1) + i]
    OBVIOUS
  <2>1. (Len(got) + 1) + (Len(FIFO) - 1) + i = Len(got) + Len(FIFO) + i
    BY <1>4, <1>5
  <2> QED
    BY <1>4, <2>1
<1> QED
  BY <1>1, <1>2, <1>3, <1>4, <1>6, <1>7, <1>8, <1>9, <1>10 DEF DataInOrder, D, IsPiece

LEMMA TakeDataSound ==
  ASSUME SoundInv, AnswerInv', IndexTracksLba', TakeData
  PROVE  SoundInv'
<1>1. /\ SP = "DATAIN" /\ ~rst /\ UNCHANGED <<rst, driveVars, asked, STAT_PEND>>
      /\ FIFO' = Tail(FIFO) /\ FIFO # <<>>
  BY DEF TakeData, DataTaken, SoundInv, AnswerInv, TypeOK, TargetTypeOK
<1>2. UNCHANGED <<media, state, lba, cnt, out, has_status, data_req, CDDAMode>>
  BY <1>1 DEF driveVars
<1>3. ~Unread("command") /\ ~AwaitsParameters
  BY <1>1 DEF SoundInv, AnswerInv, CommandAlone, ParametersAlone
<1>4. ~Unread("dataout") /\ ~data_req /\ ~DOUT_PEND
  BY <1>3 DEF AwaitsParameters
<1>5. ~Unread("command")' /\ ~Unread("dataout")'
  <2>1. CASE Len(FIFO) = 1
    BY <2>1 DEF TakeData, Post, Unread
  <2>2. CASE Len(FIFO) # 1
    <3>1. UNCHANGED <<slot, req, last_req>>
      BY <2>2 DEF TakeData, mailVars
    <3> QED
      BY <1>3, <1>4, <3>1 DEF Unread
  <2> QED
    BY <2>1, <2>2
<1>6. /\ ~DOUT_PEND' /\ SP' # "DATAOUT" /\ (FIFO' # <<>> => SP' = "DATAIN")
  BY <1>4 DEF TakeData, DataTaken, Settle
<1>7. ~AwaitsParameters'
  BY <1>2, <1>3, <1>5, <1>6 DEF AwaitsParameters
<1>8. CommandMeant' /\ ParametersAlone' /\ FifoIsRead'
  BY <1>5, <1>6, <1>7 DEF CommandMeant, ParametersAlone, FifoIsRead
<1>9. ReadGoesOn'
  BY <1>1, <1>2, ReadKept DEF SoundInv
<1>10. AnswerComes'
  <2>1. DrivePending => DrivePending'
    BY <1>2 DEF DrivePending
  <2>2. AnswerUnderway => AnswerUnderway'
    BY <1>1, <1>2, <1>4 DEF AnswerUnderway, InQueue, IsAnswer
  <2> QED
    BY <1>1, <1>3, <1>4, <2>1, <2>2 DEF SoundInv, AnswerComes
<1>11. DataInOrder'
  BY <1>3, <1>5, TakeDataOrder DEF AnswerInv
<1> QED
  BY <1>8, <1>9, <1>10, <1>11 DEF SoundInv

LEMMA InitSound ==
  ASSUME Init
  PROVE  SoundInv
<1>1. AnswerInv
  BY InitAnswers
<1>2. /\ req = last_req /\ FIFO = <<>> /\ out = <<>> /\ state = "NODISC"
      /\ asked = NoCommand
  BY DEF Init, DriveInit, TargetInit
<1>3. \A i \in DOMAIN out : ~IsPiece(out[i])
  BY <1>2
<1> QED
  BY <1>1, <1>2, <1>3 DEF SoundInv, IndexTracksLba, CommandMeant, ReadGoesOn,
     ParametersAlone, AnswerComes, FifoIsRead, DataInOrder, Unread

LEMMA SoundStep ==
  ASSUME Orderly, CarefulConsole, SoundInv, [Next]_vars
  PROVE  SoundInv'
<1>1. AnswerInv'
  BY AnswerStep DEF SoundInv
<1>2. IndexTracksLba'
  BY IndexStep DEF SoundInv, AnswerInv
<1>3. CASE UNCHANGED vars
  BY <1>1, <1>2, <1>3, StutterSound
<1>4. CASE Console
  BY <1>1, <1>2, <1>4, IssueCommandSound, TakeStatusSound, TakeDataSound,
     GiveParametersSound, ResetSound DEF Console
<1>5. CASE Target
  BY <1>1, <1>2, <1>5, StatusPhaseSound
<1>6. CASE Firmware
  BY <1>1, <1>2, <1>6, ResetPartSound, TimerPartSound, UpdateQuietSound,
     UpdatePlaySound, UpdateReadSectorSound, NoMessageSound, TakeMessageSound,
     PortWriteSound DEF Firmware, Update
<1> QED
  BY <1>3, <1>4, <1>5, <1>6 DEF Next

(* The invariant behind the next two theorems: where the data of a command *)
(* are while the drive reads, replies and hands over (cue.cpp, the FIFO of *)
(* SCSI.vhd), for every disc and every set of commands, when the console   *)
(* reads sectors of data tracks only.                                      *)
THEOREM SoundInvariant ==
  ASSUME Orderly, CarefulConsole
  PROVE  Spec => []SoundInv
<1>1. Init => SoundInv
  BY InitSound
<1>2. SoundInv /\ [Next]_vars => SoundInv'
  BY SoundStep
<1> QED
  BY <1>1, <1>2, PTL DEF Spec

(* A command has exactly one status on its way to the console, and without *)
(* a command there is none: CommandExec, PendStatus and SendStatus of      *)
(* cue.cpp and the mailbox neither lose an answer nor double one.          *)
THEOREM ExactlyOneAnswer ==
  ASSUME Orderly, CarefulConsole
  PROVE  Spec => []OneAnswer
<1>1. SoundInv => OneAnswer
  <2> SUFFICES ASSUME SoundInv, ~rst
               PROVE  LoneAnswer /\ Owed = One(asked # NoCommand)
    BY DEF OneAnswer
  <2>1. LoneAnswer /\ Owed <= One(asked # NoCommand)
    BY DEF SoundInv, AnswerInv, NoSecondAnswer
  <2>2. Owed = MailOwes + DriveOwes + One(InQueue) + TargetOwes
    BY DEF Owed
  <2>3. /\ MailOwes \in Nat /\ DriveOwes \in Nat
        /\ One(InQueue) \in Nat /\ TargetOwes \in Nat
    BY MailOwesNothing, DriveOwesNothing, TargetOwesNothing
  <2>4. asked # NoCommand => Owed >= 1
    <3> SUFFICES ASSUME asked # NoCommand PROVE Owed >= 1
      OBVIOUS
    <3>1. \/ MailOwes # 0 \/ DriveOwes # 0
          \/ One(InQueue) + TargetOwes # 0
      BY MailOwesNothing, DriveOwesNothing, TargetOwesNothing
         DEF SoundInv, AnswerComes
    <3> HIDE DEF One
    <3> QED
      BY <2>2, <2>3, <3>1
  <2>5. One(asked # NoCommand) = IF asked # NoCommand THEN 1 ELSE 0
    BY DEF One
  <2> HIDE DEF One
  <2>6. Owed \in Nat
    BY <2>2, <2>3
  <2> QED
    BY <2>1, <2>4, <2>5, <2>6
<1> QED
  BY <1>1, SoundInvariant, PTL

(* In the status phase the data have all gone, and with GOOD they are all  *)
(* that the command returns.                                               *)
LEMMA SoundComplete == SoundInv => AnswerComplete
<1> SUFFICES ASSUME SoundInv, SP = "STAT"
             PROVE  got = DataOf(asked) /\ FIFO = <<>>
  BY DEF AnswerComplete
<1>1. FIFO = <<>>
  BY DEF SoundInv, FifoIsRead
<1>2. ~rst
  BY DEF SoundInv, AnswerInv, ResetAtRest
<1>3. /\ ~Unread("command") /\ ~DrivePending /\ ~InQueue /\ asked # NoCommand
      /\ \A i \in DOMAIN out : ~IsPiece(out[i])
  BY <1>2, Exclusive DEF SoundInv, AnswerUnderway
<1>4. Sent = Len(DataOf(asked))
  BY <1>3 DEF Sent, DrivePending
<1>5. /\ Queued \in 0..Len(out)
      /\ \A i \in DOMAIN out : IsPiece(out[i]) <=> i <= Queued
      /\ \A i \in 1..Len(got) : got[i] = DataOf(asked)[i]
  BY <1>2, <1>3 DEF SoundInv, DataInOrder
<1>6. TypeOK
  BY DEF SoundInv, AnswerInv
<1>7. Queued = 0
  <2>1. out \in Seq(Item)
    BY <1>6 DEF TypeOK, DriveTypeOK
  <2>2. DOMAIN out = 1..Len(out) /\ Len(out) \in Nat
    BY <2>1, LenProperties
  <2>3. Queued # 0 => 1 \in DOMAIN out /\ 1 <= Queued
    BY <1>5, <2>2
  <2> QED
    BY <1>3, <1>5, <2>3
<1>8. Len(got) = Len(DataOf(asked))
  <2>1. Len(FIFO) = 0 /\ Queued = Sent - Len(got) - Len(FIFO)
    BY <1>1 DEF Queued
  <2>2. Len(got) \in Nat /\ Sent \in Int
    BY <1>6, SentType
  <2> QED
    BY <1>4, <1>7, <2>1, <2>2
<1>9. got \in Seq(Item) /\ DataOf(asked) \in Seq(Item)
  BY <1>6, DataOfType DEF TypeOK
<1>10. got = DataOf(asked)
  BY <1>5, <1>8, <1>9, SeqEqual
<1> QED
  BY <1>1, <1>10

(* When the console sees a GOOD status it has received all the data of its *)
(* command, in order and each piece once, and the FIFO of SCSI.vhd is      *)
(* empty: for every disc, length of a read and size of the FIFO.           *)
THEOREM AnswerIsComplete ==
  ASSUME Orderly, CarefulConsole
  PROVE  Spec => []AnswerComplete
  BY SoundComplete, SoundInvariant, PTL
-----------------------------------------------------------------------------
(***************************************************************************)
(* The system implements CdService.                                        *)
(***************************************************************************)

(* Between two commands the FIFO is empty.                                 *)
NothingLeft == asked = NoCommand => FIFO = <<>>

ServiceInv == SoundInv /\ NothingLeft

LEMMA NothingLeftStep ==
  ASSUME Orderly, ServiceInv, [Next]_vars
  PROVE  NothingLeft'
<1> SUFFICES ASSUME asked' = NoCommand PROVE FIFO' = <<>>
  BY DEF NothingLeft
<1>1. FIFO = <<>> \/ asked # NoCommand
  BY DEF ServiceInv, NothingLeft
<1>2. CASE UNCHANGED <<FIFO, asked>>
  BY <1>1, <1>2
<1>3. ~ \E c \in Commands : IssueCommand(c)
  BY SystemAssumption DEF IssueCommand, Command, Ops, NoCommand
<1>4. CASE TakeStatus
  BY <1>4 DEF TakeStatus, StatusTaken, ServiceInv, SoundInv, FifoIsRead
<1>5. CASE TakeData
  BY <1>1, <1>5 DEF TakeData, DataTaken, ServiceInv, SoundInv, AnswerInv, TypeOK, TargetTypeOK
<1>6. CASE HoldReset
  BY <1>6 DEF HoldReset, AssertReset
<1>7. CASE PortWrite
  <2>1. CASE Head(out).kind \in {"reply", "data"} /\ ~rst
    <3>1. 1 \in DOMAIN out /\ IsPiece(out[1])
      <4>1. out \in Seq(Item) /\ out # <<>>
        BY <1>7 DEF PortWrite, ServiceInv, SoundInv, AnswerInv, TypeOK, DriveTypeOK
      <4>2. 1 \in DOMAIN out /\ Head(out) = out[1]
        BY <4>1
      <4> QED
        BY <2>1, <4>2 DEF IsPiece
    <3>2. asked # NoCommand
      BY <2>1, <3>1, Exclusive DEF ServiceInv, SoundInv, AnswerUnderway
    <3> QED
      BY <1>7, <3>2 DEF PortWrite, consoleVars
  <2>2. CASE ~(Head(out).kind \in {"reply", "data"} /\ ~rst)
    <3>1. UNCHANGED <<FIFO, asked>>
      BY <1>7, <2>2 DEF PortWrite, AcceptStatus, AcceptDataRequest, AcceptData, Arrive,
                        targetVars, consoleVars
    <3> QED
      BY <1>2, <3>1
  <2> QED
    BY <2>1, <2>2
<1>8. GiveParameters \/ EndReset \/ Target \/ UNCHANGED vars => UNCHANGED <<FIFO, asked>>
  BY DEF GiveParameters, ParametersGiven, EndReset, ReleaseReset, Target, StatusPhase,
         consoleVars, targetVars, vars
<1>9. Firmware /\ ~PortWrite => UNCHANGED <<FIFO, asked>>
  BY DEF Firmware, targetVars, consoleVars
<1> QED
  BY <1>2, <1>3, <1>4, <1>5, <1>6, <1>7, <1>8, <1>9 DEF Next, Console

(* What a command returns is settled when it is issued: the disc changes   *)
(* in a reset only, when no command is under way.                          *)
LEMMA DataSettled ==
  ASSUME ServiceInv, [Next]_vars, asked' = asked
  PROVE  DataOf(asked)' = DataOf(asked)
<1>1. CASE send_data' = send_data
  BY <1>1 DEF DataOf, SendData
<1>2. CASE send_data' # send_data
  <2>1. \E result \in LoadResults : Remount(result)
    <3>1. ~Console /\ ~Target /\ ~PortWrite /\ ~UNCHANGED vars
      BY <1>2 DEF Console, IssueCommand, TakeStatus, TakeData, GiveParameters, HoldReset,
                  EndReset, Target, PortWrite, vars, driveVars
    <3>2. ~NoReset /\ ~PollTimer /\ ~Update /\ ~NoMessage /\ ~TakeMessage
      BY <1>2, PollWrites DEF ServiceInv, SoundInv, AnswerInv
    <3> QED
      BY <3>1, <3>2 DEF Next, Firmware, PollReset
  <2>2. rst
    BY <2>1 DEF Remount, ServiceInv, SoundInv, AnswerInv, ResetOver, ResetSettled
  <2>3. asked = NoCommand
    BY <2>2 DEF ServiceInv, SoundInv, AnswerInv, ResetAtRest
  <2> QED
    BY <2>3 DEF DataOf, NoCommand
<1> QED
  BY <1>1, <1>2

LEMMA CommandReturnsReply ==
  ASSUME NEW c \in Commands
  PROVE  DataOf(c) \in Replies[c]
  BY DEF DataOf, Replies, SendData

(* The console's steps and the target's, one by one.                       *)
LEMMA IssueAsks ==
  ASSUME NEW c \in Commands, IssueCommand(c)
  PROVE  Service!Ask(c)
<1>1. /\ asked = NoCommand /\ asked' = c /\ got' = <<>> /\ resets' = resets
      /\ send_data' = send_data
  BY DEF IssueCommand, driveVars
<1>2. SP # "STAT" /\ SP' # "STAT"
  BY DEF IssueCommand, SelectAndCommand, Settle
<1>3. DataOf(asked)' \in Replies[c]
  BY <1>1, CommandReturnsReply DEF DataOf, SendData
<1> QED
  BY <1>1, <1>2, <1>3 DEF Service!Ask

LEMMA TakeDataDelivers ==
  ASSUME ServiceInv, [Next]_vars, TakeData
  PROVE  Service!Deliver
<1>1. /\ SP = "DATAIN" /\ ~rst /\ got' = Append(got, Head(FIFO))
      /\ UNCHANGED <<asked, resets>>
  BY DEF TakeData, DataTaken
<1>2. FIFO \in Seq(Item) /\ FIFO # <<>> /\ got \in Seq(Item)
  BY <1>1 DEF ServiceInv, SoundInv, AnswerInv, TypeOK, TargetTypeOK
<1>3. asked # NoCommand
  BY <1>2 DEF ServiceInv, NothingLeft
<1>4. Len(FIFO) \in Nat \ {0} /\ Head(FIFO) = FIFO[1] /\ Len(got) \in Nat
  BY <1>2
<1>5. Head(FIFO) = DataOf(asked)[Len(got) + 1]
  <2>1. \A i \in 1..Len(FIFO) : FIFO[i] = DataOf(asked)[Len(got) + i]
    BY <1>1, <1>3 DEF ServiceInv, SoundInv, DataInOrder
  <2>2. 1 \in 1..Len(FIFO)
    BY <1>4
  <2> QED
    BY <1>4, <2>1, <2>2
<1>6. Len(got) < Len(DataOf(asked))
  <2>1. /\ Sent \in Int /\ Sent <= Len(DataOf(asked)) /\ Len(DataOf(asked)) \in Nat
        /\ Sent - Len(got) - Len(FIFO) \in 0..Len(out)
    BY <1>1, <1>3, SentType, DataOfType DEF ServiceInv, SoundInv, AnswerInv, DataInOrder, Queued
  <2> QED
    BY <1>4, <2>1
<1>7. SP' # "STAT"
  BY DEF TakeData, DataTaken, Settle
<1>8. DataOf(asked)' = DataOf(asked)
  BY <1>1, DataSettled
<1> QED
  BY <1>1, <1>3, <1>5, <1>6, <1>7, <1>8 DEF Service!Deliver

LEMMA TargetStepAnswers ==
  ASSUME ServiceInv, AnswerComplete', [Next]_vars, Target
  PROVE  Service!Next
<1>1. /\ SP = "FREE" /\ ~rst /\ STAT_PEND /\ SP' = "STAT" /\ DBO' = STATUS
      /\ UNCHANGED <<asked, got, resets>>
  BY DEF Target, StatusPhase, consoleVars
<1>2. asked # NoCommand
  BY <1>1, Exclusive DEF ServiceInv, SoundInv, AnswerUnderway
<1>3. DataOf(asked)' = DataOf(asked)
  BY <1>1, DataSettled
<1>4. STATUS = GOOD => got = DataOf(asked)
  BY <1>1, <1>3 DEF AnswerComplete
<1>5. STATUS \in {GOOD, CHECK}
  BY DEF ServiceInv, SoundInv, AnswerInv, TypeOK, TargetTypeOK
<1>6. SP # "STAT"
  BY <1>1
<1> QED
  BY <1>1, <1>2, <1>3, <1>4, <1>5, <1>6 DEF Service!Answer, Service!Next

LEMMA TakeStatusTakes ==
  ASSUME TakeStatus
  PROVE  Service!Take
<1>1. /\ SP = "STAT" /\ SP' # "STAT"
      /\ asked' = NoCommand /\ UNCHANGED <<got, resets>>
  BY DEF TakeStatus, StatusTaken, Settle
<1>2. DataOf(asked)' = <<>>
  BY <1>1 DEF DataOf, NoCommand
<1> QED
  BY <1>1, <1>2 DEF Service!Take

LEMMA HoldResetResets ==
  ASSUME HoldReset
  PROVE  Service!Reset
<1>1. SP' # "STAT" /\ asked' = NoCommand /\ got' = <<>> /\ resets' = resets + 1
  BY DEF HoldReset, AssertReset
<1>2. DataOf(asked)' = <<>>
  BY <1>1 DEF DataOf, NoCommand
<1> QED
  BY <1>1, <1>2 DEF Service!Reset

(* Whatever the firmware does is between the two of them.                  *)
LEMMA FirmwareUnseen ==
  ASSUME ServiceInv, [Next]_vars,
         Firmware \/ GiveParameters \/ EndReset \/ UNCHANGED vars
  PROVE  UNCHANGED Service!serviceVars
<1>1. UNCHANGED <<asked, got, resets>>
  BY DEF Firmware, PortWrite, GiveParameters, EndReset, consoleVars, vars
<1>2. DataOf(asked)' = DataOf(asked)
  BY <1>1, DataSettled
<1>3. DBO' = DBO /\ (SP = "STAT" <=> SP' = "STAT")
  <2>1. CASE PortWrite
    BY <2>1 DEF PortWrite, AcceptStatus, AcceptDataRequest, AcceptData, Arrive, Settle,
                targetVars
  <2>2. CASE GiveParameters
    BY <2>2 DEF GiveParameters, ParametersGiven, Settle
  <2>3. CASE EndReset \/ UNCHANGED vars \/ (Firmware /\ ~PortWrite)
    BY <2>3 DEF EndReset, ReleaseReset, Firmware, targetVars, vars
  <2> QED
    BY <2>1, <2>2, <2>3
<1> QED
  BY <1>1, <1>2, <1>3 DEF Service!serviceVars

LEMMA StepServes ==
  ASSUME ServiceInv, AnswerComplete', [Next]_vars
  PROVE  [Service!Next]_(Service!serviceVars)
<1>1. ASSUME NEW c \in Commands, IssueCommand(c) PROVE Service!Next
  BY <1>1, IssueAsks DEF Service!Next
<1>2. CASE TakeData
  BY <1>2, TakeDataDelivers DEF Service!Next
<1>3. CASE Target
  BY <1>3, TargetStepAnswers DEF Service!Next
<1>4. CASE TakeStatus \/ HoldReset
  BY <1>4, TakeStatusTakes, HoldResetResets DEF Service!Next
<1>5. CASE Firmware \/ GiveParameters \/ EndReset \/ UNCHANGED vars
  BY <1>5, FirmwareUnseen
<1> QED
  BY <1>1, <1>2, <1>3, <1>4, <1>5 DEF Next, Console

(* The drive, its mailbox and the target, seen from the console's software *)
(* (pcecd.cpp, cue.cpp, main.sv, SCSI.vhd): every command is answered by   *)
(* its data, in order, and by one status after them, nothing comes         *)
(* unasked, and only a reset makes the drive forget a command.  For every  *)
(* disc, every set of commands, and every size of the FIFO.                *)
THEOREM DriveServes ==
  ASSUME Orderly, CarefulConsole
  PROVE  Spec => ServiceGiven
<1>1. Init => ServiceInv /\ Service!Init
  <2> SUFFICES ASSUME Init PROVE ServiceInv /\ Service!Init
    OBVIOUS
  <2>1. asked = NoCommand /\ got = <<>> /\ FIFO = <<>> /\ SP = "FREE" /\ resets = 0
    BY DEF Init, TargetInit
  <2>2. DataOf(asked) = <<>>
    BY <2>1 DEF DataOf, NoCommand
  <2> QED
    BY <2>1, <2>2, InitSound DEF ServiceInv, NothingLeft, Service!Init
<1>2. ServiceInv /\ [Next]_vars => ServiceInv'
  BY SoundStep, NothingLeftStep DEF ServiceInv
<1>3. ServiceInv => AnswerComplete
  BY SoundComplete DEF ServiceInv
<1>4. ServiceInv /\ AnswerComplete' /\ [Next]_vars => [Service!Next]_(Service!serviceVars)
  BY StepServes
<1> QED
  BY <1>1, <1>2, <1>3, <1>4, PTL DEF Spec, ServiceGiven, Service!Spec
=============================================================================
