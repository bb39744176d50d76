--------------------------- MODULE CdMailboxProofs --------------------------
(***************************************************************************)
(* Proofs about CdMailbox, for every width of the message counter, all     *)
(* statuses and all blocks that main.sv can count: a message put together  *)
(* from two posts is read again, a status is taken over whole, and the     *)
(* FIFO receives exactly the bytes of a block.                             *)
(***************************************************************************)
EXTENDS CdMailbox, SequenceTheorems, TLAPS

(* A word of data behind the length.                                       *)
LEMMA DataTaken ==
  ASSUME NEW w, TakeData(w), byte_cnt # 0, head_pos, ~(cd_dat_cnt >= cd_dat_len)
  PROVE  TakeBytes(w)
BY Zenon DEF TakeData

USE CountersAssumption
USE DEF Kinds, COMMAND, DATAOUT, DATAEND, RESET
USE DEF UIO_SET_SDSTAT, UIO_CD_GET, UIO_CD_SET, UIO_CD_DATA
-----------------------------------------------------------------------------
(* Arithmetic and sequences.                                               *)

LEMMA BytesOfWord ==
  \A x, y \in 0..255 : (x + 256 * y) % 256 = x /\ (x + 256 * y) \div 256 = y
OBVIOUS

LEMMA OneOfTwo ==
  ASSUME NEW s \in Seq(Nat), Len(s) = 2, NEW i \in 1..2, NEW w \in Nat
  PROVE  [s EXCEPT ![i] = w] \in Seq(Nat) /\ Len([s EXCEPT ![i] = w]) = 2
<1>1. i \in 1..Len(s)
  OBVIOUS
<1>2. [s EXCEPT ![i] = w] \in Seq(Nat) /\ Len([s EXCEPT ![i] = w]) = Len(s)
  BY <1>1, ExceptSeq, SMTT(20)
<1> QED
  BY <1>2

LEMMA SmallWord == \A x \in 0..255 : x % 256 = x /\ x + 0 = x
OBVIOUS

LEMMA Counter ==
  \A n \in 0..ReqMod-1 : (n + 1) % ReqMod \in 0..ReqMod-1
OBVIOUS

LEMMA HeadTail ==
  ASSUME NEW S, NEW w \in Seq(S), w # <<>>
  PROVE  /\ Head(w) \in S /\ Head(w) = w[1] /\ Tail(w) \in Seq(S)
         /\ Len(w) \in Nat \ {0} /\ Len(Tail(w)) = Len(w) - 1
         /\ \A i \in 1..Len(Tail(w)) : Tail(w)[i] = w[i + 1]
OBVIOUS

LEMMA ThreeWords ==
  ASSUME NEW a \in Nat, NEW b \in Nat, NEW c \in Nat
  PROVE  /\ Head(<<a, b, c>>) = a /\ Tail(<<a, b, c>>) = <<b, c>>
         /\ Head(<<b, c>>) = b /\ Tail(<<b, c>>) = <<c>>
         /\ Head(<<c>>) = c /\ Tail(<<c>>) = <<>>
         /\ <<a, b, c>> \in Seq(Nat) /\ <<a, b, c>> # <<>> /\ <<b, c>> # <<>> /\ <<c>> # <<>>
OBVIOUS

LEMMA Concat ==
  ASSUME NEW h \in Seq(Nat), NEW u \in Seq(Nat)
  PROVE  /\ h \o u \in Seq(Nat) /\ Len(h \o u) = Len(h) + Len(u)
         /\ \A i \in 1..Len(h) + Len(u) :
              (h \o u)[i] = IF i <= Len(h) THEN h[i] ELSE u[i - Len(h)]
BY ConcatProperties

LEMMA Octets == Octet \subseteq Nat /\ \A x \in Octet : x \in 0..255
BY DEF Octet

LEMMA BytesAreWords ==
  ASSUME NEW u \in Seq(Octet)
  PROVE  u \in Seq(Nat) /\ Len(u) \in Nat /\ \A i \in 1..Len(u) : u[i] \in Octet
<1>1. Len(u) \in Nat /\ \A i \in 1..Len(u) : u[i] \in Octet
  BY ElementOfSeq
<1>2. u \in Seq(Nat)
  BY Octets, SeqMonotonic
<1> QED
  BY <1>1, <1>2

(* The words of a block: the command, the length with the flag, and two    *)
(* bytes in each of the others.                                            *)
LEMMA WordsOfBlock ==
  ASSUME NEW b \in Blocks
  PROVE  /\ DataWords(b) \in Seq(Nat)
         /\ Len(DataWords(b)) = 2 + (Len(b) + 1) \div 2
         /\ DataWords(b)[1] = UIO_CD_DATA
         /\ DataWords(b)[2] % 4096 = Len(b)
         /\ \A n \in 3..Len(DataWords(b)) :
              DataWords(b)[n] = b[2*n - 5] + (IF 2*n - 4 <= Len(b) THEN 256 * b[2*n - 4] ELSE 0)
<1> DEFINE t == <<Len(b), 128>> \o b
<1>1. b \in Seq(Octet) /\ Len(b) \in Nat /\ Len(b) < 4096
  BY CallsAssumption, BytesAreWords
<1>2. /\ t \in Seq(Nat) /\ Len(t) = Len(b) + 2
      /\ t[1] = Len(b) /\ t[2] = 128 /\ \A i \in 3..Len(t) : t[i] = b[i - 2]
  <2> DEFINE h == <<Len(b), 128>>
  <2>1. h \in Seq(Nat) /\ Len(h) = 2 /\ h[1] = Len(b) /\ h[2] = 128
    BY <1>1
  <2>2. b \in Seq(Nat)
    BY <1>1, BytesAreWords
  <2> HIDE DEF h
  <2>3. /\ h \o b \in Seq(Nat) /\ Len(h \o b) = Len(h) + Len(b)
        /\ \A i \in 1..Len(h) + Len(b) :
             (h \o b)[i] = IF i <= Len(h) THEN h[i] ELSE b[i - Len(h)]
    BY <2>1, <2>2, Concat
  <2>4. t = h \o b
    BY DEF h
  <2>5. t \in Seq(Nat) /\ Len(t) = Len(b) + 2
    BY <1>1, <2>1, <2>3, <2>4
  <2>6. t[1] = Len(b) /\ t[2] = 128
    BY <1>1, <2>1, <2>3, <2>4
  <2>7. \A i \in 3..Len(t) : t[i] = b[i - 2]
    BY <1>1, <2>1, <2>3, <2>4, <2>5
  <2> QED
    BY <2>5, <2>6, <2>7
<1> HIDE DEF t
<1>3. /\ Wide(t) \in Seq(Nat) /\ Len(Wide(t)) = (Len(t) + 1) \div 2
      /\ \A i \in 1..Len(Wide(t)) :
           Wide(t)[i] = t[2*i - 1] + (IF 2*i <= Len(t) THEN 256 * t[2*i] ELSE 0)
  <2>1. \A i \in 1..(Len(t) + 1) \div 2 :
          t[2*i - 1] + (IF 2*i <= Len(t) THEN 256 * t[2*i] ELSE 0) \in Nat
    <3> TAKE i \in 1..(Len(t) + 1) \div 2
    <3>1. i \in Nat /\ 2*i - 1 \in 1..Len(t)
      BY <1>1, <1>2
    <3>2. t[2*i - 1] \in Nat
      BY <1>2, <3>1
    <3>3. CASE 2*i <= Len(t)
      <4>1. 2*i \in 1..Len(t)
        BY <1>1, <1>2, <3>1, <3>3
      <4>2. t[2*i] \in Nat
        BY <1>2, <4>1
      <4>3. 256 * t[2*i] \in Nat
        BY <4>2
      <4> QED
        BY <3>2, <3>3, <4>3
    <3>4. CASE ~(2*i <= Len(t))
      BY <3>2, <3>4
    <3> QED
      BY <3>3, <3>4
  <2> QED
    BY <1>1, <1>2, <2>1 DEF Wide
<1>4. (Len(b) + 3) \div 2 = 1 + (Len(b) + 1) \div 2
  BY <1>1
<1>5. DataWords(b) = <<UIO_CD_DATA>> \o Wide(t)
  BY DEF DataWords, t
<1>6. /\ DataWords(b) \in Seq(Nat) /\ Len(DataWords(b)) = 1 + Len(Wide(t))
      /\ DataWords(b)[1] = UIO_CD_DATA
      /\ \A n \in 2..Len(DataWords(b)) : DataWords(b)[n] = Wide(t)[n - 1]
  BY <1>3, <1>5
<1>7. Len(DataWords(b)) = 2 + (Len(b) + 1) \div 2
  BY <1>2, <1>3, <1>4, <1>6
<1>8. DataWords(b)[2] = Len(b) + 256 * 128
  <2>1. 1 \in 1..Len(Wide(t)) /\ 2 \in 2..Len(DataWords(b)) /\ 2 <= Len(t)
    BY <1>1, <1>2, <1>3, <1>6, <1>7, SMTT(20)
  <2>2. DataWords(b)[2] = Wide(t)[1]
    BY <1>6, <2>1
  <2>3. Wide(t)[1] = t[2*1 - 1] + (IF 2*1 <= Len(t) THEN 256 * t[2*1] ELSE 0)
    BY <1>3, <2>1
  <2> QED
    BY <1>1, <1>2, <2>1, <2>2, <2>3
<1>9. DataWords(b)[2] % 4096 = Len(b)
  <2> DEFINE n == Len(b)
  <2>1. n \in Nat /\ n < 4096
    BY <1>1
  <2> HIDE DEF n
  <2>2. (n + 256 * 128) % 4096 = n
    BY <2>1
  <2>3. DataWords(b)[2] = n + 256 * 128
    BY <1>8 DEF n
  <2>4. DataWords(b)[2] % 4096 = n
    BY <2>2, <2>3
  <2> QED
    BY <2>4 DEF n
<1>10. ASSUME NEW n \in 3..Len(DataWords(b))
       PROVE  DataWords(b)[n] = b[2*n - 5] + (IF 2*n - 4 <= Len(b) THEN 256 * b[2*n - 4] ELSE 0)
  <2>1. DataWords(b)[n] = Wide(t)[n - 1] /\ n - 1 \in 1..Len(Wide(t))
    BY <1>6
  <2>2. Wide(t)[n - 1] = t[2*(n - 1) - 1] + (IF 2*(n - 1) <= Len(t) THEN 256 * t[2*(n - 1)] ELSE 0)
    BY <1>3, <2>1
  <2>3. 2*(n - 1) - 1 \in 3..Len(t) /\ (2*(n - 1) - 1) - 2 = 2*n - 5
    BY <1>1, <1>2, <1>3, <2>1
  <2>4. t[2*(n - 1) - 1] = b[2*n - 5]
    BY <1>2, <2>3
  <2>5. CASE 2*n - 4 <= Len(b)
    <3>1. 2*(n - 1) \in 3..Len(t) /\ 2*(n - 1) - 2 = 2*n - 4
      BY <1>1, <1>2, <2>5
    <3>2. t[2*(n - 1)] = b[2*n - 4]
      BY <1>2, <3>1
    <3> QED
      BY <2>1, <2>2, <2>4, <2>5, <3>1, <3>2
  <2>6. CASE ~(2*n - 4 <= Len(b))
    <3>1. ~(2*(n - 1) <= Len(t))
      BY <1>1, <1>2, <2>6
    <3> QED
      BY <2>1, <2>2, <2>4, <2>6, <3>1
  <2> QED
    BY <2>5, <2>6
<1> QED
  BY <1>6, <1>7, <1>9, <1>10
-----------------------------------------------------------------------------
LEMMA InitMail == Init => MailInv
<1> SUFFICES ASSUME Init PROVE MailInv
  OBVIOUS
<1>1. MailTypes
  BY DEF Init, MailTypes, Nothing
<1>2. AtRest /\ Polling /\ TornIsReread
  BY DEF Init, AtRest, Polling, TornIsReread, Nothing
<1>3. Setting /\ Mounting /\ Streaming
  BY DEF Init, Setting, Mounting, Streaming
<1> QED
  BY <1>1, <1>2, <1>3 DEF MailInv

(* What a call sends is not touched by steps that leave the decoder, the   *)
(* data path and the words alone.                                          *)
LEMMA CallRests ==
  ASSUME MailInv, UNCHANGED <<byte_cnt, cmd, outVars, dataVars, pc, words, arg>>
  PROVE  Setting' /\ Mounting' /\ Streaming'
<1>1. Setting' /\ Mounting'
  BY DEF MailInv, Setting, Mounting, outVars
<1>2. Streaming'
  BY DEF MailInv, Streaming, dataVars
<1> QED
  BY <1>1, <1>2

LEMMA PostKeeps ==
  ASSUME MailInv, NEW kind \in Kinds, Post(kind) PROVE MailInv'
<1> USE DEF MailInv
<1>1. /\ cd_in' \in [1..7 -> Nat] /\ posted' \in Nat /\ req' \in 0..ReqMod-1
  <2>1. cd_in' \in [1..7 -> Nat] /\ posted' \in Nat
    BY DEF MailTypes, Post
  <2>2. req' \in 0..ReqMod-1
    BY Counter DEF MailTypes, Post
  <2> QED
    BY <2>1, <2>2
<1>2. MailTypes'
  BY <1>1 DEF MailTypes, Post, outVars, dataVars
<1>3. req' # last_req'
  BY DEF Post, CounterHasRoom
<1>4. AtRest' /\ Polling' /\ TornIsReread'
  BY <1>3 DEF AtRest, Polling, TornIsReread, Post, dataVars
<1>5. Setting' /\ Mounting' /\ Streaming'
  BY CallRests DEF Post
<1> QED
  BY <1>2, <1>4, <1>5

(* A word that is not one of a block leaves the FIFO alone.                *)
LEMMA WordTaken ==
  ASSUME MailTypes, NEW w \in Nat, TakeWord(w)
  PROVE  /\ byte_cnt' = byte_cnt + 1 /\ byte_cnt' \in Nat
         /\ cmd' = (IF byte_cnt = 0 THEN w ELSE cmd) /\ cmd' \in Nat
         /\ cd_out' \in Seq(Nat) /\ Len(cd_out') = 2
         /\ cmd' # UIO_CD_SET => cd_out' = cd_out
         /\ byte_cnt = 0 \/ cmd # UIO_CD_DATA => fifo' = fifo
         /\ stat' = stat
<1>1. /\ byte_cnt' = byte_cnt + 1 /\ byte_cnt' \in Nat
      /\ cmd' = (IF byte_cnt = 0 THEN w ELSE cmd) /\ cmd' \in Nat
  BY DEF TakeWord, MailTypes
<1>2. cd_out' \in Seq(Nat) /\ Len(cd_out') = 2 /\ (cmd' # UIO_CD_SET => cd_out' = cd_out)
  <2>1. CASE cmd = UIO_CD_SET /\ byte_cnt \in 1..2
    <3>1. cd_out' = [cd_out EXCEPT ![byte_cnt] = w] /\ byte_cnt # 0
      BY <2>1 DEF TakeWord, TakeSet
    <3>2. cd_out \in Seq(Nat) /\ byte_cnt \in 1..Len(cd_out) /\ Len(cd_out) = 2
      BY <2>1 DEF MailTypes
    <3>3. [cd_out EXCEPT ![byte_cnt] = w] \in Seq(Nat) /\ Len([cd_out EXCEPT ![byte_cnt] = w]) = 2
      BY <2>1, <3>2, OneOfTwo
    <3> QED
      BY <1>1, <2>1, <3>1, <3>3
  <2>2. CASE ~(cmd = UIO_CD_SET /\ byte_cnt \in 1..2)
    BY <2>2 DEF TakeWord, TakeSet, MailTypes
  <2> QED
    BY <2>1, <2>2
<1>3. byte_cnt = 0 \/ cmd # UIO_CD_DATA => fifo' = fifo
  BY DEF TakeWord, TakeData, BlockBegins, NoData, dataVars
<1>4. stat' = stat
  BY DEF TakeWord, TakeSet
<1> QED
  BY <1>1, <1>2, <1>3, <1>4

LEMMA PollCounterKeeps ==
  ASSUME MailInv, PollCounter PROVE MailInv'
<1> USE DEF MailInv
<1>1. CASE req # last_req
  <2>1. TakeWord(UIO_CD_GET) /\ UIO_CD_GET \in Nat
    BY <1>1 DEF PollCounter
  <2>2. /\ last_req' = req /\ data_in' = <<>> /\ recent' = {cd_in}
        /\ pc = "loop" /\ pc' = "message"
        /\ UNCHANGED <<cd_in, posted, req, words, arg, acted>>
    BY <1>1 DEF PollCounter, mailVars
  <2>3. byte_cnt = 0 /\ fifo = <<>>
    BY <2>2 DEF AtRest
  <2>4. /\ byte_cnt' = 1 /\ cmd' = UIO_CD_GET /\ fifo' = fifo
        /\ cd_out' \in Seq(Nat) /\ Len(cd_out') = 2
    BY <2>1, <2>3, WordTaken
  <2>5. MailTypes'
    BY <2>2, <2>4 DEF MailTypes
  <2>6. AtRest' /\ Polling' /\ TornIsReread'
    BY <2>2, <2>3, <2>4 DEF AtRest, Polling, TornIsReread
  <2>7. Setting' /\ Mounting' /\ Streaming'
    BY <2>2 DEF Setting, Mounting, Streaming
  <2> QED
    BY <2>5, <2>6, <2>7
<1>2. CASE req = last_req
  <2>1. UNCHANGED vars
    BY <1>2 DEF PollCounter, vars, mailVars, outVars, dataVars, pollVars
  <2>2. MailTypes'
    BY <2>1 DEF vars, mailVars, outVars, dataVars, pollVars, MailTypes
  <2>3. AtRest' /\ Polling' /\ TornIsReread'
    BY <2>1 DEF vars, mailVars, outVars, dataVars, pollVars, AtRest, Polling, TornIsReread
  <2>4. Setting' /\ Mounting' /\ Streaming'
    BY <2>1, CallRests DEF vars
  <2> QED
    BY <2>2, <2>3, <2>4
<1> QED
  BY <1>1, <1>2

LEMMA ReadWordKeeps ==
  ASSUME MailInv, ReadWord PROVE MailInv'
<1> USE DEF MailInv
<1>1. /\ pc = "message" /\ Len(data_in) < 7 /\ TakeWord(0)
      /\ data_in' = Append(data_in, cd_in[byte_cnt])
      /\ UNCHANGED <<cd_in, posted, req, pc, words, arg, last_req, recent, acted>>
  BY DEF ReadWord, mailVars
<1>2. byte_cnt = Len(data_in) + 1 /\ cmd = UIO_CD_GET /\ Len(data_in) \in Nat
  BY <1>1 DEF Polling, MailTypes
<1>3. cd_in[byte_cnt] \in Nat
  <2>1. byte_cnt \in 1..7
    BY <1>1, <1>2
  <2>2. cd_in \in [1..7 -> Nat]
    BY DEF MailTypes
  <2> QED
    BY <2>1, <2>2
<1>4. /\ data_in' \in Seq(Nat) /\ Len(data_in') = Len(data_in) + 1
      /\ \A i \in 1..Len(data_in) : data_in'[i] = data_in[i]
      /\ data_in'[Len(data_in) + 1] = cd_in[byte_cnt]
  BY <1>1, <1>3 DEF MailTypes
<1>5. /\ byte_cnt' = byte_cnt + 1 /\ byte_cnt' \in Nat /\ cmd' = UIO_CD_GET
      /\ cd_out' \in Seq(Nat) /\ Len(cd_out') = 2 /\ fifo' = fifo
  BY <1>1, <1>2, WordTaken
<1>6. MailTypes'
  BY <1>1, <1>4, <1>5 DEF MailTypes
<1>7. Polling'
  BY <1>1, <1>2, <1>4, <1>5 DEF Polling
<1>8. AtRest' /\ TornIsReread'
  BY <1>1, <1>5 DEF AtRest, TornIsReread
<1>9. Setting' /\ Mounting' /\ Streaming'
  BY <1>1 DEF Setting, Mounting, Streaming
<1> QED
  BY <1>6, <1>7, <1>8, <1>9

(* A whole poll in which no other message came has read the one that is    *)
(* there.                                                                  *)
LEMMA ActKeeps ==
  ASSUME MailInv, ActOnMessage PROVE MailInv'
<1> USE DEF MailInv
<1>1. /\ pc = "message" /\ pc' = "loop" /\ Len(data_in) = 7
      /\ acted' = [msg |-> data_in, whole |-> data_in \in recent]
      /\ data_in' = <<>> /\ recent' = {}
      /\ byte_cnt' = 0 /\ cmd' = 0 /\ cd_out' = cd_out
      /\ UNCHANGED <<cd_in, posted, req, fifo, words, arg, last_req>>
  BY DEF ActOnMessage, DeselectIO, mailVars
<1>2. acted'.whole = (data_in \in recent) /\ acted'.whole \in BOOLEAN
  BY <1>1
<1>3. ASSUME req = last_req PROVE data_in \in recent
  <2>1. cd_in \in recent /\ \A i \in 1..7 : data_in[i] = cd_in[i]
    BY <1>1, <1>3 DEF Polling
  <2>2. data_in = [i \in 1..7 |-> data_in[i]] /\ cd_in = [i \in 1..7 |-> cd_in[i]]
    BY <1>1 DEF MailTypes
  <2>3. data_in = cd_in
    BY <2>1, <2>2
  <2> QED
    BY <2>1, <2>3
<1>4. MailTypes'
  BY <1>1, <1>2 DEF MailTypes
<1>5. TornIsReread'
  BY <1>1, <1>2, <1>3 DEF TornIsReread
<1>6. AtRest' /\ Polling'
  BY <1>1 DEF AtRest, Polling
<1>7. Setting' /\ Mounting' /\ Streaming'
  BY <1>1 DEF Setting, Mounting, Streaming
<1> QED
  BY <1>4, <1>5, <1>6, <1>7
-----------------------------------------------------------------------------
LEMMA TwoWords ==
  ASSUME NEW a \in Nat, NEW b \in Nat
  PROVE  <<a, b>> \in Seq(Nat) /\ <<a, b>> # <<>> /\ Head(<<a, b>>) = a
OBVIOUS

(* A call has sent nothing yet.                                            *)
LEMMA CallBegins ==
  ASSUME MailInv, NEW f, NEW a, Call(f, a), f.words \in Seq(Nat),
         a[1] \in {"set", "mount", "data"}
  PROVE  /\ MailTypes' /\ AtRest' /\ Polling' /\ TornIsReread'
         /\ pc' = "send" /\ byte_cnt' = 0 /\ fifo' = <<>> /\ words' = f.words /\ arg' = a
<1> USE DEF MailInv
<1>1. /\ pc = "loop" /\ pc' = "send" /\ words' = f.words /\ arg' = a
      /\ UNCHANGED <<cd_in, posted, req, byte_cnt, cmd, cd_out, fifo, last_req, data_in,
                     recent, acted>>
  BY DEF Call, mailVars, outVars, dataVars, pollVars
<1>2. byte_cnt' = 0 /\ fifo' = <<>>
  BY <1>1 DEF AtRest
<1>3. MailTypes'
  BY <1>1 DEF MailTypes
<1>4. AtRest' /\ Polling' /\ TornIsReread'
  BY <1>1 DEF AtRest, Polling, TornIsReread
<1> QED
  BY <1>1, <1>2, <1>3, <1>4

LEMMA SetBegins ==
  ASSUME MailInv, NEW s \in Nat, NEW r \in Nat,
         Call(Frame("io", <<UIO_CD_SET, s, r>>), <<"set", <<s, r>> >>)
  PROVE  MailInv'
<1> DEFINE a == <<"set", <<s, r>> >>
           f == Frame("io", <<UIO_CD_SET, s, r>>)
<1>1. a[1] = "set" /\ a[2] = <<s, r>> /\ a[2][1] = s /\ a[2][2] = r
  OBVIOUS
<1>2. f.words = <<UIO_CD_SET, s, r>> /\ f.words \in Seq(Nat)
  BY DEF Frame
<1>3. Call(f, a)
  OBVIOUS
<1> HIDE DEF a, f
<1>4. /\ MailTypes' /\ AtRest' /\ Polling' /\ TornIsReread'
      /\ pc' = "send" /\ byte_cnt' = 0 /\ fifo' = <<>> /\ words' = f.words /\ arg' = a
  BY <1>1, <1>2, <1>3, CallBegins
<1>5. Setting' /\ Mounting' /\ Streaming'
  BY <1>1, <1>2, <1>4 DEF Setting, Mounting, Streaming
<1> QED
  BY <1>4, <1>5 DEF MailInv

LEMMA MountBegins ==
  ASSUME MailInv, NEW load \in Mounts, notify_mount(load) PROVE MailInv'
<1> DEFINE a == <<"mount", load>>
           f == HPS_spi_uio_cmd8(UIO_SET_SDSTAT, load)
<1>1. a[1] = "mount"
  OBVIOUS
<1>2. f.words = <<UIO_SET_SDSTAT, load % 256>> /\ load % 256 \in Nat
  BY CallsAssumption DEF Frame, HPS_spi_uio_cmd8, Byte
<1>3. f.words \in Seq(Nat) /\ f.words # <<>> /\ Head(f.words) = UIO_SET_SDSTAT
  <2> DEFINE x == load % 256
  <2>1. x \in Nat /\ f.words = <<UIO_SET_SDSTAT, x>>
    BY <1>2
  <2> HIDE DEF x
  <2>2. /\ <<UIO_SET_SDSTAT, x>> \in Seq(Nat) /\ <<UIO_SET_SDSTAT, x>> # <<>>
        /\ Head(<<UIO_SET_SDSTAT, x>>) = UIO_SET_SDSTAT
    BY <2>1, TwoWords
  <2> QED
    BY <2>1, <2>2
<1>4. Call(f, a)
  BY DEF notify_mount
<1> HIDE DEF a, f
<1>5. /\ MailTypes' /\ AtRest' /\ Polling' /\ TornIsReread'
      /\ pc' = "send" /\ byte_cnt' = 0 /\ fifo' = <<>> /\ words' = f.words /\ arg' = a
  BY <1>1, <1>3, <1>4, CallBegins
<1>6. Setting' /\ Mounting' /\ Streaming'
  BY <1>1, <1>3, <1>5 DEF Setting, Mounting, Streaming
<1> QED
  BY <1>5, <1>6 DEF MailInv

LEMMA SendBlockBegins ==
  ASSUME MailInv, NEW b \in Blocks, SendBlock(b) PROVE MailInv'
<1> DEFINE a == <<"data", b>>
           f == HPS_io_file_tx_data(<<Len(b), 128>> \o b, UIO_CD_DATA)
<1>1. a[1] = "data" /\ a[2] = b
  OBVIOUS
<1>2. f.words = DataWords(b)
  BY DEF Frame, HPS_io_file_tx_data, HPS_spi_write, DataWords
<1>3. Call(f, a)
  BY DEF SendBlock
<1> HIDE DEF a, f
<1>4. f.words \in Seq(Nat)
  BY <1>2, WordsOfBlock
<1>5. /\ MailTypes' /\ AtRest' /\ Polling' /\ TornIsReread'
      /\ pc' = "send" /\ byte_cnt' = 0 /\ fifo' = <<>> /\ words' = f.words /\ arg' = a
  BY <1>1, <1>3, <1>4, CallBegins
<1>6. Setting' /\ Mounting'
  BY <1>1, <1>5 DEF Setting, Mounting
<1>7. Streaming'
  <2>1. byte_cnt' + Len(words') = Len(DataWords(b))
    BY <1>2, <1>4, <1>5
  <2>2. \A i \in 1..Len(words') : words'[i] = DataWords(b)[byte_cnt' + i]
    BY <1>2, <1>4, <1>5
  <2> QED
    BY <1>1, <1>5, <2>1, <2>2 DEF Streaming
<1> QED
  BY <1>5, <1>6, <1>7 DEF MailInv
-----------------------------------------------------------------------------
LEMMA EndCallKeeps ==
  ASSUME MailInv, EndCall PROVE MailInv'
<1> USE DEF MailInv
<1>1. /\ pc = "send" /\ pc' = "loop" /\ byte_cnt' = 0 /\ cmd' = 0 /\ cd_out' = cd_out
      /\ fifo' = <<>>
      /\ UNCHANGED <<cd_in, posted, req, words, last_req, data_in, acted>>
  BY DEF EndCall, DeselectIO, mailVars, pollVars
<1>2. MailTypes'
  BY <1>1 DEF MailTypes
<1>3. AtRest' /\ Polling' /\ TornIsReread'
  BY <1>1 DEF AtRest, Polling, TornIsReread
<1>4. Setting' /\ Mounting' /\ Streaming'
  BY <1>1 DEF Setting, Mounting, Streaming
<1> QED
  BY <1>2, <1>3, <1>4

(* What a word of a call does, but for the data path.                      *)
LEMMA SendWordBasics ==
  ASSUME MailInv, SendWord
  PROVE  /\ pc = "send" /\ words # <<>> /\ TakeWord(words[1]) /\ words[1] \in Nat
         /\ words' = Tail(words) /\ words' \in Seq(Nat) /\ Len(words') = Len(words) - 1
         /\ \A i \in 1..Len(words') : words'[i] = words[i + 1]
         /\ byte_cnt' = byte_cnt + 1 /\ byte_cnt' \in Nat
         /\ cmd' = (IF byte_cnt = 0 THEN words[1] ELSE cmd) /\ cmd' \in Nat
         /\ cd_out' \in Seq(Nat) /\ Len(cd_out') = 2
         /\ byte_cnt = 0 \/ cmd # UIO_CD_DATA => fifo' = fifo
         /\ UNCHANGED <<cd_in, posted, req, pc, arg, last_req, data_in, recent, acted>>
<1>1. /\ pc = "send" /\ words # <<>> /\ TakeWord(Head(words)) /\ words' = Tail(words)
      /\ UNCHANGED <<cd_in, posted, req, pc, arg, last_req, data_in, recent, acted>>
  BY DEF SendWord, mailVars, pollVars
<1>2. words \in Seq(Nat) /\ MailTypes
  BY DEF MailInv, MailTypes
<1>3. /\ Head(words) \in Nat /\ Head(words) = words[1] /\ Tail(words) \in Seq(Nat)
      /\ Len(Tail(words)) = Len(words) - 1
      /\ \A i \in 1..Len(Tail(words)) : Tail(words)[i] = words[i + 1]
  BY <1>1, <1>2, HeadTail
<1>4. TakeWord(words[1]) /\ words[1] \in Nat
  BY <1>1, <1>3
<1>5. /\ byte_cnt' = byte_cnt + 1 /\ byte_cnt' \in Nat
      /\ cmd' = (IF byte_cnt = 0 THEN words[1] ELSE cmd) /\ cmd' \in Nat
      /\ cd_out' \in Seq(Nat) /\ Len(cd_out') = 2
      /\ byte_cnt = 0 \/ cmd # UIO_CD_DATA => fifo' = fifo
  BY <1>2, <1>4, WordTaken
<1> QED
  BY <1>1, <1>3, <1>4, <1>5

LEMMA SettingKept ==
  ASSUME MailInv, SendWord, pc = "send", arg[1] = "set" PROVE Setting'
<1> DEFINE s == arg[2][1]
           r == arg[2][2]
<1>1. /\ pc = "send" /\ words # <<>> /\ TakeWord(words[1]) /\ words' = Tail(words)
      /\ byte_cnt' = byte_cnt + 1
      /\ cmd' = (IF byte_cnt = 0 THEN words[1] ELSE cmd)
      /\ arg' = arg
  BY SendWordBasics
<1>2. s \in Nat /\ r \in Nat /\ arg[2] = <<s, r>>
  BY <1>1 DEF MailInv, Setting
<1>3. /\ cd_out \in Seq(Nat) /\ Len(cd_out) = 2
      /\ cd_out' = IF cmd = UIO_CD_SET /\ byte_cnt \in 1..2
                   THEN [cd_out EXCEPT ![byte_cnt] = words[1]] ELSE cd_out
  BY <1>1 DEF TakeWord, TakeSet, MailInv, MailTypes
<1>4. \/ byte_cnt = 0 /\ words = <<UIO_CD_SET, s, r>>
      \/ byte_cnt = 1 /\ words = <<s, r>> /\ cmd = UIO_CD_SET
      \/ byte_cnt = 2 /\ words = <<r>> /\ cmd = UIO_CD_SET /\ cd_out[1] = s
  BY <1>1 DEF MailInv, Setting
<1> HIDE DEF s, r
<1>5. CASE byte_cnt = 0 /\ words = <<UIO_CD_SET, s, r>>
  <2>1. byte_cnt' = 1 /\ cmd' = UIO_CD_SET /\ words' = <<s, r>>
    BY <1>1, <1>2, <1>5, ThreeWords
  <2> QED
    BY <1>1, <1>2, <2>1 DEF Setting, s, r
<1>6. CASE byte_cnt = 1 /\ words = <<s, r>> /\ cmd = UIO_CD_SET
  <2>1. byte_cnt' = 2 /\ cmd' = UIO_CD_SET /\ words' = <<r>>
    BY <1>1, <1>2, <1>6, ThreeWords
  <2>2. cd_out'[1] = s
    BY <1>2, <1>3, <1>6
  <2> QED
    BY <1>1, <1>2, <2>1, <2>2 DEF Setting, s, r
<1>7. CASE byte_cnt = 2 /\ words = <<r>> /\ cmd = UIO_CD_SET /\ cd_out[1] = s
  <2>1. byte_cnt' = 3 /\ cmd' = UIO_CD_SET /\ words' = <<>>
    BY <1>1, <1>2, <1>7, ThreeWords
  <2>2. cd_out' = <<s, r>>
    BY <1>2, <1>3, <1>7
  <2> QED
    BY <1>1, <1>2, <2>1, <2>2 DEF Setting, s, r
<1> QED
  BY <1>4, <1>5, <1>6, <1>7

LEMMA MountingKept ==
  ASSUME MailInv, SendWord, pc = "send", arg[1] = "mount" PROVE Mounting'
<1>1. /\ pc = "send" /\ words # <<>> /\ words \in Seq(Nat)
      /\ byte_cnt' = byte_cnt + 1 /\ byte_cnt \in Nat
      /\ cmd' = (IF byte_cnt = 0 THEN words[1] ELSE cmd)
  BY SendWordBasics DEF MailInv, MailTypes
<1>2. byte_cnt = 0 => words[1] = UIO_SET_SDSTAT
  BY <1>1 DEF MailInv, Mounting
<1>3. byte_cnt # 0 => cmd = UIO_SET_SDSTAT
  BY <1>1 DEF MailInv, Mounting
<1> QED
  BY <1>1, <1>2, <1>3 DEF Mounting

LEMMA AppendOne ==
  ASSUME NEW s \in Seq(Octet), NEW x \in Octet
  PROVE  /\ s \o <<x>> \in Seq(Octet) /\ Len(s \o <<x>>) = Len(s) + 1
         /\ \A i \in 1..Len(s) : (s \o <<x>>)[i] = s[i]
         /\ (s \o <<x>>)[Len(s) + 1] = x
OBVIOUS

LEMMA AppendTwo ==
  ASSUME NEW s \in Seq(Octet), NEW x \in Octet, NEW y \in Octet
  PROVE  /\ s \o <<x, y>> \in Seq(Octet) /\ Len(s \o <<x, y>>) = Len(s) + 2
         /\ \A i \in 1..Len(s) : (s \o <<x, y>>)[i] = s[i]
         /\ (s \o <<x, y>>)[Len(s) + 1] = x /\ (s \o <<x, y>>)[Len(s) + 2] = y
OBVIOUS

(* A word of data while bytes are missing: two of them, or the last one.   *)
Carries(b, c, w) ==
  w = b[c + 1] + (IF c + 2 <= Len(b) THEN 256 * b[c + 2] ELSE 0)
Holds(f, b, c) ==
  Len(f) = c /\ \A i \in 1..c : f[i] = b[i]
Takes(b, c, w, f, g) ==
  g = f \o (IF c >= Len(b) - 1 THEN <<w % 256>> ELSE <<w % 256, w \div 256>>)
Brought(b, c, g) ==
  /\ g \in Seq(Octet)
  /\ Len(g) = IF c + 2 < Len(b) THEN c + 2 ELSE Len(b)
  /\ \A i \in 1..Len(g) : g[i] = b[i]

LEMMA BytesTaken ==
  ASSUME NEW b \in Blocks, NEW c \in Nat, c < Len(b), NEW w, Carries(b, c, w),
         NEW f \in Seq(Octet), Holds(f, b, c), NEW g, Takes(b, c, w, f, g)
  PROVE  Brought(b, c, g)
<1>0. /\ w = b[c + 1] + (IF c + 2 <= Len(b) THEN 256 * b[c + 2] ELSE 0)
      /\ Len(f) = c /\ \A i \in 1..c : f[i] = b[i]
      /\ g = f \o (IF c >= Len(b) - 1 THEN <<w % 256>> ELSE <<w % 256, w \div 256>>)
  BY DEF Carries, Holds, Takes
<1> DEFINE n == Len(b)
<1>1. n \in Nat /\ \A i \in 1..n : b[i] \in Octet
  BY CallsAssumption, BytesAreWords
<1>2. b[c + 1] \in Octet
  BY <1>1
<1> DEFINE x == b[c + 1]
           y == b[c + 2]
<1>a. n = Len(b) /\ c < n
  OBVIOUS
<1>b. /\ w = x + (IF c + 2 <= n THEN 256 * y ELSE 0)
      /\ g = f \o (IF c >= n - 1 THEN <<w % 256>> ELSE <<w % 256, w \div 256>>)
      /\ x \in Octet /\ (c + 2 <= n => y \in Octet)
      /\ Len(f) = c /\ \A i \in 1..c : f[i] = b[i]
  BY <1>0, <1>1
<1>c. x = b[c + 1] /\ y = b[c + 2]
  OBVIOUS
<1> HIDE DEF x, y, n
<1>3. CASE c >= n - 1
  <2>1. c + 1 = n /\ ~(c + 2 <= n)
    BY <1>1, <1>3, <1>a
  <2>a. x \in 0..255
    BY <1>b, Octets
  <2>2. w = x
    <3>1. w = x + 0
      BY <1>b, <2>1
    <3> QED
      BY <2>a, <3>1, SmallWord
  <2>3. w % 256 = x
    <3>2. x % 256 = x
      BY <2>a, SmallWord
    <3> QED
      BY <2>2, <3>2
  <2>4. g = f \o <<x>>
    BY <1>3, <1>b, <2>3
  <2>5. /\ f \o <<x>> \in Seq(Octet) /\ Len(f \o <<x>>) = Len(f) + 1
        /\ \A i \in 1..Len(f) : (f \o <<x>>)[i] = f[i]
        /\ (f \o <<x>>)[Len(f) + 1] = x
    BY <1>b, AppendOne
  <2>6. g \in Seq(Octet) /\ Len(g) = c + 1 /\ g[c + 1] = b[c + 1]
    BY <1>b, <2>4, <2>5, <1>c
  <2>7. \A i \in 1..c : g[i] = b[i]
    BY <1>b, <2>4, <2>5
  <2>8. \A i \in 1..c + 1 : g[i] = b[i]
    BY <2>6, <2>7
  <2>9. Len(g) = IF c + 2 < n THEN c + 2 ELSE n
    <3>1. Len(g) = c + 1 /\ c + 1 = n /\ ~(c + 2 < n)
      BY <1>1, <2>1, <2>6
    <3> QED
      BY <3>1
  <2>10. \A i \in 1..Len(g) : g[i] = b[i]
    BY <2>6, <2>8
  <2> QED
    BY <1>a, <2>6, <2>9, <2>10 DEF Brought
<1>4. CASE ~(c >= n - 1)
  <2>1. c + 2 <= n /\ y \in Octet
    BY <1>1, <1>4, <1>b
  <2>2. w = x + 256 * y
    BY <1>b, <2>1
  <2>3. w % 256 = x /\ w \div 256 = y
    <3>1. x \in 0..255 /\ y \in 0..255
      BY <1>b, <2>1, Octets, SMTT(20)
    <3>2. (x + 256 * y) % 256 = x /\ (x + 256 * y) \div 256 = y
      BY <3>1, BytesOfWord
    <3> QED
      BY <2>2, <3>2
  <2>4. g = f \o <<x, y>>
    BY <1>4, <1>b, <2>3, ZenonT(20)
  <2>5. /\ f \o <<x, y>> \in Seq(Octet) /\ Len(f \o <<x, y>>) = Len(f) + 2
        /\ \A i \in 1..Len(f) : (f \o <<x, y>>)[i] = f[i]
        /\ (f \o <<x, y>>)[Len(f) + 1] = x /\ (f \o <<x, y>>)[Len(f) + 2] = y
    BY <1>b, <2>1, AppendTwo
  <2>6. /\ g \in Seq(Octet) /\ Len(g) = c + 2
        /\ g[c + 1] = b[c + 1] /\ g[c + 2] = b[c + 2]
    BY <1>b, <2>4, <2>5, <1>c
  <2>7. \A i \in 1..c : g[i] = b[i]
    BY <1>b, <2>4, <2>5
  <2>8. \A i \in 1..c + 2 : g[i] = b[i]
    <3> TAKE i \in 1..c + 2
    <3>1. i \in 1..c \/ i = c + 1 \/ i = c + 2
      OBVIOUS
    <3> QED
      BY <2>6, <2>7, <3>1
  <2>9. Len(g) = IF c + 2 < n THEN c + 2 ELSE n
    <3>1. c + 2 < n \/ c + 2 = n
      BY <1>1, <2>1
    <3> QED
      BY <2>6, <3>1
  <2>10. \A i \in 1..Len(g) : g[i] = b[i]
    BY <2>6, <2>8
  <2> QED
    BY <1>a, <2>6, <2>9, <2>10 DEF Brought
<1> QED
  BY <1>3, <1>4

(* Streaming after the length has been sent.                               *)
LEMMA StreamingIs ==
  ASSUME NEW b \in Blocks, NEW all, arg'[2] = b, all = DataWords(b),
         byte_cnt' + Len(words') = Len(all),
         \A i \in 1..Len(words') : words'[i] = all[byte_cnt' + i],
         byte_cnt' >= 2, cmd' = UIO_CD_DATA, head_pos', cd_dat_len' = Len(b),
         cd_dat_cnt' = IF 2 * (byte_cnt' - 2) < Len(b) THEN 2 * (byte_cnt' - 2) ELSE Len(b),
         Len(fifo') = cd_dat_cnt', \A i \in 1..cd_dat_cnt' : fifo'[i] = b[i],
         byte_cnt' \in Nat
  PROVE  Streaming'
<1>1. byte_cnt' # 1 /\ ~(byte_cnt' < 2)
  OBVIOUS
<1> QED
  BY <1>1 DEF Streaming

LEMMA StreamingKept ==
  ASSUME MailInv, SendWord, pc = "send", arg[1] = "data"
  PROVE  Streaming' /\ fifo' \in Seq(Octet)
<1> DEFINE b == arg[2]
           n == byte_cnt
           w == words[1]
           all == DataWords(b)
<1>1. /\ words # <<>> /\ TakeWord(w) /\ arg' = arg /\ pc' = "send"
      /\ words' \in Seq(Nat) /\ Len(words') = Len(words) - 1
      /\ \A i \in 1..Len(words') : words'[i] = words[i + 1]
      /\ byte_cnt' = n + 1 /\ cmd' = IF n = 0 THEN w ELSE cmd
      /\ n = 0 => fifo' = fifo
  BY SendWordBasics
<1>2. /\ b \in Blocks /\ n + Len(words) = Len(all)
      /\ \A i \in 1..Len(words) : words[i] = all[n + i]
      /\ n >= 1 => cmd = UIO_CD_DATA
  BY DEF MailInv, Streaming
<1>3. /\ words \in Seq(Nat) /\ Len(words) \in Nat \ {0} /\ n \in Nat /\ fifo \in Seq(Octet)
  BY <1>1 DEF MailInv, MailTypes
<1>4. /\ Len(all) = 2 + (Len(b) + 1) \div 2
      /\ all[1] = UIO_CD_DATA /\ all[2] % 4096 = Len(b)
      /\ \A k \in 3..Len(all) :
           all[k] = b[2*k - 5] + (IF 2*k - 4 <= Len(b) THEN 256 * b[2*k - 4] ELSE 0)
  <2>1. b \in Blocks
    BY <1>2
  <2> HIDE DEF b
  <2> QED
    BY <2>1, WordsOfBlock
<1>5. Len(b) \in Nat
  BY <1>2, CallsAssumption, BytesAreWords
<1>6. w = all[n + 1] /\ n + 1 <= Len(all)
  BY <1>2, <1>3
<1>7. /\ byte_cnt' + Len(words') = Len(all)
      /\ \A i \in 1..Len(words') : words'[i] = all[byte_cnt' + i]
  <2>1. byte_cnt' + Len(words') = Len(all)
    BY <1>1, <1>2, <1>3, SMTT(20)
  <2>2. ASSUME NEW i \in 1..Len(words') PROVE words'[i] = all[byte_cnt' + i]
    <3>1. i + 1 \in 1..Len(words) /\ n + (i + 1) = (n + 1) + i
      BY <1>1, <1>3
    <3> QED
      BY <1>1, <1>2, <2>2, <3>1
  <2> QED
    BY <2>1, <2>2
<1>8. byte_cnt' >= 1 /\ cmd' = UIO_CD_DATA
  BY <1>1, <1>2, <1>3, <1>4, <1>6
<1>a. pc' = "send" /\ arg'[2] = b /\ b \in Blocks /\ all = DataWords(b)
  BY <1>1, <1>2
<1> HIDE DEF b, n, w, all
<1>9. CASE n = 0
  <2>1. ~head_pos' /\ fifo' = fifo
    BY <1>1, <1>4, <1>6, <1>9 DEF TakeWord, TakeData, BlockBegins, TakeLength, NoData, n
  <2>2. fifo = <<>>
    BY <1>9 DEF MailInv, Streaming, n
  <2>3. byte_cnt' = 1
    BY <1>1, <1>9
  <2> QED
    BY <1>1, <1>2, <1>3, <1>7, <1>8, <2>1, <2>2, <2>3 DEF Streaming, b, all
<1>10. CASE n = 1
  <2>1. ~head_pos /\ fifo = <<>> /\ cmd = UIO_CD_DATA
    BY <1>2, <1>10 DEF MailInv, Streaming, n
  <2>2. head_pos' = TRUE /\ cd_dat_len' = w % 4096 /\ cd_dat_cnt' = 0 /\ fifo' = fifo
    BY <1>1, <1>10, <2>1 DEF TakeWord, TakeData, BlockBegins, TakeLength, NoData, n
  <2>3. cd_dat_len' = Len(b) /\ byte_cnt' = 2 /\ byte_cnt' >= 2 /\ byte_cnt' \in Nat
    BY <1>1, <1>4, <1>6, <1>10, <2>2
  <2>4. /\ cd_dat_cnt' = IF 2 * (byte_cnt' - 2) < Len(b) THEN 2 * (byte_cnt' - 2) ELSE Len(b)
        /\ Len(fifo') = cd_dat_cnt' /\ \A i \in 1..cd_dat_cnt' : fifo'[i] = b[i]
    BY <1>5, <2>1, <2>2, <2>3
  <2>5. fifo' \in Seq(Octet)
    BY <1>3, <2>2
  <2> QED
    BY <1>a, <1>7, <1>8, <2>2, <2>3, <2>4, <2>5, StreamingIs
<1>11. CASE n >= 2
  <2> DEFINE c == 2 * (n - 2)
  <2>1. c \in Nat /\ c < Len(b)
    BY <1>3, <1>4, <1>5, <1>6, <1>11
  <2>2. /\ head_pos /\ cd_dat_len = Len(b) /\ cd_dat_cnt = c /\ cmd = UIO_CD_DATA
        /\ Len(fifo) = c /\ \A i \in 1..c : fifo[i] = b[i]
    <3>1. /\ head_pos /\ cd_dat_len = Len(b)
          /\ cd_dat_cnt = IF c < Len(b) THEN c ELSE Len(b)
          /\ Len(fifo) = cd_dat_cnt /\ \A i \in 1..cd_dat_cnt : fifo[i] = b[i]
      BY <1>11 DEF MailInv, Streaming, n, b
    <3>2. cd_dat_cnt = c
      BY <2>1, <3>1
    <3>3. cmd = UIO_CD_DATA
      BY <1>2, <1>3, <1>11
    <3> QED
      BY <3>1, <3>2, <3>3
  <2>3. w = b[c + 1] + (IF c + 2 <= Len(b) THEN 256 * b[c + 2] ELSE 0)
    <3>1. n + 1 \in 3..Len(all)
      BY <1>3, <1>5, <1>4, <1>6, <1>11
    <3>2. all[n + 1] = b[2*(n + 1) - 5]
                         + (IF 2*(n + 1) - 4 <= Len(b) THEN 256 * b[2*(n + 1) - 4] ELSE 0)
      BY <1>4, <3>1
    <3>3. 2*(n + 1) - 5 = c + 1 /\ 2*(n + 1) - 4 = c + 2
      BY <1>3
    <3> QED
      BY <1>6, <3>2, <3>3
  <2> DEFINE bytes == IF c >= Len(b) - 1 THEN <<w % 256>> ELSE <<w % 256, w \div 256>>
  <2>4. /\ fifo' = fifo \o bytes /\ head_pos' = head_pos /\ cd_dat_len' = cd_dat_len
        /\ cd_dat_cnt' = cd_dat_cnt + Len(bytes)
    <3>1. n # 0 /\ cd_dat_cnt \in Nat /\ cd_dat_len \in Nat /\ cd_dat_cnt < cd_dat_len
      BY <1>3, <1>5, <1>11, <2>1, <2>2
    <3>2. TakeData(w)
      BY <1>1, <2>2, <3>1 DEF TakeWord, NoData, n
    <3>3. BytesIn(w) = bytes
      BY <2>2 DEF BytesIn
    <3>4. byte_cnt # 0 /\ head_pos
      BY <2>2, <3>1 DEF n
    <3>5. ~(cd_dat_cnt >= cd_dat_len)
      BY <3>1
    <3>6. /\ fifo' = fifo \o BytesIn(w) /\ cd_dat_cnt' = cd_dat_cnt + Len(BytesIn(w))
          /\ UNCHANGED <<head_pos, cd_dat_len>>
      BY <3>2, <3>4, <3>5, DataTaken, Zenon DEF TakeBytes
    <3> HIDE DEF bytes
    <3> QED
      BY <3>3, <3>6
  <2>5. /\ fifo' \in Seq(Octet)
        /\ Len(fifo') = IF c + 2 < Len(b) THEN c + 2 ELSE Len(b)
        /\ \A i \in 1..Len(fifo') : fifo'[i] = b[i]
    <3>1. Takes(b, c, w, fifo, fifo')
      BY <2>4 DEF Takes
    <3>2. b \in Blocks /\ fifo \in Seq(Octet) /\ c \in Nat /\ c < Len(b)
      BY <1>2, <1>3, <2>1
    <3>3. Carries(b, c, w) /\ Holds(fifo, b, c)
      BY <2>2, <2>3 DEF Carries, Holds
    <3> HIDE DEF c, bytes
    <3>4. Brought(b, c, fifo')
      BY <3>1, <3>2, <3>3, BytesTaken
    <3> QED
      BY <3>4 DEF Brought
  <2>6. cd_dat_cnt' = IF c + 2 < Len(b) THEN c + 2 ELSE Len(b)
    <3>1. Len(bytes) = IF c >= Len(b) - 1 THEN 1 ELSE 2
      OBVIOUS
    <3> HIDE DEF bytes, c
    <3> QED
      BY <1>5, <2>1, <2>2, <2>4, <3>1
  <2>7. 2 * (byte_cnt' - 2) = c + 2 /\ byte_cnt' >= 2 /\ byte_cnt' \in Nat
    BY <1>1, <1>3, <1>11
  <2> HIDE DEF c, bytes
  <2>8. /\ cd_dat_cnt' = IF 2 * (byte_cnt' - 2) < Len(b) THEN 2 * (byte_cnt' - 2) ELSE Len(b)
        /\ Len(fifo') = cd_dat_cnt' /\ \A i \in 1..cd_dat_cnt' : fifo'[i] = b[i]
    BY <2>5, <2>6, <2>7
  <2>9. head_pos' /\ cd_dat_len' = Len(b)
    BY <2>2, <2>4
  <2> QED
    BY <1>a, <1>7, <1>8, <2>5, <2>7, <2>8, <2>9, StreamingIs
<1> QED
  BY <1>3, <1>9, <1>10, <1>11

LEMMA SendWordKeeps ==
  ASSUME MailInv, SendWord PROVE MailInv'
<1>1. /\ pc = "send" /\ words' \in Seq(Nat)
      /\ byte_cnt' \in Nat /\ cmd' \in Nat /\ cd_out' \in Seq(Nat) /\ Len(cd_out') = 2
      /\ byte_cnt = 0 \/ cmd # UIO_CD_DATA => fifo' = fifo
      /\ UNCHANGED <<cd_in, posted, req, pc, arg, last_req, data_in, recent, acted>>
  BY SendWordBasics
<1>2. MailTypes /\ arg[1] \in {"set", "mount", "data"} /\ fifo \in Seq(Octet)
  BY <1>1 DEF MailInv, MailTypes
<1>3. fifo' \in Seq(Octet) /\ Setting' /\ Mounting' /\ Streaming'
  <2>1. CASE arg[1] = "set"
    <3>1. byte_cnt = 0 \/ cmd = UIO_CD_SET
      BY <1>1, <2>1 DEF MailInv, Setting
    <3>2. Setting'
      BY <1>1, <2>1, SettingKept
    <3> QED
      BY <1>1, <1>2, <2>1, <3>1, <3>2 DEF Mounting, Streaming
  <2>2. CASE arg[1] = "mount"
    <3>1. byte_cnt = 0 \/ cmd = UIO_SET_SDSTAT
      BY <1>1, <2>2 DEF MailInv, Mounting
    <3>2. Mounting'
      BY <1>1, <2>2, MountingKept
    <3> QED
      BY <1>1, <1>2, <2>2, <3>1, <3>2 DEF Setting, Streaming
  <2>3. CASE arg[1] = "data"
    <3>1. Streaming' /\ fifo' \in Seq(Octet)
      BY <1>1, <2>3, StreamingKept
    <3> QED
      BY <1>1, <2>3, <3>1 DEF Setting, Mounting
  <2> QED
    BY <1>2, <2>1, <2>2, <2>3
<1>4. MailTypes'
  BY <1>1, <1>2, <1>3 DEF MailTypes
<1>5. AtRest' /\ Polling' /\ TornIsReread'
  BY <1>1 DEF MailInv, AtRest, Polling, TornIsReread
<1> QED
  BY <1>3, <1>4, <1>5 DEF MailInv

LEMMA StutterKeeps ==
  ASSUME MailInv, UNCHANGED vars PROVE MailInv'
<1> USE DEF MailInv, vars
<1>1. MailTypes'
  BY DEF MailTypes, mailVars, outVars, dataVars, pollVars
<1>2. AtRest' /\ Polling' /\ TornIsReread'
  BY DEF AtRest, Polling, TornIsReread, mailVars, dataVars, pollVars
<1>3. Setting' /\ Mounting' /\ Streaming'
  BY CallRests
<1> QED
  BY <1>1, <1>2, <1>3

(* The decoder's invariant: at rest between calls, and within a call the   *)
(* words taken so far are those of the call, in order.                     *)
THEOREM MailInvariant == Spec => []MailInv
<1>1. ASSUME MailInv, [Next]_vars PROVE MailInv'
  <2>1. CASE UNCHANGED vars
    BY <1>1, <2>1, StutterKeeps
  <2>2. ASSUME NEW k \in Kinds, Post(k) PROVE MailInv'
    BY <1>1, <2>2, PostKeeps
  <2>3. CASE PollCounter \/ ReadWord \/ ActOnMessage \/ SendWord \/ EndCall
    BY <1>1, <2>3, PollCounterKeeps, ReadWordKeeps, ActKeeps, SendWordKeeps, EndCallKeeps
  <2>4. ASSUME NEW s \in Statuses, NEW r \in Regions, SendStatus(s, r) PROVE MailInv'
    <3> DEFINE v == IF r THEN 2 ELSE 0
    <3>1. s \in Nat /\ v \in Nat
      BY CallsAssumption
    <3>2. Call(Frame("io", <<UIO_CD_SET, s, v>>), <<"set", <<s, v>> >>)
      BY <2>4 DEF SendStatus
    <3> HIDE DEF v
    <3> QED
      BY <1>1, <3>1, <3>2, SetBegins
  <2>5. ASSUME NEW r \in Regions, SendDataRequest(r) PROVE MailInv'
    <3> DEFINE v == (IF r THEN 2 ELSE 0) + 1
    <3>1. 0 \in Nat /\ v \in Nat
      OBVIOUS
    <3>2. Call(Frame("io", <<UIO_CD_SET, 0, v>>), <<"set", <<0, v>> >>)
      BY <2>5 DEF SendDataRequest
    <3> HIDE DEF v
    <3> QED
      BY <1>1, <3>1, <3>2, SetBegins
  <2>6. ASSUME NEW load \in Mounts, notify_mount(load) PROVE MailInv'
    BY <1>1, <2>6, MountBegins
  <2>7. ASSUME NEW b \in Blocks, SendBlock(b) PROVE MailInv'
    BY <1>1, <2>7, SendBlockBegins
  <2> HIDE DEF Kinds
  <2> QED
    BY <1>1, <2>1, <2>2, <2>3, <2>4, <2>5, <2>6, <2>7 DEF Next, Firmware
<1> QED
  BY <1>1, InitMail, PTL DEF Spec

(* A message put together from two posts is never the last word of the     *)
(* mailbox: whatever the moments at which main.sv replaces it, pcecd_poll  *)
(* reads again.                                                            *)
THEOREM TornHolds == Spec => []TornIsReread
<1>1. MailInv => TornIsReread
  BY DEF MailInv
<1> QED
  BY <1>1, MailInvariant, PTL

(* The FIFO has received exactly the bytes of the block when the call has  *)
(* sent its words, for every block of fewer than 4096 bytes.               *)
THEOREM BlockTakenWhole == Spec => []BlockWhole
<1>1. ASSUME MailInv PROVE BlockWhole
  <2> SUFFICES ASSUME pc = "send", words = <<>>, arg[1] = "data" PROVE fifo = arg[2]
    BY DEF BlockWhole
  <2> DEFINE b == arg[2]
  <2>1. /\ b \in Blocks /\ byte_cnt + Len(words) = Len(DataWords(b))
        /\ byte_cnt >= 2 =>
             /\ cd_dat_cnt = IF 2 * (byte_cnt - 2) < Len(b) THEN 2 * (byte_cnt - 2) ELSE Len(b)
             /\ Len(fifo) = cd_dat_cnt /\ \A i \in 1..cd_dat_cnt : fifo[i] = b[i]
    BY <1>1 DEF MailInv, Streaming
  <2>2. byte_cnt \in Nat /\ fifo \in Seq(Octet) /\ Len(words) = 0
    BY <1>1 DEF MailInv, MailTypes
  <2>3. b \in Seq(Octet) /\ Len(b) \in Nat
    BY <2>1, CallsAssumption, BytesAreWords
  <2> HIDE DEF b
  <2>4. byte_cnt = 2 + (Len(b) + 1) \div 2
    BY <2>1, <2>2, WordsOfBlock
  <2>5. byte_cnt >= 2 /\ ~(2 * (byte_cnt - 2) < Len(b))
    BY <2>3, <2>4
  <2>6. Len(fifo) = Len(b) /\ \A i \in 1..Len(b) : fifo[i] = b[i]
    BY <2>1, <2>5
  <2>7. fifo = b
    BY <2>2, <2>3, <2>6, SeqEqual
  <2> QED
    BY <2>7 DEF b
<1> QED
  BY <1>1, MailInvariant, PTL

(* A step that is not the end of a status call leaves what main.sv holds   *)
(* of the status alone; that end takes over the two words of the call.     *)
THEOREM StatusTakenWhole == Spec => StatusWhole
<1>1. ASSUME MailInv, [Next]_vars
      PROVE  [IF EndCall /\ arg[1] = "set" THEN stat' = arg[2] ELSE stat' = stat]_vars
  <2> SUFFICES IF EndCall /\ arg[1] = "set" THEN stat' = arg[2] ELSE stat' = stat
    OBVIOUS
  <2>1. CASE EndCall
    <3>1. pc = "send" /\ words = <<>> /\ stat' = IF cmd = UIO_CD_SET THEN cd_out ELSE stat
      BY <2>1 DEF EndCall, DeselectIO
    <3>2. CASE arg[1] = "set"
      <4>1. cmd = UIO_CD_SET /\ cd_out = arg[2]
        BY <1>1, <3>1, <3>2 DEF MailInv, Setting
      <4> QED
        BY <2>1, <3>1, <3>2, <4>1
    <3>3. CASE arg[1] = "mount"
      <4>1. cmd = UIO_SET_SDSTAT
        BY <1>1, <3>1, <3>3 DEF MailInv, Mounting
      <4> QED
        BY <3>1, <3>3, <4>1
    <3>4. CASE arg[1] = "data"
      <4>1. /\ arg[2] \in Blocks /\ byte_cnt \in Nat
            /\ byte_cnt + Len(words) = Len(DataWords(arg[2]))
            /\ byte_cnt >= 1 => cmd = UIO_CD_DATA
        BY <1>1, <3>1, <3>4 DEF MailInv, MailTypes, Streaming
      <4> DEFINE b == arg[2]
                 n == Len(b)
                 m == Len(DataWords(b))
      <4>2. n \in Nat /\ m = 2 + (n + 1) \div 2 /\ b \in Blocks /\ byte_cnt + Len(words) = m
        <5>1. b \in Blocks /\ byte_cnt + Len(words) = m
          BY <4>1
        <5> HIDE DEF b
        <5> QED
          BY <5>1, WordsOfBlock, CallsAssumption, BytesAreWords
      <4> HIDE DEF b, n, m
      <4>3. cmd = UIO_CD_DATA
        <5>1. Len(words) = 0
          BY <3>1
        <5>2. m >= 1
          BY <4>2
        <5> QED
          BY <4>1, <4>2, <5>1, <5>2
      <4> QED
        BY <3>1, <3>4, <4>3
    <3> QED
      BY <1>1, <3>1, <3>2, <3>3, <3>4 DEF MailInv, MailTypes
  <2>2. CASE ActOnMessage
    <3>1. pc = "message" /\ cmd = UIO_CD_GET
      BY <1>1, <2>2 DEF MailInv, Polling, ActOnMessage
    <3> QED
      BY <2>2, <3>1 DEF ActOnMessage, DeselectIO, EndCall
  <2>3. CASE PollCounter \/ ReadWord \/ SendWord \/ UNCHANGED vars
    <3>1. stat' = stat
      BY <2>3 DEF PollCounter, ReadWord, SendWord, TakeWord, TakeSet, outVars, vars
    <3> QED
      BY <2>1, <3>1
  <2>4. ASSUME NEW f, NEW a, Call(f, a) PROVE stat' = stat
    BY <2>4 DEF Call, outVars
  <2>5. ASSUME NEW k \in Kinds, Post(k) PROVE stat' = stat
    BY <2>5 DEF Post, outVars
  <2>6. CASE ~EndCall /\ stat' = stat
    BY <2>6
  <2> QED
    BY <1>1, <2>1, <2>2, <2>3, <2>4, <2>5, <2>6
       DEF Next, Firmware, SendStatus, SendDataRequest, notify_mount, SendBlock
<1> QED
  BY <1>1, MailInvariant, PTL DEF Spec, StatusWhole
=============================================================================
