---------------------------- MODULE MountProofs ----------------------------
(***************************************************************************)
(* The safety properties of a mount, for every set of discs, sheets, paths *)
(* and files: of its requests to the host (SheetMount) and of the lines of *)
(* the sheet (CueSheet).                                                   *)
(*                                                                         *)
(* The requests: a mount is followed that found the host idle and has met  *)
(* no error yet (Undisturbed).  One command is then under way at most, the *)
(* one the firmware waits for, and what it waits for is what it will use:  *)
(* the name that decodes to the sheet's directory, the sheet's text, a     *)
(* file that is there and whose name begins with what the line says, which *)
(* leaves but one if no name on the disk goes on behind it (Followed).  A  *)
(* command that fails is the one waited for, and the wait ends with an     *)
(* error code.                                                             *)
(*                                                                         *)
(* The lines: the table keeps its form and has no ends beyond its last     *)
(* track (TableInv), so the sheet before leaves nothing that matters; in a *)
(* plain sheet the place of the next line then tells the whole state of    *)
(* the parser (OwnAt, OneAt), up to the table that must come out.          *)
(***************************************************************************)
EXTENDS SheetMount, CueSheet, TLAPS, WellFoundedInduction, SequenceTheorems

Undisturbed == alone /\ file_error_code = 0
Followed    == steady /\ NoneLonger

(* The host has the command of this wait, or is through with it.           *)
Busy(kind, r) == op = Operation(kind, r) /\ ~done /\ ~failed
Ended         == op = NoOp /\ done
Waiting(kind, r) == queue = {} /\ (Busy(kind, r) \/ Ended)

(* ... and was: what the firmware finds if err allows it to go on.         *)
Good  == op = NoOp /\ err = 0
Rest  == HostIdle /\ err = 0 /\ ~failed

Named  == sheet \in Sheets /\ mem["name"] = PathOf[sheet]
Placed == sheet \in Sheets /\ aft_filepath = Directory(PathOf[sheet])

(* The text b begins with a name and the blank behind it.                  *)
Holds(b, base) == b = Over(b, Append(base, Blank))

Asked ==
  /\ sheet \in Sheets /\ next \in DOMAIN BinsOf[sheet]
  /\ aft_filepath = FilePath(mem["name"])
  /\ LET entry == BinsOf[sheet][next] b == names[entry.first] IN
     Holds(b, entry.base) /\ mem["name"] = Directory(PathOf[sheet]) \o Text(b)

Getting ==
  pc = "getting" =>
    Waiting("get", GetRegs) /\ (Good => ~failed /\ (Followed => Named))
Got   == pc = "got" => Rest /\ (Followed => Named)
Sized == pc = "sized" => Rest /\ (Followed => Placed)
Acking ==
  pc = "acking" =>
    /\ Waiting("read", ReadRegs) /\ ~Good /\ (op # NoOp => err = 0)
    /\ Followed => Placed
Reading ==
  pc = "reading" =>
    /\ Waiting("read", ReadRegs) /\ (op # NoOp => err = 0)
    /\ Good => ~failed /\ (Followed => mem["sheet"] = sheet)
    /\ Followed => Placed
Parsing ==
  pc = "parse" => Rest /\ (Followed => Placed /\ mem["sheet"] = sheet)
Opening ==
  pc = "opening" =>
    /\ Waiting("open", OpenRegs) /\ (op # NoOp => err = 0)
    /\ Good => ~failed /\ Trim(mem["name"]) \in OnDisk
    /\ Followed => mem["sheet"] = sheet /\ Asked

Phases == Getting /\ Got /\ Sized /\ Acking /\ Reading /\ Parsing /\ Opening

Types ==
  /\ mem = [area \in {"name", "sheet"} |-> mem[area]]
  /\ names = [i \in Slots |-> names[i]]
  /\ sheet \in Sheets \cup {NoSheet}

MountInv == Types /\ (Undisturbed => Phases)
-----------------------------------------------------------------------------
(* A set of indices of a sequence has a greatest one.                      *)
LEMMA Greatest ==
  ASSUME NEW n \in Nat, NEW I \in SUBSET (0..n), I # {}
  PROVE  Max(I) \in I /\ \A i \in I : Max(I) >= i
<1> DEFINE J == {j \in Nat : n - j \in I}
<1>1. J \subseteq Nat /\ J # {}
  <2>1. PICK i \in I : TRUE
    OBVIOUS
  <2>2. n - i \in Nat /\ n - (n - i) = i
    OBVIOUS
  <2>. QED BY <2>1, <2>2
<1> DEFINE Less == OpToRel(<, Nat)
<1>2. IsWellFoundedOn(Less, Nat)
  BY NatLessThanWellFounded
<1> HIDE DEF J, Less
<1>3. PICK j \in J : \A k \in J : ~(<<k, j>> \in Less)
  BY <1>1, <1>2, WFMin
<1>5. \A k \in J : ~(k < j)
  BY <1>1, <1>3 DEF Less, OpToRel
<1>4. n - j \in I /\ \A i \in I : n - j >= i
  <2>. n - j \in I
    BY DEF J
  <2>1. SUFFICES ASSUME NEW i \in I PROVE n - j >= i
    OBVIOUS
  <2>2. n - i \in J
    BY DEF J
  <2>. QED BY <1>1, <1>5, <2>2
<1>. QED BY <1>4 DEF Max

(* The blank ends neither a text nor a directory.                          *)
LEMMA BlankIs == Blank # NUL /\ Blank # "/"
BY DEF Blank, NUL

(* The last slash of a path.                                               *)
LEMMA LastSlashIsLast ==
  ASSUME NEW S, NEW path \in Seq(S)
  PROVE  /\ LastSlash(path) \in 0..Len(path)
         /\ LastSlash(path) > 0 => path[LastSlash(path)] = "/"
         /\ \A i \in DOMAIN path : i > LastSlash(path) => path[i] # "/"
<1> DEFINE I == {i \in 1..Len(path) : path[i] = "/"}
<1>1. LastSlash(path) = IF I # {} THEN Max(I) ELSE 0
  BY DEF LastSlash, SelectLastInSeq
<1>2. /\ I \in SUBSET (1..Len(path)) /\ I \in SUBSET (0..Len(path))
      /\ Len(path) \in Nat /\ DOMAIN path = 1..Len(path)
  OBVIOUS
<1>3. \A i \in DOMAIN path : path[i] = "/" => i \in I
  OBVIOUS
<1>4. \A i \in I : path[i] = "/"
  OBVIOUS
<1> HIDE DEF I
<1>5. CASE I = {}
  BY <1>1, <1>2, <1>3, <1>5
<1>6. CASE I # {}
  <2>1. Max(I) \in I /\ \A i \in I : Max(I) >= i
    BY <1>2, <1>6, Greatest
  <2>2. LastSlash(path) = Max(I)
    BY <1>1, <1>6
  <2> HIDE DEF I
  <2>3. LastSlash(path) \in 1..Len(path) /\ path[LastSlash(path)] = "/"
    BY <1>2, <1>4, <2>1, <2>2
  <2>4. ASSUME NEW i \in DOMAIN path, i > LastSlash(path) PROVE path[i] # "/"
    BY <1>2, <1>3, <2>1, <2>2, <2>3, <2>4
  <2>. QED BY <2>3, <2>4
<1>. QED BY <1>5, <1>6

(* The text of a buffer that begins with a name and a blank does so too.   *)
LEMMA TextBegins ==
  ASSUME NEW base \in Seq(STRING), Len(base) < NameSize,
         \A p \in DOMAIN base : base[p] # NUL,
         NEW b, Holds(b, base)
  PROVE  \E S : /\ STRING \cup {Blank} \subseteq S
                /\ Text(b) \in Seq(S) /\ Len(Text(b)) > Len(base)
                /\ \A i \in 1..Len(base) : Text(b)[i] = base[i]
                /\ Text(b)[Len(base) + 1] = Blank
<1> DEFINE S == STRING \cup {Blank} \cup {b[p] : p \in 1..NameSize}
           head == Append(base, Blank)
           n == Len(base) + 1
           K == {k \in 0..NameSize : \A p \in 1..k : b[p] # NUL}
<1>1. NameSize \in Nat /\ n \in 1..NameSize /\ Len(head) = n /\ head \in Seq(STRING \cup {Blank})
  BY NameAssumption
<1>2. \A p \in 1..n : b[p] = head[p] /\ b[p] # NUL
  <2>1. \A p \in 1..n : b[p] = head[p]
    BY <1>1 DEF Holds, Over
  <2>2. \A p \in 1..n : head[p] = IF p = n THEN Blank ELSE base[p]
    BY <1>1
  <2>3. \A p \in 1..n : p # n => p \in DOMAIN base
    BY <1>1
  <2>. QED BY <2>1, <2>2, <2>3, BlankIs
<1>3. Length(b) = Max(K)
  BY DEF Length
<1>4. K \in SUBSET (0..NameSize) /\ n \in K
  BY <1>1, <1>2
<1>5. Length(b) \in n..NameSize
  <2> HIDE DEF K, n
  <2>1. Max(K) \in K /\ Max(K) >= n
    BY <1>1, <1>4, Greatest
  <2>2. Max(K) \in 0..NameSize
    BY <1>4, <2>1
  <2>. QED BY <1>1, <1>3, <2>1, <2>2
<1> HIDE DEF K
<1>6. Text(b) \in Seq(S) /\ Len(Text(b)) = Length(b)
  <2>1. \A p \in 1..Length(b) : b[p] \in S
    BY <1>1, <1>5
  <2>2. Length(b) \in Nat
    BY <1>1, <1>5
  <2> HIDE DEF S
  <2>. QED BY <2>1, <2>2 DEF Text
<1>7. \A p \in 1..n : Text(b)[p] = head[p]
  <2> HIDE DEF head
  <2>. QED BY <1>1, <1>2, <1>5 DEF Text
<1>8. /\ Len(Text(b)) > Len(base)
      /\ \A p \in 1..Len(base) : Text(b)[p] = base[p]
      /\ Text(b)[Len(base) + 1] = Blank
  BY <1>1, <1>5, <1>6, <1>7
<1>9. STRING \cup {Blank} \subseteq S
  OBVIOUS
<1> HIDE DEF S
<1>. QED BY <1>6, <1>8, <1>9

(* A path that begins with a name and a blank is that name with blanks     *)
(* behind it, or goes on behind the blank.                                 *)
LEMMA TrimmedName ==
  ASSUME NEW S, NEW name \in Seq(S), Blank \in S, name # <<>>, Last(name) # Blank,
         NEW path \in Seq(S), Len(path) > Len(name),
         \A i \in 1..Len(name) : path[i] = name[i], path[Len(name) + 1] = Blank,
         ~IsPrefix(Append(name, Blank), Trim(path))
  PROVE  /\ Trim(path) = name
         /\ \A i \in Len(name)+1..Len(path) : path[i] = Blank
<1> DEFINE I == {i \in 1..Len(path) : path[i] # Blank}
           k == SelectLastInSeq(path, LAMBDA c : c # Blank)
           n == Len(name)
<1>1. /\ n \in Nat \ {0} /\ path \in Seq(S) /\ Len(path) >= n + 1
      /\ \A i \in 1..n : path[i] = name[i]
      /\ path[n + 1] = Blank
  OBVIOUS
<1>2. k = (IF I # {} THEN Max(I) ELSE 0) /\ Trim(path) = SubSeq(path, 1, k)
  BY DEF SelectLastInSeq, Trim
<1>3. n \in I /\ I \in SUBSET (0..Len(path)) /\ Len(path) \in Nat
  BY <1>1 DEF Last
<1>4. k \in I /\ \A i \in I : k >= i
  <2> HIDE DEF I, k, n
  <2>. QED BY <1>2, <1>3, Greatest
<1>5. k \in n..Len(path) /\ \A i \in k+1..Len(path) : path[i] = Blank
  <2>1. k \in 1..Len(path) /\ k >= n
    BY <1>3, <1>4
  <2>2. \A i \in 1..Len(path) : path[i] # Blank => k >= i
    BY <1>4
  <2> HIDE DEF I, k, n
  <2>. QED BY <1>1, <2>1, <2>2
<1> HIDE DEF I, k
<1>6. k = n
  <2>1. SUFFICES ASSUME k >= n + 1 PROVE FALSE
    BY <1>1, <1>5
  <2> DEFINE head == Append(name, Blank)
             t    == SubSeq(path, 1, k)
  <2>2. head \in Seq(S) /\ Len(head) = n + 1 /\ t \in Seq(S) /\ Len(t) = k
    BY <1>1, <1>5, <2>1
  <2>3. \A i \in 1..n+1 : head[i] = t[i]
    BY <1>1, <1>5, <2>1
  <2>4. SubSeq(head, 1, n + 1) = SubSeq(t, 1, n + 1)
    <3> HIDE DEF head, t
    <3>. QED BY <1>1, <2>1, <2>2, <2>3
  <2>5. Len(head) <= Len(t)
    BY <1>1, <2>1, <2>2, <1>5
  <2>. QED BY <1>2, <2>2, <2>4, <2>5 DEF IsPrefix
<1>7. SubSeq(path, 1, n) = name
  BY <1>1
<1>. QED BY <1>2, <1>5, <1>6, <1>7

(* The path up to its last slash is its directory; there is but one.       *)
LEMMA PathIsDirectory ==
  ASSUME NEW S, NEW path \in Seq(S), NEW k \in 1..Len(path), path[k] = "/",
         \A i \in DOMAIN path : i > k => path[i] # "/"
  PROVE  FilePath(path) = SubSeq(path, 1, k) /\ Directory(path) = SubSeq(path, 1, k)
<1>0. Len(path) \in Nat /\ DOMAIN path = 1..Len(path) /\ k \in Nat
  OBVIOUS
<1>1. LastSlash(path) = k
  BY <1>0, LastSlashIsLast
<1>2. PathCount(path) + 1 = k
  BY <1>0, <1>1 DEF PathCount
<1>3. Min({k, Len(path)}) = k
  BY <1>0 DEF Min
<1>4. FilePath(path) = SubSeq(path, 1, k)
  BY <1>2, <1>3 DEF FilePath
<1> DEFINE Fits(d) == /\ d # <<>> /\ Last(d) = "/"
                      /\ \A i \in Len(d)+1..Len(path) : path[i] # "/"
<1>5. \A l \in 0..Len(path) : Len(SubSeq(path, 1, l)) = l
  OBVIOUS
<1>6. SubSeq(path, 1, k) \in Prefixes(path) /\ Fits(SubSeq(path, 1, k))
  <2>1. Len(SubSeq(path, 1, k)) = k /\ SubSeq(path, 1, k)[k] = path[k]
    OBVIOUS
  <2>2. SubSeq(path, 1, k) # <<>>
    BY <2>1, <1>0
  <2>. QED BY <1>0, <2>1, <2>2 DEF Prefixes, Last
<1>7. ASSUME NEW d \in Prefixes(path), Fits(d) PROVE d = SubSeq(path, 1, k)
  <2>1. PICK l \in 0..Len(path) : d = SubSeq(path, 1, l)
    BY DEF Prefixes
  <2>2. Len(d) = l /\ l # 0
    BY <1>5, <1>7, <2>1
  <2>3. d[l] = path[l]
    BY <1>0, <2>1, <2>2
  <2>4. path[l] = "/" /\ \A i \in l+1..Len(path) : path[i] # "/"
    BY <1>7, <2>2, <2>3 DEF Last
  <2>5. l = k
    BY <1>0, <2>1, <2>2, <2>4
  <2>. QED BY <2>1, <2>5
<1>8. Directory(path) = CHOOSE d \in Prefixes(path) : Fits(d)
  BY DEF Directory
<1>9. Directory(path) = SubSeq(path, 1, k)
  <2> HIDE DEF Fits
  <2>. QED BY <1>6, <1>7, <1>8
<1>. QED BY <1>4, <1>9

(* Decoding a sheet's path leaves its directory; decoding a name that was  *)
(* put after it leaves it once more.                                       *)
LEMMA SheetDirectory ==
  ASSUME NEW s \in Sheets
  PROVE  FilePath(PathOf[s]) = Directory(PathOf[s])
<1>1. PathOf[s] \in Seq(STRING) /\ \E i \in DOMAIN PathOf[s] : PathOf[s][i] = "/"
  BY MountAssumption
<1>2. LastSlash(PathOf[s]) \in 1..Len(PathOf[s])
  BY <1>1, LastSlashIsLast
<1>. QED BY <1>1, <1>2, LastSlashIsLast, PathIsDirectory

LEMMA BesideSheet ==
  ASSUME NEW s \in Sheets, NEW k \in DOMAIN BinsOf[s],
         NEW b, Holds(b, BinsOf[s][k].base),
         NEW path, path = Directory(PathOf[s]) \o Text(b),
         Trim(path) \in OnDisk, NoneLonger
  PROVE  /\ Trim(path) = Directory(PathOf[s]) \o BinsOf[s][k].base
         /\ FilePath(path) = Directory(PathOf[s])
<1> DEFINE p == PathOf[s]
           d == Directory(p)
           base == BinsOf[s][k].base
           last == LastSlash(p)
<1>1. p \in Seq(STRING) /\ \E i \in DOMAIN p : p[i] = "/"
  BY MountAssumption
<1>2. last \in 1..Len(p) /\ p[last] = "/" /\ \A i \in DOMAIN p : i > last => p[i] # "/"
  BY <1>1, LastSlashIsLast
<1>3. d = SubSeq(p, 1, last)
  BY <1>1, <1>2, PathIsDirectory
<1>4. d \in Seq(STRING) /\ Len(d) > 0 /\ d[Len(d)] = "/"
  <2> HIDE DEF d, last, p
  <2>. QED BY <1>1, <1>2, <1>3
<1>5. IsEntry(BinsOf[s][k])
  BY MountAssumption
<1>6. /\ base \in Seq(STRING) /\ Len(base) \in 1..NameSize-1 /\ Last(base) # Blank
      /\ \A i \in DOMAIN base : base[i] \notin {NUL, "/"}
  BY <1>5 DEF IsEntry
<1> DEFINE name == d \o base
           text == Text(b)
<1>7. ~IsPrefix(Append(name, Blank), Trim(path))
  BY DEF NoneLonger
<1> HIDE DEF d, base, p
<1>8. Holds(b, base) /\ path = d \o text
  BY DEF d, base, p
<1>9. PICK S : /\ STRING \cup {Blank} \subseteq S
               /\ text \in Seq(S) /\ Len(text) > Len(base)
               /\ \A i \in 1..Len(base) : text[i] = base[i]
               /\ text[Len(base) + 1] = Blank
  <2>1. Len(base) < NameSize /\ \A i \in DOMAIN base : base[i] # NUL
    BY <1>6, NameAssumption
  <2>. QED BY <1>6, <1>8, <2>1, TextBegins
<1>10. d \in Seq(S) /\ base \in Seq(S) /\ Blank \in S
  BY <1>4, <1>6, <1>9, SeqMonotonic
<1> DEFINE l == Len(d)
           n == Len(base)
<1>11. /\ l \in Nat \ {0} /\ n \in Nat \ {0} /\ Len(text) \in Nat /\ n < Len(text)
       /\ DOMAIN base = 1..n /\ d[l] = "/" /\ base[n] # Blank
  BY <1>4, <1>6, <1>9 DEF Last
<1> HIDE DEF text
<1>12. /\ name \in Seq(S) /\ Len(name) = l + n
       /\ \A i \in 1..l + n : name[i] = IF i <= l THEN d[i] ELSE base[i - l]
  BY <1>10, ConcatProperties
<1>13. /\ path \in Seq(S) /\ Len(path) = l + Len(text)
       /\ \A i \in 1..l + Len(text) : path[i] = IF i <= l THEN d[i] ELSE text[i - l]
  BY <1>8, <1>9, <1>10, ConcatProperties
<1>14. (\A i \in 1..n : text[i] = base[i]) /\ text[n + 1] = Blank
  BY <1>9
<1>15. d \in Seq(S)
  BY <1>10
<1>16. l = Len(d)
  OBVIOUS
<1> HIDE DEF name, l, n
<1>17. /\ Len(path) > Len(name)
       /\ \A i \in 1..Len(name) : path[i] = name[i]
       /\ path[Len(name) + 1] = Blank
  <2>1. l + n + 1 \in 1..l + Len(text) /\ Len(path) > Len(name)
    BY <1>11, <1>12, <1>13
  <2>2. path[l + n + 1] = text[n + 1]
    BY <1>11, <1>13, <2>1
  <2>3. ASSUME NEW i \in 1..l + n PROVE path[i] = name[i]
    <3>1. i \in 1..l + Len(text)
      BY <1>11
    <3>2. i > l => i - l \in 1..n
      BY <1>11
    <3>3. CASE i <= l
      BY <1>12, <1>13, <3>1, <3>3
    <3>4. CASE i > l
      <4>1. path[i] = text[i - l] /\ name[i] = base[i - l]
        BY <1>11, <1>12, <1>13, <3>1, <3>4
      <4>2. text[i - l] = base[i - l]
        BY <1>14, <3>2, <3>4
      <4>. QED BY <4>1, <4>2
    <3>5. i <= l \/ i > l
      BY <1>11
    <3>. QED BY <3>3, <3>4, <3>5
  <2>. QED BY <1>12, <1>14, <2>1, <2>2, <2>3
<1>18. name # <<>> /\ Last(name) # Blank
  <2>1. Len(name) > 0 /\ name[Len(name)] = base[n]
    BY <1>11, <1>12
  <2>. QED BY <1>11, <2>1 DEF Last
<1>19. /\ Trim(path) = name
       /\ \A i \in Len(name)+1..Len(path) : path[i] = Blank
  <2>1. Blank \in S /\ name \in Seq(S) /\ path \in Seq(S)
    BY <1>10, <1>12, <1>13
  <2>. QED BY ONLY <1>7, <1>17, <1>18, <2>1, TrimmedName
<1>20. l \in 1..Len(path) /\ path[l] = "/"
  BY <1>11, <1>13
<1>21. ASSUME NEW i \in DOMAIN path, i > l PROVE path[i] # "/"
  <2>1. i \in 1..Len(path) /\ Len(name) \in Nat
    BY <1>11, <1>12, <1>13
  <2>2. CASE i > Len(name)
    <3>1. i \in Len(name)+1..Len(path)
      BY <2>1, <2>2
    <3>. QED BY <1>19, <3>1, BlankIs
  <2>3. CASE i <= Len(name)
    <3>1. path[i] = base[i - l] /\ i - l \in 1..n
      BY <1>11, <1>12, <1>17, <1>21, <2>1, <2>3
    <3>. QED BY <1>6, <1>11, <3>1
  <2>. QED BY <2>1, <2>2, <2>3
<1>22. FilePath(path) = SubSeq(path, 1, l)
  BY <1>13, <1>20, <1>21, PathIsDirectory
<1>23. SubSeq(path, 1, l) = d
  <2>1. \A i \in 1..l : path[i] = d[i]
    BY <1>11, <1>13
  <2>2. l <= Len(path) /\ l \in Nat
    BY <1>11, <1>20
  <2>. QED BY <1>13, <1>15, <1>16, <2>1, <2>2
<1>24. Trim(path) = d \o base /\ FilePath(path) = d
  BY <1>19, <1>22, <1>23 DEF name
<1>. QED BY <1>24 DEF d, base, p

-----------------------------------------------------------------------------
(* The memory keeps its two areas, slot 100 holds a sheet or none.         *)
LEMMA TypesStep == Types /\ [Next]_vars => Types'
<1> SUFFICES ASSUME Types, [Next]_vars PROVE Types'
  OBVIOUS
<1> USE DEF Types
<1>1. CASE \E s \in Sheets : Exchange(s)
  BY <1>1 DEF Exchange, firmVars
<1>2. CASE Host
  <2>1. sheet' = sheet /\ names' = names
    BY <1>2 DEF Host, Take, Succeed, Fail, Finish, firmVars
  <2>2. mem' = [area \in {"name", "sheet"} |-> mem'[area]]
    <3>1. mem' = mem \/ (\E at, x : mem' = [mem EXCEPT ![at] = x])
            \/ mem' = [area \in DOMAIN mem |-> Sectors]
      BY <1>2 DEF Host, Take, Succeed, Fail
    <3>. QED BY <3>1
  <2>. QED BY <2>1, <2>2
<1>3. CASE LoadCUE
  <2>1. sheet' = sheet
    BY <1>3 DEF LoadCUE, Continue, GetError, GetDone, Decode, NothingToRead, ReadSheet,
                ReadAck, ReadError, ReadDone, OpenBin, OpenError, OpenDone, Parsed
  <2>2. mem' = [area \in {"name", "sheet"} |-> mem'[area]]
    <3>1. mem' = mem \/ (\E x : mem' = [mem EXCEPT !["name"] = x])
            \/ mem' = [area \in DOMAIN mem |-> <<>>]
      BY <1>3 DEF LoadCUE, GetError, GetDone, Decode, NothingToRead, ReadSheet,
                  ReadAck, ReadError, ReadDone, OpenBin, OpenError, OpenDone, Parsed
    <3>. QED BY <3>1
  <2>3. names' = [i \in Slots |-> names'[i]]
    <3>1. \/ names' = names
          \/ \E i, x : names' = [names EXCEPT ![i] = x]
          \/ names' = [i \in Slots |-> IF i \in Further THEN StrCpy(names[i], aft_filename)
                                                       ELSE names[i]]
      BY <1>3 DEF LoadCUE, GetError, GetDone, Decode, NothingToRead, ReadSheet, tableVars,
                  ReadAck, ReadError, ReadDone, OpenBin, OpenError, OpenDone, Parsed
    <3>. QED BY <3>1
  <2>. QED BY <2>1, <2>2, <2>3
<1>4. CASE Mount \/ Notice \/ ReadAheadStarts \/ UNCHANGED vars
  <2>1. sheet' = sheet /\ mem' = mem /\ names' = names
    BY <1>4 DEF Mount, Continue, Notice, ReadAheadStarts, vars, firmVars, tableVars
  <2>. QED BY <2>1
<1>. QED BY <1>1, <1>2, <1>3, <1>4 DEF Next

(* What each phase of a mount relies on.                                   *)
PhaseVars == <<pc, queue, op, done, err, failed, steady, sheet, mem, aft_filepath, next, names>>

LEMMA PhasesUnchanged == Phases /\ UNCHANGED PhaseVars => Phases'
BY DEF Phases, PhaseVars, Getting, Got, Sized, Acking, Reading, Parsing, Opening,
       Waiting, Busy, Ended, Good, Rest, HostIdle, Named, Placed, Asked, Followed

(* A mount begins: the host was idle, or its disturbance is remembered.    *)
LEMMA PhasesMount ==
  ASSUME Mount, alone' PROVE Phases'
<1>1. pc' = "getting" /\ HostIdle /\ failed' = FALSE
  BY DEF Mount, Continue
<1>2. op' = Operation("get", GetRegs) /\ done' = FALSE /\ queue' = {}
  BY <1>1 DEF Mount, Issue, HostIdle
<1>3. op' # NoOp
  BY <1>2 DEF Operation, NoOp
<1>. QED BY <1>1, <1>2, <1>3
  DEF Phases, Getting, Got, Sized, Acking, Reading, Parsing, Opening, Waiting, Busy, Good

(* The host ends what it was given, the executor takes nothing else.       *)
LEMMA PhasesHost ==
  ASSUME Types, Phases, Host PROVE Phases'
<1>1. CASE pc \notin {"getting", "acking", "reading", "opening"}
  <2>1. pc' = pc
    BY DEF Host, Take, Succeed, Fail, Finish, firmVars
  <2>2. CASE pc \notin {"got", "sized", "parse"}
    BY <1>1, <2>1, <2>2
    DEF Phases, Getting, Got, Sized, Acking, Reading, Parsing, Opening
  <2>3. CASE pc \in {"got", "sized", "parse"}
    <3>1. op = NoOp /\ queue = {}
      BY <2>3 DEF Phases, Got, Sized, Parsing, Rest, HostIdle
    <3>2. op.kind = "none"
      BY <3>1 DEF NoOp
    <3>. QED BY <3>1, <3>2 DEF Host, Take, Succeed, Fail
  <2>. QED BY <2>2, <2>3
<1>2. CASE pc \in {"getting", "acking", "reading", "opening"}
  <2>1. queue = {}
    BY <1>2 DEF Phases, Getting, Acking, Reading, Opening, Waiting
  <2>2. op # NoOp
    <3>1. op = NoOp => op.kind = "none"
      BY DEF NoOp
    <3>. QED BY <2>1, <3>1 DEF Host, Take, Succeed, Fail
  <2>3. PICK r \in {0, 2} : Finish(r) /\ (r = 0 => Succeed) /\ (r = 2 => Fail)
    BY <2>1 DEF Host, Take, Succeed, Fail
  <2>4. /\ op' = NoOp /\ done' /\ err' = r /\ queue' = {}
        /\ pc' = pc /\ sheet' = sheet /\ steady' = steady /\ next' = next
        /\ aft_filepath' = aft_filepath /\ names' = names
    BY <2>1, <2>3 DEF Finish, firmVars
  <2>5. ~failed /\ (r = 0 => ~failed')
    BY <1>2, <2>2, <2>3
    DEF Finish, Phases, Getting, Acking, Reading, Opening, Waiting, Busy, Ended
  <2>6. CASE pc = "getting"
    <3>1. op = Operation("get", GetRegs)
      BY <2>2, <2>6 DEF Phases, Getting, Waiting, Busy, Ended
    <3>2. r = 0 => sheet # NoSheet /\ mem' = [mem EXCEPT !["name"] = PathOf[sheet]]
      BY <2>3, <3>1 DEF Succeed, Operation, GetRegs
    <3>3. r = 0 => Named'
      BY <2>4, <3>2 DEF Named, Types
    <3>. QED BY <2>4, <2>5, <2>6, <3>3
      DEF Phases, Getting, Got, Sized, Acking, Reading, Parsing, Opening, Waiting, Ended, Good
  <2>7. CASE pc = "acking"
    <3>1. r = 2
      BY <2>3, <2>7 DEF Succeed, InTime
    <3>. QED BY <2>4, <2>5, <2>7, <3>1
      DEF Phases, Getting, Got, Sized, Acking, Reading, Parsing, Opening, Waiting, Ended, Good,
          Placed, Followed
  <2>8. CASE pc = "reading"
    <3>1. op = Operation("read", ReadRegs)
      BY <2>2, <2>8 DEF Phases, Reading, Waiting, Busy, Ended
    <3>2. r = 0 => mem' = [mem EXCEPT !["sheet"] = sheet]
      BY <2>3, <3>1 DEF Succeed, Operation, ReadRegs
    <3>3. r = 0 => mem'["sheet"] = sheet'
      BY <2>4, <3>2 DEF Types
    <3>. QED BY <2>4, <2>5, <2>8, <3>3
      DEF Phases, Getting, Got, Sized, Acking, Reading, Parsing, Opening, Waiting, Ended, Good,
          Placed, Followed
  <2>9. CASE pc = "opening"
    <3>1. op = Operation("open", OpenRegs)
      BY <2>2, <2>9 DEF Phases, Opening, Waiting, Busy, Ended
    <3>2. mem' = mem
      BY <2>3, <3>1 DEF Succeed, Fail, Operation
    <3>3. r = 0 => Trim(mem["name"]) \in OnDisk
      BY <2>3, <3>1 DEF Succeed, Operation
    <3>. QED BY <2>4, <2>5, <2>9, <3>2, <3>3
      DEF Phases, Getting, Got, Sized, Acking, Reading, Parsing, Opening, Waiting, Ended, Good,
          Placed, Followed, Asked
  <2>. QED BY <1>2, <2>6, <2>7, <2>8, <2>9
<1>. QED BY <1>1, <1>2

(* LoadCUE goes on from what the last phase left; an error ends the claim. *)
LEMMA PhasesLoad ==
  ASSUME Types, Phases, LoadCUE, file_error_code = 0, file_error_code' = 0
  PROVE  Phases'
<1> USE DEF Continue
<1>0. Types
  OBVIOUS
<1>1. ~GetError /\ ~ReadError /\ ~OpenError
  BY DEF GetError, ReadError, OpenError
<1>2. CASE GetDone
  <2>1. pc' = "got" /\ Rest /\ (Followed => Named)
    BY <1>2 DEF GetDone, Phases, Getting, Waiting, Busy, Ended, Good, Rest, HostIdle
  <2>2. Rest' /\ (Followed' => Named')
    BY <1>2, <2>1 DEF GetDone, bridgeVars, history, Rest, HostIdle, Named, Followed
  <2>. QED BY <2>1, <2>2
    DEF Phases, Getting, Got, Sized, Acking, Reading, Parsing, Opening
<1>3. CASE Decode
  <2>1. pc' = "sized" /\ Rest /\ (Followed => Named)
    BY <1>3 DEF Decode, Phases, Got
  <2>2. Followed => Placed'
    BY <1>3, <2>1, SheetDirectory DEF Decode, Named, Placed
  <2>3. Rest' /\ steady' = steady
    BY <1>3, <2>1 DEF Decode, bridgeVars, history, Rest, HostIdle
  <2>. QED BY <2>1, <2>2, <2>3
    DEF Phases, Getting, Got, Sized, Acking, Reading, Parsing, Opening, Followed
<1>4. CASE NothingToRead \/ Parsed
  BY <1>4
  DEF NothingToRead, Parsed, Phases, Getting, Got, Sized, Acking, Reading, Parsing, Opening
<1>5. CASE ReadSheet
  <2>1. pc' = "acking" /\ Rest /\ (Followed => Placed)
    BY <1>5 DEF ReadSheet, Phases, Sized
  <2>2. op' = Operation("read", ReadRegs) /\ done' = FALSE /\ queue' = {} /\ err' = 0
    BY <1>5, <2>1 DEF ReadSheet, Issue, Rest, HostIdle
  <2>3. ~failed' /\ steady' = steady /\ Placed' = Placed
    BY <1>5, <2>1 DEF ReadSheet, history, Rest, Placed
  <2>4. op' # NoOp
    BY <2>2 DEF Operation, NoOp
  <2>. QED BY <2>1, <2>2, <2>3, <2>4
    DEF Phases, Getting, Got, Sized, Acking, Reading, Parsing, Opening, Waiting, Busy, Good,
        Followed
<1>6. CASE ReadAck
  <2>1. pc' = "reading" /\ pc = "acking" /\ op # NoOp
    BY <1>6 DEF ReadAck
  <2>2. UNCHANGED <<queue, op, done, err, failed, steady, sheet, aft_filepath>>
    BY <1>6 DEF ReadAck, bridgeVars, history
  <2>. QED BY <2>1, <2>2
    DEF Phases, Getting, Got, Sized, Acking, Reading, Parsing, Opening, Waiting, Busy, Ended,
        Good, Placed, Followed
<1>7. CASE ReadDone
  <2>1. pc' = "parse" /\ Rest /\ (Followed => Placed /\ mem["sheet"] = sheet)
    BY <1>7 DEF ReadDone, Phases, Reading, Waiting, Busy, Ended, Good, Rest, HostIdle
  <2>2. Rest' /\ (Followed' => Placed' /\ mem'["sheet"] = sheet')
    BY <1>7, <2>1 DEF ReadDone, bridgeVars, history, Rest, HostIdle, Placed, Followed
  <2>. QED BY <2>1, <2>2
    DEF Phases, Getting, Got, Sized, Acking, Reading, Parsing, Opening
<1>8. CASE OpenBin
  <2>1. pc' = "opening" /\ Rest /\ (Followed => Placed /\ mem["sheet"] = sheet)
    BY <1>8 DEF OpenBin, Phases, Parsing
  <2>2. op' = Operation("open", OpenRegs) /\ done' = FALSE /\ queue' = {} /\ err' = 0
    BY <1>8, <2>1 DEF OpenBin, Issue, Rest, HostIdle
  <2>3. op' # NoOp
    BY <2>2 DEF Operation, NoOp
  <2>4. ~failed' /\ steady' = steady /\ sheet' = sheet /\ next' = next
    BY <1>8, <2>1 DEF OpenBin, history, Rest
  <2>5. /\ next \in DOMAIN BinsOf[mem["sheet"]] /\ mem["sheet"] \in Sheets
        /\ mem' = [mem EXCEPT !["name"] =
                     aft_filepath \o Text(NameOver(names[FileLine.first], FileLine))]
        /\ names' = [names EXCEPT ![FileLine.first] =
                       NameOver(names[FileLine.first], FileLine)]
        /\ aft_filepath' = FilePath(mem'["name"])
    BY <1>0, <1>8 DEF OpenBin, MoreFiles, Types
  <2>6. ASSUME Followed PROVE mem'["sheet"] = sheet' /\ Asked'
    <3> DEFINE line0 == BinsOf[sheet][next]
               b == NameOver(names[line0.first], line0)
    <3>1. sheet \in Sheets /\ aft_filepath = Directory(PathOf[sheet]) /\ mem["sheet"] = sheet
      BY <2>1, <2>6 DEF Placed
    <3>2. next \in DOMAIN BinsOf[sheet] /\ FileLine = line0 /\ line0.first \in Slots
      BY <2>5, <3>1, MountAssumption DEF FileLine
    <3>3. Holds(b, line0.base)
      BY DEF Holds, NameOver, Over
    <3> HIDE DEF line0, b
    <3>4. /\ mem'["name"] = Directory(PathOf[sheet]) \o Text(b) /\ mem'["sheet"] = mem["sheet"]
          /\ names'[line0.first] = b
      BY <1>0, <2>5, <3>1, <3>2 DEF Types, b
    <3>. QED BY <2>4, <2>5, <3>1, <3>2, <3>3, <3>4 DEF Asked, line0
  <2>. QED BY <2>1, <2>2, <2>3, <2>4, <2>6
    DEF Phases, Getting, Got, Sized, Acking, Reading, Parsing, Opening, Waiting, Busy, Good,
        Followed
<1>9. CASE OpenDone
  <2>1. pc' = "parse" /\ Rest /\ (Followed => Asked /\ mem["sheet"] = sheet)
    BY <1>9 DEF OpenDone, Phases, Opening, Waiting, Busy, Ended, Good, Rest, HostIdle
  <2>2. Trim(mem["name"]) \in OnDisk
    BY <1>9, <2>1 DEF OpenDone, Phases, Opening, Good, Rest, HostIdle
  <2>3. ASSUME Followed PROVE Placed
    <3> DEFINE b == names[BinsOf[sheet][next].first]
    <3>1. /\ sheet \in Sheets /\ next \in DOMAIN BinsOf[sheet]
          /\ aft_filepath = FilePath(mem["name"])
          /\ Holds(b, BinsOf[sheet][next].base)
          /\ mem["name"] = Directory(PathOf[sheet]) \o Text(b)
      BY <2>1, <2>3 DEF Asked
    <3> HIDE DEF b
    <3>2. FilePath(mem["name"]) = Directory(PathOf[sheet])
      BY <2>2, <2>3, <3>1, BesideSheet DEF Followed
    <3>. QED BY <3>1, <3>2 DEF Placed
  <2>4. Rest' /\ (Followed' => Placed' /\ mem'["sheet"] = sheet')
    BY <1>9, <2>1, <2>3
    DEF OpenDone, bridgeVars, history, Rest, HostIdle, Placed, Followed
  <2>. QED BY <2>1, <2>4
    DEF Phases, Getting, Got, Sized, Acking, Reading, Parsing, Opening
<1>. QED BY <1>1, <1>2, <1>3, <1>4, <1>5, <1>6, <1>7, <1>8, <1>9 DEF LoadCUE

(* An error code that is set stays until the drive is idle again.          *)
LEMMA CodeStays ==
  ASSUME [Next]_vars, file_error_code # 0, ~Notice
  PROVE  file_error_code' # 0
BY DEF Next, vars, firmVars, Mount, Exchange, ReadAheadStarts,
       Host, Take, Succeed, Fail, Finish,
       LoadCUE, GetError, GetDone, Decode, NothingToRead, ReadSheet, ReadAck, ReadError,
       ReadDone, OpenBin, OpenError, OpenDone, Parsed

LEMMA MountInvInit == Init => MountInv
BY DEF Init, MountInv, Types, Phases, Getting, Got, Sized, Acking, Reading, Parsing, Opening

LEMMA MountInvStep == MountInv /\ [Next]_vars => MountInv'
<1> SUFFICES ASSUME MountInv, [Next]_vars, Undisturbed' PROVE Phases'
  BY TypesStep DEF MountInv
<1>0. Types
  BY DEF MountInv
<1>1. CASE Mount
  BY <1>1, PhasesMount DEF Undisturbed
<1>2. CASE Notice \/ ReadAheadStarts
  BY <1>2
  DEF Notice, ReadAheadStarts, firmVars,
      Phases, Getting, Got, Sized, Acking, Reading, Parsing, Opening
<1>3. CASE LoadCUE \/ Host \/ (\E s \in Sheets : Exchange(s)) \/ UNCHANGED vars
  <2>1. alone' = alone
    BY <1>3 DEF Exchange, vars, history, Host, Take, Succeed, Fail, Finish,
       LoadCUE, GetError, GetDone, Decode, NothingToRead, ReadSheet, ReadAck, ReadError,
       ReadDone, OpenBin, OpenError, OpenDone, Parsed
  <2>2. CASE file_error_code = 0
    <3>1. Phases
      BY <2>1, <2>2 DEF MountInv, Undisturbed
    <3>2. CASE LoadCUE
      BY <1>0, <2>2, <3>1, <3>2, PhasesLoad DEF Undisturbed
    <3>3. CASE Host
      BY <1>0, <3>1, <3>3, PhasesHost
    <3>4. CASE \E s \in Sheets : Exchange(s)
      <4>1. /\ UNCHANGED <<pc, queue, op, done, err, failed, mem, aft_filepath, next, names>>
            /\ steady' = FALSE
        BY <3>4 DEF Exchange, firmVars, bridgeVars
      <4>. QED BY <3>1, <4>1
        DEF Phases, Getting, Got, Sized, Acking, Reading, Parsing, Opening,
            Waiting, Busy, Ended, Good, Rest, HostIdle, Followed
    <3>5. CASE UNCHANGED vars
      <4>1. UNCHANGED PhaseVars
        BY <3>5 DEF vars, firmVars, bridgeVars, history, PhaseVars
      <4>. QED BY <3>1, <4>1, PhasesUnchanged
    <3>. QED BY <1>3, <3>2, <3>3, <3>4, <3>5
  <2>3. CASE file_error_code # 0
    <3>1. CASE Notice
      BY <3>1 DEF Notice, firmVars,
         Phases, Getting, Got, Sized, Acking, Reading, Parsing, Opening
    <3>. QED BY <2>3, <3>1, CodeStays DEF Undisturbed
  <2>. QED BY <2>2, <2>3
<1>. QED BY <1>1, <1>2, <1>3 DEF Next

LEMMA MountInvariant == Spec => []MountInv
BY MountInvInit, MountInvStep, PTL DEF Spec
-----------------------------------------------------------------------------
(* What LoadCUE parses is the sheet in slot 100, and the directory that it *)
(* puts before the next FILE line's name is that of the sheet, for any     *)
(* paths and any text left in the names (cue.cpp:89), if no name on the    *)
(* disk goes on, after a blank, where that of a FILE line ends.            *)
THEOREM ParsesItsSheet ==
  ASSUME NoneLonger PROVE Spec => []SheetIsRight
<1>1. MountInv => SheetIsRight
  BY DEF MountInv, Undisturbed, Phases, Parsing, Opening, SheetIsRight, Trusted, Placed,
         Followed
<1>. QED BY <1>1, MountInvariant, PTL

(* With such names on the disk, a file that the firmware has opened is the *)
(* one that the FILE line names, in the sheet's directory: whatever        *)
(* directories stand in the line and whatever the slot's name was before,  *)
(* what is left of them behind the name makes the host open no other       *)
(* (cue.cpp:104, apf.cpp:331).                                             *)
THEOREM OpensBesideItsSheet ==
  ASSUME NoneLonger PROVE Spec => OpenedBesideTheSheet
<1>1. ASSUME MountInv, OpenDone, Trusted PROVE Trim(mem["name"]) = FileMeant
  <2>1. Phases /\ Followed
    BY <1>1 DEF MountInv, Undisturbed, Trusted, Followed
  <2>2. Asked /\ Trim(mem["name"]) \in OnDisk
    BY <1>1, <2>1 DEF OpenDone, Phases, Opening, Waiting, Busy, Ended, Good
  <2>. QED BY <2>1, <2>2, BesideSheet DEF Asked, Followed, FileMeant
<1>2. MountInv /\ [Next]_vars => [OpenDone /\ Trusted => Trim(mem["name"]) = FileMeant]_vars
  BY <1>1
<1>. QED BY <1>2, MountInvariant, PTL DEF Spec, OpenedBesideTheSheet

(* A command that fails during a mount leaves an error code, though        *)
(* LoadCUE looks at the result of no call but OPEN (cue.cpp:82).           *)
THEOREM FailedMountIsReported == Spec => FailureIsReported
<1>1. ASSUME MountInv, LoadCUE, pc' = "idle", alone, failed, sheet # NoSheet
      PROVE  file_error_code' # 0
  <2>1. ~Notice
    BY <1>1 DEF Notice, LoadCUE, GetError, GetDone, Decode, NothingToRead, ReadSheet,
                ReadAck, ReadError, ReadDone, OpenBin, OpenError, OpenDone, Parsed
  <2>2. CASE file_error_code # 0
    BY <1>1, <2>1, <2>2, CodeStays DEF Next
  <2>3. CASE file_error_code = 0
    <3>1. ~Parsed
      BY <1>1, <2>3 DEF MountInv, Undisturbed, Phases, Parsing, Rest, Parsed
    <3>2. OpenError
      BY <1>1, <3>1 DEF LoadCUE, Continue, GetError, GetDone, Decode, NothingToRead,
         ReadSheet, ReadAck, ReadError, ReadDone, OpenBin, OpenDone
    <3>. QED BY <3>2 DEF OpenError
  <2>. QED BY <2>2, <2>3
<1>2. MountInv /\ [Next]_vars =>
        [LoadCUE /\ pc' = "idle" /\ alone /\ failed /\ sheet # NoSheet
           => file_error_code' # 0]_vars
  BY <1>1
<1>. QED BY <1>2, MountInvariant, PTL DEF Spec, FailureIsReported
-----------------------------------------------------------------------------
(***************************************************************************)
(* The lines of the sheet.                                                 *)
(***************************************************************************)
Fields == {"name", "opened", "size", "offset", "start", "end", "type", "sector_size"}
IsTrack(t) == t = [f \in Fields |-> t[f]]
IsTable(tr) ==
  /\ tr = [i \in 0..MaxTracks-1 |-> tr[i]]
  /\ \A i \in 0..MaxTracks-1 : IsTrack(tr[i])

(* The table keeps its form; slots that no track has been put in yet have  *)
(* no end, whatever the sheet before was.                                  *)
Shape ==
  /\ disc \in Discs
  /\ IsTable(tracks)
  /\ toc = [last |-> toc.last, end |-> toc.end]
  /\ toc.last \in 0..MaxTracks
  /\ cue_pc = "parse" => toc.last < MaxTracks
  /\ aft = [name |-> aft.name, size |-> aft.size]
Unused == \A j \in 0..MaxTracks-1 : j >= toc.last => tracks[j].end = 0
Unloaded ==
  cue_pc \in {"reset", "done"} /\ ~loaded => toc.last = 0 /\ toc.end = 0

TableInv == Shape /\ Unused /\ Unloaded
-----------------------------------------------------------------------------
(* What assignments to fields of the table do.                             *)
LEMMA TrackIsTrack == IsTrack(Track) /\ Track.end = 0
BY DEF IsTrack, Fields, Track

Put(tr, i, t) == [tr EXCEPT ![i] = t]

LEMMA SetTrack ==
  ASSUME NEW tr, IsTable(tr), NEW i \in 0..MaxTracks-1, NEW t, IsTrack(t)
  PROVE  /\ IsTable(Put(tr, i, t)) /\ Put(tr, i, t)[i] = t
         /\ \A j \in 0..MaxTracks-1 : j # i => Put(tr, i, t)[j] = tr[j]
BY DEF IsTable, Put

LEMMA SetName ==
  ASSUME NEW t, IsTrack(t), NEW a, NEW n, n = [t EXCEPT !.name = a]
  PROVE  /\ IsTrack(n) /\ n.name = a
         /\ \A f \in Fields : f # "name" => n[f] = t[f]
BY DEF IsTrack, Fields

LEMMA SetEnd ==
  ASSUME NEW t, IsTrack(t), NEW a, NEW n, n = [t EXCEPT !.end = a]
  PROVE  /\ IsTrack(n) /\ n.end = a
         /\ \A f \in Fields : f # "end" => n[f] = t[f]
BY DEF IsTrack, Fields

EndedOpen(t, a) == [t EXCEPT !.end = a, !.opened = TRUE]

LEMMA SetEndOpened ==
  ASSUME NEW t, IsTrack(t), NEW a
  PROVE  LET n == EndedOpen(t, a) IN
         /\ IsTrack(n) /\ n.end = a /\ n.opened
         /\ \A f \in Fields : f \notin {"end", "opened"} => n[f] = t[f]
BY DEF IsTrack, Fields, EndedOpen

WithPlace(t, a, b)      == [t EXCEPT !.start = a, !.offset = b]
WithExtent(t, a, b, c) == [t EXCEPT !.start = a, !.offset = b, !.end = c]

LEMMA SetPlace ==
  ASSUME NEW t, IsTrack(t), NEW a, NEW b
  PROVE  LET n == WithPlace(t, a, b) IN
         /\ IsTrack(n) /\ n.start = a /\ n.offset = b
         /\ \A f \in Fields : f \notin {"start", "offset"} => n[f] = t[f]
BY DEF IsTrack, Fields, WithPlace

LEMMA SetExtent ==
  ASSUME NEW t, IsTrack(t), NEW a, NEW b, NEW c
  PROVE  LET n == WithExtent(t, a, b, c) IN
         /\ IsTrack(n) /\ n.start = a /\ n.offset = b /\ n.end = c
         /\ \A f \in Fields : f \notin {"start", "offset", "end"} => n[f] = t[f]
BY DEF IsTrack, Fields, WithExtent

WithKind(t, a, b, c, d, e) ==
  [t EXCEPT !.size = a, !.sector_size = b, !.type = c, !.name = d, !.opened = e]

LEMMA SetKind ==
  ASSUME NEW t, IsTrack(t), NEW a, NEW b, NEW c, NEW d, NEW e
  PROVE  LET n == WithKind(t, a, b, c, d, e) IN
         /\ IsTrack(n) /\ n.size = a /\ n.sector_size = b /\ n.type = c /\ n.name = d
         /\ n.opened = e /\ n.end = t.end /\ n.start = t.start /\ n.offset = t.offset
BY DEF IsTrack, Fields, WithKind

(* ... in the form OwnFile has them.                                       *)
PutExtent(tr, i, a, b, c) == [tr EXCEPT ![i].start = a, ![i].offset = b, ![i].end = c]

LEMMA PutExtentPuts ==
  ASSUME NEW tr, IsTable(tr), NEW i \in 0..MaxTracks-1, NEW a, NEW b, NEW c
  PROVE  PutExtent(tr, i, a, b, c) = Put(tr, i, WithExtent(tr[i], a, b, c))
BY DEF IsTable, IsTrack, Fields, Put, WithExtent, PutExtent

(* DIV of a number of whole sectors and a rest.                            *)
Whole(b, ss, x, r) == b = ss * x + r

LEMMA WholeSectors ==
  ASSUME NEW ss \in {2048, 2352, 2448}, NEW x \in Nat, NEW r \in Nat, r < ss,
         NEW b \in Int, Whole(b, ss, x, r)
  PROVE  Quotient(b, ss) = x
<1>1. CASE ss = 2048
  BY <1>1 DEF Quotient, Whole
<1>2. CASE ss = 2352
  BY <1>2 DEF Quotient, Whole
<1>3. CASE ss = 2448
  BY <1>3 DEF Quotient, Whole
<1>. QED BY <1>1, <1>2, <1>3
-----------------------------------------------------------------------------
NameOf(t) == Trim(Text(t.name))

(* A name that is copied is the same.                                      *)
LEMMA CopiedText ==
  ASSUME NEW b, NEW x PROVE Text(StrCpy(x, Text(b))) = Text(b)
<1> DEFINE K == {n \in 0..NameSize : \A p \in 1..n : b[p] # NUL}
           c == StrCpy(x, Text(b))
           M == {n \in 0..NameSize : \A p \in 1..n : c[p] # NUL}
           S == {b[p] : p \in 1..NameSize} \cup {NUL}
           s == Append(Text(b), NUL)
           l == Length(b)
<1>1. NameSize \in Nat /\ K \in SUBSET (0..NameSize) /\ 0 \in K /\ l = Max(K)
  BY NameAssumption DEF Length
<1>2. l \in K /\ \A n \in K : l >= n
  <2> HIDE DEF K
  <2>. QED BY <1>1, Greatest
<1>3. l \in 0..NameSize /\ \A p \in 1..l : b[p] # NUL
  BY <1>2
<1>4. Text(b) = [p \in 1..l |-> b[p]] /\ Text(b) \in Seq(S) /\ Len(Text(b)) = l
  <2>1. \A p \in 1..l : b[p] \in S
    BY <1>1, <1>3
  <2> HIDE DEF S, l
  <2>2. Text(b) = [p \in 1..Length(b) |-> b[p]]
    BY DEF Text
  <2>. QED BY <1>1, <1>3, <2>1, <2>2 DEF l
<1>5. Len(s) = l + 1 /\ \A p \in 1..l+1 : s[p] = IF p = l + 1 THEN NUL ELSE b[p]
  <2> HIDE DEF S, l
  <2>1. NUL \in S
    BY DEF S
  <2>. QED BY <1>3, <1>4, <2>1
<1>6. c = [p \in 1..NameSize |-> IF p <= Len(s) THEN s[p] ELSE x[p]]
  BY DEF StrCpy, Over
<1> HIDE DEF K, c, S, s, l
<1>7. /\ \A p \in 1..l : c[p] = b[p]
      /\ l < NameSize => c[l + 1] = NUL
  BY <1>1, <1>3, <1>5, <1>6
<1>8. l \in M /\ M \in SUBSET (0..NameSize)
  BY <1>3, <1>7
<1>9. \A n \in M : n <= l
  <2>1. SUFFICES ASSUME NEW n \in M, n > l PROVE FALSE
    BY <1>3
  <2>2. l + 1 \in 1..n /\ l < NameSize
    BY <1>1, <1>3, <2>1
  <2>. QED BY <1>7, <2>2
<1>10. Length(c) = Max(M)
  BY DEF Length
<1>11. Max(M) = l
  <2> HIDE DEF M
  <2>1. Max(M) \in M /\ Max(M) >= l
    BY <1>1, <1>8, Greatest
  <2>2. Max(M) \in 0..NameSize /\ Max(M) <= l
    BY <1>8, <1>9, <2>1
  <2> DEFINE m == Max(M)
  <2> HIDE DEF m
  <2>3. m \in Int /\ l \in Int /\ m >= l /\ m <= l
    BY <1>1, <1>3, <2>1, <2>2 DEF m
  <2>4. m = l
    BY <2>3
  <2>. QED BY <2>4 DEF m
<1>12. Text(c) = [p \in 1..l |-> c[p]]
  BY <1>10, <1>11 DEF Text
<1>. QED BY <1>4, <1>7, <1>12 DEF c

(* The file that a FILE line opens is the one it names, if no other begins *)
(* with its name and a blank.                                              *)
LEMMA FoundName ==
  ASSUME FilesApart, disc \in Discs, NEW k \in 1..Len(disc.lines),
         disc.lines[k].cmd = "FILE", IsEntry(disc.lines[k]),
         NEW b, Found(Text(NameOver(b, disc.lines[k])))
  PROVE  Trim(Text(NameOver(b, disc.lines[k]))) = disc.lines[k].base
<1> DEFINE base == disc.lines[k].base
           c    == NameOver(b, disc.lines[k])
           text == Text(c)
<1>1. /\ base \in Seq(STRING) /\ Len(base) \in 1..NameSize-1 /\ Last(base) # Blank
      /\ \A i \in DOMAIN base : base[i] # NUL
  BY DEF IsEntry
<1>2. Holds(c, base)
  BY DEF Holds, NameOver, Over
<1>3. ~IsPrefix(Append(base, Blank), Trim(text))
  BY DEF FilesApart, Found
<1> HIDE DEF base, c
<1>4. PICK S : /\ STRING \cup {Blank} \subseteq S
               /\ text \in Seq(S) /\ Len(text) > Len(base)
               /\ \A i \in 1..Len(base) : text[i] = base[i]
               /\ text[Len(base) + 1] = Blank
  <2>1. Len(base) < NameSize
    BY <1>1, NameAssumption
  <2>. QED BY <1>1, <1>2, <2>1, TextBegins
<1> HIDE DEF text
<1>5. base \in Seq(S) /\ Blank \in S /\ base # <<>>
  BY <1>1, <1>4, SeqMonotonic
<1>6. Trim(text) = base
  BY ONLY <1>1, <1>3, <1>4, <1>5, TrimmedName
<1>. QED BY <1>6 DEF base, text, c
-----------------------------------------------------------------------------
LEMMA ClosedTable ==
  ASSUME NEW tr, IsTable(tr), NEW tc, tc = [last |-> tc.last, end |-> tc.end],
         tc.last \in 0..MaxTracks, CloseLast(tr, tc)
  PROVE  /\ IsTable(tracks')
         /\ toc' = [last |-> toc'.last, end |-> toc'.end] /\ toc'.last = tc.last
         /\ \A j \in 0..MaxTracks-1 : j # tc.last - 1 => tracks'[j] = tr[j]
<1>1. CASE tc.last = 0
  BY <1>1 DEF CloseLast
<1>2. CASE tc.last # 0
  <2>0. MaxTracks \in Nat \ {0}
    BY NameAssumption
  <2>1. tc.last - 1 \in 0..MaxTracks-1 /\ IsTrack(tr[tc.last - 1])
    BY <1>2, <2>0 DEF IsTable
  <2>2. \E e : tracks' = [tr EXCEPT ![tc.last - 1].end = e]
    BY <1>2 DEF CloseLast
  <2>3. PICK e : tracks' = Put(tr, tc.last - 1, [tr[tc.last - 1] EXCEPT !.end = e])
    BY <2>2 DEF Put
  <2> DEFINE t == [tr[tc.last - 1] EXCEPT !.end = e]
  <2>4. IsTrack(t)
    BY <2>1, SetEnd
  <2>7. tracks' = Put(tr, tc.last - 1, t)
    BY <2>3
  <2> HIDE DEF t
  <2>5. \E x : toc' = [tc EXCEPT !.end = x]
    BY <1>2 DEF CloseLast
  <2>6. toc' = [last |-> toc'.last, end |-> toc'.end] /\ toc'.last = tc.last
    BY <2>5
  <2>. QED BY <2>1, <2>4, <2>6, <2>7, SetTrack
<1>. QED BY <1>1, <1>2

LEMMA ClearedTable ==
  ASSUME TableInv PROVE IsTable(Cleared) /\ \A j \in 0..MaxTracks-1 : Cleared[j].end = 0
<1>1. \A j \in 0..MaxTracks-1 : IsTrack(Cleared[j]) /\ Cleared[j].end = 0
  <2>1. SUFFICES ASSUME NEW j \in 0..MaxTracks-1
        PROVE  IsTrack(Cleared[j]) /\ Cleared[j].end = 0
    OBVIOUS
  <2>2. CASE j < toc.last
    <3>1. Cleared[j] = [Track EXCEPT !.name = tracks[j].name]
      BY <2>2 DEF Cleared, Slots
    <3>2. IsTrack(Cleared[j]) /\ Cleared[j]["end"] = Track["end"]
      <4> HIDE DEF Cleared
      <4>. QED BY <3>1, TrackIsTrack, SetName DEF Fields
    <3>. QED BY <3>2, TrackIsTrack
  <2>3. CASE ~(j < toc.last)
    <3>1. Cleared[j] = tracks[j]
      BY <2>3 DEF Cleared, Slots
    <3>2. j >= toc.last
      BY <2>3, NameAssumption DEF TableInv, Shape
    <3>. QED BY <3>1, <3>2 DEF TableInv, Shape, IsTable, Unused
  <2>. QED BY <2>2, <2>3
<1>. QED BY <1>1 DEF IsTable, Cleared, Slots

(* One lemma for each action.                                              *)
LEMMA TableReset == ASSUME TableInv, Reset PROVE TableInv'
<1>1. loaded' = FALSE /\ toc'.last = 0 /\ toc'.end = 0 /\ toc' = [last |-> 0, end |-> 0]
  BY DEF Reset, Unload, TableInv, Unloaded, Shape
<1>2. IsTable(tracks') /\ \A j \in 0..MaxTracks-1 : tracks'[j].end = 0
  <2>1. CASE loaded
    BY <2>1, ClearedTable DEF Reset, Unload
  <2>2. CASE ~loaded
    <3>1. tracks' = tracks /\ toc.last = 0
      BY <2>2 DEF Reset, Unload, TableInv, Unloaded
    <3>. QED BY <3>1 DEF TableInv, Shape, Unused
  <2>. QED BY <2>1, <2>2
<1>3. aft' = [name |-> aft'.name, size |-> aft'.size] /\ disc' = disc
  BY DEF Reset
<1>. QED BY <1>1, <1>2, <1>3, NameAssumption DEF TableInv, Shape, Unused, Unloaded

LEMMA TableFile == ASSUME TableInv, File PROVE TableInv'
<1>0. toc.last \in 0..MaxTracks-1 /\ IsTrack(tracks[toc.last])
  BY NameAssumption DEF File, At, TableInv, Shape, IsTable
<1> DEFINE name == NameOver(tracks[toc.last].name, Cmd)
           t    == [tracks[toc.last] EXCEPT !.name = name]
<1>1. tracks' = Put(tracks, toc.last, t)
  BY DEF File, Put
<1>4. toc' = toc /\ disc' = disc /\ cue_pc = "parse"
  BY DEF File, At
<1>5. (Opened(Text(name)) \/ NotOpened(Text(name)))
  BY DEF File
<1> HIDE DEF name
<1>2. IsTrack(t) /\ t["end"] = tracks[toc.last]["end"]
  BY <1>0, SetName DEF Fields
<1> HIDE DEF t
<1>3. IsTable(tracks') /\ \A j \in 0..MaxTracks-1 : tracks'[j].end = tracks[j].end
  BY <1>0, <1>1, <1>2, SetTrack DEF TableInv, Shape
<1>6. aft' = [name |-> aft'.name, size |-> aft'.size] /\ cue_pc' \in {"parse", "mount"}
  BY <1>5 DEF Opened, NotOpened, NextLine, Return, TableInv, Shape
<1>. QED BY <1>3, <1>4, <1>6 DEF TableInv, Shape, Unused, Unloaded

LEMMA TableTrackLine == ASSUME TableInv, TrackLine PROVE TableInv'
<1> DEFINE i == toc.last
<1>0. i \in 0..MaxTracks-1 /\ IsTrack(tracks[i]) /\ cue_pc = "parse"
  BY NameAssumption DEF TrackLine, At, TableInv, Shape, IsTable
<1>1. PICK n, mode : NewTrack(i, n, mode)
  BY DEF TrackLine
<1>2. disc' = disc /\ aft' = aft /\ cue_pc' \in {"parse", "mount"}
  BY <1>1 DEF TrackLine, NewTrack, NextLine, Return
<1>3. CASE n # i + 1
  <2>1. CloseLast(tracks, toc) /\ cue_pc' = "mount"
    BY <1>1, <1>3 DEF NewTrack, Return
  <2>2. /\ IsTable(tracks')
        /\ toc' = [last |-> toc'.last, end |-> toc'.end] /\ toc'.last = toc.last
        /\ \A j \in 0..MaxTracks-1 : j # toc.last - 1 => tracks'[j] = tracks[j]
    BY <2>1, ClosedTable DEF TableInv, Shape
  <2>. QED BY <1>2, <2>1, <2>2 DEF TableInv, Shape, Unused, Unloaded
<1>4. CASE n = i + 1
  <2> DEFINE t == [tracks[i] EXCEPT
                 !.size        = aft.size,
                 !.sector_size = IF mode \in DOMAIN TypeOf THEN SectorSize[mode] ELSE @,
                 !.type        = IF mode \in DOMAIN TypeOf THEN TypeOf[mode] ELSE @,
                 !.name        = IF File_processesd THEN @ ELSE StrCpy(@, aft.name),
                 !.opened      = File_processesd /\ i >= 1]
             first == EndedOpen(tracks[0], EndByFile(tracks[0]))
             split == File_processesd /\ i = 1
  <2>1. IsTrack(t) /\ t.end = tracks[i].end
    <3> DEFINE b == IF mode \in DOMAIN TypeOf THEN SectorSize[mode] ELSE tracks[i].sector_size
               c == IF mode \in DOMAIN TypeOf THEN TypeOf[mode] ELSE tracks[i].type
               d == IF File_processesd THEN tracks[i].name ELSE StrCpy(tracks[i].name, aft.name)
               e == File_processesd /\ i >= 1
               r == tracks[i]
    <3>1. t = WithKind(r, aft.size, b, c, d, e)
      BY DEF WithKind
    <3>2. IsTrack(r)
      BY <1>0
    <3> HIDE DEF t, b, c, d, e, r
    <3>3. IsTrack(t) /\ t.end = r.end
      BY <3>1, <3>2, SetKind
    <3>. QED BY <3>3 DEF r
  <2>2. /\ tracks' = IF split THEN Put(Put(tracks, 1, t), 0, first) ELSE Put(tracks, i, t)
        /\ toc' = IF split THEN [toc EXCEPT !.end = first.end] ELSE toc
        /\ cue_pc' = "parse"
    BY <1>1, <1>4 DEF NewTrack, NextLine, Put, EndedOpen
  <2> HIDE DEF t
  <2>3. toc' = [last |-> toc'.last, end |-> toc'.end] /\ toc'.last = toc.last
    BY <2>2 DEF TableInv, Shape
  <2>4. IsTable(tracks') /\ \A j \in 0..MaxTracks-1 : j >= toc.last => tracks'[j].end = tracks[j].end
    <3>1. CASE split
      <4>1. 0 \in 0..MaxTracks-1 /\ 1 \in 0..MaxTracks-1 /\ i = 1
        BY <1>0, <3>1, NameAssumption
      <4>2. IsTrack(first)
        BY <4>1, SetEndOpened DEF TableInv, Shape, IsTable
      <4> HIDE DEF first
      <4> DEFINE tr == Put(tracks, 1, t)
      <4>3. IsTable(tr) /\ tr[1] = t /\ \A j \in 0..MaxTracks-1 : j # 1 => tr[j] = tracks[j]
        BY <2>1, <4>1, SetTrack DEF TableInv, Shape
      <4> HIDE DEF tr
      <4>4. tracks' = Put(tr, 0, first)
        BY <2>2, <3>1 DEF tr
      <4>5. IsTable(tracks') /\ \A j \in 0..MaxTracks-1 : j # 0 => tracks'[j] = tr[j]
        BY <4>1, <4>2, <4>3, <4>4, SetTrack
      <4>. QED BY <2>1, <4>1, <4>3, <4>5
    <3>2. CASE ~split
      BY <1>0, <2>1, <2>2, <3>2, SetTrack DEF TableInv, Shape
    <3>. QED BY <3>1, <3>2
  <2>. QED BY <1>0, <1>2, <2>2, <2>3, <2>4 DEF TableInv, Shape, Unused, Unloaded
<1>. QED BY <1>3, <1>4

(* The table after INDEX 01.                                               *)
LEMMA WithinTable ==
  ASSUME NEW i \in 0..MaxTracks-1, NEW t, IsTable(tracks), NEW tr, tr = WithinFile(i, t)
  PROVE  /\ IsTable(tr)
         /\ tr[i] = WithPlace(tracks[i], t + pregap, (t + pregap) * tracks[i].sector_size - hdr)
         /\ \A j \in 0..MaxTracks-1 : j # i =>
              tr[j] = IF j = i - 1 /\ tracks[j].end = 0
                      THEN [tracks[j] EXCEPT !.end = t + pregap] ELSE tracks[j]
<1>1. \A j \in 0..MaxTracks-1 : IsTrack(tracks[j]) /\ j \in DOMAIN tracks
  BY DEF IsTable
<1> DEFINE start == t + pregap
           new   == [tracks[i] EXCEPT !.start = start, !.offset = start * tracks[i].sector_size - hdr]
           arm(j) == CASE j = i -> new
                       [] j = i - 1 /\ tracks[j].end = 0 -> [tracks[j] EXCEPT !.end = start]
                       [] OTHER -> tracks[j]
<1>0. tr = [j \in DOMAIN tracks |-> arm(j)]
  BY DEF WithinFile
<1>7. arm(i) = new /\ new = WithPlace(tracks[i], t + pregap, (t + pregap) * tracks[i].sector_size - hdr)
  BY DEF WithPlace
<1>8. \A j \in 0..MaxTracks-1 : j # i =>
        arm(j) = IF j = i - 1 /\ tracks[j].end = 0
                 THEN [tracks[j] EXCEPT !.end = t + pregap] ELSE tracks[j]
  OBVIOUS
<1> HIDE DEF arm, new, start
<1>2. tr[i] = WithPlace(tracks[i], t + pregap, (t + pregap) * tracks[i].sector_size - hdr)
  BY <1>0, <1>1, <1>7
<1>3. \A j \in 0..MaxTracks-1 : j # i =>
        tr[j] = IF j = i - 1 /\ tracks[j].end = 0
                THEN [tracks[j] EXCEPT !.end = t + pregap] ELSE tracks[j]
  BY <1>0, <1>1, <1>8
<1>4. IsTrack(tr[i])
  BY <1>1, <1>2, SetPlace
<1>5. ASSUME NEW j \in 0..MaxTracks-1, j # i PROVE IsTrack(tr[j])
  <2>1. IsTrack([tracks[j] EXCEPT !.end = t + pregap])
    BY <1>1, SetEnd
  <2>. QED BY <1>1, <1>3, <1>5, <2>1
<1>6. tr = [j \in 0..MaxTracks-1 |-> tr[j]]
  BY <1>0 DEF IsTable
<1>. QED BY <1>2, <1>3, <1>4, <1>5, <1>6 DEF IsTable

LEMMA OwnTable ==
  ASSUME NEW i \in 0..MaxTracks-1, NEW t, IsTable(tracks), NEW tr, tr = OwnFile(i, t)
  PROVE  LET start == toc.end + pregap
             ss    == tracks[i].sector_size
         IN /\ IsTable(tr)
            /\ tr[i] = WithExtent(tracks[i], start + t, start * ss - hdr,
                                start + Quotient(tracks[i].size - hdr + ss - 1, ss))
            /\ \A j \in 0..MaxTracks-1 : j # i => tr[j] = tracks[j]
<1> DEFINE start == toc.end + pregap
           ss    == tracks[i].sector_size
           new   == WithExtent(tracks[i], start + t, start * ss - hdr,
                             start + Quotient(tracks[i].size - hdr + ss - 1, ss))
<1> DEFINE end == start + Quotient(tracks[i].size - hdr + ss - 1, ss)
<1>0. OwnFile(i, t) = PutExtent(tracks, i, start + t, start * ss - hdr, end)
  BY DEF OwnFile, PutExtent
<1>1. tr = Put(tracks, i, new)
  <2> HIDE DEF start, ss, end
  <2>1. PutExtent(tracks, i, start + t, start * ss - hdr, end)
          = Put(tracks, i, WithExtent(tracks[i], start + t, start * ss - hdr, end))
    BY PutExtentPuts
  <2>. QED BY <1>0, <2>1 DEF start, ss, end
<1>2. IsTrack(new)
  <2>1. IsTrack(tracks[i])
    BY DEF IsTable
  <2>. QED BY <2>1, SetExtent
<1> HIDE DEF new
<1>3. IsTable(tr) /\ tr[i] = new /\ \A j \in 0..MaxTracks-1 : j # i => tr[j] = tracks[j]
  BY <1>1, <1>2, SetTrack
<1>. QED BY <1>3 DEF new

LEMMA TableIndex1 == ASSUME TableInv, Index1 PROVE TableInv'
<1> DEFINE i  == toc.last
           tr == IF tracks[i].opened THEN OwnFile(i, Cmd.t) ELSE WithinFile(i, Cmd.t)
           tc == [last |-> i + 1, end |-> IF tracks[i].opened THEN tr[i].end ELSE toc.end]
<1>0. i \in 0..MaxTracks-1 /\ IsTable(tracks) /\ cue_pc = "parse" /\ MaxTracks \in Nat \ {0}
  BY NameAssumption DEF Index1, At, TableInv, Shape
<1>1. IsTable(tr) /\ \A j \in 0..MaxTracks-1 : j > i => tr[j] = tracks[j]
  <2>1. CASE tracks[i].opened
    <3>1. tr = OwnFile(i, Cmd.t)
      BY <2>1
    <3> HIDE DEF tr
    <3>2. /\ IsTable(tr)
          /\ \A j \in 0..MaxTracks-1 : j # i => tr[j] = tracks[j]
      BY <1>0, <3>1, OwnTable
    <3>. QED BY <1>0, <3>2
  <2>2. CASE ~tracks[i].opened
    <3>1. tr = WithinFile(i, Cmd.t)
      BY <2>2
    <3> HIDE DEF tr
    <3>2. /\ IsTable(tr)
          /\ \A j \in 0..MaxTracks-1 : j # i =>
               tr[j] = IF j = i - 1 /\ tracks[j].end = 0
                       THEN [tracks[j] EXCEPT !.end = Cmd.t + pregap] ELSE tracks[j]
      BY <1>0, <3>1, WithinTable
    <3>3. ASSUME NEW j \in 0..MaxTracks-1, j > i PROVE tr[j] = tracks[j]
      <4>1. j # i /\ j # i - 1
        BY <1>0, <3>3
      <4>. QED BY <3>2, <4>1
    <3>. QED BY <3>2, <3>3
  <2>. QED BY <2>1, <2>2
<1>2. tc = [last |-> tc.last, end |-> tc.end] /\ tc.last = i + 1 /\ tc.last \in 0..MaxTracks
  BY <1>0
<1>3. aft' = aft /\ disc' = disc
  BY DEF Index1
<1>4. IF i + 1 = MaxTracks THEN CloseLast(tr, tc) /\ cue_pc' = "mount"
                           ELSE tracks' = tr /\ toc' = tc /\ cue_pc' = "parse"
  BY DEF Index1, Return, NextLine
<1> HIDE DEF tr, tc
<1>5. CASE i + 1 = MaxTracks
  BY <1>0, <1>1, <1>2, <1>3, <1>4, <1>5, ClosedTable DEF TableInv, Shape, Unused, Unloaded
<1>6. CASE i + 1 # MaxTracks
  BY <1>0, <1>1, <1>2, <1>3, <1>4, <1>6 DEF TableInv, Shape, Unused, Unloaded
<1>. QED BY <1>5, <1>6

LEMMA TableIndex0 == ASSUME TableInv, Index0 PROVE TableInv'
<1>1. UNCHANGED <<toc, aft, disc>> /\ cue_pc = "parse" /\ cue_pc' = "parse"
  BY DEF Index0, At, NextLine
<1>2. CASE tracks' = tracks
  BY <1>1, <1>2 DEF TableInv, Shape, Unused, Unloaded
<1>3. CASE toc.last > 0 /\ tracks' = [tracks EXCEPT ![toc.last - 1].end = Cmd.t + pregap]
  <2> DEFINE t == [tracks[toc.last - 1] EXCEPT !.end = Cmd.t + pregap]
  <2>1. toc.last - 1 \in 0..MaxTracks-1 /\ IsTrack(tracks[toc.last - 1])
    BY <1>1, <1>3, NameAssumption DEF TableInv, Shape, IsTable
  <2>2. IsTrack(t)
    BY <2>1, SetEnd
  <2>3. tracks' = Put(tracks, toc.last - 1, t)
    BY <1>3 DEF Put
  <2> HIDE DEF t
  <2>4. IsTable(tracks') /\ \A j \in 0..MaxTracks-1 : j # toc.last - 1 => tracks'[j] = tracks[j]
    BY <2>1, <2>2, <2>3, SetTrack DEF TableInv, Shape
  <2>. QED BY <1>1, <2>4 DEF TableInv, Shape, Unused, Unloaded
<1>. QED BY <1>2, <1>3 DEF Index0

LEMMA TableEndOfSheet == ASSUME TableInv, EndOfSheet PROVE TableInv'
<1>1. aft' = aft /\ disc' = disc /\ cue_pc' = "mount" /\ CloseLast(tracks, toc)
  BY DEF EndOfSheet, Return
<1>. QED BY <1>1, ClosedTable DEF TableInv, Shape, Unused, Unloaded

LEMMA TableSetImage == ASSUME TableInv, SetImage PROVE TableInv'
<1>1. aft' = aft /\ disc' = disc /\ cue_pc' = "done"
  BY DEF SetImage
<1>2. CASE result = 1
  BY <1>1, <1>2 DEF SetImage, table, TableInv, Shape, Unused, Unloaded
<1>3. CASE result # 1
  BY <1>1, <1>3, ClearedTable, NameAssumption DEF SetImage, TableInv, Shape, Unused, Unloaded
<1>. QED BY <1>2, <1>3

LEMMA TableStep == TableInv /\ [CueNext]_cueVars => TableInv'
<1> SUFFICES ASSUME TableInv, [CueNext]_cueVars PROVE TableInv'
  OBVIOUS
<1>1. CASE Pregap \/ OtherLine
  <2>1. UNCHANGED <<tracks, toc, aft, disc>> /\ cue_pc = "parse" /\ cue_pc' = "parse"
    BY <1>1 DEF Pregap, OtherLine, At, NextLine, table
  <2>. QED BY <2>1 DEF TableInv, Shape, Unused, Unloaded
<1>2. CASE OtherDisc
  BY <1>2 DEF OtherDisc, table, drive, TableInv, Shape, Unused, Unloaded
<1>3. CASE UNCHANGED cueVars
  BY <1>3 DEF cueVars, table, drive, TableInv, Shape, Unused, Unloaded
<1>. QED BY <1>1, <1>2, <1>3, TableReset, TableFile, TableTrackLine, TableIndex0, TableIndex1,
            TableEndOfSheet, TableSetImage DEF CueNext

LEMMA TableInit == CueInit => TableInv
<1> SUFFICES ASSUME CueInit PROVE TableInv
  OBVIOUS
<1>1. tracks = [i \in 0..MaxTracks-1 |-> Track] /\ toc = [last |-> 0, end |-> 0]
  BY DEF CueInit, Slots
<1>2. IsTable(tracks) /\ Unused
  BY <1>1, TrackIsTrack DEF IsTable, Unused
<1>. QED BY <1>1, <1>2, NameAssumption DEF CueInit, TableInv, Shape, Unloaded

LEMMA TableInvariant == CueSpec => []TableInv
BY TableInit, TableStep, PTL DEF CueSpec
-----------------------------------------------------------------------------
(***************************************************************************)
(* Plain sheets: how far the parser is, and what it has by then.  Tracks   *)
(* are counted from 0, as in the table.                                    *)
(***************************************************************************)
TrackCount == Len(disc.track)
W(j)       == disc.track[j+1]

(* A file for each track: s lines of track toc.last have been read.        *)
OwnLine(j, k) == disc.lines[5 * j + k]
OwnSize(j)    == SectorSize[OwnLine(j, 2).mode]
WavHeader     == IF disc.lines[1].wav THEN 44 ELSE 0
FileFirst(j)  == (IF j = 0 THEN 0 ELSE W(j-1).end) + Gap(OwnLine(j, 3))

OwnKind(j) ==
  /\ NameOf(tracks[j]) = W(j).file /\ tracks[j].type = W(j).type
  /\ tracks[j].size = FileSize[W(j).file] /\ tracks[j].sector_size = OwnSize(j)
OwnPlace(j) ==
  /\ tracks[j].start = W(j).start
  /\ tracks[j].offset = FileFirst(j) * OwnSize(j) - WavHeader
OwnEnd(j) == tracks[j].opened /\ tracks[j].end = W(j).end

(* The first track is not told from one of several in a file before the    *)
(* second FILE is followed by a TRACK; only then has it an end.            *)
OwnBegun(i, s) == i = 0 \/ (i = 1 /\ s < 2)

OwnBefore(i, s) ==
  /\ \A j \in 0..i-1 : OwnKind(j) /\ OwnPlace(j)
  /\ OwnBegun(i, s) => toc.end = 0 /\ (i = 1 => ~tracks[0].opened /\ tracks[0].end = 0)
  /\ ~OwnBegun(i, s) => toc.end = W(i-1).end /\ \A j \in 0..i-1 : OwnEnd(j)

OwnHere(i, s) ==
  /\ hdr = IF i = 0 /\ s = 0 THEN 0 ELSE WavHeader
  /\ File_processesd <=> s = 1
  /\ s >= 1 => NameOf(tracks[i]) = W(i).file /\ aft.size = FileSize[W(i).file]
  /\ s \in 1..2 => pregap = 0
  /\ s >= 3 => pregap = Gap(OwnLine(i, 3))
  /\ s >= 2 => OwnKind(i) /\ (tracks[i].opened <=> i >= 1)

OwnAt(i, s) ==
  /\ i = toc.last /\ i <= TrackCount /\ line = 5 * i + s + 1 /\ (s > 0 => i < TrackCount)
  /\ OwnHere(i, s) /\ OwnBefore(i, s)

OwnParse == \E i \in 0..MaxTracks, s \in 0..4 : OwnAt(i, s)

(* One file with all tracks: a track's end comes with the next.            *)
OneLine(j, k) == disc.lines[1 + 3 * j + k]
OneSize       == SectorSize[disc.lines[2].mode]

OneKind(j) ==
  /\ NameOf(tracks[j]) = W(j).file /\ tracks[j].type = W(j).type
  /\ tracks[j].size = FileSize[W(j).file] /\ tracks[j].sector_size = OneSize
  /\ ~tracks[j].opened
OnePlace(j) ==
  /\ tracks[j].start = W(j).start /\ tracks[j].offset = W(j).start * OneSize

OneFirst == line = 1 /\ toc.last = 0

OneHere(i, s) ==
  /\ (\E b : aft.name = Text(b)) /\ Trim(aft.name) = disc.lines[1].base
  /\ aft.size = FileSize[disc.lines[1].base]
  /\ File_processesd <=> i = 0 /\ s = 0
  /\ i = 0 => NameOf(tracks[0]) = W(0).file
  /\ s >= 1 => OneKind(i)
  /\ i >= 1 => tracks[i-1].end = IF s = 2 /\ OneLine(i, 2).cmd = "INDEX0"
                                THEN W(i-1).end ELSE 0
OneBefore(i) ==
  /\ \A j \in 0..i-1 : OneKind(j) /\ OnePlace(j) /\ W(j).end <= W(i-1).end
  /\ \A j \in 0..i-2 : tracks[j].end = W(j).end

OneAt(i, s) ==
  /\ i = toc.last /\ i <= TrackCount /\ line = 3 * i + s + 2 /\ (s > 0 => i < TrackCount)
  /\ OneHere(i, s) /\ OneBefore(i)

OneFlat == hdr = 0 /\ pregap = 0 /\ toc.end = 0

OneParse ==
  /\ OneFlat
  /\ OneFirst \/ \E i \in 0..MaxTracks, s \in 0..2 : OneAt(i, s)

(* What comes out in the end.                                              *)
TrackRight(j) ==
  /\ tracks[j].type = W(j).type /\ NameOf(tracks[j]) = W(j).file
  /\ tracks[j].start = W(j).start /\ tracks[j].end = W(j).end
  /\ PlaceOf(j, W(j).start) = W(j).byte
  /\ PlaceOf(j, tracks[j].end) <= FileSize[W(j).file]

AllRight == toc.last = TrackCount /\ \A j \in 0..TrackCount-1 : TrackRight(j)

PlainInv ==
  FilesApart /\ ~file_error =>
    /\ cue_pc = "parse" /\ OwnFiles(disc) => OwnParse
    /\ cue_pc = "parse" /\ OneFile(disc) => OneParse
    /\ cue_pc \in {"mount", "done"} /\ result = 1 /\ Plain(disc) => AllRight
-----------------------------------------------------------------------------
(* What a plain sheet says of its track j.                                 *)
LEMMA OwnSays ==
  ASSUME OwnFiles(disc), NEW j \in 0..TrackCount-1
  PROVE  /\ OwnLine(j, 1).cmd = "FILE" /\ OwnLine(j, 1).kind
         /\ OwnLine(j, 1).wav = disc.lines[1].wav /\ OwnLine(j, 1).base = W(j).file
         /\ IsEntry(OwnLine(j, 1))
         /\ OwnLine(j, 2).cmd = "TRACK" /\ OwnLine(j, 2).n = j + 1
         /\ OwnLine(j, 2).mode \in DOMAIN SectorSize /\ W(j).type = TypeOf[OwnLine(j, 2).mode]
         /\ OwnLine(j, 3).cmd \in {"PREGAP", "REM"} /\ Gap(OwnLine(j, 3)) \in Nat
         /\ OwnLine(j, 4).cmd \in {"INDEX0", "REM"}
         /\ OwnLine(j, 5).cmd = "INDEX1" /\ OwnLine(j, 5).t \in Nat
         /\ j = 0 => Gap(OwnLine(j, 3)) = 0 /\ OwnLine(j, 5).t = 0
         /\ W(j).start = FileFirst(j) + OwnLine(j, 5).t
         /\ W(j).byte = WavHeader + OwnSize(j) * OwnLine(j, 5).t
         /\ W(j).end \in Nat /\ W(j).start < W(j).end
         /\ FileSize[W(j).file] = WavHeader + OwnSize(j) * (W(j).end - FileFirst(j))
<1>1. TrackCount \in Nat /\ j \in Nat /\ j + 1 \in 1..TrackCount /\ (j + 1) - 1 = j
      /\ (j + 1 = 1 <=> j = 0) /\ (j - 1) + 1 = j
  BY DEF OwnFiles, TrackCount
<1> DEFINE l(k)  == disc.lines[5 * ((j + 1) - 1) + k]
           first == (IF j + 1 = 1 THEN 0 ELSE disc.track[(j+1)-1].end) + Gap(l(3))
<1>2. \A k \in 1..5 : l(k) = OwnLine(j, k)
  BY <1>1 DEF OwnLine
<1>3. first = FileFirst(j)
  BY <1>1, <1>2 DEF FileFirst, W
<1>4. /\ l(1).cmd = "FILE" /\ l(1).kind /\ l(1).wav = disc.lines[1].wav /\ IsEntry(l(1))
      /\ l(2).cmd = "TRACK" /\ l(2).n = j + 1 /\ l(2).mode \in DOMAIN SectorSize
      /\ l(3).cmd \in {"PREGAP", "REM"} /\ Gap(l(3)) \in Nat
      /\ l(4).cmd \in {"INDEX0", "REM"}
      /\ l(5).cmd = "INDEX1" /\ l(5).t \in Nat
      /\ j + 1 = 1 => Gap(l(3)) = 0 /\ l(5).t = 0
      /\ W(j).file = l(1).base /\ W(j).type = TypeOf[l(2).mode]
      /\ W(j).start = first + l(5).t /\ W(j).byte = WavHeader + SectorSize[l(2).mode] * l(5).t
      /\ W(j).end \in Nat /\ W(j).start < W(j).end
      /\ FileSize[W(j).file] = WavHeader + SectorSize[l(2).mode] * (W(j).end - first)
  BY <1>1 DEF OwnFiles, TrackCount, W, WavHeader
<1> HIDE DEF first, l
<1>. QED BY <1>1, <1>2, <1>3, <1>4 DEF OwnSize

LEMMA OneSays ==
  ASSUME OneFile(disc), NEW j \in 0..TrackCount-1
  PROVE  /\ OneLine(j, 1).cmd = "TRACK" /\ OneLine(j, 1).n = j + 1
         /\ OneLine(j, 1).mode \in DOMAIN SectorSize /\ SectorSize[OneLine(j, 1).mode] = OneSize
         /\ OneLine(j, 2).cmd \in {"INDEX0", "REM"}
         /\ OneLine(j, 3).cmd = "INDEX1" /\ OneLine(j, 3).t = W(j).start /\ W(j).start \in Nat
         /\ W(j).file = disc.lines[1].base /\ W(j).type = TypeOf[OneLine(j, 1).mode]
         /\ W(j).byte = OneSize * W(j).start
         /\ W(j).end \in Nat /\ W(j).start < W(j).end
         /\ j < TrackCount - 1 =>
              /\ OneLine(j + 1, 2).cmd = "INDEX0" => W(j).end = OneLine(j + 1, 2).t
              /\ OneLine(j + 1, 2).cmd # "INDEX0" => W(j).end = W(j + 1).start
              /\ W(j).end <= W(j + 1).start
         /\ j = TrackCount - 1 => FileSize[W(j).file] = OneSize * W(j).end
<1>1. TrackCount \in Nat /\ j \in Nat /\ j + 1 \in 1..TrackCount /\ (j + 1) - 1 = j
      /\ (j + 1 < TrackCount <=> j < TrackCount - 1)
  BY DEF OneFile, TrackCount
<1> DEFINE l(k) == disc.lines[1 + 3 * ((j + 1) - 1) + k]
           then == disc.lines[1 + 3 * (j + 1) +
                       (IF disc.lines[1 + 3 * (j + 1) + 2].cmd = "INDEX0" THEN 2 ELSE 3)]
<1>2. \A k \in 1..3 : l(k) = OneLine(j, k)
  BY <1>1 DEF OneLine
<1>3. then = IF OneLine(j + 1, 2).cmd = "INDEX0" THEN OneLine(j + 1, 2) ELSE OneLine(j + 1, 3)
  BY <1>1 DEF OneLine
<1>4. /\ l(1).cmd = "TRACK" /\ l(1).n = j + 1
      /\ l(1).mode \in DOMAIN SectorSize /\ SectorSize[l(1).mode] = OneSize
      /\ l(2).cmd \in {"INDEX0", "REM"}
      /\ l(3).cmd = "INDEX1" /\ l(3).t \in Nat
      /\ W(j).file = disc.lines[1].base /\ W(j).type = TypeOf[l(1).mode]
      /\ W(j).start = l(3).t /\ W(j).byte = OneSize * l(3).t
      /\ W(j).end \in Nat /\ W(j).start < W(j).end
      /\ IF j + 1 < TrackCount THEN W(j).end = then.t /\ W(j).end <= W(j + 1).start
                               ELSE FileSize[W(j).file] = OneSize * W(j).end
  BY <1>1 DEF OneFile, TrackCount, W, OneSize
<1>5. j + 1 < TrackCount => OneLine(j + 1, 3).t = W(j + 1).start
  <2>1. SUFFICES ASSUME j + 1 < TrackCount PROVE OneLine(j + 1, 3).t = W(j + 1).start
    OBVIOUS
  <2>2. (j + 1) + 1 \in 1..TrackCount /\ ((j + 1) + 1) - 1 = j + 1
    BY <1>1, <2>1
  <2>. QED BY <2>2, ZenonT(30) DEF OneFile, TrackCount, W, OneLine
<1> HIDE DEF then, l
<1>. QED BY <1>1, <1>2, <1>3, <1>4, <1>5
-----------------------------------------------------------------------------
(***************************************************************************)
(* A file for each track.                                                  *)
(***************************************************************************)
LEMMA OwnSizes ==
  ASSUME OwnFiles(disc), NEW j \in 0..TrackCount-1
  PROVE  OwnSize(j) \in {2048, 2352, 2448} /\ FileFirst(j) \in Nat /\ W(j).start \in Nat
<1>1. OwnSize(j) \in {2048, 2352, 2448}
  BY OwnSays DEF OwnSize, SectorSize
<1>2. j # 0 => W(j-1).end \in Nat
  <2>1. TrackCount \in Nat
    BY DEF OwnFiles, TrackCount
  <2>2. j # 0 => j - 1 \in 0..TrackCount-1
    BY <2>1
  <2>. QED BY <2>2, OwnSays
<1>3. FileFirst(j) \in Nat
  BY <1>2, OwnSays DEF FileFirst
<1>. QED BY <1>1, <1>3, OwnSays

(* The line that comes next, if any.                                       *)
LEMMA OwnCmd ==
  ASSUME OwnFiles(disc), TableInv, NEW i, NEW s \in 0..4, OwnAt(i, s)
  PROVE  /\ i \in 0..TrackCount /\ TrackCount \in 2..MaxTracks /\ i = toc.last
         /\ i < TrackCount => Cmd = OwnLine(i, s + 1) /\ HaveLine
         /\ ~HaveLine => i = TrackCount /\ s = 0
         /\ HaveLine => i < TrackCount
<1>1. TrackCount \in 2..MaxTracks /\ Len(disc.lines) = 5 * TrackCount /\ MaxTracks \in Nat
  BY NameAssumption DEF OwnFiles, TrackCount
<1>2. i \in 0..TrackCount /\ i = toc.last /\ line = 5 * i + s + 1 /\ (s > 0 => i < TrackCount)
  BY <1>1 DEF OwnAt, TableInv, Shape
<1>3. i < TrackCount => Cmd = OwnLine(i, s + 1) /\ line <= Len(disc.lines)
  <2>1. i \in Int /\ s \in Int /\ s <= 4 /\ TrackCount \in Int
    BY <1>1, <1>2
  <2>2. 5 * i + s + 1 = 5 * i + (s + 1)
    BY <2>1
  <2>3. i < TrackCount => 5 * i + s + 1 <= 5 * TrackCount
    BY <2>1
  <2>4. Cmd = disc.lines[5 * i + (s + 1)]
    BY <1>2, <2>2 DEF Cmd
  <2>. QED BY <1>1, <1>2, <2>3, <2>4 DEF OwnLine
<1>4. i < TrackCount => OwnLine(i, s + 1).cmd # "empty"
  <2>1. SUFFICES ASSUME i < TrackCount PROVE OwnLine(i, s + 1).cmd # "empty"
    OBVIOUS
  <2>2. i \in 0..TrackCount-1 /\ s + 1 \in 1..5
    BY <1>1, <1>2, <2>1
  <2>3. /\ OwnLine(i, 1).cmd = "FILE" /\ OwnLine(i, 2).cmd = "TRACK"
        /\ OwnLine(i, 3).cmd \in {"PREGAP", "REM"} /\ OwnLine(i, 4).cmd \in {"INDEX0", "REM"}
        /\ OwnLine(i, 5).cmd = "INDEX1"
    BY <2>2, OwnSays
  <2>. QED BY <2>2, <2>3
<1>5. i < TrackCount => HaveLine
  BY <1>3, <1>4 DEF HaveLine, Cmd
<1>6. i = TrackCount => ~HaveLine
  BY <1>1, <1>2 DEF HaveLine
<1>. QED BY <1>1, <1>2, <1>3, <1>5, <1>6

LEMMA FileTracks ==
  ASSUME TableInv, File
  PROVE  /\ toc.last \in 0..MaxTracks-1
         /\ tracks'[toc.last].name = NameOver(tracks[toc.last].name, Cmd)
         /\ \A f \in Fields : f # "name" => tracks'[toc.last][f] = tracks[toc.last][f]
         /\ \A j \in 0..MaxTracks-1 : j # toc.last => tracks'[j] = tracks[j]
<1>0. toc.last \in 0..MaxTracks-1 /\ IsTrack(tracks[toc.last])
  BY NameAssumption DEF File, At, TableInv, Shape, IsTable
<1> DEFINE name == NameOver(tracks[toc.last].name, Cmd)
           t    == [tracks[toc.last] EXCEPT !.name = name]
<1>1. tracks' = Put(tracks, toc.last, t)
  BY DEF File, Put
<1> HIDE DEF name
<1>2. /\ IsTrack(t) /\ t.name = name
      /\ \A f \in Fields : f # "name" => t[f] = tracks[toc.last][f]
  BY <1>0, SetName
<1> HIDE DEF t
<1>3. tracks'[toc.last] = t /\ \A j \in 0..MaxTracks-1 : j # toc.last => tracks'[j] = tracks[j]
  BY <1>0, <1>1, <1>2, SetTrack DEF TableInv, Shape
<1>. QED BY <1>0, <1>2, <1>3 DEF name

(* A FILE line whose file is opened.                                       *)
LEMMA FileOpened ==
  ASSUME TableInv, File, ~file_error', FilesApart, IsEntry(Cmd), line \in 1..Len(disc.lines),
         Cmd.kind
  PROVE  /\ NameOf(tracks'[toc.last]) = Cmd.base
         /\ aft'.name = Text(tracks'[toc.last].name) /\ aft'.size = FileSize[Cmd.base]
         /\ File_processesd' = TRUE /\ pregap' = 0
         /\ hdr' = (IF Cmd.wav THEN 44 ELSE hdr) /\ line' = line + 1 /\ cue_pc' = "parse"
         /\ disc' = disc /\ toc' = toc
<1> DEFINE name == NameOver(tracks[toc.last].name, Cmd)
<1>1. Found(Text(name)) /\ Opened(Text(name)) /\ disc' = disc /\ toc' = toc
  BY DEF File
<1>2. Trim(Text(name)) = Cmd.base
  BY <1>1, FoundName DEF File, At, Cmd, TableInv, Shape
<1>3. tracks'[toc.last].name = name
  BY FileTracks
<1> HIDE DEF name
<1>. QED BY <1>1, <1>2, <1>3 DEF Opened, NextLine, NameOf

LEMMA OwnBeforeStays ==
  ASSUME NEW i \in Nat, NEW s, NEW r, OwnBefore(i, s), OwnBegun(i, s) <=> OwnBegun(i, r),
         toc' = toc, disc' = disc, \A j \in 0..i-1 : tracks'[j] = tracks[j]
  PROVE  OwnBefore(i, r)'
<1>1. ASSUME NEW j \in 0..i-1
      PROVE  OwnKind(j)' = OwnKind(j) /\ OwnPlace(j)' = OwnPlace(j) /\ OwnEnd(j)' = OwnEnd(j)
  BY DEF OwnKind, OwnPlace, OwnEnd, FileFirst, OwnSize, OwnLine, W, WavHeader
<1>2. i = 1 => tracks'[0] = tracks[0]
  OBVIOUS
<1>3. W(i-1)' = W(i-1) /\ OwnBegun(i, r)' = OwnBegun(i, r)
  BY DEF W, OwnBegun
<1>. QED BY <1>1, <1>2, <1>3 DEF OwnBefore

LEMMA OwnFileStep ==
  ASSUME TableInv, OwnFiles(disc), NEW i, NEW s \in 0..4, OwnAt(i, s), File, ~file_error',
         FilesApart
  PROVE  cue_pc' = "parse" /\ OwnAt(i, 1)'
<1>0. i < TrackCount /\ i = toc.last /\ i \in 0..TrackCount-1 /\ TrackCount \in 2..MaxTracks
      /\ MaxTracks \in Nat /\ \A j \in 0..i-1 : j \in 0..MaxTracks-1 /\ j # i
  BY OwnCmd, NameAssumption DEF File, At
<1>1. s = 0 /\ Cmd = OwnLine(i, 1)
  <2>1. Cmd = OwnLine(i, s + 1) /\ Cmd.cmd = "FILE"
    BY <1>0, OwnCmd DEF File, At
  <2>2. s + 1 \in 1..5 /\ OwnLine(i, s + 1).cmd = "FILE"
    BY <2>1
  <2>3. s + 1 = 1
    BY <1>0, <2>2, OwnSays
  <2>. QED BY <2>1, <2>3
<1>2. Cmd.base = W(i).file /\ Cmd.kind /\ Cmd.wav = disc.lines[1].wav
      /\ IsEntry(Cmd)
  BY <1>0, <1>1, OwnSays
<1>3. line \in 1..Len(disc.lines)
  <2>1. Len(disc.lines) = 5 * TrackCount
    BY DEF OwnFiles, TrackCount
  <2>. QED BY <1>0, <1>1, <2>1 DEF OwnAt
<1>4. /\ NameOf(tracks'[i]) = Cmd.base
      /\ aft'.size = FileSize[Cmd.base] /\ File_processesd' = TRUE /\ pregap' = 0
      /\ hdr' = (IF Cmd.wav THEN 44 ELSE hdr) /\ line' = line + 1 /\ cue_pc' = "parse"
      /\ disc' = disc /\ toc' = toc
  BY <1>0, <1>2, <1>3, FileOpened
<1>5. hdr' = WavHeader
  BY <1>1, <1>2, <1>4 DEF OwnAt, OwnHere, WavHeader
<1>6. /\ NameOf(tracks'[i]) = W(i).file /\ tracks'[i]["end"] = tracks[i]["end"]
      /\ tracks'[i]["opened"] = tracks[i]["opened"]
      /\ \A j \in 0..MaxTracks-1 : j # i => tracks'[j] = tracks[j]
  BY <1>0, <1>2, <1>4, FileTracks DEF Fields
<1>7. OwnBefore(i, 1)'
  BY <1>0, <1>1, <1>4, <1>6, OwnBeforeStays DEF OwnAt, OwnBegun
<1>8. line' = 5 * i + 1 + 1 /\ toc'.last = i /\ TrackCount' = TrackCount
  BY <1>0, <1>1, <1>4 DEF OwnAt, TrackCount
<1>9. OwnHere(i, 1)'
  <2>1. W(i)' = W(i) /\ WavHeader' = WavHeader
    BY <1>4 DEF W, WavHeader
  <2>2. NameOf(tracks'[i]) = W(i)'.file /\ aft'.size = FileSize[W(i)'.file]
    BY <1>2, <1>4, <1>6, <2>1
  <2>. QED BY <1>4, <1>5, <2>1, <2>2 DEF OwnHere
<1>. QED BY <1>0, <1>4, <1>7, <1>8, <1>9 DEF OwnAt

(* TRACK, and the end that the second one gives to the first.              *)
LEMMA TrackTracks ==
  ASSUME TableInv, TrackLine, NEW i, i = toc.last, Cmd.cmd = "TRACK", Cmd.n = i + 1,
         Cmd.mode \in DOMAIN SectorSize
  PROVE  /\ i \in 0..MaxTracks-1
         /\ tracks'[i].size = aft.size /\ tracks'[i].sector_size = SectorSize[Cmd.mode]
         /\ tracks'[i].type = TypeOf[Cmd.mode]
         /\ File_processesd => tracks'[i].name = tracks[i].name
         /\ ~File_processesd => tracks'[i].name = StrCpy(tracks[i].name, aft.name)
         /\ tracks'[i].opened <=> File_processesd /\ i >= 1
         /\ tracks'[i].end = tracks[i].end
         /\ File_processesd /\ i = 1 =>
              /\ toc'.end = EndByFile(tracks[0])
              /\ tracks'[0].end = EndByFile(tracks[0]) /\ tracks'[0].opened
              /\ \A f \in Fields : f \notin {"end", "opened"} => tracks'[0][f] = tracks[0][f]
         /\ ~(File_processesd /\ i = 1) => toc'.end = toc.end
         /\ \A j \in 0..MaxTracks-1 :
              j # i /\ ~(File_processesd /\ i = 1 /\ j = 0) => tracks'[j] = tracks[j]
         /\ toc'.last = i /\ ~File_processesd' /\ cue_pc' = "parse" /\ line' = line + 1
<1>0. i \in 0..MaxTracks-1 /\ IsTable(tracks) /\ IsTrack(tracks[i]) /\ cue_pc = "parse"
  BY NameAssumption DEF TrackLine, At, TableInv, Shape, IsTable
<1>1. NewTrack(i, Cmd.n, Cmd.mode)
  BY DEF TrackLine
<1>2. Cmd.mode \in DOMAIN TypeOf
  BY DEF SectorSize, TypeOf
<1> DEFINE b == SectorSize[Cmd.mode]
           c == TypeOf[Cmd.mode]
           d == IF File_processesd THEN tracks[i].name ELSE StrCpy(tracks[i].name, aft.name)
           e == File_processesd /\ i >= 1
           t == WithKind(tracks[i], aft.size, b, c, d, e)
           first == EndedOpen(tracks[0], EndByFile(tracks[0]))
           split == File_processesd /\ i = 1
<1>3. /\ IsTrack(t) /\ t.size = aft.size /\ t.sector_size = b /\ t.type = c /\ t.name = d
      /\ t.opened = e /\ t.end = tracks[i].end
  BY <1>0, SetKind
<1>4. /\ tracks' = IF split THEN Put(Put(tracks, 1, t), 0, first) ELSE Put(tracks, i, t)
      /\ toc' = IF split THEN [toc EXCEPT !.end = first.end] ELSE toc
      /\ ~File_processesd' /\ cue_pc' = "parse" /\ line' = line + 1
  BY <1>1, <1>2 DEF NewTrack, NextLine, Put, WithKind, EndedOpen
<1>5. toc'.last = i /\ toc'.end = IF split THEN first.end ELSE toc.end
  BY <1>4 DEF TableInv, Shape
<1> HIDE DEF t
<1>6. CASE split
  <2>1. 0 \in 0..MaxTracks-1 /\ 1 \in 0..MaxTracks-1 /\ i = 1
    BY <1>0, <1>6, NameAssumption
  <2>2. /\ IsTrack(first) /\ first.end = EndByFile(tracks[0]) /\ first.opened
        /\ \A f \in Fields : f \notin {"end", "opened"} => first[f] = tracks[0][f]
    <3>1. IsTrack(tracks[0])
      BY <2>1 DEF TableInv, Shape, IsTable
    <3>2. first = EndedOpen(tracks[0], EndByFile(tracks[0]))
      OBVIOUS
    <3> DEFINE x == EndByFile(tracks[0])
               o == tracks[0]
    <3>3. first = EndedOpen(o, x)
      OBVIOUS
    <3> HIDE DEF first, o, x
    <3>4. IsTrack(EndedOpen(o, x)) /\ EndedOpen(o, x).end = x /\ EndedOpen(o, x).opened
          /\ \A f \in Fields : f \notin {"end", "opened"} => EndedOpen(o, x)[f] = o[f]
      BY <3>1, SetEndOpened DEF o
    <3>. QED BY <3>3, <3>4 DEF o, x
  <2> DEFINE tr == Put(tracks, 1, t)
  <2>3. tracks' = Put(tr, 0, first)
    BY <1>4, <1>6
  <2>4. toc'.end = first.end
    BY <1>5, <1>6
  <2> HIDE DEF first
  <2>5. IsTable(tr) /\ tr[1] = t /\ \A j \in 0..MaxTracks-1 : j # 1 => tr[j] = tracks[j]
    <3>1. IsTrack(t) /\ IsTable(tracks)
      BY <1>0, <1>3
    <3>. QED BY <2>1, <3>1, SetTrack
  <2> HIDE DEF tr
  <2>7. tracks'[0] = first /\ \A j \in 0..MaxTracks-1 : j # 0 => tracks'[j] = tr[j]
    BY <2>1, <2>2, <2>3, <2>5, SetTrack
  <2>8. tracks'[i] = t /\ \A j \in 0..MaxTracks-1 : j # i /\ j # 0 => tracks'[j] = tracks[j]
    BY <2>1, <2>5, <2>7
  <2>9. /\ toc'.end = EndByFile(tracks[0])
        /\ tracks'[0].end = EndByFile(tracks[0]) /\ tracks'[0].opened
        /\ \A f \in Fields : f \notin {"end", "opened"} => tracks'[0][f] = tracks[0][f]
    BY <2>2, <2>4, <2>7
  <2>10. \A j \in 0..MaxTracks-1 : j # i /\ ~(split /\ j = 0) => tracks'[j] = tracks[j]
    BY <1>6, <2>8
  <2> HIDE DEF b, c
  <2>11. /\ tracks'[i].size = aft.size /\ tracks'[i].sector_size = b /\ tracks'[i].type = c
         /\ tracks'[i].name = d /\ tracks'[i].opened = e /\ tracks'[i].end = tracks[i].end
    BY <1>3, <2>8
  <2>12. (File_processesd => d = tracks[i].name) /\ (~File_processesd => d = StrCpy(tracks[i].name, aft.name))
    OBVIOUS
  <2> HIDE DEF d
  <2>. QED BY <1>0, <1>4, <1>5, <1>6, <2>9, <2>10, <2>11, <2>12 DEF b, c
<1>7. CASE ~split
  <2>1. tracks' = Put(tracks, i, t) /\ toc'.end = toc.end
    BY <1>4, <1>5, <1>7
  <2> HIDE DEF first
  <2>2. tracks'[i] = t /\ \A j \in 0..MaxTracks-1 : j # i => tracks'[j] = tracks[j]
    BY <1>0, <1>3, <2>1, SetTrack DEF TableInv, Shape
  <2>11. /\ tracks'[i].size = aft.size /\ tracks'[i].sector_size = b /\ tracks'[i].type = c
         /\ tracks'[i].name = d /\ tracks'[i].opened = e /\ tracks'[i].end = tracks[i].end
    BY <1>3, <2>2
  <2>. QED BY <1>0, <1>4, <1>5, <1>7, <2>1, <2>2, <2>11
<1>. QED BY <1>6, <1>7

LEMMA OwnTrackStep ==
  ASSUME TableInv, OwnFiles(disc), NEW i, NEW s \in 0..4, OwnAt(i, s), TrackLine
  PROVE  cue_pc' = "parse" /\ OwnAt(i, 2)'
<1>0. i < TrackCount /\ i = toc.last /\ i \in 0..TrackCount-1 /\ TrackCount \in 2..MaxTracks
      /\ MaxTracks \in Nat /\ \A j \in 0..i-1 : j \in 0..MaxTracks-1 /\ j # i
  <2>1. HaveLine
    BY DEF TrackLine, At
  <2>2. i < TrackCount /\ i \in 0..TrackCount /\ TrackCount \in 2..MaxTracks /\ i = toc.last
    BY <2>1, OwnCmd
  <2>. QED BY ONLY <2>2, NameAssumption
<1>1. s = 1 /\ Cmd = OwnLine(i, 2)
  <2>1. Cmd = OwnLine(i, s + 1) /\ Cmd.cmd \in {"TRACK", "blank"}
    BY <1>0, OwnCmd DEF TrackLine, At
  <2>2. s + 1 \in 1..5 /\ OwnLine(i, s + 1).cmd \in {"TRACK", "blank"}
    BY <2>1
  <2>3. s + 1 = 2
    BY <1>0, <2>2, OwnSays
  <2>. QED BY <2>1, <2>3
<1>2. Cmd.cmd = "TRACK" /\ Cmd.n = i + 1 /\ Cmd.mode \in DOMAIN SectorSize
      /\ TypeOf[Cmd.mode] = W(i).type /\ SectorSize[Cmd.mode] = OwnSize(i)
  BY <1>0, <1>1, OwnSays DEF OwnSize
<1>3. disc' = disc /\ hdr' = hdr /\ pregap' = pregap /\ aft' = aft
  BY DEF TrackLine
<1>4. File_processesd /\ NameOf(tracks[i]) = W(i).file /\ aft.size = FileSize[W(i).file]
      /\ pregap = 0 /\ hdr = WavHeader /\ line = 5 * i + 2
  <2>1. OwnHere(i, 1) /\ line = 5 * i + 1 + 1
    BY <1>1 DEF OwnAt
  <2>2. i >= 0 /\ ~(i = 0 /\ 1 = 0)
    BY <1>0
  <2>. QED BY <2>1, <2>2, <1>0 DEF OwnHere
<1>5. /\ tracks'[i].size = aft.size /\ tracks'[i].sector_size = SectorSize[Cmd.mode]
      /\ tracks'[i].type = TypeOf[Cmd.mode] /\ NameOf(tracks'[i]) = NameOf(tracks[i])
      /\ tracks'[i].opened <=> i >= 1
      /\ toc'.last = i /\ ~File_processesd' /\ cue_pc' = "parse" /\ line' = line + 1
      /\ \A j \in 0..MaxTracks-1 : j # i /\ ~(i = 1 /\ j = 0) => tracks'[j] = tracks[j]
  BY <1>0, <1>2, <1>4, TrackTracks DEF NameOf
<1>6. OwnHere(i, 2)'
  <2>1. W(i)' = W(i) /\ WavHeader' = WavHeader /\ OwnSize(i)' = OwnSize(i)
    BY <1>3 DEF W, WavHeader, OwnSize, OwnLine
  <2>2. OwnKind(i)'
    BY <1>2, <1>4, <1>5, <2>1 DEF OwnKind
  <2>3. NameOf(tracks'[i]) = W(i)'.file /\ aft'.size = FileSize[W(i)'.file]
    BY <1>3, <1>4, <1>5, <2>1
  <2>. QED BY <1>3, <1>4, <1>5, <2>1, <2>2, <2>3 DEF OwnHere
<1>7. OwnBefore(i, 2)'
  <2>1. CASE i # 1
    <3>1. \A j \in 0..i-1 : tracks'[j] = tracks[j]
      BY <1>0, <1>5, <2>1
    <3>2. toc'.end = toc.end
      BY <1>0, <1>2, <2>1, TrackTracks
    <3>3. toc' = toc
      <4>1. toc' = [last |-> toc'.last, end |-> toc'.end]
        BY TableTrackLine DEF TableInv, Shape
      <4>. QED BY <1>0, <1>5, <3>2, <4>1 DEF TableInv, Shape
    <3>. QED BY <1>0, <1>1, <1>3, <2>1, <3>1, <3>3, OwnBeforeStays DEF OwnAt, OwnBegun
  <2>2. CASE i = 1
    <3>1. /\ toc'.end = EndByFile(tracks[0])
          /\ tracks'[0].end = EndByFile(tracks[0]) /\ tracks'[0].opened
          /\ \A f \in Fields : f \notin {"end", "opened"} => tracks'[0][f] = tracks[0][f]
      BY <1>0, <1>2, <1>4, <2>2, TrackTracks
    <3>2. OwnKind(0) /\ OwnPlace(0)
      BY <1>1, <2>2 DEF OwnAt, OwnBefore
    <3>3. 0 \in 0..TrackCount-1
      BY <1>0
    <3>4. EndByFile(tracks[0]) = W(0).end
      <4>1. FileFirst(0) = 0 /\ W(0).start = 0 /\ W(0).end \in Nat
        BY <3>3, OwnSays DEF FileFirst
      <4>2. OwnSize(0) \in {2048, 2352, 2448}
        BY <3>3, OwnSizes
      <4>3. FileSize[W(0).file] = WavHeader + OwnSize(0) * W(0).end
        BY <3>3, <4>1, <4>2, OwnSays
      <4>4. WavHeader \in {0, 44}
        BY DEF WavHeader
      <4>5. FileFirst(0) * OwnSize(0) - WavHeader = 0 - WavHeader
        BY <4>1, <4>2, <4>4
      <4>6. tracks[0].size - tracks[0].offset
              = OwnSize(0) * W(0).end + (WavHeader + WavHeader)
        <5>1. tracks[0].size = WavHeader + OwnSize(0) * W(0).end /\ tracks[0].offset = 0 - WavHeader
          BY <3>2, <4>3, <4>5 DEF OwnKind, OwnPlace
        <5>2. OwnSize(0) * W(0).end \in Nat
          BY <4>1, <4>2
        <5>. QED BY <4>4, <5>1, <5>2
      <4>7. WavHeader + WavHeader \in 0..OwnSize(0)-1
        BY <4>2, <4>4
      <4>8. Quotient(tracks[0].size - tracks[0].offset, OwnSize(0)) = W(0).end
        <5> DEFINE ss == OwnSize(0)
                   x == W(0).end
                   r == WavHeader + WavHeader
                   y == tracks[0].size - tracks[0].offset
        <5>1. ss \in {2048, 2352, 2448} /\ x \in Nat /\ r \in Nat /\ r < ss
          BY <4>1, <4>2, <4>4
        <5>2. y = ss * x + r
          BY <4>6
        <5> HIDE DEF ss, x, r, y
        <5>3. y \in Int
          BY <5>1, <5>2
        <5>6. Whole(y, ss, x, r)
          BY <5>2 DEF Whole
        <5>4. Quotient(y, ss) = x
          BY <5>1, <5>3, <5>6, WholeSectors
        <5>. QED BY <5>4 DEF ss, x, y
      <4>. QED BY <3>2, <4>1, <4>8 DEF EndByFile, OwnKind, OwnPlace
    <3>5. W(0)' = W(0) /\ W(i-1)' = W(0) /\ WavHeader' = WavHeader /\ OwnSize(0)' = OwnSize(0)
          /\ FileFirst(0)' = FileFirst(0)
      BY <1>3, <2>2 DEF W, WavHeader, OwnSize, OwnLine, FileFirst
    <3>6. OwnKind(0)' /\ OwnPlace(0)'
      BY <3>1, <3>2, <3>5 DEF OwnKind, OwnPlace, Fields, NameOf
    <3>7. OwnEnd(0)'
      BY <3>1, <3>4, <3>5 DEF OwnEnd
    <3>8. \A j \in 0..i-1 : j = 0
      BY <2>2
    <3>. QED BY <2>2, <3>1, <3>4, <3>5, <3>6, <3>7, <3>8 DEF OwnBefore, OwnBegun
  <2>. QED BY <2>1, <2>2
<1>. QED
  <2>1. TrackCount' = TrackCount
    BY <1>3 DEF TrackCount
  <2>. QED BY <1>0, <1>4, <1>5, <1>6, <1>7, <2>1 DEF OwnAt

(* The lines of a track that tell nothing new.                             *)
LEMMA OwnQuietStep ==
  ASSUME TableInv, OwnFiles(disc), NEW i, NEW s \in 0..4, OwnAt(i, s),
         Pregap \/ OtherLine \/ Index0
  PROVE  s \in 2..3 /\ cue_pc' = "parse" /\ OwnAt(i, s + 1)'
<1>0. i < TrackCount /\ i = toc.last /\ i \in 0..TrackCount-1 /\ TrackCount \in 2..MaxTracks
      /\ MaxTracks \in Nat /\ \A j \in 0..i-1 : j \in 0..MaxTracks-1 /\ j # i
  BY OwnCmd, NameAssumption DEF Pregap, OtherLine, Index0, At
<1>1. Cmd = OwnLine(i, s + 1) /\ Cmd.cmd \in {"PREGAP", "REM", "INDEX0"}
  BY <1>0, OwnCmd DEF Pregap, OtherLine, Index0, At
<1>2. s \in 2..3 /\ (Cmd.cmd = "PREGAP" => s = 2) /\ (Cmd.cmd = "INDEX0" => s = 3)
  <2>1. s + 1 \in 1..5 /\ OwnLine(i, s + 1).cmd \in {"PREGAP", "REM", "INDEX0"}
    BY <1>1
  <2>2. s + 1 \in 3..4
    BY <1>0, <2>1, OwnSays
  <2>3. s \in 2..3
    BY <2>2
  <2>4. s = 2 => Cmd.cmd # "INDEX0"
    BY <1>0, <1>1, OwnSays
  <2>5. s = 3 => Cmd.cmd # "PREGAP"
    BY <1>0, <1>1, OwnSays
  <2>. QED BY <2>3, <2>4, <2>5
<1>3. ~OwnBegun(i, s) \/ i = 0
  BY <1>2 DEF OwnBegun
<1>4. tracks' = tracks
  <2>1. CASE Index0
    <3>1. SUFFICES ASSUME i > 0 PROVE tracks[i-1].end # 0
      BY <1>0, <2>1 DEF Index0
    <3>2. i - 1 \in 0..i-1 /\ i - 1 \in 0..TrackCount-1
      BY <1>0, <3>1
    <3>3. tracks[i-1].end = W(i-1).end
      BY <1>3, <3>1, <3>2 DEF OwnAt, OwnBefore, OwnEnd
    <3>4. W(i-1).start \in Nat /\ W(i-1).end \in Nat /\ W(i-1).start < W(i-1).end
      BY <3>2, OwnSizes, OwnSays
    <3>. QED BY <3>3, <3>4
  <2>2. CASE Pregap \/ OtherLine
    BY <2>2 DEF Pregap, OtherLine, table
  <2>. QED BY <2>1, <2>2
<1>5. /\ toc' = toc /\ disc' = disc /\ hdr' = hdr /\ aft' = aft /\ File_processesd' = File_processesd
      /\ line' = line + 1 /\ cue_pc' = "parse"
  BY DEF Pregap, OtherLine, Index0, NextLine, table
<1>6. pregap' = Gap(OwnLine(i, 3))
  <2>1. CASE s = 2
    <3>1. pregap = 0 /\ Cmd = OwnLine(i, 3) /\ Gap(OwnLine(i, 3)) \in Nat
      BY <1>0, <1>1, <2>1, OwnSays DEF OwnAt, OwnHere
    <3>2. CASE Pregap
      <4>1. pregap' = pregap + Cmd.t /\ Cmd.cmd = "PREGAP"
        BY <3>2 DEF Pregap, At
      <4>. QED BY <3>1, <4>1 DEF Gap
    <3>3. CASE ~Pregap
      <4>1. pregap' = pregap /\ Cmd.cmd # "PREGAP"
        BY <3>3 DEF OtherLine, Index0, At
      <4>. QED BY <3>1, <4>1 DEF Gap
    <3>. QED BY <3>2, <3>3
  <2>2. CASE s = 3
    <3>1. Cmd.cmd # "PREGAP" /\ pregap = Gap(OwnLine(i, 3))
      BY <1>2, <2>2 DEF OwnAt, OwnHere
    <3>2. pregap' = pregap
      BY <3>1 DEF Pregap, OtherLine, Index0, At
    <3>. QED BY <3>1, <3>2
  <2>. QED BY <1>2, <2>1, <2>2
<1>7. OwnHere(i, s + 1)'
  <2>1. /\ W(i)' = W(i) /\ WavHeader' = WavHeader /\ OwnSize(i)' = OwnSize(i)
        /\ OwnLine(i, 3)' = OwnLine(i, 3)
    BY <1>5 DEF W, WavHeader, OwnSize, OwnLine
  <2>2. /\ hdr = WavHeader /\ ~File_processesd
        /\ NameOf(tracks[i]) = W(i).file /\ aft.size = FileSize[W(i).file]
        /\ OwnKind(i) /\ (tracks[i].opened <=> i >= 1)
    <3>1. s >= 1 /\ s >= 2 /\ ~(i = 0 /\ s = 0) /\ s # 1
      BY <1>2
    <3>. QED BY <3>1 DEF OwnAt, OwnHere
  <2>3. OwnKind(i)'
    BY <1>4, <2>1, <2>2 DEF OwnKind
  <2>4. s + 1 >= 3 /\ s + 1 # 0 /\ s + 1 # 1 /\ s + 1 \notin 1..2
    BY <1>2
  <2>. QED BY <1>4, <1>5, <1>6, <2>1, <2>2, <2>3, <2>4 DEF OwnHere
<1>8. OwnBefore(i, s + 1)'
  <2>1. OwnBegun(i, s) <=> OwnBegun(i, s + 1)
    BY <1>2 DEF OwnBegun
  <2>. QED BY <1>0, <1>4, <1>5, <2>1, OwnBeforeStays DEF OwnAt
<1>9. TrackCount' = TrackCount /\ line' = 5 * i + (s + 1) + 1
  <2>1. line = 5 * i + s + 1
    BY DEF OwnAt
  <2>2. TrackCount' = TrackCount
    BY <1>5 DEF TrackCount
  <2>. QED BY <1>0, <1>2, <1>5, <2>1, <2>2
<1>. QED BY <1>0, <1>2, <1>5, <1>7, <1>8, <1>9 DEF OwnAt

(* A last track that has its end is closed as it is.                       *)
LEMMA CloseKeeps ==
  ASSUME NEW tr, IsTable(tr), NEW tc, tc = [last |-> tc.last, end |-> tc.end],
         tc.last \in 1..MaxTracks, tr[tc.last - 1].opened, tr[tc.last - 1].end # 0,
         CloseLast(tr, tc)
  PROVE  toc'.last = tc.last /\ toc'.end = tc.end /\ \A j \in 0..MaxTracks-1 : tracks'[j] = tr[j]
<1> DEFINE i == tc.last - 1
<1>1. i \in 0..MaxTracks-1 /\ tc.last # 0 /\ IsTrack(tr[i])
  BY NameAssumption DEF IsTable
<1>2. tracks' = [tr EXCEPT ![i].end = tr[i].end] /\ toc' = [tc EXCEPT !.end = tc.end]
  BY <1>1 DEF CloseLast
<1> DEFINE t == [tr[i] EXCEPT !.end = tr[i].end]
<1>3. tracks' = Put(tr, i, t)
  BY <1>2 DEF Put
<1>4. t = tr[i]
  BY <1>1 DEF IsTrack, Fields
<1>5. tracks' = Put(tr, i, tr[i])
  BY <1>3, <1>4
<1> HIDE DEF t, i
<1>6. \A j \in 0..MaxTracks-1 : tracks'[j] = tr[j]
  BY <1>1, <1>5, SetTrack
<1>. QED BY <1>2, <1>6

(* All tracks read is all tracks right.                                    *)
LEMMA OwnAllRight ==
  ASSUME OwnFiles(disc), disc' = disc, toc'.last = TrackCount, OwnBefore(TrackCount, 0)'
  PROVE  AllRight'
<1>0. TrackCount \in Nat /\ TrackCount >= 2 /\ TrackCount' = TrackCount
  BY NameAssumption DEF OwnFiles, TrackCount
<1>1. ~OwnBegun(TrackCount, 0)'
  BY <1>0 DEF OwnBegun
<1>2. SUFFICES ASSUME NEW j \in 0..TrackCount-1 PROVE TrackRight(j)'
  BY <1>0 DEF AllRight
<1>3. OwnKind(j)' /\ OwnPlace(j)' /\ OwnEnd(j)'
  BY <1>0, <1>1, <1>2 DEF OwnBefore
<1>4. /\ W(j)' = W(j) /\ FileFirst(j)' = FileFirst(j) /\ OwnSize(j)' = OwnSize(j)
      /\ WavHeader' = WavHeader
  BY DEF W, FileFirst, OwnSize, OwnLine, WavHeader
<1>5. /\ NameOf(tracks'[j]) = W(j).file /\ tracks'[j].type = W(j).type
      /\ tracks'[j].sector_size = OwnSize(j)
      /\ tracks'[j].start = W(j).start /\ tracks'[j].end = W(j).end /\ tracks'[j].opened
      /\ tracks'[j].offset = FileFirst(j) * OwnSize(j) - WavHeader
  BY <1>3, <1>4 DEF OwnKind, OwnPlace, OwnEnd
<1>6. /\ OwnSize(j) \in {2048, 2352, 2448} /\ FileFirst(j) \in Nat /\ W(j).start \in Nat
      /\ W(j).start = FileFirst(j) + OwnLine(j, 5).t /\ OwnLine(j, 5).t \in Nat
      /\ W(j).byte = WavHeader + OwnSize(j) * OwnLine(j, 5).t
      /\ W(j).end \in Nat
      /\ FileSize[W(j).file] = WavHeader + OwnSize(j) * (W(j).end - FileFirst(j))
      /\ WavHeader \in {0, 44}
  BY <1>2, OwnSays, OwnSizes DEF WavHeader
<1> DEFINE f == FileFirst(j)
           u == OwnLine(j, 5).t
           e == W(j).end
           h == WavHeader
           ss == OwnSize(j)
<1>7. /\ PlaceOf(j, W(j).start)' = W(j).start * ss - (f * ss - h)
      /\ PlaceOf(j, tracks[j].end)' = e * ss - (f * ss - h)
  BY <1>4, <1>5 DEF PlaceOf
<1>8. f \in Nat /\ u \in Nat /\ e \in Nat /\ h \in {0, 44} /\ ss \in {2048, 2352, 2448}
  BY <1>6
<1>9. W(j).start = f + u /\ W(j).byte = h + ss * u /\ FileSize[W(j).file] = h + ss * (e - f)
  BY <1>6
<1> HIDE DEF f, u, h, ss
<1>10. (f + u) * ss - (f * ss - h) = h + ss * u
  BY <1>8
<1>11. e * ss - (f * ss - h) = h + ss * (e - f) /\ h + ss * (e - f) \in Int
  <2> HIDE DEF e
  <2>. QED BY <1>8
<1>12. PlaceOf(j, W(j).start)' = W(j).byte /\ PlaceOf(j, tracks[j].end)' <= FileSize[W(j).file]
  BY <1>7, <1>9, <1>10, <1>11
<1>. QED BY <1>4, <1>5, <1>12 DEF TrackRight, e

LEMMA OwnIndexStep ==
  ASSUME TableInv, OwnFiles(disc), NEW i, NEW s \in 0..4, OwnAt(i, s), Index1
  PROVE  /\ cue_pc' = "parse" => OwnAt(i + 1, 0)'
         /\ cue_pc' # "parse" => AllRight'
<1>0. i < TrackCount /\ i = toc.last /\ i \in 0..TrackCount-1 /\ TrackCount \in 2..MaxTracks
      /\ MaxTracks \in Nat /\ \A j \in 0..i-1 : j \in 0..MaxTracks-1 /\ j # i
  <2>1. HaveLine
    BY DEF Index1, At
  <2>2. i \in 0..TrackCount /\ TrackCount \in 2..MaxTracks /\ i = toc.last /\ i < TrackCount
    BY <2>1, OwnCmd
  <2>. QED BY <2>2, NameAssumption
<1>1. s = 4 /\ Cmd = OwnLine(i, 5)
  <2>1. Cmd = OwnLine(i, s + 1) /\ Cmd.cmd = "INDEX1"
    BY <1>0, OwnCmd DEF Index1, At
  <2>2. s + 1 \in 1..5 /\ OwnLine(i, s + 1).cmd = "INDEX1"
    BY <2>1
  <2>3. s + 1 = 5
    BY <1>0, <2>2, OwnSays
  <2>. QED BY <2>1, <2>3
<1>2. disc' = disc /\ hdr' = hdr /\ pregap' = pregap /\ aft' = aft /\ File_processesd' = File_processesd
  BY DEF Index1
<1>3. /\ hdr = WavHeader /\ ~File_processesd /\ pregap = Gap(OwnLine(i, 3))
      /\ OwnKind(i) /\ (tracks[i].opened <=> i >= 1) /\ line = 5 * i + 5 /\ OwnBefore(i, 4)
  BY <1>0, <1>1 DEF OwnAt, OwnHere
<1> DEFINE tr == IF tracks[i].opened THEN OwnFile(i, Cmd.t) ELSE WithinFile(i, Cmd.t)
           tc == [last |-> i + 1, end |-> IF tracks[i].opened THEN tr[i].end ELSE toc.end]
<1>4. /\ i + 1 = MaxTracks => CloseLast(tr, tc) /\ cue_pc' = "mount"
      /\ i + 1 # MaxTracks => tracks' = tr /\ toc' = tc /\ cue_pc' = "parse" /\ line' = line + 1
  BY <1>0 DEF Index1, Return, NextLine
<1>5. /\ OwnSize(i) \in {2048, 2352, 2448} /\ FileFirst(i) \in Nat /\ W(i).start \in Nat
      /\ W(i).start = FileFirst(i) + OwnLine(i, 5).t /\ OwnLine(i, 5).t \in Nat
      /\ W(i).end \in Nat /\ W(i).start < W(i).end
      /\ FileSize[W(i).file] = WavHeader + OwnSize(i) * (W(i).end - FileFirst(i))
  BY <1>0, OwnSizes, OwnSays
<1>6. /\ IsTable(tr)
      /\ \A j \in 0..i-1 : tr[j] = tracks[j]
      /\ NameOf(tr[i]) = NameOf(tracks[i]) /\ tr[i].type = tracks[i].type /\ tr[i].size = tracks[i].size
      /\ tr[i].sector_size = tracks[i].sector_size /\ (tr[i].opened <=> i >= 1)
      /\ tr[i].start = W(i).start /\ tr[i].offset = FileFirst(i) * OwnSize(i) - WavHeader
      /\ i = 0 => tr[i].end = 0 /\ toc.end = 0
      /\ i >= 1 => tr[i].end = W(i).end
  <2>0. IsTable(tracks) /\ i \in 0..MaxTracks-1 /\ IsTrack(tracks[i])
    BY <1>0 DEF TableInv, Shape, IsTable
  <2>1. CASE i = 0
    <3>1. tr = WithinFile(i, Cmd.t)
      BY <1>3, <2>1
    <3>2. /\ toc.end = 0 /\ tracks[i].end = 0 /\ FileFirst(i) = 0 /\ pregap = 0
          /\ Cmd.t = 0 /\ W(i).start = 0
      <4>1. OwnBegun(i, 4)
        BY <2>1 DEF OwnBegun
      <4>2. toc.end = 0 /\ tracks[i].end = 0
        BY <1>0, <1>3, <2>0, <4>1 DEF OwnBefore, TableInv, Unused
      <4>3. Gap(OwnLine(i, 3)) = 0 /\ OwnLine(i, 5).t = 0
        BY <1>0, <2>1, OwnSays
      <4>. QED BY <1>1, <1>3, <1>5, <2>1, <4>2, <4>3 DEF FileFirst
    <3> HIDE DEF tr
    <3> DEFINE n == WithPlace(tracks[i], Cmd.t + pregap, (Cmd.t + pregap) * tracks[i].sector_size - hdr)
    <3>3. IsTable(tr) /\ tr[i] = n
      BY <2>0, <3>1, WithinTable
    <3>4. /\ n.start = Cmd.t + pregap /\ n.offset = (Cmd.t + pregap) * tracks[i].sector_size - hdr
          /\ \A f \in Fields : f \notin {"start", "offset"} => n[f] = tracks[i][f]
      BY <2>0, SetPlace
    <3> HIDE DEF n
    <3>5. /\ n["name"] = tracks[i]["name"] /\ n["type"] = tracks[i]["type"]
          /\ n["size"] = tracks[i]["size"] /\ n["opened"] = tracks[i]["opened"]
          /\ n["sector_size"] = tracks[i]["sector_size"] /\ n["end"] = tracks[i]["end"]
      BY <3>4 DEF Fields
    <3>6. tracks[i].sector_size = OwnSize(i)
      BY <1>3 DEF OwnKind
    <3>7. n.start = 0 /\ n.offset = 0 * OwnSize(i) - WavHeader
      BY <1>3, <3>2, <3>4, <3>6
    <3>8. \A j \in 0..i-1 : FALSE
      BY <2>1
    <3>. QED BY <1>3, <2>1, <3>2, <3>3, <3>5, <3>7, <3>8 DEF NameOf
  <2>2. CASE i >= 1
    <3>1. tr = OwnFile(i, Cmd.t)
      BY <1>3, <2>2
    <3>2. toc.end + pregap = FileFirst(i)
      <4>1. ~OwnBegun(i, 4)
        BY <2>2 DEF OwnBegun
      <4>2. toc.end = W(i-1).end
        BY <1>3, <4>1 DEF OwnBefore
      <4>. QED BY <1>3, <2>2, <4>2 DEF FileFirst
    <3> HIDE DEF tr
    <3> DEFINE ss == OwnSize(i)
               start == FileFirst(i)
               q == Quotient(tracks[i].size - hdr + ss - 1, ss)
               n == WithExtent(tracks[i], start + Cmd.t, start * ss - hdr, start + q)
    <3>3. tracks[i].sector_size = ss /\ tracks[i].size = FileSize[W(i).file]
      BY <1>3 DEF OwnKind
    <3>4. IsTable(tr) /\ tr[i] = n /\ \A j \in 0..MaxTracks-1 : j # i => tr[j] = tracks[j]
      BY <2>0, <3>1, <3>2, <3>3, OwnTable
    <3>5. q = W(i).end - start
      <4> DEFINE x == W(i).end - start
                 y == tracks[i].size - hdr + ss - 1
                 r == ss - 1
                 h == WavHeader
      <4>1. ss \in {2048, 2352, 2448} /\ x \in Nat /\ r \in Nat /\ r < ss /\ h \in {0, 44}
        BY <1>5 DEF WavHeader
      <4>2. y = (h + ss * x) - h + ss - 1
        BY <1>3, <1>5, <3>3
      <4>3. r = ss - 1
        OBVIOUS
      <4> HIDE DEF ss, x, y, r, h
      <4>4. y \in Int /\ y = ss * x + r
        BY <4>1, <4>2, <4>3
      <4>5. Whole(y, ss, x, r)
        BY <4>4 DEF Whole
      <4>6. Quotient(y, ss) = x
        BY <4>1, <4>4, <4>5, WholeSectors
      <4>. QED BY <4>6 DEF x, y, ss
    <3>6. /\ n.start = start + Cmd.t /\ n.offset = start * ss - hdr /\ n.end = start + q
          /\ \A f \in Fields : f \notin {"start", "offset", "end"} => n[f] = tracks[i][f]
      BY <2>0, SetExtent
    <3> HIDE DEF n
    <3>7. /\ n["name"] = tracks[i]["name"] /\ n["type"] = tracks[i]["type"]
          /\ n["size"] = tracks[i]["size"] /\ n["opened"] = tracks[i]["opened"]
          /\ n["sector_size"] = tracks[i]["sector_size"]
      BY <3>6 DEF Fields
    <3> HIDE DEF q
    <3>8. n.start = W(i).start /\ n.offset = FileFirst(i) * OwnSize(i) - WavHeader /\ n.end = W(i).end
      <4>1. n.start = W(i).start /\ n.offset = FileFirst(i) * OwnSize(i) - WavHeader
        BY <1>1, <1>3, <1>5, <3>6
      <4>2. n.end = W(i).end
        BY <1>5, <3>5, <3>6
      <4>. QED BY <4>1, <4>2
    <3>9. \A j \in 0..i-1 : tr[j] = tracks[j]
      BY <1>0, <3>4
    <3>. QED BY <1>3, <2>2, <3>4, <3>7, <3>8, <3>9 DEF NameOf
  <2>. QED BY <1>0, <2>1, <2>2
<1>7. tc.last = i + 1 /\ tc.end = (IF i >= 1 THEN W(i).end ELSE 0)
      /\ tc = [last |-> tc.last, end |-> tc.end]
  BY <1>0, <1>3, <1>6
<1> HIDE DEF tr, tc
<1>8. /\ toc'.last = i + 1 /\ toc'.end = tc.end /\ \A j \in 0..i : tracks'[j] = tr[j]
  <2>1. CASE i + 1 = MaxTracks
    <3>1. tc.last \in 1..MaxTracks /\ tc.last - 1 = i /\ i >= 1
      BY <1>0, <1>7, <2>1
    <3>2. tr[tc.last - 1].opened /\ tr[tc.last - 1].end # 0
      BY <1>5, <1>6, <3>1
    <3>3. toc'.last = tc.last /\ toc'.end = tc.end /\ \A j \in 0..MaxTracks-1 : tracks'[j] = tr[j]
      BY <1>4, <1>6, <1>7, <2>1, <3>1, <3>2, CloseKeeps
    <3>. QED BY <1>0, <1>7, <3>3
  <2>2. CASE i + 1 # MaxTracks
    BY <1>4, <1>7, <2>2
  <2>. QED BY <2>1, <2>2
<1>9. OwnBefore(i + 1, 0)'
  <2>1. \A j \in 0..i : j \in 0..i-1 \/ j = i
    BY <1>0
  <2>2. ASSUME NEW j \in 0..i PROVE OwnKind(j)' /\ OwnPlace(j)'
    <3>1. W(j)' = W(j) /\ OwnSize(j)' = OwnSize(j) /\ FileFirst(j)' = FileFirst(j) /\ WavHeader' = WavHeader
      BY <1>2 DEF W, OwnSize, OwnLine, FileFirst, WavHeader
    <3>2. CASE j \in 0..i-1
      BY <1>3, <1>6, <1>8, <3>1, <3>2 DEF OwnBefore, OwnKind, OwnPlace
    <3>3. CASE j = i
      BY <1>3, <1>6, <1>8, <3>1, <3>3 DEF OwnKind, OwnPlace
    <3>. QED BY <2>1, <3>2, <3>3
  <2>3. (i + 1) - 1 = i /\ W(i)' = W(i) /\ W((i + 1) - 1)' = W(i)
    BY <1>0, <1>2 DEF W
  <2>4. CASE i = 0
    <3>1. OwnBegun(i + 1, 0)'
      BY <2>4 DEF OwnBegun
    <3>2. toc'.end = 0 /\ ~tracks'[0].opened /\ tracks'[0].end = 0
      BY <1>6, <1>7, <1>8, <2>4
    <3>. QED BY <2>2, <2>3, <2>4, <3>1, <3>2 DEF OwnBefore
  <2>5. CASE i >= 1
    <3>1. ~OwnBegun(i + 1, 0)' /\ ~OwnBegun(i, 4)
      BY <1>0, <2>5 DEF OwnBegun
    <3>2. ASSUME NEW j \in 0..i PROVE OwnEnd(j)'
      <4>1. W(j)' = W(j)
        BY <1>2 DEF W
      <4>2. CASE j \in 0..i-1
        BY <1>3, <1>6, <1>8, <3>1, <4>1, <4>2 DEF OwnBefore, OwnEnd
      <4>3. CASE j = i
        BY <1>6, <1>8, <2>5, <4>1, <4>3 DEF OwnEnd
      <4>. QED BY <2>1, <4>2, <4>3
    <3>3. toc'.end = W((i + 1) - 1)'.end
      BY <1>7, <1>8, <2>3, <2>5
    <3>. QED BY <2>2, <2>3, <3>1, <3>2, <3>3 DEF OwnBefore
  <2>. QED BY <1>0, <2>4, <2>5
<1>10. TrackCount' = TrackCount
  BY <1>2 DEF TrackCount
<1>11. ASSUME cue_pc' = "parse" PROVE OwnAt(i + 1, 0)'
  <2>1. OwnHere(i + 1, 0)'
    <3>1. WavHeader' = WavHeader /\ i + 1 # 0
      BY <1>0, <1>2 DEF WavHeader
    <3>. QED BY <1>2, <1>3, <3>1 DEF OwnHere
  <2>2. line' = 5 * (i + 1) + 0 + 1
    BY <1>0, <1>3, <1>4, <1>11
  <2>. QED BY <1>0, <1>8, <1>9, <1>10, <2>1, <2>2 DEF OwnAt
<1>12. ASSUME cue_pc' # "parse" PROVE AllRight'
  <2>1. i + 1 = MaxTracks /\ i + 1 = TrackCount
    BY <1>0, <1>4, <1>12
  <2>2. toc'.last = TrackCount /\ OwnBefore(TrackCount, 0)'
    BY <1>8, <1>9, <1>10, <2>1
  <2>. QED BY <1>2, <2>2, OwnAllRight
<1>. QED BY <1>11, <1>12

LEMMA OwnEndStep ==
  ASSUME TableInv, OwnFiles(disc), NEW i, NEW s \in 0..4, OwnAt(i, s), EndOfSheet
  PROVE  AllRight'
<1>0. i = TrackCount /\ s = 0 /\ i = toc.last /\ TrackCount \in 2..MaxTracks
  <2>1. ~HaveLine
    BY DEF EndOfSheet
  <2>. QED BY <2>1, OwnCmd
<1>1. OwnBefore(i, 0) /\ ~OwnBegun(i, 0)
  BY <1>0 DEF OwnAt, OwnBegun
<1>2. MaxTracks \in Nat /\ i - 1 \in 0..i-1 /\ i - 1 \in 0..TrackCount-1 /\ i \in 1..MaxTracks
      /\ i \in Nat
  BY <1>0, NameAssumption
<1>3. tracks[i-1].opened /\ tracks[i-1].end = W(i-1).end
  BY <1>1, <1>2 DEF OwnBefore, OwnEnd
<1>4. tracks[i-1].end # 0
  <2>1. W(i-1).start \in Nat /\ W(i-1).end \in Nat /\ W(i-1).start < W(i-1).end
    BY <1>2, OwnSizes, OwnSays
  <2>. QED BY <1>3, <2>1
<1>5. CloseLast(tracks, toc) /\ disc' = disc
  BY DEF EndOfSheet
<1>6. toc'.last = toc.last /\ toc'.end = toc.end /\ \A j \in 0..MaxTracks-1 : tracks'[j] = tracks[j]
  BY <1>0, <1>2, <1>3, <1>4, <1>5, CloseKeeps DEF TableInv, Shape
<1>7. toc' = toc
  BY <1>6, TableEndOfSheet DEF TableInv, Shape
<1>8. OwnBefore(i, 0)'
  <2>1. \A j \in 0..i-1 : tracks'[j] = tracks[j]
    BY <1>0, <1>2, <1>6
  <2>. QED BY <1>1, <1>2, <1>5, <1>7, <2>1, OwnBeforeStays
<1>9. TrackCount' = TrackCount
  BY <1>5 DEF TrackCount
<1>. QED BY <1>0, <1>5, <1>6, <1>8, <1>9, OwnAllRight
-----------------------------------------------------------------------------
(***************************************************************************)
(* One file with all tracks.                                               *)
(***************************************************************************)
LEMMA OneCount ==
  ASSUME OneFile(disc)
  PROVE  /\ TrackCount \in 1..MaxTracks /\ MaxTracks \in Nat /\ Len(disc.lines) = 1 + 3 * TrackCount
         /\ disc.lines[1].cmd = "FILE" /\ disc.lines[1].kind /\ ~disc.lines[1].wav
         /\ OneSize \in {2048, 2352, 2448}
<1>1. /\ TrackCount \in 1..MaxTracks /\ MaxTracks \in Nat /\ Len(disc.lines) = 1 + 3 * TrackCount
      /\ disc.lines[1].cmd = "FILE" /\ disc.lines[1].kind /\ ~disc.lines[1].wav
  BY NameAssumption DEF OneFile, TrackCount
<1>2. OneSize \in {2048, 2352, 2448}
  <2>1. 0 \in 0..TrackCount-1
    BY <1>1
  <2>2. OneLine(0, 1).mode \in DOMAIN SectorSize /\ SectorSize[OneLine(0, 1).mode] = OneSize
    BY <2>1, OneSays
  <2>. QED BY <2>2 DEF SectorSize
<1>. QED BY <1>1, <1>2

LEMMA OneCmd ==
  ASSUME OneFile(disc), TableInv, NEW i, NEW s \in 0..2, OneAt(i, s)
  PROVE  /\ i \in 0..TrackCount /\ i = toc.last
         /\ i < TrackCount => Cmd = OneLine(i, s + 1) /\ HaveLine
         /\ ~HaveLine => i = TrackCount /\ s = 0
         /\ HaveLine => i < TrackCount
<1>1. TrackCount \in 1..MaxTracks /\ Len(disc.lines) = 1 + 3 * TrackCount /\ MaxTracks \in Nat
  BY OneCount
<1>2. i \in 0..TrackCount /\ i = toc.last /\ line = 3 * i + s + 2 /\ (s > 0 => i < TrackCount)
  BY <1>1 DEF OneAt, TableInv, Shape
<1>3. i < TrackCount => Cmd = OneLine(i, s + 1) /\ line <= Len(disc.lines)
  <2>1. i \in Int /\ s \in Int /\ s <= 2 /\ TrackCount \in Int
    BY <1>1, <1>2
  <2>2. 3 * i + s + 2 = 1 + 3 * i + (s + 1)
    BY <2>1
  <2>3. i < TrackCount => 3 * i + s + 2 <= 1 + 3 * TrackCount
    BY <2>1
  <2>4. Cmd = disc.lines[1 + 3 * i + (s + 1)]
    BY <1>2, <2>2 DEF Cmd
  <2>. QED BY <1>1, <1>2, <2>3, <2>4 DEF OneLine
<1>4. i < TrackCount => OneLine(i, s + 1).cmd # "empty"
  <2>1. SUFFICES ASSUME i < TrackCount PROVE OneLine(i, s + 1).cmd # "empty"
    OBVIOUS
  <2>2. i \in 0..TrackCount-1 /\ s + 1 \in 1..3
    BY <1>1, <1>2, <2>1
  <2>3. /\ OneLine(i, 1).cmd = "TRACK" /\ OneLine(i, 2).cmd \in {"INDEX0", "REM"}
        /\ OneLine(i, 3).cmd = "INDEX1"
    BY <2>2, OneSays
  <2>. QED BY <2>2, <2>3
<1>5. i < TrackCount => HaveLine
  BY <1>3, <1>4 DEF HaveLine, Cmd
<1>6. i = TrackCount => ~HaveLine
  BY <1>1, <1>2 DEF HaveLine
<1>. QED BY <1>1, <1>2, <1>3, <1>5, <1>6

(* A line that is read at OneAt belongs to a track.                        *)
LEMMA OneHave ==
  ASSUME OneFile(disc), TableInv, NEW i, NEW s \in 0..2, OneAt(i, s), HaveLine
  PROVE  /\ i < TrackCount /\ i = toc.last /\ i \in 0..TrackCount-1 /\ i \in 0..MaxTracks-1
         /\ TrackCount \in 1..MaxTracks /\ MaxTracks \in Nat
         /\ \A j \in 0..i-1 : j \in 0..MaxTracks-1 /\ j # i /\ j \in 0..TrackCount-1
         /\ Cmd.cmd = "TRACK" => s = 0
         /\ Cmd.cmd \in {"INDEX0", "REM"} => s = 1
         /\ Cmd.cmd = "INDEX1" => s = 2
         /\ Cmd.cmd \in {"TRACK", "INDEX0", "REM", "INDEX1"}
         /\ Cmd = OneLine(i, s + 1)
<1>1. i \in 0..TrackCount /\ i = toc.last /\ Cmd = OneLine(i, s + 1) /\ i < TrackCount
  BY OneCmd
<1>2. TrackCount \in 1..MaxTracks /\ MaxTracks \in Nat
  BY OneCount
<1>3. i \in 0..TrackCount-1 /\ i \in 0..MaxTracks-1
  BY <1>1, <1>2
<1>4. /\ OneLine(i, 1).cmd = "TRACK" /\ OneLine(i, 2).cmd \in {"INDEX0", "REM"}
      /\ OneLine(i, 3).cmd = "INDEX1"
  BY <1>3, OneSays
<1>5. (s = 0 /\ s + 1 = 1) \/ (s = 1 /\ s + 1 = 2) \/ (s = 2 /\ s + 1 = 3)
  OBVIOUS
<1>6. \A j \in 0..i-1 : j \in 0..MaxTracks-1 /\ j # i /\ j \in 0..TrackCount-1
  BY <1>2, <1>3
<1>. QED BY <1>1, <1>2, <1>3, <1>4, <1>5, <1>6

LEMMA OneFileStep ==
  ASSUME TableInv, OneFile(disc), OneParse, File, ~file_error', FilesApart
  PROVE  cue_pc' = "parse" /\ OneParse'
<1>0. HaveLine /\ Cmd.cmd = "FILE" /\ TrackCount \in 1..MaxTracks /\ MaxTracks \in Nat
  BY OneCount DEF File, At
<1>1. OneFirst
  <2>1. ASSUME NEW i \in 0..MaxTracks, NEW s \in 0..2, OneAt(i, s) PROVE FALSE
    <3>1. Cmd.cmd \in {"TRACK", "INDEX0", "REM", "INDEX1"}
      BY <1>0, <2>1, OneHave
    <3>. QED BY <1>0, <3>1
  <2>. QED BY <2>1 DEF OneParse
<1>2. Cmd = disc.lines[1] /\ Cmd.kind /\ ~Cmd.wav
  BY <1>1, OneCount DEF OneFirst, Cmd
<1>3. IsEntry(Cmd) /\ line \in 1..Len(disc.lines)
  <2>1. IsEntry(disc.lines[1])
    BY DEF OneFile
  <2>2. 1 \in 1..Len(disc.lines)
    BY OneCount
  <2>. QED BY <1>1, <1>2, <2>1, <2>2 DEF OneFirst
<1>4. /\ aft'.name = Text(tracks'[0].name) /\ Trim(aft'.name) = Cmd.base
      /\ aft'.size = FileSize[Cmd.base] /\ File_processesd' = TRUE /\ pregap' = 0
      /\ hdr' = hdr /\ line' = line + 1 /\ cue_pc' = "parse"
      /\ disc' = disc /\ toc' = toc
  BY <1>1, <1>2, <1>3, FileOpened DEF OneFirst, NameOf
<1>5. NameOf(tracks'[0]) = Cmd.base
  BY <1>4 DEF NameOf
<1>6. W(0).file = Cmd.base /\ W(0)' = W(0)
  <2>1. 0 \in 0..TrackCount-1
    BY <1>0
  <2>. QED BY <1>2, <1>4, <2>1, OneSays DEF W
<1>7. OneHere(0, 0)'
  <2>1. /\ (\E b : aft'.name = Text(b)) /\ Trim(aft'.name) = disc'.lines[1].base
        /\ aft'.size = FileSize[disc'.lines[1].base]
    BY <1>2, <1>4
  <2>. QED BY <1>4, <1>5, <1>6, <2>1 DEF OneHere
<1>8. OneBefore(0)'
  BY DEF OneBefore
<1>9. OneAt(0, 0)'
  <2>1. TrackCount' = TrackCount
    BY <1>4 DEF TrackCount
  <2>2. line' = 2 /\ toc'.last = 0
    BY <1>1, <1>4 DEF OneFirst
  <2>. QED BY <1>0, <1>7, <1>8, <2>1, <2>2 DEF OneAt
<1>10. OneFlat'
  BY <1>4 DEF OneFlat, OneParse
<1>11. \E i \in 0..MaxTracks, s \in 0..2 : OneAt(i, s)'
  BY <1>0, <1>9
<1>. QED BY <1>4, <1>10, <1>11 DEF OneParse

LEMMA OneTrackStep ==
  ASSUME TableInv, OneFile(disc), OneFlat, NEW i, NEW s \in 0..2, OneAt(i, s), TrackLine
  PROVE  cue_pc' = "parse" /\ OneFlat' /\ OneAt(i, 1)'
<1>0. HaveLine /\ Cmd.cmd \in {"TRACK", "blank"}
  BY DEF TrackLine, At
<1>1. /\ i < TrackCount /\ i = toc.last /\ i \in 0..TrackCount-1 /\ i \in 0..MaxTracks-1
      /\ TrackCount \in 1..MaxTracks /\ MaxTracks \in Nat
      /\ \A j \in 0..i-1 : j \in 0..MaxTracks-1 /\ j # i
      /\ Cmd.cmd = "TRACK" /\ s = 0 /\ Cmd = OneLine(i, s + 1)
  BY <1>0, OneHave
<1>2. /\ Cmd.n = i + 1 /\ Cmd.mode \in DOMAIN SectorSize /\ SectorSize[Cmd.mode] = OneSize
      /\ TypeOf[Cmd.mode] = W(i).type /\ W(i).file = disc.lines[1].base
  <2>1. s + 1 = 1
    BY <1>1
  <2>. QED BY <1>1, <2>1, OneSays
<1>3. disc' = disc /\ hdr' = hdr /\ pregap' = pregap /\ aft' = aft
  BY DEF TrackLine
<1>4. /\ (\E b : aft.name = Text(b)) /\ Trim(aft.name) = disc.lines[1].base
      /\ aft.size = FileSize[disc.lines[1].base]
      /\ (File_processesd <=> i = 0) /\ (i = 0 => NameOf(tracks[0]) = W(0).file)
      /\ (i >= 1 => tracks[i-1].end = 0) /\ line = 3 * i + 2 /\ OneBefore(i)
  BY <1>1 DEF OneAt, OneHere
<1>5. /\ tracks'[i].size = aft.size /\ tracks'[i].sector_size = OneSize
      /\ tracks'[i].type = TypeOf[Cmd.mode]
      /\ (File_processesd => tracks'[i].name = tracks[i].name)
      /\ (~File_processesd => tracks'[i].name = StrCpy(tracks[i].name, aft.name))
      /\ (tracks'[i].opened <=> File_processesd /\ i >= 1)
      /\ (~(File_processesd /\ i = 1) => toc'.end = toc.end)
      /\ (\A j \in 0..MaxTracks-1 :
              j # i /\ ~(File_processesd /\ i = 1 /\ j = 0) => tracks'[j] = tracks[j])
      /\ toc'.last = i /\ ~File_processesd' /\ cue_pc' = "parse" /\ line' = line + 1
  BY <1>1, <1>2, TrackTracks
<1>6. \A j \in 0..i-1 : tracks'[j] = tracks[j]
  BY <1>1, <1>4, <1>5
<1>7. /\ \A j : W(j)' = W(j)
      /\ OneSize' = OneSize /\ TrackCount' = TrackCount
  BY <1>3 DEF W, OneSize, TrackCount
<1>8. OneKind(i)'
  <2>1. NameOf(tracks'[i]) = W(i).file
    <3>1. CASE i = 0
      BY <1>2, <1>4, <1>5, <3>1 DEF NameOf
    <3>2. CASE i # 0
      <4>1. tracks'[i].name = StrCpy(tracks[i].name, aft.name)
        BY <1>4, <1>5, <3>2
      <4>2. PICK b : aft.name = Text(b)
        BY <1>4
      <4>3. Text(tracks'[i].name) = aft.name
        BY <4>1, <4>2, CopiedText
      <4>. QED BY <1>2, <1>4, <4>3 DEF NameOf
    <3>. QED BY <3>1, <3>2
  <2>2. ~tracks'[i].opened
    <3>1. ~(File_processesd /\ i >= 1)
      BY <1>1, <1>4
    <3>. QED BY <1>5, <3>1
  <2>. QED BY <1>2, <1>4, <1>5, <1>7, <2>1, <2>2 DEF OneKind
<1>9. OneHere(i, 1)'
  <2>1. i = 0 => NameOf(tracks'[0]) = W(0).file
    BY <1>2, <1>4, <1>5 DEF NameOf
  <2>2. i >= 1 => tracks'[i-1].end = 0
    BY <1>1, <1>4, <1>6
  <2>. QED BY <1>3, <1>4, <1>5, <1>7, <1>8, <2>1, <2>2 DEF OneHere
<1>10. OneBefore(i)'
  BY <1>1, <1>4, <1>6, <1>7 DEF OneBefore, OneKind, OnePlace
<1>11. OneFlat'
  BY <1>1, <1>3, <1>4, <1>5 DEF OneFlat
<1>. QED BY <1>1, <1>4, <1>5, <1>7, <1>9, <1>10, <1>11 DEF OneAt

(* INDEX 00 ends the track before; a REM in its place tells nothing.       *)
LEMMA OneQuietStep ==
  ASSUME TableInv, OneFile(disc), OneFlat, NEW i, NEW s \in 0..2, OneAt(i, s),
         OtherLine \/ Index0
  PROVE  cue_pc' = "parse" /\ OneFlat' /\ OneAt(i, 2)'
<1>0. HaveLine /\ (OtherLine => Cmd.cmd = "REM") /\ (Index0 => Cmd.cmd = "INDEX0")
  BY DEF OtherLine, Index0, At
<1>1. /\ i < TrackCount /\ i = toc.last /\ i \in 0..TrackCount-1 /\ i \in 0..MaxTracks-1
      /\ TrackCount \in 1..MaxTracks /\ MaxTracks \in Nat
      /\ \A j \in 0..i-1 : j \in 0..MaxTracks-1 /\ j # i /\ j \in 0..TrackCount-1
      /\ s = 1 /\ Cmd = OneLine(i, s + 1)
  BY <1>0, OneHave
<1>2. Cmd = OneLine(i, 2)
  BY <1>1
<1>3. /\ toc' = toc /\ disc' = disc /\ hdr' = hdr /\ pregap' = pregap /\ aft' = aft
      /\ File_processesd' = File_processesd /\ line' = line + 1 /\ cue_pc' = "parse"
  BY DEF OtherLine, Index0, NextLine, table
<1>4. /\ (\E b : aft.name = Text(b)) /\ Trim(aft.name) = disc.lines[1].base
      /\ aft.size = FileSize[disc.lines[1].base]
      /\ ~File_processesd /\ (i = 0 => NameOf(tracks[0]) = W(0).file) /\ OneKind(i)
      /\ (i >= 1 => tracks[i-1].end = 0) /\ line = 3 * i + 3 /\ OneBefore(i)
  BY <1>1 DEF OneAt, OneHere
<1>5. /\ \A j \in 0..MaxTracks-1 : j # i - 1 => tracks'[j] = tracks[j]
      /\ i >= 1 => /\ tracks'[i-1].end = (IF OneLine(i, 2).cmd = "INDEX0" THEN W(i-1).end ELSE 0)
                   /\ \A f \in Fields : f # "end" => tracks'[i-1][f] = tracks[i-1][f]
  <2>1. CASE OtherLine
    <3>1. tracks' = tracks
      BY <2>1 DEF OtherLine, table
    <3>. QED BY <1>0, <1>2, <1>4, <2>1, <3>1
  <2>2. CASE Index0 /\ i = 0
    <3>1. tracks' = tracks
      BY <1>1, <2>2 DEF Index0
    <3>. QED BY <2>2, <3>1
  <2>3. CASE Index0 /\ i >= 1
    <3>1. i - 1 \in 0..MaxTracks-1 /\ i - 1 \in 0..TrackCount-1 /\ IsTrack(tracks[i-1])
          /\ i - 1 < TrackCount - 1 /\ (i - 1) + 1 = i
      BY <1>1, <2>3 DEF TableInv, Shape, IsTable
    <3>2. tracks' = [tracks EXCEPT ![i - 1].end = Cmd.t + pregap]
      BY <1>1, <1>4, <2>3 DEF Index0
    <3>3. Cmd.t + pregap = W(i-1).end
      <4>1. OneLine((i - 1) + 1, 2).cmd = "INDEX0"
        BY <1>0, <1>2, <2>3, <3>1
      <4>2. W(i-1).end = OneLine((i - 1) + 1, 2).t /\ W(i-1).end \in Nat
        BY <3>1, <4>1, OneSays
      <4>. QED BY <1>2, <3>1, <4>2 DEF OneFlat
    <3> DEFINE n == [tracks[i-1] EXCEPT !.end = W(i-1).end]
    <3>4. tracks' = Put(tracks, i - 1, n)
      BY <3>2, <3>3 DEF Put
    <3>5. IsTrack(n) /\ n.end = W(i-1).end /\ \A f \in Fields : f # "end" => n[f] = tracks[i-1][f]
      BY <3>1, SetEnd
    <3> HIDE DEF n
    <3>6. tracks'[i-1] = n /\ \A j \in 0..MaxTracks-1 : j # i - 1 => tracks'[j] = tracks[j]
      BY <3>1, <3>4, <3>5, SetTrack DEF TableInv, Shape
    <3>. QED BY <1>0, <1>2, <2>3, <3>5, <3>6
  <2>. QED BY <1>1, <2>1, <2>2, <2>3
<1>6. /\ \A j : W(j)' = W(j)
      /\ OneSize' = OneSize /\ TrackCount' = TrackCount /\ OneLine(i, 2)' = OneLine(i, 2)
  BY <1>3 DEF W, OneSize, TrackCount, OneLine
<1>7. \A j \in 0..i : \A f \in Fields : f # "end" => tracks'[j][f] = tracks[j][f]
  BY <1>1, <1>5
<1>8. ASSUME NEW j \in 0..i
      PROVE  /\ NameOf(tracks'[j]) = NameOf(tracks[j]) /\ tracks'[j].type = tracks[j].type
             /\ tracks'[j].size = tracks[j].size /\ tracks'[j].sector_size = tracks[j].sector_size
             /\ tracks'[j].opened = tracks[j].opened /\ tracks'[j].start = tracks[j].start
             /\ tracks'[j].offset = tracks[j].offset
  <2>1. /\ tracks'[j]["name"] = tracks[j]["name"] /\ tracks'[j]["type"] = tracks[j]["type"]
        /\ tracks'[j]["size"] = tracks[j]["size"]
        /\ tracks'[j]["sector_size"] = tracks[j]["sector_size"]
        /\ tracks'[j]["opened"] = tracks[j]["opened"] /\ tracks'[j]["start"] = tracks[j]["start"]
        /\ tracks'[j]["offset"] = tracks[j]["offset"]
    BY <1>7 DEF Fields
  <2>. QED BY <2>1 DEF NameOf
<1>9. OneKind(i)' /\ (i = 0 => NameOf(tracks'[0]) = W(0).file)
  <2>1. i \in 0..i /\ (i = 0 => 0 \in 0..i)
    BY <1>1
  <2>. QED BY <1>4, <1>6, <1>8, <2>1 DEF OneKind
<1>10. OneHere(i, 2)'
  BY <1>3, <1>4, <1>5, <1>6, <1>9 DEF OneHere
<1>11. OneBefore(i)'
  <2>1. ASSUME NEW j \in 0..i-1 PROVE OneKind(j)' /\ OnePlace(j)' /\ W(j)'.end <= W(i-1)'.end
    <3>1. j \in 0..i
      BY <1>1
    <3>. QED BY <1>4, <1>6, <1>8, <2>1, <3>1 DEF OneBefore, OneKind, OnePlace
  <2>2. ASSUME NEW j \in 0..i-2 PROVE tracks'[j].end = W(j)'.end
    <3>1. j \in 0..MaxTracks-1 /\ j # i - 1
      BY <1>1
    <3>. QED BY <1>4, <1>5, <1>6, <3>1 DEF OneBefore
  <2>. QED BY <2>1, <2>2 DEF OneBefore
<1>12. OneFlat' /\ line' = 3 * i + 2 + 2 /\ toc'.last = i
  BY <1>1, <1>3, <1>4 DEF OneFlat
<1>. QED BY <1>1, <1>3, <1>6, <1>10, <1>11, <1>12 DEF OneAt

(* A last track without an end gets it from the size of the file.          *)
LEMMA CloseEnds ==
  ASSUME NEW tr, IsTable(tr), NEW tc, tc = [last |-> tc.last, end |-> tc.end],
         NEW i \in 0..MaxTracks-1, tc.last = i + 1, ~tr[i].opened, EndByFile(tr[i]) # 0,
         CloseLast(tr, tc)
  PROVE  /\ toc'.last = tc.last /\ tracks'[i].end = EndByFile(tr[i])
         /\ \A f \in Fields : f # "end" => tracks'[i][f] = tr[i][f]
         /\ \A j \in 0..MaxTracks-1 : j # i => tracks'[j] = tr[j]
<1>1. tc.last - 1 = i /\ tc.last # 0 /\ IsTrack(tr[i])
  BY NameAssumption DEF IsTable
<1>2. tracks' = [tr EXCEPT ![i].end = EndByFile(tr[i])] /\ toc' = [tc EXCEPT !.end = EndByFile(tr[i])]
  BY <1>1 DEF CloseLast
<1> DEFINE t == [tr[i] EXCEPT !.end = EndByFile(tr[i])]
<1>3. tracks' = Put(tr, i, t)
  BY <1>2 DEF Put
<1>4. IsTrack(t) /\ t.end = EndByFile(tr[i]) /\ \A f \in Fields : f # "end" => t[f] = tr[i][f]
  <2> DEFINE e == EndByFile(tr[i])
             o == tr[i]
  <2>1. t = [o EXCEPT !.end = e] /\ IsTrack(o)
    BY <1>1
  <2> HIDE DEF t, e, o
  <2>2. IsTrack(t) /\ t.end = e /\ \A f \in Fields : f # "end" => t[f] = o[f]
    BY <2>1 DEF IsTrack, Fields
  <2>. QED BY <2>2 DEF e, o
<1> HIDE DEF t
<1>5. tracks'[i] = t /\ \A j \in 0..MaxTracks-1 : j # i => tracks'[j] = tr[j]
  BY <1>3, <1>4, SetTrack
<1>6. toc'.last = tc.last
  BY <1>2
<1>. QED BY <1>4, <1>5, <1>6

LEMMA OneAllRight ==
  ASSUME OneFile(disc), disc' = disc, toc'.last = TrackCount,
         \A j \in 0..TrackCount-1 :
            OneKind(j)' /\ OnePlace(j)' /\ tracks'[j].end = W(j).end /\ W(j).end <= W(TrackCount-1).end
  PROVE  AllRight'
<1>0. TrackCount \in Nat /\ TrackCount - 1 \in 0..TrackCount-1 /\ TrackCount' = TrackCount
      /\ OneSize \in {2048, 2352, 2448} /\ OneSize' = OneSize
  <2>1. TrackCount' = TrackCount /\ OneSize' = OneSize
    BY DEF TrackCount, OneSize
  <2>2. TrackCount \in 1..MaxTracks /\ MaxTracks \in Nat /\ OneSize \in {2048, 2352, 2448}
    BY OneCount, SMTT(30)
  <2>. QED BY <2>1, <2>2
<1>1. SUFFICES ASSUME NEW j \in 0..TrackCount-1 PROVE TrackRight(j)'
  BY <1>0 DEF AllRight
<1>2. W(j)' = W(j)
  BY DEF W
<1>3. /\ NameOf(tracks'[j]) = W(j).file /\ tracks'[j].type = W(j).type
      /\ tracks'[j].sector_size = OneSize /\ ~tracks'[j].opened
      /\ tracks'[j].start = W(j).start /\ tracks'[j].end = W(j).end
  BY <1>0, <1>1, <1>2 DEF OneKind, OnePlace
<1> DEFINE ss == OneSize
           e  == W(j).end
           z  == W(TrackCount-1).end
           st == W(j).start
<1>4. /\ e \in Nat /\ z \in Nat /\ e <= z /\ st \in Nat /\ W(j).byte = ss * st
      /\ FileSize[W(j).file] = ss * z
  <2>1. /\ W(j).end \in Nat /\ W(j).start \in Nat /\ W(j).byte = OneSize * W(j).start
        /\ W(j).file = disc.lines[1].base
    BY <1>1, OneSays
  <2>2. /\ W(TrackCount-1).end \in Nat /\ W(TrackCount-1).file = disc.lines[1].base
        /\ FileSize[W(TrackCount-1).file] = OneSize * W(TrackCount-1).end
    BY <1>0, OneSays
  <2>. QED BY <1>1, <2>1, <2>2
<1>5. PlaceOf(j, W(j).start)' = st * ss - 0 /\ PlaceOf(j, tracks[j].end)' = e * ss - 0
  BY <1>0, <1>2, <1>3 DEF PlaceOf
<1>6. ss \in {2048, 2352, 2448}
  BY <1>0
<1> HIDE DEF ss, e, z, st
<1>7. st * ss - 0 = ss * st /\ e * ss - 0 <= ss * z
  BY <1>4, <1>6
<1>8. PlaceOf(j, W(j).start)' = W(j).byte /\ PlaceOf(j, tracks[j].end)' <= FileSize[W(j).file]
  BY <1>4, <1>5, <1>7
<1>. QED BY <1>2, <1>3, <1>8 DEF TrackRight

LEMMA OneEndByFile ==
  ASSUME OneFile(disc), NEW t, W(TrackCount-1).start = t.start,
         t.offset = W(TrackCount-1).start * OneSize, t.sector_size = OneSize,
         t.size = FileSize[W(TrackCount-1).file]
  PROVE  EndByFile(t) = W(TrackCount-1).end /\ EndByFile(t) # 0
<1> DEFINE ss == OneSize
           e  == W(TrackCount-1).end
           st == W(TrackCount-1).start
           x  == e - st
           y  == t.size - t.offset
<1>1. TrackCount - 1 \in 0..TrackCount-1 /\ ss \in {2048, 2352, 2448}
  <2>1. TrackCount \in 1..MaxTracks /\ MaxTracks \in Nat /\ OneSize \in {2048, 2352, 2448}
    BY OneCount, SMTT(30)
  <2>. QED BY <2>1
<1>2. e \in Nat /\ st \in Nat /\ st < e /\ FileSize[W(TrackCount-1).file] = ss * e
  BY <1>1, OneSays
<1>3. y = ss * e - st * ss
  BY <1>2
<1>4. x \in Nat /\ x = e - st
  BY <1>2
<1>5. EndByFile(t) = st + Quotient(y, ss)
  BY DEF EndByFile
<1> HIDE DEF ss, e, st, x, y
<1>6. y \in Int /\ y = ss * x + 0
  BY <1>1, <1>2, <1>3, <1>4
<1>7. Whole(y, ss, x, 0)
  BY <1>6 DEF Whole
<1>8. 0 \in Nat /\ 0 < ss
  BY <1>1
<1>9. Quotient(y, ss) = x
  BY <1>1, <1>4, <1>6, <1>7, <1>8, WholeSectors
<1>10. EndByFile(t) = e /\ EndByFile(t) # 0
  BY <1>2, <1>4, <1>5, <1>9
<1>. QED BY <1>10 DEF e

LEMMA OneEndStep ==
  ASSUME TableInv, OneFile(disc), NEW i, NEW s \in 0..2, OneAt(i, s), EndOfSheet
  PROVE  AllRight'
<1>0. i = TrackCount /\ s = 0 /\ i = toc.last /\ TrackCount \in 1..MaxTracks /\ MaxTracks \in Nat
  <2>1. ~HaveLine
    BY DEF EndOfSheet
  <2>. QED BY <2>1, OneCmd, OneCount
<1> DEFINE k == i - 1
<1>1. k \in 0..MaxTracks-1 /\ k \in 0..i-1 /\ toc.last = k + 1 /\ k = TrackCount - 1
  BY <1>0
<1>2. OneBefore(i)
  BY DEF OneAt
<1>3. OneKind(k) /\ OnePlace(k)
  BY <1>1, <1>2 DEF OneBefore
<1>4. EndByFile(tracks[k]) = W(k).end /\ EndByFile(tracks[k]) # 0
  BY <1>1, <1>3, OneEndByFile DEF OneKind, OnePlace
<1>5. CloseLast(tracks, toc) /\ disc' = disc
  BY DEF EndOfSheet
<1>6. ~tracks[k].opened /\ IsTable(tracks) /\ toc = [last |-> toc.last, end |-> toc.end]
  BY <1>3 DEF OneKind, TableInv, Shape
<1> HIDE DEF k
<1>7. /\ toc'.last = toc.last /\ tracks'[k].end = EndByFile(tracks[k])
      /\ \A f \in Fields : f # "end" => tracks'[k][f] = tracks[k][f]
      /\ \A j \in 0..MaxTracks-1 : j # k => tracks'[j] = tracks[j]
  BY <1>1, <1>4, <1>5, <1>6, CloseEnds
<1>8. ASSUME NEW j \in 0..TrackCount-1
      PROVE  OneKind(j)' /\ OnePlace(j)' /\ tracks'[j].end = W(j).end /\ W(j).end <= W(TrackCount-1).end
  <2>1. j \in 0..i-1 /\ j \in 0..MaxTracks-1 /\ W(j)' = W(j) /\ OneSize' = OneSize
        /\ W(i-1) = W(TrackCount-1)
    BY <1>0, <1>5 DEF W, OneSize
  <2>2. OneKind(j) /\ OnePlace(j) /\ W(j).end <= W(TrackCount-1).end
    BY <1>2, <2>1 DEF OneBefore
  <2>3. CASE j = k
    <3>1. /\ tracks'[k]["name"] = tracks[k]["name"] /\ tracks'[k]["type"] = tracks[k]["type"]
          /\ tracks'[k]["size"] = tracks[k]["size"]
          /\ tracks'[k]["sector_size"] = tracks[k]["sector_size"]
          /\ tracks'[k]["opened"] = tracks[k]["opened"] /\ tracks'[k]["start"] = tracks[k]["start"]
          /\ tracks'[k]["offset"] = tracks[k]["offset"]
      BY <1>7 DEF Fields
    <3>. QED BY <1>4, <1>7, <2>1, <2>2, <2>3, <3>1 DEF OneKind, OnePlace, NameOf
  <2>4. CASE j # k
    <3>1. tracks'[j] = tracks[j] /\ j \in 0..i-2
      BY <1>0, <1>7, <2>1, <2>4 DEF k
    <3>2. tracks[j].end = W(j).end
      BY <1>2, <3>1 DEF OneBefore
    <3>. QED BY <2>1, <2>2, <3>1, <3>2 DEF OneKind, OnePlace
  <2>. QED BY <2>3, <2>4
<1>. QED BY <1>0, <1>5, <1>7, <1>8, OneAllRight

LEMMA OneIndexStep ==
  ASSUME TableInv, OneFile(disc), OneFlat, NEW i, NEW s \in 0..2, OneAt(i, s), Index1
  PROVE  /\ cue_pc' = "parse" => OneFlat' /\ OneAt(i + 1, 0)'
         /\ cue_pc' # "parse" => AllRight'
<1>0. HaveLine /\ Cmd.cmd = "INDEX1"
  BY DEF Index1, At
<1>1. /\ i < TrackCount /\ i = toc.last /\ i \in 0..TrackCount-1 /\ i \in 0..MaxTracks-1
      /\ TrackCount \in 1..MaxTracks /\ MaxTracks \in Nat
      /\ \A j \in 0..i-1 : j \in 0..MaxTracks-1 /\ j # i /\ j \in 0..TrackCount-1
      /\ s = 2 /\ Cmd = OneLine(i, s + 1)
  BY <1>0, OneHave
<1>2. Cmd = OneLine(i, 3)
  BY <1>1
<1>3. disc' = disc /\ hdr' = hdr /\ pregap' = pregap /\ aft' = aft /\ File_processesd' = File_processesd
  BY DEF Index1
<1>4. /\ (\E b : aft.name = Text(b)) /\ Trim(aft.name) = disc.lines[1].base
      /\ aft.size = FileSize[disc.lines[1].base]
      /\ ~File_processesd /\ OneKind(i)
      /\ (i >= 1 => tracks[i-1].end = IF OneLine(i, 2).cmd = "INDEX0" THEN W(i-1).end ELSE 0)
      /\ line = 3 * i + 4 /\ OneBefore(i)
  BY <1>1 DEF OneAt, OneHere
<1>5. Cmd.t = W(i).start /\ W(i).start \in Nat /\ W(i).end \in Nat /\ W(i).start < W(i).end
  BY <1>1, <1>2, OneSays
<1> DEFINE tr == WithinFile(i, Cmd.t)
           tc == [last |-> i + 1, end |-> toc.end]
<1>6. /\ i + 1 = MaxTracks => CloseLast(tr, tc) /\ cue_pc' = "mount"
      /\ i + 1 # MaxTracks => tracks' = tr /\ toc' = tc /\ cue_pc' = "parse" /\ line' = line + 1
  <2>1. ~tracks[i].opened
    BY <1>4 DEF OneKind
  <2>. QED BY <1>1, <2>1 DEF Index1, Return, NextLine
<1>7. tc = [last |-> tc.last, end |-> tc.end] /\ tc.last = i + 1 /\ tc.end = toc.end
  OBVIOUS
<1>8. IsTable(tracks) /\ IsTrack(tracks[i]) /\ tracks[i].end = 0
  BY <1>1 DEF TableInv, Shape, IsTable, Unused
<1> DEFINE n == WithPlace(tracks[i], Cmd.t + pregap, (Cmd.t + pregap) * tracks[i].sector_size - hdr)
<1>9. /\ IsTable(tr) /\ tr[i] = n
      /\ \A j \in 0..MaxTracks-1 : j # i =>
           tr[j] = IF j = i - 1 /\ tracks[j].end = 0
                   THEN [tracks[j] EXCEPT !.end = Cmd.t + pregap] ELSE tracks[j]
  <2>1. tr = WithinFile(i, Cmd.t)
    OBVIOUS
  <2> HIDE DEF tr
  <2>2. IsTable(tr) /\ tr[i] = n
    BY <1>1, <1>8, <2>1, WithinTable
  <2>3. i \in 0..MaxTracks-1 /\ IsTable(tracks)
    BY <1>1, <1>8
  <2>4. /\ IsTable(tr)
        /\ \A j \in 0..MaxTracks-1 : j # i =>
             tr[j] = IF j = i - 1 /\ tracks[j].end = 0
                     THEN [tracks[j] EXCEPT !.end = Cmd.t + pregap] ELSE tracks[j]
    BY <2>1, <2>3, WithinTable
  <2> HIDE DEF n
  <2>. QED BY <2>2, <2>4
<1>10. /\ n.start = Cmd.t + pregap /\ n.offset = (Cmd.t + pregap) * tracks[i].sector_size - hdr
       /\ \A f \in Fields : f \notin {"start", "offset"} => n[f] = tracks[i][f]
  BY <1>8, SetPlace
<1> HIDE DEF tr, tc, n
<1>11. /\ NameOf(tr[i]) = W(i).file /\ tr[i].type = W(i).type /\ tr[i].size = FileSize[W(i).file]
       /\ tr[i].sector_size = OneSize /\ ~tr[i].opened
       /\ tr[i].start = W(i).start /\ tr[i].offset = W(i).start * OneSize /\ tr[i].end = 0
  <2>1. /\ n["name"] = tracks[i]["name"] /\ n["type"] = tracks[i]["type"]
        /\ n["size"] = tracks[i]["size"] /\ n["opened"] = tracks[i]["opened"]
        /\ n["sector_size"] = tracks[i]["sector_size"] /\ n["end"] = tracks[i]["end"]
    BY <1>10 DEF Fields
  <2>2. n.start = W(i).start
    BY <1>5, <1>10 DEF OneFlat
  <2>3. n.offset = W(i).start * OneSize
    <3>1. tracks[i].sector_size = OneSize /\ OneSize \in {2048, 2352, 2448}
      BY <1>4, OneCount DEF OneKind
    <3>2. n.offset = (W(i).start + 0) * OneSize - 0
      BY <1>5, <1>10, <3>1 DEF OneFlat
    <3>. QED BY <1>5, <3>1, <3>2
  <2>. QED BY <1>4, <1>8, <1>9, <2>1, <2>2, <2>3 DEF OneKind, NameOf
<1>12. ASSUME NEW j \in 0..i-1
       PROVE  /\ NameOf(tr[j]) = NameOf(tracks[j]) /\ tr[j].type = tracks[j].type
              /\ tr[j].size = tracks[j].size /\ tr[j].sector_size = tracks[j].sector_size
              /\ tr[j].opened = tracks[j].opened /\ tr[j].start = tracks[j].start
              /\ tr[j].offset = tracks[j].offset
              /\ tr[j].end = W(j).end
              /\ W(j).end <= W(i).end
  <2>1. i >= 1 /\ i - 1 \in 0..TrackCount-1 /\ i - 1 < TrackCount - 1 /\ (i - 1) + 1 = i
    BY <1>1, <1>12
  <2>2. /\ OneLine(i, 2).cmd # "INDEX0" => W(i-1).end = W(i).start
        /\ W(i-1).end <= W(i).start /\ W(i-1).end \in Nat /\ W(i-1).start < W(i-1).end
        /\ W(i-1).start \in Nat
    <3>1. /\ OneLine((i-1) + 1, 2).cmd # "INDEX0" => W(i-1).end = W((i-1) + 1).start
          /\ W(i-1).end <= W((i-1) + 1).start
      BY <2>1, OneSays
    <3>2. W(i-1).end \in Nat /\ W(i-1).start < W(i-1).end /\ W(i-1).start \in Nat
      BY <2>1, OneSays
    <3>. QED BY <2>1, <3>1, <3>2
  <2>3. W(j).end <= W(i).end
    <3>1. W(j).end <= W(i-1).end /\ W(j).end \in Nat
      BY <1>1, <1>4, <1>12, OneSays DEF OneBefore
    <3>. QED BY <1>5, <2>2, <3>1
  <2>4. j \in 0..MaxTracks-1 /\ j # i /\ IsTrack(tracks[j])
    BY <1>1, <1>8, <1>12 DEF IsTable
  <2>5. CASE j = i - 1 /\ tracks[j].end = 0
    <3>1. tr[j] = [tracks[j] EXCEPT !.end = Cmd.t + pregap]
      BY <1>9, <2>4, <2>5
    <3>2. Cmd.t + pregap = W(j).end
      BY <1>4, <1>5, <2>1, <2>2, <2>5 DEF OneFlat
    <3> DEFINE m == [tracks[j] EXCEPT !.end = W(j).end]
    <3>3. IsTrack(m) /\ m.end = W(j).end /\ \A f \in Fields : f # "end" => m[f] = tracks[j][f]
      BY <2>4, SetEnd
    <3>4. tr[j] = m
      BY <3>1, <3>2
    <3> HIDE DEF m
    <3>5. /\ m["name"] = tracks[j]["name"] /\ m["type"] = tracks[j]["type"]
          /\ m["size"] = tracks[j]["size"] /\ m["opened"] = tracks[j]["opened"]
          /\ m["sector_size"] = tracks[j]["sector_size"] /\ m["start"] = tracks[j]["start"]
          /\ m["offset"] = tracks[j]["offset"]
      BY <3>3 DEF Fields
    <3>. QED BY <2>3, <3>3, <3>4, <3>5 DEF NameOf
  <2>6. CASE ~(j = i - 1 /\ tracks[j].end = 0)
    <3>1. tr[j] = tracks[j]
      BY <1>9, <2>4, <2>6
    <3>2. tracks[j].end = W(j).end
      <4>1. CASE j = i - 1
        BY <1>4, <2>1, <2>6, <4>1
      <4>2. CASE j # i - 1
        <5>1. j \in 0..i-2
          BY <1>1, <1>12, <4>2
        <5>. QED BY <1>4, <5>1 DEF OneBefore
      <4>. QED BY <4>1, <4>2
    <3>. QED BY <2>3, <3>1, <3>2
  <2>. QED BY <2>5, <2>6
<1>13. /\ TrackCount' = TrackCount /\ OneSize' = OneSize /\ OneLine(i, 2)' = OneLine(i, 2)
       /\ \A j : W(j)' = W(j)
  BY <1>3 DEF TrackCount, OneSize, OneLine, W
<1>14. CASE i + 1 # MaxTracks
  <2>1. tracks' = tr /\ toc'.last = i + 1 /\ toc'.end = toc.end /\ cue_pc' = "parse" /\ line' = 3 * i + 5
    BY <1>1, <1>4, <1>6, <1>7, <1>14
  <2>2. (i + 1) - 1 = i /\ (i + 1) - 2 = i - 1 /\ i + 1 # 0
    BY <1>1
  <2>3. \A j \in 0..i : j \in 0..i-1 \/ j = i
    BY <1>1
  <2>4. OneHere(i + 1, 0)'
    BY <1>3, <1>4, <1>11, <2>1, <2>2 DEF OneHere
  <2>5. ASSUME NEW j \in 0..i PROVE OneKind(j)' /\ OnePlace(j)' /\ W(j)'.end <= W((i + 1) - 1)'.end
    <3>1. CASE j \in 0..i-1
      BY <1>4, <1>12, <1>13, <2>1, <2>2, <3>1 DEF OneBefore, OneKind, OnePlace
    <3>2. CASE j = i
      BY <1>5, <1>11, <1>13, <2>1, <2>2, <3>2 DEF OneKind, OnePlace
    <3>. QED BY <2>3, <3>1, <3>2
  <2>6. OneBefore(i + 1)'
    <3>1. \A j \in 0..i-1 : tracks'[j].end = W(j)'.end
      BY <1>12, <1>13, <2>1
    <3>. QED BY <2>2, <2>5, <3>1 DEF OneBefore
  <2>7. OneFlat'
    BY <1>3, <2>1 DEF OneFlat
  <2>8. line' = 3 * (i + 1) + 0 + 2 /\ i + 1 <= TrackCount
    BY <1>1, <2>1
  <2>. QED BY <1>13, <2>1, <2>4, <2>6, <2>7, <2>8 DEF OneAt
<1>15. CASE i + 1 = MaxTracks
  <2>0. CloseLast(tr, tc) /\ cue_pc' = "mount" /\ i = TrackCount - 1 /\ i + 1 = TrackCount
    BY <1>1, <1>6, <1>15
  <2>1. EndByFile(tr[i]) = W(i).end /\ EndByFile(tr[i]) # 0
    BY <1>11, <2>0, OneEndByFile
  <2>2. /\ toc'.last = tc.last /\ tracks'[i].end = EndByFile(tr[i])
        /\ \A f \in Fields : f # "end" => tracks'[i][f] = tr[i][f]
        /\ \A j \in 0..MaxTracks-1 : j # i => tracks'[j] = tr[j]
    BY <1>1, <1>7, <1>9, <1>11, <2>0, <2>1, CloseEnds
  <2>3. ASSUME NEW j \in 0..TrackCount-1
        PROVE  OneKind(j)' /\ OnePlace(j)' /\ tracks'[j].end = W(j).end /\ W(j).end <= W(TrackCount-1).end
    <3>1. CASE j = i
      <4>1. /\ tracks'[i]["name"] = tr[i]["name"] /\ tracks'[i]["type"] = tr[i]["type"]
            /\ tracks'[i]["size"] = tr[i]["size"]
            /\ tracks'[i]["sector_size"] = tr[i]["sector_size"]
            /\ tracks'[i]["opened"] = tr[i]["opened"] /\ tracks'[i]["start"] = tr[i]["start"]
            /\ tracks'[i]["offset"] = tr[i]["offset"]
        BY <2>2 DEF Fields
      <4>. QED BY <1>5, <1>11, <1>13, <2>0, <2>1, <2>2, <3>1, <4>1 DEF OneKind, OnePlace, NameOf
    <3>2. CASE j # i
      <4>1. j \in 0..i-1 /\ j \in 0..MaxTracks-1
        BY <1>1, <2>0, <3>2
      <4>2. tracks'[j] = tr[j]
        BY <2>2, <3>2, <4>1
      <4>. QED BY <1>4, <1>12, <1>13, <2>0, <4>1, <4>2 DEF OneBefore, OneKind, OnePlace
    <3>. QED BY <3>1, <3>2
  <2>4. toc'.last = TrackCount
    BY <1>7, <2>0, <2>2
  <2>5. AllRight'
    BY <1>3, <2>3, <2>4, OneAllRight
  <2>. QED BY <2>0, <2>5
<1>. QED BY <1>14, <1>15
-----------------------------------------------------------------------------
(* A line of a plain sheet, and its end.                                   *)
LEMMA OwnStep ==
  ASSUME TableInv, TableInv', OwnFiles(disc), OwnParse, cue_pc = "parse", CueNext, ~file_error',
         FilesApart
  PROVE  /\ cue_pc' = "parse" => OwnParse'
         /\ cue_pc' # "parse" => AllRight'
<1>1. PICK i \in 0..MaxTracks, s \in 0..4 : OwnAt(i, s)
  BY DEF OwnParse
<1>2. ASSUME NEW k, NEW r \in 0..4, OwnAt(k, r)' PROVE OwnParse'
  <2>1. k \in 0..MaxTracks
    BY <1>2 DEF OwnAt, TableInv, Shape
  <2>. QED BY <1>2, <2>1 DEF OwnParse
<1>3. \/ File \/ TrackLine \/ Pregap \/ OtherLine \/ Index0 \/ Index1 \/ EndOfSheet
  BY DEF CueNext, Reset, SetImage, OtherDisc
<1>4. CASE File
  BY <1>1, <1>2, <1>4, OwnFileStep
<1>5. CASE TrackLine
  BY <1>1, <1>2, <1>5, OwnTrackStep
<1>6. CASE Pregap \/ OtherLine \/ Index0
  <2>1. s \in 2..3 /\ cue_pc' = "parse" /\ OwnAt(i, s + 1)'
    BY <1>1, <1>6, OwnQuietStep
  <2>2. s + 1 \in 0..4
    BY <2>1
  <2>. QED BY <1>2, <2>1, <2>2
<1>7. CASE Index1
  BY <1>1, <1>2, <1>7, OwnIndexStep
<1>8. CASE EndOfSheet
  <2>1. cue_pc' # "parse" /\ AllRight'
    BY <1>1, <1>8, OwnEndStep DEF EndOfSheet, Return
  <2>. QED BY <2>1
<1>. QED BY <1>3, <1>4, <1>5, <1>6, <1>7, <1>8

LEMMA OneStep ==
  ASSUME TableInv, TableInv', OneFile(disc), OneParse, cue_pc = "parse", CueNext, ~file_error',
         FilesApart
  PROVE  /\ cue_pc' = "parse" => OneParse'
         /\ cue_pc' # "parse" => AllRight'
<1>1. ASSUME NEW k, NEW r \in 0..2, OneAt(k, r)', OneFlat' PROVE OneParse'
  <2>1. k \in 0..MaxTracks
    BY <1>1 DEF OneAt, TableInv, Shape
  <2>. QED BY <1>1, <2>1 DEF OneParse
<1>2. \/ File \/ TrackLine \/ Pregap \/ OtherLine \/ Index0 \/ Index1 \/ EndOfSheet
  BY DEF CueNext, Reset, SetImage, OtherDisc
<1>3. CASE File
  BY <1>3, OneFileStep
<1>4. CASE ~File /\ OneFirst
  <2>1. Cmd = disc.lines[1] /\ HaveLine /\ Cmd.cmd = "FILE"
    BY <1>4, OneCount DEF OneFirst, Cmd, HaveLine
  <2>. QED BY <1>2, <1>4, <2>1
           DEF TrackLine, Pregap, OtherLine, Index0, Index1, EndOfSheet, At
<1>5. CASE ~File /\ ~OneFirst
  <2>1. PICK i \in 0..MaxTracks, s \in 0..2 : OneAt(i, s)
    BY <1>5 DEF OneParse
  <2>2. OneFlat
    BY DEF OneParse
  <2>3. CASE TrackLine
    BY <1>1, <2>1, <2>2, <2>3, OneTrackStep
  <2>4. CASE OtherLine \/ Index0
    BY <1>1, <2>1, <2>2, <2>4, OneQuietStep
  <2>5. CASE Index1
    BY <1>1, <2>1, <2>2, <2>5, OneIndexStep
  <2>6. CASE EndOfSheet
    <3>1. cue_pc' # "parse" /\ AllRight'
      BY <2>1, <2>6, OneEndStep DEF EndOfSheet, Return
    <3>. QED BY <3>1
  <2>7. CASE Pregap
    <3>1. HaveLine /\ Cmd.cmd = "PREGAP"
      BY <2>7 DEF Pregap, At
    <3>. QED BY <2>1, <3>1, OneHave
  <2>. QED BY <1>2, <1>5, <2>3, <2>4, <2>5, <2>6, <2>7
<1>. QED BY <1>3, <1>4, <1>5

(* The parser starts afresh, whatever was mounted before.                  *)
LEMMA FreshStart ==
  ASSUME TableInv, Reset
  PROVE  /\ cue_pc' = "parse" /\ OwnFiles(disc) => OwnParse'
         /\ cue_pc' = "parse" /\ OneFile(disc) => OneParse'
         /\ cue_pc' # "parse" => result' # 1
         /\ disc' = disc
<1>1. toc'.last = 0 /\ toc'.end = 0
  BY DEF Reset, Unload, TableInv, Unloaded
<1>2. /\ disc' = disc /\ hdr' = 0 /\ pregap' = 0 /\ ~File_processesd'
      /\ (cue_pc' = "parse" => line' = 1) /\ (cue_pc' # "parse" => result' # 1)
  BY DEF Reset
<1>3. MaxTracks \in Nat /\ 0 \in 0..MaxTracks
  BY NameAssumption
<1>4. ASSUME cue_pc' = "parse", OwnFiles(disc) PROVE OwnParse'
  <2>1. TrackCount' \in Nat
    BY <1>2, <1>4 DEF OwnFiles, TrackCount
  <2>2. OwnHere(0, 0)'
    BY <1>2 DEF OwnHere
  <2>3. OwnBefore(0, 0)'
    BY <1>1 DEF OwnBefore, OwnBegun
  <2>4. OwnAt(0, 0)'
    BY <1>1, <1>2, <1>4, <2>1, <2>2, <2>3 DEF OwnAt
  <2>. QED BY <1>3, <2>4 DEF OwnParse
<1>5. ASSUME cue_pc' = "parse" PROVE OneParse'
  BY <1>1, <1>2, <1>5 DEF OneParse, OneFlat, OneFirst
<1>. QED BY <1>2, <1>4, <1>5

LEMMA PlainStep == TableInv /\ TableInv' /\ PlainInv /\ [CueNext]_cueVars => PlainInv'
<1> SUFFICES ASSUME TableInv, TableInv', PlainInv, [CueNext]_cueVars, ~file_error', FilesApart
             PROVE  /\ cue_pc' = "parse" /\ OwnFiles(disc)' => OwnParse'
                    /\ cue_pc' = "parse" /\ OneFile(disc)' => OneParse'
                    /\ cue_pc' \in {"mount", "done"} /\ result' = 1 /\ Plain(disc)' => AllRight'
  BY DEF PlainInv
<1>1. OtherDisc \/ ~file_error
  BY DEF CueNext, Reset, File, TrackLine, Pregap, Index0, Index1, OtherLine, EndOfSheet, SetImage,
         OtherDisc, cueVars
<1>2. CASE Reset
  BY <1>2, FreshStart
<1>3. CASE cue_pc = "parse" /\ CueNext
  <2>4. ~file_error
    BY <1>1, <1>3 DEF OtherDisc
  <2>1. disc' = disc
    BY <1>3 DEF CueNext, Reset, File, TrackLine, Pregap, Index0, Index1, OtherLine, EndOfSheet,
                SetImage, OtherDisc
  <2>2. ASSUME OwnFiles(disc)
        PROVE  (cue_pc' = "parse" => OwnParse') /\ (cue_pc' # "parse" => AllRight')
    BY <1>3, <2>2, <2>4, OwnStep DEF PlainInv
  <2>3. ASSUME OneFile(disc)
        PROVE  (cue_pc' = "parse" => OneParse') /\ (cue_pc' # "parse" => AllRight')
    BY <1>3, <2>3, <2>4, OneStep DEF PlainInv
  <2>. QED BY <2>1, <2>2, <2>3 DEF Plain
<1>4. CASE SetImage
  <2>1. cue_pc = "mount" /\ cue_pc' = "done" /\ disc' = disc /\ result' = result
    BY <1>4 DEF SetImage
  <2>2. CASE result = 1
    <3>1. UNCHANGED <<toc, tracks>>
      BY <1>4, <2>2 DEF SetImage, table
    <3>2. Plain(disc) => AllRight
      BY <1>1, <2>1, <2>2 DEF PlainInv, OtherDisc
    <3>3. AllRight' <=> AllRight
      BY <2>1, <3>1 DEF AllRight, TrackRight, PlaceOf, TrackCount, W
    <3>. QED BY <2>1, <3>2, <3>3
  <2>3. CASE result # 1
    BY <2>1, <2>3
  <2>. QED BY <2>2, <2>3
<1>5. CASE OtherDisc
  BY <1>5 DEF OtherDisc
<1>6. CASE UNCHANGED cueVars
  <2>1. UNCHANGED <<disc, line, cue_pc, toc, tracks, hdr, pregap, File_processesd, aft, result, file_error>>
    BY <1>6 DEF cueVars, locals, table, drive
  <2>2. (OwnParse' <=> OwnParse) /\ (OneParse' <=> OneParse) /\ (AllRight' <=> AllRight)
    <3>1. OwnParse' <=> OwnParse
      BY <2>1 DEF OwnParse, OwnAt, OwnHere, OwnBefore, OwnBegun, OwnKind, OwnPlace, OwnEnd,
                  TrackCount, W, OwnLine, OwnSize, WavHeader, FileFirst
    <3>2. OneParse' <=> OneParse
      BY <2>1 DEF OneParse, OneFlat, OneFirst, OneAt, OneHere, OneBefore, OneKind, OnePlace,
                  TrackCount, W, OneLine, OneSize
    <3>3. AllRight' <=> AllRight
      BY <2>1 DEF AllRight, TrackRight, PlaceOf, TrackCount, W
    <3>. QED BY <3>1, <3>2, <3>3
  <2>. QED BY <1>6, <2>1, <2>2 DEF PlainInv
<1>7. CASE CueNext /\ cue_pc # "parse"
  <2>1. Reset \/ SetImage \/ OtherDisc
    BY <1>7 DEF CueNext, File, TrackLine, Pregap, Index0, Index1, OtherLine, EndOfSheet, At
  <2>. QED BY <1>2, <1>4, <1>5, <2>1
<1>. QED BY <1>3, <1>6, <1>7

LEMMA PlainInvariant == CueSpec => []PlainInv
<1>1. CueInit => PlainInv
  BY DEF CueInit, PlainInv
<1>2. TableInv /\ TableInv' /\ PlainInv /\ [CueNext]_cueVars => PlainInv'
  BY PlainStep
<1>. QED BY <1>1, <1>2, TableInvariant, PTL DEF CueSpec

LEMMA PlainSays ==
  ASSUME Plain(disc)
  PROVE  /\ TrackCount \in Nat
         /\ \A j \in 0..TrackCount-1 :
              /\ W(j).start < W(j).end
              /\ j < TrackCount - 1 => W(j).end <= W(j + 1).start
<1>1. CASE OwnFiles(disc)
  <2>1. TrackCount \in Nat
    BY <1>1 DEF OwnFiles, TrackCount
  <2>2. ASSUME NEW j \in 0..TrackCount-1
        PROVE  W(j).start < W(j).end /\ (j < TrackCount - 1 => W(j).end <= W(j + 1).start)
    <3>1. W(j).start < W(j).end /\ W(j).end \in Nat
      BY <1>1, <2>2, OwnSays
    <3>2. ASSUME j < TrackCount - 1 PROVE W(j).end <= W(j + 1).start
      <4>1. j + 1 \in 0..TrackCount-1 /\ j + 1 # 0 /\ (j + 1) - 1 = j
        BY <2>1, <2>2, <3>2
      <4>2. /\ W(j + 1).start = FileFirst(j + 1) + OwnLine(j + 1, 5).t
            /\ OwnLine(j + 1, 5).t \in Nat /\ Gap(OwnLine(j + 1, 3)) \in Nat
        BY <1>1, <4>1, OwnSays
      <4>3. FileFirst(j + 1) = W(j).end + Gap(OwnLine(j + 1, 3))
        BY <4>1 DEF FileFirst
      <4>. QED BY <3>1, <4>2, <4>3
    <3>. QED BY <3>1, <3>2
  <2>. QED BY <2>1, <2>2
<1>2. CASE OneFile(disc)
  <2>1. TrackCount \in Nat
    BY <1>2 DEF OneFile, TrackCount
  <2>. QED BY <1>2, <2>1, OneSays
<1>. QED BY <1>1, <1>2 DEF Plain

(* Every disc whose sheet is plain is mounted with all tracks of its sheet,*)
(* for any discs before it, and what they left in the names, and any number*)
(* of tracks (LoadCUE, Unload), if no file beside it goes on, behind a     *)
(* blank, where the name of a FILE line ends.                              *)
THEOREM MountsWhatIsWritten ==
  ASSUME FilesApart PROVE CueSpec => []TracksAsWritten
<1>1. PlainInv => TracksAsWritten
  <2>1. SUFFICES ASSUME PlainInv, Mounted, Plain(disc), ~file_error
        PROVE  /\ toc.last = TrackCount
               /\ \A i \in 1..toc.last :
                    /\ tracks[i-1].type = disc.track[i].type /\ NameOf(tracks[i-1]) = disc.track[i].file
                    /\ tracks[i-1].start = disc.track[i].start
                    /\ tracks[i-1].start < tracks[i-1].end /\ tracks[i-1].end = disc.track[i].end
                    /\ i < toc.last => tracks[i-1].end <= tracks[i].start
    BY DEF TracksAsWritten, TrackCount, NameOf
  <2>2. toc.last = TrackCount /\ \A j \in 0..TrackCount-1 : TrackRight(j)
    BY <2>1 DEF PlainInv, Mounted, AllRight
  <2>3. SUFFICES ASSUME NEW i \in 1..TrackCount
        PROVE  /\ tracks[i-1].type = disc.track[i].type /\ NameOf(tracks[i-1]) = disc.track[i].file
               /\ tracks[i-1].start = disc.track[i].start
               /\ tracks[i-1].start < tracks[i-1].end /\ tracks[i-1].end = disc.track[i].end
               /\ i < TrackCount => tracks[i-1].end <= tracks[i].start
    BY <2>2
  <2> DEFINE j == i - 1
  <2>4. j \in 0..TrackCount-1 /\ j + 1 = i /\ (i < TrackCount => i \in 0..TrackCount-1 /\ j < TrackCount - 1)
    BY <2>1, PlainSays
  <2>5. W(j) = disc.track[i]
    BY <2>4 DEF W
  <2>6. TrackRight(j) /\ (i < TrackCount => TrackRight(i))
    BY <2>2, <2>4
  <2>7. W(j).start < W(j).end /\ (i < TrackCount => W(j).end <= W(i).start)
    BY <2>1, <2>4, PlainSays
  <2>. QED BY <2>5, <2>6, <2>7 DEF TrackRight
<1>. QED BY <1>1, PlainInvariant, PTL

(* The sectors of its tracks are sought in the file where they are, for    *)
(* all of them (the offset and opened of a track).                         *)
THEOREM SeeksWhereItIs ==
  ASSUME FilesApart PROVE CueSpec => []SectorsInPlace
<1>1. PlainInv => SectorsInPlace
  <2>1. SUFFICES ASSUME PlainInv, Mounted, Plain(disc), ~file_error, NEW i \in 1..toc.last
        PROVE  /\ PlaceOf(i-1, disc.track[i].start) = disc.track[i].byte
               /\ PlaceOf(i-1, tracks[i-1].end) <= FileSize[disc.track[i].file]
    BY DEF SectorsInPlace
  <2>2. toc.last = TrackCount /\ \A j \in 0..TrackCount-1 : TrackRight(j)
    BY <2>1 DEF PlainInv, Mounted, AllRight
  <2>3. i - 1 \in 0..TrackCount-1 /\ (i - 1) + 1 = i
    BY <2>1, <2>2, PlainSays
  <2>4. W(i-1) = disc.track[i]
    BY <2>3 DEF W
  <2>. QED BY <2>2, <2>3, <2>4 DEF TrackRight
<1>. QED BY <1>1, PlainInvariant, PTL

(* A disc that is mounted with a part missing was reported.                *)
THEOREM ShortDiscIsReported ==
  ASSUME FilesApart PROVE CueSpec => []LossIsReported
<1>1. PlainInv => LossIsReported
  <2>1. SUFFICES ASSUME PlainInv, Mounted, Plain(disc), toc.last < TrackCount, ~file_error PROVE FALSE
    BY DEF LossIsReported, TrackCount
  <2>2. toc.last = TrackCount /\ TrackCount \in Nat
    BY <2>1, PlainSays DEF PlainInv, Mounted, AllRight
  <2>. QED BY <2>1, <2>2
<1>. QED BY <1>1, PlainInvariant, PTL
-----------------------------------------------------------------------------
(***************************************************************************)
(* Types of the parser: a track has a type and a sector size that the      *)
(* sheet can say, or none; and nothing is loaded, nor tracks[-1] written,  *)
(* while a sheet is read.                                                  *)
(***************************************************************************)
KindRight(t) == t.type \in 0..2 /\ t.sector_size \in {0, 2048, 2352, 2448}
KindsRight(tr) == \A j \in 0..MaxTracks-1 : KindRight(tr[j])

Flags ==
  /\ cue_pc \in {"reset", "parse", "mount", "done"} /\ result \in {0, 1, 100, -1}
  /\ loaded => result = 1 /\ cue_pc \in {"reset", "done"}
  /\ spilt => toc.last = 0 /\ cue_pc # "parse"

LEMMA KindFields ==
  ASSUME NEW s, NEW t, IsTrack(s), IsTrack(t), KindRight(s),
         \A f \in {"type", "sector_size"} : t[f] = s[f]
  PROVE  KindRight(t)
BY DEF KindRight

EndedAt(s, a) == [s EXCEPT !.end = a]

LEMMA EndKind ==
  ASSUME NEW s, IsTrack(s), KindRight(s), NEW a
  PROVE  IsTrack(EndedAt(s, a)) /\ KindRight(EndedAt(s, a))
<1>1. IsTrack(EndedAt(s, a)) /\ \A f \in {"type", "sector_size"} : EndedAt(s, a)[f] = s[f]
  BY DEF EndedAt, IsTrack, Fields
<1>. QED BY <1>1, KindFields

LEMMA PutKind ==
  ASSUME NEW tr, IsTable(tr), KindsRight(tr), NEW i \in 0..MaxTracks-1, NEW t, IsTrack(t), KindRight(t)
  PROVE  KindsRight(Put(tr, i, t))
<1>0. Put(tr, i, t)[i] = t /\ \A j \in 0..MaxTracks-1 : j # i => Put(tr, i, t)[j] = tr[j]
  BY SetTrack
<1>1. ASSUME NEW j \in 0..MaxTracks-1 PROVE KindRight(Put(tr, i, t)[j])
  <2>1. CASE j = i
    BY <1>0, <2>1
  <2>2. CASE j # i
    BY <1>0, <2>2 DEF KindsRight
  <2>. QED BY <2>1, <2>2
<1>. QED BY <1>1 DEF KindsRight

LEMMA CloseKinds ==
  ASSUME NEW tr, IsTable(tr), KindsRight(tr), NEW tc, tc = [last |-> tc.last, end |-> tc.end],
         tc.last \in 0..MaxTracks, CloseLast(tr, tc)
  PROVE  KindsRight(tracks') /\ (tc.last > 0 => spilt' = spilt) /\ (tc.last = 0 => toc'.last = tc.last)
<1>1. CASE tc.last = 0
  BY <1>1 DEF CloseLast
<1>2. CASE tc.last # 0
  <2>0. MaxTracks \in Nat \ {0}
    BY NameAssumption
  <2>1. tc.last - 1 \in 0..MaxTracks-1 /\ IsTrack(tr[tc.last - 1])
    BY <1>2, <2>0 DEF IsTable
  <2>2. PICK e : tracks' = Put(tr, tc.last - 1, EndedAt(tr[tc.last - 1], e))
    BY <1>2 DEF CloseLast, Put, EndedAt
  <2>3. KindRight(tr[tc.last - 1])
    BY <2>1 DEF KindsRight
  <2>4. /\ IsTrack(EndedAt(tr[tc.last - 1], e)) /\ KindRight(EndedAt(tr[tc.last - 1], e))
    BY <2>1, <2>3, EndKind
  <2>5. KindsRight(tracks') /\ spilt' = spilt
    BY <1>2, <2>1, <2>2, <2>4, PutKind DEF CloseLast
  <2>. QED BY <1>2, <2>5
<1>. QED BY <1>1, <1>2

LEMMA ClearedKinds == ASSUME TableInv, KindsRight(tracks) PROVE KindsRight(Cleared)
<1>1. ASSUME NEW j \in 0..MaxTracks-1 PROVE KindRight(Cleared[j])
  <2>1. CASE j < toc.last
    <3>1. Cleared[j] = [Track EXCEPT !.name = tracks[j].name]
      BY <2>1 DEF Cleared, Slots
    <3>. QED BY <3>1 DEF Track, KindRight
  <2>2. CASE ~(j < toc.last)
    <3>1. Cleared[j] = tracks[j]
      BY <2>2 DEF Cleared, Slots
    <3>. QED BY <3>1 DEF KindsRight
  <2>. QED BY <2>1, <2>2
<1>. QED BY <1>1 DEF KindsRight

LEMMA FileKinds == ASSUME TableInv, KindsRight(tracks), File PROVE KindsRight(tracks')
<1>0. toc.last \in 0..MaxTracks-1 /\ IsTrack(tracks[toc.last]) /\ KindRight(tracks[toc.last])
  BY NameAssumption DEF File, At, TableInv, Shape, IsTable, KindsRight
<1> DEFINE t == [tracks[toc.last] EXCEPT !.name = NameOver(tracks[toc.last].name, Cmd)]
<1>1. tracks' = Put(tracks, toc.last, t)
  BY DEF File, Put
<1>2. IsTrack(t) /\ \A f \in {"type", "sector_size"} : t[f] = tracks[toc.last][f]
  BY <1>0, SetName DEF Fields
<1> HIDE DEF t
<1>3. KindRight(t)
  BY <1>0, <1>2, KindFields
<1>. QED BY <1>0, <1>1, <1>2, <1>3, PutKind DEF TableInv, Shape

LEMMA TrackLineKinds ==
  ASSUME TableInv, KindsRight(tracks), Flags, TrackLine PROVE KindsRight(tracks') /\ Flags'
<1> DEFINE i == toc.last
<1>0. i \in 0..MaxTracks-1 /\ IsTrack(tracks[i]) /\ KindRight(tracks[i]) /\ cue_pc = "parse"
  BY NameAssumption DEF TrackLine, At, TableInv, Shape, IsTable, KindsRight
<1>1. PICK n, mode : NewTrack(i, n, mode)
  BY DEF TrackLine
<1>2. loaded' = loaded /\ ~loaded /\ ~spilt
  BY <1>0 DEF TrackLine, Flags
<1>3. CASE n # i + 1
  <2>1. CloseLast(tracks, toc) /\ cue_pc' = "mount" /\ result' = 1
    BY <1>1, <1>3 DEF NewTrack, Return
  <2>2. /\ KindsRight(tracks') /\ (toc.last > 0 => spilt' = spilt)
        /\ (toc.last = 0 => toc'.last = toc.last)
    BY <2>1, CloseKinds DEF TableInv, Shape
  <2>. QED BY <1>0, <1>2, <2>1, <2>2 DEF Flags
<1>4. CASE n = i + 1
  <2> DEFINE b == IF mode \in DOMAIN TypeOf THEN SectorSize[mode] ELSE tracks[i].sector_size
             c == IF mode \in DOMAIN TypeOf THEN TypeOf[mode] ELSE tracks[i].type
             d == IF File_processesd THEN tracks[i].name ELSE StrCpy(tracks[i].name, aft.name)
             e == File_processesd /\ i >= 1
             t == WithKind(tracks[i], aft.size, b, c, d, e)
             first == EndedOpen(tracks[0], EndByFile(tracks[0]))
             split == File_processesd /\ i = 1
  <2>1. /\ tracks' = IF split THEN Put(Put(tracks, 1, t), 0, first) ELSE Put(tracks, i, t)
        /\ cue_pc' = "parse" /\ result' = result /\ spilt' = spilt
    BY <1>1, <1>4 DEF NewTrack, NextLine, Put, EndedOpen, WithKind
  <2>2. b \in {0, 2048, 2352, 2448} /\ c \in 0..2
    BY <1>0 DEF TypeOf, SectorSize, KindRight
  <2>3. IsTrack(t) /\ t.sector_size = b /\ t.type = c
    <3> HIDE DEF b, c, d, e
    <3>. QED BY <1>0, SetKind
  <2> HIDE DEF t
  <2>4. KindRight(t)
    BY <2>2, <2>3 DEF KindRight
  <2>5. KindsRight(tracks')
    <3>1. CASE split
      <4>1. 0 \in 0..MaxTracks-1 /\ 1 \in 0..MaxTracks-1
        BY <1>0, <3>1, NameAssumption
      <4>2. IsTrack(first) /\ \A f \in {"type", "sector_size"} : first[f] = tracks[0][f]
        BY <4>1, SetEndOpened DEF TableInv, Shape, IsTable, Fields
      <4> HIDE DEF first
      <4>3. KindRight(first)
        <5>1. IsTrack(tracks[0]) /\ KindRight(tracks[0])
          BY <4>1 DEF TableInv, Shape, IsTable, KindsRight
        <5>. QED BY <4>2, <5>1, KindFields
      <4> DEFINE tr == Put(tracks, 1, t)
      <4>4. IsTable(tr) /\ KindsRight(tr)
        BY <2>3, <2>4, <4>1, SetTrack, PutKind DEF TableInv, Shape
      <4> HIDE DEF tr
      <4>5. tracks' = Put(tr, 0, first)
        BY <2>1, <3>1 DEF tr
      <4>. QED BY <4>1, <4>2, <4>3, <4>4, <4>5, PutKind
    <3>2. CASE ~split
      <4>1. tracks' = Put(tracks, i, t) /\ IsTable(tracks)
        BY <2>1, <3>2 DEF TableInv, Shape
      <4>. QED BY <1>0, <2>3, <2>4, <4>1, PutKind
    <3>. QED BY <3>1, <3>2
  <2>6. Flags'
    BY <1>0, <1>2, <2>1 DEF Flags
  <2>. QED BY <2>5, <2>6
<1>. QED BY <1>3, <1>4

LEMMA Index1Kinds ==
  ASSUME TableInv, KindsRight(tracks), Flags, Index1 PROVE KindsRight(tracks') /\ Flags'
<1> DEFINE i  == toc.last
           tr == IF tracks[i].opened THEN OwnFile(i, Cmd.t) ELSE WithinFile(i, Cmd.t)
           tc == [last |-> i + 1, end |-> IF tracks[i].opened THEN tr[i].end ELSE toc.end]
<1>0. i \in 0..MaxTracks-1 /\ IsTable(tracks) /\ cue_pc = "parse" /\ MaxTracks \in Nat \ {0}
  BY NameAssumption DEF Index1, At, TableInv, Shape
<1>t. \A j \in 0..MaxTracks-1 : IsTrack(tracks[j]) /\ KindRight(tracks[j])
  BY <1>0 DEF IsTable, KindsRight
<1>1. IsTable(tr) /\ KindsRight(tr)
  <2>1. CASE tracks[i].opened
    <3>1. tr = OwnFile(i, Cmd.t)
      BY <2>1
    <3> HIDE DEF tr
    <3>2. PICK a, b, e : /\ IsTable(tr) /\ tr[i] = WithExtent(tracks[i], a, b, e)
                         /\ \A j \in 0..MaxTracks-1 : j # i => tr[j] = tracks[j]
      BY <1>0, <3>1, OwnTable
    <3>3. KindRight(tr[i])
      <4>1. IsTrack(tr[i]) /\ \A f \in {"type", "sector_size"} : tr[i][f] = tracks[i][f]
        BY <1>0, <1>t, <3>2, SetExtent DEF Fields
      <4>. QED BY <1>0, <1>t, <4>1, KindFields
    <3>. QED BY <1>t, <3>2, <3>3 DEF KindsRight
  <2>2. CASE ~tracks[i].opened
    <3> DEFINE u == Cmd.t
    <3>1. tr = WithinFile(i, u)
      BY <2>2
    <3> HIDE DEF tr, u
    <3>2. /\ IsTable(tr)
          /\ \A j \in 0..MaxTracks-1 : j # i =>
               tr[j] = IF j = i - 1 /\ tracks[j].end = 0
                       THEN [tracks[j] EXCEPT !.end = u + pregap] ELSE tracks[j]
      BY <1>0, <3>1, WithinTable
    <3>5. tr[i] = WithPlace(tracks[i], u + pregap, (u + pregap) * tracks[i].sector_size - hdr)
      BY <1>0, <3>1, WithinTable, Zenon
    <3>3. KindRight(tr[i])
      <4>1. IsTrack(tr[i]) /\ \A f \in {"type", "sector_size"} : tr[i][f] = tracks[i][f]
        BY <1>0, <1>t, <3>5, SetPlace DEF Fields
      <4>. QED BY <1>0, <1>t, <4>1, KindFields
    <3>4. ASSUME NEW j \in 0..MaxTracks-1, j # i PROVE KindRight(tr[j])
      <4>1. tr[j] = EndedAt(tracks[j], u + pregap) \/ tr[j] = tracks[j]
        BY <3>2, <3>4 DEF EndedAt
      <4>. QED BY <1>t, <4>1, EndKind
    <3>. QED BY <3>2, <3>3, <3>4 DEF KindsRight
  <2>. QED BY <2>1, <2>2
<1>2. /\ tc = [last |-> tc.last, end |-> tc.end]
      /\ tc.last = i + 1 /\ tc.last \in 0..MaxTracks /\ tc.last > 0
  BY <1>0
<1>3. IF i + 1 = MaxTracks
      THEN CloseLast(tr, tc) /\ cue_pc' = "mount" /\ result' = 1
      ELSE tracks' = tr /\ cue_pc' = "parse" /\ result' = result /\ spilt' = spilt
  BY DEF Index1, Return, NextLine
<1>4. loaded' = loaded /\ ~loaded /\ ~spilt
  BY <1>0 DEF Index1, Flags
<1> HIDE DEF tr, tc
<1>5. CASE i + 1 = MaxTracks
  BY <1>0, <1>1, <1>2, <1>3, <1>4, <1>5, CloseKinds DEF Flags
<1>6. CASE i + 1 # MaxTracks
  BY <1>0, <1>1, <1>3, <1>4, <1>6 DEF Flags
<1>. QED BY <1>5, <1>6

LEMMA KindStep ==
  ASSUME TableInv, KindsRight(tracks), Flags, [CueNext]_cueVars PROVE KindsRight(tracks') /\ Flags'
<1>1. CASE Reset
  <2>1. tracks' = tracks \/ tracks' = Cleared
    BY <1>1 DEF Reset, Unload
  <2>2. KindsRight(tracks')
    BY <2>1, ClearedKinds
  <2>3. Flags'
    BY <1>1 DEF Reset, Unload, Flags
  <2>. QED BY <2>2, <2>3
<1>2. CASE File
  <2>1. /\ cue_pc = "parse" /\ cue_pc' \in {"parse", "mount"} /\ result' \in {1, -1, result}
        /\ UNCHANGED <<loaded, spilt, toc>>
    <3>1. \E name : Opened(name) \/ NotOpened(name)
      BY <1>2 DEF File
    <3>. QED BY <1>2, <3>1 DEF File, Opened, NotOpened, At, Return, NextLine
  <2>2. Flags'
    BY <2>1 DEF Flags
  <2>. QED BY <1>2, <2>2, FileKinds
<1>3. CASE Pregap \/ OtherLine
  <2>1. UNCHANGED <<tracks, toc, loaded, spilt, result, cue_pc>>
    BY <1>3 DEF Pregap, OtherLine, At, NextLine, table
  <2>. QED BY <2>1 DEF KindsRight, Flags
<1>4. CASE Index0
  <2>1. cue_pc = "parse" /\ UNCHANGED <<toc, loaded, spilt, result, cue_pc>>
    BY <1>4 DEF Index0, At, NextLine
  <2>2. Flags'
    BY <2>1 DEF Flags
  <2>3. CASE tracks' = tracks
    BY <2>2, <2>3 DEF KindsRight
  <2>4. CASE toc.last > 0 /\ tracks' = [tracks EXCEPT ![toc.last - 1].end = Cmd.t + pregap]
    <3> DEFINE u == EndedAt(tracks[toc.last - 1], Cmd.t + pregap)
    <3>1. /\ toc.last - 1 \in 0..MaxTracks-1 /\ IsTrack(tracks[toc.last - 1])
          /\ KindRight(tracks[toc.last - 1])
      BY <2>1, <2>4, NameAssumption DEF TableInv, Shape, IsTable, KindsRight
    <3>2. IsTrack(u) /\ KindRight(u)
      BY <3>1, EndKind
    <3>3. tracks' = Put(tracks, toc.last - 1, u)
      BY <2>4 DEF Put, EndedAt
    <3> HIDE DEF u
    <3>. QED BY <2>2, <3>1, <3>2, <3>3, PutKind DEF TableInv, Shape
  <2>. QED BY <1>4, <2>3, <2>4 DEF Index0
<1>5. CASE EndOfSheet
  <2>1. /\ cue_pc = "parse" /\ cue_pc' = "mount" /\ result' = 1 /\ loaded' = loaded
        /\ CloseLast(tracks, toc)
    BY <1>5 DEF EndOfSheet, Return
  <2>2. /\ KindsRight(tracks') /\ (toc.last > 0 => spilt' = spilt)
        /\ (toc.last = 0 => toc'.last = toc.last) /\ toc.last \in 0..MaxTracks
    BY <2>1, CloseKinds DEF TableInv, Shape
  <2>. QED BY <2>1, <2>2, NameAssumption DEF Flags
<1>6. CASE SetImage
  <2>1. tracks' = tracks \/ tracks' = Cleared
    BY <1>6 DEF SetImage, table
  <2>2. KindsRight(tracks')
    BY <2>1, ClearedKinds
  <2>3. Flags'
    BY <1>6 DEF SetImage, table, Flags
  <2>. QED BY <2>2, <2>3
<1>7. CASE OtherDisc \/ UNCHANGED cueVars
  <2>1. UNCHANGED <<tracks, toc, loaded, spilt, result>> /\ (cue_pc' = cue_pc \/ cue_pc' = "reset")
    BY <1>7 DEF OtherDisc, cueVars, table, drive
  <2>. QED BY <2>1 DEF KindsRight, Flags
<1>. QED BY <1>1, <1>2, <1>3, <1>4, <1>5, <1>6, <1>7, TrackLineKinds, Index1Kinds DEF CueNext

(* cue.cpp: whatever a sheet says, the table never has more tracks than    *)
(* room, every track has a type and a sector size of the four there are;   *)
(* and tracks[-1], the flags of the drive, is written only when a sheet    *)
(* without any track has been read to its end.                             *)
THEOREM ParserTypes == CueSpec => []CueTypeOK
<1>1. CueInit => KindsRight(tracks) /\ Flags
  BY DEF CueInit, KindsRight, KindRight, Flags, Track, Slots
<1>2. TableInv /\ KindsRight(tracks) /\ Flags => CueTypeOK
  BY DEF TableInv, Shape, KindsRight, KindRight, Flags, CueTypeOK, Slots
<1>3. (KindsRight(tracks))' <=> KindsRight(tracks')
  BY DEF KindsRight, KindRight
<1>. QED BY <1>1, <1>2, <1>3, TableInit, TableStep, KindStep, PTL DEF CueSpec
=============================================================================
