----------------------------- MODULE HeapProofs -----------------------------
(***************************************************************************)
(* Proofs about Heap, for every heap and all requests: as long as nobody   *)
(* calls a statistic while MemFree points to a free block, no block is     *)
(* given to two callers, the compactor finds only free space, and NULL     *)
(* means that there is none.                                               *)
(***************************************************************************)
EXTENDS Heap, TLAPS

USE HeapAssumption
USE DEF NULL, End, Addr, Blocks, header, call, scan

(* Only MemFree = NULL lets a statistic start.                             *)
Careful == FALSE \notin StatisticsWhen

LEMMA InitIInv == HeapInit => IInv
<1> SUFFICES ASSUME HeapInit PROVE IInv
  OBVIOUS
<1>1. HeapTypeOK
  BY DEF HeapInit, HeapTypeOK, Header
<1>2. ChainIsWhole
  BY DEF HeapInit, ChainIsWhole
<1>3. Owned
  BY DEF HeapInit, Owned
<1>4. FreePointer /\ Run /\ Walk
  BY DEF HeapInit, FreePointer, Run, Walk
<1> QED
  BY <1>1, <1>2, <1>3, <1>4 DEF IInv
-----------------------------------------------------------------------------

(* A scan that begins has gathered nothing.                                *)
LEMMA MallocKeepsIInv ==
  ASSUME IInv, NEW n \in Requests, Malloc(n) PROVE IInv'
<1> USE DEF IInv
<1>1. HeapTypeOK'
  <2>1. n + 1 \in Nat /\ 0 \in Addr
    OBVIOUS
  <2> QED
    BY <2>1 DEF HeapTypeOK, Malloc, StartScan
<1>2. ChainIsWhole'
  BY DEF ChainIsWhole, Malloc
<1>3. Owned'
  BY DEF Owned, Malloc
<1>4. FreePointer'
  BY DEF FreePointer, HeapTypeOK, Malloc, StartScan
<1>5. Run' /\ Walk'
  BY DEF Run, Walk, ChainIsWhole, HeapTypeOK, Malloc, StartScan
<1> QED
  BY <1>1, <1>2, <1>3, <1>4, <1>5

LEMMA StatisticKeepsIInv ==
  ASSUME Careful, IInv, NEW s \in {"largest", "total"}, Statistic(s) PROVE IInv'
<1> USE DEF IInv
<1>1. HeapTypeOK'
  BY DEF HeapTypeOK, Statistic, StartScan
<1>2. ChainIsWhole'
  BY DEF ChainIsWhole, Statistic
<1>3. Owned'
  BY DEF Owned, Statistic
<1>4. MemFree = NULL
  BY DEF Careful, Statistic
<1>5. FreePointer'
  BY <1>4 DEF FreePointer, HeapTypeOK, Statistic, StartScan
<1>6. Run' /\ Walk'
  BY DEF Run, Walk, ChainIsWhole, HeapTypeOK, Statistic, StartScan
<1> QED
  BY <1>1, <1>2, <1>3, <1>5, <1>6

LEMMA ReadHeaderKeepsIInv ==
  ASSUME IInv, ReadHeader PROVE IInv'
<1> USE DEF IInv
<1>1. psize' = [size |-> size[p], used |-> used[p]] /\ psize' \in [size : 0..Words, used : BOOLEAN]
  BY DEF HeapTypeOK, ReadHeader, Header
<1>2. HeapTypeOK'
  BY <1>1 DEF HeapTypeOK, ReadHeader
<1>3. ChainIsWhole'
  BY DEF ChainIsWhole, ReadHeader
<1>4. Owned'
  BY DEF Owned, ReadHeader
<1>5. FreePointer'
  BY DEF FreePointer, ReadHeader
<1>6. Run' /\ Walk'
  BY <1>1 DEF Run, Walk, ChainIsWhole, ReadHeader
<1> QED
  BY <1>2, <1>3, <1>4, <1>5, <1>6

(* The block at p is free and follows the run without a gap.               *)
LEMMA FreeBlockKeepsIInv ==
  ASSUME IInv, FreeBlock PROVE IInv'
<1> USE DEF IInv
<1>1. /\ p \in blocks /\ psize.size = size[p] /\ ~used[p]
      /\ p + size[p] \in Blocks
  BY DEF FreeBlock, Run, ChainIsWhole
<1>2. size[p] \in Nat /\ p \in Nat /\ best \in Nat /\ bsize \in Nat /\ best + bsize = p
  BY <1>1 DEF HeapTypeOK, FreeBlock, Run
<1>3. /\ p' \in Blocks /\ best' + bsize' = p' /\ p' = p + size[p]
      /\ UNCHANGED <<best, blocks, used, size>>
  BY <1>1, <1>2 DEF FreeBlock
<1>4. HeapTypeOK'
  <2>1. p' \in Addr /\ bsize' \in Addr
    BY <1>1, <1>2, <1>3, SMTT(20) DEF HeapTypeOK, FreeBlock
  <2>2. psize' \in [size : 0..Words, used : BOOLEAN]
    BY DEF FreeBlock, Header
  <2> QED
    BY <2>1, <2>2 DEF HeapTypeOK, FreeBlock
<1>5. ChainIsWhole'
  BY DEF ChainIsWhole, FreeBlock
<1>6. Owned'
  BY DEF Owned, FreeBlock
<1>7. FreePointer'
  BY DEF FreePointer, FreeBlock
<1>8. \A b \in blocks : best <= b /\ b < p' => ~used[b]
  <2> SUFFICES ASSUME NEW b \in blocks, best <= b, b < p', b > p PROVE FALSE
    BY <1>1, <1>2 DEF Run, FreeBlock, HeapTypeOK
  <2> QED
    BY <1>1, <1>2, <1>3 DEF ChainIsWhole, HeapTypeOK
<1>9. Run' /\ Walk'
  BY <1>3, <1>8 DEF Run, Walk, FreeBlock
<1> QED
  BY <1>4, <1>5, <1>6, <1>7, <1>9
-----------------------------------------------------------------------------

(* To make one block of the run leaves a chain of blocks, drops only free  *)
(* blocks, and leaves p where a block begins.                              *)
LEMMA MergeKeepsChain ==
  ASSUME IInv, stage = "look", Merge, UNCHANGED <<used, held, freeing>>
  PROVE  /\ size' \in [Addr -> 0..Words] /\ blocks' \subseteq blocks
         /\ ChainIsWhole' /\ Owned'
         /\ p \in Blocks' /\ (p \in blocks => p \in blocks')
         /\ bsize # 0 => best \in blocks' /\ ~used[best] /\ size'[best] = bsize
         /\ size'[p] = size[p]
<1> USE DEF IInv
<1>1. /\ p \in Blocks /\ best \in Blocks /\ best + bsize = p
      /\ p \in Nat /\ best \in Nat /\ bsize \in Nat /\ p <= End
      /\ \A b \in blocks : best <= b /\ b < p => ~used[b]
  BY DEF Run, HeapTypeOK
<1>2. CASE bsize = 0
  BY <1>1, <1>2 DEF Merge, HeapTypeOK, ChainIsWhole, Owned
<1>3. CASE bsize # 0
  <2>1. /\ size' = [size EXCEPT ![best] = bsize]
        /\ blocks' = {b \in blocks : b <= best \/ p <= b}
    BY <1>1, <1>3 DEF Merge
  <2>2. best \in blocks /\ best < p /\ ~used[best]
    BY <1>1, <1>3
  <2>3. /\ size' \in [Addr -> 0..Words] /\ size'[best] = bsize /\ size'[p] = size[p]
        /\ \A b \in Addr : b # best => size'[b] = size[b]
    BY <1>1, <2>1, <2>2 DEF HeapTypeOK
  <2>4. /\ \A b \in blocks : b \in Nat /\ size[b] \in Nat /\ size[b] > 0
        /\ \A b \in blocks : b + size[b] \in Blocks
        /\ \A b, c \in blocks : b < c => b + size[b] <= c
        /\ \A b \in blocks : b <= End
    BY DEF ChainIsWhole, HeapTypeOK
  <2>5. ASSUME NEW b \in blocks'
        PROVE  /\ size'[b] > 0 /\ b + size'[b] \in Blocks'
               /\ \A c \in blocks' : b < c => b + size'[b] <= c
    <3>1. CASE b = best
      BY <1>1, <1>3, <2>1, <2>2, <2>3, <3>1
    <3>2. CASE b < best
      <4>1. size'[b] = size[b] /\ b + size[b] <= best /\ b + size[b] \in Blocks
        BY <1>1, <2>1, <2>2, <2>3, <2>4, <3>2
      <4> QED
        BY <1>1, <2>1, <2>2, <2>4, <4>1
    <3>3. CASE p <= b
      <4>1. size'[b] = size[b] /\ b + size[b] >= p /\ b + size[b] \in Blocks
        BY <1>1, <2>1, <2>2, <2>3, <2>4, <3>3
      <4> QED
        BY <1>1, <2>1, <2>2, <2>4, <4>1
    <3> QED
      BY <1>1, <2>1, <2>4, <3>1, <3>2, <3>3
  <2>6. 0 \in blocks' /\ End \notin blocks' /\ size'[End] = 0 /\ ~used'[End]
    BY <1>1, <2>1, <2>2, <2>3 DEF ChainIsWhole
  <2>7. ChainIsWhole'
    BY <2>5, <2>6 DEF ChainIsWhole
  <2>8. \A b \in blocks : used[b] => b \in blocks'
    BY <1>1, <2>1, <2>4
  <2>9. Owned'
    BY <2>1, <2>8 DEF Owned
  <2> QED
    BY <1>1, <2>1, <2>2, <2>3, <2>7, <2>9
<1> QED
  BY <1>2, <1>3

(* What compact_blocks finds is a free block of the length asked for.      *)
LEMMA FoundKeepsIInv ==
  ASSUME IInv, stage = "look", Merge, UNCHANGED <<used, asked, nsize, held, freeing, calm>>,
         psize' = Header(0, FALSE), NEW b \in {best, NULL}, b = best => BigEnough, Found(b)
  PROVE  IInv'
<1> USE DEF IInv
<1>1. /\ size' \in [Addr -> 0..Words] /\ blocks' \subseteq blocks
      /\ ChainIsWhole' /\ Owned'
      /\ bsize # 0 => best \in blocks' /\ ~used[best] /\ size'[best] = bsize
  BY MergeKeepsChain
<1>2. HeapTypeOK'
  BY <1>1, SMTT(20) DEF HeapTypeOK, Found, Header
<1>3. Run' /\ Walk'
  <2>1. stage' \in {"take", "null", "count"} /\ p' = 0 /\ bsize' = 0
    BY DEF Found
  <2>2. 0 \in Blocks'
    BY <1>1 DEF ChainIsWhole
  <2>3. Run'
    BY <2>1 DEF Run
  <2>4. Walk'
    BY <2>1, <2>2 DEF Walk
  <2> QED
    BY <2>3, <2>4
<1>4. bsize \in Nat /\ best \in Nat /\ bsize <= End
  BY DEF HeapTypeOK
<1>5. FreePointer'
  <2>1. CASE asked = "block"
    <3>1. MemFree' = b /\ stage' \in {"take", "null"} /\ (stage' = "take" <=> b # NULL)
      BY <2>1 DEF Found
    <3>2. CASE b = NULL
      BY <2>1, <3>1, <3>2 DEF FreePointer
    <3>3. CASE b # NULL
      <4>1. b = best /\ bsize # 0 /\ bsize >= nsize
        BY <3>3 DEF BigEnough
      <4> QED
        BY <1>1, <1>4, <2>1, <3>1, <4>1 DEF FreePointer
    <3> QED
      BY <3>2, <3>3
  <2>2. CASE asked # "block"
    BY <2>2 DEF FreePointer, Found
  <2> QED
    BY <2>1, <2>2
<1> QED
  BY <1>1, <1>2, <1>3, <1>5

LEMMA UsedBlockKeepsIInv ==
  ASSUME IInv, UsedBlock PROVE IInv'
<1> USE DEF IInv
<1>1. CASE BigEnough
  BY <1>1, FoundKeepsIInv DEF UsedBlock
<1>2. CASE ~BigEnough
  <2>1. /\ stage = "look" /\ Merge /\ p' = p + size[p] /\ best' = p' /\ bsize' = 0
        /\ stage' = "read" /\ psize' = Header(0, FALSE)
        /\ UNCHANGED <<used, asked, nsize, held, freeing, calm, MemFree>>
        /\ p \in blocks
    BY <1>2 DEF UsedBlock, Run
  <2>2. /\ size' \in [Addr -> 0..Words] /\ blocks' \subseteq blocks
        /\ ChainIsWhole' /\ Owned' /\ p \in blocks' /\ size'[p] = size[p]
    BY <2>1, MergeKeepsChain
  <2>3. p' \in Blocks' /\ p' \in Addr
    BY <2>1, <2>2 DEF ChainIsWhole, HeapTypeOK
  <2>4. HeapTypeOK'
    BY <2>1, <2>2, <2>3, SMTT(20) DEF HeapTypeOK, Header
  <2>5. FreePointer'
    BY <2>1, <2>2 DEF FreePointer
  <2>6. Run' /\ Walk'
    BY <2>1, <2>2, <2>3 DEF Run, Walk
  <2> QED
    BY <2>2, <2>4, <2>5, <2>6
<1> QED
  BY <1>1, <1>2

LEMMA EndOfHeapKeepsIInv ==
  ASSUME IInv, EndOfHeap PROVE IInv'
<1>1. CASE BigEnough
  BY <1>1, FoundKeepsIInv DEF EndOfHeap
<1>2. CASE ~BigEnough
  <2>1. NULL # best
    BY DEF IInv, HeapTypeOK
  <2> QED
    BY <1>2, <2>1, FoundKeepsIInv DEF EndOfHeap
<1> QED
  BY <1>1, <1>2
-----------------------------------------------------------------------------

(* The request and the rest lie where the free block lay.                  *)
LEMMA TakeKeepsIInv ==
  ASSUME IInv, Take PROVE IInv'
<1> USE DEF IInv
<1> DEFINE m == MemFree
           rest == m + nsize
<1>1. /\ m \in blocks /\ ~used[m] /\ m \notin held /\ freeing # m
      /\ nsize \in Nat /\ nsize > 0 /\ nsize <= size[m]
  BY DEF Take, FreePointer, Owned, HeapTypeOK
<1>2. /\ \A b \in blocks : b \in Nat /\ size[b] \in Nat /\ size[b] > 0 /\ b < End
      /\ \A b \in blocks : b + size[b] \in Blocks /\ b + size[b] <= End
      /\ \A b, c \in blocks : b < c => b + size[b] <= c
      /\ blocks \subseteq Addr
  BY DEF ChainIsWhole, HeapTypeOK
<1>3. held' = held \cup {m} /\ UNCHANGED <<scan, freeing, calm>>
  BY DEF Take
<1>4. stage' = "idle" /\ asked' = "block" /\ nsize' = 0
  BY DEF Take, Return
<1>5. Run' /\ Walk'
  BY <1>4 DEF Run, Walk
<1>6. CASE size[m] >= nsize + 1
  <2>1. /\ size' = [size EXCEPT ![rest] = size[m] - nsize, ![m] = nsize]
        /\ used' = [used EXCEPT ![rest] = FALSE, ![m] = TRUE]
        /\ MemFree' = rest /\ blocks' = blocks \cup {rest}
    BY <1>6 DEF Take
  <2>2. /\ rest \in Nat /\ m < rest /\ rest < End /\ rest + (size[m] - nsize) = m + size[m]
        /\ rest < m + size[m] /\ m \in Addr /\ rest \in Addr /\ m # rest
        /\ rest = m + nsize /\ size[m] \in Nat
    BY <1>1, <1>2, <1>6
  <2>3. rest \notin blocks
    BY <1>1, <1>2, <2>2
  <2> HIDE DEF rest, m
  <2>4. /\ size'[m] = nsize /\ size'[rest] = size[m] - nsize
        /\ \A b \in Addr : b # m /\ b # rest => size'[b] = size[b]
        /\ used'[m] /\ ~used'[rest]
        /\ \A b \in Addr : b # m /\ b # rest => used'[b] = used[b]
    <3>1. size \in [Addr -> 0..Words] /\ used \in [Addr -> BOOLEAN]
      BY DEF HeapTypeOK
    <3> QED
      BY <2>1, <2>2, <3>1
  <2>5. HeapTypeOK'
    <3>1. size[m] - nsize \in 0..Words /\ nsize \in 0..Words /\ m \in Addr /\ rest \in Addr
      BY <1>1, <1>2, <2>2 DEF HeapTypeOK
    <3>2. size' \in [Addr -> 0..Words]
      BY <2>1, <3>1 DEF HeapTypeOK
    <3>3. used' \in [Addr -> BOOLEAN]
      BY <2>1, <3>1 DEF HeapTypeOK
    <3> QED
      BY <1>3, <1>4, <2>1, <3>1, <3>2, <3>3 DEF HeapTypeOK
  <2>6. ASSUME NEW b \in blocks'
        PROVE  /\ size'[b] > 0 /\ b + size'[b] \in Blocks'
               /\ \A c \in blocks' : b < c => b + size'[b] <= c
    <3>0. m + size[m] \in Blocks' /\ rest \in Blocks'
      BY <1>1, <1>2, <2>1
    <3>1. CASE b = m
      <4>1. size'[b] = nsize /\ b + size'[b] = rest
        BY <2>2, <2>4, <3>1
      <4>2. ASSUME NEW c \in blocks, b < c PROVE rest <= c
        <5>1. m + size[m] <= c /\ c \in Nat
          BY <1>1, <1>2, <3>1, <4>2
        <5> QED
          BY <2>2, <5>1
      <4>3. ASSUME NEW c \in blocks', b < c PROVE rest <= c
        BY <2>1, <2>2, <4>2, <4>3
      <4> QED
        BY <1>1, <3>0, <4>1, <4>3
    <3>2. CASE b = rest
      <4>1. size'[b] = size[m] - nsize /\ b + size'[b] = m + size[m]
        BY <2>2, <2>4, <3>2
      <4>2. ASSUME NEW c \in blocks, b < c PROVE m + size[m] <= c
        <5>1. m < c
          BY <1>2, <2>2, <3>2, <4>2
        <5> QED
          BY <1>1, <1>2, <5>1
      <4>3. ASSUME NEW c \in blocks', b < c PROVE m + size[m] <= c
        BY <2>1, <2>2, <3>2, <4>2, <4>3
      <4>4. size[m] - nsize > 0
        BY <1>1, <1>6, <2>2
      <4> QED
        BY <3>0, <4>1, <4>3, <4>4
    <3>3. CASE b # m /\ b # rest
      <4>1. b \in blocks /\ b \in Addr /\ size'[b] = size[b] /\ size[b] > 0
        BY <1>2, <2>1, <2>4, <3>3
      <4>2. b + size[b] \in Blocks'
        BY <1>2, <2>1, <4>1
      <4>3. ASSUME b < rest PROVE b + size[b] <= rest
        <5>1. b < m
          <6>1. ~(m < b)
            <7>1. m < b => m + size[m] <= b
              BY <1>1, <1>2, <4>1
            <7> QED
              BY <1>2, <2>2, <4>1, <4>3, <7>1
          <6> QED
            BY <1>2, <2>2, <3>3, <4>1, <6>1
        <5>2. b + size[b] <= m
          BY <1>1, <1>2, <4>1, <5>1
        <5> QED
          BY <1>2, <2>2, <4>1, <5>2
      <4>4. ASSUME NEW c \in blocks', b < c PROVE b + size[b] <= c
        BY <1>2, <2>1, <4>1, <4>3, <4>4
      <4> QED
        BY <4>1, <4>2, <4>4
    <3> QED
      BY <3>1, <3>2, <3>3
  <2>7. 0 \in blocks' /\ End \notin blocks' /\ size'[End] = 0 /\ ~used'[End]
    BY <1>1, <1>2, <1>3, <2>1, <2>2, <2>4 DEF ChainIsWhole, HeapTypeOK
  <2>8. ChainIsWhole'
    BY <2>6, <2>7 DEF ChainIsWhole
  <2>9. Owned'
    <3>1. held' \subseteq blocks' /\ freeing' \in (blocks' \ held') \cup {NULL}
      BY <1>1, <1>3, <2>1 DEF Owned
    <3>2. ASSUME NEW b \in blocks' PROVE used'[b] <=> b \in held' \cup {freeing'}
      <4>1. CASE b = m
        BY <1>3, <2>4, <4>1
      <4>2. CASE b = rest
        <5>1. rest \notin held /\ rest # freeing
          BY <2>2, <2>3 DEF Owned
        <5> QED
          BY <1>3, <2>2, <2>4, <4>2, <5>1
      <4>3. CASE b # m /\ b # rest
        BY <1>2, <1>3, <2>1, <2>4, <4>3 DEF Owned
      <4> QED
        BY <4>1, <4>2, <4>3
    <3> QED
      BY <3>1, <3>2 DEF Owned
  <2>10. FreePointer'
    BY <1>1, <1>3, <1>4, <2>1, <2>2, <2>4 DEF FreePointer, HeapTypeOK
  <2> QED
    BY <1>5, <2>5, <2>8, <2>9, <2>10
<1>7. CASE ~(size[m] >= nsize + 1)
  <2>1. MemFree' = NULL /\ used' = [used EXCEPT ![m] = TRUE] /\ UNCHANGED <<size, blocks>>
    BY <1>7 DEF Take
  <2>2. HeapTypeOK'
    BY <1>1, <1>2, <1>3, <1>4, <2>1 DEF HeapTypeOK
  <2>3. ChainIsWhole'
    BY <1>1, <1>3, <2>1 DEF ChainIsWhole, HeapTypeOK
  <2>4. Owned'
    BY <1>1, <1>2, <1>3, <2>1 DEF Owned, HeapTypeOK
  <2>5. FreePointer'
    BY <1>4, <2>1 DEF FreePointer
  <2> QED
    BY <1>5, <2>2, <2>3, <2>4, <2>5
<1> QED
  BY <1>6, <1>7

LEMMA NoMemoryKeepsIInv ==
  ASSUME IInv, NoMemory PROVE IInv'
  BY DEF IInv, NoMemory, Return, HeapTypeOK, ChainIsWhole, Owned, FreePointer, Run, Walk

LEMMA CountKeepsIInv ==
  ASSUME IInv, Count PROVE IInv'
<1> USE DEF IInv
<1>1. p \in Nat /\ bsize \in Nat /\ size[p] \in Nat /\ bsize <= p /\ p \in Blocks
  BY DEF Count, Walk, HeapTypeOK
<1>2. CASE size[p] = 0
  BY <1>2 DEF Count, Return, HeapTypeOK, ChainIsWhole, Owned, FreePointer, Run, Walk
<1>3. CASE size[p] # 0
  <2>1. p' = p + size[p] /\ bsize' \in {bsize, bsize + size[p], size[p]} /\ UNCHANGED call
    BY <1>3 DEF Count
  <2>2. p' \in Blocks /\ bsize' \in Nat /\ bsize' <= p'
    BY <1>1, <1>3, <2>1 DEF ChainIsWhole
  <2>3. HeapTypeOK'
    BY <2>1, <2>2 DEF HeapTypeOK, Count
  <2>4. ChainIsWhole' /\ Owned' /\ FreePointer'
    BY <2>1 DEF Count, ChainIsWhole, Owned, FreePointer
  <2>5. Run' /\ Walk'
    BY <2>1, <2>2 DEF Count, Run, Walk
  <2> QED
    BY <2>3, <2>4, <2>5
<1> QED
  BY <1>2, <1>3

(* free writes the header of a block that the compactor takes for used:    *)
(* that block ends no run and is in none.                                  *)
LEMMA FreeReadKeepsIInv ==
  ASSUME IInv, NEW b \in Addr, FreeRead(b) PROVE IInv'
  BY SMTT(20) DEF IInv, FreeRead, HeapTypeOK, ChainIsWhole, Owned, FreePointer, Run, Walk

LEMMA FreeWriteKeepsIInv ==
  ASSUME IInv, FreeWrite PROVE IInv'
<1> USE DEF IInv
<1>1. /\ used' = [used EXCEPT ![freeing] = FALSE] /\ freeing' = NULL
      /\ freeing \in blocks \ held
      /\ \A b \in Addr : used'[b] => used[b]
      /\ UNCHANGED <<size, MemFree, call, scan, held, blocks>>
  BY DEF FreeWrite, Owned, HeapTypeOK
<1>2. HeapTypeOK'
  BY <1>1 DEF HeapTypeOK, FreeWrite
<1>3. ChainIsWhole'
  BY <1>1 DEF ChainIsWhole
<1>4. Owned'
  BY <1>1 DEF Owned, HeapTypeOK
<1>5. FreePointer'
  BY <1>1 DEF FreePointer, HeapTypeOK
<1>6. Run' /\ Walk'
  BY <1>1 DEF Run, Walk, HeapTypeOK
<1> QED
  BY <1>2, <1>3, <1>4, <1>5, <1>6
-----------------------------------------------------------------------------

LEMMA StepKeepsIInv ==
  ASSUME Careful, IInv, [HeapNext]_heapVars PROVE IInv'
<1>1. CASE UNCHANGED heapVars
  BY <1>1 DEF heapVars, IInv, HeapTypeOK, ChainIsWhole, Owned, FreePointer, Run, Walk
<1>2. ASSUME NEW n \in Requests, Malloc(n) PROVE IInv'
  BY <1>2, MallocKeepsIInv
<1>3. ASSUME NEW s \in {"largest", "total"}, Statistic(s) PROVE IInv'
  BY <1>3, StatisticKeepsIInv
<1>4. CASE ReadHeader
  BY <1>4, ReadHeaderKeepsIInv
<1>5. CASE FreeBlock
  BY <1>5, FreeBlockKeepsIInv
<1>6. CASE UsedBlock
  BY <1>6, UsedBlockKeepsIInv
<1>7. CASE EndOfHeap
  BY <1>7, EndOfHeapKeepsIInv
<1>8. CASE Take
  BY <1>8, TakeKeepsIInv
<1>9. CASE NoMemory
  BY <1>9, NoMemoryKeepsIInv
<1>10. CASE Count
  BY <1>10, CountKeepsIInv
<1>11. ASSUME NEW b \in Addr, FreeRead(b) PROVE IInv'
  BY <1>11, FreeReadKeepsIInv
<1>12. CASE FreeWrite
  BY <1>12, FreeWriteKeepsIInv
<1> QED
  BY <1>1, <1>2, <1>3, <1>4, <1>5, <1>6, <1>7, <1>8, <1>9, <1>10, <1>11, <1>12 DEF HeapNext

(* The inductive invariant holds for every heap length and all requests.   *)
THEOREM HeapInvariant == ASSUME Careful PROVE HeapSpec => []IInv
  BY InitIInv, StepKeepsIInv, PTL DEF HeapSpec

(* malloc.c: no two callers ever own the same word, with free running      *)
(* between any two header accesses of the others and without a lock.       *)
THEOREM NoOverlapHolds == ASSUME Careful PROVE HeapSpec => []NoOverlap
<1>1. IInv => NoOverlap
  BY DEF IInv, HeapTypeOK, ChainIsWhole, Owned, NoOverlap
<1> QED
  BY <1>1, HeapInvariant, PTL

(* malloc.c: what malloc is about to give out is free and long enough.     *)
THEOREM FreeSpaceFound == ASSUME Careful PROVE HeapSpec => []OnlyFreeSpaceFound
<1>1. IInv => OnlyFreeSpaceFound
  <2> SUFFICES ASSUME IInv, stage = "take", NEW b \in held
               PROVE  /\ nsize <= size[MemFree]
                      /\ b + size[b] <= MemFree \/ MemFree + nsize <= b
    BY DEF OnlyFreeSpaceFound, IInv, FreePointer
  <2>1. MemFree \in blocks /\ b \in blocks /\ b # MemFree /\ nsize <= size[MemFree]
    BY DEF IInv, FreePointer, Owned
  <2> QED
    BY <2>1 DEF IInv, HeapTypeOK, ChainIsWhole
<1> QED
  BY <1>1, HeapInvariant, PTL
-----------------------------------------------------------------------------

(* The run that ends at p is too short, and what was used is kept.         *)
LEMMA ShortRunIsPassed ==
  ASSUME IInv, NothingPassed, stage = "look", calm, Merge, ~BigEnough, nsize > 0,
         UNCHANGED <<used, held, freeing>>,
         NEW b \in blocks', NEW c \in Blocks', b < p, c - b >= nsize
  PROVE  \E d \in blocks' : b <= d /\ d < c /\ (used[d] \/ d = p)
<1> USE DEF IInv
<1>1. /\ p \in Blocks /\ best + bsize = p /\ blocks' \subseteq blocks
      /\ p \in Nat /\ best \in Nat /\ bsize \in Nat /\ nsize \in Nat
      /\ b \in Nat /\ c \in Nat /\ c <= End /\ b \in blocks /\ c \in Blocks
  <2>1. p \in Blocks /\ best + bsize = p /\ blocks' \subseteq blocks
    BY MergeKeepsChain DEF Run
  <2>2. p \in Nat /\ best \in Nat /\ bsize \in Nat /\ nsize \in Nat /\ blocks \subseteq Addr
    BY DEF HeapTypeOK
  <2>3. b \in blocks /\ c \in Blocks
    BY <2>1
  <2> QED
    BY <2>1, <2>2, <2>3
<1>2. \A d \in blocks : used[d] => d \in blocks'
  <2> SUFFICES ASSUME NEW d \in blocks, used[d], bsize # 0 PROVE d \in blocks'
    BY DEF Merge
  <2>1. d \in Nat /\ ~(best <= d /\ d < p)
    BY DEF Run, HeapTypeOK
  <2> QED
    BY <1>1, <2>1 DEF Merge
<1>3. CASE b < best
  BY <1>1, <1>2, <1>3 DEF NothingPassed
<1>4. CASE best <= b
  <2>1. c > p
    BY <1>1, <1>4 DEF BigEnough
  <2>2. p \in blocks
    BY <1>1, <2>1
  <2>3. p \in blocks'
    BY <1>1, <2>2 DEF Merge
  <2> QED
    BY <1>1, <2>1, <2>3
<1> QED
  BY <1>1, <1>3, <1>4

LEMMA UsedBlockKeepsFull ==
  ASSUME IInv, FullInv, UsedBlock PROVE FullInv'
<1> USE DEF IInv, FullInv
<1>1. CASE BigEnough
  <2>1. stage' \in {"take", "count"}
    <3>1. best # NULL
      BY DEF HeapTypeOK
    <3> QED
      BY <1>1, <3>1 DEF UsedBlock, Found
  <2> QED
    BY <2>1 DEF NothingPassed, NullMeansFull
<1>2. CASE ~BigEnough
  <2>1. /\ stage = "look" /\ Merge /\ p' = p + size[p] /\ best' = p' /\ bsize' = 0
        /\ stage' = "read" /\ UNCHANGED <<used, held, freeing, nsize, calm>> /\ p \in blocks
        /\ calm => used[p]
    BY <1>2 DEF UsedBlock, Run, NothingPassed
  <2>2. /\ nsize > 0 /\ p \in Nat /\ size[p] > 0 /\ p \in blocks' /\ size'[p] = size[p]
        /\ ChainIsWhole' /\ blocks' \subseteq blocks /\ nsize \in Nat /\ size[p] \in Nat
        /\ blocks \subseteq Nat
    <3>1. /\ ChainIsWhole' /\ blocks' \subseteq blocks /\ p \in blocks' /\ size'[p] = size[p]
      BY <2>1, MergeKeepsChain
    <3>2. nsize > 0 /\ nsize \in Nat
      BY <2>1 DEF FreePointer, HeapTypeOK
    <3>3. p \in Nat /\ size[p] > 0 /\ size[p] \in Nat /\ blocks \subseteq Nat
      BY <2>1 DEF ChainIsWhole, HeapTypeOK
    <3> QED
      BY <3>1, <3>2, <3>3
  <2>3. ASSUME calm, NEW b \in blocks', NEW c \in Blocks', b < best', c - b >= nsize
        PROVE  \E d \in blocks' : b <= d /\ d < c /\ used'[d]
    <3>1. CASE b < p
      <4>1. PICK d \in blocks' : b <= d /\ d < c /\ (used[d] \/ d = p)
        BY <1>2, <2>1, <2>2, <2>3, <3>1, ShortRunIsPassed
      <4> QED
        BY <2>1, <2>3, <4>1
    <3>2. CASE b = p
      BY <2>1, <2>2, <2>3, <3>2
    <3>3. CASE b > p
      BY <2>1, <2>2, <2>3, <3>3 DEF ChainIsWhole
    <3> QED
      BY <2>2, <3>1, <3>2, <3>3
  <2> QED
    BY <2>1, <2>3 DEF NothingPassed, NullMeansFull
<1> QED
  BY <1>1, <1>2

LEMMA EndOfHeapKeepsFull ==
  ASSUME IInv, FullInv, EndOfHeap PROVE FullInv'
<1> USE DEF IInv, FullInv
<1>1. /\ stage' \in {"take", "count", "null"} /\ stage = "look"
      /\ UNCHANGED <<used, held, freeing, nsize, calm>>
  BY DEF EndOfHeap, Found
<1>2. CASE BigEnough
  <2>1. best # NULL
    BY DEF HeapTypeOK
  <2>2. stage' # "null"
    BY <1>2, <2>1 DEF EndOfHeap, Found
  <2> QED
    BY <1>1, <2>2 DEF NothingPassed, NullMeansFull
<1>3. CASE ~BigEnough
  <2>1. /\ p = End /\ nsize > 0 /\ Merge /\ nsize \in Nat /\ blocks' \subseteq blocks
        /\ \A b \in blocks : b \in Nat /\ b < End
    BY <1>1, MergeKeepsChain DEF EndOfHeap, Run, ChainIsWhole, FreePointer, HeapTypeOK
  <2>2. ASSUME calm, NEW b \in blocks', NEW c \in Blocks', c - b >= nsize
        PROVE  \E d \in blocks' : b <= d /\ d < c /\ used'[d]
    <3>1. PICK d \in blocks' : b <= d /\ d < c /\ (used[d] \/ d = p)
      BY <1>1, <1>3, <2>1, <2>2, ShortRunIsPassed
    <3> QED
      BY <1>1, <2>1, <3>1
  <2> QED
    BY <1>1, <2>2 DEF NothingPassed, NullMeansFull
<1> QED
  BY <1>2, <1>3

LEMMA StepKeepsFull ==
  ASSUME IInv, FullInv, [HeapNext]_heapVars PROVE FullInv'
<1> USE DEF FullInv
<1>1. CASE UNCHANGED heapVars
  BY <1>1 DEF heapVars, NothingPassed, NullMeansFull
<1>2. ASSUME NEW n \in Requests, Malloc(n) PROVE FullInv'
  BY <1>2, SMTT(20) DEF IInv, HeapTypeOK, Malloc, StartScan, NothingPassed, NullMeansFull
<1>3. ASSUME NEW s \in {"largest", "total"}, Statistic(s) PROVE FullInv'
  BY <1>3 DEF IInv, HeapTypeOK, Statistic, StartScan, NothingPassed, NullMeansFull
<1>4. CASE ReadHeader
  BY <1>4 DEF ReadHeader, Header, NothingPassed, NullMeansFull
<1>5. CASE FreeBlock
  BY <1>5 DEF FreeBlock, Header, NothingPassed, NullMeansFull
<1>6. CASE UsedBlock
  BY <1>6, UsedBlockKeepsFull
<1>7. CASE EndOfHeap
  BY <1>7, EndOfHeapKeepsFull
<1>8. CASE Take \/ NoMemory
  BY <1>8 DEF Take, NoMemory, Return, NothingPassed, NullMeansFull
<1>9. CASE Count
  BY <1>9 DEF Count, Return, NothingPassed, NullMeansFull
<1>10. ASSUME NEW b \in Addr, FreeRead(b) PROVE FullInv'
  BY <1>10 DEF FreeRead, NothingPassed, NullMeansFull
<1>11. CASE FreeWrite
  BY <1>11 DEF FreeWrite, NothingPassed, NullMeansFull
<1> QED
  BY <1>1, <1>2, <1>3, <1>4, <1>5, <1>6, <1>7, <1>8, <1>9, <1>10, <1>11 DEF HeapNext

(* malloc.c: malloc returns NULL only if no run of free blocks is as long  *)
(* as what was asked for, unless a block was freed while it looked.        *)
THEOREM NullOnlyWhenFull == ASSUME Careful PROVE HeapSpec => []NullMeansFull
<1>1. HeapInit => FullInv
  BY DEF HeapInit, FullInv, NothingPassed, NullMeansFull
<1>2. IInv /\ FullInv /\ [HeapNext]_heapVars => FullInv'
  BY StepKeepsFull
<1>3. FullInv => NullMeansFull
  BY DEF FullInv
<1> QED
  BY <1>1, <1>2, <1>3, HeapInvariant, PTL DEF HeapSpec
-----------------------------------------------------------------------------
(***************************************************************************)
(* Heap implements Allocator.                                              *)
(***************************************************************************)

(* Callers see nothing of a step that leaves held, the call and the sizes  *)
(* of what is held as they were.                                           *)
LEMMA UnseenByCallers ==
  ASSUME held' = held, \A b \in held : size'[b] = size[b]
  PROVE  owned' = owned
  BY DEF owned

(* The compactor joins free blocks only.                                   *)
LEMMA MergeSparesOwned ==
  ASSUME IInv, stage = "look", Merge
  PROVE  \A b \in held : size'[b] = size[b]
<1> SUFFICES ASSUME NEW b \in held, bsize # 0
             PROVE  size'[b] = size[b]
  BY DEF Merge
<1>1. best \in Blocks /\ best + bsize = p /\ p \in Blocks /\ bsize \in Addr
  BY DEF IInv, HeapTypeOK, Run
<1>2. best \in blocks /\ best < p
  BY <1>1 DEF IInv, HeapTypeOK
<1>3. ~used[best] /\ used[b] /\ b \in Addr
  BY <1>1, <1>2 DEF IInv, HeapTypeOK, Run, Owned
<1>4. size \in [Addr -> 0..Words] /\ size' = [size EXCEPT ![best] = bsize]
  BY DEF IInv, HeapTypeOK, Merge
<1> QED
  BY <1>3, <1>4

LEMMA ScanStepUnseen ==
  ASSUME IInv, ReadHeader \/ FreeBlock \/ UsedBlock \/ EndOfHeap
  PROVE  UNCHANGED <<want, owned>>
<1>1. held' = held /\ asked' = asked /\ nsize' = nsize
  BY DEF ReadHeader, FreeBlock, UsedBlock, EndOfHeap
<1>2. stage # "idle" /\ (asked = "block" => stage' # "idle")
  BY DEF ReadHeader, FreeBlock, UsedBlock, EndOfHeap, Found
<1>3. \A b \in held : size'[b] = size[b]
  <2>1. CASE ReadHeader \/ FreeBlock
    BY <2>1 DEF ReadHeader, FreeBlock
  <2>2. CASE UsedBlock \/ EndOfHeap
    BY <2>2, MergeSparesOwned DEF UsedBlock, EndOfHeap
  <2> QED
    BY <2>1, <2>2
<1> QED
  BY <1>1, <1>2, <1>3, UnseenByCallers DEF want

(* What _malloc cuts off the free block is as long as was asked for.       *)
LEMMA TakeGives ==
  ASSUME IInv, Take
  PROVE  Callers!Give(MemFree)
<1>1. /\ stage = "take" /\ asked = "block" /\ nsize > 0 /\ MemFree # NULL
      /\ MemFree \in blocks /\ ~used[MemFree] /\ nsize <= size[MemFree]
  BY DEF Take, IInv, FreePointer
<1>2. /\ size \in [Addr -> 0..Words] /\ MemFree \in Addr /\ nsize \in Nat
      /\ held \subseteq blocks /\ blocks \subseteq Addr
  BY <1>1 DEF IInv, HeapTypeOK, Owned
<1>3. want = nsize /\ want' = 0
  BY <1>1 DEF Take, Return, want
<1>4. \A b \in held : /\ b \in Addr /\ b # MemFree
                      /\ b + size[b] <= MemFree \/ MemFree + size[MemFree] <= b
  BY <1>1, <1>2 DEF IInv, ChainIsWhole, Owned
<1>5. /\ size'[MemFree] = nsize
      /\ \A b \in held : size'[b] = size[b]
      /\ MemFree + nsize <= End
  <2>1. MemFree + size[MemFree] <= End
    BY <1>1, <1>2 DEF IInv, ChainIsWhole
  <2>2. CASE size[MemFree] >= nsize + 1
    <3>1. /\ MemFree + nsize \in Addr /\ MemFree + nsize # MemFree
          /\ size' = [size EXCEPT ![MemFree + nsize] = size[MemFree] - nsize,
                                 ![MemFree] = nsize]
      BY <1>1, <1>2, <2>1, <2>2 DEF Take
    <3>2. ASSUME NEW b \in held PROVE size'[b] = size[b]
      <4>1. /\ b \in Int /\ MemFree \in Int /\ nsize \in Int
            /\ size[b] >= 0 /\ size[b] \in Int /\ size[MemFree] \in Int
        BY <1>2, <1>4
      <4>2. b # MemFree + nsize
        <5>1. b + size[b] <= MemFree \/ MemFree + size[MemFree] <= b
          BY <1>4
        <5> QED
          BY <1>1, <2>2, <4>1, <5>1
      <4> QED
        BY <1>2, <1>4, <3>1, <4>2
    <3>3. size'[MemFree] = nsize
      BY <1>2, <3>1
    <3>4. MemFree + nsize <= End
      BY <3>1
    <3> QED
      BY <3>2, <3>3, <3>4
  <2>3. CASE ~(size[MemFree] >= nsize + 1)
    <3>1. size' = size /\ size[MemFree] = nsize
      BY <1>1, <1>2, <2>3 DEF Take
    <3> QED
      BY <2>1, <3>1
  <2> QED
    BY <2>2, <2>3
<1>6. held' = held \cup {MemFree}
  BY DEF Take
<1> DEFINE block == [start |-> MemFree, length |-> nsize]
<1>7. owned' = owned \cup {block}
  BY <1>5, <1>6 DEF owned
<1>8. \A x \in owned : Callers!Apart(block, x)
  <2> SUFFICES ASSUME NEW b \in held
               PROVE  Callers!Apart(block, [start |-> b, length |-> size[b]])
    BY DEF owned
  <2>1. b + size[b] <= MemFree \/ MemFree + nsize <= b
    BY <1>1, <1>2, <1>4
  <2> QED
    BY <2>1 DEF Callers!Apart
<1>9. MemFree >= 0 /\ MemFree + nsize < Words
  BY <1>2, <1>5
<1> QED
  BY <1>1, <1>3, <1>7, <1>8, <1>9 DEF Callers!Give

LEMMA FreeReadFrees ==
  ASSUME IInv, NEW b \in Addr, FreeRead(b)
  PROVE  Callers!Free([start |-> b, length |-> size[b]])
<1>1. held' = held \ {b} /\ UNCHANGED <<size, want>>
  BY DEF FreeRead, want
<1>2. owned' = owned \ {[start |-> b, length |-> size[b]]}
  BY <1>1 DEF owned
<1> QED
  BY <1>1, <1>2 DEF Callers!Free

LEMMA StepImplements ==
  ASSUME IInv, [HeapNext]_heapVars
  PROVE  [Callers!Next]_(Callers!allocVars)
<1>1. CASE UNCHANGED heapVars
  BY <1>1 DEF heapVars, want, owned, Callers!allocVars
<1>2. ASSUME NEW n \in Requests, Malloc(n) PROVE Callers!Next
  <2>1. /\ stage = "idle" /\ stage' # "idle" /\ asked' = "block" /\ nsize' = n + 1
        /\ UNCHANGED <<held, size>>
    BY <1>2 DEF Malloc, StartScan
  <2>2. Callers!Ask(n)
    BY <2>1, UnseenByCallers DEF Callers!Ask, want
  <2> QED
    BY <2>2 DEF Callers!Next
<1>3. ASSUME NEW s \in {"largest", "total"}, Statistic(s)
      PROVE  UNCHANGED Callers!allocVars
  BY <1>3, UnseenByCallers DEF Statistic, want, Callers!allocVars
<1>4. CASE ReadHeader \/ FreeBlock \/ UsedBlock \/ EndOfHeap
  BY <1>4, ScanStepUnseen DEF Callers!allocVars
<1>5. CASE Take
  <2>1. MemFree \in 0..Words-1
    BY <1>5 DEF Take, IInv, HeapTypeOK, FreePointer
  <2> QED
    BY <1>5, <2>1, TakeGives DEF Callers!Next
<1>6. CASE NoMemory
  <2>1. want > 0 /\ want' = 0 /\ UNCHANGED owned
    BY <1>6, UnseenByCallers DEF NoMemory, Return, want, IInv, HeapTypeOK, FreePointer
  <2> QED
    BY <2>1 DEF Callers!Next, Callers!Refuse
<1>7. CASE Count
  <2>1. UNCHANGED owned /\ (want' = want \/ (want > 0 /\ want' = 0))
    BY <1>7, UnseenByCallers DEF Count, Return, want, IInv, HeapTypeOK, FreePointer
  <2> QED
    BY <2>1 DEF Callers!Next, Callers!Refuse, Callers!allocVars
<1>8. ASSUME NEW b \in Addr, FreeRead(b) PROVE Callers!Next
  <2>1. [start |-> b, length |-> size[b]] \in owned
    BY <1>8 DEF FreeRead, owned
  <2> QED
    BY <1>8, <2>1, FreeReadFrees DEF Callers!Next
<1>9. CASE FreeWrite
  BY <1>9, UnseenByCallers DEF FreeWrite, want, Callers!allocVars
<1> QED
  BY <1>1, <1>2, <1>3, <1>4, <1>5, <1>6, <1>7, <1>8, <1>9 DEF HeapNext

(* malloc.c is an allocator: every step of malloc, free, the compactor or  *)
(* a statistic asks, gives what was asked for out of what is nobody's,     *)
(* refuses, takes back what its owner frees, or does nothing that a caller *)
(* can see; for every length of the heap, all requests, and free at any    *)
(* moment.                                                                 *)
THEOREM HeapAllocates == ASSUME Careful PROVE HeapSpec => Allocates
<1>1. HeapInit => Callers!Init
  BY DEF HeapInit, Callers!Init, want, owned
<1>2. IInv /\ [HeapNext]_heapVars => [Callers!Next]_(Callers!allocVars)
  BY StepImplements
<1> QED
  BY <1>1, <1>2, HeapInvariant, PTL DEF HeapSpec, Allocates, Callers!Spec
=============================================================================
