-------------------------------- MODULE Heap --------------------------------
(***************************************************************************)
(* The allocator of lib/malloc.c.  Sizes and addresses are in words of 4   *)
(* bytes, the unit it rounds up to; a block is its header and what follows *)
(* it.  One call of malloc, calloc or of a statistic runs at a time (the   *)
(* optional lock); free takes no lock and may fall between any two reads   *)
(* of a header by the others.                                              *)
(***************************************************************************)
EXTENDS Integers

CONSTANTS
  Words,      \* length of the heap
  Requests,   \* sizes that callers ask for
  StatisticsWhen  \* the values of MemFree = NULL that a statistic is called in

ASSUME HeapAssumption ==
  /\ Words \in Nat /\ Words > 1
  /\ Requests \subseteq Nat \ {0}
  /\ StatisticsWhen \subseteq BOOLEAN

End  == Words - 1         \* the node with size 0
NULL == -1
Addr == 0..End

VARIABLES
  size, used,     \* the headers: p->size without and with only the USED bit
  MemFree,
  stage, asked,      \* where the locked call stands, and which it is
  nsize, p, best, bsize, psize,   \* its locals, 0 when dead; psize is a header as read
  freeing,        \* the block that a call of free has read and not yet written
  held,           \* blocks that callers own
  blocks,         \* history: where blocks begin
  calm            \* history: no block was freed since the locked call began

header == <<size, used>>
call   == <<stage, asked, nsize>>
scan   == <<p, best, bsize, psize>>
heapVars == <<header, MemFree, call, scan, freeing, held, blocks, calm>>

Header(s, u) == [size |-> s, used |-> u]

(* malloc_init.                                                            *)
HeapInit ==
  /\ size = [a \in Addr |-> IF a = 0 THEN End ELSE 0]
  /\ used = [a \in Addr |-> FALSE]
  /\ MemFree = 0
  /\ stage = "idle" /\ asked = "block" /\ nsize = 0
  /\ p = 0 /\ best = 0 /\ bsize = 0 /\ psize = Header(0, FALSE)
  /\ freeing = NULL /\ held = {} /\ blocks = {0} /\ calm = TRUE
-----------------------------------------------------------------------------

Return == stage' = "idle" /\ asked' = "block" /\ nsize' = 0

StartScan == p' = 0 /\ best' = 0 /\ bsize' = 0 /\ stage' = "read"

(* Mutant: the header is not counted when the free block is looked at. *)
MallocBare(n) ==
  /\ stage = "idle" /\ nsize' = n + 1 /\ asked' = "block" /\ calm' = TRUE
  /\ IF MemFree # NULL /\ n <= size[MemFree]
     THEN stage' = "take" /\ UNCHANGED <<p, best, bsize>>
     ELSE StartScan
  /\ UNCHANGED <<header, MemFree, psize, freeing, held, blocks>>

(* malloc up to the choice of a block.                                     *)
Malloc(n) ==
  /\ stage = "idle" /\ nsize' = n + 1 /\ asked' = "block" /\ calm' = TRUE
  /\ IF MemFree # NULL /\ n + 1 <= size[MemFree]
     THEN stage' = "take" /\ UNCHANGED <<p, best, bsize>>
     ELSE StartScan
  /\ UNCHANGED <<header, MemFree, psize, freeing, held, blocks>>

(* A statistic runs the compactor first, for a size that nothing has.      *)
Statistic(s) ==
  /\ (MemFree = NULL) \in StatisticsWhen
  /\ stage = "idle" /\ asked' = s /\ nsize' = Words + 1 /\ calm' = TRUE
  /\ StartScan
  /\ UNCHANGED <<header, MemFree, psize, freeing, held, blocks>>

(* compact_blocks: psize = p->size.                                        *)
ReadHeader ==
  /\ stage = "read" /\ stage' = "look"
  /\ psize' = Header(size[p], used[p])
  /\ UNCHANGED <<header, MemFree, asked, nsize, p, best, bsize, freeing, held,
                 blocks, calm>>

(* A free block: add it to the run that begins at best.                    *)
FreeBlock ==
  /\ stage = "look" /\ psize.size # 0 /\ ~psize.used
  /\ bsize' = bsize + psize.size /\ p' = p + psize.size
  /\ stage' = "read" /\ psize' = Header(0, FALSE)
  /\ UNCHANGED <<header, MemFree, asked, nsize, best, freeing, held, blocks, calm>>

(* The run ends: it becomes one block, big enough or not.                  *)
Merge ==
  IF bsize = 0 THEN UNCHANGED <<size, blocks>>
  ELSE /\ size' = [size EXCEPT ![best] = bsize]
       /\ blocks' = {b \in blocks : b <= best \/ best + bsize <= b}

BigEnough == bsize # 0 /\ bsize >= nsize

(* compact_blocks returns b: _malloc takes it, a statistic goes on.        *)
Found(b) ==
  /\ p' = 0 /\ best' = 0 /\ bsize' = 0
  /\ IF asked = "block"
     THEN MemFree' = b /\ stage' = IF b = NULL THEN "null" ELSE "take"
     ELSE stage' = "count" /\ UNCHANGED MemFree

(* A used block: take the run if it is big enough, or begin a new one.     *)
UsedBlock ==
  /\ stage = "look" /\ psize.used
  /\ Merge /\ psize' = Header(0, FALSE)
  /\ IF BigEnough THEN Found(best)
     ELSE /\ p' = p + psize.size /\ best' = p + psize.size /\ bsize' = 0 /\ stage' = "read"
          /\ UNCHANGED MemFree
  /\ UNCHANGED <<used, asked, nsize, freeing, held, calm>>

(* Mutant: the run before the end of the heap is not looked at. *)
EndOfHeapBlind ==
  /\ stage = "look" /\ psize.size = 0
  /\ Merge /\ psize' = Header(0, FALSE)
  /\ Found(NULL)
  /\ UNCHANGED <<used, asked, nsize, freeing, held, calm>>

EndOfHeap ==
  /\ stage = "look" /\ psize.size = 0
  /\ Merge /\ psize' = Header(0, FALSE)
  /\ Found(IF BigEnough THEN best ELSE NULL)
  /\ UNCHANGED <<used, asked, nsize, freeing, held, calm>>

(* Mutant: the request keeps the size of the whole free block. *)
TakeWhole ==
  /\ stage = "take" /\ Return
  /\ LET fsize == size[MemFree] IN
     IF fsize >= nsize + 1
     THEN /\ MemFree' = MemFree + nsize
          /\ size' = [size EXCEPT ![MemFree + nsize] = fsize - nsize]
          /\ blocks' = blocks \cup {MemFree + nsize}
          /\ used' = [used EXCEPT ![MemFree + nsize] = FALSE, ![MemFree] = TRUE]
     ELSE /\ MemFree' = NULL /\ used' = [used EXCEPT ![MemFree] = TRUE]
          /\ UNCHANGED <<size, blocks>>
  /\ held' = held \cup {MemFree}
  /\ UNCHANGED <<scan, freeing, calm>>

(* Cut the request off the free block, or use it up.  All that is written  *)
(* here lies in a free block, which no call of free touches.               *)
Take ==
  /\ stage = "take" /\ Return
  /\ LET fsize == size[MemFree] IN
     IF fsize >= nsize + 1
     THEN /\ MemFree' = MemFree + nsize
          /\ size' = [size EXCEPT ![MemFree + nsize] = fsize - nsize, ![MemFree] = nsize]
          /\ blocks' = blocks \cup {MemFree + nsize}
          /\ used' = [used EXCEPT ![MemFree + nsize] = FALSE, ![MemFree] = TRUE]
     ELSE /\ MemFree' = NULL /\ used' = [used EXCEPT ![MemFree] = TRUE]
          /\ UNCHANGED <<size, blocks>>
  /\ held' = held \cup {MemFree}
  /\ UNCHANGED <<scan, freeing, calm>>

NoMemory ==
  /\ stage = "null" /\ Return
  /\ UNCHANGED <<header, MemFree, scan, freeing, held, blocks, calm>>

(* The statistics' own walk over the blocks; bsize is total or largest.    *)
Count ==
  /\ stage = "count"
  /\ IF size[p] = 0 THEN Return /\ p' = 0 /\ bsize' = 0
     ELSE /\ p' = p + size[p] /\ UNCHANGED call
          /\ bsize' = IF used[p] THEN bsize
                      ELSE IF asked = "total" THEN bsize + size[p]
                      ELSE IF size[p] > bsize THEN size[p] ELSE bsize
  /\ UNCHANGED <<header, MemFree, best, psize, freeing, held, blocks, calm>>

(* free: p->size &= ~USED is a read and, later, a write.                   *)
FreeRead(b) ==
  /\ freeing = NULL /\ b \in held
  /\ held' = held \ {b} /\ freeing' = b
  /\ UNCHANGED <<header, MemFree, call, scan, blocks, calm>>

FreeWrite ==
  /\ freeing # NULL /\ freeing' = NULL
  /\ used' = [used EXCEPT ![freeing] = FALSE]
  /\ calm' = FALSE
  /\ UNCHANGED <<size, MemFree, call, scan, held, blocks>>

HeapNext ==
  \/ \E n \in Requests : Malloc(n)
  \/ \E s \in {"largest", "total"} : Statistic(s)
  \/ ReadHeader \/ FreeBlock \/ UsedBlock \/ EndOfHeap
  \/ Take \/ NoMemory \/ Count
  \/ \E b \in Addr : FreeRead(b)
  \/ FreeWrite

HeapSpec == HeapInit /\ [][HeapNext]_heapVars
-----------------------------------------------------------------------------

Blocks == blocks \cup {End}

HeapTypeOK ==
  /\ size \in [Addr -> 0..Words] /\ used \in [Addr -> BOOLEAN]
  /\ MemFree \in Addr \cup {NULL}
  /\ stage \in {"idle", "read", "look", "take", "null", "count"}
  /\ asked \in {"block", "largest", "total"}
  /\ nsize \in Nat /\ p \in Addr /\ best \in Addr /\ bsize \in Addr
  /\ psize \in [size : 0..Words, used : BOOLEAN]
  /\ freeing \in Addr \cup {NULL}
  /\ held \subseteq Addr /\ blocks \subseteq Addr /\ calm \in BOOLEAN

(* What callers were given and have not freed lies inside the heap, each   *)
(* block apart from the others, whatever order malloc, calloc, free and    *)
(* the compactor run in.                                                   *)
NoOverlap ==
  \A b \in held : /\ used[b] /\ b + size[b] <= End
                  /\ \A c \in held : b < c => b + size[b] <= c

(* The block that malloc is about to give out is as long as was asked for  *)
(* and holds no block that a caller owns (the comment in _malloc: the      *)
(* compactor returns nothing but NULL if there is not the free space).     *)
OnlyFreeSpaceFound ==
  stage = "take" => /\ nsize <= size[MemFree]
                 /\ \A b \in held : b + size[b] <= MemFree \/ MemFree + nsize <= b

(* To its callers this is an allocator: each call of malloc gives out as   *)
(* many words as it was for, all of them nobody's, or NULL, and what is    *)
(* owned stays where it is and as long as it is until it is freed.         *)
want  == IF stage # "idle" /\ asked = "block" THEN nsize ELSE 0
owned == {[start |-> b, length |-> size[b]] : b \in held}

Callers == INSTANCE Allocator
Allocates == Callers!Spec

(* malloc returns NULL only if no run of free blocks is long enough,       *)
(* unless a block was freed behind its back.                               *)
NullMeansFull ==
  stage = "null" /\ calm =>
    \A b \in blocks, c \in Blocks :
      c - b >= nsize => \E d \in blocks : b <= d /\ d < c /\ used[d]

(* The headers are a chain from the first word to the end node, without a  *)
(* gap: the compactor and the statistics can follow it at any time.        *)
ChainIsWhole ==
  /\ 0 \in blocks /\ End \notin blocks /\ size[End] = 0 /\ ~used[End]
  /\ \A b \in blocks : /\ size[b] > 0 /\ b + size[b] \in Blocks
                       /\ \A c \in blocks : b < c => b + size[b] <= c
-----------------------------------------------------------------------------
(* What makes these inductive.                                             *)

Owned ==
  /\ held \subseteq blocks
  /\ freeing \in (blocks \ held) \cup {NULL}
  /\ \A b \in blocks : used[b] <=> b \in held \cup {freeing}

(* MemFree is a free block, except while the compactor looks for another.  *)
FreePointer ==
  /\ \/ MemFree = NULL
     \/ stage \in {"read", "look"} /\ asked = "block"
     \/ MemFree \in blocks /\ ~used[MemFree]
  /\ asked # "block" /\ stage \in {"read", "look", "count"} => MemFree = NULL /\ nsize > End
  /\ stage \in {"take", "null"} => asked = "block"
  /\ stage = "take" => MemFree # NULL /\ nsize <= size[MemFree]
  /\ stage # "idle" => nsize > 0

(* The run that the compactor has gathered is free blocks and nothing else.*)
Run ==
  stage \in {"read", "look"} =>
    /\ p \in Blocks /\ best \in Blocks /\ best + bsize = p
    /\ \A b \in blocks : best <= b /\ b < p => ~used[b]
    /\ stage = "look" => psize.size = size[p] /\ (used[p] => psize.used)
                      /\ (psize.used => p \in blocks)

Walk == stage = "count" => p \in Blocks /\ bsize <= p

IInv == HeapTypeOK /\ ChainIsWhole /\ Owned /\ FreePointer /\ Run /\ Walk

(* No run of free blocks that is long enough begins before the one that    *)
(* the compactor gathers, unless a block was freed behind its back.        *)
NothingPassed ==
  calm /\ stage \in {"read", "look"} =>
    /\ \A b \in blocks, c \in Blocks :
         b < best /\ c - b >= nsize => \E d \in blocks : b <= d /\ d < c /\ used[d]
    /\ stage = "look" /\ psize.used => used[p]

FullInv == NothingPassed /\ NullMeansFull
=============================================================================
