----------------------------- MODULE Allocator ------------------------------
(***************************************************************************)
(* What a heap promises its callers: whoever asks for a block gets words   *)
(* of the heap that nobody else owns, as many as the call was for, or is   *)
(* turned away; and a block is its owner's until the owner frees it.       *)
(***************************************************************************)
EXTENDS Integers

CONSTANTS
  Words,      \* length of the heap, its end node included
  Requests    \* sizes that callers ask for

VARIABLES
  want,       \* words the call under way is for, with a header; 0 without one
  owned       \* the blocks that callers own: [start, length]

allocVars == <<want, owned>>

Init == want = 0 /\ owned = {}

Apart(x, y) == x.start + x.length <= y.start \/ y.start + y.length <= x.start

Ask(n) == want = 0 /\ want' = n + 1 /\ UNCHANGED owned

Give(start) ==
  LET block == [start |-> start, length |-> want]
  IN /\ want > 0 /\ start >= 0 /\ start + want < Words
     /\ \A x \in owned : Apart(block, x)
     /\ owned' = owned \cup {block}
     /\ want' = 0

Refuse == want > 0 /\ want' = 0 /\ UNCHANGED owned

Free(x) == owned' = owned \ {x} /\ UNCHANGED want

Next ==
  \/ \E n \in Requests : Ask(n)
  \/ \E start \in 0..Words-1 : Give(start)
  \/ Refuse
  \/ \E x \in owned : Free(x)

Spec == Init /\ [][Next]_allocVars
=============================================================================
