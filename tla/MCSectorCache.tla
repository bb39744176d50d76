--------------------------- MODULE MCSectorCache ----------------------------
(***************************************************************************)
(* SectorCache for TLC with one of two hosts: the good one finds both      *)
(* files and fails no READ, the bad one does not find one of them and      *)
(* fails READs as it likes.  With buffers of three cells a sector of two   *)
(* lies inside a buffer, ends with it or straddles two.                    *)
(***************************************************************************)
EXTENDS SectorCacheInv

CONSTANTS game, other,
          BadOffsets   \* where requests to the bad host may start

VARIABLE host

Sizes == [f \in Files |-> IF f = game THEN 8 ELSE 4]

Bad == INSTANCE SectorCache WITH
         ReadsMayFail <- TRUE, Missing <- {other}, Offsets <- BadOffsets

mcVars == <<host, vars>>

WithHost(h, A) == host = h /\ A /\ UNCHANGED host

MCInit == \/ host = "good" /\ Init
          \/ host = "bad" /\ Bad!Init
MCNext == WithHost("good", Next) \/ WithHost("bad", Bad!Next)

(* SectorCache's fairness, with either host.                               *)
MCFairness ==
  /\ WF_mcVars(WithHost("good", Seek) \/ WithHost("bad", Bad!Seek))
  /\ WF_mcVars(WithHost("good", Deliver) \/ WithHost("bad", Bad!Deliver))
  /\ WF_mcVars(WithHost("good", Host) \/ WithHost("bad", Bad!Host))

MCSpec == MCInit /\ [][MCNext]_mcVars /\ MCFairness
=============================================================================
