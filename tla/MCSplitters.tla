---------------------------- MODULE MCSplitters ----------------------------
(* Small instances of the splitters.  A decoder has one of them: by angle in *)
(* a mechanical LiDAR, by number in a solid-state one.  RANGE is 10 in the   *)
(* code and a frame has 630 packets or more; here the displacement is as     *)
(* large as the range permits, and a frame as short as it may be.  A turn    *)
(* has a few units, and blocks have several widths.                          *)
EXTENDS SeqSplitter, AngleSplitter

VARIABLE mechanical     \* which kind of LiDAR ?

allVars == <<mechanical, vars, angleVars>>

(* The LiDAR of the other kind is not there: one initial state stands for    *)
(* it, and it stays so.                                                      *)
MCInit ==
    /\ mechanical \in BOOLEAN
    /\ Init /\ AngleInit
    /\ IF mechanical THEN ~splitAtMax ELSE split_angle = 0

MCNext ==
    /\ \/ ~mechanical /\ Next /\ UNCHANGED angleVars
       \/ mechanical /\ AngleNext /\ UNCHANGED vars
    /\ UNCHANGED mechanical

MCSpec == MCInit /\ [][MCNext]_allVars
=============================================================================
