--------------------------- MODULE AngleSplitter ---------------------------
(***************************************************************************)
(* SplitStrategyByAngle (rs_driver/driver/decoder/split_strategy.hpp) in a *)
(* mechanical LiDAR that turns forward.                                    *)
(*                                                                         *)
(* Angles are azimuths in units of which Round make a turn.  Each block is *)
(* up to Step units further than the one before; the two blocks of a dual  *)
(* return have the same azimuth.                                           *)
(***************************************************************************)
EXTENDS Integers

CONSTANTS Round,          \* 36000
          Step,
          MaxCovered      \* bound: how far a cloud turns before the run ends

ASSUME AngleConstantsAssumption ==
    /\ Round \in Nat \ {0}
    /\ Step \in Nat /\ Step < Round
    /\ MaxCovered \in Nat

Angle == 0..(Round - 1)

VARIABLES split_angle,    \* split_angle_: given to the constructor, const
          prev_angle,     \* prev_angle_
          blocks,         \* has any block come ?
          split,          \* what newBlock() returned last
          crossed,        \* did the last block reach or pass split_angle ?
          covered,        \* how far the cloud turned since the last split
          complete        \* is there a last split ?

angleVars == <<split_angle, prev_angle, blocks, split, crossed, covered, complete>>

(* The ground truth: turning from a by d reaches the split angle. *)
Crosses(a, d) == \/ a < split_angle /\ split_angle <= a + d
                 \/ split_angle + Round <= a + d

Turned(a, d) == IF a + d < Round THEN a + d ELSE a + d - Round

(* newBlock() *)
(* mutation: the crossing of angle 0 is not considered *)
Unwound_Not(angle) == prev_angle
Unwound(angle) == IF angle < prev_angle THEN prev_angle - Round ELSE prev_angle

(* mutation: a block at the split angle is still before it *)
NewBlock_Inclusive(angle) == Unwound(angle) <= split_angle /\ split_angle <= angle
NewBlock(angle) == Unwound(angle) < split_angle /\ split_angle <= angle

AngleInit ==
    /\ split_angle \in Angle /\ prev_angle = split_angle
    /\ blocks = FALSE /\ split = FALSE /\ crossed = FALSE
    /\ covered = 0 /\ complete = FALSE

FirstBlock(angle) ==
    /\ ~blocks
    /\ blocks' = TRUE
    /\ prev_angle' = angle
    /\ split' = NewBlock(angle)
    /\ crossed' = FALSE
    /\ UNCHANGED <<split_angle, covered, complete>>

Block(d) ==
    /\ blocks
    /\ covered < MaxCovered
    /\ LET angle == Turned(prev_angle, d) IN
          /\ prev_angle' = angle
          /\ split' = NewBlock(angle)
          /\ covered' = IF NewBlock(angle) THEN 0 ELSE covered + d
          /\ complete' = (complete \/ NewBlock(angle))
    /\ crossed' = Crosses(prev_angle, d)
    /\ UNCHANGED <<split_angle, blocks>>

AngleNext == (\E a \in Angle : FirstBlock(a)) \/ (\E d \in 0..Step : Block(d))
AngleSpec == AngleInit /\ [][AngleNext]_angleVars

-----------------------------------------------------------------------------
(* Types. *)
AngleTypeOK ==
    /\ split_angle \in Angle /\ prev_angle \in Angle
    /\ blocks \in BOOLEAN /\ split \in BOOLEAN /\ crossed \in BOOLEAN
    /\ covered \in Nat /\ complete \in BOOLEAN

(* No frame is split anywhere else than at the split angle, not by the first *)
(* block, not by dual returns, not where the azimuth starts again at 0.      *)
SplitsOnlyAtSplitAngle == split => crossed

(* Every block that reaches or passes the split angle splits, whether or not *)
(* it passes 0 too.                                                          *)
SplitsAtEveryCrossing == crossed => split

(* So it is for a split angle that lies at least a block's width before 0,   *)
(* or at 0, the default: newBlock() moves the previous block a turn back and *)
(* leaves split_angle_ where it is, which no block is wide enough to notice. *)
NotJustBeforeZero == split_angle <= Round - Step
SplitsAtEverySafeCrossing == NotJustBeforeZero => SplitsAtEveryCrossing

(* Frames split at such an angle are full rounds: none is longer or shorter  *)
(* by more than the width of the blocks at its ends.                         *)
Turn == IF prev_angle' < prev_angle THEN Round + prev_angle' - prev_angle
                                    ELSE prev_angle' - prev_angle
FramesAreRounds ==
    [][NotJustBeforeZero /\ complete /\ split' =>
          /\ Round - Step < covered + Turn
          /\ covered + Turn < Round + Step]_angleVars

=============================================================================
