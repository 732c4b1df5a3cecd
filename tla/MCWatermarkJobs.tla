---------------------------- MODULE MCWatermarkJobs ----------------------------
(* A small instance of WatermarkJobs for TLC: one photo in two galleries   *)
(* whose marks write over each other's copies of it.                       *)
EXTENDS WatermarkJobs

CONSTANTS a1, c1, g1, g2, w1, w2, grid, lightbox, r1, r2

OneContent == [a \in Asset |-> c1]

==============================================================================
