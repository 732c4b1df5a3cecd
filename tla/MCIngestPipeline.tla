--------------------------- MODULE MCIngestPipeline ---------------------------
(***************************************************************************)
(* Instances of IngestPipeline for TLC: dropped files, two of which are    *)
(* copies of one content, together or the second in a later drop.          *)
(***************************************************************************)
EXTENDS IngestPipeline

CONSTANTS f1, f2, f3, b1, b2, c1, c2

OneBatch   == [f \in File |-> b1]
TwoBatches == [f \in File |-> IF f = f3 THEN b2 ELSE b1]

\* f1 and f3 are the copies.
Copies == [f \in File |-> IF f = f2 THEN c2 ELSE c1]

SkipAll == [f \in File |-> "skip"]
KeepF3  == [f \in File |-> IF f = f3 THEN "keep" ELSE "skip"]
==============================================================================
