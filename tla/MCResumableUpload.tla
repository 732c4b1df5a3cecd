-------------------------- MODULE MCResumableUpload --------------------------
(***************************************************************************)
(* Instances of ResumableUpload for TLC: attempts at one large content,    *)
(* one after the other or at once, with a small content beside it.         *)
(***************************************************************************)
EXTENDS ResumableUpload

CONSTANTS u1, u2, u3, u4, large, small

AllLarge == [u \in Attempt |-> large]
OneSmall == [u \in Attempt |-> IF u = u3 THEN small ELSE large]
==============================================================================
