---------------------------- MODULE DurableUpload ----------------------------
(***************************************************************************)
(* What uploading promises for a content, however often an upload of it is *)
(* interrupted and taken up again: its bytes are complete in storage       *)
(* before a library row refers to them, and from then on they stay there.  *)
(* ResumableUpload is shown to implement this.                             *)
(***************************************************************************)
CONSTANT Content      \* sha256 values

VARIABLE stage        \* how far each content has come

DurableInit == stage = [c \in Content |-> "absent"]

Store(c) ==
  /\ stage[c] = "absent"
  /\ stage' = [stage EXCEPT ![c] = "stored"]

Register(c) ==
  /\ stage[c] = "stored"
  /\ stage' = [stage EXCEPT ![c] = "registered"]

DurableNext == \E c \in Content : Store(c) \/ Register(c)

DurableSpec == DurableInit /\ [][DurableNext]_stage
==============================================================================
