----------------------------- MODULE BatchLedger -----------------------------
(***************************************************************************)
(* What an import batch promises, whoever does the counting: every file    *)
(* announced when the batch was opened is settled at most once, and the    *)
(* batch is closed with a verdict only when every one of its files is      *)
(* settled; the verdict is "failed" exactly when some file failed, and it  *)
(* is final.  IngestPipeline is shown to implement this.                   *)
(***************************************************************************)
CONSTANTS File,     \* the files announced, over all batches
          Batch,    \* the import_batch rows
          BatchOf   \* the batch each file belongs to

VARIABLES fate,     \* how each file was settled, "open" until then
          status    \* import_batch.status, "none" before the row exists

ledgerVars == <<fate, status>>

Fate == {"open", "completed", "failed"}
Closed == {"done", "failed"}

FilesIn(b) == {f \in File : BatchOf[f] = b}

LedgerInit ==
  /\ fate = [f \in File |-> "open"]
  /\ status = [b \in Batch |-> "none"]

Open(b) ==
  /\ status[b] = "none"
  /\ status' = [status EXCEPT ![b] = "uploading"]
  /\ UNCHANGED fate

Settle(f) ==
  /\ status[BatchOf[f]] = "uploading"
  /\ fate[f] = "open"
  /\ \E o \in Fate \ {"open"} : fate' = [fate EXCEPT ![f] = o]
  /\ UNCHANGED status

Close(b) ==
  /\ status[b] = "uploading"
  /\ \A f \in FilesIn(b) : fate[f] # "open"
  /\ status' = [status EXCEPT ![b] =
                  IF \E f \in FilesIn(b) : fate[f] = "failed" THEN "failed" ELSE "done"]
  /\ UNCHANGED fate

LedgerNext ==
  \/ \E b \in Batch : Open(b) \/ Close(b)
  \/ \E f \in File : Settle(f)

LedgerSpec == LedgerInit /\ [][LedgerNext]_ledgerVars
==============================================================================
