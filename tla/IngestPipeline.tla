---------------------------- MODULE IngestPipeline ----------------------------
(***************************************************************************)
(* The server side of a Studio upload, from the client's first request for *)
(* a file to the verdict on its batch:                                     *)
(*                                                                         *)
(*   upload   the requests processOne makes for a file (/check, the bytes, *)
(*            /complete), one step per await                               *)
(*   asset    asset.status of the row a file's /complete inserted; a row   *)
(*            is named after the file that inserted it                     *)
(*   target   the asset row a file's request resolved to: its own, or the  *)
(*            existing row with the same sha256 that the handler found     *)
(*   job      the BullMQ ingest job a file's /complete added               *)
(*   batch    the import_batch row                                         *)
(*   tally    one run of "increment a counter, then maybeFinalizeBatch":   *)
(*            by the /check or /complete handler or by the worker's        *)
(*            completed/failed listener, again one step per await          *)
(*                                                                         *)
(* Two processes run this code: the Next.js app (upload, and the tallies   *)
(* of files counted as duplicates) and the ingest worker (job, and the     *)
(* tallies of finished jobs).  A request may die at any await and the      *)
(* worker may crash; both are bounded by a budget.                         *)
(***************************************************************************)
EXTENDS Naturals, FiniteSets

CONSTANTS File,         \* the supported files dropped, over all batches
          Batch,        \* the import_batch rows
          Content,      \* sha256 values
          BatchOf,      \* [File -> Batch]
          ContentOf,    \* [File -> Content]
          Mode,         \* [File -> {"skip", "keep"}]: both modes of /api/upload/check,
                        \* though the page only ever asks for "skip" (see UploadPage)
          ClientSlots,  \* files of one batch processed at once (CONCURRENCY = 3)
          Concurrency,  \* jobs the ingest worker runs at once (CONCURRENCY = 2)
          Attempts,     \* the queue's attempts option (3)
          MaxStalls,    \* times BullMQ gives a stalled job back (its default, 1)
          MaxErrors,    \* bound: requests that may die
          MaxCrashes    \* bound: crashes of the worker

ASSUME PipelineAssumption ==
  /\ IsFiniteSet(File)
  /\ BatchOf \in [File -> Batch]
  /\ ContentOf \in [File -> Content]
  /\ Mode \in [File -> {"skip", "keep"}]
  /\ ClientSlots \in Nat \ {0}
  /\ Concurrency \in Nat \ {0}
  /\ Attempts \in Nat \ {0}
  /\ MaxStalls \in Nat
  /\ MaxErrors \in Nat
  /\ MaxCrashes \in Nat

VARIABLES upload, asset, target, job, tries, stalls,
          batch, tally, verdict, counted, errors, crashes

clientVars == <<upload, target>>
jobVars    == <<job, tries, stalls>>
ledgerVars == <<batch, verdict, counted>>
faultVars  == <<errors, crashes>>
vars == <<upload, asset, target, job, tries, stalls,
          batch, tally, verdict, counted, errors, crashes>>

FilesIn(b) == {f \in File : BatchOf[f] = b}

UploadState == {"idle", "queued", "transfer", "complete", "insert", "enqueue",
                "skip", "dedup", "processing", "error"}
AssetStatus == {"none", "pending", "processing", "ready", "failed"}
\* An active job is at one of the awaits of processIngestJob.
Active      == {"guard", "load", "work", "link", "throw"}
JobState    == {"none", "waiting", "completed", "failed"} \cup Active
TallyState  == {"none", "count", "read", "write", "done", "lost"}
Counting    == {"count", "read", "write"}
Closed      == {"done", "failed"}
BatchRow    == [status : {"none", "uploading"} \cup Closed,
                total : Nat, completed : Nat, failed : Nat]

TypeOK ==
  /\ upload \in [File -> UploadState]
  /\ asset \in [File -> AssetStatus]
  /\ target \in [File -> File]
  /\ job \in [File -> JobState]
  /\ tries \in [File -> Nat]
  /\ stalls \in [File -> Nat]
  /\ batch \in [Batch -> BatchRow]
  /\ tally \in [File -> TallyState]
  /\ verdict \in [File -> {"none"} \cup Closed]
  /\ counted \in [File -> {"open", "completed", "failed"}]
  /\ errors \in Nat
  /\ crashes \in Nat

Init ==
  /\ upload = [f \in File |-> "idle"]
  /\ asset = [f \in File |-> "none"]
  /\ target = [f \in File |-> f]
  /\ job = [f \in File |-> "none"]
  /\ tries = [f \in File |-> 0]
  /\ stalls = [f \in File |-> 0]
  /\ batch = [b \in Batch |-> [status |-> "none", total |-> 0, completed |-> 0, failed |-> 0]]
  /\ tally = [f \in File |-> "none"]
  /\ verdict = [f \in File |-> "none"]
  /\ counted = [f \in File |-> "open"]
  /\ errors = 0
  /\ crashes = 0

------------------------------------------------------------------------------
(* The client and the upload routes.                                       *)

\* What db.query.assets.findFirst(sha256 = ...) may return: no ORDER BY, no
\* condition on status or deletedAt.
Matches(f) == {a \in File : asset[a] # "none" /\ ContentOf[a] = ContentOf[f]}

\* A file one of the batch's client workers is awaiting.
InFlight(f) ==
  \/ upload[f] \in {"transfer", "complete", "insert", "enqueue"}
  \/ upload[f] \in {"skip", "dedup"} /\ tally[f] \in Counting

\* runBatch: the row is created for every supported file, also for those whose
\* destination could not be resolved and which are left out of the queue.
CreateBatch(b) ==
  /\ batch[b].status = "none"
  /\ \E unresolved \in SUBSET FilesIn(b) :
       /\ unresolved # {} => errors < MaxErrors
       /\ errors' = IF unresolved = {} THEN errors ELSE errors + 1
       /\ upload' = [f \in File |-> IF f \notin FilesIn(b) THEN upload[f]
                                    ELSE IF f \in unresolved THEN "error" ELSE "queued"]
  /\ batch' = [batch EXCEPT ![b] = [status |-> "uploading", completed |-> 0, failed |-> 0,
                                    total |-> Cardinality(FilesIn(b))]]
  /\ UNCHANGED <<asset, target, jobVars, tally, verdict, counted, crashes>>

\* POST /api/upload/check, up to its first write.
CheckNew(f) ==
  /\ Matches(f) = {}
  /\ upload' = [upload EXCEPT ![f] = "transfer"]
  /\ UNCHANGED <<target, tally>>

CheckSkip(f) ==
  /\ Mode[f] = "skip"
  /\ \E a \in Matches(f) : target' = [target EXCEPT ![f] = a]
  /\ upload' = [upload EXCEPT ![f] = "skip"]
  /\ tally' = [tally EXCEPT ![f] = "count"]

\* "Keep duplicates": the bytes are in storage, /complete is called at once
\* with forceNewCopy and inserts without looking for an existing row.
CheckKeep(f) ==
  /\ Mode[f] = "keep"
  /\ Matches(f) # {}
  /\ upload' = [upload EXCEPT ![f] = "insert"]
  /\ UNCHANGED <<target, tally>>

Check(f) ==
  /\ upload[f] = "queued"
  /\ Cardinality({g \in FilesIn(BatchOf[f]) : InFlight(g)}) < ClientSlots
  /\ CheckNew(f) \/ CheckSkip(f) \/ CheckKeep(f)
  /\ UNCHANGED <<asset, jobVars, ledgerVars, faultVars>>

\* The bytes reach storage and /complete has verified them.
Transfer(f) ==
  /\ upload[f] = "transfer"
  /\ upload' = [upload EXCEPT ![f] = "complete"]
  /\ UNCHANGED <<asset, target, jobVars, ledgerVars, tally, faultVars>>

\* Mutant of CompleteLookup: the "else" before the enqueue is lost, so a
\* deduplicated file is counted and enqueued.
CountsAndEnqueues(f) ==
  /\ upload[f] = "complete"
  /\ IF Matches(f) = {}
       THEN /\ upload' = [upload EXCEPT ![f] = "insert"]
            /\ UNCHANGED <<target, tally>>
       ELSE /\ \E a \in Matches(f) : target' = [target EXCEPT ![f] = a]
            /\ upload' = [upload EXCEPT ![f] = "enqueue"]
            /\ tally' = [tally EXCEPT ![f] = "count"]
  /\ UNCHANGED <<asset, jobVars, ledgerVars, faultVars>>

\* POST /api/upload/complete: the existing row, if any, and its status.
CompleteLookup(f) ==
  /\ upload[f] = "complete"
  /\ \/ /\ Matches(f) = {}
        /\ upload' = [upload EXCEPT ![f] = "insert"]
        /\ UNCHANGED <<target, tally>>
     \/ \E a \in Matches(f) :
          /\ target' = [target EXCEPT ![f] = a]
          /\ \/ /\ asset[a] = "pending"
                /\ upload' = [upload EXCEPT ![f] = "enqueue"]
                /\ UNCHANGED tally
             \/ /\ asset[a] # "pending"
                /\ upload' = [upload EXCEPT ![f] = "dedup"]
                /\ tally' = [tally EXCEPT ![f] = "count"]
  /\ UNCHANGED <<asset, jobVars, ledgerVars, faultVars>>

CompleteInsert(f) ==
  /\ upload[f] = "insert"
  /\ asset' = [asset EXCEPT ![f] = "pending"]
  /\ upload' = [upload EXCEPT ![f] = "enqueue"]
  /\ UNCHANGED <<target, jobVars, ledgerVars, tally, faultVars>>

CompleteEnqueue(f) ==
  /\ upload[f] = "enqueue"
  /\ job' = [job EXCEPT ![f] = "waiting"]
  /\ upload' = [upload EXCEPT ![f] = "processing"]
  /\ UNCHANGED <<asset, target, tries, stalls, ledgerVars, tally, faultVars>>

\* A request for f dies: the network, the database, the app, or the bytes.
\* processOne's catch shows an error and nothing calls the server again.
RequestFails(f) ==
  /\ errors < MaxErrors
  /\ upload[f] = "queued" \/ InFlight(f)
  /\ errors' = errors + 1
  /\ upload' = [upload EXCEPT ![f] = "error"]
  /\ tally' = [tally EXCEPT ![f] = IF @ \in Counting THEN "lost" ELSE @]
  /\ UNCHANGED <<asset, target, jobVars, ledgerVars, crashes>>

------------------------------------------------------------------------------
(* The ingest worker.                                                      *)

ActiveJobs == {f \in File : job[f] \in Active}

\* BullMQ hands a waiting job to a free slot; the backoff before a retry only
\* lengthens the time spent in "waiting".
PickJob(f) ==
  /\ job[f] = "waiting"
  /\ Cardinality(ActiveJobs) < Concurrency
  /\ job' = [job EXCEPT ![f] = "guard"]
  /\ UNCHANGED <<clientVars, asset, tries, stalls, ledgerVars, tally, faultVars>>

\* The processor returned: the job is completed in Redis, then the worker's
\* completed listener counts the file.
FinishJob(f) ==
  /\ job' = [job EXCEPT ![f] = "completed"]
  /\ tally' = [tally EXCEPT ![f] = "count"]

\* Mutant of GuardReady: a job whose asset is being processed is a no-op too.
SkipsProcessing(f) ==
  /\ job[f] = "guard"
  /\ asset[target[f]] \in {"processing", "ready"}
  /\ FinishJob(f)
  /\ UNCHANGED <<clientVars, asset, tries, stalls, ledgerVars, faultVars>>

\* The idempotency guard: one read, decided on before the next await.
GuardReady(f) ==
  /\ job[f] = "guard"
  /\ asset[target[f]] = "ready"
  /\ FinishJob(f)
  /\ UNCHANGED <<clientVars, asset, tries, stalls, ledgerVars, faultVars>>

GuardPass(f) ==
  /\ job[f] = "guard"
  /\ asset[target[f]] # "ready"
  /\ job' = [job EXCEPT ![f] = "load"]
  /\ UNCHANGED <<clientVars, asset, tries, stalls, ledgerVars, tally, faultVars>>

SetAsset(f, s) == asset' = [asset EXCEPT ![target[f]] = s]

BeginWork(f) ==
  /\ job[f] = "load"
  /\ SetAsset(f, "processing")
  /\ job' = [job EXCEPT ![f] = "work"]
  /\ UNCHANGED <<clientVars, tries, stalls, ledgerVars, tally, faultVars>>

\* Bytes verified, derivatives written: the row becomes visible as "ready".
Publish(f) ==
  /\ job[f] = "work"
  /\ SetAsset(f, "ready")
  /\ job' = [job EXCEPT ![f] = "link"]
  /\ UNCHANGED <<clientVars, tries, stalls, ledgerVars, tally, faultVars>>

\* Metadata, keywords and sibling linking done.
LinkDone(f) ==
  /\ job[f] = "link"
  /\ FinishJob(f)
  /\ UNCHANGED <<clientVars, asset, tries, stalls, ledgerVars, faultVars>>

\* Mutant of Throw: the catch block does not rethrow.
SwallowsError(f) ==
  /\ job[f] \in {"work", "link"}
  /\ SetAsset(f, "failed")
  /\ FinishJob(f)
  /\ UNCHANGED <<clientVars, tries, stalls, ledgerVars, faultVars>>

\* The catch block; the steps after Publish are inside the same try.
Throw(f) ==
  /\ job[f] \in {"work", "link"}
  /\ SetAsset(f, "failed")
  /\ job' = [job EXCEPT ![f] = "throw"]
  /\ UNCHANGED <<clientVars, tries, stalls, ledgerVars, tally, faultVars>>

\* Mutant of EndAttempt: the failed listener counts every failed attempt.
CountsEveryAttempt(f) ==
  /\ tries' = [tries EXCEPT ![f] = @ + 1]
  /\ job' = [job EXCEPT ![f] = "failed"]
  /\ tally' = [tally EXCEPT ![f] = "count"]
  /\ UNCHANGED <<clientVars, asset, stalls, ledgerVars>>

\* The processor threw: BullMQ retries the job, or the failed listener counts
\* the file once attemptsMade has reached the limit.
EndAttempt(f) ==
  /\ tries' = [tries EXCEPT ![f] = @ + 1]
  /\ IF tries[f] + 1 >= Attempts
       THEN /\ job' = [job EXCEPT ![f] = "failed"]
            /\ tally' = [tally EXCEPT ![f] = "count"]
       ELSE /\ job' = [job EXCEPT ![f] = "waiting"]
            /\ UNCHANGED tally
  /\ UNCHANGED <<clientVars, asset, stalls, ledgerVars>>

AttemptFails(f) ==
  /\ job[f] = "throw"
  /\ EndAttempt(f)
  /\ UNCHANGED faultVars

\* The database refuses one of the processor's statements: outside the try, or
\* the update in the catch block itself, so asset.status stays as it was.
DatabaseFails(f) ==
  /\ job[f] \in Active \ {"throw"}
  /\ errors < MaxErrors
  /\ errors' = errors + 1
  /\ EndAttempt(f)
  /\ UNCHANGED crashes

\* Mutant of WorkerCrash: stalled jobs are not put back.
StallsAreLost ==
  /\ crashes < MaxCrashes
  /\ crashes' = crashes + 1
  /\ job' = [f \in File |-> IF job[f] \in Active THEN "failed" ELSE job[f]]
  /\ UNCHANGED <<clientVars, asset, tries, stalls, ledgerVars, tally, errors>>

\* The worker process dies.  Its active jobs stall: BullMQ puts them back at
\* most MaxStalls times, then fails them with attemptsMade below the limit,
\* which the failed listener ignores.  Its running listeners are lost.
WorkerCrash ==
  /\ crashes < MaxCrashes
  /\ crashes' = crashes + 1
  /\ job' = [f \in File |-> IF job[f] \notin Active THEN job[f]
                            ELSE IF stalls[f] < MaxStalls THEN "waiting" ELSE "failed"]
  /\ stalls' = [f \in File |-> IF job[f] \in Active THEN stalls[f] + 1 ELSE stalls[f]]
  /\ tally' = [f \in File |-> IF job[f] # "none" /\ tally[f] \in Counting
                              THEN "lost" ELSE tally[f]]
  /\ UNCHANGED <<clientVars, asset, tries, ledgerVars, errors>>

------------------------------------------------------------------------------
(* Counting a file and finalizing its batch.                               *)

Column(f) == IF job[f] = "failed" THEN "failed" ELSE "completed"

\* completedFiles = completedFiles + 1 (or failedFiles), one SQL statement.
Incremented(row, column) ==
  IF column = "failed" THEN [row EXCEPT !.failed = @ + 1]
                       ELSE [row EXCEPT !.completed = @ + 1]

Count(f) ==
  /\ tally[f] = "count"
  /\ batch' = [batch EXCEPT ![BatchOf[f]] = Incremented(@, Column(f))]
  /\ counted' = [counted EXCEPT ![f] = Column(f)]
  /\ tally' = [tally EXCEPT ![f] = "read"]
  /\ UNCHANGED <<clientVars, asset, jobVars, verdict, faultVars>>

\* Mutants of AllAccounted: off by one; failed files forgotten.  Mutants of
\* VerdictOf: partial success counts as done.
OneMissing(row) == row.completed + row.failed + 1 >= row.total
OnlyCompleted(row) == row.completed >= row.total
PartialSuccess(row) == IF row.completed = 0 THEN "failed" ELSE "done"

AllAccounted(row) == row.completed + row.failed >= row.total
VerdictOf(row) == IF row.failed > 0 THEN "failed" ELSE "done"

\* maybeFinalizeBatch: the row is read, and written in a later statement.
ReadBatch(f) ==
  /\ tally[f] = "read"
  /\ LET row == batch[BatchOf[f]] IN
       IF row.status \notin Closed /\ AllAccounted(row)
         THEN /\ verdict' = [verdict EXCEPT ![f] = VerdictOf(row)]
              /\ tally' = [tally EXCEPT ![f] = "write"]
         ELSE /\ tally' = [tally EXCEPT ![f] = "done"]
              /\ UNCHANGED verdict
  /\ UNCHANGED <<clientVars, asset, jobVars, batch, counted, faultVars>>

WriteVerdict(f) ==
  /\ tally[f] = "write"
  /\ batch' = [batch EXCEPT ![BatchOf[f]].status = verdict[f]]
  /\ tally' = [tally EXCEPT ![f] = "done"]
  /\ UNCHANGED <<clientVars, asset, jobVars, verdict, counted, faultVars>>

------------------------------------------------------------------------------
RequestStep(f) == \/ Check(f) \/ Transfer(f) \/ CompleteLookup(f)
                  \/ CompleteInsert(f) \/ CompleteEnqueue(f)
JobStep(f) == \/ PickJob(f) \/ GuardReady(f) \/ GuardPass(f) \/ BeginWork(f)
              \/ Publish(f) \/ LinkDone(f) \/ Throw(f) \/ AttemptFails(f)
TallyStep(f) == Count(f) \/ ReadBatch(f) \/ WriteVerdict(f)

Next ==
  \/ \E b \in Batch : CreateBatch(b)
  \/ \E f \in File : RequestStep(f) \/ JobStep(f) \/ TallyStep(f)
  \/ \E f \in File : RequestFails(f) \/ DatabaseFails(f)
  \/ WorkerCrash

Spec == Init /\ [][Next]_vars

\* The event loops of the app and of the worker do not starve a continuation
\* that is ready to run.  Nobody is obliged to drop files, to fail or to crash.
FairSpec ==
  /\ Spec
  /\ \A f \in File : /\ WF_vars(RequestStep(f))
                     /\ WF_vars(JobStep(f))
                     /\ WF_vars(TallyStep(f))

------------------------------------------------------------------------------
(* Properties.                                                             *)

\* A file counted in a column of its batch.
CountedAs(b, column) == {f \in FilesIn(b) : counted[f] = column}

\* The counters of a batch are incremented from three handlers of two
\* processes; still no file is counted twice, and never in both columns
\* (check/route.ts:51-57, complete/route.ts:107-117, worker/index.ts:61-87).
OneCountPerFile ==
  \A b \in Batch :
    /\ batch[b].completed = Cardinality(CountedAs(b, "completed"))
    /\ batch[b].failed = Cardinality(CountedAs(b, "failed"))
    /\ batch[b].completed + batch[b].failed <= Cardinality(FilesIn(b))

\* maybeFinalizeBatch decides on a row it read earlier, possibly twice at the
\* same time; a verdict it writes still agrees with the final counts of all
\* the batch's files (batch.ts:12-22).
VerdictTruthful ==
  \A b \in Batch : batch[b].status \in Closed =>
    /\ \A f \in FilesIn(b) : counted[f] # "open"
    /\ batch[b].status = "failed" <=> CountedAs(b, "failed") # {}

\* The batch row implements the ledger every batch promises.
Ledger == INSTANCE BatchLedger
            WITH fate <- counted, status <- [b \in Batch |-> batch[b].status]
ImplementsLedger == Ledger!LedgerSpec

\* "Only mark the batch/job row as failed once every attempt is exhausted"
\* (worker/index.ts:75-76), also when the worker crashes between attempts.
FailedAfterLastAttempt ==
  \A f \in File : counted[f] = "failed" => tries[f] >= Attempts

Jobs(a) == {f \in File : job[f] # "none" /\ target[f] = a}

\* A job reported as completed leaves its asset ready, as long as no second
\* job works on the same asset (process-ingest.ts:86-211).
CompletedMeansReady ==
  \A a \in File : \A f \in Jobs(a) :
    Jobs(a) = {f} /\ job[f] = "completed" => asset[a] = "ready"

\* An asset that is not settled is still somebody's business: a /complete
\* handler about to enqueue it or a job that is not over.  Needs the app not
\* to die between the insert and the enqueue (complete/route.ts:87-119).
NoStrandedAsset ==
  \A a \in File : asset[a] \in {"pending", "processing"} =>
    \E f \in File : /\ target[f] = a
                    /\ upload[f] = "enqueue" \/ job[f] \in Active \cup {"waiting"}

\* Every asset is eventually ready or given up, whatever the order in which
\* duplicate jobs for it run and even if the worker dies once on the way.
AssetSettles ==
  \A a \in File : asset[a] \in {"pending", "processing"}
                    ~> asset[a] \in {"ready", "failed"}

\* A batch that was opened is eventually closed, whichever of its files is the
\* last to finish and whatever failed or was deduplicated, unless a request or
\* the worker died on the way (batch.ts:5-22).
BatchCloses ==
  \A b \in Batch : batch[b].status = "uploading"
                     ~> batch[b].status \in Closed \/ errors + crashes > 0

------------------------------------------------------------------------------
(* What comments of the code say and its steps do not keep.                *)

\* Finalizing is "called from every place that can be the *last* file in a
\* batch to finish" (batch.ts:9-10): also from where a file is given up.
EveryBatchCloses ==
  \A b \in Batch : batch[b].status = "uploading" ~> batch[b].status \in Closed

\* "An existing match means this file is done, full stop" (check/route.ts:15):
\* the asset a skipped file is matched with is ready or still being worked on.
SkippedIsDone ==
  \A f \in File : upload[f] = "skip" =>
    \/ asset[target[f]] = "ready"
    \/ \E g \in File : /\ target[g] = target[f]
                       /\ upload[g] = "enqueue" \/ job[g] \in Active \cup {"waiting"}
==============================================================================
