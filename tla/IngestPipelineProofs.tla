------------------------- MODULE IngestPipelineProofs -------------------------
(***************************************************************************)
(* What holds of IngestPipeline for every set of files and batches, every  *)
(* assignment of contents, every limit and every fault budget: the batch   *)
(* counters and verdicts are right, and the row implements BatchLedger.    *)
(***************************************************************************)
EXTENDS IngestPipeline, FiniteSetTheorems, TLAPS

(***************************************************************************)
(* The inductive invariant.  OneCountPerFile and VerdictTruthful are not   *)
(* inductive: whether a file may still be counted depends on how far its   *)
(* requests, its job and its tally have come (Progress), and the verdict a *)
(* tally is about to write must still be the right one (PendingVerdict).   *)
(***************************************************************************)
Uncountable == {"idle", "queued", "transfer", "complete", "insert", "enqueue"}
Finished == {"completed", "failed"}

Progress(f) ==
  /\ upload[f] = "idle" <=> batch[BatchOf[f]].status = "none"
  /\ job[f] # "none" => upload[f] = "processing"
  /\ upload[f] \in Uncountable => tally[f] = "none"
  /\ upload[f] = "processing" /\ job[f] \notin Finished => tally[f] = "none"
  /\ tally[f] \in {"none", "count"} => counted[f] = "open"
  /\ tally[f] \in {"read", "write", "done"} => counted[f] # "open"

Accounted(b) == \A f \in FilesIn(b) : counted[f] # "open"
Agrees(b, v) == v = "failed" <=> CountedAs(b, "failed") # {}

Counters(b) ==
  /\ batch[b].completed = Cardinality(CountedAs(b, "completed"))
  /\ batch[b].failed = Cardinality(CountedAs(b, "failed"))
  /\ batch[b].status # "none" => batch[b].total = Cardinality(FilesIn(b))

PendingVerdict(f) ==
  tally[f] = "write" => /\ verdict[f] \in Closed
                        /\ Accounted(BatchOf[f])
                        /\ Agrees(BatchOf[f], verdict[f])

Verdict(b) ==
  batch[b].status \in Closed => Accounted(b) /\ Agrees(b, batch[b].status)

IInv ==
  /\ TypeOK
  /\ \A f \in File : Progress(f)
  /\ \A b \in Batch : Counters(b)
  /\ \A f \in File : PendingVerdict(f)
  /\ \A b \in Batch : Verdict(b)

------------------------------------------------------------------------------
(* Counting files.                                                         *)

\* The files of a batch, and those counted in a column, are finite sets.
LEMMA FilesFinite ==
  ASSUME NEW b
  PROVE  /\ IsFiniteSet(FilesIn(b))
         /\ Cardinality(FilesIn(b)) \in Nat
         /\ \A c : /\ CountedAs(b, c) \subseteq FilesIn(b)
                   /\ IsFiniteSet(CountedAs(b, c))
                   /\ Cardinality(CountedAs(b, c)) \in Nat
<1>1. FilesIn(b) \in SUBSET File
  BY DEF FilesIn
<1>2. IsFiniteSet(FilesIn(b)) /\ Cardinality(FilesIn(b)) \in Nat
  BY <1>1, FS_Subset, FS_CardinalityType, PipelineAssumption DEF PipelineAssumption
<1>3. ASSUME NEW c
      PROVE  /\ CountedAs(b, c) \subseteq FilesIn(b)
             /\ IsFiniteSet(CountedAs(b, c))
             /\ Cardinality(CountedAs(b, c)) \in Nat
  <2>1. CountedAs(b, c) \in SUBSET FilesIn(b)
    BY DEF CountedAs
  <2>2. IsFiniteSet(CountedAs(b, c))
    BY <1>2, <2>1, FS_Subset
  <2>3. QED
    BY <2>1, <2>2, FS_CardinalityType
<1>4. QED
  BY <1>2, <1>3

\* The two columns of a batch never add up to more than its files, and when
\* they add up to all of them every file has been counted.
LEMMA ColumnsBounded ==
  ASSUME NEW b
  PROVE  LET n == Cardinality(CountedAs(b, "completed"))
                  + Cardinality(CountedAs(b, "failed"))
         IN  /\ n <= Cardinality(FilesIn(b))
             /\ n >= Cardinality(FilesIn(b)) => Accounted(b)
<1> DEFINE C == CountedAs(b, "completed")
           F == CountedAs(b, "failed")
<1>1. /\ IsFiniteSet(FilesIn(b)) /\ IsFiniteSet(C) /\ IsFiniteSet(F)
      /\ C \cup F \in SUBSET FilesIn(b)
      /\ Cardinality(C) \in Nat /\ Cardinality(F) \in Nat
      /\ Cardinality(FilesIn(b)) \in Nat
  BY FilesFinite
<1>2. C \cap F = {}
  BY DEF CountedAs
<1>3. Cardinality(C \cup F) = Cardinality(C) + Cardinality(F)
  <2>1. Cardinality(C \cup F) = Cardinality(C) + Cardinality(F) - Cardinality(C \cap F)
    BY <1>1, FS_Union
  <2>2. Cardinality(C \cap F) = 0
    BY <1>2, FS_EmptySet
  <2>3. QED
    BY <1>1, <2>1, <2>2
<1>4. /\ Cardinality(C \cup F) <= Cardinality(FilesIn(b))
      /\ Cardinality(FilesIn(b)) = Cardinality(C \cup F) => FilesIn(b) = C \cup F
  BY <1>1, FS_Subset
<1>5. FilesIn(b) = C \cup F => Accounted(b)
  BY DEF Accounted, CountedAs
<1> HIDE DEF C, F
<1>6. /\ Cardinality(C) + Cardinality(F) <= Cardinality(FilesIn(b))
      /\ Cardinality(C) + Cardinality(F) >= Cardinality(FilesIn(b)) => Accounted(b)
  BY <1>1, <1>3, <1>4, <1>5
<1>7. QED
  BY <1>6 DEF C, F

------------------------------------------------------------------------------
(* Type correctness.                                                       *)

LEMMA InitTypeOK == Init => TypeOK
BY PipelineAssumption DEF Init, TypeOK, PipelineAssumption, UploadState, AssetStatus,
   JobState, TallyState, BatchRow, Closed

LEMMA StepTypeOK == TypeOK /\ [Next]_vars => TypeOK'
<1> SUFFICES ASSUME TypeOK, [Next]_vars PROVE TypeOK'
  OBVIOUS
<1> USE DEF TypeOK, clientVars, jobVars, ledgerVars, faultVars, UploadState,
            AssetStatus, JobState, Active, TallyState, Closed, BatchRow
<1>1. ASSUME NEW b \in Batch, CreateBatch(b) PROVE TypeOK'
  <2>1. Cardinality(FilesIn(b)) \in Nat
    BY FilesFinite
  <2>2. batch' \in [Batch -> BatchRow]
    BY <1>1, <2>1 DEF CreateBatch
  <2>3. upload' \in [File -> UploadState] /\ errors' \in Nat
    BY <1>1 DEF CreateBatch
  <2>4. UNCHANGED <<asset, target, job, tries, stalls, tally, verdict, counted, crashes>>
    BY <1>1 DEF CreateBatch
  <2> HIDE DEF UploadState, AssetStatus, JobState, TallyState, BatchRow
  <2>5. QED
    BY <2>2, <2>3, <2>4
<1>2. ASSUME NEW f \in File, RequestStep(f) PROVE TypeOK'
  <2>1. CASE Check(f)
    <3>1. /\ upload' \in [File -> UploadState]
          /\ target' \in [File -> File]
          /\ tally' \in [File -> TallyState]
      <4>1. CASE CheckNew(f)
        BY <4>1 DEF CheckNew
      <4>2. CASE CheckSkip(f)
        BY <4>2 DEF CheckSkip, Matches
      <4>3. CASE CheckKeep(f)
        BY <4>3 DEF CheckKeep
      <4>4. QED
        BY <2>1, <4>1, <4>2, <4>3 DEF Check
    <3>2. UNCHANGED <<asset, job, tries, stalls, batch, verdict, counted, errors, crashes>>
      BY <2>1 DEF Check
    <3>3. QED
      BY <3>1, <3>2
  <2>2. CASE Transfer(f)
    BY <2>2 DEF Transfer
  <2>3. CASE CompleteLookup(f)
    BY <2>3 DEF CompleteLookup, Matches
  <2>4. CASE CompleteInsert(f)
    BY <2>4 DEF CompleteInsert
  <2>5. CASE CompleteEnqueue(f)
    BY <2>5 DEF CompleteEnqueue
  <2>6. QED
    BY <1>2, <2>1, <2>2, <2>3, <2>4, <2>5 DEF RequestStep
<1>3. ASSUME NEW f \in File, JobStep(f) PROVE TypeOK'
  <2>1. CASE PickJob(f)
    BY <2>1 DEF PickJob
  <2>2. CASE GuardReady(f)
    BY <2>2 DEF GuardReady, FinishJob
  <2>3. CASE GuardPass(f)
    BY <2>3 DEF GuardPass
  <2>4. CASE BeginWork(f)
    BY <2>4 DEF BeginWork, SetAsset
  <2>5. CASE Publish(f)
    BY <2>5 DEF Publish, SetAsset
  <2>6. CASE LinkDone(f)
    BY <2>6 DEF LinkDone, FinishJob
  <2>7. CASE Throw(f)
    BY <2>7 DEF Throw, SetAsset
  <2>8. CASE AttemptFails(f)
    BY <2>8 DEF AttemptFails, EndAttempt
  <2>9. QED
    BY <1>3, <2>1, <2>2, <2>3, <2>4, <2>5, <2>6, <2>7, <2>8 DEF JobStep
<1>4. ASSUME NEW f \in File, TallyStep(f) PROVE TypeOK'
  <2>1. BatchOf[f] \in Batch
    BY PipelineAssumption DEF PipelineAssumption
  <2>2. CASE Count(f)
    <3>1. batch[BatchOf[f]] \in BatchRow
      BY <2>1
    <3>2. Incremented(batch[BatchOf[f]], Column(f)) \in BatchRow
      BY <3>1 DEF Incremented
    <3>3. batch' \in [Batch -> BatchRow]
      <4> HIDE DEF BatchRow
      <4>1. QED
        BY <2>1, <2>2, <3>2 DEF Count
    <3>4. /\ counted' \in [File -> {"open", "completed", "failed"}]
          /\ tally' \in [File -> TallyState]
      BY <2>2 DEF Count, Column
    <3>5. UNCHANGED <<upload, target, asset, job, tries, stalls, verdict, errors, crashes>>
      BY <2>2 DEF Count
    <3> HIDE DEF UploadState, AssetStatus, JobState, TallyState, BatchRow
    <3>6. QED
      BY <3>3, <3>4, <3>5
  <2>3. CASE ReadBatch(f)
    BY <2>3 DEF ReadBatch, VerdictOf
  <2>4. CASE WriteVerdict(f)
    BY <2>1, <2>4 DEF WriteVerdict
  <2>5. QED
    BY <1>4, <2>2, <2>3, <2>4 DEF TallyStep
<1>5. ASSUME NEW f \in File, RequestFails(f) \/ DatabaseFails(f) PROVE TypeOK'
  BY <1>5 DEF RequestFails, DatabaseFails, EndAttempt
<1>6. CASE WorkerCrash
  BY <1>6 DEF WorkerCrash
<1>7. CASE UNCHANGED vars
  BY <1>7 DEF vars
<1>8. QED
  BY <1>1, <1>2, <1>3, <1>4, <1>5, <1>6, <1>7 DEF Next

\* Every variable keeps its type: in particular no step leaves a request, a
\* job or a tally at a point the code does not have.
THEOREM TypeCorrect == Spec => []TypeOK
BY InitTypeOK, StepTypeOK, PTL DEF Spec

------------------------------------------------------------------------------
(* The batch ledger.                                                       *)

LEMMA InitIInv == Init => IInv
<1> SUFFICES ASSUME Init PROVE IInv
  OBVIOUS
<1>1. TypeOK
  BY InitTypeOK
<1>2. ASSUME NEW f \in File PROVE Progress(f) /\ PendingVerdict(f)
  <2>1. BatchOf[f] \in Batch
    BY PipelineAssumption DEF PipelineAssumption
  <2>2. batch[BatchOf[f]].status = "none"
    BY <2>1 DEF Init
  <2>3. QED
    BY <2>2 DEF Init, Progress, PendingVerdict, Uncountable
<1>3. ASSUME NEW b \in Batch PROVE Counters(b) /\ Verdict(b)
  <2>1. CountedAs(b, "completed") = {} /\ CountedAs(b, "failed") = {}
    BY DEF Init, CountedAs, FilesIn
  <2>2. QED
    BY <2>1, FS_EmptySet DEF Init, Counters, Verdict, Closed
<1>4. QED
  BY <1>1, <1>2, <1>3 DEF IInv

\* A step that leaves the counters, the counted files and the verdicts alone
\* preserves the invariant if it keeps every file's progress consistent.
LEMMA QuietStep ==
  ASSUME IInv, TypeOK', UNCHANGED <<batch, counted, verdict>>,
         \A f \in File : tally'[f] = "write" => tally[f] = "write",
         \A f \in File : Progress(f)'
  PROVE  IInv'
<1>1. \A b : /\ CountedAs(b, "completed")' = CountedAs(b, "completed")
            /\ CountedAs(b, "failed")' = CountedAs(b, "failed")
            /\ Accounted(b)' <=> Accounted(b)
            /\ FilesIn(b)' = FilesIn(b)
  BY DEF CountedAs, Accounted, FilesIn
<1>2. \A f \in File : PendingVerdict(f)'
  BY <1>1 DEF IInv, PendingVerdict, Agrees
<1>3. ASSUME NEW b \in Batch PROVE Counters(b)' /\ Verdict(b)'
  <2>1. Counters(b)'
    BY DEF IInv, Counters, CountedAs, FilesIn
  <2>2. Verdict(b)'
    BY <1>1 DEF IInv, Verdict, Agrees
  <2>3. QED
    BY <2>1, <2>2
<1>4. QED
  BY <1>2, <1>3 DEF IInv

\* Requests: a file becomes countable only when its handler starts a tally.
LEMMA RequestStepIInv ==
  ASSUME IInv, TypeOK', NEW f \in File, RequestStep(f) \/ RequestFails(f)
  PROVE  IInv'
<1> USE DEF ledgerVars, faultVars, jobVars, clientVars
<1>1. UNCHANGED <<batch, counted, verdict>>
  BY DEF RequestStep, Check, Transfer, CompleteLookup, CompleteInsert, CompleteEnqueue,
         RequestFails
<1> USE DEF IInv, TypeOK, Progress, Uncountable, Finished
<1>2. CASE Check(f)
  <2>1. \/ upload' = [upload EXCEPT ![f] = "transfer"] /\ tally' = tally
        \/ upload' = [upload EXCEPT ![f] = "insert"] /\ tally' = tally
        \/ upload' = [upload EXCEPT ![f] = "skip"] /\ tally' = [tally EXCEPT ![f] = "count"]
    BY <1>2 DEF Check, CheckNew, CheckSkip, CheckKeep
  <2>2. upload[f] = "queued" /\ job' = job
    BY <1>2 DEF Check
  <2>3. \A g \in File : Progress(g)'
    BY <1>1, <2>1, <2>2
  <2>4. \A g \in File : tally'[g] = "write" => tally[g] = "write"
    BY <2>1
  <2>5. QED
    BY <1>1, <2>3, <2>4, QuietStep
<1>3. CASE Transfer(f) \/ CompleteInsert(f) \/ CompleteEnqueue(f)
  <2>1. \A g \in File : Progress(g)'
    BY <1>1, <1>3 DEF Transfer, CompleteInsert, CompleteEnqueue
  <2>2. tally' = tally
    BY <1>3 DEF Transfer, CompleteInsert, CompleteEnqueue
  <2>3. QED
    BY <1>1, <2>1, <2>2, QuietStep
<1>4. CASE CompleteLookup(f)
  <2>1. \/ upload' = [upload EXCEPT ![f] = "insert"] /\ tally' = tally
        \/ upload' = [upload EXCEPT ![f] = "enqueue"] /\ tally' = tally
        \/ upload' = [upload EXCEPT ![f] = "dedup"] /\ tally' = [tally EXCEPT ![f] = "count"]
    BY <1>4 DEF CompleteLookup
  <2>2. upload[f] = "complete" /\ job' = job
    BY <1>4 DEF CompleteLookup
  <2>3. \A g \in File : Progress(g)'
    BY <1>1, <2>1, <2>2
  <2>4. \A g \in File : tally'[g] = "write" => tally[g] = "write"
    BY <2>1
  <2>5. QED
    BY <1>1, <2>3, <2>4, QuietStep
<1>5. CASE RequestFails(f)
  <2>1. upload[f] \notin {"idle", "processing"}
    BY <1>5 DEF RequestFails, InFlight
  <2>2. /\ upload' = [upload EXCEPT ![f] = "error"]
        /\ tally' = [tally EXCEPT ![f] = IF tally[f] \in Counting THEN "lost" ELSE tally[f]]
        /\ job' = job
    BY <1>5 DEF RequestFails
  <2>3. \A g \in File : Progress(g)'
    BY <1>1, <2>1, <2>2 DEF Counting
  <2>4. \A g \in File : tally'[g] = "write" => tally[g] = "write"
    BY <2>2
  <2>5. QED
    BY <1>1, <2>3, <2>4, QuietStep
<1>6. QED
  BY <1>2, <1>3, <1>4, <1>5 DEF RequestStep

\* Jobs: a file becomes countable only when its job is over.
LEMMA JobStepIInv ==
  ASSUME IInv, TypeOK', NEW f \in File, JobStep(f) \/ DatabaseFails(f)
  PROVE  IInv'
<1> USE DEF ledgerVars, faultVars, jobVars, clientVars
<1>1. UNCHANGED <<batch, counted, verdict, upload>>
  BY DEF JobStep, DatabaseFails, EndAttempt, PickJob, GuardReady, GuardPass, BeginWork,
         Publish, LinkDone, Throw, AttemptFails
<1>2. job[f] \in Active \cup {"waiting"}
  BY DEF JobStep, DatabaseFails, PickJob, GuardReady, GuardPass, BeginWork,
         Publish, LinkDone, Throw, AttemptFails, Active
<1>3. \/ \E s \in Active \cup {"waiting"} : job' = [job EXCEPT ![f] = s] /\ tally' = tally
      \/ \E s \in Finished : /\ job' = [job EXCEPT ![f] = s]
                             /\ tally' = [tally EXCEPT ![f] = "count"]
  BY DEF JobStep, DatabaseFails, EndAttempt, FinishJob, PickJob, GuardReady, GuardPass,
         BeginWork, Publish, LinkDone, Throw, AttemptFails, Active, Finished
<1>4. \A g \in File : Progress(g)'
  BY <1>1, <1>2, <1>3 DEF IInv, TypeOK, Progress, Uncountable, Finished, Active
<1>5. \A g \in File : tally'[g] = "write" => tally[g] = "write"
  BY <1>3 DEF IInv, TypeOK
<1>6. QED
  BY <1>1, <1>4, <1>5, QuietStep

LEMMA WorkerCrashIInv ==
  ASSUME IInv, TypeOK', WorkerCrash
  PROVE  IInv'
<1>1. UNCHANGED <<batch, counted, verdict, upload>>
  BY DEF WorkerCrash, ledgerVars, clientVars
<1>2. \A g \in File : Progress(g)'
  BY <1>1 DEF WorkerCrash, IInv, TypeOK, Progress, Uncountable, Finished, Active, Counting
<1>3. \A g \in File : tally'[g] = "write" => tally[g] = "write"
  BY DEF WorkerCrash, Counting
<1>4. QED
  BY <1>1, <1>2, <1>3, QuietStep

------------------------------------------------------------------------------
LEMMA CreateBatchIInv ==
  ASSUME IInv, TypeOK', NEW b \in Batch, CreateBatch(b)
  PROVE  IInv'
<1> DEFINE row == [status |-> "uploading", completed |-> 0, failed |-> 0,
                   total |-> Cardinality(FilesIn(b))]
<1>1. /\ batch[b].status = "none"
      /\ batch' = [batch EXCEPT ![b] = row]
      /\ UNCHANGED <<job, tally, verdict, counted>>
  BY DEF CreateBatch, jobVars
<1>2. \A f \in File : IF f \in FilesIn(b) THEN upload'[f] \in {"error", "queued"}
                                         ELSE upload'[f] = upload[f]
  BY DEF CreateBatch
<1>3. \A f \in FilesIn(b) : f \in File /\ upload[f] = "idle" /\ tally[f] = "none"
                            /\ counted[f] = "open" /\ job[f] = "none"
  BY <1>1 DEF IInv, Progress, FilesIn, Uncountable
<1>4. \A f \in File : Progress(f)'
  <2> SUFFICES ASSUME NEW f \in File PROVE Progress(f)'
    OBVIOUS
  <2>1. CASE f \in FilesIn(b)
    <3>1. batch'[BatchOf[f]].status = "uploading"
      BY <1>1, <2>1 DEF FilesIn, IInv, TypeOK
    <3>2. QED
      BY <1>1, <1>2, <1>3, <2>1, <3>1 DEF Progress, Uncountable
  <2>2. CASE f \notin FilesIn(b)
    <3>1. batch'[BatchOf[f]] = batch[BatchOf[f]]
      BY <1>1, <2>2 DEF FilesIn, IInv, TypeOK
    <3>2. QED
      BY <1>1, <1>2, <2>2, <3>1 DEF IInv, Progress
  <2>3. QED
    BY <2>1, <2>2
<1>5. \A c : /\ CountedAs(c, "completed")' = CountedAs(c, "completed")
            /\ CountedAs(c, "failed")' = CountedAs(c, "failed")
            /\ Accounted(c)' <=> Accounted(c)
  BY <1>1 DEF CountedAs, Accounted, FilesIn
<1>6. \A f \in File : PendingVerdict(f)'
  BY <1>1, <1>5 DEF IInv, PendingVerdict, Agrees
<1>7. ASSUME NEW c \in Batch PROVE Counters(c)' /\ Verdict(c)'
  <2>1. CASE c = b
    <3>1. CountedAs(b, "completed") = {} /\ CountedAs(b, "failed") = {}
      BY <1>3 DEF CountedAs
    <3>2. batch'[b] = row
      BY <1>1 DEF IInv, TypeOK
    <3>3. FilesIn(b)' = FilesIn(b)
      BY DEF FilesIn
    <3>4. Cardinality({}) = 0
      BY FS_EmptySet
    <3>5. Counters(b)'
      BY <1>1, <3>1, <3>2, <3>4 DEF Counters, CountedAs, FilesIn
    <3>6. Verdict(b)'
      BY <3>2 DEF Verdict, Closed
    <3>7. QED
      BY <2>1, <3>5, <3>6
  <2>2. CASE c # b
    <3>1. batch'[c] = batch[c]
      BY <1>1, <2>2 DEF IInv, TypeOK
    <3>2. Counters(c)'
      BY <1>1, <3>1 DEF IInv, Counters, CountedAs, FilesIn
    <3>3. Verdict(c)'
      BY <1>5, <3>1 DEF IInv, Verdict, Agrees
    <3>4. QED
      BY <3>2, <3>3
  <2>3. QED
    BY <2>1, <2>2
<1>8. QED
  BY <1>4, <1>6, <1>7 DEF IInv

\* A file about to be counted belongs to a batch that is open.
LEMMA OpenWhenCounting ==
  ASSUME IInv, NEW f \in File, tally[f] \in Counting
  PROVE  /\ BatchOf[f] \in Batch
         /\ f \in FilesIn(BatchOf[f])
         /\ batch[BatchOf[f]].status # "none"
         /\ tally[f] = "count" => /\ counted[f] = "open"
                                 /\ batch[BatchOf[f]].status \notin Closed
<1>1. BatchOf[f] \in Batch /\ f \in FilesIn(BatchOf[f])
  BY PipelineAssumption DEF PipelineAssumption, FilesIn
<1>2. Progress(f) /\ Verdict(BatchOf[f])
  BY <1>1 DEF IInv
<1>3. batch[BatchOf[f]].status # "none"
  BY <1>2 DEF Progress, Uncountable, Counting
<1>4. tally[f] = "count" => counted[f] = "open"
  BY <1>2 DEF Progress
<1>5. counted[f] = "open" => batch[BatchOf[f]].status \notin Closed
  BY <1>1, <1>2 DEF Verdict, Accounted
<1>6. QED
  BY <1>1, <1>3, <1>4, <1>5

LEMMA CountIInv ==
  ASSUME IInv, TypeOK', NEW f \in File, Count(f)
  PROVE  IInv'
<1> DEFINE b == BatchOf[f]
           col == Column(f)
<1>1. /\ tally[f] = "count"
      /\ batch' = [batch EXCEPT ![b] = Incremented(@, col)]
      /\ counted' = [counted EXCEPT ![f] = col]
      /\ tally' = [tally EXCEPT ![f] = "read"]
      /\ UNCHANGED <<upload, job, verdict>>
  BY DEF Count, clientVars, jobVars
<1>2. /\ b \in Batch /\ f \in FilesIn(b)
      /\ batch[b].status \notin Closed \cup {"none"}
      /\ counted[f] = "open"
  BY <1>1, OpenWhenCounting DEF Counting
<1>3. col \in {"completed", "failed"}
  BY DEF Column
<1> HIDE DEF col
<1>4. /\ \A c \in Batch \ {b} : batch'[c] = batch[c]
      /\ batch'[b] = Incremented(batch[b], col)
      /\ batch[b] \in BatchRow
  BY <1>1, <1>2 DEF IInv, TypeOK
<1>5. /\ \A c \in Batch : batch'[c].status = batch[c].status
      /\ \A c \in Batch : batch'[c].total = batch[c].total
      /\ batch'[b].completed = IF col = "completed" THEN batch[b].completed + 1
                                                   ELSE batch[b].completed
      /\ batch'[b].failed = IF col = "failed" THEN batch[b].failed + 1 ELSE batch[b].failed
  BY <1>3, <1>4 DEF Incremented, BatchRow
<1>6. \A g \in File : counted'[g] = IF g = f THEN col ELSE counted[g]
  BY <1>1 DEF IInv, TypeOK
<1>7. /\ \A c, k : c # b => CountedAs(c, k)' = CountedAs(c, k)
      /\ \A k : CountedAs(b, k)' = IF k = col THEN CountedAs(b, k) \cup {f}
                                  ELSE CountedAs(b, k) \ {f}
      /\ \A c : FilesIn(c)' = FilesIn(c)
      /\ \A c : Accounted(c) => Accounted(c)'
  BY <1>2, <1>3, <1>6 DEF CountedAs, FilesIn, Accounted
<1>8. f \notin CountedAs(b, "completed") /\ f \notin CountedAs(b, "failed")
  BY <1>2 DEF CountedAs
<1>9. ASSUME NEW g \in File PROVE Progress(g)' /\ PendingVerdict(g)'
  <2>1. BatchOf[g] \in Batch
    BY PipelineAssumption DEF PipelineAssumption
  <2>2. Progress(g)'
    BY <1>1, <1>3, <1>5, <1>6, <2>1 DEF IInv, TypeOK, Progress, Uncountable
  <2>3. PendingVerdict(g)'
    <3> SUFFICES ASSUME tally'[g] = "write" PROVE PendingVerdict(g)'
      BY DEF PendingVerdict
    <3>1. tally[g] = "write" /\ verdict'[g] = verdict[g]
      BY <1>1 DEF IInv, TypeOK
    <3>2. Accounted(BatchOf[g]) /\ Agrees(BatchOf[g], verdict[g]) /\ verdict[g] \in Closed
      BY <3>1 DEF IInv, PendingVerdict
    <3>3. BatchOf[g] # b
      BY <1>2, <3>2 DEF Accounted
    <3>4. QED
      BY <1>7, <3>1, <3>2, <3>3 DEF PendingVerdict, Agrees
  <2>4. QED
    BY <2>2, <2>3
<1>10. ASSUME NEW c \in Batch PROVE Counters(c)' /\ Verdict(c)'
  <2>1. CASE c = b
    <3>1. \A k \in {"completed", "failed"} :
            Cardinality(CountedAs(b, k)') = IF k = col THEN Cardinality(CountedAs(b, k)) + 1
                                            ELSE Cardinality(CountedAs(b, k))
      <4> SUFFICES ASSUME NEW k \in {"completed", "failed"}
                   PROVE  Cardinality(CountedAs(b, k)') =
                            IF k = col THEN Cardinality(CountedAs(b, k)) + 1
                                       ELSE Cardinality(CountedAs(b, k))
        OBVIOUS
      <4>1. IsFiniteSet(CountedAs(b, k)) /\ f \notin CountedAs(b, k)
        BY <1>8, FilesFinite
      <4>2. k = col => CountedAs(b, k)' = CountedAs(b, k) \cup {f}
        BY <1>7
      <4>3. k # col => CountedAs(b, k)' = CountedAs(b, k)
        <5>1. CountedAs(b, k) \ {f} = CountedAs(b, k)
          BY <4>1
        <5>2. QED
          BY <1>7, <5>1
      <4>4. QED
        BY <4>1, <4>2, <4>3, FS_AddElement
    <3>2. Counters(b)
      BY <1>2 DEF IInv
    <3>3. Counters(b)'
      BY <1>2, <1>3, <1>5, <1>7, <3>1, <3>2 DEF Counters
    <3>4. Verdict(b)'
      BY <1>2, <1>5 DEF Verdict
    <3>5. QED
      BY <2>1, <3>3, <3>4
  <2>2. CASE c # b
    BY <1>4, <1>7, <2>2 DEF IInv, Counters, Verdict, Agrees
  <2>3. QED
    BY <2>1, <2>2
<1>11. QED
  BY <1>9, <1>10 DEF IInv

\* maybeFinalizeBatch's read: a verdict is due only when every file is counted.
LEMMA ReadBatchIInv ==
  ASSUME IInv, TypeOK', NEW f \in File, ReadBatch(f)
  PROVE  IInv'
<1> DEFINE b == BatchOf[f]
<1>1. tally[f] = "read" /\ UNCHANGED <<upload, job, batch, counted>>
  BY DEF ReadBatch, clientVars, jobVars
<1>2. b \in Batch /\ batch[b].status # "none"
  BY <1>1, OpenWhenCounting DEF Counting
<1>3. \/ tally' = [tally EXCEPT ![f] = "done"] /\ verdict' = verdict
      \/ /\ tally' = [tally EXCEPT ![f] = "write"]
         /\ verdict' = [verdict EXCEPT ![f] = VerdictOf(batch[b])]
         /\ AllAccounted(batch[b])
  BY DEF ReadBatch
<1>4. AllAccounted(batch[b]) => Accounted(b)
  <2>1. Counters(b)
    BY <1>2 DEF IInv
  <2>2. QED
    BY <1>2, <2>1, ColumnsBounded DEF AllAccounted, Counters
<1>5. VerdictOf(batch[b]) \in Closed /\ Agrees(b, VerdictOf(batch[b]))
  <2>1. batch[b].failed > 0 <=> CountedAs(b, "failed") # {}
    BY <1>2, FilesFinite, FS_EmptySet DEF IInv, Counters
  <2>2. QED
    BY <2>1 DEF VerdictOf, Agrees, Closed
<1>6. \A c : /\ CountedAs(c, "completed")' = CountedAs(c, "completed")
            /\ CountedAs(c, "failed")' = CountedAs(c, "failed")
            /\ Accounted(c)' <=> Accounted(c)
            /\ FilesIn(c)' = FilesIn(c)
  BY <1>1 DEF CountedAs, Accounted, FilesIn
<1>7. \A g \in File : Progress(g)'
  BY <1>1, <1>3 DEF IInv, TypeOK, Progress, Uncountable
<1>8. \A g \in File : PendingVerdict(g)'
  <2> SUFFICES ASSUME NEW g \in File, tally'[g] = "write"
               PROVE  /\ verdict'[g] \in Closed /\ Accounted(BatchOf[g])
                      /\ Agrees(BatchOf[g], verdict'[g])
    BY <1>6 DEF PendingVerdict, Agrees
  <2>1. CASE g = f
    BY <1>3, <1>4, <1>5, <2>1 DEF IInv, TypeOK
  <2>2. CASE g # f
    BY <1>3, <2>2 DEF IInv, TypeOK, PendingVerdict
  <2>3. QED
    BY <2>1, <2>2
<1>9. ASSUME NEW c \in Batch PROVE Counters(c)' /\ Verdict(c)'
  <2>1. Counters(c)'
    BY <1>1 DEF IInv, Counters, CountedAs, FilesIn
  <2>2. Verdict(c)'
    BY <1>1, <1>6 DEF IInv, Verdict, Agrees
  <2>3. QED
    BY <2>1, <2>2
<1>10. QED
  BY <1>7, <1>8, <1>9 DEF IInv

\* Its write: the verdict it read is still the right one.
LEMMA WriteVerdictIInv ==
  ASSUME IInv, TypeOK', NEW f \in File, WriteVerdict(f)
  PROVE  IInv'
<1> DEFINE b == BatchOf[f]
<1>1. /\ tally[f] = "write"
      /\ batch' = [batch EXCEPT ![b].status = verdict[f]]
      /\ tally' = [tally EXCEPT ![f] = "done"]
      /\ UNCHANGED <<upload, job, counted, verdict>>
  BY DEF WriteVerdict, clientVars, jobVars
<1>2. b \in Batch /\ batch[b].status # "none"
  BY <1>1, OpenWhenCounting DEF Counting
<1>3. verdict[f] \in Closed /\ Accounted(b) /\ Agrees(b, verdict[f])
  BY <1>1 DEF IInv, PendingVerdict
<1>4. \A c \in Batch : /\ batch'[c].total = batch[c].total
                       /\ batch'[c].completed = batch[c].completed
                       /\ batch'[c].failed = batch[c].failed
                       /\ batch'[c].status = IF c = b THEN verdict[f] ELSE batch[c].status
  BY <1>1, <1>2 DEF IInv, TypeOK, BatchRow
<1>5. \A c : /\ CountedAs(c, "completed")' = CountedAs(c, "completed")
            /\ CountedAs(c, "failed")' = CountedAs(c, "failed")
            /\ Accounted(c)' <=> Accounted(c)
            /\ FilesIn(c)' = FilesIn(c)
  BY <1>1 DEF CountedAs, Accounted, FilesIn
<1>6. ASSUME NEW g \in File PROVE Progress(g)'
  <2>1. BatchOf[g] \in Batch
    BY PipelineAssumption DEF PipelineAssumption
  <2>2. batch'[BatchOf[g]].status = "none" <=> batch[BatchOf[g]].status = "none"
    BY <1>2, <1>3, <1>4, <2>1 DEF Closed
  <2>3. QED
    BY <1>1, <2>2 DEF IInv, TypeOK, Progress, Uncountable
<1>7. \A g \in File : PendingVerdict(g)'
  BY <1>1, <1>5 DEF IInv, TypeOK, PendingVerdict, Agrees
<1>8. ASSUME NEW c \in Batch PROVE Counters(c)' /\ Verdict(c)'
  <2>1. batch[c].status # "none" <=> batch'[c].status # "none"
    BY <1>2, <1>3, <1>4 DEF Closed
  <2>2. Counters(c)'
    <3>1. /\ batch'[c].total = batch[c].total
          /\ batch'[c].completed = batch[c].completed
          /\ batch'[c].failed = batch[c].failed
      BY <1>4
    <3>2. counted' = counted
      BY <1>1
    <3>3. Counters(c)
      BY DEF IInv
    <3>4. QED
      BY <2>1, <3>1, <3>2, <3>3 DEF Counters, CountedAs, FilesIn
  <2>3. Verdict(c)'
    BY <1>3, <1>4, <1>5 DEF IInv, Verdict, Agrees
  <2>4. QED
    BY <2>2, <2>3
<1>9. QED
  BY <1>6, <1>7, <1>8 DEF IInv

LEMMA StepIInv == IInv /\ [Next]_vars => IInv'
<1> SUFFICES ASSUME IInv, [Next]_vars PROVE IInv'
  OBVIOUS
<1>1. TypeOK'
  BY StepTypeOK DEF IInv
<1>2. ASSUME NEW b \in Batch, CreateBatch(b) PROVE IInv'
  BY <1>1, <1>2, CreateBatchIInv
<1>3. ASSUME NEW f \in File, RequestStep(f) \/ RequestFails(f) PROVE IInv'
  BY <1>1, <1>3, RequestStepIInv
<1>4. ASSUME NEW f \in File, JobStep(f) \/ DatabaseFails(f) PROVE IInv'
  BY <1>1, <1>4, JobStepIInv
<1>5. ASSUME NEW f \in File, TallyStep(f) PROVE IInv'
  BY <1>1, <1>5, CountIInv, ReadBatchIInv, WriteVerdictIInv DEF TallyStep
<1>6. CASE WorkerCrash
  BY <1>1, <1>6, WorkerCrashIInv
<1>7. CASE UNCHANGED vars
  <2>1. \A f \in File : Progress(f)'
    BY <1>7 DEF vars, IInv, Progress
  <2>2. QED
    BY <1>1, <1>7, <2>1, QuietStep DEF vars
<1>8. QED
  BY <1>2, <1>3, <1>4, <1>5, <1>6, <1>7 DEF Next

THEOREM Invariance == Spec => []IInv
BY InitIInv, StepIInv, PTL DEF Spec

\* No file is counted twice in its batch, from whichever handler, for every
\* number of files, batches, retries, dying requests and worker crashes.
THEOREM CountsEachFileOnce == Spec => []OneCountPerFile
<1>1. IInv => OneCountPerFile
  BY ColumnsBounded DEF IInv, Counters, OneCountPerFile
<1>2. QED
  BY <1>1, Invariance, PTL

\* A closed batch has counted all of its files and its verdict fits them.
THEOREM VerdictsAreTruthful == Spec => []VerdictTruthful
<1>1. IInv => VerdictTruthful
  BY DEF IInv, Verdict, VerdictTruthful, Accounted, Agrees
<1>2. QED
  BY <1>1, Invariance, PTL

------------------------------------------------------------------------------
(* Refinement: the batch row implements BatchLedger.                       *)

StatusOf == [b \in Batch |-> batch[b].status]

\* Creating a batch opens it.
LEMMA CreateBatchOpens ==
  ASSUME IInv, NEW b \in Batch, CreateBatch(b)
  PROVE  Ledger!Open(b)
<1>1. batch[b].status = "none" /\ counted' = counted
  BY DEF CreateBatch
<1>2. /\ \A c \in Batch \ {b} : batch'[c] = batch[c]
      /\ batch'[b].status = "uploading"
  BY DEF CreateBatch, IInv, TypeOK
<1>3. StatusOf' = [StatusOf EXCEPT ![b] = "uploading"]
  BY <1>2 DEF StatusOf
<1>4. QED
  BY <1>1, <1>3 DEF Ledger!Open, StatusOf

\* Incrementing a counter settles the file.
LEMMA CountSettles ==
  ASSUME IInv, NEW f \in File, Count(f)
  PROVE  Ledger!Settle(f)
<1> DEFINE b == BatchOf[f]
<1>1. /\ b \in Batch /\ counted[f] = "open"
      /\ batch[b].status = "uploading"
  <2>1. tally[f] = "count"
    BY DEF Count
  <2>2. b \in Batch /\ counted[f] = "open" /\ batch[b].status \notin Closed \cup {"none"}
    BY <2>1, OpenWhenCounting DEF Counting
  <2>3. QED
    BY <2>2 DEF IInv, TypeOK, BatchRow
<1>2. \E o \in {"completed", "failed"} : counted' = [counted EXCEPT ![f] = o]
  BY DEF Count, Column
<1>3. StatusOf' = StatusOf
  <2>1. batch' = [batch EXCEPT ![b] = Incremented(batch[b], Column(f))]
    BY DEF Count
  <2>2. Incremented(batch[b], Column(f)).status = batch[b].status
    BY <1>1 DEF IInv, TypeOK, BatchRow, Incremented
  <2>3. \A c \in Batch : batch'[c].status = batch[c].status
    BY <1>1, <2>1, <2>2 DEF IInv, TypeOK
  <2>4. QED
    BY <2>3 DEF StatusOf
<1>4. StatusOf[b] = "uploading"
  BY <1>1 DEF StatusOf
<1>5. QED
  BY <1>1, <1>2, <1>3, <1>4 DEF Ledger!Settle, Ledger!Fate, StatusOf

\* Writing a verdict closes the batch, or repeats what another tally wrote.
LEMMA WriteCloses ==
  ASSUME IInv, NEW f \in File, WriteVerdict(f)
  PROVE  Ledger!Close(BatchOf[f]) \/ UNCHANGED <<counted, StatusOf>>
<1> DEFINE b == BatchOf[f]
<1>1. /\ tally[f] = "write"
      /\ batch' = [batch EXCEPT ![b].status = verdict[f]]
      /\ counted' = counted
  BY DEF WriteVerdict
<1>2. b \in Batch /\ batch[b].status # "none"
  BY <1>1, OpenWhenCounting DEF Counting
<1>3. verdict[f] \in Closed /\ Accounted(b) /\ Agrees(b, verdict[f])
  BY <1>1 DEF IInv, PendingVerdict
<1>4. \A c \in Batch : batch'[c].status = IF c = b THEN verdict[f] ELSE batch[c].status
  BY <1>1, <1>2 DEF IInv, TypeOK, BatchRow
<1>5. StatusOf' = [StatusOf EXCEPT ![b] = verdict[f]]
  BY <1>4 DEF StatusOf
<1>6. CASE batch[b].status = "uploading"
  <2>1. \A g \in FilesIn(b) : counted[g] # "open"
    BY <1>3 DEF Accounted
  <2>2. verdict[f] = IF \E g \in FilesIn(b) : counted[g] = "failed" THEN "failed" ELSE "done"
    BY <1>3 DEF Agrees, CountedAs, Closed
  <2>3. Ledger!FilesIn(b) = FilesIn(b)
    BY DEF Ledger!FilesIn, FilesIn
  <2>4. StatusOf[b] = "uploading"
    BY <1>2, <1>6 DEF StatusOf
  <2>5. Ledger!Close(b)
    BY <1>1, <1>5, <2>1, <2>2, <2>3, <2>4 DEF Ledger!Close, StatusOf
  <2>6. QED
    BY <2>5
<1>7. CASE batch[b].status \in Closed
  <2>1. Agrees(b, batch[b].status)
    BY <1>2, <1>7 DEF IInv, Verdict
  <2>2. batch[b].status = verdict[f]
    BY <1>3, <1>7, <2>1 DEF Agrees, Closed
  <2>3. StatusOf' = StatusOf
    BY <1>4, <2>2 DEF StatusOf
  <2>4. QED
    BY <1>1, <2>3
<1>8. batch[b].status \in Closed \cup {"uploading"}
  BY <1>2 DEF IInv, TypeOK, BatchRow
<1>9. QED
  BY <1>6, <1>7, <1>8

\* The import_batch rows implement the ledger: files are settled once, only in
\* an open batch, and a verdict is written once all files are settled and is
\* final, although it is computed from a row read earlier.
THEOREM LedgerImplemented == Spec => ImplementsLedger
<1>1. Init => Ledger!LedgerInit
  BY DEF Init, Ledger!LedgerInit
<1>2. IInv /\ [Next]_vars => [Ledger!LedgerNext]_<<counted, StatusOf>>
  <2> SUFFICES ASSUME IInv, [Next]_vars
               PROVE  Ledger!LedgerNext \/ UNCHANGED <<counted, StatusOf>>
    OBVIOUS
  <2>1. ASSUME NEW b \in Batch, CreateBatch(b) PROVE Ledger!LedgerNext
    BY <2>1, CreateBatchOpens DEF Ledger!LedgerNext
  <2>2. ASSUME NEW f \in File, TallyStep(f)
        PROVE  Ledger!LedgerNext \/ UNCHANGED <<counted, StatusOf>>
    <3>1. BatchOf[f] \in Batch
      BY PipelineAssumption DEF PipelineAssumption
    <3>2. CASE Count(f)
      BY <3>2, CountSettles DEF Ledger!LedgerNext
    <3>3. CASE ReadBatch(f)
      BY <3>3 DEF ReadBatch, StatusOf
    <3>4. CASE WriteVerdict(f)
      BY <3>1, <3>4, WriteCloses DEF Ledger!LedgerNext
    <3>5. QED
      BY <2>2, <3>2, <3>3, <3>4 DEF TallyStep
  <2>3. ASSUME NEW f \in File,
               RequestStep(f) \/ RequestFails(f) \/ JobStep(f) \/ DatabaseFails(f)
        PROVE  UNCHANGED <<counted, StatusOf>>
    BY <2>3 DEF RequestStep, Check, Transfer, CompleteLookup, CompleteInsert,
       CompleteEnqueue, RequestFails, JobStep, DatabaseFails, EndAttempt, PickJob,
       GuardReady, GuardPass, BeginWork, Publish, LinkDone, Throw, AttemptFails,
       ledgerVars, StatusOf
  <2>4. CASE WorkerCrash \/ UNCHANGED vars
    BY <2>4 DEF WorkerCrash, ledgerVars, vars, StatusOf
  <2>5. QED
    BY <2>1, <2>2, <2>3, <2>4 DEF Next
<1>3. [Ledger!LedgerNext]_<<counted, StatusOf>> => [Ledger!LedgerNext]_(Ledger!ledgerVars)
  BY DEF Ledger!ledgerVars, StatusOf
<1>4. QED
  BY <1>1, <1>2, <1>3, Invariance, PTL DEF Spec, ImplementsLedger, Ledger!LedgerSpec

------------------------------------------------------------------------------
(* Retries.                                                                *)

\* A job whose failure is being counted, or has been, ran out of attempts; a
\* job that BullMQ gave up after stalling is never counted.
Exhausted(f) ==
  /\ job[f] = "failed" /\ tally[f] # "none" => tries[f] >= Attempts
  /\ counted[f] = "failed" => job[f] = "failed"

\* failedFiles counts a file only after its last attempt.
THEOREM FailuresAreExhausted == Spec => []FailedAfterLastAttempt
<1> DEFINE E == \A f \in File : Exhausted(f)
<1>1. Init => E
  BY DEF Init, Exhausted
<1>2. IInv /\ E /\ [Next]_vars => E'
  <2> SUFFICES ASSUME IInv, E, [Next]_vars, NEW g \in File PROVE Exhausted(g)'
    OBVIOUS
  <2> USE DEF Exhausted, clientVars, jobVars, ledgerVars, faultVars, IInv, TypeOK
  <2>1. ASSUME NEW b \in Batch, CreateBatch(b) PROVE Exhausted(g)'
    BY <2>1 DEF CreateBatch
  <2>2. ASSUME NEW f \in File, RequestStep(f) \/ RequestFails(f) PROVE Exhausted(g)'
    <3>1. job[f] = "none" /\ counted' = counted /\ tries' = tries
      BY <2>2 DEF RequestStep, Check, Transfer, CompleteLookup, CompleteInsert,
         CompleteEnqueue, RequestFails, InFlight, Progress
    <3>2. /\ g # f => job'[g] = job[g] /\ tally'[g] = tally[g]
          /\ job'[f] # "failed"
      BY <2>2, <3>1 DEF RequestStep, Check, CheckNew, CheckSkip, CheckKeep, Transfer,
         CompleteLookup, CompleteInsert, CompleteEnqueue, RequestFails
    <3>3. QED
      BY <3>1, <3>2
  <2>3. ASSUME NEW f \in File, JobStep(f) \/ DatabaseFails(f) PROVE Exhausted(g)'
    <3>1. job[f] \notin Finished /\ counted' = counted
      BY <2>3 DEF JobStep, DatabaseFails, EndAttempt, PickJob, GuardReady, GuardPass,
         BeginWork, Publish, LinkDone, Throw, AttemptFails, Active, Finished
    <3>2. /\ g # f => job'[g] = job[g] /\ tally'[g] = tally[g] /\ tries'[g] = tries[g]
          /\ job'[f] = "failed" => tries'[f] >= Attempts
      BY <2>3, <3>1, PipelineAssumption DEF JobStep, DatabaseFails, EndAttempt, FinishJob,
         PickJob, GuardReady, GuardPass, BeginWork, Publish, LinkDone, Throw,
         AttemptFails, Active, Finished, PipelineAssumption
    <3>3. QED
      BY <3>1, <3>2 DEF Finished
  <2>4. ASSUME NEW f \in File, TallyStep(f) PROVE Exhausted(g)'
    BY <2>4 DEF TallyStep, Count, Column, ReadBatch, WriteVerdict
  <2>5. CASE WorkerCrash
    BY <2>5 DEF WorkerCrash, Active, Counting, Progress, Finished
  <2>6. CASE UNCHANGED vars
    BY <2>6 DEF vars
  <2>7. QED
    BY <2>1, <2>2, <2>3, <2>4, <2>5, <2>6 DEF Next
<1>3. IInv /\ E => FailedAfterLastAttempt
  BY DEF FailedAfterLastAttempt, Exhausted, IInv, Progress
<1>4. QED
  BY <1>1, <1>2, <1>3, Invariance, PTL DEF Spec

------------------------------------------------------------------------------
(* Assets and their jobs.                                                  *)

\* Until its /complete has inserted it, a file has no row and resolves to
\* itself; a job, or a handler about to add one, has a row to work on.
Fresh == {"idle", "queued", "transfer", "complete", "insert"}
RowKnown(f) ==
  /\ upload[f] \in Fresh => asset[f] = "none" /\ target[f] = f
  /\ upload[f] = "enqueue" \/ job[f] # "none" => asset[target[f]] # "none"
Rows == \A f \in File : RowKnown(f)

\* What a step does to the rows, the jobs and their targets: f is the file it
\* is about.  A target is chosen before there is a job.
LEMMA RequestEffect ==
  ASSUME IInv, Rows, NEW f \in File, RequestStep(f) \/ RequestFails(f)
  PROVE  /\ job[f] = "none"
         /\ \A g \in File : g # f => job'[g] = job[g] /\ target'[g] = target[g] /\ upload'[g] = upload[g]
         /\ \/ asset' = asset
            \/ asset' = [asset EXCEPT ![f] = "pending"] /\ asset[f] = "none" /\ target'[f] = f
         /\ \/ upload'[f] = "enqueue" /\ asset'[target'[f]] # "none" /\ job'[f] = "none"
            \/ upload'[f] \in Fresh /\ target'[f] = f /\ asset'[f] = "none" /\ job'[f] = "none"
            \/ upload'[f] \in {"skip", "dedup", "error"} /\ job'[f] = "none"
            \/ /\ upload[f] = "enqueue" /\ upload'[f] = "processing" /\ job'[f] = "waiting"
               /\ target'[f] = target[f]
<1> USE DEF clientVars, jobVars, ledgerVars, faultVars, IInv, TypeOK, Rows, RowKnown, Fresh
<1>1. job[f] = "none"
  BY DEF RequestStep, Check, Transfer, CompleteLookup, CompleteInsert, CompleteEnqueue,
     RequestFails, InFlight, Progress
<1>2. CASE Check(f)
  BY <1>1, <1>2 DEF Check, CheckNew, CheckSkip, CheckKeep
<1>3. CASE Transfer(f) \/ CompleteInsert(f) \/ CompleteEnqueue(f)
  BY <1>1, <1>3 DEF Transfer, CompleteInsert, CompleteEnqueue
<1>4. CASE CompleteLookup(f)
  BY <1>1, <1>4 DEF CompleteLookup, Matches
<1>5. CASE RequestFails(f)
  BY <1>1, <1>5 DEF RequestFails
<1> QED BY <1>2, <1>3, <1>4, <1>5 DEF RequestStep

LEMMA JobEffect ==
  ASSUME IInv, NEW f \in File, JobStep(f) \/ DatabaseFails(f)
  PROVE  /\ UNCHANGED <<upload, target>>
         /\ \E s \in JobState \ {"none"} : job' = [job EXCEPT ![f] = s]
         /\ job[f] \in Active \cup {"waiting"}
         /\ \/ asset' = asset
            \/ \E s \in AssetStatus \ {"none", "pending"} : asset' = [asset EXCEPT ![target[f]] = s]
<1> USE DEF clientVars, jobVars, ledgerVars, faultVars, JobState, Active, AssetStatus
<1>1. CASE JobStep(f)
  BY <1>1 DEF JobStep, PickJob, GuardReady, GuardPass, BeginWork, Publish, LinkDone, Throw,
     AttemptFails, EndAttempt, FinishJob, SetAsset
<1>2. CASE DatabaseFails(f)
  BY <1>2 DEF DatabaseFails, EndAttempt
<1> QED BY <1>1, <1>2

LEMMA CrashEffect ==
  ASSUME IInv, WorkerCrash
  PROVE  /\ UNCHANGED <<upload, target, asset, errors>>
         /\ \A f \in File : IF job[f] \in Active THEN job'[f] \in {"waiting", "failed"} ELSE job'[f] = job[f]
BY DEF WorkerCrash, clientVars, ledgerVars

LEMMA TallyEffect ==
  ASSUME NEW f \in File, TallyStep(f)
  PROVE  UNCHANGED <<upload, target, asset, job, stalls, errors, crashes>>
BY DEF TallyStep, Count, ReadBatch, WriteVerdict, clientVars, jobVars, faultVars

LEMMA CreateEffect ==
  ASSUME IInv, NEW b \in Batch, CreateBatch(b)
  PROVE  /\ UNCHANGED <<target, asset, job, stalls, crashes>>
         /\ \A f \in File : upload'[f] = upload[f] \/ (upload[f] = "idle" /\ upload'[f] \in {"queued", "error"})
         /\ errors' \in {errors, errors + 1}
<1>1. \A f \in FilesIn(b) : upload[f] = "idle"
  BY DEF CreateBatch, IInv, Progress, FilesIn
<1> QED BY <1>1 DEF CreateBatch, jobVars

LEMMA RowsStep == IInv /\ Rows /\ [Next]_vars => Rows'
<1> SUFFICES ASSUME IInv, Rows, [Next]_vars PROVE Rows'
  OBVIOUS
<1> USE DEF Rows, RowKnown
<1>1. ASSUME NEW b \in Batch, CreateBatch(b) PROVE Rows'
  BY <1>1, CreateEffect DEF Fresh
<1>2. ASSUME NEW f \in File, RequestStep(f) \/ RequestFails(f) PROVE Rows'
  <2>1. \A g \in File : asset'[g] # asset[g] => g = f /\ asset'[g] # "none" /\ target'[f] = f /\ upload'[f] \notin Fresh
    BY <1>2, RequestEffect DEF Fresh, IInv, TypeOK
  <2>2. RowKnown(f)'
    BY <1>2, <2>1, RequestEffect DEF Fresh, IInv, TypeOK
  <2>3. ASSUME NEW g \in File, g # f PROVE RowKnown(g)'
    BY <1>2, <2>1, <2>3, RequestEffect DEF Fresh, IInv, TypeOK
  <2> QED BY <2>2, <2>3
<1>3. ASSUME NEW f \in File, JobStep(f) \/ DatabaseFails(f) PROVE Rows'
  <2>1. /\ UNCHANGED <<upload, target>> /\ job[f] # "none" /\ target[f] \in File
        /\ \A g \in File : job'[g] # "none" => job[g] # "none"
        /\ asset[target[f]] # "none" /\ upload[target[f]] \notin Fresh
    BY <1>3, JobEffect DEF IInv, TypeOK, Active
  <2>2. \A g \in File : asset'[g] = asset[g] \/ (g = target[f] /\ asset'[g] # "none")
    BY <1>3, <2>1, JobEffect DEF IInv, TypeOK
  <2> QED BY <2>1, <2>2 DEF IInv, TypeOK
<1>4. ASSUME NEW f \in File, TallyStep(f) PROVE Rows'
  BY <1>4, TallyEffect
<1>5. CASE WorkerCrash
  BY <1>5, CrashEffect DEF Active
<1>6. CASE UNCHANGED vars
  BY <1>6 DEF vars
<1> QED BY <1>1, <1>2, <1>3, <1>4, <1>5, <1>6 DEF Next

LEMMA RowsHold == Spec => []Rows
<1>1. Init => Rows
  BY DEF Init, Rows, RowKnown
<1> QED BY <1>1, RowsStep, Invariance, PTL DEF Spec

------------------------------------------------------------------------------
(* Completed jobs.                                                         *)

\* From Publish on, the only job of an asset leaves it ready.
AloneIsReady(a, f) == Jobs(a) = {f} /\ job[f] \in {"link", "completed"} => asset[a] = "ready"
Alone == \A a, f \in File : AloneIsReady(a, f)

\* Jobs of an asset are not forgotten, so one that is alone always was.
LEMMA AloneBefore ==
  ASSUME NEW a \in File, NEW f \in File, Jobs(a)' = {f},
         \A g \in File : job[g] # "none" => job'[g] # "none" /\ target'[g] = target[g]
  PROVE  Jobs(a) \subseteq {f}
BY DEF Jobs

\* A completed job means a ready asset, if the asset had no other job: also
\* after retries, stalls and failed statements between its attempts.
THEOREM CompletedIsReady == Spec => []CompletedMeansReady
<1>1. Init => Alone
  BY DEF Init, Alone, AloneIsReady
<1>2. IInv /\ Rows /\ Alone /\ [Next]_vars => Alone'
  <2> SUFFICES ASSUME IInv, Rows, Alone, [Next]_vars, NEW a \in File, NEW f \in File,
                      Jobs(a)' = {f}, job'[f] \in {"link", "completed"}
               PROVE  asset'[a] = "ready"
    BY DEF Alone, AloneIsReady
  <2>1. job'[f] # "none" /\ target'[f] = a
    BY DEF Jobs
  <2>2. CASE UNCHANGED <<asset, job, target>>
    BY <2>2 DEF Alone, AloneIsReady, Jobs
  <2>3. ASSUME NEW g \in File, RequestStep(g) \/ RequestFails(g) PROVE asset'[a] = "ready"
    <3>1. job[g] = "none" /\ g # f /\ job[f] = job'[f] /\ target'[f] = target[f]
      BY <2>3, RequestEffect
    <3>2. \A h \in File : job[h] # "none" => job'[h] # "none" /\ target'[h] = target[h]
      BY <2>3, RequestEffect
    <3>3. Jobs(a) = {f}
      BY <2>1, <3>1, <3>2, AloneBefore DEF Jobs
    <3>4. asset[a] = "ready"
      BY <3>1, <3>3 DEF Alone, AloneIsReady
    <3> QED BY <2>3, <3>4, RequestEffect DEF IInv, TypeOK
  <2>4. ASSUME NEW g \in File, JobStep(g) \/ DatabaseFails(g) PROVE asset'[a] = "ready"
    <3>1. UNCHANGED <<upload, target>> /\ job[g] # "none"
      BY <2>4, JobEffect DEF Active
    <3>2. \A h \in File : (job'[h] # "none" <=> job[h] # "none") /\ (h # g => job'[h] = job[h])
      BY <2>4, <3>1, JobEffect DEF IInv, TypeOK, Active
    <3>3. Jobs(a) = {f}
      BY <2>1, <3>1, <3>2 DEF Jobs
    <3>4. CASE g # f
      <4>1. target[g] # a /\ target[g] \in File
        BY <3>1, <3>3, <3>4 DEF Jobs, IInv, TypeOK
      <4>2. asset'[a] = asset[a]
        BY <2>4, <4>1, JobEffect DEF IInv, TypeOK
      <4> QED BY <3>2, <3>3, <3>4, <4>2 DEF Alone, AloneIsReady
    <3>5. CASE g = f
      <4>1. GuardReady(f) \/ Publish(f) \/ LinkDone(f)
        BY <2>4, <3>5 DEF JobStep, DatabaseFails, PickJob, GuardReady, GuardPass, BeginWork, Publish,
           LinkDone, Throw, AttemptFails, EndAttempt, FinishJob, IInv, TypeOK
      <4>2. CASE GuardReady(f)
        BY <2>1, <3>1, <4>2 DEF GuardReady
      <4>3. CASE Publish(f)
        BY <2>1, <3>1, <4>3 DEF Publish, SetAsset, IInv, TypeOK
      <4>4. CASE LinkDone(f)
        BY <3>3, <4>4 DEF LinkDone, Alone, AloneIsReady
      <4> QED BY <4>1, <4>2, <4>3, <4>4
    <3> QED BY <3>4, <3>5
  <2>5. CASE WorkerCrash
    <3>1. /\ job'[f] = job[f]
          /\ UNCHANGED <<asset, target>>
          /\ \A h \in File : job'[h] # "none" <=> job[h] # "none"
      BY <2>5, CrashEffect DEF Active
    <3>2. Jobs(a)' = Jobs(a)
      BY <3>1 DEF Jobs
    <3> QED BY <3>1, <3>2 DEF Alone, AloneIsReady
  <2> QED BY <2>2, <2>3, <2>4, <2>5, CreateEffect, TallyEffect DEF Next, vars
<1>3. Alone => CompletedMeansReady
  BY DEF Alone, AloneIsReady, CompletedMeansReady, Jobs
<1> QED BY <1>1, <1>2, <1>3, Invariance, RowsHold, PTL DEF Spec

------------------------------------------------------------------------------
(* Assets that are not settled.                                            *)

\* A job that has ended its work on an asset, but not itself, does not count:
\* it may leave the asset to another job in the middle of its own work.
AttendedBy(f, a) ==
  target[f] = a /\ (upload[f] = "enqueue" \/ job[f] \in {"waiting", "guard", "load", "work"})
Attended(a) == \E f \in File : AttendedBy(f, a)
Unsettled == {a \in File : asset[a] \in {"pending", "processing"}}
Spared == errors = 0 /\ crashes <= MaxStalls
Attendance ==
  /\ \A f \in File : stalls[f] <= crashes
  /\ Spared => \A a \in Unsettled : Attended(a)

\* As long as no request died and the worker died at most as often as BullMQ
\* gives a stalled job back, an asset that is not settled is somebody's business.
THEOREM NothingIsStranded == Spec => [](errors = 0 /\ crashes <= MaxStalls => NoStrandedAsset)
<1>1. Init => Attendance
  BY DEF Init, Attendance, Unsettled
<1>2. IInv /\ Rows /\ Attendance /\ [Next]_vars => Attendance'
  <2> SUFFICES ASSUME IInv, Rows, Attendance, [Next]_vars PROVE Attendance'
    OBVIOUS
  <2>1. \A f \in File : stalls[f] \in Nat /\ crashes \in Nat /\ errors \in Nat
    BY DEF IInv, TypeOK
  <2>2. \A f \in File : stalls'[f] <= crashes'
    <3>1. CASE WorkerCrash
      BY <2>1, <3>1 DEF WorkerCrash, Attendance
    <3>2. CASE UNCHANGED <<stalls, crashes>>
      BY <3>2 DEF Attendance
    <3> QED BY <3>1, <3>2, CreateEffect, TallyEffect DEF Next, vars, RequestStep, Check, Transfer,
       CompleteLookup, CompleteInsert, CompleteEnqueue, RequestFails, JobStep, DatabaseFails, EndAttempt,
       PickJob, GuardReady, GuardPass, BeginWork, Publish, LinkDone, Throw, AttemptFails, jobVars, faultVars
  <2>3. ASSUME Spared', NEW a \in Unsettled' PROVE Attended(a)'
    <3>1. Spared
      <4>1. errors' \in {errors, errors + 1} /\ crashes' \in {crashes, crashes + 1}
        BY CreateEffect, TallyEffect, CrashEffect DEF Next, vars, RequestStep, Check, Transfer,
           CompleteLookup, CompleteInsert, CompleteEnqueue, RequestFails, JobStep, DatabaseFails,
           PickJob, GuardReady, GuardPass, BeginWork, Publish, LinkDone, Throw, AttemptFails, WorkerCrash,
           faultVars
      <4>2. errors \in Nat /\ crashes \in Nat /\ MaxStalls \in Nat
        BY PipelineAssumption DEF PipelineAssumption, IInv, TypeOK
      <4> QED BY <2>3, <4>1, <4>2 DEF Spared
    <3>2. a \in File /\ (a \in Unsettled => Attended(a))
      BY <3>1 DEF Attendance, Unsettled
    <3>3. CASE UNCHANGED <<upload, asset, job, target>>
      BY <3>2, <3>3 DEF Attended, AttendedBy, Unsettled
    <3>4. ASSUME NEW b \in Batch, CreateBatch(b) PROVE Attended(a)'
      BY <3>2, <3>4, CreateEffect DEF Attended, AttendedBy, Unsettled
    <3>5. ASSUME NEW f \in File, RequestStep(f) PROVE Attended(a)'
      <4>1. CASE asset'[a] # asset[a]
        <5>1. asset' = [asset EXCEPT ![f] = "pending"] /\ target'[f] = f /\ upload'[f] = "enqueue"
          <6>1. asset' = [asset EXCEPT ![f] = "pending"] /\ target'[f] = f /\ asset'[f] # "none"
            BY <3>5, <4>1, RequestEffect DEF IInv, TypeOK
          <6>2. CompleteInsert(f)
            BY <3>5, <4>1 DEF RequestStep, Check, Transfer, CompleteLookup, CompleteEnqueue
          <6> QED BY <6>1, <6>2 DEF CompleteInsert, IInv, TypeOK
        <5>2. a = f
          BY <4>1, <5>1, <3>2 DEF IInv, TypeOK
        <5> QED BY <5>1, <5>2 DEF Attended, AttendedBy
      <4>2. CASE asset'[a] = asset[a]
        <5>1. PICK g \in File : AttendedBy(g, a)
          BY <3>2, <4>2 DEF Attended, AttendedBy, Unsettled
        <5>2. CASE g # f
          <6>1. job'[g] = job[g] /\ target'[g] = target[g] /\ upload'[g] = upload[g]
            BY <3>5, <5>2, RequestEffect
          <6> QED BY <5>1, <6>1 DEF Attended, AttendedBy
        <5>3. CASE g = f
          <6>1. CompleteEnqueue(f)
            BY <3>5, <5>1, <5>3, RequestEffect DEF AttendedBy, RequestStep, Check, Transfer, CompleteLookup, CompleteInsert,
               IInv, TypeOK, Progress
          <6>2. target'[f] = a /\ job'[f] = "waiting"
            BY <5>1, <5>3, <6>1 DEF AttendedBy, CompleteEnqueue, IInv, TypeOK
          <6> QED BY <6>2 DEF Attended, AttendedBy
        <5> QED BY <5>2, <5>3
      <4> QED BY <4>1, <4>2
    <3>6. ASSUME NEW f \in File, RequestFails(f) \/ DatabaseFails(f) PROVE FALSE
      BY <2>1, <2>3, <3>1, <3>6 DEF RequestFails, DatabaseFails, Spared
    <3>7. ASSUME NEW f \in File, JobStep(f) PROVE Attended(a)'
      <4>1. UNCHANGED <<upload, target>>
        BY <3>7, JobEffect
      <4>2. CASE target[f] = a /\ job'[f] \in {"waiting", "guard", "load", "work"}
        BY <4>1, <4>2 DEF Attended, AttendedBy
      <4>3. CASE target[f] = a /\ job'[f] \notin {"waiting", "guard", "load", "work"}
        <5>1. job[f] \notin {"waiting", "load"} /\ asset'[a] = asset[a]
          BY <2>3, <3>7, <4>3 DEF JobStep, PickJob, GuardReady, GuardPass, BeginWork, Publish, LinkDone, Throw,
             AttemptFails, EndAttempt, FinishJob, SetAsset, Unsettled, IInv, TypeOK
        <5>2. job[f] \notin {"guard", "work"}
          BY <2>3, <3>7, <4>3, <5>1 DEF JobStep, PickJob, GuardReady, GuardPass, BeginWork, Publish, LinkDone,
             Throw, AttemptFails, EndAttempt, FinishJob, SetAsset, Unsettled, IInv, TypeOK
        <5>3. PICK g \in File : AttendedBy(g, a)
          BY <2>3, <3>2, <5>1 DEF Attended, AttendedBy, Unsettled
        <5>4. upload[g] = "enqueue" \/ g # f
          BY <5>1, <5>2, <5>3 DEF AttendedBy
        <5>5. g # f => job'[g] = job[g]
          BY <3>7, JobEffect DEF IInv, TypeOK
        <5>6. target'[g] = a /\ (upload'[g] = "enqueue" \/ job'[g] \in {"waiting", "guard", "load", "work"})
          BY <4>1, <5>3, <5>4, <5>5 DEF AttendedBy
        <5> QED BY <5>6 DEF Attended, AttendedBy
      <4>4. CASE target[f] # a
        <5>1. asset'[a] = asset[a] /\ \A g \in File : g # f => job'[g] = job[g]
          BY <3>2, <3>7, <4>4, JobEffect DEF IInv, TypeOK
        <5> QED BY <2>3, <3>2, <4>1, <4>4, <5>1 DEF Attended, AttendedBy, Unsettled
      <4> QED BY <4>2, <4>3, <4>4
    <3>8. CASE WorkerCrash
      <4>1. \A g \in File : job[g] \in Active => job'[g] = "waiting"
        BY <2>1, <2>3, <3>8, PipelineAssumption DEF WorkerCrash, Attendance, Spared, PipelineAssumption
      <4>2. \A g \in File : job[g] \notin Active => job'[g] = job[g]
        BY <3>8, CrashEffect
      <4>3. Attended(a)
        BY <2>3, <3>2, <3>8, CrashEffect DEF Unsettled
      <4> QED BY <3>8, <4>1, <4>2, <4>3, CrashEffect DEF Attended, AttendedBy, Active
    <3> QED BY <3>3, <3>4, <3>5, <3>6, <3>7, <3>8, TallyEffect DEF Next, vars
  <2> QED BY <2>2, <2>3 DEF Attendance
<1>3. Attendance => (errors = 0 /\ crashes <= MaxStalls => NoStrandedAsset)
  BY DEF Attendance, Spared, Unsettled, Attended, AttendedBy, NoStrandedAsset, Active
<1> QED BY <1>1, <1>2, <1>3, Invariance, RowsHold, PTL DEF Spec
==============================================================================
