---------------------------- MODULE WatermarkProofs ----------------------------
(***************************************************************************)
(* What holds of WatermarkJobs for every number of assets, copies,         *)
(* galleries, marks, variants, requests, attempts and faults.              *)
(***************************************************************************)
EXTENDS WatermarkJobs, TLAPS

(***************************************************************************)
(* What a request under way holds: only one that enqueues has galleries    *)
(* to read, and one that has yet to read a gallery's mark holds items of   *)
(* that gallery only.                                                      *)
(***************************************************************************)
Requests == \A r \in Request :
  /\ request[r].at \in {"free", "galleries", "file"} => request[r].read = {} /\ request[r].add = {}
  /\ request[r].at = "free" => request[r] = Free
  /\ request[r].at = "mark" =>
       /\ request[r].read = {}
       /\ \A g, h \in Gallery, a, b \in Asset :
            <<g, a>> \in request[r].add /\ <<h, b>> \in request[r].add => g = h
  /\ request[r].at \in {"items", "galleries"} => request[r].mark \in Mark

\* A gallery's mark has a row.
Assigned == \A g \in Gallery : assigned[g] \in marks \cup {NoMark}

\* A run has rendered what it does not have left, with the setting it saw; a row
\* has a copy, and only an asset that was ready has got that far.
Rendered ==
  /\ run # NoRun /\ run.at # "write" => run.left = Variant
  /\ run # NoRun /\ run.at # "begin" => run.job.asset \in ready
  /\ run # NoRun /\ run.at = "write" =>
       \A v \in Variant \ run.left :
         /\ <<run.job.asset, v>> \in rows
         /\ stamp[ContentOf[run.job.asset]][v] = [mark |-> run.job.mark, setting |-> run.seen]
  /\ \A a \in Asset, v \in Variant :
       <<a, v>> \in rows => a \in ready /\ stamp[ContentOf[a]][v] # Clean

Shape == Requests /\ Assigned /\ Rendered

\* A job for asset a waits or runs.
Waits(a)   == \E j \in Job : waiting[j] > 0 /\ j.asset = a
Runs(a)    == run # NoRun /\ run.job.asset = a
Pending(a) == Waits(a) \/ Runs(a)

(***************************************************************************)
(* An item of a gallery with a mark has its copies, or a job for it is     *)
(* pending, or a request is going to enqueue one.                          *)
(***************************************************************************)
Coming(g, a) == \E r \in Request : <<g, a>> \in request[r].add \/ g \in request[r].read

Covered == \A g \in Gallery, a \in Asset :
  (<<g, a>> \in items /\ assigned[g] # NoMark /\ a \notin Excused)
    => (\A v \in Variant : <<a, v>> \in rows) \/ Pending(a) \/ Coming(g, a)

(***************************************************************************)
(* If copies made with a mark have, or are about to have, a setting that   *)
(* is not current, a job for that mark will run or has only just read its  *)
(* setting, for every item of a gallery with that mark.  Outdated and      *)
(* Renews take the variables they are about (the copies, the run, the      *)
(* settings, the waiting jobs), so that a proof can name their next state. *)
(***************************************************************************)
Outdated(s, n, t, c, w) ==
  \/ \E v \in Variant : s[c][v] # Clean /\ s[c][v].mark = w /\ s[c][v].setting # t[w]
  \/ /\ n # NoRun /\ n.at # "begin"
     /\ ContentOf[n.job.asset] = c /\ n.job.mark = w
     /\ n.seen # t[w]

\* A waiting job, the run, or a request will render a with what w is now.
Renews(k, n, t, a, w) ==
  \/ \E j \in Job : k[j] > 0 /\ j.asset = a /\ j.mark = w
  \/ /\ n # NoRun /\ n.job.asset = a /\ n.job.mark = w
     /\ n.at = "begin" \/ n.seen = t[w]

Promises(q, g, a, w) ==
  \/ q.at = "mark" /\ <<g, a>> \in q.add
  \/ /\ q.at = "items" /\ q.mark = w
     /\ <<g, a>> \in q.add \/ g \in q.read
  \/ q.at = "galleries" /\ q.mark = w

Freshened == \A g \in Gallery, a \in Asset :
  (<<g, a>> \in items /\ assigned[g] # NoMark /\ a \notin Excused
     /\ Outdated(stamp, run, setting, ContentOf[a], assigned[g]))
    => \/ Renews(waiting, run, setting, a, assigned[g])
       \/ \E r \in Request : Promises(request[r], g, a, assigned[g])

(***************************************************************************)
(* Copies of a content that do not agree, and copies of an asset that are  *)
(* not all there, belong to a pending or a reported job of a ready asset.  *)
(***************************************************************************)
Mended(c) == \E b \in Asset :
  ContentOf[b] = c /\ (b \in reported \/ (b \in ready /\ Pending(b)))

Agreed ==
  /\ \A c \in Content, u, v \in Variant : stamp[c][u] # stamp[c][v] => Mended(c)
  /\ \A a \in Asset, u, v \in Variant :
       <<a, u>> \in rows /\ <<a, v>> \notin rows => a \in reported \/ Pending(a)

LEMMA TypeInit == ASSUME WatermarkAssumption, Init PROVE TypeOK
  BY DEF WatermarkAssumption, Init, TypeOK, Free, NoRun, Doing

(***************************************************************************)
(* An attempt that ends without its copies puts a job for the same asset   *)
(* and mark back, or the asset is reported.                                *)
(***************************************************************************)
Returned(j) ==
  \/ \E k \in Job : /\ k.asset = j.asset /\ k.mark = j.mark
                    /\ waiting' = [waiting EXCEPT ![k] = @ + 1]
                    /\ UNCHANGED reported
  \/ reported' = reported \cup {j.asset} /\ UNCHANGED waiting

LEMMA RetryReturns ==
  ASSUME WatermarkAssumption, NEW j \in Job, Retry(j) PROVE Returned(j)
<1>1. CASE j.tries + 1 < Attempts
  <2> DEFINE k == [j EXCEPT !.tries = @ + 1]
  <2>1. k \in Job /\ k.asset = j.asset /\ k.mark = j.mark
    BY <1>1 DEF Job, WatermarkAssumption
  <2>2. waiting' = [waiting EXCEPT ![k] = @ + 1] /\ UNCHANGED reported
    BY <1>1 DEF Retry, TryAgain
  <2> HIDE DEF k
  <2>3. QED
    BY <2>1, <2>2 DEF Returned
<1>2. CASE ~(j.tries + 1 < Attempts)
  BY <1>2 DEF Retry, Abandon, Returned
<1>3. QED
  BY <1>1, <1>2

LEMMA Ends ==
  ASSUME WatermarkAssumption, TypeOK, JobThrows \/ JobFails \/ WorkerDies
  PROVE  /\ run # NoRun /\ run \in Running /\ run.job \in Job /\ run' = NoRun
         /\ UNCHANGED <<galleryVars, ready, request, rows, stamp, skipped, asked>>
         /\ Returned(run.job)
         /\ faults' \in Nat
<1>1. /\ run # NoRun /\ run' = NoRun
      /\ UNCHANGED <<galleryVars, ready, request, rows, stamp, skipped, asked>>
      /\ faults' \in Nat
  BY DEF JobThrows, JobFails, WorkerDies, Fault, NoRun, TypeOK
<1>2. run \in Running /\ run.job \in Job
  BY <1>1 DEF TypeOK, Running
<1>3. CASE JobThrows \/ JobFails
  BY <1>1, <1>2, <1>3, RetryReturns DEF JobThrows, JobFails
<1>4. CASE WorkerDies
  <2>1. CASE run.job.stalled
    BY <1>1, <1>2, <1>4, <2>1 DEF WorkerDies, Abandon, Returned
  <2>2. CASE ~run.job.stalled
    <3> DEFINE k == [run.job EXCEPT !.stalled = TRUE]
    <3>1. k \in Job /\ k.asset = run.job.asset /\ k.mark = run.job.mark
      BY <1>2 DEF Job
    <3>2. waiting' = [waiting EXCEPT ![k] = @ + 1] /\ UNCHANGED reported
      BY <1>4, <2>2 DEF WorkerDies, TryAgain
    <3> HIDE DEF k
    <3>3. QED
      BY <1>1, <1>2, <3>1, <3>2 DEF Returned
  <2>3. QED
    BY <2>1, <2>2
<1>5. QED
  BY <1>3, <1>4

LEMMA TypeStep == ASSUME WatermarkAssumption, TypeOK, [Next]_vars PROVE TypeOK'
<1> USE WatermarkAssumption DEF TypeOK, WatermarkAssumption
<1>1. ASSUME NEW r \in Request, NEW g \in Gallery, ReadMark(r, g) PROVE TypeOK'
  BY <1>1 DEF ReadMark, galleryVars, copyVars, Begin, Asking, Go, Free, Enqueuing, Doing, Fault, ItemsOf, Affected, Added, Owes
<1>2. ASSUME NEW r \in Request, NEW g \in Gallery, ReadItems(r, g) PROVE TypeOK'
  BY <1>2 DEF ReadItems, galleryVars, copyVars, Begin, Asking, Go, Free, Enqueuing, Doing, Fault, ItemsOf, Affected, Added, Owes
<1>3. ASSUME NEW r \in Request, NEW g \in Gallery, AddBulk(r, g) PROVE TypeOK'
  BY <1>3 DEF AddBulk, galleryVars, copyVars, Begin, Asking, Go, Free, Enqueuing, Doing, Fault, ItemsOf, Affected, Added, Owes
<1>4. ASSUME NEW r \in Request, ReadGalleries(r) PROVE TypeOK'
  BY <1>4 DEF ReadGalleries, galleryVars, copyVars, Begin, Asking, Go, Free, Enqueuing, Doing, Fault, ItemsOf, Affected, Added, Owes
<1>5. ASSUME NEW r \in Request, DeleteFile(r) PROVE TypeOK'
  BY <1>5 DEF DeleteFile, galleryVars, copyVars, Begin, Asking, Go, Free, Enqueuing, Doing, Fault, ItemsOf, Affected, Added, Owes
<1>6. ASSUME NEW r \in Request, NEW g \in Gallery, NEW A \in (SUBSET Asset) \ {{}}, AddItems(r, g, A) PROVE TypeOK'
  BY <1>6 DEF AddItems, galleryVars, copyVars, Begin, Asking, Go, Free, Enqueuing, Doing, Fault, ItemsOf, Affected, Added, Owes
<1>7. ASSUME NEW r \in Request, NEW g \in Gallery, NEW w \in Mark, AssignMark(r, g, w) PROVE TypeOK'
  BY <1>7 DEF AssignMark, galleryVars, copyVars, Begin, Asking, Go, Free, Enqueuing, Doing, Fault, ItemsOf, Affected, Added, Owes
<1>8. ASSUME NEW r \in Request, NEW w \in Mark, EditMark(r, w) PROVE TypeOK'
  BY <1>8 DEF EditMark, galleryVars, copyVars, Begin, Asking, Go, Free, Enqueuing, Doing, Fault, ItemsOf, Affected, Added, Owes
<1>9. ASSUME NEW r \in Request, NEW w \in Mark, DeleteMark(r, w) PROVE TypeOK'
  BY <1>9 DEF DeleteMark, galleryVars, copyVars, Begin, Asking, Go, Free, Enqueuing, Doing, Fault, ItemsOf, Affected, Added, Owes
<1>10. ASSUME NEW r \in Request, RequestDies(r) PROVE TypeOK'
  BY <1>10 DEF RequestDies, galleryVars, copyVars, Begin, Asking, Go, Free, Enqueuing, Doing, Fault, ItemsOf, Affected, Added, Owes
<1>11. ASSUME NEW g \in Gallery, NEW a \in Asset, RemoveItem(g, a) PROVE TypeOK'
  BY <1>11 DEF RemoveItem, galleryVars, copyVars, Asking
<1>12. ASSUME NEW g \in Gallery, ClearMark(g) PROVE TypeOK'
  BY <1>12 DEF ClearMark, galleryVars, copyVars, Asking
<1>13. ASSUME NEW a \in Asset, Ingested(a) PROVE TypeOK'
  BY <1>13 DEF Ingested, galleryVars, copyVars, Asking
<1>14. ASSUME NEW j \in Job, TakeJob(j) PROVE TypeOK'
  <2>1. [at |-> "begin", job |-> j, seen |-> 0, left |-> Variant] \in Running
    BY DEF Running
  <2>2. QED
    BY <1>14, <2>1 DEF TakeJob, At, galleryVars, copyVars
<1>15. ASSUME SkipJob PROVE TypeOK'
  BY <1>15 DEF SkipJob, galleryVars, copyVars, Fault, At, Retry, TryAgain, Abandon, Running, NoRun, Job, Stamp
<1>16. ASSUME ReadSetting PROVE TypeOK'
  BY <1>16 DEF ReadSetting, galleryVars, copyVars, Fault, At, Retry, TryAgain, Abandon, Running, NoRun, Job, Stamp
<1>17. ASSUME LoadFile PROVE TypeOK'
  BY <1>17 DEF LoadFile, galleryVars, copyVars, Fault, At, Retry, TryAgain, Abandon, Running, NoRun, Job, Stamp
<1>18. ASSUME NEW v \in Variant, WriteCopy(v) PROVE TypeOK'
  BY <1>18 DEF WriteCopy, galleryVars, copyVars, Fault, At, Retry, TryAgain, Abandon, Running, NoRun, Job, Stamp
<1>19. ASSUME JobThrows PROVE TypeOK'
  <2>1. run.job.asset \in Asset
    BY <1>19, Ends DEF Job
  <2>2. QED
    BY <1>19, <2>1, Ends DEF Returned, galleryVars
<1>20. ASSUME JobFails PROVE TypeOK'
  <2>1. run.job.asset \in Asset
    BY <1>20, Ends DEF Job
  <2>2. QED
    BY <1>20, <2>1, Ends DEF Returned, galleryVars
<1>21. ASSUME WorkerDies PROVE TypeOK'
  <2>1. run.job.asset \in Asset
    BY <1>21, Ends DEF Job
  <2>2. QED
    BY <1>21, <2>1, Ends DEF Returned, galleryVars
<1>22. CASE UNCHANGED vars
  BY <1>22 DEF vars, galleryVars, copyVars
<1>23. QED
  BY <1>1, <1>2, <1>3, <1>4, <1>5, <1>6, <1>7, <1>8, <1>9, <1>10, <1>11, <1>12, <1>13, <1>14, <1>15, <1>16, <1>17, <1>18, <1>19, <1>20, <1>21, <1>22
     DEF Next, RequestStep, Studio, WorkerStep

\* Requests, jobs and copies stay in the states the code has.
THEOREM TypeCorrect == ASSUME WatermarkAssumption PROVE Spec => []TypeOK
  BY TypeInit, TypeStep, PTL DEF Spec

LEMMA RequestsStep ==
  ASSUME WatermarkAssumption, TypeOK, Requests, Assigned, [Next]_vars PROVE Requests'
<1>1. ASSUME NEW r \in Request, NEW g \in Gallery, ReadMark(r, g) PROVE Requests'
  BY <1>1 DEF ReadMark, galleryVars, copyVars, Begin, Asking, Go, Free, Enqueuing, Doing, Fault, ItemsOf, Affected, Added, Owes, Requests, TypeOK, WatermarkAssumption
<1>2. ASSUME NEW r \in Request, NEW g \in Gallery, ReadItems(r, g) PROVE Requests'
  BY <1>2 DEF ReadItems, galleryVars, copyVars, Begin, Asking, Go, Free, Enqueuing, Doing, Fault, ItemsOf, Affected, Added, Owes, Requests, TypeOK, WatermarkAssumption
<1>3. ASSUME NEW r \in Request, NEW g \in Gallery, AddBulk(r, g) PROVE Requests'
  BY <1>3 DEF AddBulk, galleryVars, copyVars, Begin, Asking, Go, Free, Enqueuing, Doing, Fault, ItemsOf, Affected, Added, Owes, Requests, TypeOK, WatermarkAssumption
<1>4. ASSUME NEW r \in Request, ReadGalleries(r) PROVE Requests'
  BY <1>4 DEF ReadGalleries, galleryVars, copyVars, Begin, Asking, Go, Free, Enqueuing, Doing, Fault, ItemsOf, Affected, Added, Owes, Requests, TypeOK, WatermarkAssumption
<1>5. ASSUME NEW r \in Request, DeleteFile(r) PROVE Requests'
  BY <1>5 DEF DeleteFile, galleryVars, copyVars, Begin, Asking, Go, Free, Enqueuing, Doing, Fault, ItemsOf, Affected, Added, Owes, Requests, TypeOK, WatermarkAssumption
<1>6. ASSUME NEW r \in Request, NEW g \in Gallery, NEW A \in (SUBSET Asset) \ {{}}, AddItems(r, g, A) PROVE Requests'
  BY <1>6 DEF AddItems, galleryVars, copyVars, Begin, Asking, Go, Free, Enqueuing, Doing, Fault, ItemsOf, Affected, Added, Owes, Requests, TypeOK, WatermarkAssumption
<1>7. ASSUME NEW r \in Request, NEW g \in Gallery, NEW w \in Mark, AssignMark(r, g, w) PROVE Requests'
  BY <1>7 DEF AssignMark, galleryVars, copyVars, Begin, Asking, Go, Free, Enqueuing, Doing, Fault, ItemsOf, Affected, Added, Owes, Requests, TypeOK, WatermarkAssumption
<1>8. ASSUME NEW r \in Request, NEW w \in Mark, EditMark(r, w) PROVE Requests'
  BY <1>8 DEF EditMark, galleryVars, copyVars, Begin, Asking, Go, Free, Enqueuing, Doing, Fault, ItemsOf, Affected, Added, Owes, Requests, TypeOK, WatermarkAssumption
<1>9. ASSUME NEW r \in Request, NEW w \in Mark, DeleteMark(r, w) PROVE Requests'
  BY <1>9 DEF DeleteMark, galleryVars, copyVars, Begin, Asking, Go, Free, Enqueuing, Doing, Fault, ItemsOf, Affected, Added, Owes, Requests, TypeOK, WatermarkAssumption
<1>10. ASSUME NEW r \in Request, RequestDies(r) PROVE Requests'
  BY <1>10 DEF RequestDies, galleryVars, copyVars, Begin, Asking, Go, Free, Enqueuing, Doing, Fault, ItemsOf, Affected, Added, Owes, Requests, TypeOK, WatermarkAssumption
<1>11. ASSUME NEW g \in Gallery, NEW a \in Asset, RemoveItem(g, a) PROVE Requests'
  BY <1>11 DEF RemoveItem, Requests
<1>12. ASSUME NEW g \in Gallery, ClearMark(g) PROVE Requests'
  BY <1>12 DEF ClearMark, Requests
<1>13. ASSUME NEW a \in Asset, Ingested(a) PROVE Requests'
  BY <1>13 DEF Ingested, Requests
<1>14. ASSUME NEW j \in Job, TakeJob(j) PROVE Requests'
  BY <1>14 DEF TakeJob, Requests
<1>15. ASSUME SkipJob PROVE Requests'
  BY <1>15 DEF SkipJob, Requests
<1>16. ASSUME ReadSetting PROVE Requests'
  BY <1>16 DEF ReadSetting, Requests
<1>17. ASSUME LoadFile PROVE Requests'
  BY <1>17 DEF LoadFile, Requests
<1>18. ASSUME NEW v \in Variant, WriteCopy(v) PROVE Requests'
  BY <1>18 DEF WriteCopy, Requests
<1>19. ASSUME JobThrows PROVE Requests'
  BY <1>19, Ends DEF Requests
<1>20. ASSUME JobFails PROVE Requests'
  BY <1>20, Ends DEF Requests
<1>21. ASSUME WorkerDies PROVE Requests'
  BY <1>21, Ends DEF Requests
<1>22. CASE UNCHANGED vars
  BY <1>22 DEF vars, galleryVars, copyVars, Requests
<1>23. QED
  BY <1>1, <1>2, <1>3, <1>4, <1>5, <1>6, <1>7, <1>8, <1>9, <1>10, <1>11, <1>12, <1>13, <1>14, <1>15, <1>16, <1>17, <1>18, <1>19, <1>20, <1>21, <1>22
     DEF Next, RequestStep, Studio, WorkerStep

LEMMA AssignedStep ==
  ASSUME WatermarkAssumption, TypeOK, Assigned, [Next]_vars PROVE Assigned'
<1>1. ASSUME NEW r \in Request, NEW g \in Gallery, ReadMark(r, g) PROVE Assigned'
  BY <1>1 DEF ReadMark, galleryVars, Assigned
<1>2. ASSUME NEW r \in Request, NEW g \in Gallery, ReadItems(r, g) PROVE Assigned'
  BY <1>2 DEF ReadItems, galleryVars, Assigned
<1>3. ASSUME NEW r \in Request, NEW g \in Gallery, AddBulk(r, g) PROVE Assigned'
  BY <1>3 DEF AddBulk, galleryVars, Assigned
<1>4. ASSUME NEW r \in Request, ReadGalleries(r) PROVE Assigned'
  BY <1>4 DEF ReadGalleries, galleryVars, Assigned
<1>5. ASSUME NEW r \in Request, DeleteFile(r) PROVE Assigned'
  BY <1>5 DEF DeleteFile, galleryVars, Assigned
<1>6. ASSUME NEW r \in Request, NEW g \in Gallery, NEW A \in (SUBSET Asset) \ {{}}, AddItems(r, g, A) PROVE Assigned'
  BY <1>6 DEF AddItems, galleryVars, Assigned
<1>7. ASSUME NEW r \in Request, NEW g \in Gallery, NEW w \in Mark, AssignMark(r, g, w) PROVE Assigned'
  BY <1>7 DEF AssignMark, Assigned, TypeOK, WatermarkAssumption
<1>8. ASSUME NEW r \in Request, NEW w \in Mark, EditMark(r, w) PROVE Assigned'
  BY <1>8 DEF EditMark, galleryVars, Assigned
<1>9. ASSUME NEW r \in Request, NEW w \in Mark, DeleteMark(r, w) PROVE Assigned'
  BY <1>9 DEF DeleteMark, Assigned, TypeOK, WatermarkAssumption
<1>10. ASSUME NEW r \in Request, RequestDies(r) PROVE Assigned'
  BY <1>10 DEF RequestDies, galleryVars, Assigned
<1>11. ASSUME NEW g \in Gallery, NEW a \in Asset, RemoveItem(g, a) PROVE Assigned'
  BY <1>11 DEF RemoveItem, galleryVars, Assigned
<1>12. ASSUME NEW g \in Gallery, ClearMark(g) PROVE Assigned'
  BY <1>12 DEF ClearMark, Assigned, TypeOK, WatermarkAssumption
<1>13. ASSUME NEW a \in Asset, Ingested(a) PROVE Assigned'
  BY <1>13 DEF Ingested, galleryVars, Assigned
<1>14. ASSUME NEW j \in Job, TakeJob(j) PROVE Assigned'
  BY <1>14 DEF TakeJob, galleryVars, Assigned
<1>15. ASSUME SkipJob PROVE Assigned'
  BY <1>15 DEF SkipJob, galleryVars, Assigned
<1>16. ASSUME ReadSetting PROVE Assigned'
  BY <1>16 DEF ReadSetting, galleryVars, Assigned
<1>17. ASSUME LoadFile PROVE Assigned'
  BY <1>17 DEF LoadFile, galleryVars, Assigned
<1>18. ASSUME NEW v \in Variant, WriteCopy(v) PROVE Assigned'
  BY <1>18 DEF WriteCopy, galleryVars, Assigned
<1>19. ASSUME JobThrows PROVE Assigned'
  BY <1>19, Ends DEF Assigned, galleryVars
<1>20. ASSUME JobFails PROVE Assigned'
  BY <1>20, Ends DEF Assigned, galleryVars
<1>21. ASSUME WorkerDies PROVE Assigned'
  BY <1>21, Ends DEF Assigned, galleryVars
<1>22. CASE UNCHANGED vars
  BY <1>22 DEF vars, galleryVars, copyVars, Assigned
<1>23. QED
  BY <1>1, <1>2, <1>3, <1>4, <1>5, <1>6, <1>7, <1>8, <1>9, <1>10, <1>11, <1>12, <1>13, <1>14, <1>15, <1>16, <1>17, <1>18, <1>19, <1>20, <1>21, <1>22
     DEF Next, RequestStep, Studio, WorkerStep

\* What a run writes: one copy of one content.
LEMMA Written ==
  ASSUME WatermarkAssumption, TypeOK, NEW v \in Variant, WriteCopy(v)
  PROVE  LET b == run.job.asset
             s == [mark |-> run.job.mark, setting |-> run.seen]
         IN  /\ run # NoRun /\ run \in Running /\ b \in Asset /\ ContentOf[b] \in Content
             /\ run.at = "write" /\ v \in run.left /\ s # Clean
             /\ rows' = rows \cup {<<b, v>>}
             /\ \A c \in Content, u \in Variant :
                  stamp'[c][u] = IF c = ContentOf[b] /\ u = v THEN s ELSE stamp[c][u]
<1>1. run # NoRun /\ run \in Running
  BY DEF WriteCopy, TypeOK, NoRun
<1>2. run.job.asset \in Asset /\ ContentOf[run.job.asset] \in Content
  BY <1>1 DEF Running, Job, WatermarkAssumption
<1>3. QED
  BY <1>1, <1>2 DEF WriteCopy, TypeOK, WatermarkAssumption, Stamp, Running, Job

LEMMA RenderedStep ==
  ASSUME WatermarkAssumption, TypeOK, Rendered, [Next]_vars PROVE Rendered'
<1>1. ASSUME NEW r \in Request, NEW g \in Gallery, ReadMark(r, g) PROVE Rendered'
  BY <1>1 DEF ReadMark, copyVars, Rendered
<1>2. ASSUME NEW r \in Request, NEW g \in Gallery, ReadItems(r, g) PROVE Rendered'
  BY <1>2 DEF ReadItems, copyVars, Rendered
<1>3. ASSUME NEW r \in Request, NEW g \in Gallery, AddBulk(r, g) PROVE Rendered'
  BY <1>3 DEF AddBulk, copyVars, Rendered
<1>4. ASSUME NEW r \in Request, ReadGalleries(r) PROVE Rendered'
  BY <1>4 DEF ReadGalleries, copyVars, Rendered
<1>5. ASSUME NEW r \in Request, DeleteFile(r) PROVE Rendered'
  BY <1>5 DEF DeleteFile, copyVars, Rendered
<1>6. ASSUME NEW r \in Request, NEW g \in Gallery, NEW A \in (SUBSET Asset) \ {{}}, AddItems(r, g, A) PROVE Rendered'
  BY <1>6 DEF AddItems, copyVars, Rendered
<1>7. ASSUME NEW r \in Request, NEW g \in Gallery, NEW w \in Mark, AssignMark(r, g, w) PROVE Rendered'
  BY <1>7 DEF AssignMark, copyVars, Rendered
<1>8. ASSUME NEW r \in Request, NEW w \in Mark, EditMark(r, w) PROVE Rendered'
  BY <1>8 DEF EditMark, copyVars, Rendered
<1>9. ASSUME NEW r \in Request, NEW w \in Mark, DeleteMark(r, w) PROVE Rendered'
  BY <1>9 DEF DeleteMark, copyVars, Rendered
<1>10. ASSUME NEW r \in Request, RequestDies(r) PROVE Rendered'
  BY <1>10 DEF RequestDies, copyVars, Rendered
<1>11. ASSUME NEW g \in Gallery, NEW a \in Asset, RemoveItem(g, a) PROVE Rendered'
  BY <1>11 DEF RemoveItem, copyVars, Rendered
<1>12. ASSUME NEW g \in Gallery, ClearMark(g) PROVE Rendered'
  BY <1>12 DEF ClearMark, copyVars, Rendered
<1>13. ASSUME NEW a \in Asset, Ingested(a) PROVE Rendered'
  BY <1>13 DEF Ingested, copyVars, Rendered
<1>14. ASSUME NEW j \in Job, TakeJob(j) PROVE Rendered'
  BY <1>14 DEF TakeJob, galleryVars, copyVars, Fault, At, Retry, TryAgain, Abandon, Running, NoRun, Job, Stamp, Rendered, TypeOK
<1>15. ASSUME SkipJob PROVE Rendered'
  BY <1>15 DEF SkipJob, galleryVars, copyVars, Fault, At, Retry, TryAgain, Abandon, Running, NoRun, Job, Stamp, Rendered, TypeOK
<1>16. ASSUME ReadSetting PROVE Rendered'
  BY <1>16 DEF ReadSetting, galleryVars, copyVars, Fault, At, Retry, TryAgain, Abandon, Running, NoRun, Job, Stamp, Rendered, TypeOK
<1>17. ASSUME LoadFile PROVE Rendered'
  BY <1>17 DEF LoadFile, galleryVars, copyVars, Fault, At, Retry, TryAgain, Abandon, Running, NoRun, Job, Stamp, Rendered, TypeOK
<1>18. ASSUME NEW v \in Variant, WriteCopy(v) PROVE Rendered'
  <2> DEFINE b == run.job.asset
             s == [mark |-> run.job.mark, setting |-> run.seen]
  <2>1. run' = NoRun \/ (At("write", run.job, run.seen, run.left \ {v}) /\ UNCHANGED ready)
    BY <1>18 DEF WriteCopy
  <2>2. b \in ready /\ ready' = ready
    BY <1>18, Written DEF WriteCopy, Rendered
  <2>3. QED
    BY <1>18, <2>1, <2>2, Written DEF Rendered, At
<1>19. ASSUME JobThrows PROVE Rendered'
  BY <1>19, Ends DEF Rendered
<1>20. ASSUME JobFails PROVE Rendered'
  BY <1>20, Ends DEF Rendered
<1>21. ASSUME WorkerDies PROVE Rendered'
  BY <1>21, Ends DEF Rendered
<1>22. CASE UNCHANGED vars
  BY <1>22 DEF vars, galleryVars, copyVars, Rendered
<1>23. QED
  BY <1>1, <1>2, <1>3, <1>4, <1>5, <1>6, <1>7, <1>8, <1>9, <1>10, <1>11, <1>12, <1>13, <1>14, <1>15, <1>16, <1>17, <1>18, <1>19, <1>20, <1>21, <1>22
     DEF Next, RequestStep, Studio, WorkerStep

LEMMA ShapeInit == ASSUME WatermarkAssumption, Init PROVE Shape
  BY DEF WatermarkAssumption, Init, Shape, Requests, Assigned, Rendered, Free, NoRun

(***************************************************************************)
(* How the steps of the worker and the bulk enqueue move pending jobs.     *)
(***************************************************************************)
LEMMA EndsPending ==
  ASSUME WatermarkAssumption, TypeOK, JobThrows \/ JobFails \/ WorkerDies,
         NEW a \in Asset, Pending(a)
  PROVE  a \in reported' \/ Waits(a)'
<1>1. Waits(a) => Waits(a)'
  BY Ends DEF Waits, Returned, TypeOK
<1>2. ASSUME run.job.asset = a PROVE a \in reported' \/ Waits(a)'
  BY Ends, <1>2 DEF Returned, Waits, TypeOK
<1>3. QED
  BY <1>1, <1>2 DEF Pending, Runs

LEMMA TakePending ==
  ASSUME WatermarkAssumption, TypeOK, NEW j \in Job, TakeJob(j), NEW a \in Asset, Pending(a)
  PROVE  Pending(a)'
<1>1. ~Runs(a) /\ run' # NoRun /\ run'.job = j
  BY DEF TakeJob, Runs, At, NoRun
<1>2. PICK k \in Job : waiting[k] > 0 /\ k.asset = a
  BY <1>1 DEF Pending, Waits
<1>3. CASE k = j
  BY <1>1, <1>2, <1>3 DEF Pending, Runs
<1>4. CASE k # j
  BY <1>2, <1>4 DEF TakeJob, Pending, Waits, TypeOK
<1>5. QED
  BY <1>3, <1>4

\* The run of another asset ends.
LEMMA SkipPending ==
  ASSUME WatermarkAssumption, TypeOK, SkipJob, NEW a \in Asset, Pending(a)
  PROVE  (a \in skipped' /\ a \notin ready) \/ Pending(a)'
  BY DEF SkipJob, Pending, Waits, Runs

LEMMA BulkWaits ==
  ASSUME WatermarkAssumption, TypeOK, Requests, NEW r \in Request, NEW g \in Gallery, AddBulk(r, g)
  PROVE  /\ \A j \in Job : waiting[j] > 0 => waiting'[j] > 0
         /\ \A a \in Asset : <<g, a>> \in request[r].add =>
              \E j \in Job : waiting'[j] > 0 /\ j.asset = a /\ j.mark = request[r].mark
         /\ \A a \in Asset : Pending(a) => Pending(a)'
<1>1. \A j \in Job : waiting[j] \in Nat /\ (waiting[j] > 0 => waiting'[j] > 0)
  BY DEF AddBulk, TypeOK
<1>2. ASSUME NEW a \in Asset, <<g, a>> \in request[r].add
      PROVE  \E j \in Job : waiting'[j] > 0 /\ j.asset = a /\ j.mark = request[r].mark
  <2> DEFINE j == [asset |-> a, mark |-> request[r].mark, tries |-> 0, stalled |-> FALSE]
  <2>1. j \in Job
    BY DEF Job, WatermarkAssumption, Requests, AddBulk
  <2>2. a \in Added(r, g) /\ j.asset = a /\ j.mark = request[r].mark /\ j.tries = 0 /\ ~j.stalled
    BY <1>2 DEF Added
  <2> HIDE DEF j
  <2>3. waiting'[j] = waiting[j] + 1
    BY <2>1, <2>2 DEF AddBulk
  <2>4. QED
    BY <1>1, <2>1, <2>2, <2>3
<1>3. UNCHANGED run
  BY DEF AddBulk
<1>4. QED
  BY <1>1, <1>2, <1>3 DEF Pending, Waits, Runs

\* A request begins or goes on; the others stay as they are.
LEMMA Goes ==
  ASSUME TypeOK, NEW r \in Request, NEW q, Go(r, q)
  PROVE  request'[r] = q /\ \A p \in Request : p # r => request'[p] = request[p]
  BY DEF Go, TypeOK

LEMMA Begins ==
  ASSUME TypeOK, NEW r \in Request, NEW q, Begin(r, q)
  PROVE  /\ request'[r] = q /\ \A p \in Request : p # r => request'[p] = request[p]
         /\ request[r].at = "free" /\ request[r].read = {} /\ request[r].add = {}
         /\ \A h, b : Coming(h, b) => \E p \in Request : p # r /\
              (<<h, b>> \in request[p].add \/ h \in request[p].read)
         /\ \A h, b : Coming(h, b) => Coming(h, b)'
<1>1. /\ request'[r] = q /\ \A p \in Request : p # r => request'[p] = request[p]
      /\ request[r].at = "free" /\ request[r].read = {} /\ request[r].add = {}
  BY DEF Begin, TypeOK, Free
<1>2. QED
  BY <1>1 DEF Coming

LEMMA CoveredStep ==
  ASSUME WatermarkAssumption, TypeOK, Shape, Covered, [Next]_vars PROVE Covered'
<1> USE DEF Shape
<1>1. ASSUME NEW r \in Request, NEW g \in Gallery, ReadMark(r, g) PROVE Covered'
  <2>1. \A b \in Asset : Pending(b)' = Pending(b)
    BY <1>1 DEF ReadMark, Pending, Waits, Runs
  <2>2. QED
    BY <1>1, <2>1 DEF ReadMark, galleryVars, copyVars, Begin, Asking, Go, Free, Enqueuing, Doing, Fault, ItemsOf, Affected, Added, Owes, Covered, Coming, Excused, TypeOK, Requests
<1>2. ASSUME NEW r \in Request, NEW g \in Gallery, ReadItems(r, g) PROVE Covered'
  <2> DEFINE S == request[r].add \cup ({g} \X ItemsOf(g))
             q == Enqueuing(request[r].mark, request[r].read \ {g}, S)
  <2>1. Go(r, q)
    BY <1>2 DEF ReadItems
  <2>2. \A b \in Asset : Pending(b)' = Pending(b)
    BY <1>2 DEF ReadItems, Pending, Waits, Runs
  <2>3. q.read = request[r].read \ {g} /\ q.add = S
    BY DEF Enqueuing, Free
  <2>4. ASSUME NEW h \in Gallery, NEW b \in Asset, Coming(h, b), <<h, b>> \in items
        PROVE  Coming(h, b)'
    <3>1. PICK p \in Request : <<h, b>> \in request[p].add \/ h \in request[p].read
      BY <2>4 DEF Coming
    <3>2. CASE p # r
      BY <2>1, <3>1, <3>2, Goes DEF Coming
    <3>3. CASE p = r
      <4>1. <<h, b>> \in S \/ h \in request[r].read \ {g}
        BY <2>4, <3>1, <3>3 DEF ItemsOf
      <4>2. request'[r].add = S /\ request'[r].read = request[r].read \ {g}
        BY <2>1, <2>3, Goes
      <4>3. QED
        BY <4>1, <4>2 DEF Coming
    <3>4. QED
      BY <3>2, <3>3
  <2>5. QED
    BY <1>2, <2>2, <2>4 DEF ReadItems, galleryVars, copyVars, Covered, Excused
<1>3. ASSUME NEW r \in Request, NEW g \in Gallery, AddBulk(r, g) PROVE Covered'
  <2>1. UNCHANGED <<items, assigned, rows, skipped, reported>>
    BY <1>3 DEF AddBulk, galleryVars, copyVars
  <2>2. ASSUME NEW h \in Gallery, NEW b \in Asset, Coming(h, b)
        PROVE  Coming(h, b)' \/ Pending(b)'
    <3>1. PICK q \in Request : <<h, b>> \in request[q].add \/ h \in request[q].read
      BY <2>2 DEF Coming
    <3>2. CASE q # r
      BY <1>3, <3>1, <3>2 DEF AddBulk, Go, Coming, TypeOK
    <3>3. CASE q = r /\ h = g /\ <<g, b>> \in request[r].add
      BY <1>3, <3>3, BulkWaits DEF Pending, Waits
    <3>4. CASE q = r /\ (h # g \/ <<g, b>> \notin request[r].add)
      <4> DEFINE S == request[r].add \ ({g} \X Asset)
             next == Enqueuing(request[r].mark, request[r].read, S)
      <4>1. Go(r, next)
        BY <1>3 DEF AddBulk
      <4>2. next.read = request[r].read /\ next.add = S
        BY DEF Enqueuing, Free
      <4>3. request'[r].add = S /\ request'[r].read = request[r].read
        BY <4>1, <4>2, Goes
      <4>4. <<h, b>> \in S \/ h \in request[r].read
        BY <3>1, <3>4
      <4>5. QED
        BY <4>3, <4>4 DEF Coming
    <3>5. QED
      BY <3>2, <3>3, <3>4
  <2>3. QED
    BY <1>3, <2>1, <2>2, BulkWaits DEF Covered, Excused
<1>4. ASSUME NEW r \in Request, ReadGalleries(r) PROVE Covered'
  <2>1. \A b \in Asset : Pending(b)' = Pending(b)
    BY <1>4 DEF ReadGalleries, Pending, Waits, Runs
  <2>2. QED
    BY <1>4, <2>1 DEF ReadGalleries, galleryVars, copyVars, Begin, Asking, Go, Free, Enqueuing, Doing, Fault, ItemsOf, Affected, Added, Owes, Covered, Coming, Excused, TypeOK, Requests
<1>5. ASSUME NEW r \in Request, DeleteFile(r) PROVE Covered'
  <2>1. \A b \in Asset : Pending(b)' = Pending(b)
    BY <1>5 DEF DeleteFile, Pending, Waits, Runs
  <2>2. QED
    BY <1>5, <2>1 DEF DeleteFile, galleryVars, copyVars, Begin, Asking, Go, Free, Enqueuing, Doing, Fault, ItemsOf, Affected, Added, Owes, Covered, Coming, Excused, TypeOK, Requests
<1>6. ASSUME NEW r \in Request, NEW g \in Gallery, NEW A \in (SUBSET Asset) \ {{}}, AddItems(r, g, A) PROVE Covered'
  <2>1. Begin(r, [at |-> "mark", mark |-> NoMark, read |-> {}, add |-> {g} \X A])
    BY <1>6 DEF AddItems
  <2>2. \A h, b : Coming(h, b) => Coming(h, b)'
    BY <2>1, Begins
  <2>3. \A b \in Asset : Pending(b)' = Pending(b)
    BY <1>6 DEF AddItems, Pending, Waits, Runs
  <2>4. \A b \in A : <<g, b>> \in request'[r].add
    BY <2>1, Begins
  <2>5. QED
    BY <1>6, <2>2, <2>3, <2>4 DEF AddItems, Covered, Coming, copyVars, Excused
<1>7. ASSUME NEW r \in Request, NEW g \in Gallery, NEW w \in Mark, AssignMark(r, g, w) PROVE Covered'
  <2>1. Begin(r, Enqueuing(w, {g}, {}))
    BY <1>7 DEF AssignMark
  <2>2. \A h, b : Coming(h, b) => Coming(h, b)'
    BY <2>1, Begins
  <2>3. \A b \in Asset : Pending(b)' = Pending(b)
    BY <1>7 DEF AssignMark, Pending, Waits, Runs
  <2>4. g \in request'[r].read
    BY <2>1, Begins DEF Enqueuing
  <2>5. QED
    BY <1>7, <2>2, <2>3, <2>4 DEF AssignMark, Covered, Coming, copyVars, Excused, TypeOK
<1>8. ASSUME NEW r \in Request, NEW w \in Mark, EditMark(r, w) PROVE Covered'
  <2>1. Begin(r, [at |-> "galleries", mark |-> w, read |-> {}, add |-> {}])
    BY <1>8 DEF EditMark
  <2>2. \A h, b : Coming(h, b) => Coming(h, b)'
    BY <2>1, Begins
  <2>3. \A b \in Asset : Pending(b)' = Pending(b)
    BY <1>8 DEF EditMark, Pending, Waits, Runs
  <2>4. QED
    BY <1>8, <2>2, <2>3 DEF EditMark, Covered, copyVars, Excused
<1>9. ASSUME NEW r \in Request, NEW w \in Mark, DeleteMark(r, w) PROVE Covered'
  <2>1. Begin(r, [at |-> "file", mark |-> w, read |-> {}, add |-> {}])
    BY <1>9 DEF DeleteMark
  <2>2. \A h, b : Coming(h, b) => Coming(h, b)'
    BY <2>1, Begins
  <2>3. \A b \in Asset : Pending(b)' = Pending(b)
    BY <1>9 DEF DeleteMark, Pending, Waits, Runs
  <2>4. QED
    BY <1>9, <2>2, <2>3 DEF DeleteMark, Covered, copyVars, Excused
<1>10. ASSUME NEW r \in Request, RequestDies(r) PROVE Covered'
  <2>1. \A b \in Asset : Pending(b)' = Pending(b)
    BY <1>10 DEF RequestDies, Pending, Waits, Runs
  <2>2. QED
    BY <1>10, <2>1 DEF RequestDies, galleryVars, copyVars, Begin, Asking, Go, Free, Enqueuing, Doing, Fault, ItemsOf, Affected, Added, Owes, Covered, Coming, Excused, TypeOK, Requests
<1>11. ASSUME NEW g \in Gallery, NEW a \in Asset, RemoveItem(g, a) PROVE Covered'
  BY <1>11 DEF RemoveItem, galleryVars, copyVars, Asking, Covered, Coming, Excused, Pending, Waits, Runs, TypeOK
<1>12. ASSUME NEW g \in Gallery, ClearMark(g) PROVE Covered'
  BY <1>12 DEF ClearMark, galleryVars, copyVars, Asking, Covered, Coming, Excused, Pending, Waits, Runs, TypeOK
<1>13. ASSUME NEW a \in Asset, Ingested(a) PROVE Covered'
  BY <1>13 DEF Ingested, galleryVars, copyVars, Asking, Covered, Coming, Excused, Pending, Waits, Runs, TypeOK
<1>14. ASSUME NEW j \in Job, TakeJob(j) PROVE Covered'
  <2>1. UNCHANGED <<items, assigned, request, rows, skipped, reported>>
    BY <1>14 DEF TakeJob, galleryVars, copyVars
  <2>2. QED
    BY <1>14, <2>1, TakePending DEF Covered, Coming, Excused
<1>15. ASSUME SkipJob PROVE Covered'
  <2>1. UNCHANGED <<items, assigned, request, rows, reported>> /\ skipped \subseteq skipped'
    BY <1>15 DEF SkipJob, galleryVars
  <2>2. QED
    BY <1>15, <2>1, SkipPending DEF Covered, Coming, Excused
<1>16. ASSUME ReadSetting PROVE Covered'
  <2>1. UNCHANGED <<items, assigned, request, rows, skipped, reported, waiting>>
    BY <1>16 DEF ReadSetting, galleryVars, copyVars
  <2>2. \A b : Runs(b) => Runs(b)'
    BY <1>16 DEF ReadSetting, Runs, At, NoRun
  <2>3. QED
    BY <2>1, <2>2 DEF Covered, Coming, Excused, Pending, Waits
<1>17. ASSUME LoadFile PROVE Covered'
  <2>1. UNCHANGED <<items, assigned, request, rows, skipped, reported, waiting>>
    BY <1>17 DEF LoadFile, galleryVars, copyVars
  <2>2. \A b : Runs(b) => Runs(b)'
    BY <1>17 DEF LoadFile, Runs, At, NoRun
  <2>3. QED
    BY <2>1, <2>2 DEF Covered, Coming, Excused, Pending, Waits
<1>18. ASSUME NEW v \in Variant, WriteCopy(v) PROVE Covered'
  <2>1. UNCHANGED <<items, assigned, request, skipped, reported, waiting>> /\ rows \subseteq rows'
    BY <1>18 DEF WriteCopy, galleryVars
  <2>2. ASSUME NEW b \in Asset, Runs(b)
        PROVE  Runs(b)' \/ \A u \in Variant : <<b, u>> \in rows'
    <3>1. CASE run.left = {v}
      BY <1>18, <2>2, <3>1, Written DEF Rendered, Runs
    <3>2. CASE run.left # {v}
      BY <1>18, <2>2, <3>2 DEF WriteCopy, At, Runs, NoRun
    <3>3. QED
      BY <3>1, <3>2
  <2>3. QED
    BY <2>1, <2>2 DEF Covered, Coming, Excused, Pending, Waits
<1>19. ASSUME JobThrows PROVE Covered'
  <2>1. UNCHANGED <<items, assigned, request, rows, skipped>> /\ reported \subseteq reported'
    BY <1>19, Ends DEF galleryVars, Returned
  <2>2. \A b \in Asset : Pending(b) => b \in reported' \/ Pending(b)'
    BY <1>19, EndsPending DEF Pending
  <2>3. QED
    BY <2>1, <2>2 DEF Covered, Coming, Excused
<1>20. ASSUME JobFails PROVE Covered'
  <2>1. UNCHANGED <<items, assigned, request, rows, skipped>> /\ reported \subseteq reported'
    BY <1>20, Ends DEF galleryVars, Returned
  <2>2. \A b \in Asset : Pending(b) => b \in reported' \/ Pending(b)'
    BY <1>20, EndsPending DEF Pending
  <2>3. QED
    BY <2>1, <2>2 DEF Covered, Coming, Excused
<1>21. ASSUME WorkerDies PROVE Covered'
  <2>1. UNCHANGED <<items, assigned, request, rows, skipped>> /\ reported \subseteq reported'
    BY <1>21, Ends DEF galleryVars, Returned
  <2>2. \A b \in Asset : Pending(b) => b \in reported' \/ Pending(b)'
    BY <1>21, EndsPending DEF Pending
  <2>3. QED
    BY <2>1, <2>2 DEF Covered, Coming, Excused
<1>22. CASE UNCHANGED vars
  BY <1>22 DEF vars, galleryVars, copyVars, Covered, Coming, Excused, Pending, Waits, Runs
<1>23. QED
  BY <1>1, <1>2, <1>3, <1>4, <1>5, <1>6, <1>7, <1>8, <1>9, <1>10, <1>11, <1>12, <1>13, <1>14, <1>15, <1>16, <1>17, <1>18, <1>19, <1>20, <1>21, <1>22
     DEF Next, RequestStep, Studio, WorkerStep

LEMMA FreshenedStep ==
  ASSUME WatermarkAssumption, TypeOK, Shape, Freshened, [Next]_vars PROVE Freshened'
<1> USE DEF Shape
<1>1. ASSUME NEW r \in Request, NEW g \in Gallery, ReadMark(r, g) PROVE Freshened'
  <2>1. \A b, w0 : Renews(waiting', run', setting', b, w0) = Renews(waiting, run, setting, b, w0)
    BY <1>1 DEF ReadMark, galleryVars, copyVars, Renews
  <2>2. \A b, w0 : Outdated(stamp', run', setting', ContentOf[b], w0) = Outdated(stamp, run, setting, ContentOf[b], w0)
    BY <1>1 DEF ReadMark, galleryVars, copyVars, Outdated
  <2> SUFFICES ASSUME NEW h \in Gallery, NEW b \in Asset,
                      <<h, b>> \in items', assigned'[h] # NoMark, b \notin Excused',
                      Outdated(stamp', run', setting', ContentOf[b], assigned'[h])
               PROVE  Renews(waiting', run', setting', b, assigned'[h]) \/ \E p \in Request : Promises(request'[p], h, b, assigned'[h])
    BY DEF Freshened
  <2>3. UNCHANGED <<items, assigned>> /\ Excused' = Excused
    BY <1>1 DEF ReadMark, galleryVars, copyVars, Excused
  <2>4. Renews(waiting, run, setting, b, assigned[h]) \/ \E p \in Request : Promises(request[p], h, b, assigned[h])
    BY <2>2, <2>3 DEF Freshened
  <2> DEFINE q == Enqueuing(assigned[g], {}, request[r].add)
  <2>5. ASSUME Promises(request[r], h, b, assigned[h])
        PROVE  Promises(request'[r], h, b, assigned[h])
    <3>1. <<h, b>> \in request[r].add /\ h = g
      BY <1>1, <2>5 DEF ReadMark, Promises, Requests
    <3>2. q = [at |-> "items", mark |-> assigned[g], read |-> {}, add |-> request[r].add]
      BY <3>1 DEF Enqueuing
    <3>3. Go(r, q)
      BY <1>1, <2>3, <3>1 DEF ReadMark
    <3>4. request'[r] = q
      BY <3>3, Goes
    <3>5. QED
      BY <3>1, <3>2, <3>4 DEF Promises
  <2>6. \A p \in Request : p # r => request'[p] = request[p]
    BY <1>1, Goes DEF ReadMark
  <2>7. QED
    BY <2>1, <2>3, <2>4, <2>5, <2>6
<1>2. ASSUME NEW r \in Request, NEW g \in Gallery, ReadItems(r, g) PROVE Freshened'
  <2>1. \A b, w0 : Renews(waiting', run', setting', b, w0) = Renews(waiting, run, setting, b, w0)
    BY <1>2 DEF ReadItems, galleryVars, copyVars, Renews
  <2>2. \A b, w0 : Outdated(stamp', run', setting', ContentOf[b], w0) = Outdated(stamp, run, setting, ContentOf[b], w0)
    BY <1>2 DEF ReadItems, galleryVars, copyVars, Outdated
  <2> SUFFICES ASSUME NEW h \in Gallery, NEW b \in Asset,
                      <<h, b>> \in items', assigned'[h] # NoMark, b \notin Excused',
                      Outdated(stamp', run', setting', ContentOf[b], assigned'[h])
               PROVE  Renews(waiting', run', setting', b, assigned'[h]) \/ \E p \in Request : Promises(request'[p], h, b, assigned'[h])
    BY DEF Freshened
  <2>3. UNCHANGED <<items, assigned>> /\ Excused' = Excused
    BY <1>2 DEF ReadItems, galleryVars, copyVars, Excused
  <2>4. Renews(waiting, run, setting, b, assigned[h]) \/ \E p \in Request : Promises(request[p], h, b, assigned[h])
    BY <2>2, <2>3 DEF Freshened
  <2> DEFINE S == request[r].add \cup ({g} \X ItemsOf(g))
             R == request[r].read \ {g}
             q == Enqueuing(request[r].mark, R, S)
  <2>5. ASSUME Promises(request[r], h, b, assigned[h])
        PROVE  Promises(request'[r], h, b, assigned[h])
    <3>1. request[r].mark = assigned[h] /\ (<<h, b>> \in request[r].add \/ h \in request[r].read)
      BY <1>2, <2>5 DEF ReadItems, Promises
    <3>2. <<h, b>> \in S \/ h \in R
      BY <2>3, <3>1 DEF ItemsOf
    <3>3. q = [at |-> "items", mark |-> request[r].mark, read |-> R, add |-> S]
      BY <3>2 DEF Enqueuing
    <3>4. Go(r, q)
      BY <1>2 DEF ReadItems
    <3>5. request'[r] = q
      BY <3>4, Goes
    <3>6. QED
      BY <3>1, <3>2, <3>3, <3>5 DEF Promises
  <2>6. \A p \in Request : p # r => request'[p] = request[p]
    BY <1>2, Goes DEF ReadItems
  <2>7. QED
    BY <2>1, <2>3, <2>4, <2>5, <2>6
<1>3. ASSUME NEW r \in Request, NEW g \in Gallery, AddBulk(r, g) PROVE Freshened'
  <2>1. \A b, w0 : Renews(waiting, run, setting, b, w0) => Renews(waiting', run', setting', b, w0)
    <3>1. UNCHANGED <<run, setting>>
      BY <1>3 DEF AddBulk, galleryVars
    <3>2. QED
      BY <1>3, <3>1, BulkWaits DEF Renews
  <2>2. \A b, w0 : Outdated(stamp', run', setting', ContentOf[b], w0) = Outdated(stamp, run, setting, ContentOf[b], w0)
    BY <1>3 DEF AddBulk, galleryVars, copyVars, Outdated
  <2> SUFFICES ASSUME NEW h \in Gallery, NEW b \in Asset,
                      <<h, b>> \in items', assigned'[h] # NoMark, b \notin Excused',
                      Outdated(stamp', run', setting', ContentOf[b], assigned'[h])
               PROVE  Renews(waiting', run', setting', b, assigned'[h]) \/ \E p \in Request : Promises(request'[p], h, b, assigned'[h])
    BY DEF Freshened
  <2>3. UNCHANGED <<items, assigned>> /\ Excused' = Excused
    BY <1>3 DEF AddBulk, galleryVars, copyVars, Excused
  <2>4. Renews(waiting, run, setting, b, assigned[h]) \/ \E p \in Request : Promises(request[p], h, b, assigned[h])
    BY <2>2, <2>3 DEF Freshened
  <2> DEFINE S == request[r].add \ ({g} \X Asset)
             q == Enqueuing(request[r].mark, request[r].read, S)
  <2>5. ASSUME Promises(request[r], h, b, assigned[h])
        PROVE  Renews(waiting', run', setting', b, assigned[h]) \/ Promises(request'[r], h, b, assigned[h])
    <3>1. request[r].mark = assigned[h] /\ (<<h, b>> \in request[r].add \/ h \in request[r].read)
      BY <1>3, <2>5 DEF AddBulk, Promises
    <3>2. CASE h = g /\ <<g, b>> \in request[r].add
      BY <1>3, <3>1, <3>2, BulkWaits DEF Renews
    <3>3. CASE ~(h = g /\ <<g, b>> \in request[r].add)
      <4>1. <<h, b>> \in S \/ h \in request[r].read
        BY <3>1, <3>3
      <4>2. q = [at |-> "items", mark |-> request[r].mark, read |-> request[r].read, add |-> S]
        BY <4>1 DEF Enqueuing
      <4>3. Go(r, q)
        BY <1>3 DEF AddBulk
      <4>4. request'[r] = q
        BY <4>3, Goes
      <4>5. QED
        BY <3>1, <4>1, <4>2, <4>4 DEF Promises
    <3>4. QED
      BY <3>2, <3>3
  <2>6. \A p \in Request : p # r => request'[p] = request[p]
    BY <1>3, Goes DEF AddBulk
  <2>7. QED
    BY <2>1, <2>3, <2>4, <2>5, <2>6
<1>4. ASSUME NEW r \in Request, ReadGalleries(r) PROVE Freshened'
  <2>1. \A b, w0 : Renews(waiting', run', setting', b, w0) = Renews(waiting, run, setting, b, w0)
    BY <1>4 DEF ReadGalleries, galleryVars, copyVars, Renews
  <2>2. \A b, w0 : Outdated(stamp', run', setting', ContentOf[b], w0) = Outdated(stamp, run, setting, ContentOf[b], w0)
    BY <1>4 DEF ReadGalleries, galleryVars, copyVars, Outdated
  <2> SUFFICES ASSUME NEW h \in Gallery, NEW b \in Asset,
                      <<h, b>> \in items', assigned'[h] # NoMark, b \notin Excused',
                      Outdated(stamp', run', setting', ContentOf[b], assigned'[h])
               PROVE  Renews(waiting', run', setting', b, assigned'[h]) \/ \E p \in Request : Promises(request'[p], h, b, assigned'[h])
    BY DEF Freshened
  <2>3. UNCHANGED <<items, assigned>> /\ Excused' = Excused
    BY <1>4 DEF ReadGalleries, galleryVars, copyVars, Excused
  <2>4. Renews(waiting, run, setting, b, assigned[h]) \/ \E p \in Request : Promises(request[p], h, b, assigned[h])
    BY <2>2, <2>3 DEF Freshened
  <2> DEFINE R == Affected(request[r].mark)
             q == Enqueuing(request[r].mark, R, {})
  <2>5. ASSUME Promises(request[r], h, b, assigned[h])
        PROVE  Promises(request'[r], h, b, assigned[h])
    <3>1. request[r].mark = assigned[h] /\ h \in R
      BY <1>4, <2>5 DEF ReadGalleries, Promises, Affected
    <3>2. q = [at |-> "items", mark |-> request[r].mark, read |-> R, add |-> {}]
      BY <3>1 DEF Enqueuing
    <3>3. Go(r, q)
      BY <1>4 DEF ReadGalleries
    <3>4. request'[r] = q
      BY <3>3, Goes
    <3>5. QED
      BY <3>1, <3>2, <3>4 DEF Promises
  <2>6. \A p \in Request : p # r => request'[p] = request[p]
    BY <1>4, Goes DEF ReadGalleries
  <2>7. QED
    BY <2>1, <2>3, <2>4, <2>5, <2>6
<1>5. ASSUME NEW r \in Request, DeleteFile(r) PROVE Freshened'
  <2>1. \A b, w0 : Renews(waiting', run', setting', b, w0) = Renews(waiting, run, setting, b, w0)
    BY <1>5 DEF DeleteFile, galleryVars, copyVars, Renews
  <2>2. \A b, w0 : Outdated(stamp', run', setting', ContentOf[b], w0) = Outdated(stamp, run, setting, ContentOf[b], w0)
    BY <1>5 DEF DeleteFile, galleryVars, copyVars, Outdated
  <2> SUFFICES ASSUME NEW h \in Gallery, NEW b \in Asset,
                      <<h, b>> \in items', assigned'[h] # NoMark, b \notin Excused',
                      Outdated(stamp', run', setting', ContentOf[b], assigned'[h])
               PROVE  Renews(waiting', run', setting', b, assigned'[h]) \/ \E p \in Request : Promises(request'[p], h, b, assigned'[h])
    BY DEF Freshened
  <2>3. UNCHANGED <<items, assigned>> /\ Excused' = Excused
    BY <1>5 DEF DeleteFile, galleryVars, copyVars, Excused
  <2>4. Renews(waiting, run, setting, b, assigned[h]) \/ \E p \in Request : Promises(request[p], h, b, assigned[h])
    BY <2>2, <2>3 DEF Freshened
  <2>5. ~Promises(request[r], h, b, assigned[h])
    BY <1>5 DEF DeleteFile, Promises
  <2>6. \A p \in Request : p # r => request'[p] = request[p]
    BY <1>5, Goes DEF DeleteFile
  <2>7. QED
    BY <2>1, <2>3, <2>4, <2>5, <2>6
<1>6. ASSUME NEW r \in Request, NEW g \in Gallery, NEW A \in (SUBSET Asset) \ {{}}, AddItems(r, g, A) PROVE Freshened'
  <2>1. Begin(r, [at |-> "mark", mark |-> NoMark, read |-> {}, add |-> {g} \X A])
    BY <1>6 DEF AddItems
  <2>2. request'[r] = [at |-> "mark", mark |-> NoMark, read |-> {}, add |-> {g} \X A] /\ (\A p \in Request : p # r => request'[p] = request[p])
        /\ request[r].at = "free"
    BY <2>1, Begins
  <2>3. \A h, b, w0 : ~Promises(request[r], h, b, w0)
    BY <2>2 DEF Promises
  <2>4. \A b, w0 : Renews(waiting', run', setting', b, w0) = Renews(waiting, run, setting, b, w0)
    BY <1>6 DEF AddItems, Renews
  <2>5. \A b, w0 : Outdated(stamp', run', setting', ContentOf[b], w0) = Outdated(stamp, run, setting, ContentOf[b], w0)
    BY <1>6 DEF AddItems, copyVars, Outdated
  <2> SUFFICES ASSUME NEW h \in Gallery, NEW b \in Asset,
                      <<h, b>> \in items', assigned'[h] # NoMark, b \notin Excused',
                      Outdated(stamp', run', setting', ContentOf[b], assigned'[h])
               PROVE  Renews(waiting', run', setting', b, assigned'[h]) \/ \E p \in Request : Promises(request'[p], h, b, assigned'[h])
    BY DEF Freshened
  <2>6. Excused' = Excused
    BY <1>6 DEF AddItems, copyVars, Excused
  <2>7. ASSUME <<h, b>> \in items, assigned'[h] = assigned[h]
        PROVE  Renews(waiting', run', setting', b, assigned'[h]) \/ \E p \in Request : Promises(request'[p], h, b, assigned'[h])
    <3>1. Renews(waiting, run, setting, b, assigned[h]) \/ \E p \in Request : Promises(request[p], h, b, assigned[h])
      BY <2>5, <2>6, <2>7 DEF Freshened
    <3>2. QED
      BY <2>2, <2>3, <2>4, <2>7, <3>1
  <2>8. CASE h = g /\ b \in A
    BY <2>2, <2>8 DEF Promises
  <2>9. CASE ~(h = g /\ b \in A)
    <3>1. <<h, b>> \in items /\ assigned' = assigned
      BY <1>6, <2>9 DEF AddItems
    <3>2. QED
      BY <2>7, <3>1
  <2>10. QED
    BY <2>8, <2>9
<1>7. ASSUME NEW r \in Request, NEW g \in Gallery, NEW w \in Mark, AssignMark(r, g, w) PROVE Freshened'
  <2>1. Begin(r, Enqueuing(w, {g}, {}))
    BY <1>7 DEF AssignMark
  <2>2. request'[r] = Enqueuing(w, {g}, {}) /\ (\A p \in Request : p # r => request'[p] = request[p])
        /\ request[r].at = "free"
    BY <2>1, Begins
  <2>3. \A h, b, w0 : ~Promises(request[r], h, b, w0)
    BY <2>2 DEF Promises
  <2>4. \A b, w0 : Renews(waiting', run', setting', b, w0) = Renews(waiting, run, setting, b, w0)
    BY <1>7 DEF AssignMark, Renews
  <2>5. \A b, w0 : Outdated(stamp', run', setting', ContentOf[b], w0) = Outdated(stamp, run, setting, ContentOf[b], w0)
    BY <1>7 DEF AssignMark, copyVars, Outdated
  <2> SUFFICES ASSUME NEW h \in Gallery, NEW b \in Asset,
                      <<h, b>> \in items', assigned'[h] # NoMark, b \notin Excused',
                      Outdated(stamp', run', setting', ContentOf[b], assigned'[h])
               PROVE  Renews(waiting', run', setting', b, assigned'[h]) \/ \E p \in Request : Promises(request'[p], h, b, assigned'[h])
    BY DEF Freshened
  <2>6. Excused' = Excused
    BY <1>7 DEF AssignMark, copyVars, Excused
  <2>7. ASSUME <<h, b>> \in items, assigned'[h] = assigned[h]
        PROVE  Renews(waiting', run', setting', b, assigned'[h]) \/ \E p \in Request : Promises(request'[p], h, b, assigned'[h])
    <3>1. Renews(waiting, run, setting, b, assigned[h]) \/ \E p \in Request : Promises(request[p], h, b, assigned[h])
      BY <2>5, <2>6, <2>7 DEF Freshened
    <3>2. QED
      BY <2>2, <2>3, <2>4, <2>7, <3>1
  <2>8. items' = items /\ assigned'[g] = w /\ (h # g => assigned'[h] = assigned[h])
    BY <1>7 DEF AssignMark, TypeOK
  <2>9. CASE h = g
    <3>1. request'[r] = [at |-> "items", mark |-> w, read |-> {g}, add |-> {}]
      BY <2>2 DEF Enqueuing
    <3>2. QED
      BY <2>8, <2>9, <3>1 DEF Promises
  <2>10. QED
    BY <2>7, <2>8, <2>9
<1>8. ASSUME NEW r \in Request, NEW w \in Mark, EditMark(r, w) PROVE Freshened'
  <2>1. Begin(r, [at |-> "galleries", mark |-> w, read |-> {}, add |-> {}])
    BY <1>8 DEF EditMark
  <2>2. request'[r] = [at |-> "galleries", mark |-> w, read |-> {}, add |-> {}] /\ (\A p \in Request : p # r => request'[p] = request[p])
        /\ request[r].at = "free"
    BY <2>1, Begins
  <2>3. \A h, b, w0 : ~Promises(request[r], h, b, w0)
    BY <2>2 DEF Promises
  <2> SUFFICES ASSUME NEW h \in Gallery, NEW b \in Asset,
                      <<h, b>> \in items', assigned'[h] # NoMark, b \notin Excused',
                      Outdated(stamp', run', setting', ContentOf[b], assigned'[h])
               PROVE  Renews(waiting', run', setting', b, assigned'[h]) \/ \E p \in Request : Promises(request'[p], h, b, assigned'[h])
    BY DEF Freshened
  <2>4. UNCHANGED <<items, assigned, run, waiting, stamp>> /\ Excused' = Excused
    BY <1>8 DEF EditMark, copyVars, Excused
  <2>5. CASE assigned[h] = w
    BY <2>2, <2>4, <2>5 DEF Promises
  <2>6. CASE assigned[h] # w
    <3>1. setting'[assigned[h]] = setting[assigned[h]]
      BY <1>8, <2>6 DEF EditMark, TypeOK
    <3>2. Outdated(stamp, run, setting, ContentOf[b], assigned[h])
      BY <2>4, <3>1 DEF Outdated
    <3>3. Renews(waiting, run, setting, b, assigned[h]) \/ \E p \in Request : Promises(request[p], h, b, assigned[h])
      BY <2>4, <3>2 DEF Freshened
    <3>4. Renews(waiting, run, setting, b, assigned[h]) => Renews(waiting', run', setting', b, assigned[h])
      BY <2>4, <3>1 DEF Renews
    <3>5. QED
      BY <2>2, <2>3, <2>4, <3>3, <3>4
  <2>7. QED
    BY <2>5, <2>6
<1>9. ASSUME NEW r \in Request, NEW w \in Mark, DeleteMark(r, w) PROVE Freshened'
  <2>1. Begin(r, [at |-> "file", mark |-> w, read |-> {}, add |-> {}])
    BY <1>9 DEF DeleteMark
  <2>2. request'[r] = [at |-> "file", mark |-> w, read |-> {}, add |-> {}] /\ (\A p \in Request : p # r => request'[p] = request[p])
        /\ request[r].at = "free"
    BY <2>1, Begins
  <2>3. \A h, b, w0 : ~Promises(request[r], h, b, w0)
    BY <2>2 DEF Promises
  <2>4. \A b, w0 : Renews(waiting', run', setting', b, w0) = Renews(waiting, run, setting, b, w0)
    BY <1>9 DEF DeleteMark, Renews
  <2>5. \A b, w0 : Outdated(stamp', run', setting', ContentOf[b], w0) = Outdated(stamp, run, setting, ContentOf[b], w0)
    BY <1>9 DEF DeleteMark, copyVars, Outdated
  <2> SUFFICES ASSUME NEW h \in Gallery, NEW b \in Asset,
                      <<h, b>> \in items', assigned'[h] # NoMark, b \notin Excused',
                      Outdated(stamp', run', setting', ContentOf[b], assigned'[h])
               PROVE  Renews(waiting', run', setting', b, assigned'[h]) \/ \E p \in Request : Promises(request'[p], h, b, assigned'[h])
    BY DEF Freshened
  <2>6. Excused' = Excused
    BY <1>9 DEF DeleteMark, copyVars, Excused
  <2>7. ASSUME <<h, b>> \in items, assigned'[h] = assigned[h]
        PROVE  Renews(waiting', run', setting', b, assigned'[h]) \/ \E p \in Request : Promises(request'[p], h, b, assigned'[h])
    <3>1. Renews(waiting, run, setting, b, assigned[h]) \/ \E p \in Request : Promises(request[p], h, b, assigned[h])
      BY <2>5, <2>6, <2>7 DEF Freshened
    <3>2. QED
      BY <2>2, <2>3, <2>4, <2>7, <3>1
  <2>8. items' = items /\ assigned'[h] = assigned[h]
    BY <1>9 DEF DeleteMark
  <2>9. QED
    BY <2>7, <2>8
<1>10. ASSUME NEW r \in Request, RequestDies(r) PROVE Freshened'
  <2>1. \A b, w0 : Renews(waiting', run', setting', b, w0) = Renews(waiting, run, setting, b, w0)
    BY <1>10 DEF RequestDies, galleryVars, copyVars, Renews
  <2>2. \A b, w0 : Outdated(stamp', run', setting', ContentOf[b], w0) = Outdated(stamp, run, setting, ContentOf[b], w0)
    BY <1>10 DEF RequestDies, galleryVars, copyVars, Outdated
  <2> SUFFICES ASSUME NEW h \in Gallery, NEW b \in Asset,
                      <<h, b>> \in items', assigned'[h] # NoMark, b \notin Excused',
                      Outdated(stamp', run', setting', ContentOf[b], assigned'[h])
               PROVE  Renews(waiting', run', setting', b, assigned'[h]) \/ \E p \in Request : Promises(request'[p], h, b, assigned'[h])
    BY DEF Freshened
  <2>3. UNCHANGED <<items, assigned>> /\ b \notin Excused /\ b \notin Owes(r)
    BY <1>10 DEF RequestDies, galleryVars, Excused
  <2>4. Renews(waiting, run, setting, b, assigned[h]) \/ \E p \in Request : Promises(request[p], h, b, assigned[h])
    BY <2>2, <2>3 DEF Freshened
  <2>5. ~Promises(request[r], h, b, assigned[h])
    BY <2>3 DEF Promises, Owes, Affected
  <2>6. \A p \in Request : p # r => request'[p] = request[p]
    BY <1>10, Goes DEF RequestDies
  <2>7. QED
    BY <2>1, <2>3, <2>4, <2>5, <2>6
<1>11. ASSUME NEW g \in Gallery, NEW a \in Asset, RemoveItem(g, a) PROVE Freshened'
  <2>1. \A b, w0 : Renews(waiting', run', setting', b, w0) = Renews(waiting, run, setting, b, w0)
    BY <1>11 DEF RemoveItem, galleryVars, copyVars, Renews
  <2>2. \A b, w0 : Outdated(stamp', run', setting', ContentOf[b], w0) = Outdated(stamp, run, setting, ContentOf[b], w0)
    BY <1>11 DEF RemoveItem, galleryVars, copyVars, Outdated
  <2> SUFFICES ASSUME NEW h \in Gallery, NEW b \in Asset,
                      <<h, b>> \in items', assigned'[h] # NoMark, b \notin Excused',
                      Outdated(stamp', run', setting', ContentOf[b], assigned'[h])
               PROVE  Renews(waiting', run', setting', b, assigned'[h]) \/ \E p \in Request : Promises(request'[p], h, b, assigned'[h])
    BY DEF Freshened
  <2>3. <<h, b>> \in items /\ assigned'[h] = assigned[h] /\ request' = request /\ Excused' = Excused
    BY <1>11 DEF RemoveItem, galleryVars, copyVars, Excused, TypeOK
  <2>4. Renews(waiting, run, setting, b, assigned[h]) \/ \E p \in Request : Promises(request[p], h, b, assigned[h])
    BY <2>2, <2>3 DEF Freshened
  <2>5. QED
    BY <2>1, <2>3, <2>4
<1>12. ASSUME NEW g \in Gallery, ClearMark(g) PROVE Freshened'
  <2>1. \A b, w0 : Renews(waiting', run', setting', b, w0) = Renews(waiting, run, setting, b, w0)
    BY <1>12 DEF ClearMark, galleryVars, copyVars, Renews
  <2>2. \A b, w0 : Outdated(stamp', run', setting', ContentOf[b], w0) = Outdated(stamp, run, setting, ContentOf[b], w0)
    BY <1>12 DEF ClearMark, galleryVars, copyVars, Outdated
  <2> SUFFICES ASSUME NEW h \in Gallery, NEW b \in Asset,
                      <<h, b>> \in items', assigned'[h] # NoMark, b \notin Excused',
                      Outdated(stamp', run', setting', ContentOf[b], assigned'[h])
               PROVE  Renews(waiting', run', setting', b, assigned'[h]) \/ \E p \in Request : Promises(request'[p], h, b, assigned'[h])
    BY DEF Freshened
  <2>3. <<h, b>> \in items /\ assigned'[h] = assigned[h] /\ request' = request /\ Excused' = Excused
    BY <1>12 DEF ClearMark, galleryVars, copyVars, Excused, TypeOK
  <2>4. Renews(waiting, run, setting, b, assigned[h]) \/ \E p \in Request : Promises(request[p], h, b, assigned[h])
    BY <2>2, <2>3 DEF Freshened
  <2>5. QED
    BY <2>1, <2>3, <2>4
<1>13. ASSUME NEW a \in Asset, Ingested(a) PROVE Freshened'
  <2>1. \A b, w0 : Renews(waiting', run', setting', b, w0) = Renews(waiting, run, setting, b, w0)
    BY <1>13 DEF Ingested, galleryVars, copyVars, Renews
  <2>2. \A b, w0 : Outdated(stamp', run', setting', ContentOf[b], w0) = Outdated(stamp, run, setting, ContentOf[b], w0)
    BY <1>13 DEF Ingested, galleryVars, copyVars, Outdated
  <2> SUFFICES ASSUME NEW h \in Gallery, NEW b \in Asset,
                      <<h, b>> \in items', assigned'[h] # NoMark, b \notin Excused',
                      Outdated(stamp', run', setting', ContentOf[b], assigned'[h])
               PROVE  Renews(waiting', run', setting', b, assigned'[h]) \/ \E p \in Request : Promises(request'[p], h, b, assigned'[h])
    BY DEF Freshened
  <2>3. <<h, b>> \in items /\ assigned'[h] = assigned[h] /\ request' = request /\ Excused' = Excused
    BY <1>13 DEF Ingested, galleryVars, copyVars, Excused, TypeOK
  <2>4. Renews(waiting, run, setting, b, assigned[h]) \/ \E p \in Request : Promises(request[p], h, b, assigned[h])
    BY <2>2, <2>3 DEF Freshened
  <2>5. QED
    BY <2>1, <2>3, <2>4
<1>14. ASSUME NEW j \in Job, TakeJob(j) PROVE Freshened'
  <2> SUFFICES ASSUME NEW h \in Gallery, NEW b \in Asset,
                      <<h, b>> \in items', assigned'[h] # NoMark, b \notin Excused',
                      Outdated(stamp', run', setting', ContentOf[b], assigned'[h])
               PROVE  Renews(waiting', run', setting', b, assigned'[h]) \/ \E p \in Request : Promises(request'[p], h, b, assigned'[h])
    BY DEF Freshened
  <2>1. UNCHANGED <<items, assigned, setting, request>> /\ Excused \subseteq Excused'
    BY <1>14 DEF TakeJob, galleryVars, copyVars, Excused
  <2>2. Outdated(stamp, run, setting, ContentOf[b], assigned[h])
    BY <1>14, <2>1 DEF Outdated, TakeJob, At, copyVars, NoRun
  <2>3. Renews(waiting, run, setting, b, assigned[h]) \/ \E p \in Request : Promises(request[p], h, b, assigned[h])
    BY <2>1, <2>2 DEF Freshened
  <2>4. ASSUME Renews(waiting, run, setting, b, assigned[h]) PROVE Renews(waiting', run', setting', b, assigned[h])
    <3>1. PICK k \in Job : waiting[k] > 0 /\ k.asset = b /\ k.mark = assigned[h]
      BY <1>14, <2>4 DEF Renews, TakeJob
    <3>2. CASE k = j
      BY <1>14, <3>1, <3>2 DEF TakeJob, At, Renews, NoRun
    <3>3. CASE k # j
      BY <1>14, <3>1, <3>3 DEF TakeJob, Renews, TypeOK
    <3>4. QED
      BY <3>2, <3>3
  <2>5. QED
    BY <2>1, <2>3, <2>4
<1>15. ASSUME SkipJob PROVE Freshened'
  <2> SUFFICES ASSUME NEW h \in Gallery, NEW b \in Asset,
                      <<h, b>> \in items', assigned'[h] # NoMark, b \notin Excused',
                      Outdated(stamp', run', setting', ContentOf[b], assigned'[h])
               PROVE  Renews(waiting', run', setting', b, assigned'[h]) \/ \E p \in Request : Promises(request'[p], h, b, assigned'[h])
    BY DEF Freshened
  <2>1. UNCHANGED <<items, assigned, setting, request>> /\ Excused \subseteq Excused'
    BY <1>15 DEF SkipJob, galleryVars, Excused
  <2>2. Outdated(stamp, run, setting, ContentOf[b], assigned[h])
    BY <1>15, <2>1 DEF Outdated, SkipJob
  <2>3. Renews(waiting, run, setting, b, assigned[h]) \/ \E p \in Request : Promises(request[p], h, b, assigned[h])
    BY <2>1, <2>2 DEF Freshened
  <2>4. ASSUME Renews(waiting, run, setting, b, assigned[h]) PROVE Renews(waiting', run', setting', b, assigned[h])
    BY <1>15, <2>4 DEF SkipJob, Renews, Excused
  <2>5. QED
    BY <2>1, <2>3, <2>4
<1>16. ASSUME ReadSetting PROVE Freshened'
  <2> SUFFICES ASSUME NEW h \in Gallery, NEW b \in Asset,
                      <<h, b>> \in items', assigned'[h] # NoMark, b \notin Excused',
                      Outdated(stamp', run', setting', ContentOf[b], assigned'[h])
               PROVE  Renews(waiting', run', setting', b, assigned'[h]) \/ \E p \in Request : Promises(request'[p], h, b, assigned'[h])
    BY DEF Freshened
  <2>1. UNCHANGED <<items, assigned, setting, request>> /\ Excused \subseteq Excused'
    BY <1>16 DEF ReadSetting, galleryVars, copyVars, Excused
  <2>2. Outdated(stamp, run, setting, ContentOf[b], assigned[h])
    BY <1>16, <2>1 DEF Outdated, ReadSetting, At, copyVars, NoRun
  <2>3. Renews(waiting, run, setting, b, assigned[h]) \/ \E p \in Request : Promises(request[p], h, b, assigned[h])
    BY <2>1, <2>2 DEF Freshened
  <2>4. ASSUME Renews(waiting, run, setting, b, assigned[h]) PROVE Renews(waiting', run', setting', b, assigned[h])
    BY <1>16, <2>1, <2>4 DEF ReadSetting, At, Renews, NoRun
  <2>5. QED
    BY <2>1, <2>3, <2>4
<1>17. ASSUME LoadFile PROVE Freshened'
  <2> SUFFICES ASSUME NEW h \in Gallery, NEW b \in Asset,
                      <<h, b>> \in items', assigned'[h] # NoMark, b \notin Excused',
                      Outdated(stamp', run', setting', ContentOf[b], assigned'[h])
               PROVE  Renews(waiting', run', setting', b, assigned'[h]) \/ \E p \in Request : Promises(request'[p], h, b, assigned'[h])
    BY DEF Freshened
  <2>1. UNCHANGED <<items, assigned, setting, request>> /\ Excused \subseteq Excused'
    BY <1>17 DEF LoadFile, galleryVars, copyVars, Excused
  <2>2. Outdated(stamp, run, setting, ContentOf[b], assigned[h])
    BY <1>17, <2>1 DEF Outdated, LoadFile, At, copyVars, NoRun
  <2>3. Renews(waiting, run, setting, b, assigned[h]) \/ \E p \in Request : Promises(request[p], h, b, assigned[h])
    BY <2>1, <2>2 DEF Freshened
  <2>4. ASSUME Renews(waiting, run, setting, b, assigned[h]) PROVE Renews(waiting', run', setting', b, assigned[h])
    BY <1>17, <2>1, <2>4 DEF LoadFile, At, Renews, NoRun
  <2>5. QED
    BY <2>1, <2>3, <2>4
<1>18. ASSUME NEW v \in Variant, WriteCopy(v) PROVE Freshened'
  <2> SUFFICES ASSUME NEW h \in Gallery, NEW b \in Asset,
                      <<h, b>> \in items', assigned'[h] # NoMark, b \notin Excused',
                      Outdated(stamp', run', setting', ContentOf[b], assigned'[h])
               PROVE  Renews(waiting', run', setting', b, assigned'[h]) \/ \E p \in Request : Promises(request'[p], h, b, assigned'[h])
    BY DEF Freshened
  <2>1. UNCHANGED <<items, assigned, setting, request>> /\ Excused \subseteq Excused'
    BY <1>18 DEF WriteCopy, galleryVars, Excused
  <2>2. Outdated(stamp, run, setting, ContentOf[b], assigned[h])
    <3>1. ContentOf[b] \in Content
      BY DEF WatermarkAssumption
    <3>2. CASE \E u \in Variant : /\ stamp'[ContentOf[b]][u] # Clean
                                  /\ stamp'[ContentOf[b]][u].mark = assigned[h]
                                  /\ stamp'[ContentOf[b]][u].setting # setting[assigned[h]]
      <4>1. PICK u \in Variant : /\ stamp'[ContentOf[b]][u] # Clean
                                 /\ stamp'[ContentOf[b]][u].mark = assigned[h]
                                 /\ stamp'[ContentOf[b]][u].setting # setting[assigned[h]]
        BY <3>2
      <4>2. CASE stamp'[ContentOf[b]][u] = stamp[ContentOf[b]][u]
        BY <4>1, <4>2 DEF Outdated
      <4>3. CASE stamp'[ContentOf[b]][u] # stamp[ContentOf[b]][u]
        <5>1. /\ ContentOf[b] = ContentOf[run.job.asset]
              /\ stamp'[ContentOf[b]][u] = [mark |-> run.job.mark, setting |-> run.seen]
          BY <1>18, <3>1, <4>3, Written
        <5>2. run.job.mark = assigned[h] /\ run.seen # setting[assigned[h]]
          BY <4>1, <5>1
        <5>3. run # NoRun /\ run.at = "write"
          BY <1>18, Written
        <5>4. QED
          BY <5>1, <5>2, <5>3 DEF Outdated
      <4>4. QED
        BY <4>2, <4>3
    <3>3. CASE /\ run' # NoRun /\ run'.at # "begin"
               /\ ContentOf[run'.job.asset] = ContentOf[b] /\ run'.job.mark = assigned[h]
               /\ run'.seen # setting[assigned[h]]
      <4>1. run' = [at |-> "write", job |-> run.job, seen |-> run.seen, left |-> run.left \ {v}]
        BY <1>18, <3>3 DEF WriteCopy, At
      <4>2. run'.job = run.job /\ run'.seen = run.seen
        BY <4>1
      <4>3. run # NoRun /\ run.at = "write"
        BY <1>18, Written
      <4>4. QED
        BY <3>3, <4>2, <4>3 DEF Outdated
    <3>4. QED
      BY <2>1, <3>2, <3>3 DEF Outdated
  <2>3. Renews(waiting, run, setting, b, assigned[h]) \/ \E p \in Request : Promises(request[p], h, b, assigned[h])
    BY <2>1, <2>2 DEF Freshened
  <2>4. ASSUME Renews(waiting, run, setting, b, assigned[h]) PROVE Renews(waiting', run', setting', b, assigned[h])
    <3>1. UNCHANGED waiting
      BY <1>18 DEF WriteCopy
    <3>2. CASE run.left # {v}
      BY <1>18, <2>1, <2>4, <3>1, <3>2, Written DEF WriteCopy, At, Renews, NoRun
    <3>3. CASE run.left = {v} /\ ~(run.job.asset = b /\ run.job.mark = assigned[h] /\ run.seen = setting[assigned[h]])
      BY <1>18, <2>1, <2>4, <3>1, <3>3, Written DEF Renews
    <3>4. CASE run.left = {v} /\ run.job.asset = b /\ run.job.mark = assigned[h] /\ run.seen = setting[assigned[h]]
      <4>1. run' = NoRun
        BY <1>18, <3>4 DEF WriteCopy
      <4>2. \A u \in Variant : stamp'[ContentOf[b]][u] = [mark |-> assigned[h], setting |-> setting[assigned[h]]]
        <5>1. run # NoRun /\ run.at = "write"
          BY <1>18, Written
        <5>2. \A u \in Variant \ {v} :
                stamp[ContentOf[b]][u] = [mark |-> assigned[h], setting |-> setting[assigned[h]]]
          BY <3>4, <5>1 DEF Rendered
        <5>3. \A u \in Variant : stamp'[ContentOf[b]][u] =
                IF u = v THEN [mark |-> assigned[h], setting |-> setting[assigned[h]]]
                ELSE stamp[ContentOf[b]][u]
          BY <1>18, <3>1, <3>4, Written
        <5>4. QED
          BY <5>2, <5>3
      <4>3. ~Outdated(stamp', run', setting', ContentOf[b], assigned[h])
        BY <2>1, <4>1, <4>2 DEF Outdated
      <4>4. QED
        BY <2>1, <4>3
    <3>5. QED
      BY <3>2, <3>3, <3>4
  <2>5. QED
    BY <2>1, <2>3, <2>4
<1>19. ASSUME JobThrows PROVE Freshened'
  <2> SUFFICES ASSUME NEW h \in Gallery, NEW b \in Asset,
                      <<h, b>> \in items', assigned'[h] # NoMark, b \notin Excused',
                      Outdated(stamp', run', setting', ContentOf[b], assigned'[h])
               PROVE  Renews(waiting', run', setting', b, assigned'[h]) \/ \E p \in Request : Promises(request'[p], h, b, assigned'[h])
    BY DEF Freshened
  <2>1. UNCHANGED <<items, assigned, setting, request>> /\ Excused \subseteq Excused'
    BY <1>19, Ends DEF galleryVars, Returned, Excused
  <2>2. Outdated(stamp, run, setting, ContentOf[b], assigned[h])
    BY <1>19, <2>1, Ends DEF Outdated
  <2>3. Renews(waiting, run, setting, b, assigned[h]) \/ \E p \in Request : Promises(request[p], h, b, assigned[h])
    BY <2>1, <2>2 DEF Freshened
  <2>4. ASSUME Renews(waiting, run, setting, b, assigned[h]) PROVE Renews(waiting', run', setting', b, assigned[h])
    <3>1. \A j \in Job : waiting[j] > 0 => waiting'[j] > 0
      BY <1>19, Ends DEF Returned, TypeOK
    <3>2. ASSUME run.job.asset = b PROVE \E k \in Job : waiting'[k] > 0 /\ k.asset = b /\ k.mark = run.job.mark
      <4>1. b \notin reported'
        BY DEF Excused
      <4>2. PICK k \in Job : /\ k.asset = b /\ k.mark = run.job.mark
                            /\ waiting' = [waiting EXCEPT ![k] = @ + 1]
        BY <1>19, Ends, <3>2, <4>1 DEF Returned
      <4>3. QED
        BY <4>2 DEF TypeOK
    <3>3. QED
      BY <2>4, <3>1, <3>2 DEF Renews
  <2>5. QED
    BY <2>1, <2>3, <2>4
<1>20. ASSUME JobFails PROVE Freshened'
  <2> SUFFICES ASSUME NEW h \in Gallery, NEW b \in Asset,
                      <<h, b>> \in items', assigned'[h] # NoMark, b \notin Excused',
                      Outdated(stamp', run', setting', ContentOf[b], assigned'[h])
               PROVE  Renews(waiting', run', setting', b, assigned'[h]) \/ \E p \in Request : Promises(request'[p], h, b, assigned'[h])
    BY DEF Freshened
  <2>1. UNCHANGED <<items, assigned, setting, request>> /\ Excused \subseteq Excused'
    BY <1>20, Ends DEF galleryVars, Returned, Excused
  <2>2. Outdated(stamp, run, setting, ContentOf[b], assigned[h])
    BY <1>20, <2>1, Ends DEF Outdated
  <2>3. Renews(waiting, run, setting, b, assigned[h]) \/ \E p \in Request : Promises(request[p], h, b, assigned[h])
    BY <2>1, <2>2 DEF Freshened
  <2>4. ASSUME Renews(waiting, run, setting, b, assigned[h]) PROVE Renews(waiting', run', setting', b, assigned[h])
    <3>1. \A j \in Job : waiting[j] > 0 => waiting'[j] > 0
      BY <1>20, Ends DEF Returned, TypeOK
    <3>2. ASSUME run.job.asset = b PROVE \E k \in Job : waiting'[k] > 0 /\ k.asset = b /\ k.mark = run.job.mark
      <4>1. b \notin reported'
        BY DEF Excused
      <4>2. PICK k \in Job : /\ k.asset = b /\ k.mark = run.job.mark
                            /\ waiting' = [waiting EXCEPT ![k] = @ + 1]
        BY <1>20, Ends, <3>2, <4>1 DEF Returned
      <4>3. QED
        BY <4>2 DEF TypeOK
    <3>3. QED
      BY <2>4, <3>1, <3>2 DEF Renews
  <2>5. QED
    BY <2>1, <2>3, <2>4
<1>21. ASSUME WorkerDies PROVE Freshened'
  <2> SUFFICES ASSUME NEW h \in Gallery, NEW b \in Asset,
                      <<h, b>> \in items', assigned'[h] # NoMark, b \notin Excused',
                      Outdated(stamp', run', setting', ContentOf[b], assigned'[h])
               PROVE  Renews(waiting', run', setting', b, assigned'[h]) \/ \E p \in Request : Promises(request'[p], h, b, assigned'[h])
    BY DEF Freshened
  <2>1. UNCHANGED <<items, assigned, setting, request>> /\ Excused \subseteq Excused'
    BY <1>21, Ends DEF galleryVars, Returned, Excused
  <2>2. Outdated(stamp, run, setting, ContentOf[b], assigned[h])
    BY <1>21, <2>1, Ends DEF Outdated
  <2>3. Renews(waiting, run, setting, b, assigned[h]) \/ \E p \in Request : Promises(request[p], h, b, assigned[h])
    BY <2>1, <2>2 DEF Freshened
  <2>4. ASSUME Renews(waiting, run, setting, b, assigned[h]) PROVE Renews(waiting', run', setting', b, assigned[h])
    <3>1. \A j \in Job : waiting[j] > 0 => waiting'[j] > 0
      BY <1>21, Ends DEF Returned, TypeOK
    <3>2. ASSUME run.job.asset = b PROVE \E k \in Job : waiting'[k] > 0 /\ k.asset = b /\ k.mark = run.job.mark
      <4>1. b \notin reported'
        BY DEF Excused
      <4>2. PICK k \in Job : /\ k.asset = b /\ k.mark = run.job.mark
                            /\ waiting' = [waiting EXCEPT ![k] = @ + 1]
        BY <1>21, Ends, <3>2, <4>1 DEF Returned
      <4>3. QED
        BY <4>2 DEF TypeOK
    <3>3. QED
      BY <2>4, <3>1, <3>2 DEF Renews
  <2>5. QED
    BY <2>1, <2>3, <2>4
<1>22. CASE UNCHANGED vars
  BY <1>22 DEF vars, galleryVars, copyVars, Freshened, Excused
<1>23. QED
  BY <1>1, <1>2, <1>3, <1>4, <1>5, <1>6, <1>7, <1>8, <1>9, <1>10, <1>11, <1>12, <1>13, <1>14, <1>15, <1>16, <1>17, <1>18, <1>19, <1>20, <1>21, <1>22
     DEF Next, RequestStep, Studio, WorkerStep

\* While copies and rows stay as they are, it is enough that no pending job
\* of a ready asset is lost without a report.
LEMMA AgreedKept ==
  ASSUME Agreed, Rendered, UNCHANGED <<stamp, rows>>, reported \subseteq reported', ready \subseteq ready',
         \A b \in Asset : b \in ready /\ Pending(b) => b \in reported' \/ Pending(b)'
  PROVE  Agreed'
<1>1. \A c : Mended(c) => Mended(c)'
  BY DEF Mended
<1>2. QED
  BY <1>1 DEF Agreed, Rendered

LEMMA AgreedStep ==
  ASSUME WatermarkAssumption, TypeOK, Shape, Agreed, [Next]_vars PROVE Agreed'
<1> USE DEF Shape
<1>1. ASSUME NEW r \in Request, NEW g \in Gallery, ReadMark(r, g) PROVE Agreed'
  <2>1. UNCHANGED <<stamp, rows>> /\ reported \subseteq reported' /\ ready \subseteq ready'
    BY <1>1 DEF ReadMark, copyVars
  <2>2. \A b \in Asset : b \in ready /\ Pending(b) => b \in reported' \/ Pending(b)'
    BY <1>1 DEF ReadMark, Pending, Waits, Runs
  <2>3. QED
    BY <2>1, <2>2, AgreedKept
<1>2. ASSUME NEW r \in Request, NEW g \in Gallery, ReadItems(r, g) PROVE Agreed'
  <2>1. UNCHANGED <<stamp, rows>> /\ reported \subseteq reported' /\ ready \subseteq ready'
    BY <1>2 DEF ReadItems, copyVars
  <2>2. \A b \in Asset : b \in ready /\ Pending(b) => b \in reported' \/ Pending(b)'
    BY <1>2 DEF ReadItems, Pending, Waits, Runs
  <2>3. QED
    BY <2>1, <2>2, AgreedKept
<1>3. ASSUME NEW r \in Request, NEW g \in Gallery, AddBulk(r, g) PROVE Agreed'
  <2>1. UNCHANGED <<stamp, rows>> /\ reported \subseteq reported' /\ ready \subseteq ready'
    BY <1>3 DEF AddBulk, copyVars
  <2>2. \A b \in Asset : b \in ready /\ Pending(b) => b \in reported' \/ Pending(b)'
    BY <1>3, BulkWaits
  <2>3. QED
    BY <2>1, <2>2, AgreedKept
<1>4. ASSUME NEW r \in Request, ReadGalleries(r) PROVE Agreed'
  <2>1. UNCHANGED <<stamp, rows>> /\ reported \subseteq reported' /\ ready \subseteq ready'
    BY <1>4 DEF ReadGalleries, copyVars
  <2>2. \A b \in Asset : b \in ready /\ Pending(b) => b \in reported' \/ Pending(b)'
    BY <1>4 DEF ReadGalleries, Pending, Waits, Runs
  <2>3. QED
    BY <2>1, <2>2, AgreedKept
<1>5. ASSUME NEW r \in Request, DeleteFile(r) PROVE Agreed'
  <2>1. UNCHANGED <<stamp, rows>> /\ reported \subseteq reported' /\ ready \subseteq ready'
    BY <1>5 DEF DeleteFile, copyVars
  <2>2. \A b \in Asset : b \in ready /\ Pending(b) => b \in reported' \/ Pending(b)'
    BY <1>5 DEF DeleteFile, Pending, Waits, Runs
  <2>3. QED
    BY <2>1, <2>2, AgreedKept
<1>6. ASSUME NEW r \in Request, NEW g \in Gallery, NEW A \in (SUBSET Asset) \ {{}}, AddItems(r, g, A) PROVE Agreed'
  <2>1. UNCHANGED <<stamp, rows>> /\ reported \subseteq reported' /\ ready \subseteq ready'
    BY <1>6 DEF AddItems, copyVars
  <2>2. \A b \in Asset : b \in ready /\ Pending(b) => b \in reported' \/ Pending(b)'
    BY <1>6 DEF AddItems, Pending, Waits, Runs
  <2>3. QED
    BY <2>1, <2>2, AgreedKept
<1>7. ASSUME NEW r \in Request, NEW g \in Gallery, NEW w \in Mark, AssignMark(r, g, w) PROVE Agreed'
  <2>1. UNCHANGED <<stamp, rows>> /\ reported \subseteq reported' /\ ready \subseteq ready'
    BY <1>7 DEF AssignMark, copyVars
  <2>2. \A b \in Asset : b \in ready /\ Pending(b) => b \in reported' \/ Pending(b)'
    BY <1>7 DEF AssignMark, Pending, Waits, Runs
  <2>3. QED
    BY <2>1, <2>2, AgreedKept
<1>8. ASSUME NEW r \in Request, NEW w \in Mark, EditMark(r, w) PROVE Agreed'
  <2>1. UNCHANGED <<stamp, rows>> /\ reported \subseteq reported' /\ ready \subseteq ready'
    BY <1>8 DEF EditMark, copyVars
  <2>2. \A b \in Asset : b \in ready /\ Pending(b) => b \in reported' \/ Pending(b)'
    BY <1>8 DEF EditMark, Pending, Waits, Runs
  <2>3. QED
    BY <2>1, <2>2, AgreedKept
<1>9. ASSUME NEW r \in Request, NEW w \in Mark, DeleteMark(r, w) PROVE Agreed'
  <2>1. UNCHANGED <<stamp, rows>> /\ reported \subseteq reported' /\ ready \subseteq ready'
    BY <1>9 DEF DeleteMark, copyVars
  <2>2. \A b \in Asset : b \in ready /\ Pending(b) => b \in reported' \/ Pending(b)'
    BY <1>9 DEF DeleteMark, Pending, Waits, Runs
  <2>3. QED
    BY <2>1, <2>2, AgreedKept
<1>10. ASSUME NEW r \in Request, RequestDies(r) PROVE Agreed'
  <2>1. UNCHANGED <<stamp, rows>> /\ reported \subseteq reported' /\ ready \subseteq ready'
    BY <1>10 DEF RequestDies, copyVars
  <2>2. \A b \in Asset : b \in ready /\ Pending(b) => b \in reported' \/ Pending(b)'
    BY <1>10 DEF RequestDies, Pending, Waits, Runs
  <2>3. QED
    BY <2>1, <2>2, AgreedKept
<1>11. ASSUME NEW g \in Gallery, NEW a \in Asset, RemoveItem(g, a) PROVE Agreed'
  <2>1. UNCHANGED <<stamp, rows>> /\ reported \subseteq reported' /\ ready \subseteq ready'
    BY <1>11 DEF RemoveItem, copyVars
  <2>2. \A b \in Asset : b \in ready /\ Pending(b) => b \in reported' \/ Pending(b)'
    BY <1>11 DEF RemoveItem, Pending, Waits, Runs
  <2>3. QED
    BY <2>1, <2>2, AgreedKept
<1>12. ASSUME NEW g \in Gallery, ClearMark(g) PROVE Agreed'
  <2>1. UNCHANGED <<stamp, rows>> /\ reported \subseteq reported' /\ ready \subseteq ready'
    BY <1>12 DEF ClearMark, copyVars
  <2>2. \A b \in Asset : b \in ready /\ Pending(b) => b \in reported' \/ Pending(b)'
    BY <1>12 DEF ClearMark, Pending, Waits, Runs
  <2>3. QED
    BY <2>1, <2>2, AgreedKept
<1>13. ASSUME NEW a \in Asset, Ingested(a) PROVE Agreed'
  <2>1. UNCHANGED <<stamp, rows>> /\ reported \subseteq reported' /\ ready \subseteq ready'
    BY <1>13 DEF Ingested, copyVars
  <2>2. \A b \in Asset : b \in ready /\ Pending(b) => b \in reported' \/ Pending(b)'
    BY <1>13 DEF Ingested, Pending, Waits, Runs
  <2>3. QED
    BY <2>1, <2>2, AgreedKept
<1>14. ASSUME NEW j \in Job, TakeJob(j) PROVE Agreed'
  <2>1. UNCHANGED <<stamp, rows>> /\ reported \subseteq reported' /\ ready \subseteq ready'
    BY <1>14 DEF TakeJob, copyVars
  <2>2. \A b \in Asset : b \in ready /\ Pending(b) => b \in reported' \/ Pending(b)'
    BY <1>14, TakePending
  <2>3. QED
    BY <2>1, <2>2, AgreedKept
<1>15. ASSUME SkipJob PROVE Agreed'
  <2>1. UNCHANGED <<stamp, rows>> /\ reported \subseteq reported' /\ ready \subseteq ready'
    BY <1>15 DEF SkipJob, copyVars
  <2>2. \A b \in Asset : b \in ready /\ Pending(b) => b \in reported' \/ Pending(b)'
    BY <1>15, SkipPending
  <2>3. QED
    BY <2>1, <2>2, AgreedKept
<1>16. ASSUME ReadSetting PROVE Agreed'
  <2>1. UNCHANGED <<stamp, rows>> /\ reported \subseteq reported' /\ ready \subseteq ready'
    BY <1>16 DEF ReadSetting, copyVars
  <2>2. \A b \in Asset : b \in ready /\ Pending(b) => b \in reported' \/ Pending(b)'
    BY <1>16 DEF ReadSetting, At, Pending, Waits, Runs, NoRun
  <2>3. QED
    BY <2>1, <2>2, AgreedKept
<1>17. ASSUME LoadFile PROVE Agreed'
  <2>1. UNCHANGED <<stamp, rows>> /\ reported \subseteq reported' /\ ready \subseteq ready'
    BY <1>17 DEF LoadFile, copyVars
  <2>2. \A b \in Asset : b \in ready /\ Pending(b) => b \in reported' \/ Pending(b)'
    BY <1>17 DEF LoadFile, At, Pending, Waits, Runs, NoRun
  <2>3. QED
    BY <2>1, <2>2, AgreedKept
<1>18. ASSUME NEW v \in Variant, WriteCopy(v) PROVE Agreed'
  <2>0. PICK d \in Asset : d = run.job.asset
    BY <1>18, Written
  <2> DEFINE s == [mark |-> run.job.mark, setting |-> run.seen]
  <2>1. /\ run # NoRun /\ run.at = "write" /\ d \in Asset /\ d \in ready
        /\ UNCHANGED <<ready, waiting, reported>> /\ rows' = rows \cup {<<d, v>>}
        /\ \A c \in Content, u \in Variant :
             stamp'[c][u] = IF c = ContentOf[d] /\ u = v THEN s ELSE stamp[c][u]
    <3>1. /\ run # NoRun /\ run.at = "write" /\ rows' = rows \cup {<<d, v>>}
          /\ \A c \in Content, u \in Variant :
               stamp'[c][u] = IF c = ContentOf[d] /\ u = v THEN s ELSE stamp[c][u]
      BY <1>18, <2>0, Written
    <3>2. UNCHANGED <<ready, waiting, reported>>
      BY <1>18 DEF WriteCopy
    <3>3. d \in ready
      BY <2>0, <3>1 DEF Rendered
    <3>4. QED
      BY <3>1, <3>2, <3>3
  <2>2. \A b \in Asset : b # d /\ Pending(b) => Pending(b)'
    BY <2>0, <2>1 DEF Pending, Waits, Runs
  <2>3. \A b \in Asset : b # d /\ (b \in reported \/ (b \in ready /\ Pending(b)))
           => b \in reported' \/ (b \in ready' /\ Pending(b)')
    BY <2>1, <2>2
  <2>4. CASE run.left # {v}
    <3>1. Pending(d)' /\ d \in ready'
      BY <1>18, <2>0, <2>1, <2>4 DEF WriteCopy, At, Pending, Runs, NoRun
    <3>2. \A b \in Asset : b \in reported \/ (b \in ready /\ Pending(b))
             => b \in reported' \/ (b \in ready' /\ Pending(b)')
      BY <2>3, <3>1
    <3>3. \A c \in Content : c = ContentOf[d] \/ Mended(c) => Mended(c)'
      BY <2>1, <3>1, <3>2 DEF Mended
    <3>4. ASSUME NEW c \in Content, NEW u \in Variant, NEW t \in Variant, stamp'[c][u] # stamp'[c][t]
          PROVE  Mended(c)'
      BY <2>1, <3>3, <3>4 DEF Agreed
    <3>5. ASSUME NEW a \in Asset, NEW u \in Variant, NEW t \in Variant,
                 <<a, u>> \in rows', <<a, t>> \notin rows'
          PROVE  a \in reported' \/ Pending(a)'
      BY <2>1, <2>2, <3>1, <3>5 DEF Agreed
    <3>6. QED
      BY <3>4, <3>5 DEF Agreed
  <2>5. CASE run.left = {v}
    <3>1. \A u \in Variant : <<d, u>> \in rows' /\ stamp'[ContentOf[d]][u] = s
      <4>1. \A u \in Variant \ {v} : <<d, u>> \in rows /\ stamp[ContentOf[d]][u] = s
        BY <2>0, <2>1, <2>5 DEF Rendered
      <4>2. ContentOf[d] \in Content
        BY <1>18, <2>0, Written
      <4>3. QED
        BY <2>1, <4>1, <4>2
    <3>2. ASSUME NEW c \in Content, NEW u \in Variant, NEW t \in Variant, stamp'[c][u] # stamp'[c][t]
          PROVE  Mended(c)'
      <4>1. c # ContentOf[d]
        BY <3>1, <3>2
      <4>2. Mended(c)
        BY <2>1, <3>2, <4>1 DEF Agreed
      <4>3. QED
        BY <2>3, <4>1, <4>2 DEF Mended
    <3>3. ASSUME NEW a \in Asset, NEW u \in Variant, NEW t \in Variant,
                 <<a, u>> \in rows', <<a, t>> \notin rows'
          PROVE  a \in reported' \/ Pending(a)'
      <4>1. a # d
        BY <3>1, <3>3
      <4>2. QED
        BY <2>1, <2>2, <3>3, <4>1 DEF Agreed
    <3>4. QED
      BY <3>2, <3>3 DEF Agreed
  <2>6. QED
    BY <2>4, <2>5
<1>19. ASSUME JobThrows PROVE Agreed'
  <2>1. UNCHANGED <<stamp, rows, ready>> /\ reported \subseteq reported'
    BY <1>19, Ends DEF Returned
  <2>2. \A b \in Asset : b \in ready /\ Pending(b) => b \in reported' \/ Pending(b)'
    BY <1>19, EndsPending DEF Pending
  <2>3. QED
    BY <2>1, <2>2, AgreedKept
<1>20. ASSUME JobFails PROVE Agreed'
  <2>1. UNCHANGED <<stamp, rows, ready>> /\ reported \subseteq reported'
    BY <1>20, Ends DEF Returned
  <2>2. \A b \in Asset : b \in ready /\ Pending(b) => b \in reported' \/ Pending(b)'
    BY <1>20, EndsPending DEF Pending
  <2>3. QED
    BY <2>1, <2>2, AgreedKept
<1>21. ASSUME WorkerDies PROVE Agreed'
  <2>1. UNCHANGED <<stamp, rows, ready>> /\ reported \subseteq reported'
    BY <1>21, Ends DEF Returned
  <2>2. \A b \in Asset : b \in ready /\ Pending(b) => b \in reported' \/ Pending(b)'
    BY <1>21, EndsPending DEF Pending
  <2>3. QED
    BY <2>1, <2>2, AgreedKept
<1>22. CASE UNCHANGED vars
  BY <1>22 DEF vars, galleryVars, copyVars, Agreed, Mended, Pending, Waits, Runs
<1>23. QED
  BY <1>1, <1>2, <1>3, <1>4, <1>5, <1>6, <1>7, <1>8, <1>9, <1>10, <1>11, <1>12, <1>13, <1>14, <1>15, <1>16, <1>17, <1>18, <1>19, <1>20, <1>21, <1>22
     DEF Next, RequestStep, Studio, WorkerStep

------------------------------------------------------------------------------
(* The theorems.                                                           *)

IInv == TypeOK /\ Shape /\ Covered /\ Freshened /\ Agreed

LEMMA IInvInit == ASSUME WatermarkAssumption, Init PROVE IInv
<1>1. Covered /\ Freshened
  BY DEF Init, Covered, Freshened
<1>2. Agreed
  BY DEF Init, Agreed
<1>3. QED
  BY <1>1, <1>2, TypeInit, ShapeInit DEF IInv

LEMMA IInvStep == ASSUME WatermarkAssumption, IInv, [Next]_vars PROVE IInv'
  BY TypeStep, RequestsStep, AssignedStep, RenderedStep, CoveredStep, FreshenedStep, AgreedStep
     DEF IInv, Shape

\* Nothing is pending or coming any more.
LEMMA QuietIdle ==
  ASSUME TypeOK, Quiet
  PROVE  /\ \A a : ~Pending(a)
         /\ \A g, a : ~Coming(g, a)
         /\ \A k \in Job : ~(waiting[k] > 0)
         /\ run = NoRun
         /\ \A r \in Request : \A g, a, w : ~Promises(request[r], g, a, w)
  BY DEF Quiet, Pending, Waits, Runs, Coming, Free, Promises

\* Whichever of a photo and a mark comes to a gallery first, however their
\* requests interleave and attempts fail, the photo ends up marked or the
\* failure was reported.
THEOREM EveryPhotoMarked == ASSUME WatermarkAssumption PROVE Spec => []MarkedWhenQuiet
<1>1. ASSUME IInv PROVE MarkedWhenQuiet
  BY <1>1, QuietIdle DEF IInv, Shape, Rendered, MarkedWhenQuiet, ItemsOf, Shown, Covered
<1>2. QED
  BY IInvInit, IInvStep, <1>1, PTL DEF Spec

\* A gallery does not go on showing its mark with settings of before an edit.
THEOREM MarksAreFresh == ASSUME WatermarkAssumption PROVE Spec => []FreshWhenQuiet
<1>1. ASSUME IInv PROVE FreshWhenQuiet
  <2> SUFFICES ASSUME Quiet, NEW g \in Gallery, NEW a \in ItemsOf(g) \ Excused, NEW v \in Variant,
                      assigned[g] # NoMark, Shown(g, a, v) # Clean, Shown(g, a, v).mark = assigned[g],
                      Shown(g, a, v).setting # setting[assigned[g]]
               PROVE  FALSE
    BY DEF FreshWhenQuiet
  <2>1. Shown(g, a, v) = stamp[ContentOf[a]][v]
    BY DEF Shown
  <2>2. Outdated(stamp, run, setting, ContentOf[a], assigned[g])
    BY <2>1 DEF Outdated
  <2>3. \/ Renews(waiting, run, setting, a, assigned[g])
        \/ \E r \in Request : Promises(request[r], g, a, assigned[g])
    BY <1>1, <2>2 DEF IInv, Freshened, ItemsOf
  <2>4. QED
    BY <1>1, <2>3, QuietIdle DEF IInv, Renews
<1>2. QED
  BY IInvInit, IInvStep, <1>1, PTL DEF Spec

\* Jobs for several marks, and for copies of a photo, leave variants that
\* agree, or a report.
THEOREM OneMarkPerPhoto == ASSUME WatermarkAssumption PROVE Spec => []VariantsAgree
<1>1. ASSUME IInv PROVE VariantsAgree
  <2> SUFFICES ASSUME Quiet, NEW g \in Gallery, NEW a \in Asset,
                      \A b \in reported : ContentOf[b] # ContentOf[a],
                      NEW u \in Variant, NEW v \in Variant
               PROVE  Shown(g, a, u) = Shown(g, a, v)
    BY DEF VariantsAgree
  <2>1. stamp[ContentOf[a]][u] = stamp[ContentOf[a]][v]
    BY <1>1, QuietIdle DEF IInv, Agreed, Mended, WatermarkAssumption
  <2>2. a \notin reported
    OBVIOUS
  <2>3. <<a, u>> \in rows <=> <<a, v>> \in rows
    BY <1>1, <2>2, QuietIdle DEF IInv, Agreed
  <2>4. QED
    BY <2>1, <2>3 DEF Shown
<1>2. QED
  BY IInvInit, IInvStep, <1>1, PTL DEF Spec
=============================================================================
