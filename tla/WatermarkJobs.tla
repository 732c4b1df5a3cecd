----------------------------- MODULE WatermarkJobs -----------------------------
(***************************************************************************)
(* Watermarks: the studio's requests that assign a mark to a gallery, edit *)
(* or delete it, and add photos to galleries; the jobs those requests      *)
(* enqueue; the worker that renders marked copies of a photo; and what a   *)
(* visitor of a gallery is shown.                                          *)
(*                                                                         *)
(* Marked copies are stored under the sha256 of the photo, one object per  *)
(* variant, so assets that are copies of one content share them; the       *)
(* derivative rows belong to one asset.  The queue runs one job at a time  *)
(* but, with retries delayed, in no order one can rely on: it is a bag.    *)
(***************************************************************************)
EXTENDS Naturals, FiniteSets

CONSTANTS Asset, Content,
          ContentOf,    \* [Asset -> Content], the sha256
          Gallery,
          Mark,         \* watermark rows
          NoMark,       \* gallery.watermarkId null
          Variant,      \* the sizes and formats of the marked copies
          Request,      \* studio requests that may be under way at once
          Clean,        \* what is shown when there is no marked copy
          Attempts,     \* the watermark queue's attempts option (3)
          MaxRequests,  \* bound: requests of the studio, but for RemoveItem
          MaxFaults     \* bound: failing or dying attempts and requests

ASSUME WatermarkAssumption ==
  /\ ContentOf \in [Asset -> Content]
  /\ NoMark \notin Mark
  /\ Clean \notin [mark : Mark, setting : Nat]
  /\ Variant # {}
  /\ Attempts \in Nat \ {0}
  /\ MaxRequests \in Nat
  /\ MaxFaults \in Nat

VARIABLES marks,      \* the watermark rows there are
          files,      \* marks whose PNG is in the bucket
          setting,    \* position and opacity of a mark, as a version
          assigned,   \* gallery.watermarkId
          items,      \* the gallery_item rows
          ready,      \* assets with status "ready"
          request,    \* what each request under way has still to do
          waiting,    \* how many of each job wait to be run
          run,        \* the job the worker is at
          rows,       \* the derivative rows with watermarked = true
          stamp,      \* the mark and setting a stored copy was rendered with
          reported,   \* assets with a failed job or request somebody was told of
          skipped,    \* assets a job found not ready
          asked, faults

galleryVars == <<marks, files, setting, assigned, items>>
copyVars    == <<rows, stamp, reported, skipped>>
vars == <<galleryVars, ready, request, waiting, run, copyVars, asked, faults>>

Stamp   == [mark : Mark, setting : Nat]
Job     == [asset : Asset, mark : Mark, tries : 0 .. Attempts - 1, stalled : BOOLEAN]
Free    == [at |-> "free", mark |-> NoMark, read |-> {}, add |-> {}]
Doing   == [at : {"free", "mark", "galleries", "items", "file"}, mark : Mark \cup {NoMark},
            read : SUBSET Gallery, add : SUBSET (Gallery \X Asset)]
Running == [at : {"begin", "load", "write"}, job : Job, seen : Nat, left : SUBSET Variant]
NoRun   == [at |-> "none"]

TypeOK ==
  /\ marks \subseteq Mark
  /\ files \subseteq Mark
  /\ setting \in [Mark -> Nat]
  /\ assigned \in [Gallery -> Mark \cup {NoMark}]
  /\ items \subseteq Gallery \X Asset
  /\ ready \subseteq Asset
  /\ request \in [Request -> Doing]
  /\ waiting \in [Job -> Nat]
  /\ run \in Running \cup {NoRun}
  /\ rows \subseteq Asset \X Variant
  /\ stamp \in [Content -> [Variant -> Stamp \cup {Clean}]]
  /\ reported \subseteq Asset
  /\ skipped \subseteq Asset
  /\ asked \in Nat
  /\ faults \in Nat

Init ==
  /\ marks = Mark
  /\ files = Mark
  /\ setting = [w \in Mark |-> 0]
  /\ assigned = [g \in Gallery |-> NoMark]
  /\ items = {}
  /\ ready \in SUBSET Asset
  /\ request = [r \in Request |-> Free]
  /\ waiting = [j \in Job |-> 0]
  /\ run = NoRun
  /\ rows = {}
  /\ stamp = [c \in Content |-> [v \in Variant |-> Clean]]
  /\ reported = {}
  /\ skipped = {}
  /\ asked = 0
  /\ faults = 0

Fault == faults < MaxFaults /\ faults' = faults + 1

------------------------------------------------------------------------------
(* Requests of the studio.                                                 *)

Asking == asked < MaxRequests /\ asked' = asked + 1

Begin(r, q) ==
  /\ request[r] = Free
  /\ Asking
  /\ request' = [request EXCEPT ![r] = q]

Go(r, q) == request' = [request EXCEPT ![r] = q]

\* The galleries whose items are still to be read and the items still to be
\* enqueued for mark w; with none left the request answers.
Enqueuing(w, R, S) ==
  IF R = {} /\ S = {} THEN Free ELSE [at |-> "items", mark |-> w, read |-> R, add |-> S]

\* The items of g that are in the gallery now.
ItemsOf(g) == {a \in Asset : <<g, a>> \in items}

\* POST items: the rows are inserted first, the gallery's mark is read next.
AddItems(r, g, A) ==
  /\ Begin(r, [at |-> "mark", mark |-> NoMark, read |-> {}, add |-> {g} \X A])
  /\ items' = items \cup ({g} \X A)
  /\ UNCHANGED <<marks, files, setting, assigned, ready, waiting, run, copyVars, faults>>

ReadMark(r, g) ==
  /\ request[r].at = "mark"
  /\ \E a \in Asset : <<g, a>> \in request[r].add
  /\ Go(r, IF assigned[g] = NoMark THEN Free
           ELSE Enqueuing(assigned[g], {}, request[r].add))
  /\ UNCHANGED <<galleryVars, ready, waiting, run, copyVars, asked, faults>>

\* DELETE items.
RemoveItem(g, a) ==
  /\ <<g, a>> \in items
  /\ items' = items \ {<<g, a>>}
  /\ UNCHANGED <<marks, files, setting, assigned, ready, request, waiting, run,
                 copyVars, asked, faults>>

\* PATCH gallery: watermarkId is a foreign key.
AssignMark(r, g, w) ==
  /\ w \in marks
  /\ Begin(r, Enqueuing(w, {g}, {}))
  /\ assigned' = [assigned EXCEPT ![g] = w]
  /\ UNCHANGED <<marks, files, setting, items, ready, waiting, run, copyVars, faults>>

ClearMark(g) ==
  /\ assigned[g] # NoMark
  /\ Asking
  /\ assigned' = [assigned EXCEPT ![g] = NoMark]
  /\ UNCHANGED <<marks, files, setting, items, ready, request, waiting, run,
                 copyVars, faults>>

\* PATCH watermark, with a position or an opacity.
EditMark(r, w) ==
  /\ w \in marks
  /\ Begin(r, [at |-> "galleries", mark |-> w, read |-> {}, add |-> {}])
  /\ setting' = [setting EXCEPT ![w] = @ + 1]
  /\ UNCHANGED <<marks, files, assigned, items, ready, waiting, run, copyVars, faults>>

Affected(w) == {g \in Gallery : assigned[g] = w}

ReadGalleries(r) ==
  /\ request[r].at = "galleries"
  /\ Go(r, Enqueuing(request[r].mark, Affected(request[r].mark), {}))
  /\ UNCHANGED <<galleryVars, ready, waiting, run, copyVars, asked, faults>>

\* enqueueWatermarkForGallery, one call for each gallery of the request.
ReadItems(r, g) ==
  /\ request[r].at = "items"
  /\ g \in request[r].read
  /\ Go(r, Enqueuing(request[r].mark, request[r].read \ {g},
                     request[r].add \cup ({g} \X ItemsOf(g))))
  /\ UNCHANGED <<galleryVars, ready, waiting, run, copyVars, asked, faults>>

Added(r, g) == {a \in Asset : <<g, a>> \in request[r].add}

\* Mutant of AddBulk: a job that is already running is not added again.
AddBulkOnce(r, g) ==
  /\ request[r].at = "items"
  /\ Added(r, g) # {}
  /\ waiting' = [j \in Job |->
       IF /\ j.asset \in Added(r, g) /\ j.mark = request[r].mark /\ j.tries = 0 /\ ~j.stalled
          /\ ~(run # NoRun /\ run.job.asset = j.asset /\ run.job.mark = j.mark)
       THEN waiting[j] + 1 ELSE waiting[j]]
  /\ Go(r, Enqueuing(request[r].mark, request[r].read, request[r].add \ ({g} \X Asset)))
  /\ UNCHANGED <<galleryVars, ready, run, copyVars, asked, faults>>

AddBulk(r, g) ==
  /\ request[r].at = "items"
  /\ Added(r, g) # {}
  /\ waiting' = [j \in Job |->
       IF j.asset \in Added(r, g) /\ j.mark = request[r].mark /\ j.tries = 0 /\ ~j.stalled
       THEN waiting[j] + 1 ELSE waiting[j]]
  /\ Go(r, Enqueuing(request[r].mark, request[r].read, request[r].add \ ({g} \X Asset)))
  /\ UNCHANGED <<galleryVars, ready, run, copyVars, asked, faults>>

\* DELETE watermark: the galleries fall back to no mark, the PNG goes last.
DeleteMark(r, w) ==
  /\ w \in marks
  /\ Begin(r, [at |-> "file", mark |-> w, read |-> {}, add |-> {}])
  /\ marks' = marks \ {w}
  /\ assigned' = [g \in Gallery |-> IF assigned[g] = w THEN NoMark ELSE assigned[g]]
  /\ UNCHANGED <<files, setting, items, ready, waiting, run, copyVars, faults>>

DeleteFile(r) ==
  /\ request[r].at = "file"
  /\ files' = files \ {request[r].mark}
  /\ Go(r, Free)
  /\ UNCHANGED <<marks, setting, assigned, items, ready, waiting, run, copyVars, asked, faults>>

\* The assets a request still has to enqueue a job for.
Owes(r) ==
  {a \in Asset : \E g \in Gallery :
     \/ <<g, a>> \in request[r].add
     \/ /\ <<g, a>> \in items
        /\ \/ g \in request[r].read
           \/ request[r].at = "galleries" /\ g \in Affected(request[r].mark)}

\* Postgres or Redis fails, or the server restarts: the studio gets an error.
RequestDies(r) ==
  /\ request[r] # Free
  /\ Fault
  /\ reported' = reported \cup Owes(r)
  /\ Go(r, Free)
  /\ UNCHANGED <<galleryVars, ready, waiting, run, rows, stamp, skipped, asked>>

------------------------------------------------------------------------------
(* The worker.                                                             *)

\* The ingest worker finishes with a photo.
Ingested(a) ==
  /\ a \notin ready
  /\ ready' = ready \cup {a}
  /\ UNCHANGED <<galleryVars, request, waiting, run, copyVars, asked, faults>>

At(s, j, n, L) == run' = [at |-> s, job |-> j, seen |-> n, left |-> L]

TakeJob(j) ==
  /\ run = NoRun
  /\ waiting[j] > 0
  /\ waiting' = [waiting EXCEPT ![j] = @ - 1]
  /\ At("begin", j, 0, Variant)
  /\ UNCHANGED <<galleryVars, ready, request, copyVars, asked, faults>>

\* An asset that is not ready is left alone and the job is done with.
SkipJob ==
  /\ run.at = "begin"
  /\ run.job.asset \notin ready
  /\ skipped' = skipped \cup {run.job.asset}
  /\ run' = NoRun
  /\ UNCHANGED <<galleryVars, ready, request, waiting, rows, stamp, reported, asked, faults>>

\* The row is read: position and opacity are those of this moment.
ReadSetting ==
  /\ run.at = "begin"
  /\ run.job.asset \in ready
  /\ run.job.mark \in marks
  /\ At("load", run.job, setting[run.job.mark], run.left)
  /\ UNCHANGED <<galleryVars, ready, request, waiting, copyVars, asked, faults>>

LoadFile ==
  /\ run.at = "load"
  /\ run.job.mark \in files
  /\ At("write", run.job, run.seen, run.left)
  /\ UNCHANGED <<galleryVars, ready, request, waiting, copyVars, asked, faults>>

\* Mutant of WriteCopy: the setting is read again for every variant.
WriteCopyNow(v) ==
  /\ run.at = "write"
  /\ v \in run.left
  /\ stamp' = [stamp EXCEPT ![ContentOf[run.job.asset]][v] =
                 [mark |-> run.job.mark, setting |-> setting[run.job.mark]]]
  /\ rows' = rows \cup {<<run.job.asset, v>>}
  /\ IF run.left = {v} THEN run' = NoRun ELSE At("write", run.job, run.seen, run.left \ {v})
  /\ UNCHANGED <<galleryVars, ready, request, waiting, reported, skipped, asked, faults>>

\* putObject over the shared key, then the upsert of the asset's row.
WriteCopy(v) ==
  /\ run.at = "write"
  /\ v \in run.left
  /\ stamp' = [stamp EXCEPT ![ContentOf[run.job.asset]][v] =
                 [mark |-> run.job.mark, setting |-> run.seen]]
  /\ rows' = rows \cup {<<run.job.asset, v>>}
  /\ IF run.left = {v} THEN run' = NoRun ELSE At("write", run.job, run.seen, run.left \ {v})
  /\ UNCHANGED <<galleryVars, ready, request, waiting, reported, skipped, asked, faults>>

\* Back in the queue, or in the failed list, where the worker logs it.
TryAgain(j) ==
  /\ waiting' = [waiting EXCEPT ![j] = @ + 1]
  /\ UNCHANGED reported

Abandon(a) ==
  /\ reported' = reported \cup {a}
  /\ UNCHANGED waiting

\* The attempt throws and counts.
Retry(j) ==
  IF j.tries + 1 < Attempts THEN TryAgain([j EXCEPT !.tries = @ + 1])
  ELSE Abandon(j.asset)

\* The mark or its PNG is gone.
JobThrows ==
  /\ \/ /\ run.at = "begin"
        /\ run.job.asset \in ready
        /\ run.job.mark \notin marks
     \/ run.at = "load" /\ run.job.mark \notin files
  /\ Retry(run.job)
  /\ run' = NoRun
  /\ UNCHANGED <<galleryVars, ready, request, rows, stamp, skipped, asked, faults>>

\* Mutant of JobFails: the error is caught, and the job counts as completed.
JobEndsEarly ==
  /\ run # NoRun
  /\ Fault
  /\ run' = NoRun
  /\ UNCHANGED <<galleryVars, ready, request, waiting, copyVars, asked>>

\* Anything else throws: Postgres, the bucket, the renderer.
JobFails ==
  /\ run # NoRun
  /\ Fault
  /\ Retry(run.job)
  /\ run' = NoRun
  /\ UNCHANGED <<galleryVars, ready, request, rows, stamp, skipped, asked>>

\* Mutant of WorkerDies: the job is lost with the worker.
WorkerForgets ==
  /\ run # NoRun
  /\ Fault
  /\ run' = NoRun
  /\ UNCHANGED <<galleryVars, ready, request, waiting, copyVars, asked>>

\* The worker is killed: BullMQ puts a stalled job back, once.
WorkerDies ==
  /\ run # NoRun
  /\ Fault
  /\ IF run.job.stalled THEN Abandon(run.job.asset)
     ELSE TryAgain([run.job EXCEPT !.stalled = TRUE])
  /\ run' = NoRun
  /\ UNCHANGED <<galleryVars, ready, request, rows, stamp, skipped, asked>>

------------------------------------------------------------------------------
RequestStep(r) ==
  \/ \E g \in Gallery : ReadMark(r, g) \/ ReadItems(r, g) \/ AddBulk(r, g)
  \/ ReadGalleries(r)
  \/ DeleteFile(r)

WorkerStep ==
  \/ \E j \in Job : TakeJob(j)
  \/ SkipJob
  \/ ReadSetting
  \/ LoadFile
  \/ \E v \in Variant : WriteCopy(v)
  \/ JobThrows

Studio(r) ==
  \/ \E g \in Gallery, A \in (SUBSET Asset) \ {{}} : AddItems(r, g, A)
  \/ \E g \in Gallery, w \in Mark : AssignMark(r, g, w)
  \/ \E w \in Mark : EditMark(r, w) \/ DeleteMark(r, w)
  \/ RequestDies(r)

Next ==
  \/ \E r \in Request : RequestStep(r) \/ Studio(r)
  \/ \E g \in Gallery, a \in Asset : RemoveItem(g, a)
  \/ \E g \in Gallery : ClearMark(g)
  \/ \E a \in Asset : Ingested(a)
  \/ WorkerStep
  \/ JobFails
  \/ WorkerDies

\* A request that has begun goes on, and the worker runs.
Fairness ==
  /\ \A r \in Request : WF_vars(RequestStep(r))
  /\ WF_vars(WorkerStep)

Spec == Init /\ [][Next]_vars /\ Fairness

------------------------------------------------------------------------------
(* What a visitor is shown, and the properties.                            *)

\* loadGalleryImages: the marked copy over the clean one, if there is a row.
Shown(g, a, v) ==
  IF assigned[g] # NoMark /\ <<a, v>> \in rows THEN stamp[ContentOf[a]][v] ELSE Clean

Quiet ==
  /\ run = NoRun
  /\ \A j \in Job : waiting[j] = 0
  /\ \A r \in Request : request[r] = Free

Excused == reported \cup skipped

\* Once requests and jobs have settled, every photo of a gallery that has a
\* mark is shown with one, whichever of the photo and the mark came first;
\* unless somebody was told of a failure, or the photo was not ready.
MarkedWhenQuiet ==
  Quiet => \A g \in Gallery : \A a \in ItemsOf(g) \ Excused, v \in Variant :
             assigned[g] # NoMark => Shown(g, a, v) # Clean

\* Of its own mark, a gallery shows the settings that are current ("every
\* gallery using this watermark needs its derivatives regenerated").
FreshWhenQuiet ==
  Quiet => \A g \in Gallery : \A a \in ItemsOf(g) \ Excused, v \in Variant :
             (assigned[g] # NoMark /\ Shown(g, a, v) # Clean /\ Shown(g, a, v).mark = assigned[g])
               => Shown(g, a, v).setting = setting[assigned[g]]

\* The variants of a photo agree: the grid and the lightbox show one mark,
\* though jobs for several marks and for copies of the photo overwrite each
\* other's objects and may fail half way.
VariantsAgree ==
  Quiet => \A g \in Gallery, a \in Asset :
             (\A b \in reported : ContentOf[b] # ContentOf[a])
               => \A u, v \in Variant : Shown(g, a, u) = Shown(g, a, v)

\* A photo in a gallery with a mark gets a marked copy, or it is said why not.
EventuallyMarked ==
  \A g \in Gallery, a \in Asset :
    (<<g, a>> \in items /\ assigned[g] # NoMark)
      ~> \/ <<g, a>> \notin items \/ assigned[g] = NoMark
         \/ a \in Excused
         \/ \A v \in Variant : <<a, v>> \in rows

==============================================================================
