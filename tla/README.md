# Verification of the photo site

TLA+ models of the Next.js photo site in this repository, the TLC runs that
check them on small instances, and theorems about them that TLAPS proves for
every instance. Paths below are relative to the application's source root,
`src/` for the app and the worker and `scripts/` for the tools.

    tlc -workers 2 -config IngestSafety.cfg MCIngestPipeline   # one run
    tlapm IngestPipelineProofs.tla                             # one proof module

`PROJECT.json` lists the runs with their configurations, the source lines every
definition stands for, a mutant for each property, the findings and the hazards.

## 1. The system

Photos are dropped on a page of the studio, hashed and sent by the browser
straight to a B2 bucket, registered by route handlers in Postgres, processed by
a worker that takes jobs from BullMQ queues in Redis, attached to galleries, and
shown to visitors. Three programs run concurrently (any number of browser
pages, the Next.js server, one worker process) and share four stores (Postgres,
Redis, B2, the browser's IndexedDB). Nearly every function is a chain of
`await`s with other code running in between; no statement below spans two
stores, and only sibling linking and reordering are database transactions.

### Inventory

| Component | Code | State | Operations | What makes it correct | Here |
|---|---|---|---|---|---|
| Batch accounting | `lib/ingest/batch.ts`, `api/upload/{check,complete,batch}` | `import_batch` rows | open, count a file, finalize | each file counted once; the verdict agrees with the files; a batch that can close does | `IngestPipeline`, `BatchLedger` |
| Ingest worker | `worker/index.ts`, `worker/process-ingest.ts`, `lib/queue.ts` | jobs, `asset.status` | run a job, retry, recover from a stall | no asset forgotten; `failed` only after the last attempt | `IngestPipeline` |
| Resumable uploads | `studio/upload/upload-lib.ts`, `pending-uploads-db.ts`, `api/upload/{init,part-url,complete}` | IndexedDB records, multipart uploads, objects, asset rows | start, resume, send parts, complete, forget | a row has complete bytes; what was sent is not lost or sent again | `ResumableUpload`, `DurableUpload` |
| Upload page | `studio/upload/use-uploader.ts`, `upload-dropzone.tsx`, `api/upload/status` | entries, the destination ref, polls | drop, process, poll, attach | a photo gets to the gallery it was dropped on; every entry settles | `UploadPage` |
| Sibling groups | `linkSiblingsIntoGroup` in `worker/process-ingest.ts` | `group_id`, `is_group_primary` | link | one primary per group | `UploadPage` |
| Watermarks | `worker/process-watermark.ts`, `lib/ingest/watermark-enqueue.ts`, `api/watermarks`, gallery routes | marks, jobs, marked copies | assign, edit, delete, render, show | a gallery with a mark shows marked copies, current and the same in every size | `WatermarkJobs` |
| Folder drops | `studio/upload/organize-drop.ts`, `read-dropped-files.ts` | folders and galleries found or made by name | list, post, list again | no duplicates, every file in the gallery of its path | `FolderDrop` in `Site` |
| Folders, galleries | `api/folders`, `api/galleries`, `studio/galleries/[id]` | the tree, slugs, item positions, what an open page holds | create, rename, show, delete, reorder, edit | nothing dangles, one total order, a page shows what is stored | `SiteTree` in `Site`, `GalleryEditor` in `Studio` |
| Public site | `lib/public-site/resolve.ts`, `sitemap-entries.ts`, `app/[...path]`, `app/search`, `app/keywords` | none (reads) | resolve a path, list, search | links resolve to what they name; one notion of visibility | `SiteTree` in `Site` |
| Library | `api/library` | `deleted_at` | delete | every reader leaves deleted photos out | the deletion and its readers in `SiteTree` and `GalleryEditor`; the library page is left out |
| Client proofing | `api/public/*`, `api/client-access`, `g/[token]` | access links, favourites, comments | open, toggle, comment, revoke, read the inbox | page and rows agree; nothing is marked read unseen | `ClientProofing` in `Studio` |
| Downloads | `lib/public-site/download.ts`, the four public routes | none | check and name what is asked for | what a page offers is served while it would still offer it | `ClientProofing`, `Studio`; zip entry names and streams are left out |
| Scripts | `scripts/scan-bucket.ts`, `reprocess-assets.ts`, `smugmug-export/*` | record files, rows, objects, jobs | export, import, adopt, queue again | an interrupted run continues; nothing is lost or forgotten | `AlbumExport`, `AlbumImport`, `BucketScan` in `Site` |
| Job rows | `upsertJobRow` in `worker/index.ts` | `job` rows | upsert | - | left out: an error log nothing reads back |
| Image pipeline | `lib/ingest/derivative.ts`, EXIF | none | resize, composite | - | left out: pixels |
| Storage | `lib/storage.ts`, `api/cdn` | none | B2 calls | - | its calls, where the models make them |
| Accounts, settings, contact, health | `lib/auth`, `api/auth`, `api/site-settings`, `api/contact`, `api/health` | single rows | read, write | - | left out: single statements, mail, probes |
| Visual components | `components/*`, `justify.ts` | local view state | render, animate | - | left out, but for what they send and show of favourites and comments |
| Abort route | `api/upload/abort` | none | abort a multipart upload | - | left out: nothing calls it |
| Backups and alerts | `scripts/*.sh` | none here | dump, sync, probe | - | left out: cron jobs around `pg_dump` and `rclone` |

### How the parts interact

* The page calls `/check`, then `/init` and `/part-url`, sends the bytes to B2,
  then `/complete`. The handlers of `/check` and `/complete` count duplicates
  in the batch; `/complete` inserts the asset and enqueues the ingest job.
* The worker's listeners count finished jobs in the same batch row. Whoever
  counts then calls `maybeFinalizeBatch`, so it can run twice at once.
* The page polls `/status` from an interval, by asset id, and attaches what
  is ready and eligible with `POST galleries/[id]/items`. The answer depends on
  sibling groups, which the worker links after the asset is `ready`.
* `POST items`, `PATCH gallery` and `PATCH watermark` enqueue watermark jobs.
  They and the worker share galleries, items, and marked copies.

* A dropped directory, the studio and the importer create rows of the same tree;
  the database's unique constraints and cascades are all that orders them. The
  public pages read the tree in several ways of their own.
* The editor page of a gallery, in any number of tabs, sends a fetch for every
  click and loads the gallery again after it, every four seconds while its
  uploader is open, and on the uploader's progress. Saved orders are
  transactions over the item rows.
* A client's page changes favourites before they are stored and comments after;
  the studio's list of links counts unread comments and its inbox marks them.
* The exporter leaves files for the importer, the importer rows, objects and
  jobs for the worker; scan and reprocess go over the same rows.

### What is hard about it

Interleaving of handlers and listeners on one row; values read before an await
and used after it (`asset.status`, the destination ref, the mark's settings, a
batch row); two stores updated one after the other (bytes and row, row and job,
object and derivative row); pages that close, handlers that die, jobs that
stall; objects and records keyed by content and shared by copies of a file;
look-ups by name followed by inserts; answers that arrive out of order at a page
that has changed; scripts that die between two of their writes and start again.
`PROJECT.json` lists these hazards line by line with the properties that would
catch them.

## 2. The modules

| Module | What it is |
|---|---|
| `BatchLedger` | abstract: a batch is opened, each file settled once, and closed with a verdict when all are |
| `IngestPipeline` | requests, jobs, asset status, batch counters |
| `IngestPipelineProofs` | its theorems |
| `DurableUpload` | abstract: a content is stored, then registered, and neither is taken back |
| `ResumableUpload` | pages, IndexedDB records, multipart uploads, `/complete` |
| `ResumableUploadProofs` | its theorems |
| `UploadPage` | drops, entries, polls, attachment, sibling groups |
| `UploadPageProofs` | its theorems |
| `WatermarkJobs` | studio requests, watermark queue and worker, what is shown |
| `WatermarkProofs` | its theorems |
| `SiteTree` | folders, galleries, items, and every way the site reads them |
| `FolderDrop`, `AlbumExport`, `AlbumImport`, `BucketScan` | dropped directories and the scripts, each with its own state, over the tree and the bucket |
| `Site` | their composition: a scene names who takes part and the tree it starts from |
| `SiteProofs` | theorems about the tree, the views of it, the scripts' records, and the types |
| `MoveProofs` | theorems about what drops and scripts do to the tree and the queue |
| `LinkProofs` | theorems about paths: what links open, what browsing meets, where old links end, in which order photos stand |
| `GalleryEditor` | the editor page in some tabs, its fetches, and the handlers behind them |
| `ClientProofing` | client links, favourites, comments, the inbox, downloads |
| `Studio` | their composition around one gallery, with the cascade of its deletion |
| `StudioProofs` | its theorems |
| `MC*` | values of the constants for TLC |

In all of them an action is what a function does between two awaits. A request
or a job that can be cut off at an await has a program counter. Counters that
would be unbounded (faults, crashes, requests) are capped by constants named
`Max...` in the guards. Definitions marked as mutants (they precede what they
change) are plausible bugs; they are used only to see that the properties fail
when the code is broken in that way.

### IngestPipeline

`upload[f]` is where `processOne` and the handler it awaits are for file `f`:
`/check` (`Check`), the transfer (`Transfer`), then `/complete`, which looks the
sha256 up again (`CompleteLookup`), inserts (`CompleteInsert`) and enqueues
(`CompleteEnqueue`); `RequestFails` is any of these dying. `job[f]` goes through
the awaits of `processIngestJob`: the guard on `ready` reads the status and acts
on it a step later (`GuardReady`, `GuardPass`, `BeginWork`), so two jobs for one
asset do what they do in the code. `EndAttempt` and `WorkerCrash` are BullMQ's
retries and its stalled jobs. `tally[f]` is one "increment, read, write verdict"
sequence, wherever it runs. `Matches` is the lookup by content, which ignores
the status of the row it finds.

Left out: the `job` table, metadata and derivatives (the work between two
statuses), the reprocess script.

### ResumableUpload

An attempt is a run of `processOne`, in a page that may close. `pc` is the
page, `srv` its `/complete` request, which outlives the page. Part workers,
`updatePendingUploadParts` (which rewrites the parts of whichever record has the
sha256) and `completeMultipartUpload` (which consumes the uploadId) are steps of
their own. IndexedDB may refuse in a page (`store`), which the code tolerates.
`FreshPage` restricts attempts at one content to follow each other; without it
they overlap.

Left out: progress reporting, the expiry of part URLs. The object of a content is
one variable: `originalKey` also contains the month of the upload, so attempts
in different months write different objects; a row names the object its own
handler verified, and the model makes the attempts share it, the harder case.

### UploadPage

`drop[d]` is `runBatch`, `entry[f]` is `processOne`, `poll[i]` are status
requests of the interval: it does not wait for its own requests, so several
overlap and are answered in any order (`Ask`, `Answer`, one `PollItem` per item
of the answer). `ref` is `galleryIdRef.current`, which all drops share and which
is read when an entry is attached. `Link` is the transaction in
`linkSiblingsIntoGroup`, `Preferred` its choice of a primary; the rows are read
in no order, so the choice among equals is arbitrary. `duplicateMode` is the
dialog's choice (`ChooseMode`, locked once there are entries); `CheckSkip` does not
read it, since `processOne` is a callback made at the first render and keeps that
render's "skip". Copies that are kept can therefore only be seen in
`IngestPipeline`, whose `Mode` is what a request to the routes may say.

Left out: wake lock, progress dialog, the mount sweep (in `ResumableUpload`).

### WatermarkJobs

`request[r]` is what a studio request has still to do: read the gallery's mark,
the affected galleries, the items of each, and enqueue (`ReadMark`,
`ReadGalleries`, `ReadItems`, `AddBulk`); the row it writes first is part of its
first step. `waiting` is a bag of jobs, since retries with backoff are not run
in order. The worker reads the asset and the mark (`SkipJob`, `ReadSetting`),
loads (`LoadFile`) and writes variant by variant (`WriteCopy`); objects belong
to the content, rows to the asset. `Shown` is what `loadGalleryImages` serves.

Left out: creating a mark, `DELETE` of a gallery (as removing all its items and
clearing its mark), the composition of pixels.

### SiteTree and Site

`folders`, `galleries`, `items`, `deleted` and `redirects` are the tables, the
first three as functions from ids. `PostFolder`/`PostGallery` is a create route
up to its last read (the visibility a new folder gets depends on what is
reachable by then), `PostInserts` and `PostRefused` the insert. Deletions cascade in the
same step. The public site is operators: `Walk` and `Resolve` (`resolvePath`),
`Sections` and `GridLinks` (a folder page), `HomeLinks`, `SitemapLinks`,
`SearchLinks`, `Reachable`, `Keywords`, `Browsed` (all that is met by clicking
from the home page). Where a query without an order may return either of two rows,
the operator returns the set.

`FolderDrop` walks `drop[d]` through list, post, insert and list again for every
segment of every path (`ListNames`, `PostName`, `InsertName`, `Relist`); each
request may fail, before or after the server acted. `AlbumExport` keeps memory
(`export`), the two files and the images apart; a crash inside a write leaves
`Torn`. `AlbumImport` has one action per statement of `import.ts` up to the
redirect, with the images of an album in parallel; `BucketScan` has those of
`scan-bucket.ts` and `reprocess-assets.ts`, the ingest worker reduced to what it
does to a row, the turn of the month (it is part of a storage key), and the
migration that drops the constraint which the scripts' upserts name.

Left out: covers and excerpts, passwords (a gallery's is in
`ClientProofing`), paging, the order of lists (only the positions), requests to
the old site beyond their failing, the reading of directory entries.

### GalleryEditor, ClientProofing and Studio

`page[t]` is the state of the React page in tab `t`, `call[c]` a fetch: sent,
served in one or more steps (`Serve`), answered, and heard by the page (`Hear`)
in any order or lost (`LoseCall`); `mute` marks one whose page is gone. Loads
take two steps, as the route has two queries, so the row and the list may be of
different moments. `UpdateRow` takes the lock of one row after the other,
`CommitOrder` stores what the transaction updated, `AbortOrder` is the database
ending one of two that wait for each other; removals wait for locks. The
settings form sends all its fields, the lightbox fetches a detail per photo. A
page that cannot draw what it holds is `crashed`: the code has two ways there (a
drag while the list shrinks, a detail that is a 404), and both are reached.

`post[q]` are the fetches of clients and of the list of links. A handler checks
the link, reads and writes in steps of its own. `heard`, `slipped` and `excused` are history: comments an
inbox answer brought, comments marked read that none holds, and favourites whose
requests overlapped or were refused.

A download is a navigation of its own (`nav[v]`, one at a time per visitor), from a
link's page (`OpenLink`) or the public one (`OpenPublic`), of one photo or of all in
a zip. What the page offers (`OffersDownload`, `OffersPublic`) is fixed when it is
rendered and kept in `view[v].downloads`; after the click (`Download`) the route reads
the link (`CheckLink`), the gallery (`CheckGallery`), the item (`FindItem`) and the photo
with its copy (`FindTarget`), or the items for a zip (`ZipItems`), one after another,
while the studio edits, removes, deletes and revokes. `lapsed` is history: the
photos which, at some moment since the click, the same page opened anew would not
have offered.

Left out: texts, titles and dates, the watermark setting (in `WatermarkJobs`),
the uploader inside the page (in `UploadPage`; here an upload is a photo that is
added), hashing of passwords, zip streams and entry names.

## 3. What is checked

Passing runs, every property with a mutant that breaks it:

| Run | Instance | Properties |
|---|---|---|
| `ingest_safety` | 3 files in 2 batches, 2 of one content and one kept duplicate, 1 dying request, 1 crash, 1 attempt | `OneCountPerFile`, `VerdictTruthful`, `CompletedMeansReady`, refinement `ImplementsLedger` |
| `ingest_settles` | 2 copies of a content in a batch, 3 attempts, 1 crash | `NoStrandedAsset`, `FailedAfterLastAttempt`, liveness `AssetSettles`, `BatchCloses` |
| `resume_alone` | 3 attempts one after the other, 3 parts, 2 part workers, 2 faults | `RecordedPartsArrived`, `UploadStillOpen`, action property `NoPartTwice`, liveness `EventuallyRegistered` |
| `resume_overlap` | 2 overlapping attempts at a large content, 1 at a small one, 2 faults, 1 dying `/complete` | `RegisteredHasBytes`, action property `NoResurrection`, refinement `ImplementsDurable` |
| `page_attaches` | a photo and its raw dropped on one gallery, the raw on another too, 1 failing ingest attempt | `AttachedToDestination`, `OnePrimary`, `ShownWhenSettled` |
| `page_settles` | 2 entries that come to share an asset, 2 overlapping polls, 1 failing request | liveness `EveryEntrySettles` |
| `mark_served` | 1 photo, 2 galleries, 2 marks, 2 variants, 3 requests of which 2 overlap, 1 fault, 2 attempts | `MarkedWhenQuiet`, `FreshWhenQuiet`, `VariantsAgree`, liveness `EventuallyMarked` |
| `site_moves` | every tree of 3 folders and 2 galleries the constraints allow, with a studio request; 2 drops beside the studio; exporter, importer, scanner, reprocessor, worker and operator in 9 further scenes | `TypeOK`, `TreeIntact`, `FlatViewsAgree`, `BrowsingFindsAll`, `LinksResolve`, `FilesLandByPath`, `RacesAreHarmless`, `RecordsAreBacked`, `FinishedScriptsQueueAll`, `OriginalsAreKept`, `OrderIsTheAlbums`, `OldLinksLeadOn` |
| `studio` | 3 photos, 2 tabs, 2 calls, 2 clients, 2 links, 2 comments, in twenty-two scenes | `OrderIsOneSave`, `HeartsAgree`, `UnseenStaysUnread`, `OfferedIsServed`, liveness `PageCatchesUp` |

Runs that end in a counterexample, each to a sentence in the repository:

| Run | Property | What it shows |
|---|---|---|
| `ingest_skipped` | `SkippedIsDone` | a file is skipped as the duplicate of an asset that failed for good |
| `export_manifest` | `FinishedManifestIsComplete` | after a crash inside the write of `manifest.json`, a run that finds every album on record ends without writing it |
| `page_keep` | `KeepMakesCopies` | with "Add as new copy" chosen before the first drop, a file that is there already is left alone (`upload-dropzone.tsx:94-97`, `use-uploader.ts:60-63`) |

### Disagreements without a run of their own

Met while modelling; the modules have the behaviour and, where a name is given,
the definition to check:

* `EveryBatchCloses` (`IngestPipeline`): a file whose destination or upload fails
  is announced to the batch but counted by nobody, and the batch stays open.
  `BatchCloses` states what holds.
* `AlwaysResumable` (`ResumableUpload`): when `/complete` dies after B2 assembled the
  parts, the record names a consumed uploadId and every later attempt fails on
  it. `UploadStillOpen` states what holds.
* `ShownIsServed` (`Studio`): ingest renders no derivatives of a video
  (`process-ingest.ts:117-119`), the gallery lists it all the same and the lightbox
  offers its download (`lightbox.tsx:87,318`), but under the policy "web"
  `resolveDownloadTarget` finds no 2560 jpeg and the route answers "not ready" for
  ever (`download/route.ts:38-39`); `DECISIONS.md:40` says that policy "always serves
  whatever's currently shown on screen". `OfferedIsServed` states what holds.
* `NoVisitorDownload` (`Studio`): "General site visitors get no download path at
  all, by design" (`api/public/download/route.ts:12-14`; `gallery-settings-modal.tsx:375`
  says so too), but the public page of a gallery offers downloads unless
  `publicDownloadsPolicy` is "off", and `gallery-download` and
  `gallery-download-zip` serve them without any link. (Add either of the two
  to the invariants of `Studio.cfg` to see its trace.)
* `ShownWhenSettled` holds for a photo and its raw, but not for two siblings of
  one kind: each may be asked about while the other is the primary, and neither
  gets into the gallery. `OneOfAKind` and `LeadersAgain` in `UploadPageProofs` say
  for which drops it is proved.
* The settings form writes back the sort order it was opened with
  (`gallery-settings-modal.tsx:141`): saving it after a drag in another tab turns
  "manual", which the items route had set, back into the old value.
* A photo with a marked copy is listed twice by `GET galleries/[id]`
  (`route.ts:33` joins every "400" webp row), so the grid has it twice and a drag
  saves the later of its places (`Listings`, `Place`).
* An album at the top of the old site lies under the folder "imported", which
  its redirect omits (`import.ts:232`): `OldLinksLeadOn` speaks of the others only.
* Search results below the first level name one folder only
  (`search/page.tsx:51`): `LinksResolve` leaves them out.
* Once migration 0012 has dropped the unique constraint on `sha256`, the scripts'
  `onConflictDoUpdate` on it fails every time; in the model the run dies there.

`RecordedPartsArrived` also fails without `FreshPage`: with two attempts at one
content the second `/init` replaces the record and the first one's worker writes
its parts into it, so a resume skips parts its uploadId never received. So does
`NoPartTwice`. (Set `FreshPage = FALSE` in `ResumeAlone.cfg` and keep one of the
two to see its trace.)

### Bounds, and why they are enough

Two files of one content and one other are what it takes for a duplicate to
race its original and for a batch to have a last file counted by another
process. One crash and one dying request can fall at any await; the second
would meet a state the first has left. `Attempts` is the real 3 where exhaustion
is the point and 1 or 2 where interleavings are. Three parts and two part
workers leave one part unsent, one in flight and one recorded. Two overlapping
polls suffice for an answer older than another. Two variants suffice for a
half-written photo, two galleries with two marks for jobs that overwrite each
other's objects (copies of one photo do so too: that is left to the theorems); three requests for an assignment, an edit and an addition.
Every bound is a `Max...` constant or a set in a `.cfg`; the theorems of section
4 have none of them.

`Site` and `Studio` start from scenes: not everybody acts in every behaviour,
since the parts meet only at a few rows. Three folders are what it takes for a
hidden folder between two others; two titles that differ in case and two with the
same slug cover the ways names clash; two drops that share a name and two runs
of a script, each of which may die anywhere, are the races there are. Two albums
share an image, one is excluded, one has a type that is not ingested. In
`studio`, two orders of three photos conflict in every way two permutations can,
in all six pairs with a third party adding or removing; two calls let every pair
of answers swap. `edits` bounds how much a person does.

`CHECK_DEADLOCK FALSE` is set throughout: when all files have settled, the
scripts have ended and the budgets are spent the system has stopped as it
should. The liveness properties find the stops that are wrong.

### Fairness

* `IngestPipeline`: weak fairness of each file's request, job and tally steps.
  Node's event loop runs a continuation that is ready, the worker picks jobs
  while it has a free slot. Dropping files, failing and crashing are never fair.
* `ResumableUpload`: weak fairness of a page's steps and of a handler's, and of
  `Start \/ Leave`: the mount sweep starts an attempt for each record without
  being asked. Closing pages and failing are bounded and not fair.
* `UploadPage`: weak fairness of a drop once begun, of entries, of the worker
  and of polls: `setInterval` fires again whatever an earlier tick did.
* `WatermarkJobs`: weak fairness of each request once begun and of the worker.

* `Studio`: weak fairness of serving and of hearing each call (a handler runs to
  its end, an answer that arrived is taken), strong fairness of each page's
  polling: `setInterval` goes on while the uploader is open, and the calls of
  other pages, which fill `Call` in the model, cannot stop it in a browser.
  People and losses are not fair; losses are bounded.
* `Site` claims no liveness: nothing in the code runs a script again.

## 4. What is proved

All theorems are of the form `Spec => ...` and hold for any sets of files,
contents, galleries, parts or requests and any values of the bounds that satisfy
the named assumption of the module (finite `File`, functions with the right
domains, `Attempts` at least 1). Invariants are not inductive as stated; the
strengthenings are conjunctions of named parts.

**IngestPipelineProofs** (assumption `PipelineAssumption`). `IInv` is `TypeOK`
and, per file, `Progress` (what a request has done determines whether a tally
may run and a file be counted), per batch `Counters` (the columns are the
cardinalities of the counted files), and `PendingVerdict` and `Verdict`: a
verdict somebody is about to write, and one that is written, agree with a batch
whose files are all counted. That is why a stale read is harmless: nobody counts
after it. From it: `TypeCorrect`, `CountsEachFileOnce`, `VerdictsAreTruthful`,
`LedgerImplemented` (refinement of `BatchLedger`). `FailuresAreExhausted` has an
invariant of its own about attempts. `CompletedIsReady` rests on `Alone`: jobs of
an asset are not forgotten, so a job that is the only one always was, and nobody
else wrote the status it left. `NothingIsStranded` states `NoStrandedAsset` for
behaviours without a dying request and with at most as many worker crashes as
BullMQ gives stalled jobs back (in the run the instance sees to both); `Attendance`
says who attends to each asset that is not settled, where a job that has written
its last status, but has not ended, counts no more.

**ResumableUploadProofs** (`UploadAssumption`). `Bytes` says where a handler may
be and what is in the bucket then, with `Progress` relating pages to handlers:
they give `RowsHaveBytes` and `DurableImplemented` for overlapping attempts.
`Uploads` (which uploadIds are live) and `Consumed` (one that was completed has
its content secured, unless a handler died) give `RecordsCanResume`. With
`FreshPage`, `Alone` (at most one attempt at a content runs) and `Listed` (parts
a record lists, the page holds and B2 has are nested) give
`RecordsListArrivedParts` and `RecordedPartsSentOnce`. `RecordsStayForgotten`
needs types only.

**UploadPageProofs** (`PageAssumption`). `Typed` is `TypeOK` with the fact that
an entry being attached has an asset. `PhotosArriveWhereDropped` assumes
`OneDestination` (drops that rely on the ref resolve to the same destination)
and carries `Flow`: drops that have begun, who may still write the ref, the
value it has when an entry is taken, and the entries a poll asks about. On a
folder page two drops may resolve to different galleries, where the assumption
fails; the ref is then simply wrong for one of them. `GroupsHaveOnePrimary`
needs no such assumption; its invariant `Flags` adds that only grouped
rows which exist are flagged. `WhatWasDroppedIsShown` assumes, besides
`OneDestination`, `OneOfAKind` (files with one name in a drop go to one place and
no two are of a kind) and `LeadersAgain` (what is dropped twice is not outranked
by a sibling); without them the code does leave photos out. `Led` says that a
member which is not the primary is outranked by another, `Told` that an entry
which ended without its photo in the gallery was outranked; a group is finite in
kinds, so somebody in it is outranked by nobody.

**WatermarkProofs** (`WatermarkAssumption`). `Shape` collects what requests,
assignments and the job under way may look like. `Covered`: an item of a gallery
with a mark has a full set of copies, or a job that waits or runs, or a request
that will enqueue one, or an excuse. `Freshened`: a copy with an old setting of
the assigned mark has a newer job or request behind it. `Agreed`: copies of a
content that differ, or a set of copies that is not complete, have a pending job
of a ready asset or a reported one. When nothing waits or
runs these are `EveryPhotoMarked`, `MarksAreFresh` and `OneMarkPerPhoto`. The
key is that both writers write before they read: the item before the gallery's
mark, the mark before the items.

**SiteProofs** (`SceneAssumption`: scenes start from a finite tree the constraints
admit and records an earlier run wrote; folders, galleries and the markers for
"none" and "not found" are told apart, as ids are). `Tree` is `TreeIntact` in
terms of the set of ids ever used: an id is fresh, so a new folder has no children
and cannot close a cycle; acyclicity is stated as "every set of folders has one
whose parent is outside it", which needs no induction. A deletion takes a set
closed under children, so what stays has its parents. `ViewsAgree` follows in any
such tree: walking down and walking up from public folders meet the same rows, by
that same well-foundedness. `Records` relates the exporter's memory and files at
each of its steps (`Shape`, `Memory`, `Inside`): what is in memory is whole on
disk before it is written. `Stock` follows each moving object (`Moving`) and gives
`OriginalsStay`. `Types` is `TypeOK` process by process, with what each must hold
at a step for its next one to keep it; together with `Stock` it gives `TypesHold`.

**MoveProofs**. `RowsStay` is what every action leaves alone as long as nothing is
renamed or deleted (`reshaped`, history). `LostRacesAreHarmless`: `Races` records
what a drop saw when a name was refused, a sibling with that slug. `RunsQueueAll`:
`Queued` says for each script, at each of its steps, which assets it has covered,
and that nothing uncovers one. `DropsLandByPath` needs paths: `Chain` is a
recursive function of the folders, so its existence and values come from
`WellFoundedInduction`'s principle applied to the parents, stated for a tree given
as an argument so that two can be compared (`RowsGrow`). `Route` says how far the
folders a drop has entered spell the path it is on. It assumes `Unrenamed`: in
every scene rows have the slug of their title; a row renamed before has another,
and a drop may then take one gallery by its title and another by its slug.

**LinkProofs**. The first three need the assumptions only: a slug has the form of one
and is its own slug (`TitleAssumption`, from `slug.ts`). `Walk` and `Sections` are
functions over 0..n (`IterateExists`). `LinksLeadHome`: the path of a folder
(`PathOf`) walks to that folder when no siblings share a slug, by well-foundedness
once more, and each link's path is one of these. `GridsShowWhatSearchFinds`: the
levels of a grid are at most as many as there are folders (`DepthBound`), so
level by level everything reachable is met. `OldLinksHold`: `Places` says how the
folders the importer has entered, and the galleries of albums it has left a
redirect for, spell the old path; `Redirected` that a redirect leads to the slugs
of its path; then `Visit` follows at most the redirects there are.
`OrdersAreTheAlbums` needs two invariants. `Complete`: while no request has
failed for good, whatever the exporter holds or has written, and the importer has
read, of an album is the whole of it in its order (`Gathered` counts it up, image
by image). `Arranged`: in the gallery at an album's place each item stands where
the album shows it first (`Sorted`), the importer has passed exactly the images
before its own (`Filling`), and an album it has left is in its gallery
(`Filled`). Sorted is about places and not about the importer, so that an item an
earlier, dead run inserted is covered too. Hypotheses: `OneGalleryEach` (two
exported albums do not have one path), `EarlierExact` and `AsAlbums` (the records
and galleries a scene starts with are such that an earlier run may have left them);
`SiteMoves`' scenes satisfy all three. The property itself excepts what breaks it
in the code: an image given up (`holes`, `outages`), a rename or deletion in the
meantime (`reshaped`), siblings with one slug, and an image shown twice in an
album, whose second place is not kept.

**StudioProofs** (`StudioAssumption`: orders under way where a behaviour starts
have saved nothing). `Orders` is `CallShape`, `Locked` (rows a transaction holds
exist, for removals wait) and `Saved` (the places of the order saved last are the stored
ones). A commit replaces both; an insertion leaves stored positions alone; a
removal or the deletion of the gallery takes rows nobody holds.
`NotReadUnseen` needs only the shape of requests: a comment starts unread, the
update that marks it runs after the read of the same request, whose answer is
heard, still under way, or lost. `HeartsFollowTheTable`: `Favourites` says of each
visitor and photo that page and row agree, or that exactly one request is under
way which is the visitor's own and will turn the row (`InTurn`), or that it is
excused. `OfferedDownloadsAreServed`: `Underway` says of each download that whatever
its page would not offer now has lapsed, that behind the gallery's check there is
a policy, behind the item's a photo, and that each photo refused or left out has
lapsed or has no copy. A check that fails reads a row that makes the page's own
condition false in that state (`PassKeepsClicked`), so the photo lapses at the
latest then; what is under way and not touched only gains (`StaysUnderway`).

The type invariants of the first four modules are theorems and no longer in the
runs.

### Only model-checked

Liveness (`AssetSettles`, `BatchCloses`, `EventuallyRegistered`,
`EveryEntrySettles`, `EventuallyMarked`, `PageCatchesUp`): TLAPS has no proof
rules for fairness and ENABLED here. Every invariant and action property of a
passing run is stated by a theorem, some under the hypotheses named above. The
type invariants of `Studio` (`EditorTypeOK`, `ClientTypeOK`) hold on the scenes of `MCStudio`; add `TypeOK` to
`Studio.cfg` to see it. No module declares a RECURSIVE operator.

### Not modelled

Besides the components the inventory leaves out: a lost drop is reported to
nobody (`upload-dropzone.tsx:131`), a rejected fetch leaves a button disabled
(`page.tsx:118`; in the model the page goes on from there); when
`/api/upload/batch` fails the entries stay queued (`use-uploader.ts:247`), which
`EveryEntrySettles` excludes; after a lost `/complete` answer the blob stays in
IndexedDB, since a duplicate never deletes it (`use-uploader.ts:145`); an asset
queued again by `reprocess-assets.ts` is counted twice by its old batch, as
the batch is not part of `Site`; siblings of two dropped subfolders with one
basename are grouped (`process-ingest.ts:54`), while `UploadPage` has one group
per drop; two siblings may lock their group's rows in opposite orders
(`process-ingest.ts:55`), while `Link` is one step; copies of a deleted mark may
be shown by another gallery until its own job has run (`watermarks/[id]/route.ts:47`),
and by covers (`resolve.ts:136`).

Where a step of a model is coarser, or freer, than the code:

* `UploadPage`: a job enqueued by a `/complete` that found the row there carries the
  batch of the other file (`complete/route.ts:119-127`), `Link` takes the drop of the
  asset; the lookup and the insert of `/complete` are one step, and their race is in
  `IngestPipeline`.
* `ResumableUpload`: IndexedDB fails for a page or not at all, not for one call
  (`SavePart`, `Forget`).
* `IngestPipeline`: a client that fails and a handler that dies are one action
  (`RequestFails`); a stalled job comes with the death of its worker, so two copies of
  one job do not run side by side (two jobs of one asset do).
* `WatermarkJobs`: storing a copy and its row is one step (`WriteCopy`). A request that
  dies counts as reported to somebody (`RequestDies`), though the upload page swallows a
  failed `addToGallery` (`use-uploader.ts:124-127`).
* `BucketScan`: whether an ingest succeeds is decided by the key in the row, where
  the job carries its own (`process-ingest.ts:87`); they differ only after a month
  has turned, which the properties except.
* `AlbumExport`: a write of an image that fails half way and is caught
  (`export.ts:189`) is a failure without a file.
* `GalleryEditor`: the cover is chosen among the photos live at that moment, not
  among those the form loaded (`gallery-settings-modal.tsx:126-139`); the deletion of
  the gallery waits for all locks at once, so that it is not one of two transactions
  of which the database ends one.
* `ClientProofing`: a page is rendered in one step, though it reads link, gallery and
  photos one by one; the copies of a zip's photos are looked up in one step, as no
  copy comes or goes in `Studio`; a client's page is not rendered again by the
  `router.push` of its lightbox (`gallery-view.tsx:128`).

## 5. Plan

Done: `BatchLedger` and `IngestPipeline`, `DurableUpload` and `ResumableUpload`,
`UploadPage`, `WatermarkJobs`, `Site` with its parts, `Studio` with its parts,
and the theorems of section 4. Left, in the order of importance:

1. Proofs: the type invariants of `Studio`; `NoStrandedAsset` with the exact
   bound of crashes per job; `OrdersAreTheAlbums` without `OneGalleryEach`, for
   albums that share a path.
2. Reprocess composed with `IngestPipeline`: what re-queued assets do to batch
   counters.
3. The wake lock shared by overlapping drops, and groups that span the
   subfolders of one drop, in `UploadPage`.
4. What a visitor sees of the mark of another gallery and of a photo whose job
   was skipped, once covers are modelled in `SiteTree`.
5. Names inside a zip and the row layout of `justify.ts` as operators checked
   against reference definitions.
