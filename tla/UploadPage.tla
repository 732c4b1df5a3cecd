------------------------------ MODULE UploadPage ------------------------------
(***************************************************************************)
(* The upload engine behind every dropzone (useUploader): drops become     *)
(* entries, entries are processed a few at a time, and an interval asks    *)
(* the server about the ones that wait for ingest and attaches finished    *)
(* photos to the gallery they were dropped on.  The page stays open;       *)
(* ResumableUpload is about pages that close, IngestPipeline about the     *)
(* jobs, of which this module keeps what /api/upload/status can show:      *)
(* asset.status and the sibling group, which the worker links only after   *)
(* the asset has become "ready".                                           *)
(*                                                                         *)
(* An asset row is named after the file whose /complete inserted it.       *)
(***************************************************************************)
EXTENDS Naturals, FiniteSets

CONSTANTS File,         \* the supported files dropped
          Drop,         \* calls of runBatch
          DropOf,       \* [File -> Drop]
          Gallery,
          Library,      \* the destination null: no gallery
          Shared,       \* the destination undefined: whatever the drop resolves
          Target,       \* [File -> Gallery, Library or Shared], set by the drop
          Resolves,     \* [Drop -> Gallery or Library], what resolveGalleryId returns
          Content,      \* sha256 values
          ContentOf,    \* [File -> Content]
          Name,         \* basenames
          NameOf,       \* [File -> Name]
          KindOf,       \* [File -> Kind]
          Poll,         \* status requests that may overlap
          ClientSlots,  \* files of one drop processed at once (CONCURRENCY = 3)
          Attempts,     \* the ingest queue's attempts option (3)
          NoFile,       \* assetId undefined
          MaxFaults,    \* bound: requests of the page that fail
          MaxFailures   \* bound: ingest attempts of an asset that fail

Kind == {"raw", "photo", "sidecar"}

ASSUME PageAssumption ==
  /\ IsFiniteSet(File)
  /\ DropOf \in [File -> Drop]
  /\ Library \notin Gallery /\ Shared \notin Gallery \cup {Library}
  /\ Target \in [File -> Gallery \cup {Library, Shared}]
  /\ Resolves \in [Drop -> Gallery \cup {Library}]
  /\ ContentOf \in [File -> Content]
  /\ NameOf \in [File -> Name]
  /\ KindOf \in [File -> Kind]
  /\ ClientSlots \in Nat \ {0}
  /\ Attempts \in Nat \ {0}
  /\ NoFile \notin File
  /\ MaxFaults \in Nat
  /\ MaxFailures \in Nat

VARIABLES drop,      \* where runBatch is, per drop
          duplicateMode, \* the dialog's choice for files that are there already
          ref,       \* galleryIdRef.current, one for the whole page
          entry,     \* where processOne is, or the status the entry ended in
          dest,      \* processOne's targetGalleryId
          assetOf,   \* entry.assetId
          poll,      \* the status requests of the interval
          row,       \* asset.status
          failures,  \* failed attempts of an asset's ingest job
          linked,    \* whether the job has been through linkSiblingsIntoGroup
          grouped,   \* assets with a groupId
          primary,   \* assets with isGroupPrimary
          items,     \* the gallery_item rows
          faults

pageVars   == <<drop, duplicateMode, ref, entry, dest, assetOf>>
assetVars  == <<row, failures, linked, grouped, primary>>
vars == <<drop, duplicateMode, ref, entry, dest, assetOf, poll, row, failures, linked,
          grouped, primary, items, faults>>

Destination == Gallery \cup {Library}
Settled     == {"duplicate", "done", "error"}
InProcess   == {"hash", "check", "attach", "uploading"}
Seen        == [asset : File, status : {"ready", "failed"}, eligible : BOOLEAN]
Request     == [at : {"idle", "asked", "answered"}, pending : SUBSET File, left : SUBSET Seen]
Idle        == [at |-> "idle", pending |-> {}, left |-> {}]

TypeOK ==
  /\ drop \in [Drop -> {"idle", "resolve", "create", "run", "over", "stuck"}]
  /\ duplicateMode \in {"skip", "keep"}
  /\ ref \in Destination
  /\ entry \in [File -> {"idle", "queued", "processing"} \cup InProcess \cup Settled]
  /\ dest \in [File -> Destination]
  /\ assetOf \in [File -> File \cup {NoFile}]
  /\ poll \in [Poll -> Request]
  /\ row \in [File -> {"none", "pending", "processing", "ready", "failed"}]
  /\ failures \in [File -> Nat]
  /\ linked \in [File -> BOOLEAN]
  /\ grouped \subseteq File
  /\ primary \subseteq File
  /\ items \subseteq Gallery \X File
  /\ faults \in Nat

Init ==
  /\ drop = [d \in Drop |-> "idle"]
  /\ duplicateMode = "skip"
  /\ ref = Library
  /\ entry = [f \in File |-> "idle"]
  /\ dest = [f \in File |-> Library]
  /\ assetOf = [f \in File |-> NoFile]
  /\ poll = [i \in Poll |-> Idle]
  /\ row = [f \in File |-> "none"]
  /\ failures = [f \in File |-> 0]
  /\ linked = [f \in File |-> FALSE]
  /\ grouped = {}
  /\ primary = {}
  /\ items = {}
  /\ faults = 0

FilesOf(d) == {f \in File : DropOf[f] = d}
Patch(f, s) == entry' = [entry EXCEPT ![f] = s]

\* A request of the page may fail or its answer may be lost.
Fault == faults < MaxFaults /\ faults' = faults + 1

------------------------------------------------------------------------------
(* runBatch.                                                               *)

\* Mutant of NeedsShared: resolveGalleryId is called for every drop.
AlwaysResolves(d) == FilesOf(d) # {}

NeedsShared(d) == \E f \in FilesOf(d) : Target[f] = Shared

\* The dialog's two buttons, locked from when there are entries.
ChooseMode ==
  /\ \A f \in File : entry[f] = "idle"
  /\ duplicateMode' \in {"skip", "keep"} \ {duplicateMode}
  /\ UNCHANGED <<drop, ref, entry, dest, assetOf, poll, assetVars, items, faults>>

\* A drop is handed to runBatch: its entries are appended to the list.
BeginDrop(d) ==
  /\ drop[d] = "idle"
  /\ drop' = [drop EXCEPT ![d] = IF NeedsShared(d) THEN "resolve" ELSE "create"]
  /\ entry' = [f \in File |-> IF f \in FilesOf(d) THEN "queued" ELSE entry[f]]
  /\ UNCHANGED <<duplicateMode, ref, dest, assetOf, poll, assetVars, items, faults>>

Resolve(d) ==
  /\ drop[d] = "resolve"
  /\ ref' = Resolves[d]
  /\ drop' = [drop EXCEPT ![d] = "create"]
  /\ UNCHANGED <<duplicateMode, entry, dest, assetOf, poll, assetVars, items, faults>>

\* resolveGalleryId throws: the entries that needed it are left out.
ResolveFails(d) ==
  /\ drop[d] = "resolve"
  /\ Fault
  /\ entry' = [f \in File |-> IF f \in FilesOf(d) /\ Target[f] = Shared THEN "error" ELSE entry[f]]
  /\ drop' = [drop EXCEPT ![d] = "create"]
  /\ UNCHANGED <<duplicateMode, ref, dest, assetOf, poll, assetVars, items>>

CreateBatch(d) ==
  /\ drop[d] = "create"
  /\ drop' = [drop EXCEPT ![d] = "run"]
  /\ UNCHANGED <<duplicateMode, ref, entry, dest, assetOf, poll, assetVars, items, faults>>

\* createBatch rejects: nothing catches it and the entries stay queued.
CreateBatchFails(d) ==
  /\ drop[d] = "create"
  /\ Fault
  /\ drop' = [drop EXCEPT ![d] = "stuck"]
  /\ UNCHANGED <<duplicateMode, ref, entry, dest, assetOf, poll, assetVars, items>>

\* Every worker of the drop has found the queue empty.
FinishDrop(d) ==
  /\ drop[d] = "run"
  /\ \A f \in FilesOf(d) : entry[f] \notin InProcess \cup {"queued"}
  /\ drop' = [drop EXCEPT ![d] = "over"]
  /\ UNCHANGED <<duplicateMode, ref, entry, dest, assetOf, poll, assetVars, items, faults>>

------------------------------------------------------------------------------
(* processOne.                                                             *)

\* entry.targetGalleryId, or the page's shared destination when it is not set.
TargetNow(f) == IF Target[f] = Shared THEN ref ELSE Target[f]

\* Mutant of Eligible: a photo without siblings is not its own primary.
PrimaryOnly(a) == a \in primary

\* isAttachEligible: of a group of siblings only the primary is attached.
Eligible(a) == a \notin grouped \/ a \in primary

\* POST /api/galleries/[id]/items; a pair that is there stays as it is.  A
\* failure is swallowed.
Attach(g, a) ==
  \/ items' = items \cup {<<g, a>>} /\ UNCHANGED faults
  \/ Fault /\ UNCHANGED items

TakeEntry(f) ==
  /\ drop[DropOf[f]] = "run"
  /\ entry[f] = "queued"
  /\ Cardinality({g \in FilesOf(DropOf[f]) : entry[g] \in InProcess}) < ClientSlots
  /\ Patch(f, "hash")
  /\ UNCHANGED <<drop, duplicateMode, ref, dest, assetOf, poll, assetVars, items, faults>>

Hashed(f) ==
  /\ entry[f] = "hash"
  /\ dest' = [dest EXCEPT ![f] = TargetNow(f)]
  /\ Patch(f, "check")
  /\ UNCHANGED <<drop, duplicateMode, ref, assetOf, poll, assetVars, items, faults>>

\* What findFirst(sha256 = ...) may return.
Matches(f) == {a \in File : row[a] # "none" /\ ContentOf[a] = ContentOf[f]}

\* POST /api/upload/check.
CheckNew(f) ==
  /\ entry[f] = "check"
  /\ Matches(f) = {}
  /\ Patch(f, "uploading")
  /\ UNCHANGED <<drop, duplicateMode, ref, dest, assetOf, poll, assetVars, items, faults>>

\* The match is left alone, whatever the dialog's choice: processOne is made at
\* the first render (its useCallback depends on patchEntry only) and keeps the
\* duplicateMode of that render, "skip".
CheckSkip(f) ==
  /\ entry[f] = "check"
  /\ \E a \in Matches(f) :
       /\ assetOf' = [assetOf EXCEPT ![f] = a]
       /\ Patch(f, IF dest[f] \in Gallery /\ Eligible(a) THEN "attach" ELSE "duplicate")
  /\ UNCHANGED <<drop, duplicateMode, ref, dest, poll, assetVars, items, faults>>

AttachDuplicate(f) ==
  /\ entry[f] = "attach"
  /\ Attach(dest[f], assetOf[f])
  /\ Patch(f, "duplicate")
  /\ UNCHANGED <<drop, duplicateMode, ref, dest, assetOf, poll, assetVars>>

\* POST /api/upload/complete, at the end of uploadFile.  Its answer may be lost.
Complete(f) ==
  /\ entry[f] = "uploading"
  /\ \E a \in IF Matches(f) # {} THEN Matches(f) ELSE {f} :
       /\ row' = IF row[a] = "none" THEN [row EXCEPT ![a] = "pending"] ELSE row
       /\ \/ /\ assetOf' = [assetOf EXCEPT ![f] = a]
             /\ Patch(f, "processing")
             /\ UNCHANGED faults
          \/ Fault /\ Patch(f, "error") /\ UNCHANGED assetOf
  /\ UNCHANGED <<drop, duplicateMode, ref, dest, poll, failures, linked, grouped, primary, items>>

RequestFails(f) ==
  /\ entry[f] \in {"hash", "check", "uploading"}
  /\ Fault
  /\ Patch(f, "error")
  /\ UNCHANGED <<drop, duplicateMode, ref, dest, assetOf, poll, assetVars, items>>

------------------------------------------------------------------------------
(* The interval, which does not wait for its own requests.                 *)

SetPoll(i, r) == poll' = [poll EXCEPT ![i] = r]

Awaiting == {f \in File : entry[f] = "processing" /\ assetOf[f] # NoFile}

Ask(i) ==
  /\ poll[i] = Idle
  /\ Awaiting # {}
  /\ SetPoll(i, [at |-> "asked", pending |-> Awaiting, left |-> {}])
  /\ UNCHANGED <<pageVars, assetVars, items, faults>>

Look(a) == [asset |-> a, status |-> row[a], eligible |-> Eligible(a)]

\* The rows the interval acts on, as they are now.
Rows(i) == {Look(a) : a \in {assetOf[f] : f \in poll[i].pending}} \cap Seen

\* GET /api/upload/status.
Answer(i) ==
  /\ poll[i].at = "asked"
  /\ SetPoll(i, IF Rows(i) = {} THEN Idle
                ELSE [at |-> "answered", pending |-> poll[i].pending, left |-> Rows(i)])
  /\ UNCHANGED <<pageVars, assetVars, items, faults>>

PollFails(i) ==
  /\ poll[i].at = "asked"
  /\ Fault
  /\ SetPoll(i, Idle)
  /\ UNCHANGED <<pageVars, assetVars, items>>

\* Mutant of Found: entries.find, the settled ones included.
FirstEntry(i, a) == {CHOOSE f \in File : assetOf[f] = a}

\* pending.find: the first of the pending entries with this asset.
Found(i, a) == {f \in poll[i].pending : assetOf[f] = a}

\* The loop body for one item of the answer.
PollItem(i) ==
  /\ poll[i].at = "answered"
  /\ \E x \in poll[i].left, f \in File :
       /\ f \in Found(i, x.asset)
       /\ IF x.status = "ready" /\ x.eligible /\ TargetNow(f) \in Gallery
            THEN Attach(TargetNow(f), x.asset)
            ELSE UNCHANGED <<items, faults>>
       /\ Patch(f, IF x.status = "ready" THEN "done" ELSE "error")
       /\ SetPoll(i, IF poll[i].left = {x} THEN Idle
                     ELSE [poll[i] EXCEPT !.left = @ \ {x}])
  /\ UNCHANGED <<drop, duplicateMode, ref, dest, assetOf, assetVars>>

------------------------------------------------------------------------------
(* The ingest worker, as far as the page can see it.                       *)

BeginIngest(a) ==
  /\ row[a] \in {"pending", "failed"}
  /\ failures[a] < Attempts
  /\ row' = [row EXCEPT ![a] = "processing"]
  /\ UNCHANGED <<pageVars, poll, failures, linked, grouped, primary, items, faults>>

Publish(a) ==
  /\ row[a] = "processing"
  /\ row' = [row EXCEPT ![a] = "ready"]
  /\ UNCHANGED <<pageVars, poll, failures, linked, grouped, primary, items, faults>>

\* The rows of the same drop with the same basename.
Siblings(a) == {b \in File : /\ row[b] # "none"
                             /\ DropOf[b] = DropOf[a] /\ NameOf[b] = NameOf[a]}

\* Mutant of Preferred: the raw is not preferred.
AnyShown(S) ==
  LET shown == {b \in S : KindOf[b] # "sidecar"} IN IF shown # {} THEN shown ELSE S

\* A raw, else anything but a sidecar, else anything.
Preferred(S) ==
  LET raws  == {b \in S : KindOf[b] = "raw"}
      shown == {b \in S : KindOf[b] # "sidecar"}
  IN  IF raws # {} THEN raws ELSE IF shown # {} THEN shown ELSE S

\* linkSiblingsIntoGroup, one transaction that locks the rows it reads.
Link(a) ==
  /\ row[a] = "ready" /\ ~linked[a]
  /\ linked' = [linked EXCEPT ![a] = TRUE]
  /\ IF Cardinality(Siblings(a)) < 2
       THEN UNCHANGED <<grouped, primary>>
       ELSE /\ grouped' = grouped \cup Siblings(a)
            /\ \E p \in Preferred(Siblings(a)) : primary' = (primary \ Siblings(a)) \cup {p}
  /\ UNCHANGED <<pageVars, poll, row, failures, items, faults>>

\* An attempt fails, also when linking does; the queue retries it.
IngestFails(a) ==
  /\ row[a] = "processing" \/ (row[a] = "ready" /\ ~linked[a])
  /\ failures[a] < MaxFailures
  /\ failures' = [failures EXCEPT ![a] = @ + 1]
  /\ row' = [row EXCEPT ![a] = "failed"]
  /\ UNCHANGED <<pageVars, poll, linked, grouped, primary, items, faults>>

------------------------------------------------------------------------------
DropStep(d) == BeginDrop(d) \/ Resolve(d) \/ ResolveFails(d) \/ CreateBatch(d)
               \/ CreateBatchFails(d) \/ FinishDrop(d)
EntryStep(f) == \/ TakeEntry(f) \/ Hashed(f) \/ CheckNew(f) \/ CheckSkip(f)
                \/ AttachDuplicate(f) \/ Complete(f)
PollStep(i) == Ask(i) \/ Answer(i) \/ PollItem(i)
IngestStep(a) == BeginIngest(a) \/ Publish(a) \/ Link(a)

Next ==
  \/ ChooseMode
  \/ \E d \in Drop : DropStep(d)
  \/ \E f \in File : EntryStep(f) \/ RequestFails(f) \/ IngestStep(f) \/ IngestFails(f)
  \/ \E i \in Poll : PollStep(i) \/ PollFails(i)

Spec == Init /\ [][Next]_vars

\* Continuations that can run do, the interval keeps ticking and the worker
\* keeps working.  Nobody is obliged to drop files, and nothing has to fail.
FairSpec ==
  /\ Spec
  /\ \A d \in Drop : WF_vars(Resolve(d) \/ CreateBatch(d) \/ FinishDrop(d))
  /\ \A f \in File : WF_vars(EntryStep(f)) /\ WF_vars(IngestStep(f))
  /\ \A i \in Poll : WF_vars(PollStep(i))

------------------------------------------------------------------------------
(* Properties.                                                             *)

\* Where the user dropped the file.
DestinationOf(f) == IF Target[f] = Shared THEN Resolves[DropOf[f]] ELSE Target[f]

\* A photo is only ever attached to a gallery it was dropped on, although the
\* destination is read late, from a ref all drops of the page share
\* (use-uploader.ts:122, 142, 214-232).  Needs the drops that share the ref to
\* share the destination.
AttachedToDestination ==
  \A x \in items : \E f \in File : assetOf[f] = x[2] /\ DestinationOf(f) = x[1]

\* "Primary = the raw or jpeg member [...] exactly one flag set"
\* (process-ingest.ts:68-69), in whatever order siblings are inserted, linked
\* and linked again.
OnePrimary ==
  \A a \in grouped :
    LET members == Siblings(a) \cap grouped
    IN  \E p \in members : /\ members \cap primary = {p}
                           /\ KindOf[p] = "raw" \/ \A b \in members : KindOf[b] # "raw"

\* The photo of entry f, or one it is grouped with, is in its gallery.
Shown(f) ==
  LET a == assetOf[f]
      group == IF a \in grouped THEN Siblings(a) \cap grouped ELSE {a}
  IN  \E b \in group : <<DestinationOf(f), b>> \in items

\* When all entries have ended well, every gallery shows the photos dropped on
\* it: attaching only primaries and asking about eligibility only once loses
\* none (use-uploader.ts:56-58, 121-126, 145-151).
ShownWhenSettled ==
  faults = 0 /\ (\A f \in File : entry[f] \in {"done", "duplicate"})
    => \A f \in File : DestinationOf(f) \in Gallery => Shown(f)

\* In the mode "keep" a match is not left alone: the choice is what "runBatch
\* already captured" (upload-dropzone.tsx:94-97) when the drop began, and "keep"
\* "creates a second, independent library entry" (use-uploader.ts:60-63).
KeepMakesCopies ==
  \A f \in File : duplicateMode = "keep" => entry[f] # "duplicate"

\* No entry is shown as queued, uploading or processing for ever, "regardless
\* of whether any given poll changes anything" (use-uploader.ts:93-104), except
\* when /api/upload/batch failed.
EveryEntrySettles ==
  \A f \in File : entry[f] = "queued"
                    ~> entry[f] \in Settled \/ drop[DropOf[f]] = "stuck"
==============================================================================
