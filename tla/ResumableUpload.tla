--------------------------- MODULE ResumableUpload ---------------------------
(***************************************************************************)
(* uploadFile and what makes it resumable: the record a large upload keeps *)
(* in the browser's IndexedDB, the multipart upload at B2, and the         *)
(* /api/upload/complete handler that turns the parts into an object and    *)
(* the object into a library row.                                          *)
(*                                                                         *)
(* An attempt is one run of processOne for a file, in a page of its own or *)
(* in one shared with other attempts: the file is dropped, or the mount    *)
(* sweep found its record.  pc is where the page's code is; srv is where   *)
(* the /complete request is, which goes on when the page is closed.  An    *)
(* uploadId is named after the attempt whose /init minted it.              *)
(***************************************************************************)
EXTENDS Naturals, FiniteSets

CONSTANTS Attempt,          \* runs of processOne, over all pages and sessions
          Content,          \* sha256 values
          ContentOf,        \* [Attempt -> Content]
          Large,            \* the contents above MULTIPART_THRESHOLD
          Parts,            \* totalParts of a large content
          PartConcurrency,  \* part workers of one upload (PART_CONCURRENCY = 4)
          NoUpload,         \* the uploadId of a record that does not exist
          FreshPage,        \* TRUE: nobody uploads a content twice at once
          MaxFaults,        \* bound: pages closed and requests given up
          MaxDeaths         \* bound: /complete requests that die in the server

ASSUME UploadAssumption ==
  /\ ContentOf \in [Attempt -> Content]
  /\ Large \subseteq Content
  /\ Parts \in Nat \ {0}
  /\ PartConcurrency \in Nat \ {0}
  /\ NoUpload \notin Attempt
  /\ FreshPage \in BOOLEAN
  /\ MaxFaults \in Nat
  /\ MaxDeaths \in Nat

VARIABLES pc,          \* the page's code, per attempt
          store,       \* whether IndexedDB works in the attempt's page
          plan,        \* the uploadId the attempt works on
          part,        \* what the attempt knows of each part
          srv,         \* the attempt's /complete request in the server
          pending,     \* the record per content (pending-uploads-db)
          mpu,         \* state of each multipart upload at B2
          arrived,     \* the parts B2 holds of each multipart upload
          object,      \* the object under a content's storageKey
          registered,  \* whether the library has a row for a content
          faults, deaths

pageVars   == <<pc, store, plan, part>>
bucketVars == <<mpu, arrived, object>>
vars == <<pc, store, plan, part, srv, pending, mpu, arrived, object,
          registered, faults, deaths>>

Part   == 1 .. Parts
Record == [id : Attempt \cup {NoUpload}, parts : SUBSET Part]
None   == [id |-> NoUpload, parts |-> {}]

Running == {"check", "resume", "init", "save", "parts", "finish", "forget"}
PC      == {"idle", "skipped", "done", "error", "closed"} \cup Running
Handler == {"assemble", "head", "insert", "reply"}

TypeOK ==
  /\ pc \in [Attempt -> PC]
  /\ store \in [Attempt -> BOOLEAN]
  /\ plan \in [Attempt -> Attempt \cup {NoUpload}]
  /\ part \in [Attempt -> [Part -> {"todo", "held", "saved"}]]
  /\ srv \in [Attempt -> {"none", "over"} \cup Handler]
  /\ pending \in [Content -> Record]
  /\ mpu \in [Attempt -> {"none", "open", "completed"}]
  /\ arrived \in [Attempt -> SUBSET Part]
  /\ object \in [Content -> {"absent", "short", "full"}]
  /\ registered \in [Content -> BOOLEAN]
  /\ faults \in Nat
  /\ deaths \in Nat

Init ==
  /\ pc = [u \in Attempt |-> "idle"]
  /\ store = [u \in Attempt |-> TRUE]
  /\ plan = [u \in Attempt |-> NoUpload]
  /\ part = [u \in Attempt |-> [p \in Part |-> "todo"]]
  /\ srv = [u \in Attempt |-> "none"]
  /\ pending = [c \in Content |-> None]
  /\ mpu = [u \in Attempt |-> "none"]
  /\ arrived = [u \in Attempt |-> {}]
  /\ object = [c \in Content |-> "absent"]
  /\ registered = [c \in Content |-> FALSE]
  /\ faults = 0
  /\ deaths = 0

Goto(u, l) == pc' = [pc EXCEPT ![u] = l]
IsLarge(u) == ContentOf[u] \in Large

------------------------------------------------------------------------------
(* The page.                                                               *)

\* A file is dropped or swept up and hashed.  With FreshPage the earlier
\* attempts at its content have ended, or their page is gone.
Start(u) ==
  /\ pc[u] = "idle"
  /\ FreshPage => \A v \in Attempt \ {u} : ContentOf[v] = ContentOf[u]
                     => pc[v] \in {"idle", "skipped", "done", "closed"}
  /\ \E works \in BOOLEAN : store' = [store EXCEPT ![u] = works]
  /\ Goto(u, "check")
  /\ UNCHANGED <<plan, part, srv, pending, bucketVars, registered, faults, deaths>>

\* /api/upload/check in mode "skip": processOne returns on a match.
Check(u) ==
  /\ pc[u] = "check"
  /\ Goto(u, IF registered[ContentOf[u]] THEN "skipped" ELSE "resume")
  /\ UNCHANGED <<store, plan, part, srv, pending, bucketVars, registered, faults, deaths>>

\* getPendingUpload: undefined when there is no record or no IndexedDB.
Found(u) == store[u] /\ pending[ContentOf[u]].id # NoUpload

\* Mutant of Adopt: the recorded parts are uploaded again.
AdoptNothing(u, r) == plan' = [plan EXCEPT ![u] = r.id] /\ UNCHANGED part

\* A resumed upload counts the recorded parts as done.
Adopt(u, r) ==
  /\ plan' = [plan EXCEPT ![u] = r.id]
  /\ part' = [part EXCEPT ![u] = [p \in Part |-> IF p \in r.parts THEN "saved" ELSE "todo"]]

Resume(u) ==
  /\ pc[u] = "resume"
  /\ IF Found(u)
       THEN Adopt(u, pending[ContentOf[u]]) /\ Goto(u, "parts")
       ELSE Goto(u, "init") /\ UNCHANGED <<plan, part>>
  /\ UNCHANGED <<store, srv, pending, bucketVars, registered, faults, deaths>>

\* POST /api/upload/init: one multipart upload, or a presigned PUT.
InitUpload(u) ==
  /\ pc[u] = "init"
  /\ IF IsLarge(u)
       THEN /\ plan' = [plan EXCEPT ![u] = u]
            /\ mpu' = [mpu EXCEPT ![u] = "open"]
            /\ Goto(u, "save")
       ELSE /\ Goto(u, "parts")
            /\ UNCHANGED <<plan, mpu>>
  /\ UNCHANGED <<store, part, srv, pending, arrived, object, registered, faults, deaths>>

\* savePendingUpload, which overwrites a record of the same content and never
\* fails: without IndexedDB, or without room for the blob, nothing is kept.
SavePending(u) ==
  /\ pc[u] = "save"
  /\ \/ /\ store[u]
        /\ pending' = [pending EXCEPT ![ContentOf[u]] = [id |-> plan[u], parts |-> {}]]
     \/ UNCHANGED pending
  /\ Goto(u, "parts")
  /\ UNCHANGED <<store, plan, part, srv, bucketVars, registered, faults, deaths>>

\* The part workers take the numbers in order, PartConcurrency at a time.  They
\* also go on when one of them has thrown and the upload has ended in "error".
Sending(u) == pc[u] = "parts" \/ (pc[u] = "error" /\ plan[u] # NoUpload)

\* Mutant of InWindow: parts that have not been started occupy a worker too.
CrowdedWindow(u, p) ==
  Cardinality({q \in Part : part[u][q] # "saved"}) < PartConcurrency

InWindow(u, p) ==
  Cardinality({q \in 1 .. (p - 1) : part[u][q] # "saved"}) < PartConcurrency

\* Mutant of Held: a part is pushed to the list when a worker takes it.
HeldEarly(u) == {p \in Part : InWindow(u, p)}

\* The parts in the attempt's list, those it resumed with included.
Held(u) == {p \in Part : part[u][p] # "todo"}

\* B2 takes the part and its ETag is pushed to the attempt's list.
PutPart(u, p) ==
  /\ Sending(u) /\ IsLarge(u)
  /\ part[u][p] = "todo" /\ InWindow(u, p)
  /\ mpu[plan[u]] = "open"
  /\ arrived' = [arrived EXCEPT ![plan[u]] = @ \cup {p}]
  /\ part' = [part EXCEPT ![u][p] = "held"]
  /\ UNCHANGED <<pc, store, plan, srv, pending, mpu, object, registered, faults, deaths>>

\* The uploadId is gone: every retry fails.
PutRefused(u, p) ==
  /\ pc[u] = "parts" /\ IsLarge(u)
  /\ part[u][p] = "todo" /\ InWindow(u, p)
  /\ mpu[plan[u]] # "open"
  /\ Goto(u, "error")
  /\ UNCHANGED <<store, plan, part, srv, pending, bucketVars, registered, faults, deaths>>

\* Mutant of Recorded: the record is rebuilt when it is gone.
RecordedAnew(u, r) == [id |-> plan[u], parts |-> Held(u)]

\* updatePendingUploadParts: whatever record of the content is there gets this
\* attempt's list.
Recorded(u, r) == IF r.id = NoUpload THEN r ELSE [r EXCEPT !.parts = Held(u)]

SavePart(u, p) ==
  /\ Sending(u) /\ part[u][p] = "held"
  /\ part' = [part EXCEPT ![u][p] = "saved"]
  /\ pending' = IF store[u] THEN [pending EXCEPT ![ContentOf[u]] = Recorded(u, @)]
                            ELSE pending
  /\ UNCHANGED <<pc, store, plan, srv, bucketVars, registered, faults, deaths>>

\* A small file goes in one PUT.
PutWhole(u) ==
  /\ pc[u] = "parts" /\ ~IsLarge(u)
  /\ object' = [object EXCEPT ![ContentOf[u]] = "full"]
  /\ srv' = [srv EXCEPT ![u] = "head"]
  /\ Goto(u, "finish")
  /\ UNCHANGED <<store, plan, part, pending, mpu, arrived, registered, faults, deaths>>

\* Mutant of AllSent: Promise.race instead of Promise.all.
SomeSent(u) == \E p \in Part : part[u][p] = "saved"

\* Promise.all over the part workers.
AllSent(u) == \A p \in Part : part[u][p] = "saved"

\* Mutant of SendComplete: the row is inserted before the parts are assembled.
SendInsert(u) ==
  /\ pc[u] = "parts" /\ IsLarge(u) /\ AllSent(u)
  /\ srv' = [srv EXCEPT ![u] = "insert"]
  /\ Goto(u, "finish")
  /\ UNCHANGED <<store, plan, part, pending, bucketVars, registered, faults, deaths>>

SendComplete(u) ==
  /\ pc[u] = "parts" /\ IsLarge(u) /\ AllSent(u)
  /\ srv' = [srv EXCEPT ![u] = "assemble"]
  /\ Goto(u, "finish")
  /\ UNCHANGED <<store, plan, part, pending, bucketVars, registered, faults, deaths>>

\* deletePendingUpload removes the content's record, whoever wrote it.
Forget(u) ==
  /\ pc[u] = "forget"
  /\ pending' = IF store[u] /\ IsLarge(u) THEN [pending EXCEPT ![ContentOf[u]] = None]
                                          ELSE pending
  /\ Goto(u, "done")
  /\ UNCHANGED <<store, plan, part, srv, bucketVars, registered, faults, deaths>>

\* A request fails for good or its answer is lost: the page shows an error.
GiveUp(u) ==
  /\ pc[u] \in {"check", "init", "parts", "finish"}
  /\ faults < MaxFaults
  /\ faults' = faults + 1
  /\ Goto(u, "error")
  /\ UNCHANGED <<store, plan, part, srv, pending, bucketVars, registered, deaths>>

\* The browser closes or the system reclaims the tab.
CloseTab(u) ==
  /\ pc[u] \in Running
  /\ faults < MaxFaults
  /\ faults' = faults + 1
  /\ Goto(u, "closed")
  /\ UNCHANGED <<store, plan, part, srv, pending, bucketVars, registered, deaths>>

\* The user leaves a page that shows an error.
Leave(u) ==
  /\ pc[u] = "error"
  /\ Goto(u, "closed")
  /\ UNCHANGED <<store, plan, part, srv, pending, bucketVars, registered, faults, deaths>>

------------------------------------------------------------------------------
(* POST /api/upload/complete, and B2.                                      *)

\* The handler answers; a page that still waits goes on at l.
Answer(u, l) ==
  /\ srv' = [srv EXCEPT ![u] = "over"]
  /\ pc' = [pc EXCEPT ![u] = IF @ = "finish" THEN l ELSE @]

\* CompleteMultipartUpload: the listed parts become the object and the
\* uploadId is gone.
Assemble(u) ==
  /\ srv[u] = "assemble"
  /\ mpu[plan[u]] = "open" /\ Held(u) \subseteq arrived[plan[u]]
  /\ mpu' = [mpu EXCEPT ![plan[u]] = "completed"]
  /\ object' = [object EXCEPT ![ContentOf[u]] = IF Held(u) = Part THEN "full" ELSE "short"]
  /\ srv' = [srv EXCEPT ![u] = "head"]
  /\ UNCHANGED <<pageVars, pending, arrived, registered, faults, deaths>>

\* NoSuchUpload or InvalidPart: the handler throws.
AssembleFails(u) ==
  /\ srv[u] = "assemble"
  /\ mpu[plan[u]] # "open" \/ ~(Held(u) \subseteq arrived[plan[u]])
  /\ Answer(u, "error")
  /\ UNCHANGED <<store, plan, part, pending, bucketVars, registered, faults, deaths>>

\* head.exists and head.size = size.
SizeMatches(u) == object[ContentOf[u]] = "full"

Head(u) ==
  /\ srv[u] = "head"
  /\ IF SizeMatches(u)
       THEN srv' = [srv EXCEPT ![u] = "insert"] /\ UNCHANGED pc
       ELSE Answer(u, "error")
  /\ UNCHANGED <<store, plan, part, pending, bucketVars, registered, faults, deaths>>

\* A row for the content is found or inserted.
Insert(u) ==
  /\ srv[u] = "insert"
  /\ registered' = [registered EXCEPT ![ContentOf[u]] = TRUE]
  /\ srv' = [srv EXCEPT ![u] = "reply"]
  /\ UNCHANGED <<pageVars, pending, bucketVars, faults, deaths>>

Reply(u) ==
  /\ srv[u] = "reply"
  /\ Answer(u, "forget")
  /\ UNCHANGED <<store, plan, part, pending, bucketVars, registered, faults, deaths>>

\* The app restarts or the database refuses: the request ends where it is.
HandlerDies(u) ==
  /\ srv[u] \in Handler
  /\ deaths < MaxDeaths
  /\ deaths' = deaths + 1
  /\ Answer(u, "error")
  /\ UNCHANGED <<store, plan, part, pending, bucketVars, registered, faults>>

------------------------------------------------------------------------------
PartStep(u) == \E p \in Part : PutPart(u, p) \/ PutRefused(u, p) \/ SavePart(u, p)
PageStep(u) == \/ Check(u) \/ Resume(u) \/ InitUpload(u) \/ SavePending(u)
               \/ PartStep(u) \/ PutWhole(u) \/ SendComplete(u) \/ Forget(u)
HandlerStep(u) == \/ Assemble(u) \/ AssembleFails(u) \/ Head(u)
                  \/ Insert(u) \/ Reply(u)

Next == \E u \in Attempt :
  \/ Start(u) \/ PageStep(u) \/ HandlerStep(u)
  \/ GiveUp(u) \/ CloseTab(u) \/ Leave(u) \/ HandlerDies(u)

Spec == Init /\ [][Next]_vars

\* A page and a request that can go on do, and the user comes back: the sweep
\* of the next mount starts an attempt without being asked.
FairSpec ==
  /\ Spec
  /\ \A u \in Attempt : /\ WF_vars(PageStep(u))
                        /\ WF_vars(HandlerStep(u))
                        /\ WF_vars(Start(u) \/ Leave(u))

------------------------------------------------------------------------------
(* Properties.                                                             *)

\* A library row refers to complete bytes, also while another attempt at the
\* same content assembles its parts over the same storageKey
\* (complete/route.ts:47-61, upload-lib.ts:191).
RegisteredHasBytes ==
  \A c \in Content : registered[c] => object[c] = "full"

Stage(c) == IF registered[c] THEN "registered"
            ELSE IF object[c] = "full" THEN "stored" ELSE "absent"
Durable == INSTANCE DurableUpload WITH stage <- [c \in Content |-> Stage(c)]
ImplementsDurable == Durable!DurableSpec

\* A record names a multipart upload that is open, unless its content is in the
\* library or a handler is about to put it there; what a resume builds on
\* (upload-lib.ts:207-213).  Needs /complete not to die half way.
CanResume(c) ==
  \/ pending[c].id = NoUpload
  \/ mpu[pending[c].id] = "open"
  \/ registered[c]
  \/ \E u \in Attempt : ContentOf[u] = c /\ srv[u] \in {"head", "insert"}
UploadStillOpen == deaths = 0 => \A c \in Content : CanResume(c)

\* B2 has every part the record lists, however pages come and go, as long as
\* attempts at one content do not overlap (upload-lib.ts:210-211).
RecordedPartsArrived ==
  \A c \in Content : pending[c].id # NoUpload =>
    pending[c].parts \subseteq arrived[pending[c].id]

\* "Resuming the rest [...] not re-uploading it from byte zero"
\* (pending-uploads-db.ts:8-9): a part the record lists is not sent again.
NoPartTwice ==
  [][\A u \in Attempt, p \in Part :
       part[u][p] = "todo" /\ part'[u][p] = "held" /\ store[u]
         => p \notin pending[ContentOf[u]].parts]_vars

\* "Coming back means resuming the rest" (pending-uploads-db.ts:8-9): as long
\* as the user comes back more often than pages are closed and requests fail,
\* every content gets into the library, unless a /complete died.
EventuallyRegistered == \A c \in Content : <>(registered[c] \/ deaths > 0)

\* Promise.all does not stop the other part workers when one throws, but a
\* record is gone for good once its content is in the library and forgotten:
\* a late updatePendingUploadParts does not bring it back
\* (pending-uploads-db.ts:83-86).
NoResurrection ==
  [][\A c \in Content : pending[c].id = NoUpload /\ pending'[c].id # NoUpload
       => \E u \in Attempt : ContentOf[u] = c /\ pc[u] = "save"]_vars

------------------------------------------------------------------------------
(* What comments of the code say and its steps do not keep.                *)

\* "The storageKey/uploadId are already real and B2 still has whichever parts
\* finished before" (upload-lib.ts:210-211), also after a /complete that died.
AlwaysResumable == \A c \in Content : CanResume(c)
==============================================================================
