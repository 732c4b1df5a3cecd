--------------------------- MODULE UploadPageProofs ---------------------------
(***************************************************************************)
(* What holds of UploadPage for every number of files, drops, galleries,   *)
(* status requests and faults.                                             *)
(***************************************************************************)
EXTENDS UploadPage, TLAPS

(***************************************************************************)
(* The drops that rely on the page's shared ref all resolve to the same    *)
(* destination, as on a gallery's own page.                                *)
(***************************************************************************)
OneDestination ==
  \A f, g \in File : Target[f] = Shared /\ Target[g] = Shared
    => Resolves[DropOf[f]] = Resolves[DropOf[g]]

(***************************************************************************)
(* The inductive invariant of AttachedToDestination.  Nothing happens to   *)
(* an entry before its drop runs (Begun) and it has no asset before the    *)
(* server named one (Assigned).  From when its drop has resolved the       *)
(* destination, the ref is right for it (RefRight), and so is what         *)
(* processOne took from the ref (DestRight).  A status request only ever   *)
(* asked about entries with an asset (Asked), which is why it may patch    *)
(* them long after they have settled.                                      *)
(***************************************************************************)
Begun == \A f \in File :
  /\ drop[DropOf[f]] = "idle" => entry[f] = "idle"
  /\ entry[f] \notin {"idle", "queued", "error"} => drop[DropOf[f]] \in {"run", "over"}

Resolving == \A d \in Drop : drop[d] = "resolve" => NeedsShared(d)

Assigned == \A f \in File : assetOf[f] # NoFile =>
  /\ entry[f] \in {"attach", "processing"} \cup Settled
  /\ drop[DropOf[f]] \in {"run", "over"}

Resolved(f) == \/ assetOf[f] # NoFile
               \/ drop[DropOf[f]] \notin {"idle", "resolve"} /\ entry[f] # "error"
RefRight == \A f \in File : Target[f] = Shared /\ Resolved(f) => ref = Resolves[DropOf[f]]

DestRight == \A f \in File : entry[f] \in {"check", "attach"} => dest[f] = DestinationOf(f)

Asked == \A i \in Poll : \A f \in poll[i].pending : assetOf[f] # NoFile

Flow == Begun /\ Resolving /\ Assigned /\ RefRight /\ DestRight /\ Asked

(***************************************************************************)
(* The inductive invariant of OnePrimary: it only flags grouped rows that  *)
(* exist.                                                                  *)
(***************************************************************************)
Flags ==
  /\ \A a \in grouped : row[a] # "none"
  /\ primary \subseteq grouped
  /\ OnePrimary

------------------------------------------------------------------------------
(* Type correctness.  Only an entry with an asset and a gallery attaches.   *)

Attaching == \A f \in File :
  entry[f] = "attach" => dest[f] \in Gallery /\ assetOf[f] # NoFile

Typed == TypeOK /\ Attaching

LEMMA TypeInit == ASSUME PageAssumption, Init PROVE Typed
<1> USE PageAssumption
<1>1. /\ Library \in Destination
      /\ Idle \in Request
  BY DEF Destination, Request, Idle
<1>2. QED
  BY <1>1 DEF Init, TypeOK, Typed, Attaching

LEMMA TypeStep == ASSUME PageAssumption, TypeOK, Attaching, [Next]_vars PROVE TypeOK'
<1> USE PageAssumption DEF TypeOK
<1>1. ASSUME NEW d \in Drop, BeginDrop(d) PROVE TypeOK'
  BY <1>1 DEF BeginDrop, assetVars, Fault, Settled, Destination
<1>2. ASSUME NEW d \in Drop, Resolve(d) PROVE TypeOK'
  BY <1>2 DEF Resolve, assetVars, Fault, Settled, Destination
<1>3. ASSUME NEW d \in Drop, ResolveFails(d) PROVE TypeOK'
  BY <1>3 DEF ResolveFails, assetVars, Fault, Settled, Destination
<1>4. ASSUME NEW d \in Drop, CreateBatch(d) PROVE TypeOK'
  BY <1>4 DEF CreateBatch, assetVars, Fault, Settled, Destination
<1>5. ASSUME NEW d \in Drop, CreateBatchFails(d) PROVE TypeOK'
  BY <1>5 DEF CreateBatchFails, assetVars, Fault, Settled, Destination
<1>6. ASSUME NEW d \in Drop, FinishDrop(d) PROVE TypeOK'
  BY <1>6 DEF FinishDrop, assetVars, Fault, Settled, Destination
<1>7. ASSUME NEW f \in File, TakeEntry(f) PROVE TypeOK'
  BY <1>7 DEF TakeEntry, Patch, assetVars, Fault, Settled, InProcess, Destination, TargetNow, Attach, Matches
<1>8. ASSUME NEW f \in File, Hashed(f) PROVE TypeOK'
  BY <1>8 DEF Hashed, Patch, assetVars, Fault, Settled, InProcess, Destination, TargetNow, Attach, Matches
<1>9. ASSUME NEW f \in File, CheckNew(f) PROVE TypeOK'
  BY <1>9 DEF CheckNew, Patch, assetVars, Fault, Settled, InProcess, Destination, TargetNow, Attach, Matches
<1>10. ASSUME NEW f \in File, CheckSkip(f) PROVE TypeOK'
  BY <1>10 DEF CheckSkip, Patch, assetVars, Fault, Settled, InProcess, Destination, TargetNow, Attach, Matches
<1>11. ASSUME NEW f \in File, AttachDuplicate(f) PROVE TypeOK'
  <2>1. dest[f] \in Gallery /\ assetOf[f] \in File
    BY <1>11 DEF AttachDuplicate, Attaching
  <2>2. items' \subseteq Gallery \X File
    BY <1>11, <2>1 DEF AttachDuplicate, Attach
  <2>3. QED
    BY <1>11, <2>2 DEF AttachDuplicate, Patch, assetVars, Fault, Settled, Attach
<1>12. CASE ChooseMode
  BY <1>12 DEF ChooseMode, assetVars
<1>13. ASSUME NEW f \in File, Complete(f) PROVE TypeOK'
  BY <1>13 DEF Complete, Patch, assetVars, Fault, Settled, InProcess, Destination, TargetNow, Attach, Matches
<1>14. ASSUME NEW f \in File, RequestFails(f) PROVE TypeOK'
  BY <1>14 DEF RequestFails, Patch, assetVars, Fault, Settled, InProcess, Destination, TargetNow, Attach, Matches
<1>15. ASSUME NEW f \in File, BeginIngest(f) PROVE TypeOK'
  BY <1>15 DEF BeginIngest, pageVars, Siblings, Preferred
<1>16. ASSUME NEW f \in File, Publish(f) PROVE TypeOK'
  BY <1>16 DEF Publish, pageVars, Siblings, Preferred
<1>17. ASSUME NEW f \in File, Link(f) PROVE TypeOK'
  BY <1>17 DEF Link, pageVars, Siblings, Preferred
<1>18. ASSUME NEW f \in File, IngestFails(f) PROVE TypeOK'
  BY <1>18 DEF IngestFails, pageVars, Siblings, Preferred
<1>19. ASSUME NEW i \in Poll, Ask(i) PROVE TypeOK'
  BY <1>19 DEF Ask, pageVars, assetVars, SetPoll, Idle, Awaiting, Rows, Look, Seen, Request, Fault, Patch, Settled, Attach, TargetNow, Found
<1>20. ASSUME NEW i \in Poll, Answer(i) PROVE TypeOK'
  <2>1. [at |-> "answered", pending |-> poll[i].pending, left |-> Rows(i)] \in Request
    <3>1. Rows(i) \subseteq Seen
      BY DEF Rows
    <3>2. poll[i] \in Request
      OBVIOUS
    <3>3. QED
      BY <3>1, <3>2 DEF Request
  <2>2. poll' \in [Poll -> Request]
    <3>1. Idle \in Request
      BY DEF Idle, Request
    <3>2. QED
      BY <1>20, <2>1, <3>1 DEF Answer, SetPoll
  <2>3. QED
    BY <1>20, <2>2 DEF Answer, pageVars, assetVars
<1>21. ASSUME NEW i \in Poll, PollItem(i) PROVE TypeOK'
  BY <1>21 DEF PollItem, pageVars, assetVars, SetPoll, Idle, Awaiting, Rows, Look, Seen, Request, Fault, Patch, Settled, Attach, TargetNow, Found
<1>22. ASSUME NEW i \in Poll, PollFails(i) PROVE TypeOK'
  BY <1>22 DEF PollFails, pageVars, assetVars, SetPoll, Idle, Awaiting, Rows, Look, Seen, Request, Fault, Patch, Settled, Attach, TargetNow, Found
<1>23. CASE UNCHANGED vars
  BY <1>23 DEF vars
<1>24. QED
  BY <1>1, <1>2, <1>3, <1>4, <1>5, <1>6, <1>7, <1>8, <1>9, <1>10, <1>11, <1>12, <1>13, <1>14, <1>15, <1>16, <1>17, <1>18, <1>19, <1>20, <1>21, <1>22, <1>23
     DEF Next, DropStep, EntryStep, PollStep, IngestStep

LEMMA AttachingStep ==
  ASSUME PageAssumption, TypeOK, Attaching, [Next]_vars PROVE Attaching'
<1> USE PageAssumption DEF TypeOK, Attaching
<1>1. ASSUME NEW d \in Drop, BeginDrop(d) PROVE Attaching'
  BY <1>1 DEF BeginDrop, assetVars, Fault, Settled, Destination
<1>2. ASSUME NEW d \in Drop, Resolve(d) PROVE Attaching'
  BY <1>2 DEF Resolve, assetVars, Fault, Settled, Destination
<1>3. ASSUME NEW d \in Drop, ResolveFails(d) PROVE Attaching'
  BY <1>3 DEF ResolveFails, assetVars, Fault, Settled, Destination
<1>4. ASSUME NEW d \in Drop, CreateBatch(d) PROVE Attaching'
  BY <1>4 DEF CreateBatch, assetVars, Fault, Settled, Destination
<1>5. ASSUME NEW d \in Drop, CreateBatchFails(d) PROVE Attaching'
  BY <1>5 DEF CreateBatchFails, assetVars, Fault, Settled, Destination
<1>6. ASSUME NEW d \in Drop, FinishDrop(d) PROVE Attaching'
  BY <1>6 DEF FinishDrop, assetVars, Fault, Settled, Destination
<1>7. ASSUME NEW f \in File, TakeEntry(f) PROVE Attaching'
  BY <1>7 DEF TakeEntry, Patch, assetVars, Fault, Settled, InProcess, Destination, TargetNow, Attach, Matches
<1>8. ASSUME NEW f \in File, Hashed(f) PROVE Attaching'
  BY <1>8 DEF Hashed, Patch, assetVars, Fault, Settled, InProcess, Destination, TargetNow, Attach, Matches
<1>9. ASSUME NEW f \in File, CheckNew(f) PROVE Attaching'
  BY <1>9 DEF CheckNew, Patch, assetVars, Fault, Settled, InProcess, Destination, TargetNow, Attach, Matches
<1>10. ASSUME NEW f \in File, CheckSkip(f) PROVE Attaching'
  BY <1>10 DEF CheckSkip, Patch, assetVars, Fault, Settled, InProcess, Destination, TargetNow, Attach, Matches
<1>11. ASSUME NEW f \in File, AttachDuplicate(f) PROVE Attaching'
  BY <1>11 DEF AttachDuplicate, Patch, assetVars, Fault, Settled, InProcess, Destination, TargetNow, Attach, Matches
<1>12. CASE ChooseMode
  BY <1>12 DEF ChooseMode, assetVars
<1>13. ASSUME NEW f \in File, Complete(f) PROVE Attaching'
  BY <1>13 DEF Complete, Patch, assetVars, Fault, Settled, InProcess, Destination, TargetNow, Attach, Matches
<1>14. ASSUME NEW f \in File, RequestFails(f) PROVE Attaching'
  BY <1>14 DEF RequestFails, Patch, assetVars, Fault, Settled, InProcess, Destination, TargetNow, Attach, Matches
<1>15. ASSUME NEW f \in File, BeginIngest(f) PROVE Attaching'
  BY <1>15 DEF BeginIngest, pageVars, Siblings, Preferred
<1>16. ASSUME NEW f \in File, Publish(f) PROVE Attaching'
  BY <1>16 DEF Publish, pageVars, Siblings, Preferred
<1>17. ASSUME NEW f \in File, Link(f) PROVE Attaching'
  BY <1>17 DEF Link, pageVars, Siblings, Preferred
<1>18. ASSUME NEW f \in File, IngestFails(f) PROVE Attaching'
  BY <1>18 DEF IngestFails, pageVars, Siblings, Preferred
<1>19. ASSUME NEW i \in Poll, Ask(i) PROVE Attaching'
  BY <1>19 DEF Ask, pageVars, assetVars, SetPoll, Idle, Awaiting, Rows, Look, Seen, Request, Fault, Patch, Settled, Attach, TargetNow, Found
<1>20. ASSUME NEW i \in Poll, Answer(i) PROVE Attaching'
  BY <1>20 DEF Answer, pageVars, assetVars, SetPoll, Idle, Awaiting, Rows, Look, Seen, Request, Fault, Patch, Settled, Attach, TargetNow, Found
<1>21. ASSUME NEW i \in Poll, PollItem(i) PROVE Attaching'
  BY <1>21 DEF PollItem, pageVars, assetVars, SetPoll, Idle, Awaiting, Rows, Look, Seen, Request, Fault, Patch, Settled, Attach, TargetNow, Found
<1>22. ASSUME NEW i \in Poll, PollFails(i) PROVE Attaching'
  BY <1>22 DEF PollFails, pageVars, assetVars, SetPoll, Idle, Awaiting, Rows, Look, Seen, Request, Fault, Patch, Settled, Attach, TargetNow, Found
<1>23. CASE UNCHANGED vars
  BY <1>23 DEF vars
<1>24. QED
  BY <1>1, <1>2, <1>3, <1>4, <1>5, <1>6, <1>7, <1>8, <1>9, <1>10, <1>11, <1>12, <1>13, <1>14, <1>15, <1>16, <1>17, <1>18, <1>19, <1>20, <1>21, <1>22, <1>23
     DEF Next, DropStep, EntryStep, PollStep, IngestStep

\* Entries, rows, groups and requests stay in the states the code has.
THEOREM TypeCorrect == ASSUME PageAssumption PROVE Spec => []TypeOK
<1>1. Typed /\ [Next]_vars => Typed'
  BY TypeStep, AttachingStep DEF Typed
<1>2. Typed => TypeOK
  BY DEF Typed
<1>3. QED
  BY TypeInit, <1>1, <1>2, PTL DEF Spec

------------------------------------------------------------------------------
(* Photos arrive where they were dropped.                                  *)

LEMMA Quiet == ASSUME Flow, UNCHANGED <<drop, ref, entry, dest, assetOf, poll>> PROVE Flow'
BY DEF Flow, Begun, Resolving, NeedsShared, FilesOf, Assigned, RefRight, Resolved, DestRight, DestinationOf, Asked

LEMMA FlowInit == ASSUME PageAssumption, Init PROVE Flow
BY DEF PageAssumption, Init, Flow, Begun, Resolving, Assigned, RefRight, Resolved, DestRight, Asked, Idle

LEMMA FlowStep ==
  ASSUME PageAssumption, OneDestination, TypeOK, Flow, [Next]_vars PROVE Flow'
<1> USE PageAssumption DEF TypeOK, Flow
<1>1. ASSUME NEW d \in Drop, BeginDrop(d) PROVE Flow'
  <2>1. Begun'
    BY <1>1 DEF BeginDrop, Asked, Assigned, Begun, DestRight, Fault, FilesOf, InProcess, RefRight, Resolved, Resolving, Settled, assetVars
  <2>2. Resolving'
    BY <1>1 DEF BeginDrop, Asked, Assigned, Begun, DestRight, Fault, FilesOf, NeedsShared, RefRight, Resolved, Resolving, assetVars
  <2>3. Assigned'
    BY <1>1 DEF BeginDrop, Asked, Assigned, Begun, DestRight, Fault, FilesOf, InProcess, RefRight, Resolved, Resolving, Settled, assetVars
  <2>4. RefRight'
    <3>1. UNCHANGED <<ref, assetOf>>
      BY <1>1 DEF BeginDrop
    <3>2. ASSUME NEW g \in File, Target[g] = Shared, Resolved(g)' PROVE Resolved(g)
      <4>1. CASE DropOf[g] = d
        <5>1. NeedsShared(d)
          BY <3>2, <4>1 DEF NeedsShared, FilesOf
        <5>2. drop'[DropOf[g]] = "resolve"
          BY <1>1, <4>1, <5>1 DEF BeginDrop
        <5>3. QED
          BY <3>1, <3>2, <5>2 DEF Resolved
      <4>2. CASE DropOf[g] # d
        BY <1>1, <3>1, <3>2, <4>2 DEF BeginDrop, Resolved, FilesOf
      <4>3. QED
        BY <4>1, <4>2
    <3>3. QED
      BY <3>1, <3>2 DEF RefRight
  <2>5. DestRight'
    BY <1>1 DEF BeginDrop, Asked, Assigned, Begun, DestRight, DestinationOf, Fault, FilesOf, RefRight, Resolved, Resolving, assetVars
  <2>6. Asked'
    BY <1>1 DEF BeginDrop, Asked, Assigned, Begun, DestRight, Fault, FilesOf, RefRight, Resolved, Resolving, assetVars
  <2>7. QED
    BY <2>1, <2>2, <2>3, <2>4, <2>5, <2>6 DEF Flow
<1>2. ASSUME NEW d \in Drop, Resolve(d) PROVE Flow'
  <2>1. Begun'
    BY <1>2 DEF Resolve, Asked, Assigned, Begun, DestRight, Fault, FilesOf, InProcess, RefRight, Resolved, Resolving, Settled, assetVars
  <2>2. Resolving'
    BY <1>2 DEF Resolve, Asked, Assigned, Begun, DestRight, Fault, FilesOf, NeedsShared, RefRight, Resolved, Resolving, assetVars
  <2>3. Assigned'
    BY <1>2 DEF Resolve, Asked, Assigned, Begun, DestRight, Fault, FilesOf, InProcess, RefRight, Resolved, Resolving, Settled, assetVars
  <2>4. RefRight'
    <3>1. NeedsShared(d) /\ UNCHANGED <<entry, assetOf>>
      BY <1>2 DEF Resolve, Resolving
    <3>2. PICK g \in File : DropOf[g] = d /\ Target[g] = Shared
      BY <3>1 DEF NeedsShared, FilesOf
    <3>3. ref' = Resolves[d]
      BY <1>2 DEF Resolve
    <3>4. QED
      BY <3>2, <3>3 DEF RefRight, OneDestination
  <2>5. DestRight'
    BY <1>2 DEF Resolve, Asked, Assigned, Begun, DestRight, DestinationOf, Fault, FilesOf, RefRight, Resolved, Resolving, assetVars
  <2>6. Asked'
    BY <1>2 DEF Resolve, Asked, Assigned, Begun, DestRight, Fault, FilesOf, RefRight, Resolved, Resolving, assetVars
  <2>7. QED
    BY <2>1, <2>2, <2>3, <2>4, <2>5, <2>6 DEF Flow
<1>3. ASSUME NEW d \in Drop, ResolveFails(d) PROVE Flow'
  <2>1. Begun'
    BY <1>3 DEF ResolveFails, Asked, Assigned, Begun, DestRight, Fault, FilesOf, InProcess, RefRight, Resolved, Resolving, Settled, assetVars
  <2>2. Resolving'
    BY <1>3 DEF ResolveFails, Asked, Assigned, Begun, DestRight, Fault, FilesOf, NeedsShared, RefRight, Resolved, Resolving, assetVars
  <2>3. Assigned'
    BY <1>3 DEF ResolveFails, Asked, Assigned, Begun, DestRight, Fault, FilesOf, InProcess, RefRight, Resolved, Resolving, Settled, assetVars
  <2>4. RefRight'
    BY <1>3 DEF ResolveFails, Asked, Assigned, Begun, DestRight, Fault, FilesOf, RefRight, Resolved, Resolving, assetVars
  <2>5. DestRight'
    BY <1>3 DEF ResolveFails, Asked, Assigned, Begun, DestRight, DestinationOf, Fault, FilesOf, RefRight, Resolved, Resolving, assetVars
  <2>6. Asked'
    BY <1>3 DEF ResolveFails, Asked, Assigned, Begun, DestRight, Fault, FilesOf, RefRight, Resolved, Resolving, assetVars
  <2>7. QED
    BY <2>1, <2>2, <2>3, <2>4, <2>5, <2>6 DEF Flow
<1>4. ASSUME NEW d \in Drop, CreateBatch(d) PROVE Flow'
  <2>1. Begun'
    BY <1>4 DEF CreateBatch, Asked, Assigned, Begun, DestRight, Fault, FilesOf, InProcess, RefRight, Resolved, Resolving, Settled, assetVars
  <2>2. Resolving'
    BY <1>4 DEF CreateBatch, Asked, Assigned, Begun, DestRight, Fault, FilesOf, NeedsShared, RefRight, Resolved, Resolving, assetVars
  <2>3. Assigned'
    BY <1>4 DEF CreateBatch, Asked, Assigned, Begun, DestRight, Fault, FilesOf, InProcess, RefRight, Resolved, Resolving, Settled, assetVars
  <2>4. RefRight'
    BY <1>4 DEF CreateBatch, Asked, Assigned, Begun, DestRight, Fault, FilesOf, RefRight, Resolved, Resolving, assetVars
  <2>5. DestRight'
    BY <1>4 DEF CreateBatch, Asked, Assigned, Begun, DestRight, DestinationOf, Fault, FilesOf, RefRight, Resolved, Resolving, assetVars
  <2>6. Asked'
    BY <1>4 DEF CreateBatch, Asked, Assigned, Begun, DestRight, Fault, FilesOf, RefRight, Resolved, Resolving, assetVars
  <2>7. QED
    BY <2>1, <2>2, <2>3, <2>4, <2>5, <2>6 DEF Flow
<1>5. ASSUME NEW d \in Drop, CreateBatchFails(d) PROVE Flow'
  <2>1. Begun'
    BY <1>5 DEF CreateBatchFails, Asked, Assigned, Begun, DestRight, Fault, FilesOf, InProcess, RefRight, Resolved, Resolving, Settled, assetVars
  <2>2. Resolving'
    BY <1>5 DEF CreateBatchFails, Asked, Assigned, Begun, DestRight, Fault, FilesOf, NeedsShared, RefRight, Resolved, Resolving, assetVars
  <2>3. Assigned'
    BY <1>5 DEF CreateBatchFails, Asked, Assigned, Begun, DestRight, Fault, FilesOf, InProcess, RefRight, Resolved, Resolving, Settled, assetVars
  <2>4. RefRight'
    BY <1>5 DEF CreateBatchFails, Asked, Assigned, Begun, DestRight, Fault, FilesOf, RefRight, Resolved, Resolving, assetVars
  <2>5. DestRight'
    BY <1>5 DEF CreateBatchFails, Asked, Assigned, Begun, DestRight, DestinationOf, Fault, FilesOf, RefRight, Resolved, Resolving, assetVars
  <2>6. Asked'
    BY <1>5 DEF CreateBatchFails, Asked, Assigned, Begun, DestRight, Fault, FilesOf, RefRight, Resolved, Resolving, assetVars
  <2>7. QED
    BY <2>1, <2>2, <2>3, <2>4, <2>5, <2>6 DEF Flow
<1>6. ASSUME NEW d \in Drop, FinishDrop(d) PROVE Flow'
  <2>1. Begun'
    BY <1>6 DEF FinishDrop, Asked, Assigned, Begun, DestRight, Fault, FilesOf, InProcess, RefRight, Resolved, Resolving, Settled, assetVars
  <2>2. Resolving'
    BY <1>6 DEF FinishDrop, Asked, Assigned, Begun, DestRight, Fault, FilesOf, NeedsShared, RefRight, Resolved, Resolving, assetVars
  <2>3. Assigned'
    BY <1>6 DEF FinishDrop, Asked, Assigned, Begun, DestRight, Fault, FilesOf, InProcess, RefRight, Resolved, Resolving, Settled, assetVars
  <2>4. RefRight'
    BY <1>6 DEF FinishDrop, Asked, Assigned, Begun, DestRight, Fault, FilesOf, RefRight, Resolved, Resolving, assetVars
  <2>5. DestRight'
    BY <1>6 DEF FinishDrop, Asked, Assigned, Begun, DestRight, DestinationOf, Fault, FilesOf, RefRight, Resolved, Resolving, assetVars
  <2>6. Asked'
    BY <1>6 DEF FinishDrop, Asked, Assigned, Begun, DestRight, Fault, FilesOf, RefRight, Resolved, Resolving, assetVars
  <2>7. QED
    BY <2>1, <2>2, <2>3, <2>4, <2>5, <2>6 DEF Flow
<1>7. ASSUME NEW f \in File, TakeEntry(f) PROVE Flow'
  <2>1. Begun'
    BY <1>7 DEF TakeEntry, Asked, Assigned, Begun, DestRight, Fault, InProcess, Matches, Patch, RefRight, Resolved, Resolving, Settled, TargetNow, assetVars
  <2>2. Resolving'
    BY <1>7 DEF TakeEntry, Asked, Assigned, Begun, DestRight, Fault, Matches, NeedsShared, Patch, RefRight, Resolved, Resolving, TargetNow, assetVars
  <2>3. Assigned'
    BY <1>7 DEF TakeEntry, Asked, Assigned, Begun, DestRight, Fault, InProcess, Matches, Patch, RefRight, Resolved, Resolving, Settled, TargetNow, assetVars
  <2>4. RefRight'
    BY <1>7 DEF TakeEntry, Asked, Assigned, Begun, DestRight, Fault, Matches, Patch, RefRight, Resolved, Resolving, TargetNow, assetVars
  <2>5. DestRight'
    BY <1>7 DEF TakeEntry, Asked, Assigned, Begun, DestRight, DestinationOf, Fault, Matches, Patch, RefRight, Resolved, Resolving, TargetNow, assetVars
  <2>6. Asked'
    BY <1>7 DEF TakeEntry, Asked, Assigned, Begun, DestRight, Fault, Matches, Patch, RefRight, Resolved, Resolving, TargetNow, assetVars
  <2>7. QED
    BY <2>1, <2>2, <2>3, <2>4, <2>5, <2>6 DEF Flow
<1>8. ASSUME NEW f \in File, Hashed(f) PROVE Flow'
  <2>1. Begun'
    BY <1>8 DEF Hashed, Asked, Assigned, Begun, DestRight, Fault, InProcess, Matches, Patch, RefRight, Resolved, Resolving, Settled, TargetNow, assetVars
  <2>2. Resolving'
    BY <1>8 DEF Hashed, Asked, Assigned, Begun, DestRight, Fault, Matches, NeedsShared, Patch, RefRight, Resolved, Resolving, TargetNow, assetVars
  <2>3. Assigned'
    BY <1>8 DEF Hashed, Asked, Assigned, Begun, DestRight, Fault, InProcess, Matches, Patch, RefRight, Resolved, Resolving, Settled, TargetNow, assetVars
  <2>4. RefRight'
    BY <1>8 DEF Hashed, Asked, Assigned, Begun, DestRight, Fault, Matches, Patch, RefRight, Resolved, Resolving, TargetNow, assetVars
  <2>5. DestRight'
    BY <1>8 DEF Hashed, Asked, Assigned, Begun, DestRight, DestinationOf, Fault, Matches, Patch, RefRight, Resolved, Resolving, TargetNow, assetVars
  <2>6. Asked'
    BY <1>8 DEF Hashed, Asked, Assigned, Begun, DestRight, Fault, Matches, Patch, RefRight, Resolved, Resolving, TargetNow, assetVars
  <2>7. QED
    BY <2>1, <2>2, <2>3, <2>4, <2>5, <2>6 DEF Flow
<1>9. ASSUME NEW f \in File, CheckNew(f) PROVE Flow'
  <2>1. Begun'
    BY <1>9 DEF CheckNew, Asked, Assigned, Begun, DestRight, Fault, InProcess, Matches, Patch, RefRight, Resolved, Resolving, Settled, TargetNow, assetVars
  <2>2. Resolving'
    BY <1>9 DEF CheckNew, Asked, Assigned, Begun, DestRight, Fault, Matches, NeedsShared, Patch, RefRight, Resolved, Resolving, TargetNow, assetVars
  <2>3. Assigned'
    BY <1>9 DEF CheckNew, Asked, Assigned, Begun, DestRight, Fault, InProcess, Matches, Patch, RefRight, Resolved, Resolving, Settled, TargetNow, assetVars
  <2>4. RefRight'
    BY <1>9 DEF CheckNew, Asked, Assigned, Begun, DestRight, Fault, Matches, Patch, RefRight, Resolved, Resolving, TargetNow, assetVars
  <2>5. DestRight'
    BY <1>9 DEF CheckNew, Asked, Assigned, Begun, DestRight, DestinationOf, Fault, Matches, Patch, RefRight, Resolved, Resolving, TargetNow, assetVars
  <2>6. Asked'
    BY <1>9 DEF CheckNew, Asked, Assigned, Begun, DestRight, Fault, Matches, Patch, RefRight, Resolved, Resolving, TargetNow, assetVars
  <2>7. QED
    BY <2>1, <2>2, <2>3, <2>4, <2>5, <2>6 DEF Flow
<1>10. ASSUME NEW f \in File, CheckSkip(f) PROVE Flow'
  <2>1. Begun'
    BY <1>10 DEF CheckSkip, Asked, Assigned, Begun, DestRight, Fault, InProcess, Matches, Patch, RefRight, Resolved, Resolving, Settled, TargetNow, assetVars
  <2>2. Resolving'
    BY <1>10 DEF CheckSkip, Asked, Assigned, Begun, DestRight, Fault, Matches, NeedsShared, Patch, RefRight, Resolved, Resolving, TargetNow, assetVars
  <2>3. Assigned'
    BY <1>10 DEF CheckSkip, Asked, Assigned, Begun, DestRight, Fault, InProcess, Matches, Patch, RefRight, Resolved, Resolving, Settled, TargetNow, assetVars
  <2>4. RefRight'
    BY <1>10 DEF CheckSkip, Asked, Assigned, Begun, DestRight, Fault, Matches, Patch, RefRight, Resolved, Resolving, TargetNow, assetVars
  <2>5. DestRight'
    BY <1>10 DEF CheckSkip, Asked, Assigned, Begun, DestRight, DestinationOf, Fault, Matches, Patch, RefRight, Resolved, Resolving, TargetNow, assetVars
  <2>6. Asked'
    BY <1>10 DEF CheckSkip, Asked, Assigned, Begun, DestRight, Fault, Matches, Patch, RefRight, Resolved, Resolving, TargetNow, assetVars
  <2>7. QED
    BY <2>1, <2>2, <2>3, <2>4, <2>5, <2>6 DEF Flow
<1>11. ASSUME NEW f \in File, AttachDuplicate(f) PROVE Flow'
  <2>1. Begun'
    BY <1>11 DEF AttachDuplicate, Asked, Assigned, Begun, DestRight, Fault, InProcess, Matches, Patch, RefRight, Resolved, Resolving, Settled, TargetNow, assetVars
  <2>2. Resolving'
    BY <1>11 DEF AttachDuplicate, Asked, Assigned, Begun, DestRight, Fault, Matches, NeedsShared, Patch, RefRight, Resolved, Resolving, TargetNow, assetVars
  <2>3. Assigned'
    BY <1>11 DEF AttachDuplicate, Asked, Assigned, Begun, DestRight, Fault, InProcess, Matches, Patch, RefRight, Resolved, Resolving, Settled, TargetNow, assetVars
  <2>4. RefRight'
    BY <1>11 DEF AttachDuplicate, Asked, Assigned, Begun, DestRight, Fault, Matches, Patch, RefRight, Resolved, Resolving, TargetNow, assetVars
  <2>5. DestRight'
    BY <1>11 DEF AttachDuplicate, Asked, Assigned, Begun, DestRight, DestinationOf, Fault, Matches, Patch, RefRight, Resolved, Resolving, TargetNow, assetVars
  <2>6. Asked'
    BY <1>11 DEF AttachDuplicate, Asked, Assigned, Begun, DestRight, Fault, Matches, Patch, RefRight, Resolved, Resolving, TargetNow, assetVars
  <2>7. QED
    BY <2>1, <2>2, <2>3, <2>4, <2>5, <2>6 DEF Flow
<1>12. CASE ChooseMode
  <2>1. UNCHANGED <<drop, ref, entry, dest, assetOf, poll>>
    BY <1>12 DEF ChooseMode
  <2>2. QED
    BY <2>1, Quiet
<1>13. ASSUME NEW f \in File, Complete(f) PROVE Flow'
  <2>1. Begun'
    BY <1>13 DEF Complete, Asked, Assigned, Begun, DestRight, Fault, InProcess, Matches, Patch, RefRight, Resolved, Resolving, Settled, TargetNow, assetVars
  <2>2. Resolving'
    BY <1>13 DEF Complete, Asked, Assigned, Begun, DestRight, Fault, Matches, NeedsShared, Patch, RefRight, Resolved, Resolving, TargetNow, assetVars
  <2>3. Assigned'
    BY <1>13 DEF Complete, Asked, Assigned, Begun, DestRight, Fault, InProcess, Matches, Patch, RefRight, Resolved, Resolving, Settled, TargetNow, assetVars
  <2>4. RefRight'
    BY <1>13 DEF Complete, Asked, Assigned, Begun, DestRight, Fault, Matches, Patch, RefRight, Resolved, Resolving, TargetNow, assetVars
  <2>5. DestRight'
    BY <1>13 DEF Complete, Asked, Assigned, Begun, DestRight, DestinationOf, Fault, Matches, Patch, RefRight, Resolved, Resolving, TargetNow, assetVars
  <2>6. Asked'
    <3>1. poll' = poll
      BY <1>13 DEF Complete
    <3>2. assetOf' = assetOf \/ \E a \in File : assetOf' = [assetOf EXCEPT ![f] = a]
      BY <1>13 DEF Complete, Matches
    <3>3. \A j \in Poll : poll[j].pending \subseteq File
      BY DEF Request
    <3>4. \A g \in File : assetOf[g] # NoFile => assetOf'[g] # NoFile
      BY <3>2
    <3>5. QED
      BY <3>1, <3>3, <3>4 DEF Asked
  <2>7. QED
    BY <2>1, <2>2, <2>3, <2>4, <2>5, <2>6 DEF Flow
<1>14. ASSUME NEW f \in File, RequestFails(f) PROVE Flow'
  <2>1. Begun'
    BY <1>14 DEF RequestFails, Asked, Assigned, Begun, DestRight, Fault, InProcess, Matches, Patch, RefRight, Resolved, Resolving, Settled, TargetNow, assetVars
  <2>2. Resolving'
    BY <1>14 DEF RequestFails, Asked, Assigned, Begun, DestRight, Fault, Matches, NeedsShared, Patch, RefRight, Resolved, Resolving, TargetNow, assetVars
  <2>3. Assigned'
    BY <1>14 DEF RequestFails, Asked, Assigned, Begun, DestRight, Fault, InProcess, Matches, Patch, RefRight, Resolved, Resolving, Settled, TargetNow, assetVars
  <2>4. RefRight'
    BY <1>14 DEF RequestFails, Asked, Assigned, Begun, DestRight, Fault, Matches, Patch, RefRight, Resolved, Resolving, TargetNow, assetVars
  <2>5. DestRight'
    BY <1>14 DEF RequestFails, Asked, Assigned, Begun, DestRight, DestinationOf, Fault, Matches, Patch, RefRight, Resolved, Resolving, TargetNow, assetVars
  <2>6. Asked'
    BY <1>14 DEF RequestFails, Asked, Assigned, Begun, DestRight, Fault, Matches, Patch, RefRight, Resolved, Resolving, TargetNow, assetVars
  <2>7. QED
    BY <2>1, <2>2, <2>3, <2>4, <2>5, <2>6 DEF Flow
<1>15. ASSUME NEW f \in File, BeginIngest(f) PROVE Flow'
  BY <1>15, Quiet DEF BeginIngest, pageVars
<1>16. ASSUME NEW f \in File, Publish(f) PROVE Flow'
  BY <1>16, Quiet DEF Publish, pageVars
<1>17. ASSUME NEW f \in File, Link(f) PROVE Flow'
  BY <1>17, Quiet DEF Link, pageVars
<1>18. ASSUME NEW f \in File, IngestFails(f) PROVE Flow'
  BY <1>18, Quiet DEF IngestFails, pageVars
<1>19. ASSUME NEW i \in Poll, Ask(i) PROVE Flow'
  <2>1. Begun'
    BY <1>19 DEF Ask, Asked, Assigned, Awaiting, Begun, DestRight, Fault, Found, Idle, InProcess, Patch, RefRight, Request, Resolved, Resolving, SetPoll, Settled, assetVars, pageVars
  <2>2. Resolving'
    BY <1>19 DEF Ask, Asked, Assigned, Awaiting, Begun, DestRight, Fault, Found, Idle, NeedsShared, Patch, RefRight, Request, Resolved, Resolving, SetPoll, assetVars, pageVars
  <2>3. Assigned'
    BY <1>19 DEF Ask, Asked, Assigned, Awaiting, Begun, DestRight, Fault, Found, Idle, InProcess, Patch, RefRight, Request, Resolved, Resolving, SetPoll, Settled, assetVars, pageVars
  <2>4. RefRight'
    BY <1>19 DEF Ask, Asked, Assigned, Awaiting, Begun, DestRight, Fault, Found, Idle, Patch, RefRight, Request, Resolved, Resolving, SetPoll, assetVars, pageVars
  <2>5. DestRight'
    BY <1>19 DEF Ask, Asked, Assigned, Awaiting, Begun, DestRight, DestinationOf, Fault, Found, Idle, Patch, RefRight, Request, Resolved, Resolving, SetPoll, assetVars, pageVars
  <2>6. Asked'
    BY <1>19 DEF Ask, Asked, Assigned, Awaiting, Begun, DestRight, Fault, Found, Idle, Patch, RefRight, Request, Resolved, Resolving, SetPoll, assetVars, pageVars
  <2>7. QED
    BY <2>1, <2>2, <2>3, <2>4, <2>5, <2>6 DEF Flow
<1>20. ASSUME NEW i \in Poll, Answer(i) PROVE Flow'
  <2>1. Begun'
    BY <1>20 DEF Answer, Asked, Assigned, Awaiting, Begun, DestRight, Fault, Found, Idle, InProcess, Patch, RefRight, Request, Resolved, Resolving, SetPoll, Settled, assetVars, pageVars
  <2>2. Resolving'
    BY <1>20 DEF Answer, Asked, Assigned, Awaiting, Begun, DestRight, Fault, Found, Idle, NeedsShared, Patch, RefRight, Request, Resolved, Resolving, SetPoll, assetVars, pageVars
  <2>3. Assigned'
    BY <1>20 DEF Answer, Asked, Assigned, Awaiting, Begun, DestRight, Fault, Found, Idle, InProcess, Patch, RefRight, Request, Resolved, Resolving, SetPoll, Settled, assetVars, pageVars
  <2>4. RefRight'
    BY <1>20 DEF Answer, Asked, Assigned, Awaiting, Begun, DestRight, Fault, Found, Idle, Patch, RefRight, Request, Resolved, Resolving, SetPoll, assetVars, pageVars
  <2>5. DestRight'
    BY <1>20 DEF Answer, Asked, Assigned, Awaiting, Begun, DestRight, DestinationOf, Fault, Found, Idle, Patch, RefRight, Request, Resolved, Resolving, SetPoll, assetVars, pageVars
  <2>6. Asked'
    BY <1>20 DEF Answer, Asked, Assigned, Awaiting, Begun, DestRight, Fault, Found, Idle, Patch, RefRight, Request, Resolved, Resolving, SetPoll, assetVars, pageVars
  <2>7. QED
    BY <2>1, <2>2, <2>3, <2>4, <2>5, <2>6 DEF Flow
<1>21. ASSUME NEW i \in Poll, PollItem(i) PROVE Flow'
  <2>1. Begun'
    BY <1>21 DEF PollItem, Asked, Assigned, Awaiting, Begun, DestRight, Fault, Found, Idle, InProcess, Patch, RefRight, Request, Resolved, Resolving, SetPoll, Settled, assetVars, pageVars
  <2>2. Resolving'
    BY <1>21 DEF PollItem, Asked, Assigned, Awaiting, Begun, DestRight, Fault, Found, Idle, NeedsShared, Patch, RefRight, Request, Resolved, Resolving, SetPoll, assetVars, pageVars
  <2>3. Assigned'
    BY <1>21 DEF PollItem, Asked, Assigned, Awaiting, Begun, DestRight, Fault, Found, Idle, InProcess, Patch, RefRight, Request, Resolved, Resolving, SetPoll, Settled, assetVars, pageVars
  <2>4. RefRight'
    BY <1>21 DEF PollItem, Asked, Assigned, Awaiting, Begun, DestRight, Fault, Found, Idle, Patch, RefRight, Request, Resolved, Resolving, SetPoll, assetVars, pageVars
  <2>5. DestRight'
    BY <1>21 DEF PollItem, Asked, Assigned, Awaiting, Begun, DestRight, DestinationOf, Fault, Found, Idle, Patch, RefRight, Request, Resolved, Resolving, SetPoll, assetVars, pageVars
  <2>6. Asked'
    BY <1>21 DEF PollItem, Asked, Assigned, Awaiting, Begun, DestRight, Fault, Found, Idle, Patch, RefRight, Request, Resolved, Resolving, SetPoll, assetVars, pageVars
  <2>7. QED
    BY <2>1, <2>2, <2>3, <2>4, <2>5, <2>6 DEF Flow
<1>22. ASSUME NEW i \in Poll, PollFails(i) PROVE Flow'
  <2>1. Begun'
    BY <1>22 DEF PollFails, Asked, Assigned, Awaiting, Begun, DestRight, Fault, Found, Idle, InProcess, Patch, RefRight, Request, Resolved, Resolving, SetPoll, Settled, assetVars, pageVars
  <2>2. Resolving'
    BY <1>22 DEF PollFails, Asked, Assigned, Awaiting, Begun, DestRight, Fault, Found, Idle, NeedsShared, Patch, RefRight, Request, Resolved, Resolving, SetPoll, assetVars, pageVars
  <2>3. Assigned'
    BY <1>22 DEF PollFails, Asked, Assigned, Awaiting, Begun, DestRight, Fault, Found, Idle, InProcess, Patch, RefRight, Request, Resolved, Resolving, SetPoll, Settled, assetVars, pageVars
  <2>4. RefRight'
    BY <1>22 DEF PollFails, Asked, Assigned, Awaiting, Begun, DestRight, Fault, Found, Idle, Patch, RefRight, Request, Resolved, Resolving, SetPoll, assetVars, pageVars
  <2>5. DestRight'
    BY <1>22 DEF PollFails, Asked, Assigned, Awaiting, Begun, DestRight, DestinationOf, Fault, Found, Idle, Patch, RefRight, Request, Resolved, Resolving, SetPoll, assetVars, pageVars
  <2>6. Asked'
    BY <1>22 DEF PollFails, Asked, Assigned, Awaiting, Begun, DestRight, Fault, Found, Idle, Patch, RefRight, Request, Resolved, Resolving, SetPoll, assetVars, pageVars
  <2>7. QED
    BY <2>1, <2>2, <2>3, <2>4, <2>5, <2>6 DEF Flow
<1>23. CASE UNCHANGED vars
  BY <1>23, Quiet DEF vars, pageVars
<1>24. QED
  BY <1>1, <1>2, <1>3, <1>4, <1>5, <1>6, <1>7, <1>8, <1>9, <1>10, <1>11, <1>12, <1>13, <1>14, <1>15, <1>16, <1>17, <1>18, <1>19, <1>20, <1>21, <1>22, <1>23
     DEF Next, DropStep, EntryStep, PollStep, IngestStep

LEMMA AttachedInit == ASSUME Init PROVE AttachedToDestination
BY DEF Init, AttachedToDestination

\* What a step may add to the items, and that an entry keeps its asset.
LEMMA ItemsStep ==
  ASSUME PageAssumption, OneDestination, TypeOK, Attaching, Flow, [Next]_vars
  PROVE  /\ \A x \in items' \ items : \E f \in File :
              assetOf[f] = x[2] /\ DestinationOf(f) = x[1] /\ x[2] \in File
         /\ \A f \in File : assetOf[f] # NoFile => assetOf'[f] = assetOf[f]
<1> USE PageAssumption DEF TypeOK, Flow
<1> DEFINE New == \A x \in items' \ items : \E f \in File :
                    assetOf[f] = x[2] /\ DestinationOf(f) = x[1] /\ x[2] \in File
           Kept == \A f \in File : assetOf[f] # NoFile => assetOf'[f] = assetOf[f]
<1>1. ASSUME NEW d \in Drop, BeginDrop(d) PROVE New /\ Kept
  BY <1>1 DEF BeginDrop, pageVars
<1>2. ASSUME NEW d \in Drop, Resolve(d) PROVE New /\ Kept
  BY <1>2 DEF Resolve, pageVars
<1>3. ASSUME NEW d \in Drop, ResolveFails(d) PROVE New /\ Kept
  BY <1>3 DEF ResolveFails, pageVars
<1>4. ASSUME NEW d \in Drop, CreateBatch(d) PROVE New /\ Kept
  BY <1>4 DEF CreateBatch, pageVars
<1>5. ASSUME NEW d \in Drop, CreateBatchFails(d) PROVE New /\ Kept
  BY <1>5 DEF CreateBatchFails, pageVars
<1>6. ASSUME NEW d \in Drop, FinishDrop(d) PROVE New /\ Kept
  BY <1>6 DEF FinishDrop, pageVars
<1>7. ASSUME NEW f \in File, TakeEntry(f) PROVE New /\ Kept
  BY <1>7 DEF TakeEntry, pageVars
<1>8. ASSUME NEW f \in File, Hashed(f) PROVE New /\ Kept
  BY <1>8 DEF Hashed, pageVars
<1>9. ASSUME NEW f \in File, CheckNew(f) PROVE New /\ Kept
  BY <1>9 DEF CheckNew, pageVars
<1>10. ASSUME NEW f \in File, CheckSkip(f) PROVE New /\ Kept
  BY <1>10 DEF CheckSkip, Assigned, Settled
<1>11. ASSUME NEW f \in File, AttachDuplicate(f) PROVE New /\ Kept
  <2>1. UNCHANGED assetOf
    BY <1>11 DEF AttachDuplicate
  <2>2. dest[f] = DestinationOf(f) /\ assetOf[f] \in File
    BY <1>11 DEF AttachDuplicate, DestRight, Attaching
  <2>3. items' \ items \subseteq {<<dest[f], assetOf[f]>>}
    BY <1>11 DEF AttachDuplicate, Attach
  <2>4. QED
    BY <2>1, <2>2, <2>3
<1>12. ASSUME ChooseMode PROVE New /\ Kept
  BY <1>12 DEF ChooseMode, assetVars
<1>13. ASSUME NEW f \in File, Complete(f) PROVE New /\ Kept
  BY <1>13 DEF Complete, Assigned, Settled
<1>14. ASSUME NEW f \in File, RequestFails(f) PROVE New /\ Kept
  BY <1>14 DEF RequestFails, pageVars
<1>15. ASSUME NEW f \in File, BeginIngest(f) PROVE New /\ Kept
  BY <1>15 DEF BeginIngest, pageVars
<1>16. ASSUME NEW f \in File, Publish(f) PROVE New /\ Kept
  BY <1>16 DEF Publish, pageVars
<1>17. ASSUME NEW f \in File, Link(f) PROVE New /\ Kept
  BY <1>17 DEF Link, pageVars
<1>18. ASSUME NEW f \in File, IngestFails(f) PROVE New /\ Kept
  BY <1>18 DEF IngestFails, pageVars
<1>19. ASSUME NEW i \in Poll, Ask(i) PROVE New /\ Kept
  BY <1>19 DEF Ask, pageVars
<1>20. ASSUME NEW i \in Poll, Answer(i) PROVE New /\ Kept
  BY <1>20 DEF Answer, pageVars
<1>21. ASSUME NEW i \in Poll, PollItem(i) PROVE New /\ Kept
  <2>1. UNCHANGED assetOf
    BY <1>21 DEF PollItem
  <2>2. PICK x \in poll[i].left, f \in File :
          /\ f \in Found(i, x.asset)
          /\ IF x.status = "ready" /\ x.eligible /\ TargetNow(f) \in Gallery
               THEN Attach(TargetNow(f), x.asset) ELSE UNCHANGED <<items, faults>>
    BY <1>21 DEF PollItem
  <2>3. items' \ items \subseteq {<<TargetNow(f), x.asset>>}
    BY <2>2 DEF Attach
  <2>4. assetOf[f] = x.asset /\ assetOf[f] # NoFile
    BY <2>2 DEF Found, Asked
  <2>5. TargetNow(f) = DestinationOf(f)
    BY <2>4 DEF TargetNow, DestinationOf, RefRight, Resolved
  <2>6. QED
    BY <2>1, <2>3, <2>4, <2>5
<1>22. ASSUME NEW i \in Poll, PollFails(i) PROVE New /\ Kept
  BY <1>22 DEF PollFails, pageVars
<1>23. CASE UNCHANGED vars
  BY <1>23 DEF vars
<1>24. QED
  BY <1>1, <1>2, <1>3, <1>4, <1>5, <1>6, <1>7, <1>8, <1>9, <1>10, <1>11, <1>12, <1>13, <1>14, <1>15, <1>16, <1>17, <1>18, <1>19, <1>20, <1>21, <1>22, <1>23
     DEF Next, DropStep, EntryStep, PollStep, IngestStep

LEMMA AttachedStep ==
  ASSUME PageAssumption, OneDestination, TypeOK, Attaching, Flow,
         AttachedToDestination, [Next]_vars
  PROVE  AttachedToDestination'
<1>1. SUFFICES ASSUME NEW x \in items'
               PROVE  \E f \in File : assetOf'[f] = x[2] /\ DestinationOf(f) = x[1]
  BY DEF AttachedToDestination, DestinationOf
<1>2. PICK f \in File : assetOf[f] = x[2] /\ DestinationOf(f) = x[1] /\ x[2] \in File
  <2>1. CASE x \in items
    BY <2>1 DEF AttachedToDestination, TypeOK
  <2>2. CASE x \notin items
    BY <1>1, <2>2, ItemsStep
  <2>3. QED
    BY <2>1, <2>2
<1>3. assetOf'[f] = assetOf[f]
  BY <1>2, ItemsStep DEF PageAssumption
<1>4. QED
  BY <1>2, <1>3

\* When the drops that share the ref share the destination, a photo is only
\* ever attached to a gallery it was dropped on.
THEOREM PhotosArriveWhereDropped ==
  ASSUME PageAssumption, OneDestination PROVE Spec => []AttachedToDestination
<1> DEFINE IInv == Typed /\ Flow /\ AttachedToDestination
<1>1. Init => IInv
  BY TypeInit, FlowInit, AttachedInit
<1>2. IInv /\ [Next]_vars => IInv'
  BY TypeStep, AttachingStep, FlowStep, AttachedStep DEF Typed
<1>3. QED
  BY <1>1, <1>2, PTL DEF Spec

------------------------------------------------------------------------------
(* One primary per group.                                                  *)

LEMMA FlagsInit == ASSUME Init PROVE Flags
BY DEF Init, Flags, OnePrimary

\* Rows never go away, and linking aside, groups and flags stay.
LEMMA RowsStay ==
  ASSUME PageAssumption, TypeOK, [Next]_vars
  PROVE  /\ \A a \in File : row[a] # "none" => row'[a] # "none"
         /\ UNCHANGED <<grouped, primary>> \/ \E a \in File : Link(a)
<1> USE PageAssumption DEF TypeOK
<1> DEFINE Goal == /\ \A a \in File : row[a] # "none" => row'[a] # "none"
                   /\ UNCHANGED <<grouped, primary>> \/ \E a \in File : Link(a)
<1>1. ASSUME NEW d \in Drop, BeginDrop(d) PROVE Goal
  BY <1>1 DEF BeginDrop, assetVars
<1>2. ASSUME NEW d \in Drop, Resolve(d) PROVE Goal
  BY <1>2 DEF Resolve, assetVars
<1>3. ASSUME NEW d \in Drop, ResolveFails(d) PROVE Goal
  BY <1>3 DEF ResolveFails, assetVars
<1>4. ASSUME NEW d \in Drop, CreateBatch(d) PROVE Goal
  BY <1>4 DEF CreateBatch, assetVars
<1>5. ASSUME NEW d \in Drop, CreateBatchFails(d) PROVE Goal
  BY <1>5 DEF CreateBatchFails, assetVars
<1>6. ASSUME NEW d \in Drop, FinishDrop(d) PROVE Goal
  BY <1>6 DEF FinishDrop, assetVars
<1>7. ASSUME NEW f \in File, TakeEntry(f) PROVE Goal
  BY <1>7 DEF TakeEntry, assetVars
<1>8. ASSUME NEW f \in File, Hashed(f) PROVE Goal
  BY <1>8 DEF Hashed, assetVars
<1>9. ASSUME NEW f \in File, CheckNew(f) PROVE Goal
  BY <1>9 DEF CheckNew, assetVars
<1>10. ASSUME NEW f \in File, CheckSkip(f) PROVE Goal
  BY <1>10 DEF CheckSkip, assetVars
<1>11. ASSUME NEW f \in File, AttachDuplicate(f) PROVE Goal
  BY <1>11 DEF AttachDuplicate, assetVars
<1>12. ASSUME ChooseMode PROVE Goal
  BY <1>12 DEF ChooseMode, assetVars
<1>13. ASSUME NEW f \in File, Complete(f) PROVE Goal
  BY <1>13 DEF Complete, assetVars
<1>14. ASSUME NEW f \in File, RequestFails(f) PROVE Goal
  BY <1>14 DEF RequestFails, assetVars
<1>15. ASSUME NEW f \in File, BeginIngest(f) PROVE Goal
  BY <1>15 DEF BeginIngest, assetVars
<1>16. ASSUME NEW f \in File, Publish(f) PROVE Goal
  BY <1>16 DEF Publish, assetVars
<1>17. ASSUME NEW f \in File, Link(f) PROVE Goal
  BY <1>17 DEF Link, assetVars
<1>18. ASSUME NEW f \in File, IngestFails(f) PROVE Goal
  BY <1>18 DEF IngestFails, assetVars
<1>19. ASSUME NEW i \in Poll, Ask(i) PROVE Goal
  BY <1>19 DEF Ask, assetVars
<1>20. ASSUME NEW i \in Poll, Answer(i) PROVE Goal
  BY <1>20 DEF Answer, assetVars
<1>21. ASSUME NEW i \in Poll, PollItem(i) PROVE Goal
  BY <1>21 DEF PollItem, assetVars
<1>22. ASSUME NEW i \in Poll, PollFails(i) PROVE Goal
  BY <1>22 DEF PollFails, assetVars
<1>23. CASE UNCHANGED vars
  BY <1>23 DEF vars
<1>24. QED
  BY <1>1, <1>2, <1>3, <1>4, <1>5, <1>6, <1>7, <1>8, <1>9, <1>10, <1>11, <1>12, <1>13, <1>14, <1>15, <1>16, <1>17, <1>18, <1>19, <1>20, <1>21, <1>22, <1>23
     DEF Next, DropStep, EntryStep, PollStep, IngestStep

LEMMA LinkKeepsFlags ==
  ASSUME TypeOK, Flags, NEW a \in File, Link(a) PROVE Flags'
<1> DEFINE S == Siblings(a)
<1>1. row' = row /\ \A b \in File : Siblings(b)' = Siblings(b)
  BY DEF Link, Siblings
<1>2. CASE Cardinality(S) < 2
  <2>1. UNCHANGED <<grouped, primary>>
    BY <1>2 DEF Link
  <2>2. QED
    BY <1>1, <2>1 DEF Flags, OnePrimary, TypeOK
<1>3. CASE ~(Cardinality(S) < 2)
  <2>1. grouped' = grouped \cup S
    BY <1>3 DEF Link
  <2>2. PICK p \in Preferred(S) : primary' = (primary \ S) \cup {p}
    BY <1>3 DEF Link
  <2>3. p \in S /\ (KindOf[p] = "raw" \/ \A b \in S : KindOf[b] # "raw")
    BY <2>2 DEF Preferred
  <2>4. S \subseteq File /\ \A b \in S : row[b] # "none"
    BY DEF Siblings
  <2>5. \A b \in S : Siblings(b) = S
    BY DEF Siblings
  <2>6. \A b \in grouped \ S : Siblings(b) \cap S = {}
    <3>1. SUFFICES ASSUME NEW b \in grouped \ S, NEW x \in Siblings(b) \cap S PROVE FALSE
      OBVIOUS
    <3>2. row[b] # "none" /\ b \in File
      BY DEF Flags, TypeOK
    <3>3. DropOf[b] = DropOf[a] /\ NameOf[b] = NameOf[a]
      BY DEF Siblings
    <3>4. QED
      BY <3>2, <3>3 DEF Siblings
  <2>7. OnePrimary'
    <3>1. SUFFICES ASSUME NEW b \in grouped'
                   PROVE  LET members == Siblings(b) \cap grouped'
                          IN  \E q \in members :
                                /\ members \cap primary' = {q}
                                /\ KindOf[q] = "raw" \/ \A c \in members : KindOf[c] # "raw"
      BY <1>1, <2>1, <2>4 DEF OnePrimary, TypeOK
    <3>2. CASE b \in S
      <4>1. Siblings(b) \cap grouped' = S /\ S \cap primary' = {p}
        BY <2>1, <2>2, <2>3, <2>5, <3>2
      <4>2. QED
        BY <2>3, <4>1
    <3>3. CASE b \notin S
      <4>1. b \in grouped /\ Siblings(b) \cap S = {}
        BY <2>1, <2>6, <3>1, <3>3
      <4>2. Siblings(b) \cap grouped' = Siblings(b) \cap grouped
        BY <2>1, <4>1
      <4>3. (Siblings(b) \cap grouped) \cap primary' = (Siblings(b) \cap grouped) \cap primary
        BY <2>2, <2>3, <4>1
      <4>4. PICK q \in Siblings(b) \cap grouped :
              /\ (Siblings(b) \cap grouped) \cap primary = {q}
              /\ KindOf[q] = "raw" \/ \A c \in Siblings(b) \cap grouped : KindOf[c] # "raw"
        BY <4>1 DEF Flags, OnePrimary
      <4>5. QED
        BY <4>2, <4>3, <4>4
    <3>4. QED
      BY <3>2, <3>3
  <2>8. (\A b \in grouped : row[b] # "none")' /\ (primary \subseteq grouped)'
    BY <1>1, <2>1, <2>2, <2>3, <2>4 DEF Flags
  <2>9. QED
    BY <2>7, <2>8 DEF Flags
<1>4. QED
  BY <1>2, <1>3

LEMMA FlagsStep ==
  ASSUME PageAssumption, TypeOK, Flags, [Next]_vars PROVE Flags'
<1>1. CASE \E a \in File : Link(a)
  BY <1>1, LinkKeepsFlags
<1>2. CASE ~\E a \in File : Link(a)
  <2>1. UNCHANGED <<grouped, primary>>
    BY <1>2, RowsStay
  <2>2. grouped \subseteq File
    BY DEF TypeOK
  <2>3. \A a \in File : row[a] # "none" => row'[a] # "none"
    BY RowsStay
  <2>4. \A a \in grouped : Siblings(a)' \cap grouped = Siblings(a) \cap grouped
    BY <2>2, <2>3 DEF Siblings, Flags
  <2>5. OnePrimary'
    BY <2>1, <2>4 DEF OnePrimary, Flags
  <2>6. QED
    BY <2>1, <2>2, <2>3, <2>5 DEF Flags
<1>3. QED
  BY <1>1, <1>2

\* A group has exactly one primary, a raw if it has one, in whatever order its
\* members are inserted and linked, for any number of siblings.
THEOREM GroupsHaveOnePrimary ==
  ASSUME PageAssumption PROVE Spec => []OnePrimary
<1> DEFINE IInv == Typed /\ Flags
<1>1. Init => IInv
  BY TypeInit, FlagsInit
<1>2. IInv /\ [Next]_vars => IInv'
  BY TypeStep, AttachingStep, FlagsStep DEF Typed
<1>3. IInv => OnePrimary
  BY DEF Flags
<1>4. QED
  BY <1>1, <1>2, <1>3, PTL DEF Spec

------------------------------------------------------------------------------
(* Whatever was dropped on a gallery is shown in it.                       *)

(***************************************************************************)
(* What it takes: of the files with one name in a drop no two are of a     *)
(* kind (a raw, a photo, a sidecar) and all go to one place, and what is   *)
(* dropped twice is not outranked by a sibling.  Two photos of one name    *)
(* may each be asked about while the other is the primary.                 *)
(***************************************************************************)
Together(f, g) == DropOf[f] = DropOf[g] /\ NameOf[f] = NameOf[g]

Outranks(b, a) == \/ KindOf[b] = "raw" /\ KindOf[a] # "raw"
                  \/ KindOf[b] = "photo" /\ KindOf[a] = "sidecar"

OneOfAKind == \A f, g \in File :
  Together(f, g) => DestinationOf(f) = DestinationOf(g) /\ (KindOf[f] = KindOf[g] => f = g)

LeadersAgain == \A f, g, h \in File :
  ContentOf[f] = ContentOf[g] /\ f # g /\ Together(g, h) => ~ Outranks(h, g)

(***************************************************************************)
(* The invariant.  An entry that got somewhere has an asset with its       *)
(* content, and a row was inserted by the entry it is named after (Owned). *)
(* A group member that is not the primary is outranked by another (Led),   *)
(* so an entry that ended without its photo in the gallery, and an answer  *)
(* that says "not eligible", have an outranked asset (Told).               *)
(***************************************************************************)
Outranked(a) == a \in grouped /\ \E b \in Siblings(a) \cap grouped : Outranks(b, a)

Owned ==
  /\ \A f \in File : assetOf[f] # NoFile =>
       row[assetOf[f]] # "none" /\ ContentOf[assetOf[f]] = ContentOf[f]
  /\ \A f \in File : entry[f] \in {"attach", "processing", "duplicate", "done"} => assetOf[f] # NoFile
  /\ faults = 0 => \A f \in File : row[f] # "none" => assetOf[f] = f

Led == \A a \in grouped : a \in primary \/ Outranked(a)

Given(f) == DestinationOf(f) \in Gallery =>
  <<DestinationOf(f), assetOf[f]>> \in items \/ Outranked(assetOf[f])

Told ==
  /\ faults = 0 => \A f \in File : entry[f] \in {"duplicate", "done"} => Given(f)
  /\ \A i \in Poll : \A x \in poll[i].left : ~ x.eligible => Outranked(x.asset)

\* Rows and groups only grow, so what is outranked stays outranked.
LEMMA StaysOutranked ==
  ASSUME PageAssumption, TypeOK, [Next]_vars PROVE \A a : Outranked(a) => Outranked(a)'
<1>1. \A a : Siblings(a) \subseteq Siblings(a)'
  BY RowsStay DEF Siblings
<1>2. grouped \subseteq grouped'
  <2>1. ASSUME NEW a \in File, Link(a) PROVE grouped \subseteq grouped'
    BY <2>1 DEF Link
  <2>2. QED
    BY <2>1, RowsStay
<1>3. QED
  BY <1>1, <1>2 DEF Outranked

LEMMA LinkKeepsLed ==
  ASSUME PageAssumption, OneOfAKind, TypeOK, Flags, Led, NEW a \in File, Link(a)
  PROVE  Led'
<1> DEFINE S == Siblings(a)
<1>1. \A b : Siblings(b)' = Siblings(b)
  BY DEF Link, Siblings
<1>2. CASE UNCHANGED <<grouped, primary>>
  BY <1>1, <1>2 DEF Led, Outranked
<1>3. CASE ~ UNCHANGED <<grouped, primary>>
  <2>1. grouped' = grouped \cup S
    BY <1>3 DEF Link
  <2>2. PICK p \in Preferred(S) : primary' = (primary \ S) \cup {p}
    BY <1>3 DEF Link
  <2>3. S \subseteq File /\ \A b \in S : Together(b, a) /\ Siblings(b) = S
    BY DEF Siblings, Together
  <2>4. p \in S /\ \A b \in S : b = p \/ Outranks(p, b)
    <3>1. p \in S
      BY <2>2 DEF Preferred
    <3>2. ASSUME NEW b \in S, b # p PROVE Outranks(p, b)
      <4>1. KindOf[b] # KindOf[p]
        BY <2>3, <3>1, <3>2 DEF OneOfAKind, Together
      <4>2. KindOf[b] \in Kind /\ KindOf[p] \in Kind
        BY <2>3, <3>1 DEF PageAssumption
      <4>3. QED
        BY <2>2, <4>1, <4>2 DEF Preferred, Outranks, Kind
    <3>3. QED
      BY <3>1, <3>2
  <2>5. ASSUME NEW b \in grouped' PROVE b \in primary' \/ Outranked(b)'
    <3>1. CASE b \in S
      BY <1>1, <2>1, <2>2, <2>3, <2>4, <3>1 DEF Outranked
    <3>2. CASE b \notin S
      BY <1>1, <2>1, <2>2, <2>5, <3>2 DEF Led, Outranked
    <3>3. QED
      BY <3>1, <3>2
  <2>6. QED
    BY <2>5 DEF Led
<1>4. QED
  BY <1>2, <1>3

LEMMA LedStep ==
  ASSUME PageAssumption, OneOfAKind, TypeOK, Flags, Led, [Next]_vars PROVE Led'
<1>1. CASE \E a \in File : Link(a)
  BY <1>1, LinkKeepsLed
<1>2. CASE ~ \E a \in File : Link(a)
  BY <1>2, RowsStay, StaysOutranked DEF Led
<1>3. QED
  BY <1>1, <1>2

\* Steps at which no entry ends well and nothing is inserted or answered.
LEMMA StillTold ==
  ASSUME TypeOK, Owned, Told, \A a : Outranked(a) => Outranked(a)',
         UNCHANGED <<assetOf, poll>>, items \subseteq items', faults' = 0 => faults = 0,
         \A f \in File : entry'[f] \in {"attach", "processing", "duplicate", "done"} => entry'[f] = entry[f],
         \A f \in File : row[f] # "none" <=> row'[f] # "none"
  PROVE  Owned' /\ Told'
<1>1. Owned'
  BY DEF Owned, TypeOK
<1>2. Told'
  <2>1. ASSUME NEW f \in File, Given(f) PROVE Given(f)'
    BY <2>1 DEF Given, DestinationOf
  <2>2. QED
    BY <2>1 DEF Told
<1>3. QED
  BY <1>1, <1>2

LEMMA ToldStep ==
  ASSUME PageAssumption, TypeOK, Attaching, Flow, Led, Owned, Told, [Next]_vars
  PROVE  Owned' /\ Told'
<1>0. /\ \A a : Outranked(a) => Outranked(a)'
      /\ \A a : ~ Eligible(a) => Outranked(a)
  BY StaysOutranked DEF Eligible, Led
<1> USE PageAssumption
<1>1. ASSUME NEW d \in Drop, DropStep(d) PROVE Owned' /\ Told'
  <2>1. UNCHANGED <<assetOf, poll, items, row>> /\ (faults' = 0 => faults = 0)
    BY <1>1 DEF DropStep, BeginDrop, Resolve, ResolveFails, CreateBatch, CreateBatchFails, FinishDrop,
       assetVars, Fault, TypeOK
  <2>2. \A f \in File : entry'[f] \in {"attach", "processing", "duplicate", "done"} => entry'[f] = entry[f]
    BY <1>1 DEF DropStep, BeginDrop, Resolve, ResolveFails, CreateBatch, CreateBatchFails, FinishDrop, TypeOK
  <2>3. QED
    BY <1>0, <2>1, <2>2, StillTold
<1>2. ASSUME NEW f \in File, TakeEntry(f) \/ Hashed(f) \/ CheckNew(f) \/ RequestFails(f)
      PROVE  Owned' /\ Told'
  <2>1. UNCHANGED <<assetOf, poll, items, row>> /\ (faults' = 0 => faults = 0)
    BY <1>2 DEF TakeEntry, Hashed, CheckNew, RequestFails, assetVars, Fault, TypeOK
  <2>2. \A g \in File : entry'[g] \in {"attach", "processing", "duplicate", "done"} => entry'[g] = entry[g]
    BY <1>2 DEF TakeEntry, Hashed, CheckNew, RequestFails, Patch, TypeOK
  <2>3. QED
    BY <1>0, <2>1, <2>2, StillTold
<1>3. ASSUME NEW f \in File, CheckSkip(f) PROVE Owned' /\ Told'
  <2>1. PICK a \in Matches(f) :
          /\ assetOf' = [assetOf EXCEPT ![f] = a]
          /\ Patch(f, IF dest[f] \in Gallery /\ Eligible(a) THEN "attach" ELSE "duplicate")
    BY <1>3 DEF CheckSkip
  <2>2. /\ a \in File /\ row[a] # "none" /\ ContentOf[a] = ContentOf[f] /\ a # NoFile
        /\ UNCHANGED <<poll, items, faults, row>> /\ entry[f] = "check"
    BY <1>3 DEF CheckSkip, Matches, assetVars
  <2>3. assetOf[f] = NoFile
    BY <2>2 DEF Flow, Assigned, Settled
  <2>4. \A g \in File : g # f => assetOf'[g] = assetOf[g] /\ entry'[g] = entry[g]
    BY <2>1 DEF Patch, TypeOK
  <2>5. assetOf'[f] = a
    BY <2>1 DEF TypeOK
  <2>6. entry'[f] = IF dest[f] \in Gallery /\ Eligible(a) THEN "attach" ELSE "duplicate"
    BY <2>1 DEF Patch, TypeOK
  <2>7. Owned'
    <3>1. \A g \in File : row[g] # "none" /\ faults = 0 => g # f
      BY <2>3 DEF Owned
    <3>2. QED
      BY <2>2, <2>4, <2>5, <3>1 DEF Owned, TypeOK
  <2>8. entry'[f] = "duplicate" => Given(f)'
    <3>1. dest[f] = DestinationOf(f)
      BY <2>2 DEF Flow, DestRight
    <3>2. QED
      BY <1>0, <2>5, <2>6, <3>1 DEF Given, DestinationOf
  <2>9. ASSUME NEW g \in File, g # f, Given(g) PROVE Given(g)'
    BY <1>0, <2>2, <2>4, <2>9 DEF Given, DestinationOf
  <2>10. \A g \in File : faults' = 0 /\ entry'[g] \in {"duplicate", "done"} => Given(g)'
    BY <2>2, <2>4, <2>6, <2>8, <2>9 DEF Told
  <2>11. QED
    BY <1>0, <2>2, <2>7, <2>10 DEF Told
<1>4. ASSUME NEW f \in File, AttachDuplicate(f) PROVE Owned' /\ Told'
  <2>1. /\ UNCHANGED <<assetOf, poll, row>> /\ items \subseteq items' /\ (faults' = 0 => faults = 0)
        /\ faults' = 0 => <<dest[f], assetOf[f]>> \in items'
        /\ entry[f] = "attach"
    BY <1>4 DEF AttachDuplicate, Attach, assetVars, Fault, TypeOK
  <2>2. \A g \in File : entry'[g] = IF g = f THEN "duplicate" ELSE entry[g]
    BY <1>4 DEF AttachDuplicate, Patch, TypeOK
  <2>3. Owned'
    BY <2>1, <2>2 DEF Owned, TypeOK
  <2>4. faults' = 0 => Given(f)'
    BY <2>1 DEF Flow, DestRight, Given, DestinationOf
  <2>5. ASSUME NEW g \in File, Given(g) PROVE Given(g)'
    BY <1>0, <2>1, <2>5 DEF Given, DestinationOf
  <2>6. QED
    BY <1>0, <2>1, <2>2, <2>3, <2>4, <2>5 DEF Told
<1>5. ASSUME NEW f \in File, Complete(f) PROVE Owned' /\ Told'
  <2>1. PICK a \in File :
          /\ a = f \/ a \in Matches(f)
          /\ row' = IF row[a] = "none" THEN [row EXCEPT ![a] = "pending"] ELSE row
          /\ \/ assetOf' = [assetOf EXCEPT ![f] = a] /\ Patch(f, "processing") /\ UNCHANGED faults
             \/ Fault /\ Patch(f, "error") /\ UNCHANGED assetOf
    BY <1>5 DEF Complete, Matches
  <2>2. UNCHANGED <<poll, items>> /\ entry[f] = "uploading"
    BY <1>5 DEF Complete
  <2>3. assetOf[f] = NoFile
    BY <2>2 DEF Flow, Assigned, Settled
  <2>4. \A g \in File : row'[g] # "none" <=> row[g] # "none" \/ g = a
    BY <2>1 DEF TypeOK
  <2>5. row[a] = "none" => a = f
    BY <2>1 DEF Matches
  <2>6. ContentOf[a] = ContentOf[f] /\ a # NoFile
    BY <2>1 DEF Matches
  <2>7. \A g \in File : g # f => assetOf'[g] = assetOf[g] /\ entry'[g] = entry[g]
    BY <2>1 DEF Patch, TypeOK
  <2>8. CASE assetOf' = [assetOf EXCEPT ![f] = a] /\ Patch(f, "processing") /\ UNCHANGED faults
    <3>1. assetOf'[f] = a /\ entry'[f] = "processing"
      BY <2>8 DEF Patch, TypeOK
    <3>2. faults = 0 => row[f] = "none"
      BY <2>3 DEF Owned
    <3>3. \A g \in File : assetOf'[g] # NoFile =>
            row'[assetOf'[g]] # "none" /\ ContentOf[assetOf'[g]] = ContentOf[g]
      BY <2>4, <2>6, <2>7, <3>1 DEF Owned, TypeOK
    <3>4. faults' = 0 => \A g \in File : row'[g] # "none" => assetOf'[g] = g
      <4>1. SUFFICES ASSUME faults = 0, NEW g \in File, row'[g] # "none" PROVE assetOf'[g] = g
        BY <2>8
      <4>2. CASE g = f
        <5>1. row[g] = "none"
          BY <3>2, <4>1, <4>2
        <5>2. g = a
          BY <2>4, <4>1, <5>1
        <5>3. QED
          BY <3>1, <4>2, <5>2
      <4>3. CASE g # f
        BY <2>4, <2>5, <2>7, <4>1, <4>3 DEF Owned
      <4>4. QED
        BY <4>2, <4>3
    <3>5. Owned'
      BY <2>6, <2>7, <3>1, <3>3, <3>4 DEF Owned
    <3>6. ASSUME NEW g \in File, g # f, Given(g) PROVE Given(g)'
      BY <1>0, <2>2, <2>7, <3>6 DEF Given, DestinationOf
    <3>7. QED
      BY <1>0, <2>2, <2>7, <2>8, <3>1, <3>5, <3>6 DEF Told
  <2>9. CASE Fault /\ Patch(f, "error") /\ UNCHANGED assetOf
    <3>1. faults' # 0 /\ entry'[f] = "error"
      BY <2>9 DEF Fault, Patch, TypeOK
    <3>2. Owned'
      BY <2>4, <2>7, <2>9, <3>1 DEF Owned, TypeOK
    <3>3. QED
      BY <1>0, <2>2, <3>1, <3>2 DEF Told
  <2>10. QED
    BY <2>1, <2>8, <2>9
<1>6. ASSUME NEW a \in File, IngestStep(a) \/ IngestFails(a) PROVE Owned' /\ Told'
  <2>1. UNCHANGED <<entry, assetOf, poll, items, faults>>
    BY <1>6 DEF IngestStep, BeginIngest, Publish, Link, IngestFails, pageVars
  <2>2. \A f \in File : row[f] # "none" <=> row'[f] # "none"
    BY <1>6 DEF IngestStep, BeginIngest, Publish, Link, IngestFails, TypeOK
  <2>3. QED
    BY <1>0, <2>1, <2>2, StillTold
<1>7. ASSUME NEW i \in Poll, Ask(i) \/ Answer(i) \/ PollFails(i) PROVE Owned' /\ Told'
  <2>1. UNCHANGED <<entry, assetOf, items, row>> /\ (faults' = 0 => faults = 0)
    BY <1>7 DEF Ask, Answer, PollFails, pageVars, assetVars, Fault, TypeOK
  <2>2. Owned'
    BY <2>1 DEF Owned, TypeOK
  <2>3. poll'[i].left = {} \/ poll'[i].left = Rows(i)
    BY <1>7 DEF Ask, Answer, PollFails, SetPoll, Idle, TypeOK
  <2>4. \A x \in Rows(i) : ~ x.eligible => Outranked(x.asset)
    BY <1>0 DEF Rows, Look
  <2>5. \A j \in Poll : j # i => poll'[j] = poll[j]
    BY <1>7 DEF Ask, Answer, PollFails, SetPoll, TypeOK
  <2>6. ASSUME NEW g \in File, Given(g) PROVE Given(g)'
    BY <1>0, <2>1, <2>6 DEF Given, DestinationOf
  <2>7. QED
    BY <1>0, <2>1, <2>2, <2>3, <2>4, <2>5, <2>6 DEF Told
<1>8. ASSUME NEW i \in Poll, PollItem(i) PROVE Owned' /\ Told'
  <2>1. PICK x \in poll[i].left, f \in File :
          /\ f \in Found(i, x.asset)
          /\ IF x.status = "ready" /\ x.eligible /\ TargetNow(f) \in Gallery
               THEN Attach(TargetNow(f), x.asset) ELSE UNCHANGED <<items, faults>>
          /\ Patch(f, IF x.status = "ready" THEN "done" ELSE "error")
          /\ SetPoll(i, IF poll[i].left = {x} THEN Idle ELSE [poll[i] EXCEPT !.left = @ \ {x}])
    BY <1>8 DEF PollItem
  <2>2. /\ UNCHANGED <<assetOf, row>> /\ items \subseteq items' /\ (faults' = 0 => faults = 0)
        /\ x.status = "ready" /\ x.eligible /\ TargetNow(f) \in Gallery /\ faults' = 0
             => <<TargetNow(f), x.asset>> \in items'
    BY <1>8, <2>1 DEF PollItem, Attach, assetVars, Fault, TypeOK
  <2>3. assetOf[f] = x.asset /\ assetOf[f] # NoFile
    BY <2>1 DEF Found, Flow, Asked
  <2>4. TargetNow(f) = DestinationOf(f)
    BY <2>3 DEF TargetNow, DestinationOf, Flow, RefRight, Resolved
  <2>5. \A g \in File : entry'[g] = IF g # f THEN entry[g] ELSE IF x.status = "ready" THEN "done" ELSE "error"
    BY <2>1 DEF Patch, TypeOK
  <2>6. Owned'
    BY <2>2, <2>3, <2>5 DEF Owned, TypeOK
  <2>7. x.eligible \/ Outranked(x.asset)
    BY DEF Told
  <2>8. faults' = 0 /\ x.status = "ready" => Given(f)'
    BY <1>0, <2>2, <2>3, <2>4, <2>7 DEF Given, DestinationOf
  <2>9. ASSUME NEW g \in File, Given(g) PROVE Given(g)'
    BY <1>0, <2>2, <2>9 DEF Given, DestinationOf
  <2>10. \A j \in Poll : poll'[j].left \subseteq poll[j].left
    <3>1. poll[i] \in Request
      BY DEF TypeOK
    <3>2. poll'[i].left \subseteq poll[i].left
      BY <2>1, <3>1 DEF SetPoll, Idle, TypeOK, Request
    <3>3. \A j \in Poll : j # i => poll'[j] = poll[j]
      BY <2>1 DEF SetPoll, TypeOK
    <3>4. QED
      BY <3>2, <3>3
  <2>11. QED
    BY <1>0, <2>2, <2>5, <2>6, <2>8, <2>9, <2>10 DEF Told
<1>9. CASE UNCHANGED vars
  BY <1>0, <1>9, StillTold DEF vars
<1>10. CASE ChooseMode
  BY <1>0, <1>10, StillTold DEF ChooseMode, assetVars
<1>11. QED
  BY <1>1, <1>2, <1>3, <1>4, <1>5, <1>6, <1>7, <1>8, <1>9, <1>10 DEF Next, EntryStep, PollStep

LEMMA ToldInit == ASSUME PageAssumption, Init PROVE Led /\ Owned /\ Told
  BY DEF PageAssumption, Init, Led, Owned, Told, Idle

\* In a group somebody is outranked by nobody.
LEMMA Leader ==
  ASSUME PageAssumption, TypeOK, NEW a \in File, Outranked(a)
  PROVE  \E b \in Siblings(a) \cap grouped : Outranks(b, a) /\ ~ Outranked(b)
<1>1. PICK b \in Siblings(a) \cap grouped : Outranks(b, a)
  BY DEF Outranked
<1>2. \A c \in Siblings(a) : Siblings(c) = Siblings(a)
  BY DEF Siblings
<1>3. CASE \E c \in Siblings(a) \cap grouped : KindOf[c] = "raw"
  <2>1. PICK c \in Siblings(a) \cap grouped : KindOf[c] = "raw"
    BY <1>3
  <2>2. ~ Outranked(c) /\ Outranks(c, a)
    BY <1>1, <2>1 DEF Outranked, Outranks
  <2>3. QED
    BY <2>1, <2>2
<1>4. CASE \A c \in Siblings(a) \cap grouped : KindOf[c] # "raw"
  BY <1>1, <1>2, <1>4 DEF Outranked, Outranks
<1>5. QED
  BY <1>3, <1>4

\* Once every entry has ended well, every gallery shows what was dropped on it,
\* although only primaries are attached, each entry is asked about once, and a
\* sibling that comes later takes the flag: for any number of files, drops,
\* galleries and overlapping polls, and no failing request of the page.
THEOREM WhatWasDroppedIsShown ==
  ASSUME PageAssumption, OneDestination, OneOfAKind, LeadersAgain PROVE Spec => []ShownWhenSettled
<1> DEFINE IInv == Typed /\ Flow /\ Flags /\ Led /\ Owned /\ Told
<1>1. Init => IInv
  BY TypeInit, FlowInit, FlagsInit, ToldInit
<1>2. IInv /\ [Next]_vars => IInv'
  BY TypeStep, AttachingStep, FlowStep, FlagsStep, LedStep, ToldStep DEF Typed
<1>3. IInv => ShownWhenSettled
  <2>1. SUFFICES ASSUME IInv, faults = 0, \A f \in File : entry[f] \in {"done", "duplicate"},
                        NEW f \in File, DestinationOf(f) \in Gallery
                 PROVE  Shown(f)
    BY DEF ShownWhenSettled
  <2> DEFINE a == assetOf[f]
  <2>2. a \in File /\ row[a] # "none" /\ ContentOf[a] = ContentOf[f] /\ assetOf[a] = a
    BY <2>1 DEF Owned, Typed, TypeOK
  <2>3. \A g \in File : Given(g)
    BY <2>1 DEF Told
  <2>4. a \in Siblings(a)
    BY <2>2 DEF Siblings
  <2>5. CASE ~ Outranked(a)
    <3>1. <<DestinationOf(f), a>> \in items
      BY <2>1, <2>3, <2>5 DEF Given
    <3>2. QED
      BY <2>4, <3>1 DEF Shown
  <2>6. CASE Outranked(a)
    <3>1. PICK b \in Siblings(a) \cap grouped : Outranks(b, a) /\ ~ Outranked(b)
      BY <2>1, <2>2, <2>6, Leader DEF Typed
    <3>2. b \in File /\ row[b] # "none" /\ Together(a, b)
      BY <3>1 DEF Siblings, Together
    <3>3. a = f
      BY <2>2, <3>1, <3>2 DEF LeadersAgain
    <3>4. DestinationOf(b) = DestinationOf(f)
      BY <3>2, <3>3 DEF OneOfAKind
    <3>5. assetOf[b] = b
      BY <2>1, <3>2 DEF Owned
    <3>6. <<DestinationOf(f), b>> \in items
      BY <2>1, <2>3, <3>1, <3>2, <3>4, <3>5 DEF Given
    <3>7. a \in grouped
      BY <2>6 DEF Outranked
    <3>8. QED
      BY <3>1, <3>6, <3>7 DEF Shown
  <2>7. QED
    BY <2>5, <2>6
<1>4. QED
  BY <1>1, <1>2, <1>3, PTL DEF Spec
==============================================================================
