------------------------ MODULE ResumableUploadProofs ------------------------
(***************************************************************************)
(* What holds of ResumableUpload for every number of attempts, contents    *)
(* and parts and every fault budget.                                       *)
(***************************************************************************)
EXTENDS ResumableUpload, TLAPS

(***************************************************************************)
(* The inductive invariant, in the parts the theorems need.  A request is  *)
(* sent when all parts are saved and nothing happens to them afterwards    *)
(* (Progress), so no object is ever short (Bytes).  Attempts and records   *)
(* name multipart uploads of their own content (Uploads), and while no     *)
(* handler has died an upload B2 has assembled is on its way to a row      *)
(* (Consumed).  When no two open pages upload a content (Alone), a record  *)
(* follows the attempt that is open (Listed).                              *)
(***************************************************************************)
Before == {"idle", "check", "resume", "init", "save", "parts"}

Progress == \A v \in Attempt :
  /\ pc[v] \in Before => srv[v] = "none"
  /\ srv[v] = "assemble" => AllSent(v)

Bytes ==
  /\ \A c \in Content : object[c] # "short"
  /\ \A v \in Attempt :
       srv[v] \in {"head", "insert", "reply"} => object[ContentOf[v]] = "full"
  /\ RegisteredHasBytes

Uploads ==
  /\ \A v \in Attempt :
       /\ plan[v] # NoUpload => ContentOf[plan[v]] = ContentOf[v] /\ mpu[plan[v]] # "none"
       /\ pc[v] = "save" \/ srv[v] = "assemble" => plan[v] # NoUpload
       /\ pc[v] = "parts" /\ ContentOf[v] \in Large => plan[v] # NoUpload
       /\ pc[v] \in {"idle", "check", "resume", "init"} => plan[v] = NoUpload
  /\ \A c \in Content : pending[c].id # NoUpload =>
       ContentOf[pending[c].id] = c /\ mpu[pending[c].id] # "none"

Secured(c) ==
  registered[c] \/ \E v \in Attempt : ContentOf[v] = c /\ srv[v] \in {"head", "insert"}
Consumed ==
  deaths = 0 => \A v \in Attempt : mpu[v] = "completed" => Secured(ContentOf[v])

Open(v) == pc[v] \in Running \cup {"error"}
Alone ==
  FreshPage => \A v, w \in Attempt :
    v # w /\ ContentOf[v] = ContentOf[w] => ~(Open(v) /\ Open(w))

Follows(v) ==
  LET r == pending[ContentOf[v]] IN
  Open(v) /\ store[v] /\ r.id # NoUpload =>
    /\ pc[v] \notin {"init", "save"}
    /\ plan[v] # NoUpload => r.id = plan[v] /\ r.parts \subseteq Held(v)

Reached(v) == IF plan[v] = NoUpload THEN Held(v) = {} ELSE Held(v) \subseteq arrived[plan[v]]

Listed ==
  FreshPage =>
    /\ \A v \in Attempt : Follows(v) /\ Reached(v)
    /\ \A c \in Content : pending[c].id = NoUpload => pending[c].parts = {}
    /\ RecordedPartsArrived

------------------------------------------------------------------------------
(* Types.                                                                  *)

\* Every step keeps the types.
LEMMA TypeStep ==
  TypeOK /\ [Next]_vars => TypeOK'
<1> SUFFICES ASSUME TypeOK, [Next]_vars PROVE TypeOK'
  BY DEF TypeOK
<1> USE UploadAssumption DEF UploadAssumption, TypeOK, PC, Running, Handler,
   Record, None, pageVars, bucketVars
<1>1. CASE UNCHANGED vars
  BY <1>1 DEF vars
<1>2. ASSUME NEW u \in Attempt,
             \/ Start(u) \/ PageStep(u) \/ HandlerStep(u)
             \/ GiveUp(u) \/ CloseTab(u) \/ Leave(u) \/ HandlerDies(u)
      PROVE  TypeOK'
  <2>1. CASE Start(u)
    BY <2>1 DEF Start, Goto
  <2>2. CASE Check(u)
    BY <2>2 DEF Check, Goto
  <2>3. CASE Resume(u)
    <3>1. pending[ContentOf[u]] \in Record /\ ContentOf[u] \in Content
      OBVIOUS
    <3>2. plan' \in [Attempt -> Attempt \cup {NoUpload}]
      BY <2>3, <3>1 DEF Resume, Found, Adopt
    <3>3. part' \in [Attempt -> [Part -> {"todo", "held", "saved"}]]
      <4> DEFINE known == [p \in Part |-> IF p \in pending[ContentOf[u]].parts THEN "saved" ELSE "todo"]
      <4>1. known \in [Part -> {"todo", "held", "saved"}]
        OBVIOUS
      <4>2. part' = part \/ part' = [part EXCEPT ![u] = known]
        BY <2>3 DEF Resume, Adopt
      <4> HIDE DEF known
      <4>3. QED
        BY <4>1, <4>2
    <3>4. pc' \in [Attempt -> PC]
      <4>1. Goto(u, "parts") \/ Goto(u, "init")
        BY <2>3 DEF Resume
      <4>2. QED
        BY <4>1 DEF Goto
    <3>5. QED
      BY <2>3, <3>2, <3>3, <3>4 DEF Resume
  <2>4. CASE InitUpload(u)
    <3>1. pc' \in [Attempt -> PC]
      <4>1. Goto(u, "save") \/ Goto(u, "parts")
        BY <2>4 DEF InitUpload
      <4>2. QED
        BY <4>1 DEF Goto
    <3>2. plan' \in [Attempt -> Attempt \cup {NoUpload}]
      <4>1. plan' = plan \/ plan' = [plan EXCEPT ![u] = u]
        BY <2>4 DEF InitUpload
      <4>2. QED
        BY <4>1
    <3>3. mpu' \in [Attempt -> {"none", "open", "completed"}]
      <4>1. mpu' = mpu \/ mpu' = [mpu EXCEPT ![u] = "open"]
        BY <2>4 DEF InitUpload
      <4>2. QED
        BY <4>1
    <3>4. QED
      BY <2>4, <3>1, <3>2, <3>3 DEF InitUpload
  <2>5. CASE SavePending(u)
    <3>1. [id |-> plan[u], parts |-> {}] \in Record
      OBVIOUS
    <3>2. pending' \in [Content -> Record]
      BY <2>5, <3>1 DEF SavePending
    <3>3. pc' \in [Attempt -> PC]
      BY <2>5 DEF SavePending, Goto
    <3>4. QED
      BY <2>5, <3>2, <3>3 DEF SavePending
  <2>6. ASSUME NEW p \in Part, PutPart(u, p) PROVE TypeOK'
    BY <2>6 DEF PutPart, Sending, IsLarge, Held
  <2>7. ASSUME NEW p \in Part, PutRefused(u, p) PROVE TypeOK'
    BY <2>7 DEF PutRefused, IsLarge, Goto
  <2>8. ASSUME NEW p \in Part, SavePart(u, p) PROVE TypeOK'
    <3>1. Held(u) \in SUBSET Part
      BY DEF Held
    <3>2. \A r \in Record : Recorded(u, r) \in Record
      BY <3>1 DEF Recorded
    <3>3. pending' \in [Content -> Record]
      BY <2>8, <3>2 DEF SavePart
    <3>4. part' \in [Attempt -> [Part -> {"todo", "held", "saved"}]]
      BY <2>8 DEF SavePart
    <3>5. QED
      BY <2>8, <3>3, <3>4 DEF SavePart
  <2>9. CASE PutWhole(u)
    BY <2>9 DEF PutWhole, IsLarge, Goto
  <2>10. CASE SendComplete(u)
    BY <2>10 DEF SendComplete, IsLarge, AllSent, Goto, Held
  <2>11. CASE Forget(u)
    BY <2>11 DEF Forget, IsLarge, Goto
  <2>12. CASE Assemble(u)
    BY <2>12 DEF Assemble, Held
  <2>13. CASE AssembleFails(u)
    BY <2>13 DEF AssembleFails, Answer
  <2>14. CASE Head(u)
    BY <2>14 DEF Head, SizeMatches, Answer
  <2>15. CASE Insert(u)
    BY <2>15 DEF Insert
  <2>16. CASE Reply(u)
    BY <2>16 DEF Reply, Answer
  <2>17. CASE GiveUp(u)
    BY <2>17 DEF GiveUp, Goto
  <2>18. CASE CloseTab(u)
    BY <2>18 DEF CloseTab, Goto
  <2>19. CASE Leave(u)
    BY <2>19 DEF Leave, Goto
  <2>20. CASE HandlerDies(u)
    BY <2>20 DEF HandlerDies, Answer
  <2>21. QED
    BY <1>2, <2>1, <2>2, <2>3, <2>4, <2>5, <2>6, <2>7, <2>8, <2>9, <2>10,
       <2>11, <2>12, <2>13, <2>14, <2>15, <2>16, <2>17, <2>18, <2>19, <2>20
       DEF PageStep, PartStep, HandlerStep
<1>3. QED
  BY <1>1, <1>2 DEF Next

\* The states of pages, requests, records and multipart uploads are those the
\* code has, for any number of them.
THEOREM TypeCorrect == Spec => []TypeOK
<1>1. Init => TypeOK
  BY UploadAssumption DEF Init, TypeOK, PC, Record, None, UploadAssumption
<1>2. QED
  BY <1>1, TypeStep, PTL DEF Spec

------------------------------------------------------------------------------
(* Bytes.                                                                  *)


\* The handler runs after the page's part, with the whole list of parts.
LEMMA ProgressStep ==
  TypeOK /\ Progress /\ [Next]_vars => Progress'
<1> SUFFICES ASSUME TypeOK, Progress, [Next]_vars PROVE Progress'
  BY DEF Progress
<1> USE UploadAssumption DEF UploadAssumption, Progress, Before, AllSent,
   TypeOK, Handler, pageVars, bucketVars
<1>1. CASE UNCHANGED vars
  BY <1>1 DEF vars
<1>2. ASSUME NEW u \in Attempt,
             \/ Start(u) \/ PageStep(u) \/ HandlerStep(u)
             \/ GiveUp(u) \/ CloseTab(u) \/ Leave(u) \/ HandlerDies(u)
      PROVE  Progress'
  <2>1. CASE Start(u)
    BY <2>1 DEF Start, Goto
  <2>2. CASE Check(u)
    BY <2>2 DEF Check, Goto
  <2>3. CASE Resume(u)
    BY <2>3 DEF Resume, Found, Adopt, Goto
  <2>4. CASE InitUpload(u)
    BY <2>4 DEF InitUpload, IsLarge, Goto
  <2>5. CASE SavePending(u)
    BY <2>5 DEF SavePending, Goto
  <2>6. ASSUME NEW p \in Part, PutPart(u, p) PROVE Progress'
    BY <2>6 DEF PutPart, Sending, IsLarge, Held
  <2>7. ASSUME NEW p \in Part, PutRefused(u, p) PROVE Progress'
    BY <2>7 DEF PutRefused, IsLarge, Goto
  <2>8. ASSUME NEW p \in Part, SavePart(u, p) PROVE Progress'
    BY <2>8 DEF SavePart, Sending, Recorded, Held
  <2>9. CASE PutWhole(u)
    BY <2>9 DEF PutWhole, IsLarge, Goto
  <2>10. CASE SendComplete(u)
    BY <2>10 DEF SendComplete, IsLarge, Goto, Held
  <2>11. CASE Forget(u)
    BY <2>11 DEF Forget, IsLarge, Goto
  <2>12. CASE Assemble(u)
    BY <2>12 DEF Assemble, Held
  <2>13. CASE AssembleFails(u)
    BY <2>13 DEF AssembleFails, Answer
  <2>14. CASE Head(u)
    BY <2>14 DEF Head, SizeMatches, Answer
  <2>15. CASE Insert(u)
    BY <2>15 DEF Insert
  <2>16. CASE Reply(u)
    BY <2>16 DEF Reply, Answer
  <2>17. CASE GiveUp(u)
    BY <2>17 DEF GiveUp, Goto
  <2>18. CASE CloseTab(u)
    BY <2>18 DEF CloseTab, Goto
  <2>19. CASE Leave(u)
    BY <2>19 DEF Leave, Goto
  <2>20. CASE HandlerDies(u)
    BY <2>20 DEF HandlerDies, Answer
  <2>21. QED
    BY <1>2, <2>1, <2>2, <2>3, <2>4, <2>5, <2>6, <2>7, <2>8, <2>9, <2>10,
       <2>11, <2>12, <2>13, <2>14, <2>15, <2>16, <2>17, <2>18, <2>19, <2>20
       DEF PageStep, PartStep, HandlerStep
<1>3. QED
  BY <1>1, <1>2 DEF Next

\* An object is complete from when a handler has verified it.
LEMMA BytesStep ==
  TypeOK /\ Progress /\ Bytes /\ [Next]_vars => Bytes'
<1> SUFFICES ASSUME TypeOK, Progress, Bytes, [Next]_vars PROVE Bytes'
  BY DEF Bytes
<1> USE UploadAssumption DEF UploadAssumption, Bytes, AllSent,
   RegisteredHasBytes, SizeMatches, TypeOK, Handler, pageVars, bucketVars
<1>1. CASE UNCHANGED vars
  BY <1>1 DEF vars
<1>2. ASSUME NEW u \in Attempt,
             \/ Start(u) \/ PageStep(u) \/ HandlerStep(u)
             \/ GiveUp(u) \/ CloseTab(u) \/ Leave(u) \/ HandlerDies(u)
      PROVE  Bytes'
  <2>1. CASE Start(u)
    BY <2>1 DEF Start, Goto
  <2>2. CASE Check(u)
    BY <2>2 DEF Check, Goto
  <2>3. CASE Resume(u)
    BY <2>3 DEF Resume, Found, Adopt, Goto
  <2>4. CASE InitUpload(u)
    BY <2>4 DEF InitUpload, IsLarge, Goto
  <2>5. CASE SavePending(u)
    BY <2>5 DEF SavePending, Goto
  <2>6. ASSUME NEW p \in Part, PutPart(u, p) PROVE Bytes'
    BY <2>6 DEF PutPart, Sending, IsLarge, Held
  <2>7. ASSUME NEW p \in Part, PutRefused(u, p) PROVE Bytes'
    BY <2>7 DEF PutRefused, IsLarge, Goto
  <2>8. ASSUME NEW p \in Part, SavePart(u, p) PROVE Bytes'
    BY <2>8 DEF SavePart, Sending, Recorded, Held
  <2>9. CASE PutWhole(u)
    BY <2>9 DEF PutWhole, IsLarge, Goto, Progress
  <2>10. CASE SendComplete(u)
    BY <2>10 DEF SendComplete, IsLarge, Goto, Held
  <2>11. CASE Forget(u)
    BY <2>11 DEF Forget, IsLarge, Goto
  <2>12. CASE Assemble(u)
    BY <2>12 DEF Assemble, Held, Progress
  <2>13. CASE AssembleFails(u)
    BY <2>13 DEF AssembleFails, Answer
  <2>14. CASE Head(u)
    BY <2>14 DEF Head, Answer
  <2>15. CASE Insert(u)
    BY <2>15 DEF Insert
  <2>16. CASE Reply(u)
    BY <2>16 DEF Reply, Answer
  <2>17. CASE GiveUp(u)
    BY <2>17 DEF GiveUp, Goto
  <2>18. CASE CloseTab(u)
    BY <2>18 DEF CloseTab, Goto
  <2>19. CASE Leave(u)
    BY <2>19 DEF Leave, Goto
  <2>20. CASE HandlerDies(u)
    BY <2>20 DEF HandlerDies, Answer
  <2>21. QED
    BY <1>2, <2>1, <2>2, <2>3, <2>4, <2>5, <2>6, <2>7, <2>8, <2>9, <2>10,
       <2>11, <2>12, <2>13, <2>14, <2>15, <2>16, <2>17, <2>18, <2>19, <2>20
       DEF PageStep, PartStep, HandlerStep
<1>3. QED
  BY <1>1, <1>2 DEF Next

\* Both parts hold in every state.
LEMMA BytesInvariant == Spec => [](TypeOK /\ Progress /\ Bytes)
<1>1. Init => TypeOK /\ Progress /\ Bytes
  BY UploadAssumption DEF Init, TypeOK, PC, Record, None, Progress, Bytes, Before,
     RegisteredHasBytes, UploadAssumption
<1>2. TypeOK /\ Progress /\ Bytes /\ [Next]_vars => (TypeOK /\ Progress /\ Bytes)'
  BY TypeStep, ProgressStep, BytesStep
<1>3. QED
  BY <1>1, <1>2, PTL DEF Spec

\* A library row refers to complete bytes, whatever attempts overlap and
\* wherever pages and handlers die.
THEOREM RowsHaveBytes == Spec => []RegisteredHasBytes
<1>1. Bytes => RegisteredHasBytes
  BY DEF Bytes
<1>2. QED
  BY <1>1, BytesInvariant, PTL

------------------------------------------------------------------------------
(* Refinement.                                                             *)

StageOf == [c \in Content |-> Stage(c)]

\* A step that leaves objects and rows alone is a stutter of DurableUpload.
LEMMA QuietStep ==
  ASSUME UNCHANGED <<object, registered>>
  PROVE  UNCHANGED StageOf
BY DEF StageOf, Stage

\* A complete object for a content whose row may exist is a Store or a stutter.
LEMMA StoreStep ==
  ASSUME TypeOK, Bytes, NEW d \in Content, UNCHANGED registered,
         object' = [object EXCEPT ![d] = "full"]
  PROVE  Durable!Store(d) \/ UNCHANGED StageOf
<1> USE DEF TypeOK, Bytes, RegisteredHasBytes, StageOf, Stage
<1>1. CASE object[d] = "full"
  BY <1>1
<1>2. CASE object[d] # "full"
  <2>1. StageOf[d] = "absent"
    BY <1>2
  <2>2. StageOf' = [StageOf EXCEPT ![d] = "stored"]
    BY <1>2
  <2>3. QED
    BY <2>1, <2>2 DEF Durable!Store
<1>3. QED
  BY <1>1, <1>2

\* Inserting the row of a stored content is a Register or a stutter.
LEMMA RegisterStep ==
  ASSUME TypeOK, Bytes, NEW d \in Content, UNCHANGED object, object[d] = "full",
         registered' = [registered EXCEPT ![d] = TRUE]
  PROVE  Durable!Register(d) \/ UNCHANGED StageOf
<1> USE DEF TypeOK, StageOf, Stage
<1>1. CASE registered[d]
  BY <1>1
<1>2. CASE ~registered[d]
  <2>1. StageOf[d] = "stored"
    BY <1>2
  <2>2. StageOf' = [StageOf EXCEPT ![d] = "registered"]
    BY <1>2
  <2>3. QED
    BY <2>1, <2>2 DEF Durable!Register
<1>3. QED
  BY <1>1, <1>2

\* ResumableUpload implements DurableUpload: bytes first, then the row, and
\* neither is ever taken back.
THEOREM DurableImplemented == Spec => ImplementsDurable
<1>1. Init => Durable!DurableInit
  BY DEF Init, Durable!DurableInit, Stage
<1>2. TypeOK /\ Progress /\ Bytes /\ [Next]_vars => [Durable!DurableNext]_StageOf
  <2> SUFFICES ASSUME TypeOK, Progress, Bytes, [Next]_vars
               PROVE  Durable!DurableNext \/ UNCHANGED StageOf
    OBVIOUS
  <2> USE DEF pageVars, bucketVars
  <2>1. CASE UNCHANGED vars
    BY <2>1, QuietStep DEF vars
  <2>2. ASSUME NEW u \in Attempt,
               \/ Start(u) \/ PageStep(u) \/ HandlerStep(u)
               \/ GiveUp(u) \/ CloseTab(u) \/ Leave(u) \/ HandlerDies(u)
        PROVE  Durable!DurableNext \/ UNCHANGED StageOf
    <3>1. ContentOf[u] \in Content
      BY UploadAssumption DEF UploadAssumption
    <3>2. CASE Assemble(u)
      <4>1. Held(u) = Part
        BY <3>2 DEF Progress, Assemble, AllSent, Held, TypeOK
      <4>2. object' = [object EXCEPT ![ContentOf[u]] = "full"] /\ registered' = registered
        BY <3>2, <4>1 DEF Assemble
      <4>3. QED
        BY <3>1, <4>2, StoreStep DEF Durable!DurableNext
    <3>3. CASE PutWhole(u)
      <4>1. object' = [object EXCEPT ![ContentOf[u]] = "full"] /\ registered' = registered
        BY <3>3 DEF PutWhole
      <4>2. QED
        BY <3>1, <4>1, StoreStep DEF Durable!DurableNext
    <3>4. CASE Insert(u)
      <4>1. /\ registered' = [registered EXCEPT ![ContentOf[u]] = TRUE]
            /\ object' = object /\ object[ContentOf[u]] = "full"
        BY <3>4 DEF Insert, Bytes
      <4>2. QED
        BY <3>1, <4>1, RegisterStep DEF Durable!DurableNext
    <3>5. CASE ~(Assemble(u) \/ PutWhole(u) \/ Insert(u))
      <4>1. UNCHANGED <<object, registered>>
        BY <2>2, <3>5 DEF PageStep, PartStep, HandlerStep, Start, Check, Resume, InitUpload,
           SavePending, PutPart, PutRefused, SavePart, SendComplete, Forget, GiveUp,
           CloseTab, Leave, AssembleFails, Head, Reply, HandlerDies
      <4>2. QED
        BY <4>1, QuietStep
    <3>6. QED
      BY <3>2, <3>3, <3>4, <3>5
  <2>3. QED
    BY <2>1, <2>2 DEF Next
<1>3. [Durable!DurableNext]_StageOf => [Durable!DurableNext]_[c \in Content |-> Stage(c)]
  BY DEF StageOf
<1>4. QED
  BY <1>1, <1>2, <1>3, BytesInvariant, PTL DEF Spec, ImplementsDurable, Durable!DurableSpec

------------------------------------------------------------------------------
(* Records.                                                                *)

\* Attempts and records name uploads of their own content.
LEMMA UploadsStep ==
  TypeOK /\ Progress /\ Uploads /\ [Next]_vars => Uploads'
<1> SUFFICES ASSUME TypeOK, Progress, Uploads, [Next]_vars PROVE Uploads'
  BY DEF Uploads
<1> USE UploadAssumption DEF UploadAssumption, Uploads, IsLarge, None, Record,
   TypeOK, Handler, pageVars, bucketVars
<1>1. CASE UNCHANGED vars
  BY <1>1 DEF vars
<1>2. ASSUME NEW u \in Attempt,
             \/ Start(u) \/ PageStep(u) \/ HandlerStep(u)
             \/ GiveUp(u) \/ CloseTab(u) \/ Leave(u) \/ HandlerDies(u)
      PROVE  Uploads'
  <2>1. CASE Start(u)
    BY <2>1 DEF Start, Goto
  <2>2. CASE Check(u)
    BY <2>2 DEF Check, Goto
  <2>3. CASE Resume(u)
    BY <2>3 DEF Resume, Found, Adopt, Goto
  <2>4. CASE InitUpload(u)
    BY <2>4 DEF InitUpload, Goto
  <2>5. CASE SavePending(u)
    <3>1. plan[u] \in Attempt /\ ContentOf[u] \in Content
      BY <2>5 DEF SavePending
    <3>2. \A c \in Content : pending'[c].id # NoUpload =>
            pending'[c].id = pending[c].id \/ (c = ContentOf[u] /\ pending'[c].id = plan[u])
      BY <2>5, <3>1 DEF SavePending
    <3>3. /\ UNCHANGED <<plan, mpu, srv>>
          /\ pc' = [pc EXCEPT ![u] = "parts"]
      BY <2>5 DEF SavePending, Goto
    <3>4. \A c \in Content : pending'[c].id # NoUpload =>
            ContentOf[pending'[c].id] = c /\ mpu'[pending'[c].id] # "none"
      BY <3>1, <3>2, <3>3
    <3>5. ASSUME NEW v \in Attempt PROVE
            /\ plan'[v] # NoUpload => ContentOf[plan'[v]] = ContentOf[v] /\ mpu'[plan'[v]] # "none"
            /\ pc'[v] = "save" \/ srv'[v] = "assemble" => plan'[v] # NoUpload
            /\ pc'[v] = "parts" /\ ContentOf[v] \in Large => plan'[v] # NoUpload
            /\ pc'[v] \in {"idle", "check", "resume", "init"} => plan'[v] = NoUpload
      BY <3>1, <3>3
    <3>6. QED
      BY <3>4, <3>5
  <2>6. ASSUME NEW p \in Part, PutPart(u, p) PROVE Uploads'
    BY <2>6 DEF PutPart, Sending, Held
  <2>7. ASSUME NEW p \in Part, PutRefused(u, p) PROVE Uploads'
    BY <2>7 DEF PutRefused, Goto
  <2>8. ASSUME NEW p \in Part, SavePart(u, p) PROVE Uploads'
    BY <2>8 DEF SavePart, Sending, Recorded, Held
  <2>9. CASE PutWhole(u)
    BY <2>9 DEF PutWhole, Goto
  <2>10. CASE SendComplete(u)
    BY <2>10 DEF SendComplete, AllSent, Goto, Held, Progress, Before
  <2>11. CASE Forget(u)
    BY <2>11 DEF Forget, Goto
  <2>12. CASE Assemble(u)
    BY <2>12 DEF Assemble, Held
  <2>13. CASE AssembleFails(u)
    BY <2>13 DEF AssembleFails, Answer
  <2>14. CASE Head(u)
    BY <2>14 DEF Head, SizeMatches, Answer
  <2>15. CASE Insert(u)
    BY <2>15 DEF Insert
  <2>16. CASE Reply(u)
    BY <2>16 DEF Reply, Answer
  <2>17. CASE GiveUp(u)
    BY <2>17 DEF GiveUp, Goto
  <2>18. CASE CloseTab(u)
    BY <2>18 DEF CloseTab, Goto
  <2>19. CASE Leave(u)
    BY <2>19 DEF Leave, Goto
  <2>20. CASE HandlerDies(u)
    BY <2>20 DEF HandlerDies, Answer
  <2>21. QED
    BY <1>2, <2>1, <2>2, <2>3, <2>4, <2>5, <2>6, <2>7, <2>8, <2>9, <2>10,
       <2>11, <2>12, <2>13, <2>14, <2>15, <2>16, <2>17, <2>18, <2>19, <2>20
       DEF PageStep, PartStep, HandlerStep
<1>3. QED
  BY <1>1, <1>2 DEF Next

\* Which steps change what: rows, deaths, requests, multipart uploads.
LEMMA Effects ==
  ASSUME [Next]_vars
  PROVE  /\ UNCHANGED registered \/ \E u \in Attempt : Insert(u)
         /\ UNCHANGED deaths \/ \E u \in Attempt : HandlerDies(u)
         /\ UNCHANGED srv \/ \E u \in Attempt : \/ PutWhole(u) \/ SendComplete(u)
                                                \/ HandlerStep(u) \/ HandlerDies(u)
         /\ UNCHANGED mpu \/ \E u \in Attempt : InitUpload(u) \/ Assemble(u)
<1> USE DEF pageVars, bucketVars
<1>1. CASE UNCHANGED vars
  BY <1>1 DEF vars
<1>2. ASSUME NEW u \in Attempt, Start(u) \/ GiveUp(u) \/ CloseTab(u) \/ Leave(u)
      PROVE  UNCHANGED <<registered, deaths, srv, mpu>>
  BY <1>2 DEF Start, GiveUp, CloseTab, Leave
<1>3. ASSUME NEW u \in Attempt, PageStep(u)
      PROVE  /\ UNCHANGED <<registered, deaths>>
             /\ UNCHANGED srv \/ PutWhole(u) \/ SendComplete(u)
             /\ UNCHANGED mpu \/ InitUpload(u)
  BY <1>3 DEF PageStep, PartStep, Check, Resume, InitUpload, SavePending, PutPart,
     PutRefused, SavePart, PutWhole, SendComplete, Forget
<1>4. ASSUME NEW u \in Attempt, HandlerStep(u)
      PROVE  /\ UNCHANGED deaths
             /\ UNCHANGED registered \/ Insert(u)
             /\ UNCHANGED mpu \/ Assemble(u)
  BY <1>4 DEF HandlerStep, Assemble, AssembleFails, Head, Insert, Reply
<1>5. ASSUME NEW u \in Attempt, HandlerDies(u)
      PROVE  UNCHANGED <<registered, mpu>>
  BY <1>5 DEF HandlerDies
<1>6. QED
  BY <1>1, <1>2, <1>3, <1>4, <1>5 DEF Next

\* No step that ends without deaths was a death.
LEMMA NoDeath ==
  ASSUME TypeOK, [Next]_vars, deaths' = 0
  PROVE  deaths = 0 /\ \A u \in Attempt : ~HandlerDies(u)
<1>1. \A u \in Attempt : ~HandlerDies(u)
  BY DEF HandlerDies, TypeOK
<1>2. QED
  BY <1>1, Effects

\* A content whose parts B2 has assembled gets its row, while no handler dies.
LEMMA SecuredStays ==
  ASSUME TypeOK, Progress, Bytes, [Next]_vars, NEW c \in Content, deaths' = 0, Secured(c)
  PROVE  Secured(c)'
<1> USE UploadAssumption DEF UploadAssumption, TypeOK
<1>1. CASE registered[c]
  <2>1. registered'[c]
    BY <1>1, Effects DEF Insert
  <2>2. QED
    BY <2>1 DEF Secured
<1>2. ASSUME NEW v \in Attempt, ContentOf[v] = c, srv[v] \in {"head", "insert"}
      PROVE  Secured(c)'
  <2>1. CASE srv'[v] = srv[v]
    BY <1>2, <2>1 DEF Secured
  <2>2. CASE srv'[v] # srv[v]
    <3>1. PICK u \in Attempt : PutWhole(u) \/ SendComplete(u) \/ HandlerStep(u)
      BY <2>2, Effects, NoDeath
    <3>2. CASE PutWhole(u) \/ SendComplete(u)
      <4>1. srv' = [srv EXCEPT ![u] = "head"] \/ srv' = [srv EXCEPT ![u] = "assemble"]
        BY <3>2 DEF PutWhole, SendComplete
      <4>2. u = v
        BY <2>2, <4>1
      <4>3. pc[v] = "parts"
        BY <3>2, <4>2 DEF PutWhole, SendComplete
      <4>4. QED
        BY <1>2, <4>3 DEF Progress, Before
    <3>3. CASE HandlerStep(u)
      <4>1. u = v
        BY <2>2, <3>3 DEF HandlerStep, Assemble, AssembleFails, Head, Insert, Reply, Answer
      <4>2. CASE Head(v)
        <5>1. srv' = [srv EXCEPT ![v] = "insert"]
          BY <4>2 DEF Head, SizeMatches, Bytes
        <5>2. QED
          BY <1>2, <5>1 DEF Secured
      <4>3. CASE Insert(v)
        BY <1>2, <4>3 DEF Insert, Secured
      <4>4. CASE Assemble(v) \/ AssembleFails(v) \/ Reply(v)
        BY <1>2, <4>4 DEF Assemble, AssembleFails, Reply
      <4>5. QED
        BY <3>3, <4>1, <4>2, <4>3, <4>4 DEF HandlerStep
    <3>4. QED
      BY <3>1, <3>2, <3>3
  <2>3. QED
    BY <2>1, <2>2
<1>3. QED
  BY <1>1, <1>2 DEF Secured

\* An upload is consumed only by a handler that goes on to the row.
LEMMA ConsumedStep ==
  TypeOK /\ Progress /\ Bytes /\ Uploads /\ Consumed /\ [Next]_vars => Consumed'
<1> SUFFICES ASSUME TypeOK, Progress, Bytes, Uploads, Consumed, [Next]_vars, deaths' = 0,
                    NEW v \in Attempt, mpu'[v] = "completed"
             PROVE  Secured(ContentOf[v])'
  BY DEF Consumed
<1> USE UploadAssumption DEF UploadAssumption, TypeOK
<1>1. CASE mpu[v] = "completed"
  BY <1>1, SecuredStays, NoDeath DEF Consumed
<1>2. CASE mpu[v] # "completed"
  <2>1. PICK u \in Attempt : Assemble(u)
    BY <1>2, Effects DEF InitUpload
  <2>2. plan[u] = v /\ ContentOf[u] = ContentOf[v]
    BY <1>2, <2>1 DEF Assemble, Uploads
  <2>3. srv'[u] = "head"
    BY <2>1 DEF Assemble
  <2>4. QED
    BY <2>2, <2>3 DEF Secured
<1>3. QED
  BY <1>1, <1>2

\* With FreshPage only one page is open for a content.
LEMMA AloneStep ==
  TypeOK /\ Alone /\ [Next]_vars => Alone'
<1> SUFFICES ASSUME TypeOK, Alone, [Next]_vars PROVE Alone'
  BY DEF Alone
<1> USE UploadAssumption DEF UploadAssumption, Alone, Open, PC, Running,
   TypeOK, Handler, pageVars, bucketVars
<1>1. CASE UNCHANGED vars
  BY <1>1 DEF vars
<1>2. ASSUME NEW u \in Attempt,
             \/ Start(u) \/ PageStep(u) \/ HandlerStep(u)
             \/ GiveUp(u) \/ CloseTab(u) \/ Leave(u) \/ HandlerDies(u)
      PROVE  Alone'
  <2>1. CASE Start(u)
    <3>1. FreshPage => \A v \in Attempt \ {u} : ContentOf[v] = ContentOf[u]
                       => pc[v] \in {"idle", "skipped", "done", "closed"}
      BY <2>1 DEF Start
    <3>2. FreshPage => \A v \in Attempt \ {u} : ContentOf[v] = ContentOf[u] => ~Open(v)
      BY <3>1
    <3>3. \A v \in Attempt \ {u} : pc'[v] = pc[v]
      BY <2>1 DEF Start, Goto
    <3>4. QED
      BY <3>2, <3>3
  <2>2. CASE Check(u)
    BY <2>2 DEF Check, Goto
  <2>3. CASE Resume(u)
    <3>1. Goto(u, "parts") \/ Goto(u, "init")
      BY <2>3 DEF Resume
    <3>2. pc[u] = "resume"
      BY <2>3 DEF Resume
    <3>3. QED
      BY <3>1, <3>2 DEF Goto
  <2>4. CASE InitUpload(u)
    BY <2>4 DEF InitUpload, IsLarge, Goto
  <2>5. CASE SavePending(u)
    BY <2>5 DEF SavePending, Goto
  <2>6. ASSUME NEW p \in Part, PutPart(u, p) PROVE Alone'
    BY <2>6 DEF PutPart, Sending, IsLarge, Held
  <2>7. ASSUME NEW p \in Part, PutRefused(u, p) PROVE Alone'
    BY <2>7 DEF PutRefused, IsLarge, Goto
  <2>8. ASSUME NEW p \in Part, SavePart(u, p) PROVE Alone'
    BY <2>8 DEF SavePart, Sending, Recorded, Held
  <2>9. CASE PutWhole(u)
    BY <2>9 DEF PutWhole, IsLarge, Goto
  <2>10. CASE SendComplete(u)
    BY <2>10 DEF SendComplete, IsLarge, AllSent, Goto, Held
  <2>11. CASE Forget(u)
    BY <2>11 DEF Forget, IsLarge, Goto
  <2>12. CASE Assemble(u)
    BY <2>12 DEF Assemble, Held
  <2>13. CASE AssembleFails(u)
    BY <2>13 DEF AssembleFails, Answer
  <2>14. CASE Head(u)
    BY <2>14 DEF Head, SizeMatches, Answer
  <2>15. CASE Insert(u)
    BY <2>15 DEF Insert
  <2>16. CASE Reply(u)
    BY <2>16 DEF Reply, Answer
  <2>17. CASE GiveUp(u)
    BY <2>17 DEF GiveUp, Goto
  <2>18. CASE CloseTab(u)
    BY <2>18 DEF CloseTab, Goto
  <2>19. CASE Leave(u)
    BY <2>19 DEF Leave, Goto
  <2>20. CASE HandlerDies(u)
    BY <2>20 DEF HandlerDies, Answer
  <2>21. QED
    BY <1>2, <2>1, <2>2, <2>3, <2>4, <2>5, <2>6, <2>7, <2>8, <2>9, <2>10,
       <2>11, <2>12, <2>13, <2>14, <2>15, <2>16, <2>17, <2>18, <2>19, <2>20
       DEF PageStep, PartStep, HandlerStep
<1>3. QED
  BY <1>1, <1>2 DEF Next

\* What a step does not touch of an attempt keeps its relation to the record.
LEMMA Untouched ==
  ASSUME NEW v \in Attempt, Follows(v) /\ Reached(v), TypeOK,
         pc'[v] = pc[v], store'[v] = store[v], plan'[v] = plan[v],
         Held(v)' = Held(v), pending'[ContentOf[v]] = pending[ContentOf[v]],
         \A w \in Attempt : arrived[w] \subseteq arrived'[w]
  PROVE  Follows(v)' /\ Reached(v)'
<1>1. Follows(v)'
  BY DEF Follows, Open
<1>2. Reached(v)'
  BY DEF Reached, TypeOK
<1>3. QED
  BY <1>1, <1>2

\* The record follows the one open attempt at its content.
LEMMA ListedStep ==
  TypeOK /\ Uploads /\ Alone /\ Listed /\ [Next]_vars => Listed'
<1> SUFFICES ASSUME TypeOK, Uploads, Alone, Listed, [Next]_vars PROVE Listed'
  BY DEF Listed
<1> USE UploadAssumption DEF UploadAssumption, Listed, Follows, Reached, Open,
   RecordedPartsArrived, None, Record, Running, Held, TypeOK, Handler,
   pageVars, bucketVars
<1>1. CASE UNCHANGED vars
  BY <1>1 DEF vars
<1>2. ASSUME NEW u \in Attempt,
             \/ Start(u) \/ PageStep(u) \/ HandlerStep(u)
             \/ GiveUp(u) \/ CloseTab(u) \/ Leave(u) \/ HandlerDies(u)
      PROVE  Listed'
  <2>1. CASE Start(u)
    <3>1. plan[u] = NoUpload
      BY <2>1 DEF Start, Uploads
    <3>2. \A v \in Attempt \ {u} : pc'[v] = pc[v] /\ store'[v] = store[v]
      BY <2>1 DEF Start, Goto
    <3>3. pc'[u] = "check" /\ UNCHANGED <<plan, part, pending, arrived>>
      BY <2>1 DEF Start, Goto, bucketVars
    <3>4. ASSUME NEW v \in Attempt, v # u, FreshPage PROVE Follows(v)' /\ Reached(v)'
      BY <3>2, <3>3, <3>4, Untouched
    <3>5. FreshPage => Follows(u)' /\ Reached(u)'
      BY <3>1, <3>3
    <3>6. FreshPage => RecordedPartsArrived' /\ \A c \in Content : pending'[c].id = NoUpload => pending'[c].parts = {}
      BY <3>3
    <3>7. QED
      BY <3>4, <3>5, <3>6
  <2>2. CASE Check(u)
    BY <2>2 DEF Check, Goto
  <2>3. CASE Resume(u)
    <3>1. UNCHANGED <<store, pending, arrived>>
      BY <2>3 DEF Resume, bucketVars
    <3>2. \A v \in Attempt \ {u} : pc'[v] = pc[v] /\ plan'[v] = plan[v] /\ part'[v] = part[v]
      BY <2>3 DEF Resume, Adopt, Goto
    <3>3. ASSUME Found(u), FreshPage PROVE Follows(u)' /\ Reached(u)'
      <4> DEFINE r == pending[ContentOf[u]]
      <4>1. r \in Record /\ r.id # NoUpload
        BY <3>3 DEF Found
      <4>2. plan'[u] = r.id /\ part'[u] = [p \in Part |-> IF p \in r.parts THEN "saved" ELSE "todo"]
        BY <2>3, <3>3, <4>1 DEF Resume, Adopt
      <4>3. Held(u)' = r.parts
        BY <4>1, <4>2
      <4>4. pc'[u] = "parts"
        BY <2>3, <3>3 DEF Resume, Goto
      <4>5. r.parts \subseteq arrived[r.id]
        BY <3>3, <4>1 DEF RecordedPartsArrived
      <4> HIDE DEF r
      <4>6. Reached(u)'
        BY <3>1, <4>1, <4>2, <4>3, <4>5
      <4>7. Follows(u)'
        BY <3>1, <4>1, <4>2, <4>3, <4>4 DEF r
      <4>8. QED
        BY <4>6, <4>7
    <3>4. ASSUME ~Found(u), FreshPage PROVE Follows(u)' /\ Reached(u)'
      <4>1. UNCHANGED <<plan, part>> /\ pc'[u] = "init"
        BY <2>3, <3>4 DEF Resume, Goto
      <4>2. QED
        BY <3>1, <3>4, <4>1 DEF Found
    <3>5. ASSUME NEW v \in Attempt, v # u, FreshPage PROVE Follows(v)' /\ Reached(v)'
      BY <3>1, <3>2, <3>5, Untouched
    <3>6. FreshPage => Follows(u)' /\ Reached(u)'
      BY <3>3, <3>4
    <3>7. FreshPage => RecordedPartsArrived' /\ \A c \in Content : pending'[c].id = NoUpload => pending'[c].parts = {}
      BY <3>1
    <3>8. QED
      BY <3>5, <3>6, <3>7
  <2>4. CASE InitUpload(u)
    <3>1. plan[u] = NoUpload /\ pc[u] = "init"
      BY <2>4 DEF InitUpload, Uploads
    <3>2. UNCHANGED <<store, part, pending, arrived>>
      BY <2>4 DEF InitUpload
    <3>3. \A v \in Attempt \ {u} : pc'[v] = pc[v] /\ plan'[v] = plan[v]
      BY <2>4 DEF InitUpload, Goto
    <3>4. plan'[u] = NoUpload \/ plan'[u] = u
      BY <2>4, <3>1 DEF InitUpload
    <3>5. ASSUME NEW v \in Attempt, v # u, FreshPage PROVE Follows(v)' /\ Reached(v)'
      BY <3>2, <3>3, <3>5, Untouched
    <3>6. FreshPage => Follows(u)' /\ Reached(u)'
      BY <3>1, <3>2, <3>4
    <3>7. FreshPage => RecordedPartsArrived' /\ \A c \in Content : pending'[c].id = NoUpload => pending'[c].parts = {}
      BY <3>2
    <3>8. QED
      BY <3>5, <3>6, <3>7
  <2>5. CASE SavePending(u)
    <3>1. plan[u] \in Attempt /\ ContentOf[u] \in Content /\ pc[u] = "save"
      BY <2>5 DEF SavePending, Uploads
    <3>2. FreshPage => \A v \in Attempt \ {u} : ContentOf[v] = ContentOf[u] => ~Open(v)
      BY <3>1 DEF Alone
    <3>3. UNCHANGED <<store, plan, part, arrived>> /\ pc' = [pc EXCEPT ![u] = "parts"]
      BY <2>5 DEF SavePending, Goto
    <3>4. CASE UNCHANGED pending
      BY <3>1, <3>3, <3>4
    <3>5. CASE pending' = [pending EXCEPT ![ContentOf[u]] = [id |-> plan[u], parts |-> {}]]
      BY <3>1, <3>2, <3>3, <3>5
    <3>6. QED
      BY <2>5, <3>4, <3>5 DEF SavePending
  <2>6. ASSUME NEW p \in Part, PutPart(u, p) PROVE Listed'
    <3>1. plan[u] \in Attempt
      BY <2>6 DEF PutPart, Sending, IsLarge, Uploads
    <3>2. \A v \in Attempt : Held(v)' = IF v = u THEN Held(v) \cup {p} ELSE Held(v)
      BY <2>6 DEF PutPart
    <3>3. \A w \in Attempt : arrived[w] \subseteq arrived'[w]
      BY <2>6, <3>1 DEF PutPart
    <3>4. p \in arrived'[plan[u]]
      BY <2>6, <3>1 DEF PutPart
    <3>5. UNCHANGED <<pc, store, plan, pending>>
      BY <2>6 DEF PutPart
    <3>6. ASSUME NEW v \in Attempt, v # u, FreshPage PROVE Follows(v)' /\ Reached(v)'
      BY <3>2, <3>3, <3>5, <3>6, Untouched
    <3>7. FreshPage => Follows(u)' /\ Reached(u)'
      BY <3>1, <3>2, <3>3, <3>4, <3>5
    <3>8. FreshPage => RecordedPartsArrived' /\ \A c \in Content : pending'[c].id = NoUpload => pending'[c].parts = {}
      BY <3>3, <3>5
    <3>9. QED
      BY <3>6, <3>7, <3>8
  <2>7. ASSUME NEW p \in Part, PutRefused(u, p) PROVE Listed'
    BY <2>7 DEF PutRefused, IsLarge, Goto
  <2>8. ASSUME NEW p \in Part, SavePart(u, p) PROVE Listed'
    <3>1. FreshPage => \A v \in Attempt \ {u} : ContentOf[v] = ContentOf[u] => ~Open(v)
      BY <2>8 DEF SavePart, Sending, Alone
    <3>2. Held(u) # {}
      BY <2>8 DEF SavePart
    <3>3. \A v \in Attempt : Held(v)' = Held(v)
      BY <2>8 DEF SavePart
    <3>4. UNCHANGED <<pc, store, plan, arrived>>
      BY <2>8 DEF SavePart, bucketVars
    <3>5. Open(u) /\ ContentOf[u] \in Content
      BY <2>8 DEF SavePart, Sending
    <3>6. CASE UNCHANGED pending
      BY <3>3, <3>4, <3>6
    <3>7. CASE store[u] /\ pending' = [pending EXCEPT ![ContentOf[u]] = Recorded(u, @)]
      BY <3>1, <3>2, <3>3, <3>4, <3>5, <3>7 DEF Recorded
    <3>8. QED
      BY <2>8, <3>6, <3>7 DEF SavePart
  <2>9. CASE PutWhole(u)
    BY <2>9 DEF PutWhole, IsLarge, Goto
  <2>10. CASE SendComplete(u)
    BY <2>10 DEF SendComplete, IsLarge, AllSent, Goto
  <2>11. CASE Forget(u)
    BY <2>11 DEF Forget, IsLarge, Goto
  <2>12. CASE Assemble(u)
    BY <2>12 DEF Assemble
  <2>13. CASE AssembleFails(u)
    BY <2>13 DEF AssembleFails, Answer
  <2>14. CASE Head(u)
    BY <2>14 DEF Head, SizeMatches, Answer
  <2>15. CASE Insert(u)
    BY <2>15 DEF Insert
  <2>16. CASE Reply(u)
    BY <2>16 DEF Reply, Answer
  <2>17. CASE GiveUp(u)
    BY <2>17 DEF GiveUp, Goto
  <2>18. CASE CloseTab(u)
    BY <2>18 DEF CloseTab, Goto
  <2>19. CASE Leave(u)
    BY <2>19 DEF Leave, Goto
  <2>20. CASE HandlerDies(u)
    BY <2>20 DEF HandlerDies, Answer
  <2>21. QED
    BY <1>2, <2>1, <2>2, <2>3, <2>4, <2>5, <2>6, <2>7, <2>8, <2>9, <2>10,
       <2>11, <2>12, <2>13, <2>14, <2>15, <2>16, <2>17, <2>18, <2>19, <2>20
       DEF PageStep, PartStep, HandlerStep
<1>3. QED
  BY <1>1, <1>2 DEF Next

\* The whole inductive invariant.
IInv == TypeOK /\ Progress /\ Bytes /\ Uploads /\ Consumed /\ Alone /\ Listed

LEMMA Invariance == Spec => []IInv
<1>1. Init => IInv
  <2> SUFFICES ASSUME Init PROVE IInv
    OBVIOUS
  <2> USE UploadAssumption DEF Init, UploadAssumption
  <2>1. TypeOK
    BY DEF TypeOK, PC, Record, None
  <2>2. Progress /\ Bytes
    BY DEF Progress, Bytes, Before, RegisteredHasBytes
  <2>3. Uploads /\ Consumed
    BY DEF Uploads, Consumed, None
  <2>4. Alone
    BY DEF Alone, Open, Running
  <2>5. Listed
    BY DEF Listed, Follows, Reached, Open, Running, Held, None, RecordedPartsArrived
  <2>6. QED
    BY <2>1, <2>2, <2>3, <2>4, <2>5 DEF IInv
<1>2. IInv /\ [Next]_vars => IInv'
  BY TypeStep, ProgressStep, BytesStep, UploadsStep, ConsumedStep, AloneStep, ListedStep
     DEF IInv
<1>3. QED
  BY <1>1, <1>2, PTL DEF Spec

\* While no /complete has died half way, every record can be resumed.
THEOREM RecordsCanResume == Spec => []UploadStillOpen
<1>1. IInv => UploadStillOpen
  <2> SUFFICES ASSUME IInv, deaths = 0, NEW c \in Content, pending[c].id # NoUpload,
                      mpu[pending[c].id] # "open"
               PROVE  \/ registered[c]
                      \/ \E u \in Attempt : ContentOf[u] = c /\ srv[u] \in {"head", "insert"}
    BY DEF UploadStillOpen, CanResume
  <2>1. pending[c].id \in Attempt
    BY DEF IInv, TypeOK, Record
  <2>2. mpu[pending[c].id] = "completed" /\ ContentOf[pending[c].id] = c
    BY <2>1 DEF IInv, TypeOK, Uploads
  <2>3. Secured(c)
    BY <2>1, <2>2 DEF IInv, Consumed
  <2>4. QED
    BY <2>3 DEF Secured
<1>2. QED
  BY <1>1, Invariance, PTL

\* B2 has every part a record lists, as long as attempts do not overlap.
THEOREM RecordsListArrivedParts ==
  ASSUME FreshPage
  PROVE  Spec => []RecordedPartsArrived
<1>1. IInv => RecordedPartsArrived
  BY DEF IInv, Listed
<1>2. QED
  BY <1>1, Invariance, PTL

\* A resume sends no part the record lists, as long as attempts do not overlap.
THEOREM RecordedPartsSentOnce ==
  ASSUME FreshPage
  PROVE  Spec => NoPartTwice
<1>1. IInv /\ [Next]_vars =>
        [\A u \in Attempt, p \in Part :
           part[u][p] = "todo" /\ part'[u][p] = "held" /\ store[u]
             => p \notin pending[ContentOf[u]].parts]_vars
  <2> SUFFICES ASSUME IInv, [Next]_vars, NEW u \in Attempt, NEW p \in Part,
                      part[u][p] = "todo", part'[u][p] = "held", store[u]
               PROVE  p \notin pending[ContentOf[u]].parts
    OBVIOUS
  <2> USE DEF IInv, TypeOK, pageVars, bucketVars
  <2>1. PutPart(u, p)
    <3>1. PICK v \in Attempt : Resume(v) \/ PartStep(v)
      BY DEF Next, PageStep, HandlerStep, Start, Check, InitUpload, SavePending, PutWhole,
         SendComplete, Forget, GiveUp, CloseTab, Leave, Assemble, AssembleFails, Head,
         Insert, Reply, HandlerDies, vars
    <3>2. ~Resume(v)
      <4> DEFINE r == pending[ContentOf[v]]
                 known == [q \in Part |-> IF q \in r.parts THEN "saved" ELSE "todo"]
      <4>1. Resume(v) => UNCHANGED part \/ part' = [part EXCEPT ![v] = known]
        BY DEF Resume, Adopt
      <4>2. known[p] # "held"
        OBVIOUS
      <4> HIDE DEF known
      <4>3. QED
        BY <4>1, <4>2
    <3>3. PICK q \in Part : PutPart(v, q) \/ PutRefused(v, q) \/ SavePart(v, q)
      BY <3>1, <3>2 DEF PartStep
    <3>4. QED
      BY <3>3 DEF PutPart, PutRefused, SavePart
  <2>2. Open(u) /\ plan[u] # NoUpload
    BY <2>1 DEF PutPart, Sending, IsLarge, Uploads, Open, Running
  <2>3. Follows(u) /\ p \notin Held(u) /\ ContentOf[u] \in Content
    BY UploadAssumption DEF Listed, Held, UploadAssumption
  <2>4. CASE pending[ContentOf[u]].id = NoUpload
    BY <2>3, <2>4 DEF Listed
  <2>5. CASE pending[ContentOf[u]].id # NoUpload
    BY <2>2, <2>3, <2>5 DEF Follows
  <2>6. QED
    BY <2>4, <2>5
<1>2. QED
  BY <1>1, Invariance, PTL DEF Spec, NoPartTwice

\* Only savePendingUpload creates a record.
THEOREM RecordsStayForgotten == Spec => NoResurrection
<1>1. TypeOK /\ [Next]_vars =>
        [\A c \in Content : pending[c].id = NoUpload /\ pending'[c].id # NoUpload
           => \E u \in Attempt : ContentOf[u] = c /\ pc[u] = "save"]_vars
  <2> SUFFICES ASSUME TypeOK, [Next]_vars, NEW c \in Content,
                      pending[c].id = NoUpload, pending'[c].id # NoUpload
               PROVE  \E u \in Attempt : ContentOf[u] = c /\ pc[u] = "save"
    OBVIOUS
  <2> USE DEF TypeOK, pageVars, bucketVars
  <2>1. PICK u \in Attempt : \/ SavePending(u) \/ Forget(u)
                             \/ \E p \in Part : SavePart(u, p)
    BY DEF Next, PageStep, PartStep, HandlerStep, Start, Check, Resume, InitUpload, PutPart,
       PutRefused, PutWhole, SendComplete, GiveUp, CloseTab, Leave, Assemble,
       AssembleFails, Head, Insert, Reply, HandlerDies, vars
  <2>2. ~Forget(u)
    BY DEF Forget, None
  <2>3. ~\E p \in Part : SavePart(u, p)
    BY DEF SavePart, Recorded
  <2>4. ContentOf[u] = c /\ pc[u] = "save"
    BY <2>1, <2>2, <2>3 DEF SavePending
  <2>5. QED
    BY <2>4
<1>2. QED
  BY <1>1, TypeCorrect, PTL DEF Spec, NoResurrection
==============================================================================
