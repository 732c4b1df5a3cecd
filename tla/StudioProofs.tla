----------------------------- MODULE StudioProofs -----------------------------
(***************************************************************************)
(* What is proved of Studio for every gallery, however many pages, clients *)
(* and calls there are: saved orders do not mix, a comment is not marked   *)
(* read unseen, hearts follow the table, a download offered is served.     *)
(***************************************************************************)
EXTENDS Studio, TLAPS

\* A call, an order that is being saved, a client's request: their fields.
CallShape ==
  /\ DOMAIN call = Call
  /\ \A c \in Call : call[c] = None \/ DOMAIN call[c] = {"tab", "op", "arg", "at", "mute"}
  /\ \A c \in Call : At(c, "order", "sent") => DOMAIN call[c].arg = {"order", "done", "held"}

\* Rows that are locked exist: who removes one waits for the lock.
Locked == \A c \in Call : Holds(c) \subseteq DOMAIN position

\* The order saved last is what is stored.
Saved == DOMAIN kept \subseteq DOMAIN position /\ \A p \in DOMAIN kept : position[p] = kept[p]

Orders == CallShape /\ Locked /\ Saved

-----------------------------------------------------------------------------
(* Calls that hold no lock.                                                *)

Quiet(r) ==
  r = None \/ /\ DOMAIN r = {"tab", "op", "arg", "at", "mute"}
              /\ r.op = "order" /\ r.at = "sent" => DOMAIN r.arg = {"order", "done", "held"} /\ r.arg.held = {}

Unmoved(c) == call'[c] = call[c] \/ Quiet(call'[c]) \/ (call[c] # None /\ call'[c] = [call[c] EXCEPT !.mute = TRUE])

\* Steps of calls that neither take nor give up locks and leave the rows alone.
LEMMA CallsKeep ==
  ASSUME Orders, DOMAIN call' = Call, \A c \in Call : Unmoved(c), DOMAIN position \subseteq DOMAIN position',
         Saved'
  PROVE  Orders'
<1>1. ASSUME NEW c \in Call
      PROVE  /\ call'[c] = None \/ DOMAIN call'[c] = {"tab", "op", "arg", "at", "mute"}
             /\ At(c, "order", "sent")' => DOMAIN call'[c].arg = {"order", "done", "held"}
             /\ Holds(c)' \subseteq DOMAIN position'
  <2>1. CASE call'[c] = call[c]
    BY <2>1 DEF Orders, CallShape, Locked, Holds, At
  <2>2. CASE Quiet(call'[c])
    BY <2>2 DEF Quiet, Holds, At
  <2>3. CASE call[c] # None /\ call'[c] = [call[c] EXCEPT !.mute = TRUE]
    <3>1. DOMAIN call[c] = {"tab", "op", "arg", "at", "mute"}
      BY <2>3 DEF Orders, CallShape
    <3>2. /\ DOMAIN call'[c] = DOMAIN call[c]
          /\ call'[c].op = call[c].op /\ call'[c].at = call[c].at /\ call'[c].arg = call[c].arg
      BY <2>3, <3>1
    <3> QED BY <2>3, <3>1, <3>2 DEF Orders, CallShape, Locked, Holds, At
  <2> QED BY <2>1, <2>2, <2>3 DEF Unmoved
<1>2. CallShape' /\ Locked'
  BY <1>1 DEF CallShape, Locked
<1> QED BY <1>2 DEF Orders

LEMMA AskIsQuiet ==
  ASSUME NEW t, NEW op, NEW arg, op = "order" => DOMAIN arg = {"order", "done", "held"} /\ arg.held = {}
  PROVE  Quiet(Ask(t, op, arg))
  BY DEF Quiet, Ask

LEMMA SendKeeps ==
  ASSUME Orders, NEW t, NEW op, NEW arg, Send(t, op, arg), UNCHANGED <<position, kept>>,
         op = "order" => DOMAIN arg = {"order", "done", "held"} /\ arg.held = {}
  PROVE  Orders'
<1>1. PICK d \in Call : call' = [call EXCEPT ![d] = Ask(t, op, arg)]
  <2>1. (CHOOSE c \in Idle : TRUE) \in Call
    BY DEF Send, Idle
  <2> QED BY <2>1 DEF Send
<1>2. \A c \in Call : Unmoved(c)
  BY <1>1, AskIsQuiet DEF Unmoved, Orders, CallShape
<1>3. DOMAIN call' = Call /\ Saved'
  BY <1>1 DEF Orders, CallShape, Saved
<1> QED BY <1>2, <1>3, CallsKeep

LEMMA SilenceKeeps ==
  ASSUME Orders, UNCHANGED <<position, kept>>, NEW t,
         \/ call' = Left(t)
         \/ call' = WithoutDetails(t)
         \/ call' = call
         \/ \E c \in Call : \E r : Quiet(r) /\ call' \in {[call EXCEPT ![c] = r], [Left(t) EXCEPT ![c] = r],
                                             [WithoutDetails(t) EXCEPT ![c] = r]}
  PROVE  Orders'
<1>1. /\ DOMAIN Left(t) = Call /\ DOMAIN WithoutDetails(t) = Call /\ DOMAIN call = Call
      /\ \A c \in Call : Left(t)[c] = call[c] \/ (call[c] # None /\ Left(t)[c] = [call[c] EXCEPT !.mute = TRUE])
      /\ \A c \in Call : WithoutDetails(t)[c] = call[c] \/ WithoutDetails(t)[c] = None
  BY DEF Left, WithoutDetails, Orders, CallShape
<1>2. Saved' /\ DOMAIN position' = DOMAIN position
  BY DEF Orders, Saved
<1>3. Quiet(None)
  BY DEF Quiet
<1>4. DOMAIN call' = Call /\ \A c \in Call : Unmoved(c)
  <2>1. CASE call' \in {Left(t), WithoutDetails(t), call}
    BY <1>1, <1>3, <2>1 DEF Unmoved
  <2>2. ASSUME NEW c \in Call, NEW r, Quiet(r),
               call' \in {[call EXCEPT ![c] = r], [Left(t) EXCEPT ![c] = r], [WithoutDetails(t) EXCEPT ![c] = r]}
        PROVE  DOMAIN call' = Call /\ \A d \in Call : Unmoved(d)
    <3>1. DOMAIN call' = Call /\ call'[c] = r
      BY <1>1, <2>2
    <3>2. \A d \in Call : d # c => call'[d] \in {call[d], Left(t)[d], WithoutDetails(t)[d]}
      BY <1>1, <2>2
    <3> QED BY <1>1, <1>3, <2>2, <3>1, <3>2 DEF Unmoved
  <2>3. CASE \E c \in Call : \E r : Quiet(r) /\ call' \in {[call EXCEPT ![c] = r], [Left(t) EXCEPT ![c] = r],
                                             [WithoutDetails(t) EXCEPT ![c] = r]}
    <3>1. PICK c \in Call : \E r : Quiet(r) /\ call' \in {[call EXCEPT ![c] = r], [Left(t) EXCEPT ![c] = r],
                                             [WithoutDetails(t) EXCEPT ![c] = r]}
      BY <2>3
    <3>2. PICK r : Quiet(r) /\ call' \in {[call EXCEPT ![c] = r], [Left(t) EXCEPT ![c] = r],
                                             [WithoutDetails(t) EXCEPT ![c] = r]}
      BY <3>1
    <3>3. Quiet(r)
      BY <3>2
    <3>4. call' \in {[call EXCEPT ![c] = r], [Left(t) EXCEPT ![c] = r], [WithoutDetails(t) EXCEPT ![c] = r]}
      BY <3>2
    <3> QED BY ONLY <2>2, <3>3, <3>4
  <2> QED BY <2>1, <2>3
<1> QED BY <1>2, <1>4, CallsKeep

-----------------------------------------------------------------------------
(* The page.                                                               *)

LEMMA AdminKeeps == ASSUME Orders, NEW t, Admin(t) PROVE Orders'
<1>1. UNCHANGED <<position, kept>>
  BY DEF Admin, Ordering, Filling, Choosing, Looking, Setting, Coming, DragOver, DragEnd, Upload, ToggleUploader,
     RemoveItem, Select, DeleteChosen, OpenBox, Navigate, CloseBox, DeleteShown, OpenForm, EditForm, SaveForm,
     CloseForm, SetCover, TogglePublished, OpenPage, DeleteGallery, OnPage, rowVars
<1>2. ASSUME NEW op, NEW arg, op # "order", Send(t, op, arg) PROVE Orders'
  BY <1>1, <1>2, SendKeeps
<1>3. ASSUME call' = Left(t) \/ call' = WithoutDetails(t) \/ call' = call PROVE Orders'
  BY <1>1, <1>3, SilenceKeeps
<1>4. ASSUME DragEnd(t) PROVE Orders'
  <2>1. Send(t, "order", [order |-> page[t].items, done |-> 0, held |-> {}])
    BY <1>4 DEF DragEnd
  <2> DEFINE a == [order |-> page[t].items, done |-> 0, held |-> {}]
  <2>2. DOMAIN a = {"order", "done", "held"} /\ a.held = {}
    OBVIOUS
  <2> HIDE DEF a
  <2>3. Send(t, "order", a)
    BY <2>1 DEF a
  <2> QED BY <1>1, <2>2, <2>3, SendKeeps
<1>5. ASSUME DragOver(t) PROVE Orders'
  BY <1>3, <1>5 DEF DragOver
<1>6. ASSUME Filling(t) PROVE Orders'
  BY <1>2, <1>3, <1>6 DEF Filling, Upload, ToggleUploader, RemoveItem
<1>7. ASSUME Choosing(t) PROVE Orders'
  BY <1>2, <1>3, <1>7 DEF Choosing, Select, DeleteChosen
<1>8. ASSUME Looking(t) PROVE Orders'
  BY <1>2, <1>3, <1>8 DEF Looking, OpenBox, Navigate, CloseBox, DeleteShown
<1>9. ASSUME Setting(t) PROVE Orders'
  BY <1>2, <1>3, <1>9 DEF Setting, OpenForm, EditForm, SaveForm, CloseForm, SetCover, TogglePublished, Patch
<1>10. ASSUME Coming(t) PROVE Orders'
  BY <1>2, <1>3, <1>10 DEF Coming, OpenPage, DeleteGallery
<1> QED BY <1>4, <1>5, <1>6, <1>7, <1>8, <1>9, <1>10 DEF Admin, Ordering

LEMMA HearKeeps == ASSUME Orders, NEW c \in Call, Hear(c) PROVE Orders'
<1>1. UNCHANGED <<position, kept>>
  BY DEF Hear, rowVars
<1> DEFINE t == call[c].tab
<1>2. ASSUME NEW r, Quiet(r), \/ call' = [call EXCEPT ![c] = r]
                              \/ call' = [Left(t) EXCEPT ![c] = r]
                              \/ call' = [WithoutDetails(t) EXCEPT ![c] = r]
      PROVE  Orders'
  BY <1>1, <1>2, SilenceKeeps
<1>3. Quiet(None)
  BY DEF Quiet
<1>4. ASSUME NEW op, NEW arg, op # "order" PROVE Quiet(Ask(t, op, arg))
  BY <1>4, AskIsQuiet
<1>5. ASSUME ShowList(c) PROVE Orders'
  BY <1>2, <1>3, <1>4, <1>5 DEF ShowList, End, Then
<1>6. ASSUME ShowDetail(c) PROVE Orders'
  BY <1>2, <1>3, <1>6 DEF ShowDetail, End
<1>7. ASSUME AfterPatch(c) PROVE Orders'
  BY <1>2, <1>3, <1>4, <1>7 DEF AfterPatch, End, Then
<1>8. ASSUME AfterChange(c) \/ AfterBulk(c) \/ AfterDelete(c) PROVE Orders'
  BY <1>2, <1>4, <1>8 DEF AfterChange, AfterBulk, AfterDelete, Then
<1>9. ASSUME AfterDrop(c) \/ Unheard(c) PROVE Orders'
  BY <1>2, <1>3, <1>9 DEF AfterDrop, Unheard, End
<1> QED BY <1>5, <1>6, <1>7, <1>8, <1>9 DEF Hear

LEMMA LosingKeeps == ASSUME Orders, NEW c \in Call, LoseCall(c) PROVE Orders'
<1>1. Saved' /\ DOMAIN position' = DOMAIN position
  BY DEF LoseCall, rowVars, Orders, Saved
<1>2. DOMAIN call' = Call /\ \A d \in Call : Unmoved(d)
  BY DEF LoseCall, End, Unmoved, Quiet, Orders, CallShape
<1> QED BY <1>1, <1>2, CallsKeep

LEMMA PollKeeps == ASSUME Orders, NEW t, Poll(t) PROVE Orders'
  BY SendKeeps DEF Poll, rowVars

-----------------------------------------------------------------------------
(* The handlers.                                                           *)

\* Answers and steps of calls that are no order being saved.
LEMMA StepKeeps ==
  ASSUME Orders, NEW c \in Call, call[c] # None, NEW arg, NEW at,
         call' = [call EXCEPT ![c].arg = arg, ![c].at = at],
         call[c].op # "order" \/ at = "done",
         DOMAIN position \subseteq DOMAIN position', Saved'
  PROVE  Orders'
<1>1. DOMAIN call = Call /\ DOMAIN call[c] = {"tab", "op", "arg", "at", "mute"}
  BY DEF Orders, CallShape
<1>2. /\ DOMAIN call' = Call
      /\ DOMAIN call'[c] = {"tab", "op", "arg", "at", "mute"}
      /\ call'[c].op = call[c].op /\ call'[c].at = at
      /\ \A d \in Call : d # c => call'[d] = call[d]
  BY <1>1
<1>3. \A d \in Call : Unmoved(d)
  BY <1>2 DEF Unmoved, Quiet
<1> QED BY <1>2, <1>3, CallsKeep

LEMMA ReadsKeep ==
  ASSUME Orders, NEW c \in Call,
         ReadGallery(c) \/ ReadItems(c) \/ ReadDetail(c) \/ ServePatch(c) \/ ReadMax(c) \/ ServeDelete(c)
  PROVE  Orders'
<1>1. UNCHANGED <<position, kept>>
  BY DEF ReadGallery, ReadItems, ReadDetail, ServePatch, ReadMax, ServeDelete, rowVars
<1>2. Saved' /\ DOMAIN position \subseteq DOMAIN position'
  BY <1>1 DEF Orders, Saved
<1>3. call[c] # None /\ call[c].op # "order"
  BY DEF ReadGallery, ReadItems, ReadDetail, ServePatch, ReadMax, ServeDelete, At
<1>4. ASSUME NEW arg, NEW at, Step(c, at, arg) PROVE Orders'
  BY <1>2, <1>3, <1>4, StepKeeps DEF Step
<1>5. ASSUME NEW arg, Answer(c, arg) PROVE Orders'
  BY <1>4, <1>5 DEF Answer, Step
<1>6. CASE ReadGallery(c)
  BY <1>4, <1>5, <1>6 DEF ReadGallery
<1>7. CASE ReadItems(c)
  BY <1>5, <1>7 DEF ReadItems
<1>8. CASE ReadDetail(c)
  BY <1>5, <1>8 DEF ReadDetail
<1>9. CASE ServePatch(c)
  BY <1>5, <1>9 DEF ServePatch
<1>10. CASE ReadMax(c)
  BY <1>4, <1>10 DEF ReadMax
<1>11. CASE ServeDelete(c)
  BY <1>4, <1>5, <1>11 DEF ServeDelete
<1> QED BY <1>6, <1>7, <1>8, <1>9, <1>10, <1>11

LEMMA InsertKeeps == ASSUME Orders, NEW c \in Call, InsertItem(c) PROVE Orders'
<1>1. /\ DOMAIN position \subseteq DOMAIN position'
      /\ \A p \in DOMAIN position : position'[p] = position[p]
      /\ kept' = kept
  BY DEF InsertItem
<1>2. Saved'
  BY <1>1 DEF Orders, Saved
<1>3. call[c] # None /\ call[c].op # "order"
  BY DEF InsertItem, At
<1>4. call' = [call EXCEPT ![c].arg = call[c].arg, ![c].at = "done"]
  BY DEF InsertItem, Answer
<1> QED BY <1>1, <1>2, <1>3, <1>4, StepKeeps

\* The row it updates exists, and nothing else of the call changes.
LEMMA UpdateKeeps == ASSUME Orders, NEW c \in Call, UpdateRow(c) PROVE Orders'
<1>1. /\ DOMAIN call = Call /\ DOMAIN call[c] = {"tab", "op", "arg", "at", "mute"}
      /\ DOMAIN call[c].arg = {"order", "done", "held"} /\ At(c, "order", "sent")
  BY DEF Orders, CallShape, UpdateRow, At
<1>2. PICK n, H : H = call[c].arg.held \cup ({Next1(c)} \cap DOMAIN position)
                  /\ call' = [call EXCEPT ![c].arg.done = n, ![c].arg.held = H]
  BY <1>1 DEF UpdateRow
<1>3. /\ DOMAIN call' = Call /\ \A d \in Call : d # c => call'[d] = call[d]
      /\ DOMAIN call'[c] = {"tab", "op", "arg", "at", "mute"}
      /\ call'[c].op = "order" /\ call'[c].at = "sent"
      /\ DOMAIN call'[c].arg = {"order", "done", "held"} /\ call'[c].arg.held = H
  BY <1>1, <1>2 DEF At
<1>4. position' = position /\ kept' = kept
  BY DEF UpdateRow, rowVars
<1>5. H \subseteq DOMAIN position
  BY <1>1, <1>2 DEF Orders, Locked, Holds
<1>6. CallShape'
  BY <1>3 DEF Orders, CallShape, At
<1>7. Locked'
  BY <1>3, <1>4, <1>5 DEF Orders, Locked, Holds, At
<1> QED BY <1>4, <1>6, <1>7 DEF Orders, Saved

\* What is stored of an order is what is kept of it.
LEMMA CommitKeeps == ASSUME Orders, NEW c \in Call, CommitOrder(c) PROVE Orders'
<1> DEFINE a == call[c].arg
<1>1. /\ DOMAIN call = Call /\ DOMAIN call[c] = {"tab", "op", "arg", "at", "mute"}
      /\ a.held \subseteq DOMAIN position
  BY DEF Orders, CallShape, Locked, CommitOrder, At, Holds
<1>2. /\ DOMAIN position' = DOMAIN position
      /\ \A p \in a.held : position'[p] = Places(a.order, a.held)[p]
      /\ \A p \in DOMAIN position \ a.held : position'[p] = position[p]
  BY <1>1 DEF CommitOrder
<1>3. Saved'
  <2>1. CASE a.held = {}
    BY <1>2, <2>1 DEF CommitOrder, Orders, Saved
  <2>2. CASE a.held # {}
    BY <1>1, <1>2, <2>2 DEF CommitOrder, Saved, Places
  <2> QED BY <2>1, <2>2
<1>4. call' = [call EXCEPT ![c].arg = [a EXCEPT !.held = {}], ![c].at = "done"]
  BY DEF CommitOrder, Answer
<1>5. call[c] # None
  BY DEF CommitOrder, At
<1> HIDE DEF a
<1> QED BY <1>2, <1>3, <1>4, <1>5, StepKeeps

LEMMA AbortKeeps == ASSUME Orders, NEW c \in Call, AbortOrder(c) PROVE Orders'
<1>1. UNCHANGED <<position, kept>> /\ call[c] # None
  BY DEF AbortOrder, rowVars, Waits, At
<1>2. Saved' /\ DOMAIN position \subseteq DOMAIN position'
  BY <1>1 DEF Orders, Saved
<1> DEFINE a == [call[c].arg EXCEPT !.held = {}]
<1>3. call' = [call EXCEPT ![c].arg = a, ![c].at = "done"]
  BY DEF AbortOrder, Answer
<1> HIDE DEF a
<1> QED BY <1>1, <1>2, <1>3, StepKeeps

-----------------------------------------------------------------------------
(* A photo or the gallery goes: its rows are locked by no order.           *)

LEMMA LosingRowsKeeps ==
  ASSUME Orders, NEW c \in Call, call[c] # None, call[c].op # "order", NEW arg, Answer(c, arg),
         Saved', \A d \in Call \ {c} : Holds(d) \subseteq DOMAIN position'
  PROVE  Orders'
<1>1. DOMAIN call = Call /\ DOMAIN call[c] = {"tab", "op", "arg", "at", "mute"}
  BY DEF Orders, CallShape
<1>2. /\ DOMAIN call' = Call /\ \A d \in Call : d # c => call'[d] = call[d]
      /\ DOMAIN call'[c] = {"tab", "op", "arg", "at", "mute"} /\ call'[c].op # "order"
  BY <1>1 DEF Answer
<1>3. CallShape'
  BY <1>2 DEF Orders, CallShape, At
<1>4. Locked'
  BY <1>2 DEF Locked, Holds, At
<1> QED BY <1>3, <1>4 DEF Orders

LEMMA RemoveKeeps == ASSUME Orders, NEW c \in Call, ServeRemove(c) PROVE Orders'
<1>1. /\ DOMAIN position' = DOMAIN position \ {call[c].arg} /\ DOMAIN kept' = DOMAIN kept \ {call[c].arg}
      /\ \A p \in DOMAIN position' : position'[p] = position[p]
      /\ \A p \in DOMAIN kept' : kept'[p] = kept[p]
  BY DEF ServeRemove, Without
<1>2. Saved'
  BY <1>1 DEF Orders, Saved
<1>3. \A d \in Call \ {c} : Holds(d) \subseteq DOMAIN position'
  BY <1>1 DEF ServeRemove, Unlocked, Orders, Locked
<1>4. call[c] # None /\ call[c].op # "order"
  BY DEF ServeRemove, At
<1>5. Answer(c, call[c].arg)
  BY DEF ServeRemove
<1> DEFINE a == call[c].arg
<1>6. Answer(c, a)
  BY <1>5
<1> HIDE DEF a
<1> QED BY <1>2, <1>3, <1>4, <1>6, LosingRowsKeeps

LEMMA DropKeeps == ASSUME Orders, NEW c \in Call, ServeDrop(c) PROVE Orders'
<1>1. position' = << >> /\ kept' = << >>
  BY DEF ServeDrop
<1>2. Saved'
  BY <1>1 DEF Saved
<1>3. \A d \in Call \ {c} : Holds(d) = {}
  BY DEF ServeDrop, Unlocked, Orders, Locked
<1>4. call[c] # None /\ call[c].op # "order" /\ Answer(c, None)
  BY DEF ServeDrop, At
<1> QED BY <1>2, <1>3, <1>4, LosingRowsKeeps

LEMMA ServeKeeps == ASSUME Orders, NEW c \in Call, Serve(c) PROVE Orders'
  BY ReadsKeep, InsertKeeps, UpdateKeeps, CommitKeeps, AbortKeeps, RemoveKeeps, DropKeeps DEF Serve

-----------------------------------------------------------------------------
(* The rest leaves rows and calls alone.                                   *)

LEMMA ElseKeeps == ASSUME Orders, UNCHANGED <<position, call, kept>> PROVE Orders'
  BY DEF Orders, CallShape, Locked, Saved, Holds, At

LEMMA OthersKeep ==
  ASSUME Orders, \/ \E v \in Visitor : ClientAct(v) \/ DownloadStep(v)
                 \/ DeskAct
                 \/ \E q \in Post : ServePost(q) \/ LosePost(q)
                 \/ UNCHANGED studioVars
  PROVE  Orders'
<1>1. ASSUME NEW v \in Visitor, ClientAct(v) PROVE Orders'
  BY <1>1, ElseKeeps DEF ClientAct, OpenLink, GivePassword, GiveGalleryPassword, GiveEmail, ToggleFavorite,
     SendComment, OnVisit, rowVars
<1>2. ASSUME DeskAct PROVE Orders'
  BY <1>2, ElseKeeps DEF DeskAct, ReloadLinks, CreateLink, PatchLink, ToggleExpand, Expire, OnDesk, OnVisit, rowVars
<1>3. ASSUME NEW q \in Post, ServePost(q) PROVE Orders'
  BY <1>3, ElseKeeps DEF ServePost, CheckPost, FindHeart, WriteHeart, InsertNote, ShowNote, CheckEmail, WriteEmail,
     ServeRows, ServePatchLink, ServeCreate, ReadInbox, MarkRead, ShowInbox, AtServer, AtStudio, rowVars
<1>4. ASSUME NEW q \in Post, LosePost(q) PROVE Orders'
  BY <1>4, ElseKeeps DEF LosePost, rowVars
<1>5. ASSUME UNCHANGED studioVars PROVE Orders'
  BY <1>5, ElseKeeps DEF studioVars, editorVars
<1>6. ASSUME NEW v \in Visitor, DownloadStep(v) PROVE Orders'
  BY <1>6, ElseKeeps DEF DownloadStep, OpenPublic, Download, CheckLink, CheckGallery, FindItem, FindTarget,
     ZipItems, ShowDownload, Cancel, LoseDownload, OnVisit, AtRoute, AtDownload, rowVars
<1> QED BY <1>1, <1>2, <1>3, <1>4, <1>5, <1>6

LEMMA NextKeepsOrders == ASSUME Orders, [Next]_studioVars PROVE Orders'
  BY AdminKeeps, PollKeeps, ServeKeeps, HearKeeps, LosingKeeps, OthersKeep
  DEF Next, Polling, Serving, Hearing, Losing

LEMMA InitOrders == Init => Orders
<1> SUFFICES ASSUME NEW s \in Scene, EditorInit(s) PROVE Orders
  BY DEF Init
<1>1. call = s.calls /\ kept = << >>
  BY DEF EditorInit
<1>2. ASSUME NEW c \in Call, call[c] # None
      PROVE  /\ DOMAIN call[c] = {"tab", "op", "arg", "at", "mute"}
             /\ DOMAIN call[c].arg = {"order", "done", "held"} /\ call[c].arg.held = {}
  <2> DEFINE t == s.calls[c].tab
             a == [order |-> s.calls[c].arg.order, done |-> 0, held |-> {}]
  <2>1. s.calls[c] = Ask(t, "order", a)
    BY <1>1, <1>2, StudioAssumption
  <2>2. DOMAIN a = {"order", "done", "held"} /\ a.held = {}
    OBVIOUS
  <2>3. call[c] = Ask(t, "order", a)
    BY <1>1, <2>1
  <2> HIDE DEF a, t
  <2> QED BY <2>2, <2>3 DEF Ask
<1>3. CallShape
  BY <1>1, <1>2, StudioAssumption DEF CallShape, At
<1>4. Locked
  BY <1>2 DEF Locked, Holds, At
<1>5. Saved
  BY <1>1 DEF Saved
<1> QED BY <1>3, <1>4, <1>5 DEF Orders

\* However many pages save the orders of their drags at once, and whatever is
\* added or removed meanwhile, the photos of the order saved last stand in that
\* order: the transaction of the items route, and the locks of its rows.
THEOREM OrdersDoNotMix == Spec => []OrderIsOneSave
<1>1. Orders => OrderIsOneSave
  BY DEF Orders, Saved, OrderIsOneSave
<1> QED BY <1>1, InitOrders, NextKeepsOrders, PTL DEF Spec

-----------------------------------------------------------------------------
(* Comments and the inbox.                                                 *)

PostShape ==
  /\ DOMAIN post = Post
  /\ \A q \in Post : DOMAIN post[q] = {"by", "op", "link", "photo", "at", "mute", "read"}

Unseen == PostShape /\ UnseenStaysUnread

\* A comment that some answer held, holds or missed.
Told(n) == n \in heard \cup slipped \/ \E q \in Post : Is(q, "detail", "marked") /\ n \in post[q].read

\* Nothing is marked read, and no answer is lost on the way.
LEMMA UnseenKept ==
  ASSUME Unseen, PostShape', \A n \in DOMAIN note' : note'[n].read => n \in DOMAIN note /\ note[n].read,
         heard \subseteq heard', slipped \subseteq slipped',
         \A q \in Post : Is(q, "detail", "marked") => post'[q] = post[q] \/ post'[q] = [post[q] EXCEPT !.mute = TRUE]
                                                     \/ post[q].read \subseteq heard' \cup slipped'
  PROVE  Unseen'
<1>1. ASSUME NEW n \in DOMAIN note', note'[n].read PROVE Told(n)'
  <2>1. CASE n \in heard \cup slipped
    BY <2>1 DEF Told
  <2>2. CASE n \notin heard \cup slipped
    <3>1. PICK q \in Post : Is(q, "detail", "marked") /\ n \in post[q].read
      BY <1>1, <2>2 DEF Unseen, UnseenStaysUnread
    <3>2. CASE post[q].read \subseteq heard' \cup slipped'
      BY <3>1, <3>2 DEF Told
    <3>3. CASE post'[q] = post[q] \/ post'[q] = [post[q] EXCEPT !.mute = TRUE]
      <4>1. post'[q].op = post[q].op /\ post'[q].at = post[q].at /\ post'[q].read = post[q].read
        BY <3>3 DEF Unseen, PostShape
      <4> QED BY <3>1, <4>1 DEF Told, Is
    <3> QED BY <3>1, <3>2, <3>3
  <2> QED BY <2>1, <2>2
<1> QED BY <1>1 DEF Unseen, UnseenStaysUnread, Told

\* Steps that touch neither comments nor the inbox's history.
LEMMA PostKeeps ==
  ASSUME Unseen, UNCHANGED <<note, heard, slipped>>, PostShape',
         \A q \in Post : Is(q, "detail", "marked") => post'[q] = post[q] \/ post'[q] = [post[q] EXCEPT !.mute = TRUE]
  PROVE  Unseen'
  BY UnseenKept

LEMMA BeginPosts ==
  ASSUME Unseen, Free # {}, NEW r, DOMAIN r = {"by", "op", "link", "photo", "at", "mute", "read"},
         post' = [post EXCEPT ![CHOOSE q \in Free : TRUE] = r]
  PROVE  PostShape' /\ \A q \in Post : Is(q, "detail", "marked") => post'[q] = post[q]
<1>1. PICK f \in Post : post[f] = NoPost /\ post' = [post EXCEPT ![f] = r]
  <2>1. (CHOOSE q \in Free : TRUE) \in Free
    OBVIOUS
  <2> QED BY <2>1 DEF Free
<1>2. post[f].op = "none"
  BY <1>1 DEF NoPost
<1> QED BY <1>1, <1>2 DEF Unseen, PostShape, Is

\* What a step makes of one call.
LEMMA OnePosts ==
  ASSUME Unseen, NEW q \in Post, NEW r, DOMAIN r = {"by", "op", "link", "photo", "at", "mute", "read"},
         post' = [post EXCEPT ![q] = r]
  PROVE  /\ PostShape' /\ post'[q] = r
         /\ \A d \in Post : d # q => post'[d] = post[d]
  BY DEF Unseen, PostShape

LEMMA FinishPosts ==
  ASSUME Unseen, NEW q \in Post, Finish(q)
  PROVE  PostShape' /\ \A d \in Post : d # q => post'[d] = post[d]
<1>1. DOMAIN NoPost = {"by", "op", "link", "photo", "at", "mute", "read"}
  BY DEF NoPost
<1>2. post' = [post EXCEPT ![q] = NoPost]
  BY DEF Finish
<1> QED BY <1>1, <1>2, OnePosts

LEMMA ClientUnseen == ASSUME Unseen, NEW v \in Visitor, ClientAct(v) PROVE Unseen'
<1>1. UNCHANGED <<note, heard, slipped>>
  BY DEF ClientAct, OpenLink, GivePassword, GiveGalleryPassword, GiveEmail, ToggleFavorite,
     SendComment, OnVisit, dataVars
<1>2. ASSUME NEW by, NEW op, NEW l, NEW p, Begin(by, op, l, p) PROVE Unseen'
  <2> DEFINE r == [by |-> by, op |-> op, link |-> l, photo |-> p, at |-> "sent", mute |-> FALSE, read |-> {}]
  <2>1. DOMAIN r = {"by", "op", "link", "photo", "at", "mute", "read"}
    OBVIOUS
  <2>2. Free # {} /\ post' = [post EXCEPT ![CHOOSE q \in Free : TRUE] = r]
    BY <1>2 DEF Begin
  <2> HIDE DEF r
  <2> QED BY <1>1, <2>1, <2>2, BeginPosts, PostKeeps
<1>3. ASSUME post' = post PROVE Unseen'
  BY <1>1, <1>3, PostKeeps DEF Unseen, PostShape
<1>4. CASE OpenLink(v)
  <2>1. post' = [q \in Post |-> IF post[q].by = v THEN [post[q] EXCEPT !.mute = TRUE] ELSE post[q]]
    BY <1>4 DEF OpenLink, Leave
  <2>2. PostShape'
    BY <2>1 DEF Unseen, PostShape
  <2>3. \A q \in Post : post'[q] = post[q] \/ post'[q] = [post[q] EXCEPT !.mute = TRUE]
    BY <2>1
  <2> QED BY <1>1, <2>2, <2>3, PostKeeps
<1>5. CASE GivePassword(v) \/ GiveGalleryPassword(v)
  BY <1>3, <1>5 DEF GivePassword, GiveGalleryPassword
<1>6. CASE GiveEmail(v)
  BY <1>2, <1>6 DEF GiveEmail
<1>7. CASE ToggleFavorite(v)
  BY <1>2, <1>7 DEF ToggleFavorite
<1>8. CASE SendComment(v)
  BY <1>2, <1>8 DEF SendComment
<1> QED BY <1>4, <1>5, <1>6, <1>7, <1>8 DEF ClientAct

LEMMA DeskUnseen == ASSUME Unseen, DeskAct PROVE Unseen'
<1>1. UNCHANGED <<note, heard, slipped>>
  BY DEF DeskAct, ReloadLinks, CreateLink, PatchLink, ToggleExpand, Expire, OnDesk, OnVisit, dataVars
<1>2. ASSUME NEW r, DOMAIN r = {"by", "op", "link", "photo", "at", "mute", "read"}, Free # {},
             post' = [post EXCEPT ![CHOOSE q \in Free : TRUE] = r]
      PROVE  Unseen'
  BY <1>1, <1>2, BeginPosts, PostKeeps
<1>3. ASSUME NEW by, NEW op, NEW l, NEW p, Begin(by, op, l, p) PROVE Unseen'
  <2> DEFINE r == [by |-> by, op |-> op, link |-> l, photo |-> p, at |-> "sent", mute |-> FALSE, read |-> {}]
  <2>1. DOMAIN r = {"by", "op", "link", "photo", "at", "mute", "read"}
    OBVIOUS
  <2>2. Free # {} /\ post' = [post EXCEPT ![CHOOSE q \in Free : TRUE] = r]
    BY <1>3 DEF Begin
  <2> HIDE DEF r
  <2> QED BY <1>2, <2>1, <2>2
<1>4. ASSUME post' = post PROVE Unseen'
  BY <1>1, <1>4, PostKeeps DEF Unseen, PostShape
<1>5. CASE PatchLink
  <2>1. PICK l, f : /\ Free # {}
                    /\ post' = [post EXCEPT ![CHOOSE q \in Free : TRUE] =
                         [by |-> None, op |-> "patch", link |-> l, photo |-> None, at |-> "sent", mute |-> FALSE,
                          read |-> {<<f, ~desk.rows[l][f]>>}]]
    BY <1>5 DEF PatchLink
  <2> DEFINE r == [by |-> None, op |-> "patch", link |-> l, photo |-> None, at |-> "sent", mute |-> FALSE,
                   read |-> {<<f, ~desk.rows[l][f]>>}]
  <2>2. DOMAIN r = {"by", "op", "link", "photo", "at", "mute", "read"}
    OBVIOUS
  <2>3. Free # {} /\ post' = [post EXCEPT ![CHOOSE q \in Free : TRUE] = r]
    BY <2>1
  <2> HIDE DEF r
  <2> QED BY <1>2, <2>2, <2>3
<1>6. CASE ReloadLinks \/ CreateLink
  BY <1>3, <1>6 DEF ReloadLinks, CreateLink
<1>7. CASE ToggleExpand
  BY <1>3, <1>4, <1>7 DEF ToggleExpand
<1>8. CASE Expire
  BY <1>4, <1>8 DEF Expire
<1> QED BY <1>5, <1>6, <1>7, <1>8 DEF DeskAct

\* A step of one call that is not the inbox's answer.
OneCall(q) ==
  /\ DOMAIN post' = Post
  /\ DOMAIN post'[q] = {"by", "op", "link", "photo", "at", "mute", "read"}
  /\ \A d \in Post : d # q => post'[d] = post[d]

LEMMA OneKeeps ==
  ASSUME Unseen, NEW q \in Post, OneCall(q), ~Is(q, "detail", "marked"), UNCHANGED <<note, heard, slipped>>
  PROVE  Unseen'
<1>1. PostShape'
  BY DEF OneCall, Unseen, PostShape
<1>2. \A d \in Post : Is(d, "detail", "marked") => post'[d] = post[d]
  BY DEF OneCall
<1> QED BY <1>1, <1>2, PostKeeps

LEMMA OneCalls ==
  ASSUME Unseen, NEW q \in Post,
         \/ Finish(q)
         \/ Reload(q)
         \/ \E at : post' = [post EXCEPT ![q].at = at]
         \/ \E at, read : post' = [post EXCEPT ![q].at = at, ![q].read = read]
  PROVE  OneCall(q)
<1>1. DOMAIN post = Post /\ DOMAIN post[q] = {"by", "op", "link", "photo", "at", "mute", "read"}
  BY DEF Unseen, PostShape
<1>2. CASE Finish(q)
  BY <1>2, FinishPosts DEF OneCall, PostShape
<1>3. CASE Reload(q)
  BY <1>1, <1>3 DEF Reload, OneCall
<1>4. CASE \E at : post' = [post EXCEPT ![q].at = at]
  BY <1>1, <1>4 DEF OneCall
<1>5. CASE \E at, read : post' = [post EXCEPT ![q].at = at, ![q].read = read]
  BY <1>1, <1>5 DEF OneCall
<1> QED BY <1>2, <1>3, <1>4, <1>5

LEMMA InsertUnseen == ASSUME Unseen, NEW q \in Post, InsertNote(q) PROVE Unseen'
<1>1. ~Is(q, "detail", "marked") /\ heard' = heard /\ slipped' = slipped
  BY DEF InsertNote, Is, AtServer
<1>2. CASE Finish(q) /\ UNCHANGED note
  BY <1>1, <1>2, OneCalls, OneKeeps
<1>3. CASE \E n \in Note \ DOMAIN note :
             /\ note' = Extend(note, n, [link |-> post[q].link, photo |-> post[q].photo, read |-> FALSE])
             /\ post' = [post EXCEPT ![q].at = "stored", ![q].read = {n}]
  <2>1. PICK n \in Note \ DOMAIN note :
             /\ note' = Extend(note, n, [link |-> post[q].link, photo |-> post[q].photo, read |-> FALSE])
             /\ post' = [post EXCEPT ![q].at = "stored", ![q].read = {n}]
    BY <1>3
  <2>2. OneCall(q)
    BY <2>1, OneCalls
  <2>3. \A m \in DOMAIN note' : note'[m].read => m \in DOMAIN note /\ note[m].read
    BY <2>1 DEF Extend
  <2>4. PostShape'
    BY <2>2 DEF OneCall, Unseen, PostShape
  <2>5. \A d \in Post : Is(d, "detail", "marked") => post'[d] = post[d]
    BY <1>1, <2>2 DEF OneCall
  <2> QED BY <1>1, <2>3, <2>4, <2>5, UnseenKept
<1> QED BY <1>2, <1>3 DEF InsertNote

\* Whatever the update marks was in the answer, or slips.
LEMMA MarkUnseen == ASSUME Unseen, NEW q \in Post, MarkRead(q) PROVE Unseen'
<1>1. /\ DOMAIN post = Post /\ DOMAIN post[q] = {"by", "op", "link", "photo", "at", "mute", "read"}
      /\ post[q].op = "detail" /\ post[q].at = "found" /\ post' = [post EXCEPT ![q].at = "marked"]
  BY DEF MarkRead, Is, Unseen, PostShape
<1>2. /\ PostShape' /\ \A d \in Post : d # q => post'[d] = post[d]
      /\ post'[q].op = "detail" /\ post'[q].at = "marked" /\ post'[q].read = post[q].read
  BY <1>1 DEF Unseen, PostShape
<1>3. DOMAIN note' = DOMAIN note /\ heard' = heard
  BY DEF MarkRead, AtStudio
<1>4. ASSUME NEW n \in DOMAIN note, note'[n].read PROVE Told(n)'
  <2>1. CASE note[n].read
    <3>1. Told(n)
      BY <2>1 DEF Unseen, UnseenStaysUnread, Told
    <3>2. slipped \subseteq slipped'
      BY DEF MarkRead
    <3>3. \A d \in Post : Is(d, "detail", "marked") => Is(d, "detail", "marked")' /\ post'[d].read = post[d].read
      BY <1>1, <1>2 DEF Is
    <3> QED BY <1>3, <3>1, <3>2, <3>3 DEF Told
  <2>2. CASE ~note[n].read
    <3>1. n \in NotesOf(post[q].link)
      BY <1>4, <2>2 DEF MarkRead, NotesOf
    <3>2. n \in post[q].read \/ n \in slipped'
      BY <2>2, <3>1 DEF MarkRead
    <3> QED BY <1>2, <3>2 DEF Told, Is
  <2> QED BY <2>1, <2>2
<1> QED BY <1>2, <1>3, <1>4 DEF Unseen, UnseenStaysUnread, Told

LEMMA ShowUnseen == ASSUME Unseen, NEW q \in Post, ShowInbox(q) PROVE Unseen'
<1>1. OneCall(q)
  BY OneCalls DEF ShowInbox
<1>2. note' = note /\ heard' = heard \cup post[q].read /\ slipped' = slipped
  BY DEF ShowInbox, dataVars
<1>3. PostShape'
  BY <1>1 DEF OneCall, Unseen, PostShape
<1>4. \A d \in Post : Is(d, "detail", "marked") => post'[d] = post[d] \/ post[d].read \subseteq heard' \cup slipped'
  BY <1>1, <1>2 DEF OneCall
<1> QED BY <1>2, <1>3, <1>4, UnseenKept

LEMMA LoseUnseen == ASSUME Unseen, NEW q \in Post, LosePost(q) PROVE Unseen'
<1>1. OneCall(q)
  BY OneCalls DEF LosePost
<1>2. /\ note' = note /\ heard' = heard /\ slipped \subseteq slipped'
      /\ Is(q, "detail", "marked") => post[q].read \subseteq heard' \cup slipped'
  BY DEF LosePost, dataVars, Is
<1>3. PostShape'
  BY <1>1 DEF OneCall, Unseen, PostShape
<1>4. \A d \in Post : Is(d, "detail", "marked") => post'[d] = post[d] \/ post[d].read \subseteq heard' \cup slipped'
  BY <1>1, <1>2 DEF OneCall
<1> QED BY <1>2, <1>3, <1>4, UnseenKept

LEMMA ServeUnseen == ASSUME Unseen, NEW q \in Post, ServePost(q) PROVE Unseen'
<1>1. ASSUME OneCall(q), ~Is(q, "detail", "marked"), UNCHANGED <<note, heard, slipped>> PROVE Unseen'
  BY <1>1, OneKeeps
<1>2. CASE CheckPost(q)
  BY <1>1, <1>2, OneCalls DEF CheckPost, Is, AtServer, dataVars
<1>3. CASE FindHeart(q)
  BY <1>1, <1>3, OneCalls DEF FindHeart, Is, AtServer, dataVars
<1>4. CASE WriteHeart(q)
  BY <1>1, <1>4, OneCalls DEF WriteHeart, Is, AtServer
<1>5. CASE ShowNote(q)
  BY <1>1, <1>5, OneCalls DEF ShowNote, Is, dataVars
<1>6. CASE CheckEmail(q)
  BY <1>1, <1>6, OneCalls DEF CheckEmail, Is, AtServer, dataVars
<1>7. CASE WriteEmail(q)
  BY <1>1, <1>7, OneCalls DEF WriteEmail, Is, AtServer
<1>8. CASE ServeRows(q)
  BY <1>1, <1>8, OneCalls DEF ServeRows, Is, dataVars
<1>9. CASE ServePatchLink(q)
  BY <1>1, <1>9, OneCalls DEF ServePatchLink, Is
<1>10. CASE ServeCreate(q)
  BY <1>1, <1>10, OneCalls DEF ServeCreate, Is
<1>11. CASE ReadInbox(q)
  BY <1>1, <1>11, OneCalls DEF ReadInbox, Is, dataVars
<1> QED BY <1>2, <1>3, <1>4, <1>5, <1>6, <1>7, <1>8, <1>9, <1>10, <1>11, InsertUnseen, MarkUnseen, ShowUnseen
    DEF ServePost

LEMMA SameUnseen ==
  ASSUME Unseen, UNCHANGED <<post, heard, slipped>>, note' = note \/ note' = << >>
  PROVE  Unseen'
<1>1. PostShape'
  BY DEF Unseen, PostShape
<1>2. \A n \in DOMAIN note' : note'[n].read => n \in DOMAIN note /\ note[n].read
  OBVIOUS
<1> QED BY <1>1, <1>2, UnseenKept

LEMMA DownloadUnseen == ASSUME Unseen, NEW v \in Visitor, DownloadStep(v) PROVE Unseen'
<1>1. UNCHANGED <<note, heard, slipped>>
  BY DEF DownloadStep, OpenPublic, Download, CheckLink, CheckGallery, FindItem, FindTarget, ZipItems, ShowDownload,
     Cancel, LoseDownload, OnVisit, AtRoute, AtDownload, dataVars
<1>2. CASE OpenPublic(v)
  <2>1. post' = [q \in Post |-> IF post[q].by = v THEN [post[q] EXCEPT !.mute = TRUE] ELSE post[q]]
    BY <1>2 DEF OpenPublic, Leave
  <2>2. PostShape'
    BY <2>1 DEF Unseen, PostShape
  <2>3. \A q \in Post : post'[q] = post[q] \/ post'[q] = [post[q] EXCEPT !.mute = TRUE]
    BY <2>1
  <2> QED BY <1>1, <2>2, <2>3, PostKeeps
<1>3. CASE ~OpenPublic(v)
  <2>1. post' = post
    BY <1>3 DEF DownloadStep, Download, CheckLink, CheckGallery, FindItem, FindTarget, ZipItems, ShowDownload,
       Cancel, LoseDownload, AtRoute, AtDownload
  <2> QED BY <1>1, <2>1, SameUnseen
<1> QED BY <1>2, <1>3

LEMMA NextKeepsUnseen == ASSUME Unseen, [Next]_studioVars PROVE Unseen'
<1>1. CASE UNCHANGED studioVars
  BY <1>1, SameUnseen DEF studioVars, clientVars
<1>2. ASSUME NEW t \in Tab, Admin(t) \/ Polling(t) PROVE Unseen'
  BY <1>2, SameUnseen DEF Admin, Polling, clientVars
<1>3. ASSUME NEW c \in Call, Serving(c) \/ Hearing(c) \/ Losing(c) PROVE Unseen'
  <2>1. UNCHANGED <<post, heard, slipped>>
    BY <1>3 DEF Serving, Hearing, Losing, clientVars, deskVars
  <2>2. note' = note \/ note' = << >>
    BY <1>3 DEF Serving, Hearing, Losing, clientVars, Cascade
  <2> QED BY <2>1, <2>2, SameUnseen
<1> QED BY <1>1, <1>2, <1>3, ClientUnseen, DownloadUnseen, DeskUnseen, ServeUnseen, LoseUnseen DEF Next

LEMMA InitUnseen == Init => Unseen
<1> SUFFICES ASSUME NEW s \in Scene, ClientInit(s) PROVE Unseen
  BY DEF Init
<1>1. DOMAIN NoPost = {"by", "op", "link", "photo", "at", "mute", "read"}
  BY DEF NoPost
<1>2. PostShape
  BY <1>1 DEF ClientInit, PostShape
<1> QED BY <1>2 DEF ClientInit, Unseen, UnseenStaysUnread

\* The inbox's handler reads the comments and then marks those of the link
\* read, whichever these are by then, and its answer may be lost; but a comment
\* is marked read only if an answer holds it, or if that window or that loss
\* explains it, and every other one still counts in its link's badge.
THEOREM NotReadUnseen == Spec => []UnseenStaysUnread
<1>1. Unseen => UnseenStaysUnread
  BY DEF Unseen
<1> QED BY <1>1, InitUnseen, NextKeepsUnseen, PTL DEF Spec

-----------------------------------------------------------------------------
(* Favourites, on the clients' pages and in the table.                     *)

ViewFields == {"link", "photos", "downloads", "favorite", "comment", "hearts", "notes"}

Opened(v) == view[v] # None

ViewShape == DOMAIN view = Visitor /\ \A v \in Visitor : Opened(v) => DOMAIN view[v] = ViewFields

\* Links go only with their gallery, and are made only while it is there.
ViewLinks ==
  \A v \in Visitor : Opened(v) /\ view[v].link # None => view[v].link \in DOMAIN link \/ gallery = None

Turning(q, l, p) == post[q].op = "heart" /\ post[q].link = l /\ post[q].photo = p
Stored(l, p) == <<l, p>> \in DOMAIN heart

Settled(v, p) == ~Toggling(view[v].link, p) /\ (p \in view[v].hearts <=> Stored(view[v].link, p))

\* The one request for the photo is the visitor's own and will turn the row;
\* what it has found is still so.
InTurn(v, p) ==
  LET l == view[v].link IN
  \E q \in Post :
    /\ Turning(q, l, p) /\ post[q].by = v
    /\ \A r \in Post : Turning(r, l, p) => r = q
    /\ p \in view[v].hearts <=> ~Stored(l, p)
    /\ post[q].at = "found" => post[q].read = Existing(l, p)

Agrees(v, p) == <<v, p>> \in excused \/ Settled(v, p) \/ InTurn(v, p)

Followed ==
  \A v \in Visitor : Opened(v) /\ view[v].link # None /\ view[v].link \in DOMAIN link =>
    \A p \in Photo : Agrees(v, p)

Favourites == ViewShape /\ ViewLinks /\ Followed

\* Requests for favourites go on, if they do, as they were.
PostsCalm ==
  \A q \in Post : post[q].op = "heart" \/ post'[q].op = "heart" =>
    /\ post'[q].op = post[q].op /\ post'[q].by = post[q].by
    /\ post'[q].link = post[q].link /\ post'[q].photo = post[q].photo
    /\ post'[q].at = "found" => post[q].at = "found" /\ post'[q].read = post[q].read

\* What decides whether a page and the table agree on one photo.
LEMMA AgreesOn ==
  ASSUME NEW v \in Visitor, NEW p \in Photo, Agrees(v, p), view'[v].link = view[v].link,
         p \in view'[v].hearts <=> p \in view[v].hearts,
         Stored(view[v].link, p)' <=> Stored(view[v].link, p),
         Existing(view[v].link, p)' = Existing(view[v].link, p),
         <<v, p>> \in excused => <<v, p>> \in excused',
         \A q \in Post : Turning(q, view[v].link, p)' <=> Turning(q, view[v].link, p),
         \A q \in Post : Turning(q, view[v].link, p) =>
           /\ post'[q].by = post[q].by
           /\ post'[q].at = "found" =>
                \/ post[q].at = "found" /\ post'[q].read = post[q].read
                \/ post'[q].read = Existing(view[v].link, p)
  PROVE  Agrees(v, p)'
<1> DEFINE l == view[v].link
<1>1. CASE <<v, p>> \in excused
  BY <1>1 DEF Agrees
<1>2. CASE Settled(v, p)
  BY <1>2 DEF Agrees, Settled, Toggling, Turning, Stored
<1>3. CASE InTurn(v, p)
  <2>1. PICK q \in Post :
          /\ Turning(q, l, p) /\ post[q].by = v
          /\ \A r \in Post : Turning(r, l, p) => r = q
          /\ p \in view[v].hearts <=> ~Stored(l, p)
          /\ post[q].at = "found" => post[q].read = Existing(l, p)
    BY <1>3 DEF InTurn
  <2>2. /\ Turning(q, l, p)' /\ post'[q].by = v
        /\ \A r \in Post : Turning(r, l, p)' => r = q
        /\ p \in view'[v].hearts <=> ~Stored(l, p)'
        /\ post'[q].at = "found" => post'[q].read = Existing(l, p)'
    BY <2>1
  <2> QED BY <2>2 DEF Agrees, InTurn
<1> QED BY <1>1, <1>2, <1>3 DEF Agrees

LEMMA CalmAgrees ==
  ASSUME NEW v \in Visitor, NEW p \in Photo, Agrees(v, p), PostsCalm, UNCHANGED heart, excused \subseteq excused',
         view'[v].link = view[v].link, view'[v].hearts = view[v].hearts
  PROVE  Agrees(v, p)'
<1>1. \A q \in Post : Turning(q, view[v].link, p)' <=> Turning(q, view[v].link, p)
  BY DEF PostsCalm, Turning
<1>2. \A q \in Post : Turning(q, view[v].link, p) =>
        /\ post'[q].by = post[q].by
        /\ post'[q].at = "found" => post[q].at = "found" /\ post'[q].read = post[q].read
  BY DEF PostsCalm, Turning
<1>3. /\ Stored(view[v].link, p)' <=> Stored(view[v].link, p)
      /\ Existing(view[v].link, p)' = Existing(view[v].link, p)
  BY DEF Stored, Existing
<1> QED BY <1>1, <1>2, <1>3, AgreesOn

\* Pages stay as they are, and links go with the gallery alone.
LEMMA FavouritesKept ==
  ASSUME Favourites, DOMAIN view' = Visitor,
         \A v \in Visitor : Opened(v)' => /\ Opened(v) /\ DOMAIN view'[v] = ViewFields
                                          /\ view'[v].link = view[v].link,
         gallery = None => gallery' = None,
         DOMAIN link \subseteq DOMAIN link' \/ gallery' = None,
         DOMAIN link' \subseteq DOMAIN link \/ gallery # None,
         \A v \in Visitor : Opened(v)' /\ Opened(v) /\ view[v].link \in DOMAIN link /\ view[v].link \in DOMAIN link' =>
           \A p \in Photo : Agrees(v, p) => Agrees(v, p)'
  PROVE  Favourites'
<1>1. ViewShape'
  BY DEF ViewShape
<1>2. ViewLinks'
  BY DEF Favourites, ViewLinks
<1>3. Followed'
  <2> SUFFICES ASSUME NEW v \in Visitor, Opened(v)', view'[v].link # None, view'[v].link \in DOMAIN link',
                      NEW p \in Photo
               PROVE  Agrees(v, p)'
    BY DEF Followed
  <2>1. Opened(v) /\ view[v].link # None /\ view[v].link \in DOMAIN link'
    OBVIOUS
  <2>2. view[v].link \in DOMAIN link
    BY <2>1 DEF Favourites, ViewLinks
  <2> QED BY <2>1, <2>2 DEF Favourites, Followed
<1> QED BY <1>1, <1>2, <1>3 DEF Favourites

\* Steps that leave the pages and the favourites alone.
LEMMA CalmKeeps ==
  ASSUME Favourites, PostsCalm, UNCHANGED <<view, heart, gallery>>, excused \subseteq excused',
         DOMAIN link \subseteq DOMAIN link', DOMAIN link' \subseteq DOMAIN link \/ gallery # None
  PROVE  Favourites'
<1>1. \A v \in Visitor : \A p \in Photo : Agrees(v, p) => Agrees(v, p)'
  BY CalmAgrees
<1> QED BY <1>1, FavouritesKept DEF Favourites, ViewShape, Opened

\* A new request that is no favourite's.
LEMMA BeginCalm ==
  ASSUME Unseen, Free # {}, NEW r, r.op # "heart",
         post' = [post EXCEPT ![CHOOSE q \in Free : TRUE] = r]
  PROVE  PostsCalm
<1>1. PICK f \in Post : post[f] = NoPost /\ post' = [post EXCEPT ![f] = r]
  <2>1. (CHOOSE q \in Free : TRUE) \in Free
    OBVIOUS
  <2> QED BY <2>1 DEF Free
<1>2. /\ post[f].op = "none" /\ post'[f] = r
      /\ \A q \in Post : q # f => post'[q] = post[q]
  <2>1. DOMAIN post = Post
    BY DEF Unseen, PostShape
  <2>2. post[f].op = "none"
    BY <1>1 DEF NoPost
  <2> QED BY <1>1, <2>1, <2>2
<1>3. ASSUME NEW q \in Post, q = f
      PROVE  post[q].op # "heart" /\ post'[q].op # "heart"
  BY <1>2, <1>3
<1>4. ASSUME NEW q \in Post, q # f PROVE post'[q] = post[q]
  BY <1>2, <1>4
<1> QED BY <1>3, <1>4 DEF PostsCalm

LEMMA BeginsCalm ==
  ASSUME Unseen, NEW by, NEW op, NEW l, NEW p, Begin(by, op, l, p), op # "heart"
  PROVE  PostsCalm
<1> DEFINE r == [by |-> by, op |-> op, link |-> l, photo |-> p, at |-> "sent", mute |-> FALSE, read |-> {}]
<1>1. r.op = op
  OBVIOUS
<1>2. Free # {} /\ post' = [post EXCEPT ![CHOOSE q \in Free : TRUE] = r]
  BY DEF Begin
<1> HIDE DEF r
<1> QED BY <1>1, <1>2, BeginCalm

\* One request goes on: no favourite's, or a favourite's that passes its check.
LEMMA OneCalm ==
  ASSUME Unseen, NEW q \in Post, OneCall(q),
         post[q].op = "heart" \/ post'[q].op = "heart" =>
           /\ post'[q].op = post[q].op /\ post'[q].by = post[q].by
           /\ post'[q].link = post[q].link /\ post'[q].photo = post[q].photo /\ post'[q].at # "found"
  PROVE  PostsCalm
<1>1. \A d \in Post : d # q => post'[d] = post[d]
  BY DEF OneCall
<1> QED BY <1>1 DEF PostsCalm

LEMMA EndsCalm ==
  ASSUME Unseen, NEW q \in Post, post[q].op # "heart", Finish(q) \/ Reload(q)
  PROVE  PostsCalm
<1>1. OneCall(q)
  BY OneCalls
<1>2. DOMAIN post = Post /\ DOMAIN post[q] = {"by", "op", "link", "photo", "at", "mute", "read"}
  BY DEF Unseen, PostShape
<1>3. post'[q].op \in {"none", "rows"}
  BY <1>2 DEF Finish, Reload, NoPost
<1> QED BY <1>1, <1>3, OneCalm

LEMMA GoesOnCalm ==
  ASSUME Unseen, NEW q \in Post, NEW at, at # "found" \/ post[q].op # "heart",
         \/ post' = [post EXCEPT ![q].at = at]
         \/ \E read : post' = [post EXCEPT ![q].at = at, ![q].read = read]
  PROVE  PostsCalm
<1>1. OneCall(q)
  BY OneCalls
<1>2. DOMAIN post = Post /\ DOMAIN post[q] = {"by", "op", "link", "photo", "at", "mute", "read"}
  BY DEF Unseen, PostShape
<1>3. /\ post'[q].op = post[q].op /\ post'[q].by = post[q].by
      /\ post'[q].link = post[q].link /\ post'[q].photo = post[q].photo /\ post'[q].at = at
  BY <1>2
<1> QED BY <1>1, <1>3, OneCalm

\* A request for a favourite that ends unserved excuses who sent it.
LEMMA EndExcused ==
  ASSUME Unseen, NEW q \in Post, Finish(q), post[q].op = "heart" => excused' = Contended(q),
         excused \subseteq excused', UNCHANGED <<view, heart>>,
         NEW v \in Visitor, NEW p \in Photo, Agrees(v, p)
  PROVE  Agrees(v, p)'
<1>1. /\ \A d \in Post : d # q => post'[d] = post[d]
      /\ post'[q].op = "none"
  BY OneCalls DEF OneCall, Finish, NoPost, Unseen, PostShape
<1>2. CASE Turning(q, view[v].link, p)
  <2>1. CASE InTurn(v, p)
    <3>1. post[q].by = v /\ post[q].photo = p /\ post[q].op = "heart"
      BY <1>2, <2>1 DEF InTurn, Turning
    <3> QED BY <3>1 DEF Contended, Agrees
  <2>2. CASE ~InTurn(v, p)
    BY <1>2, <2>2 DEF Agrees, Settled, Toggling, Turning
  <2> QED BY <2>1, <2>2
<1>3. CASE ~Turning(q, view[v].link, p)
  <2>1. \A d \in Post : Turning(d, view[v].link, p)' <=> Turning(d, view[v].link, p)
    BY <1>1, <1>3 DEF Turning
  <2>2. \A d \in Post : Turning(d, view[v].link, p) => post'[d] = post[d]
    BY <1>1, <1>3
  <2>3. /\ Stored(view[v].link, p)' <=> Stored(view[v].link, p)
        /\ Existing(view[v].link, p)' = Existing(view[v].link, p)
    BY DEF Stored, Existing
  <2> QED BY <2>1, <2>2, <2>3, AgreesOn
<1> QED BY <1>2, <1>3

LEMMA EndExcusedKeeps ==
  ASSUME Unseen, Favourites, NEW q \in Post, Finish(q), post[q].op = "heart" => excused' = Contended(q),
         excused \subseteq excused', UNCHANGED <<view, heart, gallery, link>>
  PROVE  Favourites'
<1>1. \A v \in Visitor : \A p \in Photo : Agrees(v, p) => Agrees(v, p)'
  BY EndExcused
<1> QED BY <1>1, FavouritesKept DEF Favourites, ViewShape, Opened

\* The row is turned once: stored or deleted, as the page has it already.
LEMMA TurnAgrees ==
  ASSUME Unseen, Favourites, NEW q \in Post, WriteHeart(q), UNCHANGED excused,
         NEW v \in Visitor, NEW p \in Photo, view[v].link \in DOMAIN link, Agrees(v, p)
  PROVE  Agrees(v, p)'
<1> DEFINE l == view[v].link
           k == <<post[q].link, post[q].photo>>
<1>1. /\ \A d \in Post : d # q => post'[d] = post[d]
      /\ post'[q].op = "none" /\ post[q].op = "heart" /\ post[q].at = "found"
  BY OneCalls DEF OneCall, WriteHeart, Is, Finish, NoPost, Unseen, PostShape
<1>2. UNCHANGED <<view, link>>
  BY DEF WriteHeart, AtServer
<1>3. /\ \A d \in Post : d # q => (Turning(d, l, p)' <=> Turning(d, l, p))
      /\ ~Turning(q, l, p)'
  BY <1>1, <1>2 DEF Turning
<1>4. CASE ~Turning(q, l, p)
  <2>1. k # <<l, p>>
    BY <1>1, <1>4 DEF Turning
  <2>2. /\ <<l, p>> \in DOMAIN heart' <=> <<l, p>> \in DOMAIN heart
        /\ <<l, p>> \in DOMAIN heart => heart'[<<l, p>>] = heart[<<l, p>>]
    BY <2>1 DEF WriteHeart, Drop, Extend
  <2>3. /\ Stored(l, p)' <=> Stored(l, p)
        /\ Existing(l, p)' = Existing(l, p)
    BY <1>2, <2>2 DEF Stored, Existing
  <2>4. \A d \in Post : Turning(d, l, p)' <=> Turning(d, l, p)
    BY <1>3, <1>4
  <2>5. \A d \in Post : Turning(d, l, p) => post'[d] = post[d]
    BY <1>1, <1>4
  <2> QED BY <1>2, <2>3, <2>4, <2>5, AgreesOn
<1>5. CASE Turning(q, l, p) /\ <<v, p>> \notin excused
  <2>1. InTurn(v, p)
    BY <1>5 DEF Agrees, Settled, Toggling, Turning
  <2>2. /\ \A r \in Post : Turning(r, l, p) => r = q
        /\ p \in view[v].hearts <=> ~Stored(l, p)
        /\ post[q].read = Existing(l, p)
    BY <1>1, <1>5, <2>1 DEF InTurn
  <2>3. \A r \in Post : ~Turning(r, l, p)'
    BY <1>3, <2>2
  <2>4. k = <<l, p>> /\ post[q].link \in DOMAIN link
    BY <1>5 DEF Turning
  <2>5. Stored(l, p)' <=> ~Stored(l, p)
    <3>1. CASE Stored(l, p)
      <4>1. post[q].read = {heart[k]} /\ k \in DOMAIN heart
        BY <2>2, <2>4, <3>1 DEF Stored, Existing
      <4>2. heart' = Drop(heart, {k})
        BY <4>1 DEF WriteHeart
      <4> QED BY <1>2, <2>4, <3>1, <4>2 DEF Stored, Drop
    <3>2. CASE ~Stored(l, p)
      <4>1. post[q].read = {} /\ k \notin DOMAIN heart
        BY <2>2, <2>4, <3>2 DEF Stored, Existing
      <4>2. heart' = Extend(heart, k, serial)
        BY <2>4, <4>1 DEF WriteHeart
      <4> QED BY <1>2, <2>4, <3>2, <4>2 DEF Stored, Extend
    <3> QED BY <3>1, <3>2
  <2>6. Settled(v, p)'
    BY <1>2, <2>2, <2>3, <2>5 DEF Settled, Toggling, Turning, Stored
  <2> QED BY <2>6 DEF Agrees
<1>6. CASE <<v, p>> \in excused
  BY <1>6 DEF Agrees
<1> QED BY <1>4, <1>5, <1>6

LEMMA WriteKeepsHearts == ASSUME Unseen, Favourites, NEW q \in Post, WriteHeart(q) PROVE Favourites'
<1>1. UNCHANGED <<view, link, gallery>> /\ Finish(q) /\ post[q].op = "heart"
  BY DEF WriteHeart, AtServer, rowVars, Is
<1>2. CASE excused' = Contended(q) /\ heart' = heart
  BY <1>1, <1>2, EndExcusedKeeps DEF Contended
<1>3. CASE UNCHANGED excused
  <2>1. \A v \in Visitor : view[v].link \in DOMAIN link => \A p \in Photo : Agrees(v, p) => Agrees(v, p)'
    BY <1>3, TurnAgrees
  <2> QED BY <1>1, <2>1, FavouritesKept DEF Favourites, ViewShape, Opened
<1> QED BY <1>2, <1>3 DEF WriteHeart

LEMMA FindKeepsHearts == ASSUME Unseen, Favourites, NEW q \in Post, FindHeart(q) PROVE Favourites'
<1>1. UNCHANGED <<view, link, gallery, heart, excused>>
  BY DEF FindHeart, AtServer, rowVars, dataVars
<1>2. DOMAIN post = Post /\ DOMAIN post[q] = {"by", "op", "link", "photo", "at", "mute", "read"}
  BY DEF Unseen, PostShape
<1>3. /\ OneCall(q) /\ post'[q].op = post[q].op /\ post[q].op = "heart" /\ post'[q].by = post[q].by
      /\ post'[q].link = post[q].link /\ post'[q].photo = post[q].photo
      /\ post'[q].read = Existing(post[q].link, post[q].photo)
  BY <1>2, OneCalls DEF FindHeart, Is
<1>4. ASSUME NEW v \in Visitor, NEW p \in Photo, Agrees(v, p) PROVE Agrees(v, p)'
  <2>1. \A d \in Post : Turning(d, view[v].link, p)' <=> Turning(d, view[v].link, p)
    BY <1>1, <1>3 DEF OneCall, Turning
  <2>2. \A d \in Post : Turning(d, view[v].link, p) =>
          post'[d].by = post[d].by /\ (d # q => post'[d] = post[d]) /\ (d = q => post'[d].read = Existing(view[v].link, p))
    BY <1>3 DEF OneCall, Turning
  <2>3. /\ Stored(view[v].link, p)' <=> Stored(view[v].link, p)
        /\ Existing(view[v].link, p)' = Existing(view[v].link, p)
    BY <1>1 DEF Stored, Existing
  <2> QED BY <1>1, <1>4, <2>1, <2>2, <2>3, AgreesOn
<1> QED BY <1>1, <1>4, FavouritesKept DEF Favourites, ViewShape, Opened

LEMMA CheckKeepsHearts == ASSUME Unseen, Favourites, NEW q \in Post, CheckPost(q) PROVE Favourites'
<1>1. UNCHANGED <<view, link, gallery, heart>>
  BY DEF CheckPost, AtServer, rowVars, dataVars
<1>2. CASE post' = [post EXCEPT ![q].at = "checked"] /\ UNCHANGED excused
  <2>1. PostsCalm
    <3>1. OneCall(q)
      BY <1>2, OneCalls
    <3>2. DOMAIN post = Post /\ DOMAIN post[q] = {"by", "op", "link", "photo", "at", "mute", "read"}
      BY DEF Unseen, PostShape
    <3>3. /\ post'[q].op = post[q].op /\ post'[q].by = post[q].by
          /\ post'[q].link = post[q].link /\ post'[q].photo = post[q].photo /\ post'[q].at # "found"
      BY <1>2, <3>2
    <3> QED BY <3>1, <3>3, OneCalm
  <2> QED BY <1>1, <1>2, <2>1, CalmKeeps
<1>3. CASE Finish(q) /\ excused' = IF post[q].op = "heart" THEN Contended(q) ELSE excused
  BY <1>1, <1>3, EndExcusedKeeps DEF Contended
<1> QED BY <1>2, <1>3 DEF CheckPost

LEMMA LoseKeepsHearts == ASSUME Unseen, Favourites, NEW q \in Post, LosePost(q) PROVE Favourites'
<1>1. UNCHANGED <<view, link, gallery, heart>> /\ Finish(q)
  BY DEF LosePost, rowVars, dataVars
<1>2. excused' = IF post[q].op = "heart" THEN Contended(q) ELSE excused
  BY DEF LosePost
<1> QED BY <1>1, <1>2, EndExcusedKeeps DEF Contended

LEMMA ShowNoteKeepsHearts == ASSUME Unseen, Favourites, NEW q \in Post, ShowNote(q) PROVE Favourites'
<1>1. /\ UNCHANGED <<link, gallery, heart, excused>>
      /\ Finish(q) /\ post[q].op = "note"
  BY DEF ShowNote, rowVars, dataVars, Is
<1>2. PostsCalm
  BY <1>1, EndsCalm
<1> DEFINE w == post[q].by
<1>3. \/ view' = view
      \/ view[w] # None /\ view' = [view EXCEPT ![w].notes = @ \cup post[q].read]
  BY DEF ShowNote
<1>4. DOMAIN view = Visitor /\ DOMAIN view' = Visitor
  BY <1>3 DEF Favourites, ViewShape
<1>5. ASSUME NEW v \in Visitor, Opened(v)'
      PROVE  /\ Opened(v)
             /\ DOMAIN view'[v] = ViewFields /\ view'[v].link = view[v].link /\ view'[v].hearts = view[v].hearts
  <2>1. CASE view'[v] = view[v]
    BY <1>5, <2>1 DEF Opened, Favourites, ViewShape
  <2>2. CASE v = w /\ view[w] # None /\ view' = [view EXCEPT ![w].notes = @ \cup post[q].read]
    <3>1. Opened(v) /\ DOMAIN view[v] = ViewFields
      BY <2>2 DEF Opened, Favourites, ViewShape
    <3> QED BY <1>4, <2>2, <3>1 DEF ViewFields
  <2> QED BY <1>3, <1>4, <2>1, <2>2
<1>6. \A v \in Visitor : Opened(v)' => \A p \in Photo : Agrees(v, p) => Agrees(v, p)'
  BY <1>1, <1>2, <1>5, CalmAgrees
<1> QED BY <1>1, <1>4, <1>5, <1>6, FavouritesKept

LEMMA ServeKeepsHearts == ASSUME Unseen, Favourites, NEW q \in Post, ServePost(q) PROVE Favourites'
<1>1. CASE InsertNote(q)
  <2>1. UNCHANGED <<view, link, gallery, heart, excused>> /\ post[q].op = "note"
    BY <1>1 DEF InsertNote, AtServer, rowVars, Is
  <2>2. Finish(q) \/ \E n : post' = [post EXCEPT ![q].at = "stored", ![q].read = {n}]
    BY <1>1 DEF InsertNote
  <2>3. PostsCalm
    BY <2>1, <2>2, EndsCalm, GoesOnCalm
  <2> QED BY <2>1, <2>3, CalmKeeps
<1>2. CASE CheckEmail(q)
  <2>1. UNCHANGED <<view, link, gallery, heart, excused>> /\ post[q].op = "email"
    BY <1>2 DEF CheckEmail, AtServer, rowVars, dataVars, Is
  <2>2. Finish(q) \/ post' = [post EXCEPT ![q].at = "checked"]
    BY <1>2 DEF CheckEmail
  <2>3. PostsCalm
    BY <2>1, <2>2, EndsCalm, GoesOnCalm
  <2> QED BY <2>1, <2>3, CalmKeeps
<1>3. CASE WriteEmail(q)
  <2>1. UNCHANGED <<view, gallery, heart, excused>> /\ post[q].op = "email" /\ Finish(q) /\ DOMAIN link' = DOMAIN link
    BY <1>3 DEF WriteEmail, AtServer, rowVars, Is
  <2>2. PostsCalm
    BY <2>1, EndsCalm
  <2> QED BY <2>1, <2>2, CalmKeeps
<1>4. CASE ServeRows(q)
  <2>1. UNCHANGED <<view, link, gallery, heart, excused>> /\ post[q].op = "rows" /\ Finish(q)
    BY <1>4 DEF ServeRows, AtStudio, rowVars, dataVars, Is
  <2>2. PostsCalm
    BY <2>1, EndsCalm
  <2> QED BY <2>1, <2>2, CalmKeeps
<1>5. CASE ServePatchLink(q)
  <2>1. UNCHANGED <<view, gallery, heart, excused>> /\ post[q].op = "patch" /\ Reload(q) /\ DOMAIN link' = DOMAIN link
    BY <1>5 DEF ServePatchLink, AtStudio, rowVars, Is
  <2>2. PostsCalm
    BY <2>1, EndsCalm
  <2> QED BY <2>1, <2>2, CalmKeeps
<1>6. CASE ServeCreate(q)
  <2>1. UNCHANGED <<view, gallery, heart, excused>> /\ post[q].op = "create" /\ Reload(q)
    BY <1>6 DEF ServeCreate, AtStudio, rowVars, Is
  <2>2. DOMAIN link \subseteq DOMAIN link' /\ (gallery # None \/ link' = link)
    BY <1>6 DEF ServeCreate, Extend
  <2>3. PostsCalm
    BY <2>1, EndsCalm
  <2> QED BY <2>1, <2>2, <2>3, CalmKeeps
<1>7. CASE ReadInbox(q) \/ MarkRead(q)
  <2>1. UNCHANGED <<view, link, gallery, heart, excused>> /\ post[q].op = "detail"
    BY <1>7 DEF ReadInbox, MarkRead, AtStudio, rowVars, dataVars, Is
  <2>2. \E at : \/ post' = [post EXCEPT ![q].at = at]
                \/ \E read : post' = [post EXCEPT ![q].at = at, ![q].read = read]
    BY <1>7 DEF ReadInbox, MarkRead
  <2>3. PostsCalm
    BY <2>1, <2>2, GoesOnCalm
  <2> QED BY <2>1, <2>3, CalmKeeps
<1>8. CASE ShowInbox(q)
  <2>1. UNCHANGED <<view, link, gallery, heart, excused>> /\ post[q].op = "detail" /\ Reload(q)
    BY <1>8 DEF ShowInbox, AtStudio, rowVars, dataVars, Is
  <2>2. PostsCalm
    BY <2>1, EndsCalm
  <2> QED BY <2>1, <2>2, CalmKeeps
<1> QED BY <1>1, <1>2, <1>3, <1>4, <1>5, <1>6, <1>7, <1>8, CheckKeepsHearts, FindKeepsHearts, WriteKeepsHearts,
           ShowNoteKeepsHearts
    DEF ServePost

LEMMA DeskKeepsHearts == ASSUME Unseen, Favourites, DeskAct PROVE Favourites'
<1>1. UNCHANGED <<view, gallery, heart, excused>> /\ DOMAIN link' = DOMAIN link
  BY DEF DeskAct, ReloadLinks, CreateLink, PatchLink, ToggleExpand, Expire, OnDesk, OnVisit, rowVars, dataVars
<1>2. ASSUME PostsCalm PROVE Favourites'
  BY <1>1, <1>2, CalmKeeps
<1>3. ASSUME post' = post PROVE PostsCalm
  BY <1>3 DEF PostsCalm
<1>4. ASSUME NEW op, NEW l, op \notin {"heart", "note"}, Begin(None, op, l, None) PROVE PostsCalm
  BY <1>4, BeginsCalm
<1>5. CASE PatchLink
  <2>1. PICK l, f : /\ Free # {}
                    /\ post' = [post EXCEPT ![CHOOSE q \in Free : TRUE] =
                         [by |-> None, op |-> "patch", link |-> l, photo |-> None, at |-> "sent", mute |-> FALSE,
                          read |-> {<<f, ~desk.rows[l][f]>>}]]
    BY <1>5 DEF PatchLink
  <2> DEFINE r == [by |-> None, op |-> "patch", link |-> l, photo |-> None, at |-> "sent", mute |-> FALSE,
                   read |-> {<<f, ~desk.rows[l][f]>>}]
  <2>2. r.op = "patch"
    OBVIOUS
  <2>3. Free # {} /\ post' = [post EXCEPT ![CHOOSE q \in Free : TRUE] = r]
    BY <2>1
  <2> HIDE DEF r
  <2> QED BY <1>2, <2>2, <2>3, BeginCalm
<1>6. CASE ReloadLinks \/ CreateLink
  BY <1>2, <1>4, <1>6 DEF ReloadLinks, CreateLink
<1>7. CASE ToggleExpand
  BY <1>2, <1>3, <1>4, <1>7 DEF ToggleExpand
<1>8. CASE Expire
  BY <1>2, <1>3, <1>8 DEF Expire
<1> QED BY <1>5, <1>6, <1>7, <1>8 DEF DeskAct

\* A page opened anew shows what is stored, but for requests on their way.
LEMMA OpenKeepsHearts == ASSUME Unseen, Favourites, NEW v \in Visitor, OpenLink(v) PROVE Favourites'
<1>1. UNCHANGED <<link, gallery, heart>>
  BY DEF OpenLink, OnVisit, rowVars, dataVars
<1>2. PICK l \in Link :
        /\ LinkOpens(v, l)
        /\ view' = [view EXCEPT ![v] =
             [link |-> l, photos |-> Live, downloads |-> OffersDownload(l), favorite |-> link[l].favorite,
              comment |-> link[l].comment, hearts |-> Hearts(l), notes |-> NotesOf(l)]]
        /\ excused' = {e \in excused : e[1] # v} \cup {<<v, p>> : p \in {x \in Photo : Toggling(l, x)}}
  BY DEF OpenLink
<1>3. /\ DOMAIN view = Visitor /\ DOMAIN view' = Visitor
      /\ DOMAIN view'[v] = ViewFields /\ view'[v].link = l /\ view'[v].hearts = Hearts(l)
      /\ \A w \in Visitor : w # v => view'[w] = view[w]
  BY <1>2 DEF Favourites, ViewShape, ViewFields
<1>4. l \in DOMAIN link
  BY <1>2 DEF LinkOpens, LinkAnswers, Standing
<1>5. \A q \in Post : /\ post'[q].op = post[q].op /\ post'[q].by = post[q].by /\ post'[q].link = post[q].link
                      /\ post'[q].photo = post[q].photo /\ post'[q].at = post[q].at /\ post'[q].read = post[q].read
  <2> SUFFICES ASSUME NEW q \in Post
               PROVE  /\ post'[q].op = post[q].op /\ post'[q].by = post[q].by /\ post'[q].link = post[q].link
                      /\ post'[q].photo = post[q].photo /\ post'[q].at = post[q].at /\ post'[q].read = post[q].read
    OBVIOUS
  <2>1. post'[q] = post[q] \/ post'[q] = [post[q] EXCEPT !.mute = TRUE]
    BY DEF OpenLink, Leave
  <2> QED BY <2>1 DEF Unseen, PostShape
<1>6. \A w \in Visitor : w # v => (Opened(w)' <=> Opened(w))
  BY <1>3 DEF Opened
<1>7. ASSUME NEW w \in Visitor, Opened(w)', view'[w].link # None, view'[w].link \in DOMAIN link', NEW p \in Photo
      PROVE  Agrees(w, p)'
  <2>1. CASE w = v /\ Toggling(l, p)
    BY <1>2, <2>1 DEF Agrees
  <2>2. CASE w = v /\ ~Toggling(l, p)
    <3>1. ~Toggling(l, p)'
      BY <1>5, <2>2 DEF Toggling
    <3>2. p \in Hearts(l) <=> Stored(l, p)
      BY DEF Hearts, Stored
    <3>3. Stored(view[v].link, p)' <=> Stored(l, p)
      BY <1>1, <1>3 DEF Stored
    <3>4. Toggling(view[v].link, p)' <=> Toggling(l, p)
      BY <1>3, <1>5 DEF Toggling
    <3> QED BY <1>3, <2>2, <3>2, <3>3, <3>4 DEF Agrees, Settled
  <2>3. CASE w # v
    <3>1. Agrees(w, p)
      BY <1>1, <1>3, <1>6, <1>7, <2>3 DEF Favourites, Followed
    <3>2. <<w, p>> \in excused => <<w, p>> \in excused'
      BY <1>2, <2>3
    <3>3. /\ Stored(view[w].link, p)' <=> Stored(view[w].link, p)
          /\ Existing(view[w].link, p)' = Existing(view[w].link, p)
      BY <1>1, <1>3, <2>3 DEF Stored, Existing
    <3>4. \A q \in Post : Turning(q, view[w].link, p)' <=> Turning(q, view[w].link, p)
      BY <1>3, <1>5, <2>3 DEF Turning
    <3> QED BY <1>3, <1>5, <2>3, <3>1, <3>2, <3>3, <3>4, AgreesOn
  <2> QED BY <2>1, <2>2, <2>3
<1>8. ViewShape'
  BY <1>3, <1>6 DEF Favourites, ViewShape
<1>9. ViewLinks'
  BY <1>1, <1>3, <1>4, <1>6 DEF Favourites, ViewLinks
<1> QED BY <1>7, <1>8, <1>9 DEF Favourites, Followed

\* The heart turns with its request; other pages of the link, and one whose
\* earlier request is still on its way, are excused.
LEMMA ToggleKeepsHearts == ASSUME Unseen, Favourites, NEW v \in Visitor, ToggleFavorite(v) PROVE Favourites'
<1> DEFINE l == view[v].link
<1>1. UNCHANGED <<link, gallery, heart>> /\ view[v] # None
  BY DEF ToggleFavorite, OnVisit, rowVars, dataVars
<1>2. PICK x \in view[v].photos :
        /\ view' = [view EXCEPT ![v].hearts = IF x \in @ THEN @ \ {x} ELSE @ \cup {x}]
        /\ Begin(v, "heart", l, x)
        /\ excused' = excused \cup {<<w, x>> : w \in IF Toggling(l, x) THEN Viewers(l) ELSE Viewers(l) \ {v}}
  BY DEF ToggleFavorite
<1>3. DOMAIN view = Visitor /\ DOMAIN view[v] = ViewFields
  BY <1>1 DEF Favourites, ViewShape, Opened
<1>4. /\ DOMAIN view' = Visitor
      /\ DOMAIN view'[v] = ViewFields /\ view'[v].link = l
      /\ view'[v].hearts = IF x \in view[v].hearts THEN view[v].hearts \ {x} ELSE view[v].hearts \cup {x}
      /\ \A w \in Visitor : w # v => view'[w] = view[w]
  BY <1>2, <1>3 DEF ViewFields
<1>5. PICK f \in Post :
        /\ post[f].op = "none" /\ post'[f].op = "heart" /\ post'[f].by = v /\ post'[f].link = l
        /\ post'[f].photo = x /\ post'[f].at = "sent"
        /\ \A q \in Post : q # f => post'[q] = post[q]
  <2> DEFINE r == [by |-> v, op |-> "heart", link |-> l, photo |-> x, at |-> "sent", mute |-> FALSE, read |-> {}]
  <2>1. PICK f \in Post : post[f] = NoPost /\ post' = [post EXCEPT ![f] = r]
    <3>1. (CHOOSE q \in Free : TRUE) \in Free
      BY <1>2 DEF Begin
    <3> QED BY <1>2, <3>1 DEF Free, Begin
  <2>2. DOMAIN post = Post
    BY DEF Unseen, PostShape
  <2>3. post[f].op = "none"
    BY <2>1 DEF NoPost
  <2>4. post'[f] = r /\ \A q \in Post : q # f => post'[q] = post[q]
    BY <2>1, <2>2
  <2> QED BY <2>3, <2>4
<1>6. \A w \in Visitor : Opened(w)' => Opened(w)
  BY <1>1, <1>4 DEF Opened
<1>7. ASSUME NEW w \in Visitor, Opened(w)', NEW p \in Photo, view[w].link \in DOMAIN link, Agrees(w, p)
      PROVE  Agrees(w, p)'
  <2> DEFINE m == view[w].link
  <2>1. view'[w].link = m
    BY <1>4
  <2>2. CASE m = l /\ p = x /\ w # v
    <3>1. view[w] # None
      BY <1>6, <1>7 DEF Opened
    <3> QED BY <1>2, <2>2, <3>1 DEF Viewers, Agrees
  <2>3. CASE m = l /\ p = x /\ w = v /\ Toggling(l, x)
    BY <1>1, <1>2, <2>3 DEF Viewers, Agrees
  <2>4. CASE m = l /\ p = x /\ w = v /\ ~Toggling(l, x)
    <3>1. CASE <<v, x>> \in excused
      BY <1>2, <2>4, <3>1 DEF Agrees
    <3>2. CASE <<v, x>> \notin excused
      <4>1. \A q \in Post : ~Turning(q, l, x)
        BY <2>4 DEF Toggling, Turning
      <4>2. x \in view[v].hearts <=> Stored(l, x)
        BY <1>7, <2>4, <3>2, <4>1 DEF Agrees, Settled, InTurn
      <4>3. Turning(f, view[v].link, x)' /\ \A q \in Post : Turning(q, view[v].link, x)' => q = f
        BY <1>4, <1>5, <4>1 DEF Turning
      <4>4. Stored(view[v].link, x)' <=> Stored(l, x)
        BY <1>1, <1>4 DEF Stored
      <4>5. x \in view'[v].hearts <=> ~Stored(view[v].link, x)'
        BY <1>4, <4>2, <4>4
      <4> QED BY <1>5, <2>4, <4>3, <4>5 DEF Agrees, InTurn
    <3> QED BY <3>1, <3>2
  <2>5. CASE m # l \/ p # x
    <3>1. p \in view'[w].hearts <=> p \in view[w].hearts
      BY <1>4, <2>5
    <3>2. \A q \in Post : Turning(q, view[w].link, p)' <=> Turning(q, view[w].link, p)
      BY <1>5, <2>1, <2>5 DEF Turning
    <3>3. \A q \in Post : Turning(q, view[w].link, p) => post'[q] = post[q]
      BY <1>5 DEF Turning
    <3>4. /\ Stored(view[w].link, p)' <=> Stored(view[w].link, p)
          /\ Existing(view[w].link, p)' = Existing(view[w].link, p)
      BY <1>1, <2>1 DEF Stored, Existing
    <3> QED BY <1>2, <1>7, <2>1, <3>1, <3>2, <3>3, <3>4, AgreesOn
  <2> QED BY <2>2, <2>3, <2>4, <2>5
<1>8. \A w \in Visitor : Opened(w) => DOMAIN view'[w] = ViewFields /\ view'[w].link = view[w].link
  BY <1>4 DEF Favourites, ViewShape
<1> QED BY <1>1, <1>4, <1>6, <1>7, <1>8, FavouritesKept

LEMMA ClientKeepsHearts == ASSUME Unseen, Favourites, NEW v \in Visitor, ClientAct(v) PROVE Favourites'
<1>1. CASE GivePassword(v) \/ GiveGalleryPassword(v)
  <2>1. UNCHANGED <<view, link, gallery, heart, excused, post>>
    BY <1>1 DEF GivePassword, GiveGalleryPassword, OnVisit, rowVars, dataVars
  <2>2. PostsCalm
    BY <2>1 DEF PostsCalm
  <2> QED BY <2>1, <2>2, CalmKeeps
<1>2. CASE GiveEmail(v)
  <2>1. UNCHANGED <<view, link, gallery, heart, excused>>
    BY <1>2 DEF GiveEmail, OnVisit, rowVars, dataVars
  <2>2. PostsCalm
    BY <1>2, BeginsCalm DEF GiveEmail
  <2> QED BY <2>1, <2>2, CalmKeeps
<1>3. CASE SendComment(v)
  <2>1. UNCHANGED <<view, link, gallery, heart, excused>>
    BY <1>3 DEF SendComment, OnVisit, rowVars, dataVars
  <2>2. PostsCalm
    BY <1>3, BeginsCalm DEF SendComment
  <2> QED BY <2>1, <2>2, CalmKeeps
<1> QED BY <1>1, <1>2, <1>3, OpenKeepsHearts, ToggleKeepsHearts DEF ClientAct

\* A page without a link has no favourites.
LEMMA PublicKeepsHearts == ASSUME Unseen, Favourites, NEW v \in Visitor, OpenPublic(v) PROVE Favourites'
<1>1. UNCHANGED <<link, gallery, heart, excused>>
  BY DEF OpenPublic, OnVisit, rowVars, dataVars
<1>2. view' = [view EXCEPT ![v] = [link |-> None, photos |-> Live, downloads |-> OffersPublic, favorite |-> FALSE,
                                   comment |-> FALSE, hearts |-> {}, notes |-> {}]]
  BY DEF OpenPublic
<1>3. /\ DOMAIN view' = Visitor /\ DOMAIN view'[v] = ViewFields /\ view'[v].link = None
      /\ \A w \in Visitor : w # v => view'[w] = view[w] /\ (Opened(w)' <=> Opened(w))
  BY <1>2 DEF Favourites, ViewShape, ViewFields, Opened
<1>4. PostsCalm
  <2> SUFFICES ASSUME NEW q \in Post
               PROVE  /\ post'[q].op = post[q].op /\ post'[q].by = post[q].by /\ post'[q].link = post[q].link
                      /\ post'[q].photo = post[q].photo /\ post'[q].at = post[q].at /\ post'[q].read = post[q].read
    BY DEF PostsCalm
  <2>1. post'[q] = post[q] \/ post'[q] = [post[q] EXCEPT !.mute = TRUE]
    BY DEF OpenPublic, Leave
  <2> QED BY <2>1 DEF Unseen, PostShape
<1>5. ViewShape'
  BY <1>3 DEF Favourites, ViewShape
<1>6. ViewLinks'
  BY <1>1, <1>3 DEF Favourites, ViewLinks
<1>7. Followed'
  <2> SUFFICES ASSUME NEW w \in Visitor, Opened(w)', view'[w].link # None, view'[w].link \in DOMAIN link',
                      NEW p \in Photo
               PROVE  Agrees(w, p)'
    BY DEF Followed
  <2>1. view'[w] = view[w] /\ Opened(w)
    BY <1>3
  <2>2. Agrees(w, p)
    BY <1>1, <2>1 DEF Favourites, Followed
  <2> QED BY <1>1, <1>4, <2>1, <2>2, CalmAgrees
<1> QED BY <1>5, <1>6, <1>7 DEF Favourites

LEMMA DownloadKeepsHearts == ASSUME Unseen, Favourites, NEW v \in Visitor, DownloadStep(v) PROVE Favourites'
<1>1. CASE ~OpenPublic(v)
  <2>1. UNCHANGED <<link, gallery, heart, excused, post>>
    BY <1>1 DEF DownloadStep, Download, CheckLink, CheckGallery, FindItem, FindTarget, ZipItems, ShowDownload,
       Cancel, LoseDownload, OnVisit, AtRoute, AtDownload, rowVars, dataVars
  <2>2. view' = view \/ \E w \in {view[v], None} : view' = [view EXCEPT ![v] = w]
    BY <1>1 DEF DownloadStep, Download, CheckLink, CheckGallery, FindItem, FindTarget, ZipItems, ShowDownload,
       Cancel, LoseDownload, AtRoute, Shut
  <2>3. /\ DOMAIN view' = Visitor
        /\ \A w \in Visitor : Opened(w)' => Opened(w) /\ view'[w] = view[w]
    BY <2>2 DEF Opened, Favourites, ViewShape
  <2>4. PostsCalm
    BY <2>1 DEF PostsCalm
  <2>5. \A w \in Visitor : Opened(w)' => \A p \in Photo : Agrees(w, p) => Agrees(w, p)'
    BY <2>1, <2>3, <2>4, CalmAgrees
  <2>6. \A w \in Visitor : Opened(w) => DOMAIN view[w] = ViewFields
    BY DEF Favourites, ViewShape
  <2> QED BY <2>1, <2>3, <2>5, <2>6, FavouritesKept
<1> QED BY <1>1, PublicKeepsHearts

\* With the gallery its links and their favourites go.
LEMMA CascadeKeepsHearts ==
  ASSUME Favourites, Cascade, UNCHANGED <<view, post, excused>>, gallery = None => gallery' = None
  PROVE  Favourites'
<1>1. PostsCalm
  BY DEF PostsCalm
<1>2. \A v \in Visitor : Opened(v)' => Opened(v)
  BY DEF Opened
<1>3. CASE link' = << >> /\ gallery # None /\ gallery' = None
  <2>1. DOMAIN link' = {}
    BY <1>3
  <2> QED BY <1>2, <1>3, <2>1, FavouritesKept DEF Favourites, ViewShape
<1>4. CASE UNCHANGED <<link, heart>>
  <2>1. \A v \in Visitor : \A p \in Photo : Agrees(v, p) => Agrees(v, p)'
    BY <1>1, <1>4, CalmAgrees
  <2> QED BY <1>2, <1>4, <2>1, FavouritesKept DEF Favourites, ViewShape
<1> QED BY <1>3, <1>4 DEF Cascade

LEMMA GoneStaysGone == ASSUME NEW c \in Call, Serve(c), gallery = None PROVE gallery' = None
  BY DEF Serve, ReadGallery, ReadItems, ReadDetail, ServePatch, ReadMax, InsertItem, UpdateRow, CommitOrder,
     AbortOrder, ServeRemove, ServeDelete, ServeDrop, rowVars

LEMMA AdminLeavesGallery == ASSUME NEW t, Admin(t) PROVE UNCHANGED <<clientVars, gallery>>
  BY DEF Admin, Ordering, Filling, Choosing, Looking, Setting, Coming, DragOver, DragEnd, Upload, ToggleUploader,
     RemoveItem, Select, DeleteChosen, OpenBox, Navigate, CloseBox, DeleteShown, OpenForm, EditForm, SaveForm,
     CloseForm, SetCover, TogglePublished, OpenPage, DeleteGallery, OnPage, rowVars

LEMMA NextKeepsHearts == ASSUME Unseen, Favourites, [Next]_studioVars PROVE Favourites'
<1>1. ASSUME UNCHANGED <<clientVars, gallery>> PROVE Favourites'
  <2>1. UNCHANGED <<view, link, heart, post, excused, gallery>>
    BY <1>1 DEF clientVars
  <2>2. PostsCalm
    BY <2>1 DEF PostsCalm
  <2> QED BY <2>1, <2>2, CalmKeeps
<1>2. ASSUME NEW t \in Tab, Admin(t) \/ Polling(t) PROVE Favourites'
  BY <1>1, <1>2, AdminLeavesGallery DEF Polling, Poll, rowVars
<1>3. ASSUME NEW c \in Call, Hearing(c) \/ Losing(c) PROVE Favourites'
  BY <1>1, <1>3 DEF Hearing, Hear, Losing, LoseCall, rowVars
<1>4. ASSUME NEW c \in Call, Serving(c) PROVE Favourites'
  BY <1>4, CascadeKeepsHearts, GoneStaysGone DEF Serving, deskVars
<1>5. CASE UNCHANGED studioVars
  BY <1>1, <1>5 DEF studioVars, editorVars
<1> QED BY <1>2, <1>3, <1>4, <1>5, ClientKeepsHearts, DownloadKeepsHearts, DeskKeepsHearts, ServeKeepsHearts,
           LoseKeepsHearts
    DEF Next

LEMMA InitHearts == Init => Favourites
<1> SUFFICES ASSUME NEW s \in Scene, ClientInit(s) PROVE Favourites
  BY DEF Init
<1>1. view = [v \in Visitor |-> None] /\ \A q \in Post : post[q].op = "none"
  BY DEF ClientInit, NoPost
<1>2. \A v \in Visitor : ~Opened(v)
  BY <1>1 DEF Opened
<1> QED BY <1>1, <1>2 DEF Favourites, ViewShape, ViewLinks, Followed

LEMMA FavouritesHold == Spec => [](Unseen /\ Favourites)
  BY InitUnseen, InitHearts, NextKeepsUnseen, NextKeepsHearts, PTL DEF Spec

\* A page turns its heart before the favourite is stored, and the handler finds
\* the row and writes in two steps: but once a photo's request has been served,
\* the page shows a heart if and only if the row is there, unless requests
\* overlapped, were refused or lost, or came from two browsers.
THEOREM HeartsFollowTheTable == Spec => []HeartsAgree
<1>1. Favourites => HeartsAgree
  <2> SUFFICES ASSUME Favourites, NEW v \in Visitor, view[v] # None, view[v].link # None,
                      view[v].link \in DOMAIN link, NEW p \in Photo,
                      ~Toggling(view[v].link, p), <<v, p>> \notin excused
               PROVE  p \in view[v].hearts <=> <<view[v].link, p>> \in DOMAIN heart
    BY DEF HeartsAgree
  <2>1. Agrees(v, p)
    BY DEF Favourites, Followed, Opened
  <2>2. Settled(v, p)
    BY <2>1 DEF Agrees, InTurn, Toggling, Turning
  <2> QED BY <2>2 DEF Settled, Stored
<1> QED BY <1>1, FavouritesHold, PTL

-----------------------------------------------------------------------------
(* Downloads.                                                              *)

NavFields == {"link", "photo", "at", "policy", "got"}

\* What the page does not offer any more has lapsed; behind the gallery's check
\* there is a policy, and behind the photo's a photo.
Underway(v) ==
  /\ DOMAIN nav[v] = NavFields
  /\ \A p \in Photo : ~Offered(v, p) => p \in lapsed[v]
  /\ nav[v].at \in {"allowed", "held"} => nav[v].policy # "off"
  /\ nav[v].at = "held" => nav[v].photo # None
  /\ \A p \in Missing(v) : p \in lapsed[v] \/ NotReady(v, p)

Clicked == DOMAIN nav = Visitor /\ \A v \in Visitor : nav[v] # None => Underway(v)

LEMMA LapsesGrow ==
  ASSUME Besides, NEW v \in Visitor, nav'[v] # None
  PROVE  /\ \A p \in Photo : ~Offered(v, p)' => p \in lapsed'[v]
         /\ \A p \in Photo : p \in lapsed[v] => p \in lapsed'[v]
  BY DEF Besides

\* Whatever else happens, a download that stays where it is is no worse off.
LEMMA StaysUnderway ==
  ASSUME Besides, NEW v \in Visitor, nav[v] # None, Underway(v), nav'[v] = nav[v], rendered' = rendered
  PROVE  Underway(v)'
<1>1. Missing(v)' = Missing(v) /\ \A p \in Photo : NotReady(v, p)' <=> NotReady(v, p)
  BY DEF Missing, Going, NotReady
<1>2. \A p \in Missing(v) : p \in Photo
  BY DEF Missing
<1>3. \A p \in Missing(v)' : p \in lapsed'[v] \/ NotReady(v, p)'
  BY <1>1, <1>2, LapsesGrow DEF Underway
<1>4. /\ \A p \in Photo : ~Offered(v, p)' => p \in lapsed'[v]
      /\ DOMAIN nav'[v] = NavFields
  BY LapsesGrow DEF Underway
<1>5. /\ nav'[v].at \in {"allowed", "held"} => nav'[v].policy # "off"
      /\ nav'[v].at = "held" => nav'[v].photo # None
  BY DEF Underway
<1> QED BY <1>3, <1>4, <1>5 DEF Underway

\* Steps that start no download and take none further.
LEMMA IdleKeepsClicked ==
  ASSUME Clicked, Besides, rendered' = rendered, nav' = nav \/ \E v \in Visitor : nav' = [nav EXCEPT ![v] = None]
  PROVE  Clicked'
<1>1. DOMAIN nav' = Visitor
  BY DEF Clicked
<1>2. ASSUME NEW v \in Visitor, nav'[v] # None PROVE Underway(v)'
  <2>1. nav'[v] = nav[v]
    BY <1>2 DEF Clicked
  <2> QED BY <1>2, <2>1, StaysUnderway DEF Clicked
<1> QED BY <1>1, <1>2 DEF Clicked

\* A step of one visitor's download, which is so far still under way.
LEMMA OneKeepsClicked ==
  ASSUME Clicked, Besides, rendered' = rendered, NEW v \in Visitor,
         NEW r, nav' = [nav EXCEPT ![v] = r], DOMAIN r = NavFields,
         r.at \in {"allowed", "held"} => r.policy # "off",
         r.at = "held" => r.photo # None,
         \A p \in Missing(v)' : p \in lapsed'[v] \/ NotReady(v, p)'
  PROVE  Clicked'
<1>1. DOMAIN nav' = Visitor /\ nav'[v] = r
  BY DEF Clicked
<1>2. ASSUME NEW w \in Visitor, nav'[w] # None PROVE Underway(w)'
  <2>1. CASE w = v
    <3>1. \A p \in Photo : ~Offered(v, p)' => p \in lapsed'[v]
      BY <1>2, <2>1, LapsesGrow
    <3> QED BY <1>1, <2>1, <3>1 DEF Underway
  <2>2. CASE w # v
    <3>1. nav'[w] = nav[w]
      BY <2>2 DEF Clicked
    <3> QED BY <1>2, <3>1, StaysUnderway DEF Clicked
  <2> QED BY <2>1, <2>2
<1> QED BY <1>1, <1>2 DEF Clicked

\* What is not offered now will have lapsed.
LEMMA LapsesNow ==
  ASSUME Clicked, Besides, NEW v \in Visitor, nav[v] # None, nav'[v] # None, NEW p \in Photo, ~Offered(v, p)
  PROVE  p \in lapsed'[v]
  BY LapsesGrow DEF Clicked, Underway

LEMMA DownloadIsClicked ==
  ASSUME Clicked, Besides, NEW v \in Visitor, Download(v)
  PROVE  Clicked'
<1>1. PICK p : nav' = [nav EXCEPT ![v] =
                 [link |-> view[v].link, photo |-> p, at |-> "sent", policy |-> "off", got |-> {}]]
  BY DEF Download
<1> DEFINE r == [link |-> view[v].link, photo |-> p, at |-> "sent", policy |-> "off", got |-> {}]
<1>2. DOMAIN r = NavFields /\ r.at = "sent"
  BY DEF NavFields
<1> HIDE DEF r
<1>3. nav' = [nav EXCEPT ![v] = r] /\ nav'[v] = r
  BY <1>1 DEF r, Clicked
<1>4. Missing(v)' = {}
  BY <1>2, <1>3 DEF Missing, Going
<1>5. rendered' = rendered
  BY DEF Download, OnVisit
<1> QED BY <1>2, <1>3, <1>4, <1>5, OneKeepsClicked

\* A check of one download passes, or its refusal is accounted for.
LEMMA PassKeepsClicked ==
  ASSUME Clicked, Besides, NEW v \in Visitor, nav[v] # None, rendered' = rendered, NEW ok, NEW at, Pass(v, ok, at),
         at \in {"allowed", "held"} => nav[v].policy # "off", at = "held" => nav[v].photo # None,
         at # "refused", at = "given" => nav[v].photo # None,
         ~ok => \A p \in Photo : nav[v].photo \in {None, p} => ~Offered(v, p) \/ NotReady(v, p)
  PROVE  Clicked'
<1> DEFINE r == [nav[v] EXCEPT !.at = IF ok THEN at ELSE "refused"]
<1>1. DOMAIN nav = Visitor /\ DOMAIN nav[v] = NavFields
  BY DEF Clicked, Underway
<1>2. /\ DOMAIN r = NavFields /\ r.at = IF ok THEN at ELSE "refused"
      /\ r.policy = nav[v].policy /\ r.photo = nav[v].photo
  BY <1>1 DEF NavFields
<1>3. nav' = [nav EXCEPT ![v] = r]
  BY <1>1 DEF Pass
<1> HIDE DEF r
<1>4. nav'[v] = r
  BY <1>1, <1>3
<1>5. ASSUME NEW p \in Missing(v)' PROVE p \in lapsed'[v] \/ NotReady(v, p)'
  <2>1. nav'[v] # None /\ p \in Photo
    BY <1>5 DEF Missing, Going
  <2>2. ~ok /\ nav[v].photo \in {None, p}
    BY <1>2, <1>4, <1>5 DEF Missing, Going
  <2>3. CASE ~Offered(v, p)
    BY <2>1, <2>3, LapsesNow
  <2>4. CASE NotReady(v, p)
    BY <1>2, <1>4, <2>4 DEF NotReady
  <2> QED BY <2>1, <2>2, <2>3, <2>4
<1> QED BY <1>2, <1>3, <1>5, OneKeepsClicked

LEMMA LinkIsClicked == ASSUME Clicked, Besides, NEW v \in Visitor, CheckLink(v) PROVE Clicked'
<1> DEFINE ok == LinkAnswers(v, nav[v].link) /\ link[nav[v].link].downloads
<1>1. nav[v] # None /\ rendered' = rendered /\ Pass(v, ok, "linked") /\ nav[v].link # None
  BY DEF CheckLink, Going, AtRoute, AtDownload
<1>2. ~ok => \A p \in Photo : ~Offered(v, p)
  BY <1>1 DEF Offered, LinkOpens, OffersDownload
<1> HIDE DEF ok
<1> QED BY <1>1, <1>2, PassKeepsClicked

LEMMA ItemIsClicked == ASSUME Clicked, Besides, NEW v \in Visitor, FindItem(v) PROVE Clicked'
<1> DEFINE ok == InGallery(nav[v].photo)
<1>1. /\ nav[v] # None /\ nav[v].at = "allowed" /\ nav[v].photo # None
      /\ rendered' = rendered /\ Pass(v, ok, "held")
  BY DEF FindItem, Going, AtRoute, AtDownload
<1>2. ~ok => \A p \in Photo : nav[v].photo = p => ~Offered(v, p)
  BY DEF InGallery, Offered, Live
<1>3. nav[v].policy # "off"
  BY <1>1 DEF Clicked, Underway
<1> HIDE DEF ok
<1> QED BY <1>1, <1>2, <1>3, PassKeepsClicked

LEMMA TargetIsClicked == ASSUME Clicked, Besides, NEW v \in Visitor, FindTarget(v) PROVE Clicked'
<1> DEFINE ok == nav[v].photo \notin deleted /\ Target(nav[v].policy, nav[v].photo)
<1>1. nav[v] # None /\ nav[v].at = "held" /\ rendered' = rendered /\ Pass(v, ok, "given")
  BY DEF FindTarget, Going, AtRoute, AtDownload
<1>2. nav[v].policy # "off" /\ nav[v].photo # None
  BY <1>1 DEF Clicked, Underway
<1>3. ~ok => \A p \in Photo : nav[v].photo = p => ~Offered(v, p) \/ NotReady(v, p)
  BY <1>2 DEF Target, NotReady, Offered, Live
<1> HIDE DEF ok
<1> QED BY <1>1, <1>2, <1>3, PassKeepsClicked

\* Without a policy, or with a password not given, the page offers nothing.
LEMMA GalleryIsClicked == ASSUME Clicked, Besides, NEW v \in Visitor, CheckGallery(v) PROVE Clicked'
<1> DEFINE policy == IF gallery = None THEN "off"
                     ELSE IF nav[v].link = None THEN gallery.terms.publicDownloads ELSE gallery.terms.downloads
<1>1. /\ nav[v] # None /\ DOMAIN nav = Visitor /\ DOMAIN nav[v] = NavFields /\ rendered' = rendered
      /\ nav[v].at \in {"sent", "linked"}
  BY DEF CheckGallery, Going, AtRoute, AtDownload, Clicked, Underway
<1>2. CASE policy # "off" /\ (nav[v].link = None => MayView(v))
  <2> DEFINE r == [nav[v] EXCEPT !.at = "allowed", !.policy = policy]
  <2>1. DOMAIN r = NavFields /\ r.at = "allowed" /\ r.policy = policy
    BY <1>1 DEF NavFields
  <2>2. nav' = [nav EXCEPT ![v] = r]
    BY <1>1, <1>2 DEF CheckGallery
  <2> HIDE DEF r, policy
  <2>3. nav'[v] = r
    BY <1>1, <2>2
  <2>4. Missing(v)' = {}
    BY <2>1, <2>3 DEF Missing, Going
  <2> QED BY <1>1, <1>2, <2>1, <2>2, <2>4, OneKeepsClicked
<1>3. CASE ~(policy # "off" /\ (nav[v].link = None => MayView(v)))
  <2>1. Pass(v, FALSE, "linked")
    BY <1>3 DEF CheckGallery, Pass
  <2>2. \A p \in Photo : ~Offered(v, p)
    BY <1>3 DEF Offered, PublicOpens, LinkOpens, OffersPublic, OffersDownload, MayView
  <2> HIDE DEF policy
  <2>3. nav[v] # None /\ rendered' = rendered
    BY <1>1
  <2> QED BY <2>1, <2>2, <2>3, PassKeepsClicked
<1> QED BY <1>2, <1>3

\* A zip holds what is there and has a copy.
LEMMA ZipIsClicked == ASSUME Clicked, Besides, NEW v \in Visitor, ZipItems(v) PROVE Clicked'
<1>1. /\ nav[v] # None /\ DOMAIN nav = Visitor /\ DOMAIN nav[v] = NavFields /\ rendered' = rendered
      /\ nav[v].policy # "off" /\ nav[v].photo = None
  BY DEF ZipItems, Going, AtRoute, AtDownload, Clicked, Underway
<1>2. CASE Live = {}
  <2>1. Pass(v, FALSE, "linked")
    BY <1>2 DEF ZipItems, Pass
  <2>2. \A p \in Photo : ~Offered(v, p)
    BY <1>2 DEF Offered
  <2> QED BY <1>1, <2>1, <2>2, PassKeepsClicked
<1>3. CASE Live # {}
  <2> DEFINE got == {p \in Live : Target(nav[v].policy, p)}
             r == [nav[v] EXCEPT !.at = "given", !.got = got]
  <2>1. DOMAIN r = NavFields /\ r.at = "given" /\ r.got = got /\ r.policy = nav[v].policy
    BY <1>1 DEF NavFields
  <2>2. nav' = [nav EXCEPT ![v] = r]
    BY <1>1, <1>3 DEF ZipItems
  <2> HIDE DEF r
  <2>3. nav'[v] = r
    BY <1>1, <2>2
  <2>4. ASSUME NEW p \in Missing(v)' PROVE p \in lapsed'[v] \/ NotReady(v, p)'
    <3>1. nav'[v] # None /\ p \in Photo /\ p \notin got
      BY <2>1, <2>3, <2>4 DEF Missing, Going
    <3>2. CASE p \notin Live
      <4>1. ~Offered(v, p)
        BY <3>2 DEF Offered
      <4> QED BY <1>1, <3>1, <4>1, LapsesNow
    <3>3. CASE p \in Live
      BY <1>1, <2>1, <2>3, <3>1, <3>3 DEF Target, NotReady
    <3> QED BY <3>2, <3>3
  <2> HIDE DEF got
  <2> QED BY <1>1, <2>1, <2>2, <2>4, OneKeepsClicked
<1> QED BY <1>2, <1>3

LEMMA DownloadStepIsClicked == ASSUME Clicked, Besides, NEW v \in Visitor, DownloadStep(v) PROVE Clicked'
<1>1. CASE OpenPublic(v) \/ ShowDownload(v) \/ Cancel(v) \/ LoseDownload(v)
  BY <1>1, IdleKeepsClicked DEF OpenPublic, Leave, OnVisit, ShowDownload, Cancel, LoseDownload, Shut, AtDownload
<1> QED BY <1>1, DownloadIsClicked, LinkIsClicked, GalleryIsClicked, ItemIsClicked, TargetIsClicked, ZipIsClicked
    DEF DownloadStep

LEMMA ElsewhereKeepsClicked ==
  ASSUME Clicked, Besides,
         \/ \E t \in Tab : Admin(t) \/ Polling(t)
         \/ \E c \in Call : Serving(c) \/ Hearing(c) \/ Losing(c)
         \/ \E v \in Visitor : ClientAct(v)
         \/ DeskAct
         \/ \E q \in Post : ServePost(q) \/ LosePost(q)
  PROVE  Clicked'
<1>1. ASSUME UNCHANGED <<rendered, nav>> PROVE Clicked'
  BY <1>1, IdleKeepsClicked
<1>2. CASE \E t \in Tab : Admin(t) \/ Polling(t)
  BY <1>1, <1>2 DEF Admin, Polling, clientVars
<1>3. CASE \E c \in Call : Serving(c) \/ Hearing(c) \/ Losing(c)
  BY <1>1, <1>3 DEF Serving, Hearing, Losing, clientVars, deskVars
<1>4. ASSUME NEW v \in Visitor, ClientAct(v) PROVE Clicked'
  <2>1. CASE OpenLink(v)
    BY <2>1, IdleKeepsClicked DEF OpenLink, Leave, OnVisit
  <2>2. CASE ~OpenLink(v)
    BY <1>1, <1>4, <2>2 DEF ClientAct, GivePassword, GiveGalleryPassword, GiveEmail, ToggleFavorite, SendComment,
       OnVisit
  <2> QED BY <2>1, <2>2
<1>5. CASE DeskAct
  BY <1>1, <1>5 DEF DeskAct, ReloadLinks, CreateLink, PatchLink, ToggleExpand, Expire, OnDesk, OnVisit
<1>6. ASSUME NEW q \in Post, ServePost(q) \/ LosePost(q) PROVE Clicked'
  BY <1>1, <1>6 DEF ServePost, LosePost, CheckPost, FindHeart, WriteHeart, InsertNote, ShowNote, CheckEmail,
     WriteEmail, ServeRows, ServePatchLink, ServeCreate, ReadInbox, MarkRead, ShowInbox, AtServer, AtStudio
<1> QED BY <1>2, <1>3, <1>4, <1>5, <1>6

LEMMA NextKeepsClicked == ASSUME Clicked, [Next]_studioVars PROVE Clicked'
<1>1. CASE UNCHANGED studioVars
  <2>1. UNCHANGED <<position, deleted, gallery, link, cookie, entered, nav, lapsed, rendered>>
    BY <1>1 DEF studioVars, editorVars, clientVars
  <2>2. \A v \in Visitor : \A p \in Photo : Offered(v, p)' <=> Offered(v, p)
    BY <2>1 DEF Offered, PublicOpens, OffersPublic, LinkOpens, LinkAnswers, Standing, Admitted, OffersDownload, Live
  <2>3. \A v \in Visitor : Missing(v)' = Missing(v)
    BY <2>1 DEF Missing, Going
  <2>4. \A v \in Visitor : \A p : NotReady(v, p)' <=> NotReady(v, p)
    BY <2>1 DEF NotReady
  <2> QED BY <2>1, <2>2, <2>3, <2>4 DEF Clicked, Underway
<1>2. CASE Next
  <2>1. Besides
    BY <1>2 DEF Next, Admin, Polling, Serving, Hearing, Losing
  <2> QED BY <1>2, <2>1, ElsewhereKeepsClicked, DownloadStepIsClicked DEF Next
<1> QED BY <1>1, <1>2

LEMMA InitClicked == Init => Clicked
<1> SUFFICES ASSUME NEW s \in Scene, ClientInit(s) PROVE Clicked
  BY DEF Init
<1> QED BY DEF ClientInit, Clicked

\* A page offers downloads by what the gallery and the link said when it was
\* rendered; the click comes later, and the route reads the link, the gallery,
\* the item and the photo one after another while the studio changes them: a
\* photo is refused, or left out of a zip, only if since the click the page
\* would at some moment not have offered it, or for want of a rendered copy.
THEOREM OfferedDownloadsAreServed == Spec => []OfferedIsServed
<1>1. Clicked => OfferedIsServed
  BY DEF Clicked, Underway, OfferedIsServed
<1> QED BY <1>1, InitClicked, NextKeepsClicked, PTL DEF Spec

===============================================================================
