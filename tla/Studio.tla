-------------------------------- MODULE Studio --------------------------------
(***************************************************************************)
(* One gallery with all that works on it at once: the studio's pages, the  *)
(* clients of its links, and the inbox.  Deleting the gallery deletes its  *)
(* links with their favourites and comments.  A scene names who takes part *)
(* and the gallery it starts from.                                         *)
(***************************************************************************)
EXTENDS ClientProofing

CONSTANT Scene   \* bound: where a behaviour may start (see MCStudio)

\* What is under way where a behaviour starts: orders of which nothing is saved yet.
ASSUME StudioAssumption ==
  \A s \in Scene :
    /\ DOMAIN s.calls = Call
    /\ \A c \in Call : s.calls[c] = None
         \/ s.calls[c] = Ask(s.calls[c].tab, "order", [order |-> s.calls[c].arg.order, done |-> 0, held |-> {}])

VARIABLES crew,    \* bound: who takes part
          lapsed   \* history: photos the page a visitor downloads from would, at
                   \* some moment since the click, not have offered

studioVars == <<editorVars, clientVars, crew, lapsed>>

Init ==
  /\ \E s \in Scene : crew = s.crew /\ EditorInit(s) /\ ClientInit(s)
  /\ lapsed = [v \in Visitor |-> {}]

\* The page a download was clicked on, opened now, would offer the photo.
Offered(v, p) ==
  /\ p \in Live
  /\ IF nav[v].link = None THEN PublicOpens(v) /\ OffersPublic
     ELSE LinkOpens(v, nav[v].link) /\ OffersDownload(nav[v].link)

\* What every step does besides.
Besides ==
  /\ lapsed' = [v \in Visitor |-> IF nav'[v] = None THEN {}
                                  ELSE {p \in Photo : p \in lapsed[v] \/ ~Offered(v, p)'}]
  /\ UNCHANGED crew

deskVars == <<rendered, cookie, entered, view, nav, desk, post, serial, heard, slipped, excused>>

Admin(t) ==
  /\ \/ "ordering" \in crew /\ Ordering(t)
     \/ "filling" \in crew /\ Filling(t)
     \/ "choosing" \in crew /\ Choosing(t)
     \/ "looking" \in crew /\ Looking(t)
     \/ "setting" \in crew /\ Setting(t)
     \/ "coming" \in crew /\ Coming(t)
  /\ UNCHANGED clientVars /\ Besides
Serving(c) == Serve(c) /\ Cascade /\ UNCHANGED deskVars /\ Besides
Hearing(c) == Hear(c) /\ UNCHANGED clientVars /\ Besides
Losing(c) == LoseCall(c) /\ UNCHANGED clientVars /\ Besides
Polling(t) == Poll(t) /\ UNCHANGED clientVars /\ Besides

Next ==
  \/ \E t \in Tab : t \in crew /\ (Admin(t) \/ Polling(t))
  \/ \E c \in Call : Serving(c) \/ Hearing(c) \/ Losing(c)
  \/ \E v \in Visitor : v \in crew /\ (ClientAct(v) \/ DownloadStep(v)) /\ Besides
  \/ "desk" \in crew /\ DeskAct /\ Besides
  \/ \E q \in Post : (ServePost(q) \/ LosePost(q)) /\ Besides

\* Handlers run to their end, answers arrive, and every page's timer goes on
\* firing: strong, because the calls of other pages may fill Call, which is the
\* model's bound and not the browser's.
Fairness ==
  /\ \A c \in Call : WF_studioVars(Serving(c)) /\ WF_studioVars(Hearing(c))
  /\ \A t \in Tab : SF_studioVars(Polling(t))

Spec == Init /\ [][Next]_studioVars /\ Fairness

TypeOK == EditorTypeOK /\ ClientTypeOK /\ lapsed \in [Visitor -> SUBSET Photo]

-----------------------------------------------------------------------------
\* Orders saved from two drags, even at once, never mix: the photos of the
\* order saved last stand in it, those of them still in the gallery, though
\* photos added since may stand anywhere (PATCH of the items route).
OrderIsOneSave ==
  /\ DOMAIN kept \subseteq DOMAIN position
  /\ \A p, q \in DOMAIN kept : kept[p] < kept[q] => position[p] < position[q]

\* What a download has come back without.
Missing(v) ==
  {p \in Photo : \/ Going(v, "refused") /\ nav[v].photo \in {None, p}
                 \/ Going(v, "given") /\ nav[v].photo = None /\ p \notin nav[v].got}

\* Its policy is "web", and there is no copy to give.
NotReady(v, p) == nav[v].policy \notin {"off", "original"} /\ p \notin rendered

\* A page offers what the link and the gallery allowed when it was rendered, and
\* each route works it out again, row by row, while the studio changes the same
\* rows: a download is refused, or a photo left out of a zip, only if at some
\* moment since the click the page itself would not have offered it any more, or
\* for want of a rendered copy, which a video never has (ShownIsServed).
OfferedIsServed ==
  \A v \in Visitor : nav[v] # None =>
    \A p \in Missing(v) : p \in lapsed[v] \/ NotReady(v, p)

\* A tab's uploader polls, and no drag is under way.
Watching(t) == page[t].at = "open" /\ page[t].uploading /\ page[t].drag = 0
Distinct == \A p, q \in Live : p # q => position[p] # position[q]
InStep(t) ==
  /\ page[t].row = gallery /\ page[t].items \in Listings
  /\ Distinct /\ Lit(page[t]) # None => page[t].detail \in {None, Lit(page[t])}

\* Answers come in any order and some are lost, but a page whose uploader is
\* open ends up with the gallery as it is stored, in the grid and in the
\* lightbox, once nobody changes it any more (the poll of the editor page).
PageCatchesUp == <>[](\A t \in Tab : Watching(t) => InStep(t))
-----------------------------------------------------------------------------
(* What documents of the repository say and the code does not keep.        *)

\* The policy "web" "always serves whatever's currently shown on screen"
\* (DECISIONS.md:40): what the page shows all along is not refused.
ShownIsServed ==
  \A v \in Visitor :
    Going(v, "refused") /\ nav[v].policy = "web" => nav[v].photo \in lapsed[v] \cup {None}

\* "General site visitors get no download path at all, by design"
\* (api/public/download/route.ts:12-14).
NoVisitorDownload == \A v \in Visitor : Going(v, "given") => nav[v].link # None
===============================================================================
