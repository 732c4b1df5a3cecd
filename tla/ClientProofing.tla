---------------------------- MODULE ClientProofing ----------------------------
(***************************************************************************)
(* Client links of a gallery: clients who open one, mark favourites and    *)
(* leave comments, and the studio's list of links with its inbox.  A       *)
(* handler checks the link first and writes later; the client's page shows *)
(* a favourite before it is stored, a comment after.  Clients, and ordinary *)
(* visitors on the gallery's public page, also download what their page    *)
(* offers, which it worked out when it was rendered.                       *)
(***************************************************************************)
EXTENDS GalleryEditor

CONSTANTS Link,      \* client_access ids
          Visitor,   \* browsers of clients
          Note,      \* comment ids
          Post       \* fetches of clients and of the inbox that may be under way at once

VARIABLES link,      \* the client_access rows
          heart,     \* the favourite rows, by link and photo: their ids
          note,      \* the comment rows
          rendered,  \* photos with a clean 2560 jpeg
          cookie,    \* <<visitor, link>> once the password was given
          entered,   \* visitors who gave the gallery's password
          view,      \* the gallery view a visitor has open, of a link or the public one
          nav,       \* the download a visitor clicked, which is a navigation: one at a time
          desk,      \* the studio's list of links and its inbox
          post,      \* the fetches under way
          serial,    \* ids of favourites given so far
          heard,     \* history: comments an inbox answer brought to the studio
          slipped,   \* history: comments marked read that no answer holds or brings
          excused    \* history: <<visitor, photo>> whose favourite was contended or refused

clientVars == <<link, heart, note, rendered, cookie, entered, view, nav, desk, post, serial, heard, slipped, excused>>

LinkRow == [revoked : BOOLEAN, expired : BOOLEAN, guarded : BOOLEAN, email : Visitor \cup {None},
            downloads : BOOLEAN, favorite : BOOLEAN, comment : BOOLEAN]
NoteRow == [link : Link, photo : Photo, read : BOOLEAN]

Navigation == [link : Link \cup {None}, photo : Photo \cup {None}, policy : {"off", "web", "original"},
               at : {"sent", "linked", "allowed", "held", "given", "refused"}, got : SUBSET Photo]

NoPost == [by |-> None, op |-> "none", link |-> None, photo |-> None, at |-> "none", mute |-> FALSE, read |-> {}]

Extend(f, k, v) == [x \in DOMAIN f \cup {k} |-> IF x = k THEN v ELSE f[x]]
Drop(f, S) == [x \in DOMAIN f \ S |-> f[x]]

\* What the list of links shows of one.
LinkLine(r, unread) ==
  [revoked |-> r.revoked, downloads |-> r.downloads, favorite |-> r.favorite, comment |-> r.comment,
   unread |-> unread]

ClientInit(s) ==
  /\ link = s.links /\ heart = << >> /\ note = << >> /\ rendered = s.rendered
  /\ cookie = {} /\ entered = {} /\ view = [v \in Visitor |-> None] /\ nav = [v \in Visitor |-> None]
  /\ desk = [rows |-> [l \in DOMAIN s.links |-> LinkLine(s.links[l], 0)], open |-> None, detail |-> {}] /\ post = [q \in Post |-> NoPost]
  /\ serial = 0 /\ heard = {} /\ slipped = {} /\ excused = {}

-----------------------------------------------------------------------------
(* Who may see and have what *)

Standing(l) == l \in DOMAIN link /\ ~link[l].revoked /\ ~link[l].expired
Admitted(v, l) == link[l].guarded => <<v, l>> \in cookie
LinkAnswers(v, l) == Standing(l) /\ Admitted(v, l)   \* resolveLiveClientAccess

\* resolveDownloadTarget: the original, or a rendered copy.
Target(policy, p) == policy = "original" \/ p \in rendered
InGallery(p) == p \in DOMAIN position

\* publicVisitorCanViewGallery.
MayView(v) ==
  CASE gallery.terms.visibility = "private" -> FALSE
    [] gallery.terms.visibility = "password" -> v \in entered
    [] OTHER -> TRUE

\* The page behind a link, once neither a password nor an email is asked for.
LinkOpens(v, l) == LinkAnswers(v, l) /\ gallery # None /\ link[l].email # None /\ Live # {}

\* Mutant: the link's own switch decides, whatever the gallery says.
OffersByLink(l) == link[l].downloads

OffersDownload(l) == link[l].downloads /\ gallery.terms.downloads # "off"
PublicOpens(v) ==
  /\ gallery # None /\ gallery.published /\ gallery.terms.visibility # "private"
  /\ gallery.terms.visibility = "password" => v \in entered
  /\ Live # {}
OffersPublic == gallery.terms.publicDownloads # "off"

-----------------------------------------------------------------------------
(* The client *)

Free == {q \in Post : post[q] = NoPost}
Begin(by, op, l, p) ==
  /\ Free # {}
  /\ post' = [post EXCEPT ![CHOOSE q \in Free : TRUE] =
       [by |-> by, op |-> op, link |-> l, photo |-> p, at |-> "sent", mute |-> FALSE, read |-> {}]]
Finish(q) == post' = [post EXCEPT ![q] = NoPost]
Is(q, op, at) == post[q].op = op /\ post[q].at = at

OnVisit == Act /\ UNCHANGED <<rowVars, page, call, faults, rendered, desk, heard, slipped>>
dataVars == <<link, heart, note, serial>>

Toggling(l, p) == \E q \in Post : post[q].op = "heart" /\ post[q].link = l /\ post[q].photo = p
Viewers(l) == {v \in Visitor : view[v] # None /\ view[v].link = l}
Hearts(l) == {p \in Photo : <<l, p>> \in DOMAIN heart}
NotesOf(l) == {n \in DOMAIN note : note[n].link = l}

\* A page opened anew hears no answer meant for the one before it.
Leave(v) ==
  /\ post' = [q \in Post |-> IF post[q].by = v THEN [post[q] EXCEPT !.mute = TRUE] ELSE post[q]]
  /\ nav' = [nav EXCEPT ![v] = None]

OpenLink(v) ==
  /\ \E l \in Link :
       /\ LinkOpens(v, l)
       /\ view' = [view EXCEPT ![v] =
            [link |-> l, photos |-> Live, downloads |-> OffersDownload(l), favorite |-> link[l].favorite,
             comment |-> link[l].comment, hearts |-> Hearts(l), notes |-> NotesOf(l)]]
       /\ excused' = {e \in excused : e[1] # v} \cup {<<v, p>> : p \in {x \in Photo : Toggling(l, x)}}
  /\ Leave(v) /\ OnVisit /\ UNCHANGED <<dataVars, cookie, entered>>

\* The gallery's public page: no link, no favourites and no comments.
OpenPublic(v) ==
  /\ PublicOpens(v)
  /\ view' = [view EXCEPT ![v] =
       [link |-> None, photos |-> Live, downloads |-> OffersPublic, favorite |-> FALSE,
        comment |-> FALSE, hearts |-> {}, notes |-> {}]]
  /\ Leave(v) /\ OnVisit /\ UNCHANGED <<dataVars, cookie, entered, excused>>

GivePassword(v) ==
  /\ \E l \in Link : /\ Standing(l) /\ gallery # None /\ ~Admitted(v, l)
                     /\ cookie' = cookie \cup {<<v, l>>}
  /\ OnVisit /\ UNCHANGED <<dataVars, entered, view, nav, post, excused>>

GiveGalleryPassword(v) ==
  /\ gallery # None /\ gallery.published /\ gallery.terms.visibility = "password" /\ v \notin entered
  /\ entered' = entered \cup {v}
  /\ OnVisit /\ UNCHANGED <<dataVars, cookie, view, nav, post, excused>>

GiveEmail(v) ==
  /\ \E l \in Link : /\ LinkAnswers(v, l) /\ gallery # None /\ link[l].email = None
                     /\ Begin(v, "email", l, None)
  /\ OnVisit /\ UNCHANGED <<dataVars, cookie, entered, view, nav, excused>>

\* The heart turns at once; the request says only that it was clicked.
ToggleFavorite(v) ==
  /\ view[v] # None /\ view[v].favorite
  /\ \E p \in view[v].photos :
       LET l == view[v].link IN
       /\ view' = [view EXCEPT ![v].hearts = IF p \in @ THEN @ \ {p} ELSE @ \cup {p}]
       /\ Begin(v, "heart", l, p)
       /\ excused' = excused \cup {<<w, p>> : w \in IF Toggling(l, p) THEN Viewers(l) ELSE Viewers(l) \ {v}}
  /\ OnVisit /\ UNCHANGED <<dataVars, cookie, entered, nav>>

SendComment(v) ==
  /\ view[v] # None /\ view[v].comment
  /\ \E p \in view[v].photos : Begin(v, "note", view[v].link, p)
  /\ OnVisit /\ UNCHANGED <<dataVars, cookie, entered, view, nav, excused>>

-----------------------------------------------------------------------------
(* The handlers behind the client's page *)

AtServer == UNCHANGED <<rowVars, page, call, edits, faults, rendered, cookie, entered, view, nav, desk, heard, slipped>>
Contended(q) == excused \cup {<<post[q].by, post[q].photo>>}

\* Both routes check the link, what it allows, and that the photo is in its
\* gallery; a refused favourite stays turned on the page.
CheckPost(q) ==
  /\ Is(q, "heart", "sent") \/ Is(q, "note", "sent")
  /\ LET r == post[q]
         allowed == /\ LinkAnswers(r.by, r.link) /\ InGallery(r.photo)
                    /\ IF r.op = "heart" THEN link[r.link].favorite ELSE link[r.link].comment
     IN IF allowed THEN post' = [post EXCEPT ![q].at = "checked"] /\ UNCHANGED excused
        ELSE Finish(q) /\ excused' = IF r.op = "heart" THEN Contended(q) ELSE excused
  /\ AtServer /\ UNCHANGED dataVars

\* Mutant: any favourite of the link is found.
ExistingOfLink(l, p) == {heart[k] : k \in {x \in DOMAIN heart : x[1] = l}}

\* favorites.findFirst by link and photo: the id of the row, or none.
Existing(l, p) == IF <<l, p>> \in DOMAIN heart THEN {heart[<<l, p>>]} ELSE {}

FindHeart(q) ==
  /\ Is(q, "heart", "checked")
  /\ post' = [post EXCEPT ![q].at = "found", ![q].read = Existing(post[q].link, post[q].photo)]
  /\ AtServer /\ UNCHANGED <<dataVars, excused>>

\* The row that was found is deleted by its id; a second row of the same link
\* and photo breaks the unique constraint, and the request fails.
WriteHeart(q) ==
  /\ Is(q, "heart", "found") /\ Finish(q)
  /\ LET k == <<post[q].link, post[q].photo>> IN
       IF post[q].read # {}
       THEN /\ heart' = IF k \in DOMAIN heart /\ heart[k] \in post[q].read THEN Drop(heart, {k}) ELSE heart
            /\ UNCHANGED <<serial, excused>>
       ELSE IF k \in DOMAIN heart \/ post[q].link \notin DOMAIN link
       THEN UNCHANGED <<heart, serial>> /\ excused' = Contended(q)
       ELSE heart' = Extend(heart, k, serial) /\ serial' = serial + 1 /\ UNCHANGED excused
  /\ AtServer /\ UNCHANGED <<link, note>>

InsertNote(q) ==
  /\ Is(q, "note", "checked")
  /\ IF post[q].link \notin DOMAIN link THEN Finish(q) /\ UNCHANGED note
     ELSE \E n \in Note \ DOMAIN note :
            /\ note' = Extend(note, n, [link |-> post[q].link, photo |-> post[q].photo, read |-> FALSE])
            /\ post' = [post EXCEPT ![q].at = "stored", ![q].read = {n}]
  /\ AtServer /\ UNCHANGED <<link, heart, serial, excused>>

\* The answer adds the comment to the page that sent it.
ShowNote(q) ==
  /\ Is(q, "note", "stored") /\ Finish(q)
  /\ view' = IF post[q].mute \/ view[post[q].by] = None THEN view
             ELSE [view EXCEPT ![post[q].by].notes = @ \cup post[q].read]
  /\ UNCHANGED <<rowVars, page, call, edits, faults, dataVars, rendered, cookie, entered, nav, desk, heard, slipped, excused>>

\* The email is read, and written if there was none.
CheckEmail(q) ==
  /\ Is(q, "email", "sent")
  /\ IF Standing(post[q].link) /\ link[post[q].link].email = None
     THEN post' = [post EXCEPT ![q].at = "checked"] ELSE Finish(q)
  /\ AtServer /\ UNCHANGED <<dataVars, excused>>

WriteEmail(q) ==
  /\ Is(q, "email", "checked") /\ Finish(q)
  /\ link' = IF post[q].link \in DOMAIN link THEN [link EXCEPT ![post[q].link].email = post[q].by] ELSE link
  /\ AtServer /\ UNCHANGED <<heart, note, serial, excused>>

-----------------------------------------------------------------------------
(* Downloads: one photo, or all in a zip (no photo), as the page offers them *)

Going(v, at) == nav[v] # None /\ nav[v].at = at
Pass(v, ok, at) == nav' = [nav EXCEPT ![v].at = IF ok THEN at ELSE "refused"]

Download(v) ==
  /\ nav[v] = None /\ view[v] # None /\ view[v].downloads
  /\ \E p \in view[v].photos \cup {None} :
       nav' = [nav EXCEPT ![v] = [link |-> view[v].link, photo |-> p, at |-> "sent", policy |-> "off", got |-> {}]]
  /\ OnVisit /\ UNCHANGED <<dataVars, cookie, entered, view, post, excused>>

AtDownload == UNCHANGED <<rowVars, page, call, edits, dataVars, rendered, cookie, entered, desk, post, heard, slipped, excused>>
AtRoute == AtDownload /\ UNCHANGED <<faults, view>>

\* The link, and its own switch.
CheckLink(v) ==
  /\ Going(v, "sent") /\ nav[v].link # None
  /\ Pass(v, LinkAnswers(v, nav[v].link) /\ link[nav[v].link].downloads, "linked")
  /\ AtRoute

\* The gallery's row is read once: its policy decides to the end.
CheckGallery(v) ==
  /\ Going(v, IF nav[v].link = None THEN "sent" ELSE "linked")
  /\ LET policy == IF gallery = None THEN "off"
                   ELSE IF nav[v].link = None THEN gallery.terms.publicDownloads ELSE gallery.terms.downloads
     IN IF policy # "off" /\ (nav[v].link = None => MayView(v))
        THEN nav' = [nav EXCEPT ![v].at = "allowed", ![v].policy = policy]
        ELSE nav' = [nav EXCEPT ![v].at = "refused"]
  /\ AtRoute

FindItem(v) ==
  /\ Going(v, "allowed") /\ nav[v].photo # None
  /\ Pass(v, InGallery(nav[v].photo), "held")
  /\ AtRoute

FindTarget(v) ==
  /\ Going(v, "held")
  /\ Pass(v, nav[v].photo \notin deleted /\ Target(nav[v].policy, nav[v].photo), "given")
  /\ AtRoute

\* Photos without the rendered copy are left out of a zip silently.
ZipItems(v) ==
  /\ Going(v, "allowed") /\ nav[v].photo = None
  /\ IF Live = {} THEN nav' = [nav EXCEPT ![v].at = "refused"]
     ELSE nav' = [nav EXCEPT ![v].at = "given", ![v].got = {p \in Live : Target(nav[v].policy, p)}]
  /\ AtRoute

Shut(v, w) == nav' = [nav EXCEPT ![v] = None] /\ view' = [view EXCEPT ![v] = w]

\* A file leaves the page as it is; a refusal is shown in its place.
ShowDownload(v) ==
  /\ \/ Going(v, "given") /\ Shut(v, view[v])
     \/ Going(v, "refused") /\ Shut(v, None)
  /\ AtDownload /\ UNCHANGED faults

\* Another click, or Escape, gives a navigation up.
Cancel(v) == nav[v] # None /\ Shut(v, view[v]) /\ AtDownload /\ UNCHANGED faults

LoseDownload(v) ==
  /\ faults > 0 /\ faults' = faults - 1
  /\ nav[v] # None /\ nav[v].at \in {"sent", "given", "refused"} /\ Shut(v, None)
  /\ AtDownload

-----------------------------------------------------------------------------
(* The studio's list of links and its inbox *)

OnDesk == Act /\ UNCHANGED <<rowVars, page, call, faults, dataVars, rendered, cookie, entered, view, nav, heard, slipped, excused>>
Flags == {"downloads", "favorite", "comment"}

ReloadLinks == Begin(None, "rows", None, None) /\ UNCHANGED desk /\ OnDesk
CreateLink == Begin(None, "create", None, None) /\ UNCHANGED desk /\ OnDesk

\* Revoke, or a box ticked or cleared as the list shows it.
PatchLink ==
  /\ \E l \in DOMAIN desk.rows : \E f \in Flags \cup {"revoked"} :
       /\ f = "revoked" => ~desk.rows[l].revoked
       /\ Free # {}
       /\ post' = [post EXCEPT ![CHOOSE q \in Free : TRUE] =
            [by |-> None, op |-> "patch", link |-> l, photo |-> None, at |-> "sent", mute |-> FALSE,
             read |-> {<<f, ~desk.rows[l][f]>>}]]
  /\ UNCHANGED desk /\ OnDesk

\* A link is folded out, and until its comments arrive those of the link
\* folded out before are shown under it.
ToggleExpand ==
  /\ \E l \in DOMAIN desk.rows :
       IF desk.open = l THEN desk' = [desk EXCEPT !.open = None, !.detail = {}] /\ UNCHANGED post
       ELSE desk' = [desk EXCEPT !.open = l] /\ Begin(None, "detail", l, None)
  /\ OnDesk

AtStudio == UNCHANGED <<rowVars, page, call, edits, faults, rendered, cookie, entered, view, nav, excused>>

Unread(l) == Cardinality({n \in NotesOf(l) : ~note[n].read})

ServeRows(q) ==
  /\ Is(q, "rows", "sent") /\ Finish(q)
  /\ desk' = [desk EXCEPT !.rows = [l \in DOMAIN link |-> LinkLine(link[l], Unread(l))]]
  /\ AtStudio /\ UNCHANGED <<dataVars, heard, slipped>>

Reload(q) == post' = [post EXCEPT ![q].op = "rows", ![q].at = "sent", ![q].read = {}]

ServePatchLink(q) ==
  /\ Is(q, "patch", "sent") /\ Reload(q)
  /\ link' = IF post[q].link \notin DOMAIN link THEN link
             ELSE [link EXCEPT ![post[q].link] = [f \in DOMAIN @ |->
                     IF \E x \in post[q].read : x[1] = f THEN (CHOOSE x \in post[q].read : TRUE)[2] ELSE @[f]]]
  /\ AtStudio /\ UNCHANGED <<heart, note, serial, desk, heard, slipped>>

ServeCreate(q) ==
  /\ Is(q, "create", "sent") /\ Reload(q)
  /\ IF gallery = None THEN UNCHANGED link
     ELSE \E l \in Link \ DOMAIN link :
            link' = Extend(link, l, [revoked |-> FALSE, expired |-> FALSE, guarded |-> FALSE, email |-> None,
                                     downloads |-> TRUE, favorite |-> TRUE, comment |-> TRUE])
  /\ AtStudio /\ UNCHANGED <<heart, note, serial, desk, heard, slipped>>

ReadInbox(q) ==
  /\ Is(q, "detail", "sent")
  /\ post' = [post EXCEPT ![q].at = "found", ![q].read = NotesOf(post[q].link)]
  /\ AtStudio /\ UNCHANGED <<dataVars, desk, heard, slipped>>

\* Mutant: the update has lost the clause on the link.
MarkAllRead(q) ==
  /\ Is(q, "detail", "found")
  /\ post' = [post EXCEPT ![q].at = "marked"]
  /\ note' = [n \in DOMAIN note |-> [note[n] EXCEPT !.read = TRUE]]
  /\ slipped' = slipped \cup {n \in NotesOf(post[q].link) : ~note[n].read /\ n \notin post[q].read}
  /\ AtStudio /\ UNCHANGED <<link, heart, serial, desk, heard>>

\* Marks whatever is unread by now, not what was read before.
MarkRead(q) ==
  /\ Is(q, "detail", "found")
  /\ post' = [post EXCEPT ![q].at = "marked"]
  /\ LET l == post[q].link IN
       /\ note' = [n \in DOMAIN note |-> IF note[n].link = l THEN [note[n] EXCEPT !.read = TRUE] ELSE note[n]]
       /\ slipped' = slipped \cup {n \in NotesOf(l) : ~note[n].read /\ n \notin post[q].read}
  /\ AtStudio /\ UNCHANGED <<link, heart, serial, desk, heard>>

ShowInbox(q) ==
  /\ Is(q, "detail", "marked") /\ Reload(q)
  /\ desk' = [desk EXCEPT !.detail = post[q].read] /\ heard' = heard \cup post[q].read
  /\ AtStudio /\ UNCHANGED <<dataVars, slipped>>

-----------------------------------------------------------------------------
\* Time passes, and a link expires.
Expire ==
  /\ \E l \in DOMAIN link : ~link[l].expired /\ link' = [link EXCEPT ![l].expired = TRUE]
  /\ OnVisit /\ UNCHANGED <<heart, note, serial, cookie, entered, view, nav, post, excused>>

\* A request, or its answer, is lost.
LosePost(q) ==
  /\ faults > 0 /\ faults' = faults - 1 /\ Finish(q)
  /\ post[q].at \in {"sent", "stored", "marked"}
  /\ excused' = IF post[q].op = "heart" THEN Contended(q) ELSE excused
  /\ slipped' = IF post[q].op = "detail" THEN slipped \cup (post[q].read \ heard) ELSE slipped
  /\ UNCHANGED <<rowVars, page, call, edits, dataVars, rendered, cookie, entered, view, nav, desk, heard>>

\* on delete cascade of the gallery's id and, under it, the links' ids.
Cascade ==
  IF gallery # None /\ gallery' = None
  THEN link' = << >> /\ heart' = << >> /\ note' = << >>
  ELSE UNCHANGED <<link, heart, note>>

ClientAct(v) == OpenLink(v) \/ GivePassword(v) \/ GiveGalleryPassword(v) \/ GiveEmail(v) \/ ToggleFavorite(v) \/ SendComment(v)
DownloadStep(v) ==
  \/ OpenPublic(v) \/ Download(v) \/ CheckLink(v) \/ CheckGallery(v) \/ FindItem(v) \/ FindTarget(v)
  \/ ZipItems(v) \/ ShowDownload(v) \/ Cancel(v) \/ LoseDownload(v)
DeskAct == ReloadLinks \/ CreateLink \/ PatchLink \/ ToggleExpand \/ Expire
ServePost(q) ==
  \/ CheckPost(q) \/ FindHeart(q) \/ WriteHeart(q) \/ InsertNote(q) \/ ShowNote(q) \/ CheckEmail(q)
  \/ WriteEmail(q) \/ ServeRows(q) \/ ServePatchLink(q) \/ ServeCreate(q) \/ ReadInbox(q)
  \/ MarkRead(q) \/ ShowInbox(q)

-----------------------------------------------------------------------------
\* Requests for the same photo excepted that overlapped, were refused or lost,
\* or came from two browsers, a client's page shows a favourite if and only if
\* it is stored, once the request has been served.
HeartsAgree ==
  \A v \in Visitor : view[v] # None /\ view[v].link # None /\ view[v].link \in DOMAIN link =>
    \A p \in Photo :
      ~Toggling(view[v].link, p) /\ <<v, p>> \notin excused
        => (p \in view[v].hearts <=> <<view[v].link, p>> \in DOMAIN heart)

\* The badge of a link counts every comment no inbox answer held: a comment is
\* marked read only if an answer brought or brings it, but for one stored while
\* the handler was between its read and its update, or whose answer was lost.
UnseenStaysUnread ==
  \A n \in DOMAIN note : note[n].read =>
    \/ n \in heard \cup slipped
    \/ \E q \in Post : Is(q, "detail", "marked") /\ n \in post[q].read

ClientTypeOK ==
  /\ DOMAIN link \subseteq Link /\ \A l \in DOMAIN link : link[l] \in LinkRow
  /\ DOMAIN heart \subseteq Link \X Photo /\ \A k \in DOMAIN heart : heart[k] \in Nat
  /\ DOMAIN note \subseteq Note /\ \A n \in DOMAIN note : note[n] \in NoteRow
  /\ cookie \subseteq Visitor \X Link /\ entered \subseteq Visitor /\ nav \in [Visitor -> {None} \cup Navigation]
  /\ desk.open \in Link \cup {None} /\ desk.detail \subseteq Note /\ DOMAIN desk.rows \subseteq Link
  /\ heard \subseteq Note /\ slipped \subseteq Note /\ excused \subseteq Visitor \X Photo
===============================================================================
