------------------------------- MODULE MCStudio -------------------------------
EXTENDS Studio, TLC

CONSTANTS p1, p2, p3, t1, t2, v1, v2, l1, l2, c1, c2

Term(v, d, o) == [visibility |-> v, downloads |-> d, publicDownloads |-> o]
Open == Term("public", "web", "web")
Locked == Term("password", "original", "original")
Hidden == Term("private", "off", "off")
AllTerms == {Open, Locked, Hidden}

Drafted == [sort |-> "capture_date", cover |-> None, terms |-> Open, published |-> FALSE]
LinkFor(who, guarded) ==
  [revoked |-> FALSE, expired |-> FALSE, guarded |-> guarded, email |-> who,
   downloads |-> TRUE, favorite |-> TRUE, comment |-> TRUE]

Scenario(who, list, n, lost) ==
  [crew |-> who, items |-> list, marked |-> {}, gallery |-> Drafted, tabs |-> who \cap Tab, uploading |-> FALSE,
   edits |-> n, faults |-> lost, links |-> << >>, rendered |-> {p1}, calls |-> [c \in Call |-> None]]

\* Two orders saved at once, from any two drags of the list, while an admin
\* removes or adds a photo.
Saving(t, s) == Ask(t, "order", [order |-> s, done |-> 0, held |-> {}])
Orders == {s \in [1 .. 3 -> Photo] : Elements(s) = Photo}
DragScenes == {[Scenario({t1, "filling"}, <<p1, p2, p3>>, 1, 0) EXCEPT
                  !.calls = (c1 :> Saving(t1, s)) @@ (c2 :> Saving(t2, <<p3, p2, p1>>))] : s \in Orders}
Polled(who, list, n, lost) == [Scenario(who, list, n, lost) EXCEPT !.uploading = TRUE]
\* A page that polls while its own admin, or one at another tab, works.
WatchScenes == {Polled({t1, "ordering", "filling"}, <<p1, p2>>, 3, 0),
                Scenario({t1, t2, "looking"}, <<p1>>, 4, 0),
                Polled({t1, t2, "looking"}, <<p1, p2>>, 2, 0),
                Polled({t1, "looking"}, <<p1, p2, p3>>, 3, 1),
                [Polled({t1, "choosing", "ordering"}, <<p1, p2, p1>>, 3, 0) EXCEPT !.marked = {p1}],
                [Scenario({t1, "coming", "filling"}, << >>, 3, 0) EXCEPT !.tabs = {}]}
FormScenes == {Scenario({t1, "setting"}, <<p1>>, 3, 1), Polled({t1, t2, "setting", "coming"}, <<p1>>, 2, 0)}
\* Two browsers on one link.
HeartScenes == {[Scenario({v1, v2}, <<p1, p2>>, 4, 1) EXCEPT !.links = (l1 :> LinkFor(v1, FALSE))]}
InboxScenes == {[Scenario({v1, "desk"}, <<p1>>, 3, 1) EXCEPT !.links = (l1 :> LinkFor(v1, FALSE)) @@ (l2 :> LinkFor(v1, FALSE))]}
\* The gallery is deleted at one tab while its links are in use.
DropScenes == {[Scenario({t1, v1, "coming", "desk"}, <<p1>>, 3, 0) EXCEPT !.links = (l1 :> LinkFor(v1, FALSE))]}
\* A visitor downloads from the public page and from a link, of a gallery with
\* a photo and a video, while an admin edits its terms, removes photos, deletes
\* it, or patches the link; the passwords and the email are asked for first.
AtGallery(who, n, terms) ==
  [Scenario({v1} \cup who, <<p1, p2>>, n, 1) EXCEPT !.links = (l1 :> LinkFor(v1, FALSE)),
     !.gallery.published = TRUE, !.gallery.terms = terms]
OfferScenes ==
  {AtGallery(who, 3, Open) : who \in {{t1, "filling"}, {"desk"}}}
  \cup {AtGallery({}, 2, Hidden), AtGallery({t1, "setting"}, 4, Open)}
  \cup {[AtGallery({t1, "coming"}, 4, Locked) EXCEPT !.links = (l1 :> LinkFor(None, TRUE))]}
Scenes == DragScenes \cup WatchScenes \cup FormScenes \cup HeartScenes \cup InboxScenes \cup DropScenes \cup OfferScenes
===============================================================================
