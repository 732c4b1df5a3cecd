---------------------------- MODULE GalleryEditor ----------------------------
(***************************************************************************)
(* The studio's page of one gallery, open in some tabs: the grid with its  *)
(* drags, selection and uploader, the lightbox, the settings form, and the *)
(* handlers behind them.  Every fetch is a call that is sent, served in    *)
(* steps, and answered later, in any order; saved orders are transactions  *)
(* that lock the rows they update.  A page shows what the load answered    *)
(* last held, so it is brought up to date by loads alone.                  *)
(***************************************************************************)
EXTENDS Integers, FiniteSets, Sequences

CONSTANTS Photo, Tab,
          Terms,   \* the other settings: visibility, downloads, publicDownloads
          Call,    \* fetches that may be under way at once
          None

VARIABLES position,   \* gallery_item.position, by photo
          deleted,    \* assets with deletedAt set
          marked,     \* photos with a watermarked copy: two "400" webp rows
          gallery,    \* the gallery row, None once deleted
          page,       \* what each tab holds
          call,       \* the fetches under way
          kept,       \* history: places in the order saved last, of photos there since
          edits,      \* bound: what the admin has still to do
          faults      \* bound: fetches still to be lost

editorVars == <<position, deleted, marked, gallery, page, call, kept, edits, faults>>

Sort == {"capture_date", "manual"}
Row == [sort : Sort, cover : Photo \cup {None}, terms : Terms, published : BOOLEAN]
Form == [sort : Sort, cover : Photo \cup {None}, terms : Terms]
NaN == -1       \* a remainder by zero
NoAsset == -1   \* the answer of a 404, taken for a photo's detail

\* box is the lightbox's index and drag the dragged one, from 1; 0 is null.
Page == [at : {"closed", "open", "crashed"}, row : Row \cup {None}, items : Seq(Photo),
         uploading : BOOLEAN, drag : Nat, box : Nat \cup {NaN}, detail : Photo \cup {None, NoAsset},
         bulk : BOOLEAN, chosen : SUBSET Photo, form : Form \cup {None},
         busy : SUBSET {"saving", "form", "deleting", "leaving"}]

Blank == [at |-> "closed", row |-> None, items |-> << >>, uploading |-> FALSE, drag |-> 0,
          box |-> 0, detail |-> None, bulk |-> FALSE, chosen |-> {}, form |-> None, busy |-> {}]

Elements(s) == {s[i] : i \in DOMAIN s}
\* A photo listed twice keeps the last of its places.
Place(s, p) == CHOOSE i \in DOMAIN s : s[i] = p /\ \A j \in DOMAIN s : s[j] = p => j <= i
Live == DOMAIN position \ deleted

\* What GET of the gallery may list: by position, equals in any order, and a
\* photo once for each "400" webp row it has.
Listings ==
  LET n == Cardinality(Live) + Cardinality(Live \cap marked)
      copies(p) == IF p \in marked THEN 2 ELSE 1
  IN {s \in [1 .. n -> Live] :
        /\ \A p \in Live : Cardinality({i \in 1 .. n : s[i] = p}) = copies(p)
        /\ \A i \in 1 .. n - 1 : position[s[i]] <= position[s[i + 1]]}

Lit(g) == IF g.box \in DOMAIN g.items THEN g.items[g.box] ELSE None
Shown(t) == page[t].at = "open" /\ page[t].row # None
Grid(t) == Shown(t) /\ page[t].form = None /\ Lit(page[t]) = None   \* nothing lies over it

Ask(t, op, arg) == [tab |-> t, op |-> op, arg |-> arg, at |-> "sent", mute |-> FALSE]
Idle == {c \in Call : call[c] = None}
Send(t, op, arg) ==
  /\ Idle # {}
  /\ call' = [call EXCEPT ![CHOOSE c \in Idle : TRUE] = Ask(t, op, arg)]
Act == edits > 0 /\ edits' = edits - 1
Put(t, fields) == page' = [page EXCEPT ![t] = [f \in DOMAIN @ |-> IF f \in DOMAIN fields THEN fields[f] ELSE @[f]]]

rowVars == <<position, deleted, marked, gallery, kept>>
OnPage == Act /\ UNCHANGED <<rowVars, faults>>

\* A page that has been open for a while, with nothing under way.
Loaded(s) == [Blank EXCEPT !.at = "open", !.row = s.gallery, !.items = s.items, !.uploading = s.uploading]

EditorInit(s) ==
  /\ position = [p \in Elements(s.items) |-> Place(s.items, p) - 1] /\ deleted = {} /\ marked = s.marked /\ gallery = s.gallery
  /\ page = [t \in Tab |-> IF t \in s.tabs THEN Loaded(s) ELSE Blank] /\ call = s.calls
  /\ kept = << >> /\ edits = s.edits /\ faults = s.faults

-----------------------------------------------------------------------------
(* What the admin does *)

\* Nothing answers a page that has been left, or that failed to draw.
Left(t) == [c \in Call |-> IF call[c] # None /\ call[c].tab = t THEN [call[c] EXCEPT !.mute = TRUE] ELSE call[c]]
Crash(t) == Put(t, [Blank EXCEPT !.at = "crashed"])

\* Uploads left from another visit, if there are any, open the uploader.
OpenPage(t) ==
  /\ page[t].at = "closed" /\ gallery # None
  /\ \E pending \in BOOLEAN : Put(t, [at |-> "open", uploading |-> pending])
  /\ Send(t, "load", None) /\ OnPage

\* A file dropped on the uploader ends with its photo added to the gallery.
Upload(t) ==
  /\ Grid(t) /\ (page[t].items = << >> \/ page[t].uploading)
  /\ \E p \in Photo \ deleted : Send(t, "add", p)
  /\ Put(t, [uploading |-> TRUE]) /\ OnPage

ToggleUploader(t) ==
  /\ Grid(t) /\ page[t].items # << >> /\ ~page[t].bulk
  /\ Put(t, [uploading |-> ~page[t].uploading]) /\ UNCHANGED call /\ OnPage

Patch(t, fields, isForm) == Send(t, "patch", [fields |-> fields, form |-> isForm, ok |-> FALSE])

SetCover(t) ==
  /\ Grid(t) /\ ~page[t].bulk
  /\ \E p \in Elements(page[t].items) \ {page[t].row.cover} : Patch(t, [cover |-> p], FALSE)
  /\ Put(t, [busy |-> page[t].busy \cup {"saving"}]) /\ OnPage

TogglePublished(t) ==
  /\ Grid(t) /\ "saving" \notin page[t].busy
  /\ Patch(t, [published |-> ~page[t].row.published], FALSE)
  /\ Put(t, [busy |-> page[t].busy \cup {"saving"}]) /\ OnPage

RemoveItem(t) ==
  /\ Grid(t) /\ ~page[t].bulk
  /\ \E p \in Elements(page[t].items) : Send(t, "remove", p)
  /\ UNCHANGED page /\ OnPage

\* next.splice(from, 1) and next.splice(to, 0, moved)
Moved(s, from, to) ==
  LET rest == SubSeq(s, 1, from - 1) \o SubSeq(s, from + 1, Len(s))
  IN SubSeq(rest, 1, to - 1) \o <<s[from]>> \o SubSeq(rest, to, Len(rest))

\* A dragged photo, or the one of the drag under way, passes over another.  A
\* load may have shortened the list under the drag: then undefined is
\* inserted, and the page cannot draw it.
DragOver(t) ==
  /\ Grid(t) /\ ~page[t].bulk
  /\ \E to \in DOMAIN page[t].items : \E from \in DOMAIN page[t].items \cup ({page[t].drag} \ {0}) :
       /\ from # to
       /\ IF from \in DOMAIN page[t].items
          THEN Put(t, [items |-> Moved(page[t].items, from, to), drag |-> to]) /\ UNCHANGED call
          ELSE Crash(t) /\ call' = Left(t)
  /\ OnPage

\* Also when the drag passed over nothing.
DragEnd(t) ==
  /\ Shown(t) /\ page[t].items # << >>
  /\ page[t].drag # 0 \/ (Grid(t) /\ ~page[t].bulk)
  /\ Put(t, [drag |-> 0])
  /\ Send(t, "order", [order |-> page[t].items, done |-> 0, held |-> {}]) /\ OnPage

Select(t) ==
  /\ Grid(t) /\ page[t].items # << >>
  /\ \/ ~page[t].bulk /\ Put(t, [bulk |-> TRUE])
     \/ page[t].bulk /\ Put(t, [bulk |-> FALSE, chosen |-> {}])
     \/ page[t].bulk /\ \E p \in Elements(page[t].items) :
          Put(t, [chosen |-> IF p \in page[t].chosen THEN page[t].chosen \ {p} ELSE page[t].chosen \cup {p}])
     \/ page[t].bulk /\ Put(t, [chosen |-> IF Cardinality(page[t].chosen) = Len(page[t].items)
                                           THEN {} ELSE Elements(page[t].items)])
  /\ UNCHANGED call /\ OnPage

DeleteChosen(t) ==
  /\ Grid(t) /\ page[t].bulk /\ page[t].chosen # {} /\ page[t].items # << >>
  /\ Send(t, "bulk", page[t].chosen) /\ UNCHANGED page /\ OnPage

OpenBox(t) ==
  /\ Grid(t) /\ ~page[t].bulk
  /\ \E i \in DOMAIN page[t].items :
       Put(t, [box |-> i, detail |-> None]) /\ Send(t, "detail", page[t].items[i])
  /\ OnPage

Beside(box, by, n) == IF n = 0 \/ box = NaN THEN NaN ELSE ((box - 1 + by + n) % n) + 1

\* detail?.asset.previewUrl throws where the answer had no asset.
Undrawable(g, lit) == g.detail = NoAsset /\ lit # None

\* The keys work even when the list no longer reaches the lightbox's index.
Navigate(t) ==
  /\ Shown(t) /\ page[t].box # 0
  /\ \E by \in {1, -1} :
       LET b == Beside(page[t].box, by, Len(page[t].items))
           lit == Lit([page[t] EXCEPT !.box = b])
           same == b = page[t].box \/ (lit = None /\ Lit(page[t]) = None)
       IN IF Undrawable(page[t], lit) THEN Crash(t) /\ call' = Left(t)
          ELSE /\ Put(t, [box |-> b, detail |-> IF same THEN page[t].detail ELSE None])
               /\ IF same \/ lit = None THEN UNCHANGED call ELSE Send(t, "detail", lit)
  /\ OnPage

\* A closed lightbox hears no answer.
WithoutDetails(t) ==
  [c \in Call |-> IF call[c] # None /\ call[c].tab = t /\ call[c].op = "detail" THEN None ELSE call[c]]

CloseBox(t) ==
  /\ Shown(t) /\ page[t].box # 0
  /\ Put(t, [box |-> 0, detail |-> None, busy |-> page[t].busy \ {"deleting"}])
  /\ call' = WithoutDetails(t) /\ OnPage

DeleteShown(t) ==
  /\ Shown(t) /\ Lit(page[t]) # None /\ "deleting" \notin page[t].busy
  /\ Put(t, [busy |-> page[t].busy \cup {"deleting"}])
  /\ Send(t, "trash", {Lit(page[t])}) /\ OnPage

OpenForm(t) ==
  /\ Grid(t)
  /\ Put(t, [form |-> [f \in {"sort", "cover", "terms"} |-> page[t].row[f]]])
  /\ UNCHANGED call /\ OnPage

EditSort(t) == \E sort \in Sort : Put(t, [form |-> [page[t].form EXCEPT !.sort = sort]])
EditCover(t) == \E p \in Live : Put(t, [form |-> [page[t].form EXCEPT !.cover = p]])
EditTerms(t) == \E terms \in Terms : Put(t, [form |-> [page[t].form EXCEPT !.terms = terms]])

EditForm(t) ==
  /\ Shown(t) /\ page[t].form # None
  /\ EditSort(t) \/ EditCover(t) \/ EditTerms(t)
  /\ UNCHANGED call /\ OnPage

\* The form sends all its fields, the ones nobody touched included.
SaveForm(t) ==
  /\ Shown(t) /\ page[t].form # None /\ "form" \notin page[t].busy
  /\ Patch(t, page[t].form, TRUE)
  /\ Put(t, [busy |-> page[t].busy \cup {"form", "saving"}]) /\ OnPage

CloseForm(t) ==
  /\ Shown(t) /\ page[t].form # None
  /\ Put(t, [form |-> None, busy |-> page[t].busy \ {"form"}]) /\ UNCHANGED call /\ OnPage

DeleteGallery(t) ==
  /\ Grid(t) /\ "leaving" \notin page[t].busy
  /\ Put(t, [busy |-> page[t].busy \cup {"leaving"}])
  /\ Send(t, "drop", None) /\ OnPage

-----------------------------------------------------------------------------
(* What the handlers do *)

Answer(c, arg) == call' = [call EXCEPT ![c].arg = arg, ![c].at = "done"]
Step(c, at, arg) == call' = [call EXCEPT ![c].arg = arg, ![c].at = at]
At(c, op, at) == call[c] # None /\ call[c].op = op /\ call[c].at = at

ReadGallery(c) ==
  /\ At(c, "load", "sent")
  /\ IF gallery = None THEN Answer(c, [row |-> None, items |-> << >>]) ELSE Step(c, "row", gallery)
  /\ UNCHANGED rowVars

ReadItems(c) ==
  /\ At(c, "load", "row")
  /\ \E s \in Listings : Answer(c, [row |-> call[c].arg, items |-> s])
  /\ UNCHANGED rowVars

ReadDetail(c) ==
  /\ At(c, "detail", "sent")
  /\ Answer(c, IF call[c].arg \in deleted THEN None ELSE call[c].arg)
  /\ UNCHANGED rowVars

Merged(row, fields) == [f \in DOMAIN row |-> IF f \in DOMAIN fields THEN fields[f] ELSE row[f]]

ServePatch(c) ==
  /\ At(c, "patch", "sent")
  /\ gallery' = IF gallery = None THEN None ELSE Merged(gallery, call[c].arg.fields)
  /\ Answer(c, [call[c].arg EXCEPT !.ok = gallery # None])
  /\ UNCHANGED <<position, deleted, marked, kept>>

ReadMax(c) ==
  /\ At(c, "add", "sent")
  /\ LET taken == {position[p] : p \in DOMAIN position}
         n == IF taken = {} THEN 0 ELSE 1 + CHOOSE m \in taken : \A k \in taken : k <= m
     IN Step(c, "max", <<call[c].arg, n>>)
  /\ UNCHANGED rowVars

\* On a conflict it does nothing; a gallery that is gone refuses the row.
InsertItem(c) ==
  /\ At(c, "add", "max")
  /\ LET p == call[c].arg[1] IN
       position' = IF gallery = None \/ p \in DOMAIN position THEN position
                   ELSE [q \in DOMAIN position \cup {p} |-> IF q = p THEN call[c].arg[2] ELSE position[q]]
  /\ Answer(c, call[c].arg) /\ UNCHANGED <<deleted, marked, gallery, kept>>

\* Rows a transaction has updated are locked until it ends.
Holds(c) == IF At(c, "order", "sent") THEN call[c].arg.held ELSE {}
Unlocked(p, c) == \A d \in Call \ {c} : p \notin Holds(d)
Next1(c) == call[c].arg.order[call[c].arg.done + 1]
Waits(c) == At(c, "order", "sent") /\ call[c].arg.done < Len(call[c].arg.order) /\ ~Unlocked(Next1(c), c)

UpdateRow(c) ==
  /\ At(c, "order", "sent") /\ call[c].arg.done < Len(call[c].arg.order) /\ ~Waits(c)
  /\ call' = [call EXCEPT ![c].arg.done = @ + 1,
                          ![c].arg.held = @ \cup ({Next1(c)} \cap DOMAIN position)]
  /\ UNCHANGED rowVars

Places(s, S) == [p \in S |-> Place(s, p) - 1]

\* Mutant: without a transaction each row is stored by itself.
CommitByRow(c) ==
  /\ At(c, "order", "sent") /\ call[c].arg.done = Len(call[c].arg.order)
  /\ LET a == call[c].arg IN
       \E p \in a.held :
         /\ position' = [position EXCEPT ![p] = Place(a.order, p) - 1]
         /\ IF a.held = {p} THEN kept' = Places(a.order, Elements(a.order) \cap DOMAIN position) /\ Answer(c, [a EXCEPT !.held = {}])
            ELSE UNCHANGED kept /\ Step(c, "sent", [a EXCEPT !.held = @ \ {p}])
  /\ UNCHANGED <<deleted, marked, gallery>>

CommitOrder(c) ==
  /\ At(c, "order", "sent") /\ call[c].arg.done = Len(call[c].arg.order)
  /\ LET a == call[c].arg IN
       /\ position' = [p \in DOMAIN position |-> IF p \in a.held THEN Places(a.order, a.held)[p] ELSE position[p]]
       /\ gallery' = IF gallery = None \/ a.order = << >> THEN gallery ELSE [gallery EXCEPT !.sort = "manual"]
       /\ kept' = IF a.held = {} THEN kept ELSE Places(a.order, a.held)
       /\ Answer(c, [a EXCEPT !.held = {}])
  /\ UNCHANGED <<deleted, marked>>

\* Two transactions that wait for each other: the database ends one.
AbortOrder(c) ==
  /\ Waits(c) /\ \E d \in Call \ {c} : Waits(d) /\ Next1(c) \in Holds(d) /\ Next1(d) \in Holds(c)
  /\ Answer(c, [call[c].arg EXCEPT !.held = {}]) /\ UNCHANGED rowVars

Without(f, p) == [q \in DOMAIN f \ {p} |-> f[q]]

ServeRemove(c) ==
  /\ At(c, "remove", "sent") /\ Unlocked(call[c].arg, c)
  /\ position' = Without(position, call[c].arg)
  /\ kept' = Without(kept, call[c].arg)
  /\ Answer(c, call[c].arg) /\ UNCHANGED <<deleted, marked, gallery>>

\* Photos chosen together are deleted by requests of their own, in any order.
ServeDelete(c) ==
  /\ At(c, "bulk", "sent") \/ At(c, "trash", "sent")
  /\ \E p \in call[c].arg :
       /\ deleted' = deleted \cup {p}
       /\ IF call[c].arg = {p} THEN Answer(c, {}) ELSE Step(c, "sent", call[c].arg \ {p})
  /\ UNCHANGED <<position, marked, gallery, kept>>

ServeDrop(c) ==
  /\ At(c, "drop", "sent") /\ \A p \in DOMAIN position : Unlocked(p, c)
  /\ gallery' = None /\ position' = << >> /\ kept' = << >>
  /\ Answer(c, None) /\ UNCHANGED <<deleted, marked>>

Serve(c) ==
  /\ \/ ReadGallery(c) \/ ReadItems(c) \/ ReadDetail(c) \/ ServePatch(c)
     \/ ReadMax(c) \/ InsertItem(c) \/ UpdateRow(c) \/ CommitOrder(c) \/ AbortOrder(c)
     \/ ServeRemove(c) \/ ServeDelete(c) \/ ServeDrop(c)
  /\ UNCHANGED <<page, edits, faults>>

-----------------------------------------------------------------------------
(* What the page does with an answer *)

Then(c, op, arg) == call' = [call EXCEPT ![c] = Ask(call[c].tab, op, arg)]
End(c) == call' = [call EXCEPT ![c] = None]
Done(c, op) == At(c, op, "done") /\ ~call[c].mute

\* New objects in the list make the lightbox fetch the detail again, and
\* answers to its earlier fetches are not called off.
ShowList(c) ==
  /\ Done(c, "load")
  /\ LET t == call[c].tab
         new == [page[t] EXCEPT !.row = call[c].arg.row, !.items = call[c].arg.items]
         unlit == Lit(new) = None /\ Lit(page[t]) = None
     IN IF new.row # None /\ Undrawable(page[t], Lit(new)) THEN Crash(t) /\ call' = [Left(t) EXCEPT ![c] = None]
        ELSE /\ page' = [page EXCEPT ![t] = IF unlit /\ new.row # None THEN new ELSE [new EXCEPT !.detail = None]]
             /\ IF new.row = None THEN call' = [WithoutDetails(t) EXCEPT ![c] = None]
                ELSE IF Lit(new) = None THEN End(c) ELSE Then(c, "detail", Lit(new))

\* The answer for a photo deleted meanwhile has no asset to draw.  It may come
\* while the index is beyond the list and nothing is drawn.
ShowDetail(c) ==
  /\ Done(c, "detail")
  /\ LET t == call[c].tab
         answer == IF call[c].arg = None THEN NoAsset ELSE call[c].arg
     IN IF answer = NoAsset /\ Lit(page[t]) # None THEN Crash(t) /\ call' = [Left(t) EXCEPT ![c] = None]
        ELSE Put(t, [detail |-> answer]) /\ End(c)

AfterPatch(c) ==
  /\ Done(c, "patch")
  /\ LET g == page[call[c].tab] IN
       IF call[c].arg.form THEN Put(call[c].tab, [form |-> None, busy |-> g.busy \ {"form", "saving"}])
       ELSE Put(call[c].tab, [busy |-> g.busy \ {"saving"}])
  /\ IF call[c].arg.ok THEN Then(c, "load", None) ELSE End(c)

AfterChange(c) ==
  /\ Done(c, "remove") \/ Done(c, "order") \/ Done(c, "add")
  /\ Then(c, "load", None) /\ UNCHANGED page

AfterBulk(c) ==
  /\ Done(c, "bulk") /\ Put(call[c].tab, [bulk |-> FALSE, chosen |-> {}]) /\ Then(c, "load", None)

AfterDelete(c) ==
  /\ Done(c, "trash")
  /\ LET t == call[c].tab IN
       /\ Put(t, [box |-> 0, detail |-> None, busy |-> page[t].busy \ {"deleting"}])
       /\ call' = [WithoutDetails(t) EXCEPT ![c] = Ask(t, "load", None)]

AfterDrop(c) ==
  /\ Done(c, "drop")
  /\ page' = [page EXCEPT ![call[c].tab] = Blank]
  /\ call' = [Left(call[c].tab) EXCEPT ![c] = None]

Unheard(c) == call[c] # None /\ call[c].at = "done" /\ call[c].mute /\ End(c) /\ UNCHANGED page

Hear(c) ==
  /\ \/ ShowList(c) \/ ShowDetail(c) \/ AfterPatch(c) \/ AfterChange(c) \/ AfterBulk(c)
     \/ AfterDelete(c) \/ AfterDrop(c) \/ Unheard(c)
  /\ UNCHANGED <<rowVars, edits, faults>>

\* A fetch that rejects, before or after it reached the server: what follows
\* it on the page does not happen.
LoseCall(c) ==
  /\ faults > 0 /\ faults' = faults - 1
  /\ call[c] # None /\ ~call[c].mute
  /\ \/ call[c].at = "sent" /\ Holds(c) = {} /\ End(c)
     \/ call' = [call EXCEPT ![c].mute = TRUE]
  /\ UNCHANGED <<rowVars, page, edits>>

\* Mutant: no polls while something the admin asked for is under way.
PollWhenIdle(t) ==
  /\ page[t].at = "open" /\ page[t].uploading /\ page[t].busy = {}
  /\ Send(t, "load", None)
  /\ UNCHANGED <<rowVars, page, edits, faults>>

\* Every 4 seconds while the uploader is open, and on its progress.
Poll(t) ==
  /\ page[t].at = "open" /\ page[t].uploading
  /\ Send(t, "load", None)
  /\ UNCHANGED <<rowVars, page, edits, faults>>

Ordering(t) == DragOver(t) \/ DragEnd(t)
Filling(t) == Upload(t) \/ ToggleUploader(t) \/ RemoveItem(t)
Choosing(t) == Select(t) \/ DeleteChosen(t)
Looking(t) == OpenBox(t) \/ Navigate(t) \/ CloseBox(t) \/ DeleteShown(t)
Setting(t) == OpenForm(t) \/ EditForm(t) \/ SaveForm(t) \/ CloseForm(t) \/ SetCover(t) \/ TogglePublished(t)
Coming(t) == OpenPage(t) \/ DeleteGallery(t)

-----------------------------------------------------------------------------
\* What a call carries: what it asks, and later what it has read or answers.
Argument(op, at) ==
  CASE op = "load" /\ at = "sent" -> {None}
    [] op = "load" /\ at = "row" -> Row
    [] op = "load" /\ at = "done" -> [row : Row \cup {None}, items : Seq(Photo)]
    [] op = "detail" -> Photo \cup {None}
    [] op = "patch" -> [fields : Form \cup [cover : Photo] \cup [published : BOOLEAN], form : BOOLEAN, ok : BOOLEAN]
    [] op = "add" /\ at # "sent" -> Photo \X Nat
    [] op = "order" -> [order : Seq(Photo), done : Nat, held : SUBSET Photo]
    [] op \in {"bulk", "trash"} -> SUBSET Photo
    [] op = "drop" -> {None}
    [] OTHER -> Photo

EditorTypeOK ==
  /\ DOMAIN position \subseteq Photo /\ \A p \in DOMAIN position : position[p] \in Nat
  /\ deleted \subseteq Photo /\ marked \subseteq Photo
  /\ gallery \in Row \cup {None}
  /\ page \in [Tab -> Page]
  /\ \A c \in Call : call[c] # None =>
       /\ call[c].tab \in Tab /\ call[c].mute \in BOOLEAN
       /\ call[c].arg \in Argument(call[c].op, call[c].at)
  /\ DOMAIN kept \subseteq Photo /\ (\A p \in DOMAIN kept : kept[p] \in Nat) /\ edits \in Nat /\ faults \in Nat
=============================================================================
