------------------------------ MODULE FolderDrop ------------------------------
(***************************************************************************)
(* Dropping directories on a folder's page: organizeDroppedFiles finds or  *)
(* creates a folder for every directory and a gallery for the last one,    *)
(* asking the server each time, while other drops and the studio change    *)
(* the same tree.  Where the files then go is UploadPage's business.       *)
(***************************************************************************)
EXTENDS SiteTree

CONSTANTS Drop,
          Entries,     \* [Drop -> sequence of directory paths], one per file, in order
          NoGallery,   \* a loose file: resolveGalleryId decides
          MaxGlitches  \* bound: requests of drops that fail on the network

\* A drop brings at least one file.
ASSUME DropAssumption == Entries \in [Drop -> Seq(Seq(Title)) \ {<< >>}] /\ MaxGlitches \in Nat

VARIABLES drop,        \* where organizeDroppedFiles is, per drop
          glitches     \* failures still to come

dropVars == <<drop, glitches>>

\* The drop is made on the page of a folder; target is what the cache of
\* galleries by path holds, failed (history) whether one of its requests did.
Idle == [at |-> "idle", base |-> NoFolder, entry |-> 1, level |-> 1, parent |-> NoFolder,
         visibility |-> "public", failed |-> FALSE, target |-> << >>]

Path(d) == Entries[d][drop[d].entry]
Name(d) == Path(d)[drop[d].level]
AtGallery(d) == drop[d].level = Len(Path(d))

\* Mutant: folders are looked up by title only, wherever they are.
HomonymsAnywhere(d) ==
  IF AtGallery(d)
  THEN {g \in DOMAIN galleries : /\ galleries[g].folder = drop[d].parent
                                 /\ FoldOf[galleries[g].title] = FoldOf[Name(d)]}
  ELSE {f \in DOMAIN folders : FoldOf[folders[f].title] = FoldOf[Name(d)]}

\* The rows of a listing that carry the name, in any case.
Homonyms(d) ==
  IF AtGallery(d)
  THEN {g \in DOMAIN galleries : /\ galleries[g].folder = drop[d].parent
                                 /\ FoldOf[galleries[g].title] = FoldOf[Name(d)]}
  ELSE {f \in Children(drop[d].parent) : FoldOf[folders[f].title] = FoldOf[Name(d)]}

\* The loop over the files goes on to the next whose directory has no gallery yet.
NextEntry(d, done, from) ==
  {i \in from..Len(Entries[d]) : /\ Entries[d][i] \notin done \cup {<< >>}
                                 /\ \A j \in from..(i - 1) : Entries[d][j] \in done \cup {<< >>}}

GoOn(d, base, target, from) ==
  LET next == NextEntry(d, DOMAIN target, from)
  IN  drop' = [drop EXCEPT ![d] =
        IF next = {} THEN [drop[d] EXCEPT !.at = "done", !.base = base, !.target = target]
        ELSE [drop[d] EXCEPT !.at = "list", !.base = base, !.target = target, !.level = 1,
                             !.parent = base, !.entry = CHOOSE i \in next : TRUE]]

\* The folder or gallery of this segment is found or made.
Enter(d, x) ==
  IF AtGallery(d)
  THEN GoOn(d, drop[d].base, [p \in DOMAIN drop[d].target \cup {Path(d)} |->
                                IF p = Path(d) THEN x ELSE drop[d].target[p]], drop[d].entry + 1)
  ELSE drop' = [drop EXCEPT ![d].at = "list", ![d].level = drop[d].level + 1, ![d].parent = x]

Turn(d, at) == drop' = [drop EXCEPT ![d].at = at]
Fail(d, at) == /\ glitches > 0 /\ glitches' = glitches - 1
               /\ drop' = [drop EXCEPT ![d].at = at, ![d].failed = TRUE]

-----------------------------------------------------------------------------
DropInit(n) == drop = [d \in Drop |-> Idle] /\ glitches = n

\* readDroppedFiles, then resolveFilesToUpload: without a directory among the
\* files nothing is organized.
StartDrop(d, f) ==
  /\ drop[d].at = "idle" /\ f \in DOMAIN folders
  /\ GoOn(d, f, << >>, 1)
  /\ UNCHANGED <<glitches, treeVars>>

\* The first listing of findOrCreateFolder or findOrCreateGallery.
ListNames(d) ==
  /\ drop[d].at = "list"
  /\ IF Homonyms(d) # {} THEN \E x \in Homonyms(d) : Enter(d, x) ELSE Turn(d, "post")
  /\ UNCHANGED <<glitches, treeVars>>

\* The handler of the POST reads what is reachable ...
PostName(d) ==
  /\ drop[d].at = "post"
  /\ drop' = [drop EXCEPT ![d].at = "insert", ![d].visibility = DefaultVisibility(drop[d].parent)]
  /\ UNCHANGED <<glitches, treeVars>>

\* ... and inserts; the answer may be lost on its way back.
InsertName(d) ==
  /\ drop[d].at = "insert"
  /\ \E x \in Folder \cup Gallery :
       /\ IF AtGallery(d)
          THEN x \in Gallery /\ InsertGallery(x, drop[d].parent, Name(d), drop[d].visibility)
          ELSE x \in Folder /\ InsertFolder(x, drop[d].parent, Name(d), drop[d].visibility)
       /\ \/ Enter(d, x) /\ UNCHANGED glitches
          \/ Fail(d, "relist")
  /\ UNCHANGED <<items, deleted, redirects, post, edits, reshaped>>

\* Mutant: a 409 is an error like any other.
InsertGivenUp(d) ==
  /\ drop[d].at = "insert"
  /\ IF AtGallery(d) THEN ~ CanInsertGallery(drop[d].parent, Name(d))
                     ELSE ~ CanInsertFolder(drop[d].parent, Name(d))
  /\ Turn(d, "lost")
  /\ UNCHANGED <<glitches, treeVars>>

\* 409 or any other failure: look again.
InsertRefused(d) ==
  /\ drop[d].at = "insert"
  /\ IF AtGallery(d) THEN ~ CanInsertGallery(drop[d].parent, Name(d))
                     ELSE ~ CanInsertFolder(drop[d].parent, Name(d))
  /\ Turn(d, "relist")
  /\ UNCHANGED <<glitches, treeVars>>

\* The second listing; nobody catches what it throws, and the drop is gone.
Relist(d) ==
  /\ drop[d].at = "relist"
  /\ IF Homonyms(d) # {} THEN \E x \in Homonyms(d) : Enter(d, x) ELSE Turn(d, "lost")
  /\ UNCHANGED <<glitches, treeVars>>

\* A listing that fails throws; a POST that fails on its way there leads to
\* the second listing.
RequestFails(d) ==
  /\ \/ drop[d].at \in {"list", "relist"} /\ Fail(d, "lost")
     \/ drop[d].at = "post" /\ Fail(d, "relist")
  /\ UNCHANGED treeVars

DropNext == \E d \in Drop :
  \/ \E f \in DOMAIN folders : StartDrop(d, f)
  \/ ListNames(d) \/ PostName(d) \/ InsertName(d) \/ InsertRefused(d) \/ Relist(d)
  \/ RequestFails(d)

-----------------------------------------------------------------------------
DropTypeOK ==
  /\ \A d \in Drop :
       /\ drop[d].at \in {"idle", "list", "post", "insert", "relist", "done", "lost"}
       /\ drop[d].base \in Folder \cup {NoFolder} /\ drop[d].parent \in Folder \cup {NoFolder}
       /\ drop[d].entry \in 1..Len(Entries[d]) /\ drop[d].visibility \in Visibility
       /\ DOMAIN drop[d].target \subseteq {Entries[d][i] : i \in DOMAIN Entries[d]} \ {<< >>}
       /\ \A p \in DOMAIN drop[d].target : drop[d].target[p] \in Gallery
  /\ glitches \in 0..MaxGlitches

\* Where a file of a finished drop goes.
Target(d, i) == IF Entries[d][i] \in DOMAIN drop[d].target THEN drop[d].target[Entries[d][i]] ELSE NoGallery

\* The titles from below the base folder of a drop down to a gallery.
TitlesBelow(base, g) ==
  LET chain == Chain[galleries[g].folder]
      n == Len(Chain[base])
  IN  [i \in 1..(Len(chain) - n + 1) |->
         IF i <= Len(chain) - n THEN FoldOf[folders[chain[n + i]].title] ELSE FoldOf[galleries[g].title]]

Folded(path) == [k \in DOMAIN path |-> FoldOf[path[k]]]

\* When a drop is organized, every file from a directory goes to the gallery
\* whose folders and title spell its path below the folder it was dropped on,
\* and drops with the same path on the same folder agree on it, whoever created
\* what first; unless something was renamed or deleted meanwhile.
FilesLandByPath ==
  ~ reshaped =>
    \A d \in Drop : drop[d].at = "done" =>
      \A i \in DOMAIN Entries[d] :
        LET g == Target(d, i) IN
          IF Entries[d][i] = << >> THEN g = NoGallery
          ELSE /\ g \in DOMAIN galleries
               /\ TitlesBelow(drop[d].base, g) = Folded(Entries[d][i])
               /\ \A e \in Drop : \A j \in DOMAIN Entries[e] :
                    drop[e].at = "done" /\ drop[e].base = drop[d].base
                      /\ Folded(Entries[e][j]) = Folded(Entries[d][i]) => Target(e, j) = g

\* findOrCreateFolder's "race-tolerant": a drop that loses every race is not
\* refused for it.  It is lost only if one of its requests failed, something was renamed
\* or deleted, or a sibling with another title has the slug of a name of the drop.
RacesAreHarmless ==
  \A d \in Drop :
    drop[d].at = "lost" /\ ~ reshaped /\ ~ drop[d].failed =>
      \/ \E f \in DOMAIN folders : folders[f].parent = drop[d].parent /\ folders[f].slug = SlugOf[Name(d)]
           /\ FoldOf[folders[f].title] # FoldOf[Name(d)]
      \/ \E g \in DOMAIN galleries : galleries[g].folder = drop[d].parent /\ galleries[g].slug = SlugOf[Name(d)]
           /\ FoldOf[galleries[g].title] # FoldOf[Name(d)]
==============================================================================
