----------------------------- MODULE MoveProofs ------------------------------
(***************************************************************************)
(* What is proved of what moves photos into the tree inside Site -- drops  *)
(* of directories, and the scripts that import, adopt and queue again, for *)
(* every set of them and whatever the studio does meanwhile.               *)
(***************************************************************************)
EXTENDS SiteProofs, WellFoundedInduction

-----------------------------------------------------------------------------
(* Rows that stay: as long as nothing is renamed or deleted.               *)

FolderStays(f) ==
  /\ f \in DOMAIN folders' /\ folders'[f].parent = folders[f].parent
  /\ folders'[f].slug = folders[f].slug /\ folders'[f].title = folders[f].title
GalleryStays(g) ==
  /\ g \in DOMAIN galleries' /\ galleries'[g].folder = galleries[g].folder
  /\ galleries'[g].slug = galleries[g].slug /\ galleries'[g].title = galleries[g].title

RowsStay ==
  /\ reshaped => reshaped'
  /\ ~ reshaped' => /\ \A f \in DOMAIN folders : FolderStays(f)
                    /\ \A g \in DOMAIN galleries : GalleryStays(g)

LEMMA SameRowsStay == ASSUME UNCHANGED <<folders, galleries, reshaped>> PROVE RowsStay
  BY DEF RowsStay, FolderStays, GalleryStays

LEMMA NewFolderStays ==
  ASSUME Tree, NEW f, NEW p, NEW t, NEW v, InsertFolder(f, p, t, v), UNCHANGED reshaped
  PROVE  RowsStay /\ f \in DOMAIN folders'
<1>1. f \notin DOMAIN folders
  BY DEF Tree, Whole, InsertFolder
<1>2. f \in DOMAIN folders' /\ galleries' = galleries
  BY DEF InsertFolder
<1>3. \A x \in DOMAIN folders : x \in DOMAIN folders' /\ folders'[x] = folders[x]
  BY <1>1 DEF InsertFolder
<1> QED BY <1>2, <1>3 DEF RowsStay, FolderStays, GalleryStays

LEMMA NewGalleryStays ==
  ASSUME Tree, NEW g, NEW p, NEW t, NEW v, InsertGallery(g, p, t, v), UNCHANGED reshaped
  PROVE  RowsStay /\ g \in DOMAIN galleries'
<1>1. g \notin DOMAIN galleries
  BY DEF Tree, Whole, InsertGallery
<1>2. g \in DOMAIN galleries' /\ folders' = folders
  BY DEF InsertGallery
<1>3. \A x \in DOMAIN galleries : x \in DOMAIN galleries' /\ galleries'[x] = galleries[x]
  BY <1>1 DEF InsertGallery
<1> QED BY <1>2, <1>3 DEF RowsStay, FolderStays, GalleryStays

\* Visibility and publishing are all that a row may change.
LEMMA SetGalleryStays ==
  ASSUME NEW g, NEW v, NEW p,
         SetGallery(g, [folder |-> galleries[g].folder, title |-> galleries[g].title, slug |-> galleries[g].slug,
                        visibility |-> v, published |-> p]),
         UNCHANGED <<folders, reshaped>>
  PROVE  RowsStay
  BY DEF SetGallery, RowsStay, FolderStays, GalleryStays

LEMMA StudioRowsStay == ASSUME Tree, TreeNext PROVE RowsStay
<1>1. ASSUME NEW p, NEW t, NEW v, PostFolder(p, t, v) PROVE RowsStay
  BY <1>1, SameRowsStay DEF PostFolder
<1>2. ASSUME NEW p, NEW t, PostGallery(p, t) PROVE RowsStay
  BY <1>2, SameRowsStay DEF PostGallery
<1>3. ASSUME PostInserts PROVE RowsStay
  BY <1>3, NewFolderStays, NewGalleryStays DEF PostInserts
<1>4. ASSUME PostRefused PROVE RowsStay
  BY <1>4, SameRowsStay DEF PostRefused
<1>5. ASSUME NEW f, NEW v, ShowFolder(f, v) PROVE RowsStay
  BY <1>5 DEF ShowFolder, SetFolder, RowsStay, FolderStays, GalleryStays
<1>6. ASSUME NEW f, NEW t, RenameFolder(f, t) PROVE RowsStay
  BY <1>6 DEF RenameFolder, RowsStay
<1>7. ASSUME NEW g, NEW v, NEW p, ShowGallery(g, v, p) PROVE RowsStay
  BY <1>7, SetGalleryStays DEF ShowGallery
<1>8. ASSUME NEW g, NEW t, RenameGallery(g, t) PROVE RowsStay
  BY <1>8 DEF RenameGallery, RowsStay
<1>9. ASSUME NEW a, DeletePhoto(a) PROVE RowsStay
  BY <1>9, SameRowsStay DEF DeletePhoto
<1>10. ASSUME NEW f, DeleteFolder(f) PROVE RowsStay
  BY <1>10 DEF DeleteFolder, RowsStay
<1>11. ASSUME NEW g, DeleteGallery(g) PROVE RowsStay
  BY <1>11 DEF DeleteGallery, RowsStay
<1> QED BY <1>1, <1>2, <1>3, <1>4, <1>5, <1>6, <1>7, <1>8, <1>9, <1>10, <1>11 DEF TreeNext

LEMMA ImportRowsStay == ASSUME Tree, ImportNext PROVE RowsStay
<1>1. ASSUME MakeFolder PROVE RowsStay
  BY <1>1, NewFolderStays DEF MakeFolder
<1>2. ASSUME MakeGallery PROVE RowsStay
  BY <1>2, NewGalleryStays DEF MakeGallery
<1>3. ASSUME PublishGallery PROVE RowsStay
  <2>1. CASE import.gallery \in DOMAIN galleries
    BY <1>3, <2>1, SetGalleryStays DEF PublishGallery
  <2>2. CASE import.gallery \notin DOMAIN galleries
    BY <1>3, <2>2, SameRowsStay DEF PublishGallery
  <2> QED BY <2>1, <2>2
<1>4. ASSUME ImportNext, ~ MakeFolder, ~ MakeGallery, ~ PublishGallery PROVE RowsStay
  <2>1. UNCHANGED <<folders, galleries, reshaped>>
    BY <1>4 DEF ImportNext, StartImport, BeginAlbum, FindFolder, FindGallery, StoreImage, UpsertImage,
       QueueImage, BeginItems, InsertItem, WriteRedirect, FinishImport, CrashImport, treeVars
  <2> QED BY <2>1, SameRowsStay
<1> QED BY <1>1, <1>2, <1>3, <1>4

LEMMA ScriptsLeaveRows == ASSUME ScanNext \/ ResetNext \/ WorkerNext \/ OperatorNext PROVE UNCHANGED treeVars
  BY DEF ScanNext, StartScan, ScanRows, CopyOrphan, DeleteOrphan, AdoptOrphan, QueueOrphan, FinishScan,
     CrashScan, ResetNext, StartReset, ResetRow, RequeueRow, FinishReset, CrashReset, WorkerNext, IngestJob,
     OperatorNext, TurnMonth, Migrate

-----------------------------------------------------------------------------
(* Drops that lose a race.                                                 *)

\* A row has the slug that the name of the drop wants.
Taken(d) ==
  IF AtGallery(d)
  THEN \E g \in DOMAIN galleries : galleries[g].folder = drop[d].parent /\ galleries[g].slug = SlugOf[Name(d)]
  ELSE \E f \in DOMAIN folders : folders[f].parent = drop[d].parent /\ folders[f].slug = SlugOf[Name(d)]

\* ... and another title than the drop looks for.
Clashing(d) ==
  \/ \E f \in DOMAIN folders : folders[f].parent = drop[d].parent /\ folders[f].slug = SlugOf[Name(d)]
       /\ FoldOf[folders[f].title] # FoldOf[Name(d)]
  \/ \E g \in DOMAIN galleries : galleries[g].folder = drop[d].parent /\ galleries[g].slug = SlugOf[Name(d)]
       /\ FoldOf[galleries[g].title] # FoldOf[Name(d)]

Rooted(d) ==
  ~ reshaped /\ drop[d].at \notin {"idle", "done"} => {drop[d].base, drop[d].parent} \subseteq DOMAIN folders

Raced(d) ==
  ~ reshaped /\ ~ drop[d].failed =>
    /\ drop[d].at = "relist" => Taken(d)
    /\ drop[d].at = "lost" => Clashing(d)

Races == DropShape /\ \A d \in Drop : Rooted(d) /\ Raced(d)

\* What a drop has seen stays there while it waits.
LEMMA WaitingRaces ==
  ASSUME Races, RowsStay, NEW d \in Drop, drop'[d] = drop[d]
  PROVE  Rooted(d)' /\ Raced(d)'
<1>1. Rooted(d)'
  BY DEF Races, Rooted, RowsStay, FolderStays
<1>2. AtGallery(d)' <=> AtGallery(d)
  BY DEF AtGallery, Path
<1>3. Name(d)' = Name(d)
  BY DEF Name, Path
<1>4. Raced(d)'
  BY <1>2, <1>3 DEF Races, Raced, Taken, Clashing, RowsStay, FolderStays, GalleryStays
<1> QED BY <1>1, <1>4

\* The same for every drop but one.
LEMMA OneDropRaces ==
  ASSUME Races, RowsStay, DropShape', NEW d \in Drop,
         \A e \in Drop : e # d => drop'[e] = drop[e],
         Rooted(d)', Raced(d)'
  PROVE  Races'
<1>1. ASSUME NEW e \in Drop, e # d PROVE Rooted(e)' /\ Raced(e)'
  BY <1>1, WaitingRaces
<1> QED BY <1>1 DEF Races

\* What a drop's turn leaves of it.
Turned(d, at, base, parents, failed) ==
  /\ DropShape' /\ \A e \in Drop : e # d => drop'[e] = drop[e]
  /\ drop'[d].at \in at /\ drop'[d].base = base /\ drop'[d].parent \in parents /\ drop'[d].failed = failed

LEMMA GoOnTurns ==
  ASSUME DropShape, NEW d \in Drop, NEW base, NEW target, NEW from, GoOn(d, base, target, from)
  PROVE  /\ Turned(d, {"list", "done"}, base, {drop[d].parent, base}, drop[d].failed)
         /\ drop'[d].at = "list" => drop'[d].parent = base
<1>1. CASE NextEntry(d, DOMAIN target, from) = {}
  BY <1>1 DEF GoOn, DropShape, DropFields, Turned
<1>2. CASE NextEntry(d, DOMAIN target, from) # {}
  BY <1>2 DEF GoOn, DropShape, DropFields, Turned
<1> QED BY <1>1, <1>2

LEMMA EnterTurns ==
  ASSUME DropShape, NEW d \in Drop, NEW x, Enter(d, x)
  PROVE  Turned(d, {"list", "done"}, drop[d].base,
                {drop[d].parent, drop[d].base} \cup (IF AtGallery(d) THEN {} ELSE {x}), drop[d].failed)
<1>1. CASE AtGallery(d)
  BY <1>1, GoOnTurns DEF Enter
<1>2. CASE ~ AtGallery(d)
  BY <1>2 DEF Enter, DropShape, DropFields, Turned
<1> QED BY <1>1, <1>2

LEMMA TurnTurns ==
  ASSUME DropShape, NEW d \in Drop, NEW at, Turn(d, at)
  PROVE  /\ Turned(d, {at}, drop[d].base, {drop[d].parent}, drop[d].failed)
         /\ drop'[d].entry = drop[d].entry /\ drop'[d].level = drop[d].level
  BY DEF Turn, DropShape, DropFields, Turned

LEMMA FailTurns ==
  ASSUME DropShape, NEW d \in Drop, NEW at, Fail(d, at)
  PROVE  Turned(d, {at}, drop[d].base, {drop[d].parent}, TRUE)
  BY DEF Fail, DropShape, DropFields, Turned

\* A turn after which nothing is asked of the race.
LEMMA TurnedRaces ==
  ASSUME Races, RowsStay, NEW d \in Drop, NEW at, NEW base, NEW parents, NEW failed,
         Turned(d, at, base, parents, failed),
         failed = TRUE \/ at \cap {"relist", "lost"} = {},
         ~ reshaped' => {base} \cup parents \subseteq DOMAIN folders'
  PROVE  Races'
<1>1. Rooted(d)'
  BY DEF Turned, Rooted
<1>2. Raced(d)'
  BY DEF Turned, Raced
<1> QED BY <1>1, <1>2, OneDropRaces DEF Turned

\* The folder or gallery that a drop has found, or made, is there.
LEMMA EnterRaces ==
  ASSUME Races, RowsStay, NEW d \in Drop, drop[d].at \notin {"idle", "done"}, NEW x, Enter(d, x),
         AtGallery(d) \/ (~ reshaped' => x \in DOMAIN folders')
  PROVE  Races'
<1>1. ~ reshaped' => {drop[d].base, drop[d].parent} \subseteq DOMAIN folders'
  BY DEF Races, Rooted, RowsStay, FolderStays
<1>2. {"list", "done"} \cap {"relist", "lost"} = {}
  OBVIOUS
<1> DEFINE P == {drop[d].parent, drop[d].base} \cup (IF AtGallery(d) THEN {} ELSE {x})
<1>3. Turned(d, {"list", "done"}, drop[d].base, P, drop[d].failed)
  BY EnterTurns DEF Races
<1>4. ~ reshaped' => {drop[d].base} \cup P \subseteq DOMAIN folders'
  BY <1>1
<1> HIDE DEF P
<1> QED BY <1>2, <1>3, <1>4, TurnedRaces

LEMMA ListedIsThere ==
  ASSUME NEW d \in Drop, NEW x \in Homonyms(d)
  PROVE  AtGallery(d) \/ x \in DOMAIN folders
  BY DEF Homonyms, Children

\* A drop whose listing finds nothing, while a row has its slug, meets another title.
LEMMA ListingFindsNothing ==
  ASSUME NEW d \in Drop, Taken(d), Homonyms(d) = {}
  PROVE  Clashing(d)
<1>1. CASE AtGallery(d)
  BY <1>1 DEF Taken, Homonyms, Clashing
<1>2. CASE ~ AtGallery(d)
  BY <1>2 DEF Taken, Homonyms, Children, Clashing
<1> QED BY <1>1, <1>2

LEMMA RefusedIsTaken ==
  ASSUME NEW d \in Drop, drop[d].parent \in DOMAIN folders,
         IF AtGallery(d) THEN ~ CanInsertGallery(drop[d].parent, Name(d))
                         ELSE ~ CanInsertFolder(drop[d].parent, Name(d))
  PROVE  Taken(d)
  BY DEF CanInsertGallery, CanInsertFolder, Matching, Taken

LEMMA SameDropNames ==
  ASSUME NEW d \in Drop, drop'[d].entry = drop[d].entry, drop'[d].level = drop[d].level,
         drop'[d].parent = drop[d].parent, UNCHANGED <<folders, galleries>>
  PROVE  (Taken(d) => Taken(d)') /\ (Clashing(d) => Clashing(d)')
<1>1. (AtGallery(d)' <=> AtGallery(d)) /\ Name(d)' = Name(d)
  BY DEF AtGallery, Name, Path
<1> QED BY <1>1 DEF Taken, Clashing

LEMMA DropRaces == ASSUME Tree, Races, DropNext PROVE Races'
<1> PICK d \in Drop :
      \/ \E f \in DOMAIN folders : StartDrop(d, f)
      \/ ListNames(d) \/ PostName(d) \/ InsertName(d) \/ InsertRefused(d) \/ Relist(d)
      \/ RequestFails(d)
  BY DEF DropNext
<1>1. ASSUME NEW f \in DOMAIN folders, StartDrop(d, f) PROVE Races'
  <2>1. RowsStay /\ UNCHANGED <<folders, reshaped>>
    BY <1>1, SameRowsStay DEF StartDrop, treeVars
  <2>2. drop[d].at = "idle" /\ GoOn(d, f, << >>, 1)
    BY <1>1 DEF StartDrop
  <2>3. /\ Turned(d, {"list", "done"}, f, {drop[d].parent, f}, drop[d].failed)
        /\ drop'[d].at = "list" => drop'[d].parent = f
    BY <2>2, GoOnTurns DEF Races
  <2>4. Rooted(d)'
    BY ONLY <2>1, <2>2, <2>3 DEF Turned, Rooted
  <2> QED BY <2>1, <2>3, <2>4, OneDropRaces DEF Turned, Raced
<1>2. ASSUME ListNames(d) PROVE Races'
  <2>1. RowsStay /\ UNCHANGED <<folders, reshaped>>
    BY <1>2, SameRowsStay DEF ListNames, treeVars
  <2>2. ASSUME NEW x \in Homonyms(d), Enter(d, x) PROVE Races'
    BY <1>2, <2>1, <2>2, ListedIsThere, EnterRaces DEF ListNames
  <2>3. ASSUME Turn(d, "post") PROVE Races'
    <3>1. Turned(d, {"post"}, drop[d].base, {drop[d].parent}, drop[d].failed)
      BY <2>3, TurnTurns DEF Races
    <3>2. ~ reshaped' => {drop[d].base} \cup {drop[d].parent} \subseteq DOMAIN folders'
      BY <1>2, <2>1 DEF ListNames, Races, Rooted
    <3>3. {"post"} \cap {"relist", "lost"} = {}
      OBVIOUS
    <3> QED BY <2>1, <3>1, <3>2, <3>3, TurnedRaces
  <2> QED BY <1>2, <2>2, <2>3 DEF ListNames
<1>3. ASSUME PostName(d) PROVE Races'
  <2>1. RowsStay /\ UNCHANGED <<folders, reshaped>>
    BY <1>3, SameRowsStay DEF PostName, treeVars
  <2>2. Turned(d, {"insert"}, drop[d].base, {drop[d].parent}, drop[d].failed)
    BY <1>3 DEF PostName, Races, DropShape, DropFields, Turned
  <2>3. ~ reshaped' => {drop[d].base} \cup {drop[d].parent} \subseteq DOMAIN folders'
    BY <1>3, <2>1 DEF PostName, Races, Rooted
  <2>4. {"insert"} \cap {"relist", "lost"} = {}
    OBVIOUS
  <2> QED BY <2>1, <2>2, <2>3, <2>4, TurnedRaces
<1>4. ASSUME InsertName(d) PROVE Races'
  <2>1. PICK x \in Folder \cup Gallery :
          /\ IF AtGallery(d)
             THEN x \in Gallery /\ InsertGallery(x, drop[d].parent, Name(d), drop[d].visibility)
             ELSE x \in Folder /\ InsertFolder(x, drop[d].parent, Name(d), drop[d].visibility)
          /\ Enter(d, x) \/ Fail(d, "relist")
    BY <1>4 DEF InsertName
  <2>2. UNCHANGED reshaped /\ drop[d].at = "insert"
    BY <1>4 DEF InsertName
  <2>3. RowsStay /\ (AtGallery(d) \/ x \in DOMAIN folders')
    BY <2>1, <2>2, NewGalleryStays, NewFolderStays
  <2>4. CASE Enter(d, x)
    BY <2>2, <2>3, <2>4, EnterRaces
  <2>5. CASE Fail(d, "relist")
    <3>1. Turned(d, {"relist"}, drop[d].base, {drop[d].parent}, TRUE)
      BY <2>5, FailTurns DEF Races
    <3>2. ~ reshaped' => {drop[d].base} \cup {drop[d].parent} \subseteq DOMAIN folders'
      BY <2>2, <2>3 DEF Races, Rooted, RowsStay, FolderStays
    <3> QED BY <2>3, <3>1, <3>2, TurnedRaces
  <2> QED BY <2>1, <2>4, <2>5
<1>5. ASSUME InsertRefused(d) PROVE Races'
  <2>1. RowsStay /\ UNCHANGED <<folders, galleries, reshaped>>
    BY <1>5, SameRowsStay DEF InsertRefused, treeVars
  <2>2. drop[d].at = "insert" /\ Turn(d, "relist")
    BY <1>5 DEF InsertRefused
  <2>3. /\ Turned(d, {"relist"}, drop[d].base, {drop[d].parent}, drop[d].failed)
        /\ drop'[d].entry = drop[d].entry /\ drop'[d].level = drop[d].level
    BY <2>2, TurnTurns DEF Races
  <2>4. Rooted(d)'
    BY <2>1, <2>2, <2>3 DEF Races, Rooted, Turned
  <2>5. ~ reshaped => Taken(d)
    BY <1>5, <2>2, RefusedIsTaken DEF InsertRefused, Races, Rooted
  <2>6. Raced(d)'
    BY <2>1, <2>3, <2>5, SameDropNames DEF Raced, Turned
  <2> QED BY <2>1, <2>3, <2>4, <2>6, OneDropRaces DEF Turned
<1>6. ASSUME Relist(d) PROVE Races'
  <2>1. RowsStay /\ UNCHANGED <<folders, galleries, reshaped>>
    BY <1>6, SameRowsStay DEF Relist, treeVars
  <2>2. ASSUME NEW x \in Homonyms(d), Enter(d, x) PROVE Races'
    BY <1>6, <2>1, <2>2, ListedIsThere, EnterRaces DEF Relist
  <2>3. ASSUME Turn(d, "lost"), Homonyms(d) = {} PROVE Races'
    <3>1. /\ Turned(d, {"lost"}, drop[d].base, {drop[d].parent}, drop[d].failed)
          /\ drop'[d].entry = drop[d].entry /\ drop'[d].level = drop[d].level
      BY <2>3, TurnTurns DEF Races
    <3>2. Rooted(d)'
      BY <1>6, <2>1, <3>1 DEF Relist, Races, Rooted, Turned
    <3>3. ~ reshaped /\ ~ drop[d].failed => Clashing(d)
      BY <1>6, <2>3, ListingFindsNothing DEF Relist, Races, Raced
    <3>4. Raced(d)'
      BY <2>1, <3>1, <3>3, SameDropNames DEF Raced, Turned
    <3> QED BY <2>1, <3>1, <3>2, <3>4, OneDropRaces DEF Turned
  <2> QED BY <1>6, <2>2, <2>3 DEF Relist
<1>7. ASSUME RequestFails(d) PROVE Races'
  <2>1. RowsStay /\ UNCHANGED <<folders, reshaped>>
    BY <1>7, SameRowsStay DEF RequestFails, treeVars
  <2>2. PICK at \in {"lost", "relist"} : Fail(d, at)
    BY <1>7 DEF RequestFails
  <2>3. Turned(d, {at}, drop[d].base, {drop[d].parent}, TRUE)
    BY <2>2, FailTurns DEF Races
  <2>4. ~ reshaped' => {drop[d].base} \cup {drop[d].parent} \subseteq DOMAIN folders'
    BY <1>7, <2>1 DEF RequestFails, Races, Rooted
  <2> QED BY <2>1, <2>3, <2>4, TurnedRaces
<1> QED BY <1>1, <1>2, <1>3, <1>4, <1>5, <1>6, <1>7

LEMMA OthersRace == ASSUME Races, RowsStay, drop' = drop PROVE Races'
<1>1. \A d \in Drop : Rooted(d)' /\ Raced(d)'
  BY WaitingRaces
<1>2. DropShape'
  BY DEF Races, DropShape
<1> QED BY <1>1, <1>2 DEF Races

LEMMA RacesStep == ASSUME Tree, Races, [Next]_siteVars PROVE Races'
<1>1. ASSUME Dropping PROVE Races'
  BY <1>1, DropRaces DEF Dropping
<1>2. ASSUME Studio PROVE Races'
  BY <1>2, StudioRowsStay, OthersRace DEF Studio, dropVars
<1>3. ASSUME Importing PROVE Races'
  BY <1>3, ImportRowsStay, OthersRace DEF Importing, dropVars
<1>4. ASSUME UNCHANGED <<treeVars, drop>> PROVE Races'
  BY <1>4, SameRowsStay, OthersRace DEF treeVars
<1>5. ASSUME Exporting \/ UNCHANGED siteVars PROVE UNCHANGED <<treeVars, drop>>
  BY <1>5 DEF Exporting, siteVars, dropVars
<1>6. ASSUME Scanning \/ Resetting \/ Ingesting \/ Operating PROVE UNCHANGED <<treeVars, drop>>
  BY <1>6, ScriptsLeaveRows DEF Scanning, Resetting, Ingesting, Operating, dropVars
<1> QED BY <1>1, <1>2, <1>3, <1>4, <1>5, <1>6 DEF Next

LEMMA RacesStart == ASSUME Init PROVE Races
<1>1. drop = [d \in Drop |-> Idle]
  BY DEF Init, DropInit
<1> QED BY <1>1 DEF Races, DropShape, DropFields, Rooted, Raced, Idle

\* Drops ask for rows first and create them later, beside each other, the studio
\* and the importer (find-or-create.ts): a drop that comes second takes the row
\* of the one that came first.
THEOREM LostRacesAreHarmless == Spec => []RacesAreHarmless
<1>1. Races => RacesAreHarmless
  BY DEF Races, Raced, Clashing, RacesAreHarmless
<1>2. Init => Tree
  BY TreeStart
<1>3. Tree /\ [Next]_siteVars => Tree'
  BY TreeStep
<1> QED BY <1>1, <1>2, <1>3, RacesStart, RacesStep, PTL DEF Spec

-----------------------------------------------------------------------------
(* Scripts that die and are run again.                                     *)

\* An asset that is not to be forgotten: if its row is pending, its job waits, or
\* reprocess-assets is on its way to it, or has died and is to be run again.
Covered(a) ==
  /\ a \in DOMAIN row
  /\ row[a].status = "pending" =>
       \/ a \in jobs
       \/ reset.at = "died"
       \/ reset.at \in {"next", "queue"} /\ a \in reset.todo
       \/ reset.at = "queue" /\ a = reset.asset

\* What the importer has gone through, unless it passed over an image.
Through(n) == n < import.next \/ (n = import.next /\ import.at = "items")
ImportCovers ==
  /\ \A i \in Image : import.image[i] = "ready" => Covered(i)
  /\ \A i \in Image : import.image[i] = "bad" => holes
  /\ ~ holes => \A n \in DOMAIN import.albums : Through(n) =>
       \A k \in DOMAIN import.albums[n].images : Covered(import.albums[n].images[k])
  /\ import.at = "done" => import.next > Len(import.albums)
ScanCovers ==
  \A a \in scan.seen : Covered(a) \/ (a \in DOMAIN row /\ scan.at = "queue" /\ a = scan.to[1])
ResetCovers == \A a \in reset.rows : Covered(a)

Queued == ImportCovers /\ ScanCovers /\ ResetCovers

CoversStay == (\A a \in DOMAIN row : a \in DOMAIN row') /\ \A a : Covered(a) => Covered(a)'

\* Rows and jobs that are only added to.
LEMMA GrowingCovers ==
  ASSUME \A a \in DOMAIN row : a \in DOMAIN row' /\ row'[a] = row[a], jobs \subseteq jobs', reset' = reset
  PROVE  CoversStay
  BY DEF CoversStay, Covered

LEMMA ResetKeepsCovers == ASSUME Types, ResetNext PROVE CoversStay
<1>0. reset \in ResetState
  BY DEF Types, ScriptTypes, IsReset
<1>1. CASE StartReset
  <2>1. reset'.at = "next" /\ reset'.todo = DOMAIN row /\ row' = row /\ jobs' = jobs
    BY <1>1 DEF StartReset, bucketVars
  <2> QED BY <2>1 DEF CoversStay, Covered
<1>2. ASSUME NEW a \in reset.todo, ResetRow(a) PROVE CoversStay
  <2>1. /\ reset.at = "next" /\ reset'.at = "queue" /\ reset'.todo = reset.todo \ {a} /\ reset'.asset = a
        /\ jobs' = jobs
    BY <1>0, <1>2 DEF ResetRow, ResetState
  <2>2. DOMAIN row' = DOMAIN row /\ \A b \in DOMAIN row : b # a => row'[b] = row[b]
    BY <1>2 DEF ResetRow
  <2> QED BY <2>1, <2>2 DEF CoversStay, Covered
<1>3. CASE RequeueRow
  <2>1. /\ reset.at = "queue" /\ reset'.at = "next" /\ reset'.todo = reset.todo
        /\ row' = row /\ jobs' = jobs \cup {reset.asset}
    BY <1>0, <1>3 DEF RequeueRow, ResetState
  <2> QED BY <2>1 DEF CoversStay, Covered
<1>4. CASE FinishReset
  <2>1. reset.at = "next" /\ reset.todo = {} /\ row' = row /\ jobs' = jobs
    BY <1>4 DEF FinishReset, bucketVars
  <2> QED BY <2>1 DEF CoversStay, Covered
<1>5. CASE CrashReset
  <2>1. reset'.at = "died" /\ row' = row /\ jobs' = jobs
    BY <1>0, <1>5 DEF CrashReset, bucketVars, ResetState
  <2> QED BY <2>1 DEF CoversStay, Covered
<1> QED BY <1>1, <1>2, <1>3, <1>4, <1>5 DEF ResetNext

\* A job is done when its row no longer waits for it.
LEMMA WorkerKeepsCovers == ASSUME Types, WorkerNext PROVE CoversStay
<1> PICK a \in Asset : IngestJob(a)
  BY DEF WorkerNext
<1>1. a \in DOMAIN row /\ row[a] \in AssetRow
  BY DEF Types, ImportTypes, HasRow, Bucket, IngestJob
<1>2. /\ DOMAIN row' = DOMAIN row /\ \A b \in DOMAIN row : b # a => row'[b] = row[b]
      /\ row'[a].status # "pending"
  BY <1>1 DEF IngestJob, AssetRow
<1>3. reset' = reset /\ jobs' = jobs \ {a}
  BY DEF IngestJob, scanVars
<1> QED BY <1>2, <1>3 DEF CoversStay, Covered

LEMMA UpsertAdds ==
  ASSUME NEW i, NEW k
  PROVE  \A a \in DOMAIN row : a \in DOMAIN Upserted(i, k) /\ Upserted(i, k)[a] = row[a]
  BY DEF Upserted

LEMMA ImportKeepsCovers == ASSUME ImportNext, reset' = reset PROVE CoversStay
<1>1. ASSUME NEW i \in Image, StoreImage(i) \/ UpsertImage(i) \/ QueueImage(i) PROVE CoversStay
  BY <1>1, UpsertAdds, GrowingCovers DEF StoreImage, UpsertImage, QueueImage
<1>2. ASSUME StartImport \/ BeginAlbum \/ FindFolder \/ MakeFolder \/ FindGallery \/ MakeGallery
             \/ PublishGallery \/ BeginItems \/ InsertItem \/ WriteRedirect \/ FinishImport \/ CrashImport
      PROVE  UNCHANGED bucketVars
  BY <1>2 DEF StartImport, BeginAlbum, FindFolder, MakeFolder, FindGallery, MakeGallery, PublishGallery,
     BeginItems, InsertItem, WriteRedirect, FinishImport, CrashImport
<1> QED BY <1>1, <1>2, GrowingCovers DEF ImportNext, bucketVars

LEMMA ScanKeepsCovers == ASSUME ScanNext PROVE CoversStay
<1>1. reset' = reset /\ jobs \subseteq jobs'
  BY DEF ScanNext, StartScan, ScanRows, CopyOrphan, DeleteOrphan, AdoptOrphan, QueueOrphan, FinishScan,
     CrashScan, bucketVars
<1>2. row' = row \/ row' = Upserted(scan.to[1], scan.to[2])
  BY DEF ScanNext, StartScan, ScanRows, CopyOrphan, DeleteOrphan, AdoptOrphan, QueueOrphan, FinishScan,
     CrashScan, bucketVars
<1> QED BY <1>1, <1>2, UpsertAdds, GrowingCovers

-----------------------------------------------------------------------------
(* Each script while another works, and at its own steps.                  *)

LEMMA ImportWaits == ASSUME ImportCovers, CoversStay, UNCHANGED <<import, holes>> PROVE ImportCovers'
  BY DEF ImportCovers, CoversStay, Through

LEMMA ScanWaits == ASSUME ScanCovers, CoversStay, UNCHANGED scan PROVE ScanCovers'
  BY DEF ScanCovers, CoversStay

LEMMA ResetWaits == ASSUME ResetCovers, CoversStay, UNCHANGED reset PROVE ResetCovers'
  BY DEF ResetCovers, CoversStay

\* Images change, and nothing else of the importer.
LEMMA ImageCovers ==
  ASSUME ImportCovers, CoversStay, NEW i \in Image, NEW at,
         import'.image = [import.image EXCEPT ![i] = at], DOMAIN import.image = Image,
         import'.albums = import.albums, import'.next = import.next, import'.at = import.at,
         at = "ready" => Covered(i)', at = "bad" => holes', holes => holes'
  PROVE  ImportCovers'
<1>1. \A j \in Image : import'.image[j] = "ready" => Covered(j)'
  BY DEF ImportCovers, CoversStay
<1>2. \A j \in Image : import'.image[j] = "bad" => holes'
  BY DEF ImportCovers
<1>3. ~ holes' => \A n \in DOMAIN import'.albums : Through(n)' =>
        \A k \in DOMAIN import'.albums[n].images : Covered(import.albums[n].images[k])'
  BY DEF ImportCovers, CoversStay, Through
<1> QED BY <1>1, <1>2, <1>3 DEF ImportCovers

\* No image changes, and no album is gone through.
LEMMA ElseCovers ==
  ASSUME ImportCovers, CoversStay, holes' = holes,
         import'.image \in {import.image, [i \in Image |-> "todo"]},
         import'.albums = import.albums, import'.next = import.next,
         import'.at = "items" => import.at = "items",
         import'.at = "done" => import.next > Len(import.albums)
  PROVE  ImportCovers'
<1>1. \A j \in Image : import'.image[j] = "ready" => Covered(j)'
  BY DEF ImportCovers, CoversStay
<1>2. \A j \in Image : import'.image[j] = "bad" => holes'
  BY DEF ImportCovers
<1>3. ~ holes' => \A n \in DOMAIN import'.albums : Through(n)' =>
        \A k \in DOMAIN import'.albums[n].images : Covered(import.albums[n].images[k])'
  BY DEF ImportCovers, CoversStay, Through
<1> QED BY <1>1, <1>2, <1>3 DEF ImportCovers

LEMMA ImportingCovers == ASSUME Types, ImportCovers, ImportNext, reset' = reset PROVE ImportCovers'
<1>0. /\ CoversStay /\ import \in ImportState /\ IsImport(import)
      /\ DOMAIN import.image = Image /\ import.albums \in Seq(Walked) /\ import.next \in Nat \ {0}
  BY ImportKeepsCovers DEF Types, ImportTypes, IsImport, ImportState
<1>1. CASE StartImport \/ CrashImport
  <2> DEFINE R == /\ import'.next = 1 /\ import'.at \in {"down", "album"}
                  /\ import'.image = [i \in Image |-> "todo"] /\ import'.albums \in Seq(Walked)
  <2>1. << >> \in Seq(Walked)
    OBVIOUS
  <2>2. ASSUME CrashImport PROVE R
    <3>1. import'.next = 1 /\ import'.at = "down" /\ import'.image = [i \in Image |-> "todo"]
          /\ import'.albums = << >>
      BY <2>2 DEF CrashImport, ImportDown
    <3> QED BY <2>1, <3>1
  <2>3. ASSUME StartImport PROVE R
    <3>1. manifest \in Seq(Walked)
      BY <2>3 DEF StartImport, Types, ExportTypes, Disk
    <3>2. import'.next = 1 /\ import'.at = "album" /\ import'.image = [i \in Image |-> "todo"]
          /\ import'.albums = manifest
      BY <2>3 DEF StartImport, ImportDown
    <3> QED BY <3>1, <3>2
  <2>0. R
    BY <1>1, <2>2, <2>3
  <2>4. \A n \in DOMAIN import'.albums : ~ Through(n)'
    BY <2>0 DEF Through
  <2> QED BY <2>0, <2>4 DEF ImportCovers
<1>2. ASSUME NEW i \in Image, StoreImage(i) PROVE ImportCovers'
  <2>1. PICK at \in {"bad", "stored"} :
          /\ import' \in {[import EXCEPT !.image[i] = at], [import EXCEPT !.image[i] = at, !.key[i] = month]}
          /\ at = "bad" => holes'
          /\ holes => holes'
    BY <1>2 DEF StoreImage, SetImage
  <2>2. /\ import'.image = [import.image EXCEPT ![i] = at]
        /\ import'.albums = import.albums /\ import'.next = import.next /\ import'.at = import.at
    BY <1>0, <2>1 DEF ImportState
  <2> QED BY <1>0, <2>1, <2>2, ImageCovers
<1>3. ASSUME NEW i \in Image, UpsertImage(i) \/ QueueImage(i) PROVE ImportCovers'
  <2>1. PICK at \in {"queue", "ready"} : import' = [import EXCEPT !.image[i] = at] /\ (at = "ready" => Covered(i)')
    <3>1. CASE UpsertImage(i)
      <4>1. i \in DOMAIN row'
        BY <3>1 DEF UpsertImage, Upserted
      <4> QED BY <3>1, <4>1 DEF UpsertImage, SetImage, Covered
    <3>2. CASE QueueImage(i)
      <4>1. i \in DOMAIN row
        BY <3>2 DEF QueueImage, Types, ImportTypes, HasRow
      <4>2. Covered(i)' /\ import' = [import EXCEPT !.image[i] = "ready"]
        BY <3>2, <4>1 DEF QueueImage, SetImage, Covered
      <4> QED BY <4>2
    <3> QED BY <1>3, <3>1, <3>2
  <2>2. /\ import'.image = [import.image EXCEPT ![i] = at]
        /\ import'.albums = import.albums /\ import'.next = import.next /\ import'.at = import.at
    BY <1>0, <2>1 DEF ImportState
  <2>3. holes' = holes
    BY <1>3 DEF UpsertImage, QueueImage
  <2> QED BY <1>0, <2>1, <2>2, <2>3, ImageCovers
<1>4. CASE BeginItems
  <2>1. /\ import'.image = import.image /\ import'.albums = import.albums /\ import'.next = import.next
        /\ import'.at = "items" /\ holes' = holes
    BY <1>0, <1>4 DEF BeginItems, ImportState
  <2>2. ~ holes => \A k \in DOMAIN This.images : Covered(This.images[k])
    <3>1. import.next \in DOMAIN import.albums
      BY <1>0, <1>4 DEF BeginItems, IsImport
    <3>2. \A k \in DOMAIN This.images : This.images[k] \in Wanted /\ This.images[k] \in Image
      BY <1>0, <3>1, PathTypes DEF Wanted, Exportable
    <3> QED BY <1>4, <3>2 DEF BeginItems, ImportCovers
  <2>3. ~ holes' => \A n \in DOMAIN import'.albums : Through(n)' =>
          \A k \in DOMAIN import'.albums[n].images : Covered(import.albums[n].images[k])'
    BY <1>0, <2>1, <2>2 DEF ImportCovers, CoversStay, Through, This
  <2> QED BY <1>0, <2>1, <2>3 DEF ImportCovers, CoversStay
<1>5. CASE WriteRedirect
  <2>1. /\ import.at = "items" /\ import'.image = import.image /\ import'.albums = import.albums
        /\ import'.next = import.next + 1 /\ import'.at = "album" /\ holes' = holes
    BY <1>0, <1>5 DEF WriteRedirect, ImportState
  <2>2. \A n \in DOMAIN import.albums : Through(n)' => Through(n)
    BY <1>0, <2>1 DEF Through
  <2>3. ~ holes' => \A n \in DOMAIN import'.albums : Through(n)' =>
          \A k \in DOMAIN import'.albums[n].images : Covered(import.albums[n].images[k])'
    BY <1>0, <2>1, <2>2 DEF ImportCovers, CoversStay
  <2> QED BY <1>0, <2>1, <2>3 DEF ImportCovers, CoversStay
<1>6. CASE BeginAlbum \/ FindFolder \/ MakeFolder \/ FindGallery \/ MakeGallery \/ PublishGallery
           \/ InsertItem \/ FinishImport
  <2> DEFINE R == /\ import'.image \in {import.image, [i \in Image |-> "todo"]}
                  /\ import'.albums = import.albums /\ import'.next = import.next
                  /\ import'.at = "items" => import.at = "items"
                  /\ import'.at = "done" => import.next > Len(import.albums)
  <2>1. ASSUME NEW f, EnterFolder(f) PROVE R
    BY <1>0, <2>1 DEF EnterFolder, ImportState
  <2>2. ASSUME NEW g, EnterGallery(g) PROVE R
    BY <1>0, <2>2 DEF EnterGallery, ImportState
  <2>3. ASSUME NEW at \in {"makeFolder", "makeGallery", "images"}, ImportAt(at) PROVE R
    BY <1>0, <2>3 DEF ImportAt, ImportState
  <2>4. ASSUME BeginAlbum PROVE R
    BY <1>0, <2>4 DEF BeginAlbum, ImportState
  <2>7. ASSUME FinishImport PROVE R
    BY <1>0, <2>7 DEF FinishImport, ImportAt, ImportState
  <2>8. ASSUME InsertItem PROVE R
    <3>1. PICK p : import' = [import EXCEPT !.item = import.item + 1, !.position = p]
      BY <2>8 DEF InsertItem
    <3>2. import'.image = import.image /\ import'.albums = import.albums /\ import'.next = import.next
          /\ import'.at = import.at
      BY <1>0, <3>1 DEF ImportState
    <3>3. import.at = "items"
      BY <2>8 DEF InsertItem
    <3> QED BY <3>2, <3>3
  <2>5. R
    <3> HIDE DEF R
    <3> QED BY <1>6, <2>1, <2>2, <2>3, <2>4, <2>7, <2>8 DEF FindFolder, MakeFolder, FindGallery, MakeGallery, PublishGallery
  <2>6. holes' = holes
    BY <1>6 DEF BeginAlbum, FindFolder, MakeFolder, FindGallery, MakeGallery, PublishGallery, InsertItem, FinishImport
  <2> QED BY <1>0, <2>5, <2>6, ElseCovers
<1> QED BY <1>1, <1>2, <1>3, <1>4, <1>5, <1>6 DEF ImportNext

LEMMA ScanningCovers == ASSUME Types, ScanCovers, ScanNext PROVE ScanCovers'
<1>0. CoversStay /\ scan \in ScanState
  BY ScanKeepsCovers DEF Types, ScriptTypes, IsScan
<1>1. CASE StartScan \/ CrashScan
  <2>1. CrashScan => scan'.seen = {}
    BY DEF CrashScan, ScanDown
  <2>2. StartScan => scan'.seen = {}
    BY DEF StartScan, ScanDown
  <2> QED BY <1>1, <2>1, <2>2 DEF ScanCovers
<1>2. ASSUME ScanRows \/ (\E k \in scan.keys : CopyOrphan(k)) \/ DeleteOrphan \/ FinishScan PROVE ScanCovers'
  <2>1. scan'.seen = scan.seen /\ scan.at # "queue"
    BY <1>0, <1>2 DEF ScanRows, CopyOrphan, DeleteOrphan, FinishScan, ScanState
  <2> QED BY <1>0, <2>1 DEF ScanCovers, CoversStay
<1>3. CASE AdoptOrphan
  <2>1. /\ scan.at = "row" /\ scan'.to = scan.to /\ scan'.seen = scan.seen \cup {scan.to[1]}
        /\ scan'.at = IF row'[scan.to[1]].status = "pending" THEN "queue" ELSE "next"
        /\ scan.to[1] \in DOMAIN row'
    BY <1>0, <1>3 DEF AdoptOrphan, Upserted, ScanState
  <2> QED BY <1>0, <2>1 DEF ScanCovers, CoversStay, Covered
<1>4. CASE QueueOrphan
  <2>1. scan.at = "queue" /\ scan'.seen = scan.seen /\ jobs' = jobs \cup {scan.to[1]} /\ row' = row
    BY <1>0, <1>4 DEF QueueOrphan, ScanState
  <2>2. scan.to[1] \in DOMAIN row
    BY <2>1 DEF Types, ImportTypes, HasRow
  <2> QED BY <1>0, <2>1, <2>2 DEF ScanCovers, CoversStay, Covered
<1> QED BY <1>1, <1>2, <1>3, <1>4 DEF ScanNext

LEMMA ResettingCovers == ASSUME Types, ResetCovers, ResetNext PROVE ResetCovers'
<1>0. CoversStay /\ reset \in ResetState
  BY ResetKeepsCovers DEF Types, ScriptTypes, IsReset
<1>1. CASE StartReset
  <2>1. reset'.at = "next" /\ reset'.todo = DOMAIN row /\ reset'.rows = DOMAIN row /\ row' = row
    BY <1>1 DEF StartReset, bucketVars
  <2> QED BY <2>1 DEF ResetCovers, Covered
<1>2. ASSUME (\E a \in reset.todo : ResetRow(a)) \/ RequeueRow \/ FinishReset \/ CrashReset PROVE ResetCovers'
  <2>1. reset'.rows = reset.rows
    BY <1>0, <1>2 DEF ResetRow, RequeueRow, FinishReset, CrashReset, ResetState
  <2> QED BY <1>0, <2>1 DEF ResetCovers, CoversStay
<1> QED BY <1>1, <1>2 DEF ResetNext

LEMMA QueuedStep == ASSUME Types, Queued, [Next]_siteVars PROVE Queued'
<1>0. ImportCovers /\ ScanCovers /\ ResetCovers
  BY DEF Queued
<1>1. ASSUME UNCHANGED <<importVars, bucketVars, scanVars>> PROVE Queued'
  <2>1. CoversStay
    BY <1>1, GrowingCovers DEF bucketVars, scanVars
  <2> QED BY <1>0, <1>1, <2>1, ImportWaits, ScanWaits, ResetWaits DEF importVars, scanVars, Queued
<1>2. ASSUME Importing PROVE Queued'
  <2>1. scan' = scan /\ reset' = reset /\ ImportNext
    BY <1>2 DEF Importing, scanVars
  <2>2. CoversStay
    BY <2>1, ImportKeepsCovers
  <2> QED BY <1>0, <2>1, <2>2, ImportingCovers, ScanWaits, ResetWaits DEF Queued
<1>3. ASSUME Scanning PROVE Queued'
  <2>1. ScanNext /\ reset' = reset /\ UNCHANGED <<import, holes>>
    BY <1>3, ScriptsLeave DEF Scanning, importVars
  <2>2. CoversStay
    BY <2>1, ScanKeepsCovers
  <2> QED BY <1>0, <2>1, <2>2, ImportWaits, ScanningCovers, ResetWaits DEF Queued
<1>4. ASSUME Resetting PROVE Queued'
  <2>1. ResetNext /\ scan' = scan /\ UNCHANGED <<import, holes>>
    BY <1>4, ScriptsLeave DEF Resetting, importVars
  <2>2. CoversStay
    BY <2>1, ResetKeepsCovers
  <2> QED BY <1>0, <2>1, <2>2, ImportWaits, ScanWaits, ResettingCovers DEF Queued
<1>5. ASSUME Ingesting PROVE Queued'
  <2>1. WorkerNext /\ UNCHANGED <<import, holes, scan, reset>>
    BY <1>5 DEF Ingesting, WorkerNext, IngestJob, scanVars, importVars
  <2>2. CoversStay
    BY <2>1, WorkerKeepsCovers
  <2> QED BY <1>0, <2>1, <2>2, ImportWaits, ScanWaits, ResetWaits DEF Queued
<1>6. ASSUME Operating PROVE Queued'
  <2>1. UNCHANGED <<import, holes, row, jobs, scan, reset>>
    BY <1>6 DEF Operating, OperatorNext, TurnMonth, Migrate, scanVars, importVars
  <2>2. CoversStay
    BY <2>1, GrowingCovers
  <2> QED BY <1>0, <2>1, <2>2, ImportWaits, ScanWaits, ResetWaits DEF Queued
<1>7. ASSUME Studio \/ Dropping \/ Exporting \/ UNCHANGED siteVars PROVE UNCHANGED <<importVars, bucketVars, scanVars>>
  BY <1>7 DEF Studio, Dropping, Exporting, siteVars
<1> QED BY <1>1, <1>2, <1>3, <1>4, <1>5, <1>6, <1>7 DEF Next

LEMMA QueuedStart == ASSUME Init PROVE Queued
<1>1. import = ImportDown /\ row = << >> /\ scan = ScanDown /\ reset = ResetDown
  BY DEF Init, ImportInit, ScanInit
<1> QED BY <1>1 DEF ImportDown, ScanDown, ResetDown, Queued, ImportCovers, ScanCovers, ResetCovers

\* The importer, scan-bucket and reprocess-assets may die between any two writes
\* and be run again beside each other and the worker (import.ts, scan-bucket.ts,
\* reprocess-assets.ts): a run that ends leaves nothing it went through pending
\* without a job, unless a reprocess-assets that died was not run again.
THEOREM RunsQueueAll == Spec => []FinishedScriptsQueueAll
<1>1. Types /\ Queued => FinishedScriptsQueueAll
  <2> SUFFICES ASSUME Types, Queued PROVE FinishedScriptsQueueAll
    OBVIOUS
  <2>1. ASSUME reset.at \in {"down", "done"}, NEW a, Covered(a) PROVE Served(a)
    BY <2>1 DEF Covered, Served
  <2>2. ASSUME import.at = "done", NEW n \in DOMAIN import.albums PROVE Through(n)
    BY <2>2 DEF Types, ImportTypes, IsImport, ImportState, Queued, ImportCovers, Through
  <2>3. reset.at \in {"down", "done"} => ImportedIsQueued
    BY <2>1, <2>2 DEF Queued, ImportCovers, ImportedIsQueued, Finished, Served
  <2>4. reset.at \in {"down", "done"} => (scan.at = "done" => \A a \in scan.seen : Served(a))
    BY <2>1 DEF Queued, ScanCovers
  <2>5. reset.at = "done" => \A a \in reset.rows : Served(a)
    BY <2>1 DEF Queued, ResetCovers
  <2> QED BY <2>3, <2>4, <2>5 DEF FinishedScriptsQueueAll
<1> QED BY <1>1, RecordsStart, RecordsStep, TypesStart, TypesStep, QueuedStart, QueuedStep, PTL DEF Spec

-----------------------------------------------------------------------------
(* Paths.  Chain is a recursive function of the folders: it exists because  *)
(* every set of folders has one whose parent is outside it, and what it     *)
(* computes is shown by the same argument.  The folders and the chains are  *)
(* arguments here, so that what holds of a tree can be said of two.         *)

Parents(fs) ==
  /\ \A f \in DOMAIN fs : fs[f].parent \in DOMAIN fs \cup {NoFolder}
  /\ NoFolder \notin DOMAIN fs /\ WellFounded(fs)

IsChain(C, fs) ==
  C = [f \in DOMAIN fs |-> IF fs[f].parent = NoFolder THEN <<f>> ELSE Append(C[fs[f].parent], f)]

\* It exists: of the chains of parts of the tree, closed under parents, the union.
LEMMA ChainExists == ASSUME NEW fs, Parents(fs) PROVE \E C : IsChain(C, fs)
<1> DEFINE Part(C, D) ==
      /\ D \subseteq DOMAIN fs /\ \A f \in D : fs[f].parent \in D \cup {NoFolder}
      /\ C = [f \in D |-> IF fs[f].parent = NoFolder THEN <<f>> ELSE Append(C[fs[f].parent], f)]
           U == {f \in DOMAIN fs : \E C, D : Part(C, D) /\ f \in D}
           C0 == [f \in U |-> CHOOSE v : \E C, D : Part(C, D) /\ f \in D /\ v = C[f]]
<1>1. ASSUME NEW C, NEW D, Part(C, D), NEW f \in D
      PROVE  C[f] = IF fs[f].parent = NoFolder THEN <<f>> ELSE Append(C[fs[f].parent], f)
  <2> DEFINE F(x) == IF fs[x].parent = NoFolder THEN <<x>> ELSE Append(C[fs[x].parent], x)
  <2>1. C = [x \in D |-> F(x)]
    BY <1>1
  <2> HIDE DEF F
  <2>2. C[f] = F(f)
    BY <2>1
  <2> QED BY <2>2 DEF F
<1>2. ASSUME NEW C, NEW D, NEW B, NEW E, Part(C, D), Part(B, E) PROVE \A f \in D \cap E : C[f] = B[f]
  <2> DEFINE S == {f \in D \cap E : C[f] # B[f]}
  <2> SUFFICES ASSUME S # {} PROVE FALSE
    OBVIOUS
  <2>1. PICK f \in S : fs[f].parent \notin S
    BY <1>2 DEF Parents, WellFounded
  <2>2. fs[f].parent = NoFolder \/ C[fs[f].parent] = B[fs[f].parent]
    BY <1>2, <2>1
  <2>3. C[f] = B[f]
    <3>1. f \in D /\ f \in E
      BY <2>1
    <3> HIDE DEF Part, S
    <3>2. C[f] = IF fs[f].parent = NoFolder THEN <<f>> ELSE Append(C[fs[f].parent], f)
      BY <1>1, <1>2, <3>1
    <3>3. B[f] = IF fs[f].parent = NoFolder THEN <<f>> ELSE Append(B[fs[f].parent], f)
      BY <1>1, <1>2, <3>1
    <3> QED BY <2>2, <3>2, <3>3
  <2> QED BY <2>3
<1>3. ASSUME NEW C, NEW D, Part(C, D), NEW f \in D PROVE C0[f] = C[f]
  <2>1. f \in U
    BY <1>3
  <2>2. \E v : \E B, E : Part(B, E) /\ f \in E /\ v = B[f]
    BY <1>3
  <2>3. PICK B, E : Part(B, E) /\ f \in E /\ C0[f] = B[f]
    <3> HIDE DEF Part
    <3>1. C0[f] = CHOOSE v : \E B, E : Part(B, E) /\ f \in E /\ v = B[f]
      BY <2>1
    <3> QED BY <2>2, <3>1
  <2> HIDE DEF Part, C0
  <2> QED BY <1>2, <1>3, <2>3
<1>4. \A f \in U : fs[f].parent \in U \cup {NoFolder}
  BY DEF Parents
<1>5. ASSUME NEW f \in U
      PROVE  C0[f] = IF fs[f].parent = NoFolder THEN <<f>> ELSE Append(C0[fs[f].parent], f)
  <2>1. PICK C, D : Part(C, D) /\ f \in D
    BY <1>5
  <2>2. C0[f] = C[f] /\ (fs[f].parent # NoFolder => C0[fs[f].parent] = C[fs[f].parent])
    <3>1. fs[f].parent \in D \cup {NoFolder}
      BY <2>1
    <3> HIDE DEF Part, C0
    <3> QED BY <1>3, <2>1, <3>1
  <2>3. C[f] = IF fs[f].parent = NoFolder THEN <<f>> ELSE Append(C[fs[f].parent], f)
    <3> HIDE DEF Part
    <3> QED BY <1>1, <2>1
  <2> HIDE DEF C0, Part
  <2> QED BY <2>2, <2>3
<1>6. U = DOMAIN fs
  <2> SUFFICES ASSUME DOMAIN fs \ U # {} PROVE FALSE
    OBVIOUS
  <2>1. PICK f \in DOMAIN fs \ U : fs[f].parent \notin DOMAIN fs \ U
    <3> HIDE DEF U
    <3> QED BY DEF Parents, WellFounded
  <2>2. fs[f].parent \in U \cup {NoFolder} /\ f # NoFolder /\ f \notin U
    BY <2>1 DEF Parents
  <2> DEFINE D == U \cup {f}
             G(x) == IF fs[x].parent = NoFolder THEN <<x>> ELSE Append(C0[fs[x].parent], x)
             C1 == [x \in D |-> G(x)]
  <2>3. \A x \in D : fs[x].parent \in U \cup {NoFolder}
    BY <1>4, <2>2
  <2>4. \A x \in U : C1[x] = C0[x]
    <3> HIDE DEF U, C0
    <3> QED BY <1>5
  <2>5. C1 = [x \in D |-> IF fs[x].parent = NoFolder THEN <<x>> ELSE Append(C1[fs[x].parent], x)]
    <3>1. \A x \in D : G(x) = IF fs[x].parent = NoFolder THEN <<x>> ELSE Append(C1[fs[x].parent], x)
      <4> HIDE DEF U, C0, C1, D
      <4> QED BY <2>3, <2>4
    <3> HIDE DEF G, D, C0, U
    <3> QED BY <3>1
  <2>6. Part(C1, D)
    <3>1. D \subseteq DOMAIN fs
      BY <2>1
    <3> HIDE DEF D, C1, U, C0
    <3>2. \A x \in D : fs[x].parent \in D \cup {NoFolder}
      BY <2>3 DEF D
    <3> QED BY <2>5, <3>1, <3>2
  <2>7. f \in U
    <3> HIDE DEF Part, C1, D
    <3>1. f \in D
      BY DEF D
    <3> QED BY <2>1, <2>6, <3>1
  <2> QED BY <2>2, <2>7
<1>7. IsChain(C0, fs)
  <2> DEFINE H(x) == IF fs[x].parent = NoFolder THEN <<x>> ELSE Append(C0[fs[x].parent], x)
  <2>1. \A f \in U : C0[f] = H(f)
    BY <1>5
  <2>2. C0 = [f \in U |-> C0[f]]
    OBVIOUS
  <2> HIDE DEF C0, H, U
  <2>3. C0 = [f \in U |-> H(f)]
    BY <2>1, <2>2
  <2>4. C0 = [f \in DOMAIN fs |-> H(f)]
    BY <1>6, <2>3
  <2> QED BY <2>4 DEF H, IsChain
<1> QED BY <1>7

LEMMA ChainIs == ASSUME NEW C, NEW fs, IsChain(C, fs), NEW f \in DOMAIN fs
                 PROVE  C[f] = IF fs[f].parent = NoFolder THEN <<f>> ELSE Append(C[fs[f].parent], f)
<1> DEFINE F(x) == IF fs[x].parent = NoFolder THEN <<x>> ELSE Append(C[fs[x].parent], x)
<1>1. C = [x \in DOMAIN fs |-> F(x)]
  BY DEF IsChain
<1> HIDE DEF F
<1>2. C[f] = F(f)
  BY <1>1
<1> QED BY <1>2 DEF F

LEMMA TreeParents == ASSUME NEW fs, NEW gs, NEW is, NEW sp, Whole(fs, gs, is, sp) PROVE Parents(fs)
  BY SceneAssumption DEF Whole, Intact, Parents, WellFounded

LEMMA ChainNow == ASSUME Tree PROVE IsChain(Chain, folders)
<1>1. \E C : IsChain(C, folders)
  BY TreeParents, ChainExists DEF Tree
<1> QED BY <1>1 DEF Chain, IsChain

LEMMA ChainNext == ASSUME Tree' PROVE IsChain(Chain', folders')
<1>1. Whole(folders', galleries', items', spent')
  BY DEF Tree
<1>2. \E C : IsChain(C, folders')
  BY <1>1, TreeParents, ChainExists
<1> QED BY <1>2 DEF Chain, IsChain

LEMMA ChainTypes ==
  ASSUME NEW fs, NEW C, Parents(fs), IsChain(C, fs), NEW f \in DOMAIN fs
  PROVE  C[f] \in Seq(DOMAIN fs) /\ Len(C[f]) \in Nat \ {0} /\ C[f][Len(C[f])] = f
<1> DEFINE Good(x) == C[x] \in Seq(DOMAIN fs) /\ Len(C[x]) \in Nat \ {0} /\ C[x][Len(C[x])] = x
           S == {x \in DOMAIN fs : ~ Good(x)}
<1> SUFFICES ASSUME S # {} PROVE FALSE
  OBVIOUS
<1>1. PICK x \in S : fs[x].parent \notin S
  BY DEF Parents, WellFounded
<1>2. C[x] = IF fs[x].parent = NoFolder THEN <<x>> ELSE Append(C[fs[x].parent], x)
  BY <1>1, ChainIs
<1>3. CASE fs[x].parent = NoFolder
  <2>1. Good(x)
    BY <1>1, <1>2, <1>3
  <2> QED BY <1>1, <2>1
<1>4. CASE fs[x].parent # NoFolder
  <2>1. C[fs[x].parent] \in Seq(DOMAIN fs)
    BY <1>1, <1>4 DEF Parents
  <2>2. \A q \in Seq(DOMAIN fs) : LET r == Append(q, x) IN
          r \in Seq(DOMAIN fs) /\ Len(r) \in Nat \ {0} /\ r[Len(r)] = x
    BY <1>1
  <2>3. Good(x)
    BY <1>2, <1>4, <2>1, <2>2
  <2> QED BY <1>1, <2>3
<1> QED BY <1>3, <1>4

\* New rows aside, the tree is as it was.
Grown(fs, gs, fs2, gs2) ==
  /\ \A f \in DOMAIN fs : f \in DOMAIN fs2 /\ fs2[f].parent = fs[f].parent /\ fs2[f].title = fs[f].title
  /\ \A g \in DOMAIN gs : g \in DOMAIN gs2 /\ gs2[g].folder = gs[g].folder /\ gs2[g].title = gs[g].title

LEMMA ChainsStay ==
  ASSUME NEW fs, NEW gs, NEW C, NEW fs2, NEW gs2, NEW D, Parents(fs), IsChain(C, fs), IsChain(D, fs2),
         Grown(fs, gs, fs2, gs2)
  PROVE  \A f \in DOMAIN fs : D[f] = C[f]
<1> DEFINE S == {x \in DOMAIN fs : D[x] # C[x]}
<1> SUFFICES ASSUME S # {} PROVE FALSE
  OBVIOUS
<1>1. PICK x \in S : fs[x].parent \notin S
  BY DEF Parents, WellFounded
<1>2. /\ C[x] = IF fs[x].parent = NoFolder THEN <<x>> ELSE Append(C[fs[x].parent], x)
      /\ D[x] = IF fs2[x].parent = NoFolder THEN <<x>> ELSE Append(D[fs2[x].parent], x)
  BY <1>1, ChainIs DEF Grown
<1>3. fs[x].parent = NoFolder \/ D[fs[x].parent] = C[fs[x].parent]
  BY <1>1 DEF Parents
<1> QED BY <1>1, <1>2, <1>3 DEF Grown

-----------------------------------------------------------------------------
(* Where the files of a drop land.                                          *)

\* The n folders down to p, below the folder base, carry the first n names of a path.
Spelled(C, fs, p, base, path, n) ==
  /\ p \in DOMAIN fs /\ base \in DOMAIN fs
  /\ Len(C[p]) = Len(C[base]) + n /\ C[p][Len(C[base])] = base
  /\ \A k \in 1..n : FoldOf[fs[C[p][Len(C[base]) + k]].title] = FoldOf[path[k]]

Lands(C, fs, gs, g, base, path) ==
  /\ g \in DOMAIN gs /\ Spelled(C, fs, gs[g].folder, base, path, Len(path) - 1)
  /\ FoldOf[gs[g].title] = FoldOf[path[Len(path)]]

Asking == {"list", "post", "insert", "relist"}

\* The cache of galleries by path, and the files before one that have theirs in it.
Cached(C, fs, gs, target, base) == \A path \in DOMAIN target : Lands(C, fs, gs, target[path], base, path)
Passed(d, target, from) == \A j \in DOMAIN Entries[d] : j < from => Entries[d][j] \in DOMAIN target \cup {<< >>}

\* A drop has come as far as its level says, each gallery of its cache is where
\* the path says, and the files it went past have one.
Routed(C, fs, gs, d, r) ==
  /\ r.at # "idle" => r.base \in DOMAIN fs
  /\ r.at \in Asking => Spelled(C, fs, r.parent, r.base, Entries[d][r.entry], r.level - 1)
  /\ \A path \in DOMAIN r.target : Lands(C, fs, gs, r.target[path], r.base, path)
  /\ \A j \in DOMAIN Entries[d] :
       r.at = "done" \/ (r.at \in Asking /\ j < r.entry) => Entries[d][j] \in DOMAIN r.target \cup {<< >>}

Slugged(fs, gs) ==
  /\ \A f \in DOMAIN fs : fs[f].title \in Title /\ fs[f].slug = SlugOf[fs[f].title]
  /\ \A g \in DOMAIN gs : gs[g].title \in Title /\ gs[g].slug = SlugOf[gs[g].title]

LEMMA SpelledHere ==
  ASSUME NEW fs, NEW C, Parents(fs), IsChain(C, fs), NEW base \in DOMAIN fs, NEW path
  PROVE  Spelled(C, fs, base, base, path, 0)
  BY ChainTypes DEF Spelled

LEMMA SpelledDown ==
  ASSUME NEW fs, NEW C, Parents(fs), IsChain(C, fs), NEW p, NEW base, NEW path, NEW n \in Nat,
         Spelled(C, fs, p, base, path, n),
         NEW x \in DOMAIN fs, fs[x].parent = p, FoldOf[fs[x].title] = FoldOf[path[n + 1]]
  PROVE  Spelled(C, fs, x, base, path, n + 1)
<1> DEFINE m == Len(C[base])
<1>1. /\ p \in DOMAIN fs /\ base \in DOMAIN fs /\ p # NoFolder
      /\ Len(C[p]) = m + n /\ C[p][m] = base
      /\ \A k \in 1..n : FoldOf[fs[C[p][m + k]].title] = FoldOf[path[k]]
  BY DEF Spelled, Parents
<1>2. C[p] \in Seq(DOMAIN fs) /\ m \in Nat \ {0}
  BY <1>1, ChainTypes
<1>3. C[x] = Append(C[p], x)
  <2>1. C[x] = IF fs[x].parent = NoFolder THEN <<x>> ELSE Append(C[fs[x].parent], x)
    BY ChainIs
  <2> QED BY <1>1, <2>1
<1> HIDE DEF m
<1>4. Len(C[x]) = m + (n + 1) /\ C[x][m + (n + 1)] = x /\ \A k \in 1..(m + n) : C[x][k] = C[p][k]
  <2>1. \A s \in Seq(DOMAIN fs) : /\ Len(Append(s, x)) = Len(s) + 1 /\ Append(s, x)[Len(s) + 1] = x
                                  /\ \A k \in 1..Len(s) : Append(s, x)[k] = s[k]
    OBVIOUS
  <2>2. (m + n) + 1 = m + (n + 1)
    BY <1>2
  <2> QED BY <1>1, <1>2, <1>3, <2>1, <2>2
<1>5. m \in 1..(m + n) /\ \A k \in 1..n : m + k \in 1..(m + n)
  BY <1>2
<1>6. \A k \in 1..(n + 1) : k \in 1..n \/ k = n + 1
  OBVIOUS
<1>7. \A k \in 1..(n + 1) : FoldOf[fs[C[x][m + k]].title] = FoldOf[path[k]]
  BY <1>1, <1>4, <1>5, <1>6
<1> QED BY <1>1, <1>4, <1>5, <1>7 DEF Spelled, m

LEMMA SpelledStays ==
  ASSUME NEW fs, NEW gs, NEW C, NEW fs2, NEW gs2, NEW D, Parents(fs), IsChain(C, fs), IsChain(D, fs2),
         Grown(fs, gs, fs2, gs2),
         NEW p, NEW base, NEW path, NEW n \in Nat, Spelled(C, fs, p, base, path, n)
  PROVE  Spelled(D, fs2, p, base, path, n)
<1>1. p \in DOMAIN fs /\ base \in DOMAIN fs
  BY DEF Spelled
<1>2. D[p] = C[p] /\ D[base] = C[base]
  BY <1>1, ChainsStay
<1>3. C[p] \in Seq(DOMAIN fs) /\ Len(C[base]) \in Nat
  BY <1>1, ChainTypes
<1>4. \A k \in 1..n : C[p][Len(C[base]) + k] \in DOMAIN fs
  BY <1>3 DEF Spelled
<1>5. \A k \in 1..n : fs2[D[p][Len(D[base]) + k]].title = fs[C[p][Len(C[base]) + k]].title
  BY <1>2, <1>4 DEF Grown
<1>6. p \in DOMAIN fs2 /\ base \in DOMAIN fs2
  BY <1>1 DEF Grown
<1> QED BY <1>2, <1>5, <1>6 DEF Spelled

LEMMA SpelledUp ==
  ASSUME NEW fs, NEW C, Parents(fs), IsChain(C, fs), NEW x, NEW base, NEW path, NEW n \in Nat \ {0},
         Spelled(C, fs, x, base, path, n)
  PROVE  /\ fs[x].parent \in DOMAIN fs /\ Spelled(C, fs, fs[x].parent, base, path, n - 1)
         /\ FoldOf[fs[x].title] = FoldOf[path[n]]
<1> DEFINE m == Len(C[base])
           p == fs[x].parent
<1>1. /\ x \in DOMAIN fs /\ base \in DOMAIN fs
      /\ Len(C[x]) = m + n /\ C[x][m] = base
      /\ \A k \in 1..n : FoldOf[fs[C[x][m + k]].title] = FoldOf[path[k]]
  BY DEF Spelled
<1>2. m \in Nat \ {0} /\ C[x][Len(C[x])] = x
  BY <1>1, ChainTypes
<1>3. C[x] = IF p = NoFolder THEN <<x>> ELSE Append(C[p], x)
  BY <1>1, ChainIs
<1>4. p # NoFolder
  <2> SUFFICES ASSUME p = NoFolder PROVE FALSE
    OBVIOUS
  <2>1. Len(C[x]) = 1
    BY <1>3
  <2> HIDE DEF m, p
  <2> QED BY <1>1, <1>2, <2>1
<1>5. p \in DOMAIN fs
  BY <1>1, <1>4 DEF Parents
<1>6. C[p] \in Seq(DOMAIN fs)
  BY <1>5, ChainTypes
<1> HIDE DEF m, p
<1>7. Len(C[p]) = m + (n - 1) /\ \A k \in 1..Len(C[p]) : C[x][k] = C[p][k]
  <2>1. \A s \in Seq(DOMAIN fs) : Len(Append(s, x)) = Len(s) + 1 /\ \A k \in 1..Len(s) : Append(s, x)[k] = s[k]
    OBVIOUS
  <2>2. Len(C[x]) = Len(C[p]) + 1 /\ (\A k \in 1..Len(C[p]) : C[x][k] = C[p][k]) /\ Len(C[p]) \in Nat
    BY <1>3, <1>4, <1>6, <2>1
  <2> QED BY <1>1, <1>2, <2>2
<1>8. m \in 1..Len(C[p]) /\ \A k \in 1..(n - 1) : m + k \in 1..Len(C[p]) /\ k \in 1..n
  BY <1>2, <1>7
<1>9. n \in 1..n
  OBVIOUS
<1> QED BY <1>1, <1>2, <1>5, <1>7, <1>8, <1>9 DEF Spelled, m, p

\* Below one folder, paths that differ at most in case name one folder ...
LEMMA SpelledOnce ==
  ASSUME NEW fs, NEW gs, NEW C, Parents(fs), IsChain(C, fs), NoChildBut(fs), Slugged(fs, gs),
         NEW base, NEW path, NEW other, NEW n \in Nat, \A k \in 1..n : FoldOf[path[k]] = FoldOf[other[k]],
         NEW p, NEW q, Spelled(C, fs, p, base, path, n), Spelled(C, fs, q, base, other, n)
  PROVE  p = q
<1> DEFINE S == {x \in DOMAIN fs : \E m \in 0..n, y \in DOMAIN fs :
                   Spelled(C, fs, x, base, path, m) /\ Spelled(C, fs, y, base, other, m) /\ x # y}
<1>0. p \in DOMAIN fs /\ q \in DOMAIN fs /\ n \in 0..n
  BY DEF Spelled
<1> SUFFICES ASSUME S # {} PROVE FALSE
  BY <1>0
<1>1. PICK x \in S : fs[x].parent \notin S
  BY DEF Parents, WellFounded
<1>2. PICK m \in 0..n, y \in DOMAIN fs :
        Spelled(C, fs, x, base, path, m) /\ Spelled(C, fs, y, base, other, m) /\ x # y
  BY <1>1
<1> HIDE DEF S
<1>3. CASE m = 0
  <2>1. x \in DOMAIN fs /\ base \in DOMAIN fs /\ Len(C[base]) \in Nat
    BY <1>2, ChainTypes DEF Spelled
  <2>2. Len(C[x]) = Len(C[base]) /\ Len(C[y]) = Len(C[base]) /\ C[x][Len(C[base])] = base /\ C[y][Len(C[base])] = base
    BY <1>2, <1>3, <2>1 DEF Spelled
  <2>3. C[x][Len(C[x])] = x /\ C[y][Len(C[y])] = y
    BY <2>1, ChainTypes
  <2> QED BY <1>2, <2>2, <2>3
<1>4. CASE m # 0
  <2>1. m \in Nat \ {0} /\ m - 1 \in 0..n /\ m \in 1..n
    BY <1>4
  <2>2. /\ fs[x].parent \in DOMAIN fs /\ Spelled(C, fs, fs[x].parent, base, path, m - 1)
        /\ FoldOf[fs[x].title] = FoldOf[path[m]]
    BY <1>2, <2>1, SpelledUp
  <2>3. /\ fs[y].parent \in DOMAIN fs /\ Spelled(C, fs, fs[y].parent, base, other, m - 1)
        /\ FoldOf[fs[y].title] = FoldOf[other[m]]
    BY <1>2, <2>1, SpelledUp
  <2>4. fs[x].parent = fs[y].parent
    BY <1>1, <2>1, <2>2, <2>3 DEF S
  <2>5. x \in DOMAIN fs /\ fs[x].parent # NoFolder
    BY <1>2, <2>2 DEF Parents, Spelled
  <2>6. fs[x].slug = fs[y].slug
    BY <2>1, <2>2, <2>3, <2>5, TitleAssumption DEF Slugged
  <2> QED BY <1>2, <2>4, <2>5, <2>6 DEF NoChildBut
<1> QED BY <1>3, <1>4

\* ... and one gallery.
LEMMA LandsOnce ==
  ASSUME NEW fs, NEW gs, NEW is, NEW sp, NEW C, Whole(fs, gs, is, sp), IsChain(C, fs), Slugged(fs, gs),
         NEW base, NEW path \in Seq(Title) \ {<< >>}, NEW other \in Seq(Title),
         Folded(path) = Folded(other),
         NEW g, NEW h, Lands(C, fs, gs, g, base, path), Lands(C, fs, gs, h, base, other)
  PROVE  g = h
<1>1. Parents(fs) /\ NoChildBut(fs)
  BY TreeParents DEF Whole, Intact, NoChildBut
<1>2. Len(other) = Len(path) /\ Len(path) - 1 \in Nat /\ \A k \in 1..Len(path) : FoldOf[path[k]] = FoldOf[other[k]]
  <2>1. DOMAIN Folded(path) = 1..Len(path) /\ DOMAIN Folded(other) = 1..Len(other)
    BY DEF Folded
  <2>2. Len(path) \in Nat \ {0} /\ Len(other) \in Nat
    OBVIOUS
  <2>3. \A m, n \in Nat : 1..m = 1..n => m = n
    OBVIOUS
  <2>4. Len(other) = Len(path)
    BY <2>1, <2>2, <2>3
  <2>5. \A k \in 1..Len(path) : Folded(path)[k] = FoldOf[path[k]] /\ Folded(other)[k] = FoldOf[other[k]]
    BY <2>4 DEF Folded
  <2> QED BY <2>2, <2>4, <2>5
<1>3. \A k \in 1..(Len(path) - 1) : k \in 1..Len(path)
  BY <1>2
<1>4. Spelled(C, fs, gs[g].folder, base, path, Len(path) - 1) /\ Spelled(C, fs, gs[h].folder, base, other, Len(path) - 1)
  BY <1>2 DEF Lands
<1>5. gs[g].folder = gs[h].folder
  BY <1>1, <1>2, <1>3, <1>4, SpelledOnce
<1>6. Len(path) \in 1..Len(path)
  BY <1>2
<1>7. g \in DOMAIN gs /\ h \in DOMAIN gs /\ gs[g].slug = gs[h].slug
  BY <1>2, <1>6, TitleAssumption DEF Lands, Slugged
<1> QED BY <1>5, <1>7 DEF Whole, Intact

LEMMA LandsByTitle ==
  ASSUME NEW path \in Seq(Title) \ {<< >>}, NEW base, NEW g, Tree, Lands(Chain, folders, galleries, g, base, path)
  PROVE  TitlesBelow(base, g) = Folded(path)
<1> DEFINE chain == Chain[galleries[g].folder]
           n == Len(Chain[base])
           T(i) == IF i <= Len(chain) - n THEN FoldOf[folders[chain[n + i]].title] ELSE FoldOf[galleries[g].title]
<1>1. Parents(folders) /\ IsChain(Chain, folders)
  BY TreeParents, ChainNow DEF Tree
<1>2. /\ Len(chain) = n + (Len(path) - 1) /\ base \in DOMAIN folders
      /\ \A k \in 1..(Len(path) - 1) : FoldOf[folders[chain[n + k]].title] = FoldOf[path[k]]
      /\ FoldOf[galleries[g].title] = FoldOf[path[Len(path)]]
  BY DEF Lands, Spelled
<1>3. n \in Nat /\ Len(path) \in Nat \ {0}
  BY <1>1, <1>2, ChainTypes
<1> HIDE DEF chain, n
<1>4. Len(chain) - n = Len(path) - 1 /\ Len(chain) - n + 1 = Len(path)
  BY <1>2, <1>3
<1>5. \A i \in 1..Len(path) : T(i) = FoldOf[path[i]]
  <2> SUFFICES ASSUME NEW i \in 1..Len(path) PROVE T(i) = FoldOf[path[i]]
    OBVIOUS
  <2>1. CASE i <= Len(path) - 1
    BY <1>2, <1>3, <1>4, <2>1
  <2>2. CASE i = Len(path)
    BY <1>2, <1>3, <1>4, <2>2
  <2> QED BY <1>3, <2>1, <2>2
<1>6. TitlesBelow(base, g) = [i \in 1..Len(path) |-> T(i)]
  BY <1>4 DEF TitlesBelow, chain, n
<1>7. Folded(path) = [i \in 1..Len(path) |-> FoldOf[path[i]]]
  BY DEF Folded
<1> HIDE DEF T
<1> QED BY <1>5, <1>6, <1>7

LEMMA LeastNumber == ASSUME NEW T \in SUBSET Nat, T # {} PROVE \E n \in T : \A m \in T : n <= m
<1> DEFINE R == OpToRel(<, Nat)
<1>1. \E n \in T : \A m \in T : ~ (<<m, n>> \in R)
  <2> HIDE DEF R
  <2>1. IsWellFoundedOn(R, Nat)
    BY NatLessThanWellFounded DEF R
  <2> QED BY <2>1, WFMin
<1>2. \A m, n \in Nat : m < n => <<m, n>> \in R
  BY DEF OpToRel
<1> HIDE DEF R
<1>3. PICK n \in T : \A m \in T : ~ (<<m, n>> \in R)
  BY <1>1
<1>4. ASSUME NEW m \in T PROVE n <= m
  <2>1. m \in Nat /\ n \in Nat /\ ~ (m < n)
    BY <1>2, <1>3
  <2> QED BY <2>1
<1> QED BY <1>4

\* What a drop knows of the tree stays so while others add to it.
LEMMA LandsStays ==
  ASSUME NEW fs, NEW gs, NEW C, NEW fs2, NEW gs2, NEW D, Parents(fs), IsChain(C, fs), IsChain(D, fs2),
         Grown(fs, gs, fs2, gs2), \A y \in DOMAIN gs : gs[y].folder \in DOMAIN fs,
         NEW base, NEW path \in Seq(Title) \ {<< >>}, NEW g, Lands(C, fs, gs, g, base, path)
  PROVE  Lands(D, fs2, gs2, g, base, path)
<1>1. Len(path) - 1 \in Nat
  OBVIOUS
<1>2. g \in DOMAIN gs /\ Spelled(C, fs, gs[g].folder, base, path, Len(path) - 1)
  BY DEF Lands
<1>3. Spelled(D, fs2, gs[g].folder, base, path, Len(path) - 1)
  BY <1>1, <1>2, SpelledStays
<1> QED BY <1>2, <1>3 DEF Lands, Grown

LEMMA CachedPaths ==
  ASSUME NEW d \in Drop, NEW target, IsTarget(d, target), NEW path \in DOMAIN target
  PROVE  path \in Seq(Title) \ {<< >>}
<1>1. \A i \in DOMAIN Entries[d] : Entries[d][i] \in Seq(Title)
  BY EntryTypes
<1> QED BY <1>1 DEF IsTarget

LEMMA RoutedStays ==
  ASSUME NEW fs, NEW gs, NEW C, NEW fs2, NEW gs2, NEW D, Parents(fs), IsChain(C, fs), IsChain(D, fs2),
         Grown(fs, gs, fs2, gs2), \A y \in DOMAIN gs : gs[y].folder \in DOMAIN fs,
         NEW d \in Drop, NEW r, IsDrop(d, r), Routed(C, fs, gs, d, r)
  PROVE  Routed(D, fs2, gs2, d, r)
<1>1. r.at # "idle" => r.base \in DOMAIN fs2
  BY DEF Routed, Grown
<1>2. ASSUME r.at \in Asking PROVE Spelled(D, fs2, r.parent, r.base, Entries[d][r.entry], r.level - 1)
  <2>1. r.level \in 1..Len(Entries[d][r.entry]) /\ r.entry \in 1..Len(Entries[d])
    BY <1>2 DEF IsDrop, Asking
  <2>2. r.level - 1 \in Nat
    BY <2>1
  <2>3. Spelled(C, fs, r.parent, r.base, Entries[d][r.entry], r.level - 1)
    BY <1>2 DEF Routed
  <2> QED BY <2>2, <2>3, SpelledStays
<1>3. ASSUME NEW path \in DOMAIN r.target PROVE Lands(D, fs2, gs2, r.target[path], r.base, path)
  <2>1. path \in Seq(Title) \ {<< >>}
    BY <1>3, CachedPaths DEF IsDrop
  <2>2. Lands(C, fs, gs, r.target[path], r.base, path)
    BY <1>3 DEF Routed
  <2> QED BY <2>1, <2>2, LandsStays
<1> QED BY <1>1, <1>2, <1>3 DEF Routed

\* A turn that neither finds nor makes anything.
LEMMA TurnRouted ==
  ASSUME NEW fs, NEW gs, NEW C, NEW d \in Drop, NEW r, NEW s, Routed(C, fs, gs, d, r), r.at \in Asking,
         s.at \in Asking \cup {"lost"}, s.base = r.base, s.parent = r.parent, s.entry = r.entry,
         s.level = r.level, s.target = r.target
  PROVE  Routed(C, fs, gs, d, s)
  BY DEF Routed, Asking

\* Going on to the next directory, or being done with the last.
LEMMA GoOnRouted ==
  ASSUME NEW fs, NEW gs, NEW C, Parents(fs), IsChain(C, fs), Drops, NEW d \in Drop,
         NEW base \in DOMAIN fs, NEW target, NEW from \in Nat \ {0}, GoOn(d, base, target, from),
         Cached(C, fs, gs, target, base), Passed(d, target, from)
  PROVE  Routed(C, fs, gs, d, drop'[d]) /\ \A e \in Drop : e # d => drop'[e] = drop[e]
<1> DEFINE next == NextEntry(d, DOMAIN target, from)
           i == CHOOSE x \in next : TRUE
           r == drop[d]
           had == DOMAIN target \cup {<< >>}
<1>1. DOMAIN r = DropFields /\ DOMAIN drop = Drop
  BY DEF Drops, IsDrop
<1>2. DOMAIN Entries[d] = 1..Len(Entries[d]) /\ Len(Entries[d]) \in Nat
  BY EntryTypes
<1>3. CASE next = {}
  <2> DEFINE s == [r EXCEPT !.at = "done", !.base = base, !.target = target]
  <2>1. s.at = "done" /\ s.base = base /\ s.target = target
    BY <1>1 DEF DropFields
  <2>2. drop' = [drop EXCEPT ![d] = s]
    BY <1>3 DEF GoOn
  <2> HIDE DEF s
  <2>3. drop'[d] = s /\ \A e \in Drop : e # d => drop'[e] = drop[e]
    BY <1>1, <2>2
  <2> DEFINE B == {j \in from..Len(Entries[d]) : Entries[d][j] \notin had}
  <2>4. B = {}
    <3> SUFFICES ASSUME B # {} PROVE FALSE
      OBVIOUS
    <3>1. B \in SUBSET Nat
      BY <1>2
    <3> HIDE DEF B
    <3>2. PICK n \in B : \A m \in B : n <= m
      BY <3>1, LeastNumber
    <3>3. n \in from..Len(Entries[d]) /\ Entries[d][n] \notin had
      BY <3>2 DEF B
    <3>4. \A j \in from..(n - 1) : j \in from..Len(Entries[d]) /\ ~ (n <= j)
      BY <1>2, <3>3
    <3>5. \A j \in from..(n - 1) : Entries[d][j] \in had
      BY <3>2, <3>4 DEF B
    <3>6. n \in next
      BY <3>3, <3>5 DEF NextEntry
    <3> QED BY <1>3, <3>6
  <2>5. \A j \in DOMAIN Entries[d] : Entries[d][j] \in had
    <3>1. \A j \in DOMAIN Entries[d] : j < from \/ j \in from..Len(Entries[d])
      BY <1>2
    <3> QED BY <2>4, <3>1 DEF Passed
  <2> QED BY <2>1, <2>3, <2>5 DEF Routed, Asking, Cached
<1>4. CASE next # {}
  <2> DEFINE s == [r EXCEPT !.at = "list", !.base = base, !.target = target, !.level = 1,
                            !.parent = base, !.entry = i]
  <2>1. i \in next
    BY <1>4
  <2>2. i \in from..Len(Entries[d]) /\ \A j \in from..(i - 1) : Entries[d][j] \in had
    BY <2>1 DEF NextEntry
  <2>3. drop' = [drop EXCEPT ![d] = s]
    BY <1>4 DEF GoOn
  <2> HIDE DEF i
  <2>4. s.at = "list" /\ s.base = base /\ s.target = target /\ s.level = 1 /\ s.parent = base /\ s.entry = i
    BY <1>1 DEF DropFields
  <2> HIDE DEF s
  <2>5. drop'[d] = s /\ \A e \in Drop : e # d => drop'[e] = drop[e]
    BY <1>1, <2>3
  <2>6. Spelled(C, fs, s.parent, s.base, Entries[d][s.entry], s.level - 1)
    <3>1. s.level - 1 = 0
      BY <2>4
    <3> QED BY <2>4, <3>1, SpelledHere
  <2>7. \A j \in DOMAIN Entries[d] : j < i => Entries[d][j] \in had
    <3>1. \A j \in DOMAIN Entries[d] : j < i => j < from \/ j \in from..(i - 1)
      BY <1>2, <2>2
    <3> QED BY <2>2, <3>1 DEF Passed
  <2> QED BY <2>4, <2>5, <2>6, <2>7 DEF Routed, Cached
<1> QED BY <1>3, <1>4

\* Finding or making the folder or gallery of the current name.
LEMMA EnterRouted ==
  ASSUME NEW fs, NEW gs, NEW C, Parents(fs), IsChain(C, fs), Drops, NEW d \in Drop, drop[d].at \in Asking,
         Routed(C, fs, gs, d, drop[d]), NEW x, Enter(d, x),
         AtGallery(d) => /\ x \in DOMAIN gs /\ gs[x].folder = drop[d].parent
                         /\ FoldOf[gs[x].title] = FoldOf[Name(d)],
         ~ AtGallery(d) => /\ x \in DOMAIN fs /\ fs[x].parent = drop[d].parent
                           /\ FoldOf[fs[x].title] = FoldOf[Name(d)]
  PROVE  Routed(C, fs, gs, d, drop'[d]) /\ \A e \in Drop : e # d => drop'[e] = drop[e]
<1> DEFINE r == drop[d]
           path == Path(d)
<1>1. /\ IsDrop(d, r) /\ DOMAIN drop = Drop /\ r.base \in DOMAIN fs /\ path = Entries[d][r.entry]
      /\ Spelled(C, fs, r.parent, r.base, path, r.level - 1)
      /\ \A q \in DOMAIN r.target : Lands(C, fs, gs, r.target[q], r.base, q)
      /\ \A j \in DOMAIN Entries[d] : j < r.entry => Entries[d][j] \in DOMAIN r.target \cup {<< >>}
  BY DEF Drops, Routed, Asking, Path
<1>2. /\ DOMAIN r = DropFields /\ r.entry \in 1..Len(Entries[d]) /\ r.level \in 1..Len(path)
      /\ Name(d) = path[r.level] /\ IsTarget(d, r.target) /\ path \in Seq(Title)
  BY <1>1, EntryTypes DEF IsDrop, Asking, Name
<1>3. DOMAIN Entries[d] = 1..Len(Entries[d]) /\ Len(Entries[d]) \in Nat /\ r.level \in Nat \ {0} /\ r.entry \in Nat \ {0}
  BY <1>2, EntryTypes
<1>4. CASE AtGallery(d)
  <2> DEFINE t == [q \in DOMAIN r.target \cup {path} |-> IF q = path THEN x ELSE r.target[q]]
  <2>1. GoOn(d, r.base, t, r.entry + 1)
    BY <1>4 DEF Enter
  <2>2. Lands(C, fs, gs, x, r.base, path)
    BY <1>1, <1>2, <1>4 DEF Lands, AtGallery
  <2>3. \A q \in DOMAIN t : Lands(C, fs, gs, t[q], r.base, q)
    BY <1>1, <2>2
  <2>4. \A j \in DOMAIN Entries[d] : j < r.entry + 1 => Entries[d][j] \in DOMAIN t \cup {<< >>}
    <3>1. \A j \in DOMAIN Entries[d] : j < r.entry + 1 => j < r.entry \/ j = r.entry
      BY <1>3
    <3> QED BY <1>1, <3>1
  <2>5. r.entry + 1 \in Nat \ {0}
    BY <1>3
  <2> DEFINE base == r.base
             from == r.entry + 1
  <2>6. base \in DOMAIN fs /\ from \in Nat \ {0} /\ GoOn(d, base, t, from)
    BY <1>1, <2>1, <2>5
  <2>7. Cached(C, fs, gs, t, base)
    BY <2>3 DEF Cached
  <2>8. Passed(d, t, from)
    BY <2>4 DEF Passed
  <2> HIDE DEF t, path, base, from
  <2> QED BY <2>6, <2>7, <2>8, GoOnRouted
<1>5. CASE ~ AtGallery(d)
  <2> DEFINE s == [r EXCEPT !.at = "list", !.level = r.level + 1, !.parent = x]
  <2>1. drop' = [drop EXCEPT ![d] = s]
    BY <1>1, <1>2, <1>5 DEF Enter, DropFields
  <2>2. /\ s.at = "list" /\ s.level = r.level + 1 /\ s.parent = x /\ s.base = r.base /\ s.entry = r.entry
        /\ s.target = r.target
    BY <1>2 DEF DropFields
  <2> HIDE DEF s
  <2>3. drop'[d] = s /\ \A e \in Drop : e # d => drop'[e] = drop[e]
    BY <1>1, <2>1
  <2>4. r.level - 1 \in Nat /\ (r.level - 1) + 1 = r.level /\ s.level - 1 = r.level
    BY <1>3, <2>2
  <2>5. FoldOf[fs[x].title] = FoldOf[path[(r.level - 1) + 1]]
    BY <1>2, <1>5, <2>4
  <2>6. Spelled(C, fs, x, r.base, path, (r.level - 1) + 1)
    <3> HIDE DEF path
    <3> QED BY <1>1, <1>5, <2>4, <2>5, SpelledDown
  <2> QED BY <1>1, <2>2, <2>3, <2>4, <2>6 DEF Routed, Asking
<1> QED BY <1>4, <1>5

-----------------------------------------------------------------------------
(* New rows have the slug of their title; a row that was renamed keeps its old slug. *)

Named ==
  /\ \A f \in DOMAIN folders' \ DOMAIN folders : folders'[f].slug = SlugOf[folders'[f].title]
  /\ \A g \in DOMAIN galleries' \ DOMAIN galleries : galleries'[g].slug = SlugOf[galleries'[g].title]

LEMMA SameNamed ==
  ASSUME DOMAIN folders' \subseteq DOMAIN folders, DOMAIN galleries' \subseteq DOMAIN galleries PROVE Named
  BY DEF Named

LEMMA InsertNamed ==
  ASSUME NEW x, NEW p, NEW t, NEW v, InsertFolder(x, p, t, v) \/ InsertGallery(x, p, t, v)
  PROVE  Named
<1>1. CASE InsertFolder(x, p, t, v)
  <2>1. galleries' = galleries /\ DOMAIN folders' = DOMAIN folders \cup {x}
    BY <1>1 DEF InsertFolder
  <2>2. x \notin DOMAIN folders => folders'[x].slug = SlugOf[folders'[x].title]
    BY <1>1 DEF InsertFolder
  <2> QED BY <2>1, <2>2 DEF Named
<1>2. CASE InsertGallery(x, p, t, v)
  <2>1. folders' = folders /\ DOMAIN galleries' = DOMAIN galleries \cup {x}
    BY <1>2 DEF InsertGallery
  <2>2. x \notin DOMAIN galleries => galleries'[x].slug = SlugOf[galleries'[x].title]
    BY <1>2 DEF InsertGallery
  <2> QED BY <2>1, <2>2 DEF Named
<1> QED BY <1>1, <1>2

LEMMA StudioNamed == ASSUME TreeNext PROVE Named
<1>1. ASSUME PostInserts PROVE Named
  BY <1>1, InsertNamed DEF PostInserts
<1>2. ASSUME TreeNext, ~ PostInserts
      PROVE  DOMAIN folders' \subseteq DOMAIN folders /\ DOMAIN galleries' \subseteq DOMAIN galleries
  BY <1>2 DEF TreeNext, PostFolder, PostGallery, PostRefused, ShowFolder, RenameFolder, ShowGallery,
     RenameGallery, SetFolder, SetGallery, DeleteFolder, DeleteGallery, KeepGalleries, DeletePhoto
<1> QED BY <1>1, <1>2, SameNamed

LEMMA ImportNamed == ASSUME ImportNext PROVE Named
<1>1. ASSUME MakeFolder \/ MakeGallery PROVE Named
  BY <1>1, InsertNamed DEF MakeFolder, MakeGallery
<1>2. ASSUME ImportNext, ~ MakeFolder, ~ MakeGallery
      PROVE  DOMAIN folders' \subseteq DOMAIN folders /\ DOMAIN galleries' \subseteq DOMAIN galleries
  BY <1>2 DEF ImportNext, StartImport, BeginAlbum, FindFolder, FindGallery, PublishGallery, SetGallery, StoreImage,
     UpsertImage, QueueImage, BeginItems, InsertItem, WriteRedirect, FinishImport, CrashImport, treeVars
<1> QED BY <1>1, <1>2, SameNamed

LEMMA DropNamed == ASSUME DropNext PROVE Named
<1> PICK d \in Drop :
      \/ \E f \in DOMAIN folders : StartDrop(d, f)
      \/ ListNames(d) \/ PostName(d) \/ InsertName(d) \/ InsertRefused(d) \/ Relist(d)
      \/ RequestFails(d)
  BY DEF DropNext
<1>1. ASSUME InsertName(d) PROVE Named
  BY <1>1, InsertNamed DEF InsertName
<1>2. ASSUME ~ InsertName(d) PROVE UNCHANGED <<folders, galleries>>
  BY <1>2 DEF StartDrop, ListNames, PostName, InsertRefused, Relist, RequestFails, treeVars
<1> QED BY <1>1, <1>2, SameNamed

LEMMA DropRowsStay == ASSUME Tree, DropNext PROVE RowsStay
<1> PICK d \in Drop :
      \/ \E f \in DOMAIN folders : StartDrop(d, f)
      \/ ListNames(d) \/ PostName(d) \/ InsertName(d) \/ InsertRefused(d) \/ Relist(d)
      \/ RequestFails(d)
  BY DEF DropNext
<1>1. ASSUME InsertName(d) PROVE RowsStay
  <2>1. PICK x \in Folder \cup Gallery :
          \/ InsertGallery(x, drop[d].parent, Name(d), drop[d].visibility)
          \/ InsertFolder(x, drop[d].parent, Name(d), drop[d].visibility)
    BY <1>1 DEF InsertName
  <2>2. UNCHANGED reshaped
    BY <1>1 DEF InsertName
  <2> QED BY <2>1, <2>2, NewGalleryStays, NewFolderStays
<1>2. ASSUME ~ InsertName(d) PROVE UNCHANGED treeVars
  BY <1>2 DEF StartDrop, ListNames, PostName, InsertRefused, Relist, RequestFails
<1> QED BY <1>1, <1>2, SameRowsStay DEF treeVars

\* What a step of Site does to the rows.
LEMMA RowsStep == ASSUME Tree, [Next]_siteVars PROVE RowsStay /\ Named
<1>1. ASSUME UNCHANGED treeVars PROVE RowsStay /\ Named
  BY <1>1, SameRowsStay, SameNamed DEF treeVars
<1>2. ASSUME Studio PROVE RowsStay /\ Named
  BY <1>2, StudioRowsStay, StudioNamed DEF Studio
<1>3. ASSUME Importing PROVE RowsStay /\ Named
  BY <1>3, ImportRowsStay, ImportNamed DEF Importing
<1>4. ASSUME Dropping PROVE RowsStay /\ Named
  BY <1>4, DropRowsStay, DropNamed DEF Dropping
<1>5. ASSUME Exporting \/ Scanning \/ Resetting \/ Ingesting \/ Operating \/ UNCHANGED siteVars PROVE UNCHANGED treeVars
  BY <1>5, ScriptsLeaveRows DEF Exporting, Scanning, Resetting, Ingesting, Operating, siteVars
<1> QED BY <1>1, <1>2, <1>3, <1>4, <1>5 DEF Next

Slugs == ~ reshaped => Slugged(folders, galleries)

LEMMA SlugsStep == ASSUME Slugs, TreeTypeOK', RowsStay, Named PROVE Slugs'
<1> SUFFICES ASSUME ~ reshaped' PROVE Slugged(folders', galleries')
  BY DEF Slugs, Slugged
<1>1. Slugged(folders, galleries)
  BY DEF Slugs, RowsStay
<1>2. ASSUME NEW f \in DOMAIN folders' PROVE folders'[f].title \in Title /\ folders'[f].slug = SlugOf[folders'[f].title]
  <2>1. folders'[f] \in FolderRow
    BY <1>2 DEF TreeTypeOK
  <2> QED BY <1>1, <1>2, <2>1 DEF FolderRow, Slugged, RowsStay, FolderStays, Named
<1>3. ASSUME NEW g \in DOMAIN galleries' PROVE galleries'[g].title \in Title /\ galleries'[g].slug = SlugOf[galleries'[g].title]
  <2>1. galleries'[g] \in GalleryRow
    BY <1>3 DEF TreeTypeOK
  <2> QED BY <1>1, <1>3, <2>1 DEF GalleryRow, Slugged, RowsStay, GalleryStays, Named
<1> QED BY <1>2, <1>3 DEF Slugged

-----------------------------------------------------------------------------
(* The invariant of FilesLandByPath.                                        *)

Route == ~ reshaped => \A d \in Drop : Routed(Chain, folders, galleries, d, drop[d])

LEMMA RowsGrow == ASSUME RowsStay, ~ reshaped' PROVE Grown(folders, galleries, folders', galleries')
  BY DEF RowsStay, FolderStays, GalleryStays, Grown

\* The facts about the tree before and after a step that the lemmas above ask for.
LEMMA TreesThen ==
  ASSUME Tree, Tree'
  PROVE  /\ Parents(folders) /\ Parents(folders') /\ IsChain(Chain, folders) /\ IsChain(Chain', folders')
         /\ \A g \in DOMAIN galleries : galleries[g].folder \in DOMAIN folders
<1>1. Whole(folders, galleries, items, spent) /\ Whole(folders', galleries', items', spent')
  BY DEF Tree
<1>2. \A g \in DOMAIN galleries : galleries[g].folder \in DOMAIN folders
  BY <1>1 DEF Whole, Intact
<1>3. Parents(folders) /\ Parents(folders')
  BY <1>1, TreeParents
<1> QED BY <1>2, <1>3, ChainNow, ChainNext

\* Before a drop does anything itself, what it knows holds in the new tree.
LEMMA StillRouted ==
  ASSUME Tree, Tree', Drops, Route, RowsStay, ~ reshaped', NEW d \in Drop
  PROVE  Routed(Chain', folders', galleries', d, drop[d])
<1>1. Routed(Chain, folders, galleries, d, drop[d]) /\ IsDrop(d, drop[d])
  BY DEF Route, RowsStay, Drops
<1> DEFINE C == Chain
           C2 == Chain'
           r == drop[d]
<1>2. Grown(folders, galleries, folders', galleries')
  BY RowsGrow
<1>3. /\ Parents(folders) /\ IsChain(C, folders) /\ IsChain(C2, folders')
      /\ \A g \in DOMAIN galleries : galleries[g].folder \in DOMAIN folders
  BY TreesThen
<1>4. Routed(C, folders, galleries, d, r) /\ IsDrop(d, r)
  BY <1>1
<1> HIDE DEF C, C2, r
<1>5. Routed(C2, folders', galleries', d, r)
  BY <1>2, <1>3, <1>4, RoutedStays
<1> QED BY <1>5 DEF C2, r

LEMMA OthersRoute == ASSUME Tree, Tree', Drops, Route, RowsStay, drop' = drop PROVE Route'
<1> SUFFICES ASSUME ~ reshaped', NEW d \in Drop PROVE Routed(Chain', folders', galleries', d, drop'[d])
  BY DEF Route
<1> QED BY StillRouted

\* One drop takes its turn.
LEMMA TurnsRoute ==
  ASSUME Tree, Tree', Drops, Route, RowsStay, NEW d \in Drop,
         ~ reshaped' => /\ Routed(Chain', folders', galleries', d, drop'[d])
                        /\ \A e \in Drop : e # d => drop'[e] = drop[e]
  PROVE  Route'
<1> SUFFICES ASSUME ~ reshaped', NEW e \in Drop PROVE Routed(Chain', folders', galleries', e, drop'[e])
  BY DEF Route
<1>1. CASE e = d
  BY <1>1
<1>2. CASE e # d
  BY <1>2, StillRouted
<1> QED BY <1>1, <1>2

LEMMA EntersRoute ==
  ASSUME Tree, Tree', Drops, Route, RowsStay, NEW d \in Drop, drop[d].at \in Asking, NEW x, Enter(d, x),
         AtGallery(d) => /\ x \in DOMAIN galleries' /\ galleries'[x].folder = drop[d].parent
                         /\ FoldOf[galleries'[x].title] = FoldOf[Name(d)],
         ~ AtGallery(d) => /\ x \in DOMAIN folders' /\ folders'[x].parent = drop[d].parent
                           /\ FoldOf[folders'[x].title] = FoldOf[Name(d)]
  PROVE  Route'
<1> DEFINE C2 == Chain'
           fs2 == folders'
           gs2 == galleries'
<1> SUFFICES ASSUME ~ reshaped'
             PROVE  Routed(C2, fs2, gs2, d, drop'[d]) /\ \A e \in Drop : e # d => drop'[e] = drop[e]
  BY TurnsRoute
<1>1. Routed(C2, fs2, gs2, d, drop[d])
  BY StillRouted
<1>2. Parents(fs2) /\ IsChain(C2, fs2)
  BY TreesThen
<1>3. AtGallery(d) => /\ x \in DOMAIN gs2 /\ gs2[x].folder = drop[d].parent
                      /\ FoldOf[gs2[x].title] = FoldOf[Name(d)]
  OBVIOUS
<1>4. ~ AtGallery(d) => /\ x \in DOMAIN fs2 /\ fs2[x].parent = drop[d].parent
                        /\ FoldOf[fs2[x].title] = FoldOf[Name(d)]
  OBVIOUS
<1> HIDE DEF C2, fs2, gs2
<1> QED BY <1>1, <1>2, <1>3, <1>4, EnterRouted

LEMMA StartRoute ==
  ASSUME Tree, Tree', Drops, Route, NEW d \in Drop, NEW f \in DOMAIN folders, StartDrop(d, f) PROVE Route'
<1>1. UNCHANGED treeVars /\ RowsStay /\ GoOn(d, f, << >>, 1)
  BY SameRowsStay DEF StartDrop, treeVars
<1> DEFINE C2 == Chain'
           fs2 == folders'
           gs2 == galleries'
<1>2. f \in DOMAIN fs2 /\ Parents(fs2) /\ IsChain(C2, fs2)
  BY <1>1, TreesThen DEF treeVars
<1>3. Cached(C2, fs2, gs2, << >>, f) /\ 1 \in Nat \ {0}
  BY DEF Cached
<1>4. Passed(d, << >>, 1)
  BY EntryTypes DEF Passed
<1>5. Routed(C2, fs2, gs2, d, drop'[d]) /\ \A e \in Drop : e # d => drop'[e] = drop[e]
  <2> HIDE DEF C2, fs2, gs2
  <2> QED BY <1>1, <1>2, <1>3, <1>4, GoOnRouted
<1> QED BY <1>1, <1>5, TurnsRoute

\* A drop waits for another answer.
LEMMA WaitsRoute ==
  ASSUME Tree, Tree', Drops, Route, RowsStay, NEW d \in Drop, drop[d].at \in Asking,
         NEW at \in Asking \cup {"lost"}, NEW v, NEW failed,
         drop' = [drop EXCEPT ![d] = [@ EXCEPT !.at = at, !.visibility = v, !.failed = failed]]
  PROVE  Route'
<1> DEFINE s == [drop[d] EXCEPT !.at = at, !.visibility = v, !.failed = failed]
           r == drop[d]
           C2 == Chain'
           fs2 == folders'
           gs2 == galleries'
<1>1. DOMAIN r = DropFields /\ DOMAIN drop = Drop
  BY DEF Drops, IsDrop
<1>2. drop'[d] = s /\ \A e \in Drop : e # d => drop'[e] = drop[e]
  BY <1>1
<1>3. s.at = at /\ s.base = r.base /\ s.parent = r.parent /\ s.entry = r.entry /\ s.level = r.level /\ s.target = r.target
  BY <1>1 DEF DropFields
<1>4. ~ reshaped' => Routed(C2, fs2, gs2, d, r)
  BY StillRouted
<1>5. r.at \in Asking
  OBVIOUS
<1>6. ~ reshaped' => Routed(C2, fs2, gs2, d, s)
  <2> HIDE DEF s, r, C2, fs2, gs2
  <2> QED BY <1>3, <1>4, <1>5, TurnRouted
<1> HIDE DEF s
<1> QED BY <1>2, <1>6, TurnsRoute

LEMMA DropRoute == ASSUME Tree, Tree', Drops, Route, DropNext PROVE Route'
<1> PICK d \in Drop :
      \/ \E f \in DOMAIN folders : StartDrop(d, f)
      \/ ListNames(d) \/ PostName(d) \/ InsertName(d) \/ InsertRefused(d) \/ Relist(d)
      \/ RequestFails(d)
  BY DEF DropNext
<1>0. DOMAIN drop = Drop /\ DOMAIN drop[d] = DropFields
  BY DEF Drops, IsDrop
<1>1. ASSUME NEW at \in Asking \cup {"lost"}, Turn(d, at), drop[d].at \in Asking, RowsStay PROVE Route'
  <2>1. drop' = [drop EXCEPT ![d] = [@ EXCEPT !.at = at, !.visibility = drop[d].visibility, !.failed = drop[d].failed]]
    BY <1>0, <1>1 DEF Turn, DropFields
  <2> QED BY <1>1, <2>1, WaitsRoute
<1>2. ASSUME NEW at \in Asking \cup {"lost"}, Fail(d, at), drop[d].at \in Asking, RowsStay PROVE Route'
  <2>1. drop' = [drop EXCEPT ![d] = [@ EXCEPT !.at = at, !.visibility = drop[d].visibility, !.failed = TRUE]]
    BY <1>0, <1>2 DEF Fail, DropFields
  <2> QED BY <1>2, <2>1, WaitsRoute
<1>3. ASSUME UNCHANGED treeVars, drop[d].at \in Asking, NEW x \in Homonyms(d), Enter(d, x) PROVE Route'
  <2>1. RowsStay
    BY <1>3, SameRowsStay DEF treeVars
  <2>2. AtGallery(d) => /\ x \in DOMAIN galleries' /\ galleries'[x].folder = drop[d].parent
                        /\ FoldOf[galleries'[x].title] = FoldOf[Name(d)]
    BY <1>3 DEF Homonyms, treeVars
  <2>3. ~ AtGallery(d) => /\ x \in DOMAIN folders' /\ folders'[x].parent = drop[d].parent
                          /\ FoldOf[folders'[x].title] = FoldOf[Name(d)]
    BY <1>3 DEF Homonyms, Children, treeVars
  <2> QED BY <1>3, <2>1, <2>2, <2>3, EntersRoute
<1>4. ASSUME ListNames(d) \/ Relist(d) PROVE Route'
  <2>1. /\ UNCHANGED treeVars /\ RowsStay /\ drop[d].at \in Asking
        /\ (\E x \in Homonyms(d) : Enter(d, x)) \/ Turn(d, "post") \/ Turn(d, "lost")
    BY <1>4, SameRowsStay DEF ListNames, Relist, Asking, treeVars
  <2> QED BY <1>1, <1>3, <2>1 DEF Asking
<1>5. ASSUME InsertRefused(d) PROVE Route'
  <2>1. RowsStay /\ drop[d].at \in Asking /\ Turn(d, "relist")
    BY <1>5, SameRowsStay DEF InsertRefused, Asking, treeVars
  <2> QED BY <1>1, <2>1 DEF Asking
<1>6. ASSUME RequestFails(d) PROVE Route'
  <2>1. RowsStay /\ drop[d].at \in Asking /\ (Fail(d, "lost") \/ Fail(d, "relist"))
    BY <1>6, SameRowsStay DEF RequestFails, Asking, treeVars
  <2> QED BY <1>2, <2>1 DEF Asking
<1>7. ASSUME PostName(d) PROVE Route'
  <2>1. RowsStay /\ drop[d].at \in Asking /\ "insert" \in Asking
    BY <1>7, SameRowsStay DEF PostName, Asking, treeVars
  <2>2. drop' = [drop EXCEPT ![d] = [@ EXCEPT !.at = "insert", !.visibility = DefaultVisibility(drop[d].parent),
                                              !.failed = drop[d].failed]]
    BY <1>0, <1>7 DEF PostName, DropFields
  <2> QED BY <2>1, <2>2, WaitsRoute
<1>8. ASSUME InsertName(d) PROVE Route'
  <2>1. PICK x \in Folder \cup Gallery :
          /\ AtGallery(d) => InsertGallery(x, drop[d].parent, Name(d), drop[d].visibility)
          /\ ~ AtGallery(d) => InsertFolder(x, drop[d].parent, Name(d), drop[d].visibility)
          /\ Enter(d, x) \/ Fail(d, "relist")
    BY <1>8 DEF InsertName
  <2>2. UNCHANGED reshaped /\ drop[d].at \in Asking
    BY <1>8 DEF InsertName, Asking
  <2>3. RowsStay
    BY <2>1, <2>2, NewGalleryStays, NewFolderStays
  <2>4. AtGallery(d) => /\ x \in DOMAIN galleries' /\ galleries'[x].folder = drop[d].parent
                        /\ FoldOf[galleries'[x].title] = FoldOf[Name(d)]
    BY <2>1 DEF InsertGallery
  <2>5. ~ AtGallery(d) => /\ x \in DOMAIN folders' /\ folders'[x].parent = drop[d].parent
                          /\ FoldOf[folders'[x].title] = FoldOf[Name(d)]
    BY <2>1 DEF InsertFolder
  <2>6. CASE Enter(d, x)
    BY <2>2, <2>3, <2>4, <2>5, <2>6, EntersRoute
  <2>7. CASE Fail(d, "relist")
    BY <1>2, <2>2, <2>3, <2>7 DEF Asking
  <2> QED BY <2>1, <2>6, <2>7
<1>9. ASSUME NEW f \in DOMAIN folders, StartDrop(d, f) PROVE Route'
  BY <1>9, StartRoute
<1> QED BY <1>4, <1>5, <1>6, <1>7, <1>8, <1>9

LEMMA RouteStep == ASSUME Tree, Tree', Drops, Route, [Next]_siteVars PROVE Route'
<1>1. CASE Dropping
  BY <1>1, DropRoute DEF Dropping
<1>2. CASE Studio \/ Exporting \/ Importing \/ Scanning \/ Resetting \/ Ingesting \/ Operating \/ UNCHANGED siteVars
  <2>1. drop' = drop
    BY <1>2 DEF Studio, Exporting, Importing, Scanning, Resetting, Ingesting, Operating, siteVars, dropVars
  <2> QED BY <2>1, RowsStep, OthersRoute
<1> QED BY <1>1, <1>2 DEF Next

\* At the start nothing was renamed yet.
Unrenamed == \A s \in Scene : Slugged(s.folders, s.galleries)

LEMMA RouteStart == ASSUME Unrenamed, Init PROVE Route /\ Slugs
<1>1. PICK s \in Scene : TreeInit(s) /\ DropInit(s.glitches)
  BY DEF Init
<1>2. Slugged(folders, galleries)
  BY <1>1 DEF Unrenamed, TreeInit
<1>3. \A d \in Drop : drop[d] = Idle
  BY <1>1 DEF DropInit
<1>4. \A d \in Drop : Routed(Chain, folders, galleries, d, Idle)
  BY DEF Routed, Idle, Asking
<1> QED BY <1>2, <1>3, <1>4 DEF Route, Slugs

\* Drops of directories find or make each folder and gallery on their paths, asking
\* the server each time (organizeDroppedFiles), while other drops, the studio and the
\* importer work on the same tree: when one is through, every file from a directory
\* goes to the gallery its path spells, and drops of the same path on one folder
\* agree on it -- for any number of drops, files, levels and titles, unless
\* something was renamed or deleted.
THEOREM DropsLandByPath == ASSUME Unrenamed PROVE Spec => []FilesLandByPath
<1> DEFINE IInv == Tree /\ Records /\ Types /\ Slugs /\ Route
<1>1. Init => IInv
  BY TreeStart, RecordsStart, TypesStart, RouteStart
<1>2. IInv /\ [Next]_siteVars => IInv'
  <2> SUFFICES ASSUME IInv, [Next]_siteVars PROVE IInv'
    OBVIOUS
  <2>1. Tree' /\ Records' /\ Types'
    BY TreeStep, RecordsStep, TypesStep
  <2>2. Drops /\ TreeTypeOK'
    BY <2>1 DEF Types, DropTypes
  <2>3. Slugs' /\ Route'
    BY <2>1, <2>2, RowsStep, SlugsStep, RouteStep
  <2> QED BY <2>1, <2>3
<1>3. IInv => FilesLandByPath
  <2> SUFFICES ASSUME IInv, ~ reshaped, NEW d \in Drop, drop[d].at = "done", NEW i \in DOMAIN Entries[d]
               PROVE  LET g == Target(d, i) IN
                        IF Entries[d][i] = << >> THEN g = NoGallery
                        ELSE /\ g \in DOMAIN galleries
                             /\ TitlesBelow(drop[d].base, g) = Folded(Entries[d][i])
                             /\ \A e \in Drop : \A j \in DOMAIN Entries[e] :
                                  drop[e].at = "done" /\ drop[e].base = drop[d].base
                                    /\ Folded(Entries[e][j]) = Folded(Entries[d][i]) => Target(e, j) = g
    BY DEF FilesLandByPath
  <2> DEFINE path == Entries[d][i]
             g == Target(d, i)
             base == drop[d].base
             C == Chain
  <2>0. /\ \A e \in Drop : IsDrop(e, drop[e]) /\ Routed(C, folders, galleries, e, drop[e])
        /\ Slugged(folders, galleries) /\ Whole(folders, galleries, items, spent) /\ IsChain(C, folders)
    BY ChainNow DEF Types, DropTypes, Drops, Route, Slugs, Tree
  <2>1. CASE path = << >>
    <3>1. path \notin DOMAIN drop[d].target
      BY <2>0, <2>1 DEF IsDrop, IsTarget
    <3> QED BY <2>1, <3>1 DEF Target
  <2>2. CASE path # << >>
    <3>1. ASSUME NEW e \in Drop, NEW j \in DOMAIN Entries[e], drop[e].at = "done", Entries[e][j] # << >>
          PROVE  Lands(C, folders, galleries, Target(e, j), drop[e].base, Entries[e][j])
      BY <2>0, <3>1 DEF Routed, Target
    <3>2. ASSUME NEW e \in Drop, NEW j \in DOMAIN Entries[e] PROVE Entries[e][j] \in Seq(Title)
      BY <3>2, EntryTypes
    <3>3. Lands(C, folders, galleries, g, base, path) /\ path \in Seq(Title) \ {<< >>}
      BY <2>2, <3>1, <3>2
    <3>4. g \in DOMAIN galleries
      BY <3>3 DEF Lands
    <3>5. TitlesBelow(base, g) = Folded(path)
      BY <3>3, LandsByTitle
    <3>6. ASSUME NEW e \in Drop, NEW j \in DOMAIN Entries[e], drop[e].at = "done", drop[e].base = base,
                 Folded(Entries[e][j]) = Folded(path)
          PROVE  Target(e, j) = g
      <4> DEFINE other == Entries[e][j]
                 h == Target(e, j)
      <4>1. other # << >>
        <5>1. DOMAIN Folded(other) = DOMAIN other /\ DOMAIN Folded(path) = DOMAIN path
          BY DEF Folded
        <5>2. DOMAIN path # {} /\ \A s \in Seq(Title) : s = << >> => DOMAIN s = {}
          <6> HIDE DEF path
          <6>1. path \in Seq(Title) /\ path # << >>
            BY <3>3
          <6>2. DOMAIN path = 1..Len(path) /\ Len(path) \in Nat \ {0}
            BY <6>1
          <6>3. 1 \in DOMAIN path
            BY <6>2
          <6>4. ASSUME NEW s \in Seq(Title), s = << >> PROVE DOMAIN s = {}
            <7>1. Len(s) = 0 /\ DOMAIN s = 1..Len(s)
              BY <6>4
            <7> QED BY <7>1
          <6> QED BY <6>3, <6>4
        <5> QED BY <3>2, <3>6, <5>1, <5>2
      <4>2. Lands(C, folders, galleries, h, base, other) /\ other \in Seq(Title)
        BY <3>1, <3>2, <3>6, <4>1
      <4>3. Folded(path) = Folded(other)
        BY <3>6
      <4> HIDE DEF C, base, path, other, g, h
      <4>4. g = h
        BY <2>0, <3>3, <4>2, <4>3, LandsOnce
      <4> QED BY <4>4 DEF g, h
    <3> HIDE DEF C
    <3> QED BY <2>2, <3>4, <3>5, <3>6
  <2> QED BY <2>1, <2>2
<1> QED BY <1>1, <1>2, <1>3, PTL DEF Spec
==============================================================================
