----------------------------- MODULE SiteProofs ------------------------------
(***************************************************************************)
(* What is proved of Site for every tree, drop, manifest and bucket: the   *)
(* tree stays a tree, and then the views of what is public agree; the      *)
(* exporter's records stay true; what each process holds has its type, and *)
(* whoever queues an asset has its row.                                    *)
(***************************************************************************)
EXTENDS Site, TLAPS

\* The invariant, of the tree's variables given as arguments.
Whole(fs, gs, is, sp) ==
  /\ DOMAIN fs \subseteq Folder
  /\ DOMAIN fs \cup DOMAIN gs \subseteq sp
  /\ Intact(fs, gs, is)

Tree == Whole(folders, galleries, items, spent)

-----------------------------------------------------------------------------
(* What each kind of write does to a tree.                                 *)

NoChildBut(fs) == \A f, x \in DOMAIN fs :
  fs[f].parent = fs[x].parent /\ fs[f].parent # NoFolder /\ fs[f].slug = fs[x].slug => f = x
WellFounded(fs) == \A S \in SUBSET DOMAIN fs : S # {} => \E f \in S : fs[f].parent \notin S

\* A new folder has no children, and its place is free.
LEMMA InsertFolderKeeps ==
  ASSUME NEW fs, NEW gs, NEW is, NEW sp, Whole(fs, gs, is, sp),
         NEW f \in Folder, f \notin sp, NEW p, NEW s, NEW fs2,
         p = NoFolder \/ (p \in DOMAIN fs /\ \A x \in DOMAIN fs : ~ (fs[x].parent = p /\ fs[x].slug = s)),
         DOMAIN fs2 = DOMAIN fs \cup {f},
         \A x \in DOMAIN fs : fs2[x] = fs[x],
         fs2[f].parent = p, fs2[f].slug = s
  PROVE  Whole(fs2, gs, is, sp \cup {f})
<1> DEFINE W == Whole(fs, gs, is, sp)
<1>1. /\ DOMAIN fs \subseteq Folder /\ DOMAIN fs \cup DOMAIN gs \subseteq sp
      /\ \A x \in DOMAIN fs : fs[x].parent \in DOMAIN fs \cup {NoFolder}
      /\ WellFounded(fs)
      /\ \A g \in DOMAIN gs : gs[g].folder \in DOMAIN fs
      /\ \A i \in DOMAIN is : i[1] \in DOMAIN gs
      /\ NoChildBut(fs)
      /\ \A g, x \in DOMAIN gs : gs[g].folder = gs[x].folder /\ gs[g].slug = gs[x].slug => g = x
  BY DEF Whole, Intact, NoChildBut, WellFounded
<1>2. f \notin DOMAIN fs /\ f # NoFolder
  BY <1>1, SceneAssumption
<1>3. \A x \in DOMAIN fs2 : fs2[x].parent \in DOMAIN fs2 \cup {NoFolder}
  BY <1>1
<1>4. WellFounded(fs2)
  <2> SUFFICES ASSUME NEW S \in SUBSET DOMAIN fs2, S # {}
               PROVE  \E x \in S : fs2[x].parent \notin S
    BY DEF WellFounded
  <2>1. CASE S \ {f} = {}
    <3>1. S = {f} /\ fs2[f].parent # f
      BY <2>1, <1>1, <1>2
    <3> QED BY <3>1
  <2>2. CASE S \ {f} # {}
    <3>1. PICK x \in S \ {f} : fs[x].parent \notin S \ {f}
      BY <2>2, <1>1 DEF WellFounded
    <3>2. fs2[x].parent = fs[x].parent /\ fs[x].parent # f
      BY <1>1, <1>2, <3>1
    <3> QED BY <3>1, <3>2
  <2> QED BY <2>1, <2>2
<1>5. NoChildBut(fs2)
  <2> SUFFICES ASSUME NEW x \in DOMAIN fs2, NEW y \in DOMAIN fs2,
                      fs2[x].parent = fs2[y].parent, fs2[x].parent # NoFolder, fs2[x].slug = fs2[y].slug
               PROVE  x = y
    BY DEF NoChildBut
  <2>1. CASE x # f /\ y # f
    BY <2>1, <1>1 DEF NoChildBut
  <2>2. CASE x = f \/ y = f
    BY <2>2, <1>1
  <2> QED BY <2>1, <2>2
<1> QED BY <1>1, <1>3, <1>4, <1>5 DEF Whole, Intact, NoChildBut, WellFounded

\* A new gallery holds nothing, and its slug is free in its folder.
LEMMA InsertGalleryKeeps ==
  ASSUME NEW fs, NEW gs, NEW is, NEW sp, Whole(fs, gs, is, sp),
         NEW g, g \notin sp, NEW p \in DOMAIN fs, NEW s, NEW gs2,
         \A x \in DOMAIN gs : ~ (gs[x].folder = p /\ gs[x].slug = s),
         DOMAIN gs2 = DOMAIN gs \cup {g},
         \A x \in DOMAIN gs : gs2[x] = gs[x],
         gs2[g].folder = p, gs2[g].slug = s
  PROVE  Whole(fs, gs2, is, sp \cup {g})
<1>1. \A x \in DOMAIN gs2 : gs2[x].folder \in DOMAIN fs
  BY DEF Whole, Intact
<1>2. \A i \in DOMAIN is : i[1] \in DOMAIN gs2
  BY DEF Whole, Intact
<1>3. ASSUME NEW x \in DOMAIN gs2, NEW y \in DOMAIN gs2,
             gs2[x].folder = gs2[y].folder, gs2[x].slug = gs2[y].slug
      PROVE  x = y
  <2>1. CASE x # g /\ y # g
    BY <2>1, <1>3 DEF Whole, Intact
  <2>2. CASE x = g \/ y = g
    BY <2>2, <1>3
  <2> QED BY <2>1, <2>2
<1> QED BY <1>1, <1>2, <1>3 DEF Whole, Intact

\* A write that leaves parents and slugs as they are.
LEMMA RewriteKeeps ==
  ASSUME NEW fs, NEW gs, NEW is, NEW sp, Whole(fs, gs, is, sp), NEW fs2, NEW gs2,
         DOMAIN fs2 = DOMAIN fs, \A x \in DOMAIN fs : fs2[x].parent = fs[x].parent /\ fs2[x].slug = fs[x].slug,
         DOMAIN gs2 = DOMAIN gs, \A x \in DOMAIN gs : gs2[x].folder = gs[x].folder /\ gs2[x].slug = gs[x].slug
  PROVE  Whole(fs2, gs2, is, sp)
<1>1. \A S \in SUBSET DOMAIN fs2 : S # {} => \E f \in S : fs2[f].parent \notin S
  BY DEF Whole, Intact
<1>2. \A f, x \in DOMAIN fs2 : fs2[f].parent = fs2[x].parent /\ fs2[f].parent # NoFolder
                               /\ fs2[f].slug = fs2[x].slug => f = x
  BY DEF Whole, Intact
<1>3. \A g, x \in DOMAIN gs2 : gs2[g].folder = gs2[x].folder /\ gs2[g].slug = gs2[x].slug => g = x
  BY DEF Whole, Intact
<1>4. /\ \A f \in DOMAIN fs2 : fs2[f].parent \in DOMAIN fs2 \cup {NoFolder}
      /\ \A g \in DOMAIN gs2 : gs2[g].folder \in DOMAIN fs2
      /\ \A i \in DOMAIN is : i[1] \in DOMAIN gs2
      /\ DOMAIN fs2 \subseteq Folder /\ DOMAIN fs2 \cup DOMAIN gs2 \subseteq sp
  BY DEF Whole, Intact
<1> QED BY <1>1, <1>2, <1>3, <1>4 DEF Whole, Intact

\* A deletion that takes along what refers to the rows it takes.
LEMMA DeleteKeeps ==
  ASSUME NEW fs, NEW gs, NEW is, NEW sp, Whole(fs, gs, is, sp), NEW fs2, NEW gs2, NEW is2,
         DOMAIN fs2 \subseteq DOMAIN fs, \A x \in DOMAIN fs2 : fs2[x] = fs[x],
         DOMAIN gs2 \subseteq DOMAIN gs, \A x \in DOMAIN gs2 : gs2[x] = gs[x],
         \A x \in DOMAIN fs2 : fs[x].parent \in DOMAIN fs => fs[x].parent \in DOMAIN fs2,
         \A x \in DOMAIN gs2 : gs[x].folder \in DOMAIN fs2,
         \A i \in DOMAIN is2 : i[1] \in DOMAIN gs2
  PROVE  Whole(fs2, gs2, is2, sp)
<1>1. \A S \in SUBSET DOMAIN fs2 : S # {} => \E f \in S : fs2[f].parent \notin S
  <2> SUFFICES ASSUME NEW S \in SUBSET DOMAIN fs2, S # {}
               PROVE  \E f \in S : fs2[f].parent \notin S
    OBVIOUS
  <2>1. S \in SUBSET DOMAIN fs
    OBVIOUS
  <2>2. PICK f \in S : fs[f].parent \notin S
    BY <2>1 DEF Whole, Intact
  <2> QED BY <2>2
<1>2. \A f, x \in DOMAIN fs2 : fs2[f].parent = fs2[x].parent /\ fs2[f].parent # NoFolder
                               /\ fs2[f].slug = fs2[x].slug => f = x
  BY DEF Whole, Intact
<1>3. \A g, x \in DOMAIN gs2 : gs2[g].folder = gs2[x].folder /\ gs2[g].slug = gs2[x].slug => g = x
  BY DEF Whole, Intact
<1>4. /\ \A f \in DOMAIN fs2 : fs2[f].parent \in DOMAIN fs2 \cup {NoFolder}
      /\ \A g \in DOMAIN gs2 : gs2[g].folder \in DOMAIN fs2
      /\ DOMAIN fs2 \subseteq Folder /\ DOMAIN fs2 \cup DOMAIN gs2 \subseteq sp
  BY DEF Whole, Intact
<1> QED BY <1>1, <1>2, <1>3, <1>4 DEF Whole, Intact

-----------------------------------------------------------------------------
(* The writes of the model.                                                *)

LEMMA InsertFolderStep ==
  ASSUME Tree, NEW f \in Folder, NEW p, NEW t, NEW v, InsertFolder(f, p, t, v), UNCHANGED items
  PROVE  Tree'
<1>1. /\ f \notin spent /\ spent' = spent \cup {f} /\ galleries' = galleries
      /\ DOMAIN folders' = DOMAIN folders \cup {f}
      /\ folders'[f] = [parent |-> p, title |-> t, slug |-> SlugOf[t], visibility |-> v]
  BY DEF InsertFolder
<1>2. \A x \in DOMAIN folders : folders'[x] = folders[x]
  <2>1. f \notin DOMAIN folders
    BY <1>1 DEF Tree, Whole
  <2> QED BY <2>1 DEF InsertFolder
<1>3. p = NoFolder \/ (p \in DOMAIN folders
                         /\ \A x \in DOMAIN folders : ~ (folders[x].parent = p /\ folders[x].slug = SlugOf[t]))
  BY DEF InsertFolder, CanInsertFolder, Matching
<1>4. folders'[f].parent = p /\ folders'[f].slug = SlugOf[t]
  BY <1>1
<1>5. Whole(folders', galleries, items, spent \cup {f})
  BY <1>1, <1>2, <1>3, <1>4, InsertFolderKeeps DEF Tree
<1> QED BY <1>1, <1>5 DEF Tree

LEMMA InsertGalleryStep ==
  ASSUME Tree, NEW g, NEW p, NEW t, NEW v, InsertGallery(g, p, t, v), UNCHANGED items
  PROVE  Tree'
<1>1. /\ g \notin spent /\ spent' = spent \cup {g} /\ folders' = folders
      /\ DOMAIN galleries' = DOMAIN galleries \cup {g}
      /\ galleries'[g] = [folder |-> p, title |-> t, slug |-> SlugOf[t], visibility |-> v, published |-> FALSE]
  BY DEF InsertGallery
<1>2. \A x \in DOMAIN galleries : galleries'[x] = galleries[x]
  <2>1. g \notin DOMAIN galleries
    BY <1>1 DEF Tree, Whole
  <2> QED BY <2>1 DEF InsertGallery
<1>3. p \in DOMAIN folders /\ \A x \in DOMAIN galleries : ~ (galleries[x].folder = p /\ galleries[x].slug = SlugOf[t])
  BY DEF InsertGallery, CanInsertGallery
<1>4. galleries'[g].folder = p /\ galleries'[g].slug = SlugOf[t]
  BY <1>1
<1>5. Whole(folders, galleries', items, spent \cup {g})
  <2>1. Whole(folders, galleries, items, spent) /\ g \notin spent /\ p \in DOMAIN folders
    BY <1>1, <1>3 DEF Tree
  <2>2. DOMAIN galleries' = DOMAIN galleries \cup {g}
    BY <1>1
  <2>3. \A x \in DOMAIN galleries : ~ (galleries[x].folder = p /\ galleries[x].slug = SlugOf[t])
    BY <1>3
  <2>4. galleries'[g].folder = p
    BY <1>4
  <2>5. galleries'[g].slug = SlugOf[t]
    BY <1>4
  <2> QED BY ONLY <2>1, <2>2, <2>3, <2>4, <2>5, <1>2, InsertGalleryKeeps
<1> QED BY <1>1, <1>5 DEF Tree

LEMMA SetFolderStep ==
  ASSUME Tree, NEW f \in DOMAIN folders, NEW t, NEW v,
         SetFolder(f, [parent |-> folders[f].parent, title |-> t, slug |-> folders[f].slug, visibility |-> v]),
         UNCHANGED <<galleries, items, spent>>
  PROVE  Tree'
<1>1. DOMAIN folders' = DOMAIN folders
  BY DEF SetFolder
<1>2. \A x \in DOMAIN folders : folders'[x].parent = folders[x].parent /\ folders'[x].slug = folders[x].slug
  BY DEF SetFolder
<1>3. Whole(folders', galleries, items, spent)
  BY <1>1, <1>2, RewriteKeeps DEF Tree
<1> QED BY <1>3 DEF Tree

LEMMA SetGalleryStep ==
  ASSUME Tree, NEW g \in DOMAIN galleries, NEW t, NEW v, NEW p,
         SetGallery(g, [folder |-> galleries[g].folder, title |-> t, slug |-> galleries[g].slug,
                        visibility |-> v, published |-> p]),
         UNCHANGED <<folders, items, spent>>
  PROVE  Tree'
<1>1. DOMAIN galleries' = DOMAIN galleries
  BY DEF SetGallery
<1>2. \A x \in DOMAIN galleries : galleries'[x].folder = galleries[x].folder /\ galleries'[x].slug = galleries[x].slug
  BY DEF SetGallery
<1>3. Whole(folders, galleries', items, spent)
  BY <1>1, <1>2, RewriteKeeps DEF Tree
<1> QED BY <1>3 DEF Tree

LEMMA DeleteFolderStep ==
  ASSUME Tree, NEW f, DeleteFolder(f)
  PROVE  Tree'
<1>1. /\ DOMAIN folders' = DOMAIN folders \ Below(f)
      /\ \A x \in DOMAIN folders' : folders'[x] = folders[x]
      /\ spent' = spent
  BY DEF DeleteFolder
<1>2. /\ DOMAIN galleries' = {g \in DOMAIN galleries : galleries[g].folder \notin Below(f)}
      /\ \A g \in DOMAIN galleries' : galleries'[g] = galleries[g]
      /\ \A i \in DOMAIN items' : i[1] \in DOMAIN galleries'
  BY DEF DeleteFolder, KeepGalleries
<1>3. \A x \in DOMAIN folders : folders[x].parent \in Below(f) => x \in Below(f)
  <2> SUFFICES ASSUME NEW x \in DOMAIN folders, folders[x].parent \in Below(f),
                      NEW S \in SUBSET DOMAIN folders, f \in S,
                      \A y \in DOMAIN folders : folders[y].parent \in S => y \in S
               PROVE  x \in S
    BY DEF Below
  <2> QED BY DEF Below
<1>4. \A x \in DOMAIN folders' : folders[x].parent \in DOMAIN folders => folders[x].parent \in DOMAIN folders'
  BY <1>1, <1>3
<1>5. \A g \in DOMAIN galleries' : galleries[g].folder \in DOMAIN folders'
  BY <1>1, <1>2 DEF Tree, Whole, Intact
<1>6. Whole(folders', galleries', items', spent)
  <2>1. DOMAIN folders' \subseteq DOMAIN folders /\ DOMAIN galleries' \subseteq DOMAIN galleries
    BY <1>1, <1>2
  <2> QED BY <2>1, <1>1, <1>2, <1>4, <1>5, DeleteKeeps DEF Tree
<1> QED BY <1>1, <1>6 DEF Tree

LEMMA DeleteGalleryStep ==
  ASSUME Tree, NEW g, DeleteGallery(g)
  PROVE  Tree'
<1>1. /\ DOMAIN galleries' = DOMAIN galleries \ {g}
      /\ \A x \in DOMAIN galleries' : galleries'[x] = galleries[x]
      /\ \A i \in DOMAIN items' : i[1] \in DOMAIN galleries'
      /\ folders' = folders /\ spent' = spent
  BY DEF DeleteGallery, KeepGalleries
<1>2. \A x \in DOMAIN galleries' : galleries[x].folder \in DOMAIN folders
  BY <1>1 DEF Tree, Whole, Intact
<1>3. Whole(folders, galleries', items', spent)
  <2>1. DOMAIN galleries' \subseteq DOMAIN galleries
    BY <1>1
  <2> QED BY <2>1, <1>1, <1>2, DeleteKeeps DEF Tree
<1> QED BY <1>1, <1>3 DEF Tree

Same == UNCHANGED <<folders, galleries, items, spent>>

LEMMA SameStep == Tree /\ Same => Tree'
  BY DEF Tree, Same

LEMMA StudioStep == ASSUME Tree, TreeNext PROVE Tree'
<1>1. ASSUME NEW p, NEW t, NEW v, PostFolder(p, t, v) PROVE Tree'
  BY <1>1, SameStep DEF PostFolder, Same
<1>2. ASSUME NEW p, NEW t, PostGallery(p, t) PROVE Tree'
  BY <1>2, SameStep DEF PostGallery, Same
<1>3. ASSUME PostInserts PROVE Tree'
  <2>1. ASSUME NEW f \in Folder, InsertFolder(f, post.parent, post.title, post.visibility) PROVE Tree'
    BY <1>3, <2>1, InsertFolderStep DEF PostInserts
  <2>2. ASSUME NEW g \in Gallery, InsertGallery(g, post.parent, post.title, post.visibility) PROVE Tree'
    BY <1>3, <2>2, InsertGalleryStep DEF PostInserts
  <2> QED BY <1>3, <2>1, <2>2 DEF PostInserts
<1>4. ASSUME PostRefused PROVE Tree'
  BY <1>4, SameStep DEF PostRefused, Same
<1>5. ASSUME NEW f, NEW v, ShowFolder(f, v) PROVE Tree'
  BY <1>5, SetFolderStep DEF ShowFolder
<1>6. ASSUME NEW f, NEW t, RenameFolder(f, t) PROVE Tree'
  BY <1>6, SetFolderStep DEF RenameFolder
<1>7. ASSUME NEW g, NEW v, NEW p, ShowGallery(g, v, p) PROVE Tree'
  BY <1>7, SetGalleryStep DEF ShowGallery
<1>8. ASSUME NEW g, NEW t, RenameGallery(g, t) PROVE Tree'
  BY <1>8, SetGalleryStep DEF RenameGallery
<1>9. ASSUME NEW a, DeletePhoto(a) PROVE Tree'
  BY <1>9, SameStep DEF DeletePhoto, Same
<1> QED
  BY <1>1, <1>2, <1>3, <1>4, <1>5, <1>6, <1>7, <1>8, <1>9, DeleteFolderStep, DeleteGalleryStep DEF TreeNext

LEMMA DropStep == ASSUME Tree, DropNext PROVE Tree'
<1> PICK d \in Drop :
      \/ \E f \in DOMAIN folders : StartDrop(d, f)
      \/ ListNames(d) \/ PostName(d) \/ InsertName(d) \/ InsertRefused(d) \/ Relist(d)
      \/ RequestFails(d)
  BY DEF DropNext
<1>1. ASSUME InsertName(d) PROVE Tree'
  <2>1. PICK x \in Folder \cup Gallery :
          IF AtGallery(d)
          THEN x \in Gallery /\ InsertGallery(x, drop[d].parent, Name(d), drop[d].visibility)
          ELSE x \in Folder /\ InsertFolder(x, drop[d].parent, Name(d), drop[d].visibility)
    BY <1>1 DEF InsertName
  <2>2. UNCHANGED items
    BY <1>1 DEF InsertName
  <2>3. CASE AtGallery(d)
    BY <2>1, <2>2, <2>3, InsertGalleryStep
  <2>4. CASE ~ AtGallery(d)
    BY <2>1, <2>2, <2>4, InsertFolderStep
  <2> QED BY <2>3, <2>4
<1>2. ASSUME ~ InsertName(d) PROVE Same
  BY <1>2 DEF StartDrop, ListNames, PostName, InsertRefused, Relist, RequestFails, treeVars, Same
<1> QED BY <1>1, <1>2, SameStep

LEMMA ImportStep == ASSUME Tree, ImportNext PROVE Tree'
<1>1. ASSUME MakeFolder PROVE Tree'
  <2>1. PICK f \in Folder : InsertFolder(f, import.parent, FolderSegments[import.level], "public")
    BY <1>1 DEF MakeFolder
  <2> QED BY <1>1, <2>1, InsertFolderStep DEF MakeFolder
<1>2. ASSUME MakeGallery PROVE Tree'
  <2>1. PICK g \in Gallery : InsertGallery(g, import.parent, GallerySegment, "public")
    BY <1>2 DEF MakeGallery
  <2> QED BY <1>2, <2>1, InsertGalleryStep DEF MakeGallery
<1>3. ASSUME PublishGallery PROVE Tree'
  <2>1. CASE import.gallery \in DOMAIN galleries
    <3>1. SetGallery(import.gallery,
            [folder |-> galleries[import.gallery].folder, title |-> galleries[import.gallery].title,
             slug |-> galleries[import.gallery].slug, visibility |-> "public", published |-> TRUE])
      BY <1>3, <2>1 DEF PublishGallery
    <3> QED BY <1>3, <2>1, <3>1, SetGalleryStep DEF PublishGallery
  <2>2. CASE import.gallery \notin DOMAIN galleries
    BY <1>3, <2>2, SameStep DEF PublishGallery, Same
  <2> QED BY <2>1, <2>2
<1>4. ASSUME InsertItem PROVE Tree'
  <2>1. \A i \in DOMAIN items' : i[1] \in DOMAIN galleries
    <3> DEFINE i == This.images[import.item]
               at == <<import.gallery, i>>
    <3>1. CASE items' = items
      BY <3>1 DEF Tree, Whole, Intact
    <3>2. CASE items' # items
      <4>1. import.gallery \in DOMAIN galleries /\ DOMAIN items' = DOMAIN items \cup {at}
        BY <1>4, <3>2 DEF InsertItem
      <4> HIDE DEF i
      <4> QED BY <4>1 DEF Tree, Whole, Intact
    <3> QED BY <3>1, <3>2
  <2>2. folders' = folders /\ galleries' = galleries /\ spent' = spent
    BY <1>4 DEF InsertItem
  <2>3. Whole(folders, galleries, items', spent)
    BY <2>1 DEF Tree, Whole, Intact
  <2> QED BY <2>2, <2>3 DEF Tree
<1>5. ASSUME ImportNext, ~ MakeFolder, ~ MakeGallery, ~ PublishGallery, ~ InsertItem PROVE Same
  BY <1>5 DEF ImportNext, StartImport, BeginAlbum, FindFolder, FindGallery, StoreImage, UpsertImage,
     QueueImage, BeginItems, WriteRedirect, FinishImport, CrashImport, treeVars, Same
<1> QED BY <1>1, <1>2, <1>3, <1>4, <1>5, SameStep

LEMMA ScriptStep == ASSUME ScanNext \/ ResetNext \/ WorkerNext \/ OperatorNext PROVE Same
  BY DEF ScanNext, StartScan, ScanRows, CopyOrphan, DeleteOrphan, AdoptOrphan, QueueOrphan, FinishScan,
     CrashScan, ResetNext, StartReset, ResetRow, RequeueRow, FinishReset, CrashReset, WorkerNext, IngestJob,
     OperatorNext, TurnMonth, Migrate, treeVars, Same

LEMMA TreeStep == ASSUME Tree, [Next]_siteVars PROVE Tree'
<1>1. CASE UNCHANGED siteVars
  BY <1>1, SameStep DEF siteVars, treeVars, Same
<1>2. CASE Next
  <2>1. ASSUME Studio PROVE Tree'
    BY <2>1, StudioStep DEF Studio
  <2>2. ASSUME Dropping PROVE Tree'
    BY <2>2, DropStep DEF Dropping
  <2>3. ASSUME Exporting PROVE Tree'
    BY <2>3, SameStep DEF Exporting, treeVars, Same
  <2>4. ASSUME Importing PROVE Tree'
    BY <2>4, ImportStep DEF Importing
  <2>5. ASSUME Scanning \/ Resetting \/ Ingesting \/ Operating PROVE Tree'
    BY <2>5, ScriptStep, SameStep DEF Scanning, Resetting, Ingesting, Operating
  <2> QED BY <1>2, <2>1, <2>2, <2>3, <2>4, <2>5 DEF Next
<1> QED BY <1>1, <1>2

LEMMA TreeStart == Init => Tree
  BY SceneAssumption DEF Init, TreeInit, Tree, Whole

\* However creations by the studio, by drops and by the importer interleave with
\* renames and cascading deletions (the folder and gallery routes, organize-drop.ts,
\* import.ts and the foreign keys of schema.ts), nothing dangles, no folder is
\* inside itself and a path below a folder names one thing of a kind.
THEOREM TreeStaysIntact == Spec => []TreeIntact
<1>1. Tree => TreeIntact
  BY DEF Tree, Whole, TreeIntact
<1> QED BY <1>1, TreeStart, TreeStep, PTL DEF Spec

-----------------------------------------------------------------------------
(* What is public.                                                         *)

\* Down from the roots and up to them: the same folders.  Upwards, because what
\* the walk up finds is closed under the walk down; downwards, because of the
\* folders above x that a closed set misses one has its parent outside them.
LEMMA WalksAgree == ASSUME Tree PROVE Reachable = SitemapFolders
<1> DEFINE Closed(S) == \A y \in DOMAIN folders :
                          Public(y) /\ folders[y].parent \in S \cup {NoFolder} => y \in S
<1>1. \A x \in DOMAIN folders : x \in Above(x)
  BY DEF Above
<1>2. ASSUME NEW x \in DOMAIN folders, NEW y \in Above(x), folders[y].parent # NoFolder
      PROVE  folders[y].parent \in Above(x)
  <2>1. folders[y].parent \in DOMAIN folders
    BY <1>2 DEF Tree, Whole, Intact, Above
  <2> SUFFICES ASSUME NEW S \in SUBSET DOMAIN folders, x \in S,
                      \A z \in S : folders[z].parent # NoFolder => folders[z].parent \in S
               PROVE  folders[y].parent \in S
    BY <2>1 DEF Above
  <2> QED BY <1>2 DEF Above
<1>3. ASSUME NEW x \in DOMAIN folders PROVE Above(x) \subseteq {x} \cup
               (IF folders[x].parent = NoFolder THEN {} ELSE Above(folders[x].parent))
  <2> DEFINE S == {x} \cup (IF folders[x].parent = NoFolder THEN {} ELSE Above(folders[x].parent))
  <2>1. S \in SUBSET DOMAIN folders
    BY DEF Above
  <2>2. \A z \in S : folders[z].parent # NoFolder => folders[z].parent \in S
    <3>1. folders[x].parent # NoFolder => folders[x].parent \in DOMAIN folders
      BY DEF Tree, Whole, Intact
    <3> QED BY <1>1, <1>2, <3>1
  <2> HIDE DEF S
  <2>3. x \in S
    BY DEF S
  <2>4. Above(x) \subseteq S
    BY <2>1, <2>2, <2>3 DEF Above
  <2> QED BY <2>4 DEF S
<1>4. Closed(SitemapFolders)
  <2> SUFFICES ASSUME NEW y \in DOMAIN folders, Public(y),
                      folders[y].parent \in SitemapFolders \cup {NoFolder}
               PROVE  \A a \in Above(y) : Public(a)
    BY DEF SitemapFolders
  <2> QED BY <1>3 DEF SitemapFolders
<1>5. Reachable \subseteq SitemapFolders
  <2>1. SitemapFolders \in SUBSET DOMAIN folders
    BY DEF SitemapFolders
  <2> QED BY <1>4, <2>1 DEF Reachable
<1>6. ASSUME NEW x \in SitemapFolders, NEW S \in SUBSET DOMAIN folders, Closed(S), x \notin S
      PROVE  FALSE
  <2> DEFINE T == Above(x) \ S
  <2>1. x \in T /\ T \in SUBSET DOMAIN folders
    BY <1>1, <1>6 DEF SitemapFolders, Above
  <2>2. PICK f \in T : folders[f].parent \notin T
    <3> HIDE DEF T
    <3> QED BY <2>1 DEF Tree, Whole, Intact
  <2>3. Public(f) /\ f \in DOMAIN folders
    BY <2>1 DEF SitemapFolders
  <2>4. folders[f].parent \in S \cup {NoFolder}
    BY <1>2, <2>2 DEF SitemapFolders
  <2> QED BY <1>6, <2>2, <2>3, <2>4
<1>7. SitemapFolders \subseteq Reachable
  BY <1>6 DEF Reachable, SitemapFolders
<1> QED BY <1>5, <1>7

\* Search and keyword pages, which walk down the folders in one recursive query
\* (publiclyReachableFolderIds), and the sitemap, which walks up from each
\* (getAllPublicPaths), take the same folders and galleries for public in every
\* tree the studio, the drops and the scripts can make.
THEOREM ViewsAgree == Spec => []FlatViewsAgree
<1>1. ASSUME Tree PROVE FlatViewsAgree
  <2>1. Reachable = SitemapFolders
    BY <1>1, WalksAgree
  <2>2. \A f \in SitemapFolders : Public(f)
    BY DEF SitemapFolders, Above
  <2>3. FoundFolders = SitemapFolders
    BY <2>1, <2>2 DEF FoundFolders
  <2>4. FoundGalleries = SitemapGalleries
    BY <2>1 DEF FoundGalleries, SitemapGalleries
  <2> QED BY <2>1, <2>3, <2>4 DEF FlatViewsAgree
<1> QED BY <1>1, TreeStart, TreeStep, PTL DEF Spec

-----------------------------------------------------------------------------
(* What the exporter has on record.                                        *)

Shape ==
  /\ DOMAIN export = {"at", "next", "image", "got", "memory", "walked"}
  /\ export.next \in Nat \ {0} /\ export.image \in Nat \ {0} /\ export.got \in Seq(Image)
  /\ files \in [Image -> {Missing, Torn, "whole"}]

\* What it holds in memory is backed too, and is never behind progress.json.
Memory ==
  /\ Backed(export.memory, files)
  /\ export.at # "down" /\ progress \notin {Missing, Torn} => progress.images \subseteq export.memory.images

\* Inside an album: the images got so far are its own and on record, and the
\* file under way is not on record.
Inside ==
  export.at \in {"images", "file"} =>
    /\ export.next \in DOMAIN Albums
    /\ \A n \in DOMAIN export.got : export.got[n] \in export.memory.images \cap Supported(Current)
    /\ export.at = "file" => /\ export.image \in DOMAIN ImagesOf[Current]
                             /\ CurrentImage \notin export.memory.images \cup Unsupported

Records == Shape /\ RecordsAreBacked /\ Memory /\ Inside

LEMMA SupportedImages == ASSUME NEW a \in Album, NEW n \in DOMAIN ImagesOf[a], ImagesOf[a][n] \notin Unsupported
                         PROVE  ImagesOf[a][n] \in Image /\ ImagesOf[a][n] \in Supported(a)
  BY SceneAssumption DEF Supported

LEMMA CurrentAlbum == ASSUME export.next \in Nat \ {0}, export.next <= Len(Albums)
                      PROVE  export.next \in DOMAIN Albums /\ Current \in Album
  BY SceneAssumption DEF Current, Album

LEMMA StartRecords == ASSUME Records, StartExport PROVE Records'
<1>1. /\ export' = [Down EXCEPT !.at = "walk", !.memory = Load(progress)]
      /\ progress' = progress /\ files' = files
  BY DEF StartExport
<1>2. Load(progress).images = IF progress \in {Missing, Torn} THEN {} ELSE progress.images
  BY DEF Load, Nothing
<1>3. Backed(Load(progress), files)
  BY DEF Records, RecordsAreBacked, Load, Nothing, Backed
<1>4. export'.at = "walk" /\ export'.memory = Load(progress)
  BY <1>1 DEF Down
<1>5. Memory'
  BY <1>1, <1>2, <1>3, <1>4 DEF Memory, Backed
<1>6. Inside'
  BY <1>4 DEF Inside
<1>7. Shape'
  BY <1>1 DEF Shape, Down, Records, Load, Nothing
<1> QED BY <1>1, <1>5, <1>6, <1>7 DEF Records, RecordsAreBacked, Backed

LEMMA PassAlbumRecords == ASSUME Records, PassAlbum PROVE Records'
<1>1. /\ progress' = progress /\ files' = files
      /\ export'.memory = export.memory /\ export'.at = "walk" /\ export'.next = export.next + 1
      /\ export'.image = export.image /\ export'.got = export.got /\ DOMAIN export' = DOMAIN export
  BY DEF PassAlbum, Records, Shape
<1> QED BY <1>1 DEF PassAlbum, Records, RecordsAreBacked, Memory, Inside, Shape, Backed

LEMMA OpenAlbumRecords == ASSUME Records, OpenAlbum PROVE Records'
<1>1. /\ progress' = progress /\ files' = files
      /\ export'.memory = export.memory /\ export'.at = "images" /\ export'.next = export.next
      /\ export'.image = 1 /\ export'.got = << >> /\ DOMAIN export' = DOMAIN export
  BY DEF OpenAlbum, Records, Shape
<1>2. export.next \in DOMAIN Albums
  BY CurrentAlbum DEF OpenAlbum, Records, Shape
<1>3. Shape'
  BY <1>1 DEF Records, Shape
<1>4. Inside'
  BY <1>1, <1>2 DEF Inside
<1> QED BY <1>1, <1>3, <1>4 DEF OpenAlbum, Records, RecordsAreBacked, Memory, Backed

LEMMA PassImageRecords == ASSUME Records, PassImage PROVE Records'
<1>1. /\ progress' = progress /\ files' = files
      /\ export'.memory = export.memory /\ export'.at = "images" /\ export'.next = export.next
      /\ export'.image = export.image + 1 /\ DOMAIN export' = DOMAIN export
      /\ \/ export'.got = export.got
         \/ CurrentImage \in export.memory.images /\ export'.got = Append(export.got, CurrentImage)
  BY DEF PassImage, Records, Shape
<1>2. export.next \in DOMAIN Albums /\ Current \in Album /\ export.image \in DOMAIN ImagesOf[Current]
  BY SceneAssumption DEF PassImage, Records, Shape, Inside, Current, Album
<1>3. CurrentImage \in export.memory.images => CurrentImage \in Image /\ CurrentImage \in Supported(Current)
  <2>1. CurrentImage \in export.memory.images => CurrentImage \notin Unsupported
    BY DEF Records, Memory, Backed
  <2> QED BY <1>2, <2>1, SupportedImages DEF CurrentImage
<1>4. export'.got \in Seq(Image)
  <2>1. export.got \in Seq(Image)
    BY DEF Records, Shape
  <2>2. ASSUME NEW x \in Image PROVE Append(export.got, x) \in Seq(Image)
    BY <2>1
  <2> QED BY <1>1, <1>3, <2>1, <2>2
<1>5. \A n \in DOMAIN export'.got : export'.got[n] \in export.memory.images \cap Supported(Current)
  <2>1. \A n \in DOMAIN export.got : export.got[n] \in export.memory.images \cap Supported(Current)
    BY DEF PassImage, Records, Inside
  <2> QED BY <1>1, <1>3, <2>1 DEF Records, Shape
<1>6. Current' = Current
  BY <1>1 DEF Current
<1>7. Shape'
  BY <1>1, <1>4 DEF Records, Shape
<1>8. Inside'
  BY <1>1, <1>2, <1>5, <1>6 DEF Inside, Supported
<1> QED BY <1>1, <1>7, <1>8 DEF PassImage, Records, RecordsAreBacked, Memory, Backed

LEMMA DownloadRecords == ASSUME Records, DownloadImage PROVE Records'
<1>1. /\ progress' = progress /\ files' = [files EXCEPT ![CurrentImage] = Torn]
      /\ export'.memory = export.memory /\ export'.at = "file" /\ export'.next = export.next
      /\ export'.image = export.image /\ export'.got = export.got /\ DOMAIN export' = DOMAIN export
  BY DEF DownloadImage, Go, Records, Shape
<1>2. export.next \in DOMAIN Albums /\ Current \in Album /\ export.image \in DOMAIN ImagesOf[Current]
  BY SceneAssumption DEF DownloadImage, Records, Shape, Inside, Current, Album
<1>3. CurrentImage \in Image
  BY <1>2, SceneAssumption DEF CurrentImage
<1>4. Current' = Current /\ CurrentImage' = CurrentImage
  BY <1>1 DEF Current, CurrentImage
<1>5. \A i \in export.memory.images : i # CurrentImage
  BY DEF DownloadImage
<1>6. Backed(export.memory, files')
  BY <1>1, <1>5 DEF Records, Shape, Memory, Backed
<1>7. progress \notin {Missing, Torn} => Backed(progress, files')
  BY <1>1, <1>5 DEF DownloadImage, Records, Shape, Memory, RecordsAreBacked, Backed
<1>8. Shape'
  BY <1>1, <1>3 DEF Records, Shape
<1>9. Inside'
  BY <1>1, <1>2, <1>4 DEF DownloadImage, Records, Inside, Supported
<1>10. Memory'
  BY <1>1, <1>6 DEF DownloadImage, Records, Memory, Backed
<1> QED BY <1>1, <1>7, <1>8, <1>9, <1>10 DEF Records, RecordsAreBacked

LEMMA RecordRecords == ASSUME Records, RecordImage PROVE Records'
<1>1. /\ progress' = progress /\ files' = [files EXCEPT ![CurrentImage] = "whole"]
      /\ export'.memory = [images |-> export.memory.images \cup {CurrentImage}, albums |-> export.memory.albums]
      /\ export'.at = "images" /\ export'.next = export.next
      /\ export'.image = export.image + 1 /\ export'.got = Append(export.got, CurrentImage)
      /\ DOMAIN export' = DOMAIN export
  BY DEF RecordImage, Records, Shape
<1>2. export.next \in DOMAIN Albums /\ Current \in Album /\ export.image \in DOMAIN ImagesOf[Current]
  BY SceneAssumption DEF RecordImage, Records, Shape, Inside, Current, Album
<1>3. CurrentImage \in Image \ Unsupported /\ CurrentImage \in Supported(Current)
  <2>1. CurrentImage \notin Unsupported
    BY DEF RecordImage, Records, Inside
  <2> QED BY <1>2, <2>1, SupportedImages DEF CurrentImage
<1>4. Current' = Current
  BY <1>1 DEF Current
<1>5. \A r : Backed(r, files) => \A i \in r.images : i \in Image \ Unsupported /\ files'[i] = "whole"
  BY <1>1 DEF Records, Shape, Backed
<1>6. files'[CurrentImage] = "whole"
  BY <1>1, <1>3 DEF Records, Shape
<1>7. Backed(export.memory, files)
  BY DEF Records, Memory
<1>8. Backed(export'.memory, files')
  <2>1. \A i \in export'.memory.images : i \in Image \ Unsupported /\ files'[i] = "whole"
    BY <1>1, <1>3, <1>5, <1>6, <1>7
  <2>2. \A a \in DOMAIN export'.memory.albums : \A n \in DOMAIN export'.memory.albums[a] :
          export'.memory.albums[a][n] \in export'.memory.images \cap Supported(a)
    BY <1>1, <1>7 DEF Backed
  <2> QED BY <2>1, <2>2 DEF Backed
<1>9. progress \notin {Missing, Torn} => Backed(progress, files')
  BY <1>5 DEF Records, RecordsAreBacked, Backed
<1>10. Shape'
  BY <1>1, <1>3 DEF Records, Shape
<1>11. Inside'
  <2>1. \A n \in DOMAIN export.got : export.got[n] \in export.memory.images \cap Supported(Current)
    BY DEF RecordImage, Records, Inside
  <2>2. \A n \in DOMAIN export'.got : export'.got[n] \in export'.memory.images \cap Supported(Current)
    BY <1>1, <1>3, <2>1 DEF Records, Shape
  <2> QED BY <1>1, <1>2, <1>4, <2>2 DEF Inside, Supported
<1>12. Memory'
  BY <1>1, <1>8 DEF RecordImage, Records, Memory, Backed
<1> QED BY <1>1, <1>9, <1>10, <1>11, <1>12 DEF Records, RecordsAreBacked

LEMMA SkipRecords == ASSUME Records, SkipImage \/ SkipAlbum \/ FinishExport PROVE Records'
<1>1. /\ progress' = progress /\ files' = files /\ export'.memory = export.memory
      /\ export'.at \in {"images", "walk", "done"} /\ export.at \in {"images", "walk"}
      /\ export'.at = "images" => export'.next = export.next /\ export.at = "images"
      /\ export'.next \in {export.next, export.next + 1}
      /\ export'.image \in {export.image, export.image + 1}
      /\ export'.got = export.got /\ DOMAIN export' = DOMAIN export
  BY DEF SkipImage, SkipAlbum, FinishExport, Go, Records, Shape
<1>2. Shape'
  BY <1>1 DEF Records, Shape
<1>3. Inside'
  BY <1>1 DEF Records, Inside, Current, Supported
<1> QED BY <1>1, <1>2, <1>3 DEF Records, RecordsAreBacked, Memory, Backed

LEMMA BeginProgressRecords == ASSUME Records, BeginProgress PROVE Records'
<1>1. /\ progress' = Torn /\ files' = files /\ export'.at = "progress" /\ export'.next = export.next
      /\ export'.memory.images = export.memory.images
      /\ DOMAIN export'.memory.albums = DOMAIN export.memory.albums \cup {Current}
      /\ \A a \in DOMAIN export'.memory.albums :
           export'.memory.albums[a] = IF a = Current THEN export.got ELSE export.memory.albums[a]
      /\ export'.image = export.image /\ export'.got = export.got /\ DOMAIN export' = DOMAIN export
  BY DEF BeginProgress, Records, Shape
<1>2. Backed(export'.memory, files)
  <2>1. \A n \in DOMAIN export.got : export.got[n] \in export.memory.images \cap Supported(Current)
    BY DEF BeginProgress, Records, Inside
  <2>2. Backed(export.memory, files)
    BY DEF Records, Memory
  <2> QED BY <1>1, <2>1, <2>2 DEF Backed
<1>3. Shape'
  BY <1>1 DEF Records, Shape
<1>4. Memory'
  BY <1>1, <1>2 DEF Memory, Backed
<1> QED BY <1>1, <1>3, <1>4 DEF Records, RecordsAreBacked, Inside

LEMMA EndRecords == ASSUME Records, BeginManifest \/ EndManifest PROVE Records'
<1>1. /\ progress' \in {progress, export.memory} /\ files' = files /\ export'.memory = export.memory
      /\ export'.at \in {"manifest", "walk"} /\ export.at \in {"progress", "manifest"}
      /\ export'.next \in {export.next, export.next + 1}
      /\ export'.image = export.image /\ export'.got = export.got /\ DOMAIN export' = DOMAIN export
  BY DEF BeginManifest, EndManifest, Go, Records, Shape
<1>2. Shape'
  BY <1>1 DEF Records, Shape
<1>3. Inside'
  BY <1>1 DEF Inside
<1>4. Memory'
  BY <1>1 DEF Records, Memory, Backed
<1> QED BY <1>1, <1>2, <1>3, <1>4 DEF Records, RecordsAreBacked, Memory, Backed

LEMMA DownRecords == ASSUME Shape, RecordsAreBacked, export = Down PROVE Records
  BY DEF Down, Nothing, Records, Memory, Inside, Backed

LEMMA CrashRecords == ASSUME Records, CrashExport PROVE Records'
<1>1. progress' = progress /\ files' = files /\ export' = Down
  BY DEF CrashExport
<1>2. Shape' /\ RecordsAreBacked'
  BY <1>1 DEF Records, Shape, Down, RecordsAreBacked, Backed
<1> QED BY <1>1, <1>2 DEF Down, Nothing, Records, Memory, Inside, Backed

LEMMA RecordsStep == ASSUME Records, [Next]_siteVars PROVE Records'
<1>1. ASSUME ExportNext PROVE Records'
  BY <1>1, StartRecords, PassAlbumRecords, OpenAlbumRecords, PassImageRecords, DownloadRecords, RecordRecords,
     SkipRecords, BeginProgressRecords, EndRecords, CrashRecords DEF ExportNext
<1>2. ASSUME UNCHANGED exportVars PROVE Records'
  BY <1>2 DEF exportVars, Records, Shape, RecordsAreBacked, Memory, Inside, Backed, Current, CurrentImage, Supported
<1>3. ASSUME ImportNext PROVE UNCHANGED exportVars
  BY <1>3 DEF ImportNext, StartImport, BeginAlbum, FindFolder, MakeFolder, FindGallery, MakeGallery,
     PublishGallery, StoreImage, UpsertImage, QueueImage, BeginItems, InsertItem, WriteRedirect, FinishImport,
     CrashImport
<1>4. ASSUME ScanNext \/ ResetNext \/ WorkerNext \/ OperatorNext PROVE UNCHANGED exportVars
  BY <1>4 DEF ScanNext, StartScan, ScanRows, CopyOrphan, DeleteOrphan, AdoptOrphan, QueueOrphan, FinishScan,
     CrashScan, ResetNext, StartReset, ResetRow, RequeueRow, FinishReset, CrashReset, WorkerNext, IngestJob,
     OperatorNext, TurnMonth, Migrate
<1>5. ASSUME Next PROVE ExportNext \/ UNCHANGED exportVars
  BY <1>3, <1>4, <1>5 DEF Next, Studio, Dropping, Exporting, Importing, Scanning, Resetting, Ingesting, Operating
<1>6. ASSUME UNCHANGED siteVars PROVE UNCHANGED exportVars
  BY <1>6 DEF siteVars
<1> QED BY <1>1, <1>2, <1>5, <1>6

LEMMA RecordsStart == ASSUME Init PROVE Records
<1>1. PICK s \in Scene : export = Down /\ progress = s.disk.progress /\ files = s.disk.files
  BY DEF Init, ExportInit
<1>2. Shape /\ RecordsAreBacked
  BY <1>1, SceneAssumption DEF Shape, Down, RecordsAreBacked
<1> QED BY <1>1, <1>2, DownRecords

\* The exporter (export.ts) may die at any await, also in the middle of writing a
\* file, and be started again: a progress.json that can be read lists only images
\* whose files are whole, and albums whose images are on record and their own.
THEOREM RecordsStayTrue == Spec => []RecordsAreBacked
<1>1. Records => RecordsAreBacked
  BY DEF Records
<1> QED BY <1>1, RecordsStart, RecordsStep, PTL DEF Spec

-----------------------------------------------------------------------------
(* What is in the bucket.                                                  *)

Kept(a, objs, m) == (\E x \in objs : x[1] = a) /\ (m = 1 => <<a, 1>> \in objs)

Fields ==
  /\ "image" \in DOMAIN import /\ "at" \in DOMAIN import /\ DOMAIN import.image = Image
  /\ DOMAIN scan = {"at", "keys", "from", "to", "seen"}
  /\ month \in Nat \ {0}

\* An object that is to be deleted lies elsewhere than its copy.
Moving ==
  scan.at \in {"delete", "row"} =>
    /\ scan.to \in objects /\ (month = 1 => scan.to = <<scan.to[1], 1>>)
    /\ scan.at = "delete" => scan.from # scan.to /\ scan.from[1] = scan.to[1]

\* An image the importer is about to make a row of has its object, like the rows.
Stocked ==
  /\ \A k \in Copied : \E x \in objects : x[1] = k[1]
  /\ \A a \in DOMAIN row : Kept(a, objects, month)
  /\ \A i \in Image : import.image[i] = "stored" => Kept(i, objects, month)

Stock == Fields /\ Moving /\ Stocked

\* Steps that add objects, and make rows and images about to become rows only
\* of what is there.
LEMMA GrowingStock ==
  ASSUME Stock, Fields', month' = month, objects \subseteq objects', scan' = scan,
         \A a \in DOMAIN row' : a \in DOMAIN row \/ Kept(a, objects', month),
         \A i \in Image : import'.image[i] = "stored" => import.image[i] = "stored" \/ Kept(i, objects', month)
  PROVE  Stock'
<1>1. ASSUME NEW a, Kept(a, objects, month) PROVE Kept(a, objects', month)
  BY <1>1 DEF Kept
<1>2. Moving'
  BY DEF Stock, Moving
<1>3. \A k \in Copied : \E x \in objects' : x[1] = k[1]
  BY DEF Stock, Stocked
<1>4. \A a \in DOMAIN row' : Kept(a, objects', month)
  BY <1>1 DEF Stock, Stocked
<1>5. \A i \in Image : import'.image[i] = "stored" => Kept(i, objects', month)
  BY <1>1 DEF Stock, Stocked
<1> QED BY <1>2, <1>3, <1>4, <1>5 DEF Stock, Stocked, Kept

LEMMA ImportStock == ASSUME Stock, ImportNext, scan' = scan PROVE Stock'
<1>1. ASSUME NEW i \in Image, StoreImage(i) PROVE Stock'
  <2>1. month' = month /\ row' = row /\ objects \subseteq objects'
    BY <1>1 DEF StoreImage
  <2>2. CASE import' = [import EXCEPT !.image[i] = "bad"]
    BY <2>1, <2>2, GrowingStock DEF Stock, Fields
  <2>3. CASE import' = [import EXCEPT !.image[i] = "stored", !.key[i] = month] /\ objects' = objects \cup {<<i, month>>}
    <3>1. Kept(i, objects', month)
      <4>1. <<i, month>> \in objects' /\ <<i, month>>[1] = i
        BY <2>3
      <4> QED BY <4>1 DEF Kept
    <3>2. Fields' /\ \A j \in Image : j # i => import'.image[j] = import.image[j]
      BY <2>1, <2>3 DEF Stock, Fields
    <3> QED BY <2>1, <3>1, <3>2, GrowingStock
  <2> QED BY <1>1, <2>2, <2>3 DEF StoreImage, SetImage
<1>2. ASSUME NEW i \in Image, UpsertImage(i) PROVE Stock'
  <2>1. /\ month' = month /\ objects' = objects /\ DOMAIN row' \subseteq DOMAIN row \cup {i}
        /\ import.image[i] = "stored"
        /\ \E at \in {"queue", "ready"} : import' = [import EXCEPT !.image[i] = at]
    BY <1>2 DEF UpsertImage, SetImage, Upserted
  <2>2. Kept(i, objects', month)
    <3>1. Kept(i, objects, month)
      BY <2>1 DEF Stock, Stocked
    <3> QED BY <2>1, <3>1 DEF Kept
  <2>3. Fields' /\ \A j \in Image : import'.image[j] = "stored" => import.image[j] = "stored"
    BY <2>1 DEF Stock, Fields
  <2> QED BY <2>1, <2>2, <2>3, GrowingStock
<1>3. ASSUME NEW i \in Image, QueueImage(i) PROVE Stock'
  <2>1. Fields' /\ \A j \in Image : import'.image[j] = "stored" => import.image[j] = "stored"
    BY <1>3 DEF QueueImage, SetImage, Stock, Fields
  <2> QED BY <1>3, <2>1, GrowingStock DEF QueueImage
<1>4. ASSUME StartImport \/ BeginAlbum \/ FindFolder \/ MakeFolder \/ FindGallery \/ MakeGallery
             \/ PublishGallery \/ BeginItems \/ InsertItem \/ WriteRedirect \/ FinishImport \/ CrashImport
      PROVE  Stock'
  <2>1. objects' = objects /\ row' = row /\ month' = month
    BY <1>4 DEF StartImport, BeginAlbum, FindFolder, MakeFolder, FindGallery, MakeGallery, PublishGallery,
       BeginItems, InsertItem, WriteRedirect, FinishImport, CrashImport, bucketVars
  <2>2. /\ "image" \in DOMAIN import' /\ "at" \in DOMAIN import'
        /\ import'.image \in {import.image, [i \in Image |-> "todo"]}
    <3> DEFINE R == /\ "image" \in DOMAIN import' /\ "at" \in DOMAIN import'
                    /\ import'.image \in {import.image, [i \in Image |-> "todo"]}
    <3>1. ASSUME StartImport \/ CrashImport PROVE R
      <4>1. \/ import' = ImportDown
            \/ import' = [ImportDown EXCEPT !.at = "album", !.albums = manifest]
        BY <3>1 DEF StartImport, CrashImport
      <4>2. ImportDown.image = [i \in Image |-> "todo"] /\ {"image", "at"} \subseteq DOMAIN ImportDown
        BY DEF ImportDown
      <4>3. import'.image = ImportDown.image /\ DOMAIN import' = DOMAIN ImportDown
        BY <4>1, <4>2
      <4> QED BY <4>2, <4>3
    <3>2. ASSUME NEW f, EnterFolder(f) PROVE R
      BY <3>2 DEF EnterFolder, Stock, Fields
    <3>3. ASSUME NEW g, EnterGallery(g) PROVE R
      BY <3>3 DEF EnterGallery, Stock, Fields
    <3>4. ASSUME NEW at, ImportAt(at) PROVE R
      BY <3>4 DEF ImportAt, Stock, Fields
    <3>5. ASSUME BeginAlbum \/ BeginItems \/ InsertItem \/ WriteRedirect PROVE R
      BY <3>5 DEF BeginAlbum, BeginItems, InsertItem, WriteRedirect, Stock, Fields
    <3>6. ASSUME FindFolder \/ MakeFolder \/ FindGallery \/ MakeGallery \/ PublishGallery \/ FinishImport PROVE R
      <4> HIDE DEF R
      <4> QED BY <3>2, <3>3, <3>4, <3>6 DEF FindFolder, MakeFolder, FindGallery, MakeGallery, PublishGallery, FinishImport
    <3> HIDE DEF R
    <3>7. R
      BY <1>4, <3>1, <3>5, <3>6
    <3> QED BY <3>7 DEF R
  <2>3. Fields' /\ \A j \in Image : import'.image[j] = "stored" => import.image[j] = "stored"
    BY <2>1, <2>2 DEF Stock, Fields
  <2> QED BY <2>1, <2>3, GrowingStock
<1> QED BY <1>1, <1>2, <1>3, <1>4 DEF ImportNext

LEMMA CopyStock == ASSUME Stock, NEW k, CopyOrphan(k), import' = import PROVE Stock'
<1>1. /\ objects' = objects \cup {<<k[1], month>>} /\ row' = row /\ month' = month /\ k \in objects
      /\ scan'.to = <<k[1], month>> /\ scan'.from = k /\ DOMAIN scan' = DOMAIN scan
      /\ scan'.at = "delete" => k # <<k[1], month>>
  BY DEF CopyOrphan, Stock, Fields
<1>2. ASSUME NEW a, Kept(a, objects, month) PROVE Kept(a, objects', month)
  BY <1>1, <1>2 DEF Kept
<1>3. scan'.to \in objects' /\ scan'.to[1] = k[1] /\ (month = 1 => scan'.to = <<scan'.to[1], 1>>)
  BY <1>1
<1>4. Moving'
  BY <1>1, <1>3 DEF Moving
<1>5. Stocked'
  BY <1>1, <1>2 DEF Stock, Stocked, Kept
<1>6. Fields'
  BY <1>1 DEF Stock, Fields
<1> QED BY <1>4, <1>5, <1>6 DEF Stock

LEMMA DeleteStock == ASSUME Stock, DeleteOrphan, import' = import PROVE Stock'
<1>1. /\ objects' = objects \ {scan.from} /\ row' = row /\ month' = month
      /\ scan'.to = scan.to /\ scan'.at = "row" /\ DOMAIN scan' = DOMAIN scan
  BY DEF DeleteOrphan, Stock, Fields
<1>2. /\ scan.to \in objects /\ scan.from # scan.to /\ scan.from[1] = scan.to[1]
      /\ (month = 1 => scan.to = <<scan.to[1], 1>>)
  BY DEF DeleteOrphan, Stock, Moving
<1>3. ASSUME NEW a, \E x \in objects : x[1] = a PROVE \E x \in objects' : x[1] = a
  BY <1>1, <1>2, <1>3
<1>4. ASSUME NEW a, month = 1, <<a, 1>> \in objects PROVE <<a, 1>> \in objects'
  <2>1. ASSUME scan.from = <<a, 1>> PROVE FALSE
    <3>1. scan.from[1] = a
      BY <2>1
    <3> QED BY <1>2, <1>4, <2>1, <3>1
  <2> QED BY <1>1, <1>4, <2>1
<1>5. ASSUME NEW a, Kept(a, objects, month) PROVE Kept(a, objects', month)
  BY <1>3, <1>4, <1>5 DEF Kept
<1>6. Moving'
  BY <1>1, <1>2 DEF Moving
<1>7. Stocked'
  BY <1>1, <1>3, <1>5 DEF Stock, Stocked, Kept
<1> QED BY <1>1, <1>6, <1>7 DEF Stock, Fields

LEMMA AdoptStock == ASSUME Stock, AdoptOrphan, import' = import PROVE Stock'
<1>1. /\ objects' = objects /\ month' = month /\ DOMAIN row' \subseteq DOMAIN row \cup {scan.to[1]}
      /\ scan'.at \in {"queue", "next"} /\ DOMAIN scan' = DOMAIN scan
  BY DEF AdoptOrphan, Upserted, Stock, Fields
<1>2. Kept(scan.to[1], objects, month)
  BY DEF AdoptOrphan, Stock, Moving, Kept
<1>3. Stocked'
  BY <1>1, <1>2 DEF Stock, Stocked, Kept
<1> QED BY <1>1, <1>3 DEF Stock, Fields, Moving

LEMMA ScriptStock == ASSUME Stock, ScanNext \/ ResetNext \/ WorkerNext \/ OperatorNext, import' = import PROVE Stock'
<1>1. ASSUME StartScan \/ ScanRows \/ QueueOrphan \/ FinishScan \/ CrashScan PROVE Stock'
  <2>1. objects' = objects /\ row' = row /\ month' = month /\ DOMAIN scan' = DOMAIN scan
        /\ scan'.at \notin {"delete", "row"}
    <3>1. CASE StartScan \/ CrashScan
      <4>1. DOMAIN ScanDown = {"at", "keys", "from", "to", "seen"} /\ ScanDown.at = "down"
        BY DEF ScanDown
      <4>2. \/ scan' = ScanDown
            \/ scan' = [ScanDown EXCEPT !.at = "rows", !.keys = objects]
        BY <3>1 DEF StartScan, CrashScan
      <4>3. DOMAIN scan' = DOMAIN ScanDown /\ scan'.at \in {"rows", "down"}
        BY <4>1, <4>2
      <4> QED BY <3>1, <4>1, <4>3 DEF StartScan, CrashScan, bucketVars, Stock, Fields
    <3>2. CASE ScanRows \/ FinishScan
      BY <3>2 DEF ScanRows, FinishScan, bucketVars, Stock, Fields
    <3>3. CASE QueueOrphan
      BY <3>3 DEF QueueOrphan, bucketVars, Stock, Fields
    <3> QED BY <1>1, <3>1, <3>2, <3>3
  <2> QED BY <2>1 DEF Stock, Fields, Moving, Stocked, Kept
<1>2. ASSUME ResetNext \/ WorkerNext PROVE Stock'
  <2>1. objects' = objects /\ DOMAIN row' = DOMAIN row /\ month' = month /\ scan' = scan
    BY <1>2 DEF ResetNext, StartReset, ResetRow, RequeueRow, FinishReset, CrashReset, WorkerNext, IngestJob,
       bucketVars, scanVars
  <2> QED BY <2>1 DEF Stock, Fields, Moving, Stocked, Kept
<1>3. ASSUME OperatorNext PROVE Stock'
  <2>1. objects' = objects /\ row' = row /\ month' \in {month, month + 1} /\ scan' = scan
    BY <1>3 DEF OperatorNext, TurnMonth, Migrate, scanVars
  <2>2. month' \in Nat \ {0} /\ (month' = 1 => month = 1)
    BY <2>1 DEF Stock, Fields
  <2> QED BY <2>1, <2>2 DEF Stock, Fields, Moving, Stocked, Kept
<1> QED BY <1>1, <1>2, <1>3, CopyStock, DeleteStock, AdoptStock DEF ScanNext

LEMMA StockStep == ASSUME Stock, [Next]_siteVars PROVE Stock'
<1>1. ASSUME UNCHANGED <<import, scan, bucketVars>> PROVE Stock'
  BY <1>1 DEF Stock, Fields, Moving, Stocked, Kept, bucketVars
<1>2. ASSUME Importing PROVE Stock'
  BY <1>2, ImportStock DEF Importing, scanVars
<1>3. ASSUME Scanning \/ Resetting \/ Ingesting \/ Operating PROVE Stock'
  <2>1. import' = import
    BY <1>3 DEF Scanning, Resetting, Ingesting, Operating, ScanNext, StartScan, ScanRows, CopyOrphan,
       DeleteOrphan, AdoptOrphan, QueueOrphan, FinishScan, CrashScan, ResetNext, StartReset, ResetRow,
       RequeueRow, FinishReset, CrashReset, WorkerNext, IngestJob, OperatorNext, TurnMonth, Migrate, importVars
  <2> QED BY <1>3, <2>1, ScriptStock DEF Scanning, Resetting, Ingesting, Operating
<1>4. ASSUME Studio \/ Dropping \/ Exporting \/ UNCHANGED siteVars PROVE Stock'
  BY <1>1, <1>4 DEF Studio, Dropping, Exporting, siteVars, importVars, scanVars
<1> QED BY <1>2, <1>3, <1>4 DEF Next

LEMMA StockStart == ASSUME Init PROVE Stock
  BY DEF Init, ImportInit, ScanInit, ImportDown, ScanDown, Stock, Fields, Moving, Stocked, Kept

\* scan-bucket copies an original and deletes it where it was, the importer stores
\* one and writes its row later, and both may die in between or work on the same
\* photo: no original is lost, and in the month it was stored it is where its row
\* says (scan-bucket.ts, import.ts, originalKey in storage.ts).
THEOREM OriginalsStay == Spec => []OriginalsAreKept
<1>1. Stock => OriginalsAreKept
  BY DEF Stock, Stocked, Kept, OriginalsAreKept
<1> QED BY <1>1, StockStart, StockStep, PTL DEF Spec

-----------------------------------------------------------------------------
(* The rows of the tree.                                                   *)

FolderRows(fs) == fs \in [DOMAIN fs -> FolderRow] /\ DOMAIN fs \subseteq Folder
GalleryRows(gs) == gs \in [DOMAIN gs -> GalleryRow] /\ DOMAIN gs \subseteq Gallery
ItemRows(is) == is \in [DOMAIN is -> Nat] /\ DOMAIN is \subseteq Gallery \X Asset
Rows == FolderRows(folders) /\ GalleryRows(galleries) /\ ItemRows(items) /\ spent \subseteq Folder \cup Gallery
Rest == /\ deleted \subseteq Asset /\ edits \in Nat /\ reshaped \in BOOLEAN
        /\ post \in {NoPost} \cup [at : {"folder", "gallery"}, parent : Folder \cup {NoFolder},
                                   title : Title, visibility : Visibility]

LEMMA SlugTypes == ASSUME NEW t \in Title PROVE SlugOf[t] \in Slug
  BY DEF Slug

LEMMA DefaultTypes == ASSUME NEW p PROVE DefaultVisibility(p) \in Visibility
  BY DEF DefaultVisibility, Visibility

LEMMA NewFolderTypes ==
  ASSUME Rows, NEW f \in Folder, NEW p \in Folder \cup {NoFolder}, NEW t \in Title, NEW v \in Visibility,
         InsertFolder(f, p, t, v), UNCHANGED items
  PROVE  Rows'
<1> DEFINE r == [parent |-> p, title |-> t, slug |-> SlugOf[t], visibility |-> v]
<1>1. r \in FolderRow
  BY SlugTypes DEF FolderRow
<1> HIDE DEF r
<1>2. folders' = [x \in DOMAIN folders \cup {f} |-> IF x # f THEN folders[x] ELSE r]
  BY DEF InsertFolder, r
<1>3. FolderRows(folders')
  BY <1>1, <1>2 DEF Rows, FolderRows
<1> QED BY <1>3 DEF InsertFolder, Rows

LEMMA NewGalleryTypes ==
  ASSUME Rows, NEW g \in Gallery, NEW p, NEW t \in Title, NEW v \in Visibility,
         InsertGallery(g, p, t, v), UNCHANGED items
  PROVE  Rows'
<1> DEFINE r == [folder |-> p, title |-> t, slug |-> SlugOf[t], visibility |-> v, published |-> FALSE]
<1>1. p \in Folder
  BY DEF InsertGallery, CanInsertGallery, Rows, FolderRows
<1>2. r \in GalleryRow
  BY <1>1, SlugTypes DEF GalleryRow
<1> HIDE DEF r
<1>3. galleries' = [x \in DOMAIN galleries \cup {g} |-> IF x # g THEN galleries[x] ELSE r]
  BY DEF InsertGallery, r
<1>4. GalleryRows(galleries')
  BY <1>2, <1>3 DEF Rows, GalleryRows
<1> QED BY <1>4 DEF InsertGallery, Rows

LEMMA SetFolderTypes ==
  ASSUME Rows, NEW f \in DOMAIN folders, NEW t \in Title, NEW v \in Visibility,
         SetFolder(f, [parent |-> folders[f].parent, title |-> t, slug |-> folders[f].slug, visibility |-> v]),
         UNCHANGED <<galleries, items, spent>>
  PROVE  Rows'
<1> DEFINE r == [parent |-> folders[f].parent, title |-> t, slug |-> folders[f].slug, visibility |-> v]
<1>1. r \in FolderRow
  BY DEF FolderRow, Rows, FolderRows
<1> HIDE DEF r
<1>2. folders' = [x \in DOMAIN folders |-> IF x = f THEN r ELSE folders[x]]
  BY DEF SetFolder, r
<1>3. FolderRows(folders')
  BY <1>1, <1>2 DEF Rows, FolderRows
<1> QED BY <1>3 DEF Rows

LEMMA SetGalleryTypes ==
  ASSUME Rows, NEW g \in DOMAIN galleries, NEW t \in Title, NEW v \in Visibility, NEW p \in BOOLEAN,
         SetGallery(g, [folder |-> galleries[g].folder, title |-> t, slug |-> galleries[g].slug,
                        visibility |-> v, published |-> p]),
         UNCHANGED <<folders, items, spent>>
  PROVE  Rows'
<1> DEFINE r == [folder |-> galleries[g].folder, title |-> t, slug |-> galleries[g].slug,
                 visibility |-> v, published |-> p]
<1>1. r \in GalleryRow
  BY DEF GalleryRow, Rows, GalleryRows
<1> HIDE DEF r
<1>2. galleries' = [x \in DOMAIN galleries |-> IF x = g THEN r ELSE galleries[x]]
  BY DEF SetGallery, r
<1>3. GalleryRows(galleries')
  BY <1>1, <1>2 DEF Rows, GalleryRows
<1> QED BY <1>3 DEF Rows

LEMMA KeepTypes ==
  ASSUME Rows, NEW kept, kept \subseteq DOMAIN galleries, KeepGalleries(kept),
         folders' = folders \/ \E S : folders' = [x \in DOMAIN folders \ S |-> folders[x]], spent' = spent
  PROVE  Rows'
<1>1. FolderRows(folders')
  BY DEF Rows, FolderRows
<1>2. GalleryRows(galleries')
  BY DEF KeepGalleries, Rows, GalleryRows
<1>3. ItemRows(items')
  BY DEF KeepGalleries, Rows, ItemRows
<1> QED BY <1>1, <1>2, <1>3 DEF Rows

LEMMA StudioTypes == ASSUME TreeTypeOK, TreeNext PROVE TreeTypeOK'
<1>0. Rows /\ Rest
  BY DEF TreeTypeOK, Rows, Rest, FolderRows, GalleryRows, ItemRows
<1> DEFINE P == Rows' /\ Rest'
<1>1. Typed \subseteq Title /\ Offered \subseteq Visibility
  BY TitleAssumption
<1>2. ASSUME Edit PROVE edits' \in Nat
  BY <1>0, <1>2 DEF Edit, Rest
<1>3. ASSUME NEW t \in Typed, NEW p \in DOMAIN folders \cup {NoFolder}, NEW v \in Offered \cup {Default}, PostFolder(p, t, v)
      PROVE  P
  <2>1. p \in Folder \cup {NoFolder} /\ (IF v # Default THEN v ELSE DefaultVisibility(p)) \in Visibility
    BY <1>0, <1>1, DefaultTypes DEF Rows, FolderRows
  <2> QED BY <1>0, <1>1, <1>2, <1>3, <2>1 DEF PostFolder, Rows, Rest
<1>4. ASSUME NEW t \in Typed, NEW p \in DOMAIN folders, PostGallery(p, t) PROVE P
  <2>1. p \in Folder \cup {NoFolder} /\ DefaultVisibility(p) \in Visibility
    BY <1>0, DefaultTypes DEF Rows, FolderRows
  <2> QED BY <1>0, <1>1, <1>2, <1>4, <2>1 DEF PostGallery, Rows, Rest
<1>5. ASSUME PostInserts PROVE P
  <2>1. post.parent \in Folder \cup {NoFolder} /\ post.title \in Title /\ post.visibility \in Visibility
    BY <1>0, <1>5 DEF PostInserts, Rest, NoPost
  <2>2. Rows'
    BY <1>0, <1>5, <2>1, NewFolderTypes, NewGalleryTypes DEF PostInserts
  <2> QED BY <1>0, <1>5, <2>2 DEF PostInserts, Rest
<1>6. ASSUME PostRefused PROVE P
  BY <1>0, <1>6 DEF PostRefused, Rows, Rest
<1>7. ASSUME NEW f \in DOMAIN folders, NEW v \in Offered, ShowFolder(f, v) PROVE P
  <2>1. folders[f].title \in Title
    BY <1>0 DEF Rows, FolderRows, FolderRow
  <2>2. Rows'
    BY <1>0, <1>1, <1>7, <2>1, SetFolderTypes DEF ShowFolder
  <2> QED BY <1>0, <1>2, <1>7, <2>2 DEF ShowFolder, Rest
<1>8. ASSUME NEW f \in DOMAIN folders, NEW t \in Typed, RenameFolder(f, t) PROVE P
  <2>1. folders[f].visibility \in Visibility
    BY <1>0 DEF Rows, FolderRows, FolderRow
  <2>2. Rows'
    BY <1>0, <1>1, <1>8, <2>1, SetFolderTypes DEF RenameFolder
  <2> QED BY <1>0, <1>2, <1>8, <2>2 DEF RenameFolder, Rest
<1>9. ASSUME NEW g \in DOMAIN galleries, NEW v \in Offered, NEW p \in BOOLEAN, ShowGallery(g, v, p) PROVE P
  <2>1. galleries[g].title \in Title
    BY <1>0 DEF Rows, GalleryRows, GalleryRow
  <2>2. Rows'
    BY <1>0, <1>1, <1>9, <2>1, SetGalleryTypes DEF ShowGallery
  <2> QED BY <1>0, <1>2, <1>9, <2>2 DEF ShowGallery, Rest
<1>10. ASSUME NEW g \in DOMAIN galleries, NEW t \in Typed, RenameGallery(g, t) PROVE P
  <2>1. galleries[g].visibility \in Visibility /\ galleries[g].published \in BOOLEAN
    BY <1>0 DEF Rows, GalleryRows, GalleryRow
  <2>2. Rows'
    BY <1>0, <1>1, <1>10, <2>1, SetGalleryTypes DEF RenameGallery
  <2> QED BY <1>0, <1>2, <1>10, <2>2 DEF RenameGallery, Rest
<1>11. ASSUME NEW f, DeleteFolder(f) PROVE P
  <2>1. Rows'
    BY <1>0, <1>11, KeepTypes DEF DeleteFolder
  <2> QED BY <1>0, <1>2, <1>11, <2>1 DEF DeleteFolder, Rest
<1>12. ASSUME NEW g, DeleteGallery(g) PROVE P
  <2>1. Rows'
    BY <1>0, <1>12, KeepTypes DEF DeleteGallery
  <2> QED BY <1>0, <1>2, <1>12, <2>1 DEF DeleteGallery, Rest
<1>13. ASSUME NEW a \in Asset, DeletePhoto(a) PROVE P
  BY <1>0, <1>2, <1>13 DEF DeletePhoto, Rows, Rest
<1> HIDE DEF P
<1>14. P
  BY <1>3, <1>4, <1>5, <1>6, <1>7, <1>8, <1>9, <1>10, <1>11, <1>12, <1>13 DEF TreeNext
<1> QED BY <1>14 DEF P, TreeTypeOK, Rows, Rest, FolderRows, GalleryRows, ItemRows

-----------------------------------------------------------------------------
(* Drops: while one asks for a name, there is a name to ask for.            *)

DropFields == {"at", "base", "entry", "level", "parent", "visibility", "failed", "target"}
DropShape == DOMAIN drop = Drop /\ \A d \in Drop : DOMAIN drop[d] = DropFields

IsTarget(d, target) ==
  /\ DOMAIN target \subseteq {Entries[d][i] : i \in DOMAIN Entries[d]} \ {<< >>}
  /\ \A p \in DOMAIN target : target[p] \in Gallery

IsDrop(d, r) ==
  /\ DOMAIN r = DropFields
  /\ r.at \in {"idle", "list", "post", "insert", "relist", "done", "lost"}
  /\ r.base \in Folder \cup {NoFolder} /\ r.parent \in Folder \cup {NoFolder}
  /\ r.entry \in 1..Len(Entries[d]) /\ r.visibility \in Visibility /\ IsTarget(d, r.target)
  /\ r.at \in {"list", "post", "insert", "relist"} => r.level \in 1..Len(Entries[d][r.entry])

Drops == DOMAIN drop = Drop /\ \A d \in Drop : IsDrop(d, drop[d])
DropTypes == Drops /\ glitches \in 0..MaxGlitches

LEMMA EntryTypes ==
  ASSUME NEW d \in Drop
  PROVE  /\ Entries[d] \in Seq(Seq(Title)) /\ Len(Entries[d]) \in Nat \ {0}
         /\ \A i \in 1..Len(Entries[d]) : Entries[d][i] \in Seq(Title)
<1>1. Entries[d] \in Seq(Seq(Title)) \ {<< >>}
  BY DropAssumption
<1>2. Entries[d] \in Seq(Seq(Title)) /\ Entries[d] # << >>
  BY <1>1
<1> QED BY <1>2

LEMMA NameTypes == ASSUME NEW d \in Drop, IsDrop(d, drop[d]), drop[d].at \in {"list", "post", "insert", "relist"}
                   PROVE  Name(d) \in Title
<1>1. drop[d].entry \in 1..Len(Entries[d]) /\ drop[d].level \in 1..Len(Entries[d][drop[d].entry])
  BY DEF IsDrop
<1>2. Entries[d][drop[d].entry] \in Seq(Title)
  BY <1>1, EntryTypes
<1> QED BY <1>1, <1>2 DEF Name, Path

LEMMA GoOnTypes ==
  ASSUME Drops, NEW d \in Drop, NEW base \in Folder \cup {NoFolder}, NEW target, IsTarget(d, target),
         NEW from \in Nat \ {0}, GoOn(d, base, target, from)
  PROVE  Drops'
<1> DEFINE next == NextEntry(d, DOMAIN target, from)
           i == CHOOSE x \in next : TRUE
           r == drop[d]
<1>1. IsDrop(d, r) /\ DOMAIN drop = Drop
  BY DEF Drops
<1>2. CASE next = {}
  <2> DEFINE s == [r EXCEPT !.at = "done", !.base = base, !.target = target]
  <2>1. IsDrop(d, s)
    BY <1>1 DEF IsDrop, DropFields
  <2>2. drop' = [drop EXCEPT ![d] = s]
    BY <1>2 DEF GoOn
  <2> HIDE DEF s
  <2> QED BY <2>1, <2>2 DEF Drops
<1>3. CASE next # {}
  <2> DEFINE s == [r EXCEPT !.at = "list", !.base = base, !.target = target, !.level = 1,
                            !.parent = base, !.entry = i]
  <2>1. i \in next
    BY <1>3
  <2>2. i \in 1..Len(Entries[d]) /\ Entries[d][i] # << >>
    BY <2>1, EntryTypes DEF NextEntry
  <2>3. Len(Entries[d][i]) \in Nat \ {0}
    BY <2>2, EntryTypes
  <2> HIDE DEF i
  <2>4. IsDrop(d, s)
    BY <1>1, <2>2, <2>3 DEF IsDrop, DropFields
  <2>5. drop' = [drop EXCEPT ![d] = s]
    BY <1>3 DEF GoOn, i
  <2> HIDE DEF s
  <2> QED BY <2>4, <2>5 DEF Drops
<1> QED BY <1>2, <1>3

LEMMA EnterTypes ==
  ASSUME Drops, NEW d \in Drop, drop[d].at \in {"list", "post", "insert", "relist"}, NEW x, Enter(d, x),
         IF AtGallery(d) THEN x \in Gallery ELSE x \in Folder
  PROVE  Drops'
<1> DEFINE r == drop[d]
<1>1. IsDrop(d, r) /\ DOMAIN drop = Drop
  BY DEF Drops
<1>2. r.entry \in 1..Len(Entries[d]) /\ Path(d) = Entries[d][r.entry] /\ Path(d) \in Seq(Title)
  BY <1>1, EntryTypes DEF IsDrop, Path
<1>3. CASE AtGallery(d)
  <2> DEFINE t == [p \in DOMAIN r.target \cup {Path(d)} |-> IF p = Path(d) THEN x ELSE r.target[p]]
  <2>1. Path(d) # << >>
    BY <1>1, <1>2 DEF IsDrop
  <2>2. IsTarget(d, t)
    BY <1>1, <1>2, <1>3, <2>1 DEF IsDrop, IsTarget
  <2>3. GoOn(d, r.base, t, r.entry + 1) /\ r.entry + 1 \in Nat \ {0} /\ r.base \in Folder \cup {NoFolder}
    BY <1>1, <1>2, <1>3, EntryTypes DEF Enter, IsDrop
  <2> HIDE DEF t
  <2> QED BY <2>2, <2>3, GoOnTypes
<1>4. CASE ~ AtGallery(d)
  <2> DEFINE s == [r EXCEPT !.at = "list", !.level = r.level + 1, !.parent = x]
  <2>1. r.level \in 1..Len(Path(d)) /\ r.level # Len(Path(d))
    BY <1>1, <1>2, <1>4 DEF IsDrop, AtGallery
  <2>2. r.level + 1 \in 1..Len(Path(d))
    BY <1>2, <2>1
  <2>3. IsDrop(d, s)
    BY <1>1, <1>2, <1>4, <2>2 DEF IsDrop, DropFields
  <2>4. drop' = [drop EXCEPT ![d] = s]
    BY <1>1, <1>4 DEF Enter, IsDrop, DropFields
  <2> HIDE DEF s
  <2> QED BY <1>1, <2>3, <2>4 DEF Drops
<1> QED BY <1>3, <1>4

LEMMA TurnTypes ==
  ASSUME Drops, NEW d \in Drop, drop[d].at \in {"list", "post", "insert", "relist"},
         NEW at \in {"list", "post", "insert", "relist", "lost"}, Turn(d, at)
  PROVE  Drops'
<1> DEFINE s == [drop[d] EXCEPT !.at = at]
<1>1. IsDrop(d, s)
  BY DEF Drops, IsDrop, DropFields
<1>2. drop' = [drop EXCEPT ![d] = s]
  BY DEF Turn, Drops
<1> HIDE DEF s
<1> QED BY <1>1, <1>2 DEF Drops

LEMMA FailTypes ==
  ASSUME DropTypes, NEW d \in Drop, drop[d].at \in {"list", "post", "insert", "relist"},
         NEW at \in {"relist", "lost"}, Fail(d, at)
  PROVE  DropTypes'
<1> DEFINE s == [drop[d] EXCEPT !.at = at, !.failed = TRUE]
<1>1. IsDrop(d, s)
  BY DEF DropTypes, Drops, IsDrop, DropFields
<1>2. drop' = [drop EXCEPT ![d] = s]
  BY DEF Fail, DropTypes, Drops, IsDrop, DropFields
<1> HIDE DEF s
<1>3. glitches' \in 0..MaxGlitches
  BY DropAssumption DEF Fail, DropTypes
<1> QED BY <1>1, <1>2, <1>3 DEF DropTypes, Drops

LEMMA HomonymTypes ==
  ASSUME Rows, NEW d \in Drop, NEW x \in Homonyms(d)
  PROVE  IF AtGallery(d) THEN x \in Gallery ELSE x \in Folder
  BY DEF Homonyms, Children, Rows, FolderRows, GalleryRows

LEMMA DroppingTypes == ASSUME TreeTypeOK, DropTypes, DropNext PROVE TreeTypeOK' /\ DropTypes'
<1> DEFINE P == TreeTypeOK' /\ DropTypes'
<1>0. Rows /\ Rest /\ Drops
  BY DEF TreeTypeOK, DropTypes, Rows, Rest, FolderRows, GalleryRows, ItemRows
<1>1. ASSUME Drops', UNCHANGED <<glitches, treeVars>> PROVE P
  BY <1>1 DEF DropTypes, treeVars, TreeTypeOK
<1> HIDE DEF P
<1> PICK d \in Drop :
      \/ \E f \in DOMAIN folders : StartDrop(d, f)
      \/ ListNames(d) \/ PostName(d) \/ InsertName(d) \/ InsertRefused(d) \/ Relist(d)
      \/ RequestFails(d)
  BY DEF DropNext
<1>2. ASSUME NEW f \in DOMAIN folders, StartDrop(d, f) PROVE P
  <2>1. f \in Folder \cup {NoFolder} /\ IsTarget(d, << >>) /\ 1 \in Nat \ {0}
    BY <1>0 DEF Rows, FolderRows, IsTarget
  <2>2. Drops'
    BY <1>0, <1>2, <2>1, GoOnTypes DEF StartDrop
  <2> QED BY <1>1, <1>2, <2>2 DEF StartDrop
<1>3. ASSUME ListNames(d) \/ Relist(d) PROVE P
  <2>1. /\ drop[d].at \in {"list", "post", "insert", "relist"}
        /\ (\E x \in Homonyms(d) : Enter(d, x)) \/ Turn(d, "post") \/ Turn(d, "lost")
    BY <1>3 DEF ListNames, Relist
  <2>2. Drops'
    BY <1>0, <2>1, HomonymTypes, EnterTypes, TurnTypes
  <2> QED BY <1>1, <1>3, <2>2 DEF ListNames, Relist
<1>4. ASSUME PostName(d) PROVE P
  <2> DEFINE s == [drop[d] EXCEPT !.at = "insert", !.visibility = DefaultVisibility(drop[d].parent)]
  <2>1. IsDrop(d, s)
    BY <1>0, <1>4, DefaultTypes DEF PostName, Drops, IsDrop, DropFields
  <2>2. drop' = [drop EXCEPT ![d] = s]
    BY <1>0, <1>4 DEF PostName, Drops, IsDrop, DropFields
  <2> HIDE DEF s
  <2>3. Drops'
    BY <1>0, <2>1, <2>2 DEF Drops
  <2> QED BY <1>1, <1>4, <2>3 DEF PostName
<1>5. ASSUME InsertName(d) PROVE P
  <2>1. PICK x \in Folder \cup Gallery :
          /\ IF AtGallery(d)
             THEN x \in Gallery /\ InsertGallery(x, drop[d].parent, Name(d), drop[d].visibility)
             ELSE x \in Folder /\ InsertFolder(x, drop[d].parent, Name(d), drop[d].visibility)
          /\ (Enter(d, x) /\ UNCHANGED glitches) \/ Fail(d, "relist")
    BY <1>5 DEF InsertName
  <2>2. drop[d].at \in {"list", "post", "insert", "relist"} /\ UNCHANGED <<items, deleted, post, edits, reshaped>>
    BY <1>5 DEF InsertName
  <2>3. Name(d) \in Title /\ drop[d].visibility \in Visibility /\ drop[d].parent \in Folder \cup {NoFolder}
    BY <1>0, <2>2, NameTypes DEF Drops, IsDrop
  <2>4. Rows'
    BY <1>0, <2>1, <2>2, <2>3, NewGalleryTypes, NewFolderTypes
  <2>5. TreeTypeOK'
    BY <1>0, <2>2, <2>4 DEF TreeTypeOK, Rows, Rest, FolderRows, GalleryRows, ItemRows
  <2>6. DropTypes'
    <3>1. ASSUME Enter(d, x), UNCHANGED glitches PROVE DropTypes'
      <4>1. Drops'
        BY <1>0, <2>1, <2>2, <3>1, EnterTypes
      <4> QED BY <3>1, <4>1 DEF DropTypes
    <3> QED BY <2>1, <2>2, <3>1, FailTypes
  <2> QED BY <2>5, <2>6 DEF P
<1>6. ASSUME InsertRefused(d) PROVE P
  BY <1>0, <1>1, <1>6, TurnTypes DEF InsertRefused
<1>7. ASSUME RequestFails(d) PROVE P
  <2>1. DropTypes'
    BY <1>7, FailTypes DEF RequestFails
  <2> QED BY <1>7, <2>1 DEF RequestFails, treeVars, TreeTypeOK, P
<1>8. P
  BY <1>2, <1>3, <1>4, <1>5, <1>6, <1>7
<1> QED BY <1>8 DEF P

-----------------------------------------------------------------------------
(* The exporter and its files: inside an album there is one.               *)

InAlbum == {"images", "file", "progress", "manifest"}
IsExport(r) ==
  /\ DOMAIN r = {"at", "next", "image", "got", "memory", "walked"}
  /\ r.at \in {"down", "walk", "done"} \cup InAlbum
  /\ r.next \in 1..(Len(Albums) + 1) /\ r.image \in Nat \ {0}
  /\ r.got \in Seq(Exportable) /\ r.walked \in Seq(Walked) /\ IsRecord(r.memory)
  /\ r.at \in InAlbum => r.next \in DOMAIN Albums

Disk ==
  /\ progress \in {Missing, Torn} \/ IsRecord(progress)
  /\ manifest \in {Missing, Torn} \cup Seq(Walked)
  /\ files \in [Image -> {Missing, Torn, "whole"}]
Limits == starts \in 0..MaxStarts /\ outages \in 0..MaxOutages /\ tried \subseteq Image

ExportTypes == IsExport(export) /\ Disk /\ Limits

LEMMA LoadTypes == Disk => IsRecord(Load(progress))
  BY DEF Nothing, IsRecord, Load, Disk

LEMMA DownTypes == IsExport(Down)
<1>1. Len(Albums) \in Nat
  BY SceneAssumption
<1>2. IsRecord(Nothing)
  BY DEF Nothing, IsRecord
<1>3. << >> \in Seq(Exportable) /\ << >> \in Seq(Walked)
  OBVIOUS
<1> QED BY <1>1, <1>2, <1>3 DEF Down, IsExport, InAlbum

\* The album and the image a run is at.
LEMMA CurrentTypes ==
  ASSUME IsExport(export), export.next \in DOMAIN Albums
  PROVE  /\ Current \in Album /\ ImagesOf[Current] \in Seq(Image)
         /\ export.image <= Len(ImagesOf[Current]) => CurrentImage \in Image
<1>1. Current \in Album
  BY DEF Current, Album
<1>2. ImagesOf[Current] \in Seq(Image)
  BY <1>1, SceneAssumption
<1>3. export.image <= Len(ImagesOf[Current]) => CurrentImage \in Image
  BY <1>2 DEF IsExport, CurrentImage
<1> QED BY <1>1, <1>2, <1>3

LEMMA MoreWalked ==
  ASSUME NEW w \in Seq(Walked), NEW a \in Album, NEW is \in Seq(Exportable)
  PROVE  Append(w, [album |-> a, images |-> is]) \in Seq(Walked)
<1>1. [album |-> a, images |-> is] \in Walked
  BY DEF Walked
<1> QED BY <1>1

LEMMA ExportingTypes == ASSUME ExportTypes, Records, ExportNext PROVE ExportTypes'
<1>0. /\ DOMAIN export = {"at", "next", "image", "got", "memory", "walked"}
      /\ Len(Albums) \in Nat /\ DOMAIN Albums = 1..Len(Albums)
  BY SceneAssumption DEF ExportTypes, IsExport
<1>1. ASSUME IsExport(export'), Disk', Limits' PROVE ExportTypes'
  BY <1>1 DEF ExportTypes
<1>2. CASE StartExport
  <2> DEFINE m == Load(progress)
  <2>1. IsRecord(m)
    BY LoadTypes DEF ExportTypes
  <2> HIDE DEF m
  <2>2. export' = [Down EXCEPT !.at = "walk", !.memory = m]
    BY <1>2 DEF StartExport, m
  <2>3. IsExport(export')
    BY <2>1, <2>2, DownTypes DEF IsExport, InAlbum, Down
  <2>4. Disk' /\ Limits'
    BY <1>2, ExportAssumption DEF StartExport, ExportTypes, Disk, Limits
  <2> QED BY <1>1, <2>3, <2>4
<1>3. CASE PassAlbum
  <2>1. export.at = "walk" /\ export.next <= Len(Albums)
    BY <1>3 DEF PassAlbum
  <2>2. export.next \in DOMAIN Albums /\ export.next + 1 \in 1..(Len(Albums) + 1)
    BY <1>0, <2>1 DEF ExportTypes, IsExport
  <2>3. CASE export' = [export EXCEPT !.next = export.next + 1]
    <3>1. IsExport(export')
      BY <1>0, <2>1, <2>2, <2>3 DEF ExportTypes, IsExport, InAlbum
    <3> QED BY <1>1, <1>3, <3>1 DEF PassAlbum, ExportTypes, Disk, Limits
  <2>4. CASE Current \in DOMAIN export.memory.albums
             /\ export' = [export EXCEPT !.next = export.next + 1,
                  !.walked = Append(export.walked, [album |-> Current, images |-> export.memory.albums[Current]])]
    <3>1. export.memory.albums[Current] \in Seq(Exportable) /\ Current \in Album /\ export.walked \in Seq(Walked)
      BY <2>4 DEF ExportTypes, IsExport, IsRecord
    <3> DEFINE w == Append(export.walked, [album |-> Current, images |-> export.memory.albums[Current]])
    <3>2. w \in Seq(Walked)
      BY <3>1, MoreWalked
    <3> HIDE DEF w
    <3>3. export' = [export EXCEPT !.next = export.next + 1, !.walked = w]
      BY <2>4 DEF w
    <3>4. IsExport(export')
      BY <1>0, <2>1, <2>2, <3>2, <3>3 DEF ExportTypes, IsExport, InAlbum
    <3> QED BY <1>1, <1>3, <3>4 DEF PassAlbum, ExportTypes, Disk, Limits
  <2> QED BY <1>3, <2>3, <2>4 DEF PassAlbum
<1>4. CASE OpenAlbum
  <2>1. export.next \in DOMAIN Albums /\ export' = [export EXCEPT !.at = "images", !.image = 1, !.got = << >>]
    BY <1>0, <1>4 DEF OpenAlbum, ExportTypes, IsExport
  <2>2. IsExport(export')
    BY <1>0, <2>1 DEF ExportTypes, IsExport, InAlbum
  <2> QED BY <1>1, <1>4, <2>2 DEF OpenAlbum, ExportTypes, Disk, Limits
<1>5. CASE PassImage
  <2>1. export.at = "images" /\ export.next \in DOMAIN Albums
    BY <1>5 DEF PassImage, ExportTypes, IsExport, InAlbum
  <2>2. CASE export' = [export EXCEPT !.image = export.image + 1]
    <3>1. IsExport(export')
      BY <1>0, <2>1, <2>2 DEF ExportTypes, IsExport, InAlbum
    <3> QED BY <1>1, <1>5, <3>1 DEF PassImage, ExportTypes, Disk, Limits
  <2>3. CASE CurrentImage \in export.memory.images
             /\ export' = [export EXCEPT !.image = export.image + 1, !.got = Append(export.got, CurrentImage)]
    <3>1. CurrentImage \in Exportable
      BY <2>3 DEF ExportTypes, IsExport, IsRecord
    <3>2. Append(export.got, CurrentImage) \in Seq(Exportable)
      BY <3>1 DEF ExportTypes, IsExport
    <3>3. IsExport(export')
      BY <1>0, <2>1, <2>3, <3>2 DEF ExportTypes, IsExport, InAlbum
    <3> QED BY <1>1, <1>5, <3>3 DEF PassImage, ExportTypes, Disk, Limits
  <2> QED BY <1>5, <2>2, <2>3 DEF PassImage
<1>6. CASE DownloadImage
  <2>1. export.next \in DOMAIN Albums /\ export' = [export EXCEPT !.at = "file"]
    BY <1>6 DEF DownloadImage, Go, ExportTypes, IsExport, InAlbum
  <2>2. CurrentImage \in Image
    BY <1>6, <2>1, CurrentTypes DEF DownloadImage, ExportTypes
  <2>3. IsExport(export')
    BY <1>0, <2>1 DEF ExportTypes, IsExport, InAlbum
  <2> QED BY <1>1, <1>6, <2>2, <2>3 DEF DownloadImage, ExportTypes, Disk, Limits
<1>7. CASE RecordImage
  <2>1. export.next \in DOMAIN Albums /\ CurrentImage \in Exportable
    <3>1. /\ export.next \in DOMAIN Albums /\ export.image \in DOMAIN ImagesOf[Current]
          /\ CurrentImage \notin Unsupported
      BY <1>7 DEF RecordImage, Records, Inside
    <3>2. export.image <= Len(ImagesOf[Current])
      BY <3>1, CurrentTypes DEF ExportTypes
    <3> QED BY <3>1, <3>2, CurrentTypes DEF ExportTypes, Exportable
  <2> DEFINE m == [images |-> export.memory.images \cup {CurrentImage}, albums |-> export.memory.albums]
             got == Append(export.got, CurrentImage)
  <2>2. IsRecord(m)
    BY <2>1 DEF ExportTypes, IsExport, IsRecord
  <2>3. got \in Seq(Exportable)
    BY <2>1 DEF ExportTypes, IsExport
  <2> HIDE DEF m, got
  <2>4. export' = [export EXCEPT !.at = "images", !.image = export.image + 1, !.got = got, !.memory = m]
    BY <1>7 DEF RecordImage, m, got
  <2>5. IsExport(export')
    BY <1>0, <2>1, <2>2, <2>3, <2>4 DEF ExportTypes, IsExport, InAlbum
  <2>6. Disk'
    BY <1>7, <2>1 DEF RecordImage, ExportTypes, Disk
  <2> QED BY <1>1, <1>7, <2>5, <2>6 DEF RecordImage, ExportTypes, Limits
<1>8. CASE SkipImage
  <2>1. /\ export.at = "images" /\ export.next \in DOMAIN Albums
        /\ export' = [export EXCEPT !.image = export.image + 1]
    BY <1>8 DEF SkipImage, ExportTypes, IsExport, InAlbum
  <2>2. CurrentImage \in Image
    BY <1>8, <2>1, CurrentTypes DEF SkipImage, ExportTypes
  <2>3. IsExport(export')
    BY <1>0, <2>1 DEF ExportTypes, IsExport, InAlbum
  <2>4. Limits'
    BY <1>8, <2>2, ExportAssumption DEF SkipImage, Outage, ExportTypes, Limits
  <2> QED BY <1>1, <1>8, <2>3, <2>4 DEF SkipImage, ExportTypes, Disk
<1>9. CASE SkipAlbum
  <2>1. export.next \in DOMAIN Albums /\ export' = [export EXCEPT !.at = "walk", !.next = export.next + 1]
    BY <1>9 DEF SkipAlbum, ExportTypes, IsExport, InAlbum
  <2>2. IsExport(export')
    BY <1>0, <2>1 DEF ExportTypes, IsExport, InAlbum
  <2>3. Limits'
    BY <1>9, ExportAssumption DEF SkipAlbum, Outage, ExportTypes, Limits
  <2> QED BY <1>1, <1>9, <2>2, <2>3 DEF SkipAlbum, ExportTypes, Disk
<1>10. CASE BeginProgress
  <2>1. export.at = "images" /\ export.next \in DOMAIN Albums
    BY <1>10 DEF BeginProgress, ExportTypes, IsExport, InAlbum
  <2>2. Current \in Album
    BY <2>1, CurrentTypes DEF ExportTypes
  <2> DEFINE w == Append(export.walked, [album |-> Current, images |-> export.got])
             m == [images |-> export.memory.images,
                   albums |-> [a \in DOMAIN export.memory.albums \cup {Current} |->
                                 IF a = Current THEN export.got ELSE export.memory.albums[a]]]
  <2>3. w \in Seq(Walked)
    BY <2>2, MoreWalked DEF ExportTypes, IsExport
  <2>4. IsRecord(m)
    BY <2>2 DEF ExportTypes, IsExport, IsRecord
  <2> HIDE DEF w, m
  <2>5. export' = [export EXCEPT !.at = "progress", !.walked = w, !.memory = m]
    BY <1>10 DEF BeginProgress, w, m
  <2>6. IsExport(export')
    BY <1>0, <2>1, <2>3, <2>4, <2>5 DEF ExportTypes, IsExport, InAlbum
  <2> QED BY <1>1, <1>10, <2>6 DEF BeginProgress, ExportTypes, Disk, Limits
<1>11. CASE BeginManifest
  <2>1. export.next \in DOMAIN Albums /\ export' = [export EXCEPT !.at = "manifest"] /\ IsRecord(export.memory)
    BY <1>11 DEF BeginManifest, Go, ExportTypes, IsExport, InAlbum
  <2>2. IsExport(export')
    BY <1>0, <2>1 DEF ExportTypes, IsExport, InAlbum
  <2> QED BY <1>1, <1>11, <2>1, <2>2 DEF BeginManifest, ExportTypes, Disk, Limits
<1>12. CASE EndManifest
  <2>1. /\ export.next \in DOMAIN Albums /\ export.walked \in Seq(Walked)
        /\ export' = [export EXCEPT !.at = "walk", !.next = export.next + 1]
    BY <1>12 DEF EndManifest, ExportTypes, IsExport, InAlbum
  <2>2. IsExport(export')
    BY <1>0, <2>1 DEF ExportTypes, IsExport, InAlbum
  <2> QED BY <1>1, <1>12, <2>1, <2>2 DEF EndManifest, ExportTypes, Disk, Limits
<1>13. CASE FinishExport
  <2>1. IsExport(export')
    BY <1>0, <1>13 DEF FinishExport, Go, ExportTypes, IsExport, InAlbum
  <2> QED BY <1>1, <1>13, <2>1 DEF FinishExport, ExportTypes, Disk, Limits
<1>14. CASE CrashExport
  BY <1>1, <1>14, DownTypes DEF CrashExport, ExportTypes, Disk, Limits
<1>15. StartExport \/ PassAlbum \/ OpenAlbum \/ PassImage \/ DownloadImage \/ RecordImage \/ SkipImage
         \/ SkipAlbum \/ BeginProgress \/ BeginManifest \/ EndManifest \/ FinishExport \/ CrashExport
  BY DEF ExportNext
<1> QED BY <1>15, <1>2, <1>3, <1>4, <1>5, <1>6, <1>7, <1>8, <1>9, <1>10, <1>11, <1>12, <1>13, <1>14

-----------------------------------------------------------------------------
(* The importer: inside an album there is one, and inside its path a title. *)

Depth(r) == LET path == UrlPath[r.albums[r.next].album]
            IN  IF Len(path) = 1 THEN 1 ELSE Len(path) - 1

IsImport(r) ==
  /\ r \in ImportState
  /\ r.at \notin {"down", "done", "album"} => r.next \in DOMAIN r.albums
  /\ r.at \in {"folder", "makeFolder"} => r.level \in 1..Depth(r)
  /\ \A i \in Image : r.image[i] # "todo" => i \in Exportable

Bucket ==
  /\ row \in [DOMAIN row -> AssetRow] /\ DOMAIN row \subseteq Asset /\ objects \subseteq Key
  /\ month \in Month /\ shaUnique \in BOOLEAN /\ holes \in BOOLEAN

\* Whoever is about to queue an asset has its row.
HasRow ==
  /\ jobs \subseteq DOMAIN row
  /\ \A i \in Image : import.image[i] = "queue" => i \in DOMAIN row
  /\ scan.at = "queue" => scan.to[1] \in DOMAIN row
  /\ reset.rows \subseteq DOMAIN row
  /\ reset.at = "queue" => reset.asset \in DOMAIN row

LEMMA PathTypes ==
  ASSUME IsImport(import), import.next \in DOMAIN import.albums
  PROVE  /\ This \in Walked /\ Wanted \subseteq Exportable
         /\ Segments \in Seq(Title) /\ Len(Segments) \in Nat \ {0} /\ GallerySegment \in Title
         /\ Len(FolderSegments) = Depth(import) /\ FolderSegments \in Seq(Title)
<1>1. import.albums \in Seq(Walked)
  BY DEF IsImport, ImportState
<1>2. This \in Walked
  BY <1>1 DEF This
<1>3. This.album \in Album /\ This.images \in Seq(Exportable)
  BY <1>2 DEF Walked
<1>4. Segments \in Seq(Title) \ {<< >>}
  BY <1>3, ImportAssumption DEF Segments
<1>5. Segments \in Seq(Title) /\ Len(Segments) \in Nat \ {0}
  <2>1. Segments \in Seq(Title) /\ Segments # << >>
    BY <1>4
  <2> QED BY <2>1
<1>6. GallerySegment \in Title
  BY <1>5 DEF GallerySegment
<1>7. Len(FolderSegments) = Depth(import) /\ FolderSegments \in Seq(Title)
  <2>1. Depth(import) = IF Len(Segments) = 1 THEN 1 ELSE Len(Segments) - 1
    BY DEF Depth, Segments, This
  <2>2. CASE Len(Segments) = 1
    <3>1. FolderSegments = <<Imported>>
      BY <2>2 DEF FolderSegments
    <3> QED BY <2>1, <2>2, <3>1, ImportAssumption
  <2>3. CASE Len(Segments) # 1
    <3> DEFINE n == Len(Segments) - 1
    <3>0. n \in 1..Len(Segments)
      <4>1. \A m \in Nat \ {0} : m # 1 => m - 1 \in 1..m
        OBVIOUS
      <4> QED BY <1>5, <2>3, <4>1
    <3>1. FolderSegments = SubSeq(Segments, 1, n) /\ n \in 1..Len(Segments)
      BY <2>3, <3>0 DEF FolderSegments
    <3>2. SubSeq(Segments, 1, n) \in Seq(Title) /\ Len(SubSeq(Segments, 1, n)) = n
      BY <1>5, <3>1
    <3> QED BY <2>1, <2>3, <3>1, <3>2
  <2> QED BY <2>2, <2>3
<1>8. Wanted \subseteq Exportable
  BY <1>3 DEF Wanted
<1> QED BY <1>2, <1>5, <1>6, <1>7, <1>8

LEMMA ImportDownTypes == IsImport(ImportDown)
<1>1. 1 \in Month
  BY ImportAssumption DEF Month
<1>2. << >> \in Seq(Walked)
  OBVIOUS
<1> QED BY <1>1, <1>2 DEF IsImport, ImportState, ImportDown

LEMMA EnterFolderTypes ==
  ASSUME IsImport(import), import.at \in {"folder", "makeFolder"}, NEW f \in Folder, EnterFolder(f)
  PROVE  IsImport(import')
<1>1. /\ import.next \in DOMAIN import.albums /\ import.level \in 1..Depth(import) /\ Depth(import) \in Nat
      /\ Len(FolderSegments) = Depth(import)
  BY PathTypes DEF IsImport
<1>2. import' = [import EXCEPT !.parent = f, !.level = import.level + 1,
                           !.at = IF import.level < Len(FolderSegments) THEN "folder" ELSE "gallery"]
  BY DEF EnterFolder
<1>3. import' \in ImportState
  <2>1. import.level + 1 \in Nat \ {0} /\ f \in Folder \cup {NoFolder}
    BY DEF IsImport, ImportState
  <2>2. \E at \in {"folder", "gallery"}, n \in Nat \ {0} :
          import' = [import EXCEPT !.parent = f, !.level = n, !.at = at]
    BY <1>2, <2>1
  <2>3. PICK at \in {"folder", "gallery"}, n \in Nat \ {0} :
          import' = [import EXCEPT !.parent = f, !.level = n, !.at = at]
    BY <2>2
  <2> QED BY <2>1, <2>3 DEF IsImport, ImportState
<1>4. /\ import'.albums = import.albums /\ import'.next = import.next /\ import'.image = import.image
      /\ import'.level = import.level + 1
      /\ import'.at = IF import.level < Len(FolderSegments) THEN "folder" ELSE "gallery"
  BY <1>2 DEF IsImport, ImportState
<1>5. Depth(import') = Depth(import)
  BY <1>4 DEF Depth
<1>6. import'.at \in {"folder", "makeFolder"} => import'.level \in 1..Depth(import')
  BY <1>1, <1>4, <1>5
<1> QED BY <1>1, <1>3, <1>4, <1>6 DEF IsImport

LEMMA EnterGalleryTypes ==
  ASSUME IsImport(import), import.at \in {"gallery", "makeGallery"}, NEW g \in Gallery, EnterGallery(g)
  PROVE  IsImport(import') /\ import'.image = [i \in Image |-> "todo"]
<1>1. import' = [import EXCEPT !.gallery = g, !.at = IF Publish THEN "publish" ELSE "images",
                           !.image = [i \in Image |-> "todo"]]
  BY DEF EnterGallery
<1>2. import' \in ImportState
  BY <1>1 DEF IsImport, ImportState
<1> QED BY <1>1, <1>2 DEF IsImport, ImportState

\* The importer goes on inside the album.
LEMMA ImportAtTypes ==
  ASSUME IsImport(import), NEW at, ImportAt(at),
         \/ import.at = "folder" /\ at = "makeFolder"
         \/ import.at = "gallery" /\ at = "makeGallery"
         \/ import.at = "publish" /\ at = "images"
         \/ import.at = "album" /\ at = "done"
  PROVE  IsImport(import') /\ import'.image = import.image
<1>1. import' = [import EXCEPT !.at = at]
  BY DEF ImportAt
<1>2. import' \in ImportState
  BY <1>1 DEF IsImport, ImportState
<1>3. /\ import'.albums = import.albums /\ import'.next = import.next /\ import'.image = import.image
      /\ import'.level = import.level /\ import'.at = at
  BY <1>1 DEF IsImport, ImportState
<1>4. Depth(import') = Depth(import)
  BY <1>3 DEF Depth
<1> QED BY <1>2, <1>3, <1>4 DEF IsImport

LEMMA SetImageTypes ==
  ASSUME IsImport(import), import.at = "images", NEW i \in Exportable, NEW k \in Month,
         NEW at \in {"stored", "queue", "ready", "bad"},
         import' \in {[import EXCEPT !.image[i] = at], [import EXCEPT !.image[i] = at, !.key[i] = k]}
  PROVE  IsImport(import') /\ import'.image = [import.image EXCEPT ![i] = at]
<1>1. import' \in ImportState
  <2>1. /\ [import.image EXCEPT ![i] = at] \in [Image -> {"todo", "stored", "queue", "ready", "bad"}]
        /\ [import.key EXCEPT ![i] = k] \in [Image -> Month]
    BY DEF IsImport, ImportState
  <2>2. CASE import' = [import EXCEPT !.image[i] = at]
    BY <2>1, <2>2 DEF IsImport, ImportState
  <2>3. CASE import' = [import EXCEPT !.image[i] = at, !.key[i] = k]
    BY <2>1, <2>3 DEF IsImport, ImportState
  <2> QED BY <2>2, <2>3
<1>2. import'.albums = import.albums /\ import'.next = import.next /\ import'.at = import.at
      /\ import'.image = [import.image EXCEPT ![i] = at]
  BY DEF IsImport, ImportState
<1> QED BY <1>1, <1>2 DEF IsImport, ImportState

ImportTypes == IsImport(import) /\ Bucket /\ HasRow

\* The importer's steps that leave the bucket and the rows alone.
LEMMA QuietImport ==
  ASSUME ImportTypes, IsImport(import'), UNCHANGED <<bucketVars, scan, reset>>,
         holes' \in BOOLEAN, \A i \in Image : import'.image[i] = "queue" => import.image[i] = "queue"
  PROVE  ImportTypes'
<1>1. Bucket'
  BY DEF ImportTypes, Bucket, bucketVars
<1>2. HasRow'
  BY DEF ImportTypes, HasRow, bucketVars
<1> QED BY <1>1, <1>2 DEF ImportTypes

LEMMA UpsertTypes ==
  ASSUME Bucket, NEW i \in Asset, NEW k \in Month
  PROVE  /\ Upserted(i, k) \in [DOMAIN row \cup {i} -> AssetRow]
         /\ DOMAIN Upserted(i, k) = DOMAIN row \cup {i}
<1>1. [status |-> "pending", month |-> k] \in AssetRow
  BY DEF AssetRow
<1> QED BY <1>1 DEF Bucket, Upserted

LEMMA ImportingTypes ==
  ASSUME TreeTypeOK, ImportTypes, Disk, ImportNext, UNCHANGED <<scan, reset>>
  PROVE  TreeTypeOK' /\ ImportTypes'
<1>0. Rows /\ Rest /\ IsImport(import) /\ Bucket /\ HasRow
  BY DEF TreeTypeOK, ImportTypes, Rows, Rest, FolderRows, GalleryRows, ItemRows
<1>1. ASSUME UNCHANGED treeVars PROVE TreeTypeOK'
  BY <1>1 DEF treeVars, TreeTypeOK
<1>2. ASSUME Rows', UNCHANGED <<deleted, post, edits, reshaped>> PROVE TreeTypeOK'
  BY <1>0, <1>2 DEF TreeTypeOK, Rows, Rest, FolderRows, GalleryRows, ItemRows
<1>3. ASSUME NEW i \in Image, i \in Exportable PROVE i \in Asset
  BY <1>3, ImportAssumption
<1>4. CASE StartImport
  <2>1. manifest \in Seq(Walked)
    BY <1>4 DEF StartImport, Disk
  <2>2. import' = [ImportDown EXCEPT !.at = "album", !.albums = manifest]
    BY <1>4 DEF StartImport
  <2>3. ImportDown \in ImportState /\ ImportDown.image = [i \in Image |-> "todo"]
    BY ImportDownTypes DEF IsImport, ImportDown
  <2>4. import' \in ImportState /\ import'.image = [i \in Image |-> "todo"] /\ import'.at = "album"
    BY <2>1, <2>2, <2>3 DEF ImportState
  <2>5. IsImport(import')
    BY <2>4 DEF IsImport
  <2> QED BY <1>0, <1>1, <1>4, <2>4, <2>5, QuietImport DEF StartImport, Bucket
<1>5. CASE BeginAlbum
  <2>1. import' = [import EXCEPT !.at = "folder", !.level = 1, !.parent = NoFolder]
    BY <1>5 DEF BeginAlbum
  <2>2. /\ import' \in ImportState /\ import'.image = import.image /\ import'.at = "folder"
        /\ import'.next = import.next /\ import'.albums = import.albums /\ import'.level = 1
    <3>1. 1 \in Nat \ {0} /\ NoFolder \in Folder \cup {NoFolder}
      OBVIOUS
    <3>2. import' \in ImportState
      BY <1>0, <2>1, <3>1 DEF IsImport, ImportState
    <3> QED BY <1>0, <2>1, <3>2 DEF IsImport, ImportState
  <2>3. import.next \in DOMAIN import.albums
    BY <1>0, <1>5 DEF BeginAlbum, IsImport, ImportState
  <2>4. 1 \in 1..Depth(import) /\ Depth(import') = Depth(import)
    <3>1. import.albums[import.next].album \in Album
      BY <1>0, <2>3, PathTypes DEF This, Walked
    <3>2. Len(UrlPath[import.albums[import.next].album]) \in Nat \ {0}
      BY <1>0, <2>3, PathTypes DEF Segments, This
    <3>3. Depth(import') = Depth(import)
      BY <2>2 DEF Depth
    <3>4. \A n \in Nat \ {0} : 1 \in 1..(IF n = 1 THEN 1 ELSE n - 1)
      OBVIOUS
    <3> QED BY <3>2, <3>3, <3>4 DEF Depth
  <2>5. IsImport(import')
    BY <1>0, <2>2, <2>3, <2>4 DEF IsImport
  <2> QED BY <1>0, <1>1, <1>5, <2>2, <2>5, QuietImport DEF BeginAlbum, Bucket
<1>6. CASE FindFolder
  <2>1. \/ \E f \in DOMAIN folders : EnterFolder(f)
        \/ ImportAt("makeFolder")
    BY <1>6 DEF FindFolder, Matching
  <2>2. IsImport(import') /\ import'.image = import.image
    <3>1. ASSUME NEW f \in DOMAIN folders, EnterFolder(f) PROVE IsImport(import') /\ import'.image = import.image
      <4>1. f \in Folder
        BY <1>0 DEF Rows, FolderRows
      <4>2. IsImport(import')
        BY <1>0, <1>6, <3>1, <4>1, EnterFolderTypes DEF FindFolder
      <4> QED BY <1>0, <3>1, <4>2 DEF EnterFolder, IsImport, ImportState
    <3> QED BY <1>0, <1>6, <2>1, <3>1, ImportAtTypes DEF FindFolder
  <2> QED BY <1>0, <1>1, <1>6, <2>2, QuietImport DEF FindFolder, Bucket
<1>7. CASE MakeFolder
  <2>1. PICK f \in Folder : InsertFolder(f, import.parent, FolderSegments[import.level], "public") /\ EnterFolder(f)
    BY <1>7 DEF MakeFolder
  <2>2. import.next \in DOMAIN import.albums /\ import.level \in 1..Depth(import)
    BY <1>0, <1>7 DEF MakeFolder, IsImport
  <2>3. FolderSegments[import.level] \in Title /\ import.parent \in Folder \cup {NoFolder}
    BY <1>0, <2>2, PathTypes DEF IsImport, ImportState
  <2>4. Rows'
    BY <1>0, <1>7, <2>1, <2>3, NewFolderTypes DEF MakeFolder, Visibility
  <2>5. IsImport(import')
    BY <1>0, <1>7, <2>1, EnterFolderTypes DEF MakeFolder
  <2>6. import'.image = import.image
    BY <1>0, <2>1 DEF EnterFolder, IsImport, ImportState
  <2> QED BY <1>0, <1>2, <1>7, <2>4, <2>5, <2>6, QuietImport DEF MakeFolder, Bucket
<1>8. CASE FindGallery
  <2>1. \/ \E g \in DOMAIN galleries : EnterGallery(g)
        \/ ImportAt("makeGallery")
    BY <1>8 DEF FindGallery
  <2>2. IsImport(import') /\ import'.image \in {import.image, [i \in Image |-> "todo"]}
    <3>1. ASSUME NEW g \in DOMAIN galleries, EnterGallery(g)
          PROVE  IsImport(import') /\ import'.image = [i \in Image |-> "todo"]
      <4>1. g \in Gallery
        BY <1>0 DEF Rows, GalleryRows
      <4> QED BY <1>0, <1>8, <3>1, <4>1, EnterGalleryTypes DEF FindGallery
    <3> QED BY <1>0, <1>8, <2>1, <3>1, ImportAtTypes DEF FindGallery
  <2> QED BY <1>0, <1>1, <1>8, <2>2, QuietImport DEF FindGallery, Bucket
<1>9. CASE MakeGallery
  <2>1. PICK g \in Gallery : InsertGallery(g, import.parent, GallerySegment, "public") /\ EnterGallery(g)
    BY <1>9 DEF MakeGallery
  <2>2. GallerySegment \in Title
    BY <1>0, <1>9, PathTypes DEF MakeGallery, IsImport
  <2>3. Rows'
    BY <1>0, <1>9, <2>1, <2>2, NewGalleryTypes DEF MakeGallery, Visibility
  <2>4. IsImport(import') /\ import'.image = [i \in Image |-> "todo"]
    BY <1>0, <1>9, <2>1, EnterGalleryTypes DEF MakeGallery
  <2> QED BY <1>0, <1>2, <1>9, <2>3, <2>4, QuietImport DEF MakeGallery, Bucket
<1>10. CASE PublishGallery
  <2>1. Rows'
    <3>1. CASE import.gallery \in DOMAIN galleries
      <4>1. galleries[import.gallery].title \in Title
        BY <1>0, <3>1 DEF Rows, GalleryRows, GalleryRow
      <4> QED BY <1>0, <1>10, <3>1, <4>1, SetGalleryTypes DEF PublishGallery, Visibility
    <3>2. CASE import.gallery \notin DOMAIN galleries
      BY <1>0, <1>10, <3>2 DEF PublishGallery, Rows
    <3> QED BY <3>1, <3>2
  <2>2. IsImport(import') /\ import'.image = import.image
    BY <1>0, <1>10, ImportAtTypes DEF PublishGallery
  <2> QED BY <1>0, <1>2, <1>10, <2>1, <2>2, QuietImport DEF PublishGallery, Bucket
<1>11. ASSUME NEW i \in Image, StoreImage(i) PROVE TreeTypeOK' /\ ImportTypes'
  <2>1. i \in Exportable /\ month \in Month
    <3>1. import.next \in DOMAIN import.albums /\ i \in Wanted
      BY <1>0, <1>11 DEF StoreImage, IsImport
    <3> QED BY <1>0, <3>1, PathTypes DEF Bucket
  <2>2. /\ import.at = "images"
        /\ \E at \in {"bad", "stored"} :
             import' \in {[import EXCEPT !.image[i] = at], [import EXCEPT !.image[i] = at, !.key[i] = month]}
    BY <1>11 DEF StoreImage, SetImage
  <2>3. PICK at \in {"bad", "stored"} : import'.image = [import.image EXCEPT ![i] = at] /\ IsImport(import')
    BY <1>0, <2>1, <2>2, SetImageTypes
  <2>4. Bucket'
    <3>1. <<i, month>> \in Key
      BY <2>1 DEF Key
    <3> QED BY <1>0, <1>11, <3>1 DEF StoreImage, Bucket
  <2>5. HasRow'
    BY <1>0, <1>11, <2>3 DEF StoreImage, HasRow, IsImport, ImportState
  <2> QED BY <1>1, <1>11, <2>3, <2>4, <2>5 DEF StoreImage, ImportTypes
<1>12. ASSUME NEW i \in Image, UpsertImage(i) PROVE TreeTypeOK' /\ ImportTypes'
  <2>1. /\ import.at = "images" /\ i \in Exportable /\ i \in Asset /\ import.key[i] \in Month /\ month \in Month
        /\ row' = Upserted(i, import.key[i])
    BY <1>0, <1>3, <1>12 DEF UpsertImage, IsImport, ImportState, Bucket
  <2>2. row' \in [DOMAIN row' -> AssetRow] /\ DOMAIN row' = DOMAIN row \cup {i}
    BY <1>0, <2>1, UpsertTypes
  <2>3. \E at \in {"queue", "ready"} : import' = [import EXCEPT !.image[i] = at]
    BY <1>12 DEF UpsertImage, SetImage
  <2>4. PICK at \in {"queue", "ready"} : import'.image = [import.image EXCEPT ![i] = at] /\ IsImport(import')
    BY <1>0, <2>1, <2>3, SetImageTypes
  <2>5. Bucket'
    BY <1>0, <1>12, <2>1, <2>2 DEF UpsertImage, Bucket
  <2>6. HasRow'
    BY <1>0, <1>12, <2>2, <2>4 DEF UpsertImage, HasRow, IsImport, ImportState
  <2> QED BY <1>1, <1>12, <2>4, <2>5, <2>6 DEF UpsertImage, ImportTypes
<1>13. ASSUME NEW i \in Image, QueueImage(i) PROVE TreeTypeOK' /\ ImportTypes'
  <2>1. import.at = "images" /\ i \in Exportable /\ month \in Month /\ i \in DOMAIN row
    BY <1>0, <1>13 DEF QueueImage, IsImport, HasRow, Bucket
  <2>2. import' = [import EXCEPT !.image[i] = "ready"]
    BY <1>13 DEF QueueImage, SetImage
  <2>3. import'.image = [import.image EXCEPT ![i] = "ready"] /\ IsImport(import')
    BY <1>0, <2>1, <2>2, SetImageTypes
  <2>4. Bucket'
    BY <1>0, <1>13 DEF QueueImage, Bucket
  <2>5. HasRow'
    BY <1>0, <1>13, <2>1, <2>3 DEF QueueImage, HasRow, IsImport, ImportState
  <2> QED BY <1>1, <1>13, <2>3, <2>4, <2>5 DEF QueueImage, ImportTypes
<1>14. CASE BeginItems
  <2>1. IsImport(import') /\ import'.image = import.image
    <3>1. import.at = "images" /\ import' = [import EXCEPT !.at = "items", !.item = 1, !.position = 0]
      BY <1>14 DEF BeginItems
    <3>2. 1 \in Nat \ {0} /\ 0 \in Nat
      OBVIOUS
    <3>3. import' \in ImportState
      BY <1>0, <3>1, <3>2 DEF IsImport, ImportState
    <3> QED BY <1>0, <3>1, <3>3 DEF IsImport, ImportState
  <2> QED BY <1>0, <1>1, <1>14, <2>1, QuietImport DEF BeginItems, Bucket
<1>15. CASE InsertItem
  <2>1. import.next \in DOMAIN import.albums /\ import.item \in DOMAIN This.images /\ This \in Walked
    <3>1. import.next \in DOMAIN import.albums /\ import.item \in Nat \ {0}
      BY <1>0, <1>15 DEF InsertItem, IsImport, ImportState
    <3>2. This \in Walked
      BY <1>0, <3>1, PathTypes
    <3> QED BY <1>15, <3>1, <3>2 DEF InsertItem, Walked
  <2> DEFINE i == This.images[import.item]
             at == <<import.gallery, i>>
  <2>2. i \in Asset /\ import.position \in Nat
    <3>1. i \in Exportable
      BY <2>1 DEF Walked
    <3> QED BY <1>0, <3>1, ImportAssumption DEF IsImport, ImportState
  <2>3. Rows'
    <3>1. CASE items' = items
      BY <1>0, <1>15, <3>1 DEF InsertItem, Rows
    <3>2. CASE /\ import.gallery \in DOMAIN galleries
               /\ items' = [x \in DOMAIN items \cup {at} |-> IF x = at THEN import.position ELSE items[x]]
      <4>1. at \in Gallery \X Asset
        BY <1>0, <2>2, <3>2 DEF Rows, GalleryRows
      <4> HIDE DEF at
      <4>2. ItemRows(items')
        BY <1>0, <2>2, <3>2, <4>1 DEF Rows, ItemRows
      <4> QED BY <1>0, <1>15, <4>2 DEF InsertItem, Rows
    <3> QED BY <1>15, <3>1, <3>2 DEF InsertItem
  <2>4. IsImport(import') /\ import'.image = import.image
    <3>1. /\ import.item + 1 \in Nat \ {0}
          /\ import.position \in Nat /\ import.position + 1 \in Nat
      BY <1>0 DEF IsImport, ImportState
    <3>2. PICK p \in Nat : import' = [import EXCEPT !.item = import.item + 1, !.position = p]
      BY <1>15, <3>1 DEF InsertItem
    <3> QED BY <1>0, <1>15, <3>1, <3>2 DEF InsertItem, IsImport, ImportState
  <2> QED BY <1>0, <1>2, <1>15, <2>3, <2>4, QuietImport DEF InsertItem, Bucket
<1>16. CASE WriteRedirect
  <2>1. import' = [import EXCEPT !.at = "album", !.next = import.next + 1]
    BY <1>16 DEF WriteRedirect
  <2>2. IsImport(import') /\ import'.image = import.image
    <3>1. import.next + 1 \in Nat \ {0}
      BY <1>0 DEF IsImport, ImportState
    <3>2. import' \in ImportState
      BY <1>0, <2>1, <3>1 DEF IsImport, ImportState
    <3> QED BY <1>0, <2>1, <3>2 DEF IsImport, ImportState
  <2>3. Rows'
    BY <1>0, <1>16 DEF WriteRedirect, Rows
  <2> QED BY <1>0, <1>2, <1>16, <2>2, <2>3, QuietImport DEF WriteRedirect, Bucket
<1>17. CASE FinishImport
  <2>1. IsImport(import') /\ import'.image = import.image
    BY <1>0, <1>17, ImportAtTypes DEF FinishImport
  <2> QED BY <1>0, <1>1, <1>17, <2>1, QuietImport DEF FinishImport, Bucket
<1>18. CASE CrashImport
  <2>1. import'.image = [i \in Image |-> "todo"] /\ IsImport(import')
    BY <1>18, ImportDownTypes DEF CrashImport, ImportDown
  <2> QED BY <1>0, <1>1, <1>18, <2>1, QuietImport DEF CrashImport, Bucket
<1> QED
  BY <1>4, <1>5, <1>6, <1>7, <1>8, <1>9, <1>10, <1>11, <1>12, <1>13, <1>14, <1>15, <1>16, <1>17, <1>18 DEF ImportNext

-----------------------------------------------------------------------------
(* The scripts over the bucket.                                            *)

IsScan(r) ==
  /\ r \in ScanState
  /\ r.at \notin {"down", "rows", "done"} => \A k \in r.keys : k[1] \in Asset
  /\ r.at \in {"delete", "row", "queue"} => r.to \in Asset \X Month
IsReset(r) == r \in ResetState /\ r.todo \subseteq r.rows

ScriptTypes == IsScan(scan) /\ IsReset(reset) /\ scans \in 0..MaxScans

LEMMA ScanDownTypes == IsScan(ScanDown) /\ NoKey \in Key \cup {NoKey}
  BY DEF IsScan, ScanState, ScanDown

LEMMA KeyTypes == ASSUME NEW k \in Key, k[1] \notin Unsupported PROVE k[1] \in Asset
  BY ImportAssumption DEF Key, Exportable

LEMMA ScanningTypes ==
  ASSUME ImportTypes, ScriptTypes, ScanNext, UNCHANGED <<importVars, reset>>
  PROVE  ImportTypes' /\ ScriptTypes'
<1>0. /\ IsImport(import) /\ Bucket /\ HasRow /\ IsScan(scan) /\ scan \in ScanState /\ IsReset(reset)
      /\ scans \in 0..MaxScans
  BY DEF ImportTypes, ScriptTypes, IsScan
<1>1. IsImport(import') /\ holes' \in BOOLEAN
  BY <1>0 DEF importVars, Bucket
<1>2. ASSUME UNCHANGED bucketVars, IsScan(scan'), scan'.at # "queue", scans' \in 0..MaxScans
      PROVE  ImportTypes' /\ ScriptTypes'
  BY <1>0, <1>1, <1>2 DEF bucketVars, importVars, ImportTypes, ScriptTypes, Bucket, HasRow
<1>3. CASE StartScan
  <2>1. scan' = [ScanDown EXCEPT !.at = "rows", !.keys = objects] /\ objects \subseteq Key
    BY <1>0, <1>3 DEF StartScan, Bucket
  <2>2. IsScan(scan') /\ scan'.at = "rows"
    BY <2>1, ScanDownTypes DEF IsScan, ScanState, ScanDown
  <2>3. scans' \in 0..MaxScans
    BY <1>0, <1>3, ScanAssumption DEF StartScan
  <2> QED BY <1>2, <1>3, <2>2, <2>3 DEF StartScan
<1>4. CASE ScanRows
  <2> DEFINE ks == {k \in scan.keys : k[1] \notin Unsupported} \ {<<a, row[a].month>> : a \in DOMAIN row}
  <2>1. ks \subseteq Key /\ \A k \in ks : k[1] \in Asset
    <3>1. scan.keys \subseteq Key
      BY <1>0 DEF ScanState
    <3>2. ks \subseteq {k \in scan.keys : k[1] \notin Unsupported}
      OBVIOUS
    <3> QED BY <3>1, <3>2, KeyTypes
  <2> HIDE DEF ks
  <2>2. scan' = [scan EXCEPT !.at = "next", !.keys = ks]
    BY <1>4 DEF ScanRows, ks
  <2>3. IsScan(scan') /\ scan'.at = "next"
    BY <1>0, <2>1, <2>2 DEF IsScan, ScanState
  <2> QED BY <1>0, <1>2, <1>4, <2>3 DEF ScanRows
<1>5. ASSUME NEW k \in scan.keys, CopyOrphan(k) PROVE ImportTypes' /\ ScriptTypes'
  <2>1. k \in Key /\ k[1] \in Asset /\ month \in Month
    BY <1>0, <1>5 DEF CopyOrphan, IsScan, ScanState, Bucket
  <2> DEFINE to == <<k[1], month>>
  <2>2. to \in Key /\ to \in Asset \X Month
    BY <2>1 DEF Key
  <2>3. PICK at \in {"row", "delete"} :
          scan' = [scan EXCEPT !.at = at, !.keys = scan.keys \ {k}, !.from = k, !.to = to]
    BY <1>5 DEF CopyOrphan
  <2>4. objects' \subseteq Key
    BY <1>0, <1>5, <2>2 DEF CopyOrphan, Bucket
  <2> HIDE DEF to
  <2>5. scan.keys \subseteq Key /\ \A x \in scan.keys : x[1] \in Asset
    BY <1>0, <1>5 DEF CopyOrphan, IsScan, ScanState
  <2>6. scan' \in ScanState /\ scan'.at = at /\ scan'.keys \subseteq scan.keys /\ scan'.to = to
    BY <1>0, <2>1, <2>2, <2>3, <2>5 DEF ScanState
  <2>7. IsScan(scan')
    BY <2>2, <2>5, <2>6 DEF IsScan
  <2>8. Bucket' /\ HasRow'
    BY <1>0, <1>1, <1>5, <2>4, <2>6 DEF CopyOrphan, importVars, Bucket, HasRow
  <2> QED BY <1>0, <1>1, <1>5, <2>7, <2>8 DEF CopyOrphan, ImportTypes, ScriptTypes
<1>6. CASE DeleteOrphan
  <2>1. scan.at = "delete" /\ scan' = [scan EXCEPT !.at = "row"] /\ objects' \subseteq Key
    BY <1>0, <1>6 DEF DeleteOrphan, Bucket
  <2>2. IsScan(scan') /\ scan'.at = "row"
    BY <1>0, <2>1 DEF IsScan, ScanState
  <2>3. Bucket' /\ HasRow'
    BY <1>0, <1>1, <1>6, <2>1, <2>2 DEF DeleteOrphan, importVars, Bucket, HasRow
  <2> QED BY <1>0, <1>1, <1>6, <2>2, <2>3 DEF DeleteOrphan, ImportTypes, ScriptTypes
<1>7. CASE AdoptOrphan
  <2>1. scan.at = "row" /\ scan.to \in Asset \X Month
    BY <1>0, <1>7 DEF AdoptOrphan, IsScan
  <2>2. scan.to[1] \in Asset /\ scan.to[2] \in Month /\ row' = Upserted(scan.to[1], scan.to[2])
    BY <1>7, <2>1 DEF AdoptOrphan
  <2>3. row' \in [DOMAIN row' -> AssetRow] /\ DOMAIN row' = DOMAIN row \cup {scan.to[1]}
    BY <1>0, <2>2, UpsertTypes
  <2>4. PICK at \in {"queue", "next"} : scan' = [scan EXCEPT !.at = at, !.seen = scan.seen \cup {scan.to[1]}]
    BY <1>7 DEF AdoptOrphan
  <2>5. IsScan(scan') /\ scan'.to = scan.to
    BY <1>0, <2>1, <2>2, <2>4 DEF IsScan, ScanState
  <2>6. Bucket' /\ HasRow'
    BY <1>0, <1>1, <1>7, <2>2, <2>3, <2>5 DEF AdoptOrphan, importVars, Bucket, HasRow
  <2> QED BY <1>0, <1>1, <1>7, <2>5, <2>6 DEF AdoptOrphan, ImportTypes, ScriptTypes
<1>8. CASE QueueOrphan
  <2>1. scan.at = "queue" /\ scan' = [scan EXCEPT !.at = "next"] /\ jobs' \subseteq DOMAIN row
    BY <1>0, <1>8 DEF QueueOrphan, HasRow
  <2>2. IsScan(scan') /\ scan'.at = "next"
    BY <1>0, <2>1 DEF IsScan, ScanState
  <2>3. Bucket' /\ HasRow'
    BY <1>0, <1>1, <1>8, <2>1, <2>2 DEF QueueOrphan, importVars, Bucket, HasRow
  <2> QED BY <1>0, <1>1, <1>8, <2>2, <2>3 DEF QueueOrphan, ImportTypes, ScriptTypes
<1>9. CASE FinishScan
  <2>1. scan' = [scan EXCEPT !.at = "done"]
    BY <1>9 DEF FinishScan
  <2>2. IsScan(scan') /\ scan'.at = "done"
    BY <1>0, <2>1 DEF IsScan, ScanState
  <2> QED BY <1>0, <1>2, <1>9, <2>2 DEF FinishScan
<1>10. CASE CrashScan
  <2>1. scan' = ScanDown /\ ScanDown.at = "down"
    BY <1>10 DEF CrashScan, ScanDown
  <2> QED BY <1>0, <1>2, <1>10, <2>1, ScanDownTypes DEF CrashScan
<1> QED BY <1>3, <1>4, <1>5, <1>6, <1>7, <1>8, <1>9, <1>10 DEF ScanNext

LEMMA ResettingTypes ==
  ASSUME ImportTypes, ScriptTypes, ResetNext, UNCHANGED <<importVars, scan>>
  PROVE  ImportTypes' /\ ScriptTypes'
<1>0. /\ IsImport(import) /\ Bucket /\ HasRow /\ IsScan(scan) /\ reset \in ResetState /\ IsReset(reset)
      /\ scans \in 0..MaxScans
  BY DEF ImportTypes, ScriptTypes, IsReset
<1>1. IsImport(import') /\ IsScan(scan') /\ holes' \in BOOLEAN
  BY <1>0 DEF importVars, Bucket
<1>2. ASSUME UNCHANGED bucketVars, IsReset(reset'), reset'.rows \subseteq DOMAIN row, scans' \in 0..MaxScans,
             reset'.at # "queue"
      PROVE  ImportTypes' /\ ScriptTypes'
  BY <1>0, <1>1, <1>2 DEF bucketVars, importVars, ImportTypes, ScriptTypes, Bucket, HasRow
<1>3. CASE StartReset
  <2>1. reset' = [at |-> "next", rows |-> DOMAIN row, todo |-> DOMAIN row, asset |-> NoFolder]
    BY <1>3 DEF StartReset
  <2>2. IsReset(reset') /\ reset'.rows \subseteq DOMAIN row /\ reset'.at = "next"
    BY <1>0, <2>1 DEF Bucket, IsReset, ResetState
  <2>3. scans' \in 0..MaxScans
    BY <1>0, <1>3, ScanAssumption DEF StartReset
  <2> QED BY <1>2, <1>3, <2>2, <2>3 DEF StartReset
<1>4. ASSUME NEW a \in reset.todo, ResetRow(a) PROVE ImportTypes' /\ ScriptTypes'
  <2>1. a \in DOMAIN row /\ a \in Asset
    BY <1>0 DEF IsReset, HasRow, Bucket
  <2>2. row' = [row EXCEPT ![a].status = "pending"]
    BY <1>4 DEF ResetRow
  <2>3. row' \in [DOMAIN row' -> AssetRow] /\ DOMAIN row' = DOMAIN row
    BY <1>0, <2>1, <2>2 DEF Bucket, AssetRow
  <2>4. reset' = [reset EXCEPT !.at = "queue", !.todo = reset.todo \ {a}, !.asset = a]
    BY <1>4 DEF ResetRow
  <2>5. IsReset(reset') /\ reset'.rows = reset.rows /\ reset'.asset = a
    BY <1>0, <2>1, <2>4 DEF IsReset, ResetState
  <2>6. Bucket' /\ HasRow'
    BY <1>0, <1>1, <1>4, <2>1, <2>3, <2>5 DEF ResetRow, importVars, Bucket, HasRow
  <2> QED BY <1>0, <1>1, <1>4, <2>5, <2>6 DEF ResetRow, ImportTypes, ScriptTypes
<1>5. CASE RequeueRow
  <2>1. reset.asset \in DOMAIN row /\ jobs' \subseteq DOMAIN row /\ reset' = [reset EXCEPT !.at = "next"]
    BY <1>0, <1>5 DEF RequeueRow, HasRow
  <2>2. IsReset(reset') /\ reset'.rows = reset.rows /\ reset'.at = "next"
    BY <1>0, <2>1 DEF IsReset, ResetState
  <2>3. Bucket' /\ HasRow'
    BY <1>0, <1>1, <1>5, <2>1, <2>2 DEF RequeueRow, importVars, Bucket, HasRow
  <2> QED BY <1>0, <1>1, <1>5, <2>2, <2>3 DEF RequeueRow, ImportTypes, ScriptTypes
<1>6. CASE FinishReset \/ CrashReset
  <2>1. PICK at \in {"done", "died"} : reset' = [reset EXCEPT !.at = at]
    BY <1>6 DEF FinishReset, CrashReset
  <2>2. IsReset(reset') /\ reset'.rows = reset.rows /\ reset'.at = at
    BY <1>0, <2>1 DEF IsReset, ResetState
  <2> QED BY <1>0, <1>2, <1>6, <2>2 DEF FinishReset, CrashReset, HasRow
<1> QED BY <1>3, <1>4, <1>5, <1>6 DEF ResetNext

LEMMA OtherTypes ==
  ASSUME ImportTypes, ScriptTypes, WorkerNext \/ OperatorNext
  PROVE  ImportTypes' /\ ScriptTypes'
<1>0. /\ IsImport(import) /\ Bucket /\ HasRow /\ IsScan(scan) /\ IsReset(reset) /\ scans \in 0..MaxScans
  BY DEF ImportTypes, ScriptTypes
<1>1. ASSUME NEW a \in Asset, IngestJob(a) PROVE ImportTypes' /\ ScriptTypes'
  <2>1. a \in DOMAIN row
    BY <1>0, <1>1 DEF IngestJob, HasRow
  <2>2. row' \in {row, [row EXCEPT ![a].status = "ready"], [row EXCEPT ![a].status = "failed"]}
    BY <1>1 DEF IngestJob
  <2>3. row' \in [DOMAIN row' -> AssetRow] /\ DOMAIN row' = DOMAIN row
    BY <1>0, <2>1, <2>2 DEF Bucket, AssetRow
  <2> QED BY <1>0, <1>1, <2>3 DEF IngestJob, scanVars, importVars, ImportTypes, ScriptTypes, Bucket, HasRow
<1>2. CASE TurnMonth
  <2>1. month' \in Month
    BY <1>0, <1>2, ImportAssumption DEF TurnMonth, Bucket, Month
  <2> QED BY <1>0, <1>2, <2>1 DEF TurnMonth, scanVars, importVars, ImportTypes, ScriptTypes, Bucket, HasRow
<1>3. CASE Migrate
  BY <1>0, <1>3 DEF Migrate, scanVars, importVars, ImportTypes, ScriptTypes, Bucket, HasRow
<1> QED BY <1>1, <1>2, <1>3 DEF WorkerNext, OperatorNext

-----------------------------------------------------------------------------
(* All of it.                                                              *)

Types == TreeTypeOK /\ DropTypes /\ ExportTypes /\ ImportTypes /\ ScriptTypes

LEMMA SameTypes ==
  /\ TreeTypeOK /\ UNCHANGED treeVars => TreeTypeOK'
  /\ DropTypes /\ UNCHANGED dropVars => DropTypes'
  /\ ExportTypes /\ UNCHANGED exportVars => ExportTypes'
  /\ ImportTypes /\ UNCHANGED <<importVars, bucketVars, scanVars>> => ImportTypes'
  /\ ScriptTypes /\ UNCHANGED scanVars => ScriptTypes'
<1>1. TreeTypeOK /\ UNCHANGED treeVars => TreeTypeOK'
  BY DEF treeVars, TreeTypeOK
<1>2. DropTypes /\ UNCHANGED dropVars => DropTypes'
  BY DEF dropVars, DropTypes, Drops
<1>3. ExportTypes /\ UNCHANGED exportVars => ExportTypes'
  BY DEF exportVars, ExportTypes, Disk, Limits
<1>4. ImportTypes /\ UNCHANGED <<importVars, bucketVars, scanVars>> => ImportTypes'
  BY DEF importVars, bucketVars, scanVars, ImportTypes, Bucket, HasRow
<1>5. ScriptTypes /\ UNCHANGED scanVars => ScriptTypes'
  BY DEF scanVars, ScriptTypes
<1> QED BY <1>1, <1>2, <1>3, <1>4, <1>5

LEMMA ImportLeaves == ASSUME ImportNext PROVE UNCHANGED exportVars
  BY DEF ImportNext, StartImport, BeginAlbum, FindFolder, MakeFolder, FindGallery, MakeGallery,
     PublishGallery, StoreImage, UpsertImage, QueueImage, BeginItems, InsertItem, WriteRedirect, FinishImport,
     CrashImport

LEMMA ScriptsLeave ==
  ASSUME ScanNext \/ ResetNext \/ WorkerNext \/ OperatorNext
  PROVE  /\ UNCHANGED <<treeVars, exportVars, importVars>>
         /\ ScanNext => reset' = reset
         /\ ResetNext => scan' = scan
  BY DEF ScanNext, StartScan, ScanRows, CopyOrphan, DeleteOrphan, AdoptOrphan, QueueOrphan, FinishScan,
     CrashScan, ResetNext, StartReset, ResetRow, RequeueRow, FinishReset, CrashReset, WorkerNext, IngestJob,
     OperatorNext, TurnMonth, Migrate

LEMMA TypesStep == ASSUME Types, Records, [Next]_siteVars PROVE Types'
<1>0. TreeTypeOK /\ DropTypes /\ ExportTypes /\ ImportTypes /\ ScriptTypes
  BY DEF Types
<1>1. CASE Studio
  BY <1>0, <1>1, StudioTypes, SameTypes DEF Studio, Types
<1>2. CASE Dropping
  BY <1>0, <1>2, DroppingTypes, SameTypes DEF Dropping, Types
<1>3. CASE Exporting
  BY <1>0, <1>3, ExportingTypes, SameTypes DEF Exporting, Types
<1>4. CASE Importing
  <2>1. UNCHANGED <<scan, reset>> /\ Disk
    BY <1>0, <1>4 DEF Importing, scanVars, ExportTypes
  <2>2. TreeTypeOK' /\ ImportTypes'
    BY <1>0, <1>4, <2>1, ImportingTypes DEF Importing
  <2> QED BY <1>0, <1>4, <2>2, ImportLeaves, SameTypes DEF Importing, Types
<1>5. CASE Scanning
  BY <1>0, <1>5, ScanningTypes, ScriptsLeave, SameTypes DEF Scanning, Types
<1>6. CASE Resetting
  BY <1>0, <1>6, ResettingTypes, ScriptsLeave, SameTypes DEF Resetting, Types
<1>7. CASE Ingesting \/ Operating
  BY <1>0, <1>7, OtherTypes, ScriptsLeave, SameTypes DEF Ingesting, Operating, Types
<1>8. CASE UNCHANGED siteVars
  BY <1>0, <1>8, SameTypes DEF siteVars, Types
<1> QED BY <1>1, <1>2, <1>3, <1>4, <1>5, <1>6, <1>7, <1>8 DEF Next

LEMMA TypesStart == ASSUME Init PROVE Types
<1> PICK s \in Scene :
      TreeInit(s) /\ DropInit(s.glitches) /\ ExportInit(s.disk) /\ ImportInit(s.imports) /\ ScanInit(s.scans)
  BY DEF Init
<1>1. TreeTypeOK
  <2>1. /\ DOMAIN s.folders \subseteq Folder /\ DOMAIN s.galleries \subseteq Gallery
        /\ s.folders \in [DOMAIN s.folders -> FolderRow] /\ s.galleries \in [DOMAIN s.galleries -> GalleryRow]
        /\ s.items \in [DOMAIN s.items -> Nat] /\ DOMAIN s.items \subseteq Gallery \X Asset /\ s.edits \in Nat
    BY SceneAssumption
  <2> QED BY <2>1 DEF TreeInit, TreeTypeOK
<1>2. DropTypes
  <2>1. s.glitches \in 0..MaxGlitches
    BY SceneAssumption
  <2>2. ASSUME NEW d \in Drop PROVE IsDrop(d, Idle)
    <3>1. 1 \in 1..Len(Entries[d])
      BY EntryTypes
    <3> QED BY <3>1 DEF IsDrop, DropFields, Idle, IsTarget, Visibility
  <2> QED BY <2>1, <2>2 DEF DropInit, DropTypes, Drops
<1>3. ExportTypes
  <2>1. /\ s.disk.files \in [Image -> {Missing, Torn, "whole"}]
        /\ s.disk.progress \notin {Missing, Torn} => IsRecord(s.disk.progress)
        /\ s.disk.manifest \in {Missing, Torn} \cup Seq(Walked)
        /\ s.disk.starts \in 0..MaxStarts /\ s.disk.outages \in 0..MaxOutages
    BY SceneAssumption
  <2> QED BY <2>1, DownTypes DEF ExportInit, ExportTypes, Disk, Limits
<1>4. ImportTypes
  <2>1. 1 \in Month /\ Copied \subseteq Key
    BY ImportAssumption DEF Month
  <2>2. Bucket
    <3>1. row = << >> /\ DOMAIN row = {} /\ objects = Copied /\ month = 1 /\ shaUnique = TRUE /\ holes = FALSE
      BY DEF ImportInit
    <3>2. row \in [DOMAIN row -> AssetRow]
      BY <3>1
    <3> QED BY <2>1, <3>1, <3>2 DEF Bucket
  <2>3. HasRow
    BY DEF ImportInit, ScanInit, ImportDown, ScanDown, ResetDown, HasRow
  <2> QED BY <2>2, <2>3, ImportDownTypes DEF ImportInit, ImportTypes
<1>5. ScriptTypes
  <2>1. s.scans \in 0..MaxScans
    BY SceneAssumption
  <2>2. IsReset(ResetDown)
    BY DEF IsReset, ResetState, ResetDown
  <2> QED BY <2>1, <2>2, ScanDownTypes DEF ScanInit, ScriptTypes
<1> QED BY <1>1, <1>2, <1>3, <1>4, <1>5 DEF Types

\* Every variable of the tree, the drops, the exporter with its two files, the
\* importer and the scripts keeps its type: ids, titles and slugs of rows, where
\* each process is, and that only assets with a row are ever queued.
THEOREM TypesHold == Spec => []TypeOK
<1>1. Types => TypeOK
  BY DEF Types, TypeOK, DropTypes, Drops, IsDrop, IsTarget, DropTypeOK, ExportTypes, IsExport, InAlbum, Disk, Limits,
     ExportTypeOK, ImportTypes, IsImport, Bucket, HasRow, ImportTypeOK, ScriptTypes, IsScan, IsReset, ScanTypeOK
<1> QED BY <1>1, RecordsStart, RecordsStep, TypesStart, TypesStep, PTL DEF Spec
==============================================================================
