------------------------------- MODULE SiteTree -------------------------------
(***************************************************************************)
(* Folders, galleries and what they hold: the rows, the studio requests    *)
(* that change them, and every way the public site reads them -- a URL, a  *)
(* folder page with its grid, the home page, the sitemap, search, keyword  *)
(* pages and redirects.  A request that creates a row reads the tree       *)
(* first and inserts later, so other requests come between.                *)
(***************************************************************************)
EXTENDS Naturals, FiniteSets, Sequences

CONSTANTS Folder, Gallery, Asset,
          Title,       \* what an admin types, or a directory is called
          Typed,       \* the titles among them the admin types
          SlugOf,      \* [Title -> slug], slugify
          FoldOf,      \* [Title -> STRING], the title in lower case
          Tags,        \* [Asset -> set of keywords]
          Offered,     \* the visibilities the admin picks from
          NoFolder,    \* parent_id is null
          Scene        \* bound: where a behaviour may start (see MCSite)

Visibility == {"public", "unlisted", "password", "private"}
Default == "default"   \* the request names no visibility
Slug == {SlugOf[t] : t \in Title}

\* A slug is made of the title in lower case, and is its own slug.
ASSUME TitleAssumption ==
  /\ Typed \subseteq Title /\ Offered \subseteq Visibility
  /\ \A t, u \in Title : FoldOf[t] = FoldOf[u] => SlugOf[t] = SlugOf[u]
  /\ \A t \in Title \cap Slug : SlugOf[t] = t

FolderRow == [parent : Folder \cup {NoFolder}, title : Title, slug : Slug, visibility : Visibility]
GalleryRow == [folder : Folder, title : Title, slug : Slug, visibility : Visibility,
               published : BOOLEAN]

VARIABLES folders,    \* the folder rows, by id
          galleries,  \* the gallery rows, by id
          items,      \* gallery_item.position, by gallery and asset
          deleted,    \* assets with deletedAt set
          redirects,  \* redirect.new_path, by old_path
          spent,      \* ids of folders and galleries that ever existed
          post,       \* the studio's own create request, between its read and its insert
          edits,      \* bound: studio requests still to come
          reshaped    \* history: a folder or gallery was renamed or deleted

treeVars == <<folders, galleries, items, deleted, redirects, spent, post, edits, reshaped>>

NoPost == [at |-> "none"]

-----------------------------------------------------------------------------
(* The tree.                                                               *)

Children(f) == {x \in DOMAIN folders : folders[x].parent = f}

\* The folders from the root down to a folder: the breadcrumb of its page.
Chain == LET C[f \in DOMAIN folders] ==
               IF folders[f].parent = NoFolder THEN <<f>> ELSE Append(C[folders[f].parent], f)
         IN  C

PathOf(f) == [i \in DOMAIN Chain[f] |-> folders[Chain[f][i]].slug]
\* Mutant: only the gallery's own folder is put before its slug.
ShortPath(g) == <<folders[galleries[g].folder].slug, galleries[g].slug>>
GalleryPath(g) == Append(PathOf(galleries[g].folder), galleries[g].slug)
Public(f) == folders[f].visibility = "public"
Listed(g) == galleries[g].visibility = "public" /\ galleries[g].published

\* A folder and all that is in it: the least set with f and the children of
\* its members.
Below(f) == {x \in DOMAIN folders : \A S \in SUBSET DOMAIN folders :
               f \in S /\ (\A y \in DOMAIN folders : folders[y].parent \in S => y \in S) => x \in S}

\* A folder and all it is in: the least set with f and the parents of its members.
Above(f) == {x \in DOMAIN folders : \A S \in SUBSET DOMAIN folders :
               f \in S /\ (\A y \in S : folders[y].parent # NoFolder => folders[y].parent \in S) => x \in S}

\* publiclyReachableFolderIds: top down, the public roots and the public
\* children of what is reachable.
Reachable == {x \in DOMAIN folders : \A S \in SUBSET DOMAIN folders :
   (\A y \in DOMAIN folders : Public(y) /\ folders[y].parent \in S \cup {NoFolder} => y \in S) => x \in S}

\* Mutant: a folder is listed without a look at the folders it is in.
ListedFolders == {f \in DOMAIN folders : Public(f)}

\* getAllPublicPaths: bottom up, every folder on the way among the public ones.
SitemapFolders == {f \in DOMAIN folders : \A a \in Above(f) : Public(a)}
SitemapGalleries == {g \in DOMAIN galleries : Listed(g) /\ galleries[g].folder \in SitemapFolders}
SitemapLinks == {<<f, PathOf(f)>> : f \in SitemapFolders}
                  \cup {<<g, GalleryPath(g)>> : g \in SitemapGalleries}

\* loadFolderSection: a folder with its public subfolders, theirs and so on;
\* FolderSectionGrid links each to the segments of the page with its own.
Sections(f, path) ==
  LET S[n \in 0..Cardinality(DOMAIN folders)] ==
        IF n = 0 THEN {<<f, path>>}
        ELSE S[n - 1] \cup UNION {{<<x, Append(s[2], folders[x].slug)>> :
                   x \in {c \in Children(s[1]) : Public(c)}} : s \in S[n - 1]}
  IN  S[Cardinality(DOMAIN folders)]
GridLinks(f, path) ==
  Sections(f, path) \cup
  UNION {{<<g, Append(s[2], galleries[g].slug)>> :
            g \in {x \in DOMAIN galleries : galleries[x].folder = s[1] /\ Listed(x)}}
         : s \in Sections(f, path)}

\* listRootFolders, and what a visitor finds walking down from them.
RootFolders == {f \in Children(NoFolder) : Public(f)}
Browsed == UNION {{l[1] : l \in GridLinks(f, <<folders[f].slug>>)} : f \in RootFolders}

\* searchPublicContent, for a query that matches every title.
FoundFolders == {f \in Reachable : Public(f)}
\* Mutant: search asks a gallery only for its own visibility.
ListedGalleries == {g \in DOMAIN galleries : Listed(g)}
FoundGalleries == {g \in DOMAIN galleries : Listed(g) /\ galleries[g].folder \in Reachable}
SearchLinks == {<<f, <<folders[f].slug>>>> : f \in FoundFolders}
   \cup {<<g, <<folders[galleries[g].folder].slug, galleries[g].slug>>>> : g \in FoundGalleries}

\* publiclyVisibleAssetIds and the keyword cloud and pages built on it.
VisibleAssets == {a \in Asset \ deleted :
  \E g \in DOMAIN galleries : <<g, a>> \in DOMAIN items /\ Listed(g) /\ galleries[g].folder \in Reachable}
Keywords == UNION {Tags[a] : a \in VisibleAssets}
KeywordImages(k) == {a \in VisibleAssets : k \in Tags[a]}

\* loadGalleryImages: the photos a gallery page shows.
GalleryImages(g) == {a \in Asset \ deleted : <<g, a>> \in DOMAIN items}

-----------------------------------------------------------------------------
(* A URL.  findFirst returns any of the rows that match, so a path has a    *)
(* set of outcomes.                                                        *)

NotFound == "404"
Matching(parent, slug) == {f \in DOMAIN folders : folders[f].parent = parent /\ folders[f].slug = slug}

\* The folders resolvePath may stand on after n segments.
Walk(path) ==
  LET W[n \in 0..Len(path)] == IF n = 0 THEN {NoFolder}
                               ELSE UNION {Matching(p, path[n]) : p \in W[n - 1]}
  IN  W

LastGallery(path, p) ==
  {g \in DOMAIN galleries : /\ p # NoFolder
                            /\ Matching(p, path[Len(path)]) = {}
                            /\ galleries[g].folder = p /\ galleries[g].slug = path[Len(path)]
                            /\ galleries[g].published /\ galleries[g].visibility # "private"}

Resolve(path) ==
  LET W == Walk(path)
      lost == \E n \in 1..Len(path) : \E p \in W[n - 1] :
                /\ Matching(p, path[n]) = {}
                /\ ~ (n = Len(path) /\ LastGallery(path, p) # {})
  IN  W[Len(path)] \cup (UNION {LastGallery(path, p) : p \in W[Len(path) - 1]})
        \cup (IF lost THEN {NotFound} ELSE {})

\* PublicPathPage: a path that resolves to nothing is looked up in redirects,
\* and the browser asks again; a chain longer than the table goes round.
Visit(path) ==
  LET V[n \in 0..Cardinality(DOMAIN redirects)] ==
        IF n = 0 THEN {path}
        ELSE {redirects[p] : p \in {q \in V[n - 1] : Resolve(q) = {NotFound} /\ q \in DOMAIN redirects}}
  IN  (UNION {Resolve(p) : p \in UNION {V[n] : n \in DOMAIN V}}) \ {NotFound}

\* The home page resolves the first public root folder by its slug.
HomeLinks == UNION {UNION {GridLinks(x, <<folders[f].slug>>) :
                             x \in Resolve(<<folders[f].slug>>) \ {NotFound}} : f \in RootFolders}

\* The grids of all folders' pages, and the results of a search that lie at the root.
PageLinks == UNION {GridLinks(f, PathOf(f)) : f \in DOMAIN folders}
RootLinks == {s \in SearchLinks :
   s[1] \in Children(NoFolder) \/ (s[1] \in DOMAIN galleries /\ galleries[s[1]].folder \in Children(NoFolder))}

-----------------------------------------------------------------------------
(* Studio requests.                                                        *)

TreeInit(tree) ==
  /\ folders = tree.folders /\ galleries = tree.galleries /\ items = tree.items
  /\ deleted = {} /\ redirects = << >>
  /\ spent = DOMAIN tree.folders \cup DOMAIN tree.galleries
  /\ post = NoPost /\ edits = tree.edits /\ reshaped = FALSE

Edit == edits > 0 /\ edits' = edits - 1

\* The default a create request reads before it inserts.
DefaultVisibility(parent) ==
  IF parent = NoFolder \/ parent \in Reachable THEN "public" ELSE "unlisted"

\* folder_parent_slug_unique lets rows with a null parent repeat a slug.
CanInsertFolder(parent, title) ==
  parent = NoFolder \/ (parent \in DOMAIN folders /\ Matching(parent, SlugOf[title]) = {})
\* Mutant: no foreign key on gallery.folder_id.
CanInsertOrphan(folder, title) ==
  \A g \in DOMAIN galleries : ~ (galleries[g].folder = folder /\ galleries[g].slug = SlugOf[title])
CanInsertGallery(folder, title) ==
  /\ folder \in DOMAIN folders
  /\ \A g \in DOMAIN galleries : ~ (galleries[g].folder = folder /\ galleries[g].slug = SlugOf[title])

InsertFolder(f, parent, title, visibility) ==
  /\ f \notin spent /\ CanInsertFolder(parent, title)
  /\ folders' = [x \in DOMAIN folders \cup {f} |-> IF x # f THEN folders[x]
        ELSE [parent |-> parent, title |-> title, slug |-> SlugOf[title], visibility |-> visibility]]
  /\ spent' = spent \cup {f}
  /\ UNCHANGED galleries

InsertGallery(g, folder, title, visibility) ==
  /\ g \notin spent /\ CanInsertGallery(folder, title)
  /\ galleries' = [x \in DOMAIN galleries \cup {g} |-> IF x # g THEN galleries[x]
        ELSE [folder |-> folder, title |-> title, slug |-> SlugOf[title], visibility |-> visibility,
              published |-> FALSE]]
  /\ spent' = spent \cup {g}
  /\ UNCHANGED folders

PostFolder(parent, title, visibility) ==
  /\ Edit /\ post = NoPost
  /\ post' = [at |-> "folder", parent |-> parent, title |-> title,
              visibility |-> IF visibility # Default THEN visibility ELSE DefaultVisibility(parent)]
  /\ UNCHANGED <<folders, galleries, items, deleted, redirects, spent, reshaped>>

PostGallery(folder, title) ==
  /\ Edit /\ post = NoPost
  /\ post' = [at |-> "gallery", parent |-> folder, title |-> title,
              visibility |-> DefaultVisibility(folder)]
  /\ UNCHANGED <<folders, galleries, items, deleted, redirects, spent, reshaped>>

PostInserts ==
  /\ \/ post.at = "folder" /\ \E f \in Folder : InsertFolder(f, post.parent, post.title, post.visibility)
     \/ post.at = "gallery" /\ \E g \in Gallery : InsertGallery(g, post.parent, post.title, post.visibility)
  /\ post' = NoPost
  /\ UNCHANGED <<items, deleted, redirects, edits, reshaped>>

\* 409, or the foreign key: the parent was deleted meanwhile.
PostRefused ==
  /\ \/ post.at = "folder" /\ ~ CanInsertFolder(post.parent, post.title)
     \/ post.at = "gallery" /\ ~ CanInsertGallery(post.parent, post.title)
  /\ post' = NoPost
  /\ UNCHANGED <<folders, galleries, items, deleted, redirects, spent, edits, reshaped>>

SetFolder(f, row) ==
  folders' = [x \in DOMAIN folders |-> IF x = f THEN row ELSE folders[x]]
SetGallery(g, row) ==
  galleries' = [x \in DOMAIN galleries |-> IF x = g THEN row ELSE galleries[x]]

\* PATCH of a folder writes what it is given; the slug stays.
ShowFolder(f, visibility) ==
  /\ Edit /\ f \in DOMAIN folders
  /\ SetFolder(f, [parent |-> folders[f].parent, title |-> folders[f].title,
                   slug |-> folders[f].slug, visibility |-> visibility])
  /\ UNCHANGED <<galleries, items, deleted, redirects, spent, post, reshaped>>

RenameFolder(f, title) ==
  /\ Edit /\ f \in DOMAIN folders
  /\ SetFolder(f, [parent |-> folders[f].parent, title |-> title,
                   slug |-> folders[f].slug, visibility |-> folders[f].visibility])
  /\ reshaped' = TRUE
  /\ UNCHANGED <<galleries, items, deleted, redirects, spent, post>>

\* PATCH of a gallery: its visibility and publish, or its title.
ShowGallery(g, visibility, published) ==
  /\ Edit /\ g \in DOMAIN galleries
  /\ SetGallery(g, [folder |-> galleries[g].folder, title |-> galleries[g].title,
                    slug |-> galleries[g].slug, visibility |-> visibility, published |-> published])
  /\ UNCHANGED <<folders, items, deleted, redirects, spent, post, reshaped>>

RenameGallery(g, title) ==
  /\ Edit /\ g \in DOMAIN galleries
  /\ SetGallery(g, [folder |-> galleries[g].folder, title |-> title, slug |-> galleries[g].slug,
                    visibility |-> galleries[g].visibility, published |-> galleries[g].published])
  /\ reshaped' = TRUE
  /\ UNCHANGED <<folders, items, deleted, redirects, spent, post>>

\* Deleting rows takes what refers to them along (on delete cascade).
KeepGalleries(kept) ==
  /\ galleries' = [g \in kept |-> galleries[g]]
  /\ items' = [i \in {j \in DOMAIN items : j[1] \in kept} |-> items[i]]

DeleteFolder(f) ==
  /\ Edit /\ f \in DOMAIN folders
  /\ folders' = [x \in DOMAIN folders \ Below(f) |-> folders[x]]
  /\ KeepGalleries({g \in DOMAIN galleries : galleries[g].folder \notin Below(f)})
  /\ reshaped' = TRUE
  /\ UNCHANGED <<deleted, redirects, spent, post>>

DeleteGallery(g) ==
  /\ Edit /\ g \in DOMAIN galleries
  /\ KeepGalleries(DOMAIN galleries \ {g})
  /\ reshaped' = TRUE
  /\ UNCHANGED <<folders, deleted, redirects, spent, post>>

\* DELETE /api/library/[id] only marks the row: memberships stay.
DeletePhoto(a) ==
  /\ Edit /\ deleted' = deleted \cup {a}
  /\ UNCHANGED <<folders, galleries, items, redirects, spent, post, reshaped>>

TreeNext ==
  \/ \E t \in Typed : \E p \in DOMAIN folders \cup {NoFolder}, v \in Offered \cup {Default} : PostFolder(p, t, v)
  \/ \E t \in Typed : \E p \in DOMAIN folders : PostGallery(p, t)
  \/ PostInserts
  \/ PostRefused
  \/ \E f \in DOMAIN folders : \E v \in Offered : ShowFolder(f, v)
  \/ \E f \in DOMAIN folders : \E t \in Typed : RenameFolder(f, t)
  \/ \E g \in DOMAIN galleries : \E v \in Offered, p \in BOOLEAN : ShowGallery(g, v, p)
  \/ \E g \in DOMAIN galleries : \E t \in Typed : RenameGallery(g, t)
  \/ \E f \in DOMAIN folders : DeleteFolder(f)
  \/ \E g \in DOMAIN galleries : DeleteGallery(g)
  \/ \E a \in Asset : DeletePhoto(a)
-----------------------------------------------------------------------------
TreeTypeOK ==
  /\ folders \in [DOMAIN folders -> FolderRow] /\ DOMAIN folders \subseteq Folder
  /\ galleries \in [DOMAIN galleries -> GalleryRow] /\ DOMAIN galleries \subseteq Gallery
  /\ items \in [DOMAIN items -> Nat] /\ DOMAIN items \subseteq Gallery \X Asset
  /\ deleted \subseteq Asset
  /\ spent \subseteq Folder \cup Gallery
  /\ post \in {NoPost} \cup [at : {"folder", "gallery"}, parent : Folder \cup {NoFolder},
                             title : Title, visibility : Visibility]
  /\ edits \in Nat /\ reshaped \in BOOLEAN

\* Of folders, galleries and items: nothing dangles, every set of folders has one
\* whose parent is outside it, and a slug names one folder and one gallery of a
\* folder.
Intact(fs, gs, is) ==
  /\ \A f \in DOMAIN fs : fs[f].parent \in DOMAIN fs \cup {NoFolder}
  /\ \A S \in SUBSET DOMAIN fs : S # {} => \E f \in S : fs[f].parent \notin S
  /\ \A g \in DOMAIN gs : gs[g].folder \in DOMAIN fs
  /\ \A i \in DOMAIN is : i[1] \in DOMAIN gs
  /\ \A f, x \in DOMAIN fs : fs[f].parent = fs[x].parent /\ fs[f].parent # NoFolder
                              /\ fs[f].slug = fs[x].slug => f = x
  /\ \A g, x \in DOMAIN gs : gs[g].folder = gs[x].folder /\ gs[g].slug = gs[x].slug => g = x

\* Nothing dangles and nothing goes round: a parent, a gallery's folder and an
\* item's gallery exist however creations and cascading deletions interleave,
\* no folder is inside itself, and below a folder a slug names one folder and
\* one gallery.
TreeIntact ==
  /\ DOMAIN folders \cup DOMAIN galleries \subseteq spent
  /\ Intact(folders, galleries, items)

\* The three ways the site decides what is public agree in every tree: the
\* recursive query behind search and keywords, which walks down, the sitemap,
\* which walks up, and the galleries each of them then shows.
FlatViewsAgree ==
  /\ Reachable = SitemapFolders
  /\ FoundFolders = SitemapFolders
  /\ FoundGalleries = SitemapGalleries

\* What a visitor meets walking from the public root folders through the grids
\* is what search and keyword pages show, no more (the leak the comment on
\* publiclyReachableFolderIds describes) and no less.
BrowsingFindsAll ==
  /\ Browsed = FoundFolders \cup FoundGalleries
  /\ VisibleAssets = UNION {GalleryImages(g) : g \in Browsed \cap Gallery}

\* Siblings that share a slug: root folders may, and a gallery may with a folder.
SlugClash ==
  \/ \E f, x \in DOMAIN folders : f # x /\ folders[f].parent = folders[x].parent
                                   /\ folders[f].slug = folders[x].slug
  \/ \E g \in DOMAIN galleries : Matching(galleries[g].folder, galleries[g].slug) # {}

\* Without such siblings every link the site gives out opens the page of what
\* it names: the sitemap, the home page, the grid of any folder's page (hidden
\* ones too), and search results at the root; deeper search results name one
\* folder only and are left out.
LinksResolve ==
  ~ SlugClash =>
    \A l \in SitemapLinks \cup HomeLinks \cup PageLinks \cup RootLinks : Resolve(l[2]) = {l[1]}
==============================================================================
