------------------------------ MODULE AlbumImport ------------------------------
(***************************************************************************)
(* The importer: it reads the exporter's manifest and rebuilds every album *)
(* as a gallery in its folders, stores the images, upserts their rows,     *)
(* queues them for ingest and leaves a redirect from the old link.  It may *)
(* die between any two of its writes and be started again.  Assets are one *)
(* per content (sha256), as its upsert assumes; migration 0012 drops the   *)
(* constraint the upsert names.                                            *)
(***************************************************************************)
EXTENDS SiteTree, AlbumExport

CONSTANTS UrlPath,     \* [album -> sequence of titles], its path on the old site
          Imported,    \* the title "imported"
          Publish,     \* is --publish given?
          MaxImports,  \* bound: runs of the importer
          MaxMonths,   \* bound: calendar months they stretch over
          Copied       \* keys of objects copied into the bucket by hand

VARIABLES import,     \* the importer: where it is in the manifest it read
          imports,
          holes,      \* history: an import passed over an image
          row,        \* asset.status and the month of asset.storage_key, by content
          objects,    \* keys in the bucket: a content and where it lies
          jobs,       \* waiting ingest jobs
          month,      \* the month originalKey puts into a key
          shaUnique   \* does asset_sha256_unique still exist?

importVars == <<import, imports, holes>>
bucketVars == <<row, objects, jobs, month, shaUnique>>

Month == 1..MaxMonths
Drive == 0   \* a key outside originals/{yyyy}/{mm}
Key == (Asset \cup Image) \X ({Drive} \cup Month)
NoGalleryYet == "none"

\* What is of a type that is ingested has an asset; every path has a title.
ASSUME ImportAssumption ==
  /\ UrlPath \in [Album -> Seq(Title) \ {<< >>}] /\ Imported \in Title
  /\ Exportable \subseteq Asset /\ Copied \subseteq Key /\ MaxMonths \in Nat \ {0}

ImportDown == [at |-> "down", albums |-> << >>, next |-> 1, level |-> 1, parent |-> NoFolder,
               gallery |-> NoGalleryYet, image |-> [i \in Image |-> "todo"],
               key |-> [i \in Image |-> 1], item |-> 1, position |-> 0]

This == import.albums[import.next]
Segments == UrlPath[This.album]
FolderSegments == IF Len(Segments) = 1 THEN <<Imported>> ELSE SubSeq(Segments, 1, Len(Segments) - 1)
GallerySegment == Segments[Len(Segments)]
\* Mutant: the redirect leads to the titles of the old path.
TitlePath == Segments
NewPath == [i \in DOMAIN Segments |-> SlugOf[Segments[i]]]
Wanted == {This.images[i] : i \in DOMAIN This.images}

ImportAt(at) == import' = [import EXCEPT !.at = at]

-----------------------------------------------------------------------------
ImportInit(n) ==
  /\ import = ImportDown /\ imports = n /\ holes = FALSE
  /\ row = << >> /\ objects = Copied /\ jobs = {} /\ month = 1 /\ shaUnique = TRUE

\* A manifest that is missing or cut short does not parse, and nothing starts.
StartImport ==
  /\ import.at \in {"down", "done"} /\ imports < MaxImports
  /\ manifest \notin {Missing, Torn}
  /\ imports' = imports + 1
  /\ import' = [ImportDown EXCEPT !.at = "album", !.albums = manifest]
  /\ UNCHANGED <<holes, bucketVars, exportVars, treeVars>>

BeginAlbum ==
  /\ import.at = "album" /\ import.next <= Len(import.albums)
  /\ import' = [import EXCEPT !.at = "folder", !.level = 1, !.parent = NoFolder]
  /\ UNCHANGED <<imports, holes, bucketVars, exportVars, treeVars>>

\* One level of the path is there, or the next to be made.
EnterFolder(f) ==
  import' = [import EXCEPT !.parent = f, !.level = import.level + 1,
                           !.at = IF import.level < Len(FolderSegments) THEN "folder" ELSE "gallery"]

FindFolder ==
  /\ import.at = "folder"
  /\ LET found == Matching(import.parent, SlugOf[FolderSegments[import.level]])
     IN  IF found # {} THEN \E f \in found : EnterFolder(f) ELSE ImportAt("makeFolder")
  /\ UNCHANGED <<imports, holes, bucketVars, exportVars, treeVars>>

\* The insert names no visibility: the column's default is public.
MakeFolder ==
  /\ import.at = "makeFolder"
  /\ \E f \in Folder :
       InsertFolder(f, import.parent, FolderSegments[import.level], "public") /\ EnterFolder(f)
  /\ UNCHANGED <<items, deleted, redirects, post, edits, reshaped>>
  /\ UNCHANGED <<imports, holes, bucketVars, exportVars>>

EnterGallery(g) ==
  import' = [import EXCEPT !.gallery = g, !.at = IF Publish THEN "publish" ELSE "images",
                           !.image = [i \in Image |-> "todo"]]

FindGallery ==
  /\ import.at = "gallery"
  /\ LET found == {g \in DOMAIN galleries : /\ galleries[g].folder = import.parent
                                            /\ galleries[g].slug = SlugOf[GallerySegment]}
     IN  IF found # {} THEN \E g \in found : EnterGallery(g) ELSE ImportAt("makeGallery")
  /\ UNCHANGED <<imports, holes, bucketVars, exportVars, treeVars>>

MakeGallery ==
  /\ import.at = "makeGallery"
  /\ \E g \in Gallery :
       InsertGallery(g, import.parent, GallerySegment, "public") /\ EnterGallery(g)
  /\ UNCHANGED <<items, deleted, redirects, post, edits, reshaped>>
  /\ UNCHANGED <<imports, holes, bucketVars, exportVars>>

\* --publish
PublishGallery ==
  /\ import.at = "publish"
  /\ IF import.gallery \in DOMAIN galleries
     THEN LET old == galleries[import.gallery] IN
          SetGallery(import.gallery, [folder |-> old.folder, title |-> old.title, slug |-> old.slug,
                                      visibility |-> "public", published |-> TRUE])
     ELSE UNCHANGED galleries
  /\ ImportAt("images")
  /\ UNCHANGED <<folders, items, deleted, redirects, spent, post, edits, reshaped>>
  /\ UNCHANGED <<imports, holes, bucketVars, exportVars>>

SetImage(i, at) == import' = [import EXCEPT !.image[i] = at]

\* Mutant: the job is enqueued before the row is there.
StoreAndQueue(i) ==
  /\ import.at = "images" /\ i \in Wanted /\ import.image[i] = "todo" /\ files[i] = "whole"
  /\ import' = [import EXCEPT !.image[i] = "stored", !.key[i] = month]
  /\ objects' = objects \cup {<<i, month>>} /\ jobs' = jobs \cup {i}
  /\ UNCHANGED <<imports, holes, row, month, shaUnique, exportVars, treeVars>>

\* The images of an album run a few at a time.  A file whose hash is not the
\* recorded one is passed over; any other is put under this month's key unless
\* that key is there.
StoreImage(i) ==
  /\ import.at = "images" /\ i \in Wanted /\ import.image[i] = "todo"
  /\ \/ files[i] = Torn /\ SetImage(i, "bad") /\ holes' = TRUE /\ UNCHANGED objects
     \/ files[i] = "whole"
        /\ import' = [import EXCEPT !.image[i] = "stored", !.key[i] = month]
        /\ objects' = objects \cup {<<i, month>>} /\ UNCHANGED holes
  /\ UNCHANGED <<imports, row, jobs, month, shaUnique, exportVars, treeVars>>

\* insert ... on conflict (sha256) do update ... returning status
Upserted(i, key) == IF i \in DOMAIN row THEN row
                    ELSE [a \in DOMAIN row \cup {i} |-> IF a = i THEN [status |-> "pending", month |-> key]
                                                       ELSE row[a]]

\* Mutant: only the run that inserts the row enqueues it.
UpsertOnce(i) ==
  /\ import.at = "images" /\ import.image[i] = "stored" /\ shaUnique
  /\ row' = Upserted(i, import.key[i])
  /\ SetImage(i, IF i \notin DOMAIN row THEN "queue" ELSE "ready")
  /\ UNCHANGED <<imports, holes, objects, jobs, month, shaUnique, exportVars, treeVars>>

UpsertImage(i) ==
  /\ import.at = "images" /\ import.image[i] = "stored" /\ shaUnique
  /\ row' = Upserted(i, import.key[i])
  /\ SetImage(i, IF row'[i].status = "pending" THEN "queue" ELSE "ready")
  /\ UNCHANGED <<imports, holes, objects, jobs, month, shaUnique, exportVars, treeVars>>

QueueImage(i) ==
  /\ import.at = "images" /\ import.image[i] = "queue"
  /\ jobs' = jobs \cup {i} /\ SetImage(i, "ready")
  /\ UNCHANGED <<imports, holes, row, objects, month, shaUnique, exportVars, treeVars>>

\* Promise.all is through; the items follow one by one in the album's order.
BeginItems ==
  /\ import.at = "images" /\ \A i \in Wanted : import.image[i] \in {"ready", "bad"}
  /\ import' = [import EXCEPT !.at = "items", !.item = 1, !.position = 0]
  /\ UNCHANGED <<imports, holes, bucketVars, exportVars, treeVars>>

\* Mutant: the position counts the rows this run inserted.
InsertCounted ==
  /\ import.at = "items" /\ import.item <= Len(This.images)
  /\ LET i == This.images[import.item]
         known == import.image[i] = "bad" \/ <<import.gallery, i>> \in DOMAIN items
         at == <<import.gallery, i>>
     IN  /\ known \/ import.gallery \in DOMAIN galleries
         /\ items' = IF known THEN items
                     ELSE [x \in DOMAIN items \cup {at} |-> IF x = at THEN import.position ELSE items[x]]
         /\ import' = [import EXCEPT !.item = import.item + 1,
                         !.position = IF known THEN import.position ELSE import.position + 1]
  /\ UNCHANGED <<folders, galleries, deleted, redirects, spent, post, edits, reshaped>>
  /\ UNCHANGED <<imports, holes, bucketVars, exportVars>>

InsertItem ==
  /\ import.at = "items" /\ import.item <= Len(This.images)
  /\ LET i == This.images[import.item]
         bad == import.image[i] = "bad"
         at == <<import.gallery, i>>
     IN  /\ bad \/ import.gallery \in DOMAIN galleries
         /\ items' = IF bad \/ at \in DOMAIN items THEN items
                     ELSE [x \in DOMAIN items \cup {at} |-> IF x = at THEN import.position ELSE items[x]]
         /\ import' = [import EXCEPT !.item = import.item + 1,
                         !.position = IF bad THEN import.position ELSE import.position + 1]
  /\ UNCHANGED <<folders, galleries, deleted, redirects, spent, post, edits, reshaped>>
  /\ UNCHANGED <<imports, holes, bucketVars, exportVars>>

\* The old link; the new path leaves the folder "imported" out.
WriteRedirect ==
  /\ import.at = "items" /\ import.item > Len(This.images)
  /\ redirects' = IF Segments \in DOMAIN redirects THEN redirects
                  ELSE [p \in DOMAIN redirects \cup {Segments} |->
                          IF p = Segments THEN NewPath ELSE redirects[p]]
  /\ import' = [import EXCEPT !.at = "album", !.next = import.next + 1]
  /\ UNCHANGED <<folders, galleries, items, deleted, spent, post, edits, reshaped>>
  /\ UNCHANGED <<imports, holes, bucketVars, exportVars>>

FinishImport ==
  /\ import.at = "album" /\ import.next > Len(import.albums)
  /\ ImportAt("done")
  /\ UNCHANGED <<imports, holes, bucketVars, exportVars, treeVars>>

\* The process dies, and it does so on any statement that fails: an insert that
\* lost a race, a gallery deleted meanwhile, a file that is gone, the upsert
\* once its constraint is dropped.
CrashImport ==
  /\ import.at \notin {"down", "done"}
  /\ import' = ImportDown
  /\ UNCHANGED <<imports, holes, bucketVars, exportVars, treeVars>>

ImportNext ==
  \/ StartImport \/ BeginAlbum \/ FindFolder \/ MakeFolder \/ FindGallery \/ MakeGallery
  \/ PublishGallery
  \/ \E i \in Image : StoreImage(i) \/ UpsertImage(i) \/ QueueImage(i)
  \/ BeginItems \/ InsertItem \/ WriteRedirect \/ FinishImport \/ CrashImport

-----------------------------------------------------------------------------
ImportState ==
  [at : {"down", "album", "folder", "makeFolder", "gallery", "makeGallery", "publish", "images", "items", "done"},
   albums : Seq(Walked), next : Nat \ {0}, level : Nat \ {0},
   parent : Folder \cup {NoFolder}, gallery : Gallery \cup {NoGalleryYet},
   image : [Image -> {"todo", "stored", "queue", "ready", "bad"}], key : [Image -> Month],
   item : Nat \ {0}, position : Nat]
AssetRow == [status : {"pending", "ready", "failed"}, month : Month]

ImportTypeOK ==
  /\ import \in ImportState
  /\ row \in [DOMAIN row -> AssetRow]
  /\ DOMAIN row \subseteq Asset /\ jobs \subseteq DOMAIN row
  /\ objects \subseteq Key
  /\ month \in Month /\ shaUnique \in BOOLEAN /\ holes \in BOOLEAN

Finished(n) == import.at = "done" /\ n \in DOMAIN import.albums

\* The gallery an album became, if it is still where the importer put it.
GalleryOf(a) ==
  {g \in DOMAIN galleries :
     LET path == UrlPath[a]
         names == IF Len(path) = 1 THEN <<Imported>> \o path ELSE path
     IN  GalleryPath(g) = [i \in DOMAIN names |-> SlugOf[names[i]]]}

\* "Re-running is safe", first half: when a run ends, every image of the
\* manifest it did not pass over has its object and its row, and is ingested or
\* waits in the queue, wherever earlier runs died.
ImportedIsQueued ==
  \A n \in DOMAIN import.albums : Finished(n) =>
    \A k \in DOMAIN import.albums[n].images :
      LET i == import.albums[n].images[k] IN
        import.image[i] # "bad" /\ ~ holes =>
          i \in DOMAIN row /\ (row[i].status # "pending" \/ i \in jobs)

\* "Re-running is safe", second half: the images of a gallery carry the
\* positions of the album, however many runs it took and in whatever order
\* uploads finished, unless an image was passed over or names clash.  An image
\* the album shows twice is where it was first.
OrderIsTheAlbums ==
  outages = 0 /\ ~ holes /\ ~ reshaped /\ ~ SlugClash =>
    \A n \in DOMAIN import.albums : Finished(n) =>
      LET images == import.albums[n].images IN
        \A g \in GalleryOf(import.albums[n].album) : \A j, k \in DOMAIN images :
          j < k /\ images[k] \notin {images[m] : m \in 1..(k - 1)} => items[<<g, images[j]>>] < items[<<g, images[k]>>]

\* "Old SmugMug links 301 to the matching new gallery": once a publishing run
\* has ended and the tree was left alone, an album's old link opens its
\* gallery -- for albums inside a folder; one without lies under "imported",
\* which its redirect leaves out.
OldLinksLeadOn ==
  Publish /\ ~ reshaped /\ ~ SlugClash =>
    \A n \in DOMAIN import.albums :
      Finished(n) /\ Len(UrlPath[import.albums[n].album]) > 1 =>
        \E g \in GalleryOf(import.albums[n].album) :
          Visit(UrlPath[import.albums[n].album]) = {g} \/ galleries[g].visibility = "private"
            \/ ~ galleries[g].published
==============================================================================
