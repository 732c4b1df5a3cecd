-------------------------------- MODULE MCSite --------------------------------
EXTENDS Site, TLC

CONSTANTS f1, f2, f3, g1, g2, g3, p1, p2, p3, clip, d1, d2, k1, k2, album1, album2, album3

\* "a" and "A" differ in case only; "x" and "y" have no Latin letter, and both
\* get the slug "untitled".
Titles == {"a", "A", "x", "y", "imported"}
Slugs == [t \in Titles |-> CASE t \in {"a", "A"} -> "a" [] t \in {"x", "y"} -> "untitled" [] OTHER -> t]
Lower == [t \in Titles |-> IF t = "A" THEN "a" ELSE t]
Keyword == [a \in {p1, p2, p3} |-> IF a = p1 THEN {k1} ELSE {k1, k2}]

\* One drop makes a gallery and a folder of the same name, the other drops a
\* loose file too.
Dropped == [d \in {d1, d2} |-> IF d = d1 THEN <<<<"a", "x">>, <<"a">>>> ELSE <<<< >>, <<"A", "x">>>>]

\* Two albums share an image; one lies at the top of the old site and has an
\* image of a type that is not ingested; a third is excluded.
OldAlbums == <<album1, album3, album2>>
OldImages == [a \in {album1, album2, album3} |-> IF a = album2 THEN <<clip, p2>> ELSE <<p1, p2>>]
OldPaths == [a \in {album1, album2, album3} |-> IF a = album2 THEN <<"a">> ELSE <<"A", "x">>]
Listing == [a \in {album1, album2} |-> IF a = album1 THEN <<p1, p2>> ELSE <<p2>>]
OnDrive == {<<p2, 0>>, <<p3, 0>>, <<clip, 0>>}

Row(parent, title, visibility) ==
  [parent |-> parent, title |-> title, slug |-> Slugs[title], visibility |-> visibility]
GRow(folder, title, visibility, published) ==
  [folder |-> folder, title |-> title, slug |-> Slugs[title], visibility |-> visibility,
   published |-> published]

NoDisk == [starts |-> 0, outages |-> 0, progress |-> Missing, manifest |-> Missing, files |-> [i \in Image |-> Missing]]
Exported == [starts |-> 0, outages |-> 0, progress |-> [images |-> {p1, p2}, albums |-> Listing],
             manifest |-> <<[album |-> album1, images |-> <<p1, p2>>],
                            [album |-> album2, images |-> <<p2>>]>>,
             files |-> [i \in Image |-> IF i \in {p3, clip} THEN Missing ELSE "whole"]]
FirstOnly == [starts |-> 0, outages |-> 0, progress |-> Exported.progress, manifest |-> SubSeq(Exported.manifest, 1, 1), files |-> Exported.files]
Cut == [starts |-> 2, outages |-> 1, progress |-> Torn, manifest |-> Exported.manifest,
        files |-> [i \in Image |-> IF i \in {p3, clip} THEN Missing ELSE IF i = p1 THEN Torn ELSE "whole"]]

Scenario(actors, fs, gs, is, n, disk) ==
  [crew |-> actors, folders |-> fs, galleries |-> gs, items |-> is, edits |-> n, glitches |-> IF n = 0 THEN MaxGlitches ELSE 0, disk |-> disk,
   scans |-> IF "importer" \in actors THEN 1 ELSE 0,
   imports |-> IF {"exporter", "scanner", "studio"} \cap actors # {} THEN 1 ELSE 0]

\* Every small tree: a root, a folder in it or beside it, one in either, and
\* two galleries, one of which holds photos.
Trees == {Scenario({"studio"},
            (f1 :> Row(NoFolder, "a", v1)) @@ (f2 :> Row(p2_, t2, v2)) @@ (f3 :> Row(p3_, "y", v3)),
            (g1 :> GRow(x1, "y", "public", TRUE)) @@ (g2 :> GRow(x2, "a", "public", b2)),
            (<<g1, p1>> :> 0) @@ (<<g2, p2>> :> 0), 1, NoDisk) :
          p2_ \in {NoFolder, f1}, p3_ \in {f1, f2}, t2 \in {"A", "x"},
          v1 \in {"public", "unlisted"}, v2 \in {"public", "private"}, v3 \in {"public", "unlisted"},
          x1 \in {f1, f2, f3}, x2 \in {f2, f3}, b2 \in BOOLEAN}
\* Rows the unique constraints of the schema allow.
Allowed(s) ==
  /\ \A f, x \in DOMAIN s.folders : f # x /\ s.folders[f].parent = s.folders[x].parent
        /\ s.folders[f].parent # NoFolder => s.folders[f].slug # s.folders[x].slug
  /\ \A g, x \in DOMAIN s.galleries : g # x /\ s.galleries[g].folder = s.galleries[x].folder
        => s.galleries[g].slug # s.galleries[x].slug
ViewScenes == {s \in Trees : Allowed(s)}

Root(v) == f1 :> Row(NoFolder, "x", v)
DropScenes == {Scenario({"studio", "drops"}, Root("unlisted"), << >>, << >>, 1, NoDisk),
               Scenario({"drops"}, Root("public"), << >>, << >>, 0, NoDisk)}
ExportScenes == {Scenario({"exporter"}, << >>, << >>, << >>, 0, NoDisk)}
RaceScenes == {Scenario({"studio", "importer"}, << >>, << >>, << >>, 1, FirstOnly)}
ImportScenes == {Scenario({"importer"}, << >>, << >>, << >>, 0, Exported),
                 Scenario({"importer", "worker"}, << >>, << >>, << >>, 0, FirstOnly)}
MigrateScenes == {Scenario({"importer", "operator"}, << >>, << >>, << >>, 0, FirstOnly)}
CutScenes == {Scenario({"exporter", "importer"}, << >>, << >>, << >>, 0, Cut)}
AgainScenes == {[Scenario({"exporter", "importer"}, << >>, << >>, << >>, 0, FirstOnly) EXCEPT
                  !.disk.starts = 2, !.imports = 0,
                  !.disk.progress = [images |-> {p1, p2}, albums |-> (album1 :> <<p1, p2>>)]]}
ScanScenes == {Scenario({"importer", "scanner"}, << >>, << >>, << >>, 0, FirstOnly)}
ResetScenes == {Scenario({"reprocessor", "scanner", "worker", "operator"}, << >>, << >>, << >>, 0, NoDisk)}
Scenes == ViewScenes \cup DropScenes \cup ExportScenes \cup RaceScenes \cup ImportScenes
            \cup MigrateScenes \cup CutScenes \cup AgainScenes \cup ScanScenes \cup ResetScenes
==============================================================================
