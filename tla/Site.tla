--------------------------------- MODULE Site ---------------------------------
(***************************************************************************)
(* The tree of folders and galleries with all that changes it: the studio, *)
(* dropped directories, and the scripts that move the old site over.  A    *)
(* scene names who takes part in a behaviour and the tree it starts from.  *)
(***************************************************************************)
EXTENDS FolderDrop, BucketScan

\* Scenes start from a tree the database admits, and the exporter and the importer
\* from files an earlier export wrote.
ASSUME SceneAssumption ==
  /\ NoFolder \notin Folder /\ NotFound \notin Gallery /\ Folder \cap Gallery = {}
  /\ Albums \in Seq(Album) /\ ImagesOf \in [Album -> Seq(Image)]
  /\ \A s \in Scene :
       /\ DOMAIN s.folders \subseteq Folder /\ IsFiniteSet(DOMAIN s.folders)
       /\ Intact(s.folders, s.galleries, s.items)
       /\ s.folders \in [DOMAIN s.folders -> FolderRow]
       /\ s.galleries \in [DOMAIN s.galleries -> GalleryRow] /\ DOMAIN s.galleries \subseteq Gallery
       /\ s.items \in [DOMAIN s.items -> Nat] /\ DOMAIN s.items \subseteq Gallery \X Asset
       /\ s.disk.files \in [Image -> {Missing, Torn, "whole"}]
       /\ s.disk.progress \notin {Missing, Torn} =>
            IsRecord(s.disk.progress) /\ Backed(s.disk.progress, s.disk.files)
       /\ s.disk.manifest \in {Missing, Torn} \cup Seq(Walked)
       /\ s.disk.starts \in 0..MaxStarts /\ s.disk.outages \in 0..MaxOutages
       /\ s.edits \in Nat /\ s.glitches \in 0..MaxGlitches /\ s.scans \in 0..MaxScans

VARIABLE crew   \* bound: who takes part

siteVars == <<treeVars, dropVars, exportVars, importVars, bucketVars, scanVars, crew>>

Init == \E s \in Scene :
  /\ crew = s.crew /\ TreeInit(s)
  /\ DropInit(s.glitches) /\ ExportInit(s.disk) /\ ImportInit(s.imports) /\ ScanInit(s.scans)

Studio == TreeNext /\ UNCHANGED <<dropVars, exportVars, importVars, bucketVars, scanVars>>
Dropping == DropNext /\ UNCHANGED <<exportVars, importVars, bucketVars, scanVars>>
Exporting == ExportNext /\ UNCHANGED <<treeVars, dropVars, importVars, bucketVars, scanVars>>
Importing == ImportNext /\ UNCHANGED <<dropVars, scanVars>>
Scanning == ScanNext /\ UNCHANGED dropVars
Resetting == ResetNext /\ UNCHANGED dropVars
Ingesting == WorkerNext /\ UNCHANGED dropVars
Operating == OperatorNext /\ UNCHANGED dropVars

Next ==
  /\ \/ "studio" \in crew /\ Studio
     \/ "drops" \in crew /\ Dropping
     \/ "exporter" \in crew /\ Exporting
     \/ "importer" \in crew /\ Importing
     \/ "scanner" \in crew /\ Scanning
     \/ "reprocessor" \in crew /\ Resetting
     \/ "worker" \in crew /\ Ingesting
     \/ "operator" \in crew /\ Operating
  /\ UNCHANGED crew

Spec == Init /\ [][Next]_siteVars

TypeOK == TreeTypeOK /\ DropTypeOK /\ ExportTypeOK /\ ImportTypeOK /\ ScanTypeOK
==============================================================================
