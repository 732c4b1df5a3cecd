------------------------------ MODULE AlbumExport ------------------------------
(***************************************************************************)
(* The exporter that walks every album of the old site, downloads its      *)
(* images and records both in two files, progress.json to resume from and  *)
(* manifest.json for the importer.  It is started again after a crash, and *)
(* a file it was writing is then cut short.                                *)
(***************************************************************************)
EXTENDS Naturals, FiniteSets, Sequences

CONSTANTS Albums,      \* the album list, in the order the old site returns it
          Image,
          ImagesOf,    \* [album -> sequence of images]
          Excluded,    \* albums under an excluded prefix
          Unsupported, \* images of a type that is not ingested
          Missing,     \* a file that is not there
          Torn,        \* a file whose write was cut short
          MaxStarts,   \* bound: runs of the exporter
          MaxOutages   \* bound: downloads or listings that fail after all retries

Album == {Albums[i] : i \in DOMAIN Albums}
Exportable == Image \ Unsupported
Walked == [album : Album, images : Seq(Exportable)]

ASSUME ExportAssumption == MaxStarts \in Nat /\ MaxOutages \in Nat

VARIABLES export,    \* the running process: where it is and what it holds in memory
          progress,  \* progress.json: images downloaded and albums walked
          manifest,  \* manifest.json: a sequence of albums with their images
          files,     \* the image files in files/
          starts, outages,
          tried      \* history: images whose download this run attempted

exportVars == <<export, progress, manifest, files, starts, outages, tried>>

Nothing == [images |-> {}, albums |-> << >>]
Down == [at |-> "down", next |-> 1, image |-> 1, got |-> << >>, memory |-> Nothing, walked |-> << >>]

Supported(a) == {ImagesOf[a][i] : i \in DOMAIN ImagesOf[a]} \ Unsupported
Current == Albums[export.next]
CurrentImage == ImagesOf[Current][export.image]

\* loadJson: no file is a first run, a torn one is warned of and dropped.
Load(file) == IF file \in {Missing, Torn} THEN Nothing ELSE file

-----------------------------------------------------------------------------
\* What progress.json holds when it can be read.
IsRecord(file) ==
  /\ DOMAIN file = {"images", "albums"} /\ file.images \subseteq Exportable
  /\ DOMAIN file.albums \subseteq Album
  /\ \A a \in DOMAIN file.albums : file.albums[a] \in Seq(Exportable)

\* disk is what earlier runs left there.
ExportInit(disk) ==
  /\ export = Down /\ progress = disk.progress /\ manifest = disk.manifest /\ files = disk.files
  /\ starts = disk.starts /\ outages = disk.outages /\ tried = {}

Outage == outages < MaxOutages /\ outages' = outages + 1
Go(at) == export' = [export EXCEPT !.at = at]

StartExport ==
  /\ export.at \in {"down", "done"} /\ starts < MaxStarts
  /\ starts' = starts + 1 /\ tried' = {}
  /\ export' = [Down EXCEPT !.at = "walk", !.memory = Load(progress)]
  /\ UNCHANGED <<progress, manifest, files, outages>>

\* An excluded album is passed over; one on record is taken from it.
PassAlbum ==
  /\ export.at = "walk" /\ export.next <= Len(Albums)
  /\ \/ Current \in Excluded
        /\ export' = [export EXCEPT !.next = export.next + 1]
     \/ Current \notin Excluded /\ Current \in DOMAIN export.memory.albums
        /\ export' = [export EXCEPT !.next = export.next + 1,
             !.walked = Append(export.walked, [album |-> Current, images |-> export.memory.albums[Current]])]
  /\ UNCHANGED <<progress, manifest, files, starts, outages, tried>>

OpenAlbum ==
  /\ export.at = "walk" /\ export.next <= Len(Albums)
  /\ Current \notin Excluded \cup DOMAIN export.memory.albums
  /\ export' = [export EXCEPT !.at = "images", !.image = 1, !.got = << >>]
  /\ UNCHANGED <<progress, manifest, files, starts, outages, tried>>

\* The next image is on record already, or of a type that is not exported.
PassImage ==
  /\ export.at = "images" /\ export.image <= Len(ImagesOf[Current])
  /\ \/ CurrentImage \in export.memory.images
        /\ export' = [export EXCEPT !.image = export.image + 1, !.got = Append(export.got, CurrentImage)]
     \/ CurrentImage \in Unsupported \ export.memory.images
        /\ export' = [export EXCEPT !.image = export.image + 1]
  /\ UNCHANGED <<progress, manifest, files, starts, outages, tried>>

\* Downloaded: the file is written ...
DownloadImage ==
  /\ export.at = "images" /\ export.image <= Len(ImagesOf[Current])
  /\ CurrentImage \notin export.memory.images \cup Unsupported
  /\ files' = [files EXCEPT ![CurrentImage] = Torn] /\ tried' = tried \cup {CurrentImage}
  /\ Go("file")
  /\ UNCHANGED <<progress, manifest, starts, outages>>

\* ... and once it is, the image is recorded.
RecordImage ==
  /\ export.at = "file"
  /\ files' = [files EXCEPT ![CurrentImage] = "whole"]
  /\ export' = [export EXCEPT !.at = "images", !.image = export.image + 1,
                  !.got = Append(export.got, CurrentImage),
                  !.memory = [images |-> export.memory.images \cup {CurrentImage},
                              albums |-> export.memory.albums]]
  /\ UNCHANGED <<progress, manifest, starts, outages, tried>>

\* Mutant: an image that failed is put on record too.
SkipRecorded ==
  /\ export.at = "images" /\ export.image <= Len(ImagesOf[Current])
  /\ CurrentImage \notin export.memory.images \cup Unsupported
  /\ Outage /\ tried' = tried \cup {CurrentImage}
  /\ export' = [export EXCEPT !.image = export.image + 1,
                  !.memory = [images |-> export.memory.images \cup {CurrentImage},
                              albums |-> export.memory.albums]]
  /\ UNCHANGED <<progress, manifest, files, starts>>

\* No URL, or the download failed for good: logged, and on with the next.
SkipImage ==
  /\ export.at = "images" /\ export.image <= Len(ImagesOf[Current])
  /\ CurrentImage \notin export.memory.images \cup Unsupported
  /\ Outage /\ tried' = tried \cup {CurrentImage}
  /\ export' = [export EXCEPT !.image = export.image + 1]
  /\ UNCHANGED <<progress, manifest, files, starts>>

\* A page of the image list failed for good: the album is skipped; what it
\* downloaded stays in memory only.
SkipAlbum ==
  /\ export.at = "images" /\ Outage
  /\ export' = [export EXCEPT !.at = "walk", !.next = export.next + 1]
  /\ UNCHANGED <<progress, manifest, files, starts, tried>>

\* An album walked to its end is pushed and recorded, and progress.json written.
BeginProgress ==
  /\ export.at = "images" /\ export.image > Len(ImagesOf[Current])
  /\ export' = [export EXCEPT !.at = "progress",
       !.walked = Append(export.walked, [album |-> Current, images |-> export.got]),
       !.memory = [images |-> export.memory.images,
                   albums |-> [a \in DOMAIN export.memory.albums \cup {Current} |->
                                 IF a = Current THEN export.got ELSE export.memory.albums[a]]]]
  /\ progress' = Torn
  /\ UNCHANGED <<manifest, files, starts, outages, tried>>

\* progress.json is whole; manifest.json is written next, with what this run
\* has passed or walked so far.
BeginManifest ==
  /\ export.at = "progress"
  /\ progress' = export.memory /\ manifest' = Torn
  /\ Go("manifest")
  /\ UNCHANGED <<files, starts, outages, tried>>

EndManifest ==
  /\ export.at = "manifest"
  /\ manifest' = export.walked
  /\ export' = [export EXCEPT !.at = "walk", !.next = export.next + 1]
  /\ UNCHANGED <<progress, files, starts, outages, tried>>

FinishExport ==
  /\ export.at = "walk" /\ export.next > Len(Albums)
  /\ Go("done")
  /\ UNCHANGED <<progress, manifest, files, starts, outages, tried>>

\* The process dies, or a listing that nothing catches throws.
CrashExport ==
  /\ export.at \notin {"down", "done"}
  /\ export' = Down
  /\ UNCHANGED <<progress, manifest, files, starts, outages, tried>>

ExportNext ==
  \/ StartExport \/ PassAlbum \/ OpenAlbum \/ PassImage \/ DownloadImage \/ RecordImage
  \/ SkipImage \/ SkipAlbum \/ BeginProgress \/ BeginManifest \/ EndManifest
  \/ FinishExport \/ CrashExport

-----------------------------------------------------------------------------
ExportTypeOK ==
  /\ export.at \in {"down", "walk", "images", "file", "progress", "manifest", "done"}
  /\ export.next \in 1..(Len(Albums) + 1) /\ export.image \in Nat \ {0}
  /\ export.got \in Seq(Exportable) /\ export.walked \in Seq(Walked) /\ IsRecord(export.memory)
  /\ progress \in {Missing, Torn} \/ IsRecord(progress)
  /\ manifest \in {Missing, Torn} \cup Seq(Walked)
  /\ files \in [Image -> {Missing, Torn, "whole"}]
  /\ starts \in 0..MaxStarts /\ outages \in 0..MaxOutages /\ tried \subseteq Image

\* An image on record is a whole file, of a type that is exported; an album on
\* record lists images on record, and only its own.
Backed(record, stored) ==
  /\ \A i \in record.images : i \in Image \ Unsupported /\ stored[i] = "whole"
  /\ \A a \in DOMAIN record.albums : \A n \in DOMAIN record.albums[a] :
       record.albums[a][n] \in record.images \cap Supported(a)

\* progress.json never claims what a crash took: whenever it can be read, what is
\* on record is in the files.
RecordsAreBacked == progress \notin {Missing, Torn} => Backed(progress, files)

\* The comment on Progress: a restart skips an album with zero API calls "reusing
\* the cached result for the final manifest"; and on the writes: a valid manifest
\* "for everything completed so far".  So when a run ends, everything on record
\* is in the manifest.
FinishedManifestIsComplete ==
  export.at = "done" =>
    /\ manifest # Torn
    /\ \A a \in DOMAIN export.memory.albums :
         manifest # Missing /\ \E i \in DOMAIN manifest : manifest[i].album = a
==============================================================================
