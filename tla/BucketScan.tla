------------------------------ MODULE BucketScan ------------------------------
(***************************************************************************)
(* The operator's scripts over the bucket and the asset rows, beside the   *)
(* importer: scan-bucket adopts objects copied into the bucket by hand,    *)
(* reprocess-assets queues every asset again.  Both may die between two    *)
(* writes.  The ingest worker is reduced to what it does to a row.         *)
(***************************************************************************)
EXTENDS AlbumImport

CONSTANT MaxScans   \* bound: runs of each script

ASSUME ScanAssumption == MaxScans \in Nat

VARIABLES scan,     \* scan-bucket: where it is in the orphans it found
          reset,    \* reprocess-assets: the rows it still goes through
          scans

scanVars == <<scan, reset, scans>>

NoKey == <<NoFolder, Drive>>
ScanDown == [at |-> "down", keys |-> {}, from |-> NoKey, to |-> NoKey, seen |-> {}]
ResetDown == [at |-> "down", rows |-> {}, todo |-> {}, asset |-> NoFolder]

ScanInit(n) == scan = ScanDown /\ reset = ResetDown /\ scans = n

-----------------------------------------------------------------------------
\* The keys under originals/ are listed first ...
StartScan ==
  /\ scan.at \in {"down", "done"} /\ scans < MaxScans
  /\ scans' = scans + 1
  /\ scan' = [ScanDown EXCEPT !.at = "rows", !.keys = objects]
  /\ UNCHANGED <<reset, bucketVars, importVars, exportVars, treeVars>>

\* ... then the rows are read; a key no row names is an orphan, and one of an
\* unknown type is left alone.
ScanRows ==
  /\ scan.at = "rows"
  /\ scan' = [scan EXCEPT !.at = "next",
       !.keys = {k \in scan.keys : k[1] \notin Unsupported} \ {<<a, row[a].month>> : a \in DOMAIN row}]
  /\ UNCHANGED <<reset, scans, bucketVars, importVars, exportVars, treeVars>>

\* Mutant: the old object goes first.
MoveOrphan(k) ==
  /\ scan.at = "next" /\ k \in scan.keys \cap objects
  /\ objects' = objects \ {k}
  /\ scan' = [scan EXCEPT !.at = "row", !.keys = scan.keys \ {k}, !.from = k, !.to = <<k[1], month>>]
  /\ UNCHANGED <<reset, scans, row, jobs, month, shaUnique, importVars, exportVars, treeVars>>

\* An orphan is hashed and, unless it lies under its own key of this month,
\* copied there ...
CopyOrphan(k) ==
  /\ scan.at = "next" /\ k \in scan.keys \cap objects
  /\ objects' = objects \cup {<<k[1], month>>}
  /\ scan' = [scan EXCEPT !.at = IF k = <<k[1], month>> THEN "row" ELSE "delete",
                          !.keys = scan.keys \ {k}, !.from = k, !.to = <<k[1], month>>]
  /\ UNCHANGED <<reset, scans, row, jobs, month, shaUnique, importVars, exportVars, treeVars>>

\* ... and deleted where it was.
DeleteOrphan ==
  /\ scan.at = "delete"
  /\ objects' = objects \ {scan.from}
  /\ scan' = [scan EXCEPT !.at = "row"]
  /\ UNCHANGED <<reset, scans, row, jobs, month, shaUnique, importVars, exportVars, treeVars>>

AdoptOrphan ==
  /\ scan.at = "row" /\ shaUnique
  /\ row' = Upserted(scan.to[1], scan.to[2])
  /\ scan' = [scan EXCEPT !.at = IF row'[scan.to[1]].status = "pending" THEN "queue" ELSE "next",
                          !.seen = scan.seen \cup {scan.to[1]}]
  /\ UNCHANGED <<reset, scans, objects, jobs, month, shaUnique, importVars, exportVars, treeVars>>

QueueOrphan ==
  /\ scan.at = "queue"
  /\ jobs' = jobs \cup {scan.to[1]}
  /\ scan' = [scan EXCEPT !.at = "next"]
  /\ UNCHANGED <<reset, scans, row, objects, month, shaUnique, importVars, exportVars, treeVars>>

FinishScan ==
  /\ scan.at = "next" /\ scan.keys = {}
  /\ scan' = [scan EXCEPT !.at = "done"]
  /\ UNCHANGED <<reset, scans, bucketVars, importVars, exportVars, treeVars>>

\* It dies, of itself or on an object that is gone or a statement that fails.
CrashScan ==
  /\ scan.at \notin {"down", "done"}
  /\ scan' = ScanDown
  /\ UNCHANGED <<reset, scans, bucketVars, importVars, exportVars, treeVars>>

-----------------------------------------------------------------------------
\* reprocess-assets selects every row ...
StartReset ==
  /\ reset.at \in {"down", "done", "died"} /\ scans < MaxScans
  /\ scans' = scans + 1
  /\ reset' = [at |-> "next", rows |-> DOMAIN row, todo |-> DOMAIN row,
             asset |-> NoFolder]
  /\ UNCHANGED <<scan, bucketVars, importVars, exportVars, treeVars>>

\* ... and one by one makes it pending ...
ResetRow(a) ==
  /\ reset.at = "next" /\ a \in reset.todo
  /\ row' = [row EXCEPT ![a].status = "pending"]
  /\ reset' = [reset EXCEPT !.at = "queue", !.todo = reset.todo \ {a}, !.asset = a]
  /\ UNCHANGED <<scan, scans, objects, jobs, month, shaUnique, importVars, exportVars, treeVars>>

\* ... and queues it, for the worker skips what is ready.
RequeueRow ==
  /\ reset.at = "queue"
  /\ jobs' = jobs \cup {reset.asset}
  /\ reset' = [reset EXCEPT !.at = "next"]
  /\ UNCHANGED <<scan, scans, row, objects, month, shaUnique, importVars, exportVars, treeVars>>

FinishReset ==
  /\ reset.at = "next" /\ reset.todo = {}
  /\ reset' = [reset EXCEPT !.at = "done"]
  /\ UNCHANGED <<scan, scans, bucketVars, importVars, exportVars, treeVars>>

CrashReset ==
  /\ reset.at \in {"next", "queue"}
  /\ reset' = [reset EXCEPT !.at = "died"]
  /\ UNCHANGED <<scan, scans, bucketVars, importVars, exportVars, treeVars>>

ScanNext ==
  \/ StartScan \/ ScanRows \/ (\E k \in scan.keys : CopyOrphan(k)) \/ DeleteOrphan
  \/ AdoptOrphan \/ QueueOrphan \/ FinishScan \/ CrashScan
ResetNext ==
  \/ StartReset \/ (\E a \in reset.todo : ResetRow(a)) \/ RequeueRow \/ FinishReset \/ CrashReset

-----------------------------------------------------------------------------
\* The worker takes a job to its end: an asset that is ready already is left,
\* one whose object is not under the row's key fails.
IngestJob(a) ==
  /\ a \in jobs /\ jobs' = jobs \ {a}
  /\ \/ row[a].status = "ready" /\ UNCHANGED row
     \/ row[a].status # "ready" /\ <<a, row[a].month>> \in objects
        /\ row' = [row EXCEPT ![a].status = "ready"]
     \/ row[a].status # "ready" /\ row' = [row EXCEPT ![a].status = "failed"]
  /\ UNCHANGED <<objects, month, shaUnique, scanVars, importVars, exportVars, treeVars>>

TurnMonth ==
  /\ month < MaxMonths /\ month' = month + 1
  /\ UNCHANGED <<row, objects, jobs, shaUnique, scanVars, importVars, exportVars, treeVars>>

\* drizzle/0012 drops asset_sha256_unique, so that a second copy of a photo may
\* be kept; the scripts' "on conflict (sha256)" then matches no constraint.
Migrate ==
  /\ shaUnique /\ shaUnique' = FALSE
  /\ UNCHANGED <<row, objects, jobs, month, scanVars, importVars, exportVars, treeVars>>

WorkerNext == \E a \in Asset : IngestJob(a)
OperatorNext == TurnMonth \/ Migrate

-----------------------------------------------------------------------------
ScanState == [at : {"down", "rows", "next", "delete", "row", "queue", "done"}, keys : SUBSET Key,
              from : Key \cup {NoKey}, to : Key \cup {NoKey}, seen : SUBSET Asset]
ResetState == [at : {"down", "next", "queue", "done", "died"}, rows : SUBSET Asset,
               todo : SUBSET Asset, asset : Asset \cup {NoFolder}]

ScanTypeOK ==
  /\ scan \in ScanState /\ reset \in ResetState /\ scans \in 0..MaxScans
  /\ reset.todo \subseteq reset.rows
  /\ reset.rows \subseteq DOMAIN row

Served(a) == a \in DOMAIN row /\ (row[a].status # "pending" \/ a \in jobs)

\* A run of the importer, of scan-bucket or of reprocess-assets that ends has
\* every asset it went through ingested or in the queue, wherever the workers
\* and earlier runs that died had left it -- but a reprocess-assets that died
\* leaves a row pending until it is run again.
FinishedScriptsQueueAll ==
  /\ reset.at \in {"down", "done"} =>
       ImportedIsQueued /\ (scan.at = "done" => \A a \in scan.seen : Served(a))
  /\ reset.at = "done" => \A a \in reset.rows : Served(a)

\* A script that moves an original never loses it: what was copied in by hand,
\* and what a row describes, is somewhere in the bucket after any crash; and
\* while the month does not turn it is where the row says.
OriginalsAreKept ==
  /\ \A k \in Copied : \E x \in objects : x[1] = k[1]
  /\ \A a \in DOMAIN row : (\E x \in objects : x[1] = a) /\ (month = 1 => <<a, 1>> \in objects)
==============================================================================
