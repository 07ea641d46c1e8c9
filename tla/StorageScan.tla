----------------------------- MODULE StorageScan -----------------------------
(***************************************************************************)
(* The analysis of a folder's storage (apps/kova-desktop/src/storage.rs,   *)
(* kova-platform-windows/src/storage_analysis.rs): the user asks for a     *)
(* scan, one worker scans and leaves its newest result in a slot, and a    *)
(* timer shows what it finds there.  `fresh` stands for a number that is   *)
(* the latest, as in module Preview.                                       *)
(***************************************************************************)
EXTENDS Naturals

CONSTANTS
  Folder,
  NoFolder,   \* no folder analysed yet, no result
  NoScan,     \* an empty channel or slot, an idle worker
  MaxAnalyses \* requests and cancellations of the user, a bound of the model

\* Requests and results; a number that is the latest is `fresh`.
Scan == [path: Folder, fresh: BOOLEAN]
ScanResult == [path: Folder, fresh: BOOLEAN, finished: BOOLEAN]

ASSUME StorageScanAssumption ==
  NoFolder \notin Folder /\ MaxAnalyses \in Nat /\ NoScan \notin Scan \cup ScanResult

VARIABLES
  storage,     \* the panel: its folder, the folder of its results, busy or not
  scanAsked,   \* the channel of one request
  scan,        \* the scan of the worker
  scanResult,  \* the slot
  analyses

storageVars == <<storage, scanAsked, scan, scanResult, analyses>>

------------------------------------------------------------------------------
Outdated(job) == IF job = NoScan THEN NoScan ELSE [job EXCEPT !.fresh = FALSE]

\* A new number makes everything that is on its way obsolete.
OutdateScans == scan' = Outdated(scan) /\ scanResult' = Outdated(scanResult)

StorageInit ==
  /\ storage = [path |-> NoFolder, shown |-> NoFolder, busy |-> FALSE]
  /\ scanAsked = NoScan /\ scan = NoScan /\ scanResult = NoScan /\ analyses = 0

MayAnalyze == analyses < MaxAnalyses /\ analyses' = analyses + 1

\* Mutation of Refused: the panel still waits for the scan that was given up.
RefusedBusy == storage

\* The channel is full: "Previous scan is stopping. Try Analyze again."
Refused == [storage EXCEPT !.busy = FALSE]

Analyze(f) ==
  /\ MayAnalyze /\ OutdateScans
  /\ IF scanAsked = NoScan
     THEN /\ scanAsked' = [path |-> f, fresh |-> TRUE]
          /\ storage' = [path |-> f, shown |-> NoFolder, busy |-> TRUE]
     ELSE scanAsked' = Outdated(scanAsked) /\ storage' = Refused

CancelAnalysis ==
  /\ MayAnalyze /\ OutdateScans
  /\ scanAsked' = Outdated(scanAsked)
  /\ storage' = [storage EXCEPT !.busy = FALSE]

\* The worker scans whatever it is given; a scan that is obsolete ends with
\* the next entry, and every scan ends with a finished result.
ScanTakes ==
  /\ scan = NoScan /\ scanAsked # NoScan
  /\ scan' = scanAsked /\ scanAsked' = NoScan
  /\ UNCHANGED <<storage, scanResult, analyses>>

ResultOf(job, finished) == [path |-> job.path, fresh |-> job.fresh, finished |-> finished]

ScanReports ==
  /\ scan # NoScan
  /\ scanResult' = ResultOf(scan, FALSE)
  /\ UNCHANGED <<storage, scanAsked, scan, analyses>>

ScanEnds ==
  /\ scan # NoScan
  /\ scan' = NoScan /\ scanResult' = ResultOf(scan, TRUE)
  /\ UNCHANGED <<storage, scanAsked, analyses>>

StorageTimer ==
  /\ scanResult # NoScan /\ scanResult' = NoScan
  /\ storage' = IF scanResult.fresh
                THEN [storage EXCEPT !.shown = scanResult.path, !.busy = ~scanResult.finished]
                ELSE storage
  /\ UNCHANGED <<scanAsked, scan, analyses>>

------------------------------------------------------------------------------
StorageNext ==
  \/ \E f \in Folder : Analyze(f)
  \/ CancelAnalysis \/ ScanTakes \/ ScanReports \/ ScanEnds \/ StorageTimer

StorageSpec == StorageInit /\ [][StorageNext]_storageVars

------------------------------------------------------------------------------
\* Properties.

\* The panel is busy exactly while a scan for its folder is on its way, and
\* its results are of its folder: no scan that was cancelled, refused or
\* replaced is shown or waited for (storage.rs:55-95).
BusyIsScanned ==
  /\ storage.shown \in {NoFolder, storage.path}
  /\ storage.busy <=>
       \/ scanAsked # NoScan /\ scanAsked.fresh
       \/ scan # NoScan /\ scan.fresh
       \/ scanResult # NoScan /\ scanResult.fresh /\ scanResult.finished
==============================================================================
