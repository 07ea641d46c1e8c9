----------------------------- MODULE WindowProofs -----------------------------
(***************************************************************************)
(* Proofs about the parts around the window, for every value of their      *)
(* constants: the preview shows what it names; the storage panel waits for *)
(* a scan exactly while that scan is on its way; a session that was closed *)
(* is in the file, and a file that could not be read is never replaced; a  *)
(* change of a watched folder is carried until a listing has seen it; the  *)
(* cache of thumbnails holds what was read for its own folder and size;    *)
(* and every key of the icon store shows its own icon.                     *)
(***************************************************************************)
EXTENDS Preview, StorageScan, Session, LiveUpdates, Thumbnails,
        IconStore, RetainProofs, FiniteSetTheorems

------------------------------------------------------------------------------
\* The preview.

\* Whatever carries the latest number is for the file that the panel names.
FreshIsOfThePanel ==
  /\ request # Unset /\ request.fresh => request.subject = panel.of
  /\ loader # Unset /\ loader.fresh => loader.subject = panel.of
  /\ \A i \in DOMAIN frames : frames[i].fresh => frames[i].subject = panel.of

PreviewInv == PreviewTypeOK /\ FreshIsOfThePanel /\ PreviewIsOfItsFile

------------------------------------------------------------------------------
\* A superseded job keeps its shape and is not fresh.
LEMMA SupersededIsOld ==
  ASSUME NEW job
  PROVE  /\ job \in Job \cup {Unset} => Superseded(job) \in Job \cup {Unset}
         /\ job \in Load \cup {Unset} => Superseded(job) \in Load \cup {Unset}
         /\ job \in Job \cup Load /\ Superseded(job) # Unset => ~Superseded(job).fresh
         /\ job = Unset => Superseded(job) = Unset
  BY DEF Superseded, Job, Load

\* Asking for another file leaves nothing fresh but the new request.
LEMMA AskingKeepsPreview == PreviewInv /\ TimerAsks => PreviewInv'
<1> SUFFICES ASSUME PreviewInv, TimerAsks PROVE PreviewInv'
  OBVIOUS
<1> USE DEF PreviewInv
<1>1. /\ panel' = EmptyPanel(subject) /\ panel'.of = subject
      /\ panel'.info = Unset /\ panel'.content = Unset /\ panel' \in Panel
  BY DEF TimerAsks, EmptyPanel, Panel, PreviewTypeOK
<1>2. frames' = <<>> /\ frames' \in Seq(Frame) /\ Len(frames') = 0 /\ Len(frames') <= Room
  BY PreviewAssumption DEF TimerAsks
<1>3. /\ loader' \in Load \cup {Unset}
      /\ loader' # Unset => ~loader'.fresh
  BY SupersededIsOld DEF TimerAsks, PreviewTypeOK
<1>4. /\ request' \in Job \cup {Unset}
      /\ request' # Unset /\ request'.fresh => request'.subject = subject
  <2>1. CASE subject # NoSubject /\ request = Unset
    <3>1. request' = [subject |-> subject, fresh |-> TRUE] /\ subject \in Subject
      BY <2>1 DEF TimerAsks, PreviewTypeOK
    <3> QED
      BY <3>1 DEF Job
  <2>2. CASE ~(subject # NoSubject /\ request = Unset)
    <3>1. request' = Superseded(request)
      BY <2>2 DEF TimerAsks
    <3> QED
      BY <3>1, SupersededIsOld DEF PreviewTypeOK
  <2> QED
    BY <2>1, <2>2
<1>5. /\ lastKey' \in Subject \cup {NoSubject, Unset} /\ paused' \in BOOLEAN
      /\ subject' = subject
  BY DEF TimerAsks, PreviewTypeOK, PausedAfter
<1>6. PreviewTypeOK'
  BY <1>1, <1>2, <1>3, <1>4, <1>5 DEF PreviewTypeOK
<1>7. FreshIsOfThePanel'
  BY <1>1, <1>2, <1>3, <1>4 DEF FreshIsOfThePanel
<1> QED
  BY <1>1, <1>6, <1>7 DEF PreviewIsOfItsFile

\* Only fresh frames are shown, and these are of the panel's file.
LEMMA ShowingKeepsPreview == PreviewInv /\ TimerShows => PreviewInv'
<1> SUFFICES ASSUME PreviewInv, TimerShows PROVE PreviewInv'
  OBVIOUS
<1> USE DEF PreviewInv
<1> DEFINE shown    == {i \in DOMAIN frames : IsShown(frames[i])}
           pictures == {i \in shown : frames[i].part # "info"}
           infosTo(last) == {frames[i].subject : i \in {j \in shown : j <= last /\ frames[j].part = "info"}}
           toldTo(last)  == IF infosTo(last) = {} THEN panel
                            ELSE [panel EXCEPT !.info = CHOOSE s \in infosTo(last) : TRUE]
<1>1. PICK last \in DOMAIN frames :
        /\ IF pictures = {} THEN last = Len(frames)
                           ELSE last \in pictures /\ \A i \in pictures : last <= i
        /\ frames' = SubSeq(frames, last + 1, Len(frames))
        /\ panel' = IF pictures = {} THEN toldTo(last)
                    ELSE [toldTo(last) EXCEPT !.shows = "content", !.content = frames[last].subject,
                                              !.moving = frames[last].part = "frame"]
  BY DEF TimerShows
<1> DEFINE infos == infosTo(last)  told == toldTo(last)
<1>2. UNCHANGED <<subject, lastKey, paused, request, loader>>
  BY DEF TimerShows
<1>3. \A i \in DOMAIN frames : frames[i] \in Frame
  BY DEF PreviewTypeOK
<1>4. \A i \in shown : frames[i].subject = panel.of /\ frames[i].subject \in Subject
  BY <1>3 DEF IsShown, FreshIsOfThePanel, Frame
<1>5. told \in Panel /\ told.of = panel.of /\ told.info \in {Unset, panel.of} /\ told.content = panel.content
  <2>1. CASE infos = {}
    BY <2>1 DEF PreviewTypeOK, PreviewIsOfItsFile, Panel
  <2>2. CASE infos # {}
    <3>1. infos \subseteq {panel.of} \cap Subject
      BY <1>4
    <3>2. (CHOOSE s \in infos : TRUE) \in infos
      BY <2>2
    <3>3. PICK s \in infos : told = [panel EXCEPT !.info = s]
      BY <2>2, <3>2
    <3> HIDE DEF infos, told
    <3> QED
      BY <3>1, <3>3 DEF PreviewTypeOK, Panel
  <2> QED
    BY <2>1, <2>2
<1> HIDE DEF infos, told
<1>6. panel' \in Panel /\ panel'.of = panel.of /\ PreviewIsOfItsFile'
  <2>1. CASE pictures = {}
    BY <1>1, <1>5, <2>1 DEF PreviewIsOfItsFile, infos, told
  <2>2. CASE pictures # {}
    <3>1. last \in pictures
      BY <1>1, <2>2
    <3>2. frames[last].subject = panel.of /\ frames[last].subject \in Subject
      BY <1>4, <3>1
    <3>3. panel' = [told EXCEPT !.shows = "content", !.content = frames[last].subject,
                                !.moving = frames[last].part = "frame"]
      BY <1>1, <2>2 DEF told
    <3> QED
      BY <1>5, <3>2, <3>3 DEF PreviewIsOfItsFile, Panel
  <2> QED
    BY <2>1, <2>2
<1>7. /\ frames' \in Seq(Frame) /\ Len(frames') <= Room
      /\ \A i \in DOMAIN frames' : \E j \in DOMAIN frames : frames'[i] = frames[j]
  <2>1. /\ frames \in Seq(Frame) /\ Len(frames) \in Nat /\ last \in 1..Len(frames)
        /\ Len(frames) <= Room
    BY DEF PreviewTypeOK
  <2>2. /\ Len(frames') = Len(frames) - last
        /\ frames' \in Seq(Frame)
        /\ \A i \in 1..Len(frames') : frames'[i] = frames[last + i]
    BY <1>1, <2>1
  <2> QED
    BY <2>1, <2>2, PreviewAssumption
<1>8. PreviewTypeOK'
  BY <1>2, <1>6, <1>7 DEF PreviewTypeOK
<1>9. FreshIsOfThePanel'
  BY <1>2, <1>6, <1>7 DEF FreshIsOfThePanel
<1> QED
  BY <1>6, <1>8, <1>9

\* The worker hands on what it was asked for, and nothing else becomes fresh.
LEMMA LoadingKeepsPreview == PreviewInv /\ Loader => PreviewInv'
<1> SUFFICES ASSUME PreviewInv, Loader PROVE PreviewInv'
  OBVIOUS
<1> USE DEF PreviewInv
<1>1. LoaderFrame
  BY DEF Loader, LoaderTakes, LoaderChecks, LoaderSends
<1>2. PreviewIsOfItsFile' /\ UNCHANGED <<subject, lastKey, panel, paused>>
  BY <1>1 DEF LoaderFrame, PreviewIsOfItsFile
<1>3. CASE LoaderTakes
  <2>1. request \in Job /\ request' = Unset /\ frames' = frames
    BY <1>3 DEF LoaderTakes, PreviewTypeOK
  <2>2. /\ loader' \in Load \cup {Unset}
        /\ loader' # Unset /\ loader'.fresh => loader'.subject = panel.of
    BY <1>3, <2>1 DEF LoaderTakes, Job, Load, FreshIsOfThePanel
  <2> QED
    BY <1>2, <2>1, <2>2 DEF PreviewTypeOK, FreshIsOfThePanel
<1>4. CASE LoaderChecks
  <2>1. /\ loader' \in Load \cup {Unset} /\ UNCHANGED <<request, frames>>
        /\ loader' # Unset => loader'.fresh = loader.fresh /\ loader'.subject = loader.subject
    BY <1>4 DEF LoaderChecks, PreviewTypeOK, Load
  <2> QED
    BY <1>2, <1>4, <2>1 DEF LoaderChecks, PreviewTypeOK, FreshIsOfThePanel
<1>5. CASE LoaderSends
  <2>1. loader \in Load /\ UNCHANGED request
    BY <1>5 DEF LoaderSends, PreviewTypeOK
  <2>2. /\ loader' \in Load \cup {Unset}
        /\ loader' # Unset => loader'.fresh = loader.fresh /\ loader'.subject = loader.subject
    <3>1. CASE loader' = [loader EXCEPT !.sure = FALSE]
      BY <2>1, <3>1 DEF Load
    <3>2. ASSUME NEW part \in PartsAfter(loader.part), part # "done",
                 loader' = [loader EXCEPT !.part = part, !.sure = FALSE]
          PROVE  /\ loader' \in Load
                 /\ loader'.fresh = loader.fresh /\ loader'.subject = loader.subject
      <4>1. loader.part \in {"info", "frame", "still"}
        BY <2>1 DEF Load
      <4>2. part \in {"frame", "still"}
        BY <3>2, <4>1 DEF PartsAfter
      <4> QED
        BY <2>1, <3>2, <4>2 DEF Load
    <3> QED
      BY <1>5, <3>1, <3>2 DEF LoaderSends
  <2>3. /\ frames' \in Seq(Frame) /\ Len(frames') <= Room
        /\ \A i \in DOMAIN frames' : \/ i \in DOMAIN frames /\ frames'[i] = frames[i]
                                     \/ frames'[i].fresh = loader.fresh /\ frames'[i].subject = loader.subject
    <3>1. CASE UNCHANGED frames
      BY <3>1 DEF PreviewTypeOK
    <3>2. CASE Len(frames) < Room
      <4> DEFINE frame == [subject |-> loader.subject, fresh |-> loader.fresh, part |-> loader.part]
      <4>1. frame \in Frame /\ frame.fresh = loader.fresh /\ frame.subject = loader.subject
        BY <2>1 DEF Load, Frame
      <4>2. frames' = Append(frames, frame)
        BY <1>5, <3>2 DEF LoaderSends
      <4> HIDE DEF frame
      <4>3. frames \in Seq(Frame)
        BY DEF PreviewTypeOK
      <4> QED
        BY <3>2, <4>1, <4>2, <4>3, PreviewAssumption
    <3> QED
      BY <1>5, <3>1, <3>2 DEF LoaderSends
  <2>4. loader # Unset
    BY <1>5 DEF LoaderSends
  <2>5. PreviewTypeOK'
    BY <1>2, <2>1, <2>2, <2>3 DEF PreviewTypeOK
  <2>6. FreshIsOfThePanel'
    BY <1>2, <2>1, <2>2, <2>3, <2>4 DEF FreshIsOfThePanel
  <2> QED
    BY <1>2, <2>5, <2>6
<1> QED
  BY <1>3, <1>4, <1>5 DEF Loader

\* Every step keeps the invariant.
LEMMA PreviewStep == PreviewInv /\ [PreviewNext]_previewVars => PreviewInv'
<1> SUFFICES ASSUME PreviewInv, [PreviewNext]_previewVars PROVE PreviewInv'
  OBVIOUS
<1> USE DEF PreviewInv
<1>1. ASSUME NEW s \in Subject \cup {NoSubject}, Prefer(s) PROVE PreviewInv'
  <2>1. /\ panel' \in Panel /\ panel'.of = panel.of
        /\ panel'.info = panel.info /\ panel'.content \in {panel.content, Unset}
    BY <1>1 DEF Prefer, Blanked, PreviewTypeOK, Panel
  <2>2. subject' = s /\ UNCHANGED <<lastKey, paused, request, loader, frames>>
    BY <1>1 DEF Prefer
  <2> QED
    BY <2>1, <2>2 DEF PreviewTypeOK, FreshIsOfThePanel, PreviewIsOfItsFile
<1>2. ASSUME PauseOrPlay PROVE PreviewInv'
  BY <1>2 DEF PauseOrPlay, PreviewTypeOK, FreshIsOfThePanel, PreviewIsOfItsFile
<1>3. ASSUME UNCHANGED previewVars PROVE PreviewInv'
  BY <1>3 DEF previewVars, PreviewTypeOK, FreshIsOfThePanel, PreviewIsOfItsFile
<1> QED
  BY <1>1, <1>2, <1>3, AskingKeepsPreview, ShowingKeepsPreview, LoadingKeepsPreview
     DEF PreviewNext, PreviewTimer

\* In every reachable state the variables of the preview have their types and
\* what carries the latest number is for the file that the panel names
\* (preview.rs:142-190).
THEOREM PreviewInvariant == PreviewSpec => []PreviewInv
<1>1. PreviewInit => PreviewInv
  <2> SUFFICES ASSUME PreviewInit PROVE PreviewInv
    OBVIOUS
  <2>1. panel \in Panel /\ panel.info = Unset /\ panel.content = Unset
    BY DEF PreviewInit, EmptyPanel, Panel
  <2>2. frames = <<>> /\ frames \in Seq(Frame) /\ Len(frames) <= Room
    BY PreviewAssumption DEF PreviewInit
  <2>3. DOMAIN frames = {}
    BY <2>2
  <2>4. PreviewTypeOK
    BY <2>1, <2>2 DEF PreviewInit, PreviewTypeOK
  <2>5. FreshIsOfThePanel
    BY <2>3 DEF PreviewInit, FreshIsOfThePanel
  <2> QED
    BY <2>1, <2>4, <2>5 DEF PreviewInv, PreviewIsOfItsFile
<1> QED
  BY <1>1, PreviewStep, PTL DEF PreviewSpec

\* The picture and the information that the panel shows are of the file it
\* names, for every number of files and every room of the channel.
THEOREM PreviewSafe == PreviewSpec => []PreviewIsOfItsFile
<1>1. PreviewInv => PreviewIsOfItsFile
  BY DEF PreviewInv
<1> QED
  BY <1>1, PreviewInvariant, PTL

------------------------------------------------------------------------------
\* The analysis of a folder.

\* Shapes of the panel, the channel, the scan and the slot.
StorageTypeOK ==
  /\ storage \in [path: Folder \cup {NoFolder}, shown: Folder \cup {NoFolder}, busy: BOOLEAN]
  /\ scanAsked \in Scan \cup {NoScan} /\ scan \in Scan \cup {NoScan}
  /\ scanResult \in ScanResult \cup {NoScan}

IsFresh(job) == job # NoScan /\ job.fresh

\* What carries the latest number is for the folder of the panel, and is the
\* newest thing there is: nothing waits behind a fresh scan, a fresh report
\* belongs to the running scan, and after a fresh end nothing runs.
FreshIsNewest ==
  /\ IsFresh(scanAsked) => scanAsked.path = storage.path
  /\ IsFresh(scan) => scan.path = storage.path /\ scanAsked = NoScan
  /\ IsFresh(scanResult) =>
       /\ scanResult.path = storage.path /\ scanAsked = NoScan
       /\ IF scanResult.finished THEN scan = NoScan ELSE IsFresh(scan)

StorageInv == StorageTypeOK /\ FreshIsNewest /\ BusyIsScanned

------------------------------------------------------------------------------
\* Giving up what is on its way leaves records of the same shape, none fresh.
LEMMA OutdatedIsOld ==
  ASSUME NEW job
  PROVE  /\ job \in Scan \cup {NoScan} => Outdated(job) \in Scan \cup {NoScan}
         /\ job \in ScanResult \cup {NoScan} => Outdated(job) \in ScanResult \cup {NoScan}
         /\ job \in Scan \cup ScanResult \cup {NoScan} => ~IsFresh(Outdated(job))
  BY StorageScanAssumption DEF Outdated, IsFresh, Scan, ScanResult

\* Every step of the user, the worker and the timer keeps the invariant.
LEMMA StorageStep == StorageInv /\ [StorageNext]_storageVars => StorageInv'
<1> SUFFICES ASSUME StorageInv, [StorageNext]_storageVars PROVE StorageInv'
  OBVIOUS
<1> USE DEF StorageInv
<1>1. ASSUME NEW f \in Folder, Analyze(f) PROVE StorageInv'
  <2>1. /\ ~IsFresh(Outdated(scanAsked)) /\ ~IsFresh(Outdated(scan)) /\ ~IsFresh(Outdated(scanResult))
        /\ Outdated(scanAsked) \in Scan \cup {NoScan} /\ Outdated(scan) \in Scan \cup {NoScan}
        /\ Outdated(scanResult) \in ScanResult \cup {NoScan}
    BY OutdatedIsOld DEF StorageTypeOK
  <2>2. CASE scanAsked = NoScan
    <3>1. /\ scanAsked' = [path |-> f, fresh |-> TRUE]
          /\ storage' = [path |-> f, shown |-> NoFolder, busy |-> TRUE]
          /\ scan' = Outdated(scan) /\ scanResult' = Outdated(scanResult)
      BY <1>1, <2>2 DEF Analyze, OutdateScans
    <3>2. scanAsked' \in Scan
      BY <3>1 DEF Scan
    <3>3. StorageTypeOK'
      BY <2>1, <3>1, <3>2 DEF StorageTypeOK
    <3> QED
      BY <2>1, <3>1, <3>2, <3>3, StorageScanAssumption DEF FreshIsNewest, BusyIsScanned, IsFresh
  <2>3. CASE scanAsked # NoScan
    <3>1. /\ scanAsked' = Outdated(scanAsked) /\ storage' = [storage EXCEPT !.busy = FALSE]
          /\ scan' = Outdated(scan) /\ scanResult' = Outdated(scanResult)
      BY <1>1, <2>3 DEF Analyze, OutdateScans, Refused
    <3> QED
      BY <2>1, <3>1 DEF StorageTypeOK, FreshIsNewest, BusyIsScanned, IsFresh
  <2> QED
    BY <2>2, <2>3
<1>2. ASSUME CancelAnalysis PROVE StorageInv'
  <2>1. /\ scanAsked' = Outdated(scanAsked) /\ storage' = [storage EXCEPT !.busy = FALSE]
        /\ scan' = Outdated(scan) /\ scanResult' = Outdated(scanResult)
    BY <1>2 DEF CancelAnalysis, OutdateScans
  <2>2. /\ ~IsFresh(Outdated(scanAsked)) /\ ~IsFresh(Outdated(scan)) /\ ~IsFresh(Outdated(scanResult))
        /\ Outdated(scanAsked) \in Scan \cup {NoScan} /\ Outdated(scan) \in Scan \cup {NoScan}
        /\ Outdated(scanResult) \in ScanResult \cup {NoScan}
    BY OutdatedIsOld DEF StorageTypeOK
  <2> QED
    BY <2>1, <2>2 DEF StorageTypeOK, FreshIsNewest, BusyIsScanned, IsFresh
<1>3. ASSUME ScanTakes PROVE StorageInv'
  BY <1>3 DEF ScanTakes, StorageTypeOK, FreshIsNewest, BusyIsScanned, IsFresh
<1>4. ASSUME NEW finished \in BOOLEAN, scan # NoScan,
             scanResult' = ResultOf(scan, finished), scan' = IF finished THEN NoScan ELSE scan,
             UNCHANGED <<storage, scanAsked>>
      PROVE  StorageInv'
  <2>1. scan \in Scan /\ scanResult' \in ScanResult
    BY <1>4 DEF StorageTypeOK, Scan, ScanResult, ResultOf
  <2>2. /\ scanResult'.path = scan.path /\ scanResult'.fresh = scan.fresh
        /\ scanResult'.finished = finished
    BY <1>4 DEF ResultOf
  <2> QED
    BY <1>4, <2>1, <2>2, StorageScanAssumption DEF StorageTypeOK, FreshIsNewest, BusyIsScanned, IsFresh
<1>5. ASSUME ScanReports PROVE StorageInv'
  BY <1>4, <1>5 DEF ScanReports
<1>6. ASSUME ScanEnds PROVE StorageInv'
  BY <1>4, <1>6 DEF ScanEnds
<1>7. ASSUME StorageTimer PROVE StorageInv'
  <2>1. scanResult \in ScanResult /\ scanResult' = NoScan /\ UNCHANGED <<scanAsked, scan>>
    BY <1>7 DEF StorageTimer, StorageTypeOK
  <2>2. CASE scanResult.fresh
    <3>1. storage' = [storage EXCEPT !.shown = scanResult.path, !.busy = ~scanResult.finished]
      BY <1>7, <2>2 DEF StorageTimer
    <3>2. scanResult.path \in Folder /\ scanResult.finished \in BOOLEAN
      BY <2>1 DEF ScanResult
    <3>3. /\ storage'.path = storage.path /\ storage'.shown = scanResult.path
          /\ storage'.busy = ~scanResult.finished
      BY <3>1 DEF StorageTypeOK
    <3>4. StorageTypeOK'
      BY <2>1, <3>1, <3>2 DEF StorageTypeOK
    <3>5. IsFresh(scanResult)
      BY <2>1, <2>2, StorageScanAssumption DEF IsFresh
    <3> QED
      BY <2>1, <3>2, <3>3, <3>4, <3>5 DEF FreshIsNewest, BusyIsScanned, IsFresh
  <2>3. CASE ~scanResult.fresh
    BY <1>7, <2>1, <2>3 DEF StorageTimer, StorageTypeOK, FreshIsNewest, BusyIsScanned, IsFresh
  <2> QED
    BY <2>2, <2>3
<1>8. ASSUME UNCHANGED storageVars PROVE StorageInv'
  BY <1>8 DEF storageVars, StorageTypeOK, FreshIsNewest, BusyIsScanned, IsFresh
<1> QED
  BY <1>1, <1>2, <1>3, <1>5, <1>6, <1>7, <1>8 DEF StorageNext

\* The invariant of the analysis holds in every reachable state: what carries
\* the latest number is the newest thing on its way (storage.rs:33-95).
THEOREM StorageInvariant == StorageSpec => []StorageInv
<1>1. StorageInit => StorageInv
  BY DEF StorageInit, StorageInv, StorageTypeOK, FreshIsNewest, BusyIsScanned, IsFresh
<1> QED
  BY <1>1, StorageStep, PTL DEF StorageSpec

\* The panel is busy exactly while a scan for its folder is on its way,
\* whatever is refused, cancelled or replaced (storage.rs:55-95).
THEOREM StorageBusy == StorageSpec => []BusyIsScanned
<1>1. StorageInv => BusyIsScanned
  BY DEF StorageInv
<1> QED
  BY <1>1, StorageInvariant, PTL

------------------------------------------------------------------------------
\* The session.

\* Sessions are numbers; what waits and what is saved is one of them.
SessionTypeOK ==
  /\ sessionFile \in Nat \cup {Foreign}
  /\ run \in {"off", "on", "closing", "crashed"} /\ keeps \in BOOLEAN
  /\ session \in Nat /\ changes \in Nat
  /\ handedOver \in Seq(Nat)
  /\ saver \in Save \cup {NoSession}
  /\ failedSave \in Nat \cup {NoSession}

\* A run that could not read the file saves nothing, and one that saves has
\* no foreign file before it.
KeepsInv ==
  /\ ~keeps => handedOver = <<>> /\ saver = NoSession
  /\ keeps => sessionFile # Foreign

\* Nothing is saved after the end of a run, and while Kova closes, the last
\* session is the newest in the channel, in the thread, or in the file.
ClosingInv ==
  /\ run = "off" => handedOver = <<>> /\ saver = NoSession
  /\ run \in {"closing", "off"} /\ keeps =>
       /\ handedOver # <<>> => handedOver[Len(handedOver)] = session
       /\ handedOver = <<>> /\ saver # NoSession => saver.saves = session
       /\ handedOver = <<>> /\ saver = NoSession /\ failedSave = NoSession => sessionFile = session

SessionInv == SessionTypeOK /\ KeepsInv /\ ClosingInv

------------------------------------------------------------------------------
\* A session appended to the channel is its last.
LEMMA HandedOverLast ==
  ASSUME NEW s \in Seq(Nat), NEW n \in Nat
  PROVE  /\ Append(s, n) \in Seq(Nat) /\ Append(s, n) # <<>>
         /\ Append(s, n)[Len(Append(s, n))] = n
  BY AppendProperties

\* Every step keeps the invariant.
LEMMA SessionStep == SessionInv /\ [SessionNext]_sessionVars => SessionInv'
<1> SUFFICES ASSUME SessionInv, [SessionNext]_sessionVars PROVE SessionInv'
  OBVIOUS
<1> USE SessionAssumption DEF SessionInv
<1>1. ASSUME NEW read \in BOOLEAN, StartSession(read) PROVE SessionInv'
  <2>1. /\ run' = "on" /\ session' \in Nat /\ keeps' = (read /\ sessionFile # Foreign)
        /\ UNCHANGED <<sessionFile, changes>>
        /\ handedOver' = <<>> /\ saver' = NoSession /\ failedSave' = NoSession
    BY <1>1 DEF StartSession, SessionTypeOK, IsKept
  <2>2. handedOver' \in Seq(Nat)
    BY <2>1
  <2> QED
    BY <2>1, <2>2 DEF SessionTypeOK, KeepsInv, ClosingInv
<1>2. ASSUME ChangeSession PROVE SessionInv'
  BY <1>2 DEF ChangeSession, SessionTypeOK, KeepsInv, ClosingInv
<1>3. ASSUME Rests PROVE SessionInv'
  BY <1>3 DEF Rests, SessionTypeOK, KeepsInv, ClosingInv
<1>4. ASSUME SessionTimer PROVE SessionInv'
  <2>1. /\ run = "on" /\ keeps
        /\ UNCHANGED <<sessionFile, run, session, keeps, saver, failedSave, changes>>
    BY <1>4 DEF SessionTimer
  <2>2. handedOver' = handedOver \/ handedOver' = Append(handedOver, session)
    BY <1>4 DEF SessionTimer
  <2>3. handedOver' \in Seq(Nat)
    BY <2>2, HandedOverLast DEF SessionTypeOK
  <2> QED
    BY <2>1, <2>3 DEF SessionTypeOK, KeepsInv, ClosingInv
<1>5. ASSUME SaverTakes PROVE SessionInv'
  <2>1. /\ saver = NoSession /\ handedOver # <<>> /\ handedOver' = <<>>
        /\ saver' = [saves |-> handedOver[Len(handedOver)], written |-> FALSE]
        /\ UNCHANGED <<sessionFile, run, session, keeps, failedSave, changes>>
    BY <1>5 DEF SaverTakes, SaverFrame
  <2>2. handedOver[Len(handedOver)] \in Nat /\ handedOver' \in Seq(Nat)
    BY <2>1 DEF SessionTypeOK
  <2>3. saver' \in Save /\ saver'.saves = handedOver[Len(handedOver)]
    BY <2>1, <2>2 DEF Save
  <2> QED
    BY <2>1, <2>2, <2>3 DEF SessionTypeOK, KeepsInv, ClosingInv
<1>6. ASSUME SaverWrites PROVE SessionInv'
  <2>1. /\ saver # NoSession /\ saver' = [saver EXCEPT !.written = TRUE]
        /\ UNCHANGED <<sessionFile, run, session, keeps, handedOver, failedSave, changes>>
    BY <1>6 DEF SaverWrites, SaverFrame
  <2>2. saver' \in Save /\ saver'.saves = saver.saves
    BY <2>1 DEF SessionTypeOK, Save
  <2> QED
    BY <2>1, <2>2 DEF SessionTypeOK, KeepsInv, ClosingInv
<1>7. ASSUME SaverRenames PROVE SessionInv'
  <2>1. /\ saver # NoSession /\ sessionFile' = saver.saves
        /\ saver' = NoSession /\ failedSave' = NoSession
        /\ UNCHANGED <<run, session, keeps, handedOver, changes>>
    BY <1>7 DEF SaverRenames, SaverFrame
  <2>2. saver.saves \in Nat
    BY <2>1 DEF SessionTypeOK, Save
  <2> QED
    BY <2>1, <2>2 DEF SessionTypeOK, KeepsInv, ClosingInv
<1>8. ASSUME SaverFails PROVE SessionInv'
  <2>1. /\ saver # NoSession /\ failedSave' = saver.saves /\ saver' = NoSession
        /\ UNCHANGED <<sessionFile, run, session, keeps, handedOver, changes>>
    BY <1>8 DEF SaverFails, SaverFrame
  <2>2. saver.saves \in Nat
    BY <2>1 DEF SessionTypeOK, Save
  <2> QED
    BY <2>1, <2>2 DEF SessionTypeOK, KeepsInv, ClosingInv
<1>9. ASSUME CloseSession PROVE SessionInv'
  <2>1. /\ run = "on" /\ run' = "closing"
        /\ handedOver' = (IF keeps THEN Append(handedOver, session) ELSE handedOver)
        /\ UNCHANGED <<sessionFile, session, keeps, saver, failedSave, changes>>
    BY <1>9 DEF CloseSession, LastHandedOver
  <2>2. /\ handedOver' \in Seq(Nat)
        /\ keeps => handedOver' # <<>> /\ handedOver'[Len(handedOver')] = session
    BY <2>1, HandedOverLast DEF SessionTypeOK
  <2> QED
    BY <2>1, <2>2 DEF SessionTypeOK, KeepsInv, ClosingInv
<1>10. ASSUME ExitSession PROVE SessionInv'
  BY <1>10 DEF ExitSession, SessionTypeOK, KeepsInv, ClosingInv
<1>11. ASSUME CrashSession PROVE SessionInv'
  <2>1. handedOver' = <<>> /\ handedOver' \in Seq(Nat)
    BY <1>11 DEF CrashSession
  <2> QED
    BY <1>11, <2>1 DEF CrashSession, SessionTypeOK, KeepsInv, ClosingInv
<1>12. ASSUME UNCHANGED sessionVars PROVE SessionInv'
  BY <1>12 DEF sessionVars, SessionTypeOK, KeepsInv, ClosingInv
<1> QED
  BY <1>1, <1>2, <1>3, <1>4, <1>5, <1>6, <1>7, <1>8, <1>9, <1>10, <1>11, <1>12
     DEF SessionNext, Saver

\* In every reachable state a run that could not read the file saves nothing,
\* and while Kova closes its last session is on the way to the file
\* (preferences.rs:80-98, 248-289).
THEOREM SessionInvariant == SessionSpec => []SessionInv
<1>1. SessionInit => SessionInv
  <2> SUFFICES ASSUME SessionInit PROVE SessionInv
    OBVIOUS
  <2>1. handedOver = <<>> /\ handedOver \in Seq(Nat)
    BY DEF SessionInit
  <2>2. SessionTypeOK
    <3>1. 0 \in Nat /\ sessionFile \in Nat \cup {Foreign}
      BY DEF SessionInit
    <3>2. saver \in Save \cup {NoSession} /\ failedSave \in Nat \cup {NoSession}
      BY DEF SessionInit
    <3>3. run \in {"off", "on", "closing", "crashed"} /\ keeps \in BOOLEAN
      BY DEF SessionInit
    <3>4. session \in Nat /\ changes \in Nat
      BY <3>1 DEF SessionInit
    <3> QED
      BY <2>1, <3>1, <3>2, <3>3, <3>4 DEF SessionTypeOK
  <2>3. KeepsInv /\ ClosingInv
    BY <2>1, SessionAssumption DEF SessionInit, KeepsInv, ClosingInv
  <2> QED
    BY <2>2, <2>3 DEF SessionInv
<1> QED
  BY <1>1, SessionStep, PTL DEF SessionSpec

\* A session that was closed is in the file unless its save failed, whatever
\* waited in the channel before it.
THEOREM SessionClosed == SessionSpec => []ClosedSessionIsSaved
<1>1. SessionInv => ClosedSessionIsSaved
  BY DEF SessionInv, ClosingInv, ClosedSessionIsSaved
<1> QED
  BY <1>1, SessionInvariant, PTL

\* A file that is newer than this Kova, or cannot be read, is never replaced.
THEOREM SessionForeign == SessionSpec => ForeignIsPreserved
<1>1. SessionInv /\ [SessionNext]_sessionVars => [sessionFile = Foreign => sessionFile' = Foreign]_sessionVars
  <2> SUFFICES ASSUME SessionInv, SessionNext, sessionFile = Foreign PROVE sessionFile' = Foreign
    OBVIOUS
  <2>1. saver = NoSession
    BY DEF SessionInv, KeepsInv, SessionTypeOK
  <2> QED
    BY <2>1 DEF SessionNext, StartSession, ChangeSession, Rests, SessionTimer, Saver, SaverTakes,
                SaverWrites, SaverRenames, SaverFails, CloseSession, ExitSession, CrashSession
<1> QED
  BY <1>1, SessionInvariant, PTL DEF SessionSpec, ForeignIsPreserved

------------------------------------------------------------------------------
\* Live updates.

Handle == {"none", "armed", "signaled"}

Burst == [on: BOOLEAN, first: Nat, last: Nat]

Watch == [deep: BOOLEAN, handle: Handle, retry: Nat, burst: Burst]

\* The watcher's registrations, and the shapes of the rest.
LiveShapes ==
  /\ place \in [Tab -> Viewed \cup {Closed}] /\ active \in Tab /\ recursive \in SUBSET Tab
  /\ sizes \in BOOLEAN
  /\ requested \in [Tab -> {"none", "asked", "read"}]
  /\ desired = NoPaths \/ (DOMAIN desired \subseteq Watchable /\ desired \in [DOMAIN desired -> BOOLEAN])
  /\ DOMAIN watches \subseteq Watchable /\ watches \in [DOMAIN watches -> Watch]
  /\ place[active] # Closed

\* Only a tab that shows a folder can miss a change.
MissedShowsAFolder == \A t \in missed : t \in Tab /\ place[t] \notin {Home, Closed}

\* What has to be watched for the tabs of a key.
OpenAt(key) == {t \in Tab : key[1][t] # Closed}

WantedAt(key) ==
  [p \in UNION {Roots[key[1][t]] : t \in OpenAt(key)} |->
     \E t \in OpenAt(key) : p \in Roots[key[1][t]] /\ (key[3] \/ t \in key[2])]

\* The watcher has been told the folders of the last synchronisation, or is
\* about to be.
ToldOrAboutToBe ==
  previous = <<>> \/
    IF desired # NoPaths THEN desired = WantedAt(previous)
    ELSE /\ DOMAIN watches = DOMAIN WantedAt(previous)
         /\ \A p \in DOMAIN watches : watches[p].deep = WantedAt(previous)[p]

\* A change is carried by a request, by the timer, or by a watch of one of the
\* folders that remembers it or is yet to come.
IsCarried(t) ==
  \/ requested[t] = "asked" \/ t \in waiting
  \/ \E p \in RootsOf(t) : Remembers(p) \/ ~IsWatched(p, SearchesBelow(t))

LiveInv ==
  /\ LiveShapes /\ MissedShowsAFolder /\ ToldOrAboutToBe
  /\ \A t \in missed : IsCarried(t)

LEMMA WantedAtKey == WantedAt(Key) = Wanted
<1> DEFINE P(p) == \E t \in OpenAt(Key) : p \in Roots[Key[1][t]] /\ (Key[3] \/ t \in Key[2])
           Q(p) == \E t \in OpenTabs : p \in RootsOf(t) /\ Deep(t)
           D == UNION {Roots[Key[1][t]] : t \in OpenAt(Key)}
           E == UNION {RootsOf(t) : t \in OpenTabs}
<1>1. OpenAt(Key) = OpenTabs
  BY DEF OpenAt, OpenTabs, Key
<1>2. \A t \in OpenTabs : RootsOf(t) = Roots[Key[1][t]]
  BY DEF RootsOf, Key
<1>3. D = E
  BY <1>1, <1>2
<1>4. \A p : P(p) <=> Q(p)
  BY <1>1, <1>2 DEF Deep, Key
<1>5. WantedAt(Key) = [p \in D |-> P(p)] /\ Wanted = [p \in E |-> Q(p)]
  BY DEF WantedAt, Wanted
<1> HIDE DEF P, Q, D, E
<1> QED
  BY <1>3, <1>4, <1>5, Zenon

LEMMA WantedShape ==
  ASSUME LiveShapes
  PROVE  /\ DOMAIN Wanted \subseteq Watchable /\ Wanted \in [DOMAIN Wanted -> BOOLEAN]
         /\ Wanted # NoPaths
         /\ \A t \in OpenTabs : \A p \in RootsOf(t) : p \in DOMAIN Wanted /\ (Deep(t) => Wanted[p])
<1> DEFINE Q(p) == \E t \in OpenTabs : p \in RootsOf(t) /\ Deep(t)
           E == UNION {RootsOf(t) : t \in OpenTabs}
<1>1. \A t \in OpenTabs : RootsOf(t) \subseteq Watchable
  BY LiveUpdatesAssumption DEF RootsOf, OpenTabs, LiveShapes
<1>2. Wanted = [p \in E |-> Q(p)]
  BY DEF Wanted
<1>3. E \subseteq Watchable
  BY <1>1
<1>4. \A t \in OpenTabs : \A p \in RootsOf(t) : p \in E /\ (Deep(t) => Q(p))
  OBVIOUS
<1>5. \A p : Q(p) \in BOOLEAN
  OBVIOUS
<1> HIDE DEF Q, E
<1>6. DOMAIN Wanted = E /\ Wanted \in [E -> BOOLEAN] /\ \A p \in E : Wanted[p] = Q(p)
  BY <1>2, <1>5
<1>7. Wanted # NoPaths
  BY <1>3, <1>6, LiveUpdatesAssumption
<1> QED
  BY <1>3, <1>4, <1>6, <1>7

\* A folder of an open tab is watched as the tab needs it, or will be.
LEMMA WatchedOrToBe ==
  ASSUME LiveInv, NEW t \in OpenTabs, NEW p \in RootsOf(t)
  PROVE  IsWatched(p, SearchesBelow(t)) \/ WillBeWatched(p, SearchesBelow(t))
<1> SUFFICES ASSUME previous = Key PROVE IsWatched(p, SearchesBelow(t)) \/ WillBeWatched(p, SearchesBelow(t))
  BY DEF WillBeWatched
<1>1. previous # <<>> /\ WantedAt(previous) = Wanted
  BY WantedAtKey DEF Key
<1>2. p \in DOMAIN Wanted /\ (SearchesBelow(t) => Wanted[p])
  BY WantedShape DEF LiveInv, SearchesBelow, Deep
<1>3. CASE desired # NoPaths
  BY <1>1, <1>2, <1>3 DEF LiveInv, ToldOrAboutToBe, WillBeWatched
<1>4. CASE desired = NoPaths
  BY <1>1, <1>2, <1>4 DEF LiveInv, ToldOrAboutToBe, IsWatched
<1> QED
  BY <1>3, <1>4

LEMMA LiveStart == LiveInit => LiveInv
<1> SUFFICES ASSUME LiveInit PROVE LiveInv
  OBVIOUS
<1> USE LiveUpdatesAssumption
<1>1. LiveShapes
  BY DEF LiveInit, LiveShapes
<1>2. MissedShowsAFolder /\ ToldOrAboutToBe
  BY DEF LiveInit, MissedShowsAFolder, ToldOrAboutToBe
<1>3. \A t \in missed : IsCarried(t)
  BY DEF LiveInit, IsCarried, IsWatched, RootsOf, OpenTabs
<1> QED
  BY <1>1, <1>2, <1>3 DEF LiveInv

\* What carries the changes of the tabs in which nothing is read, closed or
\* reached anew: requests that stay, tabs that wait on, the same watches.
LEMMA StaysCarried ==
  ASSUME LiveInv, NEW t \in missed,
         requested[t] = "asked" => requested'[t] = "asked",
         UNCHANGED <<place, waiting, watches, dirty>>,
         SearchesBelow(t) => SearchesBelow(t)'
  PROVE  IsCarried(t)'
<1>1. RootsOf(t)' = RootsOf(t) /\ \A p : Remembers(p)' <=> Remembers(p)
  BY DEF RootsOf, OpenTabs, Remembers
<1>2. \A p : ~IsWatched(p, SearchesBelow(t)) => ~IsWatched(p, SearchesBelow(t))'
  BY DEF IsWatched
<1>3. IsCarried(t)
  BY DEF LiveInv
<1> QED
  BY <1>1, <1>2, <1>3 DEF IsCarried

LEMMA ToldStays ==
  ToldOrAboutToBe /\ UNCHANGED <<previous, desired, watches>> => ToldOrAboutToBe'
<1> SUFFICES ASSUME ToldOrAboutToBe, UNCHANGED <<previous, desired, watches>>
             PROVE  ToldOrAboutToBe'
  OBVIOUS
<1>1. previous' = previous /\ desired' = desired /\ watches' = watches
  OBVIOUS
<1>2. WantedAt(previous)' = WantedAt(previous)
  BY <1>1 DEF WantedAt, OpenAt
<1> QED
  BY <1>1, <1>2 DEF ToldOrAboutToBe

\* What the user does to one tab.
LEMMA UserKeepsLive == LiveInv /\ (LiveUser \/ FinishEdit) => LiveInv'
<1> SUFFICES ASSUME LiveInv, LiveUser \/ FinishEdit PROVE LiveInv'
  OBVIOUS
<1> USE LiveUpdatesAssumption
<1>1. UNCHANGED <<timer, previous, waiting, desired, token, dirty, watches>>
  BY DEF LiveUser, FinishEdit, NavigateTab, SwitchTab, CloseTab, SetScope, SetFolderSizes,
     BeginEdit, Input, InputFrame, timerVars
<1>2. ToldOrAboutToBe'
  BY <1>1, ToldStays DEF LiveInv
<1>3. ASSUME NEW l \in Viewed, NavigateTab(l) PROVE LiveInv'
  <2>1. /\ place' = [place EXCEPT ![active] = l] /\ Ask(active, l)
        /\ missed' = IF l = Home THEN missed \ {active} ELSE missed \cup {active}
        /\ UNCHANGED <<active, recursive, sizes>>
    BY <1>3 DEF NavigateTab
  <2>2. LiveShapes'
    BY <1>1, <2>1 DEF LiveInv, LiveShapes, Ask
  <2>3. MissedShowsAFolder'
    BY <2>1 DEF LiveInv, LiveShapes, MissedShowsAFolder
  <2>4. ASSUME NEW t \in missed' PROVE IsCarried(t)'
    <3>1. CASE t = active
      <4>1. l # Home
        BY <2>1, <2>4, <3>1
      <4>2. requested'[t] = "asked"
        BY <2>1, <3>1, <4>1 DEF Ask, LiveInv, LiveShapes
      <4> QED
        BY <4>2 DEF IsCarried
    <3>2. CASE t # active
      <4>1. t \in missed /\ t \in Tab /\ requested'[t] = requested[t] /\ place'[t] = place[t]
        BY <2>1, <2>4, <3>2 DEF Ask, LiveInv, LiveShapes, MissedShowsAFolder
      <4>2. RootsOf(t)' = RootsOf(t) /\ \A p : Remembers(p)' <=> Remembers(p)
        BY <1>1, <4>1 DEF RootsOf, OpenTabs, Remembers
      <4>3. \A p : IsWatched(p, SearchesBelow(t))' <=> IsWatched(p, SearchesBelow(t))
        BY <1>1, <2>1, <4>1 DEF IsWatched, SearchesBelow
      <4> QED
        BY <1>1, <4>1, <4>2, <4>3 DEF IsCarried, LiveInv
    <3> QED
      BY <3>1, <3>2
  <2> QED
    BY <1>2, <2>2, <2>3, <2>4 DEF LiveInv
<1>4. ASSUME NEW t \in Tab, SwitchTab(t) PROVE LiveInv'
  <2>1. /\ t \in OpenTabs /\ active' = t /\ UNCHANGED <<place, recursive, sizes, missed>>
        /\ UNCHANGED requestedVars \/ (requested[t] = "none" /\ Ask(t, place[t]))
    BY <1>4 DEF SwitchTab
  <2>2. LiveShapes'
    BY <1>1, <2>1 DEF LiveInv, LiveShapes, Ask, requestedVars, OpenTabs
  <2>3. \A u \in missed : requested[u] = "asked" => requested'[u] = "asked"
    BY <2>1 DEF LiveInv, LiveShapes, Ask, requestedVars, MissedShowsAFolder
  <2>4. \A u \in missed : SearchesBelow(u) => SearchesBelow(u)'
    BY <2>1 DEF SearchesBelow
  <2>5. \A u \in missed' : IsCarried(u)'
    BY <1>1, <2>1, <2>3, <2>4, StaysCarried
  <2> QED
    BY <1>2, <2>1, <2>2, <2>5 DEF LiveInv, MissedShowsAFolder
<1>5. ASSUME NEW t \in Tab, CloseTab(t) PROVE LiveInv'
  <2>1. /\ t \in OpenTabs \ {active} /\ place' = [place EXCEPT ![t] = Closed]
        /\ requested' = [requested EXCEPT ![t] = "none"] /\ missed' = missed \ {t}
        /\ UNCHANGED <<active, recursive, sizes>>
    BY <1>5 DEF CloseTab
  <2>2. LiveShapes'
    BY <1>1, <2>1 DEF LiveInv, LiveShapes
  <2>3. MissedShowsAFolder'
    BY <2>1 DEF LiveInv, LiveShapes, MissedShowsAFolder
  <2>4. ASSUME NEW u \in missed' PROVE IsCarried(u)'
    <3>1. u \in missed /\ u \in Tab /\ requested'[u] = requested[u] /\ place'[u] = place[u]
      BY <2>1, <2>4 DEF LiveInv, LiveShapes, MissedShowsAFolder
    <3>2. RootsOf(u)' = RootsOf(u) /\ \A p : Remembers(p)' <=> Remembers(p)
      BY <1>1, <3>1 DEF RootsOf, OpenTabs, Remembers
    <3>3. \A p : IsWatched(p, SearchesBelow(u))' <=> IsWatched(p, SearchesBelow(u))
      BY <1>1, <2>1, <3>1 DEF IsWatched, SearchesBelow
    <3> QED
      BY <1>1, <3>1, <3>2, <3>3 DEF IsCarried, LiveInv
  <2> QED
    BY <1>2, <2>2, <2>3, <2>4 DEF LiveInv
<1>6. CASE SetScope
  <2>1. /\ recursive' = IF active \in recursive THEN recursive \ {active} ELSE recursive \cup {active}
        /\ UNCHANGED <<place, active, sizes>>
        /\ IF place[active] \in {Home} \cup Virtual
           THEN UNCHANGED <<requestedVars, missed>>
           ELSE Ask(active, place[active]) /\ missed' = missed \cup {active}
    BY <1>6 DEF SetScope
  <2>2. LiveShapes'
    BY <1>1, <2>1 DEF LiveInv, LiveShapes, Ask, requestedVars
  <2>3. MissedShowsAFolder'
    BY <2>1 DEF LiveInv, LiveShapes, MissedShowsAFolder
  <2>4. ASSUME NEW u \in missed' PROVE IsCarried(u)'
    <3>1. CASE u = active /\ place[active] \notin {Home} \cup Virtual
      <4>1. requested'[u] = "asked"
        BY <2>1, <3>1 DEF Ask, LiveInv, LiveShapes
      <4> QED
        BY <4>1 DEF IsCarried
    <3>2. CASE u # active \/ place[active] \in {Home} \cup Virtual
      <4>1. u \in missed
        BY <2>1, <2>4, <3>2
      <4>2. requested[u] = "asked" => requested'[u] = "asked"
        BY <2>1, <3>2, <4>1 DEF Ask, requestedVars, LiveInv, LiveShapes, MissedShowsAFolder
      <4>3. SearchesBelow(u) => SearchesBelow(u)'
        BY <2>1, <3>2, <4>1 DEF SearchesBelow, LiveInv, MissedShowsAFolder
      <4> QED
        BY <1>1, <2>1, <4>1, <4>2, <4>3, StaysCarried
    <3> QED
      BY <3>1, <3>2
  <2> QED
    BY <1>2, <2>2, <2>3, <2>4 DEF LiveInv
<1>7. CASE SetFolderSizes \/ (\E e \in EditKind : BeginEdit(e)) \/ FinishEdit
  <2>1. /\ sizes' \in BOOLEAN
        /\ UNCHANGED <<place, active, recursive, requested, missed>>
    BY <1>7 DEF SetFolderSizes, BeginEdit, FinishEdit, requestedVars, LiveInv, LiveShapes
  <2>2. LiveShapes'
    BY <1>1, <2>1 DEF LiveInv, LiveShapes
  <2>3. \A u \in missed : SearchesBelow(u) => SearchesBelow(u)'
    BY <2>1 DEF SearchesBelow
  <2>4. \A u \in missed' : IsCarried(u)'
    BY <1>1, <2>1, <2>3, StaysCarried
  <2> QED
    BY <1>2, <2>1, <2>2, <2>4 DEF LiveInv, MissedShowsAFolder
<1> QED
  BY <1>3, <1>4, <1>5, <1>6, <1>7 DEF LiveUser

\* A tab that waits goes on to wait, or its folder is asked for.
LEMMA TimerKeepsLive == LiveInv /\ WatcherTimer => LiveInv'
<1> SUFFICES ASSUME LiveInv, WatcherTimer PROVE LiveInv'
  OBVIOUS
<1>1. UNCHANGED <<uiVars, missed, watches>>
  BY DEF WatcherTimer, TimerSyncs, TimerWakes, TimerTakes
<1>2. \A t \in missed : t \in Tab /\ t \in OpenTabs /\ place[t] # Home
  BY DEF LiveInv, MissedShowsAFolder, OpenTabs
<1>3. \A t \in missed : /\ RootsOf(t)' = RootsOf(t)
                        /\ \A p : IsWatched(p, SearchesBelow(t))' <=> IsWatched(p, SearchesBelow(t))
  BY <1>1 DEF uiVars, RootsOf, OpenTabs, IsWatched, SearchesBelow
<1>4. MissedShowsAFolder'
  BY <1>1 DEF uiVars, LiveInv, MissedShowsAFolder
<1>5. CASE TimerSyncs
  <2>1. /\ desired' = Wanted /\ previous' = Key /\ waiting' = waiting \cap OpenTabs
        /\ UNCHANGED <<requested, dirty>>
    BY <1>5 DEF TimerSyncs, requestedVars
  <2>2. LiveShapes'
    BY <1>1, <2>1, WantedShape DEF uiVars, LiveInv, LiveShapes
  <2>3. ToldOrAboutToBe'
    <3>1. desired' # NoPaths /\ desired' = WantedAt(previous')
      BY <2>1, WantedShape, WantedAtKey DEF LiveInv
    <3> QED
      BY <3>1 DEF ToldOrAboutToBe
  <2>4. \A t \in missed' : IsCarried(t)'
    BY <1>1, <1>2, <1>3, <2>1 DEF LiveInv, IsCarried, Remembers
  <2> QED
    BY <1>4, <2>2, <2>3, <2>4 DEF LiveInv
<1>6. CASE TimerWakes
  <2>1. UNCHANGED <<requested, previous, waiting, desired, dirty>>
    BY <1>6 DEF TimerWakes, requestedVars
  <2>2. LiveShapes' /\ ToldOrAboutToBe'
    BY <1>1, <2>1, ToldStays DEF uiVars, LiveInv, LiveShapes
  <2>3. \A t \in missed' : IsCarried(t)'
    BY <1>1, <1>3, <2>1 DEF LiveInv, IsCarried, Remembers
  <2> QED
    BY <1>4, <2>2, <2>3 DEF LiveInv
<1>7. CASE TimerTakes
  <2> DEFINE concerned == waiting \cup {t \in OpenTabs : RootsOf(t) \cap dirty # {}}
             refreshed == Refreshable(concerned)
  <2>1. /\ waiting' = concerned \ refreshed
        /\ requested' = [t \in Tab |-> IF t \in refreshed /\ place[t] # Home THEN "asked"
                                                                          ELSE requested[t]]
        /\ UNCHANGED <<previous, desired>>
    BY <1>7 DEF TimerTakes, StillWaits
  <2>2. LiveShapes' /\ ToldOrAboutToBe'
    BY <1>1, <2>1, ToldStays DEF uiVars, LiveInv, LiveShapes
  <2>3. ASSUME NEW t \in missed' PROVE IsCarried(t)'
    <3>1. t \in missed /\ t \in Tab /\ t \in OpenTabs /\ place[t] # Home /\ IsCarried(t)
      BY <1>1, <1>2, <2>3 DEF LiveInv
    <3>2. CASE t \in concerned
      BY <2>1, <3>1, <3>2 DEF IsCarried
    <3>3. CASE t \notin concerned
      <4>1. \A p \in RootsOf(t) : p \notin dirty
        BY <3>1, <3>3
      <4>2. \A p \in RootsOf(t) : Remembers(p) => Remembers(p)'
        BY <1>1, <4>1 DEF Remembers
      <4>3. requested[t] = "asked" => requested'[t] = "asked"
        BY <2>1, <3>1
      <4> QED
        BY <1>3, <3>1, <3>3, <4>2, <4>3 DEF IsCarried
    <3> QED
      BY <3>2, <3>3
  <2> QED
    BY <1>4, <2>2, <2>3 DEF LiveInv
<1> QED
  BY <1>5, <1>6, <1>7 DEF WatcherTimer

\* A reading that begins carries the changes up to then; an answer carries
\* nothing.
LEMMA RequestsKeepLive ==
  ASSUME LiveInv, NEW t \in Tab, Read(t) \/ Answer(t)
  PROVE  LiveInv'
<1>1. /\ UNCHANGED <<uiVars, timerVars, desired, token, dirty, watches>>
      /\ missed' \subseteq missed
      /\ t \in missed' => requested[t] # "asked"
      /\ \/ requested' = [requested EXCEPT ![t] = "read"]
         \/ requested' = [requested EXCEPT ![t] = "none"]
  BY DEF Read, Answer
<1>2. LiveShapes' /\ MissedShowsAFolder' /\ ToldOrAboutToBe'
  BY <1>1, ToldStays DEF uiVars, timerVars, LiveInv, LiveShapes, MissedShowsAFolder
<1>3. ASSUME NEW u \in missed' PROVE IsCarried(u)'
  <2>1. u \in missed /\ (requested[u] = "asked" => requested'[u] = "asked")
    BY <1>1, <1>3 DEF LiveInv, LiveShapes, MissedShowsAFolder
  <2>2. SearchesBelow(u) => SearchesBelow(u)'
    BY <1>1 DEF uiVars, SearchesBelow
  <2> QED
    BY <1>1, <2>1, <2>2, StaysCarried DEF uiVars, timerVars
<1> QED
  BY <1>2, <1>3 DEF LiveInv

\* A folder that is watched no longer, or in another mode, is watched anew, and
\* a new registration remembers; one that is not concerned any more is not
\* watched.
LEMMA WatcherTakesKeepsLive == LiveInv /\ WatcherTakes => LiveInv'
<1> SUFFICES ASSUME LiveInv, WatcherTakes PROVE LiveInv'
  OBVIOUS
<1>1. desired' = NoPaths /\ UNCHANGED <<uiVars, requestedVars, timerVars, missed>>
  BY DEF WatcherTakes, WatcherFrame
<1>2. MissedShowsAFolder'
  BY <1>1 DEF uiVars, LiveInv, MissedShowsAFolder
<1>3. CASE desired = NoPaths
  <2>1. UNCHANGED <<watches, dirty, desired>>
    BY <1>1, <1>3 DEF WatcherTakes
  <2>2. LiveShapes' /\ ToldOrAboutToBe'
    BY <1>1, <2>1, ToldStays DEF uiVars, requestedVars, timerVars, LiveInv, LiveShapes
  <2>3. \A u \in missed' : IsCarried(u)'
    BY <1>1, <2>1, StaysCarried DEF uiVars, requestedVars, timerVars, SearchesBelow
  <2> QED
    BY <1>2, <2>2, <2>3 DEF LiveInv
<1>4. CASE desired # NoPaths
  <2>1. /\ watches' = [p \in DOMAIN desired |->
                         IF p \in DOMAIN watches /\ watches[p].deep = desired[p]
                         THEN watches[p] ELSE NewWatch(desired[p])]
        /\ dirty' = dirty \cap DOMAIN desired
    BY <1>4 DEF WatcherTakes
  <2>2. /\ DOMAIN desired \subseteq Watchable /\ desired \in [DOMAIN desired -> BOOLEAN]
        /\ DOMAIN watches \subseteq Watchable /\ watches \in [DOMAIN watches -> Watch]
    BY <1>4 DEF LiveInv, LiveShapes
  <2>3. \A d \in BOOLEAN : /\ NewWatch(d) \in Watch /\ NewWatch(d).deep = d
                           /\ NewWatch(d).handle = "none"
    BY DEF NewWatch, NoBurst, Watch, Handle, Burst
  <2>4. /\ DOMAIN watches' = DOMAIN desired
        /\ \A p \in DOMAIN desired :
             /\ watches'[p] \in Watch /\ watches'[p].deep = desired[p]
             /\ watches'[p].handle = "none" \/ (p \in DOMAIN watches /\ watches'[p] = watches[p])
    BY <2>1, <2>2, <2>3
  <2>5. LiveShapes'
    <3>1. watches' \in [DOMAIN watches' -> Watch]
      BY <2>1, <2>4
    <3> QED
      BY <1>1, <2>2, <2>4, <3>1 DEF uiVars, requestedVars, LiveInv, LiveShapes
  <2>6. ToldOrAboutToBe'
    <3>1. previous' = previous
      BY <1>1 DEF timerVars
    <3>2. WantedAt(previous)' = WantedAt(previous)
      BY <3>1 DEF WantedAt, OpenAt
    <3>3. previous = <<>> \/ desired = WantedAt(previous)
      BY <1>4 DEF LiveInv, ToldOrAboutToBe
    <3> QED
      BY <1>1, <2>4, <3>1, <3>2, <3>3 DEF ToldOrAboutToBe
  <2>7. ASSUME NEW t \in missed' PROVE IsCarried(t)'
    <3>1. t \in missed /\ IsCarried(t) /\ RootsOf(t)' = RootsOf(t)
          /\ requested' = requested /\ waiting' = waiting
          /\ SearchesBelow(t)' = SearchesBelow(t)
      BY <1>1, <2>7 DEF uiVars, requestedVars, timerVars, LiveInv, RootsOf, OpenTabs, SearchesBelow
    <3>2. SUFFICES ASSUME NEW p \in RootsOf(t), Remembers(p) \/ ~IsWatched(p, SearchesBelow(t))
                   PROVE  Remembers(p)' \/ ~IsWatched(p, SearchesBelow(t))'
      BY <3>1 DEF IsCarried
    <3>3. CASE p \notin DOMAIN desired
      BY <2>4, <3>3 DEF IsWatched
    <3>4. CASE p \in DOMAIN desired /\ watches'[p].handle = "none"
      BY <2>4, <3>4 DEF Remembers
    <3>5. CASE p \in DOMAIN desired /\ p \in DOMAIN watches /\ watches'[p] = watches[p]
      BY <2>1, <2>4, <3>1, <3>2, <3>5 DEF Remembers, IsWatched
    <3> QED
      BY <2>4, <3>3, <3>4, <3>5
  <2> QED
    BY <1>2, <2>5, <2>6, <2>7 DEF LiveInv
<1> QED
  BY <1>3, <1>4

\* What may become of a watch in one round: it stays in its mode, and either
\* remembers as before or has a burst.
LEMMA RoundOfAWatch ==
  ASSUME NEW w \in Watch, NEW r \in AfterRegistration([w EXCEPT !.burst = Older(@)]),
         NEW v \in AfterPoll(r)
  PROVE  /\ v \in Watch /\ v.deep = w.deep
         /\ w.handle # "armed" \/ w.burst.on => v.handle # "armed" \/ v.burst.on
<1> USE LiveUpdatesAssumption
<1> DEFINE o == [w EXCEPT !.burst = Older(@)]
<1>1. \A b \in Burst : /\ Older(b) \in Burst /\ (b.on => Older(b).on)
                       /\ Changed(b) \in Burst /\ Changed(b).on
  <2> TAKE b \in Burst
  <2>1. /\ [b EXCEPT !.last = 0] \in Burst
        /\ \A n, m \in Nat : [on |-> TRUE, first |-> n, last |-> m] \in Burst
        /\ b.on => [b EXCEPT !.last = 0].on
    BY DEF Burst
  <2>2. Changed(b) \in Burst /\ Changed(b).on
    BY <2>1 DEF Changed
  <2>3. Elapsed(b.first, MaxDelay) \in Nat /\ Elapsed(b.last, Quiet) \in Nat
    BY DEF Burst, Elapsed
  <2>4. \A n, m \in Nat : /\ [b EXCEPT !.first = n, !.last = m] \in Burst
                          /\ [b EXCEPT !.first = n, !.last = m].on = b.on
    BY DEF Burst
  <2>5. Older(b) \in Burst /\ (b.on => Older(b).on)
    BY <2>3, <2>4 DEF Older
  <2> QED
    BY <2>2, <2>5
<1>2. /\ o \in Watch /\ o.deep = w.deep /\ o.handle = w.handle /\ (w.burst.on => o.burst.on)
  BY <1>1 DEF Watch
<1> HIDE DEF o
<1>3. /\ r \in Watch /\ r.deep = w.deep
      /\ \/ r.handle = w.handle /\ (w.burst.on => r.burst.on)
         \/ r.burst.on
  <2>1. r \in AfterRegistration(o)
    BY DEF o
  <2>2. CASE r = o
    BY <1>2, <2>2
  <2>3. CASE o.retry > 0 /\ r = [o EXCEPT !.retry = @ - 1]
    BY <1>2, <2>3 DEF Watch
  <2>4. CASE \E h \in {"none", "armed"} : r = Registered(o, h)
    BY <1>1, <1>2, <2>4 DEF Registered, Watch, Handle
  <2> QED
    BY <2>1, <2>2, <2>3, <2>4 DEF AfterRegistration
<1>4. CASE v = r
  BY <1>2, <1>3, <1>4
<1>5. CASE \E h \in {"none", "armed"} : \/ v = [r EXCEPT !.handle = h, !.burst = Changed(@)]
                                        \/ v = [r EXCEPT !.handle = h, !.retry = Retry, !.burst = Changed(@)]
  <2>1. v \in Watch /\ v.deep = r.deep /\ v.burst.on
    BY <1>1, <1>3, <1>5 DEF Watch, Handle
  <2> QED
    BY <1>3, <2>1
<1>6. r.handle \in Handle
  BY <1>3 DEF Watch
<1> QED
  BY <1>4, <1>5, <1>6 DEF AfterPoll, Handle

\* A burst that ends makes its folder dirty.
LEMMA WatcherChecksKeepsLive ==
  ASSUME LiveInv, NEW p \in Watchable, WatcherChecks(p)
  PROVE  LiveInv'
<1>1. /\ p \in DOMAIN watches /\ UNCHANGED <<desired, token>>
      /\ UNCHANGED <<uiVars, requestedVars, timerVars, missed>>
  BY DEF WatcherChecks, WatcherFrame
<1>2. PICK r \in AfterRegistration([watches[p] EXCEPT !.burst = Older(@)]) :
      \E w \in AfterPoll(r) :
        IF IsReady(w.burst)
        THEN /\ dirty' = dirty \cup {p}
             /\ watches' = [watches EXCEPT ![p] = [w EXCEPT !.burst = NoBurst]]
        ELSE /\ watches' = [watches EXCEPT ![p] = w]
             /\ UNCHANGED dirty
  BY DEF WatcherChecks
<1>3. PICK w \in AfterPoll(r) :
        IF IsReady(w.burst)
        THEN /\ dirty' = dirty \cup {p}
             /\ watches' = [watches EXCEPT ![p] = [w EXCEPT !.burst = NoBurst]]
        ELSE /\ watches' = [watches EXCEPT ![p] = w]
             /\ UNCHANGED dirty
  BY <1>2
<1>4. watches[p] \in Watch /\ watches \in [DOMAIN watches -> Watch] /\ DOMAIN watches \subseteq Watchable
  BY <1>1 DEF LiveInv, LiveShapes
<1>5. /\ w \in Watch /\ w.deep = watches[p].deep
      /\ watches[p].handle # "armed" \/ watches[p].burst.on => w.handle # "armed" \/ w.burst.on
  BY <1>2, <1>3, <1>4, RoundOfAWatch
<1>6. \A b \in Burst : [w EXCEPT !.burst = b] \in Watch /\ [w EXCEPT !.burst = b].deep = w.deep
  BY <1>5 DEF Watch
<1>7. NoBurst \in Burst
  BY DEF NoBurst, Burst
<1>8. /\ DOMAIN watches' = DOMAIN watches /\ watches' \in [DOMAIN watches -> Watch]
      /\ \A q \in DOMAIN watches : /\ watches'[q].deep = watches[q].deep
                                   /\ q # p => watches'[q] = watches[q]
      /\ dirty \subseteq dirty'
      /\ p \in dirty' \/ watches'[p] = w
  BY <1>1, <1>3, <1>4, <1>5, <1>6, <1>7
<1>9. \A q : Remembers(q) => Remembers(q)'
  <2> TAKE q
  <2>1. CASE q \in dirty \/ (q = p /\ p \in dirty')
    BY <1>8, <2>1 DEF Remembers
  <2>2. CASE q = p /\ watches'[p] = w
    BY <1>1, <1>5, <1>8, <2>2 DEF Remembers
  <2>3. CASE q # p /\ q \notin dirty
    BY <1>8, <2>3, Zenon DEF Remembers
  <2> QED
    BY <1>8, <2>1, <2>2, <2>3
<1>10. \A q, d : IsWatched(q, d)' <=> IsWatched(q, d)
  BY <1>8, Zenon DEF IsWatched
<1>11. LiveShapes' /\ MissedShowsAFolder'
  BY <1>1, <1>4, <1>8 DEF uiVars, requestedVars, LiveInv, LiveShapes, MissedShowsAFolder
<1>12. ToldOrAboutToBe'
  <2>1. previous' = previous /\ desired' = desired
    BY <1>1 DEF timerVars
  <2>2. WantedAt(previous)' = WantedAt(previous)
    BY <2>1 DEF WantedAt, OpenAt
  <2> QED
    BY <1>8, <2>1, <2>2 DEF LiveInv, ToldOrAboutToBe
<1>13. ASSUME NEW t \in missed' PROVE IsCarried(t)'
  <2>1. /\ t \in missed /\ IsCarried(t) /\ RootsOf(t)' = RootsOf(t)
        /\ requested' = requested /\ waiting' = waiting
        /\ SearchesBelow(t)' = SearchesBelow(t)
    BY <1>1, <1>13 DEF uiVars, requestedVars, timerVars, LiveInv, RootsOf, OpenTabs, SearchesBelow
  <2> QED
    BY <1>9, <1>10, <2>1 DEF IsCarried
<1> QED
  BY <1>11, <1>12, <1>13 DEF LiveInv

\* An armed watch of the right mode is signaled; any other remembers already.
LEMMA DiskKeepsLive ==
  ASSUME LiveInv, NEW p \in Watchable, NEW below \in BOOLEAN, DiskChanges(p, below)
  PROVE  LiveInv'
<1> USE LiveUpdatesAssumption
<1> DEFINE concerned == {t \in OpenTabs : p \in RootsOf(t) /\ (below => SearchesBelow(t))}
           isSignaled(q) == q = p /\ watches[q].handle = "armed" /\ (below => watches[q].deep)
<1>1. /\ missed' = missed \cup concerned
      /\ watches' = [q \in DOMAIN watches |->
                       IF isSignaled(q) THEN [watches[q] EXCEPT !.handle = "signaled"] ELSE watches[q]]
      /\ UNCHANGED <<uiVars, requestedVars, timerVars, desired, token, dirty>>
  BY DEF DiskChanges
<1>2. watches \in [DOMAIN watches -> Watch] /\ DOMAIN watches \subseteq Watchable
  BY DEF LiveInv, LiveShapes
<1>3. \A w \in Watch : /\ [w EXCEPT !.handle = "signaled"] \in Watch
                       /\ [w EXCEPT !.handle = "signaled"].deep = w.deep
                       /\ [w EXCEPT !.handle = "signaled"].handle = "signaled"
  BY DEF Watch, Handle
<1> HIDE DEF isSignaled
<1>4. /\ DOMAIN watches' = DOMAIN watches /\ watches' \in [DOMAIN watches -> Watch]
      /\ \A q \in DOMAIN watches : /\ watches'[q].deep = watches[q].deep
                                   /\ ~isSignaled(q) => watches'[q] = watches[q]
                                   /\ isSignaled(q) => watches'[q].handle = "signaled"
  BY <1>1, <1>2, <1>3
<1>5. \A q : Remembers(q) => Remembers(q)'
  BY <1>1, <1>4 DEF Remembers
<1>6. \A q, d : IsWatched(q, d)' <=> IsWatched(q, d)
  BY <1>4, Zenon DEF IsWatched
<1>7. LiveShapes'
  BY <1>1, <1>2, <1>4 DEF uiVars, requestedVars, LiveInv, LiveShapes
<1>8. MissedShowsAFolder'
  BY <1>1 DEF uiVars, LiveInv, LiveShapes, MissedShowsAFolder, OpenTabs, RootsOf
<1>9. ToldOrAboutToBe'
  <2>1. previous' = previous /\ desired' = desired
    BY <1>1 DEF timerVars
  <2>2. WantedAt(previous)' = WantedAt(previous)
    BY <2>1 DEF WantedAt, OpenAt
  <2> QED
    BY <1>4, <2>1, <2>2 DEF LiveInv, ToldOrAboutToBe
<1>10. \A t : /\ RootsOf(t)' = RootsOf(t) /\ requested' = requested /\ waiting' = waiting
              /\ SearchesBelow(t)' = SearchesBelow(t)
  BY <1>1 DEF uiVars, requestedVars, timerVars, RootsOf, OpenTabs, SearchesBelow
<1>11. \A t \in missed : IsCarried(t)'
  BY <1>5, <1>6, <1>10 DEF LiveInv, IsCarried
<1>12. ASSUME NEW t \in concerned PROVE IsCarried(t)'
  <2>1. p \in RootsOf(t)' /\ (below => SearchesBelow(t)')
    BY <1>10, <1>12
  <2>2. CASE p \notin DOMAIN watches \/ (below /\ ~watches[p].deep)
    BY <1>4, <2>1, <2>2 DEF IsCarried, IsWatched
  <2>3. CASE p \in DOMAIN watches /\ (below => watches[p].deep)
    <3>1. watches'[p].handle # "armed"
      BY <1>4, <2>3 DEF isSignaled
    <3> QED
      BY <1>4, <2>1, <2>3, <3>1 DEF IsCarried, Remembers
  <2> QED
    BY <2>2, <2>3
<1> QED
  BY <1>1, <1>7, <1>8, <1>9, <1>11, <1>12 DEF LiveInv

LEMMA LiveStep == LiveInv /\ [LiveNext]_liveVars => LiveInv'
<1> SUFFICES ASSUME LiveInv, [LiveNext]_liveVars PROVE LiveInv'
  OBVIOUS
<1>1. CASE LiveNext
  BY <1>1, UserKeepsLive, TimerKeepsLive, RequestsKeepLive, WatcherTakesKeepsLive,
     WatcherChecksKeepsLive, DiskKeepsLive DEF LiveNext
<1>2. CASE UNCHANGED liveVars
  <2>1. UNCHANGED <<uiVars, requestedVars, timerVars, desired, token, dirty, watches, missed>>
    BY <1>2 DEF liveVars
  <2>2. LiveShapes' /\ MissedShowsAFolder' /\ ToldOrAboutToBe'
    BY <2>1, ToldStays
    DEF uiVars, requestedVars, timerVars, LiveInv, LiveShapes, MissedShowsAFolder
  <2>3. \A u \in missed' : IsCarried(u)'
    BY <2>1, StaysCarried DEF uiVars, requestedVars, timerVars, SearchesBelow
  <2> QED
    BY <2>2, <2>3 DEF LiveInv
<1> QED
  BY <1>1, <1>2

\* The invariant of the watcher and the timer of the window.
THEOREM LiveInvariant == LiveSpec => []LiveInv
<1> QED
  BY LiveStart, LiveStep, PTL DEF LiveSpec

\* No change of a folder that a tab shows is lost between the disk, the watcher,
\* the timer and the request for a refresh.
THEOREM ChangesAreCarried == LiveSpec => []ChangeIsCarried
<1>1. LiveInv => ChangeIsCarried
  <2> SUFFICES ASSUME LiveInv, NEW t \in missed
               PROVE  \/ requested[t] = "asked" \/ t \in waiting
                      \/ \E p \in RootsOf(t) :
                           \/ Remembers(p)
                           \/ /\ ~IsWatched(p, SearchesBelow(t))
                              /\ WillBeWatched(p, SearchesBelow(t))
    BY DEF ChangeIsCarried
  <2>1. IsCarried(t) /\ t \in OpenTabs
    BY DEF LiveInv, MissedShowsAFolder, OpenTabs
  <2> QED
    BY <2>1, WatchedOrToBe DEF IsCarried
<1> QED
  BY <1>1, LiveInvariant, PTL

------------------------------------------------------------------------------
\* Thumbnails.

PictureJob == [left: SUBSET Picture, fresh: BOOLEAN, of: Reading]

Work == [left: SUBSET Picture, fresh: BOOLEAN, of: Reading, loading: SUBSET Picture]

Result == [picture: Picture, fresh: BOOLEAN, of: Reading]

\* Shapes.
ThumbnailsTypeOK ==
  /\ reading \in Reading \cup {NotRead} /\ visible \in SUBSET Picture
  /\ pendingPictures \in SUBSET Picture
  /\ pictureRequest \in PictureJob \cup {NoPictures} /\ painter \in Work \cup {NoPictures}
  /\ pictureResults \in Seq(Result)

\* A cache holds each of its pictures once, in the order of their arrival.
IsCache(c) ==
  /\ c = [context |-> c.context, entries |-> c.entries, order |-> c.order]
  /\ c.context \in Reading \cup {NotRead}
  /\ c.order \in Seq(Picture) /\ Len(c.order) <= CacheLimit
  /\ \A i, j \in DOMAIN c.order : i < j => c.order[i] # c.order[j]
  /\ c.entries = [p \in {c.order[i] : i \in DOMAIN c.order} |-> c.context]

\* What is on its way and not obsolete.
Asked   == IF pictureRequest # NoPictures /\ pictureRequest.fresh THEN pictureRequest.left ELSE {}
Painted == IF painter # NoPictures /\ painter.fresh THEN painter.left \cup painter.loading ELSE {}
Sent    == {pictureResults[i].picture : i \in {j \in DOMAIN pictureResults : Useful(pictureResults[j])}}

\* Each picture on its way is there once, is pending, not cached, and of the
\* reading of the cache.
OnTheWayOnce ==
  /\ Asked \cup Painted \cup Sent \subseteq pendingPictures
  /\ Asked \cap Painted = {} /\ Asked \cap Sent = {} /\ Painted \cap Sent = {}
  /\ painter # NoPictures => painter.left \cap painter.loading = {}
  /\ \A i, j \in DOMAIN pictureResults :
       i < j /\ Useful(pictureResults[i]) /\ Useful(pictureResults[j]) =>
         pictureResults[i].picture # pictureResults[j].picture
  /\ pendingPictures \cap DOMAIN cache.entries = {}

FreshIsOfTheCache ==
  /\ pictureRequest # NoPictures /\ pictureRequest.fresh => pictureRequest.of = cache.context
  /\ painter # NoPictures /\ painter.fresh => painter.of = cache.context
  /\ \A i \in DOMAIN pictureResults :
       Useful(pictureResults[i]) => pictureResults[i].of = cache.context

ThumbnailsInv == ThumbnailsTypeOK /\ IsCache(cache) /\ OnTheWayOnce /\ FreshIsOfTheCache

\* The cache of a reading with the pictures of a list.
CacheOf(context, list) ==
  [context |-> context, entries |-> [p \in {list[i] : i \in DOMAIN list} |-> context],
   order |-> list]

Lists ==
  {l \in Seq(Picture) : /\ Len(l) <= CacheLimit
                       /\ \A i, j \in DOMAIN l : i < j => l[i] # l[j]}

Caches == {CacheOf(context, list) : context \in Reading \cup {NotRead}, list \in Lists}

LEMMA CachesAreCaches == \A c : c \in Caches <=> IsCache(c)
<1> SUFFICES ASSUME NEW c PROVE c \in Caches <=> IsCache(c)
  OBVIOUS
<1>1. ASSUME IsCache(c) PROVE c \in Caches
  <2>1. c = CacheOf(c.context, c.order)
    BY <1>1 DEF IsCache, CacheOf
  <2> QED
    BY <1>1, <2>1 DEF IsCache, Caches, Lists
<1>2. ASSUME c \in Caches PROVE IsCache(c)
  <2>1. PICK context \in Reading \cup {NotRead}, list \in Lists : c = CacheOf(context, list)
    BY <1>2 DEF Caches
  <2>2. /\ c.context = context /\ c.order = list
        /\ c.entries = [p \in {list[i] : i \in DOMAIN list} |-> context]
        /\ c = [context |-> c.context, entries |-> c.entries, order |-> c.order]
    BY <2>1 DEF CacheOf
  <2> QED
    BY <2>1, <2>2 DEF IsCache, Lists
<1> QED
  BY <1>1, <1>2

\* The number of pictures in a cache is the length of its order.
LEMMA CacheSize ==
  ASSUME NEW c, IsCache(c)
  PROVE  /\ Cardinality(DOMAIN c.entries) = Len(c.order)
         /\ DOMAIN c.entries = {c.order[i] : i \in DOMAIN c.order}
<1> DEFINE list == c.order
           D == {list[i] : i \in DOMAIN list}
<1>1. /\ list \in Seq(Picture) /\ DOMAIN list = 1..Len(list) /\ Len(list) \in Nat
      /\ \A i, j \in DOMAIN list : i < j => list[i] # list[j]
      /\ DOMAIN c.entries = D
  BY DEF IsCache
<1> HIDE DEF list
<1>2. \A i, j \in DOMAIN list : list[i] = list[j] => i = j
  BY <1>1
<1>3. list \in [1..Len(list) -> D]
  BY <1>1
<1>4. list \in Bijection(1..Len(list), D)
  BY <1>1, <1>2, <1>3 DEF Bijection, Injection, Surjection, IsInjective
<1>5. IsFiniteSet(1..Len(list)) /\ Cardinality(1..Len(list)) = Len(list)
  BY <1>1, FS_Interval
<1>6. Cardinality(D) = Cardinality(1..Len(list))
  BY <1>4, <1>5, FS_Bijection DEF ExistsBijection
<1> QED
  BY <1>1, <1>5, <1>6 DEF list

LEMMA EvictedKeeps ==
  ASSUME NEW c, IsCache(c), Len(c.order) > 0
  PROVE  /\ IsCache(Evicted(c)) /\ Evicted(c).context = c.context
         /\ Len(Evicted(c).order) = Len(c.order) - 1
         /\ DOMAIN Evicted(c).entries \subseteq DOMAIN c.entries
<1> DEFINE list == c.order
           rest == Tail(list)
           oldest == Head(list)
           E == [p \in DOMAIN c.entries \ {oldest} |-> c.entries[p]]
<1>1. /\ c = [context |-> c.context, entries |-> c.entries, order |-> list]
      /\ c.context \in Reading \cup {NotRead}
      /\ list \in Seq(Picture) /\ DOMAIN list = 1..Len(list) /\ Len(list) \in Nat
      /\ Len(list) <= CacheLimit
      /\ \A i, j \in DOMAIN list : i < j => list[i] # list[j]
      /\ c.entries = [p \in {list[i] : i \in DOMAIN list} |-> c.context]
  BY DEF IsCache
<1>2. Evicted(c) = [context |-> c.context, entries |-> E, order |-> rest]
  <2>1. Evicted(c) = [c EXCEPT !.entries = E, !.order = rest]
    BY DEF Evicted
  <2> HIDE DEF E, rest, list
  <2> QED
    BY <1>1, <2>1
<1>3. /\ rest \in Seq(Picture) /\ Len(rest) = Len(list) - 1 /\ DOMAIN rest = 1..(Len(list) - 1)
      /\ \A i \in DOMAIN rest : rest[i] = list[i + 1] /\ i + 1 \in DOMAIN list
      /\ oldest = list[1] /\ 1 \in DOMAIN list
  BY <1>1, HeadTailProperties
<1> HIDE DEF rest, oldest
<1>4. \A i, j \in DOMAIN rest : i < j => rest[i] # rest[j]
  <2> TAKE i, j \in DOMAIN rest
  <2> HAVE i < j
  <2>1. i + 1 < j + 1 /\ i + 1 \in DOMAIN list /\ j + 1 \in DOMAIN list
    BY <1>1, <1>3
  <2> QED
    BY <1>1, <1>3, <2>1
<1>5. {list[i] : i \in DOMAIN list} \ {oldest} = {rest[i] : i \in DOMAIN rest}
  <2>1. ASSUME NEW i \in DOMAIN list, list[i] # oldest
        PROVE  \E j \in DOMAIN rest : list[i] = rest[j]
    <3>1. i # 1 /\ i - 1 \in DOMAIN rest /\ (i - 1) + 1 = i
      BY <1>1, <1>3, <2>1
    <3> QED
      BY <1>3, <3>1
  <2>2. ASSUME NEW j \in DOMAIN rest
        PROVE  rest[j] # oldest /\ \E i \in DOMAIN list : rest[j] = list[i]
    <3>1. 1 < j + 1 /\ j + 1 \in DOMAIN list
      BY <1>3
    <3> QED
      BY <1>1, <1>3, <3>1
  <2> QED
    BY <2>1, <2>2
<1>6. E = [p \in {rest[i] : i \in DOMAIN rest} |-> c.context]
  BY <1>1, <1>5
<1>7. /\ Evicted(c).context = c.context /\ Evicted(c).order = rest /\ Evicted(c).entries = E
      /\ Evicted(c) = [context |-> Evicted(c).context, entries |-> Evicted(c).entries,
                       order |-> Evicted(c).order]
  BY <1>2
<1>8. DOMAIN E \subseteq DOMAIN c.entries
  OBVIOUS
<1> HIDE DEF E
<1>9. Len(rest) <= CacheLimit
  BY <1>1, <1>3, ThumbnailsAssumption
<1> QED
  BY <1>1, <1>3, <1>4, <1>6, <1>7, <1>8, <1>9 DEF IsCache

\* A picture that comes is cached; the oldest one makes room for it.
LEMMA CachedKeeps ==
  ASSUME NEW c, IsCache(c), NEW result, result.picture \in Picture,
         result.of = c.context, result.picture \notin DOMAIN c.entries
  PROVE  /\ IsCache(Cached(c, result)) /\ Cached(c, result).context = c.context
         /\ DOMAIN Cached(c, result).entries \subseteq DOMAIN c.entries \cup {result.picture}
<1> USE ThumbnailsAssumption
<1> DEFINE room == IF Cardinality(DOMAIN c.entries) >= CacheLimit THEN Evicted(c) ELSE c
           picture == result.picture
           list == room.order
           longer == Append(list, picture)
           E == [p \in DOMAIN room.entries \cup {picture} |->
                   IF p = picture THEN result.of ELSE room.entries[p]]
<1>1. Len(c.order) \in Nat /\ Len(c.order) <= CacheLimit
  BY DEF IsCache
<1>2. /\ IsCache(room) /\ room.context = c.context /\ Len(room.order) < CacheLimit
      /\ DOMAIN room.entries \subseteq DOMAIN c.entries
  <2>1. CASE Cardinality(DOMAIN c.entries) >= CacheLimit
    BY <1>1, <2>1, CacheSize, EvictedKeeps
  <2>2. CASE ~(Cardinality(DOMAIN c.entries) >= CacheLimit)
    BY <1>1, <2>2, CacheSize
  <2> QED
    BY <2>1, <2>2
<1>3. Cached(c, result) = [room EXCEPT !.order = Append(@, picture), !.entries = E]
  BY DEF Cached
<1> HIDE DEF room
<1>4. /\ room = [context |-> room.context, entries |-> room.entries, order |-> list]
      /\ room.context \in Reading \cup {NotRead}
      /\ list \in Seq(Picture) /\ DOMAIN list = 1..Len(list) /\ Len(list) \in Nat
      /\ \A i, j \in DOMAIN list : i < j => list[i] # list[j]
      /\ room.entries = [p \in {list[i] : i \in DOMAIN list} |-> room.context]
  BY <1>2 DEF IsCache
<1>5. Cached(c, result) = [context |-> room.context, entries |-> E, order |-> longer]
  BY <1>3, <1>4
<1>6. picture \in Picture /\ \A i \in DOMAIN list : list[i] # picture
  BY <1>2, <1>4
<1> HIDE DEF list
<1>7. /\ longer \in Seq(Picture) /\ Len(longer) = Len(list) + 1
      /\ DOMAIN longer = 1..(Len(list) + 1)
      /\ \A i \in 1..Len(list) : longer[i] = list[i]
      /\ longer[Len(list) + 1] = picture
      /\ \A i \in DOMAIN longer : i \in DOMAIN list \/ i = Len(list) + 1
  BY <1>4, <1>6, AppendProperties
<1> HIDE DEF longer
<1>8. \A i, j \in DOMAIN longer : i < j => longer[i] # longer[j]
  <2> TAKE i, j \in DOMAIN longer
  <2> HAVE i < j
  <2>1. i \in DOMAIN list
    BY <1>4, <1>7
  <2> QED
    BY <1>4, <1>6, <1>7, <2>1
<1>9. E = [p \in {longer[i] : i \in DOMAIN longer} |-> room.context]
  <2>1. {longer[i] : i \in DOMAIN longer} = DOMAIN room.entries \cup {picture}
    BY <1>4, <1>7
  <2>2. \A p \in DOMAIN room.entries : room.entries[p] = room.context
    BY <1>4
  <2>3. result.of = room.context
    BY <1>2
  <2> QED
    BY <2>1, <2>2, <2>3
<1>10. /\ Cached(c, result).context = room.context /\ Cached(c, result).order = longer
       /\ Cached(c, result).entries = E
       /\ Cached(c, result) = [context |-> Cached(c, result).context,
                               entries |-> Cached(c, result).entries,
                               order |-> Cached(c, result).order]
  BY <1>5
<1>11. DOMAIN E \subseteq DOMAIN c.entries \cup {picture}
  BY <1>2
<1>12. Len(longer) <= CacheLimit
  BY <1>2, <1>4, <1>7 DEF list
<1> DEFINE k == Cached(c, result)
<1> HIDE DEF E
<1>13. /\ k.context = room.context /\ k.order = longer /\ k.entries = E
       /\ k = [context |-> k.context, entries |-> k.entries, order |-> k.order]
  BY <1>10
<1> HIDE DEF k
<1>14. IsCache(k)
  BY <1>4, <1>7, <1>8, <1>9, <1>12, <1>13 DEF IsCache
<1> QED
  BY <1>2, <1>11, <1>13, <1>14 DEF k

\* What comes may be cached: it is of the reading of the cache, not in it, and
\* comes once.
MayCome(c, results) ==
  /\ results \in Seq(Result)
  /\ \A i \in DOMAIN results : Useful(results[i]) =>
       results[i].of = c.context /\ results[i].picture \notin DOMAIN c.entries
  /\ \A i, j \in DOMAIN results :
       i < j /\ Useful(results[i]) /\ Useful(results[j]) => results[i].picture # results[j].picture

\* The cache after some of the results.
IsAfter(i, d, c, results) ==
  /\ IsCache(d) /\ d.context = c.context
  /\ \A p \in DOMAIN d.entries :
       \/ p \in DOMAIN c.entries
       \/ \E j \in 1..i : Useful(results[j]) /\ results[j].picture = p

After(d, result) == IF Useful(result) THEN Cached(d, result) ELSE d

LEMMA AfterOneMore ==
  ASSUME NEW c, NEW results, MayCome(c, results), NEW i \in 1..Len(results),
         NEW d, IsAfter(i - 1, d, c, results)
  PROVE  IsAfter(i, After(d, results[i]), c, results)
<1>1. /\ results \in Seq(Result) /\ DOMAIN results = 1..Len(results) /\ Len(results) \in Nat
      /\ results[i] \in Result
  BY DEF MayCome
<1>2. 1..(i - 1) \subseteq 1..i /\ i \in 1..i /\ \A j \in 1..(i - 1) : j < i /\ j \in DOMAIN results
  BY <1>1
<1>3. CASE ~Useful(results[i])
  <2>1. After(d, results[i]) = d
    BY <1>3 DEF After
  <2> QED
    BY <1>2, <2>1 DEF IsAfter
<1>4. CASE Useful(results[i])
  <2>1. /\ results[i].picture \in Picture /\ results[i].of = d.context
        /\ results[i].picture \notin DOMAIN c.entries
    BY <1>1, <1>4 DEF Result, MayCome, IsAfter
  <2>2. \A j \in 1..(i - 1) : Useful(results[j]) => results[j].picture # results[i].picture
    BY <1>1, <1>2, <1>4 DEF MayCome
  <2>3. results[i].picture \notin DOMAIN d.entries
    BY <2>1, <2>2 DEF IsAfter
  <2>4. /\ After(d, results[i]) = Cached(d, results[i])
        /\ IsCache(Cached(d, results[i])) /\ Cached(d, results[i]).context = d.context
        /\ DOMAIN Cached(d, results[i]).entries \subseteq DOMAIN d.entries \cup {results[i].picture}
    BY <1>4, <2>1, <2>3, CachedKeeps DEF After, IsAfter
  <2> QED
    BY <1>2, <1>4, <2>4 DEF IsAfter
<1> QED
  BY <1>3, <1>4

\* All results, one after the other.
LEMMA ReceivedKeeps ==
  ASSUME NEW c, IsCache(c), NEW results, MayCome(c, results)
  PROVE  IsAfter(Len(results), Received(c, results), c, results)
<1> DEFINE n == Len(results)
           Is(f) == f = [i \in 0..n |-> IF i = 0 THEN c
                                       ELSE IF Useful(results[i]) THEN Cached(f[i - 1], results[i])
                                                                  ELSE f[i - 1]]
           step == [i \in 1..n |-> [d \in Caches |->
                      IF After(d, results[i]) \in Caches THEN After(d, results[i]) ELSE d]]
<1>1. n \in Nat /\ n = Len(results)
  BY DEF MayCome
<1>2. IsAfter(0, c, c, results)
  BY DEF IsAfter
<1>3. step \in Steps(n, Caches)
  BY DEF Steps
<1>4. \A i \in 1..n : \A d \in Caches :
        step[i][d] = IF After(d, results[i]) \in Caches THEN After(d, results[i]) ELSE d
  OBVIOUS
<1>5. c \in Caches
  BY CachesAreCaches
<1> HIDE DEF n, step
<1>6. PICK f \in [0..n -> Caches] : f[0] = c /\ \A i \in 1..n : f[i] = step[i][f[i - 1]]
  BY <1>1, <1>3, <1>5, StepsExist
\* Whatever is computed step by step is a cache at every step.
<1>7. ASSUME NEW g, g[0] = c,
             \A i \in 1..n : IsAfter(i - 1, g[i - 1], c, results) => g[i] = After(g[i - 1], results[i])
      PROVE  \A i \in 0..n : IsAfter(i, g[i], c, results)
  <2> DEFINE Good == {i \in 0..n : IsAfter(i, g[i], c, results)}
  <2>1. 0 \in Good
    BY <1>1, <1>2, <1>7
  <2>2. \A i \in 0..n : i < n /\ i \in Good => i + 1 \in Good
    <3> TAKE i \in 0..n
    <3> HAVE i < n /\ i \in Good
    <3>1. i + 1 \in 1..n /\ (i + 1) - 1 = i /\ i + 1 \in 0..n
      BY <1>1
    <3>2. g[i + 1] = After(g[i], results[i + 1])
      BY <1>7, <3>1
    <3>3. IsAfter(i + 1, After(g[i], results[i + 1]), c, results)
      BY <1>1, <3>1, AfterOneMore
    <3> QED
      BY <3>1, <3>2, <3>3
  <2>3. 0..n \subseteq Good
    <3> HIDE DEF Good
    <3> QED
      BY <1>1, <2>1, <2>2, UpTo
  <2> QED
    BY <2>3
<1>8. \A i \in 1..n : IsAfter(i - 1, f[i - 1], c, results) => f[i] = After(f[i - 1], results[i])
  <2> TAKE i \in 1..n
  <2> HAVE IsAfter(i - 1, f[i - 1], c, results)
  <2>1. After(f[i - 1], results[i]) \in Caches
    BY <1>1, AfterOneMore, CachesAreCaches DEF IsAfter
  <2>2. i - 1 \in 0..n
    BY <1>1
  <2> QED
    BY <1>4, <1>6, <2>1, <2>2
<1>9. Is(f)
  <2>1. \A i \in 0..n : IsAfter(i, f[i], c, results)
    BY <1>6, <1>7, <1>8
  <2>2. \A i \in 0..n : f[i] = IF i = 0 THEN c
                              ELSE IF Useful(results[i]) THEN Cached(f[i - 1], results[i])
                                                         ELSE f[i - 1]
    <3> TAKE i \in 0..n
    <3>1. CASE i = 0
      BY <1>6, <3>1
    <3>2. CASE i # 0
      <4>1. i \in 1..n /\ i - 1 \in 0..n
        BY <1>1, <3>2
      <4> QED
        BY <1>8, <2>1, <3>2, <4>1 DEF After
    <3> QED
      BY <3>1, <3>2
  <2>3. f = [i \in 0..n |-> f[i]]
    BY <1>6
  <2> QED
    BY <2>2, <2>3
<1> DEFINE upTo == CHOOSE g : Is(g)
<1>10. Is(upTo)
  <2> HIDE DEF Is
  <2> QED
    BY <1>9
<1>11. Received(c, results) = upTo[n]
  BY DEF Received, n
<1> HIDE DEF upTo
<1>12. upTo[0] = c /\ \A i \in 1..n : upTo[i] = After(upTo[i - 1], results[i])
  <2>1. 0 \in 0..n /\ \A i \in 1..n : i \in 0..n /\ i # 0
    BY <1>1
  <2> QED
    BY <1>10, <2>1 DEF After
<1>13. \A i \in 0..n : IsAfter(i, upTo[i], c, results)
  BY <1>7, <1>12
<1> QED
  BY <1>1, <1>11, <1>13

LEMMA ThumbnailsStart == ThumbnailsInit => ThumbnailsInv
<1> SUFFICES ASSUME ThumbnailsInit PROVE ThumbnailsInv
  OBVIOUS
<1> USE ThumbnailsAssumption
<1>1. pictureResults = <<>> /\ pictureResults \in Seq(Result) /\ DOMAIN pictureResults = {}
  BY DEF ThumbnailsInit
<1>2. ThumbnailsTypeOK
  BY <1>1 DEF ThumbnailsInit, ThumbnailsTypeOK
<1>3. cache = [context |-> NotRead, entries |-> <<>>, order |-> <<>>]
  BY DEF ThumbnailsInit, EmptyCache
<1>4. IsCache(cache) /\ DOMAIN cache.entries = {}
  <2> DEFINE nothing == [p \in {} |-> NotRead]
  <2>1. nothing = <<>>
    OBVIOUS
  <2>2. <<>> \in Seq(Picture) /\ Len(<<>>) = 0 /\ DOMAIN <<>> = {}
    OBVIOUS
  <2>3. {cache.order[i] : i \in DOMAIN cache.order} = {}
    BY <1>3, <2>2
  <2> QED
    BY <1>3, <2>1, <2>2, <2>3 DEF IsCache
<1>5. OnTheWayOnce /\ FreshIsOfTheCache
  BY <1>1, <1>4 DEF ThumbnailsInit, OnTheWayOnce, FreshIsOfTheCache, Asked, Painted, Sent
<1> QED
  BY <1>2, <1>4, <1>5 DEF ThumbnailsInv

LEMMA TurnKeeps ==
  ASSUME ThumbnailsInv, NEW context \in Reading \cup {NotRead}, NEW S \in Views, Turn(context, S)
  PROVE  ThumbnailsInv'
<1>1. /\ reading' = context /\ visible' = S
      /\ UNCHANGED <<cache, pendingPictures, pictureRequest, painter, pictureResults>>
  BY DEF Turn
<1>2. ThumbnailsTypeOK'
  BY <1>1 DEF ThumbnailsInv, ThumbnailsTypeOK, Views
<1>3. IsCache(cache)' /\ OnTheWayOnce' /\ FreshIsOfTheCache'
  BY <1>1 DEF ThumbnailsInv, IsCache, OnTheWayOnce, FreshIsOfTheCache, Asked, Painted, Sent
<1> QED
  BY <1>2, <1>3 DEF ThumbnailsInv

\* The worker takes a request, then its pictures one by one, and sends them:
\* each moves on and stays the only one of its kind.
LEMMA PainterKeeps == ThumbnailsInv /\ Painter => ThumbnailsInv'
<1> SUFFICES ASSUME ThumbnailsInv, Painter PROVE ThumbnailsInv'
  OBVIOUS
<1>1. UNCHANGED <<reading, visible, cache, pendingPictures>>
  BY DEF Painter, PainterTakes, PainterLoads, PainterSends, PainterFrame
<1>2. IsCache(cache)'
  BY <1>1 DEF ThumbnailsInv, IsCache
<1>3. CASE PainterTakes
  <2>1. /\ painter = NoPictures /\ pictureRequest # NoPictures /\ pictureRequest \in PictureJob
        /\ painter' = [left |-> pictureRequest.left, of |-> pictureRequest.of,
                       fresh |-> pictureRequest.fresh, loading |-> {}]
        /\ pictureRequest' = NoPictures /\ pictureResults' = pictureResults
    BY <1>3 DEF PainterTakes, ThumbnailsInv, ThumbnailsTypeOK
  <2>2. /\ painter' \in Work /\ painter'.left = pictureRequest.left /\ painter'.loading = {}
        /\ painter'.of = pictureRequest.of
        /\ painter'.fresh = pictureRequest.fresh
    BY <2>1 DEF PictureJob, Work
  <2>3. ThumbnailsTypeOK'
    BY <1>1, <2>1, <2>2 DEF ThumbnailsInv, ThumbnailsTypeOK
  <2>4. Asked' = {} /\ Painted = {} /\ Painted' \subseteq Asked /\ Sent' = Sent
    BY <2>1, <2>2, Zenon DEF Asked, Painted, Sent
  <2>5. OnTheWayOnce'
    BY <1>1, <2>1, <2>2, <2>4 DEF ThumbnailsInv, OnTheWayOnce
  <2>6. FreshIsOfTheCache'
    BY <1>1, <2>1, <2>2 DEF ThumbnailsInv, FreshIsOfTheCache
  <2> QED
    BY <1>2, <2>3, <2>5, <2>6 DEF ThumbnailsInv
<1>4. CASE PainterLoads
  <2>1. /\ painter # NoPictures /\ painter.loading = {} /\ painter \in Work
        /\ pictureRequest' = pictureRequest /\ pictureResults' = pictureResults
        /\ \/ painter' = NoPictures
           \/ \E p \in painter.left : painter' = [painter EXCEPT !.left = @ \ {p}, !.loading = {p}]
    BY <1>4 DEF PainterLoads, ThumbnailsInv, ThumbnailsTypeOK
  <2>2. \/ painter' = NoPictures
        \/ /\ painter' \in Work /\ painter'.fresh = painter.fresh /\ painter'.of = painter.of
           /\ painter'.left \cap painter'.loading = {}
           /\ painter'.left \cup painter'.loading = painter.left
    BY <2>1 DEF Work
  <2>3. ThumbnailsTypeOK'
    BY <1>1, <2>1, <2>2 DEF ThumbnailsInv, ThumbnailsTypeOK
  <2>4. Asked' = Asked /\ Sent' = Sent
    BY <2>1 DEF Asked, Sent
  <2>5. Painted' \subseteq Painted
    BY <2>1, <2>2 DEF Painted
  <2>6. OnTheWayOnce'
    BY <1>1, <2>1, <2>2, <2>4, <2>5 DEF ThumbnailsInv, OnTheWayOnce
  <2>7. FreshIsOfTheCache'
    BY <1>1, <2>1, <2>2 DEF ThumbnailsInv, FreshIsOfTheCache
  <2> QED
    BY <1>2, <2>3, <2>6, <2>7 DEF ThumbnailsInv
<1>5. CASE PainterSends
  <2>1. PICK p \in painter.loading :
          pictureResults' = Append(pictureResults, [picture |-> p, fresh |-> painter.fresh,
                                                    of |-> painter.of])
    BY <1>5 DEF PainterSends
  <2>2. /\ painter # NoPictures /\ painter \in Work /\ pictureRequest' = pictureRequest
        /\ painter' = [painter EXCEPT !.loading = {}]
    BY <1>5 DEF PainterSends, ThumbnailsInv, ThumbnailsTypeOK
  <2>3. /\ painter' \in Work /\ painter'.fresh = painter.fresh /\ painter'.of = painter.of
        /\ painter'.left = painter.left /\ painter'.loading = {}
    BY <2>2 DEF Work
  <2> DEFINE n == Len(pictureResults)
             result == [picture |-> p, fresh |-> painter.fresh, of |-> painter.of]
  <2>4. /\ result \in Result /\ result.picture = p /\ result.of = painter.of
        /\ result.fresh = painter.fresh
    BY <2>1, <2>2 DEF Work, Result
  <2>5. /\ pictureResults \in Seq(Result) /\ n \in Nat /\ n = Len(pictureResults)
        /\ DOMAIN pictureResults = 1..n
    BY DEF ThumbnailsInv, ThumbnailsTypeOK
  <2>6. pictureResults' = Append(pictureResults, result)
    BY <2>1
  <2> HIDE DEF result, n
  <2>7. /\ pictureResults' \in Seq(Result) /\ DOMAIN pictureResults' = 1..(n + 1)
        /\ \A i \in 1..n : pictureResults'[i] = pictureResults[i]
        /\ pictureResults'[n + 1] = result
        /\ \A i \in DOMAIN pictureResults' : i \in 1..n \/ i = n + 1
    BY <2>4, <2>5, <2>6, AppendProperties
  <2>8. ThumbnailsTypeOK'
    BY <1>1, <2>2, <2>3, <2>7 DEF ThumbnailsInv, ThumbnailsTypeOK
  <2>9. Useful(result) <=> painter.fresh
    BY <2>4 DEF Useful
  <2>10. Asked' = Asked
    BY <2>2 DEF Asked
  <2>11. /\ painter.fresh => p \in Painted /\ p \notin Painted' /\ Painted' \subseteq Painted
         /\ ~painter.fresh => Painted' = {}
    BY <2>1, <2>2, <2>3 DEF Painted, ThumbnailsInv, OnTheWayOnce
  <2>12. Sent' \subseteq Sent \cup (IF painter.fresh THEN {p} ELSE {})
    <3> SUFFICES ASSUME NEW i \in DOMAIN pictureResults', Useful(pictureResults'[i])
                 PROVE  pictureResults'[i].picture \in Sent \cup (IF painter.fresh THEN {p} ELSE {})
      BY DEF Sent
    <3>1. CASE i \in 1..n
      BY <2>5, <2>7, <3>1 DEF Sent
    <3>2. CASE i = n + 1
      BY <2>4, <2>7, <2>9, <3>2
    <3> QED
      BY <2>7, <3>1, <3>2
  <2>13. ASSUME NEW i \in DOMAIN pictureResults', NEW j \in DOMAIN pictureResults',
                i < j, Useful(pictureResults'[i]), Useful(pictureResults'[j])
         PROVE  pictureResults'[i].picture # pictureResults'[j].picture
    <3>1. i \in 1..n
      BY <2>5, <2>7, <2>13
    <3>2. CASE j \in 1..n
      BY <2>5, <2>7, <2>13, <3>1, <3>2 DEF ThumbnailsInv, OnTheWayOnce
    <3>3. CASE j = n + 1
      <4>1. painter.fresh /\ pictureResults'[j].picture = p
        BY <2>4, <2>7, <2>9, <2>13, <3>3
      <4>2. pictureResults'[i].picture \in Sent
        BY <2>5, <2>7, <2>13, <3>1 DEF Sent
      <4> QED
        BY <2>11, <4>1, <4>2 DEF ThumbnailsInv, OnTheWayOnce
    <3> QED
      BY <2>7, <3>2, <3>3
  <2>14. OnTheWayOnce'
    <3>1. Asked' \cup Painted' \cup Sent' \subseteq pendingPictures'
      BY <1>1, <2>10, <2>11, <2>12 DEF ThumbnailsInv, OnTheWayOnce
    <3>2. Asked' \cap Painted' = {} /\ Asked' \cap Sent' = {} /\ Painted' \cap Sent' = {}
      BY <2>10, <2>11, <2>12 DEF ThumbnailsInv, OnTheWayOnce
    <3> QED
      BY <1>1, <2>3, <2>13, <3>1, <3>2 DEF ThumbnailsInv, OnTheWayOnce
  <2>15. FreshIsOfTheCache'
    <3> SUFFICES ASSUME NEW i \in DOMAIN pictureResults', Useful(pictureResults'[i])
                 PROVE  pictureResults'[i].of = cache.context
      BY <1>1, <2>2, <2>3 DEF ThumbnailsInv, FreshIsOfTheCache
    <3>1. CASE i \in 1..n
      BY <2>5, <2>7, <3>1 DEF ThumbnailsInv, FreshIsOfTheCache
    <3>2. CASE i = n + 1
      BY <2>2, <2>4, <2>7, <2>9, <3>2 DEF ThumbnailsInv, FreshIsOfTheCache
    <3> QED
      BY <2>7, <3>1, <3>2
  <2> QED
    BY <1>2, <2>8, <2>14, <2>15 DEF ThumbnailsInv
<1> QED
  BY <1>3, <1>4, <1>5 DEF Painter

LEMMA ObsoleteIsOld ==
  ASSUME NEW job
  PROVE  /\ job \in PictureJob \cup {NoPictures} => Obsolete(job) \in PictureJob \cup {NoPictures}
         /\ job \in Work \cup {NoPictures} => Obsolete(job) \in Work \cup {NoPictures}
         /\ job \in PictureJob \cup Work /\ Obsolete(job) # NoPictures => ~Obsolete(job).fresh
         /\ job = NoPictures => Obsolete(job) = NoPictures
         /\ job \in Work => /\ Obsolete(job) # NoPictures => job # NoPictures
                            /\ Obsolete(job).left = job.left /\ Obsolete(job).loading = job.loading
  BY DEF Obsolete, PictureJob, Work

\* The timer receives what is of the reading and asks for what is missing; a
\* change of the reading leaves nothing on its way.
LEMMA ThumbnailTimerKeeps == ThumbnailsInv /\ ThumbnailTimer => ThumbnailsInv'
<1> SUFFICES ASSUME ThumbnailsInv, ThumbnailTimer PROVE ThumbnailsInv'
  OBVIOUS
<1> DEFINE differs == cache.context # reading
           results == IF differs
                      THEN [i \in DOMAIN pictureResults |-> [pictureResults[i] EXCEPT !.fresh = FALSE]]
                      ELSE pictureResults
           came == {results[i].picture : i \in {j \in DOMAIN results : Useful(results[j])}}
           start == IF differs THEN EmptyCache(reading) ELSE cache
           kept == Received(start, results)
           pending == IF differs THEN PendingAfter ELSE pendingPictures
           awaited == pending \ came
           needed == IF reading = NotRead THEN {} ELSE visible \ (DOMAIN kept.entries \cup awaited)
           asks == needed # {} /\ pictureRequest = NoPictures
           ask == [left |-> needed, fresh |-> TRUE, of |-> reading]
<1>1. /\ cache' = kept /\ pictureResults' = <<>>
      /\ painter' = IF differs THEN Obsolete(painter) ELSE painter
      /\ pendingPictures' = awaited \cup (IF asks THEN needed ELSE {})
      /\ pictureRequest' = IF asks THEN ask ELSE IF differs THEN Obsolete(pictureRequest)
                                                       ELSE pictureRequest
      /\ reading' = reading /\ visible' = visible
  BY DEF ThumbnailTimer
<1>2. /\ reading \in Reading \cup {NotRead} /\ visible \in SUBSET Picture
      /\ pendingPictures \in SUBSET Picture /\ pictureResults \in Seq(Result)
      /\ pictureRequest \in PictureJob \cup {NoPictures} /\ painter \in Work \cup {NoPictures}
  BY DEF ThumbnailsInv, ThumbnailsTypeOK
\* What the timer starts from: an empty cache, or the one that is there.
<1>3. /\ IsCache(start) /\ start.context = reading
      /\ IsAfter(Len(results), kept, start, results)
      /\ came \subseteq Sent /\ (differs => came = {} /\ DOMAIN start.entries = {})
      /\ ~differs => start = cache /\ came = Sent /\ results = pictureResults
  <2>1. CASE differs
    <3>1. start = [context |-> reading, entries |-> <<>>, order |-> <<>>]
      BY <2>1 DEF EmptyCache
    <3>2. IsCache(start) /\ start.context = reading /\ DOMAIN start.entries = {}
      <4> DEFINE nothing == [p \in {} |-> reading]
      <4>1. nothing = <<>>
        OBVIOUS
      <4>2. <<>> \in Seq(Picture) /\ Len(<<>>) = 0 /\ DOMAIN <<>> = {} /\ Len(<<>>) <= CacheLimit
        BY ThumbnailsAssumption
      <4> HIDE DEF start
      <4>3. {start.order[i] : i \in DOMAIN start.order} = {}
        BY <3>1, <4>2
      <4> QED
        BY <1>2, <3>1, <4>1, <4>2, <4>3 DEF IsCache
    <3>3. results = [i \in 1..Len(pictureResults) |-> [pictureResults[i] EXCEPT !.fresh = FALSE]]
      BY <1>2, <2>1
    <3>4. \A result \in Result : /\ [result EXCEPT !.fresh = FALSE] \in Result
                                /\ ~Useful([result EXCEPT !.fresh = FALSE])
      BY DEF Result, Useful
    <3>5. \A i \in 1..Len(pictureResults) : pictureResults[i] \in Result
      BY <1>2
    <3> HIDE DEF results, start
    <3>6. /\ results \in Seq(Result) /\ DOMAIN results = 1..Len(pictureResults)
          /\ \A i \in DOMAIN results : ~Useful(results[i])
      BY <1>2, <3>3, <3>4, <3>5
    <3>7. came = {}
      BY <3>6
    <3>8. MayCome(start, results)
      BY <3>6 DEF MayCome
    <3> QED
      BY <2>1, <3>2, <3>7, <3>8, ReceivedKeeps
  <2>2. CASE ~differs
    <3>1. start = cache /\ results = pictureResults /\ cache.context = reading
      BY <2>2
    <3> HIDE DEF start, results
    <3>2. came = Sent
      BY <3>1 DEF Sent
    <3>3. \A i \in DOMAIN pictureResults : Useful(pictureResults[i]) => pictureResults[i].picture \in Sent
      BY DEF Sent
    <3>4. MayCome(start, results)
      BY <1>2, <3>1, <3>3 DEF MayCome, ThumbnailsInv, OnTheWayOnce, FreshIsOfTheCache
    <3>5. IsCache(start)
      BY <3>1 DEF ThumbnailsInv
    <3> QED
      BY <2>2, <3>1, <3>2, <3>4, <3>5, ReceivedKeeps
  <2> QED
    BY <2>1, <2>2
<1>4. /\ IsCache(kept) /\ kept.context = reading
      /\ DOMAIN kept.entries \subseteq DOMAIN start.entries \cup came
  <2>1. DOMAIN results = 1..Len(results)
    BY <1>2
  <2> HIDE DEF kept, start, results
  <2>2. \A j \in 1..Len(results) : Useful(results[j]) => results[j].picture \in came
    BY <2>1
  <2> HIDE DEF came
  <2> QED
    BY <1>3, <2>2 DEF IsAfter
<1> HIDE DEF kept, start, results, came
<1>5. pending \subseteq pendingPictures /\ (differs => pending = {}) /\ (~differs => pending = pendingPictures)
  BY DEF PendingAfter
<1> HIDE DEF pending, differs
<1>6. awaited \cap DOMAIN kept.entries = {}
  <2>1. pending \cap DOMAIN start.entries = {}
    BY <1>3, <1>5 DEF ThumbnailsInv, OnTheWayOnce
  <2> QED
    BY <1>4, <2>1
<1>7. /\ needed \in SUBSET Picture /\ needed \cap awaited = {} /\ needed \cap DOMAIN kept.entries = {}
      /\ asks => reading \in Reading /\ pictureRequest = NoPictures
  BY <1>2
<1>8. /\ asks => ask \in PictureJob
      /\ ask.left = needed /\ ask.of = reading
  BY <1>7 DEF PictureJob
<1>9. pendingPictures' \in SUBSET Picture
  BY <1>1, <1>2, <1>5, <1>7
<1> HIDE DEF needed, awaited, asks, ask
<1>10. <<>> \in Seq(Result) /\ DOMAIN <<>> = {}
  OBVIOUS
<1>11. ThumbnailsTypeOK'
  <2>1. pictureRequest' \in PictureJob \cup {NoPictures}
    BY <1>1, <1>2, <1>8, ObsoleteIsOld
  <2>2. painter' \in Work \cup {NoPictures}
    BY <1>1, <1>2, ObsoleteIsOld
  <2> QED
    BY <1>1, <1>2, <1>9, <1>10, <2>1, <2>2 DEF ThumbnailsTypeOK
<1>12. IsCache(cache)'
  BY <1>1, <1>4 DEF IsCache
\* After the timer, nothing has been sent, and what is being painted or asked
\* for is awaited still.
<1>13. Sent' = {} /\ \A i \in DOMAIN pictureResults' : FALSE
  BY <1>1, <1>10 DEF Sent
<1>14. Painted' \subseteq awaited /\ (painter' # NoPictures => painter'.left \cap painter'.loading = {})
  <2>1. CASE differs
    <3>1. painter' = Obsolete(painter)
      BY <1>1, <2>1
    <3>2. Painted' = {}
      BY <1>2, <3>1, ObsoleteIsOld DEF Painted
    <3> QED
      BY <1>2, <3>1, <3>2, ObsoleteIsOld DEF ThumbnailsInv, OnTheWayOnce
  <2>2. CASE ~differs
    <3>1. Painted' = Painted /\ painter' = painter
      BY <1>1, <2>2 DEF Painted
    <3> QED
      BY <1>3, <1>5, <2>2, <3>1 DEF ThumbnailsInv, OnTheWayOnce, awaited
  <2> QED
    BY <2>1, <2>2
<1>15. \/ asks /\ Asked' \subseteq needed
       \/ ~asks /\ Asked' \subseteq awaited /\ Asked' \cap Painted' = {}
  <2>1. CASE asks
    BY <1>1, <1>8, <2>1 DEF Asked
  <2>2. CASE ~asks /\ differs
    <3>1. pictureRequest' = Obsolete(pictureRequest)
      BY <1>1, <2>2
    <3>2. Asked' = {}
      BY <1>2, <3>1, ObsoleteIsOld DEF Asked
    <3> QED
      BY <2>2, <3>2
  <2>3. CASE ~asks /\ ~differs
    <3>1. Asked' = Asked /\ Painted' = Painted
      BY <1>1, <2>3 DEF Asked, Painted
    <3> QED
      BY <1>3, <1>5, <2>3, <3>1 DEF ThumbnailsInv, OnTheWayOnce, awaited
  <2> QED
    BY <2>1, <2>2, <2>3
<1>16. OnTheWayOnce'
  <2>1. /\ Asked' \cup Painted' \cup Sent' \subseteq pendingPictures'
        /\ Asked' \cap Painted' = {} /\ Asked' \cap Sent' = {} /\ Painted' \cap Sent' = {}
    BY <1>1, <1>7, <1>13, <1>14, <1>15
  <2>2. pendingPictures' \cap DOMAIN kept.entries = {}
    BY <1>1, <1>6, <1>7
  <2> QED
    BY <1>1, <1>13, <1>14, <2>1, <2>2 DEF OnTheWayOnce
<1>17. FreshIsOfTheCache'
  <2>1. pictureRequest' # NoPictures /\ pictureRequest'.fresh => pictureRequest'.of = reading
    <3>1. CASE asks
      BY <1>1, <1>8, <3>1
    <3>2. CASE ~asks /\ differs
      <4>1. pictureRequest' = Obsolete(pictureRequest)
        BY <1>1, <3>2
      <4> QED
        BY <1>2, <4>1, ObsoleteIsOld
    <3>3. CASE ~asks /\ ~differs
      BY <1>1, <3>3 DEF ThumbnailsInv, FreshIsOfTheCache, differs
    <3> QED
      BY <3>1, <3>2, <3>3
  <2>2. painter' # NoPictures /\ painter'.fresh => painter'.of = reading
    <3>1. CASE differs
      <4>1. painter' = Obsolete(painter)
        BY <1>1, <3>1
      <4> QED
        BY <1>2, <4>1, ObsoleteIsOld
    <3>2. CASE ~differs
      BY <1>1, <3>2 DEF ThumbnailsInv, FreshIsOfTheCache, differs
    <3> QED
      BY <3>1, <3>2
  <2> QED
    BY <1>1, <1>4, <1>13, <2>1, <2>2 DEF FreshIsOfTheCache
<1> QED
  BY <1>11, <1>12, <1>16, <1>17 DEF ThumbnailsInv

LEMMA ThumbnailsStep == ThumbnailsInv /\ [ThumbnailsNext]_thumbnailVars => ThumbnailsInv'
<1> SUFFICES ASSUME ThumbnailsInv, [ThumbnailsNext]_thumbnailVars PROVE ThumbnailsInv'
  OBVIOUS
<1>1. CASE ThumbnailsNext
  BY <1>1, TurnKeeps, ThumbnailTimerKeeps, PainterKeeps DEF ThumbnailsNext
<1>2. CASE UNCHANGED thumbnailVars
  BY <1>2 DEF thumbnailVars, ThumbnailsInv, ThumbnailsTypeOK, IsCache, OnTheWayOnce,
     FreshIsOfTheCache, Asked, Painted, Sent
<1> QED
  BY <1>1, <1>2

\* The invariant of the cache of thumbnails.
THEOREM ThumbnailsInvariant == ThumbnailsSpec => []ThumbnailsInv
<1> QED
  BY ThumbnailsStart, ThumbnailsStep, PTL DEF ThumbnailsSpec

\* The cache holds pictures of its reading only, each once and no more than
\* CacheLimit, whatever comes late.
THEOREM CacheHoldsItsReading == ThumbnailsSpec => []CacheIsOfItsReading
<1>1. ThumbnailsInv => CacheIsOfItsReading
  <2> SUFFICES ASSUME IsCache(cache) PROVE CacheIsOfItsReading
    BY DEF ThumbnailsInv
  <2>1. Len(cache.order) <= CacheLimit
    BY DEF IsCache
  <2>2. \A p \in DOMAIN cache.entries : cache.entries[p] = cache.context
    BY DEF IsCache
  <2> QED
    BY <2>1, <2>2, CacheSize DEF CacheIsOfItsReading
<1> QED
  BY <1>1, ThumbnailsInvariant, PTL

------------------------------------------------------------------------------
\* The icons.

Ids == UNION {[S -> Nat] : S \in SUBSET IconKey}

Images == Seq(IconKey \cup {Blank})

Store == [ids: Ids, images: Images, free: Seq(Nat), pending: SUBSET IconKey,
          queued: Seq(IconKey)]

IconAnswer == [key: IconKey, found: BOOLEAN]

\* A key with a slot of its own has its image there; a slot given back is
\* blank and is given back once; and every slot is one or the other.
Holds(images, slot, image) ==
  /\ slot \in Nat /\ FirstSlot <= slot /\ slot - FirstSlot + 1 <= Len(images)
  /\ images[slot - FirstSlot + 1] = image

SlotsOK(ids, images, free) ==
  /\ \A k \in DOMAIN ids : ids[k] # 1 => Holds(images, ids[k], k)
  /\ \A i \in DOMAIN free : Holds(images, free[i], Blank)
  /\ \A i, j \in DOMAIN free : free[i] = free[j] => i = j
  /\ \A n \in DOMAIN images :
       \/ images[n] = Blank /\ \E i \in DOMAIN free : free[i] = n + FirstSlot - 1
       \/ images[n] \in DOMAIN ids /\ ids[images[n]] = n + FirstSlot - 1

StoreOK(store) == store \in Store /\ SlotsOK(store.ids, store.images, store.free)

IconInv ==
  /\ StoreOK(icons) /\ wantedIcons \in SUBSET IconKey
  /\ iconRequests \in Seq(IconKey) /\ Len(iconRequests) <= RequestRoom
  /\ iconsResolved \in Seq(IconAnswer)
  /\ resolver \in {NoIcon} \cup [key: IconKey, resolved: BOOLEAN]

------------------------------------------------------------------------------
\* A partial function from keys to slots.
LEMMA IdsAre ==
  /\ \A ids \in Ids : /\ DOMAIN ids \in SUBSET IconKey
                      /\ \A k \in DOMAIN ids : ids[k] \in Nat
                      /\ ids = [k \in DOMAIN ids |-> ids[k]]
  /\ \A S \in SUBSET IconKey : \A f \in [S -> Nat] : f \in Ids
  BY DEF Ids

\* The elements of a finite set in an order of its own.
LEMMA ListedElements ==
  ASSUME NEW T, NEW S \in SUBSET T, IsFiniteSet(S)
  PROVE  /\ Listed(S) \in Seq(T)
         /\ \A i \in DOMAIN Listed(S) : Listed(S)[i] \in S
         /\ \A i, j \in DOMAIN Listed(S) : Listed(S)[i] = Listed(S)[j] => i = j
         /\ \A x \in S : \E i \in DOMAIN Listed(S) : Listed(S)[i] = x
<1> DEFINE n == Cardinality(S)
           IsListing(f) == /\ f \in [1..n -> S]
                           /\ \A i, j \in 1..n : f[i] = f[j] => i = j
<1>1. n \in Nat /\ ExistsBijection(1..n, S)
  BY FS_CardinalityType
<1>2. PICK b : b \in Bijection(1..n, S)
  BY <1>1 DEF ExistsBijection
<1>3. IsListing(b)
  BY <1>2 DEF Bijection, Injection, IsInjective
<1>4. IsListing(Listed(S))
  BY <1>3 DEF Listed
<1> DEFINE f == Listed(S)
<1>5. f \in [1..n -> S] /\ \A i, j \in 1..n : f[i] = f[j] => i = j
  BY <1>4
<1> HIDE DEF f, IsListing
<1>6. f \in Seq(T) /\ DOMAIN f = 1..n
  BY <1>1, <1>5
<1>7. f \in Injection(1..n, S)
  BY <1>5 DEF Injection, IsInjective
<1>8. IsFiniteSet(1..n) /\ Cardinality(1..n) = n
  <2> HIDE DEF n
  <2> QED
    BY <1>1, FS_Interval
<1>9. f \in Surjection(1..n, S)
  BY <1>7, <1>8, FS_Injection
<1>10. \A x \in S : \E i \in 1..n : f[i] = x
  BY <1>9 DEF Surjection
<1> QED
  BY <1>5, <1>6, <1>10 DEF f

------------------------------------------------------------------------------
\* A key that gets a slot of its own: a slot given back or one at the end.
LEMMA NewSlotKeeps ==
  ASSUME NEW ids \in Ids, NEW images \in Images, NEW free \in Seq(Nat), SlotsOK(ids, images, free),
         NEW key \in IconKey, key \notin DOMAIN ids, NEW slot, NEW left,
         \/ free # <<>> /\ slot = free[Len(free)] /\ left = SubSeq(free, 1, Len(free) - 1)
         \/ free = <<>> /\ slot = FirstSlot + Len(images) /\ left = <<>>
  PROVE  /\ WithId(ids, key, slot) \in Ids /\ WithImage(images, slot, key) \in Images
         /\ left \in Seq(Nat)
         /\ SlotsOK(WithId(ids, key, slot), WithImage(images, slot, key), left)
<1> DEFINE at   == slot - FirstSlot + 1
           all  == WithId(ids, key, slot)
           with == WithImage(images, slot, key)
<1>1. /\ slot \in Nat /\ FirstSlot <= slot /\ at \in 1..Len(images) + 1
      /\ at <= Len(images) => images[at] = Blank
      /\ left \in Seq(Nat) /\ Len(images) \in Nat
      /\ at > Len(images) => free = <<>> /\ at = Len(images) + 1
  <2>1. CASE free # <<>>
    <3>1. Len(free) \in DOMAIN free /\ slot = free[Len(free)]
          /\ left = SubSeq(free, 1, Len(free) - 1)
      BY <2>1
    <3>2. Holds(images, slot, Blank)
      BY <3>1 DEF SlotsOK
    <3>3. left \in Seq(Nat)
      BY <3>1
    <3> QED
      BY <3>2, <3>3 DEF Holds, FirstSlot, Images
  <2>2. CASE free = <<>>
    BY <2>2 DEF FirstSlot, Images
  <2> QED
    BY <2>1, <2>2
<1>2. /\ DOMAIN left \subseteq DOMAIN free
      /\ \A i \in DOMAIN left : left[i] = free[i] /\ left[i] # slot
      /\ \A i \in DOMAIN free : free[i] = slot \/ i \in DOMAIN left
  <2>1. CASE free # <<>>
    <3>1. /\ Len(free) \in Nat \ {0} /\ DOMAIN free = 1..Len(free)
          /\ DOMAIN left = 1..Len(free) - 1
          /\ \A i \in DOMAIN left : left[i] = free[i]
      BY <2>1
    <3>2. \A i \in DOMAIN left : free[i] # free[Len(free)]
      BY <3>1 DEF SlotsOK
    <3> QED
      BY <2>1, <3>1, <3>2
  <2>2. CASE free = <<>>
    BY <2>2
  <2> QED
    BY <2>1, <2>2
<1>3. /\ DOMAIN all = DOMAIN ids \cup {key} /\ all[key] = slot
      /\ \A k \in DOMAIN ids : all[k] = ids[k]
      /\ all \in [DOMAIN ids \cup {key} -> Nat]
  BY <1>1, IdsAre DEF WithId
<1>4. all \in Ids
  BY <1>3, IdsAre
<1>5. /\ with \in Images /\ Len(images) <= Len(with) /\ at <= Len(with) /\ Len(with) \in Nat
      /\ with[at] = key
      /\ \A n \in DOMAIN images : n # at => with[n] = images[n]
      /\ \A n \in DOMAIN with : n = at \/ n \in DOMAIN images
  <2> DEFINE size == IF at > Len(images) THEN Len(images) + 1 ELSE Len(images)
  <2>1. with = [i \in 1..size |-> IF i = at THEN key ELSE images[i]]
    BY DEF WithImage
  <2>2. size \in Nat /\ Len(images) <= size /\ at <= size /\ at \in 1..size
        /\ \A n \in 1..size : n = at \/ n \in 1..Len(images)
    BY <1>1
  <2>3. DOMAIN images = 1..Len(images) /\ \A n \in 1..Len(images) : images[n] \in IconKey \cup {Blank}
    BY DEF Images
  <2> HIDE DEF with, size, at
  <2>4. with \in [1..size -> IconKey \cup {Blank}]
    BY <2>1, <2>2, <2>3
  <2>5. with \in Images /\ Len(with) = size /\ DOMAIN with = 1..size
    BY <2>2, <2>4 DEF Images
  <2> QED
    BY <2>1, <2>2, <2>3, <2>5
<1>6. \A s, x : Holds(images, s, x) /\ s # slot => Holds(with, s, x)
  <2> TAKE s, x
  <2> HAVE Holds(images, s, x) /\ s # slot
  <2>1. /\ s \in Nat /\ FirstSlot <= s /\ s - FirstSlot + 1 <= Len(images)
        /\ images[s - FirstSlot + 1] = x
        /\ s - FirstSlot + 1 # at /\ s - FirstSlot + 1 \in DOMAIN images
    BY <1>1 DEF Holds, FirstSlot, Images
  <2>2. with[s - FirstSlot + 1] = x
    <3>1. \A n : n \in DOMAIN images /\ n # at /\ images[n] = x => with[n] = x
      BY <1>5
    <3> QED
      BY <2>1, <3>1
  <2> QED
    BY <1>1, <1>5, <2>1, <2>2 DEF Holds, FirstSlot
<1> HIDE DEF all, with
<1>7. Holds(with, slot, key)
  BY <1>1, <1>5 DEF Holds
<1>8. \A k \in DOMAIN all : all[k] # 1 => Holds(with, all[k], k)
  <2>1. ASSUME NEW k \in DOMAIN ids, ids[k] # 1
        PROVE  Holds(with, ids[k], k)
    <3>1. Holds(images, ids[k], k)
      BY <2>1 DEF SlotsOK
    <3>2. k \in IconKey /\ k # Blank
      BY IdsAre, IconStoreAssumption
    <3>3. ids[k] # slot
      BY <1>1, <3>1, <3>2 DEF Holds
    <3> QED
      BY <1>6, <3>1, <3>3
  <2> QED
    BY <1>3, <1>7, <2>1
<1>9. \A i \in DOMAIN left : Holds(with, left[i], Blank)
  BY <1>2, <1>6 DEF SlotsOK
<1>10. \A i, j \in DOMAIN left : left[i] = left[j] => i = j
  BY <1>2 DEF SlotsOK
<1>11. ASSUME NEW n \in DOMAIN with
       PROVE  \/ with[n] = Blank /\ \E i \in DOMAIN left : left[i] = n + FirstSlot - 1
              \/ with[n] \in DOMAIN all /\ all[with[n]] = n + FirstSlot - 1
  <2>1. CASE n = at
    BY <1>1, <1>3, <1>5, <2>1 DEF FirstSlot
  <2>2. CASE n # at /\ n \in DOMAIN images
    <3>0. DOMAIN images \subseteq Nat
      BY DEF Images
    <3>1. n \in Nat /\ with[n] = images[n] /\ n + FirstSlot - 1 # slot
      BY <1>1, <1>5, <2>2, <3>0 DEF FirstSlot
    <3>2. CASE images[n] = Blank /\ \E i \in DOMAIN free : free[i] = n + FirstSlot - 1
      BY <1>2, <3>1, <3>2
    <3>3. CASE images[n] \in DOMAIN ids /\ ids[images[n]] = n + FirstSlot - 1
      BY <1>3, <3>1, <3>3
    <3> QED
      BY <2>2, <3>2, <3>3 DEF SlotsOK
  <2> QED
    BY <1>5, <2>1, <2>2
<1> QED
  BY <1>1, <1>4, <1>5, <1>8, <1>9, <1>10, <1>11 DEF SlotsOK, all, with

\* A key without an icon shares the slot of the generic ones.
LEMMA SharedSlotKeeps ==
  ASSUME NEW ids \in Ids, NEW images, NEW free, SlotsOK(ids, images, free),
         NEW key \in IconKey, key \notin DOMAIN ids
  PROVE  WithId(ids, key, 1) \in Ids /\ SlotsOK(WithId(ids, key, 1), images, free)
<1> DEFINE all == WithId(ids, key, 1)
<1>1. /\ DOMAIN all = DOMAIN ids \cup {key} /\ all[key] = 1
      /\ \A k \in DOMAIN ids : all[k] = ids[k]
      /\ all \in [DOMAIN ids \cup {key} -> Nat]
  BY IdsAre DEF WithId
<1>2. all \in Ids
  BY <1>1, IdsAre
<1> HIDE DEF all
<1>3. SlotsOK(all, images, free)
  BY <1>1 DEF SlotsOK
<1> QED
  BY <1>2, <1>3 DEF all

LEMMA InternedKeeps ==
  ASSUME NEW store, StoreOK(store), NEW answer \in IconAnswer
  PROVE  StoreOK(Interned(store, answer))
<1> DEFINE key == answer.key
           slot == NewSlot(store)
           left == IF store.free = <<>> THEN store.free
                   ELSE SubSeq(store.free, 1, Len(store.free) - 1)
<1>1. /\ store \in Store /\ key \in IconKey
      /\ store.ids \in Ids /\ store.images \in Images /\ store.free \in Seq(Nat)
      /\ store.pending \in SUBSET IconKey /\ store.queued \in Seq(IconKey)
      /\ SlotsOK(store.ids, store.images, store.free)
  BY DEF StoreOK, Store, IconAnswer
<1>2. CASE key \notin store.pending
  BY <1>2 DEF Interned
<1>3. CASE key \in store.pending /\ HasIcon(store, key)
  <2>1. Interned(store, answer) = [store EXCEPT !.pending = @ \ {key}, !.ids = @]
    BY <1>1, <1>3 DEF Interned, Store
  <2> QED
    BY <1>1, <2>1 DEF StoreOK, Store
<1>4. CASE key \in store.pending /\ ~HasIcon(store, key) /\ ~answer.found
  <2>1. Interned(store, answer) = [store EXCEPT !.pending = @ \ {key}, !.ids = WithId(@, key, 1)]
    BY <1>1, <1>4 DEF Interned, Store
  <2>2. WithId(store.ids, key, 1) \in Ids
        /\ SlotsOK(WithId(store.ids, key, 1), store.images, store.free)
    BY <1>1, <1>4, SharedSlotKeeps DEF HasIcon
  <2> QED
    BY <1>1, <2>1, <2>2 DEF StoreOK, Store
<1>5. CASE key \in store.pending /\ ~HasIcon(store, key) /\ answer.found
  <2>1. Interned(store, answer) =
          [store EXCEPT !.pending = @ \ {key}, !.ids = WithId(@, key, slot),
                        !.images = WithImage(@, slot, key), !.free = left]
    BY <1>1, <1>5 DEF Interned, Store
  <2>2. /\ WithId(store.ids, key, slot) \in Ids /\ WithImage(store.images, slot, key) \in Images
        /\ left \in Seq(Nat)
        /\ SlotsOK(WithId(store.ids, key, slot), WithImage(store.images, slot, key), left)
    <3>1. \/ store.free # <<>> /\ slot = store.free[Len(store.free)]
             /\ left = SubSeq(store.free, 1, Len(store.free) - 1)
          \/ store.free = <<>> /\ slot = FirstSlot + Len(store.images) /\ left = <<>>
      BY DEF NewSlot
    <3>2. key \notin DOMAIN store.ids
      BY <1>5 DEF HasIcon
    <3> HIDE DEF slot, left, key
    <3> QED
      BY <1>1, <3>1, <3>2, NewSlotKeeps
  <2> HIDE DEF slot, left
  <2> QED
    BY <1>1, <2>1, <2>2 DEF StoreOK, Store
<1> QED
  BY <1>2, <1>3, <1>4, <1>5

GoodStores == {d \in Store : StoreOK(d)}

\* Answers taken one after another.
LEMMA AllInternedKeeps ==
  ASSUME NEW store, StoreOK(store), NEW answers \in Seq(IconAnswer)
  PROVE  StoreOK(AllInterned(store, answers))
<1> DEFINE n == Len(answers)
           Is(f) == f = [i \in 0..n |-> IF i = 0 THEN store ELSE Interned(f[i - 1], answers[i])]
           step == [i \in 1..n |-> [d \in GoodStores |-> Interned(d, answers[i])]]
<1>1. n \in Nat /\ \A i \in 1..n : answers[i] \in IconAnswer
  OBVIOUS
<1>2. \A d : d \in GoodStores <=> StoreOK(d)
  BY DEF GoodStores, StoreOK
<1>3. \A i \in 1..n : \A d \in GoodStores : Interned(d, answers[i]) \in GoodStores
  BY <1>1, <1>2, InternedKeeps
<1>4. step \in Steps(n, GoodStores)
  BY <1>3 DEF Steps
<1>5. \A i \in 1..n : \A d \in GoodStores : step[i][d] = Interned(d, answers[i])
  OBVIOUS
<1>6. store \in GoodStores
  BY <1>2
<1> HIDE DEF n, step, Is
<1>7. PICK f \in [0..n -> GoodStores] : f[0] = store /\ \A i \in 1..n : f[i] = step[i][f[i - 1]]
  <2> DEFINE S == GoodStores
  <2>1. n \in Nat /\ store \in S /\ step \in Steps(n, S)
    BY <1>1, <1>4, <1>6
  <2> HIDE DEF S
  <2>2. \E f \in [0..n -> S] : f[0] = store /\ \A i \in 1..n : f[i] = step[i][f[i - 1]]
    BY <2>1, StepsExist
  <2> QED
    BY <2>2 DEF S
<1>8. Is(f)
  <2>1. \A i \in 0..n : f[i] = IF i = 0 THEN store ELSE Interned(f[i - 1], answers[i])
    <3> TAKE i \in 0..n
    <3>1. CASE i = 0
      BY <1>7, <3>1
    <3>2. CASE i # 0
      <4>1. i \in 1..n /\ i - 1 \in 0..n
        BY <1>1, <3>2
      <4> QED
        BY <1>5, <1>7, <3>2, <4>1
    <3> QED
      BY <3>1, <3>2
  <2>2. f = [i \in 0..n |-> f[i]]
    BY <1>7
  <2> QED
    BY <2>1, <2>2 DEF Is
<1> DEFINE upTo == CHOOSE g : Is(g)
<1>9. Is(upTo)
  BY <1>8
<1>10. AllInterned(store, answers) = upTo[n]
  BY DEF AllInterned, n, Is
<1> HIDE DEF upTo
<1>11. upTo[0] = store /\ \A i \in 1..n : upTo[i] = Interned(upTo[i - 1], answers[i])
  <2>1. 0 \in 0..n /\ \A i \in 1..n : i \in 0..n /\ i # 0
    BY <1>1
  <2> QED
    BY <1>9, <2>1 DEF Is
<1> DEFINE OK == {i \in 0..n : upTo[i] \in GoodStores}
<1>12. 0 \in OK
  BY <1>1, <1>6, <1>11
<1>13. \A i \in 0..n : i < n /\ i \in OK => i + 1 \in OK
  <2> TAKE i \in 0..n
  <2> HAVE i < n /\ i \in OK
  <2>1. i + 1 \in 1..n /\ (i + 1) - 1 = i /\ i + 1 \in 0..n
    BY <1>1
  <2>2. upTo[i + 1] = Interned(upTo[i], answers[i + 1])
    BY <1>11, <2>1
  <2> QED
    BY <1>3, <2>1, <2>2
<1>14. 0..n \subseteq OK
  <2> HIDE DEF OK
  <2> QED
    BY <1>1, <1>12, <1>13, UpTo
<1>15. upTo[n] \in GoodStores
  BY <1>1, <1>14
<1> QED
  BY <1>2, <1>10, <1>15

\* The slots of the keys that scroll away are given back, blank.
LEMMA RetainedKeeps ==
  ASSUME NEW store, StoreOK(store), NEW live \in SUBSET IconKey
  PROVE  /\ StoreOK(Retained(store, live))
         /\ Retained(store, live).ids = [k \in DOMAIN store.ids \cap live |-> store.ids[k]]
<1> DEFINE ids    == store.ids
           images == store.images
           free   == store.free
           back   == Reclaimed(store, DOMAIN ids \ live)
           kept   == [k \in DOMAIN ids \cap live |-> ids[k]]
           blank  == [i \in DOMAIN images |-> IF i + FirstSlot - 1 \in back THEN Blank ELSE images[i]]
           asked  == Retain(store.queued, {i \in DOMAIN store.queued : store.queued[i] \in live})
           given  == free \o Listed(back)
<1>1. /\ store \in Store /\ ids \in Ids /\ images \in Images /\ free \in Seq(Nat)
      /\ store.pending \in SUBSET IconKey /\ store.queued \in Seq(IconKey)
      /\ SlotsOK(ids, images, free)
  BY DEF StoreOK, Store
<1>2. asked \in Seq(IconKey)
  <2> DEFINE places == {i \in DOMAIN store.queued : store.queued[i] \in live}
  <2>1. places \in SUBSET (DOMAIN store.queued)
    OBVIOUS
  <2> HIDE DEF places
  <2>2. Retain(store.queued, places) \in Seq(IconKey)
    BY <1>1, <2>1, RetainedElements
  <2> QED
    BY <2>2 DEF places
<1>3. Retained(store, live) =
        [store EXCEPT !.ids = kept, !.images = blank, !.free = given,
                      !.pending = @ \cap live, !.queued = asked]
  BY <1>1 DEF Retained, PendingIfLive, Store
\* What is given back: the slots of their own of the keys that are not live.
<1>4. /\ \A s \in back : \E k \in DOMAIN ids \ live : s = ids[k] /\ Holds(images, s, k)
      /\ \A k \in DOMAIN ids \ live : ids[k] # 1 => ids[k] \in back
  <2>1. ASSUME NEW s \in back
        PROVE  \E k \in DOMAIN ids \ live : s = ids[k] /\ Holds(images, s, k)
    <3>1. PICK k \in DOMAIN ids \ live : s = ids[k] /\ s \notin 0..(FirstSlot - 1)
      BY DEF Reclaimed
    <3>2. s # 1
      BY <3>1 DEF FirstSlot
    <3> QED
      BY <1>1, <3>1, <3>2 DEF SlotsOK
  <2>2. ASSUME NEW k \in DOMAIN ids \ live, ids[k] # 1
        PROVE  ids[k] \in back
    <3>1. ids[k] \in Nat /\ FirstSlot <= ids[k]
      BY <1>1, <2>2 DEF SlotsOK, Holds
    <3> QED
      BY <3>1 DEF Reclaimed, FirstSlot
  <2> QED
    BY <2>1, <2>2
<1> HIDE DEF ids, images, free, back, kept, blank, asked, given
<1>5. back \in SUBSET Nat /\ IsFiniteSet(back)
  <2>1. Len(images) \in Nat
    BY <1>1 DEF Images
  <2>2. \A s \in back : s \in Nat /\ s <= Len(images) + FirstSlot
    BY <1>4, <2>1 DEF Holds, FirstSlot
  <2>3. Len(images) + FirstSlot \in Nat
    BY <2>1 DEF FirstSlot
  <2> QED
    BY <2>2, <2>3, FS_BoundedSetOfNaturals
<1>6. /\ Listed(back) \in Seq(Nat)
      /\ \A i \in DOMAIN Listed(back) : Listed(back)[i] \in back
      /\ \A i, j \in DOMAIN Listed(back) : Listed(back)[i] = Listed(back)[j] => i = j
      /\ \A s \in back : \E i \in DOMAIN Listed(back) : Listed(back)[i] = s
  BY <1>5, ListedElements
<1>7. PICK list \in Seq(Nat) : list = Listed(back)
  BY <1>6
\* The list of the free slots: the old ones and those given back.
<1>8. /\ given \in Seq(Nat)
      /\ \A i \in DOMAIN given :
           \/ i \in DOMAIN free /\ given[i] = free[i]
           \/ i > Len(free) /\ i - Len(free) \in DOMAIN list /\ given[i] = list[i - Len(free)]
      /\ \A i \in DOMAIN free : i \in DOMAIN given /\ given[i] = free[i] /\ i <= Len(free)
      /\ \A i \in DOMAIN list : i + Len(free) \in DOMAIN given /\ given[i + Len(free)] = list[i]
      /\ DOMAIN given \subseteq Nat /\ Len(free) \in Nat
  <2>1. given = free \o list
    BY <1>7 DEF given
  <2> QED
    BY <1>1, <1>7, <2>1
<1>9. /\ blank \in Images /\ Len(blank) = Len(images) /\ DOMAIN blank = DOMAIN images
      /\ \A n \in DOMAIN images : /\ n \in Nat
                                  /\ n + FirstSlot - 1 \in back => blank[n] = Blank
                                  /\ n + FirstSlot - 1 \notin back => blank[n] = images[n]
  <2>1. /\ DOMAIN images = 1..Len(images) /\ Len(images) \in Nat
        /\ \A n \in 1..Len(images) : images[n] \in IconKey \cup {Blank}
    BY <1>1 DEF Images
  <2>2. blank \in [1..Len(images) -> IconKey \cup {Blank}]
    BY <2>1 DEF blank
  <2>3. blank \in Images /\ Len(blank) = Len(images)
    BY <2>1, <2>2 DEF Images
  <2> QED
    BY <2>1, <2>3 DEF blank
<1>10. /\ DOMAIN kept = DOMAIN ids \cap live /\ \A k \in DOMAIN kept : kept[k] = ids[k]
       /\ kept \in Ids
  <2>1. kept \in [DOMAIN ids \cap live -> Nat]
    BY <1>1, IdsAre DEF kept
  <2>2. kept \in Ids
    BY <1>1, <2>1, IdsAre
  <2> QED
    BY <2>2 DEF kept
<1>11. \A k \in IconKey : k # Blank
  BY IconStoreAssumption
<1>12. DOMAIN ids \subseteq IconKey
  BY <1>1, IdsAre
\* A slot holds what it held, or is blank and given back.
<1>13. ASSUME NEW s, NEW x, Holds(images, s, x)
       PROVE  Holds(blank, s, IF s \in back THEN Blank ELSE x)
  <2>1. /\ s \in Nat /\ FirstSlot <= s /\ s - FirstSlot + 1 <= Len(images)
        /\ images[s - FirstSlot + 1] = x /\ s - FirstSlot + 1 \in DOMAIN images
        /\ (s - FirstSlot + 1) + FirstSlot - 1 = s
    BY <1>1, <1>13 DEF Holds, FirstSlot, Images
  <2>2. /\ s \in back => blank[s - FirstSlot + 1] = Blank
        /\ s \notin back => blank[s - FirstSlot + 1] = x
    <3>1. \A n : n \in DOMAIN images /\ n + FirstSlot - 1 = s /\ images[n] = x =>
            (s \in back => blank[n] = Blank) /\ (s \notin back => blank[n] = x)
      BY <1>9
    <3> QED
      BY <2>1, <3>1
  <2>3. s - FirstSlot + 1 <= Len(blank)
    BY <1>9, <2>1
  <2> QED
    BY <2>1, <2>2, <2>3 DEF Holds
<1>14. \A k \in DOMAIN kept : kept[k] # 1 => Holds(blank, kept[k], k)
  <2> SUFFICES ASSUME NEW k \in DOMAIN ids \cap live, ids[k] # 1
               PROVE  Holds(blank, ids[k], k)
    BY <1>10
  <2>1. Holds(images, ids[k], k)
    BY <1>1 DEF SlotsOK
  <2>2. ids[k] \notin back
    <3> SUFFICES ASSUME ids[k] \in back
                 PROVE  FALSE
      OBVIOUS
    <3>1. PICK m \in DOMAIN ids \ live : Holds(images, ids[k], m)
      BY <1>4
    <3> QED
      BY <2>1, <3>1 DEF Holds
  <2>3. Holds(blank, ids[k], IF ids[k] \in back THEN Blank ELSE k)
    BY <1>13, <2>1
  <2> QED
    BY <2>2, <2>3
<1>15. \A s \in back : Holds(blank, s, Blank)
  <2> TAKE s \in back
  <2>1. PICK k : Holds(images, s, k)
    BY <1>4
  <2>2. Holds(blank, s, IF s \in back THEN Blank ELSE k)
    BY <1>13, <2>1
  <2> QED
    BY <2>2
<1>16. \A i \in DOMAIN free : Holds(blank, free[i], Blank) /\ free[i] \notin back
  <2> TAKE i \in DOMAIN free
  <2>1. Holds(images, free[i], Blank)
    BY <1>1 DEF SlotsOK
  <2>2. free[i] \notin back
    <3> SUFFICES ASSUME free[i] \in back
                 PROVE  FALSE
      OBVIOUS
    <3>1. PICK k \in DOMAIN ids \ live : Holds(images, free[i], k)
      BY <1>4
    <3> QED
      BY <1>11, <1>12, <2>1, <3>1 DEF Holds
  <2>3. Holds(blank, free[i], IF free[i] \in back THEN Blank ELSE Blank)
    BY <1>13, <2>1
  <2> QED
    BY <2>2, <2>3
<1>17. \A i \in DOMAIN given : Holds(blank, given[i], Blank)
  BY <1>6, <1>7, <1>8, <1>15, <1>16
<1>18. ASSUME NEW i \in DOMAIN given, NEW j \in DOMAIN given, given[i] = given[j]
       PROVE  i = j
  <2>1. CASE i \in DOMAIN free /\ j \in DOMAIN free
    BY <1>1, <1>8, <1>18, <2>1 DEF SlotsOK
  <2>2. CASE i \notin DOMAIN free /\ j \notin DOMAIN free
    <3>1. /\ i - Len(free) \in DOMAIN list /\ j - Len(free) \in DOMAIN list
          /\ list[i - Len(free)] = list[j - Len(free)]
      BY <1>8, <1>18, <2>2
    <3>2. i - Len(free) = j - Len(free)
      BY <1>6, <1>7, <3>1
    <3> QED
      BY <1>8, <3>2
  <2>3. CASE i \in DOMAIN free /\ j \notin DOMAIN free
    BY <1>6, <1>7, <1>8, <1>16, <1>18, <2>3
  <2>4. CASE i \notin DOMAIN free /\ j \in DOMAIN free
    BY <1>6, <1>7, <1>8, <1>16, <1>18, <2>4
  <2> QED
    BY <2>1, <2>2, <2>3, <2>4
<1>19. ASSUME NEW n \in DOMAIN blank
       PROVE  \/ blank[n] = Blank /\ \E i \in DOMAIN given : given[i] = n + FirstSlot - 1
              \/ blank[n] \in DOMAIN kept /\ kept[blank[n]] = n + FirstSlot - 1
  <2>1. n \in DOMAIN images /\ n \in Nat
    BY <1>9
  <2>2. CASE n + FirstSlot - 1 \in back
    <3>1. PICK i \in DOMAIN list : list[i] = n + FirstSlot - 1
      BY <1>6, <1>7, <2>2
    <3>2. i + Len(free) \in DOMAIN given /\ given[i + Len(free)] = n + FirstSlot - 1
      BY <1>8, <3>1
    <3> QED
      BY <1>9, <2>1, <2>2, <3>2
  <2>3. CASE n + FirstSlot - 1 \notin back
    <3>1. blank[n] = images[n]
      BY <1>9, <2>1, <2>3
    <3>2. CASE images[n] = Blank /\ \E i \in DOMAIN free : free[i] = n + FirstSlot - 1
      BY <1>8, <3>1, <3>2
    <3>3. CASE images[n] \in DOMAIN ids /\ ids[images[n]] = n + FirstSlot - 1
      <4>1. ids[images[n]] # 1
        BY <2>1, <3>3 DEF FirstSlot
      <4>2. images[n] \in live
        BY <1>4, <2>3, <3>3, <4>1
      <4> QED
        BY <1>10, <3>1, <3>3, <4>2
    <3> QED
      BY <1>1, <2>1, <3>2, <3>3 DEF SlotsOK
  <2> QED
    BY <2>2, <2>3
<1>20. SlotsOK(kept, blank, given)
  BY <1>14, <1>17, <1>18, <1>19 DEF SlotsOK
<1>21. StoreOK(Retained(store, live))
  BY <1>1, <1>2, <1>3, <1>8, <1>9, <1>10, <1>20 DEF StoreOK, Store
<1>22. Retained(store, live).ids = kept
  BY <1>1, <1>3 DEF Store
<1> QED
  BY <1>21, <1>22 DEF kept, ids

\* The keys of the rows in view: those without an icon that nobody has asked
\* for are queued.
LEMMA QueuedKeeps ==
  ASSUME NEW store, StoreOK(store), NEW keys \in SUBSET IconKey, IsFiniteSet(keys)
  PROVE  StoreOK(Queued(store, keys))
<1> DEFINE kept    == Retained(store, keys)
           missing == {k \in keys : ~HasIcon(kept, k) /\ k \notin kept.pending}
<1>1. StoreOK(kept)
  BY RetainedKeeps
<1>2. Queued(store, keys) = [kept EXCEPT !.pending = @ \cup missing, !.queued = @ \o Listed(missing)]
  BY DEF Queued
<1>3. missing \in SUBSET IconKey /\ missing \subseteq keys
  OBVIOUS
<1> HIDE DEF kept, missing
<1>4. IsFiniteSet(missing)
  BY <1>3, FS_Subset
<1>5. Listed(missing) \in Seq(IconKey)
  BY <1>3, <1>4, ListedElements
<1>6. /\ kept \in Store /\ kept.pending \cup missing \in SUBSET IconKey
      /\ kept.queued \o Listed(missing) \in Seq(IconKey)
  BY <1>1, <1>3, <1>5 DEF StoreOK, Store
<1> QED
  BY <1>1, <1>2, <1>6 DEF StoreOK, Store

\* The channel of the requests takes as many as it has room for.
LEMMA FlushKeeps ==
  ASSUME NEW store, StoreOK(store), Flush(store),
         iconRequests \in Seq(IconKey), Len(iconRequests) <= RequestRoom
  PROVE  StoreOK(icons') /\ iconRequests' \in Seq(IconKey) /\ Len(iconRequests') <= RequestRoom
<1> DEFINE queued == store.queued
           n == IF Len(queued) < RequestRoom - Len(iconRequests)
                THEN Len(queued) ELSE RequestRoom - Len(iconRequests)
           sent == SubSeq(queued, 1, n)
           left == SubSeq(queued, n + 1, Len(queued))
<1>1. store \in Store /\ queued \in Seq(IconKey) /\ Len(queued) \in Nat
  BY DEF StoreOK, Store
<1>2. RequestRoom \in Nat /\ Len(iconRequests) \in Nat
  BY IconStoreAssumption
<1>3. iconRequests' = iconRequests \o sent /\ icons' = [store EXCEPT !.queued = left]
  BY DEF Flush
<1>4. n \in Nat /\ n <= Len(queued) /\ Len(iconRequests) + n <= RequestRoom
  BY <1>1, <1>2
<1> HIDE DEF n, queued
<1>5. sent \in Seq(IconKey) /\ Len(sent) = n /\ left \in Seq(IconKey)
  BY <1>1, <1>4, SubSeqProperties
<1> HIDE DEF sent, left
<1>6. iconRequests' \in Seq(IconKey) /\ Len(iconRequests') <= RequestRoom
  BY <1>2, <1>3, <1>4, <1>5
<1> QED
  BY <1>1, <1>3, <1>5, <1>6 DEF StoreOK, Store

LEMMA IconStep == IconInv /\ [IconNext]_iconVars => IconInv'
<1> SUFFICES ASSUME IconInv, [IconNext]_iconVars
             PROVE  IconInv'
  OBVIOUS
<1>1. /\ StoreOK(icons) /\ wantedIcons \in SUBSET IconKey
      /\ iconRequests \in Seq(IconKey) /\ Len(iconRequests) <= RequestRoom
      /\ iconsResolved \in Seq(IconAnswer)
      /\ resolver \in {NoIcon} \cup [key: IconKey, resolved: BOOLEAN]
  BY DEF IconInv
<1>2. ASSUME NEW keys \in SUBSET IconKey, IsFiniteSet(keys), LookAtRows(keys)
      PROVE  IconInv'
  <2>1. StoreOK(Queued(icons, keys))
    BY <1>1, <1>2, QueuedKeeps
  <2>2. /\ Flush(Queued(icons, keys)) /\ wantedIcons' = keys
        /\ iconsResolved' = iconsResolved /\ resolver' = resolver
    BY <1>2 DEF LookAtRows
  <2>3. StoreOK(icons') /\ iconRequests' \in Seq(IconKey) /\ Len(iconRequests') <= RequestRoom
    BY <1>1, <2>1, <2>2, FlushKeeps
  <2> QED
    BY <1>1, <2>2, <2>3 DEF IconInv, StoreOK
<1>3. ASSUME PumpIcons
      PROVE  IconInv'
  <2>1. StoreOK(AllInterned(icons, iconsResolved))
    BY <1>1, AllInternedKeeps
  <2>2. /\ Flush(AllInterned(icons, iconsResolved)) /\ wantedIcons' = wantedIcons
        /\ iconsResolved' = <<>> /\ resolver' = resolver
    BY <1>3 DEF PumpIcons
  <2>3. StoreOK(icons') /\ iconRequests' \in Seq(IconKey) /\ Len(iconRequests') <= RequestRoom
    BY <1>1, <2>1, <2>2, FlushKeeps
  <2>4. iconsResolved' \in Seq(IconAnswer)
    BY <2>2
  <2> QED
    BY <1>1, <2>2, <2>3, <2>4 DEF IconInv, StoreOK
<1>4. ASSUME ResolverTakes
      PROVE  IconInv'
  <2>1. /\ iconRequests # <<>> /\ iconRequests' = Tail(iconRequests)
        /\ icons' = icons /\ wantedIcons' = wantedIcons /\ iconsResolved' = iconsResolved
        /\ resolver' = IF Head(iconRequests) \in wantedIcons
                       THEN [key |-> Head(iconRequests), resolved |-> FALSE] ELSE NoIcon
    BY <1>4 DEF ResolverTakes
  <2>2. iconRequests' \in Seq(IconKey) /\ Len(iconRequests') <= RequestRoom
    <3>1. /\ Tail(iconRequests) \in Seq(IconKey)
          /\ Len(Tail(iconRequests)) = Len(iconRequests) - 1 /\ Len(iconRequests) \in Nat
      BY <1>1, <2>1, HeadTailProperties
    <3> QED
      BY <1>1, <2>1, <3>1, IconStoreAssumption
  <2>3. resolver' \in {NoIcon} \cup [key: IconKey, resolved: BOOLEAN]
    BY <1>1, <2>1
  <2> QED
    BY <1>1, <2>1, <2>2, <2>3 DEF IconInv, StoreOK
<1>5. ASSUME ResolverResolves
      PROVE  IconInv'
  <2>1. /\ icons' = icons /\ wantedIcons' = wantedIcons /\ iconRequests' = iconRequests
        /\ iconsResolved' = iconsResolved
    BY <1>5 DEF ResolverResolves
  <2>2. resolver' \in {NoIcon} \cup [key: IconKey, resolved: BOOLEAN]
    BY <1>1, <1>5 DEF ResolverResolves
  <2> QED
    BY <1>1, <2>1, <2>2 DEF IconInv, StoreOK
<1>6. ASSUME ResolverSends
      PROVE  IconInv'
  <2>1. /\ icons' = icons /\ wantedIcons' = wantedIcons /\ iconRequests' = iconRequests
        /\ resolver' = NoIcon
    BY <1>6 DEF ResolverSends
  <2>2. resolver.key \in IconKey
    BY <1>1, <1>6 DEF ResolverSends
  <2>3. iconsResolved' \in Seq(IconAnswer)
    <3>1. PICK found \in BOOLEAN :
            iconsResolved' = Append(iconsResolved, [key |-> resolver.key, found |-> found])
      BY <1>6 DEF ResolverSends
    <3>2. [key |-> resolver.key, found |-> found] \in IconAnswer
      BY <2>2 DEF IconAnswer
    <3> QED
      BY <1>1, <3>1, <3>2, AppendProperties
  <2> QED
    BY <1>1, <2>1, <2>3 DEF IconInv, StoreOK
<1>7. CASE UNCHANGED iconVars
  BY <1>1, <1>7 DEF IconInv, StoreOK, iconVars
<1> QED
  BY <1>2, <1>3, <1>4, <1>5, <1>6, <1>7 DEF IconNext, Resolver

\* The store of the icons stays in order, for any number of keys and of rows.
THEOREM IconInvariant == IconSpec => []IconInv
<1>1. IconInit => IconInv
  <2> SUFFICES ASSUME IconInit
               PROVE  IconInv
    OBVIOUS
  <2>1. /\ icons.ids = <<>> /\ icons.images = <<>> /\ icons.free = <<>>
        /\ icons = [ids |-> <<>>, images |-> <<>>, free |-> <<>>, pending |-> {}, queued |-> <<>>]
    BY DEF IconInit
  <2>2. <<>> \in [{} -> Nat] /\ DOMAIN <<>> = {} /\ <<>> \in Images /\ <<>> \in Seq(Nat)
        /\ <<>> \in Seq(IconKey) /\ <<>> \in Seq(IconAnswer) /\ Len(<<>>) = 0
    BY DEF Images
  <2>3. <<>> \in Ids
    BY <2>2, IdsAre
  <2>4. icons \in Store
    BY <2>1, <2>2, <2>3 DEF Store
  <2>5. SlotsOK(icons.ids, icons.images, icons.free)
    BY <2>1, <2>2 DEF SlotsOK
  <2> QED
    BY <2>2, <2>4, <2>5, IconStoreAssumption DEF IconInv, StoreOK, IconInit
<1> QED
  BY <1>1, IconStep, PTL DEF IconSpec

\* The slots are counted: each is in the list of the free ones or has a key.
LEMMA SlotsCounted == StoreOK(icons) => SlotsAreTheirKeys
<1> SUFFICES ASSUME StoreOK(icons)
             PROVE  SlotsAreTheirKeys
  OBVIOUS
<1> DEFINE ids    == icons.ids
           images == icons.images
           free   == icons.free
           m      == Len(images)
           Own    == {n \in 1..m : images[n] # Blank}
           Blanks == {n \in 1..m : images[n] = Blank}
<1>1. /\ ids \in Ids /\ images \in Images /\ free \in Seq(Nat)
      /\ SlotsOK(ids, images, free)
  BY DEF StoreOK, Store
<1>2. /\ DOMAIN images = 1..m /\ m \in Nat /\ Len(free) \in Nat /\ DOMAIN free = 1..Len(free)
      /\ \A i \in DOMAIN free : free[i] \in Nat
  BY <1>1 DEF Images
<1>3. DOMAIN ids \subseteq IconKey /\ Blank \notin IconKey
  BY <1>1, IdsAre, IconStoreAssumption
<1> HIDE DEF ids, images, free, m
<1>4. \A s, x : Holds(images, s, x) => /\ s \in Nat /\ s >= FirstSlot
                                       /\ s - FirstSlot + 1 \in 1..m
                                       /\ images[s - FirstSlot + 1] = x
  BY <1>2 DEF Holds, FirstSlot, m
<1>5. OwnSlots = {k \in DOMAIN ids : ids[k] # 1} /\ FreeSlots = {free[i] : i \in DOMAIN free}
  BY DEF OwnSlots, FreeSlots, ids, free
<1>6. \A k \in OwnSlots : ids[k] >= FirstSlot /\ Image(icons, ids[k]) = k
  BY <1>1, <1>4, <1>5 DEF SlotsOK, Image, images
<1>7. \A s \in FreeSlots : s >= FirstSlot /\ Image(icons, s) = Blank
  BY <1>1, <1>4, <1>5 DEF SlotsOK, Image, images
<1>8. IsFiniteSet(1..Len(free)) /\ Cardinality(1..Len(free)) = Len(free)
      /\ IsFiniteSet(1..m) /\ Cardinality(1..m) = m
  <2>1. \A k \in Nat : IsFiniteSet(1..k) /\ Cardinality(1..k) = k
    <3> TAKE k \in Nat
    <3>1. 1 \in Int /\ k \in Int
      OBVIOUS
    <3>2. IsFiniteSet(1..k) /\ Cardinality(1..k) = IF 1 > k THEN 0 ELSE k - 1 + 1
      BY <3>1, FS_Interval
    <3> QED
      BY <3>1, <3>2
  <2> QED
    BY <1>2, <2>1
<1>9. IsFiniteSet(FreeSlots) /\ Cardinality(FreeSlots) = Len(free)
  <2> DEFINE f == [i \in 1..Len(free) |-> free[i]]
  <2>1. f \in Bijection(1..Len(free), FreeSlots)
    BY <1>1, <1>2, <1>5 DEF SlotsOK, Bijection, Injection, Surjection, IsInjective
  <2> HIDE DEF f
  <2> QED
    BY <1>8, <2>1, FS_Bijection DEF ExistsBijection
<1>10. IsFiniteSet(Blanks) /\ Cardinality(Blanks) = Cardinality(FreeSlots)
  <2> DEFINE f == [s \in FreeSlots |-> s - FirstSlot + 1]
  <2>1. \A s \in FreeSlots : s \in Nat /\ s - FirstSlot + 1 \in Blanks
    BY <1>1, <1>4, <1>5 DEF SlotsOK
  <2>2. \A n \in Blanks : n + FirstSlot - 1 \in FreeSlots /\ (n + FirstSlot - 1) - FirstSlot + 1 = n
    <3> TAKE n \in Blanks
    <3>1. n \in DOMAIN images /\ images[n] = Blank /\ n \in Nat
      BY <1>2
    <3>2. \E i \in DOMAIN free : free[i] = n + FirstSlot - 1
      BY <1>1, <1>3, <3>1 DEF SlotsOK
    <3> QED
      BY <1>5, <3>1, <3>2 DEF FirstSlot
  <2>3. \A s, t \in FreeSlots : f[s] = f[t] => s = t
    BY <2>1 DEF FirstSlot
  <2>4. \A n \in Blanks : \E s \in FreeSlots : f[s] = n
    BY <2>2
  <2>5. f \in [FreeSlots -> Blanks]
    BY <2>1
  <2> HIDE DEF f, Blanks
  <2>6. f \in Bijection(FreeSlots, Blanks)
    BY <2>3, <2>4, <2>5 DEF Bijection, Injection, Surjection, IsInjective
  <2> QED
    BY <1>9, <2>6, FS_Bijection DEF ExistsBijection
<1>11. IsFiniteSet(Own) /\ Cardinality(Own) = Cardinality(OwnSlots)
  <2> DEFINE f == [n \in Own |-> images[n]]
  <2>1. \A n \in Own : images[n] \in OwnSlots /\ ids[images[n]] = n + FirstSlot - 1 /\ n \in Nat
    <3> TAKE n \in Own
    <3>1. n \in DOMAIN images /\ images[n] # Blank /\ n \in Nat /\ n >= 1
      BY <1>2
    <3>2. images[n] \in DOMAIN ids /\ ids[images[n]] = n + FirstSlot - 1
      BY <1>1, <3>1 DEF SlotsOK
    <3>3. ids[images[n]] # 1
      BY <3>1, <3>2 DEF FirstSlot
    <3> QED
      BY <1>5, <3>1, <3>2, <3>3
  <2>2. \A k \in OwnSlots : \E n \in Own : images[n] = k
    <3> TAKE k \in OwnSlots
    <3>1. Holds(images, ids[k], k) /\ k # Blank
      BY <1>1, <1>3, <1>5 DEF SlotsOK
    <3>2. ids[k] - FirstSlot + 1 \in 1..m /\ images[ids[k] - FirstSlot + 1] = k
      BY <1>4, <3>1
    <3> QED
      BY <3>1, <3>2
  <2>3. \A n, p \in Own : f[n] = f[p] => n = p
    BY <2>1 DEF FirstSlot
  <2>4. f \in [Own -> OwnSlots] /\ \A k \in OwnSlots : \E n \in Own : f[n] = k
    BY <2>1, <2>2
  <2>5. Own \subseteq 1..m
    OBVIOUS
  <2> HIDE DEF f, Own
  <2>6. f \in Bijection(Own, OwnSlots)
    BY <2>3, <2>4 DEF Bijection, Injection, Surjection, IsInjective
  <2>7. IsFiniteSet(Own)
    BY <1>8, <2>5, FS_Subset
  <2> QED
    BY <2>6, <2>7, FS_Bijection DEF ExistsBijection
<1>12. m = Cardinality(OwnSlots) + Len(free)
  <2>1. 1..m = Own \cup Blanks /\ Own \cap Blanks = {}
    OBVIOUS
  <2> HIDE DEF Own, Blanks
  <2>2. Cardinality(Own \cup Blanks) = Cardinality(Own) + Cardinality(Blanks) - Cardinality({})
    BY <1>10, <1>11, <2>1, FS_Union
  <2>3. Cardinality({}) = 0 /\ Cardinality(Own) \in Nat /\ Cardinality(Blanks) \in Nat
    BY <1>10, <1>11, FS_EmptySet, FS_CardinalityType
  <2>4. Cardinality(Own \cup Blanks) = m
    BY <1>8, <2>1
  <2> QED
    BY <1>2, <1>9, <1>10, <1>11, <2>2, <2>3, <2>4
<1> QED
  BY <1>6, <1>7, <1>9, <1>12 DEF SlotsAreTheirKeys, ids, images, free, m

\* Every key shows its own icon, and a slot that was given back is blank and
\* used by none: SlotsAreTheirKeys, for any number of keys and of rows.
THEOREM SlotsHoldTheirKeys == IconSpec => []SlotsAreTheirKeys
<1>1. IconInv => SlotsAreTheirKeys
  BY SlotsCounted DEF IconInv
<1> QED
  BY <1>1, IconInvariant, PTL
==============================================================================
