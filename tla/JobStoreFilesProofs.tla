-------------------------- MODULE JobStoreFilesProofs --------------------------
(***************************************************************************)
(* The job store's files, proved for any ids, documents, sizes, budget and *)
(* clock: the steps outside the mutex implement the bookkeeping of         *)
(* JobStore, and no order of the pending removals takes a file somebody    *)
(* still needs or leaves one that nobody will.                             *)
(*                                                                         *)
(* The invariant speaks about one id at a time.  A step acts on one id;    *)
(* every other id is a bystander, whose job the step may evict, expire or  *)
(* wipe but not change (Bystander).                                        *)
(***************************************************************************)
EXTENDS JobStoreFiles, JobStoreProofs

Unfinished(i) == i \in DOMAIN jobs /\ jobs[i].status \in {"pending", "processing"}
Offered(i) == i \in DOMAIN jobs /\ jobs[i].status # "removed"

FilesTyped ==
  /\ staging \in [Ids -> Staging]
  /\ files \in [Ids -> SUBSET Path]
  /\ dirs \subseteq Ids
  /\ disk \in [Ids -> SUBSET Path]
  /\ creating \in [Ids -> {None} \cup [doc : DocIds, made : BOOLEAN]]
  /\ doomedDirs \subseteq Ids
  /\ doomedFiles \subseteq Ids \X Path
  /\ wiping \in BOOLEAN
  /\ download \in {None} \cup [id : Ids, path : Path]

\* A closed store holds nothing, and only a closed one is wiped.
ClosedIsEmpty ==
  /\ closed => DOMAIN jobs = {} /\ DOMAIN reservations = {}
  /\ wiping => closed

\* Where the staging of id i is decides what the store can know of i.
StagingMatches(i) ==
  /\ i \in DOMAIN jobs => staging[i].state = "committed"
  /\ i \in DOMAIN reservations =>
       staging[i].state \in {"reserving", "made", "open", "committing", "aborting"}
  /\ staging[i].state \in {"none", "reserving"} => i \notin dirs
  /\ staging[i].state = "none" => i \notin doomedDirs
  /\ staging[i].state # "committed" =>
       creating[i] = None /\ \A p \in Path : <<i, p>> \notin doomedFiles
  /\ staging[i].state \in {"none", "reserving", "made", "open", "committing"} =>
       disk[i] \subseteq files[i]

\* What Commit checked still holds when it gets the mutex, unless the
\* reservation is gone by then.
CommitReady(i) ==
  staging[i].state = "committing" =>
    /\ staging[i].docs \in Committable
    /\ staging[i].at <= now /\ now <= staging[i].at + Lag
    /\ i \in DOMAIN reservations =>
         \A d \in DOMAIN staging[i].docs : <<d, "scan">> \in disk[i]

\* No removal still to come takes what is needed: neither the directory of an
\* open promise or an offered job, nor a document's file, nor the file that OCR
\* is writing for a job in the pipeline's hands.
RemovalsSpare(i) ==
  /\ i \in doomedDirs => i \notin DOMAIN reservations /\ ~Offered(i)
  /\ i \in DOMAIN jobs =>
       \A p \in DocPaths(i) : p \in disk[i] /\ <<i, p>> \notin doomedFiles
  /\ Unfinished(i) => \A d \in DocIds : <<i, <<d, "ocr">>>> \notin doomedFiles

\* Every file of an offered job is known to it, about to be removed, or in the
\* hands of the CreateFile that made it; and once the job is finished only its
\* documents' files are known.
FilesTracked(i) ==
  /\ creating[i] # None /\ i \in DOMAIN jobs => Unfinished(i)
  /\ Offered(i) => \A p \in disk[i] :
       \/ p \in files[i]
       \/ <<i, p>> \in doomedFiles
       \/ creating[i] # None /\ creating[i].made /\ p = <<creating[i].doc, "ocr">>
  /\ i \in FinishedIn(jobs) => files[i] \subseteq DocPaths(i)

\* Whose directory i is.
DirAccounted(i) ==
  i \in dirs => i \in doomedDirs \/ wiping \/ Unsettled(i) \/ Offered(i)

IdInv(i) ==
  /\ StagingMatches(i)
  /\ CommitReady(i)
  /\ RemovalsSpare(i)
  /\ FilesTracked(i)
  /\ DirAccounted(i)

\* A download that started refers to a document the job still has if the job
\* is still finished; it never is unfinished again.
DownloadHeld ==
  download # None =>
     /\ staging[download.id].state = "committed"
     /\ ~Unfinished(download.id)
     /\ download.id \in FinishedIn(jobs) => download.path \in DocPaths(download.id)

TreeInv ==
  /\ FilesTyped
  /\ ClosedIsEmpty
  /\ DownloadHeld
  /\ \A i \in Ids : IdInv(i)

FilesInv == IInv /\ TreeInv

-----------------------------------------------------------------------------
(***************************************************************************)
(* Implementation of JobStore.                                             *)
(***************************************************************************)
LEMMA ReleaseStep ==
  ASSUME NEW i \in Ids, Release(i)
  PROVE  [Next]_storeVars
BY DEF Release, Next

LEMMA EndCommitStep ==
  ASSUME now \in Nat, staging \in [Ids -> Staging],
         NEW i \in Ids, CommitReady(i), NEW caps \in Caps, EndCommit(i, caps)
  PROVE  [Next]_storeVars
<1>1. staging[i].state = "committing"
  BY DEF EndCommit
<1>2. CASE closed \/ i \notin DOMAIN reservations
  BY <1>2 DEF EndCommit
<1>3. CASE ~(closed \/ i \notin DOMAIN reservations)
  <2>1. Commit(i, caps, staging[i].docs, staging[i].at)
    BY <1>3 DEF EndCommit
  <2>2. staging[i].docs \in Committable /\ staging[i].at \in Recent
    <3>1. staging[i].at \in Nat
      BY DEF Staging
    <3>2. /\ staging[i].docs \in Committable
          /\ staging[i].at <= now /\ now <= staging[i].at + Lag
      BY <1>1 DEF CommitReady
    <3>3. QED BY <3>1, <3>2, StoreAssumption DEF Recent
  <2>3. QED BY <2>1, <2>2 DEF Next
<1>4. QED BY <1>2, <1>3

\* Every step of the files is a step of the store or none.
LEMMA StoreStep ==
  ASSUME now \in Nat, staging \in [Ids -> Staging], \A i \in Ids : CommitReady(i),
         [FilesNext]_vars
  PROVE  [Next]_storeVars
<1>1. CASE UNCHANGED vars
  BY <1>1 DEF vars
<1>2. ASSUME NEW i \in Ids, BeginReserve(i)
      PROVE  [Next]_storeVars
  BY <1>2 DEF BeginReserve, Next
<1>3. ASSUME NEW i \in Ids, MakeStagingDirFails(i) \/ EndReserve(i) \/ EndAbort(i)
      PROVE  [Next]_storeVars
  BY <1>3, ReleaseStep DEF MakeStagingDirFails, EndReserve, EndAbort
<1>4. ASSUME NEW i \in Ids, NEW caps \in Caps, EndCommit(i, caps)
      PROVE  [Next]_storeVars
  BY <1>4, EndCommitStep
<1>5. ASSUME NEW i \in Ids, NEW status \in {"processing", "ready", "failed"},
             UpdateStatus(i, status)
      PROVE  [Next]_storeVars
  <2>1. LegalStatus(i, status) /\ SetStatus(i, status)
    BY <1>5 DEF UpdateStatus, Owned, LegalStatus
  <2>2. QED BY <2>1 DEF Next
<1>6. ASSUME NEW i \in Ids, NEW d \in DocIds, NEW size \in Sizes,
             SwapDocument(i, d, size)
      PROVE  [Next]_storeVars
  BY <1>6 DEF SwapDocument, Next
<1>7. ASSUME NEW i \in Ids, DeleteJob(i)
      PROVE  [Next]_storeVars
  BY <1>7 DEF DeleteJob, Next
<1>8. ASSUME NEW at \in Recent, Sweep(at)
      PROVE  [Next]_storeVars
  BY <1>8 DEF Sweep, Next
<1>9. CASE CloseStore \/ FilesTick
  BY <1>9 DEF CloseStore, FilesTick, Next
<1>10. ASSUME NEW i \in Ids,
              \/ MakeStagingDir(i) \/ BeginAbort(i) \/ MakeTempFile(i)
              \/ EndCreateFile(i) \/ RemoveDir(i)
       PROVE  UNCHANGED storeVars
  BY <1>10 DEF MakeStagingDir, BeginAbort, MakeTempFile, EndCreateFile, RemoveDir
<1>11. ASSUME NEW i \in Ids, NEW d \in DocIds,
              StageFile(i, d) \/ BeginCreateFile(i, d) \/ BeginDownload(i, d)
       PROVE  UNCHANGED storeVars
  BY <1>11 DEF StageFile, BeginCreateFile, BeginDownload
<1>12. ASSUME NEW i \in Ids, NEW docs \in Committable, BeginCommit(i, docs)
       PROVE  UNCHANGED storeVars
  BY <1>12 DEF BeginCommit
<1>13. ASSUME NEW i \in Ids, NEW path \in Path, RemoveFile(i, path)
       PROVE  UNCHANGED storeVars
  BY <1>13 DEF RemoveFile
<1>14. CASE Wipe \/ EndDownload
  BY <1>14 DEF Wipe, EndDownload
<1>15. QED
  BY <1>1, <1>2, <1>3, <1>4, <1>5, <1>6, <1>7, <1>8, <1>9, <1>10, <1>11, <1>12,
     <1>13, <1>14 DEF FilesNext

-----------------------------------------------------------------------------
(***************************************************************************)
(* Bystanders.                                                             *)
(***************************************************************************)
LEMMA SameDocPaths ==
  ASSUME NEW k, jobs'[k].docs = jobs[k].docs
  PROVE  DocPaths(k)' = DocPaths(k)
BY DEF DocPaths

LEMMA NoDocPaths ==
  ASSUME NEW k, jobs[k].docs = NoEntries
  PROVE  DocPaths(k) = {}
BY DEF DocPaths, NoEntries

\* The step leaves k's files where they are ...
UntouchedFiles(k) ==
  /\ staging'[k] = staging[k] /\ creating'[k] = creating[k] /\ disk'[k] = disk[k]
  /\ k \in dirs' <=> k \in dirs
  /\ \A p : <<k, p>> \in doomedFiles' <=> <<k, p>> \in doomedFiles

\* ... and its record, too, ...
SameRecord(k) ==
  /\ k \in DOMAIN jobs' <=> k \in DOMAIN jobs
  /\ k \in DOMAIN jobs => jobs'[k] = jobs[k]
  /\ files'[k] = files[k]

\* ... or it ends the record and dooms the directory.
LostRecord(k) ==
  /\ k \in DOMAIN jobs
  /\ k \in DOMAIN jobs' => /\ k \in FinishedIn(jobs)
                          /\ jobs'[k].status = "removed" /\ jobs'[k].docs = NoEntries
  /\ k \in doomedDirs' \/ wiping'

\* A directory the step dooms is nobody's any more.
RightlyDoomed(k) ==
  /\ k \in doomedDirs => k \in doomedDirs'
  /\ k \in doomedDirs' \ doomedDirs =>
       /\ staging'[k].state # "none"
       /\ k \notin DOMAIN reservations'
       /\ k \in DOMAIN jobs' => jobs'[k].status = "removed"

LEMMA Bystander ==
  ASSUME NEW k \in Ids, IdInv(k), UntouchedFiles(k),
         SameRecord(k) \/ LostRecord(k), RightlyDoomed(k),
         k \in DOMAIN reservations' => k \in DOMAIN reservations,
         wiping => wiping', now' = now
  PROVE  IdInv(k)'
<1>1. StagingMatches(k)'
  BY DEF IdInv, StagingMatches, UntouchedFiles, SameRecord, LostRecord, RightlyDoomed
<1>2. CommitReady(k)'
  BY DEF IdInv, CommitReady, UntouchedFiles
<1>3. CASE SameRecord(k)
  <2>1. k \in DOMAIN jobs => DocPaths(k)' = DocPaths(k)
    BY <1>3, SameDocPaths DEF SameRecord
  <2>2. RemovalsSpare(k)'
    BY <1>3, <2>1 DEF IdInv, RemovalsSpare, UntouchedFiles, SameRecord, RightlyDoomed,
         Offered, Unfinished
  <2>3. FilesTracked(k)'
    BY <1>3, <2>1 DEF IdInv, FilesTracked, UntouchedFiles, SameRecord, Offered,
         Unfinished, FinishedIn, Finished
  <2>4. DirAccounted(k)'
    BY <1>3 DEF IdInv, DirAccounted, UntouchedFiles, SameRecord, RightlyDoomed,
         Offered, Unsettled
  <2>5. QED BY <1>1, <1>2, <2>2, <2>3, <2>4 DEF IdInv
<1>4. CASE LostRecord(k)
  <2>1. k \in DOMAIN jobs' => DocPaths(k)' = {}
    BY <1>4 DEF LostRecord, DocPaths, NoEntries
  <2>2. RemovalsSpare(k)'
    BY <1>4, <2>1 DEF IdInv, RemovalsSpare, StagingMatches, UntouchedFiles, LostRecord,
         RightlyDoomed, Offered, Unfinished
  <2>3. FilesTracked(k)'
    BY <1>4 DEF IdInv, FilesTracked, UntouchedFiles, LostRecord, Offered,
         Unfinished, FinishedIn, Finished
  <2>4. DirAccounted(k)'
    BY <1>4 DEF DirAccounted, LostRecord
  <2>5. QED BY <1>1, <1>2, <2>2, <2>3, <2>4 DEF IdInv
<1>5. QED BY <1>3, <1>4


-----------------------------------------------------------------------------
(***************************************************************************)
(* The steps that leave the bookkeeping alone.                             *)
(***************************************************************************)
LEMMA QuietBystander ==
  ASSUME TreeInv, UNCHANGED storeVars, NEW k \in Ids, UntouchedFiles(k),
         files'[k] = files[k], k \in doomedDirs' <=> k \in doomedDirs, wiping' = wiping
  PROVE  IdInv(k)'
<1>1. /\ IdInv(k) /\ SameRecord(k) /\ RightlyDoomed(k)
      /\ reservations' = reservations /\ now' = now
  BY DEF TreeInv, SameRecord, RightlyDoomed, storeVars
<1>2. QED BY <1>1, Bystander

LEMMA QuietGlobals ==
  ASSUME TreeInv, UNCHANGED storeVars, wiping' = wiping, download' = download,
         \A k \in Ids : staging[k].state = "committed" => staging'[k].state = "committed"
  PROVE  ClosedIsEmpty' /\ DownloadHeld'
<1>1. ClosedIsEmpty'
  BY DEF TreeInv, ClosedIsEmpty, storeVars
<1>2. CASE download = None
  BY <1>1, <1>2 DEF DownloadHeld
<1>3. CASE download # None
  <2>1. download.id \in Ids
    BY <1>3 DEF TreeInv, FilesTyped
  <2>2. jobs' = jobs
    BY DEF storeVars
  <2>3. DocPaths(download.id)' = DocPaths(download.id)
    BY <2>2 DEF DocPaths
  <2>4. QED
    BY <1>1, <1>3, <2>1, <2>2, <2>3
       DEF TreeInv, DownloadHeld, Unfinished, FinishedIn, Finished
<1>4. QED BY <1>2, <1>3

LEMMA MakeStagingDirTree ==
  ASSUME FilesInv, NEW i \in Ids, MakeStagingDir(i)
  PROVE  TreeInv'
<1>1. /\ TreeInv /\ FilesTyped /\ IdInv(i) /\ UNCHANGED storeVars
      /\ staging[i].state = "reserving" /\ staging'[i] = [staging[i] EXCEPT !.state = "made"]
      /\ staging[i] \in Staging
      /\ \A k \in Ids \ {i} : staging'[k] = staging[k]
      /\ dirs' = dirs \cup {i}
      /\ UNCHANGED <<files, disk, creating, doomedDirs, doomedFiles, wiping, download>>
  BY DEF FilesInv, TreeInv, FilesTyped, MakeStagingDir, Becomes
<1>2. staging'[i].state = "made" /\ staging'[i] \in Staging
  BY <1>1 DEF Staging, StagingState
<1>3. FilesTyped'
  BY <1>1, <1>2 DEF FilesTyped, MakeStagingDir, Becomes
<1>4. ClosedIsEmpty' /\ DownloadHeld'
  BY <1>1, QuietGlobals
<1>5. ASSUME NEW k \in Ids \ {i} PROVE IdInv(k)'
  BY <1>1, QuietBystander DEF UntouchedFiles
<1>6. IdInv(i)'
  <2>1. jobs' = jobs /\ reservations' = reservations /\ now' = now
    BY <1>1 DEF storeVars
  <2>2. i \notin DOMAIN jobs
    BY <1>1 DEF IdInv, StagingMatches
  <2>3. StagingMatches(i)'
    BY <1>1, <1>2, <2>1 DEF IdInv, StagingMatches
  <2>4. CommitReady(i)' /\ DirAccounted(i)'
    BY <1>2 DEF CommitReady, DirAccounted, Unsettled
  <2>5. RemovalsSpare(i)' /\ FilesTracked(i)'
    BY <1>1, <2>1, <2>2
       DEF IdInv, RemovalsSpare, FilesTracked, Offered, Unfinished, FinishedIn
  <2>6. QED BY <2>3, <2>4, <2>5 DEF IdInv
<1>7. QED BY <1>3, <1>4, <1>5, <1>6 DEF TreeInv

LEMMA StageFileTree ==
  ASSUME FilesInv, NEW i \in Ids, NEW d \in DocIds, StageFile(i, d)
  PROVE  TreeInv'
<1>1. /\ TreeInv /\ IdInv(i) /\ UNCHANGED storeVars
      /\ staging[i].state = "open"
      /\ files'[i] = files[i] \cup {<<d, "scan">>} /\ disk'[i] = disk[i] \cup {<<d, "scan">>}
      /\ \A k \in Ids \ {i} : files'[k] = files[k] /\ disk'[k] = disk[k]
      /\ UNCHANGED <<staging, dirs, creating, doomedDirs, doomedFiles, wiping, download>>
  BY DEF FilesInv, TreeInv, FilesTyped, StageFile
<1>2. FilesTyped'
  BY <1>1 DEF TreeInv, FilesTyped, StageFile, Path
<1>3. ClosedIsEmpty' /\ DownloadHeld'
  BY <1>1, QuietGlobals
<1>4. ASSUME NEW k \in Ids \ {i} PROVE IdInv(k)'
  BY <1>1, <1>4, QuietBystander DEF UntouchedFiles
<1>5. IdInv(i)'
  <2>1. jobs' = jobs /\ reservations' = reservations /\ now' = now
    BY <1>1 DEF storeVars
  <2>2. i \notin DOMAIN jobs
    BY <1>1 DEF IdInv, StagingMatches
  <2>3. StagingMatches(i)'
    BY <1>1, <2>1 DEF IdInv, StagingMatches
  <2>4. CommitReady(i)' /\ DirAccounted(i)'
    BY <1>1 DEF CommitReady, DirAccounted, Unsettled
  <2>5. RemovalsSpare(i)' /\ FilesTracked(i)'
    BY <1>1, <2>1, <2>2
       DEF IdInv, RemovalsSpare, FilesTracked, Offered, Unfinished, FinishedIn
  <2>6. QED BY <2>3, <2>4, <2>5 DEF IdInv
<1>6. QED BY <1>2, <1>3, <1>4, <1>5 DEF TreeInv

LEMMA BeginCommitTree ==
  ASSUME FilesInv, NEW i \in Ids, NEW docs \in Committable, BeginCommit(i, docs)
  PROVE  TreeInv'
<1> DEFINE stage == [state |-> "committing", docs |-> docs, at |-> now]
<1>1. /\ TreeInv /\ IdInv(i) /\ UNCHANGED storeVars
      /\ staging[i].state = "open"
      /\ \A d \in DOMAIN docs : <<d, "scan">> \in disk[i]
      /\ staging' = [staging EXCEPT ![i] = stage] /\ staging'[i] = stage
      /\ \A k \in Ids \ {i} : staging'[k] = staging[k]
      /\ UNCHANGED <<files, dirs, disk, creating, doomedDirs, doomedFiles, wiping, download>>
  BY DEF FilesInv, TreeInv, FilesTyped, BeginCommit
<1>2. now \in Nat /\ docs \in Documents
  BY DEF FilesInv, IInv, TypeOK, Committable
<1>3. FilesTyped'
  <2>1. stage \in Staging
    BY <1>2 DEF Staging, StagingState
  <2> HIDE DEF stage
  <2>2. QED BY <1>1, <2>1 DEF TreeInv, FilesTyped
<1>4. ClosedIsEmpty' /\ DownloadHeld'
  BY <1>1, QuietGlobals
<1>5. ASSUME NEW k \in Ids \ {i} PROVE IdInv(k)'
  BY <1>1, <1>5, QuietBystander DEF UntouchedFiles
<1>6. IdInv(i)'
  <2>1. jobs' = jobs /\ reservations' = reservations /\ now' = now
    BY <1>1 DEF storeVars
  <2>2. i \notin DOMAIN jobs
    BY <1>1 DEF IdInv, StagingMatches
  <2>3. StagingMatches(i)'
    BY <1>1, <2>1 DEF IdInv, StagingMatches
  <2>4. CommitReady(i)'
    BY <1>1, <1>2, <2>1, StoreAssumption DEF CommitReady
  <2>5. DirAccounted(i)'
    BY <1>1 DEF DirAccounted, Unsettled
  <2>6. RemovalsSpare(i)' /\ FilesTracked(i)'
    BY <1>1, <2>1, <2>2
       DEF IdInv, RemovalsSpare, FilesTracked, Offered, Unfinished, FinishedIn
  <2>7. QED BY <2>3, <2>4, <2>5, <2>6 DEF IdInv
<1>7. QED BY <1>3, <1>4, <1>5, <1>6 DEF TreeInv

LEMMA BeginAbortTree ==
  ASSUME FilesInv, NEW i \in Ids, BeginAbort(i)
  PROVE  TreeInv'
<1>1. /\ TreeInv /\ IdInv(i) /\ UNCHANGED storeVars
      /\ staging[i].state = "open" /\ staging'[i] = [staging[i] EXCEPT !.state = "aborting"]
      /\ staging[i] \in Staging
      /\ \A k \in Ids \ {i} : staging'[k] = staging[k]
      /\ UNCHANGED <<files, dirs, disk, creating, doomedDirs, doomedFiles, wiping, download>>
  BY DEF FilesInv, TreeInv, FilesTyped, BeginAbort, Becomes
<1>2. staging'[i].state = "aborting" /\ staging'[i] \in Staging
  BY <1>1 DEF Staging, StagingState
<1>3. FilesTyped'
  BY <1>1, <1>2 DEF TreeInv, FilesTyped, BeginAbort, Becomes
<1>4. ClosedIsEmpty' /\ DownloadHeld'
  BY <1>1, QuietGlobals
<1>5. ASSUME NEW k \in Ids \ {i} PROVE IdInv(k)'
  BY <1>1, <1>5, QuietBystander DEF UntouchedFiles
<1>6. IdInv(i)'
  <2>1. jobs' = jobs /\ reservations' = reservations
    BY <1>1 DEF storeVars
  <2>2. i \notin DOMAIN jobs
    BY <1>1 DEF IdInv, StagingMatches
  <2>3. StagingMatches(i)'
    BY <1>1, <1>2, <2>1 DEF IdInv, StagingMatches
  <2>4. CommitReady(i)' /\ DirAccounted(i)'
    BY <1>2 DEF CommitReady, DirAccounted, Unsettled
  <2>5. RemovalsSpare(i)' /\ FilesTracked(i)'
    BY <1>1, <2>1, <2>2
       DEF IdInv, RemovalsSpare, FilesTracked, Offered, Unfinished, FinishedIn
  <2>6. QED BY <2>3, <2>4, <2>5 DEF IdInv
<1>7. QED BY <1>3, <1>4, <1>5, <1>6 DEF TreeInv

\* What a step on the files of one job, committed before, has to show.
LEMMA OneJobTree ==
  ASSUME TreeInv, UNCHANGED <<storeVars, staging, wiping, download>>, FilesTyped',
         NEW i \in Ids,
         \A k \in Ids \ {i} :
            UntouchedFiles(k) /\ files'[k] = files[k] /\ (k \in doomedDirs' <=> k \in doomedDirs),
         StagingMatches(i)', CommitReady(i)', RemovalsSpare(i)', FilesTracked(i)',
         DirAccounted(i)'
  PROVE  TreeInv'
<1>1. ClosedIsEmpty' /\ DownloadHeld'
  BY QuietGlobals
<1>2. ASSUME NEW k \in Ids \ {i} PROVE IdInv(k)'
  BY <1>2, QuietBystander
<1>3. IdInv(i)'
  BY DEF IdInv
<1>4. QED BY <1>1, <1>2, <1>3 DEF TreeInv

LEMMA BeginCreateFileTree ==
  ASSUME FilesInv, NEW i \in Ids, NEW d \in DocIds, BeginCreateFile(i, d)
  PROVE  TreeInv'
<1> DEFINE call == [doc |-> d, made |-> FALSE]
<1>1. /\ TreeInv /\ IdInv(i) /\ jobs' = jobs /\ reservations' = reservations /\ now' = now
      /\ i \in DOMAIN jobs /\ jobs[i].status = "processing" /\ creating[i] = None
      /\ creating' = [creating EXCEPT ![i] = call] /\ creating'[i] = call
      /\ \A k \in Ids \ {i} : creating'[k] = creating[k]
      /\ UNCHANGED <<storeVars, staging, files, dirs, disk, doomedDirs, doomedFiles,
                     wiping, download>>
  BY DEF FilesInv, TreeInv, FilesTyped, BeginCreateFile, Owned, storeVars
<1>2. FilesTyped'
  <2>1. call \in [doc : DocIds, made : BOOLEAN]
    OBVIOUS
  <2> HIDE DEF call
  <2>2. QED BY <1>1, <2>1 DEF TreeInv, FilesTyped
<1>3. \A k \in Ids \ {i} :
         UntouchedFiles(k) /\ files'[k] = files[k] /\ (k \in doomedDirs' <=> k \in doomedDirs)
  BY <1>1 DEF UntouchedFiles
<1>4. StagingMatches(i)' /\ CommitReady(i)'
  BY <1>1 DEF IdInv, StagingMatches, CommitReady
<1>5. DocPaths(i)' = DocPaths(i)
  BY <1>1, SameDocPaths
<1>6. RemovalsSpare(i)'
  BY <1>1, <1>5 DEF IdInv, RemovalsSpare, Offered, Unfinished
<1>7. FilesTracked(i)'
  BY <1>1 DEF IdInv, FilesTracked, Offered, Unfinished, FinishedIn, Finished
<1>8. DirAccounted(i)'
  BY <1>1 DEF IdInv, DirAccounted, Offered, Unsettled
<1>9. QED BY <1>1, <1>2, <1>3, <1>4, <1>6, <1>7, <1>8, OneJobTree

LEMMA MakeTempFileTree ==
  ASSUME FilesInv, NEW i \in Ids, MakeTempFile(i)
  PROVE  TreeInv'
<1>1. /\ TreeInv /\ IdInv(i) /\ jobs' = jobs /\ reservations' = reservations /\ now' = now
      /\ creating[i] # None /\ ~creating[i].made
      /\ creating[i] \in [doc : DocIds, made : BOOLEAN]
      /\ UNCHANGED <<storeVars, staging, files, dirs, doomedDirs, doomedFiles,
                     wiping, download>>
  BY DEF FilesInv, TreeInv, FilesTyped, MakeTempFile, storeVars
<1> DEFINE path == <<creating[i].doc, "ocr">>
<1>2. \/ /\ creating' = [creating EXCEPT ![i] = None] /\ disk' = disk
      \/ /\ creating' = [creating EXCEPT ![i] = [creating[i] EXCEPT !.made = TRUE]]
         /\ disk' = [disk EXCEPT ![i] = disk[i] \cup {path}]
  BY DEF MakeTempFile
<1>3. /\ creating'[i] = None \/ creating'[i] = [creating[i] EXCEPT !.made = TRUE]
      /\ disk'[i] = disk[i] \/ disk'[i] = disk[i] \cup {path}
      /\ creating'[i] = None => disk'[i] = disk[i]
      /\ \A k \in Ids \ {i} : creating'[k] = creating[k] /\ disk'[k] = disk[k]
      /\ disk[i] \subseteq disk'[i]
  <2>1. creating \in [Ids -> {None} \cup [doc : DocIds, made : BOOLEAN]]
        /\ disk \in [Ids -> SUBSET Path]
    BY <1>1 DEF TreeInv, FilesTyped
  <2>2. [creating[i] EXCEPT !.made = TRUE] \in [doc : DocIds, made : BOOLEAN]
    BY <1>1
  <2>3. [creating[i] EXCEPT !.made = TRUE] # None
    BY <2>2, FilesAssumption
  <2> HIDE DEF path
  <2>4. QED BY <1>2, <2>1, <2>3
<1>4. FilesTyped'
  <2>1. [creating[i] EXCEPT !.made = TRUE] \in [doc : DocIds, made : BOOLEAN]
    BY <1>1
  <2>2. path \in Path
    BY <1>1 DEF Path
  <2> DEFINE call == [creating[i] EXCEPT !.made = TRUE]
             Call == {None} \cup [doc : DocIds, made : BOOLEAN]
  <2>3. call \in Call /\ None \in Call
    BY <2>1
  <2>4. /\ \/ creating' = [creating EXCEPT ![i] = None] /\ disk' = disk
           \/ /\ creating' = [creating EXCEPT ![i] = call]
              /\ disk' = [disk EXCEPT ![i] = disk[i] \cup {path}]
        /\ creating \in [Ids -> Call] /\ disk \in [Ids -> SUBSET Path]
    BY <1>1, <1>2 DEF TreeInv, FilesTyped
  <2> HIDE DEF path, call, Call
  <2>5. creating' \in [Ids -> Call] /\ disk' \in [Ids -> SUBSET Path]
    BY <2>2, <2>3, <2>4
  <2>6. QED BY <1>1, <2>5 DEF TreeInv, FilesTyped, Call
<1>5. \A k \in Ids \ {i} :
         UntouchedFiles(k) /\ files'[k] = files[k] /\ (k \in doomedDirs' <=> k \in doomedDirs)
  BY <1>1, <1>3 DEF UntouchedFiles
<1>6. StagingMatches(i)' /\ CommitReady(i)'
  BY <1>1, <1>3 DEF IdInv, StagingMatches, CommitReady
<1>7. DocPaths(i)' = DocPaths(i)
  BY <1>1, SameDocPaths
<1>8. RemovalsSpare(i)'
  BY <1>1, <1>3, <1>7 DEF IdInv, RemovalsSpare, Offered, Unfinished
<1>9. FilesTracked(i)'
  <2>1. CASE creating'[i] = None
    BY <1>1, <1>3, <1>7, <2>1
       DEF IdInv, FilesTracked, Offered, Unfinished, FinishedIn, Finished
  <2>2. CASE creating'[i] = [creating[i] EXCEPT !.made = TRUE]
    <3>1. creating'[i].made /\ <<creating'[i].doc, "ocr">> = path
      BY <1>1, <2>2
    <3> HIDE DEF path
    <3>2. creating'[i] # None
      BY <1>1, <2>2, FilesAssumption
    <3>3. QED
      BY <1>1, <1>3, <1>7, <3>1, <3>2
         DEF IdInv, FilesTracked, Offered, Unfinished, FinishedIn, Finished
  <2>3. QED BY <1>3, <2>1, <2>2
<1>10. DirAccounted(i)'
  BY <1>1 DEF IdInv, DirAccounted, Offered, Unsettled
<1>11. QED BY <1>1, <1>4, <1>5, <1>6, <1>8, <1>9, <1>10, OneJobTree

LEMMA EndCreateFileTree ==
  ASSUME FilesInv, NEW i \in Ids, EndCreateFile(i)
  PROVE  TreeInv'
<1> DEFINE path == <<creating[i].doc, "ocr">>
<1>1. /\ TreeInv /\ IdInv(i) /\ jobs' = jobs /\ reservations' = reservations /\ now' = now
      /\ creating[i] # None /\ creating[i].made
      /\ creating[i] \in [doc : DocIds, made : BOOLEAN]
      /\ creating' = [creating EXCEPT ![i] = None] /\ creating'[i] = None
      /\ \A k \in Ids \ {i} : creating'[k] = creating[k]
      /\ UNCHANGED <<storeVars, staging, disk, dirs, doomedDirs, wiping, download>>
  BY DEF FilesInv, TreeInv, FilesTyped, EndCreateFile, storeVars
<1>2. \/ /\ ~Offered(i)
         /\ doomedFiles' = doomedFiles \cup {<<i, path>>} /\ files' = files
      \/ /\ Offered(i)
         /\ files' = [files EXCEPT ![i] = files[i] \cup {path}] /\ doomedFiles' = doomedFiles
  BY DEF EndCreateFile, Offered
<1>3. path \in Path /\ path = <<creating[i].doc, "ocr">>
  BY <1>1 DEF Path
<1> HIDE DEF path
<1>4. FilesTyped'
  BY <1>1, <1>2, <1>3 DEF TreeInv, FilesTyped
<1>5. \A k \in Ids \ {i} :
         UntouchedFiles(k) /\ files'[k] = files[k] /\ (k \in doomedDirs' <=> k \in doomedDirs)
  BY <1>1, <1>2 DEF UntouchedFiles, TreeInv, FilesTyped
<1>6. staging[i].state = "committed"
  BY <1>1 DEF IdInv, StagingMatches
<1>7. StagingMatches(i)' /\ CommitReady(i)'
  BY <1>1, <1>6 DEF IdInv, StagingMatches, CommitReady
<1>8. DocPaths(i)' = DocPaths(i)
  BY <1>1, SameDocPaths
<1>9. DirAccounted(i)'
  BY <1>1 DEF IdInv, DirAccounted, Offered, Unsettled
<1>10. RemovalsSpare(i)' /\ FilesTracked(i)'
  <2>1. CASE ~Offered(i)
    <3>1. i \in DOMAIN jobs => DocPaths(i) = {}
      <4>1. i \in DOMAIN jobs => jobs[i].docs = NoEntries
        BY <2>1 DEF Offered, FilesInv, IInv, TombstonesHoldNothing
      <4>2. QED BY <4>1, NoDocPaths
    <3>2. QED
      BY <1>1, <1>8, <2>1, <3>1
         DEF IdInv, RemovalsSpare, FilesTracked, Offered, Unfinished, FinishedIn, Finished
  <2>2. CASE Offered(i)
    <3>1. /\ files'[i] = files[i] \cup {path} /\ doomedFiles' = doomedFiles
          /\ Unfinished(i)
      BY <1>1, <1>2, <2>2 DEF TreeInv, FilesTyped, IdInv, FilesTracked, Offered
    <3>2. QED
      BY <1>1, <1>3, <1>8, <2>2, <3>1
         DEF IdInv, RemovalsSpare, FilesTracked, Offered, Unfinished, FinishedIn, Finished
  <2>3. QED BY <2>1, <2>2
<1>11. QED BY <1>1, <1>4, <1>5, <1>7, <1>9, <1>10, OneJobTree

LEMMA RemoveDirTree ==
  ASSUME FilesInv, NEW i \in Ids, RemoveDir(i)
  PROVE  TreeInv'
<1>1. /\ TreeInv /\ IdInv(i) /\ jobs' = jobs /\ reservations' = reservations /\ now' = now
      /\ i \in doomedDirs /\ doomedDirs' = doomedDirs \ {i} /\ dirs' = dirs \ {i}
      /\ disk'[i] = {}
      /\ \A k \in Ids \ {i} : disk'[k] = disk[k]
      /\ UNCHANGED <<storeVars, staging, files, creating, doomedFiles, wiping, download>>
  BY DEF FilesInv, TreeInv, FilesTyped, RemoveDir, storeVars
<1>2. FilesTyped'
  BY <1>1 DEF TreeInv, FilesTyped, RemoveDir
<1>3. \A k \in Ids \ {i} :
         UntouchedFiles(k) /\ files'[k] = files[k] /\ (k \in doomedDirs' <=> k \in doomedDirs)
  BY <1>1 DEF UntouchedFiles
<1>4. i \notin DOMAIN reservations /\ ~Offered(i)
  BY <1>1 DEF IdInv, RemovalsSpare
<1>5. StagingMatches(i)' /\ CommitReady(i)' /\ DirAccounted(i)'
  BY <1>1, <1>4 DEF IdInv, StagingMatches, CommitReady, DirAccounted
<1>6. i \in DOMAIN jobs => DocPaths(i)' = {}
  <2>1. i \in DOMAIN jobs => jobs[i].docs = NoEntries
    BY <1>4 DEF Offered, FilesInv, IInv, TombstonesHoldNothing
  <2>2. QED BY <1>1, <2>1, NoDocPaths, SameDocPaths
<1>7. RemovalsSpare(i)' /\ FilesTracked(i)'
  BY <1>1, <1>4, <1>6
     DEF IdInv, RemovalsSpare, FilesTracked, Offered, Unfinished, FinishedIn, Finished
<1>8. QED BY <1>1, <1>2, <1>3, <1>5, <1>7, OneJobTree

LEMMA RemoveFileTree ==
  ASSUME FilesInv, NEW i \in Ids, NEW path \in Path, RemoveFile(i, path)
  PROVE  TreeInv'
<1>1. /\ TreeInv /\ IdInv(i) /\ jobs' = jobs /\ reservations' = reservations /\ now' = now
      /\ <<i, path>> \in doomedFiles /\ doomedFiles' = doomedFiles \ {<<i, path>>}
      /\ disk'[i] = disk[i] \ {path}
      /\ \A k \in Ids \ {i} : disk'[k] = disk[k]
      /\ UNCHANGED <<storeVars, staging, files, dirs, creating, doomedDirs, wiping, download>>
  BY DEF FilesInv, TreeInv, FilesTyped, RemoveFile, storeVars
<1>2. FilesTyped'
  BY <1>1 DEF TreeInv, FilesTyped, RemoveFile
<1>3. \A k \in Ids \ {i} :
         UntouchedFiles(k) /\ files'[k] = files[k] /\ (k \in doomedDirs' <=> k \in doomedDirs)
  BY <1>1 DEF UntouchedFiles
<1>4. staging[i].state = "committed"
  BY <1>1 DEF IdInv, StagingMatches
<1>5. StagingMatches(i)' /\ CommitReady(i)'
  BY <1>1, <1>4 DEF IdInv, StagingMatches, CommitReady
<1>6. DirAccounted(i)'
  BY <1>1 DEF IdInv, DirAccounted, Offered, Unsettled
<1>7. DocPaths(i)' = DocPaths(i)
  BY <1>1, SameDocPaths
<1>8. RemovalsSpare(i)' /\ FilesTracked(i)'
  BY <1>1, <1>7
     DEF IdInv, RemovalsSpare, FilesTracked, Offered, Unfinished, FinishedIn, Finished
<1>9. QED BY <1>1, <1>2, <1>3, <1>5, <1>6, <1>8, OneJobTree

\* By the time the tree is wiped, no record is left to miss it.
LEMMA WipeTree ==
  ASSUME FilesInv, Wipe
  PROVE  TreeInv'
<1>1. /\ TreeInv /\ jobs' = jobs /\ reservations' = reservations /\ now' = now
      /\ wiping /\ wiping' = FALSE /\ dirs' = {}
      /\ \A k \in Ids : disk'[k] = {}
      /\ DOMAIN jobs = {} /\ DOMAIN reservations = {}
      /\ UNCHANGED <<storeVars, staging, files, creating, doomedDirs, doomedFiles, download>>
  BY DEF FilesInv, TreeInv, FilesTyped, Wipe, storeVars, ClosedIsEmpty
<1>2. FilesTyped' /\ ClosedIsEmpty'
  BY <1>1 DEF TreeInv, FilesTyped, Wipe, ClosedIsEmpty, storeVars
<1>3. DownloadHeld'
  BY <1>1 DEF TreeInv, DownloadHeld, Unfinished, FinishedIn
<1>4. ASSUME NEW k \in Ids PROVE IdInv(k)'
  <2>1. IdInv(k)
    BY <1>1 DEF TreeInv
  <2>2. QED
    BY <1>1, <2>1
       DEF IdInv, StagingMatches, CommitReady, RemovalsSpare, FilesTracked, DirAccounted,
           Offered, Unfinished, FinishedIn
<1>5. QED BY <1>2, <1>3, <1>4 DEF TreeInv

LEMMA DownloadTree ==
  ASSUME FilesInv, \/ \E i \in Ids, d \in DocIds : BeginDownload(i, d)
                   \/ EndDownload
  PROVE  TreeInv'
<1>1. /\ TreeInv /\ jobs' = jobs /\ reservations' = reservations /\ now' = now
      /\ UNCHANGED <<storeVars, staging, files, dirs, disk, creating, doomedDirs,
                     doomedFiles, wiping>>
  BY DEF FilesInv, BeginDownload, EndDownload, storeVars
<1>2. ClosedIsEmpty'
  BY <1>1 DEF TreeInv, ClosedIsEmpty, storeVars
<1>3. ASSUME NEW k \in Ids PROVE IdInv(k)'
  BY <1>1, QuietBystander DEF UntouchedFiles
<1>4. (download' \in {None} \cup [id : Ids, path : Path]) /\ DownloadHeld'
  <2>1. CASE EndDownload
    BY <2>1 DEF EndDownload, DownloadHeld
  <2>2. ASSUME NEW i \in Ids, NEW d \in DocIds, BeginDownload(i, d)
        PROVE  (download' \in {None} \cup [id : Ids, path : Path]) /\ DownloadHeld'
    <3> DEFINE path == PathOf(d, jobs[i].docs[d])
    <3>1. /\ download' = [id |-> i, path |-> path]
          /\ i \in DOMAIN jobs /\ d \in DOMAIN jobs[i].docs
          /\ jobs[i].status \notin {"pending", "processing"}
      BY <2>2 DEF BeginDownload, Listed, Visible
    <3>2. path \in Path /\ path \in DocPaths(i)
      BY <3>1 DEF PathOf, Path, DocPaths
    <3>3. staging[i].state = "committed"
      BY <1>1, <3>1 DEF TreeInv, IdInv, StagingMatches
    <3>4. DocPaths(i)' = DocPaths(i)
      BY <1>1, SameDocPaths
    <3> HIDE DEF path
    <3>5. download'.id = i /\ download'.path = path
      BY <3>1
    <3>6. DocPaths(download.id)' = DocPaths(i)
      BY <1>1, <3>5, Zenon DEF DocPaths
    <3>7. QED
      BY <1>1, <3>1, <3>2, <3>3, <3>5, <3>6 DEF DownloadHeld, Unfinished, TreeInv, FilesTyped
  <2>3. QED BY <2>1, <2>2
<1>5. FilesTyped'
  BY <1>1, <1>4 DEF TreeInv, FilesTyped
<1>6. QED BY <1>2, <1>3, <1>4, <1>5 DEF TreeInv

LEMMA FilesTickTree ==
  ASSUME FilesInv, FilesTick
  PROVE  TreeInv'
<1>1. /\ TreeInv /\ jobs' = jobs /\ reservations' = reservations /\ closed' = closed
      /\ now \in Nat /\ now' = now + 1
      /\ \A i \in Ids : staging[i].state = "committing" => now < staging[i].at + Lag
      /\ UNCHANGED <<staging, files, dirs, disk, creating, doomedDirs,
                     doomedFiles, wiping, download>>
  BY DEF FilesInv, IInv, TypeOK, FilesTick, Tick, fileVars
<1>2. FilesTyped' /\ ClosedIsEmpty'
  BY <1>1 DEF TreeInv, FilesTyped, ClosedIsEmpty
<1>3. \A k \in Ids : DocPaths(k)' = DocPaths(k)
  BY <1>1, SameDocPaths
<1>4. DownloadHeld'
  <2>1. download # None => download.id \in Ids
    BY <1>1 DEF TreeInv, FilesTyped
  <2>2. DocPaths(download.id)' = DocPaths(download.id)
    BY <1>1 DEF DocPaths
  <2>3. QED BY <1>1, <2>2 DEF TreeInv, DownloadHeld, Unfinished, FinishedIn, Finished
<1>5. ASSUME NEW k \in Ids PROVE IdInv(k)'
  <2>1. IdInv(k) /\ DocPaths(k)' = DocPaths(k)
    BY <1>1, <1>3 DEF TreeInv
  <2>2. StagingMatches(k)' /\ DirAccounted(k)'
    BY <1>1, <2>1 DEF IdInv, StagingMatches, DirAccounted, Offered, Unsettled
  <2>3. CommitReady(k)'
    <3>1. staging[k].at \in Nat
      BY <1>1 DEF TreeInv, FilesTyped, Staging
    <3>2. QED BY <1>1, <2>1, <3>1, StoreAssumption DEF IdInv, CommitReady
  <2>4. RemovalsSpare(k)' /\ FilesTracked(k)'
    BY <1>1, <2>1
       DEF IdInv, RemovalsSpare, FilesTracked, Offered, Unfinished, FinishedIn, Finished
  <2>5. QED BY <2>2, <2>3, <2>4 DEF IdInv
<1>6. QED BY <1>2, <1>4, <1>5 DEF TreeInv

-----------------------------------------------------------------------------
(***************************************************************************)
(* The steps that change the bookkeeping.                                  *)
(***************************************************************************)

\* A job a download can refer to stays as it is or leaves the final states.
LEMMA DownloadStays ==
  ASSUME TreeInv, download' = download,
         \A k \in Ids : staging[k].state = "committed" =>
            /\ staging'[k].state = "committed"
            /\ k \in UnfinishedIn(jobs') => k \in UnfinishedIn(jobs)
            /\ k \in FinishedIn(jobs') /\ k \notin UnfinishedIn(jobs) =>
                 k \in FinishedIn(jobs) /\ jobs'[k].docs = jobs[k].docs
  PROVE  DownloadHeld'
<1>1. CASE download = None
  BY <1>1 DEF DownloadHeld
<1>2. CASE download # None
  <2>1. download.id \in Ids
    BY <1>2 DEF TreeInv, FilesTyped
  <2>2. PICK k \in Ids : k = download.id
    BY <2>1
  <2>3. /\ staging[k].state = "committed" /\ ~Unfinished(k)
        /\ k \in FinishedIn(jobs) => download.path \in DocPaths(k)
    BY <1>2, <2>2 DEF TreeInv, DownloadHeld
  <2>4. /\ staging'[k].state = "committed" /\ ~(k \in UnfinishedIn(jobs'))
        /\ k \in FinishedIn(jobs') => k \in FinishedIn(jobs) /\ jobs'[k].docs = jobs[k].docs
    BY <2>3 DEF Unfinished, UnfinishedIn
  <2>5. k \in FinishedIn(jobs') => download.path \in DocPaths(k)'
    BY <2>3, <2>4, SameDocPaths
  <2>6. DocPaths(download.id)' = DocPaths(k)'
    BY <2>2 DEF DocPaths
  <2>7. QED
    BY <2>2, <2>4, <2>5, <2>6 DEF DownloadHeld, Unfinished, UnfinishedIn, FinishedIn
<1>3. QED BY <1>1, <1>2

\* Who is kept or evicted while room is made.
LEMMA RoomBystander ==
  ASSUME TreeInv, NEW k \in Ids, UntouchedFiles(k),
         IF k \in DOMAIN jobs THEN KeptOrEvicted(k) ELSE k \notin DOMAIN jobs',
         NEW kept, kept[k] = files[k], DropEvicted(kept),
         k \in DOMAIN reservations' => k \in DOMAIN reservations,
         wiping' = wiping, now' = now
  PROVE  IdInv(k)'
<1>1. IdInv(k)
  BY DEF TreeInv
<1>2. /\ files'[k] = IF k \in EvictedNow THEN {} ELSE kept[k]
      /\ k \in doomedDirs' <=> k \in doomedDirs \/ k \in EvictedNow
  BY DEF DropEvicted
<1>3. k \in EvictedNow => k \in DOMAIN jobs /\ k \in DOMAIN jobs' /\ jobs'[k].status = "removed"
  BY DEF EvictedNow
<1>4. RightlyDoomed(k)
  BY <1>1, <1>2, <1>3 DEF RightlyDoomed, IdInv, StagingMatches, UntouchedFiles
<1>5. SameRecord(k) \/ LostRecord(k)
  <2>1. CASE k \notin DOMAIN jobs
    BY <1>2, <1>3, <2>1 DEF SameRecord
  <2>2. CASE k \in DOMAIN jobs /\ jobs'[k] = jobs[k]
    BY <1>2, <2>2 DEF SameRecord, EvictedNow, KeptOrEvicted
  <2>3. CASE k \in FinishedIn(jobs) /\ jobs'[k].status = "removed" /\ jobs'[k].docs = NoEntries
    <3>1. k \in EvictedNow
      BY <2>3 DEF EvictedNow, KeptOrEvicted, FinishedIn, Finished
    <3>2. QED BY <1>2, <2>3, <3>1 DEF LostRecord, FinishedIn
  <2>4. QED BY <2>1, <2>2, <2>3 DEF KeptOrEvicted
<1>6. QED BY <1>1, <1>4, <1>5, Bystander

LEMMA BeginReserveTree ==
  ASSUME FilesInv, NEW i \in Ids, BeginReserve(i)
  PROVE  TreeInv'
<1>1. /\ TreeInv /\ IdInv(i) /\ jobs' = jobs /\ now' = now /\ closed' = closed
      /\ ~closed /\ i \notin DOMAIN jobs
      /\ DOMAIN reservations' = DOMAIN reservations \cup {i}
      /\ staging[i].state = "none" /\ staging'[i] = [staging[i] EXCEPT !.state = "reserving"]
      /\ staging[i] \in Staging
      /\ \A k \in Ids \ {i} : staging'[k] = staging[k]
      /\ UNCHANGED <<files, dirs, disk, creating, doomedDirs, doomedFiles, wiping, download>>
  BY DEF FilesInv, TreeInv, FilesTyped, BeginReserve, Reserve, Becomes
<1>2. staging'[i].state = "reserving" /\ staging'[i] \in Staging
  BY <1>1 DEF Staging, StagingState
<1>3. FilesTyped'
  BY <1>1, <1>2 DEF TreeInv, FilesTyped, BeginReserve, Becomes
<1>4. ClosedIsEmpty'
  BY <1>1 DEF TreeInv, ClosedIsEmpty
<1>5. DownloadHeld'
  BY <1>1, <1>2, DownloadStays
<1>6. ASSUME NEW k \in Ids \ {i} PROVE IdInv(k)'
  <2>1. IdInv(k) /\ SameRecord(k) /\ RightlyDoomed(k) /\ UntouchedFiles(k)
    BY <1>1 DEF TreeInv, SameRecord, RightlyDoomed, UntouchedFiles
  <2>2. QED BY <1>1, <2>1, Bystander
<1>7. IdInv(i)'
  <2>1. StagingMatches(i)' /\ CommitReady(i)'
    BY <1>1, <1>2 DEF IdInv, StagingMatches, CommitReady
  <2>2. RemovalsSpare(i)' /\ FilesTracked(i)' /\ DirAccounted(i)'
    BY <1>1 DEF IdInv, StagingMatches, RemovalsSpare, FilesTracked, DirAccounted,
         Offered, Unfinished, FinishedIn
  <2>3. QED BY <2>1, <2>2 DEF IdInv
<1>8. QED BY <1>3, <1>4, <1>5, <1>6, <1>7 DEF TreeInv

LEMMA ReleaseJobs ==
  ASSUME NEW i \in Ids, Release(i)
  PROVE  /\ jobs' = jobs /\ now' = now /\ closed' = closed
         /\ DOMAIN reservations' = DOMAIN reservations \ {i}
BY DEF Release, ReleaseReservation, Drop, storeVars

\* The three ways a staging ends without a job.
LEMMA AbortedTree ==
  ASSUME FilesInv, NEW i \in Ids, Release(i), Becomes(i, "aborted"),
         staging[i].state \in {"reserving", "made", "aborting"},
         doomedDirs' = IF staging[i].state = "reserving" THEN doomedDirs
                       ELSE doomedDirs \cup {i},
         UNCHANGED <<files, dirs, disk, creating, doomedFiles, wiping, download>>
  PROVE  TreeInv'
<1>1. /\ TreeInv /\ IdInv(i) /\ jobs' = jobs /\ now' = now /\ closed' = closed
      /\ DOMAIN reservations' = DOMAIN reservations \ {i}
      /\ staging'[i] = [staging[i] EXCEPT !.state = "aborted"]
      /\ staging[i] \in Staging
      /\ \A k \in Ids \ {i} : staging'[k] = staging[k]
  BY ReleaseJobs DEF FilesInv, TreeInv, FilesTyped, Becomes
<1>2. staging'[i].state = "aborted" /\ staging'[i] \in Staging
  BY <1>1 DEF Staging, StagingState
<1>3. FilesTyped'
  BY <1>1, <1>2 DEF TreeInv, FilesTyped, Becomes
<1>4. ClosedIsEmpty'
  BY <1>1 DEF TreeInv, ClosedIsEmpty
<1>5. DownloadHeld'
  BY <1>1, <1>2, DownloadStays
<1>6. ASSUME NEW k \in Ids \ {i} PROVE IdInv(k)'
  <2>1. IdInv(k) /\ SameRecord(k) /\ RightlyDoomed(k) /\ UntouchedFiles(k)
    BY <1>1 DEF TreeInv, SameRecord, RightlyDoomed, UntouchedFiles
  <2>2. QED BY <1>1, <2>1, Bystander
<1>7. IdInv(i)'
  <2>1. StagingMatches(i)' /\ CommitReady(i)' /\ DirAccounted(i)'
    BY <1>1, <1>2 DEF IdInv, StagingMatches, CommitReady, DirAccounted
  <2>2. RemovalsSpare(i)' /\ FilesTracked(i)'
    BY <1>1 DEF IdInv, StagingMatches, RemovalsSpare, FilesTracked,
         Offered, Unfinished, FinishedIn
  <2>3. QED BY <2>1, <2>2 DEF IdInv
<1>8. QED BY <1>3, <1>4, <1>5, <1>6, <1>7 DEF TreeInv

LEMMA MakeStagingDirFailsTree ==
  ASSUME FilesInv, NEW i \in Ids, MakeStagingDirFails(i)
  PROVE  TreeInv'
BY AbortedTree DEF MakeStagingDirFails

LEMMA EndAbortTree ==
  ASSUME FilesInv, NEW i \in Ids, EndAbort(i)
  PROVE  TreeInv'
BY AbortedTree DEF EndAbort

LEMMA EndReserveTree ==
  ASSUME FilesInv, NEW i \in Ids, EndReserve(i)
  PROVE  TreeInv'
<1>1. CASE closed
  BY <1>1, AbortedTree DEF EndReserve
<1>2. CASE ~closed
  <2>1. /\ TreeInv /\ IdInv(i) /\ UNCHANGED storeVars
        /\ staging[i].state = "made" /\ staging'[i] = [staging[i] EXCEPT !.state = "open"]
        /\ staging[i] \in Staging
        /\ \A k \in Ids \ {i} : staging'[k] = staging[k]
        /\ UNCHANGED <<files, dirs, disk, creating, doomedDirs, doomedFiles, wiping, download>>
    BY <1>2 DEF FilesInv, TreeInv, FilesTyped, EndReserve, Becomes
  <2>2. staging'[i].state = "open" /\ staging'[i] \in Staging
    BY <2>1 DEF Staging, StagingState
  <2>3. FilesTyped'
    BY <1>2, <2>1, <2>2 DEF TreeInv, FilesTyped, EndReserve, Becomes
  <2>4. ClosedIsEmpty' /\ DownloadHeld'
    BY <2>1, QuietGlobals
  <2>5. ASSUME NEW k \in Ids \ {i} PROVE IdInv(k)'
    BY <2>1, <2>5, QuietBystander DEF UntouchedFiles
  <2>6. IdInv(i)'
    <3>1. jobs' = jobs /\ reservations' = reservations /\ i \notin DOMAIN jobs
      BY <2>1 DEF storeVars, IdInv, StagingMatches
    <3>2. StagingMatches(i)' /\ CommitReady(i)' /\ DirAccounted(i)'
      BY <2>1, <2>2, <3>1 DEF IdInv, StagingMatches, CommitReady, DirAccounted, Unsettled
    <3>3. RemovalsSpare(i)' /\ FilesTracked(i)'
      BY <2>1, <3>1
         DEF IdInv, RemovalsSpare, FilesTracked, Offered, Unfinished, FinishedIn
    <3>4. QED BY <3>2, <3>3 DEF IdInv
  <2>7. QED BY <2>3, <2>4, <2>5, <2>6 DEF TreeInv
<1>3. QED BY <1>1, <1>2

\* A failed commitReservation puts the staging back.
LEMMA CommitFailsTree ==
  ASSUME FilesInv, NEW i \in Ids, staging[i].state = "committing",
         closed \/ i \notin DOMAIN reservations,
         staging' = [staging EXCEPT ![i] = Fresh("open")],
         UNCHANGED <<storeVars, files, dirs, disk, creating, doomedDirs, doomedFiles,
                     wiping, download>>
  PROVE  TreeInv'
<1>1. /\ TreeInv /\ IdInv(i)
      /\ staging'[i] = Fresh("open")
      /\ \A k \in Ids \ {i} : staging'[k] = staging[k]
  BY DEF FilesInv, TreeInv, FilesTyped
<1>2. Fresh("open") \in Staging /\ Fresh("open").state = "open"
  BY NoEntriesType DEF Fresh, Staging, StagingState
<1>3. FilesTyped'
  BY <1>1, <1>2 DEF TreeInv, FilesTyped
<1>4. ClosedIsEmpty' /\ DownloadHeld'
  BY <1>1, QuietGlobals
<1>5. ASSUME NEW k \in Ids \ {i} PROVE IdInv(k)'
  BY <1>1, <1>5, QuietBystander DEF UntouchedFiles
<1>6. IdInv(i)'
  <2>1. jobs' = jobs /\ reservations' = reservations /\ i \notin DOMAIN jobs
    BY <1>1 DEF storeVars, IdInv, StagingMatches
  <2>2. StagingMatches(i)' /\ CommitReady(i)' /\ DirAccounted(i)'
    BY <1>1, <1>2, <2>1 DEF IdInv, StagingMatches, CommitReady, DirAccounted, Unsettled
  <2>3. RemovalsSpare(i)' /\ FilesTracked(i)'
    BY <1>1, <2>1 DEF IdInv, RemovalsSpare, FilesTracked, Offered, Unfinished, FinishedIn
  <2>4. QED BY <2>2, <2>3 DEF IdInv
<1>7. QED BY <1>3, <1>4, <1>5, <1>6 DEF TreeInv

LEMMA DropEvictedTyped ==
  ASSUME FilesTyped, DOMAIN jobs' \subseteq Ids, NEW kept \in [Ids -> SUBSET Path],
         DropEvicted(kept)
  PROVE  files' \in [Ids -> SUBSET Path] /\ doomedDirs' \subseteq Ids
BY DEF FilesTyped, DropEvicted, EvictedNow

\* The job takes over the reservation, the files and the directory.
LEMMA CommitTree ==
  ASSUME FilesInv, NEW i \in Ids, NEW caps \in Caps, staging[i].state = "committing",
         ~closed, i \in DOMAIN reservations,
         Commit(i, caps, staging[i].docs, staging[i].at), DropEvicted(files),
         staging' = [staging EXCEPT ![i] = Fresh("committed")],
         UNCHANGED <<dirs, disk, creating, doomedFiles, wiping, download>>
  PROVE  TreeInv'
<1> DEFINE docs == staging[i].docs
           at == staging[i].at
<1>1. /\ TreeInv /\ IdInv(i)
      /\ staging'[i] = Fresh("committed")
      /\ \A k \in Ids \ {i} : staging'[k] = staging[k]
      /\ staging[i] \in Staging
      /\ DOMAIN jobs \subseteq Ids
  BY DEF FilesInv, TreeInv, FilesTyped, IInv, TypeOK
<1>2. Fresh("committed") \in Staging /\ Fresh("committed").state = "committed"
  BY NoEntriesType DEF Fresh, Staging, StagingState
<1>3. /\ docs \in Documents /\ at \in Nat /\ docs \in Committable
      /\ \A d \in DOMAIN docs : <<d, "scan">> \in disk[i] /\ ~docs[d].ocr
  BY <1>1 DEF Staging, IdInv, CommitReady, Committable
<1>4. /\ i \notin DOMAIN jobs
      /\ DOMAIN jobs' = DOMAIN jobs \cup {i}
      /\ DOMAIN reservations' = DOMAIN reservations \ {i}
      /\ jobs'[i].status = "pending" /\ jobs'[i].docs = docs
      /\ \A k \in DOMAIN jobs : KeptOrEvicted(k)
      /\ now' = now /\ closed' = closed
  <2>1. IInv /\ Commit(i, caps, docs, at)
    BY DEF FilesInv
  <2> HIDE DEF docs, at
  <2>2. now' = now /\ closed' = closed
    BY <2>1 DEF Commit
  <2>3. QED BY <1>3, <2>1, <2>2, CommitJobs
<1> HIDE DEF docs, at
<1>5. FilesTyped'
  <2>1. files' \in [Ids -> SUBSET Path] /\ doomedDirs' \subseteq Ids
    BY <1>1, <1>4, DropEvictedTyped DEF TreeInv, FilesTyped
  <2>2. QED BY <1>1, <1>2, <2>1 DEF TreeInv, FilesTyped
<1>6. ClosedIsEmpty'
  BY <1>1, <1>4 DEF TreeInv, ClosedIsEmpty
<1>7. DownloadHeld'
  BY <1>1, <1>2, <1>4, DownloadStays
     DEF KeptOrEvicted, UnfinishedIn, FinishedIn, Finished
<1>8. ASSUME NEW k \in Ids \ {i} PROVE IdInv(k)'
  <2>1. UntouchedFiles(k)
    BY <1>1, <1>8 DEF UntouchedFiles
  <2>2. IF k \in DOMAIN jobs THEN KeptOrEvicted(k) ELSE k \notin DOMAIN jobs'
    BY <1>4, <1>8
  <2>3. QED BY <1>1, <1>4, <2>1, <2>2, RoomBystander
<1>9. IdInv(i)'
  <2>1. i \notin EvictedNow /\ files'[i] = files[i] /\ (i \in doomedDirs' <=> i \in doomedDirs)
    BY <1>4 DEF EvictedNow, DropEvicted
  <2>2. i \notin doomedDirs /\ creating[i] = None /\ disk[i] \subseteq files[i]
    BY <1>1 DEF IdInv, StagingMatches, RemovalsSpare
  <2>3. \A p \in Path : <<i, p>> \notin doomedFiles
    BY <1>1 DEF IdInv, StagingMatches
  <2>4. \A p \in DocPaths(i)' : p \in disk[i] /\ p \in Path
    <3>1. DocPaths(i)' = {PathOf(d, docs[d]) : d \in DOMAIN docs}
      BY <1>4 DEF DocPaths
    <3>2. \A d \in DOMAIN docs : PathOf(d, docs[d]) = <<d, "scan">>
      BY <1>3 DEF PathOf
    <3>3. disk[i] \subseteq Path
      BY <1>1 DEF TreeInv, FilesTyped
    <3>4. QED BY <1>3, <3>1, <3>2, <3>3
  <2>5. \A d \in DocIds : <<d, "ocr">> \in Path
    BY DEF Path
  <2>6. StagingMatches(i)' /\ CommitReady(i)' /\ DirAccounted(i)'
    BY <1>1, <1>2, <1>4, <2>1 DEF StagingMatches, CommitReady, DirAccounted, Offered
  <2>7. RemovalsSpare(i)' /\ FilesTracked(i)'
    BY <1>1, <1>4, <2>1, <2>2, <2>3, <2>4, <2>5
       DEF RemovalsSpare, FilesTracked, Offered, Unfinished, FinishedIn, Finished
  <2>8. QED BY <2>6, <2>7 DEF IdInv
<1>10. QED BY <1>5, <1>6, <1>7, <1>8, <1>9 DEF TreeInv

LEMMA EndCommitTree ==
  ASSUME FilesInv, NEW i \in Ids, NEW caps \in Caps, EndCommit(i, caps)
  PROVE  TreeInv'
<1>1. CASE closed \/ i \notin DOMAIN reservations
  BY <1>1, CommitFailsTree DEF EndCommit
<1>2. CASE ~(closed \/ i \notin DOMAIN reservations)
  BY <1>2, CommitTree DEF EndCommit
<1>3. QED BY <1>1, <1>2

\* A final state leaves the job with its documents' files and no others.
LEMMA UpdateStatusTree ==
  ASSUME FilesInv, NEW i \in Ids, NEW status \in {"processing", "ready", "failed"},
         UpdateStatus(i, status)
  PROVE  TreeInv'
<1> DEFINE left == Leftovers(i, status)
           kept == [files EXCEPT ![i] = files[i] \ left]
<1>1. /\ TreeInv /\ IdInv(i) /\ DOMAIN jobs \subseteq Ids
      /\ creating[i] = None /\ (i \in DOMAIN jobs => ~Finished(jobs[i].status))
      /\ SetStatus(i, status) /\ DropEvicted(kept)
      /\ doomedFiles' = doomedFiles \cup ({i} \X left)
      /\ UNCHANGED <<staging, dirs, disk, creating, wiping, download>>
      /\ now' = now /\ closed' = closed
  BY DEF FilesInv, TreeInv, IInv, TypeOK, UpdateStatus, Owned, SetStatus
<1>2. /\ i \in DOMAIN jobs /\ jobs[i].status # "removed"
      /\ DOMAIN jobs' = DOMAIN jobs
      /\ reservations' = reservations
      /\ \/ jobs'[i].status = status /\ jobs'[i].docs = jobs[i].docs
         \/ /\ Finished(status)
            /\ jobs'[i].status = "removed" /\ jobs'[i].docs = NoEntries
      /\ \A k \in DOMAIN jobs \ {i} : KeptOrEvicted(k)
  BY <1>1, SetStatusJobs DEF FilesInv
<1>3. /\ kept \in [Ids -> SUBSET Path] /\ kept[i] = files[i] \ left
      /\ \A k \in Ids \ {i} : kept[k] = files[k]
      /\ left \subseteq files[i] /\ files[i] \subseteq Path
  BY <1>1 DEF TreeInv, FilesTyped, Leftovers
<1>4. left = IF Finished(status) THEN files[i] \ DocPaths(i) ELSE {}
  BY DEF Leftovers
<1> HIDE DEF left, kept
<1>5. FilesTyped'
  <2>1. files' \in [Ids -> SUBSET Path] /\ doomedDirs' \subseteq Ids
    BY <1>1, <1>2, <1>3, DropEvictedTyped DEF TreeInv
  <2>2. doomedFiles' \subseteq Ids \X Path
    BY <1>1, <1>3 DEF TreeInv, FilesTyped
  <2>3. QED BY <1>1, <2>1, <2>2 DEF TreeInv, FilesTyped
<1>6. ClosedIsEmpty'
  BY <1>1, <1>2 DEF TreeInv, ClosedIsEmpty
<1>7. i \in UnfinishedIn(jobs)
  <2>1. jobs[i] \in Job
    BY <1>2, ChargesOfFew DEF FilesInv
  <2>2. QED BY <1>1, <1>2, <2>1 DEF Job, Status, UnfinishedIn, Finished
<1>8. DownloadHeld'
  BY <1>1, <1>2, <1>7, DownloadStays
     DEF KeptOrEvicted, UnfinishedIn, FinishedIn, Finished
<1>9. ASSUME NEW k \in Ids \ {i} PROVE IdInv(k)'
  <2>1. UntouchedFiles(k)
    BY <1>1, <1>9 DEF UntouchedFiles
  <2>2. IF k \in DOMAIN jobs THEN KeptOrEvicted(k) ELSE k \notin DOMAIN jobs'
    BY <1>2, <1>9
  <2>3. QED BY <1>1, <1>2, <1>3, <2>1, <2>2, RoomBystander
<1>10. IdInv(i)'
  <2>1. /\ staging[i].state = "committed"
        /\ i \notin doomedDirs /\ i \notin DOMAIN reservations
        /\ \A d \in DocIds : <<i, <<d, "ocr">>>> \notin doomedFiles
        /\ \A p \in DocPaths(i) : p \in disk[i] /\ <<i, p>> \notin doomedFiles
        /\ \A p \in disk[i] : p \in files[i] \/ <<i, p>> \in doomedFiles
    BY <1>1, <1>2, <1>7
       DEF IdInv, StagingMatches, RemovalsSpare, FilesTracked, Offered, Unfinished,
           UnfinishedIn
  <2>2. StagingMatches(i)' /\ CommitReady(i)'
    BY <1>1, <1>2, <2>1 DEF IdInv, StagingMatches, CommitReady
  <2>3. \A p : <<i, p>> \in doomedFiles' <=> <<i, p>> \in doomedFiles \/ p \in left
    BY <1>1
  <2>4. CASE i \in EvictedNow
    <3>1. /\ jobs'[i].status = "removed" /\ jobs'[i].docs = NoEntries
          /\ i \in doomedDirs'
      BY <1>1, <1>2, <2>4 DEF EvictedNow, DropEvicted
    <3>2. DocPaths(i)' = {}
      BY <3>1 DEF DocPaths, NoEntries
    <3>3. QED
      BY <1>1, <1>2, <2>1, <2>2, <3>1, <3>2
         DEF IdInv, RemovalsSpare, FilesTracked, DirAccounted, Offered, Unfinished,
             FinishedIn, Finished
  <2>5. CASE i \notin EvictedNow
    <3>1. /\ jobs'[i].status = status /\ jobs'[i].docs = jobs[i].docs
          /\ (i \in doomedDirs' <=> i \in doomedDirs) /\ files'[i] = files[i] \ left
      BY <1>1, <1>2, <1>3, <2>5 DEF EvictedNow, DropEvicted
    <3>2. DocPaths(i)' = DocPaths(i)
      BY <3>1, SameDocPaths
    <3>3. RemovalsSpare(i)'
      <4>1. \A p \in DocPaths(i) : <<i, p>> \notin doomedFiles'
        BY <1>4, <2>1, <2>3
      <4>2. Unfinished(i)' => left = {}
        BY <1>4, <3>1 DEF Unfinished, Finished
      <4>3. Unfinished(i)' => \A d \in DocIds : <<i, <<d, "ocr">>>> \notin doomedFiles'
        BY <2>1, <2>3, <4>2
      <4>4. QED BY <1>1, <1>2, <2>1, <3>1, <3>2, <4>1, <4>3 DEF RemovalsSpare
    <3>4. FilesTracked(i)'
      <4>1. \A p \in disk'[i] : p \in files'[i] \/ <<i, p>> \in doomedFiles'
        BY <1>1, <2>1, <2>3, <3>1
      <4>2. i \in FinishedIn(jobs') => files'[i] \subseteq DocPaths(i)
        BY <1>4, <3>1 DEF FinishedIn
      <4>3. QED BY <1>1, <3>2, <4>1, <4>2 DEF FilesTracked
    <3>5. DirAccounted(i)'
      BY <1>2, <3>1 DEF DirAccounted, Offered
    <3>6. QED BY <2>2, <3>3, <3>4, <3>5 DEF IdInv
  <2>6. QED BY <2>4, <2>5
<1>11. QED BY <1>5, <1>6, <1>8, <1>9, <1>10 DEF TreeInv

\* The searchable copy is on disk and not about to be removed; the file it
\* replaces no longer is a document's.
LEMMA SwapDocumentTree ==
  ASSUME FilesInv, NEW i \in Ids, NEW d \in DocIds, NEW size \in Sizes,
         SwapDocument(i, d, size)
  PROVE  TreeInv'
<1> DEFINE old == <<d, "scan">>
           new == <<d, "ocr">>
           copy == [size |-> size, ocr |-> TRUE]
<1>1. /\ TreeInv /\ IdInv(i) /\ DOMAIN jobs \subseteq Ids
      /\ creating[i] = None /\ ~Finished(jobs[i].status)
      /\ i \in DOMAIN jobs /\ d \in DOMAIN jobs[i].docs /\ ~jobs[i].docs[d].ocr
      /\ new \in files[i] \cap disk[i]
      /\ DropEvicted(files)
      /\ doomedFiles' = doomedFiles \cup {<<i, old>>}
      /\ ReplaceDocument(i, d, size)
      /\ UNCHANGED <<staging, dirs, disk, creating, wiping, download>>
      /\ now' = now /\ closed' = closed
  BY DEF FilesInv, TreeInv, IInv, TypeOK, SwapDocument, Owned, ReplaceDocument, PathOf
<1>2. i \in UnfinishedIn(jobs)
  <2>1. jobs[i] \in Job
    BY <1>1, ChargesOfFew DEF FilesInv
  <2>2. jobs[i].status # "removed"
    BY <1>1 DEF FilesInv, IInv, TombstonesHoldNothing, NoEntries
  <2>3. QED BY <1>1, <2>1, <2>2 DEF Job, Status, UnfinishedIn, Finished
<1>3. /\ DOMAIN jobs' = DOMAIN jobs
      /\ reservations' = reservations
      /\ jobs'[i].status = jobs[i].status
      /\ jobs'[i].docs = [jobs[i].docs EXCEPT ![d] = copy]
      /\ \A k \in DOMAIN jobs \ {i} : jobs'[k] = jobs[k]
  BY <1>1, <1>2, ReplaceDocumentJobs DEF FilesInv
<1>4. EvictedNow = {}
  BY <1>1, <1>2, <1>3 DEF EvictedNow, UnfinishedIn
<1>5. files' = files /\ doomedDirs' = doomedDirs
  <2>1. files' = [k \in Ids |-> files[k]] /\ doomedDirs' = doomedDirs
    BY <1>1, <1>4 DEF DropEvicted
  <2>2. QED BY <1>1, <2>1 DEF TreeInv, FilesTyped
<1>6. FilesTyped'
  <2>1. old \in Path
    BY DEF Path
  <2> HIDE DEF old
  <2>2. QED BY <1>1, <1>5, <2>1 DEF TreeInv, FilesTyped
<1>7. ClosedIsEmpty'
  BY <1>1, <1>3 DEF TreeInv, ClosedIsEmpty
<1>8. DownloadHeld'
  BY <1>1, <1>2, <1>3, DownloadStays DEF UnfinishedIn, FinishedIn, Finished
<1>9. ASSUME NEW k \in Ids \ {i} PROVE IdInv(k)'
  <2>1. IdInv(k) /\ UntouchedFiles(k) /\ SameRecord(k) /\ RightlyDoomed(k)
    BY <1>1, <1>3, <1>5, <1>9 DEF TreeInv, UntouchedFiles, SameRecord, RightlyDoomed
  <2>2. QED BY <1>1, <1>3, <2>1, Bystander
<1>10. DocPaths(i)' \subseteq (DocPaths(i) \ {old}) \cup {new}
  <2> DEFINE docs == jobs[i].docs
             docs2 == [docs EXCEPT ![d] = copy]
  <2>1. DocPaths(i)' = {PathOf(e, docs2[e]) : e \in DOMAIN docs2}
    BY <1>3 DEF DocPaths
  <2>2. docs2[d] = copy /\ DOMAIN docs2 = DOMAIN docs
        /\ \A e \in DOMAIN docs \ {d} : docs2[e] = docs[e]
    BY <1>1
  <2> HIDE DEF docs2
  <2>3. PathOf(d, docs2[d]) = new
    BY <2>2 DEF PathOf
  <2>4. \A e \in DOMAIN docs \ {d} :
           /\ PathOf(e, docs2[e]) = PathOf(e, docs[e])
           /\ PathOf(e, docs[e]) # old /\ PathOf(e, docs[e]) \in DocPaths(i)
    BY <2>2 DEF PathOf, DocPaths
  <2>5. QED BY <2>1, <2>2, <2>3, <2>4
<1>11. IdInv(i)'
  <2>1. /\ staging[i].state = "committed" /\ i \notin doomedDirs
        /\ \A e \in DocIds : <<i, <<e, "ocr">>>> \notin doomedFiles
        /\ \A p \in DocPaths(i) : p \in disk[i] /\ <<i, p>> \notin doomedFiles
        /\ \A p \in disk[i] : p \in files[i] \/ <<i, p>> \in doomedFiles
        /\ Offered(i) /\ Unfinished(i) /\ i \notin FinishedIn(jobs')
    BY <1>1, <1>2, <1>3
       DEF IdInv, StagingMatches, RemovalsSpare, FilesTracked, Offered, Unfinished,
           UnfinishedIn, FinishedIn, Finished
  <2>2. StagingMatches(i)' /\ CommitReady(i)' /\ DirAccounted(i)'
    BY <1>1, <1>3, <1>5, <2>1
       DEF IdInv, StagingMatches, CommitReady, DirAccounted, Offered
  <2>3. \A p \in DocPaths(i)' : p \in disk'[i] /\ <<i, p>> \notin doomedFiles'
    BY <1>1, <1>10, <2>1
  <2>4. \A e \in DocIds : <<i, <<e, "ocr">>>> \notin doomedFiles'
    BY <1>1, <2>1
  <2>5. RemovalsSpare(i)' /\ FilesTracked(i)'
    BY <1>1, <1>3, <1>5, <2>1, <2>3, <2>4
       DEF RemovalsSpare, FilesTracked, Offered, Unfinished
  <2>6. QED BY <2>2, <2>5 DEF IdInv
<1>12. QED BY <1>6, <1>7, <1>8, <1>9, <1>11 DEF TreeInv

LEMMA DeleteJobTree ==
  ASSUME FilesInv, NEW i \in Ids, DeleteJob(i)
  PROVE  TreeInv'
<1>1. /\ TreeInv /\ IdInv(i) /\ i \in DOMAIN jobs
      /\ DOMAIN jobs' = DOMAIN jobs \ {i} /\ reservations' = reservations
      /\ \A k \in DOMAIN jobs' : jobs'[k] = jobs[k]
      /\ files'[i] = {} /\ doomedDirs' = doomedDirs \cup {i}
      /\ \A k \in Ids \ {i} : files'[k] = files[k]
      /\ UNCHANGED <<staging, dirs, disk, creating, doomedFiles, wiping, download>>
      /\ now' = now /\ closed' = closed
  BY DEF FilesInv, TreeInv, FilesTyped, DeleteJob, Delete, Drop
<1>2. FilesTyped'
  BY <1>1 DEF TreeInv, FilesTyped, DeleteJob
<1>3. ClosedIsEmpty'
  BY <1>1 DEF TreeInv, ClosedIsEmpty
<1>4. DownloadHeld'
  BY <1>1, DownloadStays DEF UnfinishedIn, FinishedIn
<1>5. ASSUME NEW k \in Ids PROVE IdInv(k)'
  <2>1. IdInv(k) /\ UntouchedFiles(k)
    BY <1>1 DEF TreeInv, UntouchedFiles
  <2>2. SameRecord(k) \/ LostRecord(k)
    BY <1>1 DEF SameRecord, LostRecord
  <2>3. RightlyDoomed(k)
    BY <1>1 DEF RightlyDoomed, IdInv, StagingMatches
  <2>4. QED BY <1>1, <2>1, <2>2, <2>3, Bystander
<1>6. QED BY <1>2, <1>3, <1>4, <1>5 DEF TreeInv

LEMMA SweepTree ==
  ASSUME FilesInv, NEW at \in Recent, Sweep(at)
  PROVE  TreeInv'
<1> DEFINE gone == DOMAIN jobs \ DOMAIN jobs'
           leaked == DOMAIN reservations \ DOMAIN reservations'
<1>1. /\ TreeInv /\ DOMAIN jobs \subseteq Ids /\ DOMAIN reservations \subseteq Ids
      /\ DOMAIN jobs' \subseteq DOMAIN jobs
      /\ DOMAIN reservations' \subseteq DOMAIN reservations
      /\ \A k \in DOMAIN jobs' : jobs'[k] = jobs[k]
      /\ files' = [k \in Ids |-> IF k \in gone THEN {} ELSE files[k]]
      /\ doomedDirs' = doomedDirs \cup gone \cup leaked
      /\ UNCHANGED <<staging, dirs, disk, creating, doomedFiles, wiping, download>>
      /\ now' = now /\ closed' = closed
  BY CleanExpiredJobs DEF FilesInv, IInv, TypeOK, Sweep
<1> HIDE DEF gone, leaked
<1>2. gone \subseteq Ids /\ leaked \subseteq Ids
  BY <1>1 DEF gone, leaked
<1>3. FilesTyped'
  <2>1. files' \in [Ids -> SUBSET Path]
    BY <1>1 DEF TreeInv, FilesTyped
  <2>2. QED BY <1>1, <1>2, <2>1 DEF TreeInv, FilesTyped
<1>4. ClosedIsEmpty'
  BY <1>1 DEF TreeInv, ClosedIsEmpty
<1>5. DownloadHeld'
  BY <1>1, DownloadStays DEF UnfinishedIn, FinishedIn
<1>6. ASSUME NEW k \in Ids PROVE IdInv(k)'
  <2>1. IdInv(k) /\ UntouchedFiles(k)
    BY <1>1 DEF TreeInv, UntouchedFiles
  <2>2. SameRecord(k) \/ LostRecord(k)
    BY <1>1 DEF SameRecord, LostRecord, gone
  <2>3. RightlyDoomed(k)
    BY <1>1, <2>1 DEF RightlyDoomed, IdInv, StagingMatches, gone, leaked
  <2>4. QED BY <1>1, <2>1, <2>2, <2>3, Bystander
<1>7. QED BY <1>3, <1>4, <1>5, <1>6 DEF TreeInv

LEMMA CloseStoreTree ==
  ASSUME FilesInv, CloseStore
  PROVE  TreeInv'
<1>1. /\ TreeInv /\ wiping' = TRUE /\ closed' = TRUE
      /\ DOMAIN jobs' = {} /\ DOMAIN reservations' = {}
      /\ files' = [k \in Ids |-> IF k \in DOMAIN jobs THEN {} ELSE files[k]]
      /\ UNCHANGED <<staging, dirs, disk, creating, doomedDirs, doomedFiles, download>>
      /\ now' = now
  BY DEF FilesInv, CloseStore, Close, NoEntries
<1>2. FilesTyped' /\ ClosedIsEmpty'
  <2>1. files' \in [Ids -> SUBSET Path]
    BY <1>1 DEF TreeInv, FilesTyped
  <2>2. QED BY <1>1, <2>1 DEF TreeInv, FilesTyped, ClosedIsEmpty
<1>3. DownloadHeld'
  BY <1>1, DownloadStays DEF UnfinishedIn, FinishedIn
<1>4. ASSUME NEW k \in Ids PROVE IdInv(k)'
  <2>1. IdInv(k) /\ UntouchedFiles(k) /\ RightlyDoomed(k)
    BY <1>1 DEF TreeInv, UntouchedFiles, RightlyDoomed
  <2>2. SameRecord(k) \/ LostRecord(k)
    BY <1>1 DEF SameRecord, LostRecord
  <2>3. QED BY <1>1, <2>1, <2>2, Bystander
<1>5. QED BY <1>2, <1>3, <1>4 DEF TreeInv

-----------------------------------------------------------------------------
(***************************************************************************)
(* The theorems.                                                           *)
(***************************************************************************)
LEMMA FilesInitInv == FilesInit => FilesInv
<1> SUFFICES ASSUME FilesInit PROVE FilesInv
  OBVIOUS
<1>1. IInv
  BY InitInv DEF FilesInit
<1>2. /\ DOMAIN jobs = {} /\ DOMAIN reservations = {} /\ ~closed
      /\ \A i \in Ids : /\ staging[i] = Fresh("none") /\ files[i] = {} /\ disk[i] = {}
                        /\ creating[i] = None
      /\ dirs = {} /\ doomedDirs = {} /\ doomedFiles = {} /\ wiping = FALSE
      /\ download = None
  BY DEF FilesInit, Init, NoEntries
<1>3. Fresh("none") \in Staging /\ Fresh("none").state = "none"
  BY NoEntriesType DEF Fresh, Staging, StagingState
<1>4. FilesTyped
  BY <1>3 DEF FilesInit, FilesTyped
<1>5. ClosedIsEmpty /\ DownloadHeld
  BY <1>2 DEF ClosedIsEmpty, DownloadHeld
<1>6. ASSUME NEW i \in Ids PROVE IdInv(i)
  BY <1>2, <1>3
     DEF IdInv, StagingMatches, CommitReady, RemovalsSpare, FilesTracked, DirAccounted,
         Offered, Unfinished, FinishedIn
<1>7. QED BY <1>1, <1>4, <1>5, <1>6 DEF FilesInv, TreeInv

LEMMA FilesInvStoreStep ==
  FilesInv /\ [FilesNext]_vars => [Next]_storeVars
<1>1. FilesInv => /\ now \in Nat /\ staging \in [Ids -> Staging]
                  /\ \A i \in Ids : CommitReady(i)
  BY DEF FilesInv, IInv, TypeOK, TreeInv, FilesTyped, IdInv
<1>2. QED BY <1>1, StoreStep

LEMMA StutterTree ==
  ASSUME FilesInv, UNCHANGED vars
  PROVE  TreeInv'
<1>1. TreeInv /\ UNCHANGED storeVars /\ UNCHANGED fileVars
  BY DEF FilesInv, vars
<1>2. UNCHANGED <<staging, files, dirs, disk, creating, doomedDirs, doomedFiles, wiping,
                  download>>
  BY <1>1 DEF fileVars
<1>3. FilesTyped'
  BY <1>1, <1>2 DEF TreeInv, FilesTyped
<1>4. ClosedIsEmpty' /\ DownloadHeld'
  BY <1>1, <1>2, QuietGlobals
<1>5. \A k \in Ids : IdInv(k)'
  BY <1>1, <1>2, QuietBystander DEF UntouchedFiles
<1>6. QED BY <1>3, <1>4, <1>5 DEF TreeInv

LEMMA FilesNextInv == FilesInv /\ [FilesNext]_vars => FilesInv'
<1> SUFFICES ASSUME FilesInv, [FilesNext]_vars PROVE FilesInv'
  OBVIOUS
<1>1. IInv'
  BY FilesInvStoreStep, NextInv DEF FilesInv
<1>2. ASSUME UNCHANGED vars PROVE TreeInv'
  BY <1>2, StutterTree
<1>3. ASSUME NEW i \in Ids,
             \/ BeginReserve(i) \/ MakeStagingDir(i) \/ MakeStagingDirFails(i)
             \/ EndReserve(i) \/ BeginAbort(i) \/ EndAbort(i) \/ DeleteJob(i)
      PROVE  TreeInv'
  BY <1>3, BeginReserveTree, MakeStagingDirTree, MakeStagingDirFailsTree,
     EndReserveTree, BeginAbortTree, EndAbortTree, DeleteJobTree
<1>4. ASSUME NEW i \in Ids,
             MakeTempFile(i) \/ EndCreateFile(i) \/ RemoveDir(i)
      PROVE  TreeInv'
  BY <1>4, MakeTempFileTree, EndCreateFileTree, RemoveDirTree
<1>5. ASSUME NEW i \in Ids,
             \/ \E docs \in Committable : BeginCommit(i, docs)
             \/ \E caps \in Caps : EndCommit(i, caps)
             \/ \E status \in {"processing", "ready", "failed"} : UpdateStatus(i, status)
             \/ \E path \in Path : RemoveFile(i, path)
      PROVE  TreeInv'
  BY <1>5, BeginCommitTree, EndCommitTree, UpdateStatusTree, RemoveFileTree
<1>6. ASSUME NEW i \in Ids, NEW d \in DocIds,
             \/ StageFile(i, d)
             \/ BeginCreateFile(i, d)
             \/ \E size \in Sizes : SwapDocument(i, d, size)
             \/ BeginDownload(i, d)
      PROVE  TreeInv'
  BY <1>6, StageFileTree, BeginCreateFileTree, SwapDocumentTree, DownloadTree
<1>7. ASSUME NEW at \in Recent, Sweep(at) PROVE TreeInv'
  BY <1>7, SweepTree
<1>8. ASSUME CloseStore \/ Wipe \/ EndDownload \/ FilesTick PROVE TreeInv'
  BY <1>8, CloseStoreTree, WipeTree, DownloadTree, FilesTickTree
<1>9. TreeInv'
  BY <1>2, <1>3, <1>4, <1>5, <1>6, <1>7, <1>8 DEF FilesNext
<1>10. QED BY <1>1, <1>9 DEF FilesInv

\* In every state: the invariant of the store and of its files.
THEOREM FilesInvariant == FilesSpec => []FilesInv
<1>1. FilesInit => FilesInv
  BY FilesInitInv
<1>2. FilesInv /\ [FilesNext]_vars => FilesInv'
  BY FilesNextInv
<1>3. QED BY <1>1, <1>2, PTL DEF FilesSpec

\* The store with its files implements JobStore: no step outside the mutex,
\* wherever it falls, is seen in the bookkeeping (store.go).
THEOREM FilesImplementStore == FilesSpec => StoreSpec
<1>1. FilesInit => Init
  BY DEF FilesInit
<1>2. FilesInv /\ [FilesNext]_vars => [Next]_storeVars
  BY FilesInvStoreStep
<1>3. FilesSpec => Init /\ [][Next]_storeVars
  BY <1>1, <1>2, FilesInvariant, PTL DEF FilesSpec
<1>4. QED BY <1>3 DEF StoreSpec, Spec

\* All variables of the store and of its files keep their types.
THEOREM FilesTypesHold == FilesSpec => []FilesTypeOK
<1>1. FilesInv => FilesTypeOK
  BY DEF FilesInv, IInv, TreeInv, FilesTyped, FilesTypeOK
<1>2. QED BY <1>1, FilesInvariant, PTL

\* Every document of every job in the store is on disk, whenever the removals
\* of other operations run (store.go, removals after the unlock).
THEOREM DocumentsStayOnDisk == FilesSpec => []DocumentsOnDisk
<1>1. FilesInv => DocumentsOnDisk
  <2>1. FilesInv => DOMAIN jobs \subseteq Ids /\ \A i \in Ids : RemovalsSpare(i)
    BY DEF FilesInv, IInv, TypeOK, TreeInv, IdInv
  <2>2. QED BY <2>1 DEF RemovalsSpare, DocumentsOnDisk
<1>2. QED BY <1>1, FilesInvariant, PTL

\* Every directory is somebody's or about to be removed, also those made by a
\* Reserve or a CreateFile that ran into Close or into the sweep.
THEOREM NoDirIsStranded == FilesSpec => []NoStrandedDirs
<1>1. FilesInv => NoStrandedDirs
  <2>1. FilesInv => dirs \subseteq Ids /\ \A i \in Ids : DirAccounted(i)
    BY DEF FilesInv, TreeInv, FilesTyped, IdInv
  <2>2. QED BY <2>1 DEF DirAccounted, NoStrandedDirs, Offered
<1>2. QED BY <1>1, FilesInvariant, PTL

\* A finished job keeps the files of its documents and no others, so its final
\* charge is what it occupies (SetStatus and ReplaceDocument).
THEOREM FinishedJobsKeepDocumentsOnly == FilesSpec => []FinishedKeepsOnlyDocuments
<1>1. FilesInv => FinishedKeepsOnlyDocuments
  <2> SUFFICES ASSUME FilesInv, NEW i \in FinishedIn(jobs)
               PROVE  {path \in disk[i] : <<i, path>> \notin doomedFiles} = DocPaths(i)
    BY DEF FinishedKeepsOnlyDocuments
  <2>1. i \in Ids /\ i \in DOMAIN jobs /\ Offered(i) /\ ~Unfinished(i)
    BY DEF FilesInv, IInv, TypeOK, FinishedIn, Finished, Offered, Unfinished
  <2>2. RemovalsSpare(i) /\ FilesTracked(i)
    BY <2>1 DEF FilesInv, TreeInv, IdInv
  <2>3. QED BY <2>1, <2>2 DEF RemovalsSpare, FilesTracked
<1>2. QED BY <1>1, FilesInvariant, PTL

\* A download that was allowed to start finds its file while the scan is still
\* offered (web.go, handleDownload: Get, then os.Open).
THEOREM DownloadsFindTheirFile == FilesSpec => []DownloadFindsFile
<1>1. FilesInv => DownloadFindsFile
  <2> SUFFICES ASSUME FilesInv, download # None, download.id \in FinishedIn(jobs)
               PROVE  download.path \in DocPaths(download.id) \cap disk[download.id]
    BY DEF DownloadFindsFile
  <2>1. /\ download.id \in Ids /\ download.id \in DOMAIN jobs
        /\ download.path \in DocPaths(download.id)
    BY DEF FilesInv, TreeInv, FilesTyped, DownloadHeld, FinishedIn
  <2>2. RemovalsSpare(download.id)
    BY <2>1 DEF FilesInv, TreeInv, IdInv
  <2>3. QED BY <2>1, <2>2 DEF RemovalsSpare
<1>2. QED BY <1>1, FilesInvariant, PTL
=============================================================================
