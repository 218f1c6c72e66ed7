---------------------------- MODULE JobStoreFiles ----------------------------
(***************************************************************************)
(* The job store together with the files it manages.  internal/jobs keeps  *)
(* file I/O outside Store.mu, so every operation here is a sequence of     *)
(* steps that interleave with the steps of every other operation: a        *)
(* directory is created after its reservation was booked, and files are    *)
(* removed some time after the record that owned them is gone.             *)
(*                                                                         *)
(* The store's bookkeeping is that of JobStore, whose specification this   *)
(* one implements (StoreSpec).  Removing a directory is taken to be one    *)
(* step.  A document has at most two files: the one scanned and the one    *)
(* OCR produced.                                                           *)
(***************************************************************************)
EXTENDS JobStore

CONSTANT None  \* Go's nil

ASSUME FilesAssumption ==
  None \notin [doc : DocIds, made : BOOLEAN]
            \cup [id : Ids, path : DocIds \X {"scan", "ocr"}]

VARIABLES
  staging,    \* per id: the Staging handed out by Reserve and where its owner is
  files,      \* per id: Staging.files, later jobRecord.files
  dirs,       \* the staging/job directories that exist
  disk,       \* per id: the files in its directory
  creating,   \* per id: a Store.CreateFile call between its two locked parts
  doomedDirs, \* directories some caller is about to remove
  doomedFiles,\* files some caller is about to remove
  wiping,     \* Close is about to remove the whole store directory
  download    \* the web UI's handleDownload, between Get and os.Open

fileVars == <<staging, files, dirs, disk, creating, doomedDirs, doomedFiles,
              wiping, download>>
vars == <<storeVars, fileVars>>

Path == DocIds \X {"scan", "ocr"}

\* Wrong: a document's path is not updated.
ScanPathOf(d, doc) == <<d, "scan">>

\* The file document d currently points at (Document.Path).
PathOf(d, doc) == <<d, IF doc.ocr THEN "ocr" ELSE "scan">>
DocPaths(i) == {PathOf(d, jobs[i].docs[d]) : d \in DOMAIN jobs[i].docs}

\* Where the owner of a staging is.  "reserving" and "made" are Reserve before
\* and after it created the directory, "committing" is Commit between its
\* checks and commitReservation, "aborting" is Abort before releaseReservation.
StagingState == {"none", "reserving", "made", "open", "committing", "committed",
                 "aborting", "aborted"}

\* docs and at are what Commit is about to commit.
Staging == [state : StagingState, docs : Documents, at : Nat]
Fresh(state) == [state |-> state, docs |-> NoEntries, at |-> 0]

FilesTypeOK ==
  /\ TypeOK
  /\ staging \in [Ids -> Staging]
  /\ files \in [Ids -> SUBSET Path]
  /\ dirs \subseteq Ids
  /\ disk \in [Ids -> SUBSET Path]
  /\ creating \in [Ids -> {None} \cup [doc : DocIds, made : BOOLEAN]]
  /\ doomedDirs \subseteq Ids
  /\ doomedFiles \subseteq Ids \X Path
  /\ wiping \in BOOLEAN
  /\ download \in {None} \cup [id : Ids, path : Path]

FilesInit ==
  /\ Init
  /\ staging = [i \in Ids |-> Fresh("none")]
  /\ files = [i \in Ids |-> {}]
  /\ dirs = {}
  /\ disk = [i \in Ids |-> {}]
  /\ creating = [i \in Ids |-> None]
  /\ doomedDirs = {}
  /\ doomedFiles = {}
  /\ wiping = FALSE
  /\ download = None

Becomes(i, state) == staging' = [staging EXCEPT ![i].state = state]

\* Wrong: the evicted jobs' directories stay.
DropEvictedRecords(kept) ==
  /\ files' = [i \in Ids |-> IF i \in EvictedNow THEN {} ELSE kept[i]]
  /\ UNCHANGED doomedDirs

\* dropEvicted: what this step evicted loses its files, and its directory is
\* removed once the mutex is free.
DropEvicted(kept) ==
  /\ files' = [i \in Ids |-> IF i \in EvictedNow THEN {} ELSE kept[i]]
  /\ doomedDirs' = doomedDirs \cup EvictedNow

-----------------------------------------------------------------------------
(***************************************************************************)
(* Reserve and the operations of a Staging.                                *)
(***************************************************************************)

\* The ids are fresh: none is ever used twice.
BeginReserve(i) ==
  /\ staging[i].state = "none"
  /\ Reserve(i)
  /\ Becomes(i, "reserving")
  /\ UNCHANGED <<files, dirs, disk, creating, doomedDirs, doomedFiles, wiping, download>>

MakeStagingDir(i) ==
  /\ staging[i].state = "reserving"
  /\ dirs' = dirs \cup {i}
  /\ Becomes(i, "made")
  /\ UNCHANGED <<storeVars, files, disk, creating, doomedDirs, doomedFiles, wiping, download>>

\* Wrong: the charge is released whether or not the reservation is still there.
ReleaseUnchecked(i) ==
  /\ reservations' = Drop(reservations, {i})
  /\ used' = used - MaxMessage
  /\ UNCHANGED <<jobs, closed, now>>

\* releaseReservation, which does nothing if the reservation is already gone.
Release(i) ==
  IF i \in DOMAIN reservations THEN ReleaseReservation(i) ELSE UNCHANGED storeVars

\* MkdirAll fails: the caller gets no Staging.
MakeStagingDirFails(i) ==
  /\ staging[i].state = "reserving"
  /\ Release(i)
  /\ Becomes(i, "aborted")
  /\ UNCHANGED <<files, dirs, disk, creating, doomedDirs, doomedFiles, wiping, download>>

\* The second look at Store.closed: Close may have removed the tree already.
EndReserve(i) ==
  /\ staging[i].state = "made"
  /\ IF closed
     THEN /\ Release(i)
          /\ Becomes(i, "aborted")
          /\ doomedDirs' = doomedDirs \cup {i}
     ELSE /\ UNCHANGED <<storeVars, doomedDirs>>
          /\ Becomes(i, "open")
  /\ UNCHANGED <<files, dirs, disk, creating, doomedFiles, wiping, download>>

\* Staging.CreateFile
StageFile(i, d) ==
  /\ staging[i].state = "open"
  /\ i \in dirs
  /\ <<d, "scan">> \notin files[i]
  /\ files' = [files EXCEPT ![i] = @ \cup {<<d, "scan">>}]
  /\ disk' = [disk EXCEPT ![i] = @ \cup {<<d, "scan">>}]
  /\ UNCHANGED <<storeVars, staging, dirs, creating, doomedDirs, doomedFiles, wiping, download>>

\* Commit up to commitReservation: every document is one of the staged files
\* and still there; its size is the file's.
BeginCommit(i, docs) ==
  /\ staging[i].state = "open"
  /\ \A d \in DOMAIN docs : <<d, "scan">> \in files[i] \cap disk[i]
  /\ staging' = [staging EXCEPT ![i] = [state |-> "committing", docs |-> docs, at |-> now]]
  /\ UNCHANGED <<storeVars, files, dirs, disk, creating, doomedDirs, doomedFiles, wiping, download>>

\* commitReservation; on failure the staging stays open for the caller to abort.
EndCommit(i, caps) ==
  /\ staging[i].state = "committing"
  /\ IF closed \/ i \notin DOMAIN reservations
     THEN /\ UNCHANGED <<storeVars, files, doomedDirs>>
          /\ staging' = [staging EXCEPT ![i] = Fresh("open")]
     ELSE /\ Commit(i, caps, staging[i].docs, staging[i].at)
          /\ DropEvicted(files)
          /\ staging' = [staging EXCEPT ![i] = Fresh("committed")]
  /\ UNCHANGED <<dirs, disk, creating, doomedFiles, wiping, download>>

BeginAbort(i) ==
  /\ staging[i].state = "open"
  /\ Becomes(i, "aborting")
  /\ UNCHANGED <<storeVars, files, dirs, disk, creating, doomedDirs, doomedFiles, wiping, download>>

EndAbort(i) ==
  /\ staging[i].state = "aborting"
  /\ Release(i)
  /\ Becomes(i, "aborted")
  /\ doomedDirs' = doomedDirs \cup {i}
  /\ UNCHANGED <<files, dirs, disk, creating, doomedFiles, wiping, download>>

-----------------------------------------------------------------------------
(***************************************************************************)
(* What the pipeline does to a committed job.  One worker owns it, so      *)
(* these calls come one after another.                                     *)
(***************************************************************************)
Owned(i) ==
  /\ creating[i] = None
  /\ i \in DOMAIN jobs => ~Finished(jobs[i].status)

\* Wrong: what no document points at is kept.
NoLeftovers(i, status) == {}

\* What a final state leaves nobody to use.
Leftovers(i, status) == IF Finished(status) THEN files[i] \ DocPaths(i) ELSE {}

UpdateStatus(i, status) ==
  /\ Owned(i)
  /\ SetStatus(i, status)
  /\ DropEvicted([files EXCEPT ![i] = @ \ Leftovers(i, status)])
  /\ doomedFiles' = doomedFiles \cup ({i} \X Leftovers(i, status))
  /\ UNCHANGED <<staging, dirs, disk, creating, wiping, download>>

\* CreateFile up to the first unlock.
BeginCreateFile(i, d) ==
  /\ Owned(i)
  /\ i \in DOMAIN jobs
  /\ jobs[i].status = "processing"
  /\ d \in DOMAIN jobs[i].docs
  /\ <<d, "ocr">> \notin files[i]
  /\ creating' = [creating EXCEPT ![i] = [doc |-> d, made |-> FALSE]]
  /\ UNCHANGED <<storeVars, staging, files, dirs, disk, doomedDirs, doomedFiles, wiping, download>>

\* createTempFile, which fails when the directory is gone.
MakeTempFile(i) ==
  /\ creating[i] # None
  /\ ~creating[i].made
  /\ IF i \in dirs
     THEN /\ creating' = [creating EXCEPT ![i].made = TRUE]
          /\ disk' = [disk EXCEPT ![i] = @ \cup {<<creating[i].doc, "ocr">>}]
     ELSE /\ creating' = [creating EXCEPT ![i] = None]
          /\ UNCHANGED disk
  /\ UNCHANGED <<storeVars, staging, files, dirs, doomedDirs, doomedFiles, wiping, download>>

\* CreateFile from the second lock on: the job may have gone meanwhile.
EndCreateFile(i) ==
  /\ creating[i] # None
  /\ creating[i].made
  /\ LET path == <<creating[i].doc, "ocr">>
     IN  IF i \notin DOMAIN jobs \/ jobs[i].status = "removed"
         THEN /\ doomedFiles' = doomedFiles \cup {<<i, path>>}
              /\ UNCHANGED files
         ELSE /\ files' = [files EXCEPT ![i] = @ \cup {path}]
              /\ UNCHANGED doomedFiles
  /\ creating' = [creating EXCEPT ![i] = None]
  /\ UNCHANGED <<storeVars, staging, dirs, disk, doomedDirs, wiping, download>>

\* ReplaceDocument with the file CreateFile made; the file it replaces is
\* removed after the unlock.
SwapDocument(i, d, size) ==
  /\ Owned(i)
  /\ <<d, "ocr">> \in files[i] \cap disk[i]
  /\ i \in DOMAIN jobs
  /\ d \in DOMAIN jobs[i].docs
  /\ ~jobs[i].docs[d].ocr
  /\ ReplaceDocument(i, d, size)
  /\ DropEvicted(files)
  /\ doomedFiles' = doomedFiles \cup {<<i, PathOf(d, jobs[i].docs[d])>>}
  /\ UNCHANGED <<staging, dirs, disk, creating, wiping, download>>

\* Delete, by the pipeline or by an SMTP session that could not enqueue.
DeleteJob(i) ==
  /\ creating[i] = None
  /\ Delete(i)
  /\ files' = [files EXCEPT ![i] = {}]
  /\ doomedDirs' = doomedDirs \cup {i}
  /\ UNCHANGED <<staging, dirs, disk, creating, doomedFiles, wiping, download>>

-----------------------------------------------------------------------------
(***************************************************************************)
(* The sweep, Close, and the removals every operation leaves for after its *)
(* unlock.                                                                 *)
(***************************************************************************)
Sweep(at) ==
  /\ CleanExpired(at)
  /\ LET gone == (DOMAIN jobs \ DOMAIN jobs')
     IN  /\ files' = [i \in Ids |-> IF i \in gone THEN {} ELSE files[i]]
         /\ doomedDirs' = doomedDirs \cup gone
                            \cup (DOMAIN reservations \ DOMAIN reservations')
  /\ UNCHANGED <<staging, dirs, disk, creating, doomedFiles, wiping, download>>

CloseStore ==
  /\ Close
  /\ wiping' = TRUE
  /\ files' = [i \in Ids |-> IF i \in DOMAIN jobs THEN {} ELSE files[i]]
  /\ UNCHANGED <<staging, dirs, disk, creating, doomedDirs, doomedFiles, download>>

\* os.RemoveAll of a job's or a staging's directory.
RemoveDir(i) ==
  /\ i \in doomedDirs
  /\ doomedDirs' = doomedDirs \ {i}
  /\ dirs' = dirs \ {i}
  /\ disk' = [disk EXCEPT ![i] = {}]
  /\ UNCHANGED <<storeVars, staging, files, creating, doomedFiles, wiping, download>>

\* os.Remove of one file; a file already gone is no error.
RemoveFile(i, path) ==
  /\ <<i, path>> \in doomedFiles
  /\ doomedFiles' = doomedFiles \ {<<i, path>>}
  /\ disk' = [disk EXCEPT ![i] = @ \ {path}]
  /\ UNCHANGED <<storeVars, staging, files, dirs, creating, doomedDirs, wiping, download>>

\* Close's os.RemoveAll of the store directory.
Wipe ==
  /\ wiping
  /\ wiping' = FALSE
  /\ dirs' = {}
  /\ disk' = [i \in Ids |-> {}]
  /\ UNCHANGED <<storeVars, staging, files, creating, doomedDirs, doomedFiles, download>>

-----------------------------------------------------------------------------
(***************************************************************************)
(* The web UI's download: a snapshot of the job, then the file it names.   *)
(***************************************************************************)

\* Wrong: a scan still being processed is handed out.
BeginDownloadAnyTime(i, d) ==
  /\ download = None
  /\ Listed(i)
  /\ d \in DOMAIN jobs[i].docs
  /\ download' = [id |-> i, path |-> PathOf(d, jobs[i].docs[d])]
  /\ UNCHANGED <<storeVars, staging, files, dirs, disk, creating, doomedDirs, doomedFiles, wiping>>

\* Get, the web capability and the "still being processed" answer.
BeginDownload(i, d) ==
  /\ download = None
  /\ Listed(i)
  /\ d \in DOMAIN jobs[i].docs
  /\ jobs[i].status \notin {"pending", "processing"}
  /\ download' = [id |-> i, path |-> PathOf(d, jobs[i].docs[d])]
  /\ UNCHANGED <<storeVars, staging, files, dirs, disk, creating, doomedDirs, doomedFiles, wiping>>

\* os.Open succeeds and the file is sent, or the answer is a 500.
EndDownload ==
  /\ download # None
  /\ download' = None
  /\ UNCHANGED <<storeVars, staging, files, dirs, disk, creating, doomedDirs, doomedFiles, wiping>>

\* A Commit waits for the mutex no longer than Lag.
FilesTick ==
  /\ \A i \in Ids : staging[i].state = "committing" => now < staging[i].at + Lag
  /\ Tick
  /\ UNCHANGED fileVars

-----------------------------------------------------------------------------
FilesNext ==
  \/ \E i \in Ids :
       \/ BeginReserve(i)
       \/ MakeStagingDir(i)
       \/ MakeStagingDirFails(i)
       \/ EndReserve(i)
       \/ \E docs \in Committable : BeginCommit(i, docs)
       \/ \E caps \in Caps : EndCommit(i, caps)
       \/ BeginAbort(i)
       \/ EndAbort(i)
       \/ \E status \in {"processing", "ready", "failed"} : UpdateStatus(i, status)
       \/ MakeTempFile(i)
       \/ EndCreateFile(i)
       \/ DeleteJob(i)
       \/ RemoveDir(i)
       \/ \E path \in Path : RemoveFile(i, path)
       \/ \E d \in DocIds :
            \/ StageFile(i, d)
            \/ BeginCreateFile(i, d)
            \/ \E size \in Sizes : SwapDocument(i, d, size)
            \/ BeginDownload(i, d)
  \/ \E at \in Recent : Sweep(at)
  \/ CloseStore
  \/ Wipe
  \/ EndDownload
  \/ FilesTick

\* Time passes, the sweeper keeps running, a caller waiting for the mutex gets
\* it and one that owes a removal performs it; nothing is assumed of what the
\* stagings' owners or the pipeline do next.
Fairness ==
  /\ WF_vars(FilesTick)
  /\ WF_vars(Sweep(now))
  /\ WF_vars(Wipe)
  /\ \A i \in Ids : /\ WF_vars(RemoveDir(i))
                    /\ WF_vars(\E caps \in Caps : EndCommit(i, caps))

FilesSpec == FilesInit /\ [][FilesNext]_vars /\ Fairness

-----------------------------------------------------------------------------
(***************************************************************************)
(* Properties.                                                             *)
(***************************************************************************)

\* The steps on files and directories never disturb the bookkeeping: this is
\* an implementation of JobStore.
StoreSpec == Spec

\* Every document of every job the store offers is on disk, at whatever moment
\* another operation's removals happen to run.
DocumentsOnDisk ==
  \A i \in DOMAIN jobs : DocPaths(i) \subseteq disk[i]

\* A staging whose owner still has to commit or abort it.
Unsettled(i) == staging[i].state \in {"made", "open", "committing", "aborting"}

\* Nothing is left behind: every directory belongs to a job, to a staging that
\* is still to be settled, or is about to be removed.
NoStrandedDirs ==
  \A i \in dirs :
     \/ i \in doomedDirs \/ wiping
     \/ Unsettled(i)
     \/ i \in DOMAIN jobs /\ jobs[i].status # "removed"

\* A finished job is charged for exactly what it keeps on disk: no file that no
\* document points at outlives the settlement.
FinishedKeepsOnlyDocuments ==
  \A i \in FinishedIn(jobs) :
     {path \in disk[i] : <<i, path>> \notin doomedFiles} = DocPaths(i)

\* A download that was allowed to start finds its file as long as the scan is
\* still offered.
DownloadFindsFile ==
  download # None =>
    \/ download.id \notin FinishedIn(jobs)
    \/ download.path \in DocPaths(download.id) \cap disk[download.id]

\* A finished scan whose deadline falls within the modelled time is eventually
\* removed, record and files.
ExpiredScansAreRemoved ==
  \A i \in Ids :
     (i \in FinishedIn(jobs) /\ jobs[i].expires <= Horizon)
       ~> (i \notin DOMAIN jobs /\ i \notin dirs)

\* A reservation whose owner never settles it is eventually released by the
\* sweep, so a leak cannot block the budget for good.
LeakedReservationsAreReleased ==
  \A i \in Ids :
     (i \in DOMAIN reservations /\ reservations[i].reservedAt + StaleAfter < Horizon)
       ~> (i \notin DOMAIN reservations)
=============================================================================
