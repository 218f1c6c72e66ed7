------------------------------- MODULE Appliance -------------------------------
(***************************************************************************)
(* The way of a scan through the appliance: SMTP sessions                  *)
(* (internal/smtpin/session.go) stage and commit it, the worker pool       *)
(* (internal/pipeline/pipeline.go) processes it, and run                   *)
(* (cmd/scan2graph/main.go) shuts both down.  They share one job store,    *)
(* whose bookkeeping is that of JobStore (StoreSpec).                      *)
(*                                                                         *)
(* An SMTP connection has two threads: the command loop, which calls Mail  *)
(* and Reset, and a goroutine per message running Data, which go-smtp      *)
(* starts for a BDAT chunk and does not wait for before it serves a RSET.  *)
(* session.mu is what keeps them apart.  A call of Data is named by the id *)
(* of the staging it reserves and of the job it commits.                   *)
(*                                                                         *)
(* Recipients decide nothing here.  A staging directory that cannot be     *)
(* made and the two locked parts of Abort are left to JobStoreFiles.       *)
(***************************************************************************)
EXTENDS JobStore, Sequences

CONSTANTS
  Conns,          \* SMTP connections, each with one session
  Workers,        \* the pipeline's workers (Options.Workers of them)
  QueuePerWorker, \* queuePerWorker
  MaxGeneration,  \* bound on the resets of a session, its logout aside
  None

ASSUME ApplianceAssumption ==
  /\ IsFiniteSet(Workers) /\ Workers # {}
  /\ QueuePerWorker \in Nat \ {0}
  /\ MaxGeneration \in Nat
  /\ None \notin Ids \cup Caps

VARIABLES
  session,    \* per connection: the session's fields
  transfer,   \* per id: the call of Data that reserves it
  aborts,     \* stagings a Reset took out of its session and is about to abort
  queue,      \* Pipeline.queue
  worker,     \* per worker: where in process it is
  phase,      \* how far run's shutdown has come
  broken,     \* a listener failed: run returned early
  outcome,    \* per id, history: what its recipients have been given
  evictedFor  \* per id, history: the commit it was evicted for

lineVars == <<session, transfer, aborts, queue, worker, phase, broken>>
histVars == <<outcome, evictedFor>>
vars == <<storeVars, lineVars, histVars>>

\* "serving", then, after a signal, "closing" while the connections are closed
\* and "draining" during the HTTP server's shutdown; "stopping" once the
\* workers are told to stop and "closed" once the store is.
Phase == {"serving", "closing", "draining", "stopping", "closed"}

\* Where a call of Data is: started by go-smtp, then reading the message, then
\* holding session.mu for the handover; the last three are its answers, a 250
\* for a scan, a 250 for a message with nothing attached, and a refusal.
TransferState == {"none", "started", "reading", "enqueueing", "deleting",
                  "accepted", "empty", "refused"}
Answered == {"accepted", "empty", "refused"}

Generation == 0..MaxGeneration + 1

Session == [open : BOOLEAN, mailing : BOOLEAN, generation : Generation,
            caps : Caps \cup {None}, staging : Ids \cup {None}, holder : Ids \cup {None}]

\* txn and mailCaps are the connection's transaction when go-smtp started the
\* call, gen and caps what the call itself read under session.mu.
Transfer == [state : TransferState, conn : Conns \cup {None},
             txn : Generation, mailCaps : Caps \cup {None},
             gen : Generation, caps : Caps \cup {None}]

WorkerState == {"idle", "waiting", "taken", "ocr", "deliver", "finish", "fail", "notice",
                "delete", "stopped"}
Worker == [state : WorkerState, job : Ids \cup {None}, left : SUBSET DocIds]

Idle == [state |-> "idle", job |-> None, left |-> {}]
QueueCap == Cardinality(Workers) * QueuePerWorker
Elements(seq) == {seq[k] : k \in DOMAIN seq}

ApplianceTypeOK ==
  /\ TypeOK
  /\ session \in [Conns -> Session]
  /\ transfer \in [Ids -> Transfer]
  /\ aborts \subseteq Ids
  /\ queue \in Seq(Ids) /\ Len(queue) <= QueueCap
  /\ worker \in [Workers -> Worker]
  /\ phase \in Phase
  /\ broken \in BOOLEAN
  /\ outcome \in [Ids -> SUBSET {"scan", "notice", "web"}]
  /\ evictedFor \in [Ids -> Ids \cup {None}]

ApplianceInit ==
  /\ Init
  /\ session = [c \in Conns |->
       [open |-> TRUE, mailing |-> FALSE, generation |-> 0,
        caps |-> None, staging |-> None, holder |-> None]]
  /\ transfer = [i \in Ids |-> [state |-> "none", conn |-> None, txn |-> 0,
                                mailCaps |-> None, gen |-> 0, caps |-> None]]
  /\ aborts = {}
  /\ queue = << >>
  /\ worker = [w \in Workers |-> Idle]
  /\ phase = "serving"
  /\ broken = FALSE
  /\ outcome = [i \in Ids |-> {}]
  /\ evictedFor = [i \in Ids |-> None]

-----------------------------------------------------------------------------
(***************************************************************************)
(* The command loop.                                                       *)
(***************************************************************************)
Unlocked(c) == session[c].holder = None

\* Reset's locked part on session c, which then becomes otherwise next; the
\* staging it found there is aborted after the unlock.
ResetTo(c, next) ==
  /\ Unlocked(c)
  /\ session' = [session EXCEPT ![c] =
       [next EXCEPT !.generation = @ + 1, !.caps = None, !.staging = None]]
  /\ aborts' = IF session[c].staging = None THEN aborts
                                            ELSE aborts \cup {session[c].staging}

\* RSET, and go-smtp's own reset after a message.
Reset(c) ==
  /\ session[c].open
  /\ ~session[c].mailing
  /\ session[c].generation < MaxGeneration
  /\ ResetTo(c, session[c])
  /\ UNCHANGED <<storeVars, transfer, queue, worker, phase, broken, histVars>>

\* Mail first discards the previous transaction ...
BeginMail(c) ==
  /\ session[c].open
  /\ ~session[c].mailing
  /\ session[c].generation < MaxGeneration
  /\ ResetTo(c, [session[c] EXCEPT !.mailing = TRUE])
  /\ UNCHANGED <<storeVars, transfer, queue, worker, phase, broken, histVars>>

\* ... and then selects the sender's profile, or refuses the sender.
EndMail(c, caps) ==
  /\ session[c].mailing
  /\ Unlocked(c)
  /\ session' = [session EXCEPT ![c].mailing = FALSE, ![c].caps = caps]
  /\ UNCHANGED <<storeVars, transfer, aborts, queue, worker, phase, broken, histVars>>

\* The connection ends; while the server closes, every connection does.
Logout(c) ==
  /\ session[c].open
  /\ ResetTo(c, [session[c] EXCEPT !.open = FALSE])
  /\ UNCHANGED <<storeVars, transfer, queue, worker, phase, broken, histVars>>

\* Staging.Abort, called by Reset: a no-op if the reservation is settled.
AbortStaging(i) ==
  /\ i \in aborts
  /\ aborts' = aborts \ {i}
  /\ IF i \in DOMAIN reservations THEN ReleaseReservation(i) ELSE UNCHANGED storeVars
  /\ UNCHANGED <<session, transfer, queue, worker, phase, broken, histVars>>

-----------------------------------------------------------------------------
(***************************************************************************)
(* Session.Data.                                                           *)
(***************************************************************************)

\* go-smtp starts Data for the current transaction, one call per transaction.
StartData(c, i) ==
  /\ session[c].open
  /\ ~session[c].mailing
  /\ session[c].caps # None
  /\ transfer[i].state = "none"
  /\ \A k \in Ids : ~(transfer[k].conn = c /\ transfer[k].txn = session[c].generation)
  /\ transfer' = [transfer EXCEPT ![i] =
       [@ EXCEPT !.state = "started", !.conn = c, !.txn = session[c].generation,
                 !.mailCaps = session[c].caps]]
  /\ UNCHANGED <<storeVars, session, aborts, queue, worker, phase, broken, histVars>>

\* Data's first locked part: take the budget and snapshot the transaction.  A
\* goroutine that is late does so after a Reset, perhaps of the next one's.
BeginData(i) ==
  LET c == transfer[i].conn
  IN  /\ transfer[i].state = "started"
      /\ Unlocked(c)
      /\ IF ~closed /\ Admits(MaxMessage)
         THEN /\ Reserve(i)
              /\ session' = [session EXCEPT ![c].staging = i]
              /\ transfer' = [transfer EXCEPT ![i] =
                   [@ EXCEPT !.state = "reading", !.gen = session[c].generation,
                             !.caps = session[c].caps]]
         ELSE /\ UNCHANGED <<storeVars, session>>
              /\ transfer' = [transfer EXCEPT ![i].state = "refused"]
      /\ UNCHANGED <<aborts, queue, worker, phase, broken, histVars>>

\* Wrong: the session still names a staging that was handed over.
HandOverKeepingStaging(i, holder) ==
  /\ transfer[i].state = "reading"
  /\ Unlocked(transfer[i].conn)
  /\ session' = [session EXCEPT ![transfer[i].conn].holder = holder]

\* The handover: Data has read its message and takes session.mu.  It clears
\* the session's staging whoever put it there.
HandOver(i, holder) ==
  /\ transfer[i].state = "reading"
  /\ Unlocked(transfer[i].conn)
  /\ session' = [session EXCEPT ![transfer[i].conn].staging = None,
                                ![transfer[i].conn].holder = holder]

\* Wrong: the transaction's generation is not compared.
NeverReset(i) == FALSE

WasReset(i) == session[transfer[i].conn].generation # transfer[i].gen

\* go-smtp fails the reader of a transaction it has reset, so a call that only
\* began after that reads an error and nothing else.
ReaderFailed(i) == transfer[i].gen # transfer[i].txn

Answer(i, answer) == transfer' = [transfer EXCEPT ![i].state = answer]

\* Wrong: aborting a transaction that was reset is left to the Reset.
AbortUnlessReset(i) ==
  IF i \in DOMAIN reservations /\ ~WasReset(i)
  THEN ReleaseReservation(i) ELSE UNCHANGED storeVars

\* Wrong: the charge is released once more after a Reset already did.
AbortAgain(i) ==
  /\ reservations' = Drop(reservations, {i})
  /\ used' = used - MaxMessage
  /\ UNCHANGED <<jobs, closed, now>>

\* Abort by Data itself.
AbortOwn(i) ==
  IF i \in DOMAIN reservations THEN ReleaseReservation(i) ELSE UNCHANGED storeVars

\* The transaction was reset, the message could not be read to its end, it
\* carries no usable PDF, or it can no longer be committed.
RefuseMessage(i) ==
  /\ HandOver(i, None)
  /\ AbortOwn(i)
  /\ Answer(i, "refused")
  /\ UNCHANGED <<aborts, queue, worker, phase, broken, histVars>>

\* A message with nothing attached: a 250 and no job.
AcceptEmpty(i) ==
  /\ HandOver(i, None)
  /\ ~WasReset(i)
  /\ ~ReaderFailed(i)
  /\ AbortOwn(i)
  /\ Answer(i, "empty")
  /\ UNCHANGED <<aborts, queue, worker, phase, broken, histVars>>

CommitScan(i, docs, at) ==
  /\ HandOver(i, i)
  /\ ~WasReset(i)
  /\ ~ReaderFailed(i)
  /\ Commit(i, transfer[i].caps, docs, at)
  /\ Answer(i, "enqueueing")
  /\ evictedFor' = [k \in Ids |-> IF k \in EvictedNow THEN i ELSE evictedFor[k]]
  /\ UNCHANGED <<aborts, queue, worker, phase, broken, outcome>>

Unlock(i) == session' = [session EXCEPT ![transfer[i].conn].holder = None]

\* Pipeline.Enqueue, which never blocks.
EnqueueScan(i) ==
  /\ transfer[i].state = "enqueueing"
  /\ IF Len(queue) < QueueCap
     THEN /\ queue' = Append(queue, i)
          /\ Answer(i, "accepted")
          /\ Unlock(i)
     ELSE /\ UNCHANGED <<queue, session>>
          /\ Answer(i, "deleting")
  /\ UNCHANGED <<storeVars, aborts, worker, phase, broken, histVars>>

\* Store.Delete, whose error is ignored where the job is already gone.
DeleteIfThere(i) == IF i \in DOMAIN jobs THEN Delete(i) ELSE UNCHANGED storeVars

\* Wrong: this way out of Data forgets the mutex.
DeleteScanLocked(i) ==
  /\ transfer[i].state = "deleting"
  /\ DeleteIfThere(i)
  /\ Answer(i, "refused")
  /\ UNCHANGED <<session, aborts, queue, worker, phase, broken, histVars>>

\* The scan that could not be enqueued.
DeleteScan(i) ==
  /\ transfer[i].state = "deleting"
  /\ DeleteIfThere(i)
  /\ Answer(i, "refused")
  /\ Unlock(i)
  /\ UNCHANGED <<aborts, queue, worker, phase, broken, histVars>>

-----------------------------------------------------------------------------
(***************************************************************************)
(* Pipeline.process, one worker.  A call to OCR or to Graph may fail at    *)
(* any time, be it for the job's own time budget or for the shutdown's.    *)
(***************************************************************************)
Stopped == phase \in {"stopping", "closed"}
At(w, state) == worker[w].state = state
GoOn(w, state) == worker' = [worker EXCEPT ![w].state = state]

\* Wrong: a worker leaves its loop after a job.
Quit(w) == worker' = [worker EXCEPT ![w] = [Idle EXCEPT !.state = "stopped"]]

Done(w) == worker' = [worker EXCEPT ![w] = Idle]
CapsOf(w) == transfer[worker[w].job].caps

\* The look at ctx.Err before every job.
LookForStop(w) ==
  /\ At(w, "idle")
  /\ GoOn(w, IF Stopped THEN "stopped" ELSE "waiting")
  /\ UNCHANGED <<storeVars, session, transfer, aborts, queue, phase, broken, histVars>>

\* The select takes either case when both are ready.
Take(w) ==
  /\ At(w, "waiting")
  /\ queue # << >>
  /\ queue' = Tail(queue)
  /\ worker' = [worker EXCEPT ![w] = [state |-> "taken", job |-> Head(queue), left |-> {}]]
  /\ UNCHANGED <<storeVars, session, transfer, aborts, phase, broken, histVars>>

Stop(w) ==
  /\ At(w, "waiting")
  /\ Stopped
  /\ GoOn(w, "stopped")
  /\ UNCHANGED <<storeVars, session, transfer, aborts, queue, phase, broken, histVars>>

AfterOcr(w) == IF "email" \in CapsOf(w) THEN "deliver" ELSE "finish"

\* SetStatus(StatusProcessing), or a job that is gone and skipped.
Begin(w) ==
  LET i == worker[w].job
  IN  /\ At(w, "taken")
      /\ IF i \in DOMAIN jobs /\ jobs[i].status # "removed"
         THEN /\ SetStatus(i, "processing")
              /\ worker' = [worker EXCEPT ![w] =
                   [@ EXCEPT !.state = IF "ocr" \in CapsOf(w) THEN "ocr" ELSE AfterOcr(w),
                             !.left  = DOMAIN jobs[i].docs]]
         ELSE /\ UNCHANGED storeVars
              /\ Done(w)
      /\ UNCHANGED <<session, transfer, aborts, queue, phase, broken, histVars>>

\* One document's round through CreateFile, SearchablePDF and ReplaceDocument.
OcrDocument(w, d, size) ==
  LET left == worker[w].left \ {d}
  IN  /\ At(w, "ocr")
      /\ d \in worker[w].left
      /\ ReplaceDocument(worker[w].job, d, size)
      /\ worker' = [worker EXCEPT ![w] =
           [@ EXCEPT !.state = IF left = {} THEN AfterOcr(w) ELSE "ocr", !.left = left]]
      /\ UNCHANGED <<session, transfer, aborts, queue, phase, broken, histVars>>

\* Wrong: the original goes out where OCR failed.
OcrFallsBack(w) ==
  /\ At(w, "ocr")
  /\ GoOn(w, AfterOcr(w))
  /\ UNCHANGED <<storeVars, session, transfer, aborts, queue, phase, broken, histVars>>

OcrFails(w) ==
  /\ At(w, "ocr")
  /\ GoOn(w, "fail")
  /\ UNCHANGED <<storeVars, session, transfer, aborts, queue, phase, broken, histVars>>

Gives(w, what) == outcome' = [outcome EXCEPT ![worker[w].job] = @ \cup {what}]

\* deliver: the scan is sent, or is too large and a notice goes out instead.
Deliver(w) ==
  /\ At(w, "deliver")
  /\ Gives(w, "scan") \/ Gives(w, "notice")
  /\ GoOn(w, "finish")
  /\ UNCHANGED <<storeVars, session, transfer, aborts, queue, phase, broken, evictedFor>>

\* Send reports an error; Graph may have taken the message all the same.
DeliverFails(w) ==
  /\ At(w, "deliver")
  /\ UNCHANGED outcome \/ Gives(w, "scan")
  /\ GoOn(w, "fail")
  /\ UNCHANGED <<storeVars, session, transfer, aborts, queue, phase, broken, evictedFor>>

\* SetStatus to a final state, which web users get to see; a job that is gone
\* is logged and no more.
Settle(i, status) ==
  IF i \in DOMAIN jobs /\ jobs[i].status # "removed"
  THEN /\ SetStatus(i, status)
       /\ outcome' = IF "web" \in jobs[i].caps
                     THEN [outcome EXCEPT ![i] = @ \cup {"web"}]
                     ELSE outcome
  ELSE UNCHANGED <<storeVars, outcome>>

Finish(w) ==
  /\ At(w, "finish")
  /\ IF "web" \in CapsOf(w)
     THEN /\ Settle(worker[w].job, "ready")
          /\ Done(w)
     ELSE /\ UNCHANGED <<storeVars, outcome>>
          /\ GoOn(w, "delete")
  /\ UNCHANGED <<session, transfer, aborts, queue, phase, broken, evictedFor>>

\* Wrong: no notice where the web UI shows the failure.
FailQuietly(w) ==
  /\ At(w, "fail")
  /\ Settle(worker[w].job, "failed")
  /\ IF "web" \in CapsOf(w) THEN Done(w)
     ELSE IF "email" \in CapsOf(w) THEN GoOn(w, "notice") ELSE GoOn(w, "delete")
  /\ UNCHANGED <<session, transfer, aborts, queue, phase, broken, evictedFor>>

Fail(w) ==
  /\ At(w, "fail")
  /\ Settle(worker[w].job, "failed")
  /\ IF "email" \in CapsOf(w) THEN GoOn(w, "notice")
     ELSE IF "web" \in CapsOf(w) THEN Done(w) ELSE GoOn(w, "delete")
  /\ UNCHANGED <<session, transfer, aborts, queue, phase, broken, evictedFor>>

\* notice, sent once whether or not it arrives.
Notice(w) ==
  /\ At(w, "notice")
  /\ Gives(w, "notice")
  /\ IF "web" \in CapsOf(w) THEN Done(w) ELSE GoOn(w, "delete")
  /\ UNCHANGED <<storeVars, session, transfer, aborts, queue, phase, broken, evictedFor>>

DeleteJob(w) ==
  /\ At(w, "delete")
  /\ DeleteIfThere(worker[w].job)
  /\ Done(w)
  /\ UNCHANGED <<session, transfer, aborts, queue, phase, broken, histVars>>

-----------------------------------------------------------------------------
(***************************************************************************)
(* run: the sweep and the shutdown.                                        *)
(***************************************************************************)
Sweep(at) ==
  /\ CleanExpired(at)
  /\ UNCHANGED <<lineVars, histVars>>

Signal ==
  /\ phase = "serving"
  /\ phase' = "closing"
  /\ UNCHANGED <<storeVars, session, transfer, aborts, queue, worker, broken, histVars>>

\* Wrong: the workers are wound down beside the listener.
SmtpStillOpen ==
  /\ phase = "closing"
  /\ phase' = "draining"
  /\ UNCHANGED <<storeVars, session, transfer, aborts, queue, worker, broken, histVars>>

\* smtpSrv.Close returns when every connection is closed.
SmtpClosed ==
  /\ phase = "closing"
  /\ \A c \in Conns : ~session[c].open
  /\ phase' = "draining"
  /\ UNCHANGED <<storeVars, session, transfer, aborts, queue, worker, broken, histVars>>

\* srv.Shutdown returns, drained or timed out; stopWorkers.
StopWorkers ==
  /\ phase = "draining"
  /\ phase' = "stopping"
  /\ UNCHANGED <<storeVars, session, transfer, aborts, queue, worker, broken, histVars>>

\* A listener fails: run returns at once, and its deferred stopWorkers runs.
ServerFails ==
  /\ phase = "serving"
  /\ phase' = "stopping"
  /\ broken' = TRUE
  /\ UNCHANGED <<storeVars, session, transfer, aborts, queue, worker, histVars>>

\* The deferred store.Close; only the orderly way out waits for the workers.
CloseStore ==
  /\ phase = "stopping"
  /\ broken \/ \A w \in Workers : At(w, "stopped")
  /\ Close
  /\ phase' = "closed"
  /\ UNCHANGED <<session, transfer, aborts, queue, worker, broken, histVars>>

ClockTick == Tick /\ UNCHANGED <<lineVars, histVars>>

-----------------------------------------------------------------------------
DataStep(i) ==
  \/ BeginData(i)
  \/ RefuseMessage(i)
  \/ AcceptEmpty(i)
  \/ \E docs \in Committable, at \in Recent : CommitScan(i, docs, at)
  \/ EnqueueScan(i)
  \/ DeleteScan(i)

WorkerStep(w) ==
  \/ LookForStop(w)
  \/ Take(w)
  \/ Stop(w)
  \/ Begin(w)
  \/ \E d \in DocIds, size \in Sizes : OcrDocument(w, d, size)
  \/ OcrFails(w)
  \/ Deliver(w)
  \/ DeliverFails(w)
  \/ Finish(w)
  \/ Fail(w)
  \/ Notice(w)
  \/ DeleteJob(w)

ApplianceNext ==
  \/ \E c \in Conns :
       \/ Reset(c)
       \/ BeginMail(c)
       \/ \E caps \in Caps \cup {None} : EndMail(c, caps)
       \/ Logout(c)
       \/ \E i \in Ids : StartData(c, i)
  \/ \E i \in Ids : AbortStaging(i) \/ DataStep(i)
  \/ \E w \in Workers : WorkerStep(w)
  \/ \E at \in Recent : Sweep(at)
  \/ Signal \/ SmtpClosed \/ StopWorkers \/ ServerFails \/ CloseStore
  \/ ClockTick

\* The processor is shared: threads that can run do.  A read from the printer
\* ends within ReadTimeout, a call to OCR or Graph within jobTimeout, and the
\* server closes each connection.  Nothing is assumed of what printers do.
ApplianceFairness ==
  /\ \A i \in Ids : WF_vars(DataStep(i)) /\ WF_vars(AbortStaging(i))
  /\ \A w \in Workers : WF_vars(WorkerStep(w))
  /\ \A c \in Conns : WF_vars(phase = "closing" /\ Logout(c))
  /\ WF_vars(SmtpClosed)
  /\ WF_vars(StopWorkers)
  /\ WF_vars(CloseStore)

ApplianceSpec == ApplianceInit /\ [][ApplianceNext]_vars /\ ApplianceFairness

-----------------------------------------------------------------------------
(***************************************************************************)
(* Properties.                                                             *)
(***************************************************************************)

\* Sessions, workers and shutdown together use the store as its specification
\* allows: documents within the message, no way back from a final state.
StoreSpec == Spec

\* Who has a job in hand: a place in the queue, a worker, or the session that
\* is still handing it over.
Owners(i) ==
  {<<"queue", k>> : k \in {k \in DOMAIN queue : queue[k] = i}}
  \cup {<<"worker", w>> : w \in {w \in Workers : worker[w].job = i}}
  \cup {<<"session", c>> : c \in {c \in Conns : session[c].holder = i}}

\* Nothing is left without somebody who will settle it, whatever order resets,
\* late goroutines and overwritten session fields come in: a job that has no
\* final state yet, or that nobody would see or collect because it lacks the web
\* capability, has exactly one owner; promised space has a Data call or an abort.
EverythingHasAnOwner ==
  /\ \A i \in DOMAIN jobs :
       (i \in UnfinishedIn(jobs) \/ "web" \notin jobs[i].caps)
         => Cardinality(Owners(i)) = 1
  /\ \A i \in DOMAIN reservations : transfer[i].state = "reading" \/ i \in aborts

\* A scan is committed only for the transaction it was sent in, which is still
\* the connection's current one, and with the profile that transaction's MAIL
\* selected: a Reset either finds a scan committed or prevents it.
ScanBelongsToItsTransaction ==
  [][\A i \in DOMAIN jobs' \ DOMAIN jobs :
       LET t == transfer[i]
       IN  /\ session[t.conn].generation = t.txn
           /\ jobs'[i].caps = t.mailCaps]_vars

\* A transaction is either committed or aborted, never both and never neither
\* (session.go:186-191): one whose staging a Reset is aborting was not and will
\* not be accepted, and a message that was refused, or accepted with nothing
\* attached, leaves neither a job nor promised space.
AbortedOrCommitted ==
  /\ \A i \in aborts : transfer[i].state \in {"reading", "refused"}
  /\ \A i \in Ids :
       transfer[i].state \in {"refused", "empty"} =>
         i \notin DOMAIN jobs \cup DOMAIN reservations

\* A scan answered with 250 is never lost while the process lives: once no
\* longer in the pipeline's hands its recipients were sent it or a notice if
\* the profile has email, and saw it end if it has web.
AcceptedIsReported ==
  \A i \in Ids :
     transfer[i].state = "accepted" /\ Owners(i) = {} /\ ~broken =>
       /\ "email" \in transfer[i].caps => outcome[i] \cap {"scan", "notice"} # {}
       /\ "web" \in transfer[i].caps => "web" \in outcome[i]

\* A scan that is to be searchable is never sent or shown as ready before OCR
\* replaced each of its documents.
OnlySearchableIsDelivered ==
  [][\A i \in DOMAIN jobs :
       /\ "ocr" \in jobs[i].caps
       /\ \/ "scan" \in outcome'[i] \ outcome[i]
          \/ /\ jobs[i].status # "ready"
             /\ i \in DOMAIN jobs' /\ jobs'[i].status = "ready"
       => \A d \in DOMAIN jobs[i].docs : jobs[i].docs[d].ocr]_vars

JustAccepted(i) == transfer[i].state # "accepted" /\ transfer'[i].state = "accepted"

\* On an orderly shutdown no scan is accepted any more once the workers have
\* been told to stop.
NoneAcceptedOnceStopping ==
  [][\A i \in Ids :
       JustAccepted(i) => ~Stopped \/ broken]_vars

\* Every accepted scan is eventually out of the pipeline's hands, unless the
\* workers are stopped first.
AcceptedIsProcessed ==
  \A i \in Ids : (transfer[i].state = "accepted") ~> (Owners(i) = {} \/ Stopped)

\* Once the signal has arrived the shutdown comes to its end.
ShutdownEnds == (phase = "closing") ~> (phase = "closed")

\* store.go:236-237: "a scan is only ever destroyed to make room for one that
\* was actually accepted".
DestroyedOnlyForAccepted ==
  \A k \in Ids :
     evictedFor[k] # None => transfer[evictedFor[k]].state # "refused"
=============================================================================
