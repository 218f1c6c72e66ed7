---------------------------- MODULE ApplianceProofs ----------------------------
(***************************************************************************)
(* The way of a scan through the appliance, proved for any connections,    *)
(* workers, ids, budget and clock.  A call of Data that passes its checks  *)
(* does so in the transaction it was sent in; from then on the scan is     *)
(* handed from the session to the queue and from there to one worker, and  *)
(* each of them knows in which state it holds the job.                     *)
(***************************************************************************)
EXTENDS Appliance, JobStoreProofs

\* The caller that has i in hand finds it in the given state, unless the store
\* was closed.
InHand(i, status) ==
  /\ ~closed => i \in DOMAIN jobs
  /\ i \in DOMAIN jobs => jobs[i].status = status

\* What the recipients of i were to be given.
Mailed(i) == outcome[i] \cap {"scan", "notice"} # {}
Reported(i) ==
  /\ "email" \in transfer[i].caps => Mailed(i)
  /\ "web" \in transfer[i].caps => "web" \in outcome[i]

Searchable(i) == i \in DOMAIN jobs => \A d \in DOMAIN jobs[i].docs : jobs[i].docs[d].ocr

\* The transfers of a connection that is closed or in Mail are of earlier
\* transactions; the mutex and the staging of a session are those of one of
\* its own calls of Data.
SessionInv(c) ==
  /\ session[c].open => session[c].generation <= MaxGeneration
  /\ ~session[c].open \/ session[c].mailing =>
       \A i \in Ids : transfer[i].state # "none" /\ transfer[i].conn = c
                        => transfer[i].txn < session[c].generation
  /\ ~session[c].open => session[c].holder = None
  /\ session[c].holder # None =>
       /\ transfer[session[c].holder].state \in {"enqueueing", "deleting"}
       /\ transfer[session[c].holder].conn = c
  /\ session[c].staging # None =>
       /\ transfer[session[c].staging].state = "reading"
       /\ transfer[session[c].staging].conn = c

\* A call of Data that began in the transaction it was started for has that
\* transaction's capabilities, and it has the mutex from the commit on.
TransferInv(i) ==
  LET t == transfer[i] IN
  /\ t.state # "none" =>
       /\ t.conn \in Conns /\ t.mailCaps \in Caps
       /\ t.txn <= session[t.conn].generation
  /\ t.state = "started" /\ t.txn = session[t.conn].generation =>
       t.mailCaps = session[t.conn].caps
  /\ t.state = "reading" =>
       /\ t.gen <= session[t.conn].generation
       /\ t.gen = t.txn => t.caps = t.mailCaps
  /\ t.state \in {"enqueueing", "deleting", "accepted"} => t.caps \in Caps
  /\ t.state \in {"enqueueing", "deleting"} =>
       session[t.conn].holder = i /\ InHand(i, "pending")
  /\ i \in aborts =>
       \/ t.state = "refused"
       \/ t.state = "reading" /\ t.gen < session[t.conn].generation

\* What the store knows of i follows from where its call of Data is.
StoredInv(i) ==
  /\ i \in DOMAIN reservations => transfer[i].state = "reading"
  /\ i \in DOMAIN jobs => /\ transfer[i].state \in {"enqueueing", "deleting", "accepted"}
                          /\ jobs[i].caps = transfer[i].caps

QueueInv ==
  /\ \A k \in DOMAIN queue : /\ transfer[queue[k]].state = "accepted"
                             /\ InHand(queue[k], "pending")
  /\ \A k, l \in DOMAIN queue : queue[k] = queue[l] => k = l

\* What a worker knows of the job it has taken from the queue.
WorkerInv(w) ==
  LET i == worker[w].job
      s == worker[w].state
  IN
  /\ i = None <=> s \in {"idle", "waiting", "stopped"}
  /\ i # None =>
       /\ transfer[i].state = "accepted"
       /\ \A k \in DOMAIN queue : queue[k] # i
       /\ \A v \in Workers \ {w} : worker[v].job # i
  /\ s = "taken" => InHand(i, "pending")
  /\ s \in {"ocr", "deliver", "finish", "fail"} => InHand(i, "processing")
  /\ s = "ocr" /\ i \in DOMAIN jobs =>
       \A d \in DOMAIN jobs[i].docs : d \in worker[w].left \/ jobs[i].docs[d].ocr
  /\ s \in {"deliver", "finish"} /\ "ocr" \in transfer[i].caps => Searchable(i)
  /\ s = "finish" /\ "email" \in transfer[i].caps => Mailed(i)
  /\ s = "notice" =>
       /\ i \notin UnfinishedIn(jobs)
       /\ ~broken /\ "web" \in transfer[i].caps => "web" \in outcome[i]
  /\ s = "delete" =>
       /\ "web" \notin transfer[i].caps
       /\ "email" \in transfer[i].caps => Mailed(i)

\* A scan that was accepted and is in nobody's hands any more has been
\* reported, and what is left of it is for the web UI to show.
LooseInv(i) ==
  /\ transfer[i].state = "accepted"
  /\ \A k \in DOMAIN queue : queue[k] # i
  /\ \A w \in Workers : worker[w].job # i
  => /\ i \in DOMAIN jobs => i \notin UnfinishedIn(jobs) /\ "web" \in jobs[i].caps
     /\ ~broken => Reported(i)

\* On the orderly way out the connections are closed before the workers stop,
\* and the workers have stopped before the store is closed.
PhaseInv ==
  /\ closed <=> phase = "closed"
  /\ closed => DOMAIN jobs = {} /\ DOMAIN reservations = {}
  /\ closed /\ ~broken => \A w \in Workers : worker[w].state = "stopped"
  /\ phase \in {"draining", "stopping", "closed"} /\ ~broken =>
       \A c \in Conns : ~session[c].open

LineTyped ==
  /\ session \in [Conns -> Session]
  /\ transfer \in [Ids -> Transfer]
  /\ aborts \subseteq Ids
  /\ queue \in Seq(Ids) /\ Len(queue) <= QueueCap
  /\ worker \in [Workers -> Worker]
  /\ phase \in Phase
  /\ broken \in BOOLEAN
  /\ outcome \in [Ids -> SUBSET {"scan", "notice", "web"}]
  /\ evictedFor \in [Ids -> Ids \cup {None}]

LineInv ==
  /\ LineTyped
  /\ PhaseInv
  /\ \A c \in Conns : SessionInv(c)
  /\ \A i \in Ids : TransferInv(i) /\ StoredInv(i)
  /\ QueueInv
  /\ \A w \in Workers : WorkerInv(w)
  /\ \A i \in Ids : LooseInv(i)

ApplianceInv == IInv /\ LineInv

-----------------------------------------------------------------------------
(***************************************************************************)
(* Implementation of JobStore.                                             *)
(***************************************************************************)

\* A call of Data that finds its transaction not reset, and its reader sound,
\* holds the capabilities of the MAIL it was sent after.
LEMMA InItsTransaction ==
  ASSUME LineInv, NEW i \in Ids, transfer[i].state = "reading",
         ~WasReset(i), ~ReaderFailed(i)
  PROVE  /\ transfer[i].conn \in Conns
         /\ transfer[i].caps = transfer[i].mailCaps /\ transfer[i].caps \in Caps
         /\ session[transfer[i].conn].generation = transfer[i].txn
BY DEF LineInv, TransferInv, WasReset, ReaderFailed

\* A worker that has just taken a job finds it as it was committed.
LEMMA BeginIsLegal ==
  ASSUME LineInv, NEW w \in Workers, At(w, "taken"), worker[w].job \in DOMAIN jobs
  PROVE  jobs[worker[w].job].status = "pending"
BY DEF LineInv, WorkerInv, InHand, At

LEMMA LineStoreStep ==
  ASSUME ApplianceInv, [ApplianceNext]_vars
  PROVE  [Next]_storeVars
<1>0. LineInv /\ DOMAIN jobs \subseteq Ids
  BY DEF ApplianceInv, IInv, TypeOK
<1>1. ASSUME UNCHANGED vars PROVE UNCHANGED storeVars
  BY <1>1 DEF vars
<1>2. ASSUME NEW c \in Conns,
             \/ Reset(c) \/ BeginMail(c) \/ Logout(c)
             \/ \E caps \in Caps \cup {None} : EndMail(c, caps)
             \/ \E i \in Ids : StartData(c, i)
      PROVE  UNCHANGED storeVars
  BY <1>2 DEF Reset, BeginMail, Logout, EndMail, StartData
<1>3. ASSUME NEW i \in Ids,
             \/ AbortStaging(i) \/ BeginData(i) \/ RefuseMessage(i) \/ AcceptEmpty(i)
             \/ EnqueueScan(i)
      PROVE  [Next]_storeVars
  BY <1>3 DEF AbortStaging, BeginData, RefuseMessage, AcceptEmpty, AbortOwn, EnqueueScan,
       Next
<1>4. ASSUME NEW i \in Ids, NEW docs \in Committable, NEW at \in Recent,
             CommitScan(i, docs, at)
      PROVE  [Next]_storeVars
  <2>1. transfer[i].caps \in Caps
    BY <1>0, <1>4, InItsTransaction DEF CommitScan, HandOver
  <2>2. Commit(i, transfer[i].caps, docs, at)
    BY <1>4 DEF CommitScan
  <2>3. QED BY <2>1, <2>2 DEF Next
<1>5. ASSUME NEW i \in Ids, DeleteScan(i) PROVE [Next]_storeVars
  BY <1>5 DEF DeleteScan, DeleteIfThere, Next
<1>6. ASSUME NEW w \in Workers,
             \/ LookForStop(w) \/ Take(w) \/ Stop(w) \/ OcrFails(w) \/ Deliver(w)
             \/ DeliverFails(w) \/ Notice(w)
      PROVE  UNCHANGED storeVars
  BY <1>6 DEF LookForStop, Take, Stop, OcrFails, Deliver, DeliverFails, Notice
<1>7. ASSUME NEW w \in Workers, Begin(w) PROVE [Next]_storeVars
  <2> DEFINE i == worker[w].job
  <2>1. CASE i \in DOMAIN jobs /\ jobs[i].status # "removed"
    <3>1. SetStatus(i, "processing") /\ jobs[i].status = "pending" /\ i \in Ids
      BY <1>0, <1>7, <2>1, BeginIsLegal DEF Begin
    <3>2. LegalStatus(i, "processing")
      BY <3>1 DEF LegalStatus, Finished
    <3> HIDE DEF i
    <3>3. QED BY <3>1, <3>2 DEF Next
  <2>2. CASE ~(i \in DOMAIN jobs /\ jobs[i].status # "removed")
    BY <1>7, <2>2 DEF Begin
  <2>3. QED BY <2>1, <2>2
<1>8. ASSUME NEW w \in Workers, NEW d \in DocIds, NEW size \in Sizes,
             OcrDocument(w, d, size)
      PROVE  [Next]_storeVars
  <2>1. ReplaceDocument(worker[w].job, d, size) /\ worker[w].job \in Ids
    BY <1>0, <1>8 DEF OcrDocument, ReplaceDocument
  <2>2. QED BY <2>1 DEF Next
<1>9. ASSUME NEW w \in Workers, Finish(w) \/ Fail(w) PROVE [Next]_storeVars
  <2>1. \A i : \A status \in {"ready", "failed"} :
           Settle(i, status) => UNCHANGED storeVars \/ (i \in Ids /\ SetStatus(i, status))
    BY <1>0 DEF Settle
  <2>2. \A i \in Ids : \A status \in {"ready", "failed"} :
           SetStatus(i, status) => Next
    BY DEF Next, LegalStatus, Finished
  <2>3. QED BY <1>9, <2>1, <2>2 DEF Finish, Fail
<1>10. ASSUME NEW w \in Workers, DeleteJob(w) PROVE [Next]_storeVars
  BY <1>0, <1>10 DEF DeleteJob, DeleteIfThere, Next
<1>11. ASSUME NEW at \in Recent, Sweep(at) PROVE [Next]_storeVars
  BY <1>11 DEF Sweep, Next
<1>12. ASSUME Signal \/ SmtpClosed \/ StopWorkers \/ ServerFails PROVE UNCHANGED storeVars
  BY <1>12 DEF Signal, SmtpClosed, StopWorkers, ServerFails
<1>13. ASSUME CloseStore \/ ClockTick PROVE [Next]_storeVars
  BY <1>13 DEF CloseStore, ClockTick, Next
<1>14. QED
  BY <1>1, <1>2, <1>3, <1>4, <1>5, <1>6, <1>7, <1>8, <1>9, <1>10, <1>11, <1>12, <1>13
     DEF ApplianceNext, DataStep, WorkerStep

-----------------------------------------------------------------------------
(***************************************************************************)
(* What a step leaves alone.                                               *)
(***************************************************************************)

\* What a step may do to a job that it is not about.
JobLasts(k) ==
  /\ k \in DOMAIN jobs' => /\ k \in DOMAIN jobs
                           /\ jobs'[k].caps = jobs[k].caps
                           /\ jobs'[k].docs \in {jobs[k].docs, NoEntries}
                           /\ jobs'[k].status \in {jobs[k].status, "removed"}
  /\ k \in UnfinishedIn(jobs) /\ ~closed' => k \in DOMAIN jobs' /\ jobs'[k] = jobs[k]

ClosingStep == (closed => closed') /\ (closed' => DOMAIN jobs' = {})

LEMMA InHandLasts ==
  ASSUME NEW k, NEW status \in {"pending", "processing"}, InHand(k, status),
         JobLasts(k), ClosingStep
  PROVE  InHand(k, status)'
BY DEF InHand, JobLasts, ClosingStep, UnfinishedIn

LEMMA UnchangedLasts ==
  ASSUME NEW k, jobs' = jobs
  PROVE  JobLasts(k)
BY DEF JobLasts, UnfinishedIn

LEMMA KeptLasts ==
  ASSUME NEW k,
         IF k \in DOMAIN jobs THEN KeptOrEvicted(k) ELSE k \notin DOMAIN jobs'
  PROVE  JobLasts(k)
BY DEF JobLasts, KeptOrEvicted, UnfinishedIn, FinishedIn, Finished

LEMMA SearchableLasts ==
  ASSUME NEW k, JobLasts(k), Searchable(k)
  PROVE  Searchable(k)'
BY DEF JobLasts, Searchable, NoEntries

\* An accepted scan stays accepted.
StaysAccepted(k) ==
  /\ transfer'[k].state = "accepted"
  /\ transfer'[k].caps = transfer[k].caps

LEMMA WorkerBystander ==
  ASSUME NEW w \in Workers, WorkerInv(w), worker'[w] = worker[w],
         worker[w].job # None =>
           /\ JobLasts(worker[w].job) /\ StaysAccepted(worker[w].job)
           /\ outcome[worker[w].job] \subseteq outcome'[worker[w].job]
           /\ \A k \in DOMAIN queue' : queue'[k] # worker[w].job
           /\ \A v \in Workers \ {w} : worker'[v].job # worker[w].job,
         broken => broken', ClosingStep
  PROVE  WorkerInv(w)'
<1> DEFINE i == worker[w].job
           s == worker[w].state
<1>1. CASE i = None
  BY <1>1 DEF WorkerInv
<1>2. CASE i # None
  <2>1. /\ JobLasts(i) /\ StaysAccepted(i) /\ outcome[i] \subseteq outcome'[i]
        /\ worker'[w].job = i /\ worker'[w].state = s /\ worker'[w].left = worker[w].left
    BY <1>2
  <2>2. (s = "taken" => InHand(i, "pending")') /\
        (s \in {"ocr", "deliver", "finish", "fail"} => InHand(i, "processing")')
    BY <2>1, InHandLasts DEF WorkerInv
  <2>3. s \in {"deliver", "finish"} /\ "ocr" \in transfer[i].caps => Searchable(i)'
    BY <2>1, SearchableLasts DEF WorkerInv
  <2>4. s = "ocr" /\ i \in DOMAIN jobs' =>
          \A d \in DOMAIN jobs'[i].docs : d \in worker[w].left \/ jobs'[i].docs[d].ocr
    BY <2>1 DEF WorkerInv, JobLasts, NoEntries
  <2>5. s = "notice" => i \notin UnfinishedIn(jobs')
    BY <2>1 DEF WorkerInv, JobLasts, UnfinishedIn
  <2>6. Mailed(i) => Mailed(i)'
    BY <2>1 DEF Mailed
  <2>7. QED
    BY <1>2, <2>1, <2>2, <2>3, <2>4, <2>5, <2>6
       DEF WorkerInv, StaysAccepted, InHand, Searchable, Mailed
<1>3. QED BY <1>1, <1>2


LEMMA InvParts ==
  ASSUME LineInv
  PROVE  /\ LineTyped /\ PhaseInv /\ QueueInv
         /\ \A c \in Conns : SessionInv(c)
         /\ \A i \in Ids : TransferInv(i) /\ StoredInv(i) /\ LooseInv(i)
         /\ \A w \in Workers : WorkerInv(w)
BY DEF LineInv

\* Somebody else's step leaves what the queue, the workers and nobody have in
\* hand as it was.
LEMMA WorkFrame ==
  ASSUME LineInv, UNCHANGED <<queue, worker, outcome>>, broken => broken', ClosingStep,
         \A i \in Ids : transfer[i].state = "accepted" => StaysAccepted(i) /\ JobLasts(i),
         \A i \in Ids : transfer'[i].state = "accepted" => transfer[i].state = "accepted"
  PROVE  /\ QueueInv'
         /\ \A w \in Workers : WorkerInv(w)'
         /\ \A i \in Ids : LooseInv(i)'
<1>1. QueueInv'
  <2>1. \A k \in DOMAIN queue : queue[k] \in Ids
    BY InvParts DEF LineTyped
  <2>2. ASSUME NEW k \in DOMAIN queue
        PROVE  transfer'[queue[k]].state = "accepted" /\ InHand(queue[k], "pending")'
    <3>1. transfer[queue[k]].state = "accepted" /\ InHand(queue[k], "pending")
      BY InvParts DEF QueueInv
    <3>2. StaysAccepted(queue[k]) /\ JobLasts(queue[k])
      BY <2>1, <3>1
    <3>3. QED BY <3>1, <3>2, InHandLasts DEF StaysAccepted
  <2>3. \A k, l \in DOMAIN queue : queue[k] = queue[l] => k = l
    BY InvParts DEF QueueInv
  <2>4. QED BY <2>2, <2>3 DEF QueueInv, InHand
<1>2. ASSUME NEW w \in Workers PROVE WorkerInv(w)'
  <2>1. WorkerInv(w) /\ worker[w].job \in Ids \cup {None}
    BY InvParts DEF LineTyped, Worker
  <2>2. ASSUME worker[w].job # None
        PROVE  /\ JobLasts(worker[w].job) /\ StaysAccepted(worker[w].job)
               /\ outcome[worker[w].job] \subseteq outcome'[worker[w].job]
               /\ \A k \in DOMAIN queue' : queue'[k] # worker[w].job
               /\ \A v \in Workers \ {w} : worker'[v].job # worker[w].job
    BY <2>1, <2>2 DEF WorkerInv
  <2>3. QED BY <2>1, <2>2, WorkerBystander
<1>3. ASSUME NEW i \in Ids PROVE LooseInv(i)'
  BY <1>3, InvParts DEF LooseInv, Reported, Mailed, JobLasts, StaysAccepted, UnfinishedIn
<1>4. QED BY <1>1, <1>2, <1>3

\* The pipeline leaves the sessions and their calls of Data alone.
LEMMA FrontFrame ==
  ASSUME LineInv, UNCHANGED <<session, transfer, aborts>>, ClosingStep,
         DOMAIN reservations' \subseteq DOMAIN reservations,
         \A i \in DOMAIN jobs' : i \in DOMAIN jobs /\ jobs'[i].caps = jobs[i].caps,
         \A i \in Ids : transfer[i].state \in {"enqueueing", "deleting"} => JobLasts(i)
  PROVE  /\ \A c \in Conns : SessionInv(c)'
         /\ \A i \in Ids : TransferInv(i)' /\ StoredInv(i)'
<1>1. \A c \in Conns : SessionInv(c)'
  BY InvParts DEF SessionInv
<1>2. ASSUME NEW i \in Ids PROVE TransferInv(i)'
  <2>1. transfer[i].state \in {"enqueueing", "deleting"} => InHand(i, "pending")'
    <3>1. ASSUME transfer[i].state \in {"enqueueing", "deleting"}
          PROVE  InHand(i, "pending")'
      BY <3>1, InvParts, InHandLasts DEF TransferInv
    <3>2. QED BY <3>1
  <2>2. QED BY <2>1, InvParts DEF TransferInv, InHand
<1>3. ASSUME NEW i \in Ids PROVE StoredInv(i)'
  BY InvParts DEF StoredInv
<1>4. QED BY <1>1, <1>2, <1>3

LEMMA PhaseFrame ==
  ASSUME LineInv, UNCHANGED <<phase, broken, closed>>,
         closed => DOMAIN jobs' = {} /\ DOMAIN reservations' = {},
         \A c \in Conns : session'[c].open => session[c].open,
         \A w \in Workers : worker[w].state = "stopped" => worker'[w].state = "stopped"
  PROVE  PhaseInv'
BY InvParts DEF PhaseInv

\* A step of a session or of a call of Data.
LEMMA FrontStep ==
  ASSUME LineInv, LineTyped', UNCHANGED <<queue, worker, phase, broken, closed, outcome>>,
         closed => DOMAIN jobs' = {} /\ DOMAIN reservations' = {},
         \A c \in Conns : session'[c].open => session[c].open,
         \A i \in Ids : transfer[i].state = "accepted" => StaysAccepted(i) /\ JobLasts(i),
         \A i \in Ids : transfer'[i].state = "accepted" => transfer[i].state = "accepted",
         \A c \in Conns : SessionInv(c)',
         \A i \in Ids : TransferInv(i)' /\ StoredInv(i)'
  PROVE  LineInv'
<1>1. ClosingStep
  BY InvParts DEF ClosingStep
<1>2. PhaseInv'
  BY PhaseFrame
<1>3. /\ QueueInv' /\ \A w \in Workers : WorkerInv(w)'
      /\ \A i \in Ids : LooseInv(i)'
  BY <1>1, WorkFrame
<1>4. QED BY <1>2, <1>3 DEF LineInv

\* A step of worker w, which is about the job it has in hand.
LEMMA BackStep ==
  ASSUME LineInv, LineTyped', NEW w \in Workers, NEW i, i = worker[w].job, i \in Ids,
         UNCHANGED <<session, transfer, aborts, queue, phase, broken, closed>>,
         DOMAIN reservations' \subseteq DOMAIN reservations,
         DOMAIN jobs' \subseteq DOMAIN jobs,
         \A k \in DOMAIN jobs' : jobs'[k].caps = jobs[k].caps,
         \A k \in Ids \ {i} : JobLasts(k) /\ outcome'[k] = outcome[k],
         worker'[w].job \in {i, None},
         \A v \in Workers \ {w} : worker'[v] = worker[v],
         WorkerInv(w)', LooseInv(i)'
  PROVE  LineInv'
<1>1. closed => DOMAIN jobs' = {} /\ DOMAIN reservations' = {}
  BY InvParts DEF PhaseInv
<1>2. ClosingStep
  BY <1>1 DEF ClosingStep
<1>3. /\ transfer[i].state = "accepted" /\ worker[w].state # "stopped"
      /\ \A k \in DOMAIN queue : queue[k] # i
      /\ \A v \in Workers \ {w} : worker[v].job # i
      /\ i # None
  BY InvParts, ApplianceAssumption DEF WorkerInv
<1>4. PhaseInv'
  BY <1>1, <1>3, PhaseFrame
<1>5. \A k \in Ids : transfer[k].state = "accepted" => StaysAccepted(k)
  BY DEF StaysAccepted
<1>6. /\ \A c \in Conns : SessionInv(c)'
      /\ \A k \in Ids : TransferInv(k)' /\ StoredInv(k)'
  BY <1>2, <1>3, FrontFrame
<1>7. QueueInv'
  <2>1. \A k \in DOMAIN queue : queue[k] \in Ids \ {i}
    BY <1>3, InvParts DEF LineTyped
  <2>2. \A k \in DOMAIN queue : InHand(queue[k], "pending")'
    BY <1>2, <2>1, InvParts, InHandLasts DEF QueueInv
  <2>3. QED BY <2>2, InvParts DEF QueueInv, InHand
<1>8. ASSUME NEW v \in Workers \ {w} PROVE WorkerInv(v)'
  <2>1. WorkerInv(v) /\ worker[v].job \in (Ids \ {i}) \cup {None}
    BY <1>3, InvParts DEF LineTyped, Worker
  <2>2. ASSUME worker[v].job # None
        PROVE  /\ JobLasts(worker[v].job) /\ StaysAccepted(worker[v].job)
               /\ outcome[worker[v].job] \subseteq outcome'[worker[v].job]
               /\ \A k \in DOMAIN queue' : queue'[k] # worker[v].job
               /\ \A u \in Workers \ {v} : worker'[u].job # worker[v].job
    <3>1. /\ transfer[worker[v].job].state = "accepted"
          /\ \A k \in DOMAIN queue : queue[k] # worker[v].job
          /\ \A u \in Workers \ {v} : worker[u].job # worker[v].job
      BY <2>1, <2>2 DEF WorkerInv
    <3>2. QED BY <1>5, <2>1, <2>2, <3>1
  <2>3. QED BY <1>2, <2>1, <2>2, WorkerBystander
<1>9. ASSUME NEW k \in Ids \ {i} PROVE LooseInv(k)'
  <2>1. LooseInv(k) /\ JobLasts(k) /\ outcome'[k] = outcome[k]
    BY InvParts
  <2>2. (\A v \in Workers : worker'[v].job # k) => \A v \in Workers : worker[v].job # k
    BY <1>9
  <2>3. QED BY <2>1, <2>2 DEF LooseInv, Reported, Mailed, JobLasts, UnfinishedIn
<1>10. QED BY <1>4, <1>6, <1>7, <1>8, <1>9 DEF LineInv

-----------------------------------------------------------------------------
(***************************************************************************)
(* The command loop.                                                       *)
(***************************************************************************)

\* A reset moves the session's generation past every call it has started.
LEMMA ResetToStep ==
  ASSUME ApplianceInv, NEW c \in Conns, NEW next \in Session, ResetTo(c, next),
         next.generation = session[c].generation, next.holder = session[c].holder,
         session[c].open, next.open => session[c].generation < MaxGeneration,
         UNCHANGED <<storeVars, transfer, queue, worker, phase, broken, histVars>>
  PROVE  LineInv'
<1>0. LineInv /\ session[c] \in Session /\ session[c].generation <= MaxGeneration
  BY InvParts DEF ApplianceInv, LineTyped, SessionInv
<1> DEFINE new == [next EXCEPT !.generation = @ + 1, !.caps = None, !.staging = None]
<1>1. session' = [session EXCEPT ![c] = new] /\ session[c].holder = None
  BY DEF ResetTo, Unlocked
<1>2. /\ new.open = next.open /\ new.mailing = next.mailing
      /\ new.generation = session[c].generation + 1 /\ new.caps = None
      /\ new.staging = None /\ new.holder = None /\ new \in Session
  <2>1. session[c].generation + 1 \in Generation
    BY <1>0, ApplianceAssumption DEF Session, Generation
  <2>2. QED BY <1>1, <2>1 DEF Session
<1> HIDE DEF new
<1>3. /\ session'[c] = new /\ session' \in [Conns -> Session]
      /\ \A d \in Conns \ {c} : session'[d] = session[d]
  BY <1>0, <1>1, <1>2, InvParts DEF LineTyped
<1>4. aborts' = IF session[c].staging = None THEN aborts ELSE aborts \cup {session[c].staging}
  BY DEF ResetTo
<1>5. LineTyped'
  BY <1>0, <1>3, <1>4, InvParts DEF LineTyped, histVars, Session
<1>6. \A d \in Conns : session'[d].open => session[d].open
  BY <1>0, <1>3
<1>7. ASSUME NEW d \in Conns PROVE SessionInv(d)'
  <2>1. CASE d = c
    <3>1. \A i \in Ids : transfer[i].state # "none" /\ transfer[i].conn = c
                           => transfer[i].txn < session[c].generation + 1
      BY <1>0, InvParts DEF TransferInv, LineTyped, Transfer, Session, Generation
    <3>2. new.open => new.generation <= MaxGeneration
      BY <1>0, <1>2, ApplianceAssumption DEF Session, Generation
    <3>3. QED BY <1>2, <1>3, <2>1, <3>1, <3>2 DEF SessionInv
  <2>2. CASE d # c
    BY <1>0, <1>3, <2>2, InvParts DEF SessionInv
  <2>3. QED BY <2>1, <2>2
<1>8. ASSUME NEW i \in Ids PROVE TransferInv(i)' /\ StoredInv(i)'
  <2> DEFINE t == transfer[i]
  <2>1. TransferInv(i) /\ StoredInv(i) /\ t \in Transfer /\ i # None
    BY <1>0, InvParts, ApplianceAssumption DEF LineTyped
  <2>2. StoredInv(i)'
    BY <2>1 DEF StoredInv, storeVars
  <2>3. t.state # "none" =>
          /\ t.conn \in Conns
          /\ session'[t.conn].generation \in Nat /\ t.gen \in Nat /\ t.txn \in Nat
          /\ session[t.conn].generation \in Nat
          /\ IF t.conn = c THEN session'[t.conn].generation = session[c].generation + 1
                           ELSE session'[t.conn] = session[t.conn]
    BY <1>0, <1>2, <1>3, <2>1, InvParts DEF TransferInv, LineTyped, Session, Transfer, Generation
  <2>4. i \in aborts' =>
          \/ t.state = "refused"
          \/ t.state = "reading" /\ t.gen < session'[t.conn].generation
    <3>1. CASE i \in aborts
      BY <2>1, <2>3, <3>1 DEF TransferInv
    <3>2. CASE session[c].staging = i
      <4>1. t.state = "reading" /\ t.conn = c
        BY <1>0, <2>1, <3>2, InvParts DEF SessionInv
      <4>2. QED BY <2>1, <2>3, <4>1 DEF TransferInv
    <3>3. QED BY <1>4, <3>1, <3>2
  <2>5. t.state \in {"enqueueing", "deleting"} => t.conn # c
    BY <1>1, <2>1 DEF TransferInv
  <2>6. TransferInv(i)'
    BY <2>1, <2>3, <2>4, <2>5 DEF TransferInv, InHand, storeVars
  <2>7. QED BY <2>2, <2>6
<1>9. \A i \in Ids : transfer[i].state = "accepted" => StaysAccepted(i) /\ JobLasts(i)
  BY UnchangedLasts DEF StaysAccepted, storeVars
<1>10. closed => DOMAIN jobs' = {} /\ DOMAIN reservations' = {}
  BY <1>0, InvParts DEF PhaseInv, storeVars
<1>11. QED
  BY <1>0, <1>5, <1>6, <1>7, <1>8, <1>9, <1>10, FrontStep DEF storeVars, histVars

LEMMA ResetsStep ==
  ASSUME ApplianceInv, NEW c \in Conns, Reset(c) \/ BeginMail(c) \/ Logout(c)
  PROVE  LineInv'
<1>1. session[c] \in Session
  BY InvParts DEF ApplianceInv, LineTyped
<1>2. CASE Reset(c)
  BY <1>1, <1>2, ResetToStep DEF Reset
<1>3. CASE BeginMail(c)
  <2> DEFINE next == [session[c] EXCEPT !.mailing = TRUE]
  <2>1. /\ next \in Session /\ next.generation = session[c].generation
        /\ next.holder = session[c].holder
    BY <1>1 DEF Session
  <2>2. /\ ResetTo(c, next) /\ session[c].open /\ session[c].generation < MaxGeneration
        /\ UNCHANGED <<storeVars, transfer, queue, worker, phase, broken, histVars>>
    BY <1>3 DEF BeginMail
  <2> HIDE DEF next
  <2>3. QED BY <2>1, <2>2, ResetToStep
<1>4. CASE Logout(c)
  <2> DEFINE next == [session[c] EXCEPT !.open = FALSE]
  <2>1. /\ next \in Session /\ next.generation = session[c].generation
        /\ next.holder = session[c].holder /\ ~next.open
    BY <1>1 DEF Session
  <2>2. /\ ResetTo(c, next) /\ session[c].open
        /\ UNCHANGED <<storeVars, transfer, queue, worker, phase, broken, histVars>>
    BY <1>4 DEF Logout
  <2> HIDE DEF next
  <2>3. QED BY <2>1, <2>2, ResetToStep
<1>5. QED BY <1>2, <1>3, <1>4

LEMMA EndMailStep ==
  ASSUME ApplianceInv, NEW c \in Conns, NEW caps \in Caps \cup {None}, EndMail(c, caps)
  PROVE  LineInv'
<1>0. LineInv /\ session[c] \in Session
  BY InvParts DEF ApplianceInv, LineTyped
<1> DEFINE new == [session[c] EXCEPT !.mailing = FALSE, !.caps = caps]
<1>1. session' = [session EXCEPT ![c] = new] /\ session[c].mailing
  BY DEF EndMail
<1>2. /\ new.open = session[c].open /\ new.mailing = FALSE /\ new.caps = caps
      /\ new.generation = session[c].generation /\ new.staging = session[c].staging
      /\ new.holder = session[c].holder /\ new \in Session
  BY <1>0 DEF Session
<1> HIDE DEF new
<1>3. /\ session'[c] = new /\ session' \in [Conns -> Session]
      /\ \A d \in Conns \ {c} : session'[d] = session[d]
  BY <1>0, <1>1, <1>2, InvParts DEF LineTyped
<1>4. LineTyped'
  BY <1>0, <1>3, InvParts DEF LineTyped, EndMail, histVars
<1>5. ASSUME NEW d \in Conns PROVE SessionInv(d)'
  BY <1>0, <1>2, <1>3, InvParts DEF SessionInv, EndMail
<1>6. ASSUME NEW i \in Ids PROVE TransferInv(i)' /\ StoredInv(i)'
  <2>1. /\ TransferInv(i) /\ StoredInv(i) /\ SessionInv(c) /\ transfer[i] \in Transfer
        /\ UNCHANGED <<transfer, aborts, jobs, reservations, closed>>
    BY <1>0, InvParts DEF LineTyped, EndMail, storeVars
  <2>2. transfer[i].state # "none" /\ transfer[i].conn = c =>
          transfer[i].txn < session[c].generation
    BY <1>1, <2>1 DEF SessionInv
  <2>3. transfer[i].state # "none" /\ transfer[i].conn = c =>
          transfer[i].txn # session[c].generation
    BY <1>0, <2>1, <2>2 DEF Session, Transfer, Generation
  <2>4. \A d \in Conns : /\ session'[d].generation = session[d].generation
                         /\ session'[d].holder = session[d].holder
    BY <1>2, <1>3
  <2>5. \A d \in Conns \ {c} : session'[d].caps = session[d].caps
    BY <1>3
  <2>6. QED BY <2>1, <2>3, <2>4, <2>5 DEF TransferInv, StoredInv, InHand
<1>7. \A i \in Ids : transfer[i].state = "accepted" => StaysAccepted(i) /\ JobLasts(i)
  BY UnchangedLasts DEF StaysAccepted, storeVars, EndMail
<1>8. closed => DOMAIN jobs' = {} /\ DOMAIN reservations' = {}
  BY <1>0, InvParts DEF PhaseInv, storeVars, EndMail
<1>9. \A d \in Conns : session'[d].open => session[d].open
  BY <1>2, <1>3
<1>10. QED
  BY <1>0, <1>4, <1>5, <1>6, <1>7, <1>8, <1>9, FrontStep DEF storeVars, histVars, EndMail


LEMMA StartDataStep ==
  ASSUME ApplianceInv, NEW c \in Conns, NEW i \in Ids, StartData(c, i)
  PROVE  LineInv'
<1>0. LineInv /\ session[c] \in Session /\ transfer[i] \in Transfer
  BY InvParts DEF ApplianceInv, LineTyped
<1> DEFINE new == [transfer[i] EXCEPT !.state = "started", !.conn = c,
                                      !.txn = session[c].generation,
                                      !.mailCaps = session[c].caps]
<1>1. /\ transfer' = [transfer EXCEPT ![i] = new] /\ transfer[i].state = "none"
      /\ session[c].open /\ ~session[c].mailing /\ session[c].caps # None
  BY DEF StartData
<1>2. /\ new.state = "started" /\ new.conn = c /\ new.txn = session[c].generation
      /\ new.mailCaps = session[c].caps /\ new \in Transfer
  BY <1>0 DEF Session, Transfer, TransferState
<1> HIDE DEF new
<1>3. /\ transfer'[i] = new /\ transfer' \in [Ids -> Transfer]
      /\ \A k \in Ids \ {i} : transfer'[k] = transfer[k]
  BY <1>0, <1>1, <1>2, InvParts DEF LineTyped
<1>4. LineTyped'
  BY <1>0, <1>3, InvParts DEF LineTyped, StartData, histVars
<1>5. i \notin aborts
  BY <1>0, <1>1, InvParts DEF TransferInv
<1>6. ASSUME NEW d \in Conns PROVE SessionInv(d)'
  BY <1>0, <1>1, <1>2, <1>3, InvParts DEF SessionInv, StartData, LineTyped, Session
<1>7. ASSUME NEW k \in Ids PROVE TransferInv(k)' /\ StoredInv(k)'
  <2>1. CASE k = i
    <3>1. session[c].caps \in Caps /\ session[c].generation \in Nat
      BY <1>0, <1>1 DEF Session, Generation
    <3>2. TransferInv(i)'
      BY <1>0, <1>2, <1>3, <1>5, <3>1 DEF TransferInv, StartData
    <3>3. StoredInv(i)'
      BY <1>0, <1>1, InvParts DEF StoredInv, StartData, storeVars
    <3>4. QED BY <2>1, <3>2, <3>3
  <2>2. CASE k # i
    BY <1>0, <1>3, <2>2, InvParts DEF TransferInv, StoredInv, InHand, StartData, storeVars
  <2>3. QED BY <2>1, <2>2
<1>8. /\ \A k \in Ids : transfer[k].state = "accepted" => StaysAccepted(k) /\ JobLasts(k)
      /\ \A k \in Ids : transfer'[k].state = "accepted" => transfer[k].state = "accepted"
  BY <1>1, <1>2, <1>3, UnchangedLasts DEF StaysAccepted, storeVars, StartData
<1>9. closed => DOMAIN jobs' = {} /\ DOMAIN reservations' = {}
  BY <1>0, InvParts DEF PhaseInv, storeVars, StartData
<1>10. QED
  BY <1>0, <1>4, <1>6, <1>7, <1>8, <1>9, FrontStep DEF storeVars, histVars, StartData

LEMMA AbortStagingStep ==
  ASSUME ApplianceInv, NEW i \in Ids, AbortStaging(i)
  PROVE  LineInv'
<1>0. LineInv
  BY DEF ApplianceInv
<1>1. /\ jobs' = jobs /\ closed' = closed
      /\ DOMAIN reservations' \subseteq DOMAIN reservations
  BY DEF AbortStaging, ReleaseReservation, Drop, storeVars
<1>2. LineTyped'
  BY <1>0, InvParts DEF LineTyped, AbortStaging, histVars
<1>3. \A c \in Conns : SessionInv(c)'
  BY <1>0, InvParts DEF SessionInv, AbortStaging
<1>4. ASSUME NEW k \in Ids PROVE TransferInv(k)' /\ StoredInv(k)'
  BY <1>0, <1>1, InvParts DEF TransferInv, StoredInv, InHand, AbortStaging
<1>5. \A k \in Ids : transfer[k].state = "accepted" => StaysAccepted(k) /\ JobLasts(k)
  BY <1>1, UnchangedLasts DEF StaysAccepted, AbortStaging
<1>6. closed => DOMAIN jobs' = {} /\ DOMAIN reservations' = {}
  BY <1>0, <1>1, InvParts DEF PhaseInv
<1>7. QED
  BY <1>0, <1>1, <1>2, <1>3, <1>4, <1>5, <1>6, FrontStep DEF histVars, AbortStaging

-----------------------------------------------------------------------------
(***************************************************************************)
(* Session.Data.                                                           *)
(***************************************************************************)

\* A call of Data that begins, be it in its own transaction or in a later one.
LEMMA BeginDataStep ==
  ASSUME ApplianceInv, NEW i \in Ids, BeginData(i)
  PROVE  LineInv'
<1> DEFINE c == transfer[i].conn
<1>0. /\ LineInv /\ transfer[i] \in Transfer /\ transfer[i].state = "started"
      /\ c \in Conns /\ session[c] \in Session /\ i # None
  BY InvParts, ApplianceAssumption DEF ApplianceInv, LineTyped, BeginData, TransferInv
<1>1. /\ TransferInv(i) /\ i \notin aborts /\ i \notin DOMAIN jobs \cup DOMAIN reservations
      /\ \A d \in Conns : session[d].staging # i /\ session[d].holder # i
  BY <1>0, InvParts DEF TransferInv, StoredInv, SessionInv
<1>2. CASE ~closed /\ Admits(MaxMessage)
  <2> DEFINE new == [transfer[i] EXCEPT !.state = "reading",
                                        !.gen = session[c].generation,
                                        !.caps = session[c].caps]
             ses == [session[c] EXCEPT !.staging = i]
  <2>1. /\ transfer' = [transfer EXCEPT ![i] = new] /\ session' = [session EXCEPT ![c] = ses]
        /\ Reserve(i)
    BY <1>2 DEF BeginData
  <2>2. /\ new.state = "reading" /\ new.conn = c /\ new.txn = transfer[i].txn
        /\ new.mailCaps = transfer[i].mailCaps /\ new.gen = session[c].generation
        /\ new.caps = session[c].caps /\ new \in Transfer
    BY <1>0 DEF Session, Transfer, TransferState
  <2>3. /\ ses.open = session[c].open /\ ses.mailing = session[c].mailing
        /\ ses.generation = session[c].generation /\ ses.caps = session[c].caps
        /\ ses.staging = i /\ ses.holder = session[c].holder /\ ses \in Session
    BY <1>0 DEF Session
  <2> HIDE DEF new, ses
  <2>4. /\ transfer'[i] = new /\ transfer' \in [Ids -> Transfer]
        /\ \A k \in Ids \ {i} : transfer'[k] = transfer[k]
        /\ session'[c] = ses /\ session' \in [Conns -> Session]
        /\ \A d \in Conns \ {c} : session'[d] = session[d]
    BY <1>0, <2>1, <2>2, <2>3, InvParts DEF LineTyped
  <2>5. /\ jobs' = jobs /\ closed' = closed /\ ~closed
        /\ DOMAIN reservations' = DOMAIN reservations \cup {i}
    BY <2>1 DEF Reserve
  <2>6. LineTyped'
    BY <1>0, <2>4, InvParts DEF LineTyped, BeginData, histVars
  <2>7. ASSUME NEW d \in Conns PROVE SessionInv(d)'
    <3>1. /\ session'[d].open = session[d].open /\ session'[d].mailing = session[d].mailing
          /\ session'[d].generation = session[d].generation
          /\ session'[d].holder = session[d].holder
          /\ session'[d].staging = IF d = c THEN i ELSE session[d].staging
      BY <2>3, <2>4
    <3>2. SessionInv(d) /\ session[d].holder \in Ids \cup {None}
          /\ session[d].staging \in Ids \cup {None}
      BY <1>0, InvParts DEF LineTyped, Session
    <3>3. \A k \in Ids : /\ transfer'[k].conn = transfer[k].conn
                         /\ transfer'[k].txn = transfer[k].txn
                         /\ transfer'[k].state = "none" <=> transfer[k].state = "none"
      BY <1>0, <2>2, <2>4
    <3>4. QED BY <1>0, <1>1, <2>2, <2>4, <3>1, <3>2, <3>3 DEF SessionInv
  <2>8. ASSUME NEW k \in Ids PROVE TransferInv(k)' /\ StoredInv(k)'
    <3>1. \A d \in Conns : /\ session'[d].generation = session[d].generation
                           /\ session'[d].holder = session[d].holder
                           /\ session'[d].caps = session[d].caps
      BY <2>3, <2>4
    <3>2. aborts' = aborts
      BY DEF BeginData
    <3>3. CASE k = i
      <4>1. session[c].generation \in Nat /\ transfer[i].txn \in Nat
        BY <1>0 DEF Session, Transfer, Generation
      <4>2. TransferInv(i)'
        BY <1>0, <1>1, <2>2, <2>4, <3>1, <3>2, <4>1 DEF TransferInv
      <4>3. StoredInv(i)'
        BY <1>1, <2>2, <2>4, <2>5 DEF StoredInv
      <4>4. QED BY <3>3, <4>2, <4>3
    <3>4. CASE k # i
      BY <1>0, <2>4, <2>5, <3>1, <3>2, <3>4, InvParts DEF TransferInv, StoredInv, InHand
    <3>5. QED BY <3>3, <3>4
  <2>9. /\ \A k \in Ids : transfer[k].state = "accepted" => StaysAccepted(k) /\ JobLasts(k)
        /\ \A k \in Ids : transfer'[k].state = "accepted" => transfer[k].state = "accepted"
        /\ \A d \in Conns : session'[d].open => session[d].open
    BY <1>0, <2>2, <2>3, <2>4, <2>5, UnchangedLasts DEF StaysAccepted
  <2>10. QED
    BY <1>0, <2>5, <2>6, <2>7, <2>8, <2>9, FrontStep DEF histVars, BeginData
<1>3. CASE ~(~closed /\ Admits(MaxMessage))
  <2> DEFINE new == [transfer[i] EXCEPT !.state = "refused"]
  <2>1. /\ transfer' = [transfer EXCEPT ![i] = new]
        /\ UNCHANGED <<storeVars, session, aborts>>
    BY <1>3 DEF BeginData
  <2>2. /\ new.state = "refused" /\ new.conn = c /\ new.txn = transfer[i].txn
        /\ new.mailCaps = transfer[i].mailCaps /\ new \in Transfer
    BY <1>0 DEF Transfer, TransferState
  <2> HIDE DEF new
  <2>3. /\ transfer'[i] = new /\ transfer' \in [Ids -> Transfer]
        /\ \A k \in Ids \ {i} : transfer'[k] = transfer[k]
    BY <1>0, <2>1, <2>2, InvParts DEF LineTyped
  <2>4. LineTyped'
    BY <1>0, <2>1, <2>3, InvParts DEF LineTyped, BeginData, histVars
  <2>5. ASSUME NEW d \in Conns PROVE SessionInv(d)'
    <3>1. SessionInv(d) /\ session[d].holder \in Ids \cup {None}
          /\ session[d].staging \in Ids \cup {None}
      BY <1>0, InvParts DEF LineTyped, Session
    <3>2. QED BY <1>0, <1>1, <2>1, <2>2, <2>3, <3>1 DEF SessionInv
  <2>6. ASSUME NEW k \in Ids PROVE TransferInv(k)' /\ StoredInv(k)'
    BY <1>0, <1>1, <2>1, <2>2, <2>3, InvParts
       DEF TransferInv, StoredInv, InHand, storeVars
  <2>7. /\ \A k \in Ids : transfer[k].state = "accepted" => StaysAccepted(k) /\ JobLasts(k)
        /\ \A k \in Ids : transfer'[k].state = "accepted" => transfer[k].state = "accepted"
        /\ closed => DOMAIN jobs' = {} /\ DOMAIN reservations' = {}
    BY <1>0, <2>1, <2>2, <2>3, UnchangedLasts, InvParts DEF StaysAccepted, storeVars, PhaseInv
  <2>8. QED
    BY <1>0, <2>1, <2>4, <2>5, <2>6, <2>7, FrontStep DEF storeVars, histVars, BeginData
<1>4. QED BY <1>2, <1>3


LEMMA AnswerIsTyped ==
  ASSUME LineTyped, NEW i \in Ids, NEW answer \in TransferState, Answer(i, answer)
  PROVE  /\ transfer' \in [Ids -> Transfer]
         /\ transfer'[i].state = answer /\ transfer'[i].conn = transfer[i].conn
         /\ transfer'[i].txn = transfer[i].txn /\ transfer'[i].gen = transfer[i].gen
         /\ transfer'[i].mailCaps = transfer[i].mailCaps
         /\ transfer'[i].caps = transfer[i].caps
         /\ \A k \in Ids \ {i} : transfer'[k] = transfer[k]
<1> DEFINE new == [transfer[i] EXCEPT !.state = answer]
<1>1. transfer' = [transfer EXCEPT ![i] = new] /\ transfer[i] \in Transfer
  BY DEF Answer, LineTyped
<1>2. /\ new.state = answer /\ new.conn = transfer[i].conn /\ new.txn = transfer[i].txn
      /\ new.gen = transfer[i].gen /\ new.mailCaps = transfer[i].mailCaps
      /\ new.caps = transfer[i].caps /\ new \in Transfer
  BY <1>1 DEF Transfer
<1> HIDE DEF new
<1>3. QED BY <1>1, <1>2 DEF LineTyped

\* What the handover does to the sessions.
LEMMA HandOverSessions ==
  ASSUME LineInv, NEW i \in Ids, NEW holder \in {i, None}, HandOver(i, holder)
  PROVE  /\ transfer[i].state = "reading" /\ transfer[i].conn \in Conns
         /\ session' \in [Conns -> Session]
         /\ session[transfer[i].conn].holder = None
         /\ session'[transfer[i].conn].holder = holder
         /\ session'[transfer[i].conn].staging = None
         /\ \A d \in Conns : /\ session'[d].open = session[d].open
                             /\ session'[d].mailing = session[d].mailing
                             /\ session'[d].generation = session[d].generation
                             /\ session'[d].caps = session[d].caps
         /\ \A d \in Conns \ {transfer[i].conn} : session'[d] = session[d]
<1> DEFINE c == transfer[i].conn
           new == [session[c] EXCEPT !.staging = None, !.holder = holder]
<1>1. /\ transfer[i].state = "reading" /\ c \in Conns /\ session[c] \in Session
      /\ session[c].holder = None
  BY InvParts DEF HandOver, TransferInv, LineTyped, Unlocked
<1>2. session' = [session EXCEPT ![c] = new]
  <2>1. session \in [Conns -> Session]
    BY InvParts DEF LineTyped
  <2>2. QED BY <1>1, <2>1 DEF HandOver
<1>3. /\ new.open = session[c].open /\ new.mailing = session[c].mailing
      /\ new.generation = session[c].generation /\ new.caps = session[c].caps
      /\ new.staging = None /\ new.holder = holder /\ new \in Session
  BY <1>1 DEF Session
<1> HIDE DEF new
<1>4. /\ session'[c] = new /\ session' \in [Conns -> Session]
      /\ \A d \in Conns \ {c} : session'[d] = session[d]
  BY <1>1, <1>2, <1>3, InvParts DEF LineTyped
<1>5. QED BY <1>1, <1>3, <1>4

\* A message that ends without a scan leaves nothing behind.
LEMMA NoScanStep ==
  ASSUME ApplianceInv, NEW i \in Ids, NEW answer \in {"refused", "empty"},
         HandOver(i, None), AbortOwn(i), Answer(i, answer),
         i \in aborts => answer = "refused",
         UNCHANGED <<aborts, queue, worker, phase, broken, histVars>>
  PROVE  LineInv'
<1> DEFINE c == transfer[i].conn
<1>0. LineInv /\ LineTyped /\ answer \in TransferState /\ i # None
  BY InvParts, ApplianceAssumption DEF ApplianceInv, TransferState
<1>1. /\ transfer[i].state = "reading" /\ c \in Conns
      /\ session' \in [Conns -> Session]
      /\ session'[c].holder = None /\ session'[c].staging = None
      /\ session[c].holder = None
      /\ \A d \in Conns : /\ session'[d].open = session[d].open
                          /\ session'[d].mailing = session[d].mailing
                          /\ session'[d].generation = session[d].generation
                          /\ session'[d].caps = session[d].caps
      /\ \A d \in Conns \ {c} : session'[d] = session[d]
  BY <1>0, HandOverSessions
<1>2. /\ transfer' \in [Ids -> Transfer]
      /\ transfer'[i].state = answer /\ transfer'[i].conn = c
      /\ transfer'[i].txn = transfer[i].txn /\ transfer'[i].gen = transfer[i].gen
      /\ transfer'[i].mailCaps = transfer[i].mailCaps
      /\ transfer'[i].caps = transfer[i].caps
      /\ \A k \in Ids \ {i} : transfer'[k] = transfer[k]
  BY <1>0, AnswerIsTyped
<1>3. /\ jobs' = jobs /\ closed' = closed
      /\ DOMAIN reservations' = DOMAIN reservations \ {i}
  BY DEF AbortOwn, ReleaseReservation, Drop, storeVars
<1>4. LineTyped'
  BY <1>0, <1>1, <1>2 DEF LineTyped, histVars
<1>5. ASSUME NEW d \in Conns PROVE SessionInv(d)'
  <2>1. SessionInv(d) /\ session[d].holder \in Ids \cup {None}
        /\ session[d].staging \in Ids \cup {None}
    BY <1>0, InvParts DEF LineTyped, Session
  <2>2. session'[d].holder # i /\ session'[d].staging # i
    BY <1>0, <1>1, <2>1 DEF SessionInv
  <2>3. session'[d].holder \in {session[d].holder, None}
        /\ session'[d].staging \in {session[d].staging, None}
    BY <1>1
  <2>4. \A k \in Ids : /\ transfer'[k].conn = transfer[k].conn
                       /\ transfer'[k].txn = transfer[k].txn
                       /\ transfer'[k].state = "none" <=> transfer[k].state = "none"
    BY <1>1, <1>2
  <2>5. QED BY <1>1, <1>2, <2>1, <2>2, <2>3, <2>4 DEF SessionInv
<1>6. ASSUME NEW k \in Ids PROVE TransferInv(k)' /\ StoredInv(k)'
  <2>1. CASE k = i
    <3>1. TransferInv(i)'
      BY <1>0, <1>1, <1>2, InvParts DEF TransferInv
    <3>2. StoredInv(i)'
      BY <1>0, <1>1, <1>2, <1>3, InvParts DEF StoredInv
    <3>3. QED BY <2>1, <3>1, <3>2
  <2>2. CASE k # i
    <3>1. TransferInv(k) /\ StoredInv(k) /\ transfer'[k] = transfer[k] /\ k # None
      BY <1>0, <1>2, <2>2, InvParts, ApplianceAssumption
    <3>2. transfer[k].state \in {"enqueueing", "deleting"} => transfer[k].conn # c
      BY <1>1, <3>1 DEF TransferInv
    <3>3. TransferInv(k)'
      BY <1>1, <1>3, <3>1, <3>2 DEF TransferInv, InHand
    <3>4. StoredInv(k)'
      BY <1>3, <3>1 DEF StoredInv
    <3>5. QED BY <3>3, <3>4
  <2>3. QED BY <2>1, <2>2
<1>7. /\ \A k \in Ids : transfer[k].state = "accepted" => StaysAccepted(k) /\ JobLasts(k)
      /\ \A k \in Ids : transfer'[k].state = "accepted" => transfer[k].state = "accepted"
      /\ closed => DOMAIN jobs' = {} /\ DOMAIN reservations' = {}
  BY <1>0, <1>1, <1>2, <1>3, UnchangedLasts, InvParts DEF StaysAccepted, PhaseInv
<1>8. QED
  BY <1>0, <1>1, <1>3, <1>4, <1>5, <1>6, <1>7, FrontStep DEF histVars

LEMMA RefuseMessageStep ==
  ASSUME ApplianceInv, NEW i \in Ids, RefuseMessage(i)
  PROVE  LineInv'
BY NoScanStep DEF RefuseMessage

\* The answer to a message with nothing attached is never given to one whose
\* staging a Reset is aborting.
LEMMA AcceptEmptyStep ==
  ASSUME ApplianceInv, NEW i \in Ids, AcceptEmpty(i)
  PROVE  LineInv'
<1>1. LineInv /\ TransferInv(i) /\ transfer[i].state = "reading" /\ ~WasReset(i)
      /\ transfer[i] \in Transfer
  BY InvParts DEF ApplianceInv, AcceptEmpty, HandOver, LineTyped
<1>2. i \notin aborts
  BY <1>1 DEF TransferInv, WasReset, Transfer, Generation
<1>3. QED BY <1>2, NoScanStep DEF AcceptEmpty

\* A commit: the connection is open and in the transaction of the scan, whose
\* session takes the job over.
LEMMA CommitScanStep ==
  ASSUME ApplianceInv, NEW i \in Ids, NEW docs \in Committable, NEW at \in Recent,
         CommitScan(i, docs, at)
  PROVE  LineInv'
<1> DEFINE c == transfer[i].conn
<1>0. /\ LineInv /\ LineTyped /\ IInv /\ i # None
      /\ HandOver(i, i) /\ Answer(i, "enqueueing")
      /\ Commit(i, transfer[i].caps, docs, at)
      /\ ~WasReset(i) /\ ~ReaderFailed(i)
      /\ UNCHANGED <<aborts, queue, worker, phase, broken, outcome>>
  BY InvParts, ApplianceAssumption DEF ApplianceInv, CommitScan
<1>1. /\ transfer[i].state = "reading" /\ c \in Conns
      /\ session' \in [Conns -> Session]
      /\ session'[c].holder = i /\ session'[c].staging = None
      /\ session[c].holder = None
      /\ \A d \in Conns : /\ session'[d].open = session[d].open
                          /\ session'[d].mailing = session[d].mailing
                          /\ session'[d].generation = session[d].generation
                          /\ session'[d].caps = session[d].caps
      /\ \A d \in Conns \ {c} : session'[d] = session[d]
  BY <1>0, HandOverSessions
<1>2. /\ transfer' \in [Ids -> Transfer]
      /\ transfer'[i].state = "enqueueing" /\ transfer'[i].conn = c
      /\ transfer'[i].txn = transfer[i].txn /\ transfer'[i].gen = transfer[i].gen
      /\ transfer'[i].mailCaps = transfer[i].mailCaps
      /\ transfer'[i].caps = transfer[i].caps
      /\ \A k \in Ids \ {i} : transfer'[k] = transfer[k]
  BY <1>0, AnswerIsTyped DEF TransferState
<1>3. /\ transfer[i].caps \in Caps
      /\ session[c].generation = transfer[i].txn /\ session[c].open
  <2>1. transfer[i].caps \in Caps /\ session[c].generation = transfer[i].txn
    BY <1>0, <1>1, InItsTransaction
  <2>2. SessionInv(c) /\ transfer[i].txn \in Nat
    BY <1>0, <1>1, InvParts DEF LineTyped, Transfer, Generation
  <2>3. QED BY <1>1, <2>1, <2>2 DEF SessionInv
<1>4. /\ i \notin DOMAIN jobs
      /\ DOMAIN jobs' = DOMAIN jobs \cup {i}
      /\ DOMAIN reservations' = DOMAIN reservations \ {i}
      /\ jobs'[i].status = "pending" /\ jobs'[i].caps = transfer[i].caps
      /\ \A k \in DOMAIN jobs : KeptOrEvicted(k)
  <2>1. docs \in Documents /\ at \in Nat
    BY DEF Committable, Recent
  <2>2. QED BY <1>0, <1>3, <2>1, CommitJobs
<1>5. ASSUME NEW k \in Ids \ {i} PROVE JobLasts(k)
  BY <1>4, KeptLasts
<1>6. ~closed /\ closed' = closed
  BY <1>0 DEF Commit
<1>7. LineTyped'
  <2>1. evictedFor' \in [Ids -> Ids \cup {None}]
    BY <1>0 DEF CommitScan, LineTyped
  <2>2. QED BY <1>0, <1>1, <1>2, <2>1 DEF LineTyped
<1>8. ASSUME NEW d \in Conns PROVE SessionInv(d)'
  <2>1. SessionInv(d) /\ session[d].holder \in Ids \cup {None}
        /\ session[d].staging \in Ids \cup {None}
    BY <1>0, InvParts DEF LineTyped, Session
  <2>2. \A k \in Ids : /\ transfer'[k].conn = transfer[k].conn
                       /\ transfer'[k].txn = transfer[k].txn
                       /\ transfer'[k].state = "none" <=> transfer[k].state = "none"
    BY <1>1, <1>2
  <2>3. CASE d = c
    BY <1>1, <1>2, <1>3, <2>1, <2>2, <2>3 DEF SessionInv
  <2>4. CASE d # c
    BY <1>0, <1>1, <1>2, <2>1, <2>2, <2>4 DEF SessionInv
  <2>5. QED BY <2>3, <2>4
<1>9. ASSUME NEW k \in Ids PROVE TransferInv(k)' /\ StoredInv(k)'
  <2>1. CASE k = i
    <3>1. InHand(i, "pending")'
      BY <1>4 DEF InHand
    <3>2. i \notin aborts
      BY <1>0, <1>1, InvParts
         DEF TransferInv, WasReset, LineTyped, Transfer, Session, Generation
    <3>3. TransferInv(i)'
      BY <1>0, <1>1, <1>2, <1>3, <3>1, <3>2, InvParts DEF TransferInv
    <3>4. StoredInv(i)'
      BY <1>2, <1>4 DEF StoredInv
    <3>5. QED BY <2>1, <3>3, <3>4
  <2>2. CASE k # i
    <3>1. TransferInv(k) /\ StoredInv(k) /\ transfer'[k] = transfer[k] /\ k # None
          /\ JobLasts(k)
      BY <1>0, <1>2, <1>5, <2>2, InvParts, ApplianceAssumption
    <3>2. transfer[k].state \in {"enqueueing", "deleting"} =>
            transfer[k].conn # c /\ InHand(k, "pending")'
      <4>1. ASSUME transfer[k].state \in {"enqueueing", "deleting"}
            PROVE  transfer[k].conn # c /\ InHand(k, "pending")
        BY <1>1, <3>1, <4>1 DEF TransferInv
      <4>2. ClosingStep
        BY <1>6 DEF ClosingStep
      <4>3. QED BY <3>1, <4>1, <4>2, InHandLasts
    <3>3. TransferInv(k)'
      BY <1>0, <1>1, <3>1, <3>2 DEF TransferInv, InHand
    <3>4. StoredInv(k)'
      BY <1>4, <2>2, <3>1 DEF StoredInv, JobLasts
    <3>5. QED BY <3>3, <3>4
  <2>3. QED BY <2>1, <2>2
<1>10. /\ \A k \in Ids : transfer[k].state = "accepted" => StaysAccepted(k) /\ JobLasts(k)
       /\ \A k \in Ids : transfer'[k].state = "accepted" => transfer[k].state = "accepted"
  BY <1>1, <1>2, <1>5 DEF StaysAccepted
<1>11. QED
  BY <1>0, <1>1, <1>6, <1>7, <1>8, <1>9, <1>10, FrontStep


\* A call that has the mutex is alone with its session.
LEMMA HolderOnly ==
  ASSUME LineInv, NEW i \in Ids, transfer[i].state \in {"enqueueing", "deleting"}
  PROVE  /\ transfer[i].conn \in Conns /\ session[transfer[i].conn].holder = i
         /\ InHand(i, "pending") /\ transfer[i].caps \in Caps /\ i \notin aborts
         /\ i \notin DOMAIN reservations
         /\ \A d \in Conns \ {transfer[i].conn} : session[d].holder # i
         /\ \A d \in Conns : session[d].staging # i
         /\ \A k \in Ids \ {i} : transfer[k].state \in {"enqueueing", "deleting"}
                                   => transfer[k].conn # transfer[i].conn
<1>1. TransferInv(i) /\ StoredInv(i) /\ i # None /\ transfer[i].conn \in Conns
  BY InvParts, ApplianceAssumption DEF TransferInv
<1>2. /\ session[transfer[i].conn].holder = i /\ InHand(i, "pending")
      /\ transfer[i].caps \in Caps /\ i \notin aborts /\ i \notin DOMAIN reservations
  BY <1>1 DEF TransferInv, StoredInv
<1>3. \A d \in Conns : /\ d # transfer[i].conn => session[d].holder # i
                       /\ session[d].staging # i
  BY <1>1, InvParts DEF SessionInv
<1>4. \A k \in Ids : transfer[k].state \in {"enqueueing", "deleting"}
                       => session[transfer[k].conn].holder = k
  BY InvParts DEF TransferInv
<1>5. QED BY <1>1, <1>2, <1>3, <1>4

LEMMA UnlockSessions ==
  ASSUME LineInv, NEW i \in Ids, transfer[i].conn \in Conns, Unlock(i)
  PROVE  /\ session' \in [Conns -> Session]
         /\ session'[transfer[i].conn].holder = None
         /\ \A d \in Conns : /\ session'[d].open = session[d].open
                             /\ session'[d].mailing = session[d].mailing
                             /\ session'[d].generation = session[d].generation
                             /\ session'[d].caps = session[d].caps
                             /\ session'[d].staging = session[d].staging
         /\ \A d \in Conns \ {transfer[i].conn} : session'[d] = session[d]
<1> DEFINE c == transfer[i].conn
           new == [session[c] EXCEPT !.holder = None]
<1>1. session' = [session EXCEPT ![c] = new] /\ session[c] \in Session
  BY InvParts DEF Unlock, LineTyped
<1>2. /\ new.open = session[c].open /\ new.mailing = session[c].mailing
      /\ new.generation = session[c].generation /\ new.caps = session[c].caps
      /\ new.staging = session[c].staging /\ new.holder = None /\ new \in Session
  BY <1>1 DEF Session
<1> HIDE DEF new
<1>3. /\ session'[c] = new /\ session' \in [Conns -> Session]
      /\ \A d \in Conns \ {c} : session'[d] = session[d]
  BY <1>1, <1>2, InvParts DEF LineTyped
<1>4. QED BY <1>2, <1>3

\* Who is left once i has let go of its session.
LEMMA UnlockFrame ==
  ASSUME LineInv, NEW i \in Ids, transfer[i].state \in {"enqueueing", "deleting"},
         Unlock(i), NEW answer \in {"accepted", "refused"}, Answer(i, answer),
         UNCHANGED <<aborts, closed>>,
         DOMAIN reservations' \subseteq DOMAIN reservations,
         \A k \in DOMAIN jobs' : k \in DOMAIN jobs /\ jobs'[k] = jobs[k],
         \A k \in Ids \ {i} : JobLasts(k),
         closed => DOMAIN jobs' = {},
         answer = "refused" => i \notin DOMAIN jobs'
  PROVE  /\ \A c \in Conns : SessionInv(c)'
         /\ \A k \in Ids : TransferInv(k)' /\ StoredInv(k)'
<1> DEFINE c == transfer[i].conn
<1>1. LineTyped /\ answer \in TransferState /\ i # None
  BY InvParts, ApplianceAssumption DEF TransferState
<1>2. /\ c \in Conns /\ session[c].holder = i /\ transfer[i].caps \in Caps
      /\ i \notin aborts /\ i \notin DOMAIN reservations
      /\ \A d \in Conns \ {c} : session[d].holder # i
      /\ \A d \in Conns : session[d].staging # i
      /\ \A k \in Ids \ {i} : transfer[k].state \in {"enqueueing", "deleting"}
                                => transfer[k].conn # c
  BY HolderOnly
<1>3. /\ session' \in [Conns -> Session] /\ session'[c].holder = None
      /\ \A d \in Conns : /\ session'[d].open = session[d].open
                          /\ session'[d].mailing = session[d].mailing
                          /\ session'[d].generation = session[d].generation
                          /\ session'[d].caps = session[d].caps
                          /\ session'[d].staging = session[d].staging
      /\ \A d \in Conns \ {c} : session'[d] = session[d]
  BY <1>2, UnlockSessions
<1>4. /\ transfer' \in [Ids -> Transfer]
      /\ transfer'[i].state = answer /\ transfer'[i].conn = c
      /\ transfer'[i].txn = transfer[i].txn /\ transfer'[i].gen = transfer[i].gen
      /\ transfer'[i].mailCaps = transfer[i].mailCaps
      /\ transfer'[i].caps = transfer[i].caps
      /\ \A k \in Ids \ {i} : transfer'[k] = transfer[k]
  BY <1>1, AnswerIsTyped
<1>5. ASSUME NEW d \in Conns PROVE SessionInv(d)'
  <2>1. SessionInv(d) /\ session[d].holder \in Ids \cup {None}
        /\ session[d].staging \in Ids \cup {None}
    BY <1>1, InvParts DEF LineTyped, Session
  <2>2. session'[d].holder # i /\ session'[d].staging # i
        /\ session'[d].holder \in {session[d].holder, None}
    BY <1>1, <1>2, <1>3, <2>1
  <2>3. \A k \in Ids : /\ transfer'[k].conn = transfer[k].conn
                       /\ transfer'[k].txn = transfer[k].txn
                       /\ transfer'[k].state = "none" <=> transfer[k].state = "none"
    BY <1>2, <1>4
  <2>4. QED BY <1>3, <1>4, <2>1, <2>2, <2>3 DEF SessionInv
<1>6. ASSUME NEW k \in Ids PROVE TransferInv(k)' /\ StoredInv(k)'
  <2>1. CASE k = i
    <3>1. TransferInv(i)'
      BY <1>1, <1>2, <1>3, <1>4, InvParts DEF TransferInv
    <3>2. StoredInv(i)'
      BY <1>2, <1>4, InvParts DEF StoredInv
    <3>3. QED BY <2>1, <3>1, <3>2
  <2>2. CASE k # i
    <3>1. TransferInv(k) /\ StoredInv(k) /\ transfer'[k] = transfer[k] /\ JobLasts(k)
      BY <1>4, <2>2, InvParts
    <3>2. transfer[k].state \in {"enqueueing", "deleting"} =>
            transfer[k].conn # c /\ InHand(k, "pending")'
      <4>1. ASSUME transfer[k].state \in {"enqueueing", "deleting"}
            PROVE  transfer[k].conn # c /\ InHand(k, "pending")
        BY <1>2, <2>2, <3>1, <4>1 DEF TransferInv
      <4>2. ClosingStep
        BY DEF ClosingStep
      <4>3. QED BY <3>1, <4>1, <4>2, InHandLasts
    <3>3. TransferInv(k)'
      BY <1>3, <3>1, <3>2 DEF TransferInv, InHand
    <3>4. StoredInv(k)'
      BY <3>1 DEF StoredInv
    <3>5. QED BY <3>3, <3>4
  <2>3. QED BY <2>1, <2>2
<1>7. QED BY <1>5, <1>6

\* A scan that finds room in the queue is the queue's from the unlock on.
LEMMA EnqueueStep ==
  ASSUME ApplianceInv, NEW i \in Ids, EnqueueScan(i), Len(queue) < QueueCap
  PROVE  LineInv'
<1>0. /\ LineInv /\ LineTyped /\ transfer[i].state = "enqueueing"
      /\ queue' = Append(queue, i) /\ Answer(i, "accepted") /\ Unlock(i)
      /\ UNCHANGED <<storeVars, aborts, worker, phase, broken, histVars>>
  BY InvParts DEF ApplianceInv, EnqueueScan
<1>1. /\ jobs' = jobs /\ closed' = closed /\ reservations' = reservations
      /\ outcome' = outcome
  BY <1>0 DEF storeVars, histVars
<1>2. /\ transfer' \in [Ids -> Transfer] /\ transfer'[i].state = "accepted"
      /\ transfer'[i].caps = transfer[i].caps
      /\ \A k \in Ids \ {i} : transfer'[k] = transfer[k]
  BY <1>0, AnswerIsTyped DEF TransferState
<1>3. /\ transfer[i].conn \in Conns /\ InHand(i, "pending")
  BY <1>0, HolderOnly
<1>4. /\ session' \in [Conns -> Session]
      /\ \A d \in Conns : session'[d].open = session[d].open
  BY <1>0, <1>3, UnlockSessions
<1>5. closed => DOMAIN jobs = {} /\ DOMAIN reservations = {}
  BY <1>0, InvParts DEF PhaseInv
<1>6. /\ \A c \in Conns : SessionInv(c)'
      /\ \A k \in Ids : TransferInv(k)' /\ StoredInv(k)'
  BY <1>0, <1>1, <1>5, UnlockFrame, UnchangedLasts
<1>7. /\ queue' \in Seq(Ids) /\ Len(queue') = Len(queue) + 1 /\ Len(queue) \in Nat
      /\ \A k \in 1..Len(queue) : queue'[k] = queue[k] /\ queue[k] \in Ids
      /\ queue'[Len(queue) + 1] = i
      /\ DOMAIN queue = 1..Len(queue) /\ DOMAIN queue' = 1..Len(queue) + 1
  BY <1>0 DEF LineTyped
<1>8. QueueCap \in Nat
  BY ApplianceAssumption, FS_CardinalityType DEF QueueCap
<1>9. LineTyped'
  BY <1>0, <1>2, <1>4, <1>7, <1>8 DEF LineTyped, histVars
<1>10. PhaseInv'
  BY <1>0, <1>1, <1>4, <1>5, PhaseFrame
<1>11. \A k \in DOMAIN queue : queue[k] # i
  BY <1>0, InvParts DEF QueueInv
<1>12. QueueInv'
  <2>1. ASSUME NEW k \in DOMAIN queue'
        PROVE  transfer'[queue'[k]].state = "accepted" /\ InHand(queue'[k], "pending")
    <3>1. CASE k \in DOMAIN queue
      BY <1>0, <1>2, <1>7, <1>11, <3>1, InvParts DEF QueueInv
    <3>2. CASE k \notin DOMAIN queue
      BY <1>2, <1>3, <1>7, <3>2
    <3>3. QED BY <3>1, <3>2
  <2>2. \A k, l \in DOMAIN queue' : queue'[k] = queue'[l] => k = l
    <3>1. \A k, l \in DOMAIN queue : queue[k] = queue[l] => k = l
      BY <1>0, InvParts DEF QueueInv
    <3>2. QED BY <1>7, <1>11, <3>1
  <2>3. QED BY <1>1, <2>1, <2>2 DEF QueueInv, InHand
<1>13. ASSUME NEW w \in Workers PROVE WorkerInv(w)'
  <2>1. WorkerInv(w) /\ worker[w].job \in Ids \cup {None}
    BY <1>0, InvParts DEF LineTyped, Worker
  <2>2. ASSUME worker[w].job # None
        PROVE  /\ JobLasts(worker[w].job) /\ StaysAccepted(worker[w].job)
               /\ outcome[worker[w].job] \subseteq outcome'[worker[w].job]
               /\ \A k \in DOMAIN queue' : queue'[k] # worker[w].job
               /\ \A v \in Workers \ {w} : worker'[v].job # worker[w].job
    <3>1. /\ transfer[worker[w].job].state = "accepted"
          /\ \A k \in DOMAIN queue : queue[k] # worker[w].job
          /\ \A v \in Workers \ {w} : worker[v].job # worker[w].job
      BY <2>1, <2>2 DEF WorkerInv
    <3>2. worker[w].job # i
      BY <1>0, <3>1
    <3>3. QED
      BY <1>0, <1>1, <1>2, <1>7, <2>1, <2>2, <3>1, <3>2, UnchangedLasts DEF StaysAccepted
  <2>3. ClosingStep
    BY <1>1, <1>5 DEF ClosingStep
  <2>4. QED BY <1>0, <2>1, <2>2, <2>3, WorkerBystander
<1>14. ASSUME NEW k \in Ids PROVE LooseInv(k)'
  <2>1. CASE k = i
    BY <1>7, <2>1 DEF LooseInv
  <2>2. CASE k # i
    <3>1. (\A n \in DOMAIN queue' : queue'[n] # k) => \A n \in DOMAIN queue : queue[n] # k
      BY <1>7
    <3>2. QED
      BY <1>0, <1>1, <1>2, <2>2, <3>1, InvParts
         DEF LooseInv, Reported, Mailed, UnfinishedIn
  <2>3. QED BY <2>1, <2>2
<1>15. QED BY <1>6, <1>9, <1>10, <1>12, <1>13, <1>14 DEF LineInv

LEMMA EnqueueScanStep ==
  ASSUME ApplianceInv, NEW i \in Ids, EnqueueScan(i)
  PROVE  LineInv'
<1>1. CASE Len(queue) < QueueCap
  BY <1>1, EnqueueStep
<1>2. CASE ~(Len(queue) < QueueCap)
  <2>0. /\ LineInv /\ LineTyped /\ transfer[i].state = "enqueueing"
        /\ Answer(i, "deleting")
        /\ UNCHANGED <<storeVars, session, aborts, queue, worker, phase, broken, histVars>>
    BY <1>2, InvParts DEF ApplianceInv, EnqueueScan
  <2>1. /\ transfer' \in [Ids -> Transfer]
        /\ transfer'[i].state = "deleting" /\ transfer'[i].conn = transfer[i].conn
        /\ transfer'[i].txn = transfer[i].txn /\ transfer'[i].gen = transfer[i].gen
        /\ transfer'[i].mailCaps = transfer[i].mailCaps
        /\ transfer'[i].caps = transfer[i].caps
        /\ \A k \in Ids \ {i} : transfer'[k] = transfer[k]
    BY <2>0, AnswerIsTyped DEF TransferState
  <2>2. LineTyped'
    BY <2>0, <2>1 DEF LineTyped, histVars
  <2>3. ASSUME NEW d \in Conns PROVE SessionInv(d)'
    <3>1. SessionInv(d) /\ session[d].holder \in Ids \cup {None}
          /\ session[d].staging \in Ids \cup {None} /\ session[d].staging # i
      BY <2>0, InvParts, HolderOnly DEF LineTyped, Session
    <3>2. \A k \in Ids : /\ transfer'[k].conn = transfer[k].conn
                         /\ transfer'[k].txn = transfer[k].txn
                         /\ transfer'[k].state = "none" <=> transfer[k].state = "none"
      BY <2>0, <2>1
    <3>3. QED BY <2>0, <2>1, <3>1, <3>2 DEF SessionInv
  <2>4. ASSUME NEW k \in Ids PROVE TransferInv(k)' /\ StoredInv(k)'
    BY <2>0, <2>1, InvParts, HolderOnly DEF TransferInv, StoredInv, InHand, storeVars
  <2>5. /\ \A k \in Ids : transfer[k].state = "accepted" => StaysAccepted(k) /\ JobLasts(k)
        /\ \A k \in Ids : transfer'[k].state = "accepted" => transfer[k].state = "accepted"
        /\ closed => DOMAIN jobs' = {} /\ DOMAIN reservations' = {}
    BY <2>0, <2>1, UnchangedLasts, InvParts DEF StaysAccepted, storeVars, PhaseInv
  <2>6. QED BY <2>0, <2>2, <2>3, <2>4, <2>5, FrontStep DEF storeVars, histVars
<1>3. QED BY <1>1, <1>2

\* The scan that could not be enqueued is gone before the session is let go.
LEMMA DeleteScanStep ==
  ASSUME ApplianceInv, NEW i \in Ids, DeleteScan(i)
  PROVE  LineInv'
<1>0. /\ LineInv /\ LineTyped /\ transfer[i].state = "deleting"
      /\ Answer(i, "refused") /\ Unlock(i) /\ DeleteIfThere(i)
      /\ UNCHANGED <<aborts, queue, worker, phase, broken, histVars>>
  BY InvParts DEF ApplianceInv, DeleteScan
<1>1. /\ DOMAIN jobs' = DOMAIN jobs \ {i}
      /\ \A k \in DOMAIN jobs' : jobs'[k] = jobs[k]
      /\ reservations' = reservations /\ closed' = closed
  BY <1>0 DEF DeleteIfThere, Delete, Drop, storeVars
<1>2. \A k \in Ids \ {i} : JobLasts(k)
  BY <1>1 DEF JobLasts, UnfinishedIn
<1>3. /\ transfer' \in [Ids -> Transfer] /\ transfer'[i].state = "refused"
      /\ \A k \in Ids \ {i} : transfer'[k] = transfer[k]
  BY <1>0, AnswerIsTyped DEF TransferState
<1>4. /\ session' \in [Conns -> Session]
      /\ \A d \in Conns : session'[d].open = session[d].open
  BY <1>0, HolderOnly, UnlockSessions
<1>5. closed => DOMAIN jobs' = {} /\ DOMAIN reservations' = {}
  BY <1>0, <1>1, InvParts DEF PhaseInv
<1>6. /\ \A c \in Conns : SessionInv(c)'
      /\ \A k \in Ids : TransferInv(k)' /\ StoredInv(k)'
  BY <1>0, <1>1, <1>2, <1>5, UnlockFrame
<1>7. LineTyped'
  BY <1>0, <1>3, <1>4 DEF LineTyped, histVars
<1>8. /\ \A k \in Ids : transfer[k].state = "accepted" => StaysAccepted(k) /\ JobLasts(k)
      /\ \A k \in Ids : transfer'[k].state = "accepted" => transfer[k].state = "accepted"
  BY <1>0, <1>2, <1>3 DEF StaysAccepted
<1>9. QED BY <1>0, <1>1, <1>4, <1>5, <1>6, <1>7, <1>8, FrontStep DEF histVars


-----------------------------------------------------------------------------
(***************************************************************************)
(* The workers.                                                            *)
(***************************************************************************)
LEMMA GoOnIsTyped ==
  ASSUME LineTyped, NEW w \in Workers, NEW state \in WorkerState, GoOn(w, state)
  PROVE  /\ worker' \in [Workers -> Worker]
         /\ worker'[w].state = state /\ worker'[w].job = worker[w].job
         /\ worker'[w].left = worker[w].left
         /\ \A v \in Workers \ {w} : worker'[v] = worker[v]
<1> DEFINE new == [worker[w] EXCEPT !.state = state]
<1>1. worker' = [worker EXCEPT ![w] = new] /\ worker[w] \in Worker
  BY DEF GoOn, LineTyped
<1>2. /\ new.state = state /\ new.job = worker[w].job /\ new.left = worker[w].left
      /\ new \in Worker
  BY <1>1 DEF Worker
<1> HIDE DEF new
<1>3. QED BY <1>1, <1>2 DEF LineTyped

LEMMA DoneIsTyped ==
  ASSUME LineTyped, NEW w \in Workers, Done(w)
  PROVE  /\ worker' \in [Workers -> Worker]
         /\ worker'[w].state = "idle" /\ worker'[w].job = None
         /\ \A v \in Workers \ {w} : worker'[v] = worker[v]
<1>1. Idle \in Worker /\ Idle.state = "idle" /\ Idle.job = None
  BY DEF Idle, Worker, WorkerState
<1>2. worker' = [worker EXCEPT ![w] = Idle]
  BY DEF Done
<1>3. QED BY <1>1, <1>2 DEF LineTyped

\* A worker without a job looks round.
LEMMA IdleStep ==
  ASSUME ApplianceInv, NEW w \in Workers, LookForStop(w) \/ Stop(w)
  PROVE  LineInv'
<1>0. /\ LineInv /\ LineTyped /\ WorkerInv(w)
      /\ UNCHANGED <<storeVars, session, transfer, aborts, queue, phase, broken, histVars>>
      /\ worker[w].state \in {"idle", "waiting"}
  BY InvParts DEF ApplianceInv, LookForStop, Stop, At
<1>1. PICK state \in {"waiting", "stopped"} : GoOn(w, state)
  BY DEF LookForStop, Stop
<1>2. /\ worker' \in [Workers -> Worker]
      /\ worker'[w].state = state /\ worker'[w].job = worker[w].job
      /\ \A v \in Workers \ {w} : worker'[v] = worker[v]
  BY <1>0, <1>1, GoOnIsTyped DEF WorkerState
<1>3. worker[w].job = None
  BY <1>0 DEF WorkerInv
<1>4. /\ jobs' = jobs /\ reservations' = reservations /\ closed' = closed
      /\ outcome' = outcome /\ \A k : JobLasts(k)
      /\ \A k \in Ids : transfer[k].state = "accepted" => StaysAccepted(k)
  BY <1>0, UnchangedLasts DEF storeVars, histVars, StaysAccepted
<1>5. closed => DOMAIN jobs' = {} /\ DOMAIN reservations' = {}
  BY <1>0, <1>4, InvParts DEF PhaseInv
<1>6. ClosingStep
  BY <1>4, <1>5 DEF ClosingStep
<1>7. LineTyped'
  BY <1>0, <1>2 DEF LineTyped, histVars
<1>8. PhaseInv'
  BY <1>0, <1>2, <1>4, <1>5, PhaseFrame
<1>9. /\ \A c \in Conns : SessionInv(c)'
      /\ \A k \in Ids : TransferInv(k)' /\ StoredInv(k)'
  BY <1>0, <1>4, <1>6, FrontFrame
<1>10. QueueInv'
  BY <1>0, <1>4, InvParts DEF QueueInv, InHand
<1>11. ASSUME NEW v \in Workers PROVE WorkerInv(v)'
  <2>1. CASE v = w
    BY <1>2, <1>3, <2>1 DEF WorkerInv
  <2>2. CASE v # w
    <3>1. WorkerInv(v) /\ worker[v].job \in Ids \cup {None}
      BY <1>0, InvParts DEF LineTyped, Worker
    <3>2. ASSUME worker[v].job # None
          PROVE  /\ JobLasts(worker[v].job) /\ StaysAccepted(worker[v].job)
                 /\ outcome[worker[v].job] \subseteq outcome'[worker[v].job]
                 /\ \A k \in DOMAIN queue' : queue'[k] # worker[v].job
                 /\ \A u \in Workers \ {v} : worker'[u].job # worker[v].job
      <4>1. \A u \in Workers : worker'[u].job = worker[u].job
        BY <1>2
      <4>2. QED BY <1>0, <1>4, <3>1, <3>2, <4>1 DEF WorkerInv
    <3>3. QED BY <1>0, <1>2, <1>6, <2>2, <3>1, <3>2, WorkerBystander
  <2>3. QED BY <2>1, <2>2
<1>12. ASSUME NEW k \in Ids PROVE LooseInv(k)'
  <2>1. \A v \in Workers : worker'[v].job = worker[v].job
    BY <1>2
  <2>2. QED BY <1>0, <1>4, <2>1, InvParts DEF LooseInv, Reported, Mailed, UnfinishedIn
<1>13. QED BY <1>7, <1>8, <1>9, <1>10, <1>11, <1>12 DEF LineInv

\* A job passes from the head of the queue to one worker.
LEMMA TakeStep ==
  ASSUME ApplianceInv, NEW w \in Workers, Take(w)
  PROVE  LineInv'
<1> DEFINE new == [state |-> "taken", job |-> Head(queue), left |-> {}]
<1>0. /\ LineInv /\ LineTyped /\ WorkerInv(w) /\ QueueInv
      /\ UNCHANGED <<storeVars, session, transfer, aborts, phase, broken, histVars>>
      /\ worker[w].state = "waiting" /\ queue # << >> /\ queue' = Tail(queue)
      /\ worker' = [worker EXCEPT ![w] = new]
  BY InvParts DEF ApplianceInv, Take, At
<1>1. /\ queue \in Seq(Ids) /\ Len(queue) \in Nat \ {0} /\ Head(queue) = queue[1]
      /\ Tail(queue) \in Seq(Ids) /\ Len(Tail(queue)) = Len(queue) - 1
      /\ DOMAIN queue = 1..Len(queue) /\ DOMAIN queue' = 1..(Len(queue) - 1)
      /\ \A k \in DOMAIN queue' : queue'[k] = queue[k + 1]
      /\ \A k \in DOMAIN queue : queue[k] \in Ids
  BY <1>0 DEF LineTyped
<1>2. PICK i \in Ids : i = queue[1]
  BY <1>1
<1>3. /\ worker' \in [Workers -> Worker]
      /\ worker'[w].state = "taken" /\ worker'[w].job = i
      /\ \A v \in Workers \ {w} : worker'[v] = worker[v]
  <2>1. new \in Worker /\ new.state = "taken" /\ new.job = i
    BY <1>1, <1>2 DEF Worker, WorkerState
  <2> HIDE DEF new
  <2>2. QED BY <1>0, <2>1 DEF LineTyped
<1> HIDE DEF new
<1>4. /\ jobs' = jobs /\ reservations' = reservations /\ closed' = closed
      /\ outcome' = outcome /\ \A k : JobLasts(k)
      /\ \A k \in Ids : transfer[k].state = "accepted" => StaysAccepted(k)
  BY <1>0, UnchangedLasts DEF storeVars, histVars, StaysAccepted
<1>5. closed => DOMAIN jobs' = {} /\ DOMAIN reservations' = {}
  BY <1>0, <1>4, InvParts DEF PhaseInv
<1>6. ClosingStep
  BY <1>4, <1>5 DEF ClosingStep
<1>7. LineTyped'
  <2>1. QueueCap \in Nat
    BY ApplianceAssumption, FS_CardinalityType DEF QueueCap
  <2>2. QED BY <1>0, <1>1, <1>3, <2>1 DEF LineTyped, histVars
<1>8. PhaseInv'
  BY <1>0, <1>3, <1>4, <1>5, PhaseFrame
<1>9. /\ \A c \in Conns : SessionInv(c)'
      /\ \A k \in Ids : TransferInv(k)' /\ StoredInv(k)'
  BY <1>0, <1>4, <1>6, FrontFrame
<1>10. /\ \A k \in DOMAIN queue : /\ transfer[queue[k]].state = "accepted"
                                  /\ InHand(queue[k], "pending")
       /\ \A k, l \in DOMAIN queue : queue[k] = queue[l] => k = l
  BY <1>0 DEF QueueInv
<1>11. \A k \in DOMAIN queue' : k + 1 \in DOMAIN queue /\ k + 1 # 1
  BY <1>1
<1>12. QueueInv'
  <2>1. \A k, l \in DOMAIN queue' : k \in Int /\ l \in Int
    BY <1>1
  <2>2. \A k, l \in DOMAIN queue' : queue'[k] = queue'[l] => k + 1 = l + 1
    BY <1>1, <1>10, <1>11
  <2>3. \A k, l \in DOMAIN queue' : queue'[k] = queue'[l] => k = l
    BY <2>1, <2>2
  <2>4. QED BY <1>0, <1>1, <1>4, <1>10, <1>11, <2>3 DEF QueueInv, InHand
<1>13. /\ 1 \in DOMAIN queue /\ i # None
       /\ \A k \in DOMAIN queue' : queue'[k] # i
       /\ \A v \in Workers : worker[v].job # i
  <2>1. 1 \in DOMAIN queue
    BY <1>1
  <2>2. \A v \in Workers : worker[v].job # None => worker[v].job # i
    BY <1>0, <1>2, <2>1, InvParts DEF WorkerInv
  <2>3. QED BY <1>1, <1>2, <1>10, <1>11, <2>1, <2>2, ApplianceAssumption
<1>14. ASSUME NEW v \in Workers PROVE WorkerInv(v)'
  <2>1. CASE v = w
    <3>1. transfer[i].state = "accepted" /\ InHand(i, "pending")
      BY <1>2, <1>10, <1>13
    <3>2. \A u \in Workers \ {w} : worker'[u].job # i
      BY <1>3, <1>13
    <3>3. QED BY <1>0, <1>3, <1>4, <1>13, <2>1, <3>1, <3>2 DEF WorkerInv, InHand
  <2>2. CASE v # w
    <3>1. WorkerInv(v) /\ worker[v].job \in (Ids \ {i}) \cup {None}
      BY <1>0, <1>13, InvParts DEF LineTyped, Worker
    <3>2. ASSUME worker[v].job # None
          PROVE  /\ JobLasts(worker[v].job) /\ StaysAccepted(worker[v].job)
                 /\ outcome[worker[v].job] \subseteq outcome'[worker[v].job]
                 /\ \A k \in DOMAIN queue' : queue'[k] # worker[v].job
                 /\ \A u \in Workers \ {v} : worker'[u].job # worker[v].job
      <4>1. /\ transfer[worker[v].job].state = "accepted"
            /\ \A k \in DOMAIN queue : queue[k] # worker[v].job
            /\ \A u \in Workers \ {v} : worker[u].job # worker[v].job
        BY <3>1, <3>2 DEF WorkerInv
      <4>2. QED BY <1>1, <1>3, <1>4, <1>11, <3>1, <3>2, <4>1
    <3>3. QED BY <1>0, <1>3, <1>6, <2>2, <3>1, <3>2, WorkerBystander
  <2>3. QED BY <2>1, <2>2
<1>15. ASSUME NEW k \in Ids PROVE LooseInv(k)'
  <2>1. CASE k = i
    BY <1>3, <2>1 DEF LooseInv
  <2>2. CASE k # i
    <3>1. (\A n \in DOMAIN queue' : queue'[n] # k) => \A n \in DOMAIN queue : queue[n] # k
      <4>1. \A n \in DOMAIN queue : n = 1 \/ (n - 1 \in DOMAIN queue' /\ queue'[n - 1] = queue[n])
        BY <1>1
      <4>2. QED BY <1>2, <2>2, <4>1
    <3>2. (\A v \in Workers : worker'[v].job # k) => \A v \in Workers : worker[v].job # k
      <4>1. worker[w].job = None /\ k # None
        BY <1>0, ApplianceAssumption DEF WorkerInv
      <4>2. QED BY <1>3, <4>1
    <3>3. QED
      BY <1>0, <1>4, <3>1, <3>2, InvParts DEF LooseInv, Reported, Mailed, UnfinishedIn
  <2>3. QED BY <2>1, <2>2
<1>16. QED BY <1>7, <1>8, <1>9, <1>12, <1>14, <1>15 DEF LineInv


\* A worker beyond the select has a job, which is nobody else's; were it gone
\* from the store, the store would have been closed under a worker, as happens
\* only after a listener failed.
LEMMA WorkerHasJob ==
  ASSUME ApplianceInv, NEW w \in Workers,
         worker[w].state \notin {"idle", "waiting", "stopped"}
  PROVE  /\ LineInv /\ LineTyped /\ IInv /\ WorkerInv(w)
         /\ worker[w].job \in Ids /\ worker[w].job # None
         /\ transfer[worker[w].job].state = "accepted"
         /\ transfer[worker[w].job].caps \in Caps
         /\ \A k \in DOMAIN queue : queue[k] # worker[w].job
         /\ \A v \in Workers \ {w} : worker[v].job # worker[w].job
         /\ worker[w].job \in DOMAIN jobs =>
              jobs[worker[w].job].caps = transfer[worker[w].job].caps
         /\ closed => broken
<1>1. LineInv /\ LineTyped /\ IInv /\ WorkerInv(w) /\ worker[w] \in Worker
  BY InvParts DEF ApplianceInv, LineTyped
<1>2. worker[w].job \in Ids /\ worker[w].job # None
  BY <1>1 DEF WorkerInv, Worker
<1>3. /\ transfer[worker[w].job].state = "accepted"
      /\ \A k \in DOMAIN queue : queue[k] # worker[w].job
      /\ \A v \in Workers \ {w} : worker[v].job # worker[w].job
  BY <1>1, <1>2 DEF WorkerInv
<1>4. /\ transfer[worker[w].job].caps \in Caps
      /\ worker[w].job \in DOMAIN jobs =>
           jobs[worker[w].job].caps = transfer[worker[w].job].caps
  BY <1>1, <1>2, <1>3, InvParts DEF TransferInv, StoredInv
<1>5. closed => broken
  BY <1>1, InvParts DEF PhaseInv
<1>6. QED BY <1>1, <1>2, <1>3, <1>4, <1>5

\* A job that is recharged, evicted or replaced keeps its capabilities.
LEMMA CapsAreKept ==
  ASSUME NEW i, DOMAIN jobs' = DOMAIN jobs,
         i \in DOMAIN jobs => jobs'[i].caps = jobs[i].caps,
         \A k \in DOMAIN jobs \ {i} : KeptOrEvicted(k)
  PROVE  /\ \A k \in DOMAIN jobs' : jobs'[k].caps = jobs[k].caps
         /\ \A k \in Ids \ {i} : JobLasts(k)
<1>1. \A k \in DOMAIN jobs \ {i} : jobs'[k].caps = jobs[k].caps
  BY DEF KeptOrEvicted
<1>2. \A k \in Ids \ {i} : JobLasts(k)
  BY KeptLasts
<1>3. QED BY <1>1, <1>2

LEMMA BeginStep ==
  ASSUME ApplianceInv, NEW w \in Workers, Begin(w)
  PROVE  LineInv'
<1>i. PICK i : i = worker[w].job
  OBVIOUS
<1> DEFINE new == [worker[w] EXCEPT
                     !.state = IF "ocr" \in CapsOf(w) THEN "ocr" ELSE AfterOcr(w),
                     !.left  = DOMAIN jobs[i].docs]
<1>0. /\ worker[w].state = "taken"
      /\ UNCHANGED <<session, transfer, aborts, queue, phase, broken, histVars>>
  BY DEF Begin, At
<1>1. /\ LineInv /\ LineTyped /\ IInv /\ WorkerInv(w) /\ i \in Ids /\ i # None
      /\ transfer[i].state = "accepted"
      /\ \A k \in DOMAIN queue : queue[k] # i
      /\ \A v \in Workers \ {w} : worker[v].job # i
      /\ closed => broken
  BY <1>i, <1>0, WorkerHasJob
<1>2. InHand(i, "pending")
  BY <1>i, <1>0, <1>1 DEF WorkerInv
<1>3. CASE i \in DOMAIN jobs /\ jobs[i].status # "removed"
  <2>1. SetStatus(i, "processing") /\ worker' = [worker EXCEPT ![w] = new]
    BY <1>i, <1>3 DEF Begin
  <2>2. /\ DOMAIN jobs' = DOMAIN jobs /\ reservations' = reservations
        /\ jobs'[i].caps = jobs[i].caps /\ jobs'[i].status = "processing"
        /\ jobs'[i].docs = jobs[i].docs
        /\ \A k \in DOMAIN jobs \ {i} : KeptOrEvicted(k)
    BY <1>1, <2>1, SetStatusJobs DEF Finished
  <2>3. closed' = closed
    BY <2>1 DEF SetStatus
  <2>4. DOMAIN jobs[i].docs \subseteq DocIds
    BY <1>1, <1>3 DEF IInv, TypeOK, Job, Documents
  <2>5. /\ worker[w] \in Worker
        /\ (IF "ocr" \in CapsOf(w) THEN "ocr" ELSE AfterOcr(w)) \in WorkerState
    BY <1>1 DEF LineTyped, AfterOcr, WorkerState
  <2>6. /\ new.state = (IF "ocr" \in CapsOf(w) THEN "ocr" ELSE AfterOcr(w))
        /\ new.job = i /\ new.left = DOMAIN jobs[i].docs /\ new \in Worker
    BY <1>i, <2>4, <2>5 DEF Worker
  <2> HIDE DEF new
  <2>7. /\ worker'[w] = new /\ worker' \in [Workers -> Worker]
        /\ \A v \in Workers \ {w} : worker'[v] = worker[v]
    BY <1>1, <2>1, <2>6 DEF LineTyped
  <2>8. /\ \A k \in DOMAIN jobs' : jobs'[k].caps = jobs[k].caps
        /\ \A k \in Ids \ {i} : JobLasts(k)
    BY <2>2, CapsAreKept
  <2>9. LineTyped'
    BY <1>0, <1>1, <2>7 DEF LineTyped, histVars
  <2>10. InHand(i, "processing")'
    BY <1>3, <2>2 DEF InHand
  <2>11. WorkerInv(w)'
    <3>1. /\ new.state = "ocr" => \A d \in DOMAIN jobs'[i].docs : d \in new.left
          /\ new.state \in {"ocr", "deliver", "finish"}
          /\ new.state # "ocr" => "ocr" \notin transfer'[i].caps
          /\ new.state = "finish" => "email" \notin transfer'[i].caps
      BY <1>i, <1>0, <2>2, <2>6 DEF AfterOcr, CapsOf
    <3>2. \A v \in Workers \ {w} : worker'[v].job # i
      BY <1>1, <2>7
    <3>3. QED BY <1>0, <1>1, <2>6, <2>7, <2>10, <3>1, <3>2 DEF WorkerInv, InHand
  <2>12. LooseInv(i)'
    BY <2>6, <2>7 DEF LooseInv
  <2>13. QED
    BY <1>i, <1>0, <1>1, <2>2, <2>3, <2>6, <2>7, <2>8, <2>9, <2>11, <2>12, BackStep
       DEF histVars
<1>4. CASE ~(i \in DOMAIN jobs /\ jobs[i].status # "removed")
  <2>1. Done(w) /\ UNCHANGED storeVars
    BY <1>i, <1>4 DEF Begin
  <2>2. i \notin DOMAIN jobs /\ broken
    BY <1>1, <1>2, <1>4 DEF InHand
  <2>3. /\ worker' \in [Workers -> Worker]
        /\ worker'[w].state = "idle" /\ worker'[w].job = None
        /\ \A v \in Workers \ {w} : worker'[v] = worker[v]
    BY <1>1, <2>1, DoneIsTyped
  <2>4. LineTyped'
    BY <1>0, <1>1, <2>3 DEF LineTyped, histVars
  <2>5. WorkerInv(w)'
    BY <2>3 DEF WorkerInv
  <2>6. LooseInv(i)'
    BY <1>0, <2>1, <2>2 DEF LooseInv, storeVars
  <2>7. \A k \in Ids : JobLasts(k)
    BY <2>1, UnchangedLasts DEF storeVars
  <2>8. QED
    BY <1>i, <1>0, <1>1, <2>1, <2>3, <2>4, <2>5, <2>6, <2>7, BackStep DEF storeVars, histVars
<1>5. QED BY <1>3, <1>4

\* One more document is searchable.
LEMMA OcrDocumentStep ==
  ASSUME ApplianceInv, NEW w \in Workers, NEW d \in DocIds, NEW size \in Sizes,
         OcrDocument(w, d, size)
  PROVE  LineInv'
<1>i. PICK i : i = worker[w].job
  OBVIOUS
<1> DEFINE left == worker[w].left \ {d}
           new == [worker[w] EXCEPT !.state = IF left = {} THEN AfterOcr(w) ELSE "ocr",
                                    !.left = left]
<1>0. /\ worker[w].state = "ocr" /\ ReplaceDocument(i, d, size)
      /\ worker' = [worker EXCEPT ![w] = new]
      /\ UNCHANGED <<session, transfer, aborts, queue, phase, broken, histVars>>
  BY <1>i DEF OcrDocument, At
<1>1. /\ LineInv /\ LineTyped /\ IInv /\ WorkerInv(w) /\ i \in Ids /\ i # None
      /\ transfer[i].state = "accepted"
      /\ \A k \in DOMAIN queue : queue[k] # i
      /\ \A v \in Workers \ {w} : worker[v].job # i
  BY <1>i, <1>0, WorkerHasJob
<1>2. i \in DOMAIN jobs /\ jobs[i].status = "processing"
  BY <1>i, <1>0, <1>1 DEF WorkerInv, InHand, ReplaceDocument
<1>3. i \in UnfinishedIn(jobs)
  BY <1>2 DEF UnfinishedIn
<1>4. /\ d \in DOMAIN jobs[i].docs /\ DOMAIN jobs' = DOMAIN jobs
      /\ reservations' = reservations
      /\ jobs'[i].status = "processing" /\ jobs'[i].caps = jobs[i].caps
      /\ jobs'[i].docs = [jobs[i].docs EXCEPT ![d] = [size |-> size, ocr |-> TRUE]]
      /\ \A k \in DOMAIN jobs \ {i} : jobs'[k] = jobs[k]
  BY <1>0, <1>1, <1>2, <1>3, ReplaceDocumentJobs
<1>5. closed' = closed
  BY <1>0 DEF ReplaceDocument
<1>6. /\ worker[w] \in Worker
      /\ (IF left = {} THEN AfterOcr(w) ELSE "ocr") \in WorkerState
      /\ left \subseteq DocIds
  BY <1>1 DEF LineTyped, AfterOcr, WorkerState, Worker
<1> HIDE DEF left
<1>7. /\ new.state = (IF left = {} THEN AfterOcr(w) ELSE "ocr")
      /\ new.job = i /\ new.left = left /\ new \in Worker
  BY <1>i, <1>6 DEF Worker
<1> HIDE DEF new
<1>8. /\ worker'[w] = new /\ worker' \in [Workers -> Worker]
      /\ \A v \in Workers \ {w} : worker'[v] = worker[v]
  BY <1>0, <1>1, <1>7 DEF LineTyped
<1>9. /\ \A k \in DOMAIN jobs' : jobs'[k].caps = jobs[k].caps
      /\ \A k \in Ids \ {i} : JobLasts(k)
  BY <1>4, CapsAreKept DEF KeptOrEvicted
<1>10. LineTyped'
  BY <1>0, <1>1, <1>8 DEF LineTyped, histVars
<1>11. \A e \in DOMAIN jobs'[i].docs : e \in left \/ jobs'[i].docs[e].ocr
  <2>1. \A e \in DOMAIN jobs[i].docs : e \in worker[w].left \/ jobs[i].docs[e].ocr
    BY <1>i, <1>0, <1>1, <1>2 DEF WorkerInv
  <2>2. DOMAIN jobs'[i].docs = DOMAIN jobs[i].docs
    BY <1>4
  <2>3. ASSUME NEW e \in DOMAIN jobs[i].docs PROVE e \in left \/ jobs'[i].docs[e].ocr
    <3>1. CASE e = d
      BY <1>4, <3>1
    <3>2. CASE e # d
      BY <1>4, <2>1, <3>2 DEF left
    <3>3. QED BY <3>1, <3>2
  <2>4. QED BY <2>2, <2>3
<1>12. WorkerInv(w)'
  <2>1. InHand(i, "processing")'
    BY <1>2, <1>4 DEF InHand
  <2>2. /\ new.state \in {"ocr", "deliver", "finish"}
        /\ new.state # "ocr" => Searchable(i)'
        /\ new.state = "finish" => "email" \notin transfer'[i].caps
    BY <1>i, <1>0, <1>7, <1>11 DEF AfterOcr, CapsOf, Searchable
  <2>3. \A v \in Workers \ {w} : worker'[v].job # i
    BY <1>1, <1>8
  <2>4. QED
    BY <1>0, <1>1, <1>7, <1>8, <1>11, <2>1, <2>2, <2>3 DEF WorkerInv, InHand, Searchable
<1>13. LooseInv(i)'
  BY <1>7, <1>8 DEF LooseInv
<1>14. QED
  BY <1>i, <1>0, <1>1, <1>4, <1>5, <1>7, <1>8, <1>9, <1>10, <1>12, <1>13, BackStep
     DEF histVars


\* A call that failed: nothing is known of the job but that it is in hand.
LEMMA OcrFailsStep ==
  ASSUME ApplianceInv, NEW w \in Workers, OcrFails(w)
  PROVE  LineInv'
<1>1. PICK i : i = worker[w].job
  OBVIOUS
<1>2. /\ worker[w].state = "ocr" /\ GoOn(w, "fail")
      /\ UNCHANGED <<storeVars, session, transfer, aborts, queue, phase, broken, histVars>>
  BY DEF OcrFails, At
<1>3. /\ LineInv /\ LineTyped /\ WorkerInv(w) /\ i \in Ids /\ i # None
      /\ transfer[i].state = "accepted"
      /\ \A k \in DOMAIN queue : queue[k] # i
      /\ \A v \in Workers \ {w} : worker[v].job # i
  BY <1>1, <1>2, WorkerHasJob
<1>4. /\ worker' \in [Workers -> Worker]
      /\ worker'[w].state = "fail" /\ worker'[w].job = i
      /\ \A v \in Workers \ {w} : worker'[v] = worker[v]
  BY <1>1, <1>2, <1>3, GoOnIsTyped DEF WorkerState
<1>5. LineTyped'
  BY <1>2, <1>3, <1>4 DEF LineTyped, histVars
<1>6. InHand(i, "processing")
  BY <1>1, <1>2, <1>3 DEF WorkerInv
<1>7. WorkerInv(w)'
  BY <1>2, <1>3, <1>4, <1>6 DEF WorkerInv, InHand, storeVars
<1>8. LooseInv(i)'
  BY <1>4 DEF LooseInv
<1>9. \A k : JobLasts(k)
  BY <1>2, UnchangedLasts DEF storeVars
<1>10. QED
  BY <1>1, <1>2, <1>3, <1>4, <1>5, <1>7, <1>8, <1>9, BackStep DEF storeVars, histVars

LEMMA GivesIsTyped ==
  ASSUME LineTyped, NEW w \in Workers, worker[w].job \in Ids,
         NEW what \in {"scan", "notice"}, Gives(w, what)
  PROVE  /\ outcome' \in [Ids -> SUBSET {"scan", "notice", "web"}]
         /\ outcome'[worker[w].job] = outcome[worker[w].job] \cup {what}
         /\ \A k \in Ids \ {worker[w].job} : outcome'[k] = outcome[k]
BY DEF LineTyped, Gives

\* deliver, with either result.
LEMMA DeliverStep ==
  ASSUME ApplianceInv, NEW w \in Workers, Deliver(w) \/ DeliverFails(w)
  PROVE  LineInv'
<1>1. PICK i : i = worker[w].job
  OBVIOUS
<1>2. /\ worker[w].state = "deliver"
      /\ \/ GoOn(w, "finish") /\ \E what \in {"scan", "notice"} : Gives(w, what)
         \/ GoOn(w, "fail") /\ (UNCHANGED outcome \/ Gives(w, "scan"))
      /\ UNCHANGED <<storeVars, session, transfer, aborts, queue, phase, broken, evictedFor>>
  BY DEF Deliver, DeliverFails, At
<1>3. /\ LineInv /\ LineTyped /\ WorkerInv(w) /\ i \in Ids /\ i # None
      /\ transfer[i].state = "accepted"
      /\ \A k \in DOMAIN queue : queue[k] # i
      /\ \A v \in Workers \ {w} : worker[v].job # i
  BY <1>1, <1>2, WorkerHasJob
<1>4. /\ worker' \in [Workers -> Worker]
      /\ worker'[w].state \in {"finish", "fail"} /\ worker'[w].job = i
      /\ \A v \in Workers \ {w} : worker'[v] = worker[v]
      /\ worker'[w].state = "finish" => \E what \in {"scan", "notice"} : Gives(w, what)
  BY <1>1, <1>2, <1>3, GoOnIsTyped DEF WorkerState
<1>5. /\ outcome' \in [Ids -> SUBSET {"scan", "notice", "web"}]
      /\ \A k \in Ids \ {i} : outcome'[k] = outcome[k]
      /\ worker'[w].state = "finish" => Mailed(i)'
  <2>1. ASSUME NEW what \in {"scan", "notice"}, Gives(w, what)
        PROVE  /\ outcome' \in [Ids -> SUBSET {"scan", "notice", "web"}]
               /\ outcome'[i] = outcome[i] \cup {what}
               /\ \A k \in Ids \ {i} : outcome'[k] = outcome[k]
    BY <1>1, <1>3, <2>1, GivesIsTyped
  <2>2. CASE \E what \in {"scan", "notice"} : Gives(w, what)
    BY <2>1, <2>2 DEF Mailed
  <2>3. CASE UNCHANGED outcome /\ worker'[w].state # "finish"
    BY <1>3, <2>3 DEF LineTyped
  <2>4. QED BY <1>2, <1>4, <2>2, <2>3
<1>6. LineTyped'
  BY <1>2, <1>3, <1>4, <1>5 DEF LineTyped
<1>7. /\ InHand(i, "processing")
      /\ "ocr" \in transfer[i].caps => Searchable(i)
  BY <1>1, <1>2, <1>3 DEF WorkerInv
<1>8. WorkerInv(w)'
  BY <1>2, <1>3, <1>4, <1>5, <1>7 DEF WorkerInv, InHand, Searchable, storeVars
<1>9. LooseInv(i)'
  BY <1>4 DEF LooseInv
<1>10. \A k : JobLasts(k)
  BY <1>2, UnchangedLasts DEF storeVars
<1>11. QED
  BY <1>1, <1>2, <1>3, <1>4, <1>5, <1>6, <1>8, <1>9, <1>10, BackStep DEF storeVars

\* A final state, which the web UI gets to show unless a failed listener has
\* closed the store.
LEMMA SettleStep ==
  ASSUME ApplianceInv, NEW w \in Workers, NEW i, i = worker[w].job,
         worker[w].state \in {"finish", "fail"},
         NEW status \in {"ready", "failed"}, Settle(i, status)
  PROVE  /\ DOMAIN jobs' = DOMAIN jobs /\ reservations' = reservations
         /\ closed' = closed
         /\ \A k \in DOMAIN jobs' : jobs'[k].caps = jobs[k].caps
         /\ \A k \in Ids \ {i} : JobLasts(k) /\ outcome'[k] = outcome[k]
         /\ outcome' \in [Ids -> SUBSET {"scan", "notice", "web"}]
         /\ outcome[i] \subseteq outcome'[i]
         /\ i \notin UnfinishedIn(jobs')
         /\ ~broken /\ "web" \in transfer[i].caps => "web" \in outcome'[i]
<1>1. /\ LineInv /\ LineTyped /\ IInv /\ WorkerInv(w) /\ i \in Ids /\ i # None
      /\ i \in DOMAIN jobs => jobs[i].caps = transfer[i].caps
      /\ closed => broken
  BY WorkerHasJob
<1>2. InHand(i, "processing")
  BY <1>1 DEF WorkerInv
<1>3. CASE i \in DOMAIN jobs
  <2>1. /\ SetStatus(i, status)
        /\ outcome' = IF "web" \in jobs[i].caps
                      THEN [outcome EXCEPT ![i] = @ \cup {"web"}] ELSE outcome
    BY <1>2, <1>3 DEF Settle, InHand
  <2>2. /\ DOMAIN jobs' = DOMAIN jobs /\ reservations' = reservations
        /\ jobs'[i].caps = jobs[i].caps
        /\ jobs'[i].status \in {status, "removed"}
        /\ \A k \in DOMAIN jobs \ {i} : KeptOrEvicted(k)
    BY <1>1, <2>1, SetStatusJobs
  <2>3. closed' = closed
    BY <2>1 DEF SetStatus
  <2>4. /\ \A k \in DOMAIN jobs' : jobs'[k].caps = jobs[k].caps
        /\ \A k \in Ids \ {i} : JobLasts(k)
    BY <2>2, CapsAreKept
  <2>5. i \notin UnfinishedIn(jobs')
    BY <2>2 DEF UnfinishedIn
  <2>6. /\ outcome' \in [Ids -> SUBSET {"scan", "notice", "web"}]
        /\ \A k \in Ids \ {i} : outcome'[k] = outcome[k]
        /\ outcome[i] \subseteq outcome'[i]
        /\ "web" \in transfer[i].caps => "web" \in outcome'[i]
    BY <1>1, <1>3, <2>1 DEF LineTyped
  <2>7. QED BY <2>2, <2>3, <2>4, <2>5, <2>6
<1>4. CASE i \notin DOMAIN jobs
  <2>1. UNCHANGED <<storeVars, outcome>>
    BY <1>4 DEF Settle
  <2>2. broken
    BY <1>1, <1>2, <1>4 DEF InHand
  <2>3. \A k : JobLasts(k)
    BY <2>1, UnchangedLasts DEF storeVars
  <2>4. QED BY <1>1, <1>4, <2>1, <2>2, <2>3 DEF storeVars, LineTyped, UnfinishedIn
<1>5. QED BY <1>3, <1>4

\* What a worker that has settled its job goes on to, or leaves.
LEMMA SettledStep ==
  ASSUME ApplianceInv, NEW w \in Workers, NEW i, i = worker[w].job,
         worker[w].state \in {"finish", "fail"},
         NEW status \in {"ready", "failed"}, Settle(i, status),
         UNCHANGED <<session, transfer, aborts, queue, phase, broken, evictedFor>>,
         \/ GoOn(w, "notice")
         \/ GoOn(w, "delete") /\ "web" \notin transfer[i].caps
                              /\ "email" \notin transfer[i].caps
         \/ /\ Done(w) /\ "web" \in transfer[i].caps
            /\ "email" \in transfer[i].caps => Mailed(i)
  PROVE  LineInv'
<1>1. /\ LineInv /\ LineTyped /\ WorkerInv(w) /\ i \in Ids /\ i # None
      /\ transfer[i].state = "accepted"
      /\ \A k \in DOMAIN queue : queue[k] # i
      /\ \A v \in Workers \ {w} : worker[v].job # i
      /\ i \in DOMAIN jobs => jobs[i].caps = transfer[i].caps
  BY WorkerHasJob
<1>2. /\ DOMAIN jobs' = DOMAIN jobs /\ reservations' = reservations
      /\ closed' = closed
      /\ \A k \in DOMAIN jobs' : jobs'[k].caps = jobs[k].caps
      /\ \A k \in Ids \ {i} : JobLasts(k) /\ outcome'[k] = outcome[k]
      /\ outcome' \in [Ids -> SUBSET {"scan", "notice", "web"}]
      /\ outcome[i] \subseteq outcome'[i]
      /\ i \notin UnfinishedIn(jobs')
      /\ ~broken /\ "web" \in transfer[i].caps => "web" \in outcome'[i]
  BY SettleStep
<1>3. Mailed(i) => Mailed(i)'
  BY <1>2 DEF Mailed
<1>4. CASE GoOn(w, "notice") \/ (GoOn(w, "delete") /\ "web" \notin transfer[i].caps
                                                   /\ "email" \notin transfer[i].caps)
  <2>1. /\ worker' \in [Workers -> Worker] /\ worker'[w].job = i
        /\ \/ worker'[w].state = "notice"
           \/ /\ worker'[w].state = "delete"
              /\ "web" \notin transfer[i].caps /\ "email" \notin transfer[i].caps
        /\ \A v \in Workers \ {w} : worker'[v] = worker[v]
    BY <1>1, <1>4, GoOnIsTyped DEF WorkerState
  <2>2. LineTyped'
    BY <1>1, <1>2, <2>1 DEF LineTyped
  <2>3. WorkerInv(w)'
    BY <1>1, <1>2, <2>1 DEF WorkerInv
  <2>4. LooseInv(i)'
    BY <2>1 DEF LooseInv
  <2>5. QED BY <1>1, <1>2, <2>1, <2>2, <2>3, <2>4, BackStep
<1>5. CASE /\ Done(w) /\ "web" \in transfer[i].caps
           /\ "email" \in transfer[i].caps => Mailed(i)
  <2>1. /\ worker' \in [Workers -> Worker]
        /\ worker'[w].state = "idle" /\ worker'[w].job = None
        /\ \A v \in Workers \ {w} : worker'[v] = worker[v]
    BY <1>1, <1>5, DoneIsTyped
  <2>2. LineTyped'
    BY <1>1, <1>2, <2>1 DEF LineTyped
  <2>3. WorkerInv(w)'
    BY <2>1 DEF WorkerInv
  <2>4. LooseInv(i)'
    BY <1>1, <1>2, <1>3, <1>5 DEF LooseInv, Reported
  <2>5. QED BY <1>1, <1>2, <2>1, <2>2, <2>3, <2>4, BackStep
<1>6. QED BY <1>4, <1>5


LEMMA FailStep ==
  ASSUME ApplianceInv, NEW w \in Workers, Fail(w)
  PROVE  LineInv'
<1>1. PICK i : i = worker[w].job
  OBVIOUS
<1>2. /\ worker[w].state = "fail" /\ Settle(i, "failed")
      /\ UNCHANGED <<session, transfer, aborts, queue, phase, broken, evictedFor>>
  BY <1>1 DEF Fail, At
<1>3. \/ GoOn(w, "notice")
      \/ GoOn(w, "delete") /\ "web" \notin transfer[i].caps
                           /\ "email" \notin transfer[i].caps
      \/ Done(w) /\ "web" \in transfer[i].caps /\ "email" \notin transfer[i].caps
  BY <1>1 DEF Fail, CapsOf
<1>4. QED BY <1>1, <1>2, <1>3, SettledStep

LEMMA FinishStep ==
  ASSUME ApplianceInv, NEW w \in Workers, Finish(w)
  PROVE  LineInv'
<1>1. PICK i : i = worker[w].job
  OBVIOUS
<1>2. /\ worker[w].state = "finish"
      /\ UNCHANGED <<session, transfer, aborts, queue, phase, broken, evictedFor>>
  BY DEF Finish, At
<1>3. /\ LineInv /\ LineTyped /\ WorkerInv(w) /\ i \in Ids /\ i # None
      /\ transfer[i].state = "accepted"
      /\ \A k \in DOMAIN queue : queue[k] # i
      /\ \A v \in Workers \ {w} : worker[v].job # i
  BY <1>1, <1>2, WorkerHasJob
<1>4. "email" \in transfer[i].caps => Mailed(i)
  BY <1>1, <1>2, <1>3 DEF WorkerInv
<1>5. CASE "web" \in CapsOf(w)
  <2>1. Settle(i, "ready") /\ Done(w) /\ "web" \in transfer[i].caps
    BY <1>1, <1>5 DEF Finish, CapsOf
  <2>2. QED BY <1>1, <1>2, <1>4, <2>1, SettledStep
<1>6. CASE "web" \notin CapsOf(w)
  <2>1. UNCHANGED <<storeVars, outcome>> /\ GoOn(w, "delete") /\ "web" \notin transfer[i].caps
    BY <1>1, <1>6 DEF Finish, CapsOf
  <2>2. /\ worker' \in [Workers -> Worker]
        /\ worker'[w].state = "delete" /\ worker'[w].job = i
        /\ \A v \in Workers \ {w} : worker'[v] = worker[v]
    BY <1>1, <1>3, <2>1, GoOnIsTyped DEF WorkerState
  <2>3. LineTyped'
    BY <1>2, <1>3, <2>1, <2>2 DEF LineTyped
  <2>4. WorkerInv(w)'
    BY <1>2, <1>3, <1>4, <2>1, <2>2 DEF WorkerInv, Mailed
  <2>5. LooseInv(i)'
    BY <2>2 DEF LooseInv
  <2>6. \A k : JobLasts(k)
    BY <2>1, UnchangedLasts DEF storeVars
  <2>7. QED
    BY <1>1, <1>2, <1>3, <2>1, <2>2, <2>3, <2>4, <2>5, <2>6, BackStep DEF storeVars
<1>7. QED BY <1>5, <1>6

\* The notice of a failure, after which the web UI keeps the job if it has it.
LEMMA NoticeStep ==
  ASSUME ApplianceInv, NEW w \in Workers, Notice(w)
  PROVE  LineInv'
<1>1. PICK i : i = worker[w].job
  OBVIOUS
<1>2. /\ worker[w].state = "notice" /\ Gives(w, "notice")
      /\ IF "web" \in transfer[i].caps THEN Done(w) ELSE GoOn(w, "delete")
      /\ UNCHANGED <<storeVars, session, transfer, aborts, queue, phase, broken, evictedFor>>
  BY <1>1 DEF Notice, At, CapsOf
<1>3. /\ LineInv /\ LineTyped /\ WorkerInv(w) /\ i \in Ids /\ i # None
      /\ transfer[i].state = "accepted"
      /\ \A k \in DOMAIN queue : queue[k] # i
      /\ \A v \in Workers \ {w} : worker[v].job # i
      /\ i \in DOMAIN jobs => jobs[i].caps = transfer[i].caps
  BY <1>1, <1>2, WorkerHasJob
<1>4. /\ i \notin UnfinishedIn(jobs)
      /\ ~broken /\ "web" \in transfer[i].caps => "web" \in outcome[i]
  BY <1>1, <1>2, <1>3 DEF WorkerInv
<1>5. /\ outcome' \in [Ids -> SUBSET {"scan", "notice", "web"}]
      /\ outcome'[i] = outcome[i] \cup {"notice"}
      /\ \A k \in Ids \ {i} : outcome'[k] = outcome[k]
  BY <1>1, <1>2, <1>3, GivesIsTyped
<1>6. Mailed(i)'
  BY <1>5 DEF Mailed
<1>7. \A k : JobLasts(k)
  BY <1>2, UnchangedLasts DEF storeVars
<1>8. CASE "web" \in transfer[i].caps
  <2>1. /\ worker' \in [Workers -> Worker]
        /\ worker'[w].state = "idle" /\ worker'[w].job = None
        /\ \A v \in Workers \ {w} : worker'[v] = worker[v]
    BY <1>2, <1>3, <1>8, DoneIsTyped
  <2>2. LineTyped'
    BY <1>2, <1>3, <1>5, <2>1 DEF LineTyped
  <2>3. WorkerInv(w)'
    BY <2>1 DEF WorkerInv
  <2>4. LooseInv(i)'
    BY <1>2, <1>3, <1>4, <1>5, <1>6, <1>8 DEF LooseInv, Reported, storeVars
  <2>5. QED
    BY <1>1, <1>2, <1>3, <1>5, <1>7, <2>1, <2>2, <2>3, <2>4, BackStep DEF storeVars
<1>9. CASE "web" \notin transfer[i].caps
  <2>1. /\ worker' \in [Workers -> Worker]
        /\ worker'[w].state = "delete" /\ worker'[w].job = i
        /\ \A v \in Workers \ {w} : worker'[v] = worker[v]
    BY <1>1, <1>2, <1>3, <1>9, GoOnIsTyped DEF WorkerState
  <2>2. LineTyped'
    BY <1>2, <1>3, <1>5, <2>1 DEF LineTyped
  <2>3. WorkerInv(w)'
    BY <1>2, <1>3, <1>6, <1>9, <2>1 DEF WorkerInv
  <2>4. LooseInv(i)'
    BY <2>1 DEF LooseInv
  <2>5. QED
    BY <1>1, <1>2, <1>3, <1>5, <1>7, <2>1, <2>2, <2>3, <2>4, BackStep DEF storeVars
<1>10. QED BY <1>8, <1>9

\* Only a job the web UI does not show is deleted by its worker.
LEMMA DeleteJobStep ==
  ASSUME ApplianceInv, NEW w \in Workers, DeleteJob(w)
  PROVE  LineInv'
<1>1. PICK i : i = worker[w].job
  OBVIOUS
<1>2. /\ worker[w].state = "delete" /\ DeleteIfThere(i) /\ Done(w)
      /\ UNCHANGED <<session, transfer, aborts, queue, phase, broken, histVars>>
  BY <1>1 DEF DeleteJob, At
<1>3. /\ LineInv /\ LineTyped /\ WorkerInv(w) /\ i \in Ids /\ i # None
      /\ transfer[i].state = "accepted"
      /\ \A k \in DOMAIN queue : queue[k] # i
      /\ \A v \in Workers \ {w} : worker[v].job # i
  BY <1>1, <1>2, WorkerHasJob
<1>4. /\ "web" \notin transfer[i].caps
      /\ "email" \in transfer[i].caps => Mailed(i)
  BY <1>1, <1>2, <1>3 DEF WorkerInv
<1>5. /\ DOMAIN jobs' = DOMAIN jobs \ {i}
      /\ \A k \in DOMAIN jobs' : jobs'[k] = jobs[k]
      /\ reservations' = reservations /\ closed' = closed
  BY <1>2 DEF DeleteIfThere, Delete, Drop, storeVars
<1>6. \A k \in Ids \ {i} : JobLasts(k)
  BY <1>5 DEF JobLasts, UnfinishedIn
<1>7. /\ worker' \in [Workers -> Worker]
      /\ worker'[w].state = "idle" /\ worker'[w].job = None
      /\ \A v \in Workers \ {w} : worker'[v] = worker[v]
  BY <1>2, <1>3, DoneIsTyped
<1>8. LineTyped'
  BY <1>2, <1>3, <1>7 DEF LineTyped, histVars
<1>9. WorkerInv(w)'
  BY <1>7 DEF WorkerInv
<1>10. LooseInv(i)'
  BY <1>2, <1>4, <1>5 DEF LooseInv, Reported, Mailed, histVars
<1>11. QED
  BY <1>1, <1>2, <1>3, <1>5, <1>6, <1>7, <1>8, <1>9, <1>10, BackStep DEF histVars

-----------------------------------------------------------------------------
(***************************************************************************)
(* run.                                                                    *)
(***************************************************************************)

\* A step of run leaves sessions, queue and workers alone.
LEMMA RunFrame ==
  ASSUME LineInv, UNCHANGED <<session, transfer, aborts, queue, worker, outcome, evictedFor>>,
         phase' \in Phase, broken' \in BOOLEAN, broken => broken',
         DOMAIN reservations' \subseteq DOMAIN reservations,
         \A i \in DOMAIN jobs' : i \in DOMAIN jobs /\ jobs'[i] = jobs[i],
         ~closed' => UnfinishedIn(jobs) \subseteq DOMAIN jobs',
         closed => closed', closed' => DOMAIN jobs' = {},
         PhaseInv'
  PROVE  LineInv'
<1>1. ClosingStep
  BY DEF ClosingStep
<1>2. \A k : JobLasts(k)
  BY DEF JobLasts
<1>3. \A i \in Ids : transfer[i].state = "accepted" => StaysAccepted(i)
  BY DEF StaysAccepted
<1>4. /\ QueueInv' /\ \A w \in Workers : WorkerInv(w)'
      /\ \A i \in Ids : LooseInv(i)'
  BY <1>1, <1>2, <1>3, WorkFrame
<1>5. /\ \A c \in Conns : SessionInv(c)'
      /\ \A i \in Ids : TransferInv(i)' /\ StoredInv(i)'
  BY <1>1, <1>2, FrontFrame
<1>6. LineTyped'
  BY InvParts DEF LineTyped
<1>7. QED BY <1>4, <1>5, <1>6 DEF LineInv

LEMMA SweepStep ==
  ASSUME ApplianceInv, NEW at \in Recent, Sweep(at)
  PROVE  LineInv'
<1>1. /\ LineInv /\ CleanExpired(at)
      /\ UNCHANGED <<session, transfer, aborts, queue, worker, phase, broken, outcome,
                     evictedFor>>
  BY DEF ApplianceInv, Sweep, lineVars, histVars
<1>2. /\ DOMAIN jobs' \subseteq DOMAIN jobs
      /\ DOMAIN reservations' \subseteq DOMAIN reservations
      /\ \A k \in DOMAIN jobs' : jobs'[k] = jobs[k]
      /\ UnfinishedIn(jobs) \subseteq DOMAIN jobs'
      /\ closed' = closed
  BY <1>1, CleanExpiredJobs
<1>3. closed => DOMAIN jobs' = {} /\ DOMAIN reservations' = {}
  BY <1>1, <1>2, InvParts DEF PhaseInv
<1>4. PhaseInv'
  BY <1>1, <1>2, <1>3, PhaseFrame
<1>5. phase' \in Phase /\ broken' \in BOOLEAN
  BY <1>1, InvParts DEF LineTyped
<1>6. QED BY <1>1, <1>2, <1>3, <1>4, <1>5, RunFrame

LEMMA ClockTickStep ==
  ASSUME ApplianceInv, ClockTick
  PROVE  LineInv'
<1>1. /\ LineInv /\ UNCHANGED <<jobs, reservations, closed>>
      /\ UNCHANGED <<session, transfer, aborts, queue, worker, phase, broken, outcome,
                     evictedFor>>
  BY DEF ApplianceInv, ClockTick, Tick, lineVars, histVars
<1>2. closed => DOMAIN jobs' = {} /\ DOMAIN reservations' = {}
  BY <1>1, InvParts DEF PhaseInv
<1>3. PhaseInv'
  BY <1>1, <1>2, PhaseFrame
<1>4. phase' \in Phase /\ broken' \in BOOLEAN
  BY <1>1, InvParts DEF LineTyped
<1>5. QED BY <1>1, <1>2, <1>3, <1>4, RunFrame DEF UnfinishedIn

\* The store is open while the shutdown goes through its earlier phases.
LEMMA PhaseStep ==
  ASSUME ApplianceInv, Signal \/ SmtpClosed \/ StopWorkers \/ ServerFails
  PROVE  LineInv'
<1>1. /\ LineInv /\ UNCHANGED <<jobs, reservations, closed>>
      /\ UNCHANGED <<session, transfer, aborts, queue, worker, outcome, evictedFor>>
  BY DEF ApplianceInv, Signal, SmtpClosed, StopWorkers, ServerFails, storeVars, histVars
<1>2. phase # "closed" /\ phase' \in Phase \ {"closed"}
  BY DEF Signal, SmtpClosed, StopWorkers, ServerFails, Phase
<1>3. ~closed /\ ~closed'
  BY <1>1, <1>2, InvParts DEF PhaseInv
<1>4. phase' \in Phase /\ broken' \in BOOLEAN /\ (broken => broken')
  <2>1. phase' \in Phase /\ broken \in BOOLEAN
    BY <1>1, <1>2, InvParts DEF LineTyped
  <2>2. CASE UNCHANGED broken
    BY <2>1, <2>2
  <2>3. CASE ServerFails
    <3>1. broken' = TRUE
      BY <2>3 DEF ServerFails
    <3>2. QED BY <2>1, <3>1
  <2>4. QED BY <2>2, <2>3 DEF Signal, SmtpClosed, StopWorkers
<1>5. phase' \in {"draining", "stopping"} /\ ~broken' => \A c \in Conns : ~session[c].open
  BY <1>1, InvParts DEF PhaseInv, Signal, SmtpClosed, StopWorkers, ServerFails
<1>6. PhaseInv'
  BY <1>1, <1>2, <1>3, <1>5 DEF PhaseInv
<1>7. QED BY <1>1, <1>3, <1>4, <1>6, RunFrame DEF UnfinishedIn

LEMMA CloseStoreStep ==
  ASSUME ApplianceInv, CloseStore
  PROVE  LineInv'
<1>1. /\ LineInv /\ Close /\ phase = "stopping" /\ phase' = "closed"
      /\ broken \/ \A w \in Workers : worker[w].state = "stopped"
      /\ UNCHANGED <<session, transfer, aborts, queue, worker, broken, outcome, evictedFor>>
  BY DEF ApplianceInv, CloseStore, At, histVars
<1>2. closed' /\ DOMAIN jobs' = {} /\ DOMAIN reservations' = {}
  BY <1>1 DEF Close, NoEntries
<1>3. PhaseInv'
  BY <1>1, <1>2, InvParts DEF PhaseInv
<1>4. phase' \in Phase /\ broken' \in BOOLEAN
  BY <1>1, InvParts DEF LineTyped, Phase
<1>5. QED BY <1>1, <1>2, <1>3, <1>4, RunFrame


-----------------------------------------------------------------------------
(***************************************************************************)
(* The inductive invariant.                                                *)
(***************************************************************************)
LEMMA ApplianceInitInv == ApplianceInit => ApplianceInv
<1> SUFFICES ASSUME ApplianceInit PROVE ApplianceInv
  OBVIOUS
<1>1. IInv
  BY InitInv DEF ApplianceInit
<1>2. DOMAIN jobs = {} /\ DOMAIN reservations = {} /\ ~closed
  BY DEF ApplianceInit, Init, NoEntries
<1>3. LineTyped
  <2>1. QueueCap \in Nat
    BY ApplianceAssumption, FS_CardinalityType DEF QueueCap
  <2>2. 0 \in Generation
    BY ApplianceAssumption DEF Generation
  <2>3. session \in [Conns -> Session]
    BY <2>2 DEF ApplianceInit, Session
  <2>4. transfer \in [Ids -> Transfer]
    BY <2>2 DEF ApplianceInit, Transfer, TransferState
  <2>5. Idle \in Worker
    BY DEF Idle, Worker, WorkerState
  <2>6. queue \in Seq(Ids) /\ Len(queue) <= QueueCap
    BY <2>1 DEF ApplianceInit
  <2>7. QED BY <2>3, <2>4, <2>5, <2>6 DEF ApplianceInit, LineTyped, Phase
<1>4. \A c \in Conns : SessionInv(c)
  BY ApplianceAssumption DEF ApplianceInit, SessionInv
<1>5. \A i \in Ids : TransferInv(i) /\ StoredInv(i)
  BY <1>2 DEF ApplianceInit, TransferInv, StoredInv
<1>6. \A w \in Workers : worker[w] = Idle /\ Idle.job = None /\ Idle.state = "idle"
  BY DEF ApplianceInit, Idle
<1>7. \A w \in Workers : WorkerInv(w)
  BY <1>6 DEF WorkerInv
<1>8. \A i \in Ids : LooseInv(i)
  BY DEF ApplianceInit, LooseInv
<1>9. QueueInv
  BY DEF ApplianceInit, QueueInv
<1>10. PhaseInv
  BY <1>2 DEF ApplianceInit, PhaseInv
<1>11. QED BY <1>1, <1>3, <1>4, <1>5, <1>7, <1>8, <1>9, <1>10 DEF ApplianceInv, LineInv

LEMMA StutterStep ==
  ASSUME ApplianceInv, UNCHANGED vars
  PROVE  LineInv'
<1>1. UNCHANGED <<storeVars, session, transfer, aborts, queue, worker, phase, broken, outcome,
                  evictedFor>>
  BY DEF vars, lineVars, histVars
<1>2. LineInv
  BY DEF ApplianceInv
<1>3. closed => DOMAIN jobs' = {} /\ DOMAIN reservations' = {}
  BY <1>1, <1>2, InvParts DEF PhaseInv, storeVars
<1>4. PhaseInv'
  BY <1>1, <1>2, <1>3, PhaseFrame DEF storeVars
<1>5. phase' \in Phase /\ broken' \in BOOLEAN
  BY <1>1, <1>2, InvParts DEF LineTyped
<1>6. QED BY <1>1, <1>2, <1>3, <1>4, <1>5, RunFrame DEF UnfinishedIn, storeVars

LEMMA ApplianceNextInv ==
  ASSUME ApplianceInv, [ApplianceNext]_vars
  PROVE  ApplianceInv'
<1>1. IInv'
  BY LineStoreStep, NextInv DEF ApplianceInv
<1>2. ASSUME NEW c \in Conns,
             \/ Reset(c) \/ BeginMail(c) \/ Logout(c)
             \/ \E caps \in Caps \cup {None} : EndMail(c, caps)
             \/ \E i \in Ids : StartData(c, i)
      PROVE  LineInv'
  BY <1>2, ResetsStep, EndMailStep, StartDataStep
<1>3. ASSUME NEW i \in Ids, AbortStaging(i) \/ DataStep(i)
      PROVE  LineInv'
  BY <1>3, AbortStagingStep, BeginDataStep, RefuseMessageStep, AcceptEmptyStep,
     CommitScanStep, EnqueueScanStep, DeleteScanStep DEF DataStep
<1>4. ASSUME NEW w \in Workers, WorkerStep(w)
      PROVE  LineInv'
  BY <1>4, IdleStep, TakeStep, BeginStep, OcrDocumentStep, OcrFailsStep, DeliverStep,
     FinishStep, FailStep, NoticeStep, DeleteJobStep DEF WorkerStep
<1>5. ASSUME \/ \E at \in Recent : Sweep(at)
             \/ Signal \/ SmtpClosed \/ StopWorkers \/ ServerFails \/ CloseStore
             \/ ClockTick
      PROVE  LineInv'
  BY <1>5, SweepStep, PhaseStep, CloseStoreStep, ClockTickStep
<1>6. LineInv'
  BY <1>2, <1>3, <1>4, <1>5, StutterStep DEF ApplianceNext
<1>7. QED BY <1>1, <1>6 DEF ApplianceInv

\* Sessions, queue, workers and shutdown keep the invariant above.
THEOREM ApplianceInvariant == ApplianceSpec => []ApplianceInv
<1>1. ApplianceInit => ApplianceInv
  BY ApplianceInitInv
<1>2. ApplianceInv /\ [ApplianceNext]_vars => ApplianceInv'
  BY ApplianceNextInv
<1>3. QED BY <1>1, <1>2, PTL DEF ApplianceSpec

\* The sessions, the workers and the sweep use the store as its specification
\* allows: every step is one of its operations or none (session.go,
\* pipeline.go, store.go).
THEOREM ApplianceImplementsStore == ApplianceSpec => StoreSpec
<1>1. ApplianceInit => Init
  BY DEF ApplianceInit
<1>2. ApplianceInv /\ [ApplianceNext]_vars => [Next]_storeVars
  BY LineStoreStep
<1>3. ApplianceSpec => Init /\ [][Next]_storeVars
  BY <1>1, <1>2, ApplianceInvariant, PTL DEF ApplianceSpec
<1>4. QED BY <1>3 DEF StoreSpec, Spec

\* All variables of the appliance keep their types, and the queue its length.
THEOREM ApplianceTypesHold == ApplianceSpec => []ApplianceTypeOK
<1>1. ApplianceInv => ApplianceTypeOK
  BY DEF ApplianceInv, IInv, LineInv, LineTyped, ApplianceTypeOK
<1>2. QED BY <1>1, ApplianceInvariant, PTL

\* A transaction is either committed or aborted, never both and never neither
\* (session.go, Data and Reset).
THEOREM CommittedOrAborted == ApplianceSpec => []AbortedOrCommitted
<1>1. ApplianceInv => AbortedOrCommitted
  <2> SUFFICES ASSUME ApplianceInv PROVE AbortedOrCommitted
    OBVIOUS
  <2>1. /\ aborts \subseteq Ids
        /\ \A i \in Ids : TransferInv(i) /\ StoredInv(i)
    BY InvParts DEF ApplianceInv, LineTyped
  <2>2. QED BY <2>1 DEF TransferInv, StoredInv, AbortedOrCommitted
<1>2. QED BY <1>1, ApplianceInvariant, PTL

\* A scan that was answered with a 250 and is in nobody's hands any more has
\* been sent, noticed or shown as its profile asks (pipeline.go, process).
THEOREM AcceptedScansAreReported == ApplianceSpec => []AcceptedIsReported
<1>1. ApplianceInv => AcceptedIsReported
  <2> SUFFICES ASSUME ApplianceInv, NEW i \in Ids, transfer[i].state = "accepted",
                      Owners(i) = {}, ~broken
               PROVE  /\ "email" \in transfer[i].caps => outcome[i] \cap {"scan", "notice"} # {}
                      /\ "web" \in transfer[i].caps => "web" \in outcome[i]
    BY DEF AcceptedIsReported
  <2>1. \A k \in DOMAIN queue : queue[k] = i => <<"queue", k>> \in Owners(i)
    BY DEF Owners
  <2>2. \A w \in Workers : worker[w].job = i => <<"worker", w>> \in Owners(i)
    BY DEF Owners
  <2>3. LooseInv(i)
    BY InvParts DEF ApplianceInv
  <2>4. QED BY <2>1, <2>2, <2>3 DEF LooseInv, Reported, Mailed
<1>2. QED BY <1>1, ApplianceInvariant, PTL

\* The owner of a job is where the invariant says it is, and nowhere else.
LEMMA OneOwner ==
  ASSUME ApplianceInv, NEW i \in DOMAIN jobs,
         i \in UnfinishedIn(jobs) \/ "web" \notin jobs[i].caps
  PROVE  \E x : Owners(i) = {x}
<1>1. /\ LineInv /\ i \in Ids /\ i # None
      /\ \A w \in Workers : WorkerInv(w)
      /\ \A c \in Conns : SessionInv(c)
      /\ QueueInv /\ LooseInv(i) /\ StoredInv(i)
  BY InvParts, ApplianceAssumption DEF ApplianceInv, IInv, TypeOK
<1>2. CASE transfer[i].state \in {"enqueueing", "deleting"}
  <2>1. PICK c \in Conns : c = transfer[i].conn
    BY <1>1, <1>2, HolderOnly
  <2>2. session[c].holder = i /\ \A d \in Conns \ {c} : session[d].holder # i
    BY <1>1, <1>2, <2>1, HolderOnly
  <2>3. /\ \A k \in DOMAIN queue : queue[k] # i
        /\ \A w \in Workers : worker[w].job # i
    BY <1>1, <1>2 DEF QueueInv, WorkerInv
  <2>4. Owners(i) = {<<"session", c>>}
    BY <2>2, <2>3 DEF Owners
  <2>5. QED BY <2>4
<1>3. CASE transfer[i].state = "accepted"
  <2>1. \A c \in Conns : session[c].holder # i
    BY <1>1, <1>3 DEF SessionInv
  <2>2. CASE \E k \in DOMAIN queue : queue[k] = i
    <3>1. PICK k \in DOMAIN queue : queue[k] = i
      BY <2>2
    <3>2. \A l \in DOMAIN queue : queue[l] = i => l = k
      BY <1>1, <3>1 DEF QueueInv
    <3>3. \A w \in Workers : worker[w].job # i
      BY <1>1, <3>1 DEF WorkerInv
    <3>4. Owners(i) = {<<"queue", k>>}
      BY <2>1, <3>1, <3>2, <3>3 DEF Owners
    <3>5. QED BY <3>4
  <2>3. CASE \E w \in Workers : worker[w].job = i
    <3>1. PICK w \in Workers : worker[w].job = i
      BY <2>3
    <3>2. /\ \A k \in DOMAIN queue : queue[k] # i
          /\ \A v \in Workers \ {w} : worker[v].job # i
      BY <1>1, <3>1 DEF WorkerInv
    <3>3. Owners(i) = {<<"worker", w>>}
      BY <2>1, <3>1, <3>2 DEF Owners
    <3>4. QED BY <3>3
  <2>4. QED BY <1>1, <1>3, <2>2, <2>3 DEF LooseInv
<1>4. QED BY <1>1, <1>2, <1>3 DEF StoredInv

\* A job that is not finished, or that nobody would collect, has exactly one
\* owner, and promised space has a call of Data (session.go, pipeline.go).
THEOREM NothingIsOrphaned == ApplianceSpec => []EverythingHasAnOwner
<1>1. ApplianceInv => EverythingHasAnOwner
  <2> SUFFICES ASSUME ApplianceInv PROVE EverythingHasAnOwner
    OBVIOUS
  <2>1. ASSUME NEW i \in DOMAIN jobs,
               i \in UnfinishedIn(jobs) \/ "web" \notin jobs[i].caps
        PROVE  Cardinality(Owners(i)) = 1
    BY <2>1, OneOwner, FS_Singleton
  <2>2. DOMAIN reservations \subseteq Ids /\ \A i \in Ids : StoredInv(i)
    BY InvParts DEF ApplianceInv, IInv, TypeOK
  <2>3. QED BY <2>1, <2>2 DEF EverythingHasAnOwner, StoredInv
<1>2. QED BY <1>1, ApplianceInvariant, PTL


-----------------------------------------------------------------------------
(***************************************************************************)
(* What a step may never do.                                               *)
(***************************************************************************)
LEMMA SettleKeepsIds ==
  ASSUME IInv, NEW i, NEW status \in {"ready", "failed"}, Settle(i, status)
  PROVE  DOMAIN jobs' = DOMAIN jobs
<1>1. CASE i \in DOMAIN jobs /\ jobs[i].status # "removed"
  BY <1>1, SetStatusJobs DEF Settle, IInv, TypeOK
<1>2. CASE ~(i \in DOMAIN jobs /\ jobs[i].status # "removed")
  BY <1>2 DEF Settle, storeVars
<1>3. QED BY <1>1, <1>2

\* Only a commit puts a job into the store.
LEMMA NewJobsAreCommitted ==
  ASSUME ApplianceInv, [ApplianceNext]_vars, NEW i \in DOMAIN jobs' \ DOMAIN jobs
  PROVE  \E docs \in Committable, at \in Recent : CommitScan(i, docs, at)
<1>0. IInv /\ DOMAIN jobs \subseteq Ids
  BY DEF ApplianceInv, IInv, TypeOK
<1>1. ASSUME NEW c \in Conns,
             \/ Reset(c) \/ BeginMail(c) \/ Logout(c)
             \/ \E caps \in Caps \cup {None} : EndMail(c, caps)
             \/ \E k \in Ids : StartData(c, k)
      PROVE  FALSE
  BY <1>1 DEF Reset, BeginMail, Logout, EndMail, StartData, storeVars
<1>2. ASSUME NEW k \in Ids,
             \/ AbortStaging(k) \/ BeginData(k) \/ RefuseMessage(k) \/ AcceptEmpty(k)
             \/ EnqueueScan(k) \/ DeleteScan(k)
      PROVE  FALSE
  BY <1>2 DEF AbortStaging, BeginData, RefuseMessage, AcceptEmpty, EnqueueScan, DeleteScan,
     AbortOwn, ReleaseReservation, Reserve, DeleteIfThere, Delete, Drop, storeVars
<1>3. ASSUME NEW k \in Ids, NEW docs \in Committable, NEW at \in Recent,
             CommitScan(k, docs, at)
      PROVE  CommitScan(i, docs, at)
  <2>1. transfer[k].caps \in Caps
    BY <1>3, InItsTransaction DEF ApplianceInv, CommitScan, HandOver
  <2>2. docs \in Documents /\ at \in Nat /\ Commit(k, transfer[k].caps, docs, at)
    BY <1>3 DEF Committable, Recent, CommitScan
  <2>3. DOMAIN jobs' = DOMAIN jobs \cup {k}
    BY <1>0, <2>1, <2>2, CommitJobs
  <2>4. QED BY <1>3, <2>3
<1>4. ASSUME NEW w \in Workers,
             \/ LookForStop(w) \/ Take(w) \/ Stop(w) \/ OcrFails(w) \/ Deliver(w)
             \/ DeliverFails(w) \/ Notice(w) \/ DeleteJob(w)
      PROVE  FALSE
  BY <1>4 DEF LookForStop, Take, Stop, OcrFails, Deliver, DeliverFails, Notice, DeleteJob,
     DeleteIfThere, Delete, Drop, storeVars
<1>5. ASSUME NEW w \in Workers, Begin(w) PROVE FALSE
  BY <1>0, <1>5, SetStatusJobs DEF Begin, storeVars
<1>6. ASSUME NEW w \in Workers, NEW d \in DocIds, NEW size \in Sizes,
             OcrDocument(w, d, size)
      PROVE  FALSE
  <2>1. /\ ReplaceDocument(worker[w].job, d, size) /\ worker[w].state = "ocr"
        /\ worker[w].job \in DOMAIN jobs
    BY <1>6 DEF OcrDocument, At, ReplaceDocument
  <2>2. worker[w].job \in UnfinishedIn(jobs)
    BY <2>1, InvParts DEF ApplianceInv, WorkerInv, InHand, UnfinishedIn
  <2>3. QED BY <1>0, <2>1, <2>2, ReplaceDocumentJobs
<1>7. ASSUME NEW w \in Workers, Finish(w) \/ Fail(w) PROVE FALSE
  BY <1>0, <1>7, SettleKeepsIds DEF Finish, Fail, storeVars
<1>8. ASSUME \/ \E at \in Recent : Sweep(at)
             \/ Signal \/ SmtpClosed \/ StopWorkers \/ ServerFails \/ CloseStore
             \/ ClockTick \/ UNCHANGED vars
      PROVE  FALSE
  BY <1>8, CleanExpiredJobs DEF Sweep, Signal, SmtpClosed, StopWorkers, ServerFails,
     CloseStore, Close, NoEntries, ClockTick, Tick, vars, storeVars
<1>9. QED
  BY <1>1, <1>2, <1>3, <1>4, <1>5, <1>6, <1>7, <1>8 DEF ApplianceNext, DataStep, WorkerStep

\* A scan is committed only for the transaction it was sent in, which is still
\* the connection's current one, and with that transaction's profile, however
\* late its goroutine began (session.go, Data, Reset and Mail).
THEOREM ScansKeepTheirTransaction == ApplianceSpec => ScanBelongsToItsTransaction
<1> DEFINE A == \A i \in DOMAIN jobs' \ DOMAIN jobs :
                  LET t == transfer[i]
                  IN  /\ session[t.conn].generation = t.txn
                      /\ jobs'[i].caps = t.mailCaps
<1>1. ASSUME ApplianceInv, [ApplianceNext]_vars PROVE A
  <2> SUFFICES ASSUME NEW i \in DOMAIN jobs' \ DOMAIN jobs
               PROVE  /\ session[transfer[i].conn].generation = transfer[i].txn
                      /\ jobs'[i].caps = transfer[i].mailCaps
    OBVIOUS
  <2>1. PICK docs \in Committable, at \in Recent : CommitScan(i, docs, at)
    BY <1>1, NewJobsAreCommitted
  <2>2. /\ Commit(i, transfer[i].caps, docs, at) /\ transfer[i].state = "reading"
        /\ ~WasReset(i) /\ ~ReaderFailed(i)
    BY <2>1 DEF CommitScan, HandOver
  <2>3. IInv /\ LineInv /\ i \in Ids
    BY <1>1, <2>2 DEF ApplianceInv, IInv, TypeOK, Commit
  <2>4. /\ transfer[i].caps = transfer[i].mailCaps /\ transfer[i].caps \in Caps
        /\ session[transfer[i].conn].generation = transfer[i].txn
    BY <2>2, <2>3, InItsTransaction
  <2>5. docs \in Documents /\ at \in Nat
    BY DEF Committable, Recent
  <2>6. jobs'[i].caps = transfer[i].caps
    BY <2>2, <2>3, <2>4, <2>5, CommitJobs
  <2>7. QED BY <2>4, <2>6
<1>2. ApplianceInv /\ [ApplianceNext]_vars => [A]_vars
  BY <1>1
<1> HIDE DEF A
<1>3. ApplianceSpec => [][A]_vars
  BY <1>2, ApplianceInvariant, PTL DEF ApplianceSpec
<1>4. QED BY <1>3 DEF ScanBelongsToItsTransaction, A

\* Only a scan that was enqueued is answered with the 250.
LEMMA AcceptedIsEnqueued ==
  ASSUME ApplianceInv, [ApplianceNext]_vars, NEW i \in Ids, JustAccepted(i)
  PROVE  transfer[i].state = "enqueueing"
<1>0. LineTyped /\ transfer[i] \in Transfer
  BY InvParts DEF ApplianceInv, LineTyped
<1>1. ASSUME NEW c \in Conns,
             \/ Reset(c) \/ BeginMail(c) \/ Logout(c)
             \/ \E caps \in Caps \cup {None} : EndMail(c, caps)
      PROVE  FALSE
  BY <1>1 DEF Reset, BeginMail, Logout, EndMail, JustAccepted
<1>2. ASSUME NEW c \in Conns, NEW k \in Ids, StartData(c, k) PROVE FALSE
  BY <1>0, <1>2 DEF StartData, LineTyped, Transfer, JustAccepted
<1>3. ASSUME NEW k \in Ids, AbortStaging(k) PROVE FALSE
  BY <1>3 DEF AbortStaging, JustAccepted
<1>4. ASSUME NEW k \in Ids, BeginData(k) PROVE FALSE
  <2>1. PICK new : /\ transfer' = [transfer EXCEPT ![k] = new]
                   /\ new \in {[transfer[k] EXCEPT !.state = "reading",
                                    !.gen = session[transfer[k].conn].generation,
                                    !.caps = session[transfer[k].conn].caps],
                               [transfer[k] EXCEPT !.state = "refused"]}
    BY <1>4 DEF BeginData
  <2>2. transfer[k] \in Transfer
    BY <1>0 DEF LineTyped
  <2>3. new.state \in {"reading", "refused"}
    BY <2>1, <2>2 DEF Transfer
  <2>4. QED BY <1>0, <2>1, <2>3 DEF LineTyped, JustAccepted
<1>5. ASSUME NEW k \in Ids, NEW answer \in TransferState \ {"accepted"}, Answer(k, answer)
      PROVE  FALSE
  BY <1>0, <1>5, AnswerIsTyped DEF JustAccepted
<1>6. ASSUME NEW k \in Ids,
             \/ RefuseMessage(k) \/ AcceptEmpty(k) \/ DeleteScan(k)
             \/ \E docs \in Committable, at \in Recent : CommitScan(k, docs, at)
      PROVE  FALSE
  BY <1>5, <1>6 DEF RefuseMessage, AcceptEmpty, DeleteScan, CommitScan, TransferState
<1>7. ASSUME NEW k \in Ids, EnqueueScan(k) PROVE transfer[i].state = "enqueueing"
  <2>1. Answer(k, "accepted") \/ Answer(k, "deleting")
    BY <1>7 DEF EnqueueScan
  <2>2. k = i
    BY <1>0, <2>1, AnswerIsTyped DEF JustAccepted, TransferState
  <2>3. QED BY <1>7, <2>2 DEF EnqueueScan
<1>8. ASSUME NEW w \in Workers, WorkerStep(w) PROVE FALSE
  BY <1>8 DEF WorkerStep, LookForStop, Take, Stop, Begin, OcrDocument, OcrFails, Deliver,
     DeliverFails, Finish, Fail, Notice, DeleteJob, JustAccepted
<1>9. ASSUME \/ \E at \in Recent : Sweep(at)
             \/ Signal \/ SmtpClosed \/ StopWorkers \/ ServerFails \/ CloseStore
             \/ ClockTick \/ UNCHANGED vars
      PROVE  FALSE
  BY <1>9 DEF Sweep, Signal, SmtpClosed, StopWorkers, ServerFails, CloseStore, ClockTick,
     vars, lineVars, JustAccepted
<1>10. QED
  BY <1>1, <1>2, <1>3, <1>4, <1>6, <1>7, <1>8, <1>9 DEF ApplianceNext, DataStep

\* On an orderly shutdown no scan is accepted any more once the workers have
\* been told to stop, as every connection is closed by then (main.go, run).
THEOREM NoScanAfterTheStop == ApplianceSpec => NoneAcceptedOnceStopping
<1> DEFINE A == \A i \in Ids : JustAccepted(i) => ~Stopped \/ broken
<1>1. ASSUME ApplianceInv, [ApplianceNext]_vars PROVE A
  <2> SUFFICES ASSUME NEW i \in Ids, JustAccepted(i) PROVE ~Stopped \/ broken
    OBVIOUS
  <2>1. transfer[i].state = "enqueueing"
    BY <1>1, AcceptedIsEnqueued
  <2>2. /\ transfer[i].conn \in Conns /\ session[transfer[i].conn].holder = i /\ i # None
    BY <1>1, <2>1, HolderOnly, ApplianceAssumption DEF ApplianceInv
  <2>3. session[transfer[i].conn].open
    BY <1>1, <2>2, InvParts DEF ApplianceInv, SessionInv
  <2>4. QED BY <1>1, <2>2, <2>3, InvParts DEF ApplianceInv, PhaseInv, Stopped
<1>2. ApplianceInv /\ [ApplianceNext]_vars => [A]_vars
  BY <1>1
<1> HIDE DEF A
<1>3. ApplianceSpec => [][A]_vars
  BY <1>2, ApplianceInvariant, PTL DEF ApplianceSpec
<1>4. QED BY <1>3 DEF NoneAcceptedOnceStopping, A


\* A step that neither sends scan i nor makes it ready.
Quiet(i) ==
  /\ "scan" \in outcome'[i] => "scan" \in outcome[i]
  /\ i \in DOMAIN jobs' /\ jobs'[i].status = "ready" => jobs[i].status = "ready"

LEMMA KeptIsQuiet ==
  ASSUME NEW i \in DOMAIN jobs, UNCHANGED outcome,
         i \in DOMAIN jobs' => jobs'[i].status \in {jobs[i].status, "removed"}
  PROVE  Quiet(i)
BY DEF Quiet

\* Whatever sends a scan, or makes it ready, does so where deliver or finish
\* found it searchable.
LEMMA DeliveredIsSearchable ==
  ASSUME ApplianceInv, [ApplianceNext]_vars, NEW i \in DOMAIN jobs,
         "ocr" \in jobs[i].caps, ~Quiet(i)
  PROVE  Searchable(i)
<1>0. /\ IInv /\ LineInv /\ LineTyped /\ DOMAIN jobs \subseteq Ids
      /\ jobs[i].caps = transfer[i].caps
  BY InvParts DEF ApplianceInv, IInv, TypeOK, StoredInv
<1>1. ASSUME UNCHANGED <<jobs, outcome>> PROVE FALSE
  BY <1>1, KeptIsQuiet
<1>2. ASSUME NEW c \in Conns,
             \/ Reset(c) \/ BeginMail(c) \/ Logout(c)
             \/ \E caps \in Caps \cup {None} : EndMail(c, caps)
             \/ \E k \in Ids : StartData(c, k)
      PROVE  FALSE
  BY <1>1, <1>2 DEF Reset, BeginMail, Logout, EndMail, StartData, storeVars, histVars
<1>3. ASSUME NEW k \in Ids,
             \/ AbortStaging(k) \/ BeginData(k) \/ RefuseMessage(k) \/ AcceptEmpty(k)
             \/ EnqueueScan(k)
      PROVE  FALSE
  BY <1>1, <1>3 DEF AbortStaging, BeginData, RefuseMessage, AcceptEmpty, EnqueueScan,
     AbortOwn, ReleaseReservation, Reserve, storeVars, histVars
<1>4. ASSUME NEW k \in Ids, DeleteScan(k) PROVE FALSE
  BY <1>4, KeptIsQuiet DEF DeleteScan, DeleteIfThere, Delete, Drop, storeVars, histVars
<1>5. ASSUME NEW k \in Ids, NEW docs \in Committable, NEW at \in Recent,
             CommitScan(k, docs, at)
      PROVE  FALSE
  <2>1. transfer[k].caps \in Caps
    BY <1>0, <1>5, InItsTransaction DEF CommitScan, HandOver
  <2>2. docs \in Documents /\ at \in Nat /\ Commit(k, transfer[k].caps, docs, at)
    BY <1>5 DEF Committable, Recent, CommitScan
  <2>3. KeptOrEvicted(i)
    BY <1>0, <2>1, <2>2, CommitJobs
  <2>4. QED BY <1>5, <2>3, KeptIsQuiet DEF KeptOrEvicted, CommitScan
<1>6. ASSUME NEW w \in Workers,
             LookForStop(w) \/ Take(w) \/ Stop(w) \/ OcrFails(w)
      PROVE  FALSE
  BY <1>1, <1>6 DEF LookForStop, Take, Stop, OcrFails, storeVars, histVars
<1>7. ASSUME NEW w \in Workers, Begin(w) PROVE FALSE
  <2>1. UNCHANGED outcome
    BY <1>7 DEF Begin, histVars
  <2>2. CASE SetStatus(worker[w].job, "processing")
    <3>1. PICK k \in Ids : SetStatus(k, "processing")
      BY <1>0, <2>2 DEF SetStatus
    <3>2. /\ jobs'[k].status = "processing"
          /\ \A n \in DOMAIN jobs \ {k} : KeptOrEvicted(n)
      BY <1>0, <3>1, SetStatusJobs DEF Finished
    <3>3. QED BY <2>1, <3>2 DEF Quiet, KeptOrEvicted
  <2>3. CASE UNCHANGED storeVars
    BY <1>1, <2>1, <2>3 DEF storeVars
  <2>4. QED BY <1>7, <2>2, <2>3 DEF Begin
<1>8. ASSUME NEW w \in Workers, NEW d \in DocIds, NEW size \in Sizes,
             OcrDocument(w, d, size)
      PROVE  FALSE
  <2>1. /\ ReplaceDocument(worker[w].job, d, size) /\ worker[w].state = "ocr"
        /\ worker[w].job \in DOMAIN jobs /\ UNCHANGED outcome
    BY <1>8 DEF OcrDocument, At, ReplaceDocument, histVars
  <2>2. worker[w].job \in UnfinishedIn(jobs)
    BY <1>0, <2>1, InvParts DEF WorkerInv, InHand, UnfinishedIn
  <2>3. jobs'[i].status = jobs[i].status
    BY <1>0, <2>1, <2>2, ReplaceDocumentJobs
  <2>4. QED BY <2>1, <2>3, KeptIsQuiet
<1>9. ASSUME NEW w \in Workers, Deliver(w) \/ DeliverFails(w) PROVE Searchable(i)
  <2>1. worker[w].state = "deliver" /\ jobs' = jobs
    BY <1>9 DEF Deliver, DeliverFails, At, storeVars
  <2>2. CASE worker[w].job = i
    BY <1>0, <2>1, <2>2, InvParts DEF WorkerInv
  <2>3. CASE worker[w].job # i
    <3>1. outcome'[i] = outcome[i]
      BY <1>0, <1>9, <2>3 DEF Deliver, DeliverFails, Gives, LineTyped
    <3>2. QED BY <2>1, <3>1 DEF Quiet
  <2>4. QED BY <2>2, <2>3
<1>10. ASSUME NEW w \in Workers, Notice(w) PROVE FALSE
  <2>1. UNCHANGED storeVars /\ Gives(w, "notice")
    BY <1>10 DEF Notice
  <2>2. "scan" \in outcome'[i] => "scan" \in outcome[i]
    BY <1>0, <2>1 DEF Gives, LineTyped
  <2>3. QED BY <2>1, <2>2 DEF Quiet, storeVars
<1>11. ASSUME NEW w \in Workers, DeleteJob(w) PROVE FALSE
  BY <1>11, KeptIsQuiet DEF DeleteJob, DeleteIfThere, Delete, Drop, storeVars, histVars
<1>12. ASSUME NEW w \in Workers, NEW status \in {"ready", "failed"},
              worker[w].state \in {"finish", "fail"}, Settle(worker[w].job, status),
              status = "failed" \/ worker[w].job # i
       PROVE  FALSE
  <2>1. PICK k : k = worker[w].job
    OBVIOUS
  <2>2. \A n \in Ids \ {k} : JobLasts(n) /\ outcome'[n] = outcome[n]
    BY <1>12, <2>1, SettleStep
  <2>3. CASE k = i
    <3>1. outcome' = outcome \/ outcome' = [outcome EXCEPT ![i] = @ \cup {"web"}]
      BY <1>12, <2>1, <2>3 DEF Settle
    <3>2. "scan" \in outcome'[i] => "scan" \in outcome[i]
      BY <1>0, <3>1 DEF LineTyped
    <3>3. SetStatus(i, "failed") \/ jobs' = jobs
      BY <1>12, <2>1, <2>3 DEF Settle, storeVars
    <3>4. jobs'[i].status \in {"failed", "removed"} \/ jobs' = jobs
      BY <1>0, <3>3, SetStatusJobs
    <3>5. QED BY <3>2, <3>4 DEF Quiet
  <2>4. CASE k # i
    BY <1>0, <2>2, <2>4 DEF Quiet, JobLasts
  <2>5. QED BY <2>3, <2>4
<1>13. ASSUME NEW w \in Workers, Fail(w) PROVE FALSE
  BY <1>12, <1>13 DEF Fail, At
<1>14. ASSUME NEW w \in Workers, Finish(w) PROVE Searchable(i)
  <2>1. worker[w].state = "finish"
    BY <1>14 DEF Finish, At
  <2>2. CASE worker[w].job = i
    BY <1>0, <2>1, <2>2, InvParts DEF WorkerInv
  <2>3. CASE worker[w].job # i
    BY <1>1, <1>12, <1>14, <2>1, <2>3 DEF Finish, storeVars
  <2>4. QED BY <2>2, <2>3
<1>15. ASSUME \/ \E at \in Recent : Sweep(at)
              \/ Signal \/ SmtpClosed \/ StopWorkers \/ ServerFails \/ CloseStore
              \/ ClockTick \/ UNCHANGED vars
       PROVE  FALSE
  BY <1>15, KeptIsQuiet, CleanExpiredJobs DEF Sweep, Signal, SmtpClosed, StopWorkers,
     ServerFails, CloseStore, Close, NoEntries, ClockTick, Tick, vars, storeVars, lineVars,
     histVars
<1>16. QED
  BY <1>2, <1>3, <1>4, <1>5, <1>6, <1>7, <1>8, <1>9, <1>10, <1>11, <1>13, <1>14, <1>15
     DEF ApplianceNext, DataStep, WorkerStep

\* A scan that is to be searchable is never sent or shown as ready before OCR
\* replaced each of its documents (pipeline.go, process).
THEOREM SearchableBeforeDelivery == ApplianceSpec => OnlySearchableIsDelivered
<1> DEFINE A == \A i \in DOMAIN jobs :
                  /\ "ocr" \in jobs[i].caps
                  /\ \/ "scan" \in outcome'[i] \ outcome[i]
                     \/ /\ jobs[i].status # "ready"
                        /\ i \in DOMAIN jobs' /\ jobs'[i].status = "ready"
                  => \A d \in DOMAIN jobs[i].docs : jobs[i].docs[d].ocr
<1>1. ASSUME ApplianceInv, [ApplianceNext]_vars PROVE A
  BY <1>1, DeliveredIsSearchable DEF Quiet, Searchable
<1>2. ApplianceInv /\ [ApplianceNext]_vars => [A]_vars
  BY <1>1
<1> HIDE DEF A
<1>3. ApplianceSpec => [][A]_vars
  BY <1>2, ApplianceInvariant, PTL DEF ApplianceSpec
<1>4. QED BY <1>3 DEF OnlySearchableIsDelivered, A
=============================================================================
