------------------------------- MODULE JobStore -------------------------------
(***************************************************************************)
(* The bookkeeping of internal/jobs/store.go: which scans the store holds, *)
(* what each is charged against the disk budget, who is evicted when the   *)
(* budget is exceeded, and when a scan expires.                            *)
(*                                                                         *)
(* Every action is one critical section of Store.mu.  The files behind the *)
(* bookkeeping, which the code touches outside the mutex, are added by     *)
(* JobStoreFiles; the callers (SMTP sessions and pipeline workers) are     *)
(* added by Appliance.  Both implement this specification.                 *)
(*                                                                         *)
(* A job is named by the staging it was committed from.  Subject, profile  *)
(* name, recipients and the failure reason are carried along by the code   *)
(* and decide nothing here, so they are left out.                          *)
(***************************************************************************)
EXTENDS ByteSum, Integers

CONSTANTS
  Ids,          \* ids of stagings and of the jobs committed from them
  DocIds,       \* ids of the documents within one job
  Caps,         \* the capability sets a job may carry
  MaxBytes,     \* Options.MaxBytes, the disk budget
  MaxMessage,   \* what every Reserve asks for (cfg.MaxMessageBytes)
  Sizes,        \* sizes a document may have
  TTL,          \* Options.TTL
  StaleAfter,   \* staleReservationAfter
  Lag,          \* how old a clock reading may be once the mutex is held
  Horizon       \* bound on the clock

ASSUME StoreAssumption ==
  /\ IsFiniteSet(DocIds)
  /\ MaxBytes \in Nat \ {0}
  /\ MaxMessage \in Nat
  /\ Sizes \subseteq Nat
  /\ TTL \in Nat \ {0}
  /\ StaleAfter \in Nat
  /\ Lag \in Nat
  /\ Horizon \in Nat

VARIABLES
  jobs,          \* Store.jobs: id -> record
  reservations,  \* Store.reservations: id -> record
  used,          \* Store.used
  closed,        \* Store.closed
  now            \* the clock

storeVars == <<jobs, reservations, used, closed, now>>

NoEntries == [i \in {} |-> {}]

Status == {"pending", "processing", "ready", "failed", "removed"}

Document == [size : Sizes, ocr : BOOLEAN]
Documents == UNION {[D -> Document] : D \in SUBSET DocIds}

Job == [status : Status, received : Nat, expires : Nat, bytes : Nat,
        caps : Caps, docs : Documents]

Reservation == [bytes : Nat, reservedAt : Nat]

TypeOK ==
  /\ jobs \in [DOMAIN jobs -> Job]
  /\ IsFiniteSet(DOMAIN jobs)
  /\ DOMAIN jobs \subseteq Ids
  /\ reservations \in [DOMAIN reservations -> Reservation]
  /\ IsFiniteSet(DOMAIN reservations)
  /\ DOMAIN reservations \subseteq Ids \ DOMAIN jobs
  /\ used \in Nat
  /\ closed \in BOOLEAN
  /\ now \in Nat

-----------------------------------------------------------------------------
Finished(status) == status \in {"ready", "failed"}

FinishedIn(js) == {i \in DOMAIN js : Finished(js[i].status)}
UnfinishedIn(js) == {i \in DOMAIN js : js[i].status \in {"pending", "processing"}}

\* docBytes
DocBytes(docs) == Total([d \in DOMAIN docs |-> docs[d].size])

\* Wrong: a failed job never expires.
LiveOnceFailed(job, at) ==
  \/ job.status \in {"pending", "processing", "failed"}
  \/ at < job.expires

\* Wrong: an evicted job is gone at once.
LiveUnlessEvicted(job, at) ==
  \/ job.status \in {"pending", "processing"}
  \/ job.status # "removed" /\ at < job.expires

\* live: a job the pipeline still owns has no deadline yet.
Live(job, at) ==
  \/ job.status \in {"pending", "processing"}
  \/ at < job.expires

\* Get finds job i.
Visible(i) == i \in DOMAIN jobs /\ Live(jobs[i], now)

\* ListForUser shows job i to its recipients.
Listed(i) == Visible(i) /\ "web" \in jobs[i].caps

\* A clock reading taken shortly before the mutex was acquired.
Recent == {t \in 0..now : t + Lag >= now}

-----------------------------------------------------------------------------
\* Wrong: work in flight could give way, too.
AdmitsOverUnfinished(want) == used - Charged(jobs, DOMAIN jobs) + want <= MaxBytes

\* admitsLocked: it fits, or finished jobs could give way for it.
Admits(want) ==
  \/ used + want <= MaxBytes
  \/ used - Charged(jobs, FinishedIn(jobs)) + want <= MaxBytes

\* Wrong: promises count as held.
HeldWithPromises(u, rs) == u

\* What the committed jobs hold when u is charged in all: a reservation still
\* open is a promise, not something held.
Held(u, rs) == u - Charged(rs, DOMAIN rs)

\* Wrong: a scan the pipeline still owns may give way, too.
CandidatesOfAnyStatus(js) == {i \in DOMAIN js : js[i].bytes > 0}

\* The jobs makeRoomLocked may evict.
Candidates(js) == {i \in FinishedIn(js) : js[i].bytes > 0}

\* evicted is what makeRoomLocked picks from js while held bytes are held:
\* oldest first (ties in any order), and not one more than needed.
Evicts(js, held, evicted) ==
  /\ evicted \subseteq Candidates(js)
  /\ \A i \in evicted, k \in Candidates(js) \ evicted :
        js[i].received <= js[k].received
  /\ \/ held - Charged(js, evicted) <= MaxBytes
     \/ evicted = Candidates(js)
  /\ evicted # {} =>
        \E last \in evicted :
           /\ \A i \in evicted : js[i].received <= js[last].received
           /\ held - Charged(js, evicted \ {last}) > MaxBytes

\* js with the evicted jobs turned into tombstones.
Evict(js, evicted) ==
  [i \in DOMAIN js |->
     IF i \in evicted
     THEN [js[i] EXCEPT !.status = "removed", !.bytes = 0, !.docs = NoEntries]
     ELSE js[i]]

\* makeRoomLocked, run on the jobs js, the reservations rs and the charge u
\* its caller has arrived at within the same critical section.
MakeRoom(js, rs, u) ==
  \E evicted \in SUBSET Candidates(js) :
     /\ Evicts(js, Held(u, rs), evicted)
     /\ jobs' = Evict(js, evicted)
     /\ used' = u - Charged(js, evicted)

-----------------------------------------------------------------------------
Init ==
  /\ jobs = NoEntries
  /\ reservations = NoEntries
  /\ used = 0
  /\ closed = FALSE
  /\ now = 0

\* Reserve, up to the first unlock.
Reserve(i) ==
  /\ ~closed
  /\ i \notin DOMAIN jobs \cup DOMAIN reservations
  /\ Admits(MaxMessage)
  /\ reservations' = [k \in DOMAIN reservations \cup {i} |->
                        IF k = i THEN [bytes |-> MaxMessage, reservedAt |-> now]
                                 ELSE reservations[k]]
  /\ used' = used + MaxMessage
  /\ UNCHANGED <<jobs, closed, now>>

Drop(recs, S) == [k \in DOMAIN recs \ S |-> recs[k]]

\* releaseReservation
ReleaseReservation(i) ==
  /\ i \in DOMAIN reservations
  /\ reservations' = Drop(reservations, {i})
  /\ used' = used - reservations[i].bytes
  /\ UNCHANGED <<jobs, closed, now>>

NewJob(caps, docs, at, bytes) ==
  [status |-> "pending", received |-> at, expires |-> at + TTL,
   bytes |-> bytes, caps |-> caps, docs |-> docs]

\* Wrong: the reservation stays.
CommitKeepingReservation(i, caps, docs, at) ==
  /\ ~closed
  /\ i \in DOMAIN reservations
  /\ MakeRoom([k \in DOMAIN jobs \cup {i} |->
                 IF k = i THEN NewJob(caps, docs, at, reservations[i].bytes) ELSE jobs[k]],
              reservations, used)
  /\ UNCHANGED <<reservations, closed, now>>

\* commitReservation: the charge moves from the reservation to the job.
Commit(i, caps, docs, at) ==
  /\ ~closed
  /\ i \in DOMAIN reservations
  /\ LET rs == Drop(reservations, {i})
         js == [k \in DOMAIN jobs \cup {i} |->
                  IF k = i THEN NewJob(caps, docs, at, reservations[i].bytes)
                           ELSE jobs[k]]
     IN  /\ reservations' = rs
         /\ MakeRoom(js, rs, used)
  /\ UNCHANGED <<closed, now>>

\* Wrong: a charge that grew makes no room.
RechargeOnly(i, job, n) ==
  /\ jobs' = [jobs EXCEPT ![i] = [job EXCEPT !.bytes = n]]
  /\ used' = used + n - jobs[i].bytes

\* The record and the budget after charge(rec, n) of a job that becomes job.
Recharge(i, job, n) ==
  MakeRoom([jobs EXCEPT ![i] = [job EXCEPT !.bytes = n]],
           reservations, used + n - jobs[i].bytes)

\* SetStatus: a final state starts the download window and settles the charge.
SetStatus(i, status) ==
  /\ i \in DOMAIN jobs
  /\ jobs[i].status # "removed"
  /\ IF Finished(status)
     THEN Recharge(i, [jobs[i] EXCEPT !.status = status, !.expires = now + TTL],
                   DocBytes(jobs[i].docs))
     ELSE /\ jobs' = [jobs EXCEPT ![i].status = status]
          /\ UNCHANGED used
  /\ UNCHANGED <<reservations, closed, now>>

\* ReplaceDocument: OCR put a searchable copy in place of document d.
ReplaceDocument(i, d, size) ==
  /\ i \in DOMAIN jobs
  /\ d \in DOMAIN jobs[i].docs
  /\ LET docs == [jobs[i].docs EXCEPT ![d] = [size |-> size, ocr |-> TRUE]]
         job  == [jobs[i] EXCEPT !.docs = docs]
     IN  IF Finished(job.status)
         THEN Recharge(i, job, DocBytes(docs))
         ELSE /\ jobs' = [jobs EXCEPT ![i] = job]
              /\ UNCHANGED used
  /\ UNCHANGED <<reservations, closed, now>>

\* Wrong: the charge is kept.
DeleteUncharged(i) ==
  /\ i \in DOMAIN jobs
  /\ jobs' = Drop(jobs, {i})
  /\ UNCHANGED <<reservations, used, closed, now>>

Delete(i) ==
  /\ i \in DOMAIN jobs
  /\ jobs' = Drop(jobs, {i})
  /\ used' = used - jobs[i].bytes
  /\ UNCHANGED <<reservations, closed, now>>

\* Wrong: nobody looks for leaks.
NeverLeaked(at) == {}

\* The reservations neither committed nor aborted in time.
Leaked(at) == {i \in DOMAIN reservations : at - reservations[i].reservedAt > StaleAfter}

\* CleanExpired, with the clock reading it took before it locked.
CleanExpired(at) ==
  LET expired == {i \in DOMAIN jobs : ~Live(jobs[i], at)}
      leaked  == Leaked(at)
  IN  /\ jobs' = Drop(jobs, expired)
      /\ reservations' = Drop(reservations, leaked)
      /\ used' = used - Charged(jobs, expired) - Charged(reservations, leaked)
      /\ UNCHANGED <<closed, now>>

Close ==
  /\ ~closed
  /\ closed' = TRUE
  /\ jobs' = NoEntries
  /\ reservations' = NoEntries
  /\ used' = 0
  /\ UNCHANGED now

Tick ==
  /\ now < Horizon
  /\ now' = now + 1
  /\ UNCHANGED <<jobs, reservations, used, closed>>

-----------------------------------------------------------------------------
\* What the callers may hand to Commit: at least one document, no larger
\* together than the message they were taken from.
Committable ==
  {docs \in Documents :
     /\ DOMAIN docs # {}
     /\ \A d \in DOMAIN docs : ~docs[d].ocr
     /\ DocBytes(docs) <= MaxMessage}

\* A legal caller: it never takes back a final state.
LegalStatus(i, status) ==
  i \in DOMAIN jobs /\ Finished(jobs[i].status) => Finished(status)

Next ==
  \/ \E i \in Ids :
       \/ Reserve(i)
       \/ ReleaseReservation(i)
       \/ \E caps \in Caps, docs \in Committable, at \in Recent :
             Commit(i, caps, docs, at)
       \/ \E status \in {"processing", "ready", "failed"} :
             LegalStatus(i, status) /\ SetStatus(i, status)
       \/ \E d \in DocIds, size \in Sizes : ReplaceDocument(i, d, size)
       \/ Delete(i)
  \/ \E at \in Recent : CleanExpired(at)
  \/ Close
  \/ Tick

Spec == Init /\ [][Next]_storeVars

-----------------------------------------------------------------------------
(***************************************************************************)
(* Properties.                                                             *)
(***************************************************************************)

\* The running total `used`, which every operation adjusts by a difference, is
\* at all times the sum of what the records and the reservations are charged.
BudgetAccounting ==
  used = Charged(jobs, DOMAIN jobs) + Charged(reservations, DOMAIN reservations)

\* A scan that was removed early keeps neither documents nor a charge.
TombstonesHoldNothing ==
  \A i \in DOMAIN jobs :
     jobs[i].status = "removed" => jobs[i].bytes = 0 /\ jobs[i].docs = NoEntries

\* What cannot be evicted -- scans in the pipeline's hands and promises to open
\* transactions -- always fits the budget, so an admitted scan never finds at
\* Commit that there is no room to make.
PromisesFit ==
  Charged(jobs, UnfinishedIn(jobs)) + Charged(reservations, DOMAIN reservations)
    <= MaxBytes

\* After every critical section the committed jobs are within the budget, even
\* when OCR returned more than the reservation promised.
HeldFits == Charged(jobs, DOMAIN jobs) <= MaxBytes

\* The jobs a step evicts.
EvictedNow ==
  {i \in DOMAIN jobs' : /\ jobs'[i].status = "removed"
                        /\ i \in DOMAIN jobs => jobs[i].status # "removed"}

\* Only scans that were finished are evicted, or the scan this very step settles:
\* never one whose files the pipeline is still writing.
OnlyFinished ==
  \A i \in EvictedNow :
     \/ i \in FinishedIn(jobs)
     \/ \E status \in {"ready", "failed"} : SetStatus(i, status)

\* No evicted scan arrived after a finished scan that stays.
OldestFirst ==
  \A i \in EvictedNow, k \in DOMAIN jobs' :
     k # i /\ Finished(jobs'[k].status) /\ jobs'[k].bytes > 0
       => jobs'[i].received <= jobs'[k].received

\* With the youngest evicted scan put back the budget would be exceeded.  A
\* finished scan is charged what its documents occupy, and so is the one this
\* step settles; if it is the scan whose document grew, its new documents count.
NoMoreThanNeeded ==
  EvictedNow # {} =>
     \E last \in EvictedNow :
        /\ \A i \in EvictedNow : jobs[i].received <= jobs[last].received
        /\ LET held == Charged(jobs', DOMAIN jobs')
               docs == jobs[last].docs
           IN  \/ held + DocBytes(docs) > MaxBytes
               \/ \E d \in DocIds, size \in Sizes :
                    /\ ReplaceDocument(last, d, size)
                    /\ held + DocBytes([docs EXCEPT ![d] = [size |-> size, ocr |-> TRUE]])
                         > MaxBytes

\* Eviction takes finished scans only, the oldest first, and stops as soon as
\* the committed jobs fit: in particular nothing the pipeline still works on
\* gives way, and a promise to a transaction not yet committed evicts nothing.
EvictsInTurn == [][OnlyFinished /\ OldestFirst /\ NoMoreThanNeeded]_storeVars

\* The tombstone of an evicted scan stays, unchanged, until the moment the scan
\* would have expired anyway, unless the job is deleted or the store closed.
TombstoneKeepsDeadline ==
  [][\A i \in DOMAIN jobs :
       jobs[i].status = "removed" /\ now < jobs[i].expires
         => \/ i \in DOMAIN jobs' /\ jobs'[i] = jobs[i]
            \/ Delete(i)
            \/ Close]_storeVars
=============================================================================
