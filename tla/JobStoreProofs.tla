--------------------------- MODULE JobStoreProofs ---------------------------
(***************************************************************************)
(* The budget of the job store, proved for any ids, any budget, any sizes  *)
(* and any clock.  The argument: a message is admitted only if everything  *)
(* that cannot be evicted still fits (PromisesFit); so when a charge grows *)
(* or a reservation becomes a job, evicting finished jobs is always enough *)
(* (HeldFits), provided the running total is the true sum                  *)
(* (BudgetAccounting) and tombstones are free (TombstonesHoldNothing).     *)
(*                                                                         *)
(* The sums of byte counts come first, then the budget, then that          *)
(* tombstones stay and what each operation does to the jobs it is not      *)
(* about, which the proofs of the modules built on JobStore need; and at   *)
(* the end who is evicted, and that they are no more than needed.          *)
(***************************************************************************)
EXTENDS JobStore, FiniteSetTheorems, FunctionTheorems, TLAPS

-----------------------------------------------------------------------------
(***************************************************************************)
(* Sums of byte counts.                                                    *)
(***************************************************************************)
\* The byte units of finitely many counts are finitely many, so that the sum
\* is a natural number.
LEMMA TotalType ==
  ASSUME NEW D, IsFiniteSet(D), NEW f \in [D -> Nat]
  PROVE  IsFiniteSet(Units(f)) /\ Total(f) \in Nat
<1> DEFINE U == {{x} \X (1..f[x]) : x \in D}
           g == [x \in D |-> {x} \X (1..f[x])]
<1>1. IsFiniteSet(U)
  <2>1. g \in Surjection(D, U)
    BY DEF Surjection
  <2>2. QED BY <2>1, FS_Surjection
<1>2. ASSUME NEW T \in U PROVE IsFiniteSet(T)
  <2>1. PICK x \in D : T = {x} \X (1..f[x])
    BY <1>2
  <2>2. IsFiniteSet({x})
    BY FS_Singleton
  <2>3. f[x] \in Int
    OBVIOUS
  <2>4. IsFiniteSet(1..f[x])
    BY <2>3, FS_Interval
  <2>5. IsFiniteSet({x} \X (1..f[x]))
    BY <2>2, <2>4, FS_Product
  <2>6. QED BY <2>1, <2>5
<1>3. IsFiniteSet(UNION U)
  <2> HIDE DEF U
  <2> QED BY <1>1, <1>2, FS_UNION
<1>4. Units(f) = UNION U
  BY DEF Units
<1>5. QED
  BY <1>3, <1>4, FS_CardinalityType DEF Total

\* A sum is the sum over a part plus the sum over the rest.
LEMMA TotalSplit ==
  ASSUME NEW D, IsFiniteSet(D), NEW f \in [D -> Nat], NEW S \in SUBSET D
  PROVE  Total(f) = Total([x \in S |-> f[x]]) + Total([x \in D \ S |-> f[x]])
<1> DEFINE g == [x \in S |-> f[x]]
           h == [x \in D \ S |-> f[x]]
<1>1. IsFiniteSet(S) /\ IsFiniteSet(D \ S)
  BY FS_Subset, FS_Difference
<1>2. IsFiniteSet(Units(g)) /\ Total(g) \in Nat
  <2>1. g \in [S -> Nat]
    OBVIOUS
  <2> HIDE DEF g
  <2>2. QED BY <1>1, <2>1, TotalType
<1>3. IsFiniteSet(Units(h)) /\ Total(h) \in Nat
  <2>1. h \in [D \ S -> Nat]
    OBVIOUS
  <2> HIDE DEF h
  <2>2. QED BY <1>1, <2>1, TotalType
<1>4. Units(f) = Units(g) \cup Units(h)
  BY DEF Units
<1>5. Units(g) \cap Units(h) = {}
  BY DEF Units
<1> HIDE DEF g, h
<1>6. Cardinality(Units(g) \cup Units(h))
        = Cardinality(Units(g)) + Cardinality(Units(h))
            - Cardinality(Units(g) \cap Units(h))
  BY <1>2, <1>3, FS_Union
<1>7. Cardinality(Units(g) \cap Units(h)) = 0
  BY <1>5, FS_EmptySet
<1>8. Total(f) = Total(g) + Total(h)
  BY <1>2, <1>3, <1>4, <1>6, <1>7 DEF Total
<1>9. QED BY <1>8 DEF g, h

\* The sum over a single argument.
LEMMA TotalSingle ==
  ASSUME NEW x, NEW f, DOMAIN f = {x}, f[x] \in Nat
  PROVE  Total(f) = f[x]
<1>1. Units(f) = {x} \X (1..f[x])
  BY DEF Units
<1>2. IsFiniteSet({x}) /\ Cardinality({x}) = 1
  BY FS_Singleton
<1>3. IsFiniteSet(1..f[x]) /\ Cardinality(1..f[x]) = f[x]
  BY FS_Interval
<1>4. Cardinality({x} \X (1..f[x])) = 1 * f[x]
  BY <1>2, <1>3, FS_Product
<1>5. QED BY <1>1, <1>4 DEF Total

\* Zeros add up to zero.
LEMMA TotalZero ==
  ASSUME NEW f, \A x \in DOMAIN f : f[x] = 0
  PROVE  Total(f) = 0
<1>1. Units(f) = {}
  BY DEF Units
<1>2. QED BY <1>1, FS_EmptySet DEF Total

-----------------------------------------------------------------------------
\* The same facts, for the charges of records.
LEMMA ChargedType ==
  ASSUME NEW recs, NEW S, IsFiniteSet(S), \A i \in S : recs[i].bytes \in Nat
  PROVE  Charged(recs, S) \in Nat
<1> DEFINE f == [i \in S |-> recs[i].bytes]
<1>1. f \in [S -> Nat]
  OBVIOUS
<1> HIDE DEF f
<1>2. Total(f) \in Nat
  BY <1>1, TotalType
<1>3. QED BY <1>2 DEF f, Charged

LEMMA ChargedSplit ==
  ASSUME NEW recs, NEW S, IsFiniteSet(S), \A i \in S : recs[i].bytes \in Nat,
         NEW T \in SUBSET S
  PROVE  Charged(recs, S) = Charged(recs, T) + Charged(recs, S \ T)
<1> DEFINE f == [i \in S |-> recs[i].bytes]
<1>1. f \in [S -> Nat]
  OBVIOUS
<1>2. /\ [i \in T |-> f[i]] = [i \in T |-> recs[i].bytes]
      /\ [i \in S \ T |-> f[i]] = [i \in S \ T |-> recs[i].bytes]
  OBVIOUS
<1> HIDE DEF f
<1>3. Total(f) = Total([i \in T |-> f[i]]) + Total([i \in S \ T |-> f[i]])
  BY <1>1, TotalSplit
<1>4. QED BY <1>2, <1>3 DEF f, Charged

LEMMA ChargedOne ==
  ASSUME NEW recs, NEW i, recs[i].bytes \in Nat
  PROVE  Charged(recs, {i}) = recs[i].bytes
<1> DEFINE f == [k \in {i} |-> recs[k].bytes]
<1>1. DOMAIN f = {i} /\ f[i] = recs[i].bytes
  OBVIOUS
<1> HIDE DEF f
<1>2. Total(f) = f[i]
  BY <1>1, TotalSingle
<1>3. QED BY <1>1, <1>2 DEF f, Charged

LEMMA ChargedZero ==
  ASSUME NEW recs, NEW S, \A i \in S : recs[i].bytes = 0
  PROVE  Charged(recs, S) = 0
<1> DEFINE f == [i \in S |-> recs[i].bytes]
<1>1. \A i \in DOMAIN f : f[i] = 0
  OBVIOUS
<1> HIDE DEF f
<1>2. QED BY <1>1, TotalZero DEF f, Charged

\* Records with the same charges on S add up to the same on S.
LEMMA ChargedSame ==
  ASSUME NEW r1, NEW r2, NEW S, \A i \in S : r1[i].bytes = r2[i].bytes
  PROVE  Charged(r1, S) = Charged(r2, S)
<1>1. [i \in S |-> r1[i].bytes] = [i \in S |-> r2[i].bytes]
  OBVIOUS
<1>2. QED BY <1>1 DEF Charged

\* One more record adds its charge.
LEMMA ChargedAdd ==
  ASSUME NEW r1, NEW r2, NEW S, IsFiniteSet(S), NEW i, i \notin S,
         \A k \in S : r1[k].bytes \in Nat /\ r2[k].bytes = r1[k].bytes,
         r2[i].bytes \in Nat
  PROVE  Charged(r2, S \cup {i}) = Charged(r1, S) + r2[i].bytes
<1>1. IsFiniteSet(S \cup {i}) /\ \A k \in S \cup {i} : r2[k].bytes \in Nat
  BY FS_AddElement
<1>2. Charged(r2, S \cup {i}) = Charged(r2, {i}) + Charged(r2, (S \cup {i}) \ {i})
  BY <1>1, ChargedSplit
<1>3. (S \cup {i}) \ {i} = S
  OBVIOUS
<1>4. Charged(r2, {i}) = r2[i].bytes
  BY ChargedOne
<1>5. Charged(r1, S) \in Nat
  BY ChargedType
<1>6. Charged(r2, S) = Charged(r1, S)
  BY ChargedSame
<1>7. Charged(r2, S \cup {i}) = Charged(r2, {i}) + Charged(r2, S)
  BY <1>2, <1>3, Zenon
<1>8. QED BY <1>4, <1>5, <1>6, <1>7

\* Changing one charge changes the sum by the difference.
LEMMA ChargedChange ==
  ASSUME NEW r1, NEW r2, NEW S, IsFiniteSet(S), NEW i \in S,
         \A k \in S : r1[k].bytes \in Nat /\ r2[k].bytes \in Nat,
         \A k \in S \ {i} : r2[k].bytes = r1[k].bytes
  PROVE  Charged(r2, S) = Charged(r1, S) + r2[i].bytes - r1[i].bytes
<1>1. Charged(r1, S) = Charged(r1, {i}) + Charged(r1, S \ {i})
  BY ChargedSplit
<1>2. Charged(r2, S) = Charged(r2, {i}) + Charged(r2, S \ {i})
  BY ChargedSplit
<1>3. Charged(r1, {i}) = r1[i].bytes /\ Charged(r2, {i}) = r2[i].bytes
  BY ChargedOne
<1>4. IsFiniteSet(S \ {i})
  BY FS_Difference
<1>5. Charged(r1, S \ {i}) \in Nat
  BY <1>4, ChargedType
<1>6. Charged(r2, S \ {i}) = Charged(r1, S \ {i})
  BY ChargedSame
<1>7. QED BY <1>1, <1>2, <1>3, <1>5, <1>6

-----------------------------------------------------------------------------
(***************************************************************************)
(* The budget.                                                             *)
(***************************************************************************)
\* The inductive invariant: each conjunct needs the others.
IInv ==
  /\ TypeOK
  /\ BudgetAccounting
  /\ TombstonesHoldNothing
  /\ PromisesFit
  /\ HeldFits

\* The part of IInv about a set of jobs, of reservations and a total, whatever
\* they are: within a critical section it holds before room is made.
Typed(js, rs) ==
  /\ js \in [DOMAIN js -> Job]
  /\ IsFiniteSet(DOMAIN js)
  /\ DOMAIN js \subseteq Ids
  /\ rs \in [DOMAIN rs -> Reservation]
  /\ IsFiniteSet(DOMAIN rs)
  /\ DOMAIN rs \subseteq Ids \ DOMAIN js

Sound(js, rs, u) ==
  /\ Typed(js, rs)
  /\ u \in Nat
  /\ u = Charged(js, DOMAIN js) + Charged(rs, DOMAIN rs)
  /\ \A i \in DOMAIN js :
        js[i].status = "removed" => js[i].bytes = 0 /\ js[i].docs = NoEntries
  /\ Charged(js, UnfinishedIn(js)) + Charged(rs, DOMAIN rs) <= MaxBytes

LEMMA IInvIsSound ==
  IInv <=> /\ Sound(jobs, reservations, used)
           /\ HeldFits
           /\ closed \in BOOLEAN
           /\ now \in Nat
BY DEF IInv, Sound, Typed, TypeOK, BudgetAccounting, TombstonesHoldNothing,
       PromisesFit

LEMMA IInvNextIsSound ==
  IInv' <=> /\ Sound(jobs', reservations', used')
            /\ Charged(jobs', DOMAIN jobs') <= MaxBytes
            /\ closed' \in BOOLEAN
            /\ now' \in Nat
BY DEF IInv, Sound, Typed, TypeOK, BudgetAccounting, TombstonesHoldNothing,
       PromisesFit, HeldFits

-----------------------------------------------------------------------------
\* What a set of documents occupies is a number.
LEMMA DocBytesType ==
  ASSUME NEW docs \in Documents
  PROVE  DocBytes(docs) \in Nat
<1>1. PICK D \in SUBSET DocIds : docs \in [D -> Document]
  BY DEF Documents
<1>2. IsFiniteSet(D)
  BY <1>1, StoreAssumption, FS_Subset
<1> DEFINE f == [d \in D |-> docs[d].size]
<1>3. f \in [D -> Nat]
  BY <1>1, StoreAssumption DEF Document
<1>4. f = [d \in DOMAIN docs |-> docs[d].size]
  BY <1>1
<1> HIDE DEF f
<1>5. Total(f) \in Nat
  BY <1>2, <1>3, TotalType
<1>6. QED BY <1>4, <1>5 DEF DocBytes

LEMMA NoEntriesType == NoEntries \in Documents
<1>1. NoEntries \in [{} -> Document]
  BY DEF NoEntries
<1>2. QED BY <1>1 DEF Documents

\* The charges of typed records are numbers, and the charges of any set of
\* them too.
LEMMA ChargesTyped ==
  ASSUME NEW js, NEW rs, Typed(js, rs),
         NEW S \in SUBSET DOMAIN js, NEW T \in SUBSET DOMAIN rs
  PROVE  /\ Charged(js, S) \in Nat
         /\ Charged(rs, T) \in Nat
         /\ Charged(js, DOMAIN js) = Charged(js, S) + Charged(js, DOMAIN js \ S)
         /\ Charged(js, DOMAIN js \ S) \in Nat
         /\ Charged(rs, DOMAIN rs) = Charged(rs, T) + Charged(rs, DOMAIN rs \ T)
         /\ Charged(rs, DOMAIN rs \ T) \in Nat
<1>1. /\ \A i \in DOMAIN js : js[i].bytes \in Nat
      /\ \A i \in DOMAIN rs : rs[i].bytes \in Nat
  BY DEF Typed, Job, Reservation
<1>2. /\ IsFiniteSet(DOMAIN js) /\ IsFiniteSet(DOMAIN rs)
      /\ IsFiniteSet(S) /\ IsFiniteSet(T)
      /\ IsFiniteSet(DOMAIN js \ S) /\ IsFiniteSet(DOMAIN rs \ T)
  BY FS_Subset, FS_Difference DEF Typed
<1>3. Charged(js, S) \in Nat /\ Charged(js, DOMAIN js \ S) \in Nat
  BY <1>1, <1>2, ChargedType
<1>4. Charged(rs, T) \in Nat /\ Charged(rs, DOMAIN rs \ T) \in Nat
  BY <1>1, <1>2, ChargedType
<1>5. Charged(js, DOMAIN js) = Charged(js, S) + Charged(js, DOMAIN js \ S)
  BY <1>1, <1>2, ChargedSplit
<1>6. Charged(rs, DOMAIN rs) = Charged(rs, T) + Charged(rs, DOMAIN rs \ T)
  BY <1>1, <1>2, ChargedSplit
<1>7. QED BY <1>3, <1>4, <1>5, <1>6

\* The jobs that evicting frees, and those that it cannot touch.
LEMMA EvictedRecords ==
  ASSUME NEW js, NEW rs, Typed(js, rs), NEW evicted \in SUBSET Candidates(js)
  PROVE  /\ Typed(Evict(js, evicted), rs)
         /\ DOMAIN Evict(js, evicted) = DOMAIN js
         /\ evicted \subseteq DOMAIN js
         /\ UnfinishedIn(Evict(js, evicted)) = UnfinishedIn(js)
         /\ \A i \in evicted : /\ Evict(js, evicted)[i].status = "removed"
                               /\ Evict(js, evicted)[i].bytes = 0
                               /\ Evict(js, evicted)[i].docs = NoEntries
         /\ \A i \in DOMAIN js \ evicted : Evict(js, evicted)[i] = js[i]
<1> DEFINE ev == Evict(js, evicted)
<1>1. evicted \subseteq DOMAIN js
  BY DEF Candidates, FinishedIn
<1>2. DOMAIN ev = DOMAIN js
  BY DEF Evict
<1>3. \A i \in DOMAIN js \ evicted : ev[i] = js[i]
  BY DEF Evict
<1>4. \A i \in evicted :
         ev[i] = [js[i] EXCEPT !.status = "removed", !.bytes = 0, !.docs = NoEntries]
  BY <1>1 DEF Evict
<1>5. \A i \in DOMAIN js : js[i] \in Job
  BY DEF Typed
<1>6. ASSUME NEW i \in evicted
      PROVE  /\ ev[i] \in Job /\ ev[i].status = "removed"
             /\ ev[i].bytes = 0 /\ ev[i].docs = NoEntries
  <2> DEFINE j == js[i]
  <2>1. j \in Job /\ ev[i] = [j EXCEPT !.status = "removed", !.bytes = 0,
                                         !.docs = NoEntries]
    BY <1>1, <1>4, <1>5
  <2> HIDE DEF j, ev
  <2>2. ev[i] = [status |-> "removed", received |-> j.received,
                 expires |-> j.expires, bytes |-> 0, caps |-> j.caps,
                 docs |-> NoEntries]
    BY <2>1 DEF Job
  <2>3. /\ j.received \in Nat /\ j.expires \in Nat /\ j.caps \in Caps
        /\ "removed" \in Status
    BY <2>1 DEF Job, Status
  <2>4. QED BY <2>2, <2>3, NoEntriesType DEF Job
<1>7. Typed(ev, rs)
  <2>1. \A i \in DOMAIN js : ev[i] \in Job
    BY <1>3, <1>5, <1>6
  <2>2. ev \in [DOMAIN ev -> Job]
    BY <1>2, <2>1 DEF Evict
  <2> HIDE DEF ev
  <2>3. QED BY <1>2, <2>2 DEF Typed
<1>8. UnfinishedIn(ev) = UnfinishedIn(js)
  <2>1. \A i \in evicted : js[i].status \in {"ready", "failed"}
    BY DEF Candidates, FinishedIn, Finished
  <2> HIDE DEF ev
  <2>2. QED BY <1>1, <1>2, <1>3, <1>6, <2>1 DEF UnfinishedIn
<1> HIDE DEF ev
<1>9. QED BY <1>1, <1>2, <1>3, <1>6, <1>7, <1>8 DEF ev

\* makeRoomLocked restores the budget whenever what cannot be evicted fits.
LEMMA RoomIsMade ==
  ASSUME NEW js, NEW rs, NEW u, Sound(js, rs, u),
         NEW evicted \in SUBSET Candidates(js),
         Evicts(js, Held(u, rs), evicted)
  PROVE  /\ Sound(Evict(js, evicted), rs, u - Charged(js, evicted))
         /\ Charged(Evict(js, evicted), DOMAIN js) <= MaxBytes
         /\ DOMAIN Evict(js, evicted) = DOMAIN js
         /\ Charged(Evict(js, evicted), DOMAIN js) = Charged(js, DOMAIN js \ evicted)
         /\ Held(u, rs) = Charged(js, DOMAIN js)
<1> DEFINE ev == Evict(js, evicted)
           C(S) == Charged(js, S)
           P == Charged(rs, DOMAIN rs)
<1>1. /\ Typed(js, rs)
      /\ u = C(DOMAIN js) + P
      /\ C(UnfinishedIn(js)) + P <= MaxBytes
  BY DEF Sound
<1>2. /\ Typed(ev, rs) /\ DOMAIN ev = DOMAIN js /\ evicted \subseteq DOMAIN js
      /\ UnfinishedIn(ev) = UnfinishedIn(js)
      /\ \A i \in evicted : /\ ev[i].status = "removed"
                            /\ ev[i].bytes = 0 /\ ev[i].docs = NoEntries
      /\ \A i \in DOMAIN js \ evicted : ev[i] = js[i]
  BY <1>1, EvictedRecords
<1> HIDE DEF ev
<1>3. /\ C(evicted) \in Nat /\ C(DOMAIN js \ evicted) \in Nat /\ P \in Nat
      /\ C(DOMAIN js) = C(evicted) + C(DOMAIN js \ evicted)
  BY <1>1, <1>2, ChargesTyped
<1>4. Charged(ev, DOMAIN js) = C(DOMAIN js \ evicted)
  <2>1. Charged(ev, DOMAIN ev) = Charged(ev, evicted) + Charged(ev, DOMAIN ev \ evicted)
    BY <1>2, ChargesTyped
  <2>2. Charged(ev, evicted) = 0
    BY <1>2, ChargedZero
  <2>3. Charged(ev, DOMAIN js \ evicted) = C(DOMAIN js \ evicted)
    BY <1>2, ChargedSame
  <2>4. QED BY <1>2, <1>3, <2>1, <2>2, <2>3
<1>5. Charged(ev, UnfinishedIn(js)) = C(UnfinishedIn(js))
  <2>1. UnfinishedIn(js) \subseteq DOMAIN js \ evicted
    BY DEF Candidates, FinishedIn, Finished, UnfinishedIn
  <2>2. \A i \in UnfinishedIn(js) : ev[i].bytes = js[i].bytes
    BY <1>2, <2>1
  <2>3. QED BY <2>2, ChargedSame
<1>6. \A i \in DOMAIN ev :
         ev[i].status = "removed" => ev[i].bytes = 0 /\ ev[i].docs = NoEntries
  BY <1>2 DEF Sound
<1>7. Sound(ev, rs, u - C(evicted))
  BY <1>1, <1>2, <1>3, <1>4, <1>5, <1>6 DEF Sound
<1>8. Held(u, rs) = C(DOMAIN js)
  BY <1>1, <1>3 DEF Held
<1>9. C(DOMAIN js \ evicted) <= MaxBytes
  <2>1. CASE Held(u, rs) - C(evicted) <= MaxBytes
    BY <2>1, <1>3, <1>8
  <2>2. CASE evicted = Candidates(js)
    <3> DEFINE rest == DOMAIN js \ evicted
    <3>1. UnfinishedIn(js) \subseteq rest
      BY DEF Candidates, FinishedIn, Finished, UnfinishedIn
    <3>2. \A i \in rest \ UnfinishedIn(js) : js[i].bytes = 0
      <4>1. SUFFICES ASSUME NEW i \in rest \ UnfinishedIn(js), js[i].bytes # 0
                     PROVE  FALSE
        OBVIOUS
      <4>2. js[i].status \in Status /\ js[i].bytes \in Nat
        BY <1>1 DEF Typed, Job
      <4>3. js[i].status # "removed"
        BY <4>1 DEF Sound
      <4>4. Finished(js[i].status)
        BY <4>1, <4>2, <4>3 DEF Status, UnfinishedIn, Finished
      <4>5. i \in Candidates(js)
        BY <4>1, <4>2, <4>4 DEF Candidates, FinishedIn
      <4>6. QED BY <2>2, <4>1, <4>5
    <3>3. IsFiniteSet(rest) /\ \A i \in rest : js[i].bytes \in Nat
      BY <1>1, FS_Difference DEF Typed, Job
    <3>4. C(rest) = C(UnfinishedIn(js)) + C(rest \ UnfinishedIn(js))
      BY <3>1, <3>3, ChargedSplit
    <3>5. C(rest \ UnfinishedIn(js)) = 0
      BY <3>2, ChargedZero
    <3>6. C(UnfinishedIn(js)) \in Nat
      BY <1>1, ChargesTyped DEF UnfinishedIn
    <3>7. QED BY <1>1, <1>3, <3>4, <3>5, <3>6, StoreAssumption
  <2>3. QED BY <2>1, <2>2 DEF Evicts
<1>10. QED BY <1>2, <1>4, <1>7, <1>8, <1>9 DEF ev

\* Dropping jobs and reservations with their charges keeps the books.
LEMMA DropIsSound ==
  ASSUME NEW js, NEW rs, NEW u, Sound(js, rs, u),
         NEW S \in SUBSET DOMAIN js, NEW T \in SUBSET DOMAIN rs
  PROVE  /\ Sound(Drop(js, S), Drop(rs, T), u - Charged(js, S) - Charged(rs, T))
         /\ Charged(Drop(js, S), DOMAIN Drop(js, S)) <= Charged(js, DOMAIN js)
<1> DEFINE js2 == Drop(js, S)
           rs2 == Drop(rs, T)
<1>1. Typed(js, rs)
  BY DEF Sound
<1>2. /\ DOMAIN js2 = DOMAIN js \ S /\ DOMAIN rs2 = DOMAIN rs \ T
      /\ \A i \in DOMAIN js2 : js2[i] = js[i]
      /\ \A i \in DOMAIN rs2 : rs2[i] = rs[i]
  BY DEF Drop
<1>3. Typed(js2, rs2)
  <2>1. js2 \in [DOMAIN js2 -> Job] /\ rs2 \in [DOMAIN rs2 -> Reservation]
    BY <1>1, <1>2 DEF Drop, Typed
  <2>2. IsFiniteSet(DOMAIN js \ S) /\ IsFiniteSet(DOMAIN rs \ T)
    BY <1>1, FS_Difference DEF Typed
  <2> HIDE DEF js2, rs2
  <2>3. QED BY <1>1, <1>2, <2>1, <2>2 DEF Typed
<1> HIDE DEF js2, rs2
<1>4. /\ Charged(js, S) \in Nat
      /\ Charged(rs, T) \in Nat
      /\ Charged(js, DOMAIN js) = Charged(js, S) + Charged(js, DOMAIN js \ S)
      /\ Charged(js, DOMAIN js \ S) \in Nat
      /\ Charged(rs, DOMAIN rs) = Charged(rs, T) + Charged(rs, DOMAIN rs \ T)
      /\ Charged(rs, DOMAIN rs \ T) \in Nat
  BY <1>1, ChargesTyped, Zenon
<1>5. /\ Charged(js2, DOMAIN js2) = Charged(js, DOMAIN js \ S)
      /\ Charged(rs2, DOMAIN rs2) = Charged(rs, DOMAIN rs \ T)
  BY <1>2, ChargedSame
<1>6. Charged(js2, UnfinishedIn(js2)) <= Charged(js, UnfinishedIn(js))
  <2> DEFINE U == UnfinishedIn(js)
             V == UnfinishedIn(js2)
  <2>1. V \in SUBSET U /\ U \subseteq DOMAIN js
    BY <1>2 DEF UnfinishedIn
  <2>2. IsFiniteSet(U) /\ \A i \in U : js[i].bytes \in Nat
    BY <1>1, <2>1, FS_Subset DEF Typed, Job
  <2>3. IsFiniteSet(V) /\ IsFiniteSet(U \ V)
    BY <2>1, <2>2, FS_Subset, FS_Difference
  <2>4. \A i \in V : js2[i].bytes = js[i].bytes
    BY <1>2 DEF UnfinishedIn
  <2> HIDE DEF U, V
  <2>5. Charged(js, U) = Charged(js, V) + Charged(js, U \ V)
    BY <2>1, <2>2, ChargedSplit
  <2>6. Charged(js, V) \in Nat /\ Charged(js, U \ V) \in Nat
    BY <2>1, <2>2, <2>3, ChargedType
  <2>7. Charged(js2, V) = Charged(js, V)
    BY <2>4, ChargedSame
  <2>8. QED BY <2>5, <2>6, <2>7 DEF U, V
<1>7. Charged(js, UnfinishedIn(js)) \in Nat /\ Charged(js2, UnfinishedIn(js2)) \in Nat
  BY <1>1, <1>3, ChargesTyped DEF UnfinishedIn
<1>8. Sound(js2, rs2, u - Charged(js, S) - Charged(rs, T))
  <2>1. Charged(js2, UnfinishedIn(js2)) + Charged(rs2, DOMAIN rs2) <= MaxBytes
    BY <1>4, <1>5, <1>6, <1>7, StoreAssumption DEF Sound
  <2>2. \A i \in DOMAIN js2 :
           js2[i].status = "removed" => js2[i].bytes = 0 /\ js2[i].docs = NoEntries
    BY <1>2 DEF Sound
  <2>3. QED BY <1>3, <1>4, <1>5, <2>1, <2>2 DEF Sound
<1>9. QED BY <1>4, <1>5, <1>8 DEF js2, rs2

\* Changing one record and its charge keeps the books, as long as no job comes
\* back into the pipeline's hands or grows while it is there.
LEMMA ChangeIsSound ==
  ASSUME NEW js, NEW rs, NEW u, Sound(js, rs, u),
         NEW i \in DOMAIN js, NEW job \in Job, job.status # "removed",
         job.status \in {"pending", "processing"} =>
            i \in UnfinishedIn(js) /\ job.bytes = js[i].bytes
  PROVE  Sound([js EXCEPT ![i] = job], rs, u + job.bytes - js[i].bytes)
<1> DEFINE js2 == [js EXCEPT ![i] = job]
           U == UnfinishedIn(js)
           V == UnfinishedIn(js2)
<1>1. Typed(js, rs)
  BY DEF Sound
<1>2. /\ DOMAIN js2 = DOMAIN js /\ js2[i] = job
      /\ \A k \in DOMAIN js \ {i} : js2[k] = js[k]
  OBVIOUS
<1>3. Typed(js2, rs)
  <2>1. js2 \in [DOMAIN js2 -> Job]
    BY <1>1, <1>2 DEF Typed
  <2> HIDE DEF js2
  <2>2. QED BY <1>1, <1>2, <2>1 DEF Typed
<1> HIDE DEF js2
<1>4. /\ IsFiniteSet(DOMAIN js)
      /\ \A k \in DOMAIN js : js[k].bytes \in Nat /\ js2[k].bytes \in Nat
  BY <1>1, <1>2, <1>3 DEF Typed, Job
<1>5. Charged(js2, DOMAIN js2) = Charged(js, DOMAIN js) + job.bytes - js[i].bytes
  BY <1>2, <1>4, ChargedChange
<1>6. /\ Charged(js, DOMAIN js) \in Nat /\ Charged(rs, DOMAIN rs) \in Nat
      /\ Charged(js2, DOMAIN js2) \in Nat
      /\ Charged(js, U) \in Nat /\ Charged(js2, V) \in Nat
  BY <1>1, <1>3, ChargesTyped DEF UnfinishedIn
<1>7. Charged(js2, V) <= Charged(js, U)
  <2>1. V \in SUBSET U
    BY <1>2 DEF UnfinishedIn
  <2>2. \A k \in V : js2[k].bytes = js[k].bytes
    BY <1>2 DEF UnfinishedIn
  <2>3. IsFiniteSet(U) /\ \A k \in U : js[k].bytes \in Nat
    BY <1>4, FS_Subset DEF UnfinishedIn
  <2>4. IsFiniteSet(U \ V)
    BY <2>3, FS_Difference
  <2> HIDE DEF U, V
  <2>5. Charged(js, U) = Charged(js, V) + Charged(js, U \ V)
    BY <2>1, <2>3, ChargedSplit
  <2>6. Charged(js, U \ V) \in Nat
    BY <2>3, <2>4, ChargedType
  <2>7. Charged(js2, V) = Charged(js, V)
    BY <2>2, ChargedSame
  <2>8. QED BY <1>6, <2>5, <2>6, <2>7
<1>8. \A k \in DOMAIN js2 :
         js2[k].status = "removed" => js2[k].bytes = 0 /\ js2[k].docs = NoEntries
  BY <1>2 DEF Sound
<1>9. Charged(js2, V) + Charged(rs, DOMAIN rs) <= MaxBytes
  BY <1>6, <1>7, StoreAssumption DEF Sound
<1>10. u = Charged(js, DOMAIN js) + Charged(rs, DOMAIN rs)
  BY DEF Sound
<1>11. /\ u + job.bytes - js[i].bytes
             = Charged(js2, DOMAIN js2) + Charged(rs, DOMAIN rs)
       /\ u + job.bytes - js[i].bytes \in Nat
  <2>1. job.bytes \in Nat /\ js[i].bytes \in Nat
    BY <1>4 DEF Job
  <2>2. QED BY <1>5, <1>6, <1>10, <2>1
<1>12. Sound(js2, rs, u + job.bytes - js[i].bytes)
  BY <1>3, <1>8, <1>9, <1>11 DEF Sound
<1>13. QED BY <1>12 DEF js2

\* The end of a critical section that makes room.
LEMMA RoomStep ==
  ASSUME NEW js, NEW rs, NEW u, Sound(js, rs, u), MakeRoom(js, rs, u)
  PROVE  /\ Sound(jobs', rs, used')
         /\ Charged(jobs', DOMAIN jobs') <= MaxBytes
<1>1. PICK evicted \in SUBSET Candidates(js) :
         /\ Evicts(js, Held(u, rs), evicted)
         /\ jobs' = Evict(js, evicted)
         /\ used' = u - Charged(js, evicted)
  BY DEF MakeRoom
<1>2. /\ Sound(Evict(js, evicted), rs, u - Charged(js, evicted))
      /\ Charged(Evict(js, evicted), DOMAIN js) <= MaxBytes
      /\ DOMAIN Evict(js, evicted) = DOMAIN js
  BY <1>1, RoomIsMade
<1>3. QED BY <1>1, <1>2, Zenon

-----------------------------------------------------------------------------
\* One lemma per action.
LEMMA InitInv == Init => IInv
<1> SUFFICES ASSUME Init PROVE IInv
  OBVIOUS
<1>1. /\ DOMAIN jobs = {} /\ DOMAIN reservations = {}
      /\ jobs = NoEntries /\ reservations = NoEntries
  BY DEF Init, NoEntries
<1>2. TypeOK
  <2>1. jobs \in [{} -> Job] /\ reservations \in [{} -> Reservation]
    BY <1>1 DEF NoEntries
  <2>2. IsFiniteSet({})
    BY FS_EmptySet
  <2>3. QED BY <1>1, <2>1, <2>2 DEF Init, TypeOK
<1>3. /\ Charged(jobs, DOMAIN jobs) = 0 /\ Charged(jobs, UnfinishedIn(jobs)) = 0
      /\ Charged(reservations, DOMAIN reservations) = 0
  <2>1. \A i \in DOMAIN jobs : jobs[i].bytes = 0
    BY <1>1
  <2>2. \A i \in DOMAIN reservations : reservations[i].bytes = 0
    BY <1>1
  <2>3. \A i \in UnfinishedIn(jobs) : jobs[i].bytes = 0
    BY <1>1 DEF UnfinishedIn
  <2>4. QED BY <2>1, <2>2, <2>3, ChargedZero
<1>4. QED
  BY <1>1, <1>2, <1>3, StoreAssumption
     DEF Init, IInv, BudgetAccounting, TombstonesHoldNothing, PromisesFit, HeldFits

LEMMA ReserveInv ==
  ASSUME IInv, NEW i \in Ids, Reserve(i)
  PROVE  IInv'
<1> DEFINE rs == reservations'
           R == DOMAIN reservations
           C(S) == Charged(jobs, S)
<1>1. /\ Sound(jobs, reservations, used) /\ Typed(jobs, reservations)
      /\ closed \in BOOLEAN /\ now \in Nat
  BY IInvIsSound DEF Sound
<1>2. /\ DOMAIN rs = R \cup {i} /\ i \notin R
      /\ rs[i] = [bytes |-> MaxMessage, reservedAt |-> now]
      /\ \A k \in R : rs[k] = reservations[k]
  BY DEF Reserve
<1>3. Typed(jobs, rs)
  <2>1. IsFiniteSet(R \cup {i})
    BY <1>1, FS_AddElement DEF Typed
  <2>2. rs[i] \in Reservation
    BY <1>1, <1>2, StoreAssumption DEF Reservation
  <2>3. \A k \in R \cup {i} : rs[k] \in Reservation
    BY <1>1, <1>2, <2>2 DEF Typed
  <2>4. rs \in [R \cup {i} -> Reservation]
    BY <2>3 DEF Reserve
  <2>5. i \in Ids \ DOMAIN jobs
    BY DEF Reserve
  <2> HIDE DEF rs
  <2>6. QED BY <1>1, <1>2, <2>1, <2>4, <2>5 DEF Typed
<1>4. Charged(rs, DOMAIN rs) = Charged(reservations, R) + MaxMessage
  <2>1. /\ IsFiniteSet(R)
        /\ \A k \in R : reservations[k].bytes \in Nat /\ rs[k].bytes = reservations[k].bytes
        /\ rs[i].bytes = MaxMessage /\ MaxMessage \in Nat
    BY <1>1, <1>2, StoreAssumption DEF Typed, Reservation
  <2> HIDE DEF rs, R
  <2>2. Charged(rs, R \cup {i}) = Charged(reservations, R) + rs[i].bytes
    BY <1>2, <2>1, ChargedAdd
  <2>3. Charged(rs, DOMAIN rs) = Charged(rs, R \cup {i})
    BY <1>2, Zenon
  <2>4. QED BY <2>1, <2>2, <2>3
<1>5. /\ C(DOMAIN jobs) \in Nat /\ Charged(reservations, R) \in Nat
      /\ C(UnfinishedIn(jobs)) \in Nat /\ C(FinishedIn(jobs)) \in Nat
  BY <1>1, ChargesTyped DEF UnfinishedIn, FinishedIn
<1>6. C(DOMAIN jobs) = C(UnfinishedIn(jobs)) + C(FinishedIn(jobs))
  <2> DEFINE tombs == DOMAIN jobs \ UnfinishedIn(jobs)
  <2>1. C(DOMAIN jobs) = C(UnfinishedIn(jobs)) + C(tombs)
    BY <1>1, ChargesTyped DEF UnfinishedIn
  <2>2. FinishedIn(jobs) \in SUBSET tombs
    BY DEF FinishedIn, UnfinishedIn, Finished
  <2>3. IsFiniteSet(tombs) /\ \A k \in tombs : jobs[k].bytes \in Nat
    BY <1>1, FS_Difference DEF Typed, Job
  <2>4. \A k \in tombs \ FinishedIn(jobs) : jobs[k].bytes = 0
    <3>1. ASSUME NEW k \in tombs \ FinishedIn(jobs) PROVE jobs[k].status = "removed"
      <4>1. jobs[k].status \in Status
        BY <1>1 DEF Typed, Job
      <4>2. QED BY <4>1 DEF Status, FinishedIn, UnfinishedIn, Finished
    <3>2. QED BY <1>1, <3>1 DEF Sound
  <2> HIDE DEF tombs
  <2>5. C(tombs) = C(FinishedIn(jobs)) + C(tombs \ FinishedIn(jobs))
    BY <2>2, <2>3, ChargedSplit
  <2>6. C(tombs \ FinishedIn(jobs)) = 0
    BY <2>4, ChargedZero
  <2>7. QED BY <1>5, <2>1, <2>5, <2>6
<1> HIDE DEF rs, R
<1>7. Admits(MaxMessage) /\ used = C(DOMAIN jobs) + Charged(reservations, R)
  BY <1>1 DEF Reserve, Sound, R
<1>8. C(UnfinishedIn(jobs)) + Charged(rs, DOMAIN rs) <= MaxBytes
  BY <1>4, <1>5, <1>6, <1>7, StoreAssumption DEF Admits
<1>9. used' = used + MaxMessage
  BY DEF Reserve
<1>10. used' = C(DOMAIN jobs) + Charged(rs, DOMAIN rs) /\ used' \in Nat
  BY <1>4, <1>5, <1>7, <1>9, StoreAssumption
<1>11. Sound(jobs, rs, used')
  BY <1>1, <1>3, <1>8, <1>10 DEF Sound
<1>12. C(DOMAIN jobs) <= MaxBytes
  BY DEF IInv, HeldFits
<1>13. jobs' = jobs /\ closed' = closed /\ now' = now
  BY DEF Reserve
<1>14. Sound(jobs', rs, used') /\ Charged(jobs', DOMAIN jobs') <= MaxBytes
  BY <1>11, <1>12, <1>13, Zenon
<1>15. QED
  BY <1>1, <1>13, <1>14, IInvNextIsSound DEF rs

\* Dropping jobs and reservations, in one critical section.
LEMMA DropInv ==
  ASSUME IInv, NEW S \in SUBSET DOMAIN jobs, NEW T \in SUBSET DOMAIN reservations,
         jobs' = Drop(jobs, S), reservations' = Drop(reservations, T),
         used' = used - Charged(jobs, S) - Charged(reservations, T),
         closed' = closed, now' = now
  PROVE  IInv'
<1>1. /\ Sound(jobs, reservations, used)
      /\ closed \in BOOLEAN /\ now \in Nat
      /\ Charged(jobs, DOMAIN jobs) <= MaxBytes
  BY IInvIsSound DEF HeldFits
<1>2. /\ Sound(Drop(jobs, S), Drop(reservations, T),
               used - Charged(jobs, S) - Charged(reservations, T))
      /\ Charged(Drop(jobs, S), DOMAIN Drop(jobs, S)) <= Charged(jobs, DOMAIN jobs)
  BY <1>1, DropIsSound
<1>3. /\ Sound(jobs', reservations', used')
      /\ Charged(jobs', DOMAIN jobs') <= Charged(jobs, DOMAIN jobs)
  BY <1>2, Zenon
<1>4. /\ Charged(jobs', DOMAIN jobs') \in Nat /\ Charged(jobs, DOMAIN jobs) \in Nat
  BY <1>1, <1>3, ChargesTyped DEF Sound
<1>5. Charged(jobs', DOMAIN jobs') <= MaxBytes
  BY <1>1, <1>3, <1>4, StoreAssumption
<1>6. QED BY <1>1, <1>3, <1>5, IInvNextIsSound

\* The charges of at most one record.
LEMMA ChargesOfFew ==
  ASSUME IInv
  PROVE  /\ Charged(jobs, {}) = 0 /\ Charged(reservations, {}) = 0
         /\ \A i \in DOMAIN jobs : Charged(jobs, {i}) = jobs[i].bytes
         /\ \A i \in DOMAIN reservations :
               Charged(reservations, {i}) = reservations[i].bytes
         /\ Drop(jobs, {}) = jobs /\ Drop(reservations, {}) = reservations
         /\ used \in Nat
         /\ \A i \in DOMAIN jobs : jobs[i] \in Job /\ jobs[i].bytes \in Nat
         /\ \A i \in DOMAIN reservations : reservations[i].bytes \in Nat
<1>1. /\ \A i \in DOMAIN jobs : jobs[i] \in Job /\ jobs[i].bytes \in Nat
      /\ \A i \in DOMAIN reservations : reservations[i].bytes \in Nat
      /\ used \in Nat
  BY DEF IInv, TypeOK, Job, Reservation
<1>2. Drop(jobs, {}) = jobs /\ Drop(reservations, {}) = reservations
  BY DEF Drop, IInv, TypeOK
<1>3. Charged(jobs, {}) = 0 /\ Charged(reservations, {}) = 0
  BY ChargedZero
<1>4. QED BY <1>1, <1>2, <1>3, ChargedOne

LEMMA ReleaseInv ==
  ASSUME IInv, NEW i \in Ids, ReleaseReservation(i)
  PROVE  IInv'
<1>1. /\ jobs' = Drop(jobs, {})
      /\ reservations' = Drop(reservations, {i})
      /\ used' = used - Charged(jobs, {}) - Charged(reservations, {i})
      /\ closed' = closed /\ now' = now
      /\ {i} \in SUBSET DOMAIN reservations /\ {} \in SUBSET DOMAIN jobs
  BY ChargesOfFew DEF ReleaseReservation
<1>2. QED BY <1>1, DropInv

LEMMA DeleteInv ==
  ASSUME IInv, NEW i \in Ids, Delete(i)
  PROVE  IInv'
<1>1. /\ jobs' = Drop(jobs, {i})
      /\ reservations' = Drop(reservations, {})
      /\ used' = used - Charged(jobs, {i}) - Charged(reservations, {})
      /\ closed' = closed /\ now' = now
      /\ {i} \in SUBSET DOMAIN jobs /\ {} \in SUBSET DOMAIN reservations
  BY ChargesOfFew DEF Delete
<1>2. QED BY <1>1, DropInv

LEMMA CleanExpiredInv ==
  ASSUME IInv, NEW at \in Recent, CleanExpired(at)
  PROVE  IInv'
<1> DEFINE expired == {i \in DOMAIN jobs : ~Live(jobs[i], at)}
           leaked  == Leaked(at)
<1>1. /\ jobs' = Drop(jobs, expired)
      /\ reservations' = Drop(reservations, leaked)
      /\ used' = used - Charged(jobs, expired) - Charged(reservations, leaked)
      /\ closed' = closed /\ now' = now
      /\ expired \in SUBSET DOMAIN jobs /\ leaked \in SUBSET DOMAIN reservations
  BY DEF CleanExpired, Leaked
<1> HIDE DEF expired, leaked
<1>2. QED BY <1>1, DropInv

\* Recharging a job that stays in, or reaches, a final state.
LEMMA RechargeIsSound ==
  ASSUME IInv, NEW i \in DOMAIN jobs, NEW job, NEW n \in Nat,
         [job EXCEPT !.bytes = n] \in Job,
         [job EXCEPT !.bytes = n].bytes = n,
         Finished([job EXCEPT !.bytes = n].status)
  PROVE  Sound([jobs EXCEPT ![i] = [job EXCEPT !.bytes = n]], reservations,
               used + n - jobs[i].bytes)
<1> DEFINE new == [job EXCEPT !.bytes = n]
<1>1. Sound(jobs, reservations, used)
  BY IInvIsSound
<1>2. /\ new \in Job /\ new.bytes = n
      /\ new.status # "removed" /\ new.status \notin {"pending", "processing"}
  BY DEF Finished
<1> HIDE DEF new
<1>3. Sound([jobs EXCEPT ![i] = new], reservations, used + new.bytes - jobs[i].bytes)
  BY <1>1, <1>2, ChangeIsSound
<1>4. QED BY <1>2, <1>3 DEF new

LEMMA RechargeInv ==
  ASSUME IInv, NEW i \in DOMAIN jobs, NEW job, NEW n \in Nat,
         [job EXCEPT !.bytes = n] \in Job,
         [job EXCEPT !.bytes = n].bytes = n,
         Finished([job EXCEPT !.bytes = n].status),
         Recharge(i, job, n), reservations' = reservations,
         closed' = closed, now' = now
  PROVE  IInv'
<1> DEFINE js == [jobs EXCEPT ![i] = [job EXCEPT !.bytes = n]]
           u == used + n - jobs[i].bytes
<1>1. closed \in BOOLEAN /\ now \in Nat
  BY IInvIsSound
<1>2. MakeRoom(js, reservations, u)
  BY DEF Recharge
<1>3. Sound(js, reservations, u)
  BY RechargeIsSound
<1> HIDE DEF js, u
<1>4. Sound(jobs', reservations, used') /\ Charged(jobs', DOMAIN jobs') <= MaxBytes
  BY <1>2, <1>3, RoomStep
<1>5. QED BY <1>1, <1>4, IInvNextIsSound

\* Changing a job that stays in the pipeline's hands, at the same charge.
LEMMA SameChargeInv ==
  ASSUME IInv, NEW i \in UnfinishedIn(jobs), NEW job \in Job,
         job.status \in {"pending", "processing"}, job.bytes = jobs[i].bytes,
         jobs' = [jobs EXCEPT ![i] = job], used' = used,
         reservations' = reservations, closed' = closed, now' = now
  PROVE  IInv'
<1>1. /\ Sound(jobs, reservations, used)
      /\ closed \in BOOLEAN /\ now \in Nat
      /\ Charged(jobs, DOMAIN jobs) <= MaxBytes
      /\ i \in DOMAIN jobs
  BY IInvIsSound DEF HeldFits, UnfinishedIn
<1>2. used \in Nat /\ jobs[i].bytes \in Nat
  BY <1>1, ChargesOfFew
<1>3. Sound([jobs EXCEPT ![i] = job], reservations, used + job.bytes - jobs[i].bytes)
  BY <1>1, ChangeIsSound
<1>4. used + job.bytes - jobs[i].bytes = used'
  BY <1>2
<1>5. Sound(jobs', reservations', used')
  BY <1>3, <1>4, Zenon
<1>6. Charged(jobs', DOMAIN jobs') = Charged(jobs, DOMAIN jobs)
  <2> DEFINE js == jobs'
  <2>1. DOMAIN js = DOMAIN jobs
    OBVIOUS
  <2>2. js[i] = job /\ \A k \in DOMAIN jobs \ {i} : js[k] = jobs[k]
    BY <1>1
  <2> HIDE DEF js
  <2>3. \A k \in DOMAIN jobs : js[k].bytes = jobs[k].bytes
    BY <2>2
  <2>4. Charged(js, DOMAIN jobs) = Charged(jobs, DOMAIN jobs)
    BY <2>3, ChargedSame
  <2>5. QED BY <2>1, <2>4, Zenon DEF js
<1>7. QED BY <1>1, <1>5, <1>6, IInvNextIsSound

\* The jobs commitReservation makes room among.
WithJob(i, caps, docs, at) ==
  [k \in DOMAIN jobs \cup {i} |->
     IF k = i THEN NewJob(caps, docs, at, reservations[i].bytes) ELSE jobs[k]]

\* commitReservation: the new job takes over the reservation's charge.
LEMMA CommitIsSound ==
  ASSUME IInv, NEW i \in Ids, NEW caps \in Caps, NEW docs \in Documents,
         NEW at \in Nat, Commit(i, caps, docs, at)
  PROVE  /\ i \notin DOMAIN jobs
         /\ Sound(WithJob(i, caps, docs, at), Drop(reservations, {i}), used)
         /\ MakeRoom(WithJob(i, caps, docs, at), Drop(reservations, {i}), used)
         /\ WithJob(i, caps, docs, at)[i].status = "pending"
<1> DEFINE R == DOMAIN reservations
           D == DOMAIN jobs
           rs == Drop(reservations, {i})
           new == NewJob(caps, docs, at, reservations[i].bytes)
           js == [k \in D \cup {i} |-> IF k = i THEN new ELSE jobs[k]]
           P == Charged(reservations, R)
           Q == Charged(rs, DOMAIN rs)
           b == reservations[i].bytes
<1>1. /\ Sound(jobs, reservations, used) /\ Typed(jobs, reservations)
      /\ closed \in BOOLEAN /\ now \in Nat
  BY IInvIsSound DEF Sound
<1>2. /\ i \in R /\ i \notin D
      /\ reservations' = rs /\ MakeRoom(js, rs, used)
      /\ closed' = closed /\ now' = now
  BY <1>1 DEF Commit, Typed
<1>3. {i} \in SUBSET R /\ {} \in SUBSET D
  BY <1>2
<1>4. /\ Sound(Drop(jobs, {}), rs, used - Charged(jobs, {}) - Charged(reservations, {i}))
  BY <1>1, <1>3, DropIsSound
<1>5. /\ Charged(jobs, {}) = 0 /\ Charged(reservations, {i}) = b
      /\ Drop(jobs, {}) = jobs /\ used \in Nat /\ b \in Nat
  BY <1>2, ChargesOfFew
<1>6. used - Charged(jobs, {}) - Charged(reservations, {i}) = used - b
  BY <1>5
<1>7. Sound(jobs, rs, used - b)
  BY <1>4, <1>5, <1>6, Zenon
<1>8. new \in Job /\ new.bytes = b /\ new.status = "pending"
  <2>1. at + TTL \in Nat
    BY StoreAssumption
  <2>2. QED BY <1>5, <2>1 DEF NewJob, Job, Status
<1>9. /\ DOMAIN js = D \cup {i} /\ js[i] = new
      /\ \A k \in D : js[k] = jobs[k]
  BY <1>2
<1>10. Typed(js, rs)
  <2>1. \A k \in D \cup {i} : js[k] \in Job
    <3> HIDE DEF new
    <3>1. QED BY <1>1, <1>8, <1>9 DEF Typed
  <2>2. js \in [D \cup {i} -> Job]
    BY <2>1
  <2>3. IsFiniteSet(D \cup {i}) /\ D \cup {i} \subseteq Ids
    BY <1>1, FS_AddElement DEF Typed
  <2>4. DOMAIN rs \subseteq Ids \ (D \cup {i})
    BY <1>1 DEF Typed, Drop
  <2>5. rs \in [DOMAIN rs -> Reservation] /\ IsFiniteSet(DOMAIN rs)
    BY <1>7 DEF Sound, Typed
  <2> HIDE DEF js, rs, D
  <2>6. QED BY <1>9, <2>2, <2>3, <2>4, <2>5 DEF Typed
<1>11. IsFiniteSet(D) /\ \A k \in D : jobs[k].bytes \in Nat
  BY <1>1 DEF Typed, Job
<1> HIDE DEF js, new, D, R, rs, b
<1>12. Charged(js, DOMAIN js) = Charged(jobs, D) + b
  <2>1. Charged(js, D \cup {i}) = Charged(jobs, D) + js[i].bytes
    BY <1>2, <1>5, <1>8, <1>9, <1>11, ChargedAdd
  <2>2. Charged(js, DOMAIN js) = Charged(js, D \cup {i})
    BY <1>9, Zenon
  <2>3. js[i].bytes = b
    BY <1>8, <1>9
  <2>4. QED BY <2>1, <2>2, <2>3
<1>13. Charged(js, UnfinishedIn(js)) = Charged(jobs, UnfinishedIn(jobs)) + b
  <2> DEFINE U == UnfinishedIn(jobs)
  <2>1. UnfinishedIn(js) = U \cup {i}
    BY <1>2, <1>8, <1>9 DEF UnfinishedIn, D
  <2>2. U \subseteq D
    BY DEF UnfinishedIn, D
  <2>3. IsFiniteSet(U)
    BY <1>11, <2>2, FS_Subset
  <2> HIDE DEF U
  <2>4. Charged(js, U \cup {i}) = Charged(jobs, U) + js[i].bytes
    BY <1>2, <1>5, <1>8, <1>9, <1>11, <2>2, <2>3, ChargedAdd
  <2>5. Charged(js, UnfinishedIn(js)) = Charged(js, U \cup {i})
    BY <2>1, Zenon
  <2>6. js[i].bytes = b
    BY <1>8, <1>9
  <2>7. QED BY <2>4, <2>5, <2>6 DEF U
<1>14. P = b + Q
  <2>1. P = Charged(reservations, {i}) + Charged(reservations, R \ {i})
    <3>1. IsFiniteSet(R) /\ \A k \in R : reservations[k].bytes \in Nat
      BY <1>1 DEF Typed, Reservation, R
    <3>2. QED BY <1>3, <3>1, ChargedSplit
  <2>2. DOMAIN rs = R \ {i} /\ \A k \in DOMAIN rs : rs[k].bytes = reservations[k].bytes
    BY DEF rs, R, Drop
  <2>3. Charged(rs, DOMAIN rs) = Charged(reservations, DOMAIN rs)
    BY <2>2, ChargedSame
  <2>4. Charged(reservations, DOMAIN rs) = Charged(reservations, R \ {i})
    BY <2>2, Zenon
  <2>5. QED BY <1>5, <2>1, <2>3, <2>4
<1>15. /\ used = Charged(jobs, D) + P
       /\ Charged(jobs, UnfinishedIn(jobs)) + P <= MaxBytes
       /\ \A k \in D : jobs[k].status = "removed" =>
             jobs[k].bytes = 0 /\ jobs[k].docs = NoEntries
  BY <1>1 DEF Sound, D, R
<1>16. /\ Charged(jobs, D) \in Nat /\ Q \in Nat
       /\ Charged(jobs, UnfinishedIn(jobs)) \in Nat
  <2>1. UnfinishedIn(jobs) \in SUBSET DOMAIN jobs
    BY DEF UnfinishedIn
  <2>2. Q \in Nat
    BY <1>10, ChargesTyped
  <2>3. Charged(jobs, DOMAIN jobs) \in Nat /\ Charged(jobs, UnfinishedIn(jobs)) \in Nat
    BY <1>1, <2>1, ChargesTyped
  <2>4. QED BY <2>2, <2>3 DEF D
<1>17. Sound(js, rs, used)
  <2>1. used = Charged(js, DOMAIN js) + Q
    BY <1>5, <1>12, <1>14, <1>15, <1>16
  <2>2. Charged(js, UnfinishedIn(js)) + Q <= MaxBytes
    BY <1>5, <1>13, <1>14, <1>15, <1>16, StoreAssumption
  <2>3. \A k \in DOMAIN js :
           js[k].status = "removed" => js[k].bytes = 0 /\ js[k].docs = NoEntries
    BY <1>8, <1>9, <1>15
  <2>4. QED BY <1>5, <1>10, <2>1, <2>2, <2>3 DEF Sound
<1>18. js[i].status = "pending"
  BY <1>8, <1>9
<1>19. QED BY <1>2, <1>17, <1>18 DEF WithJob, js, new, rs, D

LEMMA CommitInv ==
  ASSUME IInv, NEW i \in Ids, NEW caps \in Caps, NEW docs \in Documents,
         NEW at \in Nat, Commit(i, caps, docs, at)
  PROVE  IInv'
<1>1. closed \in BOOLEAN /\ now \in Nat
  BY IInvIsSound
<1>2. reservations' = Drop(reservations, {i}) /\ closed' = closed /\ now' = now
  BY DEF Commit
<1>3. /\ Sound(jobs', Drop(reservations, {i}), used')
      /\ Charged(jobs', DOMAIN jobs') <= MaxBytes
  BY CommitIsSound, RoomStep
<1>4. QED BY <1>1, <1>2, <1>3, IInvNextIsSound

\* The record of a job that reaches a final state, charged for its documents.
LEMMA FinalRecord ==
  ASSUME IInv, NEW i \in DOMAIN jobs, NEW status \in {"ready", "failed"}
  PROVE  LET n   == DocBytes(jobs[i].docs)
             fin == [jobs[i] EXCEPT !.status = status, !.expires = now + TTL]
             new == [fin EXCEPT !.bytes = n]
         IN  /\ n \in Nat /\ new \in Job
             /\ new = [status |-> status, received |-> jobs[i].received,
                       expires |-> now + TTL, bytes |-> n,
                       caps |-> jobs[i].caps, docs |-> jobs[i].docs]
<1> DEFINE job == jobs[i]
           until == now + TTL
           n == DocBytes(job.docs)
           fin == [job EXCEPT !.status = status, !.expires = until]
           new == [fin EXCEPT !.bytes = n]
<1>1. job \in Job
  BY ChargesOfFew
<1>2. n \in Nat /\ until \in Nat
  BY <1>1, DocBytesType, StoreAssumption DEF Job, IInv, TypeOK
<1> HIDE DEF n
<1>3. fin = [job EXCEPT !.status = status, !.expires = until]
  OBVIOUS
<1> HIDE DEF job, until, fin
<1>4. fin = [status |-> status, received |-> job.received, expires |-> until,
             bytes |-> job.bytes, caps |-> job.caps, docs |-> job.docs]
  BY <1>1, <1>3 DEF Job
<1>5. new = [status |-> status, received |-> job.received, expires |-> until,
             bytes |-> n, caps |-> job.caps, docs |-> job.docs]
  BY <1>4
<1>6. /\ job.received \in Nat /\ job.caps \in Caps /\ job.docs \in Documents
      /\ status \in Status
  BY <1>1 DEF Job, Status
<1> HIDE DEF new
<1>7. new \in Job
  BY <1>2, <1>5, <1>6 DEF Job
<1>8. QED BY <1>2, <1>5, <1>7 DEF new, fin, n, until, job

LEMMA SetStatusInv ==
  ASSUME IInv, NEW i \in Ids, NEW status \in {"processing", "ready", "failed"},
         LegalStatus(i, status), SetStatus(i, status)
  PROVE  IInv'
<1>1. /\ i \in DOMAIN jobs /\ jobs[i] \in Job /\ jobs[i].status # "removed"
      /\ reservations' = reservations /\ closed' = closed /\ now' = now
      /\ now \in Nat
  BY ChargesOfFew DEF SetStatus, IInv, TypeOK
<1> DEFINE job == jobs[i]
<1>2. CASE Finished(status)
  <2> DEFINE fin == [job EXCEPT !.status = status, !.expires = now + TTL]
             n == DocBytes(job.docs)
             new == [fin EXCEPT !.bytes = n]
  <2>1. Recharge(i, fin, n)
    BY <1>2 DEF SetStatus
  <2>2. /\ n \in Nat /\ new \in Job
        /\ new = [status |-> status, received |-> job.received, expires |-> now + TTL,
                  bytes |-> n, caps |-> job.caps, docs |-> job.docs]
    BY <1>1, <1>2, FinalRecord DEF Finished
  <2> HIDE DEF n, fin
  <2>3. new.bytes = n /\ Finished(new.status)
    BY <1>2, <2>2
  <2>4. QED BY <1>1, <2>1, <2>2, <2>3, RechargeInv
<1>3. CASE ~Finished(status)
  <2> DEFINE new == [job EXCEPT !.status = status]
  <2>1. status = "processing"
    BY <1>3 DEF Finished
  <2>2. jobs' = [jobs EXCEPT ![i] = new] /\ used' = used
    BY <1>3 DEF SetStatus
  <2>3. new \in Job /\ new.status \in {"pending", "processing"} /\ new.bytes = job.bytes
    BY <1>1, <2>1 DEF Job, Status
  <2>4. ~Finished(job.status)
    BY <1>1, <1>3 DEF LegalStatus
  <2>5. i \in UnfinishedIn(jobs)
    BY <1>1, <2>4 DEF UnfinishedIn, Finished, Job, Status
  <2> HIDE DEF new
  <2>6. QED BY <1>1, <2>2, <2>3, <2>5, SameChargeInv
<1>4. QED BY <1>2, <1>3

\* A set of documents stays one when OCR replaces a document.
LEMMA ReplacedDocs ==
  ASSUME NEW docs \in Documents, NEW d \in DOMAIN docs, NEW size \in Sizes
  PROVE  [docs EXCEPT ![d] = [size |-> size, ocr |-> TRUE]] \in Documents
<1>1. PICK S \in SUBSET DocIds : docs \in [S -> Document]
  BY DEF Documents
<1>2. [size |-> size, ocr |-> TRUE] \in Document
  BY DEF Document
<1>3. [docs EXCEPT ![d] = [size |-> size, ocr |-> TRUE]] \in [S -> Document]
  BY <1>1, <1>2
<1>4. QED BY <1>3 DEF Documents

\* The record of a job whose document was replaced, at its old charge and
\* charged for the documents it then has.
LEMMA ReplacedRecord ==
  ASSUME IInv, NEW i \in DOMAIN jobs, NEW d \in DOMAIN jobs[i].docs, NEW size \in Sizes
  PROVE  LET docs == [jobs[i].docs EXCEPT ![d] = [size |-> size, ocr |-> TRUE]]
             job  == [jobs[i] EXCEPT !.docs = docs]
             n    == DocBytes(docs)
             new  == [job EXCEPT !.bytes = n]
         IN  /\ jobs[i].status # "removed"
             /\ n \in Nat /\ job \in Job /\ new \in Job
             /\ job.status = jobs[i].status /\ job.bytes = jobs[i].bytes
             /\ new.status = jobs[i].status /\ new.bytes = n
             /\ new.received = jobs[i].received /\ new.docs = docs
<1> DEFINE docs == [jobs[i].docs EXCEPT ![d] = [size |-> size, ocr |-> TRUE]]
           job == [jobs[i] EXCEPT !.docs = docs]
           n == DocBytes(docs)
           new == [job EXCEPT !.bytes = n]
<1>1. jobs[i] \in Job
  BY ChargesOfFew
<1>2. docs \in Documents
  BY <1>1, ReplacedDocs DEF Job
<1>3. n \in Nat
  BY <1>2, DocBytesType
<1> HIDE DEF docs, n
<1>4. /\ job \in Job /\ job.status = jobs[i].status /\ job.bytes = jobs[i].bytes
      /\ new \in Job /\ new.status = jobs[i].status /\ new.bytes = n
      /\ new.received = jobs[i].received /\ new.docs = docs
  BY <1>1, <1>2, <1>3 DEF Job
<1>5. jobs[i].status # "removed"
  BY DEF IInv, TombstonesHoldNothing, NoEntries
<1> HIDE DEF job, new
<1>6. QED BY <1>3, <1>4, <1>5 DEF new, job, n, docs

LEMMA ReplaceDocumentInv ==
  ASSUME IInv, NEW i \in Ids, NEW d \in DocIds, NEW size \in Sizes,
         ReplaceDocument(i, d, size)
  PROVE  IInv'
<1> DEFINE docs == [jobs[i].docs EXCEPT ![d] = [size |-> size, ocr |-> TRUE]]
           job == [jobs[i] EXCEPT !.docs = docs]
           n == DocBytes(docs)
           new == [job EXCEPT !.bytes = n]
<1>1. /\ i \in DOMAIN jobs /\ d \in DOMAIN jobs[i].docs /\ jobs[i] \in Job
      /\ reservations' = reservations /\ closed' = closed /\ now' = now
  BY ChargesOfFew DEF ReplaceDocument
<1>2. IF Finished(job.status)
      THEN Recharge(i, job, n)
      ELSE jobs' = [jobs EXCEPT ![i] = job] /\ used' = used
  BY DEF ReplaceDocument
<1>3. /\ jobs[i].status # "removed"
      /\ n \in Nat /\ job \in Job /\ new \in Job
      /\ job.status = jobs[i].status /\ job.bytes = jobs[i].bytes
      /\ new.status = jobs[i].status /\ new.bytes = n
      /\ new.received = jobs[i].received /\ new.docs = docs
  BY <1>1, ReplacedRecord, Zenon
<1> HIDE DEF docs, n, job
<1>4. CASE Finished(job.status)
  BY <1>1, <1>2, <1>3, <1>4, RechargeInv
<1>5. CASE ~Finished(job.status)
  <2>1. job.status \in {"pending", "processing"} /\ i \in UnfinishedIn(jobs)
    BY <1>1, <1>3, <1>5 DEF UnfinishedIn, Finished, Job, Status
  <2>2. QED BY <1>1, <1>2, <1>3, <1>5, <2>1, SameChargeInv
<1>6. QED BY <1>4, <1>5

LEMMA CloseInv ==
  ASSUME IInv, Close
  PROVE  IInv'
<1>1. jobs' = NoEntries /\ reservations' = NoEntries /\ used' = 0
      /\ closed' = TRUE /\ now' = now /\ now \in Nat
  BY DEF Close, IInv, TypeOK
<1>2. Sound(NoEntries, NoEntries, 0) /\ Charged(NoEntries, DOMAIN NoEntries) <= MaxBytes
  <2>1. DOMAIN NoEntries = {} /\ UnfinishedIn(NoEntries) = {}
    BY DEF NoEntries, UnfinishedIn
  <2>2. Charged(NoEntries, {}) = 0
    BY ChargedZero
  <2>3. /\ Charged(NoEntries, DOMAIN NoEntries) = 0
        /\ Charged(NoEntries, UnfinishedIn(NoEntries)) = 0
    BY <2>1, <2>2, Zenon
  <2>4. NoEntries \in [{} -> Job] /\ NoEntries \in [{} -> Reservation]
    BY DEF NoEntries
  <2>5. IsFiniteSet({})
    BY FS_EmptySet
  <2>6. Typed(NoEntries, NoEntries)
    BY <2>1, <2>4, <2>5 DEF Typed
  <2>7. \A k \in DOMAIN NoEntries : NoEntries[k].status = "removed" =>
           NoEntries[k].bytes = 0 /\ NoEntries[k].docs = NoEntries
    BY <2>1
  <2>8. QED BY <2>3, <2>6, <2>7, StoreAssumption DEF Sound
<1>3. QED BY <1>1, <1>2, IInvNextIsSound

LEMMA TickInv ==
  ASSUME IInv, Tick \/ UNCHANGED storeVars
  PROVE  IInv'
<1>1. /\ jobs' = jobs /\ reservations' = reservations /\ used' = used
      /\ closed' = closed
      /\ now' \in Nat
  BY DEF Tick, storeVars, IInv, TypeOK
<1>2. /\ Sound(jobs, reservations, used) /\ closed \in BOOLEAN
      /\ Charged(jobs, DOMAIN jobs) <= MaxBytes
  BY IInvIsSound DEF HeldFits
<1>3. QED BY <1>1, <1>2, IInvNextIsSound, Zenon

-----------------------------------------------------------------------------
LEMMA NextInv == IInv /\ [Next]_storeVars => IInv'
<1> SUFFICES ASSUME IInv, [Next]_storeVars PROVE IInv'
  OBVIOUS
<1>1. \A at \in Recent : at \in Nat
  BY DEF Recent, IInv, TypeOK
<1>2. \A docs \in Committable : docs \in Documents
  BY DEF Committable
<1>3. CASE Tick \/ UNCHANGED storeVars
  BY <1>3, TickInv
<1>4. ASSUME NEW i \in Ids, Reserve(i) PROVE IInv'
  BY <1>4, ReserveInv
<1>5. ASSUME NEW i \in Ids, ReleaseReservation(i) PROVE IInv'
  BY <1>5, ReleaseInv
<1>6. ASSUME NEW i \in Ids, NEW caps \in Caps, NEW docs \in Committable,
             NEW at \in Recent, Commit(i, caps, docs, at)
      PROVE  IInv'
  BY <1>1, <1>2, <1>6, CommitInv
<1>7. ASSUME NEW i \in Ids, NEW status \in {"processing", "ready", "failed"},
             LegalStatus(i, status), SetStatus(i, status)
      PROVE  IInv'
  BY <1>7, SetStatusInv
<1>8. ASSUME NEW i \in Ids, NEW d \in DocIds, NEW size \in Sizes,
             ReplaceDocument(i, d, size)
      PROVE  IInv'
  BY <1>8, ReplaceDocumentInv
<1>9. ASSUME NEW i \in Ids, Delete(i) PROVE IInv'
  BY <1>9, DeleteInv
<1>10. ASSUME NEW at \in Recent, CleanExpired(at) PROVE IInv'
  BY <1>10, CleanExpiredInv
<1>11. CASE Close
  BY <1>11, CloseInv
<1>12. QED
  BY <1>3, <1>4, <1>5, <1>6, <1>7, <1>8, <1>9, <1>10, <1>11 DEF Next

\* The invariant holds in every reachable state of the store.
THEOREM StoreInvariant == Spec => []IInv
<1>1. Init => IInv
  BY InitInv
<1>2. IInv /\ [Next]_storeVars => IInv'
  BY NextInv
<1>3. QED BY <1>1, <1>2, PTL DEF Spec

\* Every record stays well typed.
THEOREM TypeCorrect == Spec => []TypeOK
<1>1. IInv => TypeOK
  BY DEF IInv
<1>2. QED BY <1>1, StoreInvariant, PTL

\* The running total is the sum of the charges (store.go's s.used).
THEOREM AccountingIsExact == Spec => []BudgetAccounting
<1>1. IInv => BudgetAccounting
  BY DEF IInv
<1>2. QED BY <1>1, StoreInvariant, PTL

\* An admitted message always finds room at Commit.
THEOREM PromisesAreKept == Spec => []PromisesFit
<1>1. IInv => PromisesFit
  BY DEF IInv
<1>2. QED BY <1>1, StoreInvariant, PTL

\* The committed jobs never exceed the disk budget, whatever OCR returns.
THEOREM BudgetIsKept == Spec => []HeldFits
<1>1. IInv => HeldFits
  BY DEF IInv
<1>2. QED BY <1>1, StoreInvariant, PTL

-----------------------------------------------------------------------------
(***************************************************************************)
(* Eviction, and the jobs a step is not about.                             *)
(***************************************************************************)
\* A tombstone that has not reached its deadline.
Kept(i) == i \in DOMAIN jobs /\ jobs[i].status = "removed" /\ now < jobs[i].expires

\* Making room leaves alone whatever is no candidate.
LEMMA RoomKeepsTombstones ==
  ASSUME NEW js, NEW rs, NEW u, MakeRoom(js, rs, u),
         NEW i \in DOMAIN js, js[i].status = "removed"
  PROVE  i \in DOMAIN jobs' /\ jobs'[i] = js[i]
<1>1. PICK evicted \in SUBSET Candidates(js) : jobs' = Evict(js, evicted)
  BY DEF MakeRoom
<1>2. i \notin Candidates(js)
  BY DEF Candidates, FinishedIn, Finished
<1>3. i \notin evicted
  BY <1>2
<1>4. QED BY <1>1, <1>3 DEF Evict

LEMMA CommitKeepsTombstones ==
  ASSUME IInv, NEW i, Kept(i), NEW k \in Ids, NEW caps, NEW docs, NEW at,
         Commit(k, caps, docs, at)
  PROVE  i \in DOMAIN jobs' /\ jobs'[i] = jobs[i]
<1> DEFINE rs == Drop(reservations, {k})
           js == [n \in DOMAIN jobs \cup {k} |->
                    IF n = k THEN NewJob(caps, docs, at, reservations[k].bytes)
                             ELSE jobs[n]]
<1>1. MakeRoom(js, rs, used) /\ k \in DOMAIN reservations
  BY DEF Commit
<1>2. k # i
  BY <1>1 DEF Kept, IInv, TypeOK
<1>3. i \in DOMAIN js /\ js[i] = jobs[i]
  BY <1>2 DEF Kept
<1>4. js[i].status = "removed"
  BY <1>3 DEF Kept
<1> HIDE DEF js, rs
<1>5. i \in DOMAIN jobs' /\ jobs'[i] = js[i]
  BY <1>1, <1>3, <1>4, RoomKeepsTombstones
<1>6. QED BY <1>3, <1>5

LEMMA RechargeKeepsTombstones ==
  ASSUME NEW i, Kept(i), NEW k \in DOMAIN jobs \ {i}, NEW job, NEW n,
         Recharge(k, job, n)
  PROVE  i \in DOMAIN jobs' /\ jobs'[i] = jobs[i]
<1> DEFINE js == [jobs EXCEPT ![k] = [job EXCEPT !.bytes = n]]
<1>1. MakeRoom(js, reservations, used + n - jobs[k].bytes)
  BY DEF Recharge
<1>2. i \in DOMAIN js /\ js[i] = jobs[i]
  BY DEF Kept
<1>3. js[i].status = "removed"
  BY <1>2 DEF Kept
<1> HIDE DEF js
<1>4. i \in DOMAIN jobs' /\ jobs'[i] = js[i]
  BY <1>1, <1>2, <1>3, RoomKeepsTombstones
<1>5. QED BY <1>2, <1>4

LEMMA SetStatusKeepsTombstones ==
  ASSUME IInv, NEW i, Kept(i), NEW k \in Ids, NEW status, SetStatus(k, status)
  PROVE  i \in DOMAIN jobs' /\ jobs'[i] = jobs[i]
<1>1. k \in DOMAIN jobs \ {i}
  BY DEF SetStatus, Kept
<1>2. CASE Finished(status)
  <2> DEFINE job == [jobs[k] EXCEPT !.status = status, !.expires = now + TTL]
             n == DocBytes(jobs[k].docs)
  <2>1. Recharge(k, job, n)
    BY <1>2 DEF SetStatus
  <2> HIDE DEF job, n
  <2>2. QED BY <1>1, <2>1, RechargeKeepsTombstones
<1>3. CASE ~Finished(status)
  <2>1. jobs' = [jobs EXCEPT ![k].status = status]
    BY <1>3 DEF SetStatus
  <2>2. QED BY <1>1, <2>1 DEF Kept
<1>4. QED BY <1>2, <1>3

LEMMA ReplaceDocumentKeepsTombstones ==
  ASSUME IInv, NEW i, Kept(i), NEW k \in Ids, NEW d, NEW size,
         ReplaceDocument(k, d, size)
  PROVE  i \in DOMAIN jobs' /\ jobs'[i] = jobs[i]
<1> DEFINE docs == [jobs[k].docs EXCEPT ![d] = [size |-> size, ocr |-> TRUE]]
           job == [jobs[k] EXCEPT !.docs = docs]
           n == DocBytes(docs)
<1>1. k \in DOMAIN jobs /\ d \in DOMAIN jobs[k].docs
  BY DEF ReplaceDocument
\* A tombstone has no document to replace.
<1>2. k # i
  <2>1. jobs[i].docs = NoEntries
    BY DEF Kept, IInv, TombstonesHoldNothing
  <2>2. d \notin DOMAIN jobs[i].docs
    BY <2>1 DEF NoEntries
  <2>3. QED BY <1>1, <2>2
<1>3. CASE Finished(job.status)
  <2>1. Recharge(k, job, n)
    BY <1>3 DEF ReplaceDocument
  <2> HIDE DEF job, n, docs
  <2>2. QED BY <1>1, <1>2, <2>1, RechargeKeepsTombstones
<1>4. CASE ~Finished(job.status)
  <2>1. jobs' = [jobs EXCEPT ![k] = job]
    BY <1>4 DEF ReplaceDocument
  <2> HIDE DEF job
  <2>2. QED BY <1>1, <1>2, <2>1 DEF Kept
<1>5. QED BY <1>3, <1>4

LEMMA CleanExpiredKeepsTombstones ==
  ASSUME IInv, NEW i, Kept(i), NEW at \in Recent, CleanExpired(at)
  PROVE  i \in DOMAIN jobs' /\ jobs'[i] = jobs[i]
<1>1. at \in Nat /\ now \in Nat /\ at <= now
  BY DEF Recent, IInv, TypeOK
<1>2. jobs[i].expires \in Nat
  BY DEF Kept, IInv, TypeOK, Job
<1>3. at < jobs[i].expires
  BY <1>1, <1>2 DEF Kept
<1>4. Live(jobs[i], at)
  BY <1>3 DEF Live
<1>5. QED BY <1>4 DEF CleanExpired, Drop, Kept

LEMMA TombstoneStep ==
  ASSUME IInv, [Next]_storeVars, NEW i, Kept(i), ~Delete(i), ~Close
  PROVE  i \in DOMAIN jobs' /\ jobs'[i] = jobs[i]
<1>1. CASE UNCHANGED storeVars
  BY <1>1 DEF storeVars, Kept
<1>2. CASE Tick
  BY <1>2 DEF Tick, Kept
<1>3. ASSUME NEW k \in Ids, Reserve(k) \/ ReleaseReservation(k)
      PROVE  i \in DOMAIN jobs' /\ jobs'[i] = jobs[i]
  BY <1>3 DEF Reserve, ReleaseReservation, Kept
<1>4. ASSUME NEW k \in Ids, NEW caps \in Caps, NEW docs \in Committable,
             NEW at \in Recent, Commit(k, caps, docs, at)
      PROVE  i \in DOMAIN jobs' /\ jobs'[i] = jobs[i]
  BY <1>4, CommitKeepsTombstones
<1>5. ASSUME NEW k \in Ids, NEW status \in {"processing", "ready", "failed"},
             SetStatus(k, status)
      PROVE  i \in DOMAIN jobs' /\ jobs'[i] = jobs[i]
  BY <1>5, SetStatusKeepsTombstones
<1>6. ASSUME NEW k \in Ids, NEW d \in DocIds, NEW size \in Sizes,
             ReplaceDocument(k, d, size)
      PROVE  i \in DOMAIN jobs' /\ jobs'[i] = jobs[i]
  BY <1>6, ReplaceDocumentKeepsTombstones
<1>7. ASSUME NEW k \in Ids, Delete(k)
      PROVE  i \in DOMAIN jobs' /\ jobs'[i] = jobs[i]
  <2>1. k # i
    BY <1>7
  <2>2. QED BY <1>7, <2>1 DEF Delete, Drop, Kept
<1>8. ASSUME NEW at \in Recent, CleanExpired(at)
      PROVE  i \in DOMAIN jobs' /\ jobs'[i] = jobs[i]
  BY <1>8, CleanExpiredKeepsTombstones
<1>9. QED
  BY <1>1, <1>2, <1>3, <1>4, <1>5, <1>6, <1>7, <1>8 DEF Next

\* The entry of a scan that was removed early stays, unchanged, until the scan
\* would have expired anyway (store.go's StatusEvicted).
THEOREM TombstonesStay == Spec => TombstoneKeepsDeadline
<1> DEFINE A == \A i \in DOMAIN jobs :
                  jobs[i].status = "removed" /\ now < jobs[i].expires
                    => \/ i \in DOMAIN jobs' /\ jobs'[i] = jobs[i]
                       \/ Delete(i)
                       \/ Close
<1>1. IInv /\ [Next]_storeVars => [A]_storeVars
  BY TombstoneStep DEF Kept
<1> HIDE DEF A
<1>2. Spec => [][A]_storeVars
  BY <1>1, StoreInvariant, PTL DEF Spec
<1>3. QED BY <1>2 DEF TombstoneKeepsDeadline, A

-----------------------------------------------------------------------------
\* What a step does to the jobs it is not about: it keeps them, or evicts a
\* finished one.
KeptOrEvicted(k) ==
  /\ k \in DOMAIN jobs'
  /\ \/ jobs'[k] = jobs[k]
     \/ /\ k \in FinishedIn(jobs)
        /\ jobs'[k].status = "removed"
        /\ jobs'[k].docs = NoEntries
        /\ jobs'[k].caps = jobs[k].caps

LEMMA RoomKeepsOrEvicts ==
  ASSUME NEW js, NEW rs, NEW u, MakeRoom(js, rs, u),
         \A k \in DOMAIN js : js[k] \in Job
  PROVE  /\ DOMAIN jobs' = DOMAIN js
         /\ \A k \in DOMAIN js :
              \/ jobs'[k] = js[k]
              \/ /\ k \in FinishedIn(js)
                 /\ jobs'[k].status = "removed"
                 /\ jobs'[k].docs = NoEntries
                 /\ jobs'[k].caps = js[k].caps
<1>1. PICK evicted \in SUBSET Candidates(js) : jobs' = Evict(js, evicted)
  BY DEF MakeRoom
<1>2. DOMAIN jobs' = DOMAIN js
  BY <1>1 DEF Evict
<1>3. ASSUME NEW k \in DOMAIN js, k \notin evicted PROVE jobs'[k] = js[k]
  BY <1>1, <1>3 DEF Evict
<1>4. ASSUME NEW k \in DOMAIN js, k \in evicted
      PROVE  /\ k \in FinishedIn(js) /\ jobs'[k].status = "removed"
             /\ jobs'[k].docs = NoEntries /\ jobs'[k].caps = js[k].caps
  <2>1. k \in FinishedIn(js)
    BY <1>4 DEF Candidates
  <2>2. jobs'[k] = [js[k] EXCEPT !.status = "removed", !.bytes = 0, !.docs = NoEntries]
    BY <1>1, <1>4 DEF Evict
  <2>3. js[k] \in Job
    OBVIOUS
  <2>4. QED BY <2>1, <2>2, <2>3 DEF Job
<1>5. QED BY <1>2, <1>3, <1>4

LEMMA CommitJobs ==
  ASSUME IInv, NEW i \in Ids, NEW caps \in Caps, NEW docs \in Documents,
         NEW at \in Nat, Commit(i, caps, docs, at)
  PROVE  /\ i \notin DOMAIN jobs
         /\ DOMAIN jobs' = DOMAIN jobs \cup {i}
         /\ DOMAIN reservations' = DOMAIN reservations \ {i}
         /\ jobs'[i].status = "pending" /\ jobs'[i].docs = docs /\ jobs'[i].caps = caps
         /\ \A k \in DOMAIN jobs : KeptOrEvicted(k)
<1> DEFINE new == NewJob(caps, docs, at, reservations[i].bytes)
           js == [k \in DOMAIN jobs \cup {i} |-> IF k = i THEN new ELSE jobs[k]]
           rs == Drop(reservations, {i})
<1>1. /\ i \in DOMAIN reservations
      /\ reservations' = rs
      /\ MakeRoom(js, rs, used)
  BY DEF Commit
<1>2. i \notin DOMAIN jobs
  BY <1>1 DEF IInv, TypeOK
<1>3. DOMAIN reservations' = DOMAIN reservations \ {i}
  BY <1>1 DEF Drop
<1>4. /\ new \in Job /\ new.status = "pending" /\ new.docs = docs /\ new.caps = caps
  <2>1. reservations[i].bytes \in Nat
    BY <1>1, ChargesOfFew
  <2>2. at + TTL \in Nat
    BY StoreAssumption
  <2>3. QED BY <2>1, <2>2 DEF NewJob, Job, Status
<1> HIDE DEF new
<1>5. DOMAIN js = DOMAIN jobs \cup {i} /\ js[i] = new /\ \A k \in DOMAIN jobs : js[k] = jobs[k]
  BY <1>2
<1>6. \A k \in DOMAIN js : js[k] \in Job
  BY <1>4, <1>5, ChargesOfFew
<1> HIDE DEF js, rs
<1>7. /\ DOMAIN jobs' = DOMAIN js
      /\ \A k \in DOMAIN js :
           \/ jobs'[k] = js[k]
           \/ /\ k \in FinishedIn(js)
              /\ jobs'[k].status = "removed"
              /\ jobs'[k].docs = NoEntries
              /\ jobs'[k].caps = js[k].caps
  BY <1>1, <1>6, RoomKeepsOrEvicts
<1>8. jobs'[i] = new
  BY <1>4, <1>5, <1>7 DEF FinishedIn, Finished
<1>9. ASSUME NEW k \in DOMAIN jobs PROVE KeptOrEvicted(k)
  BY <1>5, <1>7 DEF KeptOrEvicted, FinishedIn
<1>10. QED BY <1>2, <1>3, <1>4, <1>5, <1>7, <1>8, <1>9

LEMMA SetStatusJobs ==
  ASSUME IInv, NEW i \in Ids, NEW status \in {"processing", "ready", "failed"},
         SetStatus(i, status)
  PROVE  /\ i \in DOMAIN jobs /\ jobs[i].status # "removed"
         /\ DOMAIN jobs' = DOMAIN jobs
         /\ reservations' = reservations
         /\ jobs'[i].caps = jobs[i].caps
         /\ \/ jobs'[i].status = status /\ jobs'[i].docs = jobs[i].docs
            \/ /\ Finished(status)
               /\ jobs'[i].status = "removed" /\ jobs'[i].docs = NoEntries
         /\ \A k \in DOMAIN jobs \ {i} : KeptOrEvicted(k)
<1>1. /\ i \in DOMAIN jobs /\ jobs[i].status # "removed"
      /\ reservations' = reservations
      /\ \A k \in DOMAIN jobs : jobs[k] \in Job
  BY ChargesOfFew DEF SetStatus
<1>2. CASE ~Finished(status)
  <2>1. jobs' = [jobs EXCEPT ![i].status = status]
    BY <1>2 DEF SetStatus
  <2>2. jobs'[i] = [jobs[i] EXCEPT !.status = status]
    BY <1>1, <2>1
  <2>3. /\ jobs'[i].status = status /\ jobs'[i].docs = jobs[i].docs
        /\ jobs'[i].caps = jobs[i].caps
    BY <1>1, <2>2 DEF Job
  <2>4. QED BY <1>1, <2>1, <2>3 DEF KeptOrEvicted
<1>3. CASE Finished(status)
  <2> DEFINE n == DocBytes(jobs[i].docs)
             new == [[jobs[i] EXCEPT !.status = status, !.expires = now + TTL]
                        EXCEPT !.bytes = n]
             js == [jobs EXCEPT ![i] = new]
             u == used + n - jobs[i].bytes
  <2>1. MakeRoom(js, reservations, u)
    BY <1>3 DEF SetStatus, Recharge
  <2>2. /\ n \in Nat /\ new \in Job
        /\ new = [status |-> status, received |-> jobs[i].received, expires |-> now + TTL,
                  bytes |-> n, caps |-> jobs[i].caps, docs |-> jobs[i].docs]
    BY <1>1, <1>3, FinalRecord DEF Finished
  <2> HIDE DEF n, u
  <2>4. /\ new \in Job /\ new.status = status /\ new.docs = jobs[i].docs
        /\ new.caps = jobs[i].caps
    BY <2>2
  <2> HIDE DEF new
  <2>5. /\ DOMAIN js = DOMAIN jobs /\ js[i] = new
        /\ \A k \in DOMAIN jobs \ {i} : js[k] = jobs[k]
    BY <1>1
  <2>6. \A k \in DOMAIN js : js[k] \in Job
    BY <1>1, <2>4, <2>5
  <2> HIDE DEF js
  <2>7. /\ DOMAIN jobs' = DOMAIN js
        /\ \A k \in DOMAIN js :
             \/ jobs'[k] = js[k]
             \/ /\ k \in FinishedIn(js)
                /\ jobs'[k].status = "removed"
                /\ jobs'[k].docs = NoEntries
                /\ jobs'[k].caps = js[k].caps
    BY <2>1, <2>6, RoomKeepsOrEvicts
  <2>8. \A k \in DOMAIN jobs \ {i} : KeptOrEvicted(k)
    BY <2>5, <2>7 DEF KeptOrEvicted, FinishedIn
  <2>9. QED BY <1>1, <1>3, <2>4, <2>5, <2>7, <2>8
<1>4. QED BY <1>2, <1>3

LEMMA ReplaceDocumentJobs ==
  ASSUME IInv, NEW i \in Ids, NEW d \in DocIds, NEW size \in Sizes,
         ReplaceDocument(i, d, size), i \in UnfinishedIn(jobs)
  PROVE  /\ i \in DOMAIN jobs /\ d \in DOMAIN jobs[i].docs
         /\ DOMAIN jobs' = DOMAIN jobs
         /\ reservations' = reservations
         /\ jobs'[i].status = jobs[i].status /\ jobs'[i].caps = jobs[i].caps
         /\ jobs'[i].docs = [jobs[i].docs EXCEPT ![d] = [size |-> size, ocr |-> TRUE]]
         /\ \A k \in DOMAIN jobs \ {i} : jobs'[k] = jobs[k]
<1> DEFINE docs == [jobs[i].docs EXCEPT ![d] = [size |-> size, ocr |-> TRUE]]
           job == [jobs[i] EXCEPT !.docs = docs]
<1>1. /\ i \in DOMAIN jobs /\ d \in DOMAIN jobs[i].docs /\ reservations' = reservations
      /\ jobs[i] \in Job
  BY ChargesOfFew DEF ReplaceDocument
<1>2. job.status = jobs[i].status /\ job.caps = jobs[i].caps /\ job.docs = docs
  BY <1>1 DEF Job
<1>3. ~Finished(job.status)
  BY <1>2 DEF UnfinishedIn, Finished
<1>4. jobs' = [jobs EXCEPT ![i] = job]
  BY <1>3 DEF ReplaceDocument
<1> HIDE DEF job, docs
<1>5. /\ DOMAIN jobs' = DOMAIN jobs /\ jobs'[i] = job
      /\ \A k \in DOMAIN jobs \ {i} : jobs'[k] = jobs[k]
  BY <1>1, <1>4
<1>6. QED BY <1>1, <1>2, <1>5 DEF docs

\* The sweep takes no job that is still in the pipeline's hands.
LEMMA CleanExpiredJobs ==
  ASSUME NEW at, CleanExpired(at)
  PROVE  /\ DOMAIN jobs' \subseteq DOMAIN jobs
         /\ DOMAIN reservations' \subseteq DOMAIN reservations
         /\ \A k \in DOMAIN jobs' : jobs'[k] = jobs[k]
         /\ UnfinishedIn(jobs) \subseteq DOMAIN jobs'
         /\ now' = now /\ closed' = closed
BY DEF CleanExpired, Drop, Live, UnfinishedIn


-----------------------------------------------------------------------------
(***************************************************************************)
(* Who is evicted, and how many.                                           *)
(***************************************************************************)
\* A job in a final state is charged for what its documents occupy.
SettledCharges == \A i \in FinishedIn(jobs) : jobs[i].bytes = DocBytes(jobs[i].docs)

TurnInv == IInv /\ SettledCharges

\* Nothing in a final state is new, or it is charged for its documents.
LEMMA RoomSettles ==
  ASSUME NEW js, NEW rs, NEW u, MakeRoom(js, rs, u),
         \A k \in FinishedIn(js) : js[k].bytes = DocBytes(js[k].docs),
         \A k \in DOMAIN js : js[k] \in Job
  PROVE  SettledCharges'
<1>1. DOMAIN jobs' = DOMAIN js /\ \A k \in DOMAIN js : jobs'[k] = js[k] \/ jobs'[k].status = "removed"
  BY RoomKeepsOrEvicts
<1>2. ASSUME NEW k \in DOMAIN jobs', Finished(jobs'[k].status)
      PROVE  jobs'[k].bytes = DocBytes(jobs'[k].docs)
  <2>1. jobs'[k] = js[k] /\ k \in FinishedIn(js)
    BY <1>1, <1>2 DEF Finished, FinishedIn
  <2>2. js[k].bytes = DocBytes(js[k].docs)
    BY <2>1
  <2> QED BY <2>1, <2>2
<1>3. \A k \in FinishedIn(jobs)' : k \in DOMAIN jobs' /\ Finished(jobs'[k].status)
  BY DEF FinishedIn
<1> QED BY <1>2, <1>3 DEF SettledCharges

\* What room was made by: the oldest candidates, no more of them than needed.
LEMMA RoomInTurn ==
  ASSUME NEW js, NEW rs, NEW u, Sound(js, rs, u), MakeRoom(js, rs, u)
  PROVE  \E evicted \in SUBSET Candidates(js) :
           /\ jobs' = Evict(js, evicted)
           /\ \A i \in evicted, k \in Candidates(js) \ evicted : js[i].received <= js[k].received
           /\ evicted # {} =>
                \E last \in evicted :
                   /\ \A i \in evicted : js[i].received <= js[last].received
                   /\ Charged(jobs', DOMAIN jobs') + js[last].bytes > MaxBytes
<1> DEFINE C(S) == Charged(js, S)
           D == DOMAIN js
<1>1. PICK evicted \in SUBSET Candidates(js) :
        Evicts(js, Held(u, rs), evicted) /\ jobs' = Evict(js, evicted)
  BY DEF MakeRoom
<1>2. /\ Charged(jobs', DOMAIN jobs') = C(D \ evicted)
      /\ Held(u, rs) = C(D)
  <2>1. /\ DOMAIN Evict(js, evicted) = D
        /\ Charged(Evict(js, evicted), D) = C(D \ evicted)
        /\ Held(u, rs) = C(D)
    BY <1>1, RoomIsMade
  <2> QED BY <1>1, <2>1, Zenon
<1>3. ASSUME NEW last \in evicted, C(D) - C(evicted \ {last}) > MaxBytes
      PROVE  Charged(jobs', DOMAIN jobs') + js[last].bytes > MaxBytes
  <2>1. Typed(js, rs) /\ evicted \in SUBSET D
    BY DEF Sound, Candidates, FinishedIn
  <2>2. /\ C(evicted) \in Nat /\ C(D \ evicted) \in Nat
        /\ C(D) = C(evicted) + C(D \ evicted)
    BY <2>1, ChargesTyped
  <2>3. /\ IsFiniteSet(evicted) /\ IsFiniteSet(evicted \ {last})
        /\ \A i \in evicted : js[i].bytes \in Nat
    BY <2>1, FS_Subset, FS_Difference DEF Typed, Job
  <2>4. C(evicted) = C({last}) + C(evicted \ {last})
    BY <2>3, ChargedSplit
  <2>5. C({last}) = js[last].bytes /\ js[last].bytes \in Nat
    BY <2>3, ChargedOne
  <2>6. C(evicted \ {last}) \in Nat
    BY <2>3, ChargedType
  <2> QED BY <1>2, <1>3, <2>2, <2>4, <2>5, <2>6
<1>4. evicted # {} =>
        \E last \in evicted :
           /\ \A i \in evicted : js[i].received <= js[last].received
           /\ C(D) - C(evicted \ {last}) > MaxBytes
  BY <1>1, <1>2 DEF Evicts
<1>5. \A i \in evicted, k \in Candidates(js) \ evicted : js[i].received <= js[k].received
  BY <1>1 DEF Evicts
<1> HIDE DEF D
<1> QED BY <1>1, <1>3, <1>4, <1>5

\* A critical section that changes one job and then makes room evicts in turn,
\* among the jobs that were there before.
LEMMA TurnIsKept ==
  ASSUME NEW i, NEW js, NEW rs, NEW u, Sound(js, rs, u), MakeRoom(js, rs, u),
         DOMAIN js = DOMAIN jobs \cup {i},
         \A k \in DOMAIN jobs \ {i} : js[k] = jobs[k],
         js[i].status # "removed",
         IF i \in DOMAIN jobs
         THEN jobs[i].status # "removed" /\ js[i].received = jobs[i].received
         ELSE ~Finished(js[i].status)
  PROVE  /\ OldestFirst
         /\ EvictedNow # {} =>
              \E last \in EvictedNow :
                 /\ \A k \in EvictedNow : jobs[k].received <= jobs[last].received
                 /\ Charged(jobs', DOMAIN jobs') + js[last].bytes > MaxBytes
         /\ \A k \in EvictedNow : k \in DOMAIN jobs /\ Finished(js[k].status)
<1>1. PICK evicted \in SUBSET Candidates(js) :
        /\ jobs' = Evict(js, evicted)
        /\ \A k \in evicted, n \in Candidates(js) \ evicted : js[k].received <= js[n].received
        /\ evicted # {} =>
             \E last \in evicted :
                /\ \A k \in evicted : js[k].received <= js[last].received
                /\ Charged(jobs', DOMAIN jobs') + js[last].bytes > MaxBytes
  BY RoomInTurn
<1>2. /\ DOMAIN jobs' = DOMAIN js /\ evicted \subseteq DOMAIN js
      /\ \A k \in evicted : jobs'[k].status = "removed" /\ jobs'[k].received = js[k].received
      /\ \A k \in DOMAIN js \ evicted : jobs'[k] = js[k]
  <2>1. Typed(js, rs)
    BY DEF Sound
  <2>2. /\ DOMAIN Evict(js, evicted) = DOMAIN js /\ evicted \subseteq DOMAIN js
        /\ \A k \in evicted : Evict(js, evicted)[k].status = "removed"
        /\ \A k \in DOMAIN js \ evicted : Evict(js, evicted)[k] = js[k]
    BY <2>1, EvictedRecords
  <2>3. ASSUME NEW k \in evicted
        PROVE  Evict(js, evicted)[k].received = js[k].received
    <3>1. js[k] \in Job /\ k \in DOMAIN js
      BY <2>1, <2>2 DEF Typed
    <3>2. Evict(js, evicted)[k]
            = [js[k] EXCEPT !.status = "removed", !.bytes = 0, !.docs = NoEntries]
      BY <3>1 DEF Evict
    <3> QED BY <3>1, <3>2 DEF Job
  <2> QED BY <1>1, <2>2, <2>3
<1>3. \A k \in evicted : Finished(js[k].status)
  BY DEF Candidates, FinishedIn
<1>4. evicted \subseteq DOMAIN jobs
  BY <1>2, <1>3
<1>5. \A k \in evicted : jobs[k].status # "removed" /\ jobs[k].received = js[k].received
  BY <1>3, <1>4 DEF Finished
<1>6. EvictedNow = evicted
  <2>1. evicted \subseteq EvictedNow
    BY <1>2, <1>5 DEF EvictedNow
  <2>2. ASSUME NEW k \in EvictedNow, k \notin evicted
        PROVE  FALSE
    <3>1. k \in DOMAIN js /\ js[k].status = "removed"
      BY <1>2, <2>2 DEF EvictedNow
    <3>2. k # i /\ k \in DOMAIN jobs /\ js[k] = jobs[k]
      BY <3>1
    <3> QED BY <2>2, <3>1, <3>2 DEF EvictedNow
  <2> QED BY <2>1, <2>2
<1>7. OldestFirst
  <2> SUFFICES ASSUME NEW k \in evicted, NEW n \in DOMAIN jobs', n # k,
                      Finished(jobs'[n].status), jobs'[n].bytes > 0
               PROVE  jobs'[k].received <= jobs'[n].received
    BY <1>6 DEF OldestFirst
  <2>1. n \in DOMAIN js \ evicted /\ jobs'[n] = js[n]
    BY <1>2 DEF Finished
  <2>2. n \in Candidates(js) \ evicted
    BY <2>1 DEF Candidates, FinishedIn
  <2> QED BY <1>1, <1>2, <2>1, <2>2
<1> QED BY <1>1, <1>3, <1>4, <1>5, <1>6, <1>7

\* A step after which no job is a tombstone that was none evicts nobody.
LEMMA NobodyEvicted ==
  ASSUME \A k \in DOMAIN jobs' :
           k \in DOMAIN jobs /\ (jobs'[k].status = "removed" => jobs[k].status = "removed")
  PROVE  OnlyFinished /\ OldestFirst /\ NoMoreThanNeeded
<1>1. EvictedNow = {}
  BY DEF EvictedNow
<1> QED BY <1>1 DEF OnlyFinished, OldestFirst, NoMoreThanNeeded


LEMMA CommitTurn ==
  ASSUME TurnInv, NEW i \in Ids, NEW caps \in Caps, NEW docs \in Documents,
         NEW at \in Nat, Commit(i, caps, docs, at)
  PROVE  SettledCharges' /\ OnlyFinished /\ OldestFirst /\ NoMoreThanNeeded
<1> DEFINE js == WithJob(i, caps, docs, at)
           rs == Drop(reservations, {i})
<1>1. IInv /\ SettledCharges
  BY DEF TurnInv
<1>2. /\ i \notin DOMAIN jobs /\ js[i].status = "pending"
      /\ Sound(js, rs, used) /\ MakeRoom(js, rs, used)
  BY <1>1, CommitIsSound
<1>3. DOMAIN js = DOMAIN jobs \cup {i} /\ \A k \in DOMAIN jobs : js[k] = jobs[k]
  BY <1>2 DEF WithJob
<1> HIDE DEF js, rs
<1>4. SettledCharges'
  <2>1. \A k \in DOMAIN js : js[k] \in Job
    BY <1>2 DEF Sound, Typed
  <2>2. \A k \in FinishedIn(js) : js[k].bytes = DocBytes(js[k].docs)
    <3> SUFFICES ASSUME NEW k \in FinishedIn(js)
                 PROVE  js[k].bytes = DocBytes(js[k].docs)
      OBVIOUS
    <3>1. k \in DOMAIN jobs /\ js[k] = jobs[k] /\ k \in FinishedIn(jobs)
      BY <1>2, <1>3 DEF FinishedIn, Finished
    <3> QED BY <1>1, <3>1 DEF SettledCharges
  <2> QED BY <1>2, <2>1, <2>2, RoomSettles
<1>5. /\ OldestFirst
      /\ EvictedNow # {} =>
           \E last \in EvictedNow :
              /\ \A k \in EvictedNow : jobs[k].received <= jobs[last].received
              /\ Charged(jobs', DOMAIN jobs') + js[last].bytes > MaxBytes
      /\ \A k \in EvictedNow : k \in DOMAIN jobs /\ Finished(js[k].status)
  BY <1>2, <1>3, TurnIsKept DEF Finished
<1>6. EvictedNow \subseteq FinishedIn(jobs)
  BY <1>3, <1>5 DEF FinishedIn
<1>7. OnlyFinished
  BY <1>6 DEF OnlyFinished
<1>8. \A k \in EvictedNow : js[k].bytes = DocBytes(jobs[k].docs)
  BY <1>1, <1>3, <1>5, <1>6 DEF SettledCharges
<1>9. NoMoreThanNeeded
  BY <1>5, <1>8 DEF NoMoreThanNeeded
<1> QED BY <1>4, <1>5, <1>7, <1>9

\* A job in, or on its way to, a final state is charged for what it has.
LEMMA RechargeTurn ==
  ASSUME TurnInv, NEW i \in DOMAIN jobs, NEW job, NEW n, Recharge(i, job, n),
         n \in Nat, [job EXCEPT !.bytes = n] \in Job,
         [job EXCEPT !.bytes = n].bytes = n,
         n = DocBytes([job EXCEPT !.bytes = n].docs),
         [job EXCEPT !.bytes = n].received = jobs[i].received,
         Finished([job EXCEPT !.bytes = n].status),
         jobs[i].status # "removed"
  PROVE  /\ SettledCharges' /\ OldestFirst
         /\ EvictedNow # {} =>
              \E last \in EvictedNow :
                 /\ \A k \in EvictedNow : jobs[k].received <= jobs[last].received
                 /\ \/ Charged(jobs', DOMAIN jobs') + DocBytes(jobs[last].docs) > MaxBytes
                    \/ last = i /\ Charged(jobs', DOMAIN jobs') + n > MaxBytes
         /\ EvictedNow \subseteq FinishedIn(jobs) \cup {i}
<1> DEFINE new == [job EXCEPT !.bytes = n]
           js == [jobs EXCEPT ![i] = new]
           u == used + n - jobs[i].bytes
<1>1. IInv /\ SettledCharges
  BY DEF TurnInv
<1>2. Sound(js, reservations, u) /\ MakeRoom(js, reservations, u)
  BY <1>1, RechargeIsSound DEF Recharge
<1>3. /\ new.bytes = n /\ n = DocBytes(new.docs) /\ new.received = jobs[i].received
      /\ new.status # "removed"
  BY DEF Finished
<1> HIDE DEF new
<1>4. /\ DOMAIN js = DOMAIN jobs \cup {i} /\ js[i] = new
      /\ \A k \in DOMAIN jobs \ {i} : js[k] = jobs[k]
  OBVIOUS
<1> HIDE DEF js, u
<1>5. SettledCharges'
  <2>1. \A k \in DOMAIN js : js[k] \in Job
    BY <1>2 DEF Sound, Typed
  <2>2. \A k \in FinishedIn(js) : js[k].bytes = DocBytes(js[k].docs)
    <3> SUFFICES ASSUME NEW k \in FinishedIn(js), k # i
                 PROVE  js[k].bytes = DocBytes(js[k].docs)
      BY <1>3, <1>4
    <3>1. k \in DOMAIN jobs \ {i} /\ js[k] = jobs[k] /\ k \in FinishedIn(jobs)
      BY <1>4 DEF FinishedIn
    <3> QED BY <1>1, <3>1 DEF SettledCharges
  <2> QED BY <1>2, <2>1, <2>2, RoomSettles
<1>6. /\ OldestFirst
      /\ EvictedNow # {} =>
           \E last \in EvictedNow :
              /\ \A k \in EvictedNow : jobs[k].received <= jobs[last].received
              /\ Charged(jobs', DOMAIN jobs') + js[last].bytes > MaxBytes
      /\ \A k \in EvictedNow : k \in DOMAIN jobs /\ Finished(js[k].status)
  BY <1>2, <1>3, <1>4, TurnIsKept
<1>7. EvictedNow \subseteq FinishedIn(jobs) \cup {i}
  BY <1>4, <1>6 DEF FinishedIn
<1>8. ASSUME NEW last \in EvictedNow
      PROVE  \/ js[last].bytes = DocBytes(jobs[last].docs)
             \/ last = i /\ js[last].bytes = n
  <2>1. CASE last = i
    BY <1>3, <1>4, <2>1
  <2>2. CASE last # i
    BY <1>1, <1>4, <1>6, <1>7, <2>2 DEF SettledCharges
  <2> QED BY <2>1, <2>2
<1> QED BY <1>5, <1>6, <1>7, <1>8

LEMMA SetStatusTurn ==
  ASSUME TurnInv, NEW i \in Ids, NEW status \in {"processing", "ready", "failed"},
         LegalStatus(i, status), SetStatus(i, status)
  PROVE  SettledCharges' /\ OnlyFinished /\ OldestFirst /\ NoMoreThanNeeded
<1>1. /\ IInv /\ SettledCharges /\ i \in DOMAIN jobs /\ jobs[i].status # "removed"
      /\ jobs[i] \in Job
  BY ChargesOfFew DEF SetStatus, TurnInv
<1>2. CASE Finished(status)
  <2> DEFINE fin == [jobs[i] EXCEPT !.status = status, !.expires = now + TTL]
             n == DocBytes(jobs[i].docs)
             new == [fin EXCEPT !.bytes = n]
  <2>1. Recharge(i, fin, n)
    BY <1>2 DEF SetStatus
  <2>2. /\ n \in Nat /\ new \in Job
        /\ new = [status |-> status, received |-> jobs[i].received, expires |-> now + TTL,
                  bytes |-> n, caps |-> jobs[i].caps, docs |-> jobs[i].docs]
    BY <1>1, <1>2, FinalRecord DEF Finished
  <2>3. n = DocBytes(jobs[i].docs)
    OBVIOUS
  <2> HIDE DEF n, fin
  <2>4. /\ new.bytes = n /\ new.docs = jobs[i].docs /\ new.received = jobs[i].received
        /\ Finished(new.status)
    BY <1>2, <2>2
  <2>5. n = DocBytes(new.docs)
    BY <2>3, <2>4
  <2>6. /\ SettledCharges' /\ OldestFirst
        /\ EvictedNow # {} =>
             \E last \in EvictedNow :
                /\ \A k \in EvictedNow : jobs[k].received <= jobs[last].received
                /\ \/ Charged(jobs', DOMAIN jobs') + DocBytes(jobs[last].docs) > MaxBytes
                   \/ last = i /\ Charged(jobs', DOMAIN jobs') + n > MaxBytes
        /\ EvictedNow \subseteq FinishedIn(jobs) \cup {i}
    BY <1>1, <2>1, <2>2, <2>4, <2>5, RechargeTurn
  \* What was not final before is the scan this step settles.
  <2>7. OnlyFinished
    BY <1>2, <2>6 DEF OnlyFinished, Finished
  <2>8. NoMoreThanNeeded
    BY <2>3, <2>6 DEF NoMoreThanNeeded
  <2> QED BY <2>6, <2>7, <2>8
<1>3. CASE ~Finished(status)
  <2>1. jobs' = [jobs EXCEPT ![i].status = status] /\ status = "processing"
    BY <1>3 DEF SetStatus, Finished
  <2>2. DOMAIN jobs' = DOMAIN jobs /\ \A k \in DOMAIN jobs \ {i} : jobs'[k] = jobs[k]
    BY <2>1
  <2>3. jobs'[i].status = "processing"
    BY <1>1, <2>1 DEF Job
  <2>4. SettledCharges'
    BY <1>1, <2>2, <2>3 DEF SettledCharges, FinishedIn, Finished
  <2> QED BY <2>2, <2>3, <2>4, NobodyEvicted
<1> QED BY <1>2, <1>3

LEMMA ReplaceDocumentTurn ==
  ASSUME TurnInv, NEW i \in Ids, NEW d \in DocIds, NEW size \in Sizes,
         ReplaceDocument(i, d, size)
  PROVE  SettledCharges' /\ OnlyFinished /\ OldestFirst /\ NoMoreThanNeeded
<1> DEFINE docs == [jobs[i].docs EXCEPT ![d] = [size |-> size, ocr |-> TRUE]]
           job == [jobs[i] EXCEPT !.docs = docs]
           n == DocBytes(docs)
           new == [job EXCEPT !.bytes = n]
<1>1. IInv /\ SettledCharges /\ i \in DOMAIN jobs /\ d \in DOMAIN jobs[i].docs
  BY DEF ReplaceDocument, TurnInv
<1>2. IF Finished(job.status) THEN Recharge(i, job, n) ELSE jobs' = [jobs EXCEPT ![i] = job]
  BY DEF ReplaceDocument
<1>3. /\ jobs[i].status # "removed"
      /\ n \in Nat /\ job \in Job /\ new \in Job
      /\ job.status = jobs[i].status /\ job.bytes = jobs[i].bytes
      /\ new.status = jobs[i].status /\ new.bytes = n
      /\ new.received = jobs[i].received /\ new.docs = docs
  BY <1>1, ReplacedRecord, Zenon
<1>4. n = DocBytes(new.docs)
  BY <1>3
<1>5. n = DocBytes([jobs[i].docs EXCEPT ![d] = [size |-> size, ocr |-> TRUE]])
  OBVIOUS
<1> HIDE DEF docs, job, n
<1>6. CASE Finished(job.status)
  <2>1. /\ SettledCharges' /\ OldestFirst
        /\ EvictedNow # {} =>
             \E last \in EvictedNow :
                /\ \A k \in EvictedNow : jobs[k].received <= jobs[last].received
                /\ \/ Charged(jobs', DOMAIN jobs') + DocBytes(jobs[last].docs) > MaxBytes
                   \/ last = i /\ Charged(jobs', DOMAIN jobs') + n > MaxBytes
        /\ EvictedNow \subseteq FinishedIn(jobs) \cup {i}
    BY <1>1, <1>2, <1>3, <1>4, <1>6, RechargeTurn
  <2>2. i \in FinishedIn(jobs)
    BY <1>1, <1>3, <1>6 DEF FinishedIn
  <2>3. OnlyFinished
    BY <2>1, <2>2 DEF OnlyFinished
  <2>4. NoMoreThanNeeded
    BY <1>5, <2>1 DEF NoMoreThanNeeded
  <2> QED BY <2>1, <2>3, <2>4
<1>7. CASE ~Finished(job.status)
  <2>1. /\ DOMAIN jobs' = DOMAIN jobs /\ jobs'[i] = job
        /\ \A k \in DOMAIN jobs \ {i} : jobs'[k] = jobs[k]
    BY <1>1, <1>2, <1>7
  <2>2. SettledCharges'
    BY <1>1, <1>7, <2>1 DEF SettledCharges, FinishedIn
  <2> QED BY <1>3, <2>1, <2>2, NobodyEvicted
<1> QED BY <1>6, <1>7

\* Dropping jobs settles nothing and evicts nobody.
LEMMA DroppedTurn ==
  ASSUME SettledCharges, DOMAIN jobs' \subseteq DOMAIN jobs,
         \A k \in DOMAIN jobs' : jobs'[k] = jobs[k]
  PROVE  SettledCharges' /\ OnlyFinished /\ OldestFirst /\ NoMoreThanNeeded
<1>1. SettledCharges'
  BY DEF SettledCharges, FinishedIn
<1> QED BY <1>1, NobodyEvicted

LEMMA TurnStep ==
  ASSUME TurnInv, Next
  PROVE  TurnInv' /\ OnlyFinished /\ OldestFirst /\ NoMoreThanNeeded
<1>1. IInv /\ SettledCharges /\ IInv' /\ now \in Nat
  BY NextInv DEF TurnInv, IInv, TypeOK
<1> SUFFICES SettledCharges' /\ OnlyFinished /\ OldestFirst /\ NoMoreThanNeeded
  BY <1>1 DEF TurnInv
<1>2. ASSUME NEW i \in Ids, Reserve(i) \/ ReleaseReservation(i)
      PROVE  SettledCharges' /\ OnlyFinished /\ OldestFirst /\ NoMoreThanNeeded
  BY <1>1, <1>2, DroppedTurn DEF Reserve, ReleaseReservation
<1>3. ASSUME NEW i \in Ids, NEW caps \in Caps, NEW docs \in Committable, NEW at \in Recent,
             Commit(i, caps, docs, at)
      PROVE  SettledCharges' /\ OnlyFinished /\ OldestFirst /\ NoMoreThanNeeded
  <2>1. docs \in Documents /\ at \in Nat
    BY <1>1 DEF Committable, Recent
  <2> QED BY <1>3, <2>1, CommitTurn
<1>4. ASSUME NEW i \in Ids, NEW status \in {"processing", "ready", "failed"},
             LegalStatus(i, status) /\ SetStatus(i, status)
      PROVE  SettledCharges' /\ OnlyFinished /\ OldestFirst /\ NoMoreThanNeeded
  BY <1>4, SetStatusTurn
<1>5. ASSUME NEW i \in Ids, NEW d \in DocIds, NEW size \in Sizes, ReplaceDocument(i, d, size)
      PROVE  SettledCharges' /\ OnlyFinished /\ OldestFirst /\ NoMoreThanNeeded
  BY <1>5, ReplaceDocumentTurn
<1>6. ASSUME NEW i \in Ids, Delete(i)
      PROVE  SettledCharges' /\ OnlyFinished /\ OldestFirst /\ NoMoreThanNeeded
  BY <1>1, <1>6, DroppedTurn DEF Delete, Drop
<1>7. ASSUME NEW at \in Recent, CleanExpired(at)
      PROVE  SettledCharges' /\ OnlyFinished /\ OldestFirst /\ NoMoreThanNeeded
  BY <1>1, <1>7, DroppedTurn, CleanExpiredJobs
<1>8. CASE Close
  BY <1>1, <1>8, DroppedTurn DEF Close, NoEntries
<1>9. CASE Tick
  BY <1>1, <1>9, DroppedTurn DEF Tick
<1> QED BY <1>2, <1>3, <1>4, <1>5, <1>6, <1>7, <1>8, <1>9 DEF Next

LEMMA TurnStays == TurnInv /\ [Next]_storeVars => TurnInv'
<1> SUFFICES ASSUME TurnInv, [Next]_storeVars
             PROVE  TurnInv'
  OBVIOUS
<1>1. CASE UNCHANGED storeVars
  <2>1. IInv /\ SettledCharges
    BY DEF TurnInv
  <2>2. IInv'
    BY <1>1, <2>1, NextInv
  <2>3. SettledCharges'
    BY <1>1, <2>1 DEF storeVars, SettledCharges, FinishedIn
  <2> QED BY <2>2, <2>3 DEF TurnInv
<1> QED BY <1>1, TurnStep

\* A scan in a final state is charged for the documents it has then, whatever
\* OCR made of them and however often its status is set (store.go, charge).
THEOREM ChargesAreSettled == Spec => []TurnInv
<1>1. Init => TurnInv
  <2>1. Init => SettledCharges
    BY DEF Init, NoEntries, SettledCharges, FinishedIn
  <2> QED BY <2>1, InitInv DEF TurnInv
<1> QED BY <1>1, TurnStays, PTL DEF Spec

\* Eviction takes the oldest finished scans, and not one more than the budget
\* needs (store.go, makeRoomLocked).
THEOREM EvictionIsInTurn == Spec => EvictsInTurn
<1>1. TurnInv /\ [Next]_storeVars => [OnlyFinished /\ OldestFirst /\ NoMoreThanNeeded]_storeVars
  BY TurnStep
<1> QED BY <1>1, ChargesAreSettled, PTL DEF Spec, EvictsInTurn
=============================================================================
