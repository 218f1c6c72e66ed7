------------------------------- MODULE ByteSum -------------------------------
(***************************************************************************)
(* Sums of byte counts.  A sum over a finite set is written here as the    *)
(* cardinality of a set of "byte units" instead of a fold: the two agree   *)
(* (MCJobStore compares them on bounded inputs), and facts about           *)
(* cardinalities can be proved where facts about folds cannot.             *)
(***************************************************************************)
EXTENDS Naturals, FiniteSets

\* One pair per byte: f[x] of them for every x in the domain of f.
Units(f) == UNION {{x} \X (1..f[x]) : x \in DOMAIN f}

\* The sum of f[x] over the domain of f.
Total(f) == Cardinality(Units(f))

\* The bytes that the records recs[i], i \in S, are booked at.
Charged(recs, S) == Total([i \in S |-> recs[i].bytes])
=============================================================================
