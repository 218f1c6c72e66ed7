------------------------------ MODULE MCJobStore ------------------------------
(***************************************************************************)
(* JobStore on a small instance.  The budget is two messages, the least    *)
(* the configuration accepts; a document is either as small as it gets or, *)
(* as OCR may return it, larger than the whole message was.                *)
(***************************************************************************)
EXTENDS JobStore, TLC, FiniteSetsExt

CONSTANTS i1, i2, i3, d1

MCIds == {i1, i2, i3}
MCDocIds == {d1}
MCCaps == {{"web"}}
MCSizes == {1, 3}

Symmetry == Permutations(MCIds)

\* The cardinality of byte units is the sum: compared with a fold over every
\* function into 0..3 on up to three arguments.
ASSUME TotalIsSum ==
  \A n \in 0..3 : \A f \in [1..n -> 0..3] :
     Total(f) = MapThenSumSet(LAMBDA x : f[x], 1..n)
=============================================================================
