--------------------------- MODULE MCJobStoreFiles ---------------------------
(***************************************************************************)
(* JobStoreFiles on small instances: a message is one unit, the budget two *)
(* of them, and OCR may return a document twice as large as the message.   *)
(***************************************************************************)
EXTENDS JobStoreFiles, TLC

CONSTANTS i1, i2, d1, d2

TwoIds == {i1, i2}
OneDoc == {d1}
TwoDocs == {d1, d2}
WebOnly == {{"web"}}
SmallOrDouble == {1, 2}
OneSize == {1}

SymmetryTwo == Permutations(TwoIds)
=============================================================================
