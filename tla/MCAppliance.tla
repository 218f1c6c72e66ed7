----------------------------- MODULE MCAppliance -----------------------------
(***************************************************************************)
(* Appliance on small instances.                                           *)
(***************************************************************************)
EXTENDS Appliance, TLC

CONSTANTS i1, i2, i3, c1, w1, d1, d2

TwoIds == {i1, i2}
ThreeIds == {i1, i2, i3}
OneConn == {c1}
OneWorker == {w1}
OneDoc == {d1}
TwoDocs == {d1, d2}
OneSize == {1}

Web == {{"web"}}
EmailOrWeb == {{"email"}, {"web"}}
InPairs == {{"email", "ocr"}, {"web", "ocr"}, {"email", "web"}}

TwoIdsAlike == Permutations(TwoIds)
IdsAlike == Permutations(ThreeIds)
=============================================================================
