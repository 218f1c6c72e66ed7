----------------------------- MODULE MCRunModes -----------------------------
(***************************************************************************)
(* RunModes on small instances.                                            *)
(***************************************************************************)
EXTENDS RunModes, TLC

CONSTANTS r1, r2, b1, secret

TwoRequests == {r1, r2}
OneBrowser == {b1}
SecretOnly == {secret}

\* No file, or a configured one.
EmptyOrConfigured == {Blank, [s \in Settings |-> Old]}
=============================================================================
