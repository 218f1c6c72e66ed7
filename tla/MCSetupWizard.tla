---------------------------- MODULE MCSetupWizard ----------------------------
(***************************************************************************)
(* SetupWizard on small instances.                                         *)
(***************************************************************************)
EXTENDS SetupWizard, TLC

CONSTANTS r1, r2, r3, b1, b2, secret, title

TwoRequests == {r1, r2}
ThreeRequests == {r1, r2, r3}
OneBrowser == {b1}
TwoBrowsers == {b1, b2}
SecretOnly == {secret}
SecretAndTitle == {secret, title}

\* A file that protects nothing but holds a plain setting, and a configured one
\* whose plain setting is a file of its own.
AnyFile == {[s \in Settings |-> IF s \in Secrets THEN Unset ELSE Old],
            [s \in Settings |-> IF s \in Secrets THEN Old ELSE FromFile]}
Configured == {[s \in Settings |-> Old]}

ThreeAlike == Permutations(ThreeRequests)
=============================================================================
