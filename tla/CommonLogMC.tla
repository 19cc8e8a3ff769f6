----------------------------- MODULE CommonLogMC -----------------------------
(* Three requests, two of which share a log file, both signal kinds.        *)
EXTENDS CommonLog, TLC

CONSTANTS r1, r2, r3, access, other, HUP, USR1

ThreeRequests == {r1, r2, r3}
TwoPaths == {access, other}
BothKinds == {HUP, USR1}
SharedFile == (r1 :> access) @@ (r2 :> access) @@ (r3 :> other)
=============================================================================
