------------------------------ MODULE MCBridge ------------------------------
(* Small instances of Bridge for TLC. *)
EXTENDS Bridge

CONSTANTS r1, r2

OneRequest == {r1}
TwoRequests == {r1, r2}
=============================================================================
