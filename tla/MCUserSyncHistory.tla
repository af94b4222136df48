-------------------------- MODULE MCUserSyncHistory --------------------------
(* Small instances of UserSyncHistory for TLC. *)
EXTENDS UserSyncHistory, MCUserSync
=============================================================================
