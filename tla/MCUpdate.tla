------------------------------ MODULE MCUpdate ------------------------------
(* Small instances of Update for TLC. *)
EXTENDS Update

CONSTANTS cli, panel, teleproxy, u1, u2

OneProbed == {teleproxy}
CheckOrder == <<cli, panel, teleproxy>>
OneUpdater == {u1}
TwoUpdaters == {u1, u2}
=============================================================================
