----------------------------- MODULE MCTraffic -----------------------------
(* Small instances of Traffic for TLC. *)
EXTENDS Traffic

CONSTANTS alice

OneUser == {alice}

Days2 == [minute |-> 2, hour |-> 4]
Days4 == [minute |-> 4, hour |-> 4]
TwoRetentions == {Days2, Days4}

Hours3 == [minute |-> 3, hour |-> 8]
OneRetention == {Hours3}
=============================================================================
