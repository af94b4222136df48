----------------------------- MODULE MCUserSync -----------------------------
(* Small instances of UserSync for TLC. *)
EXTENDS UserSync

CONSTANTS alice, bob, r1, ticker

OneUser == {alice}
TwoUsers == {alice, bob}
NoRequests == {}
OneRequest == {r1}

\* Who exists at the start; where both do, no events are left for the faults run.
Alice == {[users |-> {alice}, events |-> 0]}
Both == {[users |-> {alice, bob}, events |-> 0]}
AliceOrBoth == Alice \cup {[users |-> {alice, bob}, events |-> MaxEvents]}
=============================================================================
