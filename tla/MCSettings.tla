----------------------------- MODULE MCSettings -----------------------------
(* Small instances of Settings for TLC. *)
EXTENDS Settings

CONSTANTS h1, h2, b1, none, p1, p2, r1, r2, cli, unset

TwoHosts == {h1, h2}
TwoBackends == {none, b1}
TwoPaths == {p1, p2}
Installed == [mask |-> h1, backend |-> b1, path |-> p1]
BridgeMode == {"teleproxy", "sing-box"}
OneRequest == {r1}
TwoRequests == {r1, r2}

TwoTemplates == [blog |-> {1, 3}, page |-> {1}]
Offers == {{1, 2}, {2}}
=============================================================================
