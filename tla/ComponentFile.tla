--------------------------- MODULE ComponentFile ---------------------------
(***************************************************************************)
(* What tgproxy-cli update promises of the binaries it manages, whatever   *)
(* fails and wherever it is killed: each is at one whole version, which    *)
(* only an upgrade or the return to the version before changes, or it is   *)
(* torn next to a whole spare.                                             *)
(***************************************************************************)
EXTENDS Naturals

CONSTANTS
    Components, Versions,
    Torn, None          \* a file half written, no file

VARIABLES
    installed,  \* the binary of each component
    spare       \* its backup

vars == <<installed, spare>>

Init == installed \in [Components -> Versions] /\ spare = [c \in Components |-> None]

Set(f, c, S) == \E x \in S : f' = [f EXCEPT ![c] = x]

Copy(c) ==
    /\ installed[c] \in Versions
    /\ Set(spare, c, {installed[c], Torn})
    /\ UNCHANGED installed

Upgrade(c) ==
    /\ spare[c] = installed[c]
    /\ Set(installed, c, {v \in Versions : v > installed[c]})
    /\ UNCHANGED spare

Restore(c) ==
    /\ spare[c] \in Versions
    /\ Set(installed, c, {spare[c], Torn})
    /\ UNCHANGED spare

Discard(c) ==
    /\ installed[c] \in Versions
    /\ Set(spare, c, {None})
    /\ UNCHANGED installed

Next == \E c \in Components : Copy(c) \/ Upgrade(c) \/ Restore(c) \/ Discard(c)

Spec == Init /\ [][Next]_vars
=============================================================================
