--------------------------- MODULE ConfigReplica ---------------------------
(***************************************************************************)
(* What the panel promises of the service it configures, however requests  *)
(* and ticks interleave: Teleproxy serves the users of one moment of the   *)
(* database, though perhaps not the latest moment, or nobody, when it      *)
(* finds its configuration half written.  A configuration that two of them *)
(* have written at the same time may be the users of one moment followed   *)
(* by others; never anybody whom the database has not admitted.            *)
(***************************************************************************)
CONSTANTS
    Versions,       \* the sets of entries there can be
    Nobody          \* what a half-written configuration admits

VARIABLES
    current,    \* what the database admits now
    past,       \* what it has ever admitted
    overlapped, \* have two of those who configure been at work at once?
    overlaid,   \* is the configuration one list written over another?
    served      \* what Teleproxy serves

vars == <<current, past, overlapped, overlaid, served>>

Init ==
    /\ current \in Versions /\ past = {current} /\ served = current
    /\ ~overlapped /\ ~overlaid

Commit ==
    /\ current' \in Versions
    /\ past' = past \cup {current'}
    /\ UNCHANGED <<overlapped, overlaid, served>>

Overlap == overlapped' /\ UNCHANGED <<current, past, overlaid, served>>

WriteConfig ==
    /\ overlaid' \in BOOLEAN /\ (overlaid' => overlapped)
    /\ UNCHANGED <<current, past, overlapped, served>>

Joined(entries) == (\E list \in past : list \subseteq entries) /\ entries \subseteq UNION past

Publish ==
    /\ \/ served' \in past \cup {Nobody}
       \/ overlaid /\ Joined(served')
    /\ UNCHANGED <<current, past, overlapped, overlaid>>

Next == Commit \/ Overlap \/ WriteConfig \/ Publish

Spec == Init /\ [][Next]_vars
=============================================================================
