--------------------------- MODULE UserSyncHistory ---------------------------
(***************************************************************************)
(* UserSync with the history of what its database has admitted, and the    *)
(* refinement mapping that shows it implements ConfigReplica.              *)
(***************************************************************************)
EXTENDS UserSync

VARIABLE past       \* every value Eligible(db) has had

HInit == Init /\ past = {Eligible(db)}

HNext == Next /\ past' = past \cup {Eligible(db')}

HSpec == HInit /\ [][HNext]_<<vars, past>>

Replica == INSTANCE ConfigReplica WITH
    Versions <- SUBSET Entry, Nobody <- {}, current <- Eligible(db),
    overlapped <- "overlap" \in mishaps, overlaid <- written # "whole", served <- live

\* Every interleaving of requests and ticks, with failures and crashes, publishes whole
\* snapshots of the users table, or nobody: what an apply writes is the result of one
\* List.  Only a file that two applies have written at the same time may add entries of
\* another moment, and none that the table has never admitted.
ImplementsReplica == Replica!Spec

\* user_actions.go:742 lists the users anew for every apply: Teleproxy serves the users
\* of one moment, or nobody.
OneMoment == live \in past \cup {{}}
=============================================================================
