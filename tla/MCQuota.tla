------------------------------ MODULE MCQuota ------------------------------
(* Small instances of Quota for TLC. *)
EXTENDS Quota

\* Months of three, one, two, ... days: the last day of one may be missing in the next.
ShortMonths == <<3, 1, 2, 3, 3, 3>>
=============================================================================
