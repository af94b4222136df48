------------------------------- MODULE Quota -------------------------------
(***************************************************************************)
(* The quota of one user over time: periods that end, usage summed up from *)
(* the daily totals, suspension and warning.                               *)
(*                                                                         *)
(* The ticker and the handlers of the panel work on the row in             *)
(* transactions; between two of them anything may happen.  How the         *)
(* configuration follows is the subject of UserSync; here an apply         *)
(* succeeds, or fails and makes the handler restore the row it has read.   *)
(***************************************************************************)
EXTENDS Integers, Sequences, FiniteSets, FiniteSetsExt, Functions

CONSTANTS
    TicksPerDay,    \* ticks in a day
    WeekDays,       \* days in a week
    Calendar,       \* lengths of the months in days, from day 0
    Limits,         \* the quotas an administrator sets, 0 for none
    WarnPct,        \* quota_warn_pct
    Ops,            \* the operations the administrator uses
    MayFail,        \* may an apply fail?
    LastTime,       \* bound on the time
    MaxUsage,       \* bound on the traffic
    MaxRequests     \* bound on the requests

ASSUME QuotaAssumption ==
    /\ TicksPerDay \in Nat \ {0} /\ WeekDays \in Nat \ {0}
    /\ Calendar \in Seq(Nat \ {0})
    /\ Limits \subseteq Nat /\ WarnPct \in 0..100
    /\ Ops \subseteq {"set", "reset", "toggle"}
    /\ MayFail \in BOOLEAN
    /\ LastTime \in Nat /\ TicksPerDay <= LastTime /\ MaxUsage \in Nat /\ MaxRequests \in Nat

PeriodLengths == {"daily", "weekly", "monthly"}
Times == TicksPerDay..LastTime     \* there is no time 0: it stands for no period

\* What the table users keeps of a quota.
Row == [bytes : Limits, period : PeriodLengths, start : Nat, used : Nat,
        suspended : BOOLEAN, warned : BOOLEAN]

VARIABLES
    clock,
    usage,    \* history: bytes carried at each time
    row,
    tick,       \* what the ticker does next
    pc, job,    \* the handler: its control, and the row it has read
    byHand,     \* history: has the administrator suspended the user?
    warnings,   \* history: warnings since the period was last begun or reset
    requests

quotaVars == <<clock, usage, row, tick, pc, job, byHand, warnings, requests>>

NoJob == [op |-> "none"]

DayFloor(t) == t - (t % TicksPerDay)

\* Seeded fault: a timestamp is used as it is.
TodayRaw == clock

Today == DayFloor(clock)

-----------------------------------------------------------------------------
(* Periods. *)

MonthStart[m \in 1..Len(Calendar)] == IF m = 1 THEN 0 ELSE MonthStart[m - 1] + Calendar[m - 1]

\* Whenever a period begins, it ends in a month of the calendar.
ASSUME CalendarAssumption ==
    /\ Calendar # <<>>
    /\ LastTime < MonthStart[Len(Calendar)] * TicksPerDay

\* The same day of the next month, or its last one.
AddMonthClamped(t) ==
    LET day == t \div TicksPerDay
        month == Max({m \in DOMAIN MonthStart : MonthStart[m] <= day})
        last == Calendar[month + 1] - 1
    IN  (MonthStart[month + 1] + Min({day - MonthStart[month], last})) * TicksPerDay + (t % TicksPerDay)

PeriodEnd(period, start) ==
    CASE period = "daily"   -> start + TicksPerDay
      [] period = "weekly"  -> start + WeekDays * TicksPerDay
      [] period = "monthly" -> AddMonthClamped(start)

\* The loop of RolloverIfDue: from period to period until one contains now.
CurrentStart(period, start) ==
    LET at[n \in 0..(clock - start) \div TicksPerDay] ==
            IF n = 0 THEN start
            ELSE IF PeriodEnd(period, at[n - 1]) <= clock THEN PeriodEnd(period, at[n - 1])
            ELSE at[n - 1]
    IN  at[(clock - start) \div TicksPerDay]

\* SUM(...) FROM traffic_daily WHERE day_ts >= period_start
ChargedSince(start) ==
    IF start = 0 THEN 0 ELSE SumFunctionOnSet(usage, {t \in Times : DayFloor(t) >= start})

-----------------------------------------------------------------------------

QuotaInit ==
    /\ clock = TicksPerDay
    /\ usage = [t \in Times |-> 0]
    /\ row \in [bytes : Limits, period : PeriodLengths, start : {0}, used : {0},
                suspended : {FALSE}, warned : {FALSE}]
    /\ tick = "idle" /\ pc = "idle" /\ job = NoJob
    /\ byHand = FALSE /\ warnings = 0 /\ requests = 0

TimePasses ==
    /\ clock < LastTime /\ clock' = clock + 1
    /\ UNCHANGED <<usage, row, tick, pc, job, byHand, warnings, requests>>

Carry ==
    /\ SumFunction(usage) < MaxUsage
    /\ usage' = [usage EXCEPT ![clock] = @ + 1]
    /\ UNCHANGED <<clock, row, tick, pc, job, byHand, warnings, requests>>

\* Seeded fault: a period is the week that ends with its first day.
BeginPeriodBefore(start) ==
    /\ row' = [row EXCEPT !.start = start - WeekDays * TicksPerDay, !.used = 0]
    /\ byHand' = FALSE /\ warnings' = 0

\* A period begins anew: its warnings are counted from here.
BeginPeriod(start) ==
    /\ row' = [row EXCEPT !.start = start, !.used = 0, !.warned = FALSE, !.suspended = FALSE]
    /\ byHand' = FALSE /\ warnings' = 0

TickBegins ==
    /\ tick = "idle" /\ tick' = "rollover"
    /\ UNCHANGED <<clock, usage, row, pc, job, byHand, warnings, requests>>

\* The apply that follows a suspension that is lifted may fail; the user is then not
\* recalculated in this tick.
RolloverIfDue ==
    /\ tick = "rollover"
    /\ \/ /\ row.start = 0 /\ row' = [row EXCEPT !.start = Today]
          /\ tick' = "recalc" /\ UNCHANGED <<byHand, warnings>>
       \/ /\ row.start # 0 /\ CurrentStart(row.period, row.start) = row.start
          /\ tick' = "recalc" /\ UNCHANGED <<row, byHand, warnings>>
       \/ /\ row.start # 0 /\ CurrentStart(row.period, row.start) # row.start
          /\ BeginPeriod(CurrentStart(row.period, row.start))
          /\ tick' \in {"recalc"} \cup (IF MayFail /\ row.suspended THEN {"idle"} ELSE {})
    /\ UNCHANGED <<clock, usage, pc, job, requests>>

\* Seeded fault: a user is suspended for what was charged before, not for what is now.
RecalculateLate ==
    /\ row' = [row EXCEPT !.used = ChargedSince(row.start),
                          !.suspended = @ \/ (row.bytes > 0 /\ row.used >= row.bytes)]
    /\ UNCHANGED warnings

Recalculate ==
    LET used == ChargedSince(row.start)
        warns == /\ row.bytes > 0 /\ ~row.warned /\ WarnPct > 0
                 /\ used >= (row.bytes * WarnPct) \div 100
    IN
    /\ row' = [row EXCEPT !.used = used,
                          !.suspended = @ \/ (row.bytes > 0 /\ used >= row.bytes),
                          !.warned = @ \/ warns]
    /\ warnings' = IF warns THEN warnings + 1 ELSE warnings

TickRecalculates ==
    /\ tick = "recalc" /\ tick' = "idle"
    /\ Recalculate
    /\ UNCHANGED <<clock, usage, pc, job, byHand, requests>>

-----------------------------------------------------------------------------
(* The handlers: read the row, change it, apply, recalculate. *)

HandlerBegins(op) ==
    /\ op \in Ops /\ requests < MaxRequests /\ requests' = requests + 1
    /\ pc = "idle" /\ pc' = "change" /\ job' = [op |-> op, old |-> row]
    /\ UNCHANGED <<clock, usage, row, tick, byHand, warnings>>

\* SetQuota: a new period length begins a period, no limit leaves nothing to suspend for.
SetQuota(bytes, period) ==
    IF row.period # period \/ row.start = 0
    THEN /\ row' = [bytes |-> bytes, period |-> period, start |-> Today, used |-> 0,
                    suspended |-> FALSE, warned |-> FALSE]
         /\ byHand' = FALSE /\ warnings' = 0
    ELSE /\ row' = IF bytes = 0 THEN [row EXCEPT !.bytes = 0, !.warned = FALSE, !.suspended = FALSE]
                   ELSE [row EXCEPT !.bytes = bytes]
         /\ byHand' = (byHand /\ bytes # 0) /\ UNCHANGED warnings

ToggleSuspended ==
    /\ row' = [row EXCEPT !.suspended = ~job.old.suspended]
    /\ byHand' = ~job.old.suspended /\ UNCHANGED warnings

Change ==
    /\ pc = "change" /\ pc' = "apply"
    /\ \/ job.op = "set" /\ \E bytes \in Limits, period \in PeriodLengths : SetQuota(bytes, period)
       \/ job.op = "reset" /\ BeginPeriod(Today)
       \/ job.op = "toggle" /\ ToggleSuspended
    /\ UNCHANGED <<clock, usage, tick, job, requests>>

Applied ==
    /\ pc = "apply" /\ pc' = "recalc"
    /\ UNCHANGED <<clock, usage, row, tick, job, byHand, warnings, requests>>

\* RestoreQuotaState, or SetSuspended for a toggle.
ApplyFails ==
    /\ MayFail /\ pc = "apply" /\ pc' = "idle" /\ job' = NoJob
    /\ row' = IF job.op = "toggle" THEN [row EXCEPT !.suspended = job.old.suspended] ELSE job.old
    /\ UNCHANGED <<clock, usage, tick, byHand, warnings, requests>>

HandlerRecalculates ==
    /\ pc = "recalc" /\ pc' = "idle" /\ job' = NoJob
    /\ Recalculate
    /\ UNCHANGED <<clock, usage, tick, byHand, requests>>

QuotaNext ==
    \/ TimePasses \/ Carry
    \/ TickBegins \/ RolloverIfDue \/ TickRecalculates
    \/ \E op \in Ops : HandlerBegins(op)
    \/ Change \/ Applied \/ ApplyFails \/ HandlerRecalculates

QuotaSpec == QuotaInit /\ [][QuotaNext]_quotaVars

-----------------------------------------------------------------------------
(* Properties. *)

\* Every variable has the type its comment gives it.
QuotaTypeOK ==
    /\ clock \in Times /\ usage \in [Times -> 0..MaxUsage] /\ row \in Row
    /\ tick \in {"idle", "rollover", "recalc"}
    /\ pc \in {"idle", "change", "apply", "recalc"}
    /\ job \in {NoJob} \cup [op : {"set", "reset", "toggle"}, old : Row]
    /\ byHand \in BOOLEAN /\ warnings \in Nat /\ requests \in 0..MaxRequests

\* However long the panel was down, and whatever the periods were changed to, a rollover
\* ends in the period that contains the present; and what a user is charged with is what it
\* has transferred since its period began, to the tick, although only daily totals are kept.
PresentPeriodCharged ==
    [][/\ RolloverIfDue => row'.start <= clock /\ clock < PeriodEnd(row'.period, row'.start)
       /\ (TickRecalculates \/ HandlerRecalculates) /\ row.start # 0 =>
            row'.used = SumFunctionOnSet(usage, {t \in Times : t >= row.start})]_quotaVars

\* A user whose traffic in the present period has reached the limit is suspended when a
\* tick ends, whatever handlers have done or restored since it began.
EnforcedByTick ==
    [][TickRecalculates =>
        LET spent == SumFunctionOnSet(usage, {t \in Times : t >= row.start})
        IN  row.start # 0 /\ row'.bytes \in 1..spent => row'.suspended]_quotaVars

\* OPERATIONS.md:168 says that a period sees a single warning.
WarnedOncePerPeriod == warnings <= 1

\* OPERATIONS.md:174 says that a reset lifts a suspension that was triggered by the quota.
ResetLifts ==
    [][HandlerRecalculates /\ job.op = "reset" /\ ~byHand => ~row'.suspended]_quotaVars

\* ... and no other one.
ResetKeepsByHand ==
    [][Change /\ job.op = "reset" /\ byHand => row'.suspended]_quotaVars
=============================================================================
