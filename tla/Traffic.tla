------------------------------ MODULE Traffic ------------------------------
(***************************************************************************)
(* Traffic accounting: the sampler turns the cumulative counters of        *)
(* Teleproxy into one sample a minute and into the daily totals quotas are *)
(* charged from, and its counter of connections into a row of the trend;   *)
(* once a day the retainer sums old samples up by the hour and deletes     *)
(* them, as old as the settings it began with say.                         *)
(*                                                                         *)
(* Every statement group of the code is one transaction and one step.      *)
(* Bytes in and out are treated alike and are one number.  A user without  *)
(* a row in traffic_counters is treated as one whose last value was 0.     *)
(* Each byte counts as a connection too, so that one counter does for the  *)
(* four of the trend.                                                      *)
(***************************************************************************)
EXTENDS Naturals, FiniteSets, FiniteSetsExt, Functions

CONSTANTS
    Users,          \* labels
    HourLen,        \* ticks of the sampler in an hour
    DayLen,         \* in a day, which is also the interval of the retainer
    Retentions,     \* the settings the form accepts: how long samples and hourly rows are kept
    Default,        \* the one without a setting
    Periods,        \* the periods of the charts that show samples only, from a day up
    Buckets,        \* the points of a chart
    MaxEvents,      \* bound on restarts, failures and changes of the settings
    MaxTime,        \* bound on the time
    MaxBytes        \* bound on the bytes a user transfers

ASSUME TrafficAssumption ==
    /\ IsFiniteSet(Users)
    /\ HourLen \in Nat \ {0} /\ DayLen \in Nat \ {0} /\ DayLen % HourLen = 0
    /\ Retentions \subseteq [minute : Nat \ {0}, hour : Nat \ {0}] /\ Default \in Retentions
    /\ Buckets \in Nat \ {0}
    /\ \A p \in Periods : p \in Nat \ {0} /\ p % DayLen = 0 /\ p % Buckets = 0
    /\ MaxTime \in Nat /\ MaxBytes \in Nat /\ MaxEvents \in Nat

Time == 0..MaxTime
Hours == {t \in Time : t % HourLen = 0}
Days == {t \in Time : t % DayLen = 0}
HourOf(t) == t - (t % HourLen)

\* Seeded fault: days are told apart by the raw timestamp.
DayOfRaw(t) == t

DayOf(t) == t - (t % DayLen)

VARIABLES
    now,
    carried,    \* history: the bytes Teleproxy has carried for a user
    counter,    \* its counter, which starts at 0 with the process
    prev,       \* traffic_counters
    samples,    \* traffic_samples: the rows of a user by time
    hourly,     \* traffic_hourly: the rows of a user by the start of the hour
    daily,      \* traffic_daily
    ops,        \* ops_samples: rows by time
    opsPrev,    \* ops_counters: its one row, if any
    scraped,    \* the snapshot the sampler is about to store, if any
    stamp,      \* the time the sampler has taken for it, if it has stored the samples
    nextTick,   \* when the sampler's ticker fires
    step,       \* the next step of the retainer
    cutoffs,    \* the boundaries it computed when it began, 0 when it is idle
    keep,       \* the retention it has been given
    setting,    \* the one in the settings table
    shortest,   \* history: the shortest time samples were to be kept for
    nextRun,    \* when the retainer's ticker fires
    events,
    mishaps     \* history: what has gone wrong so far

traffic == <<prev, samples, daily>>
trend == <<ops, opsPrev>>
sampler == <<traffic, trend, scraped, stamp, nextTick>>
retainer == <<step, cutoffs, nextRun, keep, setting, shortest>>
world == <<now, carried, counter>>
luck == <<events, mishaps>>
vars == <<world, sampler, retainer, hourly, luck>>

None == [u \in {} |-> 0]    \* no snapshot, no rows

Never == MaxTime + 1        \* no timestamp
Nothing == [minute |-> 0, hour |-> 0]

Init ==
    /\ now = 0
    /\ carried = [u \in Users |-> 0] /\ counter = carried /\ prev = carried
    /\ samples = [u \in Users |-> None]
    /\ hourly = [u \in Users |-> None]
    /\ daily = [u \in Users |-> None]
    /\ ops = None /\ opsPrev = None
    /\ scraped = None /\ stamp = Never /\ nextTick = 0
    /\ keep = Default /\ setting = Default /\ shortest = Default.minute
    /\ step = "idle" /\ cutoffs = Nothing /\ nextRun = DayLen
    /\ events = 0 /\ mishaps = {}

Event == events < MaxEvents /\ events' = events + 1

Happens(m) == Event /\ mishaps' = mishaps \cup {m}

Unrecorded == Event /\ UNCHANGED mishaps

-----------------------------------------------------------------------------
(* The world. *)

Pass ==
    /\ now < MaxTime /\ now' = now + 1
    /\ UNCHANGED <<carried, counter, sampler, retainer, hourly, luck>>

Transfer(u) ==
    /\ carried[u] < MaxBytes
    /\ carried' = [carried EXCEPT ![u] = @ + 1]
    /\ counter' = [counter EXCEPT ![u] = @ + 1]
    /\ UNCHANGED <<now, sampler, retainer, hourly, luck>>

TeleproxyRestarts ==
    /\ counter' = [u \in Users |-> 0]
    /\ Happens("teleproxy")
    /\ UNCHANGED <<now, carried, sampler, retainer, hourly>>

\* The goroutines begin anew: the sampler at once, the retainer a day later with the
\* retention that is set by now.
PanelRestarts ==
    /\ scraped' = None /\ stamp' = Never /\ nextTick' = now
    /\ step' = "idle" /\ cutoffs' = Nothing /\ nextRun' = now + DayLen
    /\ keep' = setting /\ shortest' = Min({shortest, setting.minute})
    /\ IF step = "idle" THEN Unrecorded ELSE Happens("retention")
    /\ UNCHANGED <<world, traffic, trend, setting, hourly>>

\* The page of the system settings: two statements, of which the second may fail.
SaveRetention ==
    /\ Unrecorded
    /\ \E new \in Retentions :
          \/ setting' = new
          \/ setting' = [setting EXCEPT !.minute = new.minute]
    /\ UNCHANGED <<world, sampler, step, cutoffs, nextRun, keep, shortest, hourly>>

-----------------------------------------------------------------------------
(* The sampler. *)

\* The timestamp is taken, and the snapshot stored, some time after the scrape.
Scrape ==
    /\ nextTick <= now /\ scraped = None
    /\ scraped' = counter
    /\ UNCHANGED <<world, traffic, trend, stamp, nextTick, retainer, hourly, luck>>

ScrapeFails ==
    /\ Unrecorded
    /\ nextTick <= now /\ scraped = None
    /\ nextTick' = now + 1
    /\ UNCHANGED <<world, traffic, trend, scraped, stamp, retainer, hourly>>

\* A counter that has decreased has started anew.
CounterDelta(cur, old) == IF cur >= old THEN cur - old ELSE cur

Plus(row, k, n) ==
    [t \in DOMAIN row \cup {k} |->
        IF t # k THEN row[t] ELSE IF k \in DOMAIN row THEN row[k] + n ELSE n]

Over(new, old) ==
    [t \in DOMAIN new \cup DOMAIN old |-> IF t \in DOMAIN new THEN new[t] ELSE old[t]]

\* Seeded fault: the counter is stored even where the sample is a duplicate.
StoreAlways ==
    LET fresh == {u \in Users : now \notin DOMAIN samples[u]}
        delta == [u \in Users |-> CounterDelta(scraped[u], prev[u])]
    IN
    /\ scraped # None /\ stamp = Never /\ stamp' = now
    /\ samples' = [u \in Users |->
          IF u \in fresh THEN Plus(samples[u], now, delta[u]) ELSE samples[u]]
    /\ daily' = [u \in Users |->
          IF u \in fresh THEN Plus(daily[u], DayOf(now), delta[u]) ELSE daily[u]]
    /\ prev' = scraped
    /\ UNCHANGED <<world, trend, scraped, nextTick, retainer, hourly, luck>>

\* One transaction for all users; a second sample of the same second is skipped, and
\* its traffic left to the next one.
Store ==
    LET fresh == {u \in Users : now \notin DOMAIN samples[u]}
        delta == [u \in Users |-> CounterDelta(scraped[u], prev[u])]
    IN
    /\ scraped # None /\ stamp = Never /\ stamp' = now
    /\ samples' = [u \in Users |->
          IF u \in fresh THEN Plus(samples[u], now, delta[u]) ELSE samples[u]]
    /\ daily' = [u \in Users |->
          IF u \in fresh THEN Plus(daily[u], DayOf(now), delta[u]) ELSE daily[u]]
    /\ prev' = [u \in Users |-> IF u \in fresh THEN scraped[u] ELSE prev[u]]
    /\ UNCHANGED <<world, trend, scraped, nextTick, retainer, hourly, luck>>

\* The trend is stored all the same.
StoreFails ==
    /\ Unrecorded
    /\ scraped # None /\ stamp = Never /\ stamp' = now
    /\ UNCHANGED <<world, traffic, trend, scraped, nextTick, retainer, hourly>>

Ticked ==
    /\ stamp # Never /\ stamp' = Never
    /\ scraped' = None /\ nextTick' = now + 1

\* The first scrape only seeds the counters; a second one of the same second is skipped, but
\* its counters are stored.
StoreOps ==
    LET cur == SumFunction(scraped)
    IN
    /\ Ticked
    /\ ops' = IF opsPrev = None \/ stamp \in DOMAIN ops
               THEN ops ELSE Plus(ops, stamp, CounterDelta(cur, opsPrev[1]))
    /\ opsPrev' = [row \in {1} |-> cur]
    /\ UNCHANGED <<world, traffic, retainer, hourly, luck>>

StoreOpsFails ==
    /\ Unrecorded /\ Ticked
    /\ UNCHANGED <<world, traffic, trend, retainer, hourly>>

-----------------------------------------------------------------------------
(* The retainer. *)

Before(n) == IF now < n THEN 0 ELSE now - n

Begin ==
    /\ step = "idle" /\ nextRun <= now
    /\ cutoffs' = [minute |-> Before(keep.minute), hour |-> Before(keep.hour)]
    /\ step' = "aggregate" /\ nextRun' = nextRun + DayLen
    /\ UNCHANGED <<world, sampler, keep, setting, shortest, hourly, luck>>

Old(u) == {t \in DOMAIN samples[u] : t < cutoffs.minute}

Step(from, to) ==
    /\ step = from /\ step' = to
    /\ cutoffs' = IF to = "idle" THEN Nothing ELSE cutoffs
    /\ UNCHANGED <<world, prev, daily, opsPrev, scraped, stamp, nextTick, nextRun, keep, setting,
                   shortest, luck>>

\* INSERT OR REPLACE: an hour that has a row gets the sum of what is there now.
Aggregate ==
    /\ Step("aggregate", "delete_samples")
    /\ hourly' = [u \in Users |->
          LET hours == {HourOf(t) : t \in Old(u)}
          IN  Over([h \in hours |->
                       SumFunctionOnSet(samples[u], {t \in Old(u) : HourOf(t) = h})], hourly[u])]
    /\ UNCHANGED <<samples, ops>>

\* Seeded fault: the sample before the boundary is kept.
DeleteOneLess ==
    /\ Step("delete_samples", "delete_hourly")
    /\ samples' = [u \in Users |->
          Restrict(samples[u], {t \in DOMAIN samples[u] : t + 1 >= cutoffs.minute})]
    /\ UNCHANGED <<hourly, ops>>

DeleteSamples ==
    /\ Step("delete_samples", "delete_hourly")
    /\ samples' = [u \in Users |-> Restrict(samples[u], DOMAIN samples[u] \ Old(u))]
    /\ UNCHANGED <<hourly, ops>>

DeleteHourly ==
    /\ Step("delete_hourly", "delete_ops")
    /\ hourly' = [u \in Users |->
          Restrict(hourly[u], {h \in DOMAIN hourly[u] : h >= cutoffs.hour})]
    /\ UNCHANGED <<samples, ops>>

DeleteOps ==
    /\ Step("delete_ops", "idle")
    /\ ops' = Restrict(ops, {t \in DOMAIN ops : t >= cutoffs.minute})
    /\ UNCHANGED <<samples, hourly>>

\* The first error ends the run.
RetentionFails ==
    /\ step # "idle" /\ step' = "idle" /\ cutoffs' = Nothing
    /\ Happens("retention")
    /\ UNCHANGED <<world, sampler, nextRun, keep, setting, shortest, hourly>>

Sample == Scrape \/ ScrapeFails \/ Store \/ StoreFails \/ StoreOps \/ StoreOpsFails

Retain ==
    \/ Begin \/ Aggregate \/ DeleteSamples \/ DeleteHourly \/ DeleteOps \/ RetentionFails

Next ==
    \/ Pass \/ TeleproxyRestarts \/ PanelRestarts \/ SaveRetention \/ \E u \in Users : Transfer(u)
    \/ Sample \/ Retain

Spec == Init /\ [][Next]_vars

-----------------------------------------------------------------------------
(* The charts: QueryTrafficSeries, QueryOpsSeries. *)

\* The rows from the beginning of the period to the present, excluded.  (The arithmetic is
\* that of charts that begin at 0 or later.)
Bucket(rows, period, i) ==
    LET start == now - period
    IN  SumFunctionOnSet(rows, {t \in DOMAIN rows :
            start <= t /\ t < now /\ (t - start) \div (period \div Buckets) = i})

Chart(rows, period) ==
    LET series == [i \in 0..Buckets - 1 |-> Bucket(rows, period, i)] IN SumFunction(series)

-----------------------------------------------------------------------------
(* Properties. *)

Rows(times) == UNION {[ts -> Nat] : ts \in SUBSET times}

\* Every variable has the type its comment gives it.
TypeOK ==
    /\ now \in Time
    /\ carried \in [Users -> 0..MaxBytes] /\ counter \in [Users -> 0..MaxBytes]
    /\ prev \in [Users -> 0..MaxBytes]
    /\ \A u \in Users :
          /\ DOMAIN samples[u] \subseteq Time /\ DOMAIN hourly[u] \subseteq Hours
          /\ DOMAIN daily[u] \subseteq Days
          /\ Range(samples[u]) \cup Range(hourly[u]) \cup Range(daily[u]) \subseteq 0..MaxBytes
    /\ DOMAIN ops \subseteq Time /\ Range(ops) \subseteq Nat
    /\ opsPrev \in {None} \cup [{1} -> Nat]
    /\ scraped \in {None} \cup [Users -> 0..MaxBytes] /\ stamp \in Time \cup {Never}
    /\ {keep.minute, setting.minute, shortest} \subseteq {k.minute : k \in Retentions}
    /\ nextTick \in 0..MaxTime + 1
    /\ step \in {"idle", "aggregate", "delete_samples", "delete_hourly", "delete_ops"}
    /\ cutoffs \in [{"minute", "hour"} -> Time] /\ nextRun \in 0..MaxTime + 2 * DayLen
    /\ events \in 0..MaxEvents /\ mishaps \subseteq {"teleproxy", "retention"}

\* A quota is never charged for bytes that were not carried, whatever is restarted or
\* fails between a scrape, its transaction and the next scrape.
NeverOvercharged == \A u \in Users : SumFunction(daily[u]) <= carried[u]

\* As long as Teleproxy runs on, nothing is lost either: failed scrapes, failed
\* transactions, skipped duplicates and restarts of the panel only delay the charge.
NothingLost ==
    "teleproxy" \notin mishaps =>
        \A u \in Users : SumFunction(daily[u]) = prev[u] /\ prev[u] <= counter[u]

\* Never too much, and never too little without a restart of Teleproxy.
ChargedExactly == NeverOvercharged /\ NothingLost

\* The charts show everything once, whatever the retention was changed to.  At midnight the
\* chart of a period the retention has not reached adds up to what the quotas were charged
\* for its days; while no retention run is under way or was cut short, hourly rows and samples
\* together never show more than was charged; and the trend never shows more connections
\* than there were.
ShownOnce ==
    /\ \A u \in Users :
        /\ now % DayLen = 0 =>
              \A p \in {q \in Periods : q <= shortest /\ q <= now} :
                  Chart(samples[u], p) =
                      SumFunctionOnSet(daily[u], {d \in DOMAIN daily[u] : now - p <= d /\ d < now})
        /\ step = "idle" /\ "retention" \notin mishaps =>
              SumFunction(hourly[u]) + SumFunction(samples[u]) <= SumFunction(daily[u])
    /\ SumFunction(ops) <= SumFunction(carried)

\* query.go:72 says that for periods of at most 7 days the samples hold the data.
ShortPeriodsInSamples ==
    now % DayLen = 0 =>
        \A u \in Users : \A p \in {q \in Periods : q <= now} :
            Chart(samples[u], p) =
                SumFunctionOnSet(daily[u], {d \in DOMAIN daily[u] : now - p <= d /\ d < now})

\* proxy_settings.go:473 says that the panel path and the log level are what needs a restart:
\* the retention that has been saved is the one the next run goes by.
RetentionInForce ==
    [][step = "idle" /\ step' = "aggregate" => cutoffs'.minute = Before(setting.minute)]_vars

\* ops_store.go:104 says that the trend matches the traffic of the users, which misses nothing as
\* long as Teleproxy runs on: the rows grow with the counter.
OpsDeltasKept ==
    [][opsPrev # None /\ opsPrev' # opsPrev /\ "teleproxy" \notin mishaps =>
          SumFunction(ops') + opsPrev[1] = SumFunction(ops) + opsPrev'[1]]_vars

\* aggregate.go:89 says that an hourly row is the sum of the samples of its hour: with the
\* samples that are left, the hours of a day add up to the total of the day.
HourlyIsSum ==
    step = "idle" /\ events = 0 =>
        \A u \in Users : \A d \in {day \in DOMAIN daily[u] : day >= Before(keep.hour)} :
            daily[u][d] =
                SumFunctionOnSet(samples[u], {t \in DOMAIN samples[u] : DayOf(t) = d})
                + SumFunctionOnSet(hourly[u], {h \in DOMAIN hourly[u] : DayOf(h) = d})
=============================================================================
