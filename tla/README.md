# TLA+ models of MTProxyOrchestrator

MTProxyOrchestrator installs and runs a Telegram proxy (Teleproxy) on one host.
It consists of a web panel (`tgproxy-panel`, one Go process with several
goroutines) and a command line tool (`tgproxy-cli`). Both render the same
configuration files from the same SQLite database and drive the same systemd
units; no lock is shared between them or between the handlers of the panel.
That is where most of what can go wrong comes from, and what these models are
about.

Line references are to the sources at the modelled commit. `PROJECT.json` maps
every definition that models code to the lines it stands for.

- [1. The system](#1-the-system)
- [2. The modules](#2-the-modules)
- [3. The runs](#3-the-runs)
- [4. Fairness](#4-fairness)
- [5. Proofs](#5-proofs)
- [6. Where the code and its documents disagree](#6-where-the-code-and-its-documents-disagree)
- [7. What is not modelled](#7-what-is-not-modelled)
- [8. Plan](#8-plan)
- [9. Running it](#9-running-it)

## 1. The system

### Components

| Component | Code | State it keeps | Operations | What makes it correct |
|---|---|---|---|---|
| Users and configuration sync | `internal/panel/users.go`, `user_actions.go`, `internal/teleproxy/` | table `users`, `users.json`, `teleproxy.toml`, what Teleproxy has read | create, delete, toggle, rotate, quota, suspend, bulk forms; apply (list, write, write, reload); rollback | the live configuration is that of the database; a rollback undoes exactly its request |
| Quota service | `internal/quota/quota.go` | `quota_*` columns, `reloadPending` (memory) | tick: roll over, recalculate; the reset, set and suspend handlers | a user over its limit is suspended, and the configuration follows |
| Traffic sampler | `internal/metrics/sampler.go`, `ops_store.go` | counters of Teleproxy, `traffic_counters`, `traffic_samples`, `traffic_daily`, `ops_counters`, `ops_samples` | scrape, store, store the trend | no byte is charged twice or lost |
| Traffic retention | `internal/metrics/aggregate.go` | `traffic_hourly`, `traffic_samples`, `ops_samples`, its days (memory, settings) | aggregate, delete samples, delete hourly rows, delete the trend; set the days | charts neither lose nor repeat traffic |
| Updater | `internal/update/`, `internal/component/`, `cmd/tgproxy-cli/commands.go` | binaries, `.bak`, temporary files, times and history of the checks, services | check, download, back up, replace, restart, health check, roll back | a failed update leaves the binary it found; what was checked is installed |
| Runtime settings | `internal/panel/proxy_settings.go`, `internal/config/` | `config.toml`, table `settings`, the panel's memory, flags of the unit | save, save path, reload, restart | a saved setting is in force, and stays so unless it was cleared |
| Reconcile | `internal/reconcile/reconcile.go` | files and units rendered, services restarted | read, merge, write, daemon-reload, restart what changed | after a run in which nothing failed panel, nginx and Teleproxy have their files |
| Bridge mode | `internal/bridge/service.go`, `internal/panel/bridge.go` | `outbounds.json`, `sing-box.json`, sing-box, its unit, `bridge_mode` | enable, disable, their rollbacks, edit nodes, ping | the places that say which mode it is agree |
| Login and sessions | `internal/panel/routes.go`, `auth.go`, `rate_limit.go` | sessions, failed attempts | log in, log out, change the password | a changed password ends the sessions |
| Two-factor enrolment | `internal/panel/totp.go`, `internal/totp/` | pending secrets (memory), `totp_*` columns, recovery codes | begin, confirm, verify, disable, regenerate | a code whose use was stored is not accepted again; only confirmed secrets are enabled |
| ACME certificates | `internal/acme/`, `cmd/tgproxy-panel/acmeheal.go` | certificate files, renewal timer | issue, renew, upload, heal | key and certificate belong together |
| Backup and restore | `internal/backup/`, `cmd/tgproxy-cli/commands.go` | archive | create, restore | a restore gives back what was archived; one that gives up leaves what it wrote so far and touches nothing else |
| Installer | `internal/install/`, `cmd/tgproxy-cli/` | files, units, nginx sites | plan, run the steps, roll back, uninstall | what fails is undone; what was removed can be installed again |
| Stub site and nginx | `internal/stub/`, `internal/nginx/`, `internal/panel/settings.go`, `stub_remote.go` | web root, sites of nginx, cached listing of templates | apply a built-in, uploaded or remote template, roll back; render the sites | a template is applied whole or not at all; nginx runs with its files |
| Log stream, live dashboard | `internal/logstream/`, `internal/panel/logs.go`, `dashboard_sse.go` | one child process and one goroutine per log stream; streams counted per session | follow, filter, close; acquire, send, release | no line is lost; clients that leave cost nothing |
| Dashboard, charts, audit log, links, health page, page templates | `internal/metrics/query.go`, `internal/audit/`, `internal/secrets/`, `internal/health/`, `internal/panel/*_tmpl.go` | none, or one append-only table or file | read, render, append | pure functions, for tests |

### How they interact

- **Calls.** Handlers of the users and the quota service call the same function,
  `applyTeleproxyConfig` (`user_actions.go:742`). Handlers call `RecalcUser` of
  the quota service after changing a quota.
- **Shared state.** `teleproxy.toml` is written by user handlers, the quota
  ticker, the settings page, Bridge mode and `tgproxy-cli reconcile`. The panel's
  runtime configuration (`BridgeCfg`) is read and written by handlers without a
  lock.
- **Callbacks.** The quota service receives `ReloadFn`; the sampler a store
  function that writes the daily totals the quota service sums up.
- **Processes.** Teleproxy reads `teleproxy.toml` on SIGHUP (users only) and when
  it starts (everything). systemd restarts it, the panel and sing-box on failure.
  nginx serves the panel, the stub site and the ACME challenges with the sites and
  certificates it read at its last reload.
- **Two commands on one tree.** `tgproxy-cli` installs, removes, backs up and
  restores `/etc/tgproxy` while the panel, if it runs, goes on writing there.

### Hard behaviours

Concurrency without locks (two applies; a settings form and a reload; two
updaters), operations of several steps where each may fail (applies and bulk
forms, Enable and Disable, updates, templates, reconcile), state that is only in memory when the
process dies (`reloadPending`), decisions read from one place and acted upon
later (mode detection, the snapshot of a rollback, the latency test), retries of what may
have been done (reloads, orders of certificates, a second install), ends that are noticed
late or not at all (browsers, sessions, child processes), and
boundaries of time (periods, days, hours, retention cutoffs, the window of the rate limiter). `PROJECT.json`
lists them under `hazards`, each at its line with the properties that cover it.

## 2. The modules

| Module | Models | Composes |
|---|---|---|
| `UserSync` | users, apply, rollback, quota ticker, restarts and crashes | |
| `ConfigReplica` | abstract: what the panel promises of the service it configures | |
| `UserSyncHistory` | `UserSync` with the history of its table, and the refinement mapping | `UserSync`, `ConfigReplica` |
| `UserSyncProofs` | theorems about `UserSync`, the refinement to `ConfigReplica` among them | `UserSyncHistory` |
| `UpdateProofs`, `SettingsProofs`, `BridgeProofs`, `CertificatesProofs`, `AdminProofs` | theorems about the module of that name | that module |
| `DashboardProofs` | theorems about `Traffic`, `Quota` and `Streams`, and about sums | these three |
| `HostProofs` | theorems about `Install` and `Backup` | `Backup` |
| `Quota` | periods, charging, warning and suspension of one user over time | |
| `Traffic` | sampler, retention and its settings, charts | |
| `ComponentFile` | abstract: what an update promises of a binary and its backup | |
| `Update` | `tgproxy-cli update`: the checker and `Applier.Apply` | `ComponentFile` |
| `Site` | stub site, its templates, what nginx runs with | |
| `Settings` | settings form, panel path, start of the panel, reconcile | `Site` |
| `Bridge` | Enable, Disable, node handlers, rendering, reconcile, reboot | |
| `Certificates` | renewal loop, renewals by hand, uploads, healing | |
| `Admin` | login, sessions, rate limiter, second factor, passwords | |
| `Install` | install with its rollback, uninstall, reboot | |
| `Backup` | backup and restore, and what they do to the files of the panel | `Install` |
| `Streams` | log streams and dashboard streams | |
| `MC*` | small instances of the above for TLC | |

Common conventions: `pc[p]` is where a handler, tick or run is, `job[p]` its local
variables. Each action is one statement, file operation or systemctl call with
the early returns around it; actions whose name ends in `Fails` are the error
paths. `mishaps` and `faults` are history: which kinds of trouble there have been,
or how often. `Max...` constants bound counters, in the guards. Definitions
introduced by "Seeded fault" are plausible bugs: each one, put in the place of
the definition next to it, makes a property of a run fail.

### UserSync

`db` is the table `users`, keyed by label; a row is absent, live or deleted (the
panel deletes softly). `usersJSON` and `toml` are the files, `live` is what the
Teleproxy process accepts, `reloadPending` the field of the quota service. `written` is
how the last write of `teleproxy.toml` came out: `os.WriteFile` truncates and writes in
place, so that a list may end in whole entries of a longer one that another apply wrote
meanwhile (`joined`, which Teleproxy reads), or in half of one (`torn`, which it does not).

A handler goes `Begin...` (list the rows it needs) → `Mutate` (one statement per
row) → `List` → `WriteUsersJSON` → `TruncateTOML` → `WriteTOML` → `Reload` →
`Return`. `ApplyFails` ends the apply in any of these steps; a reload may fail
although the signal was delivered (`systemctl` ran into its limit, "unacked").
`Rollback` restores row by row what the handler noted; `RollbackFails` is a statement of it
that fails, whose error every handler drops. `lost` has the rows that the latest request
failed to restore, `stray` those since Teleproxy was last given the table. `Create` is split into
the two statements of the code, count and insert. The ticker visits every user:
`RolloverIfDue`, then `Recalculate`, each followed by an apply if a suspension has
changed; `RecordReload` is `runReload`. `PanelCrashes` empties all local state and
`reloadPending`; `TeleproxyRestarts` reads the file.

Traffic is abstracted to two sets chosen by the environment: `over` (users whose
charge has reached the limit) and `due` (users whose period has ended). `Quota`
and `Traffic` are about how they come to be.

`ConfigReplica` states the promise: Teleproxy serves the users of *one moment* of
the database, perhaps an old one, or nobody; once two have been at work at the same time
(`Overlap`), `WriteConfig` may overlay one list on another, and what is served is then
a list of one moment with entries of others (`Joined`), never one the table has not
admitted. `UserSyncHistory` adds the variable `past` and shows that `UserSync` implements it
with `current <- Eligible(db)`, `served <- live`, `overlaid <- written # "whole"`.

### Quota

One row and the traffic at each point of time. `CurrentStart` is the loop of
`RolloverIfDue`, `AddMonthClamped` the month arithmetic over a small calendar with
short months, `ChargedSince` the SQL sum over whole days. The ticker's two
transactions and the handlers' four steps interleave. Names begin with `Quota` where they are also
those of `Traffic` (`QuotaInit`, `QuotaSpec`), as in `Streams`, since one module of proofs extends them all.

### Traffic

Functions from time to bytes for the tables; a scrape and its two transactions (samples,
trend) are separate steps, the four statements of the retention as well. `carried` is
the history of what Teleproxy really transferred. Every byte is a connection too, so that
the trend of the global counters (`ops`, `opsPrev`) needs none of its own. `setting` is the
retention in the settings table, `keep` the one the panel was started with, `shortest` the least
one ever in force. `Chart` is what a chart of the dashboard adds up to. Hours and days have a
few ticks; a period is a number of days, and the buckets divide it, as 60 divides those of the code.

### Update

Builds are numbers; a build may be bad (it exits some time after its start).
`Busy` is the kernel's refusal to open an executing file for writing, which the
rollback of the code meets because it copies in place. `CheckAll` asks for one component
after the other (`todo`) and returns the upgrades (`queue`); `stamp` is the age of the file
with the time of the last check, which an automatic check respects, or that it is torn;
`seen` is the release on record. `clean` is history: nothing has failed so far.

`ComponentFile` states the promise for each binary the updater asks for its version: it
is at one whole version, which only an upgrade or the return to the version before
changes, or torn beside a whole backup. `Update` implements it with one updater at a time.

### Settings

The settings are those Teleproxy reads only at its start: `mask` stands for the ones the form
requires, `backend` for those it lets one clear (`Nothing`, the empty string); `path` is
the panel's own path. `Overridden` is the merge of the settings table, which takes an empty
row for none, `Domained` the rule that a certificate's domain becomes the mask host. The panel renders
from `mem`, reconcile from `config` and `db`. `svc` follows the units of Teleproxy and sing-box,
which reconcile writes without comparing them: which are of this release on disk, which
systemd has loaded, and which the service was started with.

`Site` has the files of the web root, what each of them is (the file of a template, the
page of an old installer, torn), and the items of nginx (files and links) that are as this
release renders them. A template is a set of files. `Snapshot`, `WritePage`, `Reload` and,
when something fails, `RemoveWritten` and `RestorePage` are `Applier.Apply`; `sound` is
whether nginx accepts the sites of others. The steps of reconcile about nginx are in
`Settings`, between those about the unit and the restarts, as in the code.

### Bridge

`list` is `outbounds.json`, `sbjson` the rendered file, `sb` what the process runs
with. A node is whether it is enabled and a revision that stands for everything an
edit changes. Suspending the user stands for any change of the users that renders
the file again.
With the round-robin strategy a rendering begins at `cursor`, which the list keeps, and is
followed by a save of the list with the cursor moved on; `first` is the node `sing-box.json`
begins with. `Down` stands for no process, and for a `sing-box.json` that is missing or torn.
`mode` is empty until a switch saves it: an install, in either mode, has no row of it, and
reconcile then goes by the file (`EffectiveMode`). Both installed modes are initial states.
`errs` remembers that a rollback met an error, `mishap` that the panel was killed in the midst of
a request, or told that a sing-box that runs does not (`Told`).

### Certificates

`pairs` lists every certificate ever made, by the loop, by hand or by an upload;
`certFile`, `keyFile` and `served` are indices into it, so that a file that belongs
to another pair, or to none, can be told from a good one. `pending` is the loop's
`pendingReloads`; a renewal by hand has a runner of its own, whose memory ends with
the request. `day` passes when the loop has had its turn and nobody is at work:
the loop ticks twice a day and a request takes minutes. `snippet` is what the file of nginx says
about the directory of the challenges, `webroot` what nginx has loaded. The loop heals with a
reconcile, which writes the snippet (`ReconcileSnippet`), may restart the panel
(`ReconcilePanel`), and restarts nginx (`Reconciled`), which then has the pair on disk as
well; it may fail before the snippet is written (`ReconcileFails`, "heal") or after
(`ReconcileStops`, "half heal").

### Admin

One administrator, as in the code. `account` is the row's second factor, `pending` the
logins that wait for one (memory), `attempts` the limiter's record of one address.
Secrets and codes are numbered as they are generated, so that `used` can tell which recovery
code which request was let in with. `CommitFails` is a transaction that is not committed,
of which `ConsumeRecoveryCode` returns true with an error that its callers drop: `unspent`
has these codes. Codes of the app may be used again while they are valid, in the code as in the model. Handlers check, which bcrypt makes slow, and then write;
each statement is a step.

### Install and Backup

`Install` is a host: the files that exist, the units enabled and running, the sites
enabled and the sites nginx has loaded. `Plan` is the list of steps the code builds, with
the splices of each mode at the places where the code makes them; `Possible` is what
a step needs, `Do` and `Undo` what it and its rollback do. A step may fail without
a cause, with or without having worked (a mishap), and must fail if what it needs is missing.

`Backup` extends it with what is *in* the files of the panel. A version is one
install or one change made in the panel; each file has the version last written to
it. `HandlerBegins` and `HandlerWrites` are a short form of the handlers of
`UserSync` and `Bridge`: a change writes its files one after the other. `wal` is a
committed version that is not in `panel.db` yet. Of systemctl only what it does is looked
at, as in the code: a service may not stop (`StopFails`: it goes on beside the restore, a
handler of the panel too), be killed (`KilledAtStop`), or not start (`StartFails`). An
archive may hold a database over the limit of a file (`WriteLargeArchive`), which the
restore refuses when it comes to it (`EntryRefused`), with the entries before it written.

### Streams

A log stream is `handler` (`handleLogsStream`), `reader` (the goroutine), `ch` (the channel)
and `child` (journalctl); `tab` is the browser's end, where a browser that has left takes one
more line before a write fails. Its context is that of a hijacked connection: it ends when
the handler returns (`Cancelled`), not before. `EndChild` lets the process end with part of
what it has read still in the pipe. A dashboard stream acquires a slot of its session,
sends a batch, waits for the next tick; `Deadline` is the `WriteTimeout` of the server,
after which its batch fails. A behaviour is about one of the two pages (`page`): they share
nothing but the session.

## 3. The runs

Passing runs:

| Run | Question | Bounds | States |
|---|---|---|---|
| `UserSync_faults` | Do all handlers and the ticker keep database, files and Teleproxy together when they do not overlap (`LiveInSync`, `DiskInSync`), are rollbacks exact but for statements that fail (`RollbackExact`), and does any interleaving implement `ConfigReplica`? | 2 users, 1 of them initially, or both and no event; all 11 operations, 1 request and the ticker, which may overlap, 1 quota event or crash | 1.1 M |
| `UserSync_ticker` | Does the retry make up for every failed apply while the panel lives (`RetriedUntilInSync`), and does a suspension take effect (`SuspensionTakesEffect`)? | 2 users, 3 quota events or crashes, fairness | 76,000 |
| `Update_faults` | Is what was checked installed, of all components but the panel (`RecordedIsInstalled`), and does the updater implement `ComponentFile`? | 3 components, 2 builds of each, 2 runs by hand or by timer, any failures and kills | 1.8 M |
| `Quota_periods` | Does a rollover end in the present period and a charge count exactly that period (`PresentPeriodCharged`), is the limit enforced by every tick? | 6 ticks of time, days of 2, weeks of 2 days, months of 1 to 3 days, 2 bytes, 2 requests | 1.3 M |
| `Traffic_faults` | Is each byte charged once (`ChargedExactly`) and shown once (`ShownOnce`), and do the charts of whole days add up to what was charged? | 4 ticks, hours and days of 2, samples kept for 2 or 4, charts of 2 and 4, 2 bytes, 2 failures, restarts or changes of the retention | 2.4 M |
| `Settings_faults` | Has a save that reports success taken effect, does reconcile apply what it writes, to the panel and nginx and as far as it restarts it to Teleproxy, is a template applied whole or not at all (`StubAtomic`)? | 2 hosts, TLS backends (one empty) and paths, templates of at most 3 files, 3 requests, runs, restarts or changes, any failures and kills | 0.72 M |
| `Bridge_faults` | Do the five places that record the mode agree and the files match (`PlacesAgree`), do switches and their rollbacks complete (`SwitchesComplete`)? | 2 nodes, either mode installed, 6 requests, 2 failures, kills or wrong answers, reboots before them | 3.1 M |
| `Certificates_faults` | Is nothing served that has expired (`NeverExpired`), a failed reload made up for (`ReloadRetried`), nothing ordered twice and a manual certificate kept (`OrdersJustified`)? | 6 days, certificates of 5 renewed 4 days ahead, 2 requests, 2 mishaps of 10 kinds, fairness | 2.3 M |
| `Admin_faults` | Is a recovery code whose use was stored accepted once, do sessions end, is what is enabled what was confirmed, are attempts limited? | 2 requests at a time, 4 in all, 4 ticks, lists of 2 codes, 2 mishaps of 4 kinds | 2.0 M |
| `Host_faults` | Is a failed install undone, does it fail only for a reason and can one start anew after uninstall (`InstallRepeats`), does a restore give back what was archived, or give up with what is before an entry written and nothing behind it touched (`RestoreInOrder`)? | every mode, 5 commands or reboots, 2 installs or changes, 1 mishap of 11 kinds | 2.9 M |
| `Streams_faults` | Is no line lost, repeated or overtaken (`InOrder`), do browsers that leave cost nothing for long (`LeaversReleased`), are slots given back (`SlotsReturned`)? | 1 log stream with a channel of 1 and 4 lines, or 2 dashboard streams of 2 sessions and 4 requests, fairness | 94,000 |

Why the bounds are enough. Two users are needed because one user's failure must
not disturb another, and because bulk forms need a row that was done and one that
was not; the theorems of section 5 cover every number. In `UserSync_faults` one request and
one tick are the two writers that may overlap; handlers among themselves run
through the same steps. One event is what makes a tick apply; its pending reload may
meet the handler. Both users from the start, without an event, are for the bulk forms:
a rollback of two rows, of which the first fails, and two lists of two lengths in one file. In `Quota_periods` six ticks see three
days, so that several daily periods end while nobody looks and a month is
clamped. In `Traffic_faults` four ticks see two retention runs and a cutoff that
falls inside an hour. In `Update_faults` two runs are a failure, or a kill, and the run
that comes upon what it left; two builds suffice since an upgrade is always to the latest.
Three steps of `Settings_faults` are a save, a restart and a reconcile, or three templates;
each of the three files of a template is written over an old one, or anew, or torn. Two mishaps in
`Certificates_faults` are a failed order or write and a failed reload after it, or an
overlap and a failure (or a reconcile that stops half-way); 6 days see a renewal, its retries and the next one, and the
margin of 4 days is longer than the mishaps. Two requests at a time in `Admin_faults`
are the pairs of check and write that may interleave; 4 in all are a login of two
steps and an enrolment of two, or a change between them. Five commands of `Host_faults`
are install, backup, another install or change, uninstall and restore, with what the
panel does in between; one mishap is the failure, and what follows from it is done
by the code.
Two faults in
`Bridge_faults` are a call that fails, or a kill, and one in the rollback or the switch that follows. Reboots
are explored before the first fault only: nodes edited while sing-box is stopped but still
enabled, which a failed Disable leaves, are not rendered before a reboot starts it
with the old file.

In `Streams_faults` four lines and a channel of one are enough for a line to be shown, one
to be held by the handler, one in the channel and one in the goroutine. Two streams
and two sessions are one that takes the slot and one that wants it; the constant of the code
is one slot.

`LiveInSync`, `DiskInSync` and `RollbackExact` say nothing about a behaviour once two
processes have overlapped (`mishaps`); `ImplementsReplica` is about those as well.
`Admin_faults` has SYMMETRY over the two requests; it checks safety only.
Bounded counters end the behaviours of `Quota`, `Traffic`, `Update`, `Settings`,
`Bridge`, `Admin`, `Backup` and `Streams`, hence `CHECK_DEADLOCK FALSE` there. `UserSync` and `Certificates` never stop: the ticker and the loop tick.

One run shows a disagreement (section 6): `UserSync_race`.

## 4. Fairness

`UserSync` has liveness properties under `FairSpec`:

- weak fairness of the ticker's goroutine: `RunPeriodic` is a `time.Ticker` loop
  that nothing blocks for ever, since systemctl is run with a limit of ten seconds;
- weak fairness of a handler that has begun: a goroutine of `net/http`;
- strong fairness of each step of the ticker's apply: an apply that is retried for ever
  succeeds in the end. Without it a disk that stays full refutes everything; with
  it the question is whether the code *does* retry.

`Certificates` has one (`ReloadRetried`), under its `FairSpec`: weak fairness of the
renewal loop (a goroutine with a timer), of the passing of days once the loop has had
its turn, and of requests that have begun. Nothing is assumed of the authority or of nginx;
mishaps are bounded, so they end.

`Streams` has two, under its `FairSpec`: weak fairness of the handler and the goroutine of
each log stream and of the kernel, which kills the child it is told to kill; weak fairness
of the steps of a dashboard stream, whose ticker fires every five seconds, and strong
fairness of seeing the end of its context, since `select` chooses among the ready cases at
random and the ticker is ready again and again. A browser that does not read may do so
for ever, and the journal may stay silent: `LeaversReleased` is worded for that.

Nothing is assumed of the administrator, of traffic, or of requests being made.

## 5. Proofs

The runs show a property on a small instance; the theorems below hold for every value of the
constants that the assumptions of the module allow. `PROJECT.json` lists them. Each rests on
an inductive invariant, which TLC has checked on the run's instance before it was proved,
and on one lemma per action, or per group of actions that touch the same part of the state.

| Module | Theorems | Inductive invariant |
|---|---|---|
| `UserSyncProofs` | `TypeCorrect`, `LiveInSyncHolds`, `DiskInSyncHolds`, `RollbackExactHolds`, `ImplementsReplicaHolds` | `Inductive`, `Published`, `Undisturbed` |
| `UpdateProofs` | `TypeCorrect`, `ImplementsFilesHolds`, `RecoverableHolds`, `RecordedIsInstalledHolds` | `WellTyped`, `FilesOK`, `RecordsOK` |
| `SettingsProofs` | `TypeCorrect`, `SavedInForceHolds`, `ReconcileAppliesHolds`, `StubAtomicHolds` | `OneAtWork`, `Resting`, `Reconciling`, `Saving`, `Panelled`, `Replacing` |
| `BridgeProofs` | `TypeCorrect`, `PlacesAgreeHolds`, `SwitchesCompleteHolds`, `ModePreservedAlone` | `OneAtWork`, `Rest`, `Doing` |
| `CertificatesProofs` | `TypeCorrect`, `OrdersJustifiedHolds`, `NeverExpiredHolds` | `WellTyped`, `Undisturbed`, `Governed`, `Healed`, `Paid` |
| `AdminProofs` | `TypeCorrect`, `CodeOnceHolds`, `SessionsEndHolds`, `EnrolledHolds`, `ThrottledHolds` | `WellTyped`, `CodesSpent`, `SessionsInForce`, `EnrolledAlone`, `Limited` |
| `DashboardProofs` | `TrafficTypeCorrect`, `ChargedExactlyHolds`, `ShownOnceHolds` | `TrafficInv` (`Shaped`, `Accounts`, `Trend`, `Charts`) |
| | `QuotaTypeCorrect`, `PresentPeriodChargedHolds`, `EnforcedByTickHolds` | `QuotaInv` |
| | `StreamsTypeCorrect`, `OneStreamHolds`, `InOrderHolds` | `LogsOK`, `SlotsOK`, `Ordered` |
| `HostProofs` | `TypeCorrect`, `RestoreInOrderHolds`, `RollbackCleanHolds`, `InstallRepeatsHolds` | `HostInv` |

What the constants are assumed to be: bounds and lengths are natural numbers; requests and
dashboards and users are finite sets, where they are counted or summed over; the clock of `Admin`
has at least one tick, and its window is shorter than its block, as five minutes are than an hour
(`rate_limit.go:9`); an hour of `Traffic` divides a day, and the buckets divide a period; the
calendar of `Quota` has a month after the last day there is, as `time.Date` always has; `Order` names no component twice, as the literal list in `CheckAll` does; what marks a torn, an
old or a default file in `Site` is no built-in template. Theorems with a
hypothesis of their own say so below.

### UserSync

`ImplementsReplicaHolds` has no hypothesis: it is about requests and ticks that overlap, fail at
any step and crash. `Published` is its invariant: what an apply has listed and not yet written is
one value the table has had; what `teleproxy.toml` holds is one such value, or nothing, and,
where one list has been written over another, one of them with entries of others. `Undisturbed`
is why that takes an overlap: until then the file is empty when its writer comes to write it. A
step then changes the table, or notes the first overlap, or writes the file, or serves it, or
does none of these, and each of them is one of `ConfigReplica`.

The other three assume `~StaleForms`: no bulk form names a user that was deleted
after the page was rendered. With such forms `RollbackExact` is false (section 6).

None of these three properties is inductive: they speak about a system at rest,
and what is true at rest depends on what a handler knew on its way there.
`Inductive` says what that is. `Alone`: as long as nothing has overlapped at most one
process is at work. For that process `Sound` states three layers, each under the
mishaps it survives:

1. `Private` (no overlap, no crash): rolling back from here restores the rows the
   handler found (`Undoable`) but those of `lost`, rows still to be visited are untouched,
   what an apply has listed is what the database admits now.
2. `Served` (failed applies and rollback statements only): before the apply Teleproxy
   serves the snapshot the handler began with, after it the database, both but for the
   users of `stray` (`Agree`), or else the quota service owes an apply.
3. `Stored` (restarts of Teleproxy and failed rollback statements only): the same of the
   two files.

Each action has a lemma that it preserves `Inductive`; `StepOfOne` deals with the
processes that do not move, so that each lemma only argues about the one that
does.

### Update

Types hold for any number of updaters (`WellTyped` adds that who checks, or applies, has
something to). The other three theorems assume `Alone`, that there is one updater: two of them
share the backup and the temporary path, and section 6 has what comes of that. Failures and
kills of every kind are included, and `Recoverable` is proved of all components but the panel,
for which it is false.

`FilesOK` says where the files of the component in hand are at each step of `Apply` (`Staged`:
from `replace` on the backup is the whole binary there was, from `chown` on the installed one
is the new build), that the components still in the queue are as the check found them
(`Planned`), and that a torn binary lies beside a whole backup (`Spared`). With it each step
maps to a step of `ComponentFile`, or to none: that is `ImplementsFilesHolds`, the refinement
step by step. `Kept` follows a good release on record to its installation, as long as nothing
has failed.

`RecordedIsInstalled` is not about the panel. The proof does not go through for the
panel, and for a good reason: the limit of 18 hours is kept for each component
(`checker.go:137-150`), so an automatic check may find a new `tgproxy-cli`, skip the panel, and
from then on take the panel's version to be that of `tgproxy-cli`: it is never offered the
release that is on record. TLC finds that with three runs, and the two of `Update_faults` had
hidden it; `PanelRecordedIsInstalled` in `Update_refuted.cfg` is the counterexample. The run and
the theorem are about the other components (checked with three runs as well, 7.4 M states).

### Settings and Site

Types hold whatever overlaps. They need that a rollback only writes back files of its snapshot
(`WellTyped`), since what it writes is read from there, and that the least element of a set of numbers
that is not empty is one of them (`MinIn`, from the well-founded order of the natural numbers),
since files and items are written in their order.

The other theorems assume `OneByOne` (`MaxActive = 1`): one request, or one run of reconcile, at
a time. Nothing in the code makes it so (two templates at once break `StubAtomic`, section 6).
Failures and kills are included; an edit of `config.toml` or of another site of nginx, a
restart of a service, and the expiry of the cache may come between any two steps.

`InForce` is what the settings satisfy between two runs. The panel renders its memory, reconcile
the settings table over `config.toml`, so that they agree only because the memory is always what a
start of the panel with the loaded flags would read (`mem = Rendered(Overridden(loaded))`).
`Saving` follows the rows of a form until they are in force, whatever failed before; `Panelled` and
`Reconciling` carry `InForce` through a request and a run, with what the run still owes the
services: a service that does not have what its file says is one the run has marked as
changed. All of it is about the settings that were not cleared (`Held`): an empty row is in force
in the panel's memory from the save to the next start, and nowhere else after it. `UnitsKnown`
follows the units of Teleproxy and sing-box to systemd, and to Teleproxy if the run restarts it. `Replacing` is what a template has done to the web root.

`SavedInForceHolds` also assumes that the panel has no domain of its own. With one, save a mask
host and then run reconcile: it renders the domain, the panel's memory keeps the host, and `SavedInForce` is false
with no failure and no overlap (the cause is the one of `DatabaseFirst` in section 6).
`ReconcileAppliesHolds` and `StubAtomicHolds` need no such thing. `InForce` allows for the domain,
and the invariant has been checked by TLC with one and without.

### Bridge

Types hold however many requests overlap; they rest on what the rendering does with any list of
nodes (`NthType`: the numbering of the enabled nodes leaves none out; `AdvancedParts`: the list whose
cursor has been moved on says what was rendered).

The other theorems assume `OneByOne` (`MaxActive = 1`): one request at a time, as in
`Bridge_faults`. The code has no lock that would make it so, and two at once break the
properties (section 6). Failing calls, kills, wrong answers of `is-active`, and reboots
are included. `PlacesAgreeHolds` also takes reboots to come before the first failure: a
reboot after it shows what a rollback has not enabled (`SurvivesReboot`).

`Doing` says, step by step, what the request at work has found and already done: `Reading` (nothing
is written, what it has read is still there), `Saved` (the list is the new one, `sing-box.json`
fits the old one), `Enabling`, `RollingBack`, `Disabling` and `Rendering`. `Settled` is what it
starts from and must leave; it has a part for no failure (`Agreed`) and one for at most one (`Fresh`).
`SwitchesComplete` follows from the last steps of `Doing` alone. The invariant has been checked by
TLC on two nodes and two handlers, with reboots before and after failures.

### Certificates

The properties speak of what has been written and served; what makes them inductive is what
each process at work still owes. `Undisturbed`: while nothing has overlapped at most one
process is at work, and while no write failed and no restart cut one off, the files hold the
newest pair but for a process between its two writes; an order of the loop is due. `Governed`: a
manual certificate and automatic renewal exclude each other but for an upload between its two
statements. Together they give `OrdersJustified`.

`NeverExpired` is a matter of accounts. `Paid` says that every turn of the loop that leaves nginx with
a certificate that is due costs a mishap, or healed the setup: either automatic renewal
has been on for no more days than that, or the certificate in use is as many days fresher.
The margin is longer than the mishaps there can be (`MaxMishaps + 1 < RenewDays`, a hypothesis
of the property, not of the theorem), so that it is renewed in time. `Healed` is that the loop orders
when the file of nginx names the directory of the challenges, which is what it looks at; `Wired`
that nginx then serves it. `Wired` fails once a reconcile stops half-way, and no later turn
repairs it (`HealRetried`, section 6): hence `NeverExpired` is about reconciles that fail before
they have written anything.

### Admin

`WellTyped` counts the requests at work (`Budget`), which is what bounds the failures and the
passwords. `CodesSpent`: a recovery code that has been accepted is in no row, unless its transaction was not
committed (`unspent`), and the numbers of new codes are above all old ones; since the row is read
and written in one transaction (`totp.go:108`), two requests cannot both find it. `SessionsInForce` is `SessionsEnd` with the order of the
two times of a session. `EnrolledAlone`: without an overlap a handler that is about to enable is alone
with the account it has read.

`Limited` is what `Throttled` needs. `Recorded`: the counter in memory is the number of failures in
its window, the window before was not filled (or the address would have been blocked past it),
and an address that is blocked has not failed since. `Allowed`: requests that were let in before the last
failure was counted are the only ones that go beyond the limit. A span as long as the window meets
at most two windows, which is where twice the limit less one comes from. The proof does not go through when the
window may be as long as the block: with a limit of one the next failure may then fall on the last
tick of the span, one too many. Hence the assumption, which the constants of the code satisfy by far.

### Traffic

Sums over the rows of a table are folds, defined by choosing one element after the other. The
first part of `DashboardProofs` proves from that definition what sums are: a set's sum is a number,
any of its elements may be taken out first, disjoint sets add up, a table grouped by a key has
the same sum as the one before. There is no induction over data in it, which the provers do not have: each of
these laws takes a smallest counterexample, which exists because the natural numbers are well
founded, and finds a smaller one.

`Shaped` is the types, with what bounds them: a table's rows are multiples of an hour or a day, and
none exceeds what its user has transferred. `Accounts` follows a byte of a user from the counter through the
scrape to the row it is charged to: what was charged, and what a scrape of now, or the one that is
held, would add to it, is never more than was carried; and exactly the counter that was stored last, as
long as Teleproxy runs on. `Trend` is the same of the sum over all users. `Charts` is the retention: hourly rows and the
samples that remain show no more than was charged, at each of its steps (while samples wait to be deleted,
they are in both), and a day whose samples no cutoff can have reached yet has
them all. `ShownOnceHolds` then cuts the chart of a period into its buckets.

### Quota

`QuotaInv` says that a period, in the row and in the copy that a handler has read, begins with a
day, and not in the future. Everything else is arithmetic: a period ends a day after
it began at the earliest (`PeriodEnds`; for months `NextMonth`, which is where the calendar must go
on), so that the loop of `RolloverIfDue` has reached the present after as many turns as there are days
(`PresentPeriod`); and the days since the beginning of a day are the times since then (`DaysSince`),
so that a sum over `traffic_daily` is one over what was transferred. No theorem has a hypothesis: rollbacks, failed
applies, resets and ticks may come in any order.

### Streams

`LogsOK` relates the four parties of a log stream: which states of the goroutine, the channel and
journalctl go with which state of the handler. `Ordered` is the pipeline as a
sequence: what the tab shows, the handler holds, the channel has and the goroutine is about to send,
one after the other, are the matching lines read so far. Sending, receiving and showing move a line
inside the sequence, scanning appends one; a stream that is closed stops with a prefix. `SlotsOK`: the
limiter counts the streams that are between acquire and release (`OneStream`).

### Install and Backup

No theorem has a hypothesis: any choices, commands, mishaps and changes in any number and order.
`HostInv` first has the types, for which every step of every plan must be one that exists
(`PlanTyped`), and which say that a restore is alone with the files if it could stop all
services (`Alone`). `Read`: an archive that nothing has disturbed is of one state, since a
change or a checkpoint while it is read clears `calm`. `Restore` is what a restore knows of itself.
`Undisturbed`: as long as it is alone, `Progress` says that before the n-th entry those before it
are what the archive has and the others as they were when the services had stopped (`AsWritten`), which at
the end is `WrittenInOrder`, or everything restored. `Starting` then relates what runs to
the mode that was detected. `Uninstall`: what each of its
parts has removed, unless something failed.

For `InstallRepeatsHolds` and `RollbackCleanHolds` the plan is put in order first, for every choice
(`PlanOrdered`): the directories before anything else and each after the one it is in, every file
before the step that needs it, wherever the sites and sing-box are inserted, and the start of the panel
last. From that, `DirsFirst` and `InOrder` say what the first steps of a plan have brought and
may bring. `Journalled` is the invariant of the rollback: what is on the disk, enabled or
running was found, or is the order's, or was brought by the steps that are done and not undone
yet; it needs that what is in a directory keeps it (`Keeps`), or a directory that stays because it
is not empty would be a remainder, and that the panel is not running yet, or its handlers would
write files that no journal knows (`NoPanelYet`). `Provided` is that of the other way: with nothing
failed and nginx in order from the start there is no rollback, and the next step finds what it
needs (`NextPossible`).

The attempt to prove the refused restore corrected the model twice. `RunsAgain` had
every service running again that was found running. One whose unit or binary a rollback
took away while a failed undo left it running cannot be started again, which takes two failed
undos, so that the run with one mishap had not shown it; the property now says so
(`Startable`). And a handler of the panel writes most files with their directories (`MkdirAll`,
`user_actions.go:797`, `bridge.go:414`), but not `users.json`; it now does so in `HandlerWrites`.

### Only model-checked

- **Liveness:** `EventuallyInSync`, `RetriedUntilInSync`, `SuspensionTakesEffect`, `ReloadRetried`,
  `LeaversReleased` and the part of `SlotsReturned` that says "eventually". Fairness is out of
  the prover's reach.

Every safety property of the passing runs is proved, under the hypotheses named above.

### What the properties leave open

Some are weaker than the sentence one would like to have, because the code does not have that
one; the hazards of `PROJECT.json` say it at their lines.

- `Throttled` is not the "5 per IP per 5 minutes" of `docs/SECURITY.md:46`. Windows begin with
  a failure and are not sliding: a span of five minutes may see the end of one and the beginning of
  the next, nine failures in all, and one more for each request that is let in while another one is
  handled. The bound of the property counts every mishap in this place, also a failing statement,
  a failing commit or a restart, which forgets the counter.
- `CodeOnce` is about recovery codes whose use was stored; `SingleUse` below is the sentence of the
  documents. Codes of the app are not covered: the code keeps no record of them.
- `Enrolled` is about enrolments that do not overlap (`EnrolledAlways` below); `SessionsEnd` excludes a
  failed statement or a crash of the panel between the new password and the deletion of
  the sessions, after which the old ones stay.
- `RecordedIsInstalled` ends with the first failure: a release that was recorded before it
  failed to install stays recorded.
- `SavedInForce` and `ReconcileApplies` are about settings that were not cleared, and of
  Teleproxy's unit about a run that restarts it (`ClearedStays`, `ServicesReloaded` below).
- `NeverExpired` and `OrdersJustified` are about the loop and requests that do not overlap, and about
  reconciles that fail before they have written anything (`HealRetried`, `ManualStays`,
  `HandedOver` below).
- `RestoreInOrder` is about a restore that could stop the services; of the archive it takes back
  one that was made at rest (`BackupComplete` below).
- `SlotsReturned` is about dashboard streams; a log stream has no slot (`LogsEndWithSession` below).
- `InOrder` covers a journalctl that does not start, not one that ends with an error
  (`FailureReported` below).

## 6. Where the code and its documents disagree

One has a run and a finding in `PROJECT.json`:

| Run | Property | What happens |
|---|---|---|
| `UserSync_race` | `EventuallyInSync` | A rotation and a tick apply at the same time; the one that listed first writes last. Both succeed, nothing is pending, Teleproxy keeps the old secrets. `quota.go:41` promises that this cannot last. |

The others are kept as configurations that TLC refutes, for whoever changes that code.
There is one for each module, which names one property and has the others in comments,
with the constants they need when these differ:

| Configuration (module) | Property | What happens |
|---|---|---|
| `Update_refuted` (`MCUpdate`) | `BackupRestored` | The rollback opens the installed binary for writing; an unhealthy build that is being executed makes that fail, and the new build stays. `docs/SECURITY.md:89`. |
| `Bridge_refuted` (`MCBridge`) | `SuspendedExcluded` | Enable and Disable filter users by `Enabled` and `DeletedAt` only: switching the mode readmits suspended users. `docs/SECURITY.md:67`. |
| `Traffic_refuted` (`MCTraffic`) | `HourlyIsSum` | `INSERT OR REPLACE` with a cutoff inside an hour: the next run replaces the row of that hour by the sum of its rest. `aggregate.go:89`. |
| `Traffic_refuted` (`MCTraffic`) | `ShortPeriodsInSamples` | A retention of less than 7 days, which the form accepts, leaves the chart of 7 days incomplete, against `query.go:72`. |
| `Traffic_refuted` (`MCTraffic`) | `RetentionInForce` | The retention is read when the panel starts; the page says that only the panel path and the log level need a restart (`proxy_settings.go:473`). |
| `Traffic_refuted` (`MCTraffic`) | `OpsDeltasKept` | Where a restart of the panel makes two scrapes in one second, the trend skips the second one's row but stores its counters: what `Store` leaves to the next sample is lost (`ops_store.go:74`). |
| `UserSync_refuted` (`MCUserSync`) | `EventuallyInSync` | The panel dies between the commit of a suspension and its apply; the pending reload was in memory and the start renders nothing. |
| `UserSync_refuted` (`MCUserSync`) | `RenderedWithinLimit` | Only `Create` checks the limit of active users; enabling more writes more entries than `users.go:19` allows. |
| `UserSync_refuted` (`MCUserSync`) | `LabelReusable` | `UNIQUE(label)` covers deleted rows: the label of a deleted user is refused, against `users.go:334`. |
| `UserSync_refuted` (`MCUserSync`) | `RestoresOnlyItsOwn` | The rollback of a bulk deletion restores a user that had been deleted before. |
| `UserSync_refuted` (`MCUserSync`) | `SecretsRestoredOnDisk` | A rolled back rotation leaves the rotated secrets in the files. |
| `UserSync_refuted` (`MCUserSyncHistory`) | `OneMoment` | Two applies write `teleproxy.toml` in place at the same time: the end of the longer list stays behind the shorter one, and Teleproxy serves users of two moments (`user_actions.go:800`). |
| `Quota_refuted` (`MCQuota`) | `WarnedOncePerPeriod` | A rollback restores the flag of a warning given meanwhile; it is given again. |
| `Quota_refuted` (`MCQuota`) | `ResetLifts` | A reset starts at the beginning of the day, whose traffic suspends the user again at once. |
| `Quota_refuted` (`MCQuota`) | `ResetKeepsByHand` | A reset lifts a suspension by hand as well. |
| `Update_refuted` (`MCUpdate`) | `NeverLeftBroken` | The health check asks once whether the unit is active; a build that exits after that stays, against `apply.go:105`. |
| `Update_refuted` (`MCUpdate`) | `PanelRecoverable` | A rollback that fails half-way leaves the panel torn. Its version is that of `tgproxy-cli`, so the next update copies the torn file over the whole backup. |
| `Update_refuted` (`MCUpdate`) | `RollbackToPrevious` | Two updaters share the path of the backup. |
| `Update_refuted` (`MCUpdate`) | `ComparesInstalledVersion` | The panel's version is taken to be that of the running `tgproxy-cli`. |
| `Update_refuted` (`MCUpdate`) | `RenderedByInstalled` | After an update of `tgproxy-cli` the old process renders the configuration. |
| `Update_refuted` (`MCUpdate`) | `PanelRecordedIsInstalled` | An automatic check may ask for `tgproxy-cli` and skip the panel, whose own limit of 18 hours has not passed; after the upgrade the panel's version is taken to be the new one, and the release on record is never installed (`checker.go:137`). |
| `Settings_refuted` (`MCSettings`) | `ReconcileRepairs` | After a run that failed between a write and a restart, the next one finds nothing changed and restarts nothing. |
| `Settings_refuted` (`MCSettings`) | `ServicesReloaded` | The units of Teleproxy and sing-box are written without comparing them and without a restart: the services go on as they were started (`reconcile.go:88`, `:129`), against `commands.go:176`. |
| `Settings_refuted` (`MCSettings`) | `ClearedStays` | An empty row is ignored when the panel starts (`tgproxy-panel/main.go:106`): a TLS backend or a wildcard mask that was cleared in the form comes back. |
| `Settings_refuted` (`MCSettings`) | `DatabaseFirst` | The domain of a certificate replaces a mask host saved in the database. |
| `Settings_refuted` (`MCSettings`) | `PathAfterRestart` | A restart of the panel does not read the panel path from the database. |
| `Settings_refuted` (`MCSettings`) | `StubAtomic` | Two templates applied at once, without a lock: each rolls back to what it found, and the files of both stay. |
| `Settings_refuted` (`MCSettings`) | `FailedLeavesNothing` | A new file whose write fails is not in the list of what was written; it stays, truncated, against `apply.go:35`. |
| `Settings_refuted` (`MCSettings`) | `RemoteComplete` | The listing of the repository is half an hour old: a template is applied without the files that are new, and reported as applied. |
| `Bridge_refuted` (`MCBridge`) | `ModePreserved` | Rendering the users writes back the mode detected before a switch. |
| `Bridge_refuted` (`MCBridge`) | `SurvivesReboot` | A rolled back Disable starts sing-box but does not enable it. |
| `Bridge_refuted` (`MCBridge`) | `SwitchRecorded` | The mode is saved last and an error there ignored: the next reconcile takes the switch back (`bridge.go:118`, `bridge.go:214`), against `bridge_internal_test.go:405`. |
| `Bridge_refuted` (`MCBridge`) | `ReconcileForwards` | The setting goes before the file: after a rolled back Enable, a Disable whose setting was not saved or a kill, reconcile writes an upstream to a sing-box that is down, against `reconcile.go:53`. |
| `Bridge_refuted` (`MCBridge`) | `RenderReported` | `systemctl is-active` fails, or meets sing-box between a crash and its restart: the nodes are saved, nothing is rendered, and the request ends as done, against `bridge.go:1405`. |
| `Bridge_refuted` (`MCBridge`) | `RunsEnabledNodes` | Editing nodes renders `sing-box.json` and does not restart sing-box. |
| `Certificates_refuted` (`MCCertificates`) | `HandedOver` | A renewal by hand whose reload fails remembers that in a runner of its own; nobody retries, though `runner.go:64-68` says the loop does. |
| `Certificates_refuted` (`MCCertificates`) | `HealRetried` | A reconcile that fails between the snippet and the restart of nginx leaves nothing stale to see (`acmeheal.go:16`): the loop orders, nginx does not answer, and the setup is never healed again, against `acmeheal.go:28`. |
| `Certificates_refuted` (`MCCertificates`) | `WritesRecovered` | A certificate without its key is new on disk but cannot be loaded, and none that parses no more is ever due: neither is ordered again before the one in use expires. |
| `Certificates_refuted` (`MCCertificates`) | `ManualStays` | An order that was under way overwrites the certificate uploaded meanwhile, against `settings.go:672`. |
| `Certificates_refuted` (`MCCertificates`) | `RevertRenews` | After the manual override is cleared the next tick obtains nothing as long as the manual certificate is not due, against `settings.go:755`. |
| `Admin_refuted` (`MCAdmin`) | `EnrolledAlways` | An enrolment that begins while another one is being confirmed replaces the secret; the confirmation enables it unconfirmed, against `totp.go:333`. |
| `Admin_refuted` (`MCAdmin`) | `SingleUse` | The transaction that takes a recovery code off the list is not committed: `ConsumeRecoveryCode` returns true with the error (`totp/totp.go:145`), the callers drop it, and the code is accepted again, against `docs/SECURITY.md:55`. |
| `Streams_refuted` (`Streams`) | `FailureReported` | How journalctl ended is not looked at (`stream.go:221`): a failure closes the stream normally, against `logs.go:139`. |
| `Streams_refuted` (`Streams`) | `LeaversNoticed` | The context of a connection taken over by a WebSocket does not end when the browser leaves; without a second line handler, goroutine and journalctl stay. `logs.go:137`. |
| `Streams_refuted` (`Streams`) | `LogsEndWithSession` | A log stream goes on after the session it was opened by has ended. |
| `Host_refuted` (`Backup`) | `StubConfigRemoved` | Uninstall leaves the sites `tgproxy-stub-tls` and `tgproxy-panel`, whose certificate it removes: nginx refuses its configuration, and does not start after a reboot. `docs/OPERATIONS.md:424`. |
| `Host_refuted` (`Backup`) | `RetryAccepted` | The account key is stored before the order of the first certificate. When the order fails, `/etc/tgproxy` exists and the next attempt is told that the proxy is installed (`main.go:101`). |
| `Host_refuted` (`Backup`) | `RolledBackExactly` | Binaries that lay where they are installed are removed by the rollback. `installer.go:59`. |
| `Host_refuted` (`Backup`) | `BackupComplete` | The archive has `panel.db` without its WAL, where the last transactions are. `docs/OPERATIONS.md:267`. |
| `Host_refuted` (`Backup`) | `ValidatedFirst` | The entries are looked at one by one: an archive whose database is too large is refused when the files before it have been overwritten (`restore.go:142-189`), against `docs/OPERATIONS.md:281`. |
| `Host_refuted` (`Backup`) | `ServicesRestarted` | The error of `systemctl start` is dropped (`commands.go:457`), and `commands.go:408` prints "Restore complete. Services restarted." |
| `Host_refuted` (`Backup`) | `RestoredReadable` | A panel that was killed leaves a WAL, beside which the restored database is not the one archived. |
| `Host_refuted` (`Backup`) | `RestoredModeRuns` | An archive of Bridge mode on a host that never had it: no sing-box to start, Teleproxy forwards to nobody. |

Seen while reading, without a property of their own: regenerating the recovery
codes accepts a code of the app only (`totp.go:486`), while `docs/OPERATIONS.md:199`
offers a recovery code as well; `README.md:54` of the repository gives `--panel-cert` a
path below `/etc/tgproxy`, whose existence makes install refuse; the standalone
challenge of an install needs port 80, which nginx holds after an uninstall;
`parseVersion` puts the number of a fix after as many parts as a version has, so that
versions of different lengths compare it with a part (`checker.go:217`); a torn time of
the last check makes every automatic check fail until one by hand (`checker.go:495`);
the server's `WriteTimeout` of 60 seconds (`main.go:93`) ends every dashboard stream before
the ten minutes of `dashboardSSEMaxLifetime`; the listing of the templates is
fetched with the lock of its cache held (`stub_remote.go:58`); the log level is saved and merged
(`dbsettings.go:120`), but no process reads it, restarted or not, against `proxy_settings.go:473`.

## 7. What is not modelled

- **In `Admin`:** CSRF tokens, cookies, several addresses of one client. **In
  `Certificates`:** self-signed certificates, the DNS check. **In `Install`:** prompts, a
  certificate given by hand, the preflight checks of the machine (memory, disk,
  version), the system user, the patch of `nginx.conf`. **In `Backup`:** the
  directory of stub templates; of the limits of size and number all but the one for a file, which is met
  by the database only; entries a backup never makes (links, paths out of the directory), which are refused at the
  same place; an archive changed on its way (it is refused like a wrong passphrase).
- **Page templates, queries, parsing, generation of secrets and links, the text of nginx's
  files and of the stub site, health page.** Pure functions or text; no state beyond one file.
- **In `Site`:** the checks of the content of an archive, of which one decides here (an HTML file at
  the root); directories, which a rollback leaves behind empty.
- **In `Traffic`:** the number of open connections, of which each row keeps the maximum; the
  lists of users by traffic; the chart of an hour.
- **In `Update`:** the history file but for its newest release; which asset of a release is taken.
- **In `Streams`:** the text of the lines and its redaction, the search; the download of the last lines.
- **In `Settings`:** the text of the units of Teleproxy and sing-box, which depends on paths only: a unit is of
  this release or of an older one.
- **Torn writes in `Settings`.** A failed write leaves the old file, which is right for
  reconcile (`os.Rename`) and not for the panel's own form; `UserSync` has the truncated,
  the joined and the garbled file, `Bridge`, `Site` and `Update` the torn one. In `Bridge` the unit
  of sing-box, whose text never changes, is never torn, and the download of sing-box is
  one of the calls that fail.
- **SQLite itself.** A statement or transaction is one step that fails or not;
  `BEGIN IMMEDIATE` serialises writers.

## 8. Plan

Written so far, in this order, the most important behaviour first: `UserSync` with
`ConfigReplica`, its proofs, `Update`, `Settings`, `Bridge`, `Traffic`, `Quota`,
`Certificates`, `Admin`, `Install`, `Backup`, `ComponentFile`, `Streams`, `Site`.

Next, models: an abstract specification of
`Certificates` (nginx serves a valid pair).

All safety properties of the runs are proved; next, what of `Bridge`, `Settings` and
`Update` holds when requests or runs overlap as well, where the theorems now assume one at a time.

## 9. Running it

```
tlc -config UserSync_faults.cfg MCUserSyncHistory
tlapm UserSyncProofs.tla
tlapm DashboardProofs.tla
```

The longest run takes about two minutes with two workers, each module of
proofs one to seven minutes.
