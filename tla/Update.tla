------------------------------- MODULE Update -------------------------------
(***************************************************************************)
(* tgproxy-cli update: check every component for a release, apply the      *)
(* upgrades one after the other, then render the configuration again.      *)
(*                                                                         *)
(* Applying is: download and verify, copy the binary to .bak, rename the   *)
(* candidate over it, restore its owner, restart the service, wait until   *)
(* it is active.  A failed restart or health check copies .bak back.       *)
(* Builds are numbered; a build is identified by the component and its     *)
(* number.  A bad one exits some time after it was started, and systemd    *)
(* starts it again five seconds later.                                     *)
(***************************************************************************)
EXTENDS Naturals, Sequences, FiniteSets

CONSTANTS
    CLI, Panel,     \* the project's own components, released together
    Probed,         \* the ones whose installed version the binary itself is asked for
    Order,          \* the order in which CheckAll goes through the components
    Updaters,       \* processes of tgproxy-cli update
    MayFail,        \* may file operations and systemctl fail?
    MayCrash,       \* may an updater be killed?
    MaxBuild,       \* bound on the releases of a component
    MaxRuns         \* bound on the updates that are started

Components == {CLI, Panel} \cup Probed
Services == Components \ {CLI}
Releases == {{CLI, Panel}} \cup {{c} : c \in Probed}

ASSUME UpdateAssumption ==
    /\ CLI # Panel /\ CLI \notin Probed /\ Panel \notin Probed
    /\ Order \in Seq(Components) /\ Order # <<>>
    /\ \A i, j \in DOMAIN Order : Order[i] = Order[j] => i = j
    /\ MaxBuild \in Nat \ {0} /\ MaxRuns \in Nat
    /\ MayFail \in BOOLEAN /\ MayCrash \in BOOLEAN

Build == 1..MaxBuild
Torn == 0               \* a file that was only partly written
Absent == MaxBuild + 1  \* no file
Down == 0               \* no process
File == 0..MaxBuild + 1
PC == {"idle", "check", "apply", "backup", "replace", "chown", "restart", "health",
       "rollback", "rb_restart", "cleanup", "reconcile"}

\* What an update keeps in local variables.
Job == [self : Build,                       \* the build of tgproxy-cli that runs
        found : [Probed -> File],           \* the other versions, until the last check
        auto : BOOLEAN,                     \* was it started with --manual=false?
        todo : Seq(Components),             \* components still to check
        queue : Seq(Components \X Build),   \* upgrades still to apply
        previous : File]                    \* history: what the current one replaces

VARIABLES
    latest,     \* newest build released of each component
    stamp,      \* age of the last check, as the file of the component has it
    seen,       \* the release the history of the checks has for it
    bad,        \* builds that exit some time after their start
    disk,       \* the installed binary
    bak,        \* its .bak
    tmp,        \* the downloaded candidate
    running,    \* the build the service runs
    units,      \* build of tgproxy-cli that last rendered the configuration
    pc, job,
    runs,
    clean       \* history: has nothing failed and nobody been killed so far?

vars == <<latest, stamp, seen, bad, disk, bak, tmp, running, units, pc, job, runs, clean>>

NotAsked == [c \in Probed |-> Absent]
NoJob == [self |-> 1, found |-> NotAsked, auto |-> FALSE, todo |-> <<>>, queue |-> <<>>, previous |-> Absent]

Init ==
    /\ latest = [c \in Components |-> 1] /\ bad = {}
    /\ stamp = [c \in Components |-> "old"] /\ seen = [c \in Components |-> Torn]
    /\ disk = [c \in Components |-> 1]
    /\ bak = [c \in Components |-> Absent] /\ tmp = [c \in Components |-> Absent]
    /\ running = [c \in Services |-> 1] /\ units = 1
    /\ pc = [u \in Updaters |-> "idle"] /\ job = [u \in Updaters |-> NoJob]
    /\ runs = 0 /\ clean = TRUE

Good(c, file) == file \in Build /\ <<c, file>> \notin bad

Idle == \A u \in Updaters : pc[u] = "idle"
Component(u) == Head(job[u].queue)[1]

Goto(u, from, to) == pc[u] = from /\ pc' = [pc EXCEPT ![u] = to]
Mishap == clean' = FALSE

\* Apply returns, the deferred removal of the candidate included; on to the next one.
Leave(u) ==
    /\ pc' = [pc EXCEPT ![u] = "apply"]
    /\ job' = [job EXCEPT ![u].queue = Tail(@), ![u].previous = Absent]
    /\ tmp' = [tmp EXCEPT ![Component(u)] = Absent]

-----------------------------------------------------------------------------
(* The command. *)

\* The installed version of a component, as the command knows it: its own version for
\* the panel, the binary's answer for the others; a torn binary has none.
Current(u, c) == IF c \in {CLI, Panel} THEN job[u].self ELSE job[u].found[c]

\* Is the release newer than what is installed? A binary without a version is left alone.
IsUpgrade(u, c) == Current(u, c) # Torn /\ Current(u, c) < latest[c]

\* CheckAll begins with every component to be checked, by hand or subject to the limit.
Start(u, auto) ==
    /\ runs < MaxRuns /\ runs' = runs + 1
    /\ disk[CLI] \in Build
    /\ Goto(u, "idle", "check")
    /\ job' = [job EXCEPT ![u] = [NoJob EXCEPT
           !.self = disk[CLI], !.found = [c \in Probed |-> disk[c]], !.auto = auto, !.todo = Order]]
    /\ UNCHANGED <<latest, stamp, seen, bad, disk, bak, tmp, running, units, clean>>

\* An automatic check leaves out what was checked less than 18 hours ago.
Due(u, c) == job[u].auto => stamp[c] = "old"

NextCheck(u, queue) ==
    /\ Goto(u, "check", IF Len(job[u].todo) = 1 THEN "apply" ELSE "check")
    /\ job' = [job EXCEPT ![u].todo = Tail(@), ![u].queue = queue,
                          ![u].found = IF Len(job[u].todo) = 1 THEN NotAsked ELSE @]

SkipCheck(u) ==
    /\ pc[u] = "check" /\ job[u].auto /\ stamp[Head(job[u].todo)] = "recent"
    /\ NextCheck(u, job[u].queue)
    /\ UNCHANGED <<latest, stamp, seen, bad, disk, bak, tmp, running, units, runs, clean>>

\* Seeded fault: of several upgrades the last one found is kept.
CheckKeepsLast(u) ==
    LET c == Head(job[u].todo) IN
    /\ pc[u] = "check" /\ Due(u, c)
    /\ NextCheck(u, IF IsUpgrade(u, c) THEN <<<<c, latest[c]>>>> ELSE job[u].queue)
    /\ stamp' = [stamp EXCEPT ![c] = "recent"] /\ seen' = [seen EXCEPT ![c] = latest[c]]
    /\ UNCHANGED <<latest, bad, disk, bak, tmp, running, units, runs, clean>>

\* Seeded fault: the release of the last record is offered instead of the one found.
CheckStale(u) ==
    LET c == Head(job[u].todo) IN
    /\ pc[u] = "check" /\ Due(u, c)
    /\ NextCheck(u, job[u].queue \o
           (IF IsUpgrade(u, c) THEN <<<<c, seen[c]>>>> ELSE <<>>))
    /\ stamp' = [stamp EXCEPT ![c] = "recent"] /\ seen' = [seen EXCEPT ![c] = latest[c]]
    /\ UNCHANGED <<latest, bad, disk, bak, tmp, running, units, runs, clean>>

\* CheckOne: ask for the release, note the time and the release, and whether to upgrade.
Check(u) ==
    LET c == Head(job[u].todo) IN
    /\ pc[u] = "check" /\ Due(u, c)
    /\ NextCheck(u, job[u].queue \o
           (IF IsUpgrade(u, c) THEN <<<<c, latest[c]>>>> ELSE <<>>))
    /\ stamp' = [stamp EXCEPT ![c] = "recent"] /\ seen' = [seen EXCEPT ![c] = latest[c]]
    /\ UNCHANGED <<latest, bad, disk, bak, tmp, running, units, runs, clean>>

\* A stamp that cannot be read, a release that cannot be had, a time or a record that
\* cannot be written: the command ends, whatever upgrades it has found before.
CheckFails(u) ==
    LET c == Head(job[u].todo) IN
    /\ pc[u] = "check"
    /\ \/ job[u].auto /\ stamp[c] = "torn" /\ UNCHANGED stamp
       \/ MayFail /\ Due(u, c) /\ stamp' \in {stamp, [stamp EXCEPT ![c] = "torn"],
                                             [stamp EXCEPT ![c] = "recent"]}
    /\ pc' = [pc EXCEPT ![u] = "idle"] /\ job' = [job EXCEPT ![u] = NoJob]
    /\ Mishap
    /\ UNCHANGED <<latest, seen, bad, disk, bak, tmp, running, units, runs>>

\* A release without a checksum is skipped, a download that fails is given up.
Skip(u) ==
    /\ MayFail /\ pc[u] = "apply" /\ job[u].queue # <<>>
    /\ job' = [job EXCEPT ![u].queue = Tail(@)]
    /\ tmp' \in {tmp, [tmp EXCEPT ![Component(u)] = Absent]}
    /\ Mishap
    /\ UNCHANGED <<latest, stamp, seen, bad, disk, bak, running, units, pc, runs>>

Download(u) ==
    /\ job[u].queue # <<>>
    /\ Goto(u, "apply", "backup")
    /\ tmp' = [tmp EXCEPT ![Component(u)] = Head(job[u].queue)[2]]
    /\ UNCHANGED <<latest, stamp, seen, bad, disk, bak, running, units, job, runs, clean>>

\* The last step of the command: the process renders with the templates it was built with.
Reconcile(u) ==
    /\ pc[u] = "apply" /\ job[u].queue = <<>>
    /\ pc' = [pc EXCEPT ![u] = "idle"] /\ job' = [job EXCEPT ![u] = NoJob]
    /\ units' \in {job[u].self} \cup (IF MayFail THEN {units} ELSE {})
    /\ UNCHANGED <<latest, stamp, seen, bad, disk, bak, tmp, running, runs, clean>>

-----------------------------------------------------------------------------
(* Applier.Apply. *)

\* Seeded fault: a backup that is there is kept.
KeepBackup(u) ==
    /\ Goto(u, "backup", "replace")
    /\ bak' = [bak EXCEPT ![Component(u)] = IF @ = Absent THEN disk[Component(u)] ELSE @]
    /\ job' = [job EXCEPT ![u].previous = disk[Component(u)]]
    /\ UNCHANGED <<latest, stamp, seen, bad, disk, tmp, running, units, runs, clean>>

\* Copy the binary to .bak and make the candidate executable.
Backup(u) ==
    /\ Goto(u, "backup", "replace")
    /\ bak' = [bak EXCEPT ![Component(u)] = disk[Component(u)]]
    /\ job' = [job EXCEPT ![u].previous = disk[Component(u)]]
    /\ UNCHANGED <<latest, stamp, seen, bad, disk, tmp, running, units, runs, clean>>

BackupFails(u) ==
    /\ MayFail /\ pc[u] = "backup"
    /\ bak' \in {bak, [bak EXCEPT ![Component(u)] = Torn]}
    /\ Leave(u) /\ Mishap
    /\ UNCHANGED <<latest, stamp, seen, bad, disk, running, units, runs>>

\* The rename is atomic; another updater may have taken the candidate away.
Replace(u) ==
    /\ Goto(u, "replace", "chown")
    /\ tmp[Component(u)] # Absent
    /\ disk' = [disk EXCEPT ![Component(u)] = tmp[Component(u)]]
    /\ tmp' = [tmp EXCEPT ![Component(u)] = Absent]
    /\ UNCHANGED <<latest, stamp, seen, bad, bak, running, units, job, runs, clean>>

ReplaceFails(u) ==
    /\ pc[u] = "replace"
    /\ MayFail \/ tmp[Component(u)] = Absent
    /\ Leave(u) /\ Mishap
    /\ UNCHANGED <<latest, stamp, seen, bad, disk, bak, running, units, runs>>

\* Restore the owner of the binary; a failure here returns without a rollback.
Chown(u) ==
    /\ Goto(u, "chown", IF Component(u) \in Services THEN "restart" ELSE "cleanup")
    /\ UNCHANGED <<latest, stamp, seen, bad, disk, bak, tmp, running, units, job, runs, clean>>

ChownFails(u) ==
    /\ MayFail /\ pc[u] = "chown"
    /\ Leave(u) /\ Mishap
    /\ UNCHANGED <<latest, stamp, seen, bad, disk, bak, running, units, runs>>

\* The process a start of c leaves: a Type=simple unit is active once it is forked.
Started(c) == IF disk[c] \in Build THEN disk[c] ELSE Down

Restart(u) ==
    /\ Goto(u, "restart", "health")
    /\ running' = [running EXCEPT ![Component(u)] = Started(Component(u))]
    /\ UNCHANGED <<latest, stamp, seen, bad, disk, bak, tmp, units, job, runs, clean>>

\* systemctl fails or runs into its limit of ten seconds.
RestartFails(u) ==
    /\ MayFail
    /\ Goto(u, "restart", "rollback")
    /\ running' \in {running, [running EXCEPT ![Component(u)] = Down]}
    /\ Mishap
    /\ UNCHANGED <<latest, stamp, seen, bad, disk, bak, tmp, units, job, runs>>

Health(u) ==
    /\ Goto(u, "health", IF running[Component(u)] # Down THEN "cleanup" ELSE "rollback")
    /\ UNCHANGED <<latest, stamp, seen, bad, disk, bak, tmp, running, units, job, runs, clean>>

Cleanup(u) ==
    /\ pc[u] = "cleanup"
    /\ bak' = [bak EXCEPT ![Component(u)] = Absent]
    /\ Leave(u)
    /\ UNCHANGED <<latest, stamp, seen, bad, disk, running, units, runs, clean>>

\* Linux refuses to open a file for writing while a process executes it.
Busy(c) == running[c] # Down /\ running[c] = disk[c]

\* Copy .bak over the binary in place.
Rollback(u) ==
    /\ Goto(u, "rollback", "rb_restart")
    /\ ~Busy(Component(u)) /\ bak[Component(u)] # Absent
    /\ disk' = [disk EXCEPT ![Component(u)] = bak[Component(u)]]
    /\ UNCHANGED <<latest, stamp, seen, bad, bak, tmp, running, units, job, runs, clean>>

RollbackFails(u) ==
    /\ pc[u] = "rollback"
    /\ \/ /\ Busy(Component(u)) \/ bak[Component(u)] = Absent
          /\ UNCHANGED <<disk, clean>>
       \/ /\ MayFail /\ ~Busy(Component(u))
          /\ disk' = [disk EXCEPT ![Component(u)] = Torn] /\ Mishap
    /\ Leave(u)
    /\ UNCHANGED <<latest, stamp, seen, bad, bak, running, units, runs>>

RollbackRestart(u) ==
    /\ pc[u] = "rb_restart"
    /\ \/ /\ running' = [running EXCEPT ![Component(u)] = Started(Component(u))]
          /\ UNCHANGED clean
       \/ MayFail /\ UNCHANGED running /\ Mishap
    /\ Leave(u)
    /\ UNCHANGED <<latest, stamp, seen, bad, disk, bak, units, runs>>

-----------------------------------------------------------------------------
(* The environment. *)

Publish(r) ==
    /\ \A c \in r : latest[c] < MaxBuild
    /\ latest' = [c \in Components |-> IF c \in r THEN latest[c] + 1 ELSE latest[c]]
    /\ \E b \in SUBSET (r \cap Services) : bad' = bad \cup {<<c, latest'[c]>> : c \in b}
    /\ UNCHANGED <<stamp, seen, disk, bak, tmp, running, units, pc, job, runs, clean>>

\* Eighteen hours after the check of c.
Ages(c) ==
    /\ stamp[c] = "recent" /\ stamp' = [stamp EXCEPT ![c] = "old"]
    /\ UNCHANGED <<latest, seen, bad, disk, bak, tmp, running, units, pc, job, runs, clean>>

\* A bad build exits, and systemd starts what is installed (Restart=on-failure).
Exit(c) ==
    /\ running[c] # Down /\ ~Good(c, running[c])
    /\ running' = [running EXCEPT ![c] = Down]
    /\ UNCHANGED <<latest, stamp, seen, bad, disk, bak, tmp, units, pc, job, runs, clean>>

Respawn(c) ==
    /\ running[c] = Down /\ disk[c] \in Build
    /\ running' = [running EXCEPT ![c] = disk[c]]
    /\ UNCHANGED <<latest, stamp, seen, bad, disk, bak, tmp, units, pc, job, runs, clean>>

\* The updater is killed, perhaps in the middle of a copy; nothing is cleaned up.
Crash(u) ==
    /\ MayCrash /\ pc[u] # "idle"
    /\ pc' = [pc EXCEPT ![u] = "idle"] /\ job' = [job EXCEPT ![u] = NoJob]
    /\ bak' \in {bak} \cup
           (IF pc[u] = "backup" THEN {[bak EXCEPT ![Component(u)] = Torn]} ELSE {})
    /\ disk' \in {disk} \cup
           (IF pc[u] = "rollback" /\ ~Busy(Component(u))
            THEN {[disk EXCEPT ![Component(u)] = Torn]} ELSE {})
    /\ stamp' \in {stamp} \cup
           (IF pc[u] = "check" THEN {[stamp EXCEPT ![Head(job[u].todo)] = "torn"]} ELSE {})
    /\ Mishap
    /\ UNCHANGED <<latest, seen, bad, tmp, running, units, runs>>

Apply(u) ==
    \/ Backup(u) \/ BackupFails(u) \/ Replace(u) \/ ReplaceFails(u)
    \/ Chown(u) \/ ChownFails(u) \/ Restart(u) \/ RestartFails(u) \/ Health(u)
    \/ Cleanup(u) \/ Rollback(u) \/ RollbackFails(u) \/ RollbackRestart(u)

Next ==
    \/ \E u \in Updaters :
          \/ \E auto \in BOOLEAN : Start(u, auto)
          \/ SkipCheck(u) \/ Check(u) \/ CheckFails(u)
          \/ Skip(u) \/ Download(u) \/ Apply(u) \/ Reconcile(u) \/ Crash(u)
    \/ \E r \in Releases : Publish(r)
    \/ \E c \in Components : Ages(c)
    \/ \E c \in Services : Exit(c) \/ Respawn(c)

Spec == Init /\ [][Next]_vars

-----------------------------------------------------------------------------
(* Properties. *)

\* Every variable has the type its comment gives it.
TypeOK ==
    /\ stamp \in [Components -> {"recent", "old", "torn"}]
    /\ seen \in [Components -> 0..MaxBuild]
    /\ latest \in [Components -> Build] /\ bad \subseteq Services \X Build
    /\ disk \in [Components -> 0..MaxBuild]
    /\ bak \in [Components -> File] /\ tmp \in [Components -> Build \cup {Absent}]
    /\ running \in [Services -> 0..MaxBuild] /\ units \in Build
    /\ pc \in [Updaters -> PC] /\ job \in [Updaters -> Job]
    /\ runs \in 0..MaxRuns /\ clean \in BOOLEAN

\* apply.go:105 says that a failed restart or health check never leaves the system in a
\* broken state: as long as nothing else goes wrong, every installed binary is a good one.
NeverLeftBroken == Idle /\ clean => \A c \in Services : Good(c, disk[c])

\* SECURITY.md:89 says that the backup is restored when the health check fails: no
\* rollback of an update that met no error ends with the new build still installed.
BackupRestored ==
    [][\A u \in Updaters :
        pc[u] = "rollback" /\ pc'[u] # "rollback" /\ clean' =>
            disk'[Component(u)] = job[u].previous]_vars

\* Whatever fails, and wherever the updater is killed, a binary that a rollback left
\* half written can still be restored by hand: its backup is whole.
Recoverable == \A c \in Probed : disk[c] = Torn => bak[c] \in Build

\* The same of the panel: its version is taken to be that of tgproxy-cli, so that the
\* next update copies a torn binary over the last whole backup.
PanelRecoverable == disk[Panel] = Torn => bak[Panel] \in Build

\* The updater, one at a time, implements the abstract specification: no failure, bad
\* release or kill takes away both copies of a binary or brings back any but the last.
Files == INSTANCE ComponentFile WITH
    Components <- Probed, Versions <- Build, None <- Absent,
    installed <- [c \in Probed |-> disk[c]], spare <- [c \in Probed |-> bak[c]]

ImplementsFiles == Files!Spec

\* checker.go:161 says that a check is recorded whether or not there is an update; when
\* nothing went wrong a good release on record has been installed: what is checked before
\* other components is not forgotten, nor left out by the limit of 18 hours afterwards.
RecordedIsInstalled ==
    Idle /\ clean => \A c \in Components \ {Panel} : Good(c, seen[c]) => disk[c] >= seen[c]

\* The same of the panel: the limit of 18 hours may leave it out of the update that installs
\* tgproxy-cli, and from then on its version is taken to be the new one.
PanelRecordedIsInstalled ==
    Idle /\ clean /\ Good(Panel, seen[Panel]) => disk[Panel] >= seen[Panel]

\* A rollback puts back the binary the update has replaced, not an older backup.
RollbackToPrevious ==
    [][\A u \in Updaters :
        pc[u] = "rollback" /\ pc'[u] = "rb_restart" => disk'[Component(u)] = job[u].previous]_vars

\* checker.go:92 says that an update compares a release with the installed version.
ComparesInstalledVersion ==
    [][\A u \in Updaters :
        pc[u] = "idle" /\ pc'[u] = "check" =>
            \A c \in Components : Current(u, c)' = disk[c]]_vars

\* OPERATIONS.md:361 says that new binaries get the flags and the hardening of their
\* own version: the configuration has been rendered by the tgproxy-cli that is installed.
RenderedByInstalled == Idle /\ runs > 0 /\ clean => units = disk[CLI]
=============================================================================
