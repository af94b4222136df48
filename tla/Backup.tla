------------------------------- MODULE Backup -------------------------------
(***************************************************************************)
(* tgproxy-cli backup and restore on the host of module Install, while the *)
(* panel keeps writing the files they read and overwrite.                  *)
(*                                                                         *)
(* A version is one install or one change made in the panel; modes says    *)
(* for each whether teleproxy.toml, rendered then, forwards to sing-box.   *)
(* The database is in WAL mode: what is committed since the last           *)
(* checkpoint is not in panel.db but in the file next to it.               *)
(***************************************************************************)
EXTENDS Install

CONSTANT
    MaxVersions         \* bound on the installs and changes

ASSUME BackupAssumption == MaxVersions \in Nat

VARIABLES
    modes,              \* of each version: is it Bridge mode?
    content,            \* the version of each file, Torn if it is half written or not there
    wal,                \* <<the version committed but not in panel.db>>, or <<>>
    live,               \* the version of teleproxy.toml that Teleproxy runs with
    change,             \* the files the handler at work has yet to write
    archive,            \* the last archive
    draft,              \* the entries a backup has read so far
    truth, calm,        \* history: the state a backup began with, and whether it lasted
    reading             \* the restore at work: see NoReading

panel == <<modes, wal, live, change>>
copies == <<archive, draft, truth, calm>>
vars == <<host, content, panel, copies, reading>>

Torn == 0
Entries == <<"config.toml", "teleproxy.toml", "sing-box.json", "users.json", "outbounds.json",
             "panel.db">>
Archived == {Entries[i] : i \in DOMAIN Entries}
Optional == {"sing-box.json", "outbounds.json"}
Versions == Torn..MaxVersions

NoArchive == [whole |-> FALSE, large |-> FALSE, files |-> <<>>, truth |-> <<>>, calm |-> FALSE]

\* Of a restore: the right passphrase? the mode before; has it failed, and at which entry?
\* The rest is history: teleproxy.toml before, the state when the services had stopped, was
\* there no WAL then, what systemctl had not stopped, and what it has not started.
NoReading == [right |-> FALSE, bridge |-> FALSE, failed |-> FALSE, gaveUp |-> 0, toml |-> Torn,
              stopped |-> <<>>, closed |-> FALSE, alive |-> {}, down |-> {}]

BackupInit ==
    /\ Init
    /\ modes = <<>> /\ content = [f \in Archived |-> Torn] /\ wal = <<>> /\ live = Torn
    /\ change = <<>>
    /\ archive = NoArchive /\ draft = <<>> /\ truth = <<>> /\ calm = FALSE
    /\ reading = NoReading

\* The mode is told by the upstream in teleproxy.toml; half of the file may not have it.
Detected(files) ==
    LET v == files["teleproxy.toml"] IN IF v = Torn THEN BOOLEAN ELSE {modes[v]}

\* What the database holds for whoever opens it.
Committed == IF wal = <<>> THEN content["panel.db"] ELSE Head(wal)
State == [content EXCEPT !["panel.db"] = Committed]

-----------------------------------------------------------------------------
(* What install and uninstall mean for the files: a new installation is a new version, *)
(* what is removed is gone, and a panel that stops leaves a checkpointed database.     *)

HostStep ==
    /\ InstallNext
    /\ modes' = IF at = "idle" /\ at' \in {"account", "steps"}
                THEN Append(modes, command'.bridge) ELSE modes
    /\ Len(modes') <= MaxVersions
    /\ LET booted == at = "idle" /\ at' = "idle"
           stops(s) == s \in running /\ (s \notin running' \/ booted)
       IN  /\ content' = [f \in Archived |->
                            IF f \notin disk' THEN Torn
                            ELSE IF f \notin disk THEN Len(modes)
                            ELSE IF stops("panel") THEN State[f]
                            ELSE content[f]]
           /\ wal' = IF stops("panel") \/ "panel.db" \notin disk' THEN <<>> ELSE wal
           /\ change' = IF stops("panel") THEN <<>> ELSE change
           /\ live' = IF "teleproxy" \notin running' THEN Torn
                      ELSE IF booted \/ "teleproxy" \notin running
                      THEN content'["teleproxy.toml"] ELSE live
    /\ reading' = NoReading
    /\ UNCHANGED copies

-----------------------------------------------------------------------------
(* The panel.  UserSync and Bridge have its handlers in detail: here a handler writes its *)
(* files one after the other and has Teleproxy load the new configuration.                *)

UserFiles == <<"panel.db", "users.json", "teleproxy.toml">>
EnableFiles == <<"outbounds.json", "sing-box.json", "teleproxy.toml", "panel.db">>
DisableFiles == <<"teleproxy.toml", "panel.db">>

HandlerBegins ==
    /\ "panel" \in running /\ change = <<>> /\ Len(modes) < MaxVersions
    /\ \E bridge \in Detected(content) :
           \/ change' = UserFiles /\ modes' = Append(modes, bridge)
           \/ ~bridge /\ change' = EnableFiles /\ modes' = Append(modes, TRUE)
           \/ bridge /\ change' = DisableFiles /\ modes' = Append(modes, FALSE)
    /\ outcome' = "none"
    /\ UNCHANGED <<disk, units, web, command, at, step, past, count, commands,
                   content, wal, live, copies, reading>>

\* A directory that is not there is made, but not for the users and the database.  With
\* teleproxy.toml the services follow: sing-box runs in Bridge mode only.
Writable(f) ==
    /\ f \in {"users.json", "panel.db"} => Parents(f) \subseteq disk
    /\ f = "panel.db" => Committed # Torn

HandlerWrites ==
    /\ "panel" \in running /\ change # <<>> /\ Writable(Head(change))
    /\ LET f == Head(change)
           v == Len(modes)
           applies == f = "teleproxy.toml"
       IN  /\ change' = Tail(change)
           /\ wal' = IF f = "panel.db" THEN <<v>> ELSE wal
           /\ content' = IF f = "panel.db" THEN content ELSE [content EXCEPT ![f] = v]
           /\ live' = IF applies /\ "teleproxy" \in running THEN v ELSE live
           /\ disk' = disk \cup {f, "config"} \cup Parents(f) \cup
                      (IF applies /\ modes[v] THEN {Unit["singbox"], Binary["singbox"]} ELSE {})
           /\ enabled' = IF ~applies THEN enabled
                         ELSE IF modes[v] THEN enabled \cup {"singbox"} ELSE enabled \ {"singbox"}
           /\ running' = IF ~applies THEN running
                         ELSE IF modes[v] THEN running \cup {"singbox"} ELSE running \ {"singbox"}
    /\ calm' = FALSE /\ outcome' = "none"
    /\ UNCHANGED <<web, command, at, step, past, count, commands, modes, archive, draft, truth,
                   reading>>

\* A file that cannot be written, or a database that is not readable, ends the handler.
HandlerFails ==
    /\ "panel" \in running /\ change # <<>> /\ ~Writable(Head(change))
    /\ change' = <<>> /\ calm' = FALSE /\ outcome' = "none"
    /\ UNCHANGED <<disk, units, web, command, at, step, past, count, commands, content,
                   modes, wal, live, archive, draft, truth, reading>>

\* SQLite moves the committed pages into panel.db.
Checkpoint ==
    /\ "panel" \in running /\ wal # <<>>
    /\ content' = State /\ wal' = <<>>
    /\ UNCHANGED <<host, modes, live, change, copies, reading>>

-----------------------------------------------------------------------------
(* backup *)

BeginBackup ==
    /\ "tgproxy-cli" \in disk /\ disk \cap Archived # {}
    /\ Begin([Nothing EXCEPT !.op = "backup"], "read")
    /\ draft' = <<>> /\ truth' = State /\ calm' = (wal = <<>> /\ change = <<>>)
    /\ reading' = NoReading
    /\ UNCHANGED <<disk, units, web, found, content, panel, archive>>

ReadEntry ==
    /\ at = "read" /\ step <= Len(Entries)
    /\ LET f == Entries[step]
       IN  IF f \in disk
           THEN draft' = [x \in DOMAIN draft \cup {f} |-> IF x = f THEN content[f] ELSE draft[x]]
           ELSE f \in Optional /\ UNCHANGED draft
    /\ step' = step + 1
    /\ Calm /\ UNCHANGED <<disk, units, web, command, at, outcome, past, commands,
                           content, panel, archive, truth, calm, reading>>

EntryMissing ==
    /\ at = "read" /\ step <= Len(Entries) /\ Entries[step] \notin disk \cup Optional
    /\ Finish("no backup") /\ draft' = <<>> /\ truth' = <<>> /\ calm' = FALSE
    /\ Calm /\ UNCHANGED <<disk, units, web, found, partial, commands,
                           content, panel, archive, reading>>

ArchiveWritten(large) ==
    /\ at = "read" /\ step > Len(Entries) /\ Finish("backed up")
    /\ archive' = [whole |-> TRUE, large |-> large, files |-> draft, truth |-> truth,
                   calm |-> calm]
    /\ draft' = <<>> /\ truth' = <<>> /\ calm' = FALSE
    /\ UNCHANGED <<disk, units, web, found, partial, commands, content, panel, reading>>

WriteArchive == ArchiveWritten(FALSE) /\ Calm

\* The database has grown over what a restore takes of one file; a backup has no such limit.
WriteLargeArchive == ArchiveWritten(TRUE) /\ Mishap("large")

\* The file was truncated when it was opened: an earlier archive of that name is lost.
WriteArchiveFails ==
    /\ at = "read" /\ step > Len(Entries) /\ Finish("no backup") /\ Mishap("archive")
    /\ archive' = NoArchive /\ draft' = <<>> /\ truth' = <<>> /\ calm' = FALSE
    /\ UNCHANGED <<disk, units, web, found, partial, commands, content, panel, reading>>

-----------------------------------------------------------------------------
(* restore *)

BeginRestore(right) ==
    /\ "tgproxy-cli" \in disk
    /\ Begin([Nothing EXCEPT !.op = "restore"], "stop")
    /\ \E bridge \in (IF "teleproxy.toml" \in disk THEN Detected(content) ELSE {FALSE}) :
           reading' = [NoReading EXCEPT !.right = right, !.bridge = bridge,
                                        !.toml = content["teleproxy.toml"]]
    /\ found' = [Clean EXCEPT !.disk = disk, !.units = running]
    /\ UNCHANGED <<disk, units, web, content, panel, copies>>

\* A panel that stops when it is told to closes its database, which is the last checkpoint.
\* What does not stop goes on beside the restore, a handler of the panel too.
Stopped(alive) ==
    /\ at = "stop" /\ at' = "decrypt"
    /\ running' = alive
    /\ live' = IF "teleproxy" \in alive THEN live ELSE Torn
    /\ IF "panel" \in running \ alive THEN content' = State /\ wal' = <<>>
                                      ELSE UNCHANGED <<content, wal>>
    /\ change' = IF "panel" \in alive THEN change ELSE <<>>
    /\ reading' = [reading EXCEPT !.stopped = State, !.alive = alive,
                                  !.closed = (alive = {} /\ wal' = <<>>)]
    /\ found' = [found EXCEPT !.disk = disk]
    /\ UNCHANGED <<disk, enabled, web, command, step, outcome, partial, commands, modes, copies>>

StopForRestore == Stopped({}) /\ Calm

\* The error of systemctl is not looked at.
StopFails == Mishap("stop") /\ \E alive \in (SUBSET running) \ {{}} : Stopped(alive)

\* One that does not stop in time is killed; its WAL stays.
KilledAtStop ==
    /\ at = "stop" /\ at' = "decrypt" /\ "panel" \in running
    /\ Mishap("stop")
    /\ running' = {} /\ live' = Torn /\ change' = <<>>
    /\ reading' = [reading EXCEPT !.stopped = State, !.closed = (wal = <<>>)]
    /\ found' = [found EXCEPT !.disk = disk]
    /\ UNCHANGED <<disk, enabled, web, command, step, outcome, partial, commands,
                   content, modes, wal, copies>>

Decrypt ==
    /\ at = "decrypt"
    /\ IF reading.right /\ archive.whole
       THEN at' = "extract" /\ UNCHANGED reading
       ELSE at' = "start" /\ reading' = [reading EXCEPT !.failed = TRUE]
    /\ Calm /\ UNCHANGED <<disk, units, web, command, step, outcome, past, commands,
                           content, panel, copies>>

\* Over a database whose WAL is still there a restored one is not readable, and under a panel
\* that has it open it need not be.
Overwritten(f) ==
    CASE f = "panel.db" /\ wal # <<>> -> {<<Torn>>}
      [] f = "panel.db" /\ wal = <<>> /\ "panel" \in running -> {<<>>, <<Torn>>}
      [] OTHER -> {wal}

Extract(f, v) ==
    /\ disk' = disk \cup {f, "config"} \cup Parents(f)
    /\ content' = [content EXCEPT ![f] = v]
    /\ wal' \in Overwritten(f)

\* Each entry is looked at when those before it have been written.
TooLarge(f) == archive.large /\ f = "panel.db"

\* Seeded fault: of the name of an entry the directory is dropped.
ExtractFlat ==
    /\ at = "extract" /\ step <= Len(Entries) /\ step' = step + 1
    /\ LET f == Entries[step]
       IN  IF f \in DOMAIN archive.files
           THEN /\ ~TooLarge(f)
                /\ disk' = disk \cup {IF Parents(f) = {"secrets"} THEN "config/users.json" ELSE f}
                /\ content' = [content EXCEPT ![f] = archive.files[f]]
                /\ wal' \in Overwritten(f)
           ELSE UNCHANGED <<disk, content, wal>>
    /\ Calm /\ UNCHANGED <<units, web, command, at, outcome, past, commands, modes, live, change,
                           copies, reading>>

ExtractEntry ==
    /\ at = "extract" /\ step <= Len(Entries) /\ step' = step + 1
    /\ LET f == Entries[step]
       IN  IF f \in DOMAIN archive.files
           THEN ~TooLarge(f) /\ Extract(f, archive.files[f])
           ELSE UNCHANGED <<disk, content, wal>>
    /\ Calm /\ UNCHANGED <<units, web, command, at, outcome, past, commands, modes, live, change,
                           copies, reading>>

GiveUp ==
    /\ at = "extract" /\ step <= Len(Entries) /\ at' = "start"
    /\ Entries[step] \in DOMAIN archive.files
    /\ reading' = [reading EXCEPT !.failed = TRUE, !.gaveUp = step]
    /\ UNCHANGED <<units, web, command, step, outcome, found, commands, modes, live, change, copies>>

EntryRefused ==
    /\ GiveUp /\ TooLarge(Entries[step])
    /\ Calm /\ UNCHANGED <<disk, content, wal, partial>>

ExtractFails ==
    /\ GiveUp /\ Mishap("extract") /\ partial' = TRUE
    /\ UNCHANGED <<disk, content, wal>> \/ Extract(Entries[step], Torn)

Extracted ==
    /\ at = "extract" /\ step > Len(Entries) /\ at' = "start"
    /\ Calm /\ UNCHANGED <<disk, units, web, command, step, outcome, past, commands,
                           content, panel, copies, reading>>

\* The mode to start: the one before if the restore has failed, else the restored one.
ModeToStart ==
    IF reading.failed THEN {reading.bridge}
    ELSE IF "teleproxy.toml" \in disk THEN Detected(content) ELSE {FALSE}

Startable(s) == {Unit[s], Binary[s]} \subseteq disk
Wanted(bridge) == {s \in Services : Startable(s) /\ (s = "singbox" => bridge)}

\* What is running already takes no notice.
BroughtUp(services) ==
    /\ at = "start"
    /\ running' = running \cup services
    /\ live' = IF "teleproxy" \in services \ running THEN content["teleproxy.toml"] ELSE live
    /\ IF "panel" \in services \ running THEN content' = State /\ wal' = <<>>
                                         ELSE UNCHANGED <<content, wal>>
    /\ Finish(IF reading.failed THEN "not restored" ELSE "restored")
    /\ UNCHANGED <<disk, enabled, web, found, partial, commands, modes, change, copies>>

\* Seeded fault: a restore that fails returns before anything is started again.
StartAfterSuccess ==
    /\ \E bridge \in ModeToStart : BroughtUp(IF reading.failed THEN {} ELSE Wanted(bridge))
    /\ Calm /\ UNCHANGED reading

StartAfterRestore ==
    /\ \E bridge \in ModeToStart : BroughtUp(Wanted(bridge))
    /\ Calm /\ UNCHANGED reading

\* The error of systemctl is not looked at: the restore reports success.
StartFails ==
    /\ Mishap("start")
    /\ \E bridge \in ModeToStart : \E down \in (SUBSET Wanted(bridge)) \ {{}} :
           BroughtUp(Wanted(bridge) \ down) /\ reading' = [reading EXCEPT !.down = down]

BackupNext ==
    \/ HostStep
    \/ HandlerBegins \/ HandlerWrites \/ HandlerFails \/ Checkpoint
    \/ BeginBackup \/ ReadEntry \/ EntryMissing
    \/ WriteArchive \/ WriteLargeArchive \/ WriteArchiveFails
    \/ \E right \in BOOLEAN : BeginRestore(right)
    \/ StopForRestore \/ StopFails \/ KilledAtStop \/ Decrypt
    \/ ExtractEntry \/ EntryRefused \/ ExtractFails \/ Extracted
    \/ StartAfterRestore \/ StartFails

Spec == BackupInit /\ [][BackupNext]_vars

-----------------------------------------------------------------------------
(* Properties. *)

TypeOK ==
    /\ HostTypeOK
    /\ modes \in Seq(BOOLEAN) /\ Len(modes) <= MaxVersions
    /\ content \in [Archived -> Versions] /\ live \in Versions
    /\ wal \in {<<>>} \cup {<<v>> : v \in Versions}
    /\ change # <<>> => "panel" \in running
    /\ DOMAIN archive.files \subseteq Archived

\* A restore of an archive that was made at rest, with nothing waiting for a checkpoint, gives
\* back the state of that moment, unless a service did not stop or the WAL of a killed panel
\* was there: every file it holds, the database as a reader sees it, and services that run
\* with it in its mode, but those that systemctl did not start, whatever was installed or
\* changed in between.
RestoredAsArchived ==
    outcome = "restored" /\ reading.closed /\ archive.calm =>
        /\ \A f \in DOMAIN archive.files : f \in disk /\ State[f] = archive.truth[f]
        /\ "teleproxy" \in running => live = archive.truth["teleproxy.toml"]
        /\ archive.truth["teleproxy.toml"] # Torn =>
               ("singbox" \in running <=>
                    Startable("singbox") /\ "singbox" \notin reading.down
                    /\ modes[archive.truth["teleproxy.toml"]])

\* A restore that gives up, at any entry and whatever fails, has written the entries before it
\* and touched none behind it: that one is as before or half written, and with a wrong passphrase
\* nothing has changed at all.
WrittenInOrder ==
    /\ found.disk \subseteq disk
    /\ reading.gaveUp = 0 => disk = found.disk
    /\ \A i \in DOMAIN Entries :
           LET f == Entries[i]
           IN  State[f] \in CASE i < reading.gaveUp /\ f \in DOMAIN archive.files -> {archive.files[f]}
                              [] i = reading.gaveUp -> {reading.stopped[f], Torn}
                              [] OTHER -> {reading.stopped[f]}

\* And what ran before runs again, but what systemctl did not start and what a rollback took
\* away; sing-box runs if the mode needs it, unless the mode was switched after it had been
\* detected, or teleproxy.toml had been written.
RunsAgain ==
    /\ {s \in found.units \ {"singbox"} : Startable(s)} \subseteq running \cup reading.down
    /\ "teleproxy" \in running => live = content["teleproxy.toml"]
    /\ content["teleproxy.toml"] \in {reading.toml} \ {Torn} =>
           ("singbox" \in running <=>
                Startable("singbox") /\ "singbox" \notin reading.down /\ modes[reading.toml])

GivenUpInOrder == outcome = "not restored" /\ reading.alive = {} => WrittenInOrder /\ RunsAgain

\* A restore gives back what was archived, or gives up at an entry.
RestoreInOrder == RestoredAsArchived /\ GivenUpInOrder

\* docs/OPERATIONS.md:281: a restore "validates archive structure and safety" before it "restores
\* into /etc/tgproxy/": one that is refused, and in which nothing failed, changes nothing.
ValidatedFirst ==
    outcome = "not restored" /\ ~trouble => disk = found.disk /\ State = reading.stopped

\* commands.go:408: "Restore complete. Services restarted."
ServicesRestarted ==
    outcome = "restored" /\ Startable("teleproxy") =>
        "teleproxy" \in running /\ live = content["teleproxy.toml"]

\* docs/OPERATIONS.md:267: "Backups include configuration/state required to reconstruct
\* /etc/tgproxy/": an archive holds what was committed when it was made.
BackupComplete ==
    outcome = "restored" /\ reading.closed => State["panel.db"] = archive.truth["panel.db"]

\* docs/OPERATIONS.md:282: a restore "restores into /etc/tgproxy/": the database can be read.
RestoredReadable ==
    outcome = "restored" /\ archive.files["panel.db"] # Torn => State["panel.db"] # Torn

\* restore_mode_test.go:22: a restore of Bridge mode has sing-box running.
RestoredModeRuns ==
    outcome = "restored" /\ content["teleproxy.toml"] # Torn =>
        (modes[content["teleproxy.toml"]] => "singbox" \in running)
=============================================================================
