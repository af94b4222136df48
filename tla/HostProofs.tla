----------------------------- MODULE HostProofs -----------------------------
(***************************************************************************)
(* Proofs about Install and Backup for any choices, any mishaps in any     *)
(* number and any number of commands and versions.                         *)
(***************************************************************************)
EXTENDS Backup, SequenceTheorems, TLAPS

Choices == [op : {"none", "install", "uninstall", "backup", "restore"},
            acme : BOOLEAN, bridge : BOOLEAN, inPlace : BOOLEAN]

Stages == {"idle", "account", "order", "steps", "undo", "services", "files", "dirs", "reload",
           "read", "stop", "decrypt", "extract", "start"}

\* A version that has been made.
Made == 0..Len(modes)

\* What a plan consists of.  The certificate is not put by the plan, nor its account.
Puttable == Things \ (DOMAIN Holds \cup {"account.key", "cert"})
Steps == ({"put"} \X Puttable) \cup ({"dir"} \X DOMAIN Holds) \cup ({"enable", "start"} \X Services)
         \cup ({"site"} \X (Sites \ {"default"})) \cup ({"nosite"} \X Sites)
         \cup {<<"apt", "nginx">>, <<"reload", "nginx">>}

HostTyped ==
    /\ disk \subseteq Things /\ enabled \subseteq Services /\ running \subseteq Services
    /\ nginx \in {"absent", "up", "down"} /\ (nginx = "up" \/ served = {})
    /\ sites \subseteq Sites /\ served \subseteq Sites
    /\ command \in Choices /\ at \in Stages
    /\ trouble \in BOOLEAN /\ partial \in BOOLEAN
    /\ count \in 0..MaxMishaps /\ commands \in 0..MaxCommands
    /\ found.units \subseteq Services
    /\ found = [disk |-> found.disk, units |-> found.units, sound |-> found.sound,
                port80 |-> found.port80]

StepTyped ==
    /\ step \in Nat
    /\ at = "steps" => step \in 1..(Len(Plan(command)) + 1)
    /\ at = "undo" => step \in 0..Len(Plan(command))
    /\ at \in {"read", "extract", "start"} => step \in 1..(Len(Entries) + 1)
    /\ at = "idle" => step = 0
    /\ at \notin {"idle", "steps", "undo", "read", "extract", "start"} => step = 1

FilesTyped ==
    /\ modes \in Seq(BOOLEAN) /\ Len(modes) <= MaxVersions
    /\ content \in [Archived -> Made] /\ live \in Made
    /\ wal \in {<<>>} \cup {<<v>> : v \in Made}
    /\ change \in Seq(Archived) /\ (change # <<>> => "panel" \in running)

Files(d) == DOMAIN d \subseteq Archived /\ \A f \in DOMAIN d : d[f] \in Made

ArchiveTyped(a) ==
    /\ a = [whole |-> a.whole, large |-> a.large, files |-> a.files, truth |-> a.truth,
            calm |-> a.calm]
    /\ Files(a.files) /\ a.whole \in BOOLEAN /\ a.calm \in BOOLEAN

ReadingTyped(r) ==
    /\ r = [right |-> r.right, bridge |-> r.bridge, failed |-> r.failed, gaveUp |-> r.gaveUp,
            toml |-> r.toml, stopped |-> r.stopped, closed |-> r.closed, alive |-> r.alive,
            down |-> r.down]
    /\ {r.right, r.bridge, r.failed, r.closed} \subseteq BOOLEAN

CopiesTyped ==
    /\ Files(draft) /\ calm \in BOOLEAN /\ ArchiveTyped(archive) /\ ReadingTyped(reading)

\* Unless a service did not stop, a restore is alone with the files from its first entry on.
Restoring == at \in {"decrypt", "extract", "start"}
Alone == Restoring /\ reading.alive = {} => running = {} /\ change = <<>>

WellTyped == HostTyped /\ StepTyped /\ FilesTyped /\ CopiesTyped /\ Alone

-----------------------------------------------------------------------------
(* What a restore rests on. *)

\* Only a command that has ended has an outcome.
Ended == outcome # "none" => at = "idle"

\* What is not on the disk has no content.
Filed == (\A f \in Archived \ disk : content[f] = Torn) /\ ("panel.db" \notin disk => wal = <<>>)

\* A backup that nothing has disturbed reads one state.
Read ==
    at = "read" =>
        /\ step > 2 => "teleproxy.toml" \in DOMAIN draft
        /\ calm => wal = <<>> /\ truth = content /\ \A f \in DOMAIN draft : draft[f] = truth[f]

Archives ==
    /\ archive.whole => "teleproxy.toml" \in DOMAIN archive.files
    /\ archive.calm => archive.whole /\ \A f \in DOMAIN archive.files :
                                            archive.files[f] = archive.truth[f]

Extracts(files) ==
    \A f \in files \cap DOMAIN archive.files : f \in disk /\ content[f] = archive.files[f]

Restore ==
    /\ at = "stop" => reading.alive = {}
    /\ at \in {"stop", "decrypt", "extract"} => ~reading.failed /\ reading.gaveUp = 0
    /\ at = "stop" \/ Restoring => reading.down = {}
    /\ at = "extract" \/ (at = "start" /\ ~reading.failed) => archive.whole
    /\ reading.toml \in Made
    /\ at = "stop" \/ Restoring => (reading.toml # Torn => reading.bridge = modes[reading.toml])

\* The entries before the n-th are as archived, the others as they were.
AsWritten(n) ==
    \A i \in 1..6 :
        State[Entries[i]] = IF i < n /\ Entries[i] \in DOMAIN archive.files
                            THEN archive.files[Entries[i]] ELSE reading.stopped[Entries[i]]

\* What a restore that is alone has done so far.
Progress ==
    /\ at = "decrypt" => disk = found.disk /\ AsWritten(1)
    /\ at = "extract" =>
          /\ found.disk \subseteq disk /\ (step <= 6 => AsWritten(step))
          /\ Extracts({Entries[i] : i \in 1..(step - 1)})
    /\ at = "start" => IF reading.failed THEN WrittenInOrder ELSE Extracts(Archived)

Undisturbed ==
    Restoring => /\ reading.closed => wal = <<>> /\ reading.alive = {}
                 /\ reading.alive = {} => Progress

-----------------------------------------------------------------------------
(* What an uninstall rests on. *)

Uninstall ==
    /\ at \in {"files", "dirs", "reload"} /\ ~trouble => enabled = {} /\ running = {}
    /\ at \in {"dirs", "reload"} /\ ~trouble => disk \cap Removed = {} /\ "stub" \notin sites
    /\ at = "reload" /\ ~trouble => disk \subseteq {"webroot", "snippet", "site tls", "site panel"}

-----------------------------------------------------------------------------
(* What an install rests on. *)

\* What is in a directory keeps it.
Keeps(files) == \A d \in DOMAIN Holds : Holds[d] \cap files # {} => d \in files

\* What the first n steps of the plan bring.
Brought(c, n) == {x \in Things : \E i \in 1..n : Plan(c)[i] \in {Put(x), Dir(x)}}
Enabled(c, n) == {s \in Services : \E i \in 1..n : Plan(c)[i] = <<"enable", s>>}
Started(c, n) == {s \in Services : \E i \in 1..n : Plan(c)[i] = <<"start", s>>}

\* The steps that have been done and not undone.
Done == IF at = "undo" THEN step ELSE step - 1

\* What the order of the certificate leaves on the disk, outside of the plan.
Acquired(c) == IF c.acme THEN {"config", "certs", "account.key", "cert"} ELSE {}

\* Up to its last step, which starts the panel.
Installing == at \in {"account", "order", "undo"} \/ (at = "steps" /\ step <= Len(Plan(command)))

\* There is nothing that the journal does not account for.
Journal ==
    /\ disk \subseteq found.disk \cup Acquired(command) \cup Brought(command, Done)
    /\ enabled \subseteq found.units \cup Enabled(command, Done)
    /\ running \subseteq found.units \cup Started(command, Done)
    /\ {"teleproxy", "panel"} \cap running \subseteq Started(command, Done)
    /\ Keeps(found.disk) /\ "config" \notin found.disk
    /\ command.acme \/ "panel" \notin served

Journalled ==
    Installing =>
        /\ partial => at = "undo"
        /\ at = "undo" => step < Len(Plan(command))
        /\ at \in {"account", "order"} => command.acme
        /\ at = "order" => {"config", "certs"} \subseteq disk
        /\ at = "steps" =>
              Brought(command, Done) \subseteq disk /\ (command.acme => "cert" \in disk)
        /\ ~partial => Journal

\* Nothing has failed, and the host was in order: so is nginx.
Provided ==
    Installing /\ ~trouble /\ found.sound /\ (command.acme => found.port80) =>
        /\ at # "undo"
        /\ nginx # "down" /\ (Done > 0 => nginx = "up") /\ Sound(sites, disk)
        /\ at \in {"account", "order"} => Port80Free

HostInv ==
    /\ WellTyped /\ Ended /\ Filed /\ Read /\ Archives /\ Restore /\ Undisturbed /\ Uninstall
    /\ RestoreInOrder /\ Reinstallable
    /\ Keeps(disk) /\ Journalled /\ Provided /\ RollbackClean /\ FailsForAReason

\* The steps in groups.
Panels == HandlerBegins \/ HandlerWrites \/ HandlerFails \/ Checkpoint
Archiving == \E large \in BOOLEAN : ArchiveWritten(large) /\ (Calm \/ Mishap("large"))
Backups == BeginBackup \/ ReadEntry \/ EntryMissing \/ Archiving \/ WriteArchiveFails
Stops == \E alive \in SUBSET running : Stopped(alive) /\ (Calm \/ Mishap("stop"))
Starts == \E bridge \in ModeToStart : \E down \in SUBSET Wanted(bridge) :
              /\ BroughtUp(Wanted(bridge) \ down)
              /\ \/ down = {} /\ UNCHANGED reading /\ Calm
                 \/ reading' = [reading EXCEPT !.down = down] /\ Mishap("start")
Restores(right) == BeginRestore(right) \/ Stops \/ KilledAtStop \/ Decrypt
                   \/ ExtractEntry \/ EntryRefused \/ ExtractFails \/ Extracted \/ Starts

LEMMA NextIs ==
    ASSUME BackupNext PROVE HostStep \/ Panels \/ Backups \/ \E right \in BOOLEAN : Restores(right)
  <1>1. CASE WriteArchive \/ WriteLargeArchive
    BY <1>1 DEF WriteArchive, WriteLargeArchive, Archiving, Backups
  <1>2. CASE StopForRestore \/ StopFails
    BY <1>2 DEF StopForRestore, StopFails, Stops, Restores
  <1>3. CASE StartAfterRestore
    <2>1. PICK bridge \in ModeToStart : BroughtUp(Wanted(bridge))
      BY <1>3 DEF StartAfterRestore
    <2>2. Wanted(bridge) \ {} = Wanted(bridge) /\ {} \in SUBSET Wanted(bridge)
      OBVIOUS
    <2>3. BroughtUp(Wanted(bridge) \ {})
      BY <2>1, <2>2
    <2>4. QED
      BY <1>3, <2>2, <2>3 DEF StartAfterRestore, Starts, Restores
  <1>4. CASE StartFails
    BY <1>4 DEF StartFails, Starts, Restores
  <1>5. CASE ~(WriteArchive \/ WriteLargeArchive \/ StopForRestore \/ StopFails \/ StartAfterRestore
               \/ StartFails)
    BY <1>5 DEF BackupNext, Panels, Backups, Restores
  <1>6. QED
    BY <1>1, <1>2, <1>3, <1>4, <1>5

-----------------------------------------------------------------------------
(* The plan: its parts, and what they consist of. *)

Base == << <<"apt", "nginx">>, Dir("config"), Dir("secrets"), Dir("log"), Dir("stubroot"),
           Dir("certs"), Dir("webroot"), Put("tgproxy-cli"), Put("tgproxy-panel"),
           Put("teleproxy"), Put("config.toml")>>
BridgeFiles == <<Put("sing-box"), Put("outbounds.json"), Put("sing-box.json"),
                 Put(Unit["singbox"])>>
MainFiles == <<Put("teleproxy.toml"), Put("users.json"), Put("panel.db"), Put(Unit["teleproxy"])>>
StubSite == <<Put(SiteFile["stub"]), <<"nosite", "default">>, <<"site", "stub">>, Reload,
              Put("index.html")>>

LEMMA ThingsAre ==
    /\ DOMAIN Holds = {"config", "secrets", "certs", "stubroot", "log", "webroot"}
    /\ DOMAIN Holds \subseteq Things
    /\ {"users.json", "outbounds.json", "account.key", "cert", "config.toml", "teleproxy.toml",
        "sing-box.json", "panel.db", "index.html", "tgproxy-cli", "snippet"} \subseteq Things
    /\ \A s \in Services : Unit[s] \in Things /\ Binary[s] \in Things
    /\ \A s \in {"stub", "tls", "panel"} : SiteFile[s] \in Things
    /\ Binary["teleproxy"] = "teleproxy" /\ Binary["panel"] = "tgproxy-panel"
    /\ Binary["singbox"] = "sing-box"
  <1>1. DOMAIN Holds = {"config", "secrets", "certs", "stubroot", "log", "webroot"}
    BY DEF Holds
  <1>2. {Holds[d] : d \in DOMAIN Holds} =
           {Holds["config"], Holds["secrets"], Holds["certs"], Holds["stubroot"], Holds["log"],
            Holds["webroot"]}
    BY <1>1
  <1>3. {"users.json", "outbounds.json", "account.key", "cert", "config.toml", "teleproxy.toml",
        "sing-box.json", "panel.db", "index.html"} \subseteq UNION {Holds[d] : d \in DOMAIN Holds}
    BY <1>2 DEF Holds
  <1>4. \A t \in {"stub", "tls", "panel"} : SiteFile[t] \in {SiteFile[s] : s \in Sites \ {"default"}}
    BY DEF Sites
  <1>5. \A t \in Services : Unit[t] \in {Unit[s] : s \in Services}
                          /\ Binary[t] \in {Binary[s] : s \in Services}
    OBVIOUS
  <1>6. /\ DOMAIN Holds \subseteq Things /\ UNION {Holds[d] : d \in DOMAIN Holds} \subseteq Things
        /\ {Unit[s] : s \in Services} \subseteq Things
        /\ {Binary[s] : s \in Services} \subseteq Things
        /\ {SiteFile[s] : s \in Sites \ {"default"}} \subseteq Things
        /\ {"tgproxy-cli", "snippet"} \subseteq Things
    <2> DEFINE dirs == DOMAIN Holds
               held == UNION {Holds[d] : d \in DOMAIN Holds}
               unitFiles == {Unit[s] : s \in Services}
               binaries == {Binary[s] : s \in Services}
               siteFiles == {SiteFile[s] : s \in Sites \ {"default"}}
    <2>1. Things = dirs \cup held \cup unitFiles \cup binaries \cup siteFiles
                   \cup {"tgproxy-cli", "snippet"}
      BY DEF Things
    <2> HIDE DEF dirs, held, unitFiles, binaries, siteFiles
    <2>2. /\ dirs \subseteq Things /\ held \subseteq Things /\ unitFiles \subseteq Things
          /\ binaries \subseteq Things /\ siteFiles \subseteq Things
          /\ {"tgproxy-cli", "snippet"} \subseteq Things
      BY <2>1
    <2>3. QED
      BY <2>2 DEF dirs, held, unitFiles, binaries, siteFiles
  <1>7. \A s \in Services : Unit[s] \in Things /\ Binary[s] \in Things
    BY <1>5, <1>6
  <1>8. \A s \in {"stub", "tls", "panel"} : SiteFile[s] \in Things
    BY <1>4, <1>6
  <1>9. Binary["teleproxy"] = "teleproxy" /\ Binary["panel"] = "tgproxy-panel"
        /\ Binary["singbox"] = "sing-box"
    BY DEF Binary
  <1>10. QED
    BY <1>1, <1>3, <1>6, <1>7, <1>8, <1>9

LEMMA PuttableAre ==
    /\ {"users.json", "outbounds.json", "config.toml", "teleproxy.toml", "sing-box.json", "panel.db",
        "index.html", "tgproxy-cli", "snippet"} \subseteq Puttable
    /\ \A s \in Services : Unit[s] \in Puttable /\ Binary[s] \in Puttable
    /\ \A s \in {"stub", "tls", "panel"} : SiteFile[s] \in Puttable
    /\ Puttable \subseteq Things
  <1>1. \A s \in Services : Unit[s] \in Puttable /\ Binary[s] \in Puttable
    <2>1. \A s \in Services : Unit[s] \in Things /\ Binary[s] \in Things
      BY ThingsAre
    <2>2. \A s \in Services : Unit[s] \notin DOMAIN Holds \cup {"account.key", "cert"}
      BY ThingsAre DEF Services, Unit
    <2>3. \A s \in Services : Binary[s] \notin DOMAIN Holds \cup {"account.key", "cert"}
      BY ThingsAre DEF Services, Binary
    <2>4. QED
      BY <2>1, <2>2, <2>3 DEF Puttable
  <1>2. \A s \in {"stub", "tls", "panel"} : SiteFile[s] \in Puttable
    <2>1. \A s \in {"stub", "tls", "panel"} : SiteFile[s] \notin DOMAIN Holds \cup {"account.key", "cert"}
      <3>1. SiteFile["stub"] = "site stub" /\ SiteFile["tls"] = "site tls"
            /\ SiteFile["panel"] = "site panel"
        BY DEF SiteFile
      <3>2. QED
        BY <3>1, ThingsAre
    <2>2. QED
      BY <2>1, ThingsAre DEF Puttable
  <1>3. QED
    BY <1>1, <1>2, ThingsAre DEF Puttable

\* The steps there can be.
LEMMA StepsAre ==
    /\ \A x \in Puttable : Put(x) \in Steps
    /\ \A d \in DOMAIN Holds : Dir(d) \in Steps
    /\ \A s \in Services : <<"enable", s>> \in Steps /\ <<"start", s>> \in Steps
    /\ \A s \in {"stub", "tls", "panel"} : <<"site", s>> \in Steps
    /\ \A s \in Sites : <<"nosite", s>> \in Steps
    /\ <<"apt", "nginx">> \in Steps /\ Reload \in Steps
  BY DEF Put, Dir, Reload, Steps, Sites

-----------------------------------------------------------------------------
(* The order of a plan: the directories first, every file before what needs it, the panel last. *)

Needed(s) ==
    CASE s[1] = "enable" -> {Unit[s[2]]}
      [] s[1] = "start" -> {Unit[s[2]], Binary[s[2]]}
      [] s[1] = "site" -> {SiteFile[s[2]]}
      [] OTHER -> {}

Puts(s) == {x \in Puttable : \E i \in 1..Len(s) : s[i] = Put(x)}

\* With what there is, every step of s finds what it needs.
Follows(s, there) ==
    \A j \in 1..Len(s) : \A x \in Needed(s[j]) :
        x \in there \/ \E i \in 1..(j - 1) : s[i] = Put(x)

Last == <<"start", "panel">>

\* After the directories.
Later(acme) == {s \in Steps : s[1] # "dir" /\ (s[1] = "site" /\ s[2] # "stub" => acme)}
Quiet(acme) == Later(acme) \ {Last}

\* How a plan begins.
Begun(acme, s) ==
    /\ s \in Seq(Steps) /\ Len(s) >= 11
    /\ \A i \in 1..11 : s[i] = Base[i]
    /\ \A i \in 12..Len(s) : s[i] \in Quiet(acme)
    /\ Follows(s, {})

\* A whole one.
Ordered(acme, s) ==
    /\ s \in Seq(Steps) /\ Len(s) >= 12
    /\ \A i \in 1..11 : s[i] = Base[i]
    /\ \A i \in 12..Len(s) : s[i] \in Later(acme)
    /\ \A i \in 1..(Len(s) - 1) : s[i] # Last
    /\ Follows(s, {})

LEMMA BaseIs ==
    /\ Len(Base) = 11 /\ Base[1] = <<"apt", "nginx">> /\ Base[2] = Dir("config")
    /\ Base[3] = Dir("secrets") /\ Base[4] = Dir("log") /\ Base[5] = Dir("stubroot")
    /\ Base[6] = Dir("certs") /\ Base[7] = Dir("webroot") /\ Base[8] = Put("tgproxy-cli")
    /\ Base[9] = Put("tgproxy-panel") /\ Base[10] = Put("teleproxy")
    /\ Base[11] = Put("config.toml")
    /\ \A i \in 1..11 : Base[i][1] \in {"apt", "dir", "put"}
  <1>1. /\ Len(Base) = 11 /\ Base[1] = <<"apt", "nginx">> /\ Base[2] = Dir("config")
        /\ Base[3] = Dir("secrets") /\ Base[4] = Dir("log") /\ Base[5] = Dir("stubroot")
        /\ Base[6] = Dir("certs") /\ Base[7] = Dir("webroot") /\ Base[8] = Put("tgproxy-cli")
        /\ Base[9] = Put("tgproxy-panel") /\ Base[10] = Put("teleproxy")
        /\ Base[11] = Put("config.toml")
    BY DEF Base
  <1>2. \A x : Dir(x)[1] = "dir" /\ Put(x)[1] = "put"
    BY DEF Dir, Put
  <1>3. ASSUME NEW i \in 1..11 PROVE Base[i][1] \in {"apt", "dir", "put"}
    <2>1. i \in {1, 2, 3, 4, 5, 6, 7, 8, 9, 10, 11}
      OBVIOUS
    <2>2. QED
      BY <1>1, <1>2, <2>1
  <1>4. QED
    BY <1>1, <1>3

LEMMA NeededAre ==
    /\ \A x : Needed(Put(x)) = {} /\ Needed(Dir(x)) = {} /\ Needed(<<"nosite", x>>) = {}
    /\ Needed(<<"apt", "nginx">>) = {} /\ Needed(Reload) = {}
    /\ \A s : /\ Needed(<<"enable", s>>) = {Unit[s]}
              /\ Needed(<<"start", s>>) = {Unit[s], Binary[s]}
              /\ Needed(<<"site", s>>) = {SiteFile[s]}
  BY DEF Needed, Put, Dir, Reload

LEMMA QuietAre ==
    ASSUME NEW acme \in BOOLEAN
    PROVE  /\ \A x \in Puttable : Put(x) \in Quiet(acme)
           /\ \A s \in Services : <<"enable", s>> \in Quiet(acme)
           /\ \A s \in {"teleproxy", "singbox"} : <<"start", s>> \in Quiet(acme)
           /\ <<"site", "stub">> \in Quiet(acme) /\ <<"nosite", "default">> \in Quiet(acme)
           /\ acme => \A s \in {"tls", "panel"} : <<"site", s>> \in Quiet(acme)
           /\ Reload \in Quiet(acme)
           /\ Quiet(acme) \subseteq Later(acme) /\ Later(acme) \subseteq Steps
           /\ Last \in Later(acme)
  <1>1. \A x \in Puttable : Put(x) \in Quiet(acme)
    BY StepsAre DEF Quiet, Later, Last, Put
  <1>2. \A s \in Services : <<"enable", s>> \in Quiet(acme)
    BY StepsAre DEF Quiet, Later, Last
  <1>3. \A s \in {"teleproxy", "singbox"} : <<"start", s>> \in Quiet(acme)
    BY StepsAre DEF Quiet, Later, Last, Services
  <1>4. <<"site", "stub">> \in Quiet(acme) /\ <<"nosite", "default">> \in Quiet(acme)
    BY StepsAre DEF Quiet, Later, Last, Sites
  <1>5. acme => \A s \in {"tls", "panel"} : <<"site", s>> \in Quiet(acme)
    BY StepsAre DEF Quiet, Later, Last
  <1>6. Reload \in Quiet(acme)
    BY StepsAre DEF Quiet, Later, Last, Reload
  <1>7. Last \in Later(acme)
    BY StepsAre DEF Later, Last, Services
  <1>8. QED
    BY <1>1, <1>2, <1>3, <1>4, <1>5, <1>6, <1>7 DEF Quiet, Later

\* What is joined to a sequence may rely on what it puts.
LEMMA Joined ==
    ASSUME NEW s \in Seq(Steps), NEW t \in Seq(Steps)
    PROVE  /\ s \o t \in Seq(Steps)
           /\ Len(s) \in Nat /\ Len(t) \in Nat /\ Len(s \o t) = Len(s) + Len(t)
           /\ \A i \in 1..Len(s) : (s \o t)[i] = s[i]
           /\ \A i \in 1..Len(t) : (s \o t)[Len(s) + i] = t[i]
           /\ Puts(s) \cup Puts(t) \subseteq Puts(s \o t)
           /\ Follows(s, {}) /\ Follows(t, Puts(s)) => Follows(s \o t, {})
  <1> DEFINE u == s \o t
  <1>1. u \in Seq(Steps) /\ Len(s) \in Nat /\ Len(t) \in Nat /\ Len(u) = Len(s) + Len(t)
    BY ConcatProperties, LenProperties
  <1>2. \A i \in 1..Len(s) : u[i] = s[i]
    BY <1>1, ConcatProperties
  <1>3. \A i \in 1..Len(t) : u[Len(s) + i] = t[i]
    BY <1>1, ConcatProperties
  <1> HIDE DEF u
  <1>4. Puts(s) \cup Puts(t) \subseteq Puts(u)
    <2>1. ASSUME NEW x \in Puts(s) PROVE x \in Puts(u)
      BY <1>1, <1>2, <2>1 DEF Puts
    <2>2. ASSUME NEW x \in Puts(t) PROVE x \in Puts(u)
      <3>1. PICK i \in 1..Len(t) : t[i] = Put(x)
        BY <2>2 DEF Puts
      <3>2. Len(s) + i \in 1..Len(u) /\ u[Len(s) + i] = Put(x)
        BY <1>1, <1>3, <3>1
      <3>3. QED
        BY <2>2, <3>2 DEF Puts
    <2>3. QED
      BY <2>1, <2>2
  <1>5. ASSUME Follows(s, {}), Follows(t, Puts(s)) PROVE Follows(u, {})
    <2>1. SUFFICES ASSUME NEW j \in 1..Len(u), NEW x \in Needed(u[j])
                   PROVE  \E i \in 1..(j - 1) : u[i] = Put(x)
      BY DEF Follows
    <2>2. CASE j <= Len(s)
      <3>1. x \in Needed(s[j]) /\ j \in 1..Len(s)
        BY <1>1, <1>2, <2>2
      <3>2. PICK i \in 1..(j - 1) : s[i] = Put(x)
        BY <1>5, <3>1 DEF Follows
      <3>3. i \in 1..Len(s)
        BY <1>1, <2>2
      <3>4. u[i] = Put(x)
        BY <1>2, <3>2, <3>3
      <3>5. QED
        BY <3>4
    <2>3. CASE j > Len(s)
      <3>1. PICK k \in 1..Len(t) : j = Len(s) + k
        <4>1. j - Len(s) \in 1..Len(t) /\ j = Len(s) + (j - Len(s))
          BY <1>1, <2>3
        <4>2. QED
          BY <4>1
      <3>2. x \in Needed(t[k])
        BY <1>3, <3>1
      <3>3. CASE x \in Puts(s)
        <4>1. PICK i \in 1..Len(s) : s[i] = Put(x)
          BY <3>3 DEF Puts
        <4>2. i \in 1..(j - 1) /\ u[i] = Put(x)
          BY <1>1, <1>2, <3>1, <4>1
        <4>3. QED
          BY <4>2
      <3>4. CASE x \notin Puts(s)
        <4>1. PICK i \in 1..(k - 1) : t[i] = Put(x)
          BY <1>5, <3>2, <3>4 DEF Follows
        <4>2. Len(s) + i \in 1..(j - 1) /\ i \in 1..Len(t)
          BY <1>1, <3>1
        <4>3. QED
          BY <1>3, <4>1, <4>2
      <3>5. QED
        BY <3>3, <3>4
    <2>4. QED
      BY <1>1, <2>2, <2>3
  <1>6. QED
    BY <1>1, <1>2, <1>3, <1>4, <1>5 DEF u

LEMMA Grows ==
    ASSUME NEW acme \in BOOLEAN, NEW s, NEW t \in Seq(Quiet(acme)), Begun(acme, s), Follows(t, Puts(s))
    PROVE  Begun(acme, s \o t) /\ Puts(s) \cup Puts(t) \subseteq Puts(s \o t)
  <1>1. s \in Seq(Steps) /\ t \in Seq(Steps) /\ Len(s) >= 11
    BY QuietAre, SeqMonotonic DEF Begun
  <1>2. \A i \in 1..Len(t) : t[i] \in Quiet(acme)
    BY ElementOfSeq
  <1> DEFINE u == s \o t
  <1>3. /\ u \in Seq(Steps) /\ Len(s) \in Nat /\ Len(t) \in Nat /\ Len(u) = Len(s) + Len(t)
        /\ \A i \in 1..Len(s) : u[i] = s[i]
        /\ \A i \in 1..Len(t) : u[Len(s) + i] = t[i]
        /\ Puts(s) \cup Puts(t) \subseteq Puts(u)
        /\ Follows(u, {})
    BY <1>1, Joined DEF Begun
  <1> HIDE DEF u
  <1>4. \A i \in 1..11 : u[i] = Base[i]
    <2>1. SUFFICES ASSUME NEW i \in 1..11 PROVE u[i] = Base[i]
      OBVIOUS
    <2>2. i \in 1..Len(s)
      BY <1>1, <1>3
    <2>3. s[i] = Base[i]
      BY DEF Begun
    <2>4. QED
      BY <1>3, <2>2, <2>3
  <1>5. ASSUME NEW i \in 12..Len(u) PROVE u[i] \in Quiet(acme)
    <2>1. CASE i <= Len(s)
      <3>1. i \in 1..Len(s) /\ i \in 12..Len(s)
        BY <1>3, <2>1
      <3>2. s[i] \in Quiet(acme)
        BY <3>1 DEF Begun
      <3>3. QED
        BY <1>3, <3>1, <3>2
    <2>2. CASE i > Len(s)
      <3>1. i - Len(s) \in 1..Len(t) /\ i = Len(s) + (i - Len(s))
        BY <1>3, <2>2
      <3>2. QED
        BY <1>2, <1>3, <3>1
    <2>3. QED
      BY <1>3, <2>1, <2>2
  <1>6. Len(u) >= 11
    BY <1>1, <1>3
  <1>7. Begun(acme, u)
    BY <1>3, <1>4, <1>5, <1>6 DEF Begun
  <1>8. QED
    BY <1>3, <1>7 DEF u

LEMMA Closes ==
    ASSUME NEW acme \in BOOLEAN, NEW s, NEW t \in Seq(Steps), Begun(acme, s), Follows(t, Puts(s)),
           Len(t) >= 1, t[Len(t)] = Last, \A i \in 1..(Len(t) - 1) : t[i] \in Quiet(acme)
    PROVE  Ordered(acme, s \o t)
  <1>1. s \in Seq(Steps) /\ Len(s) >= 11
    BY DEF Begun
  <1> DEFINE u == s \o t
  <1>2. /\ u \in Seq(Steps) /\ Len(s) \in Nat /\ Len(t) \in Nat /\ Len(u) = Len(s) + Len(t)
        /\ \A i \in 1..Len(s) : u[i] = s[i]
        /\ \A i \in 1..Len(t) : u[Len(s) + i] = t[i]
        /\ Follows(u, {})
    BY <1>1, Joined DEF Begun
  <1> HIDE DEF u
  <1>3. \A i \in 1..11 : u[i] = Base[i]
    <2>1. SUFFICES ASSUME NEW i \in 1..11 PROVE u[i] = Base[i]
      OBVIOUS
    <2>2. i \in 1..Len(s)
      BY <1>1, <1>2
    <2>3. s[i] = Base[i]
      BY DEF Begun
    <2>4. QED
      BY <1>2, <2>2, <2>3
  <1>4. ASSUME NEW i \in 12..Len(u) PROVE u[i] \in Later(acme) /\ (i < Len(u) => u[i] \in Quiet(acme))
    <2>1. CASE i <= Len(s)
      <3>1. i \in 12..Len(s) /\ u[i] = s[i]
        BY <1>2, <2>1
      <3>2. s[i] \in Quiet(acme)
        BY <3>1 DEF Begun
      <3>3. QED
        BY <3>1, <3>2, QuietAre
    <2>2. CASE i > Len(s)
      <3>1. PICK k \in 1..Len(t) : i = Len(s) + k
        <4>1. i - Len(s) \in 1..Len(t) /\ i = Len(s) + (i - Len(s))
          BY <1>2, <2>2
        <4>2. QED
          BY <4>1
      <3>2. CASE k = Len(t)
        BY <1>2, <3>1, <3>2, QuietAre
      <3>3. CASE k # Len(t)
        BY <1>2, <3>1, <3>3, QuietAre
      <3>4. QED
        BY <3>2, <3>3
    <2>3. QED
      BY <1>2, <2>1, <2>2
  <1>5. ASSUME NEW i \in 1..(Len(u) - 1) PROVE u[i] # Last
    <2>1. CASE i <= 11
      <3>1. Len(u) \in Nat
        BY <1>2
      <3>2. i \in 1..11
        BY <2>1, <3>1
      <3>3. u[i] = Base[i]
        BY <1>3, <3>2
      <3>4. Base[i][1] # "start"
        BY <3>2, BaseIs
      <3>5. QED
        BY <3>3, <3>4 DEF Last
    <2>2. CASE i > 11
      BY <1>2, <1>4, <2>2 DEF Quiet
    <2>3. QED
      BY <2>1, <2>2
  <1>6. Len(u) >= 12
    BY <1>1, <1>2
  <1>7. Ordered(acme, u)
    BY <1>2, <1>3, <1>4, <1>5, <1>6 DEF Ordered
  <1>8. QED
    BY <1>7 DEF u

-----------------------------------------------------------------------------
(* Every plan is ordered. *)

When(cond, steps) == IF cond THEN steps ELSE <<>>

Ending(c) == <<Put(Unit["panel"])>> \o Start("teleproxy") \o When(c.bridge, Start("singbox"))
             \o Start("panel")

EndingAlone == <<Put(Unit["panel"]), <<"enable", "teleproxy">>, <<"start", "teleproxy">>,
                 <<"enable", "panel">>, Last>>
EndingBridge == <<Put(Unit["panel"]), <<"enable", "teleproxy">>, <<"start", "teleproxy">>,
                  <<"enable", "singbox">>, <<"start", "singbox">>, <<"enable", "panel">>, Last>>

LEMMA PlanIs ==
    ASSUME NEW c
    PROVE  Plan(c) = Base \o When(c.bridge, BridgeFiles) \o MainFiles
                     \o When(c.acme, <<Put("snippet")>>) \o StubSite \o When(c.acme, Site("tls"))
                     \o (IF c.acme THEN WithProxy(Ending(c)) ELSE Ending(c))
  BY DEF Plan, Base, BridgeFiles, MainFiles, StubSite, Ending, When

LEMMA PartsQuiet ==
    ASSUME NEW acme \in BOOLEAN
    PROVE  /\ BridgeFiles \in Seq(Quiet(acme)) /\ MainFiles \in Seq(Quiet(acme))
           /\ <<Put("snippet")>> \in Seq(Quiet(acme)) /\ StubSite \in Seq(Quiet(acme))
           /\ <<>> \in Seq(Quiet(acme))
           /\ acme => \A s \in {"tls", "panel"} : Site(s) \in Seq(Quiet(acme))
  <1> DEFINE Q == Quiet(acme)
  <1>1. /\ \A x \in Puttable : Put(x) \in Q
        /\ <<"site", "stub">> \in Q /\ <<"nosite", "default">> \in Q /\ Reload \in Q
        /\ acme => \A s \in {"tls", "panel"} : <<"site", s>> \in Q
    BY QuietAre
  <1>2. /\ Put("outbounds.json") \in Q /\ Put("sing-box.json") \in Q /\ Put("teleproxy.toml") \in Q
        /\ Put("users.json") \in Q /\ Put("panel.db") \in Q /\ Put("snippet") \in Q
        /\ Put("index.html") \in Q
    BY <1>1, PuttableAre
  <1>3. Put("sing-box") \in Q /\ Put(Unit["singbox"]) \in Q /\ Put(Unit["teleproxy"]) \in Q
    BY <1>1, PuttableAre, ThingsAre DEF Services
  <1>4. \A s \in {"stub", "tls", "panel"} : Put(SiteFile[s]) \in Q
    BY <1>1, PuttableAre
  <1> HIDE DEF Q
  <1>5. BridgeFiles \in Seq(Q) /\ MainFiles \in Seq(Q)
    BY <1>2, <1>3 DEF BridgeFiles, MainFiles
  <1>6. <<Put("snippet")>> \in Seq(Q) /\ StubSite \in Seq(Q) /\ <<>> \in Seq(Q)
    BY <1>1, <1>2, <1>4 DEF StubSite
  <1>7. acme => \A s \in {"tls", "panel"} : Site(s) \in Seq(Q)
    BY <1>1, <1>4 DEF Site
  <1>8. QED
    BY <1>5, <1>6, <1>7 DEF Q

\* What is put by the first parts, and that these need nothing from elsewhere.
LEMMA PartsFollow ==
    ASSUME NEW there
    PROVE  /\ Follows(Base, there) /\ Follows(BridgeFiles, there) /\ Follows(MainFiles, there)
           /\ Follows(<<Put("snippet")>>, there) /\ Follows(StubSite, there) /\ Follows(<<>>, there)
           /\ \A s \in {"tls", "panel"} : Follows(Site(s), there)
           /\ {Binary["teleproxy"], Binary["panel"]} \subseteq Puts(Base)
           /\ {Binary["singbox"], Unit["singbox"]} \subseteq Puts(BridgeFiles)
           /\ Unit["teleproxy"] \in Puts(MainFiles)
  <1>1. Follows(Base, there)
    <2>1. ASSUME NEW i \in 1..11 PROVE Needed(Base[i]) = {}
      <3>1. i \in {1, 2, 3, 4, 5, 6, 7, 8, 9, 10, 11}
        OBVIOUS
      <3>2. QED
        BY <3>1, BaseIs, NeededAre
    <2>2. QED
      BY <2>1, BaseIs DEF Follows
  <1>2. Follows(BridgeFiles, there) /\ Follows(MainFiles, there)
    BY NeededAre DEF Follows, BridgeFiles, MainFiles
  <1>3. Follows(<<Put("snippet")>>, there) /\ Follows(<<>>, there)
    BY NeededAre DEF Follows
  <1>4. Follows(StubSite, there)
    <2> DEFINE t == StubSite
    <2>1. /\ Len(t) = 5 /\ t[1] = Put(SiteFile["stub"]) /\ t[2] = <<"nosite", "default">>
          /\ t[3] = <<"site", "stub">> /\ t[4] = Reload /\ t[5] = Put("index.html")
      BY DEF StubSite
    <2> HIDE DEF t
    <2>2. \A j \in {1, 2, 4, 5} : Needed(t[j]) = {}
      BY <2>1, NeededAre
    <2>3. Needed(t[3]) = {SiteFile["stub"]}
      BY <2>1, NeededAre
    <2>4. ASSUME NEW j \in 1..5, NEW x \in Needed(t[j]) PROVE \E i \in 1..(j - 1) : t[i] = Put(x)
      <3>1. j = 3
        BY <2>2, <2>4
      <3>2. 1 \in 1..(j - 1) /\ t[1] = Put(x)
        BY <2>1, <2>3, <2>4, <3>1
      <3>3. QED
        BY <3>2
    <2>5. QED
      BY <2>1, <2>4 DEF Follows, t
  <1>5. ASSUME NEW s \in {"tls", "panel"} PROVE Follows(Site(s), there)
    <2> DEFINE t == Site(s)
    <2>1. Len(t) = 3 /\ t[1] = Put(SiteFile[s]) /\ t[2] = <<"site", s>> /\ t[3] = Reload
      BY DEF Site
    <2> HIDE DEF t
    <2>2. Needed(t[1]) = {} /\ Needed(t[3]) = {} /\ Needed(t[2]) = {SiteFile[s]}
      BY <2>1, NeededAre
    <2>3. ASSUME NEW j \in 1..3, NEW x \in Needed(t[j]) PROVE \E i \in 1..(j - 1) : t[i] = Put(x)
      <3>1. j = 2
        BY <2>2, <2>3
      <3>2. 1 \in 1..(j - 1) /\ t[1] = Put(x)
        BY <2>1, <2>2, <2>3, <3>1
      <3>3. QED
        BY <3>2
    <2>4. QED
      BY <2>1, <2>3 DEF Follows, t
  <1>6. {Binary["teleproxy"], Binary["panel"]} \subseteq Puts(Base)
    <2>1. Binary["teleproxy"] \in Puttable /\ Binary["panel"] \in Puttable
      BY PuttableAre DEF Services
    <2>2. Base[10] = Put(Binary["teleproxy"]) /\ Base[9] = Put(Binary["panel"]) /\ Len(Base) = 11
      BY BaseIs, ThingsAre
    <2>3. QED
      BY <2>1, <2>2 DEF Puts
  <1>7. {Binary["singbox"], Unit["singbox"]} \subseteq Puts(BridgeFiles)
    <2>1. Binary["singbox"] \in Puttable /\ Unit["singbox"] \in Puttable
      BY PuttableAre DEF Services
    <2>2. BridgeFiles[1] = Put(Binary["singbox"]) /\ BridgeFiles[4] = Put(Unit["singbox"])
          /\ Len(BridgeFiles) = 4
      BY ThingsAre DEF BridgeFiles
    <2>3. QED
      BY <2>1, <2>2 DEF Puts
  <1>8. Unit["teleproxy"] \in Puts(MainFiles)
    <2>1. Unit["teleproxy"] \in Puttable
      BY PuttableAre DEF Services
    <2>2. MainFiles[4] = Put(Unit["teleproxy"]) /\ Len(MainFiles) = 4
      BY DEF MainFiles
    <2>3. QED
      BY <2>1, <2>2 DEF Puts
  <1>9. QED
    BY <1>1, <1>2, <1>3, <1>4, <1>5, <1>6, <1>7, <1>8

LEMMA EndingIs ==
    ASSUME NEW c \in Choices
    PROVE  Ending(c) = IF c.bridge THEN EndingBridge ELSE EndingAlone
  <1> DEFINE a == <<Put(Unit["panel"])>>
             b == Start("teleproxy")
             d == Start("singbox")
             e == Start("panel")
  <1>1. a \in Seq(Steps) /\ b \in Seq(Steps) /\ d \in Seq(Steps) /\ e \in Seq(Steps)
    <2>1. Put(Unit["panel"]) \in Steps
      BY PuttableAre, StepsAre DEF Services
    <2>2. ASSUME NEW s \in Services PROVE Start(s) \in Seq(Steps)
      <3>1. <<"enable", s>> \in Steps /\ <<"start", s>> \in Steps
        BY StepsAre
      <3>2. QED
        BY <3>1 DEF Start
    <2>3. QED
      BY <2>1, <2>2 DEF Services
  <1>2. /\ Len(a) = 1 /\ a[1] = Put(Unit["panel"])
        /\ Len(b) = 2 /\ b[1] = <<"enable", "teleproxy">> /\ b[2] = <<"start", "teleproxy">>
        /\ Len(d) = 2 /\ d[1] = <<"enable", "singbox">> /\ d[2] = <<"start", "singbox">>
        /\ Len(e) = 2 /\ e[1] = <<"enable", "panel">> /\ e[2] = Last
    BY DEF Start, Last
  <1>3. EndingAlone \in Seq(Steps) /\ EndingBridge \in Seq(Steps)
    BY PuttableAre, StepsAre DEF EndingAlone, EndingBridge, Services, Last
  <1>4. c.bridge \in BOOLEAN /\ Ending(c) = ((a \o b) \o (IF c.bridge THEN d ELSE <<>>)) \o e
    BY DEF Ending, When, Choices
  <1> HIDE DEF a, b, d, e
  <1> DEFINE f == a \o b
  <1>5. /\ f \in Seq(Steps) /\ Len(f) = 3 /\ f[1] = Put(Unit["panel"])
        /\ f[2] = <<"enable", "teleproxy">> /\ f[3] = <<"start", "teleproxy">>
    <2>1. /\ f \in Seq(Steps) /\ Len(f) = Len(a) + Len(b)
          /\ \A i \in 1..Len(a) : f[i] = a[i]
          /\ \A i \in 1..Len(b) : f[Len(a) + i] = b[i]
      BY <1>1, Joined
    <2> HIDE DEF f
    <2>2. f[1] = a[1] /\ f[1 + 1] = b[1] /\ f[1 + 2] = b[2]
      BY <1>2, <2>1
    <2>3. QED
      BY <1>2, <2>1, <2>2
  <1> HIDE DEF f
  <1>6. CASE ~c.bridge
    <2>1. Ending(c) = f \o e
      BY <1>4, <1>5, <1>6, ConcatEmptySeq DEF f
    <2> DEFINE g == f \o e
    <2>2. /\ g \in Seq(Steps) /\ Len(g) = Len(f) + Len(e)
          /\ \A i \in 1..Len(f) : g[i] = f[i]
          /\ \A i \in 1..Len(e) : g[Len(f) + i] = e[i]
      BY <1>1, <1>5, Joined
    <2> HIDE DEF g
    <2>3. /\ Len(g) = 5 /\ g[1] = Put(Unit["panel"]) /\ g[2] = <<"enable", "teleproxy">>
          /\ g[3] = <<"start", "teleproxy">> /\ g[4] = <<"enable", "panel">> /\ g[5] = Last
      <3>1. g[1] = f[1] /\ g[2] = f[2] /\ g[3] = f[3] /\ g[3 + 1] = e[1] /\ g[3 + 2] = e[2]
        BY <1>2, <1>5, <2>2
      <3>2. QED
        BY <1>2, <1>5, <2>2, <3>1
    <2>4. /\ Len(EndingAlone) = 5
          /\ EndingAlone[1] = Put(Unit["panel"]) /\ EndingAlone[2] = <<"enable", "teleproxy">>
          /\ EndingAlone[3] = <<"start", "teleproxy">> /\ EndingAlone[4] = <<"enable", "panel">>
          /\ EndingAlone[5] = Last
      BY DEF EndingAlone
    <2>5. \A i \in 1..5 : g[i] = EndingAlone[i]
      <3>1. \A i \in 1..5 : i \in {1, 2, 3, 4, 5}
        OBVIOUS
      <3>2. QED
        BY <2>3, <2>4, <3>1
    <2>6. g = EndingAlone
      BY <1>3, <2>2, <2>3, <2>4, <2>5, SeqEqual
    <2>7. QED
      BY <1>6, <2>1, <2>6 DEF g
  <1>7. CASE c.bridge
    <2> DEFINE h == f \o d
    <2>1. Ending(c) = h \o e
      BY <1>4, <1>7 DEF f
    <2>2. /\ h \in Seq(Steps) /\ Len(h) = Len(f) + Len(d)
          /\ \A i \in 1..Len(f) : h[i] = f[i]
          /\ \A i \in 1..Len(d) : h[Len(f) + i] = d[i]
      BY <1>1, <1>5, Joined
    <2> HIDE DEF h
    <2>3. /\ Len(h) = 5 /\ h[1] = Put(Unit["panel"]) /\ h[2] = <<"enable", "teleproxy">>
          /\ h[3] = <<"start", "teleproxy">> /\ h[4] = <<"enable", "singbox">>
          /\ h[5] = <<"start", "singbox">>
      <3>1. h[1] = f[1] /\ h[2] = f[2] /\ h[3] = f[3] /\ h[3 + 1] = d[1] /\ h[3 + 2] = d[2]
        BY <1>2, <1>5, <2>2
      <3>2. QED
        BY <1>2, <1>5, <2>2, <3>1
    <2> DEFINE g == h \o e
    <2>4. /\ g \in Seq(Steps) /\ Len(g) = Len(h) + Len(e)
          /\ \A i \in 1..Len(h) : g[i] = h[i]
          /\ \A i \in 1..Len(e) : g[Len(h) + i] = e[i]
      BY <1>1, <2>2, Joined
    <2> HIDE DEF g
    <2>5. /\ Len(g) = 7 /\ g[1] = Put(Unit["panel"]) /\ g[2] = <<"enable", "teleproxy">>
          /\ g[3] = <<"start", "teleproxy">> /\ g[4] = <<"enable", "singbox">>
          /\ g[5] = <<"start", "singbox">> /\ g[6] = <<"enable", "panel">> /\ g[7] = Last
      <3>1. \A i \in {1, 2, 3, 4, 5} : g[i] = h[i]
        BY <2>3, <2>4
      <3>2. g[5 + 1] = e[1] /\ g[5 + 2] = e[2]
        BY <1>2, <2>3, <2>4
      <3>3. QED
        BY <1>2, <2>3, <2>4, <3>1, <3>2
    <2>6. /\ Len(EndingBridge) = 7
          /\ EndingBridge[1] = Put(Unit["panel"]) /\ EndingBridge[2] = <<"enable", "teleproxy">>
          /\ EndingBridge[3] = <<"start", "teleproxy">> /\ EndingBridge[4] = <<"enable", "singbox">>
          /\ EndingBridge[5] = <<"start", "singbox">> /\ EndingBridge[6] = <<"enable", "panel">>
          /\ EndingBridge[7] = Last
      BY DEF EndingBridge
    <2>7. \A i \in 1..7 : g[i] = EndingBridge[i]
      <3>1. \A i \in 1..7 : i \in {1, 2, 3, 4, 5, 6, 7}
        OBVIOUS
      <3>2. QED
        BY <2>5, <2>6, <3>1
    <2>8. g = EndingBridge
      BY <1>3, <2>4, <2>5, <2>6, <2>7, SeqEqual
    <2>9. QED
      BY <1>7, <2>1, <2>8 DEF g
  <1>8. QED
    BY <1>4, <1>6, <1>7

\* The three ends there are.
LEMMA EndsWell ==
    ASSUME NEW acme \in BOOLEAN, NEW s, Begun(acme, s),
           {Binary["teleproxy"], Binary["panel"], Unit["teleproxy"]} \subseteq Puts(s)
    PROVE  /\ Ordered(acme, s \o EndingAlone)
           /\ {Binary["singbox"], Unit["singbox"]} \subseteq Puts(s) =>
                 /\ Ordered(acme, s \o EndingBridge)
                 /\ Unit["panel"] \in Puts(s) => Ordered(acme, s \o SubSeq(EndingBridge, 3, 7))
  <1> DEFINE Q == Quiet(acme)
  <1>1. /\ Put(Unit["panel"]) \in Q /\ <<"enable", "teleproxy">> \in Q
        /\ <<"start", "teleproxy">> \in Q /\ <<"enable", "singbox">> \in Q
        /\ <<"start", "singbox">> \in Q /\ <<"enable", "panel">> \in Q
        /\ Q \subseteq Steps /\ Last \in Steps
    BY QuietAre, PuttableAre DEF Services
  <1>2. /\ Needed(Put(Unit["panel"])) = {} /\ Needed(<<"enable", "teleproxy">>) = {Unit["teleproxy"]}
        /\ Needed(<<"start", "teleproxy">>) = {Unit["teleproxy"], Binary["teleproxy"]}
        /\ Needed(<<"enable", "singbox">>) = {Unit["singbox"]}
        /\ Needed(<<"start", "singbox">>) = {Unit["singbox"], Binary["singbox"]}
        /\ Needed(<<"enable", "panel">>) = {Unit["panel"]}
        /\ Needed(Last) = {Unit["panel"], Binary["panel"]}
    BY NeededAre DEF Last
  <1> HIDE DEF Q
  <1>3. /\ EndingAlone \in Seq(Steps) /\ Len(EndingAlone) = 5
        /\ EndingAlone[1] = Put(Unit["panel"]) /\ EndingAlone[2] = <<"enable", "teleproxy">>
        /\ EndingAlone[3] = <<"start", "teleproxy">> /\ EndingAlone[4] = <<"enable", "panel">>
        /\ EndingAlone[5] = Last
    BY <1>1 DEF EndingAlone
  <1>4. /\ EndingBridge \in Seq(Steps) /\ Len(EndingBridge) = 7
        /\ EndingBridge[1] = Put(Unit["panel"]) /\ EndingBridge[2] = <<"enable", "teleproxy">>
        /\ EndingBridge[3] = <<"start", "teleproxy">> /\ EndingBridge[4] = <<"enable", "singbox">>
        /\ EndingBridge[5] = <<"start", "singbox">> /\ EndingBridge[6] = <<"enable", "panel">>
        /\ EndingBridge[7] = Last
    BY <1>1 DEF EndingBridge
  <1>5. Ordered(acme, s \o EndingAlone)
    <2> DEFINE t == EndingAlone
    <2>1. \A i \in 1..(Len(t) - 1) : t[i] \in Q
      <3>1. \A i \in 1..(Len(t) - 1) : i \in {1, 2, 3, 4}
        BY <1>3
      <3>2. QED
        BY <1>1, <1>3, <3>1
    <2>2. Follows(t, Puts(s))
      <3>1. SUFFICES ASSUME NEW j \in 1..5, NEW x \in Needed(t[j]), x \notin Puts(s)
                     PROVE  \E i \in 1..(j - 1) : t[i] = Put(x)
        BY <1>3 DEF Follows
      <3>2. j \in {1, 2, 3, 4, 5}
        OBVIOUS
      <3>3. j \in {4, 5} /\ x = Unit["panel"]
        BY <1>2, <1>3, <3>1, <3>2
      <3>4. 1 \in 1..(j - 1) /\ t[1] = Put(x)
        BY <1>3, <3>3
      <3>5. QED
        BY <3>4
    <2>3. t \in Seq(Steps) /\ Len(t) >= 1 /\ t[Len(t)] = Last
      BY <1>3
    <2> HIDE DEF t
    <2>4. QED
      BY <2>1, <2>2, <2>3, Closes DEF t, Q
  <1>6. ASSUME {Binary["singbox"], Unit["singbox"]} \subseteq Puts(s)
        PROVE  Ordered(acme, s \o EndingBridge)
    <2> DEFINE t == EndingBridge
    <2>1. \A i \in 1..(Len(t) - 1) : t[i] \in Q
      <3>1. \A i \in 1..(Len(t) - 1) : i \in {1, 2, 3, 4, 5, 6}
        BY <1>4
      <3>2. QED
        BY <1>1, <1>4, <3>1
    <2>2. Follows(t, Puts(s))
      <3>1. SUFFICES ASSUME NEW j \in 1..7, NEW x \in Needed(t[j]), x \notin Puts(s)
                     PROVE  \E i \in 1..(j - 1) : t[i] = Put(x)
        BY <1>4 DEF Follows
      <3>2. j \in {1, 2, 3, 4, 5, 6, 7}
        OBVIOUS
      <3>3. j \in {6, 7} /\ x = Unit["panel"]
        <4>1. Needed(t[1]) = {} /\ Needed(t[2]) \cup Needed(t[3]) \subseteq Puts(s)
          BY <1>2, <1>4
        <4>2. Needed(t[4]) \cup Needed(t[5]) \subseteq Puts(s)
          BY <1>2, <1>4, <1>6
        <4>3. Needed(t[6]) \cup Needed(t[7]) \subseteq Puts(s) \cup {Unit["panel"]}
          BY <1>2, <1>4
        <4>4. j \in {6, 7}
          BY <3>1, <3>2, <4>1, <4>2
        <4>5. QED
          BY <3>1, <4>3, <4>4
      <3>4. 1 \in 1..(j - 1) /\ t[1] = Put(x)
        BY <1>4, <3>3
      <3>5. QED
        BY <3>4
    <2>3. t \in Seq(Steps) /\ Len(t) >= 1 /\ t[Len(t)] = Last
      BY <1>4
    <2> HIDE DEF t
    <2>4. QED
      BY <2>1, <2>2, <2>3, Closes DEF t, Q
  <1>7. ASSUME {Binary["singbox"], Unit["singbox"]} \subseteq Puts(s), Unit["panel"] \in Puts(s)
        PROVE  Ordered(acme, s \o SubSeq(EndingBridge, 3, 7))
    <2> DEFINE t == SubSeq(EndingBridge, 3, 7)
    <2>1. \A i \in 3..7 : EndingBridge[i] \in Steps
      <3>1. \A i \in 3..7 : i \in 1..Len(EndingBridge)
        BY <1>4
      <3>2. QED
        BY <1>4, <3>1, ElementOfSeq
    <2>2. /\ t \in Seq(Steps) /\ Len(t) = 5
          /\ \A i \in 1..5 : t[i] = EndingBridge[3 + i - 1]
      <3>1. /\ t \in Seq(Steps) /\ Len(t) = (IF 3 <= 7 THEN 7 - 3 + 1 ELSE 0)
            /\ \A i \in 1..(7 - 3 + 1) : t[i] = EndingBridge[3 + i - 1]
        BY <2>1, SubSeqProperties
      <3> HIDE DEF t
      <3>2. QED
        BY <3>1
    <2> HIDE DEF t
    <2>3. /\ t[1] = <<"start", "teleproxy">> /\ t[2] = <<"enable", "singbox">>
          /\ t[3] = <<"start", "singbox">> /\ t[4] = <<"enable", "panel">> /\ t[5] = Last
      BY <1>4, <2>2
    <2>4. \A i \in 1..(Len(t) - 1) : t[i] \in Q
      <3>1. \A i \in 1..(Len(t) - 1) : i \in {1, 2, 3, 4}
        BY <2>2
      <3>2. QED
        BY <1>1, <2>3, <3>1
    <2>5. Follows(t, Puts(s))
      <3>1. SUFFICES ASSUME NEW j \in 1..5, NEW x \in Needed(t[j]) PROVE x \in Puts(s)
        BY <2>2 DEF Follows
      <3>2. j \in {1, 2, 3, 4, 5}
        OBVIOUS
      <3>3. QED
        BY <1>2, <1>7, <2>3, <3>1, <3>2
    <2>6. Len(t) >= 1 /\ t[Len(t)] = Last
      BY <2>2, <2>3
    <2>7. QED
      BY <2>2, <2>4, <2>5, <2>6, Closes DEF t, Q
  <1>8. QED
    BY <1>5, <1>6, <1>7

\* A step that a mode does not have is no step.
LEMMA GrowsWhen ==
    ASSUME NEW acme \in BOOLEAN, NEW s, NEW cond \in BOOLEAN, NEW t, Begun(acme, s),
           cond => t \in Seq(Quiet(acme)) /\ Follows(t, Puts(s))
    PROVE  /\ Begun(acme, s \o When(cond, t)) /\ Puts(s) \subseteq Puts(s \o When(cond, t))
           /\ cond => Puts(t) \subseteq Puts(s \o When(cond, t))
  <1>1. CASE cond
    <2>1. When(cond, t) = t
      BY <1>1 DEF When
    <2>2. QED
      BY <1>1, <2>1, Grows
  <1>2. CASE ~cond
    <2>1. When(cond, t) = <<>>
      BY <1>2 DEF When
    <2>2. <<>> \in Seq(Quiet(acme)) /\ Follows(<<>>, Puts(s))
      BY PartsQuiet, PartsFollow
    <2>3. QED
      BY <1>2, <2>1, <2>2, Grows
  <1>3. QED
    BY <1>1, <1>2

LEMMA BaseBegins == ASSUME NEW acme \in BOOLEAN PROVE Begun(acme, Base)
  <1>1. /\ {"tgproxy-cli", "teleproxy", "config.toml"} \subseteq Puttable
        /\ "tgproxy-panel" \in Puttable
    BY PuttableAre, ThingsAre DEF Services
  <1>2. {"config", "secrets", "log", "stubroot", "certs", "webroot"} \subseteq DOMAIN Holds
    BY ThingsAre
  <1>3. /\ Put("tgproxy-cli") \in Steps /\ Put("tgproxy-panel") \in Steps
        /\ Put("teleproxy") \in Steps /\ Put("config.toml") \in Steps
    BY <1>1, StepsAre
  <1>4. /\ Dir("config") \in Steps /\ Dir("secrets") \in Steps /\ Dir("log") \in Steps
        /\ Dir("stubroot") \in Steps /\ Dir("certs") \in Steps /\ Dir("webroot") \in Steps
    BY <1>2, StepsAre
  <1>5. Base \in Seq(Steps)
    BY <1>3, <1>4, StepsAre DEF Base
  <1>6. Follows(Base, {})
    BY PartsFollow
  <1>7. QED
    BY <1>5, <1>6, BaseIs DEF Begun

LEMMA PlanOrdered == ASSUME NEW c \in Choices PROVE Ordered(c.acme, Plan(c))
  <1> DEFINE g1 == Base
             g2 == g1 \o When(c.bridge, BridgeFiles)
             g3 == g2 \o MainFiles
             g4 == g3 \o When(c.acme, <<Put("snippet")>>)
             g5 == g4 \o StubSite
             g6 == g5 \o When(c.acme, Site("tls"))
             end == IF c.acme THEN WithProxy(Ending(c)) ELSE Ending(c)
             A == c.acme
  <1>1. c.acme \in BOOLEAN /\ c.bridge \in BOOLEAN
    BY DEF Choices
  <1>2. Plan(c) = g6 \o end
    BY PlanIs
  <1>3. /\ Begun(A, g1) /\ {Binary["teleproxy"], Binary["panel"]} \subseteq Puts(g1)
    BY <1>1, BaseBegins, PartsFollow
  <1> HIDE DEF g1
  <1>4. /\ Begun(A, g2) /\ Puts(g1) \subseteq Puts(g2)
        /\ c.bridge => {Binary["singbox"], Unit["singbox"]} \subseteq Puts(g2)
    <2>1. BridgeFiles \in Seq(Quiet(A)) /\ Follows(BridgeFiles, Puts(g1))
      BY <1>1, PartsQuiet, PartsFollow
    <2>2. /\ Begun(A, g2) /\ Puts(g1) \subseteq Puts(g2)
          /\ c.bridge => Puts(BridgeFiles) \subseteq Puts(g2)
      BY <1>1, <1>3, <2>1, GrowsWhen
    <2>3. QED
      BY <2>2, PartsFollow
  <1> HIDE DEF g2
  <1>5. Begun(A, g3) /\ Puts(g2) \subseteq Puts(g3) /\ Unit["teleproxy"] \in Puts(g3)
    <2>1. MainFiles \in Seq(Quiet(A)) /\ Follows(MainFiles, Puts(g2))
      BY <1>1, PartsQuiet, PartsFollow
    <2>2. Begun(A, g3) /\ Puts(g2) \cup Puts(MainFiles) \subseteq Puts(g3)
      BY <1>1, <1>4, <2>1, Grows
    <2>3. QED
      BY <2>2, PartsFollow
  <1> HIDE DEF g3
  <1>6. Begun(A, g4) /\ Puts(g3) \subseteq Puts(g4)
    <2>1. <<Put("snippet")>> \in Seq(Quiet(A)) /\ Follows(<<Put("snippet")>>, Puts(g3))
      BY <1>1, PartsQuiet, PartsFollow
    <2>2. QED
      BY <1>1, <1>5, <2>1, GrowsWhen
  <1> HIDE DEF g4
  <1>7. Begun(A, g5) /\ Puts(g4) \subseteq Puts(g5)
    <2>1. StubSite \in Seq(Quiet(A)) /\ Follows(StubSite, Puts(g4))
      BY <1>1, PartsQuiet, PartsFollow
    <2>2. QED
      BY <1>1, <1>6, <2>1, Grows
  <1> HIDE DEF g5
  <1>8. Begun(A, g6) /\ Puts(g5) \subseteq Puts(g6)
    <2>1. A => Site("tls") \in Seq(Quiet(A)) /\ Follows(Site("tls"), Puts(g5))
      BY <1>1, PartsQuiet, PartsFollow
    <2>2. QED
      BY <1>1, <1>7, <2>1, GrowsWhen
  <1> HIDE DEF g6
  <1>9. /\ {Binary["teleproxy"], Binary["panel"], Unit["teleproxy"]} \subseteq Puts(g6)
        /\ c.bridge => {Binary["singbox"], Unit["singbox"]} \subseteq Puts(g6)
    BY <1>3, <1>4, <1>5, <1>6, <1>7, <1>8
  <1>10. Ending(c) = IF c.bridge THEN EndingBridge ELSE EndingAlone
    BY EndingIs
  <1>11. CASE ~c.acme
    <2>1. end = IF c.bridge THEN EndingBridge ELSE EndingAlone
      BY <1>10, <1>11
    <2> HIDE DEF end
    <2>2. QED
      BY <1>1, <1>2, <1>8, <1>9, <2>1, EndsWell
  <1>12. EndingAlone \in Seq(Steps) /\ EndingBridge \in Seq(Steps) /\ Len(EndingAlone) = 5
         /\ Len(EndingBridge) = 7 /\ EndingBridge[1] = Put(Unit["panel"])
         /\ EndingBridge[2] = <<"enable", "teleproxy">>
    BY PuttableAre, StepsAre DEF EndingAlone, EndingBridge, Services, Last
  <1>13. CASE c.acme /\ ~c.bridge
    <2> DEFINE h == g6 \o Site("panel")
    <2>1. end = SubSeq(EndingAlone, 1, 0) \o Site("panel") \o SubSeq(EndingAlone, 1, 5)
      <3>1. end = WithProxy(EndingAlone)
        BY <1>10, <1>13
      <3>2. Len(EndingAlone) - 5 = 0 /\ Len(EndingAlone) - 4 = 1
        BY <1>12
      <3>3. QED
        BY <1>12, <3>1, <3>2 DEF WithProxy
    <2>2. SubSeq(EndingAlone, 1, 0) = <<>> /\ SubSeq(EndingAlone, 1, 5) = EndingAlone
      BY <1>12, SubSeqEmpty, SubSeqFull
    <2>3. Site("panel") \in Seq(Quiet(A)) /\ Follows(Site("panel"), Puts(g6))
      BY <1>1, <1>13, PartsQuiet, PartsFollow
    <2>4. Site("panel") \in Seq(Steps) /\ g6 \in Seq(Steps)
      BY <1>1, <1>8, <2>3, QuietAre, SeqMonotonic DEF Begun
    <2>5. Begun(A, h) /\ Puts(g6) \subseteq Puts(h)
      BY <1>1, <1>8, <2>3, Grows
    <2>6. end = Site("panel") \o EndingAlone
      BY <2>1, <2>2, <2>4, ConcatEmptySeq
    <2> HIDE DEF end
    <2>7. Plan(c) = h \o EndingAlone
      <3>1. (g6 \o Site("panel")) \o EndingAlone = g6 \o (Site("panel") \o EndingAlone)
        BY <1>12, <2>4, ConcatAssociative
      <3>2. QED
        BY <1>2, <2>6, <3>1
    <2> HIDE DEF h
    <2>8. QED
      BY <1>1, <1>9, <2>5, <2>7, EndsWell
  <1>14. CASE c.acme /\ c.bridge
    <2> DEFINE a == SubSeq(EndingBridge, 1, 2)
               z == SubSeq(EndingBridge, 3, 7)
               h == g6 \o a
               k == h \o Site("panel")
    <2>1. end = a \o Site("panel") \o z
      <3>1. end = WithProxy(EndingBridge)
        BY <1>10, <1>14
      <3>2. Len(EndingBridge) - 5 = 2 /\ Len(EndingBridge) - 4 = 3
        BY <1>12
      <3>3. QED
        BY <1>12, <3>1, <3>2 DEF WithProxy
    <2>2. \A i \in 1..7 : EndingBridge[i] \in Steps
      BY <1>12, ElementOfSeq
    <2>3. z \in Seq(Steps)
      BY <2>2, SubSeqProperties
    <2>4. /\ Len(a) = 2 /\ a[1] = Put(Unit["panel"]) /\ a[2] = <<"enable", "teleproxy">>
          /\ a \in Seq(Quiet(A))
      <3>1. Put(Unit["panel"]) \in Quiet(A) /\ <<"enable", "teleproxy">> \in Quiet(A)
        BY <1>1, QuietAre, PuttableAre DEF Services
      <3>2. \A i \in 1..2 : i \in {1, 2}
        OBVIOUS
      <3>3. \A i \in 1..2 : EndingBridge[i] \in Quiet(A)
        BY <1>12, <3>1, <3>2
      <3>4. /\ a \in Seq(Quiet(A)) /\ Len(a) = (IF 1 <= 2 THEN 2 - 1 + 1 ELSE 0)
            /\ \A i \in 1..(2 - 1 + 1) : a[i] = EndingBridge[1 + i - 1]
        BY <3>3, SubSeqProperties
      <3> HIDE DEF a
      <3>5. Len(a) = 2 /\ a[1] = EndingBridge[1] /\ a[2] = EndingBridge[2]
        BY <3>4
      <3>6. QED
        BY <1>12, <3>4, <3>5
    <2>5. Site("panel") \in Seq(Quiet(A)) /\ Follows(Site("panel"), Puts(h))
      BY <1>1, <1>14, PartsQuiet, PartsFollow
    <2> HIDE DEF a, z
    <2>6. a \in Seq(Steps) /\ Site("panel") \in Seq(Steps) /\ g6 \in Seq(Steps)
      BY <1>1, <1>8, <2>4, <2>5, QuietAre, SeqMonotonic DEF Begun
    <2>7. Follows(a, Puts(g6))
      <3>1. SUFFICES ASSUME NEW j \in 1..2, NEW x \in Needed(a[j]) PROVE x \in Puts(g6)
        BY <2>4 DEF Follows
      <3>2. j \in {1, 2}
        OBVIOUS
      <3>3. Needed(a[1]) = {} /\ Needed(a[2]) = {Unit["teleproxy"]}
        BY <2>4, NeededAre
      <3>4. QED
        BY <1>9, <3>1, <3>2, <3>3
    <2>8. Begun(A, h) /\ Puts(g6) \subseteq Puts(h) /\ Unit["panel"] \in Puts(h)
      <3>1. Unit["panel"] \in Puts(a)
        BY <2>4, PuttableAre DEF Puts, Services
      <3>2. QED
        BY <1>1, <1>8, <2>4, <2>7, <3>1, Grows
    <2>9. Plan(c) = k \o z
      <3> DEFINE q == a \o Site("panel")
      <3>1. q \in Seq(Steps)
        BY <2>6, ConcatProperties
      <3>2. (g6 \o a) \o Site("panel") = g6 \o q
        BY <2>6, ConcatAssociative
      <3>3. Plan(c) = g6 \o (q \o z)
        BY <1>2, <2>1
      <3>4. g6 \in Seq(Steps)
        BY <2>6
      <3> HIDE DEF q, h, k, end
      <3>5. (g6 \o q) \o z = g6 \o (q \o z)
        BY <2>3, <3>1, <3>4, ConcatAssociative
      <3>6. QED
        BY <3>2, <3>3, <3>5 DEF h, k
    <2> HIDE DEF h
    <2>10. Begun(A, k) /\ Puts(h) \subseteq Puts(k)
      BY <1>1, <2>5, <2>8, Grows
    <2> HIDE DEF k
    <2>11. QED
      BY <1>1, <1>9, <1>14, <2>8, <2>9, <2>10, EndsWell DEF z
  <1>15. QED
    BY <1>1, <1>11, <1>13, <1>14

LEMMA PlanTyped ==
    ASSUME NEW c \in Choices
    PROVE  Plan(c) \in Seq(Steps) /\ Len(Plan(c)) \in Nat /\ Len(Plan(c)) >= 11
  <1>1. Plan(c) \in Seq(Steps) /\ Len(Plan(c)) >= 12
    BY PlanOrdered DEF Ordered
  <1>2. Len(Plan(c)) \in Nat
    BY <1>1, LenProperties
  <1>3. QED
    BY <1>1, <1>2
-----------------------------------------------------------------------------
(* What the order of a plan comes to. *)

LEMMA ParentsAre ==
    /\ \A x : Parents(x) \subseteq {"config", "secrets", "certs", "stubroot"}
    /\ Parents("config") = {} /\ Parents("log") = {} /\ Parents("stubroot") = {}
    /\ Parents("webroot") = {} /\ Parents("secrets") = {"config"} /\ Parents("certs") = {"config"}
    /\ Parents("account.key") = {"certs"} /\ Parents("cert") = {"certs"}
    /\ \A s \in Services : Parents(Unit[s]) = {} /\ Parents(Binary[s]) = {}
    /\ Parents("tgproxy-cli") = {}
    /\ \A x, d : d \in Parents(x) <=> d \in DOMAIN Holds /\ x \in Holds[d]
  <1>1. /\ Holds["config"] = {"secrets", "certs", "config.toml", "teleproxy.toml", "sing-box.json",
                              "panel.db"}
        /\ Holds["secrets"] = {"users.json", "outbounds.json"}
        /\ Holds["certs"] = {"account.key", "cert"} /\ Holds["stubroot"] = {"index.html"}
        /\ Holds["log"] = {} /\ Holds["webroot"] = {}
    BY DEF Holds
  <1>2. \A x, d : d \in Parents(x) <=> d \in DOMAIN Holds /\ x \in Holds[d]
    BY DEF Parents
  <1>3. \A x : Parents(x) \subseteq {"config", "secrets", "certs", "stubroot"}
    BY <1>1, <1>2, ThingsAre
  <1>4. \A s \in Services : Parents(Unit[s]) = {} /\ Parents(Binary[s]) = {}
    <2>1. SUFFICES ASSUME NEW x \in {"teleproxy.service", "tgproxy-panel.service",
                                     "sing-box.service", "teleproxy", "tgproxy-panel", "sing-box"}
                   PROVE  Parents(x) = {}
      BY DEF Unit, Binary, Services
    <2>2. \A d \in {"config", "secrets", "certs", "stubroot"} : x \notin Holds[d]
      BY <1>1, <2>1
    <2>3. QED
      BY <1>2, <1>3, <2>2
  <1>5. /\ Parents("config") = {} /\ Parents("log") = {} /\ Parents("stubroot") = {}
        /\ Parents("webroot") = {} /\ Parents("tgproxy-cli") = {}
    BY <1>1, <1>2, <1>3
  <1>6. Parents("secrets") = {"config"} /\ Parents("certs") = {"config"}
    BY <1>1, <1>2, <1>3, ThingsAre
  <1>7. Parents("account.key") = {"certs"} /\ Parents("cert") = {"certs"}
    BY <1>1, <1>2, <1>3, ThingsAre
  <1>8. QED
    BY <1>2, <1>3, <1>4, <1>5, <1>6, <1>7

LEMMA KeepsIs == ASSUME NEW files PROVE Keeps(files) <=> \A x \in files : Parents(x) \subseteq files
  <1>1. ASSUME Keeps(files), NEW x \in files, NEW d \in Parents(x) PROVE d \in files
    BY <1>1, ParentsAre DEF Keeps
  <1>2. ASSUME \A x \in files : Parents(x) \subseteq files, NEW d \in DOMAIN Holds,
               Holds[d] \cap files # {}
        PROVE  d \in files
    BY <1>2, ParentsAre
  <1>3. QED
    BY <1>1, <1>2 DEF Keeps

LEMMA BaseDirs ==
    ASSUME NEW n \in 1..11, NEW d
    PROVE  /\ Base[n] = Put(d) => n \in 8..11
           /\ Base[n] = Dir(d) =>
                 \/ (n = 2 /\ d = "config") \/ (n = 3 /\ d = "secrets") \/ (n = 4 /\ d = "log")
                 \/ (n = 5 /\ d = "stubroot") \/ (n = 6 /\ d = "certs") \/ (n = 7 /\ d = "webroot")
  <1>1. \A x, y : Dir(x) # Put(y) /\ (Dir(x) = Dir(y) => x = y)
    BY DEF Dir, Put
  <1>2. CASE n = 1
    BY <1>2, BaseIs DEF Dir, Put
  <1>3. CASE n \in {2, 3, 4}
    <2>1. PICK e : /\ Base[n] = Dir(e)
                   /\ (n = 2 /\ e = "config") \/ (n = 3 /\ e = "secrets") \/ (n = 4 /\ e = "log")
      BY <1>3, BaseIs
    <2>2. QED
      BY <1>1, <2>1
  <1>4. CASE n \in {5, 6, 7}
    <2>1. PICK e : /\ Base[n] = Dir(e)
                   /\ (n = 5 /\ e = "stubroot") \/ (n = 6 /\ e = "certs") \/ (n = 7 /\ e = "webroot")
      BY <1>4, BaseIs
    <2>2. QED
      BY <1>1, <2>1
  <1>5. CASE n \in 8..11
    <2>1. n \in {8, 9, 10, 11}
      BY <1>5
    <2>2. QED
      BY <1>1, <1>5, <2>1, BaseIs
  <1>6. QED
    BY <1>2, <1>3, <1>4, <1>5

\* Each directory comes after the one that holds it and before what it holds.
LEMMA DirsFirst ==
    ASSUME NEW c \in Choices, NEW n \in 1..Len(Plan(c)), NEW d, Plan(c)[n] = Dir(d)
    PROVE  /\ d \in DOMAIN Holds /\ Parents(d) \subseteq Brought(c, n - 1)
           /\ Holds[d] \cap Brought(c, n) = {}
  <1> DEFINE P == Plan(c)
  <1>1. /\ P \in Seq(Steps) /\ Len(P) \in Nat /\ Len(P) >= 12 /\ Ordered(c.acme, P)
    BY PlanOrdered, PlanTyped DEF Ordered
  <1>2. \A i \in 1..11 : P[i] = Base[i]
    BY <1>1 DEF Ordered
  <1>3. \A i \in 12..Len(P) : P[i][1] # "dir"
    BY <1>1 DEF Ordered, Later
  <1>4. P[n] = Dir(d) /\ n \in 1..Len(P)
    OBVIOUS
  <1> HIDE DEF P
  <1>5. \A x : Dir(x) = <<"dir", x>> /\ Put(x) = <<"put", x>>
    BY DEF Dir, Put
  <1>6. n \in 1..11
    BY <1>1, <1>3, <1>4, <1>5
  <1>7. \/ (n = 2 /\ d = "config") \/ (n = 3 /\ d = "secrets") \/ (n = 4 /\ d = "log")
        \/ (n = 5 /\ d = "stubroot") \/ (n = 6 /\ d = "certs") \/ (n = 7 /\ d = "webroot")
    BY <1>2, <1>4, <1>6, BaseDirs
  <1>8. Parents(d) \subseteq Brought(c, n - 1)
    <2>1. CASE d \notin {"secrets", "certs"}
      BY <1>7, <2>1, ParentsAre
    <2>2. CASE d \in {"secrets", "certs"}
      <3>1. 2 \in 1..(n - 1) /\ P[2] = Dir("config") /\ "config" \in Things
        BY <1>2, <1>7, <2>2, BaseIs, ThingsAre
      <3>2. "config" \in Brought(c, n - 1)
        BY <3>1 DEF Brought, P
      <3>3. QED
        BY <2>2, <3>2, ParentsAre
    <2>3. QED
      BY <2>1, <2>2
  <1>9. ASSUME NEW x \in Holds[d] \cap Brought(c, n) PROVE FALSE
    <2>1. PICK i \in 1..n : P[i] \in {Put(x), Dir(x)}
      BY <1>9 DEF Brought, P
    <2>2. i \in {1, 2, 3, 4, 5, 6, 7} /\ i <= n
      BY <1>7
    <2>3. Base[i] \in {Put(x), Dir(x)}
      BY <1>2, <2>1, <2>2
    <2>4. \/ (i = 2 /\ x = "config") \/ (i = 3 /\ x = "secrets") \/ (i = 4 /\ x = "log")
          \/ (i = 5 /\ x = "stubroot") \/ (i = 6 /\ x = "certs") \/ (i = 7 /\ x = "webroot")
      <3>1. i \in 1..11 /\ i \notin 8..11
        BY <2>2
      <3>2. QED
        BY <2>3, <3>1, BaseDirs
    <2>5. d \in Parents(x)
      BY <1>7, <1>9, ParentsAre, ThingsAre
    <2>6. d = "config" /\ i \in {3, 6}
      BY <2>4, <2>5, ParentsAre
    <2>7. QED
      BY <1>7, <2>2, <2>6
  <1>10. d \in DOMAIN Holds
    BY <1>7, ThingsAre
  <1>11. QED
    BY <1>8, <1>9, <1>10

LEMMA NothingDone ==
    ASSUME NEW c PROVE Brought(c, 0) = {} /\ Enabled(c, 0) = {} /\ Started(c, 0) = {}
  <1>1. 1..0 = {}
    OBVIOUS
  <1>2. QED
    BY <1>1 DEF Brought, Enabled, Started

\* What one more step brings.
LEMMA OneMore ==
    ASSUME NEW c \in Choices, NEW n \in 1..Len(Plan(c))
    PROVE  /\ \A x \in Things : x \in Brought(c, n) <=>
                  x \in Brought(c, n - 1) \/ Plan(c)[n] \in {Put(x), Dir(x)}
           /\ \A s \in Services : s \in Enabled(c, n) <=>
                  s \in Enabled(c, n - 1) \/ Plan(c)[n] = <<"enable", s>>
           /\ \A s \in Services : s \in Started(c, n) <=>
                  s \in Started(c, n - 1) \/ Plan(c)[n] = <<"start", s>>
           /\ Brought(c, n) \subseteq Things /\ Brought(c, n - 1) \subseteq Things
           /\ Enabled(c, n) \subseteq Services /\ Enabled(c, n - 1) \subseteq Services
           /\ Started(c, n) \subseteq Services /\ Started(c, n - 1) \subseteq Services
  <1>1. Len(Plan(c)) \in Nat
    BY PlanTyped
  <1>2. n \in 1..n /\ \A i : i \in 1..n <=> i \in 1..(n - 1) \/ i = n
    BY <1>1
  <1>3. ASSUME NEW x \in Things
        PROVE  x \in Brought(c, n) <=> x \in Brought(c, n - 1) \/ Plan(c)[n] \in {Put(x), Dir(x)}
    BY <1>2 DEF Brought
  <1>4. ASSUME NEW s \in Services
        PROVE  s \in Enabled(c, n) <=> s \in Enabled(c, n - 1) \/ Plan(c)[n] = <<"enable", s>>
    BY <1>2 DEF Enabled
  <1>5. ASSUME NEW s \in Services
        PROVE  s \in Started(c, n) <=> s \in Started(c, n - 1) \/ Plan(c)[n] = <<"start", s>>
    BY <1>2 DEF Started
  <1>6. QED
    BY <1>3, <1>4, <1>5 DEF Brought, Enabled, Started

\* What a step needs has been put, into directories that have been made; the certificate is
\* not put, and the panel not started before the end.
LEMMA InOrder ==
    ASSUME NEW c \in Choices, NEW n \in 1..Len(Plan(c))
    PROVE  /\ Plan(c)[n] \in Steps
           /\ Needed(Plan(c)[n]) \subseteq Brought(c, n - 1)
           /\ n >= 8 => DOMAIN Holds \subseteq Brought(c, n - 1)
           /\ Plan(c)[n][1] = "put" => n >= 8
           /\ Plan(c)[n][1] = "site" /\ Plan(c)[n][2] # "stub" => c.acme
           /\ n = 1 => Plan(c)[n] = <<"apt", "nginx">>
           /\ "panel" \notin Started(c, n - 1)
           /\ "cert" \notin Brought(c, n - 1)
  <1> DEFINE P == Plan(c)
  <1>1. /\ P \in Seq(Steps) /\ Len(P) \in Nat /\ Len(P) >= 12 /\ Ordered(c.acme, P)
    BY PlanOrdered, PlanTyped DEF Ordered
  <1>2. /\ \A i \in 1..Len(P) : P[i] \in Steps
    BY <1>1, ElementOfSeq
  <1>3. /\ \A i \in 1..11 : P[i] = Base[i]
        /\ \A i \in 12..Len(P) : P[i] \in Later(c.acme)
        /\ \A i \in 1..(Len(P) - 1) : P[i] # Last
        /\ Follows(P, {})
    BY <1>1 DEF Ordered
  <1>4. n \in 1..Len(P)
    OBVIOUS
  <1>5. Brought(c, n - 1) = {x \in Things : \E i \in 1..(n - 1) : P[i] \in {Put(x), Dir(x)}}
        /\ Started(c, n - 1) = {s \in Services : \E i \in 1..(n - 1) : P[i] = <<"start", s>>}
    BY DEF Brought, Started
  <1> HIDE DEF P
  <1>6. Needed(P[n]) \subseteq Brought(c, n - 1)
    <2>1. SUFFICES ASSUME NEW x \in Needed(P[n]) PROVE x \in Brought(c, n - 1)
      OBVIOUS
    <2>2. PICK i \in 1..(n - 1) : P[i] = Put(x)
      BY <1>3, <1>4 DEF Follows
    <2>3. x \in Things
      BY <1>1, <1>2, <1>4, <2>2, PuttableAre, ThingsAre DEF Steps, Put
    <2>4. QED
      BY <1>5, <2>2, <2>3
  <1>7. ASSUME n >= 8 PROVE DOMAIN Holds \subseteq Brought(c, n - 1)
    <2>1. \A i \in {2, 3, 4, 5, 6, 7} : i \in 1..(n - 1) /\ P[i] = Base[i]
      <3>1. \A i \in {2, 3, 4, 5, 6, 7} : i \in 1..(n - 1) /\ i \in 1..11
        BY <1>1, <1>4, <1>7
      <3>2. QED
        BY <1>3, <3>1
    <2>2. /\ Base[2] = Dir("config") /\ Base[3] = Dir("secrets") /\ Base[4] = Dir("log")
          /\ Base[5] = Dir("stubroot") /\ Base[6] = Dir("certs") /\ Base[7] = Dir("webroot")
      BY BaseIs
    <2>3. ASSUME NEW d \in DOMAIN Holds PROVE d \in Brought(c, n - 1)
      <3>1. d \in {"config", "secrets", "log", "stubroot", "certs", "webroot"} /\ d \in Things
        BY <2>3, ThingsAre
      <3>2. PICK i \in {2, 3, 4, 5, 6, 7} : Base[i] = Dir(d)
        BY <2>2, <3>1
      <3>3. i \in 1..(n - 1) /\ P[i] = Dir(d)
        BY <2>1, <3>2
      <3>4. QED
        BY <1>5, <3>1, <3>3
    <2>4. QED
      BY <2>3
  <1>8. ASSUME P[n][1] = "put" PROVE n >= 8
    <2>1. SUFFICES ASSUME n < 8 PROVE FALSE
      BY <1>1, <1>4
    <2>2. n \in {1, 2, 3, 4, 5, 6, 7} /\ n \in 1..11
      BY <1>1, <1>4, <2>1
    <2>3. P[n] = Base[n]
      BY <1>3, <2>2
    <2>4. QED
      BY <1>8, <2>2, <2>3, BaseIs DEF Dir
  <1>9. ASSUME P[n][1] = "site", P[n][2] # "stub" PROVE c.acme
    <2>1. CASE n \in 1..11
      BY <1>3, <1>9, <2>1, BaseIs
    <2>2. CASE n \in 12..Len(P)
      BY <1>3, <1>9, <2>2 DEF Later
    <2>3. QED
      BY <1>1, <1>4, <2>1, <2>2
  <1>10. "panel" \notin Started(c, n - 1)
    <2>1. \A i \in 1..(n - 1) : i \in 1..(Len(P) - 1)
      BY <1>1, <1>4
    <2>2. QED
      BY <1>3, <1>5, <2>1 DEF Last
  <1>11. "cert" \notin Brought(c, n - 1)
    <2>1. SUFFICES ASSUME NEW i \in 1..(n - 1), P[i] \in {Put("cert"), Dir("cert")} PROVE FALSE
      BY <1>5
    <2>2. P[i] \in Steps
      BY <1>1, <1>2, <1>4
    <2>3. QED
      BY <2>1, <2>2, ThingsAre DEF Steps, Put, Dir, Puttable
  <1>12. n = 1 => P[n] = <<"apt", "nginx">>
    BY <1>3, BaseIs
  <1>13. QED
    BY <1>2, <1>4, <1>6, <1>7, <1>8, <1>9, <1>10, <1>11, <1>12 DEF P

-----------------------------------------------------------------------------
(* Types: the commands install and uninstall. *)

LEMMA EntriesAre ==
    /\ Len(Entries) = 6 /\ \A i \in 1..6 : Entries[i] \in Archived
    /\ Archived = {"config.toml", "teleproxy.toml", "sing-box.json", "users.json",
                   "outbounds.json", "panel.db"}
  BY DEF Entries, Archived

LEMMA ArchivedThings == Archived \subseteq Things
  BY EntriesAre, ThingsAre

\* The steps of an install and of its rollback are steps of the plan.
LEMMA AtWork ==
    ASSUME HostTyped, StepTyped
    PROVE  /\ at = "steps" /\ step <= Len(Plan(command)) => Plan(command)[step] \in Steps
           /\ at = "undo" /\ step > 0 => Plan(command)[step] \in Steps
           /\ Len(Plan(command)) \in Nat /\ Len(Plan(command)) >= 11
  <1>1. Plan(command) \in Seq(Steps) /\ Len(Plan(command)) \in Nat /\ Len(Plan(command)) >= 11
    BY PlanTyped DEF HostTyped
  <1>2. \A i \in 1..Len(Plan(command)) : Plan(command)[i] \in Steps
    BY <1>1, ElementOfSeq
  <1>3. QED
    BY <1>1, <1>2 DEF StepTyped

LEMMA StepKinds ==
    ASSUME NEW s \in Steps
    PROVE  /\ s[1] \in {"put", "dir", "enable", "start", "site", "nosite", "apt", "reload"}
           /\ s[1] \in {"put", "dir"} => s[2] \in Things
           /\ s[1] = "dir" => s[2] \in DOMAIN Holds
           /\ s[1] \in {"enable", "start"} => s[2] \in Services
           /\ s[1] \in {"site", "nosite"} => s[2] \in Sites
           /\ s = <<s[1], s[2]>>
  BY ThingsAre DEF Steps, Puttable

Placed ==
    /\ disk \subseteq Things /\ enabled \subseteq Services /\ running \subseteq Services
    /\ nginx \in {"absent", "up", "down"} /\ (nginx = "up" \/ served = {})
    /\ sites \subseteq Sites /\ served \subseteq Sites

LEMMA DoPlaced ==
    ASSUME NEW s \in Steps, Placed, Possible(s[1], s[2]), Do(s[1], s[2]) PROVE Placed'
  <1>1. disk' \subseteq Things /\ enabled' \subseteq Services /\ running' \subseteq Services
    BY StepKinds DEF Placed, Do
  <1>2. CASE s[1] = "apt" /\ nginx = "absent"
    BY <1>1, <1>2 DEF Placed, Do, Sites
  <1>3. CASE s[1] = "site"
    BY <1>1, <1>3, StepKinds DEF Placed, Do
  <1>4. CASE s[1] = "nosite"
    BY <1>1, <1>4, StepKinds DEF Placed, Do
  <1>5. CASE s[1] = "reload"
    BY <1>1, <1>5, StepKinds DEF Placed, Do, Possible
  <1>6. CASE s[1] \notin {"site", "nosite", "reload"} /\ ~(s[1] = "apt" /\ nginx = "absent")
    <2>1. UNCHANGED web
      BY <1>6 DEF Do
    <2>2. QED
      BY <1>1, <2>1 DEF Placed, web
  <1>7. QED
    BY <1>2, <1>3, <1>4, <1>5, <1>6

LEMMA UndoPlaced ==
    ASSUME NEW s \in Steps, Placed, Undo(s[1], s[2]) PROVE Placed'
  BY DEF Placed, Undo

LEMMA InstallPlaced ==
    ASSUME HostTyped, StepTyped, InstallNext PROVE Placed'
  <1> USE DEF units, web, past
  <1>1. Placed
    BY DEF Placed, HostTyped
  <1>2. CASE \E acme \in Acme, bridge \in Bridge, inPlace \in InPlace :
                 BeginInstall(acme, bridge, inPlace)
    <2>1. {"tgproxy-cli", "tgproxy-panel"} \subseteq Things
      BY ThingsAre DEF Services
    <2>2. QED
      BY <1>1, <1>2, <2>1 DEF BeginInstall, Placed
  <1>3. CASE AccountKey \/ Order
    BY <1>1, <1>3, ThingsAre DEF AccountKey, Order, Placed
  <1>4. CASE ApplyStep \/ StepFails
    <2>1. Plan(command)[step] \in Steps
      BY <1>4, AtWork DEF ApplyStep, StepFails
    <2>2. CASE UNCHANGED <<disk, units, web>>
      BY <1>1, <2>2 DEF Placed
    <2>3. CASE ~UNCHANGED <<disk, units, web>>
      BY <1>1, <1>4, <2>1, <2>3, DoPlaced DEF ApplyStep, StepFails
    <2>4. QED
      BY <2>2, <2>3
  <1>5. CASE UndoStep
    BY <1>1, <1>5, AtWork, UndoPlaced DEF UndoStep, ToUndo
  <1>6. CASE OrderFails \/ UndoFails \/ RolledBack \/ Verified \/ BeginUninstall \/ Killed
    BY <1>1, <1>6 DEF OrderFails, UndoFails, RolledBack, Verified, BeginUninstall, Killed, Placed
  <1>7. CASE CheckFails \/ StopServices \/ StopServicesFails
    BY <1>1, <1>7 DEF CheckFails, StopServices, StopServicesFails, Placed
  <1>8. CASE RemoveFiles \/ RemoveDirs \/ RemoveFails
    BY <1>1, <1>8 DEF RemoveFiles, RemoveDirs, RemoveFails, Placed
  <1>9. CASE ReloadNginx
    BY <1>1, <1>9 DEF ReloadNginx, Placed
  <1>10. CASE Reboot
    BY <1>1, <1>10 DEF Reboot, Placed
  <1>11. QED
    BY <1>2, <1>3, <1>4, <1>5, <1>6, <1>7, <1>8, <1>9, <1>10 DEF InstallNext

Counted ==
    /\ trouble \in BOOLEAN /\ partial \in BOOLEAN
    /\ count \in 0..MaxMishaps /\ commands \in 0..MaxCommands

LEMMA MishapCounts ==
    ASSUME count \in 0..MaxMishaps, trouble \in BOOLEAN,
           Calm \/ \E kind \in {"step", "undo", "order", "check", "remove", "kill",
                                "archive", "large", "extract", "stop", "start"} : Mishap(kind)
    PROVE  count' \in 0..MaxMishaps /\ trouble' \in BOOLEAN
  <1>1. CASE Calm
    BY <1>1 DEF Calm
  <1>2. ASSUME NEW kind, Mishap(kind) PROVE count' \in 0..MaxMishaps
    BY <1>2, InstallAssumption DEF Mishap
  <1>3. ASSUME NEW kind, Mishap(kind) PROVE trouble' \in BOOLEAN
    BY <1>3 DEF Mishap
  <1>4. QED
    BY <1>1, <1>2, <1>3

LEMMA InstallCounted ==
    ASSUME HostTyped, InstallNext PROVE Counted'
  <1> USE DEF units, web, past
  <1>1. Counted
    BY DEF Counted, HostTyped
  <1>2. CASE (\E acme \in Acme, bridge \in Bridge, inPlace \in InPlace :
                 BeginInstall(acme, bridge, inPlace)) \/ BeginUninstall
    <2>1. commands < MaxCommands /\ commands' = commands + 1 /\ UNCHANGED count
          /\ trouble' = FALSE /\ partial' = FALSE
      BY <1>2 DEF BeginInstall, BeginUninstall, Begin
    <2>2. commands' \in 0..MaxCommands
      BY <1>1, <2>1, InstallAssumption DEF Counted
    <2>3. QED
      BY <1>1, <2>1, <2>2 DEF Counted
  <1>3. CASE Reboot
    <2>1. commands < MaxCommands /\ commands' = commands + 1
          /\ UNCHANGED <<count, trouble, partial>>
      BY <1>3 DEF Reboot, Calm
    <2>2. commands' \in 0..MaxCommands
      BY <1>1, <2>1, InstallAssumption DEF Counted
    <2>3. QED
      BY <1>1, <2>1, <2>2 DEF Counted
  <1>4. CASE ~(BeginUninstall \/ Reboot \/ \E acme \in Acme, bridge \in Bridge, inPlace \in InPlace :
                 BeginInstall(acme, bridge, inPlace))
    <2>1. Calm \/ \E kind \in {"step", "undo", "order", "check", "remove", "kill",
                                "archive", "large", "extract", "stop", "start"} : Mishap(kind)
      BY <1>4 DEF InstallNext, AccountKey, Order, OrderFails, ApplyStep, StepFails, UndoStep,
         UndoFails, RolledBack, Verified, CheckFails, StopServices, StopServicesFails, RemoveFiles,
         RemoveDirs,
         RemoveFails, ReloadNginx, Killed
    <2>2. UNCHANGED commands /\ partial' \in {partial, TRUE}
      BY <1>4 DEF InstallNext, AccountKey, Order, OrderFails, ApplyStep, StepFails, UndoStep,
         UndoFails, RolledBack, Verified, CheckFails, StopServices, StopServicesFails, RemoveFiles,
         RemoveDirs,
         RemoveFails, ReloadNginx, Killed
    <2>3. QED
      BY <1>1, <2>1, <2>2, MishapCounts DEF Counted
  <1>5. QED
    BY <1>2, <1>3, <1>4

Commanded ==
    /\ command \in Choices /\ at \in Stages
    /\ found.units \subseteq Services
    /\ found = [disk |-> found.disk, units |-> found.units, sound |-> found.sound,
                port80 |-> found.port80]

LEMMA InstallCommanded ==
    ASSUME HostTyped, StepTyped, InstallNext PROVE Commanded' /\ StepTyped'
  <1> USE DEF units, web, past
  <1> DEFINE C == command' = command /\ UNCHANGED found
  <1>1. Commanded
    BY DEF Commanded, HostTyped
  <1>2. Len(Plan(command)) \in Nat /\ Len(Plan(command)) >= 11 /\ Len(Entries) = 6
    BY AtWork, EntriesAre
  <1>3. ASSUME NEW acme \in Acme, NEW bridge \in Bridge, NEW inPlace \in InPlace,
               BeginInstall(acme, bridge, inPlace)
        PROVE  Commanded' /\ StepTyped'
    <2>1. /\ command' = [op |-> "install", acme |-> acme, bridge |-> bridge, inPlace |-> inPlace]
          /\ at' \in {"account", "steps"} /\ step' = 1
          /\ found'.units = enabled \cup running
          /\ found' = [disk |-> found'.disk, units |-> found'.units, sound |-> found'.sound,
                       port80 |-> found'.port80]
      BY <1>3 DEF BeginInstall, Begin
    <2>2. command' \in Choices
      BY <2>1, InstallAssumption DEF Choices
    <2>3. Len(Plan(command')) \in Nat
      BY <2>2, PlanTyped
    <2>4. Len(Plan(command))' = Len(Plan(command'))
      OBVIOUS
    <2>5. StepTyped'
      BY <2>1, <2>3, <2>4, <1>2 DEF StepTyped, Entries
    <2>6. QED
      BY <2>1, <2>2, <2>5 DEF Commanded, HostTyped, Stages
  <1>4. CASE BeginUninstall
    <2>1. /\ command' = [Nothing EXCEPT !.op = "uninstall"] /\ at' = "services" /\ step' = 1
          /\ found' = [Clean EXCEPT !.disk = disk]
      BY <1>4 DEF BeginUninstall, Begin
    <2>2. QED
      BY <2>1 DEF Commanded, StepTyped, Stages, Choices, Nothing, Clean
  <1>5. UNCHANGED command => Len(Plan(command))' = Len(Plan(command))
    OBVIOUS
  <1>6. CASE AccountKey \/ Order
    <2>1. /\ UNCHANGED <<command, found, step>> /\ at \in {"account", "order"}
          /\ at' \in {"order", "steps"}
      BY <1>6 DEF AccountKey, Order
    <2>2. QED
      BY <1>1, <1>2, <1>5, <2>1 DEF Commanded, StepTyped, Stages
  <1>7. CASE ApplyStep \/ StepFails
    <2>1. UNCHANGED <<command, found>> /\ at = "steps" /\ step <= Len(Plan(command))
          /\ ((at' = "steps" /\ step' = step + 1) \/ (at' = "undo" /\ step' = step - 1))
      BY <1>7 DEF ApplyStep, StepFails
    <2>2. QED
      BY <1>1, <1>2, <1>5, <2>1 DEF Commanded, StepTyped, Stages
  <1>8. CASE UndoStep \/ UndoFails
    <2>1. UNCHANGED <<command, found, at>> /\ at = "undo" /\ step > 0 /\ step' = step - 1
      BY <1>8 DEF UndoStep, UndoFails
    <2>2. QED
      BY <1>1, <1>2, <1>5, <2>1 DEF Commanded, StepTyped, Stages
  <1>9. CASE OrderFails \/ RolledBack \/ Verified \/ CheckFails \/ ReloadNginx \/ Killed
    <2>1. UNCHANGED <<command, found>> /\ at' = "idle" /\ step' = 0
      BY <1>9 DEF OrderFails, RolledBack, Verified, CheckFails, ReloadNginx, Killed, Finish
    <2>2. QED
      BY <1>1, <2>1 DEF Commanded, StepTyped, Stages
  <1>10. CASE StopServices \/ StopServicesFails \/ RemoveFiles \/ RemoveDirs \/ RemoveFails \/ Reboot
    <2>1. /\ UNCHANGED <<command, found, step>>
          /\ at \in {"services", "files", "dirs", "idle"}
          /\ at' \in {"files", "dirs", "reload", "idle"}
          /\ (at = "idle" <=> at' = "idle")
      BY <1>10 DEF StopServices, StopServicesFails, RemoveFiles, RemoveDirs, RemoveFails, Reboot
    <2>2. QED
      BY <1>1, <2>1 DEF Commanded, StepTyped, Stages
  <1>11. QED
    BY <1>3, <1>4, <1>6, <1>7, <1>8, <1>9, <1>10 DEF InstallNext

LEMMA InstallTyped ==
    ASSUME HostTyped, StepTyped, InstallNext PROVE HostTyped' /\ StepTyped'
  BY InstallPlaced, InstallCounted, InstallCommanded DEF Placed, Counted, Commanded, HostTyped

-----------------------------------------------------------------------------
(* Types: the panel, backup and restore. *)

\* A step of those leaves the disk and the services within their types.
LEMMA PanelHostTyped ==
    ASSUME HostTyped, StepTyped, FilesTyped, Panels
    PROVE  HostTyped' /\ StepTyped'
  <1> USE DEF units, web, past, host
  <1>1. CASE HandlerBegins \/ HandlerFails \/ Checkpoint
    <2>1. UNCHANGED <<disk, units, web, command, at, step, past, count, commands>>
      BY <1>1 DEF HandlerBegins, HandlerFails, Checkpoint
    <2>2. QED
      BY <2>1 DEF HostTyped, StepTyped
  <1>2. CASE HandlerWrites
    <2>1. /\ UNCHANGED <<web, command, at, step, past, count, commands>>
          /\ change # <<>>
          /\ enabled' \subseteq enabled \cup {"singbox"} /\ running' \subseteq running \cup {"singbox"}
          /\ disk' \subseteq disk \cup {Head(change), "config"} \cup Parents(Head(change))
                             \cup {Unit["singbox"], Binary["singbox"]}
      BY <1>2 DEF HandlerWrites
    <2>2. Head(change) \in Things /\ "config" \in Things /\ Unit["singbox"] \in Things
          /\ Binary["singbox"] \in Things /\ Parents(Head(change)) \subseteq Things
      <3>1. Head(change) \in Archived
        BY <2>1, HeadTailProperties DEF FilesTyped
      <3>2. QED
        BY <3>1, ArchivedThings, ThingsAre DEF Services, Parents
    <2>3. disk' \subseteq Things /\ enabled' \subseteq Services /\ running' \subseteq Services
      BY <2>1, <2>2 DEF HostTyped, Services
    <2>4. StepTyped'
      BY <2>1 DEF StepTyped
    <2>5. QED
      BY <2>1, <2>3, <2>4 DEF HostTyped
  <1>3. QED
    BY <1>1, <1>2 DEF Panels

LEMMA BackupHostTyped ==
    ASSUME HostTyped, StepTyped, Backups
    PROVE  HostTyped' /\ StepTyped'
  <1> USE DEF units, web, past
  <1>1. UNCHANGED <<disk, units, web, found>>
    BY DEF Backups, BeginBackup, ReadEntry, EntryMissing, Archiving, ArchiveWritten, WriteArchiveFails
  <1>2. Counted'
    <2>1. CASE BeginBackup
      <3>1. commands < MaxCommands /\ commands' = commands + 1 /\ UNCHANGED count
            /\ trouble' = FALSE /\ partial' = FALSE
        BY <2>1 DEF BeginBackup, Begin
      <3>2. commands' \in 0..MaxCommands
        BY <3>1, InstallAssumption DEF HostTyped
      <3>3. QED
        BY <3>1, <3>2 DEF Counted, HostTyped
    <2>2. CASE ~BeginBackup
      <3>1. (Calm \/ Mishap("archive") \/ Mishap("large")) /\ UNCHANGED <<partial, commands>>
        BY <2>2 DEF Backups, ReadEntry, EntryMissing, Archiving, ArchiveWritten, WriteArchiveFails
      <3>2. QED
        BY <3>1, MishapCounts DEF Counted, HostTyped
    <2>3. QED
      BY <2>1, <2>2
  <1>3. Commanded' /\ StepTyped'
    <2>1. CASE BeginBackup
      <3>1. command' = [Nothing EXCEPT !.op = "backup"] /\ at' = "read" /\ step' = 1
        BY <2>1 DEF BeginBackup, Begin
      <3>2. command' \in Choices
        BY <3>1 DEF Choices, Nothing
      <3>3. StepTyped'
        BY <3>1, EntriesAre DEF StepTyped
      <3>4. QED
        BY <1>1, <3>1, <3>2, <3>3 DEF Commanded, HostTyped, Stages
    <2>2. CASE ReadEntry
      <3>1. UNCHANGED <<command, at>> /\ at = "read" /\ step <= Len(Entries) /\ step' = step + 1
        BY <2>2 DEF ReadEntry
      <3>2. QED
        BY <1>1, <3>1, EntriesAre DEF Commanded, HostTyped, StepTyped, Stages
    <2>3. CASE EntryMissing \/ Archiving \/ WriteArchiveFails
      <3>1. UNCHANGED command /\ at' = "idle" /\ step' = 0
        BY <2>3 DEF EntryMissing, Archiving, ArchiveWritten, WriteArchiveFails, Finish
      <3>2. QED
        BY <1>1, <3>1 DEF Commanded, HostTyped, StepTyped, Stages
    <2>4. QED
      BY <2>1, <2>2, <2>3 DEF Backups
  <1>4. QED
    BY <1>1, <1>2, <1>3 DEF Counted, Commanded, HostTyped

LEMMA RestoreHostTyped ==
    ASSUME HostTyped, StepTyped, CopiesTyped, NEW right \in BOOLEAN, Restores(right)
    PROVE  HostTyped' /\ StepTyped'
  <1> USE DEF units, web, past
  <1>1. /\ UNCHANGED <<enabled, web>> /\ running' \subseteq Services
        /\ found'.units \subseteq Services
        /\ found' = [disk |-> found'.disk, units |-> found'.units, sound |-> found'.sound,
                     port80 |-> found'.port80]
    <2>1. CASE BeginRestore(right)
      BY <2>1 DEF BeginRestore, HostTyped, Clean
    <2>2. CASE Stops \/ KilledAtStop
      <3>1. UNCHANGED <<enabled, web>> /\ running' \subseteq running
            /\ found' = [found EXCEPT !.disk = disk]
        BY <2>2 DEF Stops, Stopped, KilledAtStop
      <3>2. found'.units = found.units
            /\ found' = [disk |-> found'.disk, units |-> found'.units, sound |-> found'.sound,
                         port80 |-> found'.port80]
        BY <3>1 DEF HostTyped
      <3>3. QED
        BY <3>1, <3>2 DEF HostTyped
    <2>3. CASE Starts
      BY <2>3 DEF Starts, BroughtUp, Wanted, HostTyped
    <2>4. CASE Decrypt \/ ExtractEntry \/ EntryRefused \/ ExtractFails \/ Extracted
      BY <2>4 DEF Decrypt, ExtractEntry, EntryRefused, ExtractFails, GiveUp, Extracted, HostTyped
    <2>5. QED
      BY <2>1, <2>2, <2>3, <2>4 DEF Restores
  <1>2. disk' \subseteq Things
    <2>1. CASE ExtractEntry \/ EntryRefused \/ ExtractFails
      <3>1. disk' \subseteq disk \cup {Entries[step], "config"} \cup Parents(Entries[step])
            /\ step \in 1..6
        BY <2>1, EntriesAre DEF ExtractEntry, Extract, EntryRefused, ExtractFails, GiveUp, StepTyped
      <3>2. Entries[step] \in Things /\ Parents(Entries[step]) \subseteq Things /\ "config" \in Things
        BY <3>1, EntriesAre, ArchivedThings, ThingsAre DEF Parents
      <3>3. QED
        BY <3>1, <3>2 DEF HostTyped
    <2>2. CASE ~(ExtractEntry \/ EntryRefused \/ ExtractFails)
      BY <2>2 DEF Restores, BeginRestore, Stops, Stopped, KilledAtStop, Decrypt, Extracted,
         Starts, BroughtUp, HostTyped
    <2>3. QED
      BY <2>1, <2>2
  <1>3. Counted'
    <2>1. CASE BeginRestore(right)
      <3>1. commands < MaxCommands /\ commands' = commands + 1 /\ UNCHANGED count
            /\ trouble' = FALSE /\ partial' = FALSE
        BY <2>1 DEF BeginRestore, Begin
      <3>2. commands' \in 0..MaxCommands
        BY <3>1, InstallAssumption DEF HostTyped
      <3>3. QED
        BY <3>1, <3>2 DEF Counted, HostTyped
    <2>2. CASE ~BeginRestore(right)
      <3>1. (Calm \/ Mishap("extract") \/ Mishap("stop") \/ Mishap("start")) /\ UNCHANGED commands
            /\ partial' \in {partial, TRUE}
        BY <2>2 DEF Restores, Stops, Stopped, KilledAtStop, Decrypt, ExtractEntry, EntryRefused,
           ExtractFails, GiveUp, Extracted, Starts, BroughtUp, Calm
      <3>2. QED
        BY <3>1, MishapCounts DEF Counted, HostTyped
    <2>3. QED
      BY <2>1, <2>2
  <1>4. command' \in Choices /\ at' \in Stages /\ StepTyped'
    <2>1. CASE BeginRestore(right)
      <3>1. command' = [Nothing EXCEPT !.op = "restore"] /\ at' = "stop" /\ step' = 1
        BY <2>1 DEF BeginRestore, Begin
      <3>2. command' \in Choices
        BY <3>1 DEF Choices, Nothing
      <3>3. QED
        BY <3>1, <3>2 DEF StepTyped, Stages
    <2>2. CASE Stops \/ KilledAtStop \/ Decrypt
      <3>1. UNCHANGED <<command, step>> /\ at \in {"stop", "decrypt"}
            /\ at' \in {"decrypt", "extract", "start"}
        BY <2>2 DEF Stops, Stopped, KilledAtStop, Decrypt
      <3>2. QED
        BY <3>1, EntriesAre DEF HostTyped, StepTyped, Stages
    <2>3. CASE ExtractEntry \/ EntryRefused \/ ExtractFails \/ Extracted
      <3>1. UNCHANGED command /\ at = "extract" /\ at' \in {"extract", "start"}
            /\ ((step <= 6 /\ step' = step + 1) \/ (step' = step /\ at' = "start"))
        BY <2>3, EntriesAre DEF ExtractEntry, Extract, EntryRefused, ExtractFails, GiveUp, Extracted
      <3>2. QED
        BY <3>1, EntriesAre DEF HostTyped, StepTyped, Stages
    <2>4. CASE Starts
      <3>1. UNCHANGED command /\ at' = "idle" /\ step' = 0
        BY <2>4 DEF Starts, BroughtUp, Finish
      <3>2. QED
        BY <3>1 DEF HostTyped, StepTyped, Stages
    <2>5. QED
      BY <2>1, <2>2, <2>3, <2>4 DEF Restores
  <1>5. QED
    BY <1>1, <1>2, <1>3, <1>4 DEF Counted, HostTyped

LEMMA MadeGrows ==
    ASSUME modes \in Seq(BOOLEAN),
           modes' = modes \/ \E b \in BOOLEAN : modes' = Append(modes, b)
    PROVE  /\ modes' \in Seq(BOOLEAN) /\ Made \subseteq Made' /\ Len(modes) \in Nat
           /\ Len(modes) \in Made' /\ Torn \in Made
           /\ \A v \in Made \ {Torn} : modes'[v] = modes[v]
  <1>1. Len(modes) \in Nat
    BY LenProperties
  <1>2. CASE modes' = modes
    BY <1>1, <1>2 DEF Made, Torn
  <1>3. CASE \E b \in BOOLEAN : modes' = Append(modes, b)
    <2>1. PICK b \in BOOLEAN : modes' = Append(modes, b)
      BY <1>3
    <2>2. /\ modes' \in Seq(BOOLEAN) /\ Len(modes') = Len(modes) + 1
          /\ \A i \in 1..Len(modes) : modes'[i] = modes[i]
      BY <2>1, AppendProperties
    <2>3. QED
      BY <1>1, <2>2 DEF Made, Torn
  <1>4. QED
    BY <1>2, <1>3

LEMMA StateTyped ==
    ASSUME FilesTyped
    PROVE  /\ State \in [Archived -> Made] /\ Committed \in Made
           /\ State["panel.db"] = Committed
           /\ \A f \in Archived \ {"panel.db"} : State[f] = content[f]
           /\ wal = <<>> => State = content
  <1>1. "panel.db" \in Archived
    BY EntriesAre
  <1>2. Committed \in Made
    BY <1>1 DEF Committed, FilesTyped
  <1>3. wal = <<>> => Committed = content["panel.db"]
    BY DEF Committed
  <1>4. QED
    BY <1>1, <1>2, <1>3 DEF State, FilesTyped

LEMMA NoReadingTyped == ReadingTyped(NoReading)
  BY DEF ReadingTyped, NoReading

\* Everything that could have been recorded stays so.
LEMMA CopiesStay ==
    ASSUME CopiesTyped, UNCHANGED <<archive, draft, calm>>, reading' \in {reading, NoReading},
           Made \subseteq Made'
    PROVE  CopiesTyped'
  <1>1. ReadingTyped(reading)'
    BY NoReadingTyped DEF CopiesTyped, ReadingTyped
  <1>2. QED
    BY <1>1 DEF CopiesTyped, Files, ArchiveTyped

LEMMA HostStepTyped ==
    ASSUME HostTyped, FilesTyped, CopiesTyped, HostStep
    PROVE  FilesTyped' /\ CopiesTyped'
  <1>1. modes' = modes \/ \E b \in BOOLEAN : modes' = Append(modes, b)
    <2>1. CASE at = "idle" /\ at' \in {"account", "steps"}
      <3>1. InstallNext /\ modes' = Append(modes, command'.bridge)
        BY <2>1 DEF HostStep
      <3>2. PICK acme \in Acme, bridge \in Bridge, inPlace \in InPlace :
                     BeginInstall(acme, bridge, inPlace)
        BY <2>1, <3>1 DEF InstallNext, AccountKey, Order, OrderFails, ApplyStep, StepFails,
           UndoStep, UndoFails, RolledBack, Verified, CheckFails, BeginUninstall, Begin,
           StopServices, StopServicesFails, RemoveFiles, RemoveDirs, RemoveFails, ReloadNginx, Killed, Reboot
      <3>3. command' = [op |-> "install", acme |-> acme, bridge |-> bridge, inPlace |-> inPlace]
        BY <3>2 DEF BeginInstall, Begin
      <3>4. command'.bridge \in BOOLEAN
        BY <3>3, InstallAssumption
      <3>5. QED
        BY <3>1, <3>4
    <2>2. CASE ~(at = "idle" /\ at' \in {"account", "steps"})
      BY <2>2 DEF HostStep
    <2>3. QED
      BY <2>1, <2>2
  <1>2. /\ modes' \in Seq(BOOLEAN) /\ Made \subseteq Made' /\ Len(modes) \in Made' /\ Torn \in Made
        /\ Len(modes') <= MaxVersions
    BY <1>1, MadeGrows DEF FilesTyped, HostStep
  <1>3. content' \in [Archived -> Made']
    <2> DEFINE stops == "panel" \in running /\ ("panel" \notin running' \/ (at = "idle" /\ at' = "idle"))
    <2>1. content' = [f \in Archived |->
                            IF f \notin disk' THEN Torn
                            ELSE IF f \notin disk THEN Len(modes)
                            ELSE IF stops THEN State[f]
                            ELSE content[f]]
      BY DEF HostStep
    <2>2. \A f \in Archived : State[f] \in Made /\ content[f] \in Made
      BY StateTyped DEF FilesTyped
    <2> HIDE DEF stops
    <2>3. QED
      BY <1>2, <2>1, <2>2
  <1>4. wal' \in {wal, <<>>} /\ change' \in {change, <<>>} /\ live' \in {Torn, live, content'["teleproxy.toml"]}
    BY DEF HostStep
  <1>5. change' # <<>> => "panel" \in running'
    BY <1>4 DEF HostStep, FilesTyped
  <1>6. live' \in Made'
    BY <1>2, <1>3, <1>4, EntriesAre DEF FilesTyped
  <1>7. wal' \in {<<>>} \cup {<<v>> : v \in Made'} /\ change' \in Seq(Archived)
    <2>1. \A v \in Made : <<v>> \in {<<w>> : w \in Made'}
      BY <1>2
    <2>2. wal' \in {<<>>} \cup {<<v>> : v \in Made'}
      BY <1>4, <2>1 DEF FilesTyped
    <2>3. change' \in Seq(Archived)
      BY <1>4, EmptySeq DEF FilesTyped
    <2>4. QED
      BY <2>2, <2>3
  <1>8. CopiesTyped'
    BY <1>2, CopiesStay DEF HostStep, copies
  <1>9. QED
    BY <1>2, <1>3, <1>5, <1>6, <1>7, <1>8 DEF FilesTyped

LEMMA PanelTyped ==
    ASSUME HostTyped, FilesTyped, CopiesTyped, Panels
    PROVE  FilesTyped' /\ CopiesTyped'
  <1> USE DEF units, web, past, host
  <1>1. CASE HandlerBegins
    <2>1. /\ "panel" \in running /\ UNCHANGED <<running, content, wal, live>>
          /\ Len(modes) < MaxVersions /\ UNCHANGED <<archive, draft, calm, reading>>
          /\ change' \in {UserFiles, EnableFiles, DisableFiles}
      BY <1>1 DEF HandlerBegins, copies
    <2>2. \E b \in BOOLEAN : modes' = Append(modes, b)
      <3>1. Detected(content) \subseteq BOOLEAN
        <4>1. content["teleproxy.toml"] \in Made
          BY EntriesAre DEF FilesTyped
        <4>2. \A v \in Made \ {Torn} : modes[v] \in BOOLEAN
          BY ElementOfSeq, LenProperties DEF FilesTyped, Made, Torn
        <4>3. QED
          BY <4>1, <4>2 DEF Detected
      <3>2. QED
        BY <1>1, <3>1 DEF HandlerBegins
    <2>3. modes' \in Seq(BOOLEAN) /\ Made \subseteq Made'
      BY <2>2, MadeGrows DEF FilesTyped
    <2>4. Len(modes') <= MaxVersions
      <3>1. Len(modes') = Len(modes) + 1 /\ Len(modes) \in Nat
        BY <2>2, AppendProperties, LenProperties DEF FilesTyped
      <3>2. QED
        BY <2>1, <3>1, BackupAssumption
    <2>5. change' \in Seq(Archived)
      <3>1. UserFiles \in Seq(Archived)
        BY EntriesAre DEF UserFiles
      <3>2. EnableFiles \in Seq(Archived)
        BY EntriesAre DEF EnableFiles
      <3>3. DisableFiles \in Seq(Archived)
        BY EntriesAre DEF DisableFiles
      <3>4. QED
        BY <2>1, <3>1, <3>2, <3>3
    <2>6. QED
      BY <2>1, <2>3, <2>4, <2>5, CopiesStay DEF FilesTyped
  <1>2. CASE HandlerWrites
    <2>1. /\ "panel" \in running /\ running \subseteq running' \cup {"singbox"} /\ change # <<>>
          /\ UNCHANGED <<modes, archive, draft, reading>>
          /\ change' = Tail(change) /\ wal' \in {wal, <<Len(modes)>>}
          /\ live' \in {live, Len(modes)} /\ calm' = FALSE
          /\ content' \in {content, [content EXCEPT ![Head(change)] = Len(modes)]}
      BY <1>2 DEF HandlerWrites
    <2>2. Len(modes) \in Made
      BY LenProperties DEF FilesTyped, Made, Torn
    <2>3. content' \in [Archived -> Made] /\ live' \in Made
      BY <2>1, <2>2 DEF FilesTyped
    <2>4. change' \in Seq(Archived)
      BY <2>1, HeadTailProperties DEF FilesTyped
    <2>5. wal' \in {<<>>} \cup {<<v>> : v \in Made}
      BY <2>1, <2>2 DEF FilesTyped
    <2>6. Made' = Made
      BY <2>1 DEF Made
    <2>7. "panel" \in running'
      BY <2>1
    <2>8. CopiesTyped'
      BY <2>1, <2>6 DEF CopiesTyped, Files, ArchiveTyped, ReadingTyped
    <2>9. FilesTyped'
      BY <2>1, <2>3, <2>4, <2>5, <2>6, <2>7 DEF FilesTyped
    <2>10. QED
      BY <2>8, <2>9
  <1>3. CASE Checkpoint
    <2>1. /\ UNCHANGED <<running, modes, live, change, archive, draft, calm, reading>>
          /\ content' = State /\ wal' = <<>>
      BY <1>3 DEF Checkpoint, copies
    <2>2. QED
      BY <2>1, StateTyped, CopiesStay DEF FilesTyped, Made
  <1>4. CASE HandlerFails
    <2>1. /\ UNCHANGED <<running, modes, content, wal, live, archive, draft, reading>>
          /\ change' = <<>> /\ calm' = FALSE /\ Made' = Made
      BY <1>4 DEF HandlerFails, Made
    <2>2. QED
      BY <2>1, EmptySeq DEF FilesTyped, CopiesTyped, Files, ArchiveTyped, ReadingTyped
  <1>5. QED
    BY <1>1, <1>2, <1>3, <1>4 DEF Panels

LEMMA BackupTyped ==
    ASSUME HostTyped, StepTyped, FilesTyped, CopiesTyped, Backups
    PROVE  FilesTyped' /\ CopiesTyped'
  <1> USE DEF units, web, past, panel
  <1>1. /\ UNCHANGED <<running, modes, content, wal, live, change>> /\ Made' = Made
        /\ reading' \in {reading, NoReading}
    BY DEF Backups, BeginBackup, ReadEntry, EntryMissing, Archiving, ArchiveWritten,
       WriteArchiveFails, Made
  <1>2. FilesTyped'
    BY <1>1 DEF FilesTyped
  <1>3. DOMAIN <<>> = {}
    OBVIOUS
  <1>4. Files(draft)' /\ Files(<<>>)'
    <2>1. Files(<<>>)'
      BY <1>3 DEF Files
    <2>2. CASE ReadEntry
      <3>1. Entries[step] \in Archived /\ content[Entries[step]] \in Made
        BY <2>2, EntriesAre DEF ReadEntry, StepTyped, FilesTyped
      <3>2. QED
        BY <1>1, <2>1, <2>2, <3>1 DEF ReadEntry, CopiesTyped, Files
    <2>3. CASE ~ReadEntry
      <3>1. draft' = <<>>
        BY <2>3 DEF Backups, BeginBackup, EntryMissing, Archiving, ArchiveWritten, WriteArchiveFails
      <3>2. QED
        BY <2>1, <3>1 DEF Files
    <2>4. QED
      BY <2>2, <2>3
  <1>5. calm' \in BOOLEAN
    <2>1. calm' \in {calm, FALSE} \/ calm' = (wal = <<>> /\ change = <<>>)
      BY DEF Backups, BeginBackup, ReadEntry, EntryMissing, Archiving, ArchiveWritten, WriteArchiveFails
    <2>2. QED
      BY <2>1 DEF CopiesTyped
  <1>6. ArchiveTyped(archive)'
    <2>1. CASE UNCHANGED archive
      BY <1>1, <2>1 DEF CopiesTyped, ArchiveTyped, Files
    <2>2. CASE archive' = NoArchive
      BY <1>4, <2>2 DEF ArchiveTyped, NoArchive, Files
    <2>3. CASE \E large \in BOOLEAN : archive' = [whole |-> TRUE, large |-> large, files |-> draft,
                                                 truth |-> truth, calm |-> calm]
      BY <1>1, <2>3 DEF CopiesTyped, ArchiveTyped, Files
    <2>4. QED
      BY <2>1, <2>2, <2>3 DEF Backups, BeginBackup, ReadEntry, EntryMissing, Archiving,
         ArchiveWritten, WriteArchiveFails
  <1>7. ReadingTyped(reading)'
    <2>1. ReadingTyped(reading')
      BY <1>1, NoReadingTyped DEF CopiesTyped
    <2>2. QED
      BY <2>1 DEF ReadingTyped
  <1>8. QED
    BY <1>2, <1>4, <1>5, <1>6, <1>7 DEF CopiesTyped

LEMMA DetectedType == ASSUME FilesTyped PROVE Detected(content) \subseteq BOOLEAN
  <1>1. content["teleproxy.toml"] \in Made
    BY EntriesAre DEF FilesTyped
  <1>2. \A v \in Made \ {Torn} : modes[v] \in BOOLEAN
    BY ElementOfSeq, LenProperties DEF FilesTyped, Made, Torn
  <1>3. QED
    BY <1>1, <1>2 DEF Detected

LEMMA RestoreTyped ==
    ASSUME HostTyped, StepTyped, FilesTyped, CopiesTyped, NEW right \in BOOLEAN, Restores(right)
    PROVE  FilesTyped' /\ CopiesTyped'
  <1> USE DEF units, web, past, panel, copies
  <1>1. UNCHANGED <<modes, archive, draft, calm>> /\ Made' = Made
    BY DEF Restores, BeginRestore, Stops, Stopped, KilledAtStop, Decrypt, ExtractEntry, Extract,
       EntryRefused, ExtractFails, GiveUp, Extracted, Starts, BroughtUp, Made
  <1>2. ReadingTyped(reading)'
    <2>1. ReadingTyped(reading)
      BY DEF CopiesTyped
    <2>2. CASE BeginRestore(right)
      <3>1. PICK bridge \in BOOLEAN :
               reading' = [NoReading EXCEPT !.right = right, !.bridge = bridge,
                                            !.toml = content["teleproxy.toml"]]
        BY <2>2, DetectedType DEF BeginRestore
      <3>2. QED
        BY <3>1 DEF ReadingTyped, NoReading
    <2>3. CASE Stops \/ KilledAtStop
      <3>1. \E b \in BOOLEAN : \E alive :
               \/ reading' = [reading EXCEPT !.stopped = State, !.alive = alive, !.closed = b]
               \/ reading' = [reading EXCEPT !.stopped = State, !.closed = b]
        BY <2>3 DEF Stops, Stopped, KilledAtStop
      <3>2. QED
        BY <2>1, <3>1 DEF ReadingTyped
    <2>4. CASE Decrypt \/ ExtractEntry \/ EntryRefused \/ ExtractFails \/ Extracted \/ Starts
      <3>1. \/ reading' = reading \/ reading' = [reading EXCEPT !.failed = TRUE]
            \/ reading' = [reading EXCEPT !.failed = TRUE, !.gaveUp = step]
            \/ \E down : reading' = [reading EXCEPT !.down = down]
        BY <2>4 DEF Decrypt, ExtractEntry, EntryRefused, ExtractFails, GiveUp, Extracted, Starts
      <3>2. QED
        BY <2>1, <3>1 DEF ReadingTyped
    <2>5. QED
      BY <2>2, <2>3, <2>4 DEF Restores
  <1>3. CopiesTyped'
    BY <1>1, <1>2 DEF CopiesTyped, Files, ArchiveTyped
  <1>4. content' \in [Archived -> Made]
    <2>1. CASE ExtractEntry \/ EntryRefused \/ ExtractFails
      <3>1. Entries[step] \in Archived
        BY <2>1, EntriesAre DEF ExtractEntry, EntryRefused, ExtractFails, GiveUp, StepTyped
      <3>2. Torn \in Made
        BY LenProperties DEF FilesTyped, Made, Torn
      <3>3. content' = content \/ \E v \in Made : content' = [content EXCEPT ![Entries[step]] = v]
        BY <2>1, <3>2 DEF ExtractEntry, Extract, EntryRefused, ExtractFails, CopiesTyped,
           ArchiveTyped, Files
      <3>4. QED
        BY <3>1, <3>3 DEF FilesTyped
    <2>2. CASE ~(ExtractEntry \/ EntryRefused \/ ExtractFails)
      <3>1. content' = content \/ content' = State
        BY <2>2 DEF Restores, BeginRestore, Stops, Stopped, KilledAtStop, Decrypt, Extracted,
           Starts, BroughtUp
      <3>2. QED
        BY <3>1, StateTyped DEF FilesTyped
    <2>3. QED
      BY <2>1, <2>2
  <1>5. wal' \in {wal, <<>>, <<Torn>>} /\ live' \in {live, Torn, content["teleproxy.toml"]}
        /\ change' \in {change, <<>>}
    BY DEF Restores, BeginRestore, Stops, Stopped, KilledAtStop, Decrypt, ExtractEntry, Extract,
       EntryRefused, ExtractFails, GiveUp, Extracted, Starts, BroughtUp, Overwritten
  <1>6. Torn \in Made
    BY LenProperties DEF FilesTyped, Made, Torn
  <1>7. wal' \in {<<>>} \cup {<<v>> : v \in Made}
    BY <1>5, <1>6 DEF FilesTyped
  <1>8. live' \in Made /\ change' \in Seq(Archived)
    <2>1. content'["teleproxy.toml"] \in Made /\ content["teleproxy.toml"] \in Made
      BY <1>4, EntriesAre DEF FilesTyped
    <2>2. live' \in Made
      BY <1>5, <1>6, <2>1 DEF FilesTyped
    <2>3. change' \in Seq(Archived)
      BY <1>5, EmptySeq DEF FilesTyped
    <2>4. QED
      BY <2>2, <2>3
  <1>9. change' # <<>> => "panel" \in running'
    <2>1. CASE Stops \/ KilledAtStop
      BY <2>1 DEF Stops, Stopped, KilledAtStop
    <2>2. CASE ~(Stops \/ KilledAtStop)
      <3>1. UNCHANGED change /\ running \subseteq running'
        BY <2>2 DEF Restores, BeginRestore, Decrypt, ExtractEntry, EntryRefused, ExtractFails,
           GiveUp, Extracted, Starts, BroughtUp
      <3>2. QED
        BY <3>1 DEF FilesTyped
    <2>3. QED
      BY <2>1, <2>2
  <1>10. FilesTyped'
    BY <1>1, <1>4, <1>7, <1>8, <1>9 DEF FilesTyped
  <1>11. QED
    BY <1>3, <1>10

\* What the commands of Install and of a backup leave alone.
LEMMA InstallElsewhere ==
    ASSUME InstallNext
    PROVE  /\ at' \notin {"read", "stop", "decrypt", "extract", "start"}
           /\ at \in {"read", "stop", "decrypt", "extract", "start"} =>
                 at' = "idle" /\ outcome' = "killed" /\ UNCHANGED <<disk, running>>
           /\ at # "idle" => outcome' = outcome \/ at' = "idle"
           /\ outcome' \notin {"restored", "not restored"} \/ (outcome' = outcome /\ at # "idle")
           /\ at = "idle" => outcome' = "none"
  <1> USE DEF units
  <1>1. CASE (\E acme \in Acme, bridge \in Bridge, inPlace \in InPlace :
                 BeginInstall(acme, bridge, inPlace)) \/ BeginUninstall \/ Reboot
    BY <1>1 DEF BeginInstall, BeginUninstall, Begin, Reboot
  <1>2. CASE AccountKey \/ Order \/ ApplyStep \/ StepFails \/ UndoStep \/ UndoFails
             \/ StopServices \/ StopServicesFails \/ RemoveFiles \/ RemoveDirs \/ RemoveFails
    BY <1>2 DEF AccountKey, Order, ApplyStep, StepFails, UndoStep, UndoFails, StopServices, StopServicesFails,
       RemoveFiles, RemoveDirs, RemoveFails
  <1>3. CASE OrderFails \/ RolledBack \/ Verified \/ CheckFails \/ ReloadNginx \/ Killed
    BY <1>3 DEF OrderFails, RolledBack, Verified, CheckFails, ReloadNginx, Killed, Finish
  <1>4. QED
    BY <1>1, <1>2, <1>3 DEF InstallNext

LEMMA AloneStays ==
    ASSUME HostTyped, FilesTyped, CopiesTyped, Alone, BackupNext PROVE Alone'
  <1> USE DEF units, web, past, panel, copies, host
  <1>1. CASE HostStep
    BY <1>1, InstallElsewhere DEF HostStep, Alone, Restoring
  <1>2. CASE Panels
    BY <1>2 DEF Panels, HandlerBegins, HandlerWrites, HandlerFails, Checkpoint, Alone, Restoring
  <1>3. CASE Backups
    BY <1>3 DEF Backups, BeginBackup, ReadEntry, EntryMissing, Archiving, ArchiveWritten,
       WriteArchiveFails,
       Begin, Finish, Alone, Restoring
  <1>4. ASSUME NEW right \in BOOLEAN, Restores(right) PROVE Alone'
    <2>1. CASE BeginRestore(right) \/ Starts
      BY <2>1 DEF BeginRestore, Starts, BroughtUp, Begin, Finish, Alone, Restoring
    <2>2. CASE Stops
      BY <2>2 DEF Stops, Stopped, CopiesTyped, ReadingTyped, Alone
    <2>3. CASE KilledAtStop
      BY <2>3 DEF KilledAtStop, Alone
    <2>4. CASE Decrypt \/ ExtractEntry \/ EntryRefused \/ ExtractFails \/ Extracted
      <3>1. reading'.alive = reading.alive
        BY <2>4 DEF Decrypt, ExtractEntry, EntryRefused, ExtractFails, GiveUp, Extracted,
           CopiesTyped, ReadingTyped
      <3>2. Restoring /\ UNCHANGED <<running, change>>
        BY <2>4 DEF Decrypt, ExtractEntry, EntryRefused, ExtractFails, GiveUp, Extracted, Restoring
      <3>3. QED
        BY <3>1, <3>2 DEF Alone
    <2>5. QED
      BY <1>4, <2>1, <2>2, <2>3, <2>4 DEF Restores
  <1>5. QED
    BY <1>1, <1>2, <1>3, <1>4, NextIs

LEMMA NextTyped == ASSUME WellTyped, BackupNext PROVE WellTyped'
  <1>1. Alone'
    BY AloneStays DEF WellTyped
  <1>2. CASE HostStep
    BY <1>1, <1>2, InstallTyped, HostStepTyped DEF HostStep, WellTyped
  <1>3. CASE Panels
    BY <1>1, <1>3, PanelHostTyped, PanelTyped DEF WellTyped
  <1>4. CASE Backups
    BY <1>1, <1>4, BackupHostTyped, BackupTyped DEF Backups, WellTyped
  <1>5. ASSUME NEW right \in BOOLEAN, Restores(right) PROVE WellTyped'
    BY <1>1, <1>5, RestoreHostTyped, RestoreTyped DEF WellTyped
  <1>6. QED
    BY <1>2, <1>3, <1>4, <1>5, NextIs

LEMMA InitTyped == ASSUME BackupInit PROVE WellTyped
  <1>1. /\ disk = {} /\ enabled = {} /\ running = {} /\ nginx = "absent" /\ sites = {} /\ served = {}
        /\ command = Nothing /\ at = "idle" /\ step = 0 /\ found = Clean
        /\ trouble = FALSE /\ partial = FALSE /\ count = 0 /\ commands = 0
    BY DEF BackupInit, Init
  <1>2. HostTyped
    <2>1. command \in Choices
      BY <1>1 DEF Choices, Nothing
    <2>2. found.units = {} /\ found = [disk |-> found.disk, units |-> found.units,
                                      sound |-> found.sound, port80 |-> found.port80]
      BY <1>1 DEF Clean
    <2>3. count \in 0..MaxMishaps /\ commands \in 0..MaxCommands
      BY <1>1, InstallAssumption
    <2>4. QED
      BY <1>1, <2>1, <2>2, <2>3 DEF HostTyped, Stages
  <1>3. StepTyped
    BY <1>1 DEF StepTyped
  <1>4. modes = <<>> /\ Made = {0} /\ Len(modes) = 0
    BY DEF BackupInit, Made
  <1>5. FilesTyped
    <2>1. content \in [Archived -> Made] /\ live \in Made /\ wal = <<>>
      BY <1>4 DEF BackupInit, Torn
    <2>2. change = <<>> /\ change \in Seq(Archived) /\ modes \in Seq(BOOLEAN)
      BY <1>4, EmptySeq DEF BackupInit
    <2>3. QED
      BY <1>4, <2>1, <2>2, BackupAssumption DEF FilesTyped
  <1>6. CopiesTyped
    <2>1. DOMAIN <<>> = {}
      OBVIOUS
    <2>2. QED
      BY <2>1 DEF BackupInit, CopiesTyped, Files, ArchiveTyped, ReadingTyped, NoArchive, NoReading
  <1>7. Alone
    BY <1>1 DEF Alone, Restoring
  <1>8. QED
    BY <1>2, <1>3, <1>5, <1>6, <1>7 DEF WellTyped

LEMMA StutterTyped == ASSUME WellTyped, UNCHANGED vars PROVE WellTyped'
  <1>1. UNCHANGED <<disk, enabled, running, nginx, sites, served, command, at, step, found, trouble,
                    partial, count, commands>>
    BY DEF vars, host, units, web, past
  <1>2. UNCHANGED <<modes, content, wal, live, change, archive, draft, calm, reading>>
    BY DEF vars, panel, copies
  <1>3. QED
    BY <1>1, <1>2 DEF WellTyped, HostTyped, StepTyped, FilesTyped, CopiesTyped, Alone, Restoring,
       Files, ArchiveTyped, ReadingTyped, Made

LEMMA TypesFollow == ASSUME WellTyped PROVE TypeOK
  <1>1. Len(modes) \in Nat /\ Made \subseteq Versions
    BY LenProperties, BackupAssumption DEF WellTyped, FilesTyped, Made, Versions, Torn
  <1>2. step \in 0..(Len(Plan(command)) + 1)
    BY AtWork, EntriesAre DEF WellTyped, StepTyped, HostTyped, Stages
  <1>3. HostTypeOK
    BY <1>2 DEF WellTyped, HostTyped, HostTypeOK, Choices
  <1>4. wal \in {<<>>} \cup {<<v>> : v \in Versions}
    BY <1>1 DEF WellTyped, FilesTyped
  <1>5. QED
    BY <1>1, <1>3, <1>4 DEF WellTyped, FilesTyped, CopiesTyped, ArchiveTyped, Files, TypeOK

\* Every reachable state of Install and Backup is well typed, whatever the choices and mishaps.
THEOREM TypeCorrect == Spec => []TypeOK
  <1>1. BackupInit => WellTyped
    BY InitTyped
  <1>2. WellTyped /\ [BackupNext]_vars => WellTyped'
    BY NextTyped, StutterTyped
  <1>3. WellTyped => TypeOK
    BY TypesFollow
  <1>4. QED
    BY <1>1, <1>2, <1>3, PTL DEF Spec

-----------------------------------------------------------------------------
(* Restore: what was archived, or the entries before the one it gives up at. *)

LEMMA EndedStays == ASSUME Ended, BackupNext PROVE Ended'
  <1> USE DEF units, web, past, panel, copies, host
  <1>1. CASE HostStep
    BY <1>1, InstallElsewhere DEF HostStep, Ended
  <1>2. CASE Panels
    BY <1>2 DEF Panels, HandlerBegins, HandlerWrites, HandlerFails, Checkpoint, Ended
  <1>3. CASE Backups
    BY <1>3 DEF Backups, BeginBackup, ReadEntry, EntryMissing, Archiving, ArchiveWritten,
       WriteArchiveFails,
       Begin, Finish, Ended
  <1>4. ASSUME NEW right \in BOOLEAN, Restores(right) PROVE Ended'
    BY <1>4 DEF Restores, BeginRestore, Stops, Stopped, KilledAtStop, Decrypt, ExtractEntry, Extract,
       EntryRefused, ExtractFails, GiveUp, Extracted, Starts, BroughtUp, Begin, Finish, Ended
  <1>5. QED
    BY <1>1, <1>2, <1>3, <1>4, NextIs

\* A restore that has ended, ended just now, or nothing but a checkpoint has happened since.
LEMMA OutcomeOfRestore ==
    ASSUME Ended, BackupNext, outcome' \in {"restored", "not restored"}
    PROVE  Starts \/ (Checkpoint /\ outcome' = outcome)
  <1> USE DEF units, web, past, panel, copies, host
  <1>1. CASE HostStep
    BY <1>1, InstallElsewhere DEF HostStep, Ended
  <1>2. CASE Panels
    BY <1>2 DEF Panels, HandlerBegins, HandlerWrites, HandlerFails, Checkpoint
  <1>3. CASE Backups
    BY <1>3 DEF Backups, BeginBackup, ReadEntry, EntryMissing, Archiving, ArchiveWritten,
       WriteArchiveFails,
       Begin, Finish, Ended
  <1>4. ASSUME NEW right \in BOOLEAN, Restores(right), ~Starts PROVE FALSE
    BY <1>4 DEF Restores, BeginRestore, Stops, Stopped, KilledAtStop, Decrypt, ExtractEntry, Extract,
       EntryRefused, ExtractFails, GiveUp, Extracted, Begin, Ended
  <1>5. QED
    BY <1>1, <1>2, <1>3, <1>4, NextIs

LEMMA FiledStays == ASSUME WellTyped, Filed, BackupNext PROVE Filed'
  <1> USE DEF units, web, past, panel, copies, host
  <1>1. "panel.db" \in Archived /\ FilesTyped
    BY EntriesAre DEF WellTyped
  <1>2. \A f \in Archived \ disk : State[f] = Torn
    <2>1. SUFFICES ASSUME NEW f \in Archived \ disk PROVE State[f] = Torn
      OBVIOUS
    <2>2. CASE f = "panel.db"
      BY <1>1, <2>2, StateTyped DEF Filed, Committed
    <2>3. CASE f # "panel.db"
      BY <1>1, <2>3, StateTyped DEF Filed
    <2>4. QED
      BY <2>2, <2>3
  <1>3. CASE HostStep
    <2>1. \A f \in Archived \ disk' : content'[f] = Torn
      BY <1>3 DEF HostStep
    <2>2. "panel.db" \notin disk' => wal' = <<>>
      BY <1>3 DEF HostStep
    <2>3. QED
      BY <2>1, <2>2 DEF Filed
  <1>4. CASE HandlerBegins \/ HandlerFails
    BY <1>4 DEF HandlerBegins, HandlerFails, Filed
  <1>5. CASE HandlerWrites
    <2>1. /\ disk \cup {Head(change)} \subseteq disk'
          /\ content' \in {content, [content EXCEPT ![Head(change)] = Len(modes)]}
          /\ wal' = wal \/ Head(change) = "panel.db"
      BY <1>5 DEF HandlerWrites
    <2>2. \A f \in Archived \ disk' : content'[f] = content[f]
      BY <1>1, <2>1 DEF FilesTyped
    <2>3. QED
      BY <2>1, <2>2 DEF Filed
  <1>6. CASE Checkpoint
    BY <1>2, <1>6 DEF Checkpoint, Filed
  <1>7. CASE Backups
    BY <1>7 DEF Backups, BeginBackup, ReadEntry, EntryMissing, Archiving, ArchiveWritten,
       WriteArchiveFails, Filed
  <1>8. ASSUME NEW right \in BOOLEAN, Restores(right) PROVE Filed'
    <2>1. CASE BeginRestore(right) \/ Decrypt \/ Extracted \/ KilledAtStop
      BY <2>1 DEF BeginRestore, Decrypt, Extracted, KilledAtStop, Filed
    <2>2. CASE Stops \/ Starts
      <3>1. /\ disk' = disk
            /\ UNCHANGED <<content, wal>> \/ (content' = State /\ wal' = <<>>)
        BY <2>2 DEF Stops, Stopped, Starts, BroughtUp
      <3>2. QED
        BY <1>2, <3>1 DEF Filed
    <2>3. CASE ExtractEntry \/ EntryRefused \/ ExtractFails
      <3>1. \/ UNCHANGED <<disk, content, wal>>
            \/ /\ disk \cup {Entries[step]} \subseteq disk'
               /\ \E v : content' = [content EXCEPT ![Entries[step]] = v]
               /\ wal' = wal \/ Entries[step] = "panel.db"
        BY <2>3 DEF ExtractEntry, Extract, EntryRefused, ExtractFails, Overwritten
      <3>2. CASE UNCHANGED <<disk, content, wal>>
        BY <3>2 DEF Filed
      <3>3. CASE ~UNCHANGED <<disk, content, wal>>
        <4>1. \A f \in Archived \ disk' : content'[f] = content[f]
          BY <1>1, <3>1, <3>3 DEF FilesTyped
        <4>2. QED
          BY <3>1, <3>3, <4>1 DEF Filed
      <3>4. QED
        BY <3>2, <3>3
    <2>4. QED
      BY <1>8, <2>1, <2>2, <2>3 DEF Restores
  <1>9. QED
    BY <1>3, <1>4, <1>5, <1>6, <1>7, <1>8, NextIs DEF Panels

LEMMA ReadStays == ASSUME WellTyped, Read, BackupNext PROVE Read'
  <1> USE DEF units, web, past, panel, copies, host
  <1>1. CASE HostStep
    BY <1>1, InstallElsewhere DEF HostStep, Read
  <1>2. CASE Panels
    BY <1>2 DEF Panels, HandlerBegins, HandlerWrites, HandlerFails, Checkpoint, Read
  <1>3. CASE BeginBackup
    <2>1. at' = "read" /\ step' = 1 /\ draft' = <<>> /\ truth' = State /\ DOMAIN <<>> = {}
          /\ calm' = (wal = <<>> /\ change = <<>>) /\ UNCHANGED <<wal, content>>
      BY <1>3 DEF BeginBackup, Begin
    <2>2. wal = <<>> => State = content
      BY StateTyped DEF WellTyped
    <2>3. calm' => wal' = <<>> /\ truth' = content'
      BY <2>1, <2>2
    <2>4. DOMAIN draft' = {} /\ ~(step' > 2)
      BY <2>1
    <2>5. QED
      BY <2>3, <2>4 DEF Read
  <1>4. CASE ReadEntry
    <2>1. /\ at = "read" /\ UNCHANGED <<at, calm, truth, wal, content>> /\ step \in 1..6
          /\ step' = step + 1
      BY <1>4, EntriesAre DEF ReadEntry, WellTyped, StepTyped
    <2>2. CASE Entries[step] \in disk
      <3>1. draft' = [x \in DOMAIN draft \cup {Entries[step]} |->
                         IF x = Entries[step] THEN content[Entries[step]] ELSE draft[x]]
        BY <1>4, <2>2 DEF ReadEntry
      <3>2. step = 2 => Entries[step] = "teleproxy.toml"
        BY DEF Entries
      <3>3. step' > 2 => "teleproxy.toml" \in DOMAIN draft'
        BY <2>1, <3>1, <3>2 DEF Read
      <3>4. calm => \A f \in DOMAIN draft' : draft'[f] = truth[f]
        BY <2>1, <3>1 DEF Read
      <3>5. QED
        BY <2>1, <3>3, <3>4 DEF Read
    <2>3. CASE Entries[step] \notin disk
      <3>1. Entries[step] \in Optional /\ UNCHANGED draft
        BY <1>4, <2>3 DEF ReadEntry
      <3>2. step # 2
        BY <3>1 DEF Entries, Optional
      <3>3. QED
        BY <2>1, <3>1, <3>2 DEF Read
    <2>4. QED
      BY <2>2, <2>3
  <1>5. CASE EntryMissing \/ Archiving \/ WriteArchiveFails
    BY <1>5 DEF EntryMissing, Archiving, ArchiveWritten, WriteArchiveFails, Finish, Read
  <1>6. ASSUME NEW right \in BOOLEAN, Restores(right) PROVE Read'
    BY <1>6 DEF Restores, BeginRestore, Stops, Stopped, KilledAtStop, Decrypt, ExtractEntry, Extract,
       EntryRefused, ExtractFails, GiveUp, Extracted, Starts, BroughtUp, Begin, Finish, Read
  <1>7. QED
    BY <1>1, <1>2, <1>3, <1>4, <1>5, <1>6, NextIs DEF Backups

LEMMA ArchivesStay == ASSUME WellTyped, Read, Archives, BackupNext PROVE Archives'
  <1> USE DEF units, web, past, panel, copies, host
  <1>1. CASE UNCHANGED archive
    BY <1>1 DEF Archives
  <1>2. CASE Archiving
    <2>1. /\ at = "read" /\ step > 6 /\ step \in Nat
          /\ \E large \in BOOLEAN : archive' = [whole |-> TRUE, large |-> large, files |-> draft,
                                               truth |-> truth, calm |-> calm]
      BY <1>2, EntriesAre DEF Archiving, ArchiveWritten, WellTyped, StepTyped
    <2>2. "teleproxy.toml" \in DOMAIN draft /\ (calm => \A f \in DOMAIN draft : draft[f] = truth[f])
      BY <2>1 DEF Read
    <2>3. QED
      BY <2>1, <2>2 DEF Archives
  <1>3. CASE WriteArchiveFails
    BY <1>3 DEF WriteArchiveFails, NoArchive, Archives
  <1>4. CASE HostStep \/ Panels
    BY <1>1, <1>4 DEF Panels, HostStep, HandlerBegins, HandlerWrites, HandlerFails, Checkpoint
  <1>5. CASE BeginBackup \/ ReadEntry \/ EntryMissing
    BY <1>1, <1>5 DEF BeginBackup, ReadEntry, EntryMissing
  <1>6. ASSUME NEW right \in BOOLEAN, Restores(right) PROVE Archives'
    BY <1>1, <1>6 DEF Restores, BeginRestore, Stops, Stopped, KilledAtStop, Decrypt, ExtractEntry,
       EntryRefused, ExtractFails, GiveUp, Extracted, Starts, BroughtUp
  <1>7. QED
    BY <1>2, <1>3, <1>4, <1>5, <1>6, NextIs DEF Backups

\* Outside a restore nothing is to be shown but that what it has read stays a version.
LEMMA NoRestore ==
    ASSUME Restore, reading'.toml \in Made', at' \notin {"stop", "decrypt", "extract", "start"}
    PROVE  Restore'
  BY DEF Restore, Restoring

LEMMA RestoreStays == ASSUME WellTyped, WellTyped', Filed, Restore, BackupNext PROVE Restore'
  <1> USE DEF units, web, past, panel, copies, host
  <1>1. FilesTyped /\ FilesTyped' /\ reading.toml \in Made /\ ReadingTyped(reading)
    BY DEF WellTyped, CopiesTyped, Restore
  <1>2. CASE HostStep
    <2>1. reading'.toml = Torn /\ at' \notin {"stop", "decrypt", "extract", "start"}
      BY <1>2, InstallElsewhere DEF HostStep, NoReading
    <2>2. Torn \in Made'
      BY <1>1, LenProperties DEF FilesTyped, Made, Torn
    <2>3. QED
      BY <2>1, <2>2, NoRestore
  <1>3. CASE Panels
    <2>1. UNCHANGED <<at, reading, archive>>
      BY <1>3 DEF Panels, HandlerBegins, HandlerWrites, HandlerFails, Checkpoint
    <2>2. modes' = modes \/ \E b : modes' = Append(modes, b)
      BY <1>3 DEF Panels, HandlerBegins, HandlerWrites, HandlerFails, Checkpoint
    <2>3. /\ Len(modes) \in Nat /\ Len(modes') \in Nat /\ Len(modes') >= Len(modes)
          /\ \A i \in 1..Len(modes) : modes'[i] = modes[i]
      BY <1>1, <2>2, LenProperties, AppendProperties DEF FilesTyped
    <2>4. reading.toml \in Made' /\ (reading.toml # Torn => modes'[reading.toml] = modes[reading.toml])
      BY <1>1, <2>3 DEF Made, Torn
    <2>5. QED
      BY <2>1, <2>4 DEF Restore, Restoring
  <1>4. CASE Backups
    <2>1. /\ at' \notin {"stop", "decrypt", "extract", "start"} /\ Made' = Made
          /\ reading' \in {reading, NoReading}
      BY <1>4 DEF Backups, BeginBackup, ReadEntry, EntryMissing, Archiving, ArchiveWritten,
         WriteArchiveFails, Begin, Finish, Made
    <2>2. Torn \in Made
      BY <1>1, LenProperties DEF FilesTyped, Made, Torn
    <2>3. reading'.toml \in Made'
      BY <1>1, <2>1, <2>2 DEF NoReading
    <2>4. QED
      BY <2>1, <2>3, NoRestore
  <1>5. ASSUME NEW right \in BOOLEAN, BeginRestore(right) PROVE Restore'
    <2>1. at' = "stop" /\ UNCHANGED <<modes, content>>
      BY <1>5 DEF BeginRestore, Begin
    <2>2. PICK bridge \in (IF "teleproxy.toml" \in disk THEN Detected(content) ELSE {FALSE}) :
             reading' = [NoReading EXCEPT !.right = right, !.bridge = bridge,
                                          !.toml = content["teleproxy.toml"]]
      BY <1>5 DEF BeginRestore
    <2>3. /\ reading'.failed = FALSE /\ reading'.bridge = bridge /\ reading'.gaveUp = 0
          /\ reading'.alive = {} /\ reading'.down = {}
          /\ reading'.toml = content["teleproxy.toml"]
      BY <2>2 DEF NoReading
    <2>4. content["teleproxy.toml"] \in Made
      BY <1>1, EntriesAre DEF FilesTyped
    <2>5. content["teleproxy.toml"] # Torn => bridge = modes[content["teleproxy.toml"]]
      BY <2>2, EntriesAre DEF Detected, Filed
    <2>6. QED
      BY <2>1, <2>3, <2>4, <2>5 DEF Restore, Restoring, Made
  <1>6. CASE Stops \/ KilledAtStop
    <2>1. at = "stop" /\ at' = "decrypt" /\ UNCHANGED <<modes, archive>>
      BY <1>6 DEF Stops, Stopped, KilledAtStop
    <2>2. \E b, alive :
             \/ reading' = [reading EXCEPT !.stopped = State, !.alive = alive, !.closed = b]
             \/ reading' = [reading EXCEPT !.stopped = State, !.closed = b]
      BY <1>6 DEF Stops, Stopped, KilledAtStop
    <2>3. /\ reading'.failed = reading.failed /\ reading'.gaveUp = reading.gaveUp
          /\ reading'.down = reading.down /\ reading'.toml = reading.toml
          /\ reading'.bridge = reading.bridge
      BY <1>1, <2>2 DEF ReadingTyped
    <2>4. QED
      BY <2>1, <2>3 DEF Restore, Restoring, Made
  <1>7. CASE Decrypt
    <2>1. /\ at = "decrypt" /\ UNCHANGED <<modes, archive>>
          /\ \/ at' = "extract" /\ archive.whole /\ UNCHANGED reading
             \/ at' = "start" /\ reading' = [reading EXCEPT !.failed = TRUE]
      BY <1>7 DEF Decrypt
    <2>2. CASE UNCHANGED reading /\ at' = "extract" /\ archive.whole
      BY <2>1, <2>2 DEF Restore, Restoring, Made
    <2>3. CASE reading' = [reading EXCEPT !.failed = TRUE] /\ at' = "start"
      <3>1. /\ reading'.failed = TRUE /\ reading'.down = reading.down
            /\ reading'.toml = reading.toml /\ reading'.bridge = reading.bridge
        BY <1>1, <2>3 DEF ReadingTyped
      <3>2. QED
        BY <2>1, <2>3, <3>1 DEF Restore, Restoring, Made
    <2>4. QED
      BY <2>1, <2>2, <2>3
  <1>8. CASE ExtractEntry \/ Extracted
    <2>1. at = "extract" /\ at' \in {"extract", "start"} /\ UNCHANGED <<modes, archive, reading>>
      BY <1>8 DEF ExtractEntry, Extracted
    <2>2. QED
      BY <2>1 DEF Restore, Restoring, Made
  <1>9. CASE EntryRefused \/ ExtractFails
    <2>1. /\ at = "extract" /\ at' = "start" /\ UNCHANGED modes
          /\ reading' = [reading EXCEPT !.failed = TRUE, !.gaveUp = step]
      BY <1>9 DEF EntryRefused, ExtractFails, GiveUp
    <2>2. /\ reading'.failed = TRUE /\ reading'.down = reading.down
          /\ reading'.toml = reading.toml /\ reading'.bridge = reading.bridge
      BY <1>1, <2>1 DEF ReadingTyped
    <2>3. QED
      BY <2>1, <2>2 DEF Restore, Restoring, Made
  <1>10. CASE Starts
    <2>1. at' = "idle" /\ UNCHANGED modes
      BY <1>10 DEF Starts, BroughtUp, Finish
    <2>2. reading'.toml = reading.toml
      BY <1>1, <1>10 DEF Starts, ReadingTyped
    <2>3. QED
      BY <1>1, <2>1, <2>2, NoRestore DEF Made
  <1>11. ASSUME NEW right \in BOOLEAN, Restores(right) PROVE Restore'
    BY <1>5, <1>6, <1>7, <1>8, <1>9, <1>10, <1>11 DEF Restores
  <1>12. QED
    BY <1>2, <1>3, <1>4, <1>11, NextIs

\* What a reader of the database sees does not change when the panel's pages are moved into it.
LEMMA StateStays ==
    ASSUME FilesTyped, FilesTyped',
           UNCHANGED <<content, wal>> \/ (content' = State /\ wal' = <<>>)
    PROVE  State' = State /\ content'["teleproxy.toml"] = content["teleproxy.toml"]
  <1>1. CASE UNCHANGED <<content, wal>>
    BY <1>1 DEF State, Committed
  <1>2. CASE content' = State /\ wal' = <<>>
    <2>1. State' = content'
      BY <1>2, EntriesAre DEF State, Committed, FilesTyped
    <2>2. State["teleproxy.toml"] = content["teleproxy.toml"]
      BY StateTyped, EntriesAre
    <2>3. QED
      BY <1>2, <2>1, <2>2
  <1>3. QED
    BY <1>1, <1>2

\* Of the entries the database is the last.
LEMMA EntriesDiffer ==
    /\ \A i, j \in 1..6 : Entries[i] = Entries[j] => i = j
    /\ \A i \in 1..5 : Entries[i] # "panel.db"
    /\ Entries[6] = "panel.db" /\ Len(Entries) = 6
    /\ Archived = {Entries[i] : i \in 1..6}
  <1>1. /\ Entries[1] = "config.toml" /\ Entries[2] = "teleproxy.toml"
        /\ Entries[3] = "sing-box.json" /\ Entries[4] = "users.json"
        /\ Entries[5] = "outbounds.json" /\ Entries[6] = "panel.db"
        /\ Len(Entries) = 6 /\ DOMAIN Entries = 1..6
    BY DEF Entries
  <1>2. \A i \in 1..6 : i \in {1, 2, 3, 4, 5, 6}
    OBVIOUS
  <1>3. \A i \in 1..5 : i \in {1, 2, 3, 4, 5}
    OBVIOUS
  <1>4. \A i, j \in 1..6 : Entries[i] = Entries[j] => i = j
    BY <1>1, <1>2
  <1>5. \A i \in 1..5 : Entries[i] # "panel.db"
    BY <1>1, <1>3
  <1>6. QED
    BY <1>1, <1>4, <1>5 DEF Archived

\* Writing one entry over the last one there was.
LEMMA Overwriting ==
    ASSUME WellTyped, NEW v, Extract(Entries[step], v), at = "extract", step \in 1..6
    PROVE  /\ disk \cup {Entries[step]} \subseteq disk'
           /\ content'[Entries[step]] = v
           /\ \A f \in Archived \ {Entries[step]} : content'[f] = content[f] /\ State'[f] = State[f]
           /\ step # 6 => State'[Entries[step]] = v
           /\ v = Torn => State'[Entries[step]] = v
           /\ wal = <<>> /\ "panel" \notin running => wal' = <<>>
  <1> DEFINE e == Entries[step]
  <1>1. /\ e \in Archived /\ (step # 6 => e # "panel.db") /\ (step = 6 => e = "panel.db")
        /\ content \in [Archived -> Made] /\ "panel.db" \in Archived
    BY EntriesAre, EntriesDiffer DEF WellTyped, FilesTyped
  <1> HIDE DEF e
  <1>2. /\ disk \cup {e} \subseteq disk' /\ content' = [content EXCEPT ![e] = v]
        /\ wal' \in Overwritten(e)
    BY DEF Extract, e
  <1>3. /\ e # "panel.db" => wal' = wal
        /\ wal # <<>> /\ e = "panel.db" => wal' = <<Torn>>
        /\ wal = <<>> => wal' = <<>> \/ wal' = <<Torn>>
        /\ wal = <<>> /\ "panel" \notin running => wal' = <<>>
    BY <1>2 DEF Overwritten
  <1>4. content'[e] = v /\ DOMAIN content' = Archived /\ \A f \in Archived \ {e} : content'[f] = content[f]
    BY <1>1, <1>2
  <1>5. \A f \in Archived : State[f] = IF f = "panel.db" THEN Committed ELSE content[f]
    BY <1>1 DEF State
  <1>6. \A f \in Archived : State'[f] = IF f = "panel.db" THEN Committed' ELSE content'[f]
    BY <1>4 DEF State
  <1>7. e # "panel.db" => Committed' = Committed
    BY <1>1, <1>3, <1>4 DEF Committed
  <1>8. e = "panel.db" /\ v = Torn => Committed' = Torn
    BY <1>1, <1>3, <1>4 DEF Committed
  <1>9. QED
    BY <1>1, <1>2, <1>3, <1>4, <1>5, <1>6, <1>7, <1>8 DEF e

LEMMA UndisturbedStays ==
    ASSUME WellTyped, WellTyped', Restore, Undisturbed, BackupNext PROVE Undisturbed'
  <1> USE DEF units, web, past, panel, copies, host
  <1>1. FilesTyped /\ FilesTyped' /\ ReadingTyped(reading) /\ Len(Entries) = 6
    BY EntriesAre DEF WellTyped, CopiesTyped
  <1>2. CASE at' \notin {"decrypt", "extract", "start"}
    BY <1>2 DEF Undisturbed, Restoring
  <1>3. CASE Panels
    <2>1. UNCHANGED <<at, reading>> /\ "panel" \in running
      BY <1>3 DEF Panels, HandlerBegins, HandlerWrites, HandlerFails, Checkpoint
    <2>2. Restoring => reading.alive # {}
      BY <2>1 DEF WellTyped, Alone
    <2>3. QED
      BY <2>1, <2>2 DEF Undisturbed, Restoring
  <1>4. CASE Stops \/ KilledAtStop
    <2>1. /\ at = "stop" /\ at' = "decrypt" /\ UNCHANGED <<disk, archive>>
          /\ found' = [found EXCEPT !.disk = disk]
          /\ UNCHANGED <<content, wal>> \/ (content' = State /\ wal' = <<>>)
      BY <1>4 DEF Stops, Stopped, KilledAtStop
    <2>2. State' = State
      BY <1>1, <2>1, StateStays
    <2>3. reading.alive = {}
      BY <2>1 DEF Restore
    <2>4. reading'.stopped = State /\ (reading'.closed => reading'.alive = {} /\ wal' = <<>>)
      <3>1. ASSUME NEW alive, Stopped(alive)
            PROVE  reading'.stopped = State /\ (reading'.closed => reading'.alive = {} /\ wal' = <<>>)
        <4>1. reading' = [reading EXCEPT !.stopped = State, !.alive = alive,
                                         !.closed = (alive = {} /\ wal' = <<>>)]
          BY <3>1 DEF Stopped
        <4>2. /\ reading'.stopped = State /\ reading'.alive = alive
              /\ reading'.closed = (alive = {} /\ wal' = <<>>)
          BY <1>1, <4>1 DEF ReadingTyped
        <4>3. QED
          BY <4>2
      <3>2. CASE KilledAtStop
        <4>1. reading' = [reading EXCEPT !.stopped = State, !.closed = (wal = <<>>)] /\ wal' = wal
          BY <3>2 DEF KilledAtStop
        <4>2. /\ reading'.stopped = State /\ reading'.alive = reading.alive
              /\ reading'.closed = (wal = <<>>)
          BY <1>1, <4>1 DEF ReadingTyped
        <4>3. QED
          BY <2>3, <4>1, <4>2
      <3>3. QED
        BY <1>4, <3>1, <3>2 DEF Stops
    <2>5. disk' = found'.disk
      BY <2>1 DEF WellTyped, HostTyped
    <2>6. AsWritten(1)'
      BY <2>2, <2>4 DEF AsWritten
    <2>7. QED
      BY <2>1, <2>4, <2>5, <2>6 DEF Undisturbed, Restoring, Progress
  <1>5. CASE Decrypt
    <2>1. /\ at = "decrypt" /\ UNCHANGED <<disk, found, content, wal, archive, step>> /\ step = 1
      BY <1>5 DEF Decrypt, WellTyped, StepTyped
    <2>2. State' = State
      BY <1>1, <2>1, StateStays
    <2>3. reading.gaveUp = 0 /\ ~reading.failed
      BY <2>1 DEF Restore
    <2>4. /\ reading.closed => wal = <<>> /\ reading.alive = {}
          /\ reading.alive = {} => disk = found.disk /\ AsWritten(1)
      BY <2>1 DEF Undisturbed, Restoring, Progress
    <2>5. CASE at' = "extract" /\ UNCHANGED reading
      <3>1. {Entries[i] : i \in 1..(step' - 1)} = {}
        BY <2>1
      <3>2. Extracts({Entries[i] : i \in 1..(step - 1)})'
        BY <3>1 DEF Extracts
      <3>3. AsWritten(1) => AsWritten(step)'
        BY <2>1, <2>2, <2>5 DEF AsWritten
      <3>4. QED
        BY <2>1, <2>4, <2>5, <3>2, <3>3 DEF Undisturbed, Restoring, Progress
    <2>6. CASE at' = "start" /\ reading' = [reading EXCEPT !.failed = TRUE]
      <3>1. /\ reading'.failed = TRUE /\ reading'.stopped = reading.stopped
            /\ reading'.closed = reading.closed /\ reading'.alive = reading.alive
            /\ reading'.gaveUp = 0
        BY <1>1, <2>3, <2>6 DEF ReadingTyped
      <3>2. ASSUME reading.alive = {} PROVE WrittenInOrder'
        <4>1. \A i \in 1..6 : State'[Entries[i]] = reading'.stopped[Entries[i]]
          BY <2>2, <2>4, <3>1, <3>2 DEF AsWritten
        <4>2. disk' = found'.disk
          BY <2>1, <2>4, <3>2
        <4>3. DOMAIN Entries = 1..6
          BY DEF Entries
        <4>4. QED
          BY <3>1, <4>1, <4>2, <4>3 DEF WrittenInOrder
      <3>3. QED
        BY <2>1, <2>4, <2>6, <3>1, <3>2 DEF Undisturbed, Restoring, Progress
    <2>7. QED
      BY <1>5, <2>5, <2>6 DEF Decrypt
  <1>6. CASE ExtractEntry
    <2>1. /\ at = "extract" /\ at' = at /\ UNCHANGED <<archive, reading, running, found>>
          /\ step \in 1..6 /\ step' = step + 1 /\ step' \in Nat /\ Entries[step] \in Archived
      BY <1>1, <1>6, EntriesAre DEF ExtractEntry, WellTyped, StepTyped
    <2>2. SUFFICES ASSUME reading.alive = {} PROVE (reading.closed => wal' = <<>>) /\ Progress'
      BY <2>1 DEF Undisturbed, Restoring
    <2>3. /\ reading.closed => wal = <<>>
          /\ found.disk \subseteq disk /\ AsWritten(step)
          /\ Extracts({Entries[i] : i \in 1..(step - 1)})
      BY <2>1, <2>2 DEF Undisturbed, Restoring, Progress
    <2>4. running = {}
      BY <2>1, <2>2 DEF WellTyped, Alone, Restoring
    <2>5. /\ Entries[step] \in DOMAIN archive.files =>
                /\ Entries[step] \in disk' /\ content'[Entries[step]] = archive.files[Entries[step]]
                /\ step # 6 => State'[Entries[step]] = archive.files[Entries[step]]
          /\ Entries[step] \notin DOMAIN archive.files => State'[Entries[step]] = State[Entries[step]]
          /\ \A f \in Archived \ {Entries[step]} : content'[f] = content[f] /\ State'[f] = State[f]
          /\ disk \subseteq disk' /\ (wal = <<>> => wal' = <<>>)
      <3>1. CASE Entries[step] \in DOMAIN archive.files
        <4>1. Extract(Entries[step], archive.files[Entries[step]])
          BY <1>6, <3>1 DEF ExtractEntry
        <4>2. QED
          BY <2>1, <2>4, <3>1, <4>1, Overwriting
      <3>2. CASE Entries[step] \notin DOMAIN archive.files
        <4>1. UNCHANGED <<disk, content, wal>>
          BY <1>6, <3>2 DEF ExtractEntry
        <4>2. State' = State
          BY <1>1, <4>1, StateStays
        <4>3. QED
          BY <3>2, <4>1, <4>2
      <3>3. QED
        BY <3>1, <3>2
    <2>6. Extracts({Entries[i] : i \in 1..(step - 1)})'
      <3>1. step' - 1 = step
        BY <2>1
      <3>2. SUFFICES ASSUME NEW i \in 1..step, Entries[i] \in DOMAIN archive.files
                     PROVE  Entries[i] \in disk' /\ content'[Entries[i]] = archive.files[Entries[i]]
        BY <2>1, <3>1 DEF Extracts
      <3>3. CASE Entries[i] = Entries[step]
        BY <2>5, <3>2, <3>3
      <3>4. CASE Entries[i] # Entries[step]
        <4>1. i \in 1..(step - 1) /\ Entries[i] \in Archived
          BY <2>1, <3>4, EntriesAre
        <4>2. QED
          BY <2>3, <2>5, <3>2, <3>4, <4>1 DEF Extracts
      <3>5. QED
        BY <3>3, <3>4
    <2>7. step' <= 6 => AsWritten(step)'
      <3>1. SUFFICES ASSUME step' <= 6, NEW i \in 1..6
                     PROVE  State'[Entries[i]] =
                               IF i < step' /\ Entries[i] \in DOMAIN archive.files
                               THEN archive.files[Entries[i]] ELSE reading.stopped[Entries[i]]
        BY <2>1 DEF AsWritten
      <3>2. State[Entries[i]] = IF i < step /\ Entries[i] \in DOMAIN archive.files
                                THEN archive.files[Entries[i]] ELSE reading.stopped[Entries[i]]
        BY <2>3 DEF AsWritten
      <3>3. CASE i = step
        BY <2>1, <2>5, <3>1, <3>2, <3>3
      <3>4. CASE i # step
        <4>1. Entries[i] # Entries[step] /\ Entries[i] \in Archived
          BY <2>1, <3>4, EntriesDiffer, EntriesAre
        <4>2. i < step' <=> i < step
          BY <2>1, <3>4
        <4>3. QED
          BY <2>5, <3>2, <4>1, <4>2
      <3>5. QED
        BY <3>3, <3>4
    <2>8. QED
      BY <2>1, <2>3, <2>5, <2>6, <2>7 DEF Progress
  <1>7. CASE EntryRefused \/ ExtractFails
    <2>1. /\ at = "extract" /\ at' = "start" /\ UNCHANGED <<archive, running, found>>
          /\ reading' = [reading EXCEPT !.failed = TRUE, !.gaveUp = step]
          /\ step \in 1..6
      BY <1>1, <1>7 DEF EntryRefused, ExtractFails, GiveUp, WellTyped, StepTyped
    <2>2. /\ reading'.failed = TRUE /\ reading'.stopped = reading.stopped
          /\ reading'.closed = reading.closed /\ reading'.alive = reading.alive
          /\ reading'.gaveUp = step
      BY <1>1, <2>1 DEF ReadingTyped
    <2>3. SUFFICES ASSUME reading.alive = {} PROVE (reading.closed => wal' = <<>>) /\ WrittenInOrder'
      BY <2>1, <2>2 DEF Undisturbed, Restoring, Progress
    <2>4. (reading.closed => wal = <<>>) /\ found.disk \subseteq disk /\ AsWritten(step)
      BY <2>1, <2>3 DEF Undisturbed, Restoring, Progress
    <2>5. running = {}
      BY <2>1, <2>3 DEF WellTyped, Alone, Restoring
    <2>6. /\ State'[Entries[step]] \in {State[Entries[step]], Torn}
          /\ \A f \in Archived \ {Entries[step]} : State'[f] = State[f]
          /\ disk \subseteq disk' /\ (wal = <<>> => wal' = <<>>)
      <3>1. CASE Extract(Entries[step], Torn)
        BY <2>1, <2>5, <3>1, Overwriting
      <3>2. CASE UNCHANGED <<disk, content, wal>>
        BY <1>1, <3>2, StateStays
      <3>3. QED
        BY <1>7, <3>1, <3>2 DEF EntryRefused, ExtractFails
    <2>7. ASSUME NEW i \in 1..6
          PROVE  State'[Entries[i]] \in
                    CASE i < step /\ Entries[i] \in DOMAIN archive.files -> {archive.files[Entries[i]]}
                      [] i = step -> {reading.stopped[Entries[i]], Torn}
                      [] OTHER -> {reading.stopped[Entries[i]]}
      <3>1. State[Entries[i]] = IF i < step /\ Entries[i] \in DOMAIN archive.files
                                THEN archive.files[Entries[i]] ELSE reading.stopped[Entries[i]]
        BY <2>4 DEF AsWritten
      <3>2. CASE i = step
        BY <2>1, <2>6, <3>1, <3>2
      <3>3. CASE i # step
        <4>1. State'[Entries[i]] = State[Entries[i]]
          BY <2>1, <2>6, <3>3, EntriesDiffer, EntriesAre
        <4>2. QED
          BY <3>1, <3>3, <4>1
      <3>4. QED
        BY <3>2, <3>3
    <2>8. found'.disk \subseteq disk' /\ reading'.gaveUp # 0
      BY <2>1, <2>2, <2>4, <2>6
    <2>9. DOMAIN Entries = 1..6
      BY DEF Entries
    <2>10. WrittenInOrder'
      BY <2>1, <2>2, <2>7, <2>8, <2>9 DEF WrittenInOrder
    <2>11. QED
      BY <2>4, <2>6, <2>10
  <1>8. CASE Extracted
    <2>1. /\ at = "extract" /\ at' = "start" /\ step = 7
          /\ UNCHANGED <<disk, content, wal, archive, reading>>
      BY <1>1, <1>8 DEF Extracted, WellTyped, StepTyped
    <2>2. Archived = {Entries[i] : i \in 1..(step - 1)}
      BY <2>1, EntriesDiffer
    <2>3. ~reading.failed
      BY <2>1 DEF Restore
    <2>4. QED
      BY <2>1, <2>2, <2>3 DEF Undisturbed, Restoring, Progress, Extracts
  <1>9. CASE HostStep
    BY <1>2, <1>9, InstallElsewhere DEF HostStep
  <1>10. CASE Backups
    BY <1>2, <1>10 DEF Backups, BeginBackup, ReadEntry, EntryMissing, Archiving, ArchiveWritten,
       WriteArchiveFails, Begin, Finish
  <1>11. ASSUME NEW right \in BOOLEAN, BeginRestore(right) \/ Starts PROVE Undisturbed'
    BY <1>2, <1>11 DEF BeginRestore, Begin, Starts, BroughtUp, Finish
  <1>12. QED
    BY <1>3, <1>4, <1>5, <1>6, <1>7, <1>8, <1>9, <1>10, <1>11, NextIs DEF Restores

\* What a start after a restore has begun with, and what it leaves.
LEMMA Starting ==
    ASSUME WellTyped, WellTyped', Restore, Undisturbed, Starts, reading'.alive = {}
    PROVE  \E bridge \in ModeToStart, down \in SUBSET Services :
              /\ at = "start" /\ UNCHANGED <<disk, modes, archive, found>>
              /\ outcome' = (IF reading.failed THEN "not restored" ELSE "restored")
              /\ \A f \in DOMAIN reading \ {"down"} : reading'[f] = reading[f]
              /\ reading.alive = {} /\ Progress
              /\ running' = Wanted(bridge) \ down /\ reading'.down = down
              /\ "teleproxy" \in running' => live' = content["teleproxy.toml"]
              /\ UNCHANGED <<content, wal>> \/ (content' = State /\ wal' = <<>>)
  <1> USE DEF units, web, past, panel, copies, host
  <1>1. PICK bridge \in ModeToStart : \E down \in SUBSET Wanted(bridge) :
           /\ BroughtUp(Wanted(bridge) \ down)
           /\ \/ down = {} /\ UNCHANGED reading
              \/ reading' = [reading EXCEPT !.down = down]
    BY DEF Starts
  <1> PICK down \in SUBSET Wanted(bridge) :
           /\ BroughtUp(Wanted(bridge) \ down)
           /\ \/ down = {} /\ UNCHANGED reading
              \/ reading' = [reading EXCEPT !.down = down]
    BY <1>1
  <1>2. at = "start" /\ UNCHANGED <<disk, modes, archive, found>>
        /\ outcome' = (IF reading.failed THEN "not restored" ELSE "restored")
    BY <1>1 DEF BroughtUp, Finish
  <1>3. ReadingTyped(reading) /\ reading.down = {}
    BY <1>2 DEF WellTyped, CopiesTyped, Restore, Restoring
  <1>4. /\ reading'.down = down /\ \A f \in DOMAIN reading \ {"down"} : reading'[f] = reading[f]
        /\ reading'.alive = reading.alive
    BY <1>1, <1>3 DEF ReadingTyped
  <1>5. running = {} /\ reading.alive = {} /\ Progress
    BY <1>2, <1>4 DEF WellTyped, Alone, Undisturbed, Restoring
  <1>6. running' = Wanted(bridge) \ down
    BY <1>1, <1>5 DEF BroughtUp
  <1>7. "teleproxy" \in running' => live' = content["teleproxy.toml"]
    BY <1>1, <1>5, <1>6 DEF BroughtUp
  <1>8. UNCHANGED <<content, wal>> \/ (content' = State /\ wal' = <<>>)
    BY <1>1 DEF BroughtUp
  <1>9. down \in SUBSET Services
    BY DEF Wanted
  <1>10. QED
    BY <1>2, <1>4, <1>5, <1>6, <1>7, <1>8, <1>9

LEMMA RestoredStays ==
    ASSUME WellTyped, WellTyped', Ended, Archives, Restore, Undisturbed, RestoredAsArchived,
           BackupNext
    PROVE  RestoredAsArchived'
  <1> USE DEF units, web, past, panel, copies, host
  <1>1. SUFFICES ASSUME outcome' = "restored", reading'.closed, archive'.calm
                 PROVE  RestoredAsArchived'
    BY DEF RestoredAsArchived
  <1>2. FilesTyped /\ FilesTyped'
    BY DEF WellTyped
  <1>3. CASE Checkpoint /\ outcome' = outcome
    <2>1. /\ UNCHANGED <<disk, running, live, modes, archive, reading>> /\ content' = State
          /\ wal' = <<>>
      BY <1>3 DEF Checkpoint
    <2>2. State' = State
      BY <1>2, <2>1, StateStays
    <2>3. outcome = "restored" /\ reading.closed /\ archive.calm
      BY <1>1, <1>3, <2>1
    <2>4. QED
      BY <2>1, <2>2, <2>3 DEF RestoredAsArchived, Startable
  <1>4. CASE Starts
    <2>1. /\ at = "start" /\ reading'.closed = reading.closed /\ reading'.alive = reading.alive
      <3>1. ReadingTyped(reading)
        BY DEF WellTyped, CopiesTyped
      <3>2. QED
        BY <1>4, <3>1 DEF Starts, BroughtUp, ReadingTyped
    <2>2. wal = <<>> /\ reading'.alive = {}
      BY <1>1, <2>1 DEF Undisturbed, Restoring
    <2>3. PICK bridge \in ModeToStart, down \in SUBSET Services :
              /\ UNCHANGED <<disk, modes, archive>>
              /\ outcome' = (IF reading.failed THEN "not restored" ELSE "restored")
              /\ Progress
              /\ running' = Wanted(bridge) \ down /\ reading'.down = down
              /\ "teleproxy" \in running' => live' = content["teleproxy.toml"]
              /\ UNCHANGED <<content, wal>> \/ (content' = State /\ wal' = <<>>)
      BY <1>4, <2>2, Starting
    <2>4. ~reading.failed /\ Extracts(Archived) /\ archive.whole
      BY <1>1, <2>1, <2>3 DEF Progress, Restore
    <2>5. State' = content
      <3>1. State = content
        BY <1>2, <2>2, StateTyped
      <3>2. QED
        BY <1>2, <2>3, <3>1, StateStays
    <2>6. /\ \A f \in DOMAIN archive.files : f \in disk /\ content[f] = archive.truth[f]
          /\ "teleproxy.toml" \in DOMAIN archive.files
      BY <1>1, <2>3, <2>4 DEF Extracts, Archives, WellTyped, CopiesTyped, ArchiveTyped, Files
    <2>7. content["teleproxy.toml"] = archive.truth["teleproxy.toml"] /\ "teleproxy.toml" \in disk
      BY <2>6
    <2>8. archive.truth["teleproxy.toml"] # Torn => bridge = modes[archive.truth["teleproxy.toml"]]
      BY <2>3, <2>4, <2>7 DEF ModeToStart, Detected
    <2>9. "singbox" \in running' <=> Startable("singbox") /\ bridge /\ "singbox" \notin down
      BY <2>3 DEF Wanted, Services
    <2>10. Startable("singbox")' = Startable("singbox")
      BY <2>3 DEF Startable
    <2>11. "teleproxy" \in running' => live' = archive'.truth["teleproxy.toml"]
      BY <2>3, <2>7
    <2>12. \A f \in DOMAIN archive'.files : f \in disk' /\ State'[f] = archive'.truth[f]
      BY <2>3, <2>5, <2>6
    <2>13. archive'.truth["teleproxy.toml"] # Torn =>
              ("singbox" \in running' <=>
                   Startable("singbox")' /\ "singbox" \notin reading'.down
                   /\ modes'[archive'.truth["teleproxy.toml"]])
      BY <2>3, <2>8, <2>9, <2>10
    <2>14. QED
      BY <2>11, <2>12, <2>13 DEF RestoredAsArchived
  <1>5. QED
    BY <1>1, <1>3, <1>4, OutcomeOfRestore

LEMMA GivenUpStays ==
    ASSUME WellTyped, WellTyped', Ended, Restore, Undisturbed, GivenUpInOrder, BackupNext
    PROVE  GivenUpInOrder'
  <1> USE DEF units, web, past, panel, copies, host
  <1>1. SUFFICES ASSUME outcome' = "not restored", reading'.alive = {}
                 PROVE  WrittenInOrder' /\ RunsAgain'
    BY DEF GivenUpInOrder
  <1>2. FilesTyped /\ FilesTyped'
    BY DEF WellTyped
  <1>3. CASE Checkpoint /\ outcome' = outcome
    <2>1. /\ UNCHANGED <<disk, running, live, modes, found, archive, reading>>
          /\ content' = State /\ wal' = <<>>
      BY <1>3 DEF Checkpoint
    <2>2. WrittenInOrder /\ RunsAgain
      BY <1>1, <1>3, <2>1 DEF GivenUpInOrder
    <2>3. State' = State /\ content'["teleproxy.toml"] = content["teleproxy.toml"]
      BY <1>2, <2>1, StateStays
    <2>4. WrittenInOrder'
      BY <2>1, <2>2, <2>3 DEF WrittenInOrder
    <2>5. RunsAgain'
      BY <2>1, <2>2, <2>3 DEF RunsAgain, Startable
    <2>6. QED
      BY <2>4, <2>5
  <1>4. CASE Starts
    <2>1. PICK bridge \in ModeToStart, down \in SUBSET Services :
              /\ at = "start" /\ UNCHANGED <<disk, modes, archive, found>>
              /\ outcome' = (IF reading.failed THEN "not restored" ELSE "restored")
              /\ \A f \in DOMAIN reading \ {"down"} : reading'[f] = reading[f]
              /\ Progress
              /\ running' = Wanted(bridge) \ down /\ reading'.down = down
              /\ "teleproxy" \in running' => live' = content["teleproxy.toml"]
              /\ UNCHANGED <<content, wal>> \/ (content' = State /\ wal' = <<>>)
      BY <1>1, <1>4, Starting
    <2>2. reading.failed /\ WrittenInOrder
      BY <1>1, <2>1 DEF Progress
    <2>3. State' = State /\ content'["teleproxy.toml"] = content["teleproxy.toml"]
      BY <1>2, <2>1, StateStays
    <2>4. reading'.gaveUp = reading.gaveUp /\ reading'.stopped = reading.stopped
          /\ reading'.toml = reading.toml
      <3>1. {"gaveUp", "stopped", "toml"} \subseteq DOMAIN reading \ {"down"}
        BY DEF WellTyped, CopiesTyped, ReadingTyped
      <3>2. QED
        BY <2>1, <3>1
    <2>5. WrittenInOrder'
      BY <2>1, <2>2, <2>3, <2>4 DEF WrittenInOrder
    <2>6. bridge = reading.bridge
      BY <2>1, <2>2 DEF ModeToStart
    <2>7. found.units \subseteq Services
      BY DEF WellTyped, HostTyped
    <2>8. \A s : Startable(s)' <=> Startable(s)
      BY <2>1 DEF Startable
    <2>9. {s \in found'.units \ {"singbox"} : Startable(s)'} \subseteq running' \cup reading'.down
      BY <2>1, <2>7, <2>8 DEF Wanted
    <2>10. "teleproxy" \in running' => live' = content'["teleproxy.toml"]
      BY <2>1, <2>3
    <2>11. "singbox" \in running' <=> Startable("singbox") /\ reading.bridge /\ "singbox" \notin down
      BY <2>1, <2>6 DEF Wanted, Services
    <2>12. reading.toml # Torn => reading.bridge = modes[reading.toml]
      BY <2>1 DEF Restore, Restoring
    <2>13. content'["teleproxy.toml"] \in {reading'.toml} \ {Torn} =>
              ("singbox" \in running' <=>
                   Startable("singbox")' /\ "singbox" \notin reading'.down /\ modes'[reading'.toml])
      BY <2>1, <2>4, <2>8, <2>11, <2>12
    <2>14. RunsAgain'
      BY <2>9, <2>10, <2>13 DEF RunsAgain
    <2>15. QED
      BY <2>5, <2>14
  <1>5. QED
    BY <1>1, <1>3, <1>4, OutcomeOfRestore

-----------------------------------------------------------------------------
(* Uninstall: what it leaves is not in the way of the next install. *)

RemovedTree == RemovedDirs \cup (UNION {Within(d) : d \in RemovedDirs})

LEMMA TreeHolds ==
    /\ {"config", "log", "stubroot", "secrets", "certs"} \subseteq RemovedTree
    /\ \A d \in {"config", "secrets", "certs", "stubroot"} : Holds[d] \subseteq RemovedTree
  <1>1. "config" \in RemovedDirs /\ "stubroot" \in RemovedDirs
    BY DEF RemovedDirs
  <1>2. Within("config") \subseteq RemovedTree /\ Within("stubroot") \subseteq RemovedTree
    BY <1>1 DEF RemovedTree
  <1>3. Holds["config"] \subseteq Within("config") /\ Holds["stubroot"] \subseteq Within("stubroot")
    BY DEF Within
  <1>4. {"secrets", "certs"} \subseteq Holds["config"] \cap DOMAIN Holds
    BY ThingsAre DEF Holds
  <1>5. Holds["secrets"] \subseteq Within("config") /\ Holds["certs"] \subseteq Within("config")
    BY <1>4 DEF Within
  <1>6. {"config", "log", "stubroot"} \subseteq RemovedTree
    BY DEF RemovedTree, RemovedDirs
  <1>7. QED
    BY <1>2, <1>3, <1>4, <1>5, <1>6

LEMMA LeftOver ==
    ASSUME NEW x \in Things, x \notin Removed, x \notin RemovedTree
    PROVE  x \in {"webroot", "snippet", "site tls", "site panel"}
  <1>1. CASE x \in DOMAIN Holds
    BY <1>1, ThingsAre, TreeHolds
  <1>2. CASE x \in UNION {Holds[d] : d \in DOMAIN Holds}
    <2>1. PICK d \in DOMAIN Holds : x \in Holds[d]
      BY <1>2
    <2>2. d \notin {"log", "webroot"}
      BY <2>1 DEF Holds
    <2>3. QED
      BY <2>1, <2>2, ThingsAre, TreeHolds
  <1>3. CASE x \in {Unit[s] : s \in Services} \cup {Binary[s] : s \in Services}
    BY <1>3 DEF Removed
  <1>4. CASE x \in {SiteFile[s] : s \in Sites \ {"default"}}
    <2>1. PICK s \in {"stub", "tls", "panel"} : x = SiteFile[s]
      BY <1>4 DEF Sites
    <2>2. CASE s = "stub"
      BY <2>1, <2>2 DEF SiteFile, Removed
    <2>3. CASE s = "tls"
      BY <2>1, <2>3 DEF SiteFile
    <2>4. CASE s = "panel"
      BY <2>1, <2>4 DEF SiteFile
    <2>5. QED
      BY <2>1, <2>2, <2>3, <2>4
  <1>5. CASE x \in {"tgproxy-cli", "snippet"}
    BY <1>5 DEF Removed
  <1>6. QED
    BY <1>1, <1>2, <1>3, <1>4, <1>5 DEF Things

LEMMA UninstallStays == ASSUME WellTyped, Uninstall, BackupNext PROVE Uninstall'
  <1> USE DEF units, web, past, panel, copies, host
  <1>1. CASE at' \notin {"files", "dirs", "reload"}
    BY <1>1 DEF Uninstall
  <1>2. CASE StopServices \/ StopServicesFails
    BY <1>2 DEF StopServices, StopServicesFails, Mishap, Uninstall
  <1>3. CASE RemoveFiles
    BY <1>3 DEF RemoveFiles, Uninstall, Calm
  <1>4. CASE RemoveDirs
    <2>1. /\ at = "dirs" /\ at' = "reload" /\ disk' = disk \ RemovedTree
          /\ UNCHANGED <<enabled, running, sites, trouble>>
      BY <1>4 DEF RemoveDirs, RemovedTree, Calm
    <2>2. ASSUME ~trouble PROVE disk \cap Removed = {} /\ "stub" \notin sites
      BY <2>1, <2>2 DEF Uninstall
    <2>3. ASSUME ~trouble PROVE disk' \subseteq {"webroot", "snippet", "site tls", "site panel"}
      BY <2>1, <2>2, <2>3, LeftOver DEF WellTyped, HostTyped
    <2>4. QED
      BY <2>1, <2>2, <2>3 DEF Uninstall
  <1>5. CASE RemoveFails
    BY <1>5 DEF RemoveFails, Mishap, Uninstall
  <1>6. CASE UNCHANGED <<at, trouble>> /\ "panel" \in running
    BY <1>6 DEF Uninstall
  <1>7. CASE at' \in {"files", "dirs", "reload"} /\ HostStep
    <2>1. StopServices \/ StopServicesFails \/ RemoveFiles \/ RemoveDirs \/ RemoveFails
      BY <1>7 DEF HostStep, InstallNext, BeginInstall, Begin, AccountKey, Order, OrderFails,
         ApplyStep, StepFails, UndoStep, UndoFails, RolledBack, Verified, CheckFails,
         BeginUninstall, ReloadNginx, Killed, Reboot, Finish
    <2>2. QED
      BY <1>2, <1>3, <1>4, <1>5, <2>1
  <1>8. CASE Panels
    BY <1>6, <1>8 DEF Panels, HandlerBegins, HandlerWrites, HandlerFails, Checkpoint
  <1>9. CASE Backups
    BY <1>1, <1>9 DEF Backups, BeginBackup, ReadEntry, EntryMissing, Archiving, ArchiveWritten,
       WriteArchiveFails,
       Begin, Finish
  <1>10. ASSUME NEW right \in BOOLEAN, Restores(right) PROVE Uninstall'
    BY <1>1, <1>10 DEF Restores, BeginRestore, Stops, Stopped, KilledAtStop, Decrypt, ExtractEntry,
       Extract,
       EntryRefused, ExtractFails, GiveUp, Extracted, Starts, BroughtUp, Begin, Finish
  <1>11. QED
    BY <1>1, <1>7, <1>8, <1>9, <1>10, NextIs

LEMMA ReinstallableStays ==
    ASSUME WellTyped, Ended, Uninstall, Reinstallable, BackupNext PROVE Reinstallable'
  <1> USE DEF units, web, past, panel, copies, host
  <1>1. SUFFICES ASSUME outcome' = "uninstalled", ~trouble', sites' \cap {"tls", "panel"} = {}
                 PROVE  Reinstallable'
    BY DEF Reinstallable
  <1>2. ReloadNginx \/ (Checkpoint /\ outcome' = outcome)
    <2>1. CASE HostStep
      BY <1>1, <2>1 DEF HostStep, InstallNext, BeginInstall, Begin, AccountKey, Order, OrderFails,
         ApplyStep, StepFails, UndoStep, UndoFails, RolledBack, Verified, CheckFails,
         BeginUninstall, StopServices, StopServicesFails, RemoveFiles, RemoveDirs, RemoveFails,
         Killed, Reboot,
         Finish, Ended
    <2>2. CASE Panels
      BY <1>1, <2>2 DEF Panels, HandlerBegins, HandlerWrites, HandlerFails, Checkpoint
    <2>3. CASE Backups
      BY <1>1, <2>3 DEF Backups, BeginBackup, ReadEntry, EntryMissing, Archiving, ArchiveWritten,
         WriteArchiveFails, Begin, Finish, Ended
    <2>4. ASSUME NEW right \in BOOLEAN, Restores(right) PROVE FALSE
      BY <1>1, <2>4 DEF Restores, BeginRestore, Stops, Stopped, KilledAtStop, Decrypt,
         ExtractEntry, Extract,
         EntryRefused, ExtractFails, GiveUp, Extracted, Starts, BroughtUp, Begin, Finish, Ended
    <2>5. QED
      BY <2>1, <2>2, <2>3, <2>4, NextIs
  <1>3. CASE Checkpoint /\ outcome' = outcome
    BY <1>1, <1>3 DEF Checkpoint, Reinstallable, PortsFree, Sound
  <1>4. CASE ReloadNginx
    <2>1. /\ at = "reload" /\ UNCHANGED <<disk, enabled, running, nginx, sites, trouble>>
          /\ served' = (IF nginx = "up" /\ Sound(sites, disk) THEN sites ELSE served)
      BY <1>4 DEF ReloadNginx, Calm
    <2>2. /\ enabled = {} /\ running = {} /\ "stub" \notin sites
          /\ disk \subseteq {"webroot", "snippet", "site tls", "site panel"}
      BY <1>1, <2>1 DEF Uninstall
    <2>3. sites \ {"default"} = {}
      BY <1>1, <2>1, <2>2 DEF WellTyped, HostTyped, Sites
    <2>4. Sound(sites, disk) /\ Sound(sites', disk')
      BY <2>1, <2>3 DEF Sound
    <2>5. "panel" \notin served'
      BY <2>1, <2>3, <2>4 DEF WellTyped, HostTyped
    <2>6. QED
      BY <2>1, <2>2, <2>4, <2>5 DEF Reinstallable, PortsFree
  <1>5. QED
    BY <1>2, <1>3, <1>4

-----------------------------------------------------------------------------
(* Install: what is on the disk has its directory. *)

LEMMA KeepsMore ==
    ASSUME NEW files, NEW more, Keeps(files), \A x \in more : Parents(x) \subseteq files \cup more
    PROVE  Keeps(files \cup more)
  BY KeepsIs

LEMMA KeepsLess ==
    ASSUME NEW files, NEW less, Keeps(files), less \subseteq files,
           \A d \in (files \ less) \cap DOMAIN Holds : Holds[d] \cap less = {}
    PROVE  Keeps(less)
  BY DEF Keeps

\* The file of a step that is undone is not a directory.
LEMMA UndoKeeps ==
    ASSUME NEW s \in Steps, Keeps(disk), Undo(s[1], s[2]) PROVE Keeps(disk')
  <1>1. CASE s[1] = "put"
    <2>1. disk' = disk \ {s[2]} /\ s[2] \notin DOMAIN Holds
      BY <1>1 DEF Undo, Steps, Puttable
    <2>2. QED
      BY <2>1, KeepsLess
  <1>2. CASE s[1] = "dir"
    <2>1. disk' = disk \/ (disk' = disk \ {s[2]} /\ Holds[s[2]] \cap disk = {})
      BY <1>2 DEF Undo
    <2>2. QED
      BY <2>1, KeepsLess
  <1>3. CASE s[1] \in {"enable", "start"}
    <2>1. disk' = disk \ {Unit[s[2]]} /\ s[2] \in Services
      BY <1>3, StepKinds DEF Undo
    <2>2. Unit[s[2]] \notin DOMAIN Holds
      BY <2>1, PuttableAre DEF Puttable
    <2>3. QED
      BY <2>1, <2>2, KeepsLess
  <1>4. CASE s[1] \notin {"put", "dir", "enable", "start"}
    BY <1>4 DEF Undo
  <1>5. QED
    BY <1>1, <1>2, <1>3, <1>4

LEMMA DoKeeps ==
    ASSUME NEW s \in Steps, Keeps(disk), Possible(s[1], s[2]), Do(s[1], s[2]),
           s[1] = "dir" => Parents(s[2]) \subseteq disk
    PROVE  Keeps(disk')
  <1>1. CASE s[1] \in {"put", "dir"}
    <2>1. disk' = disk \cup {s[2]} /\ Parents(s[2]) \subseteq disk
      BY <1>1 DEF Do, Possible
    <2>2. QED
      BY <2>1, KeepsMore
  <1>2. CASE s[1] \notin {"put", "dir"}
    BY <1>2 DEF Do
  <1>3. QED
    BY <1>1, <1>2

\* A directory of the plan is made in one that is there.
LEMMA DirsThere ==
    ASSUME WellTyped, Journalled, at = "steps", step <= Len(Plan(command)),
           Plan(command)[step][1] = "dir"
    PROVE  Parents(Plan(command)[step][2]) \subseteq disk
  <1> DEFINE s == Plan(command)[step]
  <1>1. command \in Choices /\ step \in 1..Len(Plan(command)) /\ s \in Steps
    <2>1. command \in Choices /\ step \in Nat /\ step \in 1..(Len(Plan(command)) + 1)
      BY DEF WellTyped, HostTyped, StepTyped
    <2>2. Len(Plan(command)) \in Nat
      BY <2>1, PlanTyped
    <2>3. step \in 1..Len(Plan(command))
      BY <2>1, <2>2
    <2>4. QED
      BY <2>1, <2>3, InOrder
  <1>2. s = Dir(s[2])
    BY <1>1, StepKinds DEF Dir
  <1>3. Parents(s[2]) \subseteq Brought(command, step - 1)
    BY <1>1, <1>2, DirsFirst
  <1>4. Brought(command, step - 1) \subseteq disk
    BY DEF Journalled, Installing, Done
  <1>5. QED
    BY <1>3, <1>4

LEMMA KeepsStays == ASSUME WellTyped, Journalled, Keeps(disk), BackupNext PROVE Keeps(disk')
  <1> USE DEF units, web, past, panel, copies, host
  <1>1. CASE UNCHANGED disk
    BY <1>1
  <1>2. CASE \E acme \in Acme, bridge \in Bridge, inPlace \in InPlace :
                 BeginInstall(acme, bridge, inPlace)
    <2>1. PICK more \in SUBSET {"tgproxy-cli", "tgproxy-panel"} : disk' = disk \cup more
      BY <1>2 DEF BeginInstall
    <2>2. \A x \in more : Parents(x) = {}
      BY <2>1, ParentsAre, ThingsAre DEF Services
    <2>3. QED
      BY <2>1, <2>2, KeepsMore
  <1>3. CASE AccountKey
    <2> DEFINE more == {"config", "certs", "account.key"}
    <2>1. disk' = disk \cup more
      BY <1>3 DEF AccountKey
    <2>2. \A x \in more : Parents(x) \subseteq more
      BY ParentsAre
    <2> HIDE DEF more
    <2>3. QED
      BY <2>1, <2>2, KeepsMore
  <1>4. CASE Order
    <2> DEFINE more == {"cert"}
    <2>1. disk' = disk \cup more /\ "certs" \in disk
      BY <1>4 DEF Order, Journalled, Installing
    <2>2. \A x \in more : Parents(x) \subseteq disk \cup more
      BY <2>1, ParentsAre
    <2> HIDE DEF more
    <2>3. QED
      BY <2>1, <2>2, KeepsMore
  <1>5. CASE (ApplyStep \/ StepFails) /\ ~UNCHANGED disk
    <2>1. /\ at = "steps" /\ step <= Len(Plan(command))
          /\ Possible(Plan(command)[step][1], Plan(command)[step][2])
          /\ Do(Plan(command)[step][1], Plan(command)[step][2])
      BY <1>5 DEF ApplyStep, StepFails
    <2>2. Plan(command)[step] \in Steps
      BY <2>1, AtWork DEF WellTyped
    <2>3. QED
      BY <2>1, <2>2, DirsThere, DoKeeps
  <1>6. CASE UndoStep
    <2>1. Plan(command)[step] \in Steps /\ Undo(Plan(command)[step][1], Plan(command)[step][2])
      BY <1>6, AtWork DEF UndoStep, ToUndo, WellTyped
    <2>2. QED
      BY <2>1, UndoKeeps
  <1>7. CASE (RemoveFiles \/ RemoveFails) /\ at = "files"
    <2>1. disk' \in {disk, disk \ Removed, disk \ (Removed \ {"site stub"})}
      BY <1>7 DEF RemoveFiles, RemoveFails
    <2>2. Removed \cap DOMAIN Holds = {}
      <3>1. \A s \in Services : Binary[s] \notin DOMAIN Holds /\ Unit[s] \notin DOMAIN Holds
        BY PuttableAre DEF Puttable
      <3>2. "tgproxy-cli" \notin DOMAIN Holds /\ "site stub" \notin DOMAIN Holds
        BY ThingsAre
      <3>3. QED
        BY <3>1, <3>2 DEF Removed
    <2>3. QED
      BY <2>1, <2>2, KeepsLess
  <1>8. CASE RemoveDirs
    <2>1. disk' = disk \ RemovedTree
      BY <1>8 DEF RemoveDirs, RemovedTree
    <2>2. \A d \in DOMAIN Holds : Holds[d] \cap disk' = {}
      <3>1. Holds["log"] = {} /\ Holds["webroot"] = {}
        BY DEF Holds
      <3>2. QED
        BY <2>1, <3>1, TreeHolds, ThingsAre
    <2>3. QED
      BY <2>1, <2>2, KeepsLess
  <1>9. CASE RemoveFails /\ at = "dirs"
    <2>1. disk' \in {disk, disk \ Within("config")}
      BY <1>9 DEF RemoveFails
    <2>2. /\ {"secrets", "certs"} \subseteq Holds["config"] \cap DOMAIN Holds
          /\ Holds["config"] \subseteq Within("config")
      BY ThingsAre DEF Holds, Within
    <2>3. Holds["secrets"] \subseteq Within("config") /\ Holds["certs"] \subseteq Within("config")
      BY <2>2 DEF Within
    <2>4. "stubroot" \notin Within("config")
      <3>1. \A d : d \in Holds["config"] \cap DOMAIN Holds => d \in {"secrets", "certs"}
        BY ThingsAre DEF Holds
      <3>2. "stubroot" \notin Holds["config"] \cup Holds["secrets"] \cup Holds["certs"]
        BY DEF Holds
      <3>3. QED
        BY <3>1, <3>2 DEF Within
    <2>5. Holds["log"] = {} /\ Holds["webroot"] = {}
      BY DEF Holds
    <2>6. \A d \in (disk \ disk') \cap DOMAIN Holds : Holds[d] \cap disk' = {}
      BY <2>1, <2>2, <2>3, <2>4, <2>5, ThingsAre
    <2>7. QED
      BY <2>1, <2>6, KeepsLess
  <1>10. CASE HandlerWrites \/ ExtractEntry \/ EntryRefused \/ ExtractFails
    <2>1. PICK f \in Archived, more \in SUBSET {Unit["singbox"], Binary["singbox"]} :
             disk' = disk \/ disk' = disk \cup ({f, "config"} \cup Parents(f) \cup more)
      <3>1. CASE HandlerWrites
        <4>1. change \in Seq(Archived) /\ change # <<>>
          BY <3>1 DEF HandlerWrites, WellTyped, FilesTyped
        <4>2. Head(change) \in Archived
          BY <4>1, HeadTailProperties
        <4> DEFINE f == Head(change)
                   m == IF f = "teleproxy.toml" /\ modes[Len(modes)]
                        THEN {Unit["singbox"], Binary["singbox"]} ELSE {}
        <4>3. disk' = disk \cup ({f, "config"} \cup Parents(f) \cup m)
          BY <3>1 DEF HandlerWrites
        <4>4. m \in SUBSET {Unit["singbox"], Binary["singbox"]}
          OBVIOUS
        <4> HIDE DEF f, m
        <4>5. QED
          BY <4>2, <4>3, <4>4 DEF f
      <3>2. CASE ExtractEntry \/ EntryRefused \/ ExtractFails
        <4>1. step \in 1..6
          <5>1. at = "extract" /\ step <= Len(Entries)
            BY <3>2 DEF ExtractEntry, EntryRefused, ExtractFails, GiveUp
          <5>2. step \in 1..(Len(Entries) + 1) /\ Len(Entries) = 6
            BY <5>1, EntriesAre DEF WellTyped, StepTyped
          <5>3. QED
            BY <5>1, <5>2
        <4>2. Entries[step] \in Archived
          BY <4>1, EntriesAre
        <4>3. \/ disk' = disk
              \/ disk' = disk \cup ({Entries[step], "config"} \cup Parents(Entries[step]) \cup {})
          BY <3>2 DEF ExtractEntry, Extract, EntryRefused, ExtractFails
        <4>4. QED
          BY <4>2, <4>3
      <3>3. QED
        BY <1>10, <3>1, <3>2
    <2> DEFINE all == {f, "config"} \cup Parents(f) \cup more
    <2>2. Parents(f) \subseteq {"config", "secrets", "certs", "stubroot"}
      BY ParentsAre
    <2>3. \A x \in Parents(f) : Parents(x) \subseteq {"config"}
      BY <2>2, ParentsAre
    <2>4. \A x \in more : Parents(x) = {}
      BY ParentsAre DEF Services
    <2>5. \A x \in all : Parents(x) \subseteq all
      BY <2>3, <2>4, ParentsAre
    <2> HIDE DEF all
    <2>6. Keeps(disk \cup all)
      BY <2>5, KeepsMore
    <2>7. QED
      BY <2>1, <2>6 DEF all
  <1>11. QED
    <2>1. CASE HostStep
      <3>1. \/ UNCHANGED disk \/ AccountKey \/ Order \/ ApplyStep \/ StepFails \/ UndoStep
            \/ ((RemoveFiles \/ RemoveFails) /\ at = "files") \/ RemoveDirs
            \/ (RemoveFails /\ at = "dirs")
            \/ \E acme \in Acme, bridge \in Bridge, inPlace \in InPlace :
                   BeginInstall(acme, bridge, inPlace)
        BY <2>1 DEF HostStep, InstallNext, OrderFails, UndoFails, RolledBack, Verified, CheckFails,
           BeginUninstall, StopServices, StopServicesFails, RemoveFiles, RemoveFails, ReloadNginx, Killed, Reboot
      <3>2. QED
        BY <1>1, <1>2, <1>3, <1>4, <1>5, <1>6, <1>7, <1>8, <1>9, <3>1
    <2>2. CASE HandlerBegins \/ HandlerFails \/ Checkpoint
      BY <1>1, <2>2 DEF HandlerBegins, HandlerFails, Checkpoint
    <2>3. CASE Backups
      BY <1>1, <2>3 DEF Backups, BeginBackup, ReadEntry, EntryMissing, Archiving, ArchiveWritten,
         WriteArchiveFails
    <2>4. ASSUME NEW right \in BOOLEAN, Restores(right) PROVE Keeps(disk')
      <3>1. UNCHANGED disk \/ ExtractEntry \/ EntryRefused \/ ExtractFails
        BY <2>4 DEF Restores, BeginRestore, Stops, Stopped, KilledAtStop, Decrypt, Extracted,
           Starts, BroughtUp
      <3>2. QED
        BY <1>1, <1>10, <3>1
    <2>5. QED
      BY <1>10, <2>1, <2>2, <2>3, <2>4, NextIs DEF Panels

-----------------------------------------------------------------------------
(* Install: the journal accounts for what is there. *)

LEMMA AtInstall ==
    ASSUME WellTyped, Journalled, Installing
    PROVE  /\ command \in Choices /\ Len(Plan(command)) \in Nat /\ Len(Plan(command)) >= 12
           /\ step \in Nat /\ Done \in Nat /\ Done + 1 \in 1..Len(Plan(command))
           /\ at # "undo" => step \in 1..Len(Plan(command)) /\ Done = step - 1
           /\ at \in {"account", "order"} => step = 1 /\ Done = 0
           /\ at = "undo" => Done = step
           /\ at = "undo" /\ step > 0 => step \in 1..Len(Plan(command))
  <1>1. command \in Choices
    BY DEF WellTyped, HostTyped
  <1>2. Len(Plan(command)) \in Nat /\ Len(Plan(command)) >= 12
    BY <1>1, PlanTyped, PlanOrdered DEF Ordered
  <1> DEFINE n == Len(Plan(command))
  <1>3. /\ step \in Nat /\ (at = "steps" => step \in 1..(n + 1) /\ step <= n)
        /\ (at \in {"account", "order"} => step = 1)
        /\ (at = "undo" => step < n) /\ at \in {"account", "order", "undo", "steps"}
    BY DEF WellTyped, StepTyped, Installing, Journalled
  <1>4. n \in Nat /\ n >= 12
    BY <1>2
  <1> HIDE DEF n
  <1>5. Done = IF at = "undo" THEN step ELSE step - 1
    BY DEF Done
  <1>6. at # "undo" => step \in 1..n
    BY <1>3, <1>4
  <1>7. Done \in Nat /\ Done + 1 \in 1..n
    BY <1>3, <1>4, <1>5, <1>6
  <1>8. at \in {"account", "order"} => step = 1 /\ Done = 0
    BY <1>3, <1>5
  <1>9. at = "undo" => Done = step /\ (step > 0 => step \in 1..n)
    BY <1>3, <1>4, <1>5
  <1>10. QED
    BY <1>1, <1>2, <1>3, <1>5, <1>6, <1>7, <1>8, <1>9 DEF n

\* While the panel of an earlier install is at work there is none of this one.
LEMMA NoPanelYet ==
    ASSUME WellTyped, Journalled, Installing, ~partial PROVE "panel" \notin running
  <1>1. "panel" \in running => "panel" \in Started(command, Done)
    BY DEF Journalled, Journal
  <1> DEFINE n == Done + 1
  <1>2. command \in Choices /\ n \in 1..Len(Plan(command)) /\ n - 1 = Done
    BY AtInstall
  <1> HIDE DEF n
  <1>3. "panel" \notin Started(command, n - 1)
    BY <1>2, InOrder
  <1>4. QED
    BY <1>1, <1>2, <1>3

LEMMA BeginJournalled ==
    ASSUME WellTyped, Keeps(disk'), NEW acme \in Acme, NEW bridge \in Bridge, NEW inPlace \in InPlace,
           BeginInstall(acme, bridge, inPlace)
    PROVE  Journalled'
  <1> USE DEF units, web
  <1>1. /\ command'.acme = acme /\ step' = 1 /\ partial' = FALSE
        /\ at' = IF acme THEN "account" ELSE "steps"
        /\ UNCHANGED <<enabled, running, served>>
        /\ {"teleproxy", "panel"} \cap running = {} /\ "panel" \notin served
        /\ "config" \notin disk
    BY DEF BeginInstall, Begin, PortsFree
  <1>2. /\ found'.disk = disk' /\ found'.units = enabled \cup running
        /\ disk' \subseteq disk \cup {"tgproxy-cli", "tgproxy-panel"}
    BY DEF BeginInstall
  <1>3. Done' = 0
    BY <1>1 DEF Done
  <1>4. Brought(command', 0) = {} /\ Enabled(command', 0) = {} /\ Started(command', 0) = {}
    BY NothingDone
  <1>5. Journal'
    BY <1>1, <1>2, <1>3, <1>4 DEF Journal
  <1>6. acme \in BOOLEAN
    BY InstallAssumption
  <1>7. QED
    BY <1>1, <1>3, <1>4, <1>5, <1>6 DEF Journalled

LEMMA OrderJournalled ==
    ASSUME WellTyped, Journalled, AccountKey \/ Order PROVE Journalled'
  <1> USE DEF units, web, past
  <1>1. /\ Installing /\ at \in {"account", "order"} /\ at' \in {"order", "steps"}
        /\ at' = "order" => at = "account"
        /\ UNCHANGED <<enabled, running, served, command, step, found, partial>>
    BY DEF AccountKey, Order, Installing
  <1>2. command.acme /\ ~partial /\ Journal /\ step = 1 /\ Done = 0 /\ Done' = 0
    BY <1>1, AtInstall DEF Journalled, Done
  <1>3. /\ disk' \subseteq disk \cup Acquired(command)
        /\ at' = "order" => {"config", "certs"} \subseteq disk'
        /\ at' = "steps" => "cert" \in disk'
    BY <1>1, <1>2 DEF AccountKey, Order, Acquired
  <1>4. Journal'
    BY <1>1, <1>2, <1>3 DEF Journal
  <1>5. Brought(command, 0) = {}
    BY NothingDone
  <1>6. QED
    BY <1>1, <1>2, <1>3, <1>4, <1>5 DEF Journalled

\* Without a certificate on the disk no site of the panel is served.
LEMMA NoPanelSite ==
    ASSUME WellTyped, Journalled, Installing, ~partial, ~command.acme, at = "steps",
           Sound(sites, disk)
    PROVE  "panel" \notin sites
  <1>1. SUFFICES "cert" \notin disk
    BY DEF Sound
  <1>2. Journal
    BY DEF Journalled
  <1>3. "cert" \notin Brought(command, Done)
    <2>1. command \in Choices /\ step \in 1..Len(Plan(command)) /\ Done = step - 1
      BY AtInstall
    <2>2. QED
      BY <2>1, InOrder
  <1>4. "cert" \notin found.disk
    <2>1. \A x \in found.disk : Parents(x) \subseteq found.disk
      BY <1>2, KeepsIs DEF Journal
    <2>2. QED
      BY <1>2, <2>1, ParentsAre DEF Journal
  <1>5. QED
    BY <1>2, <1>3, <1>4 DEF Journal, Acquired

LEMMA ApplyJournalled ==
    ASSUME WellTyped, Journalled, ApplyStep PROVE Journalled'
  <1> USE DEF units, web, past
  <1> DEFINE s == Plan(command)[step]
  <1>1. /\ at = "steps" /\ at' = "steps" /\ step <= Len(Plan(command)) /\ step' = step + 1
        /\ UNCHANGED <<command, found, partial>>
        /\ Possible(s[1], s[2]) /\ Do(s[1], s[2])
    BY DEF ApplyStep
  <1>2. Installing
    BY <1>1 DEF Installing
  <1>3. /\ command \in Choices /\ step \in 1..Len(Plan(command)) /\ Done = step - 1 /\ Done' = step
        /\ step \in Nat
    BY <1>1, <1>2, AtInstall DEF Done
  <1>4. /\ ~partial /\ Journal /\ Brought(command, step - 1) \subseteq disk
        /\ command.acme => "cert" \in disk
    BY <1>1, <1>2, <1>3 DEF Journalled
  <1>5. s \in Steps
    BY <1>3, InOrder
  <1>6. /\ s[1] \in {"put", "dir", "enable", "start", "site", "nosite", "apt", "reload"}
        /\ s = <<s[1], s[2]>>
        /\ s[1] \in {"put", "dir"} => s[2] \in Things
        /\ s[1] \in {"enable", "start"} => s[2] \in Services
    BY <1>5, StepKinds
  <1>7. /\ \A x \in Things : x \in Brought(command, step) <=>
               x \in Brought(command, step - 1) \/ s \in {Put(x), Dir(x)}
        /\ \A x \in Services : x \in Enabled(command, step) <=>
               x \in Enabled(command, step - 1) \/ s = <<"enable", x>>
        /\ \A x \in Services : x \in Started(command, step) <=>
               x \in Started(command, step - 1) \/ s = <<"start", x>>
        /\ Brought(command, step) \subseteq Things
        /\ Brought(command, step - 1) \subseteq Things
        /\ Enabled(command, step - 1) \subseteq Services
        /\ Started(command, step - 1) \subseteq Services
    BY <1>3, OneMore
  <1>8. /\ disk \subseteq found.disk \cup Acquired(command) \cup Brought(command, step - 1)
        /\ enabled \subseteq found.units \cup Enabled(command, step - 1)
        /\ running \subseteq found.units \cup Started(command, step - 1)
        /\ {"teleproxy", "panel"} \cap running \subseteq Started(command, step - 1)
        /\ Keeps(found.disk) /\ "config" \notin found.disk
        /\ command.acme \/ "panel" \notin served
    BY <1>3, <1>4 DEF Journal
  <1>9. command.acme \/ "panel" \notin served'
    <2>1. CASE s[1] = "reload" /\ ~command.acme
      <3>1. Sound(sites, disk) /\ served' = sites
        BY <1>1, <2>1 DEF Possible, Do
      <3>2. QED
        BY <1>1, <1>2, <1>4, <2>1, <3>1, NoPanelSite
    <2>2. CASE s[1] # "reload"
      <3>1. served' \in {served, {"default"}}
        BY <1>1, <2>2 DEF Do
      <3>2. QED
        BY <1>8, <3>1
    <2>3. QED
      BY <2>1, <2>2
  <1> HIDE DEF s
  <1>10. \A x : Put(x) = <<"put", x>> /\ Dir(x) = <<"dir", x>>
    BY DEF Put, Dir
  <1>11. /\ disk' = (IF s[1] \in {"put", "dir"} THEN disk \cup {s[2]} ELSE disk)
         /\ enabled' = (IF s[1] = "enable" THEN enabled \cup {s[2]} ELSE enabled)
         /\ running' = (IF s[1] = "start" THEN running \cup {s[2]} ELSE running)
    BY <1>1 DEF Do
  <1>12. /\ Brought(command, step) \subseteq disk'
         /\ disk' \subseteq found.disk \cup Acquired(command) \cup Brought(command, step)
    <2>1. CASE s[1] \in {"put", "dir"}
      <3>1. disk' = disk \cup {s[2]} /\ s \in {Put(s[2]), Dir(s[2])} /\ s[2] \in Things
        BY <1>6, <1>10, <1>11, <2>1
      <3>2. Brought(command, step) = Brought(command, step - 1) \cup {s[2]}
        <4>1. \A x : s \in {Put(x), Dir(x)} <=> x = s[2]
          BY <1>10, <3>1
        <4>2. QED
          BY <1>7, <3>1, <4>1
      <3>3. QED
        BY <1>4, <1>8, <3>1, <3>2
    <2>2. CASE s[1] \notin {"put", "dir"}
      <3>1. Brought(command, step) = Brought(command, step - 1)
        <4>1. \A x : s \notin {Put(x), Dir(x)}
          BY <1>10, <2>2
        <4>2. QED
          BY <1>7, <4>1
      <3>2. QED
        BY <1>4, <1>8, <1>11, <2>2, <3>1
    <2>3. QED
      BY <2>1, <2>2
  <1>13. enabled' \subseteq found.units \cup Enabled(command, step)
    BY <1>6, <1>7, <1>8, <1>11
  <1>14. /\ running' \subseteq found.units \cup Started(command, step)
         /\ {"teleproxy", "panel"} \cap running' \subseteq Started(command, step)
    BY <1>6, <1>7, <1>8, <1>11
  <1>15. Journal'
    BY <1>1, <1>3, <1>8, <1>9, <1>12, <1>13, <1>14 DEF Journal
  <1>16. disk \subseteq disk'
    BY <1>11
  <1>17. QED
    BY <1>1, <1>3, <1>4, <1>12, <1>15, <1>16 DEF Journalled

LEMMA FailJournalled ==
    ASSUME WellTyped, Journalled, StepFails PROVE Journalled'
  <1> USE DEF units, web
  <1>1. /\ at = "steps" /\ at' = "undo" /\ step <= Len(Plan(command)) /\ step' = step - 1
        /\ UNCHANGED <<command, found>>
    BY DEF StepFails
  <1>2. Installing
    BY <1>1 DEF Installing
  <1>3. /\ step \in 1..Len(Plan(command)) /\ Done = step - 1 /\ Done' = step - 1 /\ step \in Nat
        /\ Len(Plan(command)) \in Nat
    BY <1>1, <1>2, AtInstall DEF Done
  <1>4. step' < Len(Plan(command))
    BY <1>1, <1>3
  <1>5. ~partial /\ Journal
    BY <1>1, <1>2 DEF Journalled
  <1>6. ASSUME ~partial' PROVE Journal'
    <2>1. UNCHANGED <<disk, enabled, running, served>>
      BY <1>6 DEF StepFails
    <2>2. QED
      BY <1>1, <1>3, <1>5, <2>1 DEF Journal
  <1>7. QED
    BY <1>1, <1>4, <1>6 DEF Journalled

LEMMA UndoJournalled ==
    ASSUME WellTyped, Journalled, UndoStep PROVE Journalled'
  <1> USE DEF units, web
  <1> DEFINE s == Plan(command)[step]
  <1>1. /\ at = "undo" /\ at' = "undo" /\ step > 0 /\ step' = step - 1
        /\ UNCHANGED <<command, found, partial>> /\ Undo(s[1], s[2])
    BY DEF UndoStep, ToUndo
  <1>2. Installing
    BY <1>1 DEF Installing
  <1>3. /\ command \in Choices /\ step \in 1..Len(Plan(command)) /\ Done = step /\ Done' = step - 1
        /\ step \in Nat /\ Len(Plan(command)) \in Nat /\ step < Len(Plan(command))
    BY <1>1, <1>2, AtInstall DEF Done, Journalled
  <1>4. step' < Len(Plan(command))
    BY <1>1, <1>3
  <1>5. SUFFICES ASSUME ~partial PROVE Journal'
    BY <1>1, <1>4 DEF Journalled
  <1>6. /\ disk \subseteq found.disk \cup Acquired(command) \cup Brought(command, step)
        /\ enabled \subseteq found.units \cup Enabled(command, step)
        /\ running \subseteq found.units \cup Started(command, step)
        /\ {"teleproxy", "panel"} \cap running \subseteq Started(command, step)
        /\ Keeps(found.disk) /\ "config" \notin found.disk
        /\ command.acme \/ "panel" \notin served
    BY <1>2, <1>3, <1>5 DEF Journalled, Journal
  <1>7. s \in Steps
    BY <1>3, InOrder
  <1>8. /\ \A x \in Things : x \in Brought(command, step) <=>
               x \in Brought(command, step - 1) \/ s \in {Put(x), Dir(x)}
        /\ \A x \in Services : x \in Enabled(command, step) <=>
               x \in Enabled(command, step - 1) \/ s = <<"enable", x>>
        /\ \A x \in Services : x \in Started(command, step) <=>
               x \in Started(command, step - 1) \/ s = <<"start", x>>
        /\ Brought(command, step) \subseteq Things
        /\ Enabled(command, step) \subseteq Services
        /\ Started(command, step) \subseteq Services
    BY <1>3, OneMore
  <1>9. /\ enabled' = (IF s[1] \in {"enable", "start"} THEN enabled \ {s[2]} ELSE enabled)
        /\ running' = (IF s[1] \in {"enable", "start"} THEN running \ {s[2]} ELSE running)
        /\ disk' \subseteq disk /\ (s[1] = "put" => s[2] \notin disk')
        /\ s[1] = "dir" => s[2] \notin disk' \/ Holds[s[2]] \cap disk # {}
        /\ served' = served
    BY <1>1 DEF Undo
  <1>10. \A d : s = Dir(d) => d \in DOMAIN Holds /\ Holds[d] \cap Brought(command, step) = {}
    BY <1>3, DirsFirst
  <1> HIDE DEF s
  <1>11. \A x : Put(x) = <<"put", x>> /\ Dir(x) = <<"dir", x>>
    BY DEF Put, Dir
  <1>12. ASSUME NEW x \in disk'
         PROVE  x \in found.disk \cup Acquired(command) \cup Brought(command, step - 1)
    <2>1. SUFFICES ASSUME x \in Brought(command, step), s \in {Put(x), Dir(x)}
                   PROVE  x \in found.disk \cup Acquired(command)
      BY <1>6, <1>8, <1>9, <1>12
    <2>2. s = Dir(x) /\ s[1] = "dir" /\ s[2] = x
      BY <1>9, <1>11, <1>12, <2>1
    <2>3. PICK y \in Holds[x] : y \in disk
      BY <1>9, <1>12, <2>2
    <2>4. x \in DOMAIN Holds /\ y \notin Brought(command, step) /\ x \in Parents(y)
      BY <1>10, <2>2, <2>3, ParentsAre
    <2>5. y \in found.disk \cup Acquired(command)
      BY <1>6, <2>3, <2>4
    <2>6. CASE y \in found.disk
      BY <1>6, <2>4, <2>6, KeepsIs
    <2>7. CASE y \in Acquired(command)
      <3>1. y \in {"config", "certs", "account.key", "cert"}
            /\ Acquired(command) = {"config", "certs", "account.key", "cert"}
        BY <2>7 DEF Acquired
      <3>2. QED
        BY <2>4, <3>1, ParentsAre
    <2>8. QED
      BY <2>5, <2>6, <2>7
  <1>13. enabled' \subseteq found.units \cup Enabled(command, step - 1)
    BY <1>6, <1>8, <1>9
  <1>14. /\ running' \subseteq found.units \cup Started(command, step - 1)
         /\ {"teleproxy", "panel"} \cap running' \subseteq Started(command, step - 1)
    BY <1>6, <1>8, <1>9
  <1>15. QED
    BY <1>1, <1>3, <1>6, <1>9, <1>12, <1>13, <1>14 DEF Journal

LEMMA JournalledStays ==
    ASSUME WellTyped, Journalled, Keeps(disk), BackupNext PROVE Journalled'
  <1> USE DEF units, web, past, panel, copies, host
  <1>1. CASE ~Installing'
    BY <1>1 DEF Journalled
  <1>2. ASSUME NEW acme \in Acme, NEW bridge \in Bridge, NEW inPlace \in InPlace,
               BeginInstall(acme, bridge, inPlace)
        PROVE  Journalled'
    BY <1>2, KeepsStays, BeginJournalled
  <1>3. CASE UndoFails
    <2>1. /\ at = "undo" /\ at' = "undo" /\ partial' /\ step' = step - 1 /\ command' = command
      BY <1>3 DEF UndoFails
    <2>2. step \in Nat /\ step < Len(Plan(command)) /\ Len(Plan(command)) \in Nat
      BY <2>1, AtInstall DEF Journalled, Installing
    <2>3. step' < Len(Plan(command))
      BY <2>1, <2>2
    <2>4. QED
      BY <2>1, <2>3 DEF Journalled
  <1>4. CASE HandlerBegins \/ HandlerFails \/ Checkpoint
    BY <1>4 DEF HandlerBegins, HandlerFails, Checkpoint, Journalled, Installing, Journal, Done
  <1>5. CASE HandlerWrites
    <2>1. UNCHANGED <<command, at, step, partial>> /\ "panel" \in running
      BY <1>5 DEF HandlerWrites
    <2>2. SUFFICES ASSUME Installing PROVE Journalled'
      BY <2>1 DEF Journalled, Installing
    <2>3. partial
      BY <2>1, <2>2, NoPanelYet
    <2>4. QED
      BY <2>1, <2>2, <2>3 DEF Journalled
  <1>6. CASE HostStep
    <2>1. \/ ~Installing' \/ AccountKey \/ Order \/ ApplyStep \/ StepFails \/ UndoStep \/ UndoFails
          \/ \E acme \in Acme, bridge \in Bridge, inPlace \in InPlace :
                 BeginInstall(acme, bridge, inPlace)
      BY <1>6 DEF HostStep, InstallNext, OrderFails, RolledBack, Verified, CheckFails,
         BeginUninstall, StopServices, StopServicesFails, RemoveFiles, RemoveDirs, RemoveFails,
         ReloadNginx, Killed,
         Reboot, Begin, Finish, Installing
    <2>2. QED
      BY <1>1, <1>2, <1>3, <2>1, OrderJournalled, ApplyJournalled, FailJournalled, UndoJournalled
  <1>7. CASE Backups
    BY <1>1, <1>7 DEF Backups, BeginBackup, ReadEntry, EntryMissing, Archiving, ArchiveWritten,
       WriteArchiveFails,
       Begin, Finish, Installing
  <1>8. ASSUME NEW right \in BOOLEAN, Restores(right) PROVE Journalled'
    BY <1>1, <1>8 DEF Restores, BeginRestore, Stops, Stopped, KilledAtStop, Decrypt, ExtractEntry,
       Extract,
       EntryRefused, ExtractFails, GiveUp, Extracted, Starts, BroughtUp, Begin, Finish, Installing
  <1>9. QED
    BY <1>4, <1>5, <1>6, <1>7, <1>8, NextIs DEF Panels

-----------------------------------------------------------------------------
(* Install: an install fails for a reason, and leaves nothing. *)

LEMMA SoundMore ==
    ASSUME NEW enabledSites, NEW files, NEW more, files \subseteq more, Sound(enabledSites, files)
    PROVE  Sound(enabledSites, more)
  BY DEF Sound

\* When nothing has failed the next step of a plan finds what it needs.
LEMMA NextPossible ==
    ASSUME WellTyped, Journalled, Provided, at = "steps", step <= Len(Plan(command)),
           ~trouble, found.sound, command.acme => found.port80
    PROVE  Possible(Plan(command)[step][1], Plan(command)[step][2])
  <1> DEFINE s == Plan(command)[step]
  <1>1. Installing
    BY DEF Installing
  <1>2. /\ command \in Choices /\ step \in 1..Len(Plan(command)) /\ Done = step - 1 /\ step \in Nat
    BY <1>1, AtInstall
  <1>3. /\ Brought(command, step - 1) \subseteq disk
        /\ step - 1 > 0 => nginx = "up"
        /\ Sound(sites, disk)
    BY <1>1, <1>2 DEF Journalled, Provided
  <1>4. /\ s \in Steps /\ Needed(s) \subseteq Brought(command, step - 1)
        /\ step >= 8 => DOMAIN Holds \subseteq Brought(command, step - 1)
        /\ s[1] = "put" => step >= 8
        /\ step = 1 => s = <<"apt", "nginx">>
    BY <1>2, InOrder
  <1> HIDE DEF s
  <1>5. CASE s[1] = "put"
    <2>1. Parents(s[2]) \subseteq disk
      BY <1>3, <1>4, <1>5 DEF Parents
    <2>2. QED
      BY <1>5, <2>1 DEF Possible, s
  <1>6. CASE s[1] \in {"enable", "start"}
    <2>1. Needed(s) \subseteq disk
      BY <1>3, <1>4
    <2>2. Possible(s[1], s[2])
      BY <1>6, <2>1 DEF Needed, Possible
    <2>3. QED
      BY <2>2 DEF s
  <1>7. CASE s[1] = "reload"
    <2>1. step # 1
      BY <1>4, <1>7
    <2>2. nginx = "up"
      BY <1>2, <1>3, <2>1
    <2>3. Possible(s[1], s[2])
      BY <1>3, <1>7, <2>2 DEF Possible
    <2>4. QED
      BY <2>3 DEF s
  <1>8. CASE s[1] \notin {"put", "enable", "start", "reload"}
    <2>1. Possible(s[1], s[2])
      BY <1>8 DEF Possible
    <2>2. QED
      BY <2>1 DEF s
  <1>9. QED
    BY <1>5, <1>6, <1>7, <1>8

LEMMA ApplyProvided ==
    ASSUME WellTyped, Journalled, Provided, ApplyStep PROVE Provided'
  <1> USE DEF units, web, past
  <1> DEFINE s == Plan(command)[step]
  <1>1. /\ at = "steps" /\ at' = "steps" /\ step <= Len(Plan(command)) /\ step' = step + 1
        /\ UNCHANGED <<command, found, trouble>>
        /\ Possible(s[1], s[2]) /\ Do(s[1], s[2])
    BY DEF ApplyStep, Calm
  <1>2. Installing
    BY <1>1 DEF Installing
  <1>3. SUFFICES ASSUME ~trouble, found.sound, command.acme => found.port80
                 PROVE  nginx' = "up" /\ Sound(sites', disk')
    BY <1>1 DEF Provided
  <1>4. /\ command \in Choices /\ step \in 1..Len(Plan(command)) /\ Done = step - 1 /\ step \in Nat
    BY <1>1, <1>2, AtInstall
  <1>5. /\ Brought(command, step - 1) \subseteq disk /\ (command.acme => "cert" \in disk)
        /\ nginx # "down" /\ (step - 1 > 0 => nginx = "up") /\ Sound(sites, disk)
    BY <1>1, <1>2, <1>3, <1>4 DEF Journalled, Provided
  <1>6. /\ s \in Steps /\ Needed(s) \subseteq Brought(command, step - 1)
        /\ s[1] = "site" /\ s[2] # "stub" => command.acme
        /\ step = 1 => s = <<"apt", "nginx">>
    BY <1>4, InOrder
  <1>7. nginx \in {"absent", "up", "down"}
    BY DEF WellTyped, HostTyped
  <1> HIDE DEF s
  <1>8. disk \subseteq disk'
    BY <1>1 DEF Do
  <1>9. nginx' = "up"
    <2>1. CASE step = 1
      BY <1>1, <1>5, <1>6, <1>7, <2>1 DEF Do
    <2>2. CASE step # 1
      <3>1. nginx = "up"
        BY <1>4, <1>5, <2>2
      <3>2. QED
        BY <1>1, <3>1 DEF Do
    <2>3. QED
      BY <2>1, <2>2
  <1>10. Sound(sites', disk')
    <2>1. CASE s[1] = "site"
      <3>1. sites' = sites \cup {s[2]}
        BY <1>1, <2>1 DEF Do
      <3>2. SiteFile[s[2]] \in disk
        BY <1>5, <1>6, <2>1 DEF Needed
      <3>3. s[2] \in {"tls", "panel"} => "cert" \in disk
        BY <1>5, <1>6, <2>1
      <3>4. QED
        BY <1>5, <1>8, <3>1, <3>2, <3>3 DEF Sound
    <2>2. CASE s[1] # "site"
      <3>1. sites' \subseteq sites \cup {"default"}
        BY <1>1, <2>2 DEF Do
      <3>2. QED
        BY <1>5, <1>8, <3>1 DEF Sound
    <2>3. QED
      BY <2>1, <2>2
  <1>11. QED
    BY <1>9, <1>10

LEMMA ProvidedStays ==
    ASSUME WellTyped, Journalled, Provided, BackupNext PROVE Provided'
  <1> USE DEF units, web, past, panel, copies, host
  <1>1. CASE ~Installing'
    BY <1>1 DEF Provided
  <1>2. ASSUME NEW acme \in Acme, NEW bridge \in Bridge, NEW inPlace \in InPlace,
               BeginInstall(acme, bridge, inPlace)
        PROVE  Provided'
    <2>1. /\ command'.acme = acme /\ at' = (IF acme THEN "account" ELSE "steps") /\ step' = 1
          /\ UNCHANGED <<nginx, sites, served>> /\ disk \subseteq disk'
      BY <1>2 DEF BeginInstall, Begin
    <2>2. /\ found'.sound = (Sound(sites, disk) /\ nginx # "down") /\ found'.port80 = Port80Free
      BY <1>2 DEF BeginInstall
    <2>3. found'.sound => nginx' # "down" /\ Sound(sites', disk')
      BY <2>1, <2>2, SoundMore
    <2>4. found'.port80 => Port80Free'
      BY <2>1, <2>2 DEF Port80Free
    <2>5. at' # "undo" /\ Done' = 0 /\ (at' \in {"account", "order"} => acme)
      BY <2>1 DEF Done
    <2>6. QED
      BY <2>1, <2>3, <2>4, <2>5 DEF Provided
  <1>3. CASE AccountKey \/ Order \/ Panels
    <2>1. /\ UNCHANGED <<nginx, sites, served, command, step, found, trouble>> /\ disk \subseteq disk'
          /\ \/ at' = at
             \/ at = "account" /\ at' = "order"
             \/ at = "order" /\ at' = "steps"
      BY <1>3 DEF AccountKey, Order, Panels, HandlerBegins, HandlerWrites, HandlerFails,
         Checkpoint, Calm
    <2>2. SUFFICES ASSUME Installing', ~trouble, found.sound, command.acme => found.port80
                   PROVE  Provided'
      BY <2>1 DEF Provided
    <2>3. Installing
      BY <2>1, <2>2 DEF Installing
    <2>4. at # "undo" /\ nginx # "down" /\ (Done > 0 => nginx = "up") /\ Sound(sites, disk)
          /\ (at \in {"account", "order"} => Port80Free)
      BY <2>2, <2>3 DEF Provided
    <2>5. Sound(sites', disk') /\ (Port80Free' <=> Port80Free)
      BY <2>1, <2>4, SoundMore DEF Port80Free
    <2>6. at' # "undo" /\ Done' = Done
      BY <2>1, <2>4 DEF Done
    <2>7. QED
      BY <2>1, <2>4, <2>5, <2>6 DEF Provided
  <1>4. CASE StepFails
    <2>1. SUFFICES ASSUME ~trouble', found.sound, command.acme => found.port80 PROVE FALSE
      BY <1>4 DEF StepFails, Provided
    <2>2. /\ at = "steps" /\ step <= Len(Plan(command)) /\ ~trouble
          /\ ~Possible(Plan(command)[step][1], Plan(command)[step][2])
      BY <1>4, <2>1 DEF StepFails, Mishap, Calm
    <2>3. QED
      BY <2>1, <2>2, NextPossible
  <1>5. CASE UndoStep \/ UndoFails
    <2>1. at = "undo" /\ UNCHANGED <<command, found>> /\ (trouble' \/ UNCHANGED trouble)
      BY <1>5 DEF UndoStep, UndoFails, Mishap, Calm
    <2>2. QED
      BY <2>1 DEF Provided, Installing
  <1>6. CASE HostStep
    <2>1. \/ ~Installing' \/ AccountKey \/ Order \/ ApplyStep \/ StepFails \/ UndoStep \/ UndoFails
          \/ \E acme \in Acme, bridge \in Bridge, inPlace \in InPlace :
                 BeginInstall(acme, bridge, inPlace)
      BY <1>6 DEF HostStep, InstallNext, OrderFails, RolledBack, Verified, CheckFails,
         BeginUninstall, StopServices, StopServicesFails, RemoveFiles, RemoveDirs, RemoveFails,
         ReloadNginx, Killed,
         Reboot, Begin, Finish, Installing
    <2>2. QED
      BY <1>1, <1>2, <1>3, <1>4, <1>5, <2>1, ApplyProvided
  <1>7. CASE Backups
    BY <1>1, <1>7 DEF Backups, BeginBackup, ReadEntry, EntryMissing, Archiving, ArchiveWritten,
       WriteArchiveFails,
       Begin, Finish, Installing
  <1>8. ASSUME NEW right \in BOOLEAN, Restores(right) PROVE Provided'
    BY <1>1, <1>8 DEF Restores, BeginRestore, Stops, Stopped, KilledAtStop, Decrypt, ExtractEntry,
       Extract,
       EntryRefused, ExtractFails, GiveUp, Extracted, Starts, BroughtUp, Begin, Finish, Installing
  <1>9. QED
    BY <1>3, <1>6, <1>7, <1>8, NextIs

\* The ways to an outcome of an install that has failed.
LEMMA Failing ==
    ASSUME Ended, BackupNext, outcome' = "failed"
    PROVE  OrderFails \/ RolledBack \/ (Checkpoint /\ outcome = "failed")
  <1> USE DEF units, web, past, panel, copies, host
  <1>1. CASE HostStep
    BY <1>1 DEF HostStep, InstallNext, BeginInstall, Begin, AccountKey, Order, ApplyStep, StepFails,
       UndoStep, UndoFails, Verified, CheckFails, BeginUninstall, StopServices, StopServicesFails,
       RemoveFiles,
       RemoveDirs, RemoveFails, ReloadNginx, Killed, Reboot, Finish, Ended
  <1>2. CASE Panels
    BY <1>2 DEF Panels, HandlerBegins, HandlerWrites, HandlerFails, Checkpoint
  <1>3. CASE Backups
    BY <1>3 DEF Backups, BeginBackup, ReadEntry, EntryMissing, Archiving, ArchiveWritten,
       WriteArchiveFails,
       Begin, Finish, Ended
  <1>4. ASSUME NEW right \in BOOLEAN, Restores(right) PROVE FALSE
    BY <1>4 DEF Restores, BeginRestore, Stops, Stopped, KilledAtStop, Decrypt, ExtractEntry, Extract,
       EntryRefused, ExtractFails, GiveUp, Extracted, Starts, BroughtUp, Begin, Finish, Ended
  <1>5. QED
    BY <1>1, <1>2, <1>3, <1>4, NextIs

\* What has been undone to the end.
LEMMA NothingLeft ==
    ASSUME Journal, Done = 0
    PROVE  /\ disk \subseteq found.disk \cup Acquired(command)
           /\ enabled \cup running \subseteq found.units
           /\ ~command.acme => "config" \notin disk /\ PortsFree
  <1>1. /\ Brought(command, 0) = {} /\ Enabled(command, 0) = {} /\ Started(command, 0) = {}
    BY NothingDone
  <1>2. QED
    BY <1>1 DEF Journal, Acquired, PortsFree

LEMMA CleanStays ==
    ASSUME WellTyped, Ended, Journalled, RollbackClean, BackupNext PROVE RollbackClean'
  <1> USE DEF units, web, past, host
  <1>1. SUFFICES ASSUME outcome' = "failed", ~partial' PROVE RollbackClean'
    BY DEF RollbackClean
  <1>2. CASE Checkpoint /\ outcome = "failed"
    BY <1>1, <1>2 DEF Checkpoint, RollbackClean, PortsFree
  <1>3. CASE OrderFails \/ RolledBack
    <2>1. /\ Installing /\ (at \in {"account", "order"} \/ (at = "undo" /\ step = 0))
          /\ UNCHANGED <<disk, enabled, running, served, command, found, partial>>
      BY <1>3 DEF OrderFails, RolledBack, Finish, Installing
    <2>2. Journal /\ Done = 0
      BY <1>1, <2>1, AtInstall DEF Journalled
    <2>3. QED
      BY <2>1, <2>2, NothingLeft DEF RollbackClean, PortsFree, Acquired
  <1>4. QED
    BY <1>1, <1>2, <1>3, Failing

LEMMA ReasonStays ==
    ASSUME Ended, Provided, FailsForAReason, BackupNext PROVE FailsForAReason'
  <1> USE DEF units, web, past, host
  <1>1. SUFFICES ASSUME outcome' = "failed", ~trouble', found'.sound,
                        command'.acme => found'.port80
                 PROVE  FALSE
    BY DEF FailsForAReason
  <1>2. CASE Checkpoint /\ outcome = "failed"
    BY <1>1, <1>2 DEF Checkpoint, FailsForAReason
  <1>3. CASE OrderFails
    <2>1. at = "order" /\ ~Port80Free /\ UNCHANGED <<command, found, trouble>>
      BY <1>1, <1>3 DEF OrderFails, Mishap, Calm, Finish
    <2>2. QED
      BY <1>1, <2>1 DEF Provided, Installing
  <1>4. CASE RolledBack
    <2>1. at = "undo" /\ UNCHANGED <<command, found, trouble>>
      BY <1>4 DEF RolledBack, Calm, Finish
    <2>2. QED
      BY <1>1, <2>1 DEF Provided, Installing
  <1>5. QED
    BY <1>1, <1>2, <1>3, <1>4, Failing
LEMMA HostInvInit == ASSUME BackupInit PROVE HostInv
  <1>1. WellTyped /\ at = "idle" /\ outcome = "none" /\ disk = {} /\ archive = NoArchive
        /\ wal = <<>> /\ content = [f \in Archived |-> Torn] /\ reading = NoReading /\ modes = <<>>
    BY InitTyped DEF BackupInit, Init
  <1>2. Torn \in Made
    BY <1>1, LenProperties DEF WellTyped, FilesTyped, Made, Torn
  <1>3. Ended /\ Filed /\ Read /\ Archives /\ Undisturbed /\ Uninstall
    BY <1>1 DEF Ended, Filed, Read, Archives, Undisturbed, Restoring, Uninstall, NoArchive
  <1>4. Restore
    BY <1>1, <1>2 DEF Restore, Restoring, NoReading
  <1>5. RestoreInOrder /\ Reinstallable
    BY <1>1 DEF RestoreInOrder, RestoredAsArchived, GivenUpInOrder, Reinstallable
  <1>6. Keeps(disk) /\ Journalled /\ Provided
    BY <1>1 DEF Keeps, Journalled, Provided, Installing
  <1>7. RollbackClean /\ FailsForAReason
    BY <1>1 DEF RollbackClean, FailsForAReason
  <1>8. QED
    BY <1>1, <1>3, <1>4, <1>5, <1>6, <1>7 DEF HostInv

LEMMA HostInvNext == ASSUME HostInv, BackupNext PROVE HostInv'
  <1>1. WellTyped'
    BY NextTyped DEF HostInv
  <1>2. Ended' /\ Filed' /\ Read' /\ Archives' /\ Restore' /\ Undisturbed' /\ Uninstall'
    BY <1>1, EndedStays, FiledStays, ReadStays, ArchivesStay, RestoreStays, UndisturbedStays,
       UninstallStays DEF HostInv
  <1>3. RestoreInOrder' /\ Reinstallable'
    BY <1>1, RestoredStays, GivenUpStays, ReinstallableStays DEF HostInv, RestoreInOrder
  <1>4. Keeps(disk)' /\ Journalled' /\ Provided'
    BY KeepsStays, JournalledStays, ProvidedStays DEF HostInv
  <1>5. RollbackClean' /\ FailsForAReason'
    BY CleanStays, ReasonStays DEF HostInv
  <1>6. QED
    BY <1>1, <1>2, <1>3, <1>4, <1>5 DEF HostInv

LEMMA HostInvStutter == ASSUME HostInv, UNCHANGED vars PROVE HostInv'
  <1>1. WellTyped'
    BY StutterTyped DEF HostInv
  <1>2. UNCHANGED <<disk, enabled, running, nginx, sites, served, command, at, step, outcome, found,
                    trouble>>
    BY DEF vars, host, units, web, past
  <1>3. UNCHANGED <<modes, content, wal, live, change, archive, draft, truth, calm, reading>>
    BY DEF vars, panel, copies
  <1>4. State' = State /\ Made' = Made
    BY <1>3 DEF State, Committed, Made
  <1>5. Ended' /\ Filed' /\ Read' /\ Archives' /\ Uninstall'
    BY <1>2, <1>3 DEF HostInv, Ended, Filed, Read, Archives, Uninstall
  <1>6. Restore' /\ Undisturbed'
    <2>1. Restore'
      BY <1>2, <1>3, <1>4 DEF HostInv, Restore, Restoring
    <2>2. Progress => Progress'
      BY <1>2, <1>3, <1>4 DEF Progress, AsWritten, WrittenInOrder, Extracts
    <2>3. Undisturbed'
      BY <1>2, <1>3, <2>2 DEF HostInv, Undisturbed, Restoring
    <2>4. QED
      BY <2>1, <2>3
  <1>7. RestoreInOrder'
    <2>1. UNCHANGED <<outcome, reading, archive, disk, State, running, live, modes, content, found>>
      BY <1>2, <1>3, <1>4
    <2>2. RestoredAsArchived'
      BY <2>1 DEF HostInv, RestoreInOrder, RestoredAsArchived, Startable
    <2>3. GivenUpInOrder'
      BY <2>1 DEF HostInv, RestoreInOrder, GivenUpInOrder, WrittenInOrder, RunsAgain, Startable
    <2>4. QED
      BY <2>2, <2>3 DEF RestoreInOrder
  <1>8. Reinstallable'
    BY <1>2 DEF HostInv, Reinstallable, PortsFree, Sound
  <1>9. UNCHANGED partial
    BY DEF vars, host, past
  <1>10. Keeps(disk)' /\ Journalled' /\ Provided'
    BY <1>2, <1>9 DEF HostInv, Keeps, Journalled, Journal, Provided, Installing, Done, Port80Free,
       Sound
  <1>11. RollbackClean' /\ FailsForAReason'
    BY <1>2, <1>9 DEF HostInv, RollbackClean, FailsForAReason, PortsFree
  <1>12. QED
    BY <1>1, <1>5, <1>6, <1>7, <1>8, <1>10, <1>11 DEF HostInv

\* A restore that reports success has given back the state of the archive, if that was made at
\* rest and nothing was left running beside it, and one that reports failure has stopped at an
\* entry: those before it are as archived, those behind it untouched, and what ran before runs
\* again but for what systemctl did not start.  Whatever happened to the host before, and
\* whichever calls fail.
THEOREM RestoreInOrderHolds == Spec => []RestoreInOrder
  <1>1. BackupInit => HostInv
    BY HostInvInit
  <1>2. HostInv /\ [BackupNext]_vars => HostInv'
    BY HostInvNext, HostInvStutter
  <1>3. HostInv => RestoreInOrder
    BY DEF HostInv
  <1>4. QED
    BY <1>1, <1>2, <1>3, PTL DEF Spec

\* An install that has failed, and whose rollback left nothing behind, leaves nothing that was not
\* there: whatever the choices, the step that fails and what the attempts before have left.
THEOREM RollbackCleanHolds == Spec => []RollbackClean
  <1>1. BackupInit => HostInv
    BY HostInvInit
  <1>2. HostInv /\ [BackupNext]_vars => HostInv'
    BY HostInvNext, HostInvStutter
  <1>3. HostInv => RollbackClean
    BY DEF HostInv
  <1>4. QED
    BY <1>1, <1>2, <1>3, PTL DEF Spec

\* An install fails only for a reason, since its plan does everything before it is relied upon,
\* and after an uninstall without errors nothing is in the way of the next one.
THEOREM InstallRepeatsHolds == Spec => []InstallRepeats
  <1>1. BackupInit => HostInv
    BY HostInvInit
  <1>2. HostInv /\ [BackupNext]_vars => HostInv'
    BY HostInvNext, HostInvStutter
  <1>3. HostInv => InstallRepeats
    BY DEF HostInv, InstallRepeats
  <1>4. QED
    BY <1>1, <1>2, <1>3, PTL DEF Spec
=============================================================================
