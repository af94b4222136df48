------------------------------ MODULE Install ------------------------------
(***************************************************************************)
(* tgproxy-cli install and uninstall on one host: the steps of the plan,   *)
(* the journal that a failed step rolls back, and what is left on the disk,*)
(* in systemd and in nginx for the next attempt.                           *)
(*                                                                         *)
(* A step either finds what it needs or fails; the disk, the network and   *)
(* systemctl may fail besides (mishaps), with or without having done what  *)
(* was asked.                                                              *)
(***************************************************************************)
EXTENDS Naturals, Sequences, FiniteSets

CONSTANTS
    Acme, Bridge, InPlace,  \* the choices of an install: a certificate for the panel's domain,
                    \* Bridge mode, the binaries already lying where they are installed
    Faults,         \* the kinds of mishaps that may happen
    MaxMishaps,     \* bound on the mishaps
    MaxCommands     \* bound on the commands and reboots

ASSUME InstallAssumption ==
    /\ Acme \subseteq BOOLEAN /\ Bridge \subseteq BOOLEAN /\ InPlace \subseteq BOOLEAN
    /\ Faults \subseteq {"step", "undo", "order", "check", "remove", "kill",
                         "archive", "large", "stop", "extract", "start"}
    /\ MaxMishaps \in Nat /\ MaxCommands \in Nat

VARIABLES
    disk,               \* the files and directories that exist
    enabled, running,   \* units
    nginx,              \* absent, up, or down after a boot with a broken configuration
    sites, served,      \* sites-enabled, and the sites nginx has loaded
    command,            \* the command at work, with the choices made in it
    at, step,           \* what it does next, and the index of its plan
    outcome,            \* how the last command ended
    found,              \* history: what it found when it began
    trouble, partial,   \* history: has there been a mishap in it, with remains?
    count, commands

units == <<enabled, running>>
web == <<nginx, sites, served>>
past == <<found, trouble, partial>>
host == <<disk, units, web, command, at, step, outcome, past, count, commands>>

Services == {"teleproxy", "panel", "singbox"}
Unit == [teleproxy |-> "teleproxy.service", panel |-> "tgproxy-panel.service",
         singbox |-> "sing-box.service"]
Binary == [teleproxy |-> "teleproxy", panel |-> "tgproxy-panel", singbox |-> "sing-box"]

Sites == {"default", "stub", "tls", "panel"}
SiteFile == [stub |-> "site stub", tls |-> "site tls", panel |-> "site panel"]

\* What the directories hold; secrets stands for nodes as well, cert for a pair.
Holds == [config   |-> {"secrets", "certs", "config.toml", "teleproxy.toml", "sing-box.json",
                        "panel.db"},
          secrets  |-> {"users.json", "outbounds.json"},
          certs    |-> {"account.key", "cert"},
          stubroot |-> {"index.html"},
          log      |-> {},
          webroot  |-> {}]

Within(d) == Holds[d] \cup (UNION {Holds[e] : e \in Holds[d] \cap DOMAIN Holds})
Things == DOMAIN Holds \cup (UNION {Holds[d] : d \in DOMAIN Holds})
          \cup {Unit[s] : s \in Services} \cup {Binary[s] : s \in Services}
          \cup {SiteFile[s] : s \in Sites \ {"default"}} \cup {"tgproxy-cli", "snippet"}

Nothing == [op |-> "none", acme |-> FALSE, bridge |-> FALSE, inPlace |-> FALSE]
Clean == [disk |-> {}, units |-> {}, sound |-> TRUE, port80 |-> TRUE]

Init ==
    /\ disk = {} /\ enabled = {} /\ running = {}
    /\ nginx = "absent" /\ sites = {} /\ served = {}
    /\ command = Nothing /\ at = "idle" /\ step = 0 /\ outcome = "none"
    /\ found = Clean /\ trouble = FALSE /\ partial = FALSE
    /\ count = 0 /\ commands = 0

\* nginx accepts its configuration: the enabled sites exist and so do their certificates.
Sound(enabledSites, files) ==
    \A s \in enabledSites \ {"default"} :
        SiteFile[s] \in files /\ (s \in {"tls", "panel"} => "cert" \in files)

Mishap(kind) == kind \in Faults /\ count < MaxMishaps /\ count' = count + 1 /\ trouble' = TRUE
Calm == UNCHANGED <<count, trouble>>

-----------------------------------------------------------------------------
(* The plan. *)

Put(x) == <<"put", x>>
Dir(d) == <<"dir", d>>
Start(s) == << <<"enable", s>>, <<"start", s>> >>
Reload == <<"reload", "nginx">>
Site(s) == <<Put(SiteFile[s]), <<"site", s>>, Reload>>

\* The panel's proxy goes before the last five steps, whatever they are.
WithProxy(steps) ==
    SubSeq(steps, 1, Len(steps) - 5) \o Site("panel") \o SubSeq(steps, Len(steps) - 4, Len(steps))

Plan(c) ==
    LET when(cond, steps) == IF cond THEN steps ELSE <<>>
        last == <<Put(Unit["panel"])>> \o Start("teleproxy")
                \o when(c.bridge, Start("singbox")) \o Start("panel")
    IN  << <<"apt", "nginx">>, Dir("config"), Dir("secrets"), Dir("log"), Dir("stubroot"),
           Dir("certs"), Dir("webroot"), Put("tgproxy-cli"), Put("tgproxy-panel"),
           Put("teleproxy"), Put("config.toml")>>
        \o when(c.bridge, <<Put("sing-box"), Put("outbounds.json"), Put("sing-box.json"),
                            Put(Unit["singbox"])>>)
        \o <<Put("teleproxy.toml"), Put("users.json"), Put("panel.db"), Put(Unit["teleproxy"])>>
        \o when(c.acme, <<Put("snippet")>>)
        \o <<Put(SiteFile["stub"]), <<"nosite", "default">>, <<"site", "stub">>, Reload,
             Put("index.html")>>
        \o when(c.acme, Site("tls"))
        \o (IF c.acme THEN WithProxy(last) ELSE last)

-----------------------------------------------------------------------------
(* One step: what it needs, and what it does. *)

Parents(x) == {d \in DOMAIN Holds : x \in Holds[d]}

Possible(kind, x) ==
    CASE kind = "put" -> Parents(x) \subseteq disk
      [] kind = "enable" -> Unit[x] \in disk
      [] kind = "start" -> {Unit[x], Binary[x]} \subseteq disk
      [] kind = "reload" -> nginx = "up" /\ Sound(sites, disk)
      [] OTHER -> TRUE

Do(kind, x) ==
    /\ disk' = IF kind \in {"put", "dir"} THEN disk \cup {x} ELSE disk
    /\ enabled' = IF kind = "enable" THEN enabled \cup {x} ELSE enabled
    /\ running' = IF kind = "start" THEN running \cup {x} ELSE running
    /\ CASE kind = "apt" /\ nginx = "absent" ->
                nginx' = "up" /\ sites' = {"default"} /\ served' = {"default"}
         [] kind = "site" -> sites' = sites \cup {x} /\ UNCHANGED <<nginx, served>>
         [] kind = "nosite" -> sites' = sites \ {x} /\ UNCHANGED <<nginx, served>>
         [] kind = "reload" -> served' = sites /\ UNCHANGED <<nginx, sites>>
         [] OTHER -> UNCHANGED web

\* Seeded fault: a unit is removed from the disk but stays enabled.
UndoKeepsEnabled(kind, x) ==
    /\ disk' = CASE kind = "put" -> disk \ {x}
                 [] kind = "dir" /\ Holds[x] \cap disk = {} -> disk \ {x}
                 [] kind \in {"enable", "start"} -> disk \ {Unit[x]}
                 [] OTHER -> disk
    /\ running' = IF kind \in {"enable", "start"} THEN running \ {x} ELSE running
    /\ sites' = IF kind = "site" THEN sites \ {x} ELSE sites
    /\ UNCHANGED <<enabled, nginx, served>>

\* A directory goes only when it is empty; a unit is stopped, disabled and removed.
Undo(kind, x) ==
    /\ disk' = CASE kind = "put" -> disk \ {x}
                 [] kind = "dir" /\ Holds[x] \cap disk = {} -> disk \ {x}
                 [] kind \in {"enable", "start"} -> disk \ {Unit[x]}
                 [] OTHER -> disk
    /\ enabled' = IF kind \in {"enable", "start"} THEN enabled \ {x} ELSE enabled
    /\ running' = IF kind \in {"enable", "start"} THEN running \ {x} ELSE running
    /\ sites' = IF kind = "site" THEN sites \ {x} ELSE sites
    /\ UNCHANGED <<nginx, served>>

-----------------------------------------------------------------------------
(* install *)

\* The preflight checks of the ports; those of the machine itself pass.
PortsFree == {"teleproxy", "panel"} \cap running = {} /\ "panel" \notin served
Port80Free == {"default", "stub"} \cap served = {}

Begin(c, first) ==
    /\ at = "idle" /\ commands < MaxCommands /\ commands' = commands + 1
    /\ command' = c /\ at' = first /\ step' = 1 /\ outcome' = "none"
    /\ trouble' = FALSE /\ partial' = FALSE /\ UNCHANGED count

Finish(how) == at' = "idle" /\ step' = 0 /\ outcome' = how /\ command' = command

\* The binaries may lie where they are to be installed.
BeginInstall(acme, bridge, inPlace) ==
    LET c == [op |-> "install", acme |-> acme, bridge |-> bridge, inPlace |-> inPlace]
        binaries == IF inPlace THEN {"tgproxy-cli", "tgproxy-panel"} ELSE {}
    IN  /\ "config" \notin disk /\ PortsFree
        /\ Begin(c, IF acme THEN "account" ELSE "steps")
        /\ disk' = disk \cup binaries
        /\ found' = [disk |-> disk \cup binaries, units |-> enabled \cup running,
                     port80 |-> Port80Free, sound |-> Sound(sites, disk) /\ nginx # "down"]
        /\ UNCHANGED <<units, web>>

\* The certificate comes before the plan; the key of the account is stored first.
AccountKey ==
    /\ at = "account" /\ at' = "order"
    /\ disk' = disk \cup {"config", "certs", "account.key"}
    /\ Calm /\ UNCHANGED <<units, web, command, step, outcome, found, partial, commands>>

Order ==
    /\ at = "order" /\ Port80Free /\ at' = "steps"
    /\ disk' = disk \cup {"cert"}
    /\ Calm /\ UNCHANGED <<units, web, command, step, outcome, found, partial, commands>>

OrderFails ==
    /\ at \in {"account", "order"} /\ Finish("failed")
    /\ IF at = "order" /\ ~Port80Free THEN Calm ELSE Mishap("order")
    /\ UNCHANGED <<disk, units, web, found, partial, commands>>

ApplyStep ==
    /\ at = "steps" /\ step <= Len(Plan(command))
    /\ LET s == Plan(command)[step] IN Possible(s[1], s[2]) /\ Do(s[1], s[2])
    /\ step' = step + 1
    /\ Calm /\ UNCHANGED <<command, at, outcome, past, commands>>

\* The step that fails is not in the journal: what it has done remains.
StepFails ==
    /\ at = "steps" /\ step <= Len(Plan(command))
    /\ LET s == Plan(command)[step]
       IN  IF Possible(s[1], s[2])
           THEN /\ Mishap("step")
                /\ \/ UNCHANGED <<disk, units, web, partial>>
                   \/ Do(s[1], s[2]) /\ partial' = TRUE
           ELSE Calm /\ UNCHANGED <<disk, units, web, partial>>
    /\ at' = "undo" /\ step' = step - 1
    /\ UNCHANGED <<command, outcome, found, commands>>

\* The last entry of the journal that has not been undone yet.
ToUndo == Plan(command)[step]

UndoStep ==
    /\ at = "undo" /\ step > 0 /\ step' = step - 1
    /\ Undo(ToUndo[1], ToUndo[2])
    /\ Calm /\ UNCHANGED <<command, at, outcome, found, partial, commands>>

\* An error is logged and the rollback goes on.
UndoFails ==
    /\ at = "undo" /\ step > 0 /\ step' = step - 1
    /\ Mishap("undo") /\ partial' = TRUE
    /\ UNCHANGED <<disk, units, web, command, at, outcome, found, commands>>

RolledBack ==
    /\ at = "undo" /\ step = 0 /\ Finish("failed")
    /\ Calm /\ UNCHANGED <<disk, units, web, found, partial, commands>>

Healthy == {"teleproxy", "panel"} \subseteq running /\ "stub" \in served

Verified ==
    /\ at = "steps" /\ step > Len(Plan(command)) /\ Healthy
    /\ Finish("installed")
    /\ Calm /\ UNCHANGED <<disk, units, web, found, partial, commands>>

CheckFails ==
    /\ at = "steps" /\ step > Len(Plan(command))
    /\ IF Healthy THEN Mishap("check") ELSE Calm
    /\ running' = running \ {"teleproxy", "panel"}
    /\ Finish("unhealthy")
    /\ UNCHANGED <<disk, enabled, web, found, partial, commands>>

-----------------------------------------------------------------------------
(* uninstall: every part is tried, whatever the ones before have come to. *)

BeginUninstall ==
    /\ disk # {}
    /\ Begin([Nothing EXCEPT !.op = "uninstall"], "services")
    /\ found' = [Clean EXCEPT !.disk = disk]
    /\ UNCHANGED <<disk, units, web>>

StopServices ==
    /\ at = "services" /\ at' = "files"
    /\ enabled' = {} /\ running' = {}
    /\ Calm /\ UNCHANGED <<disk, web, command, step, outcome, past, commands>>

\* What systemctl could not stop or disable goes on; the uninstall does too.
StopServicesFails ==
    /\ at = "services" /\ at' = "files" /\ Mishap("stop")
    /\ running' \in SUBSET running /\ enabled' \in SUBSET enabled
    /\ UNCHANGED <<disk, web, command, step, outcome, found, partial, commands>>

Removed == {"tgproxy-cli", "site stub"} \cup {Binary[s] : s \in Services}
           \cup {Unit[s] : s \in Services}

\* Seeded fault: the link in sites-enabled is forgotten.
RemoveFilesNotLink ==
    /\ at = "files" /\ at' = "dirs"
    /\ disk' = disk \ Removed
    /\ Calm /\ UNCHANGED <<units, web, command, step, outcome, past, commands>>

RemoveFiles ==
    /\ at = "files" /\ at' = "dirs"
    /\ disk' = disk \ Removed
    /\ sites' = sites \ {"stub"}
    /\ Calm /\ UNCHANGED <<units, nginx, served, command, step, outcome, past, commands>>

RemovedDirs == {"config", "log", "stubroot"}

RemoveDirs ==
    /\ at = "dirs" /\ at' = "reload"
    /\ disk' = disk \ (RemovedDirs \cup (UNION {Within(d) : d \in RemovedDirs}))
    /\ Calm /\ UNCHANGED <<units, web, command, step, outcome, past, commands>>

\* A failure is a warning; something may have been removed before it.
RemoveFails ==
    /\ Mishap("remove")
    /\ \/ at = "files" /\ at' = "dirs"
          /\ disk' \in {disk, disk \ (Removed \ {"site stub"})} /\ UNCHANGED sites
       \/ at = "dirs" /\ at' = "reload"
          /\ disk' \in {disk, disk \ Within("config")} /\ UNCHANGED sites
    /\ UNCHANGED <<units, nginx, served, command, step, outcome, found, partial, commands>>

ReloadNginx ==
    /\ at = "reload"
    /\ served' = IF nginx = "up" /\ Sound(sites, disk) THEN sites ELSE served
    /\ Finish("uninstalled")
    /\ Calm /\ UNCHANGED <<disk, units, nginx, sites, found, partial, commands>>

-----------------------------------------------------------------------------
(* The host. *)

Killed ==
    /\ at # "idle" /\ Mishap("kill") /\ Finish("killed")
    /\ UNCHANGED <<disk, units, web, found, partial, commands>>

Reboot ==
    /\ at = "idle" /\ commands < MaxCommands /\ commands' = commands + 1
    /\ running' = {s \in enabled : {Unit[s], Binary[s]} \subseteq disk}
    /\ nginx' = IF nginx = "absent" THEN "absent" ELSE IF Sound(sites, disk) THEN "up" ELSE "down"
    /\ served' = IF nginx' = "up" THEN sites ELSE {}
    /\ outcome' = "none"
    /\ Calm /\ UNCHANGED <<disk, enabled, sites, command, at, step, past>>

InstallNext ==
    \/ \E acme \in Acme, bridge \in Bridge, inPlace \in InPlace : BeginInstall(acme, bridge, inPlace)
    \/ AccountKey \/ Order \/ OrderFails
    \/ ApplyStep \/ StepFails \/ UndoStep \/ UndoFails \/ RolledBack
    \/ Verified \/ CheckFails
    \/ BeginUninstall \/ StopServices \/ StopServicesFails
    \/ RemoveFiles \/ RemoveDirs \/ RemoveFails \/ ReloadNginx
    \/ Killed \/ Reboot

-----------------------------------------------------------------------------
(* Properties. *)

HostTypeOK ==
    /\ disk \subseteq Things /\ enabled \subseteq Services /\ running \subseteq Services
    /\ nginx \in {"absent", "up", "down"} /\ (nginx = "up" \/ served = {})
    /\ sites \subseteq Sites /\ served \subseteq Sites
    /\ step \in 0..(Len(Plan(command)) + 1)
    /\ command.op \in {"none", "install", "uninstall", "backup", "restore"}
    /\ trouble \in BOOLEAN /\ partial \in BOOLEAN
    /\ count \in 0..MaxMishaps /\ commands \in 0..MaxCommands

\* A failed install whose last step and whose rollback left nothing behind leaves nothing
\* at all that was not there, no unit runs or starts at boot, and without a certificate
\* the next attempt gets past the checks: the journal is undone in the right order, every
\* kind of step by what undoes it.
RollbackClean ==
    outcome = "failed" /\ ~partial =>
        /\ disk \subseteq found.disk
                          \cup (IF command.acme THEN {"config", "certs", "account.key", "cert"}
                                                ELSE {})
        /\ enabled \cup running \subseteq found.units
        /\ ~command.acme => "config" \notin disk /\ PortsFree

\* On a host whose nginx is in order an install fails only if something goes wrong in it or
\* port 80 is taken when it needs it: the plan does everything before it is relied upon,
\* in every mode and with every insertion.
FailsForAReason ==
    outcome = "failed" => trouble \/ ~found.sound \/ (command.acme /\ ~found.port80)

\* After an uninstall without errors, unless sites with the panel's certificate were enabled,
\* nothing runs or starts, nginx would accept its configuration, and install begins anew.
Reinstallable ==
    outcome = "uninstalled" /\ ~trouble /\ sites \cap {"tls", "panel"} = {} =>
        /\ "config" \notin disk /\ PortsFree
        /\ enabled = {} /\ running = {}
        /\ Sound(sites, disk)
        /\ disk \subseteq {"webroot", "snippet", "site tls", "site panel"}

\* The two ways for an install to begin anew: its plan holds in every mode and with every
\* insertion, and an uninstall leaves nothing that is in its way.
InstallRepeats == FailsForAReason /\ Reinstallable

\* docs/OPERATIONS.md:424: uninstall removes the "nginx stub config".
StubConfigRemoved ==
    outcome = "uninstalled" /\ ~trouble =>
        sites \cap {"stub", "tls"} = {} /\ disk \cap {"site stub", "site tls"} = {}

\* installer.go:59: "previously-applied steps are rolled back": the host is as before.
RolledBackExactly ==
    outcome = "failed" /\ ~partial /\ ~command.acme => disk = found.disk

\* "already installed" (main.go:101) is said only if something is: a failed order of the
\* certificate does not keep the next attempt from beginning.
RetryAccepted == outcome = "failed" /\ ~partial => "config" \notin disk
=============================================================================
