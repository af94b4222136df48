------------------------------ MODULE Settings ------------------------------
(***************************************************************************)
(* The settings of the proxy: saved in the database by the panel, held in  *)
(* the panel's memory, rendered into teleproxy.toml and into the flags of  *)
(* the panel's unit, and in force once a service has read them.            *)
(*                                                                         *)
(* Two programs render: the panel, from its memory, whenever it saves the  *)
(* settings or reloads Teleproxy for a change of the users; and            *)
(* tgproxy-cli reconcile, from config.toml and the database.  The settings *)
(* stand for those Teleproxy only reads when it starts: the mask host for  *)
(* the ones the form requires (the port is another), the TLS backend for   *)
(* the ones it lets the administrator clear (the wildcard mask).  A reload *)
(* by signal leaves them alone.                                            *)
(***************************************************************************)
EXTENDS Site

CONSTANTS
    Hosts, Backends, Paths, \* values of mask_host, tls_backend, panel_path
    Nothing,             \* the empty string, one of the backends
    Unset,               \* no row in the settings table, no panel domain
    Config,              \* what config.toml says at first: [mask, backend, path]
    PanelDomain,         \* the domain with a certificate the panel has, or Unset
    StubBackend,         \* the TLS backend nginx is, with such a domain
    Services             \* teleproxy and, in Bridge mode, sing-box

Settings == [mask : Hosts, backend : Backends]
Flags == [mask : Hosts, backend : Backends, path : Paths]

ASSUME SettingsAssumption ==
    /\ Unset \notin Hosts \cup Backends \cup Paths
    /\ Nothing \in Backends /\ Nothing \notin Hosts \cup Paths
    /\ Config \in Flags /\ PanelDomain \in Hosts \cup {Unset} /\ StubBackend \in Backends
    /\ "teleproxy" \in Services /\ Services \subseteq {"teleproxy", "sing-box"}

VARIABLES
    config,     \* config.toml
    db,         \* the settings table
    mem,        \* BridgeCfg of the panel
    url,        \* the path the panel serves
    unit,       \* flags in tgproxy-panel.service
    loaded,     \* the flags systemd starts the panel with
    toml,       \* teleproxy.toml
    tp,         \* what the Teleproxy process has read
    svc,        \* services with a unit of this release: the file, what systemd loaded,
                \* what the service was started with
    job

vars == <<config, db, mem, url, unit, loaded, toml, tp, svc, job, siteVars, pc, steps, mishaps>>
panelVars == <<config, db, mem, url, unit, loaded, toml, tp, svc, job>>

PC == {"idle", "save_mask", "save_backend", "memory", "render", "signal",
       "rc_toml", "rc_teleproxy_unit", "rc_unit", "rc_singbox_unit", "rc_site", "rc_migrate", "rc_default",
       "rc_daemon_reload", "rc_teleproxy", "rc_panel", "rc_nginx",
       "download", "write", "reload", "remove", "restore"}

\* What a run keeps in local variables: the settings of the form, or the rendered
\* configuration and what it has changed.
Job == [signal : {"reload", "restart"}, flags : Flags, changed : SUBSET {"toml", "unit", "nginx"}]

NoJob == [signal |-> "reload", flags |-> Config, changed |-> {}]
Rendered(flags) == [mask |-> flags.mask, backend |-> flags.backend]

\* Seeded fault: a row that is missing overrides, too.
OverriddenAlways(flags) ==
    [mask |-> db.mask, backend |-> db.backend,
     path |-> IF db.path # Unset THEN db.path ELSE flags.path]

\* The rows of the settings table go before the flags, or before config.toml.  A row that is
\* empty counts as none, although the form saves one.
Overridden(flags) ==
    [k \in DOMAIN flags |-> IF db[k] \notin {Unset, Nothing} THEN db[k] ELSE flags[k]]

\* With a certificate for a domain of its own the proxy masks as that domain.
Domained(flags) ==
    IF PanelDomain = Unset THEN flags
    ELSE [flags EXCEPT !.mask = PanelDomain, !.backend = StubBackend]

\* A service that starts does so as systemd knows it.
Started(service) == [svc EXCEPT !.running = @ \cup ({service} \cap svc.loaded)]

Init ==
    /\ config = Config
    /\ db = [mask |-> Unset, backend |-> Unset, path |-> Unset]
    /\ unit = Domained(Config) /\ loaded = unit
    /\ mem = Rendered(unit) /\ url = unit.path
    /\ toml = Rendered(unit) /\ tp = toml
    /\ svc = [file |-> {}, loaded |-> {}, running |-> {}]
    /\ pc = [p \in Procs |-> "idle"] /\ job = [p \in Procs |-> NoJob]
    /\ steps = 0 /\ mishaps = {}
    /\ SiteInit

\* The run ends with an error; what it has done stays done.
Abort(p, m) ==
    /\ pc' = [pc EXCEPT ![p] = "idle"] /\ job' = [job EXCEPT ![p] = NoJob]
    /\ Note(m)

-----------------------------------------------------------------------------
(* The panel. *)

\* A valid form of the proxy settings arrives.
Save(h) ==
    /\ Begin(h, "save_mask")
    /\ \E s \in Settings :
          job' = [job EXCEPT ![h] = [signal |-> "restart", changed |-> {},
                     flags |-> [mask |-> s.mask, backend |-> s.backend, path |-> Config.path]]]
    /\ UNCHANGED <<siteVars, config, db, mem, url, unit, loaded, toml, tp, svc, mishaps>>

\* Each setting is a statement of its own.
SaveMask(h) ==
    /\ Goto(h, "save_mask", "save_backend")
    /\ db' = [db EXCEPT !.mask = job[h].flags.mask]
    /\ UNCHANGED <<siteVars, config, mem, url, unit, loaded, toml, tp, svc, job, steps, mishaps>>

SaveBackend(h) ==
    /\ Goto(h, "save_backend", "memory")
    /\ db' = [db EXCEPT !.backend = job[h].flags.backend]
    /\ UNCHANGED <<siteVars, config, mem, url, unit, loaded, toml, tp, svc, job, steps, mishaps>>

SaveFails(h) ==
    /\ MayFail /\ pc[h] \in {"save_mask", "save_backend"}
    /\ Abort(h, "db")
    /\ UNCHANGED <<siteVars, config, db, mem, url, unit, loaded, toml, tp, svc, steps>>

UpdateMemory(h) ==
    /\ Goto(h, "memory", "render")
    /\ mem' = Rendered(job[h].flags)
    /\ UNCHANGED <<siteVars, config, db, url, unit, loaded, toml, tp, svc, job, steps, mishaps>>

\* A change of the users, too, renders the whole file from memory.
ReloadUsers(h) ==
    /\ Begin(h, "render")
    /\ job' = [job EXCEPT ![h] = NoJob]
    /\ UNCHANGED <<siteVars, config, db, mem, url, unit, loaded, toml, tp, svc, mishaps>>

Render(h) ==
    /\ Goto(h, "render", "signal")
    /\ toml' = mem
    /\ UNCHANGED <<siteVars, config, db, mem, url, unit, loaded, tp, svc, job, steps, mishaps>>

\* Seeded fault: Teleproxy is reloaded, whatever has changed.
SignalReload(h) ==
    /\ pc[h] = "signal"
    /\ pc' = [pc EXCEPT ![h] = "idle"] /\ job' = [job EXCEPT ![h] = NoJob]
    /\ UNCHANGED <<siteVars, config, db, mem, url, unit, loaded, toml, tp, svc, steps, mishaps>>

Signal(h) ==
    /\ Goto(h, "signal", "idle")
    /\ IF job[h].signal = "restart" THEN tp' = toml /\ svc' = Started("teleproxy")
                                    ELSE UNCHANGED <<tp, svc>>
    /\ job' = [job EXCEPT ![h] = NoJob]
    /\ UNCHANGED <<siteVars, config, db, mem, url, unit, loaded, toml, steps, mishaps>>

ApplyFails(h) ==
    /\ MayFail /\ pc[h] \in {"render", "signal"}
    /\ Abort(h, "apply")
    /\ UNCHANGED <<siteVars, config, db, mem, url, unit, loaded, toml, tp, svc, steps>>

\* The form of the system settings: the path is only stored.
SavePath(h) ==
    /\ Begin(h, "idle")
    /\ \E path \in Paths : db' = [db EXCEPT !.path = path]
    /\ UNCHANGED <<siteVars, config, mem, url, unit, loaded, toml, tp, svc, job, mishaps>>

\* The panel starts with the flags of its unit and overwrites the settings, though not
\* the path, with what the database holds.  Requests under way are lost, and the listing.
PanelStarts ==
    /\ mem' = Rendered(Overridden(loaded))
    /\ url' = loaded.path
    /\ cache' = {} /\ apply' = [h \in Handlers |-> NoApply]
    /\ pc' = [p \in Procs |-> IF p \in Handlers THEN "idle" ELSE pc[p]]

RestartPanel ==
    /\ steps < MaxSteps /\ steps' = steps + 1
    /\ Active \cap Handlers = {} \/ MayCrash
    /\ PanelStarts
    /\ job' = [p \in Procs |-> IF p \in Handlers THEN NoJob ELSE job[p]]
    /\ mishaps' = IF Active \cap Handlers = {} THEN mishaps ELSE mishaps \cup {"crash"}
    /\ UNCHANGED <<web, sound, conf, serving, repo, config, db, unit, loaded, toml, tp, svc>>

\* The page with the system settings restarts Teleproxy, and so may the administrator.
RestartTeleproxy ==
    /\ steps < MaxSteps /\ steps' = steps + 1
    /\ tp' = toml /\ svc' = Started("teleproxy")
    /\ UNCHANGED <<siteVars, config, db, mem, url, unit, loaded, toml, pc, job, mishaps>>

\* A switch to Single mode and back to Bridge mode starts sing-box anew.
RestartSingbox ==
    /\ "sing-box" \in Services
    /\ steps < MaxSteps /\ steps' = steps + 1
    /\ svc' = Started("sing-box")
    /\ UNCHANGED <<siteVars, config, db, mem, url, unit, loaded, toml, tp, pc, job, mishaps>>

-----------------------------------------------------------------------------
(* tgproxy-cli reconcile. *)

EditConfig ==
    /\ steps < MaxSteps /\ steps' = steps + 1
    /\ config' \in Flags
    /\ UNCHANGED <<siteVars, db, mem, url, unit, loaded, toml, tp, svc, pc, job, mishaps>>

Reconcile ==
    /\ Begin(R, "rc_toml")
    /\ job' = [job EXCEPT ![R] = [NoJob EXCEPT !.flags = Domained(Overridden(config))]]
    /\ UNCHANGED <<siteVars, config, db, mem, url, unit, loaded, toml, tp, svc, mishaps>>

\* Seeded fault: the old file is read after the new one has been written.
CompareTooLate ==
    /\ Goto(R, "rc_toml", "rc_teleproxy_unit")
    /\ toml' = Rendered(job[R].flags)
    /\ UNCHANGED <<siteVars, config, db, mem, url, unit, loaded, tp, svc, job, steps, mishaps>>

WriteTOML ==
    /\ Goto(R, "rc_toml", "rc_teleproxy_unit")
    /\ toml' = Rendered(job[R].flags)
    /\ job' = [job EXCEPT ![R].changed = IF toml' = toml THEN @ ELSE @ \cup {"toml"}]
    /\ UNCHANGED <<siteVars, config, db, mem, url, unit, loaded, tp, svc, steps, mishaps>>

\* The units of the services are written whatever they were, and nobody notes a change.
WriteServiceUnit(service) ==
    /\ svc' = [svc EXCEPT !.file = @ \cup {service}]
    /\ UNCHANGED <<siteVars, config, db, mem, url, unit, loaded, toml, tp, job, steps, mishaps>>

WriteTeleproxyUnit == Goto(R, "rc_teleproxy_unit", "rc_unit") /\ WriteServiceUnit("teleproxy")

\* Only in Bridge mode.
WriteSingboxUnit ==
    /\ Goto(R, "rc_singbox_unit", "rc_site")
    /\ IF "sing-box" \in Services THEN WriteServiceUnit("sing-box")
                                  ELSE UNCHANGED <<siteVars, panelVars, steps, mishaps>>

WriteUnit ==
    /\ Goto(R, "rc_unit", "rc_singbox_unit")
    /\ unit' = job[R].flags
    /\ job' = [job EXCEPT ![R].changed = IF unit' = unit THEN @ ELSE @ \cup {"unit"}]
    /\ UNCHANGED <<siteVars, config, db, mem, url, loaded, toml, tp, svc, steps, mishaps>>

Changed(kind) == job' = [job EXCEPT ![R].changed = @ \cup {kind}]

\* A file is written if it differs, a link made if it is missing, in their order.
WriteSite ==
    /\ pc[R] = "rc_site" /\ Stale # {}
    /\ conf' = conf \cup {Min(Stale)} /\ Changed("nginx")
    /\ UNCHANGED <<web, sound, serving, repo, cache, apply, config, db, mem, url, unit, loaded, toml,
                   tp, svc, pc, steps, mishaps>>

SitesWritten ==
    /\ Stale = {} /\ Goto(R, "rc_site", "rc_migrate")
    /\ UNCHANGED <<siteVars, panelVars, steps, mishaps>>

\* MigrateStubIfLegacy: the page of an old installer is replaced.
Migrate ==
    /\ Goto(R, "rc_migrate", "rc_default")
    /\ IF Legacy THEN web' = With(web, Index, "default") /\ Changed("nginx")
                 ELSE UNCHANGED <<web, job>>
    /\ UNCHANGED <<sound, conf, serving, repo, cache, apply, config, db, mem, url, unit, loaded, toml,
                   tp, svc, steps, mishaps>>

\* os.WriteFile truncates the page.
MigrateFails ==
    /\ MayFail \/ MayCrash
    /\ pc[R] = "rc_migrate" /\ Legacy
    /\ web' = With(web, Index, Torn) /\ Abort(R, "reconcile")
    /\ UNCHANGED <<sound, conf, serving, repo, cache, apply, config, db, mem, url, unit, loaded, toml,
                   tp, svc, steps>>

RemoveDefault ==
    /\ Goto(R, "rc_default", "rc_daemon_reload")
    /\ conf' = conf \cup {0}
    /\ IF 0 \in conf THEN UNCHANGED job ELSE Changed("nginx")
    /\ UNCHANGED <<web, sound, serving, repo, cache, apply, config, db, mem, url, unit, loaded, toml,
                   tp, svc, steps, mishaps>>

\* An error is passed over.
RemoveDefaultFails ==
    /\ MayFail /\ Goto(R, "rc_default", "rc_daemon_reload")
    /\ UNCHANGED <<siteVars, panelVars, steps, mishaps>>

DaemonReload ==
    /\ Goto(R, "rc_daemon_reload", "rc_teleproxy")
    /\ loaded' = unit /\ svc' = [svc EXCEPT !.loaded = svc.file]
    /\ UNCHANGED <<siteVars, config, db, mem, url, unit, toml, tp, job, steps, mishaps>>

RestartTeleproxyIfChanged ==
    /\ Goto(R, "rc_teleproxy", "rc_panel")
    /\ IF "toml" \in job[R].changed THEN tp' = toml /\ svc' = Started("teleproxy")
                                     ELSE UNCHANGED <<tp, svc>>
    /\ UNCHANGED <<siteVars, config, db, mem, url, unit, loaded, toml, job, steps, mishaps>>

RestartPanelIfChanged ==
    /\ pc[R] = "rc_panel"
    /\ IF "unit" \in job[R].changed
       THEN /\ mem' = Rendered(Overridden(loaded)) /\ url' = loaded.path
            /\ cache' = {} /\ apply' = [h \in Handlers |-> NoApply]
            /\ pc' = [p \in Procs |-> IF p = R THEN "rc_nginx" ELSE "idle"]
            /\ job' = [p \in Procs |-> IF p = R THEN job[p] ELSE NoJob]
       ELSE Goto(R, "rc_panel", "rc_nginx") /\ UNCHANGED <<mem, url, cache, apply, job>>
    /\ UNCHANGED <<web, sound, conf, serving, repo, config, db, unit, loaded, toml, tp, svc, steps,
                   mishaps>>

\* RestartNginx: nginx -t comes first.
RestartNginxIfChanged ==
    /\ "nginx" \in job[R].changed => sound
    /\ Goto(R, "rc_nginx", "idle")
    /\ serving' = IF "nginx" \in job[R].changed THEN conf ELSE serving
    /\ job' = [job EXCEPT ![R] = NoJob]
    /\ UNCHANGED <<web, sound, conf, repo, cache, apply, config, db, mem, url, unit, loaded, toml,
                   tp, svc, steps, mishaps>>

\* Any write or systemctl call that fails ends the run, and so does a kill.
ReconcileFails ==
    /\ MayFail \/ MayCrash \/ (pc[R] = "rc_nginx" /\ "nginx" \in job[R].changed /\ ~sound)
    /\ pc[R] # "idle"
    /\ Abort(R, "reconcile")
    /\ UNCHANGED <<siteVars, config, db, mem, url, unit, loaded, toml, tp, svc, steps>>

Panel ==
    \E h \in Handlers :
        \/ Save(h) \/ SaveMask(h) \/ SaveBackend(h) \/ SaveFails(h) \/ UpdateMemory(h)
        \/ ReloadUsers(h) \/ Render(h) \/ Signal(h) \/ ApplyFails(h) \/ SavePath(h)

CLI ==
    \/ EditConfig \/ Reconcile \/ WriteTOML \/ WriteTeleproxyUnit \/ WriteUnit
    \/ WriteSingboxUnit \/ DaemonReload
    \/ WriteSite \/ SitesWritten \/ Migrate \/ MigrateFails
    \/ RemoveDefault \/ RemoveDefaultFails
    \/ RestartTeleproxyIfChanged \/ RestartPanelIfChanged \/ RestartNginxIfChanged
    \/ ReconcileFails

Next ==
    \/ Panel \/ CLI \/ RestartPanel \/ RestartTeleproxy \/ RestartSingbox
    \/ (SiteNext /\ UNCHANGED panelVars)

Spec == Init /\ [][Next]_vars

-----------------------------------------------------------------------------
(* Properties. *)

\* Every variable has the type its comment gives it.
TypeOK ==
    /\ config \in Flags
    /\ db \in [mask : Hosts \cup {Unset}, backend : Backends \cup {Unset}, path : Paths \cup {Unset}]
    /\ mem \in Settings /\ url \in Paths
    /\ unit \in Flags /\ loaded \in Flags
    /\ toml \in Settings /\ tp \in Settings
    /\ svc \in [file : SUBSET Services, loaded : SUBSET Services, running : SUBSET Services]
    /\ pc \in [Procs -> PC] /\ job \in [Procs -> Job] /\ SiteTypeOK
    /\ steps \in 0..MaxSteps /\ mishaps \subseteq {"db", "apply", "reconcile", "crash"}

\* The settings that no empty row stands for.
Held == {k \in {"mask", "backend"} : db[k] # Nothing}

\* One at a time and without faults, the two renderers never drift apart: whoever wrote
\* last, the file, the Teleproxy process and the panel's memory all have the saved settings,
\* but for one that was cleared (ClearedStays).  And whatever has failed before (rows saved
\* without their companions, a file written without a restart), a save that succeeds puts its
\* settings in force everywhere, the ones that were cleared, too.
SavedInForce ==
    /\ [](Active = {} /\ mishaps = {} =>
            \A k \in Held :
                mem[k] = Overridden(loaded)[k] /\ toml[k] = mem[k] /\ tp[k] = mem[k])
    /\ [][\A h \in Handlers :
            Signal(h) /\ job[h].signal = "restart" =>
                LET saved == Rendered(job[h].flags)
                IN  mem' = saved /\ toml' = saved /\ tp' = saved /\ Rendered(db') = saved]_vars

\* commands.go:176 says that a reconcile regenerates the files and reloads the services
\* they are for: when it ends well, systemd has every unit, the panel and nginx run with
\* theirs, and Teleproxy with its file in all that was not cleared, and with its unit if it
\* was restarted for the file; unless something before was cut short between a write and
\* the restart.
ReconcileApplies ==
    [][RestartNginxIfChanged /\ mishaps = {} =>
        /\ loaded' = unit' /\ url' = unit'.path /\ serving' = conf'
        /\ svc'.file = Services /\ svc'.loaded = Services
        /\ \A k \in Held : tp'[k] = toml'[k]
        /\ "toml" \in job[R].changed => tp' = toml' /\ "teleproxy" \in svc'.running]_vars

\* The same sentence of the units of the services: they run with them.
ServicesReloaded ==
    [][RestartNginxIfChanged /\ mishaps = {} => svc'.running = Services]_vars

\* After a restart the panel has what the form saved, empty or not.
ClearedStays ==
    [][RestartPanel => db.backend \in {Unset, mem'.backend}]_vars

\* The same of every reconcile that ends well: running it again repairs what a failed
\* one has left.
ReconcileRepairs ==
    [][RestartNginxIfChanged =>
        tp' = toml' /\ loaded' = unit' /\ url' = unit'.path]_vars

\* OPERATIONS.md:367 says that the settings in the database take precedence over
\* config.toml when the files are rendered.
DatabaseFirst ==
    [][WriteTOML => db.mask \in {Unset, toml'.mask}]_vars

\* The page of the system settings says that a new panel path needs a restart of the
\* panel: after one the panel serves the path that was saved.
PathAfterRestart ==
    [][RestartPanel => db.path \in {Unset, url'}]_vars
=============================================================================
