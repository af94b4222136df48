--------------------------- MODULE SettingsProofs ---------------------------
(***************************************************************************)
(* Theorems about Settings and Site, for any settings, templates, requests *)
(* and numbers of steps.  Types hold whatever overlaps.  That the settings *)
(* are in force and that the site is replaced as a whole is proved of      *)
(* requests and runs that come one after the other: nothing locks the      *)
(* files and the web root.  The administrator may edit config.toml and     *)
(* nginx, and restart the services, at any time.                           *)
(***************************************************************************)
EXTENDS Settings, FiniteSetTheorems, WellFoundedInduction, TLAPS

OneByOne == MaxActive = 1

\* What is restored was in the snapshot.
WellTyped == TypeOK /\ \A h \in Handlers : apply[h].todo \subseteq DOMAIN apply[h].old

OneAtWork == \A p, q \in Procs : pc[p] # "idle" /\ pc[q] # "idle" => p = q

-----------------------------------------------------------------------------
(* The settings. *)

Calm == mishaps = {}

\* What reconcile renders for the domain of the panel's certificate; the panel's memory may
\* differ in it.
Own(k) == IF PanelDomain = Unset THEN Unset ELSE IF k = "mask" THEN PanelDomain ELSE StubBackend

\* The services run with what the files say.
Applied == unit = loaded /\ url = loaded.path

\* The panel has in memory what it would start with.
Remembered == \A k \in Held : mem[k] = Overridden(loaded)[k]

\* Teleproxy has read its file.
ReadIt == \A k \in Held : tp[k] = toml[k]

\* The settings in force between two runs.
InForce ==
    /\ Remembered
    /\ \A k \in Held : toml[k] \in {Own(k), mem[k]} /\ tp[k] \in {Own(k), toml[k]}

\* The rows of the form that have been saved.
RowsSaved(h) ==
    /\ pc[h] = "save_backend" => db.mask = job[h].flags.mask
    /\ pc[h] = "memory" => db.mask = job[h].flags.mask /\ db.backend = job[h].flags.backend

\* A form puts its settings in force, whatever went wrong before it.
Saving(h) ==
    /\ pc[h] \in {"save_mask", "save_backend", "memory"} => job[h].signal = "restart"
    /\ RowsSaved(h)
    /\ pc[h] \in {"render", "signal"} /\ job[h].signal = "restart" =>
          /\ db.mask = job[h].flags.mask /\ db.backend = job[h].flags.backend
          /\ mem = Rendered(job[h].flags)
          /\ pc[h] = "signal" => toml = mem

\* A request that has not changed any settings, or only renders them again.
Leaving(h) ==
    /\ pc[h] \notin {"save_backend", "memory"}
    /\ pc[h] \in {"render", "signal"} => job[h].signal = "reload"

Panelled(h) == Calm /\ pc[h] # "idle" => Applied /\ serving = conf /\ (Leaving(h) => InForce)

\* What reconcile renders is what the database says, but for the domain.
Chosen(f) ==
    \A k \in Held :
        f[k] \in {Own(k), Overridden(f)[k]} /\ (PanelDomain # Unset => f[k] = Own(k))

FlagsUsed ==
    /\ unit = job[R].flags
    /\ pc[R] \in {"rc_singbox_unit", "rc_site", "rc_migrate", "rc_default", "rc_daemon_reload"} =>
          /\ Remembered
          /\ "unit" \notin job[R].changed => unit = loaded
    /\ pc[R] \in {"rc_teleproxy", "rc_panel", "rc_nginx"} =>
          /\ unit = loaded
          /\ "unit" \notin job[R].changed \/ pc[R] = "rc_nginx" => Remembered /\ url = loaded.path

\* The units of the services on disk and in systemd, and Teleproxy if it was restarted.
UnitsKnown ==
    /\ pc[R] \notin {"rc_toml", "rc_teleproxy_unit"} => "teleproxy" \in svc.file
    /\ pc[R] \notin {"rc_toml", "rc_teleproxy_unit", "rc_unit", "rc_singbox_unit"} =>
          svc.file = Services
    /\ pc[R] \in {"rc_teleproxy", "rc_panel", "rc_nginx"} => svc.loaded = Services
    /\ pc[R] \in {"rc_panel", "rc_nginx"} /\ "toml" \in job[R].changed =>
          tp = toml /\ "teleproxy" \in svc.running

RunSteps ==
    {"rc_toml", "rc_teleproxy_unit", "rc_unit", "rc_singbox_unit", "rc_site", "rc_migrate",
     "rc_default", "rc_daemon_reload", "rc_teleproxy", "rc_panel", "rc_nginx"}

Reconciling ==
    Calm /\ pc[R] # "idle" =>
        /\ pc[R] \in RunSteps
        /\ Chosen(job[R].flags)
        /\ UnitsKnown
        /\ "nginx" \notin job[R].changed => serving = conf
        /\ pc[R] = "rc_toml" => Applied /\ InForce
        /\ pc[R] # "rc_toml" =>
              /\ toml = Rendered(job[R].flags)
              /\ "toml" \notin job[R].changed \/ pc[R] \in {"rc_panel", "rc_nginx"} => ReadIt
        /\ pc[R] \in {"rc_teleproxy_unit", "rc_unit"} => Applied /\ Remembered
        /\ pc[R] \in {"rc_singbox_unit", "rc_site", "rc_migrate", "rc_default", "rc_daemon_reload"} =>
              url = loaded.path
        /\ pc[R] \notin {"rc_toml", "rc_teleproxy_unit", "rc_unit"} => FlagsUsed

Settled == Calm => Applied /\ InForce /\ serving = conf

Resting == Active = {} => Settled

-----------------------------------------------------------------------------
(* The site. *)

Placed(a) == Over([p \in a.written |-> a.from], a.old)

\* What a request has done to the web root so far.
Replacing(h) ==
    LET a == apply[h] IN
    /\ pc[h] = "write" => a.written \subseteq a.pages /\ web = Placed(a)
    /\ pc[h] = "reload" => a.written = a.pages /\ web = Placed(a)
    /\ pc[h] = "remove" => Cardinality(DOMAIN web \ (DOMAIN a.old \cup a.written)) <= 1
    /\ pc[h] = "restore" /\ ~a.errs =>
          /\ \A p \in DOMAIN a.old \ a.todo : p \in DOMAIN web /\ web[p] = a.old[p]
          /\ Cardinality(DOMAIN web \ DOMAIN a.old) <= 1

Inductive ==
    /\ OneAtWork /\ Resting /\ Reconciling
    /\ \A h \in Handlers : Saving(h) /\ Panelled(h) /\ Replacing(h)

-----------------------------------------------------------------------------
(* The operators. *)

LEMMA Numbers ==
    /\ MaxActive \in Nat /\ MaxSteps \in Nat /\ MaxPage \in Nat \ {0} /\ MaxItem \in Nat
    /\ Reconciler \notin Handlers /\ IsFiniteSet(Handlers)
  BY SiteAssumption

LEMMA Templates ==
    /\ \A n \in DOMAIN Builtin : Builtin[n] \subseteq Pages
    /\ \A n \in DOMAIN Builtin : n \in Contents \ {Torn, "legacy", "default"}
    /\ {"upload", "remote"} \subseteq Contents \ {Torn, "legacy", "default"}
    /\ {Torn, "legacy", "default"} \subseteq Contents
    /\ Offered \subseteq SUBSET Pages
  BY SiteAssumption DEF Contents, Torn

LEMMA MinIn == ASSUME NEW S \in SUBSET Nat, S # {} PROVE Min(S) \in S
  <1> DEFINE Less == {ss \in Nat \X Nat : ss[1] < ss[2]}
  <1>1. OpToRel(<, Nat) = Less
    BY DEF OpToRel
  <1>2. IsWellFoundedOn(Less, Nat)
    BY <1>1, NatLessThanWellFounded, Zenon
  <1>3. PICK x \in S : \A y \in S : ~ (<<y, x>> \in Less)
    <2> HIDE DEF Less
    <2>1. QED
      BY <1>2, WFMin
  <1>4. ASSUME NEW y \in S PROVE x <= y
    <2>1. <<y, x>> \in Nat \X Nat /\ <<y, x>>[1] = y /\ <<y, x>>[2] = x
      OBVIOUS
    <2>2. <<y, x>> \in Less <=> y < x
      BY <2>1
    <2>3. ~(y < x)
      BY <1>3, <2>2
    <2>4. QED
      BY <2>3
  <1>5. QED
    BY <1>4 DEF Min

LEMMA MinPage == ASSUME NEW S \in SUBSET Pages, S # {} PROVE Min(S) \in S
  <1>1. S \in SUBSET Nat
    BY DEF Pages
  <1>2. QED
    BY <1>1, MinIn

\* The files of a web root.
LEMMA WebParts ==
    ASSUME NEW w \in Webs
    PROVE  DOMAIN w \subseteq Pages /\ w \in [DOMAIN w -> Contents]
  <1>1. PICK S \in SUBSET Pages : w \in [S -> Contents]
    BY DEF Webs
  <1>2. DOMAIN w = S
    BY <1>1
  <1>3. QED
    BY <1>1, <1>2

LEMMA WebMade ==
    ASSUME NEW S \in SUBSET Pages, NEW w \in [S -> Contents] PROVE w \in Webs
  BY DEF Webs

LEMMA WithParts ==
    ASSUME NEW w, NEW p, NEW c
    PROVE  /\ With(w, p, c) = [i \in {p} \cup DOMAIN w |-> IF i = p THEN c ELSE w[i]]
           /\ DOMAIN With(w, p, c) = {p} \cup DOMAIN w
           /\ With(w, p, c)[p] = c
           /\ \A i \in DOMAIN w : i # p => With(w, p, c)[i] = w[i]
  BY DEF With, Over

LEMMA WithType ==
    ASSUME NEW w \in Webs, NEW p \in Pages, NEW c \in Contents PROVE With(w, p, c) \in Webs
  <1> DEFINE S == {p} \cup DOMAIN w
             g == [i \in S |-> IF i = p THEN c ELSE w[i]]
  <1>1. S \in SUBSET Pages /\ w \in [DOMAIN w -> Contents]
    BY WebParts
  <1>2. g \in [S -> Contents]
    BY <1>1
  <1>3. With(w, p, c) = g
    BY DEF With, Over
  <1> HIDE DEF S, g
  <1>4. QED
    BY <1>1, <1>2, <1>3, WebMade

LEMMA WithoutParts ==
    ASSUME NEW w, NEW S
    PROVE  /\ Without(w, S) = [i \in DOMAIN w \ S |-> w[i]]
           /\ DOMAIN Without(w, S) = DOMAIN w \ S
  BY DEF Without, Restrict

LEMMA WithoutType == ASSUME NEW w \in Webs, NEW S PROVE Without(w, S) \in Webs
  <1>1. DOMAIN w \ S \in SUBSET Pages /\ w \in [DOMAIN w -> Contents]
    BY WebParts
  <1>2. [i \in DOMAIN w \ S |-> w[i]] \in [DOMAIN w \ S -> Contents]
    BY <1>1
  <1>3. QED
    BY <1>1, <1>2, WithoutParts, WebMade

LEMMA EmptyType == Empty \in Webs /\ DOMAIN Empty = {}
  <1>1. Empty \in [{} -> Contents] /\ {} \in SUBSET Pages
    BY DEF Empty
  <1>2. QED
    BY <1>1, WebMade DEF Empty

LEMMA NoApplyType == NoApply \in Apply
  BY EmptyType, Templates DEF NoApply, Apply

\* The settings a form or config.toml may have, and those of the table.
Rows == [mask : Hosts \cup {Unset}, backend : Backends \cup {Unset}, path : Paths \cup {Unset}]

LEMMA FlagsParts ==
    ASSUME NEW f \in Flags
    PROVE  /\ f.mask \in Hosts /\ f.backend \in Backends /\ f.path \in Paths
           /\ DOMAIN f = {"mask", "backend", "path"}
           /\ Rendered(f) \in Settings
           /\ Rendered(f).mask = f.mask /\ Rendered(f).backend = f.backend
  BY DEF Flags, Rendered, Settings

LEMMA OverriddenParts ==
    ASSUME NEW f \in Flags, db \in Rows
    PROVE  /\ Overridden(f) \in Flags
           /\ \A k \in {"mask", "backend", "path"} :
                 Overridden(f)[k] = IF db[k] \notin {Unset, Nothing} THEN db[k] ELSE f[k]
  <1> DEFINE g == [k \in {"mask", "backend", "path"} |->
                      IF db[k] \notin {Unset, Nothing} THEN db[k] ELSE f[k]]
  <1>1. Overridden(f) = g
    BY FlagsParts DEF Overridden
  <1>2. g.mask \in Hosts /\ g.backend \in Backends /\ g.path \in Paths
    BY FlagsParts DEF Rows
  <1>3. g = [mask |-> g.mask, backend |-> g.backend, path |-> g.path]
    OBVIOUS
  <1>4. g \in Flags
    BY <1>2, <1>3 DEF Flags
  <1>5. QED
    BY <1>1, <1>4

LEMMA DomainedParts ==
    ASSUME NEW f \in Flags
    PROVE  /\ Domained(f) \in Flags
           /\ PanelDomain = Unset => Domained(f) = f
           /\ PanelDomain # Unset => \A k \in {"mask", "backend"} : Domained(f)[k] = Own(k)
  <1>1. CASE PanelDomain = Unset
    BY <1>1 DEF Domained
  <1>2. CASE PanelDomain # Unset
    <2>1. Domained(f) = [f EXCEPT !.mask = PanelDomain, !.backend = StubBackend]
      BY <1>2 DEF Domained
    <2>2. PanelDomain \in Hosts /\ StubBackend \in Backends
      BY <1>2, SettingsAssumption
    <2>3. Domained(f) \in Flags
      BY <2>1, <2>2 DEF Flags
    <2>4. Domained(f).mask = PanelDomain /\ Domained(f).backend = StubBackend
      BY <2>1 DEF Flags
    <2>5. QED
      BY <1>2, <2>3, <2>4 DEF Own
  <1>3. QED
    BY <1>1, <1>2

\* The settings by name.
Names == {"mask", "backend"}

LEMMA HeldNames == Held \subseteq Names
  BY DEF Held, Names

LEMMA RenderedAt ==
    ASSUME NEW f, NEW k \in Names PROVE Rendered(f)[k] = f[k]
  BY DEF Rendered, Names

-----------------------------------------------------------------------------
(* Types. *)

Svc == [file : SUBSET Services, loaded : SUBSET Services, running : SUBSET Services]

SettingsTypes ==
    /\ config \in Flags /\ db \in Rows
    /\ mem \in Settings /\ url \in Paths
    /\ unit \in Flags /\ loaded \in Flags
    /\ toml \in Settings /\ tp \in Settings
    /\ svc \in Svc

ControlTypes ==
    /\ pc \in [Procs -> PC] /\ job \in [Procs -> Job]
    /\ steps \in 0..MaxSteps /\ mishaps \subseteq {"db", "apply", "reconcile", "crash"}

SiteTypes == SiteTypeOK /\ \A h \in Handlers : apply[h].todo \subseteq DOMAIN apply[h].old

LEMMA TypeParts == WellTyped <=> SettingsTypes /\ ControlTypes /\ SiteTypes
  BY DEF WellTyped, TypeOK, SettingsTypes, ControlTypes, SiteTypes, Rows, Svc

LEMMA TypesAfter == ASSUME SettingsTypes', ControlTypes', SiteTypes' PROVE WellTyped'
  BY DEF WellTyped, TypeOK, SettingsTypes, ControlTypes, SiteTypes, Rows, Svc

LEMMA SettingsStay ==
    ASSUME SettingsTypes, UNCHANGED <<config, db, mem, url, unit, loaded, toml, tp, svc>>
    PROVE  SettingsTypes'
  BY DEF SettingsTypes

LEMMA SiteStays == ASSUME SiteTypes, UNCHANGED siteVars PROVE SiteTypes'
  BY DEF SiteTypes, SiteTypeOK, siteVars

\* What becomes of the units of the services.
LEMMA UnitTypes ==
    ASSUME SettingsTypes
    PROVE  /\ \A s \in Services : /\ [svc EXCEPT !.file = @ \cup {s}] \in Svc
                                 /\ Started(s) \in Svc
           /\ [svc EXCEPT !.loaded = svc.file] \in Svc
           /\ Started("teleproxy") \in Svc
  BY SettingsAssumption DEF SettingsTypes, Svc, Started

LEMMA NoJobType == NoJob \in Job
  BY SettingsAssumption DEF NoJob, Job

LEMMA JobParts ==
    ASSUME ControlTypes, NEW p \in Procs
    PROVE  /\ job[p] \in Job /\ pc[p] \in PC /\ job[p].flags \in Flags
           /\ Rendered(job[p].flags) \in Settings
           /\ job[p].changed \subseteq {"toml", "unit", "nginx"}
           /\ job[p].signal \in {"reload", "restart"}
  <1>1. job[p] \in Job /\ pc[p] \in PC
    BY DEF ControlTypes
  <1>2. QED
    BY <1>1, FlagsParts DEF Job

LEMMA Counts == ASSUME ControlTypes, steps < MaxSteps, steps' = steps + 1 PROVE steps' \in 0..MaxSteps
  BY Numbers DEF ControlTypes

LEMMA Begins ==
    ASSUME ControlTypes, NEW p \in Procs, NEW to \in PC, Begin(p, to), NEW j \in Job,
           job' = [job EXCEPT ![p] = j] \/ UNCHANGED job, UNCHANGED mishaps
    PROVE  ControlTypes'
  <1>1. steps' \in 0..MaxSteps
    BY Counts DEF Begin
  <1>2. pc' \in [Procs -> PC] /\ job' \in [Procs -> Job]
    BY DEF Begin, Goto, ControlTypes
  <1>3. QED
    BY <1>1, <1>2 DEF ControlTypes

LEMMA GoesOn ==
    ASSUME ControlTypes, NEW p \in Procs, NEW to \in PC,
           pc' = [pc EXCEPT ![p] = to], NEW j \in Job,
           job' = [job EXCEPT ![p] = j] \/ UNCHANGED job, UNCHANGED <<steps, mishaps>>
    PROVE  ControlTypes'
  <1>1. pc' \in [Procs -> PC] /\ job' \in [Procs -> Job]
    BY DEF ControlTypes
  <1>2. QED
    BY <1>1 DEF ControlTypes

LEMMA Aborts ==
    ASSUME ControlTypes, NEW p \in Procs, NEW m \in {"db", "apply", "reconcile"}, Abort(p, m),
           UNCHANGED steps
    PROVE  ControlTypes'
  <1>1. pc' \in [Procs -> PC] /\ job' \in [Procs -> Job]
    BY NoJobType DEF ControlTypes, Abort, PC
  <1>2. QED
    BY <1>1 DEF ControlTypes, Abort, Note

LEMMA PanelTypes ==
    ASSUME WellTyped, NEW h \in Handlers,
           \/ Save(h) \/ SaveMask(h) \/ SaveBackend(h) \/ SaveFails(h) \/ UpdateMemory(h)
           \/ ReloadUsers(h) \/ Render(h) \/ Signal(h) \/ ApplyFails(h) \/ SavePath(h)
    PROVE  WellTyped'
  <1>1. SettingsTypes /\ ControlTypes /\ SiteTypes /\ h \in Procs
    BY TypeParts DEF Procs
  <1>2. SiteTypes'
    <2>1. UNCHANGED siteVars
      BY DEF Save, SaveMask, SaveBackend, SaveFails, UpdateMemory, ReloadUsers, Render, Signal,
             ApplyFails, SavePath
    <2>2. QED
      BY <1>1, <2>1, SiteStays
  <1>3. CASE Save(h)
    <2>1. PICK s \in Settings :
            job' = [job EXCEPT ![h] = [signal |-> "restart", changed |-> {},
                       flags |-> [mask |-> s.mask, backend |-> s.backend, path |-> Config.path]]]
      BY <1>3 DEF Save
    <2>2. [signal |-> "restart", changed |-> {},
           flags |-> [mask |-> s.mask, backend |-> s.backend, path |-> Config.path]] \in Job
      BY SettingsAssumption DEF Job, Settings, Flags
    <2>3. Begin(h, "save_mask") /\ mishaps' = mishaps
          /\ UNCHANGED <<config, db, mem, url, unit, loaded, toml, tp, svc>>
      BY <1>3 DEF Save
    <2>4. ControlTypes'
      BY <1>1, <2>1, <2>2, <2>3, Begins DEF PC
    <2>5. QED
      BY <1>1, <1>2, <2>3, <2>4, SettingsStay, TypesAfter
  <1>4. CASE SaveMask(h)
    <2>1. ControlTypes'
      BY <1>1, <1>4, GoesOn, NoJobType DEF SaveMask, Goto, PC
    <2>2. SettingsTypes'
      BY <1>1, <1>4, JobParts, FlagsParts DEF SaveMask, SettingsTypes, Rows
    <2>3. QED
      BY <1>2, <2>1, <2>2, TypesAfter
  <1>5. CASE SaveBackend(h)
    <2>1. ControlTypes'
      BY <1>1, <1>5, GoesOn, NoJobType DEF SaveBackend, Goto, PC
    <2>2. SettingsTypes'
      BY <1>1, <1>5, JobParts, FlagsParts DEF SaveBackend, SettingsTypes, Rows
    <2>3. QED
      BY <1>2, <2>1, <2>2, TypesAfter
  <1>6. CASE SaveFails(h) \/ ApplyFails(h)
    <2>1. ControlTypes'
      BY <1>1, <1>6, Aborts DEF SaveFails, ApplyFails
    <2>2. QED
      BY <1>1, <1>2, <1>6, <2>1, SettingsStay, TypesAfter DEF SaveFails, ApplyFails
  <1>7. CASE UpdateMemory(h)
    <2>1. ControlTypes'
      BY <1>1, <1>7, GoesOn, NoJobType DEF UpdateMemory, Goto, PC
    <2>2. SettingsTypes'
      BY <1>1, <1>7, JobParts DEF UpdateMemory, SettingsTypes
    <2>3. QED
      BY <1>2, <2>1, <2>2, TypesAfter
  <1>8. CASE ReloadUsers(h)
    <2>1. ControlTypes'
      BY <1>1, <1>8, Begins, NoJobType DEF ReloadUsers, PC
    <2>2. QED
      BY <1>1, <1>2, <1>8, <2>1, SettingsStay, TypesAfter DEF ReloadUsers
  <1>9. CASE Render(h)
    <2>1. ControlTypes'
      BY <1>1, <1>9, GoesOn, NoJobType DEF Render, Goto, PC
    <2>2. SettingsTypes'
      BY <1>1, <1>9 DEF Render, SettingsTypes
    <2>3. QED
      BY <1>2, <2>1, <2>2, TypesAfter
  <1>10. CASE Signal(h)
    <2>1. ControlTypes'
      BY <1>1, <1>10, GoesOn, NoJobType DEF Signal, Goto, PC
    <2>2. SettingsTypes'
      BY <1>1, <1>10, UnitTypes DEF Signal, SettingsTypes
    <2>3. QED
      BY <1>2, <2>1, <2>2, TypesAfter
  <1>11. CASE SavePath(h)
    <2>1. ControlTypes'
      BY <1>1, <1>11, Begins, NoJobType DEF SavePath, PC
    <2>2. PICK path \in Paths : db' = [db EXCEPT !.path = path]
      BY <1>11 DEF SavePath
    <2>3. SettingsTypes'
      BY <1>1, <1>11, <2>2 DEF SavePath, SettingsTypes, Rows
    <2>4. QED
      BY <1>2, <2>1, <2>3, TypesAfter
  <1>12. QED
    BY <1>3, <1>4, <1>5, <1>6, <1>7, <1>8, <1>9, <1>10, <1>11

LEMMA StartTypes ==
    ASSUME SettingsTypes
    PROVE  Rendered(Overridden(loaded)) \in Settings /\ loaded.path \in Paths
  BY OverriddenParts, FlagsParts DEF SettingsTypes

LEMMA HostTypes ==
    ASSUME WellTyped, RestartPanel \/ RestartTeleproxy \/ RestartSingbox \/ EditConfig
    PROVE  WellTyped'
  <1>1. SettingsTypes /\ ControlTypes /\ SiteTypes
    BY TypeParts
  <1>2. steps' \in 0..MaxSteps
    BY <1>1, Counts DEF RestartPanel, RestartTeleproxy, RestartSingbox, EditConfig
  <1>3. CASE RestartPanel
    <2>1. pc' \in [Procs -> PC] /\ job' \in [Procs -> Job]
      BY <1>1, <1>3, NoJobType DEF RestartPanel, PanelStarts, ControlTypes, PC
    <2>2. mishaps' \subseteq {"db", "apply", "reconcile", "crash"}
      BY <1>1, <1>3 DEF RestartPanel, ControlTypes
    <2>3. SettingsTypes'
      BY <1>1, <1>3, StartTypes DEF RestartPanel, PanelStarts, SettingsTypes
    <2>4. SiteTypes'
      BY <1>1, <1>3, NoApplyType, EmptyType
         DEF RestartPanel, PanelStarts, SiteTypes, SiteTypeOK, NoApply
    <2>5. QED
      BY <1>2, <2>1, <2>2, <2>3, <2>4, TypesAfter DEF ControlTypes
  <1>4. CASE RestartTeleproxy \/ RestartSingbox
    <2>1. SettingsTypes' /\ ControlTypes'
      BY <1>1, <1>2, <1>4, UnitTypes DEF RestartTeleproxy, RestartSingbox, SettingsTypes, ControlTypes
    <2>2. QED
      BY <1>1, <1>4, <2>1, SiteStays, TypesAfter DEF RestartTeleproxy, RestartSingbox
  <1>5. CASE EditConfig
    <2>1. SettingsTypes' /\ ControlTypes'
      BY <1>1, <1>2, <1>5 DEF EditConfig, SettingsTypes, ControlTypes
    <2>2. QED
      BY <1>1, <1>5, <2>1, SiteStays, TypesAfter DEF EditConfig
  <1>6. QED
    BY <1>3, <1>4, <1>5

-----------------------------------------------------------------------------
(* Types of the steps of reconcile. *)

LEMMA RenderTypes ==
    ASSUME WellTyped,
           \/ Reconcile \/ WriteTOML \/ WriteTeleproxyUnit \/ WriteUnit \/ WriteSingboxUnit
           \/ SitesWritten \/ DaemonReload
    PROVE  WellTyped'
  <1>1. SettingsTypes /\ ControlTypes /\ SiteTypes /\ R \in Procs
    BY TypeParts DEF Procs, R
  <1>2. SiteTypes'
    <2>1. UNCHANGED siteVars
      BY DEF Reconcile, WriteTOML, WriteTeleproxyUnit, WriteUnit, WriteSingboxUnit,
             WriteServiceUnit, SitesWritten, DaemonReload
    <2>2. QED
      BY <1>1, <2>1, SiteStays
  <1>3. CASE Reconcile
    <2> DEFINE f == Domained(Overridden(config))
    <2>1. f \in Flags
      BY <1>1, OverriddenParts, DomainedParts DEF SettingsTypes
    <2>2. [NoJob EXCEPT !.flags = f] \in Job
      BY <2>1, NoJobType DEF Job
    <2>3. job' = [job EXCEPT ![R] = [NoJob EXCEPT !.flags = f]]
      BY <1>3 DEF Reconcile
    <2> HIDE DEF f
    <2>4. ControlTypes'
      BY <1>1, <1>3, <2>2, <2>3, Begins DEF Reconcile, PC
    <2>5. QED
      BY <1>1, <1>2, <1>3, <2>4, SettingsStay, TypesAfter DEF Reconcile
  <1>4. CASE WriteTOML
    <2>1. ControlTypes'
      <3> DEFINE c == IF toml' = toml THEN job[R].changed ELSE job[R].changed \cup {"toml"}
      <3>1. c \subseteq {"toml", "unit", "nginx"}
        BY <1>1, JobParts
      <3>2. job' = [job EXCEPT ![R] = [job[R] EXCEPT !.changed = c]]
        BY <1>1, <1>4 DEF WriteTOML, ControlTypes
      <3> HIDE DEF c
      <3>3. [job[R] EXCEPT !.changed = c] \in Job
        BY <1>1, <3>1, JobParts DEF Job
      <3>4. QED
        BY <1>1, <1>4, <3>2, <3>3, GoesOn DEF WriteTOML, Goto, PC
    <2>2. SettingsTypes'
      BY <1>1, <1>4, JobParts DEF WriteTOML, SettingsTypes
    <2>3. QED
      BY <1>2, <2>1, <2>2, TypesAfter
  <1>5. CASE WriteUnit
    <2>1. ControlTypes'
      <3> DEFINE c == IF unit' = unit THEN job[R].changed ELSE job[R].changed \cup {"unit"}
      <3>1. c \subseteq {"toml", "unit", "nginx"}
        BY <1>1, JobParts
      <3>2. job' = [job EXCEPT ![R] = [job[R] EXCEPT !.changed = c]]
        BY <1>1, <1>5 DEF WriteUnit, ControlTypes
      <3> HIDE DEF c
      <3>3. [job[R] EXCEPT !.changed = c] \in Job
        BY <1>1, <3>1, JobParts DEF Job
      <3>4. QED
        BY <1>1, <1>5, <3>2, <3>3, GoesOn DEF WriteUnit, Goto, PC
    <2>2. SettingsTypes'
      BY <1>1, <1>5, JobParts DEF WriteUnit, SettingsTypes
    <2>3. QED
      BY <1>2, <2>1, <2>2, TypesAfter
  <1>6. CASE SitesWritten
    <2>1. ControlTypes'
      BY <1>1, <1>6, GoesOn, NoJobType DEF SitesWritten, panelVars, Goto, PC
    <2>2. QED
      BY <1>1, <1>2, <1>6, <2>1, SettingsStay, TypesAfter DEF SitesWritten, panelVars
  <1>7. CASE DaemonReload
    <2>1. ControlTypes'
      BY <1>1, <1>7, GoesOn, NoJobType DEF DaemonReload, Goto, PC
    <2>2. SettingsTypes'
      BY <1>1, <1>7, UnitTypes DEF DaemonReload, SettingsTypes
    <2>3. QED
      BY <1>2, <2>1, <2>2, TypesAfter
  <1>8. CASE WriteTeleproxyUnit \/ WriteSingboxUnit
    <2>1. ControlTypes'
      BY <1>1, <1>8, GoesOn, NoJobType
         DEF WriteTeleproxyUnit, WriteSingboxUnit, WriteServiceUnit, panelVars, Goto, PC
    <2>2. SettingsTypes'
      BY <1>1, <1>8, UnitTypes, SettingsAssumption
         DEF WriteTeleproxyUnit, WriteSingboxUnit, WriteServiceUnit, panelVars, SettingsTypes
    <2>3. QED
      BY <1>2, <2>1, <2>2, TypesAfter
  <1>9. QED
    BY <1>3, <1>4, <1>5, <1>6, <1>7, <1>8

LEMMA ChangedType ==
    ASSUME ControlTypes, NEW kind \in {"toml", "unit", "nginx"}, Changed(kind)
    PROVE  \E j \in Job : job' = [job EXCEPT ![R] = j]
  <1> DEFINE j == [job[R] EXCEPT !.changed = @ \cup {kind}]
  <1>1. R \in Procs
    BY DEF R, Procs
  <1>2. j \in Job
    BY <1>1, JobParts DEF Job
  <1>3. job' = [job EXCEPT ![R] = j]
    BY <1>1 DEF Changed, ControlTypes
  <1>4. QED
    BY <1>2, <1>3

LEMMA SiteStepTypes ==
    ASSUME WellTyped,
           \/ WriteSite \/ Migrate \/ MigrateFails \/ RemoveDefault \/ RemoveDefaultFails
    PROVE  WellTyped'
  <1>1. SettingsTypes /\ ControlTypes /\ SiteTypes /\ R \in Procs
    BY TypeParts DEF Procs, R
  <1>2. SettingsTypes'
    <2>1. UNCHANGED <<config, db, mem, url, unit, loaded, toml, tp, svc>>
      BY DEF WriteSite, Migrate, MigrateFails, RemoveDefault, RemoveDefaultFails, panelVars
    <2>2. QED
      BY <1>1, <2>1, SettingsStay
  <1>3. web \in Webs /\ conf \subseteq Items /\ Index \in Pages
    BY <1>1, Numbers DEF SiteTypes, SiteTypeOK, Index, Pages
  <1>4. ASSUME NEW w \in Webs, NEW c \in SUBSET Items, web' = w, conf' = c,
               UNCHANGED <<sound, serving, repo, cache, apply>>
        PROVE  SiteTypes'
    BY <1>1, <1>4 DEF SiteTypes, SiteTypeOK
  <1>5. CASE WriteSite
    <2>1. ControlTypes'
      <3>1. \E j \in Job : job' = [job EXCEPT ![R] = j]
        BY <1>1, <1>5, ChangedType DEF WriteSite
      <3>2. QED
        BY <1>1, <1>5, <3>1 DEF WriteSite, ControlTypes
    <2>2. Min(Stale) \in Stale
      <3>1. Stale \in SUBSET Nat
        BY Numbers DEF Stale, Items
      <3>2. QED
        BY <1>5, <3>1, MinIn DEF WriteSite
    <2>3. conf \cup {Min(Stale)} \in SUBSET Items
      BY <1>3, <2>2 DEF Stale
    <2>4. SiteTypes'
      BY <1>3, <1>4, <1>5, <2>3 DEF WriteSite
    <2>5. QED
      BY <1>2, <2>1, <2>4, TypesAfter
  <1>6. CASE Migrate
    <2>1. \E j \in Job : job' = [job EXCEPT ![R] = j] \/ UNCHANGED job
      BY <1>1, <1>6, ChangedType, NoJobType DEF Migrate
    <2>2. ControlTypes'
      BY <1>1, <1>6, <2>1, GoesOn DEF Migrate, Goto, PC
    <2>3. web' \in Webs
      <3>1. With(web, Index, "default") \in Webs
        BY <1>3, WithType, Templates
      <3>2. QED
        BY <1>3, <1>6, <3>1 DEF Migrate
    <2>4. SiteTypes'
      BY <1>3, <1>4, <1>6, <2>3 DEF Migrate
    <2>5. QED
      BY <1>2, <2>2, <2>4, TypesAfter
  <1>7. CASE MigrateFails
    <2>1. ControlTypes'
      BY <1>1, <1>7, Aborts DEF MigrateFails
    <2>2. With(web, Index, Torn) \in Webs
      BY <1>3, WithType, Templates
    <2>3. SiteTypes'
      BY <1>3, <1>4, <1>7, <2>2 DEF MigrateFails
    <2>4. QED
      BY <1>2, <2>1, <2>3, TypesAfter
  <1>8. CASE RemoveDefault
    <2>1. \E j \in Job : job' = [job EXCEPT ![R] = j] \/ UNCHANGED job
      BY <1>1, <1>8, ChangedType, NoJobType DEF RemoveDefault
    <2>2. ControlTypes'
      BY <1>1, <1>8, <2>1, GoesOn DEF RemoveDefault, Goto, PC
    <2>3. conf \cup {0} \in SUBSET Items
      BY <1>3, Numbers DEF Items
    <2>4. SiteTypes'
      BY <1>3, <1>4, <1>8, <2>3 DEF RemoveDefault
    <2>5. QED
      BY <1>2, <2>2, <2>4, TypesAfter
  <1>9. CASE RemoveDefaultFails
    <2>1. ControlTypes'
      BY <1>1, <1>9, GoesOn, NoJobType DEF RemoveDefaultFails, panelVars, Goto, PC
    <2>2. QED
      BY <1>1, <1>2, <1>9, <2>1, SiteStays, TypesAfter DEF RemoveDefaultFails
  <1>10. QED
    BY <1>5, <1>6, <1>7, <1>8, <1>9

LEMMA RestartTypes ==
    ASSUME WellTyped,
           \/ RestartTeleproxyIfChanged \/ RestartPanelIfChanged \/ RestartNginxIfChanged
           \/ ReconcileFails
    PROVE  WellTyped'
  <1>1. SettingsTypes /\ ControlTypes /\ SiteTypes /\ R \in Procs
    BY TypeParts DEF Procs, R
  <1>2. CASE RestartTeleproxyIfChanged
    <2>1. ControlTypes'
      BY <1>1, <1>2, GoesOn, NoJobType DEF RestartTeleproxyIfChanged, Goto, PC
    <2>2. SettingsTypes'
      BY <1>1, <1>2, UnitTypes DEF RestartTeleproxyIfChanged, SettingsTypes
    <2>3. QED
      BY <1>1, <1>2, <2>1, <2>2, SiteStays, TypesAfter DEF RestartTeleproxyIfChanged
  <1>3. CASE RestartPanelIfChanged
    <2>1. ControlTypes'
      <3>1. CASE "unit" \in job[R].changed
        <4>1. pc' \in [Procs -> PC]
          BY <1>1, <1>3, <3>1 DEF RestartPanelIfChanged, PC
        <4>2. job' \in [Procs -> Job]
          BY <1>1, <1>3, <3>1, NoJobType DEF RestartPanelIfChanged, ControlTypes
        <4>3. QED
          BY <1>1, <1>3, <4>1, <4>2 DEF RestartPanelIfChanged, ControlTypes
      <3>2. CASE "unit" \notin job[R].changed
        BY <1>1, <1>3, <3>2, GoesOn, NoJobType DEF RestartPanelIfChanged, Goto, PC
      <3>3. QED
        BY <3>1, <3>2
    <2>2. SettingsTypes'
      BY <1>1, <1>3, StartTypes DEF RestartPanelIfChanged, SettingsTypes
    <2>3. SiteTypes'
      <3>1. CASE "unit" \in job[R].changed
        <4>1. /\ cache' = {} /\ apply' = [h \in Handlers |-> NoApply]
              /\ UNCHANGED <<web, sound, conf, serving, repo>>
          BY <1>3, <3>1 DEF RestartPanelIfChanged
        <4>2. NoApply.todo \subseteq DOMAIN NoApply.old
          BY DEF NoApply
        <4>3. \A h \in Handlers : apply'[h] = NoApply
          BY <4>1
        <4>4. QED
          BY <1>1, <4>1, <4>2, <4>3, NoApplyType DEF SiteTypes, SiteTypeOK
      <3>2. CASE "unit" \notin job[R].changed
        BY <1>1, <1>3, <3>2, SiteStays DEF RestartPanelIfChanged, siteVars
      <3>3. QED
        BY <3>1, <3>2
    <2>4. QED
      BY <2>1, <2>2, <2>3, TypesAfter
  <1>4. CASE RestartNginxIfChanged
    <2>1. ControlTypes' /\ SiteTypes'
      BY <1>1, <1>4, GoesOn, NoJobType
         DEF RestartNginxIfChanged, Goto, PC, SiteTypes, SiteTypeOK
    <2>2. QED
      BY <1>1, <1>4, <2>1, SettingsStay, TypesAfter DEF RestartNginxIfChanged
  <1>5. CASE ReconcileFails
    <2>1. ControlTypes'
      BY <1>1, <1>5, Aborts DEF ReconcileFails
    <2>2. QED
      BY <1>1, <1>5, <2>1, SettingsStay, SiteStays, TypesAfter DEF ReconcileFails
  <1>6. QED
    BY <1>2, <1>3, <1>4, <1>5

-----------------------------------------------------------------------------
(* Types of the steps of a request that replaces the site. *)

\* One request's variables change, the site may, and the rest of the host stays.
LEMMA ApplyTypes ==
    ASSUME SiteTypes, NEW h \in Handlers, NEW a \in Apply, a.todo \subseteq DOMAIN a.old,
           apply' = [apply EXCEPT ![h] = a], web' \in Webs,
           serving' \in {serving, conf}, cache' \in {cache, repo},
           UNCHANGED <<sound, conf, repo>>
    PROVE  SiteTypes'
  <1>1. apply' \in [Handlers -> Apply]
    BY DEF SiteTypes, SiteTypeOK
  <1>2. \A g \in Handlers : apply'[g].todo \subseteq DOMAIN apply'[g].old
    BY DEF SiteTypes, SiteTypeOK
  <1>3. QED
    BY <1>1, <1>2 DEF SiteTypes, SiteTypeOK

LEMMA ApplyParts ==
    ASSUME SiteTypes, NEW h \in Handlers
    PROVE  /\ apply[h] \in Apply /\ apply[h].todo \subseteq DOMAIN apply[h].old
           /\ apply[h].from \in Contents /\ apply[h].old \in Webs
           /\ apply[h].pages \in SUBSET Pages /\ apply[h].written \in SUBSET Pages
           /\ web \in Webs /\ apply \in [Handlers -> Apply]
  BY DEF SiteTypes, SiteTypeOK, Apply

LEMMA SnapshotType ==
    ASSUME SiteTypes, NEW from \in Contents \ {Torn, "legacy", "default"}, NEW pages \in SUBSET Pages
    PROVE  LET a == [NoApply EXCEPT !.from = from, !.pages = pages, !.old = web]
           IN  a \in Apply /\ a.todo \subseteq DOMAIN a.old
  BY DEF NoApply, Apply, SiteTypes, SiteTypeOK

LEMMA Listed == ASSUME SiteTypes PROVE repo \in SUBSET Pages /\ cache \in SUBSET Pages
  BY Templates DEF SiteTypes, SiteTypeOK

LEMMA SnapshotTypes ==
    ASSUME SiteTypes, NEW h \in Handlers,
           ApplyBuiltin(h) \/ Upload(h) \/ Remote(h) \/ Downloaded(h)
    PROVE  SiteTypes'
  <1>1. ASSUME NEW from \in Contents \ {Torn, "legacy", "default"}, NEW pages \in SUBSET Pages,
               Snapshot(h, from, pages), UNCHANGED <<web, sound, conf, serving, repo, cache>>
        PROVE  SiteTypes'
    <2> DEFINE a == [NoApply EXCEPT !.from = from, !.pages = pages, !.old = web]
    <2>1. a \in Apply /\ a.todo \subseteq DOMAIN a.old
      BY SnapshotType
    <2>2. apply' = [apply EXCEPT ![h] = a]
      BY <1>1 DEF Snapshot
    <2>3. web' \in Webs /\ UNCHANGED <<sound, conf, serving, repo, cache>>
      BY <1>1, ApplyParts
    <2> HIDE DEF a
    <2>4. QED
      BY <2>1, <2>2, <2>3, ApplyTypes
  <1>2. CASE ApplyBuiltin(h)
    <2>1. PICK n \in DOMAIN Builtin : Snapshot(h, n, Builtin[n])
      BY <1>2 DEF ApplyBuiltin
    <2>2. n \in Contents \ {Torn, "legacy", "default"} /\ Builtin[n] \in SUBSET Pages
      BY Templates
    <2>3. QED
      BY <1>1, <1>2, <2>1, <2>2 DEF ApplyBuiltin
  <1>3. CASE Upload(h)
    <2>1. PICK pages \in Offered : Snapshot(h, "upload", pages)
      BY <1>3 DEF Upload
    <2>2. "upload" \in Contents \ {Torn, "legacy", "default"} /\ pages \in SUBSET Pages
      BY Templates
    <2>3. QED
      BY <1>1, <1>3, <2>1, <2>2 DEF Upload
  <1>4. CASE Downloaded(h)
    <2>1. "remote" \in Contents \ {Torn, "legacy", "default"} /\ apply[h].pages \in SUBSET Pages
      BY Templates, ApplyParts
    <2>2. QED
      BY <1>1, <1>4, <2>1 DEF Downloaded
  <1>5. CASE Remote(h)
    <2> DEFINE a == [NoApply EXCEPT !.from = "remote", !.pages = cache']
    <2>1. cache' \in {cache, repo} /\ cache' \in SUBSET Pages
      BY <1>5, Listed DEF Remote
    <2>2. a \in Apply /\ a.todo \subseteq DOMAIN a.old
      BY <2>1, Templates, EmptyType DEF NoApply, Apply
    <2>3. apply' = [apply EXCEPT ![h] = a]
      BY <1>5 DEF Remote
    <2>4. web' \in Webs /\ serving' = serving /\ UNCHANGED <<sound, conf, repo>>
      BY <1>5, ApplyParts DEF Remote
    <2> HIDE DEF a
    <2>5. QED
      BY <2>1, <2>2, <2>3, <2>4, ApplyTypes
  <1>6. QED
    BY <1>2, <1>3, <1>4, <1>5

LEMMA ApplyEnds ==
    ASSUME SiteTypes, NEW h \in Handlers, DownloadFails(h) \/ Reload(h) \/ RolledBack(h)
    PROVE  SiteTypes'
  <1>1. apply' = [apply EXCEPT ![h] = NoApply]
    BY DEF DownloadFails, Reload, RolledBack
  <1>2. /\ web' \in Webs /\ serving' \in {serving, conf} /\ cache' = cache
        /\ UNCHANGED <<sound, conf, repo>>
    BY ApplyParts DEF DownloadFails, Reload, RolledBack
  <1>3. NoApply \in Apply /\ NoApply.todo \subseteq DOMAIN NoApply.old
    <2>1. NoApply.todo \subseteq DOMAIN NoApply.old
      BY DEF NoApply
    <2>2. QED
      BY <2>1, NoApplyType
  <1>4. QED
    BY <1>1, <1>2, <1>3, ApplyTypes

LEMMA WriteTypes ==
    ASSUME SiteTypes, NEW h \in Handlers,
           WritePage(h) \/ Written(h) \/ WritePageFails(h) \/ ReloadFails(h)
    PROVE  SiteTypes'
  <1>1. CASE Written(h) \/ ReloadFails(h)
    BY <1>1, SiteStays DEF Written, ReloadFails
  <1>2. ASSUME ToWrite(h) # {} PROVE Min(ToWrite(h)) \in Pages
    BY <1>2, ApplyParts, MinPage DEF ToWrite
  <1>3. CASE WritePage(h)
    <2> DEFINE p == Min(ToWrite(h))
               a == [apply[h] EXCEPT !.written = @ \cup {p}]
    <2>1. p \in Pages
      BY <1>2, <1>3 DEF WritePage
    <2>2. web' = With(web, p, apply[h].from) /\ apply' = [apply EXCEPT ![h].written = @ \cup {p}]
      BY <1>3 DEF WritePage
    <2> HIDE DEF p
    <2>3. a \in Apply /\ a.todo \subseteq DOMAIN a.old
      BY <2>1, ApplyParts DEF Apply
    <2>4. apply' = [apply EXCEPT ![h] = a]
      BY <2>2, ApplyParts
    <2> HIDE DEF a
    <2>5. web' \in Webs
      BY <2>1, <2>2, ApplyParts, WithType
    <2>6. QED
      BY <1>3, <2>3, <2>4, <2>5, ApplyTypes DEF WritePage
  <1>4. CASE WritePageFails(h)
    <2>1. Min(ToWrite(h)) \in Pages
      BY <1>2, <1>4 DEF WritePageFails
    <2>2. With(web, Min(ToWrite(h)), Torn) \in Webs
      BY <2>1, ApplyParts, WithType, Templates
    <2>3. web' \in Webs /\ UNCHANGED <<sound, conf, serving, repo, cache, apply>>
      BY <1>4, <2>2, ApplyParts DEF WritePageFails
    <2>4. QED
      BY <2>3 DEF SiteTypes, SiteTypeOK
  <1>5. QED
    BY <1>1, <1>3, <1>4

LEMMA RollbackTypes ==
    ASSUME SiteTypes, NEW h \in Handlers,
           RemoveWritten(h) \/ \E p \in Pages : RestorePage(h, p) \/ RestorePageFails(h, p)
    PROVE  SiteTypes'
  <1>1. CASE RemoveWritten(h)
    <2>1. PICK kept \in IF MayFail THEN SUBSET apply[h].written ELSE {{}} :
            /\ web' = Without(web, apply[h].written \ kept)
            /\ apply' = [apply EXCEPT ![h].todo = DOMAIN apply[h].old, ![h].errs = kept # {}]
      BY <1>1 DEF RemoveWritten
    <2> DEFINE e == kept # {}
               a == [apply[h] EXCEPT !.todo = DOMAIN apply[h].old, !.errs = e]
    <2>2. e \in BOOLEAN /\ DOMAIN apply[h].old \in SUBSET Pages
      BY ApplyParts, WebParts
    <2>3. apply' = [apply EXCEPT ![h] = a]
      BY <2>1, ApplyParts
    <2> HIDE DEF e
    <2>4. a \in Apply /\ a.todo \subseteq DOMAIN a.old
      BY <2>2, ApplyParts DEF Apply
    <2>5. web' \in Webs
      BY <2>1, ApplyParts, WithoutType
    <2> HIDE DEF a
    <2>6. QED
      BY <1>1, <2>3, <2>4, <2>5, ApplyTypes DEF RemoveWritten
  <1>2. ASSUME NEW p \in Pages, RestorePage(h, p) \/ RestorePageFails(h, p) PROVE SiteTypes'
    <2>1. p \in DOMAIN apply[h].old /\ apply[h].old[p] \in Contents
      <3>1. p \in DOMAIN apply[h].old
        BY <1>2, ApplyParts DEF RestorePage, RestorePageFails
      <3>2. apply[h].old \in [DOMAIN apply[h].old -> Contents]
        BY ApplyParts, WebParts
      <3>3. QED
        BY <3>1, <3>2
    <2>2. web' \in Webs
      <3>1. With(web, p, apply[h].old[p]) \in Webs /\ With(web, p, Torn) \in Webs
        BY <2>1, ApplyParts, WithType, Templates
      <3>2. QED
        BY <1>2, <3>1, ApplyParts DEF RestorePage, RestorePageFails
    <2>3. \E a \in Apply : a.todo \subseteq DOMAIN a.old /\ apply' = [apply EXCEPT ![h] = a]
      <3> DEFINE a == [apply[h] EXCEPT !.todo = @ \ {p}]
                 b == [apply[h] EXCEPT !.todo = @ \ {p}, !.errs = TRUE]
      <3>1. a \in Apply /\ b \in Apply
        BY ApplyParts DEF Apply
      <3>2. a.todo \subseteq DOMAIN a.old /\ b.todo \subseteq DOMAIN b.old
        BY ApplyParts DEF Apply
      <3>3. apply' = [apply EXCEPT ![h] = a] \/ apply' = [apply EXCEPT ![h] = b]
        BY <1>2, ApplyParts DEF RestorePage, RestorePageFails
      <3> HIDE DEF a, b
      <3>4. QED
        BY <3>1, <3>2, <3>3
    <2>4. UNCHANGED <<sound, conf, serving, repo, cache>>
      BY <1>2 DEF RestorePage, RestorePageFails
    <2>5. QED
      BY <2>2, <2>3, <2>4, ApplyTypes
  <1>3. QED
    BY <1>1, <1>2

LEMMA SiteNextTypes == ASSUME WellTyped, SiteNext, UNCHANGED panelVars PROVE WellTyped'
  <1>1. SettingsTypes /\ ControlTypes /\ SiteTypes
    BY TypeParts
  <1>2. SettingsTypes'
    BY <1>1, SettingsStay DEF panelVars
  <1>3. UNCHANGED job
    BY DEF panelVars
  <1>4. ASSUME NEW h \in Handlers, SiteSteps(h) PROVE WellTyped'
    <2>1. SiteTypes'
      BY <1>1, <1>4, SnapshotTypes, ApplyEnds, WriteTypes, RollbackTypes DEF SiteSteps
    <2>2. ControlTypes'
      <3>1. h \in Procs
        BY DEF Procs
      <3>2. CASE ApplyBuiltin(h) \/ Upload(h) \/ Remote(h)
        BY <1>1, <1>3, <3>1, <3>2, Begins, NoJobType DEF ApplyBuiltin, Upload, Remote, PC
      <3>3. CASE \/ Downloaded(h) \/ DownloadFails(h) \/ Written(h) \/ WritePageFails(h)
                 \/ Reload(h) \/ ReloadFails(h) \/ RemoveWritten(h) \/ RolledBack(h)
        BY <1>1, <1>3, <3>1, <3>3, GoesOn, NoJobType
           DEF Downloaded, DownloadFails, Written, WritePageFails, Reload, ReloadFails,
               RemoveWritten, RolledBack, Goto, PC
      <3>4. CASE WritePage(h) \/ \E p \in Pages : RestorePage(h, p) \/ RestorePageFails(h, p)
        BY <1>1, <1>3, <3>4 DEF WritePage, RestorePage, RestorePageFails, ControlTypes
      <3>5. QED
        BY <1>4, <3>2, <3>3, <3>4 DEF SiteSteps
    <2>3. QED
      BY <1>2, <2>1, <2>2, TypesAfter
  <1>5. CASE CacheExpires
    BY <1>1, <1>2, <1>3, <1>5, TypesAfter DEF CacheExpires, ControlTypes, SiteTypes, SiteTypeOK
  <1>6. CASE RepositoryChanges \/ EditNginx
    <2>1. ControlTypes'
      <3>1. steps' \in 0..MaxSteps
        BY <1>1, <1>6, Counts DEF RepositoryChanges, EditNginx
      <3>2. QED
        BY <1>1, <1>3, <1>6, <3>1 DEF RepositoryChanges, EditNginx, ControlTypes
    <2>2. SiteTypes'
      BY <1>1, <1>6 DEF RepositoryChanges, EditNginx, SiteTypes, SiteTypeOK
    <2>3. QED
      BY <1>2, <2>1, <2>2, TypesAfter
  <1>7. QED
    BY <1>4, <1>5, <1>6 DEF SiteNext

LEMMA InitTypes == ASSUME Init PROVE WellTyped
  <1>1. Domained(Config) \in Flags
    BY SettingsAssumption, DomainedParts
  <1>2. SettingsTypes
    BY <1>1, SettingsAssumption, FlagsParts DEF Init, SettingsTypes, Rows, Svc
  <1>3. ControlTypes
    BY NoJobType, Numbers DEF Init, ControlTypes, PC
  <1>4. SiteTypes
    <2>1. web \in Webs
      <3>1. Index \in Pages /\ "legacy" \in Contents
        BY Numbers, Templates DEF Index, Pages
      <3>2. {Index} \in SUBSET Pages /\ [p \in {Index} |-> "legacy"] \in [{Index} -> Contents]
        BY <3>1
      <3>3. [p \in {Index} |-> "legacy"] \in Webs
        BY <3>2, WebMade
      <3>4. QED
        BY <3>3 DEF Init, SiteInit
    <2>2. repo \in Offered
      BY SiteAssumption DEF Init, SiteInit, AnyOffer, Valid
    <2>3. NoApply.todo \subseteq DOMAIN NoApply.old
      BY DEF NoApply
    <2>4. sound = TRUE /\ conf = {} /\ serving = {} /\ cache = {} /\ apply = [h \in Handlers |-> NoApply]
      BY DEF Init, SiteInit
    <2>5. QED
      BY <2>1, <2>2, <2>3, <2>4, NoApplyType DEF SiteTypes, SiteTypeOK
  <1>5. QED
    BY <1>2, <1>3, <1>4, TypeParts

LEMMA NextTypes == ASSUME WellTyped, [Next]_vars PROVE WellTyped'
  <1>1. CASE UNCHANGED vars
    <2>1. SettingsTypes /\ ControlTypes /\ SiteTypes
      BY TypeParts
    <2>2. SiteTypes' /\ SettingsTypes' /\ ControlTypes'
      BY <1>1, <2>1, SiteStays, SettingsStay DEF vars, ControlTypes
    <2>3. QED
      BY <2>2, TypesAfter
  <1>2. CASE Panel
    BY <1>2, PanelTypes DEF Panel
  <1>3. CASE CLI
    BY <1>3, HostTypes, RenderTypes, SiteStepTypes, RestartTypes DEF CLI
  <1>4. CASE RestartPanel \/ RestartTeleproxy \/ RestartSingbox \/ (SiteNext /\ UNCHANGED panelVars)
    BY <1>4, HostTypes, SiteNextTypes
  <1>5. QED
    BY <1>1, <1>2, <1>3, <1>4 DEF Next

LEMMA Typed == Spec => []WellTyped
  <1>1. QED
    BY InitTypes, NextTypes, PTL DEF Spec

\* Whatever overlaps and fails, every variable keeps its type: the form, config.toml and the
\* table never hold a setting that is not one, and the web root only files that were written.
THEOREM TypeCorrect == Spec => []TypeOK
  <1>1. WellTyped => TypeOK
    BY DEF WellTyped
  <1>2. QED
    BY <1>1, Typed, PTL

-----------------------------------------------------------------------------
(* One at a time. *)

LEMMA NobodyActive == Active = {} <=> \A p \in Procs : pc[p] = "idle"
  BY DEF Active

\* A request or a run begins when nothing else is under way.
LEMMA BeginsAlone ==
    ASSUME OneByOne, NEW p \in Procs, NEW to, Begin(p, to) PROVE Active = {}
  <1>1. IsFiniteSet(Procs)
    <2>1. IsFiniteSet({Reconciler})
      BY FS_Singleton
    <2>2. QED
      BY <2>1, Numbers, FS_Union DEF Procs
  <1>2. IsFiniteSet(Active)
    BY <1>1, FS_Subset DEF Active
  <1>3. Cardinality(Active) \in Nat /\ Cardinality(Active) < 1
    BY <1>2, FS_CardinalityType DEF Begin, OneByOne
  <1>4. Cardinality(Active) = 0
    BY <1>3
  <1>5. QED
    BY <1>2, <1>4, FS_EmptySet

\* Who takes a step is alone, before it and after.
Alone(p) == \A q \in Procs \ {p} : pc[q] = "idle"

LEMMA StaysAlone ==
    ASSUME ControlTypes, NEW p \in Procs, NEW to \in PC, Alone(p), pc' = [pc EXCEPT ![p] = to]
    PROVE  Alone(p)' /\ pc'[p] = to
  BY DEF Alone, ControlTypes

LEMMA AtWorkAlone ==
    ASSUME OneAtWork, NEW p \in Procs, pc[p] # "idle" \/ Active = {} PROVE Alone(p)
  BY NobodyActive DEF OneAtWork, Alone

\* A request at rest keeps every promise.
LEMMA IdleKeeps ==
    ASSUME NEW h \in Handlers, pc[h] = "idle" PROVE Saving(h) /\ Panelled(h) /\ Replacing(h)
  BY DEF Saving, RowsSaved, Panelled, Replacing

LEMMA IdleKeepsAfter ==
    ASSUME NEW h \in Handlers, pc'[h] = "idle" PROVE Saving(h)' /\ Panelled(h)' /\ Replacing(h)'
  BY DEF Saving, RowsSaved, Panelled, Replacing

\* After a step of a request.
LEMMA HandlerStep ==
    ASSUME NEW h \in Handlers, Alone(h)', Saving(h)', Panelled(h)', Replacing(h)',
           pc'[h] = "idle" => Settled'
    PROVE  Inductive'
  <1>1. h \in Procs /\ R \in Procs \ {h} /\ Handlers \subseteq Procs
    BY Numbers DEF Procs, R
  <1>2. OneAtWork'
    BY <1>1 DEF Alone, OneAtWork
  <1>3. Reconciling'
    BY <1>1 DEF Alone, Reconciling
  <1>4. Resting'
    BY <1>1 DEF Resting, Active
  <1>5. ASSUME NEW g \in Handlers PROVE Saving(g)' /\ Panelled(g)' /\ Replacing(g)'
    <2>1. CASE g = h
      BY <2>1
    <2>2. CASE g # h
      BY <1>1, <2>2, IdleKeepsAfter DEF Alone
    <2>3. QED
      BY <2>1, <2>2
  <1>6. QED
    BY <1>2, <1>3, <1>4, <1>5 DEF Inductive

\* After a step of reconcile.
LEMMA ReconcilerStep ==
    ASSUME Alone(R)', Reconciling', pc'[R] = "idle" => Settled'
    PROVE  Inductive'
  <1>1. R \in Procs /\ Handlers \subseteq Procs \ {R}
    BY Numbers DEF Procs, R
  <1>2. OneAtWork'
    BY <1>1 DEF Alone, OneAtWork
  <1>3. Resting'
    BY <1>1 DEF Resting, Active
  <1>4. ASSUME NEW g \in Handlers PROVE Saving(g)' /\ Panelled(g)' /\ Replacing(g)'
    BY <1>1, IdleKeepsAfter DEF Alone
  <1>5. QED
    BY <1>2, <1>3, <1>4, Reconciling' DEF Inductive

\* A run that fails leaves its mishap behind.
LEMMA FailsAlone ==
    ASSUME ControlTypes, Inductive, NEW p \in Procs, NEW m, Abort(p, m), pc[p] # "idle"
    PROVE  Inductive'
  <1>1. Alone(p)
    BY AtWorkAlone DEF Inductive
  <1>2. Alone(p)' /\ pc'[p] = "idle"
    BY <1>1, StaysAlone DEF Abort, PC
  <1>3. ~Calm'
    BY DEF Abort, Note, Calm
  <1>4. CASE p \in Handlers
    BY <1>2, <1>3, <1>4, IdleKeepsAfter, HandlerStep DEF Settled
  <1>5. CASE p = R
    BY <1>2, <1>3, <1>5, ReconcilerStep DEF Settled, Reconciling
  <1>6. QED
    BY <1>4, <1>5 DEF Procs, R

LEMMA StartedParts ==
    ASSUME SettingsTypes
    PROVE  \A k \in Names :
              /\ Rendered(Overridden(loaded))[k] = Overridden(loaded)[k]
              /\ Overridden(loaded)[k] =
                    IF db[k] \notin {Unset, Nothing} THEN db[k] ELSE loaded[k]
  BY OverriddenParts, RenderedAt DEF SettingsTypes, Names

LEMMA StartedAfter ==
    ASSUME SettingsTypes'
    PROVE  \A k \in Names :
              Overridden(loaded)'[k] = IF db'[k] \notin {Unset, Nothing} THEN db'[k] ELSE loaded'[k]
  <1> DEFINE f == loaded'
             g == [k \in DOMAIN f |-> IF db'[k] \notin {Unset, Nothing} THEN db'[k] ELSE f[k]]
  <1>1. f \in Flags /\ DOMAIN f = {"mask", "backend", "path"}
    BY FlagsParts DEF SettingsTypes
  <1>2. Overridden(loaded)' = g
    BY DEF Overridden
  <1>3. QED
    BY <1>1, <1>2 DEF Names

\* A panel that starts has in force what the flags and the database say.
LEMMA StartsRemembered ==
    ASSUME SettingsTypes, mem' = Rendered(Overridden(loaded)), UNCHANGED <<db, loaded>>
    PROVE  Remembered'
  <1>1. Overridden(loaded)' = Overridden(loaded) /\ Held' = Held
    BY DEF Overridden, Held
  <1>2. QED
    BY <1>1, StartedParts, HeldNames DEF Remembered

LEMMA RememberedStays == ASSUME Remembered, UNCHANGED <<db, mem, loaded>> PROVE Remembered'
  BY DEF Remembered, Held, Overridden

LEMMA InForceStays ==
    ASSUME InForce, UNCHANGED <<db, mem, loaded, toml, tp>> PROVE InForce'
  BY RememberedStays DEF InForce, Held

LEMMA SettledStays ==
    ASSUME Settled, UNCHANGED <<db, mem, url, unit, loaded, toml, tp, mishaps>>,
           serving' = conf' \/ UNCHANGED <<serving, conf>>
    PROVE  Settled'
  <1>1. InForce => InForce'
    BY InForceStays
  <1>2. QED
    BY <1>1 DEF Settled, Applied, Calm

-----------------------------------------------------------------------------
(* The panel's requests about the settings. *)

\* What the steps of a request need: it is alone, and so are its promises.
Ready(h) == WellTyped /\ Inductive /\ OneByOne /\ h \in Handlers

LEMMA ReadyParts ==
    ASSUME NEW h, Ready(h)
    PROVE  /\ SettingsTypes /\ ControlTypes /\ SiteTypes /\ h \in Procs /\ h \in Handlers
           /\ Saving(h) /\ Panelled(h) /\ Replacing(h)
           /\ pc[h] # "idle" => Alone(h)
  <1>1. SettingsTypes /\ ControlTypes /\ SiteTypes /\ h \in Procs /\ h \in Handlers
    BY TypeParts DEF Ready, Procs
  <1>2. Saving(h) /\ Panelled(h) /\ Replacing(h)
    BY <1>1 DEF Ready, Inductive
  <1>3. pc[h] # "idle" => Alone(h)
    BY <1>1, AtWorkAlone DEF Ready, Inductive
  <1>4. QED
    BY <1>1, <1>2, <1>3

LEMMA ReadyBegins ==
    ASSUME NEW h, Ready(h), NEW to \in PC, Begin(h, to)
    PROVE  Settled /\ Alone(h) /\ Alone(h)' /\ pc'[h] = to /\ pc[h] = "idle"
  <1>1. h \in Procs /\ ControlTypes
    BY ReadyParts
  <1>2. Active = {}
    BY <1>1, BeginsAlone DEF Ready
  <1>3. Alone(h)
    BY <1>1, <1>2, AtWorkAlone DEF Ready, Inductive
  <1>4. Alone(h)' /\ pc'[h] = to
    BY <1>1, <1>3, StaysAlone DEF Begin, Goto
  <1>5. QED
    BY <1>2, <1>3, <1>4 DEF Ready, Inductive, Resting, Begin, Goto

LEMMA ReadyGoes ==
    ASSUME NEW h, Ready(h), NEW from, from # "idle", NEW to \in PC, Goto(h, from, to)
    PROVE  Alone(h) /\ Alone(h)' /\ pc'[h] = to /\ pc[h] = from
  BY ReadyParts, StaysAlone DEF Goto

\* A request that has nothing to do with the site.
LEMMA NotReplacing ==
    ASSUME NEW h, pc'[h] \notin {"write", "reload", "remove", "restore"} PROVE Replacing(h)'
  BY DEF Replacing

LEMMA SaveKeeps == ASSUME NEW h, Ready(h), Save(h) PROVE Inductive'
  <1>1. Settled /\ Alone(h)' /\ pc'[h] = "save_mask"
    BY ReadyBegins DEF Save, PC
  <1>2. job'[h].signal = "restart"
    BY ReadyParts DEF Save, ControlTypes
  <1>3. Settled'
    BY <1>1, SettledStays DEF Save, siteVars
  <1>4. Saving(h)'
    BY <1>1, <1>2 DEF Saving, RowsSaved
  <1>5. Panelled(h)'
    BY <1>3 DEF Panelled, Settled
  <1>6. QED
    BY <1>1, <1>4, <1>5, NotReplacing, HandlerStep DEF Ready

LEMMA SaveRowKeeps == ASSUME NEW h, Ready(h), SaveMask(h) \/ SaveBackend(h) PROVE Inductive'
  <1>1. CASE SaveMask(h)
    <2>1. Alone(h)' /\ pc'[h] = "save_backend" /\ pc[h] = "save_mask"
      BY <1>1, ReadyGoes DEF SaveMask, PC
    <2>2. /\ db'.mask = job'[h].flags.mask /\ job' = job
          /\ UNCHANGED <<serving, conf, mishaps, unit, loaded, url>>
      BY <1>1, ReadyParts DEF SaveMask, SettingsTypes, Rows, siteVars
    <2>3. Saving(h)'
      BY <2>1, <2>2, ReadyParts DEF Saving, RowsSaved
    <2>4. Panelled(h)'
      BY <2>1, <2>2, ReadyParts DEF Panelled, Leaving, Applied, Calm
    <2>5. QED
      BY <2>1, <2>3, <2>4, NotReplacing, HandlerStep DEF Ready
  <1>2. CASE SaveBackend(h)
    <2>1. Alone(h)' /\ pc'[h] = "memory" /\ pc[h] = "save_backend"
      BY <1>2, ReadyGoes DEF SaveBackend, PC
    <2>2. /\ db'.backend = job'[h].flags.backend /\ db'.mask = db.mask /\ job' = job
          /\ UNCHANGED <<serving, conf, mishaps, unit, loaded, url>>
      BY <1>2, ReadyParts DEF SaveBackend, SettingsTypes, Rows, siteVars
    <2>3. Saving(h)'
      BY <2>1, <2>2, ReadyParts DEF Saving, RowsSaved
    <2>4. Panelled(h)'
      BY <2>1, <2>2, ReadyParts DEF Panelled, Leaving, Applied, Calm
    <2>5. QED
      BY <2>1, <2>3, <2>4, NotReplacing, HandlerStep DEF Ready
  <1>3. QED
    BY <1>1, <1>2

LEMMA UpdateMemoryKeeps == ASSUME NEW h, Ready(h), UpdateMemory(h) PROVE Inductive'
  <1>1. Alone(h)' /\ pc'[h] = "render" /\ pc[h] = "memory"
    BY ReadyGoes DEF UpdateMemory, PC
  <1>2. /\ mem' = Rendered(job[h].flags) /\ job' = job /\ db' = db
        /\ UNCHANGED <<serving, conf, mishaps, unit, loaded, url>>
    BY DEF UpdateMemory, siteVars
  <1>3. Rendered(job[h].flags)' = Rendered(job[h].flags)
    BY <1>2
  <1>4. Saving(h)'
    BY <1>1, <1>2, <1>3, ReadyParts DEF Saving, RowsSaved
  <1>5. Panelled(h)'
    BY <1>1, <1>2, ReadyParts DEF Panelled, Leaving, Applied, Calm, Saving
  <1>6. QED
    BY <1>1, <1>4, <1>5, NotReplacing, HandlerStep DEF Ready

LEMMA ReloadUsersKeeps == ASSUME NEW h, Ready(h), ReloadUsers(h) PROVE Inductive'
  <1>1. Settled /\ Alone(h)' /\ pc'[h] = "render"
    BY ReadyBegins DEF ReloadUsers, PC
  <1>2. job'[h].signal = "reload"
    BY ReadyParts DEF ReloadUsers, ControlTypes, NoJob
  <1>3. Settled'
    BY <1>1, SettledStays DEF ReloadUsers, siteVars
  <1>4. Saving(h)'
    BY <1>1, <1>2 DEF Saving, RowsSaved
  <1>5. Panelled(h)'
    BY <1>3 DEF Panelled, Settled
  <1>6. QED
    BY <1>1, <1>4, <1>5, NotReplacing, HandlerStep DEF Ready

LEMMA RenderKeeps == ASSUME NEW h, Ready(h), Render(h) PROVE Inductive'
  <1>1. Alone(h)' /\ pc'[h] = "signal" /\ pc[h] = "render"
    BY ReadyGoes DEF Render, PC
  <1>2. /\ toml' = mem /\ job' = job
        /\ UNCHANGED <<db, mem, tp, serving, conf, mishaps, unit, loaded, url>>
    BY DEF Render, siteVars
  <1>3. Rendered(job[h].flags)' = Rendered(job[h].flags)
    BY <1>2
  <1>4. Saving(h)'
    BY <1>1, <1>2, <1>3, ReadyParts DEF Saving, RowsSaved
  <1>5. InForce => InForce'
    <2>1. Held' = Held /\ (Remembered => Remembered')
      BY <1>2, RememberedStays DEF Held
    <2>2. QED
      BY <1>2, <2>1 DEF InForce
  <1>6. Panelled(h)'
    BY <1>1, <1>2, <1>5, ReadyParts DEF Panelled, Leaving, Applied, Calm
  <1>7. QED
    BY <1>1, <1>4, <1>6, NotReplacing, HandlerStep DEF Ready

\* The settings a form has saved are the ones of a panel that starts, but for empty ones.
LEMMA SavedStarts ==
    ASSUME SettingsTypes, NEW f \in Flags, db.mask = f.mask, db.backend = f.backend
    PROVE  \A k \in Held : Rendered(f)[k] = Overridden(loaded)[k]
  <1>1. ASSUME NEW k \in Held PROVE Rendered(f)[k] = Overridden(loaded)[k]
    <2>1. k \in Names /\ db[k] # Nothing /\ db[k] = f[k]
      BY HeldNames DEF Held, Names
    <2>2. db[k] # Unset
      BY <2>1, FlagsParts, SettingsAssumption DEF Names
    <2>3. QED
      BY <2>1, <2>2, StartedParts, RenderedAt
  <1>2. QED
    BY <1>1

LEMMA SignalKeeps == ASSUME NEW h, Ready(h), Signal(h) PROVE Inductive'
  <1>1. Alone(h)' /\ pc'[h] = "idle" /\ pc[h] = "signal"
    BY ReadyGoes DEF Signal, PC
  <1>2. UNCHANGED <<db, mem, toml, serving, conf, mishaps, unit, loaded, url>>
    BY DEF Signal, siteVars
  <1>3. Held' = Held
    BY <1>2 DEF Held
  <1>4. ASSUME Calm PROVE InForce'
    <2>1. CASE job[h].signal = "restart"
      <3>1. mem = Rendered(job[h].flags) /\ toml = mem /\ job[h].flags \in Flags
            /\ db.mask = job[h].flags.mask /\ db.backend = job[h].flags.backend
        BY <1>1, <2>1, ReadyParts, JobParts DEF Saving
      <3>2. \A k \in Held : Rendered(job[h].flags)[k] = Overridden(loaded)[k]
        BY <3>1, ReadyParts, SavedStarts
      <3>3. Remembered
        BY <3>1, <3>2 DEF Remembered
      <3>4. Remembered'
        BY <1>2, <3>3, RememberedStays
      <3>5. tp' = mem
        BY <2>1, <3>1 DEF Signal
      <3>6. QED
        BY <1>2, <3>1, <3>4, <3>5 DEF InForce
    <2>2. CASE job[h].signal # "restart"
      <3>1. job[h].signal = "reload" /\ tp' = tp
        BY <2>2, ReadyParts, JobParts DEF Signal
      <3>2. InForce
        BY <1>1, <1>4, <3>1, ReadyParts DEF Panelled, Leaving
      <3>3. QED
        BY <1>2, <3>1, <3>2, InForceStays
    <2>3. QED
      BY <2>1, <2>2
  <1>5. Settled'
    BY <1>1, <1>2, <1>4, ReadyParts DEF Settled, Panelled, Applied, Calm
  <1>6. QED
    BY <1>1, <1>5, IdleKeepsAfter, HandlerStep DEF Ready

LEMMA SavePathKeeps == ASSUME NEW h, Ready(h), SavePath(h) PROVE Inductive'
  <1>1. Settled /\ Alone(h)' /\ pc'[h] = "idle"
    BY ReadyBegins DEF SavePath, PC
  <1>2. /\ db'.mask = db.mask /\ db'.backend = db.backend
        /\ UNCHANGED <<mem, tp, toml, serving, conf, mishaps, unit, loaded, url>>
    BY ReadyParts DEF SavePath, siteVars, SettingsTypes, Rows
  <1>3. SettingsTypes'
    <2>1. WellTyped'
      BY PanelTypes DEF Ready
    <2>2. QED
      BY <2>1 DEF WellTyped, TypeOK, SettingsTypes, Rows, Svc
  <1>4. Held' = Held /\ \A k \in Held : Overridden(loaded)'[k] = Overridden(loaded)[k]
    <2>1. \A k \in Names : db'[k] = db[k]
      BY <1>2 DEF Names
    <2>2. Held' = Held
      BY <2>1 DEF Held, Names
    <2>3. QED
      BY <1>2, <1>3, <2>1, <2>2, ReadyParts, StartedParts, StartedAfter, HeldNames
  <1>5. InForce => InForce'
    BY <1>2, <1>4 DEF InForce, Remembered
  <1>7. Settled'
    BY <1>1, <1>2, <1>5 DEF Settled, Applied, Calm
  <1>8. QED
    BY <1>1, <1>7, IdleKeepsAfter, HandlerStep DEF Ready

LEMMA PanelKeeps == ASSUME WellTyped, Inductive, OneByOne, Panel PROVE Inductive'
  <1>1. PICK h \in Handlers :
            \/ Save(h) \/ SaveMask(h) \/ SaveBackend(h) \/ SaveFails(h) \/ UpdateMemory(h)
            \/ ReloadUsers(h) \/ Render(h) \/ Signal(h) \/ ApplyFails(h) \/ SavePath(h)
    BY DEF Panel
  <1>2. Ready(h)
    BY DEF Ready
  <1>3. CASE SaveFails(h) \/ ApplyFails(h)
    BY <1>2, <1>3, ReadyParts, FailsAlone DEF SaveFails, ApplyFails
  <1>4. QED
    BY <1>1, <1>2, <1>3, SaveKeeps, SaveRowKeeps, UpdateMemoryKeeps, ReloadUsersKeeps,
       RenderKeeps, SignalKeeps, SavePathKeeps

-----------------------------------------------------------------------------
(* What may happen at any time. *)

\* A run goes on to promise what it did when only a service is restarted.
LEMMA ReconcilingStays ==
    ASSUME Reconciling,
           UNCHANGED <<db, mem, url, unit, loaded, toml, mishaps, conf, serving, pc, job>>,
           svc'.file = svc.file, svc'.loaded = svc.loaded, svc.running \subseteq svc'.running,
           tp' \in {tp, toml}
    PROVE  Reconciling'
  <1>1. Held' = Held /\ (Remembered => Remembered') /\ (ReadIt => ReadIt')
    BY RememberedStays DEF Held, ReadIt
  <1>2. InForce => InForce'
    BY <1>1 DEF InForce
  <1>3. Chosen(job[R].flags)' <=> Chosen(job[R].flags)
    BY <1>1 DEF Chosen, Overridden
  <1>4. (FlagsUsed => FlagsUsed') /\ (UnitsKnown => UnitsKnown')
    BY <1>1, RememberedStays DEF FlagsUsed, UnitsKnown
  <1>5. Rendered(job[R].flags)' = Rendered(job[R].flags)
    OBVIOUS
  <1>6. QED
    BY <1>1, <1>2, <1>3, <1>4, <1>5 DEF Reconciling, Calm, Applied

\* Nobody takes a step, and nothing changes that a promise is about, but that a service may
\* have been restarted.
LEMMA NobodySteps ==
    ASSUME Inductive, UNCHANGED <<db, mem, url, unit, loaded, toml, mishaps>>,
           UNCHANGED <<web, conf, serving, apply, pc, job>>,
           svc'.file = svc.file, svc'.loaded = svc.loaded, svc.running \subseteq svc'.running,
           tp' \in {tp, toml}
    PROVE  Inductive'
  <1>1. InForce => InForce'
    BY RememberedStays DEF InForce, Held
  <1>2. OneAtWork'
    BY DEF Inductive, OneAtWork
  <1>3. Resting'
    BY <1>1 DEF Inductive, Resting, Active, Settled, Applied, Calm
  <1>4. Reconciling'
    BY ReconcilingStays DEF Inductive
  <1>5. ASSUME NEW h \in Handlers PROVE Saving(h)' /\ Panelled(h)' /\ Replacing(h)'
    <2>1. Saving(h)'
      BY DEF Inductive, Saving, RowsSaved, Rendered
    <2>2. Panelled(h)'
      BY <1>1 DEF Inductive, Panelled, Leaving, Applied, Calm
    <2>3. Replacing(h)'
      BY DEF Inductive, Replacing, Placed
    <2>4. QED
      BY <2>1, <2>2, <2>3
  <1>6. QED
    BY <1>2, <1>3, <1>4, <1>5 DEF Inductive

LEMMA RestartServiceKeeps ==
    ASSUME WellTyped, Inductive, RestartTeleproxy \/ RestartSingbox PROVE Inductive'
  <1>1. /\ tp' \in {tp, toml}
        /\ UNCHANGED <<web, conf, serving, apply, pc, job, db, mem, url, unit, loaded, toml, mishaps>>
    BY DEF RestartTeleproxy, RestartSingbox, siteVars
  <1>2. svc \in Svc
    BY TypeParts DEF SettingsTypes
  <1>3. svc'.file = svc.file /\ svc'.loaded = svc.loaded /\ svc.running \subseteq svc'.running
    BY <1>2 DEF RestartTeleproxy, RestartSingbox, Started, Svc
  <1>4. QED
    BY <1>1, <1>3, NobodySteps

\* A restart of the panel finds the settings in force that its memory had.
LEMMA RestartPanelKeeps == ASSUME WellTyped, Inductive, RestartPanel PROVE Inductive'
  <1>1. ControlTypes
    BY TypeParts
  <1>2. /\ mem' = Rendered(Overridden(loaded)) /\ url' = loaded.path
        /\ pc' = [p \in Procs |-> IF p \in Handlers THEN "idle" ELSE pc[p]]
        /\ job' = [p \in Procs |-> IF p \in Handlers THEN NoJob ELSE job[p]]
        /\ UNCHANGED <<conf, serving, db, unit, loaded, toml, tp, svc>>
    BY DEF RestartPanel, PanelStarts
  <1>3. R \in Procs /\ R \notin Handlers
    BY Numbers DEF R, Procs
  <1>4. Remembered' /\ Held' = Held
    <2>1. SettingsTypes
      BY TypeParts
    <2>2. QED
      BY <1>2, <2>1, StartsRemembered DEF Held
  <1>5. pc'[R] = pc[R] /\ job'[R] = job[R]
    BY <1>2, <1>3
  <1>6. \A h \in Handlers : pc'[h] = "idle"
    BY <1>2 DEF Procs
  <1>7. OneAtWork'
    BY <1>6 DEF OneAtWork, Procs
  <1>8. ASSUME NEW h \in Handlers PROVE Saving(h)' /\ Panelled(h)' /\ Replacing(h)'
    BY <1>6, IdleKeepsAfter
  <1>9. CASE Active \cap Handlers # {}
    <2>1. ~Calm'
      BY <1>9 DEF RestartPanel, Calm
    <2>2. QED
      BY <1>7, <1>8, <2>1 DEF Inductive, Resting, Settled, Reconciling
  <1>10. CASE Active \cap Handlers = {}
    <2>1. mishaps' = mishaps
      BY <1>10 DEF RestartPanel
    <2>2. InForce => InForce'
      <3>1. ASSUME Remembered, NEW k \in Held PROVE mem'[k] = mem[k]
        BY <1>2, <1>4, <3>1 DEF Remembered, Overridden
      <3>2. QED
        BY <1>2, <1>4, <3>1 DEF InForce
    <2>3. Applied => Applied'
      BY <1>2 DEF Applied
    <2>4. Resting'
      <3>1. Active' = {} => Active = {}
        BY <1>2, <1>10 DEF Active
      <3>2. QED
        BY <1>2, <2>1, <2>2, <2>3, <3>1 DEF Inductive, Resting, Settled, Calm
    <2>5. Reconciling'
      <3>1. Chosen(job[R].flags)' <=> Chosen(job[R].flags)
        <4>1. job'[R].flags = job[R].flags /\ db' = db
          BY <1>2, <1>5
        <4>2. QED
          BY <1>4, <4>1 DEF Chosen, Overridden
      <3>2. Rendered(job[R].flags)' = Rendered(job[R].flags)
        BY <1>5 DEF Rendered
      <3>3. FlagsUsed => FlagsUsed'
        BY <1>2, <1>4, <1>5 DEF FlagsUsed
      <3>4. (ReadIt => ReadIt') /\ (UnitsKnown => UnitsKnown')
        BY <1>2, <1>4, <1>5 DEF ReadIt, UnitsKnown
      <3>5. ASSUME Calm, pc[R] # "idle" PROVE Reconciling'
        BY <1>2, <1>4, <1>5, <2>2, <2>3, <3>1, <3>2, <3>3, <3>4, <3>5 DEF Inductive, Reconciling
      <3>6. QED
        BY <1>5, <2>1, <3>5 DEF Reconciling, Calm
    <2>6. QED
      BY <1>7, <1>8, <2>4, <2>5 DEF Inductive
  <1>11. QED
    BY <1>9, <1>10

-----------------------------------------------------------------------------
(* The steps of reconcile. *)

LEMMA RunGoes ==
    ASSUME WellTyped, Inductive, NEW from, from # "idle", NEW to \in PC, Goto(R, from, to)
    PROVE  /\ Alone(R) /\ Alone(R)' /\ pc'[R] = to /\ pc[R] = from
           /\ SettingsTypes /\ ControlTypes /\ R \in Procs /\ Reconciling
  <1>1. SettingsTypes /\ ControlTypes /\ R \in Procs
    BY TypeParts DEF R, Procs
  <1>2. QED
    BY <1>1, AtWorkAlone, StaysAlone DEF Inductive, Goto

LEMMA ReconcileKeeps == ASSUME WellTyped, Inductive, OneByOne, Reconcile PROVE Inductive'
  <1> DEFINE f == Domained(Overridden(config))
  <1>1. SettingsTypes /\ ControlTypes /\ R \in Procs
    BY TypeParts DEF R, Procs
  <1>2. Active = {} /\ pc' = [pc EXCEPT ![R] = "rc_toml"]
    BY <1>1, BeginsAlone DEF Reconcile, Begin, Goto
  <1>3. Settled /\ Alone(R)' /\ pc'[R] = "rc_toml"
    BY <1>1, <1>2, AtWorkAlone, StaysAlone DEF Inductive, Resting, PC
  <1>4. job'[R].flags = f /\ UNCHANGED <<serving, conf>>
    BY <1>1 DEF Reconcile, ControlTypes, NoJob, siteVars
  <1>5. Settled'
    BY <1>3, SettledStays DEF Reconcile, siteVars
  <1>6. f \in Flags /\ Chosen(f)
    <2>1. Overridden(config) \in Flags /\ db \in Rows /\ config \in Flags
      BY <1>1, OverriddenParts DEF SettingsTypes
    <2>2. f \in Flags /\ (PanelDomain = Unset => f = Overridden(config))
          /\ (PanelDomain # Unset => \A k \in Names : f[k] = Own(k))
      BY <2>1, DomainedParts DEF Names
    <2> HIDE DEF f
    <2>3. \A k \in Names :
             /\ Overridden(f)[k] = (IF db[k] \notin {Unset, Nothing} THEN db[k] ELSE f[k])
             /\ Overridden(config)[k] =
                   (IF db[k] \notin {Unset, Nothing} THEN db[k] ELSE config[k])
      BY <2>1, <2>2, OverriddenParts DEF Names
    <2>4. ASSUME NEW k \in Held
          PROVE  f[k] \in {Own(k), Overridden(f)[k]} /\ (PanelDomain # Unset => f[k] = Own(k))
      <3>1. k \in Names
        BY HeldNames
      <3>2. QED
        BY <2>2, <2>3, <3>1
    <2>5. QED
      BY <2>2, <2>4 DEF Chosen
  <1> HIDE DEF f
  <1>7. Chosen(job[R].flags)'
    <2>1. Overridden(job[R].flags)' = Overridden(f) /\ Held' = Held
      BY <1>4 DEF Reconcile, Overridden, Held
    <2>2. \A k : Own(k)' = Own(k)
      BY DEF Own
    <2>3. QED
      BY <1>4, <1>6, <2>1, <2>2 DEF Chosen
  <1>8. Reconciling'
    BY <1>3, <1>5, <1>7 DEF Reconciling, Settled, RunSteps, UnitsKnown
  <1>9. QED
    BY <1>3, <1>8, ReconcilerStep

\* What a step of the run leaves alone.
LEMMA Unmoved ==
    ASSUME UNCHANGED db, job'[R].flags = job[R].flags
    PROVE  /\ Held' = Held
           /\ Rendered(job[R].flags)' = Rendered(job[R].flags)
           /\ Chosen(job[R].flags)' <=> Chosen(job[R].flags)
           /\ UNCHANGED <<mem, loaded>> => (Remembered => Remembered')
           /\ UNCHANGED <<toml, tp>> => (ReadIt => ReadIt')
  BY RememberedStays DEF Held, Rendered, Chosen, Overridden, ReadIt

LEMMA WriteTOMLKeeps == ASSUME WellTyped, Inductive, WriteTOML PROVE Inductive'
  <1>1. /\ Alone(R)' /\ pc'[R] = "rc_teleproxy_unit" /\ pc[R] = "rc_toml"
        /\ SettingsTypes /\ ControlTypes /\ R \in Procs /\ Reconciling
    BY RunGoes DEF WriteTOML, PC
  <1>2. /\ toml' = Rendered(job[R].flags) /\ job'[R].flags = job[R].flags
        /\ UNCHANGED <<db, mem, tp, svc, url, unit, loaded, mishaps, serving, conf>>
    BY <1>1, JobParts DEF WriteTOML, ControlTypes, Job, siteVars
  <1>3. job'[R].changed = IF toml' = toml THEN job[R].changed ELSE job[R].changed \cup {"toml"}
    BY <1>1, JobParts DEF WriteTOML, ControlTypes, Job
  <1>4. /\ Held' = Held /\ Rendered(job[R].flags)' = Rendered(job[R].flags)
        /\ Chosen(job[R].flags)' <=> Chosen(job[R].flags)
        /\ Remembered => Remembered'
    BY <1>2, Unmoved
  <1>5. ASSUME Calm, toml' = toml, NEW k \in Held PROVE tp[k] = toml[k]
    <2>1. InForce /\ Chosen(job[R].flags) /\ job[R].flags \in Flags /\ k \in Names
      BY <1>1, <1>5, JobParts, HeldNames DEF Reconciling
    <2>2. toml[k] = job[R].flags[k]
      BY <1>2, <1>5, <2>1, RenderedAt
    <2>3. tp[k] \in {Own(k), toml[k]} /\ (PanelDomain # Unset => toml[k] = Own(k))
      BY <2>1, <2>2 DEF InForce, Chosen
    <2>4. PanelDomain = Unset => Own(k) = Unset
      BY DEF Own
    <2>5. tp[k] # Unset
      BY <1>1, <2>1, SettingsAssumption DEF SettingsTypes, Settings, Names
    <2>6. QED
      BY <2>3, <2>4, <2>5
  <1>6. Calm /\ "toml" \notin job'[R].changed => ReadIt'
    BY <1>2, <1>3, <1>4, <1>5 DEF ReadIt
  <1>7. UnitsKnown'
    BY <1>1 DEF UnitsKnown
  <1>8. Reconciling'
    BY <1>1, <1>2, <1>3, <1>4, <1>6, <1>7 DEF Reconciling, Calm, Applied, InForce, RunSteps
  <1>9. QED
    BY <1>1, <1>8, ReconcilerStep

LEMMA WriteTeleproxyUnitKeeps == ASSUME WellTyped, Inductive, WriteTeleproxyUnit PROVE Inductive'
  <1>1. /\ Alone(R)' /\ pc'[R] = "rc_unit" /\ pc[R] = "rc_teleproxy_unit"
        /\ SettingsTypes /\ ControlTypes /\ R \in Procs /\ Reconciling
    BY RunGoes DEF WriteTeleproxyUnit, PC
  <1>2. UNCHANGED <<job, db, mem, tp, toml, url, unit, loaded, mishaps, serving, conf>>
    BY DEF WriteTeleproxyUnit, WriteServiceUnit, siteVars
  <1>3. "teleproxy" \in svc'.file
    BY <1>1 DEF WriteTeleproxyUnit, WriteServiceUnit, SettingsTypes, Svc
  <1>4. /\ Held' = Held /\ Rendered(job[R].flags)' = Rendered(job[R].flags)
        /\ Chosen(job[R].flags)' <=> Chosen(job[R].flags)
        /\ Remembered => Remembered'
        /\ ReadIt => ReadIt'
    BY <1>2, Unmoved
  <1>5. UnitsKnown'
    BY <1>1, <1>3 DEF UnitsKnown
  <1>6. Reconciling'
    BY <1>1, <1>2, <1>4, <1>5 DEF Reconciling, Calm, Applied, RunSteps
  <1>7. QED
    BY <1>1, <1>6, ReconcilerStep

LEMMA WriteUnitKeeps == ASSUME WellTyped, Inductive, WriteUnit PROVE Inductive'
  <1>1. /\ Alone(R)' /\ pc'[R] = "rc_singbox_unit" /\ pc[R] = "rc_unit"
        /\ SettingsTypes /\ ControlTypes /\ R \in Procs /\ Reconciling
    BY RunGoes DEF WriteUnit, PC
  <1>2. /\ unit' = job[R].flags /\ job'[R].flags = job[R].flags
        /\ UNCHANGED <<db, mem, tp, toml, svc, url, loaded, mishaps, serving, conf>>
    BY <1>1, JobParts DEF WriteUnit, ControlTypes, Job, siteVars
  <1>3. job'[R].changed = IF unit' = unit THEN job[R].changed ELSE job[R].changed \cup {"unit"}
    BY <1>1, JobParts DEF WriteUnit, ControlTypes, Job
  <1>4. /\ Held' = Held /\ Rendered(job[R].flags)' = Rendered(job[R].flags)
        /\ Chosen(job[R].flags)' <=> Chosen(job[R].flags)
        /\ Remembered => Remembered'
        /\ ReadIt => ReadIt'
    BY <1>2, Unmoved
  <1>5. Calm => FlagsUsed'
    BY <1>1, <1>2, <1>3, <1>4 DEF Reconciling, Applied, FlagsUsed
  <1>6. Calm => UnitsKnown'
    BY <1>1, <1>2 DEF Reconciling, UnitsKnown
  <1>7. Reconciling'
    BY <1>1, <1>2, <1>3, <1>4, <1>5, <1>6 DEF Reconciling, Calm, Applied, RunSteps
  <1>8. QED
    BY <1>1, <1>7, ReconcilerStep

LEMMA WriteSingboxUnitKeeps == ASSUME WellTyped, Inductive, WriteSingboxUnit PROVE Inductive'
  <1>1. /\ Alone(R)' /\ pc'[R] = "rc_site" /\ pc[R] = "rc_singbox_unit"
        /\ SettingsTypes /\ ControlTypes /\ R \in Procs /\ Reconciling
    BY RunGoes DEF WriteSingboxUnit, PC
  <1>2. UNCHANGED <<job, db, mem, tp, toml, url, unit, loaded, mishaps, serving, conf>>
    BY DEF WriteSingboxUnit, WriteServiceUnit, siteVars, panelVars
  <1>3. "teleproxy" \in svc.file => svc'.file = Services
    <2>1. svc.file \subseteq Services
      BY <1>1 DEF SettingsTypes, Svc
    <2>2. CASE "sing-box" \in Services
      <3>1. svc'.file = svc.file \cup {"sing-box"}
        BY <1>1, <2>2 DEF WriteSingboxUnit, WriteServiceUnit, SettingsTypes, Svc
      <3>2. QED
        BY <2>1, <2>2, <3>1, SettingsAssumption
    <2>3. CASE "sing-box" \notin Services
      <3>1. svc' = svc
        BY <2>3 DEF WriteSingboxUnit, panelVars
      <3>2. QED
        BY <2>1, <2>3, <3>1, SettingsAssumption
    <2>4. QED
      BY <2>2, <2>3
  <1>4. /\ Held' = Held /\ Rendered(job[R].flags)' = Rendered(job[R].flags)
        /\ Chosen(job[R].flags)' <=> Chosen(job[R].flags)
        /\ Remembered => Remembered'
        /\ ReadIt => ReadIt'
    BY <1>2, Unmoved
  <1>5. FlagsUsed => FlagsUsed'
    BY <1>1, <1>2, <1>4 DEF FlagsUsed
  <1>6. Calm => UnitsKnown'
    <2>1. Calm => svc'.file = Services /\ "teleproxy" \in Services
      BY <1>1, <1>3, SettingsAssumption DEF Reconciling, UnitsKnown
    <2>2. QED
      BY <1>1, <2>1 DEF UnitsKnown
  <1>7. Reconciling'
    BY <1>1, <1>2, <1>4, <1>5, <1>6 DEF Reconciling, Calm, RunSteps
  <1>8. QED
    BY <1>1, <1>7, ReconcilerStep

\* The steps about nginx and the page leave the settings alone.
LEMMA SiteStepKeeps ==
    ASSUME WellTyped, Inductive,
           WriteSite \/ SitesWritten \/ Migrate \/ RemoveDefault \/ RemoveDefaultFails
    PROVE  Inductive'
  <1> DEFINE Sites == {"rc_site", "rc_migrate", "rc_default", "rc_daemon_reload"}
  <1>1. SettingsTypes /\ ControlTypes /\ R \in Procs /\ Reconciling
    BY TypeParts DEF R, Procs, Inductive
  <1>2. pc[R] \in Sites /\ pc'[R] \in Sites /\ Alone(R)'
    <2>1. CASE WriteSite
      <3>1. pc[R] = "rc_site" /\ pc' = pc
        BY <2>1 DEF WriteSite
      <3>2. QED
        BY <1>1, <3>1, AtWorkAlone DEF Inductive, Alone
    <2>2. CASE SitesWritten
      BY <2>2, RunGoes DEF SitesWritten, PC
    <2>3. CASE Migrate
      BY <2>3, RunGoes DEF Migrate, PC
    <2>4. CASE RemoveDefault
      BY <2>4, RunGoes DEF RemoveDefault, PC
    <2>5. CASE RemoveDefaultFails
      BY <2>5, RunGoes DEF RemoveDefaultFails, PC
    <2>6. QED
      BY <2>1, <2>2, <2>3, <2>4, <2>5
  <1>3. UNCHANGED <<db, mem, url, unit, loaded, toml, tp, svc, mishaps, serving>>
    BY DEF WriteSite, SitesWritten, Migrate, RemoveDefault, RemoveDefaultFails, panelVars, siteVars
  <1>4. ASSUME Changed("nginx")
        PROVE  job'[R].flags = job[R].flags /\ job'[R].changed = job[R].changed \cup {"nginx"}
    BY <1>1, <1>4, JobParts DEF Changed, ControlTypes, Job
  <1>5. \/ job' = job /\ conf' = conf
        \/ job'[R].flags = job[R].flags /\ job'[R].changed = job[R].changed \cup {"nginx"}
    <2>1. CASE WriteSite \/ Migrate
      BY <1>4, <2>1 DEF WriteSite, Migrate
    <2>2. CASE SitesWritten \/ RemoveDefaultFails
      BY <2>2 DEF SitesWritten, RemoveDefaultFails, panelVars, siteVars
    <2>3. CASE RemoveDefault
      BY <1>4, <2>3 DEF RemoveDefault
    <2>4. QED
      BY <2>1, <2>2, <2>3
  <1>6. job'[R].flags = job[R].flags /\ ("unit" \in job'[R].changed <=> "unit" \in job[R].changed)
        /\ ("toml" \in job'[R].changed <=> "toml" \in job[R].changed)
        /\ ("nginx" \notin job'[R].changed => "nginx" \notin job[R].changed /\ conf' = conf)
    BY <1>5
  <1>7. /\ Held' = Held /\ Rendered(job[R].flags)' = Rendered(job[R].flags)
        /\ Chosen(job[R].flags)' <=> Chosen(job[R].flags)
        /\ Remembered => Remembered'
        /\ ReadIt => ReadIt'
    BY <1>3, <1>6, Unmoved
  <1>8. FlagsUsed => FlagsUsed'
    BY <1>2, <1>3, <1>6, <1>7 DEF FlagsUsed
  <1>9. Reconciling'
    <2>1. UnitsKnown => UnitsKnown'
      BY <1>2, <1>3, <1>6 DEF UnitsKnown
    <2>2. QED
      BY <1>1, <1>2, <1>3, <1>6, <1>7, <1>8, <2>1 DEF Reconciling, Calm, RunSteps
  <1>10. QED
    BY <1>2, <1>9, ReconcilerStep

LEMMA DaemonReloadKeeps == ASSUME WellTyped, Inductive, DaemonReload PROVE Inductive'
  <1>1. /\ Alone(R)' /\ pc'[R] = "rc_teleproxy" /\ pc[R] = "rc_daemon_reload"
        /\ SettingsTypes /\ ControlTypes /\ R \in Procs /\ Reconciling
    BY RunGoes DEF DaemonReload, PC
  <1>2. /\ loaded' = unit
        /\ UNCHANGED <<job, db, mem, tp, toml, url, unit, mishaps, serving, conf>>
    BY DEF DaemonReload, siteVars
  <1>3. svc'.file = svc.file /\ svc'.loaded = svc.file
    BY <1>1 DEF DaemonReload, SettingsTypes, Svc
  <1>4. /\ Held' = Held /\ Rendered(job[R].flags)' = Rendered(job[R].flags)
        /\ Chosen(job[R].flags)' <=> Chosen(job[R].flags)
        /\ unit = loaded => (Remembered => Remembered')
        /\ ReadIt => ReadIt'
    BY <1>2, Unmoved
  <1>5. Calm => FlagsUsed'
    BY <1>1, <1>2, <1>4 DEF Reconciling, FlagsUsed
  <1>6. Calm => UnitsKnown'
    <2>1. Calm => svc.file = Services /\ "teleproxy" \in svc.file
      BY <1>1 DEF Reconciling, UnitsKnown
    <2>2. QED
      BY <1>1, <1>3, <2>1 DEF UnitsKnown
  <1>7. Reconciling'
    BY <1>1, <1>2, <1>4, <1>5, <1>6 DEF Reconciling, Calm, RunSteps
  <1>8. QED
    BY <1>1, <1>7, ReconcilerStep

LEMMA RestartTeleproxyIfChangedKeeps ==
    ASSUME WellTyped, Inductive, RestartTeleproxyIfChanged PROVE Inductive'
  <1>1. /\ Alone(R)' /\ pc'[R] = "rc_panel" /\ pc[R] = "rc_teleproxy"
        /\ SettingsTypes /\ ControlTypes /\ R \in Procs /\ Reconciling
    BY RunGoes DEF RestartTeleproxyIfChanged, PC
  <1>2. /\ tp' = IF "toml" \in job[R].changed THEN toml ELSE tp
        /\ UNCHANGED <<job, db, mem, toml, url, unit, loaded, mishaps, serving, conf>>
    BY DEF RestartTeleproxyIfChanged, siteVars
  <1>3. /\ svc'.file = svc.file /\ svc'.loaded = svc.loaded
        /\ "toml" \in job[R].changed /\ svc.loaded = Services => "teleproxy" \in svc'.running
    BY <1>1, SettingsAssumption DEF RestartTeleproxyIfChanged, Started, SettingsTypes, Svc
  <1>4. /\ Held' = Held /\ Rendered(job[R].flags)' = Rendered(job[R].flags)
        /\ Chosen(job[R].flags)' <=> Chosen(job[R].flags)
        /\ Remembered => Remembered'
    BY <1>2, Unmoved
  <1>5. Calm => ReadIt'
    BY <1>1, <1>2, <1>4 DEF Reconciling, ReadIt
  <1>6. Calm => FlagsUsed'
    BY <1>1, <1>2, <1>4 DEF Reconciling, FlagsUsed
  <1>7. Calm => UnitsKnown'
    BY <1>1, <1>2, <1>3 DEF Reconciling, UnitsKnown
  <1>8. Reconciling'
    BY <1>1, <1>2, <1>4, <1>5, <1>6, <1>7 DEF Reconciling, Calm, RunSteps
  <1>9. QED
    BY <1>1, <1>8, ReconcilerStep

LEMMA RestartPanelIfChangedKeeps ==
    ASSUME WellTyped, Inductive, RestartPanelIfChanged PROVE Inductive'
  <1>1. SettingsTypes /\ ControlTypes /\ R \in Procs /\ Reconciling /\ pc[R] = "rc_panel"
    BY TypeParts DEF R, Procs, Inductive, RestartPanelIfChanged
  <1>2. Alone(R)
    BY <1>1, AtWorkAlone DEF Inductive
  <1>3. /\ job'[R] = job[R]
        /\ UNCHANGED <<db, tp, toml, svc, unit, loaded, mishaps, serving, conf>>
    BY <1>1 DEF RestartPanelIfChanged
  <1>4. Alone(R)' /\ pc'[R] = "rc_nginx"
    <2>1. CASE "unit" \in job[R].changed
      BY <1>1, <2>1 DEF RestartPanelIfChanged, Alone
    <2>2. CASE "unit" \notin job[R].changed
      BY <1>1, <1>2, <2>2, StaysAlone DEF RestartPanelIfChanged, Goto, PC
    <2>3. QED
      BY <2>1, <2>2
  <1>5. \/ mem' = Rendered(Overridden(loaded)) /\ url' = loaded.path
        \/ "unit" \notin job[R].changed /\ UNCHANGED <<mem, url>>
    BY DEF RestartPanelIfChanged
  <1>6. /\ Held' = Held /\ Rendered(job[R].flags)' = Rendered(job[R].flags)
        /\ Chosen(job[R].flags)' <=> Chosen(job[R].flags)
        /\ UNCHANGED mem => (Remembered => Remembered')
        /\ ReadIt => ReadIt'
    BY <1>3, Unmoved
  <1>7. mem' = Rendered(Overridden(loaded)) => Remembered'
    BY <1>1, <1>3, StartsRemembered
  <1>8. Calm => FlagsUsed'
    BY <1>1, <1>3, <1>4, <1>5, <1>6, <1>7 DEF Reconciling, FlagsUsed
  <1>9. Calm => UnitsKnown'
    BY <1>1, <1>3, <1>4 DEF Reconciling, UnitsKnown
  <1>10. Reconciling'
    BY <1>1, <1>3, <1>4, <1>6, <1>8, <1>9 DEF Reconciling, Calm, RunSteps
  <1>11. QED
    BY <1>4, <1>10, ReconcilerStep

\* When a run is about to end, the services have what the files say.
LEMMA RunEnds ==
    ASSUME SettingsTypes, ControlTypes, Reconciling, Calm, pc[R] = "rc_nginx"
    PROVE  Applied /\ InForce /\ ReadIt /\ UnitsKnown
  <1>1. /\ unit = job[R].flags /\ unit = loaded /\ url = loaded.path
        /\ Remembered /\ toml = Rendered(unit) /\ ReadIt /\ UnitsKnown
        /\ Chosen(loaded)
    BY DEF Reconciling, FlagsUsed
  <1>2. ASSUME NEW k \in Held PROVE toml[k] \in {Own(k), mem[k]} /\ tp[k] \in {Own(k), toml[k]}
    <2>1. toml[k] = loaded[k]
      BY <1>1, RenderedAt, HeldNames
    <2>2. QED
      BY <1>1, <2>1 DEF Chosen, Remembered, ReadIt
  <1>3. QED
    BY <1>1, <1>2 DEF Applied, InForce

LEMMA RestartNginxKeeps == ASSUME WellTyped, Inductive, RestartNginxIfChanged PROVE Inductive'
  <1>1. /\ Alone(R)' /\ pc'[R] = "idle" /\ pc[R] = "rc_nginx"
        /\ SettingsTypes /\ ControlTypes /\ R \in Procs /\ Reconciling
    BY RunGoes DEF RestartNginxIfChanged, PC
  <1>2. /\ serving' = IF "nginx" \in job[R].changed THEN conf ELSE serving
        /\ UNCHANGED <<db, mem, tp, toml, url, unit, loaded, mishaps, conf>>
    BY DEF RestartNginxIfChanged
  <1>3. Calm => Applied /\ InForce
    BY <1>1, RunEnds
  <1>4. Calm => serving' = conf
    BY <1>1, <1>2 DEF Reconciling
  <1>5. InForce => InForce'
    BY <1>2, InForceStays
  <1>6. Settled'
    BY <1>2, <1>3, <1>4, <1>5 DEF Settled, Applied, Calm
  <1>7. Reconciling'
    BY <1>1 DEF Reconciling
  <1>8. QED
    BY <1>1, <1>6, <1>7, ReconcilerStep

LEMMA CLIKeeps == ASSUME WellTyped, Inductive, OneByOne, CLI PROVE Inductive'
  <1>1. CASE EditConfig
    BY <1>1, NobodySteps DEF EditConfig, siteVars
  <1>2. CASE MigrateFails \/ ReconcileFails
    <2>1. ControlTypes /\ R \in Procs
      BY TypeParts DEF R, Procs
    <2>2. QED
      BY <1>2, <2>1, FailsAlone DEF MigrateFails, ReconcileFails
  <1>3. QED
    BY <1>1, <1>2, ReconcileKeeps, WriteTOMLKeeps, WriteTeleproxyUnitKeeps, WriteUnitKeeps,
       WriteSingboxUnitKeeps, SiteStepKeeps, DaemonReloadKeeps, RestartTeleproxyIfChangedKeeps, RestartPanelIfChangedKeeps,
       RestartNginxKeeps DEF CLI

-----------------------------------------------------------------------------
(* The steps of a request that replaces the site. *)

AtTheSite == {"download", "write", "reload", "remove", "restore"}

\* The settings are not concerned, and nginx runs with all of its files after a reload.
LEMMA SiteKeepsSettings ==
    ASSUME NEW h, Ready(h), UNCHANGED panelVars, UNCHANGED <<conf, mishaps>>,
           serving' \in {serving, conf}, Alone(h)', pc'[h] \in AtTheSite \cup {"idle"},
           pc[h] \in AtTheSite \/ (pc[h] = "idle" /\ Settled), Replacing(h)'
    PROVE  Inductive'
  <1>1. Settled'
    <2>1. Settled
      BY ReadyParts DEF Settled, Panelled, Leaving, AtTheSite
    <2>2. serving' = conf' \/ UNCHANGED <<serving, conf>>
      OBVIOUS
    <2>3. QED
      BY <2>1, <2>2, SettledStays DEF panelVars
  <1>2. Saving(h)'
    BY DEF Saving, RowsSaved, AtTheSite
  <1>3. Panelled(h)'
    BY <1>1 DEF Panelled, Settled
  <1>4. QED
    BY <1>1, <1>2, <1>3, HandlerStep DEF Ready

LEMMA PlacedNothing ==
    ASSUME NEW a, a.written = {}, a.old \in Webs PROVE Placed(a) = a.old
  <1>1. a.old \in [DOMAIN a.old -> Contents]
    BY WebParts
  <1>2. Placed(a) = [p \in DOMAIN a.old |-> a.old[p]]
    BY DEF Placed, Over
  <1>3. QED
    BY <1>1, <1>2

\* A request that begins has taken its snapshot, or asks the repository first.
LEMMA SnapshotKeeps ==
    ASSUME NEW h, Ready(h), UNCHANGED panelVars,
           ApplyBuiltin(h) \/ Upload(h) \/ Remote(h) \/ Downloaded(h)
    PROVE  Inductive'
  <1>1. SiteTypes /\ h \in Handlers /\ apply \in [Handlers -> Apply] /\ web \in Webs
    BY ReadyParts, ApplyParts
  <1>2. ASSUME NEW from, NEW pages, Snapshot(h, from, pages), web' = web, pc'[h] = "write"
        PROVE  Replacing(h)'
    <2> DEFINE a == apply'[h]
    <2>1. apply'[h] = [NoApply EXCEPT !.from = from, !.pages = pages, !.old = web]
      BY <1>1, <1>2 DEF Snapshot
    <2>2. a.written = {} /\ a.old = web /\ a.old \in Webs
      BY <1>1, <2>1 DEF NoApply
    <2> HIDE DEF a
    <2>3. Placed(a) = a.old
      BY <2>2, PlacedNothing
    <2>4. Placed(apply[h])' = Placed(a)
      BY DEF Placed, Over, a
    <2>5. apply'[h].written = {} /\ web' = Placed(apply[h])'
      BY <1>2, <2>2, <2>3, <2>4 DEF a
    <2>6. QED
      BY <1>2, <2>5 DEF Replacing
  <1>3. UNCHANGED <<web, conf, mishaps, serving>>
    BY DEF ApplyBuiltin, Upload, Remote, Downloaded
  <1>4. CASE ApplyBuiltin(h) \/ Upload(h)
    <2>1. Settled /\ Alone(h)' /\ pc'[h] = "write" /\ pc[h] = "idle"
      BY <1>4, ReadyBegins DEF ApplyBuiltin, Upload, PC
    <2>2. Replacing(h)'
      BY <1>2, <1>3, <1>4, <2>1 DEF ApplyBuiltin, Upload
    <2>3. QED
      BY <1>3, <2>1, <2>2, SiteKeepsSettings DEF AtTheSite
  <1>5. CASE Remote(h)
    <2>1. Settled /\ Alone(h)' /\ pc'[h] = "download" /\ pc[h] = "idle"
      BY <1>5, ReadyBegins DEF Remote, PC
    <2>2. QED
      BY <1>3, <2>1, NotReplacing, SiteKeepsSettings DEF AtTheSite
  <1>6. CASE Downloaded(h)
    <2>1. Alone(h)' /\ pc'[h] = "write" /\ pc[h] = "download"
      BY <1>6, ReadyGoes DEF Downloaded, PC
    <2>2. Replacing(h)'
      BY <1>2, <1>3, <1>6, <2>1 DEF Downloaded
    <2>3. QED
      BY <1>3, <2>1, <2>2, SiteKeepsSettings DEF AtTheSite
  <1>7. QED
    BY <1>4, <1>5, <1>6

LEMMA EndKeeps ==
    ASSUME NEW h, Ready(h), UNCHANGED panelVars, DownloadFails(h) \/ Reload(h) \/ RolledBack(h)
    PROVE  Inductive'
  <1>1. Alone(h)' /\ pc'[h] = "idle" /\ pc[h] \in AtTheSite
    <2>1. CASE DownloadFails(h)
      BY <2>1, ReadyGoes DEF DownloadFails, PC, AtTheSite
    <2>2. CASE Reload(h)
      BY <2>2, ReadyGoes DEF Reload, PC, AtTheSite
    <2>3. CASE RolledBack(h)
      BY <2>3, ReadyGoes DEF RolledBack, PC, AtTheSite
    <2>4. QED
      BY <2>1, <2>2, <2>3
  <1>2. UNCHANGED <<conf, mishaps>> /\ serving' \in {serving, conf}
    BY DEF DownloadFails, Reload, RolledBack
  <1>3. QED
    BY <1>1, <1>2, NotReplacing, SiteKeepsSettings

LEMMA AtMostOne ==
    ASSUME NEW S, NEW p, S \subseteq {p} PROVE Cardinality(S) <= 1
  <1>1. IsFiniteSet({p}) /\ Cardinality({p}) = 1
    BY FS_Singleton
  <1>2. QED
    BY <1>1, FS_Subset, FS_CardinalityType

LEMMA WritePageKeeps ==
    ASSUME NEW h, Ready(h), UNCHANGED panelVars, WritePage(h) PROVE Inductive'
  <1> DEFINE p == Min(ToWrite(h))
             a == apply[h]
             b == apply'[h]
  <1>1. SiteTypes /\ h \in Handlers /\ apply \in [Handlers -> Apply] /\ a \in Apply
    BY ReadyParts, ApplyParts
  <1>2. pc[h] = "write" /\ pc' = pc /\ UNCHANGED <<conf, mishaps, serving>>
    BY DEF WritePage
  <1>3. Alone(h)'
    BY <1>2, ReadyParts DEF Alone
  <1>4. p \in a.pages
    BY <1>1, ApplyParts, MinPage DEF WritePage, ToWrite
  <1>5. web' = With(web, p, a.from) /\ apply' = [apply EXCEPT ![h].written = @ \cup {p}]
    BY DEF WritePage
  <1>6. a.written \subseteq a.pages /\ web = Placed(a)
    BY <1>2, ReadyParts DEF Replacing
  <1> HIDE DEF p
  <1>7. b.written = a.written \cup {p} /\ b.from = a.from /\ b.old = a.old /\ b.pages = a.pages
    BY <1>1, <1>5 DEF Apply
  <1>8. With(Placed(a), p, a.from) = Placed(b)
    <2> HIDE DEF a, b
    <2>1. With(Placed(a), p, a.from) =
            [q \in {p} \cup (a.written \cup DOMAIN a.old) |->
               IF q = p THEN a.from ELSE IF q \in a.written THEN a.from ELSE a.old[q]]
      BY DEF With, Placed, Over
    <2>2. Placed(b) =
            [q \in (a.written \cup {p}) \cup DOMAIN a.old |->
               IF q \in a.written \cup {p} THEN a.from ELSE a.old[q]]
      BY <1>7 DEF Placed, Over
    <2>3. QED
      BY <2>1, <2>2
  <1>9. Placed(apply[h])' = Placed(b)
    BY DEF Placed, Over
  <1>10. Replacing(h)'
    <2>1. b.written \subseteq b.pages /\ web' = Placed(apply[h])'
      BY <1>4, <1>5, <1>6, <1>7, <1>8, <1>9
    <2>2. QED
      BY <1>2, <2>1 DEF Replacing
  <1>11. QED
    BY <1>2, <1>3, <1>10, SiteKeepsSettings DEF AtTheSite

LEMMA PlacedParts == ASSUME NEW a PROVE DOMAIN Placed(a) = a.written \cup DOMAIN a.old
  BY DEF Placed, Over

LEMMA WrittenKeeps ==
    ASSUME NEW h, Ready(h), UNCHANGED panelVars, Written(h) \/ WritePageFails(h) \/ ReloadFails(h)
    PROVE  Inductive'
  <1>1. SiteTypes /\ h \in Handlers /\ Replacing(h)
    BY ReadyParts
  <1>2. UNCHANGED <<conf, mishaps, serving, apply>>
    BY DEF Written, WritePageFails, ReloadFails, siteVars
  <1>3. Placed(apply[h])' = Placed(apply[h])
    BY <1>2 DEF Placed, Over
  <1>4. CASE Written(h)
    <2>1. Alone(h)' /\ pc'[h] = "reload" /\ pc[h] = "write" /\ web' = web
      BY <1>4, ReadyGoes DEF Written, PC, siteVars
    <2>2. apply[h].written = apply[h].pages /\ web = Placed(apply[h])
      BY <1>1, <1>4, <2>1 DEF Replacing, Written, ToWrite
    <2>3. Replacing(h)'
      BY <1>2, <1>3, <2>1, <2>2 DEF Replacing
    <2>4. QED
      BY <1>2, <2>1, <2>3, SiteKeepsSettings DEF AtTheSite
  <1>5. CASE WritePageFails(h)
    <2>1. Alone(h)' /\ pc'[h] = "remove" /\ pc[h] = "write"
      BY <1>5, ReadyGoes DEF WritePageFails, PC
    <2>2. DOMAIN web = apply[h].written \cup DOMAIN apply[h].old
      BY <1>1, <2>1, PlacedParts DEF Replacing
    <2>3. DOMAIN web' \subseteq {Min(ToWrite(h))} \cup DOMAIN web
      <3>1. DOMAIN With(web, Min(ToWrite(h)), Torn) = {Min(ToWrite(h))} \cup DOMAIN web
        BY WithParts
      <3>2. QED
        BY <1>5, <3>1 DEF WritePageFails
    <2>4. DOMAIN web' \ (DOMAIN apply[h].old \cup apply[h].written) \subseteq {Min(ToWrite(h))}
      BY <2>2, <2>3
    <2>5. Cardinality(DOMAIN web' \ (DOMAIN apply[h].old \cup apply[h].written)) <= 1
      BY <2>4, AtMostOne
    <2>6. Replacing(h)'
      BY <1>2, <2>1, <2>5 DEF Replacing
    <2>7. QED
      BY <1>2, <2>1, <2>6, SiteKeepsSettings DEF AtTheSite
  <1>6. CASE ReloadFails(h)
    <2>1. Alone(h)' /\ pc'[h] = "remove" /\ pc[h] = "reload" /\ web' = web
      BY <1>6, ReadyGoes DEF ReloadFails, PC, siteVars
    <2>2. DOMAIN web = apply[h].written \cup DOMAIN apply[h].old
      BY <1>1, <2>1, PlacedParts DEF Replacing
    <2>3. DOMAIN web' \ (DOMAIN apply[h].old \cup apply[h].written) \subseteq {Index}
      BY <2>1, <2>2
    <2>4. Cardinality(DOMAIN web' \ (DOMAIN apply[h].old \cup apply[h].written)) <= 1
      BY <2>3, AtMostOne
    <2>5. Replacing(h)'
      BY <1>2, <2>1, <2>4 DEF Replacing
    <2>6. QED
      BY <1>2, <2>1, <2>5, SiteKeepsSettings DEF AtTheSite
  <1>7. QED
    BY <1>4, <1>5, <1>6

LEMMA RemoveKeeps ==
    ASSUME NEW h, Ready(h), UNCHANGED panelVars, RemoveWritten(h) PROVE Inductive'
  <1>1. SiteTypes /\ h \in Handlers /\ Replacing(h) /\ apply \in [Handlers -> Apply]
        /\ apply[h] \in Apply
    BY ReadyParts, ApplyParts
  <1>2. Alone(h)' /\ pc'[h] = "restore" /\ pc[h] = "remove"
    BY ReadyGoes DEF RemoveWritten, PC
  <1>3. UNCHANGED <<conf, mishaps, serving>>
    BY DEF RemoveWritten
  <1>4. PICK kept \in IF MayFail THEN SUBSET apply[h].written ELSE {{}} :
          /\ web' = Without(web, apply[h].written \ kept)
          /\ apply' = [apply EXCEPT ![h].todo = DOMAIN apply[h].old, ![h].errs = kept # {}]
    BY DEF RemoveWritten
  <1>5. apply'[h].old = apply[h].old /\ apply'[h].todo = DOMAIN apply[h].old
    BY <1>1, <1>4 DEF Apply
  <1>6. apply'[h].errs = (kept # {})
    BY <1>1, <1>4 DEF Apply
  <1>7. ASSUME ~apply'[h].errs PROVE Cardinality(DOMAIN web' \ DOMAIN apply[h].old) <= 1
    <2>1. DOMAIN web' = DOMAIN web \ apply[h].written
      <3>1. kept = {}
        BY <1>6, <1>7
      <3>2. apply[h].written \ kept = apply[h].written
        BY <3>1
      <3>3. DOMAIN Without(web, apply[h].written) = DOMAIN web \ apply[h].written
        BY WithoutParts
      <3>4. QED
        BY <1>4, <3>2, <3>3
    <2>2. DOMAIN web' \ DOMAIN apply[h].old = DOMAIN web \ (DOMAIN apply[h].old \cup apply[h].written)
      BY <2>1
    <2>3. QED
      BY <1>1, <1>2, <2>2 DEF Replacing
  <1>8. Replacing(h)'
    BY <1>2, <1>5, <1>7 DEF Replacing
  <1>9. QED
    BY <1>2, <1>3, <1>8, SiteKeepsSettings DEF AtTheSite

LEMMA RestoreKeeps ==
    ASSUME NEW h, Ready(h), UNCHANGED panelVars, NEW p \in Pages,
           RestorePage(h, p) \/ RestorePageFails(h, p)
    PROVE  Inductive'
  <1>1. SiteTypes /\ h \in Handlers /\ Replacing(h) /\ apply \in [Handlers -> Apply]
        /\ apply[h] \in Apply
    BY ReadyParts, ApplyParts
  <1>2. /\ pc[h] = "restore" /\ p \in apply[h].todo /\ pc' = pc
        /\ UNCHANGED <<conf, mishaps, serving>>
    BY DEF RestorePage, RestorePageFails
  <1>3. Alone(h)'
    BY <1>2, ReadyParts DEF Alone
  <1>4. Replacing(h)'
    <2>1. CASE RestorePageFails(h, p)
      <3>1. apply'[h].errs
        BY <1>1, <2>1 DEF RestorePageFails, Apply
      <3>2. QED
        BY <1>2, <3>1 DEF Replacing
    <2>2. CASE RestorePage(h, p)
      <3>1. apply'[h].old = apply[h].old /\ apply'[h].todo = apply[h].todo \ {p}
            /\ apply'[h].errs = apply[h].errs
        BY <1>1, <2>2 DEF RestorePage, Apply
      <3>2. web' = With(web, p, apply[h].old[p])
        BY <2>2 DEF RestorePage
      <3>3. p \in DOMAIN apply[h].old
        BY <1>1, <1>2, ApplyParts
      <3>4. DOMAIN web' = {p} \cup DOMAIN web /\ web'[p] = apply[h].old[p]
            /\ \A i \in DOMAIN web : i # p => web'[i] = web[i]
        <4> DEFINE c == apply[h].old[p]
        <4> HIDE DEF c
        <4>1. /\ DOMAIN With(web, p, c) = {p} \cup DOMAIN web /\ With(web, p, c)[p] = c
              /\ \A i \in DOMAIN web : i # p => With(web, p, c)[i] = web[i]
          BY DEF With, Over
        <4>2. web' = With(web, p, c)
          BY <3>2 DEF c
        <4>3. QED
          BY <4>1, <4>2 DEF c
      <3>5. DOMAIN web' \ DOMAIN apply[h].old = DOMAIN web \ DOMAIN apply[h].old
        BY <3>3, <3>4
      <3>6. ASSUME ~apply[h].errs, NEW q \in DOMAIN apply[h].old \ apply'[h].todo
            PROVE  q \in DOMAIN web' /\ web'[q] = apply[h].old[q]
        <4>1. CASE q = p
          BY <3>4, <4>1
        <4>2. CASE q # p
          <5>1. q \in DOMAIN apply[h].old \ apply[h].todo
            BY <3>1, <3>6, <4>2
          <5>2. q \in DOMAIN web /\ web[q] = apply[h].old[q]
            BY <1>1, <1>2, <3>6, <5>1 DEF Replacing
          <5>3. QED
            BY <3>4, <4>2, <5>2
        <4>3. QED
          BY <4>1, <4>2
      <3>7. ~apply[h].errs => Cardinality(DOMAIN web' \ DOMAIN apply[h].old) <= 1
        BY <1>1, <1>2, <3>5 DEF Replacing
      <3>8. QED
        BY <1>2, <3>1, <3>6, <3>7 DEF Replacing
    <2>3. QED
      BY <2>1, <2>2
  <1>5. QED
    BY <1>2, <1>3, <1>4, SiteKeepsSettings DEF AtTheSite

LEMMA SiteKeeps ==
    ASSUME WellTyped, Inductive, OneByOne, SiteNext, UNCHANGED panelVars PROVE Inductive'
  <1>1. ASSUME NEW h \in Handlers, SiteSteps(h) PROVE Inductive'
    <2>1. Ready(h)
      BY DEF Ready
    <2>2. QED
      BY <1>1, <2>1, SnapshotKeeps, EndKeeps, WritePageKeeps, WrittenKeeps, RemoveKeeps,
         RestoreKeeps DEF SiteSteps
  <1>2. CASE CacheExpires \/ RepositoryChanges \/ EditNginx
    BY <1>2, NobodySteps DEF CacheExpires, RepositoryChanges, EditNginx, panelVars
  <1>3. QED
    BY <1>1, <1>2 DEF SiteNext

-----------------------------------------------------------------------------
(* Theorems. *)

LEMMA InitKeeps == ASSUME Init PROVE Inductive
  <1>1. SettingsTypes
    BY InitTypes, TypeParts
  <1>2. \A p \in Procs : pc[p] = "idle"
    BY DEF Init
  <1>3. \A h \in Handlers : Saving(h) /\ Panelled(h) /\ Replacing(h)
    BY <1>2, IdleKeeps DEF Procs
  <1>4. R \in Procs
    BY DEF R, Procs
  <1>5. Remembered
    <2>1. \A k \in Names : db[k] = Unset
      BY DEF Init, Names
    <2>2. mem = Rendered(loaded)
      BY DEF Init
    <2>3. QED
      BY <1>1, <2>1, <2>2, StartedParts, RenderedAt, HeldNames DEF Remembered
  <1>6. Settled
    BY <1>5 DEF Init, SiteInit, Settled, Applied, InForce
  <1>7. QED
    BY <1>2, <1>3, <1>4, <1>6 DEF Inductive, OneAtWork, Resting, Reconciling

LEMMA NextKeeps == ASSUME WellTyped, Inductive, OneByOne, [Next]_vars PROVE Inductive'
  <1>1. CASE UNCHANGED vars
    BY <1>1, NobodySteps DEF vars, siteVars
  <1>2. CASE Next
    BY <1>2, PanelKeeps, CLIKeeps, RestartPanelKeeps, RestartServiceKeeps, SiteKeeps DEF Next
  <1>3. QED
    BY <1>1, <1>2

LEMMA Kept == ASSUME OneByOne PROVE Spec => []Inductive
  <1>1. Init => Inductive
    BY InitKeeps
  <1>2. WellTyped /\ Inductive /\ [Next]_vars => Inductive'
    BY NextKeeps
  <1>3. QED
    BY <1>1, <1>2, Typed, PTL DEF Spec

\* One at a time: the form that saves the settings and the run of tgproxy-cli reconcile never
\* leave the file, Teleproxy and the panel's memory with different settings, unless a step
\* failed or a setting was cleared; and a form that is saved is in force everywhere, whatever
\* failed before it.  It is about a panel without a domain of its own: reconcile renders that
\* domain, the form what was typed.
THEOREM SavedInForceHolds == ASSUME OneByOne, PanelDomain = Unset PROVE Spec => SavedInForce
  <1>1. WellTyped /\ Inductive =>
            (Active = {} /\ mishaps = {} =>
                \A k \in Held :
                    mem[k] = Overridden(loaded)[k] /\ toml[k] = mem[k] /\ tp[k] = mem[k])
    <2>1. SUFFICES ASSUME WellTyped, Inductive, Active = {}, mishaps = {}, NEW k \in Held
                   PROVE  mem[k] = Overridden(loaded)[k] /\ toml[k] = mem[k] /\ tp[k] = mem[k]
      OBVIOUS
    <2>2. InForce /\ SettingsTypes /\ k \in Names
      BY <2>1, TypeParts, HeldNames DEF Inductive, Resting, Settled, Calm
    <2>3. toml[k] # Unset /\ tp[k] # Unset
      BY <2>2, SettingsAssumption DEF SettingsTypes, Settings, Names
    <2>4. Own(k) = Unset
      BY DEF Own
    <2>5. QED
      BY <2>1, <2>2, <2>3, <2>4 DEF InForce, Remembered
  <1>2. WellTyped /\ Inductive /\ [Next]_vars =>
            [\A h \in Handlers :
               Signal(h) /\ job[h].signal = "restart" =>
                 LET saved == Rendered(job[h].flags)
                 IN  mem' = saved /\ toml' = saved /\ tp' = saved /\ Rendered(db') = saved]_vars
    <2>1. SUFFICES ASSUME WellTyped, Inductive, NEW h \in Handlers, Signal(h),
                          job[h].signal = "restart"
                   PROVE  LET saved == Rendered(job[h].flags)
                          IN  mem' = saved /\ toml' = saved /\ tp' = saved /\ Rendered(db') = saved
      BY Zenon
    <2>2. pc[h] = "signal" /\ tp' = toml /\ UNCHANGED <<mem, toml, db>>
      BY <2>1 DEF Signal, Goto
    <2>3. mem = Rendered(job[h].flags) /\ toml = mem
          /\ db.mask = job[h].flags.mask /\ db.backend = job[h].flags.backend
      BY <2>1, <2>2 DEF Inductive, Saving
    <2>4. Rendered(db') = Rendered(job[h].flags)
      BY <2>2, <2>3 DEF Rendered
    <2>5. QED
      BY <2>2, <2>3, <2>4
  <1>3. QED
    BY <1>1, <1>2, Kept, Typed, PTL DEF Spec, SavedInForce

\* One at a time: when a run of tgproxy-cli reconcile ends well, systemd has every unit as it
\* was rendered, the panel and nginx run with their files as they are, and Teleproxy with its
\* file (all of it and its unit, if this run changed it; else in what was not cleared), unless
\* a mishap came between a write and the restart it is for.
THEOREM ReconcileAppliesHolds == ASSUME OneByOne PROVE Spec => ReconcileApplies
  <1>1. WellTyped /\ Inductive /\ [Next]_vars =>
            [RestartNginxIfChanged /\ mishaps = {} =>
               /\ loaded' = unit' /\ url' = unit'.path /\ serving' = conf'
               /\ svc'.file = Services /\ svc'.loaded = Services
               /\ \A k \in Held : tp'[k] = toml'[k]
               /\ "toml" \in job[R].changed => tp' = toml' /\ "teleproxy" \in svc'.running]_vars
    <2>1. SUFFICES ASSUME WellTyped, Inductive, RestartNginxIfChanged, mishaps = {}
                   PROVE  /\ loaded' = unit' /\ url' = unit'.path /\ serving' = conf'
                          /\ svc'.file = Services /\ svc'.loaded = Services
                          /\ \A k \in Held : tp'[k] = toml'[k]
                          /\ "toml" \in job[R].changed =>
                                tp' = toml' /\ "teleproxy" \in svc'.running
      BY Zenon
    <2>2. pc[R] = "rc_nginx" /\ SettingsTypes /\ ControlTypes /\ Reconciling /\ Calm
      BY <2>1, TypeParts DEF RestartNginxIfChanged, Goto, Inductive, Calm
    <2>3. Applied /\ ReadIt /\ UnitsKnown
      BY <2>2, RunEnds
    <2>4. "nginx" \notin job[R].changed => serving = conf
      BY <2>2 DEF Reconciling
    <2>5. UNCHANGED <<loaded, unit, url, conf, svc, toml, tp>>
      BY <2>1 DEF RestartNginxIfChanged
    <2>6. serving' = conf' /\ loaded' = unit' /\ url' = unit'.path
      BY <2>1, <2>3, <2>4, <2>5 DEF RestartNginxIfChanged, Applied
    <2>7. QED
      BY <2>2, <2>3, <2>5, <2>6 DEF ReadIt, UnitsKnown
  <1>2. QED
    BY <1>1, Kept, Typed, PTL DEF Spec, ReconcileApplies

\* One at a time: a template is applied with all of its files over the ones of before, or, when
\* a write or the reload of nginx fails and the rollback meets no error, every file of before is
\* back as it was, next to at most one new one.
THEOREM StubAtomicHolds == ASSUME OneByOne PROVE Spec => StubAtomic
  <1>1. WellTyped /\ Inductive /\ [Next]_vars =>
            [\A h \in Handlers :
               LET a == apply[h] IN
               /\ Reload(h) => web' = Over([p \in a.pages |-> a.from], a.old)
               /\ RolledBack(h) /\ ~a.errs =>
                     /\ Restrict(web', DOMAIN a.old) = a.old
                     /\ Cardinality(DOMAIN web' \ DOMAIN a.old) <= 1]_<<web, apply, pc>>
    <2>1. SUFFICES ASSUME WellTyped, Inductive, NEW h \in Handlers
                   PROVE  LET a == apply[h] IN
                          /\ Reload(h) => web' = Over([p \in a.pages |-> a.from], a.old)
                          /\ RolledBack(h) /\ ~a.errs =>
                                /\ Restrict(web', DOMAIN a.old) = a.old
                                /\ Cardinality(DOMAIN web' \ DOMAIN a.old) <= 1
      BY Zenon
    <2>2. SiteTypes /\ Replacing(h) /\ apply[h].old \in Webs
      BY <2>1, TypeParts, ApplyParts DEF Inductive
    <2>3. ASSUME Reload(h) PROVE web' = Over([p \in apply[h].pages |-> apply[h].from], apply[h].old)
      BY <2>2, <2>3 DEF Reload, Goto, Replacing, Placed
    <2>4. ASSUME RolledBack(h), ~apply[h].errs
          PROVE  /\ Restrict(web', DOMAIN apply[h].old) = apply[h].old
                 /\ Cardinality(DOMAIN web' \ DOMAIN apply[h].old) <= 1
      <3>1. pc[h] = "restore" /\ apply[h].todo = {} /\ web' = web
        BY <2>4 DEF RolledBack, Goto
      <3>2. /\ \A p \in DOMAIN apply[h].old : p \in DOMAIN web /\ web[p] = apply[h].old[p]
            /\ Cardinality(DOMAIN web \ DOMAIN apply[h].old) <= 1
        BY <2>2, <2>4, <3>1 DEF Replacing
      <3>3. Restrict(web, DOMAIN apply[h].old) = apply[h].old
        <4>1. apply[h].old \in [DOMAIN apply[h].old -> Contents]
          BY <2>2, WebParts
        <4>2. QED
          BY <3>2, <4>1 DEF Restrict
      <3>4. QED
        BY <3>1, <3>2, <3>3
    <2>5. QED
      BY <2>3, <2>4
  <1>2. QED
    BY <1>1, Kept, Typed, PTL DEF Spec, StubAtomic
=============================================================================
