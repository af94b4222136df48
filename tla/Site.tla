------------------------------- MODULE Site -------------------------------
(***************************************************************************)
(* What strangers see of the host: nginx, with the files the project       *)
(* renders for it, and the stub site in the web root.                      *)
(*                                                                         *)
(* The panel replaces the site by a template: one that is built in, one    *)
(* that is uploaded, or one of a repository whose listing it caches.  It   *)
(* takes a snapshot of the web root, writes the files of the template over *)
(* it and reloads nginx; when something fails it removes what it has       *)
(* written and writes the snapshot back.  tgproxy-cli reconcile brings the *)
(* files of nginx up to date; its steps here are a part of the run whose   *)
(* others are in Settings, which extends this module.                      *)
(***************************************************************************)
EXTENDS Naturals, FiniteSets, FiniteSetsExt, Functions

CONSTANTS
    Handlers,            \* requests of the panel
    Reconciler,          \* tgproxy-cli reconcile
    MaxActive,           \* how many of them may be under way at once
    MayFail,             \* may writes, downloads and systemctl fail?
    MayCrash,            \* may a process be killed?
    MaxSteps,            \* bound on the requests, runs and restarts that are started
    MaxPage,             \* the files a site may have are 1..MaxPage, in the order of ReadDir
    Entries,             \* those of them that are HTML and at the root
    Builtin,             \* the files of each template that is built in
    Offered,             \* sets of files that are uploaded, or found in the repository
    MaxItem              \* the files and links of nginx that reconcile renders

Procs == Handlers \cup {Reconciler}
Pages == 1..MaxPage
Index == 1
Items == 0..MaxItem     \* 0: the default site of the distribution is removed
Torn == "torn"
Contents == DOMAIN Builtin \cup {"upload", "remote", "legacy", "default", Torn}
Webs == UNION {[S -> Contents] : S \in SUBSET Pages}

ASSUME SiteAssumption ==
    /\ Reconciler \notin Handlers /\ IsFiniteSet(Handlers)
    /\ MaxActive \in Nat /\ MaxSteps \in Nat /\ MaxPage \in Nat \ {0} /\ MaxItem \in Nat
    /\ MayFail \in BOOLEAN /\ MayCrash \in BOOLEAN
    /\ Entries \subseteq Pages /\ Offered \subseteq (SUBSET Pages) \ {{}}
    /\ \A n \in DOMAIN Builtin : Builtin[n] \subseteq Pages /\ Builtin[n] # {}
    /\ DOMAIN Builtin \cap {Torn, "legacy", "default"} = {}
    /\ \E pages \in Offered : pages \cap Entries # {}

VARIABLES
    web,        \* the web root: what the files there are
    sound,      \* does nginx -t accept the sites of others on the host?
    conf,       \* the items that are on disk as this release renders them
    serving,    \* the items nginx runs with
    repo, cache,\* the files of the remote template, and those the cached listing names, if any
    apply,      \* what a request that replaces the site has in local variables
    pc, steps, mishaps

siteVars == <<web, sound, conf, serving, repo, cache, apply>>

Apply == [from : Contents \ {Torn, "legacy", "default"}, pages : SUBSET Pages,
          old : Webs, written : SUBSET Pages, todo : SUBSET Pages, errs : BOOLEAN]

Empty == [p \in {} |-> Torn]
NoApply == [from |-> "upload", pages |-> {}, old |-> Empty, written |-> {}, todo |-> {},
            errs |-> FALSE]

\* stub.Validate of what it can be refused for: one HTML file at the root at least.
Valid(pages) == pages \cap Entries # {}

AnyOffer == CHOOSE pages \in Offered : Valid(pages)

\* An older release has installed the host.
SiteInit ==
    /\ web = [p \in {Index} |-> "legacy"]
    /\ sound = TRUE
    /\ conf = {} /\ serving = conf
    /\ repo = AnyOffer /\ cache = {}
    /\ apply = [h \in Handlers |-> NoApply]

Active == {p \in Procs : pc[p] # "idle"}
Goto(p, from, to) == pc[p] = from /\ pc' = [pc EXCEPT ![p] = to]
Begin(p, to) ==
    /\ Cardinality(Active) < MaxActive
    /\ steps < MaxSteps /\ steps' = steps + 1
    /\ Goto(p, "idle", to)
Note(m) == mishaps' = mishaps \cup {m}

\* The files "new" are written over those of "old".
Over(new, old) ==
    [p \in DOMAIN new \cup DOMAIN old |-> IF p \in DOMAIN new THEN new[p] ELSE old[p]]

With(w, p, c) == Over([i \in {p} |-> c], w)
Without(w, S) == Restrict(w, DOMAIN w \ S)

-----------------------------------------------------------------------------
(* Where a template comes from. *)

\* Apply begins with a snapshot of the web root.
Snapshot(h, from, pages) ==
    apply' = [apply EXCEPT ![h] = [NoApply EXCEPT !.from = from, !.pages = pages, !.old = web]]

ApplyBuiltin(h) ==
    /\ Begin(h, "write")
    /\ \E n \in DOMAIN Builtin : Snapshot(h, n, Builtin[n])
    /\ UNCHANGED <<web, sound, conf, serving, repo, cache, mishaps>>

\* An archive is unpacked only if it is valid.
Upload(h) ==
    /\ Begin(h, "write")
    /\ \E pages \in Offered : Valid(pages) /\ Snapshot(h, "upload", pages)
    /\ UNCHANGED <<web, sound, conf, serving, repo, cache, mishaps>>

\* The listing is taken from the cache for half an hour.
Remote(h) ==
    /\ Begin(h, "download")
    /\ cache' = IF cache = {} THEN repo ELSE cache
    /\ apply' = [apply EXCEPT ![h] = [NoApply EXCEPT !.from = "remote", !.pages = cache']]
    /\ UNCHANGED <<web, sound, conf, serving, repo, mishaps>>

\* Every file of the listing is fetched from the repository as it is now.
Downloaded(h) ==
    /\ apply[h].pages \subseteq repo /\ Valid(apply[h].pages)
    /\ Goto(h, "download", "write")
    /\ Snapshot(h, "remote", apply[h].pages)
    /\ UNCHANGED <<web, sound, conf, serving, repo, cache, steps, mishaps>>

\* A file is gone or cannot be had, or the template is refused: nothing has happened yet.
DownloadFails(h) ==
    /\ MayFail \/ ~(apply[h].pages \subseteq repo) \/ ~Valid(apply[h].pages)
    /\ Goto(h, "download", "idle")
    /\ apply' = [apply EXCEPT ![h] = NoApply]
    /\ UNCHANGED <<web, sound, conf, serving, repo, cache, steps, mishaps>>

CacheExpires ==
    /\ cache # {} /\ cache' = {}
    /\ UNCHANGED <<web, sound, conf, serving, repo, apply, pc, steps, mishaps>>

RepositoryChanges ==
    /\ steps < MaxSteps /\ steps' = steps + 1
    /\ repo' \in Offered \ {repo}
    /\ UNCHANGED <<web, sound, conf, serving, cache, apply, pc, mishaps>>

\* The administrator edits a site of his own.
EditNginx ==
    /\ steps < MaxSteps /\ steps' = steps + 1
    /\ sound' = ~sound
    /\ UNCHANGED <<web, conf, serving, repo, cache, apply, pc, mishaps>>

-----------------------------------------------------------------------------
(* Applier.Apply. *)

ToWrite(h) == apply[h].pages \ apply[h].written

WritePage(h) ==
    /\ pc[h] = "write" /\ ToWrite(h) # {}
    /\ LET p == Min(ToWrite(h)) IN
       /\ web' = With(web, p, apply[h].from)
       /\ apply' = [apply EXCEPT ![h].written = @ \cup {p}]
    /\ UNCHANGED <<sound, conf, serving, repo, cache, pc, steps, mishaps>>

Written(h) ==
    /\ ToWrite(h) = {} /\ Goto(h, "write", "reload")
    /\ UNCHANGED <<siteVars, steps, mishaps>>

\* The write fails before or after the file has been truncated.
WritePageFails(h) ==
    /\ MayFail /\ ToWrite(h) # {} /\ Goto(h, "write", "remove")
    /\ web' \in {web, With(web, Min(ToWrite(h)), Torn)}
    /\ UNCHANGED <<sound, conf, serving, repo, cache, apply, steps, mishaps>>

Reload(h) ==
    /\ sound /\ Goto(h, "reload", "idle")
    /\ serving' = conf
    /\ apply' = [apply EXCEPT ![h] = NoApply]
    /\ UNCHANGED <<web, sound, conf, repo, cache, steps, mishaps>>

ReloadFails(h) ==
    /\ MayFail \/ ~sound
    /\ Goto(h, "reload", "remove")
    /\ UNCHANGED <<siteVars, steps, mishaps>>

\* rollback removes every file it has written, then writes the snapshot back, in the order
\* of a Go map; an error is passed over.
RemoveWritten(h) ==
    /\ Goto(h, "remove", "restore")
    /\ \E kept \in IF MayFail THEN SUBSET apply[h].written ELSE {{}} :
          /\ web' = Without(web, apply[h].written \ kept)
          /\ apply' = [apply EXCEPT ![h].todo = DOMAIN apply[h].old, ![h].errs = kept # {}]
    /\ UNCHANGED <<sound, conf, serving, repo, cache, steps, mishaps>>

\* Seeded fault: only what was removed is written back, and a torn file is not.
RestoreRemoved(h, p) ==
    /\ pc[h] = "restore" /\ p \in apply[h].todo
    /\ web' = IF p \in apply[h].written THEN With(web, p, apply[h].old[p]) ELSE web
    /\ apply' = [apply EXCEPT ![h].todo = @ \ {p}]
    /\ UNCHANGED <<sound, conf, serving, repo, cache, pc, steps, mishaps>>

RestorePage(h, p) ==
    /\ pc[h] = "restore" /\ p \in apply[h].todo
    /\ web' = With(web, p, apply[h].old[p])
    /\ apply' = [apply EXCEPT ![h].todo = @ \ {p}]
    /\ UNCHANGED <<sound, conf, serving, repo, cache, pc, steps, mishaps>>

RestorePageFails(h, p) ==
    /\ MayFail /\ pc[h] = "restore" /\ p \in apply[h].todo
    /\ web' \in {web, With(web, p, Torn)}
    /\ apply' = [apply EXCEPT ![h].todo = @ \ {p}, ![h].errs = TRUE]
    /\ UNCHANGED <<sound, conf, serving, repo, cache, pc, steps, mishaps>>

RolledBack(h) ==
    /\ apply[h].todo = {} /\ Goto(h, "restore", "idle")
    /\ apply' = [apply EXCEPT ![h] = NoApply]
    /\ UNCHANGED <<web, sound, conf, serving, repo, cache, steps, mishaps>>

SiteSteps(h) ==
    \/ ApplyBuiltin(h) \/ Upload(h) \/ Remote(h) \/ Downloaded(h) \/ DownloadFails(h)
    \/ WritePage(h) \/ Written(h) \/ WritePageFails(h) \/ Reload(h) \/ ReloadFails(h)
    \/ RemoveWritten(h) \/ RolledBack(h)
    \/ \E p \in Pages : RestorePage(h, p) \/ RestorePageFails(h, p)

SiteNext ==
    \/ \E h \in Handlers : SiteSteps(h)
    \/ CacheExpires \/ RepositoryChanges \/ EditNginx

-----------------------------------------------------------------------------
(* The part of a reconcile run that is about nginx. *)

R == Reconciler

\* The files that differ and the links that are missing.
Stale == (Items \ {0}) \ conf

\* Is the page still the one of an old installer?
Legacy == Index \in DOMAIN web /\ web[Index] = "legacy"

-----------------------------------------------------------------------------
(* Properties. *)

SiteTypeOK ==
    /\ web \in Webs /\ sound \in BOOLEAN
    /\ conf \subseteq Items /\ serving \subseteq Items
    /\ repo \in Offered /\ cache \in Offered \cup {{}}
    /\ apply \in [Handlers -> Apply]

\* apply.go:32: "On failure (nginx reload or any write error), it rolls back".  One request
\* at a time, a template that is applied is on the site with all its files, and nothing
\* else has changed; one that failed, at whatever file, leaves every file of before as it
\* was and at most one new one, unless the rollback meets an error itself.
StubAtomic ==
    [][\A h \in Handlers :
        LET a == apply[h] IN
        /\ Reload(h) => web' = Over([p \in a.pages |-> a.from], a.old)
        /\ RolledBack(h) /\ ~a.errs =>
              /\ Restrict(web', DOMAIN a.old) = a.old
              /\ Cardinality(DOMAIN web' \ DOMAIN a.old) <= 1]_<<web, apply, pc>>

\* apply.go:33, of every failure: what was written is removed.
FailedLeavesNothing ==
    [][\A h \in Handlers : RolledBack(h) /\ ~apply[h].errs => web' = apply[h].old]_<<web, apply, pc>>

\* The page says that a template was applied: it is what the repository has.
RemoteComplete ==
    [][\A h \in Handlers : Reload(h) /\ apply[h].from = "remote" =>
          repo \subseteq {p \in DOMAIN web' : web'[p] = "remote"}]_<<web, apply, pc>>
=============================================================================
