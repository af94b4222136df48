---------------------------- MODULE Certificates ----------------------------
(***************************************************************************)
(* The certificate of the panel's domain: the renewal loop, a renewal by   *)
(* hand, an upload and its revocation, all working on cert.pem and         *)
(* key.pem, and nginx, which serves what it read at its last reload.       *)
(*                                                                         *)
(* An order takes long, the files are written one after the other, and the *)
(* loop remembers in memory only that a reload is owed.  What has gone     *)
(* wrong so far is kept in mishaps: the properties say which of them they  *)
(* survive.                                                                *)
(***************************************************************************)
EXTENDS Naturals, Sequences, FiniteSets

CONSTANTS
    Loop,           \* the goroutine of the renewal loop
    Requests,       \* requests to the panel
    Life,           \* days a certificate of the authority is valid
    RenewDays,      \* cert_renew_days
    Faults,         \* the kinds of mishaps that may happen
    MaxMishaps,     \* bound on the mishaps
    MaxRequests,    \* bound on the requests
    MaxDay          \* bound on the calendar

ASSUME CertificatesAssumption ==
    /\ Loop \notin Requests
    /\ Life \in Nat /\ RenewDays \in 1..Life
    /\ Faults \subseteq {"order", "reload", "handover", "write", "database", "overlap",
                         "old form", "restart", "heal", "half heal"}
    /\ MaxMishaps \in Nat /\ MaxRequests \in Nat /\ MaxDay \in Nat

VARIABLES
    day,
    ticked,             \* has the loop had its turn today?
    pairs,              \* every pair ever made: by whom, and its last valid day
    certFile, keyFile,  \* the pair the file belongs to, Torn if it does not parse
    served,             \* the pair nginx has loaded
    manual, auto,       \* cert_manual, cert_auto_renew
    snippet,            \* does the file of nginx name the directory of the challenges?
    webroot,            \* does nginx serve that directory?
    pending,            \* pendingReloads of the loop's runner
    at, job,            \* what each process does next, and for which pair or setting
    onSince,            \* history: the day from which on renewal was automatic
    mishaps, count,     \* history: kinds of mishaps, and how many
    requests

files == <<certFile, keyFile>>
settings == <<manual, auto, onSince>>
setup == <<snippet, webroot>>
procs == <<at, job>>
past == <<mishaps, count>>
vars == <<day, ticked, pairs, files, served, settings, setup, pending, procs, past, requests>>

Procs == {Loop} \cup Requests
Torn == 0
NoJob == [op |-> "none"]

\* What a process works for: who orders or uploads, or which settings are written; and the
\* pair it has got.
Ops == {"none", "loop", "hand", "upload", "clear", "on", "off"}
Job == [op : Ops] \cup [op : Ops, pair : Nat]

Pair == [by : {"loop", "hand", "manual"}, until : Nat]

Init ==
    /\ day = 0 /\ ticked = FALSE
    /\ pairs = <<[by |-> "loop", until |-> RenewDays]>>    \* due tomorrow
    /\ certFile = 1 /\ keyFile = 1 /\ served = 1
    /\ manual = FALSE /\ auto = TRUE /\ onSince = 0
    /\ snippet \in BOOLEAN /\ webroot = snippet
    /\ pending = FALSE
    /\ at = [p \in Procs |-> "idle"] /\ job = [p \in Procs |-> NoJob]
    /\ mishaps = {} /\ count = 0 /\ requests = 0

Active == {p \in Procs : at[p] # "idle"}
Valid(c) == pairs[c].until >= day

GoTo(p, next) == at' = [at EXCEPT ![p] = next] /\ UNCHANGED job
Finish(p) == at' = [at EXCEPT ![p] = "idle"] /\ job' = [job EXCEPT ![p] = NoJob]

Mishap(kind) ==
    /\ kind \in Faults /\ count < MaxMishaps
    /\ mishaps' = mishaps \cup {kind} /\ count' = count + 1

\* A process that begins while another one works.
Begin(p, first, what) ==
    /\ at[p] = "idle"
    /\ IF Active = {} THEN UNCHANGED past ELSE Mishap("overlap")
    /\ at' = [at EXCEPT ![p] = first] /\ job' = [job EXCEPT ![p] = what]

-----------------------------------------------------------------------------
(* Renewal, which the loop and a request by hand share. *)

\* The authority gets its answer if nginx serves the directory, which is made readable.
Answered == webroot

\* The authority issues a pair.
Order(p) ==
    /\ at[p] = "order" /\ Answered
    /\ pairs' = Append(pairs, [by |-> job[p].op, until |-> day + Life])
    /\ at' = [at EXCEPT ![p] = "cert"]
    /\ job' = [job EXCEPT ![p] = [op |-> @.op, pair |-> Len(pairs) + 1]]
    /\ UNCHANGED <<day, ticked, files, served, settings, setup, pending, past, requests>>

OrderFails(p) ==
    /\ at[p] = "order"
    /\ IF Answered THEN Mishap("order") ELSE UNCHANGED past
    /\ Finish(p)
    /\ UNCHANGED <<day, ticked, pairs, files, served, settings, setup, pending, requests>>

WriteCert(p) ==
    /\ at[p] = "cert"
    /\ certFile' = job[p].pair
    /\ GoTo(p, "key")
    /\ UNCHANGED <<day, ticked, pairs, keyFile, served, settings, setup, pending, past, requests>>

WriteKey(p) ==
    /\ at[p] = "key"
    /\ keyFile' = job[p].pair
    /\ GoTo(p, IF job[p].op = "upload" THEN "manual" ELSE "reload")
    /\ UNCHANGED <<day, ticked, pairs, certFile, served, settings, setup, pending, past, requests>>

\* The file cannot be opened, or is truncated and not written to the end.
WriteFails(p) ==
    /\ at[p] \in {"cert", "key"}
    /\ Mishap("write") /\ Finish(p)
    /\ IF at[p] = "cert" THEN certFile' \in {certFile, Torn} /\ UNCHANGED keyFile
                         ELSE keyFile' \in {keyFile, Torn} /\ UNCHANGED certFile
    /\ UNCHANGED <<day, ticked, pairs, served, settings, setup, pending, requests>>

-----------------------------------------------------------------------------
(* nginx. *)

\* nginx refuses a pair that does not match and keeps what it has.
Loadable == certFile = keyFile /\ certFile # Torn

\* It reads all of its files again.
Loaded == served' = certFile /\ webroot' = snippet

\* Only the loop's own runner remembers how its reload went.
Remember(p, owed) == pending' = IF p = Loop THEN owed ELSE pending

Reload(p) ==
    /\ at[p] = "reload"
    /\ IF Loadable THEN Loaded /\ Remember(p, FALSE)
                   ELSE Remember(p, TRUE) /\ UNCHANGED <<served, webroot>>
    /\ Finish(p)
    /\ UNCHANGED <<day, ticked, pairs, files, settings, snippet, past, requests>>

ReloadFails(p) ==
    /\ at[p] = "reload"
    /\ Mishap(IF p = Loop THEN "reload" ELSE "handover")
    /\ Remember(p, TRUE)
    /\ Finish(p)
    /\ UNCHANGED <<day, ticked, pairs, files, served, settings, setup, requests>>

-----------------------------------------------------------------------------
(* The renewal loop. *)

\* Seeded fault: a certificate is renewed when it has expired.
DueTooLate(c) == pairs[c].until < day

NeedsRenewal(c) == pairs[c].until < day + RenewDays

\* The loop has nothing to do: renewal is switched off, the certificate cannot be read,
\* or it is fresh and nginx has it.
Rest ==
    /\ at[Loop] = "idle" /\ ~ticked /\ ticked' = TRUE
    /\ \/ ~auto
       \/ snippet /\ certFile = Torn
       \/ snippet /\ certFile # Torn /\ ~NeedsRenewal(certFile) /\ ~pending
    /\ UNCHANGED <<day, pairs, files, served, settings, setup, pending, procs, past, requests>>

\* nginx is not told to serve the challenges yet: a reconcile is started instead.
Heal ==
    /\ at[Loop] = "idle" /\ ~ticked /\ ticked' = TRUE
    /\ auto /\ ~snippet
    /\ Begin(Loop, "heal", NoJob)
    /\ UNCHANGED <<day, pairs, files, served, settings, setup, pending, requests>>

\* Seeded fault: the reload waits for the next order.
RetryPutOff ==
    /\ at[Loop] = "idle" /\ ~ticked /\ ticked' = TRUE
    /\ auto /\ snippet /\ certFile # Torn /\ ~NeedsRenewal(certFile) /\ pending
    /\ UNCHANGED <<day, pairs, files, served, settings, setup, pending, procs, past, requests>>

RetryReload ==
    /\ at[Loop] = "idle" /\ ~ticked /\ ticked' = TRUE
    /\ auto /\ snippet /\ certFile # Torn /\ ~NeedsRenewal(certFile) /\ pending
    /\ Begin(Loop, "reload", NoJob)
    /\ UNCHANGED <<day, pairs, files, served, settings, setup, pending, requests>>

Renew ==
    /\ at[Loop] = "idle" /\ ~ticked /\ ticked' = TRUE
    /\ auto /\ snippet /\ certFile # Torn /\ NeedsRenewal(certFile)
    /\ Begin(Loop, "order", [op |-> "loop"])
    /\ UNCHANGED <<day, pairs, files, served, settings, setup, pending, requests>>

\* GetSetting answers with its default when the database cannot be read: renewal is on.
RenewMisread ==
    /\ at[Loop] = "idle" /\ ~ticked /\ ticked' = TRUE
    /\ ~auto /\ snippet /\ certFile # Torn /\ NeedsRenewal(certFile)
    /\ Active = {} /\ Mishap("database")
    /\ at' = [at EXCEPT ![Loop] = "order"] /\ job' = [job EXCEPT ![Loop] = [op |-> "loop"]]
    /\ UNCHANGED <<day, pairs, files, served, settings, setup, pending, requests>>

\* The panel dies, or is restarted: what was under way stays as it is, and what was in
\* memory is gone.  A reconcile goes on: it is a unit of its own.
Reconciling == {"heal", "panel", "nginx"}

RestartPanel(next) ==
    /\ at' = [p \in Procs |-> IF p = Loop /\ at[p] \in Reconciling THEN next ELSE "idle"]
    /\ job' = [p \in Procs |-> NoJob]
    /\ pending' = FALSE

\* The reconcile that the loop has started writes the snippet first, restarts the panel if
\* its unit has changed, and nginx.
ReconcileSnippet ==
    /\ at[Loop] = "heal"
    /\ snippet' = TRUE
    /\ GoTo(Loop, "panel")
    /\ UNCHANGED <<day, ticked, pairs, files, served, settings, webroot, pending, past, requests>>

ReconcilePanel ==
    /\ at[Loop] = "panel"
    /\ \/ GoTo(Loop, "nginx") /\ UNCHANGED <<pending, past>>
       \/ /\ IF Active # {Loop} THEN Mishap("restart") ELSE UNCHANGED past
          /\ RestartPanel("nginx")
    /\ UNCHANGED <<day, ticked, pairs, files, served, settings, setup, requests>>

Reconciled ==
    /\ at[Loop] = "nginx" /\ Loadable
    /\ Loaded /\ Finish(Loop)
    /\ UNCHANGED <<day, ticked, pairs, files, settings, snippet, pending, past, requests>>

\* The setup is as stale as before.
ReconcileFails ==
    /\ at[Loop] = "heal"
    /\ Mishap("heal") /\ Finish(Loop)
    /\ UNCHANGED <<day, ticked, pairs, files, served, settings, setup, pending, requests>>

\* The snippet is written, and nginx not restarted (or too late for systemctl), because a
\* call fails or because nginx refuses the pair.
ReconcileStops ==
    /\ at[Loop] \in {"panel", "nginx"}
    /\ IF at[Loop] = "nginx" /\ ~Loadable THEN UNCHANGED past ELSE Mishap("half heal")
    /\ \/ UNCHANGED <<served, webroot>>
       \/ at[Loop] = "nginx" /\ Loadable /\ Loaded
    /\ Finish(Loop)
    /\ UNCHANGED <<day, ticked, pairs, files, settings, snippet, pending, requests>>

Restart ==
    /\ Active # {} \/ pending      \* otherwise it changes nothing
    /\ Mishap("restart")
    /\ RestartPanel(at[Loop])
    /\ UNCHANGED <<day, ticked, pairs, files, served, settings, setup, requests>>

-----------------------------------------------------------------------------
(* Requests. *)

Ask == requests < MaxRequests /\ requests' = requests + 1

\* handleSettingsCertRenew: by hand, whatever the settings say.
RenewByHand(r) ==
    /\ Ask
    /\ Begin(r, "order", [op |-> "hand"])
    /\ UNCHANGED <<day, ticked, pairs, files, served, settings, setup, pending>>

\* Seeded fault: what was uploaded is not looked at.
UploadUnchecked(r) ==
    /\ Ask
    /\ Begin(r, "cert", [op |-> "upload", pair |-> Torn])
    /\ UNCHANGED <<day, ticked, pairs, files, served, settings, setup, pending>>

\* What passes for a manual certificate: a pair that is about to expire, or valid for long.
Acceptable == [by : {"manual"}, until : {day, day + Life}]

\* handleSettingsCertUpload.
Upload(r) ==
    /\ Ask
    /\ \E pair \in Acceptable : pairs' = Append(pairs, pair)
    /\ Begin(r, "cert", [op |-> "upload", pair |-> Len(pairs) + 1])
    /\ UNCHANGED <<day, ticked, files, served, settings, setup, pending>>

ClearManual(r) ==
    /\ Ask
    /\ Begin(r, "manual", [op |-> "clear"])
    /\ UNCHANGED <<day, ticked, pairs, files, served, settings, setup, pending>>

Configure(r) ==
    /\ Ask
    /\ \E on \in BOOLEAN :
         /\ on => ~manual
         /\ Begin(r, "auto", [op |-> IF on THEN "on" ELSE "off"])
    /\ UNCHANGED <<day, ticked, pairs, files, served, settings, setup, pending>>

\* The form does not offer to switch renewal on while a manual certificate is active; one
\* that was opened before does.
ConfigureOldForm(r) ==
    /\ Ask
    /\ Active = {} /\ manual /\ Mishap("old form")
    /\ at' = [at EXCEPT ![r] = "auto"] /\ job' = [job EXCEPT ![r] = [op |-> "on"]]
    /\ UNCHANGED <<day, ticked, pairs, files, served, settings, setup, pending>>

SetManual(r) ==
    /\ at[r] = "manual"
    /\ manual' = (job[r].op = "upload")
    /\ GoTo(r, "auto")
    /\ UNCHANGED <<day, ticked, pairs, files, served, auto, onSince, setup, pending, past, requests>>

\* Seeded fault: an upload leaves automatic renewal on.
SetAutoAlways(r) ==
    /\ at[r] = "auto"
    /\ auto' = (job[r].op # "off")
    /\ onSince' = IF auto THEN onSince ELSE day
    /\ IF job[r].op = "upload" THEN GoTo(r, "reload") ELSE Finish(r)
    /\ UNCHANGED <<day, ticked, pairs, files, served, manual, setup, pending, past, requests>>

SetAuto(r) ==
    /\ at[r] = "auto"
    /\ auto' = (job[r].op \in {"on", "clear"})
    /\ onSince' = IF auto THEN onSince ELSE day
    /\ IF job[r].op = "upload" THEN GoTo(r, "reload") ELSE Finish(r)
    /\ UNCHANGED <<day, ticked, pairs, files, served, manual, setup, pending, past, requests>>

SetFails(r) ==
    /\ at[r] \in {"manual", "auto"}
    /\ Mishap("database") /\ Finish(r)
    /\ UNCHANGED <<day, ticked, pairs, files, served, settings, setup, pending, requests>>

-----------------------------------------------------------------------------
(* The loop has its turn every twelve hours, and nothing takes a day. *)
DayPasses ==
    /\ ticked /\ Active = {}
    /\ day' = IF day < MaxDay THEN day + 1 ELSE day
    /\ ticked' = FALSE
    /\ UNCHANGED <<pairs, files, served, settings, setup, pending, procs, past, requests>>

Work(p) ==
    Order(p) \/ OrderFails(p) \/ WriteCert(p) \/ WriteKey(p) \/ WriteFails(p)
    \/ Reload(p) \/ ReloadFails(p)

RenewalLoop == Rest \/ Heal \/ RetryReload \/ Renew \/ RenewMisread \/ ReconcileSnippet
               \/ ReconcilePanel \/ Reconciled \/ ReconcileFails \/ ReconcileStops \/ Work(Loop)

Request(r) ==
    RenewByHand(r) \/ Upload(r) \/ ClearManual(r) \/ Configure(r) \/ ConfigureOldForm(r)
    \/ SetManual(r) \/ SetAuto(r) \/ SetFails(r) \/ Work(r)

Next ==
    RenewalLoop \/ (\E r \in Requests : Request(r)) \/ Restart \/ DayPasses

Spec == Init /\ [][Next]_vars

\* The loop's timer fires and its step ends, requests that have begun go on, days pass.
FairSpec ==
    /\ Spec
    /\ WF_vars(RenewalLoop)
    /\ WF_vars(DayPasses)
    /\ \A r \in Requests : WF_vars(Work(r) \/ SetManual(r) \/ SetAuto(r))

-----------------------------------------------------------------------------
(* Properties. *)

\* Every variable has the type its comment gives it.
TypeOK ==
    /\ day \in 0..MaxDay /\ ticked \in BOOLEAN
    /\ pairs \in Seq(Pair)
    /\ {certFile, keyFile} \subseteq 0..Len(pairs) /\ served \in 1..Len(pairs)
    /\ {manual, auto, snippet, webroot, pending} \subseteq BOOLEAN
    /\ at \in [Procs -> {"idle", "order", "cert", "key", "reload", "manual", "auto"} \cup Reconciling]
    /\ job \in [Procs -> Job]
    /\ \A p \in Procs : at[p] \in {"cert", "key"} => job[p].pair \in 1..Len(pairs)
    /\ onSince \in 0..day
    /\ mishaps \subseteq Faults /\ count \in 0..MaxMishaps
    /\ requests \in 0..MaxRequests

\* Orders and reloads of the loop may fail, and its reconciles before they have written
\* anything, as many times as the margin has days but two (healing the setup takes a turn, and
\* so does success): while renewal is automatic nginx never serves a certificate that has
\* expired.  After it has been off, the loop needs as many turns to catch up.  (HealRetried
\* says what comes of a reconcile that fails later.)
NeverExpired ==
    auto /\ mishaps \subseteq {"order", "reload", "heal"} /\ MaxMishaps + 1 < RenewDays
         /\ day > onSince + MaxMishaps + 2 =>
        Valid(served)

\* settings.go:672 disables renewal "so ACME does not later overwrite the manual
\* certificate": while it is active, the loop's pair is on disk only if the settings were
\* written in part, by an old form, or while another process worked.
ManualKept ==
    Active = {} /\ manual /\ mishaps \cap {"database", "overlap", "old form", "write", "restart"} = {} =>
        pairs[certFile].by # "loop"

\* runner.go:28 on the limits of the authority: whatever fails after an order, the loop
\* does not order again before the certificate it has is due.
NoReissue ==
    mishaps \cap {"write", "overlap", "restart"} = {} =>
        \A i \in 2..Len(pairs) :
            pairs[i].by = "loop" /\ pairs[i - 1].by # "manual" =>
                pairs[i].until > pairs[i - 1].until + Life - RenewDays

\* The loop orders when an order is due and writes where it may: a certificate of the
\* administrator stays, and no order is wasted.
OrdersJustified == ManualKept /\ NoReissue

\* runner.go:27-31: a reload that failed is made up for.  As long as the panel runs, the files
\* could be written and the loop's own reloads are the only ones to fail, nginx comes to serve
\* what is on disk, unless renewal is switched off or the files do not make a pair any more.
ReloadRetried ==
    Loadable ~> \/ served = certFile \/ ~auto \/ ~Loadable
                \/ ~(mishaps \subseteq {"order", "reload", "heal", "half heal", "old form"})

\* settings.go:672, of every upload: the loop does not overwrite a manual certificate.
ManualStays ==
    Active = {} /\ manual /\ certFile # Torn => pairs[certFile].by # "loop"

\* runner.go:64-68, of renewals by hand as well: the loop retries a reload that failed.
HandedOver == Loadable ~> (served = certFile \/ ~Loadable \/ ~auto)

\* settings.go:755: when the manual override is reverted, the next tick obtains a
\* certificate from the authority.
RevertRenews == [][Rest /\ Active = {} /\ auto /\ ~manual /\ certFile # Torn => pairs[certFile].by # "manual"]_vars

\* acmeheal.go:28 says of a reconcile that fails that it is retried on the next tick, and
\* acmeheal.go:35 that a renewal is skipped that would fail anyway: the loop orders only when
\* the authority can be answered.
HealRetried == [][Renew => Answered]_vars

\* A write that failed is made up for before the certificate in use expires.
WritesRecovered ==
    auto /\ mishaps \subseteq {"write"} /\ MaxMishaps + 1 < RenewDays
         /\ day > onSince + MaxMishaps + 2 =>
        Valid(served)
=============================================================================
