------------------------------ MODULE UserSync ------------------------------
(***************************************************************************)
(* Proxy users and the configuration Teleproxy runs with.                  *)
(*                                                                         *)
(* The panel keeps its users in SQLite (db).  Whatever changes them then   *)
(* calls applyTeleproxyConfig: list the users, rewrite users.json, rewrite *)
(* teleproxy.toml, ask systemd to reload the service.  Every statement is  *)
(* a step of its own, no lock spans them, and HTTP handlers run            *)
(* concurrently with one another and with the quota service's ticker.      *)
(* teleproxy.toml is truncated and written in place; so is users.json, but *)
(* only tgproxy-cli update ever reads that one: its write is one step.     *)
(* A failed apply is answered by undoing the database change, statement by *)
(* statement, the errors of which are ignored; the files are left as they  *)
(* are.  The quota service instead remembers the failure in memory         *)
(* (reloadPending) and retries on a later recalculation.                   *)
(*                                                                         *)
(* A row is identified by its label: UNIQUE(label) covers deleted rows     *)
(* too, so a label never names two rows.                                   *)
(***************************************************************************)
EXTENDS Naturals, FiniteSets

CONSTANTS
    Users,          \* labels
    Starts,         \* the ones that exist at the start, with the events already spent
    Requests,       \* HTTP handlers that can be in flight
    Ticker,         \* the goroutine of quota.Service.RunPeriodic
    Ops,            \* the operations the administrator uses
    MaxActive,      \* maxActiveUsers
    StaleForms,     \* may a bulk form name users that were deleted meanwhile?
    MayFail,        \* may statements, writes and reloads fail?
    MayCrash,       \* may the panel process die and be restarted?
    MaxRequests,    \* bound on the requests of a behaviour
    MaxEvents       \* bound on quota crossings, period ends and crashes

SingleOps == {"toggle", "delete", "rotate", "quota_set", "quota_reset", "suspend_toggle"}
BulkOps == {"rotate_all", "bulk_suspend", "bulk_rotate", "bulk_delete"}
RotateOps == {"rotate", "rotate_all", "bulk_rotate"}
DeleteOps == {"delete", "bulk_delete"}
QuotaOps == {"quota_set", "quota_reset"}
RecalcOps == {"quota_set", "quota_reset", "suspend_toggle"}
AllOps == SingleOps \cup BulkOps \cup {"create"}

ASSUME ConstantsAssumption ==
    /\ Users # {} /\ Starts \subseteq [users : SUBSET Users, events : Nat]
    /\ Ticker \notin Requests
    /\ Ops \subseteq AllOps
    /\ MaxActive \in Nat /\ MaxRequests \in Nat /\ MaxEvents \in Nat
    /\ StaleForms \in BOOLEAN /\ MayFail \in BOOLEAN /\ MayCrash \in BOOLEAN

Procs == Requests \cup {Ticker}
Entry == Users \X Nat               \* a label with its secret
Row == [state : {"absent", "live", "deleted"}, enabled : BOOLEAN,
        suspended : BOOLEAN, secret : Nat]
Callers == {"request", "rollover", "recalc"}

\* What a handler or a tick keeps in local variables.
Job == [op : AllOps \cup {"tick"},
        user : Users,               \* the row of a single operation or a recalculation
        snap : [Users -> Row],      \* the rows List returned when it began
        todo : SUBSET Users,        \* rows it still has to visit
        undo : SUBSET Users,        \* rows to restore if the apply fails
        rendered : SUBSET Entry,    \* entries the current apply listed
        why : Callers,              \* who called the current apply
        err : BOOLEAN]              \* what the apply returned to runReload

Mishaps == {"overlap", "failed", "unacked", "unrestored", "crash", "restart"}
\* teleproxy.toml is one list, a list followed by entries of another, or unreadable.
Written == {"whole", "joined", "torn"}
PC == {"idle", "count", "insert", "mutate", "list", "users_json", "toml", "toml_write",
       "reload", "record", "rollback", "next", "rollover", "recalc"}

VARIABLES
    db,             \* table users
    issued,         \* number of secrets generated so far
    over,           \* users whose traffic in the period has reached the quota
    due,            \* users whose quota period has ended
    usersJSON,      \* entries in users.json
    toml,           \* whole entries in teleproxy.toml, none while it is truncated
    written,        \* how the last write of it came out
    live,           \* entries the running Teleproxy accepts
    reloadPending,  \* quota.Service.reloadPending
    pc, job,        \* control and locals of every process
    requests, events,   \* bounded counters
    mishaps,        \* history: what has gone wrong so far
    lost,           \* history: rows that the latest request failed to restore
    stray           \* history: such rows since Teleproxy was last given the table

vars == <<db, issued, over, due, usersJSON, toml, written, live, reloadPending, pc, job,
          requests, events, mishaps, lost, stray>>

NoRow == [state |-> "absent", enabled |-> TRUE, suspended |-> FALSE, secret |-> 0]
NoJob == [op |-> "tick", user |-> CHOOSE u \in Users : TRUE, snap |-> [u \in Users |-> NoRow],
          todo |-> {}, undo |-> {}, rendered |-> {}, why |-> "request", err |-> FALSE]

IsLive(u) == db[u].state = "live"
\* Seeded fault: the filter forgets the suspension.
AdmittedSuspended(row) == row.state = "live" /\ row.enabled

Admitted(row) == row.state = "live" /\ row.enabled /\ ~row.suspended

\* What applyTeleproxyConfig renders from a table of users.
Eligible(rows) == {<<u, rows[u].secret>> : u \in {v \in Users : Admitted(rows[v])}}

ActiveCount == Cardinality({u \in Users : IsLive(u) /\ db[u].enabled})

Quiet == \A p \in Procs : pc[p] = "idle"

Init ==
    /\ \E start \in Starts :
          /\ db = [u \in Users |-> IF u \in start.users
                                   THEN [NoRow EXCEPT !.state = "live"] ELSE NoRow]
          /\ events = start.events
    /\ issued = 0
    /\ over = {} /\ due = {}
    /\ usersJSON = Eligible(db) /\ toml = Eligible(db) /\ live = Eligible(db)
    /\ written = "whole"
    /\ reloadPending = FALSE
    /\ pc = [p \in Procs |-> "idle"]
    /\ job = [p \in Procs |-> NoJob]
    /\ requests = 0
    /\ mishaps = {} /\ lost = {} /\ stray = {}

-----------------------------------------------------------------------------
(* Control. *)

Goto(p, from, to) == pc[p] = from /\ pc' = [pc EXCEPT ![p] = to]

\* The handler answers, or the tick moves on to its next user.
Finish(p) ==
    IF p = Ticker
    THEN /\ pc' = [pc EXCEPT ![p] = "next"]
         /\ job' = [job EXCEPT ![p] = [NoJob EXCEPT !.todo = job[p].todo]]
    ELSE /\ pc' = [pc EXCEPT ![p] = "idle"]
         /\ job' = [job EXCEPT ![p] = NoJob]

\* A process that starts while another is at work.
NoteStart == mishaps' = IF Quiet THEN mishaps ELSE mishaps \cup {"overlap"}

Applying == {"list", "users_json", "toml", "toml_write", "reload"}

-----------------------------------------------------------------------------
(* The handlers up to their call of reloadTeleproxy. *)

Begin(r, o, to, j) ==
    /\ r \in Requests /\ o \in Ops /\ requests < MaxRequests
    /\ Goto(r, "idle", to)
    /\ job' = [job EXCEPT ![r] = j]
    /\ requests' = requests + 1
    /\ NoteStart /\ lost' = {}
    /\ UNCHANGED <<db, issued, over, due, usersJSON, toml, written, live, reloadPending, events,
                   stray>>

\* Toggle, delete, rotate, quota set and reset, suspend toggle: list, look the user up.
BeginSingle(r, o, u) ==
    /\ o \in SingleOps /\ IsLive(u)
    /\ Begin(r, o, "mutate", [NoJob EXCEPT !.op = o, !.user = u, !.snap = db, !.todo = {u}])

\* The users a bulk handler visits: the posted ids, less those List did not return
\* unless the handler deletes; rotate-all takes every enabled user.
Visited(o, ids) ==
    CASE o = "rotate_all" -> {u \in Users : IsLive(u) /\ db[u].enabled}
      [] o = "bulk_delete" -> ids
      [] OTHER -> {u \in ids : IsLive(u)}

BeginBulk(r, o, ids) ==
    /\ o \in BulkOps
    /\ StaleForms \/ \A u \in ids : IsLive(u)
    /\ Begin(r, o, IF Visited(o, ids) = {} THEN "list" ELSE "mutate",
             [NoJob EXCEPT !.op = o, !.snap = db, !.todo = Visited(o, ids),
                           !.undo = IF o = "bulk_delete" THEN ids ELSE {}])

BeginCreate(r, u) ==
    Begin(r, "create", "count", [NoJob EXCEPT !.op = "create", !.user = u, !.snap = db])

\* UserRepo.Create, first statement: the limit on active users.
CheckLimit(r) ==
    /\ \/ ActiveCount < MaxActive /\ Goto(r, "count", "insert") /\ UNCHANGED job
       \/ ActiveCount >= MaxActive /\ pc[r] = "count" /\ Finish(r)
    /\ UNCHANGED <<db, issued, over, due, usersJSON, toml, written, live, reloadPending,
                   requests, events, mishaps, lost, stray>>

\* UserRepo.Create, label check and INSERT: a row that is there, deleted or not, refuses it.
Refused(r) == pc[r] = "insert" /\ db[job[r].user].state # "absent"

Insert(r) ==
    LET u == job[r].user IN
    /\ \/ /\ Refused(r)
          /\ Finish(r)
          /\ UNCHANGED <<db, issued>>
       \/ /\ ~Refused(r)
          /\ Goto(r, "insert", "list")
          /\ db' = [db EXCEPT ![u] = [state |-> "live", enabled |-> TRUE, suspended |-> FALSE,
                                      secret |-> issued + 1]]
          /\ issued' = issued + 1
          /\ job' = [job EXCEPT ![r].undo = {u}]
    /\ UNCHANGED <<over, due, usersJSON, toml, written, live, reloadPending, requests, events,
                   mishaps, lost, stray>>

Update(u, row) == db' = [db EXCEPT ![u] = row]

\* What an operation writes into the row of u, given the row List returned for it.
\* SetQuota keeps or lifts the suspension, as the size and the period change or not.
Write(o, u, old) ==
    \/ o = "toggle" /\ Update(u, [db[u] EXCEPT !.enabled = ~old.enabled])
    \/ o \in DeleteOps /\ Update(u, [db[u] EXCEPT !.state = "deleted"])
    \/ o \in RotateOps /\ Update(u, [db[u] EXCEPT !.secret = issued + 1])
    \/ o = "suspend_toggle" /\ Update(u, [db[u] EXCEPT !.suspended = ~old.suspended])
    \/ o = "bulk_suspend" /\ Update(u, [db[u] EXCEPT !.suspended = TRUE])
    \/ o \in QuotaOps /\ Update(u, [db[u] EXCEPT !.suspended = FALSE])
    \/ o = "quota_set" /\ Update(u, db[u])

\* A quota operation, or its rollback, leaves u over its quota or not (the traffic of
\* the day is counted again), and its period ended or not, as far as mayBeDue allows.
Requota(u, mayBeDue) ==
    /\ over' \in {over \cup {u}, over \ {u}}
    /\ due' \in {due \ {u}} \cup (IF mayBeDue THEN {due \cup {u}} ELSE {})

\* One UPDATE ... WHERE deleted_at IS NULL of the handler's loop.
Mutate(r, u) ==
    LET o == job[r].op IN
    /\ u \in job[r].todo
    /\ Goto(r, "mutate", IF job[r].todo = {u} THEN "list" ELSE "mutate")
    /\ \/ /\ IsLive(u)
          /\ Write(o, u, job[r].snap[u])
          /\ IF o \in QuotaOps
             THEN Requota(u, o = "quota_set" /\ u \in due)
             ELSE UNCHANGED <<over, due>>
       \/ ~IsLive(u) /\ UNCHANGED <<db, over, due>>
    /\ issued' = IF o \in RotateOps THEN issued + 1 ELSE issued
    /\ job' = [job EXCEPT ![r].todo = @ \ {u}, ![r].undo = @ \cup {u}]
    /\ UNCHANGED <<usersJSON, toml, written, live, reloadPending, requests, events,
                   mishaps, lost, stray>>

\* The UPDATE fails: a bulk handler restores what it has changed, a single one answers.
MutateFails(r, u) ==
    LET o == job[r].op
        undone == job[r].undo \cup (IF o \in {"bulk_suspend", "bulk_rotate"} THEN {u} ELSE {})
    IN
    /\ MayFail /\ pc[r] = "mutate" /\ u \in job[r].todo
    /\ IF o \in BulkOps /\ undone # {}
       THEN /\ pc' = [pc EXCEPT ![r] = "rollback"]
            /\ job' = [job EXCEPT ![r].undo = undone]
       ELSE Finish(r)
    /\ UNCHANGED <<db, issued, over, due, usersJSON, toml, written, live, reloadPending,
                   requests, events, mishaps, lost, stray>>

-----------------------------------------------------------------------------
(* applyTeleproxyConfig, on behalf of a handler or of the quota service. *)

\* Seeded fault: a handler renders the rows it listed when it began, with those it has changed.
ListOnce(p) ==
    /\ Goto(p, "list", "users_json")
    /\ job' = [job EXCEPT ![p].rendered = Eligible(
            [u \in Users |-> IF p = Ticker \/ u \in job[p].undo THEN db[u] ELSE job[p].snap[u]])]
    /\ UNCHANGED <<db, issued, over, due, usersJSON, toml, written, live, reloadPending,
                   requests, events, mishaps, lost, stray>>

List(p) ==
    /\ Goto(p, "list", "users_json")
    /\ job' = [job EXCEPT ![p].rendered = Eligible(db)]
    /\ UNCHANGED <<db, issued, over, due, usersJSON, toml, written, live, reloadPending,
                   requests, events, mishaps, lost, stray>>

\* Seeded fault: a users.json that exists is left alone.
KeepUsersJSON(p) ==
    /\ Goto(p, "users_json", "toml")
    /\ UNCHANGED <<db, issued, over, due, usersJSON, toml, written, live, reloadPending, job,
                   requests, events, mishaps, lost, stray>>

\* Seeded fault: the labels are written without their secrets.
WriteLabels(p) ==
    /\ Goto(p, "users_json", "toml")
    /\ usersJSON' = {e[1] : e \in job[p].rendered}
    /\ UNCHANGED <<db, issued, over, due, toml, written, live, reloadPending, job,
                   requests, events, mishaps, lost, stray>>

WriteUsersJSON(p) ==
    /\ Goto(p, "users_json", "toml")
    /\ usersJSON' = job[p].rendered
    /\ UNCHANGED <<db, issued, over, due, toml, written, live, reloadPending, job,
                   requests, events, mishaps, lost, stray>>

\* os.WriteFile truncates the file, then writes it.
TruncateTOML(p) ==
    /\ Goto(p, "toml", "toml_write")
    /\ toml' = {} /\ written' = "whole"
    /\ UNCHANGED <<db, issued, over, due, usersJSON, live, reloadPending, job,
                   requests, events, mishaps, lost, stray>>

\* What another apply has written meanwhile is overwritten as far as the list reaches:
\* the rest may begin with a whole entry, which then belongs to the list, or in the
\* middle of one, which spoils the file.
WriteTOML(p) ==
    LET list == job[p].rendered IN
    /\ Goto(p, "toml_write", "reload")
    /\ \/ toml' = list /\ written' = "whole"
       \/ \E rest \in SUBSET toml :
            /\ toml # {} \/ written = "torn"
            /\ list # {} => rest # toml \/ written = "torn"
            /\ toml' = list \cup rest
            /\ written' \in IF rest = {} THEN {"torn"} ELSE {"joined", "torn"}
    /\ UNCHANGED <<db, issued, over, due, usersJSON, live, reloadPending, job,
                   requests, events, mishaps, lost, stray>>

\* What Teleproxy makes of the file.
Readable == IF written = "torn" THEN {} ELSE toml

\* The apply returns; a handler that gets an error restores its rows.
Return(p, failed) ==
    IF job[p].why = "request"
    THEN \/ /\ failed /\ job[p].undo # {}
            /\ pc' = [pc EXCEPT ![p] = "rollback"] /\ UNCHANGED job
         \/ /\ failed /\ job[p].undo = {}
            /\ Finish(p)
         \/ /\ ~failed /\ job[p].op \in RecalcOps
            /\ pc' = [pc EXCEPT ![p] = "recalc"] /\ UNCHANGED job
         \/ /\ ~failed /\ job[p].op \notin RecalcOps
            /\ Finish(p)
    ELSE /\ pc' = [pc EXCEPT ![p] = "record"]
         /\ job' = [job EXCEPT ![p].err = failed]

Reload(p) ==
    /\ pc[p] = "reload"
    /\ live' = Readable
    /\ lost' = {} /\ stray' = {}
    /\ Return(p, FALSE)
    /\ UNCHANGED <<db, issued, over, due, usersJSON, toml, written, reloadPending,
                   requests, events, mishaps>>

\* Any step of the apply returns an error and Teleproxy keeps what it has, or the
\* reload was delivered and systemctl ran into its ten-second limit.
ApplyFails(p) ==
    /\ MayFail /\ pc[p] \in Applying
    /\ \/ live' = live /\ mishaps' = mishaps \cup {"failed"}
       \/ pc[p] = "reload" /\ live' = Readable /\ mishaps' = mishaps \cup {"unacked"}
    /\ Return(p, TRUE)
    /\ UNCHANGED <<db, issued, over, due, usersJSON, toml, written, reloadPending,
                   requests, events, lost, stray>>

\* What a rollback writes into a row.  Restore has no guard; the others skip deleted rows.
Restored(o, row, old) ==
    IF o \in DeleteOps THEN [row EXCEPT !.state = IF @ = "deleted" THEN "live" ELSE @]
    ELSE IF row.state # "live" THEN row
    ELSE CASE o = "create"    -> [row EXCEPT !.state = "deleted"]
           [] o = "toggle"    -> [row EXCEPT !.enabled = old.enabled]
           [] o \in RotateOps -> [row EXCEPT !.secret = old.secret]
           [] OTHER           -> [row EXCEPT !.suspended = old.suspended]

\* The handler's loop over the rows, or its one row.
NextRow(r, u) ==
    /\ pc[r] = "rollback" /\ u \in job[r].undo
    /\ IF job[r].undo = {u}
       THEN Finish(r)
       ELSE UNCHANGED pc /\ job' = [job EXCEPT ![r].undo = @ \ {u}]

Rollback(r, u) ==
    LET j == job[r] IN
    /\ NextRow(r, u)
    /\ db' = [db EXCEPT ![u] = Restored(j.op, @, j.snap[u])]
    /\ IF IsLive(u) /\ j.op \in QuotaOps THEN Requota(u, TRUE) ELSE UNCHANGED <<over, due>>
    /\ UNCHANGED <<issued, usersJSON, toml, written, live, reloadPending, requests, events,
                   mishaps, lost, stray>>

\* Seeded fault: the handler gives up at the first statement that fails.
RollbackStops(r, u) ==
    /\ MayFail /\ pc[r] = "rollback" /\ u \in job[r].undo /\ Finish(r)
    /\ lost' = lost \cup {u} /\ stray' = stray \cup {u}
    /\ mishaps' = mishaps \cup {"unrestored"}
    /\ UNCHANGED <<db, issued, over, due, usersJSON, toml, written, live, reloadPending,
                   requests, events>>

\* The statement fails; no handler looks at its error.
RollbackFails(r, u) ==
    /\ MayFail /\ NextRow(r, u)
    /\ lost' = lost \cup {u} /\ stray' = stray \cup {u}
    /\ mishaps' = mishaps \cup {"unrestored"}
    /\ UNCHANGED <<db, issued, over, due, usersJSON, toml, written, live, reloadPending,
                   requests, events>>

-----------------------------------------------------------------------------
(* The quota service. *)

TickBegins ==
    /\ Goto(Ticker, "idle", "next")
    /\ job' = [job EXCEPT ![Ticker] = [NoJob EXCEPT !.todo = {u \in Users : IsLive(u)}]]
    /\ NoteStart
    /\ UNCHANGED <<db, issued, over, due, usersJSON, toml, written, live, reloadPending,
                   requests, events, lost, stray>>

TickNext ==
    /\ \/ \E u \in job[Ticker].todo :
            /\ Goto(Ticker, "next", "rollover")
            /\ job' = [job EXCEPT ![Ticker] = [NoJob EXCEPT !.user = u, !.todo = job[Ticker].todo \ {u}]]
       \/ /\ job[Ticker].todo = {}
          /\ Goto(Ticker, "next", "idle")
          /\ job' = [job EXCEPT ![Ticker] = NoJob]
    /\ UNCHANGED <<db, issued, over, due, usersJSON, toml, written, live, reloadPending,
                   requests, events, mishaps, lost, stray>>

\* RolloverIfDue: a new period lifts the suspension, and the apply follows if there was one.
RolloverIfDue ==
    LET u == job[Ticker].user IN
    /\ pc[Ticker] = "rollover"
    /\ \/ /\ IsLive(u) /\ u \in due
          /\ db' = [db EXCEPT ![u].suspended = FALSE]
          /\ due' = due \ {u} /\ over' = over \ {u}
          /\ IF db[u].suspended
             THEN /\ pc' = [pc EXCEPT ![Ticker] = "list"]
                  /\ job' = [job EXCEPT ![Ticker].why = "rollover"]
             ELSE pc' = [pc EXCEPT ![Ticker] = "recalc"] /\ UNCHANGED job
       \/ /\ IsLive(u) /\ u \notin due
          /\ pc' = [pc EXCEPT ![Ticker] = "recalc"]
          /\ UNCHANGED <<db, over, due, job>>
       \/ /\ ~IsLive(u)
          /\ Finish(Ticker)
          /\ UNCHANGED <<db, over, due>>
    /\ UNCHANGED <<issued, usersJSON, toml, written, live, reloadPending, requests, events,
                   mishaps, lost, stray>>

\* Recalculate: suspend a user that is over the quota; apply on a transition, or if an
\* earlier apply of the quota service failed.
Recalculate(p) ==
    LET u == job[p].user
        suspends == IsLive(u) /\ u \in over /\ ~db[u].suspended
    IN
    /\ pc[p] = "recalc"
    /\ db' = IF suspends THEN [db EXCEPT ![u].suspended = TRUE] ELSE db
    /\ IF suspends \/ (IsLive(u) /\ reloadPending)
       THEN /\ pc' = [pc EXCEPT ![p] = "list"]
            /\ job' = [job EXCEPT ![p].why = "recalc"]
       ELSE Finish(p)
    /\ UNCHANGED <<issued, over, due, usersJSON, toml, written, live, reloadPending,
                   requests, events, mishaps, lost, stray>>

\* Seeded fault: a failed apply is not remembered.
ForgetReload(p) ==
    /\ pc[p] = "record"
    /\ Finish(p)
    /\ UNCHANGED <<db, issued, over, due, usersJSON, toml, written, live, reloadPending,
                   requests, events, mishaps, lost, stray>>

\* runReload notes the outcome; a tick goes on to recalculate unless the apply failed.
RecordReload(p) ==
    /\ pc[p] = "record"
    /\ reloadPending' = job[p].err
    /\ IF job[p].why = "rollover" /\ ~job[p].err
       THEN pc' = [pc EXCEPT ![p] = "recalc"] /\ UNCHANGED job
       ELSE Finish(p)
    /\ UNCHANGED <<db, issued, over, due, usersJSON, toml, written, live, requests, events,
                   mishaps, lost, stray>>

-----------------------------------------------------------------------------
(* The environment. *)

QuotaReached(u) ==
    /\ events < MaxEvents /\ events' = events + 1
    /\ IsLive(u) /\ over' = over \cup {u}
    /\ UNCHANGED <<db, issued, due, usersJSON, toml, written, live, reloadPending, pc, job,
                   requests, mishaps, lost, stray>>

PeriodEnds(u) ==
    /\ events < MaxEvents /\ events' = events + 1
    /\ IsLive(u) /\ due' = due \cup {u}
    /\ UNCHANGED <<db, issued, over, usersJSON, toml, written, live, reloadPending, pc, job,
                   requests, mishaps, lost, stray>>

\* systemd restarts Teleproxy, which reads its configuration again.
TeleproxyRestarts ==
    /\ MayFail
    /\ live' = Readable
    /\ mishaps' = IF live = Readable THEN mishaps ELSE mishaps \cup {"restart"}
    /\ UNCHANGED <<db, issued, over, due, usersJSON, toml, written, reloadPending, pc, job,
                   requests, events, lost, stray>>

\* The panel dies and systemd starts it again: nothing in memory survives.
PanelCrashes ==
    /\ MayCrash /\ events < MaxEvents /\ events' = events + 1
    /\ pc' = [p \in Procs |-> "idle"]
    /\ job' = [p \in Procs |-> NoJob]
    /\ reloadPending' = FALSE
    /\ mishaps' = mishaps \cup {"crash"}
    /\ UNCHANGED <<db, issued, over, due, usersJSON, toml, written, live, requests, lost, stray>>

Arrive(r) ==
    \/ \E o \in SingleOps, u \in Users : BeginSingle(r, o, u)
    \/ \E o \in BulkOps, ids \in (SUBSET Users) \ {{}} : BeginBulk(r, o, ids)
    \/ \E u \in Users : BeginCreate(r, u)

Handle(r) ==
    \/ CheckLimit(r) \/ Insert(r)
    \/ \E u \in Users : Mutate(r, u) \/ Rollback(r, u)

Tick == TickBegins \/ TickNext \/ RolloverIfDue

Apply(p) ==
    List(p) \/ WriteUsersJSON(p) \/ TruncateTOML(p) \/ WriteTOML(p) \/ Reload(p)

Environment ==
    \/ \E u \in Users : QuotaReached(u) \/ PeriodEnds(u)
    \/ TeleproxyRestarts \/ PanelCrashes

Next ==
    \/ \E r \in Requests :
          \/ Arrive(r) \/ Handle(r)
          \/ \E u \in Users : MutateFails(r, u) \/ RollbackFails(r, u)
    \/ Tick
    \/ \E p \in Procs : Apply(p) \/ ApplyFails(p) \/ Recalculate(p) \/ RecordReload(p)
    \/ Environment

Spec == Init /\ [][Next]_vars

\* RunPeriodic keeps ticking, a handler that has begun goes on, and an apply that is
\* retried for ever succeeds in the end.  Nothing is assumed of the administrator.
Fairness ==
    /\ \A r \in Requests :
          WF_vars(Handle(r) \/ Apply(r) \/ Recalculate(r) \/ RecordReload(r))
    /\ WF_vars(Tick \/ Apply(Ticker) \/ Recalculate(Ticker) \/ RecordReload(Ticker))
    /\ SF_vars(List(Ticker)) /\ SF_vars(WriteUsersJSON(Ticker))
    /\ SF_vars(TruncateTOML(Ticker)) /\ SF_vars(WriteTOML(Ticker)) /\ SF_vars(Reload(Ticker))

FairSpec == Spec /\ Fairness

-----------------------------------------------------------------------------
(* Properties. *)

\* Every variable has the type its comment gives it.
TypeOK ==
    /\ db \in [Users -> Row] /\ issued \in Nat
    /\ over \subseteq Users /\ due \subseteq Users
    /\ usersJSON \subseteq Entry /\ toml \subseteq Entry /\ live \subseteq Entry
    /\ written \in Written
    /\ reloadPending \in BOOLEAN
    /\ pc \in [Procs -> PC] /\ job \in [Procs -> Job]
    /\ requests \in Nat /\ events \in Nat
    /\ mishaps \subseteq Mishaps /\ lost \subseteq stray /\ stray \subseteq Users

InSync == live = Eligible(db)

\* Two lists that differ, if at all, in users whose rows a request failed to restore.
Agree(a, b) == {e \in a : e[1] \notin stray} = {e \in b : e[1] \notin stray}

\* Requests and ticks that do not overlap leave Teleproxy serving exactly the users the
\* database admits, whether their applies succeeded or were undone: the rollback of
\* every handler is exact, and the quota service knows when it still owes an apply.  A
\* rollback statement that fails, which nobody notices, leaves its own user different
\* and no other, and until the next reload only.
LiveInSync ==
    Quiet /\ ~reloadPending /\ mishaps \subseteq {"failed", "unrestored"}
        => Agree(live, Eligible(db))

\* When in addition no apply has failed, users.json and teleproxy.toml hold the same
\* users, so a restart of Teleproxy at any point changes nothing in the end: a bulk form
\* that gave up at its own statements has touched neither, even if it could not restore
\* every row.
DiskInSync ==
    Quiet /\ ~reloadPending /\ mishaps \subseteq {"restart", "unrestored"}
        => /\ Agree(live, Eligible(db))
           /\ toml = live /\ usersJSON = live /\ written = "whole"

RolledBack(r) ==
    pc[r] = "rollback" /\ pc'[r] = "idle" /\ mishaps' \cap {"overlap", "crash"} = {}
        => \A u \in Users :
              \/ db'[u] = job[r].snap[u]
              \/ job[r].op = "create" /\ u = job[r].user /\ db'[u].state = "deleted"
              \/ u \in lost'

\* A handler that ran alone and gave up has put every row back but those whose own
\* rollback statement failed: one failure does not keep it from restoring the others.
\* Only the label of a user it failed to create stays taken.
RollbackExact == [][\A r \in Requests : RolledBack(r)]_vars

\* users.go:334 says that Create refuses a label "among non-deleted users" only.
LabelReusable ==
    [][\A r \in Requests : Refused(r) /\ pc'[r] = "idle" => IsLive(job[r].user)]_vars

\* users.go:19 says that maxActiveUsers mirrors Teleproxy's limit on secrets: no
\* configuration that is written holds more.
RenderedWithinLimit == Cardinality(toml) <= MaxActive

\* user_actions.go:417 says that a failed bulk deletion restores the deleted users; a
\* user that an earlier request deleted is not one of them.
RestoresOnlyItsOwn ==
    [][\A u \in Users :
        db[u].state = "deleted" /\ db'[u].state = "live" /\ "overlap" \notin mishaps
            => \E r \in Requests : pc[r] = "rollback" /\ job[r].snap[u].state = "live"]_vars

\* user_actions.go:204 says that a failed rotation restores the secrets: the
\* configuration Teleproxy reads when it next starts holds them again.
SecretsRestoredOnDisk ==
    Quiet /\ ~reloadPending /\ mishaps \subseteq {"failed"} => toml = Eligible(db)

\* quota.go:41 says that the live configuration cannot stay out of sync with the
\* database indefinitely.
EventuallyInSync == []<>InSync

\* While the panel lives, the retries of the quota service make up for every apply of its
\* own that failed, with no transition to remind it; a panel that dies forgets what it owes.
RetriedUntilInSync == []<>(InSync \/ "crash" \in mishaps)

\* A user that reaches its quota loses access, or stops being over the quota, unless the
\* panel dies before.
SuspensionTakesEffect ==
    \A u \in Users :
        u \in over /\ IsLive(u) ~>
            u \notin over \/ (\A e \in live : e[1] # u) \/ "crash" \in mishaps

-----------------------------------------------------------------------------
(* Why LiveInSync, DiskInSync and RollbackExact hold: what a process knows at   *)
(* each point of its program while it runs alone.                              *)

\* Processes that never overlapped run one at a time.
Alone == "overlap" \notin mishaps =>
            \A p, q \in Procs : pc[p] # "idle" /\ pc[q] # "idle" => p = q

\* A row is as the handler found it, but for the label of a failed creation.
AsFound(j, u, row) ==
    \/ row = j.snap[u]
    \/ j.op = "create" /\ u = j.user /\ row.state = "deleted" /\ j.snap[u].state = "absent"

\* Restoring what is noted for restoration brings back the rows the handler found, but
\* for those it failed to restore.
Undoable(j) ==
    \A u \in Users :
        \/ u \in lost
        \/ AsFound(j, u, IF u \in j.undo THEN Restored(j.op, db[u], j.snap[u]) ELSE db[u])

\* Rows still to be visited are untouched and, unless the handler creates one, live.
Untouched(j) ==
    /\ \A u \in j.todo : db[u] = j.snap[u] /\ IsLive(u)
    /\ \A u \in j.undo \cap j.todo : j.op = "bulk_delete"
    /\ \/ j.op \in BulkOps
       \/ j.op \in SingleOps /\ j.todo = {j.user} /\ j.undo = {}

Working == {"mutate", "rollback"}
Resting == {"idle", "count", "insert", "next", "rollover", "recalc"}
OnRequest(p) == pc[p] \in Applying /\ job[p].why = "request"

\* Control and locals agree.
Controlled(p) ==
    /\ pc[p] \in {"count", "insert"} =>
          job[p].op = "create" /\ job[p].undo = {} /\ job[p].why = "request"
    /\ pc[p] \in Working => job[p].why = "request"
    /\ pc[p] = "record" => job[p].why # "request"
    /\ p = Ticker /\ pc[p] \in Applying => job[p].why # "request"

\* A process that runs alone can undo its request, and what it renders is current.
Private(p) ==
    /\ pc[p] \in {"count", "insert"} => db = job[p].snap
    /\ pc[p] \in Working \/ OnRequest(p) => Undoable(job[p])
    /\ pc[p] = "mutate" => Untouched(job[p])
    /\ pc[p] \in Applying \ {"list"} => job[p].rendered = Eligible(db)
    /\ pc[p] = "toml_write" => toml = {} /\ written = "whole"
    /\ pc[p] = "reload" => toml = Eligible(db) /\ written = "whole"

\* With failed applies and rollbacks only: Teleproxy serves what the database admits, or
\* admitted when the request began, or the quota service owes an apply.
Served(p) ==
    /\ pc[p] \in Resting => reloadPending \/ Agree(live, Eligible(db))
    /\ pc[p] \in Working \/ OnRequest(p) => reloadPending \/ Agree(live, Eligible(job[p].snap))
    /\ pc[p] = "record" => job[p].err \/ Agree(live, Eligible(db))

Hold(entries) ==
    Agree(live, entries) /\ toml = live /\ usersJSON = live /\ written = "whole"

\* With restarts of Teleproxy and failed rollbacks only: so do the files, except while
\* they are written.
Stored(p) ==
    /\ pc[p] \in Resting \cup {"record"} => Hold(Eligible(db))
    /\ pc[p] \in Working => Hold(Eligible(job[p].snap))
    /\ pc[p] \in {"toml", "toml_write", "reload"} => usersJSON = Eligible(db)

Sound(p) ==
    /\ mishaps \cap {"overlap", "crash"} = {} => Private(p)
    /\ mishaps \subseteq {"failed", "unrestored"} => Served(p)
    /\ mishaps \subseteq {"restart", "unrestored"} => Stored(p)

\* No process but p is at work.
OnlyActive(p) == \A q \in Procs \ {p} : pc[q] = "idle"

Inductive ==
    /\ TypeOK /\ Alone
    /\ \A p \in Procs : Controlled(p) /\ (OnlyActive(p) => Sound(p))
=============================================================================
