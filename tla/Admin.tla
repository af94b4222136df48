------------------------------- MODULE Admin -------------------------------
(***************************************************************************)
(* The account of the panel's administrator: login with one or two         *)
(* factors, the limit of failed attempts, sessions, enrolment of a second  *)
(* factor with its recovery codes, and the change of the password.         *)
(*                                                                         *)
(* The row of the account and the sessions are in the database, the        *)
(* attempts and the logins that wait for their second factor in memory.    *)
(* A handler reads the row, checks (which bcrypt makes slow), and writes.  *)
(***************************************************************************)
EXTENDS Naturals, Sequences, FiniteSets

CONSTANTS
    Requests,       \* requests that may be handled at a time
    MaxFailures,    \* failed attempts that block an address
    Window,         \* ... within so many ticks
    Block,          \* ... for so many ticks
    Wait,           \* ticks a login waits for its second factor
    Idle, Life,     \* ticks a session lives unused, and at all
    Codes,          \* recovery codes on a list
    Faults,         \* the kinds of mishaps that may happen
    MaxMishaps,     \* bound on the mishaps
    MaxRequests,    \* bound on the requests
    MaxTime         \* bound on the clock

ASSUME AdminAssumption ==
    /\ IsFiniteSet(Requests)
    /\ MaxFailures \in Nat \ {0} /\ Codes \in Nat \ {0}
    /\ {Window, Block, Wait, Idle, Life} \subseteq Nat /\ Window < Block
    /\ Faults \subseteq {"database", "commit", "overlap", "restart"}
    /\ {MaxMishaps, MaxRequests} \subseteq Nat /\ MaxTime \in Nat \ {0}

VARIABLES
    now,
    password,           \* the number of the password in force
    account,            \* the columns of the second factor
    sessions,
    pending,            \* logins that wait for their second factor
    attempts,           \* the limiter's record of the address
    at, job,            \* what each request does next, and its local variables
    secrets, printed,   \* how many secrets and recovery codes there have been
    confirmed, shown,   \* history: the secret confirmed, and the codes shown, last
    used,               \* history: which code has been accepted of which request
    unspent,               \* history: codes accepted that could not be taken off the list
    failed,             \* history: the times of the failures since a success
    overstayed,         \* history: has a session been served too late?
    mishaps, count,     \* history: kinds of mishaps, and how many
    requests

procs == <<at, job>>
fresh == <<secrets, printed>>
enrolment == <<confirmed, shown, used, unspent>>
limiter == <<attempts, failed>>
past == <<mishaps, count>>
vars == <<now, password, account, sessions, pending, limiter, procs, fresh, enrolment,
          overstayed, past, requests>>

NoFactor == [enabled |-> FALSE, secret |-> 0, codes |-> {}]
NoAttempts == [failures |-> 0, until |-> 0, blocked |-> 0]
NoJob == [op |-> "none"]

\* A code the administrator may type: of the app, of a list, or a wrong one.
Typed ==
    [of : {"app"}, no : 1..secrets] \cup [of : {"list"}, no : 1..printed] \cup {[of |-> "wrong"]}

\* Nobody is logged in; the second factor has been enrolled, or never.
Init ==
    /\ now = 1 /\ password = 1
    /\ \/ account = NoFactor /\ secrets = 0 /\ printed = 0 /\ confirmed = 0 /\ shown = {}
       \/ /\ account = [enabled |-> TRUE, secret |-> 1, codes |-> 1..Codes]
          /\ secrets = 1 /\ printed = Codes /\ confirmed = 1 /\ shown = 1..Codes
    /\ sessions = {} /\ pending = {} /\ attempts = NoAttempts
    /\ at = [r \in Requests |-> "idle"] /\ job = [r \in Requests |-> NoJob]
    /\ used = {} /\ unspent = {}
    /\ failed = <<>>
    /\ overstayed = FALSE /\ mishaps = {} /\ count = 0 /\ requests = 0

Active == {r \in Requests : at[r] # "idle"}

GoTo(r, next) == at' = [at EXCEPT ![r] = next] /\ UNCHANGED job
Finish(r) == at' = [at EXCEPT ![r] = "idle"] /\ job' = [job EXCEPT ![r] = NoJob]

Mishap(kind) ==
    /\ kind \in Faults /\ count < MaxMishaps
    /\ mishaps' = mishaps \cup {kind} /\ count' = count + 1

\* A request arrives, perhaps while another one is being handled.
Begin(r, first, what) ==
    /\ at[r] = "idle"
    /\ requests < MaxRequests /\ requests' = requests + 1
    /\ IF Active = {} THEN UNCHANGED past ELSE Mishap("overlap")
    /\ at' = [at EXCEPT ![r] = first] /\ job' = [job EXCEPT ![r] = what]

-----------------------------------------------------------------------------
(* The limiter: a window begins with the first failure after the last one. *)

IsBlocked == now < attempts.blocked

\* Seeded fault: every failure begins a window.
ForgetFailures == [failures |-> 1, until |-> now + Window,
                   blocked |-> IF 1 >= MaxFailures THEN now + Block ELSE attempts.blocked]

Counted ==
    LET kept == IF now > attempts.until
                THEN [attempts EXCEPT !.failures = 1, !.until = now + Window]
                ELSE [attempts EXCEPT !.failures = @ + 1]
    IN  IF kept.failures >= MaxFailures THEN [kept EXCEPT !.blocked = now + Block] ELSE kept

RecordFailure(r) ==
    /\ at[r] = "failed"
    /\ attempts' = Counted /\ failed' = Append(failed, now)
    /\ Finish(r)
    /\ UNCHANGED <<now, password, account, sessions, pending, fresh, enrolment, overstayed, past, requests>>

RecordSuccess == attempts' = NoAttempts /\ failed' = <<>>

-----------------------------------------------------------------------------
(* Login. *)

\* The password in force, or another one.
Login(r) ==
    /\ ~IsBlocked
    /\ \E given \in {password, password - 1} :
         Begin(r, "password", [op |-> "login", given |-> given, no |-> requests + 1])
    /\ UNCHANGED <<now, password, account, sessions, pending, limiter, fresh, enrolment, overstayed>>

CheckPassword(r) ==
    /\ at[r] = "password"
    /\ GoTo(r, IF job[r].given = password THEN "factor" ELSE "failed")
    /\ UNCHANGED <<now, password, account, sessions, pending, limiter, fresh, enrolment, overstayed, past, requests>>

\* gcLocked: whenever the store is used.
Waiting == {e \in pending : e.until >= now}

SecondFactor(r) ==
    /\ at[r] = "factor"
    /\ IF account.enabled
       THEN /\ pending' = Waiting \cup {[no |-> job[r].no, given |-> job[r].given, until |-> now + Wait]}
            /\ Finish(r)
       ELSE GoTo(r, "open") /\ UNCHANGED pending
    /\ UNCHANGED <<now, password, account, sessions, limiter, fresh, enrolment, overstayed, past, requests>>

\* Every code is tried that may be typed.
Verify(r) ==
    /\ ~IsBlocked
    /\ \E e \in Waiting, code \in Typed :
         Begin(r, "verify", [op |-> "verify", given |-> e.given, no |-> requests + 1,
                             entry |-> e, code |-> code])
    /\ pending' = Waiting
    /\ UNCHANGED <<now, password, account, sessions, limiter, fresh, enrolment, overstayed>>

Validate(code) == account.secret # 0 /\ code = [of |-> "app", no |-> account.secret]

CheckCode(r) ==
    /\ at[r] = "verify"
    /\ GoTo(r, IF ~account.enabled THEN "failed"
               ELSE IF Validate(job[r].code) THEN "open" ELSE "recover")
    /\ UNCHANGED <<now, password, account, sessions, pending, limiter, fresh, enrolment, overstayed, past, requests>>

Refused(r) == IF job[r].op = "verify" THEN GoTo(r, "failed") ELSE Finish(r)

\* The typed code is on the list: the request is let through.
Listed(r) == job[r].code.of = "list" /\ job[r].code.no \in account.codes

Accept(r) ==
    /\ used' = used \cup {<<job[r].code.no, job[r].no>>}
    /\ GoTo(r, IF job[r].op = "verify" THEN "open" ELSE "clear")

\* Seeded fault: the list is not stored without the code.
KeepRecoveryCode(r) ==
    /\ at[r] = "recover"
    /\ IF Listed(r)
       THEN Accept(r)
       ELSE Refused(r) /\ UNCHANGED used
    /\ UNCHANGED <<now, password, account, sessions, pending, limiter, fresh, confirmed, shown, unspent, overstayed, past, requests>>

\* One transaction: look the code up, store the list without it.
ConsumeRecoveryCode(r) ==
    /\ at[r] = "recover"
    /\ IF Listed(r)
       THEN /\ account' = [account EXCEPT !.codes = @ \ {job[r].code.no}]
            /\ Accept(r)
       ELSE Refused(r) /\ UNCHANGED <<account, used>>
    /\ UNCHANGED <<now, password, sessions, pending, limiter, fresh, confirmed, shown, unspent, overstayed, past, requests>>

\* The transaction is not committed, of which its caller takes no notice: the code is accepted
\* and stays on the list.
CommitFails(r) ==
    /\ at[r] = "recover" /\ Listed(r)
    /\ Mishap("commit")
    /\ unspent' = unspent \cup {job[r].code.no}
    /\ Accept(r)
    /\ UNCHANGED <<now, password, account, sessions, pending, limiter, fresh, confirmed, shown, overstayed, requests>>

\* finalizeLogin: the entry is dropped, the attempts are forgotten, the session is inserted.
Closed(r) == IF job[r].op = "verify" THEN pending \ {job[r].entry} ELSE pending

Open(r) ==
    /\ at[r] = "open"
    /\ pending' = Closed(r) /\ RecordSuccess
    /\ sessions' = sessions \cup
         {[no |-> job[r].no, given |-> job[r].given, late |-> job[r].given # password,
           until |-> now + Life, seen |-> now, active |-> now]}
    /\ Finish(r)
    /\ UNCHANGED <<now, password, account, fresh, enrolment, overstayed, past, requests>>

OpenFails(r) ==
    /\ at[r] = "open"
    /\ Mishap("database")
    /\ pending' = Closed(r) /\ RecordSuccess
    /\ Finish(r)
    /\ UNCHANGED <<now, password, account, sessions, fresh, enrolment, overstayed, requests>>

\* A password or a code that cannot be looked up counts as a wrong one; an account that
\* cannot be read counts as one without a second factor.
LookupFails(r) ==
    /\ at[r] \in {"password", "factor", "recover"}
    /\ Mishap("database")
    /\ IF at[r] = "factor" THEN GoTo(r, "open")
       ELSE IF at[r] = "password" THEN GoTo(r, "failed") ELSE Refused(r)
    /\ UNCHANGED <<now, password, account, sessions, pending, limiter, fresh, enrolment, overstayed, requests>>

-----------------------------------------------------------------------------
(* Sessions. *)

Alive(s) == now <= s.until /\ now <= s.seen + Idle

Overdue(s) == now > s.active + Idle \/ now > s.until

\* requireAuth: a request is served and the session touched.
Touched(s) == (sessions \ {s}) \cup {[s EXCEPT !.seen = now, !.active = now]}

Authenticated(s) ==
    /\ s \in sessions /\ Alive(s)
    /\ overstayed' = (overstayed \/ Overdue(s))

Use(s) ==
    /\ Authenticated(s) /\ sessions' = Touched(s)
    /\ UNCHANGED <<now, password, account, pending, limiter, procs, fresh, enrolment, past, requests>>

Poll(s) ==
    /\ Authenticated(s)
    /\ UNCHANGED <<now, password, account, sessions, pending, limiter, procs, fresh, enrolment, past, requests>>

Logout ==
    /\ requests < MaxRequests /\ requests' = requests + 1
    /\ \E s \in sessions : sessions' = sessions \ {s}
    /\ UNCHANGED <<now, password, account, pending, limiter, procs, fresh, enrolment, overstayed, past>>

Revoke ==
    /\ requests < MaxRequests /\ requests' = requests + 1
    /\ \E s, other \in sessions :
         /\ s # other /\ Authenticated(s)
         /\ sessions' = Touched(s) \ {other}
    /\ UNCHANGED <<now, password, account, pending, limiter, procs, fresh, enrolment, past>>

\* A request of a session, whose first step is what it does after reading the account.
Enter(r, s, first, what) ==
    /\ Authenticated(s) /\ sessions' = Touched(s)
    /\ Begin(r, first, what)
    /\ UNCHANGED <<now, password, account, pending, limiter, fresh, enrolment>>

-----------------------------------------------------------------------------
(* The second factor. *)

BeginEnrolment(r, s) ==
    /\ ~account.enabled
    /\ Enter(r, s, "secret", [op |-> "begin"])

StoreSecret(r) ==
    /\ at[r] = "secret"
    /\ secrets' = secrets + 1
    /\ account' = [enabled |-> FALSE, secret |-> secrets + 1, codes |-> {}]
    /\ Finish(r)
    /\ UNCHANGED <<now, password, sessions, pending, limiter, printed, enrolment, overstayed, past, requests>>

\* Seeded fault: the code is compared with the secret of the page it was typed on.
ConfirmPage(r, s) ==
    /\ ~account.enabled /\ account.secret # 0
    /\ \E code \in Typed :
         /\ code.of = "app"
         /\ Enter(r, s, "enable", [op |-> "confirm", secret |-> code.no])

Confirm(r, s) ==
    /\ ~account.enabled /\ account.secret # 0
    /\ \E code \in Typed :
         /\ Validate(code)
         /\ Enter(r, s, "enable", [op |-> "confirm", secret |-> account.secret])

\* Seeded fault: one code too many is stored.
NewCodesOneMore == (printed + 1)..(printed + Codes + 1)

NewCodes == (printed + 1)..(printed + Codes)

Enable(r) ==
    /\ at[r] = "enable"
    /\ printed' = printed + Codes /\ shown' = NewCodes /\ confirmed' = job[r].secret
    /\ account' = [account EXCEPT !.enabled = TRUE, !.codes = NewCodes]
    /\ Finish(r)
    /\ UNCHANGED <<now, password, sessions, pending, limiter, secrets, used, unspent, overstayed, past, requests>>

Disable(r, s) ==
    /\ account.enabled
    /\ \E code \in Typed :
         Enter(r, s, IF Validate(code) THEN "clear" ELSE "recover",
               [op |-> "disable", code |-> code, no |-> requests + 1])

Clear(r) ==
    /\ at[r] = "clear"
    /\ account' = NoFactor
    /\ Finish(r)
    /\ UNCHANGED <<now, password, sessions, pending, limiter, fresh, enrolment, overstayed, past, requests>>

Regenerate(r, s) ==
    /\ account.enabled
    /\ \E code \in Typed :
         /\ Validate(code)
         /\ Enter(r, s, "codes", [op |-> "regenerate"])

StoreCodes(r) ==
    /\ at[r] = "codes"
    /\ printed' = printed + Codes /\ shown' = NewCodes
    /\ account' = [account EXCEPT !.codes = NewCodes]
    /\ Finish(r)
    /\ UNCHANGED <<now, password, sessions, pending, limiter, secrets, confirmed, used, unspent, overstayed, past, requests>>

-----------------------------------------------------------------------------
(* The password, and what tgproxy-cli does on the host. *)

ChangePassword(r, s) == Enter(r, s, "set", [op |-> "change", by |-> s.no])

ResetPassword(r) ==
    /\ Begin(r, "set", [op |-> "reset", by |-> 0])
    /\ UNCHANGED <<now, password, account, sessions, pending, limiter, fresh, enrolment, overstayed>>

ResetTOTP(r) ==
    /\ Begin(r, "clear", [op |-> "reset"])
    /\ UNCHANGED <<now, password, account, sessions, pending, limiter, fresh, enrolment, overstayed>>

SetPassword(r) ==
    /\ at[r] = "set"
    /\ password' = password + 1
    /\ GoTo(r, "sessions")
    /\ UNCHANGED <<now, account, sessions, pending, limiter, fresh, enrolment, overstayed, past, requests>>

\* Seeded fault: the session that changes the password is spared.
DropOtherSessions(r) ==
    /\ at[r] = "sessions"
    /\ sessions' = {s \in sessions : s.no = job[r].by}
    /\ Finish(r)
    /\ UNCHANGED <<now, password, account, pending, limiter, fresh, enrolment, overstayed, past, requests>>

DropSessions(r) ==
    /\ at[r] = "sessions"
    /\ sessions' = {}
    /\ Finish(r)
    /\ UNCHANGED <<now, password, account, pending, limiter, fresh, enrolment, overstayed, past, requests>>

\* A statement fails: the handler ends there.
StatementFails(r) ==
    /\ at[r] \in {"secret", "enable", "clear", "codes", "set", "sessions"}
    /\ Mishap("database")
    /\ Finish(r)
    /\ UNCHANGED <<now, password, account, sessions, pending, limiter, fresh, enrolment, overstayed, requests>>

-----------------------------------------------------------------------------
(* The panel restarts: what was in memory is gone. *)
PanelRestarts ==
    /\ Mishap("restart")
    /\ pending' = {} /\ RecordSuccess
    /\ at' = [r \in Requests |-> "idle"] /\ job' = [r \in Requests |-> NoJob]
    /\ UNCHANGED <<now, password, account, sessions, fresh, enrolment, overstayed, requests>>

\* Nothing takes a tick.
Tick ==
    /\ now < MaxTime /\ Active = {}
    /\ now' = now + 1
    /\ UNCHANGED <<password, account, sessions, pending, limiter, procs, fresh, enrolment, overstayed, past, requests>>

Anonymous(r) ==
    Login(r) \/ CheckPassword(r) \/ SecondFactor(r) \/ Verify(r) \/ CheckCode(r)
    \/ ConsumeRecoveryCode(r) \/ CommitFails(r) \/ LookupFails(r) \/ RecordFailure(r)
    \/ Open(r) \/ OpenFails(r) \/ ResetPassword(r) \/ ResetTOTP(r)

Write(r) ==
    StoreSecret(r) \/ Enable(r) \/ Clear(r) \/ StoreCodes(r) \/ SetPassword(r)
    \/ DropSessions(r) \/ StatementFails(r)

Page(s) ==
    Use(s) \/ Poll(s)
    \/ \E r \in Requests :
         BeginEnrolment(r, s) \/ Confirm(r, s) \/ Disable(r, s) \/ Regenerate(r, s) \/ ChangePassword(r, s)

Next ==
    \/ \E r \in Requests : Anonymous(r) \/ Write(r)
    \/ \E s \in sessions : Page(s)
    \/ Logout \/ Revoke \/ PanelRestarts \/ Tick

Spec == Init /\ [][Next]_vars

-----------------------------------------------------------------------------
(* Properties. *)

Session == [no : Nat, given : Nat, late : BOOLEAN, until : Nat, seen : Nat, active : Nat]

\* Every variable has the type its comment gives it.
TypeOK ==
    /\ now \in 1..MaxTime /\ password \in 1..(MaxRequests + 1)
    /\ secrets \in Nat /\ printed \in Nat
    /\ account \in [enabled : BOOLEAN, secret : 0..secrets, codes : SUBSET (1..printed)]
    /\ sessions \subseteq Session /\ \A s \in sessions : s.seen <= now /\ s.no \in 1..requests
    /\ pending \subseteq [no : 1..MaxRequests, given : Nat, until : Nat]
    /\ attempts \in [failures : 0..MaxRequests, until : Nat, blocked : Nat]
    /\ at \in [Requests -> {"idle", "password", "factor", "failed", "verify", "recover", "open",
                            "secret", "enable", "clear", "codes", "set", "sessions"}]
    /\ mishaps \subseteq Faults /\ count \in 0..MaxMishaps /\ requests \in 0..MaxRequests

\* SECURITY.md:55: a recovery code that could be taken off the list is accepted of one request
\* only, however requests overlap, and whatever else fails or restarts.
CodeOnce == \A u, v \in used : u[1] = v[1] => u = v \/ u[1] \in unspent

\* proxy_settings.go:339: when the password has been changed, here or on the host, every
\* session that was open is gone; what is left of the old password are logins that were
\* under way and opened their session afterwards.  routes.go:14, :47: and no session is
\* served after its life, or when only the dashboard's own polls have kept coming for longer
\* than the idle timeout.
SessionsEnd ==
    /\ (\A r \in Requests : at[r] # "sessions") /\ mishaps \cap {"database", "restart"} = {}
          => \A s \in sessions : s.given = password \/ s.late
    /\ ~overstayed

\* totp.go:333-334: with a second factor enabled, the secret is the one that was confirmed
\* last, and the recovery codes are of the list that was shown last.  Requests that overlap
\* can break this.
Enrolled ==
    account.enabled /\ "overlap" \notin mishaps =>
        account.secret = confirmed /\ account.codes \subseteq shown

\* SECURITY.md:46 speaks of five in five minutes.  The window is not a sliding one, so that
\* one of them may be filled at its end and the next at its beginning; and each request
\* that was let in while another one was handled adds one (as the bound has it, every other
\* mishap does).
Throttled ==
    \A t \in 1..MaxTime :
        LET span == {i \in DOMAIN failed : t <= failed[i] /\ failed[i] <= t + Window}
        IN  Cardinality(span) <= 2 * MaxFailures - 1 + count

\* totp.go:333-334, of all requests.
EnrolledAlways ==
    Active = {} /\ account.enabled => account.secret = confirmed

\* SECURITY.md:55, of all codes: "Recovery codes are removed from storage on first use."
SingleUse == \A u, v \in used : u[1] = v[1] => u = v
=============================================================================
