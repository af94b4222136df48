------------------------------ MODULE Streams ------------------------------
(***************************************************************************)
(* The two pages of the panel that stay connected: the log page, to which  *)
(* a WebSocket carries what journalctl prints, and the dashboard, whose    *)
(* server-sent events say what to fetch again.                             *)
(*                                                                         *)
(* A log stream is a handler, a goroutine that reads from a journalctl of  *)
(* its own, and a channel between the two.  The WebSocket takes the        *)
(* connection away from net/http, which therefore no longer watches it:    *)
(* the context of the request ends when the handler returns, not when the  *)
(* browser leaves, and only a failing write tells the handler that.        *)
(* A dashboard stream takes a slot of its session and asks whether the     *)
(* session is still good every five seconds.                               *)
(***************************************************************************)
EXTENDS Naturals, Sequences, FiniteSets

CONSTANTS
    Tabs,           \* log streams, each from its connection to its end
    Dashboards,     \* dashboard streams that may be open at a time
    Sessions,       \* sessions of the administrator
    Capacity,       \* of the channel
    Backlog,        \* old lines journalctl -f begins with
    MaxSlots,       \* dashboard streams of a session
    MaxJournal,     \* bound on the lines of the journal
    MaxConnects     \* bound on the requests for the dashboard

ASSUME StreamsAssumption ==
    /\ IsFiniteSet(Dashboards)
    /\ Capacity \in Nat \ {0} /\ Backlog \in Nat /\ MaxSlots \in Nat \ {0}
    /\ MaxJournal \in Nat /\ MaxConnects \in Nat /\ Sessions # {}

Levels == {"info", "debug"}
NoLine == 0       \* no line: lines are numbered from 1

VARIABLES
    page,       \* the page a behaviour is about: the two share nothing but the session
    journal,    \* the levels of the lines of the unit
    tab,        \* the browser's end: is it there, what does it want, what has it been shown?
    handler,    \* handleLogsStream: where it is, and the line it holds
    reader,     \* the goroutine in logstream.Stream
    child,      \* journalctl: its state, and how many lines it had written when it ended
    ch,         \* the channel
    valid,      \* sessions that are good
    slots,      \* the limiter: streams it counts for a session
    dash,       \* handleDashboardEvents: where it is, its session, is its context cancelled?
    connects

logVars == <<tab, handler, reader, child, ch>>
dashVars == <<slots, dash, connects>>
streamsVars == <<page, journal, logVars, valid, dashVars>>

Tab == [client : {"none", "open", "stalled", "gone", "reset"}, want : Levels,
        from : 0..MaxJournal,               \* history: lines skipped at the beginning
        shown : Seq(1..MaxJournal),
        lost : 0..MaxJournal,               \* history: lines written to nobody
        status : {"none", "normal", "internal"}]
Handler == [pc : {"idle", "select", "write", "close", "done"}, line : 0..MaxJournal]
Reader == [pc : {"idle", "start", "scan", "send", "wait", "close", "done"},
           pos : 0..MaxJournal, line : 0..MaxJournal, err : {"nil", "start", "canceled"}]
Child == [state : {"none", "running", "killed", "failed"}, wrote : 0..MaxJournal]
Dash == [pc : {"idle", "acquire", "first", "wait", "release"},
         session : Sessions, cancelled : BOOLEAN, late : BOOLEAN]

AnySession == CHOOSE s \in Sessions : TRUE

StreamsInit ==
    /\ page \in {"logs", "dashboard"} /\ journal = <<>>
    /\ tab = [t \in Tabs |-> [client |-> "none", want |-> "info", from |-> 0, shown |-> <<>>,
                              lost |-> 0, status |-> "none"]]
    /\ handler = [t \in Tabs |-> [pc |-> "idle", line |-> NoLine]]
    /\ reader = [t \in Tabs |-> [pc |-> "idle", pos |-> 0, line |-> NoLine, err |-> "nil"]]
    /\ child = [t \in Tabs |-> [state |-> "none", wrote |-> 0]]
    /\ ch = [t \in Tabs |-> <<>>]
    \* A log stream does not care which session it is of: one is enough.
    /\ valid = IF page = "logs" THEN {AnySession} ELSE Sessions
    /\ slots = [s \in Sessions |-> 0]
    /\ dash = [d \in Dashboards |->
           [pc |-> "idle", session |-> AnySession, cancelled |-> FALSE, late |-> FALSE]]
    /\ connects = 0

Matches(t, n) == journal[n] = "info" \/ tab[t].want = "debug"
Cancelled(t) == handler[t].pc = "done"
Closed(t) == reader[t].pc = "done"
Left(t) == tab[t].client \in {"gone", "reset"}

Handle(t, from, to, line) ==
    handler[t].pc = from /\ handler' = [handler EXCEPT ![t] = [pc |-> to, line |-> line]]
Read(t, from, to) ==
    reader[t].pc = from /\ reader' = [reader EXCEPT ![t].pc = to]

-----------------------------------------------------------------------------
(* logstream.Stream. *)

\* cmd.Start; journalctl -f begins with the last lines of the unit.
StartChild(t) ==
    LET first == IF Len(journal) > Backlog THEN Len(journal) - Backlog ELSE 0 IN
    /\ reader[t].pc = "start"
    /\ reader' = [reader EXCEPT ![t].pc = "scan", ![t].pos = first]
    /\ tab' = [tab EXCEPT ![t].from = first]
    /\ child' = [child EXCEPT ![t].state = "running"]
    /\ UNCHANGED <<page, journal, handler, ch, valid, dashVars>>

StartFails(t) ==
    /\ reader[t].pc = "start"
    /\ reader' = [reader EXCEPT ![t].pc = "close", ![t].err = "start"]
    /\ UNCHANGED <<page, journal, tab, handler, child, ch, valid, dashVars>>

\* What there is to read: after the end of journalctl, what it left in the pipe.
Readable(t) == IF child[t].state = "running" THEN Len(journal) ELSE child[t].wrote

\* The next line is read, and sent if it passes the filter.
Scan(t) ==
    LET n == reader[t].pos + 1 IN
    /\ reader[t].pc = "scan" /\ n <= Readable(t)
    /\ reader' = [reader EXCEPT ![t].pos = n,
                                ![t].pc = IF Matches(t, n) THEN "send" ELSE "scan",
                                ![t].line = IF Matches(t, n) THEN n ELSE NoLine]
    /\ UNCHANGED <<page, journal, tab, handler, child, ch, valid, dashVars>>

\* Seeded fault: a line that does not fit is dropped.
SendOrDrop(t) ==
    /\ reader[t].pc = "send"
    /\ reader' = [reader EXCEPT ![t].pc = "scan", ![t].line = NoLine]
    /\ ch' = [ch EXCEPT ![t] = IF Len(@) < Capacity THEN Append(@, reader[t].line) ELSE @]
    /\ UNCHANGED <<page, journal, tab, handler, child, valid, dashVars>>

Send(t) ==
    /\ reader[t].pc = "send" /\ Len(ch[t]) < Capacity
    /\ reader' = [reader EXCEPT ![t].pc = "scan", ![t].line = NoLine]
    /\ ch' = [ch EXCEPT ![t] = Append(@, reader[t].line)]
    /\ UNCHANGED <<page, journal, tab, handler, child, valid, dashVars>>

\* The handler is gone: wait for journalctl, which the context has killed.
SendCancelled(t) ==
    /\ Cancelled(t) /\ Read(t, "send", "wait")
    /\ UNCHANGED <<page, journal, tab, handler, child, ch, valid, dashVars>>

Waited(t) ==
    /\ reader[t].pc = "wait" /\ child[t].state # "running"
    /\ reader' = [reader EXCEPT ![t].pc = "close", ![t].err = "canceled"]
    /\ UNCHANGED <<page, journal, tab, handler, child, ch, valid, dashVars>>

\* The end of the output; how journalctl ended is not looked at.
EndOfOutput(t) ==
    /\ child[t].state # "running" /\ reader[t].pos = child[t].wrote
    /\ Read(t, "scan", "close")
    /\ UNCHANGED <<page, journal, tab, handler, child, ch, valid, dashVars>>

\* The goroutine stores the error, then closes the channel.
CloseChannel(t) ==
    /\ Read(t, "close", "done")
    /\ UNCHANGED <<page, journal, tab, handler, child, ch, valid, dashVars>>

-----------------------------------------------------------------------------
(* handleLogsStream. *)

\* A session that is good opens a WebSocket.
Open(t, want) ==
    /\ page = "logs" /\ valid # {}
    /\ Handle(t, "idle", "select", NoLine) /\ Read(t, "idle", "start")
    /\ tab' = [tab EXCEPT ![t].client = "open", ![t].want = want]
    /\ UNCHANGED <<page, journal, child, ch, valid, dashVars>>

Receive(t) ==
    /\ ch[t] # <<>> /\ Handle(t, "select", "write", Head(ch[t]))
    /\ ch' = [ch EXCEPT ![t] = Tail(@)]
    /\ UNCHANGED <<page, journal, tab, reader, child, valid, dashVars>>

SeeClosed(t) ==
    /\ Closed(t) /\ ch[t] = <<>> /\ Handle(t, "select", "close", NoLine)
    /\ UNCHANGED <<page, journal, tab, reader, child, ch, valid, dashVars>>

\* A write goes to the browser, unless that does not read; the first one after it has left
\* still succeeds, and is answered by a reset.
Write(t) ==
    /\ tab[t].client \in {"open", "gone"}
    /\ Handle(t, "write", "select", NoLine)
    /\ tab' = [tab EXCEPT
           ![t].shown = IF Left(t) THEN @ ELSE Append(@, handler[t].line),
           ![t].lost = IF Left(t) THEN @ + 1 ELSE @,
           ![t].client = IF Left(t) THEN "reset" ELSE @]
    /\ UNCHANGED <<page, journal, reader, child, ch, valid, dashVars>>

\* Seeded fault: an error of the write is ignored.
WriteFailsIgnored(t) ==
    /\ tab[t].client = "reset" /\ Handle(t, "write", "select", NoLine)
    /\ tab' = [tab EXCEPT ![t].lost = @ + 1]
    /\ UNCHANGED <<page, journal, reader, child, ch, valid, dashVars>>

\* The handler returns, and the connection and the context end with it.
WriteFails(t) ==
    /\ tab[t].client = "reset" /\ Handle(t, "write", "done", NoLine)
    /\ UNCHANGED <<page, journal, tab, reader, child, ch, valid, dashVars>>

\* closeLogStream: no error means a normal closure.
CloseStream(t) ==
    /\ Handle(t, "close", "done", NoLine)
    /\ tab' = [tab EXCEPT ![t].status =
           IF Left(t) THEN @ ELSE IF reader[t].err = "nil" THEN "normal" ELSE "internal"]
    /\ UNCHANGED <<page, journal, reader, child, ch, valid, dashVars>>

-----------------------------------------------------------------------------
(* The environment of a log stream. *)

Log(level) ==
    /\ page = "logs" /\ Len(journal) < MaxJournal /\ journal' = Append(journal, level)
    /\ UNCHANGED <<page, logVars, valid, dashVars>>

EndChild(t, state) ==
    /\ child[t].state = "running"
    /\ \E n \in reader[t].pos..Len(journal) :
           child' = [child EXCEPT ![t] = [state |-> state, wrote |-> n]]
    /\ UNCHANGED <<page, journal, tab, handler, reader, ch, valid, dashVars>>

\* exec.CommandContext kills the process when the context ends.
Kill(t) == Cancelled(t) /\ EndChild(t, "killed")
ChildFails(t) == EndChild(t, "failed")

Browser(t, from, to) ==
    /\ tab[t].client \in from /\ tab' = [tab EXCEPT ![t].client = to]
    /\ UNCHANGED <<page, journal, handler, reader, child, ch, valid, dashVars>>

Stall(t) == Browser(t, {"open"}, "stalled")
Resume(t) == Browser(t, {"stalled"}, "open")
Leave(t) == Browser(t, {"open", "stalled"}, "gone")

-----------------------------------------------------------------------------
(* handleDashboardEvents. *)

Dashboard(d, from, to) ==
    dash[d].pc \in from /\ dash' = [dash EXCEPT ![d].pc = to]

\* A request that requireAuth has let through.
Request(d, s) ==
    /\ page = "dashboard" /\ s \in valid
    /\ connects < MaxConnects /\ connects' = connects + 1
    /\ dash[d].pc = "idle"
    /\ dash' = [dash EXCEPT ![d] = [pc |-> "acquire", session |-> s,
                                    cancelled |-> FALSE, late |-> FALSE]]
    /\ UNCHANGED <<page, journal, logVars, valid, slots>>

\* Seeded fault: nothing is counted before the stream begins.
AcquireUnlimited(d) ==
    /\ Dashboard(d, {"acquire"}, "first")
    /\ slots' = [slots EXCEPT ![dash[d].session] = @ + 1]
    /\ UNCHANGED <<page, journal, logVars, valid, connects>>

Acquire(d) ==
    LET s == dash[d].session IN
    /\ IF slots[s] < MaxSlots
       THEN /\ Dashboard(d, {"acquire"}, "first")
            /\ slots' = [slots EXCEPT ![s] = @ + 1]
       ELSE Dashboard(d, {"acquire"}, "idle") /\ UNCHANGED slots
    /\ UNCHANGED <<page, journal, logVars, valid, connects>>

\* Seeded fault: the session is asked for at the beginning only.
BatchUnchecked(d) ==
    /\ dash[d].pc \in {"first", "wait"}
    /\ dash' = [dash EXCEPT ![d].pc = "wait", ![d].cancelled = @ \/ dash[d].late]
    /\ UNCHANGED <<page, journal, logVars, valid, slots, connects>>

\* writeDashboardEventBatch: what a session that ended gets is dashboard-close. Past the
\* WriteTimeout of the server the write fails, which cancels the context; the ten minutes
\* of dashboardSSEMaxLifetime are never reached.
Batch(d) ==
    /\ IF dash[d].session \in valid
       THEN /\ dash[d].pc \in {"first", "wait"}
            /\ dash' = [dash EXCEPT ![d].pc = "wait", ![d].cancelled = @ \/ dash[d].late]
       ELSE Dashboard(d, {"first", "wait"}, "release")
    /\ UNCHANGED <<page, journal, logVars, valid, slots, connects>>

SeeCancelled(d) ==
    /\ dash[d].cancelled /\ Dashboard(d, {"wait"}, "release")
    /\ UNCHANGED <<page, journal, logVars, valid, slots, connects>>

\* The deferred release: the entry of the last stream is deleted.
Release(d) ==
    /\ Dashboard(d, {"release"}, "idle")
    /\ slots' = [slots EXCEPT ![dash[d].session] = IF @ <= 1 THEN 0 ELSE @ - 1]
    /\ UNCHANGED <<page, journal, logVars, valid, connects>>

\* net/http watches this connection.
Disconnect(d) ==
    /\ dash[d].pc \in {"acquire", "first", "wait"} /\ ~dash[d].cancelled
    /\ dash' = [dash EXCEPT ![d].cancelled = TRUE]
    /\ UNCHANGED <<page, journal, logVars, valid, slots, connects>>

\* The sixty seconds of WriteTimeout pass.
Deadline(d) ==
    /\ dash[d].pc = "wait" /\ ~dash[d].late /\ ~dash[d].cancelled
    /\ dash' = [dash EXCEPT ![d].late = TRUE]
    /\ UNCHANGED <<page, journal, logVars, valid, slots, connects>>

\* A logout, a revocation, a changed password or the end of its time.
EndSession(s) ==
    /\ s \in valid /\ valid' = valid \ {s}
    /\ UNCHANGED <<page, journal, logVars, dashVars>>

-----------------------------------------------------------------------------
StreamSteps(t) ==
    \/ StartChild(t) \/ Scan(t) \/ Send(t) \/ SendCancelled(t) \/ Waited(t)
    \/ EndOfOutput(t) \/ CloseChannel(t)

HandlerSteps(t) == Receive(t) \/ SeeClosed(t) \/ Write(t) \/ WriteFails(t) \/ CloseStream(t)

DashboardSteps(d) == Acquire(d) \/ Batch(d) \/ SeeCancelled(d) \/ Release(d)

StreamsNext ==
    \/ \E t \in Tabs :
          \/ StreamSteps(t) \/ StartFails(t) \/ HandlerSteps(t) \/ Kill(t) \/ ChildFails(t)
          \/ \E want \in Levels : Open(t, want)
          \/ Stall(t) \/ Resume(t) \/ Leave(t)
    \/ \E d \in Dashboards :
          \/ DashboardSteps(d) \/ Disconnect(d) \/ Deadline(d)
          \/ \E s \in Sessions : Request(d, s)
    \/ \E level \in Levels : Log(level)
    \/ \E s \in Sessions : EndSession(s)

StreamsSpec == StreamsInit /\ [][StreamsNext]_streamsVars

\* Goroutines that can go on do so, and the kernel kills whom it is told to kill. Nothing
\* is assumed of browsers, sessions and the journal.
Fairness ==
    /\ \A t \in Tabs :
          WF_streamsVars(StreamSteps(t)) /\ WF_streamsVars(HandlerSteps(t)) /\ WF_streamsVars(Kill(t))
    /\ \A d \in Dashboards :
          /\ WF_streamsVars(Acquire(d)) /\ WF_streamsVars(Batch(d)) /\ WF_streamsVars(Release(d))
          /\ SF_streamsVars(SeeCancelled(d))

FairSpec == StreamsSpec /\ Fairness

-----------------------------------------------------------------------------
(* Properties. *)

\* Every variable has the type its comment gives it.
StreamsTypeOK ==
    /\ page \in {"logs", "dashboard"} /\ journal \in Seq(Levels) /\ Len(journal) <= MaxJournal
    /\ tab \in [Tabs -> Tab] /\ handler \in [Tabs -> Handler] /\ reader \in [Tabs -> Reader]
    /\ child \in [Tabs -> Child]
    /\ ch \in [Tabs -> Seq(1..MaxJournal)] /\ \A t \in Tabs : Len(ch[t]) <= Capacity
    /\ valid \subseteq Sessions /\ slots \in [Sessions -> 0..MaxSlots]
    /\ dash \in [Dashboards -> Dash] /\ connects \in 0..MaxConnects

\* The lines of t that the goroutine has read and the filter lets pass.
Wanted(t) == {n \in (tab[t].from + 1)..reader[t].pos : Matches(t, n)}

Held(line) == IF line = NoLine THEN <<>> ELSE <<line>>

\* What the browser has been shown, and what is on its way to it.
Carried(t) == tab[t].shown \o Held(handler[t].line) \o ch[t] \o Held(reader[t].line)

\* The members of a set of lines, each once and in their order.
Lists(lines, set) ==
    /\ \A i, j \in DOMAIN lines : i < j => lines[i] < lines[j]
    /\ {lines[i] : i \in DOMAIN lines} = set

\* Between the filter and the browser no line is lost, repeated or overtaken, however full
\* the channel is and whoever ends first: shown, held, queued and about to be queued, they
\* are the wanted ones in their order.  A stream that ends on its own ends after the last,
\* and only one that was started is closed as if it were complete (logs.go:118).
InOrder ==
    \A t \in Tabs :
        /\ tab[t].client \in {"open", "stalled"} =>
              /\ Lists(Carried(t), Wanted(t))
              /\ handler[t].pc = "done" => Lists(tab[t].shown, Wanted(t))
        /\ tab[t].status # "none" => (tab[t].status = "normal" <=> child[t].state # "none")

\* The limiter counts the streams there are, whichever way they ended, and lets a session
\* have no more of them than it may.
OneStream ==
    \A s \in Sessions :
        /\ slots[s] <= MaxSlots
        /\ slots[s] = Cardinality({d \in Dashboards :
               dash[d].session = s /\ dash[d].pc \in {"first", "wait", "release"}})

Released(t) == handler[t].pc = "done" /\ Closed(t) /\ child[t].state # "running"

\* All of t waits for a line that passes its filter.
Quiet(t) ==
    /\ handler[t].pc = "select" /\ ch[t] = <<>>
    /\ reader[t].pc = "scan" /\ reader[t].pos = Len(journal) /\ child[t].state = "running"

\* A browser that leaves costs a handler, a goroutine and a process only until the second
\* line after that which passes its filter.
LeaversReleased ==
    <>[](\A t \in Tabs : Left(t) => (Released(t) \/ (Quiet(t) /\ tab[t].lost < 2)))

\* A dashboard stream that lost its browser or its session ends, and its slot is free for
\* the next request of the same page.
DashboardsEnd ==
    \A d \in Dashboards :
        dash[d].pc = "wait" /\ (dash[d].cancelled \/ dash[d].session \notin valid)
            ~> dash[d].pc = "idle"

\* A slot is taken while a stream goes on, and no longer: a page that reconnects gets one.
SlotsReturned == []OneStream /\ DashboardsEnd

\* logs.go:142 takes it that a browser which navigates away cancels the context, so that all
\* of the stream ends.
LeaversNoticed == \A t \in Tabs : Left(t) ~> Released(t)

\* logs.go:144 says that any other error than a cancellation, such as a failure of
\* journalctl, is reported as an internal error.
FailureReported ==
    \A t \in Tabs : child[t].state = "failed" => tab[t].status # "normal"

\* A log stream ends with the session that opened it, as a dashboard stream does.
LogsEndWithSession ==
    \A t \in Tabs : handler[t].pc = "select" /\ valid = {} ~> handler[t].pc = "done"
=============================================================================
