------------------------------- MODULE Bridge -------------------------------
(***************************************************************************)
(* Bridge mode: Teleproxy forwards to the SOCKS5 port of sing-box, which   *)
(* balances over the outbound nodes.                                       *)
(*                                                                         *)
(* The handlers of the panel that switch the mode and edit the nodes, the  *)
(* re-rendering of teleproxy.toml for a change of the users, tgproxy-cli   *)
(* reconcile, and reboots.  A step is one read, write or systemctl call;   *)
(* nothing locks the files the handlers share.  outbounds.json is renamed   *)
(* into place; a write of the other files that fails may leave them torn.  *)
(* The panel may be killed between, or in, any two steps.                  *)
(***************************************************************************)
EXTENDS Naturals, FiniteSets, FiniteSetsExt

CONSTANTS
    MaxNode,        \* bound on the ids of nodes
    Handlers,       \* requests of the panel
    MaxActive,      \* how many of them may be under way at once
    MaxRequests,    \* bound on the requests that are started
    MaxFaults,      \* bound on the calls that fail
    RebootAfter     \* how many faults may there have been when the host is rebooted?

ASSUME BridgeAssumption ==
    /\ MaxNode \in Nat \ {0} /\ IsFiniteSet(Handlers)
    /\ MaxActive \in Nat /\ MaxRequests \in Nat /\ MaxFaults \in Nat
    /\ RebootAfter \subseteq Nat

Ids == 1..MaxNode
Node == [on : BOOLEAN, rev : 0..1]  \* rev stands for the fields an edit changes

\* outbounds.json: the nodes by id, whether the strategy is round-robin, and which of the
\* enabled nodes the next rendering begins with.
NodeList == [nodes : UNION {[ids -> Node] : ids \in SUBSET Ids}, roundrobin : BOOLEAN,
             cursor : 0..MaxNode - 1]

\* What sing-box.json lists: the revisions of the enabled nodes by id, and the first one.
Outbounds == [revs : UNION {[ids -> 0..1] : ids \in SUBSET Ids}, first : 0..MaxNode]

\* No process; no file, or one sing-box does not start with.
Down == [revs |-> [id \in {} |-> 0], first |-> 0]

\* teleproxy.toml: whether it has a socks5 upstream, and whether the user admits.
TOML == [socks : BOOLEAN, admits : BOOLEAN]

PC == {"idle", "en_nodes", "en_json", "en_cursor", "en_toml", "en_start", "en_restart", "en_check",
       "en_mode", "rb_nodes", "rb_toml", "rb_stop", "rb_disable", "rb_restart",
       "di_stop", "di_disable", "di_toml", "di_restart", "di_mode",
       "dr_toml", "dr_restart", "dr_start",
       "nd_save", "nd_save_last", "nd_render", "nd_cursor", "nd_unrender", "nd_restore", "ping", "us_detect", "us_write"}

VARIABLES
    list,       \* outbounds.json
    sbjson,     \* sing-box.json
    sb,         \* the outbounds the sing-box process runs with
    boot,       \* is sing-box.service enabled?
    toml,
    tp,         \* what the Teleproxy process runs with
    mode,       \* bridge_mode in the settings table
    suspended,  \* has the user been suspended by the quota?
    pc, job,
    requests, faults,
    mishap      \* history: has the panel been killed in the midst of a request, or told that
                \* a sing-box that runs does not?

files == <<list, sbjson, toml, mode>>
procs == <<sb, boot, tp>>
vars == <<list, sbjson, sb, boot, toml, tp, mode, suspended, pc, job, requests, faults,
          mishap>>

Active(nl) == {id \in DOMAIN nl.nodes : nl.nodes[id].on}
Rotates(nl) == nl.roundrobin /\ Cardinality(Active(nl)) > 1

\* renderOutbounds: the first of the enabled nodes, which are in the order of their ids,
\* and the list with the cursor moved on.
Offset(nl) == IF Rotates(nl) THEN nl.cursor % Cardinality(Active(nl)) ELSE 0

Nth(ids, n) == CHOOSE id \in ids : Cardinality({i \in ids : i < id}) = n

Rendered(nl, n) ==
    [revs |-> [id \in Active(nl) |-> nl.nodes[id].rev], first |-> Nth(Active(nl), n)]

Render(nl) == Rendered(nl, Offset(nl))

Advanced(nl) ==
    IF Rotates(nl)
    THEN [nl EXCEPT !.cursor = (Offset(nl) + 1) % Cardinality(Active(nl))]
    ELSE nl

\* What sing-box.json holds once the list and its cursor have been saved.
Last(nl) ==
    Rendered(nl, IF Rotates(nl)
                 THEN (nl.cursor + Cardinality(Active(nl)) - 1) % Cardinality(Active(nl))
                 ELSE 0)

\* singbox.Config.Validate
Valid(nl) == Cardinality(Active(nl)) >= (IF nl.roundrobin THEN 2 ELSE 1)

NextID(nl) == IF DOMAIN nl.nodes = {} THEN 1 ELSE Max(DOMAIN nl.nodes) + 1

WithNode(nl, id, node) ==
    [nl EXCEPT !.nodes = [i \in DOMAIN nl.nodes \cup {id} |-> IF i = id THEN node ELSE nl.nodes[i]]]

\* Seeded fault: the nodes that stay are numbered by their index in the array.
WithoutRenumbered(nl, id) ==
    [nl EXCEPT !.nodes = [i \in {j - 1 : j \in DOMAIN nl.nodes \ {id}} |-> nl.nodes[i + 1]]]

Without(nl, id) == [nl EXCEPT !.nodes = [i \in DOMAIN nl.nodes \ {id} |-> nl.nodes[i]]]

New == [on |-> TRUE, rev |-> 0]

Empty == [nodes |-> [id \in {} |-> New], roundrobin |-> FALSE, cursor |-> 0]

\* What a request keeps in local variables.
Job == [new : NodeList, previous : NodeList,    \* the list it writes, the one it has read
        admits : BOOLEAN,                       \* the users it has read
        snapshot : TOML,                        \* teleproxy.toml before a switch
        json : Outbounds,                       \* sing-box.json before it is rendered
        wasActive : BOOLEAN,                    \* was sing-box active then?
        last : BOOLEAN,                         \* is this about the last enabled node?
        errs : BOOLEAN]                         \* has a step of the rollback failed?

Single == [socks |-> FALSE, admits |-> TRUE]
NoJob == [new |-> Empty, previous |-> Empty, admits |-> TRUE, snapshot |-> Single,
          json |-> Down, wasActive |-> FALSE, last |-> FALSE, errs |-> FALSE]

\* The installer sets up either mode, Bridge mode with a node.  bridge_mode is the panel's:
\* it is written by the first switch.
Init ==
    /\ \E bridge \in BOOLEAN :
          /\ list = IF bridge THEN WithNode(Empty, 1, New) ELSE Empty
          /\ sb = IF bridge THEN Render(list) ELSE Down
          /\ boot = bridge /\ toml = [Single EXCEPT !.socks = bridge]
    /\ sbjson = sb /\ tp = toml /\ mode = "" /\ suspended = FALSE
    /\ pc = [h \in Handlers |-> "idle"] /\ job = [h \in Handlers |-> NoJob]
    /\ requests = 0 /\ faults = 0 /\ mishap = FALSE

Idle == \A h \in Handlers : pc[h] = "idle"
Goto(h, from, to) == pc[h] = from /\ pc' = [pc EXCEPT ![h] = to]

Request ==
    /\ Cardinality({h \in Handlers : pc[h] # "idle"}) < MaxActive
    /\ requests < MaxRequests /\ requests' = requests + 1

Begin(h, to) ==
    /\ Request
    /\ Goto(h, "idle", to)

\* A call fails, and the run goes on at "to".
Fail(h, from, to) ==
    /\ faults < MaxFaults /\ faults' = faults + 1
    /\ pc[h] \in from /\ pc' = [pc EXCEPT ![h] = to]

End(h) == job' = [job EXCEPT ![h] = NoJob]

\* What is-active says of sing-box.  It also says no when systemctl fails, or while systemd
\* restarts a sing-box that has crashed.
Told(active) ==
    \/ active = (sb # Down) /\ UNCHANGED <<faults, mishap>>
    \/ /\ sb # Down /\ ~active
       /\ faults < MaxFaults /\ faults' = faults + 1
       /\ mishap' = TRUE

\* What a write that fails leaves: the old file, or the beginning of the new one.  The
\* upstream comes before the users.
Torn(old, new) == {old} \cup {[socks |-> s, admits |-> FALSE] : s \in {FALSE, new.socks}}

Direct(h) == [socks |-> FALSE, admits |-> job[h].admits]
Upstream(h) == [socks |-> TRUE, admits |-> job[h].admits]

-----------------------------------------------------------------------------
(* BridgeService.Enable. *)

\* The users are read first; the node joins the list, enabled, under the next id.
Enable(h) ==
    /\ NextID(list) \in Ids
    /\ Begin(h, "en_nodes")
    /\ job' = [job EXCEPT ![h] = [NoJob EXCEPT
                  !.new = WithNode(list, NextID(list), New), !.previous = list]]
    /\ UNCHANGED <<files, procs, suspended, faults, mishap>>

SaveNodes(h) ==
    /\ Goto(h, "en_nodes", "en_json")
    /\ list' = job[h].new
    /\ UNCHANGED <<sbjson, toml, mode, procs, suspended, job, requests, faults, mishap>>

\* Rendering fails when the strategy wants more nodes.
WriteJSON(h) ==
    /\ Valid(job[h].new)
    /\ Goto(h, "en_json", "en_cursor")
    /\ sbjson' = Render(job[h].new)
    /\ UNCHANGED <<list, toml, mode, procs, suspended, job, requests, faults, mishap>>

NotValid(h) ==
    /\ ~Valid(job[h].new)
    /\ Goto(h, "en_json", "rb_nodes")
    /\ UNCHANGED <<files, procs, suspended, job, requests, faults, mishap>>

\* The cursor is saved with the list that was read, if it has moved.
SaveCursor(h) ==
    /\ Goto(h, "en_cursor", "en_toml")
    /\ list' = IF Rotates(job[h].new) THEN Advanced(job[h].new) ELSE list
    /\ UNCHANGED <<sbjson, toml, mode, procs, suspended, job, requests, faults, mishap>>

\* The unit file, whose text never changes, is written with it.
WriteBridgeTOML(h) ==
    /\ Goto(h, "en_toml", "en_start")
    /\ toml' = Upstream(h)
    /\ UNCHANGED <<list, sbjson, mode, procs, suspended, job, requests, faults, mishap>>

StartSingbox(h) ==
    /\ Goto(h, "en_start", IF sbjson = Down THEN "rb_nodes" ELSE "en_restart")
    /\ boot' = TRUE /\ sb' = sbjson
    /\ UNCHANGED <<files, tp, suspended, job, requests, faults, mishap>>

RestartTeleproxy(h) ==
    /\ Goto(h, "en_restart", "en_check")
    /\ tp' = toml
    /\ UNCHANGED <<files, sb, boot, suspended, job, requests, faults, mishap>>

EnableCheck(h) ==
    /\ Goto(h, "en_check", IF sb = Down THEN "rb_nodes" ELSE "en_mode")
    /\ UNCHANGED <<files, procs, suspended, job, requests, faults, mishap>>

EnableMode(h) ==
    /\ Goto(h, "en_mode", "idle")
    /\ mode' = "bridge" /\ End(h)
    /\ UNCHANGED <<list, sbjson, toml, procs, suspended, requests, faults, mishap>>

\* An error before anything was written ends the request.
SaveNodesFails(h) ==
    /\ Fail(h, {"en_nodes"}, "idle") /\ End(h)
    /\ UNCHANGED <<files, procs, suspended, requests, mishap>>

\* The setting is saved last, and an error there is ignored, by Disable as well.
ModeNotSaved(h) ==
    /\ Fail(h, {"en_mode", "di_mode"}, "idle") /\ End(h)
    /\ UNCHANGED <<files, procs, suspended, requests, mishap>>

\* Any other error rolls back; a start may have happened all the same, or killed the
\* process that ran.
EnableFails(h) ==
    /\ Fail(h, {"en_json", "en_cursor", "en_toml", "en_start", "en_restart", "en_check"},
            "rb_nodes")
    /\ sbjson' \in IF pc[h] = "en_json" THEN {sbjson, Down} ELSE {sbjson}
    /\ toml' \in IF pc[h] = "en_toml" THEN Torn(toml, Upstream(h)) ELSE {toml}
    /\ boot' \in IF pc[h] = "en_start" THEN {boot, TRUE} ELSE {boot}
    /\ sb' \in IF pc[h] = "en_start" THEN {sb, sbjson, Down} ELSE {sb}
    /\ tp' \in IF pc[h] = "en_restart" THEN {tp, toml} ELSE {tp}
    /\ UNCHANGED <<list, mode, suspended, job, requests, mishap>>

\* rollback: every step is tried, whether or not the one before has failed.
RollbackNodes(h) ==
    /\ Goto(h, "rb_nodes", "rb_toml")
    /\ list' = job[h].previous
    /\ UNCHANGED <<sbjson, toml, mode, procs, suspended, job, requests, faults, mishap>>

RollbackTOML(h) ==
    /\ Goto(h, "rb_toml", "rb_stop")
    /\ toml' = Direct(h)
    /\ UNCHANGED <<list, sbjson, mode, procs, suspended, job, requests, faults, mishap>>

RollbackStop(h) ==
    /\ Goto(h, "rb_stop", "rb_disable")
    /\ sb' = Down
    /\ UNCHANGED <<files, boot, tp, suspended, job, requests, faults, mishap>>

RollbackDisable(h) ==
    /\ Goto(h, "rb_disable", "rb_restart")
    /\ boot' = FALSE
    /\ UNCHANGED <<files, sb, tp, suspended, job, requests, faults, mishap>>

RollbackRestart(h) ==
    /\ Goto(h, "rb_restart", "idle")
    /\ tp' = toml /\ End(h)
    /\ UNCHANGED <<files, sb, boot, suspended, requests, faults, mishap>>

RollbackSteps == <<"rb_nodes", "rb_toml", "rb_stop", "rb_disable", "rb_restart", "idle">>

\* A call of systemctl that runs into its limit may have been obeyed.
RollbackFails(h) ==
    \E i \in 1..5 :
        /\ Fail(h, {RollbackSteps[i]}, RollbackSteps[i + 1])
        /\ job' = [job EXCEPT ![h] = IF i = 5 THEN NoJob ELSE [@ EXCEPT !.errs = TRUE]]
        /\ toml' \in IF i = 2 THEN Torn(toml, Direct(h)) ELSE {toml}
        /\ sb' \in {sb} \cup (IF i = 3 THEN {Down} ELSE {})
        /\ boot' \in {boot} \cup (IF i = 4 THEN {FALSE} ELSE {})
        /\ tp' \in {tp} \cup (IF i = 5 THEN {toml} ELSE {})
        /\ UNCHANGED <<list, sbjson, mode, suspended, requests, mishap>>

-----------------------------------------------------------------------------
(* BridgeService.Disable. *)

Disable(h) ==
    /\ Begin(h, "di_stop")
    /\ \E active \in BOOLEAN :
          /\ Told(active)
          /\ job' = [job EXCEPT ![h] = [NoJob EXCEPT !.snapshot = toml, !.wasActive = active]]
    /\ UNCHANGED <<files, procs, suspended>>

StopSingbox(h) ==
    /\ Goto(h, "di_stop", "di_disable")
    /\ sb' = Down
    /\ UNCHANGED <<files, boot, tp, suspended, job, requests, faults, mishap>>

DisableSingbox(h) ==
    /\ Goto(h, "di_disable", "di_toml")
    /\ boot' = FALSE
    /\ UNCHANGED <<files, sb, tp, suspended, job, requests, faults, mishap>>

\* systemctl cannot stop or disable sing-box: the error is returned as it is.
StopFails(h) ==
    /\ Fail(h, {"di_stop", "di_disable"}, IF job[h].last THEN "nd_restore" ELSE "idle")
    /\ sb' \in {sb} \cup (IF pc[h] = "di_stop" THEN {Down} ELSE {})
    /\ boot' \in {boot} \cup (IF pc[h] = "di_disable" THEN {FALSE} ELSE {})
    /\ job' = IF job[h].last THEN job ELSE [job EXCEPT ![h] = NoJob]
    /\ UNCHANGED <<files, tp, suspended, requests, mishap>>

WriteSingleTOML(h) ==
    /\ Goto(h, "di_toml", "di_restart")
    /\ toml' = Direct(h)
    /\ UNCHANGED <<list, sbjson, mode, procs, suspended, job, requests, faults, mishap>>

RestartSingle(h) ==
    /\ Goto(h, "di_restart", "di_mode")
    /\ tp' = toml
    /\ UNCHANGED <<files, sb, boot, suspended, job, requests, faults, mishap>>

DisableMode(h) ==
    /\ Goto(h, "di_mode", "idle")
    /\ mode' = "single" /\ End(h)
    /\ UNCHANGED <<list, sbjson, toml, procs, suspended, requests, faults, mishap>>

\* The file cannot be written, or Teleproxy not restarted, or it is not active then.
DisableFails(h) ==
    /\ Fail(h, {"di_toml", "di_restart"}, "dr_toml")
    /\ toml' \in IF pc[h] = "di_toml" THEN Torn(toml, Direct(h)) ELSE {toml}
    /\ tp' \in IF pc[h] = "di_restart" THEN {tp, toml} ELSE {tp}
    /\ UNCHANGED <<list, sbjson, mode, sb, boot, suspended, job, requests, mishap>>

\* disableRollback: Teleproxy is restarted only when the file could be restored.
RestoreTOML(h) ==
    /\ Goto(h, "dr_toml", "dr_restart")
    /\ toml' = job[h].snapshot
    /\ UNCHANGED <<list, sbjson, mode, procs, suspended, job, requests, faults, mishap>>

RestoreTeleproxy(h) ==
    /\ Goto(h, "dr_restart", "dr_start")
    /\ tp' = toml
    /\ UNCHANGED <<files, sb, boot, suspended, job, requests, faults, mishap>>

\* Seeded fault: sing-box is left stopped.
LeaveStopped(h) ==
    /\ Goto(h, "dr_start", IF job[h].last THEN "nd_restore" ELSE "idle")
    /\ job' = IF job[h].last THEN job ELSE [job EXCEPT ![h] = NoJob]
    /\ UNCHANGED <<files, procs, suspended, requests, faults, mishap>>

RestoreSingbox(h) ==
    /\ Goto(h, "dr_start", IF job[h].last THEN "nd_restore" ELSE "idle")
    /\ sb' = IF job[h].wasActive THEN sbjson ELSE sb
    /\ job' = IF job[h].last THEN job ELSE [job EXCEPT ![h] = NoJob]
    /\ UNCHANGED <<files, boot, tp, suspended, requests, faults, mishap>>

DisableRollbackFails(h) ==
    /\ \/ /\ Fail(h, {"dr_toml", "dr_restart"}, "dr_start")
          /\ job' = [job EXCEPT ![h].errs = TRUE]
       \/ /\ job[h].wasActive
          /\ Fail(h, {"dr_start"}, IF job[h].last THEN "nd_restore" ELSE "idle")
          /\ job' = IF job[h].last THEN job ELSE [job EXCEPT ![h] = NoJob]
    /\ toml' \in IF pc[h] = "dr_toml" THEN Torn(toml, job[h].snapshot) ELSE {toml}
    /\ tp' \in IF pc[h] = "dr_restart" THEN {tp, toml} ELSE {tp}
    /\ sb' \in IF pc[h] = "dr_start" THEN {sb, sbjson, Down} ELSE {sb}
    /\ UNCHANGED <<list, sbjson, mode, boot, suspended, requests, mishap>>

-----------------------------------------------------------------------------
(* The nodes: load the list, change it, save it, render sing-box.json again. *)

Toggled(id) == [list EXCEPT !.nodes[id].on = ~@]

\* Adding a node while sing-box is down switches to Bridge mode (Enable).
AddNode(h) ==
    /\ sb # Down /\ NextID(list) \in Ids
    /\ Begin(h, "nd_save")
    /\ job' = [job EXCEPT ![h] = [NoJob EXCEPT
                  !.new = WithNode(list, NextID(list), New), !.previous = list]]
    /\ UNCHANGED <<files, procs, suspended, faults, mishap>>

\* An edit leaves the node as enabled as it was.
EditNode(h) ==
    /\ Begin(h, "nd_save")
    /\ \E id \in DOMAIN list.nodes :
          job' = [job EXCEPT ![h] = [NoJob EXCEPT
                     !.new = [list EXCEPT !.nodes[id].rev = 1 - @], !.previous = list]]
    /\ UNCHANGED <<files, procs, suspended, faults, mishap>>

\* Toggle or delete.  When no enabled node is left, the list is saved without rendering
\* and Bridge mode is switched off.
ChangeNode(h) ==
    \E id \in DOMAIN list.nodes, active \in BOOLEAN : \E nl \in {Toggled(id), Without(list, id)} :
        LET last == active /\ Active(nl) = {}
        IN  /\ Told(active)
            /\ Begin(h, IF last THEN "nd_save_last" ELSE "nd_save")
            /\ job' = [job EXCEPT ![h] = [NoJob EXCEPT !.new = nl, !.previous = list,
                                                       !.last = last]]
            /\ UNCHANGED <<files, procs, suspended>>

SetStrategy(h) ==
    /\ Begin(h, "nd_save")
    /\ \E rr \in BOOLEAN :
          LET nl == [list EXCEPT !.roundrobin = rr]
          IN  Valid(nl) /\ job' = [job EXCEPT ![h] = [NoJob EXCEPT !.new = nl, !.previous = list]]
    /\ UNCHANGED <<files, procs, suspended, faults, mishap>>

SaveList(h) ==
    /\ Goto(h, "nd_save", "nd_render")
    /\ list' = job[h].new
    /\ UNCHANGED <<sbjson, toml, mode, procs, suspended, job, requests, faults, mishap>>

\* The users are read and the state of the services snapshotted for the switch.
SaveLast(h) ==
    /\ Goto(h, "nd_save_last", "di_stop")
    /\ list' = job[h].new
    /\ \E active \in BOOLEAN :
          /\ Told(active)
          /\ job' = [job EXCEPT ![h].snapshot = toml, ![h].wasActive = active]
    /\ UNCHANGED <<sbjson, toml, mode, procs, suspended, requests>>

SaveListFails(h) ==
    /\ Fail(h, {"nd_save", "nd_save_last"}, "idle") /\ End(h)
    /\ UNCHANGED <<files, procs, suspended, requests, mishap>>

\* Seeded fault: sing-box.json is left for the next switch.
SkipRender(h) ==
    /\ sb # Down /\ Valid(job[h].new)
    /\ Goto(h, "nd_render", "idle") /\ End(h)
    /\ UNCHANGED <<files, procs, suspended, requests, faults, mishap>>

\* sing-box keeps the outbounds it was started with.
RenderNodes(h) ==
    /\ sb # Down /\ Valid(job[h].new)
    /\ Goto(h, "nd_render", "nd_cursor")
    /\ sbjson' = Render(job[h].new)
    /\ job' = [job EXCEPT ![h].json = sbjson]
    /\ UNCHANGED <<list, toml, mode, procs, suspended, requests, faults, mishap>>

RenderNothing(h) ==
    /\ Told(FALSE)
    /\ Goto(h, "nd_render", "idle") /\ End(h)
    /\ UNCHANGED <<files, procs, suspended, requests>>

RenderNotValid(h) ==
    /\ sb # Down /\ ~Valid(job[h].new)
    /\ Goto(h, "nd_render", "nd_restore")
    /\ UNCHANGED <<files, procs, suspended, job, requests, faults, mishap>>

SaveNodesCursor(h) ==
    /\ Goto(h, "nd_cursor", "idle") /\ End(h)
    /\ list' = IF Rotates(job[h].new) THEN Advanced(job[h].new) ELSE list
    /\ UNCHANGED <<sbjson, toml, mode, procs, suspended, requests, faults, mishap>>

RenderFails(h) ==
    /\ sb # Down \/ pc[h] = "nd_cursor"
    /\ pc[h] = "nd_cursor" => Rotates(job[h].new)
    /\ Fail(h, {"nd_render", "nd_cursor"}, "nd_unrender")
    /\ sbjson' \in IF pc[h] = "nd_render" THEN {sbjson, Down} ELSE {sbjson}
    /\ job' = IF pc[h] = "nd_render" THEN [job EXCEPT ![h].json = sbjson] ELSE job
    /\ UNCHANGED <<list, toml, mode, procs, suspended, requests, mishap>>

\* restoreFile, whose errors are ignored.
RestoreJSON(h) ==
    /\ Goto(h, "nd_unrender", "nd_restore")
    /\ sbjson' = job[h].json
    /\ UNCHANGED <<list, toml, mode, procs, suspended, job, requests, faults, mishap>>

RestoreJSONFails(h) ==
    /\ Fail(h, {"nd_unrender"}, "nd_restore")
    /\ UNCHANGED <<files, procs, suspended, job, requests, mishap>>

RestoreList(h) ==
    /\ Goto(h, "nd_restore", "idle") /\ End(h)
    /\ list' = job[h].previous
    /\ UNCHANGED <<sbjson, toml, mode, procs, suspended, requests, faults, mishap>>

RestoreListFails(h) ==
    /\ Fail(h, {"nd_restore"}, "idle") /\ End(h)
    /\ UNCHANGED <<files, procs, suspended, requests, mishap>>

\* The latency test loads the list, dials for seconds, and saves what it has loaded.
Ping(h) ==
    /\ DOMAIN list.nodes # {}
    /\ Begin(h, "ping")
    /\ job' = [job EXCEPT ![h] = [NoJob EXCEPT !.new = list]]
    /\ UNCHANGED <<files, procs, suspended, faults, mishap>>

SavePing(h) ==
    /\ Goto(h, "ping", "idle") /\ End(h)
    /\ list' = job[h].new
    /\ UNCHANGED <<sbjson, toml, mode, procs, suspended, requests, faults, mishap>>

-----------------------------------------------------------------------------
(* The rest of the system. *)

\* The user is suspended or readmitted; the list of users is rendered again.
Suspend(h) ==
    /\ Begin(h, "us_detect")
    /\ suspended' = ~suspended
    /\ UNCHANGED <<files, procs, job, faults, mishap>>

\* The mode of the file there is becomes the mode of the new one.
DetectMode(h) ==
    /\ Goto(h, "us_detect", "us_write")
    /\ job' = [job EXCEPT ![h].snapshot = [socks |-> toml.socks, admits |-> ~suspended]]
    /\ UNCHANGED <<files, procs, suspended, requests, faults, mishap>>

\* A signal makes Teleproxy read the users again, not the upstream.
WriteAndReload(h) ==
    /\ Goto(h, "us_write", "idle") /\ End(h)
    /\ toml' = job[h].snapshot
    /\ tp' = [tp EXCEPT !.admits = toml'.admits]
    /\ UNCHANGED <<list, sbjson, mode, sb, boot, suspended, requests, faults, mishap>>

\* The settings table goes before what the file says.
EffectiveMode == IF mode = "" THEN toml.socks ELSE mode = "bridge"

\* tgproxy-cli reconcile: Teleproxy is restarted if the file has changed, sing-box is left
\* alone.
Reconcile ==
    /\ Request
    /\ toml' = [toml EXCEPT !.socks = EffectiveMode]
    /\ tp' = IF toml' = toml THEN tp ELSE toml'
    /\ UNCHANGED <<list, sbjson, mode, sb, boot, suspended, pc, job, faults, mishap>>

\* The panel is killed, or restarted for an update, in the midst of requests; the file being
\* written is torn.
PanelKilled ==
    /\ ~Idle
    /\ faults < MaxFaults /\ faults' = faults + 1
    /\ pc' = [h \in Handlers |-> "idle"] /\ job' = [h \in Handlers |-> NoJob]
    /\ mishap' = TRUE
    /\ \E h \in Handlers :
          /\ pc[h] # "idle"
          /\ sbjson' \in IF pc[h] \in {"en_json", "nd_render"} THEN {sbjson, Down} ELSE {sbjson}
          /\ toml' \in CASE pc[h] = "en_toml" -> Torn(toml, Upstream(h))
                         [] pc[h] \in {"rb_toml", "di_toml"} -> Torn(toml, Direct(h))
                         [] pc[h] \in {"dr_toml", "us_write"} -> Torn(toml, job[h].snapshot)
                         [] OTHER -> {toml}
    /\ UNCHANGED <<list, mode, procs, suspended, requests>>

\* The machine restarts between two requests; the enabled services start.
Reboot ==
    /\ Idle /\ faults \in RebootAfter
    /\ Request
    /\ sb' = IF boot THEN sbjson ELSE Down
    /\ tp' = toml
    /\ UNCHANGED <<files, boot, suspended, pc, job, faults, mishap>>

Switch(h) ==
    \/ Enable(h) \/ SaveNodes(h) \/ WriteJSON(h) \/ NotValid(h)
    \/ SaveCursor(h) \/ WriteBridgeTOML(h)
    \/ StartSingbox(h) \/ RestartTeleproxy(h) \/ EnableCheck(h) \/ EnableMode(h)
    \/ ModeNotSaved(h)
    \/ SaveNodesFails(h) \/ EnableFails(h) \/ RollbackNodes(h) \/ RollbackTOML(h)
    \/ RollbackStop(h) \/ RollbackDisable(h) \/ RollbackRestart(h) \/ RollbackFails(h)
    \/ Disable(h) \/ StopSingbox(h) \/ DisableSingbox(h) \/ StopFails(h)
    \/ WriteSingleTOML(h) \/ RestartSingle(h) \/ DisableMode(h) \/ DisableFails(h)
    \/ RestoreTOML(h) \/ RestoreTeleproxy(h) \/ RestoreSingbox(h) \/ DisableRollbackFails(h)

Nodes(h) ==
    \/ AddNode(h) \/ EditNode(h) \/ ChangeNode(h) \/ SetStrategy(h) \/ SaveList(h) \/ SaveLast(h)
    \/ SaveListFails(h) \/ RenderNodes(h) \/ RenderNothing(h) \/ RenderNotValid(h)
    \/ SaveNodesCursor(h) \/ RenderFails(h) \/ RestoreJSON(h) \/ RestoreJSONFails(h)
    \/ RestoreList(h) \/ RestoreListFails(h) \/ Ping(h) \/ SavePing(h)

Next ==
    \/ \E h \in Handlers :
          Switch(h) \/ Nodes(h) \/ Suspend(h) \/ DetectMode(h) \/ WriteAndReload(h)
    \/ Reconcile \/ PanelKilled \/ Reboot

Spec == Init /\ [][Next]_vars

-----------------------------------------------------------------------------
(* Properties. *)

\* Every variable has the type its comment gives it.
TypeOK ==
    /\ list \in NodeList /\ sbjson \in Outbounds /\ sb \in Outbounds
    /\ boot \in BOOLEAN /\ toml \in TOML /\ tp \in TOML
    /\ mode \in {"", "single", "bridge"} /\ suspended \in BOOLEAN
    /\ pc \in [Handlers -> PC] /\ job \in [Handlers -> Job]
    /\ requests \in 0..MaxRequests /\ faults \in 0..MaxFaults /\ mishap \in BOOLEAN

\* Whichever mode was installed, and whatever sequence of switches, edits, reconciles and
\* reboots there has been since, the places that say whether this is Bridge mode agree
\* between two requests as long as no call has failed: the file, the process, sing-box and
\* its unit, and the settings table, once it says anything; a reconcile keeps the mode.
ModeConsistent ==
    Idle /\ faults = 0 =>
        /\ EffectiveMode = toml.socks /\ tp.socks = toml.socks
        /\ boot = toml.socks /\ (sb # Down) = toml.socks

\* One failing call does not set a list of nodes that can be rendered apart from the
\* outbounds in sing-box.json: what the page shows as enabled is what sing-box will start
\* with, in the order that the round-robin has come to.  (A list refused by Validate stays
\* when saving the previous one fails; and nodes edited while sing-box is stopped but still
\* enabled, which a failed Disable leaves, are not rendered before a reboot starts it.)
RenderedMatchesNodes ==
    Idle /\ faults <= 1 /\ ~mishap /\ sb # Down /\ Valid(list) => sbjson = Last(list)

\* What the five places and the list of nodes say agrees, as far as single failures allow.
PlacesAgree == ModeConsistent /\ RenderedMatchesNodes

\* service.go:188 says that a Disable that fails at the write or the restart restores
\* teleproxy.toml, Teleproxy and, if it was active, sing-box; service.go:253 that a
\* rolled back Enable ends in Single mode with the nodes as they were.  So it is, when
\* the rollback itself meets no error and sing-box has a file it starts with.
RolledBack(h) ==
    ~job[h].errs =>
        /\ RestoreSingbox(h) =>
              /\ toml' = job[h].snapshot /\ tp' = toml'
              /\ job[h].wasActive /\ sbjson # Down => sb' # Down
        /\ RollbackRestart(h) =>
              ~toml'.socks /\ tp' = toml' /\ sb' = Down /\ list' = job[h].previous

\* A switch that reaches its last step has taken effect everywhere, whatever had failed
\* before, been torn by a kill or left behind by a rollback: switching repairs.
Switched(h) ==
    /\ pc[h] = "en_mode" =>
          /\ toml = Upstream(h) /\ tp = toml /\ boot
          /\ list = Advanced(job[h].new) /\ sbjson = Last(list) /\ sb = sbjson
    /\ pc[h] = "di_mode" => toml = Direct(h) /\ tp = toml /\ ~boot /\ sb = Down

\* However a switch ends, it leaves one mode, completely.
SwitchesComplete ==
    [][\A h \in Handlers : RolledBack(h) /\ (pc'[h] = "idle" => Switched(h))]_vars

\* bridge.go:118 ends an Enable with a redirect that says it is done: the setting is what
\* the next reconcile goes by.
SwitchRecorded ==
    [][\A h \in Handlers :
          /\ pc[h] = "en_mode" /\ pc'[h] = "idle" /\ ~mishap' => mode' = "bridge"
          /\ pc[h] = "di_mode" /\ pc'[h] = "idle" /\ ~mishap' => mode' = "single"]_vars

\* user_actions.go:741 says that rendering the users preserves Bridge mode.
ModePreserved ==
    [][\A h \in Handlers : pc[h] = "us_write" /\ ~mishap' => toml'.socks = toml.socks]_vars

\* bridge.go:1405 says that sing-box.json is rendered when Bridge is active and that what keeps
\* it from being rendered is an error: the request does not end as done.
RenderReported ==
    [][\A h \in Handlers : RenderNothing(h) => sb = Down]_vars

\* After a reboot Teleproxy does not forward to a sing-box that is down, if it did not
\* before: a rolled back Disable restarts sing-box, and should enable it again.
SurvivesReboot == [][Reboot /\ (tp.socks => sb # Down) => (tp'.socks => sb' # Down)]_vars

\* service.go:253 says that a rollback goes back to Single mode, and reconcile.go:53 that a
\* reconcile preserves the live state: it does not make Teleproxy forward to a sing-box that
\* is down.
ReconcileForwards == [][Reconcile /\ (tp.socks => sb # Down) => (tp'.socks => sb' # Down)]_vars

\* SECURITY.md says that the secret of a suspended user is left out of the rendered
\* configuration until the period ends or the quota is reset.
SuspendedExcluded == Idle /\ suspended => ~toml.admits

\* The page of the nodes says that connections use the strategy across enabled nodes:
\* sing-box runs with the nodes that are enabled.
RunsEnabledNodes == Idle /\ sb # Down => sb = Last(list)
=============================================================================
