--------------------------- MODULE UserSyncProofs ---------------------------
(***************************************************************************)
(* Theorems about UserSync for any users, any number of concurrent         *)
(* requests and any bounds.                                                *)
(*                                                                         *)
(* First the types.  Then requests that do not overlap: they keep the      *)
(* database, the files and Teleproxy together (Inductive is an invariant,  *)
(* LiveInSync, DiskInSync and RollbackExact follow from it).  At last      *)
(* requests that do overlap: UserSync implements ConfigReplica.            *)
(***************************************************************************)
EXTENDS UserSyncHistory, TLAPS

USE DEF Procs

LEMMA NoRowType == NoRow \in Row
  BY DEF NoRow, Row

LEMMA NoJobType == NoJob \in Job
  <1>1. (CHOOSE u \in Users : TRUE) \in Users
    BY ConstantsAssumption
  <1>2. QED
    BY <1>1, NoRowType DEF NoJob, Job, Callers

\* The rendered set is made of labels and their secrets.
LEMMA EligibleType ==
    ASSUME NEW rows \in [Users -> Row]
    PROVE  Eligible(rows) \subseteq Entry
  BY DEF Eligible, Entry, Row

\* Finishing keeps the types of the control and of the locals.
LEMMA FinishType ==
    ASSUME TypeOK, NEW p \in Procs, Finish(p)
    PROVE  pc' \in [Procs -> PC] /\ job' \in [Procs -> Job]
  <1>1. job[p].todo \in SUBSET Users
    BY DEF TypeOK, Job
  <1>2. [NoJob EXCEPT !.todo = job[p].todo] \in Job
    BY <1>1, NoJobType DEF Job
  <1>3. QED
    BY <1>2, NoJobType DEF Finish, TypeOK, PC

LEMMA UndoUpdate ==
    ASSUME job \in [Procs -> Job], NEW p \in Procs, NEW un \in SUBSET Users,
           job' = [job EXCEPT ![p].undo = un]
    PROVE  job' \in [Procs -> Job]
  BY DEF Job

LEMMA VisitUpdate ==
    ASSUME job \in [Procs -> Job], NEW p \in Procs,
           NEW t \in SUBSET Users, NEW un \in SUBSET Users,
           job' = [job EXCEPT ![p].todo = t, ![p].undo = un]
    PROVE  job' \in [Procs -> Job]
  BY DEF Job

LEMMA ReturnType ==
    ASSUME TypeOK, NEW p \in Procs, NEW failed \in BOOLEAN, Return(p, failed)
    PROVE  pc' \in [Procs -> PC] /\ job' \in [Procs -> Job]
  <1>1. CASE Finish(p)
    BY <1>1, FinishType
  <1>2. CASE UNCHANGED job /\ \E to \in {"rollback", "recalc"} : pc' = [pc EXCEPT ![p] = to]
    BY <1>2 DEF TypeOK, PC
  <1>3. CASE /\ pc' = [pc EXCEPT ![p] = "record"]
             /\ job' = [job EXCEPT ![p].err = failed]
    <2>1. [job[p] EXCEPT !.err = failed] \in Job
      BY DEF TypeOK, Job
    <2>2. QED
      BY <1>3, <2>1 DEF TypeOK, PC
  <1>4. QED
    BY <1>1, <1>2, <1>3 DEF Return

\* What an operation writes, and what its rollback restores, are rows.
LEMMA WriteType ==
    ASSUME TypeOK, NEW o, NEW u \in Users, NEW old \in Row, Write(o, u, old)
    PROVE  db' \in [Users -> Row]
  <1>1. ASSUME NEW row \in Row, Update(u, row)
        PROVE  db' \in [Users -> Row]
    BY <1>1 DEF Update, TypeOK
  <1>2. db[u] \in Row /\ issued + 1 \in Nat
    BY DEF TypeOK
  <1>3. /\ [db[u] EXCEPT !.enabled = ~old.enabled] \in Row
        /\ [db[u] EXCEPT !.state = "deleted"] \in Row
        /\ [db[u] EXCEPT !.secret = issued + 1] \in Row
        /\ [db[u] EXCEPT !.suspended = ~old.suspended] \in Row
        /\ [db[u] EXCEPT !.suspended = TRUE] \in Row
        /\ [db[u] EXCEPT !.suspended = FALSE] \in Row
    BY <1>2 DEF Row
  <1>4. QED
    BY <1>1, <1>2, <1>3 DEF Write

LEMMA RestoredType ==
    ASSUME NEW o, NEW row \in Row, NEW old \in Row
    PROVE  Restored(o, row, old) \in Row
  <1>1. ASSUME NEW new, new = [row EXCEPT !.state = IF @ = "deleted" THEN "live" ELSE @]
        PROVE  new \in Row
    BY <1>1 DEF Row
  <1>2. /\ [row EXCEPT !.state = "deleted"] \in Row
        /\ [row EXCEPT !.enabled = old.enabled] \in Row
        /\ [row EXCEPT !.secret = old.secret] \in Row
        /\ [row EXCEPT !.suspended = old.suspended] \in Row
    BY DEF Row
  <1>3. QED
    BY <1>1, <1>2 DEF Restored

LEMMA InitType == Init => TypeOK
  <1> SUFFICES ASSUME Init PROVE TypeOK
    OBVIOUS
  <1>0. PICK start \in Starts :
           /\ db = [u \in Users |-> IF u \in start.users
                                    THEN [NoRow EXCEPT !.state = "live"] ELSE NoRow]
           /\ events = start.events
    BY DEF Init
  <1>1. db \in [Users -> Row] /\ events \in Nat
    BY <1>0, NoRowType, ConstantsAssumption DEF Row
  <1>2. job \in [Procs -> Job]
    BY NoJobType DEF Init
  <1>3. usersJSON \subseteq Entry /\ toml \subseteq Entry /\ live \subseteq Entry
    BY <1>1, EligibleType DEF Init
  <1>4. QED
    BY <1>1, <1>2, <1>3 DEF Init, TypeOK, PC, Written

LEMMA ArriveType ==
    ASSUME TypeOK, NEW r \in Requests, Arrive(r)
    PROVE  TypeOK'
  <1>1. ASSUME NEW o \in AllOps, NEW to \in PC, NEW j \in Job, Begin(r, o, to, j)
        PROVE  TypeOK'
    BY <1>1 DEF Begin, Goto, NoteStart, TypeOK, Mishaps
  <1>2. CASE \E o \in SingleOps, u \in Users : BeginSingle(r, o, u)
    <2>1. PICK o \in SingleOps, u \in Users : BeginSingle(r, o, u)
      BY <1>2
    <2>2. [NoJob EXCEPT !.op = o, !.user = u, !.snap = db, !.todo = {u}] \in Job
      BY NoJobType DEF Job, AllOps, TypeOK
    <2>3. QED
      BY <1>1, <2>1, <2>2 DEF BeginSingle, AllOps, PC
  <1>3. CASE \E o \in BulkOps, ids \in (SUBSET Users) \ {{}} : BeginBulk(r, o, ids)
    <2>1. PICK o \in BulkOps, ids \in (SUBSET Users) \ {{}} : BeginBulk(r, o, ids)
      BY <1>3
    <2>2. Visited(o, ids) \in SUBSET Users
      BY DEF Visited
    <2>3. [NoJob EXCEPT !.op = o, !.snap = db, !.todo = Visited(o, ids),
                        !.undo = IF o = "bulk_delete" THEN ids ELSE {}] \in Job
      BY <2>2, NoJobType DEF Job, AllOps, TypeOK
    <2>4. QED
      BY <1>1, <2>1, <2>3 DEF BeginBulk, AllOps, PC
  <1>4. CASE \E u \in Users : BeginCreate(r, u)
    <2>1. PICK u \in Users : BeginCreate(r, u)
      BY <1>4
    <2>2. [NoJob EXCEPT !.op = "create", !.user = u, !.snap = db] \in Job
      BY NoJobType DEF Job, AllOps, TypeOK
    <2>3. QED
      BY <1>1, <2>1, <2>2 DEF BeginCreate, AllOps, PC
  <1>5. QED
    BY <1>2, <1>3, <1>4 DEF Arrive

LEMMA NextRowType ==
    ASSUME TypeOK, NEW r \in Requests, NEW u \in Users, NextRow(r, u)
    PROVE  pc' \in [Procs -> PC] /\ job' \in [Procs -> Job]
  <1>1. CASE Finish(r)
    BY <1>1, FinishType
  <1>2. CASE ~Finish(r)
    <2>1. job[r].undo \ {u} \in SUBSET Users
      BY DEF TypeOK, Job
    <2>2. pc' = pc /\ job' = [job EXCEPT ![r].undo = job[r].undo \ {u}]
      BY <1>2 DEF NextRow
    <2>3. QED
      BY <2>1, <2>2, UndoUpdate DEF TypeOK
  <1>3. QED
    BY <1>1, <1>2

LEMMA HandleType ==
    ASSUME TypeOK, NEW r \in Requests,
           \/ Handle(r)
           \/ \E u \in Users : MutateFails(r, u) \/ RollbackFails(r, u)
    PROVE  TypeOK'
  <1>1. CASE CheckLimit(r)
    BY <1>1, FinishType DEF CheckLimit, Goto, TypeOK, PC
  <1>2. CASE Insert(r)
    <2>1. CASE Finish(r) /\ UNCHANGED <<db, issued>>
      BY <1>2, <2>1, FinishType DEF Insert, TypeOK
    <2>2. CASE ~Refused(r)
      <3>1. db' \in [Users -> Row]
        <4>1. issued + 1 \in Nat
          BY DEF TypeOK
        <4>2. db' = [db EXCEPT ![job[r].user] = [state |-> "live", enabled |-> TRUE,
                                                suspended |-> FALSE, secret |-> issued + 1]]
          BY <1>2, <2>2 DEF Insert, Finish
        <4>3. QED
          BY <4>1, <4>2 DEF TypeOK, Row
      <3>2. job[r].user \in Users
        BY DEF TypeOK, Job
      <3>3. job' \in [Procs -> Job]
        <4>1. job' = [job EXCEPT ![r].undo = {job[r].user}]
          BY <1>2, <2>2 DEF Insert
        <4>2. {job[r].user} \in SUBSET Users
          BY <3>2
        <4>3. QED
          BY <4>1, <4>2, UndoUpdate DEF TypeOK
      <3>4. QED
        BY <1>2, <2>2, <3>1, <3>3 DEF Insert, Goto, TypeOK, PC
    <2>3. QED
      BY <1>2, <2>1, <2>2 DEF Insert
  <1>3. CASE \E u \in Users : Mutate(r, u)
    <2>1. PICK u \in Users : Mutate(r, u)
      BY <1>3
    <2>2. db' \in [Users -> Row]
      <3>1. job[r].snap[u] \in Row
        BY DEF TypeOK, Job
      <3>2. CASE Write(job[r].op, u, job[r].snap[u])
        BY <3>1, <3>2, WriteType
      <3>3. CASE UNCHANGED db
        BY <3>3 DEF TypeOK
      <3>4. QED
        BY <2>1, <3>2, <3>3 DEF Mutate
    <2>3. job' \in [Procs -> Job]
      <3>1. job[r].todo \ {u} \in SUBSET Users /\ job[r].undo \cup {u} \in SUBSET Users
        BY DEF TypeOK, Job
      <3>2. job' = [job EXCEPT ![r].todo = job[r].todo \ {u}, ![r].undo = job[r].undo \cup {u}]
        BY <2>1 DEF Mutate
      <3>3. QED
        BY <3>1, <3>2, VisitUpdate DEF TypeOK
    <2>4. over' \subseteq Users /\ due' \subseteq Users
      BY <2>1 DEF Mutate, Requota, TypeOK
    <2>5. QED
      BY <2>1, <2>2, <2>3, <2>4 DEF Mutate, Goto, TypeOK, PC
  <1>4. CASE \E u \in Users : Rollback(r, u)
    <2>1. PICK u \in Users : Rollback(r, u)
      BY <1>4
    <2>2. db' \in [Users -> Row]
      <3>1. db[u] \in Row /\ job[r].snap[u] \in Row
        BY DEF TypeOK, Job
      <3>2. db' = [db EXCEPT ![u] = Restored(job[r].op, db[u], job[r].snap[u])]
        BY <2>1 DEF Rollback
      <3>3. QED
        BY <3>1, <3>2, RestoredType DEF TypeOK
    <2>3. pc' \in [Procs -> PC] /\ job' \in [Procs -> Job]
      BY <2>1, NextRowType DEF Rollback
    <2>4. over' \subseteq Users /\ due' \subseteq Users
      BY <2>1 DEF Rollback, Requota, TypeOK
    <2>5. QED
      BY <2>1, <2>2, <2>3, <2>4 DEF Rollback, TypeOK
  <1>5. CASE \E u \in Users : MutateFails(r, u)
    <2>1. PICK u \in Users : MutateFails(r, u)
      BY <1>5
    <2>2. pc' \in [Procs -> PC] /\ job' \in [Procs -> Job]
      <3>1. CASE Finish(r)
        BY <3>1, FinishType
      <3>2. CASE ~Finish(r)
        <4> DEFINE undone == job[r].undo \cup
                    (IF job[r].op \in {"bulk_suspend", "bulk_rotate"} THEN {u} ELSE {})
        <4>1. undone \in SUBSET Users
          BY DEF TypeOK, Job
        <4>2. pc' = [pc EXCEPT ![r] = "rollback"] /\ job' = [job EXCEPT ![r].undo = undone]
          BY <2>1, <3>2 DEF MutateFails
        <4>3. QED
          BY <4>1, <4>2, UndoUpdate DEF TypeOK, PC
      <3>3. QED
        BY <3>1, <3>2
    <2>3. QED
      BY <2>1, <2>2 DEF MutateFails, TypeOK
  <1>6. CASE \E u \in Users : RollbackFails(r, u)
    <2>1. PICK u \in Users : RollbackFails(r, u)
      BY <1>6
    <2>2. pc' \in [Procs -> PC] /\ job' \in [Procs -> Job]
      BY <2>1, NextRowType DEF RollbackFails
    <2>3. mishaps' \subseteq Mishaps /\ lost' \subseteq Users /\ stray' \subseteq Users
      BY <2>1 DEF RollbackFails, TypeOK, Mishaps
    <2>4. QED
      BY <2>1, <2>2, <2>3 DEF RollbackFails, TypeOK
  <1>7. QED
    BY <1>1, <1>2, <1>3, <1>4, <1>5, <1>6 DEF Handle

LEMMA ApplyType ==
    ASSUME TypeOK, NEW p \in Procs, Apply(p) \/ ApplyFails(p)
    PROVE  TypeOK'
  <1>1. CASE List(p)
    <2>1. Eligible(db) \in SUBSET Entry
      BY EligibleType DEF TypeOK
    <2>2. job' \in [Procs -> Job]
      <3>1. ASSUME NEW e \in SUBSET Entry, job' = [job EXCEPT ![p].rendered = e]
            PROVE  job' \in [Procs -> Job]
        BY <3>1 DEF TypeOK, Job
      <3>2. QED
        BY <1>1, <2>1, <3>1 DEF List
    <2>3. QED
      BY <1>1, <2>2 DEF List, Goto, TypeOK, PC
  <1>2. CASE WriteUsersJSON(p) \/ TruncateTOML(p) \/ WriteTOML(p)
    <2>1. job[p].rendered \in SUBSET Entry
      BY DEF TypeOK, Job
    <2>2. QED
      BY <1>2, <2>1 DEF WriteUsersJSON, TruncateTOML, WriteTOML, Goto, TypeOK, PC, Written
  <1>3. CASE Reload(p)
    BY <1>3, ReturnType DEF Reload, Readable, TypeOK
  <1>4. CASE ApplyFails(p)
    BY <1>4, ReturnType DEF ApplyFails, Readable, TypeOK, Mishaps
  <1>5. QED
    BY <1>1, <1>2, <1>3, <1>4 DEF Apply

LEMMA QuotaType ==
    ASSUME TypeOK, Tick \/ \E p \in Procs : Recalculate(p) \/ RecordReload(p)
    PROVE  TypeOK'
  <1>1. CASE TickBegins
    <2>1. [NoJob EXCEPT !.todo = {u \in Users : IsLive(u)}] \in Job
      BY NoJobType DEF Job
    <2>2. QED
      BY <1>1, <2>1 DEF TickBegins, Goto, NoteStart, TypeOK, PC, Mishaps
  <1>2. CASE TickNext
    <2>1. CASE job' = [job EXCEPT ![Ticker] = NoJob] /\ Goto(Ticker, "next", "idle")
      BY <1>2, <2>1, NoJobType DEF TickNext, Goto, TypeOK, PC
    <2>2. ASSUME NEW u \in job[Ticker].todo, Goto(Ticker, "next", "rollover"),
                 job' = [job EXCEPT ![Ticker] = [NoJob EXCEPT !.user = u,
                                                             !.todo = job[Ticker].todo \ {u}]]
          PROVE  TypeOK'
      <3>1. u \in Users /\ job[Ticker].todo \ {u} \in SUBSET Users
        BY DEF TypeOK, Job
      <3>2. [NoJob EXCEPT !.user = u, !.todo = job[Ticker].todo \ {u}] \in Job
        BY <3>1, NoJobType DEF Job
      <3>3. QED
        BY <1>2, <2>2, <3>2 DEF TickNext, Goto, TypeOK, PC
    <2>3. QED
      BY <1>2, <2>1, <2>2 DEF TickNext
  <1>3. CASE RolloverIfDue
    <2> DEFINE u == job[Ticker].user
    <2>1. u \in Users
      BY DEF TypeOK, Job
    <2>2. db' \in [Users -> Row]
      <3>1. CASE db' = [db EXCEPT ![u].suspended = FALSE]
        BY <2>1, <3>1 DEF TypeOK, Row
      <3>2. CASE UNCHANGED db
        BY <3>2 DEF TypeOK
      <3>3. QED
        BY <1>3, <3>1, <3>2 DEF RolloverIfDue
    <2>3. pc' \in [Procs -> PC] /\ job' \in [Procs -> Job]
      <3>1. CASE Finish(Ticker)
        BY <3>1, FinishType
      <3>2. CASE UNCHANGED job /\ pc' = [pc EXCEPT ![Ticker] = "recalc"]
        BY <3>2 DEF TypeOK, PC
      <3>3. CASE /\ job' = [job EXCEPT ![Ticker].why = "rollover"]
                 /\ pc' = [pc EXCEPT ![Ticker] = "list"]
        BY <3>3 DEF TypeOK, PC, Job, Callers
      <3>4. QED
        BY <1>3, <3>1, <3>2, <3>3 DEF RolloverIfDue
    <2>4. over' \subseteq Users /\ due' \subseteq Users
      BY <1>3 DEF RolloverIfDue, TypeOK
    <2>5. QED
      BY <1>3, <2>2, <2>3, <2>4 DEF RolloverIfDue, TypeOK
  <1>4. ASSUME NEW p \in Procs, Recalculate(p)
        PROVE  TypeOK'
    <2>1. job[p].user \in Users
      BY DEF TypeOK, Job
    <2>2. db' \in [Users -> Row]
      <3>1. CASE db' = [db EXCEPT ![job[p].user].suspended = TRUE]
        BY <2>1, <3>1 DEF TypeOK, Row
      <3>2. CASE db' = db
        BY <3>2 DEF TypeOK
      <3>3. QED
        BY <1>4, <3>1, <3>2 DEF Recalculate
    <2>3. pc' \in [Procs -> PC] /\ job' \in [Procs -> Job]
      <3>1. CASE Finish(p)
        BY <3>1, FinishType
      <3>2. CASE /\ job' = [job EXCEPT ![p].why = "recalc"]
                 /\ pc' = [pc EXCEPT ![p] = "list"]
        BY <3>2 DEF TypeOK, PC, Job, Callers
      <3>3. QED
        BY <1>4, <3>1, <3>2 DEF Recalculate
    <2>4. QED
      BY <1>4, <2>2, <2>3 DEF Recalculate, TypeOK
  <1>5. ASSUME NEW p \in Procs, RecordReload(p)
        PROVE  TypeOK'
    <2>1. job[p].err \in BOOLEAN
      BY DEF TypeOK, Job
    <2>2. pc' \in [Procs -> PC] /\ job' \in [Procs -> Job]
      BY <1>5, FinishType DEF RecordReload, TypeOK, PC
    <2>3. QED
      BY <1>5, <2>1, <2>2 DEF RecordReload, TypeOK
  <1>6. QED
    BY <1>1, <1>2, <1>3, <1>4, <1>5 DEF Tick

LEMMA EnvironmentType ==
    ASSUME TypeOK, Environment
    PROVE  TypeOK'
  <1>1. CASE \E u \in Users : QuotaReached(u) \/ PeriodEnds(u)
    BY <1>1 DEF QuotaReached, PeriodEnds, TypeOK
  <1>2. CASE TeleproxyRestarts
    BY <1>2 DEF TeleproxyRestarts, Readable, TypeOK, Mishaps
  <1>3. CASE PanelCrashes
    <2>1. job' \in [Procs -> Job]
      BY <1>3, NoJobType DEF PanelCrashes
    <2>2. pc' \in [Procs -> PC]
      BY <1>3 DEF PanelCrashes, PC
    <2>3. QED
      <3>1. mishaps' \subseteq Mishaps /\ events' \in Nat /\ reloadPending' \in BOOLEAN
        <4>1. /\ mishaps' = mishaps \cup {"crash"} /\ events' = events + 1
              /\ reloadPending' = FALSE
          BY <1>3 DEF PanelCrashes
        <4>2. QED
          <5>1. mishaps' \subseteq Mishaps
            BY <4>1 DEF TypeOK, Mishaps
          <5>2. events' \in Nat
            BY <4>1 DEF TypeOK
          <5>3. reloadPending' \in BOOLEAN
            BY <4>1, Zenon
          <5>4. QED
            BY <5>1, <5>2, <5>3
      <3>2. UNCHANGED <<db, issued, over, due, usersJSON, toml, written, live, requests, lost,
                       stray>>
        BY <1>3 DEF PanelCrashes
      <3>3. QED
        BY <2>1, <2>2, <3>1, <3>2 DEF TypeOK
  <1>4. QED
    BY <1>1, <1>2, <1>3 DEF Environment

LEMMA NextType == TypeOK /\ [Next]_vars => TypeOK'
  <1> SUFFICES ASSUME TypeOK, [Next]_vars PROVE TypeOK'
    OBVIOUS
  <1>1. CASE UNCHANGED vars
    BY <1>1 DEF vars, TypeOK
  <1>2. QED
    BY <1>1, ArriveType, HandleType, ApplyType, QuotaType, EnvironmentType DEF Next

\* Every variable keeps its type in every behaviour.
THEOREM TypeCorrect == Spec => []TypeOK
  BY InitType, NextType, PTL DEF Spec

-----------------------------------------------------------------------------
(* What a handler changes it can undo. *)

\* Tables that admit the same rows outside a set of users are alike outside it.
LEMMA EligibleOutside ==
    ASSUME NEW a \in [Users -> Row], NEW b \in [Users -> Row], NEW out \in SUBSET Users,
           \A u \in Users \ out : /\ Admitted(a[u]) <=> Admitted(b[u])
                                  /\ Admitted(a[u]) => a[u] = b[u]
    PROVE  {e \in Eligible(a) : e[1] \notin out} = {e \in Eligible(b) : e[1] \notin out}
  <1>1. ASSUME NEW e \in Eligible(a), e[1] \notin out PROVE e \in Eligible(b)
    <2>1. PICK u \in Users : Admitted(a[u]) /\ e = <<u, a[u].secret>>
      BY <1>1 DEF Eligible
    <2>2. u \in Users \ out /\ Admitted(b[u]) /\ e = <<u, b[u].secret>>
      BY <1>1, <2>1
    <2>3. QED
      BY <2>2 DEF Eligible
  <1>2. ASSUME NEW e \in Eligible(b), e[1] \notin out PROVE e \in Eligible(a)
    <2>1. PICK u \in Users : Admitted(b[u]) /\ e = <<u, b[u].secret>>
      BY <1>2 DEF Eligible
    <2>2. u \in Users \ out /\ Admitted(a[u]) /\ e = <<u, a[u].secret>>
      BY <1>2, <2>1
    <2>3. QED
      BY <2>2 DEF Eligible
  <1>3. QED
    BY <1>1, <1>2

\* The rows are those the handler found, save those it failed to restore.
LEMMA AgreeAsFound ==
    ASSUME TypeOK, NEW j \in Job,
           \A u \in Users : u \in lost \/ AsFound(j, u, db[u])
    PROVE  Agree(Eligible(db), Eligible(j.snap))
  <1>1. \A u \in Users \ stray : /\ Admitted(db[u]) <=> Admitted(j.snap[u])
                                 /\ Admitted(db[u]) => db[u] = j.snap[u]
    BY DEF AsFound, Admitted, TypeOK
  <1> DEFINE a == db  b == j.snap  out == stray
  <1>2. {e \in Eligible(a) : e[1] \notin out} = {e \in Eligible(b) : e[1] \notin out}
    <2>1. \A u \in Users \ out : /\ Admitted(a[u]) <=> Admitted(b[u])
                                 /\ Admitted(a[u]) => a[u] = b[u]
      BY <1>1
    <2>2. a \in [Users -> Row] /\ b \in [Users -> Row] /\ out \in SUBSET Users
      BY DEF TypeOK, Job
    <2> HIDE DEF a, b, out
    <2>3. QED
      BY <2>1, <2>2, EligibleOutside
  <1>3. QED
    BY <1>2 DEF Agree

\* With nothing left to restore, they are.
LEMMA UndoneEligible ==
    ASSUME TypeOK, NEW j \in Job, Undoable(j), j.undo = {}
    PROVE  Agree(Eligible(db), Eligible(j.snap))
  BY AgreeAsFound DEF Undoable

LEMMA WriteRestored ==
    ASSUME TypeOK, NEW o \in AllOps, NEW u \in Users, db[u].state = "live",
           Write(o, u, db[u])
    PROVE  Restored(o, db'[u], db[u]) = db[u]
  <1>1. db[u] \in Row /\ issued + 1 \in Nat
    BY DEF TypeOK
  <1>2. ASSUME NEW row, Update(u, row) PROVE db'[u] = row
    BY <1>2 DEF Update, TypeOK
  <1>3. CASE o = "toggle" /\ Update(u, [db[u] EXCEPT !.enabled = ~db[u].enabled])
    <2>1. db'[u] = [db[u] EXCEPT !.enabled = ~db[u].enabled]
      BY <1>2, <1>3
    <2>2. db'[u].state = "live"
      BY <1>1, <2>1 DEF Row
    <2>3. Restored(o, db'[u], db[u]) = [db'[u] EXCEPT !.enabled = db[u].enabled]
      BY <1>3, <2>2 DEF Restored, DeleteOps, RotateOps
    <2>4. QED
      BY <1>1, <2>1, <2>3 DEF Row
  <1>4. CASE o \in DeleteOps /\ Update(u, [db[u] EXCEPT !.state = "deleted"])
    BY <1>1, <1>2, <1>4 DEF Restored, Row, DeleteOps, RotateOps
  <1>5. CASE o \in RotateOps /\ Update(u, [db[u] EXCEPT !.secret = issued + 1])
    BY <1>1, <1>2, <1>5 DEF Restored, Row, DeleteOps, RotateOps
  <1>6. CASE /\ o = "suspend_toggle"
             /\ Update(u, [db[u] EXCEPT !.suspended = ~db[u].suspended])
    BY <1>1, <1>2, <1>6 DEF Restored, Row, DeleteOps, RotateOps
  <1>7. CASE /\ o = "bulk_suspend"
             /\ Update(u, [db[u] EXCEPT !.suspended = TRUE])
    BY <1>1, <1>2, <1>7 DEF Restored, Row, DeleteOps, RotateOps
  <1>8. CASE /\ o \in QuotaOps
             /\ Update(u, [db[u] EXCEPT !.suspended = FALSE])
    BY <1>1, <1>2, <1>8 DEF Restored, Row, DeleteOps, RotateOps, QuotaOps
  <1>9. CASE o = "quota_set" /\ Update(u, db[u])
    BY <1>1, <1>2, <1>9 DEF Restored, Row, DeleteOps, RotateOps
  <1>10. QED
    BY <1>3, <1>4, <1>5, <1>6, <1>7, <1>8, <1>9 DEF Write

-----------------------------------------------------------------------------
(* A step of one process. *)

\* What a step of p has to show: p was alone unless the overlap is on record, and stays
\* sound if it was.
LEMMA StepOfOne ==
    ASSUME Inductive, TypeOK', NEW p \in Procs,
           \A q \in Procs \ {p} : pc'[q] = pc[q] /\ job'[q] = job[q],
           mishaps \subseteq mishaps',
           "overlap" \notin mishaps' => OnlyActive(p),
           Controlled(p)', OnlyActive(p) => Sound(p)'
    PROVE  Inductive'
  <1>1. Alone'
    BY DEF Alone, OnlyActive, Inductive
  <1>2. ASSUME NEW q \in Procs PROVE Controlled(q)'
    <2>1. CASE q = p
      BY <2>1
    <2>2. CASE q # p
      BY <2>2 DEF Inductive, Controlled
    <2>3. QED
      BY <2>1, <2>2
  <1>3. ASSUME NEW q \in Procs, OnlyActive(q)' PROVE Sound(q)'
    <2>1. CASE "overlap" \in mishaps'
      BY <2>1 DEF Sound
    <2>2. CASE "overlap" \notin mishaps'
      <3>1. OnlyActive(p) /\ Sound(p)'
        BY <2>2
      <3>2. CASE q = p
        BY <3>1, <3>2
      <3>3. CASE q # p
        <4>1. pc'[p] = "idle" /\ pc'[q] = "idle"
          BY <1>3, <3>1, <3>3 DEF OnlyActive
        <4>2. QED
          BY <3>1, <4>1 DEF Sound, Private, Served, Stored, OnRequest, Working, Resting, Applying
      <3>4. QED
        BY <3>2, <3>3
    <2>3. QED
      BY <2>1, <2>2
  <1>4. QED
    BY <1>1, <1>2, <1>3 DEF Inductive

\* A process that was at work was alone, unless the overlap is on record.
LEMMA AloneAtWork ==
    ASSUME Inductive, NEW p \in Procs, pc[p] # "idle", "overlap" \notin mishaps
    PROVE  OnlyActive(p)
  BY DEF Inductive, Alone, OnlyActive

\* What finishing has to show.
LEMMA FinishSound ==
    ASSUME TypeOK, NEW p \in Procs, Finish(p),
           mishaps' \subseteq {"failed", "unrestored"}
              => (reloadPending \/ Agree(live, Eligible(db)))',
           mishaps' \subseteq {"restart", "unrestored"} => Hold(Eligible(db))'
    PROVE  /\ Controlled(p)' /\ Sound(p)'
           /\ \A q \in Procs \ {p} : pc'[q] = pc[q] /\ job'[q] = job[q]
  <1>1. pc'[p] \in {"idle", "next"}
    BY DEF Finish, TypeOK
  <1>2. \A q \in Procs \ {p} : pc'[q] = pc[q] /\ job'[q] = job[q]
    BY DEF Finish, TypeOK
  <1>3. Controlled(p)'
    BY <1>1 DEF Controlled, Working, Applying
  <1>4. Sound(p)'
    BY <1>1 DEF Sound, Private, Served, Stored, OnRequest, Working, Resting, Applying
  <1>5. QED
    BY <1>2, <1>3, <1>4

-----------------------------------------------------------------------------
(* The steps of a handler. *)

\* Nothing has failed to be restored yet.
Reversible(j) ==
    \A u \in Users :
        AsFound(j, u, IF u \in j.undo THEN Restored(j.op, db[u], j.snap[u]) ELSE db[u])

LEMMA BeginStep ==
    ASSUME Inductive, TypeOK', NEW r \in Requests, NEW o, NEW j \in Job,
           NEW to \in {"mutate", "list", "count"}, Begin(r, o, to, j),
           j.snap = db, j.why = "request", Reversible(j),
           to = "mutate" => Untouched(j),
           to = "count" => j.op = "create" /\ j.undo = {}
    PROVE  Inductive'
  <1>1. /\ pc[r] = "idle" /\ pc'[r] = to /\ job'[r] = j
        /\ \A q \in Procs \ {r} : pc'[q] = pc[q] /\ job'[q] = job[q]
    BY DEF Begin, Goto, Inductive, TypeOK
  <1>2. UNCHANGED <<db, usersJSON, toml, written, live, reloadPending, stray>> /\ lost' = {}
    BY DEF Begin
  <1>3. mishaps \subseteq mishaps' /\ ("overlap" \notin mishaps' => mishaps' = mishaps)
    BY DEF Begin, NoteStart
  <1>4. "overlap" \notin mishaps' => OnlyActive(r)
    BY DEF Begin, NoteStart, Quiet, OnlyActive
  <1>5. r # Ticker /\ r \in Procs
    BY ConstantsAssumption DEF Procs
  <1>6. Controlled(r)'
    BY <1>1, <1>5 DEF Controlled, Working, Applying
  <1>7. OnlyActive(r) => Sound(r)'
    <2> SUFFICES ASSUME OnlyActive(r), "overlap" \notin mishaps'
                 PROVE  Sound(r)'
      BY DEF Sound
    <2>1. Sound(r) /\ mishaps' = mishaps
      BY <1>3, <1>5 DEF Inductive
    <2>2. Undoable(j)' /\ Undoable(job[r])' /\ (to = "mutate" => Untouched(job[r])')
      BY <1>1, <1>2 DEF Undoable, Reversible, AsFound, Untouched, IsLive
    <2>3. Private(r)'
      BY <1>1, <1>2, <2>2 DEF Private, Working, OnRequest, Applying
    <2>4. mishaps \subseteq {"failed", "unrestored"} => Served(r)'
      BY <1>1, <1>2, <2>1 DEF Sound, Served, Working, OnRequest, Applying, Resting, Agree
    <2>5. mishaps \subseteq {"restart", "unrestored"} => Stored(r)'
      BY <1>1, <1>2, <2>1 DEF Sound, Stored, Working, Resting, Hold, Agree
    <2>6. QED
      BY <2>1, <2>3, <2>4, <2>5 DEF Sound
  <1>8. QED
    BY <1>1, <1>3, <1>4, <1>5, <1>6, <1>7, StepOfOne

LEMMA ArriveStep ==
    ASSUME Inductive, ~StaleForms, NEW r \in Requests, Arrive(r)
    PROVE  Inductive'
  <1>1. TypeOK /\ TypeOK'
    BY ArriveType DEF Inductive
  <1>2. CASE \E o \in SingleOps, u \in Users : BeginSingle(r, o, u)
    <2>1. PICK o \in SingleOps, u \in Users : BeginSingle(r, o, u)
      BY <1>2
    <2> DEFINE j == [NoJob EXCEPT !.op = o, !.user = u, !.snap = db, !.todo = {u}]
    <2>2. /\ j \in Job /\ j.snap = db /\ j.why = "request" /\ j.op = o
          /\ j.undo = {} /\ j.todo = {u} /\ j.user = u
      BY <1>1, NoJobType DEF Job, AllOps, TypeOK, NoJob
    <2>3. Reversible(j) /\ Untouched(j)
      BY <2>1, <2>2 DEF Reversible, AsFound, Untouched, BeginSingle, SingleOps
    <2>4. QED
      BY <1>1, <2>1, <2>2, <2>3, BeginStep DEF BeginSingle
  <1>3. CASE \E o \in BulkOps, ids \in (SUBSET Users) \ {{}} : BeginBulk(r, o, ids)
    <2>1. PICK o \in BulkOps, ids \in (SUBSET Users) \ {{}} : BeginBulk(r, o, ids)
      BY <1>3
    <2> DEFINE to == IF Visited(o, ids) = {} THEN "list" ELSE "mutate"
               un == IF o = "bulk_delete" THEN ids ELSE {}
               j == [NoJob EXCEPT !.op = o, !.snap = db, !.todo = Visited(o, ids), !.undo = un]
    <2>2. Visited(o, ids) \in SUBSET Users /\ \A u \in Visited(o, ids) : IsLive(u)
      BY <2>1 DEF Visited, BeginBulk
    <2>3. /\ j \in Job /\ j.snap = db /\ j.why = "request" /\ j.op = o
          /\ j.todo = Visited(o, ids) /\ j.undo = un
      BY <1>1, <2>2, NoJobType DEF Job, AllOps, TypeOK, NoJob
    <2>4. Reversible(j)
      <3>1. ASSUME NEW u \in un PROVE Restored(o, db[u], db[u]) = db[u]
        <4>1. o = "bulk_delete" /\ db[u].state = "live" /\ db[u] \in Row
          BY <1>1, <2>1 DEF BeginBulk, IsLive, TypeOK
        <4>2. QED
          BY <4>1 DEF Restored, DeleteOps, Row
      <3>2. QED
        BY <2>3, <3>1 DEF Reversible, AsFound
    <2>5. Untouched(j)
      BY <2>1, <2>2, <2>3 DEF Untouched, BeginBulk
    <2>6. Begin(r, o, to, j) /\ to \in {"list", "mutate"}
      BY <2>1 DEF BeginBulk
    <2>7. QED
      BY <1>1, <2>3, <2>4, <2>5, <2>6, BeginStep
  <1>4. CASE \E u \in Users : BeginCreate(r, u)
    <2>1. PICK u \in Users : BeginCreate(r, u)
      BY <1>4
    <2> DEFINE j == [NoJob EXCEPT !.op = "create", !.user = u, !.snap = db]
    <2>2. /\ j \in Job /\ j.snap = db /\ j.why = "request" /\ j.undo = {}
          /\ j.op = "create"
      BY <1>1, NoJobType DEF Job, AllOps, TypeOK, NoJob
    <2>3. Reversible(j)
      BY <2>2 DEF Reversible, AsFound
    <2>4. QED
      BY <1>1, <2>1, <2>2, <2>3, BeginStep DEF BeginCreate
  <1>5. QED
    BY <1>2, <1>3, <1>4 DEF Arrive
\* What a step of a process at work has to show.
LEMMA WorkStep ==
    ASSUME Inductive, TypeOK', NEW p \in Procs, pc[p] # "idle",
           \A q \in Procs \ {p} : pc'[q] = pc[q] /\ job'[q] = job[q],
           mishaps \subseteq mishaps',
           Controlled(p)',
           "overlap" \notin mishaps' /\ Sound(p) => Sound(p)'
    PROVE  Inductive'
  <1>1. "overlap" \notin mishaps' => OnlyActive(p)
    BY AloneAtWork
  <1>2. OnlyActive(p) => Sound(p)
    BY DEF Inductive
  <1>3. "overlap" \in mishaps' => Sound(p)'
    BY DEF Sound
  <1>4. QED
    BY <1>1, <1>2, <1>3, StepOfOne

\* What finishing has to show, all told.
LEMMA FinishStep ==
    ASSUME Inductive, TypeOK', NEW p \in Procs, pc[p] # "idle", Finish(p),
           mishaps \subseteq mishaps',
           Sound(p) /\ mishaps' \subseteq {"failed", "unrestored"}
              => (reloadPending \/ Agree(live, Eligible(db)))',
           Sound(p) /\ mishaps' \subseteq {"restart", "unrestored"} => Hold(Eligible(db))'
    PROVE  Inductive'
  <1>1. TypeOK
    BY DEF Inductive
  <1>2. CASE Sound(p)
    BY <1>1, <1>2, FinishSound, WorkStep
  <1>3. CASE ~Sound(p)
    <2>1. \A q \in Procs \ {p} : pc'[q] = pc[q] /\ job'[q] = job[q]
      BY <1>1 DEF Finish, TypeOK
    <2>2. Controlled(p)'
      <3>1. pc'[p] \in {"idle", "next"}
        BY <1>1 DEF Finish, TypeOK
      <3>2. QED
        BY <3>1 DEF Controlled, Working, Applying
    <2>3. QED
      BY <1>3, <2>1, <2>2, WorkStep
  <1>4. QED
    BY <1>2, <1>3

LEMMA CheckLimitStep ==
    ASSUME Inductive, TypeOK', NEW r \in Requests, CheckLimit(r)
    PROVE  Inductive'
  <1>1. TypeOK /\ r \in Procs /\ Controlled(r)
    BY DEF Inductive, Procs
  <1>2. /\ UNCHANGED <<db, usersJSON, toml, written, live, reloadPending, mishaps, lost, stray>>
        /\ pc[r] = "count"
    BY DEF CheckLimit, Goto
  <1>3. CASE Finish(r)
    <2>1. Sound(r) /\ mishaps' \subseteq {"failed", "unrestored"}
            => (reloadPending \/ Agree(live, Eligible(db)))'
      BY <1>2 DEF Sound, Served, Resting, Agree
    <2>2. Sound(r) /\ mishaps' \subseteq {"restart", "unrestored"} => Hold(Eligible(db))'
      BY <1>2 DEF Sound, Stored, Resting, Hold, Agree
    <2>3. QED
      BY <1>1, <1>2, <1>3, <2>1, <2>2, FinishStep
  <1>4. CASE Goto(r, "count", "insert") /\ UNCHANGED job
    <2>1. pc'[r] = "insert" /\ \A q \in Procs \ {r} : pc'[q] = pc[q] /\ job'[q] = job[q]
      BY <1>1, <1>4 DEF Goto, TypeOK
    <2>2. Controlled(r)'
      BY <1>1, <1>2, <1>4, <2>1 DEF Controlled, Working, Applying
    <2>3. Sound(r) => Sound(r)'
      BY <1>2, <1>4, <2>1
         DEF Sound, Private, Served, Stored, OnRequest, Working, Resting, Applying, Hold, Agree
    <2>4. QED
      BY <1>1, <1>2, <2>1, <2>2, <2>3, WorkStep
  <1>5. QED
    BY <1>3, <1>4 DEF CheckLimit

LEMMA InsertStep ==
    ASSUME Inductive, TypeOK', NEW r \in Requests, Insert(r)
    PROVE  Inductive'
  <1> DEFINE u == job[r].user
  <1>1. TypeOK /\ r \in Procs /\ Controlled(r) /\ u \in Users /\ r # Ticker
    BY ConstantsAssumption DEF Inductive, Procs, TypeOK, Job
  <1>2. /\ UNCHANGED <<usersJSON, toml, written, live, reloadPending, mishaps, lost, stray>>
        /\ pc[r] = "insert"
    BY DEF Insert, Goto, Refused
  <1>3. CASE Refused(r) /\ Finish(r) /\ UNCHANGED db
    <2>1. Sound(r) /\ mishaps' \subseteq {"failed", "unrestored"}
            => (reloadPending \/ Agree(live, Eligible(db)))'
      BY <1>2, <1>3 DEF Sound, Served, Resting, Agree
    <2>2. Sound(r) /\ mishaps' \subseteq {"restart", "unrestored"} => Hold(Eligible(db))'
      BY <1>2, <1>3 DEF Sound, Stored, Resting, Hold, Agree
    <2>3. QED
      BY <1>1, <1>2, <1>3, <2>1, <2>2, FinishStep
  <1>4. CASE /\ ~Refused(r) /\ Goto(r, "insert", "list")
             /\ db' = [db EXCEPT ![u] = [state |-> "live", enabled |-> TRUE,
                                         suspended |-> FALSE, secret |-> issued + 1]]
             /\ job' = [job EXCEPT ![r].undo = {u}]
    <2>1. /\ pc'[r] = "list"
          /\ \A q \in Procs \ {r} : pc'[q] = pc[q] /\ job'[q] = job[q]
      BY <1>1, <1>4 DEF Goto, TypeOK
    <2>2. /\ job'[r].op = "create" /\ job'[r].why = "request" /\ job'[r].undo = {u}
          /\ job'[r].snap = job[r].snap /\ job'[r].user = u
      BY <1>1, <1>2, <1>4 DEF TypeOK, Job, Controlled
    <2>3. Controlled(r)'
      BY <1>1, <2>1, <2>2 DEF Controlled, Working, Applying
    <2>4. ASSUME "overlap" \notin mishaps', Sound(r) PROVE Sound(r)'
      <3>1. CASE "crash" \in mishaps
        BY <1>2, <3>1 DEF Sound
      <3>2. CASE "crash" \notin mishaps
        <4>1. Private(r) /\ db = job[r].snap
          BY <1>2, <2>4, <3>2 DEF Sound, Private
        <4>2. db[u].state = "absent"
          BY <1>1, <1>2, <1>4 DEF Refused
        <4>3. Undoable(job[r])'
          <5>1. db'[u].state = "live" /\ db'[u] \in Row
            BY <1>1, <1>4 DEF TypeOK
          <5>2. Restored("create", db'[u], db[u]) = [db'[u] EXCEPT !.state = "deleted"]
            BY <5>1 DEF Restored, DeleteOps, RotateOps
          <5>3. AsFound(job'[r], u, Restored("create", db'[u], db[u]))
            <6>1. Restored("create", db'[u], db[u]).state = "deleted"
              BY <5>1, <5>2 DEF Row
            <6>2. job'[r].snap[u].state = "absent"
              BY <2>2, <4>1, <4>2
            <6>3. QED
              BY <2>2, <6>1, <6>2 DEF AsFound
          <5>4. \A v \in Users \ {u} : db'[v] = db[v]
            BY <1>1, <1>4 DEF TypeOK
          <5>5. \A v \in Users \ {u} : AsFound(job'[r], v, db'[v])
            BY <2>2, <4>1, <5>4 DEF AsFound
          <5>6. QED
            BY <2>2, <4>1, <5>3, <5>5 DEF Undoable
        <4>4. Private(r)'
          BY <2>1, <4>3 DEF Private, Working
        <4>5. mishaps \subseteq {"failed", "unrestored"} => Served(r)'
          BY <1>2, <2>1, <2>2, <2>4, <4>1 DEF Sound, Served, Working, Resting, Agree
        <4>6. Stored(r)'
          BY <2>1 DEF Stored, Working, Resting
        <4>7. QED
          BY <1>2, <4>4, <4>5, <4>6 DEF Sound
      <3>3. QED
        BY <3>1, <3>2
    <2>5. QED
      BY <1>1, <1>2, <2>1, <2>3, <2>4, WorkStep
  <1>5. QED
    BY <1>3, <1>4 DEF Insert
LEMMA MutateStep ==
    ASSUME Inductive, TypeOK', NEW r \in Requests, NEW u \in Users, Mutate(r, u)
    PROVE  Inductive'
  <1> DEFINE j == job[r]
  <1>1. TypeOK /\ r \in Procs /\ Controlled(r) /\ r # Ticker /\ j \in Job
    BY ConstantsAssumption DEF Inductive, Procs, TypeOK
  <1>2. /\ UNCHANGED <<usersJSON, toml, written, live, reloadPending, mishaps, lost, stray>>
        /\ pc[r] = "mutate" /\ u \in j.todo
    BY DEF Mutate, Goto
  <1>3. /\ pc'[r] = IF j.todo = {u} THEN "list" ELSE "mutate"
        /\ \A q \in Procs \ {r} : pc'[q] = pc[q] /\ job'[q] = job[q]
    BY <1>1 DEF Mutate, Goto, TypeOK
  <1>4. /\ job'[r].op = j.op /\ job'[r].why = j.why /\ job'[r].snap = j.snap
        /\ job'[r].user = j.user
        /\ job'[r].todo = j.todo \ {u} /\ job'[r].undo = j.undo \cup {u}
    BY <1>1 DEF Mutate, TypeOK, Job
  <1>5. Controlled(r)'
    BY <1>1, <1>2, <1>3, <1>4 DEF Controlled, Working, Applying
  <1>6. ASSUME "overlap" \notin mishaps', Sound(r), "crash" \notin mishaps PROVE Sound(r)'
    <2>1. Private(r) /\ Undoable(j) /\ Untouched(j)
      BY <1>2, <1>6 DEF Sound, Private, Working
    <2>2. db[u] = j.snap[u] /\ db[u].state = "live" /\ j.op \in AllOps
      BY <1>2, <2>1 DEF Untouched, IsLive, AllOps
    <2>3. Write(j.op, u, db[u])
      BY <2>2 DEF Mutate, IsLive
    <2>4. Restored(j.op, db'[u], j.snap[u]) = j.snap[u]
      BY <1>1, <2>2, <2>3, WriteRestored
    <2>5. \A v \in Users \ {u} : db'[v] = db[v]
      BY <1>1, <2>3 DEF Write, Update, TypeOK
    <2>6. Undoable(job[r])'
      <3>1. ASSUME NEW v \in Users \ {u}
            PROVE  \/ v \in lost'
                   \/ AsFound(job'[r], v, IF v \in job'[r].undo
                                          THEN Restored(job'[r].op, db'[v], job'[r].snap[v])
                                          ELSE db'[v])
        BY <1>2, <1>4, <2>1, <2>5 DEF Undoable, AsFound
      <3>2. AsFound(job'[r], u, Restored(job'[r].op, db'[u], job'[r].snap[u]))
        BY <1>4, <2>4 DEF AsFound
      <3>3. QED
        BY <1>4, <3>1, <3>2 DEF Undoable
    <2>7. pc'[r] = "mutate" => Untouched(job[r])'
      <3> SUFFICES ASSUME j.todo # {u} PROVE Untouched(job[r])'
        BY <1>3
      <3>1. j.op \in BulkOps
        BY <1>2, <2>1 DEF Untouched
      <3>2. \A v \in j.todo \ {u} : db'[v] = j.snap[v] /\ db'[v].state = "live"
        BY <1>1, <2>1, <2>5 DEF Untouched, IsLive, Job
      <3>3. \A v \in (j.undo \cup {u}) \cap (j.todo \ {u}) : j.op = "bulk_delete"
        BY <2>1 DEF Untouched
      <3>4. QED
        BY <1>4, <3>1, <3>2, <3>3 DEF Untouched, IsLive
    <2>8. Private(r)'
      BY <1>3, <2>6, <2>7 DEF Private, Working, Applying
    <2>9. mishaps \subseteq {"failed", "unrestored"} => Served(r)'
      BY <1>2, <1>3, <1>4, <1>6 DEF Sound, Served, Working, Resting, Agree
    <2>10. mishaps \subseteq {"restart", "unrestored"} => Stored(r)'
      BY <1>2, <1>3, <1>4, <1>6 DEF Sound, Stored, Working, Resting, Hold, Agree
    <2>11. QED
      BY <1>2, <2>8, <2>9, <2>10 DEF Sound
  <1>7. "crash" \in mishaps => Sound(r)'
    BY <1>2 DEF Sound
  <1>8. QED
    BY <1>1, <1>2, <1>3, <1>5, <1>6, <1>7, WorkStep

LEMMA MutateFailsStep ==
    ASSUME Inductive, TypeOK', NEW r \in Requests, NEW u \in Users, MutateFails(r, u)
    PROVE  Inductive'
  <1> DEFINE j == job[r]
             more == IF j.op \in {"bulk_suspend", "bulk_rotate"} THEN {u} ELSE {}
             undone == j.undo \cup more
  <1>1. TypeOK /\ r \in Procs /\ Controlled(r) /\ r # Ticker /\ j \in Job
    BY ConstantsAssumption DEF Inductive, Procs, TypeOK
  <1>2. /\ UNCHANGED <<db, usersJSON, toml, written, live, reloadPending, mishaps, lost, stray>>
        /\ pc[r] = "mutate" /\ u \in j.todo
    BY DEF MutateFails
  <1>3. ASSUME Sound(r), mishaps \cap {"overlap", "crash"} = {}
        PROVE  Undoable(j) /\ Untouched(j)
    BY <1>2, <1>3 DEF Sound, Private, Working
  <1>4. CASE Finish(r) /\ ~(j.op \in BulkOps /\ undone # {})
    <2>1. ASSUME Sound(r), mishaps \cap {"overlap", "crash"} = {}
          PROVE  Agree(Eligible(db), Eligible(j.snap))
      <3>1. j.undo = {}
        BY <1>3, <1>4, <2>1 DEF Untouched
      <3>2. QED
        BY <1>1, <1>3, <2>1, <3>1, UndoneEligible
    <2>2. Sound(r) /\ mishaps' \subseteq {"failed", "unrestored"}
            => (reloadPending \/ Agree(live, Eligible(db)))'
      BY <1>2, <2>1 DEF Sound, Served, Working, Agree
    <2>3. Sound(r) /\ mishaps' \subseteq {"restart", "unrestored"} => Hold(Eligible(db))'
      BY <1>2, <2>1 DEF Sound, Stored, Working, Hold, Agree
    <2>4. QED
      BY <1>1, <1>2, <1>4, <2>2, <2>3, FinishStep
  <1>5. CASE /\ pc' = [pc EXCEPT ![r] = "rollback"]
             /\ job' = [job EXCEPT ![r].undo = undone]
    <2>1. /\ pc'[r] = "rollback"
          /\ \A q \in Procs \ {r} : pc'[q] = pc[q] /\ job'[q] = job[q]
      BY <1>1, <1>5 DEF TypeOK
    <2>2. /\ job'[r].op = j.op /\ job'[r].why = j.why /\ job'[r].snap = j.snap
          /\ job'[r].user = j.user /\ job'[r].undo = undone
      BY <1>1, <1>5 DEF TypeOK, Job
    <2>3. Controlled(r)'
      BY <1>1, <1>2, <2>1, <2>2 DEF Controlled, Working, Applying
    <2>4. ASSUME Sound(r), mishaps \cap {"overlap", "crash"} = {}
          PROVE  Undoable(job[r])'
      <3>1. CASE more = {}
        BY <1>2, <1>3, <2>2, <2>4, <3>1 DEF Undoable, AsFound
      <3>2. CASE j.op \in {"bulk_suspend", "bulk_rotate"}
        <4>1. j.snap[u] \in Row /\ db[u] = j.snap[u]
          BY <1>1, <1>2, <1>3, <2>4 DEF Untouched, Job
        <4>2. Restored(j.op, db[u], j.snap[u]) = j.snap[u]
          BY <3>2, <4>1 DEF Restored, Row, DeleteOps, RotateOps
        <4>3. QED
          BY <1>2, <1>3, <2>2, <2>4, <4>2 DEF Undoable, AsFound
      <3>3. QED
        BY <3>1, <3>2
    <2>5. Sound(r) => Sound(r)'
      <3>1. Sound(r) /\ mishaps \cap {"overlap", "crash"} = {} => Private(r)'
        BY <2>1, <2>4 DEF Private, Working, Applying
      <3>2. Sound(r) /\ mishaps \subseteq {"failed", "unrestored"} => Served(r)'
        BY <1>2, <2>1, <2>2 DEF Sound, Served, Working, Resting, Agree
      <3>3. Sound(r) /\ mishaps \subseteq {"restart", "unrestored"} => Stored(r)'
        BY <1>2, <2>1, <2>2 DEF Sound, Stored, Working, Resting, Hold, Agree
      <3>4. QED
        BY <1>2, <3>1, <3>2, <3>3 DEF Sound
    <2>6. QED
      BY <1>1, <1>2, <2>1, <2>3, <2>5, WorkStep
  <1>6. QED
    BY <1>4, <1>5 DEF MutateFails

LEMMA RollbackStep ==
    ASSUME Inductive, TypeOK', NEW r \in Requests, NEW u \in Users,
           Rollback(r, u) \/ RollbackFails(r, u)
    PROVE  /\ Inductive'
           /\ (/\ pc'[r] = "idle" /\ OnlyActive(r)
               /\ mishaps' \cap {"overlap", "crash"} = {})
                 => \A v \in Users : v \in lost' \/ AsFound(job[r], v, db'[v])
  <1> DEFINE j == job[r]
  <1>1. TypeOK /\ r \in Procs /\ Controlled(r) /\ r # Ticker /\ j \in Job
    BY ConstantsAssumption DEF Inductive, Procs, TypeOK
  <1>2. /\ UNCHANGED <<usersJSON, toml, written, live, reloadPending>>
        /\ NextRow(r, u) /\ pc[r] = "rollback" /\ u \in j.undo
    BY DEF Rollback, RollbackFails, NextRow
  <1>3. /\ \A v \in Users \ {u} : db'[v] = db[v]
        /\ db'[u] = Restored(j.op, db[u], j.snap[u]) \/ u \in lost'
        /\ lost \subseteq lost' /\ stray \subseteq stray'
        /\ mishaps \subseteq mishaps'
        /\ mishaps' \subseteq mishaps \cup {"unrestored"}
    BY <1>1, <1>2 DEF Rollback, RollbackFails, TypeOK
  <1>4. ASSUME Sound(r), mishaps \cap {"overlap", "crash"} = {}
        PROVE  \A v \in Users :
                  \/ v \in lost'
                  \/ AsFound(j, v, IF v \in j.undo \ {u}
                                   THEN Restored(j.op, db'[v], j.snap[v]) ELSE db'[v])
    <2>1. Undoable(j)
      BY <1>2, <1>4 DEF Sound, Private, Working
    <2>2. QED
      BY <1>2, <1>3, <2>1 DEF Undoable
  <1>5. CASE j.undo = {u}
    <2>1. Finish(r)
      BY <1>2, <1>5 DEF NextRow
    <2>2. ASSUME Sound(r), mishaps \cap {"overlap", "crash"} = {}
          PROVE  /\ \A v \in Users : v \in lost' \/ AsFound(j, v, db'[v])
                 /\ {e \in Eligible(db') : e[1] \notin stray'} =
                      {e \in Eligible(j.snap) : e[1] \notin stray'}
      <3>1. \A v \in Users : v \in lost' \/ AsFound(j, v, db'[v])
        BY <1>4, <1>5, <2>2
      <3>2. \A v \in Users \ stray' : /\ Admitted(db'[v]) <=> Admitted(j.snap[v])
                                      /\ Admitted(db'[v]) => db'[v] = j.snap[v]
        BY <3>1 DEF AsFound, Admitted, TypeOK
      <3> DEFINE a == db'  b == j.snap  out == stray'
      <3>3. {e \in Eligible(a) : e[1] \notin out} = {e \in Eligible(b) : e[1] \notin out}
        <4>1. \A v \in Users \ out : /\ Admitted(a[v]) <=> Admitted(b[v])
                                     /\ Admitted(a[v]) => a[v] = b[v]
          BY <3>2
        <4>2. a \in [Users -> Row] /\ b \in [Users -> Row] /\ out \in SUBSET Users
          BY <1>1 DEF TypeOK, Job
        <4> HIDE DEF a, b, out
        <4>3. QED
          BY <4>1, <4>2, EligibleOutside
      <3>4. QED
        BY <3>1, <3>3
    <2>3. ASSUME Agree(live, Eligible(j.snap)), Sound(r),
                 mishaps \cap {"overlap", "crash"} = {}
          PROVE  Agree(live, Eligible(db))'
      <3>1. {e \in live : e[1] \notin stray'} = {e \in Eligible(j.snap) : e[1] \notin stray'}
        BY <1>3, <2>3 DEF Agree
      <3>2. Eligible(db)' = Eligible(db')
        BY DEF Eligible
      <3>3. QED
        BY <1>2, <2>3, <2>2, <3>1, <3>2 DEF Agree
    <2>4. Sound(r) /\ mishaps' \subseteq {"failed", "unrestored"}
            => (reloadPending \/ Agree(live, Eligible(db)))'
      BY <1>2, <1>3, <2>3 DEF Sound, Served, Working
    <2>5. Sound(r) /\ mishaps' \subseteq {"restart", "unrestored"} => Hold(Eligible(db))'
      BY <1>2, <1>3, <2>3 DEF Sound, Stored, Working, Hold
    <2>6. Inductive'
      BY <1>1, <1>2, <1>3, <2>1, <2>4, <2>5, FinishStep
    <2>7. OnlyActive(r) => Sound(r)
      BY <1>1 DEF Inductive
    <2>8. QED
      BY <1>3, <2>2, <2>6, <2>7
  <1>6. CASE j.undo # {u}
    <2>1. pc' = pc /\ job' = [job EXCEPT ![r].undo = j.undo \ {u}]
      BY <1>2, <1>6 DEF NextRow
    <2>2. /\ job'[r].op = j.op /\ job'[r].why = j.why /\ job'[r].snap = j.snap
          /\ job'[r].user = j.user /\ job'[r].undo = j.undo \ {u}
          /\ \A q \in Procs \ {r} : pc'[q] = pc[q] /\ job'[q] = job[q]
      BY <1>1, <2>1 DEF TypeOK, Job
    <2>3. Controlled(r)'
      BY <1>1, <1>2, <2>1, <2>2 DEF Controlled, Working, Applying
    <2>4. Sound(r) => Sound(r)'
      <3>1. ASSUME Sound(r), mishaps \cap {"overlap", "crash"} = {}
            PROVE  Undoable(job[r])'
        BY <1>4, <2>2, <3>1 DEF Undoable, AsFound
      <3>2. Sound(r) /\ mishaps \cap {"overlap", "crash"} = {} => Private(r)'
        BY <1>2, <2>1, <3>1 DEF Private, Working, Applying
      <3>3. Sound(r) /\ mishaps \subseteq {"failed", "unrestored"} => Served(r)'
        BY <1>2, <1>3, <2>1, <2>2 DEF Sound, Served, Working, Resting, Agree
      <3>4. Sound(r) /\ mishaps \subseteq {"restart", "unrestored"} => Stored(r)'
        BY <1>2, <1>3, <2>1, <2>2 DEF Sound, Stored, Working, Resting, Hold, Agree
      <3>5. QED
        BY <1>2, <1>3, <3>2, <3>3, <3>4 DEF Sound
    <2>5. Inductive'
      BY <1>1, <1>2, <1>3, <2>1, <2>2, <2>3, <2>4, WorkStep
    <2>6. QED
      BY <1>2, <2>1, <2>5
  <1>7. QED
    BY <1>5, <1>6
-----------------------------------------------------------------------------
(* The steps of an apply. *)

LEMMA ListStep ==
    ASSUME Inductive, TypeOK', NEW p \in Procs, List(p)
    PROVE  Inductive'
  <1>1. TypeOK /\ Controlled(p)
    BY DEF Inductive
  <1>2. /\ UNCHANGED <<db, usersJSON, toml, written, live, reloadPending, mishaps, lost, stray>>
        /\ pc[p] = "list" /\ pc'[p] = "users_json"
        /\ \A q \in Procs \ {p} : pc'[q] = pc[q] /\ job'[q] = job[q]
    BY <1>1 DEF List, Goto, TypeOK
  <1>3. /\ job'[p].rendered = Eligible(db) /\ job'[p].why = job[p].why
        /\ job'[p].op = job[p].op /\ job'[p].snap = job[p].snap
        /\ job'[p].undo = job[p].undo /\ job'[p].user = job[p].user
    <2>1. job' = [job EXCEPT ![p].rendered = Eligible(db)] /\ job[p] \in Job
      BY <1>1 DEF List, TypeOK
    <2>2. QED
      BY <1>1, <2>1 DEF TypeOK, Job
  <1>4. Controlled(p)'
    BY <1>1, <1>2, <1>3 DEF Controlled, Working, Applying
  <1>5. Sound(p) => Sound(p)'
    <2>1. Undoable(job[p]) => Undoable(job[p])'
      BY <1>2, <1>3 DEF Undoable, AsFound
    <2>2. Private(p) => Private(p)'
      BY <1>2, <1>3, <2>1 DEF Private, OnRequest, Working, Applying
    <2>3. Served(p) => Served(p)'
      BY <1>2, <1>3 DEF Served, OnRequest, Working, Resting, Applying, Agree
    <2>4. Stored(p)'
      BY <1>2 DEF Stored, Working, Resting
    <2>5. QED
      BY <1>2, <2>2, <2>3, <2>4 DEF Sound
  <1>6. QED
    BY <1>2, <1>4, <1>5, WorkStep

LEMMA WriteStep ==
    ASSUME Inductive, TypeOK', NEW p \in Procs,
           WriteUsersJSON(p) \/ TruncateTOML(p) \/ WriteTOML(p)
    PROVE  Inductive'
  <1>1. TypeOK /\ Controlled(p)
    BY DEF Inductive
  <1>2. /\ UNCHANGED <<db, live, reloadPending, mishaps, job, lost, stray>>
        /\ \A q \in Procs \ {p} : pc'[q] = pc[q] /\ job'[q] = job[q]
    BY <1>1 DEF WriteUsersJSON, TruncateTOML, WriteTOML, Goto, TypeOK
  <1>3. \/ /\ pc[p] = "users_json" /\ pc'[p] = "toml"
           /\ usersJSON' = job[p].rendered /\ toml' = toml /\ written' = written
        \/ /\ pc[p] = "toml" /\ pc'[p] = "toml_write"
           /\ toml' = {} /\ written' = "whole" /\ usersJSON' = usersJSON
        \/ /\ pc[p] = "toml_write" /\ pc'[p] = "reload" /\ usersJSON' = usersJSON
           /\ (toml = {} /\ written = "whole"
                  => toml' = job[p].rendered /\ written' = "whole")
    BY <1>1 DEF WriteUsersJSON, TruncateTOML, WriteTOML, Goto, TypeOK
  <1>4. Controlled(p)'
    BY <1>1, <1>2, <1>3 DEF Controlled, Working, Applying
  <1>5. Sound(p) => Sound(p)'
    <2>1. Undoable(job[p]) => Undoable(job[p])'
      BY <1>2 DEF Undoable, AsFound
    <2>2. Private(p) => Private(p)'
      BY <1>2, <1>3, <2>1 DEF Private, OnRequest, Working, Applying
    <2>3. Served(p) => Served(p)'
      BY <1>2, <1>3 DEF Served, OnRequest, Working, Resting, Applying, Agree
    <2>4. Private(p) /\ Stored(p) => Stored(p)'
      BY <1>2, <1>3 DEF Private, Stored, Working, Resting, Applying
    <2>5. QED
      BY <1>2, <2>2, <2>3, <2>4 DEF Sound
  <1>6. QED
    BY <1>2, <1>3, <1>4, <1>5, WorkStep

LEMMA ReloadStep ==
    ASSUME Inductive, TypeOK', NEW p \in Procs, Reload(p)
    PROVE  Inductive'
  <1>1. TypeOK /\ Controlled(p)
    BY DEF Inductive
  <1>2. /\ UNCHANGED <<db, usersJSON, toml, written, reloadPending, mishaps>>
        /\ pc[p] = "reload" /\ live' = Readable /\ Return(p, FALSE)
    BY DEF Reload
  <1>3. Sound(p) /\ mishaps \cap {"overlap", "crash"} = {} => Agree(live, Eligible(db))'
    BY <1>2 DEF Sound, Private, Agree, Readable
  <1>4. Sound(p) /\ mishaps \subseteq {"restart", "unrestored"} => Hold(Eligible(db))'
    BY <1>2 DEF Sound, Private, Stored, Hold, Agree, Readable
  <1>5. CASE Finish(p)
    <2>1. Sound(p) /\ mishaps' \subseteq {"failed", "unrestored"}
              => (reloadPending \/ Agree(live, Eligible(db)))'
      BY <1>2, <1>3
    <2>2. QED
      BY <1>2, <1>4, <1>5, <2>1, FinishStep
  <1>6. CASE UNCHANGED job /\ pc' = [pc EXCEPT ![p] = "recalc"]
    <2>1. pc'[p] = "recalc" /\ \A q \in Procs \ {p} : pc'[q] = pc[q] /\ job'[q] = job[q]
      BY <1>1, <1>6 DEF TypeOK
    <2>2. Controlled(p)'
      BY <2>1 DEF Controlled, Working, Applying
    <2>3. Sound(p) => Sound(p)'
      BY <1>2, <1>3, <1>4, <2>1
         DEF Sound, Private, Served, Stored, OnRequest, Working, Resting, Applying
    <2>4. QED
      BY <1>2, <2>1, <2>2, <2>3, WorkStep
  <1>7. CASE /\ job[p].why # "request"
             /\ pc' = [pc EXCEPT ![p] = "record"]
             /\ job' = [job EXCEPT ![p].err = FALSE]
    <2>1. /\ pc'[p] = "record" /\ job'[p].why = job[p].why
          /\ \A q \in Procs \ {p} : pc'[q] = pc[q] /\ job'[q] = job[q]
      BY <1>1, <1>7 DEF TypeOK, Job
    <2>2. Controlled(p)'
      BY <1>7, <2>1 DEF Controlled, Working, Applying
    <2>3. Sound(p) => Sound(p)'
      BY <1>2, <1>3, <1>4, <2>1
         DEF Sound, Private, Served, Stored, OnRequest, Working, Resting, Applying
    <2>4. QED
      BY <1>2, <2>1, <2>2, <2>3, WorkStep
  <1>8. QED
    BY <1>2, <1>5, <1>6, <1>7 DEF Return

LEMMA ApplyFailsStep ==
    ASSUME Inductive, TypeOK', NEW p \in Procs, ApplyFails(p)
    PROVE  Inductive'
  <1>1. TypeOK /\ Controlled(p)
    BY DEF Inductive
  <1>2. /\ UNCHANGED <<db, usersJSON, toml, written, reloadPending, lost, stray>>
        /\ pc[p] \in Applying /\ pc[p] # "idle" /\ Return(p, TRUE)
        /\ mishaps \subseteq mishaps'
    BY DEF ApplyFails, Applying
  <1>3. ~(mishaps' \subseteq {"restart", "unrestored"})
        /\ (mishaps' \subseteq {"failed", "unrestored"} => live' = live)
        /\ (mishaps' \cap {"overlap", "crash"} = mishaps \cap {"overlap", "crash"})
    BY DEF ApplyFails
  <1>4. CASE job[p].why = "request" /\ job[p].undo = {} /\ Finish(p)
    <2>1. ASSUME Sound(p), mishaps' \subseteq {"failed", "unrestored"}
          PROVE  (reloadPending \/ Agree(live, Eligible(db)))'
      <3>1. Undoable(job[p]) /\ (reloadPending \/ Agree(live, Eligible(job[p].snap)))
        BY <1>2, <1>4, <2>1 DEF Sound, Private, Served, OnRequest
      <3>2. Agree(Eligible(db), Eligible(job[p].snap))
        <4>1. job[p] \in Job
          BY <1>1 DEF TypeOK
        <4>2. QED
          BY <1>1, <1>4, <3>1, <4>1, UndoneEligible
      <3>3. QED
        BY <1>2, <1>3, <2>1, <3>1, <3>2 DEF Agree
    <2>2. QED
      BY <1>2, <1>3, <1>4, <2>1, FinishStep
  <1>5. CASE job[p].why = "request" /\ UNCHANGED job /\ pc' = [pc EXCEPT ![p] = "rollback"]
    <2>1. pc'[p] = "rollback" /\ \A q \in Procs \ {p} : pc'[q] = pc[q] /\ job'[q] = job[q]
      BY <1>1, <1>5 DEF TypeOK
    <2>2. Controlled(p)'
      BY <1>5, <2>1 DEF Controlled, Working, Applying
    <2>3. Undoable(job[p]) => Undoable(job[p])'
      BY <1>2, <1>5 DEF Undoable, AsFound
    <2>4. Sound(p) => Sound(p)'
      <3>1. Private(p) => Private(p)'
        BY <1>2, <1>5, <2>1, <2>3 DEF Private, OnRequest, Working, Applying
      <3>2. Served(p) /\ live' = live => Served(p)'
        BY <1>2, <1>5, <2>1 DEF Served, OnRequest, Working, Resting, Agree
      <3>3. QED
        BY <1>2, <1>3, <3>1, <3>2 DEF Sound
    <2>5. QED
      BY <1>2, <2>1, <2>2, <2>4, WorkStep
  <1>6. CASE /\ job[p].why # "request"
             /\ pc' = [pc EXCEPT ![p] = "record"]
             /\ job' = [job EXCEPT ![p].err = TRUE]
    <2>1. /\ pc'[p] = "record" /\ job'[p].why = job[p].why /\ job'[p].err
          /\ \A q \in Procs \ {p} : pc'[q] = pc[q] /\ job'[q] = job[q]
      BY <1>1, <1>6 DEF TypeOK, Job
    <2>2. Controlled(p)'
      BY <1>6, <2>1 DEF Controlled, Working, Applying
    <2>3. Sound(p)'
      BY <1>3, <2>1
         DEF Sound, Private, Served, Stored, OnRequest, Working, Resting, Applying
    <2>4. QED
      BY <1>2, <2>1, <2>2, <2>3, WorkStep
  <1>7. QED
    BY <1>2, <1>4, <1>5, <1>6 DEF Return
-----------------------------------------------------------------------------
(* The steps of the quota service. *)

LEMMA TickBeginsStep ==
    ASSUME Inductive, TypeOK', TickBegins
    PROVE  Inductive'
  <1>1. TypeOK /\ Ticker \in Procs
    BY DEF Inductive, Procs
  <1>2. /\ pc[Ticker] = "idle" /\ pc'[Ticker] = "next"
        /\ \A q \in Procs \ {Ticker} : pc'[q] = pc[q] /\ job'[q] = job[q]
        /\ UNCHANGED <<db, usersJSON, toml, written, live, reloadPending, lost, stray>>
    BY <1>1 DEF TickBegins, Goto, TypeOK
  <1>3. mishaps \subseteq mishaps' /\ ("overlap" \notin mishaps' => mishaps' = mishaps)
    BY DEF TickBegins, NoteStart
  <1>4. "overlap" \notin mishaps' => OnlyActive(Ticker)
    BY DEF TickBegins, NoteStart, Quiet, OnlyActive
  <1>5. Controlled(Ticker)'
    BY <1>2 DEF Controlled, Working, Applying
  <1>6. OnlyActive(Ticker) => Sound(Ticker)'
    <2>1. OnlyActive(Ticker) => Sound(Ticker)
      BY <1>1 DEF Inductive
    <2>2. QED
      BY <1>2, <1>3, <2>1
         DEF Sound, Private, Served, Stored, OnRequest, Working, Resting, Applying, Hold, Agree
  <1>7. QED
    BY <1>1, <1>2, <1>3, <1>4, <1>5, <1>6, StepOfOne

LEMMA TickNextStep ==
    ASSUME Inductive, TypeOK', TickNext
    PROVE  Inductive'
  <1>1. TypeOK /\ Ticker \in Procs
    BY DEF Inductive, Procs
  <1>2. /\ pc[Ticker] = "next" /\ pc'[Ticker] \in {"idle", "rollover"}
        /\ \A q \in Procs \ {Ticker} : pc'[q] = pc[q] /\ job'[q] = job[q]
        /\ UNCHANGED <<db, usersJSON, toml, written, live, reloadPending, mishaps, lost, stray>>
    BY <1>1 DEF TickNext, Goto, TypeOK
  <1>3. Controlled(Ticker)'
    BY <1>2 DEF Controlled, Working, Applying
  <1>4. Sound(Ticker) => Sound(Ticker)'
    BY <1>2
       DEF Sound, Private, Served, Stored, OnRequest, Working, Resting, Applying, Hold, Agree
  <1>5. QED
    BY <1>1, <1>2, <1>3, <1>4, WorkStep

LEMMA RolloverStep ==
    ASSUME Inductive, TypeOK', RolloverIfDue
    PROVE  Inductive'
  <1> DEFINE u == job[Ticker].user
  <1>1. TypeOK /\ Ticker \in Procs /\ u \in Users
    BY DEF Inductive, Procs, TypeOK, Job
  <1>2. /\ pc[Ticker] = "rollover"
        /\ UNCHANGED <<usersJSON, toml, written, live, reloadPending, mishaps, lost, stray>>
    BY DEF RolloverIfDue
  <1>3. CASE Finish(Ticker) /\ UNCHANGED db
    <2>1. Sound(Ticker) /\ mishaps' \subseteq {"failed", "unrestored"}
              => (reloadPending \/ Agree(live, Eligible(db)))'
      BY <1>2, <1>3 DEF Sound, Served, Resting, Agree
    <2>2. Sound(Ticker) /\ mishaps' \subseteq {"restart", "unrestored"} => Hold(Eligible(db))'
      BY <1>2, <1>3 DEF Sound, Stored, Resting, Hold, Agree
    <2>3. QED
      BY <1>1, <1>2, <1>3, <2>1, <2>2, FinishStep
  <1>4. CASE UNCHANGED <<db, job>> /\ pc' = [pc EXCEPT ![Ticker] = "recalc"]
    <2>1. /\ pc'[Ticker] = "recalc"
          /\ \A q \in Procs \ {Ticker} : pc'[q] = pc[q] /\ job'[q] = job[q]
      BY <1>1, <1>4 DEF TypeOK
    <2>2. Controlled(Ticker)'
      BY <2>1 DEF Controlled, Working, Applying
    <2>3. Sound(Ticker) => Sound(Ticker)'
      BY <1>2, <1>4, <2>1
         DEF Sound, Private, Served, Stored, OnRequest, Working, Resting, Applying, Hold, Agree
    <2>4. QED
      BY <1>1, <1>2, <2>1, <2>2, <2>3, WorkStep
  <1>5. CASE /\ pc' = [pc EXCEPT ![Ticker] = "list"]
             /\ job' = [job EXCEPT ![Ticker].why = "rollover"]
    <2>1. /\ pc'[Ticker] = "list" /\ job'[Ticker].why = "rollover"
          /\ \A q \in Procs \ {Ticker} : pc'[q] = pc[q] /\ job'[q] = job[q]
      BY <1>1, <1>5 DEF TypeOK, Job
    <2>2. Controlled(Ticker)'
      BY <2>1 DEF Controlled, Working, Applying
    <2>3. Sound(Ticker)'
      BY <2>1 DEF Sound, Private, Served, Stored, OnRequest, Working, Resting, Applying
    <2>4. QED
      BY <1>1, <1>2, <2>1, <2>2, <2>3, WorkStep
  <1>6. ~db[u].suspended => [db EXCEPT ![u].suspended = FALSE] = db
    <2> SUFFICES ASSUME ~db[u].suspended PROVE [db EXCEPT ![u].suspended = FALSE] = db
      OBVIOUS
    <2>1. db[u] \in Row /\ db \in [Users -> Row]
      BY <1>1 DEF TypeOK
    <2>2. ASSUME NEW row \in Row, ~row.suspended
          PROVE  [row EXCEPT !.suspended = FALSE] = row
      BY <2>2 DEF Row
    <2>3. QED
      BY <2>1, <2>2
  <1>7. QED
    BY <1>3, <1>4, <1>5, <1>6 DEF RolloverIfDue

LEMMA RecalculateStep ==
    ASSUME Inductive, TypeOK', NEW p \in Procs, Recalculate(p)
    PROVE  Inductive'
  <1>1. TypeOK
    BY DEF Inductive
  <1>2. /\ pc[p] = "recalc"
        /\ UNCHANGED <<usersJSON, toml, written, live, reloadPending, mishaps, lost, stray>>
    BY DEF Recalculate
  <1>3. CASE Finish(p) /\ UNCHANGED db
    <2>1. Sound(p) /\ mishaps' \subseteq {"failed", "unrestored"}
              => (reloadPending \/ Agree(live, Eligible(db)))'
      BY <1>2, <1>3 DEF Sound, Served, Resting, Agree
    <2>2. Sound(p) /\ mishaps' \subseteq {"restart", "unrestored"} => Hold(Eligible(db))'
      BY <1>2, <1>3 DEF Sound, Stored, Resting, Hold, Agree
    <2>3. QED
      BY <1>2, <1>3, <2>1, <2>2, FinishStep
  <1>4. CASE /\ pc' = [pc EXCEPT ![p] = "list"]
             /\ job' = [job EXCEPT ![p].why = "recalc"]
    <2>1. /\ pc'[p] = "list" /\ job'[p].why = "recalc"
          /\ \A q \in Procs \ {p} : pc'[q] = pc[q] /\ job'[q] = job[q]
      BY <1>1, <1>4 DEF TypeOK, Job
    <2>2. Controlled(p)'
      BY <2>1 DEF Controlled, Working, Applying
    <2>3. Sound(p)'
      BY <2>1 DEF Sound, Private, Served, Stored, OnRequest, Working, Resting, Applying
    <2>4. QED
      BY <1>2, <2>1, <2>2, <2>3, WorkStep
  <1>5. QED
    BY <1>3, <1>4 DEF Recalculate

LEMMA RecordReloadStep ==
    ASSUME Inductive, TypeOK', NEW p \in Procs, RecordReload(p)
    PROVE  Inductive'
  <1>1. TypeOK
    BY DEF Inductive
  <1>2. /\ pc[p] = "record" /\ reloadPending' = job[p].err
        /\ UNCHANGED <<db, usersJSON, toml, written, live, mishaps, lost, stray>>
    BY DEF RecordReload
  <1>3. Sound(p) /\ mishaps' \subseteq {"failed", "unrestored"}
              => (reloadPending \/ Agree(live, Eligible(db)))'
    BY <1>2 DEF Sound, Served, Agree
  <1>4. Sound(p) /\ mishaps' \subseteq {"restart", "unrestored"} => Hold(Eligible(db))'
    BY <1>2 DEF Sound, Stored, Hold, Agree
  <1>5. CASE Finish(p)
    BY <1>2, <1>3, <1>4, <1>5, FinishStep
  <1>6. CASE UNCHANGED job /\ pc' = [pc EXCEPT ![p] = "recalc"]
    <2>1. pc'[p] = "recalc" /\ \A q \in Procs \ {p} : pc'[q] = pc[q] /\ job'[q] = job[q]
      BY <1>1, <1>6 DEF TypeOK
    <2>2. Controlled(p)'
      BY <2>1 DEF Controlled, Working, Applying
    <2>3. Sound(p) => Sound(p)'
      BY <1>2, <1>3, <1>4, <2>1
         DEF Sound, Private, Served, Stored, OnRequest, Working, Resting, Applying
    <2>4. QED
      BY <1>2, <2>1, <2>2, <2>3, WorkStep
  <1>7. QED
    BY <1>5, <1>6 DEF RecordReload

-----------------------------------------------------------------------------
(* The environment. *)

LEMMA UnchangedStep ==
    ASSUME Inductive, TypeOK',
           UNCHANGED <<db, usersJSON, toml, written, live, reloadPending, pc, job, mishaps, lost, stray>>
    PROVE  Inductive'
  <1>1. Alone'
    BY DEF Inductive, Alone
  <1>2. ASSUME NEW p \in Procs PROVE Controlled(p)' /\ (OnlyActive(p)' => Sound(p)')
    <2>1. Controlled(p) /\ (OnlyActive(p) => Sound(p))
      BY DEF Inductive
    <2>2. Controlled(p)' /\ (OnlyActive(p)' => OnlyActive(p))
      BY <2>1 DEF Controlled, OnlyActive
    <2>3. Undoable(job[p]) => Undoable(job[p])'
      BY DEF Undoable, AsFound
    <2>4. Untouched(job[p]) => Untouched(job[p])'
      BY DEF Untouched, IsLive
    <2>5. Sound(p) => Sound(p)'
      BY <2>3, <2>4 DEF Sound, Private, Served, Stored, OnRequest, Hold, Agree
    <2>6. QED
      BY <2>1, <2>2, <2>5
  <1>3. QED
    BY <1>1, <1>2 DEF Inductive

LEMMA RestartStep ==
    ASSUME Inductive, TypeOK', TeleproxyRestarts
    PROVE  Inductive'
  <1>1. UNCHANGED <<db, usersJSON, toml, written, reloadPending, pc, job, lost, stray>>
        /\ live' = Readable
    BY DEF TeleproxyRestarts
  <1>2. CASE live = Readable
    BY <1>1, <1>2, UnchangedStep DEF TeleproxyRestarts
  <1>3. CASE live # Readable
    <2>1. mishaps' = mishaps \cup {"restart"}
      BY <1>3 DEF TeleproxyRestarts
    <2>2. Alone'
      BY <1>1, <2>1 DEF Inductive, Alone
    <2>3. ASSUME NEW p \in Procs PROVE Controlled(p)' /\ (OnlyActive(p)' => Sound(p)')
      <3>1. Controlled(p) /\ (OnlyActive(p) => Sound(p))
        BY DEF Inductive
      <3>2. Controlled(p)' /\ (OnlyActive(p)' => OnlyActive(p))
        BY <1>1, <3>1 DEF Controlled, OnlyActive
      <3>3. Undoable(job[p]) => Undoable(job[p])'
        BY <1>1 DEF Undoable, AsFound
      <3>4. Untouched(job[p]) => Untouched(job[p])'
        BY <1>1 DEF Untouched, IsLive
      <3>5. Private(p) => Private(p)'
        BY <1>1, <3>3, <3>4 DEF Private, OnRequest
      <3>6. Stored(p) => Stored(p)'
        BY <1>1, <1>3 DEF Stored, Hold, Agree, Readable
      <3>7. Sound(p) => Sound(p)'
        BY <2>1, <3>5, <3>6 DEF Sound
      <3>8. QED
        BY <3>1, <3>2, <3>7
    <2>4. QED
      BY <2>2, <2>3 DEF Inductive
  <1>4. QED
    BY <1>2, <1>3

LEMMA CrashStep ==
    ASSUME Inductive, TypeOK', PanelCrashes
    PROVE  Inductive'
  <1>1. \A p \in Procs : pc'[p] = "idle"
    BY DEF PanelCrashes
  <1>2. "crash" \in mishaps'
    BY DEF PanelCrashes
  <1>3. Alone'
    BY <1>1 DEF Alone
  <1>4. ASSUME NEW p \in Procs PROVE Controlled(p)' /\ Sound(p)'
    BY <1>1, <1>2 DEF Controlled, Sound, Working, Applying
  <1>5. QED
    BY <1>3, <1>4 DEF Inductive

-----------------------------------------------------------------------------
(* The theorems. *)

LEMMA InitInductive == Init => Inductive
  <1> SUFFICES ASSUME Init PROVE Inductive
    OBVIOUS
  <1>1. TypeOK
    BY InitType
  <1>2. (\A p \in Procs : pc[p] = "idle") /\ Hold(Eligible(db))
    BY DEF Init, Hold, Agree
  <1>3. Alone
    BY <1>2 DEF Alone
  <1>4. ASSUME NEW p \in Procs PROVE Controlled(p) /\ Sound(p)
    BY <1>2 DEF Controlled, Sound, Private, Served, Stored, OnRequest, Working, Resting,
                Applying, Hold
  <1>5. QED
    BY <1>1, <1>3, <1>4 DEF Inductive

LEMMA NextInductive == ~StaleForms /\ Inductive /\ [Next]_vars => Inductive'
  <1> SUFFICES ASSUME ~StaleForms, Inductive, [Next]_vars PROVE Inductive'
    OBVIOUS
  <1>1. TypeOK'
    BY NextType DEF Inductive
  <1>2. CASE UNCHANGED vars
    BY <1>1, <1>2, UnchangedStep DEF vars
  <1>3. CASE Environment
    <2>1. CASE \E u \in Users : QuotaReached(u) \/ PeriodEnds(u)
      BY <1>1, <2>1, UnchangedStep DEF QuotaReached, PeriodEnds
    <2>2. QED
      BY <1>1, <1>3, <2>1, RestartStep, CrashStep DEF Environment
  <1>4. CASE Tick
    BY <1>1, <1>4, TickBeginsStep, TickNextStep, RolloverStep DEF Tick
  <1>5. CASE \E r \in Requests :
                \/ Arrive(r) \/ Handle(r)
                \/ \E u \in Users : MutateFails(r, u) \/ RollbackFails(r, u)
    BY <1>1, <1>5, ArriveStep, CheckLimitStep, InsertStep, MutateStep, RollbackStep,
       MutateFailsStep DEF Handle
  <1>6. CASE \E p \in Procs : Apply(p) \/ ApplyFails(p) \/ Recalculate(p) \/ RecordReload(p)
    BY <1>1, <1>6, ListStep, WriteStep, ReloadStep, ApplyFailsStep, RecalculateStep,
       RecordReloadStep DEF Apply
  <1>7. QED
    BY <1>2, <1>3, <1>4, <1>5, <1>6 DEF Next

LEMMA AlwaysInductive == ASSUME ~StaleForms PROVE Spec => []Inductive
  BY InitInductive, NextInductive, PTL DEF Spec

\* When nothing is under way the ticker alone is sound.
LEMMA QuietSound ==
    ASSUME Inductive, Quiet
    PROVE  Sound(Ticker) /\ pc[Ticker] = "idle"
  BY DEF Inductive, Quiet, OnlyActive, Procs

\* Once every request and tick is over and none has overlapped, Teleproxy serves what
\* the database admits, however many applies failed and were undone.
THEOREM LiveInSyncHolds == ASSUME ~StaleForms PROVE Spec => []LiveInSync
  <1>1. Inductive => LiveInSync
    BY QuietSound DEF LiveInSync, Sound, Served, Resting
  <1>2. QED
    BY <1>1, AlwaysInductive, PTL

\* If no apply failed either, the files hold it as well.
THEOREM DiskInSyncHolds == ASSUME ~StaleForms PROVE Spec => []DiskInSync
  <1>1. Inductive => DiskInSync
    <2> SUFFICES ASSUME Inductive, Quiet, mishaps \subseteq {"restart", "unrestored"}
                 PROVE  Hold(Eligible(db))
      BY DEF DiskInSync, Hold
    <2>1. QED
      BY QuietSound DEF Sound, Stored, Resting
  <1>2. QED
    BY <1>1, AlwaysInductive, PTL

\* Only a rollback of its own takes a handler out of the rollback, short of a crash.
LEMMA LeavesRollback ==
    ASSUME TypeOK, [Next]_vars, NEW r \in Requests,
           pc[r] = "rollback", pc'[r] = "idle", "crash" \notin mishaps'
    PROVE  \E u \in Users : Rollback(r, u) \/ RollbackFails(r, u)
  <1> SUFFICES ASSUME ~ \E u \in Users : Rollback(r, u) \/ RollbackFails(r, u) PROVE FALSE
    OBVIOUS
  <1>1. r \in Procs /\ r # Ticker /\ pc \in [Procs -> PC] /\ Ticker \in Procs
    BY ConstantsAssumption DEF Procs, TypeOK
  <1>2. CASE UNCHANGED vars
    BY <1>2 DEF vars
  <1>3. CASE Environment
    BY <1>3 DEF Environment, QuotaReached, PeriodEnds, TeleproxyRestarts, PanelCrashes
  <1>4. CASE Tick
    BY <1>1, <1>4 DEF Tick, TickBegins, TickNext, RolloverIfDue, Goto, Finish
  <1>5. ASSUME NEW p \in Procs,
               Apply(p) \/ ApplyFails(p) \/ Recalculate(p) \/ RecordReload(p)
        PROVE  FALSE
    <2>1. p # r
      BY <1>5 DEF Apply, List, WriteUsersJSON, TruncateTOML, WriteTOML, Reload, ApplyFails, Applying,
                  Recalculate, RecordReload, Goto
    <2>2. CASE Apply(p) \/ ApplyFails(p)
      BY <1>1, <2>1, <2>2
         DEF Apply, List, WriteUsersJSON, TruncateTOML, WriteTOML, Reload, ApplyFails, Return, Goto, Finish
    <2>3. CASE Recalculate(p) \/ RecordReload(p)
      BY <1>1, <2>1, <2>3 DEF Recalculate, RecordReload, Finish
    <2>4. QED
      BY <1>5, <2>2, <2>3
  <1>6. ASSUME NEW s \in Requests,
               \/ Arrive(s) \/ Handle(s)
               \/ \E u \in Users : MutateFails(s, u) \/ RollbackFails(s, u)
        PROVE  FALSE
    <2>1. s \in Procs
      BY DEF Procs
    <2>2. CASE Arrive(s)
      BY <1>1, <2>1, <2>2 DEF Arrive, BeginSingle, BeginBulk, BeginCreate, Begin, Goto
    <2>3. CASE CheckLimit(s) \/ Insert(s)
      BY <1>1, <2>1, <2>3 DEF CheckLimit, Insert, Refused, Goto, Finish
    <2>4. CASE \E u \in Users : Mutate(s, u) \/ MutateFails(s, u)
      BY <1>1, <2>1, <2>4 DEF Mutate, MutateFails, Goto, Finish
    <2>5. CASE \E u \in Users : Rollback(s, u) \/ RollbackFails(s, u)
      <3>1. s # r
        BY <2>5
      <3>2. QED
        BY <1>1, <2>1, <2>5, <3>1 DEF Rollback, RollbackFails, NextRow, Finish
    <2>6. QED
      BY <1>6, <2>2, <2>3, <2>4, <2>5 DEF Handle
  <1>7. QED
    BY <1>2, <1>3, <1>4, <1>5, <1>6 DEF Next

\* A handler that ran alone and rolled back left the rows as it found them.
THEOREM RollbackExactHolds == ASSUME ~StaleForms PROVE Spec => RollbackExact
  <1>1. Inductive /\ [Next]_vars => \A r \in Requests : RolledBack(r)
    <2> SUFFICES ASSUME Inductive, [Next]_vars, NEW r \in Requests,
                        pc[r] = "rollback", pc'[r] = "idle",
                        mishaps' \cap {"overlap", "crash"} = {}
                 PROVE  \A u \in Users : u \in lost' \/ AsFound(job[r], u, db'[u])
      BY DEF RolledBack, AsFound
    <2>1. PICK w \in Users : Rollback(r, w) \/ RollbackFails(r, w)
      BY LeavesRollback DEF Inductive
    <2>2. mishaps \subseteq mishaps' /\ r \in Procs
      BY <2>1 DEF Rollback, RollbackFails, Procs
    <2>3. OnlyActive(r)
      BY <2>2, AloneAtWork
    <2>4. TypeOK'
      BY NextType DEF Inductive
    <2>5. QED
      BY <2>1, <2>3, <2>4, RollbackStep
  <1>2. QED
    BY <1>1, AlwaysInductive, PTL DEF Spec, RollbackExact

-----------------------------------------------------------------------------
(* Requests that overlap. *)

\* The points of an apply where it holds the entries it has listed.
Sending == {"users_json", "toml", "toml_write", "reload"}

Joined(entries) == (\E list \in past : list \subseteq entries) /\ entries \subseteq UNION past

\* Whatever interleaves, what an apply holds and what it has written is one value the
\* table has had, or nothing; what two of them have written is made of such values.
Published ==
    /\ past \subseteq SUBSET Entry /\ Eligible(db) \in past
    /\ written = "whole" => toml \in past \cup {{}}
    /\ written # "whole" => Joined(toml)
    /\ \A p \in Procs : pc[p] \in Sending => job[p].rendered \in past

\* Until two have been at work at once, nobody finds what another has written.
Undisturbed ==
    /\ Alone
    /\ "overlap" \notin mishaps =>
          written = "whole" /\ \A p \in Procs : pc[p] = "toml_write" => toml = {}

\* A step of p that is not one of an apply which goes on.
Holding(p) ==
    \A q \in Procs :
        /\ q # p => pc'[q] = pc[q]
        /\ pc'[q] \in Sending => pc'[q] = pc[q] /\ job'[q].rendered = job[q].rendered

LEMMA NotSending ==
    ASSUME TypeOK, NEW p \in Procs, NEW to \in PC \ Sending, pc' = [pc EXCEPT ![p] = to],
           \A q \in Procs \ {p} : job'[q] = job[q]
    PROVE  Holding(p)
  BY DEF Holding, TypeOK, Sending

LEMMA FinishHolds == ASSUME TypeOK, NEW p \in Procs, Finish(p) PROVE Holding(p)
  <1>1. \A q \in Procs \ {p} : job'[q] = job[q]
    BY DEF Finish, TypeOK
  <1>2. \E to \in {"next", "idle"} : pc' = [pc EXCEPT ![p] = to]
    BY DEF Finish
  <1>3. {"next", "idle"} \subseteq PC \ Sending
    BY DEF PC, Sending
  <1>4. QED
    BY <1>1, <1>2, <1>3, NotSending

LEMMA ReturnHolds ==
    ASSUME TypeOK, NEW p \in Procs, NEW failed, Return(p, failed) PROVE Holding(p)
  <1>1. CASE Finish(p)
    BY <1>1, FinishHolds
  <1>2. CASE UNCHANGED job /\ \E to \in {"rollback", "recalc"} : pc' = [pc EXCEPT ![p] = to]
    BY <1>2, NotSending DEF PC, Sending
  <1>3. CASE pc' = [pc EXCEPT ![p] = "record"] /\ job' = [job EXCEPT ![p].err = failed]
    BY <1>3, NotSending DEF PC, Sending, TypeOK
  <1>4. QED
    BY <1>1, <1>2, <1>3 DEF Return

LEMMA ArriveHolds == ASSUME TypeOK, NEW r \in Requests, Arrive(r) PROVE Holding(r)
  <1>1. ASSUME NEW o, NEW to \in PC \ Sending, NEW j, Begin(r, o, to, j) PROVE Holding(r)
    BY <1>1, NotSending DEF Begin, Goto, TypeOK
  <1>2. {"list", "mutate", "count"} \subseteq PC \ Sending
    BY DEF PC, Sending
  <1>3. CASE \E o \in SingleOps, u \in Users : BeginSingle(r, o, u)
    BY <1>1, <1>2, <1>3 DEF BeginSingle
  <1>4. CASE \E o \in BulkOps, ids \in (SUBSET Users) \ {{}} : BeginBulk(r, o, ids)
    <2>1. PICK o \in BulkOps, ids \in (SUBSET Users) \ {{}} : BeginBulk(r, o, ids)
      BY <1>4
    <2>2. \E to \in {"list", "mutate"} : \E j : Begin(r, o, to, j)
      BY <2>1 DEF BeginBulk
    <2>3. QED
      BY <1>1, <1>2, <2>2
  <1>5. CASE \E u \in Users : BeginCreate(r, u)
    BY <1>1, <1>2, <1>5 DEF BeginCreate
  <1>6. QED
    BY <1>3, <1>4, <1>5 DEF Arrive

LEMMA HandleHolds ==
    ASSUME TypeOK, NEW r \in Requests,
           \/ Handle(r)
           \/ \E u \in Users : MutateFails(r, u) \/ RollbackFails(r, u)
    PROVE  Holding(r)
  <1>1. {"list", "mutate", "insert", "rollback"} \subseteq PC \ Sending
    BY DEF PC, Sending
  <1>2. CASE CheckLimit(r)
    <2>1. CASE Finish(r)
      BY <2>1, FinishHolds
    <2>2. CASE Goto(r, "count", "insert") /\ UNCHANGED job
      BY <1>1, <2>2, NotSending DEF Goto
    <2>3. QED
      BY <1>2, <2>1, <2>2 DEF CheckLimit
  <1>3. CASE Insert(r)
    <2>1. CASE Finish(r)
      BY <2>1, FinishHolds
    <2>2. CASE Goto(r, "insert", "list") /\ job' = [job EXCEPT ![r].undo = {job[r].user}]
      BY <1>1, <2>2, NotSending DEF Goto, TypeOK
    <2>3. QED
      BY <1>3, <2>1, <2>2 DEF Insert
  <1>4. CASE \E u \in Users : Mutate(r, u)
    <2>1. PICK u \in Users : Mutate(r, u)
      BY <1>4
    <2>2. \E to \in {"list", "mutate"} : pc' = [pc EXCEPT ![r] = to]
      BY <2>1 DEF Mutate, Goto
    <2>3. \A q \in Procs \ {r} : job'[q] = job[q]
      BY <2>1 DEF Mutate, TypeOK
    <2>4. QED
      BY <1>1, <2>2, <2>3, NotSending
  <1>5. CASE \E u \in Users : MutateFails(r, u)
    <2>1. PICK u \in Users : MutateFails(r, u)
      BY <1>5
    <2>2. CASE Finish(r)
      BY <2>2, FinishHolds
    <2>3. CASE /\ pc' = [pc EXCEPT ![r] = "rollback"]
               /\ \A q \in Procs \ {r} : job'[q] = job[q]
      BY <1>1, <2>3, NotSending
    <2>4. QED
      BY <2>1, <2>2, <2>3 DEF MutateFails, TypeOK
  <1>6. CASE \E u \in Users : Rollback(r, u) \/ RollbackFails(r, u)
    <2>1. PICK u \in Users : NextRow(r, u)
      BY <1>6 DEF Rollback, RollbackFails
    <2>2. CASE Finish(r)
      BY <2>2, FinishHolds
    <2>3. CASE UNCHANGED pc /\ job' = [job EXCEPT ![r].undo = @ \ {u}]
      BY <2>3 DEF Holding, TypeOK, Job
    <2>4. QED
      BY <2>1, <2>2, <2>3 DEF NextRow
  <1>7. QED
    BY <1>2, <1>3, <1>4, <1>5, <1>6 DEF Handle

LEMMA TickHolds == ASSUME TypeOK, Tick PROVE Holding(Ticker)
  <1>1. {"list", "next", "rollover", "idle", "recalc"} \subseteq PC \ Sending
    BY DEF PC, Sending
  <1>2. CASE TickBegins \/ TickNext
    <2>1. \E to \in {"next", "rollover", "idle"} : pc' = [pc EXCEPT ![Ticker] = to]
      BY <1>2 DEF TickBegins, TickNext, Goto
    <2>2. \A q \in Procs \ {Ticker} : job'[q] = job[q]
      BY <1>2 DEF TickBegins, TickNext, TypeOK
    <2>3. QED
      BY <1>1, <2>1, <2>2, NotSending
  <1>3. CASE RolloverIfDue
    <2>1. CASE Finish(Ticker)
      BY <2>1, FinishHolds
    <2>2. CASE /\ \E to \in {"list", "recalc"} : pc' = [pc EXCEPT ![Ticker] = to]
               /\ \A q \in Procs \ {Ticker} : job'[q] = job[q]
      BY <1>1, <2>2, NotSending
    <2>3. QED
      BY <1>3, <2>1, <2>2 DEF RolloverIfDue, TypeOK
  <1>4. QED
    BY <1>2, <1>3 DEF Tick

LEMMA QuotaHolds ==
    ASSUME TypeOK, NEW p \in Procs, Recalculate(p) \/ RecordReload(p) PROVE Holding(p)
  <1>1. CASE Finish(p)
    BY <1>1, FinishHolds
  <1>2. CASE /\ \E to \in {"list", "recalc"} : pc' = [pc EXCEPT ![p] = to]
             /\ \A q \in Procs \ {p} : job'[q] = job[q]
    BY <1>2, NotSending DEF PC, Sending
  <1>3. QED
    BY <1>1, <1>2 DEF Recalculate, RecordReload, TypeOK

\* What the history has to show after a step that does not list.
LEMMA PublishedAfter ==
    ASSUME TypeOK', Published, past' = past \cup {Eligible(db')},
           written' = "whole" => toml' \in past \cup {{}},
           written' # "whole" => Joined(toml'),
           \A q \in Procs : pc'[q] \in Sending => job'[q].rendered \in past
    PROVE  Published'
  <1>1. Eligible(db') \in SUBSET Entry /\ Eligible(db)' = Eligible(db')
    BY EligibleType DEF TypeOK, Eligible
  <1>2. Joined(toml') => Joined(toml)'
    BY DEF Joined
  <1>3. QED
    BY <1>1, <1>2 DEF Published

LEMMA HeldAfter ==
    ASSUME TypeOK', Published, past' = past \cup {Eligible(db')}, NEW p \in Procs, Holding(p),
           UNCHANGED <<toml, written>>
    PROVE  Published'
  <1>1. \A q \in Procs : pc'[q] \in Sending => job'[q].rendered \in past
    BY DEF Holding, Published
  <1>2. QED
    BY <1>1, PublishedAfter DEF Published

\* A list written over whatever the file held.
LEMMA WritePublishes ==
    ASSUME TypeOK, Published, NEW p \in Procs, WriteTOML(p)
    PROVE  /\ written' = "whole" => toml' \in past \cup {{}}
           /\ written' # "whole" => Joined(toml')
  <1> DEFINE list == job[p].rendered
  <1>1. list \in past
    BY DEF WriteTOML, Goto, Published, Sending
  <1>2. toml \subseteq UNION past
    BY DEF Published, Joined
  <1>3. CASE toml' = list /\ written' = "whole"
    BY <1>1, <1>3
  <1>4. ASSUME NEW rest \in SUBSET toml, toml' = list \cup rest,
               written' \in {"joined", "torn"}
        PROVE  written' # "whole" /\ Joined(toml')
    BY <1>1, <1>2, <1>4 DEF Joined
  <1>5. QED
    BY <1>3, <1>4 DEF WriteTOML

LEMMA ApplyPublishes ==
    ASSUME TypeOK, TypeOK', Published, past' = past \cup {Eligible(db')}, NEW p \in Procs,
           Apply(p) \/ ApplyFails(p)
    PROVE  Published'
  <1>1. CASE List(p)
    <2>1. \A q \in Procs \ {p} : pc'[q] = pc[q] /\ job'[q] = job[q]
      BY <1>1 DEF List, Goto, TypeOK
    <2>2. job'[p].rendered = Eligible(db)
      BY <1>1 DEF List, TypeOK, Job
    <2>3. \A q \in Procs : pc'[q] \in Sending => job'[q].rendered \in past
      BY <2>1, <2>2 DEF Published
    <2>4. UNCHANGED <<toml, written>>
      BY <1>1 DEF List
    <2>5. QED
      BY <2>3, <2>4, PublishedAfter DEF Published
  <1>2. CASE WriteUsersJSON(p) \/ TruncateTOML(p) \/ WriteTOML(p)
    <2>1. pc[p] \in Sending /\ job' = job
          /\ \A q \in Procs \ {p} : pc'[q] = pc[q]
      BY <1>2 DEF WriteUsersJSON, TruncateTOML, WriteTOML, Goto, Sending, TypeOK
    <2>2. \A q \in Procs : pc'[q] \in Sending => job'[q].rendered \in past
      BY <2>1 DEF Published
    <2>3. CASE WriteUsersJSON(p)
      BY <2>2, <2>3, PublishedAfter DEF WriteUsersJSON, Published
    <2>4. CASE TruncateTOML(p)
      BY <2>2, <2>4, PublishedAfter DEF TruncateTOML
    <2>5. CASE WriteTOML(p)
      BY <2>2, <2>5, WritePublishes, PublishedAfter
    <2>6. QED
      BY <1>2, <2>3, <2>4, <2>5
  <1>3. CASE Reload(p) \/ ApplyFails(p)
    <2>1. Holding(p)
      BY <1>3, ReturnHolds DEF Reload, ApplyFails
    <2>2. UNCHANGED <<toml, written>>
      BY <1>3 DEF Reload, ApplyFails
    <2>3. QED
      BY <2>1, <2>2, HeldAfter
  <1>4. QED
    BY <1>1, <1>2, <1>3 DEF Apply

LEMMA EnvironmentPublishes ==
    ASSUME TypeOK, TypeOK', Published, past' = past \cup {Eligible(db')}, Environment
    PROVE  Published'
  <1>1. UNCHANGED <<toml, written>>
    BY DEF Environment, QuotaReached, PeriodEnds, TeleproxyRestarts, PanelCrashes
  <1>2. \A q \in Procs : pc'[q] \in Sending => job'[q].rendered \in past
    <2>1. CASE PanelCrashes
      BY <2>1 DEF PanelCrashes, Sending
    <2>2. CASE UNCHANGED <<pc, job>>
      BY <2>2 DEF Published
    <2>3. QED
      BY <2>1, <2>2 DEF Environment, QuotaReached, PeriodEnds, TeleproxyRestarts
  <1>3. QED
    BY <1>1, <1>2, PublishedAfter DEF Published

\* The steps that neither write the file nor make Teleproxy read it.
Aside ==
    \/ \E r \in Requests :
          \/ Arrive(r) \/ Handle(r)
          \/ \E u \in Users : MutateFails(r, u) \/ RollbackFails(r, u)
    \/ Tick
    \/ \E p \in Procs : Recalculate(p) \/ RecordReload(p)

\* One process takes them.  It was at work, or it starts and notes whether it is alone.
LEMMA AsideHolds ==
    ASSUME TypeOK, Aside
    PROVE  /\ UNCHANGED <<toml, written, live>> /\ mishaps \subseteq mishaps'
           /\ \/ "overlap" \in mishaps' <=> "overlap" \in mishaps
              \/ UNCHANGED db /\ "overlap" \in mishaps'
           /\ \E p \in Procs :
                 /\ Holding(p)
                 /\ pc[p] = "idle" /\ "overlap" \notin mishaps' => OnlyActive(p)
  <1>1. ASSUME NEW r \in Requests, Arrive(r)
        PROVE  /\ UNCHANGED <<db, toml, written, live>> /\ mishaps \subseteq mishaps'
               /\ "overlap" \notin mishaps' => OnlyActive(r)
    BY <1>1 DEF Arrive, BeginSingle, BeginBulk, BeginCreate, Begin, NoteStart, Quiet, OnlyActive
  <1>2. ASSUME NEW r \in Requests,
               \/ Handle(r)
               \/ \E u \in Users : MutateFails(r, u) \/ RollbackFails(r, u)
        PROVE  /\ UNCHANGED <<toml, written, live>> /\ pc[r] # "idle"
               /\ mishaps \subseteq mishaps' /\ mishaps' \subseteq mishaps \cup {"unrestored"}
    BY <1>2 DEF Handle, CheckLimit, Insert, Refused, Mutate, MutateFails, Rollback, RollbackFails,
                NextRow, Goto
  <1>3. CASE TickBegins
    <2>1. /\ UNCHANGED <<db, toml, written, live>> /\ mishaps \subseteq mishaps'
          /\ "overlap" \notin mishaps' => OnlyActive(Ticker)
      BY <1>3 DEF TickBegins, NoteStart, Quiet, OnlyActive
    <2>2. QED
      BY <1>3, <2>1, TickHolds DEF Tick
  <1>4. CASE TickNext \/ RolloverIfDue
    <2>1. UNCHANGED <<toml, written, live, mishaps>> /\ pc[Ticker] # "idle"
      BY <1>4 DEF TickNext, RolloverIfDue, Goto
    <2>2. QED
      BY <1>4, <2>1, TickHolds DEF Tick
  <1>5. ASSUME NEW p \in Procs, Recalculate(p) \/ RecordReload(p)
        PROVE  UNCHANGED <<toml, written, live, mishaps>> /\ pc[p] # "idle"
    BY <1>5 DEF Recalculate, RecordReload
  <1>6. CASE \E r \in Requests : Arrive(r)
    <2>1. PICK r \in Requests : Arrive(r)
      BY <1>6
    <2>2. Holding(r)
      BY <2>1, ArriveHolds
    <2>3. QED
      BY <1>1, <2>1, <2>2
  <1>7. CASE \E r \in Requests :
                \/ Handle(r)
                \/ \E u \in Users : MutateFails(r, u) \/ RollbackFails(r, u)
    <2>1. PICK r \in Requests :
                \/ Handle(r)
                \/ \E u \in Users : MutateFails(r, u) \/ RollbackFails(r, u)
      BY <1>7
    <2>2. Holding(r)
      BY <2>1, HandleHolds
    <2>3. QED
      BY <1>2, <2>1, <2>2
  <1>8. CASE \E p \in Procs : Recalculate(p) \/ RecordReload(p)
    <2>1. PICK p \in Procs : Recalculate(p) \/ RecordReload(p)
      BY <1>8
    <2>2. Holding(p)
      BY <2>1, QuotaHolds
    <2>3. QED
      BY <1>5, <2>1, <2>2
  <1>9. QED
    BY <1>3, <1>4, <1>6, <1>7, <1>8 DEF Aside, Tick

LEMMA NextKinds ==
    ASSUME Next
    PROVE  Aside \/ Environment \/ \E p \in Procs : Apply(p) \/ ApplyFails(p)
  BY DEF Next, Aside

LEMMA NextPublishes == ASSUME TypeOK, TypeOK', Published, HNext PROVE Published'
  <1>1. Next /\ past' = past \cup {Eligible(db')}
    BY DEF HNext
  <1>2. CASE Aside
    BY <1>1, <1>2, AsideHolds, HeldAfter
  <1>3. CASE \E p \in Procs : Apply(p) \/ ApplyFails(p)
    BY <1>1, <1>3, ApplyPublishes
  <1>4. CASE Environment
    BY <1>1, <1>4, EnvironmentPublishes
  <1>5. QED
    BY <1>1, <1>2, <1>3, <1>4, NextKinds

LEMMA UndisturbedAfter ==
    ASSUME Undisturbed, NEW p \in Procs, Holding(p), UNCHANGED <<toml, written>>,
           mishaps \subseteq mishaps',
           pc[p] = "idle" /\ "overlap" \notin mishaps' => OnlyActive(p)
    PROVE  Undisturbed'
  <1>1. Alone'
    BY DEF Undisturbed, Alone, Holding, OnlyActive
  <1>2. ASSUME "overlap" \notin mishaps', NEW q \in Procs, pc'[q] = "toml_write"
        PROVE  toml' = {}
    BY <1>2 DEF Undisturbed, Holding, Sending
  <1>3. QED
    BY <1>1, <1>2 DEF Undisturbed

LEMMA ApplyUndisturbed ==
    ASSUME TypeOK, Undisturbed, NEW p \in Procs, Apply(p) \/ ApplyFails(p)
    PROVE  Undisturbed'
  <1>1. pc[p] \in Applying /\ pc[p] # "idle" /\ mishaps \subseteq mishaps'
    BY DEF Apply, List, WriteUsersJSON, TruncateTOML, WriteTOML, Reload, ApplyFails, Goto,
           Applying
  <1>2. CASE Reload(p) \/ ApplyFails(p)
    <2>1. Holding(p)
      BY <1>2, ReturnHolds DEF Reload, ApplyFails
    <2>2. UNCHANGED <<toml, written>>
      BY <1>2 DEF Reload, ApplyFails
    <2>3. QED
      BY <1>1, <2>1, <2>2, UndisturbedAfter
  <1>3. CASE List(p) \/ WriteUsersJSON(p) \/ TruncateTOML(p) \/ WriteTOML(p)
    <2>1. /\ \A q \in Procs \ {p} : pc'[q] = pc[q]
          /\ pc'[p] = "toml_write" => TruncateTOML(p)
          /\ mishaps' = mishaps
      BY <1>3 DEF List, WriteUsersJSON, TruncateTOML, WriteTOML, Goto, TypeOK
    <2>2. Alone'
      BY <1>1, <2>1 DEF Undisturbed, Alone
    <2>3. "overlap" \notin mishaps => \A q \in Procs \ {p} : pc[q] = "idle"
      BY <1>1 DEF Undisturbed, Alone
    <2>4. "overlap" \notin mishaps => written' = "whole"
      BY <1>3 DEF Undisturbed, List, WriteUsersJSON, TruncateTOML, WriteTOML, Goto
    <2>5. ASSUME "overlap" \notin mishaps', NEW q \in Procs, pc'[q] = "toml_write"
          PROVE  toml' = {}
      BY <2>1, <2>3, <2>5 DEF TruncateTOML
    <2>6. QED
      BY <2>1, <2>2, <2>4, <2>5 DEF Undisturbed
  <1>4. QED
    BY <1>2, <1>3 DEF Apply

LEMMA NextUndisturbed == ASSUME TypeOK, Undisturbed, Next PROVE Undisturbed'
  <1>1. CASE Aside
    BY <1>1, AsideHolds, UndisturbedAfter
  <1>2. CASE \E p \in Procs : Apply(p) \/ ApplyFails(p)
    BY <1>2, ApplyUndisturbed
  <1>3. CASE PanelCrashes
    BY <1>3 DEF PanelCrashes, Undisturbed, Alone
  <1>4. CASE \/ \E u \in Users : QuotaReached(u) \/ PeriodEnds(u)
             \/ TeleproxyRestarts
    <2>1. UNCHANGED <<pc, toml, written>> /\ mishaps \subseteq mishaps'
      BY <1>4 DEF QuotaReached, PeriodEnds, TeleproxyRestarts
    <2>2. QED
      BY <2>1 DEF Undisturbed, Alone
  <1>5. QED
    BY <1>1, <1>2, <1>3, <1>4, NextKinds DEF Environment

\* A step commits, records an overlap, writes the file or makes Teleproxy read it.
LEMMA CommitsWritesOrServes ==
    ASSUME TypeOK, Next
    PROVE  \/ /\ UNCHANGED <<written, live>>
              /\ "overlap" \in mishaps' <=> "overlap" \in mishaps
           \/ UNCHANGED <<db, written, live>> /\ "overlap" \in mishaps'
           \/ UNCHANGED <<db, live, mishaps>>
           \/ /\ UNCHANGED <<db, written>> /\ live' = Readable
              /\ "overlap" \in mishaps' <=> "overlap" \in mishaps
  <1>1. CASE Aside
    BY <1>1, AsideHolds
  <1>2. CASE \E p \in Procs : Apply(p)
    BY <1>2 DEF Apply, List, WriteUsersJSON, TruncateTOML, WriteTOML, Reload
  <1>3. CASE \E p \in Procs : ApplyFails(p)
    BY <1>3 DEF ApplyFails
  <1>4. CASE Environment
    BY <1>4 DEF Environment, QuotaReached, PeriodEnds, TeleproxyRestarts, PanelCrashes
  <1>5. QED
    BY <1>1, <1>2, <1>3, <1>4, NextKinds

LEMMA StepReplicates ==
    ASSUME TypeOK, TypeOK', Published, Undisturbed', HNext PROVE Replica!Next
  <1>1. Next /\ past' = past \cup {Eligible(db')} /\ Eligible(db)' = Eligible(db')
    BY DEF HNext, Eligible
  <1>2. Eligible(db') \in SUBSET Entry
    BY EligibleType DEF TypeOK
  <1>3. db' = db => Eligible(db)' = Eligible(db) /\ past' = past
    BY <1>1 DEF Published
  <1>4. CASE /\ UNCHANGED <<written, live>>
             /\ "overlap" \in mishaps' <=> "overlap" \in mishaps
    <2>1. (written # "whole")' = (written # "whole")
      BY <1>4
    <2>2. ("overlap" \in mishaps)' = ("overlap" \in mishaps)
      BY <1>4
    <2>3. QED
      BY <1>1, <1>2, <1>4, <2>1, <2>2 DEF Replica!Next, Replica!Commit
  <1>5. CASE UNCHANGED <<db, written, live>> /\ "overlap" \in mishaps'
    BY <1>3, <1>5 DEF Replica!Next, Replica!Overlap
  <1>6. CASE UNCHANGED <<db, live, mishaps>>
    BY <1>3, <1>6 DEF Replica!Next, Replica!WriteConfig, Undisturbed
  <1>7. CASE /\ UNCHANGED <<db, written>> /\ live' = Readable
             /\ "overlap" \in mishaps' <=> "overlap" \in mishaps
    <2>1. \/ live' \in past \cup {{}}
          \/ written # "whole" /\ Joined(live')
      BY <1>7 DEF Published, Readable
    <2>2. (written # "whole")' = (written # "whole")
      BY <1>7
    <2>3. ("overlap" \in mishaps)' = ("overlap" \in mishaps)
      BY <1>7
    <2>4. QED
      BY <1>3, <1>7, <2>1, <2>2, <2>3 DEF Replica!Next, Replica!Publish, Replica!Joined, Joined
  <1>8. QED
    BY <1>1, <1>4, <1>5, <1>6, <1>7, CommitsWritesOrServes

LEMMA InitReplicates ==
    ASSUME HInit PROVE TypeOK /\ Published /\ Undisturbed /\ Replica!Init
  <1>1. TypeOK
    BY InitType DEF HInit
  <1>2. Eligible(db) \in SUBSET Entry
    BY <1>1, EligibleType DEF TypeOK
  <1>3. past = {Eligible(db)} /\ toml = Eligible(db) /\ live = Eligible(db)
        /\ written = "whole" /\ mishaps = {} /\ \A p \in Procs : pc[p] = "idle"
    BY DEF HInit, Init
  <1>4. QED
    BY <1>1, <1>2, <1>3 DEF Published, Undisturbed, Alone, Sending, Replica!Init

\* However requests and ticks interleave, fail and crash, and for any users: what
\* Teleproxy serves is what the table admitted at one moment, or nobody; once two of them
\* have been at work at once it may be one such list joined with parts of others.
THEOREM ImplementsReplicaHolds == HSpec => ImplementsReplica
  <1>1. HInit => TypeOK /\ Published /\ Undisturbed /\ Replica!Init
    BY InitReplicates
  <1>2. TypeOK /\ Published /\ Undisturbed /\ [HNext]_<<vars, past>>
          => TypeOK' /\ Published' /\ Undisturbed'
    <2>1. SUFFICES ASSUME TypeOK, Published, Undisturbed, [HNext]_<<vars, past>>
                   PROVE  TypeOK' /\ Published' /\ Undisturbed'
      OBVIOUS
    <2>2. TypeOK'
      BY <2>1, NextType DEF HNext
    <2>3. CASE HNext
      BY <2>1, <2>2, <2>3, NextPublishes, NextUndisturbed DEF HNext
    <2>4. CASE UNCHANGED <<vars, past>>
      <3>1. UNCHANGED <<db, toml, written, pc, job, mishaps, past>>
        BY <2>4 DEF vars
      <3>2. Eligible(db)' = Eligible(db)
        BY <3>1 DEF Eligible
      <3>3. \A p \in Procs : pc'[p] = pc[p] /\ job'[p] = job[p]
        BY <3>1
      <3>4. Published'
        BY <2>1, <3>1, <3>2, <3>3 DEF Published, Joined
      <3>5. Undisturbed'
        BY <2>1, <3>1 DEF Undisturbed, Alone
      <3>6. QED
        BY <2>2, <3>4, <3>5
    <2>5. QED
      BY <2>1, <2>2, <2>3, <2>4
  <1>3. TypeOK /\ TypeOK' /\ Published /\ Undisturbed' /\ [HNext]_<<vars, past>>
          => [Replica!Next]_Replica!vars
    <2>1. SUFFICES ASSUME TypeOK, TypeOK', Published, Undisturbed', [HNext]_<<vars, past>>
                   PROVE  [Replica!Next]_Replica!vars
      OBVIOUS
    <2>2. CASE HNext
      BY <2>1, <2>2, StepReplicates
    <2>3. CASE UNCHANGED <<vars, past>>
      BY <2>3 DEF vars, Replica!vars, Eligible
    <2>4. QED
      BY <2>1, <2>2, <2>3
  <1>4. QED
    BY <1>1, <1>2, <1>3, PTL DEF HSpec, ImplementsReplica, Replica!Spec
=============================================================================
