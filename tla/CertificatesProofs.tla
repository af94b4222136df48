------------------------- MODULE CertificatesProofs -------------------------
(***************************************************************************)
(* Theorems about Certificates, for every number of requests, length of    *)
(* the calendar and kinds of mishaps.                                      *)
(*                                                                         *)
(* The properties speak of what has been written and served; what makes    *)
(* them inductive is what each process at work still owes.  Undisturbed:   *)
(* as long as nothing has overlapped, been cut off or failed to be         *)
(* written, the files hold the newest pair but for a process between the   *)
(* two writes.  Governed: a manual certificate and automatic renewal       *)
(* exclude each other but for an upload between its two statements.        *)
(* Paid: every turn of the loop that has left nginx with a certificate     *)
(* that is due has cost a mishap, or has healed the setup.                 *)
(***************************************************************************)
EXTENDS Certificates, SequenceTheorems, TLAPS

At == {"idle", "heal", "panel", "nginx", "order", "cert", "key", "reload", "manual", "auto"}

\* What process p may be at, and what for, when there are n pairs.
Fits(p, a, j, n) ==
    /\ a \in {"heal", "panel", "nginx"} => p = Loop
    /\ a \in {"idle", "heal", "panel", "nginx"} => j = NoJob
    /\ a = "order" => j.op = IF p = Loop THEN "loop" ELSE "hand"
    /\ a \in {"cert", "key"} =>
          /\ j.op \in IF p = Loop THEN {"loop"} ELSE {"hand", "upload"}
          /\ j.pair \in 1..n
    /\ a = "manual" => p # Loop /\ j.op \in {"upload", "clear"}
    /\ a = "auto" => p # Loop /\ j.op \in {"upload", "clear", "on", "off"}

ProcTypes ==
    /\ at \in [Procs -> At] /\ job \in [Procs -> Job]
    /\ \A p \in Procs : Fits(p, at[p], job[p], Len(pairs))

StateTypes ==
    /\ day \in 0..MaxDay /\ ticked \in BOOLEAN
    /\ pairs \in Seq(Pair)
    /\ certFile \in 0..Len(pairs) /\ keyFile \in 0..Len(pairs) /\ served \in 1..Len(pairs)
    /\ manual \in BOOLEAN /\ auto \in BOOLEAN /\ pending \in BOOLEAN
    /\ snippet \in BOOLEAN /\ webroot \in BOOLEAN
    /\ onSince \in 0..day
    /\ mishaps \subseteq Faults /\ count \in 0..MaxMishaps
    /\ requests \in 0..MaxRequests

WellTyped == ProcTypes /\ StateTypes

\* The reconcile that the loop has started goes on, or ends.
ReconcileStep ==
    ReconcileSnippet \/ ReconcilePanel \/ Reconciled \/ ReconcileFails \/ ReconcileStops

\* At most one process is at work.
Alone == \A p, q \in Active : p = q

-----------------------------------------------------------------------------
\* Who made the pair that a process writes.
Maker(op) == IF op = "upload" THEN "manual" ELSE op

\* The newest pair is due.
LastDue == NeedsRenewal(Len(pairs))

Writing(p) ==
    CASE at[p] = "cert" -> certFile = Len(pairs) - 1 /\ keyFile = Len(pairs) - 1
      [] at[p] = "key" -> certFile = Len(pairs) /\ keyFile = Len(pairs) - 1
      [] OTHER -> certFile = Len(pairs) /\ keyFile = Len(pairs)

\* What a process at work knows of the pairs, by where it is.
Knows(p) ==
    /\ at[p] \in {"cert", "key"} =>
          job[p].pair = Len(pairs) /\ pairs[Len(pairs)].by = Maker(job[p].op)
    /\ at[p] = "order" /\ p = Loop => LastDue
    /\ at[p] = "manual" /\ job[p].op = "upload" => pairs[Len(pairs)].by = "manual"

NotReissued ==
    \A i \in 2..Len(pairs) :
        pairs[i].by = "loop" /\ pairs[i - 1].by # "manual" =>
            pairs[i].until > pairs[i - 1].until + Life - RenewDays

\* The files hold the newest pair, but for a process between its two writes.
Settled ==
    /\ Active = {} => certFile = Len(pairs) /\ keyFile = Len(pairs)
    /\ \A p \in Active : Writing(p) /\ Knows(p)
    /\ NotReissued

Undisturbed ==
    "overlap" \notin mishaps =>
        Alone /\ (mishaps \cap {"write", "restart"} = {} => Settled)

-----------------------------------------------------------------------------
\* The settings exclude each other, but for an upload between its two statements.
Exclusive ==
    /\ manual /\ auto => \E r \in Requests : at[r] = "auto" /\ job[r].op = "upload"
    /\ \A r \in Requests : at[r] = "auto" /\ job[r].op \in {"clear", "on"} => ~manual
    /\ at[Loop] \in {"order", "cert", "key"} => ~manual
    /\ manual => pairs[certFile].by # "loop"

Governed ==
    mishaps \cap {"database", "overlap", "old form", "write", "restart"} = {} => Exclusive

-----------------------------------------------------------------------------
\* Nothing has gone wrong but what the loop makes up for.
Minor == mishaps \subseteq {"order", "reload", "heal"}

\* The mishaps so far, and the turn that healed the setup.
Spent == count + IF webroot THEN 1 ELSE 0

\* A process is about to hand nginx another pair than the one it has.
Changing(p) ==
    \/ at[p] \in {"cert", "key", "reload"}
    \/ at[p] \in {"manual", "auto"} /\ job[p].op = "upload"

Quiet == \A p \in Procs : ~Changing(p)

\* The loop has had its turn, and what it counted on is done.
Turned == ticked /\ at[Loop] = "idle" /\ Quiet

Today == IF Turned THEN 0 ELSE 1

\* Either automatic renewal has not had more turns in vain than were paid for, or the
\* certificate in use is as fresh as a turn leaves it, but for the turns that were paid for.
CaughtUp ==
    \/ day <= onSince + Spent + Today
    \/ pairs[served].until + Spent + Today >= day + RenewDays

\* The loop works on a healed setup only, as far as the files of nginx say.
Healed ==
    /\ pending => snippet
    /\ at[Loop] = "heal" => ~snippet
    /\ at[Loop] \in {"panel", "nginx", "order", "cert", "key", "reload"} => snippet
    /\ at[Loop] \in Reconciling => ~pending

\* nginx is as its files say, but for a reconcile that has not restarted it yet.
Wired == webroot = (snippet /\ at[Loop] \notin {"panel", "nginx"})

\* What a process is about to hand nginx while renewal is automatic is fresh.
HandsFresh(p) ==
    /\ at[p] \in {"cert", "key"} /\ job[p].op # "upload" => ~NeedsRenewal(job[p].pair)
    /\ at[p] = "reload" => ~auto \/ ~NeedsRenewal(certFile)

\* nginx has what is on disk, unless a reload is owed.
Handing ==
    /\ ~pending /\ Quiet => served = certFile
    /\ \A p \in Procs : HandsFresh(p)

Paid == Minor => Wired /\ Handing /\ (auto => CaughtUp)

-----------------------------------------------------------------------------
(* Types. *)

LEMMA Numbers ==
    /\ Life \in Nat /\ RenewDays \in Nat /\ 1 <= RenewDays /\ RenewDays <= Life
    /\ MaxMishaps \in Nat /\ MaxRequests \in Nat /\ MaxDay \in Nat
    /\ Loop \in Procs /\ Loop \notin Requests /\ \A p \in Procs : p # Loop => p \in Requests
    /\ \A r \in Requests : r \in Procs /\ r # Loop
  <1>1. Loop \in Procs /\ Loop \notin Requests
    BY CertificatesAssumption DEF Procs
  <1>2. /\ \A p \in Procs : p # Loop => p \in Requests
        /\ \A r \in Requests : r \in Procs /\ r # Loop
    BY <1>1 DEF Procs
  <1>3. Life \in Nat /\ RenewDays \in Nat /\ 1 <= RenewDays /\ RenewDays <= Life
    <2>1. Life \in Nat /\ RenewDays \in 1..Life
      BY CertificatesAssumption
    <2>2. QED
      BY <2>1
  <1>4. QED
    BY <1>1, <1>2, <1>3, CertificatesAssumption

LEMMA Lengths == ASSUME StateTypes PROVE Len(pairs) \in Nat /\ Len(pairs) >= 1
  BY LenProperties DEF StateTypes

\* A process goes on, or ends, and the pairs are no fewer than before.
LEMMA ProcStep ==
    ASSUME ProcTypes, StateTypes, NEW p \in Procs, NEW a \in At, NEW j \in Job,
           at' = [at EXCEPT ![p] = a], job' = [job EXCEPT ![p] = j],
           Len(pairs') \in Nat, Len(pairs') >= Len(pairs), Fits(p, a, j, Len(pairs'))
    PROVE  ProcTypes'
  <1>1. at' \in [Procs -> At] /\ job' \in [Procs -> Job]
    BY DEF ProcTypes
  <1>2. at'[p] = a /\ job'[p] = j
    BY DEF ProcTypes
  <1>3. \A q \in Procs : q # p => at'[q] = at[q] /\ job'[q] = job[q]
    BY DEF ProcTypes
  <1>4. ASSUME NEW q \in Procs, q # p PROVE Fits(q, at'[q], job'[q], Len(pairs'))
    <2>1. Fits(q, at[q], job[q], Len(pairs))
      BY DEF ProcTypes
    <2>2. 1..Len(pairs) \subseteq 1..Len(pairs')
      BY Lengths
    <2>3. QED
      BY <1>3, <1>4, <2>1, <2>2 DEF Fits
  <1>5. QED
    BY <1>1, <1>2, <1>4 DEF ProcTypes

LEMMA EndStep ==
    ASSUME ProcTypes, StateTypes, NEW p \in Procs, Finish(p), UNCHANGED pairs
    PROVE  ProcTypes'
  <1>1. "idle" \in At /\ NoJob \in Job /\ Fits(p, "idle", NoJob, Len(pairs))
    BY DEF At, NoJob, Job, Ops, Fits
  <1>2. Len(pairs') \in Nat /\ Len(pairs') >= Len(pairs) /\ Fits(p, "idle", NoJob, Len(pairs'))
    BY <1>1, Lengths
  <1>3. at' = [at EXCEPT ![p] = "idle"] /\ job' = [job EXCEPT ![p] = NoJob]
    BY DEF Finish
  <1>4. QED
    BY <1>1, <1>2, <1>3, ProcStep

LEMMA GoStep ==
    ASSUME ProcTypes, StateTypes, NEW p \in Procs, NEW a \in At, GoTo(p, a), UNCHANGED pairs,
           Fits(p, a, job[p], Len(pairs))
    PROVE  ProcTypes'
  <1>1. job[p] \in Job /\ job' = [job EXCEPT ![p] = job[p]]
    BY DEF ProcTypes, GoTo
  <1>2. Len(pairs') \in Nat /\ Len(pairs') >= Len(pairs) /\ Fits(p, a, job[p], Len(pairs'))
    BY Lengths
  <1>3. at' = [at EXCEPT ![p] = a]
    BY DEF GoTo
  <1>4. QED
    BY <1>1, <1>2, <1>3, ProcStep

LEMMA RestartStep ==
    ASSUME ProcTypes, NEW next, RestartPanel(next), at[Loop] \in Reconciling => next \in Reconciling
    PROVE  /\ ProcTypes' /\ pending' = FALSE
           /\ \A p \in Procs : p # Loop => at'[p] = "idle"
           /\ at'[Loop] = IF at[Loop] \in Reconciling THEN next ELSE "idle"
  <1>1. "idle" \in At /\ NoJob \in Job /\ Reconciling \subseteq At /\ Loop \in Procs
    BY Numbers DEF At, NoJob, Job, Ops, Reconciling
  <1>2. /\ \A p \in Procs : at'[p] = IF p = Loop /\ at[p] \in Reconciling THEN next ELSE "idle"
        /\ \A p \in Procs : job'[p] = NoJob
        /\ pending' = FALSE
    BY DEF RestartPanel
  <1>3. at' \in [Procs -> At] /\ job' \in [Procs -> Job]
    BY <1>1 DEF RestartPanel
  <1>4. ASSUME NEW p \in Procs PROVE Fits(p, at'[p], job'[p], Len(pairs'))
    BY <1>2 DEF Fits, Reconciling, NoJob
  <1>5. QED
    BY <1>1, <1>2, <1>3, <1>4 DEF ProcTypes

\* What a mishap leaves in the history.
LEMMA Noted ==
    ASSUME StateTypes, NEW kind, Mishap(kind)
    PROVE  /\ mishaps' = mishaps \cup {kind} /\ mishaps' \subseteq Faults
           /\ count' = count + 1 /\ count' \in 0..MaxMishaps
  BY Numbers DEF Mishap, StateTypes

LEMMA Begun ==
    ASSUME StateTypes, NEW p \in Procs, NEW a, NEW j, Begin(p, a, j)
    PROVE  /\ at[p] = "idle" /\ at' = [at EXCEPT ![p] = a] /\ job' = [job EXCEPT ![p] = j]
           /\ mishaps' \subseteq Faults /\ count' \in 0..MaxMishaps
           /\ \/ Active = {} /\ UNCHANGED past
              \/ mishaps' = mishaps \cup {"overlap"} /\ count' = count + 1
  <1>1. CASE Active = {}
    BY <1>1 DEF Begin, past, StateTypes
  <1>2. CASE Active # {}
    BY <1>2, Noted DEF Begin
  <1>3. QED
    BY <1>1, <1>2

\* Another pair is made.
LEMMA Appended ==
    ASSUME StateTypes, NEW pair \in Pair, pairs' = Append(pairs, pair)
    PROVE  /\ pairs' \in Seq(Pair) /\ Len(pairs') = Len(pairs) + 1
           /\ pairs'[Len(pairs')] = pair /\ \A i \in 1..Len(pairs) : pairs'[i] = pairs[i]
           /\ Len(pairs) \in Nat /\ 0..Len(pairs) \subseteq 0..Len(pairs')
           /\ 1..Len(pairs) \subseteq 1..Len(pairs')
  <1>1. pairs \in Seq(Pair) /\ Len(pairs) \in Nat
    BY Lengths DEF StateTypes
  <1>2. /\ Append(pairs, pair) \in Seq(Pair) /\ Len(Append(pairs, pair)) = Len(pairs) + 1
        /\ \A i \in 1..Len(pairs) : Append(pairs, pair)[i] = pairs[i]
        /\ Append(pairs, pair)[Len(pairs) + 1] = pair
    BY <1>1, AppendProperties
  <1>3. QED
    BY <1>1, <1>2

LEMMA OrderTypes == ASSUME WellTyped, NEW p \in Procs, Order(p) PROVE WellTyped'
  <1> DEFINE pair == [by |-> job[p].op, until |-> day + Life]
             j == [op |-> job[p].op, pair |-> Len(pairs) + 1]
  <1>1. ProcTypes /\ StateTypes /\ at[p] = "order" /\ Fits(p, at[p], job[p], Len(pairs))
    BY DEF WellTyped, ProcTypes, Order
  <1>2. job[p].op \in {"loop", "hand"} /\ job[p].op = (IF p = Loop THEN "loop" ELSE "hand")
    BY <1>1 DEF Fits
  <1>3. pair \in Pair
    BY <1>1, <1>2, Numbers DEF Pair, StateTypes
  <1>4. pairs' = Append(pairs, pair) /\ at' = [at EXCEPT ![p] = "cert"] /\ job' = [job EXCEPT ![p] = j]
    BY <1>1 DEF Order, ProcTypes
  <1> HIDE DEF pair
  <1>5. /\ pairs' \in Seq(Pair) /\ Len(pairs') = Len(pairs) + 1 /\ Len(pairs) \in Nat
        /\ 0..Len(pairs) \subseteq 0..Len(pairs') /\ 1..Len(pairs) \subseteq 1..Len(pairs')
    BY <1>1, <1>3, <1>4, Appended
  <1>6. ProcTypes'
    <2>1. "cert" \in At /\ j \in Job
      BY <1>2, <1>5 DEF At, Job, Ops
    <2>2. Fits(p, "cert", j, Len(pairs'))
      BY <1>2, <1>5 DEF Fits
    <2> HIDE DEF j
    <2>3. Len(pairs') \in Nat /\ Len(pairs') >= Len(pairs)
      BY <1>5
    <2>4. QED
      BY <1>1, <1>4, <2>1, <2>2, <2>3, ProcStep
  <1>7. StateTypes'
    BY <1>1, <1>5 DEF Order, StateTypes, files, settings, setup, past
  <1>8. QED
    BY <1>6, <1>7 DEF WellTyped

LEMMA WorkTypes == ASSUME WellTyped, NEW p \in Procs, Work(p) PROVE WellTyped'
  <1>1. /\ ProcTypes /\ StateTypes /\ Fits(p, at[p], job[p], Len(pairs)) /\ job[p] \in Job
        /\ Len(pairs) \in Nat
    BY Lengths DEF WellTyped, ProcTypes
  <1>2. CASE OrderFails(p)
    <2>1. ProcTypes'
      BY <1>1, <1>2, EndStep DEF OrderFails
    <2>2. mishaps' \subseteq Faults /\ count' \in 0..MaxMishaps
      BY <1>1, <1>2, Noted DEF OrderFails, past, StateTypes
    <2>3. StateTypes'
      BY <1>1, <1>2, <2>2 DEF OrderFails, StateTypes, files, settings, setup
    <2>4. QED
      BY <2>1, <2>3 DEF WellTyped
  <1>3. CASE WriteCert(p)
    <2>1. job[p].pair \in 1..Len(pairs) /\ Fits(p, "key", job[p], Len(pairs))
      BY <1>1, <1>3 DEF WriteCert, Fits
    <2>2. ProcTypes'
      BY <1>1, <1>3, <2>1, GoStep DEF WriteCert, At
    <2>3. StateTypes'
      BY <1>1, <1>3, <2>1 DEF WriteCert, StateTypes, settings, setup, past
    <2>4. QED
      BY <2>2, <2>3 DEF WellTyped
  <1>4. CASE WriteKey(p)
    <2> DEFINE next == IF job[p].op = "upload" THEN "manual" ELSE "reload"
    <2>1. job[p].pair \in 1..Len(pairs) /\ Fits(p, next, job[p], Len(pairs))
      BY <1>1, <1>4 DEF WriteKey, Fits
    <2>2. next \in At /\ GoTo(p, next) /\ UNCHANGED pairs
      BY <1>4 DEF WriteKey, At
    <2> HIDE DEF next
    <2>3. ProcTypes'
      BY <1>1, <2>1, <2>2, GoStep
    <2>4. StateTypes'
      BY <1>1, <1>4, <2>1 DEF WriteKey, StateTypes, settings, setup, past
    <2>5. QED
      BY <2>3, <2>4 DEF WellTyped
  <1>5. CASE WriteFails(p)
    <2>1. ProcTypes'
      BY <1>1, <1>5, EndStep DEF WriteFails
    <2>2. mishaps' \subseteq Faults /\ count' \in 0..MaxMishaps
      BY <1>1, <1>5, Noted DEF WriteFails
    <2>3. certFile' \in 0..Len(pairs) /\ keyFile' \in 0..Len(pairs)
      BY <1>1, <1>5 DEF WriteFails, StateTypes, Torn
    <2>4. StateTypes'
      BY <1>1, <1>5, <2>2, <2>3 DEF WriteFails, StateTypes, settings, setup
    <2>5. QED
      BY <2>1, <2>4 DEF WellTyped
  <1>6. CASE Reload(p)
    <2>1. ProcTypes'
      BY <1>1, <1>6, EndStep DEF Reload
    <2>2. served' \in 1..Len(pairs) /\ pending' \in BOOLEAN
      <3>1. pending' \in BOOLEAN
        BY <1>1, <1>6 DEF Reload, Remember, StateTypes
      <3>2. certFile \in 0..Len(pairs) /\ served \in 1..Len(pairs)
        BY <1>1 DEF StateTypes
      <3>3. served' = served \/ (served' = certFile /\ certFile # 0)
        <4>1. CASE Loadable
          BY <1>6, <4>1 DEF Reload, Loadable, Loaded, Torn
        <4>2. CASE ~Loadable
          BY <1>6, <4>2 DEF Reload, Remember
        <4>3. QED
          BY <4>1, <4>2
      <3>4. QED
        BY <1>1, <3>1, <3>2, <3>3
    <2>3. webroot' \in BOOLEAN
      BY <1>1, <1>6 DEF Reload, Loaded, StateTypes
    <2>4. StateTypes'
      BY <1>1, <1>6, <2>2, <2>3 DEF Reload, StateTypes, files, settings, past
    <2>5. QED
      BY <2>1, <2>4 DEF WellTyped
  <1>7. CASE ReloadFails(p)
    <2>1. ProcTypes'
      BY <1>1, <1>7, EndStep DEF ReloadFails
    <2>2. mishaps' \subseteq Faults /\ count' \in 0..MaxMishaps
      BY <1>1, <1>7, Noted DEF ReloadFails
    <2>3. pending' \in BOOLEAN
      BY <1>1, <1>7 DEF ReloadFails, Remember, StateTypes
    <2>4. StateTypes'
      BY <1>1, <1>7, <2>2, <2>3 DEF ReloadFails, StateTypes, files, settings, setup
    <2>5. QED
      BY <2>1, <2>4 DEF WellTyped
  <1>8. QED
    BY <1>2, <1>3, <1>4, <1>5, <1>6, <1>7, OrderTypes DEF Work

\* A process begins: nothing but the history and the count of the requests changes.
LEMMA BeginTypes ==
    ASSUME WellTyped, NEW p \in Procs, NEW a \in At, NEW j \in Job, Begin(p, a, j),
           pairs' \in Seq(Pair), Len(pairs') >= Len(pairs), Fits(p, a, j, Len(pairs')),
           ticked' \in BOOLEAN, requests' \in 0..MaxRequests,
           UNCHANGED <<day, files, served, settings, setup, pending>>
    PROVE  WellTyped'
  <1>1. ProcTypes /\ StateTypes
    BY DEF WellTyped
  <1>2. at' = [at EXCEPT ![p] = a] /\ job' = [job EXCEPT ![p] = j]
    BY DEF Begin
  <1>3. mishaps' \subseteq Faults /\ count' \in 0..MaxMishaps
    BY <1>1, Begun
  <1>4. Len(pairs') \in Nat /\ Len(pairs) \in Nat
    BY <1>1, Lengths, LenProperties
  <1>5. ProcTypes'
    BY <1>1, <1>2, <1>4, ProcStep
  <1>6. 0..Len(pairs) \subseteq 0..Len(pairs') /\ 1..Len(pairs) \subseteq 1..Len(pairs')
    BY <1>4
  <1>7. UNCHANGED <<day, certFile, keyFile, served, manual, auto, onSince, snippet, webroot,
                   pending>>
    BY DEF files, settings, setup
  <1>8. StateTypes'
    BY <1>1, <1>3, <1>6, <1>7 DEF StateTypes
  <1>9. QED
    BY <1>5, <1>8 DEF WellTyped

LEMMA LoopTypes ==
    ASSUME WellTyped,
           Rest \/ Heal \/ RetryReload \/ Renew \/ RenewMisread
    PROVE  WellTyped'
  <1>1. /\ ProcTypes /\ StateTypes /\ Loop \in Procs /\ Len(pairs) \in Nat
        /\ pairs \in Seq(Pair) /\ requests \in 0..MaxRequests
    BY Numbers, Lengths DEF WellTyped, StateTypes
  <1>2. CASE Rest
    <2>1. ProcTypes'
      BY <1>1, <1>2 DEF Rest, procs, ProcTypes
    <2>2. StateTypes'
      BY <1>1, <1>2 DEF Rest, files, settings, setup, past, StateTypes
    <2>3. QED
      BY <2>1, <2>2 DEF WellTyped
  <1>3. CASE Heal
    <2>1. "heal" \in At /\ NoJob \in Job /\ Fits(Loop, "heal", NoJob, Len(pairs))
      BY DEF At, NoJob, Job, Ops, Fits
    <2>2. /\ Begin(Loop, "heal", NoJob) /\ ticked' \in BOOLEAN
          /\ UNCHANGED <<day, pairs, files, served, settings, setup, pending, requests>>
      BY <1>3 DEF Heal
    <2>3. Len(pairs') >= Len(pairs) /\ pairs' = pairs /\ requests' = requests
      BY <1>1, <2>2
    <2>4. QED
      BY <1>1, <2>1, <2>2, <2>3, BeginTypes
  <1>4. CASE RetryReload
    <2>1. "reload" \in At /\ NoJob \in Job /\ Fits(Loop, "reload", NoJob, Len(pairs))
      BY DEF At, NoJob, Job, Ops, Fits
    <2>2. /\ Begin(Loop, "reload", NoJob) /\ ticked' \in BOOLEAN
          /\ UNCHANGED <<day, pairs, files, served, settings, setup, pending, requests>>
      BY <1>4 DEF RetryReload
    <2>3. Len(pairs') >= Len(pairs) /\ pairs' = pairs /\ requests' = requests
      BY <1>1, <2>2
    <2>4. QED
      BY <1>1, <2>1, <2>2, <2>3, BeginTypes
  <1>5. "order" \in At /\ [op |-> "loop"] \in Job /\ Fits(Loop, "order", [op |-> "loop"], Len(pairs))
    BY DEF At, Job, Ops, Fits
  <1>6. CASE Renew
    <2>1. /\ Begin(Loop, "order", [op |-> "loop"]) /\ ticked' \in BOOLEAN
          /\ UNCHANGED <<day, pairs, files, served, settings, setup, pending, requests>>
      BY <1>6 DEF Renew
    <2>2. Len(pairs') >= Len(pairs) /\ pairs' = pairs /\ requests' = requests
      BY <1>1, <2>1
    <2>3. QED
      BY <1>1, <1>5, <2>1, <2>2, BeginTypes
  <1>7. CASE RenewMisread
    <2>1. /\ at' = [at EXCEPT ![Loop] = "order"] /\ job' = [job EXCEPT ![Loop] = [op |-> "loop"]]
          /\ ticked' = TRUE
          /\ UNCHANGED <<day, pairs, files, served, settings, setup, pending, requests>>
      BY <1>7 DEF RenewMisread
    <2>2. mishaps' \subseteq Faults /\ count' \in 0..MaxMishaps
      BY <1>1, <1>7, Noted DEF RenewMisread
    <2>3. Len(pairs') \in Nat /\ Len(pairs') >= Len(pairs)
          /\ Fits(Loop, "order", [op |-> "loop"], Len(pairs'))
      BY <1>1, <1>5, <2>1
    <2>4. ProcTypes'
      BY <1>1, <1>5, <2>1, <2>3, ProcStep
    <2>5. StateTypes'
      BY <1>1, <2>1, <2>2 DEF files, settings, setup, StateTypes
    <2>6. QED
      BY <2>4, <2>5 DEF WellTyped
  <1>8. QED
    BY <1>2, <1>3, <1>4, <1>6, <1>7

\* The reconcile that the loop has started, and the panel that it may restart.
LEMMA ReconcileTypes == ASSUME WellTyped, ReconcileStep PROVE WellTyped'
  <1>1. /\ ProcTypes /\ StateTypes /\ Loop \in Procs /\ Fits(Loop, at[Loop], job[Loop], Len(pairs))
    BY Numbers DEF WellTyped, ProcTypes
  <1>2. CASE ReconcileSnippet
    <2>1. Fits(Loop, "panel", job[Loop], Len(pairs)) /\ "panel" \in At
      BY <1>1, <1>2 DEF ReconcileSnippet, Fits, At
    <2>2. ProcTypes'
      BY <1>1, <1>2, <2>1, GoStep DEF ReconcileSnippet
    <2>3. StateTypes'
      BY <1>1, <1>2 DEF ReconcileSnippet, files, settings, past, StateTypes
    <2>4. QED
      BY <2>2, <2>3 DEF WellTyped
  <1>3. CASE ReconcilePanel
    <2>1. ProcTypes' /\ pending' \in BOOLEAN
      <3>1. CASE GoTo(Loop, "nginx") /\ UNCHANGED <<pending, past>>
        <4>1. Fits(Loop, "nginx", job[Loop], Len(pairs)) /\ "nginx" \in At
          BY <1>1, <1>3 DEF ReconcilePanel, Fits, At
        <4>2. QED
          BY <1>1, <1>3, <3>1, <4>1, GoStep DEF ReconcilePanel, StateTypes
      <3>2. CASE RestartPanel("nginx")
        BY <1>1, <3>2, RestartStep DEF Reconciling
      <3>3. QED
        BY <1>3, <3>1, <3>2 DEF ReconcilePanel
    <2>2. mishaps' \subseteq Faults /\ count' \in 0..MaxMishaps
      BY <1>1, <1>3, Noted DEF ReconcilePanel, past, StateTypes
    <2>3. StateTypes'
      BY <1>1, <1>3, <2>1, <2>2 DEF ReconcilePanel, files, settings, setup, StateTypes
    <2>4. QED
      BY <2>1, <2>3 DEF WellTyped
  <1>4. CASE Reconciled
    <2>1. ProcTypes'
      BY <1>1, <1>4, EndStep DEF Reconciled
    <2>2. served' \in 1..Len(pairs) /\ webroot' \in BOOLEAN
      BY <1>1, <1>4, Lengths DEF Reconciled, Loadable, Loaded, Torn, StateTypes
    <2>3. StateTypes'
      BY <1>1, <1>4, <2>2 DEF Reconciled, files, settings, past, StateTypes
    <2>4. QED
      BY <2>1, <2>3 DEF WellTyped
  <1>5. CASE ReconcileFails \/ ReconcileStops
    <2>1. ProcTypes'
      BY <1>1, <1>5, EndStep DEF ReconcileFails, ReconcileStops
    <2>2. mishaps' \subseteq Faults /\ count' \in 0..MaxMishaps
      BY <1>1, <1>5, Noted DEF ReconcileFails, ReconcileStops, past, StateTypes
    <2>3. served' \in 1..Len(pairs) /\ webroot' \in BOOLEAN
      <3>1. \/ UNCHANGED <<served, webroot>>
            \/ certFile # Torn /\ served' = certFile /\ webroot' = snippet
        BY <1>5 DEF ReconcileFails, ReconcileStops, Loadable, Loaded, setup
      <3>2. QED
        BY <1>1, <3>1 DEF StateTypes, Torn
    <2>4. StateTypes'
      BY <1>1, <1>5, <2>2, <2>3
         DEF ReconcileFails, ReconcileStops, files, settings, setup, StateTypes
    <2>5. QED
      BY <2>1, <2>4 DEF WellTyped
  <1>6. QED
    BY <1>2, <1>3, <1>4, <1>5 DEF ReconcileStep

\* Requests that begin.
LEMMA AskTypes ==
    ASSUME WellTyped, NEW r \in Requests,
           RenewByHand(r) \/ Upload(r) \/ ClearManual(r) \/ Configure(r) \/ ConfigureOldForm(r)
    PROVE  WellTyped'
  <1>1. /\ ProcTypes /\ StateTypes /\ Len(pairs) \in Nat /\ pairs \in Seq(Pair)
        /\ r \in Procs /\ r # Loop
    BY Numbers, Lengths DEF WellTyped, StateTypes
  <1>2. ASSUME Ask PROVE requests' \in 0..MaxRequests
    BY <1>1, <1>2, Numbers DEF Ask, StateTypes
  <1>3. \A op \in {"on", "off"} : [op |-> op] \in Job /\ Fits(r, "auto", [op |-> op], Len(pairs))
    BY <1>1 DEF Job, Ops, Fits
  <1>4. "auto" \in At /\ "order" \in At /\ "cert" \in At /\ "manual" \in At
    BY DEF At
  <1>5. CASE RenewByHand(r)
    <2>1. [op |-> "hand"] \in Job /\ Fits(r, "order", [op |-> "hand"], Len(pairs))
      BY <1>1 DEF Job, Ops, Fits
    <2>2. /\ Begin(r, "order", [op |-> "hand"]) /\ Ask /\ pairs' = pairs /\ ticked' = ticked
          /\ UNCHANGED <<day, files, served, settings, setup, pending>>
      BY <1>5 DEF RenewByHand
    <2>3. Len(pairs') >= Len(pairs) /\ ticked' \in BOOLEAN
      BY <1>1, <2>2 DEF StateTypes
    <2>4. QED
      BY <1>1, <1>2, <1>4, <2>1, <2>2, <2>3, BeginTypes
  <1>6. CASE Upload(r)
    <2> DEFINE j == [op |-> "upload", pair |-> Len(pairs) + 1]
    <2>1. PICK pair \in Acceptable : pairs' = Append(pairs, pair)
      BY <1>6 DEF Upload
    <2>2. pair \in Pair
      BY <1>1, Numbers DEF Acceptable, Pair, StateTypes
    <2>3. pairs' \in Seq(Pair) /\ Len(pairs') = Len(pairs) + 1
      BY <1>1, <2>1, <2>2, Appended
    <2>4. j \in Job /\ Fits(r, "cert", j, Len(pairs'))
      BY <1>1, <2>3 DEF Job, Ops, Fits
    <2>5. /\ Begin(r, "cert", j) /\ Ask /\ ticked' = ticked
          /\ UNCHANGED <<day, files, served, settings, setup, pending>>
      BY <1>6 DEF Upload
    <2> HIDE DEF j
    <2>6. Len(pairs') >= Len(pairs) /\ ticked' \in BOOLEAN
      BY <1>1, <2>3, <2>5 DEF StateTypes
    <2>7. QED
      BY <1>1, <1>2, <1>4, <2>3, <2>4, <2>5, <2>6, BeginTypes
  <1>7. CASE ClearManual(r)
    <2>1. [op |-> "clear"] \in Job /\ Fits(r, "manual", [op |-> "clear"], Len(pairs))
      BY <1>1 DEF Job, Ops, Fits
    <2>2. /\ Begin(r, "manual", [op |-> "clear"]) /\ Ask /\ pairs' = pairs /\ ticked' = ticked
          /\ UNCHANGED <<day, files, served, settings, setup, pending>>
      BY <1>7 DEF ClearManual
    <2>3. Len(pairs') >= Len(pairs) /\ ticked' \in BOOLEAN
      BY <1>1, <2>2 DEF StateTypes
    <2>4. QED
      BY <1>1, <1>2, <1>4, <2>1, <2>2, <2>3, BeginTypes
  <1>8. CASE Configure(r)
    <2>1. PICK op \in {"on", "off"} : Begin(r, "auto", [op |-> op])
      BY <1>8 DEF Configure
    <2>2. /\ Ask /\ pairs' = pairs /\ ticked' = ticked
          /\ UNCHANGED <<day, files, served, settings, setup, pending>>
      BY <1>8 DEF Configure
    <2>3. Len(pairs') >= Len(pairs) /\ ticked' \in BOOLEAN
      BY <1>1, <2>2 DEF StateTypes
    <2>4. [op |-> op] \in Job /\ Fits(r, "auto", [op |-> op], Len(pairs'))
      BY <1>3, <2>2
    <2>5. QED
      BY <1>1, <1>2, <1>4, <2>1, <2>2, <2>3, <2>4, BeginTypes
  <1>9. CASE ConfigureOldForm(r)
    <2>1. /\ at' = [at EXCEPT ![r] = "auto"] /\ job' = [job EXCEPT ![r] = [op |-> "on"]] /\ Ask
          /\ UNCHANGED <<day, ticked, pairs, files, served, settings, setup, pending>>
      BY <1>9 DEF ConfigureOldForm
    <2>2. mishaps' \subseteq Faults /\ count' \in 0..MaxMishaps
      BY <1>1, <1>9, Noted DEF ConfigureOldForm
    <2>3. Len(pairs') \in Nat /\ Len(pairs') >= Len(pairs) /\ [op |-> "on"] \in Job
          /\ Fits(r, "auto", [op |-> "on"], Len(pairs'))
      BY <1>1, <1>3, <2>1
    <2>4. ProcTypes'
      BY <1>1, <1>4, <2>1, <2>3, ProcStep
    <2>5. StateTypes'
      BY <1>1, <1>2, <2>1, <2>2 DEF files, settings, setup, StateTypes
    <2>6. QED
      BY <2>4, <2>5 DEF WellTyped
  <1>10. QED
    BY <1>5, <1>6, <1>7, <1>8, <1>9

\* Requests that write the settings.
LEMMA SetTypes ==
    ASSUME WellTyped, NEW r \in Requests, SetManual(r) \/ SetAuto(r) \/ SetFails(r)
    PROVE  WellTyped'
  <1>1. /\ ProcTypes /\ StateTypes /\ r \in Procs /\ r # Loop
        /\ Fits(r, at[r], job[r], Len(pairs))
    BY Numbers DEF WellTyped, ProcTypes
  <1>2. CASE SetManual(r)
    <2>1. Fits(r, "auto", job[r], Len(pairs)) /\ "auto" \in At
      BY <1>1, <1>2 DEF SetManual, Fits, At
    <2>2. ProcTypes'
      BY <1>1, <1>2, <2>1, GoStep DEF SetManual
    <2>3. StateTypes'
      BY <1>1, <1>2 DEF SetManual, files, setup, past, StateTypes
    <2>4. QED
      BY <2>2, <2>3 DEF WellTyped
  <1>3. CASE SetAuto(r)
    <2>1. ProcTypes'
      <3>1. CASE job[r].op = "upload"
        <4>1. GoTo(r, "reload") /\ UNCHANGED pairs /\ "reload" \in At
              /\ Fits(r, "reload", job[r], Len(pairs))
          BY <1>1, <1>3, <3>1 DEF SetAuto, At, Fits
        <4>2. QED
          BY <1>1, <4>1, GoStep
      <3>2. CASE job[r].op # "upload"
        BY <1>1, <1>3, <3>2, EndStep DEF SetAuto
      <3>3. QED
        BY <3>1, <3>2
    <2>2. auto' \in BOOLEAN /\ onSince' \in 0..day
      BY <1>1, <1>3 DEF SetAuto, StateTypes
    <2>3. StateTypes'
      BY <1>1, <1>3, <2>2 DEF SetAuto, files, setup, past, StateTypes
    <2>4. QED
      BY <2>1, <2>3 DEF WellTyped
  <1>4. CASE SetFails(r)
    <2>1. ProcTypes'
      BY <1>1, <1>4, EndStep DEF SetFails
    <2>2. mishaps' \subseteq Faults /\ count' \in 0..MaxMishaps
      BY <1>1, <1>4, Noted DEF SetFails
    <2>3. StateTypes'
      BY <1>1, <1>4, <2>2 DEF SetFails, files, settings, setup, StateTypes
    <2>4. QED
      BY <2>1, <2>3 DEF WellTyped
  <1>5. QED
    BY <1>2, <1>3, <1>4

LEMMA RestTypes == ASSUME WellTyped, Restart \/ DayPasses \/ UNCHANGED vars PROVE WellTyped'
  <1>1. ProcTypes /\ StateTypes
    BY DEF WellTyped
  <1>2. CASE Restart
    <2>1. ProcTypes'
      <3>1. RestartPanel(at[Loop])
        BY <1>2 DEF Restart
      <3>2. QED
        BY <1>1, <3>1, RestartStep
    <2>2. mishaps' \subseteq Faults /\ count' \in 0..MaxMishaps
      BY <1>1, <1>2, Noted DEF Restart
    <2>3. StateTypes'
      BY <1>1, <1>2, <2>2 DEF Restart, RestartPanel, files, settings, setup, StateTypes
    <2>4. QED
      BY <2>1, <2>3 DEF WellTyped
  <1>3. CASE DayPasses
    <2>1. ProcTypes'
      BY <1>1, <1>3 DEF DayPasses, procs, ProcTypes
    <2>2. day' \in 0..MaxDay /\ 0..day \subseteq 0..day'
      BY <1>1, <1>3, Numbers DEF DayPasses, StateTypes
    <2>3. StateTypes'
      BY <1>1, <1>3, <2>2 DEF DayPasses, files, settings, setup, past, StateTypes
    <2>4. QED
      BY <2>1, <2>3 DEF WellTyped
  <1>4. CASE UNCHANGED vars
    <2>1. ProcTypes'
      BY <1>1, <1>4 DEF vars, procs, ProcTypes
    <2>2. StateTypes'
      BY <1>1, <1>4 DEF vars, files, settings, setup, past, StateTypes
    <2>3. QED
      BY <2>1, <2>2 DEF WellTyped
  <1>5. QED
    BY <1>2, <1>3, <1>4

LEMMA InitTypes == Init => WellTyped
  <1> SUFFICES ASSUME Init PROVE WellTyped
    OBVIOUS
  <1>1. pairs = <<[by |-> "loop", until |-> RenewDays]>> /\ RenewDays \in Nat
    BY Numbers DEF Init
  <1>2. pairs \in Seq(Pair) /\ Len(pairs) = 1
    BY <1>1 DEF Pair
  <1>3. ProcTypes
    BY DEF Init, ProcTypes, At, NoJob, Job, Ops, Fits
  <1>4. StateTypes
    <2>1. /\ day = 0 /\ ticked = FALSE /\ certFile = 1 /\ keyFile = 1 /\ served = 1
          /\ manual = FALSE /\ auto = TRUE /\ snippet \in BOOLEAN
          /\ webroot = snippet /\ pending = FALSE /\ onSince = 0 /\ mishaps = {} /\ count = 0
          /\ requests = 0
      BY DEF Init
    <2>2. /\ 0 \in 0..MaxDay /\ 0 \in 0..MaxMishaps /\ 0 \in 0..MaxRequests
          /\ 1 \in 0..Len(pairs) /\ 1 \in 1..Len(pairs)
      BY <1>2, Numbers
    <2>3. onSince \in 0..day /\ mishaps \subseteq Faults
      BY <2>1
    <2>4. /\ ticked \in BOOLEAN /\ manual \in BOOLEAN /\ auto \in BOOLEAN /\ snippet \in BOOLEAN
          /\ webroot \in BOOLEAN /\ pending \in BOOLEAN
      BY <2>1
    <2>5. QED
      BY <1>2, <2>1, <2>2, <2>3, <2>4 DEF StateTypes
  <1>5. QED
    BY <1>3, <1>4 DEF WellTyped

LEMMA StepTypes == WellTyped /\ [Next]_vars => WellTyped'
  <1> SUFFICES ASSUME WellTyped, [Next]_vars PROVE WellTyped'
    OBVIOUS
  <1>1. CASE RenewalLoop
    BY <1>1, LoopTypes, ReconcileTypes, WorkTypes, Numbers DEF RenewalLoop, ReconcileStep
  <1>2. ASSUME NEW r \in Requests, Request(r) PROVE WellTyped'
    <2>1. r \in Procs
      BY Numbers
    <2>2. QED
      BY <1>2, <2>1, AskTypes, SetTypes, WorkTypes DEF Request
  <1>3. QED
    BY <1>1, <1>2, RestTypes DEF Next

LEMMA AlwaysTyped == Spec => []WellTyped
  BY InitTypes, StepTypes, PTL DEF Spec

\* Every variable keeps its type, however renewals, uploads and restarts overlap; in
\* particular both files, and what nginx serves, always are of a pair that was made.
THEOREM TypeCorrect == Spec => []TypeOK
  <1>1. WellTyped => TypeOK
    BY DEF WellTyped, ProcTypes, StateTypes, TypeOK, At, Fits, Reconciling
  <1>2. QED
    BY <1>1, AlwaysTyped, PTL

-----------------------------------------------------------------------------
(* One process at a time. *)

\* The history only grows.
LEMMA Grows == ASSUME WellTyped, [Next]_vars PROVE mishaps \subseteq mishaps'
  <1>1. ASSUME NEW kind, Mishap(kind) PROVE mishaps \subseteq mishaps'
    BY <1>1 DEF Mishap
  <1>2. ASSUME NEW p, NEW a, NEW j, Begin(p, a, j) PROVE mishaps \subseteq mishaps'
    BY <1>1, <1>2 DEF Begin, past
  <1>3. ASSUME UNCHANGED past PROVE mishaps \subseteq mishaps'
    BY <1>3 DEF past
  <1>4. ASSUME NEW p \in Procs, Work(p) PROVE mishaps \subseteq mishaps'
    BY <1>1, <1>3, <1>4 DEF Work, Order, OrderFails, WriteCert, WriteKey, WriteFails, Reload, ReloadFails
  <1>5. CASE RenewalLoop
    BY <1>1, <1>2, <1>3, <1>4, <1>5, Numbers
       DEF RenewalLoop, Rest, Heal, RetryReload, Renew, RenewMisread, ReconcileSnippet, ReconcilePanel,
           Reconciled, ReconcileFails, ReconcileStops
  <1>6. ASSUME NEW r \in Requests, Request(r) PROVE mishaps \subseteq mishaps'
    <2>1. r \in Procs
      BY Numbers
    <2>2. QED
      BY <1>1, <1>2, <1>3, <1>4, <1>6, <2>1
         DEF Request, RenewByHand, Upload, ClearManual, Configure, ConfigureOldForm, SetManual,
             SetAuto, SetFails
  <1>7. QED
    BY <1>1, <1>3, <1>5, <1>6 DEF Next, Restart, DayPasses, vars

\* Where process p is next, and what for.
Moves(p, a, j) ==
    /\ at' = [at EXCEPT ![p] = a] /\ job' = [job EXCEPT ![p] = j]
    /\ at[p] # "idle" \/ Active = {}

LEMMA Moved ==
    ASSUME WellTyped, Alone, NEW p \in Procs, NEW a, NEW j, Moves(p, a, j)
    PROVE  /\ at'[p] = a /\ job'[p] = j /\ Alone'
           /\ Active \subseteq {p} /\ Active' \subseteq {p} /\ (a # "idle" <=> p \in Active')
           /\ at[p] # "idle" <=> p \in Active
           /\ \A q \in Procs : q # p => at'[q] = "idle"
  <1>1. at'[p] = a /\ job'[p] = j /\ \A q \in Procs : q # p => at'[q] = at[q]
    BY DEF WellTyped, ProcTypes, Moves
  <1>2. Active \subseteq {p}
    BY DEF Moves, Alone, Active
  <1>3. Active' \subseteq {p} /\ \A q \in Procs : q # p => at'[q] = "idle"
    BY <1>1, <1>2 DEF Active
  <1>4. QED
    BY <1>1, <1>2, <1>3 DEF Active, Alone

\* A process that begins while none other is at work.
LEMMA BeginMoves ==
    ASSUME WellTyped, NEW p \in Procs, NEW a, NEW j, Begin(p, a, j), "overlap" \notin mishaps'
    PROVE  Moves(p, a, j) /\ Active = {} /\ UNCHANGED past
  BY Begun DEF WellTyped, Moves

LEMMA FinishMoves ==
    ASSUME NEW p \in Procs, Finish(p), at[p] # "idle"
    PROVE  Moves(p, "idle", NoJob)
  BY DEF Finish, Moves

LEMMA GoMoves ==
    ASSUME WellTyped, NEW p \in Procs, NEW a, GoTo(p, a), at[p] # "idle"
    PROVE  Moves(p, a, job[p])
  BY DEF WellTyped, ProcTypes, GoTo, Moves

\* The reconcile moves the loop, and no other process, while the loop alone is at work.
LEMMA ReconcileMoves ==
    ASSUME WellTyped, Alone, ReconcileStep
    PROVE  /\ Loop \in Procs /\ at[Loop] \in {"heal", "panel", "nginx"} /\ Active = {Loop}
           /\ \E a \in {"idle", "panel", "nginx"} : Moves(Loop, a, NoJob)
  <1>1. Loop \in Procs /\ at[Loop] \in {"heal", "panel", "nginx"}
    BY Numbers DEF ReconcileStep, ReconcileSnippet, ReconcilePanel, Reconciled, ReconcileFails,
                   ReconcileStops
  <1>2. Active = {Loop}
    BY <1>1 DEF Alone, Active
  <1>3. at \in [Procs -> At] /\ job \in [Procs -> Job] /\ \A p \in Procs : Fits(p, at[p], job[p], Len(pairs))
    BY DEF WellTyped, ProcTypes
  <1>4. /\ \A p \in Procs : job[p] = NoJob
        /\ \A p \in Procs : p # Loop => at[p] = "idle"
    <2>1. \A p \in Procs : p # Loop => at[p] = "idle"
      BY <1>2 DEF Active
    <2>2. QED
      BY <1>1, <1>3, <2>1 DEF Fits
  <1>5. ASSUME NEW a, GoTo(Loop, a) PROVE Moves(Loop, a, NoJob)
    <2>1. Moves(Loop, a, job[Loop])
      BY <1>1, <1>5, GoMoves
    <2>2. QED
      BY <1>1, <1>4, <2>1
  <1>6. ASSUME RestartPanel("nginx") PROVE Moves(Loop, "nginx", NoJob)
    <2>1. at' = [at EXCEPT ![Loop] = "nginx"]
      BY <1>1, <1>3, <1>4, <1>6 DEF RestartPanel, Reconciling
    <2>2. job' = [job EXCEPT ![Loop] = NoJob]
      BY <1>3, <1>4, <1>6 DEF RestartPanel
    <2>3. QED
      BY <1>1, <2>1, <2>2 DEF Moves
  <1>7. ASSUME Finish(Loop) PROVE Moves(Loop, "idle", NoJob)
    BY <1>1, <1>7, FinishMoves
  <1>8. \/ GoTo(Loop, "panel") \/ GoTo(Loop, "nginx") \/ RestartPanel("nginx") \/ Finish(Loop)
    BY DEF ReconcileStep, ReconcileSnippet, ReconcilePanel, Reconciled, ReconcileFails, ReconcileStops
  <1>9. QED
    BY <1>1, <1>2, <1>5, <1>6, <1>7, <1>8

LEMMA Sole ==
    ASSUME NEW p \in Procs, Active' \subseteq {p}, NotReissued',
           at'[p] = "idle" => certFile' = Len(pairs') /\ keyFile' = Len(pairs'),
           at'[p] # "idle" => Writing(p)' /\ Knows(p)'
    PROVE  Settled'
  BY DEF Settled, Active

\* A step that leaves the pairs and the files as they are, before the writes or after them.
LEMMA Stays ==
    ASSUME WellTyped, Alone, Settled, NEW p \in Procs, NEW a, NEW j, Moves(p, a, j),
           UNCHANGED <<pairs, certFile, keyFile>>,
           at[p] \notin {"cert", "key"}, a \notin {"cert", "key"}, Knows(p)'
    PROVE  Settled'
  <1>1. at'[p] = a /\ Active \subseteq {p} /\ Active' \subseteq {p} /\ (at[p] # "idle" <=> p \in Active)
    BY Moved
  <1>2. certFile = Len(pairs) /\ keyFile = Len(pairs)
    <2>1. CASE p \in Active
      BY <2>1 DEF Settled, Writing
    <2>2. CASE p \notin Active
      BY <1>1, <2>2 DEF Settled
    <2>3. QED
      BY <2>1, <2>2
  <1>3. certFile' = Len(pairs') /\ keyFile' = Len(pairs') /\ NotReissued'
    BY <1>2 DEF Settled, NotReissued
  <1>4. Writing(p)'
    BY <1>1, <1>3 DEF Writing
  <1>5. QED
    BY <1>1, <1>3, <1>4, Sole

\* One more pair: the loop's only after one that was due.
LEMMA OneMore ==
    ASSUME StateTypes, NotReissued, NEW pair \in Pair, pairs' = Append(pairs, pair),
           pair.by = "loop" => /\ pair.until = day + Life
                               /\ pairs[Len(pairs)].until < day + RenewDays
    PROVE  NotReissued'
  <1>1. /\ Len(pairs') = Len(pairs) + 1 /\ Len(pairs) \in Nat /\ pairs'[Len(pairs')] = pair
        /\ \A i \in 1..Len(pairs) : pairs'[i] = pairs[i]
    BY Appended
  <1>2. \A i \in 1..Len(pairs) : pairs[i] \in Pair /\ pairs[i].until \in Nat
    <2>1. \A i \in 1..Len(pairs) : pairs[i] \in Pair
      BY ElementOfSeq DEF StateTypes
    <2>2. QED
      BY <2>1 DEF Pair
  <1>3. day \in Nat /\ pair.until \in Nat /\ Len(pairs) >= 1
    BY Lengths DEF StateTypes, Pair
  <1>4. ASSUME NEW i \in 2..Len(pairs'), pairs'[i].by = "loop", pairs'[i - 1].by # "manual"
        PROVE  pairs'[i].until > pairs'[i - 1].until + Life - RenewDays
    <2>1. CASE i = Len(pairs')
      <3>1. pairs'[i - 1] = pairs[Len(pairs)] /\ pairs'[i] = pair
        BY <1>1, <1>3, <2>1
      <3>2. pairs[Len(pairs)].until \in Nat
        BY <1>2, <1>3
      <3>3. pair.until = day + Life /\ pairs[Len(pairs)].until < day + RenewDays
        BY <1>4, <3>1
      <3>4. QED
        BY <1>3, <3>1, <3>2, <3>3, Numbers
    <2>2. CASE i # Len(pairs')
      <3>1. i \in 2..Len(pairs) /\ i \in 1..Len(pairs) /\ i - 1 \in 1..Len(pairs)
        BY <1>1, <1>4, <2>2
      <3>2. pairs'[i] = pairs[i] /\ pairs'[i - 1] = pairs[i - 1]
        BY <1>1, <3>1
      <3>3. QED
        BY <1>4, <3>1, <3>2 DEF NotReissued
    <2>3. QED
      BY <2>1, <2>2
  <1>5. QED
    BY <1>4 DEF NotReissued

LEMMA OrderSettled ==
    ASSUME WellTyped, Alone, NEW p \in Procs, Order(p)
    PROVE  Alone' /\ (Settled => Settled')
  <1> DEFINE pair == [by |-> job[p].op, until |-> day + Life]
             j == [op |-> job[p].op, pair |-> Len(pairs) + 1]
  <1>1. /\ StateTypes /\ at[p] = "order" /\ job[p].op = IF p = Loop THEN "loop" ELSE "hand"
    BY DEF WellTyped, ProcTypes, Fits, Order
  <1>2. pair \in Pair
    BY <1>1, Numbers DEF Pair, StateTypes
  <1>3. pairs' = Append(pairs, pair) /\ Moves(p, "cert", j) /\ UNCHANGED <<day, certFile, keyFile>>
    BY <1>1 DEF Order, Moves, WellTyped, ProcTypes, files, setup
  <1>4. pair.by = job[p].op /\ pair.until = day + Life /\ j.op = job[p].op /\ j.pair = Len(pairs) + 1
    OBVIOUS
  <1> HIDE DEF pair, j
  <1>5. /\ at'[p] = "cert" /\ job'[p] = j /\ Alone' /\ Active' \subseteq {p} /\ p \in Active
    BY <1>1, <1>3, Moved
  <1>6. Len(pairs') = Len(pairs) + 1 /\ Len(pairs) \in Nat /\ pairs'[Len(pairs')] = pair
    BY <1>1, <1>2, <1>3, Appended
  <1>7. ASSUME Settled PROVE Settled'
    <2>1. Writing(p) /\ Knows(p) /\ NotReissued
      BY <1>5, <1>7 DEF Settled
    <2>2. NotReissued'
      <3>1. pair.by = "loop" => pairs[Len(pairs)].until < day + RenewDays
        BY <1>1, <1>4, <2>1 DEF Knows, LastDue, NeedsRenewal
      <3>2. QED
        BY <1>1, <1>2, <1>3, <1>4, <2>1, <3>1, OneMore
    <2>3. certFile' = Len(pairs') - 1 /\ keyFile' = Len(pairs') - 1
      BY <1>1, <1>3, <1>6, <2>1 DEF Writing
    <2>4. Writing(p)'
      BY <1>5, <2>3 DEF Writing
    <2>5. Knows(p)'
      BY <1>1, <1>4, <1>5, <1>6 DEF Knows, Maker
    <2>6. QED
      BY <1>5, <2>2, <2>4, <2>5, Sole
  <1>8. QED
    BY <1>5, <1>7

LEMMA WorkSettled ==
    ASSUME WellTyped, Alone, NEW p \in Procs, Work(p)
    PROVE  Alone' /\ (Settled /\ mishaps' \cap {"write", "restart"} = {} => Settled')
  <1>1. CASE OrderFails(p) \/ Reload(p) \/ ReloadFails(p)
    <2>1. /\ Finish(p) /\ at[p] \in {"order", "reload"} /\ UNCHANGED <<pairs, certFile, keyFile>>
      BY <1>1 DEF OrderFails, Reload, ReloadFails, files, setup
    <2>2. Moves(p, "idle", NoJob)
      BY <2>1, FinishMoves
    <2>3. Alone' /\ at'[p] = "idle"
      BY <2>2, Moved
    <2>4. Knows(p)'
      BY <2>3 DEF Knows
    <2>5. QED
      BY <2>1, <2>2, <2>3, <2>4, Stays
  <1>2. CASE WriteCert(p)
    <2>1. /\ at[p] = "cert" /\ GoTo(p, "key") /\ certFile' = job[p].pair
          /\ UNCHANGED <<pairs, keyFile>>
      BY <1>2 DEF WriteCert
    <2>2. Moves(p, "key", job[p])
      BY <2>1, GoMoves
    <2>3. /\ at'[p] = "key" /\ job'[p] = job[p] /\ Alone' /\ Active' \subseteq {p} /\ p \in Active
      BY <2>1, <2>2, Moved
    <2>4. ASSUME Settled PROVE Settled'
      <3>1. Writing(p) /\ Knows(p) /\ NotReissued
        BY <2>3, <2>4 DEF Settled
      <3>2. Writing(p)'
        BY <2>1, <2>3, <3>1 DEF Writing, Knows
      <3>3. Knows(p)' /\ NotReissued'
        BY <2>1, <2>3, <3>1 DEF Knows, NotReissued
      <3>4. QED
        BY <2>3, <3>2, <3>3, Sole
    <2>5. QED
      BY <2>3, <2>4
  <1>3. CASE WriteKey(p)
    <2> DEFINE next == IF job[p].op = "upload" THEN "manual" ELSE "reload"
    <2>1. /\ at[p] = "key" /\ GoTo(p, next) /\ keyFile' = job[p].pair
          /\ UNCHANGED <<pairs, certFile>>
      BY <1>3 DEF WriteKey
    <2>2. Moves(p, next, job[p])
      BY <2>1, GoMoves
    <2>3. /\ at'[p] = next /\ job'[p] = job[p] /\ Alone' /\ Active' \subseteq {p} /\ p \in Active
      BY <2>1, <2>2, Moved
    <2>4. ASSUME Settled PROVE Settled'
      <3>1. Writing(p) /\ Knows(p) /\ NotReissued
        BY <2>3, <2>4 DEF Settled
      <3>2. Writing(p)'
        BY <2>1, <2>3, <3>1 DEF Writing, Knows
      <3>3. Knows(p)' /\ NotReissued'
        BY <2>1, <2>3, <3>1 DEF Knows, NotReissued, Maker
      <3>4. QED
        BY <2>3, <3>2, <3>3, Sole
    <2>5. QED
      BY <2>3, <2>4
  <1>4. CASE WriteFails(p)
    <2>1. "write" \in mishaps' /\ Finish(p) /\ at[p] # "idle"
      BY <1>4 DEF WriteFails, Mishap
    <2>2. Moves(p, "idle", NoJob)
      BY <2>1, FinishMoves
    <2>3. QED
      BY <2>1, <2>2, Moved
  <1>5. QED
    BY <1>1, <1>2, <1>3, <1>4, OrderSettled DEF Work

\* The loop's own steps: one begins when nobody is at work.
LEMMA LoopSettled ==
    ASSUME WellTyped, Alone, "overlap" \notin mishaps',
           Rest \/ Heal \/ RetryReload \/ Renew \/ RenewMisread
    PROVE  Alone' /\ (Settled /\ mishaps' \cap {"write", "restart"} = {} => Settled')
  <1>1. Loop \in Procs
    BY Numbers
  <1>2. CASE Rest
    <2>1. UNCHANGED <<at, job, pairs, certFile, keyFile, day>>
      BY <1>2 DEF Rest, procs, files, setup
    <2>2. QED
      BY <2>1 DEF Alone, Active, Settled, Writing, Knows, LastDue, NeedsRenewal, NotReissued
  <1>3. CASE Heal \/ RetryReload
    <2>1. /\ UNCHANGED <<pairs, certFile, keyFile>>
          /\ Begin(Loop, "heal", NoJob) \/ Begin(Loop, "reload", NoJob)
      BY <1>3 DEF Heal, RetryReload, files, setup
    <2>2. PICK a \in {"heal", "reload"} : Moves(Loop, a, NoJob)
      BY <1>1, <2>1, BeginMoves
    <2>3. at[Loop] = "idle" /\ at'[Loop] = a /\ Alone'
      BY <1>1, <1>3, <2>2, Moved DEF Heal, RetryReload
    <2>4. Knows(Loop)'
      BY <2>3 DEF Knows
    <2>5. QED
      BY <1>1, <2>1, <2>2, <2>3, <2>4, Stays
  <1>4. CASE Renew \/ RenewMisread
    <2>1. /\ UNCHANGED <<day, pairs, certFile, keyFile>> /\ NeedsRenewal(certFile)
          /\ Active = {} /\ Moves(Loop, "order", [op |-> "loop"])
      BY <1>1, <1>4, BeginMoves DEF Renew, RenewMisread, files, setup, Moves
    <2>2. at[Loop] = "idle" /\ at'[Loop] = "order" /\ Alone'
      BY <1>1, <1>4, <2>1, Moved DEF Renew, RenewMisread
    <2>3. ASSUME Settled PROVE Settled'
      <3>1. LastDue
        BY <2>1, <2>3 DEF Settled, LastDue
      <3>2. LastDue'
        BY <2>1, <3>1 DEF LastDue, NeedsRenewal
      <3>3. Knows(Loop)'
        BY <2>2, <3>2 DEF Knows
      <3>4. QED
        BY <1>1, <2>1, <2>2, <2>3, <3>3, Stays
    <2>4. QED
      BY <2>2, <2>3
  <1>5. QED
    BY <1>2, <1>3, <1>4

LEMMA ReconcileSettled ==
    ASSUME WellTyped, Alone, ReconcileStep
    PROVE  Alone' /\ (Settled => Settled')
  <1>1. Loop \in Procs /\ at[Loop] \in {"heal", "panel", "nginx"}
    BY ReconcileMoves
  <1>2. PICK a \in {"idle", "panel", "nginx"} : Moves(Loop, a, NoJob)
    BY ReconcileMoves
  <1>3. UNCHANGED <<pairs, certFile, keyFile>>
    BY DEF ReconcileStep, ReconcileSnippet, ReconcilePanel, Reconciled, ReconcileFails, ReconcileStops,
           files
  <1>4. Alone' /\ at'[Loop] = a
    BY <1>1, <1>2, Moved
  <1>5. Knows(Loop)'
    BY <1>4 DEF Knows
  <1>6. QED
    BY <1>1, <1>2, <1>3, <1>4, <1>5, Stays

LEMMA AskSettled ==
    ASSUME WellTyped, Alone, "overlap" \notin mishaps', NEW r \in Requests,
           RenewByHand(r) \/ Upload(r) \/ ClearManual(r) \/ Configure(r) \/ ConfigureOldForm(r)
    PROVE  Alone' /\ (Settled => Settled')
  <1>1. r \in Procs /\ r # Loop
    BY Numbers
  <1>2. CASE RenewByHand(r)
    <2>1. /\ Moves(r, "order", [op |-> "hand"]) /\ Active = {}
          /\ UNCHANGED <<pairs, certFile, keyFile>>
      BY <1>1, <1>2, BeginMoves DEF RenewByHand, files, setup
    <2>2. at[r] = "idle" /\ at'[r] = "order" /\ Alone'
      BY <1>1, <2>1, Moved DEF Moves, Active
    <2>3. Knows(r)'
      BY <1>1, <2>2 DEF Knows
    <2>4. QED
      BY <1>1, <2>1, <2>2, <2>3, Stays
  <1>3. CASE Upload(r)
    <2> DEFINE j == [op |-> "upload", pair |-> Len(pairs) + 1]
    <2>1. PICK pair \in Acceptable : pairs' = Append(pairs, pair)
      BY <1>3 DEF Upload
    <2>2. StateTypes /\ pair \in Pair /\ pair.by = "manual"
      BY Numbers DEF WellTyped, Acceptable, Pair, StateTypes
    <2>3. Len(pairs') = Len(pairs) + 1 /\ Len(pairs) \in Nat /\ pairs'[Len(pairs')] = pair
      BY <2>1, <2>2, Appended
    <2>4. Moves(r, "cert", j) /\ Active = {} /\ UNCHANGED <<certFile, keyFile>>
      BY <1>1, <1>3, BeginMoves DEF Upload, files, setup
    <2>5. j.op = "upload" /\ j.pair = Len(pairs) + 1
      OBVIOUS
    <2> HIDE DEF j
    <2>6. at'[r] = "cert" /\ job'[r] = j /\ Alone' /\ Active' \subseteq {r}
      BY <1>1, <2>4, Moved
    <2>7. ASSUME Settled PROVE Settled'
      <3>1. certFile = Len(pairs) /\ keyFile = Len(pairs) /\ NotReissued
        BY <2>4, <2>7 DEF Settled
      <3>2. NotReissued'
        BY <2>1, <2>2, <3>1, OneMore
      <3>3. Writing(r)'
        <4>1. certFile' = Len(pairs') - 1 /\ keyFile' = Len(pairs') - 1
          BY <2>3, <2>4, <3>1
        <4>2. QED
          BY <2>6, <4>1 DEF Writing
      <3>4. Knows(r)'
        BY <2>2, <2>3, <2>5, <2>6 DEF Knows, Maker
      <3>5. QED
        BY <1>1, <2>6, <3>2, <3>3, <3>4, Sole
    <2>8. QED
      BY <2>6, <2>7
  <1>4. CASE ClearManual(r)
    <2>1. /\ Moves(r, "manual", [op |-> "clear"]) /\ Active = {}
          /\ UNCHANGED <<pairs, certFile, keyFile>>
      BY <1>1, <1>4, BeginMoves DEF ClearManual, files, setup
    <2> DEFINE j == [op |-> "clear"]
    <2>2. at'[r] = "manual" /\ job'[r] = j /\ Alone'
      <3> HIDE DEF j
      <3>1. Moves(r, "manual", j)
        BY <2>1 DEF j
      <3>2. QED
        BY <1>1, <3>1, Moved
    <2>3. at[r] = "idle"
      BY <1>1, <2>1 DEF Active
    <2>4. Knows(r)'
      BY <1>1, <2>2 DEF Knows
    <2>5. QED
      BY <1>1, <2>1, <2>2, <2>3, <2>4, Stays
  <1>5. CASE Configure(r) \/ ConfigureOldForm(r)
    <2>1. PICK op \in {"on", "off"} : Moves(r, "auto", [op |-> op]) /\ Active = {}
      BY <1>1, <1>5, BeginMoves DEF Configure, ConfigureOldForm, Moves
    <2>2. at[r] = "idle" /\ at'[r] = "auto" /\ Alone' /\ UNCHANGED <<pairs, certFile, keyFile>>
      BY <1>1, <1>5, <2>1, Moved DEF Moves, Active, Configure, ConfigureOldForm, files, setup
    <2>3. Knows(r)'
      BY <1>1, <2>2 DEF Knows
    <2>4. QED
      BY <1>1, <2>1, <2>2, <2>3, Stays
  <1>6. QED
    BY <1>2, <1>3, <1>4, <1>5

LEMMA SetSettled ==
    ASSUME WellTyped, Alone, NEW r \in Requests, SetManual(r) \/ SetAuto(r) \/ SetFails(r)
    PROVE  Alone' /\ (Settled => Settled')
  <1>1. r \in Procs /\ at[r] \in {"manual", "auto"} /\ UNCHANGED <<pairs, certFile, keyFile>>
    BY Numbers DEF SetManual, SetAuto, SetFails, files, setup
  <1>2. PICK a \in {"idle", "auto", "reload"} : \E j : Moves(r, a, j)
    BY <1>1, GoMoves, FinishMoves DEF SetManual, SetAuto, SetFails
  <1> PICK j : Moves(r, a, j)
    BY <1>2
  <1>3. at'[r] = a /\ Alone'
    BY <1>1, <1>2, Moved
  <1>4. Knows(r)'
    BY <1>3 DEF Knows
  <1>5. QED
    BY <1>1, <1>2, <1>3, <1>4, Stays

LEMMA StepUndisturbed == WellTyped /\ Undisturbed /\ [Next]_vars => Undisturbed'
  <1> SUFFICES ASSUME WellTyped, Undisturbed, [Next]_vars, "overlap" \notin mishaps'
               PROVE  Alone' /\ (mishaps' \cap {"write", "restart"} = {} => Settled')
    BY DEF Undisturbed
  <1>1. mishaps \subseteq mishaps'
    BY Grows
  <1>2. Alone /\ (mishaps' \cap {"write", "restart"} = {} => Settled)
    BY <1>1 DEF Undisturbed
  <1>3. CASE RenewalLoop
    BY <1>2, <1>3, LoopSettled, ReconcileSettled, WorkSettled, Numbers DEF RenewalLoop, ReconcileStep
  <1>4. ASSUME NEW r \in Requests, Request(r)
        PROVE  Alone' /\ (mishaps' \cap {"write", "restart"} = {} => Settled')
    <2>1. r \in Procs
      BY Numbers
    <2>2. QED
      BY <1>2, <1>4, <2>1, AskSettled, SetSettled, WorkSettled DEF Request
  <1>5. CASE Restart
    <2>1. Active' \subseteq {Loop} /\ "restart" \in mishaps'
      BY <1>5 DEF Restart, RestartPanel, Mishap, Active
    <2>2. QED
      BY <2>1 DEF Alone
  <1>6. CASE DayPasses
    <2>1. UNCHANGED <<at, job, pairs, certFile, keyFile>> /\ Active = {}
      BY <1>6 DEF DayPasses, procs, files, setup
    <2>2. QED
      BY <1>2, <2>1 DEF Alone, Active, Settled, NotReissued
  <1>7. CASE UNCHANGED vars
    <2>1. UNCHANGED <<day, at, job, pairs, certFile, keyFile>>
      BY <1>7 DEF vars, procs, files, setup
    <2>2. QED
      BY <1>2, <2>1 DEF Alone, Active, Settled, Writing, Knows, LastDue, NeedsRenewal, NotReissued
  <1>8. QED
    BY <1>3, <1>4, <1>5, <1>6, <1>7 DEF Next

LEMMA InitUndisturbed == Init => Undisturbed
  <1> SUFFICES ASSUME Init PROVE Alone /\ Settled
    BY DEF Undisturbed
  <1>1. Active = {}
    BY DEF Init, Active
  <1>2. Len(pairs) = 1
    BY DEF Init
  <1>3. QED
    BY <1>1, <1>2 DEF Init, Alone, Settled, NotReissued

LEMMA AlwaysUndisturbed == Spec => [](WellTyped /\ Undisturbed)
  <1>1. WellTyped /\ Undisturbed /\ [Next]_vars => (WellTyped /\ Undisturbed)'
    BY StepTypes, StepUndisturbed
  <1>2. QED
    BY InitTypes, InitUndisturbed, <1>1, PTL DEF Spec

-----------------------------------------------------------------------------
(* A manual certificate stays. *)

Harmful == {"database", "overlap", "old form", "write", "restart"}

\* A step that does not end or begin the writing of cert_auto_renew.
LEMMA StaysExclusive ==
    ASSUME WellTyped, Alone, Exclusive, NEW p \in Procs, NEW a, NEW j, Moves(p, a, j),
           at[p] # "auto", a # "auto", UNCHANGED <<manual, auto>>,
           p = Loop /\ a \in {"order", "cert", "key"} => ~manual,
           manual => pairs'[certFile'].by # "loop"
    PROVE  Exclusive'
  <1>1. /\ at'[p] = a /\ Active \subseteq {p} /\ \A q \in Procs : q # p => at'[q] = "idle"
    BY Moved
  <1>2. ~(manual /\ auto)
    <2>1. \A r \in Requests : at[r] = "auto" => r \in Active
      BY Numbers DEF Active
    <2>2. QED
      BY <1>1, <2>1 DEF Exclusive
  <1>3. \A r \in Requests : at'[r] # "auto"
    BY <1>1, Numbers
  <1>4. at'[Loop] \in {"order", "cert", "key"} => ~manual
    BY <1>1, Numbers
  <1>5. QED
    BY <1>2, <1>3, <1>4 DEF Exclusive

LEMMA WorkExclusive ==
    ASSUME WellTyped, Alone, Settled, Exclusive, NEW p \in Procs, Work(p), "write" \notin mishaps'
    PROVE  Exclusive'
  <1>1. /\ StateTypes /\ UNCHANGED <<manual, auto>> /\ at[p] # "auto" /\ at[p] # "idle"
    BY DEF WellTyped, Work, Order, OrderFails, WriteCert, WriteKey, WriteFails, Reload, ReloadFails,
           settings, setup
  <1>2. Writing(p) /\ Knows(p) /\ Fits(p, at[p], job[p], Len(pairs))
    BY <1>1 DEF Settled, Active, WellTyped, ProcTypes
  <1>3. manual => pairs[certFile].by # "loop"
    BY DEF Exclusive
  <1>4. CASE Order(p)
    <2> DEFINE pair == [by |-> job[p].op, until |-> day + Life]
               j == [op |-> job[p].op, pair |-> Len(pairs) + 1]
    <2>1. at[p] = "order" /\ job[p].op \in {"loop", "hand"} /\ UNCHANGED certFile
      BY <1>2, <1>4 DEF Order, Fits, files, setup
    <2>2. pair \in Pair
      BY <1>1, <2>1, Numbers DEF Pair, StateTypes
    <2>3. pairs' = Append(pairs, pair) /\ Moves(p, "cert", j)
      BY <1>4, <2>1 DEF Order, Moves, WellTyped, ProcTypes
    <2> HIDE DEF pair, j
    <2>4. certFile = Len(pairs) /\ certFile \in 1..Len(pairs)
      BY <1>1, <1>2, <2>1, Lengths DEF Writing
    <2>5. pairs'[certFile'] = pairs[certFile]
      BY <1>1, <2>1, <2>2, <2>3, <2>4, Appended
    <2>6. p = Loop => ~manual
      BY <2>1 DEF Exclusive
    <2>7. QED
      BY <1>1, <1>3, <2>3, <2>5, <2>6, StaysExclusive
  <1>5. CASE OrderFails(p) \/ Reload(p) \/ ReloadFails(p)
    <2>1. Finish(p) /\ UNCHANGED <<pairs, certFile>>
      BY <1>5 DEF OrderFails, Reload, ReloadFails, files, setup
    <2>2. Moves(p, "idle", NoJob)
      BY <1>1, <2>1, FinishMoves
    <2>3. QED
      BY <1>1, <1>3, <2>1, <2>2, StaysExclusive
  <1>6. CASE WriteCert(p)
    <2>1. at[p] = "cert" /\ GoTo(p, "key") /\ certFile' = job[p].pair /\ UNCHANGED pairs
      BY <1>6 DEF WriteCert
    <2>2. Moves(p, "key", job[p])
      BY <1>1, <2>1, GoMoves
    <2>3. p = Loop => ~manual
      BY <2>1 DEF Exclusive
    <2>4. p # Loop => pairs'[certFile'].by # "loop"
      BY <1>2, <2>1 DEF Knows, Fits, Maker
    <2>5. QED
      BY <1>1, <2>2, <2>3, <2>4, StaysExclusive
  <1>7. CASE WriteKey(p)
    <2> DEFINE next == IF job[p].op = "upload" THEN "manual" ELSE "reload"
    <2>1. GoTo(p, next) /\ UNCHANGED <<pairs, certFile>>
      BY <1>7 DEF WriteKey
    <2>2. Moves(p, next, job[p])
      BY <1>1, <2>1, GoMoves
    <2>3. next \in {"manual", "reload"}
      OBVIOUS
    <2> HIDE DEF next
    <2>4. QED
      BY <1>1, <1>3, <2>1, <2>2, <2>3, StaysExclusive
  <1>8. ~WriteFails(p)
    BY DEF WriteFails, Mishap
  <1>9. QED
    BY <1>4, <1>5, <1>6, <1>7, <1>8 DEF Work

LEMMA LoopExclusive ==
    ASSUME WellTyped, Alone, Settled, Exclusive, mishaps' \cap Harmful = {},
           Rest \/ Heal \/ RetryReload \/ Renew \/ RenewMisread
    PROVE  Exclusive'
  <1>1. /\ Loop \in Procs /\ "overlap" \notin mishaps'
        /\ manual => pairs[certFile].by # "loop"
    BY Numbers DEF Harmful, Exclusive
  <1>2. UNCHANGED <<manual, auto, pairs, certFile>>
    BY DEF Rest, Heal, RetryReload, Renew, RenewMisread, settings, files
  <1>3. CASE Rest
    BY <1>2, <1>3 DEF Rest, procs, Exclusive
  <1>4. CASE Heal \/ RetryReload
    <2>1. Begin(Loop, "heal", NoJob) \/ Begin(Loop, "reload", NoJob)
      BY <1>4 DEF Heal, RetryReload
    <2>2. PICK a \in {"heal", "reload"} : Moves(Loop, a, NoJob)
      BY <1>1, <2>1, BeginMoves
    <2>3. at[Loop] # "auto"
      BY <1>4 DEF Heal, RetryReload
    <2>4. QED
      BY <1>1, <1>2, <2>2, <2>3, StaysExclusive
  <1>5. CASE Renew
    <2>1. Moves(Loop, "order", [op |-> "loop"]) /\ Active = {} /\ auto /\ at[Loop] = "idle"
      BY <1>1, <1>5, BeginMoves DEF Renew
    <2>2. ~manual
      BY <2>1, Numbers DEF Exclusive, Active
    <2>3. QED
      BY <1>1, <1>2, <2>1, <2>2, StaysExclusive
  <1>6. ~RenewMisread
    BY DEF RenewMisread, Mishap, Harmful
  <1>7. QED
    BY <1>3, <1>4, <1>5, <1>6

LEMMA ReconcileExclusive == ASSUME WellTyped, Alone, Exclusive, ReconcileStep PROVE Exclusive'
  <1>1. Loop \in Procs /\ at[Loop] \in {"heal", "panel", "nginx"}
    BY ReconcileMoves
  <1>2. PICK a \in {"idle", "panel", "nginx"} : Moves(Loop, a, NoJob)
    BY ReconcileMoves
  <1>3. UNCHANGED <<manual, auto, pairs, certFile>>
    BY DEF ReconcileStep, ReconcileSnippet, ReconcilePanel, Reconciled, ReconcileFails, ReconcileStops,
           files, settings
  <1>4. manual => pairs[certFile].by # "loop"
    BY DEF Exclusive
  <1>5. QED
    BY <1>1, <1>2, <1>3, <1>4, StaysExclusive

LEMMA AskExclusive ==
    ASSUME WellTyped, Alone, Settled, Exclusive, mishaps' \cap Harmful = {}, NEW r \in Requests,
           RenewByHand(r) \/ Upload(r) \/ ClearManual(r) \/ Configure(r) \/ ConfigureOldForm(r)
    PROVE  Exclusive'
  <1>1. /\ r \in Procs /\ r # Loop /\ "overlap" \notin mishaps' /\ StateTypes
        /\ manual => pairs[certFile].by # "loop"
    BY Numbers DEF Harmful, Exclusive, WellTyped
  <1>2. UNCHANGED <<manual, auto, certFile>>
    BY DEF RenewByHand, Upload, ClearManual, Configure, ConfigureOldForm, settings, setup, files
  <1>3. CASE RenewByHand(r) \/ ClearManual(r)
    <2>1. PICK a \in {"order", "manual"} : \E j : Begin(r, a, j)
      BY <1>3 DEF RenewByHand, ClearManual
    <2> PICK j : Begin(r, a, j)
      BY <2>1
    <2>2. Moves(r, a, j) /\ at[r] = "idle" /\ UNCHANGED pairs
      BY <1>1, <1>3, BeginMoves DEF RenewByHand, ClearManual, Begin
    <2>3. QED
      BY <1>1, <1>2, <2>2, StaysExclusive
  <1>4. CASE Upload(r)
    <2> DEFINE j == [op |-> "upload", pair |-> Len(pairs) + 1]
    <2>1. PICK pair \in Acceptable : pairs' = Append(pairs, pair)
      BY <1>4 DEF Upload
    <2>2. pair \in Pair
      BY <1>1, Numbers DEF Acceptable, Pair, StateTypes
    <2>3. Begin(r, "cert", j)
      BY <1>4 DEF Upload
    <2> HIDE DEF j
    <2>4. Moves(r, "cert", j) /\ Active = {} /\ at[r] = "idle"
      BY <1>1, <2>3, BeginMoves DEF Begin
    <2>5. certFile = Len(pairs) /\ certFile \in 1..Len(pairs)
      BY <1>1, <2>4, Lengths DEF Settled
    <2>6. pairs'[certFile'] = pairs[certFile]
      BY <1>1, <1>2, <2>1, <2>2, <2>5, Appended
    <2>7. QED
      BY <1>1, <1>2, <2>4, <2>6, StaysExclusive
  <1>5. CASE Configure(r)
    <2>1. PICK on \in BOOLEAN : (on => ~manual) /\ Begin(r, "auto", [op |-> IF on THEN "on" ELSE "off"])
      BY <1>5 DEF Configure
    <2> DEFINE j == [op |-> IF on THEN "on" ELSE "off"]
    <2>2. j.op \in {"on", "off"} /\ (j.op = "on" => ~manual) /\ Begin(r, "auto", j)
      BY <2>1
    <2> HIDE DEF j
    <2>3. Moves(r, "auto", j) /\ Active = {} /\ UNCHANGED pairs
      BY <1>1, <1>5, <2>2, BeginMoves DEF Configure
    <2>4. at'[r] = "auto" /\ job'[r] = j /\ \A q \in Procs : q # r => at'[q] = "idle"
      BY <1>1, <2>3, Moved
    <2>5. ~(manual /\ auto)
      BY <2>3, Numbers DEF Exclusive, Active
    <2>6. \A q \in Requests : at'[q] = "auto" => q = r
      BY <2>4, Numbers
    <2>7. at'[Loop] = "idle"
      BY <1>1, <2>4, Numbers
    <2>8. QED
      BY <1>1, <1>2, <2>2, <2>3, <2>4, <2>5, <2>6, <2>7 DEF Exclusive
  <1>6. ~ConfigureOldForm(r)
    BY DEF ConfigureOldForm, Mishap, Harmful
  <1>7. QED
    BY <1>3, <1>4, <1>5, <1>6

LEMMA SetExclusive ==
    ASSUME WellTyped, Alone, Settled, Exclusive, mishaps' \cap Harmful = {}, NEW r \in Requests,
           SetManual(r) \/ SetAuto(r) \/ SetFails(r)
    PROVE  Exclusive'
  <1>1. /\ r \in Procs /\ r # Loop /\ r \in Active /\ Fits(r, at[r], job[r], Len(pairs))
        /\ Writing(r) /\ Knows(r)
    BY Numbers DEF WellTyped, ProcTypes, Active, Settled, SetManual, SetAuto, SetFails
  <1>2. UNCHANGED <<pairs, certFile>>
    BY DEF SetManual, SetAuto, SetFails, files, setup
  <1>3. CASE SetManual(r)
    <2>1. at[r] = "manual" /\ manual' = (job[r].op = "upload") /\ auto' = auto /\ GoTo(r, "auto")
      BY <1>3 DEF SetManual
    <2>2. Moves(r, "auto", job[r])
      BY <1>1, <2>1, GoMoves
    <2>3. at'[r] = "auto" /\ job'[r] = job[r] /\ \A q \in Procs : q # r => at'[q] = "idle"
      BY <1>1, <2>2, Moved
    <2>4. manual' => pairs'[certFile'].by # "loop"
      BY <1>1, <1>2, <2>1 DEF Writing, Knows
    <2>5. \A q \in Requests : at'[q] = "auto" => q = r
      BY <2>3, Numbers
    <2>6. at'[Loop] = "idle"
      BY <1>1, <2>3, Numbers
    <2>7. QED
      BY <1>1, <2>1, <2>3, <2>4, <2>5, <2>6 DEF Exclusive
  <1>4. CASE SetAuto(r)
    <2>1. at[r] = "auto" /\ auto' = (job[r].op \in {"on", "clear"}) /\ manual' = manual
      BY <1>4 DEF SetAuto
    <2>2. PICK a \in {"idle", "reload"} : \E j : Moves(r, a, j)
      BY <1>1, <1>4, GoMoves, FinishMoves DEF SetAuto
    <2>3. at'[r] # "auto" /\ \A q \in Procs : q # r => at'[q] = "idle"
      BY <1>1, <2>2, Moved
    <2>4. ~(manual /\ auto')
      BY <2>1 DEF Exclusive
    <2>5. at'[Loop] = "idle" /\ \A q \in Requests : at'[q] # "auto"
      BY <1>1, <2>3, Numbers
    <2>6. QED
      BY <1>2, <2>1, <2>4, <2>5 DEF Exclusive
  <1>5. ~SetFails(r)
    BY DEF SetFails, Mishap, Harmful
  <1>6. QED
    BY <1>3, <1>4, <1>5

LEMMA StepGoverned == WellTyped /\ Undisturbed /\ Governed /\ [Next]_vars => Governed'
  <1> SUFFICES ASSUME WellTyped, Undisturbed, Governed, [Next]_vars, mishaps' \cap Harmful = {}
               PROVE  Exclusive'
    BY DEF Governed, Harmful
  <1>1. mishaps \subseteq mishaps'
    BY Grows
  <1>2. Alone /\ Settled /\ Exclusive
    BY <1>1 DEF Undisturbed, Governed, Harmful
  <1>3. "write" \notin mishaps' /\ "restart" \notin mishaps'
    BY DEF Harmful
  <1>4. CASE RenewalLoop
    BY <1>2, <1>3, <1>4, LoopExclusive, ReconcileExclusive, WorkExclusive, Numbers
       DEF RenewalLoop, ReconcileStep
  <1>5. ASSUME NEW r \in Requests, Request(r) PROVE Exclusive'
    <2>1. r \in Procs
      BY Numbers
    <2>2. QED
      BY <1>2, <1>3, <1>5, <2>1, AskExclusive, SetExclusive, WorkExclusive DEF Request
  <1>6. ~Restart
    BY <1>3 DEF Restart, Mishap
  <1>7. CASE DayPasses \/ UNCHANGED vars
    <2>1. UNCHANGED <<at, job, pairs, certFile, manual, auto>>
      BY <1>7 DEF DayPasses, vars, procs, files, settings, setup
    <2>2. QED
      BY <1>2, <2>1 DEF Exclusive
  <1>8. QED
    BY <1>4, <1>5, <1>6, <1>7 DEF Next

\* settings.go:672, runner.go:28: a manual certificate is not overwritten by the loop, and no
\* order is made before one is due, whatever else fails, is retried or has been configured.
THEOREM OrdersJustifiedHolds == Spec => []OrdersJustified
  <1>1. Init => Governed
    BY DEF Init, Governed, Exclusive
  <1>2. Spec => []Governed
    <2>1. WellTyped /\ Undisturbed /\ Governed /\ [Next]_vars => Governed'
      BY StepGoverned
    <2>2. QED
      BY <1>1, <2>1, AlwaysUndisturbed, PTL DEF Spec
  <1>3. Undisturbed /\ Governed => OrdersJustified
    <2> SUFFICES ASSUME Undisturbed, Governed PROVE ManualKept /\ NoReissue
      BY DEF OrdersJustified
    <2>1. ManualKept
      BY DEF Governed, Exclusive, ManualKept
    <2>2. NoReissue
      <3> SUFFICES ASSUME mishaps \cap {"write", "overlap", "restart"} = {} PROVE NotReissued
        BY DEF NoReissue, NotReissued
      <3>1. "overlap" \notin mishaps /\ mishaps \cap {"write", "restart"} = {}
        OBVIOUS
      <3>2. QED
        BY <3>1 DEF Undisturbed, Settled
    <2>3. QED
      BY <2>1, <2>2
  <1>4. QED
    BY <1>2, <1>3, AlwaysUndisturbed, PTL

-----------------------------------------------------------------------------
(* Turns in vain are paid for. *)

LEMMA HealedStep == WellTyped /\ Healed /\ [Next]_vars => Healed'
  <1> SUFFICES ASSUME WellTyped, Healed, [Next]_vars PROVE Healed'
    OBVIOUS
  <1>1. Loop \in Procs /\ at \in [Procs -> At] /\ \A r \in Requests : r # Loop /\ r \in Procs
    BY Numbers DEF WellTyped, ProcTypes
  <1>2. CASE Work(Loop)
    <2>1. /\ at[Loop] \in {"order", "cert", "key", "reload"} /\ UNCHANGED snippet
          /\ at'[Loop] \in {"idle", "cert", "key", "reload", "manual"}
      BY <1>1, <1>2 DEF Work, Order, OrderFails, WriteCert, WriteKey, WriteFails, Reload, ReloadFails,
                        Finish, GoTo, setup
    <2>2. QED
      BY <2>1 DEF Healed, Reconciling
  <1>3. CASE RenewalLoop /\ ~Work(Loop)
    <2>1. CASE Rest
      BY <2>1 DEF Rest, procs, setup, Healed
    <2>2. CASE Heal
      BY <1>1, <2>2 DEF Heal, Begin, setup, Healed, Reconciling
    <2>3. CASE RetryReload \/ Renew \/ RenewMisread
      BY <1>1, <2>3 DEF RetryReload, Renew, RenewMisread, Begin, setup, Healed, Reconciling
    <2>4. CASE ReconcileSnippet
      BY <1>1, <2>4 DEF ReconcileSnippet, GoTo, Healed, Reconciling
    <2>5. CASE ReconcilePanel
      <3>1. /\ at[Loop] = "panel" /\ at'[Loop] = "nginx" /\ snippet' = snippet
            /\ pending' = pending \/ ~pending'
        BY <1>1, <2>5 DEF ReconcilePanel, RestartPanel, Reconciling, GoTo, setup
      <3>2. QED
        BY <3>1 DEF Healed, Reconciling
    <2>6. CASE Reconciled \/ ReconcileFails \/ ReconcileStops
      <3>1. at'[Loop] = "idle" /\ snippet' = snippet /\ pending' = pending
        BY <1>1, <2>6 DEF Reconciled, ReconcileFails, ReconcileStops, Finish, setup
      <3>2. QED
        BY <3>1 DEF Healed, Reconciling
    <2>7. QED
      BY <1>3, <2>1, <2>2, <2>3, <2>4, <2>5, <2>6 DEF RenewalLoop
  <1>4. ASSUME NEW r \in Requests, Request(r) PROVE Healed'
    <2>1. \E a, j : at' = [at EXCEPT ![r] = a]
      BY <1>4 DEF Request, RenewByHand, Upload, ClearManual, Configure, ConfigureOldForm, SetManual,
                  SetAuto, SetFails, Work, Order, OrderFails, WriteCert, WriteKey, WriteFails, Reload,
                  ReloadFails, Begin, Finish, GoTo
    <2>2. at'[Loop] = at[Loop]
      BY <1>1, <2>1
    <2>3. UNCHANGED <<snippet, pending>>
      BY <1>1, <1>4 DEF Request, RenewByHand, Upload, ClearManual, Configure, ConfigureOldForm,
                  SetManual, SetAuto, SetFails, Work, Order, OrderFails, WriteCert, WriteKey,
                  WriteFails, Reload, ReloadFails, Remember, setup
    <2>4. QED
      BY <2>2, <2>3 DEF Healed
  <1>5. CASE Restart
    <2>1. /\ snippet' = snippet /\ ~pending'
          /\ at'[Loop] # "idle" => at[Loop] \in Reconciling /\ at'[Loop] = at[Loop]
      BY <1>1, <1>5 DEF Restart, RestartPanel, setup
    <2>2. QED
      BY <2>1 DEF Healed, Reconciling
  <1>6. CASE DayPasses \/ UNCHANGED vars
    BY <1>6 DEF DayPasses, vars, procs, setup, Healed
  <1>7. QED
    BY <1>2, <1>3, <1>4, <1>5, <1>6 DEF Next

LEMMA Amounts ==
    ASSUME WellTyped
    PROVE  /\ day \in Nat /\ onSince \in Nat /\ Spent \in Nat /\ Spent <= MaxMishaps + 1
           /\ Today \in {0, 1} /\ (~Turned => Today = 1)
           /\ \A i \in 1..Len(pairs) : pairs[i].until \in Nat
           /\ pairs[served].until \in Nat
  <1>1. \A i \in 1..Len(pairs) : pairs[i] \in Pair
    BY ElementOfSeq DEF WellTyped, StateTypes
  <1>2. \A i \in 1..Len(pairs) : pairs[i].until \in Nat
    BY <1>1 DEF Pair
  <1>3. served \in 1..Len(pairs) /\ day \in Nat /\ onSince \in Nat
    BY DEF WellTyped, StateTypes
  <1>4. Spent \in Nat /\ Spent <= MaxMishaps + 1
    BY Numbers DEF Spent, WellTyped, StateTypes
  <1>5. Today \in {0, 1} /\ (~Turned => Today = 1)
    BY DEF Today
  <1>6. QED
    BY <1>2, <1>3, <1>4, <1>5

\* A step after which no more turns are left unpaid than before.
LEMMA StillCaughtUp ==
    ASSUME WellTyped, CaughtUp, UNCHANGED <<day, onSince>>,
           pairs'[served'].until = pairs[served].until,
           Spent' \in Nat, Today' \in Nat, Spent' + Today' >= Spent + Today
    PROVE  CaughtUp'
  <1>1. /\ day \in Nat /\ onSince \in Nat /\ Spent \in Nat /\ Today \in Nat
        /\ pairs[served].until \in Nat /\ RenewDays \in Nat
    BY Amounts, Numbers
  <1>2. CASE day <= onSince + Spent + Today
    <2>1. day <= onSince + Spent' + Today'
      BY <1>1, <1>2
    <2>2. QED
      BY <2>1 DEF CaughtUp
  <1>3. CASE pairs[served].until + Spent + Today >= day + RenewDays
    <2>1. pairs[served].until + Spent' + Today' >= day + RenewDays
      BY <1>1, <1>3
    <2>2. QED
      BY <2>1 DEF CaughtUp
  <1>4. QED
    BY <1>2, <1>3 DEF CaughtUp

\* Only the process that moves may be about to change what nginx has.
LEMMA QuietBy ==
    ASSUME WellTyped, Alone, NEW p \in Procs, NEW a, NEW j, Moves(p, a, j)
    PROVE  /\ Quiet <=> ~Changing(p)
           /\ Quiet' <=> ~Changing(p)'
  <1>1. /\ Active \subseteq {p} /\ \A q \in Procs : q # p => at'[q] = "idle"
    BY Moved
  <1>2. \A q \in Procs : q # p => at[q] = "idle"
    BY <1>1 DEF Active
  <1>3. \A q \in Procs : q # p => ~Changing(q) /\ ~Changing(q)'
    BY <1>1, <1>2 DEF Changing
  <1>4. QED
    BY <1>3 DEF Quiet

LEMMA Handed ==
    ASSUME WellTyped, Alone, NEW p \in Procs, NEW a, NEW j, Moves(p, a, j),
           HandsFresh(p)', ~pending' /\ ~Changing(p)' => served' = certFile'
    PROVE  Handing'
  <1>1. \A q \in Procs : q # p => HandsFresh(q)'
    BY Moved DEF HandsFresh
  <1>2. QED
    BY <1>1, QuietBy DEF Handing

LEMMA AmountsAfter ==
    ASSUME WellTyped'
    PROVE  Spent' \in Nat /\ Today' \in {0, 1} /\ (~Turned' => Today' = 1)
  <1>1. count' \in Nat /\ webroot' \in BOOLEAN
    BY Numbers DEF WellTyped, StateTypes
  <1>2. Spent' \in Nat
    <2>1. Spent' = count' + 1 \/ Spent' = count' + 0
      BY DEF Spent
    <2>2. QED
      BY <1>1, <2>1
  <1>3. Today' \in {0, 1} /\ (~Turned' => Today' = 1)
    BY DEF Today
  <1>4. QED
    BY <1>2, <1>3

\* What the steps may count on.
Before == WellTyped /\ Alone /\ Settled /\ Healed /\ Wired /\ Handing /\ (auto => CaughtUp)
After == Handing /\ (auto => CaughtUp)

\* The files hold the newest pair before and after the writes.
LEMMA Newest ==
    ASSUME Before, NEW p \in Procs, Active \subseteq {p}, at[p] \notin {"cert", "key"}
    PROVE  certFile = Len(pairs) /\ keyFile = Len(pairs) /\ Loadable
  <1>1. certFile = Len(pairs) /\ keyFile = Len(pairs)
    <2>1. CASE Active = {}
      BY <2>1 DEF Before, Settled
    <2>2. CASE Active # {}
      BY <2>2 DEF Before, Settled, Writing
    <2>3. QED
      BY <2>1, <2>2
  <1>2. QED
    BY <1>1, Lengths DEF Before, WellTyped, Loadable, Torn

LEMMA OrderPaid ==
    ASSUME Before, WellTyped', NEW p \in Procs, Order(p)
    PROVE  After'
  <1> DEFINE pair == [by |-> job[p].op, until |-> day + Life]
             j == [op |-> job[p].op, pair |-> Len(pairs) + 1]
  <1>1. /\ StateTypes /\ at[p] = "order" /\ job[p].op \in {"loop", "hand"} /\ WellTyped /\ Alone
    BY DEF Before, WellTyped, ProcTypes, Fits, Order
  <1>2. pair \in Pair
    BY <1>1, Numbers DEF Pair, StateTypes
  <1>3. pairs' = Append(pairs, pair) /\ Moves(p, "cert", j)
    BY <1>1 DEF Order, Moves, WellTyped, ProcTypes
  <1>4. pair.until = day + Life /\ j.pair = Len(pairs) + 1
    OBVIOUS
  <1> HIDE DEF pair, j
  <1>5. /\ Len(pairs') = Len(pairs) + 1 /\ pairs'[Len(pairs')] = pair
        /\ pairs'[served] = pairs[served]
    BY <1>1, <1>2, <1>3, Appended DEF StateTypes
  <1>6. at'[p] = "cert" /\ job'[p] = j
    BY <1>1, <1>3, Moved
  <1>7. UNCHANGED <<day, auto, onSince, served, count, webroot>>
    BY DEF Order, settings, setup, past
  <1>8. Changing(p)'
    BY <1>6 DEF Changing
  <1>9. HandsFresh(p)'
    <2>1. ~(pair.until < day + RenewDays)
      BY <1>1, <1>4, Numbers DEF StateTypes
    <2>2. pairs'[job'[p].pair] = pair
      BY <1>4, <1>5, <1>6
    <2>3. ~NeedsRenewal(job[p].pair)'
      BY <1>7, <2>1, <2>2 DEF NeedsRenewal
    <2>4. QED
      BY <1>6, <2>3 DEF HandsFresh
  <1>10. ASSUME auto PROVE CaughtUp'
    <2>1. Today' = 1 /\ Spent' = Spent
      BY <1>1, <1>3, <1>7, <1>8, QuietBy DEF Turned, Today, Spent
    <2>2. Spent' + Today' >= Spent + Today
      BY <1>1, <2>1, Amounts
    <2>3. QED
      BY <1>1, <1>5, <1>7, <1>10, <2>2, AmountsAfter, StillCaughtUp DEF Before
  <1>11. QED
    BY <1>1, <1>3, <1>7, <1>8, <1>9, <1>10, Handed DEF After

LEMMA WorkPaid ==
    ASSUME Before, WellTyped', Minor', NEW p \in Procs, Work(p)
    PROVE  After'
  <1>1. WellTyped /\ Alone /\ Healed
    BY DEF Before
  <1>2. CASE OrderFails(p)
    <2>1. /\ at[p] = "order" /\ Finish(p)
          /\ UNCHANGED <<day, ticked, pairs, certFile, served, auto, onSince, webroot, pending>>
      BY <1>2 DEF OrderFails, files, settings, setup
    <2>2. Moves(p, "idle", NoJob)
      BY <2>1, FinishMoves
    <2>3. at'[p] = "idle" /\ ~Changing(p) /\ ~Changing(p)'
      BY <1>1, <2>1, <2>2, Moved DEF Changing
    <2>4. HandsFresh(p)'
      BY <2>3 DEF HandsFresh
    <2>5. ~pending' => served' = certFile'
      BY <1>1, <2>1, <2>2, <2>3, QuietBy DEF Before, Handing
    <2>6. ASSUME auto PROVE CaughtUp'
      <3>1. CASE p = Loop
        <4>1. count' = count + 1
          BY <1>1, <1>2, <2>1, <3>1 DEF Before, OrderFails, Healed, Wired, Answered, Mishap
        <4>2. Spent' = Spent + 1
          BY <1>1, <2>1, <4>1 DEF Spent, WellTyped, StateTypes
        <4>3. Spent' + Today' >= Spent + Today
          BY <1>1, <4>2, Amounts, AmountsAfter
        <4>4. QED
          BY <1>1, <2>1, <2>6, <4>3, AmountsAfter, StillCaughtUp DEF Before
      <3>2. CASE p # Loop
        <4>1. at[Loop] = "idle" /\ at'[Loop] = "idle"
          BY <1>1, <2>1, <2>2, <3>2, Moved, Numbers DEF Active
        <4>2. Turned' = Turned
          BY <1>1, <2>1, <2>2, <2>3, <4>1, QuietBy DEF Turned
        <4>3. count' \in Nat /\ count' >= count /\ count \in Nat
          <5>1. count \in Nat
            BY <1>1 DEF WellTyped, StateTypes
          <5>2. count' = count \/ count' = count + 1
            BY <1>2 DEF OrderFails, Mishap, past
          <5>3. QED
            BY <5>1, <5>2
        <4>4. Spent' >= Spent
          <5>1. (Spent = count + 1 /\ Spent' = count' + 1) \/ (Spent = count + 0 /\ Spent' = count' + 0)
            BY <2>1 DEF Spent
          <5>2. QED
            BY <4>3, <5>1
        <4>5. Spent' + Today' >= Spent + Today
          BY <1>1, <4>2, <4>4, Amounts, AmountsAfter DEF Today
        <4>6. QED
          BY <1>1, <2>1, <2>6, <4>5, AmountsAfter, StillCaughtUp DEF Before
      <3>3. QED
        BY <3>1, <3>2
    <2>7. QED
      BY <1>1, <2>1, <2>2, <2>4, <2>5, <2>6, Handed DEF After
  <1>3. CASE WriteCert(p) \/ WriteKey(p)
    <2>1. /\ at[p] \in {"cert", "key"}
          /\ UNCHANGED <<day, ticked, pairs, served, auto, onSince, webroot, pending, count>>
      BY <1>3 DEF WriteCert, WriteKey, settings, setup, past
    <2>2. PICK a \in {"key", "manual", "reload"} :
             /\ Moves(p, a, job[p])
             /\ a = "reload" => /\ at[p] = "key" /\ job[p].op # "upload" /\ UNCHANGED certFile
             /\ a = "manual" => job[p].op = "upload"
      BY <1>1, <1>3, GoMoves DEF WriteCert, WriteKey
    <2>3. at'[p] = a /\ job'[p] = job[p] /\ p \in Active
      BY <1>1, <2>1, <2>2, Moved
    <2>4. Changing(p)'
      BY <2>2, <2>3 DEF Changing
    <2>5. HandsFresh(p)'
      <3>1. job[p].op # "upload" => ~NeedsRenewal(job[p].pair)
        BY <2>1 DEF Before, Handing, HandsFresh
      <3>2. at[p] = "key" => certFile = job[p].pair
        BY <2>3 DEF Before, Settled, Writing, Knows
      <3>3. job[p].op # "upload" => ~NeedsRenewal(job[p].pair)'
        BY <2>1, <2>3, <3>1 DEF NeedsRenewal
      <3>4. a = "reload" => certFile' = job'[p].pair /\ job[p].op # "upload"
        BY <2>2, <2>3, <3>2
      <3>5. a = "reload" => ~NeedsRenewal(certFile)'
        BY <3>3, <3>4 DEF NeedsRenewal
      <3>6. QED
        BY <2>3, <3>3, <3>5 DEF HandsFresh
    <2>6. ASSUME auto PROVE CaughtUp'
      <3>1. Today' = 1 /\ Spent' = Spent
        BY <1>1, <2>1, <2>2, <2>4, QuietBy DEF Turned, Today, Spent
      <3>2. Spent' + Today' >= Spent + Today
        BY <1>1, <3>1, Amounts
      <3>3. QED
        BY <1>1, <2>1, <2>6, <3>2, AmountsAfter, StillCaughtUp DEF Before
    <2>7. QED
      BY <1>1, <2>1, <2>2, <2>4, <2>5, <2>6, Handed DEF After
  <1>4. ~WriteFails(p)
    BY DEF WriteFails, Mishap, Minor
  <1>5. CASE Reload(p)
    <2>1. /\ at[p] = "reload" /\ Finish(p)
          /\ UNCHANGED <<day, pairs, certFile, auto>>
      BY <1>5 DEF Reload, files, settings, setup
    <2>2. Moves(p, "idle", NoJob)
      BY <2>1, FinishMoves
    <2>3. at'[p] = "idle" /\ Active \subseteq {p}
      BY <1>1, <2>1, <2>2, Moved
    <2>4. served' = certFile
      BY <1>5, <2>1, <2>3, Newest DEF Reload, Loaded
    <2>5. HandsFresh(p)'
      BY <2>3 DEF HandsFresh
    <2>6. ASSUME auto PROVE CaughtUp'
      <3>1. ~(pairs[certFile].until < day + RenewDays)
        BY <2>1, <2>6 DEF Before, Handing, HandsFresh, NeedsRenewal
      <3>2. certFile \in 1..Len(pairs)
        BY <1>1, <2>1, <2>3, Newest, Lengths DEF WellTyped
      <3>3. pairs[certFile].until >= day + RenewDays
        BY <1>1, <3>1, <3>2, Amounts, Numbers
      <3>4. pairs'[served'].until + Spent' + Today' >= day' + RenewDays
        BY <1>1, <2>1, <2>4, <3>2, <3>3, Amounts, AmountsAfter, Numbers
      <3>5. QED
        BY <3>4 DEF CaughtUp
    <2>7. QED
      BY <1>1, <2>1, <2>2, <2>4, <2>5, <2>6, Handed DEF After
  <1>6. CASE ReloadFails(p)
    <2>1. /\ at[p] = "reload" /\ Finish(p) /\ p = Loop /\ count' = count + 1 /\ pending'
          /\ UNCHANGED <<day, pairs, served, auto, onSince, webroot>>
      BY <1>6 DEF ReloadFails, Mishap, Minor, Remember, settings, setup
    <2>2. Moves(p, "idle", NoJob)
      BY <2>1, FinishMoves
    <2>3. HandsFresh(p)'
      BY <1>1, <2>2, Moved DEF HandsFresh
    <2>4. ASSUME auto PROVE CaughtUp'
      <3>1. Spent' = Spent + 1
        <4>1. count \in Nat /\ webroot \in BOOLEAN /\ webroot' = webroot
          BY <1>1, <2>1, Numbers DEF WellTyped, StateTypes
        <4>2. CASE webroot
          BY <2>1, <4>1, <4>2 DEF Spent
        <4>3. CASE ~webroot
          BY <2>1, <4>1, <4>3 DEF Spent
        <4>4. QED
          BY <4>1, <4>2, <4>3
      <3>2. Spent' + Today' >= Spent + Today
        BY <1>1, <3>1, Amounts, AmountsAfter
      <3>3. QED
        BY <1>1, <2>1, <2>4, <3>2, AmountsAfter, StillCaughtUp DEF Before
    <2>5. QED
      BY <1>1, <2>1, <2>2, <2>3, <2>4, Handed DEF After
  <1>7. QED
    BY <1>2, <1>3, <1>4, <1>5, <1>6, OrderPaid DEF Work

LEMMA LoopPaid ==
    ASSUME Before, WellTyped', Minor',
           Rest \/ Heal \/ RetryReload \/ Renew \/ RenewMisread
    PROVE  After'
  <1>1. WellTyped /\ Alone /\ Healed /\ Loop \in Procs /\ "overlap" \notin mishaps'
    BY Numbers DEF Before, Minor
  <1>2. UNCHANGED <<day, pairs, certFile, served, auto, onSince>>
    BY DEF Rest, Heal, RetryReload, Renew, RenewMisread, files, settings
  <1>3. CASE Rest
    <2>1. UNCHANGED <<at, job, pending, webroot, count>> /\ ~ticked
      BY <1>3 DEF Rest, procs, past, setup
    <2>2. \A q \in Procs : (Changing(q) <=> Changing(q)') /\ HandsFresh(q)'
      BY <1>2, <2>1 DEF Changing, HandsFresh, NeedsRenewal, Before, Handing
    <2>3. Handing' /\ Quiet' = Quiet
      BY <1>2, <2>1, <2>2 DEF Before, Handing, Quiet
    <2>4. Spent' = Spent
      BY <2>1 DEF Spent
    <2>5. ASSUME auto, Turned' PROVE CaughtUp'
      <3>1. Quiet
        BY <2>3, <2>5 DEF Turned
      <3>2. \A q \in Procs : at[q] \notin {"cert", "key"}
        BY <3>1 DEF Quiet, Changing
      <3>3. certFile # Torn
        <4>1. CASE Active = {}
          BY <1>1, <4>1, Lengths DEF Before, Settled, WellTyped, Torn
        <4>2. CASE Active # {}
          <5>1. PICK q \in Procs : q \in Active
            BY <4>2 DEF Active
          <5>2. certFile = Len(pairs)
            BY <3>2, <5>1 DEF Before, Settled, Writing
          <5>3. QED
            BY <1>1, <5>2, Lengths DEF WellTyped, Torn
        <4>3. QED
          BY <4>1, <4>2
      <3>4. ~NeedsRenewal(certFile) /\ ~pending
        BY <1>3, <2>5, <3>3 DEF Rest
      <3>5. served = certFile
        BY <3>1, <3>4 DEF Before, Handing
      <3>6. pairs[served].until >= day + RenewDays
        BY <1>1, <3>4, <3>5, Amounts, Numbers DEF NeedsRenewal
      <3>7. pairs'[served'].until + Spent' + Today' >= day' + RenewDays
        BY <1>1, <1>2, <3>6, Amounts, AmountsAfter, Numbers
      <3>8. QED
        BY <3>7 DEF CaughtUp
    <2>6. ASSUME auto, ~Turned' PROVE CaughtUp'
      <3>1. Spent' + Today' >= Spent + Today
        BY <1>1, <2>4, <2>6, Amounts, AmountsAfter
      <3>2. QED
        BY <1>1, <1>2, <2>6, <3>1, AmountsAfter, StillCaughtUp DEF Before
    <2>7. QED
      BY <1>2, <2>3, <2>5, <2>6 DEF After
  <1>4. CASE Heal \/ RetryReload \/ Renew
    <2>1. PICK a \in {"heal", "reload", "order"} : \E j : Begin(Loop, a, j)
                                                          /\ (a = "reload" => ~NeedsRenewal(certFile) /\ pending)
      BY <1>4 DEF Heal, RetryReload, Renew
    <2> PICK j : Begin(Loop, a, j) /\ (a = "reload" => ~NeedsRenewal(certFile) /\ pending)
      BY <2>1
    <2>2. /\ Moves(Loop, a, j) /\ UNCHANGED past /\ UNCHANGED <<webroot, pending>> /\ ~ticked
          /\ at[Loop] = "idle"
      BY <1>1, <1>4, <2>1, BeginMoves DEF Heal, RetryReload, Renew, setup
    <2>3. at'[Loop] = a /\ ~Changing(Loop)
      BY <1>1, <2>2, Moved DEF Changing
    <2>4. HandsFresh(Loop)'
      <3>1. a = "reload" => ~NeedsRenewal(certFile)'
        BY <1>2, <2>1 DEF NeedsRenewal
      <3>2. QED
        BY <2>3, <3>1 DEF HandsFresh
    <2>5. ~pending' => served' = certFile'
      BY <1>1, <1>2, <2>2, <2>3, QuietBy DEF Before, Handing
    <2>6. ASSUME auto PROVE CaughtUp'
      <3>1. ~Turned' /\ Spent' = Spent
        BY <2>2, <2>3 DEF Turned, Spent, past
      <3>2. Spent' + Today' >= Spent + Today
        BY <1>1, <3>1, Amounts, AmountsAfter
      <3>3. QED
        BY <1>1, <1>2, <2>6, <3>2, AmountsAfter, StillCaughtUp DEF Before
    <2>7. QED
      BY <1>1, <1>2, <2>2, <2>4, <2>5, <2>6, Handed DEF After
  <1>5. ~RenewMisread
    BY DEF RenewMisread, Mishap, Minor
  <1>6. QED
    BY <1>3, <1>4, <1>5

\* The reconcile hands nginx the pair that it has, and is paid for by what it heals.
LEMMA ReconcilePaid == ASSUME Before, WellTyped', Minor', ReconcileStep PROVE After'
  <1>1. WellTyped /\ Alone /\ Healed /\ Wired /\ Handing
    BY DEF Before
  <1>2. Loop \in Procs /\ at[Loop] \in {"heal", "panel", "nginx"} /\ Active = {Loop}
    BY <1>1, ReconcileMoves
  <1>3. PICK a \in {"idle", "panel", "nginx"} : Moves(Loop, a, NoJob)
    BY <1>1, ReconcileMoves
  <1>4. at'[Loop] = a /\ ~Changing(Loop) /\ ~Changing(Loop)' /\ HandsFresh(Loop)'
    BY <1>1, <1>2, <1>3, Moved DEF Changing, HandsFresh
  <1>5. certFile = served /\ Loadable
    <2>1. ~pending
      BY <1>1, <1>2 DEF Healed, Reconciling
    <2>2. QED
      BY <1>1, <1>2, <1>3, <1>4, <2>1, QuietBy, Newest DEF Handing
  <1>6. UNCHANGED <<day, pairs, certFile, auto, onSince>>
    BY DEF ReconcileStep, ReconcileSnippet, ReconcilePanel, Reconciled, ReconcileFails, ReconcileStops,
           files, settings
  <1>7. ~ReconcileStops
    <2> SUFFICES ASSUME ReconcileStops PROVE FALSE
      OBVIOUS
    <2>1. "half heal" \in mishaps'
      BY <1>5 DEF ReconcileStops, Mishap
    <2>2. QED
      BY <2>1 DEF Minor
  <1>8. served' = served
    BY <1>5, <1>7 DEF ReconcileStep, ReconcileSnippet, ReconcilePanel, Reconciled, ReconcileFails, Loaded
  <1>9. count \in Nat /\ ~webroot
    <2>1. count \in Nat
      BY <1>1 DEF WellTyped, StateTypes
    <2>2. ~(snippet /\ at[Loop] \notin {"panel", "nginx"})
      <3>1. at[Loop] = "heal" => ~snippet
        BY <1>1 DEF Healed
      <3>2. QED
        BY <1>2, <3>1
    <2>3. ~webroot
      BY <1>1, <2>2, Zenon DEF Wired
    <2>4. QED
      BY <2>1, <2>3
  <1>10. Spent' + Today' >= Spent + Today
    <2>1. CASE Reconciled
      <3>1. webroot' /\ count' = count
        BY <1>1, <2>1 DEF Reconciled, Loaded, Healed, past
      <3>2. Spent' = Spent + 1
        BY <1>9, <3>1 DEF Spent
      <3>3. QED
        BY <1>1, <3>2, Amounts, AmountsAfter
    <2>2. CASE ReconcileFails
      <3>1. ~webroot' /\ count' = count + 1
        BY <1>9, <2>2 DEF ReconcileFails, Mishap, setup
      <3>2. Spent' = Spent + 1
        BY <1>9, <3>1 DEF Spent
      <3>3. QED
        BY <1>1, <3>2, Amounts, AmountsAfter
    <2>3. CASE ReconcileSnippet \/ ReconcilePanel
      <3>1. ~webroot' /\ count' = count /\ at'[Loop] # "idle"
        BY <1>2, <1>4, <1>9, <2>3 DEF ReconcileSnippet, ReconcilePanel, GoTo, RestartPanel, setup, past,
                                      Reconciling, WellTyped, ProcTypes
      <3>2. Spent' = Spent /\ ~Turned'
        BY <1>9, <3>1 DEF Spent, Turned
      <3>3. QED
        BY <1>1, <3>2, Amounts, AmountsAfter
    <2>4. QED
      BY <1>7, <2>1, <2>2, <2>3 DEF ReconcileStep
  <1>11. auto => CaughtUp'
    BY <1>1, <1>6, <1>8, <1>10, AmountsAfter, StillCaughtUp DEF Before
  <1>12. QED
    BY <1>1, <1>2, <1>3, <1>4, <1>5, <1>6, <1>8, <1>11, Handed DEF After

\* nginx follows its files.
LEMMA WiredStep == ASSUME Before, Minor', [Next]_vars PROVE Wired'
  <1>1. WellTyped /\ Alone /\ Healed /\ Wired /\ Loop \in Procs /\ at \in [Procs -> At]
        /\ \A r \in Requests : r # Loop /\ r \in Procs
    BY Numbers DEF Before, WellTyped, ProcTypes
  <1>2. ASSUME NEW p \in Procs, Work(p) PROVE Wired'
    <2>1. at[p] \notin {"idle", "panel", "nginx"}
      BY <1>2 DEF Work, Order, OrderFails, WriteCert, WriteKey, WriteFails, Reload, ReloadFails
    <2>2. at[Loop] \notin {"panel", "nginx"}
      BY <1>1, <2>1 DEF Alone, Active
    <2>3. at'[Loop] \notin {"panel", "nginx"}
      <3>1. at' = [at EXCEPT ![p] = "cert"] \/ GoTo(p, "key") \/ GoTo(p, "manual") \/ GoTo(p, "reload")
            \/ Finish(p)
        BY <1>2 DEF Work, Order, OrderFails, WriteCert, WriteKey, WriteFails, Reload, ReloadFails
      <3>2. QED
        BY <1>1, <2>2, <3>1 DEF GoTo, Finish
    <2>4. snippet' = snippet /\ webroot' \in {webroot, snippet}
      BY <1>2 DEF Work, Order, OrderFails, WriteCert, WriteKey, WriteFails, Reload, ReloadFails, Loaded,
                  setup
    <2>5. webroot = snippet /\ snippet \in BOOLEAN
      BY <1>1, <2>2 DEF Wired, WellTyped, StateTypes
    <2>6. webroot' = snippet' /\ snippet' \in BOOLEAN
      BY <2>4, <2>5
    <2>7. QED
      BY <2>3, <2>6 DEF Wired
  <1>3. CASE ReconcileStep
    <2>1. at[Loop] \in {"heal", "panel", "nginx"} /\ Active = {Loop} /\ (at[Loop] # "heal" => snippet)
      BY <1>1, <1>3, ReconcileMoves DEF Healed
    <2>2. Loadable
      BY <1>1, <2>1, Newest
    <2>3. ~ReconcileStops
      <3> SUFFICES ASSUME ReconcileStops PROVE FALSE
        OBVIOUS
      <3>1. "half heal" \in mishaps'
        BY <2>2 DEF ReconcileStops, Mishap
      <3>2. QED
        BY <3>1 DEF Minor
    <2>4. CASE ReconcileSnippet
      BY <1>1, <2>4 DEF ReconcileSnippet, GoTo, Healed, Wired
    <2>5. CASE ReconcilePanel
      BY <1>1, <2>5 DEF ReconcilePanel, GoTo, RestartPanel, Reconciling, setup, Wired
    <2>6. CASE Reconciled
      BY <1>1, <2>1, <2>6 DEF Reconciled, Loaded, Finish, Wired
    <2>7. CASE ReconcileFails
      BY <1>1, <2>7 DEF ReconcileFails, Finish, setup, Wired
    <2>8. QED
      BY <1>3, <2>3, <2>4, <2>5, <2>6, <2>7 DEF ReconcileStep
  <1>4. CASE Rest \/ Heal \/ RetryReload \/ Renew \/ RenewMisread
    <2>1. /\ at[Loop] = "idle" /\ UNCHANGED <<snippet, webroot>>
          /\ at'[Loop] \in {"idle", "heal", "reload", "order"}
      BY <1>1, <1>4 DEF Rest, Heal, RetryReload, Renew, RenewMisread, Begin, procs, setup
    <2>2. QED
      BY <1>1, <2>1 DEF Wired
  <1>5. ASSUME NEW r \in Requests, Request(r), ~Work(r) PROVE Wired'
    <2>1. \E a : at' = [at EXCEPT ![r] = a]
      BY <1>5 DEF Request, RenewByHand, Upload, ClearManual, Configure, ConfigureOldForm, SetManual,
                  SetAuto, SetFails, Begin, Finish, GoTo
    <2>2. at'[Loop] = at[Loop]
      BY <1>1, <2>1
    <2>3. UNCHANGED <<snippet, webroot>>
      BY <1>5 DEF Request, RenewByHand, Upload, ClearManual, Configure, ConfigureOldForm, SetManual,
                  SetAuto, SetFails, setup
    <2>4. QED
      BY <1>1, <2>2, <2>3 DEF Wired
  <1>6. ~Restart
    BY DEF Restart, Mishap, Minor
  <1>7. CASE DayPasses \/ UNCHANGED vars
    BY <1>1, <1>7 DEF DayPasses, vars, procs, setup, Wired
  <1>8. QED
    BY <1>1, <1>2, <1>3, <1>4, <1>5, <1>6, <1>7 DEF Next, RenewalLoop, ReconcileStep

\* A step of a request that neither orders, writes nor reloads.
LEMMA SameDues ==
    ASSUME Before, WellTyped', auto, NEW r \in Requests, NEW a, NEW j, Moves(r, a, j),
           UNCHANGED <<day, ticked, onSince, served, webroot, count>>,
           pairs'[served] = pairs[served],
           Changing(r) => Changing(r)'
    PROVE  CaughtUp'
  <1>1. WellTyped /\ Alone /\ r \in Procs /\ r # Loop /\ Loop \in Procs
    BY Numbers DEF Before
  <1>2. at[Loop] = "idle" /\ at'[Loop] = "idle"
    BY <1>1, Moved DEF Active
  <1>3. Turned' => Turned
    BY <1>1, <1>2, QuietBy DEF Turned
  <1>4. Spent' = Spent /\ Today' >= Today
    BY <1>3 DEF Spent, Today
  <1>5. Spent' + Today' >= Spent + Today
    BY <1>1, <1>4, Amounts, AmountsAfter
  <1>6. QED
    BY <1>1, <1>5, AmountsAfter, StillCaughtUp DEF Before

LEMMA AskPaid ==
    ASSUME Before, WellTyped', Minor', NEW r \in Requests,
           RenewByHand(r) \/ Upload(r) \/ ClearManual(r) \/ Configure(r) \/ ConfigureOldForm(r)
    PROVE  After'
  <1>1. WellTyped /\ Alone /\ r \in Procs /\ r # Loop /\ "overlap" \notin mishaps'
    BY Numbers DEF Before, Minor
  <1>2. UNCHANGED <<day, ticked, certFile, served, auto, onSince, webroot, pending>>
    BY DEF RenewByHand, Upload, ClearManual, Configure, ConfigureOldForm, files, settings, setup
  <1>3. CASE RenewByHand(r) \/ ClearManual(r) \/ Configure(r)
    <2>1. PICK a \in {"order", "manual", "auto"}, op \in {"hand", "clear", "on", "off"} :
             Begin(r, a, [op |-> op])
      BY <1>3 DEF RenewByHand, ClearManual, Configure
    <2> DEFINE j == [op |-> op]
    <2>2. j.op # "upload" /\ Begin(r, a, j)
      BY <2>1
    <2> HIDE DEF j
    <2>3. /\ Moves(r, a, j) /\ UNCHANGED past /\ UNCHANGED pairs
      BY <1>1, <1>3, <2>2, BeginMoves DEF RenewByHand, ClearManual, Configure
    <2>4. at'[r] = a /\ job'[r] = j /\ at[r] = "idle"
      BY <1>1, <2>2, <2>3, Moved DEF Begin
    <2>5. ~Changing(r) /\ ~Changing(r)' /\ HandsFresh(r)'
      BY <2>2, <2>4 DEF Changing, HandsFresh
    <2>6. ~pending' => served' = certFile'
      BY <1>1, <1>2, <2>3, <2>5, QuietBy DEF Before, Handing
    <2>7. auto => CaughtUp'
      BY <1>2, <2>3, <2>5, SameDues DEF past
    <2>8. QED
      BY <1>1, <1>2, <2>3, <2>5, <2>6, <2>7, Handed DEF After
  <1>4. CASE Upload(r)
    <2> DEFINE j == [op |-> "upload", pair |-> Len(pairs) + 1]
    <2>1. PICK pair \in Acceptable : pairs' = Append(pairs, pair)
      BY <1>4 DEF Upload
    <2>2. StateTypes
      BY <1>1 DEF WellTyped
    <2>10. day \in Nat /\ Life \in Nat
      BY <2>2, Numbers DEF StateTypes
    <2>11. pair.by = "manual" /\ pair.until \in {day, day + Life}
           /\ pair = [by |-> pair.by, until |-> pair.until]
      BY <2>1 DEF Acceptable
    <2>12. pair \in Pair
      BY <2>10, <2>11 DEF Pair
    <2>3. pairs'[served] = pairs[served]
      BY <2>1, <2>2, <2>12, Appended DEF StateTypes
    <2>4. j.op = "upload" /\ Begin(r, "cert", j)
      BY <1>4 DEF Upload
    <2> HIDE DEF j
    <2>5. Moves(r, "cert", j) /\ UNCHANGED past
      BY <1>1, <2>4, BeginMoves
    <2>6. at'[r] = "cert" /\ job'[r] = j
      BY <1>1, <2>5, Moved
    <2>7. Changing(r)' /\ HandsFresh(r)'
      BY <2>4, <2>6 DEF Changing, HandsFresh
    <2>8. auto => CaughtUp'
      BY <1>2, <2>3, <2>5, <2>7, SameDues DEF past
    <2>9. QED
      BY <1>1, <1>2, <2>5, <2>7, <2>8, Handed DEF After
  <1>5. ~ConfigureOldForm(r)
    <2> SUFFICES ASSUME ConfigureOldForm(r) PROVE FALSE
      OBVIOUS
    <2>1. mishaps' = mishaps \cup {"old form"}
      BY DEF ConfigureOldForm, Mishap
    <2>2. "old form" \in mishaps'
      BY <2>1
    <2>3. "old form" \notin mishaps'
      BY DEF Minor
    <2>4. QED
      BY <2>2, <2>3
  <1>6. QED
    BY <1>3, <1>4, <1>5

LEMMA SetPaid ==
    ASSUME Before, WellTyped', Minor', NEW r \in Requests, SetManual(r) \/ SetAuto(r) \/ SetFails(r)
    PROVE  After'
  <1>1. WellTyped /\ Alone /\ r \in Procs /\ Fits(r, at[r], job[r], Len(pairs))
    BY Numbers DEF Before, WellTyped, ProcTypes
  <1>2. UNCHANGED <<day, ticked, pairs, certFile, served, webroot, pending>>
    BY DEF SetManual, SetAuto, SetFails, files, settings, setup
  <1>3. CASE SetManual(r)
    <2>1. at[r] = "manual" /\ GoTo(r, "auto") /\ UNCHANGED <<auto, onSince, count>>
      BY <1>3 DEF SetManual, past
    <2>2. Moves(r, "auto", job[r])
      BY <1>1, <2>1, GoMoves
    <2>3. at'[r] = "auto" /\ job'[r] = job[r]
      BY <1>1, <2>2, Moved
    <2>4. (Changing(r) <=> Changing(r)') /\ HandsFresh(r)'
      BY <2>1, <2>3 DEF Changing, HandsFresh
    <2>5. ~pending' /\ ~Changing(r)' => served' = certFile'
      BY <1>1, <1>2, <2>2, <2>4, QuietBy DEF Before, Handing
    <2>6. auto => CaughtUp'
      BY <1>2, <2>1, <2>2, <2>4, SameDues
    <2>7. QED
      BY <1>1, <2>1, <2>2, <2>4, <2>5, <2>6, Handed DEF After
  <1>4. CASE SetAuto(r) /\ job[r].op = "upload"
    <2>1. at[r] = "auto" /\ GoTo(r, "reload") /\ ~auto'
      BY <1>4 DEF SetAuto
    <2>2. Moves(r, "reload", job[r])
      BY <1>1, <2>1, GoMoves
    <2>3. at'[r] = "reload"
      BY <1>1, <2>2, Moved
    <2>4. Changing(r)' /\ HandsFresh(r)'
      BY <2>1, <2>3 DEF Changing, HandsFresh
    <2>5. QED
      BY <1>1, <2>1, <2>2, <2>4, Handed DEF After
  <1>5. CASE SetAuto(r) /\ job[r].op # "upload"
    <2>1. /\ at[r] = "auto" /\ Finish(r) /\ onSince' = (IF auto THEN onSince ELSE day)
          /\ UNCHANGED count
      BY <1>5 DEF SetAuto, past
    <2>2. Moves(r, "idle", NoJob)
      BY <1>1, <2>1, FinishMoves
    <2>3. at'[r] = "idle"
      BY <1>1, <2>2, Moved
    <2>4. ~Changing(r) /\ ~Changing(r)' /\ HandsFresh(r)'
      BY <1>5, <2>1, <2>3 DEF Changing, HandsFresh
    <2>5. ~pending' => served' = certFile'
      BY <1>1, <1>2, <2>2, <2>4, QuietBy DEF Before, Handing
    <2>6. CASE auto
      BY <1>1, <1>2, <2>1, <2>2, <2>4, <2>5, <2>6, SameDues, Handed DEF After
    <2>7. CASE ~auto
      <3>1. day' <= onSince' + Spent' + Today'
        <4>1. onSince' = day /\ day' = day
          BY <1>2, <2>1, <2>7
        <4>2. QED
          BY <1>1, <4>1, Amounts, AmountsAfter
      <3>2. CaughtUp'
        BY <3>1 DEF CaughtUp
      <3>3. QED
        BY <1>1, <2>2, <2>4, <2>5, <3>2, Handed DEF After
    <2>8. QED
      BY <2>6, <2>7
  <1>6. ~SetFails(r)
    BY DEF SetFails, Mishap, Minor
  <1>7. QED
    BY <1>3, <1>4, <1>5, <1>6

LEMMA DayPaid == ASSUME Before, WellTyped', DayPasses PROVE After'
  <1>1. /\ WellTyped /\ ticked /\ Active = {} /\ Loop \in Procs
        /\ UNCHANGED <<at, job, pairs, certFile, served, auto, onSince, webroot, pending, count>>
    BY Numbers DEF Before, DayPasses, files, settings, setup, procs, past
  <1>2. \A q \in Procs : at[q] = "idle"
    BY <1>1 DEF Active
  <1>3. Quiet /\ at[Loop] = "idle" /\ ~ticked' /\ \A q \in Procs : HandsFresh(q)'
    BY <1>1, <1>2 DEF Quiet, Changing, HandsFresh, DayPasses
  <1>4. Handing'
    BY <1>1, <1>3 DEF Before, Handing
  <1>5. ASSUME auto PROVE CaughtUp'
    <2>1. Turned /\ ~Turned' /\ Spent' = Spent
      BY <1>1, <1>3 DEF Turned, Spent
    <2>2. Today = 0 /\ Today' = 1
      BY <2>1 DEF Today
    <2>3. day' \in Nat /\ day' <= day + 1
      BY <1>1, Numbers, Amounts DEF DayPasses
    <2>4. CASE day <= onSince + Spent + Today
      <3>1. day' <= onSince + Spent + 1
        BY <1>1, <2>2, <2>3, <2>4, Amounts
      <3>2. QED
        BY <1>1, <2>1, <2>2, <3>1 DEF CaughtUp
    <2>5. CASE pairs[served].until + Spent + Today >= day + RenewDays
      <3>1. pairs[served].until + Spent + 1 >= day' + RenewDays
        BY <1>1, <2>2, <2>3, <2>5, Amounts, Numbers
      <3>2. QED
        BY <1>1, <2>1, <2>2, <3>1 DEF CaughtUp
    <2>6. QED
      BY <1>5, <2>4, <2>5 DEF Before, CaughtUp
  <1>6. QED
    BY <1>1, <1>4, <1>5 DEF After

LEMMA StepPaid == WellTyped /\ Undisturbed /\ Healed /\ Paid /\ [Next]_vars => Paid'
  <1> SUFFICES ASSUME WellTyped, Undisturbed, Healed, Paid, [Next]_vars, Minor'
               PROVE  Wired' /\ After'
    BY DEF Paid, After
  <1>1. WellTyped' /\ mishaps \subseteq mishaps'
    BY StepTypes, Grows
  <1>2. Minor /\ "overlap" \notin mishaps /\ mishaps \cap {"write", "restart"} = {}
    BY <1>1 DEF Minor
  <1>3. Before
    BY <1>2 DEF Before, Undisturbed, Paid
  <1>4. ASSUME RenewalLoop PROVE After'
    BY <1>1, <1>3, <1>4, LoopPaid, ReconcilePaid, WorkPaid, Numbers DEF RenewalLoop, ReconcileStep
  <1>5. ASSUME NEW r \in Requests, Request(r) PROVE After'
    <2>1. r \in Procs
      BY Numbers
    <2>2. QED
      BY <1>1, <1>3, <1>5, <2>1, AskPaid, SetPaid, WorkPaid DEF Request
  <1>6. ~Restart
    BY DEF Restart, Mishap, Minor
  <1>7. ASSUME UNCHANGED vars PROVE After'
    <2>1. UNCHANGED <<day, ticked, pairs, certFile, served, auto, onSince, webroot, pending, at, job, count>>
      BY <1>7 DEF vars, files, settings, setup, procs, past
    <2>2. QED
      BY <1>3, <2>1 DEF Before, After, Handing, HandsFresh, NeedsRenewal, Quiet, Changing, CaughtUp,
                        Turned, Today, Spent
  <1>8. QED
    BY <1>1, <1>3, <1>4, <1>5, <1>6, <1>7, DayPaid, WiredStep DEF Next

LEMMA InitPaid == Init => Healed /\ Paid
  <1> SUFFICES ASSUME Init PROVE Healed /\ Wired /\ Handing /\ CaughtUp
    BY DEF Paid
  <1>1. /\ day = 0 /\ onSince = 0 /\ certFile = 1 /\ served = 1 /\ ~pending /\ webroot = snippet
        /\ \A p \in Procs : at[p] = "idle"
    BY DEF Init
  <1>2. Healed /\ Handing
    BY <1>1, Numbers DEF Healed, Reconciling, Handing, HandsFresh
  <1>3. Wired
    BY <1>1, Numbers DEF Wired, Init
  <1>4. CaughtUp
    <2>1. WellTyped
      BY InitTypes
    <2>2. QED
      BY <1>1, <2>1, Amounts DEF CaughtUp
  <1>5. QED
    BY <1>2, <1>3, <1>4

\* runner.go:27-31: while renewal is automatic and orders, reloads and reconciles that have
\* not begun to write fail no more often than the margin has days but two, nginx never serves
\* a certificate that has expired, whatever is ordered, uploaded, switched off and on again by
\* hand in between.
THEOREM NeverExpiredHolds == Spec => []NeverExpired
  <1>1. Spec => [](WellTyped /\ Healed /\ Paid)
    <2>1. /\ WellTyped /\ Undisturbed /\ Healed /\ Paid /\ [Next]_vars
          => Healed' /\ Paid'
      BY HealedStep, StepPaid
    <2>2. QED
      BY InitPaid, <2>1, AlwaysUndisturbed, PTL DEF Spec
  <1>2. WellTyped /\ Healed /\ Paid => NeverExpired
    <2> SUFFICES ASSUME WellTyped, Paid, auto, Minor, MaxMishaps + 1 < RenewDays,
                        day > onSince + MaxMishaps + 2
                 PROVE  pairs[served].until >= day
      BY DEF NeverExpired, Minor, Valid
    <2>1. CaughtUp
      BY DEF Paid
    <2>2. /\ day \in Nat /\ onSince \in Nat /\ Spent \in Nat /\ Spent <= MaxMishaps + 1
          /\ Today \in {0, 1} /\ pairs[served].until \in Nat /\ MaxMishaps \in Nat /\ RenewDays \in Nat
      BY Amounts, Numbers
    <2>3. ~(day <= onSince + Spent + Today)
      BY <2>2
    <2>4. pairs[served].until + Spent + Today >= day + RenewDays
      BY <2>1, <2>3 DEF CaughtUp
    <2>5. QED
      BY <2>2, <2>4
  <1>3. QED
    BY <1>1, <1>2, PTL
=============================================================================
