---------------------------- MODULE UpdateProofs ----------------------------
(***************************************************************************)
(* Proofs about Update for any components, order, number of releases and   *)
(* of runs, with and without failures and kills.  What the updates of one  *)
(* updater at a time make of the files is proved of that case only: two    *)
(* of them share the paths (apply.go:138).                                 *)
(***************************************************************************)
EXTENDS Update, SequenceTheorems, TLAPS

Applying == {"backup", "replace", "chown", "restart", "health", "rollback", "rb_restart", "cleanup"}

\* There is something to check, or to apply, where the updater works on its first element.
Working(u) ==
    /\ pc[u] = "check" => job[u].todo # <<>>
    /\ pc[u] \in Applying => job[u].queue # <<>>
    /\ pc[u] = "idle" => job[u].queue = <<>>

WellTyped == TypeOK /\ \A u \in Updaters : Working(u)

-----------------------------------------------------------------------------
(* One updater at a time. *)

Alone == \A u, v \in Updaters : u = v

\* All but the panel, whose version nobody asks its binary for.
Known == Components \ {Panel}

\* The components still to be checked, or to be upgraded, are different ones; what has been
\* found of them is still so, and the release is the one on record.
Planned(u) ==
    LET todo == job[u].todo
        queue == job[u].queue
    IN  /\ pc[u] = "check" =>
              /\ job[u].self = disk[CLI] /\ \A c \in Probed : job[u].found[c] = disk[c]
              /\ \A i, j \in DOMAIN todo : todo[i] = todo[j] => i = j
              /\ \A i \in DOMAIN todo, j \in DOMAIN queue : todo[i] # queue[j][1]
        /\ \A i, j \in DOMAIN queue : queue[i][1] = queue[j][1] => i = j
        /\ \A i \in DOMAIN queue :
              /\ queue[i][2] = seen[queue[i][1]]
              /\ queue[i][1] \in Known /\ (i # 1 \/ pc[u] \notin Applying) =>
                    disk[queue[i][1]] \in Build /\ disk[queue[i][1]] < queue[i][2]

\* The files of the component that is being upgraded, from c to build b.
Stage(u, c, b) ==
    /\ pc[u] \in {"backup", "replace"} => disk[c] \in Build /\ disk[c] < b
    /\ pc[u] = "backup" => tmp[c] = b
    /\ pc[u] = "replace" => tmp[c] \in {b, Absent} /\ bak[c] = disk[c] /\ job[u].previous = disk[c]
    /\ pc[u] \in {"chown", "restart", "health", "rollback"} =>
          disk[c] = b /\ bak[c] = job[u].previous /\ bak[c] \in Build
    /\ pc[u] \in {"rb_restart", "cleanup"} => disk[c] \in Build

Staged(u) ==
    pc[u] \in Applying /\ Component(u) \in Known =>
        Stage(u, Component(u), Head(job[u].queue)[2])

\* A binary that is torn has a whole backup.
Spared == \A c \in Known : disk[c] = Torn => bak[c] \in Build

FilesOK == WellTyped /\ Spared /\ \A u \in Updaters : Planned(u) /\ Staged(u)

\* As long as nothing has failed, a good release on record is installed or still to be, and
\* only a bad one is taken back.
Awaited(c) ==
    \E u \in Updaters : \E i \in DOMAIN job[u].queue :
        /\ job[u].queue[i][1] = c
        /\ i = 1 => pc[u] \in {"check", "apply", "backup", "replace"}

Bad(u) == ~Good(Component(u), Head(job[u].queue)[2])

Kept ==
    clean =>
        /\ \A c \in Known : disk[c] \in Build
        /\ \A c \in Known : Good(c, seen[c]) => (disk[c] >= seen[c] \/ Awaited(c))
        /\ \A u \in Updaters : pc[u] \in Applying /\ Component(u) \in Known =>
              /\ pc[u] \in {"restart", "health", "rollback", "rb_restart"} => Component(u) \in Services
              /\ pc[u] = "health" /\ ~Bad(u) => running[Component(u)] = Head(job[u].queue)[2]
              /\ pc[u] \in {"rollback", "rb_restart"} => Bad(u)

RecordsOK == FilesOK /\ Kept
-----------------------------------------------------------------------------
(* Types. *)

JobTypes ==
    /\ pc \in [Updaters -> PC] /\ job \in [Updaters -> Job]
    /\ \A u \in Updaters : Working(u)

FileTypes ==
    /\ stamp \in [Components -> {"recent", "old", "torn"}]
    /\ seen \in [Components -> 0..MaxBuild]
    /\ latest \in [Components -> Build] /\ bad \subseteq Services \X Build
    /\ disk \in [Components -> 0..MaxBuild]
    /\ bak \in [Components -> File] /\ tmp \in [Components -> Build \cup {Absent}]
    /\ running \in [Services -> 0..MaxBuild] /\ units \in Build
    /\ runs \in 0..MaxRuns /\ clean \in BOOLEAN

LEMMA TypeParts == WellTyped <=> JobTypes /\ FileTypes
  BY DEF WellTyped, TypeOK, JobTypes, FileTypes

LEMMA TypesAfter == ASSUME JobTypes', FileTypes' PROVE WellTyped'
  BY DEF WellTyped, TypeOK, JobTypes, FileTypes

LEMMA Numbers ==
    /\ MaxBuild \in Nat /\ MaxBuild >= 1
    /\ \A n \in 0..MaxBuild : n \in File /\ n # Absent /\ (n \in Build <=> n # Torn)
    /\ Build \subseteq 0..MaxBuild /\ Absent \in File /\ Torn \in File /\ Torn \in 0..MaxBuild
    /\ \A n \in File : n # Absent => n \in 0..MaxBuild
    /\ \A n \in Build : n \in Nat /\ n # Absent /\ n # Torn
    /\ 1 \in Build
  BY UpdateAssumption DEF File, Absent, Torn, Build

LEMMA NoJobType == NoJob \in Job
  <1>1. NotAsked \in [Probed -> File]
    BY Numbers DEF NotAsked
  <1>2. 1 \in Build /\ Absent \in File /\ <<>> \in Seq(Components) /\ <<>> \in Seq(Components \X Build)
    BY Numbers
  <1>3. QED
    BY <1>1, <1>2 DEF NoJob, Job

LEMMA InitTypes == Init => WellTyped
  <1> SUFFICES ASSUME Init PROVE JobTypes /\ FileTypes
    BY TypeParts
  <1>1. JobTypes
    BY NoJobType DEF Init, JobTypes, PC, Working, Applying, NoJob
  <1>2. FileTypes
    BY Numbers, UpdateAssumption DEF Init, FileTypes, Services, Down, Torn
  <1>3. QED
    BY <1>1, <1>2

\* An updater that goes on.
LEMMA JobStep ==
    ASSUME JobTypes, NEW u \in Updaters, NEW p \in PC, NEW j \in Job,
           pc' = [pc EXCEPT ![u] = p], job' = [job EXCEPT ![u] = j],
           p = "check" => j.todo # <<>>, p \in Applying => j.queue # <<>>,
           p = "idle" => j.queue = <<>>
    PROVE  JobTypes'
  BY DEF JobTypes, Working

LEMMA IdleStep ==
    ASSUME JobTypes, NEW u \in Updaters,
           pc' = [pc EXCEPT ![u] = "idle"], job' = [job EXCEPT ![u] = NoJob]
    PROVE  JobTypes'
  <1>1. "idle" \in PC /\ "idle" \notin Applying /\ NoJob.queue = <<>>
    BY DEF PC, Applying, NoJob
  <1>2. QED
    BY <1>1, NoJobType, JobStep

LEMMA PcStep ==
    ASSUME JobTypes, NEW u \in Updaters, NEW p \in PC, pc' = [pc EXCEPT ![u] = p], job' = job,
           p # "check", p # "idle", job[u].queue # <<>>
    PROVE  JobTypes'
  BY DEF JobTypes, Working

\* The end of an upgrade: the next one, without a candidate.
LEMMA LeaveStep ==
    ASSUME JobTypes, NEW u \in Updaters, pc[u] \in Applying, Leave(u)
    PROVE  /\ JobTypes' /\ Component(u) \in Components
           /\ tmp \in [Components -> Build \cup {Absent}] =>
                 tmp' \in [Components -> Build \cup {Absent}]
  <1>1. job[u] \in Job /\ job[u].queue \in Seq(Components \X Build) /\ job[u].queue # <<>>
    BY DEF JobTypes, Job, Working
  <1>2. Tail(job[u].queue) \in Seq(Components \X Build) /\ Head(job[u].queue) \in Components \X Build
    BY <1>1, HeadTailProperties
  <1> DEFINE j == [job[u] EXCEPT !.queue = Tail(job[u].queue), !.previous = Absent]
  <1>3. j \in Job
    BY <1>1, <1>2, Numbers DEF Job
  <1>4. job' = [job EXCEPT ![u] = j] /\ pc' = [pc EXCEPT ![u] = "apply"]
    BY DEF Leave, JobTypes
  <1>5. JobTypes'
    <2> HIDE DEF j
    <2>1. "apply" \in PC /\ "apply" \notin Applying
      BY DEF PC, Applying
    <2>2. QED
      BY <1>3, <1>4, <2>1, JobStep
  <1>6. Component(u) \in Components
    BY <1>2 DEF Component
  <1>7. QED
    BY <1>5, <1>6 DEF Leave

\* A component to check, a build to install.
LEMMA HeadTypes ==
    ASSUME JobTypes, NEW u \in Updaters
    PROVE  /\ job[u] \in Job /\ job[u].queue \in Seq(Components \X Build)
           /\ job[u].todo \in Seq(Components) /\ pc[u] \in PC
           /\ job[u].queue # <<>> =>
                 Component(u) \in Components /\ Head(job[u].queue)[2] \in Build
           /\ pc[u] = "check" => job[u].todo # <<>> /\ Head(job[u].todo) \in Components
  <1>1. /\ job[u] \in Job /\ job[u].queue \in Seq(Components \X Build)
        /\ job[u].todo \in Seq(Components) /\ pc[u] \in PC /\ Working(u)
    BY DEF JobTypes, Job
  <1>2. ASSUME job[u].queue # <<>> PROVE Head(job[u].queue) \in Components \X Build
    BY <1>1, <1>2, HeadTailProperties
  <1>3. ASSUME pc[u] = "check"
        PROVE  job[u].todo # <<>> /\ Head(job[u].todo) \in Components
    BY <1>1, <1>3, HeadTailProperties DEF Working
  <1>4. QED
    BY <1>1, <1>2, <1>3 DEF Component

LEMMA StartTypes ==
    ASSUME WellTyped, NEW u \in Updaters, NEW auto \in BOOLEAN, Start(u, auto) PROVE WellTyped'
  <1>1. JobTypes /\ FileTypes
    BY TypeParts
  <1> DEFINE j == [NoJob EXCEPT !.self = disk[CLI], !.found = [c \in Probed |-> disk[c]],
                                !.auto = auto, !.todo = Order]
  <1>2. [c \in Probed |-> disk[c]] \in [Probed -> File]
    BY <1>1, Numbers DEF FileTypes, Components
  <1>3. j \in Job /\ j.todo # <<>>
    BY <1>2, NoJobType, UpdateAssumption DEF Start, Job
  <1>4. JobTypes'
    <2>1. job' = [job EXCEPT ![u] = j] /\ pc' = [pc EXCEPT ![u] = "check"]
      BY <1>1 DEF Start, Goto, JobTypes
    <2> HIDE DEF j
    <2>2. "check" \in PC /\ "check" \notin Applying
      BY DEF PC, Applying
    <2>3. QED
      BY <1>1, <1>3, <2>1, <2>2, JobStep
  <1>5. FileTypes'
    BY SMTT(30), <1>1, UpdateAssumption DEF Start, FileTypes
  <1>6. QED
    BY <1>4, <1>5, TypesAfter

\* The next component is checked, and perhaps to be upgraded.
LEMMA NextCheckTypes ==
    ASSUME JobTypes, NEW u \in Updaters, NEW queue \in Seq(Components \X Build), NextCheck(u, queue)
    PROVE  JobTypes'
  <1>1. /\ job[u] \in Job /\ job[u].todo \in Seq(Components) /\ job[u].todo # <<>>
        /\ Tail(job[u].todo) \in Seq(Components)
        /\ Len(job[u].todo) # 1 => Tail(job[u].todo) # <<>>
    <2>1. job[u] \in Job /\ job[u].todo \in Seq(Components) /\ job[u].todo # <<>>
      BY HeadTypes DEF NextCheck, Goto
    <2>2. /\ Tail(job[u].todo) \in Seq(Components) /\ Len(job[u].todo) \in Nat \ {0}
          /\ Len(Tail(job[u].todo)) = Len(job[u].todo) - 1
      BY <2>1, HeadTailProperties, EmptySeq
    <2>3. ASSUME Len(job[u].todo) # 1 PROVE Tail(job[u].todo) # <<>>
      <3>1. Len(Tail(job[u].todo)) # 0
        BY <2>2, <2>3
      <3>2. Len(<<>>) = 0
        OBVIOUS
      <3>3. QED
        BY <3>1, <3>2
    <2>4. QED
      BY <2>1, <2>2, <2>3
  <1>2. PICK found \in {NotAsked, job[u].found}, p \in {"apply", "check"} :
           /\ job' = [job EXCEPT ![u] = [job[u] EXCEPT !.todo = Tail(job[u].todo), !.queue = queue,
                                                       !.found = found]]
           /\ pc' = [pc EXCEPT ![u] = p] /\ (p = "check" => Len(job[u].todo) # 1)
    BY DEF NextCheck, Goto, JobTypes
  <1> DEFINE j == [job[u] EXCEPT !.todo = Tail(job[u].todo), !.queue = queue, !.found = found]
  <1>3. j \in Job /\ j.todo = Tail(job[u].todo)
    <2>1. NotAsked \in [Probed -> File]
      BY Numbers DEF NotAsked
    <2>2. found \in [Probed -> File]
      BY <1>1, <1>2, <2>1 DEF Job
    <2>3. QED
      BY <1>1, <2>2 DEF Job
  <1> HIDE DEF j
  <1>4. {"apply", "check"} \subseteq PC /\ "apply" \notin Applying /\ "check" \notin Applying
    BY DEF PC, Applying
  <1>5. QED
    BY <1>1, <1>2, <1>3, <1>4, JobStep DEF j

LEMMA CheckTypes ==
    ASSUME WellTyped, NEW u \in Updaters, SkipCheck(u) \/ Check(u) \/ CheckFails(u) PROVE WellTyped'
  <1>1. JobTypes /\ FileTypes /\ job[u].queue \in Seq(Components \X Build)
    BY TypeParts, HeadTypes
  <1> DEFINE c == Head(job[u].todo)
  <1>2. CASE SkipCheck(u)
    <2>1. JobTypes'
      BY <1>1, <1>2, NextCheckTypes DEF SkipCheck
    <2>2. FileTypes'
      BY <1>1, <1>2 DEF SkipCheck, FileTypes
    <2>3. QED
      BY <2>1, <2>2, TypesAfter
  <1>3. CASE Check(u)
    <2>1. c \in Components /\ latest[c] \in Build
      BY <1>1, <1>3, HeadTypes DEF Check, FileTypes
    <2>2. PICK queue : /\ queue \in {job[u].queue \o <<<<c, latest[c]>>>>, job[u].queue \o <<>>}
                       /\ NextCheck(u, queue)
      BY <1>3 DEF Check
    <2>3. queue \in Seq(Components \X Build)
      <3>1. <<>> \in Seq(Components \X Build) /\ <<<<c, latest[c]>>>> \in Seq(Components \X Build)
        BY <2>1
      <3>2. /\ job[u].queue \o <<<<c, latest[c]>>>> \in Seq(Components \X Build)
            /\ job[u].queue \o <<>> \in Seq(Components \X Build)
        BY <1>1, <3>1, ConcatProperties
      <3>3. QED
        BY <2>2, <3>2
    <2>4. JobTypes'
      BY <1>1, <2>2, <2>3, NextCheckTypes
    <2>5. FileTypes'
      BY <1>1, <1>3, <2>1, Numbers DEF Check, FileTypes
    <2>6. QED
      BY <2>4, <2>5, TypesAfter
  <1>4. CASE CheckFails(u)
    <2>1. JobTypes'
      BY <1>1, <1>4, NoJobType, JobStep DEF CheckFails, PC, Applying, NoJob
    <2>2. FileTypes'
      BY <1>1, <1>4 DEF CheckFails, FileTypes, Mishap
    <2>3. QED
      BY <2>1, <2>2, TypesAfter
  <1>5. QED
    BY <1>2, <1>3, <1>4

LEMMA ApplyLoopTypes ==
    ASSUME WellTyped, NEW u \in Updaters, Skip(u) \/ Download(u) \/ Reconcile(u) PROVE WellTyped'
  <1>1. JobTypes /\ FileTypes /\ job[u] \in Job /\ job[u].queue \in Seq(Components \X Build)
    BY TypeParts, HeadTypes
  <1>2. CASE Skip(u)
    <2>1. Tail(job[u].queue) \in Seq(Components \X Build)
      BY <1>1, <1>2, HeadTailProperties DEF Skip
    <2> DEFINE j == [job[u] EXCEPT !.queue = Tail(job[u].queue)]
    <2>2. j \in Job
      BY <1>1, <2>1 DEF Job
    <2>3. job' = [job EXCEPT ![u] = j] /\ pc' = [pc EXCEPT ![u] = "apply"]
      BY <1>1, <1>2 DEF Skip, JobTypes
    <2> HIDE DEF j
    <2>4. "apply" \in PC /\ "apply" \notin Applying
      BY DEF PC, Applying
    <2>5. JobTypes'
      BY <1>1, <2>2, <2>3, <2>4, JobStep
    <2>6. FileTypes'
      BY <1>1, <1>2 DEF Skip, FileTypes, Mishap
    <2>7. QED
      BY <2>5, <2>6, TypesAfter
  <1>3. CASE Download(u)
    <2>1. JobTypes'
      BY <1>1, <1>3, PcStep DEF Download, Goto, PC
    <2>2. FileTypes'
      BY <1>1, <1>3, HeadTypes DEF Download, FileTypes
    <2>3. QED
      BY <2>1, <2>2, TypesAfter
  <1>4. CASE Reconcile(u)
    <2>1. JobTypes'
      <3>1. pc' = [pc EXCEPT ![u] = "idle"] /\ job' = [job EXCEPT ![u] = NoJob]
        BY <1>4 DEF Reconcile
      <3>2. QED
        BY <1>1, <3>1, IdleStep
    <2>2. job[u].self \in Build
      BY <1>1 DEF Job
    <2>3. FileTypes'
      BY <1>1, <1>4, <2>2 DEF Reconcile, FileTypes
    <2>4. QED
      BY <2>1, <2>3, TypesAfter
  <1>5. QED
    BY <1>2, <1>3, <1>4
\* The steps of Apply that go on with the same upgrade.
LEMMA UpgradeTypes ==
    ASSUME WellTyped, NEW u \in Updaters,
           \/ Backup(u) \/ Replace(u) \/ Chown(u) \/ Restart(u) \/ RestartFails(u) \/ Health(u)
           \/ Rollback(u)
    PROVE  WellTyped'
  <1>1. JobTypes /\ FileTypes /\ job[u] \in Job /\ pc[u] \in Applying /\ Working(u)
    BY TypeParts, HeadTypes DEF Backup, Replace, Chown, Restart, RestartFails, Health, Rollback, Goto,
                                Applying, JobTypes
  <1>2. job[u].queue # <<>> /\ Component(u) \in Components
    BY <1>1, HeadTypes DEF Working
  <1>3. CASE Backup(u)
    <2> DEFINE j == [job[u] EXCEPT !.previous = disk[Component(u)]]
    <2>1. disk[Component(u)] \in File
      BY <1>1, <1>2, Numbers DEF FileTypes
    <2>2. j \in Job /\ j.queue = job[u].queue
      BY <1>1, <2>1 DEF Job
    <2>3. job' = [job EXCEPT ![u] = j] /\ pc' = [pc EXCEPT ![u] = "replace"]
      BY <1>1, <1>3 DEF Backup, Goto, JobTypes
    <2> HIDE DEF j
    <2>4. JobTypes'
      BY <1>1, <1>2, <2>2, <2>3, JobStep DEF PC
    <2>5. FileTypes'
      BY <1>1, <1>3, <2>1 DEF Backup, FileTypes
    <2>6. QED
      BY <2>4, <2>5, TypesAfter
  <1>4. CASE Replace(u)
    <2>1. JobTypes'
      BY <1>1, <1>2, <1>4, PcStep DEF Replace, Goto, PC
    <2>2. tmp[Component(u)] \in 0..MaxBuild
      BY <1>1, <1>2, <1>4, Numbers DEF Replace, FileTypes
    <2>3. FileTypes'
      BY <1>1, <1>4, <2>2 DEF Replace, FileTypes
    <2>4. QED
      BY <2>1, <2>3, TypesAfter
  <1>5. CASE Chown(u) \/ Health(u)
    <2>1. PICK p \in {"restart", "cleanup", "rollback"} : pc' = [pc EXCEPT ![u] = p]
      BY <1>5 DEF Chown, Health, Goto
    <2>2. JobTypes'
      BY <1>1, <1>2, <1>5, <2>1, PcStep DEF Chown, Health, PC
    <2>3. FileTypes'
      BY <1>1, <1>5 DEF Chown, Health, FileTypes
    <2>4. QED
      BY <2>2, <2>3, TypesAfter
  <1>6. CASE Restart(u) \/ RestartFails(u)
    <2>1. PICK p \in {"health", "rollback"} : pc' = [pc EXCEPT ![u] = p]
      BY <1>6 DEF Restart, RestartFails, Goto
    <2>2. JobTypes'
      BY <1>1, <1>2, <1>6, <2>1, PcStep DEF Restart, RestartFails, PC
    <2>3. Started(Component(u)) \in 0..MaxBuild /\ Down \in 0..MaxBuild
      BY <1>1, <1>2, Numbers DEF Started, FileTypes, Down, Torn
    <2>4. FileTypes'
      BY <1>1, <1>6, <2>3 DEF Restart, RestartFails, FileTypes, Mishap
    <2>5. QED
      BY <2>2, <2>4, TypesAfter
  <1>7. CASE Rollback(u)
    <2>1. JobTypes'
      BY <1>1, <1>2, <1>7, PcStep DEF Rollback, Goto, PC
    <2>2. bak[Component(u)] \in 0..MaxBuild
      BY <1>1, <1>2, <1>7, Numbers DEF Rollback, FileTypes
    <2>3. FileTypes'
      BY <1>1, <1>7, <2>2 DEF Rollback, FileTypes
    <2>4. QED
      BY <2>1, <2>3, TypesAfter
  <1>8. QED
    BY <1>3, <1>4, <1>5, <1>6, <1>7

\* The steps that end an upgrade.
LEMMA LeaveTypes ==
    ASSUME WellTyped, NEW u \in Updaters,
           \/ BackupFails(u) \/ ReplaceFails(u) \/ ChownFails(u) \/ Cleanup(u) \/ RollbackFails(u)
           \/ RollbackRestart(u)
    PROVE  WellTyped'
  <1>1. JobTypes /\ FileTypes
    BY TypeParts
  <1>2. pc[u] \in Applying /\ Leave(u)
    BY DEF BackupFails, ReplaceFails, ChownFails, Cleanup, RollbackFails, RollbackRestart, Applying
  <1>3. /\ JobTypes' /\ Component(u) \in Components
        /\ tmp' \in [Components -> Build \cup {Absent}]
    BY <1>1, <1>2, LeaveStep DEF FileTypes
  <1>4. bak' \in [Components -> File] /\ UNCHANGED <<latest, stamp, seen, bad, units, runs>>
    BY <1>1, Numbers DEF BackupFails, ReplaceFails, ChownFails, Cleanup, RollbackFails,
                         RollbackRestart, FileTypes
  <1>5. disk' \in [Components -> 0..MaxBuild]
    BY <1>1, Numbers DEF BackupFails, ReplaceFails, ChownFails, Cleanup, RollbackFails,
                         RollbackRestart, FileTypes
  <1>6. running' \in [Services -> 0..MaxBuild]
    <2>1. Started(Component(u)) \in 0..MaxBuild
      BY <1>1, <1>3, Numbers DEF Started, FileTypes, Down, Torn
    <2>2. QED
      BY <1>1, <2>1 DEF BackupFails, ReplaceFails, ChownFails, Cleanup, RollbackFails,
                        RollbackRestart, FileTypes
  <1>7. clean' \in BOOLEAN
    BY <1>1 DEF BackupFails, ReplaceFails, ChownFails, Cleanup, RollbackFails, RollbackRestart,
                Mishap, FileTypes
  <1>8. FileTypes'
    BY <1>1, <1>3, <1>4, <1>5, <1>6, <1>7 DEF FileTypes
  <1>9. QED
    BY <1>3, <1>8, TypesAfter

LEMMA CrashTypes == ASSUME WellTyped, NEW u \in Updaters, Crash(u) PROVE WellTyped'
  <1>1. JobTypes /\ FileTypes
    BY TypeParts
  <1>2. JobTypes'
    <2>1. pc' = [pc EXCEPT ![u] = "idle"] /\ job' = [job EXCEPT ![u] = NoJob]
      BY DEF Crash
    <2>2. QED
      BY <1>1, <2>1, IdleStep
  <1>3. FileTypes'
    <2>1. UNCHANGED <<latest, seen, bad, tmp, running, units, runs>> /\ clean' \in BOOLEAN
      BY DEF Crash, Mishap
    <2>2. bak' \in [Components -> File]
      <3>1. bak \in [Components -> File]
        BY <1>1 DEF FileTypes
      <3>2. bak' = bak \/ bak' = [bak EXCEPT ![Component(u)] = Torn]
        BY DEF Crash
      <3>3. QED
        BY <3>1, <3>2, Numbers
    <2>3. disk' \in [Components -> 0..MaxBuild]
      <3>1. disk \in [Components -> 0..MaxBuild]
        BY <1>1 DEF FileTypes
      <3>2. disk' = disk \/ disk' = [disk EXCEPT ![Component(u)] = Torn]
        BY DEF Crash
      <3>3. QED
        BY <3>1, <3>2, Numbers
    <2>4. stamp' \in [Components -> {"recent", "old", "torn"}]
      <3>1. stamp \in [Components -> {"recent", "old", "torn"}]
        BY <1>1 DEF FileTypes
      <3>2. stamp' = stamp \/ stamp' = [stamp EXCEPT ![Head(job[u].todo)] = "torn"]
        BY DEF Crash
      <3>3. QED
        BY <3>1, <3>2
    <2>5. QED
      BY <1>1, <2>1, <2>2, <2>3, <2>4 DEF FileTypes
  <1>4. QED
    BY <1>2, <1>3, TypesAfter

\* Releases, time and systemd.
LEMMA EnvironmentTypes ==
    ASSUME WellTyped,
           \/ \E r \in Releases : Publish(r)
           \/ \E c \in Components : Ages(c)
           \/ \E c \in Services : Exit(c) \/ Respawn(c)
    PROVE  WellTyped'
  <1>1. JobTypes /\ FileTypes
    BY TypeParts
  <1>2. JobTypes'
    BY <1>1 DEF JobTypes, Working, Publish, Ages, Exit, Respawn
  <1>3. ASSUME NEW r \in Releases, Publish(r) PROVE FileTypes'
    <2>1. r \subseteq Components
      BY DEF Releases, Components
    <2>2. latest' \in [Components -> Build]
      <3>1. \A c \in Components : c \in r => latest[c] + 1 \in Build
        BY <1>1, <1>3, Numbers DEF Publish, FileTypes, Build
      <3>2. QED
        BY <1>1, <1>3, <3>1 DEF Publish, FileTypes
    <2>3. bad' \subseteq Services \X Build
      <3>1. PICK b \in SUBSET (r \cap Services) : bad' = bad \cup {<<c, latest'[c]>> : c \in b}
        BY <1>3 DEF Publish
      <3>2. \A c \in b : c \in Services /\ latest'[c] \in Build
        BY <2>1, <2>2
      <3>3. QED
        BY <1>1, <3>1, <3>2 DEF FileTypes
    <2>4. QED
      BY <1>1, <1>3, <2>2, <2>3 DEF Publish, FileTypes
  <1>4. ASSUME NEW c \in Components, Ages(c) PROVE FileTypes'
    BY <1>1, <1>4 DEF Ages, FileTypes
  <1>5. ASSUME NEW c \in Services, Exit(c) \/ Respawn(c) PROVE FileTypes'
    BY <1>1, <1>5, Numbers DEF Exit, Respawn, FileTypes, Down, Torn
  <1>6. QED
    BY <1>2, <1>3, <1>4, <1>5, TypesAfter

LEMMA StepTypes == WellTyped /\ [Next]_vars => WellTyped'
  <1> SUFFICES ASSUME WellTyped, [Next]_vars PROVE WellTyped'
    OBVIOUS
  <1>1. CASE UNCHANGED vars
    BY <1>1 DEF vars, WellTyped, TypeOK, Working
  <1>2. ASSUME NEW u \in Updaters, Apply(u) PROVE WellTyped'
    BY <1>2, UpgradeTypes, LeaveTypes DEF Apply
  <1>3. QED
    BY <1>1, <1>2, StartTypes, CheckTypes, ApplyLoopTypes, CrashTypes, EnvironmentTypes DEF Next

LEMMA AlwaysTyped == Spec => []WellTyped
  BY InitTypes, StepTypes, PTL DEF Spec

\* Whatever fails or is killed, and however many updaters share the files, every variable has
\* its type: an installed binary is never missing (apply.go:116 replaces it by a rename).
THEOREM TypeCorrect == Spec => []TypeOK
  <1>1. WellTyped => TypeOK
    BY DEF WellTyped
  <1>2. QED
    BY <1>1, AlwaysTyped, PTL
-----------------------------------------------------------------------------
(* The files, of one updater at a time. *)

\* What is left of a list, and a list with one more.
LEMMA TailIndex ==
    ASSUME NEW S, NEW s \in Seq(S), s # <<>>
    PROVE  /\ 1 \in DOMAIN s /\ Head(s) = s[1]
           /\ \A i \in DOMAIN Tail(s) : /\ i \in Nat /\ i + 1 # 1
                                        /\ i + 1 \in DOMAIN s /\ Tail(s)[i] = s[i + 1]
  <1>1. /\ DOMAIN s = 1..Len(s) /\ Len(s) \in Nat /\ Len(s) >= 1
        /\ Tail(s) \in Seq(S) /\ Len(Tail(s)) = Len(s) - 1 /\ Head(s) = s[1]
        /\ \A i \in 1..Len(Tail(s)) : Tail(s)[i] = s[i + 1]
    BY HeadTailProperties, LenProperties, EmptySeq
  <1>2. DOMAIN Tail(s) = 1..(Len(s) - 1)
    BY <1>1, LenProperties
  <1>3. \A i \in 1..(Len(s) - 1) : i \in Nat /\ i + 1 # 1 /\ i + 1 \in 1..Len(s)
    BY <1>1
  <1>4. 1 \in 1..Len(s)
    BY <1>1
  <1>5. QED
    BY <1>1, <1>2, <1>3, <1>4

LEMMA OneMore ==
    ASSUME NEW S, NEW s \in Seq(S), NEW x \in S
    PROVE  \A i \in DOMAIN (s \o <<x>>) :
              \/ i \in DOMAIN s /\ (s \o <<x>>)[i] = s[i]
              \/ i = Len(s) + 1 /\ (s \o <<x>>)[i] = x
  <1>1. /\ s \o <<x>> = Append(s, x) /\ Append(s, x) \in Seq(S)
        /\ Len(s) \in Nat /\ DOMAIN s = 1..Len(s) /\ Len(Append(s, x)) = Len(s) + 1
        /\ DOMAIN Append(s, x) = 1..(Len(s) + 1) /\ Append(s, x)[Len(s) + 1] = x
        /\ \A i \in 1..Len(s) : Append(s, x)[i] = s[i]
    BY AppendProperties, AppendIsConcat, LenProperties
  <1>2. \A i \in 1..(Len(s) + 1) : i \in 1..Len(s) \/ i = Len(s) + 1
    BY <1>1
  <1>3. QED
    BY <1>1, <1>2

LEMMA Sole ==
    ASSUME Alone, WellTyped', NEW u \in Updaters, Spared', Planned(u)', Staged(u)'
    PROVE  FilesOK'
  <1>1. \A v \in Updaters : v = u
    BY DEF Alone
  <1>2. \A v \in Updaters : Planned(v)' /\ Staged(v)'
    BY <1>1
  <1>3. QED
    BY <1>2 DEF FilesOK

\* What the plan says of the updater's data.
LEMMA PlanTypes ==
    ASSUME WellTyped, NEW u \in Updaters
    PROVE  /\ job[u].queue \in Seq(Components \X Build) /\ job[u].todo \in Seq(Components)
           /\ pc[u] \in Applying =>
                 /\ job[u].queue # <<>> /\ 1 \in DOMAIN job[u].queue
                 /\ job[u].queue[1] = Head(job[u].queue)
                 /\ Component(u) = job[u].queue[1][1]
                 /\ Component(u) \in Components /\ Head(job[u].queue)[2] \in Build
  <1>1. JobTypes /\ Working(u)
    BY TypeParts DEF WellTyped
  <1>2. job[u].queue \in Seq(Components \X Build) /\ job[u].todo \in Seq(Components)
    BY <1>1, HeadTypes
  <1>3. ASSUME pc[u] \in Applying
        PROVE  /\ job[u].queue # <<>> /\ 1 \in DOMAIN job[u].queue
               /\ job[u].queue[1] = Head(job[u].queue)
               /\ Component(u) = job[u].queue[1][1]
               /\ Component(u) \in Components /\ Head(job[u].queue)[2] \in Build
    <2>1. job[u].queue # <<>>
      BY <1>1, <1>3 DEF Working
    <2>2. 1 \in DOMAIN job[u].queue /\ job[u].queue[1] = Head(job[u].queue)
      BY <1>2, <2>1, TailIndex
    <2>3. Component(u) \in Components /\ Head(job[u].queue)[2] \in Build
      BY <1>1, <2>1, HeadTypes
    <2>4. QED
      BY <2>1, <2>2, <2>3 DEF Component
  <1>4. QED
    BY <1>2, <1>3

\* The upgrade goes on, and touches no other component.
LEMMA StayFiles ==
    ASSUME Alone, FilesOK, WellTyped', NEW u \in Updaters,
           pc'[u] \in Applying, pc[u] # "check", job'[u].queue = job[u].queue, seen' = seen,
           \A c \in Known : c # job[u].queue[1][1] => disk'[c] = disk[c],
           Spared', Staged(u)'
    PROVE  FilesOK'
  <1>1. pc'[u] # "check" /\ Planned(u)
    BY DEF Applying, FilesOK
  <1> DEFINE queue == job[u].queue
  <1>2. job[u].queue # <<>>
    BY DEF WellTyped, Working
  <1>3. 1 \in DOMAIN queue
    BY <1>2, PlanTypes, TailIndex DEF FilesOK
  <1>4. \A i \in DOMAIN queue : i # 1 => queue[i][1] # queue[1][1]
    BY <1>1, <1>3 DEF Planned
  <1>5. \A i \in DOMAIN queue :
           /\ queue[i][2] = seen[queue[i][1]]
           /\ queue[i][1] \in Known /\ i # 1 =>
                 disk'[queue[i][1]] \in Build /\ disk'[queue[i][1]] < queue[i][2]
    BY <1>1, <1>4 DEF Planned
  <1>6. Planned(u)'
    BY <1>1, <1>5 DEF Planned
  <1>7. QED
    BY <1>6, Sole

\* The upgrade ends, and has touched no other component.
LEMMA LeaveFiles ==
    ASSUME Alone, FilesOK, WellTyped', NEW u \in Updaters,
           pc'[u] = "apply", job[u].queue # <<>>, job'[u].queue = Tail(job[u].queue), seen' = seen,
           \A c \in Known : c # job[u].queue[1][1] => disk'[c] = disk[c],
           Spared'
    PROVE  FilesOK'
  <1> DEFINE queue == job[u].queue
             rest == Tail(queue)
  <1>1. /\ 1 \in DOMAIN queue
        /\ \A i \in DOMAIN rest : i + 1 # 1 /\ i \in Nat /\ i + 1 \in DOMAIN queue /\ rest[i] = queue[i + 1]
    BY PlanTypes, TailIndex DEF FilesOK
  <1>2. Planned(u) /\ pc'[u] \notin Applying /\ pc'[u] # "check"
    BY DEF FilesOK, Applying
  <1> HIDE DEF rest
  <1>3. \A i, j \in DOMAIN rest : rest[i][1] = rest[j][1] => i = j
    <2>1. \A i, j \in DOMAIN rest : rest[i][1] = rest[j][1] => i + 1 = j + 1
      BY <1>1, <1>2 DEF Planned
    <2>2. QED
      BY <1>1, <2>1
  <1>4. \A i \in DOMAIN rest : rest[i][1] # queue[1][1]
    BY <1>1, <1>2 DEF Planned
  <1>5. \A i \in DOMAIN rest :
           /\ rest[i][2] = seen[rest[i][1]]
           /\ rest[i][1] \in Known =>
                 disk'[rest[i][1]] \in Build /\ disk'[rest[i][1]] < rest[i][2]
    BY <1>1, <1>2, <1>4 DEF Planned
  <1>6. job'[u].queue = rest
    BY DEF rest
  <1>7. Planned(u)'
    BY <1>2, <1>3, <1>5, <1>6 DEF Planned
  <1>8. Staged(u)'
    BY <1>2 DEF Staged
  <1>9. QED
    BY <1>7, <1>8, Sole

\* The updater ends, or is killed.
LEMMA IdleFiles ==
    ASSUME Alone, FilesOK, WellTyped', NEW u \in Updaters,
           pc'[u] = "idle", job'[u] = NoJob, Spared'
    PROVE  FilesOK'
  <1>1. pc'[u] \notin Applying /\ job'[u].queue = <<>> /\ DOMAIN <<>> = {}
    BY DEF Applying, NoJob
  <1>2. Planned(u)' /\ Staged(u)'
    BY <1>1 DEF Planned, Staged
  <1>3. QED
    BY <1>2, Sole

LEMMA OtherFiles ==
    ASSUME FilesOK, WellTyped', UNCHANGED <<seen, disk, bak, tmp, pc, job>>
    PROVE  FilesOK'
  <1>1. Spared'
    BY DEF FilesOK, Spared
  <1>2. ASSUME NEW u \in Updaters PROVE Planned(u)'
    BY DEF FilesOK, Planned
  <1>3. ASSUME NEW u \in Updaters PROVE Staged(u)'
    BY DEF FilesOK, Staged, Stage, Component
  <1>4. QED
    BY <1>1, <1>2, <1>3 DEF FilesOK

LEMMA InitFiles == Init => FilesOK
  <1> SUFFICES ASSUME Init PROVE FilesOK
    OBVIOUS
  <1>1. WellTyped
    BY InitTypes
  <1>2. Spared
    BY Numbers DEF Init, Spared, Known, Torn
  <1>3. \A u \in Updaters : pc[u] = "idle" /\ job[u].queue = <<>> /\ DOMAIN <<>> = {}
    BY DEF Init, NoJob
  <1>4. \A u \in Updaters : Planned(u) /\ Staged(u)
    BY <1>3 DEF Planned, Staged, Applying
  <1>5. QED
    BY <1>1, <1>2, <1>4 DEF FilesOK
LEMMA StartFiles ==
    ASSUME Alone, FilesOK, WellTyped', NEW u \in Updaters, NEW auto \in BOOLEAN, Start(u, auto)
    PROVE  FilesOK'
  <1>1. /\ pc'[u] = "check" /\ UNCHANGED <<seen, disk, bak, tmp>>
        /\ job'[u] = [NoJob EXCEPT !.self = disk[CLI], !.found = [c \in Probed |-> disk[c]],
                                   !.auto = auto, !.todo = Order]
    BY DEF Start, Goto, FilesOK, WellTyped, TypeOK
  <1>2. /\ job'[u].self = disk[CLI] /\ job'[u].found = [c \in Probed |-> disk[c]]
        /\ job'[u].todo = Order /\ job'[u].queue = <<>> /\ DOMAIN <<>> = {}
    BY <1>1 DEF NoJob
  <1>3. Planned(u)'
    BY <1>1, <1>2, UpdateAssumption DEF Planned, Applying
  <1>4. Staged(u)' /\ Spared'
    BY <1>1 DEF Staged, Applying, FilesOK, Spared
  <1>5. QED
    BY <1>3, <1>4, Sole

\* The rest of the check, with an upgrade more or without one.
LEMMA NextCheckFiles ==
    ASSUME Alone, FilesOK, WellTyped', NEW u \in Updaters,
           NEW queue \in Seq(Components \X Build), NextCheck(u, queue),
           UNCHANGED <<disk, bak, tmp>>,
           LET c == Head(job[u].todo) IN
           /\ \A d \in Components : d # c => seen'[d] = seen[d]
           /\ \A i \in DOMAIN queue :
                 \/ i \in DOMAIN job[u].queue /\ queue[i] = job[u].queue[i]
                 \/ /\ i = Len(job[u].queue) + 1 /\ queue[i] = <<c, seen'[c]>>
                    /\ c \in Known => disk[c] \in Build /\ disk[c] < seen'[c]
    PROVE  FilesOK'
  <1> DEFINE c == Head(job[u].todo)
             todo == job[u].todo
             old == job[u].queue
  <1>1. /\ pc[u] = "check" /\ pc'[u] \in {"check", "apply"}
        /\ todo \in Seq(Components) /\ todo # <<>> /\ old \in Seq(Components \X Build)
        /\ Planned(u) /\ job[u] \in Job /\ c \in Components
    <2>1. JobTypes /\ FileTypes /\ Planned(u)
      BY TypeParts DEF FilesOK
    <2>2. pc[u] = "check" /\ pc'[u] \in {"check", "apply"}
      BY <2>1 DEF NextCheck, Goto, JobTypes
    <2>3. QED
      BY <2>1, <2>2, HeadTypes
  <1>2. job'[u].todo = Tail(todo) /\ job'[u].queue = queue /\ job'[u].self = job[u].self
        /\ (pc'[u] = "check" => job'[u].found = job[u].found)
    BY <1>1 DEF NextCheck, Goto, Job, FilesOK, WellTyped, TypeOK
  <1>3. /\ 1 \in DOMAIN todo /\ c = todo[1]
        /\ \A i \in DOMAIN Tail(todo) : /\ i \in Nat /\ i + 1 # 1
                                        /\ i + 1 \in DOMAIN todo /\ Tail(todo)[i] = todo[i + 1]
    BY <1>1, TailIndex
  <1>4. \A i \in DOMAIN old : /\ old[i][1] # c /\ old[i][1] \in Components
                              /\ i # Len(old) + 1
    <2>1. DOMAIN old = 1..Len(old) /\ Len(old) \in Nat
      BY <1>1
    <2>2. \A i \in DOMAIN old : old[i] \in Components \X Build /\ i # Len(old) + 1
      BY <1>1, <2>1, ElementOfSeq
    <2>3. QED
      BY <1>1, <1>3, <2>2 DEF Planned
  <1> HIDE DEF c, todo, old
  <1>5. \A i \in DOMAIN queue :
           \/ i \in DOMAIN old /\ queue[i] = old[i]
           \/ i = Len(old) + 1 /\ queue[i] = <<c, seen'[c]>>
              /\ (c \in Known => disk[c] \in Build /\ disk[c] < seen'[c])
    BY DEF c, old
  <1>6. \A i \in DOMAIN Tail(todo) : Tail(todo)[i] # c
    BY <1>1, <1>3 DEF Planned, todo
  <1>7. \A i, j \in DOMAIN Tail(todo) : Tail(todo)[i] = Tail(todo)[j] => i = j
    <2>1. \A i, j \in DOMAIN Tail(todo) : Tail(todo)[i] = Tail(todo)[j] => i + 1 = j + 1
      BY <1>1, <1>3 DEF Planned, todo
    <2>2. QED
      BY <1>3, <2>1
  <1>8. \A i \in DOMAIN Tail(todo), j \in DOMAIN queue : Tail(todo)[i] # queue[j][1]
    <2>1. \A i \in DOMAIN Tail(todo), j \in DOMAIN old : Tail(todo)[i] # old[j][1]
      BY <1>1, <1>3 DEF Planned, todo, old
    <2>2. QED
      BY <1>5, <1>6, <2>1
  <1>9. \A i, j \in DOMAIN queue : queue[i][1] = queue[j][1] => i = j
    <2>1. \A i, j \in DOMAIN old : old[i][1] = old[j][1] => i = j
      BY <1>1 DEF Planned, old
    <2>2. QED
      BY <1>4, <1>5, <2>1
  <1>10. \A i \in DOMAIN queue :
            /\ queue[i][2] = seen'[queue[i][1]]
            /\ queue[i][1] \in Known => disk[queue[i][1]] \in Build /\ disk[queue[i][1]] < queue[i][2]
    <2>1. pc[u] \notin Applying
      BY <1>1 DEF Applying
    <2>2. \A i \in DOMAIN old :
            /\ old[i][2] = seen'[old[i][1]]
            /\ old[i][1] \in Known => disk[old[i][1]] \in Build /\ disk[old[i][1]] < old[i][2]
      BY <1>1, <1>4, <2>1 DEF Planned, old, c
    <2>3. QED
      BY <1>5, <2>2
  <1>11. Planned(u)'
    <2>1. pc[u] = "check" => job[u].self = disk[CLI] /\ \A d \in Probed : job[u].found[d] = disk[d]
      BY <1>1 DEF Planned
    <2>2. QED
      BY <1>1, <1>2, <1>7, <1>8, <1>9, <1>10, <2>1 DEF Planned
  <1>12. Staged(u)' /\ Spared'
    BY <1>1 DEF Staged, Applying, FilesOK, Spared
  <1>13. QED
    BY <1>11, <1>12, Sole

\* What an updater that checks takes for the installed version is that version.
LEMMA CurrentIsInstalled ==
    ASSUME FilesOK, NEW u \in Updaters, pc[u] = "check", NEW c \in Known
    PROVE  Current(u, c) = disk[c]
  BY DEF FilesOK, Planned, Current, Known, Components

LEMMA CheckFiles ==
    ASSUME Alone, FilesOK, WellTyped', NEW u \in Updaters, Check(u) \/ SkipCheck(u)
    PROVE  FilesOK'
  <1> DEFINE c == Head(job[u].todo)
             old == job[u].queue
  <1>1. /\ old \in Seq(Components \X Build) /\ pc[u] = "check" /\ c \in Components
        /\ JobTypes /\ FileTypes /\ UNCHANGED <<disk, bak, tmp>>
    BY TypeParts, HeadTypes DEF FilesOK, Check, SkipCheck
  <1>2. CASE SkipCheck(u)
    BY <1>1, <1>2, NextCheckFiles DEF SkipCheck
  <1>3. CASE Check(u) /\ ~IsUpgrade(u, c)
    <2>1. NextCheck(u, old \o <<>>) /\ old \o <<>> = old
      BY <1>1, <1>3, ConcatEmptySeq DEF Check
    <2>2. \A d \in Components : d # c => seen'[d] = seen[d]
      BY <1>1, <1>3 DEF Check, FileTypes
    <2>3. QED
      BY <1>1, <2>1, <2>2, NextCheckFiles
  <1>4. CASE Check(u) /\ IsUpgrade(u, c)
    <2>1. NextCheck(u, old \o <<<<c, latest[c]>>>>)
      BY <1>4 DEF Check
    <2>2. seen'[c] = latest[c] /\ \A d \in Components : d # c => seen'[d] = seen[d]
      BY <1>1, <1>4 DEF Check, FileTypes
    <2>3. <<c, latest[c]>> \in Components \X Build
      BY <1>1 DEF FileTypes
    <2>4. c \in Known => disk[c] \in Build /\ disk[c] < latest[c]
      <3>1. c \in Known => Current(u, c) = disk[c]
        BY <1>1, CurrentIsInstalled
      <3>2. disk[c] # Torn => disk[c] \in Build
        BY <1>1, Numbers DEF FileTypes
      <3>3. QED
        BY <1>4, <3>1, <3>2 DEF IsUpgrade
    <2>5. \A i \in DOMAIN (old \o <<<<c, latest[c]>>>>) :
             \/ i \in DOMAIN old /\ (old \o <<<<c, latest[c]>>>>)[i] = old[i]
             \/ i = Len(old) + 1 /\ (old \o <<<<c, latest[c]>>>>)[i] = <<c, latest[c]>>
      BY <1>1, <2>3, OneMore
    <2>6. old \o <<<<c, latest[c]>>>> \in Seq(Components \X Build)
      <3>1. <<<<c, latest[c]>>>> \in Seq(Components \X Build)
        BY <2>3
      <3>2. QED
        BY <1>1, <3>1, ConcatProperties
    <2>7. QED
      BY <1>1, <2>1, <2>2, <2>4, <2>5, <2>6, NextCheckFiles
  <1>5. QED
    BY <1>2, <1>3, <1>4

LEMMA EndFiles ==
    ASSUME Alone, FilesOK, WellTyped', NEW u \in Updaters, CheckFails(u) \/ Reconcile(u)
    PROVE  FilesOK'
  <1>1. /\ pc'[u] = "idle" /\ job'[u] = NoJob /\ UNCHANGED <<disk, bak>>
    BY DEF CheckFails, Reconcile, FilesOK, WellTyped, TypeOK
  <1>2. Spared'
    BY <1>1 DEF FilesOK, Spared
  <1>3. QED
    BY <1>1, <1>2, IdleFiles

LEMMA SkipFiles ==
    ASSUME Alone, FilesOK, WellTyped', NEW u \in Updaters, Skip(u) PROVE FilesOK'
  <1>1. /\ pc'[u] = "apply" /\ job[u].queue # <<>> /\ job'[u].queue = Tail(job[u].queue)
        /\ UNCHANGED <<seen, disk, bak>>
    BY DEF Skip, FilesOK, WellTyped, TypeOK, Job
  <1>2. Spared'
    BY <1>1 DEF FilesOK, Spared
  <1>3. QED
    BY <1>1, <1>2, LeaveFiles

LEMMA DownloadFiles ==
    ASSUME Alone, FilesOK, WellTyped', NEW u \in Updaters, Download(u) PROVE FilesOK'
  <1>1. /\ pc[u] = "apply" /\ pc'[u] = "backup" /\ UNCHANGED <<seen, disk, bak, job>>
        /\ job[u].queue # <<>> /\ JobTypes
        /\ tmp' = [tmp EXCEPT ![Component(u)] = Head(job[u].queue)[2]]
    BY TypeParts DEF Download, Goto, FilesOK, WellTyped, TypeOK
  <1>2. Spared'
    BY <1>1 DEF FilesOK, Spared
  <1>3. /\ 1 \in DOMAIN job[u].queue /\ job[u].queue[1] = Head(job[u].queue)
        /\ Component(u) \in Components
    BY <1>1, PlanTypes, TailIndex, HeadTypes DEF FilesOK
  <1>4. Staged(u)'
    <2>1. Component(u)' = Component(u) /\ tmp'[Component(u)] = Head(job[u].queue)[2]
      BY <1>1, <1>3 DEF Component, FilesOK, WellTyped, TypeOK
    <2>2. pc[u] \notin Applying /\ Planned(u)
      BY <1>1 DEF Applying, FilesOK
    <2>3. Component(u) \in Known =>
             disk[Component(u)] \in Build /\ disk[Component(u)] < Head(job[u].queue)[2]
      BY <1>3, <2>2 DEF Planned, Component
    <2>4. QED
      BY <1>1, <2>1, <2>3 DEF Staged, Stage
  <1>5. QED
    BY <1>1, <1>2, <1>4, StayFiles DEF Applying
\* A step of Apply, in terms of the component and the build.
LEMMA ApplyFacts ==
    ASSUME FilesOK, NEW u \in Updaters, pc[u] \in Applying
    PROVE  /\ job[u].queue # <<>> /\ Component(u) = job[u].queue[1][1]
           /\ Component(u) \in Components /\ Head(job[u].queue)[2] \in Build
           /\ Component(u) \in Known => Stage(u, Component(u), Head(job[u].queue)[2])
           /\ job[u] \in Job /\ pc \in [Updaters -> PC] /\ job \in [Updaters -> Job]
           /\ disk \in [Components -> 0..MaxBuild] /\ bak \in [Components -> File]
           /\ tmp \in [Components -> Build \cup {Absent}] /\ Spared
  BY PlanTypes DEF FilesOK, Staged, WellTyped, TypeOK

LEMMA BackupFiles ==
    ASSUME Alone, FilesOK, WellTyped', NEW u \in Updaters, Backup(u) PROVE FilesOK'
  <1> DEFINE c == Component(u)
  <1>1. pc[u] = "backup" /\ pc[u] \in Applying
    BY DEF Backup, Goto, Applying
  <1>2. /\ pc'[u] = "replace" /\ UNCHANGED <<seen, disk, tmp>>
        /\ bak' = [bak EXCEPT ![c] = disk[c]] /\ bak'[c] = disk[c]
        /\ job'[u].queue = job[u].queue /\ job'[u].previous = disk[c]
    BY <1>1, ApplyFacts DEF Backup, Goto, Job
  <1>3. c \in Known => disk[c] \in Build /\ disk[c] < Head(job[u].queue)[2] /\ tmp[c] = Head(job[u].queue)[2]
    BY <1>1, ApplyFacts DEF Stage
  <1>4. Spared'
    <2>1. \A d \in Known : d # c => bak'[d] = bak[d]
      BY <1>1, <1>2, ApplyFacts DEF Known
    <2>2. c \in Known => disk[c] # Torn
      BY <1>3, Numbers
    <2>3. QED
      BY <1>1, <1>2, <2>1, <2>2, ApplyFacts DEF Spared
  <1>5. Staged(u)'
    <2>1. Component(u)' = Component(u) /\ Head(job[u].queue)' = Head(job[u].queue)
      BY <1>2 DEF Component
    <2>2. QED
      BY <1>2, <1>3, <2>1 DEF Staged, Stage
  <1>6. QED
    BY <1>1, <1>2, <1>4, <1>5, StayFiles DEF Applying

LEMMA ReplaceFiles ==
    ASSUME Alone, FilesOK, WellTyped', NEW u \in Updaters, Replace(u) PROVE FilesOK'
  <1> DEFINE c == Component(u)
  <1>1. pc[u] = "replace" /\ pc[u] \in Applying
    BY DEF Replace, Goto, Applying
  <1>2. /\ pc'[u] = "chown" /\ UNCHANGED <<seen, bak, job>>
        /\ disk' = [disk EXCEPT ![c] = tmp[c]] /\ disk'[c] = tmp[c] /\ tmp[c] # Absent
    BY <1>1, ApplyFacts DEF Replace, Goto
  <1>3. c \in Known => /\ tmp[c] = Head(job[u].queue)[2] /\ bak[c] = job[u].previous
                       /\ bak[c] \in Build
    BY <1>1, <1>2, ApplyFacts DEF Stage
  <1>4. \A d \in Known : d # c => disk'[d] = disk[d]
    BY <1>1, <1>2, ApplyFacts DEF Known
  <1>5. Spared'
    <2>1. c \in Known => disk'[c] # Torn
      BY <1>1, <1>2, <1>3, ApplyFacts, Numbers
    <2>2. QED
      BY <1>1, <1>2, <1>4, <2>1, ApplyFacts DEF Spared
  <1>6. Staged(u)'
    <2>1. Component(u)' = Component(u) /\ Head(job[u].queue)' = Head(job[u].queue)
      BY <1>2 DEF Component
    <2>2. QED
      BY <1>2, <1>3, <2>1 DEF Staged, Stage
  <1>7. QED
    BY <1>1, <1>2, <1>4, <1>5, <1>6, ApplyFacts, StayFiles DEF Applying

\* The steps between the replacement and its end that touch no file.
LEMMA ServiceFiles ==
    ASSUME Alone, FilesOK, WellTyped', NEW u \in Updaters,
           Chown(u) \/ Restart(u) \/ RestartFails(u) \/ Health(u)
    PROVE  FilesOK'
  <1>1. pc[u] \in {"chown", "restart", "health"} /\ pc[u] \in Applying
    BY DEF Chown, Restart, RestartFails, Health, Goto, Applying
  <1>2. /\ pc'[u] \in {"restart", "health", "rollback", "cleanup"}
        /\ UNCHANGED <<seen, disk, bak, tmp, job>>
    BY <1>1, ApplyFacts DEF Chown, Restart, RestartFails, Health, Goto
  <1>3. Spared'
    BY <1>1, <1>2, ApplyFacts DEF Spared
  <1>4. Component(u) \in Known =>
           /\ disk[Component(u)] = Head(job[u].queue)[2] /\ disk[Component(u)] \in Build
           /\ bak[Component(u)] = job[u].previous /\ bak[Component(u)] \in Build
    BY <1>1, ApplyFacts DEF Stage
  <1>5. Staged(u)'
    <2>1. Component(u)' = Component(u) /\ Head(job[u].queue)' = Head(job[u].queue)
      BY <1>2 DEF Component
    <2>2. QED
      BY <1>2, <1>4, <2>1 DEF Staged, Stage
  <1>6. QED
    BY <1>1, <1>2, <1>3, <1>5, StayFiles DEF Applying

LEMMA RollbackFiles ==
    ASSUME Alone, FilesOK, WellTyped', NEW u \in Updaters, Rollback(u) PROVE FilesOK'
  <1> DEFINE c == Component(u)
  <1>1. pc[u] = "rollback" /\ pc[u] \in Applying
    BY DEF Rollback, Goto, Applying
  <1>2. /\ pc'[u] = "rb_restart" /\ UNCHANGED <<seen, bak, job>>
        /\ disk' = [disk EXCEPT ![c] = bak[c]] /\ disk'[c] = bak[c]
    BY <1>1, ApplyFacts DEF Rollback, Goto
  <1>3. c \in Known => bak[c] \in Build
    BY <1>1, ApplyFacts DEF Stage
  <1>4. \A d \in Known : d # c => disk'[d] = disk[d]
    BY <1>1, <1>2, ApplyFacts DEF Known
  <1>5. Spared'
    BY <1>1, <1>2, <1>3, <1>4, ApplyFacts DEF Spared
  <1>6. Staged(u)'
    <2>1. Component(u)' = Component(u) /\ Head(job[u].queue)' = Head(job[u].queue)
      BY <1>2 DEF Component
    <2>2. QED
      BY <1>2, <1>3, <2>1 DEF Staged, Stage
  <1>7. QED
    BY <1>1, <1>2, <1>4, <1>5, <1>6, ApplyFacts, StayFiles DEF Applying

LEMMA EndedFiles ==
    ASSUME Alone, FilesOK, WellTyped', NEW u \in Updaters,
           \/ BackupFails(u) \/ ReplaceFails(u) \/ ChownFails(u) \/ Cleanup(u) \/ RollbackFails(u)
           \/ RollbackRestart(u)
    PROVE  FilesOK'
  <1> DEFINE c == Component(u)
  <1>1. pc[u] \in Applying /\ Leave(u) /\ UNCHANGED seen
    BY DEF BackupFails, ReplaceFails, ChownFails, Cleanup, RollbackFails, RollbackRestart, Applying
  <1>2. pc'[u] = "apply" /\ job'[u].queue = Tail(job[u].queue)
    BY <1>1, ApplyFacts DEF Leave, Job
  <1>3. /\ \A d \in Known : d # c => disk'[d] = disk[d] /\ bak'[d] = bak[d]
        /\ c \in Known => (disk'[c] = Torn => bak'[c] \in Build)
    <2>1. CASE BackupFails(u) \/ Cleanup(u)
      <3>1. c \in Known => disk[c] \in Build
        BY <1>1, <2>1, ApplyFacts DEF BackupFails, Cleanup, Stage
      <3>2. UNCHANGED disk /\ \A d \in Known : d # c => bak'[d] = bak[d]
        BY <1>1, <2>1, ApplyFacts DEF BackupFails, Cleanup, Known
      <3>3. QED
        BY <3>1, <3>2, Numbers
    <2>2. CASE RollbackFails(u)
      <3>1. c \in Known => bak[c] \in Build
        BY <1>1, <2>2, ApplyFacts DEF RollbackFails, Stage
      <3>2. UNCHANGED bak /\ \A d \in Known : d # c => disk'[d] = disk[d]
        BY <1>1, <2>2, ApplyFacts DEF RollbackFails, Known
      <3>3. QED
        BY <3>1, <3>2
    <2>3. CASE ReplaceFails(u) \/ ChownFails(u) \/ RollbackRestart(u)
      BY <1>1, <2>3, ApplyFacts DEF ReplaceFails, ChownFails, RollbackRestart, Spared
    <2>4. QED
      BY <2>1, <2>2, <2>3
  <1>4. Spared'
    BY <1>1, <1>3, ApplyFacts DEF Spared
  <1>5. QED
    BY <1>1, <1>2, <1>3, <1>4, ApplyFacts, LeaveFiles

LEMMA CrashFiles ==
    ASSUME Alone, FilesOK, WellTyped', NEW u \in Updaters, Crash(u) PROVE FilesOK'
  <1> DEFINE c == Component(u)
  <1>1. pc'[u] = "idle" /\ job'[u] = NoJob
    BY DEF Crash, FilesOK, WellTyped, TypeOK
  <1>2. Spared'
    <2>1. CASE pc[u] = "backup"
      <3>1. pc[u] \in Applying /\ (c \in Known => disk[c] # Torn)
        BY <2>1, ApplyFacts, Numbers DEF Applying, Stage
      <3>2. UNCHANGED disk /\ \A d \in Known : d # c => bak'[d] = bak[d]
        BY <2>1, <3>1, ApplyFacts DEF Crash, Known
      <3>3. QED
        BY <3>1, <3>2, ApplyFacts DEF Spared
    <2>2. CASE pc[u] = "rollback"
      <3>1. pc[u] \in Applying /\ (c \in Known => bak[c] \in Build)
        BY <2>2, ApplyFacts DEF Applying, Stage
      <3>2. UNCHANGED bak /\ \A d \in Known : d # c => disk'[d] = disk[d]
        BY <2>2, <3>1, ApplyFacts DEF Crash, Known
      <3>3. QED
        BY <3>1, <3>2, ApplyFacts DEF Spared
    <2>3. CASE pc[u] \notin {"backup", "rollback"}
      <3>1. UNCHANGED <<disk, bak>>
        BY <2>3 DEF Crash
      <3>2. QED
        BY <3>1 DEF FilesOK, Spared
    <2>4. QED
      BY <2>1, <2>2, <2>3
  <1>3. QED
    BY <1>1, <1>2, IdleFiles

LEMMA StepFiles == Alone /\ FilesOK /\ [Next]_vars => FilesOK'
  <1> SUFFICES ASSUME Alone, FilesOK, [Next]_vars PROVE FilesOK'
    OBVIOUS
  <1>1. WellTyped'
    BY StepTypes DEF FilesOK
  <1>2. ASSUME NEW u \in Updaters, Apply(u) PROVE FilesOK'
    BY <1>1, <1>2, BackupFiles, ReplaceFiles, ServiceFiles, RollbackFiles, EndedFiles DEF Apply
  <1>3. ASSUME UNCHANGED vars \/ (\E r \in Releases : Publish(r)) \/ (\E c \in Components : Ages(c))
               \/ (\E c \in Services : Exit(c) \/ Respawn(c))
        PROVE  FilesOK'
    <2>1. UNCHANGED <<seen, disk, bak, tmp, pc, job>>
      BY <1>3 DEF vars, Publish, Ages, Exit, Respawn
    <2>2. QED
      BY <1>1, <2>1, OtherFiles
  <1>4. QED
    BY <1>1, <1>2, <1>3, StartFiles, CheckFiles, EndFiles, SkipFiles, DownloadFiles, CrashFiles DEF Next

LEMMA AlwaysFiles == ASSUME Alone PROVE Spec => []FilesOK
  BY Alone, InitFiles, StepFiles, PTL DEF Spec
-----------------------------------------------------------------------------
(* Refinement. *)

LEMMA ProbedKnown == Probed \subseteq Known /\ Probed \subseteq Components
  BY UpdateAssumption DEF Known, Components

Installed == [c \in Probed |-> disk[c]]
Spare == [c \in Probed |-> bak[c]]

LEMMA FilesStutter == ASSUME UNCHANGED <<disk, bak>> PROVE UNCHANGED Files!vars
  BY DEF Files!vars

\* The copy, or a part of it.
LEMMA CopyStep ==
    ASSUME FilesOK, NEW u \in Updaters, pc[u] = "backup", UNCHANGED disk,
           NEW x \in {disk[Component(u)], Torn}, bak' = [bak EXCEPT ![Component(u)] = x]
    PROVE  [Files!Next]_(Files!vars)
  <1> DEFINE c == Component(u)
  <1>1. pc[u] \in Applying
    BY DEF Applying
  <1>2. CASE c \in Probed
    <2>1. disk[c] \in Build
      BY <1>1, <1>2, ApplyFacts, ProbedKnown DEF Stage
    <2>2. Spare' = [Spare EXCEPT ![c] = x]
      <3>1. \A d \in Probed : bak'[d] = IF d = c THEN x ELSE bak[d]
        BY <1>1, ApplyFacts, ProbedKnown
      <3>2. QED
        BY <1>2, <3>1 DEF Spare
    <2>3. Files!Copy(c)
      BY <1>2, <2>1, <2>2 DEF Files!Copy, Files!Set, Spare
    <2>4. QED
      BY <1>2, <2>3 DEF Files!Next
  <1>3. CASE c \notin Probed
    <2>1. Spare' = Spare
      <3>1. \A d \in Probed : bak'[d] = bak[d]
        BY <1>1, <1>3, ApplyFacts, ProbedKnown
      <3>2. QED
        BY <3>1 DEF Spare
    <2>2. QED
      BY <2>1 DEF Files!vars, Spare
  <1>4. QED
    BY <1>2, <1>3

\* The return to the backup, or a part of it.
LEMMA RestoreStep ==
    ASSUME FilesOK, NEW u \in Updaters, pc[u] = "rollback", UNCHANGED bak,
           NEW x \in {bak[Component(u)], Torn}, disk' = [disk EXCEPT ![Component(u)] = x]
    PROVE  [Files!Next]_(Files!vars)
  <1> DEFINE c == Component(u)
  <1>1. pc[u] \in Applying
    BY DEF Applying
  <1>2. CASE c \in Probed
    <2>1. bak[c] \in Build
      BY <1>1, <1>2, ApplyFacts, ProbedKnown DEF Stage
    <2>2. Installed' = [Installed EXCEPT ![c] = x]
      <3>1. \A d \in Probed : disk'[d] = IF d = c THEN x ELSE disk[d]
        BY <1>1, ApplyFacts, ProbedKnown
      <3>2. QED
        BY <1>2, <3>1 DEF Installed
    <2>3. Files!Restore(c)
      BY <1>2, <2>1, <2>2 DEF Files!Restore, Files!Set, Installed
    <2>4. QED
      BY <1>2, <2>3 DEF Files!Next
  <1>3. CASE c \notin Probed
    <2>1. Installed' = Installed
      <3>1. \A d \in Probed : disk'[d] = disk[d]
        BY <1>1, <1>3, ApplyFacts, ProbedKnown
      <3>2. QED
        BY <3>1 DEF Installed
    <2>2. QED
      BY <2>1 DEF Files!vars, Installed
  <1>4. QED
    BY <1>2, <1>3

LEMMA UpgradeStep ==
    ASSUME FilesOK, NEW u \in Updaters, Replace(u) PROVE [Files!Next]_(Files!vars)
  <1> DEFINE c == Component(u)
             b == Head(job[u].queue)[2]
  <1>1. /\ pc[u] = "replace" /\ pc[u] \in Applying /\ UNCHANGED bak
        /\ disk' = [disk EXCEPT ![c] = tmp[c]] /\ tmp[c] # Absent
    BY DEF Replace, Goto, Applying
  <1>2. CASE c \in Probed
    <2>1. /\ bak[c] = disk[c] /\ disk[c] < tmp[c] /\ tmp[c] \in Build
      BY <1>1, <1>2, ApplyFacts, ProbedKnown DEF Stage
    <2>2. Installed' = [Installed EXCEPT ![c] = tmp[c]]
      <3>1. \A d \in Probed : disk'[d] = IF d = c THEN tmp[c] ELSE disk[d]
        BY <1>1, ApplyFacts, ProbedKnown
      <3>2. QED
        BY <1>2, <3>1 DEF Installed
    <2>3. Files!Upgrade(c)
      BY <1>1, <1>2, <2>1, <2>2 DEF Files!Upgrade, Files!Set, Installed
    <2>4. QED
      BY <1>2, <2>3 DEF Files!Next
  <1>3. CASE c \notin Probed
    <2>1. Installed' = Installed
      <3>1. \A d \in Probed : disk'[d] = disk[d]
        BY <1>1, <1>3, ApplyFacts, ProbedKnown
      <3>2. QED
        BY <3>1 DEF Installed
    <2>2. QED
      BY <1>1, <2>1 DEF Files!vars, Installed
  <1>4. QED
    BY <1>2, <1>3

LEMMA DiscardStep ==
    ASSUME FilesOK, NEW u \in Updaters, Cleanup(u) PROVE [Files!Next]_(Files!vars)
  <1> DEFINE c == Component(u)
  <1>1. /\ pc[u] = "cleanup" /\ pc[u] \in Applying /\ UNCHANGED disk
        /\ bak' = [bak EXCEPT ![c] = Absent]
    BY DEF Cleanup, Applying
  <1>2. CASE c \in Probed
    <2>1. disk[c] \in Build
      BY <1>1, <1>2, ApplyFacts, ProbedKnown DEF Stage
    <2>2. Spare' = [Spare EXCEPT ![c] = Absent]
      <3>1. \A d \in Probed : bak'[d] = IF d = c THEN Absent ELSE bak[d]
        BY <1>1, ApplyFacts, ProbedKnown
      <3>2. QED
        BY <1>2, <3>1 DEF Spare
    <2>3. Files!Discard(c)
      BY <1>1, <1>2, <2>1, <2>2 DEF Files!Discard, Files!Set, Spare
    <2>4. QED
      BY <1>2, <2>3 DEF Files!Next
  <1>3. CASE c \notin Probed
    <2>1. Spare' = Spare
      <3>1. \A d \in Probed : bak'[d] = bak[d]
        BY <1>1, <1>3, ApplyFacts, ProbedKnown
      <3>2. QED
        BY <3>1 DEF Spare
    <2>2. QED
      BY <1>1, <2>1 DEF Files!vars, Spare
  <1>4. QED
    BY <1>2, <1>3

LEMMA KilledStep ==
    ASSUME FilesOK, NEW u \in Updaters, Crash(u) PROVE [Files!Next]_(Files!vars)
  <1>1. CASE UNCHANGED <<disk, bak>>
    BY <1>1, FilesStutter
  <1>2. CASE pc[u] = "backup" /\ UNCHANGED disk /\ bak' = [bak EXCEPT ![Component(u)] = Torn]
    BY <1>2, CopyStep
  <1>3. CASE pc[u] = "rollback" /\ UNCHANGED bak /\ disk' = [disk EXCEPT ![Component(u)] = Torn]
    BY <1>3, RestoreStep
  <1>4. QED
    BY <1>1, <1>2, <1>3 DEF Crash

LEMMA ApplyStep ==
    ASSUME FilesOK, NEW u \in Updaters, Apply(u) PROVE [Files!Next]_(Files!vars)
  <1>1. CASE Backup(u)
    BY <1>1, CopyStep DEF Backup, Goto
  <1>2. CASE BackupFails(u)
    <2>1. CASE UNCHANGED bak
      BY <1>2, <2>1, FilesStutter DEF BackupFails
    <2>2. CASE bak' = [bak EXCEPT ![Component(u)] = Torn]
      BY <1>2, <2>2, CopyStep DEF BackupFails
    <2>3. QED
      BY <1>2, <2>1, <2>2 DEF BackupFails
  <1>3. CASE Rollback(u)
    BY <1>3, RestoreStep DEF Rollback, Goto
  <1>4. CASE RollbackFails(u)
    <2>1. CASE UNCHANGED disk
      BY <1>4, <2>1, FilesStutter DEF RollbackFails
    <2>2. CASE disk' = [disk EXCEPT ![Component(u)] = Torn]
      BY <1>4, <2>2, RestoreStep DEF RollbackFails
    <2>3. QED
      BY <1>4, <2>1, <2>2 DEF RollbackFails
  <1>5. CASE ReplaceFails(u) \/ Chown(u) \/ ChownFails(u) \/ Restart(u) \/ RestartFails(u)
             \/ Health(u) \/ RollbackRestart(u)
    BY <1>5, FilesStutter DEF ReplaceFails, Chown, ChownFails, Restart, RestartFails, Health,
                              RollbackRestart
  <1>6. QED
    BY <1>1, <1>2, <1>3, <1>4, <1>5, UpgradeStep, DiscardStep DEF Apply

LEMMA NextFiles == FilesOK /\ [Next]_vars => [Files!Next]_(Files!vars)
  <1> SUFFICES ASSUME FilesOK, [Next]_vars PROVE [Files!Next]_(Files!vars)
    OBVIOUS
  <1>1. ASSUME NEW u \in Updaters,
               \/ \E auto \in BOOLEAN : Start(u, auto)
               \/ SkipCheck(u) \/ Check(u) \/ CheckFails(u) \/ Skip(u) \/ Download(u) \/ Reconcile(u)
        PROVE  [Files!Next]_(Files!vars)
    BY <1>1, FilesStutter DEF Start, SkipCheck, Check, CheckFails, Skip, Download, Reconcile
  <1>2. ASSUME UNCHANGED vars \/ (\E r \in Releases : Publish(r)) \/ (\E c \in Components : Ages(c))
               \/ (\E c \in Services : Exit(c) \/ Respawn(c))
        PROVE  [Files!Next]_(Files!vars)
    BY <1>2, FilesStutter DEF vars, Publish, Ages, Exit, Respawn
  <1>3. QED
    BY <1>1, <1>2, ApplyStep, KilledStep DEF Next

\* apply.go:105-170: one updater at a time does to the binary of a probed component and its
\* backup only what ComponentFile allows: whatever fails, and wherever it is killed, a whole
\* copy of the installed version is there to return to.
THEOREM ImplementsFilesHolds == ASSUME Alone PROVE Spec => ImplementsFiles
  <1>1. Init => Files!Init
    BY Numbers, ProbedKnown DEF Init, Files!Init
  <1>2. Spec => []FilesOK
    BY Alone, AlwaysFiles
  <1>3. QED
    BY <1>1, <1>2, NextFiles, PTL DEF Spec, Files!Spec, ImplementsFiles

\* apply.go:152: the backup of a binary that a return left torn is whole, and can be put back
\* by hand.
THEOREM RecoverableHolds == ASSUME Alone PROVE Spec => []Recoverable
  <1>1. FilesOK => Recoverable
    BY ProbedKnown DEF FilesOK, Spared, Recoverable
  <1>2. QED
    BY Alone, AlwaysFiles, <1>1, PTL
-----------------------------------------------------------------------------
(* What was recorded has been installed. *)

\* A release that is bad stays so.
LEMMA BadStays == ASSUME [Next]_vars, NEW c, NEW b PROVE Good(c, b)' => Good(c, b)
  <1>1. bad \subseteq bad'
    BY DEF Next, vars, Start, SkipCheck, Check, CheckFails, Skip, Download, Apply, Reconcile, Crash,
           Publish, Ages, Exit, Respawn, Backup, BackupFails, Replace, ReplaceFails, Chown,
           ChownFails, Restart, RestartFails, Health, Cleanup, Rollback, RollbackFails,
           RollbackRestart
  <1>2. QED
    BY <1>1 DEF Good

\* The upgrade that is applied is the one of the last record.
LEMMA HeadIsSeen ==
    ASSUME FilesOK, NEW u \in Updaters, pc[u] \in Applying
    PROVE  Head(job[u].queue)[2] = seen[Component(u)]
  BY PlanTypes DEF FilesOK, Planned

\* The parts of Kept.
Recorded(c) == Good(c, seen[c]) => (disk[c] >= seen[c] \/ Awaited(c))

OnlyBadReturned(u) ==
    pc[u] \in Applying /\ Component(u) \in Known =>
        /\ pc[u] \in {"restart", "health", "rollback", "rb_restart"} => Component(u) \in Services
        /\ pc[u] = "health" /\ ~Bad(u) => running[Component(u)] = Head(job[u].queue)[2]
        /\ pc[u] \in {"rollback", "rb_restart"} => Bad(u)

LEMMA KeptParts ==
    Kept <=> (clean => /\ \A c \in Known : disk[c] \in Build /\ Recorded(c)
                       /\ \A u \in Updaters : OnlyBadReturned(u))
  BY DEF Kept, Recorded, OnlyBadReturned

\* A step in which no component of the plan changes its place.
LEMMA SameRecords ==
    ASSUME [Next]_vars, UNCHANGED <<seen, disk>>, \A c \in Known : Awaited(c) => Awaited(c)',
           NEW c \in Known, Recorded(c)
    PROVE  Recorded(c)'
  BY BadStays DEF Recorded

\* The same of a step of the updater that keeps its queue and is not at the end of an upgrade.
LEMMA StillAwaited ==
    ASSUME Alone, NEW u \in Updaters, job'[u].queue = job[u].queue,
           pc'[u] \in {"check", "apply", "backup", "replace"} \/ pc[u] \notin {"check", "apply", "backup", "replace"}
    PROVE  \A c \in Known : Awaited(c) => Awaited(c)'
  BY DEF Alone, Awaited

LEMMA FrontIndex ==
    ASSUME NEW S, NEW s \in Seq(S), NEW i \in DOMAIN s, i # 1
    PROVE  i - 1 \in DOMAIN Tail(s) /\ Tail(s)[i - 1] = s[i]
  <1>1. DOMAIN s = 1..Len(s) /\ Len(s) \in Nat /\ s # <<>>
    BY LenProperties
  <1>2. /\ Tail(s) \in Seq(S) /\ Len(Tail(s)) = Len(s) - 1
        /\ \A j \in 1..Len(Tail(s)) : Tail(s)[j] = s[j + 1]
    BY <1>1, HeadTailProperties
  <1>3. DOMAIN Tail(s) = 1..(Len(s) - 1)
    BY <1>2, LenProperties
  <1>4. i - 1 \in 1..(Len(s) - 1) /\ (i - 1) + 1 = i
    BY <1>1
  <1>5. QED
    BY <1>2, <1>3, <1>4

\* The component that is upgraded is not one of those that wait.
LEMMA OthersAwaited ==
    ASSUME Alone, FilesOK, NEW u \in Updaters, pc[u] \in Applying,
           NEW c \in Known, c # Component(u),
           \/ job'[u].queue = job[u].queue
           \/ job'[u].queue = Tail(job[u].queue) /\ pc'[u] = "apply"
    PROVE  Awaited(c) => Awaited(c)'
  <1> SUFFICES ASSUME Awaited(c) PROVE Awaited(c)'
    OBVIOUS
  <1> DEFINE queue == job[u].queue
  <1>1. PICK i \in DOMAIN queue : queue[i][1] = c
    BY DEF Alone, Awaited
  <1>2. i # 1 /\ queue \in Seq(Components \X Build) /\ DOMAIN queue = 1..Len(queue) /\ Len(queue) \in Nat
    BY <1>1, PlanTypes, LenProperties DEF FilesOK
  <1>3. CASE job'[u].queue = job[u].queue
    BY <1>1, <1>2, <1>3 DEF Awaited
  <1>4. CASE job'[u].queue = Tail(job[u].queue) /\ pc'[u] = "apply"
    <2>1. i - 1 \in DOMAIN Tail(queue) /\ Tail(queue)[i - 1] = queue[i]
      BY <1>2, FrontIndex
    <2>2. QED
      BY <1>1, <1>4, <2>1 DEF Awaited
  <1>5. QED
    BY <1>3, <1>4

\* An upgrade that goes on or ends, of a component that is settled.
LEMMA UpgradeRecords ==
    ASSUME Alone, FilesOK, [Next]_vars, NEW u \in Updaters, pc[u] \in Applying, UNCHANGED seen,
           \/ job'[u].queue = job[u].queue
           \/ job'[u].queue = Tail(job[u].queue) /\ pc'[u] = "apply",
           \A c \in Known : Recorded(c),
           \A c \in Known : c # Component(u) => disk'[c] = disk[c],
           \A c \in Known : c = Component(u) => Recorded(c)'
    PROVE  \A c \in Known : Recorded(c)'
  <1> SUFFICES ASSUME NEW c \in Known, c # Component(u) PROVE Recorded(c)'
    OBVIOUS
  <1>1. Awaited(c) => Awaited(c)'
    BY OthersAwaited
  <1>2. QED
    BY <1>1, BadStays DEF Recorded

\* A component whose upgrade has begun is no longer awaited.
LEMMA HeadNotAwaited ==
    ASSUME Alone, FilesOK, NEW u \in Updaters, pc[u] \in Applying \ {"backup", "replace"}
    PROVE  ~Awaited(Component(u))
  <1> SUFFICES ASSUME Awaited(Component(u)) PROVE FALSE
    OBVIOUS
  <1>1. PICK i \in DOMAIN job[u].queue :
           /\ job[u].queue[i][1] = Component(u)
           /\ i = 1 => pc[u] \in {"check", "apply", "backup", "replace"}
    BY DEF Alone, Awaited
  <1>2. i = 1
    BY <1>1, PlanTypes DEF FilesOK, Planned
  <1>3. QED
    BY <1>1, <1>2 DEF Applying

\* What a step must do to keep Kept.
KeptStep == /\ \A c \in Known : disk'[c] \in Build /\ Recorded(c)'
            /\ \A u \in Updaters : OnlyBadReturned(u)'

LEMMA CheckingKept ==
    ASSUME Alone, FilesOK, FilesOK', Kept, clean, [Next]_vars, NEW u \in Updaters,
           (\E auto \in BOOLEAN : Start(u, auto)) \/ SkipCheck(u) \/ Check(u) \/ Download(u) \/ Reconcile(u)
    PROVE  KeptStep
  <1>1. UNCHANGED disk /\ \A c \in Known : disk[c] \in Build /\ Recorded(c)
    BY KeptParts DEF Start, SkipCheck, Check, Download, Reconcile
  <1>2. /\ pc \in [Updaters -> PC] /\ job \in [Updaters -> Job] /\ JobTypes /\ FileTypes
        /\ Working(u)
    BY TypeParts DEF FilesOK, WellTyped, TypeOK
  <1>3. pc'[u] \in {"check", "apply", "backup", "idle"}
    BY <1>2 DEF Start, SkipCheck, Check, Download, Reconcile, NextCheck, Goto
  <1>4. \A v \in Updaters : OnlyBadReturned(v)'
    <2>1. OnlyBadReturned(u)'
      BY <1>3 DEF OnlyBadReturned
    <2>2. QED
      BY <2>1 DEF Alone
  <1>5. ASSUME NEW c \in Known PROVE Recorded(c)'
    <2>1. CASE (\E auto \in BOOLEAN : Start(u, auto)) \/ Reconcile(u)
      <3>1. job[u].queue = <<>> /\ UNCHANGED seen /\ DOMAIN <<>> = {}
        <4>1. CASE \E auto \in BOOLEAN : Start(u, auto)
          <5>1. pc[u] = "idle" /\ UNCHANGED seen
            BY <4>1 DEF Start, Goto
          <5>2. job[u].queue = <<>>
            BY <1>2, <5>1 DEF Working
          <5>3. QED
            BY <5>1, <5>2
        <4>2. CASE Reconcile(u)
          BY <4>2 DEF Reconcile
        <4>3. QED
          BY <2>1, <4>1, <4>2
      <3>2. ~Awaited(c)
        BY <3>1 DEF Alone, Awaited
      <3>3. QED
        BY <1>1, <3>1, <3>2, BadStays DEF Recorded
    <2>2. CASE SkipCheck(u)
      <3>1. UNCHANGED seen /\ job'[u].queue = job[u].queue /\ pc'[u] \in {"check", "apply"}
        BY <1>2, <2>2 DEF SkipCheck, NextCheck, Goto, Job
      <3>2. QED
        BY <1>1, <3>1, StillAwaited, SameRecords
    <2>3. CASE Download(u)
      <3>1. UNCHANGED <<seen, job>> /\ pc'[u] = "backup"
        BY <1>2, <2>3 DEF Download, Goto
      <3>2. QED
        BY <1>1, <3>1, StillAwaited, SameRecords
    <2>4. CASE Check(u)
      <3> DEFINE h == Head(job[u].todo)
                 old == job[u].queue
      <3>1. /\ pc[u] = "check" /\ pc'[u] \in {"check", "apply"} /\ h \in Components
            /\ old \in Seq(Components \X Build) /\ seen' = [seen EXCEPT ![h] = latest[h]]
            /\ job[u] \in Job /\ latest[h] \in Build
        BY <1>2, <2>4, HeadTypes DEF Check, NextCheck, Goto, FileTypes
      <3>2. job'[u].queue = old \o (IF IsUpgrade(u, h) THEN <<<<h, latest[h]>>>> ELSE <<>>)
        BY <1>2, <2>4, <3>1 DEF Check, NextCheck, Goto, Job
      <3>3. DOMAIN old = 1..Len(old) /\ Len(old) \in Nat
        BY <3>1, LenProperties
      <3>4. \A i \in DOMAIN old : i \in DOMAIN job'[u].queue /\ job'[u].queue[i] = old[i]
        <4>1. CASE IsUpgrade(u, h)
          <5>1. <<h, latest[h]>> \in Components \X Build
            BY <3>1
          <5>2. /\ job'[u].queue = Append(old, <<h, latest[h]>>)
                /\ Len(Append(old, <<h, latest[h]>>)) = Len(old) + 1
                /\ Append(old, <<h, latest[h]>>) \in Seq(Components \X Build)
                /\ \A i \in 1..Len(old) : Append(old, <<h, latest[h]>>)[i] = old[i]
            <6>1. old \o <<<<h, latest[h]>>>> = Append(old, <<h, latest[h]>>)
              BY <3>1, <5>1, AppendIsConcat
            <6>2. /\ Len(Append(old, <<h, latest[h]>>)) = Len(old) + 1
                  /\ Append(old, <<h, latest[h]>>) \in Seq(Components \X Build)
                  /\ \A i \in 1..Len(old) : Append(old, <<h, latest[h]>>)[i] = old[i]
              BY <3>1, <5>1, AppendProperties
            <6>3. QED
              BY <3>2, <4>1, <6>1, <6>2
          <5>3. DOMAIN job'[u].queue = 1..(Len(old) + 1)
            BY <5>2, LenProperties
          <5>4. 1..Len(old) \subseteq 1..(Len(old) + 1)
            BY <3>3
          <5>5. QED
            BY <3>3, <5>2, <5>3, <5>4
        <4>2. CASE ~IsUpgrade(u, h)
          BY <3>1, <3>2, <4>2, ConcatEmptySeq
        <4>3. QED
          BY <4>1, <4>2
      <3>5. CASE c # h
        <4>1. Awaited(c) => Awaited(c)'
          BY <3>1, <3>4 DEF Alone, Awaited
        <4>2. seen'[c] = seen[c]
          BY <1>2, <3>1, <3>5 DEF Known, FileTypes
        <4>3. QED
          BY <1>1, <4>1, <4>2, BadStays DEF Recorded
      <3>6. CASE c = h /\ IsUpgrade(u, h)
        <4>1. <<h, latest[h]>> \in Components \X Build
          BY <3>1
        <4>2. /\ job'[u].queue = Append(old, <<h, latest[h]>>)
              /\ Append(old, <<h, latest[h]>>)[Len(old) + 1] = <<h, latest[h]>>
              /\ Len(Append(old, <<h, latest[h]>>)) = Len(old) + 1
              /\ Append(old, <<h, latest[h]>>) \in Seq(Components \X Build)
          <5>1. old \o <<<<h, latest[h]>>>> = Append(old, <<h, latest[h]>>)
            BY <3>1, <4>1, AppendIsConcat
          <5>2. /\ Append(old, <<h, latest[h]>>)[Len(old) + 1] = <<h, latest[h]>>
                /\ Len(Append(old, <<h, latest[h]>>)) = Len(old) + 1
                /\ Append(old, <<h, latest[h]>>) \in Seq(Components \X Build)
            BY <3>1, <4>1, AppendProperties
          <5>3. QED
            BY <3>2, <3>6, <5>1, <5>2
        <4>3. Len(old) + 1 \in DOMAIN job'[u].queue
          <5>1. DOMAIN job'[u].queue = 1..(Len(old) + 1)
            BY <4>2, LenProperties
          <5>2. QED
            BY <3>3, <5>1
        <4>4. Awaited(c)'
          <5>1. job'[u].queue[Len(old) + 1] = <<c, latest[h]>> /\ <<c, latest[h]>>[1] = c
            BY <3>6, <4>2
          <5>2. pc'[u] \in {"check", "apply", "backup", "replace"}
            BY <3>1
          <5>3. QED
            BY <4>3, <5>1, <5>2 DEF Awaited
        <4>5. QED
          BY <4>4 DEF Recorded
      <3>7. CASE c = h /\ ~IsUpgrade(u, h)
        <4>1. disk[h] \in Build /\ Current(u, h) = disk[h]
          BY <1>1, <3>1, <3>7, CurrentIsInstalled
        <4>2. disk[h] >= latest[h]
          BY <3>1, <3>7, <4>1, UpdateAssumption DEF IsUpgrade, Build, Torn
        <4>3. seen'[h] = latest[h]
          BY <1>2, <3>1 DEF FileTypes
        <4>4. QED
          BY <1>1, <3>7, <4>2, <4>3 DEF Recorded
      <3>8. QED
        BY <3>5, <3>6, <3>7
    <2>5. QED
      BY <2>1, <2>2, <2>3, <2>4
  <1>6. QED
    BY <1>1, <1>4, <1>5 DEF KeptStep

\* The component and the build that an updater has come to.
LEMMA SameHead ==
    ASSUME Alone, NEW u \in Updaters, job'[u].queue = job[u].queue, [Next]_vars,
           ASSUME pc'[u] \in Applying, Component(u) \in Known
           PROVE  /\ pc'[u] \in {"restart", "health", "rollback", "rb_restart"} =>
                        Component(u) \in Services
                  /\ pc'[u] = "health" /\ ~Bad(u) =>
                        running'[Component(u)] = Head(job[u].queue)[2]
                  /\ pc'[u] \in {"rollback", "rb_restart"} => Bad(u)
    PROVE  \A v \in Updaters : OnlyBadReturned(v)'
  <1>1. Component(u)' = Component(u) /\ Head(job[u].queue)' = Head(job[u].queue)
    BY DEF Component
  <1>2. Bad(u) => Bad(u)'
    BY <1>1, BadStays DEF Bad
  <1>3. OnlyBadReturned(u)'
    BY <1>1, <1>2 DEF OnlyBadReturned
  <1>4. QED
    BY <1>3 DEF Alone

LEMMA EndedKept ==
    ASSUME Alone, FilesOK, FilesOK', Kept, clean, clean', [Next]_vars, NEW u \in Updaters,
           \/ BackupFails(u) \/ ReplaceFails(u) \/ ChownFails(u) \/ Cleanup(u) \/ RollbackFails(u)
           \/ RollbackRestart(u)
    PROVE  KeptStep
  <1> DEFINE c == Component(u)
  <1>1. Cleanup(u) \/ RollbackFails(u) \/ RollbackRestart(u)
    BY DEF BackupFails, ReplaceFails, ChownFails, Mishap
  <1>2. pc[u] \in {"cleanup", "rollback", "rb_restart"} /\ pc[u] \in Applying /\ Leave(u)
    BY <1>1 DEF Cleanup, RollbackFails, RollbackRestart, Applying
  <1>3. UNCHANGED <<disk, seen>>
    BY <1>1 DEF Cleanup, RollbackFails, RollbackRestart, Mishap
  <1>4. job'[u].queue = Tail(job[u].queue) /\ pc'[u] = "apply"
    BY <1>2, ApplyFacts DEF Leave, Job
  <1>5. \A d \in Known : disk[d] \in Build /\ Recorded(d)
    BY KeptParts
  <1>6. ASSUME c \in Known, pc[u] # "cleanup" PROVE ~Good(c, seen[c])
    <2>1. Bad(u)
      BY <1>2, <1>6, KeptParts DEF OnlyBadReturned
    <2>2. QED
      BY <1>2, <2>1, HeadIsSeen DEF Bad
  <1>7. \A d \in Known : d = c => Recorded(d)'
    <2>1. ~Awaited(c)
      BY <1>2, HeadNotAwaited
    <2>2. QED
      BY <1>3, <1>5, <2>1, BadStays DEF Recorded
  <1>8. \A d \in Known : Recorded(d)'
    BY <1>2, <1>3, <1>4, <1>5, <1>7, UpgradeRecords
  <1>9. \A v \in Updaters : OnlyBadReturned(v)'
    BY <1>4 DEF Alone, OnlyBadReturned, Applying
  <1>10. QED
    BY <1>3, <1>5, <1>8, <1>9 DEF KeptStep

LEMMA GoingOnKept ==
    ASSUME Alone, FilesOK, FilesOK', Kept, clean, clean', [Next]_vars, NEW u \in Updaters,
           \/ Backup(u) \/ Replace(u) \/ Chown(u) \/ Restart(u) \/ RestartFails(u) \/ Health(u)
           \/ Rollback(u)
    PROVE  KeptStep
  <1> DEFINE c == Component(u)
             b == Head(job[u].queue)[2]
  <1>1. pc[u] \in Applying /\ ~RestartFails(u)
    BY DEF Backup, Replace, Chown, Restart, RestartFails, Health, Rollback, Goto, Applying, Mishap
  <1>2. /\ job'[u].queue = job[u].queue /\ UNCHANGED seen
    BY <1>1, ApplyFacts DEF Backup, Replace, Chown, Restart, Health, Rollback, Goto, Job
  <1>3. \A d \in Known : disk[d] \in Build /\ Recorded(d)
    BY KeptParts
  <1>4. b = seen[c] /\ b \in Build
    BY <1>1, HeadIsSeen, ApplyFacts
  <1>5. \A d \in Known : d # c => disk'[d] = disk[d]
    BY <1>1, ApplyFacts DEF Backup, Replace, Chown, Restart, Health, Rollback, Known
  <1>6. pc[u] \in {"restart", "health", "rollback"} /\ c \in Known => c \in Services
    BY <1>1, KeptParts DEF OnlyBadReturned
  <1>7. ASSUME c \in Known
        PROVE  disk'[c] \in Build /\ (disk'[c] # disk[c] => disk'[c] = b \/ Bad(u))
    <2>1. CASE Replace(u)
      <3>1. disk'[c] = tmp[c] /\ tmp[c] # Absent /\ pc[u] = "replace"
        BY <1>1, <2>1, ApplyFacts DEF Replace, Goto
      <3>2. tmp[c] = b
        BY <1>1, <1>7, <3>1, ApplyFacts DEF Stage
      <3>3. QED
        BY <1>4, <3>1, <3>2
    <2>2. CASE Rollback(u)
      <3>1. disk'[c] = bak[c] /\ pc[u] = "rollback"
        BY <1>1, <2>2, ApplyFacts DEF Rollback, Goto
      <3>2. bak[c] \in Build /\ Bad(u)
        BY <1>1, <1>7, <3>1, ApplyFacts, KeptParts DEF Stage, OnlyBadReturned
      <3>3. QED
        BY <3>1, <3>2
    <2>3. CASE UNCHANGED disk
      BY <1>3, <1>7, <2>3
    <2>4. QED
      BY <1>1, <2>1, <2>2, <2>3 DEF Backup, Chown, Restart, Health
  <1>8. \A d \in Known : d = c => Recorded(d)'
    <2>1. CASE Backup(u)
      <3>1. UNCHANGED disk /\ pc'[u] = "replace"
        BY <1>1, <2>1, ApplyFacts DEF Backup, Goto
      <3>2. QED
        BY <1>2, <1>3, <3>1, StillAwaited, SameRecords
    <2>2. CASE Replace(u)
      <3>1. disk'[c] = tmp[c] /\ tmp[c] # Absent /\ pc[u] = "replace"
        BY <1>1, <2>2, ApplyFacts DEF Replace, Goto
      <3>2. c \in Known => tmp[c] = b
        BY <1>1, <3>1, ApplyFacts DEF Stage
      <3>3. b >= b
        BY <1>4, Numbers
      <3>4. QED
        BY <1>2, <1>4, <3>1, <3>2, <3>3 DEF Recorded
    <2>3. CASE ~Backup(u) /\ ~Replace(u)
      <3>1. ~Awaited(c)
        <4>1. pc[u] \in Applying \ {"backup", "replace"}
          BY <1>1, <2>3 DEF Chown, Restart, Health, Rollback, Goto
        <4>2. QED
          BY <4>1, HeadNotAwaited
      <3>2. CASE Rollback(u)
        <4>1. c \in Known => Bad(u)
          BY <1>1, <3>2, KeptParts DEF OnlyBadReturned, Rollback, Goto
        <4>2. QED
          BY <1>2, <1>4, <4>1, BadStays DEF Recorded, Bad
      <3>3. CASE ~Rollback(u)
        <4>1. UNCHANGED disk
          BY <1>1, <2>3, <3>3 DEF Chown, Restart, Health
        <4>2. QED
          BY <1>2, <1>3, <3>1, <4>1, BadStays DEF Recorded
      <3>4. QED
        BY <3>2, <3>3
    <2>4. QED
      BY <2>1, <2>2, <2>3
  <1>9. \A d \in Known : Recorded(d)'
    BY <1>1, <1>2, <1>3, <1>5, <1>8, UpgradeRecords
  <1>10. ASSUME pc'[u] \in Applying, c \in Known
         PROVE  /\ pc'[u] \in {"restart", "health", "rollback", "rb_restart"} => c \in Services
                /\ pc'[u] = "health" /\ ~Bad(u) => running'[c] = b
                /\ pc'[u] \in {"rollback", "rb_restart"} => Bad(u)
    <2>1. CASE Backup(u) \/ Replace(u)
      BY <1>1, <2>1, ApplyFacts DEF Backup, Replace, Goto
    <2>2. CASE Chown(u)
      BY <1>1, <2>2, ApplyFacts DEF Chown, Goto
    <2>3. CASE Restart(u)
      <3>1. pc[u] = "restart" /\ pc'[u] = "health" /\ running' = [running EXCEPT ![c] = Started(c)]
        BY <1>1, <2>3, ApplyFacts DEF Restart, Goto
      <3>2. c \in Services /\ disk[c] = b
        BY <1>1, <1>6, <1>10, <3>1, ApplyFacts DEF Stage
      <3>3. running \in [Services -> 0..MaxBuild]
        BY DEF FilesOK, WellTyped, TypeOK
      <3>4. QED
        BY <1>4, <3>1, <3>2, <3>3 DEF Started
    <2>4. CASE Health(u)
      <3>1. pc[u] = "health" /\ pc'[u] = IF running[c] # Down THEN "cleanup" ELSE "rollback"
        BY <1>1, <2>4, ApplyFacts DEF Health, Goto
      <3>2. c \in Services /\ (~Bad(u) => running[c] = b)
        BY <1>1, <1>6, <1>10, <3>1, KeptParts DEF OnlyBadReturned
      <3>3. b # Down
        BY <1>4, Numbers DEF Down, Torn
      <3>4. QED
        BY <3>1, <3>2, <3>3
    <2>5. CASE Rollback(u)
      <3>1. pc[u] = "rollback" /\ pc'[u] = "rb_restart"
        BY <1>1, <2>5, ApplyFacts DEF Rollback, Goto
      <3>2. c \in Services /\ Bad(u)
        BY <1>1, <1>6, <1>10, <3>1, KeptParts DEF OnlyBadReturned
      <3>3. QED
        BY <3>1, <3>2
    <2>6. QED
      BY <1>1, <2>1, <2>2, <2>3, <2>4, <2>5
  <1>11. \A v \in Updaters : OnlyBadReturned(v)'
    BY <1>2, <1>10, SameHead
  <1>12. QED
    BY <1>3, <1>5, <1>7, <1>9, <1>11 DEF KeptStep

\* Releases, time and systemd: what runs until it is asked for is the good build.
LEMMA EnvironmentKept ==
    ASSUME FilesOK, Kept, clean, [Next]_vars,
           \/ \E r \in Releases : Publish(r)
           \/ \E c \in Components : Ages(c)
           \/ \E c \in Services : Exit(c) \/ Respawn(c)
           \/ UNCHANGED vars
    PROVE  KeptStep
  <1>1. UNCHANGED <<seen, disk, pc, job>>
    BY DEF Publish, Ages, Exit, Respawn, vars
  <1>2. \A c \in Known : disk[c] \in Build /\ Recorded(c)
    BY KeptParts
  <1>3. \A c \in Known : Recorded(c)'
    <2>1. \A c \in Known : Awaited(c) => Awaited(c)'
      BY <1>1 DEF Awaited
    <2>2. QED
      BY <1>1, <1>2, <2>1, SameRecords
  <1>4. ASSUME NEW u \in Updaters PROVE OnlyBadReturned(u)'
    <2> DEFINE c == Component(u)
               b == Head(job[u].queue)[2]
    <2>1. Component(u)' = c /\ Head(job[u].queue)' = Head(job[u].queue) /\ (Bad(u) => Bad(u)')
      BY <1>1, BadStays DEF Component, Bad
    <2>2. OnlyBadReturned(u)
      BY KeptParts
    <2>3. ASSUME pc[u] = "health", c \in Known, ~Bad(u), c \in Services, running[c] = b
          PROVE  running'[c] = b
      <3>1. b \in Build /\ Good(c, b)
        BY <2>3, ApplyFacts DEF Bad, Applying
      <3>2. b # Down
        BY <3>1, Numbers DEF Down, Torn
      <3>3. running \in [Services -> 0..MaxBuild]
        BY DEF FilesOK, WellTyped, TypeOK
      <3>4. ASSUME NEW d \in Services, Exit(d) PROVE running'[c] = b
        BY <2>3, <3>1, <3>3, <3>4 DEF Exit
      <3>5. ASSUME NEW d \in Services, Respawn(d) PROVE running'[c] = b
        BY <2>3, <3>2, <3>3, <3>5 DEF Respawn
      <3>6. QED
        BY <2>3, <3>4, <3>5 DEF Publish, Ages, vars
    <2>4. QED
      BY <1>1, <2>1, <2>2, <2>3 DEF OnlyBadReturned, Applying
  <1>5. QED
    BY <1>1, <1>2, <1>3, <1>4 DEF KeptStep

\* What has failed once is not forgotten.
LEMMA OnceFailed == ASSUME [Next]_vars, clean' PROVE clean
  <1>1. ASSUME NEW u \in Updaters, Apply(u) PROVE clean
    BY <1>1 DEF Apply, Backup, BackupFails, Replace, ReplaceFails, Chown, ChownFails, Restart,
                RestartFails, Health, Cleanup, Rollback, RollbackFails, RollbackRestart, Mishap
  <1>2. ASSUME NEW u \in Updaters, NEW auto \in BOOLEAN, Start(u, auto) PROVE clean
    BY <1>2 DEF Start
  <1>3. ASSUME NEW u \in Updaters, SkipCheck(u) \/ Check(u) \/ CheckFails(u) \/ Crash(u)
        PROVE  clean
    BY <1>3 DEF SkipCheck, Check, CheckFails, Crash, Mishap
  <1>4. ASSUME NEW u \in Updaters, Skip(u) \/ Download(u) \/ Reconcile(u) PROVE clean
    BY <1>4 DEF Skip, Download, Reconcile, Mishap
  <1>5. ASSUME \/ \E r \in Releases : Publish(r)
               \/ \E c \in Components : Ages(c)
               \/ \E c \in Services : Exit(c) \/ Respawn(c)
               \/ UNCHANGED vars
        PROVE  clean
    BY <1>5 DEF vars, Publish, Ages, Exit, Respawn
  <1>6. QED
    BY <1>1, <1>2, <1>3, <1>4, <1>5 DEF Next

LEMMA StepKept == Alone /\ FilesOK /\ Kept /\ [Next]_vars => Kept'
  <1> SUFFICES ASSUME Alone, FilesOK, Kept, [Next]_vars, clean' PROVE KeptStep
    BY KeptParts DEF KeptStep, Kept, Recorded, OnlyBadReturned
  <1>1. FilesOK' /\ clean
    BY StepFiles, OnceFailed
  <1>2. ASSUME NEW u \in Updaters, Apply(u) PROVE KeptStep
    BY <1>1, <1>2, EndedKept, GoingOnKept DEF Apply
  <1>3. ASSUME NEW u \in Updaters, CheckFails(u) \/ Skip(u) \/ Crash(u) PROVE FALSE
    BY <1>3 DEF CheckFails, Skip, Crash, Mishap
  <1>4. QED
    BY <1>1, <1>2, <1>3, CheckingKept, EnvironmentKept DEF Next

\* checker.go:161: as long as nothing has failed, a good release that a check has recorded is
\* installed when the updater is done, of every component but the panel: no upgrade is lost
\* between the check and its turn, whatever else is released, checked or returned meanwhile.
THEOREM RecordedIsInstalledHolds == ASSUME Alone PROVE Spec => []RecordedIsInstalled
  <1>1. Init => Kept
    <2>1. Init => /\ \A c \in Known : disk[c] \in Build /\ seen[c] = Torn
                  /\ \A u \in Updaters : pc[u] = "idle"
      BY Numbers DEF Init, Known
    <2>2. Torn \notin Build /\ "idle" \notin Applying
      BY Numbers DEF Applying
    <2>3. QED
      BY <2>1, <2>2 DEF Kept, Good
  <1>2. FilesOK /\ Kept => RecordedIsInstalled
    <2> SUFFICES ASSUME FilesOK, Kept, Idle, clean, NEW c \in Known, Good(c, seen[c])
                 PROVE  disk[c] >= seen[c]
      BY DEF RecordedIsInstalled, Known
    <2>1. \A u \in Updaters : job[u].queue = <<>> /\ DOMAIN <<>> = {}
      BY DEF Idle, FilesOK, WellTyped, Working
    <2>2. ~Awaited(c)
      BY <2>1 DEF Awaited
    <2>3. QED
      BY <2>2 DEF Kept
  <1>3. Spec => []FilesOK
    BY Alone, AlwaysFiles
  <1>4. Alone /\ Spec => []Kept
    BY <1>1, <1>3, StepKept, PTL DEF Spec
  <1>5. QED
    BY Alone, <1>2, <1>3, <1>4, PTL
=============================================================================
