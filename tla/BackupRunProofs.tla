-------------------------- MODULE BackupRunProofs --------------------------
(***************************************************************************)
(* Proofs about BackupRun, for any number of runs, any set of faults, any  *)
(* retention and any bound of the clock.                                   *)
(***************************************************************************)
EXTENDS BackupRun, TLAPS

-----------------------------------------------------------------------------
(***************************************************************************)
(* Type correctness                                                        *)
(***************************************************************************)

\* What a process that ends leaves behind has the right types.
LEMMA ForgetType ==
    ASSUME TypeOK, NEW p \in Runs, Forget(p)
    PROVE  /\ pc' \in [Runs -> PC]
           /\ op' \in [Runs -> Op]
           /\ ok' \in [Runs -> BOOLEAN]
           /\ date' \in [Runs -> TimeOrNone]
           /\ unread' \in [Runs -> BOOLEAN]
           /\ bdir' \in [Runs -> TimeOrNone]
           /\ covered' \in [Runs -> BOOLEAN]
           /\ items' \in [Runs -> SUBSET Time]
           /\ lastFull' \in [Runs -> TimeOrNone]
           /\ hist' \in [Runs -> SUBSET Time]
           /\ job' \in [Runs -> JobState]
           /\ dirty' \in [Runs -> BOOLEAN]
           /\ cutoff' \in [Runs -> Int]
  BY DEF TypeOK, Forget, PC, Op, TimeOrNone, JobState, NoJob

\* _item_changed yields a job state whatever the outcome of the session.
LEMMA ItemChangedType ==
    ASSUME NEW j \in JobState, NEW d \in TimeOrNone, NEW b \in BOOLEAN
    PROVE  ItemChanged(j, d, b) \in JobState
  BY DEF ItemChanged, JobState

\* Writing one session file keeps the shape of all of them.
LEMMA PutType ==
    ASSUME DOMAIN files \subseteq Time,
           \A d \in DOMAIN files : files[d] \in SessionFile,
           NEW d \in Time, NEW v \in SessionFile,
           files' = Put(files, d, v)
    PROVE  /\ DOMAIN files' = DOMAIN files \union {d}
           /\ files'[d] = v
           /\ \A e \in DOMAIN files : e # d => files'[e] = files[e]
           /\ DOMAIN files' \subseteq Time
           /\ \A e \in DOMAIN files' : files'[e] \in SessionFile
  BY DEF Put

\* Removing one session file leaves the others alone.
LEMMA DropType ==
    ASSUME DOMAIN files \subseteq Time,
           \A d \in DOMAIN files : files[d] \in SessionFile,
           NEW d, files' = Drop(files, d)
    PROVE  /\ DOMAIN files' = DOMAIN files \ {d}
           /\ \A e \in DOMAIN files' : files'[e] = files[e]
           /\ DOMAIN files' \subseteq Time
           /\ \A e \in DOMAIN files' : files'[e] \in SessionFile
  BY DEF Drop

LEMMA TypeInit == Init => TypeOK
  BY ClockAssumption
     DEF Init, TypeOK, Time, TimeOrNone, PC, Op, JobState, NoJob, SessionFile

LEMMA TypeNext ==
    ASSUME TypeOK, \A p \in Runs : HasDate(p), [Next]_vars
    PROVE  TypeOK'
<1>1. CASE UNCHANGED vars
  BY <1>1 DEF TypeOK, vars
<1>2. CASE Tick
  BY <1>2, ClockAssumption DEF Tick, TypeOK, disk, mem, Time
<1>3. ASSUME NEW p \in Runs, NEW o \in Ops, Start(p, o)
      PROVE  TypeOK'
  <2>1. CASE StartRecorded(p, o)
    <3>1. now \in Time /\ NewFile \in SessionFile
      BY DEF TypeOK, NewFile, SessionFile, TimeOrNone
    <3>2. /\ DOMAIN files' \subseteq Time
          /\ \A d \in DOMAIN files' : files'[d] \in SessionFile
      BY <2>1, <3>1, PutType DEF StartRecorded, TypeOK
    <3>3. job' \in [Runs -> JobState]
      <4>1. conf \in JobState /\ ItemChanged(conf, now, FALSE) \in JobState
        BY <3>1, ItemChangedType DEF TypeOK, TimeOrNone
      <4>2. QED
        BY <2>1, <4>1 DEF StartRecorded, TypeOK
    <3>4. /\ lastStart' \in 0 .. MaxTime
          /\ date' \in [Runs -> TimeOrNone]
      BY <2>1, <3>1, ClockAssumption
         DEF StartRecorded, TypeOK, Time, TimeOrNone
    <3>5. /\ hist' \in [Runs -> SUBSET Time]
          /\ dirty' \in [Runs -> BOOLEAN]
          /\ unread' \in [Runs -> BOOLEAN]
      BY <2>1, <3>1 DEF StartRecorded, TypeOK
    <3>6. pc' \in [Runs -> PC] /\ op' \in [Runs -> Op]
      BY <1>3, OpsAssumption DEF Start, TypeOK, Goto, PC
    <3>7. UNCHANGED <<now, dirs, complete, conf, ok, bdir, covered, items,
                      lastFull, cutoff>>
      BY <1>3 DEF Start, list
    <3>8. QED
      BY <3>2, <3>3, <3>4, <3>5, <3>6, <3>7 DEF TypeOK
  <2>2. CASE StartTemporary(p, o)
    BY <1>3, <2>2, OpsAssumption
       DEF Start, StartTemporary, TypeOK, list, Goto, PC
  <2>3. QED
    BY <1>3, <2>1, <2>2 DEF Start
<1>4. ASSUME NEW p \in Runs, Continue(p)
      PROVE  TypeOK'
  <2>1. CASE Prepare(p)
    <3>1. dirs' \subseteq Time /\ bdir' \in [Runs -> TimeOrNone]
      BY <2>1 DEF Prepare, MakeBackupDir, TypeOK, TimeOrNone
    <3>2. pc' \in [Runs -> PC] /\ ok' \in [Runs -> BOOLEAN]
      BY <2>1 DEF Prepare, TypeOK, Goto, PC
    <3>3. UNCHANGED <<now, lastStart, complete, files, conf, op, date, unread,
                      covered, items, lastFull, hist, job, dirty, cutoff>>
      BY <2>1 DEF Prepare, list
    <3>4. QED
      BY <3>1, <3>2, <3>3 DEF TypeOK
  <2>2. CASE Load(p)
    <3>1. Listed(p) \subseteq Time
      BY DEF Listed, TypeOK
    <3>2. items' \in [Runs -> SUBSET Time] /\ lastFull' \in [Runs -> TimeOrNone]
      BY <2>2, <3>1 DEF Load, list, TypeOK
    <3>3. pc' \in [Runs -> PC] /\ ok' \in [Runs -> BOOLEAN]
      BY <2>2 DEF Load, TypeOK, Goto, PC
    <3>4. UNCHANGED <<now, lastStart, dirs, complete, files, conf, op, date,
                      unread, bdir, covered, hist, job, dirty, cutoff>>
      BY <2>2 DEF Load, disk, session
    <3>5. QED
      BY <3>2, <3>3, <3>4 DEF TypeOK
  <2>3. CASE Plugins(p)
    BY <2>3 DEF Plugins, TypeOK, disk, session, list, Goto, PC
  <2>4. CASE DoRsync(p)
    <3>1. BackupDir(p) \in TimeOrNone
      BY DEF TypeOK, BackupDir, TimeOrNone
    <3>2. BackupDir(p) # None => bdir[p] \in Time
      BY DEF TypeOK, BackupDir, TimeOrNone
    <3>3. dirs' \subseteq Time /\ complete' \subseteq Time
                               /\ ok' \in [Runs -> BOOLEAN]
      BY <2>4, <3>2 DEF DoRsync, RsyncNothing, RsyncDry, RsyncDone,
                        RsyncFailed, TypeOK
    <3>4. QED
      BY <2>4, <3>1, <3>3 DEF DoRsync, TypeOK, list, Goto, PC
  <2>5. CASE TrimBackups(p)
    <3>1. CASE \E t \in items[p] : RemoveBackup(p, t) /\ UNCHANGED <<pc, cutoff>>
      BY <3>1 DEF RemoveBackup, TypeOK, session
    <3>2. CASE /\ cutoff' = [cutoff EXCEPT ![p] = now - RetentionTime]
               /\ Goto(p, "ageDirs")
               /\ KeepBackups
      BY <3>2, RetentionAssumption
         DEF KeepBackups, TypeOK, disk, session, list, Goto, PC, Time
    <3>3. QED
      BY <2>5, <3>1, <3>2 DEF TrimBackups
  <2>6. CASE ExpireBackups(p)
    BY <2>6 DEF ExpireBackups, RemoveBackup, KeepBackups, TypeOK, disk,
                session, list, Goto, PC
  <2>7. CASE TrimSessions(p) \/ ExpireSessions(p)
    <3>1. ASSUME NEW d \in hist[p], RemoveSession(p, d),
                 UNCHANGED <<pc, cutoff>>
          PROVE  TypeOK'
      <4>1. /\ DOMAIN files' \subseteq Time
            /\ \A e \in DOMAIN files' : files'[e] \in SessionFile
        BY <3>1, DropType DEF RemoveSession, TypeOK
      <4>2. QED
        BY <3>1, <4>1 DEF RemoveSession, TypeOK, session, list
    <3>2. ASSUME NEW d \in hist[p], UnlinkRaises(p, d)
          PROVE  TypeOK'
      BY <3>2, ForgetType DEF UnlinkRaises, TypeOK, disk
    <3>3. ASSUME KeepBackups, Goto(p, "ageSessions") \/ Goto(p, "shutdown"),
                 \/ UNCHANGED cutoff
                 \/ cutoff' = [cutoff EXCEPT ![p] = now - RetentionTime]
          PROVE  TypeOK'
      BY <3>3, RetentionAssumption
         DEF KeepBackups, TypeOK, disk, session, list, Goto, PC, Time
    <3>4. QED
      BY <2>7, <3>1, <3>2, <3>3 DEF TrimSessions, ExpireSessions
  <2>8. CASE Shutdown(p)
    BY <2>8 DEF Shutdown, TypeOK, disk, session, list, Goto, PC
  <2>9. CASE Finish(p)
    <3>1. CASE /\ files' = Put(files, date[p],
                               [success |-> ok[p], dir |-> bdir[p]])
               /\ job' = [job EXCEPT ![p] = ItemChanged(@, date[p], ok[p])]
      <4>1. date[p] \in Time
        BY <2>9 DEF Finish, HasDate, TypeOK, TimeOrNone
      <4>2. [success |-> ok[p], dir |-> bdir[p]] \in SessionFile
        BY DEF TypeOK, SessionFile
      <4>3. /\ DOMAIN files' \subseteq Time
            /\ \A e \in DOMAIN files' : files'[e] \in SessionFile
        BY <3>1, <4>1, <4>2, PutType DEF TypeOK
      <4>4. job' \in [Runs -> JobState]
        BY <3>1, ItemChangedType DEF TypeOK
      <4>5. QED
        BY <2>9, <4>3, <4>4 DEF Finish, TypeOK, session, list, Goto, PC
    <3>2. CASE UNCHANGED <<files, job>>
      BY <2>9, <3>2 DEF Finish, TypeOK, session, list, Goto, PC
    <3>3. QED
      BY <2>9, <3>1, <3>2 DEF Finish
  <2>10. CASE SaveJob(p)
    BY <2>10 DEF SaveJob, WriteConf, TypeOK, session, list, Goto, PC
  <2>11. CASE Cleanup(p)
    BY <2>11, ForgetType DEF Cleanup, WriteConf, TypeOK
  <2>12. QED
    BY <1>4, <2>1, <2>2, <2>3, <2>4, <2>5, <2>6, <2>7, <2>8, <2>9, <2>10,
       <2>11 DEF Continue
<1>5. ASSUME NEW p \in Runs, Crash(p)
      PROVE  TypeOK'
  <2>1. CASE UNCHANGED files
    BY <1>5, <2>1, ForgetType
       DEF Crash, TypeOK, NoJob, JobState, TimeOrNone
  <2>2. CASE /\ pc[p] = "finish"
             /\ files' = Put(files, date[p], NewFile)
             /\ UNCHANGED conf
    <3>1. date[p] \in Time /\ NewFile \in SessionFile
      BY <2>2 DEF HasDate, TypeOK, TimeOrNone, NewFile, SessionFile
    <3>2. /\ DOMAIN files' \subseteq Time
          /\ \A d \in DOMAIN files' : files'[d] \in SessionFile
      BY <2>2, <3>1, PutType DEF TypeOK
    <3>3. QED
      BY <1>5, <2>2, <3>2, ForgetType DEF Crash, TypeOK
  <2>3. QED
    BY <1>5, <2>1, <2>2 DEF Crash
<1>6. QED
  BY <1>1, <1>2, <1>3, <1>4, <1>5 DEF Next

-----------------------------------------------------------------------------
(***************************************************************************)
(* The sessions                                                            *)
(***************************************************************************)
LEMMA SessionInit == Init => SessionInv
<1> SUFFICES ASSUME Init PROVE SessionInv
  OBVIOUS
<1>1. TypeOK
  BY TypeInit
<1>2. Successes \subseteq {None}
  BY DEF Init, Successes, NoJob
<1>3. DOMAIN files = {}
  BY DEF Init
<1>4. PastDates /\ OwnDates /\ HonestSuccess
  BY <1>2, <1>3 DEF Init, PastDates, OwnDates, HonestSuccess
<1>5. ASSUME NEW p \in Runs
      PROVE  /\ HasDate(p)
             /\ EarlierOnly(p)
             /\ Unfinished(p) => date[p] \notin Successes
  BY DEF Init, HasDate, EarlierOnly, Unfinished
<1>6. QED
  BY <1>1, <1>4, <1>5 DEF SessionInv

\* A step between the start and the end of a run that neither adds to the
\* session files nor touches a date keeps the invariant.
LEMMA MiddleStep ==
    ASSUME SessionInv, TypeOK', NEW p \in Runs,
           UNCHANGED <<now, lastStart, conf, job, date, op>>,
           DOMAIN files' \subseteq DOMAIN files,
           \A d \in DOMAIN files' : files'[d] = files[d],
           \A q \in Runs : q # p =>
              /\ pc'[q] = pc[q]
              /\ hist'[q] = hist[q]
              /\ bdir'[q] = bdir[q]
              /\ lastFull'[q] = lastFull[q],
           pc[p] \notin {"saveJob", "cleanup"},
           HasDate(p)', EarlierOnly(p)'
    PROVE  SessionInv'
<1>1. Successes' = Successes
  BY DEF Successes
<1>2. PastDates' /\ OwnDates' /\ HonestSuccess'
  BY <1>1 DEF SessionInv, PastDates, OwnDates, HonestSuccess
<1>3. ASSUME NEW q \in Runs
      PROVE  /\ HasDate(q)'
             /\ EarlierOnly(q)'
             /\ Unfinished(q)' => date'[q] \notin Successes'
  <2>1. /\ HasDate(q)
        /\ EarlierOnly(q)
        /\ Unfinished(q) => date[q] \notin Successes
    BY DEF SessionInv
  <2>2. CASE q = p
    BY <1>1, <2>1, <2>2 DEF Unfinished
  <2>3. CASE q # p
    BY <1>1, <2>1, <2>3 DEF HasDate, EarlierOnly, Unfinished, Recorded
  <2>4. QED
    BY <2>2, <2>3
<1>4. QED
  BY <1>2, <1>3 DEF SessionInv

\* A run that ends, or dies, keeps it if the state files it leaves do.
LEMMA LastStep ==
    ASSUME SessionInv, TypeOK', NEW p \in Runs, Forget(p),
           UNCHANGED <<now, lastStart>>,
           Successes' \subseteq Successes \union {None},
           \A d \in DOMAIN files' : d <= lastStart,
           HonestSuccess'
    PROVE  SessionInv'
<1>1. /\ pc'[p] = "idle" /\ date'[p] = None
      /\ bdir'[p] = None /\ lastFull'[p] = None
  BY DEF Forget, SessionInv, TypeOK
<1>2. \A q \in Runs : q # p =>
          /\ pc'[q] = pc[q]
          /\ op'[q] = op[q]
          /\ date'[q] = date[q]
          /\ hist'[q] = hist[q]
          /\ bdir'[q] = bdir[q]
          /\ lastFull'[q] = lastFull[q]
  BY DEF Forget, SessionInv, TypeOK
<1>3. PastDates' /\ OwnDates'
  BY <1>1, <1>2 DEF SessionInv, PastDates, OwnDates
<1>4. ASSUME NEW q \in Runs
      PROVE  /\ HasDate(q)'
             /\ EarlierOnly(q)'
             /\ Unfinished(q)' => date'[q] \notin Successes'
  BY <1>1, <1>2 DEF SessionInv, HasDate, EarlierOnly, Unfinished, Recorded
<1>5. QED
  BY <1>3, <1>4 DEF SessionInv

\* What the job state of a run may become when it looks at a session.
LEMMA ItemChangedSuccess ==
    ASSUME NEW j \in JobState, NEW d \in TimeOrNone, NEW b \in BOOLEAN
    PROVE  /\ ItemChanged(j, d, b).success \in {j.success, d}
           /\ ~b => ItemChanged(j, d, b).success = j.success
  BY DEF ItemChanged, JobState

LEMMA SessionNext ==
    ASSUME SessionInv, [Next]_vars
    PROVE  SessionInv'
<1>1. TypeOK /\ TypeOK'
  BY TypeNext DEF SessionInv
<1>2. CASE UNCHANGED vars
  <2>1. UNCHANGED Successes
    BY <1>2 DEF vars, Successes
  <2>2. PastDates' /\ OwnDates' /\ HonestSuccess'
    BY <1>2, <2>1 DEF vars, SessionInv, PastDates, OwnDates, HonestSuccess
  <2>3. QED
    BY <1>1, <1>2, <2>1, <2>2
       DEF vars, SessionInv, HasDate, EarlierOnly, Unfinished, Recorded
<1>3. CASE Tick
  <2>1. UNCHANGED Successes
    BY <1>3 DEF Tick, disk, mem, Successes
  <2>2. PastDates' /\ OwnDates' /\ HonestSuccess'
    BY <1>1, <1>3, <2>1
       DEF Tick, disk, mem, SessionInv, PastDates, OwnDates, HonestSuccess,
           TypeOK, Time
  <2>3. QED
    BY <1>1, <1>3, <2>1, <2>2
       DEF Tick, disk, mem, SessionInv, HasDate, EarlierOnly, Unfinished,
           Recorded
<1>4. ASSUME NEW p \in Runs, NEW o \in Ops, Start(p, o), StartRecorded(p, o)
      PROVE  SessionInv'
  <2>1. /\ now \in Int /\ now # None /\ now > lastStart
        /\ lastStart' = now /\ now' = now
        /\ lastStart \in Int
    BY <1>1, <1>4, NoneAssumption DEF Start, StartRecorded, TypeOK, Time
  <2>2. /\ pc[p] = "idle" /\ pc'[p] = "prepare" /\ op'[p] \in {"backup", "dryrun"}
        /\ date'[p] = now /\ hist'[p] = DOMAIN files \union {now}
        /\ bdir'[p] = None /\ lastFull'[p] = None
    BY <1>1, <1>4
       DEF Start, StartRecorded, Goto, TypeOK, SessionInv, HasDate, list
  <2>3. \A q \in Runs : q # p =>
            /\ pc'[q] = pc[q] /\ op'[q] = op[q] /\ date'[q] = date[q]
            /\ hist'[q] = hist[q] /\ bdir'[q] = bdir[q]
            /\ lastFull'[q] = lastFull[q] /\ job'[q] = job[q]
    BY <1>1, <1>4 DEF Start, StartRecorded, Goto, TypeOK, list
  <2>4. job'[p].success = conf.success /\ conf' = conf
    <3>1. ItemChanged(conf, now, FALSE).success = conf.success
      BY <1>1, <2>1, ItemChangedSuccess DEF TypeOK, TimeOrNone
    <3>2. QED
      BY <1>1, <1>4, <3>1 DEF Start, StartRecorded, TypeOK
  <2>5. Successes' \subseteq Successes
    BY <2>3, <2>4 DEF Successes
  <2>6. now \notin Successes
    BY <2>1 DEF SessionInv, PastDates
  <2>7. /\ DOMAIN files' \subseteq DOMAIN files \union {now}
        /\ \A d \in DOMAIN files' : d # now => files'[d] = files[d]
    BY <1>4 DEF StartRecorded, Put
  <2>8. PastDates'
    <3>1. \A d \in DOMAIN files' : d <= now
      <4>1. \A d \in DOMAIN files : d \in Int /\ d <= lastStart
        BY <1>1 DEF SessionInv, PastDates, TypeOK, Time
      <4>2. QED
        BY <2>1, <2>7, <4>1
    <3>2. \A s \in Successes' : s # None => s <= now
      <4>1. \A s \in Successes : s # None => s \in Int /\ s <= lastStart
        BY <1>1 DEF SessionInv, PastDates, TypeOK, JobState, Successes, Time,
                    TimeOrNone
      <4>2. QED
        BY <2>1, <2>5, <4>1
    <3>3. \A q \in Runs : date'[q] # None => date'[q] <= now
      <4>1. \A q \in Runs : date[q] # None =>
                               date[q] \in Int /\ date[q] <= lastStart
        BY <1>1 DEF SessionInv, PastDates, TypeOK, Time, TimeOrNone
      <4>2. QED
        BY <2>1, <2>2, <2>3, <4>1
    <3>4. QED
      BY <2>1, <3>1, <3>2, <3>3 DEF PastDates
  <2>9. OwnDates'
    BY <2>1, <2>2, <2>3 DEF SessionInv, PastDates, OwnDates
  <2>10. HonestSuccess'
    BY <2>5, <2>6, <2>7 DEF SessionInv, HonestSuccess
  <2>11. ASSUME NEW q \in Runs
         PROVE  /\ HasDate(q)'
                /\ EarlierOnly(q)'
                /\ Unfinished(q)' => date'[q] \notin Successes'
    <3>1. CASE q = p
      <4>1. \A t \in hist'[p] : t <= now
        BY <1>1, <2>1, <2>2 DEF SessionInv, PastDates, TypeOK, Time
      <4>2. QED
        BY <2>1, <2>2, <2>5, <2>6, <3>1, <4>1
           DEF HasDate, EarlierOnly, Recorded
    <3>2. CASE q # p
      BY <2>3, <2>5, <3>2
         DEF SessionInv, HasDate, EarlierOnly, Unfinished, Recorded
    <3>3. QED
      BY <3>1, <3>2
  <2>12. QED
    BY <1>1, <2>8, <2>9, <2>10, <2>11 DEF SessionInv
<1>5. ASSUME NEW p \in Runs, NEW o \in Ops, Start(p, o), StartTemporary(p, o)
      PROVE  SessionInv'
  <2>1. /\ pc[p] = "idle" /\ pc'[p] = "prepare" /\ op'[p] = "cleanup"
        /\ date'[p] = None /\ conf' = conf /\ job'[p] = conf
        /\ files' = files /\ now' = now /\ lastStart' = lastStart
    BY <1>1, <1>5
       DEF Start, StartTemporary, Goto, TypeOK, SessionInv, HasDate, list
  <2>2. \A q \in Runs : q # p =>
            /\ pc'[q] = pc[q] /\ op'[q] = op[q] /\ date'[q] = date[q]
            /\ hist'[q] = hist[q] /\ bdir'[q] = bdir[q]
            /\ lastFull'[q] = lastFull[q] /\ job'[q] = job[q]
    BY <1>1, <1>5 DEF Start, StartTemporary, Goto, TypeOK, list
  <2>3. Successes' \subseteq Successes
    BY <2>1, <2>2 DEF Successes
  <2>4. PastDates' /\ OwnDates' /\ HonestSuccess'
    BY <2>1, <2>2, <2>3 DEF SessionInv, PastDates, OwnDates, HonestSuccess
  <2>5. ASSUME NEW q \in Runs
        PROVE  /\ HasDate(q)'
               /\ EarlierOnly(q)'
               /\ Unfinished(q)' => date'[q] \notin Successes'
    <3>1. CASE q = p
      BY <2>1, <3>1 DEF HasDate, EarlierOnly, Unfinished, Recorded
    <3>2. CASE q # p
      BY <2>2, <2>3, <3>2
         DEF SessionInv, HasDate, EarlierOnly, Unfinished, Recorded
    <3>3. QED
      BY <3>1, <3>2
  <2>6. QED
    BY <1>1, <2>4, <2>5 DEF SessionInv
<1>6. ASSUME NEW p \in Runs, Continue(p)
      PROVE  SessionInv'
  <2> USE <1>1
  <2>1. HasDate(p) /\ EarlierOnly(p)
    BY DEF SessionInv
  <2>2. CASE Prepare(p)
    <3>1. bdir'[p] \in {now, bdir[p]} /\ pc'[p] \in {"load", "shutdown", "trimDirs"}
      BY <2>2 DEF Prepare, MakeBackupDir, Goto, TypeOK
    <3>2. date[p] # None => date[p] <= now
      BY <2>1 DEF SessionInv, PastDates, TypeOK, Time, TimeOrNone
    <3>3. EarlierOnly(p)' /\ HasDate(p)'
      BY <2>1, <2>2, <3>1, <3>2
         DEF Prepare, list, EarlierOnly, HasDate, Recorded
    <3>4. QED
      BY <2>2, <3>3, MiddleStep DEF Prepare, MakeBackupDir, Goto, list, TypeOK
  <2>3. CASE Load(p)
    <3>1. /\ pc'[p] = IF Recorded(p) THEN "plugins" ELSE "trimDirs"
          /\ lastFull'[p] = lastFull[p] \/ LastFull(p, lastFull'[p])
      BY <2>3 DEF Load, Goto, list, TypeOK
    <3>2. ASSUME LastFull(p, lastFull'[p]), lastFull'[p] # None, date[p] # None
          PROVE  lastFull'[p] < date[p]
      <4>1. lastFull'[p] \in Listed(p) /\ HasSession(p, lastFull'[p])
        BY <3>2 DEF LastFull, IsNewest
      <4>2. lastFull'[p] \in hist[p] /\ lastFull'[p] # date[p]
        BY <4>1 DEF Listed, HasSession
      <4>3. lastFull'[p] \in Int /\ date[p] \in Int
        BY <3>2, <4>2 DEF TypeOK, Time, TimeOrNone
      <4>4. QED
        BY <2>1, <3>2, <4>2, <4>3 DEF EarlierOnly
    <3>3. EarlierOnly(p)' /\ HasDate(p)'
      BY <2>1, <2>3, <3>1, <3>2
         DEF Load, session, EarlierOnly, HasDate, Recorded
    <3>4. QED
      BY <2>3, <3>3, MiddleStep DEF Load, Goto, list, disk, session, TypeOK
  <2>4. CASE Plugins(p)
    <3>1. EarlierOnly(p)' /\ HasDate(p)'
      BY <2>1, <2>4
         DEF Plugins, Goto, list, session, TypeOK, EarlierOnly, HasDate, Recorded
    <3>2. QED
      BY <2>4, <3>1, MiddleStep DEF Plugins, Goto, list, disk, session, TypeOK
  <2>5. CASE DoRsync(p)
    <3>1. bdir'[p] \in {None, bdir[p]} /\ pc'[p] = "trimDirs"
      BY <2>5 DEF DoRsync, BackupDir, Goto, TypeOK
    <3>2. EarlierOnly(p)' /\ HasDate(p)'
      BY <2>1, <2>5, <3>1 DEF DoRsync, list, EarlierOnly, HasDate, Recorded
    <3>3. QED
      BY <2>5, <3>2, MiddleStep DEF DoRsync, Goto, list, TypeOK
  <2>6. CASE TrimBackups(p) \/ ExpireBackups(p)
    <3>1. /\ pc[p] \in {"trimDirs", "ageDirs"}
          /\ pc'[p] \in {"trimDirs", "ageDirs", "trimSessions"}
          /\ \A q \in Runs : q # p => pc'[q] = pc[q]
          /\ UNCHANGED <<now, lastStart, files, conf, op, date, bdir, lastFull,
                         hist, job>>
      BY <2>6 DEF TrimBackups, ExpireBackups, RemoveBackup, KeepBackups, Goto,
                  disk, session, list, TypeOK
    <3>2. EarlierOnly(p)' /\ HasDate(p)'
      BY <2>1, <3>1 DEF EarlierOnly, HasDate, Recorded
    <3>3. QED
      BY <3>1, <3>2, MiddleStep
  <2>7. CASE TrimSessions(p) \/ ExpireSessions(p)
    <3>1. ASSUME NEW d \in hist[p], UnlinkRaises(p, d)
          PROVE  SessionInv'
      <4>1. Forget(p) /\ UNCHANGED <<now, lastStart, files, conf>>
        BY <3>1 DEF UnlinkRaises, disk
      <4>2. Successes' \subseteq Successes \union {None}
        BY <4>1 DEF Successes, Forget, NoJob, TypeOK
      <4>3. HonestSuccess'
        BY <4>1, <4>2, NoneAssumption DEF SessionInv, HonestSuccess, TypeOK, Time
      <4>4. QED
        BY <4>1, <4>2, <4>3, LastStep DEF SessionInv, PastDates
    <3>2. ASSUME NEW d \in hist[p], RemoveSession(p, d), UNCHANGED pc
          PROVE  SessionInv'
      <4>1. /\ DOMAIN files' = DOMAIN files \ {d}
            /\ \A e \in DOMAIN files' : files'[e] = files[e]
        BY <3>2, DropType DEF RemoveSession, TypeOK
      <4>2. hist'[p] \subseteq hist[p] /\ UNCHANGED <<op, date, bdir, lastFull>>
        BY <3>2 DEF RemoveSession, session, list, TypeOK
      <4>3. EarlierOnly(p)' /\ HasDate(p)'
        BY <2>1, <3>2, <4>2 DEF EarlierOnly, HasDate, Recorded
      <4>4. pc[p] \in {"trimSessions", "ageSessions"}
        BY <2>7 DEF TrimSessions, ExpireSessions
      <4>5. QED
        BY <3>2, <4>1, <4>2, <4>3, <4>4, MiddleStep
           DEF RemoveSession, session, list, TypeOK
    <3>3. ASSUME KeepBackups, Goto(p, "ageSessions") \/ Goto(p, "shutdown")
          PROVE  SessionInv'
      <4>1. pc'[p] \in {"ageSessions", "shutdown"}
        BY <3>3 DEF Goto, TypeOK
      <4>2. EarlierOnly(p)' /\ HasDate(p)'
        BY <2>1, <2>7, <3>3, <4>1
           DEF TrimSessions, ExpireSessions, KeepBackups, session, list,
               EarlierOnly, HasDate, Recorded
      <4>3. pc[p] \in {"trimSessions", "ageSessions"}
        BY <2>7 DEF TrimSessions, ExpireSessions
      <4>4. QED
        BY <3>3, <4>2, <4>3, MiddleStep
           DEF KeepBackups, Goto, disk, session, list, TypeOK
    <3>4. QED
      BY <2>7, <3>1, <3>2, <3>3 DEF TrimSessions, ExpireSessions
  <2>8. CASE Shutdown(p)
    <3>1. EarlierOnly(p)' /\ HasDate(p)'
      BY <2>1, <2>8
         DEF Shutdown, Goto, list, session, TypeOK, EarlierOnly, HasDate, Recorded
    <3>2. QED
      BY <2>8, <3>1, MiddleStep DEF Shutdown, Goto, list, disk, session, TypeOK
  <2>9. CASE Finish(p)
    <3>1. /\ pc[p] = "finish" /\ pc'[p] \in {"saveJob", "cleanup"}
          /\ date[p] \in Time /\ date[p] # None
          /\ UNCHANGED <<now, lastStart, conf, op, date, bdir, lastFull, hist>>
          /\ \A q \in Runs : q # p => pc'[q] = pc[q] /\ job'[q] = job[q]
      BY <2>1, <2>9, NoneAssumption
         DEF Finish, HasDate, Goto, session, list, TypeOK, TimeOrNone
    <3>2. pc'[p] = "saveJob" => Recorded(p)
      BY <2>1, <3>1 DEF HasDate
    <3>3. date[p] \notin Successes
      BY <3>1 DEF SessionInv, Unfinished
    <3>4. CASE /\ files' = Put(files, date[p],
                               [success |-> ok[p], dir |-> bdir[p]])
               /\ job' = [job EXCEPT ![p] = ItemChanged(@, date[p], ok[p])]
      <4>1. [success |-> ok[p], dir |-> bdir[p]] \in SessionFile
        BY DEF TypeOK, SessionFile
      <4>2. /\ DOMAIN files' = DOMAIN files \union {date[p]}
            /\ files'[date[p]] = [success |-> ok[p], dir |-> bdir[p]]
            /\ \A e \in DOMAIN files : e # date[p] => files'[e] = files[e]
        <5>1. \A d \in DOMAIN files : files[d] \in SessionFile
          BY DEF TypeOK
        <5>2. DOMAIN files \subseteq Time
          BY DEF TypeOK
        <5>3. QED
          BY <3>1, <3>4, <4>1, <5>1, <5>2, PutType
      <4>3. /\ job'[p].success \in {job[p].success, date[p]}
            /\ ~ok[p] => job'[p].success = job[p].success
        BY <3>1, <3>4, ItemChangedSuccess DEF TypeOK, TimeOrNone
      <4>4. /\ Successes' \subseteq Successes \union {date[p]}
            /\ ~ok[p] => Successes' \subseteq Successes
        BY <3>1, <4>3 DEF Successes
      <4>5. HonestSuccess'
        <5>1. SUFFICES ASSUME NEW s \in Successes', s \in DOMAIN files'
                       PROVE  files'[s].success
          BY DEF HonestSuccess
        <5>2. CASE s = date[p]
          BY <3>3, <4>2, <4>4, <5>2 DEF TypeOK
        <5>3. CASE s # date[p]
          BY <4>2, <4>4, <5>1, <5>3 DEF SessionInv, HonestSuccess
        <5>4. QED
          BY <5>2, <5>3
      <4>6. PastDates' /\ OwnDates'
        BY <3>1, <4>2, <4>4 DEF SessionInv, PastDates, OwnDates
      <4>7. ASSUME NEW q \in Runs
            PROVE  /\ HasDate(q)'
                   /\ EarlierOnly(q)'
                   /\ Unfinished(q)' => date'[q] \notin Successes'
        <5>1. CASE q = p
          BY <2>1, <2>9, <3>1, <3>2, <3>4, <5>1
             DEF HasDate, EarlierOnly, Unfinished, Recorded
        <5>2. CASE q # p
          BY <3>1, <4>4, <5>2
             DEF SessionInv, OwnDates, HasDate, EarlierOnly, Unfinished, Recorded
        <5>3. QED
          BY <5>1, <5>2
      <4>8. QED
        BY <4>5, <4>6, <4>7 DEF SessionInv
    <3>5. CASE UNCHANGED <<files, job>>
      <4>1. EarlierOnly(p)' /\ HasDate(p)'
        BY <2>1, <3>1, <3>2 DEF EarlierOnly, HasDate, Recorded
      <4>2. QED
        BY <3>1, <3>5, <4>1, MiddleStep
    <3>6. QED
      BY <2>9, <3>4, <3>5 DEF Finish
  <2>10. CASE SaveJob(p)
    <3>1. /\ pc[p] = "saveJob" /\ pc'[p] = "cleanup"
          /\ UNCHANGED <<now, lastStart, files, op, date, bdir, lastFull, hist, job>>
          /\ \A q \in Runs : q # p => pc'[q] = pc[q]
          /\ conf' \in {conf, job[p]}
      BY <2>10 DEF SaveJob, WriteConf, Goto, session, list, TypeOK
    <3>2. Successes' \subseteq Successes
      BY <3>1 DEF Successes
    <3>3. PastDates' /\ OwnDates' /\ HonestSuccess'
      BY <3>1, <3>2 DEF SessionInv, PastDates, OwnDates, HonestSuccess
    <3>4. ASSUME NEW q \in Runs
          PROVE  /\ HasDate(q)'
                 /\ EarlierOnly(q)'
                 /\ Unfinished(q)' => date'[q] \notin Successes'
      BY <3>1, <3>2 DEF SessionInv, HasDate, EarlierOnly, Unfinished, Recorded
    <3>5. QED
      BY <3>3, <3>4 DEF SessionInv
  <2>11. CASE Cleanup(p)
    <3>1. /\ Forget(p) /\ UNCHANGED <<now, lastStart, files>>
          /\ conf' \in {conf, job[p]}
      BY <2>11 DEF Cleanup, WriteConf
    <3>2. Successes' \subseteq Successes \union {None}
      BY <3>1 DEF Successes, Forget, NoJob, TypeOK
    <3>3. HonestSuccess'
      BY <3>1, <3>2, NoneAssumption DEF SessionInv, HonestSuccess, TypeOK, Time
    <3>4. QED
      BY <3>1, <3>2, <3>3, LastStep DEF SessionInv, PastDates
  <2>12. QED
    BY <1>6, <2>2, <2>3, <2>4, <2>5, <2>6, <2>7, <2>8, <2>9, <2>10, <2>11
       DEF Continue
<1>7. ASSUME NEW p \in Runs, Crash(p)
      PROVE  SessionInv'
  <2> USE <1>1
  <2>1. Forget(p) /\ UNCHANGED <<now, lastStart>> /\ conf' \in {conf, NoJob}
    BY <1>7 DEF Crash
  <2>2. Successes' \subseteq Successes \union {None}
    BY <2>1 DEF Successes, Forget, NoJob, TypeOK
  <2>3. CASE UNCHANGED files
    <3>1. HonestSuccess'
      BY <2>2, <2>3, NoneAssumption DEF SessionInv, HonestSuccess, TypeOK, Time
    <3>2. QED
      BY <2>1, <2>2, <2>3, <3>1, LastStep DEF SessionInv, PastDates
  <2>4. CASE pc[p] = "finish" /\ files' = Put(files, date[p], NewFile)
    <3>1. date[p] \in Time /\ date[p] # None /\ HasDate(p)
      BY <2>4, NoneAssumption DEF SessionInv, HasDate, TypeOK, TimeOrNone
    <3>2. date[p] \notin Successes /\ date[p] <= lastStart
      BY <2>4, <3>1 DEF SessionInv, Unfinished, PastDates
    <3>3. NewFile \in SessionFile
      BY DEF NewFile, SessionFile, TimeOrNone
    <3>4. /\ DOMAIN files' = DOMAIN files \union {date[p]}
          /\ \A e \in DOMAIN files : e # date[p] => files'[e] = files[e]
      BY <2>4, <3>1, <3>3, PutType DEF TypeOK
    <3>5. HonestSuccess'
      BY <2>2, <3>1, <3>2, <3>4, NoneAssumption
         DEF SessionInv, HonestSuccess, TypeOK, Time
    <3>6. QED
      BY <2>1, <2>2, <3>2, <3>4, <3>5, LastStep DEF SessionInv, PastDates
  <2>5. QED
    BY <1>7, <2>3, <2>4 DEF Crash
<1>8. QED
  BY <1>2, <1>3, <1>4, <1>5, <1>6, <1>7 DEF Next, Start

-----------------------------------------------------------------------------
\* The inductive invariant: holds for any number of runs, with any faults.
THEOREM SessionsHold == Spec => []SessionInv
  BY SessionInit, SessionNext, PTL DEF Spec

\* The variables keep their types.
THEOREM TypeCorrect == Spec => []TypeOK
<1>1. SessionInv => TypeOK
  BY DEF SessionInv
<1>2. QED
  BY <1>1, SessionsHold, PTL

\* No crash, failed write, retention or concurrent run makes the program call
\* a session the last success whose file does not say so.
THEOREM SuccessIsHonest == Spec => []HonestSuccess
<1>1. SessionInv => HonestSuccess
  BY DEF SessionInv
<1>2. QED
  BY <1>1, SessionsHold, PTL

\* Hard links are made to an earlier backup only, with any number of runs.
THEOREM LinksGoBack == Spec => []LinksBackwards
<1>1. SessionInv => LinksBackwards
  <2>1. SUFFICES ASSUME SessionInv, NEW p \in Runs, Recorded(p),
                        lastFull[p] # None, BackupDir(p) # None
                 PROVE  lastFull[p] < BackupDir(p)
    BY DEF LinksBackwards
  <2>2. HasDate(p) /\ EarlierOnly(p) /\ TypeOK
    BY <2>1 DEF SessionInv
  <2>3. date[p] # None /\ BackupDir(p) = bdir[p]
    BY <2>1, <2>2 DEF HasDate, BackupDir
  <2>4. lastFull[p] \in Int /\ date[p] \in Int /\ bdir[p] \in Int
    BY <2>1, <2>2, <2>3 DEF TypeOK, Time, TimeOrNone
  <2>5. QED
    BY <2>1, <2>2, <2>3, <2>4 DEF EarlierOnly
<1>2. QED
  BY <1>1, SessionsHold, PTL

-----------------------------------------------------------------------------
(***************************************************************************)
(* The refinement of SessionLog                                            *)
(***************************************************************************)

\* A session that neither begins nor ends in a step stays open, or is not.
LEMMA OpenStays ==
    ASSUME \A p \in Runs : /\ Unfinished(p)' <=> Unfinished(p)
                           /\ Unfinished(p) => date'[p] = date[p]
    PROVE  Open' = Open
<1>1. {q \in Runs : Unfinished(q)}' = {q \in Runs : Unfinished(q)}
  OBVIOUS
<1>2. \A d : d \in Open' <=> d \in Open
  BY <1>1 DEF Open
<1>3. QED
  BY <1>2

\* A session that ends is open no more; no other has its date.
LEMMA OpenEnds ==
    ASSUME OwnDates, NEW p \in Runs, Unfinished(p), ~Unfinished(p)',
           \A q \in Runs : q # p => /\ Unfinished(q)' <=> Unfinished(q)
                                    /\ date'[q] = date[q]
    PROVE  date[p] \in Open /\ Open' = Open \ {date[p]}
<1>1. \A d : d \in Open' => d \in Open /\ d # date[p]
  <2>1. SUFFICES ASSUME NEW q \in Runs, Unfinished(q)'
                 PROVE  date'[q] \in Open /\ date'[q] # date[p]
    BY DEF Open
  <2>2. q # p /\ Unfinished(q) /\ date'[q] = date[q]
    BY <2>1
  <2>3. date[q] # date[p]
    BY <2>2 DEF OwnDates, Unfinished
  <2>4. QED
    BY <2>2, <2>3 DEF Open
<1>2. \A d : d \in Open /\ d # date[p] => d \in Open'
  <2>1. SUFFICES ASSUME NEW q \in Runs, Unfinished(q), date[q] # date[p]
                 PROVE  date[q] \in Open'
    BY DEF Open
  <2>2. Unfinished(q)' /\ date'[q] = date[q]
    BY <2>1
  <2>3. QED
    BY <2>2 DEF Open
<1>3. QED
  BY <1>1, <1>2 DEF Open

\* A step of a run between start and end, which changes no file.
LEMMA LogStays ==
    ASSUME SessionInv, NEW p \in Runs,
           UNCHANGED <<lastStart, files, conf, job, date>>,
           \A q \in Runs : q # p => pc'[q] = pc[q],
           Unfinished(p)' <=> Unfinished(p)
    PROVE  UNCHANGED <<lastStart, Open, files, Claimed>>
<1>1. Claimed' = Claimed
  BY DEF Claimed, Successes
<1>2. \A q \in Runs : Unfinished(q)' <=> Unfinished(q)
  BY DEF Unfinished
<1>3. QED
  BY <1>1, <1>2, OpenStays

\* A run that forgets all ends its session, if it has one that is not over.
LEMMA LogForgets ==
    ASSUME SessionInv, NEW p \in Runs, Forget(p)
    PROVE  /\ Unfinished(p) => date[p] \in Open /\ Open' = Open \ {date[p]}
           /\ ~Unfinished(p) => Open' = Open
<1>1. /\ ~Unfinished(p)'
      /\ \A q \in Runs : q # p => /\ Unfinished(q)' <=> Unfinished(q)
                                  /\ date'[q] = date[q]
  BY DEF Forget, SessionInv, TypeOK, Unfinished
<1>2. CASE Unfinished(p)
  BY <1>1, <1>2, OpenEnds DEF SessionInv
<1>3. CASE ~Unfinished(p)
  BY <1>1, <1>3, OpenStays
<1>4. QED
  BY <1>2, <1>3

LEMMA LogInit == Init => Log!Init
<1>1. Init => Successes \subseteq {None}
  BY DEF Init, Successes, NoJob
<1>2. QED
  BY <1>1 DEF Init, Log!Init, Open, Unfinished, Claimed

LEMMA LogNext ==
    ASSUME SessionInv, SessionInv', [Next]_vars
    PROVE  [Log!Next]_<<lastStart, Open, files, Claimed>>
<1> USE DEF Log!Next
<1>0. TypeOK /\ TypeOK'
  BY DEF SessionInv
<1>1. CASE UNCHANGED vars
  <2>1. UNCHANGED <<Open, Claimed>>
    BY <1>1, OpenStays DEF vars, Unfinished, Claimed, Successes
  <2>2. QED
    BY <1>1, <2>1 DEF vars
<1>2. CASE Tick
  <2>1. UNCHANGED <<Open, Claimed>>
    BY <1>2, OpenStays DEF Tick, disk, mem, Unfinished, Claimed, Successes
  <2>2. QED
    BY <1>2, <2>1 DEF Tick, disk, mem
<1>3. ASSUME NEW p \in Runs, NEW o \in Ops, Start(p, o), StartRecorded(p, o)
      PROVE  Log!Begin
  <2>1. now \in Nat /\ now > lastStart /\ lastStart' = now /\ now # None
    BY <1>0, <1>3, NoneAssumption DEF StartRecorded, TypeOK, Time
  <2>2. /\ pc[p] = "idle" /\ ~Unfinished(p)
        /\ pc'[p] = "prepare" /\ date'[p] = now /\ Unfinished(p)'
    BY <1>0, <1>3, <2>1
       DEF Start, StartRecorded, Goto, TypeOK, SessionInv, HasDate, Unfinished
  <2>3. \A q \in Runs : q # p =>
            /\ Unfinished(q)' <=> Unfinished(q)
            /\ date'[q] = date[q] /\ job'[q] = job[q]
    BY <1>0, <1>3 DEF Start, StartRecorded, Goto, TypeOK, Unfinished
  <2>4. Open' = Open \union {now}
    <3>1. \A d : d \in Open' => d \in Open \union {now}
      BY <2>2, <2>3 DEF Open
    <3>2. \A d \in Open : d \in Open'
      BY <2>2, <2>3 DEF Open
    <3>3. now \in Open'
      BY <2>2 DEF Open
    <3>4. QED
      BY <3>1, <3>2, <3>3
  <2>5. Claimed' \subseteq Claimed
    <3>1. job'[p].success = conf.success /\ conf' = conf
      <4>1. ItemChanged(conf, now, FALSE).success = conf.success
        BY <1>0 DEF ItemChanged, TypeOK, JobState
      <4>2. QED
        BY <1>0, <1>3, <4>1 DEF Start, StartRecorded, TypeOK
    <3>2. QED
      BY <2>3, <3>1 DEF Claimed, Successes
  <2>6. files' = Put(files, now, NewFile) \/ UNCHANGED files
    BY <1>3 DEF StartRecorded
  <2>7. QED
    BY <2>1, <2>4, <2>5, <2>6
       DEF Log!Begin, Log!Recorded, Log!Unknown, Put, NewFile
<1>4. ASSUME NEW p \in Runs, NEW o \in Ops, Start(p, o), StartTemporary(p, o)
      PROVE  Log!Disclaim
  <2>1. /\ UNCHANGED <<lastStart, files, conf, date>>
        /\ \A q \in Runs : q # p => pc'[q] = pc[q] /\ job'[q] = job[q]
        /\ job'[p] = conf /\ date[p] = None
    BY <1>0, <1>4 DEF Start, StartTemporary, Goto, TypeOK, SessionInv, HasDate
  <2>2. Open' = Open
    BY <2>1, OpenStays DEF Unfinished
  <2>3. Claimed' \subseteq Claimed
    BY <2>1 DEF Claimed, Successes
  <2>4. QED
    BY <2>1, <2>2, <2>3 DEF Log!Disclaim
<1>5. ASSUME NEW p \in Runs,
             \/ Prepare(p) \/ Load(p) \/ Plugins(p) \/ DoRsync(p)
             \/ TrimBackups(p) \/ ExpireBackups(p) \/ Shutdown(p)
      PROVE  UNCHANGED <<lastStart, Open, files, Claimed>>
  <2>1. /\ UNCHANGED <<lastStart, files, conf, job, date>>
        /\ \A q \in Runs : q # p => pc'[q] = pc[q]
    BY <1>0, <1>5
       DEF Prepare, Load, Plugins, DoRsync, TrimBackups, ExpireBackups, Shutdown,
           RemoveBackup, KeepBackups, disk, session, list, Goto, TypeOK
  <2>2. pc[p] \notin {"saveJob", "cleanup"}
    BY <1>5 DEF Prepare, Load, Plugins, DoRsync, TrimBackups, ExpireBackups, Shutdown
  <2>3. date[p] # None => pc'[p] \notin {"saveJob", "cleanup"}
    BY <1>0, <1>5
       DEF Prepare, Load, Plugins, DoRsync, TrimBackups, ExpireBackups, Shutdown,
           Goto, TypeOK, SessionInv, HasDate
  <2>4. QED
    BY <2>1, <2>2, <2>3, LogStays DEF Unfinished
<1>6. ASSUME NEW p \in Runs, TrimSessions(p) \/ ExpireSessions(p)
      PROVE  Log!Next \/ UNCHANGED <<lastStart, Open, files, Claimed>>
  <2>1. pc[p] \in {"trimSessions", "ageSessions"}
    BY <1>6 DEF TrimSessions, ExpireSessions
  <2>2. ASSUME NEW d \in hist[p], RemoveSession(p, d), UNCHANGED pc
        PROVE  Log!Remove(d) /\ d \in DOMAIN files
    <3>1. UNCHANGED <<lastStart, conf, job, date>>
      BY <2>2 DEF RemoveSession, session
    <3>2. UNCHANGED <<Open, Claimed>>
      BY <2>2, <3>1, OpenStays DEF Unfinished, Claimed, Successes
    <3>3. QED
      BY <2>2, <3>1, <3>2 DEF RemoveSession, Drop, Log!Remove
  <2>3. ASSUME NEW d \in hist[p], UnlinkRaises(p, d)
        PROVE  Log!Next
    <3>1. Forget(p) /\ UNCHANGED <<lastStart, files, conf>>
      BY <2>3 DEF UnlinkRaises, disk
    <3>2. Claimed' \subseteq Claimed
      BY <1>0, <3>1 DEF Claimed, Successes, Forget, NoJob, TypeOK
    <3>3. CASE Unfinished(p)
      BY <3>1, <3>2, <3>3, LogForgets DEF Log!Abandon
    <3>4. CASE ~Unfinished(p)
      BY <3>1, <3>2, <3>4, LogForgets DEF Log!Disclaim
    <3>5. QED
      BY <3>3, <3>4
  <2>4. ASSUME KeepBackups, Goto(p, "ageSessions") \/ Goto(p, "shutdown")
        PROVE  UNCHANGED <<lastStart, Open, files, Claimed>>
    <3>1. /\ UNCHANGED <<lastStart, files, conf, job, date>>
          /\ \A q \in Runs : q # p => pc'[q] = pc[q]
          /\ pc'[p] \in {"ageSessions", "shutdown"}
      BY <1>0, <2>4 DEF KeepBackups, Goto, disk, session, TypeOK
    <3>2. QED
      BY <2>1, <3>1, LogStays DEF Unfinished
  <2>5. QED
    BY <1>6, <2>2, <2>3, <2>4 DEF TrimSessions, ExpireSessions
<1>7. ASSUME NEW p \in Runs, Finish(p)
      PROVE  Log!Next
  <2>1. /\ pc[p] = "finish" /\ pc'[p] \in {"saveJob", "cleanup"}
        /\ UNCHANGED <<lastStart, conf, date>>
        /\ \A q \in Runs : q # p => pc'[q] = pc[q] /\ job'[q] = job[q]
    BY <1>0, <1>7 DEF Finish, Goto, session, TypeOK
  <2>2. date[p] \in Time /\ date[p] # None /\ EarlierOnly(p)
    BY <1>0, <2>1, NoneAssumption
       DEF SessionInv, HasDate, TypeOK, Time, TimeOrNone
  <2>3. date[p] \in Open /\ Open' = Open \ {date[p]}
    BY <2>1, <2>2, OpenEnds DEF SessionInv, Unfinished
  <2>4. CASE /\ files' = Put(files, date[p], [success |-> ok[p], dir |-> bdir[p]])
             /\ job' = [job EXCEPT ![p] = ItemChanged(@, date[p], ok[p])]
    <3> DEFINE outcome == [success |-> ok[p], dir |-> bdir[p]]
    <3>1. outcome \in Log!OutcomeOf(date[p])
      BY <1>0, <2>2
         DEF Log!OutcomeOf, Log!Outcome, TypeOK, TimeOrNone, Time, EarlierOnly
    <3>2. Log!Recorded(date[p], outcome)
      BY <2>4 DEF Log!Recorded, Put
    <3>3. Claimed' \subseteq Claimed \union (IF outcome.success THEN {date[p]} ELSE {})
      <4>1. job[p] \in JobState /\ date[p] \in TimeOrNone /\ ok[p] \in BOOLEAN
        BY <1>0 DEF TypeOK
      <4>2. job'[p] = ItemChanged(job[p], date[p], ok[p])
        BY <1>0, <2>4 DEF TypeOK
      <4>3. /\ job'[p].success \in {job[p].success, date[p]}
            /\ ~ok[p] => job'[p].success = job[p].success
        BY <4>1, <4>2, ItemChangedSuccess
      <4>4. QED
        BY <2>1, <4>1, <4>3 DEF Claimed, Successes
    <3>4. Log!End(date[p])
      BY <2>1, <2>3, <3>1, <3>2, <3>3 DEF Log!End
    <3>5. QED
      BY <2>3, <3>4
  <2>5. CASE UNCHANGED <<files, job>>
    <3>1. Claimed' = Claimed
      BY <2>1, <2>5 DEF Claimed, Successes
    <3>2. QED
      BY <2>1, <2>3, <2>5, <3>1 DEF Log!Abandon
  <2>6. QED
    BY <1>7, <2>4, <2>5 DEF Finish
<1>8. ASSUME NEW p \in Runs, SaveJob(p) \/ Cleanup(p)
      PROVE  Log!Disclaim
  <2>1. UNCHANGED <<lastStart, files>> /\ conf' \in {conf, job[p]}
    BY <1>8 DEF SaveJob, Cleanup, WriteConf
  <2>2. /\ Open' = Open
        /\ \A q \in Runs : job'[q].success \in {job[q].success, None}
    <3>1. CASE SaveJob(p)
      BY <1>0, <3>1, OpenStays DEF SaveJob, Goto, session, TypeOK, Unfinished
    <3>2. CASE Cleanup(p)
      BY <1>0, <3>2, LogForgets DEF Cleanup, Forget, NoJob, TypeOK, Unfinished
    <3>3. QED
      BY <1>8, <3>1, <3>2
  <2>3. Claimed' \subseteq Claimed
    BY <2>1, <2>2 DEF Claimed, Successes
  <2>4. QED
    BY <2>1, <2>2, <2>3 DEF Log!Disclaim
<1>9. ASSUME NEW p \in Runs, Crash(p)
      PROVE  Log!Next
  <2>1. Forget(p) /\ UNCHANGED lastStart /\ conf' \in {conf, NoJob}
    BY <1>9 DEF Crash
  <2>2. Claimed' \subseteq Claimed
    BY <1>0, <2>1 DEF Claimed, Successes, Forget, NoJob, TypeOK
  <2>3. CASE UNCHANGED files
    <3>1. CASE Unfinished(p)
      BY <2>1, <2>2, <2>3, <3>1, LogForgets DEF Log!Abandon
    <3>2. CASE ~Unfinished(p)
      BY <2>1, <2>2, <2>3, <3>2, LogForgets DEF Log!Disclaim
    <3>3. QED
      BY <3>1, <3>2
  <2>4. CASE pc[p] = "finish" /\ files' = Put(files, date[p], NewFile)
    <3>1. Unfinished(p)
      BY <2>4 DEF SessionInv, HasDate, Unfinished
    <3>2. Log!Recorded(date[p], Log!Unknown)
      BY <2>4 DEF Log!Recorded, Log!Unknown, Put, NewFile
    <3>3. QED
      BY <2>1, <2>2, <3>1, <3>2, LogForgets DEF Log!Abandon
  <2>5. QED
    BY <1>9, <2>3, <2>4 DEF Crash
<1>10. QED
  BY <1>1, <1>2, <1>3, <1>4, <1>5, <1>6, <1>7, <1>8, <1>9
     DEF Next, Start, Continue, Log!Disclaim

\* Whatever processes interleave, die or lose files, each step begins, ends or
\* gives up one session, removes a record, or drops what was claimed.
THEOREM LogHolds == Spec => LogImplemented
<1>1. SessionInv /\ SessionInv' /\ [Next]_vars => [Log!Next]_<<lastStart, Open, files, Claimed>>
  BY LogNext
<1>2. QED
  BY <1>1, LogInit, SessionsHold, PTL DEF Spec, LogImplemented, Log!Spec

-----------------------------------------------------------------------------
(***************************************************************************)
(* What SessionLog promises, for the session files                         *)
(***************************************************************************)
LEMMA PromisesInit == Log!Init => Log!TypeOK /\ Log!Honest
  BY DEF Log!Init, Log!TypeOK, Log!Honest

\* A record of d is as it was, or the one of d that was written.
LEMMA RecordedIs ==
    ASSUME NEW d, NEW outcome, Log!Recorded(d, outcome)
    PROVE  /\ DOMAIN files' = DOMAIN files \union {d}
           /\ files'[d] = outcome
           /\ \A e \in DOMAIN files : e # d => files'[e] = files[e]
  BY DEF Log!Recorded

LEMMA PromisesNext ==
    ASSUME Log!TypeOK, Log!Honest, [Log!Next]_<<lastStart, Open, files, Claimed>>
    PROVE  Log!TypeOK' /\ Log!Honest'
<1> USE DEF Log!TypeOK, Log!Honest
<1>0. \A d : Log!Unknown \in Log!OutcomeOf(d)
  BY DEF Log!Unknown, Log!OutcomeOf, Log!Outcome
<1>1. CASE UNCHANGED <<lastStart, Open, files, Claimed>> \/ Log!Disclaim
  BY <1>1 DEF Log!Disclaim
<1>2. CASE Log!Begin
  <2>1. /\ lastStart' \in Nat /\ lastStart' > lastStart
        /\ Open' = Open \union {lastStart'} /\ Claimed' \subseteq Claimed
    BY <1>2 DEF Log!Begin
  <2>2. CASE UNCHANGED files
    BY <2>1, <2>2
  <2>3. CASE Log!Recorded(lastStart', Log!Unknown)
    <3>1. /\ DOMAIN files' = DOMAIN files \union {lastStart'}
          /\ files'[lastStart'] = Log!Unknown
          /\ \A e \in DOMAIN files : e # lastStart' => files'[e] = files[e]
      BY <2>3, RecordedIs
    <3>2. QED
      BY <1>0, <2>1, <3>1
  <2>4. QED
    BY <1>2, <2>2, <2>3 DEF Log!Begin
<1>3. ASSUME NEW d \in Open, Log!End(d)
      PROVE  Log!TypeOK' /\ Log!Honest'
  <2>1. PICK outcome \in Log!OutcomeOf(d) :
            /\ Log!Recorded(d, outcome)
            /\ Claimed' \subseteq Claimed \union (IF outcome.success THEN {d} ELSE {})
    BY <1>3 DEF Log!End
  <2>2. /\ DOMAIN files' = DOMAIN files \union {d}
        /\ files'[d] = outcome
        /\ \A e \in DOMAIN files : e # d => files'[e] = files[e]
    BY <2>1, RecordedIs
  <2>3. Open' = Open \ {d} /\ lastStart' = lastStart
    BY <1>3 DEF Log!End
  <2>4. QED
    BY <2>1, <2>2, <2>3
<1>4. ASSUME NEW d \in Open, Log!Abandon(d)
      PROVE  Log!TypeOK' /\ Log!Honest'
  <2>1. Open' = Open \ {d} /\ lastStart' = lastStart /\ Claimed' \subseteq Claimed
    BY <1>4 DEF Log!Abandon
  <2>2. CASE UNCHANGED files
    BY <2>1, <2>2
  <2>3. CASE Log!Recorded(d, Log!Unknown)
    <3>1. /\ DOMAIN files' = DOMAIN files \union {d}
          /\ files'[d] = Log!Unknown
          /\ \A e \in DOMAIN files : e # d => files'[e] = files[e]
      BY <2>3, RecordedIs
    <3>2. QED
      BY <1>0, <2>1, <3>1
  <2>4. QED
    BY <1>4, <2>2, <2>3 DEF Log!Abandon
<1>5. ASSUME NEW d \in DOMAIN files, Log!Remove(d)
      PROVE  Log!TypeOK' /\ Log!Honest'
  BY <1>5 DEF Log!Remove
<1>6. QED
  BY <1>1, <1>2, <1>3, <1>4, <1>5 DEF Log!Next

\* Nothing but the end of a session, or giving it up, writes its record.
LEMMA OverNext ==
    ASSUME Log!TypeOK, [Log!Next]_<<lastStart, Open, files, Claimed>>,
           NEW d \in (1 .. lastStart) \ Open, d \in DOMAIN files'
    PROVE  d \in DOMAIN files /\ files'[d] = files[d]
<1>0. ASSUME NEW e, NEW outcome, Log!Recorded(e, outcome), d # e
      PROVE  d \in DOMAIN files /\ files'[d] = files[d]
  BY <1>0 DEF Log!Recorded
<1>1. CASE UNCHANGED <<lastStart, Open, files, Claimed>> \/ Log!Disclaim
  BY <1>1 DEF Log!Disclaim
<1>2. CASE Log!Begin
  <2>1. d # lastStart'
    BY <1>2 DEF Log!Begin, Log!TypeOK
  <2>2. QED
    BY <1>0, <1>2, <2>1 DEF Log!Begin
<1>3. ASSUME NEW e \in Open, Log!End(e) \/ Log!Abandon(e)
      PROVE  d \in DOMAIN files /\ files'[d] = files[d]
  <2>1. d # e
    BY <1>3
  <2>2. QED
    BY <1>0, <1>3, <2>1 DEF Log!End, Log!Abandon
<1>4. ASSUME NEW e \in DOMAIN files, Log!Remove(e)
      PROVE  d \in DOMAIN files /\ files'[d] = files[d]
  BY <1>4 DEF Log!Remove
<1>5. QED
  BY <1>1, <1>2, <1>3, <1>4 DEF Log!Next

\* What is over is over: no process changes the file of a session that has
\* ended or died, or brings back one that the retention has removed.  It follows
\* from the refinement alone.
THEOREM RecordsAreFinal == Spec => Log!OverIsOver
<1>1. /\ Log!TypeOK /\ [Log!Next]_<<lastStart, Open, files, Claimed>>
      => [\A d \in (1 .. lastStart) \ Open :
            d \in DOMAIN files' => d \in DOMAIN files /\ files'[d] = files[d]]_<<lastStart, Open, files, Claimed>>
  BY OverNext
<1>2. Log!TypeOK /\ Log!Honest /\ [Log!Next]_<<lastStart, Open, files, Claimed>>
      => (Log!TypeOK /\ Log!Honest)'
  BY PromisesNext
<1>3. QED
  BY <1>1, <1>2, PromisesInit, LogHolds, PTL DEF LogImplemented, Log!Spec, Log!OverIsOver

-----------------------------------------------------------------------------
(***************************************************************************)
(* Why a run ends                                                          *)
(***************************************************************************)

\* The phases in the order in which a run goes through them.
Order == [prepare |-> 1, load |-> 2, plugins |-> 3, rsync |-> 4, trimDirs |-> 5,
          ageDirs |-> 6, trimSessions |-> 7, ageSessions |-> 8, shutdown |-> 9,
          finish |-> 10, saveJob |-> 11, cleanup |-> 12, idle |-> 13]

\* A later phase, or one item less of the lists that the retention goes through.
GetsOn(p) ==
    \/ Order[pc'[p]] > Order[pc[p]]
    \/ /\ pc'[p] = pc[p]
       /\ \/ \E t \in items[p] : items'[p] = items[p] \ {t} /\ hist'[p] = hist[p]
          \/ \E t \in hist[p] : hist'[p] = hist[p] \ {t} /\ items'[p] = items[p]

LEMMA ForgettingGetsOn ==
    ASSUME TypeOK, NEW p \in Runs, pc[p] # "idle", Forget(p)
    PROVE  GetsOn(p)
<1>1. pc'[p] = "idle" /\ pc[p] \in PC
  BY DEF TypeOK, Forget
<1>2. QED
  BY <1>1 DEF GetsOn, Order, PC

\* No step of a run leaves it where it was: each leads to a later phase or takes
\* an item from one of the two lists of the retention, whether or not the
\* directory behind it could be removed.  As the lists are finite no loop goes
\* on for ever, which is what RunEnds rests on.
THEOREM EachStepGetsOn ==
    ASSUME TypeOK, NEW p \in Runs, Continue(p)
    PROVE  GetsOn(p)
<1> USE DEF TypeOK
<1>1. CASE Prepare(p) \/ Load(p) \/ Plugins(p) \/ DoRsync(p) \/ Shutdown(p)
           \/ Finish(p) \/ SaveJob(p)
  <2>1. \/ pc[p] = "prepare" /\ pc'[p] \in {"load", "shutdown", "trimDirs"}
        \/ pc[p] = "load" /\ pc'[p] \in {"plugins", "trimDirs"}
        \/ pc[p] = "plugins" /\ pc'[p] = "rsync"
        \/ pc[p] = "rsync" /\ pc'[p] = "trimDirs"
        \/ pc[p] = "shutdown" /\ pc'[p] \in {"finish", "cleanup"}
        \/ pc[p] = "finish" /\ pc'[p] \in {"saveJob", "cleanup"}
        \/ pc[p] = "saveJob" /\ pc'[p] = "cleanup"
    BY <1>1 DEF Prepare, Load, Plugins, DoRsync, Shutdown, Finish, SaveJob, Goto
  <2>2. QED
    BY <2>1 DEF GetsOn, Order
<1>2. CASE TrimBackups(p)
  BY <1>2 DEF TrimBackups, RemoveBackup, Goto, GetsOn, Order
<1>3. CASE ExpireBackups(p)
  BY <1>3 DEF ExpireBackups, RemoveBackup, Goto, GetsOn, Order
<1>4. CASE TrimSessions(p)
  <2>1. ASSUME NEW d \in hist[p], RemoveSession(p, d), UNCHANGED pc
        PROVE  GetsOn(p)
    BY <2>1 DEF RemoveSession, list, GetsOn
  <2>2. ASSUME NEW d \in hist[p], UnlinkRaises(p, d)
        PROVE  GetsOn(p)
    BY <1>4, <2>2, ForgettingGetsOn DEF TrimSessions, UnlinkRaises
  <2>3. QED
    BY <1>4, <2>1, <2>2 DEF TrimSessions, Goto, GetsOn, Order
<1>5. CASE ExpireSessions(p)
  <2>1. ASSUME NEW d \in hist[p], RemoveSession(p, d), UNCHANGED pc
        PROVE  GetsOn(p)
    BY <2>1 DEF RemoveSession, list, GetsOn
  <2>2. ASSUME NEW d \in hist[p], UnlinkRaises(p, d)
        PROVE  GetsOn(p)
    BY <1>5, <2>2, ForgettingGetsOn DEF ExpireSessions, UnlinkRaises
  <2>3. QED
    BY <1>5, <2>1, <2>2 DEF ExpireSessions, Goto, GetsOn, Order
<1>6. CASE Cleanup(p)
  BY <1>6, ForgettingGetsOn DEF Cleanup
<1>7. QED
  BY <1>1, <1>2, <1>3, <1>4, <1>5, <1>6 DEF Continue
=============================================================================
