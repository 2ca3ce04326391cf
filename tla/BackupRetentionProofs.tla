----------------------- MODULE BackupRetentionProofs -----------------------
(***************************************************************************)
(* The bounds of the retention and the order of the successes, proved for  *)
(* any retention, any operations and any bound of the clock, when one      *)
(* process runs at a time.  The bounds are proved for a directory that can *)
(* be listed and whose entries can be removed; any other fault is allowed, *)
(* and the remains of runs that crashed or failed are counted.             *)
(***************************************************************************)
EXTENDS BackupSurvivalProofs, WellFoundedInduction

RemovalsWork == /\ OneAtATime
                /\ Faults \intersect {"listing", "rmtree"} = {}

\* What the bounds rest on: from the listing until the directories are trimmed
\* nothing but the run's own directory is missing from its list, and its
\* history knows every session file until the sessions are trimmed.
DirsListed(p) == dirs \ {BackupDir(p)} \subseteq items[p]

Bounded(p) ==
    /\ /\ pc[p] \in {"plugins", "rsync", "trimDirs", "ageDirs", "trimSessions"}
       /\ Recorded(p)
       => DirsListed(p)
    /\ pc[p] \in {"ageDirs", "trimSessions"} => ~TooMany(items[p])
    /\ pc[p] = "trimSessions" => \A t \in items[p] : t >= cutoff[p]
    /\ pc[p] \in {"prepare", "load", "plugins", "rsync", "trimDirs", "ageDirs",
                  "trimSessions", "ageSessions"}
       => DOMAIN files \subseteq hist[p]
    /\ pc[p] = "ageSessions" => ~TooMany(hist[p])

RetentionInv == \A p \in Runs : Bounded(p)

-----------------------------------------------------------------------------
\* What is not too much is finite, and neither is a part of it too much.
LEMMA PartIsNotTooMany ==
    ASSUME NEW S \in SUBSET Time, NEW T \in SUBSET S, ~TooMany(S)
    PROVE  /\ ~TooMany(T)
           /\ Cardinality(T) <= RetentionCount
<1>1. IsFiniteSet(Time)
  BY FS_Interval, ClockAssumption DEF Time
<1>2. IsFiniteSet(S)
  BY <1>1, FS_Subset
<1>3. IsFiniteSet(T) /\ Cardinality(T) <= Cardinality(S)
  BY <1>2, FS_Subset
<1>4. Cardinality(S) \in Nat /\ Cardinality(T) \in Nat
  BY <1>2, <1>3, FS_CardinalityType
<1>5. QED
  BY <1>3, <1>4, RetentionAssumption DEF TooMany

\* A set of times that is not empty has an oldest one.
LEMMA OldestExists ==
    ASSUME NEW S \in SUBSET Time, S # {}
    PROVE  \E t \in S : IsOldest(t, S)
<1>1. S \subseteq Nat
  BY ClockAssumption DEF Time
<1>2. PICK t \in S : \A u \in S : <<u, t>> \notin OpToRel(<, Nat)
  BY <1>1, NatLessThanWellFounded, WFMin
<1>3. \A u \in S : ~(u < t)
  BY <1>1, <1>2 DEF OpToRel
<1>4. \A u \in S : t <= u
  BY <1>1, <1>3
<1>5. QED
  BY <1>2, <1>4 DEF IsOldest

\* When no item is both the oldest and expired, none is expired.
LEMMA NoneIsExpired ==
    ASSUME TypeOK, NEW p \in Runs, NEW S \in SUBSET Time, ~TooMany(S),
           ~ \E t \in S : Expired(p, t, S)
    PROVE  \A t \in S : t >= cutoff[p]
<1>1. SUFFICES ASSUME NEW t \in S PROVE t >= cutoff[p]
  OBVIOUS
<1>2. PICK u \in S : IsOldest(u, S)
  BY <1>1, OldestExists
<1>3. ~(u < cutoff[p]) /\ u <= t
  BY <1>2 DEF Expired, IsOldest
<1>4. t \in Int /\ u \in Int /\ cutoff[p] \in Int
  BY DEF TypeOK, Time
<1>5. QED
  BY <1>3, <1>4

LEMMA RetentionInit == Init => RetentionInv
  BY DEF Init, RetentionInv, Bounded

\* What a session file holds makes no difference to the bounds.
LEMMA RemovedFile ==
    ASSUME NEW p \in Runs, NEW d, RemoveSession(p, d), TypeOK,
           DOMAIN files \subseteq hist[p]
    PROVE  /\ DOMAIN files' \subseteq hist'[p]
           /\ hist'[p] \subseteq hist[p]
  BY DEF RemoveSession, Drop, TypeOK

\* A step of the only run keeps the bounds.
LEMMA RetentionNext ==
    ASSUME RemovalsWork, SessionInv, RetentionInv, [Next]_vars
    PROVE  RetentionInv'
<1>1. TypeOK /\ TypeOK'
  BY SessionNext DEF SessionInv
<1>2. CASE UNCHANGED vars
  BY <1>2 DEF vars, RetentionInv, Bounded, DirsListed, BackupDir, Recorded
<1>3. CASE Tick
  BY <1>3 DEF Tick, disk, mem, RetentionInv, Bounded, DirsListed, BackupDir,
              Recorded
<1>4. ASSUME NEW p \in Runs, Bounded(p)'
      PROVE  RetentionInv'
  BY <1>4 DEF RemovalsWork, OneAtATime, RetentionInv
<1>5. ASSUME NEW p \in Runs, NEW o \in Ops, Start(p, o)
      PROVE  RetentionInv'
  <2>1. pc'[p] = "prepare"
    BY <1>1, <1>5 DEF Start, Goto, TypeOK
  <2>2. DOMAIN files' \subseteq hist'[p]
    <3>1. CASE StartRecorded(p, o)
      <4>1. hist'[p] = DOMAIN files \union {now}
        BY <1>1, <3>1 DEF StartRecorded, TypeOK
      <4>2. DOMAIN files' \subseteq DOMAIN files \union {now}
        BY <3>1 DEF StartRecorded, Put
      <4>3. QED
        BY <4>1, <4>2
    <3>2. CASE StartTemporary(p, o)
      BY <1>1, <3>2 DEF StartTemporary, TypeOK
    <3>3. QED
      BY <1>5, <3>1, <3>2 DEF Start
  <2>3. QED
    BY <1>4, <2>1, <2>2 DEF Bounded
<1>6. ASSUME NEW p \in Runs, Continue(p) \/ Crash(p)
      PROVE  RetentionInv'
  <2>1. Bounded(p)
    BY DEF RetentionInv
  <2>2. ASSUME Forget(p)
        PROVE  RetentionInv'
    <3>1. pc'[p] = "idle"
      BY <1>1, <2>2 DEF Forget, TypeOK
    <3>2. QED
      BY <1>4, <3>1 DEF Bounded
  <2>3. CASE Prepare(p)
    <3>1. /\ pc[p] = "prepare" /\ UNCHANGED <<op, files, hist>>
          /\ \/ pc'[p] \in {"load", "shutdown"}
             \/ pc'[p] = "trimDirs" /\ ~Recorded(p)
      BY <1>1, <2>3 DEF Prepare, Goto, TypeOK
    <3>2. QED
      BY <1>4, <2>1, <3>1 DEF Bounded, Recorded
  <2>4. CASE Load(p)
    <3>1. /\ pc[p] = "load"
          /\ UNCHANGED <<op, files, hist, dirs, unread, bdir>>
          /\ pc'[p] \in {"plugins", "trimDirs"}
      BY <1>1, <2>4 DEF Load, Goto, disk, session, TypeOK
    <3>2. items'[p] = Listed(p)
      BY <1>1, <2>4 DEF Load, RemovalsWork, TypeOK
    <3>3. \A t \in dirs : t # BackupDir(p) => t \in Listed(p)
      BY DEF Listed, HasSession, DirOf
    <3>4. DirsListed(p)'
      BY <3>1, <3>2, <3>3 DEF DirsListed, BackupDir
    <3>5. QED
      BY <1>4, <2>1, <3>1, <3>4 DEF Bounded
  <2>5. CASE Plugins(p)
    <3>1. /\ pc[p] = "plugins" /\ pc'[p] = "rsync"
          /\ UNCHANGED <<op, files, hist, dirs, items, unread, bdir>>
      BY <1>1, <2>5 DEF Plugins, Goto, disk, session, list, TypeOK
    <3>2. QED
      BY <1>4, <2>1, <3>1 DEF Bounded, DirsListed, BackupDir, Recorded
  <2>6. CASE DoRsync(p)
    <3>1. /\ pc[p] = "rsync" /\ pc'[p] = "trimDirs"
          /\ UNCHANGED <<op, files, hist, items>>
      BY <1>1, <2>6 DEF DoRsync, Goto, list, TypeOK
    <3>2. BackupDir(p)' = BackupDir(p)
      BY <1>1, <2>6 DEF DoRsync, BackupDir, TypeOK
    <3>3. dirs' \subseteq dirs \union {BackupDir(p)}
      BY <2>6 DEF DoRsync, RsyncNothing, RsyncDry, RsyncDone, RsyncFailed,
                  BackupDir
    <3>4. QED
      BY <1>4, <2>1, <3>1, <3>2, <3>3 DEF Bounded, DirsListed, Recorded
  <2>7. ASSUME NEW t \in items[p], RemoveBackup(p, t), UNCHANGED <<pc, cutoff>>,
               pc[p] \in {"trimDirs", "ageDirs"}
        PROVE  RetentionInv'
    <3>1. /\ UNCHANGED <<op, files, hist, unread, bdir>>
          /\ dirs' = dirs \ {t} /\ items'[p] = items[p] \ {t}
      BY <1>1, <2>7 DEF RemoveBackup, RemovalsWork, session, TypeOK
    <3>2. Recorded(p) => DirsListed(p)'
      BY <2>1, <2>7, <3>1 DEF Bounded, DirsListed, BackupDir
    <3>3. pc[p] = "ageDirs" => ~TooMany(items'[p])
      BY <1>1, <2>1, <3>1, PartIsNotTooMany DEF Bounded, TypeOK
    <3>4. QED
      BY <1>4, <2>1, <2>7, <3>1, <3>2, <3>3 DEF Bounded, TooMany, Recorded
  <2>8. ASSUME KeepBackups, pc'[p] \in {"ageDirs", "trimSessions"},
               pc[p] \in {"trimDirs", "ageDirs"},
               ~TooMany(items[p]),
               pc'[p] = "trimSessions" => \A t \in items[p] : t >= cutoff'[p]
        PROVE  RetentionInv'
    <3>1. UNCHANGED <<op, files, hist, dirs, items, unread, bdir>>
      BY <2>8 DEF KeepBackups, disk, session, list
    <3>2. QED
      BY <1>4, <2>1, <2>8, <3>1
         DEF Bounded, DirsListed, BackupDir, Recorded, TooMany
  <2>9. CASE TrimBackups(p)
    <3>1. pc[p] = "trimDirs"
      BY <2>9 DEF TrimBackups
    <3>2. ASSUME ~TooMany(items[p]), Goto(p, "ageDirs"), KeepBackups
          PROVE  RetentionInv'
      <4>1. pc'[p] = "ageDirs"
        BY <1>1, <3>2 DEF Goto, TypeOK
      <4>2. QED
        BY <2>8, <3>1, <3>2, <4>1
    <3>3. QED
      BY <2>7, <2>9, <3>1, <3>2 DEF TrimBackups
  <2>10. CASE ExpireBackups(p)
    <3>1. pc[p] = "ageDirs" /\ ~TooMany(items[p]) /\ items[p] \in SUBSET Time
      BY <1>1, <2>1, <2>10 DEF ExpireBackups, Bounded, TypeOK
    <3>2. ASSUME ~ \E t \in items[p] : Expired(p, t, items[p]),
                 Goto(p, "trimSessions"), KeepBackups, UNCHANGED cutoff
          PROVE  RetentionInv'
      <4>1. pc'[p] = "trimSessions"
        BY <1>1, <3>2 DEF Goto, TypeOK
      <4>2. \A t \in items[p] : t >= cutoff[p]
        BY <1>1, <3>1, <3>2, NoneIsExpired
      <4>3. QED
        BY <2>8, <3>1, <3>2, <4>1, <4>2
    <3>3. QED
      BY <2>7, <2>10, <3>1, <3>2 DEF ExpireBackups
  <2>11. ASSUME NEW d \in hist[p],
                (RemoveSession(p, d) /\ UNCHANGED <<pc, cutoff>>)
                   \/ UnlinkRaises(p, d),
                pc[p] \in {"trimSessions", "ageSessions"}
         PROVE  RetentionInv'
    <3>1. CASE UnlinkRaises(p, d)
      BY <2>2, <3>1 DEF UnlinkRaises
    <3>2. CASE RemoveSession(p, d) /\ UNCHANGED <<pc, cutoff>>
      <4>1. UNCHANGED <<op, dirs, items, unread, bdir>>
        BY <3>2 DEF RemoveSession, session, list
      <4>2. DOMAIN files' \subseteq hist'[p] /\ hist'[p] \subseteq hist[p]
        BY <1>1, <2>1, <2>11, <3>2, RemovedFile DEF Bounded
      <4>3. pc[p] = "ageSessions" => ~TooMany(hist'[p])
        BY <1>1, <2>1, <4>2, PartIsNotTooMany DEF Bounded, TypeOK
      <4>4. QED
        BY <1>4, <2>1, <2>11, <3>2, <4>1, <4>2, <4>3
           DEF Bounded, DirsListed, BackupDir, Recorded, TooMany
    <3>3. QED
      BY <2>11, <3>1, <3>2
  <2>12. CASE TrimSessions(p)
    <3>1. pc[p] = "trimSessions"
      BY <2>12 DEF TrimSessions
    <3>2. ASSUME ~TooMany(hist[p]), Goto(p, "ageSessions"), KeepBackups
          PROVE  RetentionInv'
      <4>1. pc'[p] = "ageSessions" /\ UNCHANGED <<files, hist>>
        BY <1>1, <3>2 DEF Goto, KeepBackups, disk, TypeOK
      <4>2. QED
        BY <1>4, <2>1, <3>1, <3>2, <4>1 DEF Bounded, TooMany
    <3>3. QED
      BY <2>11, <2>12, <3>1, <3>2 DEF TrimSessions
  <2>13. CASE ExpireSessions(p)
    <3>1. pc[p] = "ageSessions"
      BY <2>13 DEF ExpireSessions
    <3>2. ASSUME Goto(p, "shutdown")
          PROVE  RetentionInv'
      <4>1. pc'[p] = "shutdown"
        BY <1>1, <3>2 DEF Goto, TypeOK
      <4>2. QED
        BY <1>4, <4>1 DEF Bounded
    <3>3. QED
      BY <2>11, <2>13, <3>1, <3>2 DEF ExpireSessions
  <2>14. CASE Shutdown(p) \/ Finish(p) \/ SaveJob(p)
    <3>1. pc'[p] \in {"finish", "cleanup", "saveJob"}
      BY <1>1, <2>14 DEF Shutdown, Finish, SaveJob, Goto, TypeOK
    <3>2. QED
      BY <1>4, <3>1 DEF Bounded
  <2>15. CASE Cleanup(p) \/ Crash(p)
    BY <2>2, <2>15 DEF Cleanup, Crash
  <2>16. QED
    BY <1>6, <2>3, <2>4, <2>5, <2>6, <2>9, <2>10, <2>12, <2>13, <2>14, <2>15
       DEF Continue
<1>7. QED
  BY <1>2, <1>3, <1>5, <1>6 DEF Next

\* The invariant and the types give the bounds.
LEMMA BoundsFollow ==
    ASSUME TypeOK, RetentionInv
    PROVE  RetentionBounds
<1>1. SUFFICES ASSUME NEW p \in Runs, Recorded(p)
               PROVE  /\ pc[p] = "trimSessions" =>
                            /\ Cardinality(dirs \ {bdir[p]}) <= RetentionCount
                            /\ \A t \in dirs \ {bdir[p]} : t >= cutoff[p]
                      /\ pc[p] = "ageSessions" =>
                            Cardinality(DOMAIN files) <= RetentionCount
  BY DEF RetentionBounds
<1>2. Bounded(p) /\ items[p] \in SUBSET Time /\ hist[p] \in SUBSET Time
  BY DEF RetentionInv, TypeOK
<1>3. CASE pc[p] = "trimSessions"
  <2>1. None \notin dirs
    <3>1. \A t \in dirs : t \in Int
      BY DEF TypeOK, Time
    <3>2. QED
      BY <3>1, NoneAssumption
  <2>2. dirs \ {bdir[p]} \subseteq items[p]
    BY <1>1, <1>2, <1>3, <2>1 DEF Bounded, DirsListed, BackupDir
  <2>3. ~TooMany(items[p]) /\ \A t \in items[p] : t >= cutoff[p]
    BY <1>2, <1>3 DEF Bounded
  <2>4. Cardinality(dirs \ {bdir[p]}) <= RetentionCount
    BY <1>2, <2>2, <2>3, PartIsNotTooMany
  <2>5. QED
    BY <1>3, <2>2, <2>3, <2>4
<1>4. CASE pc[p] = "ageSessions"
  <2>1. DOMAIN files \subseteq hist[p] /\ ~TooMany(hist[p])
    BY <1>2, <1>4 DEF Bounded
  <2>2. Cardinality(DOMAIN files) <= RetentionCount
    BY <1>2, <2>1, PartIsNotTooMany
  <2>3. QED
    BY <1>4, <2>2
<1>5. QED
  BY <1>3, <1>4

\* The retention of a recorded run leaves no more than it should, whatever was
\* left behind by runs before it.
THEOREM RetentionIsBounded ==
    ASSUME RemovalsWork
    PROVE  Spec => []RetentionBounds
<1>1. SessionInv /\ RetentionInv /\ [Next]_vars => RetentionInv'
  BY RetentionNext
<1>2. SessionInv /\ RetentionInv => RetentionBounds
  BY BoundsFollow DEF SessionInv
<1>3. QED
  BY <1>1, <1>2, RetentionInit, SessionsHold, PTL DEF Spec

-----------------------------------------------------------------------------
\* What a process knows of the last success is what backup_job.state says, or
\* something later.
KnowsSuccess(p) ==
    pc[p] # "idle" /\ conf.success # None
    => job[p].success # None /\ job[p].success >= conf.success

SuccessInv == \A p \in Runs : KnowsSuccess(p)

\* Whatever its outcome, a session moves the last success forward only.
LEMMA LaterSuccess ==
    ASSUME NEW j \in JobState, NEW d \in Time, NEW b \in BOOLEAN
    PROVE  j.success # None =>
              /\ ItemChanged(j, d, b).success # None
              /\ ItemChanged(j, d, b).success >= j.success
<1>1. d \in Int /\ d # None
  BY NoneAssumption DEF Time
<1>2. j.success # None => j.success \in Int
  BY DEF JobState, TimeOrNone, Time
<1>3. CASE b /\ Later(j.success, d)
  BY <1>1, <1>2, <1>3 DEF ItemChanged, Later, JobState
<1>4. CASE ~(b /\ Later(j.success, d))
  BY <1>2, <1>4 DEF ItemChanged, JobState
<1>5. QED
  BY <1>3, <1>4

LEMMA SuccessInit == Init => SuccessInv
  BY DEF Init, SuccessInv, KnowsSuccess

\* A step of the only run keeps what it knows, and writes nothing earlier.
LEMMA SuccessNext ==
    ASSUME OneAtATime, SessionInv, SuccessInv, [Next]_vars
    PROVE  /\ SuccessInv'
           /\ conf'.success # conf.success /\ conf.success # None =>
                 LET t == IF conf'.success # None THEN {conf'.success}
                          ELSE {job[p].success : p \in {q \in Runs : pc[q] # pc'[q]}}
                 IN  \E u \in t : u # None /\ u >= conf.success
<1>1. TypeOK /\ TypeOK'
  BY SessionNext DEF SessionInv
<1>2. ASSUME UNCHANGED <<conf, pc, job>>
      PROVE  SuccessInv'
  BY <1>2 DEF SuccessInv, KnowsSuccess
<1>3. ASSUME NEW p \in Runs, KnowsSuccess(p)'
      PROVE  SuccessInv'
  BY <1>3 DEF OneAtATime, SuccessInv
<1>4. CASE UNCHANGED <<conf, pc, job>>
  BY <1>2, <1>4
<1>5. ASSUME NEW p \in Runs, NEW o \in Ops, Start(p, o)
      PROVE  SuccessInv' /\ conf' = conf
  <2>1. conf' = conf /\ now \in Time /\ conf \in JobState
    BY <1>1, <1>5 DEF Start, TypeOK
  <2>2. job'[p] = conf \/ job'[p] = ItemChanged(conf, now, FALSE)
    BY <1>1, <1>5 DEF Start, StartRecorded, StartTemporary, TypeOK
  <2>3. conf.success # None => conf.success >= conf.success
    BY <2>1 DEF JobState, TimeOrNone, Time
  <2>4. KnowsSuccess(p)'
    BY <2>1, <2>2, <2>3, LaterSuccess DEF KnowsSuccess
  <2>5. QED
    BY <1>3, <2>1, <2>4
<1>6. ASSUME NEW p \in Runs, Finish(p)
      PROVE  SuccessInv' /\ conf' = conf
  <2>1. /\ conf' = conf /\ pc[p] = "finish"
        /\ \/ job'[p] = job[p]
           \/ job'[p] = ItemChanged(job[p], date[p], ok[p])
    BY <1>1, <1>6 DEF Finish, TypeOK
  <2>2. date[p] \in Time /\ ok[p] \in BOOLEAN /\ job[p] \in JobState
    BY <1>1, <2>1 DEF SessionInv, HasDate, TypeOK, TimeOrNone
  <2>3. /\ job[p].success # None => job[p].success \in Int
        /\ conf.success # None => conf.success \in Int
        /\ job'[p].success # None => job'[p].success \in Int
    BY <1>1 DEF TypeOK, JobState, TimeOrNone, Time
  <2>4. KnowsSuccess(p)
    BY DEF SuccessInv
  <2>5. KnowsSuccess(p)'
    BY <2>1, <2>2, <2>3, <2>4, LaterSuccess DEF KnowsSuccess
  <2>6. QED
    BY <1>3, <2>1, <2>5
<1>7. ASSUME NEW p \in Runs, job' = job, pc[p] # "idle",
             conf' = conf \/ conf' = job[p]
      PROVE  /\ SuccessInv'
             /\ conf'.success # conf.success /\ conf.success # None =>
                   conf'.success # None /\ conf'.success >= conf.success
  <2>1. KnowsSuccess(p)
    BY DEF SuccessInv
  <2>2. job[p].success # None => job[p].success >= job[p].success
    BY <1>1 DEF TypeOK, JobState, TimeOrNone, Time
  <2>3. KnowsSuccess(p)'
    BY <1>7, <2>1, <2>2 DEF KnowsSuccess
  <2>4. QED
    BY <1>3, <1>7, <2>1, <2>3 DEF KnowsSuccess
<1>8. ASSUME NEW p \in Runs, Forget(p)
      PROVE  SuccessInv' /\ pc'[p] = "idle"
  <2>1. pc'[p] = "idle"
    BY <1>1, <1>8 DEF Forget, TypeOK
  <2>2. QED
    BY <1>3, <2>1 DEF KnowsSuccess
<1>9. ASSUME NEW p \in Runs, Continue(p)
      PROVE  /\ SuccessInv'
             /\ conf'.success # conf.success /\ conf.success # None =>
                   conf'.success # None /\ conf'.success >= conf.success
  <2>1. CASE Finish(p)
    BY <1>6, <2>1
  <2>2. CASE Cleanup(p)
    <3>1. conf' = conf \/ conf' = job[p]
      BY <2>2 DEF Cleanup, WriteConf
    <3>2. KnowsSuccess(p) /\ pc[p] # "idle"
      BY <2>2 DEF Cleanup, SuccessInv
    <3>3. QED
      BY <1>8, <2>2, <3>1, <3>2 DEF Cleanup, KnowsSuccess
  <2>3. CASE SaveJob(p)
    <3>1. job' = job /\ pc[p] # "idle" /\ (conf' = conf \/ conf' = job[p])
      BY <2>3 DEF SaveJob, WriteConf
    <3>2. QED
      BY <1>7, <3>1
  <2>4. CASE TrimSessions(p) \/ ExpireSessions(p)
    <3>1. conf' = conf /\ pc[p] # "idle"
      BY <2>4 DEF TrimSessions, ExpireSessions, KeepBackups, RemoveSession,
                  UnlinkRaises, disk
    <3>2. job' = job \/ Forget(p)
      BY <2>4 DEF TrimSessions, ExpireSessions, KeepBackups, RemoveSession,
                  UnlinkRaises
    <3>3. QED
      BY <1>7, <1>8, <3>1, <3>2
  <2>5. CASE TrimBackups(p) \/ ExpireBackups(p)
    <3>1. conf' = conf /\ pc[p] # "idle" /\ job' = job
      BY <2>5 DEF TrimBackups, ExpireBackups, KeepBackups, RemoveBackup, disk
    <3>2. QED
      BY <1>7, <3>1
  <2>6. CASE Prepare(p) \/ Load(p) \/ Plugins(p) \/ DoRsync(p) \/ Shutdown(p)
    <3>1. conf' = conf /\ pc[p] # "idle" /\ job' = job
      BY <2>6 DEF Prepare, Load, Plugins, DoRsync, Shutdown, disk
    <3>2. QED
      BY <1>7, <3>1
  <2>7. QED
    BY <1>9, <2>1, <2>2, <2>3, <2>4, <2>5, <2>6 DEF Continue
<1>10. ASSUME NEW p \in Runs, Crash(p)
       PROVE  /\ SuccessInv'
              /\ conf.success # None /\ conf' # conf =>
                    /\ pc[p] # pc'[p] /\ conf' = NoJob
                    /\ job[p].success # None /\ job[p].success >= conf.success
  <2>1. SuccessInv' /\ pc[p] # "idle" /\ pc'[p] = "idle"
    BY <1>8, <1>10 DEF Crash
  <2>2. conf' = conf \/ conf' = NoJob
    BY <1>10 DEF Crash
  <2>3. KnowsSuccess(p)
    BY DEF SuccessInv
  <2>4. QED
    BY <2>1, <2>2, <2>3 DEF KnowsSuccess
<1>11. CASE \E p \in Runs : Crash(p)
  BY <1>10, <1>11 DEF NoJob
<1>12. CASE \E p \in Runs : Continue(p)
  BY <1>9, <1>12
<1>13. CASE Tick \/ UNCHANGED vars
  BY <1>4, <1>13 DEF Tick, vars, disk, mem
<1>14. CASE \E p \in Runs : \E o \in Ops : Start(p, o)
  BY <1>5, <1>14
<1>15. QED
  BY <1>11, <1>12, <1>13, <1>14 DEF Next

\* With one process at a time the last success in backup_job.state goes forward
\* only, and what a crash loses was about to be replaced by nothing earlier.
THEOREM SuccessAdvances ==
    ASSUME OneAtATime
    PROVE  Spec => LastSuccessAdvances
<1>1. SessionInv /\ SuccessInv /\ [Next]_vars => SuccessInv'
  BY SuccessNext
<1>2. Spec => []SuccessInv
  BY <1>1, SuccessInit, SessionsHold, PTL DEF Spec
<1>3. ASSUME SessionInv, SuccessInv, [Next]_vars
      PROVE  [ conf'.success # conf.success /\ conf.success # None =>
            LET t == IF conf'.success # None THEN {conf'.success}
                     ELSE {job[p].success : p \in {q \in Runs : pc[q] # pc'[q]}}
            IN  \E u \in t : u # None /\ u >= conf.success ]_vars
  BY <1>3, SuccessNext
<1>4. QED
  BY <1>2, <1>3, SessionsHold, PTL DEF Spec, LastSuccessAdvances
=============================================================================
