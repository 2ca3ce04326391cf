----------------------- MODULE BackupSurvivalProofs -----------------------
(***************************************************************************)
(* A run that records its success leaves a complete backup, proved for any *)
(* retention count but zero, any retention time and any bound of the       *)
(* clock, when one process runs at a time, the state files can be written, *)
(* the plugins deliver and no run is a dry run.  Crashes, failures of      *)
(* rsync, of the destination, of the listing and of removals are allowed.  *)
(***************************************************************************)
EXTENDS BackupRunProofs, FiniteSetTheorems

OneAtATime == \A p, q \in Runs : p = q
Reliable == /\ OneAtATime
            /\ Faults \intersect {"statefile", "plugin"} = {}
            /\ Ops \subseteq {"backup", "cleanup"}
            /\ RetentionCount # 0

\* The only element of a set is not one of too many.
LEMMA AloneIsNotTooMany ==
    ASSUME RetentionCount # 0, NEW S, NEW t, S = {t}
    PROVE  ~TooMany(S)
<1>1. Cardinality(S) = 1
  BY FS_Singleton
<1>2. QED
  BY <1>1, RetentionAssumption DEF TooMany

LEMMA SurvivalInit == Init => SurvivalInv
  BY DEF Init, SurvivalInv, NewestDir, KeptBackup, IsShort

\* A step of the only run keeps the invariant if it keeps the run's part.
LEMMA SurvivalNext ==
    ASSUME Reliable, SessionInv, SurvivalInv, [Next]_vars
    PROVE  SurvivalInv'
<1>1. TypeOK /\ TypeOK' /\ now \in Int /\ RetentionTime \in Int
  BY SessionNext, RetentionAssumption DEF SessionInv, TypeOK, Time
<1>2. CASE UNCHANGED vars
  BY <1>2 DEF vars, SurvivalInv, NewestDir, KeptBackup, IsShort, Recorded
<1>3. CASE Tick
  <2>1. /\ now' = now + 1
        /\ UNCHANGED <<dirs, complete, unread, covered, op, pc, cutoff, bdir,
                       items, ok, date>>
    BY <1>3 DEF Tick, disk, mem
  <2>2. \A t \in dirs : t \in Int
    BY <1>1 DEF TypeOK, Time
  <2>3. \A p \in Runs : cutoff[p] \in Int
    BY <1>1 DEF TypeOK
  <2>4. \A p \in Runs : bdir[p] # None => bdir[p] \in Int
    BY <1>1 DEF TypeOK, Time, TimeOrNone
  <2>5. \A t \in dirs' : t <= now'
    BY <1>1, <2>1, <2>2 DEF SurvivalInv
  <2>6. ASSUME NEW p \in Runs
        PROVE  NewestDir(p)' /\ (Recorded(p)' => KeptBackup(p)')
    BY <1>1, <2>1, <2>4
       DEF SurvivalInv, NewestDir, KeptBackup, IsShort, Recorded
  <2>7. ASSUME NEW p \in Runs, pc[p] \in {"ageDirs", "trimSessions"}
        PROVE  cutoff[p] <= now' - RetentionTime
    BY <1>1, <2>1, <2>3, <2>7 DEF SurvivalInv
  <2>8. QED
    BY <2>1, <2>5, <2>6, <2>7 DEF SurvivalInv
<1>4. ASSUME NEW p \in Runs, NEW o \in Ops, Start(p, o)
      PROVE  SurvivalInv'
  <2>1. UNCHANGED <<now, dirs, complete, bdir, covered, items, cutoff, ok>>
    BY <1>4 DEF Start, list
  <2>2. pc'[p] = "prepare" /\ op'[p] # "dryrun"
    BY <1>1, <1>4 DEF Start, Goto, TypeOK, Reliable
  <2>3. UNCHANGED unread
    BY <1>4 DEF Start, StartRecorded, StartTemporary, Reliable
  <2>4. \A q \in Runs : q = p
    BY DEF Reliable, OneAtATime
  <2>5. items'[p] = {}
    BY <1>4, <2>1 DEF Start, SurvivalInv
  <2>6. NewestDir(p)'
    BY <2>1 DEF SurvivalInv, NewestDir
  <2>7. KeptBackup(p)'
    BY <2>2 DEF KeptBackup
  <2>8. QED
    BY <2>1, <2>2, <2>3, <2>4, <2>5, <2>6, <2>7 DEF SurvivalInv
<1>5. ASSUME NEW p \in Runs, Continue(p) \/ Crash(p)
      PROVE  SurvivalInv'
  <2>1. ASSUME \A t \in dirs' : t <= now',
               ~unread'[p], covered'[p], op'[p] # "dryrun",
               pc'[p] \in {"ageDirs", "trimSessions"} =>
                  cutoff'[p] <= now' - RetentionTime,
               pc'[p] \in {"idle", "prepare", "load"} => items'[p] = {},
               NewestDir(p)', Recorded(p)' => KeptBackup(p)'
        PROVE  SurvivalInv'
    BY <2>1 DEF Reliable, OneAtATime, SurvivalInv
  <2>2. /\ \A t \in dirs : t <= now
        /\ ~unread[p] /\ covered[p] /\ op[p] # "dryrun"
        /\ pc[p] \in {"ageDirs", "trimSessions"} =>
              cutoff[p] <= now - RetentionTime
        /\ pc[p] \in {"idle", "prepare", "load"} => items[p] = {}
        /\ NewestDir(p)
        /\ Recorded(p) => KeptBackup(p)
    BY DEF SurvivalInv
  <2>3. HasDate(p) /\ EarlierOnly(p)
    BY DEF SessionInv
  <2>4. BackupDir(p) = bdir[p]
    BY <2>2 DEF BackupDir
  <2>5. /\ bdir[p] # None => bdir[p] \in Int
        /\ date[p] # None => date[p] \in Int
        /\ cutoff[p] \in Int
        /\ \A t \in dirs \union items[p] : t \in Int
    BY <1>1 DEF TypeOK, Time, TimeOrNone
  <2>6. bdir[p] \in complete => bdir[p] # None
    <3>1. complete \subseteq Time
      BY <1>1 DEF TypeOK
    <3>2. \A t \in Time : t # None
      BY ClockAssumption, NoneAssumption DEF Time
    <3>3. QED
      BY <3>1, <3>2
  <2>7. ASSUME Forget(p), now' = now, dirs' \subseteq dirs
        PROVE  SurvivalInv'
    <3>1. /\ pc'[p] = "idle" /\ ~unread'[p] /\ covered'[p]
          /\ op'[p] = "backup" /\ bdir'[p] = None /\ items'[p] = {}
      BY <1>1, <2>7 DEF Forget, TypeOK
    <3>2. QED
      BY <2>1, <2>2, <2>7, <3>1 DEF NewestDir, KeptBackup
  <2>8. CASE Prepare(p)
    <3>1. /\ now' = now
          /\ UNCHANGED <<complete, unread, covered, op, cutoff, items, date>>
      BY <2>8 DEF Prepare, list
    <3>2. \/ MakeBackupDir(p) /\ pc'[p] = "load"
          \/ /\ ~ok'[p]
             /\ pc'[p] = IF Recorded(p) THEN "shutdown" ELSE "trimDirs"
             /\ MakeBackupDir(p) \/ UNCHANGED <<dirs, bdir>>
      BY <1>1, <2>8 DEF Prepare, Goto, TypeOK
    <3>3. items[p] = {}
      BY <2>2, <2>8 DEF Prepare
    <3>4. CASE MakeBackupDir(p)
      <4>1. dirs' = dirs \union {now} /\ bdir'[p] = now /\ now # None
        BY <1>1, <3>4, NoneAssumption DEF MakeBackupDir, TypeOK
      <4>2. NewestDir(p)' /\ \A t \in dirs' : t <= now'
        BY <1>1, <2>2, <3>1, <3>3, <4>1 DEF NewestDir
      <4>3. Recorded(p)' => KeptBackup(p)'
        BY <3>1, <3>2, <4>1 DEF KeptBackup
      <4>4. QED
        BY <2>1, <2>2, <3>1, <3>2, <3>3, <4>2, <4>3
    <3>5. CASE UNCHANGED <<dirs, bdir>> /\ ~ok'[p] /\ pc'[p] # "load"
      <4>1. NewestDir(p)' /\ \A t \in dirs' : t <= now'
        BY <2>2, <3>1, <3>5 DEF NewestDir
      <4>2. Recorded(p)' => KeptBackup(p)'
        BY <3>1, <3>2, <3>5 DEF KeptBackup
      <4>3. QED
        BY <2>1, <2>2, <3>1, <3>2, <3>3, <4>1, <4>2
    <3>6. QED
      BY <3>2, <3>4, <3>5
  <2>9. CASE Load(p)
    <3>1. /\ now' = now
          /\ UNCHANGED <<dirs, complete, unread, covered, op, cutoff, bdir, date>>
          /\ pc[p] = "load"
          /\ pc'[p] = IF Recorded(p) THEN "plugins" ELSE "trimDirs"
      BY <1>1, <2>9 DEF Load, Goto, disk, session, TypeOK
    <3>2. items'[p] \subseteq dirs
      BY <1>1, <2>2, <2>9 DEF Load, Listed, list, TypeOK
    <3>3. NewestDir(p)' /\ \A t \in dirs' : t <= now'
      BY <2>2, <3>1, <3>2 DEF NewestDir
    <3>4. Recorded(p)' => KeptBackup(p)'
      BY <2>2, <3>1 DEF KeptBackup, Recorded
    <3>5. QED
      BY <2>1, <2>2, <3>1, <3>3, <3>4
  <2>10. CASE Plugins(p)
    <3>1. /\ now' = now
          /\ UNCHANGED <<dirs, complete, unread, op, cutoff, bdir, date, items>>
          /\ pc[p] = "plugins" /\ pc'[p] = "rsync" /\ covered'[p]
      BY <1>1, <2>10 DEF Plugins, Goto, disk, session, list, TypeOK, Reliable
    <3>2. NewestDir(p)' /\ \A t \in dirs' : t <= now'
      BY <2>2, <3>1 DEF NewestDir
    <3>3. Recorded(p)' => KeptBackup(p)'
      BY <2>2, <3>1 DEF KeptBackup, Recorded
    <3>4. QED
      BY <2>1, <2>2, <3>1, <3>2, <3>3
  <2>11. CASE DoRsync(p)
    <3>1. pc[p] = "rsync" /\ Recorded(p) /\ bdir[p] # None
      BY <2>2, <2>3, <2>11 DEF DoRsync, HasDate, KeptBackup
    <3>2. op[p] # "dryrun" /\ BackupDir(p) # None
      BY <2>2, <2>4, <3>1
    <3>3. RsyncDone(p) \/ RsyncFailed(p)
      BY <2>11, <3>2 DEF DoRsync, RsyncNothing, RsyncDry
    <3>4. /\ now' = now /\ pc'[p] = "trimDirs"
          /\ UNCHANGED <<covered, op, cutoff, date, items>>
          /\ bdir'[p] = bdir[p] /\ ~unread'[p]
      BY <1>1, <2>4, <2>11 DEF DoRsync, Goto, list, TypeOK
    <3>5. dirs' \subseteq dirs \union {bdir[p]}
      BY <3>3 DEF RsyncDone, RsyncFailed
    <3>6. ok'[p] => bdir[p] \in complete'
      BY <1>1, <2>2, <3>3 DEF RsyncDone, RsyncFailed, TypeOK
    <3>7. NewestDir(p)' /\ \A t \in dirs' : t <= now'
      BY <2>2, <2>5, <3>1, <3>4, <3>5 DEF NewestDir
    <3>8. KeptBackup(p)'
      BY <3>4, <3>6 DEF KeptBackup
    <3>9. QED
      BY <2>1, <2>2, <3>4, <3>7, <3>8
  <2>12. ASSUME NEW t \in items[p], RemoveBackup(p, t),
                UNCHANGED <<pc, cutoff>>,
                pc[p] \in {"trimDirs", "ageDirs"},
                /\ Recorded(p) /\ ok[p] /\ bdir[p] \in complete
                /\ pc[p] = "ageDirs" => IsShort(p)
                => t # bdir[p]
         PROVE  SurvivalInv'
    <3>1. /\ now' = now /\ dirs' \subseteq dirs
          /\ UNCHANGED <<unread, covered, op, bdir, date, ok>>
          /\ items'[p] \subseteq items[p]
          /\ complete' = complete \ {t}
      BY <1>1, <2>12 DEF RemoveBackup, session, TypeOK
    <3>2. NewestDir(p)' /\ \A u \in dirs' : u <= now'
      BY <2>2, <3>1 DEF NewestDir
    <3>3. Recorded(p)' => KeptBackup(p)'
      BY <2>2, <2>12, <3>1 DEF KeptBackup, Recorded, IsShort
    <3>4. QED
      BY <2>1, <2>2, <2>12, <3>1, <3>2, <3>3
  <2>13. ASSUME UNCHANGED <<now, dirs, complete, unread, covered, op, bdir,
                            date, items>>,
                pc'[p] \notin {"idle", "prepare", "load", "plugins", "rsync",
                               "trimDirs"},
                ok'[p] => ok[p],
                /\ Recorded(p) /\ ok[p] /\ IsShort(p)'
                /\ pc'[p] # "cleanup"
                => bdir[p] \in complete,
                pc'[p] \in {"ageDirs", "trimSessions"} =>
                   cutoff'[p] <= now - RetentionTime
         PROVE  SurvivalInv'
    <3>1. NewestDir(p)' /\ \A u \in dirs' : u <= now'
      BY <2>2, <2>13 DEF NewestDir
    <3>2. Recorded(p)' => KeptBackup(p)'
      BY <2>13 DEF KeptBackup, Recorded
    <3>3. QED
      BY <2>1, <2>2, <2>13, <3>1, <3>2
  <2>14. CASE TrimBackups(p)
    <3>1. ASSUME NEW t \in items[p], IsOldest(t, items[p]), TooMany(items[p]),
                 bdir[p] \in complete
          PROVE  t # bdir[p]
      <4>1. SUFFICES ASSUME t = bdir[p] PROVE FALSE
        OBVIOUS
      <4>2. \A u \in items[p] : u = t
        BY <2>2, <2>5, <2>6, <3>1, <4>1 DEF NewestDir, IsOldest
      <4>3. items[p] = {t}
        BY <4>2
      <4>4. QED
        BY <3>1, <4>3, AloneIsNotTooMany DEF Reliable
    <3>2. CASE /\ cutoff' = [cutoff EXCEPT ![p] = now - RetentionTime]
               /\ Goto(p, "ageDirs")
               /\ KeepBackups
      <4>1. cutoff'[p] = now - RetentionTime /\ pc'[p] = "ageDirs"
        BY <1>1, <3>2 DEF Goto, TypeOK
      <4>2. Recorded(p) /\ ok[p] => bdir[p] \in complete
        BY <2>2, <2>14 DEF TrimBackups, KeptBackup
      <4>3. QED
        BY <1>1, <2>13, <3>2, <4>1, <4>2 DEF KeepBackups, disk, session, list
    <3>3. QED
      BY <2>12, <2>14, <3>1, <3>2 DEF TrimBackups
  <2>15. CASE ExpireBackups(p)
    <3>1. ASSUME NEW t \in items[p], Expired(p, t, items[p]), Recorded(p),
                 bdir[p] \in complete, IsShort(p)
          PROVE  t # bdir[p]
      <4>1. date[p] # None
        BY <2>3, <2>15, <3>1 DEF HasDate, ExpireBackups
      <4>2. QED
        BY <2>3, <2>5, <2>6, <3>1, <4>1 DEF EarlierOnly, Expired, IsShort
    <3>2. CASE Goto(p, "trimSessions") /\ KeepBackups /\ UNCHANGED cutoff
      <4>1. pc'[p] = "trimSessions" /\ pc[p] = "ageDirs"
        BY <1>1, <2>15, <3>2 DEF ExpireBackups, Goto, TypeOK
      <4>2. Recorded(p) /\ ok[p] /\ IsShort(p) => bdir[p] \in complete
        BY <2>2, <4>1 DEF KeptBackup
      <4>3. QED
        BY <2>2, <2>13, <3>2, <4>1, <4>2
           DEF KeepBackups, disk, session, list, IsShort
    <3>3. CASE /\ \E t \in items[p] : Expired(p, t, items[p]) /\ RemoveBackup(p, t)
               /\ UNCHANGED <<pc, cutoff>>
      BY <2>12, <2>15, <3>1, <3>3 DEF ExpireBackups
    <3>4. QED
      BY <2>15, <3>2, <3>3 DEF ExpireBackups
  <2>16. CASE TrimSessions(p) \/ ExpireSessions(p)
    <3>1. /\ pc[p] \in {"trimSessions", "ageSessions"}
          /\ Recorded(p) /\ ok[p] /\ IsShort(p) => bdir[p] \in complete
      BY <2>2, <2>16 DEF TrimSessions, ExpireSessions, KeptBackup
    <3>2. ASSUME NEW d \in hist[p], UnlinkRaises(p, d)
          PROVE  SurvivalInv'
      BY <2>7, <3>2 DEF UnlinkRaises, disk
    <3>3. ASSUME NEW d \in hist[p], RemoveSession(p, d), UNCHANGED <<pc, cutoff>>
          PROVE  SurvivalInv'
      BY <2>2, <2>13, <3>1, <3>3 DEF RemoveSession, session, list, IsShort
    <3>4. ASSUME KeepBackups, Goto(p, "ageSessions"), pc[p] = "trimSessions",
                 cutoff' = [cutoff EXCEPT ![p] = now - RetentionTime]
          PROVE  SurvivalInv'
      <4>1. cutoff'[p] = now - RetentionTime /\ pc'[p] = "ageSessions"
        BY <1>1, <3>4 DEF Goto, TypeOK
      <4>2. date' = date /\ cutoff[p] <= cutoff'[p]
        BY <2>2, <3>4, <4>1 DEF KeepBackups, session
      <4>3. Recorded(p) => date[p] \in Int
        BY <2>3, <2>5, <3>4 DEF HasDate
      <4>4. Recorded(p) /\ IsShort(p)' => IsShort(p)
        BY <1>1, <2>5, <4>1, <4>2, <4>3 DEF IsShort
      <4>5. QED
        BY <2>13, <3>1, <3>4, <4>1, <4>4 DEF KeepBackups, disk, session, list
    <3>5. ASSUME KeepBackups, Goto(p, "shutdown"), UNCHANGED cutoff
          PROVE  SurvivalInv'
      <4>1. pc'[p] = "shutdown"
        BY <1>1, <3>5 DEF Goto, TypeOK
      <4>2. QED
        BY <2>13, <3>1, <3>5, <4>1
           DEF KeepBackups, disk, session, list, IsShort
    <3>6. QED
      BY <2>16, <3>2, <3>3, <3>4, <3>5 DEF TrimSessions, ExpireSessions
  <2>17. CASE Shutdown(p) \/ Finish(p) \/ SaveJob(p)
    <3>1. /\ UNCHANGED <<now, dirs, complete, unread, covered, op, bdir, date,
                         items, cutoff>>
          /\ pc'[p] \in {"finish", "cleanup", "saveJob"}
          /\ ok'[p] => ok[p]
      BY <1>1, <2>17
         DEF Shutdown, Finish, SaveJob, Goto, disk, session, list, TypeOK
    <3>2. /\ Recorded(p) /\ ok[p] /\ IsShort(p) => bdir[p] \in complete
      BY <2>2, <2>17 DEF Shutdown, Finish, SaveJob, KeptBackup
    <3>3. QED
      BY <2>13, <3>1, <3>2 DEF IsShort
  <2>18. CASE Cleanup(p) \/ Crash(p)
    BY <2>7, <2>18 DEF Cleanup, Crash
  <2>19. QED
    BY <1>5, <2>8, <2>9, <2>10, <2>11, <2>14, <2>15, <2>16, <2>17, <2>18
       DEF Continue
<1>6. QED
  BY <1>2, <1>3, <1>4, <1>5 DEF Next

\* The backup of the run is the newest and stays complete until it has expired.
THEOREM SurvivalHolds ==
    ASSUME Reliable
    PROVE  Spec => []SurvivalInv
<1>1. SessionInv /\ SurvivalInv /\ [Next]_vars => SurvivalInv'
  BY SurvivalNext
<1>2. QED
  BY <1>1, SurvivalInit, SessionsHold, PTL DEF Spec

\* A run that is about to record its success has a complete backup on disk.
THEOREM SuccessHasBackup ==
    ASSUME Reliable
    PROVE  Spec => []SuccessIsComplete
<1>1. SessionInv /\ SurvivalInv => SuccessIsComplete
  BY DEF SessionInv, HasDate, SurvivalInv, KeptBackup, SuccessIsComplete
<1>2. QED
  BY <1>1, SurvivalHolds, SessionsHold, PTL
=============================================================================
