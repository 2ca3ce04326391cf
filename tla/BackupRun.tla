----------------------------- MODULE BackupRun -----------------------------
(***************************************************************************)
(* One or more runs of arsoft-backup against one backup directory and one  *)
(* state directory.  A run is a process started by cron or by hand; it     *)
(* holds no lock, so two runs may interleave, and it may die anywhere.     *)
(*                                                                         *)
(* The clock has the resolution of the time stamps the program writes (one *)
(* second).  A backup directory is named by its time stamp, a session file *)
(* by the date of its session, so both are numbers here.                   *)
(***************************************************************************)
EXTENDS Integers, FiniteSets

CONSTANTS
    Runs,           \* the processes
    Ops,            \* the operations they are started for
    Faults,         \* what may go wrong, see Fault
    RetentionCount, \* config.retention_count
    RetentionTime,  \* config.retention_time
    MaxTime,        \* bound of the clock
    None            \* Python's None

\* --backup, --backup --dry-run, --cleanup
Op == {"backup", "dryrun", "cleanup"}

Fault == {"crash",      \* the process dies, or an exception leaves main()
          "statefile",  \* a state file cannot be opened for writing
          "destination",\* the destination cannot be prepared or shut down
          "listing",    \* the backup directory cannot be listed
          "plugin",     \* a plugin does not deliver its sources
          "rsync",      \* rsync exits with an error
          "rmtree"}     \* a backup directory cannot be removed

ASSUME OpsAssumption == Ops \subseteq Op
ASSUME FaultsAssumption == Faults \subseteq Fault
ASSUME RetentionAssumption == RetentionCount \in Nat /\ RetentionTime \in Nat
ASSUME ClockAssumption == MaxTime \in Nat \ {0}
ASSUME NoneAssumption == None \notin Int

Time == 1 .. MaxTime
TimeOrNone == Time \union {None}

VARIABLES
    now,        \* datetime.utcnow()
    lastStart,  \* the second of the latest start (the schedule, not the code)
    \* on disk
    dirs,       \* the backup directories
    complete,   \* those that hold everything the configuration selects
    files,      \* date -> contents, for each session file
    conf,       \* backup_job.state
    \* in the memory of each run
    pc, op,
    ok,         \* success in _perform_backup
    date,       \* session.date
    unread,     \* session._require_read
    bdir,       \* session._backup_dir
    covered,    \* every plugin has added its sources
    items,      \* previous_backups._items
    lastFull,   \* previous_backups._last_full
    hist,       \* job_state.history._items
    job,        \* job_state.last_success, last_failure
    dirty,      \* job_state._dirty
    cutoff      \* max_rentention_time

disk == <<dirs, complete, files, conf>>
session == <<date, unread, bdir>>
list == <<items, lastFull>>
mem == <<pc, op, ok, date, unread, bdir, covered, items, lastFull, hist, job,
         dirty, cutoff>>
vars == <<now, lastStart, dirs, complete, files, conf, pc, op, ok, date,
          unread, bdir, covered, items, lastFull, hist, job, dirty, cutoff>>

SessionFile == [success : BOOLEAN, dir : TimeOrNone]
JobState == [success : TimeOrNone, failure : TimeOrNone]
PC == {"idle", "prepare", "load", "plugins", "rsync", "trimDirs", "ageDirs",
       "trimSessions", "ageSessions", "shutdown", "finish", "saveJob",
       "cleanup"}

TypeOK ==
    /\ now \in Time
    /\ lastStart \in 0 .. MaxTime
    /\ dirs \subseteq Time
    /\ complete \subseteq Time
    /\ DOMAIN files \subseteq Time
    /\ \A d \in DOMAIN files : files[d] \in SessionFile
    /\ conf \in JobState
    /\ pc \in [Runs -> PC]
    /\ op \in [Runs -> Op]
    /\ ok \in [Runs -> BOOLEAN]
    /\ date \in [Runs -> TimeOrNone]
    /\ unread \in [Runs -> BOOLEAN]
    /\ bdir \in [Runs -> TimeOrNone]
    /\ covered \in [Runs -> BOOLEAN]
    /\ items \in [Runs -> SUBSET Time]
    /\ lastFull \in [Runs -> TimeOrNone]
    /\ hist \in [Runs -> SUBSET Time]
    /\ job \in [Runs -> JobState]
    /\ dirty \in [Runs -> BOOLEAN]
    /\ cutoff \in [Runs -> Int]

-----------------------------------------------------------------------------
NoJob == [success |-> None, failure |-> None]

\* Wrong: BackupDir is not written when the session starts.
NewFileWithoutDir == [success |-> FALSE]
NewFile == [success |-> FALSE, dir |-> None]

Put(f, d, v) == [x \in DOMAIN f \union {d} |-> IF x = d THEN v ELSE f[x]]
Drop(f, d) == [x \in DOMAIN f \ {d} |-> f[x]]

Init ==
    /\ now = 1
    /\ lastStart = 0
    /\ dirs = {}
    /\ complete = {}
    /\ files = [d \in {} |-> NewFile]
    /\ conf = NoJob
    /\ pc = [p \in Runs |-> "idle"]
    /\ op = [p \in Runs |-> "backup"]
    /\ ok = [p \in Runs |-> TRUE]
    /\ date = [p \in Runs |-> None]
    /\ unread = [p \in Runs |-> FALSE]
    /\ bdir = [p \in Runs |-> None]
    /\ covered = [p \in Runs |-> TRUE]
    /\ items = [p \in Runs |-> {}]
    /\ lastFull = [p \in Runs |-> None]
    /\ hist = [p \in Runs |-> {}]
    /\ job = [p \in Runs |-> NoJob]
    /\ dirty = [p \in Runs |-> FALSE]
    /\ cutoff = [p \in Runs |-> 0]

\* The process is gone and its memory with it.
Forget(p) ==
    /\ pc' = [pc EXCEPT ![p] = "idle"]
    /\ op' = [op EXCEPT ![p] = "backup"]
    /\ ok' = [ok EXCEPT ![p] = TRUE]
    /\ date' = [date EXCEPT ![p] = None]
    /\ unread' = [unread EXCEPT ![p] = FALSE]
    /\ bdir' = [bdir EXCEPT ![p] = None]
    /\ covered' = [covered EXCEPT ![p] = TRUE]
    /\ items' = [items EXCEPT ![p] = {}]
    /\ lastFull' = [lastFull EXCEPT ![p] = None]
    /\ hist' = [hist EXCEPT ![p] = {}]
    /\ job' = [job EXCEPT ![p] = NoJob]
    /\ dirty' = [dirty EXCEPT ![p] = FALSE]
    /\ cutoff' = [cutoff EXCEPT ![p] = 0]

Goto(p, label) == pc' = [pc EXCEPT ![p] = label]

\* op says whether the session is kept in the history or is a temporary one.
Recorded(p) == op[p] # "cleanup"

-----------------------------------------------------------------------------
(***************************************************************************)
(* Starting: reinitialize() reads backup_job.state and lists the session   *)
(* files, start_session() creates the session.  At most one recorded       *)
(* session starts in a second: two would share the session file.           *)
(***************************************************************************)
Later(d, e) == d = None \/ e > d

\* Wrong: the outcome of the session is not looked at.
ItemChangedBlindly(j, d, success) ==
    IF Later(j.success, d) THEN [j EXCEPT !.success = d] ELSE j

\* BackupJobState._item_changed: what becomes of the two dates in memory.
ItemChanged(j, d, success) ==
    IF success
    THEN IF Later(j.success, d) THEN [j EXCEPT !.success = d] ELSE j
    ELSE IF Later(j.failure, d) THEN [j EXCEPT !.failure = d] ELSE j

\* The job state read here is not dirty yet, so it is not saved.
StartRecorded(p, o) ==
    /\ o \in {"backup", "dryrun"}
    /\ now > lastStart
    /\ lastStart' = now
    /\ date' = [date EXCEPT ![p] = now]
    /\ hist' = [hist EXCEPT ![p] = DOMAIN files \union {now}]
    /\ dirty' = [dirty EXCEPT ![p] = TRUE]
    /\ \/ /\ files' = Put(files, now, NewFile)
          /\ job' = [job EXCEPT ![p] = ItemChanged(conf, now, FALSE)]
          /\ UNCHANGED unread
       \/ /\ "statefile" \in Faults
          /\ job' = [job EXCEPT ![p] = conf]
          /\ unread' = [unread EXCEPT ![p] = TRUE]
          /\ UNCHANGED files

\* Wrong: the job state is not read for an operation that records nothing.
StartTemporaryUnread(p, o) ==
    /\ o = "cleanup"
    /\ hist' = [hist EXCEPT ![p] = DOMAIN files]
    /\ job' = [job EXCEPT ![p] = NoJob]
    /\ UNCHANGED <<lastStart, date, dirty, unread, files>>

StartTemporary(p, o) ==
    /\ o = "cleanup"
    /\ hist' = [hist EXCEPT ![p] = DOMAIN files]
    /\ job' = [job EXCEPT ![p] = conf]
    /\ UNCHANGED <<lastStart, date, dirty, unread, files>>

Start(p, o) ==
    /\ pc[p] = "idle"
    /\ op' = [op EXCEPT ![p] = o]
    /\ StartRecorded(p, o) \/ StartTemporary(p, o)
    /\ Goto(p, "prepare")
    /\ UNCHANGED <<now, dirs, complete, conf, ok, bdir, covered, list, cutoff>>

(***************************************************************************)
(* prepare_destination(True).  The directory is named after a second       *)
(* reading of the clock.  A failure may come after the directory was made  *)
(* (the intermediate directory cannot be created).                         *)
(***************************************************************************)
MakeBackupDir(p) ==
    /\ dirs' = dirs \union {now}
    /\ bdir' = [bdir EXCEPT ![p] = now]

Prepare(p) ==
    /\ pc[p] = "prepare"
    /\ \/ /\ MakeBackupDir(p)
          /\ Goto(p, "load")
          /\ UNCHANGED ok
       \/ /\ "destination" \in Faults
          /\ MakeBackupDir(p) \/ UNCHANGED <<dirs, bdir>>
          /\ ok' = [ok EXCEPT ![p] = FALSE]
          /\ Goto(p, IF Recorded(p) THEN "shutdown" ELSE "trimDirs")
    /\ UNCHANGED <<now, lastStart, complete, files, conf, op, date, unread,
                   covered, list, hist, job, dirty, cutoff>>

(***************************************************************************)
(* BackupList.load                                                         *)
(***************************************************************************)
\* What the getter BackupJobHistoryItem.backup_dir returns for the session
\* of the run: while the session file has not been read it is read first,
\* and there is none.
BackupDir(p) == IF unread[p] THEN None ELSE bdir[p]

\* The backup directory the session of date t names: the run's own session is
\* the object in memory, the others are read from their files.
DirOf(p, t) == IF t = date[p] THEN BackupDir(p)
               ELSE IF t \in DOMAIN files THEN files[t].dir ELSE None

\* find_session(t, <the directory t>) is not None
HasSession(p, t) == t \in hist[p] /\ DirOf(p, t) = t

\* Wrong: the directory of the current session is a previous backup.
ListedAll(p) == dirs

\* A directory is skipped if its session is the current one.
Listed(p) == {t \in dirs : ~(HasSession(p, t) /\ t = date[p])}

IsNewest(t, S) == t \in S /\ \A u \in S : u <= t
IsOldest(t, S) == t \in S /\ \A u \in S : t <= u

\* "pick the latest/last backup from the list"
LastFull(p, t) ==
    LET linked == {u \in Listed(p) : HasSession(p, u)}
    IN  IF linked = {} THEN t = None ELSE IsNewest(t, linked)

Load(p) ==
    /\ pc[p] = "load"
    /\ \/ /\ items' = [items EXCEPT ![p] = Listed(p)]
          /\ \E t \in TimeOrNone :
                /\ LastFull(p, t)
                /\ lastFull' = [lastFull EXCEPT ![p] = t]
          /\ UNCHANGED ok
       \/ /\ "listing" \in Faults
          /\ ok' = [ok EXCEPT ![p] = FALSE]
          /\ UNCHANGED list
    /\ Goto(p, IF Recorded(p) THEN "plugins" ELSE "trimDirs")
    /\ UNCHANGED <<now, lastStart, disk, op, session, covered, hist, job,
                   dirty, cutoff>>

(***************************************************************************)
(* The plugins add their sources; what they return is ignored.             *)
(***************************************************************************)
Plugins(p) ==
    /\ pc[p] = "plugins"
    /\ \E all \in {TRUE} \union (IF "plugin" \in Faults THEN {FALSE} ELSE {}) :
          covered' = [covered EXCEPT ![p] = all]
    /\ Goto(p, "rsync")
    /\ UNCHANGED <<now, lastStart, disk, op, ok, session, list, hist, job,
                   dirty, cutoff>>

(***************************************************************************)
(* _do_rsync.  Without a backup directory it returns the pair              *)
(* (False, 'No backup directory.'), which the caller's "not" takes for     *)
(* success.  rsync makes the directory if another run has removed it.      *)
(***************************************************************************)
RsyncNothing(p) ==
    /\ BackupDir(p) = None
    /\ UNCHANGED <<dirs, complete, ok>>

RsyncDry(p) ==
    /\ BackupDir(p) # None
    /\ op[p] = "dryrun"
    /\ UNCHANGED <<dirs, complete, ok>>

RsyncDone(p) ==
    /\ BackupDir(p) # None
    /\ op[p] = "backup"
    /\ dirs' = dirs \union {bdir[p]}
    /\ complete' = IF covered[p] THEN complete \union {bdir[p]}
                                 ELSE complete \ {bdir[p]}
    /\ UNCHANGED ok

\* Wrong: the result of rsync is not looked at.
RsyncFailureIgnored(p) ==
    /\ BackupDir(p) # None
    /\ "rsync" \in Faults
    /\ complete' = IF op[p] = "backup" THEN complete \ {bdir[p]} ELSE complete
    /\ UNCHANGED <<dirs, ok>>

RsyncFailed(p) ==
    /\ BackupDir(p) # None
    /\ "rsync" \in Faults
    /\ ok' = [ok EXCEPT ![p] = FALSE]
    /\ complete' = IF op[p] = "backup" THEN complete \ {bdir[p]} ELSE complete
    /\ UNCHANGED dirs

DoRsync(p) ==
    /\ pc[p] = "rsync"
    /\ RsyncNothing(p) \/ RsyncDry(p) \/ RsyncDone(p) \/ RsyncFailed(p)
    /\ bdir' = [bdir EXCEPT ![p] = BackupDir(p)]
    /\ unread' = [unread EXCEPT ![p] = FALSE]
    /\ Goto(p, "trimDirs")
    /\ UNCHANGED <<now, lastStart, files, conf, op, date, covered, list, hist,
                   job, dirty, cutoff>>

-----------------------------------------------------------------------------
(***************************************************************************)
(* manage_retention, first BackupList.remove_old_backups: the oldest       *)
(* directories above the count, then those above the age.  A directory     *)
(* that cannot be removed is dropped from the list all the same.           *)
(***************************************************************************)
TooManyByOne(S) == Cardinality(S) > RetentionCount + 1 \* wrong
TooMany(S) == Cardinality(S) > RetentionCount

\* Wrong: what cannot be removed, now or later, stays in the list.
RemoveBackupOrRetry(p, t) ==
    /\ IF "rmtree" \in Faults
       THEN UNCHANGED <<dirs, items>>
       ELSE dirs' = dirs \ {t} /\ items' = [items EXCEPT ![p] = @ \ {t}]
    /\ complete' = complete \ {t}
    /\ UNCHANGED <<now, lastStart, files, conf, op, ok, session, covered,
                   lastFull, hist, job, dirty>>

RemoveBackup(p, t) ==
    /\ items' = [items EXCEPT ![p] = @ \ {t}]
    /\ complete' = complete \ {t}
    /\ \/ dirs' = dirs \ {t}
       \/ "rmtree" \in Faults /\ dirs' = dirs
    /\ UNCHANGED <<now, lastStart, files, conf, op, ok, session, covered,
                   lastFull, hist, job, dirty>>

KeepBackups == UNCHANGED <<now, lastStart, disk, op, ok, session, covered,
                           list, hist, job, dirty>>

TrimBackups(p) ==
    /\ pc[p] = "trimDirs"
    /\ \/ /\ TooMany(items[p])
          /\ \E t \in items[p] : IsOldest(t, items[p]) /\ RemoveBackup(p, t)
          /\ UNCHANGED <<pc, cutoff>>
       \/ /\ ~TooMany(items[p])
          /\ cutoff' = [cutoff EXCEPT ![p] = now - RetentionTime]
          /\ Goto(p, "ageDirs")
          /\ KeepBackups

Expired(p, t, S) ==
    /\ IsOldest(t, S)
    /\ ~TooMany(S)
    /\ t < cutoff[p]

ExpireBackups(p) ==
    /\ pc[p] = "ageDirs"
    /\ \/ /\ \E t \in items[p] : Expired(p, t, items[p]) /\ RemoveBackup(p, t)
          /\ UNCHANGED pc
       \/ /\ ~ \E t \in items[p] : Expired(p, t, items[p])
          /\ Goto(p, "trimSessions")
          /\ KeepBackups
    /\ UNCHANGED cutoff

(***************************************************************************)
(* Then BackupJobState.remove_old_items, the same on the session files.    *)
(* A file that is gone already raises, which ends the process.             *)
(***************************************************************************)
RemoveSession(p, d) ==
    /\ d \in DOMAIN files
    /\ files' = Drop(files, d)
    /\ hist' = [hist EXCEPT ![p] = @ \ {d}]
    /\ dirty' = [dirty EXCEPT ![p] = TRUE]
    /\ UNCHANGED <<now, lastStart, dirs, complete, conf, op, ok, session,
                   covered, list, job>>

UnlinkRaises(p, d) ==
    /\ d \notin DOMAIN files
    /\ Forget(p)
    /\ UNCHANGED <<now, lastStart, disk>>

TrimSessions(p) ==
    /\ pc[p] = "trimSessions"
    /\ \/ /\ TooMany(hist[p])
          /\ \E d \in hist[p] :
                /\ IsOldest(d, hist[p])
                /\ \/ RemoveSession(p, d) /\ UNCHANGED <<pc, cutoff>>
                   \/ UnlinkRaises(p, d)
       \/ /\ ~TooMany(hist[p])
          /\ cutoff' = [cutoff EXCEPT ![p] = now - RetentionTime]
          /\ Goto(p, "ageSessions")
          /\ KeepBackups

ExpireSessions(p) ==
    /\ pc[p] = "ageSessions"
    /\ \/ \E d \in hist[p] :
             /\ Expired(p, d, hist[p])
             /\ \/ RemoveSession(p, d) /\ UNCHANGED <<pc, cutoff>>
                \/ UnlinkRaises(p, d)
       \/ /\ ~ \E d \in hist[p] : Expired(p, d, hist[p])
          /\ Goto(p, "shutdown")
          /\ UNCHANGED cutoff
          /\ KeepBackups

-----------------------------------------------------------------------------
\* shutdown_destination
Shutdown(p) ==
    /\ pc[p] = "shutdown"
    /\ \/ UNCHANGED ok
       \/ "destination" \in Faults /\ ok' = [ok EXCEPT ![p] = FALSE]
    /\ Goto(p, IF Recorded(p) THEN "finish" ELSE "cleanup")
    /\ UNCHANGED <<now, lastStart, disk, op, session, covered, list, hist, job,
                   dirty, cutoff>>

\* Wrong: the dates change although the session file was not written.
FinishUnchecked(p) ==
    /\ pc[p] = "finish"
    /\ \/ files' = Put(files, date[p], [success |-> ok[p], dir |-> bdir[p]])
       \/ "statefile" \in Faults /\ UNCHANGED files
    /\ job' = [job EXCEPT ![p] = ItemChanged(@, date[p], ok[p])]
    /\ Goto(p, "saveJob")
    /\ UNCHANGED <<now, lastStart, dirs, complete, conf, op, ok, session,
                   covered, list, hist, dirty, cutoff>>

\* session.finish: the session file, and through it the dates in memory.
Finish(p) ==
    /\ pc[p] = "finish"
    /\ \/ /\ files' = Put(files, date[p], [success |-> ok[p], dir |-> bdir[p]])
          /\ job' = [job EXCEPT ![p] = ItemChanged(@, date[p], ok[p])]
          /\ Goto(p, "saveJob")
       \/ /\ "statefile" \in Faults
          /\ Goto(p, "cleanup")
          /\ UNCHANGED <<files, job>>
    /\ UNCHANGED <<now, lastStart, dirs, complete, conf, op, ok, session,
                   covered, list, hist, dirty, cutoff>>

WriteConf(p) ==
    \/ conf' = IF dirty[p] THEN job[p] ELSE conf
    \/ "statefile" \in Faults /\ conf' = conf

\* Wrong: the sessions the run knows are saved with it, also those that another
\* run has removed meanwhile.
SaveJobAndHistory(p) ==
    /\ pc[p] = "saveJob"
    /\ WriteConf(p)
    /\ files' = [d \in DOMAIN files \union hist[p] |->
                    IF d \in DOMAIN files THEN files[d] ELSE NewFile]
    /\ Goto(p, "cleanup")
    /\ UNCHANGED <<now, lastStart, dirs, complete, op, ok, session, covered,
                   list, hist, job, dirty, cutoff>>

\* The save() that ends _item_changed, then the one in BackupApp.cleanup.
SaveJob(p) ==
    /\ pc[p] = "saveJob"
    /\ WriteConf(p)
    /\ Goto(p, "cleanup")
    /\ UNCHANGED <<now, lastStart, dirs, complete, files, op, ok, session,
                   covered, list, hist, job, dirty, cutoff>>

Cleanup(p) ==
    /\ pc[p] = "cleanup"
    /\ WriteConf(p)
    /\ Forget(p)
    /\ UNCHANGED <<now, lastStart, dirs, complete, files>>

(***************************************************************************)
(* A state file is truncated when it is opened for writing: a process that *)
(* dies while it writes one leaves an empty file, which reads as defaults. *)
(***************************************************************************)
Crash(p) ==
    /\ "crash" \in Faults
    /\ pc[p] # "idle"
    /\ \/ UNCHANGED <<files, conf>>
       \/ /\ pc[p] = "finish"
          /\ files' = Put(files, date[p], NewFile)
          /\ UNCHANGED conf
       \/ /\ pc[p] \in {"saveJob", "cleanup"}
          /\ dirty[p]
          /\ conf' = NoJob
          /\ UNCHANGED files
    /\ Forget(p)
    /\ UNCHANGED <<now, lastStart, dirs, complete>>

Tick ==
    /\ now < MaxTime
    /\ now' = now + 1
    /\ UNCHANGED <<lastStart, disk, mem>>

Continue(p) ==
    \/ Prepare(p)       \/ Load(p)            \/ Plugins(p)
    \/ DoRsync(p)       \/ TrimBackups(p)     \/ ExpireBackups(p)
    \/ TrimSessions(p)  \/ ExpireSessions(p)  \/ Shutdown(p)
    \/ Finish(p)        \/ SaveJob(p)         \/ Cleanup(p)

Next ==
    \/ Tick
    \/ \E p \in Runs : \/ \E o \in Ops : Start(p, o)
                       \/ Continue(p)
                       \/ Crash(p)

Spec == Init /\ [][Next]_vars

\* A started process is scheduled until it ends.
FairSpec == Spec /\ \A p \in Runs : WF_vars(Continue(p))

-----------------------------------------------------------------------------
(***************************************************************************)
(* Properties                                                              *)
(***************************************************************************)

\* What backup_job.state, or a run that will write it, calls the last success
\* is a session whose file says success, as long as there is that file: the
\* order of the two writes in finish(), retention by other runs and a crash
\* between any two steps never turn an unfinished or failed run into one.
Successes == {conf.success} \union {job[p].success : p \in Runs}

HonestSuccess ==
    \A s \in Successes : s \in DOMAIN files => files[s].success

\* What HonestSuccess and LinksBackwards rest on: which runs have a session and
\* when, the dates of the sessions are past and belong to one run each, nobody
\* calls an unfinished session a success, and a run knows no session later
\* than its own.
Unfinished(p) == date[p] # None /\ pc[p] \notin {"saveJob", "cleanup"}

HasDate(p) ==
    /\ pc[p] = "idle" => date[p] = None /\ lastFull[p] = None /\ bdir[p] = None
    /\ pc[p] # "idle" => (Recorded(p) <=> date[p] # None)
    /\ pc[p] \in {"plugins", "rsync", "finish", "saveJob"} => Recorded(p)

PastDates ==
    /\ lastStart <= now
    /\ \A d \in DOMAIN files : d <= lastStart
    /\ \A s \in Successes : s # None => s <= lastStart
    /\ \A p \in Runs : date[p] # None => date[p] <= lastStart

OwnDates ==
    \A p, q \in Runs : p # q /\ date[p] # None => date[p] # date[q]

EarlierOnly(p) == date[p] # None =>
    /\ \A t \in hist[p] : t <= date[p]
    /\ bdir[p] # None => date[p] <= bdir[p]
    /\ lastFull[p] # None => lastFull[p] < date[p]

SessionInv ==
    /\ TypeOK
    /\ PastDates
    /\ OwnDates
    /\ HonestSuccess
    /\ \A p \in Runs : /\ HasDate(p)
                       /\ EarlierOnly(p)
                       /\ Unfinished(p) => date[p] \notin Successes

\* The session files and what is said of them keep the promises of SessionLog
\* (start_session and finish, state.py, and remove_old_items), whatever processes
\* interleave, lose state files or die: a record is written by its own session
\* only, and what is over is never written again.
Open == {date[p] : p \in {q \in Runs : Unfinished(q)}}
Claimed == Successes \ {None}
Log == INSTANCE SessionLog WITH
    Directories <- Time,
    latest <- lastStart,
    open <- Open,
    log <- files,
    claimed <- Claimed
LogImplemented == Log!Spec

\* rsync --link-dest is given a backup that is older than the one being
\* written, never the directory being written itself nor one that a later or
\* a concurrent run is filling.
LinksBackwards ==
    \A p \in Runs :
        /\ Recorded(p)
        /\ lastFull[p] # None
        /\ BackupDir(p) # None
        => lastFull[p] < BackupDir(p)

\* retention measured from a moment at most RetentionTime after the start
IsShort(p) == cutoff[p] <= date[p]

\* When a run that was no longer than RetentionTime is about to record its
\* success in the job state, the directory its session names exists and is
\* complete: no failure was swallowed on the way, and the retention of the
\* run did not take its own backup.
SuccessIsComplete ==
    \A p \in Runs :
        pc[p] = "saveJob" /\ ok[p] /\ IsShort(p) => bdir[p] \in complete

\* What SuccessIsComplete rests on when one process runs at a time, no state
\* file and no plugin fails and nothing is a dry run: no directory is later than
\* that of the run, which is complete from rsync on unless it has expired.
NewestDir(p) == bdir[p] # None =>
    /\ bdir[p] <= now
    /\ \A t \in dirs : t <= bdir[p]
    /\ \A t \in items[p] : t <= bdir[p]

KeptBackup(p) ==
    /\ pc[p] \in {"load", "plugins", "rsync"} => bdir[p] # None
    /\ pc[p] = "trimDirs" /\ ok[p] => bdir[p] \in complete
    /\ /\ pc[p] \in {"ageDirs", "trimSessions", "ageSessions", "shutdown",
                     "finish", "saveJob"}
       /\ ok[p] /\ IsShort(p)
       => bdir[p] \in complete

SurvivalInv ==
    /\ \A t \in dirs : t <= now
    /\ \A p \in Runs :
          /\ ~unread[p] /\ covered[p] /\ op[p] # "dryrun"
          /\ pc[p] \in {"ageDirs", "trimSessions"} =>
                cutoff[p] <= now - RetentionTime
          /\ pc[p] \in {"idle", "prepare", "load"} => items[p] = {}
          /\ NewestDir(p)
          /\ Recorded(p) => KeptBackup(p)

\* After the retention of a recorded run there are at most RetentionCount
\* directories beside its own, none older than RetentionTime, and after that
\* of the sessions at most RetentionCount session files: the remains of
\* crashed runs are counted and removed as well.
RetentionBounds ==
    \A p \in Runs : Recorded(p) =>
        LET previous == dirs \ {bdir[p]}
        IN  /\ pc[p] = "trimSessions" =>
                  /\ Cardinality(previous) <= RetentionCount
                  /\ \A t \in previous : t >= cutoff[p]
            /\ pc[p] = "ageSessions" =>
                  Cardinality(DOMAIN files) <= RetentionCount

\* The last success in backup_job.state is replaced by a later one only.  It is
\* lost when a process dies while it writes the file, but what that process
\* was writing was no older.
LastSuccessAdvances ==
    [][ conf'.success # conf.success /\ conf.success # None =>
            LET t == IF conf'.success # None THEN {conf'.success}
                     ELSE {job[p].success : p \in {q \in Runs : pc[q] # pc'[q]}}
            IN  \E u \in t : u # None /\ u >= conf.success ]_vars

\* A run that has started ends: the loops of the retention get on even when
\* nothing can be removed.
RunEnds == \A p \in Runs : pc[p] # "idle" ~> pc[p] = "idle"

(***************************************************************************)
(* What the program says of itself and does not do                         *)
(***************************************************************************)

\* "Don't actually run any commands": the retention of a dry run removes no
\* complete backup.
DryRunKeepsBackups ==
    [][\A p \in Runs :
        op[p] = "dryrun" /\ items'[p] # items[p] => complete \subseteq complete']_vars

\* 'No backup directory.' is a failure: a run that had none to write to does
\* not report success.
NoDirectoryNoSuccess ==
    \A p \in Runs : pc[p] = "saveJob" /\ ok[p] => bdir[p] # None

\* "pick the latest/last backup from the list": if the latest directory is the
\* complete backup of a successful session, it is the one picked.
LatestIsPicked ==
    \A p \in Runs : pc[p] = "plugins" =>
        \A d \in DOMAIN files :
            /\ files[d].success
            /\ files[d].dir \in complete \ {bdir[p]}
            /\ IsNewest(files[d].dir, items[p])
            => lastFull[p] = files[d].dir
=============================================================================
