# Models and proofs of arsoft-python

arsoft-python is a collection of administration tools: a backup program, a
manager of external disks, helpers for ssh, and many programs that read or edit
the configuration of other services once and end. Most of them keep no state and
do one thing after the other. This project covers the parts where state must
survive failures, or where processes and threads meet: the backup program and
the disks it writes to, the registry of those disks, ssh sessions that leave
keys and passwords on a server, and the thread that downloads a live stream.

All paths below are relative to `src/python3/`.

## The system

### Components

| component | state | operations | talks to |
|---|---|---|---|
| backup runs (`arsoft-backup`, `arsoft/backup/BackupApp.py`, `state.py`) | session files and `backup_job.state` in the state directory, one directory per backup; in memory the session, the list of previous backups, the history, a dirty flag | `--backup`, `--dry-run`, `--cleanup`, `--status`, `--log`, `--system-startup` | destination, plugins, rsync, ini files |
| backup destination (`backup/diskmgr.py`, `BackupApp.prepare_destination`, `shutdown_destination`) | what this run has loaded and mounted (`disk_loaded`, `disk_mounted`, `_disk_obj`) | prepare, shut down | external disk manager |
| external disk manager (`disks/edskmgr.py`, `edskmgr_config.py`, `edskmgr`) | patterns of internal and external disks, tags, the private operation data in a temporary file | wait for a disk, rescan, remove, register, unregister, udev hooks | disk access, hook scripts |
| disk access (`disks/disk.py`, `scsi.py`) | none of its own: UDisks and sysfs | list, mount, unmount, power off, delete | kernel, UDisks |
| configuration (`backup/BackupConfig.py`), ini files (`inifile.py`) | files | open, get, set, save | |
| plugins (`backup/plugins/`) | intermediate directories | start, perform, complete | databases, servers, `append_to_filelist` |
| rsync and file lists (`rsync.py`, `filelist.py`) | none | execute, list, remove | the rsync program |
| Eurosport stream (`eurosport/Stream.py`, `eurosport-stream`) | the playlist that was loaded, an index into it, the addresses downloaded, a queue of parts, a stop flag | play (the thread), get_next_part, stop | HTTP server, player |
| ssh sessions (`sshutils.py`, `puppet-setup`) | a key of the session on both sides, a script with the sudo password on the server, temporary files there, the list of them in memory | connect, run commands and scripts with and without sudo, temporary files, close, `__del__` | the programs ssh, ssh-keygen, ssh-copy-id |
| OpenVPN (`openvpn/`) | a socket and what is unread on it; files | commands with a timeout | the openvpn daemon |
| IMAP synchronisation, receiver, LDAP, DNS, monitoring, git, mail and the rest | none that outlives a call, or that of another program | | |

`PROJECT.json` lists all of them with the reason for each that is not modelled.

### What is hard

*Backup runs.* A run is a sequence of fifteen or so steps, any of which may fail
while the later ones are still executed; the outcome must survive to the end.
Two clock readings name the same backup. A session is written when it starts
and when it ends, and the job state after it, so there are windows for a crash.
There is no lock: a run from cron and one by hand interleave. The retention
deletes, with loops that must end when nothing can be deleted, and must not
take the backup that was just made.

*Destination.* Disks come and go while a run looks for them; what the run found
at one call may be another disk, or none, at the next. A run must undo what it
did (load, mount) and nothing else, also when it failed half way.

*Registry of disks.* `edskmgr` by hand, hooks of udev in processes of their own and
`ini-util` share one file per disk and one temporary file with the name of whoever
asked for the operation, the trigger. Nothing is locked. Each process
writes back what it has read when it started, through a `set` that removes lines
from the list it runs through. A process may die between opening a file, which
empties it, and writing it.

*ssh sessions.* Every command logs in anew, so what a session leaves on the server
can only be removed while its key still works, and the key goes last. Answers get
lost, scripts fail half way, the destructor does again what `close` has done or
has not, and the sessions of a host remove each other's keys, which all have the
same comment.

*Eurosport stream.* The index into the playlist survives the loading of another
playlist, whose segments have moved. The thread may be stopped, refused or end by
an exception at any point, and counts an address as downloaded a turn later.

*OpenVPN.* An answer that is late is still in the socket when the next command
is sent.

What makes each component correct:

- backup runs: the job state never calls a failed or unfinished session a
  success; a success means a complete backup that is still there; the last
  success does not go back; hard links go to finished earlier backups; the
  retention keeps its bounds; every run ends.
- destination: the backup goes to a disk of the tag; what a run has mounted it
  unmounts, also when it failed half way; a run waits for a disk that is late.
- registry: what is saved is what is read again; the file with the trigger is owned by
  a process that still runs; hooks do not run in the name of an operation that
  was over before they started.
- ssh sessions: the key of a session works until it is removed; an open sudo
  session has its password on the server; a session that ends leaves nothing
  behind that it could still remove.
- stream: parts come in order and once; a stop ends the thread; the thread
  follows the playlist.

## Modules

| module | what it is |
|---|---|
| `BackupRun` | runs of `arsoft-backup` against one backup and one state directory, and the properties |
| `SessionLog` | what the records of sessions promise, whoever writes them: an abstract specification |
| `MCBackupRun` | the instances of `BackupRun` for TLC |
| `BackupRunProofs` | type correctness, the invariants of sessions and links, and that runs implement `SessionLog`, for every value of the constants |
| `BackupSurvivalProofs` | a success has its backup on disk |
| `BackupRetentionProofs` | the bounds of the retention, and the order of the successes |
| `DiskDestination` | what runs do with the disk manager before and after their work, and what happens to the disks meanwhile |
| `MCDiskDestination` | its instances for TLC |
| `DiskDestinationProofs` | type correctness, the release of the disk and the place of the backup |
| `IniSection` | `get`, `getAsArray`, `set` and `remove` of `arsoft.inifile` as operators on the lines of a section |
| `DiskRegistry`, `MCDiskRegistry` | the processes that share the registry of disks and the trigger, on top of `IniSection` |
| `IniSectionProofs` | what `set` and `remove` leave to be read, for sections of any length |
| `DiskRegistryProofs` | type correctness, what is known of the trigger, and that what is saved is read |
| `SshSession`, `MCSshSession` | connections of one host to one account, and what they leave there |
| `SshSessionProofs` | type correctness, and what a session keeps and removes |
| `SegmentFeed` | what a player may expect of a download: an abstract specification |
| `StreamDownloader`, `MCStreamDownloader` | the thread that downloads a stream, the server and the player; it implements `SegmentFeed` |
| `StreamDownloaderProofs` | type correctness and the refinement |

`BackupRun` and `DiskDestination` meet in `Prepare` and `Shutdown` of `BackupRun`,
which fail if "destination" may fail; `DiskDestination` opens these two steps and
closes what lies between them to `Rsync` and `Work`. They share the operations
of `ARSoftBackupApp` and no variable, so what one proves does not depend on the
other. `DiskRegistry` is the other half of the disk manager: the backup, which gives
its trigger to the constructor and loads the registry, is `Start` of kind "backup"
there.

### BackupRun

State on disk: `dirs` (the backup directories), `complete` (those that hold all
the configuration selects), `files` (the session files) and `conf`
(`backup_job.state`). Time is counted in seconds, the resolution of every time
stamp the program writes, and since directories and session files are named by
their time stamps both are numbers. In the memory of each run: `date`, `unread`
and `bdir` of the session object, `items` and `lastFull` of `BackupList`, `hist`,
`job` and `dirty` of `BackupJobState`, and the local variables `ok` and
`cutoff`.

| action | code |
|---|---|
| `Start` | `reinitialize` and `start_session`: the job state and the names of the sessions are read, a session is created and reported to `_item_changed` as not successful. If its file cannot be written the object is left to be read later (`unread`) |
| `Prepare` | `prepare_destination(True)`: a directory is made and named by a second reading of the clock |
| `Load` | `BackupList.load`: the directories are listed, linked to their sessions, the latest linked one is picked |
| `Plugins` | the plugins add their sources; their results are ignored |
| `DoRsync` | `_do_rsync`: no directory, dry run, success, failure |
| `TrimBackups`, `ExpireBackups` | `BackupList.remove_old_backups`, one iteration of a loop per step |
| `TrimSessions`, `ExpireSessions` | `BackupJobState.remove_old_items`, the same |
| `Shutdown` | `shutdown_destination` |
| `Finish`, `SaveJob` | `session.finish`: the session file, the dates in memory, then the job state |
| `Cleanup` | `BackupApp.cleanup`: the job state if it is dirty; the process ends |
| `Crash` | the process dies, or an exception leaves `main`; a state file that is being written is left empty |
| `Tick` | the clock |

The steps of different runs interleave freely. What may go wrong is the constant
`Faults`, so that a run says which failures a property withstands.

`SessionLog` is what whoever reads the session files may rely on: sessions are begun
in the order of their dates, each is recorded as no success when it begins and gets
its outcome at most once, from itself; what is claimed to be a success was recorded as
one. `BackupRun` implements it (`LogImplemented`): the records are the session files
as they are, open is a session from `start_session` to the writing of `finish`
(`Unfinished`), claimed is what `backup_job.state` or the memory of a process calls
the last success. The abstract specification allows what the code does not prevent:
the retention of one process may remove the record of a session that runs in another,
and that session then brings it back when it ends.

What the model abstracts. Reading the state at start and creating the session
are one step: a file that appears between the two is not seen, which is what
happens as well when it appears just after. At most one recorded session starts
in a second, as two would share one session file: `lastStart` is that assumption
about the schedule and no variable of the code. The backup directory is local,
named by time stamps and linked by rsync (the defaults of `BackupConfig`). A
dirty job state is written whole, and its write fails or succeeds as a whole
except for a crash. Reading a session file that another run removed yields
defaults. The contents of a backup are whether it is complete.

### DiskDestination

The machine: `attached` (disks in a slot), `coming` (those the kernel is about to
notice), `present` (those UDisks knows), and `mounter` (who has mounted each).
In the memory of each run: `ok`, the local variable `success`; `disk`
(`_disk_obj`), `loaded`, `mounted` (`disk_loaded`, `disk_mounted`), `realDir`
(`_real_backup_dir`), `where` (the disk the backup directory was really made
on), and `left`, the intervals until `wait_for_disk` gives up.

| action | code |
|---|---|
| `Attach`, `Appear`, `Detach` | a disk is plugged in, noticed, pulled out |
| `OthersMount`, `OthersUnmount`, `OthersEject` | a desktop, a person, `edskmgr --eject` |
| `Start` | a process is started; every field has its default |
| `Check` | `is_disk_ready`, the first look for a disk of the tag |
| `Load` | `rescan_empty_scsi_hosts` and the line of the log after it |
| `Wait` | one look of `wait_for_disk` and the sleep after it |
| `Get` | `get_disk`, the second look of a run that did not have to wait |
| `Use` (in `Wait` and `Get`) | `get_disk_mountpath`: mounted already, to be mounted, or no disk |
| `Mount` | `disk_mount`, and the failure of the preparation |
| `Mkdir` | `_prepare_backup_dir` |
| `Rsync`, `Work` | the start and the end of the work on the disk |
| `Shutdown` | `shutdown_destination` up to the third look, `update_disk` |
| `Unmount` | `disk_unmount` |
| `EjectUnmount`, `EjectPowerOff` | `_remove_disk_impl`: the partitions, then `poweroff_and_eject` |
| `Finish`, `Crash` | the process ends or dies; what it has mounted stays mounted |

Each call to UDisks is a step of its own, so that anything may happen to a disk
between two of them. What a `Drive` object says of itself is what UDisks said
when it was made; since each look makes new objects, `Use` and `Shutdown` decide
by the state of the disk at the look, and the calls that follow are judged by
the state at the call.

What the model abstracts. All disks of the model carry the configured tag and
are registered as external; internal disks and other tags are never found and
never touched. A disk has one file system. A look finds any of the present
disks: the order of UDisks' list is not fixed. A drive that UDisks calls
ejectable can also be powered off (`DisksAssumption`): a card reader whose medium
is gone but whose drive stays is not a disk of this model. A path on a disk
that is not mounted any more is a path on the system disk, which `makedirs`
creates. rsync writes below a directory that must still be there; only while it
writes is the disk busy. A cleanup does on the disk what a backup does without
rsync. The fields of the run survive a failed preparation, as in the code, and
`shutdown_destination` is called after it. The destination is a local directory,
and the disk manager is configured to be in use; by default it is not
(`BackupConfig.py:36`), and then no disk is touched.

### StreamDownloader and SegmentFeed

Segments are numbered as they are published; the playlist on the server
(`published`) and the one the thread has loaded (`m3u_list`) are a first number and
a length. `index` is `_segment_index`, `recorded` the addresses in
`downloaded_parts`, `parts` the deque `parts_to_be_played`, `stopped` the flag
`_stop`; `pc` is where the thread is, "dead" after an exception that nobody catches.

| action | code |
|---|---|
| `Publish`, `Expire` | the server adds a segment, drops the oldest |
| `LeaveLoop` | `while not self._stop` |
| `OutOfSegments`, `Note` | `get_stream_url`: no segment at the index, or the address of the current one, which is noted |
| `Reload`, `ReloadFails` | `m3u8.load` of the playlist, an HTTPError |
| `Advance` | `get_part` counts up; without a segment there it returns None, which is put into the queue |
| `Receive`, `DownloadFails` | the segment arrives, or an HTTPError |
| `Die` | an empty playlist (`NoStreamPartsFound`), an error of the network that is no HTTPError, an encrypted segment whose key has arrived (`unpad` takes the `ord` of a number) |
| `Stop`, `GetNextPart` | the program and the player |

The list and the flag are shared without a lock; each access is atomic in Python,
and each request to the server is a step, so the server, the player and `stop` come
between any two. What a part contains, the choice of the bandwidth and the login
are left out.

`SegmentFeed` is what a player may expect: each step delivers a later segment, or
leaves a gap, or passes over segments, or takes a part. `StreamDownloader`
implements it (`FeedImplemented`): its `position` is the number of the segment at
the index, minus one while that is being downloaded, because `get_part` counts up
first. The refinement rests on lists that only move forward, as `Publish` and
`Expire` do: a list whose front is later makes the thread skip, never repeat.

### IniSection and DiskRegistry

`IniSection` has the lines of one section as a sequence of key and value, and what
`get`, `getAsArray`, `set` (with a text and with a list) and `remove` do with them. It
keeps the order in which lines are visited and removed, which is what `set` gets
wrong with surplus lines; values are what is read again after writing, so an empty
text and a missing value are `Blank`.

`DiskRegistry` has the file of each disk (`files`), the private operation data
(`private`), and for each process what it was started for (`op`), its items,
`_trigger`, whether it owns the private data, and the exit status.

| action | code |
|---|---|
| `Start`, `Announce` | the constructor of `ExternalDiskManager`, the setter of `trigger`: it owns the file before it writes it, and the result of writing is ignored |
| `List`, `Read` | `EDSKManagerConfig._load`: the directory, then one file each |
| `Look`, `Load` | `_load_private_operation_data`: is the file there, what is in it |
| `Register` | `--register`, `--unregister` |
| `Reset`, `RemoveFile`, `RegisterAttached` | `--reset-config` |
| `Eject` | `--eject` and the backup, which remove disks and run no hooks |
| `RunHooks` | `udev_action`, with the trigger that was loaded |
| `Save`, `Saved` | `save`: each item over the lines that are there |
| `Edit` | `ini-util -e` and `-d`; its `-a` always fails (see below) |
| `Cleanup`, `Crash` | the end: who owns the private data removes them, or cannot and says nothing; a process dies, in the middle of a write leaving an empty file |

Reading a file and rewriting it are a step each. Files are named after disks, a
pattern matches its own disk and no other; a disk that is registered may or may not
be attached. Two variables are not in the code: `beside`, the processes that ran while
this one did, and `stale`, that a process has died or could not remove the private
data. After either a name may stay for good, and hooks run in it.

### SshSession

A connection stands for its session key. `authorized` are the keys in
`authorized_keys` of the account, `files` what lies in `/tmp` of the server, with the
session it is from. `failed`, `disturbed` and `hasty` are not in the code: they say
that ssh has failed for another reason than a missing login, that somebody else has
removed the key, and that `close` has removed it before all temporary files were.

| action | code |
|---|---|
| `Connect`, `CopyId` | `SSHSessionKey.start`: ssh-keygen, ssh-copy-id |
| `StartSudo` | `SSHSudoSession.start`, a script that checks the password and leaves it in a file |
| `PutScript`, `ExecScript`, `RemoveScript` | `ssh_runcmdAndGetData` with a script: copied, run, removed whatever happened |
| `Run` | `SSHConnection.runcmdAndGetData` |
| `CreateTemp`, `CloseTemp` | `create_temp_file`, `ConnectionTempFile.close` |
| `Leave` | the program closes the connection, after an exception also with temporary files open, or drops it |
| `DeleteTemp`, `Deleted` | `SSHConnection.__del__`: the temporary files, then `close` |
| `CloseSudo`, `CloseKey` | `close`: `SSHSudoSession.close`, then `SSHSessionKey.close` |
| `Crash` | the program dies; the server and the disk keep what they have |

What the model abstracts. Each ssh command is one step that happens on the server or
not and whose answer arrives or not. The finalizers run in the order of the
connection's `__del__`; a second attempt by `ConnectionTempFile.__del__` is part of
`DeleteTemp`. A connection that makes no key because it was given none and has no
password behaves like one whose ssh-keygen failed. The words of the commands are
left out.

### Runs

| run | instance | shows |
|---|---|---|
| `backup_one` | one process, all operations, all faults but those of listing and removals, retention count 1, 4 seconds; 1.9 million states | `TypeOK`, `HonestSuccess`, `LinksBackwards`, `SessionInv`, `RetentionBounds`, `LastSuccessAdvances` |
| `backup_success` | one process, no failing state files or plugins, no dry run; 1.2 million states | `SuccessIsComplete` and the invariant it rests on, `SurvivalInv`; `RunEnds` |
| `backup_two` | two processes, backup only, crashes, state files and rsync may fail; 750 000 states | `HonestSuccess`, `SessionInv`, `LinksBackwards`, the refinement `LogImplemented` |
| `disk_place` | one process, one slot for two disks, others only mount, what can fail before the release | `BackupOnDisk`, `PlaceInv`, `ReleaseInv`, `EveryMountEnds` |
| `disk_two` | two processes, one disk, all faults and interference; 360 000 states | `TypeOK`, `NothingLeftMounted`, `ReleaseInv` |
| `stream_feed` | up to four segments, the last encrypted, all faults; 17 000 states | `TypeOK`, `NotedLate`, the refinement `FeedImplemented`, `StopEnds`, `Follows` |
| `registry_shared` | two processes at a time and three in all, two disks, two tags, all operations and faults; 1.9 million states | `TypeOK`, `SavedIsRead`, `TriggerIsAlive`, `HooksInName` |
| `ssh_two` | two sessions of any two of three setups, two commands or temporary files, all faults; 1.1 million states | `TypeOK`, `KeyLetsIn`, `SudoHasPassword`, `EndsClean` |

Four runs show where the program does not do what it says of itself; the
`findings` of `PROJECT.json` quote the lines.

| run | violated |
|---|---|
| `backup_dryrun` | a dry run removes the complete backup of the run before it (`DryRunKeepsBackups`) |
| `backup_nodirectory` | a run without a directory records a success (`NoDirectoryNoSuccess`) |
| `backup_latest` | the latest backup is not the one that is linked (`LatestIsPicked`) |
| `disk_release` | with two disks, the one that is released is not the one that was used (`ReleasesBackupDisk`) |

Met while modelling, with no run of their own:

- a cleanup makes an empty directory that counts as a backup (`arsoft-backup:301`);
- `backup_job.state` names each session as the last failure when it starts, and a
  success does not take that back (`arsoft/backup/state.py:418`);
- a disk that is ejected between `is_disk_ready` and `get_disk` sends the backup to
  the configured directory (`arsoft/backup/BackupApp.py:419`), which is why
  `BackupOnDisk` needs others that take nothing away;
- a disk timeout that was read from a file is a text, and the log formats it with
  `%f`, so the run raises instead of waiting (`arsoft/backup/BackupApp.py:412`,
  `BackupConfig.py:418`);
- `--system-startup` calls `eject` without the disk it requires
  (`arsoft-backup:35`) and raises if unused disks are to be ejected;
- registering a disk anew with fewer tags leaves some of the old ones, because
  `set` removes from the list it runs through (`arsoft/inifile.py:195`);
  `--unregister` does not "remove all tags" (`edskmgr:148`) for the same reason;
- `--reset-config` writes disks back that it has just removed, because what it read
  of them stays in memory (`edskmgr_config.py:327`);
- a trigger given to the constructor is forgotten when the private data are loaded and
  there are none (`edskmgr.py:84`), and hooks, which run in processes of udev, never
  see it;
- whether the private data could be written is ignored (`edskmgr.py:64`), and so is
  whether they could be removed (`edskmgr.py:107`): `edskmgr --trigger` may then go on
  without its name or with that of another, and a name may stay for later hooks;
- `SSHConnection.close` does not ask for temporary files (`sshutils.py:407`): one that
  is open after an exception is left on the server if only the key of the session lets
  it in;
- `ini-util -a` always fails: it issues the action 'add' (`ini-util:218`), which is not
  known (`ini-util:344`);
- `SSHConnection.close` calls `close` on a key file that was given as a text
  (`sshutils.py:411`), so `puppet-setup` does not get to return its status;
- the keys of a host are removed by a comment they all have, so a session that ends
  locks out the others (`sshutils.py:599`);
- `LocalSudoSession` is made without the connection it requires (`puppet-setup:304`);
- a live playlist of constant length stalls: once the index has reached its length
  nothing is downloaded any more (`eurosport/Stream.py:64`), which is the second
  half of `Follows`;
- an encrypted segment whose key arrives ends the thread, because `unpad` is written
  for Python 2.

### Bounds

*BackupRun.* `MaxTime` bounds the clock and with it the sessions, which start in
different seconds. Four seconds give a backup that is kept, one that is removed, the
remains of a crash and the current one, with a retention count of 1, so that every
branch of both retention loops is taken; a step may see the clock advance between any
two others, which is what separates a directory from its session. The run with two
processes has three seconds: one session before and two that overlap. The clock stops
at its bound, but a run still ends then; `CHECK_DEADLOCK FALSE` is set where all
processes may be idle at that bound and no new session can start, which is the end of
the bounded schedule and not of the program. In the other runs a cleanup can always
start.

*DiskDestination.* Nothing is counted but the slots and the intervals of the timeout,
so the runs are complete for their instance. With one slot two disks can take turns,
which is what a rotation is, and a run can find another disk at each look; two slots,
where both can be found, are in `disk_release` and in the proof of `BackupIsOnDisk`.
One interval of the timeout gives a look before, during and after the wait. Two
processes that share a disk are interchangeable, so `disk_two` uses their symmetry.

*StreamDownloader.* Four segments give lists that grow, shrink and move under an index
that stays; the queue is bounded by what can be downloaded and by the gaps, one for
each advance, and there are no more advances than indices. The server may stop
publishing and the thread may end: `CHECK_DEADLOCK FALSE`.

*DiskRegistry.* `MaxStarts` bounds the processes: one that leaves something behind,
one that writes while a third reads. Two tags are enough for a registration that
leaves lines of an earlier one in the file. When all have ended nothing happens any
more: `CHECK_DEADLOCK FALSE`. Processes and disks are interchangeable.

*SshSession.* Two sessions meet in `authorized_keys`; two commands or temporary files
between them let each fail before or after another. All sessions end or die:
`CHECK_DEADLOCK FALSE`. Sessions are interchangeable.

### Fairness

`FairSpec` of `BackupRun` and `DiskDestination` has weak fairness for each run's next
step: the operating system schedules a process that is runnable, and rsync, the
plugins and UDisks are assumed to return. Nothing makes a run start, nothing makes the
clock tick, and nobody has to plug in a disk. `EveryMountEnds` is checked without
crashes and without failures of unmount and power off: after those the code gives up
and the disk stays mounted, which is what it reports.

`FairSpec` of `StreamDownloader` has weak fairness of the thread's next step, as its
requests are answered or fail, and strong fairness of `Reload`: the playlist is asked
for again and again, and the server does not refuse it for ever. Server, player and
the caller of `stop` owe nothing. `StopEnds` needs the first part only.

## Proofs

`TLAPS` proves the following for every set of processes, any retention and any bound
of the clock, of segments, disks, tags and sessions.

*Sessions of backups.* `SessionsHold` (and from it `TypeCorrect`, `SuccessIsHonest`
and `LinksGoBack`) needs no assumption but those on the constants: the faults and the
operations are any. `HonestSuccess` is not inductive. That `_item_changed` records a
date only if the file behind it says success is not enough: another run could rewrite
that file, or write a session with the same date. `SessionInv` adds that

- the dates of sessions are past and each belongs to one run (`PastDates`,
  `OwnDates`), so nobody else writes a run's session file;
- a run that is unfinished is nobody's success (`Unfinished`), so rewriting its
  file harms nothing;
- a run knows no session later than its own (`EarlierOnly`), so what it picks to
  link against is earlier than its own date, and that is not later than its
  directory.

The proof has one step per action and one per conjunct it can disturb.

`LogHolds` proves the refinement from `SessionInv`: each action is a step of
`SessionLog` or none. That another session has another date (`OwnDates`) is what makes
the end of a run the end of one session (`OpenEnds`), and `EarlierOnly` that the
outcome names a directory made after the session had begun. `RecordsAreFinal` follows
from the refinement alone: a session that is over is never written again by any process,
and a record that was removed does not come back.

*Survival.* `SuccessHasBackup` and `SurvivalHolds` assume `Reliable`: one process at a
time, state files that can be written, plugins that deliver, backups and cleanups
only, a retention count of at least one. Each is needed: without the first another run
removes the backup, without the second the run has no directory, without the third or
with a dry run the backup is incomplete, and with a retention count of zero a
directory that was not linked to its session (`backup_latest`) is removed by its own
run. Its invariant `SurvivalInv` says that no directory is later than that of the run,
so the retention by count, which removes the oldest of several, never gets to it; and
that the retention by age gets to it only if the run was longer than the retention
time.

*Disks.* `DiskReleased` assumes one slot. `NothingLeftMounted` says that a run which
noticed no failure leaves nothing mounted that it has mounted; alone it says nothing
of the steps before. `ReleaseInv` adds that a run which has mounted a disk knows that
it has (`disk_mounted` survives a failed preparation), so it asks for the disk again,
that a mounted disk is present, so with one slot it is the disk it finds, and that
`_disk_obj` is then this disk until it is unmounted or the failure is noticed. It
holds for any number of processes: a disk is mounted once, so another run finds it
mounted, does not mount it, and unmounting it does no harm to the claim. With two
slots it fails, as `disk_release` shows.

`BackupIsOnDisk` assumes `Undisturbed`: one process at a time, and others that mount
disks but take none away. Without either the disk may be gone at the second look. Its
invariant `PlaceInv` follows the disk from the first look (`present` is not empty)
over the mount (`realDir` is a disk and mounted) to the directory that was made
(`where`). Crashes and all failures of the run's own calls are allowed.

*Retention.* `RetentionIsBounded` assumes `RemovalsWork`: one process at a time, a
directory that can be listed and entries that can be removed; any other fault is
allowed. `RetentionBounds` speaks of the moment after a loop. `RetentionInv` follows
the run to it: from the listing on, only the run's own directory may be missing from
its list (`DirsListed`, which rsync and a failed session file do not disturb), the
list is not too long after the first loop and has nothing expired after the second,
which needs that a set of times that is not empty has an oldest one; and the history
knows every session file. `SuccessAdvances` needs only that one process runs at a
time: what it knows of the last success is what the file says or something later
(`SuccessInv`), so writing it moves forward, and what a crash in the middle of writing
destroys was about to be replaced by nothing earlier. With two processes it fails: the
one that ends last writes what it read first.

*Stream.* `StreamTypeCorrect` needs no assumption but those on the constants; its
invariant holds that the list of the thread is no newer than that of the server and
the index within it when it downloads. `FeedHolds` is the refinement: `position` grows
or stays in every step of the server, the thread and the player, by one when a part is
put into the queue. `PartsAscend` then follows from the abstract specification alone,
with the invariant that nothing to come is older than what waits. `WaitingIsNoted`
adds that everything in the queue is noted whenever the thread is about to count up.

*Registry.* `NamesHold` is about the trigger. Any writing of the private file may fail,
and then it is what it was or empty; so what is known of it is only that no line but
that of a name is in it (`PrivateShape`, which rests on lemmas about `SetScalar` and
`Get`), and, until a process dies or cannot remove it, that it has an owner and the
name in it is that of an owner (`NameOwned`): who writes or fails to write is the owner
before it opens the file, and who stops being one has removed it, or found it removed.
Owners run (`OwnersInv`), and of two processes that run each is beside the other
(`BesideInv`). So the name that is loaded is that of a process beside the one that
loads it, or its own, which hooks do not have (`HooksInName`), and it stays so when
that process ends first.

`RegistryTypeCorrect` and `RegistrySaved` come from `MemoryHolds`, which needs nothing
of the processes: any may be killed, interleave or fail to write. `SavedIsRead` speaks
of the moment when a process is done; `SavedInv` follows an undisturbed one to it.
While it reads, its items are what the files it has read hold (`ReadInv`). While it
removes, those it has removed are gone and the disks it does not remember have a file
without a pattern, or none (`RemoveInv`). While it saves, what it has written is read
back (`Agrees`) and what it has yet to write *fits* the lines that it will write over
(`TagsFit`): it was read from them, or there are none in the way, or it is empty and
takes away the only one. That last case is a disk that is attached and is registered
again over a file without a pattern, which nobody remembers but `ini-util` may have
given a tag; that there is not more than one such tag is the third part of `Content`,
which every operation keeps for all files. Only the disk that was asked for need not
fit, and of it only `ToSet(...) \subseteq` holds. Each of these was checked with TLC as
an invariant of the instance of `registry_shared` first. `NoneAssumption` says that
Python's None is no list of lines and no list of tags.

*Ini sections.* The lemmas that these proofs rest on are theorems about sections of any
length (`IniSectionProofs`). The code visits the lines of a key in their order and
counts; `Rank` is that count, so a list is set by giving the line of rank n the value n
(`SetFound`), and no recursion is needed. `Removed` says which lines go when the loop
removes from the sequence it runs through: in each run of surplus lines that follow
one another the first, the third and so on. `ScalarIsSet`: a text that was set is read
and the lines of other keys keep their places. `ListAsRead`: to set what was read changes
nothing, which is why a registry survives being saved by processes that changed
another disk. `ListIsRead`: every value that was set is among what is read, and
`ListReplaces`: nothing else is, if no surplus line follows another one directly. Where
one does, an old value stays; that is the reading of `arsoft/inifile.py:195` above.
`ListInNone`: a list that is set where there was none comes back in its order, which
it may not where there were some lines, as the rest goes before the last of them.

*ssh.* The invariant `SessionsInv` is one of each session: `KeyInv` says where the two
halves of its key are, `SudoInv` where the password is, `FilesInv` that every file of
a session that had no failure is known to it and can still be removed, but for the
temporary files of a connection that was closed too early (`Stuck`), and `EarlyInv`
that nothing was closed before the end. Its proof has
two parts: what a step does to its own session, action by action, and that it does
nothing to another (`StepApart`) but perhaps remove its key, which makes it
`disturbed`. `EndsClean` excludes the sessions for which the code cannot keep it: ssh
failed in another way, or the key was taken and there is no other login. Of a
connection that was closed with a temporary file open it says all but that this file
is gone.

*Ends.* That runs end is liveness, which stays with TLC, but the argument it rests on is
proved: `EachStepGetsOn`, of `BackupRun` and of `DiskDestination`, says that every step
of a run leads to a later phase in a fixed order of the phases, or takes an item from
one of the two lists of the retention, or one interval of the timeout. Lists and
timeout are finite, so no run has an infinite number of steps. What is not proved is
that a step is always possible.

Only model-checked: `RunEnds`, `EveryMountEnds`, `StopEnds` and `Follows`, because
liveness is beyond this prover. Every other property of a passing run is a theorem.

## Not modelled

- Of the backup: `--status` and `--log`, remote directories, fixed directory names,
  `--system-startup` (it raises). `BackupRun` and `DiskDestination` are not composed:
  a history shared by disks that take turns, which names directories of a disk that
  is not there, is not modelled.
- Of ini files: parsing, comments and disabled lines, several sections, merge and
  replace. Of the stream: the login, the catalogue and `set_bandwidth`. Of ssh:
  `LocalConnection`, scp, and the words of the commands of screen.
- OpenVPN: the management interface is one command at a time. `StatusFile` raises when an
  answer is missing, so it never reads a late one; the rest are parsers.
- Code that cannot run under Python 3: `arsoft/eiscp` (`core.py:56`), `git-sync`, which
  imports `urlparse` (`git-sync:9`), and `svnbackup` with the `BackupDirectory` classes
  of an earlier design, whose `listFiles` passes a comparator to `sort`
  (`BackupDirectory.py:140`).
- Programs that read a system, print or edit once and end, and wrappers of one
  request; vendored code (`m3u8`). `PROJECT.json` has the reason for each.

Recursive definitions stay out of modules with theorems; the retention loops are
steps for that reason as well as for the interleavings.
