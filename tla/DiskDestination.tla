-------------------------- MODULE DiskDestination --------------------------
(***************************************************************************)
(* The destination of a backup on an external disk: what the runs of       *)
(* arsoft-backup do with the disk manager before and after their work,     *)
(* while disks are attached, noticed by the system, mounted and removed by *)
(* others.  Each call to UDisks is a step.  A run looks for a disk several *)
(* times, and what it is told is old when it acts on it.                   *)
(***************************************************************************)
EXTENDS Integers, FiniteSets

CONSTANTS
    Runs,       \* the processes
    Ops,        \* the operations they are started for
    Disks,      \* the disks registered as external with the configured tag
    HasTag,     \* a tag is configured
    PowerOffs,  \* the disks UDisks can power off
    Ejectables, \* those among them it calls ejectable as well
    Slots,      \* how many disks can be attached
    Timeout,    \* DiskTimeout, in intervals of wait_for_disk
    Faults,     \* what may fail
    Others,     \* what other programs and people do
    System,     \* the configured backup directory
    None        \* Python's None, nobody

Op == {"backup", "cleanup", "status"}

Fault == {"rescan", "mount", "mkdir", "rsync", "unmount", "poweroff",
          "timeout",    \* DiskTimeout is a text, read from a file
          "crash"}

Other == {"detach",     \* a disk is pulled out
          "mount",      \* a desktop mounts what appears
          "unmount",    \* somebody unmounts a disk that is not busy
          "eject"}      \* edskmgr --eject

ASSUME OpsAssumption == Ops \subseteq Op
ASSUME FaultsAssumption == Faults \subseteq Fault /\ Others \subseteq Other
ASSUME DisksAssumption ==
    /\ IsFiniteSet(Disks)
    /\ HasTag \in BOOLEAN
    /\ Ejectables \subseteq PowerOffs
    /\ PowerOffs \subseteq Disks
ASSUME BoundsAssumption ==
    Slots \in Nat /\ Timeout \in Nat
ASSUME NamesAssumption ==
    /\ System # None
    /\ System \notin Disks /\ None \notin Disks
    /\ None \notin Runs /\ "others" \notin Runs /\ "others" # None

VARIABLES
    \* the machine
    attached,   \* disks in their slots
    coming,     \* attached disks the kernel is about to notice
    present,    \* disks UDisks knows
    mounter,    \* who has mounted each disk, None if it is not mounted
    \* in the memory of each run
    pc, op,
    ok,         \* success
    disk,       \* _disk_obj
    left,       \* intervals until abs_timeout
    loaded,     \* disk_loaded
    mounted,    \* disk_mounted
    realDir,    \* _real_backup_dir: the configured one or that of a disk
    where       \* session.backup_disk: where the backup directory was made

machine == <<attached, coming, present, mounter>>
flags == <<loaded, mounted>>
mem == <<pc, op, ok, disk, left, loaded, mounted, realDir, where>>
vars == <<attached, coming, present, mounter, pc, op, ok, disk, left, loaded,
          mounted, realDir, where>>

PC == {"idle", "check", "load", "wait", "get", "mount", "mkdir", "rsync",
       "working", "shutdown", "ejectUnmount", "ejectPowerOff", "unmount",
       "finish"}
DiskOrNone == Disks \union {None}
Place == Disks \union {System, None}

TypeOK ==
    /\ attached \subseteq Disks
    /\ coming \subseteq attached
    /\ present \subseteq attached
    /\ mounter \in [Disks -> Runs \union {"others", None}]
    /\ \A d \in Disks : mounter[d] # None => d \in present
    /\ pc \in [Runs -> PC]
    /\ op \in [Runs -> Op]
    /\ ok \in [Runs -> BOOLEAN]
    /\ disk \in [Runs -> DiskOrNone]
    /\ left \in [Runs -> 0 .. Timeout]
    /\ loaded \in [Runs -> BOOLEAN]
    /\ mounted \in [Runs -> BOOLEAN]
    /\ realDir \in [Runs -> Place]
    /\ where \in [Runs -> Place]

Init ==
    /\ attached = {}
    /\ coming = {}
    /\ present = {}
    /\ mounter = [d \in Disks |-> None]
    /\ pc = [p \in Runs |-> "idle"]
    /\ op = [p \in Runs |-> "backup"]
    /\ ok = [p \in Runs |-> TRUE]
    /\ disk = [p \in Runs |-> None]
    /\ left = [p \in Runs |-> 0]
    /\ loaded = [p \in Runs |-> FALSE]
    /\ mounted = [p \in Runs |-> FALSE]
    /\ realDir = [p \in Runs |-> None]
    /\ where = [p \in Runs |-> None]

Goto(p, label) == pc' = [pc EXCEPT ![p] = label]

\* What went wrong is remembered; the run goes on at label.
Fail(p, label) == ok' = [ok EXCEPT ![p] = FALSE] /\ Goto(p, label)

\* The process is gone and its memory with it.
Forget(p) ==
    /\ Goto(p, "idle")
    /\ op' = [op EXCEPT ![p] = "backup"]
    /\ ok' = [ok EXCEPT ![p] = TRUE]
    /\ disk' = [disk EXCEPT ![p] = None]
    /\ left' = [left EXCEPT ![p] = 0]
    /\ loaded' = [loaded EXCEPT ![p] = FALSE]
    /\ mounted' = [mounted EXCEPT ![p] = FALSE]
    /\ realDir' = [realDir EXCEPT ![p] = None]
    /\ where' = [where EXCEPT ![p] = None]

IsMounted(d) == mounter[d] # None

\* rsync holds files open on the disk.
IsBusy(d) == \E p \in Runs : pc[p] = "working" /\ where[p] = d

-----------------------------------------------------------------------------
(***************************************************************************)
(* The machine, and what others do with it                                 *)
(***************************************************************************)
Gone(d) ==
    /\ coming' = coming \ {d}
    /\ present' = present \ {d}
    /\ mounter' = [mounter EXCEPT ![d] = None]

\* The kernel notices a new disk by itself, or waits for a rescan.
Attach(d) ==
    /\ d \notin attached
    /\ Cardinality(attached) < Slots
    /\ attached' = attached \union {d}
    /\ coming' = coming \union {d} \/ coming' = coming
    /\ UNCHANGED <<present, mounter, mem>>

Appear(d) ==
    /\ d \in coming
    /\ coming' = coming \ {d}
    /\ present' = present \union {d}
    /\ UNCHANGED <<attached, mounter, mem>>

Detach(d) ==
    /\ "detach" \in Others
    /\ d \in attached
    /\ attached' = attached \ {d}
    /\ Gone(d)
    /\ UNCHANGED mem

OthersMount(d) ==
    /\ "mount" \in Others
    /\ d \in present
    /\ ~IsMounted(d)
    /\ mounter' = [mounter EXCEPT ![d] = "others"]
    /\ UNCHANGED <<attached, coming, present, mem>>

OthersUnmount(d) ==
    /\ "unmount" \in Others
    /\ IsMounted(d)
    /\ ~IsBusy(d)
    /\ mounter' = [mounter EXCEPT ![d] = None]
    /\ UNCHANGED <<attached, coming, present, mem>>

OthersEject(d) ==
    /\ "eject" \in Others
    /\ d \in present \intersect PowerOffs
    /\ ~IsBusy(d)
    /\ Gone(d)
    /\ UNCHANGED <<attached, mem>>

Environment(d) ==
    \/ Attach(d)       \/ Appear(d)         \/ Detach(d)
    \/ OthersMount(d)  \/ OthersUnmount(d)  \/ OthersEject(d)

-----------------------------------------------------------------------------
(***************************************************************************)
(* prepare_destination                                                     *)
(***************************************************************************)
Start(p, o) ==
    /\ pc[p] = "idle"
    /\ op' = [op EXCEPT ![p] = o]
    /\ Goto(p, "check")
    /\ UNCHANGED <<machine, ok, disk, left, flags, realDir, where>>

\* What wait_for_disk may return for the tag when it looks just now.
Found(d) == IF HasTag /\ present # {} THEN d \in present ELSE d = None

\* is_disk_ready
Check(p) ==
    /\ pc[p] = "check"
    /\ Goto(p, IF HasTag /\ present = {} THEN "load" ELSE "get")
    /\ UNCHANGED <<machine, op, ok, disk, left, flags, realDir, where>>

\* DiskManager.load: the kernel is to notice every disk that is attached, or
\* those on the hosts before the one that fails.  The timeout is written to the
\* log as a number, which raises if it is a text, as it is once the first run
\* has saved the configuration.
Load(p) ==
    /\ pc[p] = "load"
    /\ \/ /\ coming' = coming \union (attached \ present)
          /\ left' = [left EXCEPT ![p] = Timeout]
          /\ Goto(p, "wait")
          /\ UNCHANGED <<op, ok, disk, flags, realDir, where>>
       \/ /\ "timeout" \in Faults
          /\ coming' = coming \union (attached \ present)
          /\ Forget(p)
       \/ /\ "rescan" \in Faults
          /\ \E noticed \in SUBSET (attached \ present) :
                coming' = coming \union noticed
          /\ Fail(p, "shutdown")
          /\ UNCHANGED <<op, disk, left, flags, realDir, where>>
    /\ UNCHANGED <<attached, present, mounter>>

\* Where to go once the disk is known: an object made now knows whether it is
\* mounted now.  Without a disk the configured directory is used.
Use(p, d) ==
    /\ disk' = [disk EXCEPT ![p] = d]
    /\ realDir' = [realDir EXCEPT ![p] =
                     IF d # None /\ IsMounted(d) THEN d ELSE System]
    /\ Goto(p, IF d # None /\ ~IsMounted(d) THEN "mount"
               ELSE IF op[p] = "status" THEN "shutdown" ELSE "mkdir")

\* Wrong: one interval too many.
StillTimeAtEnd(p) == left[p] >= 0

\* time.time() < abs_timeout
StillTime(p) == left[p] > 0

\* wait_for_disk(timeout): look, and while there is time sleep and look again.
Wait(p) ==
    /\ pc[p] = "wait"
    /\ \/ \E d \in Disks :
             /\ Found(d)
             /\ loaded' = [loaded EXCEPT ![p] = TRUE]
             /\ Use(p, d)
             /\ UNCHANGED <<ok, left>>
       \/ /\ Found(None)
          /\ StillTime(p)
          /\ left' = [left EXCEPT ![p] = @ - 1]
          /\ UNCHANGED <<pc, ok, disk, loaded, realDir>>
       \/ /\ Found(None)
          /\ ~StillTime(p)
          /\ Fail(p, "shutdown")
          /\ UNCHANGED <<disk, left, loaded, realDir>>
    /\ UNCHANGED <<machine, op, mounted, where>>

\* get_disk, a new look after is_disk_ready
Get(p) ==
    /\ pc[p] = "get"
    /\ \E d \in DiskOrNone : Found(d) /\ Use(p, d)
    /\ UNCHANGED <<machine, op, ok, left, flags, where>>

\* Wrong: a disk that cannot be mounted is done without.
DoWithout(p) ==
    /\ realDir' = [realDir EXCEPT ![p] = System]
    /\ Goto(p, "mkdir")
    /\ UNCHANGED <<mounter, mounted, ok>>

MountFails(p) ==
    /\ Fail(p, "shutdown")
    /\ UNCHANGED <<mounter, mounted, realDir>>

\* Wrong: the run does not remember that it has mounted the disk.
MountUnnoticed(p) ==
    /\ mounter' = [mounter EXCEPT ![disk[p]] = p]
    /\ realDir' = [realDir EXCEPT ![p] = disk[p]]
    /\ Goto(p, IF op[p] = "status" THEN "shutdown" ELSE "mkdir")
    /\ UNCHANGED <<ok, mounted>>

MountWorks(p) ==
    /\ mounter' = [mounter EXCEPT ![disk[p]] = p]
    /\ mounted' = [mounted EXCEPT ![p] = TRUE]
    /\ realDir' = [realDir EXCEPT ![p] = disk[p]]
    /\ Goto(p, IF op[p] = "status" THEN "shutdown" ELSE "mkdir")
    /\ UNCHANGED ok

\* disk_mount: UDisks does not mount a disk that is gone or mounted already.
Mount(p) ==
    /\ pc[p] = "mount"
    /\ LET possible == disk[p] \in present /\ ~IsMounted(disk[p])
       IN  \/ possible /\ MountWorks(p)
           \/ (~possible \/ "mount" \in Faults) /\ MountFails(p)
    /\ UNCHANGED <<attached, coming, present, op, disk, left, loaded,
                   where>>

\* What the path of the destination leads to: the mount point of a disk that
\* is not mounted any more is a path like any other.
Leads(p) == IF realDir[p] # System /\ IsMounted(realDir[p])
            THEN realDir[p] ELSE System

\* _prepare_backup_dir: makedirs makes the mount point as well if it is gone.
Mkdir(p) ==
    /\ pc[p] = "mkdir"
    /\ \/ /\ where' = [where EXCEPT ![p] = Leads(p)]
          /\ Goto(p, IF op[p] = "backup" THEN "rsync" ELSE "shutdown")
          /\ UNCHANGED ok
       \/ /\ "mkdir" \in Faults
          /\ Fail(p, "shutdown")
          /\ UNCHANGED where
    /\ UNCHANGED <<machine, op, disk, left, flags, realDir>>

-----------------------------------------------------------------------------
(***************************************************************************)
(* The work, as far as the disk notices it                                 *)
(***************************************************************************)
IsThere(d) == d # System => IsMounted(d)

\* rsync makes the last directory of its destination, not those above.
Rsync(p) ==
    /\ pc[p] = "rsync"
    /\ \/ IsThere(where[p]) /\ Goto(p, "working") /\ UNCHANGED ok
       \/ ~IsThere(where[p]) /\ Fail(p, "shutdown")
    /\ UNCHANGED <<machine, op, disk, left, flags, realDir, where>>

Work(p) ==
    /\ pc[p] = "working"
    /\ \/ IsThere(where[p]) /\ Goto(p, "shutdown") /\ UNCHANGED ok
       \/ /\ ~IsThere(where[p]) \/ "rsync" \in Faults
          /\ Fail(p, "shutdown")
    /\ UNCHANGED <<machine, op, disk, left, flags, realDir, where>>

-----------------------------------------------------------------------------
(***************************************************************************)
(* shutdown_destination                                                    *)
(***************************************************************************)
\* Wrong: only the disk that was waited for is released.
LoadedOnly(p, d) ==
    IF d = None \/ ~loaded[p] THEN "finish"
    ELSE IF IsMounted(d) THEN "ejectUnmount" ELSE "ejectPowerOff"

\* What is to be done with the disk d: eject it if the run has waited for it,
\* unmount it if the run has mounted it.  A disk that is not mounted now is
\* not unmounted, and nobody minds.
Release(p, d) ==
    IF d = None THEN "finish"
    ELSE IF loaded[p]
         THEN IF IsMounted(d) THEN "ejectUnmount" ELSE "ejectPowerOff"
         ELSE IF IsMounted(d) THEN "unmount" ELSE "finish"

\* update_disk looks for a disk of the tag once more.
Shutdown(p) ==
    /\ pc[p] = "shutdown"
    /\ \/ /\ loaded[p] \/ mounted[p]
          /\ \E d \in DiskOrNone :
                /\ Found(d)
                /\ disk' = [disk EXCEPT ![p] = d]
                /\ Goto(p, Release(p, d))
       \/ /\ ~loaded[p] /\ ~mounted[p]
          /\ Goto(p, "finish")
          /\ UNCHANGED disk
    /\ UNCHANGED <<machine, op, ok, left, flags, realDir, where>>

\* UDisks does not unmount what is busy or not mounted.
UnmountDisk(p, label) ==
    LET possible == IsMounted(disk[p]) /\ ~IsBusy(disk[p])
    IN  \/ /\ possible
           /\ mounter' = [mounter EXCEPT ![disk[p]] = None]
           /\ Goto(p, label)
           /\ UNCHANGED ok
        \/ /\ ~possible \/ "unmount" \in Faults
           /\ Fail(p, "finish")
           /\ UNCHANGED mounter

Unmount(p) ==
    /\ pc[p] = "unmount"
    /\ UnmountDisk(p, "finish")
    /\ UNCHANGED <<attached, coming, present, op, disk, left, flags,
                   realDir, where>>

\* _remove_disk_impl: first the partitions, then the power.
EjectUnmount(p) ==
    /\ pc[p] = "ejectUnmount"
    /\ UnmountDisk(p, "ejectPowerOff")
    /\ UNCHANGED <<attached, coming, present, op, disk, left, flags,
                   realDir, where>>

\* poweroff_and_eject asks for what the disk can do.  If it can do both, the
\* second fails, as the disk is gone after the first; if neither, all is well.
EjectPowerOff(p) ==
    /\ pc[p] = "ejectPowerOff"
    /\ LET d == disk[p]
           possible == d \in present /\ ~IsMounted(d)
       IN  \/ /\ d \in PowerOffs /\ possible
              /\ Gone(d)
              /\ IF d \in Ejectables
                 THEN Fail(p, "finish")
                 ELSE Goto(p, "finish") /\ UNCHANGED ok
           \/ /\ d \notin PowerOffs
              /\ Goto(p, "finish")
              /\ UNCHANGED <<coming, present, mounter, ok>>
           \/ /\ d \in PowerOffs
              /\ ~possible \/ "poweroff" \in Faults
              /\ Fail(p, "finish")
              /\ UNCHANGED <<coming, present, mounter>>
    /\ UNCHANGED <<attached, op, disk, left, flags, realDir, where>>

\* What the process has mounted stays mounted, and is nobody's business now.
Exit(p) ==
    /\ Forget(p)
    /\ mounter' = [d \in Disks |-> IF mounter[d] = p THEN "others"
                                                     ELSE mounter[d]]
    /\ UNCHANGED <<attached, coming, present>>

Finish(p) == pc[p] = "finish" /\ Exit(p)

Crash(p) == "crash" \in Faults /\ pc[p] # "idle" /\ Exit(p)

Continue(p) ==
    \/ Check(p)     \/ Load(p)          \/ Wait(p)           \/ Get(p)
    \/ Mount(p)     \/ Mkdir(p)         \/ Rsync(p)          \/ Work(p)
    \/ Shutdown(p)  \/ EjectUnmount(p)  \/ EjectPowerOff(p)  \/ Unmount(p)
    \/ Finish(p)

Next ==
    \/ \E d \in Disks : Environment(d)
    \/ \E p \in Runs : \/ \E o \in Ops : Start(p, o)
                       \/ Continue(p)
                       \/ Crash(p)

Spec == Init /\ [][Next]_vars

\* A started process is scheduled until it ends, and its calls return.
FairSpec == Spec /\ \A p \in Runs : WF_vars(Continue(p))

-----------------------------------------------------------------------------
(***************************************************************************)
(* Properties                                                              *)
(***************************************************************************)

\* A run that ends without having noticed a failure leaves no disk mounted
\* that it has mounted itself, whatever was attached, removed, mounted and
\* unmounted meanwhile, as long as there is one disk at a time.
NothingLeftMounted ==
    \A p \in Runs : pc[p] = "finish" /\ ok[p] =>
        \A d \in Disks : mounter[d] # p

\* What NothingLeftMounted rests on: there is one disk at a time; a run that
\* has mounted a disk knows that it has mounted one, is not done, and the disk
\* it finds when it releases is the one it mounted.
OneDisk == \A d, e \in attached : d = e

MayHold == {"mkdir", "rsync", "working", "shutdown", "ejectUnmount",
            "unmount", "finish"}

Holds(p, d) ==
    /\ HasTag
    /\ mounted[p]
    /\ pc[p] \in MayHold
    /\ pc[p] \in {"ejectUnmount", "unmount"} => disk[p] = d
    /\ pc[p] = "finish" => ~ok[p]

ReleaseInv ==
    /\ TypeOK
    /\ OneDisk
    /\ \A p \in Runs :
        /\ pc[p] = "mount" => HasTag
        /\ pc[p] \in {"mount", "ejectUnmount", "ejectPowerOff", "unmount"} =>
              disk[p] \in Disks
        /\ \A d \in Disks : mounter[d] = p => Holds(p, d)

\* A disk a run has mounted does not stay mounted: whatever fails between
\* mounting and the end of the run, shutdown_destination is reached and finds
\* the disk again.
EveryMountEnds ==
    \A p \in Runs : \A d \in Disks : mounter[d] = p ~> ~IsMounted(d)

\* If nobody takes the disk away while the run looks for it, a backup that
\* succeeds is on a disk of the tag and never in the configured directory.
BackupOnDisk ==
    \A p \in Runs :
        HasTag /\ pc[p] = "finish" /\ ok[p] /\ op[p] = "backup"
        => where[p] \in Disks

\* The backup has been made, or will be, where the run said it would.
Succeeding(p) ==
    \/ pc[p] \in {"rsync", "working"}
    \/ /\ pc[p] \in {"shutdown", "ejectUnmount", "ejectPowerOff", "unmount",
                     "finish"}
       /\ ok[p] /\ op[p] = "backup"

\* What BackupOnDisk rests on when one process runs at a time: a disk that was
\* there stays, and one that was mounted stays mounted, until the run itself
\* releases it.
PlaceInv ==
    /\ TypeOK
    /\ \A p \in Runs :
        /\ pc[p] = "get" /\ HasTag => present # {}
        /\ pc[p] = "mount" => disk[p] \in Disks
        /\ pc[p] = "mkdir" /\ HasTag =>
              realDir[p] \in Disks /\ IsMounted(realDir[p])
        /\ Succeeding(p) /\ HasTag => where[p] \in Disks

(***************************************************************************)
(* What the program says of itself and does not do                         *)
(***************************************************************************)

\* "Ejecting backup disk", "Unmount backup disk": what is ejected or unmounted
\* is the disk the backup went to.
ReleasesBackupDisk ==
    \A p \in Runs :
        pc[p] \in {"ejectUnmount", "ejectPowerOff", "unmount"} =>
            disk[p] = realDir[p]
=============================================================================
