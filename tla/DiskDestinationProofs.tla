----------------------- MODULE DiskDestinationProofs -----------------------
(***************************************************************************)
(* Proofs about DiskDestination.                                           *)
(***************************************************************************)
EXTENDS DiskDestination, FiniteSetTheorems, TLAPS

-----------------------------------------------------------------------------
(***************************************************************************)
(* Type correctness, for any number of runs, disks and slots               *)
(***************************************************************************)
MachineType ==
    /\ attached \subseteq Disks
    /\ coming \subseteq attached
    /\ present \subseteq attached
    /\ mounter \in [Disks -> Runs \union {"others", None}]
    /\ \A d \in Disks : mounter[d] # None => d \in present

MemoryType ==
    /\ pc \in [Runs -> PC]
    /\ op \in [Runs -> Op]
    /\ ok \in [Runs -> BOOLEAN]
    /\ disk \in [Runs -> DiskOrNone]
    /\ left \in [Runs -> 0 .. Timeout]
    /\ loaded \in [Runs -> BOOLEAN]
    /\ mounted \in [Runs -> BOOLEAN]
    /\ realDir \in [Runs -> Place]
    /\ where \in [Runs -> Place]

LEMMA TypeParts == TypeOK <=> MachineType /\ MemoryType
  BY DEF TypeOK, MachineType, MemoryType

LEMMA TypeInit == Init => TypeOK
  BY BoundsAssumption, NamesAssumption
     DEF Init, TypeOK, PC, Op, DiskOrNone, Place

LEMMA EnvironmentType ==
    ASSUME TypeOK, NEW d \in Disks, Environment(d)
    PROVE  TypeOK'
<1>1. MachineType'
  <2>1. CASE Attach(d)
    BY <2>1 DEF TypeOK, MachineType, Attach
  <2>2. CASE Appear(d)
    BY <2>2 DEF TypeOK, MachineType, Appear
  <2>3. CASE Detach(d)
    BY <2>3 DEF TypeOK, MachineType, Detach, Gone
  <2>4. CASE OthersMount(d)
    BY <2>4 DEF TypeOK, MachineType, OthersMount
  <2>5. CASE OthersUnmount(d)
    BY <2>5 DEF TypeOK, MachineType, OthersUnmount
  <2>6. CASE OthersEject(d)
    BY <2>6 DEF TypeOK, MachineType, OthersEject, Gone
  <2>7. QED
    BY <2>1, <2>2, <2>3, <2>4, <2>5, <2>6 DEF Environment
<1>2. UNCHANGED mem
  BY DEF Environment, Attach, Appear, Detach, OthersMount, OthersUnmount,
         OthersEject
<1>3. MemoryType'
  BY <1>2 DEF TypeOK, MemoryType, mem
<1>4. QED
  BY <1>1, <1>3 DEF TypeOK, MachineType, MemoryType

\* A process that ends leaves well-typed memory behind.
LEMMA ForgetType ==
    ASSUME MemoryType, NEW p \in Runs, Forget(p)
    PROVE  MemoryType'
  BY BoundsAssumption
     DEF MemoryType, Forget, Goto, PC, Op, DiskOrNone, Place

\* What a run remembers of the disk it has found.
LEMMA UseType ==
    ASSUME MemoryType, NEW p \in Runs, NEW d \in DiskOrNone, Use(p, d)
    PROVE  /\ pc' \in [Runs -> PC]
           /\ disk' \in [Runs -> DiskOrNone]
           /\ realDir' \in [Runs -> Place]
  BY DEF MemoryType, Use, Goto, PC, DiskOrNone, Place

LEMMA ContinueType ==
    ASSUME TypeOK, NEW p \in Runs, Continue(p)
    PROVE  TypeOK'
<1> SUFFICES MachineType' /\ MemoryType'
  BY DEF TypeOK, MachineType, MemoryType
<1> MachineType /\ MemoryType
  BY TypeParts
<1>1. CASE Check(p)
  BY <1>1 DEF MachineType, MemoryType, Check, Goto, machine, flags, PC
<1>2. CASE Load(p)
  <2>1. MachineType'
    BY <1>2 DEF MachineType, Load
  <2>2. MemoryType'
    <3>1. CASE Forget(p)
      BY <3>1, ForgetType
    <3>2. CASE /\ left' = [left EXCEPT ![p] = Timeout]
               /\ Goto(p, "wait")
               /\ UNCHANGED <<op, ok, disk, flags, realDir, where>>
      BY <3>2, BoundsAssumption DEF MemoryType, Goto, flags, PC
    <3>3. CASE /\ Fail(p, "shutdown")
               /\ UNCHANGED <<op, disk, left, flags, realDir, where>>
      BY <3>3 DEF MemoryType, Goto, Fail, flags, PC
    <3>4. QED
      BY <1>2, <3>1, <3>2, <3>3 DEF Load
  <2>3. QED
    BY <2>1, <2>2
<1>3. CASE Wait(p)
  <2>1. MachineType'
    BY <1>3 DEF MachineType, Wait, machine
  <2>2. /\ op' = op /\ mounted' = mounted /\ where' = where
        /\ pc' \in [Runs -> PC]
        /\ ok' \in [Runs -> BOOLEAN]
        /\ disk' \in [Runs -> DiskOrNone]
        /\ loaded' \in [Runs -> BOOLEAN]
        /\ realDir' \in [Runs -> Place]
    <3>1. /\ op' = op /\ mounted' = mounted /\ where' = where
          /\ loaded' \in [Runs -> BOOLEAN]
          /\ ok' \in [Runs -> BOOLEAN]
      BY <1>3 DEF MemoryType, Wait, Fail
    <3>2. CASE \E d \in Disks : Use(p, d)
      BY <3>1, <3>2, UseType DEF DiskOrNone
    <3>3. CASE ~\E d \in Disks : Use(p, d)
      BY <1>3, <3>1, <3>3 DEF MemoryType, Wait, Goto, Fail, PC
    <3>4. QED
      BY <3>2, <3>3
  <2>3. left' \in [Runs -> 0 .. Timeout]
    BY <1>3, BoundsAssumption DEF MemoryType, Wait, StillTime
  <2>4. QED
    BY <2>1, <2>2, <2>3 DEF MemoryType
<1>4. CASE Get(p)
  BY <1>4, UseType DEF MachineType, MemoryType, Get, machine, flags
<1>5. CASE Mount(p)
  <2>1. MachineType'
    BY <1>5 DEF MachineType, Mount, MountWorks, MountFails
  <2>2. MemoryType'
    BY <1>5 DEF MachineType, MemoryType, Mount, MountWorks, MountFails, Goto, Fail, PC,
                DiskOrNone, Place
  <2>3. QED
    BY <2>1, <2>2
<1>6. CASE Mkdir(p)
  BY <1>6 DEF MachineType, MemoryType, Mkdir, Leads, Goto, Fail, machine,
              flags, PC, Place
<1>7. CASE Rsync(p)
  BY <1>7 DEF MachineType, MemoryType, Rsync, Goto, Fail, machine, flags, PC
<1>8. CASE Work(p)
  BY <1>8 DEF MachineType, MemoryType, Work, Goto, Fail, machine, flags, PC
<1>9. CASE Shutdown(p)
  BY <1>9 DEF MachineType, MemoryType, Shutdown, Release, Goto, machine,
              flags, PC
<1>10. CASE EjectUnmount(p)
  BY <1>10 DEF MachineType, MemoryType, EjectUnmount, UnmountDisk, Goto,
               Fail, flags, PC
<1>11. CASE EjectPowerOff(p)
  BY <1>11 DEF MachineType, MemoryType, EjectPowerOff, Gone, Goto, Fail,
               flags, PC
<1>12. CASE Unmount(p)
  BY <1>12 DEF MachineType, MemoryType, Unmount, UnmountDisk, Goto, Fail,
               flags, PC
<1>13. CASE Finish(p)
  <2>1. MachineType'
    BY <1>13, NamesAssumption DEF MachineType, Finish, Exit
  <2>2. MemoryType'
    BY <1>13, ForgetType DEF Finish, Exit
  <2>3. QED
    BY <2>1, <2>2
<1>14. QED
  BY <1>1, <1>2, <1>3, <1>4, <1>5, <1>6, <1>7, <1>8, <1>9, <1>10, <1>11,
     <1>12, <1>13 DEF Continue

LEMMA TypeNext == TypeOK /\ [Next]_vars => TypeOK'
<1> SUFFICES ASSUME TypeOK, [Next]_vars
             PROVE  TypeOK'
  OBVIOUS
<1>1. CASE UNCHANGED vars
  BY <1>1 DEF vars, TypeOK
<1>2. ASSUME NEW d \in Disks, Environment(d)
      PROVE  TypeOK'
  BY <1>2, EnvironmentType
<1>3. ASSUME NEW p \in Runs, NEW o \in Ops, Start(p, o)
      PROVE  TypeOK'
  BY <1>3, OpsAssumption DEF TypeOK, Start, Goto, machine, flags, PC
<1>4. ASSUME NEW p \in Runs, Continue(p)
      PROVE  TypeOK'
  BY <1>4, ContinueType
<1>5. ASSUME NEW p \in Runs, Crash(p)
      PROVE  TypeOK'
  <2>1. MachineType'
    BY <1>5, NamesAssumption DEF TypeOK, MachineType, Crash, Exit
  <2>2. MemoryType'
    BY <1>5, ForgetType, TypeParts DEF Crash, Exit
  <2>3. QED
    BY <2>1, <2>2 DEF TypeOK, MachineType, MemoryType
<1>6. QED
  BY <1>1, <1>2, <1>3, <1>4, <1>5 DEF Next

\* Every reachable state is well typed: in particular nothing is mounted that
\* UDisks does not know, and it knows nothing that is not attached.
THEOREM DiskTypeCorrect == Spec => []TypeOK
  BY TypeInit, TypeNext, PTL DEF Spec

-----------------------------------------------------------------------------
(***************************************************************************)
(* With one slot nothing is left mounted, for any number of runs and       *)
(* disks, whatever fails, crashes and interferes                           *)
(***************************************************************************)
RunRelease(p) ==
    /\ pc[p] = "mount" => HasTag
    /\ pc[p] \in {"mount", "ejectUnmount", "ejectPowerOff", "unmount"} =>
          disk[p] \in Disks
    /\ \A d \in Disks : mounter[d] = p => Holds(p, d)

LEMMA ReleaseParts ==
    ReleaseInv <=> TypeOK /\ OneDisk /\ \A p \in Runs : RunRelease(p)
  BY DEF ReleaseInv, RunRelease

LEMMA ReleaseInit == Init => ReleaseInv
<1> SUFFICES ASSUME Init
             PROVE  ReleaseInv
  OBVIOUS
<1>1. \A d \in Disks, p \in Runs : mounter[d] # p
  BY NamesAssumption DEF Init
<1>2. QED
  BY <1>1, TypeInit DEF Init, ReleaseInv, OneDisk

\* What others do with the disks takes nothing from what a run knows.
LEMMA RunReleaseKept ==
    ASSUME NEW q \in Runs, RunRelease(q),
           pc'[q] = pc[q], ok'[q] = ok[q], disk'[q] = disk[q],
           mounted'[q] = mounted[q],
           \A d \in Disks : mounter'[d] = q => mounter[d] = q
    PROVE  RunRelease(q)'
  BY DEF RunRelease, Holds

\* A second disk finds no slot.
LEMMA OneDiskKept ==
    ASSUME Slots <= 1, TypeOK, OneDisk, [Next]_vars
    PROVE  OneDisk'
<1>1. CASE \E d \in Disks : Attach(d)
  <2>1. PICK d \in Disks : Attach(d)
    BY <1>1
  <2>2. IsFiniteSet(attached)
    BY FS_Subset, DisksAssumption DEF TypeOK
  <2>3. Cardinality(attached) = 0
    BY <2>1, <2>2, FS_CardinalityType, BoundsAssumption DEF Attach
  <2>4. attached = {}
    BY <2>2, <2>3, FS_EmptySet
  <2>5. QED
    BY <2>1, <2>4 DEF Attach, OneDisk
<1>2. CASE ~\E d \in Disks : Attach(d)
  <2>1. attached' \subseteq attached
    BY <1>2 DEF Next, Environment, Appear, Detach, OthersMount,
                OthersUnmount, OthersEject, Start, Continue, Check, Load,
                Wait, Get, Mount, Mkdir, Rsync, Work, Shutdown, EjectUnmount,
                EjectPowerOff, Unmount, Finish, Crash, Exit, machine, vars
  <2>2. QED
    BY <2>1 DEF OneDisk
<1>3. QED
  BY <1>1, <1>2

LEMMA EnvironmentRelease ==
    ASSUME TypeOK, NEW d \in Disks, Environment(d),
           NEW q \in Runs, RunRelease(q)
    PROVE  RunRelease(q)'
<1>1. UNCHANGED mem
  BY DEF Environment, Attach, Appear, Detach, OthersMount, OthersUnmount,
         OthersEject
<1>2. \A e \in Disks : mounter'[e] = q => mounter[e] = q
  BY NamesAssumption
     DEF TypeOK, Environment, Attach, Appear, Detach, OthersMount,
         OthersUnmount, OthersEject, Gone
<1>3. QED
  BY <1>1, <1>2, RunReleaseKept DEF mem

\* A run changes its own memory only, and mounts for itself only.
LEMMA OthersKept ==
    ASSUME TypeOK, NEW p \in Runs, NEW q \in Runs, q # p,
           \/ \E o \in Ops : Start(p, o)
           \/ Continue(p)
           \/ Crash(p)
    PROVE  /\ pc'[q] = pc[q] /\ ok'[q] = ok[q] /\ disk'[q] = disk[q]
           /\ mounted'[q] = mounted[q]
           /\ \A d \in Disks : mounter'[d] = q => mounter[d] = q
<1>1. CASE \E o \in Ops : Start(p, o)
  BY <1>1 DEF TypeOK, Start, Goto, machine, flags
<1>2. CASE Check(p)
  BY <1>2 DEF TypeOK, Check, Goto, machine, flags
<1>3. CASE Load(p)
  BY <1>3 DEF TypeOK, Load, Forget, Goto, Fail, flags
<1>4. CASE Wait(p)
  BY <1>4 DEF TypeOK, Wait, Use, Goto, Fail, machine
<1>5. CASE Get(p)
  BY <1>5 DEF TypeOK, Get, Use, Goto, machine, flags
<1>6. CASE Mount(p)
  BY <1>6 DEF TypeOK, Mount, MountWorks, MountFails, Goto, Fail
<1>7. CASE Mkdir(p)
  BY <1>7 DEF TypeOK, Mkdir, Goto, Fail, machine, flags
<1>8. CASE Rsync(p)
  BY <1>8 DEF TypeOK, Rsync, Goto, Fail, machine, flags
<1>9. CASE Work(p)
  BY <1>9 DEF TypeOK, Work, Goto, Fail, machine, flags
<1>10. CASE Shutdown(p)
  BY <1>10 DEF TypeOK, Shutdown, Goto, machine, flags
<1>11. CASE EjectUnmount(p)
  BY <1>11, NamesAssumption
     DEF TypeOK, EjectUnmount, UnmountDisk, Goto, Fail, flags
<1>12. CASE EjectPowerOff(p)
  BY <1>12, NamesAssumption
     DEF TypeOK, EjectPowerOff, Gone, Goto, Fail, flags
<1>13. CASE Unmount(p)
  BY <1>13, NamesAssumption
     DEF TypeOK, Unmount, UnmountDisk, Goto, Fail, flags
<1>14. CASE Finish(p) \/ Crash(p)
  BY <1>14, NamesAssumption DEF TypeOK, Finish, Crash, Exit, Forget, Goto
<1>15. QED
  BY <1>1, <1>2, <1>3, <1>4, <1>5, <1>6, <1>7, <1>8, <1>9, <1>10, <1>11,
     <1>12, <1>13, <1>14 DEF Continue

\* Each step of a run keeps what is said of that run.
LEMMA ContinueRelease ==
    ASSUME TypeOK, TypeOK', OneDisk, NEW p \in Runs, RunRelease(p),
           Continue(p)
    PROVE  RunRelease(p)'
<1>1. CASE Check(p)
  BY <1>1 DEF TypeOK, RunRelease, Holds, MayHold, Check, Goto, machine, flags
<1>2. CASE Load(p)
  BY <1>2 DEF TypeOK, RunRelease, Holds, MayHold, Load, Forget, Goto, Fail,
              flags
<1>3. CASE Wait(p)
  <2>1. \A d \in Disks : mounter'[d] # p
    BY <1>3 DEF RunRelease, Holds, MayHold, Wait, machine
  <2>2. CASE \E d \in Disks : Found(d) /\ Use(p, d)
    <3>1. PICK d \in Disks : Found(d) /\ Use(p, d)
      BY <2>2
    <3>2. HasTag /\ disk'[p] = d
      BY <3>1, DisksAssumption, NamesAssumption DEF TypeOK, Found, Use
    <3>3. pc'[p] \in {"mount", "shutdown", "mkdir"}
      BY <3>1 DEF TypeOK, Use, Goto
    <3>4. QED
      BY <2>1, <3>2, <3>3 DEF RunRelease
  <2>3. CASE ~\E d \in Disks : Found(d) /\ Use(p, d)
    <3>1. pc'[p] \in {"wait", "shutdown"}
      BY <1>3, <2>3 DEF TypeOK, Wait, Goto, Fail
    <3>2. QED
      BY <2>1, <3>1 DEF RunRelease
  <2>4. QED
    BY <2>2, <2>3
<1>4. CASE Get(p)
  <2>1. \A d \in Disks : mounter'[d] # p
    BY <1>4 DEF RunRelease, Holds, MayHold, Get, machine
  <2>2. PICK d \in DiskOrNone : Found(d) /\ Use(p, d)
    BY <1>4 DEF Get
  <2>3. /\ disk'[p] = d
        /\ pc'[p] \in {"mount", "shutdown", "mkdir"}
        /\ pc'[p] = "mount" => d # None
    BY <2>2 DEF TypeOK, Use, Goto
  <2>4. d # None => HasTag /\ d \in Disks
    BY <2>2 DEF Found, DiskOrNone
  <2>5. QED
    BY <2>1, <2>3, <2>4 DEF RunRelease
<1>5. CASE Mount(p)
  BY <1>5 DEF TypeOK, RunRelease, Holds, MayHold, Mount, MountWorks,
              MountFails, Goto, Fail
<1>6. CASE Mkdir(p)
  BY <1>6 DEF TypeOK, RunRelease, Holds, MayHold, Mkdir, Goto, Fail, machine,
              flags
<1>7. CASE Rsync(p)
  BY <1>7 DEF TypeOK, RunRelease, Holds, MayHold, Rsync, Goto, Fail, machine,
              flags
<1>8. CASE Work(p)
  BY <1>8 DEF TypeOK, RunRelease, Holds, MayHold, Work, Goto, Fail, machine,
              flags
<1>9. CASE Shutdown(p)
  <2>1. CASE (loaded[p] \/ mounted[p]) /\ \E d \in DiskOrNone : Found(d)
             /\ disk' = [disk EXCEPT ![p] = d] /\ Goto(p, Release(p, d))
    <3>1. PICK d \in DiskOrNone :
              Found(d) /\ disk' = [disk EXCEPT ![p] = d]
              /\ Goto(p, Release(p, d))
      BY <2>1
    <3>2. disk'[p] = d /\ pc'[p] = Release(p, d)
      BY <3>1 DEF TypeOK, Goto
    <3>3. /\ Release(p, d) \in {"finish", "ejectUnmount", "ejectPowerOff",
                                "unmount"}
          /\ Release(p, d) # "finish" => d \in Disks
      BY DEF Release, DiskOrNone
    <3>4. ASSUME NEW e \in Disks, mounter[e] = p
          PROVE  /\ HasTag /\ mounted[p] /\ d = e
                 /\ Release(p, d) \in {"ejectUnmount", "unmount"}
      <4>1. HasTag /\ mounted[p]
        BY <3>4 DEF RunRelease, Holds
      <4>2. e \in present /\ IsMounted(e)
        BY <3>4, NamesAssumption DEF TypeOK, IsMounted
      <4>3. d = e
        BY <3>1, <4>1, <4>2 DEF TypeOK, Found, OneDisk
      <4>4. QED
        BY <4>1, <4>2, <4>3, NamesAssumption DEF Release
    <3>5. UNCHANGED <<mounter, mounted, ok>>
      BY <1>9 DEF Shutdown, machine, flags
    <3>6. QED
      BY <3>2, <3>3, <3>4, <3>5 DEF RunRelease, Holds, MayHold
  <2>2. CASE ~loaded[p] /\ ~mounted[p] /\ Goto(p, "finish")
    BY <1>9, <2>2 DEF TypeOK, RunRelease, Holds, Shutdown, Goto, machine
  <2>3. QED
    BY <1>9, <2>1, <2>2 DEF Shutdown
<1>10. CASE EjectUnmount(p)
  <2>1. CASE mounter' = [mounter EXCEPT ![disk[p]] = None]
    BY <1>10, <2>1, NamesAssumption
       DEF TypeOK, RunRelease, Holds, MayHold, EjectUnmount, UnmountDisk,
           Goto, Fail, flags
  <2>2. CASE Fail(p, "finish") /\ UNCHANGED mounter
    BY <1>10, <2>2
       DEF TypeOK, RunRelease, Holds, MayHold, EjectUnmount, Goto, Fail,
           flags
  <2>3. QED
    BY <1>10, <2>1, <2>2 DEF EjectUnmount, UnmountDisk
<1>11. CASE EjectPowerOff(p)
  <2>1. \A d \in Disks : mounter'[d] # p
    BY <1>11, NamesAssumption
       DEF TypeOK, RunRelease, Holds, MayHold, EjectPowerOff, Gone
  <2>2. pc'[p] = "finish"
    BY <1>11 DEF TypeOK, EjectPowerOff, Goto, Fail
  <2>3. QED
    BY <2>1, <2>2 DEF RunRelease
<1>12. CASE Unmount(p)
  <2>1. CASE mounter' = [mounter EXCEPT ![disk[p]] = None]
    <3>1. \A d \in Disks : mounter'[d] # p
      BY <1>12, <2>1, NamesAssumption DEF TypeOK, RunRelease, Holds, Unmount
    <3>2. pc'[p] = "finish"
      BY <1>12 DEF TypeOK, Unmount, UnmountDisk, Goto, Fail
    <3>3. QED
      BY <3>1, <3>2 DEF RunRelease
  <2>2. CASE Fail(p, "finish") /\ UNCHANGED mounter
    BY <1>12, <2>2
       DEF TypeOK, RunRelease, Holds, MayHold, Unmount, Goto, Fail, flags
  <2>3. QED
    BY <1>12, <2>1, <2>2 DEF Unmount, UnmountDisk
<1>13. CASE Finish(p)
  BY <1>13, NamesAssumption
     DEF TypeOK, RunRelease, Finish, Exit, Forget, Goto
<1>14. QED
  BY <1>1, <1>2, <1>3, <1>4, <1>5, <1>6, <1>7, <1>8, <1>9, <1>10, <1>11,
     <1>12, <1>13 DEF Continue

LEMMA ReleaseNext == Slots <= 1 /\ ReleaseInv /\ [Next]_vars => ReleaseInv'
<1> SUFFICES ASSUME Slots <= 1, ReleaseInv, [Next]_vars
             PROVE  ReleaseInv'
  OBVIOUS
<1>1. TypeOK /\ OneDisk /\ \A q \in Runs : RunRelease(q)
  BY ReleaseParts
<1>2. TypeOK' /\ OneDisk'
  BY <1>1, TypeNext, OneDiskKept
<1>3. ASSUME NEW q \in Runs
      PROVE  RunRelease(q)'
  <2>1. CASE UNCHANGED vars
    BY <1>1, <2>1, RunReleaseKept DEF vars
  <2>2. ASSUME NEW d \in Disks, Environment(d)
        PROVE  RunRelease(q)'
    BY <1>1, <2>2, EnvironmentRelease
  <2>3. ASSUME NEW p \in Runs, p # q,
               \/ \E o \in Ops : Start(p, o)
               \/ Continue(p)
               \/ Crash(p)
        PROVE  RunRelease(q)'
    <3>1. /\ pc'[q] = pc[q] /\ ok'[q] = ok[q] /\ disk'[q] = disk[q]
          /\ mounted'[q] = mounted[q]
          /\ \A d \in Disks : mounter'[d] = q => mounter[d] = q
      BY <1>1, <2>3, OthersKept
    <3>2. QED
      BY <1>1, <3>1, RunReleaseKept
  <2>4. ASSUME NEW o \in Ops, Start(q, o)
        PROVE  RunRelease(q)'
    BY <1>1, <2>4
       DEF TypeOK, RunRelease, Holds, MayHold, Start, Goto, machine, flags
  <2>5. CASE Continue(q)
    BY <1>1, <1>2, <2>5, ContinueRelease
  <2>6. CASE Crash(q)
    BY <1>1, <2>6, NamesAssumption
       DEF TypeOK, RunRelease, Crash, Exit, Forget, Goto
  <2>7. QED
    BY <2>1, <2>2, <2>3, <2>4, <2>5, <2>6 DEF Next
<1>4. QED
  BY <1>2, <1>3 DEF ReleaseInv, RunRelease

\* The inductive invariant of the release holds when one disk fits at a time.
THEOREM ReleaseHolds ==
    ASSUME Slots <= 1
    PROVE  Spec => []ReleaseInv
<1>1. ReleaseInv /\ [Next]_vars => ReleaseInv'
  BY ReleaseNext
<1>2. QED
  BY <1>1, ReleaseInit, PTL DEF Spec

\* A run that ends without having noticed a failure leaves nothing mounted that
\* it has mounted itself: shutdown_destination finds the disk again and
\* unmounts it, for any number of runs that share the disk.
THEOREM DiskReleased ==
    ASSUME Slots <= 1
    PROVE  Spec => []NothingLeftMounted
<1>1. ReleaseInv => NothingLeftMounted
  BY DEF ReleaseInv, Holds, NothingLeftMounted
<1>2. QED
  BY <1>1, ReleaseHolds, PTL

-----------------------------------------------------------------------------
(***************************************************************************)
(* When one process runs at a time and nobody takes a disk away, a backup  *)
(* that succeeds is on a disk, for any number of disks and slots           *)
(***************************************************************************)
Undisturbed ==
    /\ \A p, q \in Runs : p = q
    /\ Others \subseteq {"mount"}

RunPlace(p) ==
    /\ pc[p] = "get" /\ HasTag => present # {}
    /\ pc[p] = "mount" => disk[p] \in Disks
    /\ pc[p] = "mkdir" /\ HasTag =>
          realDir[p] \in Disks /\ IsMounted(realDir[p])
    /\ Succeeding(p) /\ HasTag => where[p] \in Disks

LEMMA PlaceParts == PlaceInv <=> TypeOK /\ \A p \in Runs : RunPlace(p)
  BY DEF PlaceInv, RunPlace

LEMMA EnvironmentPlace ==
    ASSUME Others \subseteq {"mount"}, TypeOK, NEW d \in Disks,
           Environment(d), NEW p \in Runs, RunPlace(p)
    PROVE  RunPlace(p)'
<1>1. UNCHANGED mem
  BY DEF Environment, Attach, Appear, Detach, OthersMount, OthersUnmount,
         OthersEject
<1>2. present \subseteq present'
  BY DEF Environment, Attach, Appear, Detach, OthersMount, OthersUnmount,
         OthersEject
<1>3. \A e \in Disks : IsMounted(e) => IsMounted(e)'
  BY NamesAssumption
     DEF TypeOK, IsMounted, Environment, Attach, Appear, Detach, OthersMount,
         OthersUnmount, OthersEject
<1>4. QED
  BY <1>1, <1>2, <1>3 DEF RunPlace, Succeeding, mem

\* The disk that was found is used: mounted already, or still to be mounted.
LEMMA UsePlace ==
    ASSUME TypeOK, NEW p \in Runs, NEW d \in DiskOrNone, Use(p, d),
           HasTag => d \in Disks, UNCHANGED <<mounter, op>>
    PROVE  RunPlace(p)'
<1>1. /\ disk'[p] = d
      /\ pc'[p] \in {"mount", "shutdown", "mkdir"}
      /\ pc'[p] = "shutdown" => op[p] = "status"
      /\ pc'[p] = "mount" => d # None
      /\ pc'[p] # "mount" /\ HasTag => realDir'[p] = d /\ IsMounted(d)
  BY NamesAssumption DEF TypeOK, Use, Goto
<1>2. QED
  BY <1>1 DEF RunPlace, Succeeding, DiskOrNone, IsMounted

LEMMA ContinuePlace ==
    ASSUME TypeOK, NEW p \in Runs, RunPlace(p), Continue(p)
    PROVE  RunPlace(p)'
<1>1. CASE Check(p)
  BY <1>1 DEF TypeOK, RunPlace, Succeeding, Check, Goto, machine, flags
<1>2. CASE Load(p)
  <2>1. pc'[p] \in {"idle", "wait"} \/ (pc'[p] = "shutdown" /\ ~ok'[p])
    <3>1. Forget(p) => pc'[p] = "idle"
      BY DEF TypeOK, Forget, Goto
    <3>2. Goto(p, "wait") => pc'[p] = "wait"
      BY DEF TypeOK, Goto
    <3>3. Fail(p, "shutdown") => pc'[p] = "shutdown" /\ ~ok'[p]
      BY DEF TypeOK, Goto, Fail
    <3>4. Forget(p) \/ Goto(p, "wait") \/ Fail(p, "shutdown")
      BY <1>2 DEF Load
    <3>5. QED
      BY <3>1, <3>2, <3>3, <3>4
  <2>2. QED
    BY <2>1 DEF RunPlace, Succeeding
<1>3. CASE Wait(p)
  <2>1. CASE \E d \in Disks : Use(p, d)
    BY <1>3, <2>1, UsePlace DEF Wait, machine, DiskOrNone
  <2>2. CASE ~\E d \in Disks : Use(p, d)
    <3>1. pc'[p] = "wait" \/ (pc'[p] = "shutdown" /\ ~ok'[p])
      <4>1. pc'[p] = pc[p] \/ Fail(p, "shutdown")
        BY <1>3, <2>2 DEF Wait
      <4>2. QED
        BY <1>3, <4>1 DEF TypeOK, Wait, Goto, Fail
    <3>2. QED
      BY <3>1 DEF RunPlace, Succeeding
  <2>3. QED
    BY <2>1, <2>2
<1>4. CASE Get(p)
  <2>1. PICK d \in DiskOrNone : Found(d) /\ Use(p, d)
    BY <1>4 DEF Get
  <2>2. HasTag => d \in Disks
    BY <1>4, <2>1 DEF TypeOK, RunPlace, Get, Found
  <2>3. QED
    BY <1>4, <2>1, <2>2, UsePlace DEF Get, machine
<1>5. CASE Mount(p)
  <2>1. CASE MountWorks(p)
    <3>1. disk[p] \in Disks
      BY <1>5 DEF RunPlace, Mount
    <3>2. /\ pc'[p] = IF op[p] = "status" THEN "shutdown" ELSE "mkdir"
          /\ realDir'[p] = disk[p]
          /\ mounter'[disk[p]] = p
      BY <2>1, <3>1 DEF TypeOK, MountWorks, Goto
    <3>3. op' = op
      BY <1>5 DEF Mount
    <3>4. QED
      BY <3>1, <3>2, <3>3, NamesAssumption
         DEF RunPlace, Succeeding, IsMounted
  <2>2. CASE MountFails(p)
    BY <2>2 DEF TypeOK, RunPlace, Succeeding, MountFails, Goto, Fail
  <2>3. QED
    BY <1>5, <2>1, <2>2 DEF Mount
<1>6. CASE Mkdir(p)
  BY <1>6, DisksAssumption
     DEF TypeOK, RunPlace, Succeeding, Mkdir, Leads, Goto, Fail
<1>7. CASE Rsync(p)
  BY <1>7 DEF TypeOK, RunPlace, Succeeding, Rsync, Goto, Fail
<1>8. CASE Work(p)
  BY <1>8 DEF TypeOK, RunPlace, Succeeding, Work, Goto, Fail
<1>9. CASE Shutdown(p)
  <2>1. pc'[p] \in {"ejectUnmount", "ejectPowerOff", "unmount", "finish"}
    BY <1>9 DEF TypeOK, Shutdown, Release, Goto
  <2>2. QED
    BY <1>9, <2>1 DEF RunPlace, Succeeding, Shutdown
<1>10. CASE EjectUnmount(p) \/ EjectPowerOff(p) \/ Unmount(p)
  <2>1. /\ Succeeding(p)' => Succeeding(p)
        /\ pc'[p] \in {"ejectPowerOff", "finish"}
        /\ where' = where
    BY <1>10 DEF TypeOK, Succeeding, EjectUnmount, EjectPowerOff, Unmount,
                 UnmountDisk, Goto, Fail
  <2>2. QED
    BY <2>1 DEF RunPlace
<1>11. CASE Finish(p)
  BY <1>11 DEF TypeOK, RunPlace, Succeeding, Finish, Exit, Forget, Goto
<1>12. QED
  BY <1>1, <1>2, <1>3, <1>4, <1>5, <1>6, <1>7, <1>8, <1>9, <1>10, <1>11
     DEF Continue

LEMMA PlaceNext == Undisturbed /\ PlaceInv /\ [Next]_vars => PlaceInv'
<1> SUFFICES ASSUME Undisturbed, PlaceInv, [Next]_vars
             PROVE  PlaceInv'
  OBVIOUS
<1>1. TypeOK /\ \A q \in Runs : RunPlace(q)
  BY PlaceParts
<1>2. ASSUME NEW p \in Runs
      PROVE  RunPlace(p)'
  <2>1. CASE UNCHANGED vars
    BY <1>1, <2>1 DEF RunPlace, Succeeding, IsMounted, vars
  <2>2. ASSUME NEW d \in Disks, Environment(d)
        PROVE  RunPlace(p)'
    BY <1>1, <2>2, EnvironmentPlace DEF Undisturbed
  <2>3. ASSUME NEW o \in Ops, Start(p, o)
        PROVE  RunPlace(p)'
    BY <1>1, <2>3 DEF TypeOK, RunPlace, Succeeding, Start, Goto
  <2>4. CASE Continue(p)
    BY <1>1, <2>4, ContinuePlace
  <2>5. CASE Crash(p)
    BY <1>1, <2>5
       DEF TypeOK, RunPlace, Succeeding, Crash, Exit, Forget, Goto
  <2>6. QED
    BY <2>1, <2>2, <2>3, <2>4, <2>5 DEF Next, Undisturbed
<1>3. QED
  BY <1>1, <1>2, TypeNext DEF PlaceInv, RunPlace

\* The inductive invariant of the place holds when nobody disturbs the run.
THEOREM PlaceHolds ==
    ASSUME Undisturbed
    PROVE  Spec => []PlaceInv
<1>1. Init => PlaceInv
  BY TypeInit DEF Init, PlaceInv, Succeeding
<1>2. PlaceInv /\ [Next]_vars => PlaceInv'
  BY PlaceNext
<1>3. QED
  BY <1>1, <1>2, PTL DEF Spec

\* A backup that succeeds with a tag configured is on a disk of the tag, and
\* never in the configured directory, whatever fails and wherever the run
\* found the disk.
THEOREM BackupIsOnDisk ==
    ASSUME Undisturbed
    PROVE  Spec => []BackupOnDisk
<1>1. PlaceInv => BackupOnDisk
  BY DEF PlaceInv, Succeeding, BackupOnDisk
<1>2. QED
  BY <1>1, PlaceHolds, PTL

-----------------------------------------------------------------------------
(***************************************************************************)
(* Why a run ends                                                          *)
(***************************************************************************)

\* The phases in the order in which a run goes through them.
Order == [check |-> 1, load |-> 2, wait |-> 3, get |-> 3, mount |-> 4, mkdir |-> 5,
          rsync |-> 6, working |-> 7, shutdown |-> 8, ejectUnmount |-> 9,
          ejectPowerOff |-> 10, unmount |-> 10, finish |-> 11, idle |-> 12]

\* A later phase, or one interval less to wait.
GetsOn(p) ==
    \/ Order[pc'[p]] > Order[pc[p]]
    \/ /\ pc'[p] = pc[p]
       /\ left[p] > 0 /\ left'[p] = left[p] - 1

\* No step of a run leaves it where it was, whatever the disks do: each leads to a
\* later phase or takes one of the intervals that it waits for a disk.  This is
\* why shutdown_destination is reached after every failure of the preparation
\* or the work, which EveryMountEnds rests on.
THEOREM EachStepGetsOn ==
    ASSUME TypeOK, NEW p \in Runs, Continue(p)
    PROVE  GetsOn(p)
<1> USE DEF TypeOK
<1>1. CASE Check(p) \/ Load(p) \/ Get(p) \/ Mount(p) \/ Mkdir(p) \/ Rsync(p) \/ Work(p)
  <2>1. \/ pc[p] = "check" /\ pc'[p] \in {"load", "get"}
        \/ pc[p] = "load" /\ pc'[p] \in {"wait", "shutdown", "idle"}
        \/ pc[p] = "get" /\ pc'[p] \in {"mount", "mkdir", "shutdown"}
        \/ pc[p] = "mount" /\ pc'[p] \in {"mkdir", "shutdown"}
        \/ pc[p] = "mkdir" /\ pc'[p] \in {"rsync", "shutdown"}
        \/ pc[p] = "rsync" /\ pc'[p] \in {"working", "shutdown"}
        \/ pc[p] = "working" /\ pc'[p] = "shutdown"
    BY <1>1 DEF Check, Load, Get, Use, Mount, MountWorks, MountFails, Mkdir, Rsync, Work,
                Forget, Fail, Goto
  <2>2. QED
    BY <2>1 DEF GetsOn, Order
<1>2. CASE Wait(p)
  <2>1. pc[p] = "wait" /\ left[p] \in 0 .. Timeout
    BY <1>2 DEF Wait
  <2>2. CASE pc'[p] \in {"mount", "mkdir", "shutdown"}
    BY <2>1, <2>2 DEF GetsOn, Order
  <2>3. CASE UNCHANGED pc /\ StillTime(p) /\ left' = [left EXCEPT ![p] = @ - 1]
    BY <2>1, <2>3, BoundsAssumption DEF GetsOn, StillTime
  <2>4. QED
    BY <1>2, <2>2, <2>3 DEF Wait, Use, Fail, Goto
<1>3. CASE Shutdown(p) \/ EjectUnmount(p) \/ EjectPowerOff(p) \/ Unmount(p) \/ Finish(p)
  <2>1. \/ pc[p] = "shutdown" /\ pc'[p] \in {"ejectUnmount", "ejectPowerOff", "unmount", "finish"}
        \/ pc[p] = "ejectUnmount" /\ pc'[p] \in {"ejectPowerOff", "finish"}
        \/ pc[p] \in {"ejectPowerOff", "unmount"} /\ pc'[p] = "finish"
        \/ pc[p] = "finish" /\ pc'[p] = "idle"
    BY <1>3 DEF Shutdown, Release, EjectUnmount, EjectPowerOff, Unmount, UnmountDisk,
                Finish, Exit, Forget, Fail, Goto
  <2>2. QED
    BY <2>1 DEF GetsOn, Order
<1>4. QED
  BY <1>1, <1>2, <1>3 DEF Continue
=============================================================================
