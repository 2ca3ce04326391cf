---------------------------- MODULE DiskRegistry ----------------------------
(***************************************************************************)
(* The processes that share the registry of the external disk manager:     *)
(* edskmgr started by hand, by udev and by other programs, and ini-util.   *)
(* Each disk has one file in conf.d, named after it, with its pattern, its *)
(* tags and whether it is external.  The name of whoever asked for the     *)
(* operation in progress, the trigger, is passed in a file under /tmp.     *)
(* Nothing is locked and a process may die anywhere.                       *)
(*                                                                         *)
(* A file is read, and read again and written, in one step each: what a    *)
(* process keeps from a file is its memory of it, and that may be old.     *)
(***************************************************************************)
EXTENDS IniSection, FiniteSets

CONSTANTS
    Procs,      \* the processes
    Disks,      \* the disks; stands for their names and their patterns
    Tags,       \* the tags
    TagLists,   \* the values of --tag, None without it
    Kinds,      \* what the processes are started for, see Kind
    Faults,     \* what may go wrong, see Fault
    MaxStarts,  \* bound of the processes started
    Blank,      \* the empty text, which an empty value is read as
    None        \* Python's None

Kind == {"register", "unregister", "reset",
         "eject",   \* with --trigger
         "backup",  \* a trigger given to the constructor
         "udev",    \* the hooks
         "edit"}    \* ini-util
Fault == {"crash", "save", "remove"}

ASSUME KindsAssumption == Kinds \subseteq Kind /\ Faults \subseteq Fault
ASSUME TagsAssumption == TagLists \subseteq Seq(Tags) \union {None}
ASSUME StartsAssumption == MaxStarts \in Nat
\* A line of a file of conf.d and of the private operation data.
FileLine == [key : {"Pattern", "Tags", "External"},
             value : Disks \union Tags \union BOOLEAN \union {Blank}]
PrivateLine == [key : {"Trigger"}, value : Procs]

\* None is neither a list of lines nor a list of tags.
ASSUME NoneAssumption ==
    None \notin Seq(FileLine) \union Seq(PrivateLine) \union Seq(Tags \union {Blank})

VARIABLES
    files,      \* conf.d: the lines of the file of each disk, None without one
    private,    \* the lines of edskmgr_operation.private, None without it
    pc,
    op,         \* what the process was started for
    todo,       \* the files still to be read, removed or written
    items,      \* config._items: what the process has in memory of each disk
    trigger,    \* _trigger
    owner,      \* _private_operation_data is set
    failed,     \* the exit status
    starts,     \* the number of processes started
    beside,     \* the processes that ran while this one did (not in the code)
    stale       \* a process has died or could not remove the private operation
                \* data (not in the code)

shared == <<files, private>>
mem == <<pc, op, todo, items, trigger, owner, failed>>
ghosts == <<starts, beside, stale>>
vars == <<files, private, pc, op, todo, items, trigger, owner, failed, starts,
          beside, stale>>

NoOp == [kind |-> "udev", disk |-> None, tags |-> None]
NoItems == [d \in {} |-> None]
Operations ==
    [kind : {"register"} \cap Kinds, disk : Disks, tags : TagLists]
    \union [kind : {"unregister"} \cap Kinds, disk : Disks, tags : {<<>>}]
    \union [kind : {"reset", "eject", "backup", "udev"} \cap Kinds,
            disk : {None}, tags : {None}]
    \union [kind : {"edit"} \cap Kinds, disk : Disks, tags : {None}]

Item == [tags : Seq(Tags \union {Blank}) \union {None}, external : BOOLEAN]

Init ==
    /\ files = [d \in Disks |-> None]
    /\ private = None
    /\ pc = [p \in Procs |-> "idle"]
    /\ op = [p \in Procs |-> NoOp]
    /\ todo = [p \in Procs |-> {}]
    /\ items = [p \in Procs |-> NoItems]
    /\ trigger = [p \in Procs |-> None]
    /\ owner = [p \in Procs |-> FALSE]
    /\ failed = [p \in Procs |-> FALSE]
    /\ starts = 0
    /\ beside = [p \in Procs |-> {}]
    /\ stale = FALSE

-----------------------------------------------------------------------------
Active == {p \in Procs : pc[p] # "idle"}
Goto(p, label) == pc' = [pc EXCEPT ![p] = label]
Lines(file) == IF file = None THEN <<>> ELSE file
Keep(p, d, item) ==
    items' = [items EXCEPT ![p] =
                 [e \in DOMAIN items[p] \union {d} |->
                     IF e = d THEN item ELSE items[p][e]]]

\* The process is gone and its memory with it.
Forget(p) ==
    /\ pc' = [pc EXCEPT ![p] = "idle"]
    /\ op' = [op EXCEPT ![p] = NoOp]
    /\ todo' = [todo EXCEPT ![p] = {}]
    /\ items' = [items EXCEPT ![p] = NoItems]
    /\ trigger' = [trigger EXCEPT ![p] = None]
    /\ owner' = [owner EXCEPT ![p] = FALSE]
    /\ failed' = [failed EXCEPT ![p] = FALSE]
    /\ beside' = [beside EXCEPT ![p] = {}]

\* What _read_conf makes of the lines of a file, and what _write_conf makes of
\* the lines it finds there.
ReadConf(lines) ==
    [tags |-> GetAsArray(lines, "Tags", <<>>),
     external |-> Get(lines, "External", FALSE)]
WriteConf(lines, d, item) ==
    LET named == SetScalar(lines, "Pattern", d)
        tagged == IF item.tags = None THEN SetScalar(named, "Tags", Blank)
                                      ELSE SetList(named, "Tags", item.tags)
    IN  SetScalar(tagged, "External", item.external)

-----------------------------------------------------------------------------
(* Starting up.                                                            *)

Start(p, o) ==
    /\ pc[p] = "idle"
    /\ starts < MaxStarts
    /\ starts' = starts + 1
    /\ op' = [op EXCEPT ![p] = o]
    /\ Goto(p, CASE o.kind = "edit" -> "edit"
                 [] o.kind = "eject" -> "announce"
                 [] OTHER -> "list")
    \* the trigger given to the constructor
    /\ trigger' = [trigger EXCEPT ![p] = IF o.kind = "backup" THEN p ELSE None]
    /\ beside' = [q \in Procs |-> CASE q = p -> Active
                                   [] q \in Active -> beside[q] \union {p}
                                   [] OTHER -> {}]
    /\ UNCHANGED <<shared, todo, items, owner, failed, stale>>

\* The setter of trigger.  It is the owner of the file before it writes it, and
\* nobody asks whether it was written: it may be what it was, or empty.
\* Wrong: the process does not note that it owns the file.
AnnounceUnowned(p) ==
    /\ pc[p] = "announce"
    /\ trigger' = [trigger EXCEPT ![p] = p]
    /\ private' = SetScalar(Lines(private), "Trigger", p)
    /\ Goto(p, "list")
    /\ UNCHANGED <<files, op, todo, items, owner, failed, ghosts>>
Announce(p) ==
    /\ pc[p] = "announce"
    /\ trigger' = [trigger EXCEPT ![p] = p]
    /\ owner' = [owner EXCEPT ![p] = TRUE]
    /\ \/ private' = SetScalar(Lines(private), "Trigger", p)
       \/ "save" \in Faults /\ private' \in {private, <<>>}
    /\ Goto(p, "list")
    /\ UNCHANGED <<files, op, todo, items, failed, ghosts>>

List(p) ==
    /\ pc[p] = "list"
    /\ todo' = [todo EXCEPT ![p] = {d \in Disks : files[d] # None}]
    /\ Goto(p, "read")
    /\ UNCHANGED <<shared, op, items, trigger, owner, failed, ghosts>>

\* A file without a pattern is no disk: it is empty, or gone meanwhile.
Read(p, d) ==
    /\ pc[p] = "read"
    /\ d \in todo[p]
    /\ IF First(Lines(files[d]), "Pattern") = 0 THEN UNCHANGED items
       ELSE Keep(p, d, ReadConf(files[d]))
    /\ todo' = [todo EXCEPT ![p] = @ \ {d}]
    /\ UNCHANGED <<shared, pc, op, trigger, owner, failed, ghosts>>

\* Loading the private operation data: first whether the file is there, ...
\* Wrong: the data are forgotten whether there is a file or not.
LookAndForget(p) ==
    /\ pc[p] = "read"
    /\ todo[p] = {}
    /\ trigger' = [trigger EXCEPT ![p] = None]
    /\ owner' = [owner EXCEPT ![p] = FALSE]
    /\ Goto(p, IF private = None THEN "act" ELSE "load")
    /\ UNCHANGED <<shared, op, todo, items, failed, ghosts>>
Look(p) ==
    /\ pc[p] = "read"
    /\ todo[p] = {}
    /\ IF private = None
       THEN /\ Goto(p, "act")
            /\ trigger' = [trigger EXCEPT ![p] = None]
            /\ owner' = [owner EXCEPT ![p] = FALSE]
       ELSE /\ Goto(p, "load")
            /\ UNCHANGED <<trigger, owner>>
    /\ UNCHANGED <<shared, op, todo, items, failed, ghosts>>

\* ... then what is in it, nothing if it is gone meanwhile.
\* Wrong: an empty text.
LoadEmpty(p) ==
    /\ pc[p] = "load"
    /\ trigger' = [trigger EXCEPT ![p] = Get(Lines(private), "Trigger", Blank)]
    /\ Goto(p, "act")
    /\ UNCHANGED <<shared, op, todo, items, owner, failed, ghosts>>
Load(p) ==
    /\ pc[p] = "load"
    /\ trigger' = [trigger EXCEPT ![p] = Get(Lines(private), "Trigger", None)]
    /\ Goto(p, "act")
    /\ UNCHANGED <<shared, op, todo, items, owner, failed, ghosts>>

-----------------------------------------------------------------------------
(* The operations.                                                         *)

\* --register and --unregister, which registers as internal and without tags.
\* A disk that is not attached is reported, but the status is not changed.
Register(p) ==
    /\ pc[p] = "act"
    /\ op[p].kind \in {"register", "unregister"}
    /\ \/ Keep(p, op[p].disk, [tags |-> op[p].tags,
                               external |-> op[p].kind = "register"])
       \/ UNCHANGED items
    /\ todo' = [todo EXCEPT ![p] = DOMAIN items'[p]]
    /\ Goto(p, "save")
    /\ UNCHANGED <<shared, op, trigger, owner, failed, ghosts>>

\* --reset-config removes the files but keeps what it remembers of them; the
\* attached disks are registered as internal, all are written again.
Reset(p) ==
    /\ pc[p] = "act"
    /\ op[p].kind = "reset"
    /\ todo' = [todo EXCEPT ![p] = DOMAIN items[p]]
    /\ Goto(p, "remove")
    /\ UNCHANGED <<shared, op, items, trigger, owner, failed, ghosts>>

RemoveFile(p, d) ==
    /\ pc[p] = "remove"
    /\ d \in todo[p]
    /\ todo' = [todo EXCEPT ![p] = @ \ {d}]
    /\ \/ /\ files' = [files EXCEPT ![d] = None]
          /\ failed' = [failed EXCEPT ![p] = @ \/ files[d] = None]
       \/ /\ "remove" \in Faults
          /\ failed' = [failed EXCEPT ![p] = TRUE]
          /\ UNCHANGED files
    /\ UNCHANGED <<private, pc, op, items, trigger, owner, ghosts>>

RegisterAttached(p) ==
    /\ pc[p] = "remove"
    /\ todo[p] = {}
    /\ IF failed[p] THEN Goto(p, "cleanup") /\ UNCHANGED <<todo, items>>
       ELSE \E attached \in SUBSET Disks :
               /\ items' = [items EXCEPT ![p] =
                               [d \in DOMAIN @ \union attached |->
                                   IF d \in attached
                                   THEN [tags |-> <<>>, external |-> FALSE]
                                   ELSE @[d]]]
               /\ todo' = [todo EXCEPT ![p] = DOMAIN items'[p]]
               /\ Goto(p, "save")
    /\ UNCHANGED <<shared, op, trigger, owner, failed, ghosts>>

\* --eject and the backup remove disks and leave the registry alone.
Eject(p) ==
    /\ pc[p] = "act"
    /\ op[p].kind \in {"eject", "backup"}
    /\ Goto(p, "cleanup")
    /\ UNCHANGED <<shared, op, todo, items, trigger, owner, failed, ghosts>>

\* Only udev runs hooks, in processes of its own and in the name that they have
\* loaded.  The child that runs them goes on to the cleanup.
RunHooks(p) ==
    /\ pc[p] = "act"
    /\ op[p].kind = "udev"
    /\ Goto(p, "cleanup")
    /\ UNCHANGED <<shared, op, todo, items, trigger, owner, failed, ghosts>>

\* ini-util -e and -d on the tags of a disk; it fails without the file.  Its -a
\* fails always.
Edit(p) ==
    /\ pc[p] = "edit"
    /\ LET old == files[op[p].disk]
           Put(new) == files' = [files EXCEPT ![op[p].disk] = new]
       IN  IF old = None THEN UNCHANGED files
           ELSE \/ \E t \in Tags : Put(SetScalar(old, "Tags", t))
                \/ Put(RemoveLine(old, "Tags"))
    /\ Forget(p)
    /\ UNCHANGED <<private, starts, stale>>

\* save: each item is written over the file that is there, or a new one.  When
\* that fails the file is what it was, or empty.
Save(p, d) ==
    /\ pc[p] = "save"
    /\ d \in todo[p]
    /\ todo' = [todo EXCEPT ![p] = @ \ {d}]
    /\ \/ /\ files' = [files EXCEPT ![d] = WriteConf(Lines(@), d, items[p][d])]
          /\ UNCHANGED failed
       \/ /\ "save" \in Faults
          /\ failed' = [failed EXCEPT ![p] = TRUE]
          /\ \E file \in {files[d], <<>>} : files' = [files EXCEPT ![d] = file]
    /\ UNCHANGED <<private, pc, op, items, trigger, owner, ghosts>>

Saved(p) ==
    /\ pc[p] = "save"
    /\ todo[p] = {}
    /\ Goto(p, "cleanup")
    /\ UNCHANGED <<shared, op, todo, items, trigger, owner, failed, ghosts>>

\* Only who owns the private operation data removes them.  Nobody asks whether
\* they could be removed.
Cleanup(p) ==
    /\ pc[p] = "cleanup"
    /\ \/ /\ private' = IF owner[p] THEN None ELSE private
          /\ UNCHANGED stale
       \/ /\ "remove" \in Faults /\ owner[p] /\ private # None
          /\ stale' = TRUE
          /\ UNCHANGED private
    /\ Forget(p)
    /\ UNCHANGED <<files, starts>>

\* A process dies, before a step or in the middle of the writing of a file.
Crash(p) ==
    /\ "crash" \in Faults
    /\ pc[p] # "idle"
    /\ Forget(p)
    /\ \/ UNCHANGED shared
       \/ /\ pc[p] = "announce" /\ private' = <<>> /\ UNCHANGED files
       \/ /\ pc[p] = "save" /\ UNCHANGED private
          /\ \E d \in todo[p] : files' = [files EXCEPT ![d] = <<>>]
    /\ stale' = TRUE
    /\ UNCHANGED starts

-----------------------------------------------------------------------------
Step(p) ==
    \/ \E o \in Operations : Start(p, o)
    \/ Announce(p) \/ List(p) \/ Look(p) \/ Load(p)
    \/ Register(p) \/ Reset(p) \/ RegisterAttached(p)
    \/ Eject(p) \/ RunHooks(p) \/ Edit(p) \/ Saved(p) \/ Cleanup(p) \/ Crash(p)
    \/ \E d \in Disks : Read(p, d) \/ RemoveFile(p, d) \/ Save(p, d)

Next == \E p \in Procs : Step(p)
Spec == Init /\ [][Next]_vars

-----------------------------------------------------------------------------
File == Seq(FileLine) \union {None}
Phase == {"idle", "announce", "list", "read", "load", "act", "remove", "save",
          "cleanup", "edit"}

TypeOK ==
    /\ files \in [Disks -> File]
    /\ private \in Seq(PrivateLine) \union {None}
    /\ pc \in [Procs -> Phase]
    /\ op \in [Procs -> Operations \union {NoOp}]
    /\ todo \in [Procs -> SUBSET Disks]
    /\ \A p \in Procs : /\ DOMAIN items[p] \subseteq Disks
                        /\ \A d \in DOMAIN items[p] : items[p][d] \in Item
    /\ trigger \in [Procs -> Procs \union {None}]
    /\ owner \in [Procs -> BOOLEAN]
    /\ failed \in [Procs -> BOOLEAN]
    /\ starts \in 0 .. MaxStarts
    /\ beside \in [Procs -> SUBSET Procs]
    /\ stale \in BOOLEAN

\* What an undisturbed edskmgr has in memory when it reports success is what
\* the next process will read (_write_conf and _read_conf, edskmgr_config.py
\* lines 146-159): of the disk it was started for at least the tags that were
\* asked for, of all others exactly what it had read itself.  To save what was
\* loaded changes nothing, whatever order the lines were left in.
SavedIsRead ==
    \A p \in Procs :
        (/\ pc[p] = "cleanup" /\ beside[p] = {} /\ ~failed[p]
         /\ op[p].kind \in {"register", "unregister", "reset"}) =>
            \A d \in DOMAIN items[p] :
                LET read == ReadConf(files[d])
                    item == items[p][d]
                IN  /\ read.external = item.external
                    /\ IF op[p].disk # d THEN read.tags = item.tags
                       ELSE item.tags # None => ToSet(item.tags) \subseteq ToSet(read.tags)

\* The private operation data are those of a process that still runs and owns
\* them (edskmgr.py lines 28-31 and 76-111): in them is the name of one, or
\* nothing when they could not be written.  It holds in whatever order processes
\* write, load and remove them, and whichever writes fail, until one dies or
\* cannot remove them.
TriggerIsAlive ==
    (private # None /\ ~stale) =>
        \E p \in Procs : owner[p] /\ Get(private, "Trigger", None) \in {p, None}

\* The name in which udev runs its hooks (EDSKMGR_TRIGGER, edskmgr.py lines 301
\* to 303 and 380), if there is one, is that of another process that ran while they did:
\* the name of an operation never gets to hooks that udev starts after its end.
\* Again until one dies or cannot remove the private operation data.
HooksInName ==
    \A p \in Procs :
        (op[p].kind = "udev" /\ trigger[p] # None /\ ~stale) =>
            trigger[p] \in beside[p]
=============================================================================
