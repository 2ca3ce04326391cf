------------------------- MODULE DiskRegistryProofs -------------------------
(***************************************************************************)
(* Proofs about the private operation data of DiskRegistry, for every      *)
(* number of processes and disks.                                          *)
(***************************************************************************)
EXTENDS DiskRegistry, IniSectionProofs

\* The private operation data with the name of a process in them.
Named(p) == <<[key |-> "Trigger", value |-> p]>>

-----------------------------------------------------------------------------
(* The functions of arsoft.inifile on sections of no or one line.          *)

\* To set the trigger in an empty file makes it the only line.
LEMMA SetInEmpty ==
    ASSUME NEW p
    PROVE  SetScalar(<<>>, "Trigger", p) = Named(p)
  <1>1. First(<<>>, "Trigger") = 0
    BY DEF First, Places
  <1>2. Append(<<>>, [key |-> "Trigger", value |-> p]) = <<[key |-> "Trigger", value |-> p]>>
    OBVIOUS
  <1> QED BY <1>1, <1>2 DEF SetScalar, AppendLine, Line, Named

\* The one line of the trigger is the first line of the trigger.
LEMMA FirstOfNamed ==
    ASSUME NEW q
    PROVE  First(Named(q), "Trigger") = 1
  <1>1. Places(Named(q), "Trigger") = {1}
    BY DEF Named, Places
  <1>2. Min({1}) = 1
    BY DEF Min
  <1> QED BY <1>1, <1>2 DEF First

\* To set the trigger again changes that line.
LEMMA SetInNamed ==
    ASSUME NEW p, NEW q
    PROVE  SetScalar(Named(q), "Trigger", p) = Named(p)
  <1>1. First(Named(q), "Trigger") = 1
    BY FirstOfNamed
  <1>2. \A i : i = 1 => [Named(q) EXCEPT ![i].value = p] = [Named(q) EXCEPT ![1].value = p]
    OBVIOUS
  <1>3. SetScalar(Named(q), "Trigger", p) = [Named(q) EXCEPT ![First(Named(q), "Trigger")].value = p]
    BY <1>1, 1 # 0 DEF SetScalar
  <1> QED BY <1>1, <1>2, <1>3 DEF Named

\* What was set is what is read.
LEMMA GetOfNamed ==
    ASSUME NEW q
    PROVE  Get(Named(q), "Trigger", None) = q
  BY FirstOfNamed DEF Get, Named

\* What was set is a list of lines and so no None.
LEMMA NamedIsNotNone ==
    ASSUME NEW q \in Procs
    PROVE  Named(q) \in Seq(PrivateLine) /\ Named(q) # None
  <1>1. Named(q) \in Seq(PrivateLine)
    BY DEF Named, PrivateLine
  <1> QED BY <1>1, NoneAssumption

-----------------------------------------------------------------------------
(* The inductive invariant: what of the state the trigger depends on.      *)

OwnersInv ==
    /\ pc \in [Procs -> Phase]
    /\ owner \in [Procs -> BOOLEAN]
    /\ trigger \in [Procs -> Procs \union {None}]
    /\ beside \in [Procs -> SUBSET Procs]
    /\ DOMAIN op = Procs
    /\ \A p \in Procs : owner[p] => /\ pc[p] \notin {"idle", "announce", "edit"}
                                    /\ op[p].kind = "eject"
    /\ \A p \in Procs : pc[p] = "announce" => op[p].kind = "eject"
    /\ \A p \in Procs : pc[p] = "idle" => trigger[p] = None

\* The private file has no line but the trigger, and none when its writing
\* failed or was cut short.
PrivateShape == private \in {None, <<>>} \union {Named(p) : p \in Procs}

\* Somebody who runs will remove the file, whose name is in it if there is one.
NameOwned ==
    (private # None /\ ~stale) =>
        \E p \in Procs : owner[p] /\ private \in {<<>>, Named(p)}

\* Who runs at the same time knows of each other.
BesideInv ==
    \A p, q \in Procs : (p # q /\ pc[p] # "idle" /\ pc[q] # "idle") => q \in beside[p]

RegistryInv == OwnersInv /\ PrivateShape /\ NameOwned /\ BesideInv /\ HooksInName

-----------------------------------------------------------------------------
(* The invariant holds at the start.                                       *)

LEMMA RegistryInit == Init => RegistryInv
  <1> SUFFICES ASSUME Init PROVE RegistryInv
    OBVIOUS
  <1>1. OwnersInv
    BY DEF Init, OwnersInv, Phase
  <1>2. PrivateShape /\ NameOwned
    BY DEF Init, PrivateShape, NameOwned
  <1>3. BesideInv /\ HooksInName
    BY DEF Init, BesideInv, HooksInName
  <1> QED BY <1>1, <1>2, <1>3 DEF RegistryInv

-----------------------------------------------------------------------------
(* What is shared by the steps.                                            *)

\* A step of a running process that leaves the private data, the names and the
\* owners alone and takes it from one phase of its operation to another.
LEMMA QuietStep ==
    ASSUME RegistryInv, NEW p \in Procs, NEW label \in Phase,
           pc[p] \notin {"idle", "announce", "edit"},
           label \notin {"idle", "announce", "edit"},
           pc' = [pc EXCEPT ![p] = label],
           UNCHANGED <<private, op, trigger, owner, beside, stale>>
    PROVE  RegistryInv'
  <1>1. OwnersInv'
    BY DEF RegistryInv, OwnersInv
  <1>2. PrivateShape' /\ NameOwned'
    BY DEF RegistryInv, PrivateShape, NameOwned
  <1>3. BesideInv'
    BY DEF RegistryInv, OwnersInv, BesideInv
  <1>4. HooksInName'
    BY DEF RegistryInv, HooksInName
  <1> QED BY <1>1, <1>2, <1>3, <1>4 DEF RegistryInv

\* A process ends: nothing is known of it any more.  What becomes of the file
\* is shown for each way to end.
LEMMA ForgetStep ==
    ASSUME RegistryInv, NEW p \in Procs, Forget(p), pc[p] # "idle",
           stale' \in {stale, TRUE}, PrivateShape', NameOwned'
    PROVE  RegistryInv'
  <1>1. OwnersInv'
    BY DEF RegistryInv, OwnersInv, Forget, Phase
  <1>2. BesideInv'
    BY DEF RegistryInv, OwnersInv, BesideInv, Forget
  <1>3. HooksInName'
    <2> SUFFICES ASSUME NEW q \in Procs, op'[q].kind = "udev", trigger'[q] # None, ~stale'
                 PROVE  trigger'[q] \in beside'[q]
      BY DEF HooksInName
    <2>1. q # p
      BY DEF Forget, RegistryInv, OwnersInv
    <2>2. op'[q] = op[q] /\ trigger'[q] = trigger[q] /\ beside'[q] = beside[q]
      BY <2>1 DEF Forget, RegistryInv, OwnersInv
    <2>3. ~stale
      OBVIOUS
    <2> QED BY <2>2, <2>3 DEF RegistryInv, HooksInName
  <1> QED BY <1>1, <1>2, <1>3 DEF RegistryInv

-----------------------------------------------------------------------------
(* One lemma for each action that is more than a quiet step.               *)

LEMMA StartKeeps ==
    ASSUME RegistryInv, NEW p \in Procs, NEW o \in Operations, Start(p, o)
    PROVE  RegistryInv'
  <1>1. /\ pc[p] = "idle" /\ ~owner[p]
        /\ pc' = [pc EXCEPT ![p] = pc'[p]]
        /\ pc'[p] \in {"edit", "announce", "list"}
        /\ pc'[p] = "announce" => o.kind = "eject"
        /\ op' = [op EXCEPT ![p] = o]
        /\ UNCHANGED <<private, owner, stale>>
    BY DEF Start, Goto, shared, RegistryInv, OwnersInv
  <1>2. /\ beside' \in [Procs -> SUBSET Procs]
        /\ beside'[p] = Active
        /\ \A q \in Active : beside'[q] = beside[q] \union {p}
    <2>1. p \notin Active /\ Active \subseteq Procs
      BY <1>1 DEF Active
    <2> QED BY <2>1 DEF Start, RegistryInv, OwnersInv
  <1>3. /\ trigger' = [trigger EXCEPT ![p] = trigger'[p]]
        /\ trigger'[p] \in Procs \union {None}
        /\ o.kind = "udev" => trigger'[p] = None
    BY DEF Start, RegistryInv, OwnersInv
  <1>4. OwnersInv'
    BY <1>1, <1>2, <1>3 DEF RegistryInv, OwnersInv, Phase
  <1>5. PrivateShape' /\ NameOwned'
    BY <1>1 DEF RegistryInv, PrivateShape, NameOwned
  <1>6. BesideInv'
    BY <1>1, <1>2 DEF RegistryInv, OwnersInv, BesideInv, Active
  <1>7. HooksInName'
    <2> SUFFICES ASSUME NEW q \in Procs, op'[q].kind = "udev", trigger'[q] # None, ~stale'
                 PROVE  trigger'[q] \in beside'[q]
      BY DEF HooksInName
    <2>1. q # p
      BY <1>1, <1>3 DEF RegistryInv, OwnersInv
    <2>2. op'[q] = op[q] /\ trigger'[q] = trigger[q] /\ ~stale
      BY <1>1, <1>3, <2>1 DEF RegistryInv, OwnersInv
    <2>3. trigger[q] \in beside[q]
      BY <2>2 DEF RegistryInv, HooksInName
    <2>4. q \in Active
      BY <2>2 DEF RegistryInv, OwnersInv, Active
    <2> QED BY <1>2, <2>2, <2>3, <2>4
  <1> QED BY <1>4, <1>5, <1>6, <1>7 DEF RegistryInv

LEMMA AnnounceKeeps ==
    ASSUME RegistryInv, NEW p \in Procs, Announce(p)
    PROVE  RegistryInv'
  <1>1. private' \in {Named(p), private, <<>>}
    <2>1. SetScalar(Lines(private), "Trigger", p) = Named(p)
      <3>1. CASE private = None \/ private = <<>>
        BY <3>1, SetInEmpty DEF Lines
      <3>2. CASE \E q \in Procs : private = Named(q)
        <4>1. PICK q \in Procs : private = Named(q)
          BY <3>2
        <4>2. Lines(private) = Named(q)
          BY <4>1, NamedIsNotNone DEF Lines
        <4> QED BY <4>2, SetInNamed
      <3> QED BY <3>1, <3>2 DEF RegistryInv, PrivateShape
    <2> QED BY <2>1 DEF Announce
  <1>2. /\ pc[p] = "announce" /\ pc' = [pc EXCEPT ![p] = "list"]
        /\ op[p].kind = "eject"
        /\ trigger' = [trigger EXCEPT ![p] = p]
        /\ owner' = [owner EXCEPT ![p] = TRUE]
        /\ UNCHANGED <<op, beside, stale>>
    BY DEF Announce, Goto, ghosts, RegistryInv, OwnersInv
  <1>3. OwnersInv'
    BY <1>2 DEF RegistryInv, OwnersInv, Phase
  <1>4. PrivateShape'
    BY <1>1 DEF RegistryInv, PrivateShape
  <1>5. NameOwned'
    <2>1. owner'[p] /\ \A q \in Procs : owner[q] => owner'[q]
      BY <1>2 DEF RegistryInv, OwnersInv
    <2> QED BY <1>1, <1>2, <2>1 DEF RegistryInv, NameOwned, Named
  <1>6. BesideInv'
    BY <1>2 DEF RegistryInv, OwnersInv, BesideInv
  <1>7. HooksInName'
    BY <1>2 DEF RegistryInv, OwnersInv, HooksInName
  <1> QED BY <1>3, <1>4, <1>5, <1>6, <1>7 DEF RegistryInv

LEMMA LookKeeps ==
    ASSUME RegistryInv, NEW p \in Procs, Look(p)
    PROVE  RegistryInv'
  <1>1. pc[p] = "read" /\ UNCHANGED <<private, op, beside, stale>>
    BY DEF Look, shared, ghosts
  <1>2. CASE private = None
    <2>1. /\ pc' = [pc EXCEPT ![p] = "act"]
          /\ trigger' = [trigger EXCEPT ![p] = None]
          /\ owner' = [owner EXCEPT ![p] = FALSE]
      BY <1>2 DEF Look, Goto
    <2>2. OwnersInv'
      BY <1>1, <2>1 DEF RegistryInv, OwnersInv, Phase
    <2>3. PrivateShape' /\ NameOwned'
      BY <1>1, <1>2 DEF RegistryInv, PrivateShape, NameOwned
    <2>4. BesideInv'
      BY <1>1, <2>1 DEF RegistryInv, OwnersInv, BesideInv
    <2>5. HooksInName'
      BY <1>1, <2>1 DEF RegistryInv, OwnersInv, HooksInName
    <2> QED BY <2>2, <2>3, <2>4, <2>5 DEF RegistryInv
  <1>3. CASE private # None
    <2>1. pc' = [pc EXCEPT ![p] = "load"] /\ UNCHANGED <<trigger, owner>>
      BY <1>3 DEF Look, Goto
    <2> QED BY <1>1, <2>1, QuietStep DEF Phase
  <1> QED BY <1>2, <1>3

\* The name that is loaded is that of who owns the file, who is another than
\* the one who runs hooks.
LEMMA LoadKeeps ==
    ASSUME RegistryInv, NEW p \in Procs, Load(p)
    PROVE  RegistryInv'
  <1> DEFINE name == Get(Lines(private), "Trigger", None)
  <1>1. /\ pc[p] = "load" /\ pc' = [pc EXCEPT ![p] = "act"]
        /\ trigger' = [trigger EXCEPT ![p] = name]
        /\ UNCHANGED <<private, op, owner, beside, stale>>
    BY DEF Load, Goto, shared, ghosts
  <1>2. \A q \in Procs : private = Named(q) => name = q
    <2> SUFFICES ASSUME NEW q \in Procs, private = Named(q)
                 PROVE  name = q
      OBVIOUS
    <2>1. Lines(private) = Named(q)
      BY NamedIsNotNone DEF Lines
    <2> QED BY <2>1, GetOfNamed
  <1>3. private \in {None, <<>>} => name = None
    <2>1. Get(<<>>, "Trigger", None) = None
      BY DEF Get, First, Places
    <2> QED BY <2>1 DEF Lines
  <1>4. name \in Procs \union {None}
    BY <1>2, <1>3 DEF RegistryInv, PrivateShape
  <1>5. OwnersInv'
    BY <1>1, <1>4 DEF RegistryInv, OwnersInv, Phase
  <1>6. PrivateShape' /\ NameOwned'
    BY <1>1 DEF RegistryInv, PrivateShape, NameOwned
  <1>7. BesideInv'
    BY <1>1 DEF RegistryInv, OwnersInv, BesideInv
  <1>8. ASSUME op[p].kind = "udev", name # None, ~stale
        PROVE  name \in beside[p]
    <2>1. private # None /\ private # <<>>
      BY <1>3, <1>8
    <2>2. PICK q \in Procs : owner[q] /\ private \in {<<>>, Named(q)}
      BY <1>8, <2>1 DEF RegistryInv, NameOwned
    <2>3. name = q
      BY <1>2, <2>1, <2>2
    <2>4. q # p /\ pc[q] # "idle"
      BY <1>8, <2>2 DEF RegistryInv, OwnersInv
    <2> QED BY <1>1, <2>3, <2>4 DEF RegistryInv, BesideInv
  <1>9. HooksInName'
    <2> SUFFICES ASSUME NEW q \in Procs, op'[q].kind = "udev", trigger'[q] # None, ~stale'
                 PROVE  trigger'[q] \in beside'[q]
      BY DEF HooksInName
    <2>1. CASE q = p
      BY <1>1, <1>8, <2>1 DEF RegistryInv, OwnersInv
    <2>2. CASE q # p
      BY <1>1, <2>2 DEF RegistryInv, OwnersInv, HooksInName
    <2> QED BY <2>1, <2>2
  <1> QED BY <1>5, <1>6, <1>7, <1>9 DEF RegistryInv

LEMMA CleanupKeeps ==
    ASSUME RegistryInv, NEW p \in Procs, Cleanup(p)
    PROVE  RegistryInv'
  <1>1. /\ pc[p] = "cleanup" /\ Forget(p)
        /\ owner' = [owner EXCEPT ![p] = FALSE]
    BY DEF Cleanup, Forget
  <1>2. CASE private' = (IF owner[p] THEN None ELSE private) /\ UNCHANGED stale
    <2>1. PrivateShape'
      BY <1>2 DEF RegistryInv, PrivateShape
    <2>2. NameOwned'
      BY <1>1, <1>2 DEF RegistryInv, OwnersInv, NameOwned
    <2> QED BY <1>1, <1>2, <2>1, <2>2, ForgetStep
  <1>3. CASE UNCHANGED private /\ stale' = TRUE
    <2>1. PrivateShape' /\ NameOwned'
      BY <1>3 DEF RegistryInv, PrivateShape, NameOwned
    <2> QED BY <1>1, <1>3, <2>1, ForgetStep
  <1> QED BY <1>2, <1>3 DEF Cleanup

LEMMA EditKeeps ==
    ASSUME RegistryInv, NEW p \in Procs, Edit(p)
    PROVE  RegistryInv'
  <1>1. /\ pc[p] = "edit" /\ Forget(p) /\ ~owner[p]
        /\ owner' = [owner EXCEPT ![p] = FALSE]
        /\ UNCHANGED <<private, stale>>
    BY DEF Edit, Forget, RegistryInv, OwnersInv
  <1>2. PrivateShape' /\ NameOwned'
    BY <1>1 DEF RegistryInv, OwnersInv, PrivateShape, NameOwned
  <1> QED BY <1>1, <1>2, ForgetStep

LEMMA CrashKeeps ==
    ASSUME RegistryInv, NEW p \in Procs, Crash(p)
    PROVE  RegistryInv'
  <1>1. pc[p] # "idle" /\ Forget(p) /\ stale' = TRUE
    BY DEF Crash
  <1>2. PrivateShape'
    BY DEF Crash, shared, RegistryInv, PrivateShape
  <1>3. NameOwned'
    BY <1>1 DEF NameOwned
  <1> QED BY <1>1, <1>2, <1>3, ForgetStep

-----------------------------------------------------------------------------
(* The steps together.                                                     *)

LEMMA RegistryNext == RegistryInv /\ [Next]_vars => RegistryInv'
  <1> SUFFICES ASSUME RegistryInv, [Next]_vars PROVE RegistryInv'
    OBVIOUS
  <1>1. CASE UNCHANGED vars
    BY <1>1 DEF vars, RegistryInv, OwnersInv, PrivateShape, NameOwned, BesideInv, HooksInName
  <1>2. ASSUME NEW p \in Procs, Step(p) PROVE RegistryInv'
    <2>1. \A o \in Operations : Start(p, o) => RegistryInv'
      BY StartKeeps
    <2>2. Announce(p) => RegistryInv'
      BY AnnounceKeeps
    <2>3. Look(p) \/ Load(p) => RegistryInv'
      BY LookKeeps, LoadKeeps
    <2>4. Edit(p) \/ Cleanup(p) \/ Crash(p) => RegistryInv'
      BY EditKeeps, CleanupKeeps, CrashKeeps
    <2>5. List(p) => RegistryInv'
      BY QuietStep DEF List, Goto, shared, ghosts, Phase
    <2>6. ASSUME NEW d \in Disks PROVE Read(p, d) => RegistryInv'
      <3> SUFFICES ASSUME Read(p, d) PROVE RegistryInv'
        OBVIOUS
      <3>1. pc' = [pc EXCEPT ![p] = "read"] /\ pc[p] = "read"
        BY DEF Read, RegistryInv, OwnersInv
      <3> QED BY <3>1, QuietStep DEF Read, shared, ghosts, Phase
    <2>7. Register(p) => RegistryInv'
      BY QuietStep DEF Register, Goto, shared, ghosts, Phase
    <2>8. Reset(p) => RegistryInv'
      BY QuietStep DEF Reset, Goto, shared, ghosts, Phase
    <2>9. ASSUME NEW d \in Disks PROVE RemoveFile(p, d) => RegistryInv'
      <3> SUFFICES ASSUME RemoveFile(p, d) PROVE RegistryInv'
        OBVIOUS
      <3>1. pc' = [pc EXCEPT ![p] = "remove"] /\ pc[p] = "remove"
        BY DEF RemoveFile, RegistryInv, OwnersInv
      <3> QED BY <3>1, QuietStep DEF RemoveFile, ghosts, Phase
    <2>10. RegisterAttached(p) => RegistryInv'
      <3> SUFFICES ASSUME RegisterAttached(p) PROVE RegistryInv'
        OBVIOUS
      <3>1. /\ pc[p] = "remove"
            /\ \/ pc' = [pc EXCEPT ![p] = "cleanup"]
               \/ pc' = [pc EXCEPT ![p] = "save"]
            /\ UNCHANGED <<private, op, trigger, owner, beside, stale>>
        BY DEF RegisterAttached, Goto, shared, ghosts
      <3> QED BY <3>1, QuietStep DEF Phase
    <2>11. Eject(p) \/ RunHooks(p) => RegistryInv'
      BY QuietStep DEF Eject, RunHooks, Goto, shared, ghosts, Phase
    <2>12. ASSUME NEW d \in Disks PROVE Save(p, d) => RegistryInv'
      <3> SUFFICES ASSUME Save(p, d) PROVE RegistryInv'
        OBVIOUS
      <3>1. pc' = [pc EXCEPT ![p] = "save"] /\ pc[p] = "save"
        BY DEF Save, RegistryInv, OwnersInv
      <3> QED BY <3>1, QuietStep DEF Save, ghosts, Phase
    <2>13. Saved(p) => RegistryInv'
      BY QuietStep DEF Saved, Goto, shared, ghosts, Phase
    <2> QED BY <1>2, <2>1, <2>2, <2>3, <2>4, <2>5, <2>6, <2>7, <2>8, <2>9,
               <2>10, <2>11, <2>12, <2>13 DEF Step
  <1> QED BY <1>1, <1>2 DEF Next

\* The invariant of the names holds: the private file holds at most the trigger,
\* written by a process that still runs and owns the file, or nothing after a
\* write that failed, unless one has died or could not remove it; and what udev
\* has loaded is the name of another process that ran while it did.
THEOREM NamesHold == Spec => []RegistryInv
  <1> QED BY RegistryInit, RegistryNext, PTL DEF Spec

\* As long as no process has died or failed to remove them, the private operation
\* data are owned by one that still runs, for every number of processes.
THEOREM TriggerAlive == Spec => []TriggerIsAlive
  <1>1. RegistryInv => TriggerIsAlive
    <2> SUFFICES ASSUME RegistryInv, private # None, ~stale
                 PROVE  \E p \in Procs : owner[p] /\ Get(private, "Trigger", None) \in {p, None}
      BY DEF TriggerIsAlive
    <2>1. PICK p \in Procs : owner[p] /\ private \in {<<>>, Named(p)}
      BY DEF RegistryInv, NameOwned
    <2>2. Get(<<>>, "Trigger", None) = None
      BY DEF Get, First, Places
    <2> QED BY <2>1, <2>2, GetOfNamed
  <1> QED BY <1>1, NamesHold, PTL

\* What udev has loaded for its hooks is no name of a process that had ended
\* before, for every number of processes and whichever write of it fails.
THEOREM HooksAreInName == Spec => []HooksInName
  <1>1. RegistryInv => HooksInName
    BY DEF RegistryInv
  <1> QED BY <1>1, NamesHold, PTL

-----------------------------------------------------------------------------
(* What is in the files of conf.d.                                         *)

\* The values the lines of a key have, and what no process breaks: a file without
\* a pattern has no more than one line of tags.
Values == [Pattern |-> Disks, Tags |-> Tags \union {Blank}, External |-> BOOLEAN]
Patterned(lines) == Places(lines, "Pattern") # {}
Content(lines) ==
    /\ lines \in Seq(FileLine)
    /\ \A i \in DOMAIN lines : lines[i].value \in Values[lines[i].key]
    /\ Patterned(lines) \/ AtMostOne(lines, "Tags")

LEMMA ValuesOfKeys ==
    /\ Values["Pattern"] = Disks /\ Values["Tags"] = Tags \union {Blank}
    /\ Values["External"] = BOOLEAN
  BY DEF Values

\* An empty file is one.
LEMMA EmptyContent == Content(<<>>)
  <1>1. <<>> \in Seq(FileLine) /\ DOMAIN <<>> = {}
    OBVIOUS
  <1>2. Places(<<>>, "Tags") = {}
    BY <1>1 DEF Places
  <1> QED BY <1>1, <1>2 DEF Content, AtMostOne

LEMMA LinesContent ==
    ASSUME NEW file, file = None \/ Content(file)
    PROVE  Content(Lines(file))
  BY EmptyContent DEF Lines

\* A list of lines is no None.
LEMMA ContentIsNotNone ==
    ASSUME NEW lines, Content(lines)
    PROVE  lines # None
  BY NoneAssumption DEF Content

\* To set one value keeps the content.
LEMMA ScalarKeepsContent ==
    ASSUME NEW lines, Content(lines), NEW key \in {"Pattern", "Tags", "External"},
           NEW value \in Values[key]
    PROVE  /\ Content(SetScalar(lines, key, value))
           /\ HasScalar(SetScalar(lines, key, value), lines, key, value)
  <1>1. value \in Disks \union Tags \union BOOLEAN \union {Blank}
    BY ValuesOfKeys
  <1>2. PICK new : new = SetScalar(lines, key, value)
    OBVIOUS
  <1>3. new \in Seq(FileLine) /\ HasScalar(new, lines, key, value)
    <2> DEFINE K == {"Pattern", "Tags", "External"}
               V == Disks \union Tags \union BOOLEAN \union {Blank}
    <2>1. FileLine = [key : K, value : V]
      BY DEF FileLine
    <2>2. lines \in Seq([key : K, value : V])
      BY <2>1 DEF Content
    <2>3. value \in V /\ key \in K
      BY <1>1
    <2> HIDE DEF K, V
    <2> QED BY <1>2, <2>1, <2>2, <2>3, ScalarIsSet
  <1>4. ASSUME NEW i \in DOMAIN new PROVE new[i].value \in Values[new[i].key]
    <2>1. i \in Places(new, new[i].key)
      BY DEF Places
    <2>2. CASE new[i].key = key
      <3>1. new[i].value = value \/ (i \in Places(lines, key) /\ new[i] = lines[i])
        BY <1>3, <2>1, <2>2 DEF HasScalar
      <3>2. i \in Places(lines, key) => lines[i].value \in Values[key]
        BY DEF Content, Places
      <3> QED BY <2>2, <3>1, <3>2
    <2>3. CASE new[i].key # key
      <3>1. i \in Places(lines, new[i].key) /\ new[i] = lines[i]
        BY <1>3, <2>1, <2>3 DEF HasScalar
      <3> QED BY <3>1 DEF Content, Places
    <2> QED BY <2>2, <2>3
  <1>5. Patterned(new) \/ AtMostOne(new, "Tags")
    <2>1. CASE key = "Pattern"
      BY <1>3, <2>1 DEF HasScalar, Patterned
    <2>2. CASE key # "Pattern"
      <3>1. Patterned(lines) => Patterned(new)
        BY <1>3, <2>2 DEF HasScalar, Patterned
      <3>2. AtMostOne(lines, "Tags") => AtMostOne(new, "Tags")
        <4>1. CASE key = "Tags"
          BY <1>3, <4>1 DEF HasScalar
        <4>2. CASE key # "Tags"
          BY <1>3, <4>2 DEF HasScalar, AtMostOne
        <4> QED BY <4>1, <4>2
      <3> QED BY <3>1, <3>2 DEF Content
    <2> QED BY <2>1, <2>2
  <1> QED BY <1>2, <1>3, <1>4, <1>5 DEF Content

\* To set the tags of a disk keeps the content, and the pattern.
LEMMA ListKeepsContent ==
    ASSUME NEW lines, Content(lines), Patterned(lines),
           NEW values \in Seq(Tags \union {Blank})
    PROVE  Content(SetList(lines, "Tags", values)) /\ Patterned(SetList(lines, "Tags", values))
  <1> DEFINE K == {"Pattern", "Tags", "External"}
             V == Disks \union Tags \union BOOLEAN \union {Blank}
  <1>1. values \in Seq(V)
    <2>1. Len(values) \in Nat /\ values \in [1 .. Len(values) -> Tags \union {Blank}]
      BY LenProperties
    <2>2. values \in [1 .. Len(values) -> V]
      BY <2>1
    <2> QED BY <2>1, <2>2, IsSequence
  <1>2. lines \in Seq([key : K, value : V])
    BY DEF Content, FileLine
  <1>3. PICK new : new = SetList(lines, "Tags", values)
    OBVIOUS
  <1>4. new \in Seq([key : K, value : V]) /\ HasList(new, lines, "Tags", values)
    <2> HIDE DEF V
    <2> QED BY <1>1, <1>2, <1>3, ListIsSet
  <1>5. new \in Seq(FileLine)
    BY <1>4 DEF FileLine
  <1>6. ASSUME NEW i \in DOMAIN new PROVE new[i].value \in Values[new[i].key]
    <2>1. CASE \E j \in DOMAIN lines : new[i] = lines[j]
      BY <2>1 DEF Content
    <2>2. CASE \E n \in DOMAIN values : new[i] = Line("Tags", values[n])
      <3>1. PICK n \in DOMAIN values : new[i] = Line("Tags", values[n])
        BY <2>2
      <3>2. values[n] \in Tags \union {Blank}
        BY LenProperties, ElementOfSeq
      <3> QED BY <3>1, <3>2, ValuesOfKeys DEF Line
    <2> QED BY <1>4, <2>1, <2>2 DEF HasList
  <1>7. Patterned(new)
    <2>1. PICK j \in DOMAIN lines : lines[j].key = "Pattern"
      BY DEF Patterned, Places
    <2>2. PICK i \in DOMAIN new : new[i] = lines[j]
      BY <1>4, <2>1 DEF HasList
    <2> QED BY <2>1, <2>2 DEF Patterned, Places
  <1> QED BY <1>3, <1>5, <1>6, <1>7 DEF Content

\* To remove a line of tags keeps the content.
LEMMA RemovalKeepsContent ==
    ASSUME NEW lines, Content(lines)
    PROVE  Content(RemoveLine(lines, "Tags"))
  <1>1. PICK new : new = RemoveLine(lines, "Tags")
    OBVIOUS
  <1>2. new \in Seq(FileLine) /\ IsRemoved(new, lines, "Tags")
    BY <1>1, LineIsRemoved DEF Content
  <1>3. \A i \in DOMAIN new : new[i].value \in Values[new[i].key]
    BY <1>2 DEF IsRemoved, Content
  <1>4. Patterned(lines) => Patterned(new)
    <2> SUFFICES ASSUME NEW j \in DOMAIN lines, lines[j].key = "Pattern" PROVE Patterned(new)
      BY DEF Patterned, Places
    <2>1. PICK i \in DOMAIN new : new[i] = lines[j]
      BY <1>2 DEF IsRemoved
    <2> QED BY <2>1 DEF Patterned, Places
  <1>5. AtMostOne(lines, "Tags") => AtMostOne(new, "Tags")
    BY <1>2 DEF IsRemoved, AtMostOne
  <1> QED BY <1>1, <1>2, <1>3, <1>4, <1>5 DEF Content

-----------------------------------------------------------------------------
(* What is written and what is read.                                       *)

\* What is read of a file is an item.
LEMMA ReadIsItem ==
    ASSUME NEW lines, Content(lines)
    PROVE  ReadConf(lines) \in Item /\ ReadConf(lines).tags \in Seq(Tags \union {Blank})
  <1> DEFINE K == {"Pattern", "Tags", "External"}
             V == Disks \union Tags \union BOOLEAN \union {Blank}
  <1>1. PICK read : read = GetAsArray(lines, "Tags", <<>>)
    OBVIOUS
  <1>2. PICK P : P = Places(lines, "Tags")
    OBVIOUS
  <1>3. HasValues(read, lines, P, V)
    BY <1>1, <1>2, ArrayOfPlaces DEF Content, FileLine
  <1>4. \A n \in 1 .. Len(read) : read[n] \in Tags \union {Blank}
    BY <1>2, <1>3, ValuesOfKeys DEF HasValues, Content, Places
  <1>5. Len(read) \in Nat /\ read \in [1 .. Len(read) -> V]
    BY <1>3, LenProperties DEF HasValues
  <1>6. read \in [1 .. Len(read) -> Tags \union {Blank}]
    BY <1>4, <1>5
  <1>7. read \in Seq(Tags \union {Blank})
    BY <1>5, <1>6, IsSequence
  <1>8. Get(lines, "External", FALSE) \in BOOLEAN
    <2>1. CASE First(lines, "External") = 0
      BY <2>1 DEF Get
    <2>2. CASE First(lines, "External") # 0
      <3>1. First(lines, "External") \in Places(lines, "External")
        BY <2>2, FirstIsPlace DEF Content
      <3>2. lines[First(lines, "External")].value \in BOOLEAN
        BY <3>1, ValuesOfKeys DEF Content, Places
      <3> QED BY <2>2, <3>2 DEF Get
    <2> QED BY <2>1, <2>2
  <1> QED BY <1>1, <1>7, <1>8 DEF ReadConf, Item

\* What lets the tags of an item be read again as they are, once they were
\* written over these lines: they were read from them, or there are none to
\* take their place, or there is one line that an empty list takes away.
TagsFit(lines, tags) ==
    /\ tags \in Seq(Tags \union {Blank})
    /\ \/ tags = ReadConf(lines).tags
       \/ Places(lines, "Tags") = {}
       \/ tags = <<>> /\ AtMostOne(lines, "Tags")

LEMMA WrittenIsRead ==
    ASSUME NEW lines, Content(lines), NEW d \in Disks, NEW item \in Item
    PROVE  /\ Content(WriteConf(lines, d, item))
           /\ ReadConf(WriteConf(lines, d, item)).external = item.external
           /\ item.tags # None =>
                 ToSet(item.tags) \subseteq ToSet(ReadConf(WriteConf(lines, d, item)).tags)
           /\ TagsFit(lines, item.tags) => ReadConf(WriteConf(lines, d, item)).tags = item.tags
  <1> DEFINE K == {"Pattern", "Tags", "External"}
             V == Disks \union Tags \union BOOLEAN \union {Blank}
  <1>1. FileLine = [key : K, value : V]
    BY DEF FileLine
  <1>2. "Tags" \in K /\ (Tags \union {Blank}) \subseteq V
    OBVIOUS
  <1> HIDE DEF K, V
  <1>3. PICK named : named = SetScalar(lines, "Pattern", d)
    OBVIOUS
  <1>4. PICK tagged : tagged = IF item.tags = None THEN SetScalar(named, "Tags", Blank)
                               ELSE SetList(named, "Tags", item.tags)
    OBVIOUS
  <1>5. PICK new : new = SetScalar(tagged, "External", item.external)
    OBVIOUS
  <1>6. WriteConf(lines, d, item) = new
    BY <1>3, <1>4, <1>5 DEF WriteConf
  <1>7. Content(named) /\ HasScalar(named, lines, "Pattern", d)
    BY <1>3, ScalarKeepsContent, ValuesOfKeys
  <1>8. Patterned(named)
    BY <1>7 DEF HasScalar, Patterned
  <1>9. /\ item.external \in BOOLEAN
        /\ item.tags \in Seq(Tags \union {Blank}) \/ item.tags = None
    BY DEF Item
  <1>10. Content(tagged)
    <2>1. CASE item.tags = None
      BY <1>4, <1>7, <2>1, ScalarKeepsContent, ValuesOfKeys
    <2>2. CASE item.tags # None
      BY <1>4, <1>7, <1>8, <1>9, <2>2, ListKeepsContent
    <2> QED BY <2>1, <2>2
  <1>11. Content(new) /\ HasScalar(new, tagged, "External", item.external)
    BY <1>5, <1>9, <1>10, ScalarKeepsContent, ValuesOfKeys
  <1>12. ReadConf(new).external = item.external
    BY <1>11 DEF HasScalar, ReadConf
  <1>13. /\ lines \in Seq([key : K, value : V]) /\ named \in Seq([key : K, value : V])
         /\ tagged \in Seq([key : K, value : V]) /\ new \in Seq([key : K, value : V])
    BY <1>1, <1>7, <1>10, <1>11 DEF Content
  \* The lines of the tags are not touched by what is set before and after.
  <1>14. GetAsArray(new, "Tags", <<>>) = GetAsArray(tagged, "Tags", <<>>)
    <2>1. Alike(new, tagged, "Tags")
      BY <1>11 DEF HasScalar, Alike
    <2> QED BY <1>13, <2>1, ReadsAlike
  <1>15. /\ Places(named, "Tags") = Places(lines, "Tags")
         /\ GetAsArray(named, "Tags", <<>>) = GetAsArray(lines, "Tags", <<>>)
    <2>1. Alike(named, lines, "Tags")
      BY <1>7 DEF HasScalar, Alike
    <2>2. GetAsArray(named, "Tags", <<>>) = GetAsArray(lines, "Tags", <<>>)
      BY <1>13, <2>1, ReadsAlike
    <2> QED BY <2>1, <2>2 DEF Alike
  <1>16. ASSUME item.tags # None
         PROVE  ToSet(item.tags) \subseteq ToSet(ReadConf(new).tags)
    <2>1. tagged = SetList(named, "Tags", item.tags)
      BY <1>4, <1>16
    <2>2. item.tags \in Seq(V)
      BY <1>2, <1>9, <1>16, WiderSeq
    <2>3. ToSet(item.tags) \subseteq ToSet(GetAsArray(tagged, "Tags", <<>>))
      BY <1>2, <1>13, <2>1, <2>2, ListIsRead
    <2> QED BY <1>14, <2>3 DEF ReadConf
  <1>17. ASSUME TagsFit(lines, item.tags)
         PROVE  ReadConf(new).tags = item.tags
    <2>1. item.tags \in Seq(Tags \union {Blank}) /\ item.tags # None
      BY <1>17, NoneAssumption DEF TagsFit
    <2>2. tagged = SetList(named, "Tags", item.tags)
      BY <1>4, <2>1
    <2>3. item.tags \in Seq(V)
      BY <1>2, <2>1, WiderSeq
    <2>4. GetAsArray(tagged, "Tags", <<>>) = item.tags
      <3>1. CASE item.tags = ReadConf(lines).tags
        <4>1. item.tags = GetAsArray(named, "Tags", <<>>)
          BY <1>15, <3>1 DEF ReadConf
        <4>2. SetList(named, "Tags", GetAsArray(named, "Tags", <<>>)) = named
          BY <1>2, <1>13, ListAsRead
        <4> QED BY <2>2, <4>1, <4>2
      <3>2. CASE Places(lines, "Tags") = {}
        BY <1>2, <1>13, <1>15, <2>2, <2>3, <3>2, ListInNone
      <3>3. CASE item.tags = <<>> /\ AtMostOne(lines, "Tags")
        <4>1. AtMostOne(named, "Tags")
          BY <1>15, <3>3 DEF AtMostOne
        <4>2. GetAsArray(SetList(named, "Tags", <<>>), "Tags", <<>>) = <<>>
          BY <1>2, <1>13, <4>1, ListEmptied
        <4> QED BY <2>2, <3>3, <4>2
      <3> QED BY <1>17, <3>1, <3>2, <3>3 DEF TagsFit
    <2> QED BY <1>14, <2>4 DEF ReadConf
  <1> QED BY <1>6, <1>11, <1>12, <1>16, <1>17

-----------------------------------------------------------------------------
(* The types, the content of the files, and what the phases tell of the    *)
(* memory of a process.                                                    *)

FileState == {file \in File : file = None \/ Content(file)}
Memory == UNION {[D -> Item] : D \in SUBSET Disks}

PhaseInv(p) ==
    /\ pc[p] = "edit" => op[p].kind = "edit"
    /\ pc[p] \in {"idle", "announce", "list", "edit"} => items[p] = NoItems
    /\ pc[p] \in {"load", "act"} => todo[p] = {}
    /\ pc[p] \in {"remove", "save"} => todo[p] \subseteq DOMAIN items[p]

MemoryInv ==
    /\ files \in [Disks -> FileState]
    /\ op \in [Procs -> Operations \union {NoOp}]
    /\ todo \in [Procs -> SUBSET Disks]
    /\ items \in [Procs -> Memory]
    /\ failed \in [Procs -> BOOLEAN]
    /\ starts \in 0 .. MaxStarts
    /\ stale \in BOOLEAN
    /\ \A p \in Procs : PhaseInv(p)

LEMMA FileStates ==
    /\ None \in FileState
    /\ \A lines : Content(lines) => lines \in FileState
    /\ \A file \in FileState : Content(Lines(file))
    /\ \A file \in FileState : file # None => Content(file)
  <1>1. \A lines : Content(lines) => lines \in FileState
    BY DEF FileState, File, Content
  <1>2. \A file \in FileState : Content(Lines(file))
    BY LinesContent DEF FileState
  <1>3. None \in FileState
    BY DEF FileState, File
  <1>4. \A file \in FileState : file # None => Content(file)
    BY DEF FileState
  <1> QED BY <1>1, <1>2, <1>3, <1>4

LEMMA MemoryTypes ==
    /\ NoItems \in Memory /\ DOMAIN NoItems = {}
    /\ \A m \in Memory : /\ DOMAIN m \subseteq Disks /\ m = [d \in DOMAIN m |-> m[d]]
                         /\ \A d \in DOMAIN m : m[d] \in Item
    /\ \A D \in SUBSET Disks : \A m \in [D -> Item] : m \in Memory
  <1>1. NoItems \in [{} -> Item] /\ DOMAIN NoItems = {}
    BY DEF NoItems
  <1>2. NoItems \in Memory
    BY <1>1 DEF Memory
  <1> QED BY <1>1, <1>2 DEF Memory

\* What a process is started for.
LEMMA OperationFields ==
    ASSUME NEW o \in Operations \union {NoOp}
    PROVE  /\ o.kind \in Kind
           /\ o.kind \in {"register", "unregister", "edit"} => o.disk \in Disks
           /\ o.kind \in {"register", "unregister"} =>
                 o.tags \in Seq(Tags \union {Blank}) \union {None}
  <1>1. o.kind \in Kind
    BY DEF Operations, NoOp, Kind
  <1>2. o.kind \in {"register", "unregister", "edit"} => o.disk \in Disks
    BY DEF Operations, NoOp
  <1>3. o.kind \in {"register", "unregister"} => o.tags \in TagLists \union {<<>>}
    BY DEF Operations, NoOp
  <1>4. ASSUME NEW l \in TagLists \union {<<>>}
        PROVE  l \in Seq(Tags \union {Blank}) \union {None}
    <2>1. l \in Seq(Tags) \/ l = None
      BY TagsAssumption, EmptySeq
    <2> QED BY <2>1, WiderSeq
  <1> QED BY <1>1, <1>2, <1>3, <1>4

\* A step of a process leaves the memory of the others alone.
LEMMA MemoryStep ==
    ASSUME MemoryInv, NEW p \in Procs, pc \in [Procs -> Phase],
           files' \in [Disks -> FileState],
           pc' = [pc EXCEPT ![p] = pc'[p]],
           op' = [op EXCEPT ![p] = op'[p]], op'[p] \in Operations \union {NoOp},
           todo' = [todo EXCEPT ![p] = todo'[p]], todo'[p] \in SUBSET Disks,
           items' = [items EXCEPT ![p] = items'[p]], items'[p] \in Memory,
           failed' = [failed EXCEPT ![p] = failed'[p]], failed'[p] \in BOOLEAN,
           starts' \in 0 .. MaxStarts, stale' \in BOOLEAN,
           PhaseInv(p)'
    PROVE  MemoryInv'
  <1>1. /\ op' \in [Procs -> Operations \union {NoOp}]
        /\ todo' \in [Procs -> SUBSET Disks]
        /\ items' \in [Procs -> Memory]
        /\ failed' \in [Procs -> BOOLEAN]
    BY DEF MemoryInv
  <1>2. ASSUME NEW q \in Procs, q # p PROVE PhaseInv(q)'
    <2>1. pc'[q] = pc[q] /\ op'[q] = op[q] /\ todo'[q] = todo[q] /\ items'[q] = items[q]
      BY <1>2 DEF MemoryInv
    <2> QED BY <2>1 DEF MemoryInv, PhaseInv
  <1> QED BY <1>1, <1>2 DEF MemoryInv

LEMMA MemoryInit == Init => MemoryInv
  <1> SUFFICES ASSUME Init PROVE MemoryInv
    OBVIOUS
  <1>1. files \in [Disks -> FileState] /\ items \in [Procs -> Memory]
    BY FileStates, MemoryTypes DEF Init
  <1>2. \A p \in Procs : PhaseInv(p)
    BY DEF Init, PhaseInv
  <1>3. /\ op \in [Procs -> Operations \union {NoOp}] /\ todo \in [Procs -> SUBSET Disks]
        /\ failed \in [Procs -> BOOLEAN]
    BY DEF Init
  <1>4. starts \in 0 .. MaxStarts
    BY StartsAssumption DEF Init
  <1>5. stale \in BOOLEAN
    BY DEF Init
  <1> QED BY <1>1, <1>2, <1>3, <1>4, <1>5 DEF MemoryInv

\* To remember an item of a disk.
LEMMA KeepsMemory ==
    ASSUME items \in [Procs -> Memory], NEW p \in Procs, NEW d \in Disks,
           NEW item \in Item, Keep(p, d, item)
    PROVE  /\ items' = [items EXCEPT ![p] = items'[p]] /\ items'[p] \in Memory
           /\ DOMAIN items'[p] = DOMAIN items[p] \union {d}
           /\ \A e \in DOMAIN items'[p] : items'[p][e] = IF e = d THEN item ELSE items[p][e]
  <1>1. PICK m : m = [e \in DOMAIN items[p] \union {d} |-> IF e = d THEN item ELSE items[p][e]]
    OBVIOUS
  <1>2. items' = [items EXCEPT ![p] = m]
    BY <1>1 DEF Keep
  <1>3. items'[p] = m
    BY <1>2
  <1>4. m \in [DOMAIN items[p] \union {d} -> Item]
    BY <1>1, MemoryTypes
  <1>5. DOMAIN items[p] \union {d} \subseteq Disks
    BY MemoryTypes
  <1>6. m \in Memory
    BY <1>4, <1>5, MemoryTypes
  <1> QED BY <1>1, <1>2, <1>3, <1>6

LEMMA MemoryNext == RegistryInv /\ MemoryInv /\ [Next]_vars => MemoryInv'
  <1> SUFFICES ASSUME RegistryInv, MemoryInv, [Next]_vars PROVE MemoryInv'
    OBVIOUS
  <1>1. CASE UNCHANGED vars
    BY <1>1 DEF vars, MemoryInv, PhaseInv
  <1>2. ASSUME NEW p \in Procs, Step(p) PROVE MemoryInv'
    <2>0. /\ pc \in [Procs -> Phase] /\ files \in [Disks -> FileState]
          /\ op \in [Procs -> Operations \union {NoOp}] /\ todo \in [Procs -> SUBSET Disks]
          /\ items \in [Procs -> Memory] /\ failed \in [Procs -> BOOLEAN]
          /\ starts \in 0 .. MaxStarts /\ stale \in BOOLEAN /\ PhaseInv(p)
      BY DEF RegistryInv, OwnersInv, MemoryInv
    <2>1. ASSUME NEW o \in Operations, Start(p, o) PROVE MemoryInv'
      <3>1. /\ pc[p] = "idle" /\ pc' = [pc EXCEPT ![p] = pc'[p]]
            /\ pc'[p] \in {"edit", "announce", "list"}
            /\ pc'[p] = "edit" => o.kind = "edit"
            /\ op' = [op EXCEPT ![p] = o]
            /\ UNCHANGED <<files, todo, items, failed, stale>>
        BY <2>0, <2>1 DEF Start, Goto, shared
      <3>2. starts' \in 0 .. MaxStarts
        BY <2>0, <2>1, StartsAssumption DEF Start
      <3>3. PhaseInv(p)'
        BY <2>0, <3>1 DEF PhaseInv
      <3> QED BY <2>0, <3>1, <3>2, <3>3, MemoryStep
    <2>2. ASSUME Announce(p) PROVE MemoryInv'
      <3>1. /\ pc[p] = "announce" /\ pc' = [pc EXCEPT ![p] = "list"]
            /\ UNCHANGED <<files, op, todo, items, failed, starts, stale>>
        BY <2>2 DEF Announce, Goto, ghosts
      <3>2. PhaseInv(p)'
        BY <2>0, <3>1 DEF PhaseInv
      <3> QED BY <2>0, <3>1, <3>2, MemoryStep
    <2>3. ASSUME List(p) PROVE MemoryInv'
      <3>1. /\ pc[p] = "list" /\ pc' = [pc EXCEPT ![p] = "read"]
            /\ todo' = [todo EXCEPT ![p] = {d \in Disks : files[d] # None}]
            /\ UNCHANGED <<files, op, items, failed, starts, stale>>
        BY <2>3 DEF List, Goto, shared, ghosts
      <3>2. PhaseInv(p)'
        BY <2>0, <3>1 DEF PhaseInv
      <3> QED BY <2>0, <3>1, <3>2, MemoryStep
    <2>4. ASSUME NEW d \in Disks, Read(p, d) PROVE MemoryInv'
      <3>1. /\ pc[p] = "read" /\ pc'[p] = "read" /\ UNCHANGED pc
            /\ todo' = [todo EXCEPT ![p] = todo[p] \ {d}]
            /\ UNCHANGED <<files, op, failed, starts, stale>>
        BY <2>4 DEF Read, shared, ghosts
      <3>2. items' = [items EXCEPT ![p] = items'[p]] /\ items'[p] \in Memory
        <4>1. CASE UNCHANGED items
          BY <2>0, <4>1
        <4>2. CASE ~UNCHANGED items
          <5>1. /\ Keep(p, d, ReadConf(files[d]))
                /\ First(Lines(files[d]), "Pattern") # 0
            BY <2>4, <4>2 DEF Read
          <5>2. files[d] # None
            BY <5>1 DEF Lines, First, Places
          <5>3. ReadConf(files[d]) \in Item
            BY <2>0, <5>2, FileStates, ReadIsItem
          <5> QED BY <2>0, <5>1, <5>3, KeepsMemory
        <4> QED BY <4>1, <4>2
      <3>3. PhaseInv(p)'
        BY <2>0, <3>1 DEF PhaseInv
      <3> QED BY <2>0, <3>1, <3>2, <3>3, MemoryStep
    <2>5. ASSUME Look(p) PROVE MemoryInv'
      <3>1. /\ pc[p] = "read" /\ pc' = [pc EXCEPT ![p] = pc'[p]]
            /\ pc'[p] \in {"act", "load"} /\ todo[p] = {}
            /\ UNCHANGED <<files, op, todo, items, failed, starts, stale>>
        BY <2>0, <2>5 DEF Look, Goto, shared, ghosts
      <3>2. PhaseInv(p)'
        BY <2>0, <3>1 DEF PhaseInv
      <3> QED BY <2>0, <3>1, <3>2, MemoryStep
    <2>6. ASSUME Load(p) \/ Eject(p) \/ RunHooks(p) \/ Saved(p) PROVE MemoryInv'
      <3>1. /\ pc' = [pc EXCEPT ![p] = pc'[p]]
            /\ (pc'[p] = "act" /\ pc[p] = "load") \/ pc'[p] = "cleanup"
            /\ UNCHANGED <<files, op, todo, items, failed, starts, stale>>
        BY <2>0, <2>6 DEF Load, Eject, RunHooks, Saved, Goto, shared, ghosts
      <3>2. PhaseInv(p)'
        BY <2>0, <3>1 DEF PhaseInv
      <3> QED BY <2>0, <3>1, <3>2, MemoryStep
    <2>7. ASSUME Register(p) PROVE MemoryInv'
      <3>1. /\ pc' = [pc EXCEPT ![p] = "save"]
            /\ op[p].kind \in {"register", "unregister"}
            /\ todo' = [todo EXCEPT ![p] = DOMAIN items'[p]]
            /\ UNCHANGED <<files, op, failed, starts, stale>>
        BY <2>7 DEF Register, Goto, shared, ghosts
      <3>2. items' = [items EXCEPT ![p] = items'[p]] /\ items'[p] \in Memory
        <4>1. CASE UNCHANGED items
          BY <2>0, <4>1
        <4>2. CASE ~UNCHANGED items
          <5>1. Keep(p, op[p].disk, [tags |-> op[p].tags, external |-> op[p].kind = "register"])
            BY <2>7, <4>2 DEF Register
          <5>2. op[p].disk \in Disks /\ op[p].tags \in Seq(Tags \union {Blank}) \union {None}
            BY <2>0, <3>1, OperationFields
          <5>3. [tags |-> op[p].tags, external |-> op[p].kind = "register"] \in Item
            BY <5>2 DEF Item
          <5> QED BY <2>0, <5>1, <5>2, <5>3, KeepsMemory
        <4> QED BY <4>1, <4>2
      <3>3. DOMAIN items'[p] \subseteq Disks
        BY <3>2, MemoryTypes
      <3>4. PhaseInv(p)'
        BY <2>0, <3>1 DEF PhaseInv
      <3> QED BY <2>0, <3>1, <3>2, <3>3, <3>4, MemoryStep
    <2>8. ASSUME Reset(p) PROVE MemoryInv'
      <3>1. /\ pc' = [pc EXCEPT ![p] = "remove"]
            /\ todo' = [todo EXCEPT ![p] = DOMAIN items[p]]
            /\ UNCHANGED <<files, op, items, failed, starts, stale>>
        BY <2>8 DEF Reset, Goto, shared, ghosts
      <3>2. DOMAIN items[p] \subseteq Disks
        BY <2>0, MemoryTypes
      <3>3. PhaseInv(p)'
        BY <2>0, <3>1 DEF PhaseInv
      <3> QED BY <2>0, <3>1, <3>2, <3>3, MemoryStep
    <2>9. ASSUME NEW d \in Disks, RemoveFile(p, d) PROVE MemoryInv'
      <3>1. /\ pc[p] = "remove" /\ UNCHANGED <<pc, op, items, starts, stale>>
            /\ todo' = [todo EXCEPT ![p] = todo[p] \ {d}]
            /\ files' = [files EXCEPT ![d] = None] \/ UNCHANGED files
            /\ \/ failed' = [failed EXCEPT ![p] = failed[p] \/ files[d] = None]
               \/ failed' = [failed EXCEPT ![p] = TRUE]
        BY <2>9 DEF RemoveFile, ghosts
      <3>2. files' \in [Disks -> FileState]
        BY <2>0, <3>1, FileStates
      <3>3. PhaseInv(p)'
        BY <2>0, <3>1 DEF PhaseInv
      <3>4. failed' = [failed EXCEPT ![p] = failed'[p]] /\ failed'[p] \in BOOLEAN
        BY <2>0, <3>1
      <3> QED BY <2>0, <3>1, <3>2, <3>3, <3>4, MemoryStep
    <2>10. ASSUME RegisterAttached(p) PROVE MemoryInv'
      <3>1. UNCHANGED <<files, op, failed, starts, stale>>
        BY <2>10 DEF RegisterAttached, shared, ghosts
      <3>2. CASE failed[p]
        <4>1. pc' = [pc EXCEPT ![p] = "cleanup"] /\ UNCHANGED <<todo, items>>
          BY <2>10, <3>2 DEF RegisterAttached, Goto
        <4>2. PhaseInv(p)'
          BY <2>0, <3>1, <4>1 DEF PhaseInv
        <4> QED BY <2>0, <3>1, <4>1, <4>2, MemoryStep
      <3>3. CASE ~failed[p]
        <4>1. PICK attached \in SUBSET Disks :
                 /\ items' = [items EXCEPT ![p] =
                                 [d \in DOMAIN items[p] \union attached |->
                                     IF d \in attached THEN [tags |-> <<>>, external |-> FALSE]
                                     ELSE items[p][d]]]
                 /\ todo' = [todo EXCEPT ![p] = DOMAIN items'[p]]
                 /\ pc' = [pc EXCEPT ![p] = "save"]
          BY <2>10, <3>3 DEF RegisterAttached, Goto
        <4>2. [tags |-> <<>>, external |-> FALSE] \in Item
          BY EmptySeq DEF Item
        <4>3. items'[p] \in [DOMAIN items[p] \union attached -> Item]
          BY <2>0, <4>1, <4>2, MemoryTypes
        <4>4. DOMAIN items[p] \union attached \subseteq Disks
          BY <2>0, MemoryTypes
        <4>5. items'[p] \in Memory /\ DOMAIN items'[p] \subseteq Disks
          BY <4>3, <4>4, MemoryTypes
        <4>6. PhaseInv(p)'
          BY <2>0, <3>1, <4>1 DEF PhaseInv
        <4>7. items' = [items EXCEPT ![p] = items'[p]]
          BY <2>0, <4>1
        <4> QED BY <2>0, <3>1, <4>1, <4>5, <4>6, <4>7, MemoryStep
      <3> QED BY <3>2, <3>3
    <2>11. ASSUME NEW d \in Disks, Save(p, d) PROVE MemoryInv'
      <3>1. /\ pc[p] = "save" /\ UNCHANGED <<pc, op, items, starts, stale>>
            /\ d \in todo[p] /\ todo' = [todo EXCEPT ![p] = todo[p] \ {d}]
            /\ \/ /\ files' = [files EXCEPT ![d] = WriteConf(Lines(files[d]), d, items[p][d])]
                  /\ UNCHANGED failed
               \/ /\ failed' = [failed EXCEPT ![p] = TRUE]
                  /\ \E file \in {files[d], <<>>} : files' = [files EXCEPT ![d] = file]
        BY <2>11 DEF Save, ghosts
      <3>2. items[p][d] \in Item
        BY <2>0, <3>1, MemoryTypes DEF PhaseInv
      <3>3. WriteConf(Lines(files[d]), d, items[p][d]) \in FileState
        BY <2>0, <3>2, FileStates, WrittenIsRead
      <3>4. files' \in [Disks -> FileState]
        BY <2>0, <3>1, <3>3, EmptyContent, FileStates
      <3>5. PhaseInv(p)'
        BY <2>0, <3>1 DEF PhaseInv
      <3>6. failed' = [failed EXCEPT ![p] = failed'[p]] /\ failed'[p] \in BOOLEAN
        BY <2>0, <3>1
      <3> QED BY <2>0, <3>1, <3>4, <3>5, <3>6, MemoryStep
    <2>12. ASSUME Forget(p), files' \in [Disks -> FileState], stale' \in BOOLEAN, UNCHANGED starts
           PROVE  MemoryInv'
      <3>1. /\ pc' = [pc EXCEPT ![p] = "idle"] /\ op' = [op EXCEPT ![p] = NoOp]
            /\ todo' = [todo EXCEPT ![p] = {}] /\ items' = [items EXCEPT ![p] = NoItems]
            /\ failed' = [failed EXCEPT ![p] = FALSE]
        BY <2>12 DEF Forget
      <3>2. PhaseInv(p)'
        BY <2>0, <3>1 DEF PhaseInv
      <3> QED BY <2>0, <2>12, <3>1, <3>2, MemoryTypes, MemoryStep
    <2>13. ASSUME Edit(p) PROVE MemoryInv'
      <3>1. op[p].disk \in Disks
        BY <2>0, <2>13, OperationFields DEF Edit, PhaseInv
      <3>2. files' \in [Disks -> FileState]
        <4>1. CASE UNCHANGED files
          BY <2>0, <4>1
        <4>2. CASE ~UNCHANGED files
          <5>1. PICK old : old = files[op[p].disk]
            OBVIOUS
          <5>2. /\ old # None
                /\ \/ \E t \in Tags : files' = [files EXCEPT ![op[p].disk] = SetScalar(old, "Tags", t)]
                   \/ files' = [files EXCEPT ![op[p].disk] = RemoveLine(old, "Tags")]
            BY <2>13, <4>2, <5>1 DEF Edit
          <5>3. Content(old)
            BY <2>0, <3>1, <5>1, <5>2, FileStates
          <5>4. \A t \in Tags : SetScalar(old, "Tags", t) \in FileState
            BY <5>3, ScalarKeepsContent, ValuesOfKeys, FileStates
          <5>5. RemoveLine(old, "Tags") \in FileState
            BY <5>3, RemovalKeepsContent, FileStates
          <5> QED BY <2>0, <5>2, <5>4, <5>5
        <4> QED BY <4>1, <4>2
      <3> QED BY <2>0, <2>12, <2>13, <3>2 DEF Edit
    <2>14. ASSUME Cleanup(p) PROVE MemoryInv'
      BY <2>0, <2>12, <2>14 DEF Cleanup
    <2>15. ASSUME Crash(p) PROVE MemoryInv'
      <3>1. /\ Forget(p) /\ stale' = TRUE /\ UNCHANGED starts
            /\ UNCHANGED files \/ \E d \in todo[p] : files' = [files EXCEPT ![d] = <<>>]
        BY <2>15 DEF Crash, shared
      <3>2. <<>> \in FileState
        BY EmptyContent, FileStates
      <3>3. files' \in [Disks -> FileState]
        BY <2>0, <3>1, <3>2
      <3> QED BY <2>12, <3>1, <3>3
    <2> QED BY <1>2, <2>1, <2>2, <2>3, <2>4, <2>5, <2>6, <2>7, <2>8, <2>9,
               <2>10, <2>11, <2>13, <2>14, <2>15 DEF Step
  <1> QED BY <1>1, <1>2 DEF Next

-----------------------------------------------------------------------------
(* What an undisturbed process that writes the files knows of them.        *)

Writes(p) == beside[p] = {} /\ op[p].kind \in {"register", "unregister", "reset"}

\* What it has read is what is in the files.
ReadInv(p) ==
    /\ DOMAIN items[p] = {d \in Disks \ todo[p] : Patterned(Lines(files[d]))}
    /\ \A d \in DOMAIN items[p] : items[p][d] = ReadConf(Lines(files[d]))

\* What it has removed is gone, and all others have no pattern.
RemoveInv(p) ==
    /\ \A d \in DOMAIN items[p] : items[p][d].tags \in Seq(Tags \union {Blank})
    /\ failed[p] \/ \A d \in DOMAIN items[p] \ todo[p] : files[d] = None
    /\ \A d \in Disks \ DOMAIN items[p] : ~Patterned(Lines(files[d]))

\* What it has saved is in the files, what it has not will be read as it is.
Agrees(p, d) ==
    /\ files[d] # None
    /\ ReadConf(files[d]).external = items[p][d].external
    /\ IF op[p].disk # d THEN ReadConf(files[d]).tags = items[p][d].tags
       ELSE items[p][d].tags # None =>
               ToSet(items[p][d].tags) \subseteq ToSet(ReadConf(files[d]).tags)
SaveInv(p) ==
    \A d \in DOMAIN items[p] :
        IF d \in todo[p] THEN op[p].disk = d \/ TagsFit(Lines(files[d]), items[p][d].tags)
        ELSE failed[p] \/ Agrees(p, d)

WriterInv(p) ==
    Writes(p) => /\ pc[p] \in {"read", "load", "act"} => ReadInv(p)
                 /\ pc[p] = "remove" => RemoveInv(p)
                 /\ pc[p] = "save" => SaveInv(p)
                 /\ pc[p] = "cleanup" => failed[p] \/ \A d \in DOMAIN items[p] : Agrees(p, d)
SavedInv == \A p \in Procs : WriterInv(p)

LEMMA SavedInit == Init => SavedInv
  BY DEF Init, SavedInv, WriterInv, Writes

\* A step of a process leaves the others where they are, and they know of it.
LEMMA OthersStay ==
    ASSUME RegistryInv, NEW p \in Procs, Step(p), NEW q \in Procs, q # p
    PROVE  pc'[q] = pc[q] /\ (pc[q] # "idle" => beside[q] \subseteq beside'[q])
  <1>0. pc \in [Procs -> Phase] /\ beside \in [Procs -> SUBSET Procs]
    BY DEF RegistryInv, OwnersInv
  <1>1. ASSUME NEW o \in Operations, Start(p, o)
        PROVE  pc'[q] = pc[q] /\ (pc[q] # "idle" => beside[q] \subseteq beside'[q])
    <2>1. pc'[q] = pc[q]
      BY <1>0, <1>1 DEF Start, Goto
    <2>2. q \in Active => beside'[q] = beside[q] \union {p}
      BY <1>1 DEF Start
    <2> QED BY <2>1, <2>2 DEF Active
  <1>2. ASSUME Forget(p) PROVE pc'[q] = pc[q] /\ beside'[q] = beside[q]
    BY <1>0, <1>2 DEF Forget
  <1>3. Announce(p) \/ List(p) \/ Look(p) \/ Load(p)
            => pc'[q] = pc[q] /\ beside'[q] = beside[q]
    BY <1>0 DEF Announce, List, Look, Load, Goto, ghosts
  <1>4. Register(p) \/ Reset(p) \/ RegisterAttached(p) \/ Eject(p) \/ RunHooks(p) \/ Saved(p)
            => pc'[q] = pc[q] /\ beside'[q] = beside[q]
    BY <1>0 DEF Register, Reset, RegisterAttached, Eject, RunHooks, Saved, Goto, ghosts
  <1>5. ASSUME NEW d \in Disks, Read(p, d) \/ RemoveFile(p, d) \/ Save(p, d)
        PROVE  pc'[q] = pc[q] /\ beside'[q] = beside[q]
    BY <1>5 DEF Read, RemoveFile, Save, ghosts
  <1>6. Edit(p) \/ Cleanup(p) \/ Crash(p) => pc'[q] = pc[q] /\ beside'[q] = beside[q]
    BY <1>2 DEF Edit, Cleanup, Crash
  <1> QED BY <1>1, <1>3, <1>4, <1>5, <1>6 DEF Step

\* While a process runs, all others know of it; so only its own knowledge counts.
LEMMA WriterStep ==
    ASSUME RegistryInv, NEW p \in Procs, pc[p] # "idle", Step(p), WriterInv(p)'
    PROVE  SavedInv'
  <1> SUFFICES ASSUME NEW q \in Procs, q # p PROVE WriterInv(q)'
    BY DEF SavedInv
  <1>1. pc'[q] = pc[q] /\ (pc[q] # "idle" => beside[q] \subseteq beside'[q])
    BY OthersStay
  <1>2. pc[q] # "idle" => p \in beside[q]
    BY DEF RegistryInv, BesideInv
  <1> QED BY <1>1, <1>2 DEF WriterInv, Writes

LEMMA SavedNext == RegistryInv /\ MemoryInv /\ SavedInv /\ [Next]_vars => SavedInv'
  <1> SUFFICES ASSUME RegistryInv, MemoryInv, SavedInv, [Next]_vars PROVE SavedInv'
    OBVIOUS
  <1>1. CASE UNCHANGED vars
    <2> SUFFICES ASSUME NEW p \in Procs PROVE WriterInv(p)'
      BY DEF SavedInv
    <2>0. UNCHANGED <<files, pc, op, todo, items, failed, beside>>
      BY <1>1 DEF vars
    <2>1. \A d : Agrees(p, d) => Agrees(p, d)'
      BY <2>0 DEF Agrees
    <2>2. SaveInv(p) => SaveInv(p)'
      BY <2>0, <2>1 DEF SaveInv
    <2>3. (ReadInv(p) => ReadInv(p)') /\ (RemoveInv(p) => RemoveInv(p)')
      BY <2>0 DEF ReadInv, RemoveInv
    <2> QED BY <2>0, <2>1, <2>2, <2>3 DEF SavedInv, WriterInv, Writes
  <1>2. ASSUME NEW p \in Procs, Step(p) PROVE SavedInv'
    <2>0. /\ pc \in [Procs -> Phase] /\ files \in [Disks -> FileState]
          /\ todo \in [Procs -> SUBSET Disks] /\ items \in [Procs -> Memory]
          /\ failed \in [Procs -> BOOLEAN] /\ PhaseInv(p) /\ WriterInv(p)
      BY DEF RegistryInv, OwnersInv, MemoryInv, SavedInv
    <2>1. ASSUME NEW o \in Operations, Start(p, o) PROVE SavedInv'
      <3> SUFFICES ASSUME NEW q \in Procs PROVE WriterInv(q)'
        BY DEF SavedInv
      <3>1. CASE q = p
        <4>1. pc'[p] \in {"edit", "announce", "list"}
          BY <2>0, <2>1 DEF Start, Goto
        <4> QED BY <3>1, <4>1 DEF WriterInv
      <3>2. CASE q # p
        <4>1. q \in Active => p \in beside'[q]
          BY <2>1, <3>2 DEF Start
        <4>2. pc'[q] = pc[q]
          BY <2>0, <2>1, <3>2 DEF Start, Goto
        <4> QED BY <4>1, <4>2 DEF WriterInv, Writes, Active
      <3> QED BY <3>1, <3>2
    <2>2. ASSUME Announce(p) PROVE SavedInv'
      <3>1. pc[p] # "idle" /\ pc'[p] = "list" /\ UNCHANGED beside
        BY <2>0, <2>2 DEF Announce, Goto, ghosts
      <3> QED BY <1>2, <3>1, WriterStep DEF WriterInv
    <2>3. ASSUME List(p) PROVE SavedInv'
      <3>1. /\ pc[p] = "list" /\ pc'[p] = "read" /\ todo'[p] = {d \in Disks : files[d] # None}
            /\ UNCHANGED <<files, items, beside>>
        BY <2>0, <2>3 DEF List, Goto, shared, ghosts
      <3>2. DOMAIN items[p] = {}
        BY <2>0, <3>1, MemoryTypes DEF PhaseInv
      <3>3. \A d \in Disks : files[d] = None => ~Patterned(Lines(files[d]))
        BY DEF Lines, Patterned, Places
      <3>4. ReadInv(p)'
        BY <3>1, <3>2, <3>3 DEF ReadInv
      <3> QED BY <1>2, <3>1, <3>4, WriterStep DEF WriterInv
    <2>4. ASSUME NEW d \in Disks, Read(p, d) PROVE SavedInv'
      <3>1. /\ pc[p] = "read" /\ todo'[p] = todo[p] \ {d}
            /\ UNCHANGED <<files, op, pc, beside>>
        BY <2>0, <2>4 DEF Read, shared, ghosts
      <3>2. First(Lines(files[d]), "Pattern") = 0 <=> ~Patterned(Lines(files[d]))
        <4>1. Lines(files[d]) \in Seq(FileLine)
          BY <2>0, FileStates DEF Content
        <4> QED BY <4>1, FirstIsPlace DEF Patterned
      <3>3. ASSUME Writes(p) PROVE ReadInv(p)'
        <4>0. ReadInv(p)
          BY <2>0, <3>1, <3>3 DEF WriterInv
        <4>1. CASE ~Patterned(Lines(files[d]))
          <5>1. UNCHANGED items
            BY <2>4, <3>2, <4>1 DEF Read
          <5> QED BY <3>1, <4>0, <4>1, <5>1 DEF ReadInv
        <4>2. CASE Patterned(Lines(files[d]))
          <5>1. Keep(p, d, ReadConf(files[d])) /\ files[d] # None
            BY <2>4, <3>2, <4>2 DEF Read, Lines, Patterned, Places
          <5>2. ReadConf(files[d]) \in Item /\ Lines(files[d]) = files[d]
            BY <2>0, <5>1, FileStates, ReadIsItem DEF Lines
          <5>3. /\ DOMAIN items'[p] = DOMAIN items[p] \union {d}
                /\ \A e \in DOMAIN items'[p] :
                      items'[p][e] = IF e = d THEN ReadConf(files[d]) ELSE items[p][e]
            BY <2>0, <5>1, <5>2, KeepsMemory
          <5> QED BY <3>1, <4>0, <4>2, <5>2, <5>3 DEF ReadInv
        <4> QED BY <4>1, <4>2
      <3>4. WriterInv(p)'
        BY <3>1, <3>3 DEF WriterInv, Writes
      <3> QED BY <1>2, <3>1, <3>4, WriterStep
    <2>5. ASSUME Look(p) \/ Load(p) PROVE SavedInv'
      <3>1. /\ pc[p] \in {"read", "load"} /\ pc'[p] \in {"load", "act"}
            /\ UNCHANGED <<files, op, todo, items, beside>>
        BY <2>0, <2>5 DEF Look, Load, Goto, shared, ghosts
      <3>2. Writes(p) => ReadInv(p)
        BY <2>0, <3>1 DEF WriterInv
      <3>3. WriterInv(p)'
        BY <3>1, <3>2 DEF WriterInv, Writes, ReadInv
      <3> QED BY <1>2, <3>1, <3>3, WriterStep
    <2>6. ASSUME Register(p) PROVE SavedInv'
      <3>1. /\ pc[p] = "act" /\ pc'[p] = "save" /\ op[p].kind \in {"register", "unregister"}
            /\ todo'[p] = DOMAIN items'[p] /\ UNCHANGED <<files, op, failed, beside>>
        BY <2>0, <2>6 DEF Register, Goto, shared, ghosts
      <3>2. ASSUME Writes(p), NEW d \in DOMAIN items'[p], op[p].disk # d
            PROVE  TagsFit(Lines(files[d]), items'[p][d].tags)
        <4>0. ReadInv(p)
          BY <2>0, <3>1, <3>2 DEF WriterInv
        <4>1. d \in DOMAIN items[p] /\ items'[p][d] = items[p][d]
          <5>1. CASE UNCHANGED items
            BY <3>2, <5>1
          <5>2. CASE ~UNCHANGED items
            <6>1. Keep(p, op[p].disk, [tags |-> op[p].tags, external |-> op[p].kind = "register"])
              BY <2>6, <5>2 DEF Register
            <6> QED BY <2>0, <3>2, <6>1 DEF Keep
          <5> QED BY <5>1, <5>2
        <4>2. d \in Disks
          BY <2>0, <4>1, MemoryTypes
        <4>3. items'[p][d] = ReadConf(Lines(files[d]))
          BY <4>0, <4>1 DEF ReadInv
        <4> QED BY <2>0, <4>2, <4>3, FileStates, ReadIsItem DEF TagsFit
      <3>3. WriterInv(p)'
        BY <3>1, <3>2 DEF WriterInv, Writes, SaveInv
      <3> QED BY <1>2, <3>1, <3>3, WriterStep
    <2>7. ASSUME Reset(p) PROVE SavedInv'
      <3>1. /\ pc[p] = "act" /\ pc'[p] = "remove" /\ todo[p] = {}
            /\ todo'[p] = DOMAIN items[p] /\ UNCHANGED <<files, op, items, beside>>
        BY <2>0, <2>7 DEF Reset, Goto, shared, ghosts, PhaseInv
      <3>2. ASSUME Writes(p) PROVE RemoveInv(p)'
        <4>1. ReadInv(p)
          BY <2>0, <3>1, <3>2 DEF WriterInv
        <4>2. \A d \in DOMAIN items[p] : items[p][d].tags \in Seq(Tags \union {Blank})
          BY <2>0, <4>1, FileStates, ReadIsItem DEF ReadInv
        <4>3. \A d \in Disks \ DOMAIN items[p] : ~Patterned(Lines(files[d]))
          BY <3>1, <4>1 DEF ReadInv
        <4> QED BY <3>1, <4>2, <4>3 DEF RemoveInv
      <3>3. WriterInv(p)'
        BY <3>1, <3>2 DEF WriterInv, Writes
      <3> QED BY <1>2, <3>1, <3>3, WriterStep
    <2>8. ASSUME NEW d \in Disks, RemoveFile(p, d) PROVE SavedInv'
      <3>1. /\ pc[p] = "remove" /\ todo'[p] = todo[p] \ {d} /\ d \in todo[p]
            /\ UNCHANGED <<pc, op, items, beside>>
            /\ \/ /\ files' = [files EXCEPT ![d] = None]
                  /\ failed' = [failed EXCEPT ![p] = failed[p] \/ files[d] = None]
               \/ /\ UNCHANGED files
                  /\ failed' = [failed EXCEPT ![p] = TRUE]
        BY <2>0, <2>8 DEF RemoveFile, ghosts
      <3>2. ASSUME Writes(p) PROVE RemoveInv(p)'
        <4>1. RemoveInv(p) /\ d \in DOMAIN items[p]
          BY <2>0, <3>1, <3>2 DEF WriterInv, PhaseInv
        <4>2. DOMAIN items[p] \subseteq Disks
          BY <2>0, MemoryTypes
        <4>3. CASE /\ files' = [files EXCEPT ![d] = None]
                   /\ failed' = [failed EXCEPT ![p] = failed[p] \/ files[d] = None]
          <5>1. \A e \in Disks : files'[e] = IF e = d THEN None ELSE files[e]
            BY <2>0, <4>3
          <5>2. failed[p] => failed'[p]
            BY <2>0, <4>3
          <5> QED BY <3>1, <4>1, <4>2, <5>1, <5>2 DEF RemoveInv
        <4>4. CASE UNCHANGED files /\ failed' = [failed EXCEPT ![p] = TRUE]
          <5>1. failed'[p]
            BY <2>0, <4>4
          <5> QED BY <3>1, <4>1, <4>4, <5>1 DEF RemoveInv
        <4> QED BY <3>1, <4>3, <4>4
      <3>3. WriterInv(p)'
        BY <3>1, <3>2 DEF WriterInv, Writes
      <3> QED BY <1>2, <3>1, <3>3, WriterStep
    <2>9. ASSUME RegisterAttached(p) PROVE SavedInv'
      <3>1. pc[p] = "remove" /\ todo[p] = {} /\ UNCHANGED <<files, op, failed, beside>>
        BY <2>9 DEF RegisterAttached, shared, ghosts
      <3>2. CASE failed[p]
        <4>1. pc'[p] = "cleanup"
          BY <2>0, <2>9, <3>2 DEF RegisterAttached, Goto
        <4> QED BY <1>2, <3>1, <3>2, <4>1, WriterStep DEF WriterInv
      <3>3. CASE ~failed[p]
        <4>1. PICK attached \in SUBSET Disks :
                 /\ items' = [items EXCEPT ![p] =
                                 [d \in DOMAIN items[p] \union attached |->
                                     IF d \in attached THEN [tags |-> <<>>, external |-> FALSE]
                                     ELSE items[p][d]]]
                 /\ todo' = [todo EXCEPT ![p] = DOMAIN items'[p]]
                 /\ pc' = [pc EXCEPT ![p] = "save"]
          BY <2>9, <3>3 DEF RegisterAttached, Goto
        <4>2. /\ pc'[p] = "save" /\ todo'[p] = DOMAIN items'[p]
              /\ DOMAIN items'[p] = DOMAIN items[p] \union attached
              /\ \A d \in DOMAIN items'[p] :
                    items'[p][d] = IF d \in attached THEN [tags |-> <<>>, external |-> FALSE]
                                   ELSE items[p][d]
          BY <2>0, <4>1
        <4>3. ASSUME Writes(p), NEW d \in DOMAIN items'[p]
              PROVE  TagsFit(Lines(files[d]), items'[p][d].tags)
          <5>1. RemoveInv(p)
            BY <2>0, <3>1, <4>3 DEF WriterInv
          <5>2. d \in Disks
            BY <2>0, <4>2, MemoryTypes
          <5>3. items'[p][d].tags \in Seq(Tags \union {Blank})
            <6>1. CASE d \in attached
              <7>1. items'[p][d].tags = <<>>
                BY <4>2, <6>1
              <7> QED BY <7>1, EmptySeq
            <6>2. CASE d \notin attached
              <7>1. d \in DOMAIN items[p] /\ items'[p][d] = items[p][d]
                BY <4>2, <6>2
              <7> QED BY <5>1, <7>1 DEF RemoveInv
            <6> QED BY <6>1, <6>2
          <5>4. CASE d \in DOMAIN items[p]
            <6>1. Lines(files[d]) = <<>>
              BY <3>1, <3>3, <5>1, <5>4 DEF RemoveInv, Lines
            <6>2. Places(Lines(files[d]), "Tags") = {}
              BY <6>1 DEF Places
            <6> QED BY <5>3, <6>2 DEF TagsFit
          <5>5. CASE d \notin DOMAIN items[p]
            <6>1. items'[p][d].tags = <<>>
              BY <4>2, <5>5
            <6>2. AtMostOne(Lines(files[d]), "Tags")
              BY <2>0, <5>1, <5>2, <5>5, FileStates DEF RemoveInv, Content
            <6> QED BY <5>3, <6>1, <6>2 DEF TagsFit
          <5> QED BY <5>4, <5>5
        <4>4. WriterInv(p)'
          BY <3>1, <4>2, <4>3 DEF WriterInv, Writes, SaveInv
        <4> QED BY <1>2, <3>1, <4>4, WriterStep
      <3> QED BY <3>2, <3>3
    <2>10. ASSUME Eject(p) \/ RunHooks(p) PROVE SavedInv'
      <3>1. /\ pc[p] = "act" /\ op[p].kind \notin {"register", "unregister", "reset"}
            /\ UNCHANGED <<op, beside>>
        BY <2>10 DEF Eject, RunHooks, ghosts
      <3> QED BY <1>2, <3>1, WriterStep DEF WriterInv, Writes
    <2>11. ASSUME NEW d \in Disks, Save(p, d) PROVE SavedInv'
      <3>1. /\ pc[p] = "save" /\ d \in todo[p] /\ todo'[p] = todo[p] \ {d}
            /\ UNCHANGED <<pc, op, items, beside>>
        BY <2>0, <2>11 DEF Save, ghosts
      <3>2. DOMAIN items[p] \subseteq Disks /\ items[p][d] \in Item /\ d \in DOMAIN items[p]
        BY <2>0, <3>1, MemoryTypes DEF PhaseInv
      <3>3. ASSUME Writes(p) PROVE SaveInv(p)'
        <4>1. SaveInv(p)
          BY <2>0, <3>1, <3>3 DEF WriterInv
        <4>2. CASE /\ failed' = [failed EXCEPT ![p] = TRUE]
                   /\ \E file \in {files[d], <<>>} : files' = [files EXCEPT ![d] = file]
          <5>1. failed'[p]
            BY <2>0, <4>2
          <5>2. \A e \in Disks : e # d => files'[e] = files[e]
            BY <2>0, <4>2
          <5>3. \A e \in todo'[p] : files'[e] = files[e]
            BY <2>0, <3>1, <5>2
          <5> QED BY <3>1, <4>1, <5>1, <5>3 DEF SaveInv
        <4>3. CASE /\ files' = [files EXCEPT ![d] = WriteConf(Lines(files[d]), d, items[p][d])]
                   /\ UNCHANGED failed
          <5>1. PICK new : new = WriteConf(Lines(files[d]), d, items[p][d])
            OBVIOUS
          <5>2. /\ Content(new) /\ ReadConf(new).external = items[p][d].external
                /\ items[p][d].tags # None =>
                      ToSet(items[p][d].tags) \subseteq ToSet(ReadConf(new).tags)
                /\ TagsFit(Lines(files[d]), items[p][d].tags) =>
                      ReadConf(new).tags = items[p][d].tags
            BY <2>0, <3>2, <5>1, FileStates, WrittenIsRead
          <5>3. \A e \in Disks : files'[e] = IF e = d THEN new ELSE files[e]
            BY <2>0, <4>3, <5>1
          <5>4. new # None
            BY <5>2, ContentIsNotNone
          <5>5. op[p].disk = d \/ TagsFit(Lines(files[d]), items[p][d].tags)
            BY <3>1, <3>2, <4>1 DEF SaveInv
          <5>6. Agrees(p, d)'
            BY <3>1, <3>2, <5>2, <5>3, <5>4, <5>5 DEF Agrees
          <5>7. ASSUME NEW e \in DOMAIN items[p], e # d
                PROVE  IF e \in todo'[p]
                       THEN op[p].disk = e \/ TagsFit(Lines(files'[e]), items[p][e].tags)
                       ELSE failed[p] \/ Agrees(p, e)'
            <6>1. files'[e] = files[e]
              BY <3>2, <5>3, <5>7
            <6>2. Agrees(p, e) => Agrees(p, e)'
              BY <3>1, <6>1 DEF Agrees
            <6> QED BY <3>1, <4>1, <5>7, <6>1, <6>2 DEF SaveInv
          <5> QED BY <3>1, <4>3, <5>6, <5>7 DEF SaveInv
        <4> QED BY <2>0, <2>11, <4>2, <4>3 DEF Save
      <3>4. WriterInv(p)'
        BY <3>1, <3>3 DEF WriterInv, Writes
      <3> QED BY <1>2, <3>1, <3>4, WriterStep
    <2>12. ASSUME Saved(p) PROVE SavedInv'
      <3>1. /\ pc[p] = "save" /\ todo[p] = {} /\ pc'[p] = "cleanup"
            /\ UNCHANGED <<files, op, items, failed, beside>>
        BY <2>0, <2>12 DEF Saved, Goto, shared, ghosts
      <3>2. Writes(p) => failed[p] \/ \A d \in DOMAIN items[p] : Agrees(p, d)
        BY <2>0, <3>1 DEF WriterInv, SaveInv
      <3>3. \A d : Agrees(p, d) => Agrees(p, d)'
        BY <3>1 DEF Agrees
      <3>4. WriterInv(p)'
        BY <3>1, <3>2, <3>3 DEF WriterInv, Writes
      <3> QED BY <1>2, <3>1, <3>4, WriterStep
    <2>13. ASSUME Edit(p) \/ Cleanup(p) \/ Crash(p) PROVE SavedInv'
      <3>1. Forget(p) /\ pc[p] # "idle"
        BY <2>13 DEF Edit, Cleanup, Crash
      <3>2. pc'[p] = "idle"
        BY <2>0, <3>1 DEF Forget
      <3>3. WriterInv(p)'
        BY <3>2 DEF WriterInv
      <3> QED BY <1>2, <3>1, <3>3, WriterStep
    <2> QED BY <1>2, <2>1, <2>2, <2>3, <2>4, <2>5, <2>6, <2>7, <2>8, <2>9,
               <2>10, <2>11, <2>12, <2>13 DEF Step
  <1> QED BY <1>1, <1>2 DEF Next

-----------------------------------------------------------------------------
(* What is proved of the files.                                            *)

\* The files and the memories stay well formed, whatever processes do to them at
\* the same time and wherever they die.
THEOREM MemoryHolds == Spec => [](RegistryInv /\ MemoryInv /\ SavedInv)
  <1>1. Init => RegistryInv /\ MemoryInv /\ SavedInv
    BY RegistryInit, MemoryInit, SavedInit
  <1>2. RegistryInv /\ MemoryInv /\ SavedInv /\ [Next]_vars => (RegistryInv /\ MemoryInv /\ SavedInv)'
    BY RegistryNext, MemoryNext, SavedNext
  <1> QED BY <1>1, <1>2, PTL DEF Spec

\* Every file of conf.d is none or a list of known keys, every process in a known
\* phase and what it remembers of a disk an item.
THEOREM RegistryTypeCorrect == Spec => []TypeOK
  <1>1. RegistryInv /\ MemoryInv => TypeOK
    <2> SUFFICES ASSUME RegistryInv, MemoryInv PROVE TypeOK
      OBVIOUS
    <2>1. files \in [Disks -> File]
      BY DEF MemoryInv, FileState
    <2>2. private \in Seq(PrivateLine) \union {None}
      BY NamedIsNotNone, EmptySeq DEF RegistryInv, PrivateShape
    <2>3. \A p \in Procs : /\ DOMAIN items[p] \subseteq Disks
                           /\ \A d \in DOMAIN items[p] : items[p][d] \in Item
      BY MemoryTypes DEF MemoryInv
    <2> QED BY <2>1, <2>2, <2>3 DEF RegistryInv, OwnersInv, MemoryInv, TypeOK
  <1> QED BY <1>1, MemoryHolds, PTL

\* Whoever is undisturbed and reports success has saved what the next process
\* will read, for every number of disks and tags and in whatever state the
\* processes before it have left the files.
THEOREM RegistrySaved == Spec => []SavedIsRead
  <1>1. SavedInv => SavedIsRead
    <2> SUFFICES ASSUME SavedInv, NEW p \in Procs,
                        pc[p] = "cleanup", Writes(p), ~failed[p],
                        NEW d \in DOMAIN items[p]
                 PROVE  /\ ReadConf(files[d]).external = items[p][d].external
                        /\ IF op[p].disk # d THEN ReadConf(files[d]).tags = items[p][d].tags
                           ELSE items[p][d].tags # None =>
                                   ToSet(items[p][d].tags) \subseteq ToSet(ReadConf(files[d]).tags)
      BY DEF SavedIsRead, Writes
    <2>1. Agrees(p, d)
      BY DEF SavedInv, WriterInv
    <2> QED BY <2>1 DEF Agrees
  <1> QED BY <1>1, MemoryHolds, PTL
=============================================================================
