-------------------------- MODULE SshSessionProofs --------------------------
(***************************************************************************)
(* Proofs about SshSession, for every number of sessions, commands and     *)
(* temporary files, and every fault.                                       *)
(***************************************************************************)
EXTENDS SshSession, TLAPS

-----------------------------------------------------------------------------
(* Type correctness.                                                       *)

\* What an ssh command makes of the files and of what is known of failures.
LEMMA SshType ==
    ASSUME TypeOK, NEW s \in Sessions, NEW new, NEW ok \in BOOLEAN, Ssh(s, new, ok),
           new \subseteq Sessions \X (Temps \union {"script", "askpass"})
    PROVE  /\ files' \subseteq Sessions \X (Temps \union {"script", "askpass"})
           /\ failed' \in [Sessions -> BOOLEAN]
  BY DEF TypeOK, Ssh

\* What is set of a temporary file.
LEMMA TempType ==
    ASSUME TypeOK, NEW s \in Sessions, NEW t \in Temps,
           NEW state \in {"none", "open", "kept", "over"}, Become(s, t, state)
    PROVE  temp_files' \in [Sessions -> [Temps -> {"none", "open", "kept", "over"}]]
  BY DEF TypeOK, Become

LEMMA TypeInit == Init => TypeOK
  <1> SUFFICES ASSUME Init PROVE TypeOK
    OBVIOUS
  <1>1. PICK setup \in [Sessions -> Setups] :
            /\ keyfile = [s \in Sessions |-> setup[s].keyfile]
            /\ login = [s \in Sessions |-> setup[s].login]
            /\ wants_sudo = [s \in Sessions |-> setup[s].sudo]
    BY DEF Init
  <1>2. \A s \in Sessions : setup[s] \in Setup
    BY SetupsAssumption
  <1>3. \A s \in Sessions : /\ setup[s].keyfile \in {"none", "given"}
                             /\ setup[s].login \in BOOLEAN
                             /\ setup[s].sudo \in BOOLEAN
    BY <1>2 DEF Setup
  <1>4. script \in [Sessions -> {"none", "askpass", "command"}]
    BY DEF Init
  <1>5. commands \in 0 .. MaxCommands
    BY CommandsAssumption DEF Init
  <1>6. /\ keyfile \in [Sessions -> {"none", "given", "session"}]
        /\ login \in [Sessions -> BOOLEAN]
        /\ wants_sudo \in [Sessions -> BOOLEAN]
    BY <1>1, <1>3
  <1>7. /\ authorized = {} /\ files = {} /\ pc \in [Sessions -> Phase]
        /\ temp_files \in [Sessions -> [Temps -> {"none", "open", "kept", "over"}]]
        /\ {key_dir, public_key, askpass, sudo, deleting, failed, disturbed,
          hasty}
               \subseteq [Sessions -> BOOLEAN]
    BY DEF Init, Phase
  <1> QED BY <1>4, <1>5, <1>6, <1>7 DEF TypeOK

LEMMA TypeConnect ==
    ASSUME TypeOK, NEW s \in Sessions, Connect(s) \/ CopyId(s) \/ StartSudo(s)
    PROVE  TypeOK'
  <1>1. CASE Connect(s)
    BY <1>1 DEF Connect, TypeOK, Phase, Goto, server, ghosts
  <1>2. CASE CopyId(s)
    BY <1>2 DEF CopyId, TypeOK, Phase, Goto
  <1>3. CASE StartSudo(s)
    <2>1. script' \in [Sessions -> {"none", "askpass", "command"}]
      BY <1>3 DEF StartSudo, TypeOK
    <2> QED BY <1>3, <2>1 DEF StartSudo, TypeOK, Phase, Goto, server, local, ghosts
  <1> QED BY <1>1, <1>2, <1>3

LEMMA TypeScript ==
    ASSUME TypeOK, NEW s \in Sessions, PutScript(s) \/ ExecScript(s) \/ RemoveScript(s)
    PROVE  TypeOK'
  <1> DEFINE Fine == /\ files' \subseteq Sessions \X (Temps \union {"script", "askpass"})
                     /\ failed' \in [Sessions -> BOOLEAN]
  <1>w. \A name \in {"script", "askpass"} :
            With(s, name) \subseteq Sessions \X (Temps \union {"script", "askpass"})
    BY DEF With, TypeOK
  <1>f. files \subseteq Sessions \X (Temps \union {"script", "askpass"})
    BY DEF TypeOK
  <1>a. PutScript(s) => Fine
    BY <1>w, SshType DEF PutScript
  <1>b. ExecScript(s) => Fine
    <2>1. AskpassScript(s) => Fine
      BY <1>w, <1>f, SshType DEF AskpassScript, TypeOK
    <2>2. CommandScript(s) => Fine
      BY <1>f, SshType DEF CommandScript
    <2> QED BY <2>1, <2>2 DEF ExecScript
  <1>c. RemoveScript(s) => Fine
    BY SshType DEF RemoveScript, Without, TypeOK
  <1>1. Fine
    BY <1>a, <1>b, <1>c
  <1>2. script' \in [Sessions -> {"none", "askpass", "command"}]
    BY DEF PutScript, ExecScript, RemoveScript, TypeOK
  <1>3. pc' \in [Sessions -> Phase]
    BY DEF PutScript, ExecScript, RemoveScript, TypeOK, Phase, Goto
  <1>4. askpass' \in [Sessions -> BOOLEAN] /\ sudo' \in [Sessions -> BOOLEAN]
    BY DEF PutScript, ExecScript, RemoveScript, AskpassScript, CommandScript, TypeOK
  <1>5. UNCHANGED <<authorized, local, temp_files, deleting, commands, disturbed, hasty>>
    BY DEF PutScript, ExecScript, RemoveScript
  <1> QED BY <1>1, <1>2, <1>3, <1>4, <1>5 DEF TypeOK, local

LEMMA TypeWork ==
    ASSUME TypeOK, NEW s \in Sessions,
           \/ \E as_root \in BOOLEAN : Run(s, as_root)
           \/ \E t \in Temps : CreateTemp(s, t) \/ CloseTemp(s, t) \/ DeleteTemp(s, t)
    PROVE  TypeOK'
  <1>1. CASE \E as_root \in BOOLEAN : Run(s, as_root)
    <2>1. /\ files' \subseteq Sessions \X (Temps \union {"script", "askpass"})
          /\ failed' \in [Sessions -> BOOLEAN]
      BY <1>1, SshType DEF Run, TypeOK
    <2>2. commands' \in 0 .. MaxCommands
      BY <1>1, CommandsAssumption DEF Run, TypeOK
    <2>3. script' \in [Sessions -> {"none", "askpass", "command"}]
      BY <1>1 DEF Run, TypeOK
    <2> QED BY <1>1, <2>1, <2>2, <2>3 DEF Run, TypeOK, Phase, Goto, local
  <1>2. ASSUME NEW t \in Temps, CreateTemp(s, t) PROVE TypeOK'
    <2>w. With(s, t) \subseteq Sessions \X (Temps \union {"script", "askpass"})
      BY DEF With, TypeOK
    <2>1. /\ files' \subseteq Sessions \X (Temps \union {"script", "askpass"})
          /\ failed' \in [Sessions -> BOOLEAN]
      <3>1. PICK ok \in BOOLEAN : Ssh(s, With(s, t), ok)
        BY <1>2 DEF CreateTemp
      <3>2. files \subseteq Sessions \X (Temps \union {"script", "askpass"})
        BY DEF TypeOK
      <3> QED BY <2>w, <3>1, <3>2, SshType
    <2>2. commands' \in 0 .. MaxCommands
      BY <1>2, CommandsAssumption DEF CreateTemp, TypeOK
    <2>3. temp_files' \in [Sessions -> [Temps -> {"none", "open", "kept", "over"}]]
      BY <1>2, TempType DEF CreateTemp
    <2> QED BY <1>2, <2>1, <2>2, <2>3 DEF CreateTemp, TypeOK, Phase, Goto, local
  <1>3. ASSUME NEW t \in Temps, CloseTemp(s, t) \/ DeleteTemp(s, t) PROVE TypeOK'
    <2>1. /\ files' \subseteq Sessions \X (Temps \union {"script", "askpass"})
          /\ failed' \in [Sessions -> BOOLEAN]
      BY <1>3, SshType DEF CloseTemp, DeleteTemp, Without, TypeOK
    <2>2. temp_files' \in [Sessions -> [Temps -> {"none", "open", "kept", "over"}]]
      BY <1>3, TempType DEF CloseTemp, DeleteTemp
    <2> QED BY <1>3, <2>1, <2>2 DEF CloseTemp, DeleteTemp, TypeOK, local
  <1> QED BY <1>1, <1>2, <1>3

LEMMA ForgetType ==
    ASSUME TypeOK, NEW s \in Sessions, Forget(s)
    PROVE  /\ keyfile' \in [Sessions -> {"none", "given", "session"}]
           /\ public_key' \in [Sessions -> BOOLEAN]
           /\ askpass' \in [Sessions -> BOOLEAN]
           /\ sudo' \in [Sessions -> BOOLEAN]
           /\ script' \in [Sessions -> {"none", "askpass", "command"}]
           /\ temp_files' \in [Sessions -> [Temps -> {"none", "open", "kept", "over"}]]
           /\ deleting' \in [Sessions -> BOOLEAN]
           /\ UNCHANGED <<login, wants_sudo, commands>>
  <1>1. temp_files' \in [Sessions -> [Temps -> {"none", "open", "kept", "over"}]]
    BY DEF TypeOK, Forget
  <1> QED BY <1>1 DEF TypeOK, Forget

LEMMA TypeEnd ==
    ASSUME TypeOK, NEW s \in Sessions,
           Leave(s) \/ Deleted(s) \/ CloseSudo(s) \/ CloseKey(s) \/ Crash(s)
    PROVE  TypeOK'
  <1>1. CASE Leave(s) \/ Deleted(s)
    BY <1>1 DEF Leave, Deleted, TypeOK, Phase, Goto, server, local, ghosts
  <1>2. CASE CloseSudo(s)
    <2>1. /\ files' \subseteq Sessions \X (Temps \union {"script", "askpass"})
          /\ failed' \in [Sessions -> BOOLEAN]
      BY <1>2, SshType DEF CloseSudo, Without, TypeOK
    <2> QED BY <1>2, <2>1 DEF CloseSudo, TypeOK, Phase, Goto, local
  <1>3. CASE CloseKey(s)
    <2>1. /\ authorized' \subseteq Sessions
          /\ disturbed' \in [Sessions -> BOOLEAN]
          /\ failed' \in [Sessions -> BOOLEAN]
      BY <1>3 DEF CloseKey, RemoveKeys, TypeOK
    <2>2. pc' \in [Sessions -> Phase]
      <3>1. Goto(s, "ended") \/ Goto(s, "delete")
        BY <1>3 DEF CloseKey
      <3> QED BY <3>1 DEF Goto, TypeOK, Phase
    <2>3. key_dir' \in [Sessions -> BOOLEAN] /\ files' = files /\ hasty' = hasty
      BY <1>3 DEF CloseKey, TypeOK
    <2>4. CASE deleting[s]
      <3>1. Forget(s)
        BY <1>3, <2>4 DEF CloseKey
      <3> QED BY <2>1, <2>2, <2>3, <3>1, ForgetType DEF TypeOK
    <2>5. CASE ~deleting[s]
      <3>1. /\ deleting' \in [Sessions -> BOOLEAN]
            /\ public_key' \in [Sessions -> BOOLEAN]
            /\ UNCHANGED <<keyfile, login, wants_sudo, askpass, sudo, script,
                           temp_files, commands>>
        BY <1>3, <2>5 DEF CloseKey, TypeOK
      <3> QED BY <2>1, <2>2, <2>3, <3>1 DEF TypeOK
    <2> QED BY <2>4, <2>5
  <1>4. CASE Crash(s)
    <2>1. Forget(s)
      BY <1>4 DEF Crash
    <2>2. /\ pc' \in [Sessions -> Phase]
          /\ failed' \in [Sessions -> BOOLEAN]
          /\ disturbed' \in [Sessions -> BOOLEAN]
          /\ hasty' \in [Sessions -> BOOLEAN]
          /\ UNCHANGED <<server, key_dir>>
      BY <1>4 DEF Crash, Goto, TypeOK, Phase
    <2> QED BY <2>1, <2>2, ForgetType DEF TypeOK, server
  <1> QED BY <1>1, <1>2, <1>3, <1>4

LEMMA TypeNext == TypeOK /\ [Next]_vars => TypeOK'
  <1> SUFFICES ASSUME TypeOK, [Next]_vars PROVE TypeOK'
    OBVIOUS
  <1>1. CASE UNCHANGED vars
    BY <1>1 DEF vars, TypeOK
  <1>2. ASSUME NEW s \in Sessions, Step(s) PROVE TypeOK'
    <2> QED BY <1>2, TypeConnect, TypeScript, TypeWork, TypeEnd DEF Step
  <1> QED BY <1>1, <1>2 DEF Next

\* Every reachable state is well typed.
THEOREM SessionTypeCorrect == Spec => []TypeOK
  <1> QED BY TypeInit, TypeNext, PTL DEF Spec

-----------------------------------------------------------------------------
(* The inductive invariant, session by session.                            *)

\* The commands of the session came through, and it can still log in without
\* the key that was taken from it.
Whole(s) == ~failed[s] /\ (disturbed[s] => login[s])

\* What becomes of the key.
KeyInv(s) ==
    /\ public_key[s] => keyfile[s] = "session" /\ key_dir[s]
                         /\ pc[s] \notin {"start", "copy_id", "ended"}
    /\ (public_key[s] /\ ~disturbed[s]) => s \in authorized
    /\ pc[s] = "copy_id" => key_dir[s]
    /\ (key_dir[s] /\ pc[s] # "dead") =>
           (pc[s] = "copy_id" \/ (keyfile[s] = "session" /\ pc[s] # "ended"))
    /\ (Whole(s) /\ s \in authorized /\ pc[s] # "dead") => public_key[s]

\* Until the sudo session is closed, its password is on the server.
Closing == {"close_sudo", "close_key", "delete", "ended", "dead"}
SudoInv(s) ==
    (sudo[s] /\ pc[s] \notin Closing) => askpass[s] /\ <<s, "askpass">> \in files

\* Who still has the name of a file, and will remove it.
Known(s, name) ==
    \/ name = "script" /\ pc[s] \in {"exec", "remove"}
    \/ name = "askpass" /\ askpass[s]
    \/ name \in Temps /\ temp_files[s][name] = "open"

\* What is left by a session that has removed its key too early.
Stuck(s, name) == name \in Temps /\ hasty[s] /\ ~login[s]

\* Each other file is known, and can be removed, as long as nothing has gone
\* wrong.  Where close removes the key, no temporary file needs it any more
\* unless it was too early.
FilesInv(s) ==
    /\ (Whole(s) /\ pc[s] # "dead") =>
           \A name \in Temps \union {"script", "askpass"} :
               <<s, name>> \in files => Stuck(s, name) \/ (MayLogin(s) /\ Known(s, name))
    /\ pc[s] \in {"close_key", "ended"} => ~askpass[s]
    /\ pc[s] = "ended" => \A t \in Temps : temp_files[s][t] # "open"
    /\ pc[s] \in {"close_sudo", "close_key"} =>
           \A t \in Temps : temp_files[s][t] = "open" =>
               ~deleting[s] /\ (keyfile[s] = "session" => hasty[s])

SessionInv(s) == KeyInv(s) /\ SudoInv(s) /\ FilesInv(s)

\* Nothing of the end has happened before it.
EarlyInv(s) == pc[s] \notin Closing => ~deleting[s] /\ ~hasty[s]

-----------------------------------------------------------------------------
(* What a step of one session does to another.                             *)

\* Nothing, but for the key that may be removed.
Apart(s, r) ==
    /\ pc'[r] = pc[r] /\ keyfile'[r] = keyfile[r] /\ login'[r] = login[r]
    /\ key_dir'[r] = key_dir[r] /\ public_key'[r] = public_key[r]
    /\ askpass'[r] = askpass[r] /\ sudo'[r] = sudo[r]
    /\ temp_files'[r] = temp_files[r] /\ failed'[r] = failed[r]
    /\ deleting'[r] = deleting[r] /\ hasty'[r] = hasty[r]
    /\ \A name : <<r, name>> \in files' <=> <<r, name>> \in files
    /\ \/ disturbed'[r] = disturbed[r] /\ (r \in authorized' <=> r \in authorized)
       \/ r \notin authorized' /\ (disturbed'[r] <=> (disturbed[r] \/ r \in authorized))

LEMMA ApartKeeps ==
    ASSUME TypeOK, NEW s \in Sessions, NEW r \in Sessions, Apart(s, r), SessionInv(r)
    PROVE  SessionInv(r)'
  <1>1. Whole(r)' => Whole(r)
    BY DEF Apart, Whole
  <1>2. Whole(r)' /\ MayLogin(r) => MayLogin(r)'
    BY DEF Apart, Whole, MayLogin
  <1>3. KeyInv(r)'
    BY <1>1 DEF Apart, SessionInv, KeyInv
  <1>4. SudoInv(r)'
    BY DEF Apart, SessionInv, SudoInv
  <1>5. FilesInv(r)'
    BY <1>1, <1>2 DEF Apart, SessionInv, FilesInv, Known, Stuck
  <1> QED BY <1>3, <1>4, <1>5 DEF SessionInv

\* An ssh command of one session leaves the files of another alone.
LEMMA SshApart ==
    ASSUME TypeOK, NEW s \in Sessions, NEW r \in Sessions, r # s,
           NEW new, NEW ok \in BOOLEAN, Ssh(s, new, ok),
           \A name : <<r, name>> \in new <=> <<r, name>> \in files
    PROVE  /\ \A name : <<r, name>> \in files' <=> <<r, name>> \in files
           /\ failed'[r] = failed[r]
  BY DEF Ssh, TypeOK

LEMMA NamesApart ==
    ASSUME NEW s, NEW r, r # s, NEW name
    PROVE  \A other : /\ <<r, other>> \in With(s, name) <=> <<r, other>> \in files
                      /\ <<r, other>> \in Without(s, name) <=> <<r, other>> \in files
  BY DEF With, Without

LEMMA StepApart ==
    ASSUME TypeOK, NEW s \in Sessions, Step(s), NEW r \in Sessions, r # s
    PROVE  Apart(s, r)
  <1> USE DEF Apart, Goto, server, local, ghosts
  <1>1. CASE Connect(s)
    BY <1>1 DEF Connect, TypeOK
  <1>2. CASE CopyId(s)
    BY <1>2 DEF CopyId, TypeOK
  <1>3. CASE StartSudo(s)
    BY <1>3 DEF StartSudo, TypeOK
  <1>4. CASE PutScript(s)
    <2>1. /\ \A name : <<r, name>> \in files' <=> <<r, name>> \in files
          /\ failed'[r] = failed[r]
      BY <1>4, SshApart, NamesApart DEF PutScript
    <2> QED BY <1>4, <2>1 DEF PutScript, TypeOK
  <1>5. CASE ExecScript(s)
    <2>1. /\ \A name : <<r, name>> \in files' <=> <<r, name>> \in files
          /\ failed'[r] = failed[r]
          /\ askpass'[r] = askpass[r] /\ sudo'[r] = sudo[r]
      <3>1. CASE AskpassScript(s)
        <4>1. CASE UNCHANGED <<files, askpass, sudo, failed>>
          BY <4>1
        <4>2. CASE \E ok \in BOOLEAN :
                      /\ Ssh(s, With(s, "askpass"), ok)
                      /\ askpass' = [askpass EXCEPT ![s] = ok]
                      /\ sudo' = [sudo EXCEPT ![s] = ok]
          <5>1. PICK ok \in BOOLEAN : /\ Ssh(s, With(s, "askpass"), ok)
                                     /\ askpass' = [askpass EXCEPT ![s] = ok]
                                     /\ sudo' = [sudo EXCEPT ![s] = ok]
            BY <4>2
          <5>2. \A name : <<r, name>> \in With(s, "askpass") <=> <<r, name>> \in files
            BY NamesApart
          <5>3. /\ \A name : <<r, name>> \in files' <=> <<r, name>> \in files
                /\ failed'[r] = failed[r]
            BY <5>1, <5>2, SshApart
          <5> QED BY <5>1, <5>3 DEF TypeOK
        <4> QED BY <3>1, <4>1, <4>2 DEF AskpassScript
      <3>2. CASE CommandScript(s)
        BY <3>2, SshApart DEF CommandScript
      <3> QED BY <1>5, <3>1, <3>2 DEF ExecScript
    <2> QED BY <1>5, <2>1 DEF ExecScript, TypeOK
  <1>6. CASE RemoveScript(s)
    <2>1. /\ \A name : <<r, name>> \in files' <=> <<r, name>> \in files
          /\ failed'[r] = failed[r]
      BY <1>6, SshApart, NamesApart DEF RemoveScript
    <2> QED BY <1>6, <2>1 DEF RemoveScript, TypeOK
  <1>7. CASE \E as_root \in BOOLEAN : Run(s, as_root)
    <2>1. /\ \A name : <<r, name>> \in files' <=> <<r, name>> \in files
          /\ failed'[r] = failed[r]
      BY <1>7, SshApart DEF Run
    <2> QED BY <1>7, <2>1 DEF Run, TypeOK
  <1>8. ASSUME NEW t \in Temps, CreateTemp(s, t) \/ CloseTemp(s, t) \/ DeleteTemp(s, t)
        PROVE  Apart(s, r)
    <2>1. /\ \A name : <<r, name>> \in files' <=> <<r, name>> \in files
          /\ failed'[r] = failed[r]
      BY <1>8, SshApart, NamesApart DEF CreateTemp, CloseTemp, DeleteTemp
    <2>2. temp_files'[r] = temp_files[r]
      BY <1>8 DEF CreateTemp, CloseTemp, DeleteTemp, Become, TypeOK
    <2> QED BY <1>8, <2>1, <2>2 DEF CreateTemp, CloseTemp, DeleteTemp, TypeOK
  <1>9. CASE Leave(s) \/ Deleted(s)
    BY <1>9 DEF Leave, Deleted, TypeOK
  <1>10. CASE CloseSudo(s)
    <2>1. /\ \A name : <<r, name>> \in files' <=> <<r, name>> \in files
          /\ failed'[r] = failed[r]
      <3>1. CASE askpass[s]
        BY <1>10, <3>1, SshApart, NamesApart DEF CloseSudo
      <3>2. CASE ~askpass[s]
        BY <1>10, <3>2 DEF CloseSudo
      <3> QED BY <3>1, <3>2
    <2> QED BY <1>10, <2>1 DEF CloseSudo, TypeOK
  <1>11. CASE CloseKey(s)
    <2>1. /\ \/ disturbed'[r] = disturbed[r] /\ (r \in authorized' <=> r \in authorized)
             \/ r \notin authorized' /\ (disturbed'[r] <=> (disturbed[r] \/ r \in authorized))
          /\ failed'[r] = failed[r]
      BY <1>11 DEF CloseKey, RemoveKeys, TypeOK
    <2> QED BY <1>11, <2>1 DEF CloseKey, Forget, TypeOK
  <1>12. CASE Crash(s)
    BY <1>12 DEF Crash, Forget, TypeOK
  <1> QED BY <1>1, <1>2, <1>3, <1>4, <1>5, <1>6, <1>7, <1>8, <1>9, <1>10, <1>11,
             <1>12 DEF Step

-----------------------------------------------------------------------------
(* What a step of a session does to itself.                                *)

LEMMA ConnectKeeps ==
    ASSUME TypeOK, NEW s \in Sessions, SessionInv(s),
           Connect(s) \/ CopyId(s) \/ StartSudo(s)
    PROVE  SessionInv(s)'
  <1> USE DEF SessionInv, Goto, server, local, ghosts, Closing
  <1>1. CASE Connect(s)
    <2>1. /\ pc[s] = "start" /\ pc'[s] \in {"copy_id", "sudo"}
          /\ key_dir'[s] <=> (key_dir[s] \/ pc'[s] = "copy_id")
          /\ pc'[s] = "copy_id" => keyfile[s] = "none"
          /\ UNCHANGED <<authorized, files, keyfile, login, public_key, askpass, sudo,
                         temp_files, ghosts>>
      BY <1>1 DEF Connect, TypeOK
    <2>2. KeyInv(s)'
      BY <2>1 DEF KeyInv, Whole
    <2>3. SudoInv(s)' /\ FilesInv(s)'
      BY <2>1 DEF SudoInv, FilesInv, Known, Stuck, Whole, MayLogin
    <2> QED BY <2>2, <2>3
  <1>2. CASE CopyId(s)
    <2>1. /\ pc[s] = "copy_id" /\ pc'[s] = "sudo"
          /\ UNCHANGED <<files, login, askpass, sudo, temp_files, disturbed, hasty>>
      BY <1>2 DEF CopyId, TypeOK
    <2>2. SudoInv(s)'
      BY <2>1 DEF SudoInv
    <2>3. \/ /\ s \in authorized' /\ public_key'[s] /\ keyfile'[s] = "session"
             /\ key_dir' = key_dir /\ failed' = failed
          \/ /\ ~key_dir'[s] /\ failed'[s] /\ authorized \subseteq authorized'
             /\ UNCHANGED <<public_key, keyfile>>
      BY <1>2 DEF CopyId, TypeOK
    <2>4. key_dir[s] /\ (public_key[s] => s \in authorized \/ disturbed[s])
      BY <2>1 DEF KeyInv
    <2>5. CASE public_key'[s] /\ s \in authorized' /\ keyfile'[s] = "session"
               /\ key_dir' = key_dir /\ failed' = failed
      <3>1. KeyInv(s)'
        BY <2>1, <2>4, <2>5 DEF KeyInv
      <3>2. FilesInv(s)'
        BY <2>1, <2>4, <2>5 DEF FilesInv, Known, Stuck, Whole, MayLogin
      <3> QED BY <2>2, <3>1, <3>2
    <2>6. CASE /\ ~key_dir'[s] /\ failed'[s] /\ authorized \subseteq authorized'
               /\ UNCHANGED <<public_key, keyfile>>
      <3>1. ~public_key[s]
        BY <1>2, <2>6 DEF CopyId, KeyInv
      <3> QED BY <2>1, <2>2, <2>6, <3>1 DEF KeyInv, FilesInv, Whole
    <2> QED BY <2>3, <2>5, <2>6
  <1>3. CASE StartSudo(s)
    <2>1. /\ pc[s] = "sudo" /\ pc'[s] \in {"put", "work"}
          /\ UNCHANGED <<authorized, files, keyfile, login, key_dir, public_key, askpass,
                         sudo, temp_files, ghosts>>
      BY <1>3 DEF StartSudo, TypeOK
    <2>2. KeyInv(s)'
      BY <2>1 DEF KeyInv, Whole
    <2>3. SudoInv(s)' /\ FilesInv(s)'
      BY <2>1 DEF SudoInv, FilesInv, Known, Stuck, Whole, MayLogin
    <2> QED BY <2>2, <2>3
  <1> QED BY <1>1, <1>2, <1>3

\* What an ssh command leaves of a file of its session.
LEMMA SshOwn ==
    ASSUME TypeOK, NEW s \in Sessions, NEW new, NEW ok \in BOOLEAN, Ssh(s, new, ok)
    PROVE  /\ \/ ok /\ MayLogin(s) /\ files' = new /\ failed' = failed
              \/ ~ok /\ ~MayLogin(s) /\ files' = files /\ failed' = failed
              \/ ~ok /\ failed'[s] /\ files' \in {files, new}
           /\ failed[s] => failed'[s]
  BY DEF Ssh, TypeOK

LEMMA NamesOwn ==
    ASSUME NEW s, NEW name
    PROVE  /\ \A other : <<s, other>> \in With(s, name) <=> (<<s, other>> \in files \/ other = name)
           /\ \A other : <<s, other>> \in Without(s, name) <=> (<<s, other>> \in files /\ other # name)
  BY DEF With, Without

LEMMA ScriptKeeps ==
    ASSUME TypeOK, NEW s \in Sessions, SessionInv(s),
           PutScript(s) \/ ExecScript(s) \/ RemoveScript(s)
    PROVE  SessionInv(s)'
  <1>1. /\ pc[s] \in {"put", "exec", "remove"} /\ pc'[s] \in {"exec", "remove", "work"}
        /\ UNCHANGED <<authorized, keyfile, login, key_dir, public_key, temp_files,
                       disturbed, hasty>>
        /\ MayLogin(s)' <=> MayLogin(s)
    BY DEF PutScript, ExecScript, RemoveScript, Goto, local, TypeOK, MayLogin
  <1>2. CASE PutScript(s)
    <2>1. PICK ok \in BOOLEAN : /\ Ssh(s, With(s, "script"), ok)
                               /\ pc' = [pc EXCEPT ![s] = IF ok THEN "exec" ELSE "remove"]
      BY <1>2 DEF PutScript, Goto
    <2>2. /\ \/ ok /\ MayLogin(s) /\ files' = With(s, "script") /\ failed' = failed
             \/ ~ok /\ ~MayLogin(s) /\ files' = files /\ failed' = failed
             \/ ~ok /\ failed'[s] /\ files' \in {files, With(s, "script")}
          /\ failed[s] => failed'[s]
      BY <2>1, SshOwn
    <2>3. UNCHANGED <<askpass, sudo>> /\ pc[s] = "put" /\ pc'[s] \in {"exec", "remove"}
      BY <1>2, <2>1 DEF PutScript, TypeOK
    <2>4. KeyInv(s)'
      BY <1>1, <2>2, <2>3 DEF SessionInv, KeyInv, Whole
    <2>5. SudoInv(s)'
      BY <2>2, <2>3, NamesOwn DEF SessionInv, SudoInv, Closing
    <2>6. FilesInv(s)'
      BY <1>1, <2>2, <2>3, NamesOwn DEF SessionInv, FilesInv, Known, Stuck, Whole
    <2> QED BY <2>4, <2>5, <2>6 DEF SessionInv
  <1>3. CASE ExecScript(s)
    <2>1. /\ pc[s] = "exec" /\ pc'[s] = "remove"
      BY <1>3 DEF ExecScript, Goto, TypeOK
    <2>2. \/ UNCHANGED <<files, askpass, sudo, failed>>
          \/ UNCHANGED <<files, askpass, sudo>> /\ failed'[s]
          \/ /\ askpass'[s] /\ sudo'[s] /\ MayLogin(s) /\ failed' = failed
             /\ files' = With(s, "askpass")
          \/ /\ ~askpass'[s] /\ ~sudo'[s] /\ ~MayLogin(s) /\ files' = files
             /\ failed' = failed
          \/ ~askpass'[s] /\ ~sudo'[s] /\ failed'[s]
      <3>1. CASE CommandScript(s)
        BY <3>1, SshOwn DEF CommandScript
      <3>2. CASE AskpassScript(s)
        <4>1. CASE UNCHANGED <<files, askpass, sudo, failed>>
          BY <4>1
        <4>2. CASE \E ok \in BOOLEAN :
                      /\ Ssh(s, With(s, "askpass"), ok)
                      /\ askpass' = [askpass EXCEPT ![s] = ok]
                      /\ sudo' = [sudo EXCEPT ![s] = ok]
          <5>1. PICK ok \in BOOLEAN : /\ Ssh(s, With(s, "askpass"), ok)
                                     /\ askpass' = [askpass EXCEPT ![s] = ok]
                                     /\ sudo' = [sudo EXCEPT ![s] = ok]
            BY <4>2
          <5>2. askpass'[s] = ok /\ sudo'[s] = ok
            BY <5>1 DEF TypeOK
          <5> QED BY <5>1, <5>2, SshOwn
        <4> QED BY <3>2, <4>1, <4>2 DEF AskpassScript
      <3> QED BY <1>3, <3>1, <3>2 DEF ExecScript
    <2>3. failed[s] => failed'[s]
      BY <1>3, SshOwn DEF ExecScript, AskpassScript, CommandScript
    <2>4. KeyInv(s)'
      BY <1>1, <2>1, <2>3 DEF SessionInv, KeyInv, Whole
    <2>5. SudoInv(s)'
      BY <2>1, <2>2, NamesOwn DEF SessionInv, SudoInv, Closing
    <2>6. FilesInv(s)'
      BY <1>1, <2>1, <2>2, <2>3, NamesOwn DEF SessionInv, FilesInv, Known, Stuck, Whole
    <2> QED BY <2>4, <2>5, <2>6 DEF SessionInv
  <1>4. CASE RemoveScript(s)
    <2>1. PICK ok \in BOOLEAN : Ssh(s, Without(s, "script"), ok)
      BY <1>4 DEF RemoveScript
    <2>2. /\ \/ ok /\ MayLogin(s) /\ files' = Without(s, "script") /\ failed' = failed
             \/ ~ok /\ ~MayLogin(s) /\ files' = files /\ failed' = failed
             \/ ~ok /\ failed'[s] /\ files' \in {files, Without(s, "script")}
          /\ failed[s] => failed'[s]
      BY <2>1, SshOwn
    <2>3. UNCHANGED <<askpass, sudo>> /\ pc[s] = "remove" /\ pc'[s] = "work"
      BY <1>4 DEF RemoveScript, Goto, TypeOK
    <2>4. KeyInv(s)'
      BY <1>1, <2>2, <2>3 DEF SessionInv, KeyInv, Whole
    <2>5. SudoInv(s)'
      BY <2>2, <2>3, NamesOwn DEF SessionInv, SudoInv, Closing
    <2>6. FilesInv(s)'
      BY <1>1, <2>2, <2>3, NamesOwn DEF SessionInv, FilesInv, Known, Stuck, Whole
    <2> QED BY <2>4, <2>5, <2>6 DEF SessionInv
  <1> QED BY <1>2, <1>3, <1>4

LEMMA RunKeeps ==
    ASSUME TypeOK, NEW s \in Sessions, SessionInv(s), NEW as_root \in BOOLEAN, Run(s, as_root)
    PROVE  SessionInv(s)'
  <1>1. /\ pc[s] = "work" /\ pc'[s] \in {"work", "leave", "put"}
        /\ UNCHANGED <<authorized, keyfile, login, key_dir, public_key, askpass, sudo,
                       temp_files, disturbed, hasty>>
        /\ MayLogin(s)' <=> MayLogin(s)
    BY DEF Run, Goto, local, TypeOK, MayLogin
  <1>2. files' = files /\ (failed[s] => failed'[s])
    BY SshOwn DEF Run
  <1>3. KeyInv(s)'
    BY <1>1, <1>2 DEF SessionInv, KeyInv, Whole
  <1>4. SudoInv(s)'
    BY <1>1, <1>2 DEF SessionInv, SudoInv, Closing
  <1>5. FilesInv(s)'
    BY <1>1, <1>2 DEF SessionInv, FilesInv, Known, Stuck, Whole
  <1> QED BY <1>3, <1>4, <1>5 DEF SessionInv

LEMMA TempKeeps ==
    ASSUME TypeOK, NEW s \in Sessions, SessionInv(s), NEW t \in Temps,
           CreateTemp(s, t) \/ CloseTemp(s, t) \/ DeleteTemp(s, t)
    PROVE  SessionInv(s)'
  <1>1. /\ pc[s] \in {"work", "leave", "delete"}
        /\ pc'[s] = pc[s] \/ (pc[s] = "work" /\ pc'[s] = "leave")
        /\ UNCHANGED <<authorized, keyfile, login, key_dir, public_key, askpass, sudo,
                       disturbed, hasty>>
        /\ MayLogin(s)' <=> MayLogin(s)
    BY DEF CreateTemp, CloseTemp, DeleteTemp, Goto, local, TypeOK, MayLogin
  <1>2. t \notin {"askpass", "script"}
    BY TempsAssumption
  <1>3. PICK ok \in BOOLEAN, new \in {With(s, t), Without(s, t)} :
            /\ Ssh(s, new, ok)
            /\ new = With(s, t) /\ ok => Become(s, t, "open")
            /\ new = With(s, t) => temp_files[s][t] = "none"
            /\ \E state \in {"open", "kept", "over"} : Become(s, t, state)
    <2>1. CASE CreateTemp(s, t)
      <3>1. temp_files[s][t] = "none"
        BY <2>1 DEF CreateTemp
      <3>2. PICK ok \in BOOLEAN :
                /\ Ssh(s, With(s, t), ok)
                /\ IF ok THEN Become(s, t, "open") ELSE Become(s, t, "over")
        BY <2>1 DEF CreateTemp
      <3>3. /\ ok => Become(s, t, "open")
            /\ \E state \in {"open", "kept", "over"} : Become(s, t, state)
        BY <3>2
      <3> QED BY <3>1, <3>2, <3>3
    <2>2. CASE CloseTemp(s, t) \/ DeleteTemp(s, t)
      <3>1. PICK ok \in BOOLEAN :
                /\ Ssh(s, Without(s, t), ok)
                /\ \E state \in {"open", "kept", "over"} : Become(s, t, state)
        <4>1. CASE CloseTemp(s, t)
          BY <4>1 DEF CloseTemp
        <4>2. CASE DeleteTemp(s, t)
          BY <4>2 DEF DeleteTemp
        <4> QED BY <2>2, <4>1, <4>2
      <3>2. With(s, t) # Without(s, t)
        BY DEF With, Without
      <3> QED BY <3>1, <3>2
    <2> QED BY <2>1, <2>2
  <1>4. /\ \/ ok /\ MayLogin(s) /\ files' = new /\ failed' = failed
           \/ ~ok /\ ~MayLogin(s) /\ files' = files /\ failed' = failed
           \/ ~ok /\ failed'[s] /\ files' \in {files, new}
        /\ failed[s] => failed'[s]
    BY <1>3, SshOwn
  <1>5. /\ \A u \in Temps : u # t => temp_files'[s][u] = temp_files[s][u]
        /\ new = With(s, t) /\ ok => temp_files'[s][t] = "open"
    BY <1>3 DEF Become, TypeOK
  <1>6. KeyInv(s)'
    BY <1>1, <1>4 DEF SessionInv, KeyInv, Whole
  <1>7. SudoInv(s)'
    BY <1>1, <1>2, <1>4, NamesOwn DEF SessionInv, SudoInv, Closing
  <1>8. \A name : <<s, name>> \in files' =>
            <<s, name>> \in files \/ (name = t /\ (failed'[s] \/ (ok /\ new = With(s, t))))
    BY <1>4, NamesOwn
  <1>9. ok /\ new # With(s, t) => <<s, t>> \notin files' \/ failed'[s]
    BY <1>4, NamesOwn
  <1>10. FilesInv(s)'
    <2>1. pc'[s] \notin {"close_sudo", "close_key", "ended"}
      BY <1>1
    <2>2. SUFFICES ASSUME Whole(s)', NEW name \in Temps \union {"script", "askpass"},
                          <<s, name>> \in files'
                   PROVE  Stuck(s, name)' \/ (MayLogin(s)' /\ Known(s, name)')
      BY <2>1 DEF FilesInv
    <2>3. Whole(s) /\ pc[s] # "dead" /\ ~failed'[s]
      BY <1>1, <1>4, <2>2 DEF Whole
    <2>4. CASE name # t
      <3>1. Stuck(s, name) \/ (MayLogin(s) /\ Known(s, name))
        BY <1>8, <2>2, <2>3, <2>4 DEF SessionInv, FilesInv
      <3> QED BY <1>1, <1>5, <2>4, <3>1 DEF Known, Stuck
    <2>5. CASE name = t
      <3>1. CASE ok
        <4>1. new = With(s, t) /\ temp_files'[s][t] = "open" /\ MayLogin(s)
          BY <1>4, <1>5, <1>9, <2>2, <2>3, <2>5, <3>1
        <4> QED BY <1>1, <2>5, <4>1 DEF Known, Stuck
      <3>2. CASE ~ok
        <4>1. ~MayLogin(s) /\ files' = files
          BY <1>4, <2>3, <3>2
        <4>2. Stuck(s, name)
          BY <2>2, <2>3, <4>1 DEF SessionInv, FilesInv
        <4> QED BY <1>1, <4>2 DEF Stuck
      <3> QED BY <3>1, <3>2
    <2> QED BY <2>4, <2>5
  <1> QED BY <1>6, <1>7, <1>10 DEF SessionInv

LEMMA LeaveKeeps ==
    ASSUME TypeOK, NEW s \in Sessions, SessionInv(s), EarlyInv(s), Leave(s) \/ Deleted(s)
    PROVE  SessionInv(s)'
  <1>1. /\ pc[s] \in {"work", "leave", "delete"}
        /\ pc'[s] \in {"close_sudo", "delete"}
        /\ UNCHANGED <<authorized, files, keyfile, login, key_dir, public_key, askpass,
                       sudo, temp_files, failed, disturbed>>
    BY DEF Leave, Deleted, Goto, server, local, ghosts, TypeOK
  <1>2. pc'[s] = "close_sudo" =>
            \A t \in Temps : temp_files[s][t] = "open" =>
                ~deleting'[s] /\ (keyfile[s] = "session" => hasty'[s])
    <2>1. CASE Leave(s)
      BY <2>1 DEF Leave, Goto, TypeOK, EarlyInv, Closing
    <2>2. CASE Deleted(s)
      BY <2>2 DEF Deleted
    <2> QED BY <2>1, <2>2
  <1>3. hasty[s] => hasty'[s]
    BY DEF Leave, Deleted, ghosts, TypeOK, EarlyInv, Closing
  <1>4. KeyInv(s)'
    BY <1>1 DEF SessionInv, KeyInv, Whole
  <1>5. SudoInv(s)'
    BY <1>1 DEF SessionInv, SudoInv, Closing
  <1>6. FilesInv(s)'
    BY <1>1, <1>2, <1>3 DEF SessionInv, FilesInv, Known, Stuck, Whole, MayLogin
  <1> QED BY <1>4, <1>5, <1>6 DEF SessionInv

LEMMA CloseSudoKeeps ==
    ASSUME TypeOK, NEW s \in Sessions, SessionInv(s), CloseSudo(s)
    PROVE  SessionInv(s)'
  <1>1. /\ pc[s] = "close_sudo" /\ pc'[s] = "close_key" /\ ~askpass'[s]
        /\ UNCHANGED <<authorized, keyfile, login, key_dir, public_key, temp_files,
                       deleting, disturbed, hasty>>
        /\ MayLogin(s)' <=> MayLogin(s)
    BY DEF CloseSudo, Goto, local, TypeOK, MayLogin
  <1>2. /\ failed[s] => failed'[s]
        /\ \A name : <<s, name>> \in files' => <<s, name>> \in files
        /\ \/ failed'[s]
           \/ ~askpass[s]
           \/ ~MayLogin(s)
           \/ <<s, "askpass">> \notin files'
    <2>1. CASE askpass[s]
      <3>1. PICK ok \in BOOLEAN : Ssh(s, Without(s, "askpass"), ok)
        BY <2>1 DEF CloseSudo
      <3>2. /\ \/ ok /\ MayLogin(s) /\ files' = Without(s, "askpass") /\ failed' = failed
               \/ ~ok /\ ~MayLogin(s) /\ files' = files /\ failed' = failed
               \/ ~ok /\ failed'[s] /\ files' \in {files, Without(s, "askpass")}
            /\ failed[s] => failed'[s]
        BY <3>1, SshOwn
      <3> QED BY <3>2, NamesOwn
    <2>2. CASE ~askpass[s]
      BY <2>2 DEF CloseSudo
    <2> QED BY <2>1, <2>2
  <1>3. KeyInv(s)'
    BY <1>1, <1>2 DEF SessionInv, KeyInv, Whole
  <1>4. SudoInv(s)'
    BY <1>1 DEF SudoInv, Closing
  <1>5. FilesInv(s)'
    BY <1>1, <1>2 DEF SessionInv, FilesInv, Known, Stuck, Whole
  <1> QED BY <1>3, <1>4, <1>5 DEF SessionInv

LEMMA CloseKeyKeeps ==
    ASSUME TypeOK, NEW s \in Sessions, SessionInv(s), CloseKey(s)
    PROVE  SessionInv(s)'
  <1>1. /\ pc[s] = "close_key" /\ pc'[s] \in {"ended", "delete"} /\ files' = files
        /\ key_dir'[s] <=> (key_dir[s] /\ keyfile[s] # "session")
        /\ login' = login
    <2>1. pc[s] = "close_key" /\ files' = files
      BY DEF CloseKey
    <2>2. key_dir'[s] <=> (key_dir[s] /\ keyfile[s] # "session")
      <3>1. key_dir' = [key_dir EXCEPT ![s] = @ /\ keyfile[s] # "session"]
        BY DEF CloseKey
      <3> QED BY <3>1 DEF TypeOK
    <2>3. pc'[s] \in {"ended", "delete"}
      <3>1. Goto(s, "ended") \/ Goto(s, "delete")
        BY DEF CloseKey
      <3> QED BY <3>1 DEF Goto, TypeOK
    <2>4. login' = login
      BY DEF CloseKey, Forget
    <2> QED BY <2>1, <2>2, <2>3, <2>4
  <1>2. /\ ~public_key'[s]
        /\ ~askpass'[s]
        /\ pc'[s] = "ended" => \A t \in Temps : temp_files'[s][t] # "open"
    <2>1. CASE deleting[s]
      BY <2>1 DEF CloseKey, Forget, TypeOK
    <2>2. CASE ~deleting[s]
      <3>1. pc'[s] = "delete"
        BY <2>2 DEF CloseKey, Goto, TypeOK
      <3> QED BY <1>1, <2>2, <3>1 DEF CloseKey, SessionInv, KeyInv, FilesInv, TypeOK
    <2> QED BY <2>1, <2>2
  <1>3. ~key_dir'[s]
    BY <1>1 DEF SessionInv, KeyInv
  <1>4. (failed[s] => failed'[s]) /\ disturbed'[s] = disturbed[s]
    BY DEF CloseKey, RemoveKeys, TypeOK
  <1>5. Whole(s)' => Whole(s)
    BY <1>1, <1>4 DEF Whole
  <1>6. Whole(s)' => s \notin authorized'
    <2> SUFFICES ASSUME Whole(s)' PROVE s \notin authorized'
      OBVIOUS
    <2>1. CASE public_key[s]
      <3>1. MayLogin(s)
        BY <1>5, <2>1 DEF SessionInv, KeyInv, MayLogin, Whole
      <3>2. ~failed'[s]
        BY DEF Whole
      <3> QED BY <2>1, <3>1, <3>2 DEF CloseKey, RemoveKeys, SessionInv, KeyInv, TypeOK
    <2>2. CASE ~public_key[s]
      BY <1>1, <1>5, <2>2 DEF CloseKey, SessionInv, KeyInv
    <2> QED BY <2>1, <2>2
  <1>7. KeyInv(s)'
    BY <1>1, <1>2, <1>3, <1>6 DEF KeyInv
  <1>8. SudoInv(s)'
    BY <1>1 DEF SudoInv, Closing
  <1>9. ASSUME Whole(s)', NEW name \in Temps \union {"script", "askpass"},
               <<s, name>> \in files'
        PROVE  Stuck(s, name)' \/ (MayLogin(s)' /\ Known(s, name)')
    <2>1. hasty' = hasty /\ (Stuck(s, name) => Stuck(s, name)')
      BY <1>1 DEF CloseKey, Stuck
    <2>2. Stuck(s, name) \/ (MayLogin(s) /\ Known(s, name))
      BY <1>1, <1>5, <1>9 DEF SessionInv, FilesInv
    <2>3. CASE ~Stuck(s, name)
      <3>1. name \in Temps /\ temp_files[s][name] = "open"
        BY <1>1, <2>2, <2>3 DEF SessionInv, FilesInv, Known
      <3>2. ~deleting[s] /\ (keyfile[s] = "session" => hasty[s])
        BY <1>1, <3>1 DEF SessionInv, FilesInv
      <3>3. keyfile' = keyfile /\ temp_files' = temp_files
        BY <3>2 DEF CloseKey
      <3>4. Known(s, name)'
        BY <3>1, <3>3 DEF Known
      <3>5. login[s] \/ keyfile[s] = "given"
        BY <2>2, <2>3, <3>1, <3>2 DEF MayLogin, Stuck
      <3> QED BY <1>1, <3>3, <3>4, <3>5 DEF MayLogin
    <2> QED BY <2>1, <2>3
  <1>10. FilesInv(s)'
    BY <1>1, <1>2, <1>9 DEF FilesInv
  <1> QED BY <1>7, <1>8, <1>10 DEF SessionInv

LEMMA CrashKeeps ==
    ASSUME TypeOK, NEW s \in Sessions, Crash(s)
    PROVE  SessionInv(s)'
  <1>1. pc'[s] = "dead" /\ ~public_key'[s]
    BY DEF Crash, Forget, Goto, TypeOK
  <1> QED BY <1>1 DEF SessionInv, KeyInv, SudoInv, FilesInv, Closing

-----------------------------------------------------------------------------
(* All steps and all sessions.                                             *)

LEMMA EarlyKeeps ==
    ASSUME TypeOK, NEW s \in Sessions, EarlyInv(s), Step(s)
    PROVE  EarlyInv(s)'
  <1>1. CASE pc[s] \in Closing
    <2>1. pc'[s] \in Closing
      BY <1>1 DEF Step, Connect, CopyId, StartSudo, PutScript, ExecScript, RemoveScript,
                  Run, CreateTemp, CloseTemp, DeleteTemp, Leave, Deleted, CloseSudo,
                  CloseKey, Crash, Goto, TypeOK, Closing
    <2> QED BY <2>1 DEF EarlyInv
  <1>2. CASE Leave(s) \/ Crash(s)
    <2>1. pc'[s] \in Closing
      BY <1>2 DEF Leave, Crash, Goto, TypeOK, Closing
    <2> QED BY <2>1 DEF EarlyInv
  <1>3. CASE pc[s] \notin Closing /\ ~(Leave(s) \/ Crash(s))
    <2>1. deleting' = deleting /\ hasty' = hasty
      BY <1>3 DEF Step, Connect, CopyId, StartSudo, PutScript, ExecScript, RemoveScript,
                  Run, CreateTemp, CloseTemp, DeleteTemp, Deleted, CloseSudo, CloseKey,
                  Closing, ghosts
    <2> QED BY <1>3, <2>1 DEF EarlyInv
  <1> QED BY <1>1, <1>2, <1>3

LEMMA OwnKeeps ==
    ASSUME TypeOK, NEW s \in Sessions, SessionInv(s), EarlyInv(s), Step(s)
    PROVE  SessionInv(s)'
  BY ConnectKeeps, ScriptKeeps, RunKeeps, TempKeeps, LeaveKeeps, CloseSudoKeeps,
     CloseKeyKeeps, CrashKeeps DEF Step

SessionsInv == TypeOK /\ \A s \in Sessions : SessionInv(s) /\ EarlyInv(s)

LEMMA SessionsInit == Init => SessionsInv
  <1> SUFFICES ASSUME Init, NEW s \in Sessions PROVE SessionInv(s) /\ EarlyInv(s)
    BY TypeInit DEF SessionsInv
  <1>1. /\ authorized = {} /\ files = {} /\ pc[s] = "start" /\ ~key_dir[s]
        /\ ~public_key[s] /\ ~askpass[s] /\ ~sudo[s] /\ ~deleting[s] /\ ~hasty[s]
    BY DEF Init
  <1> QED BY <1>1 DEF SessionInv, KeyInv, SudoInv, FilesInv, EarlyInv

LEMMA SessionsNext == SessionsInv /\ [Next]_vars => SessionsInv'
  <1> SUFFICES ASSUME SessionsInv, [Next]_vars, NEW r \in Sessions
               PROVE  SessionInv(r)' /\ EarlyInv(r)'
    BY TypeNext DEF SessionsInv
  <1>1. CASE UNCHANGED vars
    BY <1>1 DEF vars, SessionsInv, SessionInv, KeyInv, SudoInv, FilesInv, EarlyInv,
                Known, Stuck, Whole, MayLogin
  <1>2. ASSUME NEW s \in Sessions, Step(s) PROVE SessionInv(r)' /\ EarlyInv(r)'
    <2>1. CASE r = s
      BY <1>2, <2>1, OwnKeeps, EarlyKeeps DEF SessionsInv
    <2>2. CASE r # s
      <3>1. Apart(s, r)
        BY <1>2, <2>2, StepApart DEF SessionsInv
      <3>2. SessionInv(r)'
        BY <3>1, ApartKeeps DEF SessionsInv
      <3> QED BY <3>1, <3>2 DEF Apart, SessionsInv, EarlyInv
    <2> QED BY <2>1, <2>2
  <1> QED BY <1>1, <1>2 DEF Next

\* The inductive invariant of the sessions.
THEOREM SessionsHold == Spec => []SessionsInv
  <1> QED BY SessionsInit, SessionsNext, PTL DEF Spec

\* As long as a connection is not closed, the password of its sudo session is on
\* the server and will be removed, for every number of sessions and every fault.
THEOREM SudoKeepsPassword == Spec => []SudoHasPassword
  <1>1. SessionsInv => SudoHasPassword
    BY DEF SessionsInv, SessionInv, SudoInv, SudoHasPassword, Working, Closing
  <1> QED BY <1>1, SessionsHold, PTL

\* A key that nobody else removes lets its session in until that removes it.
THEOREM KeyIsGood == Spec => []KeyLetsIn
  <1>1. SessionsInv => KeyLetsIn
    BY DEF SessionsInv, SessionInv, KeyInv, KeyLetsIn, MayLogin
  <1> QED BY <1>1, SessionsHold, PTL

\* A session whose commands came through and that could log in to the end leaves
\* nothing behind, whatever happens to all the others, but for temporary files
\* that were open when an exception made it close its connection, and that it
\* could not remove without its key.
THEOREM SessionEndsClean == Spec => []EndsClean
  <1>1. SessionsInv => EndsClean
    <2> SUFFICES ASSUME SessionsInv, NEW s \in Sessions, pc[s] = "ended", Whole(s)
                 PROVE  /\ s \notin authorized /\ ~key_dir[s]
                        /\ \A name \in {"script", "askpass"} : <<s, name>> \notin files
                        /\ \A t \in Temps : <<s, t>> \in files => hasty[s] /\ ~login[s]
      BY DEF EndsClean, Whole
    <2>1. SessionInv(s)
      BY DEF SessionsInv
    <2>2. s \notin authorized /\ ~key_dir[s]
      BY <2>1 DEF SessionInv, KeyInv
    <2>3. \A name \in Temps \union {"script", "askpass"} :
              <<s, name>> \in files => Stuck(s, name)
      BY <2>1 DEF SessionInv, FilesInv, Known
    <2>4. \A name \in {"script", "askpass"} : ~Stuck(s, name)
      BY TempsAssumption DEF Stuck
    <2> QED BY <2>2, <2>3, <2>4 DEF Stuck
  <1> QED BY <1>1, SessionsHold, PTL
=============================================================================
