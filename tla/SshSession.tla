----------------------------- MODULE SshSession -----------------------------
(***************************************************************************)
(* The ssh connections of arsoft.sshutils to one account of one server,    *)
(* all from the same host, as puppet-setup and the backup use them.  Every *)
(* command is an ssh process of its own and logs in anew.                  *)
(*                                                                         *)
(* A connection without a key file makes a key for the session, copies it  *)
(* to the server and removes it at the end.  For sudo a script that prints *)
(* the password is left on the server until the end.  Scripts to be run    *)
(* and other temporary files are copied there and removed again.           *)
(***************************************************************************)
EXTENDS Naturals, FiniteSets

CONSTANTS
    Sessions,   \* the connections; each stands for its key as well
    Setups,     \* how a session may be set up: its key file, whether the user's
                \* own keys let one in without it, and whether a sudo password is given
    Temps,      \* names of temporary files
    Faults,     \* what may go wrong, see Fault
    MaxCommands \* bound of the commands and temporary files of all sessions

Fault == {"refused",  \* ssh fails before the command has run
          "lost",     \* ssh fails after it
          "crash",    \* the program dies
          "password", \* the sudo password is wrong
          "keygen"}   \* ssh-keygen fails

Setup == [keyfile : {"none", "given"}, login : BOOLEAN, sudo : BOOLEAN]

ASSUME SetupsAssumption == Setups \subseteq Setup
ASSUME FaultsAssumption == Faults \subseteq Fault
ASSUME CommandsAssumption == MaxCommands \in Nat
ASSUME TempsAssumption == Temps \cap {"script", "askpass"} = {}

VARIABLES
    \* the server
    authorized,  \* the session keys in authorized_keys
    files,       \* the files left in /tmp, with the session they come from
    \* each connection
    pc,
    keyfile,     \* cxn.keyfile: none, given by the user or that of the session
    login,       \* see Setups
    wants_sudo,  \* see Setups
    key_dir,     \* SSHSessionKey._temp_directory, with the private key in it
    public_key,  \* SSHSessionKey._public_keyfile
    askpass,     \* SSHSudoSession.sudo_askpass_script
    sudo,        \* cxn.sudo_session is set, with its sudo_command
    script,      \* what the script in progress is for
    temp_files,  \* cxn._temp_files, by what has become of them
    deleting,    \* __del__ of the connection is running
    commands,    \* the number of commands run and temporary files made, by all
    \* not in the code
    failed,      \* ssh has failed for another reason than the login
    disturbed,   \* another session has removed the key
    hasty        \* the key was removed before all temporary files were

server == <<authorized, files>>
local == <<keyfile, login, wants_sudo, key_dir, public_key>>
ghosts == <<failed, disturbed, hasty>>
vars == <<authorized, files, pc, keyfile, login, wants_sudo, key_dir, public_key,
          askpass, sudo, script, temp_files, deleting, commands, failed, disturbed,
          hasty>>

Init ==
    /\ authorized = {} /\ files = {}
    /\ pc = [s \in Sessions |-> "start"]
    /\ \E setup \in [Sessions -> Setups] :
          /\ keyfile = [s \in Sessions |-> setup[s].keyfile]
          /\ login = [s \in Sessions |-> setup[s].login]
          /\ wants_sudo = [s \in Sessions |-> setup[s].sudo]
    /\ key_dir = [s \in Sessions |-> FALSE]
    /\ public_key = [s \in Sessions |-> FALSE]
    /\ askpass = [s \in Sessions |-> FALSE]
    /\ sudo = [s \in Sessions |-> FALSE]
    /\ script = [s \in Sessions |-> "none"]
    /\ temp_files = [s \in Sessions |-> [t \in Temps |-> "none"]]
    /\ deleting = [s \in Sessions |-> FALSE]
    /\ commands = 0
    /\ failed = [s \in Sessions |-> FALSE]
    /\ disturbed = [s \in Sessions |-> FALSE]
    /\ hasty = [s \in Sessions |-> FALSE]

-----------------------------------------------------------------------------
Goto(s, label) == pc' = [pc EXCEPT ![s] = label]

\* A given key lets one in; that of the session as long as both halves exist.
MayLogin(s) ==
    \/ login[s] \/ keyfile[s] = "given"
    \/ keyfile[s] = "session" /\ key_dir[s] /\ s \in authorized

\* An ssh command that leaves the files new on the server, and whether ssh
\* returns 0.
Ssh(s, new, ok) ==
    \/ MayLogin(s) /\ ok /\ files' = new /\ UNCHANGED failed
    \/ ~MayLogin(s) /\ ~ok /\ UNCHANGED <<files, failed>>
    \/ /\ MayLogin(s) /\ ~ok
       /\ failed' = [failed EXCEPT ![s] = TRUE]
       /\ \/ "refused" \in Faults /\ UNCHANGED files
          \/ "lost" \in Faults /\ files' = new

\* The program, or all that refers to the connection, is gone.
Forget(s) ==
    /\ keyfile' = [keyfile EXCEPT ![s] = "none"]
    /\ public_key' = [public_key EXCEPT ![s] = FALSE]
    /\ askpass' = [askpass EXCEPT ![s] = FALSE]
    /\ sudo' = [sudo EXCEPT ![s] = FALSE]
    /\ script' = [script EXCEPT ![s] = "none"]
    /\ temp_files' = [temp_files EXCEPT ![s] = [t \in Temps |-> "none"]]
    /\ deleting' = [deleting EXCEPT ![s] = FALSE]
    /\ UNCHANGED <<login, wants_sudo, commands>>

With(s, name) == files \union {<<s, name>>}
Without(s, name) == files \ {<<s, name>>}

-----------------------------------------------------------------------------
(* Connecting.                                                             *)

\* SSHSessionKey.start, up to the key; not with a given key.
Connect(s) ==
    /\ pc[s] = "start"
    /\ IF keyfile[s] = "none"
       THEN \/ Goto(s, "copy_id") /\ key_dir' = [key_dir EXCEPT ![s] = TRUE]
            \/ "keygen" \in Faults /\ Goto(s, "sudo") /\ UNCHANGED key_dir
       ELSE Goto(s, "sudo") /\ UNCHANGED key_dir
    /\ UNCHANGED <<server, keyfile, login, wants_sudo, public_key, askpass, sudo,
                   script, temp_files, deleting, commands, ghosts>>

\* ssh-copy-id asks for the password of the account.
\* Wrong: the key is removed again although it could be copied.
CopyIdAndForget(s) ==
    /\ pc[s] = "copy_id"
    /\ authorized' = authorized \union {s}
    /\ public_key' = [public_key EXCEPT ![s] = TRUE]
    /\ keyfile' = [keyfile EXCEPT ![s] = "session"]
    /\ key_dir' = [key_dir EXCEPT ![s] = FALSE]
    /\ Goto(s, "sudo")
    /\ UNCHANGED <<files, login, wants_sudo, askpass, sudo, script, temp_files,
                   deleting, commands, ghosts>>
CopyId(s) ==
    /\ pc[s] = "copy_id"
    /\ \/ /\ authorized' = authorized \union {s}
          /\ public_key' = [public_key EXCEPT ![s] = TRUE]
          /\ keyfile' = [keyfile EXCEPT ![s] = "session"]
          /\ UNCHANGED <<key_dir, failed>>
       \/ /\ \/ "refused" \in Faults /\ UNCHANGED authorized
             \/ "lost" \in Faults /\ authorized' = authorized \union {s}
          /\ key_dir' = [key_dir EXCEPT ![s] = FALSE]
          /\ failed' = [failed EXCEPT ![s] = TRUE]
          /\ UNCHANGED <<public_key, keyfile>>
    /\ Goto(s, "sudo")
    /\ UNCHANGED <<files, login, wants_sudo, askpass, sudo, script, temp_files,
                   deleting, commands, disturbed, hasty>>

\* SSHSudoSession.start runs a script.
StartSudo(s) ==
    /\ pc[s] = "sudo"
    /\ IF wants_sudo[s]
       THEN /\ Goto(s, "put")
            /\ script' = [script EXCEPT ![s] = "askpass"]
       ELSE Goto(s, "work") /\ UNCHANGED script
    /\ UNCHANGED <<server, local, askpass, sudo, temp_files, deleting, commands,
                   ghosts>>

-----------------------------------------------------------------------------
(* A script is copied, run and removed, by three ssh commands.             *)

PutScript(s) ==
    /\ pc[s] = "put"
    /\ \E ok \in BOOLEAN :
          /\ Ssh(s, With(s, "script"), ok)
          /\ Goto(s, IF ok THEN "exec" ELSE "remove")
    /\ UNCHANGED <<authorized, local, askpass, sudo, script, temp_files, deleting,
                   commands, disturbed, hasty>>

\* The script that asks sudo whether the password is right, and then leaves it
\* on the server in a file whose name it prints.
\* Wrong: whether it has worked is not looked at.
AskpassScriptUnchecked(s) ==
    /\ script[s] = "askpass"
    /\ \E ok \in BOOLEAN : Ssh(s, With(s, "askpass"), ok)
    /\ askpass' = [askpass EXCEPT ![s] = TRUE]
    /\ sudo' = [sudo EXCEPT ![s] = TRUE]
AskpassScript(s) ==
    /\ script[s] = "askpass"
    /\ \/ /\ "password" \in Faults /\ MayLogin(s)
          /\ UNCHANGED <<files, askpass, sudo, failed>>
       \/ \E ok \in BOOLEAN :
             /\ Ssh(s, With(s, "askpass"), ok)
             /\ askpass' = [askpass EXCEPT ![s] = ok]
             /\ sudo' = [sudo EXCEPT ![s] = ok]

CommandScript(s) ==
    /\ script[s] = "command"
    /\ \E ok \in BOOLEAN : Ssh(s, files, ok)
    /\ UNCHANGED <<askpass, sudo>>

ExecScript(s) ==
    /\ pc[s] = "exec"
    /\ AskpassScript(s) \/ CommandScript(s)
    /\ Goto(s, "remove")
    /\ UNCHANGED <<authorized, local, script, temp_files, deleting, commands,
                   disturbed, hasty>>

\* Whatever the others have returned.
\* Wrong: not after a failed attempt to use sudo.
RemoveScriptThatWorked(s) ==
    /\ pc[s] = "remove"
    /\ IF script[s] = "askpass" /\ ~sudo[s] THEN UNCHANGED <<files, failed>>
       ELSE \E ok \in BOOLEAN : Ssh(s, Without(s, "script"), ok)
    /\ script' = [script EXCEPT ![s] = "none"]
    /\ Goto(s, "work")
    /\ UNCHANGED <<authorized, local, askpass, sudo, temp_files, deleting,
                   commands, disturbed, hasty>>
RemoveScript(s) ==
    /\ pc[s] = "remove"
    /\ \E ok \in BOOLEAN : Ssh(s, Without(s, "script"), ok)
    /\ script' = [script EXCEPT ![s] = "none"]
    /\ Goto(s, "work")
    /\ UNCHANGED <<authorized, local, askpass, sudo, temp_files, deleting,
                   commands, disturbed, hasty>>

-----------------------------------------------------------------------------
(* Work.                                                                   *)

\* runcmdAndGetData: an exception, which not every program catches, if sudo is
\* asked for and there is no sudo session; else a script or one command.
Run(s, as_root) ==
    /\ pc[s] = "work"
    /\ commands < MaxCommands
    /\ commands' = commands + 1
    /\ \/ /\ as_root /\ ~sudo[s]
          /\ Goto(s, "work") \/ Goto(s, "leave")
          /\ UNCHANGED <<files, script, failed>>
       \/ /\ as_root => sudo[s]
          /\ Goto(s, "put")
          /\ script' = [script EXCEPT ![s] = "command"]
          /\ UNCHANGED <<files, failed>>
       \/ /\ as_root => sudo[s]
          /\ \E ok \in BOOLEAN : Ssh(s, files, ok)
          /\ UNCHANGED <<pc, script>>
    /\ UNCHANGED <<authorized, local, askpass, sudo, temp_files, deleting,
                   disturbed, hasty>>

\* Wrong: the name is kept whatever has become of the file.
BecomeNamed(s, t, state) == temp_files' = [temp_files EXCEPT ![s][t] = "named"]
Become(s, t, state) == temp_files' = [temp_files EXCEPT ![s][t] = state]

\* ScreenSession copies its configuration and its scripts; it does not expect
\* that to fail for a script.
CreateTemp(s, t) ==
    /\ pc[s] = "work"
    /\ temp_files[s][t] = "none"
    /\ commands < MaxCommands
    /\ commands' = commands + 1
    /\ \E ok \in BOOLEAN :
          /\ Ssh(s, With(s, t), ok)
          /\ IF ok THEN Become(s, t, "open") /\ UNCHANGED pc
             ELSE Become(s, t, "over") /\ (UNCHANGED pc \/ Goto(s, "leave"))
    /\ UNCHANGED <<authorized, local, askpass, sudo, script, deleting,
                   disturbed, hasty>>

\* It closes each when it is done with it, at the latest when it is deleted; the
\* name of a file that could not be removed is kept.
CloseTemp(s, t) ==
    /\ pc[s] \in {"work", "leave"}
    /\ temp_files[s][t] = "open"
    /\ \E ok \in BOOLEAN :
          /\ Ssh(s, Without(s, t), ok)
          /\ Become(s, t, IF ok THEN "over" ELSE "kept")
    /\ UNCHANGED <<authorized, pc, local, askpass, sudo, script, deleting, commands,
                   disturbed, hasty>>

-----------------------------------------------------------------------------
(* The end.                                                                *)

\* The programs close the connection when the screen is gone, or leave it to
\* __del__.  After an exception nobody has closed the files of the screen, and
\* close does not ask for them: it goes on to remove the key.
Leave(s) ==
    /\ pc[s] \in {"work", "leave"}
    /\ \/ /\ pc[s] = "work" => \A t \in Temps : temp_files[s][t] # "open"
          /\ Goto(s, "close_sudo")
          /\ hasty' = [hasty EXCEPT ![s] = /\ keyfile[s] = "session"
                                          /\ \E t \in Temps : temp_files[s][t] = "open"]
          /\ UNCHANGED deleting
       \/ /\ Goto(s, "delete")
          /\ deleting' = [deleting EXCEPT ![s] = TRUE]
          /\ UNCHANGED hasty
    /\ UNCHANGED <<server, local, askpass, sudo, script, temp_files, commands,
                   failed, disturbed>>

\* __del__ closes the temporary files first, ...  What cannot be removed now is
\* tried again when its object is deleted.
DeleteTemp(s, t) ==
    /\ pc[s] = "delete"
    /\ temp_files[s][t] \in {"open", "kept"}
    /\ \E ok \in BOOLEAN :
          /\ Ssh(s, Without(s, t), ok)
          /\ Become(s, t, "over") \/ (~ok /\ Become(s, t, "kept"))
    /\ UNCHANGED <<authorized, pc, local, askpass, sudo, script, deleting, commands,
                   disturbed, hasty>>

\* ... then the rest.
Deleted(s) ==
    /\ pc[s] = "delete"
    /\ \A t \in Temps : temp_files[s][t] \notin {"open", "kept"}
    /\ Goto(s, "close_sudo")
    /\ UNCHANGED <<server, local, askpass, sudo, script, temp_files, deleting,
                   commands, ghosts>>

\* close: the sudo session first.  A key file that was given is a text, which
\* has no close and makes it raise: the rest is left to __del__.
CloseSudo(s) ==
    /\ pc[s] = "close_sudo"
    /\ IF askpass[s] THEN \E ok \in BOOLEAN : Ssh(s, Without(s, "askpass"), ok)
                     ELSE UNCHANGED <<files, failed>>
    /\ askpass' = [askpass EXCEPT ![s] = FALSE]
    /\ Goto(s, "close_key")
    /\ UNCHANGED <<authorized, local, sudo, script, temp_files, deleting, commands,
                   disturbed, hasty>>

\* sed removes the keys by their comment, which is the same for all sessions of
\* a host.
RemoveKeys(s) ==
    \/ /\ MayLogin(s)
       /\ authorized' = {}
       /\ disturbed' = [r \in Sessions |-> disturbed[r] \/ (r # s /\ r \in authorized)]
       /\ UNCHANGED failed \/ ("lost" \in Faults /\ failed' = [failed EXCEPT ![s] = TRUE])
    \/ /\ \/ ~MayLogin(s) /\ UNCHANGED failed
          \/ "refused" \in Faults /\ failed' = [failed EXCEPT ![s] = TRUE]
       /\ UNCHANGED <<authorized, disturbed>>

CloseKey(s) ==
    /\ pc[s] = "close_key"
    /\ IF keyfile[s] = "session" /\ public_key[s] THEN RemoveKeys(s)
       ELSE UNCHANGED <<authorized, disturbed, failed>>
    /\ key_dir' = [key_dir EXCEPT ![s] = @ /\ keyfile[s] # "session"]
    /\ IF deleting[s] THEN Goto(s, "ended") /\ Forget(s)
       ELSE /\ Goto(s, "delete")
            /\ deleting' = [deleting EXCEPT ![s] = TRUE]
            /\ public_key' = [public_key EXCEPT ![s] = @ /\ keyfile[s] # "session"]
            /\ UNCHANGED <<keyfile, login, wants_sudo, askpass, sudo, script,
                           temp_files, commands>>
    /\ UNCHANGED <<files, hasty>>

\* What is on the server stays there, and the key on the disk.
Crash(s) ==
    /\ "crash" \in Faults
    /\ pc[s] \notin {"start", "ended", "dead"}
    /\ Goto(s, "dead")
    /\ Forget(s)
    /\ failed' = [failed EXCEPT ![s] = FALSE]
    /\ disturbed' = [disturbed EXCEPT ![s] = FALSE]
    /\ hasty' = [hasty EXCEPT ![s] = FALSE]
    /\ UNCHANGED <<server, key_dir>>

-----------------------------------------------------------------------------
Step(s) ==
    \/ Connect(s) \/ CopyId(s) \/ StartSudo(s)
    \/ PutScript(s) \/ ExecScript(s) \/ RemoveScript(s)
    \/ \E as_root \in BOOLEAN : Run(s, as_root)
    \/ \E t \in Temps : CreateTemp(s, t) \/ CloseTemp(s, t) \/ DeleteTemp(s, t)
    \/ Leave(s) \/ Deleted(s) \/ CloseSudo(s) \/ CloseKey(s) \/ Crash(s)

Next == \E s \in Sessions : Step(s)
Spec == Init /\ [][Next]_vars

-----------------------------------------------------------------------------
Phase == {"start", "copy_id", "sudo", "put", "exec", "remove", "work", "leave",
          "close_sudo", "close_key", "delete", "ended", "dead"}

TypeOK ==
    /\ authorized \subseteq Sessions
    /\ files \subseteq Sessions \X (Temps \union {"script", "askpass"})
    /\ pc \in [Sessions -> Phase]
    /\ keyfile \in [Sessions -> {"none", "given", "session"}]
    /\ login \in [Sessions -> BOOLEAN]
    /\ wants_sudo \in [Sessions -> BOOLEAN]
    /\ key_dir \in [Sessions -> BOOLEAN]
    /\ public_key \in [Sessions -> BOOLEAN]
    /\ askpass \in [Sessions -> BOOLEAN]
    /\ sudo \in [Sessions -> BOOLEAN]
    /\ script \in [Sessions -> {"none", "askpass", "command"}]
    /\ temp_files \in [Sessions -> [Temps -> {"none", "open", "kept", "over"}]]
    /\ deleting \in [Sessions -> BOOLEAN]
    /\ commands \in 0 .. MaxCommands
    /\ failed \in [Sessions -> BOOLEAN]
    /\ disturbed \in [Sessions -> BOOLEAN]
    /\ hasty \in [Sessions -> BOOLEAN]

Working(s) == pc[s] \in {"put", "exec", "remove", "work", "leave"}

\* As long as a connection is not closed, the script with the password of its
\* sudo session is on the server and will be removed (sshutils.py lines 537-569),
\* whatever other sessions of the host do, fail and leave behind.
SudoHasPassword ==
    \A s \in Sessions :
        Working(s) /\ sudo[s] => askpass[s] /\ <<s, "askpass">> \in files

\* The key of a session that nobody else has removed lets it in until the session
\* removes it (sshutils.py lines 595-640).
KeyLetsIn ==
    \A s \in Sessions : public_key[s] /\ ~disturbed[s] => MayLogin(s)

\* A session that has ended, all of whose commands came through and whose key
\* was not taken from it, or was not needed, has left nothing on the server nor
\* on the own disk: no key, no password, no script and no temporary file
\* (sshutils.py lines 104-139, 399-432, 561-569 and 595-611).  Other sessions
\* may have died, failed or removed each other's keys before.  A temporary file
\* is left only by a session that an exception has made close its connection with
\* the file open, and that could not log in again without its key.
EndsClean ==
    \A s \in Sessions :
        (pc[s] = "ended" /\ ~failed[s] /\ (disturbed[s] => login[s])) =>
            /\ s \notin authorized /\ ~key_dir[s]
            /\ \A name \in {"script", "askpass"} : <<s, name>> \notin files
            /\ \A t \in Temps : <<s, t>> \in files => hasty[s] /\ ~login[s]
=============================================================================
