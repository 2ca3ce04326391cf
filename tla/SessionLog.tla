----------------------------- MODULE SessionLog -----------------------------
(***************************************************************************)
(* What the records of the backup sessions promise, whoever writes them:   *)
(* each session is begun once, later than all before it, and its outcome   *)
(* is recorded at most once.  What is over is never written again.  A      *)
(* record may be removed, that of a session which still runs as well, but  *)
(* only the end of that session brings it back.  A success is claimed when *)
(* it is recorded, or never.                                               *)
(***************************************************************************)
EXTENDS Naturals

CONSTANTS
    Directories,    \* what a record may name as its backup
    None            \* a record that names none

VARIABLES
    latest,     \* the date of the last session that was begun
    open,       \* the dates of the sessions that run
    log,        \* the records: date -> outcome
    claimed     \* the dates of which somebody says that they were a success

Outcome == [success : BOOLEAN, dir : Directories \union {None}]
Unknown == [success |-> FALSE, dir |-> None]

\* A session names a directory that was made after it had begun.
OutcomeOf(d) == {r \in Outcome : r.dir # None => r.dir >= d}

Recorded(d, outcome) ==
    log' = [e \in DOMAIN log \union {d} |-> IF e = d THEN outcome ELSE log[e]]

Init ==
    /\ latest = 0
    /\ open = {}
    /\ DOMAIN log = {}
    /\ claimed = {}

Begin ==
    /\ latest' \in Nat /\ latest' > latest
    /\ open' = open \union {latest'}
    /\ Recorded(latest', Unknown) \/ UNCHANGED log
    /\ claimed' \subseteq claimed

End(d) ==
    /\ open' = open \ {d}
    /\ \E outcome \in OutcomeOf(d) :
          /\ Recorded(d, outcome)
          /\ claimed' \subseteq claimed \union (IF outcome.success THEN {d} ELSE {})
    /\ UNCHANGED latest

\* The session is given up, perhaps while its outcome is being written.
Abandon(d) ==
    /\ open' = open \ {d}
    /\ Recorded(d, Unknown) \/ UNCHANGED log
    /\ claimed' \subseteq claimed
    /\ UNCHANGED latest

Remove(d) ==
    /\ log' = [e \in DOMAIN log \ {d} |-> log[e]]
    /\ UNCHANGED <<latest, open, claimed>>

\* What was claimed may be forgotten.
Disclaim ==
    /\ claimed' \subseteq claimed
    /\ UNCHANGED <<latest, open, log>>

Next ==
    \/ Begin
    \/ \E d \in open : End(d) \/ Abandon(d)
    \/ \E d \in DOMAIN log : Remove(d)
    \/ Disclaim

Spec == Init /\ [][Next]_<<latest, open, log, claimed>>

-----------------------------------------------------------------------------
TypeOK ==
    /\ latest \in Nat
    /\ open \subseteq 1 .. latest
    /\ claimed \subseteq 1 .. latest
    /\ DOMAIN log \subseteq 1 .. latest
    /\ \A d \in DOMAIN log : log[d] \in OutcomeOf(d)

\* What is claimed was recorded, if there still is a record, and is over.
Honest ==
    \A d \in claimed : d \notin open /\ (d \in DOMAIN log => log[d].success)

\* The record of a session that is over is removed or stays as it is: it never
\* changes, and once it was removed it does not come back.
OverIsOver ==
    [][\A d \in (1 .. latest) \ open :
          d \in DOMAIN log' => d \in DOMAIN log /\ log'[d] = log[d]]_<<latest, open, log, claimed>>
=============================================================================
