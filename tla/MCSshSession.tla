---------------------------- MODULE MCSshSession ----------------------------
(***************************************************************************)
(* Instances of SshSession for TLC.                                        *)
(***************************************************************************)
EXTENDS SshSession, TLC

CONSTANTS s1, s2, t1

TwoSessions == {s1, s2}
SessionSymmetry == Permutations(TwoSessions)
\* each kind of login, and one without sudo
ThreeSetups ==
    {[keyfile |-> "given", login |-> FALSE, sudo |-> TRUE],
     [keyfile |-> "none", login |-> FALSE, sudo |-> TRUE],
     [keyfile |-> "none", login |-> TRUE, sudo |-> FALSE]}
OneTemp == {t1}
AllFaults == Fault
=============================================================================
