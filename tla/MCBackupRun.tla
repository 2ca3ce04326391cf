---------------------------- MODULE MCBackupRun ----------------------------
(***************************************************************************)
(* Instances of BackupRun for TLC.                                         *)
(***************************************************************************)
EXTENDS BackupRun, TLC

CONSTANTS r1, r2

OneRun == {r1}
TwoRuns == {r1, r2}
TwoRunsSymmetry == Permutations(TwoRuns)

AllOps == Op
BackupAndCleanup == {"backup", "cleanup"}
BackupOnly == {"backup"}

\* what a successful run can be relied on under
ReportedFaults == Fault \ {"statefile", "plugin"}
\* what the bounds of the retention can be relied on under
RemovalWorks == Fault \ {"listing", "rmtree"}
\* what two runs can do to the state files of each other
SharedFaults == {"crash", "statefile", "rsync"}
NoFaults == {}
StateFileFaults == {"statefile"}
=============================================================================
