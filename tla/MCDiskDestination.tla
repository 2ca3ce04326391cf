------------------------- MODULE MCDiskDestination -------------------------
(***************************************************************************)
(* Instances of DiskDestination for TLC.                                   *)
(***************************************************************************)
EXTENDS DiskDestination, TLC

CONSTANTS r1, r2, d1, d2

OneRun == {r1}
TwoRuns == {r1, r2}
TwoRunsSymmetry == Permutations(TwoRuns)
TwoDisks == {d1, d2}
FirstDisk == {d1}
NoDisk == {}

AllOps == Op
BackupOnly == {"backup"}

NoFaults == {}
AllFaults == Fault
\* what a run can notice and still release its disk
PreparationFaults == {"rescan", "timeout", "mount", "mkdir", "rsync"}

AllOthers == Other
NobodyElse == {}
\* others that take nothing away
FriendlyOthers == {"mount"}
=============================================================================
