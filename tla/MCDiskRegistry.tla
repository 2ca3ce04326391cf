--------------------------- MODULE MCDiskRegistry ---------------------------
(***************************************************************************)
(* Instances of DiskRegistry for TLC.                                      *)
(***************************************************************************)
EXTENDS DiskRegistry

CONSTANTS p1, p2, d1, d2, t1, t2

TwoProcs == {p1, p2}
TwoDisks == {d1, d2}
RegistrySymmetry == Permutations(TwoProcs) \union Permutations(TwoDisks)
TwoTags == {t1, t2}
ShortLists == {None, <<>>, <<t1>>, <<t1, t2>>}
AllKinds == Kind
AllFaults == Fault
=============================================================================
