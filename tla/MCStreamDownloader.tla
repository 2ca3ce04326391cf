------------------------ MODULE MCStreamDownloader ------------------------
(***************************************************************************)
(* Instances of StreamDownloader for TLC.                                  *)
(***************************************************************************)
EXTENDS StreamDownloader

AllFaults == Fault
LastKeyed == {MaxSegment}
=============================================================================
