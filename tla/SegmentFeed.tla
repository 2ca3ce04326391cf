---------------------------- MODULE SegmentFeed ----------------------------
(***************************************************************************)
(* What a player may expect of the thread that downloads a live stream for *)
(* it: parts come in the order of the stream, none comes twice, and        *)
(* whatever could not be had leaves at most a gap.                         *)
(***************************************************************************)
EXTENDS Naturals, Sequences

CONSTANT Missing    \* stands for a part that could not be downloaded

VARIABLES
    parts,      \* what waits to be played
    position    \* the last segment the feed has dealt with

TypeOK ==
    /\ parts \in Seq(Nat \union {Missing})
    /\ position \in Nat

Init ==
    /\ parts = <<>>
    /\ position \in Nat

MoveOn == position' \in Nat /\ position' > position

Deliver ==
    /\ MoveOn
    /\ parts' = Append(parts, position')

LeaveGap ==
    /\ MoveOn
    /\ parts' = Append(parts, Missing)

Skip ==
    /\ MoveOn
    /\ UNCHANGED parts

Take ==
    /\ parts # <<>>
    /\ parts' = Tail(parts)
    /\ UNCHANGED position

Next == Deliver \/ LeaveGap \/ Skip \/ Take

Spec == Init /\ [][Next]_<<parts, position>>

-----------------------------------------------------------------------------
\* What waits was published in the order in which it waits, nothing waits
\* twice, and nothing is still to come that is older than what waits.
Ascending ==
    /\ \A i \in 1 .. Len(parts) : parts[i] # Missing => parts[i] <= position
    /\ \A i, j \in 1 .. Len(parts) :
          (i < j /\ parts[i] # Missing /\ parts[j] # Missing) => parts[i] < parts[j]
=============================================================================
