----------------------- MODULE StreamDownloaderProofs -----------------------
(***************************************************************************)
(* Proofs about StreamDownloader, for any length of the stream and any     *)
(* faults.                                                                 *)
(***************************************************************************)
EXTENDS StreamDownloader, TLAPS

-----------------------------------------------------------------------------
(***************************************************************************)
(* Sequences of parts                                                      *)
(***************************************************************************)
LEMMA Appended ==
    ASSUME NEW S, NEW s \in Seq(S), NEW x \in S
    PROVE  /\ Append(s, x) \in Seq(S)
           /\ Len(Append(s, x)) = Len(s) + 1
           /\ \A i \in 1 .. Len(s) : Append(s, x)[i] = s[i]
           /\ Append(s, x)[Len(s) + 1] = x
           /\ Len(s) \in Nat
  OBVIOUS

LEMMA Taken ==
    ASSUME NEW S, NEW s \in Seq(S), s # <<>>
    PROVE  /\ Tail(s) \in Seq(S)
           /\ Len(Tail(s)) = Len(s) - 1
           /\ \A i \in 1 .. Len(Tail(s)) : i + 1 \in 1 .. Len(s) /\ Tail(s)[i] = s[i + 1]
           /\ Len(s) \in Nat
  OBVIOUS

-----------------------------------------------------------------------------
(***************************************************************************)
(* Type correctness                                                        *)
(***************************************************************************)
LEMMA PlaylistType ==
    ASSUME NEW l \in Playlist, l.first + l.len <= MaxSegment + 1
    PROVE  /\ l # None
           /\ l.first \in Nat \ {0} /\ l.len \in Nat \ {0}
           /\ l.first + l.len - 1 \in Segments
           /\ \A i \in Nat : i < l.len => l.first + i \in Segments
<1>1. l.first \in Segments /\ l.len \in Segments
  BY DEF Playlist
<1>2. QED
  BY <1>1, SegmentsAssumption, NoneAssumption DEF Playlist, Segments

LEMMA TypeInit == Init => TypeOK
<1> SUFFICES ASSUME Init PROVE TypeOK
  OBVIOUS
<1>1. m3u_list = None \/ (m3u_list = published /\ m3u_list # None)
  BY PlaylistType DEF Init
<1>2. m3u_list # None => m3u_list.first <= published.first
  BY <1>1, PlaylistType DEF Init
<1>3. index \in -1 .. MaxSegment
  BY SegmentsAssumption DEF Init
<1>4. m3u_list \in Playlist \union {None}
      /\ (m3u_list # None => m3u_list.first + m3u_list.len <= MaxSegment + 1)
      /\ (m3u_list = None => index = -1)
  BY <1>1 DEF Init
<1>5. parts \in Seq(Segments \union {None}) /\ recorded \subseteq Segments
  BY DEF Init
<1>6. QED
  BY <1>2, <1>3, <1>4, <1>5 DEF Init, TypeOK, Playing

LEMMA TypeServer ==
    ASSUME TypeOK, Publish \/ Expire
    PROVE  TypeOK'
<1>1. published' \in Playlist /\ published'.first >= published.first
      /\ published'.first + published'.len <= MaxSegment + 1
  <2>1. CASE Publish
    BY <2>1, SegmentsAssumption DEF TypeOK, Publish, Playlist, Segments
  <2>2. CASE Expire
    BY <2>2, SegmentsAssumption DEF TypeOK, Expire, Playlist, Segments
  <2>3. QED
    BY <2>1, <2>2
<1>2. UNCHANGED <<m3u_list, index, pc, recorded, stopped, parts>>
  BY DEF Publish, Expire, thread
<1>3. QED
  BY <1>1, <1>2, SegmentsAssumption, NoneAssumption
     DEF TypeOK, Playlist, Segments, Playing

LEMMA TypePlay ==
    ASSUME TypeOK, Play
    PROVE  TypeOK'
<1> USE SegmentsAssumption, NoneAssumption DEF TypeOK, Playing, Playlist, Segments
<1>1. CASE LeaveLoop
  BY <1>1 DEF LeaveLoop
<1>2. CASE OutOfSegments
  BY <1>2 DEF OutOfSegments
<1>3. CASE Note
  <2>1. m3u_list # None /\ index < m3u_list.len /\ m3u_list \in Playlist
    BY <1>3 DEF Note, Has
  <2>2. Segment(m3u_list, index) \in Segments
    BY <2>1, PlaylistType DEF Segment
  <2>3. QED
    BY <1>3, <2>1, <2>2 DEF Note
<1>4. CASE Reload
  <2>1. published # None /\ published.first <= published.first
    BY PlaylistType
  <2>2. QED
    BY <1>4, <2>1 DEF Reload, Load
<1>5. CASE ReloadFails
  BY <1>5 DEF ReloadFails
<1>6. CASE Die
  BY <1>6 DEF Die
<1>7. CASE Advance
  <2>1. Append(parts, None) \in Seq(Segments \union {None})
    BY Appended
  <2>2. m3u_list # None /\ m3u_list.len \in Segments /\ index < m3u_list.len
        /\ index \in Int
    BY <1>7 DEF Advance
  <2>3. index' \in 0 .. MaxSegment /\ UNCHANGED <<published, m3u_list, stopped, recorded>>
    BY <1>7, <2>2 DEF Advance
  <2>4. parts' \in Seq(Segments \union {None})
        /\ (pc' = "look" \/ (pc' = "download" /\ index' < m3u_list.len))
    BY <1>7, <2>1 DEF Advance, Has
  <2>5. QED
    BY <2>2, <2>3, <2>4
<1>8. CASE Receive
  <2>1. Segment(m3u_list, index) \in Segments
    BY <1>8, PlaylistType DEF Receive, Segment
  <2>2. Append(parts, Segment(m3u_list, index)) \in Seq(Segments \union {None})
    BY <2>1, Appended
  <2>3. QED
    BY <1>8, <2>2 DEF Receive, Put
<1>9. CASE DownloadFails
  <2>1. Append(parts, None) \in Seq(Segments \union {None})
    BY Appended
  <2>2. QED
    BY <1>9, <2>1 DEF DownloadFails, Put
<1>10. QED
  BY <1>1, <1>2, <1>3, <1>4, <1>5, <1>6, <1>7, <1>8, <1>9 DEF Play

LEMMA TypeNext ==
    ASSUME TypeOK, [Next]_vars
    PROVE  TypeOK'
<1>1. CASE Stop
  BY <1>1 DEF Stop, thread, TypeOK
<1>2. CASE GetNextPart
  <2>1. Tail(parts) \in Seq(Segments \union {None})
    BY <1>2, Taken DEF GetNextPart, TypeOK
  <2>2. QED
    BY <1>2, <2>1 DEF GetNextPart, thread, TypeOK
<1>3. CASE UNCHANGED vars
  BY <1>3 DEF vars, TypeOK
<1>4. QED
  BY <1>1, <1>2, <1>3, TypeServer, TypePlay DEF Next

\* Every reachable state is well typed: the thread is at an index its list
\* has whenever it uses it, and its list is never ahead of the server's.
THEOREM StreamTypeCorrect == Spec => []TypeOK
  BY TypeInit, TypeNext, PTL DEF Spec

-----------------------------------------------------------------------------
(***************************************************************************)
(* The refinement of the feed                                              *)
(***************************************************************************)
LEMMA PositionType == TypeOK => position \in Nat
  BY SegmentsAssumption, NoneAssumption
     DEF TypeOK, position, Playlist, Segments

LEMMA FeedInit == Init => Feed!Init
  BY SegmentsAssumption, NoneAssumption
     DEF Init, Feed!Init, position, Playlist, Segments

LEMMA FeedNext ==
    ASSUME TypeOK, TypeOK', [Next]_vars
    PROVE  [Feed!Next]_<<parts, position>>
<1> USE DEF Feed!Next
<1>0. position \in Nat /\ position' \in Nat
  <2>1. TypeOK' => position' \in Nat
    BY SegmentsAssumption, NoneAssumption
       DEF TypeOK, position, Playlist, Segments
  <2>2. QED
    BY <2>1, PositionType
<1>1. CASE Publish \/ Expire \/ Stop \/ UNCHANGED vars
  BY <1>1 DEF Publish, Expire, Stop, thread, vars, position
<1>2. CASE GetNextPart
  BY <1>2 DEF GetNextPart, thread, position, Feed!Take
<1>3. CASE LeaveLoop \/ OutOfSegments \/ Note \/ ReloadFails
  BY <1>3 DEF LeaveLoop, OutOfSegments, Note, EnterLoop, ReloadFails, position
<1>4. CASE Reload
  <2>1. UNCHANGED parts /\ pc = "reload" /\ pc' = "look" /\ index' = index
        /\ m3u_list' = published
    BY <1>4 DEF Reload, Load
  <2>2. position' = published.first + index
    BY <2>1, NoneAssumption DEF position, TypeOK, Playlist
  <2>3. position' >= position
    BY <2>1, <2>2, SegmentsAssumption, NoneAssumption
       DEF position, TypeOK, Playlist, Segments
  <2>4. QED
    BY <1>0, <2>1, <2>3 DEF Feed!Skip, Feed!MoveOn
<1>5. CASE Die
  <2>1. UNCHANGED <<m3u_list, index, parts>> /\ pc' = "dead"
    BY <1>5 DEF Die
  <2>2. position' = position \/ position' > position
    BY <1>5, <2>1, SegmentsAssumption DEF position, TypeOK, Playlist, Segments, Die
  <2>3. QED
    BY <1>0, <2>1, <2>2 DEF Feed!Skip, Feed!MoveOn
<1>6. CASE Advance
  <2>1. CASE Has(index + 1)
    BY <1>6, <2>1, SegmentsAssumption
       DEF Advance, position, TypeOK, Playlist, Segments
  <2>2. CASE ~Has(index + 1)
    <3>1. parts' = Append(parts, None) /\ position' = position + 1
      BY <1>6, <2>2, SegmentsAssumption
         DEF Advance, position, TypeOK, Playlist, Segments
    <3>2. QED
      BY <1>0, <3>1 DEF Feed!LeaveGap, Feed!MoveOn
  <2>3. QED
    BY <2>1, <2>2
<1>7. CASE Receive
  <2>1. m3u_list # None /\ index >= 0 /\ pc = "download" /\ pc' = "look"
        /\ UNCHANGED <<m3u_list, index>>
    BY <1>7 DEF Receive, Put, TypeOK
  <2>2. position' = position + 1 /\ position' = Segment(m3u_list, index)
    BY <2>1, SegmentsAssumption DEF position, Segment, TypeOK, Playlist, Segments
  <2>3. parts' = Append(parts, position')
    BY <1>7, <2>2 DEF Receive, Put
  <2>4. QED
    BY <1>0, <2>2, <2>3 DEF Feed!Deliver, Feed!MoveOn
<1>8. CASE DownloadFails
  <2>1. position' = position + 1 /\ parts' = Append(parts, None)
    BY <1>8, SegmentsAssumption
       DEF DownloadFails, Put, position, TypeOK, Playlist, Segments
  <2>2. QED
    BY <1>0, <2>1 DEF Feed!LeaveGap, Feed!MoveOn
<1>9. QED
  BY <1>1, <1>2, <1>3, <1>4, <1>5, <1>6, <1>7, <1>8 DEF Next, Play

\* The thread implements the feed, for any stream, whatever lists it loads and
\* whatever requests fail: in order, nothing twice.
THEOREM FeedHolds == Spec => FeedImplemented
<1>1. TypeOK /\ TypeOK' /\ [Next]_vars => [Feed!Next]_<<parts, position>>
  BY FeedNext
<1>2. QED
  BY <1>1, FeedInit, StreamTypeCorrect, PTL DEF Spec, FeedImplemented, Feed!Spec

-----------------------------------------------------------------------------
(***************************************************************************)
(* What the feed promises, for the parts of the thread                     *)
(***************************************************************************)
AscendingInv == Feed!TypeOK /\ Feed!Ascending

LEMMA AscendingNext ==
    ASSUME AscendingInv, [Feed!Next]_<<parts, position>>
    PROVE  AscendingInv'
<1> DEFINE S == Nat \union {None}
<1>0. parts \in Seq(S) /\ position \in Nat
  BY DEF AscendingInv, Feed!TypeOK
<1>1. CASE Feed!Deliver
  <2>1. position' \in Nat /\ position' > position /\ parts' = Append(parts, position')
    BY <1>1 DEF Feed!Deliver, Feed!MoveOn
  <2>2. /\ parts' \in Seq(S)
        /\ Len(parts') = Len(parts) + 1 /\ Len(parts) \in Nat
        /\ \A i \in 1 .. Len(parts) : parts'[i] = parts[i]
        /\ parts'[Len(parts) + 1] = position'
    BY <1>0, <2>1, Appended
  <2>3. \A i \in 1 .. Len(parts) : parts[i] # None => parts[i] \in Nat /\ parts[i] <= position
    BY <1>0 DEF AscendingInv, Feed!Ascending
  <2>4. QED
    BY <1>0, <2>1, <2>2, <2>3 DEF AscendingInv, Feed!TypeOK, Feed!Ascending
<1>2. CASE Feed!LeaveGap
  <2>1. position' \in Nat /\ position' > position /\ parts' = Append(parts, None)
    BY <1>2 DEF Feed!LeaveGap, Feed!MoveOn
  <2>2. /\ parts' \in Seq(S)
        /\ Len(parts') = Len(parts) + 1 /\ Len(parts) \in Nat
        /\ \A i \in 1 .. Len(parts) : parts'[i] = parts[i]
        /\ parts'[Len(parts) + 1] = None
    BY <1>0, <2>1, Appended
  <2>3. \A i \in 1 .. Len(parts) : parts[i] # None => parts[i] \in Nat /\ parts[i] <= position
    BY <1>0 DEF AscendingInv, Feed!Ascending
  <2>4. QED
    BY <1>0, <2>1, <2>2, <2>3 DEF AscendingInv, Feed!TypeOK, Feed!Ascending
<1>3. CASE Feed!Skip
  <2>1. position' \in Nat /\ position' > position /\ parts' = parts
    BY <1>3 DEF Feed!Skip, Feed!MoveOn
  <2>2. \A i \in 1 .. Len(parts) : parts[i] # None => parts[i] \in Nat /\ parts[i] <= position
    BY <1>0 DEF AscendingInv, Feed!Ascending
  <2>3. QED
    BY <1>0, <2>1, <2>2 DEF AscendingInv, Feed!TypeOK, Feed!Ascending
<1>4. CASE Feed!Take
  <2>1. position' = position /\ parts' = Tail(parts) /\ parts # <<>>
    BY <1>4 DEF Feed!Take
  <2>2. /\ parts' \in Seq(S)
        /\ Len(parts') = Len(parts) - 1 /\ Len(parts) \in Nat
        /\ \A i \in 1 .. Len(parts') : i + 1 \in 1 .. Len(parts) /\ parts'[i] = parts[i + 1]
    BY <1>0, <2>1, Taken
  <2>3. \A i \in 1 .. Len(parts') : parts'[i] # None => parts'[i] <= position'
    BY <1>0, <2>1, <2>2 DEF AscendingInv, Feed!Ascending
  <2>4. ASSUME NEW i \in 1 .. Len(parts'), NEW j \in 1 .. Len(parts'),
               i < j, parts'[i] # None, parts'[j] # None
        PROVE  parts'[i] < parts'[j]
    <3>1. /\ i + 1 \in 1 .. Len(parts) /\ parts'[i] = parts[i + 1]
          /\ j + 1 \in 1 .. Len(parts) /\ parts'[j] = parts[j + 1]
          /\ i + 1 < j + 1
      BY <2>2, <2>4
    <3>2. QED
      BY <2>4, <3>1 DEF AscendingInv, Feed!Ascending
  <2>5. QED
    BY <1>0, <2>1, <2>2, <2>3, <2>4 DEF AscendingInv, Feed!TypeOK, Feed!Ascending
<1>5. CASE UNCHANGED <<parts, position>>
  BY <1>5 DEF AscendingInv, Feed!TypeOK, Feed!Ascending
<1>6. QED
  BY <1>1, <1>2, <1>3, <1>4, <1>5 DEF Feed!Next

\* What waits to be played waits in the order of the stream and nothing in it
\* twice; it follows from the refinement alone.
THEOREM PartsAscend == Spec => []Feed!Ascending
<1>1. Feed!Init => AscendingInv
  BY DEF Feed!Init, AscendingInv, Feed!TypeOK, Feed!Ascending
<1>2. AscendingInv /\ [Feed!Next]_<<parts, position>> => AscendingInv'
  BY AscendingNext
<1>3. AscendingInv => Feed!Ascending
  BY DEF AscendingInv
<1>4. QED
  BY <1>1, <1>2, <1>3, FeedHolds, PTL DEF FeedImplemented, Feed!Spec

-----------------------------------------------------------------------------
(***************************************************************************)
(* What waits is noted                                                     *)
(***************************************************************************)
AllNoted == \A i \in 1 .. Len(parts) : parts[i] # None => parts[i] \in recorded

\* The part handed over last is noted before the thread does anything else.
NotedInv ==
    /\ NotedLate
    /\ pc \in {"reload", "advance", "download"} => AllNoted
    /\ pc = "look" /\ ~Has(index) => AllNoted
    /\ index = -1 => parts = <<>>

LEMMA NotedInit == Init => NotedInv
  BY DEF Init, NotedInv, NotedLate, AllNoted

LEMMA NotedPlay ==
    ASSUME TypeOK, NotedInv, Play
    PROVE  NotedInv'
<1> USE DEF NotedInv
<1>0. parts \in Seq(Segments \union {None})
      /\ (m3u_list # None => m3u_list.first \in Int /\ m3u_list.len \in Int)
      /\ index \in Int /\ index >= -1
  BY SegmentsAssumption DEF TypeOK, Playlist, Segments
<1>1. CASE LeaveLoop \/ OutOfSegments \/ ReloadFails
  BY <1>1 DEF LeaveLoop, OutOfSegments, ReloadFails, EnterLoop, NotedLate,
              AllNoted, position, Has
<1>2. CASE Note
  <2>1. pc = "look" /\ pc' = "advance" /\ m3u_list # None
        /\ recorded' = recorded \union {Segment(m3u_list, index)}
        /\ UNCHANGED <<m3u_list, index, parts>>
    BY <1>2 DEF Note, EnterLoop, Has
  <2>2. index # -1 => position = Segment(m3u_list, index)
    BY <1>0, <2>1 DEF position, Segment
  <2>3. AllNoted'
    BY <2>1, <2>2 DEF AllNoted, NotedLate
  <2>4. QED
    BY <2>1, <2>3 DEF NotedLate, AllNoted
<1>3. CASE Reload \/ Die
  <2>1. UNCHANGED <<index, recorded, parts>>
        /\ pc \in {"reload", "download"} /\ pc' \in {"look", "dead"}
    BY <1>3 DEF Reload, Load, Die
  <2>2. AllNoted'
    BY <2>1 DEF AllNoted
  <2>3. QED
    BY <2>1, <2>2 DEF NotedLate, AllNoted
<1>4. CASE Advance
  <2>1. pc = "advance" /\ index' = index + 1 /\ UNCHANGED recorded
        /\ \/ pc' = "download" /\ UNCHANGED parts
           \/ pc' = "look" /\ parts' = Append(parts, None)
    BY <1>4 DEF Advance
  <2>2. AllNoted'
    BY <1>0, <2>1, Appended DEF AllNoted
  <2>3. index' # -1
    BY <1>0, <2>1
  <2>4. QED
    BY <2>1, <2>2, <2>3 DEF NotedLate, AllNoted
<1>5. CASE Receive
  <2>1. m3u_list # None /\ index >= 0 /\ pc = "download" /\ pc' = "look"
        /\ index < m3u_list.len
        /\ UNCHANGED <<m3u_list, index, recorded>>
        /\ parts' = Append(parts, Segment(m3u_list, index))
        /\ Segment(m3u_list, index) \in Segments
    BY <1>5, PlaylistType DEF Receive, Put, TypeOK, Segment
  <2>2. position' = Segment(m3u_list, index)
    BY <1>0, <2>1 DEF position, Segment
  <2>3. NotedLate'
    BY <1>0, <2>1, <2>2, Appended DEF NotedLate, AllNoted
  <2>4. Has(index)' /\ index' # -1
    BY <1>0, <2>1 DEF Has
  <2>5. QED
    BY <2>1, <2>3, <2>4
<1>6. CASE DownloadFails
  <2>1. index >= 0 /\ pc = "download" /\ pc' = "look"
        /\ UNCHANGED <<index, recorded>> /\ parts' = Append(parts, None)
    BY <1>6 DEF DownloadFails, Put, TypeOK
  <2>2. AllNoted'
    BY <1>0, <2>1, Appended DEF AllNoted
  <2>3. QED
    BY <1>0, <2>1, <2>2 DEF NotedLate, AllNoted
<1>7. QED
  BY <1>1, <1>2, <1>3, <1>4, <1>5, <1>6 DEF Play

LEMMA NotedNext ==
    ASSUME TypeOK, NotedInv, [Next]_vars
    PROVE  NotedInv'
<1>1. CASE Publish \/ Expire \/ Stop \/ UNCHANGED vars
  BY <1>1 DEF Publish, Expire, Stop, thread, vars, NotedInv, NotedLate,
              AllNoted, position, Has
<1>2. CASE GetNextPart
  <2>1. UNCHANGED <<m3u_list, index, pc, recorded>> /\ parts' = Tail(parts)
        /\ parts # <<>> /\ parts \in Seq(Segments \union {None})
    BY <1>2 DEF GetNextPart, thread, TypeOK
  <2>2. \A i \in 1 .. Len(parts') :
           i + 1 \in 1 .. Len(parts) /\ parts'[i] = parts[i + 1]
    BY <2>1, Taken
  <2>3. position' = position /\ Has(index)' = Has(index)
    BY <2>1 DEF position, Has
  <2>4. NotedLate' /\ (AllNoted => AllNoted')
    BY <2>1, <2>2, <2>3 DEF NotedInv, NotedLate, AllNoted
  <2>5. QED
    BY <2>1, <2>3, <2>4 DEF NotedInv
<1>3. QED
  BY <1>1, <1>2, NotedPlay DEF Next

\* Whatever waits to be played is noted as downloaded, but for the part handed
\* over last.
THEOREM WaitingIsNoted == Spec => []NotedLate
<1>1. NotedInv => NotedLate
  BY DEF NotedInv
<1>2. QED
  BY <1>1, NotedInit, NotedNext, StreamTypeCorrect, PTL DEF Spec
=============================================================================
