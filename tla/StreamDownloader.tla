-------------------------- MODULE StreamDownloader --------------------------
(***************************************************************************)
(* The thread of arsoft.eurosport that downloads a live stream part by     *)
(* part, the server that publishes its playlist, and the player that takes *)
(* the parts.  Segments are numbered as they are published; the playlist   *)
(* holds the last few, from number first on.  The thread counts by the     *)
(* index into the list it has loaded, and does not start again at the      *)
(* front when it loads the list anew.                                      *)
(***************************************************************************)
EXTENDS Integers, Sequences

CONSTANTS
    Keyed,      \* the segments that are published encrypted
    Faults,     \* what may go wrong, see Fault
    MaxSegment, \* bound of the segments published
    None        \* Python's None

Fault == {"playlist",   \* HTTPError for the playlist
          "key",        \* HTTPError for the key of a segment
          "segment",    \* HTTPError for a segment, it may have expired
          "network",    \* any other error of urlopen
          "empty"}      \* the server answers with a list without segments

ASSUME FaultsAssumption == Faults \subseteq Fault
ASSUME SegmentsAssumption == MaxSegment \in Nat \ {0} /\ Keyed \subseteq 1 .. MaxSegment

VARIABLES
    published,  \* the playlist on the server
    m3u_list,   \* the one the thread has loaded
    index,      \* stream._segment_index
    pc,         \* where the thread is; "dead" after an exception, "ended" by stop
    stopped,    \* _stop
    recorded,   \* downloaded_parts
    parts       \* parts_to_be_played

thread == <<m3u_list, index, pc, recorded>>
vars == <<published, m3u_list, index, pc, stopped, recorded, parts>>

Segments == 1 .. MaxSegment
Playlist == [first : Segments, len : Segments]
ASSUME NoneAssumption == None \notin Int \union Playlist
Playing == {"look", "reload", "advance", "download"}

\* The segment at position i of the list; -1 is the last one, as in Python.
\* Wrong: the index runs from the end of the list.
SegmentFromEnd(l, i) == l.first + l.len - 1 - i
Segment(l, i) == l.first + (IF i = -1 THEN l.len - 1 ELSE i)

\* Wrong: one more than the list has.
HasOneMore(i) == m3u_list # None /\ i <= m3u_list.len
Has(i) == m3u_list # None /\ i < m3u_list.len

TypeOK ==
    /\ published \in Playlist
    /\ m3u_list \in Playlist \union {None}
    /\ index \in -1 .. MaxSegment
    /\ pc \in Playing \union {"dead", "ended"}
    /\ stopped \in BOOLEAN
    /\ recorded \subseteq Segments
    /\ parts \in Seq(Segments \union {None})
    /\ m3u_list = None => index = -1
    /\ m3u_list # None => m3u_list.first <= published.first
    /\ pc \in {"advance", "download"} => m3u_list # None /\ index < m3u_list.len
    /\ pc = "download" => index >= 0
    /\ published.first + published.len <= MaxSegment + 1
    /\ m3u_list # None => m3u_list.first + m3u_list.len <= MaxSegment + 1

\* The stream was made with the information of its variant, then it has no
\* list yet, or without it, then it has loaded the list in its constructor.
Init ==
    /\ published \in Playlist
    /\ published.first + published.len <= MaxSegment + 1
    /\ m3u_list \in {None, published}
    /\ index = -1
    /\ pc = "look"
    /\ stopped = FALSE
    /\ recorded = {}
    /\ parts = <<>>

-----------------------------------------------------------------------------
(* The server appends to the list and takes from its front.                *)

Publish ==
    /\ published.first + published.len <= MaxSegment
    /\ published' = [published EXCEPT !.len = @ + 1]
    /\ UNCHANGED <<thread, stopped, parts>>

Expire ==
    /\ published.len > 1
    /\ published' = [first |-> published.first + 1, len |-> published.len - 1]
    /\ UNCHANGED <<thread, stopped, parts>>

-----------------------------------------------------------------------------
(* The thread, play.                                                       *)

LeaveLoop ==
    /\ pc = "look"
    /\ stopped
    /\ pc' = "ended"
    /\ UNCHANGED <<published, m3u_list, index, stopped, recorded, parts>>

\* Wrong: the flag is not looked at once a list is there.
EnterUnlessDone == pc = "look" /\ (stopped => m3u_list # None)
EnterLoop == pc = "look" /\ ~stopped

OutOfSegments ==
    /\ EnterLoop
    /\ ~Has(index)
    /\ pc' = "reload"
    /\ UNCHANGED <<published, m3u_list, index, stopped, recorded, parts>>

\* The address that is noted as downloaded is that of the current segment,
\* get_part then goes to the next one.
Note ==
    /\ EnterLoop
    /\ Has(index)
    /\ recorded' = recorded \union {Segment(m3u_list, index)}
    /\ pc' = "advance"
    /\ UNCHANGED <<published, m3u_list, index, stopped, parts>>

\* Wrong: the new list is played from its front.
LoadFromFront == m3u_list' = published /\ index' = -1
\* Wrong: a list that is there is good enough.
LoadOnce ==
    /\ m3u_list' = (IF m3u_list = None THEN published ELSE m3u_list)
    /\ UNCHANGED index
Load == m3u_list' = published /\ UNCHANGED index

Reload ==
    /\ pc = "reload"
    /\ Load
    /\ pc' = "look"
    /\ UNCHANGED <<published, stopped, recorded, parts>>

ReloadFails ==
    /\ pc = "reload"
    /\ "playlist" \in Faults
    /\ pc' = "look"
    /\ UNCHANGED <<published, m3u_list, index, stopped, recorded, parts>>

\* The exceptions nobody catches end the thread: NoStreamPartsFound, any error
\* of urlopen that is not an HTTPError, and the TypeError of unpad, which
\* takes the ord of a number, when a segment and its key have arrived.
Die ==
    /\ \/ pc = "reload" /\ "empty" \in Faults
       \/ pc \in {"reload", "download"} /\ "network" \in Faults
       \/ pc = "download" /\ Segment(m3u_list, index) \in Keyed
    /\ pc' = "dead"
    /\ UNCHANGED <<published, m3u_list, index, stopped, recorded, parts>>

Advance ==
    /\ pc = "advance"
    /\ index' = index + 1
    /\ IF Has(index + 1)
       THEN pc' = "download" /\ UNCHANGED parts
       ELSE pc' = "look" /\ parts' = Append(parts, None)
    /\ UNCHANGED <<published, m3u_list, stopped, recorded>>

Put(part) ==
    /\ parts' = Append(parts, part)
    /\ pc' = "look"
    /\ UNCHANGED <<published, m3u_list, index, stopped, recorded>>

\* Without its key an encrypted segment is handed over as it is.
Receive ==
    /\ pc = "download"
    /\ Segment(m3u_list, index) \in Keyed => "key" \in Faults
    /\ Put(Segment(m3u_list, index))

DownloadFails ==
    /\ pc = "download"
    /\ "segment" \in Faults
    /\ Put(None)

-----------------------------------------------------------------------------
(* The program that started the thread.                                    *)

Stop ==
    /\ ~stopped
    /\ stopped' = TRUE
    /\ UNCHANGED <<published, thread, parts>>

\* NoDataAvailable changes nothing and has no action.
GetNextPart ==
    /\ parts # <<>>
    /\ parts' = Tail(parts)
    /\ UNCHANGED <<published, thread, stopped>>

Play == LeaveLoop \/ OutOfSegments \/ Note \/ Reload \/ ReloadFails \/ Die
        \/ Advance \/ Receive \/ DownloadFails
Next == Publish \/ Expire \/ Play \/ Stop \/ GetNextPart

Spec == Init /\ [][Next]_vars

\* The thread is scheduled and its requests are answered, and the playlist is
\* not refused for ever.  Server, player and stop owe nothing.
FairSpec == Spec /\ WF_vars(Play) /\ SF_vars(Reload)

-----------------------------------------------------------------------------
\* get_part counts up before it downloads.
position ==
    IF m3u_list = None THEN 0
    ELSE m3u_list.first + index - (IF pc = "download" THEN 1 ELSE 0)

\* The thread implements the feed a player expects (get_part, lines 89-120,
\* and the deque of play, line 164): in order, nothing twice, whatever list is
\* loaded in between.
Feed == INSTANCE SegmentFeed WITH Missing <- None
FeedImplemented == Feed!Spec

\* A segment that waits to be played is noted in downloaded_parts, but for the
\* one downloaded last: play (lines 156-164) notes each one turn too late.
NotedLate ==
    \A i \in 1 .. Len(parts) :
        parts[i] # None => (parts[i] \in recorded \/ parts[i] = position)

\* stop (line 168) only sets a flag; the thread sees it and leaves, wherever it
\* was, unless an exception has ended it before.
StopEnds == stopped ~> pc \in {"ended", "dead"}

\* The thread follows the stream as far as the playlist is long, and no
\* further: while the list on the server has n segments or more, it gets past
\* the first n positions, and while it has no more it stays there, however many
\* segments come and go (get_stream_url, line 64).
Follows ==
    \A n \in Segments :
        /\ [](published.len >= n) ~> (index >= n \/ pc \in {"ended", "dead"})
        /\ [](published.len <= n) => [](index <= n)
=============================================================================
