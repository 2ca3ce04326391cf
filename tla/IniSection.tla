----------------------------- MODULE IniSection -----------------------------
(***************************************************************************)
(* The lines of a section of arsoft.inifile as a sequence of records, and  *)
(* the functions that look at and change them.  A line holds the value as  *)
(* it is read again once it was written.  Comments and disabled lines are  *)
(* left out.                                                               *)
(***************************************************************************)
EXTENDS Integers, Sequences, SequencesExt

Line(k, v) == [key |-> k, value |-> v]

\* The places of the lines of a key.
Places(lines, key) == {i \in DOMAIN lines : lines[i].key = key}

\* How many of the places are not after i, and the n-th of them.
Rank(places, i) == Cardinality({j \in places : j <= i})
Nth(places, n) == CHOOSE i \in places : Rank(places, i) = n

\* The lines at these places, in their order.
At(lines, places) == [n \in 1 .. Cardinality(places) |-> lines[Nth(places, n)]]

\* The first line of a key, 0 without one.
First(lines, key) ==
    IF Places(lines, key) = {} THEN 0 ELSE Min(Places(lines, key))

\* get: the first line counts.
Get(lines, key, default) ==
    IF First(lines, key) = 0 THEN default ELSE lines[First(lines, key)].value

\* getAsArray: all lines do.
GetAsArray(lines, key, default) ==
    LET found == At(lines, Places(lines, key))
    IN  IF found = <<>> THEN default ELSE [n \in DOMAIN found |-> found[n].value]

\* What has no line yet gets one at the end.
AppendLine(lines, key, value) == Append(lines, Line(key, value))

\* set with a text: the first line is changed, the rest stays, as del(v) only
\* forgets the name of the line.
\* Wrong: the line that is there stays the first.
SetByAppending(lines, key, value) == AppendLine(lines, key, value)
SetScalar(lines, key, value) ==
    IF First(lines, key) = 0 THEN AppendLine(lines, key, value)
    ELSE [lines EXCEPT ![First(lines, key)].value = value]

-----------------------------------------------------------------------------
(* set with a list.                                                        *)

\* The lines that are there take the values one by one.
SetFound(lines, key, values) ==
    LET rank(i) == Rank(Places(lines, key), i)
    IN  [i \in DOMAIN lines |->
            IF i \in Places(lines, key) /\ rank(i) <= Len(values)
            THEN Line(key, values[rank(i)]) ELSE lines[i]]

\* Lines that are left over are removed from the sequence the loop runs through,
\* which makes it step over the line that follows each: of lines left over one
\* after the other every second stays.
Surplus(lines, key, values) ==
    {i \in Places(lines, key) : Rank(Places(lines, key), i) > Len(values)}
Removed(surplus) ==
    {i \in surplus : Cardinality({j \in 1 .. i : j .. i \subseteq surplus}) % 2 = 1}

\* Values that are left over go before the last line that was there.
\* Wrong: every value gets a new line.
SetListAnew(lines, key, values) ==
    lines \o [i \in DOMAIN values |-> Line(key, values[i])]
SetList(lines, key, values) ==
    LET there == Cardinality(Places(lines, key))
        set == SetFound(lines, key, values)
        last == Max(Places(lines, key))
        rest == [i \in 1 .. Len(values) - there |-> Line(key, values[there + i])]
    IN  IF Len(values) <= there
        THEN At(set, DOMAIN lines \ Removed(Surplus(lines, key, values)))
        ELSE IF there = 0 THEN lines \o rest
        ELSE SubSeq(set, 1, last - 1) \o rest \o SubSeq(set, last, Len(lines))

-----------------------------------------------------------------------------
\* remove: the first line goes.
RemoveLine(lines, key) ==
    IF First(lines, key) = 0 THEN lines ELSE RemoveAt(lines, First(lines, key))
=============================================================================
