--------------------------- MODULE DisjointSegments ---------------------------
(***************************************************************************)
(* The table of disjoint segments of c1222al_segmenter.c as a set of        *)
(* intervals [offset, nextOffset): which parts of a segmented message have  *)
(* been received.  SegmentTable is the array and the loops that keep it.    *)
(***************************************************************************)
EXTENDS Integers, FiniteSets, FiniteSetsExt

CONSTANTS
    MaxMessageLength,    \* MAX_ACSE_MESSAGE_LENGTH, 643
    MaxDisjointSegments  \* MAX_C1222_DISJOINT_SEGMENTS, 10

ASSUME BufferAssumption ==
    /\ MaxMessageLength \in Nat \ {0}
    /\ MaxDisjointSegments \in Nat \ {0}

Intervals == [offset : 0..MaxMessageLength, nextOffset : 0..MaxMessageLength]
Interval(offset, length) == [offset |-> offset, nextOffset |-> offset + length]

Touches(a, b) == a.offset <= b.nextOffset /\ b.offset <= a.nextOffset

Hull(S) == [offset     |-> Min({s.offset : s \in S}),
            nextOffset |-> Max({s.nextOffset : s \in S})]

\* manageDisjointSegmentInfo: FALSE when a new entry is needed and there is none.
HasRoom(segments, new) ==
    \/ \E s \in segments : Touches(s, new)
    \/ Cardinality(segments) # MaxDisjointSegments

\* Mutations of manageDisjointSegmentInfo: the loop that merges the grown entry
\* with the others is left out; the entry touched is replaced, not extended.
MergesOneEntry(segments, new) ==
    LET touched == {s \in segments : Touches(s, new)}
    IN  IF touched = {} THEN segments \cup {new}
        ELSE LET s == CHOOSE s \in touched : TRUE
             IN  (segments \ {s}) \cup {Hull({s, new})}

ReplacesEntries(segments, new) ==
    {s \in segments : ~Touches(s, new)} \cup {new}

manageDisjointSegmentInfo(segments, new) ==
    LET touched == {s \in segments : Touches(s, new)}
    IN  (segments \ touched) \cup {Hull(touched \cup {new})}

\* The end of the segment is computed in 16 bits, before its range is checked.
isSegmentAlreadyReceived(segments, offset, length) ==
    LET nextOffset == (offset + length) % 65536
    IN  \E s \in segments : offset >= s.offset /\ nextOffset <= s.nextOffset

\* "Adjacent segments are combined and count as 1" (README 4.2.11): the entries
\* are intervals that neither overlap nor touch, and never outgrow the array.
Separate(segments) ==
    /\ \A a \in segments : a.offset <= a.nextOffset
    /\ \A a, b \in segments : a # b => ~Touches(a, b)
    /\ IsFiniteSet(segments)
    /\ Cardinality(segments) <= MaxDisjointSegments

=============================================================================
