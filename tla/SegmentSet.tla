------------------------------ MODULE SegmentSet ------------------------------
(***************************************************************************)
(* What the table of disjoint segments promises: a new segment is merged    *)
(* with every entry it touches, and is refused only when it touches none    *)
(* and the table is full.                                                   *)
(***************************************************************************)
EXTENDS DisjointSegments

VARIABLES
    segments,  \* the intervals received
    added,     \* the last segment offered
    accepted   \* whether it was taken

Init == segments = {} /\ added = Interval(0, 0) /\ accepted = FALSE

Add(offset, length) ==
    LET new == Interval(offset, length)
    IN  /\ added' = new
        /\ accepted' = HasRoom(segments, new)
        /\ segments' = IF HasRoom(segments, new)
                       THEN manageDisjointSegmentInfo(segments, new)
                       ELSE segments

Clear == segments' = {} /\ UNCHANGED <<added, accepted>>

Next ==
    \/ Clear
    \/ \E offset, length \in 0..MaxMessageLength :
          offset + length <= MaxMessageLength /\ Add(offset, length)

Spec == Init /\ [][Next]_<<segments, added, accepted>>

=============================================================================
