----------------------------- MODULE SegmentTable -----------------------------
(***************************************************************************)
(* The table of disjoint segments as c1222al_segmenter.c keeps it: an array *)
(* in order of arrival, changed in place by manageDisjointSegmentInfo, whose *)
(* loops are the operators of SegmentArray.                                 *)
(***************************************************************************)
EXTENDS SegmentArray

VARIABLES
    disjointSegments,  \* disjointSegments[0 .. disjointSegmentCount-1]
    added,             \* the last segment offered to manageDisjointSegmentInfo
    accepted           \* what it returned

tableVars == <<disjointSegments, added, accepted>>

TableInit == disjointSegments = <<>> /\ added = Interval(0, 0) /\ accepted = FALSE

InsertSegment(offset, length) ==
    LET new == Interval(offset, length)
        ii  == FirstTouched(disjointSegments, new)
    IN  /\ added' = new
        /\ \/ /\ ii # 0
              /\ disjointSegments' = Merged(disjointSegments, ii, new)
              /\ accepted' = TRUE
           \/ /\ ii = 0
              /\ Len(disjointSegments) # MaxDisjointSegments
              /\ disjointSegments' = Append(disjointSegments, new)
              /\ accepted' = TRUE
           \/ /\ ii = 0
              /\ Len(disjointSegments) = MaxDisjointSegments
              /\ accepted' = FALSE
              /\ UNCHANGED disjointSegments

\* C1222ALSegmenter_Clear.
ClearTable == disjointSegments' = <<>> /\ UNCHANGED <<added, accepted>>

TableNext ==
    \/ ClearTable
    \/ \E offset, length \in 0..MaxMessageLength :
          offset + length <= MaxMessageLength /\ InsertSegment(offset, length)

TableSpec == TableInit /\ [][TableNext]_tableVars

-----------------------------------------------------------------------------
\* One pass over the array is enough, whatever the order of the entries: what
\* the loops do to the array is what the set of intervals promises, and no entry
\* is there twice to fill the array before the set is full.
Set == INSTANCE SegmentSet WITH segments <- ToSet(disjointSegments)
ImplementsSet == Set!Spec

=============================================================================
