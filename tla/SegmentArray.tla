----------------------------- MODULE SegmentArray -----------------------------
(***************************************************************************)
(* What the loops of manageDisjointSegmentInfo do to the array in which      *)
(* c1222al_segmenter.c keeps the table of disjoint segments, in order of     *)
(* arrival.                                                                 *)
(***************************************************************************)
EXTENDS DisjointSegments, SequencesExt

Extended(a, b) ==
    [offset     |-> IF b.offset < a.offset THEN b.offset ELSE a.offset,
     nextOffset |-> IF b.nextOffset > a.nextOffset THEN b.nextOffset ELSE a.nextOffset]

\* The first loop stops at the first entry the new segment touches; 0 if none.
FirstTouched(table, new) ==
    SelectInSeq(table, LAMBDA s : ~(new.nextOffset < s.offset) /\ ~(new.offset > s.nextOffset))

\* The second loop at one entry: the working entry grows by what it touches, which is marked.
Visit(table, workingIndex, acc, ii) ==
    IF \/ ii = workingIndex
       \/ table[ii].nextOffset < acc.working.offset
       \/ table[ii].offset > acc.working.nextOffset
    THEN acc
    ELSE [working          |-> Extended(acc.working, table[ii]),
          segmentsToDelete |-> acc.segmentsToDelete \cup {ii}]

\* The second loop: one pass over the array.
Swallow(table, workingIndex) ==
    LET visited[n \in 0..Len(table)] ==
            IF n = 0
            THEN [working |-> table[workingIndex], segmentsToDelete |-> {}]
            ELSE Visit(table, workingIndex, visited[n - 1], n)
    IN  visited[Len(table)]

\* The third loop deletes from the end, so no index it has yet to visit moves.
DeleteMarked(table, marked) ==
    LET kept[n \in 0..Len(table)] ==
            IF n = 0 THEN <<>>
            ELSE IF n \in marked THEN kept[n - 1] ELSE Append(kept[n - 1], table[n])
    IN  kept[Len(table)]

\* A mutation of Merged: the working entry is not grown by what is deleted.
DeletesWithoutGrowing(table, ii, new) ==
    LET fixed == [table EXCEPT ![ii] = Extended(@, new)]
    IN  DeleteMarked(fixed, Swallow(fixed, ii).segmentsToDelete)

Merged(table, ii, new) ==
    LET fixed  == [table EXCEPT ![ii] = Extended(@, new)]
        result == Swallow(fixed, ii)
    IN  DeleteMarked([fixed EXCEPT ![ii] = result.working], result.segmentsToDelete)

=============================================================================
