--------------------------- MODULE ReceiveSegmenter ---------------------------
(***************************************************************************)
(* The receive segmenter as a component: the calls that change it, in any   *)
(* order.  ReceivePath is shown to make no other change to it.              *)
(***************************************************************************)
EXTENDS Segmenter

VARIABLE segmenter

SegmenterInit == segmenter = Cleared

\* A part arrives and AddSegment takes it.
Add(p) ==
    /\ Accepts(segmenter, p)
    /\ segmenter' = AddSegment(segmenter, p)

\* A plain text message is answered at once, and cleared: the part that
\* completes it and Clear are one step.
Clear == segmenter' = Cleared

\* A registration request of this node.
Build ==
    /\ IsMessageComplete(segmenter)
    /\ segmenter' = BuildOwnRequest(segmenter)

SegmenterNext == (\E p \in Parts : Add(p)) \/ Clear \/ Build

SegmenterSpec == SegmenterInit /\ [][SegmenterNext]_segmenter

-----------------------------------------------------------------------------
\* The state, the lengths and the intervals are in range.
SegmenterTypeOK == segmenter \in Segmenters

\* "Adjacent segments are combined and count as 1" (README 4.2.11): the entries
\* of the table neither overlap nor touch, and never outgrow the array.
TableIsSeparate == SegmentsSeparate(segmenter)

\* What the table counts as received was received or built: no message is
\* completed over bytes that Clear left there.
NoGapIsDelivered == CoverageIsWritten(segmenter)

\* The segments in the buffer are all of the message being reassembled.
NoMixedSegments == NoSegmentMixing(segmenter)

\* The application layer is busy while a message is incomplete, and only an
\* occupied segmenter times out: nothing else may leave it incomplete, and the
\* timeout never takes a complete message away.
IncompleteTimesOut == ~IsMessageComplete(segmenter) <=> IsPartial(segmenter)

\* The bytes received of a partial message stay received until its segmenter is
\* cleared, or taken by another message.
NothingReceivedIsLost ==
    [][IsPartial(segmenter) /\ segmenter'.state # "CLEAR"
       /\ segmenter'.workingSequence = segmenter.workingSequence
       /\ segmenter'.callingApTitle = segmenter.callingApTitle =>
          \A a \in segmenter.disjointSegments : \E c \in segmenter'.disjointSegments :
              c.offset <= a.offset /\ a.nextOffset <= c.nextOffset]_segmenter

=============================================================================
