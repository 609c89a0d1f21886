-------------------------- MODULE MCReceiveSegmenter --------------------------
(***************************************************************************)
(* Two machines in one run, of which one stays in its initial state.  The   *)
(* segmenter: two segmented messages that differ in the calling ApTitle      *)
(* only, a third with another sequence, and a whole message, over a buffer   *)
(* of eight bytes and a table of three entries: segments fill gaps between   *)
(* others, and find the table full.  The table: every segment of such a      *)
(* buffer, in every order.                                                  *)
(***************************************************************************)
EXTENDS ReceiveSegmenter, SegmentTable

Sent(fullLength, sequence, title, segmented) ==
    [fullLength |-> fullLength, sequence |-> sequence, callingApTitle |-> title,
     segmented |-> segmented]

Wide      == Sent(8, 1, "title", TRUE)
OtherWide == Sent(6, 1, "other", TRUE)
LaterWide == Sent(8, 2, "title", TRUE)
Whole     == Sent(2, 3, "title", FALSE)

MCMessages   == {Wide, OtherWide, LaterWide, Whole}
MCOwnRequest == Sent(3, 0, "none", FALSE)
MCPositions  == 0..8

MCInit == SegmenterInit /\ TableInit

MCNext ==
    \/ SegmenterNext /\ TableInit /\ UNCHANGED tableVars
    \/ TableNext /\ SegmenterInit /\ UNCHANGED segmenter

MCSpec == MCInit /\ [][MCNext]_<<segmenter, tableVars>>

=============================================================================
