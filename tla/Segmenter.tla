------------------------------ MODULE Segmenter ------------------------------
(***************************************************************************)
(* The application layer segmenter of c1222al_segmenter.c, as the operators *)
(* the message receiver applies to its receive segmenter.  A segmenter is a *)
(* record; each operator returns the record the C function leaves behind.   *)
(*                                                                         *)
(* A byte of the working message buffer is abstracted to the message it was *)
(* copied from.  The table of disjoint segments is the set of intervals of    *)
(* DisjointSegments.                                                       *)
(***************************************************************************)
EXTENDS DisjointSegments

CONSTANTS
    Messages,            \* the application messages other nodes may send
    OwnRequest,          \* the registration request built in the receive buffer
    Nobody,              \* "source" of a byte that memset cleared
    NoApTitle,           \* the calling ApTitle element is absent or not valid
    Positions            \* the offsets and lengths a segment may claim

Sources == Messages \cup {OwnRequest}

\* What the segmenter reads of a message: its full length, and the calling
\* ApTitle and invocation id (the sequence) that identify a segmented one.
ASSUME SegmenterAssumption ==
    /\ Positions \subseteq Nat
    /\ Nobody \notin Sources
    /\ OwnRequest \notin Messages
    /\ OwnRequest.fullLength \in 1..MaxMessageLength
    /\ OwnRequest.segmented = FALSE
    /\ \A m \in Messages :
          /\ m.fullLength \in Nat \ {0}
          /\ m.sequence \in Nat
          /\ m.segmented \in BOOLEAN

-----------------------------------------------------------------------------
\* A received part of a message: a segment, or a whole unsegmented message.
\* The transport bounds an unsegmented message far below the buffer size.
Parts == {p \in [message : Messages, offset : Positions, length : Positions] :
            ~p.message.segmented =>
                /\ p.offset = 0
                /\ p.length = p.message.fullLength
                /\ p.length <= MaxMessageLength}

-----------------------------------------------------------------------------
Offsets == 0..(MaxMessageLength - 1)

\* C1222ALSegmenter_Init and C1222ALSegmenter_Clear.  Clear keeps the length of
\* the calling ApTitle, which is not read again before SetSegment assigns it.
Cleared ==
    [state                |-> "CLEAR",
     workingSequence      |-> 0,
     callingApTitle       |-> NoApTitle,
     workingMessageLength |-> 0,
     disjointSegments     |-> {},
     workingMessageBuffer |-> [b \in Offsets |-> Nobody]]

IsMessageComplete(s) ==
    \/ s.disjointSegments = {}
    \/ s.disjointSegments = {Interval(0, s.workingMessageLength)}

SameMessage(s, m) ==
    m.sequence = s.workingSequence /\ m.callingApTitle = s.callingApTitle

IsSegmentAlreadyReceived(s, p) ==
    /\ s.state # "CLEAR"
    /\ SameMessage(s, p.message)
    /\ isSegmentAlreadyReceived(s.disjointSegments, p.offset, p.length)

\* memcpy of a part into the working message buffer.
Write(buffer, p) ==
    [b \in Offsets |->
        IF p.offset <= b /\ b < p.offset + p.length THEN p.message ELSE buffer[b]]

-----------------------------------------------------------------------------
\* C1222ALSegmenter_SetSegment: the checks on the segment, the decision to
\* drop the message in progress, and the storing of the segment.

\* A mutation of SegmentIsValid: the end of the segment is not checked.
EndIsNotChecked(p) ==
    /\ p.offset < p.message.fullLength
    /\ p.length < p.message.fullLength
    /\ p.message.fullLength <= MaxMessageLength

SegmentIsValid(p) ==
    /\ p.offset < p.message.fullLength
    /\ p.length < p.message.fullLength
    /\ p.offset + p.length <= p.message.fullLength
    /\ p.message.fullLength <= MaxMessageLength

\* Mutations of Discarded: the table of the old message is kept; only the
\* sequence is compared.
TableIsNotCleared(s, m) ==
    IF s.state # "CLEAR" /\ ~SameMessage(s, m)
    THEN [Cleared EXCEPT !.disjointSegments = s.disjointSegments]
    ELSE s

OnlySequenceIsCompared(s, m) ==
    IF s.state # "CLEAR" /\ m.sequence # s.workingSequence THEN Cleared ELSE s

Discarded(s, m) ==
    IF s.state # "CLEAR" /\ ~SameMessage(s, m) THEN Cleared ELSE s

CanSetSegment(s, p) ==
    /\ SegmentIsValid(p)
    /\ HasRoom(Discarded(s, p.message).disjointSegments, Interval(p.offset, p.length))

Stored(s, p) ==
    [s EXCEPT !.workingSequence      = p.message.sequence,
              !.callingApTitle       = p.message.callingApTitle,
              !.workingMessageLength = p.message.fullLength,
              !.disjointSegments     =
                  manageDisjointSegmentInfo(@, Interval(p.offset, p.length)),
              !.workingMessageBuffer = Write(@, p)]

\* A mutation of SetSegment: the last segment does not change the state.
StaysOccupied(s, p) ==
    [Stored(Discarded(s, p.message), p) EXCEPT !.state = "OCCUPIED"]

SetSegment(s, p) ==
    LET stored == Stored(Discarded(s, p.message), p)
    IN  [stored EXCEPT !.state = IF IsMessageComplete(stored) THEN "COMPLETE" ELSE "OCCUPIED"]

-----------------------------------------------------------------------------
\* EndNewUnsegmentedMessage: one entry that ends with the message.  Only
\* nextOffset is assigned; the offset of entry 0 is what it was before.
FirstOffset(segments) ==
    IF segments = {} THEN 0 ELSE (CHOOSE s \in segments : TRUE).offset

EndNewUnsegmentedMessage(s, length) ==
    [s EXCEPT !.workingMessageLength = length,
              !.disjointSegments = {[offset     |-> FirstOffset(@),
                                     nextOffset |-> length]}]

WholeMessage(m) == [message |-> m, offset |-> 0, length |-> m.fullLength]

\* SetUnsegmentedRxMessage, then EndNewUnsegmentedMessage: a whole message is
\* copied into the buffer.  The state stays CLEAR.
SetUnsegmentedRxMessage(m) ==
    EndNewUnsegmentedMessage(
        [Cleared EXCEPT !.workingMessageBuffer = Write(@, WholeMessage(m))],
        m.fullLength)

\* StartNewUnsegmentedMessage .. EndNewUnsegmentedMessage: a request of this
\* node is built in the buffer.  Nothing is cleared first.
BuildOwnRequest(s) ==
    EndNewUnsegmentedMessage(
        [s EXCEPT !.workingMessageBuffer = Write(@, WholeMessage(OwnRequest))],
        OwnRequest.fullLength)

\* A mutation of IsPartial: whatever is not clear times out.
IsNotClear(s) == s.state # "CLEAR"

\* CancelPartialMessage and, after an hour, HandleSegmentTimeout.
IsPartial(s) == s.state = "OCCUPIED"

-----------------------------------------------------------------------------
\* C1222MessageReceiver_AddSegment: what it refuses, and what it stores.
TooLarge(p) == p.message.fullLength > MaxMessageLength

SegmentError(s, p) ==
    /\ p.message.segmented
    /\ ~IsSegmentAlreadyReceived(s, p)
    /\ ~CanSetSegment(s, p)

Accepts(s, p) == ~TooLarge(p) /\ ~SegmentError(s, p)

AddSegment(s, p) ==
    IF ~p.message.segmented THEN SetUnsegmentedRxMessage(p.message)
    ELSE IF IsSegmentAlreadyReceived(s, p) THEN s
    ELSE SetSegment(s, p)

-----------------------------------------------------------------------------
\* The values a segmenter takes.
ApTitles == {m.callingApTitle : m \in Sources} \cup {NoApTitle}

Segmenters ==
    [state                : {"CLEAR", "OCCUPIED", "COMPLETE"},
     workingSequence      : Nat,
     callingApTitle       : ApTitles,
     workingMessageLength : 0..MaxMessageLength,
     disjointSegments     : SUBSET Intervals,
     workingMessageBuffer : [Offsets -> Sources \cup {Nobody}]]

SegmentsSeparate(s) == Separate(s.disjointSegments)

\* A byte the table claims to have was written by some message: a message is
\* never completed over bytes that nobody sent.
CoverageIsWritten(s) ==
    \A a \in s.disjointSegments : \A b \in Offsets :
        a.offset <= b /\ b < a.nextOffset => s.workingMessageBuffer[b] # Nobody

\* While a message is being reassembled, every byte that came in a segment is
\* of the one message the segmenter is working on.
NoSegmentMixing(s) ==
    s.state # "CLEAR" =>
        \A b \in Offsets :
            LET m == s.workingMessageBuffer[b]
            IN  m \in Messages /\ m.segmented => SameMessage(s, m)

=============================================================================
