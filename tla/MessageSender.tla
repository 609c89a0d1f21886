----------------------------- MODULE MessageSender -----------------------------
(***************************************************************************)
(* How the application layer sends a message: C1222AL_SendMessage, the      *)
(* message sender of c1222al_messagesender.c and the transmit side of       *)
(* c1222al_segmenter.c, up to the peer's table of segments.                 *)
(*                                                                         *)
(* A call of C1222TL_SendACSEMessage blocks: `calling` is the function that *)
(* waits for it.  The transport takes one answer at a time, for whatever it *)
(* has pending, and an answer may come after its timeout.                   *)
(*                                                                         *)
(* What a message refused by SetUnsegmentedMessage leaves behind is kept: it *)
(* is the working message, with the split of the message before it.          *)
(***************************************************************************)
EXTENDS AcseFormat, DisjointSegments

CONSTANTS
    Outgoing,        \* the messages to send, by name
    FragmentSizes,   \* what the data link may have negotiated
    MaxSegmentedLength,  \* MAX_ACSE_SEGMENTED_MESSAGE_LENGTH, 158
    Retries,         \* C1222_APPLICATION_RETRIES, 1
    MaxFaults,       \* bound: sends that fail, refusals, lost answers and links
    MaxSends         \* bound: calls of C1222AL_SendMessage

VARIABLES
    state,                \* of the application layer: "idle" or "sending"
    working,              \* the name of workingMessage
    fragmentSize,
    numberOfSegments,
    segmentPayloadLength,
    workingSegmentIndex,
    triesLeft,
    calling,              \* who waits for the transport to send a segment
    timedOut,             \* sendStartTime is older than the send timeout
    pending,              \* the transport has a send request pending
    failureOwed,          \* the transport delays a failure it was answered
    replies,              \* the peer's answers on their way, oldest first
    received,             \* what the peer has of a message: its table
    whole,                \* the messages the peer has received whole
    refused,              \* the messages of which it refused a segment
    reported,             \* what the caller of the working message was told
    faults,
    sends

split == <<working, fragmentSize, numberOfSegments, segmentPayloadLength>>
place   == <<workingSegmentIndex, triesLeft, calling>>
link    == <<pending, failureOwed, replies>>
peer    == <<received, whole, refused>>
budgets == <<faults, sends>>
vars == <<state, split, place, timedOut, link, peer, reported, budgets>>

Names   == DOMAIN Outgoing
Nothing == "nothing"
NoSegments == [of |-> Nothing, table |-> {}]
Callers == {"SendMessage", "ContinueMessageSend", "NoteFailedSendMessage"}

-----------------------------------------------------------------------------
\* copyTagFromFullMessage: what every segment copies of the message, before and
\* behind the place where the 2008 standard puts the length of the message.
Copy(m, tag) == IF HasTag(m, tag) THEN <<Find(m, tag)>> ELSE <<>>

CopiedFirst(m) == Copy(m, "A1") \o Copy(m, "A2")
CopiedNext(m)  == Copy(m, "A6") \o Copy(m, "A7")
                      \o (IF m.standard = "2006" THEN <<>> ELSE Copy(m, "A8"))

\* ACSE_Message_GetSegmentedMessageHeaderLength.
HeaderLength(m) ==
    LengthOf(CopiedFirst(m)) + LengthOf(CopiedNext(m))
        + (IF m.standard = "2006" THEN 6 ELSE 5)
        + (IF FullLength(m) <= 255 THEN 0 ELSE IF m.standard = "2006" THEN 2 ELSE 1)

\* A mutation of OverheadLength: what stands before the data in the 2008
\* standard is forgotten.
OffsetIsFree(m, fragment) == HeaderLength(m) + 4 + 1 + SizeOfLength(fragment)

OverheadLength(m, fragment) ==
    HeaderLength(m)
        + (IF m.standard = "2006" THEN 4 ELSE 4 + 3 * SizeOfLength(fragment) + 1 + 2)
        + 1 + SizeOfLength(fragment)

IsWhole(m, fragment) == FullLength(m) <= fragment

CanBeSegmented(m, fragment) == IsWhole(m, fragment) \/ fragment > OverheadLength(m, fragment)

PayloadLength(m, fragment) == fragment - OverheadLength(m, fragment)

NumberOfSegments(m, fragment) ==
    IF IsWhole(m, fragment) THEN 1 ELSE (FullLength(m) - 1) \div PayloadLength(m, fragment) + 1

\* Where a split would put less in the first segment than the 60 and the length
\* of the message need, the code underflows.
SplitAssumption ==
    \A name \in Names, fragment \in FragmentSizes :
        LET m == Outgoing[name]
        IN  CanBeSegmented(m, fragment) /\ ~IsWhole(m, fragment) => PayloadLength(m, fragment) >= 4

\* A message to send is one that a node recognizes.
OutgoingAssumption ==
    \A name \in Names :
        LET m == Outgoing[name]
        IN  /\ m = Message(m.standard, m.elements)
            /\ m.elements \in Seq(ToSet(m.elements))
            /\ \A e \in ToSet(m.elements) : e = Element(e.tag, e.length, e.value) /\ e.length \in Nat
            /\ m.standard \in {"2006", "2008"}
            /\ StandardOf(m) = m.standard
            /\ FullLength(m) <= MaxMessageLength

ASSUME SenderAssumption ==
    /\ OutgoingAssumption
    /\ SplitAssumption
    /\ FragmentSizes \subseteq 1..MaxSegmentedLength
    /\ MaxSegmentedLength \in Nat
    /\ MaxMessageLength < 65536
    /\ Retries \in Nat
    /\ Nothing \notin Names

-----------------------------------------------------------------------------
\* C1222ALSegmenter_GetSegment.

\* A mutation of SegmentId: an offset that fits takes one byte.
OffsetIsAsShortAsItFits(m, offset) ==
    Element("A8", IF offset > 255 THEN 6 ELSE IF FullLength(m) > 255 THEN 5 ELSE 4,
            [id |-> CallingApInvocationId(m), offset |-> offset, fullLength |-> FullLength(m)])

SegmentId(m, offset) ==
    Element("A8", IF FullLength(m) > 255 THEN 6 ELSE 4,
            [id |-> CallingApInvocationId(m), offset |-> offset, fullLength |-> FullLength(m)])

SegmentFullLengthElement(m) == Element("A3", IF FullLength(m) < 256 THEN 3 ELSE 4, FullLength(m))

SegmentLength(m, payload, offset) ==
    IF FullLength(m) - offset > payload THEN payload ELSE FullLength(m) - offset

\* The part of the message, behind its offset in the 2008 standard.
SegmentData(m, offset, length) ==
    Element("BE",
            IF m.standard = "2006" THEN length
            ELSE Encoded((IF offset < 256 THEN 3 ELSE 4) + Encoded(length)),
            [standard |-> m.standard, offset |-> offset, dataLength |-> length])

\* What stands before the data.
SegmentHeader(m, offset) ==
    IF m.standard = "2006" THEN CopiedFirst(m) \o CopiedNext(m) \o <<SegmentId(m, offset)>>
    ELSE CopiedFirst(m) \o <<SegmentFullLengthElement(m)>> \o CopiedNext(m)

Segment(m, payload, index) ==
    LET offset == index * payload
    IN  Message(m.standard,
            SegmentHeader(m, offset)
                \o <<SegmentData(m, offset, SegmentLength(m, payload, offset))>>)

\* The room it asks for before it adds an element, which is more than most take.
RoomFor(e, standard) ==
    IF e.tag = "BE" THEN IF standard = "2006" THEN 4 + e.length ELSE Encoded(e.length)
    ELSE IF e.tag = "A8" /\ standard = "2006" THEN 8
    ELSE 6 + e.length

\* Its checks against the size of the buffer leave out the 60 and the length in
\* front, and what tells that a message of the 2008 standard is a segment.
ElementsFit(segment) ==
    \A i \in DOMAIN segment.elements :
        segment.elements[i].tag # "A3" =>
            LengthOf(SubSeq(segment.elements, 1, i - 1))
                + RoomFor(segment.elements[i], segment.standard) <= MaxSegmentedLength

\* Every segment of every message, for every split: TLC makes them once.
Splits   == {cut \in Names \X FragmentSizes :
                /\ CanBeSegmented(Outgoing[cut[1]], cut[2])
                /\ ~IsWhole(Outgoing[cut[1]], cut[2])}
Payloads == {PayloadLength(Outgoing[cut[1]], cut[2]) : cut \in Splits}
Indices  == UNION {0..NumberOfSegments(Outgoing[cut[1]], cut[2]) : cut \in Splits}

SegmentsOf == [cut \in Names \X Payloads \X Indices |-> Segment(Outgoing[cut[1]], cut[2], cut[3])]

WorkingMessage == Outgoing[working]

GetSegment == IF numberOfSegments = 1 THEN WorkingMessage
              ELSE SegmentsOf[<<working, segmentPayloadLength, workingSegmentIndex>>]

GetSegmentSucceeds ==
    \A segment \in {GetSegment} :
        IF numberOfSegments = 1 THEN workingSegmentIndex = 0 /\ FullLength(segment) <= MaxSegmentedLength
        ELSE ElementsFit(segment)

DataLinkTakesIt == \A segment \in {GetSegment} : FullLength(segment) <= fragmentSize

\* Beyond the end of the message a length wraps and the copy is undefined.
IsInMessage ==
    workingSegmentIndex > 0 => workingSegmentIndex * segmentPayloadLength < FullLength(WorkingMessage)

-----------------------------------------------------------------------------
\* A mutation of IsMessageComplete: the last segment is not waited for.
CountsFromOne == workingSegmentIndex + 1 >= numberOfSegments

\* C1222MessageSender_IsMessageComplete.
IsMessageComplete == workingSegmentIndex >= numberOfSegments

\* C1222MessageSender_ContinueSend: the next segment goes to the transport.
ContinueSend(who) == calling' = who

Report(what) == reported' = IF reported = "none" THEN what ELSE reported

\* A mutation of NoteLinkFailure: the failure is counted, the state stays.
FailureIsOnlyCounted == Report("failed") /\ UNCHANGED state

\* C1222AL_TL_NoteLinkFailure.
NoteLinkFailure == state' = "idle" /\ Report("failed")

\* A segment could not be sent, and the message is not sent again.
GiveUp(who) ==
    \/ who = "SendMessage" /\ Report("failed") /\ UNCHANGED state
    \/ who = "ContinueMessageSend" /\ UNCHANGED <<state, reported>>
    \/ who = "NoteFailedSendMessage" /\ NoteLinkFailure

\* A mutation of RestartSend: the tries are compared with zero too late.
OneTryTooMany(who) ==
    \/ /\ triesLeft >= 0
       /\ triesLeft' = triesLeft - 1
       /\ workingSegmentIndex' = 0
       /\ ContinueSend(who)
       /\ UNCHANGED <<state, reported>>
    \/ /\ triesLeft < 0
       /\ calling' = Nothing
       /\ GiveUp(who)
       /\ UNCHANGED <<workingSegmentIndex, triesLeft>>

\* C1222MessageSender_RestartSend, and what its caller does when no try is left.
RestartSend(who) ==
    \/ /\ triesLeft > 0
       /\ triesLeft' = triesLeft - 1
       /\ workingSegmentIndex' = 0
       /\ ContinueSend(who)
       /\ UNCHANGED <<state, reported>>
    \/ /\ triesLeft = 0
       /\ calling' = Nothing
       /\ GiveUp(who)
       /\ UNCHANGED <<workingSegmentIndex, triesLeft>>

\* C1222AL_TL_NoteFailedSendMessage.
NoteFailedSendMessage == RestartSend("NoteFailedSendMessage") /\ UNCHANGED split

-----------------------------------------------------------------------------
\* C1222AL_SendMessage, when the wait for the transport has ended.  An answer of
\* this node may replace a message it has half sent.  To the peer it is a new
\* message: it has another invocation id.
SendMessage(name, fragment) ==
    /\ calling = Nothing /\ ~pending /\ sends < MaxSends
    /\ working' = name
    /\ fragmentSize' = fragment
    /\ workingSegmentIndex' = 0
    /\ \/ /\ CanBeSegmented(Outgoing[name], fragment)
          /\ numberOfSegments' = NumberOfSegments(Outgoing[name], fragment)
          /\ segmentPayloadLength' = IF IsWhole(Outgoing[name], fragment) THEN segmentPayloadLength
                                     ELSE PayloadLength(Outgoing[name], fragment)
          /\ triesLeft' = Retries
          /\ ContinueSend("SendMessage")
          /\ reported' = "none"
       \/ /\ ~CanBeSegmented(Outgoing[name], fragment)
          /\ reported' = "failed"
          /\ UNCHANGED <<numberOfSegments, segmentPayloadLength, triesLeft, calling>>
    /\ received' = IF received.of = name THEN NoSegments ELSE received
    /\ whole' = whole \ {name}
    /\ refused' = refused \ {name}
    /\ sends' = sends + 1
    /\ UNCHANGED <<state, timedOut, link, faults>>

\* ContinueSend returns: the caller has succeeded, or nothing is left to try.
SegmentIsSent ==
    /\ workingSegmentIndex' = workingSegmentIndex + 1
    /\ calling' = Nothing
    /\ IF calling = "SendMessage" THEN state' = "sending" /\ timedOut' = FALSE
       ELSE UNCHANGED <<state, timedOut>>

\* ... because the segment could not be made.  The answer it then makes to a
\* message that is a response is left out.
GetSegmentFails ==
    /\ calling # Nothing /\ IsInMessage /\ ~GetSegmentSucceeds
    /\ calling' = Nothing
    /\ GiveUp(calling)
    /\ UNCHANGED <<split, workingSegmentIndex, triesLeft, timedOut, link, peer, budgets>>

\* The peer: the table of a message, with a segment of it.
Table(name) == IF received.of = name THEN received.table ELSE {}

DataLength(m) == Find(m, "BE").value.dataLength
Part(m)       == Interval(SegmentOffset(m), DataLength(m))

IsDuplicate(table, m) == isSegmentAlreadyReceived(table, SegmentOffset(m), DataLength(m))

Kept(table, m) == IF IsDuplicate(table, m) THEN table ELSE manageDisjointSegmentInfo(table, Part(m))

\* A segment is refused when the table is full, and when it is all of a message.
CanKeep(table, m) ==
    \/ IsDuplicate(table, m)
    \/ HasRoom(table, Part(m)) /\ DataLength(m) < SegmentFullLength(m)

IsWholeWith(table, m) == Kept(table, m) = {Interval(0, SegmentFullLength(m))}

\* C1222MessageReceiver_AddSegment.
AddSegment(name, m) ==
    LET table == Table(name)
    IN  IF numberOfSegments # 1 /\ ~CanKeep(table, m)
        THEN /\ replies' = Append(replies, "ERR")
             /\ refused' = refused \cup {name}
             /\ UNCHANGED <<received, whole>>
        ELSE /\ replies' = Append(replies, "OK")
             /\ IF numberOfSegments = 1 \/ IsWholeWith(table, m)
                THEN whole' = whole \cup {name} /\ received' = NoSegments
                ELSE received' = [of |-> name, table |-> Kept(table, m)] /\ UNCHANGED whole
             /\ UNCHANGED refused

\* C1222TL_SendACSEMessage returns TRUE: the request is pending, and the peer
\* will answer it.
TransportTakes ==
    /\ calling # Nothing /\ IsInMessage /\ GetSegmentSucceeds
    /\ DataLinkTakesIt
    /\ SegmentIsSent
    /\ pending' = TRUE
    /\ \/ /\ \E segment \in {GetSegment} : AddSegment(working, segment)
          /\ UNCHANGED faults
       \/ \E error \in {"NETR", "ERR"} :
             /\ faults < MaxFaults
             /\ replies' = Append(replies, error)
             /\ refused' = refused \cup {working}
             /\ faults' = faults + 1
             /\ UNCHANGED <<received, whole>>
    /\ UNCHANGED <<split, triesLeft, failureOwed, reported, sends>>

\* ... FALSE: the data link does not take a message of this length, or fails.
\* The peer may still have received it.
TransportFails ==
    /\ calling # Nothing /\ IsInMessage /\ GetSegmentSucceeds
    /\ \/ ~DataLinkTakesIt /\ UNCHANGED <<peer, replies, faults>>
       \/ /\ DataLinkTakesIt /\ faults < MaxFaults
          /\ faults' = faults + 1
          /\ \/ UNCHANGED <<peer, replies>>
             \/ \E segment \in {GetSegment} : AddSegment(working, segment)
    /\ RestartSend(calling)
    /\ UNCHANGED <<split, timedOut, pending, failureOwed, sends>>

\* ContinueMessageSend.
ContinueMessageSend ==
    IF IsMessageComplete
    THEN state' = "idle" /\ Report("complete") /\ UNCHANGED place
    ELSE ContinueSend("ContinueMessageSend") /\ UNCHANGED <<state, reported, workingSegmentIndex, triesLeft>>

\* ProcessResponseMessage of the transport.  A failure to reach the network is
\* reported later; an answer to no request is a failure of the link.
ReplyArrives ==
    /\ calling = Nothing /\ replies # <<>>
    /\ replies' = Tail(replies)
    /\ pending' = FALSE
    /\ \/ /\ Head(replies) = "OK" /\ pending /\ ContinueMessageSend
          /\ UNCHANGED <<split, failureOwed>>
       \/ /\ Head(replies) = "OK" /\ ~pending
          /\ UNCHANGED <<split, place, state, reported, failureOwed>>
       \/ /\ Head(replies) = "NETR" /\ pending /\ failureOwed' = TRUE
          /\ UNCHANGED <<split, place, state, reported>>
       \/ /\ Head(replies) = "ERR" /\ pending /\ NoteFailedSendMessage
          /\ UNCHANGED failureOwed
       \/ /\ Head(replies) # "OK" /\ ~pending /\ NoteLinkFailure
          /\ UNCHANGED <<split, place, failureOwed>>
    /\ UNCHANGED <<timedOut, peer, budgets>>

ReplyIsLost ==
    /\ replies # <<>> /\ faults < MaxFaults
    /\ replies' = Tail(replies)
    /\ faults' = faults + 1
    /\ UNCHANGED <<state, split, place, timedOut, pending, failureOwed, peer, reported, sends>>

\* AbortPendingRequest, when the answer has not come in time.
TransportTimesOut ==
    /\ calling = Nothing /\ pending
    /\ pending' = FALSE
    /\ NoteFailedSendMessage
    /\ UNCHANGED <<timedOut, failureOwed, replies, peer, budgets>>

\* C1222TL_Run reports the failure it has delayed.
ReportsOwedFailure ==
    /\ calling = Nothing /\ failureOwed
    /\ failureOwed' = FALSE
    /\ NoteFailedSendMessage
    /\ UNCHANGED <<timedOut, pending, replies, peer, budgets>>

\* The send timeout passes.  It is not started again with the message.
TimePasses ==
    /\ state = "sending" /\ ~timedOut
    /\ timedOut' = TRUE
    /\ UNCHANGED <<state, split, place, link, peer, reported, budgets>>

\* DeviceSendingMessage.
SendTimesOut ==
    /\ calling = Nothing /\ state = "sending" /\ timedOut
    /\ NoteFailedSendMessage
    /\ UNCHANGED <<timedOut, link, peer, budgets>>

\* The transport gives up the link, and what was pending on it.
LinkFails ==
    /\ calling = Nothing /\ faults < MaxFaults
    /\ pending' = FALSE
    /\ replies' = <<>>
    /\ NoteLinkFailure
    /\ faults' = faults + 1
    /\ UNCHANGED <<split, place, timedOut, failureOwed, peer, sends>>

-----------------------------------------------------------------------------
Init ==
    /\ state = "idle"
    /\ working = Nothing /\ fragmentSize = 0 /\ numberOfSegments = 0 /\ segmentPayloadLength = 0
    /\ workingSegmentIndex = 0 /\ triesLeft = 0 /\ calling = Nothing
    /\ timedOut = FALSE
    /\ pending = FALSE /\ failureOwed = FALSE /\ replies = <<>>
    /\ received = NoSegments /\ whole = {} /\ refused = {}
    /\ reported = "none"
    /\ faults = 0 /\ sends = 0

TransportReturns == GetSegmentFails \/ TransportTakes \/ TransportFails

Next ==
    \/ \E name \in Names, fragment \in FragmentSizes : SendMessage(name, fragment)
    \/ TransportReturns
    \/ ReplyArrives
    \/ ReplyIsLost
    \/ TransportTimesOut
    \/ ReportsOwedFailure
    \/ TimePasses
    \/ SendTimesOut
    \/ LinkFails

\* Every call of the transport returns, the time passes, and C1222AL_Run is called.
Fairness == []<>(calling = Nothing) /\ WF_timedOut(TimePasses) /\ WF_vars(SendTimesOut)

Spec == Init /\ [][Next]_vars /\ Fairness

-----------------------------------------------------------------------------
\* The values of the variables are in range.
TypeOK ==
    /\ state \in {"idle", "sending"}
    /\ working \in Names \cup {Nothing}
    /\ fragmentSize \in FragmentSizes \cup {0}
    /\ {numberOfSegments, segmentPayloadLength} \subseteq 0..MaxMessageLength
    /\ workingSegmentIndex \in 0..MaxMessageLength
    /\ triesLeft \in 0..Retries
    /\ calling \in Callers \cup {Nothing}
    /\ {timedOut, pending, failureOwed} \subseteq BOOLEAN
    /\ replies \in Seq({"OK", "NETR", "ERR"})
    /\ received.of \in Names \cup {Nothing}
    /\ Separate(received.table)
    /\ {whole, refused} \subseteq SUBSET Names
    /\ reported \in {"none", "complete", "failed"}

\* A message that was accepted for sending is cut into segments that lie in it,
\* that the buffer of 158 bytes holds, and that one message of the data link
\* carries: the split leaves room for whatever the header of a segment takes.
SegmentsFit ==
    calling # Nothing /\ reported = "none" =>
        IsInMessage /\ GetSegmentSucceeds /\ DataLinkTakesIt

\* The receiver takes a segment to be of the standard it was made in and to be a
\* segment, and reads back the offset and the length it was given.
SegmentsAreRecognized ==
    calling # Nothing /\ reported = "none" /\ numberOfSegments > 1 =>
        \A segment \in {GetSegment} :
            /\ StandardOf(segment) = WorkingMessage.standard
            /\ IsSegmented(segment)
            /\ SegmentOffset(segment) = workingSegmentIndex * segmentPayloadLength
            /\ SegmentFullLength(segment) = FullLength(WorkingMessage)
            /\ CallingApInvocationId(segment) = CallingApInvocationId(WorkingMessage)

\* A message that is reported as sent has been received whole, however it was
\* retried, unless the peer refused a segment of it: the answer to the one is
\* then taken for the answer to another.
CompleteIsReceived == reported = "complete" => working \in whole \cup refused

\* A message that is being sent is sent, or fails, or times out.
SendEnds == state = "sending" ~> state = "idle"

=============================================================================
