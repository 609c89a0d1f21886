--------------------------- MODULE ReceivePathProofs ---------------------------
(***************************************************************************)
(* The receive segmenter and the receive path of a device, for every set of  *)
(* peers and messages, every buffer length, every size of the table of       *)
(* disjoint segments, every depth of the waits inside one another, and       *)
(* whether the peers wait or not.  At the end, the array in which the table  *)
(* is kept, a machine of its own.                                           *)
(***************************************************************************)
EXTENDS ReceivePath, SegmentTable, DisjointSegmentsProofs, SequenceTheorems

-----------------------------------------------------------------------------
(* The operators of the segmenter *)

\* A segmenter in the clear state may hold an unsegmented message, or a request
\* of this node, but no byte that came in a segment.  This is what keeps
\* NoMixedSegments when SetSegment starts a message without clearing first.
ClearHoldsNoSegment(s) ==
    s.state = "CLEAR" =>
        \A b \in Offsets : s.workingMessageBuffer[b] \in Messages =>
                              ~s.workingMessageBuffer[b].segmented

Good(s) ==
    /\ s \in Segmenters
    /\ SegmentsSeparate(s)
    /\ CoverageIsWritten(s)
    /\ NoSegmentMixing(s)
    /\ ~IsMessageComplete(s) <=> IsPartial(s)
    /\ ClearHoldsNoSegment(s)

-----------------------------------------------------------------------------
\* The table of a segmenter.
LEMMA SeparateIsDisjoint ==
    ASSUME NEW s \in Segmenters, SegmentsSeparate(s)
    PROVE  Disjoint(s.disjointSegments)
BY DEF Segmenters, SegmentsSeparate, Separate, Disjoint

\* C1222ALSegmenter_Clear leaves a good segmenter.
LEMMA ClearedIsGood == Good(Cleared)
<1>1. IsFiniteSet({}) /\ Cardinality({}) = 0
  BY FS_EmptySet
<1>2. Separate({})
  BY <1>1, BufferAssumption DEF Separate
<1>3. Cleared \in Segmenters
  BY BufferAssumption DEF Cleared, Segmenters, ApTitles
<1>4. Nobody \notin Messages
  BY SegmenterAssumption DEF Sources
<1> QED BY <1>2, <1>3, <1>4 DEF Good, Cleared, SegmentsSeparate, CoverageIsWritten,
     NoSegmentMixing, IsMessageComplete, IsPartial, ClearHoldsNoSegment, Offsets

\* A copied part is of its message, and leaves the other bytes alone.
LEMMA WriteIsPointwise ==
    ASSUME NEW buffer \in [Offsets -> Sources \cup {Nobody}], NEW p, p.message \in Sources
    PROVE  /\ Write(buffer, p) \in [Offsets -> Sources \cup {Nobody}]
           /\ \A b \in Offsets :
                 Write(buffer, p)[b] = IF p.offset <= b /\ b < p.offset + p.length
                                       THEN p.message ELSE buffer[b]
BY DEF Write

\* What a part says of its message.
LEMMA PartIsTyped ==
    ASSUME NEW p \in Parts
    PROVE  /\ p.message \in Messages
           /\ p.message \in Sources
           /\ p.offset \in Nat
           /\ p.length \in Nat
           /\ p.message.fullLength \in Nat \ {0}
           /\ p.message.sequence \in Nat
           /\ p.message.segmented \in BOOLEAN
           /\ p.message.callingApTitle \in ApTitles
BY SegmenterAssumption DEF Parts, Sources, ApTitles

\* An unsegmented message, or a request of this node, in place of the buffer's
\* first bytes.
LEMMA WholeMessageIsGood ==
    ASSUME NEW s \in Segmenters, NEW m \in Sources,
           m.fullLength \in 1..MaxMessageLength, m.segmented = FALSE,
           NoSegmentMixing(s), ClearHoldsNoSegment(s), ~IsPartial(s),
           FirstOffset(s.disjointSegments) = 0
    PROVE  Good(EndNewUnsegmentedMessage(
                   [s EXCEPT !.workingMessageBuffer = Write(@, WholeMessage(m))],
                   m.fullLength))
<1> DEFINE buffer == Write(s.workingMessageBuffer, WholeMessage(m))
<1> DEFINE entry == [offset |-> 0, nextOffset |-> m.fullLength]
<1> DEFINE t == EndNewUnsegmentedMessage(
                   [s EXCEPT !.workingMessageBuffer = Write(@, WholeMessage(m))],
                   m.fullLength)
<1>1. /\ t.state = s.state
      /\ t.workingSequence = s.workingSequence
      /\ t.callingApTitle = s.callingApTitle
      /\ t.workingMessageLength = m.fullLength
      /\ t.disjointSegments = {entry}
      /\ t.workingMessageBuffer = buffer
      /\ DOMAIN t = DOMAIN s
  BY DEF EndNewUnsegmentedMessage, Segmenters
<1>2. /\ buffer \in [Offsets -> Sources \cup {Nobody}]
      /\ \A b \in Offsets : buffer[b] = IF b < m.fullLength THEN m ELSE s.workingMessageBuffer[b]
  <2>1. s.workingMessageBuffer \in [Offsets -> Sources \cup {Nobody}]
    BY DEF Segmenters
  <2> QED BY <2>1, WriteIsPointwise, BufferAssumption DEF WholeMessage, Offsets
<1>3. entry \in Intervals /\ entry.offset <= entry.nextOffset
  BY BufferAssumption DEF Intervals
<1>4. t \in Segmenters
  <2> DEFINE u == [s EXCEPT !.workingMessageBuffer = Write(@, WholeMessage(m))]
  <2> HIDE DEF entry
  <2>1. u \in Segmenters
    BY <1>2 DEF Segmenters
  <2>2. FirstOffset(u.disjointSegments) = 0
    BY DEF Segmenters
  <2>3. t = [u EXCEPT !.workingMessageLength = m.fullLength, !.disjointSegments = {entry}]
    BY <2>2 DEF EndNewUnsegmentedMessage, entry
  <2>4. m.fullLength \in 0..MaxMessageLength
    BY BufferAssumption
  <2>5. {entry} \in SUBSET Intervals
    BY <1>3
  <2> HIDE DEF u, t
  <2>6. [u EXCEPT !.workingMessageLength = m.fullLength, !.disjointSegments = {entry}] \in Segmenters
    BY <2>1, <2>4, <2>5 DEF Segmenters
  <2> QED BY <2>3, <2>6
<1> HIDE DEF t, buffer
<1>5. SegmentsSeparate(t)
  BY <1>1, <1>3, OneEntryIsSeparate DEF SegmentsSeparate
<1>6. CoverageIsWritten(t)
  BY <1>1, <1>2, SegmenterAssumption DEF CoverageIsWritten
<1>7. NoSegmentMixing(t)
  BY <1>1, <1>2 DEF NoSegmentMixing, SameMessage
<1>8. IsMessageComplete(t) /\ ~IsPartial(t)
  BY <1>1, BufferAssumption DEF IsMessageComplete, IsPartial, Interval
<1>9. ClearHoldsNoSegment(t)
  BY <1>1, <1>2 DEF ClearHoldsNoSegment
<1>10. Good(t)
  BY <1>4, <1>5, <1>6, <1>7, <1>8, <1>9 DEF Good
<1> QED BY <1>10 DEF t

\* The interval of a segment that passed SetSegment's checks.
LEMMA ValidSegmentIsInterval ==
    ASSUME NEW p \in Parts, SegmentIsValid(p)
    PROVE  IsSegment(Interval(p.offset, p.length))
BY PartIsTyped, BufferAssumption DEF SegmentIsValid, IsSegment, Interval, Intervals

\* What the segmenter works on is dropped unless the segment continues it.
LEMMA DiscardedIsGood ==
    ASSUME NEW s, Good(s), NEW m
    PROVE  /\ Good(Discarded(s, m))
           /\ Discarded(s, m).state # "CLEAR" => SameMessage(Discarded(s, m), m)
BY ClearedIsGood DEF Discarded, Cleared

\* The table after a segment is stored.
LEMMA StoredTable ==
    ASSUME NEW d, Good(d), NEW p \in Parts, SegmentIsValid(p),
           HasRoom(d.disjointSegments, Interval(p.offset, p.length))
    PROVE  LET table == manageDisjointSegmentInfo(d.disjointSegments,
                                                  Interval(p.offset, p.length))
           IN  Separate(table) /\ table \in SUBSET Intervals
<1>1. Disjoint(d.disjointSegments) /\ Separate(d.disjointSegments)
  BY SeparateIsDisjoint DEF Good, SegmentsSeparate
<1>2. IsSegment(Interval(p.offset, p.length))
  BY ValidSegmentIsInterval
<1> QED BY <1>1, <1>2, InsertIsDisjoint, InsertFits DEF Separate, Disjoint

\* The record SetSegment leaves, field by field.
LEMMA SetSegmentFields ==
    ASSUME NEW s, Good(s), NEW p \in Parts, CanSetSegment(s, p)
    PROVE  LET d == Discarded(s, p.message)
               t == SetSegment(s, p)
           IN  /\ t \in Segmenters
               /\ t.state = IF IsMessageComplete(t) THEN "COMPLETE" ELSE "OCCUPIED"
               /\ SameMessage(t, p.message)
               /\ t.disjointSegments = manageDisjointSegmentInfo(d.disjointSegments,
                                                        Interval(p.offset, p.length))
               /\ t.workingMessageBuffer = Write(d.workingMessageBuffer, p)
<1> DEFINE d == Discarded(s, p.message)
<1> DEFINE table == manageDisjointSegmentInfo(d.disjointSegments, Interval(p.offset, p.length))
<1> DEFINE buffer == Write(d.workingMessageBuffer, p)
<1> DEFINE u == Stored(d, p)
<1> DEFINE t == SetSegment(s, p)
<1>1. Good(d) /\ d \in Segmenters
  BY DiscardedIsGood DEF Good
<1>2. SegmentIsValid(p) /\ HasRoom(d.disjointSegments, Interval(p.offset, p.length))
  BY DEF CanSetSegment
<1> HIDE DEF d
<1>3. table \in SUBSET Intervals
  BY <1>1, <1>2, StoredTable
<1>4. buffer \in [Offsets -> Sources \cup {Nobody}]
  BY <1>1, PartIsTyped, WriteIsPointwise DEF Segmenters
<1>5. /\ p.message.sequence \in Nat
      /\ p.message.callingApTitle \in ApTitles
      /\ p.message.fullLength \in 0..MaxMessageLength
  BY <1>2, PartIsTyped, BufferAssumption DEF SegmentIsValid
<1>6. /\ u.workingSequence = p.message.sequence
      /\ u.callingApTitle = p.message.callingApTitle
      /\ u.disjointSegments = table
      /\ u.workingMessageBuffer = buffer
      /\ u \in Segmenters
  <2> DEFINE v == [d EXCEPT !.workingSequence      = p.message.sequence,
                            !.callingApTitle       = p.message.callingApTitle,
                            !.workingMessageLength = p.message.fullLength,
                            !.disjointSegments     = table,
                            !.workingMessageBuffer = buffer]
  <2>1. u = v
    BY DEF Stored
  <2> HIDE DEF table, buffer, u
  <2>2. v \in Segmenters
    BY <1>1, <1>3, <1>4, <1>5 DEF Segmenters
  <2>3. /\ v.workingSequence = p.message.sequence
        /\ v.callingApTitle = p.message.callingApTitle
        /\ v.disjointSegments = table
        /\ v.workingMessageBuffer = buffer
    BY <1>1 DEF Segmenters
  <2> QED BY <2>1, <2>2, <2>3
<1>7. t = [u EXCEPT !.state = IF IsMessageComplete(u) THEN "COMPLETE" ELSE "OCCUPIED"]
  BY DEF SetSegment, d
<1> HIDE DEF table, buffer, u, t
<1>8. /\ t \in Segmenters
      /\ t.state = IF IsMessageComplete(u) THEN "COMPLETE" ELSE "OCCUPIED"
      /\ t.workingSequence = u.workingSequence
      /\ t.callingApTitle = u.callingApTitle
      /\ t.workingMessageLength = u.workingMessageLength
      /\ t.disjointSegments = u.disjointSegments
      /\ t.workingMessageBuffer = u.workingMessageBuffer
  BY <1>6, <1>7 DEF Segmenters
<1>9. IsMessageComplete(t) <=> IsMessageComplete(u)
  BY <1>8 DEF IsMessageComplete
<1> QED BY <1>6, <1>8, <1>9 DEF SameMessage, t, table, buffer, d

\* SetSegment leaves a good segmenter.
LEMMA SetSegmentIsGood ==
    ASSUME NEW s, Good(s), NEW p \in Parts, p.message.segmented, CanSetSegment(s, p)
    PROVE  Good(SetSegment(s, p))
<1> DEFINE d == Discarded(s, p.message)
<1> DEFINE new == Interval(p.offset, p.length)
<1> DEFINE t == SetSegment(s, p)
<1>1. Good(d) /\ (d.state # "CLEAR" => SameMessage(d, p.message))
  BY DiscardedIsGood
<1>2. SegmentIsValid(p) /\ HasRoom(d.disjointSegments, new)
  BY DEF CanSetSegment
<1>3. /\ t \in Segmenters
      /\ t.state = IF IsMessageComplete(t) THEN "COMPLETE" ELSE "OCCUPIED"
      /\ SameMessage(t, p.message)
      /\ t.disjointSegments = manageDisjointSegmentInfo(d.disjointSegments, new)
      /\ t.workingMessageBuffer = Write(d.workingMessageBuffer, p)
  BY SetSegmentFields
<1> HIDE DEF d, t
<1>4. \A b \in Offsets : t.workingMessageBuffer[b] =
          IF p.offset <= b /\ b < p.offset + p.length THEN p.message
          ELSE d.workingMessageBuffer[b]
  BY <1>1, <1>3, PartIsTyped, WriteIsPointwise DEF Good, Segmenters
<1>5. SegmentsSeparate(t)
  BY <1>1, <1>2, <1>3, StoredTable DEF SegmentsSeparate
<1>6. CoverageIsWritten(t)
  <2> SUFFICES ASSUME NEW a \in t.disjointSegments, NEW b \in Offsets,
                      a.offset <= b, b < a.nextOffset
               PROVE  t.workingMessageBuffer[b] # Nobody
    BY DEF CoverageIsWritten
  <2>1. Disjoint(d.disjointSegments) /\ IsSegment(new)
    BY <1>1, <1>2, SeparateIsDisjoint, ValidSegmentIsInterval DEF Good
  <2>2. b \in Int
    BY BufferAssumption DEF Offsets
  <2>3. PICK c \in d.disjointSegments \cup {new} : c.offset <= b /\ b < c.nextOffset
    BY <1>3, <2>1, <2>2, InsertClaimsNoMore
  <2>4. CASE c = new
    BY <1>4, <2>3, <2>4, PartIsTyped, SegmenterAssumption DEF Interval
  <2>5. CASE c \in d.disjointSegments
    BY <1>1, <1>4, <2>3, <2>5, PartIsTyped, SegmenterAssumption DEF Good, CoverageIsWritten
  <2> QED BY <2>3, <2>4, <2>5
<1>7. NoSegmentMixing(t)
  <2> SUFFICES ASSUME NEW b \in Offsets, t.workingMessageBuffer[b] \in Messages,
                      t.workingMessageBuffer[b].segmented
               PROVE  SameMessage(t, t.workingMessageBuffer[b])
    BY DEF NoSegmentMixing
  <2>1. CASE t.workingMessageBuffer[b] = p.message
    BY <1>3, <2>1
  <2>2. CASE t.workingMessageBuffer[b] = d.workingMessageBuffer[b]
    <3>1. d.state # "CLEAR"
      BY <1>1, <2>2 DEF Good, ClearHoldsNoSegment
    <3>2. SameMessage(d, t.workingMessageBuffer[b])
      BY <1>1, <2>2, <3>1 DEF Good, NoSegmentMixing
    <3> QED BY <1>1, <1>3, <3>1, <3>2 DEF SameMessage
  <2> QED BY <1>4, <2>1, <2>2
<1>8. ~IsMessageComplete(t) <=> IsPartial(t)
  BY <1>3 DEF IsPartial
<1>9. ClearHoldsNoSegment(t)
  BY <1>3 DEF ClearHoldsNoSegment
<1>10. Good(t)
  BY <1>3, <1>5, <1>6, <1>7, <1>8, <1>9 DEF Good
<1> QED BY <1>10 DEF t

\* C1222MessageReceiver_AddSegment leaves a good segmenter.
LEMMA AddSegmentIsGood ==
    ASSUME NEW s, Good(s), NEW p \in Parts, Accepts(s, p)
    PROVE  Good(AddSegment(s, p))
<1>1. CASE p.message.segmented
  <2>1. CASE IsSegmentAlreadyReceived(s, p)
    BY <1>1, <2>1 DEF AddSegment
  <2>2. CASE ~IsSegmentAlreadyReceived(s, p)
    <3>1. CanSetSegment(s, p)
      BY <1>1, <2>2 DEF Accepts, SegmentError
    <3> QED BY <1>1, <2>2, <3>1, SetSegmentIsGood DEF AddSegment
  <2> QED BY <2>1, <2>2
<1>2. CASE ~p.message.segmented
  <2>1. AddSegment(s, p) = EndNewUnsegmentedMessage(
            [Cleared EXCEPT !.workingMessageBuffer = Write(@, WholeMessage(p.message))],
            p.message.fullLength)
    BY <1>2 DEF AddSegment, SetUnsegmentedRxMessage
  <2>2. FirstOffset(Cleared.disjointSegments) = 0 /\ ~IsPartial(Cleared)
    BY DEF Cleared, FirstOffset, IsPartial
  <2>3. /\ p.message \in Sources
        /\ p.message.fullLength \in 1..MaxMessageLength
        /\ p.message.segmented = FALSE
    BY <1>2, PartIsTyped, BufferAssumption DEF Accepts, TooLarge
  <2>4. Cleared \in Segmenters /\ NoSegmentMixing(Cleared) /\ ClearHoldsNoSegment(Cleared)
    BY ClearedIsGood DEF Good
  <2> QED BY <2>1, <2>2, <2>3, <2>4, WholeMessageIsGood
<1> QED BY <1>1, <1>2

\* A registration request is only built where no message is partial, so entry 0
\* of the table begins at 0.
LEMMA BuildIsGood ==
    ASSUME NEW s, Good(s), IsMessageComplete(s)
    PROVE  Good(BuildOwnRequest(s))
<1>1. FirstOffset(s.disjointSegments) = 0
  BY DEF IsMessageComplete, FirstOffset, Interval
<1>2. OwnRequest \in Sources
  BY DEF Sources
<1> QED BY <1>1, <1>2, WholeMessageIsGood, SegmenterAssumption DEF BuildOwnRequest, Good

-----------------------------------------------------------------------------
\* A step from s to t in which a partial message stays the one in progress, and
\* loses a byte it had.
Forgets(s, t) ==
    /\ IsPartial(s)
    /\ t.state # "CLEAR"
    /\ t.workingSequence = s.workingSequence
    /\ t.callingApTitle = s.callingApTitle
    /\ ~\A a \in s.disjointSegments : \E c \in t.disjointSegments :
          c.offset <= a.offset /\ a.nextOffset <= c.nextOffset

LEMMA AddForgetsNothing ==
    ASSUME NEW s, Good(s), NEW p \in Parts, Accepts(s, p)
    PROVE  ~Forgets(s, AddSegment(s, p))
<1> SUFFICES ASSUME Forgets(s, AddSegment(s, p)) PROVE FALSE
  OBVIOUS
<1>1. Disjoint(s.disjointSegments)
  BY SeparateIsDisjoint DEF Good
<1>2. \A a \in s.disjointSegments : a.offset \in Int /\ a.nextOffset \in Int
  BY <1>1, BufferAssumption DEF Disjoint, Intervals
<1>3. p.message.segmented
  <2> SUFFICES ASSUME ~p.message.segmented PROVE FALSE
    OBVIOUS
  <2>1. AddSegment(s, p).state = "CLEAR"
    BY DEF AddSegment, SetUnsegmentedRxMessage, EndNewUnsegmentedMessage, Cleared
  <2> QED BY <2>1 DEF Forgets
<1>4. ~IsSegmentAlreadyReceived(s, p)
  BY <1>2, <1>3 DEF AddSegment, Forgets
<1>5. CanSetSegment(s, p) /\ AddSegment(s, p) = SetSegment(s, p)
  BY <1>3, <1>4 DEF Accepts, SegmentError, AddSegment
<1>6. SameMessage(s, p.message)
  BY <1>5, SetSegmentFields DEF Forgets, SameMessage
<1>7. SetSegment(s, p).disjointSegments =
          manageDisjointSegmentInfo(s.disjointSegments, Interval(p.offset, p.length))
  BY <1>5, <1>6, SetSegmentFields DEF Discarded
<1>8. IsSegment(Interval(p.offset, p.length))
  BY <1>5, ValidSegmentIsInterval DEF CanSetSegment
<1> QED BY <1>1, <1>5, <1>7, <1>8, InsertForgetsNothing DEF Forgets

-----------------------------------------------------------------------------
(* The receive segmenter, whatever the order of the calls *)

\* The inductive invariant: the five invariants that the model checker checks,
\* and ClearHoldsNoSegment.
SegmenterInv == Good(segmenter)

LEMMA CallKeepsGood ==
    ASSUME SegmenterInv, [SegmenterNext]_segmenter
    PROVE  SegmenterInv'
<1>1. ASSUME NEW p \in Parts, Add(p)
      PROVE  SegmenterInv'
  BY <1>1, AddSegmentIsGood DEF Add, SegmenterInv
<1>2. CASE Clear
  BY <1>2, ClearedIsGood DEF Clear, SegmenterInv
<1>3. CASE Build
  BY <1>3, BuildIsGood DEF Build, SegmenterInv
<1>4. CASE UNCHANGED segmenter
  BY <1>4 DEF SegmenterInv
<1> QED BY <1>1, <1>2, <1>3, <1>4 DEF SegmenterNext

\* The inductive invariant: the five invariants the model checker checks and
\* ClearHoldsNoSegment hold together after every call.
THEOREM SegmenterInvariant == SegmenterSpec => []SegmenterInv
<1>1. SegmenterInit => SegmenterInv
  BY ClearedIsGood DEF SegmenterInit, SegmenterInv
<1> QED BY <1>1, CallKeepsGood, PTL DEF SegmenterSpec

\* C1222ALSegmenter: no call leaves a length or an interval of the table that
\* does not fit the buffer, or a state the code does not have.
THEOREM SegmenterIsTyped == SegmenterSpec => []SegmenterTypeOK
<1>1. SegmenterInv => SegmenterTypeOK
  BY DEF SegmenterInv, Good, SegmenterTypeOK
<1> QED BY <1>1, SegmenterInvariant, PTL

\* manageDisjointSegmentInfo: the entries of the table never touch and never
\* outgrow the array.
THEOREM SegmenterTableIsSeparate == SegmenterSpec => []TableIsSeparate
<1>1. SegmenterInv => TableIsSeparate
  BY DEF SegmenterInv, Good, TableIsSeparate
<1> QED BY <1>1, SegmenterInvariant, PTL

\* C1222ALSegmenter_IsMessageComplete: a message is not complete over bytes
\* that nothing wrote since the last Clear.
THEOREM SegmenterDeliversNoGap == SegmenterSpec => []NoGapIsDelivered
<1>1. SegmenterInv => NoGapIsDelivered
  BY DEF SegmenterInv, Good, NoGapIsDelivered
<1> QED BY <1>1, SegmenterInvariant, PTL

\* C1222ALSegmenter_SetSegment: segments of two messages are never in the
\* buffer of a message being reassembled.
THEOREM SegmenterNoMixedSegments == SegmenterSpec => []NoMixedSegments
<1>1. SegmenterInv => NoMixedSegments
  BY DEF SegmenterInv, Good, NoMixedSegments
<1> QED BY <1>1, SegmenterInvariant, PTL

\* C1222ALSegmenter_HandleSegmentTimeout: what keeps the application layer
\* busy is exactly what times out.
THEOREM SegmenterIncompleteTimesOut == SegmenterSpec => []IncompleteTimesOut
<1>1. SegmenterInv => IncompleteTimesOut
  BY DEF SegmenterInv, Good, IncompleteTimesOut
<1> QED BY <1>1, SegmenterInvariant, PTL

\* C1222ALSegmenter_SetSegment: the part of a message that was received stays
\* received until the segmenter is cleared or taken by another message.
THEOREM SegmenterForgetsNothing == SegmenterSpec => NothingReceivedIsLost
<1> DEFINE Keeps == ~Forgets(segmenter, segmenter')
<1>1. ASSUME SegmenterInv, [SegmenterNext]_segmenter PROVE [Keeps]_segmenter
  <2>1. ASSUME NEW p \in Parts, Add(p) PROVE Keeps
    BY <1>1, <2>1, AddForgetsNothing DEF Add, SegmenterInv
  <2>2. CASE Clear
    BY <2>2 DEF Clear, Cleared, Forgets
  <2>3. CASE Build
    BY <1>1, <2>3 DEF Build, SegmenterInv, Good, Forgets
  <2> QED BY <1>1, <2>1, <2>2, <2>3 DEF SegmenterNext
<1>2. ASSUME [Keeps]_segmenter
      PROVE  [IsPartial(segmenter) /\ segmenter'.state # "CLEAR"
              /\ segmenter'.workingSequence = segmenter.workingSequence
              /\ segmenter'.callingApTitle = segmenter.callingApTitle =>
                 \A a \in segmenter.disjointSegments : \E c \in segmenter'.disjointSegments :
                     c.offset <= a.offset /\ a.nextOffset <= c.nextOffset]_segmenter
  BY <1>2 DEF Forgets
<1> QED BY <1>1, <1>2, SegmenterInvariant, PTL DEF SegmenterSpec, NothingReceivedIsLost

-----------------------------------------------------------------------------
(* The receive path *)

\* Every step of the path is a call of the segmenter, or leaves it alone.
LEMMA AppendedPartIsAdded ==
    ASSUME NEW p \in Parts, Accepts(segmenter, p), segmenter' = AddSegment(segmenter, p)
    PROVE  SegmenterNext
BY DEF SegmenterNext, Add

LEMMA ClearedIsStep ==
    ASSUME segmenter' = Cleared
    PROVE  SegmenterNext
BY DEF SegmenterNext, Clear

LEMMA ArrivalIsSegmenterStep ==
    ASSUME NEW p \in Parts, Arrival(p)
    PROVE  [SegmenterNext]_segmenter
<1>1. CASE ReceiveTooLarge(p)
  BY <1>1 DEF ReceiveTooLarge, receiver
<1>2. CASE ReceiveSegmentError(p)
  BY <1>2 DEF ReceiveSegmentError
<1>3. CASE ReceivePart(p)
  BY <1>3, AppendedPartIsAdded DEF ReceivePart, Receive
<1>4. CASE ReceiveUnverified(p)
  BY <1>4, AppendedPartIsAdded DEF ReceiveUnverified, Receive
<1>5. CASE ReceiveRegistrationResponse(p)
  BY <1>5, ClearedIsStep DEF ReceiveRegistrationResponse
<1>6. CASE ReceivePlainText(p)
  <2>1. segmenter' = AddSegment(segmenter, p) \/ segmenter' = Cleared
    BY <1>6 DEF ReceivePlainText, SegmenterAfter
  <2>2. Accepts(segmenter, p)
    BY <1>6 DEF ReceivePlainText, Receive
  <2> QED BY <2>1, <2>2, AppendedPartIsAdded, ClearedIsStep
<1>7. CASE ReceiveForApplication(p)
  BY <1>7, AppendedPartIsAdded DEF ReceiveForApplication, Receive
<1> QED BY <1>1, <1>2, <1>3, <1>4, <1>5, <1>6, <1>7 DEF Arrival

LEMMA StepIsSegmenterStep ==
    ASSUME [Next]_vars
    PROVE  [SegmenterNext]_segmenter
<1>1. CASE \E p \in Parts : Arrival(p)
  BY <1>1, ArrivalIsSegmenterStep
<1>2. CASE TakeMessage
  BY <1>2 DEF TakeMessage, receiver
<1>3. CASE Reply("reply") \/ Reply("error") \/ Dismiss
  BY <1>3, ClearedIsStep DEF Reply, Dismiss, NoteHandlingComplete
<1>4. CASE WaitReturns
  <2>1. segmenter' = segmenter \/ segmenter' = Cleared
    BY <1>4 DEF WaitReturns, SegmenterAfter
  <2> QED BY <2>1, ClearedIsStep
<1>5. CASE RequestCompletes \/ LinkFails \/ PowerUp \/ LinkReady
  BY <1>5 DEF RequestCompletes, LinkFails, PowerUp, LinkReady, receiver
<1>6. CASE DeviceRequests \/ RestartSend \/ SendTimesOut \/ RegistrationTimesOut
  BY <1>6 DEF DeviceRequests, RestartSend, SendTimesOut, RegistrationTimesOut, receiver
<1>7. CASE SendRegistrationRequest
  BY <1>7 DEF SendRegistrationRequest, CanRegister, SegmenterNext, Build
<1>8. CASE DropPartialMessage \/ ReInit
  BY <1>8, ClearedIsStep DEF DropPartialMessage, ReInit
<1>9. CASE UNCHANGED vars
  BY <1>9 DEF vars, receiver
<1> QED BY <1>1, <1>2, <1>3, <1>4, <1>5, <1>6, <1>7, <1>8, <1>9 DEF Next, AppNext, DeviceNext

\* C1222AL_TLMessageReceived and everything that runs inside its waits: the
\* receive segmenter sees only the calls of ReceiveSegmenter, with the guard of
\* the registration request kept, in whatever order they interleave.
THEOREM PathImplementsSegmenter == Spec => ImplementsSegmenter
<1>1. Init => SegmenterInit
  BY DEF Init, SegmenterInit
<1> QED BY <1>1, StepIsSegmenterStep, PTL DEF Spec, ImplementsSegmenter, SegmenterSpec

-----------------------------------------------------------------------------
\* The inductive invariant of the path: the segmenter is good, and the flags
\* that decide whether the transport refuses messages agree.
PathInv == Good(segmenter) /\ TypeOK /\ NETROnlyWhileHandling

LEMMA SegmenterStaysGood ==
    ASSUME Good(segmenter), [Next]_vars
    PROVE  Good(segmenter)'
BY CallKeepsGood, StepIsSegmenterStep DEF SegmenterInv

\* The addresses and the messages that a response can name.
LEMMA PartHasSender ==
    ASSUME NEW p \in Parts
    PROVE  p.message.from \in Nodes
BY PartIsTyped, ReceivePathAssumption

SendingTyped ==
    /\ alState \in {"IDLE", "SENDING", "REGISTERING"}
    /\ transport \in {"free", "request", "down"}
    /\ messageSent \in BOOLEAN
    /\ waits \in Seq(Responses)
    /\ answer \in Answers

LEMMA StartSendIsTyped ==
    ASSUME TypeOK, NEW r \in Responses, nativeAddress' \in Nodes \cup {NoNode}, StartSend(r)
    PROVE  /\ alState' \in {"IDLE", "SENDING", "REGISTERING"}
           /\ transport' \in {"free", "request", "down"}
           /\ messageSent' \in BOOLEAN
           /\ answer' \in Answers
<1>1. [to |-> nativeAddress', for |-> r.for, why |-> r.why] \in Answers
  BY DEF Responses, Answers
<1>2. CASE UNCHANGED <<answer, alState, transport, messageSent>>
  BY <1>2 DEF TypeOK
<1>3. CASE /\ answer' = [to |-> nativeAddress', for |-> r.for, why |-> r.why]
           /\ alState' = "SENDING"
           /\ transport' = "request"
           /\ messageSent' = IF r.why = "reply" THEN TRUE ELSE messageSent
  BY <1>1, <1>3 DEF TypeOK
<1> QED BY <1>2, <1>3 DEF StartSend

LEMMA SendMessageIsTyped ==
    ASSUME TypeOK, NEW r \in Responses, nativeAddress' \in Nodes \cup {NoNode}, SendMessage(r)
    PROVE  SendingTyped'
<1>1. CASE TransportBusy
  <2>1. waits' \in Seq(Responses)
    BY <1>1 DEF SendMessage, TypeOK
  <2> QED BY <1>1, <2>1 DEF SendMessage, TypeOK, SendingTyped
<1>2. CASE ~TransportBusy
  BY <1>2, StartSendIsTyped DEF SendMessage, SendingTyped, TypeOK
<1> QED BY <1>1, <1>2

LEMMA ArrivalKeepsType ==
    ASSUME TypeOK, segmenter' \in Segmenters, NEW p \in Parts, Arrival(p)
    PROVE  TypeOK'
<1> DEFINE Told(why, then) == Response(p.message.from, why, then)
<1>1. \A why \in Reasons : \A then \in {"notPending", "clear", "none"} :
          Told(why, then) \in Responses
  BY PartHasSender DEF Response, Responses
<1>2. p.message.from \in Nodes \cup {NoNode}
  BY PartHasSender
<1>3. ASSUME NEW why \in Reasons, Refuse(p, why), nativeAddress' \in Nodes \cup {NoNode}
      PROVE  TypeOK'
  <2>1. SendingTyped'
    BY <1>1, <1>3, SendMessageIsTyped DEF Refuse
  <2> QED BY <1>3, <2>1 DEF Refuse, TypeOK, SendingTyped, procedure
<1>4. CASE ReceiveTooLarge(p)
  BY <1>3, <1>4 DEF ReceiveTooLarge, Reasons, receiver, TypeOK
<1>5. CASE ReceiveSegmentError(p)
  BY <1>2, <1>3, <1>5 DEF ReceiveSegmentError, Reasons
<1>6. CASE ReceivePart(p)
  BY <1>2, <1>6 DEF ReceivePart, Receive, TypeOK, procedure, app, sending
<1>7. CASE ReceiveUnverified(p)
  BY <1>2, <1>3, <1>7 DEF ReceiveUnverified, Receive, Reasons
<1>8. CASE ReceiveRegistrationResponse(p)
  BY <1>2, <1>8 DEF ReceiveRegistrationResponse, Receive, TypeOK, procedure, app
<1>9. CASE ReceivePlainText(p)
  <2>1. SendingTyped'
    BY <1>1, <1>2, <1>9, SendMessageIsTyped DEF ReceivePlainText, Receive, Reasons
  <2> QED BY <1>2, <1>9, <2>1 DEF ReceivePlainText, Receive, TypeOK, SendingTyped, procedure
<1>10. CASE ReceiveForApplication(p)
  BY <1>2, <1>10 DEF ReceiveForApplication, Receive, TypeOK, procedure, app, sending
<1> QED BY <1>4, <1>5, <1>6, <1>7, <1>8, <1>9, <1>10 DEF Arrival

LEMMA AppKeepsType ==
    ASSUME TypeOK, segmenter' \in Segmenters, AppNext
    PROVE  TypeOK'
<1>1. CASE TakeMessage
  <2>1. FirstByte(segmenter) \in Sources \cup {Nobody}
    BY BufferAssumption DEF TypeOK, Segmenters, FirstByte, Offsets
  <2> QED BY <1>1, <2>1 DEF TakeMessage, TypeOK, receiver, procedure, sending
<1>2. ASSUME NEW why \in Reasons, Reply(why)
      PROVE  TypeOK'
  <2>1. Requester \in Nodes \cup {NoNode}
    BY ReceivePathAssumption DEF Requester, TypeOK, Sources
  <2>2. Response(Requester, why, "none") \in Responses
    BY <2>1 DEF Response, Responses
  <2>3. SendingTyped'
    BY <1>2, <2>2, SendMessageIsTyped DEF Reply, NoteHandlingComplete, TypeOK
  <2> QED BY <1>2, <2>3 DEF Reply, DoneServing, NoteHandlingComplete, TypeOK, SendingTyped,
                           procedure
<1>3. CASE Dismiss
  BY <1>3 DEF Dismiss, DoneServing, NoteHandlingComplete, TypeOK, sending, procedure
<1> QED BY <1>1, <1>2, <1>3 DEF AppNext, Reasons

LEMMA WaitKeepsType ==
    ASSUME TypeOK, segmenter' \in Segmenters, WaitReturns
    PROVE  TypeOK'
<1> DEFINE r == waits[Len(waits)]
<1>1. waits \in Seq(Responses) /\ waits # <<>>
  BY DEF TypeOK, WaitReturns
<1>2. r \in Responses
  BY <1>1
<1>3. Popped \in Seq(Responses)
  BY <1>1 DEF Popped
<1>4. nativeAddress' \in Nodes \cup {NoNode}
  BY DEF TypeOK, WaitReturns
<1>5. /\ alState' \in {"IDLE", "SENDING", "REGISTERING"}
      /\ transport' \in {"free", "request", "down"}
      /\ messageSent' \in BOOLEAN
      /\ answer' \in Answers
  <2>1. CASE StartSend(r)
    BY <1>2, <1>4, <2>1, StartSendIsTyped
  <2>2. CASE UNCHANGED <<answer, alState, transport, messageSent>>
    BY <2>2 DEF TypeOK
  <2> QED BY <2>1, <2>2 DEF WaitReturns
<1> QED BY <1>3, <1>4, <1>5 DEF WaitReturns, TypeOK, PendingAfter, flags, procedure

LEMMA TransportKeepsType ==
    ASSUME TypeOK, segmenter' \in Segmenters,
           RequestCompletes \/ LinkFails \/ PowerUp \/ LinkReady
    PROVE  TypeOK'
<1>1. CASE RequestCompletes
  BY <1>1 DEF RequestCompletes, AfterSend, TypeOK, receiver, flags, procedure, app
<1>2. CASE LinkFails
  BY <1>2 DEF LinkFails, TypeOK, receiver, flags, procedure, app
<1>3. CASE PowerUp
  BY <1>3 DEF PowerUp, TypeOK, receiver, flags, procedure, app
<1>4. CASE LinkReady
  BY <1>4 DEF LinkReady, TypeOK, receiver, flags, procedure, app
<1> QED BY <1>1, <1>2, <1>3, <1>4

LEMMA DeviceKeepsType ==
    ASSUME TypeOK, segmenter' \in Segmenters, DeviceNext
    PROVE  TypeOK'
<1>1. CASE DeviceRequests
  BY <1>1 DEF DeviceRequests, TypeOK, receiver, flags, procedure, app
<1>2. CASE SendRegistrationRequest
  BY <1>2 DEF SendRegistrationRequest, TypeOK, flags, app
<1>3. CASE RestartSend \/ SendTimesOut
  BY <1>3 DEF RestartSend, SendTimesOut, TypeOK, receiver, flags, procedure, app
<1>4. CASE RegistrationTimesOut
  BY <1>4 DEF RegistrationTimesOut, TypeOK, receiver, flags, app
<1>5. CASE DropPartialMessage
  BY <1>5 DEF DropPartialMessage, TypeOK, flags, procedure, app, sending
<1>6. CASE ReInit
  BY <1>6 DEF ReInit, TypeOK, app
<1> QED BY <1>1, <1>2, <1>3, <1>4, <1>5, <1>6 DEF DeviceNext

LEMMA StepKeepsType ==
    ASSUME TypeOK, segmenter' \in Segmenters, [Next]_vars
    PROVE  TypeOK'
<1>1. CASE UNCHANGED vars
  BY <1>1 DEF vars, receiver, flags, procedure, app, sending, TypeOK
<1> QED BY <1>1, ArrivalKeepsType, AppKeepsType, WaitKeepsType, TransportKeepsType,
           DeviceKeepsType DEF Next

\* Only C1222AL_NoteReceivedCompleteMessage makes the transport owe an answer,
\* and the flags it sets stay until the application takes its turn.
LEMMA StepKeepsNETR ==
    ASSUME NETROnlyWhileHandling, [Next]_vars
    PROVE  NETROnlyWhileHandling'
<1> USE DEF NETROnlyWhileHandling
<1>1. ASSUME NEW p \in Parts, Arrival(p)
      PROVE  NETROnlyWhileHandling'
  <2>1. CASE ReceiveForApplication(p)
    BY <2>1 DEF ReceiveForApplication
  <2>2. CASE ~ReceiveForApplication(p)
    <3>1. ~okResponsePending
      BY <1>1, <2>2 DEF Arrival, ReceiveTooLarge, ReceiveSegmentError, ReceivePart, Receive,
         ReceiveUnverified, ReceiveRegistrationResponse, ReceivePlainText, CanArrive
    <3>2. okResponsePending' = okResponsePending
      BY <1>1, <2>2 DEF Arrival, ReceiveTooLarge, ReceiveSegmentError, ReceivePart,
         ReceiveUnverified, ReceiveRegistrationResponse, ReceivePlainText, Refuse
    <3> QED BY <3>1, <3>2
  <2> QED BY <2>1, <2>2
<1>2. CASE TakeMessage
  BY <1>2 DEF TakeMessage
<1>3. CASE Reply("reply") \/ Reply("error") \/ Dismiss
  BY <1>3 DEF Reply, Dismiss, NoteHandlingComplete
<1>4. CASE WaitReturns
  BY <1>4 DEF WaitReturns, PendingAfter, flags
<1>5. CASE RequestCompletes \/ LinkFails \/ PowerUp \/ LinkReady
  BY <1>5 DEF RequestCompletes, LinkFails, PowerUp, LinkReady, flags, app
<1>6. CASE DeviceNext
  BY <1>6 DEF DeviceNext, DeviceRequests, SendRegistrationRequest, RestartSend,
     SendTimesOut, RegistrationTimesOut, DropPartialMessage, ReInit, flags, app
<1>7. CASE UNCHANGED vars
  BY <1>7 DEF vars, flags, app
<1> QED BY <1>1, <1>2, <1>3, <1>4, <1>5, <1>6, <1>7 DEF Next, AppNext

LEMMA InitEstablishesPathInv == Init => PathInv
<1> SUFFICES ASSUME Init PROVE PathInv
  OBVIOUS
<1>1. Good(segmenter) /\ segmenter \in Segmenters
  BY ClearedIsGood DEF Init, Good
<1>2. NETROnlyWhileHandling
  BY DEF Init, NETROnlyWhileHandling
<1>3. answer \in Answers
  BY DEF Init, Answers
<1>4. waits \in Seq(Responses)
  BY DEF Init
<1>5. TypeOK
  BY <1>1, <1>3, <1>4 DEF Init, TypeOK
<1> QED BY <1>1, <1>2, <1>5 DEF PathInv

THEOREM PathInvariant == Spec => []PathInv
<1>1. ASSUME PathInv, [Next]_vars PROVE PathInv'
  <2>1. Good(segmenter)'
    BY <1>1, SegmenterStaysGood DEF PathInv
  <2>2. segmenter' \in Segmenters
    BY <2>1 DEF Good
  <2>3. TypeOK' /\ NETROnlyWhileHandling'
    BY <1>1, <2>2, StepKeepsType, StepKeepsNETR DEF PathInv
  <2> QED BY <2>1, <2>3 DEF PathInv
<1> QED BY <1>1, InitEstablishesPathInv, PTL DEF Spec

\* C1222AL_TLMessageReceived: the flags, the addresses and the stack of waits
\* only take values the code has.
THEOREM PathTypeOK == Spec => []TypeOK
<1>1. PathInv => TypeOK
  BY DEF PathInv
<1> QED BY <1>1, PathInvariant, PTL

\* C1222TL_ProcessReceivedSendMessageRequest answers NETR only while the
\* application has a message to take or to finish.
THEOREM PathNETROnlyWhileHandling == Spec => []NETROnlyWhileHandling
<1>1. PathInv => NETROnlyWhileHandling
  BY DEF PathInv
<1> QED BY <1>1, PathInvariant, PTL

-----------------------------------------------------------------------------
\* What the path promises to peers that wait: their messages reach the device
\* while its transport is free and nothing waits for it.

\* The application has a message from the moment the transport owes the OK of it
\* until the flag is reset, and the buffer holds it as long.
HoldsWhatIsOwed ==
    /\ okResponsePending <=> responsePending
    /\ okResponsePending <=> receivedMessageComplete \/ appState = "serving"
    /\ receivedMessageComplete => appState # "serving"
    /\ okResponsePending =>
          /\ waits = <<>>
          /\ ~handlingComplete
          /\ segmenter.disjointSegments # {}
          /\ IsMessageComplete(segmenter)
    /\ \A i \in 1..Len(waits) : waits[i].then = "none"

OrderInv == PathInv /\ HoldsWhatIsOwed

-----------------------------------------------------------------------------
\* What AddSegment leaves in the table.
LEMMA UnsegmentedFields ==
    ASSUME NEW m \in Messages, m.fullLength \in 1..MaxMessageLength
    PROVE  LET t == SetUnsegmentedRxMessage(m)
           IN  /\ t.disjointSegments = {Interval(0, m.fullLength)}
               /\ t.workingMessageLength = m.fullLength
<1> DEFINE u == [Cleared EXCEPT !.workingMessageBuffer = Write(@, WholeMessage(m))]
<1> DEFINE t == SetUnsegmentedRxMessage(m)
<1>1. u.disjointSegments = {}
  BY DEF Cleared
<1>2. FirstOffset(u.disjointSegments) = 0
  BY <1>1 DEF FirstOffset
<1>3. t = [u EXCEPT !.workingMessageLength = m.fullLength,
                    !.disjointSegments = {[offset |-> FirstOffset(@), nextOffset |-> m.fullLength]}]
  BY DEF SetUnsegmentedRxMessage, EndNewUnsegmentedMessage
<1>4. {"workingMessageLength", "disjointSegments"} \subseteq DOMAIN u
  BY DEF Cleared
<1> HIDE DEF u, t
<1>5. /\ t.disjointSegments = {[offset |-> 0, nextOffset |-> m.fullLength]}
      /\ t.workingMessageLength = m.fullLength
  BY <1>1, <1>2, <1>3, <1>4
<1> QED BY <1>5 DEF Interval, t

LEMMA AcceptedFits ==
    ASSUME NEW s, NEW p \in Parts, Accepts(s, p)
    PROVE  p.message.fullLength \in 1..MaxMessageLength
BY PartIsTyped, BufferAssumption DEF Accepts, TooLarge

\* After AddSegment the buffer holds something.
LEMMA AddedIsHeld ==
    ASSUME NEW s, NEW p \in Parts, Good(s), Accepts(s, p)
    PROVE  AddSegment(s, p).disjointSegments # {}
<1>1. CASE ~p.message.segmented
  BY <1>1, AcceptedFits, PartIsTyped, UnsegmentedFields DEF AddSegment
<1>2. CASE p.message.segmented /\ IsSegmentAlreadyReceived(s, p)
  BY <1>2 DEF AddSegment, IsSegmentAlreadyReceived, isSegmentAlreadyReceived
<1>3. CASE p.message.segmented /\ ~IsSegmentAlreadyReceived(s, p)
  <2>1. CanSetSegment(s, p)
    BY <1>3 DEF Accepts, SegmentError
  <2>2. AddSegment(s, p) = SetSegment(s, p)
    BY <1>3 DEF AddSegment
  <2>3. AddSegment(s, p).disjointSegments =
            manageDisjointSegmentInfo(Discarded(s, p.message).disjointSegments,
                                      Interval(p.offset, p.length))
    BY <2>1, <2>2, SetSegmentFields
  <2>4. \A S, a : manageDisjointSegmentInfo(S, a) # {}
    BY DEF manageDisjointSegmentInfo
  <2> QED BY <2>3, <2>4
<1> QED BY <1>1, <1>2, <1>3

-----------------------------------------------------------------------------
\* Under PeersWait a message arrives only where nothing is owed and nothing waits.
LEMMA ArrivesAlone ==
    ASSUME PeersWait, OrderInv, NEW p \in Parts, CanArrive(p)
    PROVE  /\ ~okResponsePending /\ ~responsePending
           /\ ~receivedMessageComplete /\ appState = "looking"
           /\ waits = <<>> /\ ~TransportBusy
BY DEF OrderInv, PathInv, TypeOK, HoldsWhatIsOwed, CanArrive

\* Where nothing is owed, little is asked of the rest.
LEMMA NothingOwed ==
    ASSUME ~okResponsePending', ~responsePending', ~receivedMessageComplete',
           appState' = "looking", waits' = <<>>
    PROVE  HoldsWhatIsOwed'
<1>1. Len(waits') = 0
  OBVIOUS
<1> QED BY <1>1 DEF HoldsWhatIsOwed

LEMMA ArrivalKeepsOrder ==
    ASSUME PeersWait, OrderInv, NEW p \in Parts, Arrival(p)
    PROVE  HoldsWhatIsOwed'
<1> DEFINE s == AddSegment(segmenter, p)
<1>1. /\ ~okResponsePending /\ ~responsePending
      /\ ~receivedMessageComplete /\ appState = "looking"
      /\ waits = <<>> /\ ~TransportBusy
  BY ArrivesAlone DEF Arrival, ReceiveTooLarge, ReceiveSegmentError, ReceivePart, Receive,
     ReceiveUnverified, ReceiveRegistrationResponse, ReceivePlainText, ReceiveForApplication
<1>2. Good(segmenter)
  BY DEF OrderInv, PathInv
<1>3. ASSUME NEW r, SendMessage(r)
      PROVE  waits' = <<>>
  BY <1>1, <1>3 DEF SendMessage
<1>4. CASE ReceiveTooLarge(p) \/ ReceiveSegmentError(p) \/ ReceiveUnverified(p)
  <2>1. PICK why : Refuse(p, why)
    BY <1>4 DEF ReceiveTooLarge, ReceiveSegmentError, ReceiveUnverified
  <2> QED BY <1>1, <1>3, <2>1, NothingOwed DEF Refuse
<1>5. CASE ReceivePart(p)
  BY <1>1, <1>5, NothingOwed DEF ReceivePart, app, sending
<1>6. CASE ReceiveRegistrationResponse(p)
  BY <1>1, <1>6, NothingOwed DEF ReceiveRegistrationResponse, app
<1>7. CASE ReceivePlainText(p)
  BY <1>1, <1>3, <1>7, NothingOwed DEF ReceivePlainText
<1>8. CASE ReceiveForApplication(p)
  <2>1. /\ Accepts(segmenter, p) /\ IsMessageComplete(s) /\ segmenter' = s
        /\ ~handlingComplete' /\ receivedMessageComplete'
        /\ responsePending' /\ okResponsePending'
        /\ UNCHANGED <<appState, waits>>
    BY <1>8 DEF ReceiveForApplication, Receive, app, sending
  <2>2. s.disjointSegments # {}
    BY <1>2, <2>1, AddedIsHeld
  <2> HIDE DEF s
  <2>3. IsMessageComplete(segmenter')
    BY <2>1
  <2>4. Len(waits') = 0
    BY <1>1, <2>1
  <2> QED BY <1>1, <2>1, <2>2, <2>3, <2>4 DEF HoldsWhatIsOwed
<1> QED BY <1>4, <1>5, <1>6, <1>7, <1>8 DEF Arrival

\* The application takes the message that is announced, and answers the one it
\* serves.
LEMMA AppKeepsOrder ==
    ASSUME OrderInv, AppNext
    PROVE  HoldsWhatIsOwed'
<1>1. HoldsWhatIsOwed /\ TypeOK
  BY DEF OrderInv, PathInv
<1>2. CASE TakeMessage
  <2>1. /\ waits = <<>> /\ receivedMessageComplete /\ appState = "looking"
        /\ ~receivedMessageComplete' /\ appState' = "serving"
        /\ UNCHANGED <<segmenter, handlingComplete, responsePending, waits, okResponsePending>>
    BY <1>2 DEF TakeMessage, InRun, receiver, sending
  <2>2. IsMessageComplete(segmenter) => IsMessageComplete(segmenter')
    BY <2>1
  <2> QED BY <1>1, <2>1, <2>2 DEF HoldsWhatIsOwed
<1>3. ASSUME Serving, DoneServing, NoteHandlingComplete
      PROVE  /\ waits = <<>> /\ appState' = "looking"
             /\ ~receivedMessageComplete' /\ ~okResponsePending' /\ ~responsePending'
  BY <1>1, <1>3 DEF Serving, DoneServing, NoteHandlingComplete, HoldsWhatIsOwed
<1>4. ASSUME NEW why \in {"reply", "error"}, Reply(why)
      PROVE  HoldsWhatIsOwed'
  <2> DEFINE r == Response(Requester, why, "none")
  <2>1. Serving /\ DoneServing /\ NoteHandlingComplete /\ SendMessage(r)
    BY <1>4 DEF Reply
  <2>2. r.then = "none"
    BY DEF Response
  <2>3. r \in Responses
    <3>1. Requester \in Nodes \cup {NoNode}
      BY <1>1, ReceivePathAssumption DEF Requester, TypeOK, Sources
    <3> QED BY <3>1 DEF Response, Responses, Reasons
  <2> HIDE DEF r
  <2>4. waits' = <<>> \/ waits' = Append(waits, r)
    BY <1>3, <2>1 DEF SendMessage
  <2>5. \A i \in 1..Len(waits') : waits'[i] = r
    <3>1. CASE waits' = <<>>
      BY <3>1
    <3>2. CASE waits' = Append(waits, r)
      <4>1. Len(waits) = 0 /\ waits \in Seq(Responses)
        BY <1>1, <1>3, <2>1 DEF TypeOK
      <4> QED BY <2>3, <3>2, <4>1
    <3> QED BY <2>4, <3>1, <3>2
  <2> QED BY <1>3, <2>1, <2>2, <2>5 DEF HoldsWhatIsOwed
<1>5. CASE Dismiss
  BY <1>3, <1>5, NothingOwed DEF Dismiss, sending
<1> QED BY <1>2, <1>4, <1>5 DEF AppNext

\* Only replies wait, and a reply leaves nothing to do when its wait returns.
LEMMA WaitKeepsOrder ==
    ASSUME OrderInv, WaitReturns
    PROVE  HoldsWhatIsOwed'
<1> DEFINE r == waits[Len(waits)]
<1>1. HoldsWhatIsOwed /\ waits \in Seq(Responses)
  BY DEF OrderInv, PathInv, TypeOK
<1>2. waits # <<>> /\ Len(waits) \in 1..Len(waits)
  BY <1>1 DEF WaitReturns
<1>3. r.then = "none"
  BY <1>1, <1>2 DEF HoldsWhatIsOwed
<1>4. /\ UNCHANGED <<segmenter, okResponsePending, receivedMessageComplete,
                     handlingComplete, responsePending, appState>>
      /\ waits' = SubSeq(waits, 1, Len(waits) - 1)
  BY <1>3 DEF WaitReturns, SegmenterAfter, PendingAfter, flags, Popped
<1>5. ~okResponsePending
  BY <1>1, <1>2 DEF HoldsWhatIsOwed
<1> HIDE DEF r
<1>6. \A i \in 1..Len(waits') : i \in 1..Len(waits) /\ waits'[i] = waits[i]
  <2>1. Len(waits) \in Nat /\ Len(waits) >= 1
    BY <1>1, <1>2
  <2>2. \A i \in 1..(Len(waits) - 1) : waits[i] \in Responses
    BY <1>1, <2>1
  <2> DEFINE n == Len(waits) - 1
  <2>3. n \in Nat /\ waits' = SubSeq(waits, 1, n)
    BY <1>4, <2>1
  <2> HIDE DEF n
  <2>4. \A i \in 1..n : waits[i] \in Responses
    BY <2>2 DEF n
  <2>5. Len(SubSeq(waits, 1, n)) = IF 1 <= n THEN n - 1 + 1 ELSE 0
    BY <2>3, <2>4, SubSeqProperties
  <2>6. \A i \in 1 .. n - 1 + 1 : SubSeq(waits, 1, n)[i] = waits[1 + i - 1]
    BY <2>3, <2>4, SubSeqProperties
  <2>7. Len(waits') = n /\ \A i \in 1..n : waits'[i] = waits[i]
    BY <2>3, <2>5, <2>6
  <2> QED BY <2>1, <2>7 DEF n
<1> QED BY <1>1, <1>4, <1>5, <1>6 DEF HoldsWhatIsOwed

\* The transport, and the timers of a send, do not touch the message.
LEMMA QuietStepKeepsOrder ==
    ASSUME OrderInv,
           UNCHANGED <<receiver, receivedMessageComplete, handlingComplete, responsePending,
                       appState, waits, okResponsePending>>
    PROVE  HoldsWhatIsOwed'
BY DEF OrderInv, HoldsWhatIsOwed, receiver

LEMMA DeviceKeepsOrder ==
    ASSUME OrderInv, DeviceNext
    PROVE  HoldsWhatIsOwed'
<1>1. HoldsWhatIsOwed /\ Good(segmenter) /\ appState \in {"looking", "serving"}
  BY DEF OrderInv, PathInv, TypeOK
<1>2. CASE DeviceRequests \/ RestartSend \/ SendTimesOut \/ RegistrationTimesOut
  BY <1>2, QuietStepKeepsOrder
     DEF DeviceRequests, RestartSend, SendTimesOut, RegistrationTimesOut, flags, app
<1>3. CASE SendRegistrationRequest
  <2>1. /\ waits = <<>> /\ appState = "looking" /\ ~receivedMessageComplete
        /\ UNCHANGED <<receivedMessageComplete, responsePending, appState, waits,
                       okResponsePending>>
    BY <1>3 DEF SendRegistrationRequest, CanRegister, InRun, flags, app
  <2>2. ~okResponsePending /\ ~responsePending
    BY <1>1, <2>1 DEF HoldsWhatIsOwed
  <2> QED BY <2>1, <2>2, NothingOwed
<1>4. CASE DropPartialMessage
  <2>1. /\ waits = <<>> /\ appState = "looking" /\ IsPartial(segmenter)
        /\ UNCHANGED <<receivedMessageComplete, responsePending, appState, waits,
                       okResponsePending>>
    BY <1>4 DEF DropPartialMessage, InRun, flags, app, sending
  <2>2. ~okResponsePending /\ ~responsePending /\ ~receivedMessageComplete
    BY <1>1, <2>1 DEF HoldsWhatIsOwed, Good
  <2> QED BY <2>1, <2>2, NothingOwed
<1>5. CASE ReInit
  BY <1>5, NothingOwed DEF ReInit, InRun, app
<1> QED BY <1>2, <1>3, <1>4, <1>5 DEF DeviceNext

LEMMA StepKeepsOrder ==
    ASSUME PeersWait, OrderInv, [Next]_vars
    PROVE  OrderInv'
<1>1. PathInv'
  <2>1. Good(segmenter)'
    BY SegmenterStaysGood DEF OrderInv, PathInv
  <2>2. segmenter' \in Segmenters
    BY <2>1 DEF Good
  <2> QED BY <2>1, <2>2, StepKeepsType, StepKeepsNETR DEF OrderInv, PathInv
<1>2. CASE RequestCompletes \/ LinkFails \/ PowerUp \/ LinkReady \/ UNCHANGED vars
  BY <1>1, <1>2, QuietStepKeepsOrder
     DEF RequestCompletes, LinkFails, PowerUp, LinkReady, vars, flags, app, sending, OrderInv
<1> QED BY <1>1, <1>2, ArrivalKeepsOrder, AppKeepsOrder, WaitKeepsOrder, DeviceKeepsOrder
        DEF Next, OrderInv

LEMMA InitEstablishesOrder == Init => OrderInv
<1> SUFFICES ASSUME Init PROVE OrderInv
  OBVIOUS
<1>1. PathInv
  BY InitEstablishesPathInv
<1>2. HoldsWhatIsOwed
  BY DEF Init, HoldsWhatIsOwed
<1> QED BY <1>1, <1>2 DEF OrderInv

THEOREM OrderInvariant == PeersWait => (Spec => []OrderInv)
<1> SUFFICES ASSUME PeersWait PROVE Spec => []OrderInv
  OBVIOUS
<1> QED BY InitEstablishesOrder, StepKeepsOrder, PTL DEF Spec

\* C1222Stack_MessageReceived: when peers wait for the device, a message that is
\* announced to the application, or served by it, is complete and still in the
\* buffer, so no arrival, timer or request of the device got there first.
THEOREM PathAvailableIsHeld == PeersWait => (Spec => []AvailableIsHeld)
<1>1. OrderInv => AvailableIsHeld
  BY DEF OrderInv, HoldsWhatIsOwed, AvailableIsHeld
<1> QED BY <1>1, OrderInvariant, PTL

\* C1222AL_TLMessageReceived clears the flag at every arrival: when peers wait,
\* the only message it takes from the application is one already taken.
THEOREM PathAcceptedIsTaken == PeersWait => (Spec => AcceptedIsTaken)
<1>1. ASSUME PeersWait, OrderInv, receivedMessageComplete, ~receivedMessageComplete',
             [Next]_vars
      PROVE  TakeMessage \/ ReInit
  <2>1. ASSUME NEW p \in Parts PROVE ~Arrival(p)
    BY <1>1, ArrivesAlone DEF Arrival, ReceiveTooLarge, ReceiveSegmentError, ReceivePart,
       Receive, ReceiveUnverified, ReceiveRegistrationResponse, ReceivePlainText,
       ReceiveForApplication
  <2>2. ~(Reply("reply") \/ Reply("error") \/ Dismiss)
    BY <1>1 DEF Reply, Dismiss, NoteHandlingComplete
  <2>3. ~(WaitReturns \/ RequestCompletes \/ LinkFails \/ PowerUp \/ LinkReady)
    BY <1>1 DEF WaitReturns, RequestCompletes, LinkFails, PowerUp, LinkReady, flags
  <2>4. ~(\/ DeviceRequests \/ SendRegistrationRequest \/ RestartSend \/ SendTimesOut
          \/ RegistrationTimesOut \/ DropPartialMessage)
    BY <1>1 DEF DeviceRequests, SendRegistrationRequest, RestartSend, SendTimesOut,
       RegistrationTimesOut, DropPartialMessage, flags
  <2>5. ~UNCHANGED vars
    BY <1>1 DEF vars, flags
  <2> QED BY <1>1, <2>1, <2>2, <2>3, <2>4, <2>5 DEF Next, AppNext, DeviceNext
<1> SUFFICES ASSUME PeersWait PROVE Spec => AcceptedIsTaken
  OBVIOUS
<1>2. OrderInv /\ [Next]_vars =>
          [receivedMessageComplete /\ ~receivedMessageComplete' => TakeMessage \/ ReInit]_vars
  BY <1>1
<1> QED BY <1>2, OrderInvariant, PTL DEF Spec, AcceptedIsTaken

-----------------------------------------------------------------------------
(* The array of the table *)

\* The array as SegmentTable keeps it: entries that neither overlap nor touch, which
\* fit in it.
ArrayInv == IsTable(disjointSegments) /\ Len(disjointSegments) <= MaxDisjointSegments

\* What the specification of the set says of it, in the terms of the lemmas.
LEMMA SetOperators ==
    ASSUME NEW segments, NEW new
    PROVE  /\ Set!HasRoom(segments, new) = HasRoom(segments, new)
           /\ Set!manageDisjointSegmentInfo(segments, new) =
                 manageDisjointSegmentInfo(segments, new)
<1>1. Set!HasRoom(segments, new) = HasRoom(segments, new)
  BY DEF Set!HasRoom, HasRoom, Set!Touches, Touches, Set!Cardinality, Cardinality
<1> QED BY <1>1 DEF Set!manageDisjointSegmentInfo, manageDisjointSegmentInfo,
     Set!Touches, Touches, Set!Hull, Hull, Set!Min, Min, Set!Max, Max

\* Offering a segment keeps the array, and does to it what SegmentSet does to the set.
LEMMA InsertImplements ==
    ASSUME ArrayInv, NEW offset \in 0..MaxMessageLength, NEW length \in 0..MaxMessageLength,
           offset + length <= MaxMessageLength, InsertSegment(offset, length)
    PROVE  /\ ArrayInv'
           /\ LET new == Interval(offset, length)
              IN  /\ added' = new
                  /\ accepted' = HasRoom(ToSet(disjointSegments), new)
                  /\ ToSet(disjointSegments') =
                        IF HasRoom(ToSet(disjointSegments), new)
                        THEN manageDisjointSegmentInfo(ToSet(disjointSegments), new)
                        ELSE ToSet(disjointSegments)
<1> DEFINE new == Interval(offset, length)
<1> DEFINE table == disjointSegments
<1> DEFINE ii == FirstTouched(table, new)
<1>1. IsSegment(new)
  BY BufferAssumption DEF IsSegment, Interval, Intervals
<1>2. IsTable(table) /\ Len(table) \in Nat /\ Len(table) <= MaxDisjointSegments
  BY DEF ArrayInv, IsTable
<1>3. /\ added' = new
      /\ \/ ii # 0 /\ table' = Merged(table, ii, new) /\ accepted' = TRUE
         \/ ii = 0 /\ Len(table) # MaxDisjointSegments /\ table' = Append(table, new) /\ accepted' = TRUE
         \/ ii = 0 /\ Len(table) = MaxDisjointSegments /\ accepted' = FALSE /\ table' = table
  BY DEF InsertSegment
<1> HIDE DEF new
<1>4. HasRoom(ToSet(table), new) <=> ii # 0 \/ Len(table) # MaxDisjointSegments
  BY <1>1, <1>2, RoomInTheArray
<1>5. HasRoom(ToSet(table), new) \in BOOLEAN
  BY DEF HasRoom
<1>6. CASE ii # 0
  <2>1. ii \in 1..Len(table) /\ Touches(table[ii], new)
    BY <1>1, <1>2, <1>6, FirstTouchedIs
  <2>2. /\ IsTable(Merged(table, ii, new))
        /\ ToSet(Merged(table, ii, new)) = manageDisjointSegmentInfo(ToSet(table), new)
        /\ Len(Merged(table, ii, new)) <= Len(table)
    BY <1>1, <1>2, <2>1, MergedIs
  <2>3. table' = Merged(table, ii, new) /\ accepted' = TRUE
    BY <1>3, <1>6
  <2>4. ArrayInv'
    <3>1. Len(table') \in Nat
      BY <2>2, <2>3 DEF IsTable
    <3> QED BY <1>2, <2>2, <2>3, <3>1, BufferAssumption DEF ArrayInv
  <2> QED BY <1>3, <1>4, <1>5, <1>6, <2>2, <2>3, <2>4 DEF new
<1>7. CASE ii = 0 /\ Len(table) # MaxDisjointSegments
  <2>1. \A i \in 1..Len(table) : ~Touches(table[i], new)
    BY <1>1, <1>2, <1>7, FirstTouchedIs
  <2>2. /\ IsTable(Append(table, new))
        /\ ToSet(Append(table, new)) = manageDisjointSegmentInfo(ToSet(table), new)
        /\ Len(Append(table, new)) = Len(table) + 1
    BY <1>1, <1>2, <2>1, AppendedIs
  <2>3. table' = Append(table, new) /\ accepted' = TRUE
    BY <1>3, <1>7
  <2>4. ArrayInv'
    BY <1>2, <1>7, <2>2, <2>3, BufferAssumption DEF ArrayInv
  <2> QED BY <1>3, <1>4, <1>5, <1>7, <2>2, <2>3, <2>4 DEF new
<1>8. CASE ii = 0 /\ Len(table) = MaxDisjointSegments
  <2>1. table' = table /\ accepted' = FALSE
    BY <1>3, <1>8
  <2>2. ArrayInv'
    BY <1>2, <2>1 DEF ArrayInv
  <2> QED BY <1>3, <1>4, <1>5, <1>8, <2>1, <2>2 DEF new
<1> QED BY <1>6, <1>7, <1>8

LEMMA EmptyArray ==
    /\ IsTable(<<>>) /\ Len(<<>>) <= MaxDisjointSegments
    /\ ToSet(<<>>) = {}
BY BufferAssumption DEF IsTable, ToSet

\* Every step keeps the array, and is a step of the set or leaves it alone.
LEMMA ArrayStep ==
    ASSUME ArrayInv, [TableNext]_tableVars
    PROVE  /\ ArrayInv'
           /\ [Set!Next]_<<ToSet(disjointSegments), added, accepted>>
<1>1. CASE UNCHANGED tableVars
  BY <1>1 DEF tableVars, ArrayInv, ToSet
<1>2. CASE ClearTable
  <2>1. disjointSegments' = <<>> /\ UNCHANGED <<added, accepted>>
    BY <1>2 DEF ClearTable
  <2>2. ToSet(disjointSegments') = {}
    BY <2>1 DEF ToSet
  <2>3. Set!Clear
    BY <2>1, <2>2 DEF Set!Clear
  <2>4. ArrayInv'
    BY <2>1, EmptyArray DEF ArrayInv
  <2> QED BY <2>3, <2>4 DEF Set!Next
<1>3. ASSUME NEW offset \in 0..MaxMessageLength, NEW length \in 0..MaxMessageLength,
             offset + length <= MaxMessageLength, InsertSegment(offset, length)
      PROVE  ArrayInv' /\ Set!Next
  <2> DEFINE new == Interval(offset, length)
  <2> DEFINE set == ToSet(disjointSegments)
  <2>1. /\ ArrayInv'
        /\ added' = new
        /\ accepted' = HasRoom(set, new)
        /\ ToSet(disjointSegments') = IF HasRoom(set, new)
                                      THEN manageDisjointSegmentInfo(set, new) ELSE set
    BY <1>3, InsertImplements
  <2>2. Set!Interval(offset, length) = new
    BY DEF Set!Interval, Interval
  <2> HIDE DEF new
  <2>3. Set!Add(offset, length)
    BY <2>1, <2>2, SetOperators DEF Set!Add
  <2> QED BY <2>1, <2>3, <1>3 DEF Set!Next
<1> QED BY <1>1, <1>2, <1>3 DEF TableNext

\* The array of manageDisjointSegmentInfo keeps entries that neither overlap nor touch, and
\* never more than MAX_C1222_DISJOINT_SEGMENTS of them.
THEOREM ArrayIsSeparate == TableSpec => []ArrayInv
<1>1. TableInit => ArrayInv
  BY EmptyArray DEF TableInit, ArrayInv
<1>2. ArrayInv /\ [TableNext]_tableVars => ArrayInv'
  BY ArrayStep
<1> QED BY <1>1, <1>2, PTL DEF TableSpec

\* The array and its loops do what the set of intervals promises: one pass over the entries is
\* enough, whatever their order, and a segment is refused only when the set is full.
THEOREM ArrayImplementsSet == TableSpec => ImplementsSet
<1>1. TableInit => Set!Init
  BY DEF TableInit, Set!Init, ToSet, Interval, Set!Interval
<1>2. ArrayInv /\ [TableNext]_tableVars =>
         [Set!Next]_<<ToSet(disjointSegments), added, accepted>>
  BY ArrayStep
<1> QED BY <1>1, <1>2, ArrayIsSeparate, PTL DEF TableSpec, ImplementsSet, Set!Spec

=============================================================================
