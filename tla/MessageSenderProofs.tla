-------------------------- MODULE MessageSenderProofs --------------------------
(***************************************************************************)
(* How a message is cut into segments, and what the peer has of it, for all  *)
(* messages that a node recognizes, all fragment sizes that leave room in a  *)
(* segment, any number of retries and of faults, and any size of the peer's  *)
(* table.                                                                   *)
(***************************************************************************)
EXTENDS MessageSender, AcseMessageProofs, DisjointSegmentsProofs

-----------------------------------------------------------------------------
(* The messages to send *)

\* A message to send is a message, and is as its standard has it.
LEMMA OutgoingIsMessage ==
    ASSUME NEW name \in Names
    PROVE  LET m == Outgoing[name]
           IN  /\ IsMessage(m)
               /\ m.standard \in {"2006", "2008"}
               /\ SharedElementsOK(m, m.standard)
               /\ LengthOf(m.elements) \in Nat
               /\ FullLength(m) \in 1..MaxMessageLength
<1> DEFINE m == Outgoing[name]
<1>1. /\ m = Message(m.standard, m.elements)
      /\ m.elements \in Seq(ToSet(m.elements))
      /\ \A e \in ToSet(m.elements) : e = Element(e.tag, e.length, e.value) /\ e.length \in Nat
      /\ m.standard \in {"2006", "2008"}
      /\ StandardOf(m) = m.standard
      /\ FullLength(m) <= MaxMessageLength
    BY SenderAssumption DEF OutgoingAssumption
<1> HIDE DEF m
<1>2. IsMessage(m)
    <2>1. \A e \in ToSet(m.elements) : IsElement(e)
        BY <1>1 DEF IsElement
    <2>2. IsList(m.elements)
        BY <1>1, <2>1, SequenceOfElements
    <2> QED
        BY <1>1, <2>2 DEF IsMessage
<1>3. SharedElementsOK(m, m.standard)
    <2>1. CASE m.standard = "2006"
        BY <1>1, <2>1 DEF StandardOf, IsValidFormat2006
    <2>2. CASE m.standard = "2008"
        BY <1>1, <2>2 DEF StandardOf, IsValidFormat2008
    <2> QED
        BY <1>1, <2>1, <2>2
<1>4. LengthOf(m.elements) \in Nat /\ FullLength(m) \in Nat /\ FullLength(m) >= 2
    <2>1. LengthOf(m.elements) \in Nat
        BY <1>2, LengthIsNatural DEF IsMessage
    <2> QED
        BY <2>1, EncodedIsNatural DEF FullLength
<1>5. FullLength(m) \in 1..MaxMessageLength
    BY <1>1, <1>4, BufferAssumption
<1> QED
    BY <1>1, <1>2, <1>3, <1>4, <1>5 DEF m

\* A longer length takes no fewer bytes.
LEMMA LongerTakesMore ==
    ASSUME NEW a \in Nat, NEW b \in Nat, a <= b
    PROVE  SizeOfLength(a) <= SizeOfLength(b) /\ SizeOfLength(b) \in 1..3
BY DEF SizeOfLength

-----------------------------------------------------------------------------
(* What a segment is made of *)

\* What is copied of a message.
LEMMA CopyIs ==
    ASSUME NEW m, IsMessage(m), NEW tag
    PROVE  /\ IsList(Copy(m, tag))
           /\ LengthOf(Copy(m, tag)) \in Nat
           /\ ToSet(Copy(m, tag)) = IF HasTag(m, tag) THEN {Find(m, tag)} ELSE {}
           /\ HasTag(m, tag) => Find(m, tag).tag = tag
<1>1. CASE ~HasTag(m, tag)
    <2>1. Copy(m, tag) = <<>>
        BY <1>1 DEF Copy
    <2>2. ToSet(<<>>) = {}
        BY ElementsOfOne
    <2> QED
        BY <1>1, <2>1, <2>2, EmptyList
<1>2. CASE HasTag(m, tag)
    <2> DEFINE e == Find(m, tag)
    <2>1. IsList(m.elements) /\ Has(m.elements, tag) /\ e = At(m.elements, tag)
        BY <1>2, FindsInElements DEF IsMessage
    <2>2. PICK k \in 1..Len(m.elements) : m.elements[k].tag = tag /\ e = m.elements[k]
        BY <2>1, FindsTag
    <2>3. IsElement(e) /\ e.tag = tag
        BY <2>1, <2>2, ListHasLengths
    <2> HIDE DEF e
    <2>4. IsList(<<e>>) /\ LengthOf(<<e>>) = Encoded(e.length) /\ e.length \in Nat
        BY <2>3, ListOfOne DEF IsElement
    <2>5. LengthOf(<<e>>) \in Nat
        BY <2>4, EncodedIsNatural
    <2>6. ToSet(<<e>>) = {e}
        BY ElementsOfOne
    <2> QED
        BY <1>2, <2>3, <2>4, <2>5, <2>6 DEF Copy, e
<1> QED
    BY <1>1, <1>2

\* It stands where the order of a standard has its tag.
LEMMA CopyInOrder ==
    ASSUME NEW m, IsMessage(m), NEW tag, NEW order, NEW low, NEW high,
           tag \in ToSet(order), Place(order, tag) \in (low + 1)..high
    PROVE  InOrder(Copy(m, tag), order, low, high)
<1>1. CASE ~HasTag(m, tag)
    BY <1>1, NoneInOrder DEF Copy
<1>2. CASE HasTag(m, tag)
    <2> DEFINE e == Find(m, tag)
    <2>1. e.tag = tag
        BY <1>2, CopyIs
    <2> HIDE DEF e
    <2>2. InOrder(<<e>>, order, low, high)
        BY <2>1, OneInOrder
    <2> QED
        BY <1>2, <2>2 DEF Copy, e
<1> QED
    BY <1>1, <1>2

\* Two lists in an order, one behind the other.
LEMMA ListsJoin ==
    ASSUME NEW s, NEW t, IsList(s), IsList(t), LengthOf(s) \in Nat, LengthOf(t) \in Nat
    PROVE  /\ IsList(s \o t)
           /\ LengthOf(s \o t) = LengthOf(s) + LengthOf(t)
           /\ LengthOf(s \o t) \in Nat
           /\ ToSet(s \o t) = ToSet(s) \cup ToSet(t)
BY ListsConcat, ElementsOfConcat

\* The elements of a message with some tags.
Copies(m, tags) == {Find(m, tag) : tag \in {t \in tags : HasTag(m, t)}}

\* What is copied before the length of the message.
LEMMA CopiedFirstIs ==
    ASSUME NEW m, IsMessage(m)
    PROVE  /\ IsList(CopiedFirst(m)) /\ LengthOf(CopiedFirst(m)) \in Nat
           /\ ToSet(CopiedFirst(m)) = Copies(m, {"A1", "A2"})
           /\ InOrder(CopiedFirst(m), tagOrder2006, 0, 2)
           /\ InOrder(CopiedFirst(m), tagOrder2008, 0, 2)
<1> DEFINE s == Copy(m, "A1")
           t == Copy(m, "A2")
<1>1. /\ IsList(s) /\ IsList(t) /\ LengthOf(s) \in Nat /\ LengthOf(t) \in Nat
      /\ ToSet(s) = IF HasTag(m, "A1") THEN {Find(m, "A1")} ELSE {}
      /\ ToSet(t) = IF HasTag(m, "A2") THEN {Find(m, "A2")} ELSE {}
    BY CopyIs
<1>2. InOrder(s, tagOrder2006, 0, 1) /\ InOrder(t, tagOrder2006, 1, 2)
    BY CopyInOrder, Places2006
<1>3. InOrder(s, tagOrder2008, 0, 1) /\ InOrder(t, tagOrder2008, 1, 2)
    BY CopyInOrder, Places2008
<1> HIDE DEF s, t
<1>4. /\ IsList(s \o t) /\ LengthOf(s \o t) \in Nat
      /\ ToSet(s \o t) = ToSet(s) \cup ToSet(t)
    BY <1>1, ListsJoin
<1>5. InOrder(s \o t, tagOrder2006, 0, 2) /\ InOrder(s \o t, tagOrder2008, 0, 2)
    BY <1>1, <1>2, <1>3, ConcatInOrder
<1>6. ToSet(s \o t) = Copies(m, {"A1", "A2"})
    BY <1>1, <1>4 DEF Copies
<1> QED
    BY <1>4, <1>5, <1>6 DEF CopiedFirst, s, t

NextTags(standard) == IF standard = "2006" THEN {"A6", "A7"} ELSE {"A6", "A7", "A8"}

\* What is copied behind it.
LEMMA CopiedNextIs ==
    ASSUME NEW m, IsMessage(m)
    PROVE  /\ IsList(CopiedNext(m)) /\ LengthOf(CopiedNext(m)) \in Nat
           /\ ToSet(CopiedNext(m)) = Copies(m, NextTags(m.standard))
           /\ m.standard = "2006" => InOrder(CopiedNext(m), tagOrder2006, 2, 4)
           /\ m.standard # "2006" => InOrder(CopiedNext(m), tagOrder2008, 4, 7)
<1> DEFINE s == Copy(m, "A6")
           t == Copy(m, "A7")
           u == IF m.standard = "2006" THEN <<>> ELSE Copy(m, "A8")
<1>1. /\ IsList(s) /\ IsList(t) /\ LengthOf(s) \in Nat /\ LengthOf(t) \in Nat
      /\ ToSet(s) = IF HasTag(m, "A6") THEN {Find(m, "A6")} ELSE {}
      /\ ToSet(t) = IF HasTag(m, "A7") THEN {Find(m, "A7")} ELSE {}
    BY CopyIs
<1>2. /\ IsList(u) /\ LengthOf(u) \in Nat
      /\ ToSet(u) = IF m.standard # "2006" /\ HasTag(m, "A8") THEN {Find(m, "A8")} ELSE {}
    <2>1. CASE m.standard = "2006"
        <3>1. u = <<>>
            BY <2>1
        <3>2. ToSet(<<>>) = {}
            BY ElementsOfOne
        <3> HIDE DEF u
        <3> QED
            BY <2>1, <3>1, <3>2, EmptyList
    <2>2. CASE m.standard # "2006"
        BY <2>2, CopyIs
    <2> QED
        BY <2>1, <2>2
<1>3. InOrder(s, tagOrder2006, 2, 3) /\ InOrder(t, tagOrder2006, 3, 4)
    BY CopyInOrder, Places2006
<1>4. InOrder(s, tagOrder2008, 4, 5) /\ InOrder(t, tagOrder2008, 5, 6)
    BY CopyInOrder, Places2008
<1>5. m.standard = "2006" => u = <<>>
    OBVIOUS
<1>6. m.standard # "2006" => InOrder(u, tagOrder2008, 6, 7)
    BY CopyInOrder, Places2008
<1> HIDE DEF s, t, u
<1>7. /\ IsList(s \o t) /\ LengthOf(s \o t) \in Nat
      /\ ToSet(s \o t) = ToSet(s) \cup ToSet(t)
    BY <1>1, ListsJoin
<1>8. InOrder(s \o t, tagOrder2006, 2, 4) /\ InOrder(s \o t, tagOrder2008, 4, 6)
    BY <1>1, <1>3, <1>4, ConcatInOrder
<1> DEFINE st == s \o t
<1> HIDE DEF st
<1>9. /\ IsList(st \o u) /\ LengthOf(st \o u) \in Nat
      /\ ToSet(st \o u) = ToSet(s) \cup ToSet(t) \cup ToSet(u)
    BY <1>2, <1>7, ListsJoin DEF st
<1>10. m.standard # "2006" => InOrder(st \o u, tagOrder2008, 4, 7)
    BY <1>2, <1>6, <1>7, <1>8, ConcatInOrder DEF st
<1>11. m.standard = "2006" => InOrder(st \o u, tagOrder2006, 2, 4)
    <2>1. InOrder(<<>>, tagOrder2006, 4, 4)
        BY NoneInOrder
    <2>2. m.standard = "2006" => InOrder(u, tagOrder2006, 4, 4)
        BY <2>1, <1>5
    <2> QED
        BY <1>2, <1>7, <1>8, <2>2, ConcatInOrder DEF st
<1>12. ToSet(st \o u) = Copies(m, NextTags(m.standard))
    BY <1>1, <1>2, <1>9 DEF Copies, NextTags
<1>13. CopiedNext(m) = st \o u
    BY DEF CopiedNext, st, s, t, u
<1> QED
    BY <1>9, <1>10, <1>11, <1>12, <1>13

-----------------------------------------------------------------------------
(* What stands before the data of a segment *)

SegmentOrder(standard) == IF standard = "2006" THEN tagOrder2006 ELSE tagOrder2008

\* The element that says that a message is a segment.
Mark(m, offset) == IF m.standard = "2006" THEN SegmentId(m, offset) ELSE SegmentFullLengthElement(m)

LEMMA MarkIs ==
    ASSUME NEW m, FullLength(m) \in Nat, NEW offset
    PROVE  LET e == Mark(m, offset)
           IN  /\ IsElement(e)
               /\ e.tag = IF m.standard = "2006" THEN "A8" ELSE "A3"
               /\ e.length \in IF m.standard = "2006" THEN {4, 6} ELSE 3..4
               /\ Encoded(e.length) =
                     (IF m.standard = "2006" THEN 6 ELSE 5)
                     + (IF FullLength(m) <= 255 THEN 0 ELSE IF m.standard = "2006" THEN 2 ELSE 1)
               /\ m.standard = "2006" =>
                     /\ e.value.id = CallingApInvocationId(m)
                     /\ e.value.offset = offset
                     /\ e.value.fullLength = FullLength(m)
               /\ m.standard # "2006" => e.value = FullLength(m)
<1> DEFINE id == Element("A8", IF FullLength(m) > 255 THEN 6 ELSE 4,
                    [id |-> CallingApInvocationId(m), offset |-> offset, fullLength |-> FullLength(m)])
           full == Element("A3", IF FullLength(m) < 256 THEN 3 ELSE 4, FullLength(m))
<1>1. /\ IsElement(id) /\ id.tag = "A8" /\ id.length = IF FullLength(m) > 255 THEN 6 ELSE 4
      /\ id.value.id = CallingApInvocationId(m) /\ id.value.offset = offset
      /\ id.value.fullLength = FullLength(m)
    BY ElementFields
<1>2. /\ IsElement(full) /\ full.tag = "A3" /\ full.length = IF FullLength(m) < 256 THEN 3 ELSE 4
      /\ full.value = FullLength(m)
    BY ElementFields
<1>3. Mark(m, offset) = IF m.standard = "2006" THEN id ELSE full
    BY DEF Mark, SegmentId, SegmentFullLengthElement
<1> HIDE DEF id, full
<1>4. Encoded(6) = 8 /\ Encoded(4) = 6 /\ Encoded(3) = 5
    BY DEF Encoded, SizeOfLength
<1> QED
    BY <1>1, <1>2, <1>3, <1>4

\* What stands before the data takes what the split counted for it.
LEMMA HeaderIs ==
    ASSUME NEW name \in Names, NEW offset
    PROVE  LET m == Outgoing[name]
               h == SegmentHeader(m, offset)
               high == IF m.standard = "2006" THEN 8 ELSE 9
           IN  /\ IsList(h)
               /\ HeaderLength(m) \in Nat /\ LengthOf(h) = HeaderLength(m)
               /\ ToSet(h) = Copies(m, {"A1", "A2"} \cup NextTags(m.standard)) \cup {Mark(m, offset)}
               /\ InOrder(h, SegmentOrder(m.standard), 0, high)
<1> DEFINE m == Outgoing[name]
           f == CopiedFirst(m)
           n == CopiedNext(m)
           e == Mark(m, offset)
           h == SegmentHeader(m, offset)
           extra == (IF m.standard = "2006" THEN 6 ELSE 5)
                     + (IF FullLength(m) <= 255 THEN 0 ELSE IF m.standard = "2006" THEN 2 ELSE 1)
<1>1. IsMessage(m) /\ m.standard \in {"2006", "2008"} /\ FullLength(m) \in Nat
    BY OutgoingIsMessage
<1> HIDE DEF m
<1>2. /\ IsList(f) /\ LengthOf(f) \in Nat /\ ToSet(f) = Copies(m, {"A1", "A2"})
      /\ InOrder(f, tagOrder2006, 0, 2) /\ InOrder(f, tagOrder2008, 0, 2)
    BY <1>1, CopiedFirstIs
<1>3. /\ IsList(n) /\ LengthOf(n) \in Nat /\ ToSet(n) = Copies(m, NextTags(m.standard))
      /\ m.standard = "2006" => InOrder(n, tagOrder2006, 2, 4)
      /\ m.standard # "2006" => InOrder(n, tagOrder2008, 4, 7)
    BY <1>1, CopiedNextIs
<1>4. /\ IsElement(e) /\ e.tag = (IF m.standard = "2006" THEN "A8" ELSE "A3")
      /\ Encoded(e.length) = extra /\ extra \in Nat
    BY <1>1, MarkIs
<1>5. HeaderLength(m) = LengthOf(f) + LengthOf(n) + extra
    BY <1>2, <1>3 DEF HeaderLength
<1>6. m.standard = "2006" => h = (f \o n) \o <<e>>
    BY DEF SegmentHeader, Mark
<1>7. m.standard # "2006" => h = (f \o <<e>>) \o n
    BY DEF SegmentHeader, Mark
<1>8. Copies(m, {"A1", "A2"}) \cup Copies(m, NextTags(m.standard))
        = Copies(m, {"A1", "A2"} \cup NextTags(m.standard))
    BY DEF Copies
<1> HIDE DEF f, n, e, h, extra
<1>9. /\ IsList(<<e>>) /\ LengthOf(<<e>>) = extra /\ ToSet(<<e>>) = {e}
    BY <1>4, ListOfOne, ElementsOfOne
<1>10. CASE m.standard = "2006"
    <2>1. /\ IsList(f \o n) /\ LengthOf(f \o n) = LengthOf(f) + LengthOf(n) /\ LengthOf(f \o n) \in Nat
          /\ ToSet(f \o n) = ToSet(f) \cup ToSet(n)
        BY <1>2, <1>3, ListsJoin
    <2>2. InOrder(f \o n, tagOrder2006, 0, 4)
        BY <1>2, <1>3, <1>10, ConcatInOrder
    <2>3. InOrder(<<e>>, tagOrder2006, 4, 8)
        BY <1>4, <1>10, OneInOrder, Places2006
    <2> DEFINE g == f \o n
    <2> HIDE DEF g
    <2>4. /\ IsList(g \o <<e>>) /\ LengthOf(g \o <<e>>) = LengthOf(g) + extra
          /\ ToSet(g \o <<e>>) = ToSet(g) \cup {e}
        BY <1>4, <1>9, <2>1, ListsJoin DEF g
    <2>5. InOrder(g \o <<e>>, tagOrder2006, 0, 8)
        BY <1>9, <2>1, <2>2, <2>3, ConcatInOrder DEF g
    <2>6. h = g \o <<e>>
        BY <1>6, <1>10 DEF g
    <2>7. LengthOf(h) = HeaderLength(m) /\ HeaderLength(m) \in Nat
        BY <1>2, <1>3, <1>4, <1>5, <2>1, <2>4, <2>6 DEF g
    <2>8. ToSet(h) = Copies(m, {"A1", "A2"} \cup NextTags(m.standard)) \cup {e}
        BY <1>2, <1>3, <1>8, <2>1, <2>4, <2>6 DEF g
    <2> QED
        BY <1>10, <2>4, <2>5, <2>6, <2>7, <2>8 DEF SegmentOrder, m, h, e
<1>11. CASE m.standard # "2006"
    <2>1. /\ IsList(f \o <<e>>) /\ LengthOf(f \o <<e>>) = LengthOf(f) + extra
          /\ LengthOf(f \o <<e>>) \in Nat
          /\ ToSet(f \o <<e>>) = ToSet(f) \cup {e}
        BY <1>2, <1>4, <1>9, ListsJoin
    <2>2. InOrder(<<e>>, tagOrder2008, 2, 4)
        BY <1>4, <1>11, OneInOrder, Places2008
    <2>3. InOrder(f \o <<e>>, tagOrder2008, 0, 4)
        BY <1>2, <1>9, <2>2, ConcatInOrder
    <2> DEFINE g == f \o <<e>>
    <2> HIDE DEF g
    <2>4. InOrder(n, tagOrder2008, 4, 9)
        BY <1>3, <1>11 DEF InOrder
    <2>5. /\ IsList(g \o n) /\ LengthOf(g \o n) = LengthOf(g) + LengthOf(n)
          /\ ToSet(g \o n) = ToSet(g) \cup ToSet(n)
        BY <1>3, <2>1, ListsJoin DEF g
    <2>6. InOrder(g \o n, tagOrder2008, 0, 9)
        BY <1>3, <2>1, <2>3, <2>4, ConcatInOrder DEF g
    <2>7. h = g \o n
        BY <1>7, <1>11 DEF g
    <2>8. LengthOf(h) = HeaderLength(m) /\ HeaderLength(m) \in Nat
        BY <1>2, <1>3, <1>4, <1>5, <2>1, <2>5, <2>7 DEF g
    <2>9. ToSet(h) = Copies(m, {"A1", "A2"} \cup NextTags(m.standard)) \cup {e}
        BY <1>2, <1>3, <1>8, <2>1, <2>5, <2>7 DEF g
    <2> QED
        BY <1>11, <2>5, <2>6, <2>7, <2>8, <2>9 DEF SegmentOrder, m, h, e
<1> QED
    BY <1>10, <1>11

-----------------------------------------------------------------------------
(* How a segment is read *)

\* Part `length` at `offset` of a message, as a segment.
SegmentAt(m, offset, length) ==
    Message(m.standard, SegmentHeader(m, offset) \o <<SegmentData(m, offset, length)>>)

\* What an element for the data contains.
Content(m, offset, length) ==
    IF m.standard = "2006" THEN length
    ELSE Encoded((IF offset < 256 THEN 3 ELSE 4) + Encoded(length))

\* The data of a segment.
LEMMA DataIs ==
    ASSUME NEW m, NEW offset \in Nat, NEW length \in Nat
    PROVE  LET d == SegmentData(m, offset, length)
           IN  /\ IsElement(d) /\ d.tag = "BE" /\ d.length \in Nat
               /\ d.length = Content(m, offset, length)
<1> DEFINE l == Content(m, offset, length)
           v == [standard |-> m.standard, offset |-> offset, dataLength |-> length]
<1>1. l \in Nat
    <2> DEFINE x == (IF offset < 256 THEN 3 ELSE 4) + Encoded(length)
    <2>1. x \in Nat
        BY EncodedIsNatural
    <2> HIDE DEF x
    <2>2. Encoded(x) \in Nat
        BY <2>1, EncodedIsNatural
    <2> QED
        BY <2>2 DEF Content, x
<1>2. SegmentData(m, offset, length) = Element("BE", l, v)
    BY DEF SegmentData, Content
<1> HIDE DEF l, v
<1>3. /\ IsElement(Element("BE", l, v)) /\ Element("BE", l, v).tag = "BE"
      /\ Element("BE", l, v).length = l
    BY <1>1, ElementFields
<1> QED
    BY <1>1, <1>2, <1>3 DEF l

\* What they say.
LEMMA DataSays ==
    ASSUME NEW m, NEW offset, NEW length
    PROVE  LET d == SegmentData(m, offset, length)
           IN  /\ d.value.standard = m.standard
               /\ d.value.offset = offset
               /\ d.value.dataLength = length
BY DEF SegmentData, Element

\* The elements of a segment, and their order.
LEMMA SegmentIs ==
    ASSUME NEW name \in Names, NEW offset \in Nat, NEW length \in Nat
    PROVE  LET m == Outgoing[name]
               g == SegmentAt(m, offset, length)
               d == SegmentData(m, offset, length)
           IN  /\ g.standard = m.standard
               /\ g.elements = SegmentHeader(m, offset) \o <<d>>
               /\ IsList(g.elements)
               /\ LengthOf(g.elements) = HeaderLength(m) + Encoded(d.length)
               /\ ToSet(g.elements) = Copies(m, {"A1", "A2"} \cup NextTags(m.standard))
                                          \cup {Mark(m, offset), d}
               /\ TagOrderOK(g, SegmentOrder(m.standard))
<1> DEFINE m == Outgoing[name]
           g == SegmentAt(m, offset, length)
           h == SegmentHeader(m, offset)
           d == SegmentData(m, offset, length)
           high == IF m.standard = "2006" THEN 8 ELSE 9
<1>1. /\ IsList(h) /\ HeaderLength(m) \in Nat /\ LengthOf(h) = HeaderLength(m)
      /\ ToSet(h) = Copies(m, {"A1", "A2"} \cup NextTags(m.standard)) \cup {Mark(m, offset)}
      /\ InOrder(h, SegmentOrder(m.standard), 0, high)
    BY HeaderIs
<1>2. IsElement(d) /\ d.tag = "BE" /\ d.length \in Nat
    BY DataIs
<1>3. g.standard = m.standard /\ g.elements = h \o <<d>>
    BY MessageFields DEF SegmentAt
<1> HIDE DEF h, d, g, m
<1>4. /\ IsList(<<d>>) /\ LengthOf(<<d>>) = Encoded(d.length) /\ ToSet(<<d>>) = {d}
      /\ Encoded(d.length) \in Nat
    BY <1>2, ListOfOne, ElementsOfOne, EncodedIsNatural
<1>5. /\ IsList(h \o <<d>>) /\ LengthOf(h \o <<d>>) = HeaderLength(m) + Encoded(d.length)
      /\ ToSet(h \o <<d>>) = ToSet(h) \cup {d}
    <2>1. IsList(h) /\ LengthOf(h) \in Nat /\ LengthOf(h) = HeaderLength(m)
        BY <1>1
    <2>2. IsList(<<d>>) /\ LengthOf(<<d>>) \in Nat
        BY <1>4
    <2>3. /\ IsList(h \o <<d>>) /\ LengthOf(h \o <<d>>) = LengthOf(h) + LengthOf(<<d>>)
          /\ ToSet(h \o <<d>>) = ToSet(h) \cup ToSet(<<d>>)
        BY <2>1, <2>2, ListsJoin
    <2> QED
        BY <1>4, <2>1, <2>3
<1>6. InOrder(<<d>>, SegmentOrder(m.standard), high, high + 1)
    <2>1. CASE m.standard = "2006"
        BY <1>2, <2>1, OneInOrder, Places2006 DEF SegmentOrder
    <2>2. CASE m.standard # "2006"
        BY <1>2, <2>2, OneInOrder, Places2008 DEF SegmentOrder
    <2> QED
        BY <2>1, <2>2
<1>7. high \in Nat /\ high + 1 \in Nat /\ high <= high + 1 /\ 0 <= high
    OBVIOUS
<1> HIDE DEF high
<1>8. InOrder(h \o <<d>>, SegmentOrder(m.standard), 0, high + 1)
    BY <1>1, <1>4, <1>6, <1>7, ConcatInOrder
<1>9. TagOrderOK(g, SegmentOrder(m.standard))
    BY <1>3, <1>5, <1>7, <1>8, InOrderIsOK
<1>10. ToSet(h \o <<d>>) = Copies(m, {"A1", "A2"} \cup NextTags(m.standard)) \cup {Mark(m, offset), d}
    BY <1>1, <1>5
<1> QED
    BY <1>3, <1>5, <1>9, <1>10 DEF g, h, d, m

\* What is found in a segment: what was copied, its mark, and its data.
LEMMA SegmentHas ==
    ASSUME NEW name \in Names, NEW offset \in Nat, NEW length \in Nat
    PROVE  LET m == Outgoing[name]
               g == SegmentAt(m, offset, length)
           IN  /\ \A tag \in {"A1", "A2"} \cup NextTags(m.standard) :
                     /\ HasTag(g, tag) <=> HasTag(m, tag)
                     /\ HasTag(g, tag) => Find(g, tag) = Find(m, tag)
               /\ HasTag(g, "BE") /\ Find(g, "BE") = SegmentData(m, offset, length)
               /\ HasTag(g, Mark(m, offset).tag) /\ Find(g, Mark(m, offset).tag) = Mark(m, offset)
               /\ \A tag \in {"A4", "AB", "AC", "8B"} : ~HasTag(g, tag)
               /\ m.standard = "2006" => ~HasTag(g, "A3")
<1> DEFINE m == Outgoing[name]
           g == SegmentAt(m, offset, length)
           e == Mark(m, offset)
           d == SegmentData(m, offset, length)
           tags == {"A1", "A2"} \cup NextTags(m.standard)
           S == ToSet(g.elements)
<1>1. IsMessage(m) /\ m.standard \in {"2006", "2008"} /\ FullLength(m) \in Nat
    BY OutgoingIsMessage
<1>2. e.tag = IF m.standard = "2006" THEN "A8" ELSE "A3"
    BY <1>1, MarkIs
<1>3. d.tag = "BE"
    BY DataIs
<1>4. IsList(g.elements) /\ S = Copies(m, tags) \cup {e, d}
    BY SegmentIs
<1> HIDE DEF g, m, e, d, tags
<1>5. \A tag : /\ HasTag(g, tag) <=> \E x \in S : x.tag = tag
               /\ HasTag(g, tag) => Find(g, tag) \in S /\ Find(g, tag).tag = tag
    BY <1>4, FoundInElements, FindsInElements
<1> HIDE DEF S
<1>6. \A x \in Copies(m, tags) : x.tag \in tags /\ HasTag(m, x.tag) /\ x = Find(m, x.tag)
    BY <1>1, CopyIs DEF Copies
<1>7. \A tag \in tags : HasTag(m, tag) => Find(m, tag) \in Copies(m, tags) /\ Find(m, tag).tag = tag
    BY <1>1, CopyIs DEF Copies
<1>8. tags \subseteq {"A1", "A2", "A6", "A7", "A8"} /\ (m.standard = "2006" => "A8" \notin tags)
    BY DEF tags, NextTags
<1>9. \A tag \in tags : tag # e.tag /\ tag # d.tag
    BY <1>1, <1>2, <1>3, <1>8
<1>10. \A tag \in tags : /\ HasTag(g, tag) <=> HasTag(m, tag)
                         /\ HasTag(g, tag) => Find(g, tag) = Find(m, tag)
    BY <1>4, <1>5, <1>6, <1>7, <1>9
<1>11. /\ HasTag(g, "BE") /\ Find(g, "BE") = d
       /\ HasTag(g, e.tag) /\ Find(g, e.tag) = e
    BY <1>2, <1>3, <1>4, <1>5, <1>6, <1>8, <1>9
<1>12. /\ \A tag \in {"A4", "AB", "AC", "8B"} : ~HasTag(g, tag)
       /\ m.standard = "2006" => ~HasTag(g, "A3")
    BY <1>2, <1>3, <1>4, <1>5, <1>6, <1>8
<1> QED
    BY <1>10, <1>11, <1>12 DEF m, g, e, d, tags

\* A receiver takes a segment to be of the standard it was made in and to be a
\* segment, and reads what was written.
LEMMA SegmentIsRead ==
    ASSUME NEW name \in Names, NEW offset \in Nat, NEW length \in Nat
    PROVE  LET m == Outgoing[name]
               g == SegmentAt(m, offset, length)
           IN  /\ StandardOf(g) = m.standard
               /\ IsSegmented(g)
               /\ SegmentOffset(g) = offset
               /\ SegmentFullLength(g) = FullLength(m)
               /\ DataLength(g) = length
               /\ CallingApInvocationId(g) = CallingApInvocationId(m)
<1> DEFINE m == Outgoing[name]
           g == SegmentAt(m, offset, length)
           e == Mark(m, offset)
           d == SegmentData(m, offset, length)
<1>1. m.standard \in {"2006", "2008"} /\ FullLength(m) \in Nat /\ SharedElementsOK(m, m.standard)
    BY OutgoingIsMessage
<1>2. /\ e.tag = IF m.standard = "2006" THEN "A8" ELSE "A3"
      /\ e.length \in IF m.standard = "2006" THEN {4, 6} ELSE 3..4
      /\ m.standard = "2006" => /\ e.value.id = CallingApInvocationId(m)
                                /\ e.value.offset = offset
                                /\ e.value.fullLength = FullLength(m)
      /\ m.standard # "2006" => e.value = FullLength(m)
    BY <1>1, MarkIs
<1>3. d.value.standard = m.standard /\ d.value.offset = offset /\ d.value.dataLength = length
    BY DataSays
<1>4. g.standard = m.standard /\ TagOrderOK(g, SegmentOrder(m.standard))
    BY SegmentIs
<1>5. /\ \A tag \in {"A1", "A2"} \cup NextTags(m.standard) :
            /\ HasTag(g, tag) <=> HasTag(m, tag)
            /\ HasTag(g, tag) => Find(g, tag) = Find(m, tag)
      /\ HasTag(g, "BE") /\ Find(g, "BE") = d
      /\ HasTag(g, e.tag) /\ Find(g, e.tag) = e
      /\ \A tag \in {"A4", "AB", "AC", "8B"} : ~HasTag(g, tag)
      /\ m.standard = "2006" => ~HasTag(g, "A3")
    BY SegmentHas
<1> HIDE DEF m, g, e, d
<1>6. SharedElementsOK(g, m.standard)
    <2>1. \A tag \in {"A1", "A2", "A6", "A7"} : /\ HasTag(g, tag) <=> HasTag(m, tag)
                                                /\ HasTag(g, tag) => Find(g, tag) = Find(m, tag)
        BY <1>5 DEF NextTags
    <2>2. HasTag(g, "A8")
        <3>1. CASE m.standard = "2006"
            BY <3>1, <1>2, <1>5
        <3>2. CASE m.standard # "2006"
            BY <3>2, <1>1, <1>5 DEF NextTags, SharedElementsOK
        <3> QED
            BY <3>1, <3>2
    <2>3. Value(g, "A1", m.standard) = m.standard
        BY <1>1, <2>1 DEF SharedElementsOK, Value
    <2>4. \A tag \in {"A2", "A6"} : HasTag(g, tag) => ValidateACSEFormat(Find(g, tag).value, m.standard)
        BY <1>1, <2>1 DEF SharedElementsOK
    <2>5. HasTag(g, "A7") => Find(g, "A7").value.standard = m.standard
        BY <1>1, <2>1 DEF SharedElementsOK
    <2> QED
        BY <1>5, <2>2, <2>3, <2>4, <2>5 DEF SharedElementsOK
<1>7. CASE m.standard = "2006"
    <2>1. HasTag(g, "A8") /\ Find(g, "A8") = e /\ e.length \in {4, 6}
        BY <1>2, <1>5, <1>7
    <2>2. IsSegmented2006(g) /\ TagOrderOK(g, tagOrder2006)
        BY <2>1, <1>4, <1>7 DEF IsSegmented2006, SegmentOrder
    <2>3. IsValidFormat2006(g)
        BY <1>5, <1>6, <1>7, <2>2 DEF IsValidFormat2006
    <2>4. IsMarch2006FormatMessage(g)
        BY <1>3, <1>5, <1>7 DEF IsMarch2006FormatMessage
    <2>5. StandardOf(g) = m.standard /\ IsSegmented(g)
        BY <1>4, <1>7, <2>2, <2>3, <2>4 DEF StandardOf, IsSegmented
    <2>6. /\ SegmentOffset(g) = offset /\ SegmentFullLength(g) = FullLength(m)
          /\ DataLength(g) = length
        BY <1>2, <1>3, <1>4, <1>5, <1>7, <2>1 DEF SegmentOffset, SegmentFullLength, DataLength
    <2>7. CallingApInvocationId(g) = CallingApInvocationId(m)
        <3>1. CallingApInvocationId(g) = Find(g, "A8").value.id
            BY <2>1 DEF CallingApInvocationId, Value
        <3> QED
            BY <1>2, <1>7, <2>1, <3>1
    <2> QED
        BY <2>5, <2>6, <2>7 DEF g, m
<1>8. CASE m.standard # "2006"
    <2>1. m.standard = "2008"
        BY <1>1, <1>8
    <2>2. HasTag(g, "A3") /\ Find(g, "A3") = e /\ e.length \in 3..4
        BY <1>2, <1>5, <1>8
    <2>3. IsSegmented2008(g) /\ TagOrderOK(g, tagOrder2008)
        BY <2>2, <1>4, <1>8 DEF IsSegmented2008, SegmentOrder
    <2>4. IsValidFormat2008(g)
        BY <1>5, <1>6, <2>1, <2>2, <2>3 DEF IsValidFormat2008
    <2>5. ~IsMarch2006FormatMessage(g)
        BY <2>2 DEF IsMarch2006FormatMessage
    <2>6. StandardOf(g) = m.standard /\ IsSegmented(g)
        BY <1>4, <1>8, <2>1, <2>3, <2>4, <2>5 DEF StandardOf, IsSegmented
    <2>7. /\ SegmentOffset(g) = offset /\ SegmentFullLength(g) = FullLength(m)
          /\ DataLength(g) = length
        BY <1>2, <1>3, <1>4, <1>5, <1>8, <2>2 DEF SegmentOffset, SegmentFullLength, DataLength
    <2>8. CallingApInvocationId(g) = CallingApInvocationId(m)
        BY <1>5, <1>8 DEF CallingApInvocationId, Value, NextTags
    <2> QED
        BY <2>6, <2>7, <2>8 DEF g, m
<1> QED
    BY <1>7, <1>8

-----------------------------------------------------------------------------
(* The length of a segment *)

\* The elements before one of a list, that one and the last one are in the list.
LEMMA PrefixFits ==
    ASSUME NEW s, IsList(s), NEW e, IsElement(e), NEW i \in 1..Len(s)
    PROVE  /\ (s \o <<e>>)[i] = s[i]
           /\ LengthOf(SubSeq(s \o <<e>>, 1, i - 1)) \in Nat
           /\ LengthOf(SubSeq(s \o <<e>>, 1, i - 1)) + Encoded(s[i].length) <= LengthOf(s)
<1> DEFINE a == SubSeq(s, 1, i - 1)
           b == SubSeq(s, i + 1, Len(s))
<1>1. PICK E : s \in Seq(E) /\ \A x \in E : IsElement(x)
    BY DEF IsList
<1>2. /\ Len(s) \in Nat /\ \A j \in 1..Len(s) : s[j] \in E
    BY <1>1
<1>3. /\ a \in Seq(E) /\ Len(a) = i - 1 /\ \A j \in 1..(i - 1) : a[j] = s[j]
    BY <1>1, <1>2
<1>4. /\ b \in Seq(E) /\ Len(b) = Len(s) - i /\ \A j \in 1..(Len(s) - i) : b[j] = s[i + j]
    BY <1>1, <1>2
<1> HIDE DEF a, b
<1>5. IsList(a) /\ IsList(b) /\ IsElement(s[i])
    BY <1>1, <1>2, <1>3, <1>4, SequenceOfElements
<1>6. /\ IsList(<<s[i]>>) /\ LengthOf(<<s[i]>>) = Encoded(s[i].length)
      /\ LengthOf(<<s[i]>>) \in Nat
    BY <1>5, ListOfOne, LengthIsNatural
<1>7. LengthOf(a) \in Nat /\ LengthOf(b) \in Nat
    BY <1>5, LengthIsNatural
<1>8. s = (a \o <<s[i]>>) \o b
    <2> DEFINE c == a \o <<s[i]>>
    <2>1. /\ c \in Seq(E) /\ Len(c) = i /\ c[i] = s[i]
          /\ \A j \in 1..(i - 1) : c[j] = s[j]
        BY <1>2, <1>3
    <2> HIDE DEF c
    <2> DEFINE t == c \o b
    <2>2. t \in Seq(E) /\ Len(t) = Len(c) + Len(b)
        <3>1. b \in Seq(E) /\ c \in Seq(E)
            BY <1>4, <2>1
        <3> QED
            BY <3>1
    <2>4. Len(t) = Len(s)
        BY <1>2, <1>4, <2>1, <2>2
    <2>5. \A j \in 1..i : t[j] = c[j]
        BY <1>2, <1>4, <2>1
    <2>6. \A j \in 1..Len(b) : t[i + j] = b[j]
        BY <1>2, <1>4, <2>1
    <2> HIDE DEF t
    <2>3. \A j \in 1..Len(s) : t[j] = s[j]
        <3> SUFFICES ASSUME NEW j \in 1..Len(s) PROVE t[j] = s[j]
            OBVIOUS
        <3>1. CASE j <= i
            BY <1>2, <2>1, <2>5, <3>1
        <3>2. CASE j > i
            <4>1. j - i \in 1..(Len(s) - i) /\ i + (j - i) = j
                BY <1>2, <3>2
            <4>2. t[i + (j - i)] = b[j - i] /\ b[j - i] = s[i + (j - i)]
                BY <1>4, <2>6, <4>1
            <4> QED
                BY <4>1, <4>2
        <3> QED
            BY <1>2, <3>1, <3>2
    <2>7. t = s
        BY <1>1, <2>2, <2>4, <2>3, SameSequence
    <2> QED
        BY <2>7 DEF t, c
<1>9. LengthOf(s) = (LengthOf(a) + Encoded(s[i].length)) + LengthOf(b)
    <2> DEFINE c == a \o <<s[i]>>
    <2>1. /\ IsList(c) /\ LengthOf(c) = LengthOf(a) + LengthOf(<<s[i]>>) /\ LengthOf(c) \in Nat
        BY <1>5, <1>6, <1>7, ListsJoin
    <2> HIDE DEF c
    <2>2. LengthOf(c \o b) = LengthOf(c) + LengthOf(b)
        BY <1>5, <1>7, <2>1, ListsJoin
    <2>3. s = c \o b
        BY <1>8 DEF c
    <2> QED
        BY <1>6, <2>1, <2>2, <2>3
<1>10. /\ (s \o <<e>>)[i] = s[i] /\ SubSeq(s \o <<e>>, 1, i - 1) = a
    <2> DEFINE F == E \cup {e}
               t == s \o <<e>>
    <2>1. /\ s \in Seq(F) /\ t \in Seq(F) /\ Len(t) = Len(s) + 1
          /\ \A j \in 1..Len(s) : t[j] = s[j]
        BY <1>1, <1>2
    <2> HIDE DEF t, F
    <2>2. /\ SubSeq(t, 1, i - 1) \in Seq(F) /\ Len(SubSeq(t, 1, i - 1)) = i - 1
          /\ \A j \in 1..(i - 1) : SubSeq(t, 1, i - 1)[j] = t[j]
        BY <1>2, <2>1
    <2>3. a \in Seq(F)
        BY <1>3 DEF F
    <2>4. \A j \in 1..Len(a) : SubSeq(t, 1, i - 1)[j] = a[j]
        BY <1>2, <1>3, <2>1, <2>2
    <2>5. SubSeq(t, 1, i - 1) = a
        BY <1>3, <2>2, <2>3, <2>4, SameSequence
    <2> QED
        BY <2>1, <2>5 DEF t
<1>11. LengthOf(a) \in Nat /\ LengthOf(a) + Encoded(s[i].length) <= LengthOf(s)
    BY <1>6, <1>7, <1>9
<1> QED
    BY <1>10, <1>11

\* A length that fits takes no more bytes than the one it fits in.
LEMMA EncodedFits ==
    ASSUME NEW f \in Nat, NEW n \in Nat, n <= f
    PROVE  /\ Encoded(n) \in Nat
           /\ n + 2 <= Encoded(n) /\ Encoded(n) <= n + 1 + SizeOfLength(f)
           /\ SizeOfLength(f) \in 1..3
<1>1. SizeOfLength(n) <= SizeOfLength(f) /\ SizeOfLength(f) \in 1..3
    BY LongerTakesMore
<1>2. SizeOfLength(n) \in 1..3
    BY EncodedIsNatural
<1> QED
    BY <1>1, <1>2 DEF Encoded

\* The room that a split counts for a segment of the 2006 standard.
LEMMA Room2006 ==
    ASSUME NEW f \in Nat, NEW h \in Nat, NEW length \in Nat,
           1 <= length, h + 5 + SizeOfLength(f) + length <= f
    PROVE  LET l == h + Encoded(length)
           IN  /\ l \in Nat /\ l + 1 <= f /\ Encoded(l) <= f
               /\ h + 4 + length <= f
               /\ 3 <= Encoded(length)
<1> DEFINE l == h + Encoded(length)
<1>1. SizeOfLength(f) \in 1..3
    BY EncodedIsNatural
<1>2. length <= f
    BY <1>1
<1>3. /\ Encoded(length) \in Nat
      /\ length + 2 <= Encoded(length) /\ Encoded(length) <= length + 1 + SizeOfLength(f)
    BY <1>2, EncodedFits
<1>4. l \in Nat /\ l + 4 <= f /\ l + 1 + SizeOfLength(f) <= f
    BY <1>1, <1>3
<1> HIDE DEF l
<1>5. Encoded(l) \in Nat /\ Encoded(l) <= l + 1 + SizeOfLength(f)
    <2>1. l <= f
        BY <1>4
    <2> QED
        BY <1>4, <2>1, EncodedFits
<1>6. Encoded(l) <= f /\ l + 1 <= f
    BY <1>1, <1>4, <1>5
<1>7. h + 4 + length <= f /\ 3 <= Encoded(length)
    BY <1>1, <1>3
<1> QED
    BY <1>4, <1>6, <1>7 DEF l

\* The same for the 2008 standard.
LEMMA Room2008 ==
    ASSUME NEW f \in Nat, NEW h \in Nat, NEW length \in Nat, NEW k \in 3..4,
           1 <= length, h + 8 + 4 * SizeOfLength(f) + length <= f
    PROVE  LET l == h + Encoded(Encoded(k + Encoded(length)))
           IN  /\ l \in Nat /\ l + 1 <= f /\ Encoded(l) <= f
               /\ 3 <= Encoded(Encoded(k + Encoded(length)))
<1> DEFINE x == k + Encoded(length)
           y == Encoded(x)
           z == Encoded(y)
           l == h + z
<1>1. SizeOfLength(f) \in 1..3
    BY EncodedIsNatural
<1>2. length <= f
    BY <1>1
<1>3. Encoded(length) \in Nat /\ Encoded(length) <= length + 1 + SizeOfLength(f)
    BY <1>2, EncodedFits
<1>4. x \in Nat /\ x <= length + 5 + SizeOfLength(f) /\ x <= f
    BY <1>1, <1>3
<1> HIDE DEF x
<1>5. y \in Nat /\ x + 2 <= y /\ y <= x + 1 + SizeOfLength(f)
    BY <1>4, EncodedFits
<1> HIDE DEF y
<1>6. y <= length + 6 + 2 * SizeOfLength(f) /\ y <= f /\ y >= 2
    BY <1>1, <1>4, <1>5
<1>7. z \in Nat /\ y + 2 <= z /\ z <= y + 1 + SizeOfLength(f)
    BY <1>5, <1>6, EncodedFits
<1> HIDE DEF z
<1>8. l \in Nat /\ l + 1 + SizeOfLength(f) <= f /\ l <= f /\ 3 <= z
    BY <1>1, <1>5, <1>6, <1>7
<1> HIDE DEF l
<1>9. Encoded(l) <= l + 1 + SizeOfLength(f)
    BY <1>8, EncodedFits
<1>10. Encoded(l) \in Nat
    BY <1>8, EncodedIsNatural
<1>11. Encoded(l) <= f /\ l + 1 <= f
    BY <1>1, <1>8, <1>9, <1>10
<1> QED
    BY <1>8, <1>11 DEF l, z, y, x

\* A segment no longer than the split has it fits in a message of the data link,
\* and in the buffer.
LEMMA SegmentHasRoom ==
    ASSUME NEW name \in Names, NEW fragment \in FragmentSizes,
           NEW offset \in Nat, NEW length \in Nat,
           1 <= length, length <= PayloadLength(Outgoing[name], fragment)
    PROVE  LET g == SegmentAt(Outgoing[name], offset, length)
           IN  FullLength(g) <= fragment /\ ElementsFit(g)
<1> DEFINE m == Outgoing[name]
           g == SegmentAt(m, offset, length)
           h == SegmentHeader(m, offset)
           d == SegmentData(m, offset, length)
           H == HeaderLength(m)
           L == H + Encoded(d.length)
<1>1. m.standard \in {"2006", "2008"}
    BY OutgoingIsMessage
<1>2. /\ IsList(h) /\ H \in Nat /\ LengthOf(h) = H
      /\ ToSet(h) = Copies(m, {"A1", "A2"} \cup NextTags(m.standard)) \cup {Mark(m, offset)}
    BY HeaderIs
<1>3. IsElement(d) /\ d.tag = "BE" /\ d.length = Content(m, offset, length) /\ d.length \in Nat
    BY DataIs
<1>4. g.standard = m.standard /\ g.elements = h \o <<d>> /\ LengthOf(g.elements) = L
    BY SegmentIs
<1>5. fragment \in Nat /\ fragment <= MaxSegmentedLength /\ MaxSegmentedLength \in Nat
    BY SenderAssumption
<1>6. H + (IF m.standard = "2006" THEN 4 ELSE 4 + 3 * SizeOfLength(fragment) + 3)
         + 1 + SizeOfLength(fragment) + length <= fragment
    <2>1. SizeOfLength(fragment) \in 1..3
        BY <1>5, EncodedIsNatural
    <2> HIDE DEF H, m
    <2> QED
        BY <1>2, <1>5, <2>1 DEF PayloadLength, OverheadLength, H, m
<1>7. \A e \in ToSet(h) : e.tag # "BE"
    <2>1. \A e \in Copies(m, {"A1", "A2"} \cup NextTags(m.standard)) : e.tag # "BE"
        BY OutgoingIsMessage, CopyIs DEF Copies, NextTags
    <2>2. Mark(m, offset).tag # "BE"
        BY OutgoingIsMessage, MarkIs
    <2> QED
        BY <1>2, <2>1, <2>2
<1> HIDE DEF m, g, h, d, H
<1>8. /\ L \in Nat /\ L + 1 <= fragment /\ Encoded(L) <= fragment
      /\ 3 <= Encoded(d.length)
      /\ IF m.standard = "2006" THEN H + 4 + length <= fragment /\ d.length = length
         ELSE L <= fragment
    <2>1. CASE m.standard = "2006"
        <3>1. d.length = length
            BY <1>3, <2>1 DEF Content
        <3>2. H + 5 + SizeOfLength(fragment) + length <= fragment
            <4>1. SizeOfLength(fragment) \in 1..3
                BY <1>5, EncodedIsNatural
            <4> QED
                BY <1>2, <1>5, <1>6, <2>1, <4>1
        <3> QED
            BY <1>2, <1>5, <2>1, <3>1, <3>2, Room2006
    <2>2. CASE m.standard # "2006"
        <3> DEFINE k == IF offset < 256 THEN 3 ELSE 4
        <3>1. k \in 3..4
            OBVIOUS
        <3>2. d.length = Encoded(k + Encoded(length))
            BY <1>3, <2>2 DEF Content
        <3> HIDE DEF k
        <3>3. H + 8 + 4 * SizeOfLength(fragment) + length <= fragment
            <4>1. SizeOfLength(fragment) \in 1..3
                BY <1>5, EncodedIsNatural
            <4> QED
                BY <1>2, <1>5, <1>6, <2>2, <4>1
        <3>4. /\ L \in Nat /\ L + 1 <= fragment /\ Encoded(L) <= fragment
              /\ 3 <= Encoded(d.length)
            BY <1>2, <1>5, <3>1, <3>2, <3>3, Room2008
        <3> QED
            BY <1>5, <2>2, <3>4
    <2> QED
        BY <2>1, <2>2
<1> HIDE DEF L
<1>9. FullLength(g) <= fragment
    BY <1>4, <1>8 DEF FullLength
<1>10. ElementsFit(g)
    <2>1. /\ Len(h) \in Nat /\ h \in Seq(ToSet(h)) /\ DOMAIN (h \o <<d>>) = 1..(Len(h) + 1)
          /\ (h \o <<d>>)[Len(h) + 1] = d /\ SubSeq(h \o <<d>>, 1, Len(h)) = h
        <3>1. PICK E : h \in Seq(E)
            BY <1>2 DEF IsList
        <3> DEFINE t == h \o <<d>>
                   F == E \cup {d}
        <3>2. /\ h \in Seq(F) /\ t \in Seq(F) /\ Len(t) = Len(h) + 1 /\ Len(h) \in Nat
              /\ DOMAIN t = 1..(Len(h) + 1)
              /\ t[Len(h) + 1] = d /\ \A j \in 1..Len(h) : t[j] = h[j]
            BY <3>1
        <3> HIDE DEF t, F
        <3>3. /\ SubSeq(t, 1, Len(h)) \in Seq(F) /\ Len(SubSeq(t, 1, Len(h))) = Len(h)
              /\ \A j \in 1..Len(h) : SubSeq(t, 1, Len(h))[j] = t[j]
            BY <3>2
        <3>4. SubSeq(t, 1, Len(h)) = h
            BY <3>2, <3>3, SameSequence
        <3>5. h \in Seq(ToSet(h))
            BY <3>1 DEF ToSet
        <3> QED
            BY <3>2, <3>4, <3>5 DEF t
    <2> SUFFICES ASSUME NEW i \in 1..(Len(h) + 1), (h \o <<d>>)[i].tag # "A3"
                 PROVE  LengthOf(SubSeq(h \o <<d>>, 1, i - 1)) + RoomFor((h \o <<d>>)[i], m.standard)
                            <= MaxSegmentedLength
        BY <1>4, <2>1 DEF ElementsFit
    <2>2. CASE i = Len(h) + 1
        <3>1. (h \o <<d>>)[i] = d /\ SubSeq(h \o <<d>>, 1, i - 1) = h
            BY <2>1, <2>2
        <3>2. H + RoomFor(d, m.standard) <= MaxSegmentedLength
            <4>1. CASE m.standard = "2006"
                <5>1. RoomFor(d, m.standard) = 4 + length
                    BY <1>3, <1>8, <4>1 DEF RoomFor
                <5>2. H + 4 + length <= fragment
                    BY <1>8, <4>1
                <5>3. H \in Nat
                    BY <1>2
                <5> QED
                    BY <1>5, <5>1, <5>2, <5>3
            <4>2. CASE m.standard # "2006"
                <5>1. RoomFor(d, m.standard) = Encoded(d.length)
                    BY <1>3, <4>2 DEF RoomFor
                <5>2. H + RoomFor(d, m.standard) = L
                    BY <5>1 DEF L
                <5> QED
                    BY <1>5, <1>8, <4>2, <5>2
            <4> QED
                BY <4>1, <4>2
        <3> QED
            BY <1>2, <3>1, <3>2
    <2>3. CASE i # Len(h) + 1
        <3>1. i \in 1..Len(h)
            BY <2>1, <2>3
        <3> DEFINE e == h[i]
                   p == LengthOf(SubSeq(h \o <<d>>, 1, i - 1))
        <3>2. (h \o <<d>>)[i] = e /\ p \in Nat /\ p + Encoded(e.length) <= H
            BY <1>2, <1>3, <3>1, PrefixFits
        <3>3. e \in ToSet(h) /\ e.tag # "BE" /\ e.length \in Nat
            BY <1>2, <1>7, <2>1, <3>1, ListHasLengths DEF ToSet, IsElement
        <3> HIDE DEF e, p
        <3>4. Encoded(e.length) \in Nat /\ e.length + 2 <= Encoded(e.length)
            BY <3>3, EncodedFits
        <3>5. p \in Nat /\ p + 2 <= H /\ p + 2 + e.length <= H /\ H \in Nat
            <4>1. H \in Nat
                BY <1>2
            <4> DEFINE n == Encoded(e.length)
            <4>2. n \in Nat /\ e.length + 2 <= n /\ p \in Nat /\ p + n <= H
                BY <3>2, <3>3, <3>4
            <4>3. e.length \in Nat
                BY <3>3
            <4> HIDE DEF n
            <4> QED
                BY <4>1, <4>2, <4>3
        <3>6. RoomFor(e, m.standard) \in {8, 6 + e.length}
            BY <3>3 DEF RoomFor
        <3>7. H + 6 <= fragment
            <4>1. SizeOfLength(fragment) \in 1..3
                BY <1>5, EncodedIsNatural
            <4>2. H \in Nat
                BY <1>2
            <4>3. CASE m.standard = "2006"
                BY <1>5, <1>6, <4>1, <4>2, <4>3
            <4>4. CASE m.standard # "2006"
                <5> DEFINE S == SizeOfLength(fragment)
                <5>1. S \in 1..3 /\ H \in Nat /\ fragment \in Nat /\ length \in Nat
                    BY <1>5, <4>1, <4>2
                <5>2. H + (4 + 3 * S + 3) + 1 + S + length <= fragment
                    BY <1>6, <4>4
                <5> HIDE DEF S
                <5> QED
                    BY <5>1, <5>2
            <4> QED
                BY <4>3, <4>4
        <3>8. p + RoomFor(e, m.standard) <= H + 6
            <4>1. CASE RoomFor(e, m.standard) = 8
                BY <3>5, <4>1
            <4>2. CASE RoomFor(e, m.standard) = 6 + e.length
                <5> DEFINE n == e.length
                           r == RoomFor(e, m.standard)
                <5>1. n \in Nat /\ r = 6 + n /\ p \in Nat /\ p + 2 + n <= H /\ H \in Nat
                    BY <3>3, <3>5, <4>2
                <5> HIDE DEF n, r
                <5>2. p + r <= H + 6
                    BY <5>1
                <5> QED
                    BY <5>2 DEF r
            <4> QED
                BY <3>6, <4>1, <4>2
        <3>9. RoomFor(e, m.standard) \in Nat
            <4>1. e.length \in Nat
                BY <3>3
            <4> QED
                BY <3>6, <4>1
        <3>10. p + RoomFor(e, m.standard) <= MaxSegmentedLength
            BY <1>5, <3>5, <3>7, <3>8, <3>9
        <3> QED
            BY <3>2, <3>10 DEF p
    <2> QED
        BY <2>2, <2>3
<1> QED
    BY <1>9, <1>10 DEF g, m

-----------------------------------------------------------------------------
(* The split of a message *)

\* Segments before the last one begin before the last byte.
LEMMA Division ==
    ASSUME NEW x \in Nat, NEW p \in Nat \ {0}
    PROVE  /\ x \div p \in Nat /\ x \div p <= x
           /\ (x \div p) * p <= x /\ x < (x \div p + 1) * p
           /\ x >= p => x \div p >= 1
<1> DEFINE q == x \div p
           r == x % p
<1>1. q \in Int /\ r \in 0..(p - 1) /\ x = p * q + r
    OBVIOUS
<1> HIDE DEF q, r
<1>2. q \in Nat
    BY <1>1
<1>3. q * p <= x /\ x < (q + 1) * p /\ q <= x
    BY <1>1, <1>2
<1>4. x >= p => q >= 1
    BY <1>1, <1>2
<1> QED
    BY <1>2, <1>3, <1>4 DEF q

LEMMA Multiples ==
    ASSUME NEW i \in Nat, NEW k \in Nat, i <= k, NEW p \in Nat
    PROVE  i * p \in Nat /\ i * p <= k * p /\ (i + 1) * p = i * p + p
<1>1. PICK d \in Nat : k = i + d
    <2>1. k - i \in Nat /\ k = i + (k - i)
        OBVIOUS
    <2> QED
        BY <2>1
<1>2. k * p = i * p + d * p /\ d * p \in Nat /\ i * p \in Nat
    BY <1>1
<1> QED
    BY <1>2

\* The segments of a message that is split: there is more than one, each begins
\* in the message, and together they reach its end.
LEMMA SplitIs ==
    ASSUME NEW name \in Names, NEW fragment \in FragmentSizes,
           CanBeSegmented(Outgoing[name], fragment), ~IsWhole(Outgoing[name], fragment)
    PROVE  LET m == Outgoing[name]
               p == PayloadLength(m, fragment)
               n == NumberOfSegments(m, fragment)
           IN  /\ p \in 1..MaxMessageLength /\ n \in 2..MaxMessageLength
               /\ \A i \in 0..(n - 1) : i * p < FullLength(m)
               /\ FullLength(m) <= n * p
<1> DEFINE m == Outgoing[name]
           p == PayloadLength(m, fragment)
           n == NumberOfSegments(m, fragment)
           F == FullLength(m)
           O == OverheadLength(m, fragment)
<1>1. F \in 1..MaxMessageLength /\ MaxMessageLength \in Nat
    BY OutgoingIsMessage, BufferAssumption
<1>2. fragment \in Nat /\ fragment < F /\ O < fragment /\ p = fragment - O
    BY <1>1, SenderAssumption DEF CanBeSegmented, IsWhole, PayloadLength
<1>3. n = (F - 1) \div p + 1
    BY DEF NumberOfSegments
<1>4. O \in Nat
    <2> DEFINE H == HeaderLength(m)
               S == SizeOfLength(fragment)
    <2>1. H \in Nat
        <3>1. 0 \in Nat
            OBVIOUS
        <3> QED
            BY <3>1, HeaderIs
    <2>2. S \in 1..3
        BY <1>2, EncodedIsNatural
    <2>3. O = H + (IF m.standard = "2006" THEN 4 ELSE 4 + 3 * S + 1 + 2) + 1 + S
        BY DEF OverheadLength
    <2> HIDE DEF H, S, O
    <2> QED
        BY <2>1, <2>2, <2>3
<1> HIDE DEF m, p, n, F, O
<1>5. p \in 1..MaxMessageLength /\ p <= F - 1 /\ p \in Nat \ {0} /\ F - 1 \in Nat
    BY <1>1, <1>2, <1>4
<1> DEFINE q == (F - 1) \div p
<1>6. q \in Nat /\ q <= F - 1 /\ q * p <= F - 1 /\ F - 1 < (q + 1) * p /\ q >= 1
    BY <1>5, Division
<1> HIDE DEF q
<1>7. n = q + 1
    BY <1>3 DEF q
<1>8. n \in 2..MaxMessageLength
    BY <1>1, <1>6, <1>7
<1>9. ASSUME NEW i \in 0..(n - 1) PROVE i * p < F
    <2>1. i \in Nat /\ i <= q /\ p \in Nat
        BY <1>5, <1>6, <1>7
    <2>2. i * p \in Nat /\ i * p <= q * p /\ q * p \in Nat
        BY <1>6, <2>1, Multiples
    <2> QED
        BY <1>1, <1>6, <2>2
<1>10. F <= n * p
    <2>1. n * p \in Nat
        BY <1>5, <1>8, Multiples
    <2> QED
        BY <1>1, <1>6, <1>7, <2>1
<1> QED
    BY <1>5, <1>8, <1>9, <1>10 DEF m, p, n, F

\* A segment that begins in a message, or is its first.
LEMMA PartIs ==
    ASSUME NEW name \in Names, NEW p \in Nat \ {0}, NEW offset \in Nat,
           offset < FullLength(Outgoing[name])
    PROVE  LET m == Outgoing[name]
               l == SegmentLength(m, p, offset)
           IN  /\ l \in 1..p /\ offset + l <= FullLength(m)
               /\ l = p \/ offset + l = FullLength(m)
BY OutgoingIsMessage DEF SegmentLength

-----------------------------------------------------------------------------
(* The peer's table *)

\* A table of a message of some length.
TableOf(table, full) == Separate(table) /\ Disjoint(table) /\ \A s \in table : s.nextOffset <= full

\* It has the message up to some byte.
ReachesTo(table, n) == \E s \in table : s.offset = 0 /\ n <= s.nextOffset

\* A segment that lies in a message leaves a table of that message, and has the
\* table reach to its end if it reached to its beginning.
LEMMA InsertReaches ==
    ASSUME NEW full \in 0..MaxMessageLength, NEW table, TableOf(table, full),
           NEW offset \in Nat, NEW length \in Nat, offset + length <= full,
           HasRoom(table, Interval(offset, length))
    PROVE  LET after == manageDisjointSegmentInfo(table, Interval(offset, length))
           IN  /\ TableOf(after, full)
               /\ offset = 0 \/ ReachesTo(table, offset) => ReachesTo(after, offset + length)
<1> DEFINE new == Interval(offset, length)
           T == Merging(table, new)
           h == Hull(T)
           after == manageDisjointSegmentInfo(table, new)
<1>1. MaxMessageLength \in Nat
    BY BufferAssumption
<1>2. /\ new \in Intervals /\ new.offset = offset /\ new.nextOffset = offset + length
      /\ IsSegment(new)
    BY <1>1 DEF Interval, Intervals, IsSegment
<1> HIDE DEF new
<1>3. /\ h \in Intervals
      /\ \E s \in T : s.nextOffset = h.nextOffset
      /\ \A s \in T : h.offset <= s.offset /\ s.nextOffset <= h.nextOffset
    BY <1>2, HullBounds DEF TableOf
<1>4. after = (table \ Touched(table, new)) \cup {h}
    BY DEF manageDisjointSegmentInfo, Touched, Merging
<1>5. T = Touched(table, new) \cup {new}
    BY DEF Merging
<1> HIDE DEF h, after, T
<1>6. Disjoint(after)
    BY <1>2, InsertIsDisjoint DEF TableOf, after
<1>7. Separate(after)
    <2>1. IsFiniteSet(after) /\ Cardinality(after) <= MaxDisjointSegments
        BY InsertFits DEF TableOf, after, new
    <2> QED
        BY <1>6, <2>1 DEF Separate, Disjoint
<1>8. \A s \in after : s.nextOffset <= full
    <2>1. \A s \in T : s.nextOffset <= full
        BY <1>2, <1>5 DEF TableOf, Touched
    <2>2. h.nextOffset <= full
        BY <1>3, <2>1
    <2> QED
        BY <1>4, <2>2 DEF TableOf
<1>9. ASSUME offset = 0 \/ ReachesTo(table, offset)
      PROVE  ReachesTo(after, offset + length)
    <2>1. h \in after /\ new \in T /\ h.offset \in Nat /\ h.nextOffset \in Nat
        BY <1>1, <1>3, <1>4, <1>5 DEF Intervals
    <2>2. offset + length <= h.nextOffset
        BY <1>2, <1>3, <2>1
    <2>3. h.offset = 0
        <3>1. CASE offset = 0
            BY <1>2, <1>3, <2>1, <3>1
        <3>2. CASE ReachesTo(table, offset)
            <4>1. PICK s \in table : s.offset = 0 /\ offset <= s.nextOffset
                BY <3>2 DEF ReachesTo
            <4>2. Touches(s, new)
                BY <1>2, <4>1 DEF Touches
            <4>3. s \in T
                BY <1>5, <4>2 DEF Touched
            <4> QED
                BY <1>3, <2>1, <4>1, <4>3
        <3> QED
            BY <1>9, <3>1, <3>2
    <2> QED
        BY <2>1, <2>2, <2>3 DEF ReachesTo
<1> QED
    BY <1>6, <1>7, <1>8, <1>9 DEF TableOf, after, new

\* The same when a segment is kept unless the table has it already.
LEMMA KeptReaches ==
    ASSUME NEW full \in 0..MaxMessageLength, NEW table, TableOf(table, full),
           NEW g, SegmentOffset(g) \in Nat, DataLength(g) \in Nat,
           SegmentOffset(g) + DataLength(g) <= full, CanKeep(table, g)
    PROVE  /\ TableOf(Kept(table, g), full)
           /\ SegmentOffset(g) = 0 \/ ReachesTo(table, SegmentOffset(g)) =>
                 ReachesTo(Kept(table, g), SegmentOffset(g) + DataLength(g))
<1> DEFINE offset == SegmentOffset(g)
           length == DataLength(g)
<1>1. Part(g) = Interval(offset, length)
    BY DEF Part
<1>2. IsDuplicate(table, g) <=> isSegmentAlreadyReceived(table, offset, length)
    BY DEF IsDuplicate
<1> HIDE DEF offset, length
<1>3. offset \in Nat /\ length \in Nat /\ offset + length <= full
    BY DEF offset, length
<1>4. CASE ~IsDuplicate(table, g)
    <2>1. HasRoom(table, Interval(offset, length))
        BY <1>1, <1>4 DEF CanKeep
    <2>2. Kept(table, g) = manageDisjointSegmentInfo(table, Interval(offset, length))
        BY <1>1, <1>4 DEF Kept
    <2> QED
        BY <1>3, <2>1, <2>2, InsertReaches DEF offset, length
<1>5. CASE IsDuplicate(table, g)
    <2>1. Kept(table, g) = table
        BY <1>5 DEF Kept
    <2>2. (offset + length) % 65536 = offset + length
        BY <1>3, BufferAssumption, SenderAssumption
    <2>3. PICK s \in table : s.offset <= offset /\ offset + length <= s.nextOffset
        BY <1>2, <1>3, <1>5, <2>2 DEF isSegmentAlreadyReceived
    <2>4. ASSUME offset = 0 \/ ReachesTo(table, offset)
          PROVE  s.offset = 0
        <3>1. s.offset \in Nat /\ s.nextOffset \in Nat
            BY BufferAssumption DEF TableOf, Disjoint, Intervals
        <3>2. CASE offset = 0
            BY <2>3, <3>1, <3>2
        <3>3. CASE ReachesTo(table, offset)
            <4>1. PICK t \in table : t.offset = 0 /\ offset <= t.nextOffset
                BY <3>3 DEF ReachesTo
            <4>2. t.nextOffset \in Nat
                BY BufferAssumption DEF TableOf, Disjoint, Intervals
            <4>3. Touches(s, t)
                BY <1>3, <2>3, <3>1, <4>1, <4>2 DEF Touches
            <4> QED
                BY <4>1, <4>3 DEF TableOf, Disjoint
        <3> QED
            BY <2>4, <3>2, <3>3
    <2>5. offset = 0 \/ ReachesTo(table, offset) => ReachesTo(table, offset + length)
        BY <2>3, <2>4 DEF ReachesTo
    <2> QED
        BY <2>1, <2>5 DEF offset, length
<1> QED
    BY <1>4, <1>5

\* A table that reaches to the end of a message has nothing else.
LEMMA ReachesAll ==
    ASSUME NEW full \in 0..MaxMessageLength, NEW table, TableOf(table, full), ReachesTo(table, full)
    PROVE  table = {Interval(0, full)}
<1>1. PICK s \in table : s.offset = 0 /\ full <= s.nextOffset
    BY DEF ReachesTo
<1>2. s \in Intervals /\ s.nextOffset = full
    BY <1>1, BufferAssumption DEF TableOf, Disjoint, Intervals
<1>3. s = Interval(0, full)
    BY <1>1, <1>2 DEF Intervals, Interval
<1>4. ASSUME NEW t \in table PROVE t = s
    <2>1. t.offset \in Nat /\ t.nextOffset \in Nat /\ t.offset <= t.nextOffset /\ t.nextOffset <= full
        BY BufferAssumption DEF TableOf, Disjoint, Intervals
    <2>2. Touches(s, t)
        BY <1>1, <1>2, <2>1 DEF Touches
    <2> QED
        BY <2>2 DEF TableOf, Disjoint
<1> QED
    BY <1>3, <1>4

-----------------------------------------------------------------------------
(* The invariant *)

\* Nothing is asked of a message before there is one, and the split is one that
\* the messages and fragment sizes have.
IsSplit ==
    /\ working = Nothing => numberOfSegments = 0
    /\ numberOfSegments = 0 => calling = Nothing /\ triesLeft = 0 /\ ~pending
    /\ calling # Nothing => workingSegmentIndex < numberOfSegments
    /\ numberOfSegments \notin {0, 1} =>
          \E cut \in Splits : /\ segmentPayloadLength = PayloadLength(Outgoing[cut[1]], cut[2])
                              /\ numberOfSegments = NumberOfSegments(Outgoing[cut[1]], cut[2])

\* Unless it was refused or has failed, it is that of the working message.
IsSplitOfWorking ==
    reported # "failed" /\ working # Nothing =>
        /\ fragmentSize \in FragmentSizes
        /\ CanBeSegmented(WorkingMessage, fragmentSize)
        /\ numberOfSegments = NumberOfSegments(WorkingMessage, fragmentSize)
        /\ ~IsWhole(WorkingMessage, fragmentSize) =>
              segmentPayloadLength = PayloadLength(WorkingMessage, fragmentSize)

\* The peer's table is that of a message.
TableFits ==
    \/ received = NoSegments
    \/ received.of \in Names /\ TableOf(received.table, FullLength(Outgoing[received.of]))

PeerOK ==
    /\ received.of \in Names \cup {Nothing}
    /\ {whole, refused} \subseteq SUBSET Names
    /\ TableFits

\* The peer has the working message up to a segment.
HasUpTo(index) ==
    /\ received.of = working
    /\ ReachesTo(received.table, index * segmentPayloadLength)

\* It has what was sent, or all of it, or has refused a segment.
Covered ==
    reported # "failed" /\ working \notin whole \cup refused /\ workingSegmentIndex > 0 =>
        /\ numberOfSegments # 1
        /\ workingSegmentIndex * segmentPayloadLength < FullLength(WorkingMessage)
        /\ HasUpTo(workingSegmentIndex)

SenderInv ==
    /\ TypeOK
    /\ IsSplit
    /\ IsSplitOfWorking
    /\ TableFits
    /\ Covered
    /\ CompleteIsReceived

-----------------------------------------------------------------------------
(* The segment that is sent next *)

LEMMA SegmentsOfIs ==
    ASSUME NEW name \in Names, NEW p \in Payloads, NEW i \in Indices
    PROVE  SegmentsOf[<<name, p, i>>]
               = SegmentAt(Outgoing[name], i * p, SegmentLength(Outgoing[name], p, i * p))
<1>1. <<name, p, i>> \in Names \X Payloads \X Indices
    OBVIOUS
<1>2. SegmentsOf[<<name, p, i>>] = Segment(Outgoing[name], p, i)
    BY <1>1 DEF SegmentsOf
<1> QED
    BY <1>2 DEF Segment, SegmentAt

\* What is waited for is a segment of the working message.
LEMMA GetsSegment ==
    ASSUME SenderInv, calling # Nothing
    PROVE  /\ working \in Names
           /\ numberOfSegments \in 1..MaxMessageLength
           /\ workingSegmentIndex \in 0..(numberOfSegments - 1)
           /\ segmentPayloadLength \in Nat
           /\ numberOfSegments # 1 =>
                 /\ segmentPayloadLength \in Nat \ {0}
                 /\ GetSegment = SegmentAt(WorkingMessage, workingSegmentIndex * segmentPayloadLength,
                                     SegmentLength(WorkingMessage, segmentPayloadLength,
                                                   workingSegmentIndex * segmentPayloadLength))
           /\ numberOfSegments = 1 => GetSegment = WorkingMessage
<1> DEFINE n == numberOfSegments
           p == segmentPayloadLength
           i == workingSegmentIndex
<1>1. /\ working \in Names \cup {Nothing} /\ n \in 0..MaxMessageLength /\ p \in 0..MaxMessageLength
      /\ i \in 0..MaxMessageLength
    BY DEF SenderInv, TypeOK
<1>2. /\ n # 0 /\ working # Nothing /\ i < n
    BY DEF SenderInv, IsSplit
<1>3. /\ working \in Names /\ n \in 1..MaxMessageLength /\ i \in 0..(n - 1) /\ p \in Nat
    BY <1>1, <1>2, BufferAssumption
<1>4. ASSUME n # 1
      PROVE  p \in Nat \ {0} /\ p \in Payloads /\ i \in Indices
    <2>1. PICK cut \in Splits : /\ p = PayloadLength(Outgoing[cut[1]], cut[2])
                                /\ n = NumberOfSegments(Outgoing[cut[1]], cut[2])
        BY <1>2, <1>4 DEF SenderInv, IsSplit
    <2>2. /\ cut[1] \in Names /\ cut[2] \in FragmentSizes
          /\ CanBeSegmented(Outgoing[cut[1]], cut[2]) /\ ~IsWhole(Outgoing[cut[1]], cut[2])
        BY DEF Splits
    <2>3. p \in 1..MaxMessageLength
        BY <2>1, <2>2, SplitIs
    <2>4. p \in Payloads
        BY <2>1 DEF Payloads
    <2>5. i \in 0..NumberOfSegments(Outgoing[cut[1]], cut[2])
        BY <1>3, <2>1
    <2>6. i \in Indices
        BY <2>5 DEF Indices
    <2> QED
        BY <2>3, <2>4, <2>6, BufferAssumption
<1>5. n # 1 => GetSegment = SegmentsOf[<<working, p, i>>]
    BY DEF GetSegment
<1>6. n = 1 => GetSegment = WorkingMessage
    BY DEF GetSegment
<1> QED
    BY <1>3, <1>4, <1>5, <1>6, SegmentsOfIs DEF WorkingMessage

\* Unless the message was refused or has failed, it lies in the message and there
\* is room for it.
LEMMA NextSegment ==
    ASSUME SenderInv, calling # Nothing, reported # "failed"
    PROVE  IsInMessage /\ GetSegmentSucceeds /\ DataLinkTakesIt
<1> DEFINE n == numberOfSegments
           p == segmentPayloadLength
           i == workingSegmentIndex
           m == WorkingMessage
           g == GetSegment
<1>1. working \in Names /\ working # Nothing /\ i \in 0..(n - 1) /\ p \in Nat /\ n \in Nat \ {0}
    BY GetsSegment, SenderAssumption, BufferAssumption
<1>2. /\ fragmentSize \in FragmentSizes /\ CanBeSegmented(m, fragmentSize)
      /\ n = NumberOfSegments(m, fragmentSize)
      /\ ~IsWhole(m, fragmentSize) => p = PayloadLength(m, fragmentSize)
    BY <1>1 DEF SenderInv, IsSplitOfWorking
<1>3. m = Outgoing[working] /\ FullLength(m) \in Nat \ {0}
    BY <1>1, OutgoingIsMessage, BufferAssumption DEF WorkingMessage
<1>4. fragmentSize \in Nat /\ fragmentSize <= MaxSegmentedLength /\ MaxSegmentedLength \in Nat
    BY <1>2, SenderAssumption
<1>5. CASE IsWhole(m, fragmentSize)
    <2>1. n = 1 /\ FullLength(m) <= fragmentSize
        BY <1>2, <1>5 DEF NumberOfSegments, IsWhole
    <2>2. i = 0 /\ g = m
        BY <1>1, <2>1, GetsSegment
    <2> QED
        BY <1>3, <1>4, <2>1, <2>2 DEF IsInMessage, GetSegmentSucceeds, DataLinkTakesIt
<1>6. CASE ~IsWhole(m, fragmentSize)
    <2>1. /\ p = PayloadLength(m, fragmentSize) /\ p \in Nat \ {0} /\ n \in Nat /\ n # 1
          /\ \A j \in 0..(n - 1) : j * p < FullLength(m)
        BY <1>2, <1>3, <1>6, SplitIs, <1>1
    <2> DEFINE offset == i * p
               length == SegmentLength(m, p, offset)
    <2>2. offset \in Nat /\ offset < FullLength(m)
        <3>1. offset < FullLength(m)
            BY <1>1, <2>1
        <3>2. i \in Nat
            BY <1>1
        <3> QED
            BY <1>1, <3>1, <3>2, Multiples
    <2>3. g = SegmentAt(m, offset, length)
        BY <2>1, GetsSegment
    <2>4. length \in 1..p
        BY <1>1, <1>3, <2>1, <2>2, PartIs
    <2> HIDE DEF offset, length, g
    <2>5. length \in Nat /\ 1 <= length /\ length <= p
        BY <1>1, <2>4
    <2>6. FullLength(g) <= fragmentSize /\ ElementsFit(g)
        BY <1>1, <1>2, <1>3, <2>1, <2>2, <2>3, <2>5, SegmentHasRoom
    <2> QED
        BY <2>1, <2>2, <2>6 DEF IsInMessage, GetSegmentSucceeds, DataLinkTakesIt, offset, g
<1> QED
    BY <1>5, <1>6

\* What the peer reads of it.
LEMMA NextSegmentIsRead ==
    ASSUME SenderInv, calling # Nothing, IsInMessage, numberOfSegments # 1
    PROVE  LET m == WorkingMessage
               g == GetSegment
               offset == workingSegmentIndex * segmentPayloadLength
           IN  /\ StandardOf(g) = m.standard
               /\ IsSegmented(g)
               /\ CallingApInvocationId(g) = CallingApInvocationId(m)
               /\ SegmentOffset(g) = offset /\ offset \in Nat
               /\ SegmentFullLength(g) = FullLength(m) /\ FullLength(m) \in 0..MaxMessageLength
               /\ DataLength(g) \in Nat /\ offset + DataLength(g) <= FullLength(m)
               /\ DataLength(g) = segmentPayloadLength \/ offset + DataLength(g) = FullLength(m)
<1> DEFINE p == segmentPayloadLength
           i == workingSegmentIndex
           m == WorkingMessage
           g == GetSegment
           offset == i * p
           length == SegmentLength(m, p, offset)
<1>1. /\ working \in Names /\ i \in Nat /\ p \in Nat \ {0}
      /\ g = SegmentAt(m, offset, length)
    BY GetsSegment, BufferAssumption
<1>2. m = Outgoing[working] /\ FullLength(m) \in 1..MaxMessageLength
    BY <1>1, OutgoingIsMessage DEF WorkingMessage
<1>3. offset \in Nat
    BY <1>1, Multiples
<1>4. offset < FullLength(m)
    <2>1. CASE i = 0
        BY <1>1, <1>2, <2>1, BufferAssumption
    <2>2. CASE i > 0
        BY <2>2 DEF IsInMessage
    <2> QED
        BY <1>1, <2>1, <2>2
<1>5. /\ length \in 1..p /\ offset + length <= FullLength(m)
      /\ length = p \/ offset + length = FullLength(m)
    BY <1>1, <1>2, <1>3, <1>4, PartIs
<1> HIDE DEF offset, length, g, m
<1>6. length \in Nat
    BY <1>1, <1>5
<1>7. /\ StandardOf(g) = m.standard /\ IsSegmented(g) /\ SegmentOffset(g) = offset
      /\ SegmentFullLength(g) = FullLength(m) /\ DataLength(g) = length
      /\ CallingApInvocationId(g) = CallingApInvocationId(m)
    BY <1>1, <1>2, <1>3, <1>6, SegmentIsRead
<1>8. FullLength(m) \in 0..MaxMessageLength
    BY <1>2, BufferAssumption
<1> QED
    BY <1>3, <1>5, <1>6, <1>7, <1>8 DEF offset, g, m

-----------------------------------------------------------------------------
(* What the peer does with a segment *)

LEMMA EmptyTable == \A full : Separate({}) /\ TableOf({}, full)
<1>1. IsFiniteSet({}) /\ Cardinality({}) = 0
    BY FS_EmptySet
<1>2. Separate({})
    BY <1>1, BufferAssumption DEF Separate
<1>3. Disjoint({})
    BY DEF Disjoint
<1> QED
    BY <1>2, <1>3 DEF TableOf

\* The table that a segment of a message is added to.
LEMMA TableIs ==
    ASSUME TableFits, NEW name \in Names
    PROVE  TableOf(Table(name), FullLength(Outgoing[name]))
<1>1. CASE received.of = name
    <2>1. received # NoSegments
        BY <1>1, SenderAssumption DEF NoSegments
    <2>2. TableOf(received.table, FullLength(Outgoing[name]))
        BY <1>1, <2>1 DEF TableFits
    <2> QED
        BY <1>1, <2>2 DEF Table
<1>2. CASE received.of # name
    BY <1>2, EmptyTable DEF Table
<1> QED
    BY <1>1, <1>2

\* The peer forgets nothing of the message it has up to a segment.
PeerLearns ==
    /\ PeerOK'
    /\ whole \subseteq whole' /\ refused \subseteq refused'
    /\ numberOfSegments # 1 /\ HasUpTo(workingSegmentIndex) /\ working \notin whole' \cup refused' =>
          /\ received'.of = working
          /\ ReachesTo(received'.table, workingSegmentIndex * segmentPayloadLength)

\* It has the message up to the next segment.
PeerAdvances ==
    /\ numberOfSegments # 1
    /\ (workingSegmentIndex + 1) * segmentPayloadLength < FullLength(WorkingMessage)
    /\ received'.of = working
    /\ ReachesTo(received'.table, (workingSegmentIndex + 1) * segmentPayloadLength)

LEMMA AddsSegment ==
    ASSUME SenderInv, calling # Nothing, IsInMessage, AddSegment(working, GetSegment)
    PROVE  /\ replies' \in Seq({"OK", "NETR", "ERR"})
           /\ PeerLearns
           /\ workingSegmentIndex = 0 \/ HasUpTo(workingSegmentIndex) =>
                 working \in whole' \cup refused' \/ PeerAdvances
<1> DEFINE n == numberOfSegments
           i == workingSegmentIndex
           p == segmentPayloadLength
           g == GetSegment
           table == Table(working)
           full == FullLength(WorkingMessage)
           k == DataLength(g)
<1>1. /\ replies \in Seq({"OK", "NETR", "ERR"}) /\ whole \subseteq Names /\ refused \subseteq Names
      /\ received.of \in Names \cup {Nothing} /\ TableFits
    BY DEF SenderInv, TypeOK
<1>2. /\ working \in Names /\ i \in Nat /\ p \in Nat /\ n \in Nat /\ working # Nothing
    BY GetsSegment, BufferAssumption, SenderAssumption
<1>3. TableOf(table, full)
    BY <1>1, <1>2, TableIs DEF WorkingMessage
<1>4. \/ /\ n # 1 /\ ~CanKeep(table, g)
         /\ replies' = Append(replies, "ERR")
         /\ refused' = refused \cup {working} /\ received' = received /\ whole' = whole
      \/ /\ n = 1 \/ CanKeep(table, g)
         /\ replies' = Append(replies, "OK") /\ refused' = refused
         /\ \/ /\ n = 1 \/ IsWholeWith(table, g)
               /\ whole' = whole \cup {working} /\ received' = NoSegments
            \/ /\ n # 1 /\ ~IsWholeWith(table, g)
               /\ received' = [of |-> working, table |-> Kept(table, g)] /\ whole' = whole
    BY DEF AddSegment
<1> HIDE DEF g, table, full
<1>5. replies' \in Seq({"OK", "NETR", "ERR"})
    BY <1>1, <1>4
<1>6. whole \subseteq whole' /\ refused \subseteq refused' /\ whole' \subseteq Names /\ refused' \subseteq Names
    BY <1>1, <1>2, <1>4
<1>7. CASE n # 1 /\ ~CanKeep(table, g)
    <2>1. working \in refused' /\ received' = received
        BY <1>4, <1>7
    <2>2. PeerOK'
        BY <1>1, <1>6, <2>1 DEF PeerOK, TableFits
    <2> QED
        BY <1>5, <1>6, <2>1, <2>2 DEF PeerLearns
<1>8. CASE n = 1 \/ (IsWholeWith(table, g) /\ CanKeep(table, g))
    <2>1. working \in whole' /\ received' = NoSegments
        BY <1>4, <1>8
    <2>2. PeerOK'
        BY <1>6, <2>1 DEF PeerOK, TableFits, NoSegments
    <2> QED
        BY <1>5, <1>6, <2>1, <2>2 DEF PeerLearns
<1>9. CASE n # 1 /\ ~IsWholeWith(table, g) /\ CanKeep(table, g)
    <2> DEFINE offset == i * p
               after == Kept(table, g)
    <2>1. /\ SegmentOffset(g) = offset /\ offset \in Nat /\ SegmentFullLength(g) = full
          /\ full \in 0..MaxMessageLength /\ full \in Nat
          /\ k \in Nat /\ offset + k <= full
          /\ k = p \/ offset + k = full
        BY <1>9, NextSegmentIsRead, BufferAssumption DEF g, full
    <2>2. received'.of = working /\ received'.table = after
        BY <1>4, <1>9
    <2>3. /\ TableOf(after, full)
          /\ offset = 0 \/ ReachesTo(table, offset) => ReachesTo(after, offset + k)
        BY <1>3, <1>9, <2>1, KeptReaches
    <2>4. PeerOK'
        BY <1>2, <1>6, <2>2, <2>3 DEF PeerOK, TableFits, full, WorkingMessage
    <2>5. HasUpTo(i) => ReachesTo(table, offset)
        BY DEF HasUpTo, table, Table
    <2>6. i = 0 => offset = 0
        BY <1>2
    <2>7. after # {Interval(0, full)}
        BY <1>9, <2>1 DEF IsWholeWith
    <2> HIDE DEF offset, after, k
    <2>8. ASSUME i = 0 \/ HasUpTo(i)
          PROVE  ReachesTo(after, offset + k) /\ offset + k < full /\ k = p
        <3>1. ReachesTo(after, offset + k)
            BY <2>3, <2>5, <2>6, <2>8
        <3>2. offset + k # full
            BY <2>1, <2>3, <2>7, <3>1, ReachesAll
        <3> QED
            BY <2>1, <3>1, <3>2
    <2>9. HasUpTo(i) => ReachesTo(after, offset)
        <3>1. ReachesTo(after, offset + k) => ReachesTo(after, offset)
            <4>1. \A s \in after : s.nextOffset \in Nat
                BY <2>3, BufferAssumption DEF TableOf, Disjoint, Intervals
            <4> QED
                BY <2>1, <4>1 DEF ReachesTo
        <3> QED
            BY <2>8, <3>1
    <2>10. i = 0 \/ HasUpTo(i) => PeerAdvances
        <3>1. (i + 1) * p = offset + p
            BY <1>2 DEF offset
        <3> QED
            BY <1>9, <2>2, <2>8, <3>1 DEF PeerAdvances, full
    <2>11. PeerLearns
        BY <1>6, <2>2, <2>4, <2>9 DEF PeerLearns, offset
    <2> QED
        BY <1>5, <2>10, <2>11
<1> QED
    BY <1>7, <1>8, <1>9

\* It may refuse a segment.
LEMMA RefusesSegment ==
    ASSUME SenderInv, working \in Names, refused' = refused \cup {working}, UNCHANGED <<received, whole>>
    PROVE  PeerLearns
<1>1. PeerOK'
    BY DEF PeerOK, TableFits, SenderInv, TypeOK
<1> QED
    BY <1>1 DEF PeerLearns

LEMMA PeerUnchanged ==
    ASSUME SenderInv, UNCHANGED peer
    PROVE  PeerLearns
<1>1. received' = received /\ whole' = whole /\ refused' = refused
    BY DEF peer
<1>2. PeerOK'
    BY <1>1 DEF PeerOK, TableFits, SenderInv, TypeOK
<1> QED
    BY <1>1, <1>2 DEF PeerLearns, HasUpTo

-----------------------------------------------------------------------------
(* The steps keep the invariant *)

\* A step that leaves the working message and its split alone, and sends nothing.
OthersOK ==
    /\ state \in {"idle", "sending"}
    /\ triesLeft \in 0..Retries
    /\ calling \in Callers \cup {Nothing}
    /\ {timedOut, pending, failureOwed} \subseteq BOOLEAN
    /\ replies \in Seq({"OK", "NETR", "ERR"})
    /\ reported \in {"none", "complete", "failed"}

LEMMA TypesAreKept ==
    ASSUME SenderInv, UNCHANGED split, workingSegmentIndex' \in 0..MaxMessageLength, PeerOK', OthersOK'
    PROVE  TypeOK'
<1>1. Separate(received'.table)
    <2>1. CASE received' = NoSegments
        BY <2>1, EmptyTable DEF NoSegments
    <2>2. CASE received' # NoSegments
        BY <2>2 DEF PeerOK, TableFits, TableOf
    <2> QED
        BY <2>1, <2>2
<1>2. /\ working' \in Names \cup {Nothing} /\ fragmentSize' \in FragmentSizes \cup {0}
      /\ numberOfSegments' \in 0..MaxMessageLength /\ segmentPayloadLength' \in 0..MaxMessageLength
    BY DEF SenderInv, TypeOK, split
<1>3. received'.of \in Names \cup {Nothing} /\ whole' \subseteq Names /\ refused' \subseteq Names
    BY DEF PeerOK
<1> QED
    BY <1>1, <1>2, <1>3 DEF TypeOK, OthersOK

LEMMA QuietStep ==
    ASSUME SenderInv, UNCHANGED split, PeerLearns, OthersOK',
           workingSegmentIndex' \in {0, workingSegmentIndex},
           calling' # Nothing => workingSegmentIndex' < numberOfSegments,
           numberOfSegments = 0 => triesLeft' = 0 /\ ~pending' /\ calling' = Nothing,
           reported' # "failed" => reported # "failed",
           reported' = "complete" => working \in whole' \cup refused'
    PROVE  SenderInv'
<1> USE DEF split
<1>1. workingSegmentIndex \in 0..MaxMessageLength
    BY DEF SenderInv, TypeOK
<1>2. TypeOK'
    <2>1. workingSegmentIndex' \in 0..MaxMessageLength
        BY <1>1, BufferAssumption
    <2> QED
        BY <2>1, TypesAreKept DEF PeerLearns
<1>3. IsSplit'
    BY DEF SenderInv, IsSplit
<1>4. IsSplitOfWorking'
    BY DEF SenderInv, IsSplitOfWorking, WorkingMessage
<1>5. TableFits'
    BY DEF PeerLearns, PeerOK
<1>6. Covered'
    <2> SUFFICES ASSUME reported' # "failed", working \notin whole' \cup refused', workingSegmentIndex' > 0
                 PROVE  /\ numberOfSegments # 1
                        /\ workingSegmentIndex' * segmentPayloadLength < FullLength(WorkingMessage)
                        /\ received'.of = working
                        /\ ReachesTo(received'.table, workingSegmentIndex' * segmentPayloadLength)
        BY DEF Covered, HasUpTo, WorkingMessage
    <2>1. workingSegmentIndex' = workingSegmentIndex /\ workingSegmentIndex > 0
        BY <1>1
    <2>2. working \notin whole \cup refused
        BY DEF PeerLearns
    <2>3. /\ numberOfSegments # 1
          /\ workingSegmentIndex * segmentPayloadLength < FullLength(WorkingMessage)
          /\ HasUpTo(workingSegmentIndex)
        BY <2>1, <2>2 DEF SenderInv, Covered
    <2> QED
        BY <2>1, <2>3 DEF PeerLearns
<1>7. CompleteIsReceived'
    BY DEF CompleteIsReceived
<1> QED
    BY <1>2, <1>3, <1>4, <1>5, <1>6, <1>7 DEF SenderInv

\* The message is sent again from its first segment, or given up.
LEMMA RestartStep ==
    ASSUME SenderInv, UNCHANGED split, PeerLearns, NEW who \in Callers, RestartSend(who),
           {timedOut', pending', failureOwed'} \subseteq BOOLEAN, pending' => pending,
           replies' \in Seq({"OK", "NETR", "ERR"})
    PROVE  SenderInv'
<1>1. /\ state \in {"idle", "sending"} /\ triesLeft \in 0..Retries /\ numberOfSegments \in 0..MaxMessageLength
      /\ reported \in {"none", "complete", "failed"}
    BY DEF SenderInv, TypeOK
<1>2. numberOfSegments = 0 => triesLeft = 0 /\ ~pending
    BY DEF SenderInv, IsSplit
<1>3. reported = "complete" => working \in whole' \cup refused'
    BY DEF SenderInv, CompleteIsReceived, PeerLearns
<1>4. CASE /\ triesLeft > 0 /\ triesLeft' = triesLeft - 1
           /\ workingSegmentIndex' = 0 /\ calling' = who
           /\ UNCHANGED <<state, reported>>
    <2>1. triesLeft' \in 0..Retries /\ numberOfSegments # 0 /\ 0 < numberOfSegments
        BY <1>1, <1>2, <1>4, SenderAssumption, BufferAssumption
    <2>2. OthersOK'
        BY <1>1, <1>4, <2>1 DEF OthersOK
    <2> QED
        BY <1>3, <1>4, <2>1, <2>2, QuietStep
<1>5. CASE /\ triesLeft = 0 /\ calling' = Nothing /\ GiveUp(who)
           /\ UNCHANGED <<workingSegmentIndex, triesLeft>>
    <2>1. /\ state' \in {"idle", "sending"}
          /\ reported' \in {reported, "failed"} /\ (reported = "failed" => reported' = "failed")
        BY <1>1, <1>5 DEF GiveUp, NoteLinkFailure, Report
    <2>2. OthersOK'
        BY <1>1, <1>5, <2>1 DEF OthersOK
    <2>3. /\ reported' # "failed" => reported # "failed"
          /\ reported' = "complete" => working \in whole' \cup refused'
        BY <1>3, <2>1
    <2> QED
        BY <1>2, <1>5, <2>2, <2>3, QuietStep
<1> QED
    BY <1>4, <1>5 DEF RestartSend, ContinueSend

LEMMA RestartIsOf ==
    NoteFailedSendMessage => RestartSend("NoteFailedSendMessage") /\ UNCHANGED split
BY DEF NoteFailedSendMessage

LEMMA SendMessageStep ==
    ASSUME SenderInv, NEW name \in Names, NEW fragment \in FragmentSizes, SendMessage(name, fragment)
    PROVE  SenderInv'
<1> DEFINE m == Outgoing[name]
<1>1. /\ state \in {"idle", "sending"} /\ triesLeft \in 0..Retries /\ calling = Nothing /\ ~pending
      /\ numberOfSegments \in 0..MaxMessageLength /\ segmentPayloadLength \in 0..MaxMessageLength
      /\ {timedOut, pending, failureOwed} \subseteq BOOLEAN /\ replies \in Seq({"OK", "NETR", "ERR"})
      /\ Separate(received.table) /\ received.of \in Names \cup {Nothing}
      /\ whole \subseteq Names /\ refused \subseteq Names
    BY DEF SenderInv, TypeOK, SendMessage
<1>2. /\ working' = name /\ fragmentSize' = fragment /\ workingSegmentIndex' = 0
      /\ received' = (IF received.of = name THEN NoSegments ELSE received)
      /\ whole' = whole \ {name} /\ refused' = refused \ {name}
      /\ state' = state /\ timedOut' = timedOut
      /\ pending' = pending /\ failureOwed' = failureOwed /\ replies' = replies
      /\ name # Nothing
    BY SenderAssumption DEF SendMessage, link
<1>3. \/ /\ CanBeSegmented(m, fragment)
         /\ numberOfSegments' = NumberOfSegments(m, fragment)
         /\ segmentPayloadLength' = IF IsWhole(m, fragment) THEN segmentPayloadLength
                                    ELSE PayloadLength(m, fragment)
         /\ triesLeft' = Retries /\ calling' = "SendMessage" /\ reported' = "none"
      \/ /\ ~CanBeSegmented(m, fragment) /\ reported' = "failed"
         /\ UNCHANGED <<numberOfSegments, segmentPayloadLength, triesLeft, calling>>
    BY DEF SendMessage, ContinueSend
<1>4. WorkingMessage' = m
    BY <1>2 DEF WorkingMessage
<1>5. CanBeSegmented(m, fragment) /\ ~IsWhole(m, fragment) =>
            /\ PayloadLength(m, fragment) \in 0..MaxMessageLength
            /\ NumberOfSegments(m, fragment) \in 2..MaxMessageLength
            /\ <<name, fragment>> \in Splits
    <2>1. ASSUME CanBeSegmented(m, fragment), ~IsWhole(m, fragment)
          PROVE  <<name, fragment>> \in Splits
        BY <2>1 DEF Splits
    <2> QED
        BY <2>1, SplitIs, BufferAssumption
<1>6. IsWhole(m, fragment) => NumberOfSegments(m, fragment) = 1
    BY DEF NumberOfSegments
<1> HIDE DEF m
<1>7. received' = NoSegments \/ received' = received
    BY <1>2
<1>8. Separate(received'.table) /\ received'.of \in Names \cup {Nothing}
    <2>1. CASE received' = NoSegments
        BY <2>1, EmptyTable DEF NoSegments
    <2>2. CASE received' = received
        BY <1>1, <2>2
    <2> QED
        BY <1>7, <2>1, <2>2
<1>9. TableFits'
    BY <1>7 DEF SenderInv, TableFits
<1>10. /\ numberOfSegments' \in 0..MaxMessageLength /\ segmentPayloadLength' \in 0..MaxMessageLength
       /\ triesLeft' \in 0..Retries /\ calling' \in Callers \cup {Nothing} /\ reported' \in {"none", "failed"}
    <2>1. 1 \in 0..MaxMessageLength /\ 2..MaxMessageLength \subseteq 0..MaxMessageLength /\ Retries \in 0..Retries
        BY BufferAssumption, SenderAssumption
    <2> QED
        BY <1>1, <1>3, <1>5, <1>6, <2>1 DEF Callers
<1>11. TypeOK'
    <2>1. workingSegmentIndex' \in 0..MaxMessageLength
        BY <1>2, BufferAssumption
    <2>2. /\ working' \in Names \cup {Nothing} /\ fragmentSize' \in FragmentSizes \cup {0}
          /\ whole' \subseteq Names /\ refused' \subseteq Names
        BY <1>1, <1>2
    <2>3. reported' \in {"none", "complete", "failed"}
        BY <1>10
    <2> QED
        BY <1>1, <1>2, <1>8, <1>10, <2>1, <2>2, <2>3 DEF TypeOK
<1>12. IsSplit'
    <2>1. CASE CanBeSegmented(m, fragment) /\ IsWhole(m, fragment)
        <3>1. numberOfSegments' = 1
            BY <1>3, <1>6, <2>1
        <3> QED
            BY <1>2, <3>1 DEF IsSplit
    <2>2. CASE CanBeSegmented(m, fragment) /\ ~IsWhole(m, fragment)
        <3>1. /\ numberOfSegments' = NumberOfSegments(m, fragment)
              /\ segmentPayloadLength' = PayloadLength(m, fragment)
            BY <1>3, <2>2
        <3>2. numberOfSegments' \in 2..MaxMessageLength
            BY <1>5, <2>2, <3>1
        <3>3. numberOfSegments' # 0 /\ 0 < numberOfSegments'
            BY <3>2, BufferAssumption
        <3>4. \E cut \in Splits : /\ segmentPayloadLength' = PayloadLength(Outgoing[cut[1]], cut[2])
                                  /\ numberOfSegments' = NumberOfSegments(Outgoing[cut[1]], cut[2])
            <4>1. <<name, fragment>> \in Splits
                BY <1>5, <2>2
            <4> QED
                BY <3>1, <4>1 DEF m
        <3> QED
            BY <1>2, <3>3, <3>4 DEF IsSplit
    <2>3. CASE ~CanBeSegmented(m, fragment)
        <3>1. UNCHANGED <<numberOfSegments, segmentPayloadLength, triesLeft, calling>>
            BY <1>3, <2>3
        <3> QED
            BY <1>1, <1>2, <3>1 DEF SenderInv, IsSplit
    <2> QED
        BY <2>1, <2>2, <2>3
<1>13. IsSplitOfWorking'
    BY <1>2, <1>3, <1>4 DEF IsSplitOfWorking
<1>14. Covered'
    BY <1>2 DEF Covered
<1>15. CompleteIsReceived'
    BY <1>10 DEF CompleteIsReceived
<1> QED
    BY <1>9, <1>11, <1>12, <1>13, <1>14, <1>15 DEF SenderInv

LEMMA GetSegmentFailsStep == SenderInv /\ GetSegmentFails => SenderInv'
<1> SUFFICES ASSUME SenderInv, GetSegmentFails PROVE SenderInv'
    OBVIOUS
<1>1. /\ calling' = Nothing /\ GiveUp(calling)
      /\ UNCHANGED <<split, workingSegmentIndex, triesLeft, timedOut, pending, failureOwed, replies, peer>>
    BY DEF GetSegmentFails, link
<1>2. OthersOK
    BY DEF SenderInv, TypeOK, OthersOK
<1>3. /\ state' \in {"idle", "sending"}
      /\ reported' \in {reported, "failed"} /\ (reported = "failed" => reported' = "failed")
    BY <1>1, <1>2 DEF GiveUp, NoteLinkFailure, Report, OthersOK
<1>4. OthersOK'
    BY <1>1, <1>2, <1>3 DEF OthersOK
<1>5. PeerLearns
    BY <1>1, PeerUnchanged
<1>6. reported' = "complete" => working \in whole' \cup refused'
    BY <1>3, <1>5 DEF PeerLearns, SenderInv, CompleteIsReceived
<1>7. numberOfSegments = 0 => triesLeft' = 0 /\ ~pending'
    BY <1>1 DEF SenderInv, IsSplit
<1> QED
    BY <1>1, <1>3, <1>4, <1>5, <1>6, <1>7, QuietStep

\* What comes of a segment that the peer was sent, or may have been sent.
LEMMA TransportTakesStep == SenderInv /\ TransportTakes => SenderInv'
<1> SUFFICES ASSUME SenderInv, TransportTakes PROVE SenderInv'
    OBVIOUS
<1> DEFINE i == workingSegmentIndex
           n == numberOfSegments
           p == segmentPayloadLength
<1>1. /\ calling # Nothing /\ IsInMessage /\ SegmentIsSent /\ pending' = TRUE
      /\ UNCHANGED <<split, triesLeft, failureOwed, reported>>
    BY DEF TransportTakes
<1>2. /\ working \in Names /\ n \in 1..MaxMessageLength /\ i \in 0..(n - 1) /\ p \in Nat
    BY <1>1, GetsSegment
<1>3. /\ i' = i + 1 /\ calling' = Nothing /\ state' \in {state, "sending"}
      /\ timedOut' \in {timedOut, FALSE}
    BY <1>1 DEF SegmentIsSent
<1>4. /\ replies' \in Seq({"OK", "NETR", "ERR"}) /\ PeerLearns
      /\ i = 0 \/ HasUpTo(i) => working \in whole' \cup refused' \/ PeerAdvances
    <2>1. CASE \E segment \in {GetSegment} : AddSegment(working, segment)
        <3>1. AddSegment(working, GetSegment)
            BY <2>1
        <3> QED
            BY <1>1, <3>1, AddsSegment
    <2>2. CASE \E error \in {"NETR", "ERR"} :
                  /\ replies' = Append(replies, error)
                  /\ refused' = refused \cup {working}
                  /\ UNCHANGED <<received, whole>>
        <3>1. PeerLearns
            BY <1>2, <2>2, RefusesSegment
        <3>2. replies \in Seq({"OK", "NETR", "ERR"})
            BY DEF SenderInv, TypeOK
        <3> QED
            BY <2>2, <3>1, <3>2
    <2> QED
        BY <2>1, <2>2 DEF TransportTakes
<1>5. OthersOK'
    BY <1>1, <1>3, <1>4 DEF OthersOK, SenderInv, TypeOK
<1>6. i + 1 \in 0..MaxMessageLength /\ i + 1 \in Nat /\ n # 0 /\ working # Nothing
    BY <1>2, BufferAssumption, SenderAssumption
<1>7. TypeOK'
    BY <1>1, <1>3, <1>4, <1>5, <1>6, TypesAreKept DEF PeerLearns
<1>8. IsSplit'
    BY <1>1, <1>3, <1>6 DEF split, SenderInv, IsSplit
<1>9. IsSplitOfWorking'
    BY <1>1 DEF split, SenderInv, IsSplitOfWorking, WorkingMessage
<1>10. TableFits'
    BY <1>4 DEF PeerLearns, PeerOK
<1>11. Covered'
    <2> SUFFICES ASSUME reported # "failed", working \notin whole' \cup refused'
                 PROVE  /\ n # 1 /\ (i + 1) * p < FullLength(WorkingMessage)
                        /\ received'.of = working /\ ReachesTo(received'.table, (i + 1) * p)
        BY <1>1, <1>3 DEF Covered, HasUpTo, WorkingMessage, split
    <2>1. working \notin whole \cup refused
        BY <1>4 DEF PeerLearns
    <2>2. i = 0 \/ HasUpTo(i)
        BY <1>2, <2>1 DEF SenderInv, Covered
    <2> QED
        BY <1>4, <2>2 DEF PeerAdvances
<1>12. CompleteIsReceived'
    BY <1>1, <1>4 DEF PeerLearns, SenderInv, CompleteIsReceived, split
<1> QED
    BY <1>7, <1>8, <1>9, <1>10, <1>11, <1>12 DEF SenderInv

LEMMA TransportFailsStep == SenderInv /\ TransportFails => SenderInv'
<1> SUFFICES ASSUME SenderInv, TransportFails PROVE SenderInv'
    OBVIOUS
<1>1. /\ calling # Nothing /\ IsInMessage /\ RestartSend(calling)
      /\ UNCHANGED <<split, timedOut, pending, failureOwed>>
    BY DEF TransportFails
<1>2. /\ calling \in Callers /\ {timedOut, pending, failureOwed} \subseteq BOOLEAN
      /\ replies \in Seq({"OK", "NETR", "ERR"})
    BY <1>1 DEF SenderInv, TypeOK
<1>3. \/ UNCHANGED <<peer, replies>>
      \/ \E segment \in {GetSegment} : AddSegment(working, segment)
    BY DEF TransportFails
<1>4. PeerLearns /\ replies' \in Seq({"OK", "NETR", "ERR"})
    <2>1. CASE UNCHANGED <<peer, replies>>
        BY <1>2, <2>1, PeerUnchanged
    <2>2. CASE \E segment \in {GetSegment} : AddSegment(working, segment)
        <3>1. AddSegment(working, GetSegment)
            BY <2>2
        <3> QED
            BY <1>1, <3>1, AddsSegment
    <2> QED
        BY <1>3, <2>1, <2>2
<1> QED
    BY <1>1, <1>2, <1>4, RestartStep

LEMMA ReplyArrivesStep == SenderInv /\ ReplyArrives => SenderInv'
<1> SUFFICES ASSUME SenderInv, ReplyArrives PROVE SenderInv'
    OBVIOUS
<1>1. /\ calling = Nothing /\ replies # <<>> /\ replies' = Tail(replies) /\ pending' = FALSE
      /\ timedOut' = timedOut /\ UNCHANGED peer
    BY DEF ReplyArrives
<1>2. OthersOK
    BY DEF SenderInv, TypeOK, OthersOK
<1>3. replies' \in Seq({"OK", "NETR", "ERR"})
    BY <1>1, <1>2 DEF OthersOK
<1>4. PeerLearns
    BY <1>1, PeerUnchanged
<1>5. numberOfSegments \in Nat /\ workingSegmentIndex \in Nat
    BY BufferAssumption DEF SenderInv, TypeOK
<1>6. numberOfSegments = 0 => triesLeft = 0 /\ ~pending
    BY DEF SenderInv, IsSplit
<1>7. reported = "complete" => working \in whole' \cup refused'
    BY <1>4 DEF SenderInv, CompleteIsReceived, PeerLearns
<1>8. CASE pending /\ ContinueMessageSend /\ UNCHANGED <<split, failureOwed>>
    <2>1. CASE IsMessageComplete
        <3>1. state' = "idle" /\ Report("complete") /\ UNCHANGED place
            BY <1>8, <2>1 DEF ContinueMessageSend
        <3>2. reported = "none" => working \in whole \cup refused
            <4> SUFFICES ASSUME reported = "none", working \notin whole \cup refused
                         PROVE  FALSE
                OBVIOUS
            <4>1. workingSegmentIndex >= numberOfSegments /\ numberOfSegments # 0 /\ workingSegmentIndex > 0
                BY <1>5, <1>6, <1>8, <2>1 DEF IsMessageComplete
            <4>2. /\ numberOfSegments # 1
                  /\ workingSegmentIndex * segmentPayloadLength < FullLength(WorkingMessage)
                BY <4>1 DEF SenderInv, Covered
            <4>3. working \in Names
                BY <4>1 DEF SenderInv, TypeOK, IsSplit
            <4>4. /\ fragmentSize \in FragmentSizes /\ CanBeSegmented(WorkingMessage, fragmentSize)
                  /\ numberOfSegments = NumberOfSegments(WorkingMessage, fragmentSize)
                  /\ ~IsWhole(WorkingMessage, fragmentSize) =>
                        segmentPayloadLength = PayloadLength(WorkingMessage, fragmentSize)
                BY <4>3, SenderAssumption DEF SenderInv, IsSplitOfWorking
            <4>5. ~IsWhole(WorkingMessage, fragmentSize)
                BY <4>2, <4>4 DEF NumberOfSegments
            <4>6. /\ FullLength(WorkingMessage) <= numberOfSegments * segmentPayloadLength
                  /\ segmentPayloadLength \in 1..MaxMessageLength
                BY <4>3, <4>4, <4>5, SplitIs DEF WorkingMessage
            <4>7. /\ numberOfSegments * segmentPayloadLength <= workingSegmentIndex * segmentPayloadLength
                  /\ numberOfSegments * segmentPayloadLength \in Nat
                  /\ workingSegmentIndex * segmentPayloadLength \in Nat
                <5>1. segmentPayloadLength \in Nat
                    BY <4>6, BufferAssumption
                <5> QED
                    BY <1>5, <4>1, <5>1, Multiples
            <4>8. FullLength(WorkingMessage) \in Nat
                BY <4>3, OutgoingIsMessage, BufferAssumption DEF WorkingMessage
            <4> QED
                BY <4>2, <4>6, <4>7, <4>8
        <3>3. /\ reported' \in {"none", "complete", "failed"}
              /\ reported' # "failed" => reported # "failed"
              /\ reported' = "complete" => working \in whole' \cup refused'
            BY <1>2, <1>4, <1>7, <3>1, <3>2 DEF Report, OthersOK, PeerLearns
        <3>4. OthersOK'
            BY <1>1, <1>2, <1>3, <1>8, <3>1, <3>3 DEF OthersOK, place
        <3> QED
            BY <1>1, <1>4, <1>6, <1>8, <3>1, <3>3, <3>4, QuietStep DEF place
    <2>2. CASE ~IsMessageComplete
        <3>1. /\ calling' = "ContinueMessageSend"
              /\ UNCHANGED <<state, reported, workingSegmentIndex, triesLeft>>
            BY <1>8, <2>2 DEF ContinueMessageSend, ContinueSend
        <3>2. workingSegmentIndex < numberOfSegments
            BY <1>5, <2>2 DEF IsMessageComplete
        <3>3. OthersOK'
            BY <1>1, <1>2, <1>3, <1>8, <3>1 DEF OthersOK, Callers
        <3>4. numberOfSegments # 0
            BY <1>6, <1>8
        <3> QED
            BY <1>4, <1>7, <1>8, <3>1, <3>2, <3>3, <3>4, QuietStep
    <2> QED
        BY <2>1, <2>2
<1>9. CASE /\ failureOwed' \in {failureOwed, TRUE}
           /\ UNCHANGED <<split, place, state, reported>>
    <2>1. OthersOK'
        BY <1>1, <1>2, <1>3, <1>9 DEF OthersOK, place
    <2>2. workingSegmentIndex' = workingSegmentIndex /\ triesLeft' = triesLeft /\ calling' = Nothing
        BY <1>1, <1>9 DEF place
    <2> QED
        BY <1>1, <1>4, <1>6, <1>7, <1>9, <2>1, <2>2, QuietStep
<1>10. CASE NoteFailedSendMessage /\ UNCHANGED failureOwed
    <2>1. RestartSend("NoteFailedSendMessage") /\ UNCHANGED split
        BY <1>10, RestartIsOf
    <2>2. {timedOut', pending', failureOwed'} \subseteq BOOLEAN /\ ~pending'
        BY <1>1, <1>2, <1>10 DEF OthersOK
    <2> QED
        BY <1>3, <1>4, <2>1, <2>2, RestartStep DEF Callers
<1>11. CASE NoteLinkFailure /\ UNCHANGED <<split, place, failureOwed>>
    <2>1. /\ state' = "idle" /\ reported' \in {reported, "failed"}
          /\ (reported = "failed" => reported' = "failed")
        BY <1>11 DEF NoteLinkFailure, Report
    <2>2. OthersOK'
        BY <1>1, <1>2, <1>3, <1>11, <2>1 DEF OthersOK, place
    <2>3. workingSegmentIndex' = workingSegmentIndex /\ triesLeft' = triesLeft /\ calling' = Nothing
        BY <1>1, <1>11 DEF place
    <2> QED
        BY <1>1, <1>4, <1>6, <1>7, <1>11, <2>1, <2>2, <2>3, QuietStep
<1> QED
    BY <1>8, <1>9, <1>10, <1>11 DEF ReplyArrives

\* Steps that change neither the message nor what the peer has.
LEMMA OtherSteps ==
    SenderInv /\ (ReplyIsLost \/ TransportTimesOut \/ ReportsOwedFailure \/ TimePasses \/ SendTimesOut \/ LinkFails)
        => SenderInv'
<1> SUFFICES ASSUME SenderInv,
                    ReplyIsLost \/ TransportTimesOut \/ ReportsOwedFailure \/ TimePasses
                        \/ SendTimesOut \/ LinkFails
             PROVE  SenderInv'
    OBVIOUS
<1>1. OthersOK
    BY DEF SenderInv, TypeOK, OthersOK
<1>2. UNCHANGED peer
    BY DEF ReplyIsLost, TransportTimesOut, ReportsOwedFailure, TimePasses, SendTimesOut, LinkFails
<1>3. PeerLearns
    BY <1>2, PeerUnchanged
<1>4. replies' \in Seq({"OK", "NETR", "ERR"})
    <2>1. \/ replies # <<>> /\ replies' = Tail(replies)
          \/ replies' = <<>>
          \/ replies' = replies
        BY DEF ReplyIsLost, TransportTimesOut, ReportsOwedFailure, TimePasses, SendTimesOut, LinkFails, link
    <2> DEFINE R == {"OK", "NETR", "ERR"}
    <2>2. replies \in Seq(R)
        BY <1>1 DEF OthersOK
    <2> HIDE DEF R
    <2>3. replies # <<>> => Tail(replies) \in Seq(R)
        BY <2>2
    <2>4. <<>> \in Seq(R)
        OBVIOUS
    <2>5. replies' \in Seq(R)
        BY <2>1, <2>2, <2>3, <2>4
    <2> QED
        BY <2>5 DEF R
<1>5. /\ numberOfSegments = 0 => calling = Nothing /\ triesLeft = 0 /\ ~pending
      /\ calling # Nothing => workingSegmentIndex < numberOfSegments
    BY DEF SenderInv, IsSplit
<1>6. reported = "complete" => working \in whole' \cup refused'
    BY <1>3 DEF SenderInv, CompleteIsReceived, PeerLearns
<1>7. CASE TransportTimesOut \/ ReportsOwedFailure \/ SendTimesOut
    <2>1. RestartSend("NoteFailedSendMessage") /\ UNCHANGED split
        BY <1>7, RestartIsOf DEF TransportTimesOut, ReportsOwedFailure, SendTimesOut
    <2>2. {timedOut', pending', failureOwed'} \subseteq BOOLEAN /\ (pending' => pending)
        <3>1. CASE TransportTimesOut
            BY <1>1, <3>1 DEF OthersOK, TransportTimesOut
        <3>2. CASE ReportsOwedFailure
            BY <1>1, <3>2 DEF OthersOK, ReportsOwedFailure
        <3>3. CASE SendTimesOut
            BY <1>1, <3>3 DEF OthersOK, SendTimesOut, link
        <3> QED
            BY <1>7, <3>1, <3>2, <3>3
    <2> QED
        BY <1>3, <1>4, <2>1, <2>2, RestartStep DEF Callers
<1>8. CASE ReplyIsLost \/ TimePasses
    <2>1. UNCHANGED <<state, split, place, pending, failureOwed, reported>> /\ timedOut' \in {timedOut, TRUE}
        BY <1>8 DEF ReplyIsLost, TimePasses, link
    <2>2. OthersOK'
        BY <1>1, <1>4, <2>1 DEF OthersOK, place
    <2> QED
        BY <1>3, <1>5, <1>6, <2>1, <2>2, QuietStep DEF place
<1>9. CASE LinkFails
    <2>1. /\ state' = "idle" /\ reported' \in {reported, "failed"}
          /\ (reported = "failed" => reported' = "failed")
          /\ pending' = FALSE /\ UNCHANGED <<split, place, timedOut, failureOwed>>
        BY <1>9 DEF LinkFails, NoteLinkFailure, Report
    <2>2. OthersOK'
        BY <1>1, <1>4, <2>1 DEF OthersOK, place
    <2> QED
        BY <1>3, <1>5, <1>6, <2>1, <2>2, QuietStep DEF place
<1> QED
    BY <1>7, <1>8, <1>9

-----------------------------------------------------------------------------
(* Theorems *)

\* The invariant holds at the start, and every step keeps it.
LEMMA SenderStarts == Init => SenderInv
<1> SUFFICES ASSUME Init PROVE SenderInv
    OBVIOUS
<1>1. /\ 0 \in 0..MaxMessageLength /\ 0 \in 0..Retries /\ Separate({})
      /\ <<>> \in Seq({"OK", "NETR", "ERR"})
    BY BufferAssumption, SenderAssumption, EmptyTable
<1>2. TypeOK
    BY <1>1 DEF Init, TypeOK, NoSegments
<1>3. IsSplit /\ IsSplitOfWorking /\ TableFits /\ Covered /\ CompleteIsReceived
    BY DEF Init, IsSplit, IsSplitOfWorking, TableFits, Covered, CompleteIsReceived
<1> QED
    BY <1>2, <1>3 DEF SenderInv

LEMMA SenderKeeps == SenderInv /\ [Next]_vars => SenderInv'
<1> SUFFICES ASSUME SenderInv, [Next]_vars PROVE SenderInv'
    OBVIOUS
<1>1. ASSUME NEW name \in Names, NEW fragment \in FragmentSizes, SendMessage(name, fragment)
      PROVE  SenderInv'
    BY <1>1, SendMessageStep
<1>2. CASE TransportReturns
    BY <1>2, GetSegmentFailsStep, TransportTakesStep, TransportFailsStep DEF TransportReturns
<1>3. CASE ReplyArrives
    BY <1>3, ReplyArrivesStep
<1>4. CASE ReplyIsLost \/ TransportTimesOut \/ ReportsOwedFailure \/ TimePasses \/ SendTimesOut \/ LinkFails
    BY <1>4, OtherSteps
<1>5. CASE UNCHANGED vars
    BY <1>5 DEF vars, split, place, link, peer, budgets, SenderInv, TypeOK, IsSplit, IsSplitOfWorking,
                TableFits, Covered, HasUpTo, CompleteIsReceived, WorkingMessage
<1> QED
    BY <1>1, <1>2, <1>3, <1>4, <1>5 DEF Next

\* Every state of the sender: the split is that of the working message unless it
\* was refused, and the peer has what was sent of it or has refused a segment.
THEOREM SenderInvariant == Spec => []SenderInv
BY SenderStarts, SenderKeeps, PTL DEF Spec

\* The values of the variables of the sender are in range: no count, index or
\* length leaves the sizes of the message buffer, and the peer's table is one of
\* disjoint segments that its array holds.
THEOREM SenderIsTyped == Spec => []TypeOK
<1>1. SenderInv => TypeOK
    BY DEF SenderInv
<1> QED
    BY <1>1, SenderInvariant, PTL

\* A message accepted for sending is cut into segments that lie in it, fit the
\* buffer, and fit the messages of the data link, whatever the message.
THEOREM SenderSegmentsFit == Spec => []SegmentsFit
<1>1. SenderInv => SegmentsFit
    BY NextSegment DEF SegmentsFit
<1> QED
    BY <1>1, SenderInvariant, PTL

\* The receiver takes a segment for what it was made as, and reads back what was
\* written in it.
THEOREM SenderSegmentsAreRecognized == Spec => []SegmentsAreRecognized
<1>1. ASSUME SenderInv, calling # Nothing, reported = "none", numberOfSegments > 1
      PROVE  LET segment == GetSegment
             IN  /\ StandardOf(segment) = WorkingMessage.standard
                 /\ IsSegmented(segment)
                 /\ SegmentOffset(segment) = workingSegmentIndex * segmentPayloadLength
                 /\ SegmentFullLength(segment) = FullLength(WorkingMessage)
                 /\ CallingApInvocationId(segment) = CallingApInvocationId(WorkingMessage)
    <2>1. IsInMessage
        BY <1>1, NextSegment
    <2>2. numberOfSegments # 1
        BY <1>1
    <2> QED
        BY <1>1, <2>1, <2>2, NextSegmentIsRead
<1>2. SenderInv => SegmentsAreRecognized
    BY <1>1 DEF SegmentsAreRecognized
<1> QED
    BY <1>2, SenderInvariant, PTL

\* What is reported as sent has been received whole, unless the peer refused a
\* segment of it, for any number of retries, losses and late answers.
THEOREM SenderCompleteIsReceived == Spec => []CompleteIsReceived
<1>1. SenderInv => CompleteIsReceived
    BY DEF SenderInv
<1> QED
    BY <1>1, SenderInvariant, PTL

=============================================================================
