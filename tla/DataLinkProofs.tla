--------------------------- MODULE DataLinkProofs ---------------------------
(***************************************************************************)
(* The data link.  First type correctness, and with it the bound on the    *)
(* tries of a packet: an end in the middle of a send has a packet to send, *)
(* which the retries and the packets that follow rely on.  Then, for ends  *)
(* that take turns, that a message which is complete is whole, and that the*)
(* link implements what the transports want of it.                         *)
(***************************************************************************)
EXTENDS DataLink, TLAPS

\* The packet a send in progress is about is there.
SendersHavePackets == \A e \in Ends : phase[e] # "idle" => txPacket[e] \in Packets

Inv == TypeOK /\ SendersHavePackets

Items == Packets \cup {ACK, NAK, Byte("corrupt"), Byte("garbage")}
Links == [last : Checksums \cup {NoPacket}, lastSequence : Nat, offset : Nat]
Buffers == [parts : Seq([message : Messages, sequence : Nat]), complete : BOOLEAN]

-----------------------------------------------------------------------------
LEMMA PeerIsEnd == \A e \in Ends : Peer(e) \in Ends
BY DataLinkAssumption DEF Peer

\* What is at the head of the line is something that was put there.
LEMMA HeadIsItem ==
    ASSUME TypeOK, NEW e \in Ends, wire[e] # <<>>
    PROVE  Head(wire[e]) \in Items /\ Tail(wire[e]) \in Seq(Items)
BY DEF TypeOK, Items

LEMMA PacketArrives ==
    ASSUME TypeOK, NEW e \in Ends, Arrives(e, {"packet"})
    PROVE  Head(wire[e]) \in Packets /\ Tail(wire[e]) \in Seq(Items)
BY HeadIsItem DEF Items, Arrives, Byte, ACK, NAK

\* An item put on the line, damaged or not, leaves only items there.
LEMMA PutKeepsItems ==
    ASSUME TypeOK, NEW e \in Ends, NEW rest \in Seq(Items), NEW item \in Items,
           Put(e, rest, item)
    PROVE  wire' \in [Ends -> Seq(Items)] /\ faults' \in 0..MaxFaults
<1>1. wire \in [Ends -> Seq(Items)] /\ faults \in 0..MaxFaults
    BY DEF TypeOK, Items
<1>2. Damaged(item) \subseteq Items
    BY DEF Damaged, Items
<1>3. \A f \in Ends, i \in Items : Append(wire[f], i) \in Seq(Items)
    BY <1>1
<1>4. faults' \in 0..MaxFaults
    BY <1>1, DataLinkAssumption DEF Put
<1>5. wire' \in [Ends -> Seq(Items)]
    <2>1. CASE wire' = [wire EXCEPT ![e] = rest, ![Peer(e)] = Append(@, item)]
        BY <2>1, <1>1, <1>3, PeerIsEnd
    <2>2. CASE wire' = [wire EXCEPT ![e] = rest]
        BY <2>2, <1>1
    <2>3. CASE \E d \in Damaged(item) :
                  wire' = [wire EXCEPT ![e] = rest, ![Peer(e)] = Append(@, d)]
        BY <2>3, <1>1, <1>2, <1>3, PeerIsEnd
    <2> QED
        BY <2>1, <2>2, <2>3 DEF Put
<1> QED
    BY <1>4, <1>5

LEMMA SkipKeepsItems ==
    ASSUME TypeOK, NEW e \in Ends, wire[e] # <<>>, Skip(e)
    PROVE  wire' \in [Ends -> Seq(Items)] /\ faults' \in 0..MaxFaults
BY HeadIsItem DEF TypeOK, Items, Skip

-----------------------------------------------------------------------------
\* What an end remembers of the last packet has its type, and so has the buffer
\* of the transport.
LEMMA LinkAfterIsLink ==
    ASSUME NEW r \in Links, NEW p \in Packets
    PROVE  LinkAfter(r, p) \in Links
<1>1. CRC(p) \in Checksums
    BY DEF Packets, CRC, Checksums
<1>2. Offset(r, p) + p.length \in Nat
    BY DEF Links, Packets, Offset
<1> QED
    BY <1>1, <1>2 DEF LinkAfter, Links, Packets

LEMMA TransportAfterIsBuffer ==
    ASSUME NEW t \in Buffers, NEW r \in Links, NEW p \in Packets
    PROVE  TransportAfter(t, r, p) \in Buffers
<1>1. Part(p) \in [message : Messages, sequence : Nat]
    BY DEF Part, Packets
<1>2. \A n : PartsAfter(t, p, n) \in Seq([message : Messages, sequence : Nat])
    <2>1. t.parts \in Seq([message : Messages, sequence : Nat])
        BY DEF Buffers
    <2>2. /\ Append(t.parts, Part(p)) \in Seq([message : Messages, sequence : Nat])
          /\ <<Part(p)>> \in Seq([message : Messages, sequence : Nat])
          /\ <<>> \in Seq([message : Messages, sequence : Nat])
        BY <1>1, <2>1
    <2> QED
        BY <2>2 DEF PartsAfter
<1>3. Completes(p) \in BOOLEAN
    BY DEF Completes, Packets
<1> QED
    BY <1>2, <1>3 DEF TransportAfter, Buffers

LEMMA ProcessKeepsTypes ==
    ASSUME TypeOK, NEW e \in Ends, Arrives(e, {"packet"}), ProcessReceivedPacket(e)
    PROVE  /\ wire' \in [Ends -> Seq(Items)] /\ faults' \in 0..MaxFaults
           /\ transport' \in [Ends -> Buffers]
           /\ received' \in [Ends -> Seq(1..MaxSends)]
           /\ UNCHANGED <<sent, told>>
<1> DEFINE p == Head(wire[e])
<1>1. p \in Packets /\ Tail(wire[e]) \in Seq(Items)
    BY PacketArrives
<1>2. rx[e] \in Links /\ transport \in [Ends -> Buffers]
    BY DEF TypeOK, Links, Buffers
<1>3. wire' \in [Ends -> Seq(Items)] /\ faults' \in 0..MaxFaults
    <2>1. ACK \in Items /\ NAK \in Items
        BY DEF Items
    <2>2. CASE Put(e, Tail(wire[e]), ACK)
        BY <1>1, <2>1, <2>2, PutKeepsItems
    <2>3. CASE Put(e, Tail(wire[e]), NAK)
        BY <1>1, <2>1, <2>3, PutKeepsItems
    <2> QED
        BY <2>2, <2>3 DEF ProcessReceivedPacket
<1>4. transport' \in [Ends -> Buffers]
    <2>1. TransportAfter(transport[e], rx[e], p) \in Buffers
        BY <1>1, <1>2, TransportAfterIsBuffer
    <2> QED
        BY <1>2, <2>1 DEF ProcessReceivedPacket
<1>5. received' \in [Ends -> Seq(1..MaxSends)]
    <2>1. p.number \in 1..MaxSends
        BY <1>1 DEF Packets
    <2>2. received \in [Ends -> Seq(1..MaxSends)]
        BY DEF TypeOK
    <2>3. Append(received[e], p.number) \in Seq(1..MaxSends)
        BY <2>1, <2>2
    <2>4. \/ received' = [received EXCEPT ![e] = Append(@, p.number)]
          \/ received' = received
        BY DEF ProcessReceivedPacket
    <2> QED
        BY <2>2, <2>3, <2>4
<1> QED
    BY <1>3, <1>4, <1>5 DEF ProcessReceivedPacket

-----------------------------------------------------------------------------
\* The packet that follows one with a sequence above 0.
LEMMA NextPacketIsPacket ==
    ASSUME NEW p \in Packets, p.sequence > 0, NEW n \in Nat
    PROVE  NextPacket(p, n) \in Packets
<1>1. p.sequence - 1 \in Nat /\ 1 - p.toggle \in {0, 1}
    BY DEF Packets
<1>2. (p.message.packets > 1) \in BOOLEAN
    OBVIOUS
<1> QED
    BY <1>1, <1>2 DEF NextPacket, Packet, Packets

LEMMA FirstPacketIsPacket ==
    ASSUME NEW m \in Messages, NEW n \in 1..MaxSends, NEW b \in {0, 1}
    PROVE  FirstPacket(m, n, b) \in Packets
<1>1. m.packets \in Nat
    BY DataLinkAssumption
<1>2. (m.packets > 1) \in BOOLEAN
    OBVIOUS
<1>3. m.packets > 1 => m.packets - 1 \in Nat
    BY <1>1
<1> QED
    BY <1>2, <1>3 DEF FirstPacket, Packet, Packets

\* A failed send leaves the next packet in order, whatever it holds.
LEMMA GiveUpKeepsTypes ==
    ASSUME Inv, NEW e \in Ends, phase[e] # "idle", GiveUp(e)
    PROVE  /\ phase' = [phase EXCEPT ![e] = "idle"]
           /\ txPacket' \in [Ends -> Packets \cup {NoPacket}]
           /\ txToggle' \in [Ends -> {0, 1}]
           /\ \A f \in Ends \ {e} : txPacket'[f] = txPacket[f]
<1>1. txPacket[e] \in Packets
    BY DEF Inv, SendersHavePackets
<1>2. txPacket \in [Ends -> Packets \cup {NoPacket}] /\ txToggle \in [Ends -> {0, 1}]
    BY DEF Inv, TypeOK
<1>3. CASE txPacket[e].sequence > 0
    <2>1. NextPacket(txPacket[e], txPacket[e].sequence) \in Packets
        BY <1>1, <1>3, NextPacketIsPacket DEF Packets
    <2> QED
        BY <1>2, <1>3, <2>1 DEF GiveUp
<1>4. CASE ~(txPacket[e].sequence > 0)
    BY <1>2, <1>4 DEF GiveUp
<1> QED
    BY <1>3, <1>4

\* The end of a round of the retry loop: in the next one the packet is there still.
LEMMA NextTryKeepsTypes ==
    ASSUME Inv, NEW e \in Ends, phase[e] = "waiting", NEW r \in Links, NextTry(e, r)
    PROVE  /\ phase' \in [Ends -> {"idle", "sending", "receiving", "ready", "waiting"}]
           /\ txPacket' \in [Ends -> Packets \cup {NoPacket}]
           /\ txToggle' \in [Ends -> {0, 1}]
           /\ retry' \in [Ends -> 0..MaxRetries]
           /\ maxPackets' \in [Ends -> 1..MaxPackets]
           /\ rx' \in [Ends -> Links]
           /\ SendersHavePackets'
<1>1. TypeOK /\ SendersHavePackets /\ txPacket[e] \in Packets
    BY DEF Inv, SendersHavePackets
<1>2. NoLink \in Links
    BY DEF NoLink, Links
<1>3. rx \in [Ends -> Links]
    BY <1>1 DEF TypeOK, Links
<1>4. CASE /\ retry[e] < MaxRetries
           /\ retry' = [retry EXCEPT ![e] = @ + 1]
           /\ phase' = [phase EXCEPT ![e] = "sending"]
           /\ rx' = [rx EXCEPT ![e] = r]
           /\ UNCHANGED <<txPacket, txToggle, maxPackets>>
    <2>1. retry[e] + 1 \in 0..MaxRetries
        <3>1. retry[e] \in 0..MaxRetries /\ MaxRetries \in Nat
            BY <1>1, DataLinkAssumption DEF TypeOK
        <3>2. retry[e] < MaxRetries
            BY <1>4
        <3> QED
            BY <3>1, <3>2
    <2>2. retry' \in [Ends -> 0..MaxRetries]
        BY <1>1, <1>4, <2>1 DEF TypeOK
    <2> QED
        BY <1>1, <1>3, <1>4, <2>2 DEF TypeOK, SendersHavePackets
<1>5. CASE /\ GiveUp(e)
           /\ rx' = [rx EXCEPT ![e] = NoLink]
           /\ maxPackets' = [maxPackets EXCEPT ![e] = 1]
           /\ UNCHANGED retry
    <2>1. 1 \in 1..MaxPackets
        BY DataLinkAssumption
    <2>2. maxPackets' \in [Ends -> 1..MaxPackets] /\ retry' \in [Ends -> 0..MaxRetries]
        BY <1>1, <1>5, <2>1 DEF TypeOK
    <2>3. rx' \in [Ends -> Links]
        BY <1>2, <1>3, <1>5
    <2>4. /\ phase' = [phase EXCEPT ![e] = "idle"]
          /\ txPacket' \in [Ends -> Packets \cup {NoPacket}]
          /\ txToggle' \in [Ends -> {0, 1}]
          /\ \A f \in Ends \ {e} : txPacket'[f] = txPacket[f]
        BY <1>5, GiveUpKeepsTypes
    <2> QED
        BY <1>1, <2>2, <2>3, <2>4 DEF TypeOK, SendersHavePackets
<1>6. CASE GiveUp(e) /\ rx' = [rx EXCEPT ![e] = r] /\ UNCHANGED <<retry, maxPackets>>
    BY <1>1, <1>3, <1>6, GiveUpKeepsTypes DEF TypeOK, SendersHavePackets
<1> QED
    BY <1>4, <1>5, <1>6 DEF NextTry

-----------------------------------------------------------------------------
LEMMA InitHasTypes == Init => Inv
<1> SUFFICES ASSUME Init PROVE Inv
    OBVIOUS
<1>1. NoLink \in Links
    BY DEF NoLink, Links
<1>2. Nothing \in Buffers
    BY DEF Nothing, Buffers
<1>3. TypeOK
    BY <1>1, <1>2, DataLinkAssumption DEF Init, TypeOK, Links, Buffers, Items
<1> QED
    BY <1>3 DEF Init, Inv, SendersHavePackets

\* Steps of an end that is idle.
LEMMA RunKeepsTypes ==
    ASSUME Inv, NEW e \in Ends, Run(e)
    PROVE  Inv'
<1>1. TypeOK /\ SendersHavePackets
    BY DEF Inv
<1>2. NAK \in Items
    BY DEF Items
<1>3. CASE RunReceives(e)
    <2>1. LinkAfter(rx[e], Head(wire[e])) \in Links
        BY <1>1, <1>3, PacketArrives, LinkAfterIsLink DEF RunReceives, TypeOK, Links
    <2>2. /\ wire' \in [Ends -> Seq(Items)] /\ faults' \in 0..MaxFaults
          /\ transport' \in [Ends -> Buffers]
          /\ received' \in [Ends -> Seq(1..MaxSends)]
          /\ UNCHANGED <<sent, told>>
        BY <1>1, <1>3, ProcessKeepsTypes DEF RunReceives
    <2> QED
        BY <1>1, <1>3, <2>1, <2>2
        DEF RunReceives, sender, TypeOK, Links, Buffers, Items, Inv, SendersHavePackets
<1>4. CASE RunRefuses(e)
    <2>1. wire' \in [Ends -> Seq(Items)] /\ faults' \in 0..MaxFaults
        BY <1>1, <1>2, <1>4, HeadIsItem, PutKeepsItems DEF RunRefuses, Arrives
    <2> QED
        BY <1>1, <1>4, <2>1
        DEF RunRefuses, sender, history, TypeOK, Links, Buffers, Items, Inv, SendersHavePackets
<1>5. CASE RunSkips(e)
    <2>1. wire' \in [Ends -> Seq(Items)] /\ faults' \in 0..MaxFaults
        BY <1>1, <1>5, SkipKeepsItems DEF RunSkips, Arrives
    <2> QED
        BY <1>1, <1>5, <2>1
        DEF RunSkips, sender, history, TypeOK, Links, Buffers, Items, Inv, SendersHavePackets
<1> QED
    BY <1>3, <1>4, <1>5 DEF Run

LEMMA StartMessageKeepsTypes ==
    ASSUME Inv, NEW e \in Ends, NEW m \in Messages, StartMessage(e, m)
    PROVE  Inv'
<1>1. TypeOK /\ SendersHavePackets
    BY DEF Inv
<1>2. sent[e] + 1 \in 1..MaxSends
    <2>1. sent[e] \in Nat /\ sent[Peer(e)] \in Nat
        BY <1>1, PeerIsEnd, DataLinkAssumption DEF TypeOK
    <2>2. sent[e] + sent[Peer(e)] < MaxSends
        BY DEF StartMessage
    <2> QED
        BY <2>1, <2>2, DataLinkAssumption
<1>3. sent' \in [Ends -> 0..MaxSends] /\ sent'[e] \in 1..MaxSends
    <2>1. sent' = [sent EXCEPT ![e] = sent[e] + 1]
        BY DEF StartMessage
    <2> QED
        BY <1>1, <1>2, <2>1 DEF TypeOK
<1>4. txToggle' \in [Ends -> {0, 1}] /\ txToggle'[e] \in {0, 1}
    <2>1. txToggle' = [txToggle EXCEPT ![e] = 1 - txToggle[e]]
        BY DEF StartMessage
    <2>2. 1 - txToggle[e] \in {0, 1}
        <3>1. txToggle[e] \in {0, 1}
            BY <1>1 DEF TypeOK
        <3> QED
            BY <3>1
    <2> QED
        BY <1>1, <2>1, <2>2 DEF TypeOK
<1>5. FirstPacket(m, sent'[e], txToggle'[e]) \in Packets
    BY <1>3, <1>4, FirstPacketIsPacket
<1>6. /\ txPacket' \in [Ends -> Packets \cup {NoPacket}]
      /\ SendersHavePackets'
    BY <1>1, <1>5 DEF StartMessage, TypeOK, SendersHavePackets
<1>7. phase' \in [Ends -> {"idle", "sending", "receiving", "ready", "waiting"}]
      /\ retry' \in [Ends -> 0..MaxRetries]
    <2>1. 0 \in 0..MaxRetries
        BY DataLinkAssumption
    <2>2. phase' = [phase EXCEPT ![e] = "sending"] /\ retry' = [retry EXCEPT ![e] = 0]
        BY DEF StartMessage
    <2> QED
        BY <1>1, <2>1, <2>2 DEF TypeOK
<1> QED
    BY <1>1, <1>3, <1>4, <1>6, <1>7 DEF StartMessage, line, TypeOK, Links, Buffers, Items, Inv

\* Steps of an end about to put a packet on the line.
LEMMA SendKeepsTypes ==
    ASSUME Inv, NEW e \in Ends, Send(e)
    PROVE  Inv'
<1>1. TypeOK /\ SendersHavePackets
    BY DEF Inv
<1>2. NAK \in Items
    BY DEF Items
<1>3. CASE HandlePacketInProgress(e)
    <2>1. LinkAfter(rx[e], Head(wire[e])) \in Links
        BY <1>1, <1>3, PacketArrives, LinkAfterIsLink DEF HandlePacketInProgress, TypeOK, Links
    <2>2. /\ wire' \in [Ends -> Seq(Items)] /\ faults' \in 0..MaxFaults
          /\ transport' \in [Ends -> Buffers]
          /\ received' \in [Ends -> Seq(1..MaxSends)]
          /\ UNCHANGED <<sent, told>>
        BY <1>1, <1>3, ProcessKeepsTypes DEF HandlePacketInProgress
    <2>3. phase[e] # "idle"
          /\ \E x \in {"receiving", "ready"} : phase' = [phase EXCEPT ![e] = x]
        BY <1>3 DEF HandlePacketInProgress
    <2> QED
        BY <1>1, <1>3, <2>1, <2>2, <2>3
        DEF HandlePacketInProgress, TypeOK, Links, Buffers, Items, Inv, SendersHavePackets
<1>4. CASE RefusePacketInProgress(e)
    <2>1. wire' \in [Ends -> Seq(Items)] /\ faults' \in 0..MaxFaults
        BY <1>1, <1>2, <1>4, HeadIsItem, PutKeepsItems DEF RefusePacketInProgress, Arrives
    <2> QED
        BY <1>1, <1>4, <2>1
        DEF RefusePacketInProgress, history, TypeOK, Links, Buffers, Items, Inv, SendersHavePackets
<1>5. CASE SkipInProgress(e)
    <2>1. wire' \in [Ends -> Seq(Items)] /\ faults' \in 0..MaxFaults
        BY <1>1, <1>5, SkipKeepsItems DEF SkipInProgress, Arrives
    <2>2. phase[e] # "idle"
          /\ \E x \in {"receiving", "ready"} : phase' = [phase EXCEPT ![e] = x]
        BY <1>1, <1>5 DEF SkipInProgress, TypeOK
    <2> QED
        BY <1>1, <1>5, <2>1, <2>2
        DEF SkipInProgress, history, TypeOK, Links, Buffers, Items, Inv, SendersHavePackets
<1>6. CASE StopReceiving(e)
    BY <1>1, <1>6
    DEF StopReceiving, line, history, TypeOK, Links, Buffers, Items, Inv, SendersHavePackets
<1>7. CASE SendPacket(e)
    <2>1. txPacket[e] \in Items /\ wire[e] \in Seq(Items)
        BY <1>1, <1>7 DEF SendPacket, TypeOK, SendersHavePackets, Items
    <2>2. wire' \in [Ends -> Seq(Items)] /\ faults' \in 0..MaxFaults
        BY <1>1, <1>7, <2>1, PutKeepsItems DEF SendPacket
    <2> QED
        BY <1>1, <1>7, <2>2
        DEF SendPacket, history, TypeOK, Links, Buffers, Items, Inv, SendersHavePackets
<1> QED
    BY <1>3, <1>4, <1>5, <1>6, <1>7 DEF Send

\* Steps of an end that waits for an acknowledgement.
LEMMA WaitAcknowledgedKeepsTypes ==
    ASSUME Inv, NEW e \in Ends, WaitAcknowledged(e)
    PROVE  Inv'
<1>1. TypeOK /\ SendersHavePackets /\ txPacket[e] \in Packets
    BY DEF Inv, SendersHavePackets, WaitAcknowledged, Waiting
<1>2. wire' \in [Ends -> Seq(Items)] /\ faults' \in 0..MaxFaults
    BY <1>1, SkipKeepsItems DEF WaitAcknowledged, Arrives
<1>3. CASE txPacket[e].sequence > 0
    <2>1. NextPacket(txPacket[e], 1) \in Packets
        BY <1>1, <1>3, NextPacketIsPacket
    <2>2. /\ txPacket' = [txPacket EXCEPT ![e] = NextPacket(txPacket[e], 1)]
          /\ txToggle' = [txToggle EXCEPT ![e] = 1 - txToggle[e]]
          /\ retry' = [retry EXCEPT ![e] = 0]
          /\ phase' = [phase EXCEPT ![e] = "sending"]
          /\ UNCHANGED told
        BY <1>3 DEF WaitAcknowledged
    <2>3. 0 \in 0..MaxRetries /\ 1 - txToggle[e] \in {0, 1}
        BY <1>1, DataLinkAssumption DEF TypeOK
    <2>4. /\ txPacket' \in [Ends -> Packets \cup {NoPacket}]
          /\ txToggle' \in [Ends -> {0, 1}]
          /\ retry' \in [Ends -> 0..MaxRetries]
          /\ phase' \in [Ends -> {"idle", "sending", "receiving", "ready", "waiting"}]
          /\ SendersHavePackets'
        BY <1>1, <2>1, <2>2, <2>3 DEF TypeOK, SendersHavePackets
    <2> QED
        BY <1>1, <1>2, <2>2, <2>4 DEF WaitAcknowledged, TypeOK, Links, Buffers, Items, Inv
<1>4. CASE ~(txPacket[e].sequence > 0)
    <2>1. /\ phase' = [phase EXCEPT ![e] = "idle"]
          /\ told' = [told EXCEPT ![e] = @ \cup {txPacket[e].number}]
          /\ UNCHANGED <<txPacket, txToggle, retry>>
        BY <1>4 DEF WaitAcknowledged
    <2>2. txPacket[e].number \in 1..MaxSends
        BY <1>1 DEF Packets
    <2> QED
        BY <1>1, <1>2, <2>1, <2>2
        DEF WaitAcknowledged, TypeOK, Links, Buffers, Items, Inv, SendersHavePackets
<1> QED
    BY <1>3, <1>4

LEMMA WaitForAckKeepsTypes ==
    ASSUME Inv, NEW e \in Ends, WaitForAck(e)
    PROVE  Inv'
<1>1. TypeOK /\ SendersHavePackets /\ rx[e] \in Links
    BY DEF Inv, TypeOK, Links
<1> DEFINE TryKeepsTypes ==
        /\ phase' \in [Ends -> {"idle", "sending", "receiving", "ready", "waiting"}]
        /\ txPacket' \in [Ends -> Packets \cup {NoPacket}]
        /\ txToggle' \in [Ends -> {0, 1}]
        /\ retry' \in [Ends -> 0..MaxRetries]
        /\ maxPackets' \in [Ends -> 1..MaxPackets]
        /\ rx' \in [Ends -> Links]
        /\ SendersHavePackets'
<1>2. ASSUME Waiting(e), NextTry(e, rx[e]) PROVE TryKeepsTypes
    BY <1>1, <1>2, NextTryKeepsTypes DEF Waiting
<1>3. CASE WaitAcknowledged(e)
    BY <1>3, WaitAcknowledgedKeepsTypes
<1>4. CASE WaitRefused(e)
    <2>1. wire' \in [Ends -> Seq(Items)] /\ faults' \in 0..MaxFaults
        BY <1>1, <1>4, SkipKeepsItems DEF WaitRefused, Arrives
    <2>2. TryKeepsTypes
        BY <1>2, <1>4 DEF WaitRefused
    <2> QED
        BY <1>1, <1>4, <2>1, <2>2 DEF WaitRefused, history, TypeOK, Links, Buffers, Items, Inv
<1>5. CASE WaitReceives(e)
    <2>1. LinkAfter(rx[e], Head(wire[e])) \in Links
        BY <1>1, <1>5, PacketArrives, LinkAfterIsLink DEF WaitReceives
    <2>2. /\ wire' \in [Ends -> Seq(Items)] /\ faults' \in 0..MaxFaults
          /\ transport' \in [Ends -> Buffers]
          /\ received' \in [Ends -> Seq(1..MaxSends)]
          /\ UNCHANGED <<sent, told>>
        BY <1>1, <1>5, ProcessKeepsTypes DEF WaitReceives
    <2>3. TryKeepsTypes
        BY <1>5, <2>1, NextTryKeepsTypes DEF WaitReceives, Waiting
    <2> QED
        BY <1>1, <1>5, <2>2, <2>3 DEF WaitReceives, TypeOK, Links, Buffers, Items, Inv
<1>6. CASE WaitRefuses(e)
    <2>1. NAK \in Items
        BY DEF Items
    <2>2. wire' \in [Ends -> Seq(Items)] /\ faults' \in 0..MaxFaults
        BY <1>1, <1>6, <2>1, HeadIsItem, PutKeepsItems DEF WaitRefuses, Arrives
    <2>3. TryKeepsTypes
        BY <1>2, <1>6 DEF WaitRefuses
    <2> QED
        BY <1>1, <1>6, <2>2, <2>3 DEF WaitRefuses, history, TypeOK, Links, Buffers, Items, Inv
<1>7. CASE WaitSkips(e)
    <2>1. wire \in [Ends -> Seq(Items)]
        BY <1>1 DEF TypeOK, Items
    <2>2. PICK n \in 1..Len(wire[e]) :
              wire' = [wire EXCEPT ![e] = SubSeq(wire[e], n + 1, Len(wire[e]))]
        BY <1>7 DEF WaitSkips
    <2>3. SubSeq(wire[e], n + 1, Len(wire[e])) \in Seq(Items)
        BY <2>1, <2>2
    <2>4. wire' \in [Ends -> Seq(Items)]
        BY <2>1, <2>2, <2>3
    <2>5. TryKeepsTypes
        BY <1>2, <1>7 DEF WaitSkips
    <2> QED
        BY <1>1, <1>7, <2>4, <2>5 DEF WaitSkips, history, TypeOK, Links, Buffers, Items, Inv
<1>8. CASE WaitTimesOut(e)
    <2>1. TryKeepsTypes
        BY <1>2, <1>8 DEF WaitTimesOut
    <2> QED
        BY <1>1, <1>8, <2>1
        DEF WaitTimesOut, line, history, TypeOK, Links, Buffers, Items, Inv
<1>9. CASE WaitIsAborted(e)
    <2>1. phase[e] # "idle"
        BY <1>9 DEF WaitIsAborted, Waiting
    <2>2. /\ phase' = [phase EXCEPT ![e] = "idle"]
          /\ txPacket' \in [Ends -> Packets \cup {NoPacket}]
          /\ txToggle' \in [Ends -> {0, 1}]
          /\ \A f \in Ends \ {e} : txPacket'[f] = txPacket[f]
        BY <1>9, <2>1, GiveUpKeepsTypes DEF WaitIsAborted
    <2> QED
        BY <1>1, <1>9, <2>2
        DEF WaitIsAborted, line, history, TypeOK, Links, Buffers, Items, Inv, SendersHavePackets
<1> QED
    BY <1>3, <1>4, <1>5, <1>6, <1>7, <1>8, <1>9 DEF WaitForAck

-----------------------------------------------------------------------------
LEMMA NextKeepsTypes == Inv /\ [Next]_vars => Inv'
<1> SUFFICES ASSUME Inv, [Next]_vars PROVE Inv'
    OBVIOUS
<1>1. TypeOK /\ SendersHavePackets
    BY DEF Inv
<1>2. 1 \in 1..MaxPackets /\ NoPacket \in Checksums \cup {NoPacket}
    BY DataLinkAssumption
<1>3. CASE UNCHANGED vars
    BY <1>1, <1>3
    DEF vars, sender, line, history, TypeOK, Inv, SendersHavePackets
<1>4. ASSUME NEW e \in Ends, TakeMessage(e) PROVE Inv'
    BY <1>1, <1>4
    DEF TakeMessage, sender, line, history, TypeOK, Inv, SendersHavePackets
<1>5. ASSUME NEW e \in Ends, NEW n \in 1..MaxPackets, SetParameters(e, n) PROVE Inv'
    BY <1>1, <1>5
    DEF SetParameters, sender, line, history, TypeOK, Inv, SendersHavePackets
<1>6. ASSUME NEW e \in Ends, TrafficTimeout(e) PROVE Inv'
    BY <1>1, <1>2, <1>6
    DEF TrafficTimeout, NoLink, sender, line, history, TypeOK, Inv, SendersHavePackets
<1>7. ASSUME NEW e \in Ends, PowerUpInProgress(e) PROVE Inv'
    BY <1>1, <1>7
    DEF PowerUpInProgress, sender, line, history, TypeOK, Inv, SendersHavePackets
<1>8. ASSUME NEW e \in Ends, NotePowerUp(e) PROVE Inv'
    <2>1. wire' \in [Ends -> Seq(Items)]
        <3>1. wire \in [Ends -> Seq(Items)] /\ <<>> \in Seq(Items)
            BY <1>1 DEF TypeOK, Items
        <3>2. wire' = wire \/ wire' = [wire EXCEPT ![e] = <<>>]
            BY <1>8 DEF NotePowerUp
        <3> QED
            BY <3>1, <3>2
    <2>2. rx' \in [Ends -> Links]
        <3>1. rx \in [Ends -> Links]
            BY <1>1 DEF TypeOK, Links
        <3>2. rx' = [rx EXCEPT ![e].last = NoPacket]
            BY <1>8 DEF NotePowerUp
        <3>3. [rx[e] EXCEPT !.last = NoPacket] \in Links
            BY <3>1 DEF Links
        <3> QED
            BY <3>1, <3>2, <3>3
    <2> QED
        BY <1>1, <1>2, <1>8, <2>1, <2>2
        DEF NotePowerUp, sender, history, TypeOK, Links, Items, Inv, SendersHavePackets
<1> QED
    BY <1>3, <1>4, <1>5, <1>6, <1>7, <1>8, RunKeepsTypes, StartMessageKeepsTypes,
       SendKeepsTypes, WaitForAckKeepsTypes
    DEF Next

\* An end in the middle of a send has the packet it sends, at every step.
THEOREM DataLinkInvariant == Spec => []Inv
<1>1. QED
    BY InitHasTypes, NextKeepsTypes, PTL DEF Spec

\* The link's state stays in its types for every set of messages, any number of
\* packets, sends and faults, with collisions and failures: no packet is tried more than
\* MaxRetries times again, no sequence or toggle bit leaves its range.
THEOREM DataLinkTypeOK == Spec => []TypeOK
<1>1. QED
    BY DataLinkInvariant, PTL DEF Inv

-----------------------------------------------------------------------------
(***************************************************************************)
(* Without collisions, the ends take turns: while one sends, the other is  *)
(* idle, at most one item is on the line, and a packet that is on the way  *)
(* from an end that waits is the one it waits for.                         *)
(***************************************************************************)
Turn(e) ==
    LET f == Peer(e)
    IN  /\ phase[e] # "idle" => phase[f] = "idle"
        /\ phase[e] \notin {"idle", "waiting"} => wire[e] = <<>> /\ wire[f] = <<>>
        /\ wire[e] # <<>> => Tail(wire[e]) = <<>> /\ wire[f] = <<>>
        /\ Waiting(e) => ~Arrives(e, {"packet", "corrupt"})
        /\ Waiting(e) /\ Arrives(f, {"packet"}) => Head(wire[f]) = txPacket[e]

TakesTurns == \A e \in Ends : Turn(e)

LEMMA PeerIsOther ==
    ASSUME NEW e \in Ends
    PROVE  /\ Peer(e) \in Ends
           /\ Peer(e) # e
           /\ Peer(Peer(e)) = e
           /\ \A x \in Ends : x = e \/ x = Peer(e)
BY DataLinkAssumption DEF Peer

\* What is put on an empty line is alone there, or nothing is.
LEMMA PutAlone ==
    ASSUME TypeOK, NEW e \in Ends, NEW rest, NEW item, Put(e, rest, item),
           wire[Peer(e)] = <<>>
    PROVE  /\ wire'[e] = rest
           /\ \/ wire'[Peer(e)] = <<>> /\ faults' = faults + 1 /\ faults < MaxFaults
              \/ wire'[Peer(e)] = <<item>> /\ faults' = faults
              \/ \E d \in Damaged(item) : wire'[Peer(e)] = <<d>> /\ faults' = faults + 1 /\ faults < MaxFaults
<1>1. wire \in [Ends -> Seq(Items)]
    BY DEF TypeOK, Items
<1>2. \A x : Append(wire[Peer(e)], x) = <<x>>
    OBVIOUS
<1>3. Peer(e) \in Ends /\ Peer(e) # e
    BY PeerIsOther
<1>4. CASE wire' = [wire EXCEPT ![e] = rest, ![Peer(e)] = Append(@, item)] /\ UNCHANGED faults
    BY <1>1, <1>2, <1>3, <1>4
<1>5. CASE /\ faults < MaxFaults
           /\ faults' = faults + 1
           /\ wire' = [wire EXCEPT ![e] = rest]
    BY <1>1, <1>3, <1>5
<1>6. CASE /\ faults < MaxFaults
           /\ faults' = faults + 1
           /\ \E d \in Damaged(item) :
                 wire' = [wire EXCEPT ![e] = rest, ![Peer(e)] = Append(@, d)]
    BY <1>1, <1>2, <1>3, <1>6
<1> QED
    BY <1>4, <1>5, <1>6 DEF Put

\* A single item that an end answers leaves the line with the answer, if anything.
LEMMA Single == ASSUME NEW x PROVE <<x>> # <<>> /\ Head(<<x>>) = x /\ Tail(<<x>>) = <<>>
OBVIOUS

LEMMA InitTakesTurns == Init => TakesTurns
BY PeerIsOther DEF Init, TakesTurns, Turn, Waiting, Arrives

LEMMA SingleHasLength ==
    ASSUME NEW S, NEW s \in Seq(S), s # <<>>, Tail(s) = <<>>
    PROVE  Len(s) = 1
<1>1. Len(s) \in Nat \ {0}
    OBVIOUS
<1> DEFINE t == Tail(s)
<1>2. t = <<>> /\ Len(t) = Len(s) - 1
    BY <1>1
<1> HIDE DEF t
<1> QED
    BY <1>1, <1>2

LEMMA TurnOfBoth ==
    ASSUME NEW e \in Ends, Turn(e)', Turn(Peer(e))'
    PROVE  TakesTurns'
BY PeerIsOther DEF TakesTurns

\* What an end that runs reads off the line, and what it may answer, are alone there.
LEMMA AnswerKeepsTurns ==
    ASSUME Inv, TakesTurns, NEW e \in Ends, Running(e), wire[e] # <<>>,
           NEW item \in {ACK, NAK}, Put(e, Tail(wire[e]), item),
           UNCHANGED <<phase, txPacket>>
    PROVE  TakesTurns'
<1> DEFINE f == Peer(e)
<1>1. f \in Ends /\ f # e /\ Peer(f) = e
    BY PeerIsOther
<1>2. Turn(e) /\ Turn(f) /\ TypeOK
    BY <1>1 DEF TakesTurns, Inv
<1>3. Tail(wire[e]) = <<>> /\ wire[f] = <<>> /\ phase[e] = "idle"
    BY <1>2 DEF Turn, Running
<1>4. wire'[e] = <<>> /\ (wire'[f] = <<>> \/ \E d : wire'[f] = <<d>> /\ d.kind \notin {"packet", "corrupt"})
    <2>1. item.kind \notin {"packet", "corrupt"}
        BY DEF ACK, NAK, Byte
    <2>2. \A d \in Damaged(item) : d.kind \notin {"packet", "corrupt"}
        BY <2>1 DEF Damaged, Byte
    <2> QED
        BY <1>2, <1>3, <2>1, <2>2, PutAlone
<1>5. phase[f] \in {"idle", "waiting"}
    BY <1>1, <1>2 DEF Turn, Running
<1>6. Turn(e)'
    BY <1>1, <1>2, <1>3, <1>4, Single DEF Turn, Waiting, Arrives
<1>7. Turn(f)'
    BY <1>1, <1>2, <1>3, <1>4, <1>5, Single DEF Turn, Waiting, Arrives
<1> QED
    BY <1>6, <1>7, TurnOfBoth

\* A step of an end that puts nothing on the line and may take what is there off it.
LEMMA QuietStepKeepsTurns ==
    ASSUME Inv, TakesTurns, NEW e \in Ends,
           wire' = wire \/ wire' = [wire EXCEPT ![e] = <<>>],
           \/ UNCHANGED <<phase, txPacket>>
           \/ /\ Waiting(e)
              /\ \/ phase' = [phase EXCEPT ![e] = "idle"]
                 \/ /\ phase' = [phase EXCEPT ![e] = "sending"]
                    /\ wire'[e] = <<>> /\ wire'[Peer(e)] = <<>>
              /\ txPacket'[Peer(e)] = txPacket[Peer(e)]
    PROVE  TakesTurns'
<1> DEFINE f == Peer(e)
<1>1. f \in Ends /\ f # e /\ Peer(f) = e
    BY PeerIsOther
<1>2. Turn(e) /\ Turn(f) /\ TypeOK
    BY <1>1 DEF TakesTurns, Inv
<1>3. wire'[f] = wire[f] /\ (wire'[e] = wire[e] \/ wire'[e] = <<>>)
    BY <1>1, <1>2 DEF TypeOK
<1>4. CASE UNCHANGED <<phase, txPacket>>
    <2>1. Turn(e)'
        BY <1>1, <1>2, <1>3, <1>4 DEF Turn, Waiting, Arrives
    <2>2. Turn(f)'
        BY <1>1, <1>2, <1>3, <1>4 DEF Turn, Waiting, Arrives
    <2> QED
        BY <2>1, <2>2, TurnOfBoth
<1>5. CASE /\ Waiting(e)
           /\ \/ phase' = [phase EXCEPT ![e] = "idle"]
              \/ phase' = [phase EXCEPT ![e] = "sending"] /\ wire'[e] = <<>> /\ wire'[f] = <<>>
           /\ txPacket'[f] = txPacket[f]
    <2>1. phase'[f] = "idle" /\ phase'[e] \in {"idle", "sending"}
        BY <1>1, <1>2, <1>5 DEF Turn, Waiting, TypeOK
    <2>2. phase'[e] = "sending" => wire'[e] = <<>> /\ wire'[f] = <<>>
        BY <1>1, <1>2, <1>5 DEF TypeOK
    <2>3. Turn(e)'
        BY <1>1, <1>2, <1>3, <1>5, <2>1, <2>2 DEF Turn, Waiting, Arrives
    <2>4. Turn(f)'
        BY <1>1, <1>2, <1>3, <1>5, <2>1, <2>2 DEF Turn, Waiting, Arrives
    <2> QED
        BY <2>3, <2>4, TurnOfBoth
<1> QED
    BY <1>4, <1>5

\* The end of a round of the retry loop, as far as turns go.
LEMMA NextTryEndsTurn ==
    ASSUME Inv, NEW e \in Ends, Waiting(e), NEW r, NextTry(e, r)
    PROVE  /\ \/ phase' = [phase EXCEPT ![e] = "idle"]
              \/ phase' = [phase EXCEPT ![e] = "sending"]
           /\ txPacket'[Peer(e)] = txPacket[Peer(e)]
BY PeerIsOther DEF NextTry, GiveUp, Inv, TypeOK

LEMMA RunKeepsTurns ==
    ASSUME Inv, TakesTurns, NEW e \in Ends, Run(e)
    PROVE  TakesTurns'
<1>1. CASE RunReceives(e)
    <2>1. \E item \in {ACK, NAK} : Put(e, Tail(wire[e]), item)
        BY <1>1 DEF RunReceives, ProcessReceivedPacket
    <2> QED
        BY <1>1, <2>1, AnswerKeepsTurns DEF RunReceives, Arrives, sender
<1>2. CASE RunRefuses(e)
    BY <1>2, AnswerKeepsTurns DEF RunRefuses, Arrives, sender
<1>3. CASE RunSkips(e)
    <2>1. Tail(wire[e]) = <<>>
        BY <1>3 DEF RunSkips, Arrives, TakesTurns, Turn
    <2> QED
        BY <1>3, <2>1, QuietStepKeepsTurns DEF RunSkips, Skip, sender
<1> QED
    BY <1>1, <1>2, <1>3 DEF Run

LEMMA StartMessageKeepsTurns ==
    ASSUME Inv, TakesTurns, ~Collisions, NEW e \in Ends, NEW m \in Messages, StartMessage(e, m)
    PROVE  TakesTurns'
<1> DEFINE f == Peer(e)
<1>1. f \in Ends /\ f # e /\ Peer(f) = e
    BY PeerIsOther
<1>2. wire[e] = <<>> /\ wire[f] = <<>> /\ phase[f] = "idle"
    BY <1>1 DEF StartMessage, MaySend, Quiet
<1>3. phase'[e] = "sending" /\ phase'[f] = "idle" /\ UNCHANGED wire
    BY <1>1, <1>2 DEF StartMessage, line, Inv, TypeOK
<1>4. Turn(e)'
    BY <1>1, <1>2, <1>3 DEF Turn, Waiting
<1>5. Turn(f)'
    BY <1>1, <1>2, <1>3 DEF Turn, Waiting
<1> QED
    BY <1>4, <1>5, TurnOfBoth

\* Nothing comes while a packet is about to be sent.
LEMMA SendKeepsTurns ==
    ASSUME Inv, TakesTurns, NEW e \in Ends, Send(e)
    PROVE  TakesTurns'
<1> DEFINE f == Peer(e)
<1>1. f \in Ends /\ f # e /\ Peer(f) = e
    BY PeerIsOther
<1>2. Turn(e) /\ Turn(f) /\ TypeOK /\ SendersHavePackets
    BY <1>1 DEF TakesTurns, Inv
<1>3. phase[e] \notin {"idle", "waiting"}
    BY DEF Send, HandlePacketInProgress, RefusePacketInProgress, SkipInProgress, StopReceiving, SendPacket
<1>4. wire[e] = <<>> /\ wire[f] = <<>> /\ phase[f] = "idle"
    BY <1>2, <1>3 DEF Turn
<1>5. ~HandlePacketInProgress(e) /\ ~RefusePacketInProgress(e) /\ ~SkipInProgress(e)
    BY <1>4 DEF HandlePacketInProgress, RefusePacketInProgress, SkipInProgress, Arrives
<1>6. CASE StopReceiving(e)
    <2>1. phase'[e] = "ready" /\ phase'[f] = "idle" /\ UNCHANGED wire
        BY <1>1, <1>2, <1>4, <1>6 DEF StopReceiving, line, TypeOK
    <2>2. Turn(e)'
        BY <1>1, <1>4, <2>1 DEF Turn, Waiting
    <2>3. Turn(f)'
        BY <1>1, <1>4, <2>1 DEF Turn, Waiting
    <2> QED
        BY <2>2, <2>3, TurnOfBoth
<1>7. CASE SendPacket(e)
    <2>1. phase'[e] = "waiting" /\ phase'[f] = "idle" /\ UNCHANGED txPacket
        BY <1>1, <1>2, <1>4, <1>7 DEF SendPacket, TypeOK
    <2>2. /\ wire'[e] = <<>>
          /\ wire'[f] = <<>> \/ wire'[f] = <<txPacket[e]>>
               \/ \E d : wire'[f] = <<d>> /\ d.kind # "packet"
        <3>1. \A d \in Damaged(txPacket[e]) : d.kind # "packet"
            BY DEF Damaged, Byte
        <3> QED
            BY <1>2, <1>4, <1>7, <3>1, PutAlone DEF SendPacket
    <2>3. Turn(e)'
        BY <1>1, <1>4, <2>1, <2>2, Single DEF Turn, Waiting, Arrives
    <2>4. Turn(f)'
        BY <1>1, <1>4, <2>1, <2>2, Single DEF Turn, Waiting, Arrives
    <2> QED
        BY <2>3, <2>4, TurnOfBoth
<1> QED
    BY <1>5, <1>6, <1>7 DEF Send

LEMMA WaitForAckKeepsTurns ==
    ASSUME Inv, TakesTurns, NEW e \in Ends, WaitForAck(e)
    PROVE  TakesTurns'
<1> DEFINE f == Peer(e)
<1>1. f \in Ends /\ f # e /\ Peer(f) = e
    BY PeerIsOther
<1>2. Waiting(e) /\ Turn(e) /\ TypeOK
    BY DEF TakesTurns, Inv, WaitForAck, WaitAcknowledged, WaitRefused, WaitReceives, WaitRefuses,
           WaitSkips, WaitTimesOut, WaitIsAborted
<1>3. wire[e] # <<>> => Tail(wire[e]) = <<>> /\ wire[f] = <<>>
    BY <1>2 DEF Turn
<1>4. ~WaitReceives(e) /\ ~WaitRefuses(e)
    BY <1>2 DEF Turn, WaitReceives, WaitRefuses, Arrives
<1>5. ASSUME Skip(e), wire[e] # <<>>
      PROVE  wire' = [wire EXCEPT ![e] = <<>>] /\ wire'[e] = <<>> /\ wire'[f] = <<>>
    BY <1>1, <1>2, <1>3, <1>5 DEF Skip, TypeOK
<1>6. CASE WaitAcknowledged(e)
    <2>1. /\ \/ phase' = [phase EXCEPT ![e] = "idle"]
             \/ phase' = [phase EXCEPT ![e] = "sending"]
          /\ txPacket'[f] = txPacket[f]
        BY <1>1, <1>2, <1>6 DEF WaitAcknowledged, TypeOK
    <2>2. wire' = [wire EXCEPT ![e] = <<>>] /\ wire'[e] = <<>> /\ wire'[f] = <<>>
        BY <1>5, <1>6 DEF WaitAcknowledged, Arrives
    <2> QED
        BY <1>2, <2>1, <2>2, QuietStepKeepsTurns
<1>7. CASE WaitRefused(e)
    <2>1. wire' = [wire EXCEPT ![e] = <<>>] /\ wire'[e] = <<>> /\ wire'[f] = <<>>
        BY <1>5, <1>7 DEF WaitRefused, Arrives
    <2> QED
        BY <1>2, <1>7, <2>1, NextTryEndsTurn, QuietStepKeepsTurns DEF WaitRefused
<1>8. CASE WaitSkips(e)
    <2>1. wire' = [wire EXCEPT ![e] = <<>>] /\ wire'[e] = <<>> /\ wire'[f] = <<>>
        <3>1. wire[e] # <<>>
            BY <1>8 DEF WaitSkips, Arrives
        <3>2. wire[e] \in Seq(Items) /\ Len(wire[e]) = 1
            BY <1>2, <1>3, <3>1, SingleHasLength DEF TypeOK, Items
        <3>3. PICK n \in 1..Len(wire[e]) : wire' = [wire EXCEPT ![e] = SubSeq(@, n + 1, Len(@))]
            BY <1>8 DEF WaitSkips
        <3>4. SubSeq(wire[e], n + 1, Len(wire[e])) = <<>>
            <4>1. n = 1
                BY <3>2
            <4> QED
                BY <3>2, <4>1
        <3> QED
            BY <1>1, <1>2, <1>3, <3>1, <3>3, <3>4 DEF TypeOK
    <2> QED
        BY <1>2, <1>8, <2>1, NextTryEndsTurn, QuietStepKeepsTurns DEF WaitSkips
<1>9. CASE WaitTimesOut(e)
    <2>1. UNCHANGED wire /\ wire[e] = <<>> /\ wire[f] = <<>>
        BY <1>1, <1>9 DEF WaitTimesOut, Quiet, line
    <2> QED
        BY <1>1, <1>2, <1>9, <2>1, NextTryEndsTurn, QuietStepKeepsTurns DEF WaitTimesOut
<1>10. CASE WaitIsAborted(e)
    <2>1. phase' = [phase EXCEPT ![e] = "idle"] /\ txPacket'[f] = txPacket[f] /\ UNCHANGED wire
        BY <1>1, <1>2, <1>10 DEF WaitIsAborted, GiveUp, line, TypeOK
    <2> QED
        BY <1>2, <2>1, QuietStepKeepsTurns
<1> QED
    BY <1>4, <1>6, <1>7, <1>8, <1>9, <1>10 DEF WaitForAck

\* Without collisions every step keeps the turns.
LEMMA NextKeepsTurns ==
    ASSUME ~Collisions, Inv, TakesTurns, [Next]_vars
    PROVE  TakesTurns'
<1>1. CASE UNCHANGED vars
    BY <1>1 DEF vars, sender, line, TakesTurns, Turn, Waiting, Arrives
<1>2. ASSUME NEW e \in Ends,
             \/ TakeMessage(e)
             \/ \E n \in 1..MaxPackets : SetParameters(e, n)
             \/ TrafficTimeout(e)
             \/ PowerUpInProgress(e)
             \/ NotePowerUp(e)
      PROVE  TakesTurns'
    <2>1. wire' = wire \/ wire' = [wire EXCEPT ![e] = <<>>]
        BY <1>2 DEF TakeMessage, SetParameters, TrafficTimeout, PowerUpInProgress, NotePowerUp, line
    <2>2. UNCHANGED <<phase, txPacket>>
        BY <1>2 DEF TakeMessage, SetParameters, TrafficTimeout, PowerUpInProgress, NotePowerUp, sender
    <2> QED
        BY <2>1, <2>2, QuietStepKeepsTurns
<1> QED
    BY <1>1, <1>2, RunKeepsTurns, StartMessageKeepsTurns, SendKeepsTurns, WaitForAckKeepsTurns
    DEF Next

-----------------------------------------------------------------------------
(***************************************************************************)
(* What the transport has put together is the beginning of one message.    *)
(* That the next packet is of the same message is known by its sequence    *)
(* alone, since the end it comes from sends it only when the peer has the  *)
(* packet before it.                                                       *)
(***************************************************************************)
WellMade(p) ==
    /\ p.multiple <=> p.message.packets > 1
    /\ p.multiple => /\ p.sequence < p.message.packets
                     /\ p.first <=> p.sequence = p.message.packets - 1
    /\ ~p.multiple => p.sequence = 0
    /\ p.length = IF p.message.packets = 0 THEN 0 ELSE 1

PacketsAreWellMade ==
    \A e \in Ends :
        /\ phase[e] # "idle" => WellMade(txPacket[e])
        /\ Arrives(e, {"packet"}) => WellMade(Head(wire[e]))

IsOf(t, m) == t.parts = <<>> \/ t.parts[1].message = m

\* The parts count down from the first, and a link that expects a sequence has
\* all parts before it, or has given them up.
HoldsBeginning(t, r) ==
    /\ \A i \in 1..Len(t.parts) :
          t.parts[i] = [message  |-> t.parts[1].message,
                        sequence |-> t.parts[1].message.packets - i]
    /\ t.complete /\ t.parts # <<>> => Len(t.parts) = t.parts[1].message.packets
    /\ r.lastSequence > 0 =>
          /\ r.offset > 0
          /\ ~t.complete
          /\ t.parts # <<>> => t.parts[1].message.packets = Len(t.parts) + r.lastSequence

\* The packet remembered is the last of the parts.
LastIsHeld(t, r) ==
    r.last # NoPacket /\ r.last.sequence > 0 =>
        r.lastSequence = r.last.sequence /\ IsOf(t, r.last.message)

\* A packet that would be taken for the next is the next.
Continues(t, r, p) ==
    p.multiple /\ ~p.first /\ p.sequence = r.lastSequence - 1 => IsOf(t, p.message)

HoldsOneMessage(e) ==
    LET t == transport[e]
        r == rx[e]
        f == Peer(e)
    IN  /\ HoldsBeginning(t, r)
        /\ LastIsHeld(t, r)
        /\ phase[f] # "idle" => Continues(t, r, txPacket[f])
        /\ Arrives(e, {"packet"}) => Continues(t, r, Head(wire[e]))
        /\ /\ Waiting(f) /\ Arrives(f, {"ACK"})
           /\ txPacket[f].sequence > 0
           /\ r.lastSequence = txPacket[f].sequence
           => IsOf(t, txPacket[f].message)

WholeInv ==
    /\ Inv /\ TakesTurns /\ PacketsAreWellMade
    /\ \A e \in Ends : HoldsOneMessage(e)

LEMMA WholeImpliesProperty == WholeInv => MessageIsWhole
<1> SUFFICES ASSUME WholeInv, NEW e \in Ends,
                    transport[e].complete, transport[e].parts # <<>>
             PROVE  /\ Len(transport[e].parts) = transport[e].parts[1].message.packets
                    /\ \A i \in 1..Len(transport[e].parts) :
                          transport[e].parts[i] =
                              [message  |-> transport[e].parts[1].message,
                               sequence |-> Len(transport[e].parts) - i]
    BY DEF MessageIsWhole
<1>1. HoldsBeginning(transport[e], rx[e])
    BY DEF WholeInv, HoldsOneMessage
<1>2. Len(transport[e].parts) = transport[e].parts[1].message.packets
    BY <1>1 DEF HoldsBeginning
<1> QED
    BY <1>1, <1>2 DEF HoldsBeginning

LEMMA ChecksumIsOfPacket == \A p : CRC(p) # NoPacket
<1> SUFFICES ASSUME NEW p, CRC(p) = NoPacket PROVE FALSE
    OBVIOUS
<1>1. DOMAIN CRC(p) = {"message", "sequence", "first", "toggle"}
    BY DEF CRC
<1>2. DOMAIN NoPacket = {"toggle"}
    BY DEF NoPacket
<1> QED
    BY <1>1, <1>2

\* A packet received leaves the beginning of one message, and is of it if it is
\* acknowledged and has a successor.
LEMMA ReceptionHoldsBeginning ==
    ASSUME NEW t \in Buffers, NEW r \in Links, NEW p \in Packets, WellMade(p),
           HoldsBeginning(t, r), LastIsHeld(t, r), Continues(t, r, p)
    PROVE  LET u == TransportAfter(t, r, p)
               s == LinkAfter(r, p)
           IN  /\ HoldsBeginning(u, s)
               /\ LastIsHeld(u, s)
               /\ Continues(u, s, p)
               /\ /\ IsDuplicate(r, p) \/ ~IsOutOfSequence(r, p)
                  /\ p.sequence > 0
                  => IsOf(u, p.message)
<1> DEFINE u == TransportAfter(t, r, p)
           s == LinkAfter(r, p)
<1>1. p.message.packets \in Nat /\ p.sequence \in Nat /\ p.length \in Nat /\ r.offset \in Nat /\ r.lastSequence \in Nat
    BY DataLinkAssumption DEF Packets, Links
<1>2. CASE ~Accepts(r, p)
    <2>1. u = t /\ s = r
        BY <1>2 DEF TransportAfter, LinkAfter
    <2>2. IsDuplicate(r, p) /\ p.sequence > 0 => IsOf(t, p.message)
        <3>1. CRC(p) # NoPacket
            BY ChecksumIsOfPacket
        <3> QED
            BY <3>1 DEF IsDuplicate, LastIsHeld, CRC
    <2> QED
        BY <1>2, <2>1, <2>2 DEF Accepts
<1>3. CASE Accepts(r, p)
    <2>1. s = [last |-> CRC(p), lastSequence |-> p.sequence, offset |-> Offset(r, p) + p.length]
        BY <1>3 DEF LinkAfter
    <2>2. CASE p.length = 0
        <3>1. u = t /\ p.sequence = 0
            BY <1>1, <2>2 DEF TransportAfter, WellMade
        <3> QED
            BY <1>1, <2>1, <3>1 DEF HoldsBeginning, LastIsHeld, Continues, CRC
    <2>3. CASE p.length # 0 /\ ~(p.multiple /\ ~p.first)
        <3>1. Offset(r, p) = 0 /\ u.parts = <<Part(p)>> /\ u.complete = Completes(p)
            BY <1>3, <2>3 DEF TransportAfter, PartsAfter, Offset
        <3>2. Part(p) = [message |-> p.message, sequence |-> p.message.packets - 1]
            BY <1>1, <2>3 DEF Part, WellMade
        <3>3. /\ Len(u.parts) = 1 /\ u.parts[1] = Part(p) /\ u.parts # <<>>
              /\ \A i \in 1..Len(u.parts) : i = 1
            BY <3>1
        <3>4. IsOf(u, p.message)
            BY <3>2, <3>3 DEF IsOf
        <3>5. p.sequence > 0 => ~Completes(p) /\ p.message.packets = 1 + p.sequence
            BY <1>1, <2>3 DEF Completes, WellMade
        <3>6. ~(p.sequence > 0) => p.message.packets = 1
            BY <1>1, <2>3 DEF WellMade
        <3>7. s.lastSequence = p.sequence /\ s.offset > 0 /\ s.last = CRC(p)
            BY <1>1, <2>1, <2>3, <3>1
        <3>8. HoldsBeginning(u, s)
            <4>1. \A i \in 1..Len(u.parts) :
                     u.parts[i] = [message |-> u.parts[1].message,
                                   sequence |-> u.parts[1].message.packets - i]
                BY <3>2, <3>3
            <4>2. u.parts[1].message = p.message
                BY <3>2, <3>3
            <4>3. u.complete => ~(p.sequence > 0)
                BY <3>1, <3>5
            <4> HIDE DEF u, s
            <4> QED
                BY <1>1, <3>3, <3>5, <3>6, <3>7, <4>1, <4>2, <4>3 DEF HoldsBeginning
        <3>9. LastIsHeld(u, s) /\ Continues(u, s, p)
            BY <3>4, <3>7 DEF LastIsHeld, Continues, CRC
        <3> QED
            BY <3>4, <3>8, <3>9
    <2>4. CASE p.length # 0 /\ p.multiple /\ ~p.first
        <3>1. p.sequence = r.lastSequence - 1 /\ Offset(r, p) = r.offset
            BY <1>3, <2>4 DEF Accepts, IsOutOfSequence, Offset
        <3>2. r.lastSequence > 0 /\ r.offset # 0 /\ ~t.complete /\ IsOf(t, p.message)
            BY <1>1, <2>4, <3>1 DEF HoldsBeginning, Continues
        <3>3. /\ u.parts = IF r.offset # Len(t.parts) THEN <<>> ELSE Append(t.parts, Part(p))
              /\ u.complete = Completes(p)
            BY <1>3, <2>4, <3>1, <3>2 DEF TransportAfter, PartsAfter
        <3>4. s.lastSequence = p.sequence /\ s.offset > 0 /\ s.last = CRC(p)
            BY <1>1, <2>1, <3>1, <3>2
        <3>5. Completes(p) <=> p.sequence = 0
            BY <2>4 DEF Completes
        <3>6. CASE u.parts = <<>>
            <4>1. HoldsBeginning(u, s)
                <5>1. \A i \in 1..Len(u.parts) : FALSE
                    BY <3>6
                <5>2. s.lastSequence > 0 => ~u.complete
                    BY <1>1, <3>3, <3>4, <3>5
                <5> HIDE DEF u, s
                <5> QED
                    BY <3>4, <3>6, <5>1, <5>2 DEF HoldsBeginning
            <4>2. IsOf(u, p.message)
                BY <3>6 DEF IsOf
            <4> QED
                BY <3>4, <4>1, <4>2 DEF LastIsHeld, Continues, CRC
        <3>7. CASE u.parts = Append(t.parts, Part(p)) /\ r.offset = Len(t.parts)
            <4> DEFINE n == Len(t.parts)
            <4>1. t.parts \in Seq([message : Messages, sequence : Nat]) /\ n \in Nat \ {0}
                BY <3>2, <3>7 DEF Buffers
            <4>2. t.parts # <<>> /\ t.parts[1].message = p.message
                BY <3>2, <4>1 DEF IsOf
            <4>3. p.message.packets = n + 1 + p.sequence
                <5>1. p.message.packets = n + r.lastSequence
                    BY <3>2, <4>2 DEF HoldsBeginning
                <5>2. n \in Nat /\ r.lastSequence = p.sequence + 1
                    BY <1>1, <3>1, <4>1
                <5> HIDE DEF n
                <5> QED
                    BY <1>1, <5>1, <5>2
            <4>4. /\ Len(u.parts) = n + 1
                  /\ u.parts[n + 1] = Part(p)
                  /\ \A i \in 1..n : u.parts[i] = t.parts[i]
                BY <3>7, <4>1
            <4>5. u.parts[1].message = p.message /\ u.parts # <<>>
                BY <4>1, <4>2, <4>4
            <4>6. Part(p) = [message |-> p.message, sequence |-> p.message.packets - (n + 1)]
                BY <1>1, <4>1, <4>3 DEF Part
            <4>7. \A i \in 1..Len(u.parts) :
                     u.parts[i] = [message |-> p.message, sequence |-> p.message.packets - i]
                <5> SUFFICES ASSUME NEW i \in 1..Len(u.parts)
                             PROVE  u.parts[i] = [message |-> p.message, sequence |-> p.message.packets - i]
                    OBVIOUS
                <5>1. CASE i = n + 1
                    BY <4>4, <4>6, <5>1
                <5>2. CASE i \in 1..n
                    BY <4>2, <4>4, <5>2 DEF HoldsBeginning
                <5> QED
                    BY <4>1, <4>4, <5>1, <5>2
            <4>8. IsOf(u, p.message)
                BY <4>5 DEF IsOf
            <4>9. HoldsBeginning(u, s)
                <5>1. u.complete => Len(u.parts) = p.message.packets
                    BY <1>1, <3>3, <3>5, <4>1, <4>3, <4>4
                <5>2. s.lastSequence > 0 => /\ ~u.complete
                                            /\ p.message.packets = Len(u.parts) + s.lastSequence
                    BY <1>1, <3>3, <3>4, <3>5, <4>1, <4>3, <4>4
                <5> HIDE DEF u, s
                <5> QED
                    BY <3>4, <4>5, <4>7, <5>1, <5>2 DEF HoldsBeginning
            <4> QED
                BY <3>4, <4>8, <4>9 DEF LastIsHeld, Continues, CRC
        <3> QED
            BY <3>3, <3>6, <3>7
    <2> QED
        BY <2>2, <2>3, <2>4
<1> QED
    BY <1>2, <1>3

-----------------------------------------------------------------------------
\* Packets are well made, whoever makes them.
LEMMA FirstPacketIsWellMade ==
    ASSUME NEW m \in Messages, NEW n, NEW b
    PROVE  WellMade(FirstPacket(m, n, b))
<1>1. m.packets \in Nat
    BY DataLinkAssumption
<1> DEFINE p == FirstPacket(m, n, b)
<1>2. /\ p.message = m
      /\ p.multiple <=> m.packets > 1
      /\ p.first <=> m.packets > 1
      /\ p.sequence = IF m.packets > 1 THEN m.packets - 1 ELSE 0
      /\ p.length = IF m.packets = 0 THEN 0 ELSE 1
    BY DEF FirstPacket, Packet
<1> SUFFICES WellMade(p)
    OBVIOUS
<1> HIDE DEF p
<1>3. CASE m.packets > 1
    BY <1>1, <1>2, <1>3 DEF WellMade
<1>4. CASE ~(m.packets > 1)
    BY <1>1, <1>2, <1>4 DEF WellMade
<1> QED
    BY <1>3, <1>4

LEMMA NextPacketIsWellMade ==
    ASSUME NEW p \in Packets, WellMade(p), p.sequence > 0
    PROVE  WellMade(NextPacket(p, 1))
<1>1. p.message.packets \in Nat /\ p.sequence \in Nat
    BY DataLinkAssumption DEF Packets
<1>2. p.multiple /\ p.sequence < p.message.packets
    BY <1>1 DEF WellMade
<1> DEFINE q == NextPacket(p, 1)
<1>3. /\ q.message = p.message
      /\ q.multiple <=> p.message.packets > 1
      /\ ~q.first
      /\ q.sequence = p.sequence - 1
      /\ q.length = 1
    BY DEF NextPacket, Packet
<1> SUFFICES WellMade(q)
    OBVIOUS
<1> HIDE DEF q
<1>4. p.message.packets > 1
    BY <1>1, <1>2
<1> QED
    <2>1. q.sequence < p.message.packets /\ q.sequence # p.message.packets - 1
        BY <1>1, <1>2, <1>3
    <2>2. q.length = IF p.message.packets = 0 THEN 0 ELSE 1
        BY <1>1, <1>3, <1>4
    <2> QED
        BY <1>3, <1>4, <2>1, <2>2 DEF WellMade

\* An end that neither is sent a new packet nor gets one holds what it held, whatever
\* it forgets.
LEMMA ReceiverStays ==
    ASSUME WholeInv, NEW x \in Ends,
           rx'[x] \in {rx[x], NoLink, [rx[x] EXCEPT !.last = NoPacket]},
           transport'[x] \in {transport[x], [transport[x] EXCEPT !.complete = FALSE]},
           phase'[Peer(x)] # "idle" =>
               phase[Peer(x)] # "idle" /\ txPacket'[Peer(x)] = txPacket[Peer(x)],
           Arrives(x, {"packet"})' =>
               \/ wire'[x] = wire[x]
               \/ phase[Peer(x)] # "idle" /\ Head(wire'[x]) = txPacket[Peer(x)],
           (Waiting(Peer(x)) /\ Arrives(Peer(x), {"ACK"}))' =>
               Waiting(Peer(x)) /\ Arrives(Peer(x), {"ACK"})
    PROVE  HoldsOneMessage(x)'
<1> DEFINE f == Peer(x)
           r == rx[x]
           t == transport[x]
<1>1. HoldsOneMessage(x) /\ f \in Ends /\ Inv /\ TypeOK
    BY PeerIsOther DEF WholeInv, Inv
<1>2. r \in Links /\ t \in Buffers
    BY <1>1 DEF TypeOK, Links, Buffers
<1>3. /\ transport'[x].parts = t.parts
      /\ transport'[x].complete => t.complete
    BY <1>2 DEF Buffers
<1>4. /\ rx'[x].last = r.last \/ rx'[x].last = NoPacket
      /\ rx'[x] = NoLink \/ (rx'[x].lastSequence = r.lastSequence /\ rx'[x].offset = r.offset)
    BY <1>2 DEF Links, NoLink
<1>5. HoldsBeginning(transport'[x], rx'[x])
    <2>1. HoldsBeginning(t, r)
        BY <1>1 DEF HoldsOneMessage
    <2>2. ~(NoLink.lastSequence > 0)
        BY DEF NoLink
    <2> QED
        BY <1>3, <1>4, <2>1, <2>2 DEF HoldsBeginning
<1>6. \A m : IsOf(t, m) => IsOf(transport'[x], m)
    BY <1>3 DEF IsOf
<1>7. LastIsHeld(transport'[x], rx'[x])
    <2>1. LastIsHeld(t, r)
        BY <1>1 DEF HoldsOneMessage
    <2>2. NoLink.last = NoPacket
        BY DEF NoLink
    <2> QED
        BY <1>4, <1>6, <2>1, <2>2 DEF LastIsHeld
<1>8. ASSUME NEW p \in Packets, Continues(t, r, p)
      PROVE  Continues(transport'[x], rx'[x], p)
    <2>1. p.sequence # NoLink.lastSequence - 1
        BY DEF NoLink, Packets
    <2> QED
        BY <1>4, <1>6, <1>8, <2>1 DEF Continues
<1>9. phase[f] # "idle" => txPacket[f] \in Packets /\ Continues(t, r, txPacket[f])
    BY <1>1 DEF Inv, SendersHavePackets, HoldsOneMessage
<1>10. phase'[f] # "idle" => Continues(transport'[x], rx'[x], txPacket'[f])
    BY <1>8, <1>9
<1>11. Arrives(x, {"packet"})' => Continues(transport'[x], rx'[x], Head(wire'[x]))
    <2>1. Arrives(x, {"packet"}) => Head(wire[x]) \in Packets /\ Continues(t, r, Head(wire[x]))
        BY <1>1, PacketArrives DEF HoldsOneMessage
    <2>2. Arrives(x, {"packet"})' /\ wire'[x] = wire[x] => Arrives(x, {"packet"})
        BY DEF Arrives
    <2> QED
        BY <1>8, <1>9, <2>1, <2>2
<1>12. /\ (Waiting(f) /\ Arrives(f, {"ACK"}))'
       /\ txPacket'[f].sequence > 0
       /\ rx'[x].lastSequence = txPacket'[f].sequence
       => IsOf(transport'[x], txPacket'[f].message)
    <2> SUFFICES ASSUME (Waiting(f) /\ Arrives(f, {"ACK"}))',
                        txPacket'[f].sequence > 0,
                        rx'[x].lastSequence = txPacket'[f].sequence
                 PROVE  IsOf(transport'[x], txPacket'[f].message)
        OBVIOUS
    <2>1. Waiting(f) /\ Arrives(f, {"ACK"})
        OBVIOUS
    <2>2. phase'[f] # "idle" /\ txPacket'[f] = txPacket[f]
        BY DEF Waiting
    <2>3. rx'[x].lastSequence = r.lastSequence
        BY <1>4 DEF NoLink
    <2> QED
        BY <1>1, <1>6, <2>1, <2>2, <2>3 DEF HoldsOneMessage
<1> QED
    BY <1>5, <1>7, <1>10, <1>11, <1>12 DEF HoldsOneMessage

Whole == PacketsAreWellMade /\ \A e \in Ends : HoldsOneMessage(e)

\* A step of an end that accepts no packet and starts none.
LEMMA StepWithoutPacket ==
    ASSUME WholeInv, NEW e \in Ends,
           rx'[e] \in {rx[e], NoLink, [rx[e] EXCEPT !.last = NoPacket]},
           transport'[e] \in {transport[e], [transport[e] EXCEPT !.complete = FALSE]},
           phase'[e] # "idle" => phase[e] # "idle" /\ txPacket'[e] = txPacket[e],
           Waiting(e)' => Waiting(e) \/ wire'[e] = <<>>,
           wire'[e] \in {wire[e], <<>>},
           \/ wire'[Peer(e)] = wire[Peer(e)]
           \/ ~Arrives(Peer(e), {"packet", "ACK"})'
           \/ phase[e] # "idle" /\ wire'[Peer(e)] = <<txPacket[e]>>,
           rx'[Peer(e)] = rx[Peer(e)],
           transport'[Peer(e)] = transport[Peer(e)],
           phase'[Peer(e)] = phase[Peer(e)],
           txPacket'[Peer(e)] = txPacket[Peer(e)]
    PROVE  Whole'
<1> DEFINE f == Peer(e)
<1>1. f \in Ends /\ f # e /\ Peer(f) = e /\ \A x \in Ends : x = e \/ x = f
    BY PeerIsOther
<1>2. PacketsAreWellMade /\ (phase[e] # "idle" => txPacket[e] \in Packets)
    BY DEF WholeInv, Inv, SendersHavePackets
<1>3. /\ Arrives(e, {"packet"})' => wire'[e] = wire[e]
      /\ Arrives(f, {"packet"})' => \/ wire'[f] = wire[f]
                                    \/ phase[e] # "idle" /\ Head(wire'[f]) = txPacket[e]
    BY Single DEF Arrives
<1>4. PacketsAreWellMade'
    <2>1. \A x \in Ends : phase'[x] # "idle" => WellMade(txPacket'[x])
        BY <1>1, <1>2 DEF PacketsAreWellMade
    <2>2. \A x \in Ends : Arrives(x, {"packet"})' => WellMade(Head(wire'[x]))
        BY <1>1, <1>2, <1>3 DEF PacketsAreWellMade, Arrives
    <2> QED
        BY <2>1, <2>2 DEF PacketsAreWellMade
<1>5. HoldsOneMessage(e)'
    <2>1. (Waiting(f) /\ Arrives(f, {"ACK"}))' => Waiting(f) /\ Arrives(f, {"ACK"})
        <3>1. Arrives(f, {"ACK"})' => wire'[f] = wire[f]
            <4>1. phase[e] # "idle" => Head(<<txPacket[e]>>).kind # "ACK"
                BY <1>2, Single DEF Packets
            <4> QED
                BY <4>1 DEF Arrives
        <3> QED
            BY <3>1 DEF Waiting, Arrives
    <2> QED
        BY <1>1, <1>3, <2>1, ReceiverStays
<1>6. HoldsOneMessage(f)'
    <2>1. (Waiting(e) /\ Arrives(e, {"ACK"}))' => Waiting(e) /\ Arrives(e, {"ACK"})
        BY DEF Arrives
    <2> QED
        BY <1>1, <1>3, <2>1, ReceiverStays
<1> QED
    BY <1>1, <1>4, <1>5, <1>6 DEF Whole

LEMMA RunKeepsWhole ==
    ASSUME WholeInv, NEW e \in Ends, Run(e)
    PROVE  Whole'
<1> DEFINE f == Peer(e)
<1>1. f \in Ends /\ f # e /\ Peer(f) = e /\ \A x \in Ends : x = e \/ x = f
    BY PeerIsOther
<1>2. Inv /\ TypeOK /\ Turn(e) /\ Turn(f) /\ PacketsAreWellMade
    BY <1>1 DEF WholeInv, Inv, TakesTurns
<1>3. /\ phase[e] = "idle" /\ UNCHANGED <<phase, txPacket>>
      /\ wire[e] # <<>> /\ Tail(wire[e]) = <<>> /\ wire[f] = <<>>
    BY <1>2 DEF Run, RunReceives, RunRefuses, RunSkips, Running, Arrives, Turn, sender
<1>4. CASE RunReceives(e)
    <2> DEFINE p == Head(wire[e])
               t == transport[e]
               r == rx[e]
    <2>1. p \in Packets /\ t \in Buffers /\ r \in Links /\ WellMade(p)
        BY <1>2, <1>4, PacketArrives DEF RunReceives, TypeOK, Links, Buffers, PacketsAreWellMade
    <2>2. /\ rx' = [rx EXCEPT ![e] = LinkAfter(r, p)]
          /\ transport' = [transport EXCEPT ![e] = TransportAfter(t, r, p)]
          /\ \/ Put(e, <<>>, NAK)
             \/ Put(e, <<>>, ACK) /\ (IsDuplicate(r, p) \/ ~IsOutOfSequence(r, p))
        BY <1>3, <1>4 DEF RunReceives, ProcessReceivedPacket
    <2>3. /\ rx'[e] = LinkAfter(r, p) /\ rx'[f] = rx[f]
          /\ transport'[e] = TransportAfter(t, r, p) /\ transport'[f] = transport[f]
        BY <1>1, <1>2, <2>2 DEF TypeOK
    <2>4. wire'[e] = <<>> /\ ~Arrives(f, {"packet"})'
        <3>1. ACK.kind # "packet" /\ NAK.kind # "packet"
            BY DEF ACK, NAK, Byte
        <3>2. \A i \in {ACK, NAK} : \A d \in Damaged(i) : d.kind # "packet"
            BY <3>1 DEF Damaged, Byte
        <3>3. wire'[e] = <<>> /\ (wire'[f] = <<>> \/ \E d : wire'[f] = <<d>> /\ d.kind # "packet")
            BY <1>2, <1>3, <2>2, <3>1, <3>2, PutAlone
        <3> QED
            BY <3>3, Single DEF Arrives
    <2>5. Arrives(f, {"ACK"})' => IsDuplicate(r, p) \/ ~IsOutOfSequence(r, p)
        <3>1. NAK.kind # "ACK" /\ \A d \in Damaged(NAK) : d.kind # "ACK"
            BY DEF NAK, Byte, Damaged
        <3>2. Put(e, <<>>, NAK) => wire'[f] = <<>> \/ \E d : wire'[f] = <<d>> /\ d.kind # "ACK"
            BY <1>2, <1>3, <3>1, PutAlone
        <3> QED
            BY <2>2, <3>2, Single DEF Arrives
    <2>6. /\ HoldsBeginning(t, r) /\ LastIsHeld(t, r) /\ Continues(t, r, p)
        <3>1. HoldsOneMessage(e) /\ Arrives(e, {"packet"})
            BY <1>4 DEF WholeInv, RunReceives
        <3> QED
            BY <3>1 DEF HoldsOneMessage
    <2>7. /\ HoldsBeginning(transport'[e], rx'[e])
          /\ LastIsHeld(transport'[e], rx'[e])
          /\ Continues(transport'[e], rx'[e], p)
          /\ /\ IsDuplicate(r, p) \/ ~IsOutOfSequence(r, p)
             /\ p.sequence > 0
             => IsOf(transport'[e], p.message)
        BY <2>1, <2>3, <2>6, ReceptionHoldsBeginning
    <2>8. phase[f] # "idle" => txPacket[f] = p
        BY <1>1, <1>2, <1>3, <1>4 DEF Turn, RunReceives, Waiting
    <2>9. HoldsOneMessage(e)'
        <3>1. ~Arrives(e, {"packet"})'
            BY <2>4 DEF Arrives
        <3>2. phase'[f] # "idle" => Continues(transport'[e], rx'[e], txPacket'[f])
            BY <1>3, <2>7, <2>8
        <3>3. (Waiting(f) /\ Arrives(f, {"ACK"}))' => phase[f] # "idle" /\ (IsDuplicate(r, p) \/ ~IsOutOfSequence(r, p))
            BY <1>3, <2>5 DEF Waiting
        <3> QED
            BY <1>3, <2>7, <2>8, <3>1, <3>2, <3>3 DEF HoldsOneMessage
    <2>10. HoldsOneMessage(f)'
        <3>1. ~Waiting(e)'
            BY <1>3 DEF Waiting
        <3> QED
            BY <1>1, <1>3, <2>3, <2>4, <3>1, ReceiverStays
    <2>11. PacketsAreWellMade'
        <3>1. ~Arrives(e, {"packet"})'
            BY <2>4 DEF Arrives
        <3> QED
            BY <1>1, <1>2, <1>3, <2>4, <3>1 DEF PacketsAreWellMade
    <2> QED
        BY <1>1, <2>9, <2>10, <2>11 DEF Whole
<1>5. CASE RunRefuses(e)
    <2>1. UNCHANGED <<rx, transport>>
        BY <1>5 DEF RunRefuses
    <2>2. wire'[e] = <<>> /\ ~Arrives(f, {"packet", "ACK"})'
        <3>1. NAK.kind \notin {"packet", "ACK"} /\ \A d \in Damaged(NAK) : d.kind \notin {"packet", "ACK"}
            BY DEF NAK, Byte, Damaged
        <3>2. wire'[e] = <<>> /\ (wire'[f] = <<>> \/ \E d : wire'[f] = <<d>> /\ d.kind \notin {"packet", "ACK"})
            BY <1>2, <1>3, <1>5, <3>1, PutAlone DEF RunRefuses
        <3> QED
            BY <3>2, Single DEF Arrives
    <2> QED
        BY <1>3, <2>1, <2>2, StepWithoutPacket DEF Waiting
<1>6. CASE RunSkips(e)
    <2>1. UNCHANGED <<rx, transport>> /\ wire'[e] = <<>> /\ wire'[f] = wire[f]
        BY <1>1, <1>2, <1>3, <1>6 DEF RunSkips, Skip, TypeOK
    <2> QED
        BY <1>3, <2>1, StepWithoutPacket DEF Waiting
<1> QED
    BY <1>4, <1>5, <1>6 DEF Run

\* A step that only starts a packet, which the peer knows to follow what it holds.
LEMMA StepWithNewPacket ==
    ASSUME WholeInv, NEW e \in Ends,
           UNCHANGED <<rx, transport>>,
           wire'[Peer(e)] = <<>>, wire'[e] = <<>>,
           phase'[Peer(e)] = "idle",
           txPacket'[e] \in Packets, WellMade(txPacket'[e]),
           Continues(transport[Peer(e)], rx[Peer(e)], txPacket'[e])
    PROVE  Whole'
<1> DEFINE f == Peer(e)
<1>1. f \in Ends /\ f # e /\ Peer(f) = e /\ \A x \in Ends : x = e \/ x = f
    BY PeerIsOther
<1>2. HoldsOneMessage(e) /\ HoldsOneMessage(f)
    BY <1>1 DEF WholeInv
<1>3. \A x \in Ends : \A k : ~Arrives(x, k)'
    BY <1>1 DEF Arrives
<1>4. PacketsAreWellMade'
    BY <1>1, <1>3 DEF PacketsAreWellMade
<1>5. HoldsOneMessage(e)'
    BY <1>1, <1>2, <1>3 DEF HoldsOneMessage
<1>6. HoldsOneMessage(f)'
    BY <1>1, <1>2, <1>3 DEF HoldsOneMessage
<1> QED
    BY <1>1, <1>4, <1>5, <1>6 DEF Whole

LEMMA StartMessageKeepsWhole ==
    ASSUME ~Collisions, WholeInv, Inv', NEW e \in Ends, NEW m \in Messages, StartMessage(e, m)
    PROVE  Whole'
<1> DEFINE f == Peer(e)
<1>1. f \in Ends /\ f # e
    BY PeerIsOther
<1>2. wire'[e] = <<>> /\ wire'[f] = <<>> /\ phase'[f] = "idle" /\ phase'[e] # "idle"
    BY <1>1 DEF StartMessage, MaySend, Quiet, line, WholeInv, Inv, TypeOK
<1>3. txPacket'[e] = FirstPacket(m, sent'[e], txToggle'[e])
    BY DEF StartMessage, WholeInv, Inv, TypeOK
<1>4. txPacket'[e] \in Packets
    BY <1>2 DEF Inv, SendersHavePackets
<1>5. WellMade(txPacket'[e])
    BY <1>3, FirstPacketIsWellMade
<1>6. Continues(transport[f], rx[f], txPacket'[e])
    <2>1. txPacket'[e].multiple <=> txPacket'[e].first
        BY <1>3 DEF FirstPacket, Packet
    <2> QED
        BY <2>1 DEF Continues
<1> QED
    BY <1>2, <1>4, <1>5, <1>6, StepWithNewPacket DEF StartMessage

LEMMA SendKeepsWhole ==
    ASSUME WholeInv, NEW e \in Ends, Send(e)
    PROVE  Whole'
<1> DEFINE f == Peer(e)
<1>1. f \in Ends /\ f # e /\ Peer(f) = e
    BY PeerIsOther
<1>2. Turn(e) /\ TypeOK
    BY DEF WholeInv, Inv, TakesTurns
<1>3. phase[e] \notin {"idle", "waiting"}
    BY DEF Send, HandlePacketInProgress, RefusePacketInProgress, SkipInProgress, StopReceiving, SendPacket
<1>4. wire[e] = <<>> /\ wire[f] = <<>> /\ phase[f] = "idle"
    BY <1>2, <1>3 DEF Turn
<1>5. ~HandlePacketInProgress(e) /\ ~RefusePacketInProgress(e) /\ ~SkipInProgress(e)
    BY <1>4 DEF HandlePacketInProgress, RefusePacketInProgress, SkipInProgress, Arrives
<1>6. UNCHANGED <<rx, transport, txPacket>> /\ phase'[f] = phase[f]
    BY <1>1, <1>2, <1>5 DEF Send, StopReceiving, SendPacket, TypeOK
<1>7. CASE StopReceiving(e)
    <2>1. UNCHANGED wire
        BY <1>7 DEF StopReceiving, line
    <2> QED
        BY <1>3, <1>4, <1>6, <2>1, StepWithoutPacket
<1>8. CASE SendPacket(e)
    <2>1. \A d \in Damaged(txPacket[e]) : d.kind \notin {"packet", "ACK"}
        BY DEF Damaged, Byte
    <2>2. /\ wire'[e] = <<>>
          /\ wire'[f] = <<>> \/ wire'[f] = <<txPacket[e]>>
               \/ \E d : wire'[f] = <<d>> /\ d.kind \notin {"packet", "ACK"}
        BY <1>2, <1>4, <1>8, <2>1, PutAlone DEF SendPacket
    <2>3. wire'[f] = wire[f] \/ ~Arrives(f, {"packet", "ACK"})' \/ wire'[f] = <<txPacket[e]>>
        BY <1>4, <2>2, Single DEF Arrives
    <2> QED
        BY <1>3, <1>6, <2>2, <2>3, StepWithoutPacket
<1> QED
    BY <1>5, <1>7, <1>8 DEF Send

LEMMA WaitForAckKeepsWhole ==
    ASSUME WholeInv, Inv', NEW e \in Ends, WaitForAck(e)
    PROVE  Whole'
<1> DEFINE f == Peer(e)
           p == txPacket[e]
<1>1. f \in Ends /\ f # e /\ Peer(f) = e
    BY PeerIsOther
<1>2. /\ phase[e] = "waiting" /\ phase[f] = "idle"
      /\ wire[e] # <<>> => Tail(wire[e]) = <<>> /\ wire[f] = <<>>
      /\ ~Arrives(e, {"packet", "corrupt"})
      /\ TypeOK /\ HoldsOneMessage(f) /\ p \in Packets /\ WellMade(p)
    BY <1>1 DEF WholeInv, Inv, SendersHavePackets, PacketsAreWellMade, TakesTurns, Turn, WaitForAck,
           WaitAcknowledged, WaitRefused, WaitReceives, WaitRefuses, WaitSkips, WaitTimesOut,
           WaitIsAborted, Waiting
<1>3. ~WaitReceives(e) /\ ~WaitRefuses(e)
    BY <1>2 DEF WaitReceives, WaitRefuses, Arrives
<1>4. ASSUME NextTry(e, rx[e])
      PROVE  /\ rx'[e] \in {rx[e], NoLink} /\ rx'[f] = rx[f]
             /\ phase'[f] = phase[f] /\ txPacket'[f] = txPacket[f]
             /\ phase'[e] # "idle" => txPacket'[e] = txPacket[e]
             /\ ~Waiting(e)'
    BY <1>1, <1>2, <1>4 DEF NextTry, GiveUp, TypeOK, Waiting
<1>5. CASE WaitAcknowledged(e)
    <2>1. /\ UNCHANGED <<rx, transport>> /\ phase'[f] = "idle" /\ txPacket'[f] = txPacket[f]
          /\ wire'[e] = <<>> /\ wire'[f] = <<>>
        BY <1>1, <1>2, <1>5 DEF WaitAcknowledged, Skip, Arrives, TypeOK
    <2>2. CASE p.sequence > 0
        <3>1. txPacket'[e] = NextPacket(p, 1)
            BY <1>2, <1>5, <2>2 DEF WaitAcknowledged, TypeOK
        <3>2. txPacket'[e] \in Packets /\ WellMade(txPacket'[e])
            BY <1>2, <2>2, <3>1, NextPacketIsPacket, NextPacketIsWellMade
        <3>3. Continues(transport[f], rx[f], txPacket'[e])
            <4>1. rx[f].lastSequence \in Nat /\ p.sequence \in Nat
                BY <1>1, <1>2 DEF TypeOK, Packets
            <4>2. rx[f].lastSequence = p.sequence => IsOf(transport[f], p.message)
                BY <1>1, <1>2, <1>5, <2>2 DEF HoldsOneMessage, WaitAcknowledged
            <4>3. txPacket'[e].sequence = p.sequence - 1 /\ txPacket'[e].message = p.message
                BY <3>1 DEF NextPacket, Packet
            <4> QED
                BY <4>1, <4>2, <4>3 DEF Continues
        <3> QED
            BY <2>1, <3>2, <3>3, StepWithNewPacket
    <2>3. CASE ~(p.sequence > 0)
        <3>1. phase'[e] = "idle"
            BY <1>2, <1>5, <2>3 DEF WaitAcknowledged, TypeOK
        <3>2. wire'[f] = wire[f]
            BY <1>2, <1>5, <2>1 DEF WaitAcknowledged, Arrives
        <3> QED
            BY <1>2, <2>1, <3>1, <3>2, StepWithoutPacket DEF Waiting
    <2> QED
        BY <2>2, <2>3
<1>6. CASE WaitRefused(e)
    <2>1. wire'[e] = <<>> /\ wire'[f] = wire[f] /\ UNCHANGED transport
        BY <1>1, <1>2, <1>6 DEF WaitRefused, Skip, Arrives, TypeOK
    <2> QED
        BY <1>2, <1>4, <1>6, <2>1, StepWithoutPacket DEF WaitRefused
<1>7. CASE WaitSkips(e)
    <2>1. wire'[f] = wire[f] /\ UNCHANGED transport
        BY <1>1, <1>2, <1>7 DEF WaitSkips, TypeOK
    <2>2. wire'[e] = <<>>
        <3>1. wire[e] \in Seq(Items) /\ wire[e] # <<>> /\ Len(wire[e]) = 1
            BY <1>2, <1>7, SingleHasLength DEF TypeOK, Items, WaitSkips, Arrives
        <3>2. PICK n \in 1..Len(wire[e]) : wire' = [wire EXCEPT ![e] = SubSeq(@, n + 1, Len(@))]
            BY <1>7 DEF WaitSkips
        <3>3. n = 1
            BY <3>1
        <3>4. SubSeq(wire[e], n + 1, Len(wire[e])) = <<>>
            BY <3>1, <3>3
        <3> QED
            BY <1>2, <3>2, <3>4 DEF TypeOK
    <2> QED
        BY <1>2, <1>4, <1>7, <2>1, <2>2, StepWithoutPacket DEF WaitSkips
<1>8. CASE WaitTimesOut(e)
    <2>1. UNCHANGED <<wire, transport>>
        BY <1>8 DEF WaitTimesOut, line
    <2> QED
        BY <1>2, <1>4, <1>8, <2>1, StepWithoutPacket DEF WaitTimesOut
<1>9. CASE WaitIsAborted(e)
    <2>1. /\ UNCHANGED <<wire, transport, rx>>
          /\ phase'[e] = "idle" /\ phase'[f] = phase[f] /\ txPacket'[f] = txPacket[f]
        BY <1>1, <1>2, <1>9 DEF WaitIsAborted, GiveUp, line, TypeOK
    <2> QED
        BY <1>2, <2>1, StepWithoutPacket DEF Waiting
<1> QED
    BY <1>3, <1>5, <1>6, <1>7, <1>8, <1>9 DEF WaitForAck

LEMMA NextKeepsWhole == ~Collisions /\ WholeInv /\ [Next]_vars => WholeInv'
<1> SUFFICES ASSUME ~Collisions, WholeInv, [Next]_vars PROVE WholeInv'
    OBVIOUS
<1>1. Inv' /\ TakesTurns'
    BY NextKeepsTypes, NextKeepsTurns DEF WholeInv
<1>2. CASE UNCHANGED vars
    BY <1>1, <1>2
    DEF vars, sender, line, WholeInv, PacketsAreWellMade, HoldsOneMessage, Arrives, Waiting
<1>3. ASSUME NEW e \in Ends,
             \/ TakeMessage(e)
             \/ \E n \in 1..MaxPackets : SetParameters(e, n)
             \/ TrafficTimeout(e)
             \/ PowerUpInProgress(e)
             \/ NotePowerUp(e)
      PROVE  Whole'
    <2>1. Peer(e) \in Ends /\ Peer(e) # e
        BY PeerIsOther
    <2>2. UNCHANGED <<phase, txPacket>>
        BY <1>3 DEF TakeMessage, SetParameters, TrafficTimeout, PowerUpInProgress, NotePowerUp, sender
    <2>3. /\ rx'[e] \in {rx[e], NoLink, [rx[e] EXCEPT !.last = NoPacket]}
          /\ rx'[Peer(e)] = rx[Peer(e)]
        BY <1>3, <2>1
        DEF TakeMessage, SetParameters, TrafficTimeout, PowerUpInProgress, NotePowerUp, WholeInv, Inv, TypeOK
    <2>4. /\ transport'[e] \in {transport[e], [transport[e] EXCEPT !.complete = FALSE]}
          /\ transport'[Peer(e)] = transport[Peer(e)]
        BY <1>3, <2>1
        DEF TakeMessage, SetParameters, TrafficTimeout, PowerUpInProgress, NotePowerUp, WholeInv, Inv, TypeOK
    <2>5. wire'[e] \in {wire[e], <<>>} /\ wire'[Peer(e)] = wire[Peer(e)]
        BY <1>3, <2>1
        DEF TakeMessage, SetParameters, TrafficTimeout, PowerUpInProgress, NotePowerUp, line, WholeInv, Inv, TypeOK
    <2> QED
        BY <2>2, <2>3, <2>4, <2>5, StepWithoutPacket DEF Waiting
<1>4. Whole'
    BY <1>1, <1>2, <1>3, RunKeepsWhole, StartMessageKeepsWhole, SendKeepsWhole, WaitForAckKeepsWhole
    DEF Next, WholeInv, Whole
<1> QED
    BY <1>1, <1>4 DEF WholeInv, Whole

LEMMA InitIsWhole == Init => WholeInv
<1> SUFFICES ASSUME Init PROVE WholeInv
    OBVIOUS
<1>1. PacketsAreWellMade
    BY DEF Init, PacketsAreWellMade, Arrives
<1>2. ASSUME NEW e \in Ends PROVE HoldsOneMessage(e)
    <2>1. /\ transport[e] = Nothing /\ rx[e] = NoLink /\ wire[e] = <<>>
          /\ phase[Peer(e)] = "idle" /\ wire[Peer(e)] = <<>>
        BY PeerIsOther DEF Init
    <2>2. HoldsBeginning(Nothing, NoLink) /\ LastIsHeld(Nothing, NoLink)
        BY DEF HoldsBeginning, LastIsHeld, Nothing, NoLink
    <2> QED
        BY <2>1, <2>2 DEF HoldsOneMessage, Arrives, Waiting
<1> QED
    BY <1>1, <1>2, InitHasTypes, InitTakesTurns DEF WholeInv

\* A message put together by the transport is all the packets of one message, whatever is
\* lost or damaged, however often a send fails, the link times out or the power fails, as
\* long as the ends do not send at the same time.
THEOREM DataLinkMessageIsWhole == ~Collisions => (Spec => []MessageIsWhole)
<1> SUFFICES ASSUME ~Collisions PROVE Spec => []MessageIsWhole
    OBVIOUS
<1>1. WholeInv /\ [Next]_vars => WholeInv'
    BY NextKeepsWhole
<1> QED
    BY <1>1, InitIsWhole, WholeImpliesProperty, PTL DEF Spec

-----------------------------------------------------------------------------
(***************************************************************************)
(* A line that loses no more than the tries of a packet.  The toggle bits  *)
(* of the ends are equal between messages, and during one the peer has the *)
(* packet that is being sent, or it differs from its last in the toggle    *)
(* bit and follows it.  Each failed try has cost a fault.                  *)
(***************************************************************************)
LosesNoPacket ==
    /\ ~Collisions
    /\ ~Failures
    /\ \A m \in Messages : ~m.oneTry
    /\ MaxFaults <= MaxRetries

\* The end e and its peer agree on what was sent and received.
InAgreement(e) ==
    LET f == Peer(e)
    IN  /\ sent[e] = 0 \/ sent[e] \in told[e]
        /\ Len(received[f]) = sent[e]
        /\ rx[f].last.toggle = txToggle[e]

\* The peer can add a packet to what it has of the message.
HasRoom(f) ==
    /\ ~transport[f].complete
    /\ rx[f].offset = Len(transport[f].parts)
    /\ rx[f].offset > 0

InProgress(e) ==
    LET f == Peer(e)
        p == txPacket[e]
        r == rx[f]
    IN  /\ p.number = sent[e]
        /\ p.toggle = txToggle[e]
        /\ r.last = CRC(p) =>
              /\ r.lastSequence = p.sequence
              /\ Len(received[f]) = IF p.sequence = 0 THEN sent[e] ELSE sent[e] - 1
              /\ p.sequence > 0 => HasRoom(f)
        /\ r.last # CRC(p) =>
              /\ r.last.toggle # p.toggle
              /\ ~IsOutOfSequence(r, p)
              /\ Len(received[f]) = sent[e] - 1
              /\ p.multiple /\ ~p.first => HasRoom(f)
        /\ Arrives(e, {"ACK"}) => r.last = CRC(p)
        /\ Waiting(e) => wire[f] = <<p>> \/ Arrives(e, {"ACK"}) \/ retry[e] < faults

InStep(e) ==
    /\ phase[e] = "idle" => InAgreement(e)
    /\ phase[e] # "idle" => InProgress(e)
    /\ phase[e] = "idle" /\ phase[Peer(e)] = "idle" => wire[e] = <<>>
    /\ retry[e] <= faults
    /\ ~powerUp[e]

LinkInv == WholeInv /\ \A e \in Ends : InStep(e)

LEMMA InitIsInStep == Init => LinkInv
<1> SUFFICES ASSUME Init PROVE LinkInv
    OBVIOUS
<1>1. ASSUME NEW e \in Ends PROVE InStep(e)
    <2>1. /\ phase[e] = "idle" /\ wire[e] = <<>> /\ retry[e] = 0 /\ faults = 0
          /\ sent[e] = 0 /\ received[Peer(e)] = <<>> /\ txToggle[e] = 0
          /\ rx[Peer(e)] = NoLink /\ powerUp[e] = FALSE
        BY PeerIsOther DEF Init
    <2>2. NoLink.last.toggle = 0
        BY DEF NoLink, NoPacket
    <2>3. InAgreement(e)
        BY <2>1, <2>2 DEF InAgreement
    <2> QED
        BY <2>1, <2>3 DEF InStep
<1> QED
    BY <1>1, InitIsWhole DEF LinkInv

\* What a packet that comes in its place does to its receiver: it is given up only when
\* there is no message to put together.
LEMMA ReceptionInStep ==
    ASSUME NEW t \in Buffers, NEW r \in Links, NEW p \in Packets, WellMade(p),
           ~p.message.oneTry, Accepts(r, p),
           p.multiple /\ ~p.first => ~t.complete /\ r.offset = Len(t.parts) /\ r.offset > 0
    PROVE  LET u == TransportAfter(t, r, p)
               s == LinkAfter(r, p)
           IN  /\ s.last = CRC(p) /\ s.lastSequence = p.sequence
               /\ u.parts # <<>>
               /\ p.sequence > 0 => ~u.complete
               /\ s.offset = Len(u.parts) /\ s.offset > 0
               /\ Completes(p) <=> p.sequence = 0
<1> DEFINE u == TransportAfter(t, r, p)
           s == LinkAfter(r, p)
<1>1. p.message.packets \in Nat \ {0} /\ p.sequence \in Nat /\ r.offset \in Nat /\ p.length = 1
    BY DataLinkAssumption DEF Packets, Links, WellMade
<1>2. /\ s.last = CRC(p) /\ s.lastSequence = p.sequence
      /\ s.offset = Offset(r, p) + 1
      /\ u.parts = PartsAfter(t, p, Offset(r, p)) /\ u.complete = Completes(p)
    BY <1>1 DEF LinkAfter, TransportAfter
<1>3. Completes(p) <=> p.sequence = 0
    BY <1>1 DEF Completes, WellMade
<1>4. u.parts # <<>> /\ s.offset = Len(u.parts) /\ s.offset > 0
    <2>1. CASE p.multiple /\ ~p.first
        <3>1. u.parts = Append(t.parts, Part(p)) /\ t.parts \in Seq([message : Messages, sequence : Nat])
            BY <1>1, <1>2, <2>1 DEF PartsAfter, Offset, Buffers
        <3>2. u.parts # <<>> /\ Len(u.parts) = Len(t.parts) + 1
            BY <3>1
        <3>3. s.offset = r.offset + 1 /\ r.offset = Len(t.parts)
            BY <1>2, <2>1 DEF Offset
        <3> QED
            BY <1>1, <3>2, <3>3
    <2>2. CASE ~(p.multiple /\ ~p.first)
        <3>1. u.parts = <<Part(p)>> /\ s.offset = 1
            BY <1>2, <2>2 DEF PartsAfter, Offset
        <3> QED
            BY <3>1
    <2> QED
        BY <2>1, <2>2
<1>5. p.sequence > 0 => ~u.complete
    BY <1>1, <1>2, <1>3
<1> QED
    BY <1>2, <1>3, <1>4, <1>5

\* An end that does nothing itself stays in step when its peer does something that
\* concerns neither its messages nor its line.
LEMMA StaysInStep ==
    ASSUME LinkInv, NEW f \in Ends,
           phase'[f] = phase[f], txPacket'[f] = txPacket[f], txToggle'[f] = txToggle[f],
           retry'[f] = retry[f], sent'[f] = sent[f], told'[f] = told[f],
           powerUp'[f] = powerUp[f],
           rx'[Peer(f)] = rx[Peer(f)], received'[Peer(f)] = received[Peer(f)],
           transport'[Peer(f)] \in
               {transport[Peer(f)], [transport[Peer(f)] EXCEPT !.complete = FALSE]},
           faults' \in {faults, faults + 1},
           phase[f] # "idle" => wire'[f] = wire[f] /\ wire'[Peer(f)] = wire[Peer(f)],
           phase[f] = "idle" /\ phase'[Peer(f)] = "idle" => wire'[f] = <<>>
    PROVE  InStep(f)'
<1> DEFINE e == Peer(f)
<1>1. e \in Ends /\ InStep(f) /\ TypeOK
    BY PeerIsOther DEF LinkInv, WholeInv, Inv
<1>2. faults \in Nat /\ faults' >= faults /\ retry[f] \in Nat
    <2>1. faults \in 0..MaxFaults /\ retry[f] \in 0..MaxRetries
        BY <1>1 DEF TypeOK
    <2> QED
        BY <2>1, DataLinkAssumption
<1>3. HasRoom(e) => HasRoom(e)'
    <2>1. transport[e] \in Buffers
        BY <1>1 DEF TypeOK, Buffers
    <2> QED
        BY <2>1 DEF HasRoom, Buffers
<1>4. InAgreement(f) => InAgreement(f)'
    BY <1>1 DEF InAgreement
<1>5. phase[f] # "idle" /\ InProgress(f) => InProgress(f)'
    BY <1>1, <1>2, <1>3 DEF InProgress, Waiting, Arrives
<1> QED
    BY <1>1, <1>2, <1>4, <1>5 DEF InStep

\* The faults that a step may add to those of the tries.
LEMMA FaultsAreCounted ==
    ASSUME TypeOK, NEW e \in Ends
    PROVE  /\ faults \in Nat /\ retry[e] \in Nat
           /\ retry[e] <= faults => retry[e] <= faults + 1 /\ retry[e] < faults + 1
<1>1. faults \in 0..MaxFaults /\ retry[e] \in 0..MaxRetries
    BY DEF TypeOK
<1> QED
    BY <1>1, DataLinkAssumption

LEMMA RunInStep ==
    ASSUME LosesNoPacket, LinkInv, NEW e \in Ends, Run(e)
    PROVE  InStep(e)' /\ InStep(Peer(e))'
<1> DEFINE f == Peer(e)
           p == txPacket[f]
           r == rx[e]
           t == transport[e]
<1>1. f \in Ends /\ f # e /\ Peer(f) = e
    BY PeerIsOther
<1>2. InStep(e) /\ InStep(f) /\ TypeOK /\ Turn(e) /\ Turn(f)
    BY <1>1 DEF LinkInv, WholeInv, Inv, TakesTurns
<1>3. /\ phase[e] = "idle" /\ wire[e] # <<>>
      /\ UNCHANGED <<phase, txPacket, txToggle, retry, sent, told, powerUp>>
    BY DEF Run, RunReceives, RunRefuses, RunSkips, Running, Arrives, ProcessReceivedPacket, sender, history
<1>4. Waiting(f) /\ wire[f] = <<>> /\ Tail(wire[e]) = <<>>
    BY <1>1, <1>2, <1>3 DEF InStep, Turn, Waiting
<1>5. p \in Packets /\ WellMade(p) /\ InProgress(f) /\ ~p.message.oneTry
    <2>1. p \in Packets /\ WellMade(p) /\ InProgress(f)
        BY <1>1, <1>2, <1>4 DEF Waiting, LinkInv, WholeInv, Inv, SendersHavePackets, PacketsAreWellMade, InStep
    <2> QED
        BY <2>1 DEF LosesNoPacket, Packets
<1>6. wire'[e] = <<>> /\ faults' \in {faults, faults + 1}
    <2>1. ASSUME NEW i, Put(e, Tail(wire[e]), i)
          PROVE  wire'[e] = <<>> /\ faults' \in {faults, faults + 1}
        BY <1>2, <1>4, <2>1, PutAlone
    <2>2. CASE RunReceives(e)
        BY <2>1, <2>2 DEF RunReceives, ProcessReceivedPacket
    <2>3. CASE RunRefuses(e)
        BY <2>1, <2>3 DEF RunRefuses
    <2>4. CASE RunSkips(e)
        BY <1>2, <1>4, <2>4 DEF RunSkips, Skip, TypeOK
    <2> QED
        BY <2>2, <2>3, <2>4 DEF Run
<1>7. InStep(e)'
    <2>1. /\ rx'[f] = rx[f] /\ received'[f] = received[f] /\ transport'[f] = transport[f]
        BY <1>1, <1>2 DEF Run, RunReceives, RunRefuses, RunSkips, ProcessReceivedPacket, history, TypeOK
    <2>2. /\ phase'[e] = phase[e] /\ txPacket'[e] = txPacket[e] /\ txToggle'[e] = txToggle[e]
          /\ retry'[e] = retry[e] /\ sent'[e] = sent[e] /\ told'[e] = told[e]
          /\ powerUp'[e] = powerUp[e]
        BY <1>3
    <2> QED
        BY <1>1, <1>3, <1>6, <2>1, <2>2, StaysInStep
<1>8. retry'[f] = retry[f] /\ retry[f] <= faults /\ retry'[f] <= faults' /\ ~powerUp'[f]
      /\ faults <= faults'
    BY <1>1, <1>2, <1>3, <1>6, FaultsAreCounted DEF InStep
<1>9. SUFFICES InProgress(f)'
    BY <1>3, <1>4, <1>7, <1>8 DEF InStep, Waiting
<1>10. CASE ~RunReceives(e)
    <2>1. UNCHANGED <<rx, transport, received>> /\ ~Arrives(e, {"packet"})
        BY <1>10 DEF Run, RunRefuses, RunSkips, Arrives, history
    <2>2. ~Arrives(f, {"ACK"})'
        <3>1. NAK.kind # "ACK" /\ \A d \in Damaged(NAK) : d.kind # "ACK"
            BY DEF NAK, Byte, Damaged
        <3>2. CASE RunRefuses(e)
            <4>1. wire'[f] = <<>> \/ \E d : wire'[f] = <<d>> /\ d.kind # "ACK"
                BY <1>2, <1>4, <3>1, <3>2, PutAlone DEF RunRefuses
            <4> QED
                BY <4>1, Single DEF Arrives
        <3>3. CASE RunSkips(e)
            BY <1>1, <1>2, <1>4, <3>3 DEF RunSkips, Skip, Arrives, TypeOK
        <3> QED
            BY <1>10, <3>2, <3>3 DEF Run
    <2>3. retry[f] < faults
        <3>1. wire[e] # <<p>>
            BY <1>5, <2>1, Single DEF Arrives, Packets
        <3>2. ~Arrives(f, {"ACK"})
            BY <1>4 DEF Arrives
        <3> QED
            BY <1>1, <1>4, <1>5, <3>1, <3>2 DEF InProgress
    <2>4. retry'[f] < faults'
        BY <1>1, <1>2, <1>6, <1>8, <2>3, FaultsAreCounted
    <2> QED
        BY <1>1, <1>3, <1>5, <2>1, <2>2, <2>4 DEF InProgress, HasRoom
<1>11. CASE RunReceives(e)
    <2>1. Head(wire[e]) = p
        BY <1>1, <1>2, <1>4, <1>11 DEF Turn, RunReceives
    <2>2. t \in Buffers /\ r \in Links
        BY <1>2 DEF TypeOK, Links, Buffers
    <2>3. IsDuplicate(r, p) \/ ~IsOutOfSequence(r, p)
        BY <1>1, <1>5 DEF InProgress, IsDuplicate
    <2>4. /\ Put(e, <<>>, ACK)
          /\ rx'[e] = LinkAfter(r, p)
          /\ transport'[e] = TransportAfter(t, r, p)
          /\ received' = IF Accepts(r, p) /\ Completes(p) /\ (p.length = 0 \/ TransportAfter(t, r, p).parts # <<>>)
                         THEN [received EXCEPT ![e] = Append(@, p.number)]
                         ELSE received
        BY <1>2, <1>4, <1>11, <2>1, <2>3 DEF RunReceives, ProcessReceivedPacket, TypeOK
    <2>5. Arrives(f, {"ACK"})' \/ retry'[f] < faults'
        <3>1. wire'[f] = <<ACK>> \/ faults' = faults + 1
            BY <1>2, <1>4, <2>4, PutAlone
        <3>2. ACK.kind = "ACK"
            BY DEF ACK, Byte
        <3> QED
            BY <1>1, <1>2, <1>8, <3>1, <3>2, Single, FaultsAreCounted DEF Arrives
    <2>6. CASE IsDuplicate(r, p)
        <3>1. rx'[e] = r /\ transport'[e] = t /\ UNCHANGED received /\ r.last = CRC(p)
            BY <2>4, <2>6 DEF IsDuplicate, Accepts, LinkAfter, TransportAfter
        <3> QED
            BY <1>1, <1>3, <1>5, <2>5, <3>1 DEF InProgress, HasRoom
    <2>7. CASE ~IsDuplicate(r, p)
        <3>1. Accepts(r, p) /\ r.last # CRC(p)
            BY <2>3, <2>7 DEF Accepts, IsDuplicate
        <3>2. Len(received[e]) = sent[f] - 1 /\ (p.multiple /\ ~p.first => HasRoom(e))
            BY <1>1, <1>5, <3>1 DEF InProgress
        <3>3. /\ rx'[e].last = CRC(p) /\ rx'[e].lastSequence = p.sequence
              /\ transport'[e].parts # <<>>
              /\ p.sequence > 0 => ~transport'[e].complete
              /\ rx'[e].offset = Len(transport'[e].parts) /\ rx'[e].offset > 0
              /\ Completes(p) <=> p.sequence = 0
            BY <1>5, <2>2, <2>4, <3>1, <3>2, ReceptionInStep DEF HasRoom
        <3>4. Len(received'[e]) = IF p.sequence = 0 THEN sent[f] ELSE sent[f] - 1
            <4>1. received[e] \in Seq(1..MaxSends) /\ received \in [Ends -> Seq(1..MaxSends)] /\ sent[f] \in Nat
                BY <1>1, <1>2, DataLinkAssumption DEF TypeOK
            <4>2. CASE p.sequence = 0
                <5>1. received'[e] = Append(received[e], p.number)
                    BY <2>4, <3>1, <3>3, <4>1, <4>2
                <5> QED
                    BY <3>2, <4>1, <4>2, <5>1
            <4>3. CASE p.sequence # 0
                BY <2>4, <3>2, <3>3, <4>3
            <4> QED
                BY <4>2, <4>3
        <3> QED
            BY <1>1, <1>3, <1>5, <2>5, <3>3, <3>4 DEF InProgress, HasRoom
    <2> QED
        BY <2>6, <2>7
<1> QED
    BY <1>7, <1>9, <1>10, <1>11

LEMMA StartMessageInStep ==
    ASSUME LosesNoPacket, LinkInv, NEW e \in Ends, NEW m \in Messages, StartMessage(e, m)
    PROVE  InStep(e)' /\ InStep(Peer(e))'
<1> DEFINE f == Peer(e)
           r == rx[f]
           p == txPacket'[e]
<1>1. f \in Ends /\ f # e /\ Peer(f) = e
    BY PeerIsOther
<1>2. InStep(e) /\ InStep(f) /\ TypeOK
    BY <1>1 DEF LinkInv, WholeInv, Inv
<1>3. /\ phase[e] = "idle" /\ phase[f] = "idle"
      /\ wire'[e] = <<>> /\ wire'[f] = <<>> /\ faults' = faults
    BY <1>1 DEF StartMessage, MaySend, Quiet, LosesNoPacket, line
<1>4. /\ p = FirstPacket(m, sent'[e], txToggle'[e])
      /\ sent'[e] = sent[e] + 1 /\ txToggle'[e] = 1 - txToggle[e]
      /\ phase'[e] = "sending" /\ retry'[e] = 0
      /\ UNCHANGED <<rx, transport, powerUp, received, told>>
    BY <1>2 DEF StartMessage, TypeOK
<1>5. /\ sent[e] \in Nat /\ txToggle[e] \in {0, 1} /\ faults \in Nat
    <2>1. sent[e] \in 0..MaxSends /\ txToggle[e] \in {0, 1}
        BY <1>2 DEF TypeOK
    <2> QED
        BY <1>2, <2>1, FaultsAreCounted, DataLinkAssumption
<1>6. InAgreement(e)
    BY <1>2, <1>3 DEF InStep
<1>7. p.toggle = txToggle'[e] /\ p.number = sent'[e] /\ ~(p.multiple /\ ~p.first)
    BY <1>4 DEF FirstPacket, Packet
<1>8. r.last.toggle # p.toggle /\ r.last # CRC(p)
    BY <1>4, <1>5, <1>6, <1>7 DEF InAgreement, CRC
<1>9. InProgress(e)'
    <2>1. ~Waiting(e)' /\ ~Arrives(e, {"ACK"})'
        BY <1>3, <1>4 DEF Waiting, Arrives
    <2>2. Len(received'[f]) = sent'[e] - 1
        BY <1>4, <1>5, <1>6 DEF InAgreement
    <2> QED
        BY <1>4, <1>7, <1>8, <2>1, <2>2 DEF InProgress, IsOutOfSequence
<1>10. InStep(e)'
    BY <1>2, <1>3, <1>4, <1>5, <1>9 DEF InStep
<1>11. InStep(f)'
    <2>1. /\ phase'[f] = phase[f] /\ txPacket'[f] = txPacket[f] /\ txToggle'[f] = txToggle[f]
          /\ retry'[f] = retry[f] /\ sent'[f] = sent[f]
        BY <1>1, <1>2 DEF StartMessage, TypeOK
    <2> QED
        BY <1>1, <1>3, <1>4, <2>1, StaysInStep
<1> QED
    BY <1>10, <1>11

LEMMA SendInStep ==
    ASSUME LosesNoPacket, LinkInv, NEW e \in Ends, Send(e)
    PROVE  InStep(e)' /\ InStep(Peer(e))'
<1> DEFINE f == Peer(e)
<1>1. f \in Ends /\ f # e /\ Peer(f) = e
    BY PeerIsOther
<1>2. InStep(e) /\ InStep(f) /\ TypeOK /\ Turn(e)
    BY <1>1 DEF LinkInv, WholeInv, Inv, TakesTurns
<1>3. phase[e] \notin {"idle", "waiting"}
    BY DEF Send, HandlePacketInProgress, RefusePacketInProgress, SkipInProgress, StopReceiving, SendPacket
<1>4. wire[e] = <<>> /\ wire[f] = <<>> /\ phase[f] = "idle"
    BY <1>2, <1>3 DEF Turn
<1>5. StopReceiving(e) \/ SendPacket(e)
    BY <1>4 DEF Send, HandlePacketInProgress, RefusePacketInProgress, SkipInProgress, Arrives
<1>6. /\ UNCHANGED <<txPacket, txToggle, retry, rx, transport, powerUp, sent, received, told>>
      /\ phase'[e] # "idle" /\ phase'[f] = phase[f]
    BY <1>1, <1>2, <1>5 DEF StopReceiving, SendPacket, line, history, TypeOK
<1>7. wire'[e] = <<>> /\ (UNCHANGED faults \/ faults' = faults + 1)
    BY <1>2, <1>4, <1>5, PutAlone DEF StopReceiving, SendPacket, line
<1>8. InProgress(e) /\ retry[e] <= faults
    BY <1>2, <1>3 DEF InStep
<1>9. InProgress(e)'
    <2>1. Waiting(e)' => wire'[f] = <<txPacket[e]>> \/ faults' = faults + 1
        BY <1>2, <1>4, <1>5, PutAlone DEF StopReceiving, SendPacket, Waiting, TypeOK
    <2>2. Waiting(e)' => wire'[f] = <<txPacket'[e]>> \/ retry'[e] < faults'
        BY <1>2, <1>6, <1>8, <2>1, FaultsAreCounted
    <2>3. ~Arrives(e, {"ACK"})'
        BY <1>7 DEF Arrives
    <2> QED
        BY <1>6, <1>8, <2>2, <2>3 DEF InProgress, HasRoom
<1>10. retry'[e] <= faults' /\ ~powerUp'[e]
    BY <1>2, <1>6, <1>7, <1>8, FaultsAreCounted DEF InStep
<1>11. InStep(e)'
    BY <1>6, <1>9, <1>10 DEF InStep
<1>12. InStep(f)'
    <2>1. /\ phase'[f] = phase[f] /\ txPacket'[f] = txPacket[f] /\ txToggle'[f] = txToggle[f]
          /\ retry'[f] = retry[f] /\ sent'[f] = sent[f] /\ told'[f] = told[f]
          /\ powerUp'[f] = powerUp[f]
        BY <1>6
    <2> QED
        BY <1>1, <1>4, <1>6, <1>7, <2>1, StaysInStep
<1> QED
    BY <1>11, <1>12

\* A try that fails has cost a fault, so that another is left.
LEMMA NextTryIsLeft ==
    ASSUME LosesNoPacket, LinkInv, NEW e \in Ends, Waiting(e), retry[e] < faults,
           NextTry(e, rx[e])
    PROVE  /\ retry' = [retry EXCEPT ![e] = retry[e] + 1]
           /\ retry'[e] <= faults
           /\ phase' = [phase EXCEPT ![e] = "sending"]
           /\ UNCHANGED <<txPacket, txToggle, maxPackets, rx>>
<1>1. TypeOK /\ txPacket[e] \in Packets
    BY DEF LinkInv, WholeInv, Inv, SendersHavePackets, Waiting
<1>2. retry[e] < MaxRetries /\ retry[e] \in Nat /\ faults \in Nat
    <2>1. faults \in 0..MaxFaults /\ retry[e] \in 0..MaxRetries
        BY <1>1 DEF TypeOK
    <2> QED
        BY <2>1, DataLinkAssumption DEF LosesNoPacket
<1>3. ~txPacket[e].message.oneTry
    BY <1>1 DEF LosesNoPacket, Packets
<1>4. /\ retry' = [retry EXCEPT ![e] = retry[e] + 1]
      /\ phase' = [phase EXCEPT ![e] = "sending"]
      /\ rx' = [rx EXCEPT ![e] = rx[e]]
      /\ UNCHANGED <<txPacket, txToggle, maxPackets>>
    BY <1>2, <1>3 DEF NextTry
<1> QED
    BY <1>1, <1>2, <1>4 DEF TypeOK

LEMMA WaitForAckInStep ==
    ASSUME LosesNoPacket, LinkInv, NEW e \in Ends, WaitForAck(e)
    PROVE  InStep(e)' /\ InStep(Peer(e))'
<1> DEFINE f == Peer(e)
           p == txPacket[e]
           r == rx[f]
<1>1. f \in Ends /\ f # e /\ Peer(f) = e
    BY PeerIsOther
<1>2. Waiting(e) /\ TypeOK /\ Turn(e) /\ p \in Packets /\ InProgress(e) /\ InStep(e) /\ InStep(f)
    BY <1>1 DEF LinkInv, WholeInv, Inv, SendersHavePackets, TakesTurns, InStep, WaitForAck,
           WaitAcknowledged, WaitRefused, WaitReceives, WaitRefuses, WaitSkips, WaitTimesOut,
           WaitIsAborted, Waiting
<1>3. /\ phase[e] = "waiting" /\ phase[f] = "idle"
      /\ wire[e] # <<>> => Tail(wire[e]) = <<>> /\ wire[f] = <<>>
    BY <1>2 DEF Turn, Waiting
<1>4. ~WaitReceives(e) /\ ~WaitRefuses(e) /\ ~WaitIsAborted(e)
    BY <1>2 DEF Turn, WaitReceives, WaitRefuses, WaitIsAborted, InStep, Arrives
<1>5. /\ UNCHANGED <<rx, transport, powerUp, sent, received>>
      /\ wire'[e] = <<>> /\ wire'[f] = wire[f] /\ UNCHANGED faults
      /\ phase'[f] = phase[f] /\ txPacket'[f] = txPacket[f] /\ txToggle'[f] = txToggle[f]
      /\ retry'[f] = retry[f] /\ told'[f] = told[f]
      /\ InStep(e)'
    <2>1. CASE WaitAcknowledged(e)
        <3>1. /\ wire'[e] = <<>> /\ wire'[f] = wire[f] /\ UNCHANGED <<faults, rx, transport, powerUp, sent, received>>
            BY <1>1, <1>2, <1>3, <2>1 DEF WaitAcknowledged, Skip, Arrives, TypeOK
        <3>2. r.last = CRC(p) /\ r.last.toggle = txToggle[e]
            BY <1>2, <2>1 DEF InProgress, WaitAcknowledged, CRC
        <3>3. CASE p.sequence > 0
            <4> DEFINE q == txPacket'[e]
            <4>1. /\ q = NextPacket(p, 1) /\ txToggle'[e] = 1 - txToggle[e] /\ retry'[e] = 0
                  /\ phase'[e] = "sending" /\ UNCHANGED told
                BY <1>2, <2>1, <3>3 DEF WaitAcknowledged, TypeOK
            <4>2. /\ q.number = p.number /\ q.sequence = p.sequence - 1 /\ q.toggle = 1 - p.toggle
                BY <4>1 DEF NextPacket, Packet
            <4>3. p.toggle = txToggle[e] /\ p.toggle \in {0, 1} /\ p.number = sent[e]
                BY <1>2 DEF InProgress, Packets
            <4>4. r.last.toggle # q.toggle /\ r.last # CRC(q)
                BY <3>2, <4>2, <4>3 DEF CRC
            <4>5. /\ r.lastSequence = p.sequence /\ HasRoom(f)
                  /\ Len(received[f]) = sent[e] - 1
                BY <1>2, <3>2, <3>3 DEF InProgress, Packets
            <4>6. ~IsOutOfSequence(r, q)
                BY <4>2, <4>5 DEF IsOutOfSequence
            <4>7. ~Waiting(e)' /\ ~Arrives(e, {"ACK"})'
                BY <3>1, <4>1 DEF Waiting, Arrives
            <4>8. InProgress(e)'
                BY <3>1, <4>1, <4>2, <4>3, <4>4, <4>5, <4>6, <4>7 DEF InProgress, HasRoom
            <4>9. retry'[e] <= faults'
                BY <1>2, <3>1, <4>1, FaultsAreCounted
            <4>10. InStep(e)'
                BY <1>2, <3>1, <4>1, <4>8, <4>9 DEF InStep
            <4>11. /\ phase'[f] = phase[f] /\ txPacket'[f] = txPacket[f] /\ txToggle'[f] = txToggle[f]
                   /\ retry'[f] = retry[f]
                BY <1>1, <1>2, <2>1, <3>3 DEF WaitAcknowledged, TypeOK
            <4> QED
                BY <3>1, <4>1, <4>10, <4>11
        <3>4. CASE ~(p.sequence > 0)
            <4>1. /\ phase'[e] = "idle" /\ phase'[f] = phase[f]
                  /\ told'[e] = told[e] \cup {p.number} /\ told'[f] = told[f]
                  /\ UNCHANGED <<txPacket, txToggle, retry>>
                BY <1>1, <1>2, <2>1, <3>4 DEF WaitAcknowledged, TypeOK
            <4>2. Len(received[f]) = sent[e] /\ p.number = sent[e]
                BY <1>2, <3>2, <3>4 DEF InProgress, Packets
            <4>3. InAgreement(e)'
                BY <3>1, <3>2, <4>1, <4>2 DEF InAgreement
            <4> QED
                BY <1>2, <3>1, <4>1, <4>3 DEF InStep
        <3> QED
            BY <3>3, <3>4
    <2>2. CASE ~WaitAcknowledged(e)
        <3>1. /\ NextTry(e, rx[e]) /\ UNCHANGED <<transport, powerUp, faults, sent, received, told>>
              /\ ~Arrives(e, {"ACK"}) /\ wire[f] # <<p>>
            <4>1. CASE WaitRefused(e)
                BY <1>3, <4>1, Single DEF WaitRefused, Skip, history, Arrives
            <4>2. CASE WaitSkips(e)
                BY <1>3, <4>2, Single DEF WaitSkips, history, Arrives
            <4>3. CASE WaitTimesOut(e)
                BY <1>1, <4>3, Single DEF WaitTimesOut, Quiet, line, history, Arrives
            <4> QED
                BY <1>4, <2>2, <4>1, <4>2, <4>3 DEF WaitForAck
        <3>2. wire'[e] = <<>> /\ wire'[f] = wire[f]
            <4>1. CASE WaitRefused(e)
                BY <1>1, <1>2, <1>3, <4>1 DEF WaitRefused, Skip, Arrives, TypeOK
            <4>2. CASE WaitSkips(e)
                <5>1. wire[e] \in Seq(Items) /\ wire[e] # <<>> /\ Len(wire[e]) = 1
                    BY <1>2, <1>3, <4>2, SingleHasLength DEF TypeOK, Items, WaitSkips, Arrives
                <5>2. PICK n \in 1..Len(wire[e]) : wire' = [wire EXCEPT ![e] = SubSeq(@, n + 1, Len(@))]
                    BY <4>2 DEF WaitSkips
                <5>3. n = 1
                    BY <5>1
                <5>4. SubSeq(wire[e], n + 1, Len(wire[e])) = <<>>
                    BY <5>1, <5>3
                <5> QED
                    BY <1>1, <1>2, <5>2, <5>4 DEF TypeOK
            <4>3. CASE WaitTimesOut(e)
                BY <1>1, <4>3 DEF WaitTimesOut, Quiet, line
            <4> QED
                BY <1>4, <2>2, <4>1, <4>2, <4>3 DEF WaitForAck
        <3>3. retry[e] < faults
            BY <1>2, <3>1 DEF InProgress
        <3>4. /\ retry' = [retry EXCEPT ![e] = retry[e] + 1]
              /\ retry'[e] <= faults
              /\ phase' = [phase EXCEPT ![e] = "sending"]
              /\ UNCHANGED <<txPacket, txToggle, maxPackets, rx>>
            BY <1>2, <3>1, <3>3, NextTryIsLeft
        <3>5. phase'[e] = "sending" /\ phase'[f] = phase[f] /\ retry'[f] = retry[f]
            BY <1>1, <1>2, <3>4 DEF TypeOK
        <3>6. ~Waiting(e)' /\ ~Arrives(e, {"ACK"})'
            BY <3>2, <3>5 DEF Waiting, Arrives
        <3>7. InProgress(e)'
            BY <1>2, <3>1, <3>4, <3>6 DEF InProgress, HasRoom
        <3>8. InStep(e)'
            BY <1>2, <3>1, <3>4, <3>5, <3>7 DEF InStep
        <3> QED
            BY <3>1, <3>2, <3>4, <3>5, <3>8
    <2> QED
        BY <2>1, <2>2
<1>6. InStep(f)'
    <2>1. sent'[f] = sent[f] /\ powerUp'[f] = powerUp[f]
        BY <1>5
    <2>2. phase'[e] = "idle" => wire'[f] = <<>>
        <3>1. phase'[e] = "idle" => WaitAcknowledged(e)
            <4>1. ASSUME ~WaitAcknowledged(e) PROVE wire[f] # <<p>> /\ ~Arrives(e, {"ACK"}) /\ NextTry(e, rx[e])
                BY <1>1, <1>3, <1>4, <4>1, Single
                DEF WaitForAck, WaitRefused, WaitSkips, WaitTimesOut, Quiet, Arrives
            <4>2. ASSUME ~WaitAcknowledged(e) PROVE phase'[e] = "sending"
                BY <1>2, <4>1, <4>2, NextTryIsLeft DEF InProgress, TypeOK
            <4> QED
                BY <4>2
        <3>2. WaitAcknowledged(e) => wire[f] = <<>>
            BY <1>3 DEF WaitAcknowledged, Arrives
        <3> QED
            BY <1>5, <3>1, <3>2
    <2> QED
        BY <1>1, <1>3, <1>5, <2>1, <2>2, StaysInStep
<1> QED
    BY <1>5, <1>6

LEMMA NextInStep == LosesNoPacket /\ LinkInv /\ [Next]_vars => LinkInv'
<1> SUFFICES ASSUME LosesNoPacket, LinkInv, [Next]_vars PROVE LinkInv'
    OBVIOUS
<1>1. WholeInv'
    BY NextKeepsWhole DEF LinkInv, LosesNoPacket
<1>2. CASE UNCHANGED vars
    BY <1>1, <1>2
    DEF vars, sender, line, history, LinkInv, InStep, InAgreement, InProgress, HasRoom, Arrives, Waiting
<1>3. ASSUME NEW e \in Ends,
             \/ Run(e) \/ Send(e) \/ WaitForAck(e)
             \/ \E m \in Messages : StartMessage(e, m)
             \/ TakeMessage(e)
             \/ \E n \in 1..MaxPackets : SetParameters(e, n)
      PROVE  InStep(e)' /\ InStep(Peer(e))'
    <2>1. CASE TakeMessage(e) \/ \E n \in 1..MaxPackets : SetParameters(e, n)
        <3>1. /\ UNCHANGED <<phase, txPacket, txToggle, retry, sent, told, powerUp, rx, received,
                             faults, wire>>
              /\ \A x \in Ends :
                    transport'[x] \in {transport[x], [transport[x] EXCEPT !.complete = FALSE]}
            BY <2>1 DEF TakeMessage, SetParameters, sender, line, history, LinkInv, WholeInv, Inv, TypeOK
        <3>2. \A x \in Ends : phase[x] = "idle" /\ phase[Peer(x)] = "idle" => wire[x] = <<>>
            BY DEF LinkInv, InStep
        <3>3. \A x \in Ends : InStep(x)'
            BY <3>1, <3>2, PeerIsOther, StaysInStep
        <3> QED
            BY <3>3, PeerIsOther
    <2> QED
        BY <1>3, <2>1, RunInStep, SendInStep, WaitForAckInStep, StartMessageInStep
<1>4. ASSUME NEW e \in Ends, TrafficTimeout(e) \/ PowerUpInProgress(e) \/ NotePowerUp(e)
      PROVE  FALSE
    BY <1>4 DEF TrafficTimeout, PowerUpInProgress, NotePowerUp, LosesNoPacket, LinkInv, InStep
<1> QED
    BY <1>1, <1>2, <1>3, <1>4, PeerIsOther DEF Next, LinkInv

\* A step that gives a message to the transport delivers it, one that ends a send
\* confirms it, and the others change nothing that the transports see.
LEMMA StepRefinesMessageLink ==
    ASSUME LosesNoPacket, LinkInv, [Next]_vars
    PROVE  [Link!Next]_<<sent, received, told>>
<1>1. CASE UNCHANGED vars
    BY <1>1 DEF vars, history
<1>2. TypeOK /\ \A e \in Ends : Peer(e) \in Ends /\ Peer(e) # e /\ Peer(Peer(e)) = e
    BY PeerIsOther DEF LinkInv, WholeInv, Inv
<1>3. ASSUME NEW e \in Ends, RunReceives(e)
      PROVE  Link!Deliver(e) \/ UNCHANGED <<sent, received, told>>
    <2> DEFINE f == Peer(e)
               p == txPacket[f]
    <2>1. /\ phase[e] = "idle" /\ wire[e] # <<>> /\ Arrives(e, {"packet"})
          /\ InStep(e) /\ InStep(f) /\ Turn(f)
        BY <1>2, <1>3 DEF RunReceives, Running, Arrives, LinkInv, WholeInv, TakesTurns
    <2>2. phase[f] = "waiting"
        BY <1>2, <2>1 DEF InStep, Turn
    <2>3. InProgress(f) /\ Head(wire[e]) = p
        BY <1>2, <2>1, <2>2 DEF InStep, Turn, Waiting
    <2>4. UNCHANGED <<sent, told>>
        BY <1>3 DEF RunReceives, ProcessReceivedPacket
    <2>5. CASE UNCHANGED received
        BY <2>4, <2>5
    <2>6. CASE ~UNCHANGED received
        <3>1. Accepts(rx[e], p) /\ received' = [received EXCEPT ![e] = Append(@, p.number)]
            BY <1>3, <2>3, <2>6 DEF RunReceives, ProcessReceivedPacket
        <3>2. Len(received[e]) = sent[f] - 1 /\ p.number = sent[f]
            BY <1>2, <2>3, <3>1 DEF InProgress, Accepts, IsDuplicate
        <3>3. sent[f] \in Nat
            BY <1>2, DataLinkAssumption DEF TypeOK
        <3>4. Len(received[e]) < sent[f]
            BY <3>2, <3>3
        <3> QED
            BY <2>4, <3>1, <3>2, <3>4 DEF Link!Deliver
    <2> QED
        BY <2>5, <2>6
<1>4. ASSUME NEW e \in Ends, WaitAcknowledged(e)
      PROVE  Link!Confirm(e) \/ UNCHANGED <<sent, received, told>>
    <2> DEFINE f == Peer(e)
               p == txPacket[e]
    <2>1. InProgress(e) /\ p \in Packets
        BY <1>4 DEF WaitAcknowledged, Waiting, LinkInv, InStep, WholeInv, Inv, SendersHavePackets
    <2>2. UNCHANGED <<sent, received>>
        BY <1>4 DEF WaitAcknowledged
    <2>3. CASE p.sequence > 0
        BY <1>4, <2>2, <2>3 DEF WaitAcknowledged
    <2>4. CASE ~(p.sequence > 0)
        <3>1. told' = [told EXCEPT ![e] = @ \cup {p.number}]
            BY <1>4, <2>4 DEF WaitAcknowledged
        <3>2. p.number = sent[e] /\ Len(received[f]) = sent[e]
            BY <1>4, <2>1, <2>4 DEF InProgress, WaitAcknowledged, Packets
        <3> QED
            BY <2>2, <3>1, <3>2 DEF Link!Confirm
    <2> QED
        BY <2>3, <2>4
<1>5. ASSUME NEW e \in Ends, NEW m \in Messages, StartMessage(e, m)
      PROVE  Link!Send(e)
    <2>1. InAgreement(e)
        BY <1>5 DEF StartMessage, LinkInv, InStep
    <2> QED
        BY <1>5, <2>1 DEF StartMessage, InAgreement, Link!Send
<1>6. ASSUME NEW e \in Ends,
             \/ RunRefuses(e) \/ RunSkips(e) \/ Send(e)
             \/ WaitForAck(e) /\ ~WaitAcknowledged(e)
             \/ TakeMessage(e)
             \/ \E n \in 1..MaxPackets : SetParameters(e, n)
      PROVE  UNCHANGED <<sent, received, told>>
    <2>1. Turn(e) /\ ~HandlePacketInProgress(e) /\ ~WaitReceives(e)
        BY DEF HandlePacketInProgress, WaitReceives, LinkInv, WholeInv, TakesTurns, Turn, Arrives
    <2> QED
        BY <1>6, <2>1
        DEF RunRefuses, RunSkips, Send, RefusePacketInProgress, SkipInProgress, StopReceiving,
            SendPacket, WaitForAck, WaitRefused, WaitRefuses, WaitSkips, WaitTimesOut,
            WaitIsAborted, TakeMessage, SetParameters, history
<1>7. ASSUME NEW e \in Ends, TrafficTimeout(e) \/ PowerUpInProgress(e) \/ NotePowerUp(e)
      PROVE  FALSE
    BY <1>7 DEF TrafficTimeout, PowerUpInProgress, NotePowerUp, LosesNoPacket, LinkInv, InStep
<1> QED
    BY <1>1, <1>3, <1>4, <1>5, <1>6, <1>7 DEF Next, Run, Link!Next

\* As long as the line loses no more than the tries of a packet allow, and the ends take
\* turns, the transports see a link that loses, repeats and reorders nothing, and tells the
\* sender the truth.
THEOREM DataLinkImplementsMessageLink == LosesNoPacket => (Spec => ImplementsMessageLink)
<1> SUFFICES ASSUME LosesNoPacket PROVE Spec => ImplementsMessageLink
    OBVIOUS
<1>1. Init => Link!Init
    BY DEF Init, Link!Init
<1>2. LinkInv /\ [Next]_vars => LinkInv'
    BY NextInStep
<1>3. LinkInv /\ [Next]_vars => [Link!Next]_<<sent, received, told>>
    BY StepRefinesMessageLink
<1> QED
    BY <1>1, <1>2, <1>3, InitIsInStep, PTL DEF Spec, ImplementsMessageLink, Link!Spec

=============================================================================
