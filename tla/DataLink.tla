------------------------------- MODULE DataLink -------------------------------
(***************************************************************************)
(* The two ends of the link between a device and its communication module: *)
(* c1222dl.c, a stop-and-wait link.  A packet carries a toggle bit against *)
(* duplicates, and a sequence that counts down over the packets of a       *)
(* message.  The acknowledgement is a single byte.                         *)
(*                                                                         *)
(* A call that sends blocks in WaitForAck, and receives packets there.     *)
(* The variable phase says where in these calls an end is.                 *)
(*                                                                         *)
(* Payloads are counted in packets: every packet but the last of a message *)
(* is full.  Transparency is off, as the stack is configured, so no packet *)
(* carries an acknowledgement.  The checksum of a packet is the packet.    *)
(***************************************************************************)
EXTENDS Integers, Sequences

CONSTANTS
    Ends,        \* the two ends
    CommModule,  \* the one that sends empty packets for line supervision
    Messages,    \* what the transports may send
    MaxRetries,  \* C1222DL_RETRIES
    MaxPackets,  \* number of packets in a message, once negotiated
    Collisions,  \* an end may send while the other does
    Failures,    \* traffic timeouts and power failures happen
    MaxSends,    \* bound: messages the two send
    MaxFaults    \* bound: bytes and packets lost or damaged on the line

ASSUME DataLinkAssumption ==
    /\ \E d, c \in Ends : d # c /\ Ends = {d, c}
    /\ CommModule \in Ends
    /\ \A m \in Messages :
          /\ m.packets \in Nat
          /\ m.oneTry \in BOOLEAN
          /\ m.packets = 0 => m.oneTry
          /\ m.packets > 1 => ~m.oneTry
    /\ MaxRetries \in Nat
    /\ MaxPackets \in Nat \ {0}
    /\ Collisions \in BOOLEAN
    /\ Failures \in BOOLEAN
    /\ MaxSends \in Nat
    /\ MaxFaults \in Nat

VARIABLES
    phase,       \* idle, or how far SendPacket and WaitForAck have come
    txPacket,    \* the packet being sent
    txToggle,
    retry,       \* tries of it that failed
    maxPackets,  \* status.maxTxNumberOfPackets
    rx,          \* what is remembered of the last packet received
    transport,   \* rxMessageBuffer of the transport, and receivedMessageIsComplete
    powerUp,     \* powerUpInProgress
    wire,        \* what is on the way to each end
    faults,      \* how many items were lost or damaged
    sent,        \* history: how many messages an end has sent
    received,    \* history: the numbers of the messages its transport was given
    told         \* history: the numbers of those its sends returned TRUE for

sender  == <<phase, txPacket, txToggle, retry>>
line    == <<wire, faults>>
history == <<sent, received, told>>
vars    == <<sender, maxPackets, rx, transport, powerUp, line, history>>

Peer(e) == CHOOSE f \in Ends : f # e

-----------------------------------------------------------------------------
\* A packet.  The number is that of the message, which is not on the line.
\* StartPacket and FinishPacket.
Packet(message, number, sequence, first, toggle, length) ==
    [kind     |-> "packet",
     message  |-> message,
     number   |-> number,
     sequence |-> sequence,
     multiple |-> message.packets > 1,
     first    |-> first,
     toggle   |-> toggle,
     length   |-> length]

\* C1222DL_StartMessageBuild: a message that fits is one packet with sequence 0.
FirstPacket(m, number, toggle) ==
    LET multiple == m.packets > 1
    IN  Packet(m, number, IF multiple THEN m.packets - 1 ELSE 0, multiple, toggle,
               IF m.packets = 0 THEN 0 ELSE 1)

\* C1222DL_AddMessagePart: what follows a packet that was sent, or was not.
NextPacket(p, length) ==
    Packet(p.message, p.number, p.sequence - 1, FALSE, 1 - p.toggle, length)

\* Two packets have the same checksum when they have the same bytes.
\* CRCWithoutToggle is a mutation of CRC.
CRCWithoutToggle(p) ==
    [message |-> p.message, sequence |-> p.sequence, first |-> p.first, toggle |-> 0]

CRC(p) == [message |-> p.message, sequence |-> p.sequence, first |-> p.first,
           toggle |-> p.toggle]

NoPacket == [toggle |-> 0]  \* rxToggleValid is FALSE
NoLink   == [last |-> NoPacket, lastSequence |-> 0, offset |-> 0]
Nothing  == [parts |-> <<>>, complete |-> FALSE]

Byte(k) == [kind |-> k]
ACK     == Byte("ACK")
NAK     == Byte("NAK")

\* A damaged packet may still begin like one.  A damaged acknowledgement is a
\* byte that means nothing.
Damaged(item) ==
    {Byte("garbage")} \cup IF item.kind = "packet" THEN {Byte("corrupt")} ELSE {}

Init ==
    /\ phase = [e \in Ends |-> "idle"]
    /\ txPacket = [e \in Ends |-> NoPacket]
    /\ txToggle = [e \in Ends |-> 0]
    /\ retry = [e \in Ends |-> 0]
    /\ maxPackets = [e \in Ends |-> 1]
    /\ rx = [e \in Ends |-> NoLink]
    /\ transport = [e \in Ends |-> Nothing]
    /\ powerUp = [e \in Ends |-> FALSE]
    /\ wire = [e \in Ends |-> <<>>]
    /\ faults = 0
    /\ sent = [e \in Ends |-> 0]
    /\ received = [e \in Ends |-> <<>>]
    /\ told = [e \in Ends |-> {}]

-----------------------------------------------------------------------------
\* End e has read what comes to it down to rest, and puts an item on the line,
\* which delivers it, loses it or damages it.
Put(e, rest, item) ==
    /\ \/ /\ wire' = [wire EXCEPT ![e] = rest, ![Peer(e)] = Append(@, item)]
          /\ UNCHANGED faults
       \/ /\ faults < MaxFaults
          /\ faults' = faults + 1
          /\ \/ wire' = [wire EXCEPT ![e] = rest]
             \/ \E d \in Damaged(item) :
                   wire' = [wire EXCEPT ![e] = rest, ![Peer(e)] = Append(@, d)]

Skip(e) == wire' = [wire EXCEPT ![e] = Tail(@)] /\ UNCHANGED faults

Arrives(e, kinds) == wire[e] # <<>> /\ Head(wire[e]).kind \in kinds
Quiet == \A e \in Ends : wire[e] = <<>>

-----------------------------------------------------------------------------
\* ProcessReceivedPacket, first for the link: the duplicate, the packet that is
\* not the next of its message, and the packet for the transport.
IsDuplicate(r, p) == r.last = CRC(p)

\* Mutations of IsOutOfSequence: first packets are compared too, or none is.
FirstIsOutOfSequence(r, p) == p.multiple /\ p.sequence # r.lastSequence - 1
NeverOutOfSequence(r, p) == FALSE

IsOutOfSequence(r, p) ==
    p.multiple /\ ~p.first /\ p.sequence # r.lastSequence - 1

Accepts(r, p) == ~IsDuplicate(r, p) /\ ~IsOutOfSequence(r, p)

Offset(r, p) == IF p.multiple /\ ~p.first THEN r.offset ELSE 0

LinkAfter(r, p) ==
    IF Accepts(r, p)
    THEN [last |-> CRC(p), lastSequence |-> p.sequence, offset |-> Offset(r, p) + p.length]
    ELSE r

Completes(p)   == ~p.multiple \/ p.sequence = 0
ExpectsMore(r, p) == Accepts(r, p) /\ ~Completes(p)

\* C1222TL_DLNotePacketReceived and C1222TL_DLNoteMessageRxComplete.  A packet
\* that does not follow what the transport has empties its buffer.
Part(p) == [message |-> p.message, sequence |-> p.sequence]

PartsAfter(t, p, offset) ==
    IF offset = 0 THEN <<Part(p)>>
    ELSE IF t.complete \/ offset # Len(t.parts) THEN <<>>
    ELSE Append(t.parts, Part(p))

TransportAfter(t, r, p) ==
    IF Accepts(r, p) /\ p.length # 0
    THEN [parts |-> PartsAfter(t, p, Offset(r, p)), complete |-> Completes(p)]
    ELSE t

\* The packet at the head of the line is acknowledged and handed over.
ProcessReceivedPacket(e) ==
    LET p == Head(wire[e])
        r == rx[e]
        t == TransportAfter(transport[e], r, p)
    IN  /\ Put(e, Tail(wire[e]),
               IF IsDuplicate(r, p) \/ ~IsOutOfSequence(r, p) THEN ACK ELSE NAK)
        /\ transport' = [transport EXCEPT ![e] = t]
        /\ received' =
              IF Accepts(r, p) /\ Completes(p) /\ (p.length = 0 \/ t.parts # <<>>)
              THEN [received EXCEPT ![e] = Append(@, p.number)]
              ELSE received
        /\ UNCHANGED <<sent, told>>

-----------------------------------------------------------------------------
\* C1222DL_Run.
Running(e) == phase[e] = "idle" /\ ~powerUp[e]

RunReceives(e) ==
    /\ Running(e)
    /\ Arrives(e, {"packet"})
    /\ ProcessReceivedPacket(e)
    /\ rx' = [rx EXCEPT ![e] = LinkAfter(@, Head(wire[e]))]
    /\ UNCHANGED <<sender, maxPackets, powerUp>>

RunRefuses(e) ==
    /\ Running(e)
    /\ Arrives(e, {"corrupt"})
    /\ Put(e, Tail(wire[e]), NAK)
    /\ UNCHANGED <<sender, maxPackets, rx, transport, powerUp, history>>

RunSkips(e) ==
    /\ Running(e)
    /\ Arrives(e, {"ACK", "NAK", "garbage"})
    /\ Skip(e)
    /\ UNCHANGED <<sender, maxPackets, rx, transport, powerUp, history>>

\* The transport processes the message it has.
TakeMessage(e) ==
    /\ phase[e] = "idle"
    /\ transport[e].complete
    /\ transport' = [transport EXCEPT ![e].complete = FALSE]
    /\ UNCHANGED <<sender, maxPackets, rx, powerUp, line, history>>

-----------------------------------------------------------------------------
\* Sending.  Where collisions are left out, an end sends when nothing else is
\* going on.
MaySend(e) ==
    Collisions \/ (Quiet /\ \A f \in Ends : phase[f] = "idle" /\ ~powerUp[f])

StartMessage(e, m) ==
    /\ phase[e] = "idle"
    /\ MaySend(e)
    /\ sent[e] + sent[Peer(e)] < MaxSends
    /\ m.packets <= maxPackets[e]
    /\ m.packets = 0 => e = CommModule /\ ~powerUp[e]
    /\ sent' = [sent EXCEPT ![e] = @ + 1]
    /\ txToggle' = [txToggle EXCEPT ![e] = 1 - @]
    /\ txPacket' = [txPacket EXCEPT ![e] = FirstPacket(m, sent'[e], txToggle'[e])]
    /\ phase' = [phase EXCEPT ![e] = "sending"]
    /\ retry' = [retry EXCEPT ![e] = 0]
    /\ UNCHANGED <<maxPackets, rx, transport, powerUp, line, received, told>>

\* HandleReceiveInProgress: before a packet is sent, one item that has arrived is
\* read, and with it the other packets of a message it begins.
HandlePacketInProgress(e) ==
    /\ phase[e] \in {"sending", "receiving"}
    /\ Arrives(e, {"packet"})
    /\ ProcessReceivedPacket(e)
    /\ rx' = [rx EXCEPT ![e] = LinkAfter(@, Head(wire[e]))]
    /\ phase' = [phase EXCEPT ![e] =
                    IF ExpectsMore(rx[e], Head(wire[e])) THEN "receiving" ELSE "ready"]
    /\ UNCHANGED <<txPacket, txToggle, retry, maxPackets, powerUp>>

RefusePacketInProgress(e) ==
    /\ phase[e] \in {"sending", "receiving"}
    /\ Arrives(e, {"corrupt"})
    /\ Put(e, Tail(wire[e]), NAK)
    /\ phase' = [phase EXCEPT ![e] = "ready"]
    /\ UNCHANGED <<txPacket, txToggle, retry, maxPackets, rx, transport, powerUp, history>>

SkipInProgress(e) ==
    /\ phase[e] \in {"sending", "receiving"}
    /\ Arrives(e, {"ACK", "NAK", "garbage"})
    /\ Skip(e)
    /\ phase' = [phase EXCEPT ![e] = IF @ = "sending" THEN "ready" ELSE @]
    /\ UNCHANGED <<txPacket, txToggle, retry, maxPackets, rx, transport, powerUp, history>>

\* No packet came for the traffic timeout.
StopReceiving(e) ==
    /\ phase[e] = "receiving"
    /\ Quiet
    /\ phase' = [phase EXCEPT ![e] = "ready"]
    /\ UNCHANGED <<txPacket, txToggle, retry, maxPackets, rx, transport, powerUp, line, history>>

SendPacket(e) ==
    /\ phase[e] \in {"sending", "ready"}
    /\ Put(e, wire[e], txPacket[e])
    /\ phase' = [phase EXCEPT ![e] = "waiting"]
    /\ UNCHANGED <<txPacket, txToggle, retry, maxPackets, rx, transport, powerUp, history>>

-----------------------------------------------------------------------------
\* A send that fails in the middle of a message: C1222DL_AddMessagePart still
\* starts the next packet, with all that remains of the message.
GiveUp(e) ==
    LET p == txPacket[e]
    IN  /\ phase' = [phase EXCEPT ![e] = "idle"]
        /\ IF p.sequence > 0
           THEN /\ txPacket' = [txPacket EXCEPT ![e] = NextPacket(p, p.sequence)]
                /\ txToggle' = [txToggle EXCEPT ![e] = 1 - @]
           ELSE UNCHANGED <<txPacket, txToggle>>

\* Mutations of NextTry: a try too many, and tries that are not counted.
NextTryOneMore(e, r) ==
    /\ ~txPacket[e].message.oneTry
    /\ retry' = [retry EXCEPT ![e] = @ + 1]
    /\ IF retry[e] <= MaxRetries
       THEN /\ phase' = [phase EXCEPT ![e] = "sending"]
            /\ rx' = [rx EXCEPT ![e] = r]
            /\ UNCHANGED <<txPacket, txToggle, maxPackets>>
       ELSE /\ GiveUp(e)
            /\ rx' = [rx EXCEPT ![e] = NoLink]
            /\ maxPackets' = [maxPackets EXCEPT ![e] = 1]

NextTryUncounted(e, r) ==
    /\ phase' = [phase EXCEPT ![e] = "sending"]
    /\ rx' = [rx EXCEPT ![e] = r]
    /\ UNCHANGED <<txPacket, txToggle, maxPackets, retry>>

\* The end of a round of the retry loop of WaitForAck, after which r is known of
\* the packets received: the packet is sent again, or the send fails.  Only a
\* message that was tried more than once takes the link down with it.
NextTry(e, r) ==
    \/ /\ ~txPacket[e].message.oneTry
       /\ retry[e] < MaxRetries
       /\ retry' = [retry EXCEPT ![e] = @ + 1]
       /\ phase' = [phase EXCEPT ![e] = "sending"]
       /\ rx' = [rx EXCEPT ![e] = r]
       /\ UNCHANGED <<txPacket, txToggle, maxPackets>>
    \/ /\ ~txPacket[e].message.oneTry
       /\ retry[e] = MaxRetries
       /\ GiveUp(e)
       /\ rx' = [rx EXCEPT ![e] = NoLink]
       /\ maxPackets' = [maxPackets EXCEPT ![e] = 1]
       /\ UNCHANGED retry
    \/ /\ txPacket[e].message.oneTry
       /\ GiveUp(e)
       /\ rx' = [rx EXCEPT ![e] = r]
       /\ UNCHANGED <<retry, maxPackets>>

Waiting(e) == phase[e] = "waiting"

WaitAcknowledged(e) ==
    LET p == txPacket[e]
    IN  /\ Waiting(e)
        /\ Arrives(e, {"ACK"})
        /\ Skip(e)
        /\ IF p.sequence > 0
           THEN /\ txPacket' = [txPacket EXCEPT ![e] = NextPacket(p, 1)]
                /\ txToggle' = [txToggle EXCEPT ![e] = 1 - @]
                /\ retry' = [retry EXCEPT ![e] = 0]
                /\ phase' = [phase EXCEPT ![e] = "sending"]
                /\ UNCHANGED told
           ELSE /\ phase' = [phase EXCEPT ![e] = "idle"]
                /\ told' = [told EXCEPT ![e] = @ \cup {p.number}]
                /\ UNCHANGED <<txPacket, txToggle, retry>>
        /\ UNCHANGED <<maxPackets, rx, transport, powerUp, sent, received>>

WaitRefused(e) ==
    /\ Waiting(e)
    /\ Arrives(e, {"NAK"})
    /\ Skip(e)
    /\ NextTry(e, rx[e])
    /\ UNCHANGED <<transport, powerUp, history>>

\* A packet instead of an acknowledgement is received, and costs a try.
WaitReceives(e) ==
    /\ Waiting(e)
    /\ Arrives(e, {"packet"})
    /\ ProcessReceivedPacket(e)
    /\ NextTry(e, LinkAfter(rx[e], Head(wire[e])))
    /\ UNCHANGED powerUp

WaitRefuses(e) ==
    /\ Waiting(e)
    /\ Arrives(e, {"corrupt"})
    /\ Put(e, Tail(wire[e]), NAK)
    /\ NextTry(e, rx[e])
    /\ UNCHANGED <<transport, powerUp, history>>

\* Garbage is read until nothing comes any more, and what follows it closely
\* with it.
WaitSkips(e) ==
    /\ Waiting(e)
    /\ Arrives(e, {"garbage"})
    /\ \E n \in 1..Len(wire[e]) :
          wire' = [wire EXCEPT ![e] = SubSeq(@, n + 1, Len(@))]
    /\ NextTry(e, rx[e])
    /\ UNCHANGED <<transport, powerUp, faults, history>>

\* No acknowledgement in time.  The peer answers in time: nothing is then on the
\* way.
WaitTimesOut(e) ==
    /\ Waiting(e)
    /\ Quiet
    /\ NextTry(e, rx[e])
    /\ UNCHANGED <<transport, powerUp, line, history>>

-----------------------------------------------------------------------------
\* The transport has negotiated the limits of the link.
SetParameters(e, n) ==
    /\ phase[e] = "idle"
    /\ maxPackets' = [maxPackets EXCEPT ![e] = n]
    /\ UNCHANGED <<sender, rx, transport, powerUp, line, history>>

\* No packet was acknowledged, either way, for the traffic timeout: ResetLink.
TrafficTimeout(e) ==
    /\ Failures
    /\ Running(e)
    /\ rx' = [rx EXCEPT ![e] = NoLink]
    /\ maxPackets' = [maxPackets EXCEPT ![e] = 1]
    /\ UNCHANGED <<sender, transport, powerUp, line, history>>

\* C1222DL_PowerUpInProgress is called from another task: a wait then ends at
\* once.
PowerUpInProgress(e) ==
    /\ Failures
    /\ ~powerUp[e]
    /\ powerUp' = [powerUp EXCEPT ![e] = TRUE]
    /\ UNCHANGED <<sender, maxPackets, rx, transport, line, history>>

WaitIsAborted(e) ==
    /\ Waiting(e)
    /\ powerUp[e]
    /\ GiveUp(e)
    /\ UNCHANGED <<retry, maxPackets, rx, transport, powerUp, line, history>>

\* C1222DL_NotePowerUp.  What was on the way may be lost in the outage.
NotePowerUp(e) ==
    /\ powerUp[e]
    /\ phase[e] = "idle"
    /\ powerUp' = [powerUp EXCEPT ![e] = FALSE]
    /\ rx' = [rx EXCEPT ![e].last = NoPacket]
    /\ maxPackets' = [maxPackets EXCEPT ![e] = 1]
    /\ wire' \in {wire, [wire EXCEPT ![e] = <<>>]}
    /\ UNCHANGED <<sender, transport, faults, history>>

-----------------------------------------------------------------------------
Run(e) == RunReceives(e) \/ RunRefuses(e) \/ RunSkips(e)

Send(e) ==
    \/ HandlePacketInProgress(e)
    \/ RefusePacketInProgress(e)
    \/ SkipInProgress(e)
    \/ StopReceiving(e)
    \/ SendPacket(e)

WaitForAck(e) ==
    \/ WaitAcknowledged(e)
    \/ WaitRefused(e)
    \/ WaitReceives(e)
    \/ WaitRefuses(e)
    \/ WaitSkips(e)
    \/ WaitTimesOut(e)
    \/ WaitIsAborted(e)

Next ==
    \E e \in Ends :
        \/ Run(e)
        \/ TakeMessage(e)
        \/ \E m \in Messages : StartMessage(e, m)
        \/ Send(e)
        \/ WaitForAck(e)
        \/ \E n \in 1..MaxPackets : SetParameters(e, n)
        \/ TrafficTimeout(e)
        \/ PowerUpInProgress(e)
        \/ NotePowerUp(e)

Spec == Init /\ [][Next]_vars

\* Both ends are polled, a line that brings something is read before a timeout,
\* and the timeouts of a call that sends run out.
FairSpec ==
    /\ Spec
    /\ \A e \in Ends :
          /\ WF_vars(Run(e))
          /\ WF_vars(Send(e))
          /\ WF_vars(WaitForAck(e))
          /\ WF_vars(NotePowerUp(e))

-----------------------------------------------------------------------------
Packets ==
    [kind : {"packet"}, message : Messages, number : 1..MaxSends, sequence : Nat,
     multiple : BOOLEAN, first : BOOLEAN, toggle : {0, 1}, length : Nat]

Checksums == [message : Messages, sequence : Nat, first : BOOLEAN, toggle : {0, 1}]

TypeOK ==
    /\ phase \in [Ends -> {"idle", "sending", "receiving", "ready", "waiting"}]
    /\ txPacket \in [Ends -> Packets \cup {NoPacket}]
    /\ txToggle \in [Ends -> {0, 1}]
    /\ retry \in [Ends -> 0..MaxRetries]
    /\ maxPackets \in [Ends -> 1..MaxPackets]
    /\ rx \in [Ends -> [last : Checksums \cup {NoPacket}, lastSequence : Nat, offset : Nat]]
    /\ transport \in [Ends -> [parts : Seq([message : Messages, sequence : Nat]),
                               complete : BOOLEAN]]
    /\ powerUp \in [Ends -> BOOLEAN]
    /\ wire \in [Ends -> Seq(Packets \cup {ACK, NAK, Byte("corrupt"), Byte("garbage")})]
    /\ faults \in 0..MaxFaults
    /\ sent \in [Ends -> 0..MaxSends]
    /\ received \in [Ends -> Seq(1..MaxSends)]
    /\ told \in [Ends -> SUBSET (1..MaxSends)]

\* A message put together by the transport is all the packets of one message, or
\* is dropped as out of order.
MessageIsWhole ==
    \A e \in Ends :
        LET parts == transport[e].parts
        IN  transport[e].complete /\ parts # <<>> =>
                /\ Len(parts) = parts[1].message.packets
                /\ \A i \in 1..Len(parts) :
                      parts[i] = [message  |-> parts[1].message,
                                  sequence |-> Len(parts) - i]

\* As long as no packet loses all its tries, the transports see a link that loses
\* and repeats nothing, and tells the sender the truth.
Link == INSTANCE MessageLink
ImplementsMessageLink == Link!Spec

ReceivedAt(e) == {received[e][i] : i \in 1..Len(received[e])}

\* "1 = Positive acknowledgment of the previous packet" (c1222dl_packet.c): a
\* message whose send returned TRUE is received by the peer, on a line that loses
\* nothing.
AckedIsReceived ==
    \A e \in Ends : \A n \in 1..MaxSends :
        n \in told[e] ~> n \in ReceivedAt(Peer(e))

\* A call that sends returns, though both ends send and answer each other's packets
\* instead of acknowledging their own.
SendReturns == \A e \in Ends : phase[e] # "idle" ~> phase[e] = "idle"

\* ... and has sent the message, when no packet loses all its tries.
SendSucceeds ==
    \A e \in Ends : \A n \in 1..MaxSends : sent[e] = n ~> n \in told[e]

=============================================================================
