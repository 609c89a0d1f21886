# C12.22 stack: verification

TLA+ modules that model parts of the ANSI C12.22 protocol stack in
`src/stack/`, TLC runs that check them on small instances, and theorems about
them whose proofs TLAPS checks.

## 1. The system

The stack is single threaded C. The application calls `C1222Stack_Run` in its
loop; that runs the application layer, which runs the transport, which runs the
data link. Nothing runs on its own and nothing is locked, but the stack is
*reentrant*: `C1222AL_SendMessage` waits for a busy transport by running it in a
loop (`waitForTransport`), and a message that arrives meanwhile is handled inside
that wait, up into the application layer.

| component | source (`src/stack/`) | state | operations | what makes it correct |
|---|---|---|---|---|
| Data link | `c1222dl.c`, `c1222dl_packet.c` | toggle bits, last CRC, packet being sent, retry count, reassembly offset and sequence | `Run`, `SendMessage`, build and send, `NotePowerUp`, link reset | every packet delivered once and in order, or its sender knows it failed |
| CRC | `c1222dl_crc.c`, part of `c1222dl.c` | byte order in use | `HandleCRCDetectDecision` | both ends agree on the byte order |
| Transport | `c1222tl.c` | one pending request, delayed requests, negotiated sizes, `isSendMessageOKResponsePending` | `Run`, requests, packet and link notifications, responses | each request is answered once, and the answer is matched to it |
| Message sender | `c1222al_messagesender.c` | message in the transmit segmenter, index of the segment, tries left | `StartSend`, `ContinueSend`, `RestartSend` | segments go out whole and in order; a failed message is retried at most `C1222_APPLICATION_RETRIES` times |
| Segmenter | `c1222al_segmenter.c` | working buffer, message identity, table of at most 10 disjoint segments, state | `SetSegment`, `SetUnsegmentedRxMessage`, `Clear`, `StartNew..`/`EndNewUnsegmentedMessage`, timeout | a message is complete only when every byte of it came, from that message |
| Message receiver | `c1222al_messagereceiver.c` | a receive segmenter, native address of the sender | `AddSegment`, `NoteMessageHandlingComplete`, timeout | the answer goes to the sender; a message is kept until handled |
| Application layer | `c1222al.c`, `c1222al_tlinterface.c` | state, flags shared with transport and application, registration ids | `TLMessageReceived`, `SendMessage`, notifications of the transport, power up | what is announced to the application is there; the transport is released |
| Device | `c1222al_device.c` | registration schedule | `RunDevice`: registration, deregistration, keep alive, link control | registered state follows the network's; one request at a time |
| Communication module | `c1222al_commmodule.c` | the same, on behalf of the device | `RunCommModule` | as the device, and messages pass through in order |
| Server | `c1222server.c` | request and response buffers, `processMessageResponse` | `ProcessMessage` | one answer per request, in a form its caller reads, as protected as the request and no larger than the buffers |
| Receive history | `c1222al_receiveHistory.c` | ring of the last 5 requests | `IsMessageAlreadyReceived` | a repeated request is recognised within its lifetime, and nothing else dropped |
| Relay, local port router | `c1222al_relay.c`, `c1222localPortRouter.c` | routes | forwarding | |
| Codecs | `acsemsg.c`, `c1222aptitle.c`, `epsem.c`, `c1222encrypt.c` | a buffer | build, parse | what is built is recognised, in its standard, and read back |
| Facade, utilities | `c1222stack.c`, `c1222misc.c`, `cbitarray.c` | none of its own | | |

How they interact: calls go down (`SendACSEMessage`, `SendMessage`), callbacks go
up (`C1222TL_DLNotePacketReceived`, `C1222AL_TLMessageReceived`,
`C1222AL_TL_NoteLinkFailure`), and flags are shared sideways: the application polls
`isReceivedMessageComplete`, the transport keeps `isSendMessageOKResponsePending`
until the application reports the end of its handling.

What is hard, and where: reentrant waits (a flag or a pointer read before the wait
and used after it); one buffer shared by received segments, whole messages and the
node's own registration request; segments that are lost, duplicated, reordered or of
several peers; timeouts that race late answers; one pending request and one byte of
acknowledgement without a number; power up and link resets between any two steps.
`PROJECT.json` lists these hazards at their lines, with the properties that cover
each, or why none does.

## 2. The modules

| module | models | state and actions |
|---|---|---|
| `DisjointSegments` | the table of received segments, as a set of intervals | operators: `manageDisjointSegmentInfo`, `isSegmentAlreadyReceived`, the check for room |
| `SegmentSet` | what that table promises | `Add`, `Clear` |
| `SegmentArray` | the loops of `manageDisjointSegmentInfo` over its array: first touched entry extended, the others compared and swallowed in one pass, marked entries deleted | operators, as recursive functions of the place in the array |
| `SegmentTable` | the array in which the segmenter keeps the table | `InsertSegment`, `ClearTable`; shown to implement `SegmentSet` |
| `Segmenter` | the receive side of the segmenter as a record, and `C1222MessageReceiver_AddSegment` | operators |
| `ReceiveSegmenter` | the receive segmenter as a component | `Add` of any part, `Clear`, `Build` of an own request |
| `ReceivePath` | a device's application layer from `C1222AL_TLMessageReceived` to the answer, the reentrant waits, the flags shared with the transport, the application's loop, the device's own requests and timeouts | see below; extends `ReceiveSegmenter`, whose variable is its receiver, and is shown to implement it |
| `MessageLink` | what two transports want of the link: a message is received once, in order, and its sender told so only then | `Send`, `Deliver`, `Confirm` |
| `DataLink` | `c1222dl.c` at both ends of the line, and the receive buffer of the transport | see below; shown to implement `MessageLink` |
| `Transport` | `c1222tl.c` at both ends, a device and its communication module, with what the application layers send | see below |
| `ApTitle` | `c1222aptitle.c` | operators: validation, relative and absolute titles, comparison, the lengths of their encodings |
| `AcseMessage` | the builders and readers of `acsemsg.c` | operators: each builder adds an element with its length; codes and encryption are seals that name what they cover |
| `AcseFormat` | the format checks of both standards, what a receiver takes a message to be, and whether it trusts it | operators |
| `ReceiveHistory` | `c1222al_receiveHistory.c` | operators: the lookup and the history after it |
| `Server` | a device that answers requests: the application's loop, `c1222server.c`, the security checks and error answers of the application layer | see below |
| `MessageSender` | `c1222al_messagesender.c` and the transmit side of the segmenter, from `C1222AL_SendMessage` to the table of the receiver | see below |
| `Registration` | `c1222al_device.c`, and the handlers of `c1222al.c` and `c1222al_tlinterface.c` that change the same flags | see below |
| `MCReceiveSegmenter`, `MCReceivePath`, `MCDataLink`, `MCTransport`, `MCServer`, `MCMessageSender` | values of the constants for TLC | |
| `DisjointSegmentsProofs`, `AcseMessageProofs` | lemmas on the operators of the table and of messages | |
| `ReceivePathProofs`, `DataLinkProofs`, `TransportProofs`, `RegistrationProofs`, `ServerProofs`, `MessageSenderProofs` | theorems | those of `ReceiveSegmenter` and `SegmentTable` are in `ReceivePathProofs` |

Abstractions. A byte of the working buffer is the message it was copied from, or
`Nobody` after a `memset`. A message is a record of the fields the code compares:
full length, sequence (calling ApInvocationId), calling ApTitle, whether it is
segmented, native address, and what the security check will say of it. When the
buffer holds bytes of several messages, that check may go either way. Times are
nondeterministic: a timeout may fire whenever its state allows.

`ReceivePath` names the branches of `C1222AL_TLMessageReceived` as actions:
`ReceiveTooLarge`, `ReceiveSegmentError`, `ReceivePart`, `ReceiveUnverified`,
`ReceiveRegistrationResponse`, `ReceivePlainText`, `ReceiveForApplication`. Each is the
whole handler up to the end or up to a wait. The C stack of waits is the sequence
`waits`; a `Response` on it records what its caller still has to do when
`C1222AL_SendMessage` returns (`then`): return an error, on which the transport resets
its flag (`c1222tl.c:2246`), or clear the receiver (`c1222al_tlinterface.c:120`).
`WaitReturns` pops it and does that. `TakeMessage`, `Reply` and `Dismiss` are the
application's loop with `C1222Server_ProcessMessage`. The transport is reduced to what
keeps `C1222TL_IsBusy` true: a pending request, or a link that is not ready. A message of
neither standard (`c1222al_tlinterface.c:386-415`) is logged and changes nothing, a stutter:
`Arrival` has no branch for it.

`DataLink` has two ends that are symmetric but for the empty packets of the
communication module. `phase` says where in a sending call an end is: `sending` (before
`HandleReceiveInProgress`), `receiving` (in its loop for the rest of a message), `ready`
(before the packet is put on the line), `waiting` (in `WaitForAck`), `idle` otherwise.
`StartMessage` is `C1222DL_SendMessage` up to the first packet; the packets that follow
are started where the acknowledgement of the one before is received. A payload is counted
in packets, a packet holds the message it is of and its place in it, and equal content with
equal toggle bit is an equal CRC. `wire` holds what is on the way to each end; `Put` delivers,
loses or damages what is put on it. `rx` is what `ProcessReceivedPacket` remembers,
`transport` what `C1222TL_DLNotePacketReceived` has put together. `sent`, `received` and
`told` are history.

What `DataLink` assumes of its environment: the peer answers within the response timeout,
so that a timeout fires only when nothing is on the way (answers that come late are those
to repeated packets, which it has); a damaged acknowledgement is never read as another
meaningful byte; the physical layer keeps what has arrived until it is read, as those under
`tools/` do. Transparency is off, as in this configuration, and packets for local ports and
the detection of the byte order of the CRC are left out.

`Transport` divides `C1222TL_Run` and the handlers of received messages at the calls of the
data link that block: `calls` holds what an end is still to send, in order, and each call
ends in `CallSucceeds`, `CallFails`, or, when only the acknowledgement is missing, in
`CallIsNotAcknowledged` and a failure. What comes after the call in the code is in
`AfterSuccess` and `AfterFailure`. `RunReset`, `RunInit`, `RunNeedConfig`, `RunDisconnected`,
`HandleDelayedRequests` and `FailureIsDue` are the branches of `C1222TL_Run`; the actions
`Handle...` are those of `HandleReceivedTransportMessage`. A response carries in `to` what it
answers, which the code cannot see: a handler reads it only where a check of the length
would tell (`HandleConfiguration`), or to say that the answer to something else sets any
speed (`HandleNegotiated`). `running` is `deaf` in the nine seconds of `WaitABit`. Of the
data link only what `MessageLink` promises, the speed and the timeouts are left.

`Server` takes requests by name: their elements, in the order in which a caller built them,
are values of the constants. `ReceiveMessage` and `RefuseInsecure` are
`C1222AL_TLMessageReceived` for a complete message; `HandleMessage` is the turn of the
application's loop with `C1222Server_ProcessMessage`; `log` says what became of each message
and `answers` what was given to `SendMessage` for the last. The network may deliver any
request at any time and again, since its client or a relay repeats it. An answer is built
element by element, with the lengths that the encoders give, and is checked with the same
operators with which a receiver recognises, decrypts and authenticates it. What a table
server answers to a read is an input: a code and a length.

`MessageSender` cuts a message into segments with the arithmetic of
`C1222ALSegmenter_SetUnsegmentedMessage` and `GetSegment`, on messages built by `AcseMessage`,
and gives them to the table of a receiver (`DisjointSegments`), which refuses a segment when it has no room
for it (`AddSegment`). `calling` is the function that
waits in `C1222TL_SendACSEMessage`; the call ends in `TransportTakes`, `TransportFails` or
`GetSegmentFails`. Answers come late, out of their time and for what is pending then, as in
`ProcessResponseMessage`. A message that cannot be split is the working message nevertheless,
with the number of segments of the one before. A segment beyond the end of a message, which
only a refused message can come to, has undefined bytes and is not made: no behaviour goes on
from there. The arithmetic of the largest payloads needs `SplitAssumption`, that the first
segment holds at least the 60 and the length of the message.

`Registration` keeps the flags of the status record that scheduling, sending, responses and
procedures share. A request is named by the variable that holds its invocation id; one that is
replaced keeps its name `last` on the network, and older ones are forgotten, since the device
answers nothing to their responses. `RunDevice` is divided at its states: `HandleRegistration`,
`HandleDeRegistration`, `KeepAlive` and `WaitingToRegisterEnds` in the idle state, the four
`...TimesOut` and `...IsGivenUp` in the others. `SendSucceeds`, `SendFails` and `LinkFails` stand
for the message sender and the transport. `IsAbandoned` names what a failed link leaves
behind and only a new start, or the next message, clears.

Time in `Transport`. Timeouts differ by orders of magnitude, and which comes first matters:
with timers that may fire in any order the two ends can reset each other for ever. A poll,
an answer and a call of one try (2 s) come before the rest: a timeout that fires while one
is under way (`InProgress`) is charged to `faults`, of which there are `MaxFaults`. The
traffic timeout (6 s) may fire freely when the ends differ in speed or nobody has anything to
say (`LineIsQuiet`), and is a fault otherwise. Timeouts longer than that (15, 30 and 60 s)
matter only on a line that keep alives hold up (`LineIsAlive`).

Operators with a comment "a mutation of ..." are variants of the definition that
follows them with a plausible fault; nothing in a specification uses them. They document
which fault each property detects.

## 3. The runs

| run | checks | bounds |
|---|---|---|
| `receive_segmenter` | `SegmenterTypeOK`, `TableIsSeparate`, `NoGapIsDelivered`, `NoMixedSegments`, `IncompleteTimesOut`, `NothingReceivedIsLost` of the receive segmenter; the array of its table implements the set (`ImplementsSet`) | buffer of 8 bytes, table of 3, four messages: two that differ in the ApTitle only, one in the sequence only, one whole. A new segment can touch two old ones on either side while a third is kept, and the table can be full of entries with gaps between |
| `receive_ordered` | `TypeOK`, `AvailableIsHeld`, `AnswerToRequester`, `AcceptedIsTaken` when peers send nothing during waits | 4 bytes, 2 entries, six messages of two peers, one of each kind; one wait |
| `receive_nested` | `ImplementsSegmenter`, `NETROnlyWhileHandling`, and `TransportIsReleased` under fairness, with arrivals inside waits | 2 bytes, 3 messages, waits two deep |
| `datalink_reliable` | `ImplementsMessageLink`, `SendSucceeds` under fairness | three messages of one or two packets from either end, two faults, three tries: a packet never loses all its tries |
| `datalink_recovers` | `TypeOK`, `MessageIsWhole` with link resets and power failures at any moment | two messages of three packets that differ, one fault, two tries: a packet may be lost for good |
| `datalink_collides` | `SendReturns` under fairness when both ends send at once | two messages of any kind (one try, empty, two packets), one fault |
| `datalink_ack` | violation of `AckedIsReceived` | see findings |
| `transport_recovers` | `TypeOK`, `LinkIsUp`, and `LinkComesUp` (which states its bound: two faults and one request), `SendEnds` under fairness | two faults (a call that fails, a timeout too early), one of: a message, a request of the device, a reset or restart of either end, a power up; two speeds, which the ends can disagree on |
| `server` | `NoRepeat`, `OnlyDuplicatesAreDropped`, `AnswersAreRead`, `DataIsProtected`, `AnswersFit`, `OneAnswer` | ten messages: both standards, plain, encrypted, authenticated, with an unknown key, with the caller's title in three forms or missing, a response of the communication module, a broken epsem under another root; four answers that fill the buffer, of which one leaves a request without a response and one is outgrown by an identification. Four receptions of at most three different messages, a ring of two, a lifetime of 0 in two ticks, ids that wrap |
| `sender` | `TypeOK`, `SegmentsFit`, `SegmentsAreRecognized`, `CompleteIsReceived`, `SendEnds` under fairness | four messages of 1 to 9 segments over two packet sizes, with offsets and lengths of one and two bytes, and one that cannot be split; two sends, one fault besides timeouts and late answers, one retry as in the code |
| `registration` | `WaitsForItsRequest`, and `RegistersUnlessAbandoned`, `DeRegistrationEnds`, `ProcedureEnds` under fairness | three faults (a failed send or link, a loss, a refusal, an early timeout, an outage), two calls of the application |
| `registration_abandoned` | violation of `Registers` | one fault; see findings |

`MaxNesting` bounds the waits within one another; the code has no bound, and the proofs
have none either. Two levels are enough for the shape of the interaction: an inner wait
can change what the outer one relies on, a third level repeats the second.
`MaxMessageLength` is 643 or more in the code and `MaxDisjointSegments` 10. What the
table does depends on how intervals touch and on whether there is room, which three
entries over eight bytes show in all combinations.

The faults, tries and messages of the data link's runs are small because its state is: a
toggle bit, the last packet, the place in one message. What matters is their order: fewer
faults than tries (the link hides them) and no fewer (a send fails); a message before and
one after each failure; three packets, so that one can be lost between two that arrive.

The faults of `transport_recovers` may fall anywhere, in the recovery from one another or from
the restart too. With one fault and two requests, half a million states, the link comes up as
well. The invariants alone were checked with two of each and with three faults.

**What two faults and two requests show.** `LinkComesUp` claims no more than two faults and one
request, because beyond that it is false of the code: with `MaxRequests = 2`, two faults, one speed
and resets only, TLC finds a behaviour in which the link does not come up (`LinkIsBroughtUp`).
A request for the configuration stays in `delayedRequests` over a reset (only `CommonInit` and a
power up clear them), and the error answer to an old message clears the pending negotiate
request (`NoteRequest` keeps no number). Together they let the communication module get its
configuration and become `TLS_NORMAL` without having negotiated. Its keep alives then hold the
line up, and `C1222TL_IsBusy` stays TRUE for it: it never sends for its application again, until
someone resets the link. `LinkIsUp` therefore claims no more of the communication module than
its configuration. The retry that would help, "once in a while we should send the negotiate
request again" (`c1222tl.c:316`), is never done: `!p->status.delayedRequests &
C1222TL_DELAYED_NEGOTIATE` is (0 or 1) & 8. On a line that is not kept alive the traffic timeout
negotiates instead.

Deadlock is checked everywhere but in the runs of `Transport`, `Server`, `MessageSender` and
`Registration`: with the bounds used, a link that is up, a server without requests, a sender
without messages and a registered device have nothing left to do.

In `server` the ring has two places for the code's five and time two ticks, since what it does
depends on whether a place is reused and whether an entry has expired; four receptions give a
request, two others that push it out, and its repetition, which are three different ones. `NoRepeat` leaves out what the code
leaves out on purpose (the communication module's requests) and by the shape of its comparison:
a title under another root than C12.22's has no relative form and is never equal to another, so
a request that carries one is executed each time it comes. Whether the retry of a request that
was executed should be answered is not asked: the code drops it without an answer.
`CompleteIsReceived` leaves out a message of which the peer refused a segment: an OK that comes
after its timeout is credited to a later segment, and a refusal may then be skipped over.

**`Collisions`.** With this constant FALSE an end starts to send only when nothing is on the
line and no call is in progress. `ImplementsMessageLink`, `SendSucceeds` and
`MessageIsWhole` are stated for this case, which is what a link whose ends take turns gives.
With it TRUE the acknowledgement of a repeated packet can be taken for the next
packet's (`datalink_ack`), which breaks all three, the last for messages of three packets
or more; `datalink_collides` shows that both ends at least get out of it.
`Failures` adds traffic timeouts and power failures.

**What an identification outgrows.** The server compares every response but an identification with
the room that is left; that one writes its 49 bytes wherever the others ended
(`c1222server.c:168`), and answers that are too large come of it. `AnswersFit` states the condition (`HasRoom`: the identifications of the message leave its
responses within their 515 bytes) and says that nothing else makes an answer too large; one of
the ten messages breaks the condition. `OneAnswer` states it too, where it says that no second
answer is sent: the refusal of an answer that cannot be built leaves the code of an earlier
request in `processMessageResponse`, and that is sent behind it.

**What a link control takes over.** `RegisterNow`, `DeRegisterNow` and link control share the record
of the procedure in process. A link control sets its number to 25, and the polls for the results of
the other two answer IAR from then on (`IsForeign`). `ProcedureEnds` names that case and leaves it
out.

**`PeersWait`.** With this constant TRUE no message arrives while the stack waits or has
a request pending: a half duplex link whose peer does not send before it is answered.
`AvailableIsHeld`, `AnswerToRequester` and `AcceptedIsTaken` hold only then. The code expects
more, since a complete message can be received while another is handled (`c1222tl.c:1194`); section 4
says what such a message does inside a wait. With `PeersWait = FALSE` in `ReceiveOrdered.cfg` (and
`RequireSecurity = TRUE` for the first) TLC shows `AvailableIsHeld` and `AnswerToRequester` violated.
What the flag of the OK owed suffers inside a wait cannot happen with `PeersWait`, so no
property of that run speaks of it; `NETROnlyWhileHandling`, in `receive_nested`, does, and says
only that the flag does not stay set.

**Fairness** (`FairSpec`). The application's loop comes round and finishes with a message
(`WF` of `AppNext`); a wait ends, since it is a loop of at most five seconds
(`WaitReturns`); the transport gets an answer or times its request out
(`RequestCompletes`); the application layer times a send out (`SendTimesOut`). Nothing is
assumed of the peers, of the link, or of the order of these. In `Transport` time passes
(`WF` of `Next`); both stacks are polled, a blocking call returns and the nine seconds end
(`Proceed`); and the delay of a request and the traffic timeout, which other steps disable for
a moment without setting their clocks back, expire in the end (`SF`). In `MessageSender` a call of the
transport returns, the send timeout passes and `DeviceSendingMessage` is polled; of answers
nothing is assumed, they may never come. In `Registration` the loop polls the device, its
delays pass, sends end, the module reports the synchronization, fetches the configuration and
answers, and a message that is not lost reaches the relay and its response the device;
nothing is assumed of the application, of faults or of the order of events. `Server` has no
fairness. In `DataLink` both ends are
polled (`Run`), and a call that sends goes on (`Send`, `WaitForAck`): its loops read what
arrives and otherwise end by their timeouts. Nothing is assumed of when an end sends.

## 4. Findings

- `datalink_ack`: an acknowledgement is "of the previous packet" (`c1222dl_packet.c:75`), but
  it is one byte that names none. When both ends send at once each repeats its packet and
  gets two acknowledgements; the second counts for the next packet (`c1222dl.c:1719`). A
  message is told to be sent and never arrives, on a line that loses nothing.
- `registration_abandoned`: "if not registered, better register" (`c1222al_device.c:934`) is not
  reached while `registrationInProgress` is set. When the sending of a registration request fails
  after it was set, or the link while its response is awaited, the state becomes idle and nobody
  waits, so nobody clears it: the device never registers again until a firmware download starts
  its application layer anew, and `RegisterNow` answers busy.

What the code does and no run of its own shows:

- The SME response to a refused plain text message is sent with `C1222AL_SendMessage`, which waits
  until the transport is free, and the message receiver is cleared after that
  (`c1222al_tlinterface.c:120`). A message announced to the application inside the wait is cleared and
  stays announced, though `C1222Stack_IsMessageAvailable` "returns true when a complete message is
  available" (`c1222stack.c:58`).
- A response is given a pointer to "the native address" that "is already stored in the message
  receiver" (`c1222al_tlinterface.c:67`, `c1222al.c:1851`), which is read after the wait. A message of another
  node inside the wait stores its address there, and gets the response.
- An error returned by `C1222AL_TLMessageReceived` resets `isSendMessageOKResponsePending`
  (`c1222tl.c:2247`), which after a wait may be another message's: that one gets no OK, and others are
  taken while it is handled. `PendingAfter` of `ReceivePath` models this.
- The negotiate request that is due "once in a while" (`c1222tl.c:316`) is never sent again; see section 3.
- A read of 500 bytes and an identification in one message make more responses than the epsem has
  room for (`c1222server.c:168`); the code notices when it puts the answer together, after it has
  executed all the requests, and answers RSTL. The message `identify` of `MCServer` is one.
- The poll for the result of a procedure "returns busy if still in progress, else the psem response
  code" (`c1222al_device.c:620`, `642`). After a link control (line 530) it answers IAR while the
  procedure runs, and when it has completed.
- When a packet in the middle of a message fails, `C1222DL_AddMessagePart` adds all the packets
  that remain to the next one (`c1222dl.c:702`), whose buffer is for one. `GiveUp` of `DataLink`
  models this.
- An unsegmented message and an own request leave an entry in the table of segments while the
  state is `ALSG_CLEAR`, where `SetSegment` does not compare ApTitles
  (`c1222al_segmenter.c:824-828`): if nothing clears it, the first segment of the next message is
  merged with it.
- A packet lost for good flips the toggle bit too: the next message, when equal to the last one
  received, is then dropped as its duplicate (`c1222dl.c:1505`).
- An epsem that asks for an answer only on an exception gets one when its last request has no
  room for a response, not even for an error code (`c1222server.c:1083`): an answer in which every
  response says OK and one is missing. `OneAnswer` counts that as telling the exception.
- A registration that is refused notes a result only when a *de*registration is in progress
  (`c1222al.c:2573`).

## 5. What is proved

All proofs are for every value of the constants that satisfies the named assumptions
`BufferAssumption` (the sizes are positive naturals), `SegmenterAssumption` and
`ReceivePathAssumption` (the shape of messages), and `DataLinkAssumption` (two ends, and
messages that `c1222tl.c` sends: one-try messages are of one packet at most),
`TransportAssumption` (two ends, the speeds, what the device requests), `HistoryAssumption` (the
ring has a place) `ServerAssumption` (a request that names no caller is not numbered 0:
`GetNextApInvocationId` skips it, and an entry that has just been zeroed would match),
`RequestsAssumption` (a request is a message, its epsem requests and responses with lengths),
`NodeAssumption` (the device has an ApTitle that fits its buffer; `C1222_APTITLE_LENGTH` is 20, and an
answer would fit with titles of up to 22 bytes) and `SenderAssumption`: a message to send is one that a
node recognizes and that its buffer holds (`OutgoingAssumption`), no length needs more than the 16 bits of
the code, a fragment is no larger than the buffer of a segment, and a segment holds the start of a message
(`SplitAssumption`; the proofs do not use it, the model's arithmetic does). TLC evaluates these assumptions on the
passing runs.

1. `DisjointSegmentsProofs`, the table: inserting an interval into a set of separate intervals gives
   such a set again (`InsertIsDisjoint`), within the array (`InsertFits`), that covers
   the old bytes (`InsertForgetsNothing`) and no byte but those of the old ones and the new
   (`InsertClaimsNoMore`). The last needs the hull of the touched intervals to have no
   gap, because each touches the new one (`HullBounds`).
   And the loops over the array: the entry grown so far is the hull of the new segment and what the loop
   found to touch it, so it reaches no further than they do, and touches another entry only if the new
   segment does (`GrownTouches`). That is why one pass is enough, though the entries are in order of
   arrival and the working entry grows while they are compared with it (`VisitGrows`, `SwallowIs`). What
   is left when the marked entries are deleted is the set after the insertion, no entry twice (`MergedIs`).
2. `ReceivePathProofs`, the segmenter: `Good(s)` is inductive. The state invariants alone are not: that a
   message which is complete came whole needs that every byte the table counts was
   written, and that the segments in the buffer are of one message needs that a CLEAR
   segmenter holds no segment at all, though it may hold whole messages
   (`ClearHoldsNoSegment`). Each call preserves `Good` (`ClearedIsGood`, `AddSegmentIsGood`,
   `BuildIsGood`).
3. `ReceivePathProofs`, the receive segmenter: `SegmenterSpec => []Good(segmenter)`, and from it the five
   invariants of the run and the action property `NothingReceivedIsLost`.
4. `ReceivePathProofs`, the path: every step of the path is a step of the segmenter or a stutter
   (`PathImplementsSegmenter`), so its invariants hold in the path; the type invariant and
   `NETROnlyWhileHandling`, for every depth of nesting. The invariant is
   `Good(segmenter) /\ TypeOK /\ NETROnlyWhileHandling`.
   With `PeersWait`, two properties of `receive_ordered` (`PathAvailableIsHeld`,
   `PathAcceptedIsTaken`), by `OrderInv`: from the moment the transport owes an OK until the flag is
   reset, the application has the message, the buffer holds it complete, and nothing waits
   (`HoldsWhatIsOwed`). So no arrival, timer or own request comes between. `AnswerToRequester` is only
   model-checked: it also rests on what the messages of the run satisfy and nobody checks, that two nodes
   do not use one pair of ApTitle and sequence (the segmenter compares no more, and both would fill one
   buffer).
   At its end, the array: `SegmentTable` implements `SegmentSet` (`ArrayImplementsSet`), by the
   invariant that the entries at different places neither overlap nor touch (`ArrayIsSeparate`):
   then there are as many entries as places, and the array is full when the set is.
5. `DataLinkProofs`: the type invariant of the link, with the bound on the tries of a packet,
   whatever collides or fails. It needs that an end in the middle of a send has a packet
   (`SendersHavePackets`): every retry and every following packet reads it.
   `MessageIsWhole` is proved for ends that take turns (`~Collisions`), with every fault, timeout and
   power failure. Its invariant `WholeInv` says that only one end sends at a time and only what the other
   may read is on the line (`TakesTurns`), and that a receiver holds the beginning of one message, in
   order (`HoldsBeginning`). A packet that could be lost between two that arrive cannot be: the sender goes
   on only after an acknowledgement, and while it is on its way the receiver has that packet
   (`HoldsOneMessage`).
   `DataLinkImplementsMessageLink` is the refinement, step by step, for a line that spoils no more
   than the tries of a packet (`LosesNoPacket`: `~Collisions`, `~Failures`, no message of one try,
   `MaxFaults <= MaxRetries`, which is what the run `datalink_reliable` has). The mapping needs
   that the ends agree between messages (`InAgreement`: toggle bits and counts are equal), that during
   one the receiver has the packet or is about to take it and not to take it for a
   duplicate (`InProgress`), and that every failed try has cost a fault.
6. `TransportProofs`: the type invariant of the transports, inductive as it stands, says
   that the tries of a message stay in what `C1222_APPLICATION_RETRIES` allows, and that what
   is pending, delayed, being sent or in the receive buffer is always a message of the
   protocol, although a failed request is put back from the call that failed.
   `TransportLinkIsUp` is by `LinkInv`: the roles of the ends (only the device answers a negotiation
   or a request for the configuration, `Roles`); that the module has no
   configuration from the moment it decides to negotiate until it is answered
   (`CommModuleIsConsistent`); and that when the module has its configuration, or will take what it
   received for it, the device knows of the module or will negotiate again before it is ready
   (`DeviceKnows`). Twenty of the actions leave all this alone (`Calm`), twelve have a lemma each.
   It needs two speeds, or no power up (the run has both two speeds and power ups). With one speed and a power
   up it is false, by two faults and two requests, in 30 states: a negotiation that is already in
   the device's buffer is handled after the power up was noted, which clears `commModulePresent`;
   the module takes an older answer for its configuration, and its later request for it is
   replaced by a message to send. The device has then negotiated, was never told of the module, and
   `C1222TL_IsBusy` stays TRUE for it on a line that keep alives hold up. With two speeds
   the power up sets the device back to the default speed, the traffic timeout
   follows, and both negotiate again.
7. `RegistrationProofs`: types and `WaitsForItsRequest` together, for any number of faults and
   calls. They are inductive as they stand, because every step that clears a flag leaves the state
   that waits for it, and `AfterSend` chooses the state by the flags. Each operator on the device has
   a lemma of its type, each action a step.
8. `ServerProofs`: `NoRepeat` and `OnlyDuplicatesAreDropped`, for every set of requests, ring and
   lifetime. The two properties speak of the log, the code of the ring, so the invariant relates
   them in both directions: every entry in use is that of an execution (`HistoryIsLogged`), and an
   execution is in the ring, no deeper than as many as have come after it (`LoggedIsHeld`), until
   it expires or is pushed out. Of the actions, five shapes matter to the ring (`Steps`); the age of
   an entry grows by one when another is added (`AddedAges`), and so does the count of those that
   came after it (`NotedGrows`).

9. `AcseMessageProofs`: what the operators on messages compute, for messages of any number of
   elements. They are sums and searches over sequences, so the lemmas are by induction: the
   library's theorems of induction take a predicate as a parameter, which the provers cannot
   instantiate, and a set of numbers that holds 0 and with n also n + 1 says the same (`Induction`).
   A length is a `Total`, whose recursive function exists and is unique (`SumsExist`,
   `TotalAddsUp`), and is that of the parts when lists are put together (`TotalOfConcat`,
   `ListsConcat`); what is found in two lists is found in the first that has it (`FindsInConcat`); a
   list whose tags come within a range of places of a standard passes its check
   (`InOrderIsOK`), and so do two lists of ranges that follow each other (`ConcatInOrder`).
10. `ServerProofs`, the answers: `AnswersAreRead`, `DataIsProtected`, `AnswersFit` and `OneAnswer`, for
   every set of requests, of keys, of answers of the table server, and every ApTitle and id of the
   device. An answer is put together of the pieces of its header, each of at most one element
   (`HeaderPiece`), which come in the order of the standard and take at most 103 bytes
   (`HeaderIs`, `HeaderTakes`); with the user information behind it (`InformedReads`), and after it is
   encrypted or its code is filled in (`ReplacedReads`), a caller finds in it what
   it asked for (`Reads`, `ReadsAreRead`), and a node with the key of the request opens it and finds the
   code right (`ProtectedAs`), since the code does not cover the element it is filled into
   (`SameCalling`). The loop over the requests of a message keeps `Progress`: the responses take what was
   counted, there is one for each request until the room is used up, and an exception is told
   (`RequestsAreProcessed`, by induction). `AnswersInv` relates all that to the log and the state.
   No hypothesis on the requests is left: where an identification outgrows its room the two
   properties say so themselves (`HasRoom`), and what they say of every other answer is proved.

11. `MessageSenderProofs`: what a message is cut into, and what the peer has of it, for all messages that a
   node recognizes, all fragment sizes, any number of retries and faults, and any size of the peer's table.
   A segment is put together of what is copied and its mark, which stand in the order of its standard
   and take what the split counted for them (`HeaderIs`), and its data. So a receiver finds in it what
   was put in and takes it for a segment (`SegmentIsRead`), and with a part no longer than the split
   has it, the whole is no longer than a fragment, and every check of `GetSegment` that asks for more room
   than an element takes is passed too (`SegmentHasRoom`, by `Room2006` and `Room2008`: a length that
   fits in a fragment takes no more bytes than the split allowed for one). The parts begin in the message
   and reach its end (`SplitIs`).
   The invariant `SenderInv` says that the split is that of the working message unless it was refused
   (`IsSplitOfWorking`), and that otherwise it still is one of some message and fragment size
   (`IsSplit`): a message that cannot be split is sent again with the split of the one before, and
   what the peer gets then must not be mistaken. `CompleteIsReceived` needs `Covered`: as long as nothing was
   refused, the entry of the table that begins at 0 reaches to the segment sent next. Each segment touches
   that entry and extends it (`InsertReaches`), a repeated one is found in it since no two
   entries touch (`KeptReaches`), and when it reaches the end there is no other (`ReachesAll`), so the
   peer has the message whole. A count that has come to the number of segments would be beyond the end.

Only model-checked: liveness (`TransportIsReleased`, `SendReturns`, `SendSucceeds`, `LinkComesUp`,
`SendEnds`, `RegistersUnlessAbandoned`, `DeRegistrationEnds`, `ProcedureEnds`), which is out of the
prover's reach.

## 6. Not modelled

- The receive buffer of the transport in `ReceivePath`, from which error answers are built.
- The communication module (`c1222al_commmodule.c`): its registration for the device follows the
  scheme of the device's over a network interface that the repository leaves to its user; its end
  of the link is in `DataLink` and `Transport`.
- The local port router and the relay: two stacks composed are out of TLC's reach, and the
  README of the repository says that local port routing was not tested.
- The detection of the byte order of the CRC, transparency (`C1222STACK_WANTTRANSPARENCY` is FALSE
  in this configuration) and short messages (compiled out).
- In `Transport`: local ports, requests for the registration status and the new start after a
  download of the communication module's firmware; a message there has one segment.
- In `Registration`: the requests that only poll the interface, and the refresh of statistics that
  follows a registration.
- In `Server`: the logon, security and wait services, which answer SNS or OK and keep no state, what
  a disconnect starts (`Registration` has it as `SendLinkControl`), and the services of a communication
  module. `IsMessageForMe` has no caller. That the encryption of an answer or its authentication
  fails (`c1222server.c:1013-1018`) is left out because it cannot: both work on elements that were just
  built, padded and of less than 1000 bytes, with the key that opened the request.
- Segments of 2006 with the invocation id 0x0202 whose data starts with 28: the standard of a
  fragment's user information is taken from the message it was cut from.
- Of the codecs, bytes: an element is its tag, its length and what it says. The EPSEM codec is
  modelled by lengths, the encryption by seals.
- The physical layer, logging and statistics, the facade that forwards calls, tools and test
  programs.
- Segment offsets near 65535, where the 16 bit sum in `isSegmentAlreadyReceived` wraps, and
  payloads shorter than the header of a first segment (`SplitAssumption`), are outside the bounds.

What would come next: the composition of `Registration` with the pending request of `Transport`;
the detection of the byte order in `DataLink`.
